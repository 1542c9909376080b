----------------------------- MODULE MonRetention -----------------------------
(***************************************************************************)
(* How long event rows are kept: the loop that scans for alerts also       *)
(* deletes, once after each change of the date, the rows older than the    *)
(* retention, in statements of a bounded number of rows.                   *)
(*                                                                         *)
(* Time goes in units of a fraction of a day, longer than the alert window *)
(* and than the ticker's interval: in every unit the loop comes round once *)
(* at least.  The scan itself is MonAlerts and touches no event row.       *)
(***************************************************************************)
EXTENDS MonEvents

CONSTANTS Process,       \* they run the loop; one in production, more in an overlap
          DayLength,     \* units of a day
          RetentionDays, \* MON_RETENTION_DAYS
          BatchLimit,    \* the LIMIT of the DELETE
          Horizon,       \* the time the model ends (bounds TLC)
          MaxKept,       \* event rows at any time (bounds TLC)
          MaxSkips       \* restarts and failed cleanups (bounds TLC)

ASSUME MonRetentionAssumption ==
    /\ Process # {}
    /\ {DayLength, RetentionDays, BatchLimit} \subseteq Nat \ {0}
    /\ {Horizon, MaxKept, MaxSkips} \subseteq Nat

Time == 0..Horizon

VARIABLES
    now,    \* the time
    kept,   \* mon_event: the rows by the time they were stored
    loop,   \* where each loop is, and what it knows
    skips   \* history: starts after the first and failed cleanups

retentionVars == <<now, kept, loop, skips>>
allVars == <<eventVars, retentionVars>>

RetentionTypeOK ==
    /\ EventTypeOK
    /\ now \in Time
    /\ kept \in [Time -> Nat]
    /\ \A j \in Process : loop[j] \in
          [pc : {"start", "wait", "delete"}, lastCleanupDay : Nat,
           before : Int, seen : Int]
    /\ skips \in Nat

Started == [pc |-> "start", lastCleanupDay |-> 0, before |-> 0, seen |-> -1]

RetentionInit ==
    /\ EventInit
    /\ now = 0
    /\ kept = [t \in Time |-> 0]
    /\ loop = [j \in Process |-> Started]
    /\ skips = 0

Today == now \div DayLength

Kept == MapThenSumSet(LAMBDA t : kept[t], Time)

-------------------------------------------------------------------------------
\* Time passes once every loop has come round and the window has moved on.
Pass ==
    /\ now < Horizon
    /\ \A j \in Process : loop[j].pc = "wait" /\ loop[j].seen = now
    /\ TotalRows = 0
    /\ now' = now + 1
    /\ UNCHANGED <<eventVars, kept, loop, skips>>

IngestRows ==
    /\ \E posted \in Batch : IngestEvents(posted)
    /\ kept' = [kept EXCEPT ![now] = @ + TotalRows' - TotalRows]
    /\ Kept + TotalRows' - TotalRows <= MaxKept
    /\ UNCHANGED <<now, loop, skips>>

WindowMoves ==
    /\ \E p \in Project, t \in Class : LeaveWindow(p, t)
    /\ UNCHANGED retentionVars

\* The first scan is over: the day counts as cleaned up.
StartMonAlertJob(j) ==
    /\ loop[j].pc = "start"
    /\ loop' = [loop EXCEPT ![j] = [pc |-> "wait", lastCleanupDay |-> Today,
                                    before |-> 0, seen |-> now]]
    /\ UNCHANGED <<eventVars, now, kept, skips>>

\* The ticker fires, the scan runs, and the date is compared.
TickerFires(j) ==
    /\ loop[j].pc = "wait"
    /\ loop[j].seen # now
    /\ loop' = [loop EXCEPT ![j] =
                   IF Today # @.lastCleanupDay
                   THEN [pc |-> "delete", lastCleanupDay |-> Today, seen |-> now,
                         before |-> now - RetentionDays * DayLength]
                   ELSE [@ EXCEPT !.seen = now]]
    /\ UNCHANGED <<eventVars, now, kept, skips>>

CleanedOnce(n) == TRUE             \* faulty: one DELETE a day
CleanedByCount(n) == n < 0         \* faulty: runs on when nothing is left
CleanedUp(n) == n < BatchLimit

\* One DELETE takes any rows before the cutoff, up to its limit.
Expired(cutoff) == {t \in Time : t < cutoff /\ kept[t] > 0}

DeleteMonEventsBefore(j) ==
    LET old  == Expired(loop[j].before)
        many == MapThenSumSet(LAMBDA t : kept[t], old)
    IN  /\ loop[j].pc = "delete"
        /\ \E taken \in [old -> 0..BatchLimit] :
              LET n == MapThenSumSet(LAMBDA t : taken[t], old)
              IN  /\ \A t \in old : taken[t] <= kept[t]
                  /\ n = Min({BatchLimit, many})
                  /\ kept' = [t \in Time |-> IF t \in old THEN kept[t] - taken[t]
                                                          ELSE kept[t]]
                  /\ loop' = IF CleanedUp(n)
                             THEN [loop EXCEPT ![j].pc = "wait", ![j].before = 0]
                             ELSE loop
        /\ UNCHANGED <<eventVars, now, skips>>

Skip == skips < MaxSkips /\ skips' = skips + 1

\* A DELETE fails: logged, and the day counts as cleaned up all the same.
CleanupFails(j) ==
    /\ loop[j].pc = "delete"
    /\ Skip
    /\ loop' = [loop EXCEPT ![j].pc = "wait", ![j].before = 0]
    /\ UNCHANGED <<eventVars, now, kept>>

StartAgain(j) ==
    /\ Skip
    /\ loop' = [loop EXCEPT ![j] = Started]
    /\ UNCHANGED <<eventVars, now, kept>>

Loop(j) == StartMonAlertJob(j) \/ TickerFires(j) \/ DeleteMonEventsBefore(j)

RetentionNext ==
    \/ Pass
    \/ IngestRows
    \/ WindowMoves
    \/ \E j \in Process : Loop(j) \/ CleanupFails(j) \/ StartAgain(j)

\* The loop goes on; time, events and failures need not.
RetentionSpec == /\ RetentionInit /\ [][RetentionNext]_allVars
                 /\ \A j \in Process : WF_allVars(Loop(j))

-------------------------------------------------------------------------------
\* No row outlives its retention by more than a day, and a day more for each
\* start or failure that made the loop skip a cleanup: the date is noted at the
\* start and before the cleanup, whether or not it succeeds
\* (service.StartMonAlertJob 85-95, cleanupMonEvents).
RetentionIsKept ==
    \A t \in Time :
        kept[t] > 0 => now - t <= (RetentionDays + 1 + skips) * DayLength

\* A cleanup comes to its end while events go on arriving and another process
\* may delete the same rows: the scans after it are not held up for ever
\* (service.cleanupMonEvents, "n < 5000").
CleanupEnds == \A j \in Process : loop[j].pc = "delete" ~> loop[j].pc # "delete"
===============================================================================
