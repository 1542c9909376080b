------------------------------ MODULE MonAlerts -------------------------------
(***************************************************************************)
(* Alerts over the stored events: a scan job that compares the rows of the *)
(* window with each rule's threshold, one pending alert per fault, a push  *)
(* to the chat robot for a new alert of the highest level, and the         *)
(* administrators' acknowledgement.                                        *)
(*                                                                         *)
(* A rule is the class it counts; a fault is a project and a rule (the     *)
(* environment is the one that is watched).  The alert table is kept per   *)
(* fault: a sequence of rows in the order of their ids.  Of the summary of *)
(* a fault's rows, a JSON text cut at a number of bytes, the model keeps   *)
(* whether the cut falls inside a character: the table then refuses it.    *)
(***************************************************************************)
EXTENDS MonEvents

CONSTANTS Rules,      \* the rules in the order a scan checks them
          Urgent,     \* the rules of level P0
          Threshold,  \* what the count of each rule must exceed
          Job,        \* the scan loops; one in production, more in an overlap
          MaxFailures \* database and robot failures and restarts (bounds TLC)

ASSUME MonAlertsAssumption ==
    /\ Rules \in Seq(Class) /\ Class = {Rules[i] : i \in DOMAIN Rules}
    /\ Urgent \subseteq Class
    /\ Threshold \in [Class -> Nat]
    /\ MaxFailures \in Nat

Fault == Project \X Class

VARIABLES
    torn,     \* whether the summary of each fault's rows ends inside a character
    alert,    \* mon_alert: the rows of each fault
    job,      \* where each scan loop is
    failures  \* history: failures and restarts so far

alertVars == <<torn, alert, job, failures>>
vars == <<eventVars, alertVars>>

Row == [status : {"pending", "acked"}, pushed : Nat]
Idle == [pc |-> "wait", todo |-> {}, project |-> NoProject, rule |-> 0, row |-> 0,
         torn |-> FALSE]

AlertTypeOK ==
    /\ EventTypeOK
    /\ torn \in [Fault -> BOOLEAN]
    /\ alert \in [Fault -> Seq(Row)]
    /\ \A j \in Job :
          /\ job[j].pc \in {"scan", "count", "detail", "find", "update",
                            "insert", "push", "wait"}
          /\ job[j].todo \in SUBSET Project
          /\ job[j].project \in Project \cup {NoProject}
          /\ job[j].rule \in 0..Len(Rules)
          /\ job[j].row \in Nat
          /\ job[j].torn \in BOOLEAN
    /\ failures \in Nat

\* The process starts with a scan (the ticker has not fired yet).
AlertInit ==
    /\ EventInit
    /\ torn = [f \in Fault |-> FALSE]
    /\ alert = [f \in Fault |-> <<>>]
    /\ job = [j \in Job |-> [Idle EXCEPT !.pc = "scan"]]
    /\ failures = 0

Fails == /\ failures < MaxFailures
         /\ failures' = failures + 1

Pending(f) == {n \in DOMAIN alert[f] : alert[f][n].status = "pending"}

\* uk_dedup_pending: one row per fault and status.
NoUniqueKey(f, status) == TRUE   \* faulty: the table without the key
UniqueKey(f, status) == \A n \in DOMAIN alert[f] : alert[f][n].status # status

\* The rows a rule counts; the empty project name filters nothing.
CountMonEventsWindow(f) ==
    IF f[1] = NoProject THEN MapThenSumSet(LAMBDA p : window[p][f[2]], Project)
                        ELSE window[f[1]][f[2]]

-------------------------------------------------------------------------------
(***************************************************************************)
(* The scan loop.  A scan walks the projects seen in the window, in any     *)
(* order, and the rules of each; every database call may fail, and then    *)
(* the scan goes on with the next rule, but for the queries of the summary *)
(* whose part is left empty.                                               *)
(***************************************************************************)
Goto(j, pc) == job' = [job EXCEPT ![j].pc = pc]

Watched(j) == <<job[j].project, Rules[job[j].rule]>>

\* The first rule of one of the projects, or the end of the scan.
Visit(j, projects) ==
    IF projects = {}
    THEN job' = [job EXCEPT ![j] = Idle]
    ELSE \E p \in projects :
            job' = [job EXCEPT ![j] =
                       [Idle EXCEPT !.pc = "count", !.project = p, !.rule = 1,
                                    !.todo = projects \ {p}]]

NextRule(j) ==
    IF job[j].rule < Len(Rules)
    THEN job' = [job EXCEPT ![j] = [job[j] EXCEPT !.pc = "count", !.rule = @ + 1,
                                                  !.row = 0, !.torn = FALSE]]
    ELSE Visit(j, job[j].todo)

Tick(j) ==
    /\ job[j].pc = "wait"
    /\ Goto(j, "scan")
    /\ UNCHANGED <<eventVars, torn, alert, failures>>

ListMonProjectsInWindow(j) ==
    /\ job[j].pc = "scan"
    /\ Visit(j, {p \in Project : \E t \in Class : window[p][t] > 0})
    /\ UNCHANGED <<eventVars, torn, alert, failures>>

CheckMonRule(j) ==
    /\ job[j].pc = "count"
    /\ IF CountMonEventsWindow(Watched(j)) > Threshold[Watched(j)[2]]
       THEN Goto(j, "detail")
       ELSE NextRule(j)
    /\ UNCHANGED <<eventVars, torn, alert, failures>>

\* The summary of the rows as they are now, marshalled and cut.
BuildMonAlertDetail(j) ==
    /\ job[j].pc = "detail"
    /\ job' = [job EXCEPT ![j].pc = "find", ![j].torn = torn[Watched(j)]]
    /\ UNCHANGED <<eventVars, torn, alert, failures>>

\* Queries of the summary fail: without their part the cut falls elsewhere.
DetailFails(j) ==
    /\ job[j].pc = "detail"
    /\ Fails
    /\ \E cut \in BOOLEAN : job' = [job EXCEPT ![j].pc = "find", ![j].torn = cut]
    /\ UNCHANGED <<eventVars, torn, alert>>

FindPendingMonAlert(j) ==
    /\ job[j].pc = "find"
    /\ IF Pending(Watched(j)) = {}
       THEN Goto(j, "insert")
       ELSE \E n \in Pending(Watched(j)) :
               job' = [job EXCEPT ![j].pc = "update", ![j].row = n]
    /\ UNCHANGED <<eventVars, torn, alert, failures>>

UpdateAndPush(j) ==   \* faulty: every scan of a lasting fault is pushed
    alert' = [alert EXCEPT ![Watched(j)][job[j].row].pushed = @ + 1]

UpdateReopens(j) ==   \* faulty: the UPDATE writes the status as well
    alert' = [alert EXCEPT ![Watched(j)][job[j].row].status = "pending"]

\* The UPDATE finds its row by id, whatever its status has become, and writes
\* the window, the count and the summary, which the model leaves out: with a
\* torn summary it is refused, and changes as little of what is modelled.
RollMetric(j) == UNCHANGED alert

UpdateMonAlertMetric(j) ==
    /\ job[j].pc = "update"
    /\ RollMetric(j)
    /\ NextRule(j)
    /\ UNCHANGED <<eventVars, torn, failures>>

Pushes(f) == f[2] \in Urgent

\* MySQL in its strict mode takes no text that ends inside a character.
Accepted(j) == ~job[j].torn /\ UniqueKey(Watched(j), "pending")

InsertMonAlert(j) ==
    LET f   == Watched(j)
        new == [status |-> "pending", pushed |-> 0]
    IN  /\ job[j].pc = "insert"
        /\ Accepted(j)
        /\ alert' = [alert EXCEPT ![f] = Append(@, new)]
        /\ IF Pushes(f)
           THEN job' = [job EXCEPT ![j].pc = "push", ![j].row = Len(alert[f]) + 1]
           ELSE NextRule(j)
        /\ UNCHANGED <<eventVars, torn, failures>>

\* faulty: the error is handed up and ends the scan
EndScan(j) == job' = [job EXCEPT ![j] = Idle]
AfterRefusal(j) == NextRule(j)

\* Another scan has inserted the alert since this one looked for it, or the
\* summary is torn: logged.
RefuseMonAlert(j) ==
    /\ job[j].pc = "insert"
    /\ ~Accepted(j)
    /\ AfterRefusal(j)
    /\ UNCHANGED <<eventVars, torn, alert, failures>>

PostMonWebhook(j) ==
    /\ job[j].pc = "push"
    /\ alert' = [alert EXCEPT ![Watched(j)][job[j].row].pushed = @ + 1]
    /\ NextRule(j)
    /\ UNCHANGED <<eventVars, torn, failures>>

\* A database call or the robot fails: logged, never repeated for this rule.
ScanFails(j) ==
    /\ Fails
    /\ \/ job[j].pc = "scan" /\ job' = [job EXCEPT ![j] = Idle]
       \/ job[j].pc \notin {"scan", "detail", "wait"} /\ NextRule(j)
    /\ UNCHANGED <<eventVars, torn, alert>>

\* The server is killed and started again: the scan begins anew.
Restart(j) ==
    /\ Fails
    /\ job[j].pc # "scan"
    /\ job' = [job EXCEPT ![j] = [Idle EXCEPT !.pc = "scan"]]
    /\ UNCHANGED <<eventVars, torn, alert>>

Scan(j) ==
    \/ ListMonProjectsInWindow(j) \/ CheckMonRule(j) \/ BuildMonAlertDetail(j)
    \/ FindPendingMonAlert(j) \/ UpdateMonAlertMetric(j)
    \/ InsertMonAlert(j) \/ RefuseMonAlert(j) \/ PostMonWebhook(j)

-------------------------------------------------------------------------------
(***************************************************************************)
(* The administrators: one UPDATE, conditional on the row being pending.   *)
(* Moving a row to "acked" is subject to the unique key as well.           *)
(***************************************************************************)
AckAnyRow(f, n) == TRUE   \* faulty: the UPDATE without "AND status = 'pending'"
AckTarget(f, n) == alert[f][n].status = "pending"

\* The other answers, "not pending" (404) and the key's violation (500),
\* change nothing.
AckMonAlert(f, n) ==
    /\ n \in DOMAIN alert[f]
    /\ AckTarget(f, n)
    /\ UniqueKey(f, "acked")
    /\ alert' = [alert EXCEPT ![f][n].status = "acked"]
    /\ UNCHANGED <<eventVars, torn, job, failures>>

\* Rows that come or go change the counts and texts of a fault's summary, and
\* with them where it is cut; without rows it is too short to be cut.
EventStep ==
    /\ EventNext
    /\ torn' \in [Fault -> BOOLEAN]
    /\ \A f \in Fault :
          /\ CountMonEventsWindow(f)' = CountMonEventsWindow(f) => torn'[f] = torn[f]
          /\ torn'[f] => CountMonEventsWindow(f)' > 0
    /\ UNCHANGED <<alert, job, failures>>

Next ==
    \/ EventStep
    \/ \E j \in Job : Tick(j) \/ Scan(j) \/ DetailFails(j) \/ ScanFails(j) \/ Restart(j)
    \/ \E f \in Fault : \E n \in DOMAIN alert[f] : AckMonAlert(f, n)

Spec == AlertInit /\ [][Next]_vars

\* The ticker fires and the loop is never blocked for ever: the robot's
\* client has a timeout.  Failures, events and administrators are not fair.
FairSpec == Spec /\ \A j \in Job : WF_vars(Tick(j) \/ Scan(j))

-------------------------------------------------------------------------------
(***************************************************************************)
(* Properties.                                                             *)
(***************************************************************************)
\* A fault has one pending alert at most, also when two scans overlap and both
\* find none (schema.sql uk_dedup_pending, repository.InsertMonAlert).
OnePendingPerFault == \A f \in Fault : Cardinality(Pending(f)) <= 1

\* The robot hears of an alert once, and only of the highest level, however
\* long the fault lasts and whoever else scans; it misses an urgent one only if
\* a failure or a restart got in between the INSERT and the push
\* (service.checkMonRule 170-182).
OnItsWay(f, n) ==
    \E j \in Job : job[j].pc = "push" /\ Watched(j) = f /\ job[j].row = n

UrgentIsPushedOnce ==
    \A f \in Fault : \A n \in DOMAIN alert[f] :
        /\ alert[f][n].pushed <= (IF f[2] \in Urgent THEN 1 ELSE 0)
        /\ f[2] \in Urgent /\ failures = 0
              => (alert[f][n].pushed = 0 <=> OnItsWay(f, n))

Lives == INSTANCE AlertLives WITH Loud <- {f \in Fault : Pushes(f)}

\* However scans overlap with each other, with acknowledgements and restarts, an
\* alert has one life: raised when no other is pending, told to the robot once at
\* most, closed for good.  A scan that found a row pending and writes it later must
\* not reopen it, and one that inserts must not do so twice
\* (repository.UpdateMonAlertMetric "不动 status", service.checkMonRule 155-182).
ImplementsAlertLives == Lives!LivesSpec

\* Every pending alert can be confirmed: "ack 释放唯一键可再开新单；不自动关单，
\* 人工 ack 收口" (PLAN-frontend-monitor.md:13).
AckClosesPending ==
    \A f \in Fault : Pending(f) # {} => UniqueKey(f, "acked")

Excess(f) == window[f[1]][f[2]] > Threshold[f[2]]

\* A fault that lasts gets its pending alert while others come and go, with
\* their own INSERTs refused scan after scan: no rule or project starves for
\* another's error.  The one that is never reported is the fault whose own
\* summary is torn, for as long as it is (service.StartMonAlertJob,
\* runMonAlertOnce, checkMonRule 148-178).
LastingFaultIsReported ==
    \A f \in Fault : Excess(f) ~> (~Excess(f) \/ torn[f] \/ Pending(f) # {})
===============================================================================
