------------------------------ MODULE MonEvents -------------------------------
(***************************************************************************)
(* Ingestion of front-end monitoring events: cleaning a batch, one INSERT  *)
(* for the whole batch, and the direct push that replaces storing when     *)
(* the persistence switch is off.                                          *)
(*                                                                         *)
(* Of an event the model keeps its project, its type (grouped into the     *)
(* class one alert rule counts; types no rule counts are left out).  A     *)
(* value that passed the service's cuts although its column cannot hold it *)
(* is one more way for the INSERT, and with it the batch, to fail.  Of the *)
(* event table the model keeps the rows inside the sliding alert window,   *)
(* counted per project and class.                                          *)
(***************************************************************************)
EXTENDS Integers, Sequences, FiniteSetsExt, SequencesExt

CONSTANTS Project,    \* project names seen in events; may contain NoProject
          NoProject,  \* the empty name of events older than the field
          Class,      \* classes of event types that an alert rule counts
          Unknown,    \* every type that is not on the list
          WhiteScreen, \* the classes pushed at once when nothing is stored
          MaxBatch,   \* monBatchMax, the longest batch that is looked at
          MaxPosted,  \* the longest batch a client posts (bounds TLC)
          MaxRows     \* rows per project and class in the window (bounds TLC)

ASSUME MonEventsAssumption ==
    /\ IsFiniteSet(Project) /\ IsFiniteSet(Class)
    /\ Unknown \notin Class
    /\ WhiteScreen \subseteq Class
    /\ MaxBatch \in Nat \ {0} /\ MaxPosted \in Nat /\ MaxRows \in Nat

Event == [project : Project, type : Class \cup {Unknown}]
\* A page posts the events of its own project.
Batch == {b \in BoundedSeq(Event, MaxPosted) :
              \A i \in DOMAIN b : b[i].project = b[1].project}

VARIABLES
    persist,  \* the switch MON_EVENT_PERSIST_ENABLED, fixed per process
    window,   \* rows of each project and class inside the alert window
    receipt,  \* the last answer: how many entries were accepted
    entries,  \* history: what the last request that was not stored posted
    cards     \* the messages the last request posted to the chat robot

eventVars == <<persist, window, receipt, entries, cards>>

EventTypeOK ==
    /\ persist \in BOOLEAN
    /\ window \in [Project -> [Class -> 0..MaxRows]]
    /\ receipt \in 0..MaxBatch
    /\ entries \in Seq(Event)
    /\ cards \in Seq(Event)

EventInit ==
    /\ persist \in BOOLEAN
    /\ window = [p \in Project |-> [t \in Class |-> 0]]
    /\ receipt = 0
    /\ entries = <<>>
    /\ cards = <<>>

AnyType(e) == TRUE   \* faulty: the list of types is not consulted

Clean(e) == e.type # Unknown

\* The rows that survive the cleaning in their order; upTo[n] of the
\* first n entries.
Cleaned(batch) ==
    LET upTo[n \in 0..Len(batch)] ==
            IF n = 0 THEN <<>>
            ELSE IF Clean(batch[n]) THEN Append(upTo[n - 1], batch[n]) ELSE upTo[n - 1]
    IN  upTo[Len(batch)]

RowsOf(rows, p, t) == Cardinality({i \in DOMAIN rows : rows[i].project = p
                                                       /\ rows[i].type = t})

Stored(rows) == [p \in Project |-> [t \in Class |->
                                    window[p][t] + RowsOf(rows, p, t)]]

\* Which rows of a cleaned batch are pushed when the switch is off.
PushedRowsOnce(rows) ==    \* faulty: stops after the first one
    LET all == {i \in DOMAIN rows : rows[i].type \in WhiteScreen}
    IN  IF all = {} THEN {} ELSE {Min(all)}
PushedRows(rows) == {i \in DOMAIN rows : rows[i].type \in WhiteScreen}

\* The card of row n is built from entry n of the uncleaned batch.
Cards(batch, rows) ==
    LET upTo[n \in 0..Len(rows)] ==
            IF n = 0 THEN <<>>
            ELSE IF n \in PushedRows(rows) THEN Append(upTo[n - 1], batch[n]) ELSE upTo[n - 1]
    IN  upTo[Len(rows)]

\* Entries beyond the batch limit are cut off before anything is counted.
Considered(posted) == SubSeq(posted, 1, Min({MaxBatch, Len(posted)}))

\* The switch is off: nothing is stored, white screens are pushed at once.
PushDirectly(posted) ==
    LET batch == Considered(posted)
        rows  == Cleaned(batch)
    IN  /\ ~persist
        /\ receipt' = Len(rows)
        /\ entries' = batch
        /\ cards' = Cards(batch, rows)
        /\ UNCHANGED <<persist, window>>

\* One INSERT takes all the rows.
InsertMonEvents(posted) ==
    LET batch == Considered(posted)
        rows  == Cleaned(batch)
    IN  /\ persist
        /\ window' = Stored(rows)
        /\ \A p \in Project, t \in Class : window'[p][t] <= MaxRows
        /\ receipt' = Len(rows)
        /\ UNCHANGED <<persist, entries, cards>>

\* The INSERT fails as a whole, for one value of one entry (webview is cut to
\* 128 runes and its column holds 32) or because the database is unavailable:
\* the others are lost with it, and every entry counts as rejected.
InsertFails(posted) ==
    /\ persist
    /\ Cleaned(Considered(posted)) # <<>>
    /\ receipt' = 0
    /\ UNCHANGED <<persist, window, entries, cards>>

IngestEvents(posted) ==
    PushDirectly(posted) \/ InsertMonEvents(posted) \/ InsertFails(posted)

\* Time passes and a row leaves the sliding window.
LeaveWindow(p, t) ==
    /\ window[p][t] > 0
    /\ window' = [window EXCEPT ![p][t] = @ - 1]
    /\ UNCHANGED <<persist, receipt, entries, cards>>

EventNext ==
    \/ \E posted \in Batch : IngestEvents(posted)
    \/ \E p \in Project, t \in Class : LeaveWindow(p, t)

EventSpec == EventInit /\ [][EventNext]_eventVars

-------------------------------------------------------------------------------
TotalRows ==
    MapThenSumSet(LAMBDA p : MapThenSumSet(LAMBDA t : window[p][t], Class), Project)

\* With the switch off every white-screen entry of a request has a card of its
\* own made and posted, in their order; whether the robot takes it is its affair,
\* a failed post is logged and never repeated.  The cards are built with indices
\* of the cleaned batch, so one shows its entry for sure as long as nothing
\* before it was rejected (service.IngestEvents 79-92, pushChunkLoadError).
WhiteScreensUpTo(n) == {i \in 1..n : entries[i].type \in WhiteScreen}

CardsShowTheirEntries ==
    /\ Len(cards) = Cardinality(WhiteScreensUpTo(Len(entries)))
    /\ \A i \in WhiteScreensUpTo(Len(entries)) :
          (\A k \in 1..i : Clean(entries[k]))
              => cards[Cardinality(WhiteScreensUpTo(i))] = entries[i]
===============================================================================
