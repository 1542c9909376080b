------------------------------- MODULE Reports --------------------------------
(***************************************************************************)
(* The diagnose reports as the service runs them.  A page of the admin     *)
(* site opens a report (two reads), its user decides, and the request runs *)
(* as a read followed by one transaction: a conditional UPDATE, which      *)
(* takes the row's lock, and the log entry.  Pages act concurrently and    *)
(* send what they like whatever has happened since they opened the report. *)
(***************************************************************************)
EXTENDS Integers, Sequences

CONSTANTS Report,      \* the diagnose records
          Page,        \* the open pages of teachers and auditors
          MaxSubmits,  \* how often a report is written (bounds TLC)
          MaxFailures  \* failed transactions (bounds TLC)

ASSUME ReportsAssumption == MaxSubmits \in Nat /\ MaxFailures \in Nat

\* diagnose.status.
Await == 1
ProAudit == 2
ProRejected == 3
CompAudit == 4
CompRejected == 5
Passed == 6
Status == Await..Passed
Verdict == {ProRejected, CompAudit, CompRejected, Passed}

\* A report in flight or passed is not written again.
WritableInFlight == {Await, ProRejected, CompAudit, CompRejected}   \* faulty: in flight
WritablePassed == {Await, ProRejected, CompRejected, Passed}        \* faulty: passed
Writable == {Await, ProRejected, CompRejected}

VARIABLES
    status,   \* diagnose.status
    text,     \* diagnose.report_content: how many times it was written
    log,      \* diagnose_audit_log: an entry's type and result name the status
              \* it led to; the text the entry is about is history
    page,     \* each page: what it shows, and its request
    failures  \* history: transactions that failed

rowVars == <<status, text, log>>
vars == <<status, text, log, page, failures>>

View == [status : Status, text : Nat, logs : Nat]
Blank == [status |-> Await, text |-> 0, logs |-> 0]
Entry(to, version) == [to |-> to, text |-> version]
Leave(r) == [pc |-> "closed", report |-> r, view |-> Blank, to |-> ProAudit,
                read |-> Await]

PageState == [pc : {"closed", "row", "open", "check", "update", "log"},
              report : Report, view : View, to : {ProAudit} \cup Verdict,
              read : Status]

TypeOK ==
    /\ status \in [Report -> Status]
    /\ text \in [Report -> Nat]
    /\ log \in [Report -> Seq([to : Status, text : Nat])]
    /\ page \in [Page -> PageState]
    /\ failures \in Nat

\* A record as the customers' site inserts it.
Init ==
    /\ status = [r \in Report |-> Await]
    /\ text = [r \in Report |-> 0]
    /\ log = [r \in Report |-> <<Entry(Await, 0)>>]
    /\ page \in [Page -> {Leave(r) : r \in Report}]
    /\ failures = 0

At(p, pc) == page[p].pc = pc
Shown(p) == page[p].report

-------------------------------------------------------------------------------
(***************************************************************************)
(* The detail page: two reads, the row first and its log entries second.   *)
(***************************************************************************)
DetailLogsFirst(r, view, nth) ==   \* faulty: the reads in the other order
    IF nth = 1 THEN [view EXCEPT !.logs = Len(log[r])]
               ELSE [view EXCEPT !.status = status[r], !.text = text[r]]
Detail(r, view, nth) ==
    IF nth = 1 THEN [view EXCEPT !.status = status[r], !.text = text[r]]
               ELSE [view EXCEPT !.logs = Len(log[r])]

GetDiagnose(p) ==
    /\ page[p].pc \in {"closed", "open"}
    /\ \E r \in Report :
          page' = [page EXCEPT ![p] = [Leave(r) EXCEPT !.pc = "row",
                                           !.view = Detail(r, Blank, 1)]]
    /\ UNCHANGED <<rowVars, failures>>

ListDiagnoseAuditLogs(p) ==
    /\ At(p, "row")
    /\ page' = [page EXCEPT ![p].pc = "open",
                            ![p].view = Detail(Shown(p), @, 2)]
    /\ UNCHANGED <<rowVars, failures>>

-------------------------------------------------------------------------------
(***************************************************************************)
(* A request: the text is written (to = ProAudit) or judged.               *)
(***************************************************************************)
\* The request passed its validation; its first read finds the record.
Send(p, to) ==
    /\ At(p, "open")
    /\ to = ProAudit => text[Shown(p)] < MaxSubmits
    /\ page' = [page EXCEPT ![p].pc = "check", ![p].to = to]
    /\ UNCHANGED <<rowVars, failures>>

CheckExists(p) ==
    /\ At(p, "check")
    /\ page' = [page EXCEPT ![p].pc = "update", ![p].read = status[Shown(p)]]
    /\ UNCHANGED <<rowVars, failures>>

\* The statuses a request may find, by the status it leads to.
FromSkippingOne(to) ==   \* faulty: the final pass skips the professional audit
    CASE to = ProAudit -> Writable
      [] to \in {ProRejected, CompAudit} -> {ProAudit}
      [] OTHER -> {ProAudit, CompAudit}
From(to) ==
    CASE to = ProAudit -> Writable
      [] to \in {ProRejected, CompAudit} -> {ProAudit}
      [] OTHER -> {CompAudit}

\* The UPDATE waits while another transaction holds the row.
Unlocked(r) == \A p \in Page : ~(At(p, "log") /\ Shown(p) = r)

HitsAsRead(p) == page[p].read \in From(page[p].to)   \* faulty: the earlier read decides
Hits(p) == status[Shown(p)] \in From(page[p].to)

UpdateDiagnose(p) ==
    /\ At(p, "update")
    /\ Unlocked(Shown(p))
    /\ Hits(p)
    /\ page' = [page EXCEPT ![p].pc = "log"]
    /\ UNCHANGED <<rowVars, failures>>

\* The status has moved on: nothing changes.
Refused(p) ==
    /\ At(p, "update")
    /\ Unlocked(Shown(p))
    /\ ~Hits(p)
    /\ page' = [page EXCEPT ![p] = Leave(Shown(p))]
    /\ UNCHANGED <<rowVars, failures>>

StatusAfter(p) == page[p].to

TextAfter(p) == text[Shown(p)] + (IF page[p].to = ProAudit THEN 1 ELSE 0)

InsertDiagnoseAuditLog(p) ==
    [log EXCEPT ![Shown(p)] = Append(@, Entry(page[p].to, TextAfter(p)))]

Commit(p) ==
    /\ At(p, "log")
    /\ status' = [status EXCEPT ![Shown(p)] = StatusAfter(p)]
    /\ text' = [text EXCEPT ![Shown(p)] = TextAfter(p)]
    /\ log' = InsertDiagnoseAuditLog(p)
    /\ page' = [page EXCEPT ![p] = Leave(Shown(p))]
    /\ UNCHANGED failures

\* A statement fails, the client goes away or the server stops: what the
\* transaction did so far is rolled back.
Fail(p) ==
    /\ page[p].pc \in {"check", "update", "log"}
    /\ failures < MaxFailures
    /\ failures' = failures + 1
    /\ page' = [page EXCEPT ![p] = Leave(Shown(p))]
    /\ UNCHANGED rowVars

Next ==
    \E p \in Page :
        \/ GetDiagnose(p) \/ ListDiagnoseAuditLogs(p)
        \/ \E to \in {ProAudit} \cup Verdict : Send(p, to)
        \/ CheckExists(p) \/ UpdateDiagnose(p) \/ Refused(p) \/ Commit(p)
        \/ Fail(p)

Spec == Init /\ [][Next]_vars

-------------------------------------------------------------------------------
(***************************************************************************)
(* Properties.                                                             *)
(***************************************************************************)
\* The log is a path of the workflow that ends in the status, and every verdict
\* is about the text that was there when the step before it was taken: no audit
\* is skipped, done twice or lost, whoever sends what at once
\* (repository.SubmitDiagnoseReport, AuditDiagnose: conditional UPDATE and log
\* entry in one transaction).
Follows(before, after) ==
    /\ before.to \in From(after.to)
    /\ after.text = before.text + (IF after.to = ProAudit THEN 1 ELSE 0)

LogIsAPath ==
    \A r \in Report :
        /\ log[r] # <<>>
        /\ log[r][1] = Entry(Await, 0)
        /\ log[r][Len(log[r])] = Entry(status[r], text[r])
        /\ \A i \in 1..Len(log[r]) - 1 : Follows(log[r][i], log[r][i + 1])

\* A report that passed is never written or judged again ("6 为终态",
\* service/diagnose.go:102).
PassedIsFinal ==
    [][\A r \in Report : status[r] = Passed =>
          status'[r] = Passed /\ text'[r] = text[r] /\ log'[r] = log[r]]_vars

\* A text that passed was approved by both audits, in this order and since it
\* was last written ("在途重提使审核对象错位、审计链断裂", service/diagnose.go:102).
BothAuditsApproved ==
    \A r \in Report : status[r] = Passed =>
        \E i \in DOMAIN log[r] :
            /\ log[r][i] = Entry(ProAudit, text[r])
            /\ SubSeq(log[r], i + 1, Len(log[r])) =
                  <<Entry(CompAudit, text[r]), Entry(Passed, text[r])>>

\* The status a detail page shows is explained by the entries it shows: the two
\* reads may lie apart, but the later one sees all the earlier one saw
\* (service.GetDiagnoseDetail).
DetailExplainsStatus ==
    \A p \in Page : At(p, "open") =>
        \E i \in 1..page[p].view.logs :
            log[Shown(p)][i] = Entry(page[p].view.status, page[p].view.text)

\* A verdict falls on another text than its sender had on the page only when
\* someone else judged the report meanwhile: the conditional UPDATE compares the
\* status and not the text, so a reject and a new submission go unnoticed, but
\* nothing less does.
Rejects == {ProRejected, CompRejected}
OnlyRejectsMisplaceVerdicts ==
    [][\A p \in Page :
          LET r    == Shown(p)
              seen == page[p].view
          IN  /\ At(p, "log") /\ log'[r] # log[r]
              /\ page[p].to \in Verdict /\ seen.status \in From(page[p].to)
              /\ seen.text # text[r]
              => \E i \in DOMAIN log[r] : /\ log[r][i].to \in Rejects
                                          /\ log[r][i].text >= seen.text]_vars
===============================================================================
