---------------------------- MODULE ReportsProofs -----------------------------
(***************************************************************************)
(* Proofs about Reports, for any number of reports, pages, submissions and *)
(* failures.  One invariant carries them all:                              *)
(*   - TypeOK, for the arithmetic and the record fields;                   *)
(*   - RowHeld: a transaction past its UPDATE still finds the status it    *)
(*     matched, because it alone holds the row (OneHolder); this is what   *)
(*     lets Commit extend the log by a legal step;                         *)
(*   - LogIsAPath;                                                         *)
(*   - TextsGrow and AwaitIsFirst, what a path says of entries that lie    *)
(*     apart; by them MovedOnByReject: between an audit status and a later *)
(*     text there is a reject;                                             *)
(*   - PagesGrounded: what a page shows was once the end of the log.       *)
(***************************************************************************)
EXTENDS Reports, TLAPS

RowHeld == \A p \in Page : At(p, "log") => status[Shown(p)] \in From(page[p].to)

OneHolder ==
    \A p, q \in Page :
        At(p, "log") /\ At(q, "log") /\ Shown(p) = Shown(q) => p = q

TextsGrow ==
    \A r \in Report : \A i, j \in DOMAIN log[r] :
        i <= j => log[r][i].text <= log[r][j].text

AwaitIsFirst ==
    \A r \in Report : \A i \in DOMAIN log[r] : log[r][i].to = Await => i = 1

MovedOnByReject ==
    \A r \in Report : \A i, j \in DOMAIN log[r] :
        /\ log[r][i].text < log[r][j].text
        /\ log[r][i].to \in {ProAudit, CompAudit}
        => \E k \in DOMAIN log[r] : /\ log[r][k].to \in Rejects
                                    /\ log[r][k].text >= log[r][i].text

\* The page in this state shows what was the end of this log once, and an open
\* page shows an entry about it.
Grounded(state, entries) ==
    /\ state.pc # "closed" =>
          \E i \in DOMAIN entries[state.report] :
             entries[state.report][i] = Entry(state.view.status, state.view.text)
    /\ state.pc = "open" =>
          \E i \in DOMAIN entries[state.report] :
             /\ entries[state.report][i] = Entry(state.view.status, state.view.text)
             /\ i <= state.view.logs

PagesGrounded == \A p \in Page : Grounded(page[p], log)

ReportsInv ==
    /\ TypeOK
    /\ RowHeld
    /\ OneHolder
    /\ LogIsAPath
    /\ TextsGrow
    /\ AwaitIsFirst
    /\ MovedOnByReject
    /\ PagesGrounded

-------------------------------------------------------------------------------
\* The statuses a request may find are statuses, and never the final one.
LEMMA FromStatus ==
    ASSUME NEW to \in {ProAudit} \cup Verdict
    PROVE  From(to) \subseteq Status \ {Passed}
BY DEF From, Verdict, Writable, Status, Await, ProAudit, ProRejected,
           CompAudit, CompRejected, Passed

\* The initial state.
LEMMA InitInv == Init => ReportsInv
<1> SUFFICES ASSUME Init PROVE ReportsInv
    OBVIOUS
<1> USE DEF Init, Leave, Blank, Entry, At, Shown, Status, Await, ProAudit, Passed
<1>1. TypeOK
    BY DEF TypeOK, PageState, View
<1>2. RowHeld /\ OneHolder /\ PagesGrounded
    BY DEF RowHeld, OneHolder, PagesGrounded, Grounded
<1>3. LogIsAPath /\ TextsGrow /\ AwaitIsFirst
    BY DEF LogIsAPath, TextsGrow, AwaitIsFirst
<1>4. MovedOnByReject
    BY DEF MovedOnByReject
<1> QED
    BY <1>1, <1>2, <1>3, <1>4 DEF ReportsInv

\* A page that changes to another state of pages.
LEMMA PageChange ==
    ASSUME TypeOK, NEW p \in Page, NEW state \in PageState,
           page' = [page EXCEPT ![p] = state]
    PROVE  page' \in [Page -> PageState]
BY DEF TypeOK

\* A sequence with one element more.
LEMMA AppendInSeq ==
    ASSUME NEW S, NEW s \in Seq(S), NEW e \in S
    PROVE  /\ Append(s, e) \in Seq(S)
           /\ Len(Append(s, e)) = Len(s) + 1
           /\ DOMAIN s = 1..Len(s) /\ DOMAIN Append(s, e) = 1..Len(s) + 1
           /\ Append(s, e)[Len(s) + 1] = e
           /\ \A i \in 1..Len(s) : Append(s, e)[i] = s[i]
OBVIOUS

\* An element of a sequence over S is in S.
LEMMA ElementOfSeq ==
    ASSUME NEW S, NEW s \in Seq(S), NEW i \in 1..Len(s)
    PROVE  s[i] \in S
OBVIOUS

\* A sequence of length two is its two elements.
LEMMA TwoLong ==
    ASSUME NEW S, NEW s \in Seq(S), Len(s) = 2
    PROVE  s = <<s[1], s[2]>>
OBVIOUS

\* The last two elements of a sequence, as the subsequence of them.
LEMMA LastTwo ==
    ASSUME NEW S, NEW s \in Seq(S), Len(s) > 1
    PROVE  SubSeq(s, Len(s) - 1, Len(s)) = <<s[Len(s) - 1], s[Len(s)]>>
<1> DEFINE t == SubSeq(s, Len(s) - 1, Len(s))
<1>1. t \in Seq(S) /\ Len(t) = 2 /\ t[1] = s[Len(s) - 1] /\ t[2] = s[Len(s)]
    OBVIOUS
<1> HIDE DEF t
<1>2. t = <<t[1], t[2]>>
    BY <1>1, TwoLong
<1> QED
    BY <1>1, <1>2 DEF t

\* Every step keeps the types.
LEMMA TypeStep == TypeOK /\ [Next]_vars => TypeOK'
<1> SUFFICES ASSUME TypeOK, [Next]_vars PROVE TypeOK'
    OBVIOUS
<1>1. CASE UNCHANGED vars
    BY <1>1 DEF vars, TypeOK
<1>a. ASSUME NEW p \in Page, page' \in [Page -> PageState], UNCHANGED <<rowVars, failures>>
      PROVE  TypeOK'
    BY <1>a DEF TypeOK, rowVars
<1>b. ASSUME NEW p \in Page
      PROVE  /\ page[p] \in PageState
             /\ Shown(p) \in Report /\ page[p].view \in View
             /\ page[p].to \in {ProAudit} \cup Verdict /\ page[p].read \in Status
             /\ status[Shown(p)] \in Status /\ text[Shown(p)] \in Nat
             /\ log[Shown(p)] \in Seq([to : Status, text : Nat])
    BY <1>b DEF TypeOK, PageState, Shown
<1>c. ASSUME NEW r \in Report PROVE Leave(r) \in PageState
    BY <1>c DEF Leave, PageState, View, Blank, Status, Await, Passed
<1>2. ASSUME NEW p \in Page, GetDiagnose(p) PROVE TypeOK'
  <2>1. PICK r \in Report :
           page' = [page EXCEPT ![p] = [Leave(r) EXCEPT !.pc = "row",
                                                        !.view = Detail(r, Blank, 1)]]
    BY <1>2 DEF GetDiagnose
  <2>2. Detail(r, Blank, 1) \in View
    BY <2>1 DEF TypeOK, Detail, Blank, View
  <2>3. [Leave(r) EXCEPT !.pc = "row", !.view = Detail(r, Blank, 1)] \in PageState
    <3>1. Leave(r) \in PageState
      BY <1>c
    <3> QED
      BY <2>2, <3>1 DEF PageState
  <2> QED
    BY <1>a, <1>2, <2>1, <2>3, PageChange DEF GetDiagnose
<1>3. ASSUME NEW p \in Page, ListDiagnoseAuditLogs(p) PROVE TypeOK'
  <2>1. Detail(Shown(p), page[p].view, 2) \in View
    BY <1>b DEF Detail, View
  <2>2. [page[p] EXCEPT !.pc = "open", !.view = Detail(Shown(p), @, 2)] \in PageState
    BY <2>1, <1>b DEF PageState
  <2>3. page' = [page EXCEPT ![p] = [page[p] EXCEPT !.pc = "open",
                                                    !.view = Detail(Shown(p), @, 2)]]
    BY <1>3, <1>b DEF ListDiagnoseAuditLogs, TypeOK, PageState
  <2> QED
    BY <1>a, <1>3, <2>2, <2>3, PageChange DEF ListDiagnoseAuditLogs
<1>4. ASSUME NEW p \in Page, NEW to \in {ProAudit} \cup Verdict, Send(p, to)
      PROVE  TypeOK'
  <2>1. [page[p] EXCEPT !.pc = "check", !.to = to] \in PageState
    BY <1>b DEF PageState
  <2>2. page' = [page EXCEPT ![p] = [page[p] EXCEPT !.pc = "check", !.to = to]]
    BY <1>4 DEF Send
  <2> QED
    BY <1>a, <1>4, <2>1, <2>2, PageChange DEF Send
<1>5. ASSUME NEW p \in Page, CheckExists(p) PROVE TypeOK'
  <2>1. [page[p] EXCEPT !.pc = "update", !.read = status[Shown(p)]] \in PageState
    BY <1>b DEF PageState
  <2>2. page' = [page EXCEPT ![p] = [page[p] EXCEPT !.pc = "update",
                                                    !.read = status[Shown(p)]]]
    BY <1>5 DEF CheckExists
  <2> QED
    BY <1>a, <1>5, <2>1, <2>2, PageChange DEF CheckExists
<1>6. ASSUME NEW p \in Page, UpdateDiagnose(p) PROVE TypeOK'
  <2>1. [page[p] EXCEPT !.pc = "log"] \in PageState
    BY <1>b DEF PageState
  <2>2. page' = [page EXCEPT ![p] = [page[p] EXCEPT !.pc = "log"]]
    BY <1>6 DEF UpdateDiagnose
  <2> QED
    BY <1>a, <1>6, <2>1, <2>2, PageChange DEF UpdateDiagnose
<1>7. ASSUME NEW p \in Page, Refused(p) PROVE TypeOK'
    BY <1>a, <1>b, <1>c, <1>7, PageChange DEF Refused
<1>8. ASSUME NEW p \in Page, Commit(p) PROVE TypeOK'
  <2>1. StatusAfter(p) \in Status /\ TextAfter(p) \in Nat
    BY <1>b DEF StatusAfter, TextAfter, Verdict, Status, Await, ProAudit,
                     ProRejected, CompAudit, CompRejected, Passed
  <2>2. Entry(page[p].to, TextAfter(p)) \in [to : Status, text : Nat]
    BY <2>1 DEF Entry, StatusAfter
  <2>3. log' \in [Report -> Seq([to : Status, text : Nat])]
    <3> DEFINE longer == Append(log[Shown(p)], Entry(page[p].to, TextAfter(p)))
    <3>1. longer \in Seq([to : Status, text : Nat])
      BY <1>b, <2>2, AppendInSeq
    <3>2. log' = [log EXCEPT ![Shown(p)] = longer]
      BY <1>8 DEF Commit, InsertDiagnoseAuditLog
    <3> HIDE DEF longer
    <3> QED
      BY <1>b, <3>1, <3>2 DEF TypeOK
  <2>4. status' \in [Report -> Status] /\ text' \in [Report -> Nat]
    BY <1>8, <1>b, <2>1 DEF Commit, TypeOK
  <2>5. page' \in [Page -> PageState]
    BY <1>8, <1>b, <1>c, PageChange DEF Commit
  <2> QED
    BY <1>8, <2>3, <2>4, <2>5 DEF Commit, TypeOK
<1>9. ASSUME NEW p \in Page, Fail(p) PROVE TypeOK'
  <2>1. page' \in [Page -> PageState]
    BY <1>9, <1>b, <1>c, PageChange DEF Fail
  <2>2. failures' \in Nat /\ UNCHANGED rowVars
    BY <1>9 DEF Fail, TypeOK
  <2> QED
    BY <2>1, <2>2 DEF TypeOK, rowVars
<1> QED
    BY <1>1, <1>2, <1>3, <1>4, <1>5, <1>6, <1>7, <1>8, <1>9 DEF Next

-------------------------------------------------------------------------------
(***************************************************************************)
(* The locks.                                                              *)
(***************************************************************************)
\* A page that changes, but not into one that holds a row.
LEMMA NoNewHolder ==
    ASSUME TypeOK, RowHeld, OneHolder, NEW p \in Page, NEW state,
           state.pc # "log", page' = [page EXCEPT ![p] = state],
           \A q \in Page : q # p /\ At(q, "log") => status'[Shown(q)] = status[Shown(q)]
    PROVE  RowHeld' /\ OneHolder'
<1>1. ASSUME NEW q \in Page, page'[q].pc = "log"
      PROVE  q # p /\ page'[q] = page[q]
    BY <1>1 DEF TypeOK
<1> QED
    BY <1>1 DEF RowHeld, OneHolder, At, Shown

\* Every step keeps a row to one transaction, whose condition it still meets.
LEMMA LocksStep == ReportsInv /\ [Next]_vars => RowHeld' /\ OneHolder'
<1> SUFFICES ASSUME ReportsInv, [Next]_vars PROVE RowHeld' /\ OneHolder'
    OBVIOUS
<1>0. TypeOK /\ RowHeld /\ OneHolder
    BY DEF ReportsInv
<1>1. CASE UNCHANGED vars
    BY <1>0, <1>1 DEF vars, RowHeld, OneHolder, At, Shown
<1>a. ASSUME UNCHANGED status
      PROVE  \A q \in Page : status'[Shown(q)] = status[Shown(q)]
    BY <1>a
<1>2. ASSUME NEW p \in Page, GetDiagnose(p) PROVE RowHeld' /\ OneHolder'
  <2>1. PICK r \in Report :
           page' = [page EXCEPT ![p] = [Leave(r) EXCEPT !.pc = "row",
                                                        !.view = Detail(r, Blank, 1)]]
    BY <1>2 DEF GetDiagnose
  <2>2. [Leave(r) EXCEPT !.pc = "row", !.view = Detail(r, Blank, 1)].pc # "log"
    BY DEF Leave
  <2> QED
    BY <1>0, <1>2, <2>1, <2>2, NoNewHolder DEF GetDiagnose, rowVars
<1>3. ASSUME NEW p \in Page, ListDiagnoseAuditLogs(p) PROVE RowHeld' /\ OneHolder'
  <2> DEFINE state == [page[p] EXCEPT !.pc = "open", !.view = Detail(Shown(p), @, 2)]
  <2>1. state.pc # "log" /\ page' = [page EXCEPT ![p] = state]
    BY <1>0, <1>3 DEF ListDiagnoseAuditLogs, TypeOK, PageState
  <2> HIDE DEF state
  <2> QED
    BY <1>0, <1>3, <2>1, NoNewHolder DEF ListDiagnoseAuditLogs, rowVars
<1>4. ASSUME NEW p \in Page, NEW to \in {ProAudit} \cup Verdict, Send(p, to)
      PROVE  RowHeld' /\ OneHolder'
  <2> DEFINE state == [page[p] EXCEPT !.pc = "check", !.to = to]
  <2>1. state.pc # "log" /\ page' = [page EXCEPT ![p] = state]
    BY <1>0, <1>4 DEF Send, TypeOK, PageState
  <2> HIDE DEF state
  <2> QED
    BY <1>0, <1>4, <2>1, NoNewHolder DEF Send, rowVars
<1>5. ASSUME NEW p \in Page, CheckExists(p) PROVE RowHeld' /\ OneHolder'
  <2> DEFINE state == [page[p] EXCEPT !.pc = "update", !.read = status[Shown(p)]]
  <2>1. state.pc # "log" /\ page' = [page EXCEPT ![p] = state]
    BY <1>0, <1>5 DEF CheckExists, TypeOK, PageState
  <2> HIDE DEF state
  <2> QED
    BY <1>0, <1>5, <2>1, NoNewHolder DEF CheckExists, rowVars
<1>6. ASSUME NEW p \in Page, UpdateDiagnose(p) PROVE RowHeld' /\ OneHolder'
  <2>1. /\ page'[p].pc = "log" /\ page'[p].report = Shown(p)
        /\ page'[p].to = page[p].to
        /\ \A q \in Page : q # p => page'[q] = page[q]
        /\ status' = status
    BY <1>0, <1>6 DEF UpdateDiagnose, TypeOK, PageState, Shown, rowVars
  <2>2. status[Shown(p)] \in From(page[p].to)
    BY <1>6 DEF UpdateDiagnose, Hits
  <2>3. \A q \in Page : ~(page[q].pc = "log" /\ page[q].report = Shown(p))
    BY <1>6 DEF UpdateDiagnose, Unlocked, At, Shown
  <2>4. RowHeld'
    BY <1>0, <2>1, <2>2 DEF RowHeld, At, Shown
  <2>5. OneHolder'
    BY <1>0, <2>1, <2>3 DEF OneHolder, At, Shown
  <2> QED
    BY <2>4, <2>5
<1>b. ASSUME NEW p \in Page PROVE Leave(Shown(p)).pc # "log"
    BY DEF Leave
<1>7. ASSUME NEW p \in Page, Refused(p) PROVE RowHeld' /\ OneHolder'
    BY <1>0, <1>7, <1>b, NoNewHolder DEF Refused, rowVars
<1>8. ASSUME NEW p \in Page, Commit(p) PROVE RowHeld' /\ OneHolder'
  <2>1. At(p, "log") /\ page' = [page EXCEPT ![p] = Leave(Shown(p))]
    BY <1>8 DEF Commit
  <2>2. \A q \in Page : q # p /\ At(q, "log") => status'[Shown(q)] = status[Shown(q)]
    <3>1. \A q \in Page : q # p /\ At(q, "log") => Shown(q) # Shown(p)
      BY <1>0, <2>1 DEF OneHolder
    <3> QED
      BY <1>0, <1>8, <3>1 DEF Commit, TypeOK
  <2> QED
    BY <1>0, <1>b, <2>1, <2>2, NoNewHolder
<1>9. ASSUME NEW p \in Page, Fail(p) PROVE RowHeld' /\ OneHolder'
    BY <1>0, <1>9, <1>b, NoNewHolder DEF Fail, rowVars
<1> QED
    BY <1>1, <1>2, <1>3, <1>4, <1>5, <1>6, <1>7, <1>8, <1>9 DEF Next

-------------------------------------------------------------------------------
(***************************************************************************)
(* The log.                                                                *)
(***************************************************************************)
\* Only Commit touches the rows.
LEMMA RowsChangeByCommit ==
    ASSUME [Next]_vars, \A p \in Page : ~Commit(p)
    PROVE  UNCHANGED rowVars
BY DEF Next, vars, rowVars, GetDiagnose, ListDiagnoseAuditLogs, Send, CheckExists,
       UpdateDiagnose, Refused, Fail

\* What Commit does to the rows: the log grows by an entry that follows its last.
LEMMA CommitExtends ==
    ASSUME ReportsInv, NEW p \in Page, Commit(p),
           NEW r, r = Shown(p), NEW e, e = Entry(page[p].to, TextAfter(p)),
           NEW n, n = Len(log[r])
    PROVE  /\ r \in Report /\ n \in Nat /\ n > 0
           /\ DOMAIN log[r] = 1..n /\ DOMAIN log'[r] = 1..n + 1
           /\ \A i \in 1..n : log'[r][i] = log[r][i]
           /\ log'[r][n + 1] = e /\ Len(log'[r]) = n + 1
           /\ e = Entry(status'[r], text'[r])
           /\ Follows(log[r][n], e)
           /\ \A q \in Report \ {r} : /\ log'[q] = log[q] /\ status'[q] = status[q]
                                      /\ text'[q] = text[q]
           /\ \A i \in 1..n : log[r][i] \in [to : Status, text : Nat]
           /\ e \in [to : Status, text : Nat]
           /\ e.to \in {ProAudit} \cup Verdict
<1>0. TypeOK /\ RowHeld /\ LogIsAPath
    BY DEF ReportsInv
<1>1. /\ r \in Report /\ page[p].to \in {ProAudit} \cup Verdict
      /\ status[r] \in Status /\ text[r] \in Nat
    BY <1>0 DEF TypeOK, PageState, Shown
<1>2. log[r] \in Seq([to : Status, text : Nat])
    BY <1>0, <1>1 DEF TypeOK
<1>3. e.to = page[p].to /\ e.text = TextAfter(p)
    BY DEF Entry
<1>4. /\ status' = [status EXCEPT ![r] = page[p].to]
      /\ text' = [text EXCEPT ![r] = TextAfter(p)]
      /\ log' = [log EXCEPT ![r] = Append(log[r], e)]
    BY <1>0 DEF Commit, StatusAfter, InsertDiagnoseAuditLog, TypeOK
<1>5. /\ status'[r] = page[p].to /\ text'[r] = TextAfter(p)
      /\ log'[r] = Append(log[r], e)
      /\ \A q \in Report \ {r} : /\ log'[q] = log[q] /\ status'[q] = status[q]
                                 /\ text'[q] = text[q]
    BY <1>0, <1>1, <1>4 DEF TypeOK
<1>6. e \in [to : Status, text : Nat]
  <2>1. TextAfter(p) \in Nat
    BY <1>1 DEF TextAfter
  <2>2. page[p].to \in Status
    BY <1>1 DEF Verdict, Status, Await, ProAudit, ProRejected, CompAudit,
                CompRejected, Passed
  <2> QED
    BY <2>1, <2>2 DEF Entry
<1>7. n \in Nat /\ n > 0 /\ log[r][n] = Entry(status[r], text[r])
    BY <1>0, <1>1, <1>2 DEF LogIsAPath
<1>8. Follows(log[r][n], e)
  <2>1. status[r] \in From(page[p].to)
    BY <1>0 DEF RowHeld, Commit
  <2>2. log[r][n].to = status[r] /\ log[r][n].text = text[r]
    BY <1>7 DEF Entry
  <2> QED
    BY <1>3, <2>1, <2>2 DEF Follows, TextAfter
<1>9. /\ DOMAIN log[r] = 1..n /\ DOMAIN Append(log[r], e) = 1..n + 1
      /\ Len(Append(log[r], e)) = n + 1 /\ Append(log[r], e)[n + 1] = e
      /\ \A i \in 1..n : Append(log[r], e)[i] = log[r][i]
    BY <1>2, <1>6, AppendInSeq
<1>10. \A i \in 1..n : log[r][i] \in [to : Status, text : Nat]
    BY <1>2, ElementOfSeq
<1> QED
    BY <1>1, <1>3, <1>5, <1>6, <1>7, <1>8, <1>9, <1>10

\* Every step keeps the log a path, the texts growing and the rejects behind.
LEMMA LogStep ==
    ReportsInv /\ [Next]_vars
        => LogIsAPath' /\ TextsGrow' /\ AwaitIsFirst' /\ MovedOnByReject'
<1> SUFFICES ASSUME ReportsInv, [Next]_vars
             PROVE  LogIsAPath' /\ TextsGrow' /\ AwaitIsFirst' /\ MovedOnByReject'
    OBVIOUS
<1>0. TypeOK /\ LogIsAPath /\ TextsGrow /\ AwaitIsFirst /\ MovedOnByReject
    BY DEF ReportsInv
<1>1. CASE \A p \in Page : ~Commit(p)
  <2>1. UNCHANGED rowVars
    BY <1>1, RowsChangeByCommit
  <2> QED
    BY <1>0, <2>1 DEF rowVars, LogIsAPath, TextsGrow, AwaitIsFirst, MovedOnByReject
<1>2. ASSUME NEW p \in Page, Commit(p)
      PROVE  LogIsAPath' /\ TextsGrow' /\ AwaitIsFirst' /\ MovedOnByReject'
  <2> DEFINE r == Shown(p)
             e == Entry(page[p].to, TextAfter(p))
             n == Len(log[r])
  <2>1. /\ r \in Report /\ n \in Nat /\ n > 0
        /\ DOMAIN log[r] = 1..n /\ DOMAIN log'[r] = 1..n + 1
        /\ \A i \in 1..n : log'[r][i] = log[r][i]
        /\ log'[r][n + 1] = e /\ Len(log'[r]) = n + 1
        /\ e = Entry(status'[r], text'[r])
        /\ Follows(log[r][n], e)
        /\ \A q \in Report \ {r} : /\ log'[q] = log[q] /\ status'[q] = status[q]
                                   /\ text'[q] = text[q]
        /\ \A i \in 1..n : log[r][i] \in [to : Status, text : Nat]
        /\ e \in [to : Status, text : Nat]
        /\ e.to \in {ProAudit} \cup Verdict
    BY <1>2, CommitExtends
  <2> HIDE DEF r, e, n
  <2>2. /\ log[r][n].text \in Nat /\ e.text \in Nat
        /\ log[r][n].text <= e.text
        /\ log[r][n].to \in From(e.to)
    BY <2>1 DEF Follows
  <2>3. LogIsAPath'
    <3>1. ASSUME NEW q \in Report, q # r
          PROVE  /\ log'[q] # <<>> /\ log'[q][1] = Entry(Await, 0)
                 /\ log'[q][Len(log'[q])] = Entry(status'[q], text'[q])
                 /\ \A i \in 1..Len(log'[q]) - 1 : Follows(log'[q][i], log'[q][i + 1])
      BY <1>0, <2>1, <3>1 DEF LogIsAPath
    <3>2. log'[r] # <<>> /\ log'[r][1] = Entry(Await, 0)
      <4>1. log[r][1] = Entry(Await, 0)
        BY <1>0, <2>1 DEF LogIsAPath
      <4> QED
        BY <2>1, <4>1
    <3>3. ASSUME NEW i \in 1..Len(log'[r]) - 1
          PROVE  Follows(log'[r][i], log'[r][i + 1])
      <4>1. CASE i = n
        BY <2>1, <4>1
      <4>2. CASE i # n
        <5>1. i \in 1..n - 1 /\ i \in 1..n /\ i + 1 \in 1..n
          BY <2>1, <4>2
        <5>2. Follows(log[r][i], log[r][i + 1])
          BY <1>0, <2>1, <5>1 DEF LogIsAPath, n
        <5> QED
          BY <2>1, <5>1, <5>2
      <4> QED
        BY <4>1, <4>2
    <3>4. log'[r][Len(log'[r])] = Entry(status'[r], text'[r])
      BY <2>1
    <3> QED
      BY <3>1, <3>2, <3>3, <3>4 DEF LogIsAPath
  <2>4. ASSUME NEW i \in 1..n + 1 PROVE log'[r][i].text \in Nat /\ log'[r][i].text <= e.text
    <3>1. CASE i = n + 1
      BY <2>1, <2>2, <3>1
    <3>2. CASE i \in 1..n
      <4>1. log[r][i].text <= log[r][n].text /\ log[r][i].text \in Nat
        BY <1>0, <2>1, <3>2 DEF TextsGrow
      <4> QED
        BY <2>1, <2>2, <3>2, <4>1
    <3> QED
      BY <2>1, <3>1, <3>2
  <2>5. TextsGrow'
    <3>1. ASSUME NEW q \in Report, q # r, NEW i \in DOMAIN log'[q],
                 NEW j \in DOMAIN log'[q], i <= j
          PROVE  log'[q][i].text <= log'[q][j].text
      BY <1>0, <2>1, <3>1 DEF TextsGrow
    <3>2. ASSUME NEW i \in DOMAIN log'[r], NEW j \in DOMAIN log'[r], i <= j
          PROVE  log'[r][i].text <= log'[r][j].text
      <4>1. CASE j = n + 1
        BY <2>1, <2>4, <4>1
      <4>2. CASE j # n + 1
        <5>1. i \in 1..n /\ j \in 1..n
          BY <2>1, <3>2, <4>2
        <5>2. log[r][i].text <= log[r][j].text
          BY <1>0, <2>1, <3>2, <5>1 DEF TextsGrow
        <5> QED
          BY <2>1, <5>1, <5>2
      <4> QED
        BY <4>1, <4>2
    <3> QED
      BY <3>1, <3>2 DEF TextsGrow
  <2>6. e.to # Await
    BY <2>1 DEF Verdict, Await, ProAudit, ProRejected, CompAudit, CompRejected, Passed
  <2>7. AwaitIsFirst'
    <3>1. ASSUME NEW q \in Report, q # r, NEW i \in DOMAIN log'[q], log'[q][i].to = Await
          PROVE  i = 1
      BY <1>0, <2>1, <3>1 DEF AwaitIsFirst
    <3>2. ASSUME NEW i \in DOMAIN log'[r], log'[r][i].to = Await
          PROVE  i = 1
      <4>1. i \in 1..n
        BY <2>1, <2>6, <3>2
      <4> QED
        BY <1>0, <2>1, <3>2, <4>1 DEF AwaitIsFirst
    <3> QED
      BY <3>1, <3>2 DEF AwaitIsFirst
  <2>8. MovedOnByReject'
    <3>1. ASSUME NEW q \in Report, q # r, NEW i \in DOMAIN log'[q], NEW j \in DOMAIN log'[q],
                 log'[q][i].text < log'[q][j].text,
                 log'[q][i].to \in {ProAudit, CompAudit}
          PROVE  \E k \in DOMAIN log'[q] : /\ log'[q][k].to \in Rejects
                                           /\ log'[q][k].text >= log'[q][i].text
      BY <1>0, <2>1, <3>1 DEF MovedOnByReject
    <3>2. ASSUME NEW i \in DOMAIN log'[r], NEW j \in DOMAIN log'[r],
                 log'[r][i].text < log'[r][j].text,
                 log'[r][i].to \in {ProAudit, CompAudit}
          PROVE  \E k \in DOMAIN log'[r] : /\ log'[r][k].to \in Rejects
                                           /\ log'[r][k].text >= log'[r][i].text
      <4>1. i \in 1..n /\ log'[r][i] = log[r][i] /\ log[r][i].text < e.text
        <5>1. log'[r][j].text <= e.text /\ log'[r][i].text \in Nat /\ log'[r][j].text \in Nat
          BY <2>1, <2>4
        <5>2. i # n + 1
          BY <2>1, <2>2, <3>2, <5>1
        <5>3. i \in 1..n
          BY <2>1, <5>2
        <5>4. log'[r][i] = log[r][i]
          BY <2>1, <5>3
        <5>5. log'[r][i].text < e.text /\ e.text \in Nat
          <6>1. e.text \in Nat
            BY <2>1, <2>2
          <6> QED
            BY <3>2, <5>1, <6>1
        <5> QED
          BY <5>3, <5>4, <5>5
      <4>2. CASE log[r][i].text < log[r][n].text
        <5>1. /\ i \in DOMAIN log[r] /\ n \in DOMAIN log[r]
              /\ log[r][i].to \in {ProAudit, CompAudit}
          BY <2>1, <3>2, <4>1
        <5>2. PICK k \in DOMAIN log[r] : /\ log[r][k].to \in Rejects
                                         /\ log[r][k].text >= log[r][i].text
          BY <1>0, <2>1, <4>2, <5>1 DEF MovedOnByReject
        <5>3. k \in DOMAIN log'[r] /\ log'[r][k] = log[r][k]
          BY <2>1, <5>2
        <5> QED
          BY <4>1, <5>2, <5>3
      <4>3. CASE ~(log[r][i].text < log[r][n].text)
        <5>1. log[r][i].text <= log[r][n].text /\ log[r][i].text \in Nat
          BY <1>0, <2>1, <4>1 DEF TextsGrow
        <5>2. log[r][n].text < e.text
          BY <2>2, <4>1, <4>3, <5>1
        <5>3. e.to = ProAudit
          BY <2>1, <2>2, <5>2 DEF Follows
        <5>4. log[r][n].to \in Writable
          BY <2>2, <5>3 DEF From, ProAudit, ProRejected, CompAudit
        <5>5. log[r][n].to # Await
          <6>1. SUFFICES ASSUME log[r][n].to = Await PROVE FALSE
            OBVIOUS
          <6>2. n = 1
            BY <1>0, <2>1, <6>1 DEF AwaitIsFirst
          <6>3. log[r][i].to = Await
            BY <4>1, <6>1, <6>2
          <6> QED
            BY <3>2, <4>1, <6>3 DEF Await, ProAudit, CompAudit
        <5>6. log[r][n].to \in Rejects
          BY <5>4, <5>5 DEF Writable, Rejects
        <5>7. n \in 1..n + 1 /\ log'[r][n] = log[r][n]
          BY <2>1
        <5> QED
          BY <2>1, <2>2, <4>1, <5>1, <5>6, <5>7
      <4> QED
        BY <4>2, <4>3
    <3> QED
      BY <3>1, <3>2 DEF MovedOnByReject
  <2> QED
    BY <2>3, <2>5, <2>7, <2>8
<1> QED
    BY <1>1, <1>2

-------------------------------------------------------------------------------
(***************************************************************************)
(* The pages.                                                              *)
(***************************************************************************)
\* The entries of a log stay what they are.
LEMMA LogGrows ==
    ASSUME ReportsInv, [Next]_vars, NEW r \in Report, NEW i \in DOMAIN log[r]
    PROVE  i \in DOMAIN log'[r] /\ log'[r][i] = log[r][i]
<1>1. CASE \A p \in Page : ~Commit(p)
    BY <1>1, RowsChangeByCommit DEF rowVars
<1>2. ASSUME NEW p \in Page, Commit(p)
      PROVE  i \in DOMAIN log'[r] /\ log'[r][i] = log[r][i]
  <2> DEFINE own == Shown(p)
             e == Entry(page[p].to, TextAfter(p))
             n == Len(log[own])
  <2>1. /\ own \in Report /\ n \in Nat
        /\ DOMAIN log[own] = 1..n /\ DOMAIN log'[own] = 1..n + 1
        /\ \A k \in 1..n : log'[own][k] = log[own][k]
        /\ \A q \in Report \ {own} : log'[q] = log[q]
    BY <1>2, CommitExtends
  <2> HIDE DEF own, e, n
  <2> QED
    BY <2>1
<1> QED
    BY <1>1, <1>2

\* A page that was grounded is grounded in the log as it has grown.
LEMMA GroundedLater ==
    ASSUME ReportsInv, [Next]_vars, NEW state \in PageState, Grounded(state, log)
    PROVE  Grounded(state, log')
<1>1. state.report \in Report
    BY DEF PageState
<1>2. \A i \in DOMAIN log[state.report] :
         i \in DOMAIN log'[state.report] /\ log'[state.report][i] = log[state.report][i]
    BY <1>1, LogGrows
<1> QED
    BY <1>2 DEF Grounded

\* A page that changes to a grounded state leaves all pages grounded.
LEMMA PagesLater ==
    ASSUME ReportsInv, [Next]_vars, NEW p \in Page, NEW state, Grounded(state, log'),
           page' = [page EXCEPT ![p] = state]
    PROVE  PagesGrounded'
<1>0. TypeOK /\ PagesGrounded
    BY DEF ReportsInv
<1>1. ASSUME NEW q \in Page, q # p PROVE Grounded(page'[q], log')
  <2>1. page'[q] = page[q] /\ page[q] \in PageState
    BY <1>0, <1>1 DEF TypeOK
  <2>2. Grounded(page[q], log)
    BY <1>0 DEF PagesGrounded
  <2> QED
    BY <2>1, <2>2, GroundedLater
<1>2. page'[p] = state
    BY <1>0 DEF TypeOK
<1> QED
    BY <1>1, <1>2 DEF PagesGrounded

\* Every step leaves what the pages show grounded in the log.
LEMMA PagesStep == ReportsInv /\ [Next]_vars => PagesGrounded'
<1> SUFFICES ASSUME ReportsInv, [Next]_vars PROVE PagesGrounded'
    OBVIOUS
<1>0. TypeOK /\ LogIsAPath /\ PagesGrounded
    BY DEF ReportsInv
<1>p. ASSUME NEW p \in Page
      PROVE  page[p] \in PageState /\ Shown(p) \in Report /\ Grounded(page[p], log')
  <2>1. page[p] \in PageState /\ Grounded(page[p], log)
    BY <1>0 DEF TypeOK, PagesGrounded
  <2> QED
    BY <2>1, GroundedLater DEF PageState, Shown
<1>r. ASSUME NEW r \in Report
      PROVE  /\ Len(log[r]) \in DOMAIN log[r]
             /\ log[r][Len(log[r])] = Entry(status[r], text[r])
    BY <1>0 DEF LogIsAPath, TypeOK
<1>1. CASE UNCHANGED vars
    BY <1>0, <1>1 DEF vars, PagesGrounded
<1>2. ASSUME NEW p \in Page, GetDiagnose(p) PROVE PagesGrounded'
  <2>1. PICK r \in Report :
           page' = [page EXCEPT ![p] = [Leave(r) EXCEPT !.pc = "row",
                                                        !.view = Detail(r, Blank, 1)]]
    BY <1>2 DEF GetDiagnose
  <2> DEFINE state == [Leave(r) EXCEPT !.pc = "row", !.view = Detail(r, Blank, 1)]
  <2>2. /\ state.pc = "row" /\ state.report = r
        /\ state.view.status = status[r] /\ state.view.text = text[r]
    BY DEF Leave, Detail, Blank
  <2> HIDE DEF state
  <2>3. log' = log
    BY <1>2 DEF GetDiagnose, rowVars
  <2>4. Grounded(state, log')
    BY <1>r, <2>2, <2>3 DEF Grounded
  <2> QED
    BY <2>1, <2>4, PagesLater DEF state
<1>3. ASSUME NEW p \in Page, ListDiagnoseAuditLogs(p) PROVE PagesGrounded'
  <2> DEFINE state == [page[p] EXCEPT !.pc = "open", !.view = Detail(Shown(p), @, 2)]
  <2>1. page' = [page EXCEPT ![p] = state]
    BY <1>3, <1>p DEF ListDiagnoseAuditLogs, PageState
  <2>2. /\ state.pc = "open" /\ state.report = page[p].report
        /\ state.view.status = page[p].view.status
        /\ state.view.text = page[p].view.text
        /\ state.view.logs = Len(log[Shown(p)])
    BY <1>p DEF Detail, PageState, View
  <2> HIDE DEF state
  <2>3. log' = log /\ page[p].pc # "closed"
    BY <1>3 DEF ListDiagnoseAuditLogs, rowVars, At
  <2>4. \E i \in DOMAIN log[Shown(p)] :
           log[Shown(p)][i] = Entry(page[p].view.status, page[p].view.text)
    BY <1>p, <2>3 DEF Grounded, Shown
  <2>5. \A i \in DOMAIN log[Shown(p)] : i <= Len(log[Shown(p)])
    BY <1>0, <1>p DEF TypeOK
  <2>6. Grounded(state, log')
    BY <2>2, <2>3, <2>4, <2>5 DEF Grounded, Shown
  <2> QED
    BY <2>1, <2>6, PagesLater
<1>a. ASSUME NEW p \in Page, NEW state, page' = [page EXCEPT ![p] = state],
             state.pc \notin {"closed", "open"}, page[p].pc # "closed",
             state.report = page[p].report, state.view = page[p].view
      PROVE  PagesGrounded'
  <2>1. Grounded(state, log')
    BY <1>a, <1>p DEF Grounded
  <2> QED
    BY <1>a, <2>1, PagesLater
<1>4. ASSUME NEW p \in Page, NEW to \in {ProAudit} \cup Verdict, Send(p, to)
      PROVE  PagesGrounded'
  <2> DEFINE state == [page[p] EXCEPT !.pc = "check", !.to = to]
  <2>1. /\ page' = [page EXCEPT ![p] = state] /\ page[p].pc # "closed"
        /\ state.pc = "check" /\ state.report = page[p].report
        /\ state.view = page[p].view
    BY <1>4, <1>p DEF Send, At, PageState
  <2> HIDE DEF state
  <2> QED
    BY <1>a, <2>1
<1>5. ASSUME NEW p \in Page, CheckExists(p) PROVE PagesGrounded'
  <2> DEFINE state == [page[p] EXCEPT !.pc = "update", !.read = status[Shown(p)]]
  <2>1. /\ page' = [page EXCEPT ![p] = state] /\ page[p].pc # "closed"
        /\ state.pc = "update" /\ state.report = page[p].report
        /\ state.view = page[p].view
    BY <1>5, <1>p DEF CheckExists, At, PageState
  <2> HIDE DEF state
  <2> QED
    BY <1>a, <2>1
<1>6. ASSUME NEW p \in Page, UpdateDiagnose(p) PROVE PagesGrounded'
  <2> DEFINE state == [page[p] EXCEPT !.pc = "log"]
  <2>1. /\ page' = [page EXCEPT ![p] = state] /\ page[p].pc # "closed"
        /\ state.pc = "log" /\ state.report = page[p].report
        /\ state.view = page[p].view
    BY <1>6, <1>p DEF UpdateDiagnose, At, PageState
  <2> HIDE DEF state
  <2> QED
    BY <1>a, <2>1
<1>b. ASSUME NEW p \in Page, page' = [page EXCEPT ![p] = Leave(Shown(p))]
      PROVE  PagesGrounded'
  <2>1. Grounded(Leave(Shown(p)), log')
    BY DEF Grounded, Leave
  <2> QED
    BY <1>b, <2>1, PagesLater
<1>7. ASSUME NEW p \in Page, Refused(p) \/ Commit(p) \/ Fail(p) PROVE PagesGrounded'
    BY <1>b, <1>7 DEF Refused, Commit, Fail
<1> QED
    BY <1>1, <1>2, <1>3, <1>4, <1>5, <1>6, <1>7 DEF Next

-------------------------------------------------------------------------------
(***************************************************************************)
(* The theorems.                                                           *)
(***************************************************************************)
\* The invariant of the proof holds in every reachable state.
THEOREM ReportsInvariant == Spec => []ReportsInv
<1>1. ReportsInv /\ [Next]_vars => ReportsInv'
    BY TypeStep, LocksStep, LogStep, PagesStep DEF ReportsInv
<1> QED
    BY InitInv, <1>1, PTL DEF Spec

\* The variables keep their types (diagnose, diagnose_audit_log).
THEOREM ReportsTypeCorrect == Spec => []TypeOK
    BY ReportsInvariant, PTL DEF ReportsInv

\* Whatever the pages send at once, the log is a legal path of the workflow that
\* ends in the status (repository.SubmitDiagnoseReport, AuditDiagnose).
THEOREM LogIsAlwaysAPath == Spec => []LogIsAPath
    BY ReportsInvariant, PTL DEF ReportsInv

\* The last two entries before a pass, read off the path.
LEMMA PathToPassed == ReportsInv => BothAuditsApproved
<1> SUFFICES ASSUME ReportsInv, NEW r \in Report, status[r] = Passed
             PROVE  \E i \in DOMAIN log[r] :
                       /\ log[r][i] = Entry(ProAudit, text[r])
                       /\ SubSeq(log[r], i + 1, Len(log[r])) =
                             <<Entry(CompAudit, text[r]), Entry(Passed, text[r])>>
    BY DEF BothAuditsApproved
<1> DEFINE n == Len(log[r])
<1>0. LogIsAPath /\ log[r] \in Seq([to : Status, text : Nat]) /\ text[r] \in Nat
    BY DEF ReportsInv, TypeOK
<1>1. /\ n \in Nat /\ n > 0 /\ DOMAIN log[r] = 1..n
      /\ log[r][1] = Entry(Await, 0) /\ log[r][n] = Entry(Passed, text[r])
      /\ \A i \in 1..n - 1 : Follows(log[r][i], log[r][i + 1])
    BY <1>0 DEF LogIsAPath
<1>2. \A i \in 1..n : log[r][i] \in [to : Status, text : Nat]
    BY <1>0, ElementOfSeq
<1> HIDE DEF n
<1>3. n - 1 \in 1..n /\ log[r][n - 1] = Entry(CompAudit, text[r])
  <2>1. n # 1
    BY <1>1 DEF Entry, Await, Passed
  <2>2. n - 1 \in 1..n - 1 /\ n - 1 \in 1..n /\ (n - 1) + 1 = n
    BY <1>1, <2>1
  <2>3. Follows(log[r][n - 1], Entry(Passed, text[r]))
    BY <1>1, <2>2
  <2>4. /\ log[r][n - 1].to = CompAudit /\ log[r][n - 1].text \in Nat
        /\ text[r] = log[r][n - 1].text
    BY <1>2, <2>2, <2>3 DEF Follows, Entry, From, Passed, ProAudit, ProRejected, CompAudit
  <2> QED
    BY <1>2, <2>2, <2>4 DEF Entry
<1>4. n - 2 \in 1..n /\ log[r][n - 2] = Entry(ProAudit, text[r])
  <2>1. n - 1 # 1
    BY <1>1, <1>3 DEF Entry, Await, CompAudit
  <2>2. n - 2 \in 1..n - 1 /\ n - 2 \in 1..n /\ (n - 2) + 1 = n - 1
    BY <1>1, <1>3, <2>1
  <2>3. Follows(log[r][n - 2], Entry(CompAudit, text[r]))
    BY <1>1, <1>3, <2>2
  <2>4. /\ log[r][n - 2].to = ProAudit /\ log[r][n - 2].text \in Nat
        /\ text[r] = log[r][n - 2].text
    BY <1>2, <2>2, <2>3 DEF Follows, Entry, From, ProAudit, ProRejected, CompAudit
  <2> QED
    BY <1>2, <2>2, <2>4 DEF Entry
<1>5. SubSeq(log[r], (n - 2) + 1, n) = <<log[r][n - 1], log[r][n]>>
  <2>1. (n - 2) + 1 = n - 1
    BY <1>1
  <2>2. SubSeq(log[r], n - 1, n) = <<log[r][n - 1], log[r][n]>>
    BY <1>0, <1>1, <1>3, LastTwo DEF n
  <2> QED
    BY <2>1, <2>2
<1>6. SubSeq(log[r], (n - 2) + 1, n) = <<Entry(CompAudit, text[r]), Entry(Passed, text[r])>>
    BY <1>1, <1>3, <1>5
<1> QED
    BY <1>1, <1>4, <1>6 DEF n

\* A report that passed was approved by both audits since it was last written
\* (service.AuditDiagnose 168-181).
THEOREM BothAuditsAlwaysApproved == Spec => []BothAuditsApproved
    BY ReportsInvariant, PathToPassed, PTL

\* The status a detail page shows is explained by the entries it shows
\* (service.GetDiagnoseDetail).
THEOREM DetailAlwaysExplainsStatus == Spec => []DetailExplainsStatus
<1>1. ReportsInv => DetailExplainsStatus
  <2> SUFFICES ASSUME ReportsInv, NEW p \in Page, At(p, "open")
               PROVE  \E i \in 1..page[p].view.logs :
                         log[Shown(p)][i] = Entry(page[p].view.status, page[p].view.text)
    BY DEF DetailExplainsStatus
  <2>1. Grounded(page[p], log)
    BY DEF ReportsInv, PagesGrounded
  <2>2. PICK i \in DOMAIN log[Shown(p)] :
           /\ log[Shown(p)][i] = Entry(page[p].view.status, page[p].view.text)
           /\ i <= page[p].view.logs
    BY <2>1 DEF Grounded, At, Shown
  <2>3. Shown(p) \in Report /\ page[p].view.logs \in Nat
    BY DEF ReportsInv, TypeOK, PageState, View, Shown
  <2>4. i \in 1..page[p].view.logs
    BY <2>2, <2>3 DEF ReportsInv, TypeOK
  <2> QED
    BY <2>2, <2>4
<1> QED
    BY ReportsInvariant, <1>1, PTL

\* The final pass is final (repository.SubmitDiagnoseReport, AuditDiagnose).
THEOREM PassedIsAlwaysFinal == Spec => PassedIsFinal
<1> DEFINE Final(r) == status'[r] = Passed /\ text'[r] = text[r] /\ log'[r] = log[r]
<1>1. ASSUME ReportsInv, [Next]_vars, NEW r \in Report, status[r] = Passed
      PROVE  Final(r)
  <2>1. CASE \A p \in Page : ~Commit(p)
    BY <1>1, <2>1, RowsChangeByCommit DEF rowVars
  <2>2. ASSUME NEW p \in Page, Commit(p) PROVE Final(r)
    <3>1. r # Shown(p)
      <4>1. status[Shown(p)] \in From(page[p].to) /\ page[p].to \in {ProAudit} \cup Verdict
        BY <1>1, <2>2 DEF ReportsInv, RowHeld, Commit, TypeOK, PageState
      <4> QED
        BY <1>1, <4>1, FromStatus
    <3>2. log'[r] = log[r] /\ status'[r] = status[r] /\ text'[r] = text[r]
      BY <1>1, <2>2, <3>1 DEF ReportsInv, TypeOK, Commit, InsertDiagnoseAuditLog
    <3> QED
      BY <1>1, <3>2
  <2> QED
    BY <2>1, <2>2
<1>2. ReportsInv /\ [Next]_vars =>
         [\A r \in Report : status[r] = Passed => Final(r)]_vars
    BY <1>1
<1> QED
    BY ReportsInvariant, <1>2, PTL DEF Spec, PassedIsFinal

\* A verdict that falls on another text than the one its sender had on the page
\* was overtaken by a reject (repository.AuditDiagnose compares the status only).
THEOREM OnlyRejectsEverMisplaceVerdicts == Spec => OnlyRejectsMisplaceVerdicts
<1>1. ASSUME ReportsInv, NEW p \in Page, At(p, "log"), page[p].to \in Verdict,
             page[p].view.status \in From(page[p].to),
             page[p].view.text # text[Shown(p)]
      PROVE  \E i \in DOMAIN log[Shown(p)] :
                /\ log[Shown(p)][i].to \in Rejects
                /\ log[Shown(p)][i].text >= page[p].view.text
  <2> DEFINE r == Shown(p)
             n == Len(log[r])
  <2>0. TypeOK /\ LogIsAPath /\ TextsGrow /\ MovedOnByReject /\ Grounded(page[p], log)
    BY <1>1 DEF ReportsInv, PagesGrounded
  <2>1. r \in Report /\ page[p].view \in View /\ page[p].view.text \in Nat
    BY <2>0 DEF TypeOK, PageState, View, Shown
  <2>2. PICK i \in DOMAIN log[r] :
           log[r][i] = Entry(page[p].view.status, page[p].view.text)
    BY <1>1, <2>0 DEF Grounded, At, Shown
  <2>3. /\ log[r] \in Seq([to : Status, text : Nat]) /\ text[r] \in Nat
        /\ n \in DOMAIN log[r] /\ log[r][n] = Entry(status[r], text[r])
        /\ \A k \in DOMAIN log[r] : k <= n
    <3>1. log[r] \in Seq([to : Status, text : Nat]) /\ text[r] \in Nat
      BY <2>0, <2>1 DEF TypeOK
    <3>2. log[r] # <<>> /\ log[r][n] = Entry(status[r], text[r])
      BY <2>0, <2>1 DEF LogIsAPath
    <3>3. n \in DOMAIN log[r] /\ \A k \in DOMAIN log[r] : k <= n
      BY <3>1, <3>2
    <3> QED
      BY <3>1, <3>2, <3>3
  <2>4. /\ log[r][i].text = page[p].view.text /\ log[r][i].to = page[p].view.status
        /\ log[r][n].text = text[r]
    BY <2>2, <2>3 DEF Entry
  <2>5. log[r][i].text <= log[r][n].text
    <3>1. i <= n
      BY <2>2, <2>3
    <3> QED
      BY <2>0, <2>1, <2>2, <2>3, <3>1 DEF TextsGrow
  <2>6. log[r][i].text < log[r][n].text
    BY <1>1, <2>1, <2>3, <2>4, <2>5
  <2>7. log[r][i].to \in {ProAudit, CompAudit}
    BY <1>1, <2>4 DEF From, Verdict, ProAudit, ProRejected, CompAudit, CompRejected, Passed
  <2> QED
    BY <2>0, <2>1, <2>2, <2>3, <2>4, <2>6, <2>7 DEF MovedOnByReject
<1>2. ReportsInv /\ [Next]_vars =>
         [\A p \in Page :
             LET r    == Shown(p)
                 seen == page[p].view
             IN  /\ At(p, "log") /\ log'[r] # log[r]
                 /\ page[p].to \in Verdict /\ seen.status \in From(page[p].to)
                 /\ seen.text # text[r]
                 => \E i \in DOMAIN log[r] : /\ log[r][i].to \in Rejects
                                             /\ log[r][i].text >= seen.text]_vars
    BY <1>1
<1> QED
    BY ReportsInvariant, <1>2, PTL DEF Spec, OnlyRejectsMisplaceVerdicts
===============================================================================
