---------------------------- MODULE AccountsProofs ----------------------------
(***************************************************************************)
(* Proofs about Accounts, for any number of requests, names and accounts.  *)
(* The invariant adds three parts to what is to be shown:                  *)
(*   - LoginsAreFresh: a login that is about to write its key has read the *)
(*     row as it is, or its account is in doubt; this is why SessionsAre-  *)
(*     Current survives the write;                                         *)
(*   - OperatorsExist: a request that may yet delete an account has an     *)
(*     operator whose account is there, unless it was deleted meanwhile;   *)
(*   - NobodyDeletesHimself.                                               *)
(* AccountsRemain follows from the last two: who deletes stays behind.     *)
(***************************************************************************)
EXTENDS Accounts, TLAPS

LoginsAreFresh ==
    \A c \in Client : At(c, "login") =>
        \/ op[c].id \in doubt
        \/ /\ op[c].id \in DOMAIN account
           /\ op[c].changes = account[op[c].id].changes

MayDelete(c) == At(c, "verified") \/ At(c, "delete")

OperatorsExist ==
    \A c \in Client : MayDelete(c) =>
        op[c].by \in DOMAIN account \/ raced \/ doubt # {}

NobodyDeletesHimself == \A c \in Client : At(c, "delete") => op[c].id # op[c].by

AccountsInv ==
    /\ TypeOK
    /\ UsernamesAreUnique
    /\ LoginsAreFresh
    /\ SessionsAreCurrent
    /\ OperatorsExist
    /\ NobodyDeletesHimself
    /\ AccountsRemain

-------------------------------------------------------------------------------
(***************************************************************************)
(* Types.                                                                  *)
(***************************************************************************)
\* The default of a request is a request.
LEMMA NoOpType == NoOp \in Op
BY AccountsAssumption DEF NoOp, Op, Id

\* The seeded table is a table.
LEMMA SeedType ==
    ASSUME NEW id \in Id
    PROVE  /\ DOMAIN Seed(id) = {id} /\ Seed(id) \in [{id} -> Row]
           /\ Seed(id)[id].changes = 0
BY AccountsAssumption DEF Seed, Row

\* The initial state.
LEMMA InitInv == Init => AccountsInv
<1> SUFFICES ASSUME Init PROVE AccountsInv
    OBVIOUS
<1>1. 1 \in Id /\ 2 \in 1..(MaxId + 1)
    BY AccountsAssumption DEF Id
<1>2. DOMAIN account = {1} /\ account \in [{1} -> Row]
    BY <1>1, SeedType DEF Init
<1>3. \A c \in Client : op[c] = NoOp /\ op[c].pc = "idle"
    BY DEF Init, NoOp
<1>4. TypeOK
  <2>1. \E ids \in SUBSET Id : account \in [ids -> Row]
    BY <1>1, <1>2
  <2>2. op \in [Client -> Op]
    BY NoOpType DEF Init
  <2>3. white \in [Id -> 0..Len(tokens)] /\ tokens \in Seq([id : Id, changes : 0..MaxChanges])
    BY DEF Init
  <2>4. nextId \in 1..(MaxId + 1) /\ \A id \in DOMAIN account : id < nextId
    BY <1>1, <1>2 DEF Init
  <2>5. doubt \in SUBSET Id /\ raced \in BOOLEAN
    BY DEF Init
  <2> QED
    BY <2>1, <2>2, <2>3, <2>4, <2>5 DEF TypeOK
<1>5. UsernamesAreUnique /\ SessionsAreCurrent
  <2>1. UsernamesAreUnique
    BY <1>2 DEF UsernamesAreUnique
  <2>2. \A id \in Id : white[id] = 0
    BY DEF Init
  <2> QED
    BY <2>1, <2>2 DEF SessionsAreCurrent
<1>6. AccountsRemain
    BY <1>2 DEF AccountsRemain
<1>7. LoginsAreFresh /\ OperatorsExist /\ NobodyDeletesHimself
    BY <1>3 DEF LoginsAreFresh, OperatorsExist, NobodyDeletesHimself, MayDelete, At
<1> QED
    BY <1>4, <1>5, <1>6, <1>7 DEF AccountsInv

\* A request that moves on to another state of requests.
LEMMA OpChange ==
    ASSUME TypeOK, NEW c \in Client, NEW next \in Op, op' = [op EXCEPT ![c] = next]
    PROVE  /\ op' \in [Client -> Op]
           /\ op'[c] = next
           /\ \A d \in Client : d # c => op'[d] = op[d]
BY DEF TypeOK

\* The table as a function on its ids.
LEMMA TableIs ==
    ASSUME TypeOK
    PROVE  /\ DOMAIN account \in SUBSET Id
           /\ account \in [DOMAIN account -> Row]
           /\ \A id \in DOMAIN account : id \in Id /\ account[id] \in Row
                                          /\ id \in Nat /\ id < nextId
BY DEF TypeOK, Id

\* What was handed out is a token, and no key holds anything else.
LEMMA TokensAre ==
    ASSUME TypeOK
    PROVE  /\ Len(tokens) \in Nat /\ DOMAIN tokens = 1..Len(tokens)
           /\ \A t \in DOMAIN tokens : tokens[t] \in [id : Id, changes : 0..MaxChanges]
           /\ \A id \in Id : white[id] \in 0..Len(tokens)
<1> DEFINE Token == [id : Id, changes : 0..MaxChanges]
<1>1. tokens \in Seq(Token) /\ white \in [Id -> 0..Len(tokens)]
    BY DEF TypeOK
<1> HIDE DEF Token
<1>2. Len(tokens) \in Nat /\ DOMAIN tokens = 1..Len(tokens)
    BY <1>1
<1>3. \A t \in DOMAIN tokens : tokens[t] \in Token
    BY <1>1
<1>4. \A id \in Id : white[id] \in 0..Len(tokens)
    BY <1>1
<1> QED
    BY <1>2, <1>3, <1>4 DEF Token

\* Every step keeps the types.
LEMMA TypeStep == TypeOK /\ [Next]_vars => TypeOK'
<1> SUFFICES ASSUME TypeOK, [Next]_vars PROVE TypeOK'
    OBVIOUS
<1> USE AccountsAssumption
<1>0. /\ DOMAIN account \in SUBSET Id /\ account \in [DOMAIN account -> Row]
      /\ nextId \in 1..(MaxId + 1) /\ \A id \in DOMAIN account : id < nextId
      /\ tokens \in Seq([id : Id, changes : 0..MaxChanges])
      /\ white \in [Id -> 0..Len(tokens)] /\ op \in [Client -> Op]
      /\ doubt \in SUBSET Id /\ raced \in BOOLEAN
    BY TableIs DEF TypeOK
<1>1. CASE UNCHANGED vars
    BY <1>1 DEF vars, TypeOK
<1>2. ASSUME NEW c \in Client, Request(c) PROVE TypeOK'
  <2>0. op[c] \in Op
    BY <1>0
  <2>1. ASSUME NEW id \in Id, Login(c, id) PROVE TypeOK'
    <3>1. [NoOp EXCEPT !.pc = "login", !.id = id, !.changes = account[id].changes] \in Op
      BY <1>0, <2>1, NoOpType DEF Login, Op, Row
    <3>2. op' = [op EXCEPT ![c] = [NoOp EXCEPT !.pc = "login", !.id = id,
                                               !.changes = account[id].changes]]
      BY <2>1 DEF Login
    <3> QED
      BY <2>1, <3>1, <3>2, OpChange DEF Login, TypeOK
  <2>2. ASSUME NEW id \in Id, DeleteAdminUser(c, id) PROVE TypeOK'
    <3>1. [op[c] EXCEPT !.pc = "delete", !.id = id] \in Op
      BY <2>0 DEF Op
    <3>2. op' = [op EXCEPT ![c] = [op[c] EXCEPT !.pc = "delete", !.id = id]]
      BY <2>2 DEF DeleteAdminUser
    <3> QED
      BY <2>2, <3>1, <3>2, OpChange DEF DeleteAdminUser, TypeOK
  <2>3. ASSUME NEW t \in DOMAIN tokens, VerifyAccessToken(c, t) PROVE TypeOK'
    <3>1. tokens[t].id \in Id
      BY TokensAre, <2>3
    <3>2. [NoOp EXCEPT !.pc = "verified", !.by = tokens[t].id] \in Op
      BY <3>1, NoOpType DEF Op
    <3>3. raced' \in BOOLEAN
      BY <2>3, <1>0 DEF VerifyAccessToken, KickUnderWay
    <3>4. op' \in [Client -> Op]
      BY <2>3, <3>2, OpChange DEF VerifyAccessToken
    <3>5. UNCHANGED <<account, nextId, tokens, white, doubt>>
      BY <2>3 DEF VerifyAccessToken
    <3> QED
      BY <1>0, <3>3, <3>4, <3>5 DEF TypeOK
  <2>4. ASSUME NEW n \in Name, CreateAdminUser(c, n) PROVE TypeOK'
    <3>1. [op[c] EXCEPT !.pc = "insert", !.name = n] \in Op
      BY <2>0 DEF Op
    <3>2. op' = [op EXCEPT ![c] = [op[c] EXCEPT !.pc = "insert", !.name = n]]
      BY <2>4 DEF CreateAdminUser
    <3> QED
      BY <2>4, <3>1, <3>2, OpChange DEF CreateAdminUser, TypeOK
  <2>5. ASSUME NEW id \in Id, NEW n \in Name, NEW password \in BOOLEAN,
               UpdateAdminUser(c, id, n, password)
        PROVE  TypeOK'
    <3>1. [op[c] EXCEPT !.pc = "check", !.id = id, !.name = n, !.password = password] \in Op
      BY <2>0 DEF Op
    <3>2. op' = [op EXCEPT ![c] = [op[c] EXCEPT !.pc = "check", !.id = id, !.name = n,
                                                !.password = password]]
      BY <2>5 DEF UpdateAdminUser
    <3> QED
      BY <2>5, <3>1, <3>2, OpChange DEF UpdateAdminUser, TypeOK
  <2>6. CASE WhitelistLogin(c)
    <3>1. op[c].id \in Id /\ [id |-> op[c].id, changes |-> op[c].changes]
                                 \in [id : Id, changes : 0..MaxChanges]
      BY <2>0 DEF Op
    <3>2. tokens' \in Seq([id : Id, changes : 0..MaxChanges]) /\ Len(tokens') = Len(tokens) + 1
      BY <1>0, <2>6, <3>1 DEF WhitelistLogin
    <3>3. white' = [white EXCEPT ![op[c].id] = Len(tokens) + 1]
      BY <2>6 DEF WhitelistLogin, NewToken
    <3>4. Len(tokens) + 1 \in 0..Len(tokens') /\ 0..Len(tokens) \in SUBSET (0..Len(tokens'))
      BY <1>0, <3>2
    <3>5. white' \in [Id -> 0..Len(tokens')]
      BY <1>0, <3>1, <3>3, <3>4
    <3>6. op' \in [Client -> Op]
      BY <2>6, NoOpType, OpChange DEF WhitelistLogin, Finish
    <3> QED
      BY <1>0, <2>6, <3>2, <3>5, <3>6 DEF WhitelistLogin, TypeOK
  <2>7. CASE Logout(c) \/ Kick(c)
    <3>0. 0 \in 0..Len(tokens) /\ op[c].by \in Id /\ op[c].id \in Id
      BY <2>0, TokensAre DEF Op
    <3>1. white' \in [Id -> 0..Len(tokens)]
      BY <1>0, <2>7, <3>0 DEF Logout, Kick
    <3>2. op' \in [Client -> Op]
      BY <2>7, NoOpType, OpChange DEF Logout, Kick, Finish
    <3>3. UNCHANGED <<account, nextId, tokens, doubt, raced>>
      BY <2>7 DEF Logout, Kick
    <3> QED
      BY <1>0, <3>1, <3>2, <3>3 DEF TypeOK
  <2>8. CASE InsertAdminUser(c)
    <3>1. nextId \in Id /\ nextId' = nextId + 1 /\ nextId' \in 1..(MaxId + 1)
      BY <1>0, <2>8 DEF InsertAdminUser, AutoIncrement, Id
    <3>2. DOMAIN account' = DOMAIN account \cup {nextId}
      BY <2>8 DEF InsertAdminUser
    <3>3. account' \in [DOMAIN account \cup {nextId} -> Row]
      BY <1>0, <2>0, <2>8 DEF InsertAdminUser, Row, Op
    <3>4. \A id \in DOMAIN account' : id < nextId'
      BY <1>0, <3>1, <3>2 DEF Id
    <3>5. DOMAIN account \cup {nextId} \in SUBSET Id
      BY <1>0, <3>1
    <3>6. \E ids \in SUBSET Id : account' \in [ids -> Row]
      BY <3>3, <3>5
    <3> QED
      BY <2>8, <3>1, <3>4, <3>6, NoOpType, OpChange DEF InsertAdminUser, Finish, TypeOK
  <2>9. CASE CheckName(c)
    <3>1. [op[c] EXCEPT !.pc = "update"] \in Op
      BY <2>0 DEF Op
    <3>2. op' = [op EXCEPT ![c] = [op[c] EXCEPT !.pc = "update"]]
      BY <2>9 DEF CheckName, Goto
    <3> QED
      BY <2>9, <3>1, <3>2, OpChange DEF CheckName, TypeOK
  <2>10. CASE WriteAdminUser(c) \/ DeleteRow(c)
    <3>1. op[c].id \in Id /\ op[c].name \in Name
      BY <2>0 DEF Op
    <3>2. [NoOp EXCEPT !.pc = "kick", !.id = op[c].id] \in Op
      BY <3>1, NoOpType DEF Op
    <3>3. op' \in [Client -> Op]
      BY <2>10, <3>2, NoOpType, OpChange DEF WriteAdminUser, DeleteRow, KickNext, Finish
    <3>4. doubt' \in SUBSET Id
      BY <1>0, <2>10, <3>1 DEF WriteAdminUser, DeleteRow
    <3>5. raced' \in BOOLEAN
      BY <1>0, <2>10 DEF WriteAdminUser, DeleteRow, OthersUnderWay
    <3>6. DOMAIN account' \in SUBSET DOMAIN account /\ account' \in [DOMAIN account' -> Row]
      <4>1. CASE DeleteRow(c)
        BY <1>0, <4>1 DEF DeleteRow
      <4>2. CASE WriteAdminUser(c) /\ op[c].id \notin DOMAIN account
        BY <1>0, <4>2 DEF WriteAdminUser
      <4>3. CASE WriteAdminUser(c) /\ op[c].id \in DOMAIN account
        <5> DEFINE id == op[c].id
                   others == op[c].password /\ id # op[c].by
        <5>1. account[id] \in Row /\ (others => account[id].changes < MaxChanges)
          BY <1>0, <4>3 DEF WriteAdminUser
        <5>2. account[id].changes + (IF others THEN 1 ELSE 0) \in 0..MaxChanges
          BY <5>1 DEF Row
        <5>3. account' = [account EXCEPT ![id] =
                 [name |-> op[c].name,
                  changes |-> account[id].changes + (IF others THEN 1 ELSE 0)]]
          BY <4>3 DEF WriteAdminUser
        <5> HIDE DEF others
        <5> QED
          BY <1>0, <3>1, <5>2, <5>3 DEF Row
      <4> QED
        BY <2>10, <4>1, <4>2, <4>3
    <3>7. \E ids \in SUBSET Id : account' \in [ids -> Row]
      BY <1>0, <3>6
    <3> QED
      BY <1>0, <2>10, <3>3, <3>4, <3>5, <3>6, <3>7 DEF WriteAdminUser, DeleteRow, TypeOK
  <2>11. CASE Fail(c)
    <3>1. doubt' \in SUBSET Id
      BY <1>0, <2>0, <2>11 DEF Fail, Op
    <3> QED
      BY <2>11, <3>1, NoOpType, OpChange DEF Fail, Finish, TypeOK
  <2> QED
    BY <1>2, <2>1, <2>2, <2>3, <2>4, <2>5, <2>6, <2>7, <2>8, <2>9, <2>10, <2>11 DEF Request
<1>3. ASSUME NEW id \in Id, Expire(id) PROVE TypeOK'
    BY <1>0, <1>3 DEF Expire, TypeOK
<1>4. CASE Restart
  <2>1. op' \in [Client -> Op]
    BY <1>4, NoOpType DEF Restart
  <2>2. doubt' \in SUBSET Id
    BY <1>0, <1>4 DEF Restart, Op
  <2>3. CASE account = <<>> /\ nextId <= MaxId
    <3>1. nextId \in Id /\ nextId' = nextId + 1 /\ nextId' \in 1..(MaxId + 1)
      BY <1>0, <1>4, <2>3 DEF Restart, AutoIncrement, Id
    <3>2. DOMAIN account' = {nextId} /\ account' \in [{nextId} -> Row]
      BY <1>4, <2>3, <3>1, SeedType DEF Restart
    <3>3. \E ids \in SUBSET Id : account' \in [ids -> Row]
      BY <3>1, <3>2
    <3>4. \A id \in DOMAIN account' : id < nextId'
      BY <3>1, <3>2 DEF Id
    <3>5. UNCHANGED <<tokens, white, raced>>
      BY <1>4 DEF Restart
    <3> QED
      BY <1>0, <2>1, <2>2, <3>1, <3>3, <3>4, <3>5 DEF TypeOK
  <2>4. CASE ~(account = <<>> /\ nextId <= MaxId)
    BY <1>4, <2>1, <2>2, <2>4 DEF Restart, TypeOK
  <2> QED
    BY <2>3, <2>4
<1> QED
    BY <1>1, <1>2, <1>3, <1>4 DEF Next
-------------------------------------------------------------------------------
(***************************************************************************)
(* Steps.                                                                  *)
(***************************************************************************)
\* Steps of a request that change no account and no session.
Quiet(c) ==
    /\ UNCHANGED <<account, nextId, tokens, white, doubt>>
    /\ ~At(c, "kick")
    /\ op'[c].pc \in {"verified", "insert", "check", "update", "delete"}

\* A step of one request leaves the others where they are, takes no account out
\* of doubt and forgets no race.
LEMMA OthersStay ==
    ASSUME TypeOK, NEW c \in Client, Request(c)
    PROVE  /\ \A d \in Client : d # c => op'[d] = op[d]
           /\ doubt \subseteq doubt' /\ (raced => raced')
<1>1. op \in [Client -> Op]
    BY DEF TypeOK
<1>2. \E next : op' = [op EXCEPT ![c] = next]
  <2>1. ASSUME NEW id \in Id, Login(c, id) \/ DeleteAdminUser(c, id)
        PROVE  \E next : op' = [op EXCEPT ![c] = next]
      BY <2>1 DEF Login, DeleteAdminUser
  <2>2. ASSUME NEW t \in DOMAIN tokens, VerifyAccessToken(c, t)
        PROVE  \E next : op' = [op EXCEPT ![c] = next]
      BY <2>2 DEF VerifyAccessToken
  <2>3. ASSUME NEW n \in Name, CreateAdminUser(c, n)
        PROVE  \E next : op' = [op EXCEPT ![c] = next]
      BY <2>3 DEF CreateAdminUser
  <2>4. ASSUME NEW id \in Id, NEW n \in Name, NEW password \in BOOLEAN,
               UpdateAdminUser(c, id, n, password)
        PROVE  \E next : op' = [op EXCEPT ![c] = next]
      BY <2>4 DEF UpdateAdminUser
  <2>5. CASE WhitelistLogin(c) \/ Logout(c) \/ InsertAdminUser(c) \/ Kick(c) \/ Fail(c)
      BY <2>5 DEF WhitelistLogin, Logout, InsertAdminUser, Kick, Fail, Finish
  <2>6. CASE CheckName(c)
      BY <2>6 DEF CheckName, Goto
  <2>7. CASE WriteAdminUser(c) \/ DeleteRow(c)
      BY <2>7 DEF WriteAdminUser, DeleteRow, KickNext, Finish
  <2> QED
      BY <2>1, <2>2, <2>3, <2>4, <2>5, <2>6, <2>7 DEF Request
<1>3. doubt \subseteq doubt'
    BY DEF Request, Login, DeleteAdminUser, VerifyAccessToken, CreateAdminUser,
           UpdateAdminUser, WhitelistLogin, Logout, InsertAdminUser, CheckName,
           WriteAdminUser, DeleteRow, Kick, Fail
<1>4. raced => raced'
    BY DEF Request, Login, DeleteAdminUser, VerifyAccessToken, CreateAdminUser,
           UpdateAdminUser, WhitelistLogin, Logout, InsertAdminUser, CheckName,
           WriteAdminUser, DeleteRow, Kick, Fail
<1> QED
    BY <1>1, <1>2, <1>3, <1>4

\* Which steps are quiet.
LEMMA QuietSteps ==
    ASSUME TypeOK, NEW c \in Client, Request(c)
    PROVE  \/ Quiet(c)
           \/ \E id \in Id : Login(c, id)
           \/ WhitelistLogin(c) \/ Logout(c) \/ InsertAdminUser(c)
           \/ WriteAdminUser(c) \/ DeleteRow(c) \/ Kick(c) \/ Fail(c)
<1>1. op \in [Client -> Op]
    BY DEF TypeOK
<1>2. ASSUME NEW id \in Id, DeleteAdminUser(c, id) PROVE Quiet(c)
    BY <1>1, <1>2 DEF DeleteAdminUser, Quiet, At, Op
<1>3. ASSUME NEW t \in DOMAIN tokens, VerifyAccessToken(c, t) PROVE Quiet(c)
    BY <1>1, <1>3 DEF VerifyAccessToken, Quiet, At, NoOp
<1>4. ASSUME NEW n \in Name, CreateAdminUser(c, n) PROVE Quiet(c)
    BY <1>1, <1>4 DEF CreateAdminUser, Quiet, At, Op
<1>5. ASSUME NEW id \in Id, NEW n \in Name, NEW password \in BOOLEAN,
             UpdateAdminUser(c, id, n, password)
      PROVE  Quiet(c)
    BY <1>1, <1>5 DEF UpdateAdminUser, Quiet, At, Op
<1>6. CASE CheckName(c)
    BY <1>1, <1>6 DEF CheckName, Goto, Quiet, At, Op
<1> QED
    BY <1>2, <1>3, <1>4, <1>5, <1>6 DEF Request

\* Where a request is after the steps that are not quiet.
LEMMA AfterStep ==
    ASSUME TypeOK, NEW c \in Client
    PROVE  /\ (WhitelistLogin(c) \/ Logout(c) \/ InsertAdminUser(c) \/ Kick(c) \/ Fail(c))
                  => op'[c].pc = "idle"
           /\ DeleteRow(c) => op'[c].pc = "kick" /\ op'[c].id = op[c].id
           /\ WriteAdminUser(c) => IF Kicks(c) THEN op'[c].pc = "kick" /\ op'[c].id = op[c].id
                                               ELSE op'[c].pc = "idle"
<1>1. op \in [Client -> Op]
    BY DEF TypeOK
<1>2. (WhitelistLogin(c) \/ Logout(c) \/ InsertAdminUser(c) \/ Kick(c) \/ Fail(c))
          => op'[c].pc = "idle"
    BY <1>1 DEF WhitelistLogin, Logout, InsertAdminUser, Kick, Fail, Finish, NoOp
<1>3. DeleteRow(c) => op'[c].pc = "kick" /\ op'[c].id = op[c].id
    BY <1>1 DEF DeleteRow, KickNext, NoOp
<1>4. WriteAdminUser(c) => IF Kicks(c) THEN op'[c].pc = "kick" /\ op'[c].id = op[c].id
                                       ELSE op'[c].pc = "idle"
  <2> SUFFICES ASSUME WriteAdminUser(c)
               PROVE  IF Kicks(c) THEN op'[c].pc = "kick" /\ op'[c].id = op[c].id
                                  ELSE op'[c].pc = "idle"
      OBVIOUS
  <2>1. IF Kicks(c) THEN KickNext(c) ELSE Finish(c)
      BY DEF WriteAdminUser
  <2>2. KickNext(c) => op'[c].pc = "kick" /\ op'[c].id = op[c].id
      BY <1>1 DEF KickNext, NoOp
  <2>3. Finish(c) => op'[c].pc = "idle"
      BY <1>1 DEF Finish, NoOp
  <2> QED
      BY <2>1, <2>2, <2>3
<1> QED
    BY <1>2, <1>3, <1>4

\* What the three writes do to the table, row by row.
LEMMA TableStep ==
    ASSUME TypeOK, NEW c \in Client
    PROVE  /\ InsertAdminUser(c) =>
                  /\ DOMAIN account' = DOMAIN account \cup {nextId}
                  /\ nextId \notin DOMAIN account
                  /\ account'[nextId].name = op[c].name
                  /\ \A id \in DOMAIN account : account'[id] = account[id]
           /\ WriteAdminUser(c) =>
                  /\ DOMAIN account' = DOMAIN account
                  /\ \A id \in DOMAIN account :
                        IF id = op[c].id
                        THEN account'[id].name = op[c].name
                             /\ (~Kicks(c) => account'[id].changes = account[id].changes)
                        ELSE account'[id] = account[id]
           /\ DeleteRow(c) =>
                  /\ DOMAIN account' = DOMAIN account \ {op[c].id}
                  /\ \A id \in DOMAIN account' : account'[id] = account[id]
<1>0. /\ DOMAIN account \in SUBSET Id /\ account \in [DOMAIN account -> Row]
      /\ nextId \notin DOMAIN account
    BY TableIs
<1>1. ASSUME InsertAdminUser(c)
      PROVE  /\ DOMAIN account' = DOMAIN account \cup {nextId}
             /\ account'[nextId].name = op[c].name
             /\ \A id \in DOMAIN account : account'[id] = account[id]
  <2>1. account' = [id \in DOMAIN account \cup {nextId} |->
                       IF id = nextId THEN [name |-> op[c].name, changes |-> 0]
                                      ELSE account[id]]
      BY <1>1 DEF InsertAdminUser
  <2>2. DOMAIN account' = DOMAIN account \cup {nextId}
      BY <2>1
  <2>3. account'[nextId] = [name |-> op[c].name, changes |-> 0]
      BY <2>1
  <2>4. \A id \in DOMAIN account : account'[id] = account[id]
      BY <1>0, <2>1
  <2> QED
      BY <2>2, <2>3, <2>4
<1>2. ASSUME DeleteRow(c)
      PROVE  /\ DOMAIN account' = DOMAIN account \ {op[c].id}
             /\ \A id \in DOMAIN account' : account'[id] = account[id]
    BY <1>2 DEF DeleteRow
<1>3. ASSUME WriteAdminUser(c)
      PROVE  /\ DOMAIN account' = DOMAIN account
             /\ \A id \in DOMAIN account :
                   IF id = op[c].id
                   THEN account'[id].name = op[c].name
                        /\ (~Kicks(c) => account'[id].changes = account[id].changes)
                   ELSE account'[id] = account[id]
  <2>1. CASE op[c].id \notin DOMAIN account
      BY <1>3, <2>1 DEF WriteAdminUser
  <2>2. CASE op[c].id \in DOMAIN account
    <3>1. account[op[c].id].changes \in Nat
        BY <1>0, <2>2, AccountsAssumption DEF Row
    <3>2. account' = [account EXCEPT ![op[c].id] =
                 [name |-> op[c].name,
                  changes |-> account[op[c].id].changes + (IF Kicks(c) THEN 1 ELSE 0)]]
        BY <1>3, <2>2 DEF WriteAdminUser, Kicks
    <3> QED
        BY <1>0, <2>2, <3>1, <3>2
  <2> QED
      BY <2>1, <2>2
<1> QED
    BY <1>0, <1>1, <1>2, <1>3
\* The unique key: neither a new row nor an edited one takes a name in use.
LEMMA UsernamesStep == AccountsInv /\ [Next]_vars => UsernamesAreUnique'
<1> SUFFICES ASSUME AccountsInv, [Next]_vars PROVE UsernamesAreUnique'
    OBVIOUS
<1>0. TypeOK /\ UsernamesAreUnique
    BY DEF AccountsInv
<1>1. /\ DOMAIN account \in SUBSET Id
      /\ \A i, j \in DOMAIN account : account[i].name = account[j].name => i = j
    BY <1>0, TableIs DEF UsernamesAreUnique
<1>2. CASE UNCHANGED account
    BY <1>1, <1>2 DEF UsernamesAreUnique
<1>3. ASSUME NEW c \in Client, InsertAdminUser(c) PROVE UsernamesAreUnique'
  <2>1. /\ DOMAIN account' = DOMAIN account \cup {nextId}
        /\ account'[nextId].name = op[c].name
        /\ \A id \in DOMAIN account : account'[id] = account[id]
    BY <1>0, <1>3, TableStep
  <2>2. \A id \in DOMAIN account : account[id].name # op[c].name
    BY <1>1, <1>3 DEF InsertAdminUser, UniqueKey, Taken
  <2> QED
    BY <1>1, <2>1, <2>2 DEF UsernamesAreUnique
<1>4. ASSUME NEW c \in Client, WriteAdminUser(c) PROVE UsernamesAreUnique'
  <2>1. /\ DOMAIN account' = DOMAIN account
        /\ \A id \in DOMAIN account : account'[id].name =
              IF id = op[c].id THEN op[c].name ELSE account[id].name
    BY <1>0, <1>4, TableStep
  <2>2. \A id \in DOMAIN account \ {op[c].id} : account[id].name # op[c].name
    BY <1>1, <1>4 DEF WriteAdminUser, UniqueKey, Taken
  <2> QED
    BY <1>1, <2>1, <2>2 DEF UsernamesAreUnique
<1>5. ASSUME NEW c \in Client, DeleteRow(c) PROVE UsernamesAreUnique'
  <2>1. /\ DOMAIN account' = DOMAIN account \ {op[c].id}
        /\ \A id \in DOMAIN account' : account'[id] = account[id]
    BY <1>0, <1>5, TableStep
  <2> QED
    BY <1>1, <2>1 DEF UsernamesAreUnique
<1>6. CASE Restart
  <2>1. CASE account' = Seed(nextId)
    BY <2>1 DEF Seed, UsernamesAreUnique
  <2> QED
    BY <1>2, <1>6, <2>1 DEF Restart
<1>7. ASSUME NEW c \in Client, Request(c) PROVE UsernamesAreUnique'
    BY <1>0, <1>2, <1>3, <1>4, <1>5, <1>7, QuietSteps
       DEF Quiet, Login, WhitelistLogin, Logout, Kick, Fail
<1> QED
    BY <1>2, <1>6, <1>7 DEF Next, Expire, vars

\* A row changes, or goes, only with its logins put in doubt.
LEMMA LoginsStep == AccountsInv /\ [Next]_vars => LoginsAreFresh'
<1> SUFFICES ASSUME AccountsInv, [Next]_vars PROVE LoginsAreFresh'
    OBVIOUS
<1>0. TypeOK /\ LoginsAreFresh
    BY DEF AccountsInv
<1>1. CASE UNCHANGED <<account, op, doubt>>
    BY <1>0, <1>1 DEF LoginsAreFresh, At
<1>2. ASSUME NEW c \in Client, Request(c) PROVE LoginsAreFresh'
  <2> SUFFICES ASSUME NEW d \in Client, op'[d].pc = "login"
               PROVE  \/ op'[d].id \in doubt'
                      \/ /\ op'[d].id \in DOMAIN account'
                         /\ op'[d].changes = account'[op'[d].id].changes
    BY DEF LoginsAreFresh, At
  <2>1. /\ \A e \in Client : e # c => op'[e] = op[e]
        /\ doubt \subseteq doubt'
    BY <1>0, <1>2, OthersStay
  <2>2. CASE d = c
    <3>1. PICK id \in Id : Login(c, id)
      BY <1>0, <1>2, <2>2, QuietSteps, AfterStep DEF Quiet
    <3>2. op'[c] = [NoOp EXCEPT !.pc = "login", !.id = id, !.changes = account[id].changes]
      BY <1>0, <3>1 DEF Login, TypeOK
    <3>3. op'[c].id = id /\ op'[c].changes = account[id].changes
      BY <3>2 DEF NoOp
    <3> QED
      BY <2>2, <3>1, <3>3 DEF Login
  <2>3. CASE d # c
    <3>0. op'[d] = op[d]
      BY <2>1, <2>3
    <3>1. \/ op[d].id \in doubt
          \/ /\ op[d].id \in DOMAIN account
             /\ op[d].changes = account[op[d].id].changes
      BY <1>0, <3>0 DEF LoginsAreFresh, At
    <3>2. CASE op[d].id \in doubt
      BY <2>1, <3>0, <3>2
    <3>3. CASE UNCHANGED account
      BY <2>1, <3>0, <3>1, <3>3
    <3>4. CASE InsertAdminUser(c)
      BY <1>0, <2>1, <3>0, <3>1, <3>4, TableStep
    <3>5. CASE WriteAdminUser(c) /\ op[d].id = op[c].id /\ Kicks(c)
      <4>1. LoginUnderWay(op[c].id)
        BY <3>0, <3>5 DEF LoginUnderWay, At
      <4> QED
        BY <3>0, <3>5, <4>1 DEF WriteAdminUser, Kicks
    <3>6. CASE WriteAdminUser(c) /\ ~(op[d].id = op[c].id /\ Kicks(c))
      BY <1>0, <2>1, <3>0, <3>1, <3>6, TableStep
    <3>7. CASE DeleteRow(c) /\ op[d].id = op[c].id
      <4>1. LoginUnderWay(op[c].id)
        BY <3>0, <3>7 DEF LoginUnderWay, At
      <4> QED
        BY <3>0, <3>7, <4>1 DEF DeleteRow
    <3>8. CASE DeleteRow(c) /\ op[d].id # op[c].id
      BY <1>0, <2>1, <3>0, <3>1, <3>8, TableStep
    <3> QED
      BY <1>0, <1>2, <3>3, <3>4, <3>5, <3>6, <3>7, <3>8, QuietSteps
         DEF Quiet, Login, WhitelistLogin, Logout, Kick, Fail
  <2> QED
    BY <2>2, <2>3
<1>3. CASE Restart
    BY <1>3 DEF Restart, NoOp, LoginsAreFresh, At
<1> QED
    BY <1>1, <1>2, <1>3 DEF Next, Expire, vars
\* A row that changes under a session is followed by the kick; the login that
\* writes a key has read the row as it is, or the account is in doubt.
LEMMA SessionsStep == AccountsInv /\ [Next]_vars => SessionsAreCurrent'
<1> SUFFICES ASSUME AccountsInv, [Next]_vars PROVE SessionsAreCurrent'
    OBVIOUS
<1>0. TypeOK /\ LoginsAreFresh /\ SessionsAreCurrent
    BY DEF AccountsInv
<1> SUFFICES ASSUME NEW id \in Id, white'[id] # 0, Outdated(id)'
             PROVE  id \in doubt' \/ KickUnderWay(id)'
    BY DEF SessionsAreCurrent
<1>1. white[id] # 0 /\ Outdated(id) => id \in doubt \/ KickUnderWay(id)
    BY <1>0 DEF SessionsAreCurrent
<1>2. CASE UNCHANGED <<account, tokens, op, doubt>> /\ (white'[id] # 0 => white[id] = white'[id])
    BY <1>1, <1>2 DEF Outdated, KickUnderWay, At
<1>3. ASSUME NEW c \in Client, Request(c) PROVE id \in doubt' \/ KickUnderWay(id)'
  <2>1. /\ \A d \in Client : d # c => op'[d] = op[d]
        /\ doubt \subseteq doubt'
    BY <1>0, <1>3, OthersStay
  <2>2. KickUnderWay(id) /\ (~At(c, "kick") \/ op[c].id # id) => KickUnderWay(id)'
    BY <2>1 DEF KickUnderWay, At
  <2>3. CASE Quiet(c) \/ \E i \in Id : Login(c, i)
    <3>1. UNCHANGED <<account, tokens, white>> /\ ~At(c, "kick")
      BY <2>3 DEF Quiet, Login, At
    <3> QED
      BY <1>1, <2>1, <2>2, <3>1 DEF Outdated
  <2>4. CASE WhitelistLogin(c)
    <3>1. /\ At(c, "login")
          /\ tokens' = Append(tokens, [id |-> op[c].id, changes |-> op[c].changes])
          /\ white' = [white EXCEPT ![op[c].id] = Len(tokens) + 1]
          /\ UNCHANGED <<account, doubt>>
      BY <2>4 DEF WhitelistLogin, NewToken
    <3>2. /\ Len(tokens) \in Nat
          /\ \A t \in 1..Len(tokens) : tokens'[t] = tokens[t]
          /\ tokens'[Len(tokens) + 1] = [id |-> op[c].id, changes |-> op[c].changes]
      <4>1. tokens \in Seq([id : Id, changes : 0..MaxChanges])
        BY <1>0 DEF TypeOK
      <4> DEFINE token == [id |-> op[c].id, changes |-> op[c].changes]
                 Token == [id : Id, changes : 0..MaxChanges]
      <4>2. tokens' = Append(tokens, token) /\ token \in Token /\ tokens \in Seq(Token)
        BY <1>0, <3>1, <4>1 DEF TypeOK, Op
      <4> HIDE DEF token, Token
      <4>3. /\ Len(tokens) \in Nat
            /\ \A t \in 1..Len(tokens) : tokens'[t] = tokens[t]
            /\ tokens'[Len(tokens) + 1] = token
        BY <4>2
      <4> QED
        BY <4>3 DEF token
    <3>3. CASE id = op[c].id
      <4>1. white'[id] = Len(tokens) + 1
        BY <1>0, <3>1, <3>3 DEF TypeOK
      <4>2. tokens'[white'[id]].changes = op[c].changes
        BY <3>2, <4>1
      <4>3. op[c].id \in doubt \/ (id \in DOMAIN account /\ op[c].changes = account[id].changes)
        BY <1>0, <3>1, <3>3 DEF LoginsAreFresh
      <4> QED
        BY <3>1, <3>3, <4>2, <4>3 DEF Outdated
    <3>4. CASE id # op[c].id
      <4>1. white'[id] = white[id] /\ white[id] \in 1..Len(tokens)
        <5>1. white'[id] = white[id]
          BY <1>0, <3>1, <3>4 DEF TypeOK
        <5>2. white[id] \in 0..Len(tokens)
          BY <1>0, TokensAre
        <5> QED
          BY <3>2, <5>1, <5>2
      <4>2. tokens'[white'[id]] = tokens[white[id]]
        BY <3>2, <4>1
      <4>3. id \in doubt \/ KickUnderWay(id)
        BY <1>1, <3>1, <4>1, <4>2 DEF Outdated
      <4> QED
        BY <2>1, <2>2, <3>1, <4>3 DEF At
    <3> QED
      BY <3>3, <3>4
  <2>5. CASE Logout(c)
    <3>1. white'[id] = white[id] /\ UNCHANGED <<account, tokens>> /\ At(c, "verified")
      BY <1>0, <2>5 DEF Logout, TypeOK
    <3> QED
      BY <1>1, <2>1, <2>2, <3>1 DEF Outdated, At
  <2>6. CASE InsertAdminUser(c)
    <3>1. UNCHANGED <<white, tokens>> /\ At(c, "insert")
      BY <2>6 DEF InsertAdminUser
    <3>2. Outdated(id)
      BY <1>0, <2>6, <3>1, TableStep DEF Outdated
    <3> QED
      BY <1>1, <2>1, <2>2, <3>1, <3>2 DEF At
  <2>7. CASE WriteAdminUser(c) /\ Kicks(c) /\ op[c].id = id
    BY <1>0, <2>7, AfterStep DEF KickUnderWay, At
  <2>8. CASE WriteAdminUser(c) /\ ~(Kicks(c) /\ op[c].id = id)
    <3>1. UNCHANGED <<white, tokens>> /\ At(c, "update")
      BY <2>8 DEF WriteAdminUser
    <3>2. Outdated(id)
      BY <1>0, <2>8, <3>1, TableStep DEF Outdated
    <3> QED
      BY <1>1, <2>1, <2>2, <3>1, <3>2 DEF At
  <2>9. CASE DeleteRow(c) /\ op[c].id = id
    BY <1>0, <2>9, AfterStep DEF KickUnderWay, At
  <2>10. CASE DeleteRow(c) /\ op[c].id # id
    <3>1. UNCHANGED <<white, tokens>> /\ At(c, "delete")
      BY <2>10 DEF DeleteRow
    <3>2. Outdated(id)
      BY <1>0, <2>10, <3>1, TableStep DEF Outdated
    <3> QED
      BY <1>1, <2>1, <2>2, <3>1, <3>2 DEF At
  <2>11. CASE Kick(c)
    <3>1. white' = [white EXCEPT ![op[c].id] = 0] /\ UNCHANGED <<account, tokens>>
      BY <2>11 DEF Kick
    <3>2. op[c].id # id /\ white'[id] = white[id]
      BY <1>0, <3>1 DEF TypeOK
    <3> QED
      BY <1>1, <2>1, <2>2, <3>1, <3>2 DEF Outdated
  <2>12. CASE Fail(c)
    <3>1. UNCHANGED <<account, tokens, white>>
      BY <2>12 DEF Fail
    <3>2. At(c, "kick") => op[c].id \in doubt'
      BY <2>12 DEF Fail
    <3> QED
      BY <1>1, <2>1, <2>2, <3>1, <3>2 DEF Outdated
  <2> QED
    BY <1>0, <1>3, <2>3, <2>4, <2>5, <2>6, <2>7, <2>8, <2>9, <2>10, <2>11, <2>12, QuietSteps
<1>4. CASE Restart
  <2>1. UNCHANGED <<tokens, white>> /\ doubt \subseteq doubt'
    BY <1>4 DEF Restart
  <2>2. Outdated(id)
    <3>1. CASE UNCHANGED account
      BY <2>1, <3>1 DEF Outdated
    <3>2. CASE account = <<>>
      BY <3>2 DEF Outdated
    <3> QED
      BY <1>4, <3>1, <3>2 DEF Restart
  <2>3. KickUnderWay(id) => id \in doubt'
    BY <1>4 DEF Restart, KickUnderWay
  <2> QED
    BY <1>1, <2>1, <2>2, <2>3
<1>5. ASSUME NEW i \in Id, Expire(i) PROVE id \in doubt' \/ KickUnderWay(id)'
  <2>1. white' = [white EXCEPT ![i] = 0] /\ UNCHANGED <<account, tokens, op, doubt>>
    BY <1>5 DEF Expire
  <2>2. white'[id] # 0 => white[id] = white'[id]
    BY <1>0, <2>1 DEF TypeOK
  <2> QED
    BY <1>2, <2>1, <2>2
<1> QED
    BY <1>2, <1>3, <1>4, <1>5 DEF Next, vars

\* An account that goes while its operator may yet delete another is a race.
LEMMA OperatorsStep == AccountsInv /\ [Next]_vars => OperatorsExist'
<1> SUFFICES ASSUME AccountsInv, [Next]_vars PROVE OperatorsExist'
    OBVIOUS
<1>0. TypeOK /\ SessionsAreCurrent /\ OperatorsExist
    BY DEF AccountsInv
<1>1. CASE UNCHANGED <<account, op, doubt, raced>>
    BY <1>0, <1>1 DEF OperatorsExist, MayDelete, At
<1>2. ASSUME NEW c \in Client, Request(c) PROVE OperatorsExist'
  <2> SUFFICES ASSUME NEW d \in Client, op'[d].pc \in {"verified", "delete"}
               PROVE  op'[d].by \in DOMAIN account' \/ raced' \/ doubt' # {}
    BY DEF OperatorsExist, MayDelete, At
  <2>1. /\ \A e \in Client : e # c => op'[e] = op[e]
        /\ doubt \subseteq doubt' /\ (raced => raced')
    BY <1>0, <1>2, OthersStay
  <2>2. CASE d = c
    <3>1. ~(\E id \in Id : Login(c, id)) /\ Quiet(c)
      <4>1. ASSUME NEW id \in Id, Login(c, id) PROVE FALSE
        BY <1>0, <2>2, <4>1 DEF Login, NoOp, TypeOK
      <4> QED
        BY <1>0, <1>2, <2>2, <4>1, QuietSteps, AfterStep
    <3>2. CASE \E t \in DOMAIN tokens : VerifyAccessToken(c, t)
      <4>1. PICK t \in DOMAIN tokens : VerifyAccessToken(c, t)
        BY <3>2
      <4>2. op'[c].by = tokens[t].id /\ tokens[t].id \in Id
        <5>1. op' = [op EXCEPT ![c] = [NoOp EXCEPT !.pc = "verified", !.by = tokens[t].id]]
          BY <4>1 DEF VerifyAccessToken
        <5>2. op'[c].by = tokens[t].id
          BY <1>0, <5>1 DEF TypeOK, NoOp
        <5>3. tokens[t].id \in Id
          BY <1>0, TokensAre
        <5> QED
          BY <5>2, <5>3
      <4>3. white[tokens[t].id] # 0
        BY <1>0, <4>1, TokensAre DEF VerifyAccessToken, Accepted
      <4>4. CASE tokens[t].id \in DOMAIN account
        BY <2>2, <3>1, <4>2, <4>4 DEF Quiet
      <4>5. CASE tokens[t].id \notin DOMAIN account
        <5>1. tokens[t].id \in doubt \/ KickUnderWay(tokens[t].id)
          BY <1>0, <4>2, <4>3, <4>5 DEF SessionsAreCurrent, Outdated
        <5> QED
          BY <2>1, <4>1, <5>1 DEF VerifyAccessToken
      <4> QED
        BY <4>4, <4>5
    <3>3. CASE \E id \in Id : DeleteAdminUser(c, id)
      <4>1. op'[c].by = op[c].by /\ MayDelete(c)
        BY <1>0, <3>3 DEF DeleteAdminUser, MayDelete, TypeOK, Op
      <4> QED
        BY <1>0, <2>1, <2>2, <3>1, <4>1 DEF OperatorsExist, Quiet
    <3>4. CASE CheckName(c)
      BY <1>0, <2>2, <3>4 DEF CheckName, Goto, TypeOK, Op
    <3>5. CASE \E n \in Name : CreateAdminUser(c, n)
      BY <1>0, <2>2, <3>5 DEF CreateAdminUser, TypeOK, Op
    <3>6. CASE \E id \in Id, n \in Name, password \in BOOLEAN :
                  UpdateAdminUser(c, id, n, password)
      BY <1>0, <2>2, <3>6 DEF UpdateAdminUser, TypeOK, Op
    <3>7. ~(WhitelistLogin(c) \/ Logout(c) \/ InsertAdminUser(c) \/ WriteAdminUser(c)
              \/ DeleteRow(c) \/ Kick(c) \/ Fail(c))
      BY <1>0, <2>2, AfterStep
    <3> QED
      BY <1>2, <3>1, <3>2, <3>3, <3>4, <3>5, <3>6, <3>7 DEF Request
  <2>3. CASE d # c
    <3>0. op'[d] = op[d]
      BY <2>1, <2>3
    <3>1. op[d].by \in DOMAIN account \/ raced \/ doubt # {}
      BY <1>0, <3>0 DEF OperatorsExist, MayDelete, At
    <3>2. CASE DeleteRow(c) /\ op[d].by = op[c].id
      BY <2>3, <3>0, <3>2 DEF DeleteRow, OthersUnderWay, At
    <3>3. CASE DeleteRow(c) /\ op[d].by # op[c].id
      BY <1>0, <2>1, <3>0, <3>1, <3>3, TableStep
    <3>4. CASE InsertAdminUser(c) \/ WriteAdminUser(c)
      BY <1>0, <2>1, <3>0, <3>1, <3>4, TableStep
    <3>5. CASE UNCHANGED account
      BY <2>1, <3>0, <3>1, <3>5
    <3> QED
      BY <1>0, <1>2, <3>2, <3>3, <3>4, <3>5, QuietSteps
         DEF Quiet, Login, WhitelistLogin, Logout, Kick, Fail
  <2> QED
    BY <2>2, <2>3
<1>3. CASE Restart
    BY <1>3 DEF Restart, NoOp, OperatorsExist, MayDelete, At
<1> QED
    BY <1>1, <1>2, <1>3 DEF Next, Expire, vars
\* A deletion is begun only for the account of somebody else.
LEMMA NobodyStep == AccountsInv /\ [Next]_vars => NobodyDeletesHimself'
<1> SUFFICES ASSUME AccountsInv, [Next]_vars PROVE NobodyDeletesHimself'
    OBVIOUS
<1>0. TypeOK /\ NobodyDeletesHimself
    BY DEF AccountsInv
<1>1. CASE UNCHANGED op
    BY <1>0, <1>1 DEF NobodyDeletesHimself, At
<1>2. ASSUME NEW c \in Client, Request(c) PROVE NobodyDeletesHimself'
  <2> SUFFICES ASSUME NEW d \in Client, op'[d].pc = "delete"
               PROVE  op'[d].id # op'[d].by
    BY DEF NobodyDeletesHimself, At
  <2>1. CASE d # c
    BY <1>0, <1>2, <2>1, OthersStay DEF NobodyDeletesHimself, At
  <2>2. CASE d = c
    <3>1. ASSUME NEW id \in Id, DeleteAdminUser(c, id) PROVE op'[d].id # op'[d].by
      BY <1>0, <2>2, <3>1 DEF DeleteAdminUser, NotSelf, TypeOK, Op
    <3>2. ASSUME NEW id \in Id, Login(c, id) PROVE FALSE
      BY <1>0, <2>2, <3>2 DEF Login, NoOp, TypeOK
    <3>3. ASSUME NEW t \in DOMAIN tokens, VerifyAccessToken(c, t) PROVE FALSE
      BY <1>0, <2>2, <3>3 DEF VerifyAccessToken, NoOp, TypeOK
    <3>4. ASSUME NEW n \in Name, CreateAdminUser(c, n) PROVE FALSE
      BY <1>0, <2>2, <3>4 DEF CreateAdminUser, TypeOK, Op
    <3>5. ASSUME NEW id \in Id, NEW n \in Name, NEW password \in BOOLEAN,
                 UpdateAdminUser(c, id, n, password)
          PROVE  FALSE
      BY <1>0, <2>2, <3>5 DEF UpdateAdminUser, TypeOK, Op
    <3>6. ~CheckName(c)
      BY <1>0, <2>2 DEF CheckName, Goto, TypeOK, Op
    <3>7. ~(WhitelistLogin(c) \/ Logout(c) \/ InsertAdminUser(c) \/ WriteAdminUser(c)
              \/ DeleteRow(c) \/ Kick(c) \/ Fail(c))
      BY <1>0, <2>2, AfterStep
    <3> QED
      BY <1>2, <3>1, <3>2, <3>3, <3>4, <3>5, <3>6, <3>7 DEF Request
  <2> QED
    BY <2>1, <2>2
<1>3. CASE Restart
    BY <1>3 DEF Restart, NoOp, NobodyDeletesHimself, At
<1> QED
    BY <1>1, <1>2, <1>3 DEF Next, Expire, vars

\* Who deletes an account keeps his own.
LEMMA RemainStep == AccountsInv /\ [Next]_vars => AccountsRemain'
<1> SUFFICES ASSUME AccountsInv, [Next]_vars, account' = <<>>
             PROVE  raced' \/ doubt' # {}
    BY DEF AccountsRemain
<1>0. TypeOK /\ OperatorsExist /\ NobodyDeletesHimself /\ AccountsRemain
    BY DEF AccountsInv
<1>1. DOMAIN account' = {}
    OBVIOUS
<1>2. CASE UNCHANGED <<account, raced, doubt>>
    BY <1>0, <1>2 DEF AccountsRemain
<1>3. ASSUME NEW c \in Client, Request(c) PROVE raced' \/ doubt' # {}
  <2>1. doubt \subseteq doubt' /\ (raced => raced')
    BY <1>0, <1>3, OthersStay
  <2>2. CASE UNCHANGED account
    BY <1>0, <2>1, <2>2 DEF AccountsRemain
  <2>3. ~InsertAdminUser(c)
    BY <1>0, <1>1, TableStep
  <2>4. CASE WriteAdminUser(c)
    <3>1. op[c].id \notin DOMAIN account
      BY <1>0, <1>1, <2>4, TableStep
    <3> QED
      BY <2>2, <2>4, <3>1 DEF WriteAdminUser
  <2>5. CASE DeleteRow(c)
    <3>1. op[c].id # op[c].by /\ MayDelete(c)
      BY <1>0, <2>5 DEF DeleteRow, NobodyDeletesHimself, MayDelete
    <3>2. op[c].by \in DOMAIN account \/ raced \/ doubt # {}
      BY <1>0, <3>1 DEF OperatorsExist
    <3>3. op[c].by \notin DOMAIN account
      BY <1>0, <1>1, <2>5, <3>1, TableStep
    <3> QED
      BY <2>1, <3>2, <3>3
  <2> QED
    BY <1>0, <1>3, <2>2, <2>3, <2>4, <2>5, QuietSteps
       DEF Quiet, Login, WhitelistLogin, Logout, Kick, Fail
<1>4. CASE Restart
  <2>1. account' # Seed(nextId)
    BY <1>1 DEF Seed
  <2> QED
    BY <1>0, <1>4, <2>1 DEF Restart, AccountsRemain
<1> QED
    BY <1>2, <1>3, <1>4 DEF Next, Expire, vars

\* The invariant is inductive.
LEMMA InvStep == AccountsInv /\ [Next]_vars => AccountsInv'
<1>1. AccountsInv => TypeOK
    BY DEF AccountsInv
<1> QED
    BY <1>1, TypeStep, UsernamesStep, LoginsStep, SessionsStep, OperatorsStep, NobodyStep,
       RemainStep
    DEF AccountsInv

-------------------------------------------------------------------------------
(***************************************************************************)
(* Theorems.                                                               *)
(***************************************************************************)
\* The invariant holds for any number of requests, names and accounts.
THEOREM AccountsInvariant == Spec => []AccountsInv
<1>1. Init => AccountsInv
    BY InitInv
<1>2. AccountsInv /\ [Next]_vars => AccountsInv'
    BY InvStep
<1> QED
    BY <1>1, <1>2, PTL DEF Spec

\* Every variable keeps its type: the ids of the table stay below the counter
\* and a key holds a token that was handed out.
THEOREM AccountsTypeOK == Spec => []TypeOK
<1>1. AccountsInv => TypeOK
    BY DEF AccountsInv
<1> QED
    BY <1>1, AccountsInvariant, PTL

\* However creations and edits interleave, no two accounts share a name
\* (service.CreateAdminUser, UpdateAdminUser).
THEOREM NamesUnique == Spec => []UsernamesAreUnique
<1>1. AccountsInv => UsernamesAreUnique
    BY DEF AccountsInv
<1> QED
    BY <1>1, AccountsInvariant, PTL

\* A session that outlives its account or its password is about to be ended,
\* unless a login read the row before the change or a kick was lost
\* (service.UpdateAdminUser, DeleteAdminUser).
THEOREM SessionsCurrent == Spec => []SessionsAreCurrent
<1>1. AccountsInv => SessionsAreCurrent
    BY DEF AccountsInv
<1> QED
    BY <1>1, AccountsInvariant, PTL

\* Deletions leave an account to sign in with, but for the named races
\* (service.DeleteAdminUser).
THEOREM AnAccountRemains == Spec => []AccountsRemain
<1>1. AccountsInv => AccountsRemain
    BY DEF AccountsInv
<1> QED
    BY <1>1, AccountsInvariant, PTL

\* No step makes a token acceptable again: a key is written with a token that
\* was never handed out, and otherwise only emptied.
LEMMA RejectedStep ==
    ASSUME TypeOK, [Next]_vars
    PROVE  \A t \in DOMAIN tokens : ~Accepted(t) => ~Accepted(t)'
<1> SUFFICES ASSUME NEW t \in DOMAIN tokens, ~Accepted(t) PROVE ~Accepted(t)'
    OBVIOUS
<1>0. /\ t \in 1..Len(tokens) /\ Len(tokens) \in Nat
      /\ tokens[t].id \in Id /\ white[tokens[t].id] # t
      /\ white \in [Id -> 0..Len(tokens)]
    BY TokensAre DEF Accepted, TypeOK
<1>1. CASE UNCHANGED <<tokens, white>>
    BY <1>0, <1>1 DEF Accepted
<1>2. ASSUME NEW i, white' = [white EXCEPT ![i] = 0], UNCHANGED tokens
      PROVE  ~Accepted(t)'
    BY <1>0, <1>2 DEF Accepted
<1>3. ASSUME NEW c \in Client, WhitelistLogin(c) PROVE ~Accepted(t)'
  <2> DEFINE token == [id |-> op[c].id, changes |-> op[c].changes]
             Token == [id : Id, changes : 0..MaxChanges]
  <2>1. tokens' = Append(tokens, token) /\ token \in Token /\ tokens \in Seq(Token)
    BY <1>3 DEF WhitelistLogin, TypeOK, Op
  <2>2. white' = [white EXCEPT ![op[c].id] = Len(tokens) + 1]
    BY <1>3 DEF WhitelistLogin, NewToken
  <2> HIDE DEF token, Token
  <2>3. tokens'[t] = tokens[t]
    BY <1>0, <2>1
  <2> QED
    BY <1>0, <2>2, <2>3 DEF Accepted
<1>4. ASSUME NEW c \in Client, Request(c) PROVE ~Accepted(t)'
    BY <1>1, <1>2, <1>3, <1>4, QuietSteps
       DEF Quiet, Login, Logout, InsertAdminUser, WriteAdminUser, DeleteRow, Kick, Fail
<1> QED
    BY <1>1, <1>2, <1>4 DEF Next, Expire, Restart, vars

\* A token that is not accepted never is again (service.VerifyAccessToken).
THEOREM RejectedIsFinal == Spec => RejectedStaysRejected
<1>1. TypeOK /\ [Next]_vars =>
          [\A t \in DOMAIN tokens : ~Accepted(t) => ~Accepted(t)']_vars
    BY RejectedStep
<1> QED
    BY <1>1, AccountsTypeOK, PTL DEF Spec, RejectedStaysRejected
===============================================================================
