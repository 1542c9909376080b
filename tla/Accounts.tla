------------------------------- MODULE Accounts -------------------------------
(***************************************************************************)
(* The administrators' accounts (admin_user in MySQL) and their sessions   *)
(* (the whitelist in Redis, one key for each account).  A request is a     *)
(* sequence of statements of its own on both stores: nothing holds them    *)
(* together, so that requests interleave between any two of them, and a    *)
(* request may fail at each.                                               *)
(*                                                                         *)
(* A session's token is its place in `tokens`, where newJTI makes it       *)
(* unique.  Passwords are abstracted to the number of times somebody else  *)
(* changed them, which is when the session has to end.                     *)
(***************************************************************************)
EXTENDS Integers, Sequences, FiniteSets

CONSTANTS Name,
          Client,     \* requests served at a time
          MaxId,      \* accounts ever created (bounds TLC)
          MaxTokens,  \* logins (bounds TLC)
          MaxChanges  \* password changes by others, of each account (bounds TLC)

ASSUME AccountsAssumption ==
    /\ MaxId \in Nat \ {0} /\ MaxTokens \in Nat /\ MaxChanges \in Nat
    /\ Name # {}

VARIABLES
    account,  \* admin_user: id -> its row
    nextId,   \* AUTO_INCREMENT
    tokens,   \* the tokens handed out
    white,    \* auth:token:{id} -> the token it holds, 0 without the key
    op,       \* where each request is
    doubt,    \* history: accounts changed while a login was between its read
              \* and its write, or whose key a failed request left behind
    raced     \* history: an account was deleted while a request of
              \* its own could still delete another

vars == <<account, nextId, tokens, white, op, doubt, raced>>

Id == 1..MaxId
Row == [name : Name, changes : 0..MaxChanges]
Op == [pc : {"idle", "login", "verified", "insert", "check", "update", "delete", "kick"},
       by : Id,          \* the operator, from the token
       id : Id,          \* the account concerned
       name : Name,
       changes : 0..MaxChanges,  \* of the row a login has read
       password : BOOLEAN]       \* the request carries a new password

TypeOK ==
    /\ \E ids \in SUBSET Id : account \in [ids -> Row]
    /\ nextId \in 1..(MaxId + 1)
    /\ \A id \in DOMAIN account : id < nextId
    /\ tokens \in Seq([id : Id, changes : 0..MaxChanges])
    /\ white \in [Id -> 0..Len(tokens)]
    /\ op \in [Client -> Op]
    /\ doubt \in SUBSET Id
    /\ raced \in BOOLEAN

NoOp == [pc |-> "idle", by |-> 1, id |-> 1, name |-> CHOOSE n \in Name : TRUE,
         changes |-> 0, password |-> FALSE]

\* The first account, with which an empty table is filled.
Seed(id) == [i \in {id} |-> [name |-> CHOOSE n \in Name : TRUE, changes |-> 0]]

\* A new installation.
Init ==
    /\ account = Seed(1)
    /\ nextId = 2
    /\ tokens = <<>>
    /\ white = [id \in Id |-> 0]
    /\ op = [c \in Client |-> NoOp]
    /\ doubt = {}
    /\ raced = FALSE

At(c, pc) == op[c].pc = pc
Goto(c, pc) == op' = [op EXCEPT ![c].pc = pc]
Finish(c) == op' = [op EXCEPT ![c] = NoOp]
KickNext(c) == op' = [op EXCEPT ![c] = [NoOp EXCEPT !.pc = "kick", !.id = op[c].id]]

Taken(n, ids) == \E id \in DOMAIN account \cap ids : account[id].name = n
LoginUnderWay(id) == \E c \in Client : At(c, "login") /\ op[c].id = id
OthersUnderWay(c, id) ==   \* requests of id that may yet delete an account
    \E d \in Client \ {c} : (At(d, "verified") \/ At(d, "delete")) /\ op[d].by = id
KickUnderWay(id) == \E c \in Client : At(c, "kick") /\ op[c].id = id

-------------------------------------------------------------------------------
(***************************************************************************)
(* Sessions.                                                               *)
(***************************************************************************)
\* Login reads the row, whose password and status are then found in order.
Login(c, id) ==
    /\ At(c, "idle")
    /\ id \in DOMAIN account
    /\ Len(tokens) + Cardinality({d \in Client : At(d, "login")}) < MaxTokens
    /\ op' = [op EXCEPT ![c] = [NoOp EXCEPT !.pc = "login", !.id = id,
                                            !.changes = account[id].changes]]
    /\ UNCHANGED <<account, nextId, tokens, white, doubt, raced>>

LastToken(id) ==   \* faulty: the account's token is handed out once more
    IF \E t \in DOMAIN tokens : tokens[t].id = id
    THEN CHOOSE t \in DOMAIN tokens : tokens[t].id = id ELSE Len(tokens) + 1
NewToken(id) == Len(tokens) + 1

\* The SET, which replaces whatever session the account had.
WhitelistLogin(c) ==
    /\ At(c, "login")
    /\ tokens' = Append(tokens, [id |-> op[c].id, changes |-> op[c].changes])
    /\ white' = [white EXCEPT ![op[c].id] = NewToken(op[c].id)]
    /\ Finish(c)
    /\ UNCHANGED <<account, nextId, doubt, raced>>

Accepted(t) == white[tokens[t].id] = t

\* The middleware: from here on the request carries the account's id only.
VerifyAccessToken(c, t) ==
    /\ At(c, "idle")
    /\ Accepted(t)
    /\ op' = [op EXCEPT ![c] = [NoOp EXCEPT !.pc = "verified", !.by = tokens[t].id]]
    /\ raced' = (raced \/ KickUnderWay(tokens[t].id))
    /\ UNCHANGED <<account, nextId, tokens, white, doubt>>

\* The DEL takes whichever session the account has by now.
Logout(c) ==
    /\ At(c, "verified")
    /\ white' = [white EXCEPT ![op[c].by] = 0]
    /\ Finish(c)
    /\ UNCHANGED <<account, nextId, tokens, doubt, raced>>

\* The key's time to live is over.
Expire(id) ==
    /\ white[id] # 0
    /\ white' = [white EXCEPT ![id] = 0]
    /\ UNCHANGED <<account, nextId, tokens, op, doubt, raced>>

-------------------------------------------------------------------------------
(***************************************************************************)
(* Accounts.                                                               *)
(***************************************************************************)
CreateAdminUser(c, n) ==
    /\ At(c, "verified")
    /\ ~Taken(n, Id)
    /\ op' = [op EXCEPT ![c].pc = "insert", ![c].name = n]
    /\ UNCHANGED <<account, nextId, tokens, white, doubt, raced>>

NoUniqueKey(n, ids) == TRUE   \* faulty: the check alone keeps names unique
UniqueKey(n, ids) == ~Taken(n, ids)

AutoIncrement == nextId + 1

\* A name taken since the check is a duplicate key, and the request fails.
InsertAdminUser(c) ==
    /\ At(c, "insert")
    /\ UniqueKey(op[c].name, Id)
    /\ nextId <= MaxId
    /\ account' = [id \in DOMAIN account \cup {nextId} |->
                      IF id = nextId THEN [name |-> op[c].name, changes |-> 0]
                                     ELSE account[id]]
    /\ nextId' = AutoIncrement
    /\ Finish(c)
    /\ UNCHANGED <<tokens, white, doubt, raced>>

\* The two reads of an edit: the account, then whether its new name is free.
UpdateAdminUser(c, id, n, password) ==
    /\ At(c, "verified")
    /\ id \in DOMAIN account
    /\ password => account[id].changes < MaxChanges
    /\ op' = [op EXCEPT ![c].pc = "check", ![c].id = id, ![c].name = n,
                        ![c].password = password]
    /\ UNCHANGED <<account, nextId, tokens, white, doubt, raced>>

CheckName(c) ==
    /\ At(c, "check")
    /\ ~Taken(op[c].name, Id \ {op[c].id})
    /\ Goto(c, "update")
    /\ UNCHANGED <<account, nextId, tokens, white, doubt, raced>>

NeverKicks(c) == FALSE   \* faulty: the session survives the new password
Kicks(c) == op[c].password /\ op[c].id # op[c].by

\* The UPDATE, which succeeds without a row if the account is gone.
WriteAdminUser(c) ==
    LET id == op[c].id
        others == op[c].password /\ id # op[c].by
    IN  /\ At(c, "update")
        /\ UniqueKey(op[c].name, Id \ {id})
        /\ IF id \in DOMAIN account
           THEN /\ others => account[id].changes < MaxChanges
                /\ account' = [account EXCEPT ![id] =
                      [name |-> op[c].name,
                       changes |-> @.changes + (IF others THEN 1 ELSE 0)]]
           ELSE UNCHANGED account
        /\ doubt' = IF others /\ LoginUnderWay(id) THEN doubt \cup {id} ELSE doubt
        /\ IF Kicks(c) THEN KickNext(c) ELSE Finish(c)
        /\ UNCHANGED <<nextId, tokens, white, raced>>

AnyAccount(c, id) == TRUE   \* faulty: one may delete oneself
NotSelf(c, id) == id # op[c].by

DeleteAdminUser(c, id) ==
    /\ At(c, "verified")
    /\ NotSelf(c, id)
    /\ id \in DOMAIN account
    /\ op' = [op EXCEPT ![c].pc = "delete", ![c].id = id]
    /\ UNCHANGED <<account, nextId, tokens, white, doubt, raced>>

DeleteRow(c) ==
    /\ At(c, "delete")
    /\ account' = [id \in DOMAIN account \ {op[c].id} |-> account[id]]
    /\ doubt' = IF LoginUnderWay(op[c].id) THEN doubt \cup {op[c].id} ELSE doubt
    /\ raced' = (raced \/ OthersUnderWay(c, op[c].id))
    /\ KickNext(c)
    /\ UNCHANGED <<nextId, tokens, white>>

Kick(c) ==
    /\ At(c, "kick")
    /\ white' = [white EXCEPT ![op[c].id] = 0]
    /\ Finish(c)
    /\ UNCHANGED <<account, nextId, tokens, doubt, raced>>

\* A statement fails, a check is not passed, or the client gives up.  The
\* request ends there: a key it was about to delete stays.
Fail(c) ==
    /\ ~At(c, "idle")
    /\ doubt' = IF At(c, "kick") THEN doubt \cup {op[c].id} ELSE doubt
    /\ Finish(c)
    /\ UNCHANGED <<account, nextId, tokens, white, raced>>

\* The server starts anew and creates the first account if there is none.
Restart ==
    /\ op' = [c \in Client |-> NoOp]
    /\ doubt' = doubt \cup {op[c].id : c \in {d \in Client : At(d, "kick")}}
    /\ IF account = <<>> /\ nextId <= MaxId
       THEN /\ account' = Seed(nextId)
            /\ nextId' = AutoIncrement
       ELSE UNCHANGED <<account, nextId>>
    /\ UNCHANGED <<tokens, white, raced>>

Request(c) ==
    \/ \E id \in Id : Login(c, id) \/ DeleteAdminUser(c, id)
    \/ \E t \in DOMAIN tokens : VerifyAccessToken(c, t)
    \/ \E n \in Name : CreateAdminUser(c, n)
    \/ \E id \in Id, n \in Name, password \in BOOLEAN :
          UpdateAdminUser(c, id, n, password)
    \/ WhitelistLogin(c) \/ Logout(c) \/ InsertAdminUser(c) \/ CheckName(c)
    \/ WriteAdminUser(c) \/ DeleteRow(c) \/ Kick(c) \/ Fail(c)

Next ==
    \/ \E c \in Client : Request(c)
    \/ \E id \in Id : Expire(id)
    \/ Restart

Spec == Init /\ [][Next]_vars

-------------------------------------------------------------------------------
(***************************************************************************)
(* Properties.                                                             *)
(***************************************************************************)
\* Two requests that both found a name free do not both get it
\* (service.CreateAdminUser and UpdateAdminUser, uk_username).
UsernamesAreUnique ==
    \A i, j \in DOMAIN account : account[i].name = account[j].name => i = j

Outdated(id) ==
    id \notin DOMAIN account \/ tokens[white[id]].changes # account[id].changes

\* A session outlives its account, or its password, only while the request that
\* made the change has yet to end it: the kick comes after the row is written,
\* and a login that read the old row is the only one that can come after it
\* (service.UpdateAdminUser 82-86, DeleteAdminUser 105-108).
SessionsAreCurrent ==
    \A id \in Id : white[id] # 0 /\ Outdated(id) =>
        \/ id \in doubt
        \/ KickUnderWay(id)

\* There is always an account to sign in with, since nobody deletes himself,
\* unless an operator's own account was deleted in the middle of his request
\* (service.DeleteAdminUser 94-96).
AccountsRemain == account = <<>> => raced \/ doubt # {}

\* A token that was replaced, logged out, kicked or has expired is not accepted
\* again (service.VerifyAccessToken 89-109).
RejectedStaysRejected ==
    [][\A t \in DOMAIN tokens : ~Accepted(t) => ~Accepted(t)']_vars
===============================================================================
