--------------------------- MODULE AbModulesProofs ----------------------------
(***************************************************************************)
(* Proofs about AbModules, for any number of modules, items, seeds and     *)
(* requests.  What a deletion may take away depends on who is about to add *)
(* to the module, and what a page hides on what requests found before the  *)
(* page was read.  The invariant therefore adds to OrphansAreContended:    *)
(*   - OnlyUpServes: requests and pages are under way in a server that is  *)
(*     up only, so that the seeds meet none;                               *)
(*   - AddersFound: whoever is about to add to a module has found it, and  *)
(*     it is there or contended;                                           *)
(*   - DeletionsAreNoted: a deletion past its count goes for a module      *)
(*     without items and without adders, or for a contended one;           *)
(*   - PageIsAhead: from its first read on, a page has every module, every *)
(*     adder's module and every item's module, unless it is newer than the *)
(*     read or contended.                                                  *)
(***************************************************************************)
EXTENDS AbModules, TLAPS

Row == [module : Nat, key : ItemKey]
Op == [pc : {"idle", "insert module", "count", "delete module", "check",
             "insert item", "target", "check move", "move item", "delete item"},
       module : Nat, item : Nat, key : ItemKey, name : ModuleKey]

AbTypeOK ==
    /\ nextModule \in Nat \ {0} /\ nextItem \in Nat \ {0}
    /\ DOMAIN module \subseteq 1..(nextModule - 1)
    /\ module \in [DOMAIN module -> ModuleKey]
    /\ DOMAIN item \subseteq 1..(nextItem - 1)
    /\ item \in [DOMAIN item -> Row]
    /\ server \in {"down", "up", "failed"}
    /\ op \in [Client -> Op]
    /\ page.pc \in {"idle", "items"}

OnlyUpServes ==
    server # "up" => page.pc = "idle" /\ \A c \in Client : op[c].pc = "idle"

Adding(c) == op[c].pc \in {"check", "insert item", "check move", "move item"}

AddersFound ==
    \A c \in Client : Adding(c) => op[c].module \in DOMAIN module \cup contended

DeletionsAreNoted ==
    \A d \in Client : At(d, "delete module") =>
        \/ op[d].module \in contended
        \/ /\ \A i \in DOMAIN item : item[i].module # op[d].module
           /\ \A c \in Client : Adding(c) => op[c].module # op[d].module

Ahead(m) == m \in DOMAIN page.modules \/ m >= page.next \/ m \in contended

PageIsAhead ==
    page.pc = "items" =>
        /\ page.next \in 1..nextModule /\ DOMAIN page.modules \subseteq 1..(page.next - 1)
        /\ \A m \in DOMAIN module : m \in DOMAIN page.modules \/ m >= page.next
        /\ \A c \in Client : Adding(c) => Ahead(op[c].module)
        /\ \A i \in DOMAIN item : Ahead(item[i].module)
        /\ \A i \in DOMAIN page.before :
              page.before[i].module \in DOMAIN page.modules \cup contended

AbInv == /\ AbTypeOK /\ OnlyUpServes /\ AddersFound /\ DeletionsAreNoted
         /\ OrphansAreContended /\ PageIsAhead

-------------------------------------------------------------------------------
(***************************************************************************)
(* Requests that write nothing.                                            *)
(***************************************************************************)
LEMMA NoOpType == NoOp \in Op /\ NoOp.pc = "idle"
BY AbAssumption DEF NoOp, Op

\* A request that moves on.
LEMMA OpChange ==
    ASSUME AbTypeOK, NEW c \in Client, NEW next \in Op, op' = [op EXCEPT ![c] = next]
    PROVE  /\ op' \in [Client -> Op]
           /\ op'[c] = next
           /\ \A d \in Client : d # c => op'[d] = op[d]
BY DEF AbTypeOK

\* A request in the middle of something is in a server that is up.
LEMMA UnderWay ==
    ASSUME AbInv, NEW c \in Client, op[c].pc # "idle"
    PROVE  server = "up"
BY DEF AbInv, OnlyUpServes

\* While nobody begins to add or to delete, what deletions know stays true: an
\* item is only written where an adder was on its way.
LEMMA StillNoted ==
    ASSUME DeletionsAreNoted, contended \subseteq contended',
           \A d \in Client :
              /\ Adding(d)' => Adding(d) /\ op'[d].module = op[d].module
              /\ At(d, "delete module")' => At(d, "delete module") /\ op'[d] = op[d],
           \A i \in DOMAIN item' :
              \/ \E e \in Client : Adding(e) /\ item'[i].module = op[e].module
              \/ i \in DOMAIN item /\ item'[i] = item[i]
    PROVE  DeletionsAreNoted'
<1> SUFFICES ASSUME NEW d \in Client, At(d, "delete module")',
                    op'[d].module \notin contended'
             PROVE  /\ \A i \in DOMAIN item' : item'[i].module # op'[d].module
                    /\ \A e \in Client : Adding(e)' => op'[e].module # op'[d].module
    BY DEF DeletionsAreNoted
<1>1. At(d, "delete module") /\ op'[d] = op[d] /\ op[d].module \notin contended
    OBVIOUS
<1>2. /\ \A i \in DOMAIN item : item[i].module # op[d].module
      /\ \A e \in Client : Adding(e) => op[e].module # op[d].module
    BY <1>1 DEF DeletionsAreNoted
<1>3. \A i \in DOMAIN item' : item'[i].module # op'[d].module
    BY <1>1, <1>2
<1>4. \A e \in Client : Adding(e)' => op'[e].module # op'[d].module
    BY <1>1, <1>2
<1> QED
    BY <1>3, <1>4

\* While nobody begins to add, a page stays ahead of what is written.
LEMMA StillAhead ==
    ASSUME PageIsAhead, page' = page, contended \subseteq contended',
           nextModule \in Nat, nextModule' \in Nat, nextModule <= nextModule',
           DOMAIN module' \subseteq DOMAIN module \cup {nextModule},
           \A d \in Client : Adding(d)' => Adding(d) /\ op'[d].module = op[d].module,
           \A i \in DOMAIN item' :
              \/ \E e \in Client : Adding(e) /\ item'[i].module = op[e].module
              \/ i \in DOMAIN item /\ item'[i] = item[i]
    PROVE  PageIsAhead'
<1> SUFFICES ASSUME page.pc = "items"
             PROVE  PageIsAhead'
    BY DEF PageIsAhead
<1>1. /\ page.next \in 1..nextModule /\ DOMAIN page.modules \subseteq 1..(page.next - 1)
      /\ \A m \in DOMAIN module : m \in DOMAIN page.modules \/ m >= page.next
      /\ \A c \in Client : Adding(c) => Ahead(op[c].module)
      /\ \A i \in DOMAIN item : Ahead(item[i].module)
      /\ \A i \in DOMAIN page.before :
            page.before[i].module \in DOMAIN page.modules \cup contended
    BY DEF PageIsAhead
<1>2. page'.next \in 1..nextModule' /\ DOMAIN page'.modules \subseteq 1..(page'.next - 1)
    BY <1>1
<1>3. \A m \in DOMAIN module' : m \in DOMAIN page'.modules \/ m >= page'.next
    BY <1>1
<1>4. \A c \in Client : Adding(c)' => Ahead(op[c].module)'
    BY <1>1 DEF Ahead
<1>5. \A i \in DOMAIN item' : Ahead(item[i].module)'
    BY <1>1 DEF Ahead
<1>6. \A i \in DOMAIN page'.before :
         page'.before[i].module \in DOMAIN page'.modules \cup contended'
    BY <1>1
<1> QED
    BY <1>2, <1>3, <1>4, <1>5, <1>6 DEF PageIsAhead

\* Where a request neither adds nor deletes a module, it disturbs nothing.
LEMMA Bystander ==
    ASSUME AbInv, NEW c \in Client, NEW next \in Op, op' = [op EXCEPT ![c] = next],
           next.pc \notin {"check", "insert item", "check move", "move item",
                           "delete module"},
           server = "up", UNCHANGED <<tables, server, page, contended>>
    PROVE  AbInv'
<1>0. /\ module' = module /\ item' = item /\ nextModule' = nextModule
      /\ nextItem' = nextItem /\ server' = server /\ page' = page
      /\ contended' = contended
    BY DEF tables
<1>1. /\ op' \in [Client -> Op] /\ op'[c] = next
      /\ \A d \in Client : d # c => op'[d] = op[d]
    BY OpChange DEF AbInv
<1>2. AbTypeOK'
    BY <1>0, <1>1 DEF AbInv, AbTypeOK
<1>3. OnlyUpServes'
    BY <1>0 DEF OnlyUpServes
<1>4. \A d \in Client : /\ Adding(d)' => Adding(d) /\ op'[d] = op[d]
                        /\ At(d, "delete module")' => At(d, "delete module") /\ op'[d] = op[d]
    BY <1>1 DEF Adding, At
<1>5. AddersFound'
    BY <1>0, <1>4 DEF AbInv, AddersFound
<1>6. DeletionsAreNoted'
    BY <1>0, <1>4, StillNoted DEF AbInv
<1>7. OrphansAreContended'
    BY <1>0 DEF AbInv, OrphansAreContended
<1>8. PageIsAhead'
    BY <1>0, <1>4 DEF AbInv, PageIsAhead, Ahead
<1> QED
    BY <1>2, <1>3, <1>5, <1>6, <1>7, <1>8 DEF AbInv

\* An adder that goes on adding to the same module.
LEMMA GoesOn ==
    ASSUME AbInv, NEW c \in Client, NEW next \in Op, op' = [op EXCEPT ![c] = next],
           Adding(c), next.pc # "delete module", next.module = op[c].module,
           UNCHANGED <<tables, server, page, contended>>
    PROVE  AbInv'
<1>0. /\ module' = module /\ item' = item /\ nextModule' = nextModule
      /\ nextItem' = nextItem /\ server' = server /\ page' = page
      /\ contended' = contended
    BY DEF tables
<1>1. /\ op' \in [Client -> Op] /\ op'[c] = next
      /\ \A d \in Client : d # c => op'[d] = op[d]
    BY OpChange DEF AbInv
<1>2. AbTypeOK'
    BY <1>0, <1>1 DEF AbInv, AbTypeOK
<1>3. OnlyUpServes'
    BY <1>0, UnderWay DEF OnlyUpServes, Adding
<1>4. \A d \in Client : /\ Adding(d)' => Adding(d) /\ op'[d].module = op[d].module
                        /\ At(d, "delete module")' => At(d, "delete module") /\ op'[d] = op[d]
    BY <1>1 DEF Adding, At
<1>5. AddersFound'
    BY <1>0, <1>4 DEF AbInv, AddersFound
<1>6. DeletionsAreNoted'
    BY <1>0, <1>4, StillNoted DEF AbInv
<1>7. OrphansAreContended'
    BY <1>0 DEF AbInv, OrphansAreContended
<1>8. PageIsAhead'
    BY <1>0, <1>4 DEF AbInv, PageIsAhead, Ahead
<1> QED
    BY <1>2, <1>3, <1>5, <1>6, <1>7, <1>8 DEF AbInv

\* A request that has found its module and begins to add to it: a deletion that
\* is under way by then is noted.
LEMMA BeginsToAdd ==
    ASSUME AbInv, NEW c \in Client, NEW next \in Op, op' = [op EXCEPT ![c] = next],
           next.pc # "delete module", next.module \in DOMAIN module,
           Contend(next.module, BeingDeleted(next.module)),
           server = "up", UNCHANGED <<tables, server, page>>
    PROVE  AbInv'
<1>0. /\ module' = module /\ item' = item /\ nextModule' = nextModule
      /\ nextItem' = nextItem /\ server' = server /\ page' = page
      /\ contended \subseteq contended'
      /\ BeingDeleted(next.module) => next.module \in contended'
    BY DEF tables, Contend
<1>1. /\ op' \in [Client -> Op] /\ op'[c] = next
      /\ \A d \in Client : d # c => op'[d] = op[d]
    BY OpChange DEF AbInv
<1>2. AbTypeOK'
    BY <1>0, <1>1 DEF AbInv, AbTypeOK
<1>3. OnlyUpServes'
    BY <1>0 DEF OnlyUpServes
<1>4. \A d \in Client : /\ Adding(d)' /\ d # c => Adding(d) /\ op'[d] = op[d]
                        /\ At(d, "delete module")'
                              => At(d, "delete module") /\ op'[d] = op[d]
    BY <1>1 DEF Adding, At
<1>5. AddersFound'
    BY <1>0, <1>1, <1>4 DEF AbInv, AddersFound
<1>6. DeletionsAreNoted'
  <2> SUFFICES ASSUME NEW d \in Client, At(d, "delete module")',
                      op'[d].module \notin contended'
               PROVE  /\ \A i \in DOMAIN item' : item'[i].module # op'[d].module
                      /\ \A e \in Client : Adding(e)' => op'[e].module # op'[d].module
      BY DEF DeletionsAreNoted
  <2>1. At(d, "delete module") /\ op'[d] = op[d] /\ op[d].module \notin contended
      BY <1>0, <1>4
  <2>2. op[d].module # next.module
      BY <1>0, <2>1 DEF BeingDeleted
  <2> QED
      BY <1>0, <1>1, <1>4, <2>1, <2>2 DEF AbInv, DeletionsAreNoted
<1>7. OrphansAreContended'
    BY <1>0 DEF AbInv, OrphansAreContended
<1>8. PageIsAhead'
    BY <1>0, <1>1, <1>4 DEF AbInv, PageIsAhead, Ahead
<1> QED
    BY <1>2, <1>3, <1>5, <1>6, <1>7, <1>8 DEF AbInv

-------------------------------------------------------------------------------
(***************************************************************************)
(* The statements that write.                                              *)
(***************************************************************************)
LEMMA ModuleInserted ==
    ASSUME AbInv, NEW c \in Client, InsertAbModule(c)
    PROVE  AbInv'
<1> DEFINE m == nextModule
<1>0. /\ item' = item /\ nextItem' = nextItem /\ server' = server /\ page' = page
      /\ contended' = contended /\ nextModule' = m + 1 /\ m \in Nat \ {0}
      /\ DOMAIN module' = DOMAIN module \cup {m} /\ op[c].name \in ModuleKey
      /\ module' = [k \in DOMAIN module \cup {m} |-> IF k = m THEN op[c].name ELSE module[k]]
      /\ DOMAIN module \subseteq 1..(m - 1) /\ module \in [DOMAIN module -> ModuleKey]
    BY DEF InsertAbModule, AbInv, AbTypeOK, Op
<1>1. /\ op' \in [Client -> Op] /\ op'[c] = NoOp
      /\ \A d \in Client : d # c => op'[d] = op[d]
    BY OpChange, NoOpType DEF AbInv, InsertAbModule, Finish
<1>2. AbTypeOK'
  <2>1. module' \in [DOMAIN module' -> ModuleKey]
      BY <1>0
  <2>2. nextModule' \in Nat \ {0} /\ DOMAIN module' \subseteq 1..(nextModule' - 1)
      BY <1>0
  <2> QED
      BY <1>0, <1>1, <2>1, <2>2 DEF AbInv, AbTypeOK
<1>3. OnlyUpServes'
    BY <1>0, UnderWay DEF OnlyUpServes, InsertAbModule, At
<1>4. \A d \in Client : /\ Adding(d)' => Adding(d) /\ op'[d] = op[d]
                        /\ At(d, "delete module")' => At(d, "delete module") /\ op'[d] = op[d]
    BY <1>1, NoOpType DEF Adding, At
<1>5. AddersFound'
    BY <1>0, <1>4 DEF AbInv, AddersFound
<1>6. DeletionsAreNoted'
    BY <1>0, <1>4, StillNoted DEF AbInv
<1>7. OrphansAreContended'
    BY <1>0 DEF AbInv, OrphansAreContended
<1>8. PageIsAhead'
  <2>1. PageIsAhead /\ nextModule \in Nat
      BY DEF AbInv, AbTypeOK
  <2>2. /\ page' = page /\ contended \subseteq contended' /\ nextModule' \in Nat
        /\ nextModule <= nextModule' /\ DOMAIN module' \subseteq DOMAIN module \cup {nextModule}
      BY <1>0, <2>1
  <2> QED
      BY <1>0, <1>4, <2>1, <2>2, StillAhead
<1> QED
    BY <1>2, <1>3, <1>5, <1>6, <1>7, <1>8 DEF AbInv

\* Past the count: the module has no items, and its adders are noted.
LEMMA ItemsCounted ==
    ASSUME AbInv, NEW c \in Client, CountAbModuleItems(c)
    PROVE  AbInv'
<1> DEFINE m == op[c].module
<1> DEFINE next == [op[c] EXCEPT !.pc = "delete module"]
<1>0. /\ module' = module /\ item' = item /\ nextModule' = nextModule
      /\ nextItem' = nextItem /\ server' = server /\ page' = page
      /\ contended \subseteq contended'
      /\ BeingAddedTo(m) => m \in contended'
      /\ \A i \in DOMAIN item : item[i].module # m
    BY DEF CountAbModuleItems, tables, Contend, NoItems
<1>1. /\ op' \in [Client -> Op] /\ op'[c] = next
      /\ \A d \in Client : d # c => op'[d] = op[d]
      /\ next.pc = "delete module" /\ next.module = m
  <2>1. op[c] \in Op /\ op' = [op EXCEPT ![c] = next]
      BY DEF CountAbModuleItems, Goto, AbInv, AbTypeOK
  <2>2. next \in Op /\ next.pc = "delete module" /\ next.module = m
      BY <2>1 DEF Op
  <2> HIDE DEF next
  <2> QED
      BY <2>1, <2>2, OpChange DEF AbInv
<1> HIDE DEF next
<1>2. AbTypeOK'
    BY <1>0, <1>1 DEF AbInv, AbTypeOK
<1>3. OnlyUpServes'
    BY <1>0, UnderWay DEF OnlyUpServes, CountAbModuleItems, At
<1>4. \A d \in Client : /\ Adding(d)' => Adding(d) /\ op'[d] = op[d]
                        /\ At(d, "delete module")' /\ d # c
                              => At(d, "delete module") /\ op'[d] = op[d]
    BY <1>1 DEF Adding, At
<1>5. AddersFound'
    BY <1>0, <1>4 DEF AbInv, AddersFound
<1>6. DeletionsAreNoted'
  <2> SUFFICES ASSUME NEW d \in Client, At(d, "delete module")',
                      op'[d].module \notin contended'
               PROVE  /\ \A i \in DOMAIN item' : item'[i].module # op'[d].module
                      /\ \A e \in Client : Adding(e)' => op'[e].module # op'[d].module
      BY DEF DeletionsAreNoted
  <2>1. CASE d # c
      BY <1>0, <1>4, <2>1 DEF AbInv, DeletionsAreNoted
  <2>2. CASE d = c
    <3>1. op'[d].module = m /\ ~BeingAddedTo(m)
        BY <1>0, <1>1, <2>2
    <3>2. \A e \in Client : Adding(e) => op[e].module # m
        BY <3>1 DEF BeingAddedTo, Adding
    <3> QED
        BY <1>0, <1>4, <3>1, <3>2
  <2> QED
      BY <2>1, <2>2
<1>7. OrphansAreContended'
    BY <1>0 DEF AbInv, OrphansAreContended
<1>8. PageIsAhead'
    BY <1>0, <1>4 DEF AbInv, PageIsAhead, Ahead
<1> QED
    BY <1>2, <1>3, <1>5, <1>6, <1>7, <1>8 DEF AbInv

\* The module goes: what was in it or on its way into it is noted.
LEMMA ModuleDeleted ==
    ASSUME AbInv, NEW c \in Client, DeleteModuleRow(c)
    PROVE  AbInv'
<1> DEFINE m == op[c].module
<1>0. /\ item' = item /\ nextItem' = nextItem /\ nextModule' = nextModule
      /\ server' = server /\ page' = page /\ contended' = contended
      /\ module' = [k \in DOMAIN module \ {m} |-> module[k]]
      /\ DOMAIN module' = DOMAIN module \ {m}
      /\ At(c, "delete module")
    BY DEF DeleteModuleRow, Restrict
<1>1. /\ op' \in [Client -> Op] /\ op'[c] = NoOp
      /\ \A d \in Client : d # c => op'[d] = op[d]
    BY OpChange, NoOpType DEF AbInv, DeleteModuleRow, Finish
<1>2. AbTypeOK'
  <2>1. module' \in [DOMAIN module' -> ModuleKey] /\ DOMAIN module' \subseteq DOMAIN module
      BY <1>0 DEF AbInv, AbTypeOK
  <2> QED
      BY <1>0, <1>1, <2>1 DEF AbInv, AbTypeOK
<1>3. OnlyUpServes'
    BY <1>0, UnderWay DEF OnlyUpServes, At
<1>4. \A d \in Client : /\ Adding(d)' => Adding(d) /\ op'[d] = op[d]
                        /\ At(d, "delete module")' => At(d, "delete module") /\ op'[d] = op[d]
    BY <1>1, NoOpType DEF Adding, At
<1>5. \/ m \in contended
      \/ /\ \A i \in DOMAIN item : item[i].module # m
         /\ \A e \in Client : Adding(e) => op[e].module # m
    BY <1>0 DEF AbInv, DeletionsAreNoted
<1>6. AddersFound'
    BY <1>0, <1>4, <1>5 DEF AbInv, AddersFound
<1>7. DeletionsAreNoted'
    BY <1>0, <1>4, StillNoted DEF AbInv
<1>8. OrphansAreContended'
    BY <1>0, <1>5 DEF AbInv, OrphansAreContended
<1>9. PageIsAhead'
    BY <1>0, <1>4 DEF AbInv, PageIsAhead, Ahead
<1> QED
    BY <1>2, <1>3, <1>6, <1>7, <1>8, <1>9 DEF AbInv

\* An item is written into the module its request has found.
LEMMA ItemWritten ==
    ASSUME AbInv, NEW c \in Client, Adding(c), op' = [op EXCEPT ![c] = NoOp],
           nextItem' \in Nat \ {0}, DOMAIN item' \subseteq 1..(nextItem' - 1),
           item' \in [DOMAIN item' -> Row],
           \A i \in DOMAIN item' :
              \/ item'[i].module = op[c].module
              \/ i \in DOMAIN item /\ item'[i] = item[i],
           UNCHANGED <<module, nextModule, server, page, contended>>
    PROVE  AbInv'
<1>1. /\ op' \in [Client -> Op] /\ op'[c] = NoOp
      /\ \A d \in Client : d # c => op'[d] = op[d]
    BY OpChange, NoOpType DEF AbInv
<1>2. AbTypeOK'
    BY <1>1 DEF AbInv, AbTypeOK
<1>3. OnlyUpServes'
    BY UnderWay DEF OnlyUpServes, Adding
<1>4. \A d \in Client : /\ Adding(d)' => Adding(d) /\ op'[d] = op[d]
                        /\ At(d, "delete module")' => At(d, "delete module") /\ op'[d] = op[d]
    BY <1>1, NoOpType DEF Adding, At
<1>5. AddersFound'
    BY <1>4 DEF AbInv, AddersFound
<1>6. DeletionsAreNoted'
    BY <1>4, StillNoted DEF AbInv
<1>7. OrphansAreContended'
    BY DEF AbInv, OrphansAreContended, AddersFound
<1>8. PageIsAhead'
  <2>1. PageIsAhead /\ nextModule \in Nat
      BY DEF AbInv, AbTypeOK
  <2>2. /\ page' = page /\ contended \subseteq contended' /\ nextModule' \in Nat
        /\ nextModule <= nextModule' /\ DOMAIN module' \subseteq DOMAIN module \cup {nextModule}
      BY <2>1
  <2> QED
      BY <1>4, <2>1, <2>2, StillAhead
<1> QED
    BY <1>2, <1>3, <1>5, <1>6, <1>7, <1>8 DEF AbInv

LEMMA ItemInserted ==
    ASSUME AbInv, NEW c \in Client, InsertAbModuleItem(c)
    PROVE  AbInv'
<1> DEFINE new == [module |-> op[c].module, key |-> op[c].key]
<1>1. op[c] \in Op /\ Adding(c)
    BY DEF AbInv, AbTypeOK, InsertAbModuleItem, At, Adding
<1>2. new \in Row /\ new.module = op[c].module
    BY <1>1 DEF Op, Row
<1>3. /\ item' = [i \in DOMAIN item \cup {nextItem} |-> IF i = nextItem THEN new ELSE item[i]]
      /\ nextItem' = nextItem + 1 /\ op' = [op EXCEPT ![c] = NoOp]
      /\ UNCHANGED <<module, nextModule, server, page, contended>>
    BY DEF InsertAbModuleItem, Finish
<1> HIDE DEF new
<1>4. /\ nextItem \in Nat \ {0} /\ DOMAIN item \subseteq 1..(nextItem - 1)
      /\ item \in [DOMAIN item -> Row]
    BY DEF AbInv, AbTypeOK
<1>5. nextItem' \in Nat \ {0} /\ DOMAIN item' \subseteq 1..(nextItem' - 1)
    BY <1>3, <1>4
<1>6. item' \in [DOMAIN item' -> Row]
    BY <1>2, <1>3, <1>4
<1>7. \A i \in DOMAIN item' :
         \/ item'[i].module = op[c].module
         \/ i \in DOMAIN item /\ item'[i] = item[i]
    BY <1>2, <1>3
<1> QED
    BY <1>1, <1>3, <1>5, <1>6, <1>7, ItemWritten

LEMMA ItemMoved ==
    ASSUME AbInv, NEW c \in Client, WriteAbModuleItem(c)
    PROVE  AbInv'
<1>1. op[c] \in Op /\ Adding(c) /\ op[c].module \in Nat
    BY DEF AbInv, AbTypeOK, WriteAbModuleItem, At, Adding, Op
<1>2. /\ nextItem' = nextItem /\ op' = [op EXCEPT ![c] = NoOp]
      /\ UNCHANGED <<module, nextModule, server, page, contended>>
    BY DEF WriteAbModuleItem, Finish
<1>3. /\ nextItem \in Nat \ {0} /\ DOMAIN item \subseteq 1..(nextItem - 1)
      /\ item \in [DOMAIN item -> Row]
    BY DEF AbInv, AbTypeOK
<1>4. CASE op[c].item \notin DOMAIN item
  <2>1. item' = item
      BY <1>4 DEF WriteAbModuleItem
  <2> QED
      BY <1>1, <1>2, <1>3, <2>1, ItemWritten
<1>5. CASE op[c].item \in DOMAIN item
  <2> DEFINE i == op[c].item
  <2> DEFINE new == [item[i] EXCEPT !.module = op[c].module]
  <2>1. item' = [item EXCEPT ![i] = new]
      BY <1>5 DEF WriteAbModuleItem
  <2>2. new \in Row /\ new.module = op[c].module
      BY <1>1, <1>3, <1>5 DEF Row
  <2> HIDE DEF new
  <2>3. DOMAIN item' = DOMAIN item /\ item' \in [DOMAIN item' -> Row]
      BY <1>3, <1>5, <2>1, <2>2
  <2>4. \A k \in DOMAIN item' :
           \/ item'[k].module = op[c].module
           \/ k \in DOMAIN item /\ item'[k] = item[k]
      BY <1>3, <1>5, <2>1, <2>2
  <2> QED
      BY <1>1, <1>2, <1>3, <2>3, <2>4, ItemWritten
<1> QED
    BY <1>4, <1>5

LEMMA ItemDeleted ==
    ASSUME AbInv, NEW c \in Client, DeleteItemRow(c)
    PROVE  AbInv'
<1>0. /\ nextItem' = nextItem /\ op' = [op EXCEPT ![c] = NoOp]
      /\ module' = module /\ nextModule' = nextModule /\ server' = server
      /\ page' = page /\ contended' = contended
      /\ op[c].pc = "delete item"
      /\ item' = [i \in DOMAIN item \ {op[c].item} |-> item[i]]
    BY DEF DeleteItemRow, Finish, Restrict, At
<1>1. /\ op' \in [Client -> Op] /\ op'[c] = NoOp
      /\ \A d \in Client : d # c => op'[d] = op[d]
    BY <1>0, OpChange, NoOpType DEF AbInv
<1>2. /\ DOMAIN item' \subseteq DOMAIN item /\ \A i \in DOMAIN item' : item'[i] = item[i]
      /\ item' \in [DOMAIN item' -> Row]
    BY <1>0 DEF AbInv, AbTypeOK
<1>3. AbTypeOK'
    BY <1>0, <1>1, <1>2 DEF AbInv, AbTypeOK
<1>4. OnlyUpServes'
    BY <1>0, UnderWay DEF OnlyUpServes
<1>5. \A d \in Client : /\ Adding(d)' => Adding(d) /\ op'[d] = op[d]
                        /\ At(d, "delete module")' => At(d, "delete module") /\ op'[d] = op[d]
    BY <1>1, NoOpType DEF Adding, At
<1>6. AddersFound'
    BY <1>0, <1>5 DEF AbInv, AddersFound
<1>7. DeletionsAreNoted'
    BY <1>0, <1>2, <1>5, StillNoted DEF AbInv
<1>8. OrphansAreContended'
    BY <1>0, <1>2 DEF AbInv, OrphansAreContended
<1>9. PageIsAhead'
  <2>1. PageIsAhead /\ nextModule \in Nat
      BY DEF AbInv, AbTypeOK
  <2>2. /\ page' = page /\ contended \subseteq contended' /\ nextModule' \in Nat
        /\ nextModule <= nextModule' /\ DOMAIN module' \subseteq DOMAIN module \cup {nextModule}
    <3>1. module' = module /\ page' = page /\ contended' = contended /\ nextModule' = nextModule
        BY <1>0
    <3> QED
        BY <2>1, <3>1
  <2>3. \A i \in DOMAIN item' :
           \/ \E e \in Client : Adding(e) /\ item'[i].module = op[e].module
           \/ i \in DOMAIN item /\ item'[i] = item[i]
      BY <1>2
  <2>4. \A d \in Client : Adding(d)' => Adding(d) /\ op'[d].module = op[d].module
      BY <1>5
  <2> QED
      BY <2>4, <2>1, <2>2, <2>3, StillAhead
<1> QED
    BY <1>3, <1>4, <1>6, <1>7, <1>8, <1>9 DEF AbInv

-------------------------------------------------------------------------------
(***************************************************************************)
(* Pages and starts of the server.                                         *)
(***************************************************************************)
LEMMA PageRead ==
    ASSUME AbInv, ListAllAbModules
    PROVE  AbInv'
<1>0. /\ module' = module /\ item' = item /\ nextModule' = nextModule
      /\ nextItem' = nextItem /\ server' = server /\ op' = op
      /\ contended' = contended /\ server = "up" /\ page'.pc = "items"
      /\ page'.before = item /\ page'.next = nextModule
      /\ DOMAIN page'.modules = DOMAIN module
    BY DEF ListAllAbModules, tables, Restrict, AllModules
<1>1. AbTypeOK'
    BY <1>0 DEF AbInv, AbTypeOK
<1>2. OnlyUpServes' /\ AddersFound' /\ DeletionsAreNoted' /\ OrphansAreContended'
    BY <1>0 DEF AbInv, OnlyUpServes, AddersFound, DeletionsAreNoted, At, Adding,
                OrphansAreContended
<1>3. PageIsAhead'
  <2>1. nextModule \in Nat \ {0} /\ DOMAIN module \subseteq 1..(nextModule - 1)
      BY DEF AbInv, AbTypeOK
  <2>2. page'.next \in 1..nextModule' /\ DOMAIN page'.modules \subseteq 1..(page'.next - 1)
      BY <1>0, <2>1
  <2>3. \A c \in Client : Adding(c)' => Ahead(op[c].module)'
      BY <1>0 DEF AbInv, AddersFound, Adding, Ahead
  <2>4. \A i \in DOMAIN item' : Ahead(item[i].module)'
      BY <1>0 DEF AbInv, OrphansAreContended, Ahead
  <2>5. \A i \in DOMAIN page'.before :
           page'.before[i].module \in DOMAIN page'.modules \cup contended'
      BY <1>0 DEF AbInv, OrphansAreContended
  <2> QED
      BY <1>0, <2>2, <2>3, <2>4, <2>5 DEF PageIsAhead
<1> QED
    BY <1>1, <1>2, <1>3 DEF AbInv

\* With nothing under way, the tables are all there is to look at.
LEMMA AtRest ==
    ASSUME AbTypeOK', OrphansAreContended', page'.pc = "idle",
           \A c \in Client : op'[c].pc = "idle"
    PROVE  AbInv'
BY DEF AbInv, OnlyUpServes, AddersFound, Adding, DeletionsAreNoted, At, PageIsAhead

LEMMA Stopped ==
    ASSUME AbInv, Stop
    PROVE  AbInv'
<1>0. /\ module' = module /\ item' = item /\ nextModule' = nextModule
      /\ nextItem' = nextItem /\ server' = "down" /\ page'.pc = "idle"
      /\ contended' = contended /\ op' = [c \in Client |-> NoOp]
    BY DEF Stop, tables, NoPage
<1>1. AbTypeOK'
    BY <1>0, NoOpType DEF AbInv, AbTypeOK
<1>2. OrphansAreContended'
    BY <1>0 DEF AbInv, OrphansAreContended
<1>3. \A c \in Client : op'[c].pc = "idle"
    BY <1>0, NoOpType
<1> QED
    BY <1>0, <1>1, <1>2, <1>3, AtRest

LEMMA SeqElement ==
    ASSUME NEW S, NEW s \in Seq(S), NEW i \in 1..Len(s)
    PROVE  s[i] \in S
OBVIOUS

\* Without modules the seeds take the first ids, and their items their modules.
LEMMA Seeded ==
    ASSUME AbTypeOK, OrphansAreContended, SeedDue, SeedAbModule,
           UNCHANGED <<op, page, contended>>, server' = "up"
    PROVE  AbTypeOK' /\ OrphansAreContended'
<1> DEFINE new == nextItem..(nextItem + Len(SeedItems) - 1)
<1>1. /\ nextModule \in Nat \ {0} /\ nextItem \in Nat \ {0}
      /\ DOMAIN item \subseteq 1..(nextItem - 1) /\ item \in [DOMAIN item -> Row]
    BY DEF AbTypeOK
<1>2. Len(SeedModules) \in Nat /\ DOMAIN SeedModules = 1..Len(SeedModules)
      /\ SeedModules \in [DOMAIN SeedModules -> ModuleKey]
    BY AbAssumption
<1>3. DOMAIN module = {}
    BY DEF SeedDue, NoModules
<1>4. module' \in [DOMAIN module' -> ModuleKey] /\ DOMAIN module' = DOMAIN SeedModules
    BY <1>2, <1>3 DEF SeedAbModule
<1>5. nextModule' \in Nat \ {0} /\ DOMAIN module' \subseteq 1..(nextModule' - 1)
    BY <1>1, <1>2, <1>4 DEF SeedAbModule
<1>6. Len(SeedItems) \in Nat /\ nextItem' = nextItem + Len(SeedItems)
    BY AbAssumption DEF SeedAbModule
<1>7. \A i \in new : /\ SeedItems[i - nextItem + 1] \in Row
                     /\ SeedItems[i - nextItem + 1].module \in DOMAIN SeedModules
  <2> SUFFICES ASSUME NEW i \in new
               PROVE  SeedItems[i - nextItem + 1] \in [module : DOMAIN SeedModules, key : ItemKey]
      BY <1>2 DEF Row
  <2>1. i - nextItem + 1 \in 1..Len(SeedItems)
      BY <1>1, <1>6
  <2>2. SeedItems \in Seq([module : DOMAIN SeedModules, key : ItemKey])
      BY AbAssumption
  <2> QED
      BY <2>1, <2>2, SeqElement
<1>8. /\ DOMAIN item' = DOMAIN item \cup new
      /\ \A i \in new : item'[i] = SeedItems[i - nextItem + 1]
      /\ \A i \in DOMAIN item \ new : item'[i] = item[i]
      /\ item' = [i \in DOMAIN item' |-> item'[i]]
    BY DEF SeedAbModule
<1>9. item' \in [DOMAIN item' -> Row]
    BY <1>1, <1>7, <1>8
<1>10. nextItem' \in Nat \ {0} /\ DOMAIN item' \subseteq 1..(nextItem' - 1)
    BY <1>1, <1>6, <1>8
<1>11. OrphansAreContended'
    BY <1>3, <1>4, <1>7, <1>8 DEF OrphansAreContended
<1> QED
    BY <1>4, <1>5, <1>9, <1>10, <1>11 DEF AbTypeOK

LEMMA Started ==
    ASSUME AbInv, Start \/ StartFails
    PROVE  AbInv'
<1>1. /\ op' = op /\ page' = page /\ contended' = contended
      /\ server # "up" /\ server' \in {"up", "failed"}
    BY DEF Start, StartFails
<1>2. page'.pc = "idle" /\ \A c \in Client : op'[c].pc = "idle"
    BY <1>1 DEF AbInv, OnlyUpServes
<1>3. AbTypeOK' /\ OrphansAreContended'
  <2>1. CASE UNCHANGED tables
      BY <1>1, <2>1 DEF tables, AbInv, AbTypeOK, OrphansAreContended
  <2>2. CASE Start /\ SeedDue
      BY <2>2, Seeded DEF Start, AbInv
  <2> QED
      BY <2>1, <2>2 DEF Start, StartFails
<1> QED
    BY <1>2, <1>3, AtRest

-------------------------------------------------------------------------------
(***************************************************************************)
(* The invariant, and what it is for.                                      *)
(***************************************************************************)
LEMMA InitInv == Init => AbInv
<1> SUFFICES ASSUME Init PROVE AbInv
    OBVIOUS
<1>1. /\ DOMAIN module = {} /\ DOMAIN item = {} /\ nextModule = 1 /\ nextItem = 1
      /\ server = "down" /\ page.pc = "idle" /\ op = [c \in Client |-> NoOp]
    BY DEF Init, NoPage
<1>2. AbTypeOK /\ \A c \in Client : op[c].pc = "idle"
    BY <1>1, NoOpType DEF AbTypeOK, Init
<1> QED
    BY <1>1, <1>2 DEF AbInv, OnlyUpServes, AddersFound, Adding, DeletionsAreNoted, At,
                      OrphansAreContended, PageIsAhead

\* A request's record, at its beginning and as it goes on.
LEMMA Records ==
    /\ \A k \in ModuleKey : [NoOp EXCEPT !.pc = "insert module", !.name = k] \in Op
    /\ \A m \in Nat : [NoOp EXCEPT !.pc = "count", !.module = m] \in Op
    /\ \A m \in Nat, k \in ItemKey :
          [NoOp EXCEPT !.pc = "check", !.module = m, !.key = k] \in Op
    /\ \A i, m \in Nat, k \in ItemKey :
          [NoOp EXCEPT !.pc = "target", !.item = i, !.module = m, !.key = k] \in Op
    /\ \A i \in Nat : [NoOp EXCEPT !.pc = "delete item", !.item = i] \in Op
BY NoOpType DEF Op

LEMMA RequestInv ==
    ASSUME AbInv, NEW c \in Client, Request(c)
    PROVE  AbInv'
<1> DEFINE Move(next) == op' = [op EXCEPT ![c] = next]
<1>0. op[c] \in Op /\ ModuleId \subseteq Nat /\ ItemId \subseteq Nat
    BY AbAssumption DEF AbInv, AbTypeOK, ModuleId, ItemId
<1>1. ASSUME NEW k \in ModuleKey, CreateAbModule(c, k) PROVE AbInv'
  <2> DEFINE next == [NoOp EXCEPT !.pc = "insert module", !.name = k]
  <2>1. next \in Op /\ next.pc = "insert module"
      BY Records, NoOpType DEF Op
  <2>2. Move(next) /\ server = "up" /\ UNCHANGED <<tables, server, page, contended>>
      BY <1>1 DEF CreateAbModule, Idle, Begin
  <2> HIDE DEF next
  <2> QED
      BY <2>1, <2>2, Bystander
<1>2. ASSUME NEW m \in ModuleId, DeleteAbModule(c, m) PROVE AbInv'
  <2> DEFINE next == [NoOp EXCEPT !.pc = "count", !.module = m]
  <2>1. next \in Op /\ next.pc = "count"
      BY <1>0, Records, NoOpType DEF Op
  <2>2. Move(next) /\ server = "up" /\ UNCHANGED <<tables, server, page, contended>>
      BY <1>2 DEF DeleteAbModule, Idle, Begin
  <2> HIDE DEF next
  <2> QED
      BY <2>1, <2>2, Bystander
<1>3. ASSUME NEW m \in ModuleId, NEW k \in ItemKey, CreateAbModuleItem(c, m, k)
      PROVE  AbInv'
  <2> DEFINE next == [NoOp EXCEPT !.pc = "check", !.module = m, !.key = k]
  <2>1. next \in Op /\ next.pc = "check" /\ next.module = m
      BY <1>0, Records, NoOpType DEF Op
  <2>2. /\ Move(next) /\ server = "up" /\ UNCHANGED <<tables, server, page>>
        /\ m \in DOMAIN module /\ Contend(m, BeingDeleted(m))
      BY <1>3 DEF CreateAbModuleItem, Idle, Begin
  <2> HIDE DEF next
  <2> QED
      BY <2>1, <2>2, BeginsToAdd
<1>4. ASSUME NEW m \in ModuleId, NEW i \in ItemId, UpdateAbModuleItem(c, i, m)
      PROVE  AbInv'
  <2> DEFINE next == [NoOp EXCEPT !.pc = "target", !.item = i, !.module = m,
                                  !.key = item[i].key]
  <2>1. item[i].key \in ItemKey
      BY <1>4 DEF UpdateAbModuleItem, GetAbModuleItemByID, AbInv, AbTypeOK, Row
  <2>2. next \in Op /\ next.pc = "target"
      BY <1>0, <2>1, Records, NoOpType DEF Op
  <2>3. Move(next) /\ server = "up" /\ UNCHANGED <<tables, server, page, contended>>
      BY <1>4 DEF UpdateAbModuleItem, Idle, Begin
  <2> HIDE DEF next
  <2> QED
      BY <2>2, <2>3, Bystander
<1>5. ASSUME NEW i \in ItemId, DeleteAbModuleItem(c, i) PROVE AbInv'
  <2> DEFINE next == [NoOp EXCEPT !.pc = "delete item", !.item = i]
  <2>1. next \in Op /\ next.pc = "delete item"
      BY <1>0, Records, NoOpType DEF Op
  <2>2. Move(next) /\ server = "up" /\ UNCHANGED <<tables, server, page, contended>>
      BY <1>5 DEF DeleteAbModuleItem, Idle, Begin
  <2> HIDE DEF next
  <2> QED
      BY <2>1, <2>2, Bystander
<1>6. ASSUME NEW pc \in {"insert item", "move item"}, Adding(c), Goto(c, pc),
             UNCHANGED <<tables, server, page, contended>>
      PROVE  AbInv'
  <2> DEFINE next == [op[c] EXCEPT !.pc = pc]
  <2>1. next \in Op /\ next.pc # "delete module" /\ next.module = op[c].module
      BY <1>0 DEF Op
  <2>2. Move(next)
      BY <1>6 DEF Goto, AbInv, AbTypeOK
  <2> HIDE DEF next
  <2> QED
      BY <1>6, <2>1, <2>2, GoesOn
<1>7. CASE CheckNewItem(c) \/ CheckMovedItem(c)
    BY <1>6, <1>7 DEF CheckNewItem, CheckMovedItem, At, Adding
<1>8. CASE FindTarget(c)
  <2> DEFINE next == [op[c] EXCEPT !.pc = "check move"]
  <2>1. next \in Op /\ next.pc = "check move" /\ next.module = op[c].module
      BY <1>0 DEF Op
  <2>2. /\ Move(next) /\ UNCHANGED <<tables, server, page>>
        /\ op[c].module \in DOMAIN module /\ op[c].pc # "idle"
        /\ Contend(op[c].module, BeingDeleted(op[c].module))
      BY <1>8 DEF FindTarget, Goto, At, AbInv, AbTypeOK
  <2> HIDE DEF next
  <2> QED
      BY <2>1, <2>2, UnderWay, BeginsToAdd
<1>9. CASE Fail(c)
  <2>1. /\ Move(NoOp) /\ op[c].pc # "idle" /\ UNCHANGED <<tables, server, page, contended>>
      BY <1>9 DEF Fail, Finish, At
  <2> QED
      BY <2>1, NoOpType, UnderWay, Bystander
<1> QED
    BY <1>1, <1>2, <1>3, <1>4, <1>5, <1>7, <1>8, <1>9, ModuleInserted, ItemsCounted,
       ModuleDeleted, ItemInserted, ItemMoved, ItemDeleted
    DEF Request

LEMMA StepInv == AbInv /\ [Next]_vars => AbInv'
<1> SUFFICES ASSUME AbInv, [Next]_vars PROVE AbInv'
    OBVIOUS
<1>1. CASE ListAllAbModuleItems
  <2>1. /\ page'.pc = "idle" /\ UNCHANGED <<tables, server, op, contended>>
      BY <1>1 DEF ListAllAbModuleItems, NoPage
  <2> QED
      BY <2>1 DEF tables, AbInv, AbTypeOK, OnlyUpServes, AddersFound, DeletionsAreNoted,
                  At, Adding, OrphansAreContended, PageIsAhead
<1>2. CASE UNCHANGED vars
    BY <1>2 DEF vars, tables, AbInv, AbTypeOK, OnlyUpServes, AddersFound,
                DeletionsAreNoted, At, Adding, OrphansAreContended, PageIsAhead, Ahead
<1> QED
    BY <1>1, <1>2, RequestInv, PageRead, Started, Stopped DEF Next

\* The whole invariant holds in every state of every start, race and failure.
THEOREM AbInvariant == Spec => []AbInv
BY InitInv, StepInv, PTL DEF Spec

\* The check of service.DeleteAbModule keeps every module that has items, except
\* where an item is added to it in the middle of the deletion: an item is without
\* its module only if such a race took place.
THEOREM OrphansAlwaysContended == Spec => []OrphansAreContended
<1>1. AbInv => OrphansAreContended
    BY DEF AbInv
<1> QED
    BY <1>1, AbInvariant, PTL

\* Whenever database.seedAbModule finds no module, its script can be inserted and
\* the server starts, unless such a race left an item under a seeded module's id.
THEOREM SeedsAlwaysFit == Spec => []SeedsFit
<1>1. AbInv => SeedsFit
  <2> SUFFICES ASSUME AbInv, SeedDue, SeedCollides
               PROVE  contended \cap DOMAIN SeedModules # {}
      BY DEF SeedsFit
  <2>1. DOMAIN module = {}
      BY DEF SeedDue, NoModules
  <2>2. PICK s \in DOMAIN SeedItems, i \in DOMAIN item : item[i] = SeedItems[s]
      BY <2>1 DEF SeedCollides, ExistsAbModuleKey
  <2>3. SeedItems \in Seq([module : DOMAIN SeedModules, key : ItemKey])
      BY AbAssumption
  <2>4. SeedItems[s].module \in DOMAIN SeedModules
    <3>1. s \in 1..Len(SeedItems)
        BY <2>3
    <3>2. SeedItems[s] \in [module : DOMAIN SeedModules, key : ItemKey]
        BY <2>3, <3>1, SeqElement
    <3> QED
        BY <3>2
  <2>5. item[i].module \in contended
      BY <2>1 DEF AbInv, OrphansAreContended
  <2> QED
      BY <2>2, <2>4, <2>5
<1> QED
    BY <1>1, AbInvariant, PTL

\* service.AbConfig reads modules and items in two statements: whatever other
\* requests do in between, an item that is there at both is shown, unless it was
\* moved to a module newer than the page, or its module was raced away.
THEOREM ItemsAlwaysVisible == Spec => []ItemsStayVisible
<1>1. AbInv => ItemsStayVisible
  <2> SUFFICES ASSUME AbInv, page.pc = "items",
                      NEW i \in DOMAIN page.before \cap DOMAIN item, i \notin AbConfig,
                      {item[i].module, page.before[i].module} \cap contended = {}
               PROVE  item[i].module # page.before[i].module /\ item[i].module >= page.next
      BY DEF ItemsStayVisible
  <2>1. item[i].module \notin DOMAIN page.modules
      BY DEF AbConfig
  <2>2. page.before[i].module \in DOMAIN page.modules
      BY DEF AbInv, PageIsAhead
  <2>3. item[i].module >= page.next
      BY <2>1 DEF AbInv, PageIsAhead, Ahead
  <2> QED
      BY <2>1, <2>2, <2>3
<1> QED
    BY <1>1, AbInvariant, PTL
===============================================================================
