------------------------------ MODULE AbModules -------------------------------
(***************************************************************************)
(* The configuration of the AB versions: modules and their items, two      *)
(* tables that only the services' checks hold together (module_id is a     *)
(* foreign key by convention), the page that reads both, and the seeds a   *)
(* start of the server inserts when there is no module.                    *)
(*                                                                         *)
(* A request is a sequence of statements of its own.  The columns that no  *)
(* statement looks at (names, versions, sort numbers) are left out.        *)
(***************************************************************************)
EXTENDS Integers, Sequences, FiniteSets, Functions

CONSTANTS ModuleKey, ItemKey,
          SeedModules,  \* ab_module_seed.sql: the keys of the modules 1, 2, ...
          SeedItems,    \* and its items, a sequence of rows
          Client,       \* requests served at a time
          MaxModule,    \* modules ever created (bounds TLC)
          MaxItem       \* items ever created (bounds TLC)

ASSUME AbAssumption ==
    /\ MaxModule \in Nat \ {0} /\ MaxItem \in Nat \ {0}
    /\ SeedModules \in Seq(ModuleKey) /\ Len(SeedModules) \in 1..MaxModule
    /\ SeedItems \in Seq([module : DOMAIN SeedModules, key : ItemKey])
    /\ ModuleKey # {} /\ ItemKey # {}

VARIABLES
    module,      \* ab_module: id -> its key
    item,        \* ab_module_item: id -> its row
    nextModule,  \* AUTO_INCREMENT of the one
    nextItem,    \* and of the other
    server,      \* "down", "up", or "failed" when the seeds cannot be inserted
    op,          \* where each request is
    page,        \* where a read of the whole configuration is
    contended    \* history: modules that were being deleted, their items counted,
                 \* while a request that had found them was about to add one

tables == <<module, item, nextModule, nextItem>>
vars == <<tables, server, op, page, contended>>

ModuleId == 1..MaxModule
ItemId == 1..MaxItem

NoOp == [pc |-> "idle", module |-> 1, item |-> 1, key |-> CHOOSE k \in ItemKey : TRUE,
         name |-> CHOOSE k \in ModuleKey : TRUE]
NoPage == [pc |-> "idle", modules |-> <<>>, before |-> <<>>, next |-> 1]

Init ==
    /\ module = <<>> /\ item = <<>>
    /\ nextModule = 1 /\ nextItem = 1
    /\ server = "down"
    /\ op = [c \in Client |-> NoOp]
    /\ page = NoPage
    /\ contended = {}

At(c, pc) == op[c].pc = pc
Goto(c, pc) == op' = [op EXCEPT ![c].pc = pc]
Finish(c) == op' = [op EXCEPT ![c] = NoOp]

Idle(c) == server = "up" /\ At(c, "idle")
Begin(c, request) == op' = [op EXCEPT ![c] = request]

\* What the checks before a write look for, and the unique keys after them.
ExistsAbModuleKey(k) == \E m \in DOMAIN module : module[m] = k
ExistsAbItemKey(m, k, others) ==
    \E i \in DOMAIN item \cap others : item[i] = [module |-> m, key |-> k]
UniqueItem(m, k, others) == ~ExistsAbItemKey(m, k, others)

\* An item is found through its module.
GetAbModuleItemByID(i) == i \in DOMAIN item /\ item[i].module \in DOMAIN module

\* A deletion that has counted the items, and requests that have found the module
\* they are about to write into: each is noted when it begins beside the other.
BeingDeleted(m) == \E c \in Client : At(c, "delete module") /\ op[c].module = m
BeingAddedTo(m) ==
    \E c \in Client : /\ op[c].pc \in {"check", "insert item", "check move", "move item"}
                      /\ op[c].module = m
Contend(m, race) == contended' = IF race THEN contended \cup {m} ELSE contended

-------------------------------------------------------------------------------
(***************************************************************************)
(* Modules.                                                                *)
(***************************************************************************)
CreateAbModule(c, k) ==
    /\ Idle(c)
    /\ ~ExistsAbModuleKey(k)
    /\ Begin(c, [NoOp EXCEPT !.pc = "insert module", !.name = k])
    /\ UNCHANGED <<tables, server, page, contended>>

InsertAbModule(c) ==
    /\ At(c, "insert module")
    /\ ~ExistsAbModuleKey(op[c].name)
    /\ nextModule <= MaxModule
    /\ module' = [m \in DOMAIN module \cup {nextModule} |->
                     IF m = nextModule THEN op[c].name ELSE module[m]]
    /\ nextModule' = nextModule + 1
    /\ Finish(c)
    /\ UNCHANGED <<item, nextItem, server, page, contended>>

DeleteAbModule(c, m) ==
    /\ Idle(c)
    /\ m \in DOMAIN module
    /\ Begin(c, [NoOp EXCEPT !.pc = "count", !.module = m])
    /\ UNCHANGED <<tables, server, page, contended>>

NotCounted(m) == TRUE   \* faulty: a module goes whatever is in it
NoItems(m) == \A i \in DOMAIN item : item[i].module # m

CountAbModuleItems(c) ==
    /\ At(c, "count")
    /\ NoItems(op[c].module)
    /\ Goto(c, "delete module")
    /\ Contend(op[c].module, BeingAddedTo(op[c].module))
    /\ UNCHANGED <<tables, server, page>>

DeleteModuleRow(c) ==
    /\ At(c, "delete module")
    /\ module' = Restrict(module, DOMAIN module \ {op[c].module})
    /\ Finish(c)
    /\ UNCHANGED <<item, nextModule, nextItem, server, page, contended>>

-------------------------------------------------------------------------------
(***************************************************************************)
(* Items.                                                                  *)
(***************************************************************************)
CreateAbModuleItem(c, m, k) ==
    /\ Idle(c)
    /\ m \in DOMAIN module
    /\ Begin(c, [NoOp EXCEPT !.pc = "check", !.module = m, !.key = k])
    /\ Contend(m, BeingDeleted(m))
    /\ UNCHANGED <<tables, server, page>>

CheckNewItem(c) ==
    /\ At(c, "check")
    /\ ~ExistsAbItemKey(op[c].module, op[c].key, ItemId)
    /\ Goto(c, "insert item")
    /\ UNCHANGED <<tables, server, page, contended>>

InsertAbModuleItem(c) ==
    /\ At(c, "insert item")
    /\ UniqueItem(op[c].module, op[c].key, ItemId)
    /\ nextItem <= MaxItem
    /\ item' = [i \in DOMAIN item \cup {nextItem} |->
                   IF i = nextItem THEN [module |-> op[c].module, key |-> op[c].key]
                                   ELSE item[i]]
    /\ nextItem' = nextItem + 1
    /\ Finish(c)
    /\ UNCHANGED <<module, nextModule, server, page, contended>>

\* The three reads of an edit, which may move the item to the module m.
UpdateAbModuleItem(c, i, m) ==
    /\ Idle(c)
    /\ GetAbModuleItemByID(i)
    /\ Begin(c, [NoOp EXCEPT !.pc = "target", !.item = i, !.module = m,
                             !.key = item[i].key])
    /\ UNCHANGED <<tables, server, page, contended>>

FindTarget(c) ==
    /\ At(c, "target")
    /\ op[c].module \in DOMAIN module
    /\ Goto(c, "check move")
    /\ Contend(op[c].module, BeingDeleted(op[c].module))
    /\ UNCHANGED <<tables, server, page>>

CheckMovedItem(c) ==
    /\ At(c, "check move")
    /\ ~ExistsAbItemKey(op[c].module, op[c].key, ItemId \ {op[c].item})
    /\ Goto(c, "move item")
    /\ UNCHANGED <<tables, server, page, contended>>

\* The UPDATE, which finds no row if the item is gone.
WriteAbModuleItem(c) ==
    /\ At(c, "move item")
    /\ IF op[c].item \in DOMAIN item
       THEN /\ UniqueItem(op[c].module, op[c].key, ItemId \ {op[c].item})
            /\ item' = [item EXCEPT ![op[c].item].module = op[c].module]
       ELSE UNCHANGED item
    /\ Finish(c)
    /\ UNCHANGED <<module, nextModule, nextItem, server, page, contended>>

DeleteAbModuleItem(c, i) ==
    /\ Idle(c)
    /\ GetAbModuleItemByID(i)
    /\ Begin(c, [NoOp EXCEPT !.pc = "delete item", !.item = i])
    /\ UNCHANGED <<tables, server, page, contended>>

DeleteItemRow(c) ==
    /\ At(c, "delete item")
    /\ item' = Restrict(item, DOMAIN item \ {op[c].item})
    /\ Finish(c)
    /\ UNCHANGED <<module, nextModule, nextItem, server, page, contended>>

\* A check is not passed, a key is taken after all, a statement fails or the
\* client gives up: the request ends, having written nothing.
Fail(c) ==
    /\ ~At(c, "idle")
    /\ Finish(c)
    /\ UNCHANGED <<tables, server, page, contended>>

-------------------------------------------------------------------------------
(***************************************************************************)
(* The configuration page: all modules, then all items.                    *)
(***************************************************************************)
ModulesWithItems == {m \in DOMAIN module : ~NoItems(m)}   \* faulty: by a join
AllModules == DOMAIN module

\* `before` and `next` are history: the items there were, and the id a module
\* had to reach to be newer than this read.
ListAllAbModules ==
    /\ server = "up" /\ page.pc = "idle"
    /\ page' = [pc |-> "items", modules |-> Restrict(module, AllModules),
                before |-> item, next |-> nextModule]
    /\ UNCHANGED <<tables, server, op, contended>>

\* The items an answer of AbConfig shows, which it files under page.modules.
AbConfig == {i \in DOMAIN item : item[i].module \in DOMAIN page.modules}

ListAllAbModuleItems ==
    /\ page.pc = "items"
    /\ page' = NoPage
    /\ UNCHANGED <<tables, server, op, contended>>

-------------------------------------------------------------------------------
(***************************************************************************)
(* Starts of the server.                                                   *)
(***************************************************************************)
NoModules == module = <<>>
SeedItemsMissing == item = <<>>   \* faulty: what the comment on seedAbModule rejects

\* A primary or a unique key of the script is taken: the transaction rolls back.
SeedCollides ==
    \/ \E m \in DOMAIN SeedModules : m \in DOMAIN module \/ ExistsAbModuleKey(SeedModules[m])
    \/ \E s \in DOMAIN SeedItems, i \in DOMAIN item : item[i] = SeedItems[s]

SeedAbModule ==
    LET new == nextItem..(nextItem + Len(SeedItems) - 1)
    IN  /\ module' = [m \in DOMAIN module \cup DOMAIN SeedModules |->
                         IF m \in DOMAIN module THEN module[m] ELSE SeedModules[m]]
        /\ item' = [i \in DOMAIN item \cup new |->
                       IF i \in new THEN SeedItems[i - nextItem + 1] ELSE item[i]]
        /\ nextModule' = IF nextModule > Len(SeedModules) THEN nextModule
                                                          ELSE Len(SeedModules) + 1
        /\ nextItem' = nextItem + Len(SeedItems)

SeedDue == NoModules

Start ==
    /\ server # "up"
    /\ IF SeedDue THEN ~SeedCollides /\ SeedAbModule ELSE UNCHANGED tables
    /\ server' = "up"
    /\ UNCHANGED <<op, page, contended>>

\* The process exits, and so it does at every start from now on.
StartFails ==
    /\ server # "up"
    /\ SeedDue /\ SeedCollides
    /\ server' = "failed"
    /\ UNCHANGED <<tables, op, page, contended>>

\* Requests under way are lost.  (The bound leaves room for the seeds.)
Stop ==
    /\ server = "up"
    /\ nextItem + Len(SeedItems) <= MaxItem + 1
    /\ server' = "down"
    /\ op' = [c \in Client |-> NoOp]
    /\ page' = NoPage
    /\ UNCHANGED <<tables, contended>>

-------------------------------------------------------------------------------
Request(c) ==
    \/ \E k \in ModuleKey : CreateAbModule(c, k)
    \/ \E m \in ModuleId : \/ DeleteAbModule(c, m)
                           \/ \E k \in ItemKey : CreateAbModuleItem(c, m, k)
                           \/ \E i \in ItemId : UpdateAbModuleItem(c, i, m)
    \/ \E i \in ItemId : DeleteAbModuleItem(c, i)
    \/ InsertAbModule(c) \/ CountAbModuleItems(c) \/ DeleteModuleRow(c)
    \/ CheckNewItem(c) \/ InsertAbModuleItem(c)
    \/ FindTarget(c) \/ CheckMovedItem(c) \/ WriteAbModuleItem(c)
    \/ DeleteItemRow(c) \/ Fail(c)

Next ==
    \/ \E c \in Client : Request(c)
    \/ ListAllAbModules \/ ListAllAbModuleItems
    \/ Start \/ StartFails \/ Stop

Spec == Init /\ [][Next]_vars

-------------------------------------------------------------------------------
(***************************************************************************)
(* Properties.                                                             *)
(***************************************************************************)
\* An item loses its module only if its own creation or move was under way when
\* the deletion had counted the items: the check otherwise keeps modules with
\* items (service.DeleteAbModule 94-106).
OrphansAreContended ==
    \A i \in DOMAIN item : item[i].module \in DOMAIN module \cup contended

\* The seeds fit in whenever they are due, so that the server starts, unless
\* such a race left an item under the id of a seeded module: no request finds
\* that item any more, and every start fails (database.seedAbModule).
SeedsFit == SeedDue /\ SeedCollides => contended \cap DOMAIN SeedModules # {}

\* A page shows every item that is there at both of its reads, except one that
\* was moved in between, and to a module that is newer than the first read
\* (service.AbConfig, two statements without a transaction).
ItemsStayVisible ==
    page.pc = "items" =>
        \A i \in DOMAIN page.before \cap DOMAIN item :
            \/ i \in AbConfig
            \/ item[i].module # page.before[i].module /\ item[i].module >= page.next
            \/ {item[i].module, page.before[i].module} \cap contended # {}
===============================================================================
