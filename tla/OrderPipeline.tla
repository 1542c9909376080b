---------------------------- MODULE OrderPipeline -----------------------------
(***************************************************************************)
(* The order pipeline: the HTTP server writes an order row and publishes   *)
(* order.created; a fanout exchange copies the event to three durable      *)
(* queues; one process with a goroutine per queue deducts the stock, adds  *)
(* the points and sends the notification, each writing its own step column *)
(* of the row.  MySQL statements are atomic (autocommit), except the       *)
(* cancellation, which is one transaction of three statements.             *)
(*                                                                         *)
(* A message is the id of its order: the event's other fields are copied   *)
(* from the order row and never change.                                    *)
(***************************************************************************)
EXTENDS Integers, Sequences, FiniteSets, FiniteSetsExt

CONSTANTS Order,        \* the order requests that may be made
          Product,      \* product ids, the seeded ones and those still to come
          Seeded,       \* the products the seed script inserts
          InitStock,    \* the stock a seeded product starts with
          Quantity,     \* the quantities the requests may ask for
          MaxQuantity,  \* maxOrderQuantity, the largest quantity accepted
          StockValue,   \* the stocks an administrator may type in
          Budget        \* how often each disturbance may happen (bounds TLC)

Disturbance == {"crash", "db", "stop", "dup", "edit"}

ASSUME PipelineAssumption ==
    /\ Seeded \subseteq Product
    /\ InitStock \in Nat
    /\ Quantity \subseteq Nat
    /\ MaxQuantity \in Nat
    /\ StockValue \subseteq Nat
    /\ Budget \in [Disturbance -> Nat]

\* orders.id is an unsigned 64-bit number.
ASSUME OrdersAreFinite == IsFiniteSet(Order)

Reward == {"points", "notify"}
Queue == {"stock"} \cup Reward

VARIABLES
    catalog,   \* product rows: "unused" id, "listed" or "deleted"
    stock,     \* product.stock
    cart,      \* what each request asks for: product and quantity
    request,   \* where CreateOrder is for each request
    status,    \* orders.status, 0 while there is no row
    step,      \* orders.stock_status, points_status and notify_status
    granted,   \* the orders that have a points_record / notification row
    queue,     \* unsettled messages, the head is the one being handled
    pc,        \* where each consumer goroutine is
    tx,        \* rows the open cancel transaction has written, uncommitted
    proc,      \* the consumer process: "up", "stopping" or "down"
    deducted,  \* history: how often the stock of each order was deducted
    used       \* history: disturbances so far

database == <<catalog, stock, status, step, granted>>
vars == <<catalog, stock, cart, request, status, step, granted, queue, pc,
          tx, proc, deducted, used>>

RequestState == {"new", "rejected", "checked", "placed", "published", "lost"}
DbStep == {"check", "work", "mark", "cancel", "delPoints", "delNotify", "commit"}
ConsumerState == DbStep \cup {"idle", "ack", "nack", "exited"}

TypeOK ==
    /\ catalog \in [Product -> {"unused", "listed", "deleted"}]
    /\ stock \in [Product -> Nat]
    /\ cart \in [Order -> [product : Product, quantity : Quantity]]
    /\ request \in [Order -> RequestState]
    /\ status \in [Order -> 0..3]
    /\ step \in [Queue -> [Order -> 0..2]]
    /\ granted \in [Reward -> SUBSET Order]
    /\ queue \in [Queue -> Seq(Order)]
    /\ pc \in [Queue -> ConsumerState]
    /\ tx \in SUBSET ({"orders"} \cup Reward)
    /\ proc \in {"up", "stopping", "down"}
    /\ deducted \in [Order -> Nat]
    /\ used \in [Disturbance -> Nat]

Init ==
    /\ catalog = [p \in Product |-> IF p \in Seeded THEN "listed" ELSE "unused"]
    /\ stock = [p \in Product |-> IF p \in Seeded THEN InitStock ELSE 0]
    /\ cart \in [Order -> [product : Product, quantity : Quantity]]
    /\ request = [o \in Order |-> "new"]
    /\ status = [o \in Order |-> 0]
    /\ step = [c \in Queue |-> [o \in Order |-> 0]]
    /\ granted = [r \in Reward |-> {}]
    /\ queue = [c \in Queue |-> <<>>]
    /\ pc = [c \in Queue |-> "idle"]
    /\ tx = {}
    /\ proc = "up"
    /\ deducted = [o \in Order |-> 0]
    /\ used = [d \in Disturbance |-> 0]

Spend(d) == /\ used[d] < Budget[d]
            /\ used' = [used EXCEPT ![d] = @ + 1]

Msg(c) == Head(queue[c])

Goto(c, state) == pc' = [pc EXCEPT ![c] = state]

NoRowLock(o) == FALSE   \* faulty: a plain SELECT under READ COMMITTED

\* The UPDATE of the cancel transaction holds the order row until it ends.
RowLocked(o) == "orders" \in tx /\ o = Msg("stock")

-------------------------------------------------------------------------------
(***************************************************************************)
(* The server: CreateOrder, and an operator who publishes an event again.  *)
(***************************************************************************)
Orderable(o) ==
    LET item == cart[o]
    IN  /\ item.quantity \in 1..MaxQuantity
        /\ catalog[item.product] = "listed"
        /\ stock[item.product] >= item.quantity

\* Validation, GetProduct and the stock precheck; nothing is written yet.
CheckOrder(o) ==
    /\ request[o] = "new"
    /\ request' = [request EXCEPT ![o] = IF Orderable(o) THEN "checked"
                                                         ELSE "rejected"]
    /\ UNCHANGED <<database, cart, queue, pc, tx, proc, deducted, used>>

\* GetProduct or the INSERT fails (an order_no drawn twice among the causes):
\* the request ends with an error and no row.
OrderFails(o) ==
    /\ request[o] \in {"new", "checked"}
    /\ request' = [request EXCEPT ![o] = "rejected"]
    /\ UNCHANGED <<database, cart, queue, pc, tx, proc, deducted, used>>

InsertOrder(o) ==
    /\ request[o] = "checked"
    /\ request' = [request EXCEPT ![o] = "placed"]
    /\ status' = [status EXCEPT ![o] = 1]
    /\ UNCHANGED <<catalog, stock, cart, step, granted, queue, pc, tx, proc,
                   deducted, used>>

Broadcast(o) == queue' = [c \in Queue |-> Append(queue[c], o)]

PublishOrderCreated(o) ==
    /\ request[o] = "placed"
    /\ request' = [request EXCEPT ![o] = "published"]
    /\ Broadcast(o)
    /\ UNCHANGED <<database, cart, pc, tx, proc, deducted, used>>

\* The publish fails (only logged), or the server dies before it.
PublishFails(o) ==
    /\ request[o] = "placed"
    /\ request' = [request EXCEPT ![o] = "lost"]
    /\ UNCHANGED <<database, cart, queue, pc, tx, proc, deducted, used>>

\* The management console publishes an order's event (once more).
Republish(o) ==
    /\ status[o] # 0
    /\ Spend("dup")
    /\ Broadcast(o)
    /\ UNCHANGED <<database, cart, request, pc, tx, proc, deducted>>

-------------------------------------------------------------------------------
(***************************************************************************)
(* Product administration.  The existence check and the write are one      *)
(* step: a deleted id never comes back, so a write after a stale check     *)
(* reaches no row and changes nothing.                                     *)
(***************************************************************************)
CreateProduct(p, n) ==
    /\ catalog[p] = "unused"
    /\ Spend("edit")
    /\ catalog' = [catalog EXCEPT ![p] = "listed"]
    /\ stock' = [stock EXCEPT ![p] = n]
    /\ UNCHANGED <<cart, request, status, step, granted, queue, pc, tx, proc,
                   deducted>>

UpdateProduct(p, n) ==
    /\ catalog[p] = "listed"
    /\ Spend("edit")
    /\ stock' = [stock EXCEPT ![p] = n]
    /\ UNCHANGED <<catalog, cart, request, status, step, granted, queue, pc,
                   tx, proc, deducted>>

DeleteProduct(p) ==
    /\ catalog[p] = "listed"
    /\ Spend("edit")
    /\ catalog' = [catalog EXCEPT ![p] = "deleted"]
    /\ UNCHANGED <<stock, cart, request, status, step, granted, queue, pc, tx,
                   proc, deducted>>

-------------------------------------------------------------------------------
(***************************************************************************)
(* The consumers.  A handler's database calls need a live context, that is *)
(* a process that has not been told to stop.                               *)
(***************************************************************************)
\* The select of Consume may still pick a message after the context is done.
Deliver(c) ==
    /\ pc[c] = "idle"
    /\ queue[c] # <<>>
    /\ Goto(c, "check")
    /\ UNCHANGED <<database, cart, request, queue, tx, proc, deducted, used>>

StepDoneIfCancelled(c, o) == status[o] \in {0, 3}   \* faulty: column ignored

StepDone(c, o) == status[o] \in {0, 3} \/ step[c][o] # 0

OrderStepDone(c) ==
    /\ pc[c] = "check"
    /\ proc = "up"
    /\ Goto(c, IF StepDone(c, Msg(c)) THEN "ack" ELSE "work")
    /\ UNCHANGED <<database, cart, request, queue, tx, proc, deducted, used>>

InStockUnguarded(o) == catalog[cart[o].product] = "listed"   \* faulty

\* Faulty: a soft delete, and an UPDATE that finds the row all the same.
InStockOfDeleted(o) == stock[cart[o].product] >= cart[o].quantity

\* UPDATE product ... WHERE id = ? AND stock >= ? matches a row.
InStock(o) == /\ catalog[cart[o].product] = "listed"
              /\ stock[cart[o].product] >= cart[o].quantity

DeductProductStock ==
    LET o == Msg("stock")
        item == cart[o]
    IN  /\ pc["stock"] = "work"
        /\ proc = "up"
        /\ InStock(o)
        /\ stock' = [stock EXCEPT ![item.product] = @ - item.quantity]
        /\ deducted' = [deducted EXCEPT ![o] = @ + 1]
        /\ Goto("stock", "mark")
        /\ UNCHANGED <<catalog, cart, request, status, step, granted, queue,
                       tx, proc, used>>

\* The conditional UPDATE matches no row.
StockInsufficient ==
    /\ pc["stock"] = "work"
    /\ proc = "up"
    /\ ~InStock(Msg("stock"))
    /\ Goto("stock", "cancel")
    /\ UNCHANGED <<database, cart, request, queue, tx, proc, deducted, used>>

Rewardable(o) == status[o] = 1

\* INSERT IGNORE ... SELECT ... WHERE status = 1: locks the order row, reads
\* the committed status and inserts at most one row per order.
InsertReward(r) ==
    LET o == Msg(r)
    IN  /\ pc[r] = "work"
        /\ proc = "up"
        /\ ~RowLocked(o)
        /\ granted' = IF Rewardable(o)
                      THEN [granted EXCEPT ![r] = @ \cup {o}]
                      ELSE granted
        /\ Goto(r, "mark")
        /\ UNCHANGED <<catalog, stock, cart, request, status, step, queue, tx,
                       proc, deducted, used>>

\* Faulty: the CASE is written before the column and sees its old value.
StatusAfterOldColumns(o, cols) ==
    IF status[o] = 1 /\ \A c \in Queue : step[c][o] = 1 THEN 2 ELSE status[o]

\* Faulty: the CASE forgets one of the three columns.
StatusAfterTwoSteps(o, cols) ==
    IF status[o] = 1 /\ cols["stock"][o] = 1 /\ cols["points"][o] = 1
    THEN 2 ELSE status[o]

\* The CASE of the UPDATE sees the column written just before it.
StatusAfter(o, cols) == IF status[o] = 1 /\ \A c \in Queue : cols[c][o] = 1
                        THEN 2 ELSE status[o]

MarkOrderStepDone(c) ==
    LET o == Msg(c)
    IN  /\ pc[c] = "mark"
        /\ proc = "up"
        /\ ~RowLocked(o)
        /\ step' = [step EXCEPT ![c][o] = 1]
        /\ status' = [status EXCEPT ![o] = StatusAfter(o, step')]
        /\ Goto(c, "ack")
        /\ UNCHANGED <<catalog, stock, cart, request, granted, queue, tx, proc,
                       deducted, used>>

\* MarkOrderStockFailed: UPDATE, two DELETEs, COMMIT in one transaction.
CancelOrder ==
    /\ pc["stock"] = "cancel"
    /\ proc = "up"
    /\ tx' = {"orders"}
    /\ Goto("stock", "delPoints")
    /\ UNCHANGED <<database, cart, request, queue, proc, deducted, used>>

\* Faulty: the DELETE is committed on its own, outside the transaction.
DeleteRewardAtOnce(r, at, next) ==
    /\ pc["stock"] = at
    /\ proc = "up"
    /\ granted' = [granted EXCEPT ![r] = @ \ {Msg("stock")}]
    /\ Goto("stock", next)
    /\ UNCHANGED <<catalog, stock, status, step, cart, request, queue, tx, proc,
                   deducted, used>>

DeleteReward(r, at, next) ==
    /\ pc["stock"] = at
    /\ proc = "up"
    /\ tx' = IF Msg("stock") \in granted[r] THEN tx \cup {r} ELSE tx
    /\ Goto("stock", next)
    /\ UNCHANGED <<database, cart, request, queue, proc, deducted, used>>

DeletePoints == DeleteReward("points", "delPoints", "delNotify")
DeleteNotification == DeleteReward("notify", "delNotify", "commit")

CommitCancel ==
    LET o == Msg("stock")
    IN  /\ pc["stock"] = "commit"
        /\ proc = "up"
        /\ status' = [status EXCEPT ![o] = 3]
        /\ step' = [step EXCEPT !["stock"][o] = 2]
        /\ granted' = [r \in Reward |-> IF r \in tx THEN granted[r] \ {o}
                                                    ELSE granted[r]]
        /\ tx' = {}
        /\ Goto("stock", "ack")
        /\ UNCHANGED <<catalog, stock, cart, request, queue, proc, deducted,
                       used>>

\* The handler returned: ack, or nack without requeueing.  Both drop the
\* message, and neither needs the context.
Settle(c) ==
    /\ pc[c] \in {"ack", "nack"}
    /\ queue' = [queue EXCEPT ![c] = Tail(@)]
    /\ Goto(c, "idle")
    /\ UNCHANGED <<database, cart, request, tx, proc, deducted, used>>

-------------------------------------------------------------------------------
(***************************************************************************)
(* Failures, shutdown and restart of the consumer process.                 *)
(***************************************************************************)
\* Faulty: a call that runs when the process is told to stop never returns.
DbFailsOnlyWhileUp(c) ==
    /\ pc[c] \in DbStep
    /\ proc = "up"
    /\ Spend("db")
    /\ tx' = IF c = "stock" THEN {} ELSE tx
    /\ Goto(c, "nack")
    /\ UNCHANGED <<database, cart, request, queue, proc, deducted>>

\* A database call of a handler returns an error; the deferred Rollback ends
\* an open transaction.  Once the process is stopping every call fails.
DbFails(c) ==
    /\ pc[c] \in DbStep
    /\ \/ proc = "up" /\ Spend("db")
       \/ proc = "stopping" /\ UNCHANGED used
    /\ tx' = IF c = "stock" THEN {} ELSE tx
    /\ Goto(c, "nack")
    /\ UNCHANGED <<database, cart, request, queue, proc, deducted>>

\* SIGTERM or SIGINT cancels the context every handler runs under.
Stop ==
    /\ proc = "up"
    /\ Spend("stop")
    /\ proc' = "stopping"
    /\ UNCHANGED <<database, cart, request, queue, pc, tx, deducted>>

LeaveLoop(c) ==
    /\ proc = "stopping"
    /\ pc[c] = "idle"
    /\ Goto(c, "exited")
    /\ UNCHANGED <<database, cart, request, queue, tx, proc, deducted, used>>

Exit ==
    /\ proc = "stopping"
    /\ \A c \in Queue : pc[c] = "exited"
    /\ proc' = "down"
    /\ UNCHANGED <<database, cart, request, queue, pc, tx, deducted, used>>

\* os.Exit(1) in any goroutine, or a kill: every unsettled message stays in
\* its queue, MySQL rolls the open transaction back.
Crash ==
    /\ proc # "down"
    /\ Spend("crash")
    /\ proc' = "down"
    /\ pc' = [c \in Queue |-> "exited"]
    /\ tx' = {}
    /\ UNCHANGED <<database, cart, request, queue, deducted>>

Restart ==
    /\ proc = "down"
    /\ proc' = "up"
    /\ pc' = [c \in Queue |-> "idle"]
    /\ UNCHANGED <<database, cart, request, queue, tx, deducted, used>>

\* Nothing left to do: all requests are answered and the queues are empty.
Quiescent ==
    /\ \A o \in Order : request[o] \in {"rejected", "published", "lost"}
    /\ \A c \in Queue : queue[c] = <<>> /\ pc[c] = "idle"
    /\ proc = "up"
    /\ UNCHANGED vars

-------------------------------------------------------------------------------
CreateOrder(o) == \/ CheckOrder(o)
                  \/ OrderFails(o)
                  \/ InsertOrder(o)
                  \/ PublishOrderCreated(o)
                  \/ PublishFails(o)

ProductAdmin(p) == \/ \E n \in StockValue : CreateProduct(p, n)
                   \/ \E n \in StockValue : UpdateProduct(p, n)
                   \/ DeleteProduct(p)

MarkOrderStockFailed == \/ CancelOrder
                        \/ DeletePoints
                        \/ DeleteNotification
                        \/ CommitCancel

\* What the goroutine of queue c does by itself.
Handle(c) == \/ OrderStepDone(c)
             \/ MarkOrderStepDone(c)
             \/ c \in Reward /\ InsertReward(c)
             \/ c = "stock" /\ (DeductProductStock \/ StockInsufficient
                                  \/ MarkOrderStockFailed)

Consume(c) == Deliver(c) \/ Handle(c) \/ DbFails(c) \/ Settle(c) \/ LeaveLoop(c)

Next == \/ \E o \in Order : CreateOrder(o) \/ Republish(o)
        \/ \E p \in Product : ProductAdmin(p)
        \/ \E c \in Queue : Consume(c)
        \/ Stop
        \/ Exit
        \/ Crash
        \/ Restart
        \/ Quiescent

Spec == Init /\ [][Next]_vars

(***************************************************************************)
(* Fairness: the Go scheduler runs every goroutine, which either makes its *)
(* next call or sees it fail; the handler of an inserted order goes on to  *)
(* publish or to fail; and whoever supervises the process starts it again. *)
(* No administrator, operator or failure is fair.                          *)
(***************************************************************************)
Fairness == /\ \A c \in Queue : WF_vars(Consume(c))
            /\ \A o \in Order : WF_vars(CreateOrder(o))
            /\ WF_vars(Exit)
            /\ WF_vars(Restart)

FairSpec == Spec /\ Fairness

-------------------------------------------------------------------------------
(***************************************************************************)
(* Safety.                                                                 *)
(***************************************************************************)
\* A cancelled order has no points record and no notification, however the
\* three consumers, crashes, failures and duplicates interleave
\* (repository.MarkOrderStockFailed, InsertPointsRecord: no orphan rows).
NoOrphanRewards ==
    \A o \in Order : status[o] = 3 => \A r \in Reward : o \notin granted[r]

\* A completed order did everything: its stock was deducted at least once and
\* both reward rows exist (repository.MarkOrderStepDone).
CompletedIsWhole ==
    \A o \in Order : status[o] = 2 => /\ deducted[o] >= 1
                                     /\ \A r \in Reward : o \in granted[r]

\* Whoever writes the last of the three columns also flips the status: no row
\* is left processing with all steps done, which nothing would ever repair
\* (repository.MarkOrderStepDone, three writers of one row).
CompletionNotMissed ==
    \A o \in Order : status[o] = 1 => \E c \in Queue : step[c][o] # 1

\* Stock taken for an order whose row does not say so (the step column is
\* not 1, and no handler is about to write it) was taken in a handler that a
\* crash, a database failure or a shutdown cut short.  Without those, a
\* redelivered or republished event never deducts twice, and a cancelled
\* order never lost stock (service.DeductStock).
Interruptions == used["crash"] + used["db"] + used["stop"]
Recorded(o) == IF step["stock"][o] = 1 THEN 1 ELSE 0
BeingRecorded(o) ==
    IF proc = "up" /\ pc["stock"] = "mark" /\ o = Msg("stock") THEN 1 ELSE 0

UnrecordedDeductionsAreInterrupted ==
    \A o \in Order :
        deducted[o] <= Recorded(o) + BeingRecorded(o) + Interruptions

\* As long as no administrator overwrites the stock, what is left of a product
\* and what was taken for its orders add up to what was there, and the pieces
\* promised to the orders whose stock step is done never exceed it: no
\* overselling, although every request's precheck is stale by the time its order
\* is handled (repository.DeductProductStock, service.CreateOrder).
OrdersOf(p) == {o \in Order : cart[o].product = p}
Taken(p) == MapThenSumSet(LAMBDA o : deducted[o] * cart[o].quantity, OrdersOf(p))
Promised(p) == MapThenSumSet(LAMBDA o : cart[o].quantity,
                             {o \in OrdersOf(p) : step["stock"][o] = 1})

StockIsConserved ==
    used["edit"] = 0 => \A p \in Seeded : /\ InitStock = stock[p] + Taken(p)
                                          /\ Promised(p) <= InitStock

\* Completed and cancelled are final: no late step, duplicate or retry of
\* another handler takes an order out of them (orders.status 2 and 3).
EndsAreFinal ==
    [][\A o \in Order : status[o] \in {2, 3} => status'[o] = status[o]]_status

\* The cancellation's rows change together: an order never shows the status
\* 3 before its stock column shows 2, nor loses a reward without it
\* (repository.MarkOrderStockFailed is one transaction).
RewardsLeaveOnlyByCancelling ==
    [][\A o \in Order, r \in Reward :
          o \in granted[r] /\ o \notin granted'[r]
             => status[o] = 1 /\ status'[o] = 3 /\ step'["stock"][o] = 2]_vars

(***************************************************************************)
(* The inductive invariant behind the safety properties, in parts.    *)
(***************************************************************************)
\* What the columns and the rewards of one order row say of each other.
Unwritten == {"new", "rejected", "checked"}

RowConsistent(o) ==
    /\ status[o] = 0 <=> request[o] \in Unwritten
    /\ status[o] = 0 => deducted[o] = 0 /\ \A c \in Queue : step[c][o] = 0
    /\ status[o] = 1 => \E c \in Queue : step[c][o] # 1
    /\ status[o] = 2 => \A c \in Queue : step[c][o] = 1
    /\ status[o] = 3 <=> step["stock"][o] = 2
    /\ status[o] \in {0, 3} => \A r \in Reward : o \notin granted[r]
    /\ step["stock"][o] = 1 => deducted[o] >= 1
    /\ \A r \in Reward : step[r][o] = 1 /\ status[o] # 3 => o \in granted[r]

RowInv == \A o \in Order : RowConsistent(o)

\* A consumer at work has the message it works on, still in its queue.
InFlight == \A c \in Queue : pc[c] \notin {"idle", "exited"} => queue[c] # <<>>

\* Messages are about orders that have a row.
MessageInv == \A c \in Queue : \A i \in DOMAIN queue[c] : status[queue[c][i]] # 0

\* While the stock consumer is past its check, the order is still processing
\* and its stock column unwritten: nobody else decides the order.
StockInv ==
    /\ pc["stock"] \in DbStep \ {"check"} => /\ status[Msg("stock")] = 1
                                             /\ step["stock"][Msg("stock")] = 0
    /\ pc["stock"] = "mark" => deducted[Msg("stock")] >= 1

\* A reward consumer about to write its column has granted the reward, unless
\* the order is cancelled.
RewardInv ==
    \A r \in Reward :
        pc[r] = "mark" /\ status[Msg(r)] # 3 => Msg(r) \in granted[r]

\* The cancel transaction holds the order row from its UPDATE to its end, and
\* once past a DELETE it has deleted the reward the order had, if any.
TxInv ==
    /\ "orders" \in tx <=> pc["stock"] \in {"delPoints", "delNotify", "commit"}
    /\ "orders" \notin tx => tx = {}
    /\ pc["stock"] \in {"delNotify", "commit"} =>
           (Msg("stock") \in granted["points"] => "points" \in tx)
    /\ pc["stock"] = "commit" =>
           (Msg("stock") \in granted["notify"] => "notify" \in tx)

\* No handler is left at work in a process that is down.
ProcInv == proc = "down" => \A c \in Queue : pc[c] = "exited"

PipelineInv == /\ InFlight
               /\ RowInv
               /\ MessageInv
               /\ StockInv
               /\ RewardInv
               /\ TxInv
               /\ ProcInv

(***************************************************************************)
(* The promise to the customer: OrderLifecycle, read off the rows.         *)
(***************************************************************************)
PhaseOf(s) == CASE s = 0 -> "absent"
                [] s = 1 -> "processing"
                [] s = 2 -> "completed"
                [] s = 3 -> "cancelled"

Lifecycle == INSTANCE OrderLifecycle
                WITH phase <- [o \in Order |-> PhaseOf(status[o])],
                     rewards <- [o \in Order |-> {r \in Reward : o \in granted[r]}]

\* The pipeline implements the lifecycle: the concurrent handlers, seen
\* through the committed rows, only place, grant, complete and cancel.
ImplementsLifecycle == Lifecycle!LifecycleSpec

(***************************************************************************)
(* Liveness.                                                               *)
(***************************************************************************)
\* Consumer c is about to give up the message of o it has in hand: its
\* handler failed, and Consume nacks without requeueing.
Drops(c, o) == pc[c] = "nack" /\ Msg(c) = o

\* Every published order is completed or cancelled in the end, across
\* crashes, redeliveries and shutdowns, unless a handler that had a message
\* of this very order in hand failed and dropped it (mq.Consume): a shutdown
\* that finds nothing of the order in hand costs it nothing.
PublishedIsDecided ==
    \A o \in Order :
        <>(request[o] = "published")
          => <>(status[o] \in {2, 3} \/ \E c \in Queue : Drops(c, o))

\* A process told to stop does stop: no handler holds it up
\* (cmd/consumer/main.go, wg.Wait).
StopCompletes == proc = "stopping" ~> proc = "down"

\* An order whose product is deleted before its stock is taken is cancelled
\* in the end (service.DeleteProduct), unless the stock consumer failed with
\* its message in hand and dropped it.
DeletedProductCancels ==
    \A o \in Order :
        <>(/\ request[o] = "published"
           /\ deducted[o] = 0
           /\ catalog[cart[o].product] = "deleted")
          => <>(status[o] = 3 \/ Drops("stock", o))
===============================================================================
