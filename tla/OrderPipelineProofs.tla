------------------------- MODULE OrderPipelineProofs --------------------------
(***************************************************************************)
(* Proofs about the order pipeline and the load test that runs on it, for  *)
(* any number of orders, products, requests and disturbances.              *)
(***************************************************************************)
EXTENDS LoadTest, Sums, SequenceTheorems, TLAPS

-------------------------------------------------------------------------------
(***************************************************************************)
(* Types.                                                                  *)
(***************************************************************************)
\* Spending from the budget keeps the counters natural numbers.
LEMMA SpendType ==
    ASSUME TypeOK, NEW d \in Disturbance, Spend(d)
    PROVE  used' \in [Disturbance -> Nat]
BY DEF TypeOK, Spend, Disturbance

\* Publishing an event keeps every queue a sequence of orders.
LEMMA BroadcastType ==
    ASSUME TypeOK, NEW o \in Order, Broadcast(o)
    PROVE  queue' \in [Queue -> Seq(Order)]
BY DEF TypeOK, Broadcast

\* Publishing adds the order at the end of every queue: the messages already
\* there keep their place, the one being handled among them.
LEMMA BroadcastEffect ==
    ASSUME TypeOK, NEW o \in Order, Broadcast(o), NEW c \in Queue
    PROVE  /\ queue'[c] # <<>>
           /\ queue[c] # <<>> => Head(queue'[c]) = Head(queue[c])
           /\ \A i \in DOMAIN queue'[c] :
                 queue'[c][i] = o \/ \E j \in DOMAIN queue[c] : queue'[c][i] = queue[c][j]
<1>1. queue[c] \in Seq(Order) /\ queue'[c] = Append(queue[c], o)
  BY DEF TypeOK, Broadcast
<1>2. QED
  BY <1>1, AppendProperties, HeadTailAppend

\* Settling the head of a queue leaves only messages that were there before.
LEMMA TailEffect ==
    ASSUME NEW s \in Seq(Order), s # <<>>
    PROVE  /\ Tail(s) \in Seq(Order)
           /\ \A i \in DOMAIN Tail(s) : \E j \in DOMAIN s : Tail(s)[i] = s[j]
<1>1. /\ Tail(s) \in Seq(Order)
      /\ Len(Tail(s)) = Len(s) - 1
      /\ \A i \in 1..Len(Tail(s)) : Tail(s)[i] = s[i + 1]
  BY HeadTailProperties
<1>2. \A i \in 1..Len(Tail(s)) : i + 1 \in 1..Len(s)
  BY <1>1, LenProperties
<1>3. DOMAIN Tail(s) = 1..Len(Tail(s)) /\ DOMAIN s = 1..Len(s)
  BY <1>1, LenProperties
<1>4. QED
  BY <1>1, <1>2, <1>3

\* The message a consumer works on is an order.
LEMMA MsgType ==
    ASSUME TypeOK, NEW c \in Queue, queue[c] # <<>>
    PROVE  Msg(c) \in Order
BY DEF TypeOK, Msg

\* Moving a consumer on keeps every consumer in a known place.
LEMMA GotoType ==
    ASSUME TypeOK, NEW c \in Queue, NEW s \in ConsumerState, Goto(c, s)
    PROVE  pc' \in [Queue -> ConsumerState]
BY DEF TypeOK, Goto

\* One step keeps the types, given that a consumer at work has its message.
LEMMA TypeStep ==
    ASSUME TypeOK, InFlight, [Next]_vars
    PROVE  TypeOK'
<1> USE PipelineAssumption
<1>1. ASSUME NEW o \in Order, CreateOrder(o)
      PROVE  TypeOK'
  <2>1. CASE PublishOrderCreated(o)
    BY <2>1, BroadcastType DEF PublishOrderCreated, TypeOK, RequestState, database
  <2>2. CASE CheckOrder(o) \/ OrderFails(o)
    BY <2>2 DEF CheckOrder, OrderFails, TypeOK, RequestState, database
  <2>3. CASE InsertOrder(o)
    BY <2>3 DEF InsertOrder, TypeOK, RequestState
  <2>4. CASE PublishFails(o)
    BY <2>4 DEF PublishFails, TypeOK, RequestState, database
  <2>5. QED
    BY <1>1, <2>1, <2>2, <2>3, <2>4 DEF CreateOrder
<1>2. ASSUME NEW o \in Order, Republish(o)
      PROVE  TypeOK'
  BY <1>2, BroadcastType, SpendType DEF Republish, TypeOK, database, Disturbance
<1>3. ASSUME NEW p \in Product, ProductAdmin(p)
      PROVE  TypeOK'
  <2>1. CASE DeleteProduct(p)
    BY <2>1, SpendType DEF DeleteProduct, TypeOK, Disturbance
  <2>2. ASSUME NEW n \in StockValue, CreateProduct(p, n) \/ UpdateProduct(p, n)
        PROVE  TypeOK'
    BY <2>2, SpendType DEF CreateProduct, UpdateProduct, TypeOK, Disturbance
  <2>3. QED
    BY <1>3, <2>1, <2>2 DEF ProductAdmin
<1>4. ASSUME NEW c \in Queue, Consume(c)
      PROVE  TypeOK'
  <2>1. CASE Deliver(c)
    BY <2>1, GotoType DEF Deliver, TypeOK, database, ConsumerState, DbStep
  <2>2. CASE OrderStepDone(c)
    BY <2>2, GotoType DEF OrderStepDone, TypeOK, database, ConsumerState, DbStep
  <2>3. CASE MarkOrderStepDone(c)
    <3>0. Msg(c) \in Order
      BY <2>3, MsgType DEF MarkOrderStepDone, InFlight
    <3>1. step' \in [Queue -> [Order -> 0..2]]
      BY <2>3, <3>0 DEF MarkOrderStepDone, TypeOK
    <3>2. status' \in [Order -> 0..3]
      BY <2>3, <3>0 DEF MarkOrderStepDone, StatusAfter, TypeOK
    <3>3. pc' \in [Queue -> ConsumerState]
      BY <2>3, GotoType DEF MarkOrderStepDone, ConsumerState
    <3>4. QED
      BY <2>3, <3>1, <3>2, <3>3 DEF MarkOrderStepDone, TypeOK
  <2>4. CASE c \in Reward /\ InsertReward(c)
    <3>1. Msg(c) \in Order
      BY <2>4, MsgType DEF InsertReward, InFlight
    <3>2. granted' \in [Reward -> SUBSET Order]
      BY <2>4, <3>1 DEF InsertReward, TypeOK
    <3>3. pc' \in [Queue -> ConsumerState]
      BY <2>4, GotoType DEF InsertReward, ConsumerState, DbStep
    <3>4. QED
      BY <2>4, <3>2, <3>3 DEF InsertReward, TypeOK
  <2>5. CASE DeductProductStock
    <3>1. Msg("stock") \in Order
      BY <2>5, MsgType DEF DeductProductStock, InFlight, Queue
    <3>2. stock' \in [Product -> Nat] /\ deducted' \in [Order -> Nat]
      <4> DEFINE item == cart[Msg("stock")]
      <4>1. /\ item.product \in Product
            /\ item.quantity \in Nat
            /\ stock[item.product] \in Nat
        BY <3>1 DEF TypeOK
      <4>2. stock[item.product] - item.quantity \in Nat
        BY <2>5, <4>1 DEF DeductProductStock, InStock
      <4>3. QED
        BY <2>5, <3>1, <4>1, <4>2 DEF DeductProductStock, TypeOK
    <3>3. pc' \in [Queue -> ConsumerState]
      BY <2>5, GotoType DEF DeductProductStock, ConsumerState, DbStep, Queue
    <3>4. QED
      BY <2>5, <3>2, <3>3 DEF DeductProductStock, TypeOK
  <2>6. CASE StockInsufficient
    BY <2>6, GotoType DEF StockInsufficient, TypeOK, database, ConsumerState,
                          DbStep, Queue
  <2>7. CASE CancelOrder
    BY <2>7, GotoType DEF CancelOrder, TypeOK, database, ConsumerState, DbStep,
                          Queue
  <2>8. CASE DeletePoints \/ DeleteNotification
    BY <2>8, GotoType DEF DeletePoints, DeleteNotification, DeleteReward, TypeOK,
                          database, ConsumerState, DbStep, Queue, Reward
  <2>9. CASE CommitCancel
    <3>0. Msg("stock") \in Order /\ "stock" \in Queue
      BY <2>9, MsgType DEF CommitCancel, InFlight, Queue
    <3>1. step' \in [Queue -> [Order -> 0..2]]
      BY <2>9, <3>0 DEF CommitCancel, TypeOK
    <3>2. status' \in [Order -> 0..3] /\ granted' \in [Reward -> SUBSET Order]
      BY <2>9, <3>0 DEF CommitCancel, TypeOK
    <3>3. pc' \in [Queue -> ConsumerState]
      BY <2>9, GotoType DEF CommitCancel, ConsumerState, Queue
    <3>4. QED
      BY <2>9, <3>1, <3>2, <3>3 DEF CommitCancel, TypeOK
  <2>10. CASE Settle(c)
    <3>1. queue[c] # <<>> /\ Tail(queue[c]) \in Seq(Order)
      BY <2>10, HeadTailProperties DEF Settle, InFlight, TypeOK
    <3>2. queue' \in [Queue -> Seq(Order)]
      BY <2>10, <3>1 DEF Settle, TypeOK
    <3>3. pc' \in [Queue -> ConsumerState]
      BY <2>10, GotoType DEF Settle, ConsumerState
    <3>4. QED
      BY <2>10, <3>2, <3>3 DEF Settle, TypeOK, database
  <2>11. CASE DbFails(c)
    BY <2>11, GotoType, SpendType DEF DbFails, TypeOK, database, ConsumerState,
                                      Disturbance
  <2>12. CASE LeaveLoop(c)
    BY <2>12, GotoType DEF LeaveLoop, TypeOK, database, ConsumerState
  <2>13. QED
    BY <1>4, <2>1, <2>2, <2>3, <2>4, <2>5, <2>6, <2>7, <2>8, <2>9, <2>10,
       <2>11, <2>12
    DEF Consume, Handle, MarkOrderStockFailed
<1>5. CASE Stop \/ Crash
  BY <1>5, SpendType DEF Stop, Crash, TypeOK, database, ConsumerState, Disturbance
<1>6. CASE Exit \/ Restart
  BY <1>6 DEF Exit, Restart, TypeOK, database, ConsumerState
<1>7. CASE Quiescent \/ UNCHANGED vars
  BY <1>7 DEF Quiescent, vars, TypeOK
<1>8. QED
  BY <1>1, <1>2, <1>3, <1>4, <1>5, <1>6, <1>7 DEF Next

\* A consumer at work keeps its message until it settles it.
LEMMA InFlightStep ==
    ASSUME TypeOK, InFlight, [Next]_vars
    PROVE  InFlight'
<1>1. ASSUME NEW o \in Order, Broadcast(o), UNCHANGED pc
      PROVE  InFlight'
  BY <1>1, BroadcastEffect DEF InFlight
<1>2. ASSUME NEW c \in Queue, UNCHANGED queue, NEW s, Goto(c, s), queue[c] # <<>>
      PROVE  InFlight'
  BY <1>2 DEF InFlight, Goto, TypeOK
<1>3. ASSUME NEW c \in Queue, Consume(c)
      PROVE  InFlight'
  <2>1. CASE Settle(c) \/ LeaveLoop(c)
    BY <1>3, <2>1 DEF Settle, LeaveLoop, Goto, InFlight, TypeOK
  <2>2. CASE Deliver(c)
    BY <1>2, <2>2 DEF Deliver
  <2>3. CASE Handle(c) \/ DbFails(c)
    <3>1. queue[c] # <<>> /\ UNCHANGED queue
      BY <2>3 DEF Handle, DbFails, InFlight, OrderStepDone, MarkOrderStepDone,
                  InsertReward, DeductProductStock, StockInsufficient,
                  MarkOrderStockFailed, CancelOrder, DeletePoints,
                  DeleteNotification, DeleteReward, CommitCancel, DbStep
    <3>2. \E s : Goto(c, s)
      BY <2>3 DEF Handle, DbFails, OrderStepDone, MarkOrderStepDone,
                  InsertReward, DeductProductStock, StockInsufficient,
                  MarkOrderStockFailed, CancelOrder, DeletePoints,
                  DeleteNotification, DeleteReward, CommitCancel
    <3>3. QED
      BY <1>2, <3>1, <3>2
  <2>4. QED
    BY <1>3, <2>1, <2>2, <2>3 DEF Consume
<1>4. CASE Crash \/ Restart
  BY <1>4 DEF Crash, Restart, InFlight
<1>5. CASE UNCHANGED <<queue, pc>>
  BY <1>5 DEF InFlight
<1>6. QED
  BY <1>1, <1>3, <1>4, <1>5
  DEF Next, CreateOrder, CheckOrder, OrderFails, InsertOrder, PublishOrderCreated,
      PublishFails, Republish, ProductAdmin, CreateProduct, UpdateProduct,
      DeleteProduct, Stop, Exit, Quiescent, vars

LEMMA InitTypes == Init => TypeOK /\ InFlight
BY PipelineAssumption DEF Init, TypeOK, InFlight, RequestState, ConsumerState, DbStep

\* Every variable keeps its type (the column and status codes of
\* internal/model/order.go, the places of CreateOrder and Consume).
THEOREM TypeCorrect == Spec => []TypeOK
<1>1. TypeOK /\ InFlight /\ [Next]_vars => (TypeOK /\ InFlight)'
  BY TypeStep, InFlightStep
<1>2. QED
  BY InitTypes, <1>1, PTL DEF Spec

-------------------------------------------------------------------------------
(***************************************************************************)
(* The inductive invariant.  Rows first: which steps touch a row, and what *)
(* they leave true of it.                                                  *)
(***************************************************************************)
\* The message of a consumer at work is an order that has a row.
LEMMA InFlightOrder ==
    ASSUME TypeOK, InFlight, MessageInv, NEW c \in Queue, pc[c] \notin {"idle", "exited"}
    PROVE  Msg(c) \in Order /\ status[Msg(c)] # 0
<1>1. queue[c] # <<>> /\ queue[c] \in Seq(Order)
  BY DEF InFlight, TypeOK
<1>2. 1 \in DOMAIN queue[c] /\ Msg(c) = queue[c][1]
  BY <1>1, EmptySeq, LenProperties DEF Msg
<1>3. QED
  BY <1>1, <1>2, MsgType DEF MessageInv

\* A step that leaves a row's columns alone leaves it consistent.
LEMMA RowFrame ==
    ASSUME NEW o \in Order, RowConsistent(o),
           request'[o] \in Unwritten <=> request[o] \in Unwritten,
           status'[o] = status[o], deducted'[o] = deducted[o],
           \A c \in Queue : step'[c][o] = step[c][o],
           \A r \in Reward : o \in granted'[r] <=> o \in granted[r]
    PROVE  RowConsistent(o)'
BY DEF RowConsistent, Queue

\* A step of the server, an administrator or the process itself leaves every
\* row consistent; InsertOrder is the only one that writes one.
LEMMA RowUnwritten ==
    ASSUME RowInv, UNCHANGED <<request, status, step, granted, deducted>>
    PROVE  RowInv'
BY RowFrame DEF RowInv

LEMMA RowCreateOrder ==
    ASSUME TypeOK, RowInv, NEW o \in Order, CreateOrder(o)
    PROVE  RowInv'
<1> SUFFICES ASSUME NEW x \in Order PROVE RowConsistent(x)'
  BY DEF RowInv
<1>1. RowConsistent(x)
  BY DEF RowInv
<1>2. CASE InsertOrder(o) /\ x = o
  BY <1>1, <1>2 DEF InsertOrder, RowConsistent, Unwritten, TypeOK, Queue, Reward
<1>3. CASE ~(InsertOrder(o) /\ x = o)
  <2>1. /\ UNCHANGED <<step, granted, deducted>>
        /\ status'[x] = status[x]
        /\ request'[x] \in Unwritten <=> request[x] \in Unwritten
    BY <1>3 DEF CreateOrder, CheckOrder, OrderFails, InsertOrder, PublishOrderCreated,
                PublishFails, database, TypeOK, Unwritten, RequestState
  <2>2. QED
    BY <1>1, <2>1, RowFrame
<1>4. QED
  BY <1>2, <1>3

\* Deducting counts for the order of the message only.
LEMMA RowDeduct ==
    ASSUME TypeOK, RowInv, DeductProductStock,
           Msg("stock") \in Order, status[Msg("stock")] # 0
    PROVE  RowInv'
<1> SUFFICES ASSUME NEW x \in Order PROVE RowConsistent(x)'
  BY DEF RowInv
<1>1. RowConsistent(x)
  BY DEF RowInv
<1>2. /\ UNCHANGED <<request, status, step, granted>>
      /\ deducted' = [deducted EXCEPT ![Msg("stock")] = @ + 1]
  BY DEF DeductProductStock
<1>3. CASE x = Msg("stock")
  <2>1. deducted'[x] \in Nat /\ deducted'[x] = deducted[x] + 1
    BY <1>2, <1>3 DEF TypeOK
  <2>2. QED
    BY <1>1, <1>2, <1>3, <2>1 DEF RowConsistent, TypeOK
<1>4. CASE x # Msg("stock")
  <2>1. deducted'[x] = deducted[x]
    BY <1>2, <1>4 DEF TypeOK
  <2>2. QED
    BY <1>1, <1>2, <2>1, RowFrame
<1>5. QED
  BY <1>3, <1>4

\* A reward is inserted for an order still processing, or not at all.
LEMMA RowInsertReward ==
    ASSUME TypeOK, RowInv, NEW r \in Reward, InsertReward(r), Msg(r) \in Order
    PROVE  RowInv'
<1> SUFFICES ASSUME NEW x \in Order PROVE RowConsistent(x)'
  BY DEF RowInv
<1>1. RowConsistent(x)
  BY DEF RowInv
<1>2. UNCHANGED <<request, status, step, deducted>>
  BY DEF InsertReward
<1>3. CASE granted' = granted
  BY <1>1, <1>2, <1>3, RowFrame
<1>4. CASE status[Msg(r)] = 1 /\ granted' = [granted EXCEPT ![r] = @ \cup {Msg(r)}]
  <2>1. \A q \in Reward : x \in granted[q] => x \in granted'[q]
    BY <1>4 DEF TypeOK
  <2>2. status[x] \in {0, 3} => \A q \in Reward : x \in granted'[q] <=> x \in granted[q]
    BY <1>4 DEF TypeOK
  <2>3. QED
    BY <1>1, <1>2, <2>1, <2>2 DEF RowConsistent
<1>5. QED
  BY <1>3, <1>4 DEF InsertReward, Rewardable

\* Writing a step column: the CASE completes the order exactly when this was
\* the last of the three.
LEMMA RowMark ==
    ASSUME TypeOK, RowInv, NEW c \in Queue, MarkOrderStepDone(c),
           Msg(c) \in Order, status[Msg(c)] # 0,
           c = "stock" => status[Msg(c)] = 1 /\ deducted[Msg(c)] >= 1,
           c \in Reward /\ status[Msg(c)] # 3 => Msg(c) \in granted[c]
    PROVE  RowInv'
<1> SUFFICES ASSUME NEW x \in Order PROVE RowConsistent(x)'
  BY DEF RowInv
<1>1. RowConsistent(x)
  BY DEF RowInv
<1>2. UNCHANGED <<request, granted, deducted>>
  BY DEF MarkOrderStepDone
<1>3. CASE x # Msg(c)
  <2>1. status'[x] = status[x] /\ \A q \in Queue : step'[q][x] = step[q][x]
    BY <1>3 DEF MarkOrderStepDone, TypeOK
  <2>2. QED
    BY <1>1, <1>2, <2>1, RowFrame
<1>4. CASE x = Msg(c)
  <2>1. \A q \in Queue : step'[q][x] = IF q = c THEN 1 ELSE step[q][x]
    BY <1>4 DEF MarkOrderStepDone, TypeOK
  <2>2. status'[x] = IF status[x] = 1 /\ \A q \in Queue : step'[q][x] = 1
                     THEN 2 ELSE status[x]
    BY <1>4 DEF MarkOrderStepDone, StatusAfter, TypeOK
  <2>3. status[x] \in 1..3 /\ \A q \in Queue : step[q][x] \in 0..2
    BY <1>4 DEF TypeOK
  <2>4. "stock" \in Queue /\ Reward \subseteq Queue /\ Queue = {"stock"} \cup Reward
    BY DEF Queue
  <2>5. QED
    BY <1>1, <1>2, <1>4, <2>1, <2>2, <2>3, <2>4 DEF RowConsistent, Unwritten
<1>5. QED
  BY <1>3, <1>4

\* The commit of a cancellation takes back what the order holds.
LEMMA RowCommit ==
    ASSUME TypeOK, RowInv, CommitCancel, Msg("stock") \in Order,
           status[Msg("stock")] = 1,
           \A r \in Reward : Msg("stock") \in granted[r] => r \in tx
    PROVE  RowInv'
<1> SUFFICES ASSUME NEW x \in Order PROVE RowConsistent(x)'
  BY DEF RowInv
<1>1. RowConsistent(x)
  BY DEF RowInv
<1>2. UNCHANGED <<request, deducted>> /\ "stock" \in Queue
  BY DEF CommitCancel, Queue
<1>3. CASE x # Msg("stock")
  <2>1. status'[x] = status[x] /\ \A q \in Queue : step'[q][x] = step[q][x]
    BY <1>2, <1>3 DEF CommitCancel, TypeOK
  <2>2. \A r \in Reward : x \in granted'[r] <=> x \in granted[r]
    BY <1>3 DEF CommitCancel, TypeOK
  <2>3. QED
    BY <1>1, <1>2, <2>1, <2>2, RowFrame
<1>4. CASE x = Msg("stock")
  <2>1. status'[x] = 3 /\ step'["stock"][x] = 2
    BY <1>2, <1>4 DEF CommitCancel, TypeOK
  <2>2. \A r \in Reward : x \notin granted'[r]
    BY <1>4 DEF CommitCancel, TypeOK
  <2>3. request[x] \notin Unwritten
    BY <1>1, <1>4 DEF RowConsistent
  <2>4. QED
    BY <1>2, <2>1, <2>2, <2>3 DEF RowConsistent
<1>5. QED
  BY <1>3, <1>4

-------------------------------------------------------------------------------
(***************************************************************************)
(* The other parts of the inductive invariant.                             *)
(***************************************************************************)
\* A consumer at work keeps its message while no consumer settles.
LEMMA MsgStays ==
    ASSUME TypeOK, InFlight, NEW c \in Queue, pc[c] \notin {"idle", "exited"},
           UNCHANGED queue \/ \E o \in Order : Broadcast(o)
    PROVE  Msg(c)' = Msg(c)
BY BroadcastEffect DEF InFlight, Msg

\* A consumer's step moves that consumer only.
LEMMA GotoEffect ==
    ASSUME TypeOK, NEW c \in Queue, NEW s, Goto(c, s)
    PROVE  pc'[c] = s /\ \A q \in Queue : q # c => pc'[q] = pc[q]
BY DEF TypeOK, Goto

\* The stock consumer's view of its order survives any step that keeps it
\* where it is and its order's row as it was.
LEMMA StockFrame ==
    ASSUME StockInv, pc'["stock"] = pc["stock"],
           pc["stock"] \in DbStep \ {"check"} =>
               /\ Msg("stock")' = Msg("stock")
               /\ status'[Msg("stock")] = status[Msg("stock")]
               /\ step'["stock"][Msg("stock")] = step["stock"][Msg("stock")]
               /\ deducted'[Msg("stock")] = deducted[Msg("stock")]
    PROVE  StockInv'
BY DEF StockInv, DbStep

LEMMA RewardFrame ==
    ASSUME TypeOK, RewardInv,
           \A r \in Reward : pc'[r] = "mark" =>
               /\ pc[r] = "mark"
               /\ Msg(r)' = Msg(r)
               /\ status'[Msg(r)] # 3 => status[Msg(r)] # 3
               /\ status'[Msg(r)] # 3 /\ Msg(r) \in granted[r] => Msg(r) \in granted'[r]
    PROVE  RewardInv'
BY DEF RewardInv

LEMMA TxFrame ==
    ASSUME TxInv, UNCHANGED tx, pc'["stock"] = pc["stock"],
           pc["stock"] \in {"delPoints", "delNotify", "commit"} =>
               /\ Msg("stock")' = Msg("stock")
               /\ \A r \in Reward :
                     Msg("stock") \in granted'[r] <=> Msg("stock") \in granted[r]
    PROVE  TxInv'
BY DEF TxInv, Reward

\* Publishing disturbs no handler: the message in hand stays at the head.
LEMMA PublishKeeps ==
    ASSUME TypeOK, PipelineInv, NEW o \in Order, Broadcast(o), status[o] # 0,
           UNCHANGED <<status, step, granted, pc, tx, deducted>>
    PROVE  MessageInv' /\ StockInv' /\ RewardInv' /\ TxInv'
<1>1. MessageInv'
  <2> SUFFICES ASSUME NEW c \in Queue, NEW i \in DOMAIN queue'[c]
               PROVE  status[queue'[c][i]] # 0
    BY DEF MessageInv
  <2>1. QED
    BY BroadcastEffect DEF PipelineInv, MessageInv
<1>2. \A c \in Queue : pc[c] \notin {"idle", "exited"} => Msg(c)' = Msg(c)
  BY MsgStays DEF PipelineInv
<1>3. "stock" \in Queue /\ Reward \subseteq Queue
  BY DEF Queue
<1>4. StockInv'
  BY <1>2, <1>3, StockFrame DEF PipelineInv, DbStep
<1>5. RewardInv'
  BY <1>2, <1>3, RewardFrame DEF PipelineInv
<1>6. TxInv'
  BY <1>2, <1>3, TxFrame DEF PipelineInv
<1>7. QED
  BY <1>1, <1>4, <1>5, <1>6

\* The row CreateOrder inserts belongs to no message yet.
LEMMA InsertOrderKeeps ==
    ASSUME TypeOK, PipelineInv, NEW o \in Order, InsertOrder(o)
    PROVE  MessageInv' /\ StockInv' /\ RewardInv' /\ TxInv'
<1>1. status[o] = 0
  BY DEF InsertOrder, PipelineInv, RowInv, RowConsistent, Unwritten
<1>2. /\ UNCHANGED <<step, granted, queue, pc, tx, deducted>>
      /\ status' = [status EXCEPT ![o] = 1]
  BY DEF InsertOrder
<1>3. MessageInv'
  BY <1>2 DEF PipelineInv, MessageInv, TypeOK
<1>4. \A c \in Queue : pc[c] \notin {"idle", "exited"}
          => Msg(c)' = Msg(c) /\ status'[Msg(c)] = status[Msg(c)]
  <2> SUFFICES ASSUME NEW c \in Queue, pc[c] \notin {"idle", "exited"}
               PROVE  Msg(c)' = Msg(c) /\ status'[Msg(c)] = status[Msg(c)]
    OBVIOUS
  <2>1. Msg(c) \in Order /\ status[Msg(c)] # 0
    BY InFlightOrder DEF PipelineInv
  <2>2. QED
    BY <1>1, <1>2, <2>1 DEF TypeOK, Msg
<1>5. "stock" \in Queue /\ Reward \subseteq Queue
  BY DEF Queue
<1>6. StockInv'
  BY <1>2, <1>4, <1>5, StockFrame DEF PipelineInv, DbStep
<1>7. RewardInv'
  BY <1>2, <1>4, <1>5, RewardFrame DEF PipelineInv
<1>8. TxInv'
  BY <1>2, <1>4, <1>5, TxFrame DEF PipelineInv
<1>9. QED
  BY <1>3, <1>6, <1>7, <1>8

\* A consumer that only moves on, touching no row and no transaction.
LEMMA MoveKeeps ==
    ASSUME TypeOK, PipelineInv, NEW c \in Queue, NEW s, Goto(c, s),
           UNCHANGED <<status, step, granted, queue, deducted>>,
           s \notin {"mark", "delPoints", "delNotify", "commit"},
           c = "stock" =>
               /\ tx' = {}
               /\ s \in DbStep \ {"check"} => /\ status[Msg("stock")] = 1
                                               /\ step["stock"][Msg("stock")] = 0,
           c # "stock" => UNCHANGED tx
    PROVE  MessageInv' /\ StockInv' /\ RewardInv' /\ TxInv'
<1>1. MessageInv'
  BY DEF PipelineInv, MessageInv
<1>2. pc'[c] = s /\ \A q \in Queue : q # c => pc'[q] = pc[q]
  BY GotoEffect
<1>3. "stock" \in Queue /\ Reward \subseteq Queue /\ "stock" \notin Reward
  BY DEF Queue, Reward
<1>4. \A q \in Queue : Msg(q)' = Msg(q)
  BY DEF Msg
<1>5. StockInv'
  BY <1>2, <1>3, <1>4 DEF PipelineInv, StockInv
<1>6. RewardInv'
  BY <1>2, <1>3, <1>4, RewardFrame DEF PipelineInv
<1>7. TxInv'
  BY <1>2, <1>3, <1>4 DEF PipelineInv, TxInv
<1>8. QED
  BY <1>1, <1>5, <1>6, <1>7

\* The precheck lets the stock consumer go on only with an order that is
\* still processing: a completed one has its stock column set.
LEMMA CheckKeeps ==
    ASSUME TypeOK, PipelineInv, NEW c \in Queue, OrderStepDone(c)
    PROVE  MessageInv' /\ StockInv' /\ RewardInv' /\ TxInv'
<1>1. PICK s \in {"ack", "work"} : Goto(c, s) /\ (s = "work" => ~StepDone(c, Msg(c)))
  BY DEF OrderStepDone
<1>2. Msg(c) \in Order
  BY InFlightOrder DEF PipelineInv, OrderStepDone
<1>3. ASSUME c = "stock"
      PROVE  /\ tx = {}
             /\ s = "work" => status[Msg(c)] = 1 /\ step[c][Msg(c)] = 0
  <2>1. tx = {}
    BY <1>3 DEF PipelineInv, TxInv, OrderStepDone
  <2>2. CASE s = "work"
    <3>1. status[Msg(c)] \in {1, 2} /\ step[c][Msg(c)] = 0
      BY <1>1, <1>2, <2>2 DEF StepDone, TypeOK
    <3>2. status[Msg(c)] # 2
      BY <1>2, <3>1 DEF PipelineInv, RowInv, RowConsistent
    <3>3. QED
      BY <2>1, <3>1, <3>2
  <2>3. QED
    BY <2>1, <2>2
<1>4. /\ UNCHANGED <<status, step, granted, queue, tx, deducted>>
      /\ s \notin {"mark", "delPoints", "delNotify", "commit"}
      /\ s = "work" <=> s \in DbStep \ {"check"}
  BY <1>1 DEF OrderStepDone, database, DbStep
<1>5. QED
  BY <1>1, <1>3, <1>4, MoveKeeps

\* Deducting and marking are steps of one handler on one order.
LEMMA DeductKeeps ==
    ASSUME TypeOK, PipelineInv, DeductProductStock
    PROVE  MessageInv' /\ StockInv' /\ RewardInv' /\ TxInv'
<1>1. /\ UNCHANGED <<status, step, granted, queue, tx>>
      /\ pc["stock"] = "work"
      /\ deducted' = [deducted EXCEPT ![Msg("stock")] = @ + 1]
      /\ Goto("stock", "mark")
  BY DEF DeductProductStock
<1>2. Msg("stock") \in Order /\ "stock" \in Queue
  BY <1>1, InFlightOrder DEF PipelineInv, Queue
<1>3. pc'["stock"] = "mark" /\ \A r \in Reward : pc'[r] = pc[r]
  BY <1>1, <1>2, GotoEffect DEF Queue, Reward
<1>4. deducted'[Msg("stock")] >= 1
  BY <1>1, <1>2 DEF TypeOK
<1>5. MessageInv'
  BY <1>1 DEF PipelineInv, MessageInv
<1>6. StockInv'
  BY <1>1, <1>3, <1>4 DEF PipelineInv, StockInv, Msg, DbStep
<1>7. RewardInv'
  BY <1>1, <1>3, RewardFrame DEF PipelineInv, Msg
<1>8. TxInv'
  BY <1>1, <1>3 DEF PipelineInv, TxInv
<1>9. QED
  BY <1>5, <1>6, <1>7, <1>8

\* The insert waits for the row lock, so it never adds a reward behind the
\* back of an open cancellation.
LEMMA InsertRewardKeeps ==
    ASSUME TypeOK, PipelineInv, NEW r \in Reward, InsertReward(r)
    PROVE  MessageInv' /\ StockInv' /\ RewardInv' /\ TxInv'
<1>1. /\ UNCHANGED <<status, step, queue, tx, deducted>>
      /\ pc[r] = "work"
      /\ granted' = IF status[Msg(r)] = 1
                    THEN [granted EXCEPT ![r] = @ \cup {Msg(r)}] ELSE granted
      /\ Goto(r, "mark")
      /\ ~("orders" \in tx /\ Msg(r) = Msg("stock"))
  BY DEF InsertReward, Rewardable, RowLocked
<1>2. r \in Queue /\ r # "stock" /\ "stock" \in Queue /\ Reward \subseteq Queue
  BY DEF Queue, Reward
<1>3. Msg(r) \in Order /\ status[Msg(r)] # 0
  BY <1>1, <1>2, InFlightOrder DEF PipelineInv
<1>4. pc'[r] = "mark" /\ \A q \in Queue : q # r => pc'[q] = pc[q]
  BY <1>1, <1>2, GotoEffect
<1>5. \A q \in Queue : Msg(q)' = Msg(q)
  BY <1>1 DEF Msg
<1>6. \A q \in Reward : /\ granted[q] \subseteq granted'[q]
                        /\ granted'[q] \subseteq granted[q] \cup {Msg(r)}
  BY <1>1 DEF TypeOK
<1>7. status[Msg(r)] # 3 => Msg(r) \in granted'[r]
  <2>1. status[Msg(r)] \in 1..3
    BY <1>3 DEF TypeOK
  <2>2. CASE status[Msg(r)] = 1
    BY <1>1, <2>2 DEF TypeOK
  <2>3. CASE status[Msg(r)] = 2
    BY <1>1, <1>2, <1>3, <2>3 DEF PipelineInv, RowInv, RowConsistent
  <2>4. QED
    BY <2>1, <2>2, <2>3
<1>8. MessageInv'
  BY <1>1 DEF PipelineInv, MessageInv
<1>9. StockInv'
  BY <1>1, <1>2, <1>4, <1>5, StockFrame DEF PipelineInv
<1>10. RewardInv'
  BY <1>1, <1>2, <1>4, <1>5, <1>6, <1>7 DEF PipelineInv, RewardInv
<1>11. TxInv'
  BY <1>1, <1>2, <1>4, <1>5, <1>6, TxFrame DEF PipelineInv, TxInv
<1>12. QED
  BY <1>8, <1>9, <1>10, <1>11

\* Writing a column changes no row of the stock consumer's order but its own
\* step: an order whose stock column is 0 cannot complete.
LEMMA MarkKeeps ==
    ASSUME TypeOK, PipelineInv, NEW c \in Queue, MarkOrderStepDone(c)
    PROVE  MessageInv' /\ StockInv' /\ RewardInv' /\ TxInv'
<1>1. /\ UNCHANGED <<granted, queue, tx, deducted>>
      /\ pc[c] = "mark"
      /\ step' = [step EXCEPT ![c][Msg(c)] = 1]
      /\ status' = [status EXCEPT ![Msg(c)] = StatusAfter(Msg(c), step')]
      /\ Goto(c, "ack")
  BY DEF MarkOrderStepDone
<1>2. "stock" \in Queue /\ Reward \subseteq Queue /\ "stock" \notin Reward
  BY DEF Queue, Reward
<1>3. Msg(c) \in Order /\ status[Msg(c)] # 0
  BY <1>1, InFlightOrder DEF PipelineInv
<1>4. pc'[c] = "ack" /\ \A q \in Queue : q # c => pc'[q] = pc[q]
  BY <1>1, GotoEffect
<1>5. \A q \in Queue : Msg(q)' = Msg(q)
  BY <1>1 DEF Msg
<1>6. \A o \in Order : /\ status[o] # 0 => status'[o] # 0
                       /\ status'[o] # 3 => status[o] # 3
  BY <1>1, <1>3 DEF TypeOK, StatusAfter
<1>7. \A o \in Order : c # "stock" /\ status[o] = 1 /\ step["stock"][o] = 0
                       => status'[o] = 1 /\ step'["stock"][o] = 0
  BY <1>1, <1>2, <1>3 DEF TypeOK, StatusAfter
<1>8. MessageInv'
  <2> SUFFICES ASSUME NEW q \in Queue, NEW i \in DOMAIN queue[q]
               PROVE  status'[queue[q][i]] # 0
    BY <1>1 DEF MessageInv
  <2>1. queue[q][i] \in Order /\ status[queue[q][i]] # 0
    BY ElementOfSeq, LenProperties DEF PipelineInv, MessageInv, TypeOK
  <2>2. QED
    BY <1>6, <2>1
<1>9. StockInv'
  <2>1. CASE c = "stock"
    BY <1>4, <2>1 DEF StockInv, DbStep
  <2>2. CASE c # "stock" /\ pc["stock"] \in DbStep \ {"check"}
    <3>1. Msg("stock") \in Order
      BY <1>2, <2>2, InFlightOrder DEF PipelineInv, DbStep
    <3>2. QED
      BY <1>1, <1>2, <1>4, <1>5, <1>7, <2>2, <3>1 DEF PipelineInv, StockInv
  <2>3. CASE c # "stock" /\ pc["stock"] \notin DbStep \ {"check"}
    BY <1>2, <1>4, <2>3, StockFrame DEF PipelineInv
  <2>4. QED
    BY <2>1, <2>2, <2>3
<1>10. RewardInv'
  <2> SUFFICES ASSUME NEW r \in Reward, pc'[r] = "mark", status'[Msg(r)] # 3
               PROVE  Msg(r) \in granted[r]
    BY <1>1, <1>2, <1>5 DEF RewardInv
  <2>1. pc[r] = "mark"
    BY <1>2, <1>4
  <2>2. Msg(r) \in Order
    BY <1>2, <2>1, InFlightOrder DEF PipelineInv
  <2>3. QED
    BY <1>6, <2>1, <2>2 DEF PipelineInv, RewardInv
<1>11. TxInv'
  <2>1. CASE c = "stock"
    BY <1>1, <1>4, <2>1 DEF PipelineInv, TxInv
  <2>2. CASE c # "stock"
    BY <1>1, <1>2, <1>4, <1>5, <2>2, TxFrame DEF PipelineInv
  <2>3. QED
    BY <2>1, <2>2
<1>12. QED
  BY <1>8, <1>9, <1>10, <1>11

\* Inside the transaction: the row is held, what is found is deleted.
LEMMA CancelKeeps ==
    ASSUME TypeOK, PipelineInv, CancelOrder \/ DeletePoints \/ DeleteNotification
    PROVE  MessageInv' /\ StockInv' /\ RewardInv' /\ TxInv'
<1>1. /\ UNCHANGED <<status, step, granted, queue, deducted>>
      /\ pc["stock"] \in {"cancel", "delPoints", "delNotify"}
  BY DEF CancelOrder, DeletePoints, DeleteNotification, DeleteReward, database
<1>2. "stock" \in Queue /\ Reward \subseteq Queue /\ "stock" \notin Reward
  BY DEF Queue, Reward
<1>3. \A q \in Queue : Msg(q)' = Msg(q)
  BY <1>1 DEF Msg
<1>4. PICK s \in {"delPoints", "delNotify", "commit"} : Goto("stock", s)
  BY DEF CancelOrder, DeletePoints, DeleteNotification, DeleteReward
<1>5. pc'["stock"] = s /\ \A q \in Queue : q # "stock" => pc'[q] = pc[q]
  BY <1>2, <1>4, GotoEffect
<1>6. MessageInv'
  BY <1>1 DEF PipelineInv, MessageInv
<1>7. StockInv'
  BY <1>1, <1>2, <1>3, <1>5 DEF PipelineInv, StockInv, DbStep
<1>8. RewardInv'
  BY <1>1, <1>2, <1>3, <1>5, RewardFrame DEF PipelineInv
<1>9. TxInv'
  <2>1. CASE CancelOrder
    <3>1. pc'["stock"] = "delPoints" /\ tx' = {"orders"}
      BY <1>2, <2>1, GotoEffect DEF CancelOrder
    <3>2. QED
      BY <3>1 DEF TxInv
  <2>2. CASE DeletePoints
    <3>1. /\ pc["stock"] = "delPoints"
          /\ pc'["stock"] = "delNotify"
          /\ tx' = IF Msg("stock") \in granted["points"] THEN tx \cup {"points"} ELSE tx
      BY <1>2, <2>2, GotoEffect DEF DeletePoints, DeleteReward
    <3>2. QED
      BY <1>1, <1>2, <1>3, <3>1 DEF PipelineInv, TxInv
  <2>3. CASE DeleteNotification
    <3>1. /\ pc["stock"] = "delNotify"
          /\ pc'["stock"] = "commit"
          /\ tx' = IF Msg("stock") \in granted["notify"] THEN tx \cup {"notify"} ELSE tx
      BY <1>2, <2>3, GotoEffect DEF DeleteNotification, DeleteReward
    <3>2. QED
      BY <1>1, <1>2, <1>3, <3>1 DEF PipelineInv, TxInv
  <2>4. QED
    BY <2>1, <2>2, <2>3
<1>10. QED
  BY <1>6, <1>7, <1>8, <1>9

\* When the transaction commits it has deleted every reward of the order.
LEMMA CommitDeletes ==
    ASSUME PipelineInv, CommitCancel
    PROVE  \A r \in Reward : Msg("stock") \in granted[r] => r \in tx
<1>1. pc["stock"] = "commit"
  BY DEF CommitCancel
<1>2. /\ Msg("stock") \in granted["points"] => "points" \in tx
      /\ Msg("stock") \in granted["notify"] => "notify" \in tx
  BY <1>1 DEF PipelineInv, TxInv
<1>3. QED
  BY <1>2 DEF Reward

LEMMA CommitKeeps ==
    ASSUME TypeOK, PipelineInv, CommitCancel
    PROVE  MessageInv' /\ StockInv' /\ RewardInv' /\ TxInv'
<1>1. /\ UNCHANGED <<queue, deducted>>
      /\ pc["stock"] = "commit"
      /\ status' = [status EXCEPT ![Msg("stock")] = 3]
      /\ granted' = [r \in Reward |-> IF r \in tx THEN granted[r] \ {Msg("stock")}
                                                  ELSE granted[r]]
      /\ tx' = {}
      /\ Goto("stock", "ack")
  BY DEF CommitCancel
<1>2. "stock" \in Queue /\ Reward \subseteq Queue /\ "stock" \notin Reward
  BY DEF Queue, Reward
<1>3. Msg("stock") \in Order
  BY <1>1, <1>2, InFlightOrder DEF PipelineInv
<1>4. pc'["stock"] = "ack" /\ \A r \in Reward : pc'[r] = pc[r]
  BY <1>1, <1>2, GotoEffect
<1>5. \A q \in Queue : Msg(q)' = Msg(q)
  BY <1>1 DEF Msg
<1>6. \A o \in Order : /\ status[o] # 0 => status'[o] # 0
                       /\ o # Msg("stock") => status'[o] = status[o]
                       /\ o = Msg("stock") => status'[o] = 3
  BY <1>1, <1>3 DEF TypeOK
<1>7. MessageInv'
  <2> SUFFICES ASSUME NEW q \in Queue, NEW i \in DOMAIN queue[q]
               PROVE  status'[queue[q][i]] # 0
    BY <1>1 DEF MessageInv
  <2>1. queue[q][i] \in Order /\ status[queue[q][i]] # 0
    BY ElementOfSeq, LenProperties DEF PipelineInv, MessageInv, TypeOK
  <2>2. QED
    BY <1>6, <2>1
<1>8. StockInv'
  BY <1>4 DEF StockInv, DbStep
<1>9. RewardInv'
  <2> SUFFICES ASSUME NEW r \in Reward, pc'[r] = "mark", status'[Msg(r)] # 3
               PROVE  Msg(r) \in granted'[r]
    BY <1>1, <1>2, <1>5 DEF RewardInv
  <2>1. pc[r] = "mark"
    BY <1>4
  <2>2. Msg(r) \in Order
    BY <1>2, <2>1, InFlightOrder DEF PipelineInv
  <2>3. Msg(r) # Msg("stock") /\ status[Msg(r)] # 3
    BY <1>6, <2>2
  <2>4. QED
    BY <1>1, <2>1, <2>3 DEF PipelineInv, RewardInv
<1>10. TxInv'
  BY <1>1, <1>4 DEF TxInv
<1>11. QED
  BY <1>7, <1>8, <1>9, <1>10

\* Settling moves on to the next message of one queue.
LEMMA SettleKeeps ==
    ASSUME TypeOK, PipelineInv, NEW c \in Queue, Settle(c)
    PROVE  MessageInv' /\ StockInv' /\ RewardInv' /\ TxInv'
<1>1. /\ UNCHANGED <<status, step, granted, tx, deducted>>
      /\ pc[c] \in {"ack", "nack"}
      /\ queue' = [queue EXCEPT ![c] = Tail(@)]
      /\ Goto(c, "idle")
  BY DEF Settle, database
<1>2. "stock" \in Queue /\ Reward \subseteq Queue /\ "stock" \notin Reward
  BY DEF Queue, Reward
<1>3. queue[c] \in Seq(Order) /\ queue[c] # <<>>
  BY <1>1 DEF PipelineInv, InFlight, TypeOK
<1>4. pc'[c] = "idle" /\ \A q \in Queue : q # c => pc'[q] = pc[q]
  BY <1>1, GotoEffect
<1>5. /\ queue'[c] = Tail(queue[c])
      /\ \A q \in Queue : q # c => queue'[q] = queue[q] /\ Msg(q)' = Msg(q)
  BY <1>1 DEF TypeOK, Msg
<1>6. MessageInv'
  <2> SUFFICES ASSUME NEW q \in Queue, NEW i \in DOMAIN queue'[q]
               PROVE  status[queue'[q][i]] # 0
    BY <1>1 DEF MessageInv
  <2>1. PICK j \in DOMAIN queue[q] : queue'[q][i] = queue[q][j]
    <3>1. CASE q = c
      <4>1. queue'[q] = Tail(queue[c]) /\ queue[q] = queue[c]
        BY <1>5, <3>1
      <4>2. \A k \in DOMAIN Tail(queue[c]) :
               \E j \in DOMAIN queue[c] : Tail(queue[c])[k] = queue[c][j]
        BY <1>3, TailEffect
      <4>3. QED
        BY <4>1, <4>2, Zenon
    <3>2. CASE q # c
      <4>1. queue'[q] = queue[q]
        BY <1>5, <3>2
      <4>2. QED
        BY <4>1, Zenon
    <3>3. QED
      BY <3>1, <3>2
  <2>2. QED
    BY <2>1 DEF PipelineInv, MessageInv
<1>7. StockInv'
  <2>1. CASE c = "stock"
    BY <1>4, <2>1 DEF StockInv, DbStep
  <2>2. CASE c # "stock"
    BY <1>1, <1>2, <1>4, <1>5, <2>2, StockFrame DEF PipelineInv
  <2>3. QED
    BY <2>1, <2>2
<1>8. RewardInv'
  BY <1>1, <1>2, <1>4, <1>5, RewardFrame DEF PipelineInv
<1>9. TxInv'
  <2>1. CASE c = "stock"
    BY <1>1, <1>4, <2>1 DEF PipelineInv, TxInv
  <2>2. CASE c # "stock"
    BY <1>1, <1>2, <1>4, <1>5, <2>2, TxFrame DEF PipelineInv
  <2>3. QED
    BY <2>1, <2>2
<1>10. QED
  BY <1>6, <1>7, <1>8, <1>9

\* A crash or a restart leaves no handler at work and no transaction open.
LEMMA ProcessKeeps ==
    ASSUME TypeOK, PipelineInv, Crash \/ Restart, InFlight'
    PROVE  MessageInv' /\ StockInv' /\ RewardInv' /\ TxInv'
<1>1. /\ UNCHANGED <<status, step, granted, queue, deducted>>
      /\ \A c \in Queue : pc'[c] \in {"idle", "exited"}
      /\ "stock" \in Queue /\ Reward \subseteq Queue
  BY DEF Crash, Restart, database, Queue
<1>2. MessageInv'
  BY <1>1 DEF PipelineInv, MessageInv
<1>3. StockInv' /\ RewardInv'
  BY <1>1 DEF StockInv, RewardInv, DbStep
<1>4. TxInv'
  <2>1. tx' = {}
    BY DEF Crash, Restart, PipelineInv, ProcInv, TxInv, Queue
  <2>2. QED
    BY <1>1, <2>1 DEF TxInv
<1>5. QED
  BY <1>2, <1>3, <1>4

\* A failed call ends the handler and rolls its transaction back.
LEMMA DbFailsKeeps ==
    ASSUME TypeOK, PipelineInv, NEW c \in Queue, DbFails(c)
    PROVE  MessageInv' /\ StockInv' /\ RewardInv' /\ TxInv'
<1>1. /\ Goto(c, "nack")
      /\ UNCHANGED <<status, step, granted, queue, deducted>>
      /\ tx' = IF c = "stock" THEN {} ELSE tx
  BY DEF DbFails, database
<1>2. "nack" \notin DbStep
  BY DEF DbStep
<1>3. QED
  BY <1>1, <1>2, MoveKeeps

\* Moves that need nothing of the order.
LEMMA IdleKeeps ==
    ASSUME TypeOK, PipelineInv, NEW c \in Queue, Deliver(c) \/ LeaveLoop(c)
    PROVE  MessageInv' /\ StockInv' /\ RewardInv' /\ TxInv'
<1>1. PICK s \in {"check", "exited"} : Goto(c, s)
  BY DEF Deliver, LeaveLoop
<1>2. UNCHANGED <<status, step, granted, queue, tx, deducted>> /\ pc[c] = "idle"
  BY DEF Deliver, LeaveLoop, database
<1>3. c = "stock" => tx' = {}
  BY <1>2 DEF PipelineInv, TxInv
<1>4. s \notin DbStep \ {"check"}
  BY DEF DbStep
<1>5. QED
  BY <1>1, <1>2, <1>3, <1>4, MoveKeeps

\* A refused deduction leads to the cancellation.
LEMMA InsufficientKeeps ==
    ASSUME TypeOK, PipelineInv, StockInsufficient
    PROVE  MessageInv' /\ StockInv' /\ RewardInv' /\ TxInv'
<1>1. /\ Goto("stock", "cancel") /\ pc["stock"] = "work"
      /\ UNCHANGED <<status, step, granted, queue, tx, deducted>>
  BY DEF StockInsufficient, database
<1>2. tx' = {} /\ "stock" \in Queue
  BY <1>1 DEF PipelineInv, TxInv, Queue
<1>3. status[Msg("stock")] = 1 /\ step["stock"][Msg("stock")] = 0
  BY <1>1 DEF PipelineInv, StockInv, DbStep
<1>4. QED
  BY <1>1, <1>2, <1>3, MoveKeeps

\* Every step keeps every row consistent.
LEMMA RowStep ==
    ASSUME TypeOK, PipelineInv, [Next]_vars
    PROVE  RowInv'
<1> USE DEF PipelineInv
<1>1. ASSUME NEW o \in Order, CreateOrder(o)
      PROVE  RowInv'
  BY <1>1, RowCreateOrder
<1>2. ASSUME NEW c \in Queue, Consume(c)
      PROVE  RowInv'
  <2>1. CASE DeductProductStock
    <3>1. Msg("stock") \in Order /\ status[Msg("stock")] # 0
      BY <2>1, InFlightOrder DEF DeductProductStock, Queue
    <3>2. QED
      BY <2>1, <3>1, RowDeduct
  <2>2. CASE c \in Reward /\ InsertReward(c)
    <3>1. Msg(c) \in Order
      BY <2>2, InFlightOrder DEF InsertReward
    <3>2. QED
      BY <2>2, <3>1, RowInsertReward
  <2>3. CASE MarkOrderStepDone(c)
    <3>1. pc[c] = "mark"
      BY <2>3 DEF MarkOrderStepDone
    <3>2. Msg(c) \in Order /\ status[Msg(c)] # 0
      BY <3>1, InFlightOrder
    <3>3. c = "stock" => status[Msg(c)] = 1 /\ deducted[Msg(c)] >= 1
      BY <3>1 DEF StockInv, DbStep
    <3>4. c \in Reward /\ status[Msg(c)] # 3 => Msg(c) \in granted[c]
      BY <3>1 DEF RewardInv
    <3>5. QED
      BY <2>3, <3>2, <3>3, <3>4, RowMark
  <2>4. CASE CommitCancel
    <3>1. pc["stock"] = "commit"
      BY <2>4 DEF CommitCancel
    <3>2. Msg("stock") \in Order /\ status[Msg("stock")] = 1
      BY <3>1, InFlightOrder DEF StockInv, DbStep, Queue
    <3>3. QED
      BY <2>4, <3>2, CommitDeletes, RowCommit
  <2>5. CASE UNCHANGED <<request, status, step, granted, deducted>>
    BY <2>5, RowUnwritten
  <2>6. QED
    BY <1>2, <2>1, <2>2, <2>3, <2>4, <2>5
    DEF Consume, Handle, Deliver, OrderStepDone, StockInsufficient,
        MarkOrderStockFailed, CancelOrder, DeletePoints, DeleteNotification,
        DeleteReward, DbFails, Settle, LeaveLoop, database
<1>3. CASE UNCHANGED <<request, status, step, granted, deducted>>
  BY <1>3, RowUnwritten
<1>4. QED
  BY <1>1, <1>2, <1>3
  DEF Next, Republish, ProductAdmin, CreateProduct, UpdateProduct, DeleteProduct,
      Stop, Exit, Crash, Restart, Quiescent, database, vars

\* Every step keeps the parts about messages, handlers and the transaction.
LEMMA HandlerStep ==
    ASSUME TypeOK, PipelineInv, InFlight', [Next]_vars
    PROVE  MessageInv' /\ StockInv' /\ RewardInv' /\ TxInv'
<1>1. ASSUME UNCHANGED <<status, step, granted, queue, pc, tx, deducted>>
      PROVE  MessageInv' /\ StockInv' /\ RewardInv' /\ TxInv'
  BY <1>1 DEF PipelineInv, MessageInv, StockInv, RewardInv, TxInv, Msg
<1>2. ASSUME NEW o \in Order, CreateOrder(o) \/ Republish(o)
      PROVE  MessageInv' /\ StockInv' /\ RewardInv' /\ TxInv'
  <2>1. CASE InsertOrder(o)
    BY <2>1, InsertOrderKeeps
  <2>2. CASE PublishOrderCreated(o) \/ Republish(o)
    <3>1. status[o] # 0
      BY <2>2 DEF PublishOrderCreated, Republish, PipelineInv, RowInv,
                  RowConsistent, Unwritten
    <3>2. Broadcast(o) /\ UNCHANGED <<status, step, granted, pc, tx, deducted>>
      BY <2>2 DEF PublishOrderCreated, Republish, database
    <3>3. QED
      BY <3>1, <3>2, PublishKeeps
  <2>3. CASE CheckOrder(o) \/ OrderFails(o) \/ PublishFails(o)
    BY <1>1, <2>3 DEF CheckOrder, OrderFails, PublishFails, database
  <2>4. QED
    BY <1>2, <2>1, <2>2, <2>3 DEF CreateOrder
<1>3. ASSUME NEW c \in Queue, Consume(c)
      PROVE  MessageInv' /\ StockInv' /\ RewardInv' /\ TxInv'
  <2>1. CASE Handle(c)
    BY <2>1, CheckKeeps, MarkKeeps, InsertRewardKeeps, DeductKeeps,
       InsufficientKeeps, CancelKeeps, CommitKeeps
    DEF Handle, MarkOrderStockFailed
  <2>2. QED
    BY <1>3, <2>1, IdleKeeps, DbFailsKeeps, SettleKeeps DEF Consume
<1>4. CASE Crash \/ Restart
  BY <1>4, ProcessKeeps
<1>5. QED
  BY <1>1, <1>2, <1>3, <1>4
  DEF Next, ProductAdmin, CreateProduct, UpdateProduct, DeleteProduct, Stop,
      Exit, Quiescent, database, vars

\* A process that is down has no handler at work.
LEMMA ProcStep ==
    ASSUME TypeOK, PipelineInv, [Next]_vars
    PROVE  ProcInv'
<1>1. ASSUME NEW c \in Queue, Consume(c)
      PROVE  ProcInv'
  <2>1. proc # "down"
    BY <1>1 DEF Consume, Handle, Deliver, OrderStepDone, MarkOrderStepDone,
                InsertReward, DeductProductStock, StockInsufficient,
                MarkOrderStockFailed, CancelOrder, DeletePoints,
                DeleteNotification, DeleteReward, CommitCancel, DbFails, Settle,
                LeaveLoop, PipelineInv, ProcInv
  <2>2. UNCHANGED proc
    BY <1>1 DEF Consume, Handle, Deliver, OrderStepDone, MarkOrderStepDone,
                InsertReward, DeductProductStock, StockInsufficient,
                MarkOrderStockFailed, CancelOrder, DeletePoints,
                DeleteNotification, DeleteReward, CommitCancel, DbFails, Settle,
                LeaveLoop
  <2>3. QED
    BY <2>1, <2>2 DEF ProcInv
<1>2. CASE Stop \/ Exit \/ Crash \/ Restart
  BY <1>2 DEF Stop, Exit, Crash, Restart, ProcInv
<1>3. CASE UNCHANGED <<pc, proc>>
  BY <1>3 DEF PipelineInv, ProcInv
<1>4. QED
  BY <1>1, <1>2, <1>3
  DEF Next, CreateOrder, CheckOrder, OrderFails, InsertOrder, PublishOrderCreated,
      PublishFails, Republish, ProductAdmin, CreateProduct, UpdateProduct,
      DeleteProduct, Quiescent, vars

LEMMA InitInv == Init => PipelineInv
BY PipelineAssumption
DEF Init, PipelineInv, InFlight, RowInv, RowConsistent, MessageInv, StockInv,
    RewardInv, TxInv, ProcInv, Unwritten, DbStep, Queue, Reward

LEMMA InvStep ==
    ASSUME TypeOK, PipelineInv, [Next]_vars
    PROVE  TypeOK' /\ PipelineInv'
<1>1. TypeOK' /\ InFlight'
  BY TypeStep, InFlightStep DEF PipelineInv
<1>2. QED
  BY <1>1, RowStep, HandlerStep, ProcStep DEF PipelineInv

-------------------------------------------------------------------------------
(***************************************************************************)
(* The theorems.                                                           *)
(***************************************************************************)
\* The inductive invariant holds in every reachable state, whatever crashes,
\* failures, shutdowns, duplicates and administrators do.
THEOREM PipelineInvariant == Spec => [](TypeOK /\ PipelineInv)
<1>1. Init => TypeOK /\ PipelineInv
  BY InitTypes, InitInv
<1>2. TypeOK /\ PipelineInv /\ [Next]_vars => (TypeOK /\ PipelineInv)'
  BY InvStep
<1>3. QED
  BY <1>1, <1>2, PTL DEF Spec

\* A cancelled order has no reward row (the compensation of
\* MarkOrderStockFailed leaves no orphan).
THEOREM CancelledHasNoRewards == Spec => []NoOrphanRewards
<1>1. TypeOK /\ PipelineInv => NoOrphanRewards
  BY DEF PipelineInv, RowInv, RowConsistent, NoOrphanRewards
<1>2. QED
  BY <1>1, PipelineInvariant, PTL

\* A completed order had its stock deducted and has both reward rows.
THEOREM CompletedHasEverything == Spec => []CompletedIsWhole
<1>1. TypeOK /\ PipelineInv => CompletedIsWhole
  <2> SUFFICES ASSUME PipelineInv, NEW o \in Order, status[o] = 2
               PROVE  deducted[o] >= 1 /\ \A r \in Reward : o \in granted[r]
    BY DEF CompletedIsWhole
  <2>1. RowConsistent(o)
    BY DEF PipelineInv, RowInv
  <2>2. \A c \in Queue : step[c][o] = 1
    BY <2>1 DEF RowConsistent
  <2>3. QED
    BY <2>1, <2>2 DEF RowConsistent, Queue
<1>2. QED
  BY <1>1, PipelineInvariant, PTL

\* No order is left processing with all three step columns written.
THEOREM CompletionIsNeverMissed == Spec => []CompletionNotMissed
<1>1. TypeOK /\ PipelineInv => CompletionNotMissed
  BY DEF PipelineInv, RowInv, RowConsistent, CompletionNotMissed
<1>2. QED
  BY <1>1, PipelineInvariant, PTL

\* How one step may change a row's status and rewards: only InsertOrder,
\* MarkOrderStepDone, InsertReward and CommitCancel change them at all.
LEMMA RowChanges ==
    ASSUME TypeOK, PipelineInv, [Next]_vars
    PROVE  \/ UNCHANGED <<status, granted>>
           \/ \E o \in Order : InsertOrder(o) /\ status[o] = 0
           \/ \E c \in Queue : MarkOrderStepDone(c) /\ Msg(c) \in Order
           \/ \E r \in Reward : InsertReward(r) /\ Msg(r) \in Order
           \/ CommitCancel /\ Msg("stock") \in Order /\ status[Msg("stock")] = 1
<1>1. ASSUME NEW o \in Order, InsertOrder(o)
      PROVE  status[o] = 0
  BY <1>1 DEF InsertOrder, PipelineInv, RowInv, RowConsistent, Unwritten
<1>2. ASSUME CommitCancel
      PROVE  Msg("stock") \in Order /\ status[Msg("stock")] = 1
  BY <1>2, InFlightOrder DEF CommitCancel, PipelineInv, StockInv, DbStep, Queue
<1>3. ASSUME NEW c \in Queue, Consume(c)
      PROVE  \/ UNCHANGED <<status, granted>>
             \/ MarkOrderStepDone(c)
             \/ c \in Reward /\ InsertReward(c)
             \/ CommitCancel
  BY <1>3 DEF Consume, Handle, Deliver, OrderStepDone, DeductProductStock,
              StockInsufficient, MarkOrderStockFailed, CancelOrder, DeletePoints,
              DeleteNotification, DeleteReward, DbFails, Settle, LeaveLoop, database
<1>4. ASSUME NEW o \in Order, CreateOrder(o)
      PROVE  UNCHANGED <<status, granted>> \/ InsertOrder(o)
  BY <1>4 DEF CreateOrder, CheckOrder, OrderFails, PublishOrderCreated, PublishFails, database
<1>5. CASE \E o \in Order : CreateOrder(o)
  BY <1>1, <1>4, <1>5
<1>6. ASSUME NEW q \in Queue, Consume(q)
      PROVE  \/ UNCHANGED <<status, granted>>
             \/ \E c \in Queue : MarkOrderStepDone(c) /\ Msg(c) \in Order
             \/ \E r \in Reward : InsertReward(r) /\ Msg(r) \in Order
             \/ CommitCancel /\ Msg("stock") \in Order /\ status[Msg("stock")] = 1
  <2>1. CASE MarkOrderStepDone(q)
    <3>1. Msg(q) \in Order
      BY <2>1, InFlightOrder DEF MarkOrderStepDone, PipelineInv
    <3>2. \E c \in Queue : MarkOrderStepDone(c) /\ Msg(c) \in Order
      BY <2>1, <3>1 DEF MarkOrderStepDone, Msg
    <3>3. QED
      BY <3>2
  <2>2. CASE q \in Reward /\ InsertReward(q)
    <3>1. Msg(q) \in Order
      BY <2>2, InFlightOrder DEF InsertReward, PipelineInv
    <3>2. \E r \in Reward : InsertReward(r) /\ Msg(r) \in Order
      BY <2>2, <3>1 DEF InsertReward, Msg
    <3>3. QED
      BY <3>2
  <2>3. CASE CommitCancel
    BY <1>2, <2>3
  <2>4. CASE UNCHANGED <<status, granted>>
    BY <2>4
  <2>5. QED
    BY <1>3, <1>6, <2>1, <2>2, <2>3, <2>4
<1>7. QED
  BY <1>5, <1>6
  DEF Next, Republish, ProductAdmin, CreateProduct, UpdateProduct, DeleteProduct,
      Stop, Exit, Crash, Restart, Quiescent, database, vars

\* What a written column does to the status.
LEMMA MarkStatus ==
    ASSUME TypeOK, NEW c \in Queue, MarkOrderStepDone(c), Msg(c) \in Order
    PROVE  /\ UNCHANGED granted
           /\ \A o \in Order : o # Msg(c) => status'[o] = status[o]
           /\ status'[Msg(c)] # status[Msg(c)] =>
                 /\ status[Msg(c)] = 1
                 /\ status'[Msg(c)] = 2
                 /\ \A q \in Queue : step'[q][Msg(c)] = 1
BY DEF MarkOrderStepDone, StatusAfter, TypeOK

\* Completed and cancelled orders stay what they are.
THEOREM EndsAreFinalHolds == Spec => EndsAreFinal
<1>1. TypeOK /\ PipelineInv /\ [Next]_vars
        => [\A o \in Order : status[o] \in {2, 3} => status'[o] = status[o]]_status
  <2> SUFFICES ASSUME TypeOK, PipelineInv, [Next]_vars,
                      NEW o \in Order, status[o] \in {2, 3}
               PROVE  status'[o] = status[o]
    OBVIOUS
  <2>1. ASSUME NEW x \in Order, InsertOrder(x), status[x] = 0
        PROVE  status'[o] = status[o]
    BY <2>1 DEF InsertOrder, TypeOK
  <2>2. ASSUME NEW c \in Queue, MarkOrderStepDone(c), Msg(c) \in Order
        PROVE  status'[o] = status[o]
    BY <2>2, MarkStatus
  <2>3. ASSUME NEW r \in Reward, InsertReward(r)
        PROVE  status'[o] = status[o]
    BY <2>3 DEF InsertReward
  <2>4. CASE CommitCancel /\ Msg("stock") \in Order /\ status[Msg("stock")] = 1
    BY <2>4 DEF CommitCancel, TypeOK
  <2>5. QED
    BY <2>1, <2>2, <2>3, <2>4, RowChanges
<1>2. QED
  BY <1>1, PipelineInvariant, PTL DEF Spec, EndsAreFinal

\* A reward row disappears only in the step that shows the cancellation.
THEOREM RewardsLeaveOnlyByCancellingHolds == Spec => RewardsLeaveOnlyByCancelling
<1>1. TypeOK /\ PipelineInv /\ [Next]_vars
        => [\A o \in Order, r \in Reward :
               o \in granted[r] /\ o \notin granted'[r]
                 => status[o] = 1 /\ status'[o] = 3 /\ step'["stock"][o] = 2]_vars
  <2> SUFFICES ASSUME TypeOK, PipelineInv, [Next]_vars, NEW o \in Order,
                      NEW r \in Reward, o \in granted[r], o \notin granted'[r]
               PROVE  status[o] = 1 /\ status'[o] = 3 /\ step'["stock"][o] = 2
    OBVIOUS
  <2>1. ASSUME NEW x \in Order, InsertOrder(x)
        PROVE  FALSE
    BY <2>1 DEF InsertOrder
  <2>2. ASSUME NEW c \in Queue, MarkOrderStepDone(c)
        PROVE  FALSE
    BY <2>2 DEF MarkOrderStepDone
  <2>3. ASSUME NEW q \in Reward, InsertReward(q)
        PROVE  FALSE
    BY <2>3 DEF InsertReward, TypeOK
  <2>4. CASE CommitCancel /\ Msg("stock") \in Order /\ status[Msg("stock")] = 1
    <3>1. o = Msg("stock")
      BY <2>4 DEF CommitCancel, TypeOK
    <3>2. QED
      BY <2>4, <3>1 DEF CommitCancel, TypeOK, Queue
  <2>5. QED
    BY <2>1, <2>2, <2>3, <2>4, RowChanges
<1>2. QED
  BY <1>1, PipelineInvariant, PTL DEF Spec, RewardsLeaveOnlyByCancelling

-------------------------------------------------------------------------------
(***************************************************************************)
(* Deductions that the order row does not account for.                     *)
(***************************************************************************)
LEMMA SpendEffect ==
    ASSUME TypeOK, NEW d \in Disturbance, Spend(d)
    PROVE  /\ Interruptions \in Nat
           /\ Interruptions' = Interruptions + (IF d \in {"crash", "db", "stop"} THEN 1 ELSE 0)
<1>1. /\ used["crash"] \in Nat /\ used["db"] \in Nat /\ used["stop"] \in Nat
      /\ used["dup"] \in Nat /\ used["edit"] \in Nat
  BY DEF TypeOK, Disturbance
<1>2. /\ used'["crash"] = used["crash"] + (IF d = "crash" THEN 1 ELSE 0)
      /\ used'["db"] = used["db"] + (IF d = "db" THEN 1 ELSE 0)
      /\ used'["stop"] = used["stop"] + (IF d = "stop" THEN 1 ELSE 0)
  BY <1>1 DEF Spend, TypeOK, Disturbance
<1>3. QED
  BY <1>1, <1>2 DEF Interruptions

\* The bound of one order: what its row, its handler and the interruptions
\* account for.
Accounted(o) == deducted[o] <= Recorded(o) + BeingRecorded(o) + Interruptions

StockHandlerHolds(o) == proc = "up" /\ pc["stock"] = "mark" /\ o = Msg("stock")

LEMMA BoundTypes ==
    ASSUME TypeOK, NEW o \in Order
    PROVE  /\ Interruptions \in Nat /\ deducted[o] \in Nat
           /\ Recorded(o) \in {0, 1} /\ BeingRecorded(o) \in {0, 1}
BY DEF TypeOK, Disturbance, Interruptions, Recorded, BeingRecorded

\* The bound survives a step that neither deducts nor records anything of the
\* order, and takes it out of its handler's hands only by an interruption.
LEMMA AccountedFrame ==
    ASSUME TypeOK, TypeOK', NEW o \in Order, Accounted(o),
           deducted'[o] = deducted[o],
           step'["stock"][o] = step["stock"][o],
           Interruptions' >= Interruptions,
           StockHandlerHolds(o) =>
               StockHandlerHolds(o)' \/ Interruptions' = Interruptions + 1
    PROVE  Accounted(o)'
<1>1. Recorded(o)' = Recorded(o)
  BY DEF Recorded
<1>2. /\ BeingRecorded(o) = IF StockHandlerHolds(o) THEN 1 ELSE 0
      /\ BeingRecorded(o)' = IF StockHandlerHolds(o)' THEN 1 ELSE 0
  BY DEF BeingRecorded, StockHandlerHolds
<1>3. Interruptions' \in Nat
  <2>1. used'["crash"] \in Nat /\ used'["db"] \in Nat /\ used'["stop"] \in Nat
    BY DEF TypeOK, Disturbance
  <2>2. QED
    BY <2>1 DEF Interruptions
<1>4. QED
  BY <1>1, <1>2, <1>3, BoundTypes DEF Accounted

\* Steps of the server, the administrators and the operator.
LEMMA AccountedOutside ==
    ASSUME TypeOK, TypeOK', PipelineInv, NEW o \in Order, Accounted(o),
           UNCHANGED <<step, pc, proc, deducted>>,
           UNCHANGED queue \/ \E x \in Order : Broadcast(x),
           UNCHANGED used \/ Spend("dup") \/ Spend("edit")
    PROVE  Accounted(o)'
<1>1. Interruptions' >= Interruptions
  <2>1. CASE UNCHANGED used
    BY <2>1, BoundTypes DEF Interruptions
  <2>2. CASE Spend("dup")
    BY <2>2, SpendEffect DEF Disturbance
  <2>3. CASE Spend("edit")
    BY <2>3, SpendEffect DEF Disturbance
  <2>4. QED
    BY <2>1, <2>2, <2>3
<1>2. StockHandlerHolds(o) => StockHandlerHolds(o)'
  <2> SUFFICES ASSUME StockHandlerHolds(o)
               PROVE  StockHandlerHolds(o)'
    OBVIOUS
  <2>1. Msg("stock")' = Msg("stock")
    BY MsgStays DEF StockHandlerHolds, PipelineInv, Queue
  <2>2. QED
    BY <2>1 DEF StockHandlerHolds
<1>3. QED
  BY <1>1, <1>2, AccountedFrame

\* Steps of a goroutine that neither take stock nor write the stock column.
LEMMA AccountedMove ==
    ASSUME TypeOK, TypeOK', NEW o \in Order, Accounted(o), NEW c \in Queue,
           pc[c] # "mark" \/ c # "stock",
           \E s \in ConsumerState : Goto(c, s),
           UNCHANGED <<proc, deducted, used>>,
           step'["stock"][o] = step["stock"][o],
           c # "stock" => queue'["stock"] = queue["stock"]
    PROVE  Accounted(o)'
<1>1. Interruptions' >= Interruptions
  BY BoundTypes DEF Interruptions
<1>2. c # "stock" => pc'["stock"] = pc["stock"]
  BY GotoEffect DEF Queue
<1>3. StockHandlerHolds(o) => StockHandlerHolds(o)'
  BY <1>2 DEF StockHandlerHolds, Msg
<1>4. QED
  BY <1>1, <1>3, AccountedFrame

\* Taking the stock: the order is in the handler's hands afterwards.
LEMMA AccountedDeduct ==
    ASSUME TypeOK, TypeOK', PipelineInv, NEW o \in Order, Accounted(o),
           DeductProductStock
    PROVE  Accounted(o)'
<1>1. /\ pc["stock"] = "work" /\ pc'["stock"] = "mark" /\ proc' = "up"
      /\ Msg("stock")' = Msg("stock")
  BY DEF DeductProductStock, Goto, TypeOK, Queue, Msg
<1>2. Recorded(o)' = Recorded(o) /\ Interruptions' = Interruptions
  BY DEF DeductProductStock, Recorded, Interruptions
<1>3. CASE o = Msg("stock")
  <2>1. deducted'[o] = deducted[o] + 1
    BY <1>3 DEF DeductProductStock, TypeOK
  <2>2. BeingRecorded(o) = 0 /\ BeingRecorded(o)' = 1
    BY <1>1, <1>3 DEF BeingRecorded
  <2>3. QED
    BY <1>2, <2>1, <2>2, BoundTypes DEF Accounted
<1>4. CASE o # Msg("stock")
  <2>1. deducted'[o] = deducted[o]
    BY <1>4 DEF DeductProductStock, TypeOK
  <2>2. BeingRecorded(o) = 0 /\ BeingRecorded(o)' = 0
    BY <1>1, <1>4 DEF BeingRecorded
  <2>3. QED
    BY <1>2, <2>1, <2>2, BoundTypes DEF Accounted
<1>5. QED
  BY <1>3, <1>4

\* Writing the stock column: the row accounts for what the handler did.
LEMMA AccountedMark ==
    ASSUME TypeOK, TypeOK', PipelineInv, NEW o \in Order, Accounted(o),
           MarkOrderStepDone("stock")
    PROVE  Accounted(o)'
<1>1. /\ pc["stock"] = "mark" /\ pc'["stock"] = "ack"
      /\ UNCHANGED <<deducted, used>>
  BY DEF MarkOrderStepDone, Goto, TypeOK, Queue
<1>2. Interruptions' = Interruptions /\ BeingRecorded(o)' = 0
  BY <1>1 DEF Interruptions, BeingRecorded
<1>3. CASE o = Msg("stock")
  <2>1. step["stock"][o] = 0
    BY <1>1, <1>3 DEF PipelineInv, StockInv, DbStep
  <2>2. step'["stock"][o] = 1
    BY <1>3 DEF MarkOrderStepDone, TypeOK, Queue
  <2>3. Recorded(o) = 0 /\ Recorded(o)' = 1
    BY <2>1, <2>2 DEF Recorded
  <2>4. QED
    BY <1>1, <1>2, <2>3, BoundTypes DEF Accounted
<1>4. CASE o # Msg("stock")
  <2>1. step'["stock"][o] = step["stock"][o]
    BY <1>4 DEF MarkOrderStepDone, TypeOK, Queue
  <2>2. Recorded(o)' = Recorded(o) /\ BeingRecorded(o) = 0
    BY <1>4, <2>1 DEF Recorded, BeingRecorded
  <2>3. QED
    BY <1>1, <1>2, <2>2, BoundTypes DEF Accounted
<1>5. QED
  BY <1>3, <1>4

\* A failed call of the stock handler is an interruption itself, or follows
\* the shutdown that was one.
LEMMA AccountedDbFails ==
    ASSUME TypeOK, TypeOK', PipelineInv, NEW o \in Order, Accounted(o),
           NEW c \in Queue, DbFails(c)
    PROVE  Accounted(o)'
<1>1. UNCHANGED <<step, deducted, proc, queue>> /\ pc'[c] = "nack"
      /\ \A q \in Queue : q # c => pc'[q] = pc[q]
  BY DEF DbFails, Goto, database, TypeOK
<1>2. CASE proc = "up" /\ Spend("db")
  <2>1. Interruptions \in Nat /\ Interruptions' = Interruptions + 1
    BY <1>2, SpendEffect DEF Disturbance
  <2>2. QED
    BY <1>1, <2>1, AccountedFrame
<1>3. CASE proc = "stopping" /\ UNCHANGED used
  <2>1. Interruptions' >= Interruptions
    BY <1>3, BoundTypes DEF Interruptions
  <2>2. ~StockHandlerHolds(o)
    BY <1>3 DEF StockHandlerHolds
  <2>3. QED
    BY <1>1, <2>1, <2>2, AccountedFrame
<1>4. QED
  BY <1>2, <1>3 DEF DbFails

\* Stopping and crashing interrupt; leaving and restarting find no handler
\* that holds an order.
LEMMA AccountedProcess ==
    ASSUME TypeOK, TypeOK', PipelineInv, NEW o \in Order, Accounted(o),
           Stop \/ Exit \/ Crash \/ Restart
    PROVE  Accounted(o)'
<1>1. UNCHANGED <<step, deducted>>
  BY DEF Stop, Exit, Crash, Restart, database
<1>2. CASE Stop \/ Crash
  <2>1. Spend("stop") \/ Spend("crash")
    BY <1>2 DEF Stop, Crash
  <2>2. Interruptions \in Nat /\ Interruptions' = Interruptions + 1
    BY <2>1, SpendEffect DEF Disturbance
  <2>3. QED
    BY <1>1, <2>2, AccountedFrame
<1>3. CASE Exit \/ Restart
  <2>1. ~StockHandlerHolds(o) /\ UNCHANGED used
    BY <1>3 DEF Exit, Restart, StockHandlerHolds
  <2>2. Interruptions' >= Interruptions
    BY <2>1, BoundTypes DEF Interruptions
  <2>3. QED
    BY <1>1, <2>1, <2>2, AccountedFrame
<1>4. QED
  BY <1>2, <1>3

LEMMA AccountedConsume ==
    ASSUME TypeOK, TypeOK', PipelineInv, NEW o \in Order, Accounted(o),
           NEW c \in Queue, Consume(c)
    PROVE  Accounted(o)'
<1>1. CASE DeductProductStock
  BY <1>1, AccountedDeduct
<1>2. CASE c = "stock" /\ MarkOrderStepDone(c)
  BY <1>2, AccountedMark
<1>3. CASE DbFails(c)
  BY <1>3, AccountedDbFails
<1>4. CASE CommitCancel
  <2>1. /\ pc["stock"] = "commit" /\ pc'["stock"] = "ack"
        /\ UNCHANGED <<deducted, used>>
    BY <1>4 DEF CommitCancel, Goto, TypeOK, Queue
  <2>2. /\ Interruptions' = Interruptions
        /\ BeingRecorded(o) = 0 /\ BeingRecorded(o)' = 0
    BY <2>1 DEF Interruptions, BeingRecorded
  <2>3. o = Msg("stock") => step["stock"][o] = 0
    BY <2>1 DEF PipelineInv, StockInv, DbStep
  <2>4. o = Msg("stock") => step'["stock"][o] = 2
    BY <1>4 DEF CommitCancel, TypeOK, Queue
  <2>5. o # Msg("stock") => step'["stock"][o] = step["stock"][o]
    BY <1>4 DEF CommitCancel, TypeOK, Queue
  <2>6. Recorded(o)' = Recorded(o)
    BY <2>3, <2>4, <2>5 DEF Recorded
  <2>7. QED
    BY <2>1, <2>2, <2>6, BoundTypes DEF Accounted
<1>5. CASE c # "stock" /\ (MarkOrderStepDone(c) \/ (c \in Reward /\ InsertReward(c)))
  <2>1. \E s \in ConsumerState : Goto(c, s)
    BY <1>5 DEF MarkOrderStepDone, InsertReward, ConsumerState, DbStep
  <2>2. /\ UNCHANGED <<proc, deducted, used, queue>>
        /\ step'["stock"][o] = step["stock"][o]
    BY <1>5 DEF MarkOrderStepDone, InsertReward, TypeOK, Queue
  <2>3. QED
    BY <1>5, <2>1, <2>2, AccountedMove
<1>6. CASE \/ c = "stock" /\ (StockInsufficient \/ CancelOrder \/ DeletePoints
                                \/ DeleteNotification)
           \/ OrderStepDone(c) \/ Deliver(c) \/ LeaveLoop(c) \/ Settle(c)
  <2>1. \E s \in ConsumerState : Goto(c, s)
    BY <1>6 DEF StockInsufficient, CancelOrder, DeletePoints, DeleteNotification,
                DeleteReward, OrderStepDone, Deliver, LeaveLoop, Settle,
                ConsumerState, DbStep
  <2>2. /\ UNCHANGED <<proc, deducted, used, step>>
        /\ pc[c] # "mark"
    BY <1>6 DEF StockInsufficient, CancelOrder, DeletePoints, DeleteNotification,
                DeleteReward, OrderStepDone, Deliver, LeaveLoop, Settle, database
  <2>3. c # "stock" => queue'["stock"] = queue["stock"]
    BY <1>6 DEF StockInsufficient, CancelOrder, DeletePoints, DeleteNotification,
                DeleteReward, OrderStepDone, Deliver, LeaveLoop, Settle, database,
                TypeOK, Queue
  <2>4. QED
    BY <2>1, <2>2, <2>3, AccountedMove
<1>7. c \in Reward => c # "stock"
  BY DEF Reward
<1>8. QED
  BY <1>1, <1>2, <1>3, <1>4, <1>5, <1>6, <1>7
  DEF Consume, Handle, MarkOrderStockFailed

\* Stock that was taken and not recorded was taken in a handler that a crash,
\* a database failure or a shutdown interrupted.
THEOREM UnrecordedDeductionsHaveACause == Spec => []UnrecordedDeductionsAreInterrupted
<1>1. UnrecordedDeductionsAreInterrupted <=> \A o \in Order : Accounted(o)
  BY DEF UnrecordedDeductionsAreInterrupted, Accounted
<1>2. Init => \A o \in Order : Accounted(o)
  <2> SUFFICES ASSUME Init, NEW o \in Order
               PROVE  Accounted(o)
    OBVIOUS
  <2>1. TypeOK /\ deducted[o] = 0
    BY InitTypes DEF Init
  <2>2. QED
    BY <2>1, BoundTypes DEF Accounted
<1>3. /\ TypeOK /\ PipelineInv /\ TypeOK'
      /\ \A o \in Order : Accounted(o)
      /\ [Next]_vars
      => (\A o \in Order : Accounted(o))'
  <2> SUFFICES ASSUME TypeOK, PipelineInv, TypeOK', [Next]_vars, NEW o \in Order,
                      Accounted(o)
               PROVE  Accounted(o)'
    OBVIOUS
  <2>1. ASSUME NEW x \in Order, CreateOrder(x) \/ Republish(x)
        PROVE  Accounted(o)'
    <3>1. /\ UNCHANGED <<step, pc, proc, deducted>>
          /\ UNCHANGED queue \/ Broadcast(x)
          /\ UNCHANGED used \/ Spend("dup") \/ Spend("edit")
      BY <2>1 DEF CreateOrder, CheckOrder, OrderFails, InsertOrder, PublishOrderCreated,
                  PublishFails, Republish, database
    <3>2. UNCHANGED queue \/ \E y \in Order : Broadcast(y)
      BY <3>1 DEF Broadcast
    <3>3. QED
      BY <3>1, <3>2, AccountedOutside
  <2>2. ASSUME NEW p \in Product, ProductAdmin(p)
        PROVE  Accounted(o)'
    <3>1. /\ UNCHANGED <<step, pc, proc, deducted, queue>>
          /\ Spend("edit")
      BY <2>2 DEF ProductAdmin, CreateProduct, UpdateProduct, DeleteProduct
    <3>2. QED
      BY <3>1, AccountedOutside
  <2>3. ASSUME NEW c \in Queue, Consume(c)
        PROVE  Accounted(o)'
    BY <2>3, AccountedConsume
  <2>4. CASE UNCHANGED vars
    BY <2>4, AccountedOutside DEF vars
  <2>5. QED
    BY <2>1, <2>2, <2>3, <2>4, AccountedProcess DEF Next, Quiescent
<1>4. QED
  BY <1>1, <1>2, <1>3, PipelineInvariant, PTL DEF Spec

-------------------------------------------------------------------------------
(***************************************************************************)
(* The pipeline implements the lifecycle.                                  *)
(***************************************************************************)
\* The lifecycle's variables, read off the rows.
Phases == [o \in Order |-> PhaseOf(status[o])]
Rewards == [o \in Order |-> {r \in Reward : o \in granted[r]}]

\* A status names one phase.
LEMMA PhaseNames ==
    /\ PhaseOf(0) = "absent"
    /\ PhaseOf(1) = "processing"
    /\ PhaseOf(2) = "completed"
    /\ PhaseOf(3) = "cancelled"
BY DEF PhaseOf

\* One row changes its status: one order changes its phase.
LEMMA PhaseChanges ==
    ASSUME TypeOK, NEW o \in Order, NEW n \in 0..3,
           status' = [status EXCEPT ![o] = n]
    PROVE  Phases' = [Phases EXCEPT ![o] = PhaseOf(n)]
<1>1. status' \in [Order -> 0..3] /\ status'[o] = n
      /\ \A x \in Order : x # o => status'[x] = status[x]
  BY DEF TypeOK
<1>2. Phases' = [x \in Order |-> PhaseOf(status'[x])]
  BY DEF Phases, PhaseOf
<1>3. QED
  BY <1>1, <1>2 DEF Phases

LEMMA SameRewards ==
    ASSUME UNCHANGED granted
    PROVE  Rewards' = Rewards
BY DEF Rewards

LEMMA SamePhases ==
    ASSUME UNCHANGED status
    PROVE  Phases' = Phases
BY DEF Phases, PhaseOf

\* Inserting the row places the order.
LEMMA InsertOrderPlaces ==
    ASSUME TypeOK, NEW o \in Order, InsertOrder(o), status[o] = 0
    PROVE  \E x \in Order : Lifecycle!Place(x)
<1>1. status' = [status EXCEPT ![o] = 1] /\ UNCHANGED granted
  BY DEF InsertOrder
<1>2. Phases[o] = "absent"
  BY PhaseNames DEF Phases
<1>3. Phases' = [Phases EXCEPT ![o] = "processing"]
  <2>1. 1 \in 0..3
    OBVIOUS
  <2>2. Phases' = [Phases EXCEPT ![o] = PhaseOf(1)]
    BY <1>1, <2>1, PhaseChanges
  <2>3. QED
    BY <2>2, PhaseNames
<1>4. Rewards' = Rewards
  BY <1>1, SameRewards
<1>5. QED
  BY <1>2, <1>3, <1>4 DEF Lifecycle!Place, Phases, Rewards

\* Inserting a reward row grants it, or does nothing.
LEMMA InsertRewardGrants ==
    ASSUME TypeOK, NEW r \in Reward, InsertReward(r), Msg(r) \in Order
    PROVE  \/ \E o \in Order, q \in Reward : Lifecycle!Grant(o, q)
           \/ Phases' = Phases /\ Rewards' = Rewards
<1>1. UNCHANGED status
  BY DEF InsertReward
<1>2. Phases' = Phases
  BY <1>1, SamePhases
<1>3. CASE Rewardable(Msg(r))
  <2>1. Phases[Msg(r)] = "processing"
    BY <1>3, PhaseNames DEF Phases, Rewardable
  <2>2. granted' = [granted EXCEPT ![r] = @ \cup {Msg(r)}]
    BY <1>3 DEF InsertReward
  <2>3. Rewards' = [o \in Order |-> {q \in Reward : o \in granted'[q]}]
    BY DEF Rewards
  <2>4. \A o \in Order : {q \in Reward : o \in granted'[q]}
                           = {q \in Reward : o \in granted[q]}
                                \cup (IF o = Msg(r) THEN {r} ELSE {})
    BY <2>2 DEF TypeOK
  <2>5. Rewards' = [Rewards EXCEPT ![Msg(r)] = @ \cup {r}]
    BY <2>3, <2>4 DEF Rewards
  <2>6. QED
    BY <1>2, <2>1, <2>5 DEF Lifecycle!Grant, Phases, Rewards
<1>4. CASE ~Rewardable(Msg(r))
  <2>1. UNCHANGED granted
    BY <1>4 DEF InsertReward
  <2>2. QED
    BY <1>2, <2>1, SameRewards
<1>5. QED
  BY <1>3, <1>4

\* Writing a column completes the order, or changes nothing a customer sees.
\* The rewards are all there because the row is consistent.
LEMMA MarkCompletes ==
    ASSUME TypeOK, TypeOK', RowInv', NEW c \in Queue, MarkOrderStepDone(c),
           Msg(c) \in Order
    PROVE  \/ \E o \in Order : Lifecycle!Complete(o)
           \/ Phases' = Phases /\ Rewards' = Rewards
<1>1. Rewards' = Rewards /\ UNCHANGED granted
  BY MarkStatus, SameRewards
<1>2. CASE status'[Msg(c)] = status[Msg(c)]
  <2>1. \A o \in Order : status'[o] = status[o]
    BY <1>2, MarkStatus
  <2>2. status' = status
    BY <2>1 DEF TypeOK
  <2>3. QED
    BY <1>1, <2>2, SamePhases
<1>3. CASE status'[Msg(c)] # status[Msg(c)]
  <2>1. /\ status[Msg(c)] = 1 /\ status'[Msg(c)] = 2
        /\ \A q \in Queue : step'[q][Msg(c)] = 1
    BY <1>3, MarkStatus
  <2>2. Phases[Msg(c)] = "processing"
    BY <2>1, PhaseNames DEF Phases
  <2>3. status' = [status EXCEPT ![Msg(c)] = 2]
    BY <2>1, MarkStatus DEF TypeOK
  <2>4. Phases' = [Phases EXCEPT ![Msg(c)] = "completed"]
    <3>1. Phases' = [Phases EXCEPT ![Msg(c)] = PhaseOf(2)]
      BY <2>3, 2 \in 0..3, PhaseChanges
    <3>2. QED
      BY <3>1, PhaseNames
  <2>5. \A r \in Reward : step'[r][Msg(c)] = 1 /\ status'[Msg(c)] # 3
                             => Msg(c) \in granted'[r]
    BY DEF RowInv, RowConsistent
  <2>6. \A r \in Reward : Msg(c) \in granted[r]
    <3>1. \A r \in Reward : r \in Queue
      BY DEF Queue
    <3>2. \A r \in Reward : step'[r][Msg(c)] = 1
      BY <2>1, <3>1
    <3>3. \A r \in Reward : Msg(c) \in granted'[r]
      BY <2>1, <2>5, <3>2
    <3>4. QED
      BY <1>1, <3>3
  <2>7. Rewards[Msg(c)] = Reward
    BY <2>6 DEF Rewards
  <2>8. QED
    BY <1>1, <2>2, <2>4, <2>7 DEF Lifecycle!Complete, Phases, Rewards
<1>4. QED
  BY <1>2, <1>3

\* The commit of the cancel transaction cancels and takes the rewards back.
LEMMA CommitCancels ==
    ASSUME TypeOK, RowInv', CommitCancel, Msg("stock") \in Order,
           status[Msg("stock")] = 1
    PROVE  \E o \in Order : Lifecycle!Cancel(o)
<1> DEFINE x == Msg("stock")
<1>1. status' = [status EXCEPT ![x] = 3] /\ status'[x] = 3
  BY DEF CommitCancel, TypeOK
<1>2. Phases[x] = "processing"
  BY PhaseNames DEF Phases
<1>3. Phases' = [Phases EXCEPT ![x] = "cancelled"]
  <2>1. Phases' = [Phases EXCEPT ![x] = PhaseOf(3)]
    BY <1>1, 3 \in 0..3, PhaseChanges
  <2>2. QED
    BY <2>1, PhaseNames
<1>4. \A r \in Reward : x \notin granted'[r]
  BY <1>1 DEF RowInv, RowConsistent
<1>5. \A o \in Order : o # x =>
          \A r \in Reward : o \in granted'[r] <=> o \in granted[r]
  BY DEF CommitCancel, TypeOK
<1>6. Rewards' = [o \in Order |-> {r \in Reward : o \in granted'[r]}]
  BY DEF Rewards
<1>7. Rewards' = [Rewards EXCEPT ![x] = {}]
  BY <1>4, <1>5, <1>6 DEF Rewards
<1>8. QED
  BY <1>2, <1>3, <1>7 DEF Lifecycle!Cancel, Phases, Rewards

\* The pipeline implements the lifecycle the customer is promised: what the
\* rows show is placed, granted, completed and cancelled in that order only.
THEOREM PipelineImplementsLifecycle == Spec => ImplementsLifecycle
<1>1. Init => Lifecycle!LifecycleInit
  BY PhaseNames DEF Init, Lifecycle!LifecycleInit
<1>2. TypeOK /\ PipelineInv /\ (TypeOK /\ PipelineInv)' /\ [Next]_vars
        => [Lifecycle!LifecycleNext]_(Lifecycle!lifecycleVars)
  <2> SUFFICES ASSUME TypeOK, PipelineInv, TypeOK', PipelineInv', [Next]_vars
               PROVE  Lifecycle!LifecycleNext \/ UNCHANGED Lifecycle!lifecycleVars
    OBVIOUS
  <2>1. RowInv'
    BY DEF PipelineInv
  <2>2. ASSUME Phases' = Phases, Rewards' = Rewards
        PROVE  UNCHANGED Lifecycle!lifecycleVars
    BY <2>2 DEF Lifecycle!lifecycleVars, Phases, Rewards
  <2>3. CASE UNCHANGED <<status, granted>>
    BY <2>2, <2>3, SamePhases, SameRewards
  <2>4. ASSUME NEW o \in Order, InsertOrder(o), status[o] = 0
        PROVE  Lifecycle!LifecycleNext
    BY <2>4, InsertOrderPlaces DEF Lifecycle!LifecycleNext,
        Lifecycle!Place, Lifecycle!Grant, Lifecycle!Complete, Lifecycle!Cancel
  <2>5. ASSUME NEW c \in Queue, MarkOrderStepDone(c), Msg(c) \in Order
        PROVE  Lifecycle!LifecycleNext \/ UNCHANGED Lifecycle!lifecycleVars
    BY <2>1, <2>2, <2>5, MarkCompletes DEF Lifecycle!LifecycleNext,
        Lifecycle!Place, Lifecycle!Grant, Lifecycle!Complete, Lifecycle!Cancel
  <2>6. ASSUME NEW r \in Reward, InsertReward(r), Msg(r) \in Order
        PROVE  Lifecycle!LifecycleNext \/ UNCHANGED Lifecycle!lifecycleVars
    BY <2>2, <2>6, InsertRewardGrants DEF Lifecycle!LifecycleNext,
        Lifecycle!Place, Lifecycle!Grant, Lifecycle!Complete, Lifecycle!Cancel
  <2>7. ASSUME CommitCancel, Msg("stock") \in Order, status[Msg("stock")] = 1
        PROVE  Lifecycle!LifecycleNext
    BY <2>1, <2>7, CommitCancels DEF Lifecycle!LifecycleNext,
        Lifecycle!Place, Lifecycle!Grant, Lifecycle!Complete, Lifecycle!Cancel
  <2>8. QED
    BY <2>3, <2>4, <2>5, <2>6, <2>7, RowChanges
<1>3. QED
  BY <1>1, <1>2, PipelineInvariant, PTL
  DEF Spec, ImplementsLifecycle, Lifecycle!LifecycleSpec

-------------------------------------------------------------------------------
(***************************************************************************)
(* The stock.                                                              *)
(***************************************************************************)
Pieces(p) == [o \in OrdersOf(p) |-> deducted[o] * cart[o].quantity]
Asked(p) == [o \in OrdersOf(p) |-> cart[o].quantity]
Done(p) == {o \in OrdersOf(p) : step["stock"][o] = 1}

LEMMA FiniteOrders == \A p : IsFiniteSet(OrdersOf(p)) /\ IsFiniteSet(Done(p))
<1>1. \A p : OrdersOf(p) \in SUBSET Order /\ Done(p) \in SUBSET Order
    BY DEF OrdersOf, Done
<1> QED
    BY <1>1, OrdersAreFinite, FS_Subset

\* The sums of the property are sums of these functions, before a step and after.
LEMMA TakenIs == ASSUME NEW p PROVE Taken(p) = SumOf(Pieces(p), OrdersOf(p))
<1> DEFINE S == OrdersOf(p)
           Fold(h) == [s \in SUBSET S |-> IF s = {} THEN 0
                         ELSE deducted[Some(s)] * cart[Some(s)].quantity + h[s \ {Some(s)}]]
<1>1. \A s \in SUBSET S : s # {} => Some(s) \in S
    BY SomeIn
<1>2. \A h : PartialSums(h, Pieces(p), S) <=> h = Fold(h)
    BY <1>1 DEF PartialSums, Pieces
<1>3. PICK h : h = Fold(h)
    BY <1>2, SumsExist, FiniteOrders
<1>4. \E k : k = Fold(k) /\ Taken(p) = k[S]
    BY <1>3 DEF Some, Taken, MapThenSumSet, MapThenFoldSet
<1> HIDE DEF Fold
<1>5. PICK k : k = Fold(k) /\ Taken(p) = k[S]
    BY <1>4
<1> QED
    BY <1>2, <1>5, SumOfIs, FiniteOrders

LEMMA TakenIsThen ==
    ASSUME NEW p, cart' = cart
    PROVE  Taken(p)' = SumOf(Pieces(p)', OrdersOf(p))
<1> DEFINE S == OrdersOf(p)'
           Fold(h) == [s \in SUBSET S |-> IF s = {} THEN 0
                         ELSE deducted'[Some(s)] * cart'[Some(s)].quantity + h[s \ {Some(s)}]]
<1>0. OrdersOf(p) = S
    BY DEF OrdersOf
<1>1. \A s \in SUBSET S : s # {} => Some(s) \in S
    BY SomeIn
<1>2. Pieces(p)' = [o \in S |-> deducted'[o] * cart'[o].quantity]
    BY DEF Pieces
<1>3. \A h : PartialSums(h, Pieces(p)', S) <=> h = Fold(h)
    BY <1>1, <1>2 DEF PartialSums
<1>4. PICK h : h = Fold(h)
    BY <1>0, <1>3, SumsExist, FiniteOrders
<1>5. \E k : k = Fold(k) /\ Taken(p)' = k[S]
    BY <1>4 DEF Some, Taken, MapThenSumSet, MapThenFoldSet
<1> HIDE DEF Fold
<1>6. PICK k : k = Fold(k) /\ Taken(p)' = k[S]
    BY <1>5
<1> QED
    BY <1>0, <1>3, <1>6, SumOfIs, FiniteOrders

LEMMA PromisedIs == ASSUME NEW p PROVE Promised(p) = SumOf(Asked(p), Done(p))
<1> DEFINE S == Done(p)
           Fold(h) == [s \in SUBSET S |-> IF s = {} THEN 0
                         ELSE cart[Some(s)].quantity + h[s \ {Some(s)}]]
<1>1. \A s \in SUBSET S : s # {} => Some(s) \in OrdersOf(p)
    BY SomeIn DEF Done
<1>2. \A h : PartialSums(h, Asked(p), S) <=> h = Fold(h)
    BY <1>1 DEF PartialSums, Asked
<1>3. PICK h : h = Fold(h)
    BY <1>2, SumsExist, FiniteOrders
<1>4. \E k : k = Fold(k) /\ Promised(p) = k[S]
    BY <1>3 DEF Some, Done, Promised, MapThenSumSet, MapThenFoldSet
<1> HIDE DEF Fold
<1>5. PICK k : k = Fold(k) /\ Promised(p) = k[S]
    BY <1>4
<1> QED
    BY <1>2, <1>5, SumOfIs, FiniteOrders

\* The account of a product: nothing is promised beyond it, since every order
\* whose stock step is done took its pieces at least once.
Balanced == used["edit"] = 0 => \A p \in Seeded : InitStock = stock[p] + Taken(p)

LEMMA PromisedWithin ==
    ASSUME TypeOK, RowInv, NEW p \in Seeded, InitStock = stock[p] + Taken(p)
    PROVE  Promised(p) <= InitStock
<1>1. \A o \in OrdersOf(p) : /\ o \in Order /\ cart[o].quantity \in Nat /\ deducted[o] \in Nat
                             /\ step["stock"][o] = 1 => deducted[o] >= 1
    BY PipelineAssumption DEF OrdersOf, TypeOK, RowInv, RowConsistent
<1>2. \A n, q \in Nat : n * q \in Nat /\ (n >= 1 => q <= n * q)
    OBVIOUS
<1>3. /\ \A o \in OrdersOf(p) : Pieces(p)[o] \in Nat
      /\ \A o \in Done(p) : Asked(p)[o] \in Nat /\ Asked(p)[o] <= Pieces(p)[o]
    BY <1>1, <1>2 DEF Pieces, Asked, Done
<1>4. IsFiniteSet(OrdersOf(p)) /\ Done(p) \in SUBSET OrdersOf(p)
    BY FiniteOrders DEF Done
<1>5. /\ SumOf(Asked(p), Done(p)) \in Int /\ SumOf(Pieces(p), OrdersOf(p)) \in Int
      /\ SumOf(Asked(p), Done(p)) <= SumOf(Pieces(p), OrdersOf(p))
    BY <1>3, <1>4, SumBound
<1>6. stock[p] \in Nat /\ InitStock \in Nat
    BY PipelineAssumption DEF TypeOK
<1> QED
    BY <1>5, <1>6, TakenIs, PromisedIs

\* Before any order took its pieces, nothing is taken.
LEMMA NothingTaken ==
    ASSUME NEW p, \A o \in OrdersOf(p) : Pieces(p)[o] = 0
    PROVE  Taken(p) = 0
<1>1. \A o \in OrdersOf(p) \ {} : Pieces(p)[o] = 0
    OBVIOUS
<1>2. {} \in SUBSET OrdersOf(p) /\ \A o \in OrdersOf(p) : Pieces(p)[o] \in Int
    OBVIOUS
<1>3. SumOf(Pieces(p), OrdersOf(p)) = SumOf(Pieces(p), {})
    BY <1>1, <1>2, FiniteOrders, SumZeros
<1> QED
    BY <1>3, TakenIs, SumEmpty

\* The account holds at the start ...
LEMMA InitBalanced == Init => Balanced
<1> SUFFICES ASSUME Init, NEW p \in Seeded PROVE InitStock = stock[p] + Taken(p)
    BY DEF Balanced
<1>1. \A o \in OrdersOf(p) : o \in Order /\ deducted[o] = 0 /\ cart[o].quantity \in Nat
    BY PipelineAssumption DEF Init, OrdersOf
<1>2. \A o \in OrdersOf(p) : Pieces(p)[o] = 0
    BY <1>1 DEF Pieces
<1>3. Taken(p) = 0
    BY <1>2, NothingTaken
<1>4. stock[p] = InitStock /\ InitStock \in Nat
    BY PipelineAssumption DEF Init
<1> QED
    BY <1>3, <1>4

\* ... the deduction moves the pieces of one order from the stock to what was
\* taken, whichever order it is ...
LEMMA DeductKeepsTotal ==
    ASSUME TypeOK, InFlight, DeductProductStock, NEW p \in Product
    PROVE  stock'[p] + Taken(p)' = stock[p] + Taken(p)
<1> DEFINE o == Msg("stock")
           q == cart[o].quantity
<1>1. o \in Order
    BY MsgType DEF DeductProductStock, InFlight, Queue
<1>2. /\ cart' = cart /\ used' = used
      /\ stock' = [stock EXCEPT ![cart[o].product] = @ - q]
      /\ deducted' = [deducted EXCEPT ![o] = @ + 1]
    BY DEF DeductProductStock
<1>3. q \in Nat /\ cart[o].product \in Product /\ deducted[o] \in Nat
    BY <1>1, PipelineAssumption DEF TypeOK
<1> HIDE DEF o, q
<1>4. stock[p] \in Nat
    BY DEF TypeOK
<1> DEFINE S == OrdersOf(p)
           f == Pieces(p)
           g == Pieces(p)'
<1>5. IsFiniteSet(S) /\ S \subseteq Order /\ OrdersOf(p)' = S
    BY <1>2, FiniteOrders DEF OrdersOf
<1>6. /\ \A x \in S : f[x] = deducted[x] * cart[x].quantity
      /\ \A x \in S : g[x] = deducted'[x] * cart[x].quantity
    BY <1>2, <1>5 DEF Pieces
<1>7. \A x \in S : cart[x].quantity \in Nat /\ deducted[x] \in Nat /\ deducted'[x] \in Nat
  <2>1. \A x \in Order : cart[x].quantity \in Nat /\ deducted[x] \in Nat
      BY PipelineAssumption DEF TypeOK
  <2>2. \A x \in Order : deducted'[x] = IF x = o THEN deducted[x] + 1 ELSE deducted[x]
      BY <1>2 DEF TypeOK
  <2> QED
      BY <1>5, <2>1, <2>2
<1>8. \A m, n \in Nat : m * n \in Nat
    OBVIOUS
<1>9. \A x \in S : f[x] \in Int /\ g[x] \in Int
    BY <1>6, <1>7, <1>8
<1>10. \A x \in S : x # o => f[x] = g[x]
    BY <1>2, <1>5, <1>6 DEF TypeOK
<1>11. Taken(p) = SumOf(f, S) /\ Taken(p)' = SumOf(g, S)
    BY <1>2, TakenIs, TakenIsThen
<1>12. CASE cart[o].product = p
  <2>1. o \in S
      BY <1>1, <1>12 DEF OrdersOf
  <2>2. \A h : (\A x \in S : h[x] \in Int)
                  => SumOf(h, S) = h[o] + SumOf(h, S \ {o}) /\ SumOf(h, S \ {o}) \in Int
    <3> SUFFICES ASSUME NEW h, \A x \in S : h[x] \in Int
                 PROVE  SumOf(h, S) = h[o] + SumOf(h, S \ {o}) /\ SumOf(h, S \ {o}) \in Int
        OBVIOUS
    <3>1. IsFiniteSet(S \ {o}) /\ \A x \in S \ {o} : h[x] \in Int
        BY <1>5, FS_Subset
    <3> QED
        BY <1>5, <2>1, <3>1, SumTakeOut
  <2>3. SumOf(f, S \ {o}) = SumOf(g, S \ {o})
    <3>1. IsFiniteSet(S \ {o}) /\ \A x \in S \ {o} : f[x] = g[x]
        BY <1>5, <1>10, FS_Subset
    <3> HIDE DEF f, g, S
    <3> QED
        BY <3>1, SumSame
  <2>4. g[o] = f[o] + q
    <3>1. f[o] = deducted[o] * q /\ g[o] = (deducted[o] + 1) * q
        BY <1>1, <1>2, <1>6, <2>1 DEF q, TypeOK
    <3>2. (deducted[o] + 1) * q = deducted[o] * q + q
        BY <1>3
    <3> QED
        BY <3>1, <3>2
  <2>5. stock'[p] = stock[p] - q
      BY <1>2, <1>4, <1>12 DEF TypeOK
  <2>6. /\ SumOf(f, S) = f[o] + SumOf(f, S \ {o}) /\ SumOf(f, S \ {o}) \in Int
        /\ SumOf(g, S) = g[o] + SumOf(g, S \ {o})
      BY <1>9, <2>2
  <2>7. f[o] \in Int
      BY <1>9, <2>1
  <2> HIDE DEF f, g, S
  <2>8. Taken(p)' = Taken(p) + q /\ Taken(p) \in Int
      BY <1>3, <1>11, <2>3, <2>4, <2>6, <2>7
  <2> QED
      BY <1>3, <1>4, <2>5, <2>8
<1>13. CASE cart[o].product # p
  <2>1. \A x \in S : f[x] = g[x]
      BY <1>10, <1>13 DEF OrdersOf
  <2>2. SumOf(f, S) = SumOf(g, S)
    <3> HIDE DEF f, g, S
    <3> QED
        BY <1>5, <2>1, SumSame
  <2>3. stock'[p] = stock[p]
      BY <1>2, <1>4, <1>13 DEF TypeOK
  <2> QED
      BY <1>4, <1>11, <2>2, <2>3
<1> QED
    BY <1>12, <1>13

\* What a step does to the carts, the account and the disturbances.
LEMMA AccountSteps ==
    ASSUME TypeOK, [Next]_vars
    PROVE  /\ UNCHANGED cart
           /\ \/ UNCHANGED used
              \/ Spend("crash") \/ Spend("db") \/ Spend("stop") \/ Spend("dup") \/ Spend("edit")
           /\ DeductProductStock \/ UNCHANGED <<stock, deducted>> \/ Spend("edit")
<1>1. ASSUME NEW o \in Order, CreateOrder(o)
      PROVE  UNCHANGED <<cart, used, stock, deducted>>
    BY <1>1 DEF CreateOrder, CheckOrder, OrderFails, InsertOrder, PublishOrderCreated,
                PublishFails, database
<1>2. ASSUME NEW o \in Order, Republish(o)
      PROVE  Spend("dup") /\ UNCHANGED <<cart, stock, deducted>>
    BY <1>2 DEF Republish, database
<1>3. ASSUME NEW p \in Product, ProductAdmin(p)
      PROVE  Spend("edit") /\ UNCHANGED cart
    BY <1>3 DEF ProductAdmin, CreateProduct, UpdateProduct, DeleteProduct
<1>4. ASSUME NEW c \in Queue, Consume(c)
      PROVE  /\ UNCHANGED cart
             /\ UNCHANGED used \/ Spend("db")
             /\ DeductProductStock \/ UNCHANGED <<stock, deducted>>
    BY <1>4 DEF Consume, Deliver, Handle, DbFails, Settle, LeaveLoop, OrderStepDone,
                MarkOrderStepDone, InsertReward, DeductProductStock, StockInsufficient,
                MarkOrderStockFailed, CancelOrder, DeletePoints, DeleteNotification,
                DeleteReward, CommitCancel, database
<1>5. Stop => Spend("stop") /\ UNCHANGED <<cart, stock, deducted>>
    BY DEF Stop, database
<1>6. Crash => Spend("crash") /\ UNCHANGED <<cart, stock, deducted>>
    BY DEF Crash, database
<1>7. Exit \/ Restart \/ Quiescent \/ UNCHANGED vars => UNCHANGED <<cart, used, stock, deducted>>
    BY DEF Exit, Restart, Quiescent, vars, database
<1>8. CASE UNCHANGED vars
    BY <1>7, <1>8
<1>9. CASE Next
    BY <1>1, <1>2, <1>3, <1>4, <1>5, <1>6, <1>7, <1>9, Zenon DEF Next
<1> QED
    BY <1>8, <1>9

\* The administrators' edits are counted.
LEMMA AccountMoves ==
    ASSUME TypeOK, [Next]_vars
    PROVE  /\ cart' = cart
           /\ used["edit"] <= used'["edit"] /\ used'["edit"] \in Nat
           /\ \/ DeductProductStock
              \/ used'["edit"] = 0 => stock' = stock /\ deducted' = deducted
<1>0. used \in [Disturbance -> Nat] /\ "edit" \in Disturbance
    BY DEF TypeOK, Disturbance
<1>1. \A d \in Disturbance : Spend(d) => /\ used["edit"] <= used'["edit"]
                                         /\ used'["edit"] \in Nat
                                         /\ d = "edit" => used'["edit"] # 0
    BY <1>0 DEF Spend
<1>2. UNCHANGED used => used["edit"] <= used'["edit"] /\ used'["edit"] \in Nat
    BY <1>0
<1>3. "crash" \in Disturbance /\ "db" \in Disturbance /\ "stop" \in Disturbance /\ "dup" \in Disturbance
    BY DEF Disturbance
<1>4. used["edit"] <= used'["edit"] /\ used'["edit"] \in Nat
  <2>1. \/ UNCHANGED used
        \/ Spend("crash") \/ Spend("db") \/ Spend("stop") \/ Spend("dup") \/ Spend("edit")
      BY AccountSteps
  <2> QED
      BY <1>0, <1>1, <1>2, <1>3, <2>1
<1>5. Spend("edit") => used'["edit"] # 0
    BY <1>0, <1>1
<1> QED
    BY <1>4, <1>5, AccountSteps

\* Crashes, failures and shutdowns are counted too.
LEMMA InterruptionsGrow ==
    ASSUME TypeOK, [Next]_vars
    PROVE  /\ Interruptions \in Nat /\ Interruptions' \in Nat
           /\ Interruptions' >= Interruptions
<1>1. Interruptions \in Nat
    BY DEF TypeOK, Disturbance, Interruptions
<1>2. UNCHANGED used => Interruptions' = Interruptions
    BY DEF Interruptions
<1>3. "crash" \in Disturbance /\ "db" \in Disturbance /\ "stop" \in Disturbance
      /\ "dup" \in Disturbance /\ "edit" \in Disturbance
    BY DEF Disturbance
<1>4. ASSUME NEW d \in Disturbance, Spend(d)
      PROVE  Interruptions' \in Nat /\ Interruptions' >= Interruptions
  <2>1. Interruptions' = Interruptions + (IF d \in {"crash", "db", "stop"} THEN 1 ELSE 0)
      BY <1>4, SpendEffect
  <2> QED
      BY <1>1, <2>1
<1> QED
    BY <1>1, <1>2, <1>3, <1>4, AccountSteps

\* ... and every other step leaves both alone, except an administrator's.
LEMMA TotalKept ==
    ASSUME TypeOK, InFlight, [Next]_vars, used'["edit"] = 0, NEW p \in Product
    PROVE  used["edit"] = 0 /\ stock'[p] + Taken(p)' = stock[p] + Taken(p)
<1>1. used["edit"] = 0
    BY AccountMoves DEF TypeOK, Disturbance
<1>2. CASE DeductProductStock
    BY <1>1, <1>2, DeductKeepsTotal
<1>3. CASE ~DeductProductStock
  <2>1. stock' = stock /\ deducted' = deducted /\ cart' = cart
      BY <1>3, AccountMoves
  <2>2. Pieces(p)' = Pieces(p)
      BY <2>1 DEF Pieces, OrdersOf
  <2>3. Taken(p)' = Taken(p)
      BY <2>1, <2>2, TakenIs, TakenIsThen
  <2> QED
      BY <1>1, <2>1, <2>3
<1> QED
    BY <1>2, <1>3

\* No overselling: until an administrator types a stock in, what is left of a
\* product and what was taken for its orders add up to what there was, and the
\* orders whose stock step is done were promised no more than that, although
\* the check of a request is stale by the time its order is handled
\* (repository.DeductProductStock, service.CreateOrder).
THEOREM StockAlwaysConserved == Spec => []StockIsConserved
<1>1. Init => Balanced
    BY InitBalanced
<1>2. TypeOK /\ PipelineInv /\ Balanced /\ [Next]_vars => Balanced'
  <2> SUFFICES ASSUME TypeOK, PipelineInv, Balanced, [Next]_vars,
                      used'["edit"] = 0, NEW p \in Seeded
               PROVE  InitStock = stock'[p] + Taken(p)'
      BY DEF Balanced
  <2>1. p \in Product /\ InFlight
      BY PipelineAssumption DEF PipelineInv
  <2>2. used["edit"] = 0 /\ stock'[p] + Taken(p)' = stock[p] + Taken(p)
      BY <2>1, TotalKept
  <2> QED
      BY <2>2 DEF Balanced
<1>3. TypeOK /\ PipelineInv /\ Balanced => StockIsConserved
    BY PromisedWithin DEF StockIsConserved, Balanced, PipelineInv
<1> QED
    BY <1>1, <1>2, <1>3, PipelineInvariant, PTL DEF Spec

-------------------------------------------------------------------------------
(***************************************************************************)
(* The load test, for any number of orders, requests and disturbances.     *)
(***************************************************************************)
\* Every step of the test leaves the pipeline alone.
LEMMA TestStepKeeps ==
    ASSUME TestStep PROVE UNCHANGED vars
<1>1. ASSUME NEW o \in Jobs, PlaceOrder(o) \/ Answered(o) \/ GivenUp(o)
      PROVE  UNCHANGED vars
  BY <1>1 DEF PlaceOrder, Answered, GivenUp
<1>2. CASE ReadInitialStock \/ Login \/ WorkersDone
  BY <1>2 DEF ReadInitialStock, Login, WorkersDone
<1>3. CASE NothingPending \/ WaitTimeout
  BY <1>3 DEF NothingPending, WaitTimeout, StopWaiting
<1>4. CASE CountSold \/ CountProcessing \/ JudgeStock
  BY <1>4 DEF CountSold, CountProcessing, JudgeStock
<1>5. CASE JudgeOverdue \/ Abort
  BY <1>5 DEF JudgeOverdue, Abort, ExitWith
<1>6. QED
  BY <1>1, <1>2, <1>3, <1>4, <1>5 DEF TestStep

\* What the pipeline guarantees it also guarantees under the test: the test
\* only adds requests, and whatever it does else the pipeline does not see.
THEOREM LoadTestRunsThePipeline == LoadSpec => Spec
<1>1. LoadInit => Init
  BY DEF LoadInit
<1>2. [LoadNext]_loadVars => [Next]_vars
  BY TestStepKeeps DEF LoadNext, SystemStep, Over, loadVars
<1>3. QED
  BY <1>1, <1>2, PTL DEF LoadSpec, Spec

-------------------------------------------------------------------------------
(***************************************************************************)
(* Who writes the step columns of the rewards.                             *)
(***************************************************************************)
LEMMA ColumnsMarked ==
    ASSUME TypeOK, RewardColumns, NEW c \in Queue, MarkOrderStepDone(c)
    PROVE  RewardColumns'
<1> SUFFICES ASSUME NEW r \in Reward, NEW o \in Order
             PROVE  step'[r][o] \in {0, 1}
  BY DEF RewardColumns
<1>1. step' = [step EXCEPT ![c][Msg(c)] = 1]
  BY DEF MarkOrderStepDone
<1>2. step \in [Queue -> [Order -> 0..2]] /\ r \in Queue
  BY DEF TypeOK, Queue
<1>3. step'[r][o] = step[r][o] \/ step'[r][o] = 1
  BY <1>1, <1>2
<1>4. QED
  BY <1>3 DEF RewardColumns

LEMMA ColumnsCommitted ==
    ASSUME TypeOK, RewardColumns, CommitCancel
    PROVE  RewardColumns'
<1> SUFFICES ASSUME NEW r \in Reward, NEW o \in Order
             PROVE  step'[r][o] \in {0, 1}
  BY DEF RewardColumns
<1>1. step' = [step EXCEPT !["stock"][Msg("stock")] = 2]
  BY DEF CommitCancel
<1>2. step \in [Queue -> [Order -> 0..2]] /\ r \in Queue /\ r # "stock"
  BY DEF TypeOK, Queue, Reward
<1>3. step'[r][o] = step[r][o]
  BY <1>1, <1>2
<1>4. QED
  BY <1>3 DEF RewardColumns

\* A step of the pipeline writes 1 in a reward's column, or nothing.
LEMMA ColumnsStep ==
    ASSUME TypeOK, RewardColumns, [Next]_vars
    PROVE  RewardColumns'
<1>1. ASSUME UNCHANGED step
      PROVE  RewardColumns'
  BY <1>1 DEF RewardColumns
<1>2. ASSUME NEW o \in Order, CreateOrder(o) \/ Republish(o)
      PROVE  UNCHANGED step
  BY <1>2 DEF CreateOrder, CheckOrder, OrderFails, InsertOrder,
       PublishOrderCreated, PublishFails, Republish, database
<1>3. ASSUME NEW p \in Product, ProductAdmin(p)
      PROVE  UNCHANGED step
  BY <1>3 DEF ProductAdmin, CreateProduct, UpdateProduct, DeleteProduct
<1>4. ASSUME NEW c \in Queue, Consume(c)
      PROVE  RewardColumns'
  <2>1. CASE MarkOrderStepDone(c)
    BY <2>1, ColumnsMarked
  <2>2. CASE CommitCancel
    BY <2>2, ColumnsCommitted
  <2>3. CASE OrderStepDone(c) \/ InsertReward(c) \/ DeductProductStock
               \/ StockInsufficient
    BY <2>3, <1>1 DEF OrderStepDone, InsertReward, DeductProductStock,
         StockInsufficient, database
  <2>4. CASE CancelOrder \/ DeletePoints \/ DeleteNotification
    BY <2>4, <1>1 DEF CancelOrder, DeletePoints, DeleteNotification,
         DeleteReward, database
  <2>5. CASE Deliver(c) \/ DbFails(c) \/ Settle(c) \/ LeaveLoop(c)
    BY <2>5, <1>1 DEF Deliver, DbFails, Settle, LeaveLoop, database
  <2>6. QED
    BY <1>4, <2>1, <2>2, <2>3, <2>4, <2>5
       DEF Consume, Handle, MarkOrderStockFailed
<1>5. CASE Stop \/ Exit \/ Crash \/ Restart \/ Quiescent \/ UNCHANGED vars
  BY <1>5, <1>1 DEF Stop, Exit, Crash, Restart, Quiescent, database, vars
<1>6. QED
  BY <1>1, <1>2, <1>3, <1>4, <1>5 DEF Next

-------------------------------------------------------------------------------
(***************************************************************************)
(* Nothing pending means that everything is decided.                       *)
(***************************************************************************)
\* The columns the poll asks for tell a processing order from a decided one.
LEMMA NothingPendingDecides ==
    ASSUME TypeOK, PipelineInv, RewardColumns, Pending = {},
           NEW o \in Rows \ before
    PROVE  status[o] \in {2, 3}
<1>1. o \in Order /\ status[o] \in 0..3 /\ status[o] # 0
  BY DEF Rows, TypeOK
<1>2. /\ step["stock"][o] # 0
      /\ status[o] \in {1, 2} => \A r \in Reward : step[r][o] # 0
  BY <1>1 DEF Pending, Recent
<1>3. RowConsistent(o)
  BY <1>1 DEF PipelineInv, RowInv
<1>4. ASSUME status[o] = 1
      PROVE  FALSE
  <2>1. PICK c \in Queue : step[c][o] # 1
    BY <1>3, <1>4 DEF RowConsistent
  <2>2. c \notin Reward
    BY <2>1, <1>1, <1>2, <1>4 DEF RewardColumns
  <2>3. c = "stock" /\ step[c][o] \in 0..2
    BY <2>2, <1>1 DEF Queue, TypeOK
  <2>4. step["stock"][o] = 2
    BY <2>1, <2>3, <1>2
  <2>5. QED
    BY <2>4, <1>3, <1>4 DEF RowConsistent
<1>5. QED
  BY <1>1, <1>4

\* The steps of the test keep the invariant; only the poll that finds nothing
\* pending has something to show.
LEMMA TestKeepsInv ==
    ASSUME TypeOK, PipelineInv, LoadInv, TestStep
    PROVE  LoadInv'
<1>1. UNCHANGED vars
  BY TestStepKeeps
<1>2. RewardColumns'
  BY <1>1 DEF LoadInv, RewardColumns, vars
<1>3. ASSUME UNCHANGED <<consumed, polled, before>>
      PROVE  DrainedIsDecided'
  BY <1>1, <1>3 DEF LoadInv, DrainedIsDecided, vars
<1>4. ASSUME NEW o \in Jobs, PlaceOrder(o) \/ Answered(o) \/ GivenUp(o)
      PROVE  WaitInv' /\ DrainedIsDecided'
  BY <1>3, <1>4 DEF PlaceOrder, Answered, GivenUp, LoadInv, WaitInv
<1>5. CASE ReadInitialStock \/ WorkersDone
  <2>1. WaitInv'
    BY <1>5 DEF ReadInitialStock, WorkersDone, LoadInv, WaitInv
  <2>2. QED
    BY <1>2, <1>3, <1>5, <2>1 DEF ReadInitialStock, WorkersDone, LoadInv
<1>6. CASE Login
  <2>1. ~consumed'
    BY <1>6 DEF Login, LoadInv, WaitInv
  <2>2. QED
    BY <1>2, <2>1 DEF LoadInv, WaitInv, DrainedIsDecided
<1>7. CASE NothingPending
  <2>1. stage' = "counting" /\ polled' = Rows /\ before' = before /\ Pending = {}
    BY <1>7 DEF NothingPending, StopWaiting
  <2>2. \A o \in Rows \ before : status[o] \in {2, 3}
    BY <2>1, NothingPendingDecides DEF LoadInv
  <2>3. DrainedIsDecided'
    BY <1>1, <2>1, <2>2 DEF DrainedIsDecided, vars
  <2>4. QED
    BY <1>2, <2>1, <2>3 DEF LoadInv, WaitInv
<1>8. CASE WaitTimeout \/ JudgeOverdue \/ Abort
  <2>1. ~consumed'
    BY <1>8 DEF WaitTimeout, JudgeOverdue, Abort, ExitWith
  <2>2. QED
    BY <1>2, <2>1 DEF LoadInv, WaitInv, DrainedIsDecided
<1>9. CASE CountSold \/ CountProcessing \/ JudgeStock
  <2>1. stage' \in {"sorting", "judging", "passed", "breached"}
    BY <1>9 DEF CountSold, CountProcessing, JudgeStock
  <2>2. DrainedIsDecided'
    BY <1>3, <1>9 DEF CountSold, CountProcessing, JudgeStock
  <2>3. QED
    BY <1>2, <2>1, <2>2 DEF LoadInv, WaitInv
<1>10. QED
  BY <1>2, <1>4, <1>5, <1>6, <1>7, <1>8, <1>9 DEF TestStep, LoadInv

\* A step of the system keeps it too: what is decided stays decided.
LEMMA SystemKeepsInv ==
    ASSUME TypeOK, LoadInv, [Next]_vars, UNCHANGED testVars,
           [\A o \in Order : status[o] \in {2, 3} => status'[o] = status[o]]_status,
           polled \in SUBSET Order
    PROVE  LoadInv'
<1>1. RewardColumns'
  BY ColumnsStep DEF LoadInv
<1>2. WaitInv'
  BY DEF LoadInv, WaitInv, testVars
<1>3. DrainedIsDecided'
  BY DEF LoadInv, DrainedIsDecided, testVars
<1>4. QED
  BY <1>1, <1>2, <1>3 DEF LoadInv

\* The rows a poll looked at are orders.
LEMMA PolledType ==
    ASSUME polled \in SUBSET Order, [LoadNext]_loadVars
    PROVE  polled' \in SUBSET Order
<1>1. ASSUME NEW o \in Jobs, PlaceOrder(o) \/ Answered(o) \/ GivenUp(o)
      PROVE  polled' = polled
  BY <1>1 DEF PlaceOrder, Answered, GivenUp
<1>2. CASE ReadInitialStock \/ Login \/ WorkersDone
  BY <1>2 DEF ReadInitialStock, Login, WorkersDone
<1>3. CASE NothingPending \/ WaitTimeout
  BY <1>3 DEF NothingPending, WaitTimeout, StopWaiting, Rows
<1>4. CASE CountSold \/ CountProcessing \/ JudgeStock
  BY <1>4 DEF CountSold, CountProcessing, JudgeStock
<1>5. CASE JudgeOverdue \/ Abort
  BY <1>5 DEF JudgeOverdue, Abort, ExitWith
<1>6. CASE SystemStep \/ Over \/ UNCHANGED loadVars
  BY <1>6 DEF SystemStep, Over, loadVars, testVars
<1>7. QED
  BY <1>1, <1>2, <1>3, <1>4, <1>5, <1>6 DEF LoadNext, TestStep

\* In every execution, with any disturbances and whatever others order: once
\* the poll has found nothing pending, the orders it looked at are completed
\* or cancelled for good.
THEOREM DrainedIsAlwaysDecided == LoadSpec => []DrainedIsDecided
<1>1. LoadInit => LoadInv /\ polled \in SUBSET Order
  <2> SUFFICES ASSUME LoadInit
               PROVE  LoadInv /\ polled \in SUBSET Order
    OBVIOUS
  <2>1. RewardColumns
    BY DEF LoadInit, Init, RewardColumns, Queue
  <2>2. QED
    BY <2>1 DEF LoadInit, LoadInv, WaitInv, DrainedIsDecided
<1>2. LoadSpec => [](TypeOK /\ PipelineInv)
  BY LoadTestRunsThePipeline, PipelineInvariant, PTL
<1>3. LoadSpec => [][\A o \in Order :
                       status[o] \in {2, 3} => status'[o] = status[o]]_status
  BY LoadTestRunsThePipeline, EndsAreFinalHolds, PTL DEF EndsAreFinal
<1>4. /\ TypeOK /\ PipelineInv
      /\ LoadInv /\ polled \in SUBSET Order
      /\ [LoadNext]_loadVars
      /\ [\A o \in Order : status[o] \in {2, 3} => status'[o] = status[o]]_status
      => (LoadInv /\ polled \in SUBSET Order)'
  <2> SUFFICES ASSUME TypeOK, PipelineInv, LoadInv, polled \in SUBSET Order,
                      [LoadNext]_loadVars,
                      [\A o \in Order :
                          status[o] \in {2, 3} => status'[o] = status[o]]_status
               PROVE  (LoadInv /\ polled \in SUBSET Order)'
    OBVIOUS
  <2>1. polled' \in SUBSET Order
    BY PolledType
  <2>2. CASE TestStep
    BY <2>1, <2>2, TestKeepsInv
  <2>3. CASE SystemStep \/ Over \/ UNCHANGED loadVars
    <3>1. [Next]_vars /\ UNCHANGED testVars
      BY <2>3 DEF SystemStep, Over, loadVars
    <3>2. QED
      BY <2>1, <3>1, SystemKeepsInv
  <2>4. QED
    BY <2>2, <2>3 DEF LoadNext
<1>5. LoadInv => DrainedIsDecided
  BY DEF LoadInv
<1>6. QED
  BY <1>1, <1>2, <1>3, <1>4, <1>5, PTL DEF LoadSpec

-------------------------------------------------------------------------------
(***************************************************************************)
(* The verdict.  Everything the test compares was read at a different      *)
(* moment; the invariant says what each reading still means.               *)
(***************************************************************************)
\* What has become of an order whose stock step is through.
Settled(o) == \/ status[o] = 2 /\ deducted[o] = 1
              \/ status[o] = 3 /\ deducted[o] = 0

Completed == {o \in OfTarget : status[o] = 2}
Quantities == [o \in Order |-> cart[o].quantity]

\* Only a request that passed the server's check becomes a row.
CheckedQuantity ==
    \A o \in Order : request[o] \notin {"new", "rejected"} => cart[o].quantity >= 1

\* The initial stock is what there is now and what was taken since.
InitialIsTotal ==
    /\ stage \in Stage \ {"stock", "overdue", "aborted"}
    /\ used["edit"] = 0
    /\ OfTarget \cap known = {}
  => initial = stock[Target] + Taken(Target)

\* What was counted still stands.
CountsStand ==
    consumed /\ Undisturbed =>
        /\ stage \in {"sorting", "judging"} => sold = SumOf(Quantities, Completed)
        /\ stage \in {"judging", "passed"} => processing = 0

\* The stages after the wait, and the rows that the wait saw.
Readings ==
    /\ polled \subseteq Rows
    /\ stage \in {"passed", "breached"} => consumed
    /\ stage \in Stage

VerdictInv ==
    CheckedQuantity /\ InitialIsTotal /\ CountsStand /\ Readings /\ VerdictIsRight

LEMMA SoldIs ==
    ASSUME NEW S \in SUBSET Order
    PROVE  MapThenSumSet(LAMBDA o : cart[o].quantity, S) = SumOf(Quantities, S)
<1> DEFINE Fold(h) == [s \in SUBSET S |-> IF s = {} THEN 0
                         ELSE cart[Some(s)].quantity + h[s \ {Some(s)}]]
<1>1. \A s \in SUBSET S : s # {} => Some(s) \in Order
    BY SomeIn
<1>2. \A h : PartialSums(h, Quantities, S) <=> h = Fold(h)
    BY <1>1 DEF PartialSums, Quantities
<1>3. IsFiniteSet(S)
    BY OrdersAreFinite, FS_Subset
<1>4. PICK h : h = Fold(h)
    BY <1>2, <1>3, SumsExist
<1>5. \E k : k = Fold(k) /\ MapThenSumSet(LAMBDA o : cart[o].quantity, S) = k[S]
    BY <1>4 DEF Some, MapThenSumSet, MapThenFoldSet
<1> HIDE DEF Fold
<1>6. PICK k : k = Fold(k) /\ MapThenSumSet(LAMBDA o : cart[o].quantity, S) = k[S]
    BY <1>5
<1> QED
    BY <1>2, <1>3, <1>6, SumOfIs

\* Nothing but the check lets a request go on.
LEMMA QuantitiesStay ==
    ASSUME TypeOK, CheckedQuantity, [Next]_vars
    PROVE  CheckedQuantity'
<1> SUFFICES ASSUME NEW x \in Order, request'[x] \notin {"new", "rejected"}
             PROVE  cart'[x].quantity >= 1
    BY DEF CheckedQuantity
<1>1. cart' = cart
    BY AccountSteps
<1>2. ASSUME NEW o \in Order, CreateOrder(o)
      PROVE  request[x] \notin {"new", "rejected"} \/ Orderable(x)
    BY <1>2 DEF CreateOrder, CheckOrder, OrderFails, InsertOrder, PublishOrderCreated,
                PublishFails, TypeOK
<1>3. ASSUME NEW c \in Queue, Consume(c) PROVE UNCHANGED request
    BY <1>3 DEF Consume, Deliver, Handle, DbFails, Settle, LeaveLoop, OrderStepDone,
                MarkOrderStepDone, InsertReward, DeductProductStock, StockInsufficient,
                MarkOrderStockFailed, CancelOrder, DeletePoints, DeleteNotification,
                DeleteReward, CommitCancel, database
<1>4. ASSUME NEW p \in Product, ProductAdmin(p) PROVE UNCHANGED request
    BY <1>4 DEF ProductAdmin, CreateProduct, UpdateProduct, DeleteProduct
<1>5. ASSUME NEW o \in Order, Republish(o) PROVE UNCHANGED request
    BY <1>5 DEF Republish, database
<1>6. Stop \/ Exit \/ Crash \/ Restart \/ Quiescent \/ UNCHANGED vars => UNCHANGED request
    BY DEF Stop, Exit, Crash, Restart, Quiescent, vars, database
<1>7. request[x] \notin {"new", "rejected"} \/ Orderable(x)
    BY <1>2, <1>3, <1>4, <1>5, <1>6 DEF Next
<1>8. Orderable(x) => cart[x].quantity >= 1
    BY DEF Orderable
<1> QED
    BY <1>1, <1>7, <1>8 DEF CheckedQuantity

\* A row that is decided keeps its status and its deductions, and no row goes.
LEMMA DecidedStays ==
    ASSUME TypeOK, PipelineInv, [Next]_vars, used'["edit"] = 0,
           [\A o \in Order : status[o] \in {2, 3} => status'[o] = status[o]]_status,
           NEW o \in Order, status[o] \in {2, 3}
    PROVE  status'[o] = status[o] /\ deducted'[o] = deducted[o]
<1>1. status'[o] = status[o]
    OBVIOUS
<1>2. DeductProductStock \/ deducted' = deducted
    BY AccountMoves
<1>3. CASE DeductProductStock
  <2>1. status[Msg("stock")] = 1
      BY <1>3 DEF DeductProductStock, PipelineInv, StockInv, DbStep
  <2>2. deducted' = [deducted EXCEPT ![Msg("stock")] = @ + 1]
      BY <1>3 DEF DeductProductStock
  <2>3. deducted \in [Order -> Nat]
      BY DEF TypeOK
  <2> QED
      BY <1>1, <2>1, <2>2, <2>3
<1> QED
    BY <1>1, <1>2, <1>3

LEMMA RowsStay ==
    ASSUME TypeOK, PipelineInv, [Next]_vars
    PROVE  Rows \subseteq Rows'
<1> SUFFICES ASSUME NEW o \in Order, status[o] # 0 PROVE status'[o] # 0
    BY DEF Rows
<1>1. ASSUME NEW x \in Order, InsertOrder(x), status[x] = 0
      PROVE  status'[o] # 0
    BY <1>1 DEF InsertOrder, TypeOK
<1>2. ASSUME NEW c \in Queue, MarkOrderStepDone(c), Msg(c) \in Order
      PROVE  status'[o] # 0
    BY <1>2, MarkStatus
<1>3. ASSUME NEW r \in Reward, InsertReward(r)
      PROVE  status'[o] # 0
    BY <1>3 DEF InsertReward
<1>4. CASE CommitCancel
    BY <1>4 DEF CommitCancel, TypeOK
<1> QED
    BY <1>1, <1>2, <1>3, <1>4, RowChanges

\* While nobody disturbs the test, the system changes nothing it has counted.
LEMMA UndisturbedStays ==
    ASSUME TypeOK, PipelineInv, [Next]_vars, UNCHANGED testVars, polled \subseteq Rows
    PROVE  /\ cart' = cart
           /\ OfTarget \subseteq OfTarget'
           /\ Undisturbed' => Undisturbed /\ OfTarget' = OfTarget
<1>1. cart' = cart /\ used["edit"] <= used'["edit"]
    BY AccountMoves
<1>2. OfTarget \subseteq OfTarget'
    BY <1>1, RowsStay DEF OfTarget
<1>3. known' = known /\ before' = before /\ polled' = polled
    BY DEF testVars
<1>4. ASSUME Undisturbed' PROVE Undisturbed /\ OfTarget' = OfTarget
  <2>1. used'["edit"] = 0 /\ OfTarget' \subseteq polled /\ OfTarget' \cap (known \cup before) = {}
      BY <1>3, <1>4 DEF Undisturbed
  <2>2. OfTarget' \subseteq OfTarget
      BY <1>1, <2>1 DEF OfTarget
  <2>3. used["edit"] = 0
      BY <1>1, <2>1 DEF TypeOK, Disturbance
  <2> QED
      BY <1>2, <2>1, <2>2, <2>3 DEF Undisturbed
<1> QED
    BY <1>1, <1>2, <1>4

\* The system keeps the invariant.
LEMMA SystemKeepsVerdict ==
    ASSUME TypeOK, PipelineInv, DrainedIsDecided, VerdictInv, [Next]_vars, UNCHANGED testVars,
           [\A o \in Order : status[o] \in {2, 3} => status'[o] = status[o]]_status
    PROVE  VerdictInv'
<1>0. /\ stage' = stage /\ known' = known /\ before' = before /\ polled' = polled
      /\ consumed' = consumed /\ initial' = initial /\ sold' = sold /\ processing' = processing
    BY DEF testVars
<1>1. CheckedQuantity'
    BY QuantitiesStay DEF VerdictInv
<1>2. Readings'
    BY <1>0, RowsStay DEF VerdictInv, Readings
<1>3. /\ cart' = cart
      /\ OfTarget \subseteq OfTarget'
      /\ Undisturbed' => Undisturbed /\ OfTarget' = OfTarget
    BY UndisturbedStays DEF VerdictInv, Readings
<1>4. InitialIsTotal'
  <2> SUFFICES ASSUME stage \in Stage \ {"stock", "overdue", "aborted"},
                      used'["edit"] = 0, OfTarget' \cap known = {}
               PROVE  initial = stock'[Target] + Taken(Target)'
      BY <1>0 DEF InitialIsTotal
  <2>1. used["edit"] = 0 /\ stock'[Target] + Taken(Target)' = stock[Target] + Taken(Target)
      BY TotalKept, LoadTestAssumption DEF PipelineInv
  <2>2. OfTarget \cap known = {}
      BY <1>3
  <2> QED
      BY <2>1, <2>2 DEF VerdictInv, InitialIsTotal
<1>5. ASSUME Undisturbed', consumed
      PROVE  \A o \in OfTarget : status'[o] = status[o] /\ deducted'[o] = deducted[o]
  <2>1. used'["edit"] = 0 /\ \A o \in OfTarget : o \in Order /\ status[o] \in {2, 3}
      BY <1>3, <1>5 DEF Undisturbed, DrainedIsDecided, OfTarget, Rows
  <2> QED
      BY <2>1, DecidedStays
<1>6. CountsStand'
  <2> SUFFICES ASSUME consumed, Undisturbed'
               PROVE  /\ stage \in {"sorting", "judging"} => sold = SumOf(Quantities', Completed')
                      /\ stage \in {"judging", "passed"} => processing = 0
      BY <1>0 DEF CountsStand
  <2>1. Completed' = Completed
      BY <1>3, <1>5 DEF Completed
  <2>2. Quantities' = Quantities
      BY <1>3 DEF Quantities
  <2> QED
      BY <1>3, <2>1, <2>2 DEF VerdictInv, CountsStand
<1>7. VerdictIsRight'
  <2> SUFFICES ASSUME Undisturbed', stage \in {"passed", "breached"}
               PROVE  /\ stage = "passed" => processing = 0 /\ \A o \in OfTarget' : Settled(o)'
                      /\ stage = "breached" => Interruptions' > 0
      BY <1>0 DEF VerdictIsRight, Settled
  <2>1. consumed /\ Undisturbed /\ OfTarget' = OfTarget
      BY <1>3 DEF VerdictInv, Readings
  <2>2. stage = "passed" => processing = 0 /\ \A o \in OfTarget : Settled(o)
      BY <2>1 DEF VerdictInv, VerdictIsRight, Settled
  <2>3. \A o \in OfTarget : Settled(o) => Settled(o)'
      BY <1>5, <2>1 DEF Settled
  <2>4. stage = "breached" => Interruptions > 0
      BY <2>1 DEF VerdictInv, VerdictIsRight
  <2>5. Interruptions \in Nat /\ Interruptions' \in Nat /\ Interruptions' >= Interruptions
      BY InterruptionsGrow
  <2> QED
      BY <2>1, <2>2, <2>3, <2>4, <2>5
<1> QED
    BY <1>1, <1>2, <1>4, <1>6, <1>7 DEF VerdictInv

\* The arithmetic of one order's pieces.
LEMMA PiecesArithmetic ==
    ASSUME NEW d \in Nat, NEW q \in Nat, q >= 1
    PROVE  /\ d * q \in Nat
           /\ d >= 1 => q <= d * q
           /\ d >= 1 /\ d * q = q => d = 1
           /\ d * q = 0 => d = 0
<1>1. d * q \in Nat
    OBVIOUS
<1>2. d >= 2 => d * q >= 2 * q
    OBVIOUS
<1>3. d >= 1 => d * q >= q
    OBVIOUS
<1>4. d = 0 \/ d = 1 \/ d >= 2
    OBVIOUS
<1> QED
    BY <1>1, <1>2, <1>3, <1>4

\* What was taken of the product was taken for the completed orders, each of
\* which took its pieces once, exactly if no more was taken than was counted.
LEMMA TakenIsSold ==
    ASSUME TypeOK, PipelineInv, CheckedQuantity,
           \A o \in OfTarget : status[o] \in {2, 3}
    PROVE  /\ (\A o \in OfTarget : Settled(o))
                <=> Taken(Target) = SumOf(Quantities, Completed)
           /\ Taken(Target) \in Int /\ SumOf(Quantities, Completed) \in Int
<1> DEFINE S == OrdersOf(Target)
           f == Pieces(Target)
<1>1. IsFiniteSet(S) /\ Completed \in SUBSET S /\ OfTarget \subseteq S /\ S \subseteq Order
    BY FiniteOrders DEF Completed, OfTarget, Rows, OrdersOf
<1>2. \A o \in S : cart[o].quantity \in Nat /\ deducted[o] \in Nat
    BY <1>1, PipelineAssumption DEF TypeOK
<1>3. \A o \in S : f[o] = deducted[o] * cart[o].quantity
    BY DEF Pieces
<1>4. \A o \in Order : Quantities[o] = cart[o].quantity
    BY DEF Quantities
<1>5. \A o \in S : o \notin OfTarget => deducted[o] = 0
  <2>1. \A o \in S : o \notin OfTarget => status[o] = 0
      BY <1>1 DEF OfTarget, Rows, OrdersOf
  <2> QED
      BY <1>1, <2>1 DEF PipelineInv, RowInv, RowConsistent
<1>6. \A o \in OfTarget : cart[o].quantity >= 1
  <2>1. \A o \in OfTarget : request[o] \notin Unwritten
      BY DEF PipelineInv, RowInv, RowConsistent, OfTarget, Rows
  <2> QED
      BY <1>1, <2>1 DEF CheckedQuantity, Unwritten
<1>7. \A o \in Completed : deducted[o] >= 1
  <2>1. \A o \in Completed : o \in Order /\ status[o] = 2 /\ RowConsistent(o)
      BY <1>1 DEF Completed, PipelineInv, RowInv
  <2> QED
      BY <2>1 DEF RowConsistent, Queue
<1>8. \A o \in S : f[o] \in Nat
    BY <1>2, <1>3, <1>5, <1>6, PiecesArithmetic
<1>9. \A o \in Completed : Quantities[o] \in Nat /\ Quantities[o] <= f[o]
  <2> SUFFICES ASSUME NEW o \in Completed
               PROVE  Quantities[o] \in Nat /\ Quantities[o] <= f[o]
      OBVIOUS
  <2>1. o \in S /\ o \in OfTarget /\ o \in Order
      BY <1>1 DEF Completed
  <2> QED
      BY <1>2, <1>3, <1>4, <1>6, <1>7, <2>1, PiecesArithmetic
<1>10. /\ SumOf(Quantities, Completed) \in Int /\ SumOf(f, S) \in Int
  <2> HIDE DEF f, S
  <2> QED
      BY <1>1, <1>8, <1>9, SumBound
<1>11. Taken(Target) = SumOf(f, S)
    BY TakenIs
<1>12. ASSUME SumOf(Quantities, Completed) = SumOf(f, S), NEW o \in OfTarget
       PROVE  Settled(o)
  <2>1. IF o \in Completed THEN f[o] = Quantities[o] ELSE f[o] = 0
    <3> HIDE DEF f, S
    <3>1. \A x \in S : IF x \in Completed THEN f[x] = Quantities[x] ELSE f[x] = 0
        BY <1>1, <1>8, <1>9, <1>12, SumTight
    <3> QED
        BY <1>1, <3>1
  <2>2. o \in S /\ o \in Order /\ status[o] \in {2, 3}
      BY <1>1
  <2>3. IF status[o] = 2 THEN deducted[o] * cart[o].quantity = cart[o].quantity
                         ELSE deducted[o] * cart[o].quantity = 0
      BY <1>3, <1>4, <2>1, <2>2 DEF Completed
  <2>4. status[o] = 2 => deducted[o] >= 1
      BY <1>7 DEF Completed
  <2> QED
      BY <1>2, <1>6, <2>2, <2>3, <2>4, PiecesArithmetic DEF Settled
<1>13. ASSUME \A o \in OfTarget : Settled(o)
       PROVE  SumOf(Quantities, Completed) = SumOf(f, S)
  <2>1. \A o \in S \ Completed : f[o] = 0
    <3> SUFFICES ASSUME NEW o \in S \ Completed PROVE f[o] = 0
        OBVIOUS
    <3>1. deducted[o] = 0
        BY <1>5, <1>13 DEF Settled, Completed
    <3> QED
        BY <1>2, <1>3, <3>1
  <2>2. \A o \in Completed : f[o] = Quantities[o]
    <3> SUFFICES ASSUME NEW o \in Completed PROVE f[o] = Quantities[o]
        OBVIOUS
    <3>1. deducted[o] = 1 /\ o \in S /\ o \in Order
        BY <1>1, <1>13 DEF Settled, Completed
    <3> QED
        BY <1>2, <1>3, <1>4, <3>1
  <2>3. IsFiniteSet(Completed)
      BY <1>1, FS_Subset
  <2>4. \A o \in S : f[o] \in Int
      BY <1>8
  <2> HIDE DEF f, S
  <2> QED
      BY <1>1, <2>1, <2>2, <2>3, <2>4, SumZeros, SumSame
<1> QED
    BY <1>10, <1>11, <1>12, <1>13

\* Without an interruption every decided order is settled.
LEMMA UninterruptedSettles ==
    ASSUME TypeOK, PipelineInv, UnrecordedDeductionsAreInterrupted, Interruptions = 0,
           NEW o \in Order, status[o] \in {2, 3}
    PROVE  Settled(o)
<1>1. BeingRecorded(o) = 0
    BY DEF BeingRecorded, PipelineInv, StockInv, DbStep
<1>2. deducted[o] \in Nat /\ deducted[o] <= Recorded(o)
    BY <1>1, BoundTypes DEF UnrecordedDeductionsAreInterrupted
<1>3. RowConsistent(o)
    BY DEF PipelineInv, RowInv
<1>4. CASE status[o] = 2
  <2>1. deducted[o] >= 1 /\ Recorded(o) = 1
      BY <1>3, <1>4 DEF RowConsistent, Recorded, Queue
  <2> QED
      BY <1>2, <1>4, <2>1 DEF Settled
<1>5. CASE status[o] = 3
  <2>1. Recorded(o) = 0
      BY <1>3, <1>5 DEF RowConsistent, Recorded
  <2> QED
      BY <1>2, <1>5, <2>1 DEF Settled
<1> QED
    BY <1>4, <1>5

\* The judgement: what is left in stock is what was there less what was sold
\* if every order is settled, and only then.
LEMMA JudgementIsRight ==
    ASSUME TypeOK, PipelineInv, UnrecordedDeductionsAreInterrupted, DrainedIsDecided,
           VerdictInv, stage = "judging", consumed, Undisturbed
    PROVE  /\ Conserved(stock[Target]) => \A o \in OfTarget : Settled(o)
           /\ ~Conserved(stock[Target]) => Interruptions > 0
<1>1. \A o \in OfTarget : o \in Order /\ status[o] \in {2, 3}
    BY DEF Undisturbed, DrainedIsDecided, OfTarget, Rows
<1>2. initial = stock[Target] + Taken(Target)
    BY DEF VerdictInv, InitialIsTotal, Undisturbed, Stage
<1>3. sold = SumOf(Quantities, Completed)
    BY DEF VerdictInv, CountsStand
<1>4. /\ (\A o \in OfTarget : Settled(o)) <=> Taken(Target) = sold
      /\ Taken(Target) \in Int /\ sold \in Int
    BY <1>1, <1>3, TakenIsSold DEF VerdictInv
<1>5. stock[Target] \in Nat /\ Interruptions \in Nat
    BY LoadTestAssumption DEF TypeOK, Disturbance, Interruptions
<1>6. Conserved(stock[Target]) <=> Taken(Target) = sold
    BY <1>2, <1>4, <1>5 DEF Conserved
<1>7. Interruptions = 0 => \A o \in OfTarget : Settled(o)
    BY <1>1, UninterruptedSettles
<1> QED
    BY <1>4, <1>5, <1>6, <1>7

\* The test keeps the invariant: each of its readings is right when it is made.
LEMMA TestKeepsVerdict ==
    ASSUME TypeOK, PipelineInv, UnrecordedDeductionsAreInterrupted, DrainedIsDecided,
           VerdictInv, TestStep
    PROVE  VerdictInv'
<1>0. UNCHANGED vars
    BY TestStepKeeps
<1>1. /\ cart' = cart /\ status' = status /\ deducted' = deducted /\ used' = used
      /\ stock' = stock /\ request' = request
    BY <1>0 DEF vars
<1>2. /\ Rows' = Rows /\ OfTarget' = OfTarget /\ Completed' = Completed
      /\ Quantities' = Quantities /\ Interruptions' = Interruptions
    BY <1>1 DEF Rows, OfTarget, Completed, Quantities, Interruptions
<1>3. \A o : Settled(o)' <=> Settled(o)
    BY <1>1 DEF Settled
<1>4. Taken(Target)' = Taken(Target)
  <2>1. Pieces(Target)' = Pieces(Target)
      BY <1>1 DEF Pieces, OrdersOf
  <2> QED
      BY <1>1, <2>1, TakenIs, TakenIsThen
<1>5. CheckedQuantity'
    BY <1>1 DEF VerdictInv, CheckedQuantity
<1>6. polled \subseteq Rows /\ stage \in Stage
    BY DEF VerdictInv, Readings
\* Up to the counting, and when the test gives up.
<1>7. ASSUME polled' \subseteq Rows,
             stage' \in Stage \ {"sorting", "judging", "passed", "breached"},
             \/ stage' \in {"stock", "overdue", "aborted"}
             \/ /\ initial' = initial /\ known' = known
                /\ stage \in Stage \ {"stock", "overdue", "aborted"}
             \/ known' = Rows /\ initial' = stock[Target]
      PROVE  VerdictInv'
  <2>1. Readings'
      BY <1>2, <1>7 DEF Readings
  <2>2. CountsStand' /\ VerdictIsRight'
      BY <1>7 DEF CountsStand, VerdictIsRight
  <2>3. ASSUME known' = Rows, initial' = stock[Target], OfTarget \cap Rows = {}
        PROVE  Taken(Target) = 0
    <3>1. \A o \in OrdersOf(Target) : o \in Order /\ status[o] = 0
        BY <2>3 DEF OfTarget, Rows, OrdersOf
    <3>2. \A o \in OrdersOf(Target) : deducted[o] = 0 /\ cart[o].quantity \in Nat
        BY <3>1, PipelineAssumption DEF PipelineInv, RowInv, RowConsistent, TypeOK
    <3>3. \A o \in OrdersOf(Target) : Pieces(Target)[o] = 0
        BY <3>2 DEF Pieces
    <3> QED
        BY <3>3, NothingTaken
  <2>4. InitialIsTotal'
    <3> SUFFICES ASSUME stage' \notin {"stock", "overdue", "aborted"}, used["edit"] = 0,
                        OfTarget \cap known' = {}
                 PROVE  initial' = stock[Target] + Taken(Target)
        BY <1>1, <1>2, <1>4 DEF InitialIsTotal
    <3>1. CASE initial' = initial /\ known' = known
                 /\ stage \in Stage \ {"stock", "overdue", "aborted"}
        BY <3>1 DEF VerdictInv, InitialIsTotal
    <3>2. CASE known' = Rows /\ initial' = stock[Target]
      <4>1. Taken(Target) = 0 /\ stock[Target] \in Nat
          BY <2>3, <3>2, LoadTestAssumption DEF TypeOK
      <4> QED
          BY <3>2, <4>1
    <3> QED
        BY <1>7, <3>1, <3>2
  <2> QED
      BY <1>5, <2>1, <2>2, <2>4 DEF VerdictInv
<1>8. CASE ReadInitialStock
    BY <1>6, <1>7, <1>8 DEF ReadInitialStock, Stage, Verdict
<1>9. CASE Login \/ WorkersDone
    BY <1>6, <1>7, <1>9 DEF Login, WorkersDone, Stage, Verdict
<1>10. CASE NothingPending \/ WaitTimeout
    BY <1>6, <1>7, <1>10 DEF NothingPending, WaitTimeout, StopWaiting, Stage, Verdict
<1>11. CASE JudgeOverdue \/ Abort
    BY <1>6, <1>7, <1>11 DEF JudgeOverdue, Abort, ExitWith, Stage, Verdict
<1>12. ASSUME NEW o \in Jobs, PlaceOrder(o) \/ Answered(o) \/ GivenUp(o)
       PROVE  VerdictInv'
  <2>1. UNCHANGED <<stage, known, before, polled, consumed, initial, sold, processing>>
      BY <1>12 DEF PlaceOrder, Answered, GivenUp
  <2> QED
      BY <1>1, <1>2, <1>3, <1>4, <1>5, <2>1
      DEF VerdictInv, Readings, InitialIsTotal, CountsStand, VerdictIsRight, Undisturbed, Settled
<1>13. ASSUME UNCHANGED <<known, before, polled, consumed, initial>>
       PROVE  /\ Undisturbed' <=> Undisturbed
              /\ stage \notin {"stock", "overdue", "aborted"} => InitialIsTotal'
    BY <1>1, <1>2, <1>4, <1>6, <1>13 DEF Undisturbed, InitialIsTotal, VerdictInv
<1>14. ASSUME consumed, Undisturbed
       PROVE  Counted({1, 2}) = Completed /\ Counted({1}) = {}
  <2>1. \A o \in OfTarget : status[o] \in {2, 3} /\ o \notin before
      BY <1>14 DEF Undisturbed, DrainedIsDecided
  <2>2. \A o : o \in Counted({1, 2}) <=> o \in OfTarget /\ o \notin before /\ status[o] \in {1, 2}
      BY DEF Counted, Recent, OfTarget
  <2>3. \A o : o \in Counted({1}) <=> o \in OfTarget /\ o \notin before /\ status[o] = 1
      BY DEF Counted, Recent, OfTarget
  <2> QED
      BY <2>1, <2>2, <2>3 DEF Completed
<1>15. CASE CountSold
  <2>1. /\ stage = "counting" /\ stage' = "sorting"
        /\ UNCHANGED <<known, before, polled, consumed, initial>>
        /\ sold' = MapThenSumSet(LAMBDA o : cart[o].quantity, Counted({1, 2}))
      BY <1>15 DEF CountSold
  <2>2. Counted({1, 2}) \in SUBSET Order
      BY DEF Counted, Recent, Rows
  <2>3. sold' = SumOf(Quantities, Counted({1, 2}))
      BY <2>1, <2>2, SoldIs
  <2>4. CountsStand'
      BY <1>2, <1>13, <1>14, <2>1, <2>3 DEF CountsStand
  <2>5. Readings' /\ VerdictIsRight'
      BY <1>2, <1>6, <2>1 DEF Readings, VerdictIsRight, Stage
  <2> QED
      BY <1>5, <1>13, <2>1, <2>4, <2>5 DEF VerdictInv
<1>16. CASE CountProcessing
  <2>1. /\ stage = "sorting" /\ stage' = "judging"
        /\ UNCHANGED <<known, before, polled, consumed, initial, sold>>
        /\ processing' = Cardinality(Counted({1}))
      BY <1>16 DEF CountProcessing
  <2>2. consumed /\ Undisturbed => processing' = 0
      BY <1>14, <2>1, FS_EmptySet
  <2>3. CountsStand'
      BY <1>2, <1>13, <2>1, <2>2 DEF CountsStand, VerdictInv
  <2>4. Readings' /\ VerdictIsRight'
      BY <1>2, <1>6, <2>1 DEF Readings, VerdictIsRight, Stage
  <2> QED
      BY <1>5, <1>13, <2>1, <2>3, <2>4 DEF VerdictInv
<1>17. CASE JudgeStock
  <2>1. /\ stage = "judging" /\ consumed
        /\ UNCHANGED <<known, before, polled, consumed, initial, sold, processing>>
        /\ stage' = IF Conserved(stock[Target]) THEN "passed" ELSE "breached"
      BY <1>17 DEF JudgeStock
  <2>2. CountsStand'
      BY <1>2, <1>13, <2>1 DEF CountsStand, VerdictInv
  <2>3. Readings'
      BY <1>2, <1>6, <2>1 DEF Readings, Stage, Verdict
  <2>4. VerdictIsRight'
    <3> SUFFICES ASSUME Undisturbed
                 PROVE  /\ stage' = "passed" => processing' = 0 /\ \A o \in OfTarget' : Settled(o)'
                        /\ stage' = "breached" => Interruptions' > 0
        BY <1>13, <2>1 DEF VerdictIsRight, Settled
    <3>1. processing = 0
        BY <2>1 DEF VerdictInv, CountsStand
    <3>2. /\ Conserved(stock[Target]) => \A o \in OfTarget : Settled(o)
          /\ ~Conserved(stock[Target]) => Interruptions > 0
        BY <2>1, JudgementIsRight
    <3> QED
        BY <1>2, <1>3, <2>1, <3>1, <3>2
  <2> QED
      BY <1>5, <1>13, <2>1, <2>2, <2>3, <2>4 DEF VerdictInv
<1> QED
    BY <1>8, <1>9, <1>10, <1>11, <1>12, <1>15, <1>16, <1>17 DEF TestStep

\* The verdict of the load test is right whenever nobody else disturbed it:
\* "passed" means that every order took its pieces exactly once or was
\* cancelled untouched, "breached" that a handler was interrupted, although the
\* stock, the orders and the wait were read at five different moments
\* (cmd/loadtest/main.go, the comparison after the wait).
THEOREM VerdictIsAlwaysRight == LoadSpec => []VerdictIsRight
<1>1. LoadInit => VerdictInv
  <2> SUFFICES ASSUME LoadInit PROVE VerdictInv
      OBVIOUS
  <2>1. CheckedQuantity
      BY DEF LoadInit, Init, CheckedQuantity
  <2> QED
      BY <2>1 DEF LoadInit, VerdictInv, InitialIsTotal, CountsStand, Readings, VerdictIsRight, Stage
<1>2. LoadSpec => [](TypeOK /\ PipelineInv /\ UnrecordedDeductionsAreInterrupted)
  BY LoadTestRunsThePipeline, PipelineInvariant, UnrecordedDeductionsHaveACause, PTL
<1>3. LoadSpec => [][\A o \in Order :
                       status[o] \in {2, 3} => status'[o] = status[o]]_status
  BY LoadTestRunsThePipeline, EndsAreFinalHolds, PTL DEF EndsAreFinal
<1>4. /\ TypeOK /\ PipelineInv /\ UnrecordedDeductionsAreInterrupted
      /\ DrainedIsDecided /\ VerdictInv
      /\ [LoadNext]_loadVars
      /\ [\A o \in Order : status[o] \in {2, 3} => status'[o] = status[o]]_status
      => VerdictInv'
  <2> SUFFICES ASSUME TypeOK, PipelineInv, UnrecordedDeductionsAreInterrupted,
                      DrainedIsDecided, VerdictInv, [LoadNext]_loadVars,
                      [\A o \in Order :
                          status[o] \in {2, 3} => status'[o] = status[o]]_status
               PROVE  VerdictInv'
    OBVIOUS
  <2>1. CASE TestStep
    BY <2>1, TestKeepsVerdict
  <2>2. CASE SystemStep \/ Over \/ UNCHANGED loadVars
    <3>1. [Next]_vars /\ UNCHANGED testVars
      BY <2>2 DEF SystemStep, Over, loadVars
    <3> QED
      BY <3>1, SystemKeepsVerdict
  <2> QED
    BY <2>1, <2>2 DEF LoadNext
<1>5. VerdictInv => VerdictIsRight
  BY DEF VerdictInv
<1> QED
  BY <1>1, <1>2, <1>3, <1>4, <1>5, DrainedIsAlwaysDecided, PTL DEF LoadSpec
===============================================================================
