------------------------------- MODULE LoadTest -------------------------------
(***************************************************************************)
(* The load test beside the order pipeline it drives: it notes the stock,  *)
(* logs in, lets its workers place orders of one piece, polls the orders   *)
(* until the consumers have caught up or a deadline passes, counts the     *)
(* orders and the stock in separate statements, and gives its verdict.     *)
(*                                                                         *)
(* The test sees the pipeline through the answers of the server and the    *)
(* rows of MySQL only.  Everybody else goes on: other requests, consumers, *)
(* crashes, republished events, administrators.  The counts by answer and  *)
(* by status that are only printed are left out, and so is the size of the *)
(* worker pool: any number of requests may be under way.                   *)
(***************************************************************************)
EXTENDS OrderPipeline

CONSTANTS Jobs,     \* the order requests that the test makes
          Target    \* the product it orders

ASSUME LoadTestAssumption ==
    /\ Jobs \subseteq Order
    /\ Target \in Product
    /\ 1 \in Quantity

VARIABLES
    stage,      \* where the test is, or its verdict
    call,       \* what a worker knows of each request
    known,      \* history: the order rows there when the stock was noted
    before,     \* the order rows that created_at >= start leaves out
    polled,     \* history: the order rows there when the wait ended
    consumed,   \* the wait ended because nothing was pending
    initial,    \* initialStock
    sold,       \* pieces of the orders processing or completed
    processing  \* orders still processing when they were counted

testVars == <<stage, call, known, before, polled, consumed, initial, sold,
              processing>>
loadVars == <<vars, testVars>>

Verdict == {"passed", "breached", "overdue", "aborted"}
Stage == {"stock", "login", "placing", "polling", "counting", "sorting",
          "judging"} \cup Verdict

Rows == {o \in Order : status[o] # 0}

LoadTypeOK ==
    /\ stage \in Stage
    /\ call \in [Jobs -> {"waiting", "sent", "answered", "lost"}]
    /\ known \in SUBSET Order /\ before \in SUBSET Order
    /\ polled \in SUBSET Order
    /\ consumed \in BOOLEAN

\* Requests of one piece of the product, nothing placed or read yet.
LoadInit ==
    /\ Init
    /\ \A o \in Jobs : cart[o] = [product |-> Target, quantity |-> 1]
    /\ stage = "stock"
    /\ call = [o \in Jobs |-> "waiting"]
    /\ known = {} /\ before = {} /\ polled = {}
    /\ consumed = FALSE
    /\ initial = 0 /\ sold = 0 /\ processing = 0

-------------------------------------------------------------------------------
(***************************************************************************)
(* The system under test.  The server handles a request of the test once a *)
(* worker has sent it, and may go on with it after the worker gave it up.  *)
(***************************************************************************)
SystemStep ==
    /\ Next
    /\ \A o \in Jobs : call[o] = "waiting" => request'[o] = "new"
    /\ UNCHANGED testVars

-------------------------------------------------------------------------------
(***************************************************************************)
(* The test: preparation and orders.                                       *)
(***************************************************************************)
ReadInitialStock ==
    /\ stage = "stock"
    /\ catalog[Target] = "listed"
    /\ initial' = stock[Target]
    /\ known' = Rows
    /\ stage' = "login"
    /\ UNCHANGED <<vars, call, before, polled, consumed, sold, processing>>

\* Logged in; the start is put back by a second, so that some of the rows
\* that are already there are counted as the test's own.
Login ==
    /\ stage = "login"
    /\ \E older \in SUBSET Rows : before' = older
    /\ stage' = "placing"
    /\ UNCHANGED <<vars, call, known, polled, consumed, initial, sold,
                   processing>>

PlaceOrder(o) ==
    /\ stage = "placing"
    /\ call[o] = "waiting"
    /\ call' = [call EXCEPT ![o] = "sent"]
    /\ UNCHANGED <<vars, stage, known, before, polled, consumed, initial, sold,
                   processing>>

Answered(o) ==
    /\ call[o] = "sent"
    /\ request[o] \in {"rejected", "published", "lost"}
    /\ call' = [call EXCEPT ![o] = "answered"]
    /\ UNCHANGED <<vars, stage, known, before, polled, consumed, initial, sold,
                   processing>>

\* The client's ten seconds are over, or the connection breaks.
GivenUp(o) ==
    /\ call[o] = "sent"
    /\ call' = [call EXCEPT ![o] = "lost"]
    /\ UNCHANGED <<vars, stage, known, before, polled, consumed, initial, sold,
                   processing>>

WorkersDone ==
    /\ stage = "placing"
    /\ \A o \in Jobs : call[o] \in {"answered", "lost"}
    /\ stage' = "polling"
    /\ UNCHANGED <<vars, call, known, before, polled, consumed, initial, sold,
                   processing>>

-------------------------------------------------------------------------------
(***************************************************************************)
(* The test: waiting, counting, judging.                                   *)
(***************************************************************************)
Recent == Rows \ before

\* Faulty: the stock column alone is waited for.
PendingStock == {o \in Recent : step["stock"][o] = 0}

\* The orders, of any product, that the consumers still owe something.
Pending ==
    {o \in Recent :
        \/ step["stock"][o] = 0
        \/ status[o] \in {1, 2} /\ \E r \in Reward : step[r][o] = 0}

StopWaiting ==
    /\ stage' = "counting"
    /\ polled' = Rows
    /\ UNCHANGED <<vars, call, known, before, initial, sold, processing>>

NothingPending ==
    /\ stage = "polling"
    /\ Pending = {}
    /\ consumed' = TRUE
    /\ StopWaiting

WaitTimeout ==
    /\ stage = "polling"
    /\ Pending # {}
    /\ consumed' = FALSE
    /\ StopWaiting

Counted(statuses) ==
    {o \in Recent : cart[o].product = Target /\ status[o] \in statuses}

CountSold ==
    /\ stage = "counting"
    /\ sold' = MapThenSumSet(LAMBDA o : cart[o].quantity, Counted({1, 2}))
    /\ stage' = "sorting"
    /\ UNCHANGED <<vars, call, known, before, polled, consumed, initial,
                   processing>>

CountProcessing ==
    /\ stage = "sorting"
    /\ processing' = Cardinality(Counted({1}))
    /\ stage' = "judging"
    /\ UNCHANGED <<vars, call, known, before, polled, consumed, initial, sold>>

\* Faulty: what is left of the stock is not compared.
ConservedUnlessOversold(finalStock) == sold <= initial

Conserved(finalStock) == finalStock = initial - sold /\ sold <= initial

\* The stock is read once more and compared.
JudgeStock ==
    /\ stage = "judging"
    /\ consumed
    /\ catalog[Target] = "listed"
    /\ stage' = IF Conserved(stock[Target]) THEN "passed" ELSE "breached"
    /\ UNCHANGED <<vars, call, known, before, polled, consumed, initial, sold,
                   processing>>

\* The process exits without a comparison, and what it knew is gone; the
\* requests it had sent are the server's.
ExitWith(verdict) ==
    /\ stage' = verdict
    /\ call' = [o \in Jobs |-> IF call[o] = "waiting" THEN "waiting" ELSE "lost"]
    /\ known' = {} /\ before' = {} /\ polled' = {}
    /\ consumed' = FALSE
    /\ initial' = 0 /\ sold' = 0 /\ processing' = 0
    /\ UNCHANGED vars

\* The wait ended with the deadline.
JudgeOverdue == stage = "judging" /\ ~consumed /\ ExitWith("overdue")

\* The product has no row; or the login or a statement fails.
Abort == stage \notin Verdict \cup {"placing"} /\ ExitWith("aborted")

Over == stage \in Verdict /\ UNCHANGED loadVars

TestStep ==
    \/ ReadInitialStock \/ Login \/ WorkersDone
    \/ \E o \in Jobs : PlaceOrder(o) \/ Answered(o) \/ GivenUp(o)
    \/ NothingPending \/ WaitTimeout
    \/ CountSold \/ CountProcessing \/ JudgeStock \/ JudgeOverdue \/ Abort

LoadNext == SystemStep \/ TestStep \/ Over

LoadSpec == LoadInit /\ [][LoadNext]_loadVars

-------------------------------------------------------------------------------
(***************************************************************************)
(* Properties.                                                             *)
(***************************************************************************)
\* When the poll finds nothing pending, every order it looked at is completed
\* or cancelled, and stays so while the test counts: the columns it asks for,
\* written by three consumers, are enough to tell that they are through
\* (main.go:141 "stock_status 每单必回写").
DrainedIsDecided ==
    consumed => \A o \in polled \ before : status[o] \in {2, 3}

\* The inductive invariant behind it: a reward consumer writes nothing but 1,
\* and the wait is over only once the test says so.
RewardColumns == \A r \in Reward : \A o \in Order : step[r][o] \in {0, 1}

WaitInv == stage \in {"stock", "login", "placing", "polling"} => ~consumed

LoadInv == RewardColumns /\ WaitInv /\ DrainedIsDecided

\* Nobody but the test ordered the product since before it noted the stock,
\* and no request of its own that it gave up became a row after the wait.
OfTarget == {o \in Rows : cart[o].product = Target}

Undisturbed ==
    /\ used["edit"] = 0
    /\ OfTarget \cap (known \cup before) = {}
    /\ OfTarget \subseteq polled

\* A verdict on an undisturbed test is right, crashes and redeliveries
\* included.  If it passed, no order is left processing, each completed order
\* took its piece exactly once and no cancelled one took any; if it reports a
\* breach, a crash or a failure cut a handler short (main.go:196, "守恒校验").
VerdictIsRight ==
    Undisturbed =>
        /\ stage = "passed" =>
              /\ processing = 0
              /\ \A o \in OfTarget :
                    \/ status[o] = 2 /\ deducted[o] = 1
                    \/ status[o] = 3 /\ deducted[o] = 0
        /\ stage = "breached" => Interruptions > 0
===============================================================================
