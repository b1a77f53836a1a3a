------------------------ MODULE OrderStateScheduler ------------------------
(***************************************************************************)
(* The scheduler that moves orders along: rounds of three transitions, and *)
(* in each of them pages of the orders in one status, oldest first, of     *)
(* which a coin selects some for a batch.                                  *)
(*                                                                         *)
(* A batch is one step here: the repository keeps that promise (see        *)
(* RepositoryClients).  Besides the scheduler there are payments and the   *)
(* batches of other instances of the program; a change over HTTP that      *)
(* takes an order to its next stage is like a batch of one.  The Save that *)
(* overwrites a status it has not seen is not here (see ServiceStaleSave): *)
(* all that is said below is said of a table where no Save does so.        *)
(*                                                                         *)
(* Of updated_at only the order matters: the model keeps for every order   *)
(* how many have an earlier time than it.                                  *)
(***************************************************************************)
EXTENDS OrderStatus, FiniteSets, Functions

CONSTANTS Orders,      \* order ids
          NoRow,       \* "the table has no row for this id"
          BatchSizes,  \* values of SCHEDULER_BATCH_SIZE
          MaxFaults    \* bound on errors and crashes

ASSUME SchedulerAssumption ==
  /\ NoRow \notin Statuses
  /\ IsFiniteSet(Orders)
  /\ BatchSizes \subseteq Nat
  /\ MaxFaults \in Nat

VARIABLES status,     \* [Orders -> Statuses or NoRow]: the table
          updatedAt,  \* [Orders -> Nat]: its updated_at column
          batchSize,  \* as configured when the process started
          pc,         \* where the scheduler's goroutine is
          stage,      \* which of the transitions it works on
          offset,     \* local to processStatusTransition
          ids,        \* the page's orders, then orderIDsToUpdate
          full,       \* the last page had batchSize orders
          unsent,     \* events of the batch still to be published
          told,       \* [Orders -> the last stage announced, 0 for none]
          stopping,   \* stopChan is closed
          faults      \* errors and crashes so far

tableVars == <<status, updatedAt>>
pageVars  == <<offset, ids, full>>
vars == <<tableVars, batchSize, pc, stage, pageVars, unsent, told, stopping, faults>>

\* processOrders: From(1) -> From(2) -> From(3) -> From(4).
Stages == 1..3
route == <<"WaitingForShipment", "InTransit", "WaitPickup", "Completed">>
From(t) == route[t]
To(t)   == route[t + 1]

Busy == {"query", "page", "update", "publish", "done"}

TypeOK ==
  /\ status \in [Orders -> Statuses \cup {NoRow}]
  /\ updatedAt \in [Orders -> Nat]
  /\ batchSize \in BatchSizes
  /\ pc \in Busy \cup {"waiting", "stopped"}
  /\ stage \in Stages
  /\ offset \in Nat
  /\ ids \subseteq Orders
  /\ full \in BOOLEAN
  /\ unsent \subseteq Orders \X Stages
  /\ told \in [Orders -> 0..3]
  /\ stopping \in BOOLEAN
  /\ faults \in 0..MaxFaults

In(s) == {o \in Orders : status[o] = s}

\* Start does a first round at once.  The orders have come one after another.
Init ==
  /\ status \in [Orders -> {NoRow, "Created", "WaitingForShipment"}]
  /\ updatedAt \in [Orders -> 0..(Cardinality(Orders) - 1)]
  /\ IsInjective(updatedAt)
  /\ batchSize \in BatchSizes
  /\ pc = "query" /\ stage = 1 /\ offset = 0
  /\ ids = {} /\ full = FALSE /\ unsent = {}
  /\ told = [o \in Orders |-> 0]
  /\ stopping = FALSE
  /\ faults = 0

-----------------------------------------------------------------------------
(* The table *)

\* The orders of S get status s, and the trigger sets their time to NOW().  That
\* is the start of the transaction: rows that others have updated since then
\* may be newer, and Before are those that are not.
Update(S, s) ==
  /\ status' = [o \in Orders |-> IF o \in S THEN s ELSE status[o]]
  /\ \E Before \in SUBSET (Orders \ S) :
       /\ \A o \in Before : \A p \in Orders \ S :
            updatedAt[p] <= updatedAt[o] => p \in Before
       /\ updatedAt' = [o \in Orders |-> Cardinality(
            IF o \in S THEN Before
            ELSE {p \in Orders \ S : updatedAt[p] < updatedAt[o]}
                 \cup (IF o \in Before THEN {} ELSE S \cap Orders))]

\* The UPDATE of a batch compares the status of each row.
BatchUpdateOrderStatus(S, t) ==
  Update({o \in S : status[o] = From(t)}, To(t))

\* A limit that is not positive is taken to be 100.
Limit == IF batchSize = 0 THEN 100 ELSE batchSize

Older(S, T) == \A o \in S, p \in T : updatedAt[o] <= updatedAt[p]

\* ORDER BY updated_at ASC LIMIT ... OFFSET ...; ties in any order.
IsPage(P) ==
  LET All == In(From(stage)) IN
  /\ P \subseteq All
  /\ \E Skipped \in SUBSET (All \ P) :
       LET Rest == All \ (P \cup Skipped) IN
       /\ Cardinality(Skipped) <= offset
       /\ Cardinality(P) <= Limit
       /\ Cardinality(Skipped) < offset => P \cup Rest = {}
       /\ Cardinality(P) < Limit => Rest = {}
       /\ Older(Skipped, P \cup Rest)
       /\ Older(P, Rest)

-----------------------------------------------------------------------------
(* The scheduler *)

Goto(p) == pc' = p

\* Mutant: the offset stays, since the updated orders leave the result.
AfterPageSameOffset(isFull) ==
  /\ IF isFull THEN Goto("query") ELSE Goto("done")
  /\ UNCHANGED offset

\* The break at the end of the loop, or the next page.
AfterPage(isFull) ==
  \/ /\ isFull
     /\ offset' = offset + batchSize
     /\ Goto("query")
  \/ /\ ~ isFull
     /\ Goto("done")
     /\ UNCHANGED offset

\* Mutant: pages are counted from one.
BeginTransitionAtPageOne(t) ==
  /\ stage' = t
  /\ offset' = batchSize
  /\ Goto("query")
  /\ UNCHANGED <<tableVars, batchSize, ids, full, unsent, told, stopping, faults>>

BeginTransition(t) ==
  /\ stage' = t
  /\ offset' = 0
  /\ Goto("query")
  /\ UNCHANGED <<tableVars, batchSize, ids, full, unsent, told, stopping, faults>>

\* Mutant: one transition too many.
NextTransitionOneTooMany ==
  /\ pc = "done"
  /\ BeginTransition(stage + 1)

NextTransition ==
  /\ pc = "done"
  /\ \/ stage < 3 /\ BeginTransition(stage + 1)
     \/ /\ stage = 3
        /\ Goto("waiting")
        /\ UNCHANGED <<tableVars, batchSize, stage, pageVars, unsent, told,
                       stopping, faults>>

\* The next page; an empty one ends the transition.
GetOrdersByStatus(P) ==
  /\ pc = "query"
  /\ IsPage(P)
  /\ full' = (Cardinality(P) >= batchSize)
  /\ ids' = P
  /\ Goto(IF P = {} THEN "done" ELSE "page")
  /\ UNCHANGED <<tableVars, batchSize, stage, offset, unsent, told, stopping, faults>>

\* A coin is thrown for each order of the page; it shows heads for those of S.
SelectOrders(S) ==
  /\ pc = "page"
  /\ S \subseteq ids
  /\ ids' = S
  /\ \/ S = {} /\ AfterPage(full)
     \/ S # {} /\ Goto("update") /\ UNCHANGED offset
  /\ UNCHANGED <<tableVars, batchSize, stage, full, unsent, told,
                 stopping, faults>>

GetOrdersByStatusFails ==
  /\ pc = "query"
  /\ faults < MaxFaults
  /\ faults' = faults + 1
  /\ Goto("done")
  /\ UNCHANGED <<tableVars, batchSize, stage, pageVars, unsent, told, stopping>>

\* Mutant: the events are left to a goroutine of their own.
processBatchPublishingLater ==
  /\ pc = "update"
  /\ BatchUpdateOrderStatus(ids, stage)
  /\ unsent' = unsent \cup ids \X {stage}
  /\ AfterPage(full)
  /\ UNCHANGED <<batchSize, stage, ids, full, told, stopping, faults>>

\* Every id of the batch gets its event, whichever rows were updated.
processBatch ==
  /\ pc = "update"
  /\ BatchUpdateOrderStatus(ids, stage)
  /\ unsent' = ids \X {stage}
  /\ Goto("publish")
  /\ UNCHANGED <<batchSize, stage, pageVars, told, stopping, faults>>

\* Mutant: the error of the batch is not noticed.
processBatchFailsUnnoticed ==
  /\ pc = "update"
  /\ faults < MaxFaults
  /\ faults' = faults + 1
  /\ BatchUpdateOrderStatus(ids, stage) \/ UNCHANGED tableVars
  /\ unsent' = ids \X {stage}
  /\ Goto("publish")
  /\ UNCHANGED <<batchSize, stage, pageVars, told, stopping>>

\* The batch has failed, or its answer was lost; it is counted and left.
processBatchFails ==
  /\ pc = "update"
  /\ faults < MaxFaults
  /\ faults' = faults + 1
  /\ BatchUpdateOrderStatus(ids, stage) \/ UNCHANGED tableVars
  /\ AfterPage(full)
  /\ UNCHANGED <<batchSize, stage, ids, full, unsent, told, stopping>>

\* One event is sent, or lost: the error is only logged.
PublishOrderStatusChanged ==
  /\ \E e \in unsent :
       /\ unsent' = unsent \ {e}
       /\ told' \in {told, [told EXCEPT ![e[1]] = e[2]]}
  /\ UNCHANGED <<tableVars, batchSize, pc, stage, pageVars, stopping, faults>>

Published ==
  /\ pc = "publish"
  /\ unsent = {}
  /\ AfterPage(full)
  /\ UNCHANGED <<tableVars, batchSize, stage, ids, full, unsent, told,
                 stopping, faults>>

\* Where a tick and the closed stopChan are both ready, select takes either.
Tick == pc = "waiting" /\ BeginTransition(1)

Stop ==
  /\ pc # "stopped"
  /\ ~ stopping
  /\ stopping' = TRUE
  /\ UNCHANGED <<tableVars, batchSize, pc, stage, pageVars, unsent, told, faults>>

Returns ==
  /\ pc = "waiting"
  /\ stopping
  /\ Goto("stopped")
  /\ UNCHANGED <<tableVars, batchSize, stage, pageVars, unsent, told, stopping, faults>>

\* The process starts again, after Stop or after a crash.
Start ==
  /\ stage' = 1 /\ offset' = 0
  /\ Goto("query")
  /\ ids' = {} /\ full' = FALSE /\ unsent' = {}
  /\ stopping' = FALSE
  /\ UNCHANGED <<tableVars, batchSize, told>>

Restart == pc = "stopped" /\ Start /\ UNCHANGED faults

Crash == /\ pc # "stopped"
         /\ faults < MaxFaults
         /\ faults' = faults + 1
         /\ Start

-----------------------------------------------------------------------------
(* What else happens to the table *)

Elsewhere == UNCHANGED <<batchSize, pc, stage, pageVars, unsent, told, stopping, faults>>

\* The status is checked as it is written.  In the code the read comes earlier
\* and without a lock; a Save that then overwrites something newer is left out.
PaymentCompleted(o) ==
  /\ status[o] \in {NoRow, "Created"}
  /\ Update({o}, "WaitingForShipment")
  /\ Elsewhere

OtherInstance ==
  /\ \E t \in Stages : \E S \in SUBSET In(From(t)) :
       S # {} /\ BatchUpdateOrderStatus(S, t)
  /\ Elsewhere

-----------------------------------------------------------------------------
Scheduler == \/ \E S \in SUBSET Orders : GetOrdersByStatus(S) \/ SelectOrders(S)
             \/ processBatch
             \/ PublishOrderStatusChanged
             \/ Published
             \/ NextTransition
             \/ Tick

Next == \/ Scheduler
        \/ GetOrdersByStatusFails \/ processBatchFails \/ Crash
        \/ Stop \/ Returns \/ Restart
        \/ \E o \in Orders : PaymentCompleted(o)
        \/ OtherInstance

\* The goroutine goes on, and the ticker ticks.
Spec == Init /\ [][Next]_vars /\ WF_vars(Scheduler)

-----------------------------------------------------------------------------
\* The events of an order leave in the order of its life, though some may be
\* lost: batches that fail or turn out to be stale, errors, crashes and other
\* instances do not make this scheduler announce an earlier stage later, as
\* long as no Save takes an order back by overwriting what it has not seen.
EventsInOrder == [][\A o \in Orders : told'[o] >= told[o]]_vars

\* How many of the scheduler's stages an order in status s has behind it.
StagesBehind(s) == IF s = To(1) THEN 1
                   ELSE IF s = To(2) THEN 2
                   ELSE IF s = To(3) THEN 3 ELSE 0

\* No event announces a stage that its order has not reached, although a batch
\* announces every id that it was given: the rows it leaves out have been
\* moved by somebody else, and further.  (A Save that overwrites what it has
\* not seen could take a row back between the page and the UPDATE.)
NothingToldTooEarly == \A o \in Orders : told[o] <= StagesBehind(status[o])

\* A round comes to an end, whatever the coins say and whenever the orders
\* arrive.  (There are finitely many: a stream of new orders without end could
\* keep a round going.  Without a batch size a round goes on until nothing is
\* left.)
RoundEnds == (pc \in Busy /\ batchSize > 0) ~> (pc = "waiting")

\* A coin that is thrown for an order again and again shows heads some time.
FairCoins ==
  \A o \in Orders :
    SF_vars(\E S \in SUBSET Orders : o \in S /\ SelectOrders(S))

\* Every order's turn comes: it gets through all its stages, however the pages
\* shift under the offset, unless the scheduler is stopped.  (And unless a Save
\* that overwrites what it has not seen cancels it or takes it back.)
EveryOrderArrives ==
  FairCoins => \A o \in Orders :
    (status[o] = "WaitingForShipment") ~> (status[o] = "Completed" \/ stopping)

-----------------------------------------------------------------------------
(* What makes the safety properties inductive. *)

OnTheWay == {route[i] : i \in 1..4}

\* The order at hand has come as far as this transition, and no event of this
\* transition or of a later one has been sent for it.
AtStage(o) == /\ status[o] \in OnTheWay
              /\ StagesBehind(status[o]) >= stage - 1
              /\ told[o] < stage

UnsentAreTrue ==
  \A e \in unsent : /\ e[2] = stage
                    /\ told[e[1]] <= stage
                    /\ stage <= StagesBehind(status[e[1]])

IInv == /\ TypeOK
        /\ status \in [Orders -> {NoRow, "Created"} \cup OnTheWay]
        /\ NothingToldTooEarly
        /\ unsent # {} => pc = "publish"
        /\ pc \in {"page", "update"} => \A o \in ids : AtStage(o)
        /\ UnsentAreTrue
=============================================================================
