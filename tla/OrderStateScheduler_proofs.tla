--------------------- MODULE OrderStateScheduler_proofs ---------------------
(***************************************************************************)
(* Proofs about the scheduler, for every finite set of orders and every    *)
(* configuration.                                                          *)
(***************************************************************************)
EXTENDS OrderStateScheduler, FiniteSetTheorems, TLAPS

-----------------------------------------------------------------------------
(* Stages and statuses. *)

LEMMA StageType == TypeOK => stage \in {1, 2, 3}
BY DEF TypeOK, Stages

\* The statuses that a stage leads from and to.
LEMMA RouteType ==
  ASSUME NEW t \in Stages
  PROVE  /\ From(t) \in OnTheWay /\ StagesBehind(From(t)) = t - 1
         /\ To(t) \in OnTheWay /\ StagesBehind(To(t)) = t
<1>1. /\ route[1] = "WaitingForShipment" /\ route[2] = "InTransit"
      /\ route[3] = "WaitPickup" /\ route[4] = "Completed"
  BY DEF route
<1>2. t \in {1, 2, 3}
  BY DEF Stages
<1> QED
  BY <1>1, <1>2 DEF From, To, OnTheWay, StagesBehind

\* How far an order can have come.
LEMMA BehindType ==
  ASSUME NEW s
  PROVE  /\ StagesBehind(s) \in 0..3
         /\ s \in OnTheWay => s \in Statuses
         /\ \A t \in Stages : /\ s \in OnTheWay
                              /\ s # From(t)
                              /\ StagesBehind(s) >= t - 1
                              => StagesBehind(s) >= t
<1>1. /\ route[1] = "WaitingForShipment" /\ route[2] = "InTransit"
      /\ route[3] = "WaitPickup" /\ route[4] = "Completed"
  BY DEF route
<1>2. StagesBehind(s) \in 0..3
  BY DEF StagesBehind
<1>3. OnTheWay = {"WaitingForShipment", "InTransit", "WaitPickup", "Completed"}
  <2>1. 1..4 = {1, 2, 3, 4}
    OBVIOUS
  <2> QED
    BY <1>1, <2>1 DEF OnTheWay
<1>4. ASSUME NEW t \in Stages, s \in OnTheWay, s # From(t), StagesBehind(s) >= t - 1
      PROVE  StagesBehind(s) >= t
  <2>1. t \in {1, 2, 3}
    BY DEF Stages
  <2> QED
    BY <1>1, <1>3, <1>4, <2>1 DEF From, To, StagesBehind
<1> QED
  BY <1>2, <1>3, <1>4 DEF Statuses

-----------------------------------------------------------------------------
(* Types. *)

\* There are finitely many orders, so each has a place in the order of updates.
LEMMA UpdateType ==
  ASSUME TypeOK, NEW S, NEW s \in Statuses, Update(S, s)
  PROVE  /\ status' \in [Orders -> Statuses \cup {NoRow}]
         /\ updatedAt' \in [Orders -> Nat]
<1>1. \A T \in SUBSET Orders : Cardinality(T) \in Nat
  BY SchedulerAssumption, FS_Subset, FS_CardinalityType
<1> DEFINE earlier(Before, o) ==
             IF o \in S THEN Before
             ELSE {p \in Orders \ S : updatedAt[p] < updatedAt[o]}
                  \cup (IF o \in Before THEN {} ELSE S \cap Orders)
<1>2. PICK Before \in SUBSET (Orders \ S) :
        updatedAt' = [o \in Orders |-> Cardinality(earlier(Before, o))]
  BY DEF Update
<1>3. updatedAt' \in [Orders -> Nat]
  <2>1. \A o \in Orders : earlier(Before, o) \in SUBSET Orders
    OBVIOUS
  <2>2. \A o \in Orders : Cardinality(earlier(Before, o)) \in Nat
    BY <1>1, <2>1
  <2> HIDE DEF earlier
  <2> QED
    BY <1>2, <2>2
<1>4. status' \in [Orders -> Statuses \cup {NoRow}]
  BY DEF Update, TypeOK
<1> QED
  BY <1>3, <1>4

LEMMA BatchType ==
  ASSUME TypeOK, NEW S, NEW t \in Stages, BatchUpdateOrderStatus(S, t)
  PROVE  /\ status' \in [Orders -> Statuses \cup {NoRow}]
         /\ updatedAt' \in [Orders -> Nat]
<1>1. To(t) \in Statuses
  BY RouteType, BehindType
<1> QED
  BY <1>1, UpdateType DEF BatchUpdateOrderStatus

LEMMA AfterPageType ==
  ASSUME TypeOK, NEW b, AfterPage(b)
  PROVE  /\ pc' \in Busy \cup {"waiting", "stopped"}
         /\ offset' \in Nat
BY SchedulerAssumption DEF AfterPage, TypeOK, Busy, Goto

LEMMA InitType == Init => TypeOK
<1> SUFFICES ASSUME Init PROVE TypeOK
  OBVIOUS
<1>1. Cardinality(Orders) \in Nat
  BY SchedulerAssumption, FS_CardinalityType
<1>2. updatedAt \in [Orders -> Nat]
  BY <1>1 DEF Init
<1>3. status \in [Orders -> Statuses \cup {NoRow}]
  BY DEF Init, Statuses
<1>4. 0 \in Nat /\ 0 \in 0..MaxFaults /\ 1 \in Stages
  BY SchedulerAssumption DEF Stages
<1>5. told \in [Orders -> 0..3]
  BY DEF Init
<1>6. unsent \subseteq Orders \X Stages
  BY DEF Init
<1> QED
  BY <1>2, <1>3, <1>4, <1>5, <1>6 DEF Init, TypeOK, Busy

\* What the scheduler does when nothing goes wrong.
LEMMA SchedulerType ==
  ASSUME TypeOK, Scheduler
  PROVE  TypeOK'
<1> USE DEF tableVars, pageVars, Goto
<1>1. ASSUME NEW S \in SUBSET Orders, GetOrdersByStatus(S) PROVE TypeOK'
  BY <1>1 DEF GetOrdersByStatus, TypeOK, Busy
<1>2. ASSUME NEW S \in SUBSET Orders, SelectOrders(S) PROVE TypeOK'
  <2>1. /\ pc' \in Busy \cup {"waiting", "stopped"}
        /\ offset' \in Nat
    BY <1>2, AfterPageType DEF SelectOrders, TypeOK, Busy
  <2> QED
    BY <1>2, <2>1 DEF SelectOrders, TypeOK
<1>3. CASE processBatch
  <2>1. stage \in Stages
    BY DEF TypeOK
  <2>2. /\ status' \in [Orders -> Statuses \cup {NoRow}]
        /\ updatedAt' \in [Orders -> Nat]
    BY <1>3, <2>1, BatchType DEF processBatch
  <2>3. unsent' \subseteq Orders \X Stages
    BY <1>3, <2>1 DEF processBatch, TypeOK
  <2> QED
    BY <1>3, <2>2, <2>3 DEF processBatch, TypeOK, Busy
<1>4. CASE PublishOrderStatusChanged
  <2>1. PICK e \in unsent : /\ unsent' = unsent \ {e}
                            /\ told' \in {told, [told EXCEPT ![e[1]] = e[2]]}
    BY <1>4 DEF PublishOrderStatusChanged
  <2>2. e[2] \in 0..3
    BY DEF TypeOK, Stages
  <2>3. told' \in [Orders -> 0..3]
    BY <2>1, <2>2 DEF TypeOK
  <2> QED
    BY <1>4, <2>1, <2>3 DEF PublishOrderStatusChanged, TypeOK
<1>5. CASE Published
  BY <1>5, AfterPageType DEF Published, TypeOK
<1>6. CASE NextTransition
  BY <1>6 DEF NextTransition, BeginTransition, TypeOK, Busy, Stages
<1>7. CASE Tick
  BY <1>7 DEF Tick, BeginTransition, TypeOK, Busy, Stages
<1> QED
  BY <1>1, <1>2, <1>3, <1>4, <1>5, <1>6, <1>7 DEF Scheduler

\* The bound on errors and crashes.
LEMMA FaultType ==
  ASSUME TypeOK, faults < MaxFaults, faults' = faults + 1
  PROVE  faults' \in 0..MaxFaults
BY SchedulerAssumption DEF TypeOK

LEMMA StartType ==
  ASSUME TypeOK, Start, faults' \in 0..MaxFaults
  PROVE  TypeOK'
<1>1. 1 \in Stages /\ 0 \in Nat
  BY DEF Stages
<1>2. unsent' \subseteq Orders \X Stages
  BY DEF Start
<1> QED
  BY <1>1, <1>2 DEF Start, TypeOK, Busy, tableVars, Goto

\* Errors, the end of the process and the other writers of the table.
LEMMA OthersType ==
  ASSUME TypeOK,
         \/ GetOrdersByStatusFails \/ processBatchFails \/ Crash
         \/ Stop \/ Returns \/ Restart
         \/ \E o \in Orders : PaymentCompleted(o)
         \/ OtherInstance
  PROVE  TypeOK'
<1> USE DEF tableVars, pageVars, Goto
<1>1. CASE GetOrdersByStatusFails
  BY <1>1, FaultType DEF GetOrdersByStatusFails, TypeOK, Busy
<1>2. CASE processBatchFails
  <2>1. stage \in Stages
    BY DEF TypeOK
  <2>2. /\ status' \in [Orders -> Statuses \cup {NoRow}]
        /\ updatedAt' \in [Orders -> Nat]
    BY <1>2, <2>1, BatchType DEF processBatchFails, TypeOK
  <2>3. /\ pc' \in Busy \cup {"waiting", "stopped"}
        /\ offset' \in Nat
    BY <1>2, AfterPageType DEF processBatchFails
  <2>4. faults' \in 0..MaxFaults
    BY <1>2, FaultType DEF processBatchFails
  <2> QED
    BY <1>2, <2>2, <2>3, <2>4 DEF processBatchFails, TypeOK
<1>3. CASE Crash
  BY <1>3, FaultType, StartType DEF Crash
<1>4. CASE Stop
  BY <1>4 DEF Stop, TypeOK
<1>5. CASE Returns
  BY <1>5 DEF Returns, TypeOK
<1>6. CASE Restart
  BY <1>6, StartType DEF Restart, TypeOK
<1>7. ASSUME NEW o \in Orders, PaymentCompleted(o) PROVE TypeOK'
  <2>1. "WaitingForShipment" \in Statuses
    BY DEF Statuses
  <2>2. /\ status' \in [Orders -> Statuses \cup {NoRow}]
        /\ updatedAt' \in [Orders -> Nat]
    BY <1>7, <2>1, UpdateType DEF PaymentCompleted
  <2> QED
    BY <1>7, <2>2 DEF PaymentCompleted, Elsewhere, TypeOK
<1>8. CASE OtherInstance
  <2>1. /\ status' \in [Orders -> Statuses \cup {NoRow}]
        /\ updatedAt' \in [Orders -> Nat]
    BY <1>8, BatchType DEF OtherInstance
  <2> QED
    BY <1>8, <2>1 DEF OtherInstance, Elsewhere, TypeOK
<1> QED
  BY <1>1, <1>2, <1>3, <1>4, <1>5, <1>6, <1>7, <1>8

LEMMA NextType == TypeOK /\ [Next]_vars => TypeOK'
<1>1. CASE UNCHANGED vars
  BY <1>1 DEF vars, tableVars, pageVars, TypeOK
<1>2. CASE Next
  BY <1>2, SchedulerType, OthersType DEF Next
<1> QED
  BY <1>1, <1>2

\* Every variable of the scheduler and of its surroundings keeps its type.
THEOREM TypeCorrect == Spec => []TypeOK
BY InitType, NextType, PTL DEF Spec

-----------------------------------------------------------------------------
(* The table moves forward. *)

\* A batch takes an order to the stage's end or leaves it where it is, and of
\* those it was given none is left behind.
LEMMA BatchMovesForward ==
  ASSUME IInv, NEW S, NEW t \in Stages, BatchUpdateOrderStatus(S, t), NEW o \in Orders
  PROVE  /\ status'[o] \in {NoRow, "Created"} \cup OnTheWay
         /\ status[o] \in OnTheWay => status'[o] \in OnTheWay
         /\ StagesBehind(status'[o]) >= StagesBehind(status[o])
         /\ /\ o \in S
            /\ status[o] \in OnTheWay
            /\ StagesBehind(status[o]) >= t - 1
            => StagesBehind(status'[o]) >= t
<1>1. status[o] \in {NoRow, "Created"} \cup OnTheWay
  BY DEF IInv
<1>2. t \in Int /\ StagesBehind(status[o]) \in Int
  BY BehindType DEF Stages
<1>3. CASE o \in S /\ status[o] = From(t)
  <2>1. status'[o] = To(t)
    BY <1>3 DEF BatchUpdateOrderStatus, Update
  <2>2. /\ From(t) \in OnTheWay /\ StagesBehind(From(t)) = t - 1
        /\ To(t) \in OnTheWay /\ StagesBehind(To(t)) = t
    BY RouteType
  <2> QED
    BY <1>2, <1>3, <2>1, <2>2
<1>4. CASE ~ (o \in S /\ status[o] = From(t))
  <2>1. status'[o] = status[o]
    BY <1>4 DEF BatchUpdateOrderStatus, Update
  <2>2. /\ o \in S
        /\ status[o] \in OnTheWay
        /\ StagesBehind(status[o]) >= t - 1
        => StagesBehind(status[o]) >= t
    BY <1>4, BehindType
  <2> QED
    BY <1>1, <1>2, <2>1, <2>2
<1> QED
  BY <1>3, <1>4

\* A payment touches only an order that is not on its way yet.
LEMMA PaymentMovesForward ==
  ASSUME IInv, NEW p \in Orders, PaymentCompleted(p), NEW o \in Orders
  PROVE  /\ status'[o] \in {NoRow, "Created"} \cup OnTheWay
         /\ status[o] \in OnTheWay => status'[o] \in OnTheWay
         /\ StagesBehind(status'[o]) >= StagesBehind(status[o])
<1>1. status[o] \in {NoRow, "Created"} \cup OnTheWay
  BY DEF IInv
<1>2. "WaitingForShipment" \in OnTheWay
  <2>1. /\ 1 \in Stages
        /\ From(1) = "WaitingForShipment"
    BY DEF Stages, From, route
  <2> QED
    BY <2>1, RouteType
<1>3. StagesBehind("WaitingForShipment") = 0 /\ StagesBehind("Created") = 0
  BY DEF StagesBehind, To, route
<1>4. StagesBehind(NoRow) = 0
  <2>1. \A t \in Stages : To(t) \in Statuses
    BY RouteType, BehindType
  <2> QED
    BY <2>1, SchedulerAssumption DEF StagesBehind, Stages
<1>5. StagesBehind(status[o]) \in Int
  BY BehindType
<1>6. CASE o = p
  <2>1. status'[o] = "WaitingForShipment" /\ status[o] \in {NoRow, "Created"}
    BY <1>6 DEF PaymentCompleted, Update
  <2> QED
    BY <1>2, <1>3, <1>4, <2>1
<1>7. CASE o # p
  <2>1. status'[o] = status[o]
    BY <1>7 DEF PaymentCompleted, Update
  <2> QED
    BY <1>1, <1>5, <2>1
<1> QED
  BY <1>6, <1>7

\* If the table moves forward, and the scheduler's place and events stay what
\* they are, the invariant stays true.
LEMMA ForwardKeepsIInv ==
  ASSUME IInv, TypeOK',
         UNCHANGED <<pc, stage, ids, unsent, told>>,
         \A o \in Orders : /\ status'[o] \in {NoRow, "Created"} \cup OnTheWay
                           /\ status[o] \in OnTheWay => status'[o] \in OnTheWay
                           /\ StagesBehind(status'[o]) >= StagesBehind(status[o])
  PROVE  IInv'
<1>1. stage \in Int /\ \A o \in Orders : told[o] \in Int
  BY DEF IInv, TypeOK, Stages
<1>2. \A o \in Orders : /\ StagesBehind(status[o]) \in Int
                        /\ StagesBehind(status'[o]) \in Int
  BY BehindType
<1>3. status' \in [Orders -> {NoRow, "Created"} \cup OnTheWay]
  BY DEF TypeOK
<1>4. NothingToldTooEarly'
  BY <1>1, <1>2 DEF IInv, NothingToldTooEarly
<1>5. ASSUME pc' \in {"page", "update"}, NEW o \in ids' PROVE AtStage(o)'
  <2>1. o \in Orders /\ AtStage(o)
    BY <1>5 DEF IInv, TypeOK
  <2> QED
    BY <1>1, <1>2, <2>1 DEF AtStage
<1>6. UnsentAreTrue'
  <2> SUFFICES ASSUME NEW e \in unsent
               PROVE  /\ e[2] = stage
                      /\ told[e[1]] <= stage
                      /\ stage <= StagesBehind(status'[e[1]])
    BY DEF UnsentAreTrue
  <2>1. e[1] \in Orders
    BY DEF IInv, TypeOK
  <2> QED
    BY <1>1, <1>2, <2>1 DEF IInv, UnsentAreTrue
<1> QED
  BY <1>3, <1>4, <1>5, <1>6 DEF IInv

-----------------------------------------------------------------------------
(* The invariant. *)

LEMMA InitIInv == Init => IInv
<1> SUFFICES ASSUME Init PROVE IInv
  OBVIOUS
<1>1. TypeOK
  BY InitType
<1>2. "WaitingForShipment" \in OnTheWay
  <2>1. 1 \in Stages /\ From(1) = "WaitingForShipment"
    BY DEF Stages, From, route
  <2> QED
    BY <2>1, RouteType
<1>3. NothingToldTooEarly
  BY BehindType DEF Init, NothingToldTooEarly
<1> QED
  BY <1>1, <1>2, <1>3 DEF Init, IInv, UnsentAreTrue

\* Steps that send nothing, move no order and begin no batch.
LEMMA QuietKeepsIInv ==
  ASSUME IInv, TypeOK', UNCHANGED <<status, told>>, unsent' = {},
         pc' \notin {"page", "update"}
  PROVE  IInv'
<1>1. NothingToldTooEarly'
  BY DEF IInv, NothingToldTooEarly
<1>2. UnsentAreTrue'
  BY DEF UnsentAreTrue
<1> QED
  BY <1>1, <1>2 DEF IInv

\* A page holds orders that this transition starts from.
LEMMA PageKeepsIInv ==
  ASSUME IInv, TypeOK', NEW P \in SUBSET Orders, GetOrdersByStatus(P)
  PROVE  IInv'
<1>1. UNCHANGED <<status, told, stage, unsent>> /\ ids' = P /\ pc = "query"
  BY DEF GetOrdersByStatus, tableVars
<1>2. unsent = {}
  BY <1>1 DEF IInv
<1>3. ASSUME NEW o \in P PROVE AtStage(o)'
  <2>1. o \in Orders /\ status[o] = From(stage)
    BY <1>3 DEF GetOrdersByStatus, IsPage, In
  <2>2. stage \in Stages
    BY DEF IInv, TypeOK
  <2>3. status[o] \in OnTheWay /\ StagesBehind(status[o]) = stage - 1
    BY <2>1, <2>2, RouteType
  <2>4. told[o] <= stage - 1
    BY <2>1, <2>3 DEF IInv, NothingToldTooEarly
  <2>5. told[o] \in Int /\ stage \in Int
    BY <2>1, <2>2 DEF IInv, TypeOK, Stages
  <2>6. StagesBehind(status[o]) >= stage - 1 /\ told[o] < stage
    BY <2>3, <2>4, <2>5
  <2> QED
    BY <1>1, <2>3, <2>6 DEF AtStage
<1>4. NothingToldTooEarly'
  BY <1>1 DEF IInv, NothingToldTooEarly
<1>5. UnsentAreTrue'
  BY <1>1, <1>2 DEF UnsentAreTrue
<1> QED
  BY <1>1, <1>2, <1>3, <1>4, <1>5 DEF IInv

LEMMA SelectionKeepsIInv ==
  ASSUME IInv, TypeOK', NEW S \in SUBSET Orders, SelectOrders(S)
  PROVE  IInv'
<1>1. /\ UNCHANGED <<status, told, stage, unsent>>
      /\ ids' = S /\ S \subseteq ids /\ pc = "page"
  BY DEF SelectOrders, tableVars
<1>2. unsent = {}
  BY <1>1 DEF IInv
<1>3. \A o \in S : AtStage(o)'
  BY <1>1 DEF IInv, AtStage
<1>4. NothingToldTooEarly'
  BY <1>1 DEF IInv, NothingToldTooEarly
<1>5. UnsentAreTrue'
  BY <1>1, <1>2 DEF UnsentAreTrue
<1> QED
  BY <1>1, <1>2, <1>3, <1>4, <1>5 DEF IInv

\* After a batch no order that it was given is behind the stage announced.
LEMMA BatchKeepsIInv ==
  ASSUME IInv, TypeOK', processBatch
  PROVE  IInv'
<1>1. /\ UNCHANGED <<told, stage, ids>> /\ pc = "update" /\ pc' = "publish"
      /\ BatchUpdateOrderStatus(ids, stage)
      /\ unsent' = ids \X {stage}
  BY DEF processBatch, pageVars, Goto
<1>2. /\ stage \in Stages /\ stage \in Int /\ ids \subseteq Orders
      /\ \A o \in Orders : told[o] \in Int
  BY DEF IInv, TypeOK, Stages
<1>3. \A o \in Orders : /\ StagesBehind(status[o]) \in Int
                        /\ StagesBehind(status'[o]) \in Int
  BY BehindType
<1>4. \A o \in Orders : /\ status'[o] \in {NoRow, "Created"} \cup OnTheWay
                        /\ StagesBehind(status'[o]) >= StagesBehind(status[o])
  BY <1>1, <1>2, BatchMovesForward
<1>5. ASSUME NEW o \in ids
      PROVE  told[o] <= stage /\ StagesBehind(status'[o]) >= stage
  <2>1. o \in Orders /\ AtStage(o)
    BY <1>1, <1>2, <1>5 DEF IInv
  <2>2. StagesBehind(status'[o]) >= stage
    BY <1>1, <1>2, <2>1, BatchMovesForward DEF AtStage
  <2>3. told[o] <= stage
    BY <1>2, <2>1 DEF AtStage
  <2> QED
    BY <2>2, <2>3
<1>6. UnsentAreTrue'
  <2> SUFFICES ASSUME NEW e \in ids \X {stage}
               PROVE  /\ e[2] = stage
                      /\ told[e[1]] <= stage
                      /\ stage <= StagesBehind(status'[e[1]])
    BY <1>1 DEF UnsentAreTrue
  <2>1. e[1] \in ids /\ e[2] = stage
    OBVIOUS
  <2>2. e[1] \in Orders
    BY <1>2, <2>1
  <2> QED
    BY <1>2, <1>3, <1>5, <2>1, <2>2
<1>7. NothingToldTooEarly'
  BY <1>1, <1>2, <1>3, <1>4 DEF IInv, NothingToldTooEarly
<1>8. status' \in [Orders -> {NoRow, "Created"} \cup OnTheWay]
  BY <1>4 DEF TypeOK
<1> QED
  BY <1>1, <1>6, <1>7, <1>8 DEF IInv

\* A failed batch announces nothing, whatever has become of its rows.
LEMMA FailureKeepsIInv ==
  ASSUME IInv, TypeOK', processBatchFails
  PROVE  IInv'
<1>1. /\ UNCHANGED <<told, stage, ids, unsent>> /\ pc = "update"
      /\ pc' \in {"query", "done"}
  BY DEF processBatchFails, AfterPage, Goto
<1>2. unsent = {}
  BY <1>1 DEF IInv
<1>3. /\ stage \in Stages
      /\ \A o \in Orders : told[o] \in Int
  BY DEF IInv, TypeOK
<1>4. \A o \in Orders : /\ StagesBehind(status[o]) \in Int
                        /\ StagesBehind(status'[o]) \in Int
  BY BehindType
<1>5. \A o \in Orders : /\ status'[o] \in {NoRow, "Created"} \cup OnTheWay
                        /\ StagesBehind(status'[o]) >= StagesBehind(status[o])
  <2>1. CASE BatchUpdateOrderStatus(ids, stage)
    BY <1>3, <2>1, BatchMovesForward
  <2>2. CASE UNCHANGED tableVars
    BY <1>4, <2>2 DEF tableVars, IInv
  <2> QED
    BY <2>1, <2>2 DEF processBatchFails
<1>6. NothingToldTooEarly'
  BY <1>1, <1>3, <1>4, <1>5 DEF IInv, NothingToldTooEarly
<1>7. UnsentAreTrue'
  BY <1>1, <1>2 DEF UnsentAreTrue
<1>8. status' \in [Orders -> {NoRow, "Created"} \cup OnTheWay]
  BY <1>5 DEF TypeOK
<1> QED
  BY <1>1, <1>2, <1>6, <1>7, <1>8 DEF IInv

\* What is sent is the stage at hand, and no order has been told of a later one.
LEMMA PublishSendsStage ==
  ASSUME IInv, PublishOrderStatusChanged, NEW o \in Orders
  PROVE  \/ told'[o] = told[o]
         \/ /\ told[o] <= told'[o]
            /\ told'[o] = stage
            /\ stage <= StagesBehind(status[o])
<1>1. PICK e \in unsent : told' \in {told, [told EXCEPT ![e[1]] = e[2]]}
  BY DEF PublishOrderStatusChanged
<1>2. e[2] = stage /\ told[e[1]] <= stage /\ stage <= StagesBehind(status[e[1]])
  BY <1>1 DEF IInv, UnsentAreTrue
<1>3. told \in [Orders -> 0..3]
  BY DEF IInv, TypeOK
<1> QED
  BY <1>1, <1>2, <1>3

LEMMA PublishKeepsIInv ==
  ASSUME IInv, TypeOK', PublishOrderStatusChanged
  PROVE  IInv'
<1>1. /\ UNCHANGED <<status, stage, pc, ids>> /\ unsent' \subseteq unsent
      /\ unsent # {}
  BY DEF PublishOrderStatusChanged, tableVars, pageVars
<1>2. pc = "publish"
  BY <1>1 DEF IInv
<1>3. stage \in Int /\ \A o \in Orders : told[o] \in Int
  BY DEF IInv, TypeOK, Stages
<1>4. NothingToldTooEarly'
  BY <1>1, PublishSendsStage DEF IInv, NothingToldTooEarly
<1>5. UnsentAreTrue'
  <2> SUFFICES ASSUME NEW e \in unsent'
               PROVE  /\ e[2] = stage
                      /\ told'[e[1]] <= stage
                      /\ stage <= StagesBehind(status[e[1]])
    BY <1>1 DEF UnsentAreTrue
  <2>1. e \in unsent /\ e[1] \in Orders
    BY <1>1 DEF IInv, TypeOK
  <2>2. e[2] = stage /\ told[e[1]] <= stage /\ stage <= StagesBehind(status[e[1]])
    BY <2>1 DEF IInv, UnsentAreTrue
  <2>3. told'[e[1]] = told[e[1]] \/ told'[e[1]] = stage
    BY <2>1, PublishSendsStage
  <2>4. told'[e[1]] <= stage
    BY <1>3, <2>2, <2>3
  <2> QED
    BY <2>2, <2>4
<1> QED
  BY <1>1, <1>2, <1>4, <1>5 DEF IInv

LEMMA NextIInv == IInv /\ [Next]_vars => IInv'
<1> SUFFICES ASSUME IInv, [Next]_vars PROVE IInv'
  OBVIOUS
<1>1. TypeOK'
  BY NextType DEF IInv
<1>2. \A o \in Orders : StagesBehind(status[o]) \in Int
  BY BehindType
<1>3. CASE UNCHANGED vars
  <2>1. UNCHANGED <<pc, stage, ids, unsent, told, status>>
    BY <1>3 DEF vars, tableVars, pageVars
  <2> QED
    BY <1>1, <1>2, <2>1, ForwardKeepsIInv DEF IInv
<1>4. CASE \E S \in SUBSET Orders : GetOrdersByStatus(S) \/ SelectOrders(S)
  BY <1>1, <1>4, PageKeepsIInv, SelectionKeepsIInv
<1>5. CASE processBatch
  BY <1>1, <1>5, BatchKeepsIInv
<1>6. CASE PublishOrderStatusChanged
  BY <1>1, <1>6, PublishKeepsIInv
<1>7. CASE processBatchFails
  BY <1>1, <1>7, FailureKeepsIInv
<1>8. CASE \/ Published \/ NextTransition \/ Tick
           \/ GetOrdersByStatusFails \/ Crash \/ Returns \/ Restart
  <2>1. /\ UNCHANGED <<status, told>> /\ pc' \notin {"page", "update"}
        /\ unsent' = {} \/ (unsent' = unsent /\ pc # "publish") \/ Published
    BY <1>8 DEF Published, NextTransition, Tick, GetOrdersByStatusFails, Crash, Returns,
         Restart, Start, BeginTransition, AfterPage, Goto, tableVars
  <2>2. unsent' = {}
    BY <2>1 DEF Published, IInv
  <2> QED
    BY <1>1, <2>1, <2>2, QuietKeepsIInv
<1>9. CASE Stop
  <2>1. UNCHANGED <<pc, stage, ids, unsent, told, status>>
    BY <1>9 DEF Stop, tableVars, pageVars
  <2> QED
    BY <1>1, <1>2, <2>1, ForwardKeepsIInv DEF IInv
<1>10. CASE \E p \in Orders : PaymentCompleted(p)
  <2>1. UNCHANGED <<pc, stage, ids, unsent, told>>
    BY <1>10 DEF PaymentCompleted, Elsewhere, pageVars
  <2> QED
    BY <1>1, <1>10, <2>1, PaymentMovesForward, ForwardKeepsIInv
<1>11. CASE OtherInstance
  <2>1. UNCHANGED <<pc, stage, ids, unsent, told>>
    BY <1>11 DEF OtherInstance, Elsewhere, pageVars
  <2> QED
    BY <1>1, <1>11, <2>1, BatchMovesForward, ForwardKeepsIInv DEF OtherInstance
<1> QED
  BY <1>3, <1>4, <1>5, <1>6, <1>7, <1>8, <1>9, <1>10, <1>11 DEF Next, Scheduler

\* The inductive invariant of the scheduler.
THEOREM Invariance == Spec => []IInv
BY InitIInv, NextIInv, PTL DEF Spec

\* No event announces a stage that its order has not reached.
THEOREM ToldInTime == Spec => []NothingToldTooEarly
<1>1. IInv => NothingToldTooEarly
  BY DEF IInv
<1> QED
  BY <1>1, Invariance, PTL

\* The events of an order leave in the order of its life.
THEOREM EventOrder == Spec => EventsInOrder
<1>1. ASSUME IInv, [Next]_vars
      PROVE  [\A o \in Orders : told'[o] >= told[o]]_vars
  <2>1. \A o \in Orders : told[o] \in Int
    BY <1>1 DEF IInv, TypeOK
  <2>2. CASE UNCHANGED vars
    BY <2>2
  <2>3. CASE PublishOrderStatusChanged
    BY <1>1, <2>1, <2>3, PublishSendsStage
  <2>4. CASE Next /\ ~ PublishOrderStatusChanged
    <3>1. told' = told
      BY <2>4 DEF Next, Scheduler, GetOrdersByStatus, SelectOrders, processBatch, Published,
         NextTransition, Tick, BeginTransition, GetOrdersByStatusFails, processBatchFails,
         Crash, Restart, Start, Stop, Returns, PaymentCompleted, OtherInstance, Elsewhere
    <3> QED
      BY <2>1, <3>1
  <2> QED
    BY <1>1, <2>2, <2>3, <2>4
<1> QED
  BY <1>1, Invariance, PTL DEF Spec, EventsInOrder
=============================================================================
