---------------------- MODULE OrderStateService_proofs ----------------------
(***************************************************************************)
(* Proofs about the order state service, for every number of orders and of *)
(* requests.                                                               *)
(***************************************************************************)
EXTENDS OrderStateService, PgOrderRepository_proofs

USE DEF Phases, Answers, Running, Finished

-----------------------------------------------------------------------------
(* Every variable keeps its type. *)

\* A row of the transition table: a change ends in a status, never in Created.
LEMMA TransitionTargets ==
  ASSUME NEW s, NEW t, CanTransitionTo(s, t)
  PROVE  t \in Statuses /\ t # "Created"
<1>1. s \in {"Created", "WaitingForShipment", "InTransit", "WaitPickup",
            "Completed", "Canceled", "Refund"}
  BY DEF CanTransitionTo, allowedTransitions
<1>2. CASE s = "Created"
  BY <1>2 DEF CanTransitionTo, allowedTransitions, Statuses
<1>3. CASE s = "WaitingForShipment"
  BY <1>3 DEF CanTransitionTo, allowedTransitions, Statuses
<1>4. CASE s = "InTransit"
  BY <1>4 DEF CanTransitionTo, allowedTransitions, Statuses
<1>5. CASE s = "WaitPickup"
  BY <1>5 DEF CanTransitionTo, allowedTransitions, Statuses
<1>6. CASE s \in {"Completed", "Canceled", "Refund"}
  BY <1>6 DEF CanTransitionTo, allowedTransitions, Statuses
<1> QED
  BY <1>1, <1>2, <1>3, <1>4, <1>5, <1>6

\* The scheduler's hard-coded transitions are legal ones.
LEMMA TransitionsOfScheduler ==
  ASSUME NEW t \in schedulerTransitions
  PROVE  /\ t[1] \in Statuses /\ t[2] \in Statuses
         /\ CanTransitionTo(t[1], t[2])
<1>1. CASE t = <<"WaitingForShipment", "InTransit">>
  BY <1>1 DEF CanTransitionTo, allowedTransitions, Statuses
<1>2. CASE t = <<"InTransit", "WaitPickup">>
  BY <1>2 DEF CanTransitionTo, allowedTransitions, Statuses
<1>3. CASE t = <<"WaitPickup", "Completed">>
  BY <1>3 DEF CanTransitionTo, allowedTransitions, Statuses
<1> QED
  BY <1>1, <1>2, <1>3 DEF schedulerTransitions

\* Whatever the status, ToInt answers with a number.
LEMMA ToIntType == ASSUME NEW s PROVE ToInt(s) \in Int
<1>1. enumNumber \in [DOMAIN enumNumber -> Int]
  BY DEF enumNumber
<1> QED
  BY <1>1 DEF ToInt

\* The service starts with every variable in its type.
LEMMA InitTypeOK == Init => TypeOK
<1> SUFFICES ASSUME Init PROVE TypeOK
  OBVIOUS
<1>1. NoCall \in Calls
  BY DEF NoCall, Calls, Statuses
<1>2. RepoTypeOK
  BY <1>1, RepositoryAssumption, ServiceAssumption DEF Init, RepoInit, RepoTypeOK
<1>3. reached \in [Orders -> SUBSET Statuses]
  BY <1>2 DEF Init, RepoTypeOK
<1> QED
  BY <1>2, <1>3 DEF Init, TypeOK

\* A Save is a well-formed call.
LEMMA SaveRequestType ==
  ASSUME NEW o \in Orders, NEW s \in Statuses \cup {NoRow}, NEW t \in Statuses
  PROVE  SaveRequest(o, s, t) \in Calls
BY DEF SaveRequest, Calls

\* A handler that calls Save keeps every type.
LEMMA CallSaveType ==
  ASSUME TypeOK, NEW r \in Requests, NEW o \in Orders,
         NEW s \in Statuses \cup {NoRow}, NEW t \in Statuses,
         NEW p \in Running, CallSave(r, o, s, t, p)
  PROVE  TypeOK'
<1>1. SaveRequest(o, s, t) \in Calls
  BY SaveRequestType
<1>2. RepoTypeOK'
  BY <1>1, SaveType DEF CallSave, TypeOK
<1> QED
  BY <1>2 DEF CallSave, TypeOK, Goto

\* A handler that returns or moves on keeps every type.
LEMMA FinishType ==
  ASSUME TypeOK, NEW r \in Requests, NEW p \in Running \cup Finished, Finish(r, p)
  PROVE  TypeOK'
BY DEF Finish, Goto, TypeOK, RepoTypeOK, repoVars

\* The transition check keeps every type, whatever it is asked for: it lets
\* through nothing but statuses.
LEMMA UpdateStatusType ==
  ASSUME TypeOK, NEW r \in Requests, NEW o \in Orders, NEW t,
         row[o] # NoRow, UpdateStatus(r, o, t)
  PROVE  TypeOK'
<1>1. row[o] \in Statuses
  BY DEF TypeOK, RepoTypeOK
<1>2. CASE CanTransitionTo(row[o], t) /\ CallSave(r, o, row[o], t, "saving")
  BY <1>1, <1>2, TransitionTargets, CallSaveType
<1>3. CASE Finish(r, "failed")
  BY <1>3, FinishType
<1> QED
  BY <1>2, <1>3 DEF UpdateStatus

\* The payment handler, once it has found the order, keeps every type.
LEMMA PaymentForExistingOrderType ==
  ASSUME TypeOK, NEW r \in Requests, NEW o \in Orders,
         row[o] # NoRow, PaymentForExistingOrder(r, o)
  PROVE  TypeOK'
<1>1. CASE UpdateStatus(r, o, "WaitingForShipment")
  BY <1>1, UpdateStatusType
<1>2. CASE /\ Goto(r, "ok")
           /\ call' = [call EXCEPT ![r] = SaveRequest(o, row[o], "WaitingForShipment")]
           /\ UNCHANGED <<row, lock, tx, attempt, todo, hit, pending, published, reached>>
  <2>1. SaveRequest(o, row[o], "WaitingForShipment") \in Calls
    BY SaveRequestType DEF TypeOK, RepoTypeOK, Statuses
  <2> QED
    BY <1>2, <2>1 DEF TypeOK, RepoTypeOK, Goto
<1> QED
  BY <1>1, <1>2 DEF PaymentForExistingOrder

\* A step or a fault of the repository, together with the history of the
\* orders, keeps every type.
LEMMA DatabaseType ==
  ASSUME TypeOK, NEW r \in Requests,
         Database(RepoStep(r)) \/ Database(RepoFault(r))
  PROVE  TypeOK'
<1>1. RepoTypeOK'
  BY RepoStepType DEF Database, TypeOK
<1> QED
  BY <1>1 DEF Database, TypeOK, RepoTypeOK

\* Accepting a request keeps every type.
LEMMA BeginType ==
  ASSUME TypeOK, NEW r \in Requests, Begin(r)
  PROVE  TypeOK'
<1>1. ASSUME NEW o \in Orders, HandlePaymentCompleted(r, o)
      PROVE  TypeOK'
  BY <1>1, CallSaveType, PaymentForExistingOrderType
     DEF HandlePaymentCompleted, Statuses
<1>2. ASSUME NEW o \in Orders, NEW s, UpdateOrderStatus(r, o, s)
      PROVE  TypeOK'
  BY <1>2, FinishType, UpdateStatusType DEF UpdateOrderStatus
<1>3. ASSUME SelectBatch(r)
      PROVE  TypeOK'
  <2>1. call' \in [Requests -> Calls]
    BY <1>3, TransitionsOfScheduler DEF SelectBatch, TypeOK, RepoTypeOK, Calls
  <2> QED
    BY <1>3, <2>1 DEF SelectBatch, Goto, TypeOK, RepoTypeOK
<1> QED
  BY <1>1, <1>2, <1>3
     DEF Begin, HandleShipmentStarted, HandlePackageArrivedAtPickupStore,
         HandlePackagePickedUp

\* A step of a request keeps every type.
LEMMA StepType ==
  ASSUME TypeOK, NEW r \in Requests, Step(r)
  PROVE  TypeOK'
<1>0. call[r] \in Calls /\ call[r].ids \in SUBSET Orders
  BY DEF TypeOK, RepoTypeOK, Calls
<1>1. CASE PaymentCreated(r)
  BY <1>1, FinishType DEF PaymentCreated
<1>2. CASE PaymentRegets(r)
  BY <1>0, <1>2, FinishType, PaymentForExistingOrderType DEF PaymentRegets
<1>3. CASE PaymentRechecks(r)
  BY <1>3, FinishType DEF PaymentRechecks
<1>4. CASE Saved(r)
  <2>1. CASE tx[r] = "ok"
    BY <1>0, <1>4, <2>1 DEF Saved, Goto, Finish, TypeOK, RepoTypeOK, repoVars
  <2>2. CASE tx[r] # "ok"
    BY <1>4, <2>2, FinishType DEF Saved
  <2> QED BY <2>1, <2>2
<1>5. CASE BatchUpdateOrderStatus(r)
  BY <1>0, <1>5
     DEF BatchUpdateOrderStatus, BatchUpdate, Goto, TypeOK, RepoTypeOK
<1>6. CASE BatchUpdated(r)
  <2>1. CASE tx[r] = "ok"
    BY <1>0, <1>6, <2>1 DEF BatchUpdated, Goto, Finish, TypeOK, RepoTypeOK, repoVars
  <2>2. CASE tx[r] # "ok"
    BY <1>6, <2>2, FinishType DEF BatchUpdated
  <2> QED BY <2>1, <2>2
<1>7. CASE Publish(r)
  <2>1. PICK o \in pending[r] : Publish(r)!2!(o)
    BY <1>7 DEF Publish
  <2>2. OrderStatusChanged(r, o) \in Events
    BY <2>1, ToIntType DEF OrderStatusChanged, Events, TypeOK
  <2> QED
    BY <1>7, <2>1, <2>2 DEF Publish, Goto, TypeOK, RepoTypeOK, repoVars
<1>8. CASE Database(RepoStep(r))
  BY <1>8, DatabaseType
<1> QED
  BY <1>1, <1>2, <1>3, <1>4, <1>5, <1>6, <1>7, <1>8 DEF Step

\* A crash keeps every type.
LEMMA CrashType ==
  ASSUME TypeOK, Crash
  PROVE  TypeOK'
BY AbortAllType DEF Crash, AbortAll, TypeOK, RepoTypeOK

\* No step of the service takes a variable out of its type.
LEMMA NextTypeOK == TypeOK /\ [Next]_vars => TypeOK'
<1> SUFFICES ASSUME TypeOK, [Next]_vars PROVE TypeOK'
  OBVIOUS
<1>1. ASSUME NEW r \in Requests, Begin(r) PROVE TypeOK'
  BY <1>1, BeginType
<1>2. ASSUME NEW r \in Requests, Step(r) PROVE TypeOK'
  BY <1>2, StepType
<1>3. ASSUME NEW r \in Requests, Database(RepoFault(r)) PROVE TypeOK'
  BY <1>3, DatabaseType
<1>4. ASSUME NEW r \in Requests, QueryFails(r) PROVE TypeOK'
  BY <1>4, FinishType DEF QueryFails
<1>5. CASE Crash
  BY <1>5, CrashType
<1>6. CASE UNCHANGED vars
  BY <1>6 DEF vars, repoVars, serviceVars, TypeOK, RepoTypeOK
<1> QED
  BY <1>1, <1>2, <1>3, <1>4, <1>5, <1>6 DEF Next

\* Type correctness of the service over the PostgreSQL repository.
THEOREM TypeCorrect == Spec => []TypeOK
<1>1. Spec => Init /\ [][Next]_vars
  BY DEF Spec
<1> QED
  BY <1>1, InitTypeOK, NextTypeOK, PTL
=============================================================================
