---------------------- MODULE RepositoryClients_proofs ----------------------
(***************************************************************************)
(* Proofs about the PostgreSQL repository with callers that call it at     *)
(* will: its invariants, and that it implements OrderRepository, for every *)
(* number of orders, of callers and of attempts.                           *)
(***************************************************************************)
EXTENDS RepositoryClients, PgOrderRepository_proofs

USE DEF Phases, Answers

-----------------------------------------------------------------------------
(* The invariants. *)

\* A caller asks for a Save of one order, or for a batch.
LEMMA CallKeepsIInv ==
  ASSUME RepoIInv, NEW r \in Requests, NEW c \in Asked, Call(r, c)
  PROVE  RepoIInv'
<1>1. c \in Calls
  BY ClientsAssumption
<1>2. CASE c.op = "save" /\ Save(r, c)
  BY <1>1, <1>2, ClientsAssumption, SaveKeepsIInv
<1>3. CASE c.op = "batch" /\ BatchUpdate(r, c)
  BY <1>1, <1>3, BatchUpdateKeepsIInv
<1> QED
  BY <1>2, <1>3 DEF Call

\* The repository starts without transactions.
LEMMA InitIInv == Init => RepoIInv
BY RepoInitIInv, ClientsAssumption DEF Init

\* No step breaks the invariant.
LEMMA NextIInv == RepoIInv /\ [Next]_vars => RepoIInv'
<1> SUFFICES ASSUME RepoIInv, [Next]_vars PROVE RepoIInv'
  OBVIOUS
<1>1. ASSUME NEW r \in Requests, NEW c \in Asked, Call(r, c) PROVE RepoIInv'
  BY <1>1, CallKeepsIInv
<1>2. ASSUME NEW r \in Requests, RepoStep(r) \/ RepoFault(r) PROVE RepoIInv'
  BY <1>2, RepoStepKeepsIInv
<1>3. CASE AbortAll
  BY <1>3, AbortAllKeepsIInv
<1>4. CASE UNCHANGED vars
  BY <1>4 DEF vars, repoVars, RepoIInv, RepoTypeOK, LocksMatchTransactions,
              BatchRowsUnchanged, TxMatchesCall, InTx
<1> QED
  BY <1>1, <1>2, <1>3, <1>4 DEF Next

\* The inductive invariant: types, locks, batches, and what a transaction may
\* hold at each of its phases.
THEOREM Invariance == Spec => []RepoIInv
BY InitIInv, NextIInv, PTL DEF Spec

\* Type correctness of the repository.
THEOREM TypeCorrect == Spec => []RepoTypeOK
<1>1. RepoIInv => RepoTypeOK
  BY DEF RepoIInv
<1> QED
  BY <1>1, Invariance, PTL

\* No exit of Save or of BatchUpdateOrderStatus leaves a row locked, and no
\* row is written without its lock.
THEOREM LocksFollowTransactions == Spec => []LocksMatchTransactions
<1>1. RepoIInv => LocksMatchTransactions
  BY DEF RepoIInv
<1> QED
  BY <1>1, Invariance, PTL

\* The compare-and-set of a batch still holds when it commits.
THEOREM BatchesCompareAndSet == Spec => []BatchRowsUnchanged
<1>1. RepoIInv => BatchRowsUnchanged
  BY DEF RepoIInv
<1> QED
  BY <1>1, Invariance, PTL

-----------------------------------------------------------------------------
(* The repository implements OrderRepository. *)

\* What a caller sees of its call: no answer and no effect before the end.
answerOf == [r \in Requests |-> IF InTx(r) THEN "pending" ELSE tx[r]]
wroteBy  == [r \in Requests |-> IF InTx(r) THEN {} ELSE hit[r]]

\* Both modules mean the same by a status and by a call.
LEMMA SameCalls == Promise!Statuses = Statuses /\ Promise!Calls = Calls
BY DEF Statuses, Promise!Statuses, Calls, Promise!Calls

\* A repository that starts, starts as OrderRepository does.
LEMMA InitImplements == Init => Promise!Init
<1> SUFFICES ASSUME Init PROVE Promise!Init
  OBVIOUS
<1>1. RepoTypeOK
  BY InitIInv DEF RepoIInv
<1>2. \A r \in Requests : tx[r] = "none" /\ hit[r] = {} /\ ~ InTx(r)
  BY DEF Init, RepoInit, InTx
<1> QED
  BY <1>1, <1>2, SameCalls DEF Promise!Init, RepoTypeOK

\* A step inside a transaction is not seen by any caller.
LEMMA HiddenStep ==
  ASSUME NEW r \in Requests, RepoIInv, RepoIInv', InTx(r), InTx(r)',
         \A q \in Requests \ {r} : tx'[q] = tx[q] /\ hit'[q] = hit[q],
         UNCHANGED <<row, call>>
  PROVE  UNCHANGED Promise!vars
<1>1. \A q \in Requests : InTx(q)' = InTx(q)
  BY DEF InTx
<1>2. answerOf' = answerOf
  BY <1>1 DEF answerOf, InTx
<1>3. wroteBy' = wroteBy
  BY <1>1 DEF wroteBy
<1> QED
  BY <1>2, <1>3 DEF Promise!vars, answerOf, wroteBy

\* A transaction that ends with answer a, having written the rows of S, is a
\* Return of OrderRepository.
LEMMA EndIsReturn ==
  ASSUME NEW r \in Requests, RepoIInv, InTx(r), NEW a \in Answers,
         NEW S \in SUBSET Orders,
         tx' = [tx EXCEPT ![r] = a], hit' = [hit EXCEPT ![r] = S],
         row' = [o \in Orders |-> IF o \in S THEN call[r].to ELSE row[o]],
         call' = call
  PROVE  Promise!Return(r, S, a)
<1> USE DEF RepoIInv, RepoTypeOK
<1>1. tx'[r] = a /\ ~ InTx(r)' /\ hit'[r] = S
  BY DEF InTx
<1>2. \A q \in Requests \ {r} :
        tx'[q] = tx[q] /\ hit'[q] = hit[q] /\ InTx(q)' = InTx(q)
  BY DEF InTx
<1>3. answerOf[r] = "pending"
  BY DEF answerOf
<1>4. answerOf' = [answerOf EXCEPT ![r] = a]
  BY <1>1, <1>2 DEF answerOf
<1>5. wroteBy' = [wroteBy EXCEPT ![r] = S]
  BY <1>1, <1>2 DEF wroteBy
<1> QED
  BY <1>3, <1>4, <1>5 DEF Promise!Return, answerOf, wroteBy

\* An end without effect.
LEMMA RollbackIsReturn ==
  ASSUME NEW r \in Requests, RepoIInv, InTx(r), NEW a \in Answers, Rollback(r, a)
  PROVE  Promise!Return(r, {}, a)
<1>1. row' = [o \in Orders |-> IF o \in {} THEN call[r].to ELSE row[o]]
  BY DEF Rollback, RepoIInv, RepoTypeOK
<1> QED
  BY <1>1, EndIsReturn DEF Rollback

\* An attempt of Save that gives up before it has locked anything.
LEMMA LeaveIsReturn ==
  ASSUME NEW r \in Requests, RepoIInv, InTx(r), NEW a \in Answers, hit[r] = {},
         tx' = [tx EXCEPT ![r] = a], UNCHANGED <<row, call, hit>>
  PROVE  Promise!Return(r, {}, a)
<1>1. row' = [o \in Orders |-> IF o \in {} THEN call[r].to ELSE row[o]]
  BY DEF RepoIInv, RepoTypeOK
<1>2. hit' = [hit EXCEPT ![r] = {}]
  BY DEF RepoIInv, RepoTypeOK
<1> QED
  BY <1>1, <1>2, EndIsReturn

\* A Save may end in an error without effect, and so may a batch.
LEMMA ErrorIsAllowed ==
  ASSUME NEW r \in Requests, RepoIInv, InTx(r), Promise!Return(r, {}, "error")
  PROVE  Promise!ReturnFromSave(r) \/ Promise!ReturnFromBatch(r)
<1>1. CASE call[r].op = "save"
  BY <1>1 DEF Promise!ReturnFromSave
<1>2. CASE call[r].op = "batch"
  <2>1. {} \in SUBSET {o \in call[r].ids : row[o] = call[r].from}
    OBVIOUS
  <2> QED
    BY <1>2, <2>1 DEF Promise!ReturnFromBatch
<1> QED
  BY <1>1, <1>2 DEF RepoIInv, RepoTypeOK, Calls

\* A call begins.
LEMMA CallImplements ==
  ASSUME NEW r \in Requests, RepoIInv, NEW c \in Asked, Call(r, c)
  PROVE  Promise!Call(r)
<1> USE DEF RepoIInv, RepoTypeOK
<1>1. c \in Promise!Calls
  BY ClientsAssumption, SameCalls
<1>2. /\ ~ InTx(r) /\ InTx(r)'
      /\ row' = row /\ call' = [call EXCEPT ![r] = c]
      /\ \A q \in Requests \ {r} :
           tx'[q] = tx[q] /\ hit'[q] = hit[q] /\ InTx(q)' = InTx(q)
  BY DEF Call, Save, BatchUpdate, InTx
<1>3. answerOf[r] # "pending"
  BY <1>2 DEF answerOf, InTx
<1>4. answerOf' = [answerOf EXCEPT ![r] = "pending"]
  BY <1>2 DEF answerOf
<1>5. wroteBy' = [wroteBy EXCEPT ![r] = {}]
  BY <1>2 DEF wroteBy
<1> QED
  BY <1>1, <1>2, <1>3, <1>4, <1>5 DEF Promise!Call, answerOf, wroteBy

\* A commit is the moment at which a call takes effect, told or not.
LEMMA CommitImplements ==
  ASSUME NEW r \in Requests, RepoIInv, NEW a \in {"ok", "error"}, Commit(r, a)
  PROVE  Promise!ReturnFromSave(r) \/ Promise!ReturnFromBatch(r)
<1> USE DEF RepoIInv
<1>1. InTx(r) /\ hit[r] \in SUBSET Orders /\ hit = [hit EXCEPT ![r] = hit[r]]
  BY DEF Commit, InTx, RepoTypeOK
<1>2. Promise!Return(r, hit[r], a)
  BY <1>1, EndIsReturn DEF Commit
<1>3. CASE tx[r] = "commit"
  BY <1>2, <1>3 DEF Promise!ReturnFromSave, TxMatchesCall
<1>4. CASE tx[r] = "update"
  <2>1. hit[r] \in SUBSET {o \in call[r].ids : row[o] = call[r].from}
    BY <1>4 DEF TxMatchesCall, BatchRowsUnchanged
  <2> QED
    BY <1>2, <1>4, <2>1 DEF Promise!ReturnFromBatch, TxMatchesCall
<1> QED
  BY <1>3, <1>4 DEF Commit

\* Every step and every fault of the repository is an answer that
\* OrderRepository allows, or nothing that a caller sees.
LEMMA RepoStepImplements ==
  ASSUME NEW r \in Requests, RepoIInv, RepoIInv', RepoStep(r) \/ RepoFault(r)
  PROVE  \/ Promise!ReturnFromSave(r)
         \/ Promise!ReturnFromBatch(r)
         \/ UNCHANGED Promise!vars
<1> USE DEF RepoIInv
<1>1. CASE GetOrderByIDForUpdate(r)
  <2>1. hit[r] = {} /\ InTx(r)
    BY <1>1 DEF GetOrderByIDForUpdate, TxMatchesCall, InTx
  <2>2. CASE tx' = [tx EXCEPT ![r] = "error"] /\ UNCHANGED hit
    <3>1. Promise!Return(r, {}, "error")
      BY <1>1, <2>1, <2>2, LeaveIsReturn DEF GetOrderByIDForUpdate
    <3> QED
      BY <2>1, <3>1, ErrorIsAllowed
  <2>3. CASE \E p \in {"insert", "commit"} : tx' = [tx EXCEPT ![r] = p]
    BY <1>1, <2>1, <2>3, HiddenStep
       DEF GetOrderByIDForUpdate, Lock, InTx, RepoTypeOK
  <2> QED
    BY <1>1, <2>2, <2>3 DEF GetOrderByIDForUpdate
<1>2. CASE CreateOrder(r)
  <2>1. hit[r] = {} /\ InTx(r) /\ call[r].op = "save"
    BY <1>2 DEF CreateOrder, TxMatchesCall, InTx
  <2>2. PICK o \in Orders : call[r].ids = {o}
    BY <1>2 DEF CreateOrder, TxMatchesCall
  <2>3. CASE row[o] # NoRow
    <3>1. Promise!Return(r, {}, "duplicate")
      BY <1>2, <2>1, <2>2, <2>3, LeaveIsReturn DEF CreateOrder
    <3> QED
      BY <2>1, <2>2, <2>3, <3>1 DEF Promise!ReturnFromSave
  <2>4. CASE row[o] = NoRow
    <3>1. tx' = [tx EXCEPT ![r] = "commit"] /\ Lock(r, o) /\ UNCHANGED <<row, call>>
      BY <1>2, <2>2, <2>4 DEF CreateOrder
    <3> QED
      BY <2>1, <3>1, HiddenStep DEF Lock, InTx, RepoTypeOK
  <2> QED
    BY <2>3, <2>4
<1>3. CASE UpdateRow(r)
  BY <1>3, HiddenStep DEF UpdateRow, Lock, InTx, RepoTypeOK
<1>4. CASE DeadlockDetected(r) \/ Fail(r)
  <2>1. InTx(r) /\ Rollback(r, "error")
    BY <1>4 DEF DeadlockDetected, Fail, InTx
  <2> QED
    BY <2>1, RollbackIsReturn, ErrorIsAllowed
<1>5. CASE Commit(r, "ok") \/ CommitUnacknowledged(r)
  BY <1>5, CommitImplements DEF CommitUnacknowledged
<1>6. CASE SerializationFailure(r)
  <2>1. CASE Rollback(r, "conflict")
    BY <1>6, <2>1, RollbackIsReturn
       DEF SerializationFailure, Promise!ReturnFromSave
  <2>2. CASE Rollback(r, "select")
    BY <1>6, <2>2, HiddenStep DEF SerializationFailure, Rollback, InTx, RepoTypeOK
  <2> QED
    BY <1>6, <2>1, <2>2 DEF SerializationFailure
<1> QED
  BY <1>1, <1>2, <1>3, <1>4, <1>5, <1>6 DEF RepoStep, RepoFault

\* A crash ends every pending call without effect.
LEMMA AbortAllImplements ==
  ASSUME RepoIInv, AbortAll
  PROVE  Promise!Crash
<1> USE DEF RepoIInv, RepoTypeOK
<1>1. \A r \in Requests :
        /\ ~ InTx(r)'
        /\ tx'[r] = IF InTx(r) THEN "error" ELSE tx[r]
        /\ hit'[r] = IF InTx(r) THEN {} ELSE hit[r]
  BY DEF AbortAll, InTx
<1>2. answerOf' = [r \in Requests |->
                     IF answerOf[r] = "pending" THEN "error" ELSE answerOf[r]]
  BY <1>1 DEF answerOf, InTx
<1>3. wroteBy' = wroteBy
  BY <1>1 DEF wroteBy
<1> QED
  BY <1>2, <1>3 DEF Promise!Crash, AbortAll, answerOf, wroteBy

\* Every step of the repository is a step of OrderRepository or a stutter.
LEMMA NextImplements ==
  RepoIInv /\ RepoIInv' /\ [Next]_vars => [Promise!Next]_(Promise!vars)
<1> SUFFICES ASSUME RepoIInv, RepoIInv', [Next]_vars
             PROVE  Promise!Next \/ UNCHANGED Promise!vars
  OBVIOUS
<1>1. ASSUME NEW r \in Requests, NEW c \in Asked, Call(r, c)
      PROVE  Promise!Next
  BY <1>1, CallImplements DEF Promise!Next
<1>2. ASSUME NEW r \in Requests, RepoStep(r) \/ RepoFault(r)
      PROVE  Promise!Next \/ UNCHANGED Promise!vars
  BY <1>2, RepoStepImplements DEF Promise!Next
<1>3. CASE AbortAll
  BY <1>3, AbortAllImplements DEF Promise!Next
<1>4. CASE UNCHANGED vars
  BY <1>4 DEF vars, repoVars, Promise!vars, InTx
<1> QED
  BY <1>1, <1>2, <1>3, <1>4 DEF Next

\* The SQL transactions, with their locks, retries and lost answers, implement
\* the repository that the service relies on.
THEOREM Refinement == Spec => KeepsPromise
<1>1. Spec => Init /\ [][Next]_vars
  BY DEF Spec
<1> QED
  BY <1>1, InitImplements, NextImplements, Invariance, PTL
     DEF KeepsPromise, Promise!Spec
=============================================================================
