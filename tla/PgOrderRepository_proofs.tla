---------------------- MODULE PgOrderRepository_proofs ----------------------
(***************************************************************************)
(* What every operation of the PostgreSQL repository keeps, for every      *)
(* number of orders and of callers.  The lemmas speak of the operations,   *)
(* not of a specification: each module that composes the repository with   *)
(* its own callers cites them.                                             *)
(***************************************************************************)
EXTENDS PgOrderRepository, TLAPS

USE DEF Phases, Answers

-----------------------------------------------------------------------------
(* Every variable keeps its type. *)

\* The tables start in their types when the rows do.
LEMMA RepoInitType ==
  ASSUME NEW Rows, Rows \subseteq Statuses \cup {NoRow}, RepoInit(Rows)
  PROVE  RepoTypeOK
<1>1. NoCall \in Calls
  BY DEF NoCall, Calls, Statuses
<1> QED
  BY <1>1, RepositoryAssumption DEF RepoInit, RepoTypeOK

\* Calling Save leaves the repository well typed.
LEMMA SaveType ==
  ASSUME RepoTypeOK, NEW r \in Requests, NEW c \in Calls, Save(r, c)
  PROVE  RepoTypeOK'
BY RepositoryAssumption DEF RepoTypeOK, Save

\* Calling BatchUpdateOrderStatus leaves it well typed.
LEMMA BatchUpdateType ==
  ASSUME RepoTypeOK, NEW r \in Requests, NEW c \in Calls, BatchUpdate(r, c)
  PROVE  RepoTypeOK'
BY DEF RepoTypeOK, BatchUpdate, Calls

\* Releasing the locks of one transaction keeps the type of lock.
LEMMA ReleasedType ==
  ASSUME RepoTypeOK, NEW r \in Requests
  PROVE  Released(r) \in [Orders -> Requests \cup {Nobody}]
BY DEF RepoTypeOK, Released

\* A rollback keeps every type of the repository.
LEMMA RollbackType ==
  ASSUME RepoTypeOK, NEW r \in Requests, NEW p \in Phases \cup Answers,
         Rollback(r, p), attempt' \in [Requests -> 1..MaxRetries]
  PROVE  RepoTypeOK'
BY ReleasedType DEF RepoTypeOK, Rollback

\* The loop of Save never counts past its last attempt.
LEMMA AttemptType ==
  ASSUME RepoTypeOK, NEW r \in Requests, SerializationFailure(r)
  PROVE  attempt' \in [Requests -> 1..MaxRetries]
BY RepositoryAssumption DEF SerializationFailure, RepoTypeOK

\* A commit, acknowledged or not, keeps every type.
LEMMA CommitType ==
  ASSUME RepoTypeOK, NEW r \in Requests, NEW a \in Answers, Commit(r, a)
  PROVE  RepoTypeOK'
<1>1. row' \in [Orders -> Statuses \cup {NoRow}]
  BY DEF Commit, RepoTypeOK, Calls
<1> QED
  BY <1>1, ReleasedType DEF Commit, RepoTypeOK

\* Every step and every fault of the repository keeps its types.
LEMMA RepoStepType ==
  ASSUME RepoTypeOK, NEW r \in Requests, RepoStep(r) \/ RepoFault(r)
  PROVE  RepoTypeOK'
<1> USE DEF RepoTypeOK
<1>0. call[r].ids \in SUBSET Orders
  BY DEF Calls
<1>1. CASE GetOrderByIDForUpdate(r)
  BY <1>0, <1>1 DEF GetOrderByIDForUpdate, Lock
<1>2. CASE CreateOrder(r)
  BY <1>0, <1>2 DEF CreateOrder, Lock
<1>3. CASE UpdateRow(r)
  BY <1>3 DEF UpdateRow, Lock
<1>4. CASE DeadlockDetected(r) \/ Fail(r)
  BY <1>4, RollbackType DEF DeadlockDetected, Fail
<1>5. CASE Commit(r, "ok") \/ CommitUnacknowledged(r)
  BY <1>5, CommitType DEF CommitUnacknowledged
<1>6. CASE SerializationFailure(r)
  BY <1>6, AttemptType, RollbackType DEF SerializationFailure
<1> QED
  BY <1>1, <1>2, <1>3, <1>4, <1>5, <1>6 DEF RepoStep, RepoFault

\* So does the rollback of everything that was open.
LEMMA AbortAllType ==
  ASSUME RepoTypeOK, AbortAll
  PROVE  RepoTypeOK'
BY DEF RepoTypeOK, AbortAll

-----------------------------------------------------------------------------
(* Locks, batches and calls: the operations keep RepoIInv. *)

\* A table without transactions satisfies the invariant.
LEMMA RepoInitIInv ==
  ASSUME NEW Rows, Rows \subseteq Statuses \cup {NoRow}, RepoInit(Rows)
  PROVE  RepoIInv
<1>1. RepoTypeOK
  BY RepoInitType
<1>2. \A r \in Requests : tx[r] = "none"
  BY DEF RepoInit
<1>3. LocksMatchTransactions
  BY <1>2, RepositoryAssumption DEF RepoInit, LocksMatchTransactions, InTx
<1>4. BatchRowsUnchanged /\ TxMatchesCall
  BY <1>2 DEF BatchRowsUnchanged, TxMatchesCall
<1> QED
  BY <1>1, <1>3, <1>4 DEF RepoIInv

\* A caller that calls Save with one order holds no lock yet.
LEMMA SaveKeepsIInv ==
  ASSUME RepoIInv, NEW r \in Requests, NEW c \in Calls, Save(r, c),
         c.op = "save", NEW o \in Orders, c.ids = {o}
  PROVE  RepoIInv'
<1> USE DEF RepoIInv
<1>1. RepoTypeOK'
  BY SaveType
<1>2. LocksMatchTransactions'
  BY DEF LocksMatchTransactions, Save, InTx, RepoTypeOK
<1>3. BatchRowsUnchanged'
  BY DEF BatchRowsUnchanged, Save, RepoTypeOK
<1>4. TxMatchesCall'
  BY DEF TxMatchesCall, Save, RepoTypeOK
<1> QED
  BY <1>1, <1>2, <1>3, <1>4

\* Nor does a caller that starts a batch.
LEMMA BatchUpdateKeepsIInv ==
  ASSUME RepoIInv, NEW r \in Requests, NEW c \in Calls, BatchUpdate(r, c),
         c.op = "batch"
  PROVE  RepoIInv'
<1> USE DEF RepoIInv
<1>1. RepoTypeOK'
  BY BatchUpdateType
<1>2. LocksMatchTransactions'
  BY DEF LocksMatchTransactions, BatchUpdate, InTx, RepoTypeOK
<1>3. BatchRowsUnchanged'
  BY DEF BatchRowsUnchanged, BatchUpdate, RepoTypeOK
<1>4. TxMatchesCall'
  BY DEF TxMatchesCall, BatchUpdate, RepoTypeOK
<1> QED
  BY <1>1, <1>2, <1>3, <1>4

\* A rollback leaves no lock behind, whatever the caller is told, and a Save
\* that starts over starts without one.
LEMMA RollbackKeepsIInv ==
  ASSUME RepoIInv, NEW r \in Requests, NEW p \in {"select"} \cup Answers,
         Rollback(r, p), attempt' \in [Requests -> 1..MaxRetries],
         p = "select" => call[r].op = "save" /\ \E o \in Orders : call[r].ids = {o}
  PROVE  RepoIInv'
<1> USE DEF RepoIInv
<1>1. RepoTypeOK'
  BY RollbackType
<1>2. LocksMatchTransactions'
  <2> SUFFICES ASSUME NEW o \in Orders, NEW q \in Requests
               PROVE  (lock[o] = q <=> InTx(q) /\ o \in hit[q])'
    BY DEF LocksMatchTransactions
  <2>1. CASE q = r
    BY <2>1, RepositoryAssumption DEF Rollback, Released, InTx, RepoTypeOK
  <2>2. CASE q # r
    BY <2>2, RepositoryAssumption
       DEF LocksMatchTransactions, Rollback, Released, InTx, RepoTypeOK
  <2> QED
    BY <2>1, <2>2
<1>3. BatchRowsUnchanged'
  BY DEF BatchRowsUnchanged, Rollback, RepoTypeOK
<1>4. TxMatchesCall'
  <2> SUFFICES ASSUME NEW q \in Requests
               PROVE  TxMatchesCall!(q)'
    BY DEF TxMatchesCall
  <2>1. CASE q = r
    BY <2>1 DEF Rollback, RepoTypeOK
  <2>2. CASE q # r
    BY <2>2 DEF TxMatchesCall, Rollback, RepoTypeOK
  <2> QED
    BY <2>1, <2>2
<1> QED
  BY <1>1, <1>2, <1>3, <1>4

\* A row that was free gets an owner, and the owner counts it as written: one
\* transaction more holds it, and nobody else did.
LEMMA LockKeepsLocks ==
  ASSUME RepoIInv, NEW r \in Requests, NEW o \in Orders, Lock(r, o),
         InTx(r), InTx(r)', \A q \in Requests \ {r} : tx'[q] = tx[q]
  PROVE  LocksMatchTransactions'
<1> SUFFICES ASSUME NEW u \in Orders, NEW q \in Requests
             PROVE  (lock[u] = q <=> InTx(q) /\ u \in hit[q])'
  BY DEF LocksMatchTransactions
<1>1. CASE q = r
  BY <1>1, RepositoryAssumption
     DEF RepoIInv, LocksMatchTransactions, Lock, InTx, RepoTypeOK
<1>2. CASE q # r
  BY <1>2, RepositoryAssumption
     DEF RepoIInv, LocksMatchTransactions, Lock, InTx, RepoTypeOK
<1> QED
  BY <1>1, <1>2

\* An attempt of Save that gives up before it has locked anything has nothing
\* to release.
LEMMA LeaveKeepsLocks ==
  ASSUME RepoIInv, NEW r \in Requests, hit[r] = {}, UNCHANGED <<lock, hit>>,
         \A q \in Requests \ {r} : tx'[q] = tx[q]
  PROVE  LocksMatchTransactions'
BY DEF RepoIInv, LocksMatchTransactions, InTx

\* The SELECT FOR UPDATE NOWAIT keeps the invariant.
LEMMA GetOrderByIDForUpdateKeepsIInv ==
  ASSUME RepoIInv, NEW r \in Requests, GetOrderByIDForUpdate(r)
  PROVE  RepoIInv'
<1> USE DEF RepoIInv
<1>1. RepoTypeOK'
  BY RepoStepType DEF RepoStep
<1>2. PICK o \in Orders : call[r].ids = {o}
  BY DEF GetOrderByIDForUpdate, TxMatchesCall
<1>3. /\ call[r].op = "save" /\ hit[r] = {}
      /\ tx' \in [Requests -> {"none"} \cup Phases \cup Answers]
      /\ \A q \in Requests \ {r} : tx'[q] = tx[q]
  BY <1>1 DEF GetOrderByIDForUpdate, TxMatchesCall, RepoTypeOK
<1>4. LocksMatchTransactions'
  <2>1. CASE Lock(r, o) /\ tx' = [tx EXCEPT ![r] = "commit"]
    BY <1>3, <2>1, LockKeepsLocks DEF GetOrderByIDForUpdate, InTx, RepoTypeOK
  <2>2. CASE UNCHANGED <<lock, hit>>
    BY <1>3, <2>2, LeaveKeepsLocks
  <2> QED
    BY <1>2, <2>1, <2>2 DEF GetOrderByIDForUpdate
<1>5. BatchRowsUnchanged'
  BY <1>2 DEF BatchRowsUnchanged, GetOrderByIDForUpdate, Lock, RepoTypeOK
<1>6. TxMatchesCall'
  <2> SUFFICES ASSUME NEW q \in Requests
               PROVE  TxMatchesCall!(q)'
    BY DEF TxMatchesCall
  <2>1. CASE q = r
    <3>1. CASE Lock(r, o) /\ tx' = [tx EXCEPT ![r] = "commit"]
      <4>1. hit'[r] = {o} /\ tx'[r] = "commit" /\ call' = call
        BY <1>3, <3>1 DEF GetOrderByIDForUpdate, Lock, RepoTypeOK
      <4> QED
        BY <1>2, <1>3, <2>1, <4>1
    <3>2. CASE UNCHANGED <<lock, hit>>
      <4>1. tx'[r] \in {"insert", "error"} /\ call' = call
        BY <1>2, <1>3, <3>2 DEF GetOrderByIDForUpdate, Lock, RepoTypeOK
      <4> QED
        BY <1>2, <1>3, <2>1, <3>2, <4>1
    <3> QED
      BY <1>2, <3>1, <3>2 DEF GetOrderByIDForUpdate
  <2>2. CASE q # r
    BY <2>2 DEF TxMatchesCall, GetOrderByIDForUpdate, Lock, RepoTypeOK
  <2> QED
    BY <2>1, <2>2
<1> QED
  BY <1>1, <1>4, <1>5, <1>6

\* So does the INSERT.
LEMMA CreateOrderKeepsIInv ==
  ASSUME RepoIInv, NEW r \in Requests, CreateOrder(r)
  PROVE  RepoIInv'
<1> USE DEF RepoIInv
<1>1. RepoTypeOK'
  BY RepoStepType DEF RepoStep
<1>2. PICK o \in Orders : call[r].ids = {o}
  BY DEF CreateOrder, TxMatchesCall
<1>3. /\ call[r].op = "save" /\ hit[r] = {}
      /\ \A q \in Requests \ {r} : tx'[q] = tx[q]
  BY DEF CreateOrder, TxMatchesCall, RepoTypeOK
<1>4. LocksMatchTransactions'
  <2>1. CASE Lock(r, o) /\ tx' = [tx EXCEPT ![r] = "commit"]
    BY <1>3, <2>1, LockKeepsLocks DEF CreateOrder, InTx, RepoTypeOK
  <2>2. CASE UNCHANGED <<lock, hit>>
    BY <1>3, <2>2, LeaveKeepsLocks
  <2> QED
    BY <1>2, <2>1, <2>2 DEF CreateOrder
<1>5. BatchRowsUnchanged'
  BY <1>2 DEF BatchRowsUnchanged, CreateOrder, Lock, RepoTypeOK
<1>6. TxMatchesCall'
  <2> SUFFICES ASSUME NEW q \in Requests
               PROVE  TxMatchesCall!(q)'
    BY DEF TxMatchesCall
  <2>1. CASE q = r
    BY <1>2, <1>3, <2>1 DEF CreateOrder, Lock, RepoTypeOK
  <2>2. CASE q # r
    BY <2>2 DEF TxMatchesCall, CreateOrder, Lock, RepoTypeOK
  <2> QED
    BY <2>1, <2>2
<1> QED
  BY <1>1, <1>4, <1>5, <1>6

\* A batch locks a row only after it has compared its status.
LEMMA UpdateRowKeepsIInv ==
  ASSUME RepoIInv, NEW r \in Requests, UpdateRow(r)
  PROVE  RepoIInv'
<1> USE DEF RepoIInv
<1>1. RepoTypeOK'
  BY RepoStepType DEF RepoStep
<1>2. PICK o \in todo[r] : UpdateRow(r)!2!(o)
  BY DEF UpdateRow
<1>3. /\ o \in Orders /\ tx[r] = "update" /\ call[r].op = "batch"
      /\ todo[r] \cup hit[r] \subseteq call[r].ids
      /\ UNCHANGED <<row, tx, call>>
  BY <1>2 DEF UpdateRow, TxMatchesCall, RepoTypeOK
<1>4. CASE UNCHANGED <<lock, hit>>
  <2>1. LocksMatchTransactions' /\ BatchRowsUnchanged'
    BY <1>3, <1>4 DEF LocksMatchTransactions, BatchRowsUnchanged, InTx
  <2>2. TxMatchesCall'
    BY <1>2, <1>3, <1>4 DEF TxMatchesCall, RepoTypeOK
  <2> QED
    BY <1>1, <2>1, <2>2
<1>5. CASE row[o] = call[r].from /\ Lock(r, o)
  <2>1. LocksMatchTransactions'
    BY <1>3, <1>5, LockKeepsLocks DEF InTx
  <2>2. BatchRowsUnchanged'
    BY <1>3, <1>5 DEF BatchRowsUnchanged, Lock, RepoTypeOK
  <2>3. TxMatchesCall'
    BY <1>2, <1>3, <1>5 DEF TxMatchesCall, Lock, RepoTypeOK
  <2> QED
    BY <1>1, <2>1, <2>2, <2>3
<1> QED
  BY <1>2, <1>4, <1>5

\* No two transactions write the same row.
LEMMA WritersAreAlone ==
  ASSUME RepoIInv, NEW r \in Requests, NEW q \in Requests, q # r,
         InTx(r), InTx(q), NEW o \in hit[r]
  PROVE  o \notin hit[q]
<1>1. o \in Orders
  BY DEF RepoIInv, RepoTypeOK
<1> QED
  BY <1>1 DEF RepoIInv, LocksMatchTransactions

\* A commit releases its locks; the rows it writes are in no open batch.
LEMMA CommitKeepsIInv ==
  ASSUME RepoIInv, NEW r \in Requests, NEW a \in Answers, Commit(r, a)
  PROVE  RepoIInv'
<1> USE DEF RepoIInv
<1>1. RepoTypeOK'
  BY CommitType
<1>2. LocksMatchTransactions'
  <2> SUFFICES ASSUME NEW o \in Orders, NEW q \in Requests
               PROVE  (lock[o] = q <=> InTx(q) /\ o \in hit[q])'
    BY DEF LocksMatchTransactions
  <2>1. CASE q = r
    BY <2>1, RepositoryAssumption DEF Commit, Released, InTx, RepoTypeOK
  <2>2. CASE q # r
    BY <2>2, RepositoryAssumption
       DEF LocksMatchTransactions, Commit, Released, InTx, RepoTypeOK
  <2> QED
    BY <2>1, <2>2
<1>3. BatchRowsUnchanged'
  <2> SUFFICES ASSUME NEW q \in Requests, tx'[q] = "update", NEW o \in hit'[q]
               PROVE  row'[o] = call'[q].from
    BY DEF BatchRowsUnchanged
  <2>1. q # r /\ tx[q] = "update" /\ o \in hit[q] /\ o \in Orders
    BY DEF Commit, RepoTypeOK
  <2>2. o \notin hit[r]
    BY <2>1, WritersAreAlone DEF Commit, InTx
  <2> QED
    BY <2>1, <2>2 DEF BatchRowsUnchanged, Commit
<1>4. TxMatchesCall'
  BY DEF TxMatchesCall, Commit, RepoTypeOK
<1> QED
  BY <1>1, <1>2, <1>3, <1>4

\* 40001 sends only a Save back to its SELECT.
LEMMA SerializationFailureKeepsIInv ==
  ASSUME RepoIInv, NEW r \in Requests, SerializationFailure(r)
  PROVE  RepoIInv'
<1>1. attempt' \in [Requests -> 1..MaxRetries]
  BY AttemptType DEF RepoIInv
<1>2. call[r].op = "save" /\ \E o \in Orders : call[r].ids = {o}
  BY DEF SerializationFailure, InTx, RepoIInv, TxMatchesCall
<1> QED
  BY <1>1, <1>2, RollbackKeepsIInv DEF SerializationFailure

\* Every step and every fault of the repository keeps the invariant.
LEMMA RepoStepKeepsIInv ==
  ASSUME RepoIInv, NEW r \in Requests, RepoStep(r) \/ RepoFault(r)
  PROVE  RepoIInv'
<1>1. CASE GetOrderByIDForUpdate(r)
  BY <1>1, GetOrderByIDForUpdateKeepsIInv
<1>2. CASE CreateOrder(r)
  BY <1>2, CreateOrderKeepsIInv
<1>3. CASE UpdateRow(r)
  BY <1>3, UpdateRowKeepsIInv
<1>4. CASE DeadlockDetected(r) \/ Fail(r)
  BY <1>4, RollbackKeepsIInv DEF DeadlockDetected, Fail, RepoIInv, RepoTypeOK
<1>5. CASE Commit(r, "ok") \/ CommitUnacknowledged(r)
  BY <1>5, CommitKeepsIInv DEF CommitUnacknowledged
<1>6. CASE SerializationFailure(r)
  BY <1>6, SerializationFailureKeepsIInv
<1> QED
  BY <1>1, <1>2, <1>3, <1>4, <1>5, <1>6 DEF RepoStep, RepoFault

\* A crash leaves neither a transaction nor a lock.
LEMMA AbortAllKeepsIInv ==
  ASSUME RepoIInv, AbortAll
  PROVE  RepoIInv'
<1> USE DEF RepoIInv
<1>1. RepoTypeOK'
  BY AbortAllType
<1>2. \A r \in Requests : tx'[r] \notin Phases
  BY DEF AbortAll, InTx, RepoTypeOK
<1>3. LocksMatchTransactions'
  BY <1>2, RepositoryAssumption DEF LocksMatchTransactions, AbortAll, InTx
<1>4. BatchRowsUnchanged' /\ TxMatchesCall'
  BY <1>2 DEF BatchRowsUnchanged, TxMatchesCall
<1> QED
  BY <1>1, <1>3, <1>4
=============================================================================
