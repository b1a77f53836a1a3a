----------------------- MODULE OrderStateServiceSafety -----------------------
(***************************************************************************)
(* The inductive invariant of the order state service, and what follows.   *)
(* The argument: a status is written only if its request has seen a status *)
(* from which it is legal (CallsJustified), so histories have no gaps, and *)
(* nothing ever returns to Created; a Save answered "ok" has written its   *)
(* order (SavesWrote), so events and payments rest on a committed change.  *)
(***************************************************************************)
EXTENDS OrderStateService_proofs

USE DEF Phases, Answers, Running, Finished

\* The inductive invariant holds when the service starts.
LEMMA InitIInv == Init => IInv
<1> SUFFICES ASSUME Init PROVE IInv
  OBVIOUS
<1>1. TypeOK
  BY InitTypeOK
<1>2. HistoryHasRow
  BY <1>1 DEF Init, HistoryHasRow, TypeOK, RepoTypeOK
<1>3. CallsJustified /\ TransactionsBelong /\ SavesWrote /\ PublishersWrote
  <2>1. \A r \in Requests : pc[r] = "idle" /\ tx[r] = "none" /\ call[r].ids = {}
    BY DEF Init, RepoInit, NoCall
  <2> QED
    BY <2>1 DEF CallsJustified, TransactionsBelong, SavesWrote, PublishersWrote, InTx
<1>4. NoStageSkipped
  BY DEF Init, RepoInit, NoStageSkipped
<1>5. PublishersAreDone /\ PaymentNeverForgotten /\ EventsTellCommittedChanges
  BY ServiceAssumption
     DEF Init, PublishersAreDone, PaymentNeverForgotten, EventsTellCommittedChanges
<1> QED
  BY <1>1, <1>2, <1>3, <1>4, <1>5 DEF IInv

-----------------------------------------------------------------------------
(* Steps of the handlers: rows and histories stay as they are. *)

\* A request that has not announced anything calls Save with a change that is
\* legal for the status it has read, or with a new order.
LEMMA CallSaveIInv ==
  ASSUME IInv, TypeOK', NEW r \in Requests, NEW o \in Orders, NEW s, NEW t, NEW p,
         CallSave(r, o, s, t, p), pc[r] \in {"idle", "reget"},
         \/ p = "create" /\ t = "WaitingForShipment"
         \/ p = "saving" /\ s \in reached[o] /\ CanTransitionTo(s, t)
  PROVE  IInv'
<1> DEFINE c == SaveRequest(o, s, t)
<1>0. /\ c.ids = {o} /\ c.from = s /\ c.to = t /\ c.op = "save"
      /\ call' = [call EXCEPT ![r] = c]
      /\ pc' = [pc EXCEPT ![r] = p]
      /\ tx' = [tx EXCEPT ![r] = "select"]
      /\ hit' = [hit EXCEPT ![r] = {}]
      /\ UNCHANGED <<row, todo, pending, published, reached>>
  BY DEF CallSave, Save, Goto, SaveRequest
<1> HIDE DEF c
<1> USE <1>0 DEF TypeOK, RepoTypeOK, IInv
<1>1. HistoryHasRow'
  BY DEF HistoryHasRow
<1>2. CallsJustified'
  BY DEF CallsJustified
<1>3. TransactionsBelong'
  BY DEF TransactionsBelong, InTx
<1>4. SavesWrote'
  BY DEF SavesWrote, PastCreated
<1>5. PublishersWrote'
  BY DEF PublishersWrote, PastCreated
<1>6. PublishersAreDone'
  BY DEF PublishersAreDone, Events
<1>7. NoStageSkipped'
  BY DEF NoStageSkipped
<1>8. PaymentNeverForgotten'
  BY DEF PaymentNeverForgotten, PastCreated
<1>9. EventsTellCommittedChanges'
  BY DEF EventsTellCommittedChanges, PublishersAreDone, Events
<1> QED
  BY <1>1, <1>2, <1>3, <1>4, <1>5, <1>6, <1>7, <1>8, <1>9

\* A handler that moves on or returns, and what it may not return without.
LEMMA FinishIInv ==
  ASSUME IInv, TypeOK', NEW r \in Requests, NEW p, Finish(r, p), ~ InTx(r),
         pc[r] \in {"idle", "create", "reget", "saving", "recheck", "batch"},
         \/ p = "failed"
         \/ p = "reget" /\ pc[r] = "create"
         \/ p = "recheck" /\ pc[r] = "saving"
         \/ p = "ok" /\ \A o \in call[r].ids : PastCreated(o)
  PROVE  IInv'
<1>0. /\ pc' = [pc EXCEPT ![r] = p]
      /\ UNCHANGED <<repoVars, pending, published, reached>>
  BY DEF Finish, Goto
<1> USE <1>0 DEF TypeOK, RepoTypeOK, IInv, repoVars
<1>1. HistoryHasRow'
  BY DEF HistoryHasRow
<1>2. CallsJustified'
  BY DEF CallsJustified
<1>3. TransactionsBelong'
  BY DEF TransactionsBelong, InTx
<1>4. SavesWrote'
  BY DEF SavesWrote, PastCreated
<1>5. PublishersWrote'
  BY DEF PublishersWrote, PastCreated
<1>6. PublishersAreDone'
  BY DEF PublishersAreDone, Events
<1>7. NoStageSkipped'
  BY DEF NoStageSkipped
<1>8. PaymentNeverForgotten'
  BY DEF PaymentNeverForgotten, PastCreated
<1>9. EventsTellCommittedChanges'
  BY DEF EventsTellCommittedChanges, PublishersAreDone, Events
<1> QED
  BY <1>1, <1>2, <1>3, <1>4, <1>5, <1>6, <1>7, <1>8, <1>9

\* The transition check makes a change that it lets through justified.
LEMMA UpdateStatusIInv ==
  ASSUME IInv, TypeOK', NEW r \in Requests, NEW o \in Orders, NEW t,
         row[o] # NoRow, UpdateStatus(r, o, t),
         pc[r] \in {"idle", "reget"}
  PROVE  IInv'
<1>1. row[o] \in reached[o]
  BY DEF IInv, HistoryHasRow
<1>2. ~ InTx(r)
  BY DEF IInv, TransactionsBelong, InTx
<1>3. CASE CanTransitionTo(row[o], t) /\ CallSave(r, o, row[o], t, "saving")
  BY <1>1, <1>3, CallSaveIInv
<1>4. CASE Finish(r, "failed")
  BY <1>2, <1>4, FinishIInv
<1> QED
  BY <1>3, <1>4 DEF UpdateStatus

\* A payment for an order that is past Created is answered at once.
LEMMA PaymentForExistingOrderIInv ==
  ASSUME IInv, TypeOK', NEW r \in Requests, NEW o \in Orders,
         row[o] # NoRow, PaymentForExistingOrder(r, o),
         pc[r] \in {"idle", "reget"}
  PROVE  IInv'
<1>1. CASE UpdateStatus(r, o, "WaitingForShipment")
  BY <1>1, UpdateStatusIInv
<1>2. CASE /\ row[o] # "Created"
           /\ Goto(r, "ok")
           /\ call' = [call EXCEPT ![r] = SaveRequest(o, row[o], "WaitingForShipment")]
           /\ UNCHANGED <<row, lock, tx, attempt, todo, hit, pending, published, reached>>
  <2> DEFINE c == SaveRequest(o, row[o], "WaitingForShipment")
  <2>0. /\ c.ids = {o} /\ c.op = "save"
        /\ call' = [call EXCEPT ![r] = c]
        /\ pc' = [pc EXCEPT ![r] = "ok"]
        /\ UNCHANGED <<row, lock, tx, attempt, todo, hit, pending, published, reached>>
        /\ PastCreated(o)
        /\ ~ InTx(r)
    BY <1>2 DEF Goto, SaveRequest, PastCreated, IInv, TransactionsBelong, InTx
  <2> HIDE DEF c
  <2> USE <2>0 DEF TypeOK, RepoTypeOK, IInv
  <2>1. HistoryHasRow'
    BY DEF HistoryHasRow
  <2>2. CallsJustified'
    BY DEF CallsJustified
  <2>3. TransactionsBelong'
    BY DEF TransactionsBelong, InTx
  <2>4. SavesWrote'
    BY DEF SavesWrote, PastCreated
  <2>5. PublishersWrote'
    BY DEF PublishersWrote, PastCreated
  <2>6. PublishersAreDone'
    BY DEF PublishersAreDone, Events
  <2>7. NoStageSkipped'
    BY DEF NoStageSkipped
  <2>8. PaymentNeverForgotten'
    BY DEF PaymentNeverForgotten, PastCreated
  <2>9. EventsTellCommittedChanges'
    BY DEF EventsTellCommittedChanges, PublishersAreDone, Events
  <2> QED
    BY <2>1, <2>2, <2>3, <2>4, <2>5, <2>6, <2>7, <2>8, <2>9
<1> QED
  BY <1>1, <1>2 DEF PaymentForExistingOrder

\* A Save that was answered "ok": its event may be published.
LEMMA SavedIInv ==
  ASSUME IInv, TypeOK', NEW r \in Requests, Saved(r)
  PROVE  IInv'
<1>0. ~ InTx(r) /\ pc[r] = "saving"
  BY DEF Saved, InTx, IInv, TypeOK, RepoTypeOK
<1>1. CASE /\ tx[r] = "ok"
           /\ Goto(r, "publish")
           /\ pending' = [pending EXCEPT ![r] = call[r].ids]
           /\ UNCHANGED <<repoVars, published, reached>>
  <2>0. /\ pc' = [pc EXCEPT ![r] = "publish"]
        /\ UNCHANGED <<row, lock, tx, attempt, call, todo, hit, published, reached>>
    BY <1>1 DEF Goto, repoVars
  <2> USE <1>0, <1>1, <2>0 DEF TypeOK, RepoTypeOK, IInv
  <2>1. HistoryHasRow'
    BY DEF HistoryHasRow
  <2>2. CallsJustified'
    BY DEF CallsJustified
  <2>3. TransactionsBelong'
    BY DEF TransactionsBelong, InTx
  <2>4. SavesWrote'
    BY DEF SavesWrote, PastCreated
  <2>5. PublishersWrote'
    BY DEF PublishersWrote, PastCreated, SavesWrote
  <2>6. PublishersAreDone'
    BY DEF PublishersAreDone, Events
  <2>7. NoStageSkipped'
    BY DEF NoStageSkipped
  <2>8. PaymentNeverForgotten'
    BY DEF PaymentNeverForgotten, PastCreated
  <2>9. EventsTellCommittedChanges'
    BY DEF EventsTellCommittedChanges, PublishersAreDone, Events
  <2> QED
    BY <2>1, <2>2, <2>3, <2>4, <2>5, <2>6, <2>7, <2>8, <2>9
<1>2. CASE Finish(r, "recheck") \/ Finish(r, "failed")
  BY <1>0, <1>2, FinishIInv
<1> QED
  BY <1>1, <1>2 DEF Saved

\* A batch that was selected is justified by the statuses just read.
LEMMA SelectBatchIInv ==
  ASSUME IInv, TypeOK', NEW r \in Schedulers, r \in Requests, SelectBatch(r)
  PROVE  IInv'
<1>a. PICK t \in schedulerTransitions : \E S \in SUBSET {o \in Orders : row[o] = t[1]} :
         call' = [call EXCEPT ![r] =
                   [op |-> "batch", ids |-> S, from |-> t[1], to |-> t[2]]]
  BY DEF SelectBatch
<1>b. PICK S \in SUBSET {o \in Orders : row[o] = t[1]} :
         call' = [call EXCEPT ![r] =
                   [op |-> "batch", ids |-> S, from |-> t[1], to |-> t[2]]]
  BY <1>a
<1> DEFINE c == [op |-> "batch", ids |-> S, from |-> t[1], to |-> t[2]]
<1>c. t[1] \in Statuses /\ t[1] # NoRow /\ CanTransitionTo(t[1], t[2])
  BY TransitionsOfScheduler, RepositoryAssumption
<1>0. /\ c.op = "batch" /\ c.ids = S /\ c.from = t[1] /\ c.to = t[2]
      /\ \A o \in S : c.from \in reached[o]
      /\ call' = [call EXCEPT ![r] = c]
      /\ pc[r] = "idle" /\ pc' = [pc EXCEPT ![r] = "selected"]
      /\ UNCHANGED <<row, lock, tx, attempt, todo, hit, pending, published, reached>>
      /\ ~ InTx(r)
  BY <1>b, <1>c
     DEF SelectBatch, Goto, IInv, HistoryHasRow, TransactionsBelong, InTx
<1> HIDE DEF c
<1> USE <1>0, <1>c DEF TypeOK, RepoTypeOK, IInv
<1>1. HistoryHasRow'
  BY DEF HistoryHasRow
<1>2. CallsJustified'
  BY DEF CallsJustified
<1>3. TransactionsBelong'
  BY DEF TransactionsBelong, InTx
<1>4. SavesWrote'
  BY DEF SavesWrote, PastCreated
<1>5. PublishersWrote'
  BY DEF PublishersWrote, PastCreated
<1>6. PublishersAreDone'
  BY DEF PublishersAreDone, Events
<1>7. NoStageSkipped'
  BY DEF NoStageSkipped
<1>8. PaymentNeverForgotten'
  BY DEF PaymentNeverForgotten, PastCreated
<1>9. EventsTellCommittedChanges'
  BY DEF EventsTellCommittedChanges, PublishersAreDone, Events
<1> QED
  BY <1>1, <1>2, <1>3, <1>4, <1>5, <1>6, <1>7, <1>8, <1>9

\* The UPDATE of a batch starts with nothing locked and nothing written.
LEMMA BatchUpdateOrderStatusIInv ==
  ASSUME IInv, TypeOK', NEW r \in Requests, BatchUpdateOrderStatus(r)
  PROVE  IInv'
<1>0. /\ pc[r] = "selected" /\ pc' = [pc EXCEPT ![r] = "batch"]
      /\ call' = call
      /\ tx' = [tx EXCEPT ![r] = "update"]
      /\ hit' = [hit EXCEPT ![r] = {}]
      /\ \E S \in SUBSET call[r].ids : todo' = [todo EXCEPT ![r] = S]
      /\ UNCHANGED <<row, lock, attempt, pending, published, reached>>
  BY DEF BatchUpdateOrderStatus, BatchUpdate, Goto, IInv, TypeOK, RepoTypeOK
<1> USE <1>0 DEF TypeOK, RepoTypeOK, IInv
<1>1. HistoryHasRow'
  BY DEF HistoryHasRow
<1>2. CallsJustified'
  BY DEF CallsJustified
<1>3. TransactionsBelong'
  BY DEF TransactionsBelong, InTx
<1>4. SavesWrote'
  BY DEF SavesWrote, PastCreated
<1>5. PublishersWrote'
  BY DEF PublishersWrote, PastCreated
<1>6. PublishersAreDone'
  BY DEF PublishersAreDone, Events
<1>7. NoStageSkipped'
  BY DEF NoStageSkipped
<1>8. PaymentNeverForgotten'
  BY DEF PaymentNeverForgotten, PastCreated
<1>9. EventsTellCommittedChanges'
  BY DEF EventsTellCommittedChanges, PublishersAreDone, Events
<1> QED
  BY <1>1, <1>2, <1>3, <1>4, <1>5, <1>6, <1>7, <1>8, <1>9

\* A batch that has been answered is no longer in a transaction.
LEMMA BatchUpdatedIInv ==
  ASSUME IInv, TypeOK', NEW r \in Requests, BatchUpdated(r)
  PROVE  IInv'
<1>0. ~ InTx(r) /\ pc[r] = "batch" /\ r \in Schedulers
  BY DEF BatchUpdated, InTx, IInv, TransactionsBelong
<1>1. CASE /\ tx[r] = "ok"
           /\ Goto(r, "publish")
           /\ pending' = [pending EXCEPT ![r] = call[r].ids]
           /\ UNCHANGED <<repoVars, published, reached>>
  <2>0. /\ pc' = [pc EXCEPT ![r] = "publish"]
        /\ UNCHANGED <<row, lock, tx, attempt, call, todo, hit, published, reached>>
    BY <1>1 DEF Goto, repoVars
  <2> USE <1>0, <1>1, <2>0 DEF TypeOK, RepoTypeOK, IInv
  <2>1. HistoryHasRow'
    BY DEF HistoryHasRow
  <2>2. CallsJustified'
    BY DEF CallsJustified
  <2>3. TransactionsBelong'
    BY DEF TransactionsBelong, InTx
  <2>4. SavesWrote'
    BY DEF SavesWrote, PastCreated
  <2>5. PublishersWrote'
    BY DEF PublishersWrote, PastCreated
  <2>6. PublishersAreDone'
    BY DEF PublishersAreDone, Events
  <2>7. NoStageSkipped'
    BY DEF NoStageSkipped
  <2>8. PaymentNeverForgotten'
    BY DEF PaymentNeverForgotten, PastCreated
  <2>9. EventsTellCommittedChanges'
    BY DEF EventsTellCommittedChanges, PublishersAreDone, Events
  <2> QED
    BY <2>1, <2>2, <2>3, <2>4, <2>5, <2>6, <2>7, <2>8, <2>9
<1>2. CASE Finish(r, "failed")
  BY <1>0, <1>2, FinishIInv
<1> QED
  BY <1>1, <1>2 DEF BatchUpdated

\* An event that is published tells of what its request has committed.
LEMMA PublishIInv ==
  ASSUME IInv, TypeOK', NEW r \in Requests, Publish(r)
  PROVE  IInv'
<1>1. PICK o \in pending[r] :
        /\ pending' = [pending EXCEPT ![r] = @ \ {o}]
        /\ \/ published' = published \cup {OrderStatusChanged(r, o)}
           \/ UNCHANGED published
        /\ Goto(r, IF pending[r] = {o} THEN "ok" ELSE "publish")
  BY DEF Publish
<1> DEFINE e == OrderStatusChanged(r, o)
<1>0. /\ pc[r] = "publish"
      /\ pc' = [pc EXCEPT ![r] = "ok"] \/ pc' = pc
      /\ e.by = r /\ e.id = o
      /\ e.from = ToInt(call[r].from) /\ e.to = ToInt(call[r].to)
      /\ published' \subseteq published \cup {e}
      /\ UNCHANGED <<row, lock, tx, attempt, call, todo, hit, reached>>
      /\ ~ InTx(r)
  BY <1>1 DEF Publish, Goto, OrderStatusChanged, repoVars, IInv, TypeOK,
              TransactionsBelong, InTx
<1> HIDE DEF e
<1> USE <1>0, <1>1 DEF TypeOK, RepoTypeOK, IInv
<1>2. r \notin Schedulers =>
        /\ tx[r] = "ok" /\ o \in hit[r]
        /\ call[r].from \in reached[o] /\ call[r].to \in reached[o]
        /\ CanTransitionTo(call[r].from, call[r].to)
  BY DEF PublishersWrote, CallsJustified
<1>3. HistoryHasRow'
  BY DEF HistoryHasRow
<1>4. CallsJustified'
  BY DEF CallsJustified
<1>5. TransactionsBelong'
  BY DEF TransactionsBelong, InTx
<1>6. SavesWrote'
  BY DEF SavesWrote, PastCreated
<1>7. PublishersWrote'
  BY DEF PublishersWrote, PastCreated
<1>8. PublishersAreDone'
  BY DEF PublishersAreDone, Events
<1>9. NoStageSkipped'
  BY DEF NoStageSkipped
<1>10. PaymentNeverForgotten'
  BY ServiceAssumption DEF PaymentNeverForgotten, PublishersWrote, PastCreated
<1>11. EventsTellCommittedChanges'
  <2> SUFFICES ASSUME NEW x \in published', x.by \notin Schedulers
               PROVE  /\ tx[x.by] = "ok" /\ x.id \in hit[x.by]
                      /\ \E s, t \in reached[x.id] :
                           CanTransitionTo(s, t) /\ x.from = ToInt(s) /\ x.to = ToInt(t)
    BY DEF EventsTellCommittedChanges
  <2>1. CASE x \in published
    BY <2>1 DEF EventsTellCommittedChanges
  <2>2. CASE x = e
    BY <1>2, <2>2
  <2> QED
    BY <2>1, <2>2
<1> QED
  BY <1>3, <1>4, <1>5, <1>6, <1>7, <1>8, <1>9, <1>10, <1>11

\* A crash ends requests and transactions, and leaves rows and events.
LEMMA CrashIInv ==
  ASSUME IInv, TypeOK', Crash
  PROVE  IInv'
<1> USE DEF TypeOK, RepoTypeOK, IInv, Crash, AbortAll
<1>0. \A q \in Requests :
        /\ tx[q] = "ok" => tx'[q] = "ok" /\ hit'[q] = hit[q]
        /\ pc'[q] = "ok" => pc[q] = "ok"
        /\ pc[q] \in {"publish", "ok", "crashed"} => pc'[q] \in {"ok", "crashed"}
  BY DEF InTx
<1>1. HistoryHasRow'
  BY DEF HistoryHasRow
<1>2. CallsJustified'
  BY DEF CallsJustified
<1>3. TransactionsBelong'
  BY DEF TransactionsBelong, InTx
<1>4. SavesWrote'
  BY DEF SavesWrote, PastCreated
<1>5. PublishersWrote'
  BY DEF PublishersWrote, PastCreated
<1>6. PublishersAreDone'
  BY DEF PublishersAreDone, Events
<1>7. NoStageSkipped'
  BY DEF NoStageSkipped
<1>8. PaymentNeverForgotten'
  BY <1>0, ServiceAssumption DEF PaymentNeverForgotten, PastCreated
<1>9. EventsTellCommittedChanges'
  BY <1>0 DEF EventsTellCommittedChanges, PublishersAreDone, Events
<1> QED
  BY <1>1, <1>2, <1>3, <1>4, <1>5, <1>6, <1>7, <1>8, <1>9

-----------------------------------------------------------------------------
(* Steps of the database: requests stay where they are. *)

\* Everything but a commit leaves the rows alone.
LEMMA NoCommitIInv ==
  ASSUME IInv, TypeOK', NEW r \in Requests, NEW p \in Phases \cup Answers,
         tx' = [tx EXCEPT ![r] = p], NEW H, hit' = [hit EXCEPT ![r] = H],
         UNCHANGED <<row, call, pc, pending, published>>,
         reached' = [o \in Orders |-> reached[o] \cup ({row'[o]} \ {NoRow})],
         InTx(r), H \subseteq call[r].ids,
         todo' \in [Requests -> SUBSET Orders],
         \A q \in Requests : todo'[q] \subseteq todo[q],
         p # "ok",
         p \in {"select", "insert", "commit"} => tx[r] # "update",
         p = "update" => tx[r] = "update",
         p \in {"select", "insert"} => H = {},
         p = "commit" => H = call[r].ids
  PROVE  IInv'
<1>0. reached' = reached
  BY DEF IInv, TypeOK, RepoTypeOK, HistoryHasRow
<1>10. pc[r] \in {"create", "saving", "batch"} /\ tx[r] # "ok"
  BY DEF IInv, TransactionsBelong, InTx
<1> USE <1>0, <1>10 DEF TypeOK, RepoTypeOK, IInv
<1>1. HistoryHasRow'
  BY DEF HistoryHasRow
<1>2. CallsJustified'
  BY DEF CallsJustified
<1>3. TransactionsBelong'
  BY DEF TransactionsBelong, InTx
<1>4. SavesWrote'
  BY DEF SavesWrote, PastCreated
<1>5. PublishersWrote'
  BY DEF PublishersWrote, PastCreated
<1>6. PublishersAreDone'
  BY DEF PublishersAreDone, Events
<1>7. NoStageSkipped'
  BY DEF NoStageSkipped
<1>8. PaymentNeverForgotten'
  BY DEF PaymentNeverForgotten, PastCreated
<1>9. EventsTellCommittedChanges'
  <2>1. \A e \in published : e.by \in Requests /\ e.by # r
    BY DEF PublishersAreDone, Events
  <2> QED
    BY <2>1 DEF EventsTellCommittedChanges
<1> QED
  BY <1>1, <1>2, <1>3, <1>4, <1>5, <1>6, <1>7, <1>8, <1>9

\* A commit writes, where it writes, a status that is legal after one that the
\* order has had.
LEMMA CommitIInv ==
  ASSUME IInv, TypeOK', NEW r \in Requests, NEW a \in Answers, Commit(r, a),
         UNCHANGED <<pc, pending, published>>,
         reached' = [o \in Orders |-> reached[o] \cup ({row'[o]} \ {NoRow})]
  PROVE  IInv'
<1>0. /\ tx' = [tx EXCEPT ![r] = a]
      /\ UNCHANGED <<attempt, call, todo, hit>>
      /\ hit[r] \subseteq call[r].ids
      /\ pc[r] \in {"create", "saving", "batch"}
      /\ call[r].to \in Statuses /\ call[r].to # NoRow
      /\ \A o \in Orders : o \in hit[r] => row'[o] = call[r].to
      /\ \A o \in Orders : o \notin hit[r] => row'[o] = row[o]
  BY RepositoryAssumption
     DEF Commit, IInv, TypeOK, RepoTypeOK, TransactionsBelong, InTx, Calls
<1>1. \A o \in hit[r] : call[r].to # "Created"
  BY <1>0, TransitionTargets DEF IInv, CallsJustified
<1>2. \A o \in hit[r] : \/ call[r].to = "WaitingForShipment"
                        \/ \E t \in reached[o] : CanTransitionTo(t, call[r].to)
  BY <1>0 DEF IInv, CallsJustified
<1>3. \A o \in Orders : PastCreated(o) => PastCreated(o)'
  BY <1>0, <1>1 DEF PastCreated
<1>4. \A o \in hit[r] : call[r].to \in reached'[o] /\ PastCreated(o)'
  BY <1>0, <1>1 DEF PastCreated, IInv, TypeOK, RepoTypeOK
<1>5. \A o \in Orders : /\ reached[o] \subseteq reached'[o]
                        /\ \A s \in reached'[o] : s \in reached[o] \/ (o \in hit[r] /\ s = call[r].to)
  <2> TAKE o \in Orders
  <2>1. reached'[o] = reached[o] \cup ({row'[o]} \ {NoRow})
    BY DEF IInv, TypeOK, RepoTypeOK
  <2>2. CASE o \in hit[r]
    BY <1>0, <2>1, <2>2
  <2>3. CASE o \notin hit[r]
    BY <1>0, <2>1, <2>3 DEF IInv, HistoryHasRow
  <2> QED
    BY <2>2, <2>3
<1> USE <1>0 DEF IInv, TypeOK, RepoTypeOK
<1>6. HistoryHasRow'
  BY DEF HistoryHasRow
<1>7. CallsJustified'
  BY <1>5 DEF CallsJustified, Calls
<1>8. TransactionsBelong'
  BY DEF TransactionsBelong, InTx
<1>9. SavesWrote'
  <2> SUFFICES ASSUME NEW q \in Requests, SavesWrote
               PROVE  /\ pc[q] \in {"create", "reget", "saving", "recheck"} =>
                           \E o \in Orders : call[q].ids = {o}
                      /\ pc[q] \in {"create", "saving"} =>
                           /\ tx'[q] \in {"select", "insert"} => hit[q] = {}
                           /\ tx'[q] \in {"commit", "ok"} => hit[q] = call[q].ids
                           /\ tx'[q] = "ok" => \A o \in call[q].ids :
                                call[q].to \in reached'[o] /\ PastCreated(o)'
    BY DEF SavesWrote
  <2>1. CASE q = r
    <3>1. pc[r] \in {"create", "saving"} => tx[r] = "commit"
      BY DEF Commit, TransactionsBelong
    <3> QED
      BY <2>1, <3>1, <1>4 DEF SavesWrote
  <2>2. CASE q # r
    <3>1. \A o \in call[q].ids : o \in Orders
      BY DEF Calls
    <3> QED
      BY <2>2, <3>1, <1>3, <1>5 DEF SavesWrote
  <2> QED
    BY <2>1, <2>2
<1>10. PublishersWrote'
  <2> SUFFICES ASSUME NEW q \in Requests \ Schedulers, pc[q] = "publish"
               PROVE  /\ tx'[q] = "ok" /\ hit[q] = call[q].ids /\ pending[q] \subseteq hit[q]
                      /\ \A o \in call[q].ids :
                           call[q].to \in reached'[o] /\ PastCreated(o)'
    BY DEF PublishersWrote
  <2>1. q # r
    OBVIOUS
  <2>2. \A o \in call[q].ids : o \in Orders
    BY DEF Calls
  <2> QED
    BY <2>1, <2>2, <1>3, <1>5 DEF PublishersWrote
<1>11. PublishersAreDone'
  BY DEF PublishersAreDone, Events
<1>12. NoStageSkipped'
  BY <1>2, <1>5 DEF NoStageSkipped
<1>13. PaymentNeverForgotten'
  <2>1. \A q \in Requests : \A o \in call[q].ids : o \in Orders
    BY DEF Calls
  <2> QED
    BY <2>1, <1>3, ServiceAssumption DEF PaymentNeverForgotten
<1>14. EventsTellCommittedChanges'
  <2> SUFFICES ASSUME NEW x \in published, x.by \notin Schedulers
               PROVE  /\ tx'[x.by] = "ok" /\ x.id \in hit[x.by]
                      /\ \E s, t \in reached'[x.id] :
                           CanTransitionTo(s, t) /\ x.from = ToInt(s) /\ x.to = ToInt(t)
    BY DEF EventsTellCommittedChanges
  <2>1. x.by # r
    BY DEF PublishersAreDone
  <2>2. x.id \in Orders /\ x.by \in Requests
    BY DEF Events
  <2>3. reached[x.id] \subseteq reached'[x.id]
    BY <2>2, <1>5
  <2>4. /\ tx[x.by] = "ok" /\ x.id \in hit[x.by]
        /\ \E s, t \in reached[x.id] :
             CanTransitionTo(s, t) /\ x.from = ToInt(s) /\ x.to = ToInt(t)
    BY DEF EventsTellCommittedChanges
  <2>5. tx'[x.by] = tx[x.by]
    BY <2>1, <2>2
  <2> HIDE <1>0 DEF IInv, TypeOK, RepoTypeOK
  <2> QED
    BY <2>3, <2>4, <2>5
<1> QED
  BY <1>6, <1>7, <1>8, <1>9, <1>10, <1>11, <1>12, <1>13, <1>14

\* Every step and every fault of the database keeps the invariant.
LEMMA DatabaseIInv ==
  ASSUME IInv, TypeOK', NEW r \in Requests,
         Database(RepoStep(r)) \/ Database(RepoFault(r))
  PROVE  IInv'
<1>0. /\ RepoStep(r) \/ RepoFault(r)
      /\ reached' = [o \in Orders |-> reached[o] \cup ({row'[o]} \ {NoRow})]
      /\ UNCHANGED <<pc, pending, published>>
  BY DEF Database
<1>1. /\ tx \in [Requests -> {"none"} \cup Phases \cup Answers]
      /\ hit \in [Requests -> SUBSET Orders]
      /\ hit[r] \in SUBSET Orders
      /\ todo \in [Requests -> SUBSET Orders]
      /\ todo' \in [Requests -> SUBSET Orders]
  BY DEF IInv, TypeOK, RepoTypeOK
<1>2. InTx(r) => /\ hit[r] \subseteq call[r].ids
                 /\ tx[r] \in {"select", "insert"} => hit[r] = {}
                 /\ tx[r] \in {"select", "insert"} => \E o \in Orders : call[r].ids = {o}
  BY DEF IInv, TransactionsBelong, SavesWrote, InTx
<1>3. CASE GetOrderByIDForUpdate(r) \/ CreateOrder(r)
  <2>1. PICK p \in {"insert", "commit", "error", "duplicate"}, H \in SUBSET call[r].ids :
           /\ tx' = [tx EXCEPT ![r] = p]
           /\ hit' = [hit EXCEPT ![r] = H]
           /\ p = "insert" => H = {}
           /\ p = "commit" => H = call[r].ids
           /\ tx[r] \in {"select", "insert"}
    <3>1. ASSUME UNCHANGED hit
          PROVE  hit' = [hit EXCEPT ![r] = hit[r]]
      BY <1>1, <3>1
    <3>2. ASSUME NEW o \in call[r].ids, Lock(r, o), tx[r] \in {"select", "insert"}
          PROVE  hit' = [hit EXCEPT ![r] = call[r].ids]
      <4>1. call[r].ids = {o} /\ hit[r] = {}
        BY <1>2, <3>2 DEF InTx
      <4> QED
        BY <1>1, <3>2, <4>1 DEF Lock
    <3>3. tx[r] \in {"select", "insert"} /\ hit[r] = {}
      BY <1>2, <1>3 DEF GetOrderByIDForUpdate, CreateOrder, InTx
    <3>4. CASE GetOrderByIDForUpdate(r)
      BY <3>1, <3>2, <3>3, <3>4 DEF GetOrderByIDForUpdate
    <3>5. CASE CreateOrder(r)
      BY <3>1, <3>2, <3>3, <3>5 DEF CreateOrder
    <3> QED
      BY <1>3, <3>4, <3>5
  <2>2. UNCHANGED <<row, call, todo>>
    BY <1>3 DEF GetOrderByIDForUpdate, CreateOrder
  <2> QED
    BY <1>0, <1>1, <2>1, <2>2, NoCommitIInv DEF InTx
<1>4. CASE UpdateRow(r)
  <2>1. PICK H \in SUBSET Orders : /\ hit' = [hit EXCEPT ![r] = H]
                                   /\ H \subseteq call[r].ids
    <3>1. PICK o \in todo[r] : (row[o] = call[r].from /\ Lock(r, o)) \/ UNCHANGED hit
      BY <1>4 DEF UpdateRow
    <3>2. o \in call[r].ids /\ o \in Orders
      BY <1>4, <3>1 DEF UpdateRow, IInv, TransactionsBelong, InTx, TypeOK, RepoTypeOK
    <3>3. CASE Lock(r, o)
      <4>1. hit' = [hit EXCEPT ![r] = hit[r] \cup {o}]
        BY <3>3 DEF Lock
      <4>2. hit[r] \cup {o} \subseteq call[r].ids
        BY <1>2, <1>4, <3>2 DEF UpdateRow, InTx
      <4> QED
        BY <1>1, <3>2, <4>1, <4>2
    <3>4. CASE UNCHANGED hit
      BY <1>1, <1>2, <1>4, <3>4 DEF UpdateRow, InTx
    <3> QED
      BY <3>1, <3>3, <3>4
  <2>3. \A q \in Requests : todo'[q] \subseteq todo[q]
    BY <1>1, <1>4 DEF UpdateRow
  <2>2. tx[r] = "update" /\ tx' = [tx EXCEPT ![r] = "update"] /\ UNCHANGED <<row, call>>
    BY <1>1, <1>4 DEF UpdateRow
  <2> QED
    BY <1>0, <1>1, <2>1, <2>2, <2>3, NoCommitIInv DEF InTx
<1>5. ASSUME NEW p \in {"select", "conflict", "error"}, Rollback(r, p), InTx(r),
             p = "select" => tx[r] # "update"
      PROVE  IInv'
  <2>1. \A q \in Requests : todo'[q] \subseteq todo[q]
    BY <1>1, <1>5 DEF Rollback
  <2> QED
    BY <1>0, <1>1, <1>5, <2>1, NoCommitIInv DEF Rollback
<1>6. CASE DeadlockDetected(r) \/ Fail(r)
  BY <1>5, <1>6 DEF DeadlockDetected, Fail, InTx
<1>7. CASE SerializationFailure(r)
  <2>1. tx[r] # "update"
    BY <1>7 DEF SerializationFailure, IInv, TransactionsBelong
  <2> QED
    BY <1>5, <1>7, <2>1 DEF SerializationFailure
<1>8. CASE Commit(r, "ok") \/ CommitUnacknowledged(r)
  BY <1>0, <1>8, CommitIInv DEF CommitUnacknowledged
<1> QED
  BY <1>0, <1>3, <1>4, <1>6, <1>7, <1>8 DEF RepoStep, RepoFault

-----------------------------------------------------------------------------
\* Accepting a request keeps the invariant.
LEMMA BeginIInv ==
  ASSUME IInv, TypeOK', NEW r \in Requests, Begin(r)
  PROVE  IInv'
<1>1. ASSUME NEW o \in Orders, HandlePaymentCompleted(r, o)
      PROVE  IInv'
  BY <1>1, CallSaveIInv, PaymentForExistingOrderIInv DEF HandlePaymentCompleted
<1>2. ASSUME NEW o \in Orders, NEW s, UpdateOrderStatus(r, o, s)
      PROVE  IInv'
  <2>1. ~ InTx(r) /\ pc[r] = "idle"
    BY <1>2 DEF UpdateOrderStatus, IInv, TransactionsBelong, InTx
  <2> QED
    BY <1>2, <2>1, FinishIInv, UpdateStatusIInv DEF UpdateOrderStatus
<1>3. ASSUME r \in Schedulers, SelectBatch(r)
      PROVE  IInv'
  BY <1>3, SelectBatchIInv
<1> QED
  BY <1>1, <1>2, <1>3
     DEF Begin, HandleShipmentStarted, HandlePackageArrivedAtPickupStore,
         HandlePackagePickedUp

\* A step of a request keeps the invariant.
LEMMA StepIInv ==
  ASSUME IInv, TypeOK', NEW r \in Requests, Step(r)
  PROVE  IInv'
<1>1. CASE PaymentCreated(r)
  <2>1. ~ InTx(r) /\ pc[r] = "create"
    BY <1>1 DEF PaymentCreated, InTx
  <2>2. tx[r] = "ok" => \A o \in call[r].ids : PastCreated(o)
    BY <2>1 DEF IInv, SavesWrote
  <2> QED
    BY <1>1, <2>1, <2>2, FinishIInv DEF PaymentCreated
<1>2. CASE PaymentRegets(r)
  <2>1. ~ InTx(r) /\ pc[r] = "reget"
    BY <1>2 DEF PaymentRegets, IInv, TransactionsBelong, InTx
  <2>2. call[r].ids \in SUBSET Orders
    BY DEF IInv, TypeOK, RepoTypeOK, Calls
  <2> QED
    BY <1>2, <2>1, <2>2, FinishIInv, PaymentForExistingOrderIInv DEF PaymentRegets
<1>3. CASE PaymentRechecks(r)
  <2>1. ~ InTx(r) /\ pc[r] = "recheck" /\ \E o \in Orders : call[r].ids = {o}
    BY <1>3 DEF PaymentRechecks, IInv, TransactionsBelong, SavesWrote, InTx
  <2>2. \A o \in Orders : row[o] = "WaitingForShipment" => PastCreated(o)
    BY RepositoryAssumption DEF PastCreated, Statuses
  <2>3. PICK o \in call[r].ids : \/ row[o] = "WaitingForShipment" /\ Finish(r, "ok")
                                \/ Finish(r, "failed")
    BY <1>3 DEF PaymentRechecks
  <2> QED
    BY <2>1, <2>2, <2>3, FinishIInv
<1>4. CASE Saved(r)
  BY <1>4, SavedIInv
<1>5. CASE BatchUpdateOrderStatus(r)
  BY <1>5, BatchUpdateOrderStatusIInv
<1>6. CASE BatchUpdated(r)
  BY <1>6, BatchUpdatedIInv
<1>7. CASE Publish(r)
  BY <1>7, PublishIInv
<1>8. CASE Database(RepoStep(r))
  BY <1>8, DatabaseIInv
<1> QED
  BY <1>1, <1>2, <1>3, <1>4, <1>5, <1>6, <1>7, <1>8 DEF Step

\* No step of the service leaves the invariant.
LEMMA NextIInv == IInv /\ [Next]_vars => IInv'
<1> SUFFICES ASSUME IInv, [Next]_vars PROVE IInv'
  OBVIOUS
<1>0. TypeOK'
  BY NextTypeOK DEF IInv
<1>1. ASSUME NEW r \in Requests, Begin(r) PROVE IInv'
  BY <1>0, <1>1, BeginIInv
<1>2. ASSUME NEW r \in Requests, Step(r) PROVE IInv'
  BY <1>0, <1>2, StepIInv
<1>3. ASSUME NEW r \in Requests, Database(RepoFault(r)) PROVE IInv'
  BY <1>0, <1>3, DatabaseIInv
<1>4. ASSUME NEW r \in Requests, QueryFails(r) PROVE IInv'
  <2>1. ~ InTx(r) /\ pc[r] \in {"idle", "reget", "recheck"}
    BY <1>4 DEF QueryFails, IInv, TransactionsBelong, InTx
  <2> QED
    BY <1>0, <1>4, <2>1, FinishIInv DEF QueryFails
<1>5. CASE Crash
  BY <1>0, <1>5, CrashIInv
<1>6. CASE UNCHANGED vars
  BY <1>6 DEF vars, repoVars, serviceVars, IInv, TypeOK, RepoTypeOK,
     HistoryHasRow, CallsJustified, TransactionsBelong, SavesWrote,
     PublishersWrote, PublishersAreDone, NoStageSkipped, PaymentNeverForgotten,
     EventsTellCommittedChanges, PastCreated, InTx
<1> QED
  BY <1>1, <1>2, <1>3, <1>4, <1>5, <1>6 DEF Next

\* The inductive invariant holds in every state of the service.
THEOREM Invariance == Spec => []IInv
<1>1. Spec => Init /\ [][Next]_vars
  BY DEF Spec
<1> QED
  BY <1>1, InitIInv, NextIInv, PTL

\* However many requests overwrite each other's statuses, no order is found in
\* a stage whose predecessor it has not been in.
THEOREM StagesInOrder == Spec => []NoStageSkipped
<1>1. IInv => NoStageSkipped
  BY DEF IInv
<1> QED
  BY <1>1, Invariance, PTL

\* Whatever is read, lost, retried or recovered from: a payment handled without
\* an error leaves its order past Created for good.
THEOREM PaymentsAreKept == Spec => []PaymentNeverForgotten
<1>1. IInv => PaymentNeverForgotten
  BY DEF IInv
<1> QED
  BY <1>1, Invariance, PTL

\* An event of a payment or a status change is backed by a committed, legal
\* change of its request.
THEOREM EventsAreTrue == Spec => []EventsTellCommittedChanges
<1>1. IInv => EventsTellCommittedChanges
  BY DEF IInv
<1> QED
  BY <1>1, Invariance, PTL
-----------------------------------------------------------------------------
(* The repository's invariant, with the service as its caller. *)

\* What the handlers do by themselves is nothing to the repository.
LEMMA QuietRepoIInv == RepoIInv /\ UNCHANGED repoVars => RepoIInv'
BY DEF repoVars, RepoIInv, RepoTypeOK, LocksMatchTransactions,
       BatchRowsUnchanged, TxMatchesCall, InTx

\* A handler may fill in the arguments of a call before it makes it.
LEMMA ArgumentsRepoIInv ==
  ASSUME RepoIInv, NEW r \in Requests, ~ InTx(r), NEW c \in Calls,
         call' = [call EXCEPT ![r] = c],
         UNCHANGED <<row, lock, tx, attempt, todo, hit>>
  PROVE  RepoIInv'
<1> USE DEF RepoIInv
<1>1. RepoTypeOK'
  BY DEF RepoTypeOK
<1>2. LocksMatchTransactions'
  BY DEF LocksMatchTransactions, InTx
<1>3. BatchRowsUnchanged'
  BY DEF BatchRowsUnchanged, InTx, RepoTypeOK
<1>4. TxMatchesCall'
  BY DEF TxMatchesCall, InTx, RepoTypeOK
<1> QED
  BY <1>1, <1>2, <1>3, <1>4

\* Every Save of the service is about one order.
LEMMA CallSaveRepoIInv ==
  ASSUME RepoIInv, NEW r \in Requests, NEW o \in Orders,
         NEW s \in Statuses \cup {NoRow}, NEW t \in Statuses,
         NEW p, CallSave(r, o, s, t, p)
  PROVE  RepoIInv'
<1>1. /\ SaveRequest(o, s, t) \in Calls
      /\ SaveRequest(o, s, t).op = "save" /\ SaveRequest(o, s, t).ids = {o}
  BY SaveRequestType DEF SaveRequest
<1> QED
  BY <1>1, SaveKeepsIInv DEF CallSave

\* The transition check calls Save or does not call the repository at all.
LEMMA UpdateStatusRepoIInv ==
  ASSUME RepoIInv, NEW r \in Requests, NEW o \in Orders, NEW t,
         row[o] # NoRow, UpdateStatus(r, o, t)
  PROVE  RepoIInv'
<1>1. row[o] \in Statuses
  BY DEF RepoIInv, RepoTypeOK
<1>2. CASE CanTransitionTo(row[o], t) /\ CallSave(r, o, row[o], t, "saving")
  BY <1>1, <1>2, TransitionTargets, CallSaveRepoIInv
<1>3. CASE Finish(r, "failed")
  BY <1>3, QuietRepoIInv DEF Finish
<1> QED
  BY <1>2, <1>3 DEF UpdateStatus

\* The payment handler does so too, or answers at once.
LEMMA PaymentForExistingOrderRepoIInv ==
  ASSUME RepoIInv, NEW r \in Requests, ~ InTx(r), NEW o \in Orders,
         row[o] # NoRow, PaymentForExistingOrder(r, o)
  PROVE  RepoIInv'
<1>1. CASE UpdateStatus(r, o, "WaitingForShipment")
  BY <1>1, UpdateStatusRepoIInv
<1>2. CASE /\ call' = [call EXCEPT ![r] = SaveRequest(o, row[o], "WaitingForShipment")]
           /\ UNCHANGED <<row, lock, tx, attempt, todo, hit>>
  <2>1. SaveRequest(o, row[o], "WaitingForShipment") \in Calls
    BY SaveRequestType DEF RepoIInv, RepoTypeOK, Statuses
  <2> QED
    BY <1>2, <2>1, ArgumentsRepoIInv
<1> QED
  BY <1>1, <1>2 DEF PaymentForExistingOrder

\* Accepting a request keeps the repository's invariant.
LEMMA BeginRepoIInv ==
  ASSUME IInv, RepoIInv, NEW r \in Requests, Begin(r)
  PROVE  RepoIInv'
<1>0. pc[r] = "idle" => ~ InTx(r)
  BY DEF IInv, TransactionsBelong, InTx
<1>1. ASSUME NEW o \in Orders, HandlePaymentCompleted(r, o)
      PROVE  RepoIInv'
  BY <1>0, <1>1, CallSaveRepoIInv, PaymentForExistingOrderRepoIInv
     DEF HandlePaymentCompleted, Statuses
<1>2. ASSUME NEW o \in Orders, NEW s, UpdateOrderStatus(r, o, s)
      PROVE  RepoIInv'
  BY <1>2, QuietRepoIInv, UpdateStatusRepoIInv DEF UpdateOrderStatus, Finish
<1>3. ASSUME SelectBatch(r)
      PROVE  RepoIInv'
  <2>1. PICK t \in schedulerTransitions :
          \E S \in SUBSET {o \in Orders : row[o] = t[1]} :
            call' = [call EXCEPT ![r] =
                       [op |-> "batch", ids |-> S, from |-> t[1], to |-> t[2]]]
    BY <1>3 DEF SelectBatch
  <2>2. PICK S \in SUBSET {o \in Orders : row[o] = t[1]} :
          call' = [call EXCEPT ![r] =
                     [op |-> "batch", ids |-> S, from |-> t[1], to |-> t[2]]]
    BY <2>1
  <2>3. [op |-> "batch", ids |-> S, from |-> t[1], to |-> t[2]] \in Calls
    BY TransitionsOfScheduler DEF Calls
  <2> QED
    BY <1>0, <1>3, <2>2, <2>3, ArgumentsRepoIInv DEF SelectBatch
<1> QED
  BY <1>1, <1>2, <1>3
     DEF Begin, HandleShipmentStarted, HandlePackageArrivedAtPickupStore,
         HandlePackagePickedUp

\* So does every step of a request.
LEMMA StepRepoIInv ==
  ASSUME IInv, RepoIInv, NEW r \in Requests, Step(r)
  PROVE  RepoIInv'
<1>1. CASE PaymentCreated(r) \/ PaymentRechecks(r) \/ Saved(r) \/ BatchUpdated(r)
           \/ Publish(r)
  BY <1>1, QuietRepoIInv
     DEF PaymentCreated, PaymentRechecks, Saved, BatchUpdated, Publish, Finish
<1>2. CASE PaymentRegets(r)
  <2>1. ~ InTx(r) /\ call[r].ids \subseteq Orders
    BY <1>2 DEF PaymentRegets, IInv, TransactionsBelong, InTx, TypeOK,
                RepoTypeOK, Calls
  <2> QED
    BY <1>2, <2>1, QuietRepoIInv, PaymentForExistingOrderRepoIInv
       DEF PaymentRegets, Finish
<1>3. CASE BatchUpdateOrderStatus(r)
  <2>1. call[r] \in Calls /\ call[r].op = "batch"
    BY <1>3 DEF BatchUpdateOrderStatus, IInv, TransactionsBelong, TypeOK, RepoTypeOK
  <2> QED
    BY <1>3, <2>1, BatchUpdateKeepsIInv DEF BatchUpdateOrderStatus
<1>4. CASE Database(RepoStep(r))
  BY <1>4, RepoStepKeepsIInv DEF Database
<1> QED
  BY <1>1, <1>2, <1>3, <1>4 DEF Step

\* No step of the service breaks the repository's invariant.
LEMMA NextRepoIInv == IInv /\ RepoIInv /\ [Next]_vars => RepoIInv'
<1> SUFFICES ASSUME IInv, RepoIInv, [Next]_vars PROVE RepoIInv'
  OBVIOUS
<1>1. ASSUME NEW r \in Requests, Begin(r) PROVE RepoIInv'
  BY <1>1, BeginRepoIInv
<1>2. ASSUME NEW r \in Requests, Step(r) PROVE RepoIInv'
  BY <1>2, StepRepoIInv
<1>3. ASSUME NEW r \in Requests, Database(RepoFault(r)) PROVE RepoIInv'
  BY <1>3, RepoStepKeepsIInv DEF Database
<1>4. ASSUME NEW r \in Requests, QueryFails(r) PROVE RepoIInv'
  BY <1>4, QuietRepoIInv DEF QueryFails, Finish
<1>5. CASE Crash
  BY <1>5, AbortAllKeepsIInv DEF Crash
<1>6. CASE UNCHANGED vars
  BY <1>6, QuietRepoIInv DEF vars
<1> QED
  BY <1>1, <1>2, <1>3, <1>4, <1>5, <1>6 DEF Next

\* The service's requests leave no lock behind, and no batch writes a row that
\* has changed since it was compared.
THEOREM RepositoryInvariance == Spec => []RepoIInv
<1>1. Init => RepoIInv
  BY RepoInitIInv, ServiceAssumption DEF Init
<1>2. Spec => Init /\ [][Next]_vars
  BY DEF Spec
<1> QED
  BY <1>1, <1>2, NextRepoIInv, Invariance, PTL
-----------------------------------------------------------------------------
(* Batches and one payment: the orders follow the state machine. *)

\* The two invariants at the start.
LEMMA InitFresh == Init => SaveIsFresh /\ BatchIsScheduled
BY DEF Init, SaveIsFresh, BatchIsScheduled

\* A call of Save that the payment makes for the status it has just read.
LEMMA CallSaveFresh ==
  ASSUME IInv, SaveIsFresh, BatchIsScheduled, NEW r \in Payers, NEW o \in Orders,
         row[o] \in {NoRow, "Created"}, NEW p \in {"create", "saving"},
         CallSave(r, o, row[o], "WaitingForShipment", p)
  PROVE  SaveIsFresh' /\ BatchIsScheduled'
<1> DEFINE c == SaveRequest(o, row[o], "WaitingForShipment")
<1>1. /\ c.ids = {o} /\ c.from = row[o] /\ c.to = "WaitingForShipment"
      /\ call' = [call EXCEPT ![r] = c]
      /\ pc' = [pc EXCEPT ![r] = p]
      /\ \A q \in Requests \ {r} : tx'[q] = tx[q]
      /\ row' = row
  BY DEF CallSave, Save, Goto, SaveRequest, IInv, TypeOK, RepoTypeOK
<1> HIDE DEF c
<1>2. SaveIsFresh'
  BY <1>1, ServiceAssumption DEF SaveIsFresh, InTx, IInv, TypeOK, RepoTypeOK
<1>3. BatchIsScheduled'
  BY <1>1 DEF BatchIsScheduled, IInv, TypeOK, RepoTypeOK
<1> QED
  BY <1>2, <1>3

\* A request that is outside of a transaction and stays there, and that is not
\* about to start a batch.
LEMMA MoveFresh ==
  ASSUME IInv, SaveIsFresh, BatchIsScheduled, NEW r \in Requests, ~ InTx(r),
         NEW p, pc' = [pc EXCEPT ![r] = p], p \notin {"selected", "batch"},
         p \in {"create", "reget", "saving", "recheck"} => r \in Payers,
         \A q \in Requests \ {r} : call'[q] = call[q], UNCHANGED <<row, tx>>
  PROVE  SaveIsFresh' /\ BatchIsScheduled'
<1>1. SaveIsFresh'
  BY DEF SaveIsFresh, InTx, IInv, TypeOK
<1>2. BatchIsScheduled'
  BY DEF BatchIsScheduled, IInv, TypeOK
<1> QED
  BY <1>1, <1>2

\* What the payment does once it has found its order.
LEMMA PaymentForExistingOrderFresh ==
  ASSUME IInv, SaveIsFresh, BatchIsScheduled, NEW r \in Payers, ~ InTx(r),
         NEW o \in Orders, row[o] # NoRow, PaymentForExistingOrder(r, o)
  PROVE  SaveIsFresh' /\ BatchIsScheduled'
<1>1. r \in Requests
  BY ServiceAssumption
<1>2. CASE row[o] = "Created"
  <2>1. CASE CallSave(r, o, row[o], "WaitingForShipment", "saving")
    BY <1>2, <2>1, CallSaveFresh
  <2>2. CASE Finish(r, "failed")
    BY <1>1, <2>2, MoveFresh DEF Finish, Goto, repoVars
  <2> QED
    BY <1>2, <2>1, <2>2 DEF PaymentForExistingOrder, UpdateStatus
<1>3. CASE row[o] # "Created"
  <2>1. \A q \in Requests \ {r} : call'[q] = call[q]
    BY <1>3 DEF PaymentForExistingOrder, IInv, TypeOK, RepoTypeOK
  <2> QED
    BY <1>1, <1>3, <2>1, MoveFresh DEF PaymentForExistingOrder, Goto
<1> QED
  BY <1>2, <1>3

\* Accepting a request, when there are no operators.
LEMMA BeginFresh ==
  ASSUME Operators = {}, IInv, SaveIsFresh, BatchIsScheduled,
         NEW r \in Requests, Begin(r)
  PROVE  SaveIsFresh' /\ BatchIsScheduled'
<1>0. pc[r] = "idle" => ~ InTx(r)
  BY DEF IInv, TransactionsBelong, InTx
<1>1. ASSUME r \in Payers, NEW o \in Orders, HandlePaymentCompleted(r, o)
      PROVE  SaveIsFresh' /\ BatchIsScheduled'
  <2>1. CASE row[o] = NoRow /\ CallSave(r, o, row[o], "WaitingForShipment", "create")
    BY <1>1, <2>1, CallSaveFresh
  <2>2. CASE row[o] # NoRow /\ PaymentForExistingOrder(r, o)
    BY <1>0, <1>1, <2>2, PaymentForExistingOrderFresh DEF HandlePaymentCompleted
  <2> QED
    BY <1>1, <2>1, <2>2 DEF HandlePaymentCompleted
<1>2. ASSUME SelectBatch(r)
      PROVE  SaveIsFresh' /\ BatchIsScheduled'
  <2>1. PICK t \in schedulerTransitions :
          \E S \in SUBSET {o \in Orders : row[o] = t[1]} :
            call' = [call EXCEPT ![r] =
                       [op |-> "batch", ids |-> S, from |-> t[1], to |-> t[2]]]
    BY <1>2 DEF SelectBatch
  <2>2. <<t[1], t[2]>> \in schedulerTransitions
    BY <2>1 DEF schedulerTransitions
  <2>3. /\ call'[r].from = t[1] /\ call'[r].to = t[2]
        /\ \A q \in Requests \ {r} : call'[q] = call[q]
    BY <2>1 DEF IInv, TypeOK, RepoTypeOK
  <2>4. pc' = [pc EXCEPT ![r] = "selected"] /\ UNCHANGED <<row, tx>>
    BY <1>2 DEF SelectBatch, Goto
  <2>5. SaveIsFresh'
    BY <2>3, <2>4 DEF SaveIsFresh, InTx, IInv, TypeOK
  <2>6. BatchIsScheduled'
    BY <2>2, <2>3, <2>4 DEF BatchIsScheduled, IInv, TypeOK
  <2> QED
    BY <2>5, <2>6
<1> QED
  BY <1>1, <1>2 DEF Begin

\* A batch locks no order that is about to be paid for: it is for another
\* status.
LEMMA PaymentKeepsItsOrder ==
  ASSUME \A p, q \in Payers : p = q,
         IInv, RepoIInv, SaveIsFresh, BatchIsScheduled,
         NEW q \in Requests, NEW r \in Requests, r # q,
         pc[r] \in {"create", "saving"}, InTx(r), NEW o \in call[r].ids, InTx(q)
  PROVE  o \notin hit[q]
<1>1. r \in Payers /\ row[o] \in {NoRow, "Created"}
  BY DEF SaveIsFresh
<1>2. tx[q] = "update" /\ pc[q] = "batch"
  BY <1>1 DEF SaveIsFresh, IInv, TransactionsBelong, InTx
<1>3. call[q].from \in {"WaitingForShipment", "InTransit", "WaitPickup"}
  BY <1>2 DEF BatchIsScheduled, schedulerTransitions
<1>4. call[q].from \notin {NoRow, "Created"}
  BY <1>3, RepositoryAssumption DEF Statuses
<1> QED
  BY <1>1, <1>2, <1>4 DEF RepoIInv, BatchRowsUnchanged

\* A step or a fault of the repository.
LEMMA DatabaseFresh ==
  ASSUME \A p, q \in Payers : p = q,
         IInv, RepoIInv, SaveIsFresh, BatchIsScheduled, NEW r \in Requests,
         Database(RepoStep(r)) \/ Database(RepoFault(r))
  PROVE  SaveIsFresh' /\ BatchIsScheduled'
<1>1. RepoStep(r) \/ RepoFault(r)
  BY DEF Database
<1>2. UNCHANGED <<pc, call>> /\ (InTx(r)' => InTx(r))
      /\ \A q \in Requests \ {r} : InTx(q)' = InTx(q)
  <2>1. UNCHANGED pc
    BY DEF Database
  <2>2. UNCHANGED call
    BY <1>1 DEF RepoStep, RepoFault, GetOrderByIDForUpdate, CreateOrder, UpdateRow,
                DeadlockDetected, Rollback, Commit, SerializationFailure, Fail,
                CommitUnacknowledged
  <2>3. InTx(r)
    BY <1>1 DEF RepoStep, RepoFault, GetOrderByIDForUpdate, CreateOrder, UpdateRow,
                DeadlockDetected, Commit, SerializationFailure, Fail,
                CommitUnacknowledged, InTx
  <2>4. \A q \in Requests \ {r} : tx'[q] = tx[q]
    BY <1>1 DEF RepoStep, RepoFault, GetOrderByIDForUpdate, CreateOrder, UpdateRow,
                DeadlockDetected, Rollback, Commit, SerializationFailure, Fail,
                CommitUnacknowledged, IInv, TypeOK, RepoTypeOK
  <2> QED
    BY <2>1, <2>2, <2>3, <2>4 DEF InTx
<1>3. BatchIsScheduled'
  BY <1>2 DEF BatchIsScheduled
<1>4. CASE UNCHANGED row
  BY <1>2, <1>3, <1>4 DEF SaveIsFresh
<1>5. ASSUME NEW a \in Answers, Commit(r, a)
      PROVE  SaveIsFresh'
  <2> SUFFICES ASSUME NEW q \in Requests,
                      pc[q] \in {"create", "reget", "saving", "recheck"}, InTx(q)'
               PROVE  \A o \in call[q].ids : row'[o] = call[q].from
    BY <1>2 DEF SaveIsFresh
  <2>1. q # r /\ InTx(q)
    BY <1>2, <1>5 DEF Commit, InTx, IInv, TypeOK, RepoTypeOK
  <2>2. pc[q] \in {"create", "saving"}
    BY <2>1 DEF IInv, TransactionsBelong, InTx
  <2>3. InTx(r)
    BY <1>5 DEF Commit, InTx
  <2>4. \A o \in call[q].ids : o \in Orders /\ o \notin hit[r]
    BY <2>1, <2>2, <2>3, PaymentKeepsItsOrder DEF IInv, TypeOK, RepoTypeOK, Calls
  <2> QED
    BY <1>5, <2>1, <2>4 DEF Commit, SaveIsFresh
<1> QED
  BY <1>1, <1>3, <1>4, <1>5
     DEF RepoStep, RepoFault, GetOrderByIDForUpdate, CreateOrder, UpdateRow,
         DeadlockDetected, Rollback, SerializationFailure, Fail,
         CommitUnacknowledged

\* A step of a request.
LEMMA StepFresh ==
  ASSUME \A p, q \in Payers : p = q,
         IInv, RepoIInv, SaveIsFresh, BatchIsScheduled, NEW r \in Requests, Step(r)
  PROVE  SaveIsFresh' /\ BatchIsScheduled'
<1>1. CASE PaymentRegets(r)
  <2>1. ~ InTx(r) /\ call[r].ids \subseteq Orders /\ r \in Payers
    BY <1>1 DEF PaymentRegets, IInv, TransactionsBelong, InTx, TypeOK,
                RepoTypeOK, Calls, SaveIsFresh
  <2>2. CASE Finish(r, "failed")
    BY <2>1, <2>2, MoveFresh DEF Finish, Goto, repoVars
  <2> QED
    BY <1>1, <2>1, <2>2, PaymentForExistingOrderFresh DEF PaymentRegets
<1>2. CASE BatchUpdateOrderStatus(r)
  <2>1. /\ pc' = [pc EXCEPT ![r] = "batch"] /\ row' = row
        /\ pc[r] = "selected" /\ call' = [call EXCEPT ![r] = call[r]]
        /\ \A q \in Requests \ {r} : tx'[q] = tx[q]
    BY <1>2 DEF BatchUpdateOrderStatus, BatchUpdate, Goto, IInv, TypeOK, RepoTypeOK
  <2>2. call' = call
    BY <2>1 DEF IInv, TypeOK, RepoTypeOK
  <2>3. SaveIsFresh'
    BY <2>1, <2>2 DEF SaveIsFresh, InTx, IInv, TypeOK
  <2>4. BatchIsScheduled'
    BY <2>1, <2>2 DEF BatchIsScheduled, IInv, TypeOK
  <2> QED
    BY <2>3, <2>4
<1>3. CASE PaymentCreated(r) \/ PaymentRechecks(r) \/ Saved(r) \/ BatchUpdated(r)
           \/ Publish(r)
  <2>1. ~ InTx(r) /\ pc[r] \in Running
    BY <1>3 DEF PaymentCreated, PaymentRechecks, Saved, BatchUpdated, Publish,
                IInv, TransactionsBelong, InTx
  <2>2. PICK p \in {"ok", "reget", "failed", "recheck", "publish"} :
          /\ pc' = [pc EXCEPT ![r] = p]
          /\ p \in {"reget", "recheck"} => r \in Payers
          /\ UNCHANGED repoVars
    <3>1. CASE PaymentCreated(r) \/ PaymentRechecks(r)
      BY <3>1 DEF PaymentCreated, PaymentRechecks, Finish, Goto, SaveIsFresh
    <3>2. CASE Saved(r) \/ BatchUpdated(r)
      BY <3>2 DEF Saved, BatchUpdated, Finish, Goto
    <3>3. CASE Publish(r)
      BY <3>3 DEF Publish, Goto
    <3> QED
      BY <1>3, <3>1, <3>2, <3>3
  <2> QED
    BY <2>1, <2>2, MoveFresh DEF repoVars
<1>4. CASE Database(RepoStep(r))
  BY <1>4, DatabaseFresh
<1> QED
  BY <1>1, <1>2, <1>3, <1>4 DEF Step

\* No step of the service breaks the two invariants.
LEMMA NextFresh ==
  ASSUME Operators = {}, \A p, q \in Payers : p = q
  PROVE  /\ IInv /\ RepoIInv /\ SaveIsFresh /\ BatchIsScheduled
         /\ [Next]_vars
         => SaveIsFresh' /\ BatchIsScheduled'
<1> SUFFICES ASSUME IInv, RepoIInv, SaveIsFresh, BatchIsScheduled, [Next]_vars
             PROVE  SaveIsFresh' /\ BatchIsScheduled'
  OBVIOUS
<1>1. CASE \E r \in Requests : Begin(r)
  BY <1>1, BeginFresh
<1>2. CASE \E r \in Requests : Step(r)
  BY <1>2, StepFresh
<1>3. CASE \E r \in Requests : Database(RepoFault(r))
  BY <1>3, DatabaseFresh
<1>4. CASE \E r \in Requests : QueryFails(r)
  <2>1. PICK r \in Requests : QueryFails(r)
    BY <1>4
  <2>2. ~ InTx(r) /\ UNCHANGED repoVars /\ pc' = [pc EXCEPT ![r] = "failed"]
    BY <2>1 DEF QueryFails, Finish, Goto, IInv, TransactionsBelong, InTx
  <2> QED
    BY <2>2, MoveFresh DEF repoVars
<1>5. CASE Crash
  BY <1>5 DEF Crash, AbortAll, SaveIsFresh, BatchIsScheduled, InTx, IInv, TypeOK
<1>6. CASE UNCHANGED vars
  BY <1>6 DEF vars, repoVars, serviceVars, SaveIsFresh, BatchIsScheduled, InTx
<1> QED
  BY <1>1, <1>2, <1>3, <1>4, <1>5, <1>6 DEF Next

\* A commit moves all of its orders along the state machine.
LEMMA CommitIsLegal ==
  ASSUME IInv, RepoIInv, SaveIsFresh, BatchIsScheduled,
         NEW r \in Requests, NEW a, Commit(r, a)
  PROVE  Lifecycle!Next
<1>1. \A o \in hit[r] : row[o] = call[r].from /\ o \in Orders
  <2>1. CASE tx[r] = "commit"
    <3>1. pc[r] \in {"create", "saving"} /\ InTx(r) /\ hit[r] \subseteq call[r].ids
      BY <2>1 DEF IInv, TransactionsBelong, InTx
    <3> QED
      BY <3>1 DEF SaveIsFresh, IInv, TypeOK, RepoTypeOK
  <2>2. CASE tx[r] = "update"
    BY <2>2 DEF RepoIInv, BatchRowsUnchanged, RepoTypeOK
  <2> QED
    BY <2>1, <2>2 DEF Commit
<1>2. Lifecycle!LegalMove(call[r].from, call[r].to)
  <2>1. CASE tx[r] = "commit"
    <3>1. call[r].to = "WaitingForShipment" /\ call[r].from \in {NoRow, "Created"}
      BY <2>1 DEF IInv, TransactionsBelong, InTx, SaveIsFresh
    <3>2. Lifecycle!CanTransitionTo("Created", "WaitingForShipment")
      BY DEF Lifecycle!CanTransitionTo, Lifecycle!allowedTransitions
    <3> QED
      BY <3>1, <3>2 DEF Lifecycle!LegalMove, Lifecycle!Statuses
  <2>2. CASE tx[r] = "update"
    <3>1. <<call[r].from, call[r].to>> \in schedulerTransitions
      BY <2>2 DEF IInv, TransactionsBelong, BatchIsScheduled
    <3>2. CASE call[r].from = "WaitingForShipment" /\ call[r].to = "InTransit"
      BY <3>2 DEF Lifecycle!LegalMove, Lifecycle!Statuses,
                  Lifecycle!CanTransitionTo, Lifecycle!allowedTransitions
    <3>3. CASE call[r].from = "InTransit" /\ call[r].to = "WaitPickup"
      BY <3>3 DEF Lifecycle!LegalMove, Lifecycle!Statuses,
                  Lifecycle!CanTransitionTo, Lifecycle!allowedTransitions
    <3>4. CASE call[r].from = "WaitPickup" /\ call[r].to = "Completed"
      BY <3>4 DEF Lifecycle!LegalMove, Lifecycle!Statuses,
                  Lifecycle!CanTransitionTo, Lifecycle!allowedTransitions
    <3> QED
      BY <3>1, <3>2, <3>3, <3>4 DEF schedulerTransitions
  <2> QED
    BY <2>1, <2>2 DEF Commit
<1>3. call[r].to \in Lifecycle!Statuses
  BY DEF IInv, TypeOK, RepoTypeOK, Calls, Statuses, Lifecycle!Statuses
<1>4. hit[r] \in SUBSET Orders
  BY <1>1
<1> QED
  BY <1>1, <1>2, <1>3, <1>4 DEF Lifecycle!Next, Commit

\* Every step of the service moves orders along the state machine, or none.
LEMMA NextIsLegal ==
  IInv /\ RepoIInv /\ SaveIsFresh /\ BatchIsScheduled /\ [Next]_vars
  => [Lifecycle!Next]_row
<1> SUFFICES ASSUME IInv, RepoIInv, SaveIsFresh, BatchIsScheduled, [Next]_vars
             PROVE  Lifecycle!Next \/ UNCHANGED row
  OBVIOUS
<1>1. ASSUME NEW r \in Requests, RepoStep(r) \/ RepoFault(r)
      PROVE  Lifecycle!Next \/ UNCHANGED row
  BY <1>1, CommitIsLegal
     DEF RepoStep, RepoFault, GetOrderByIDForUpdate, CreateOrder, UpdateRow,
         DeadlockDetected, Rollback, SerializationFailure, Fail,
         CommitUnacknowledged
<1>2. ASSUME NEW r \in Requests, Begin(r)
      PROVE  UNCHANGED row
  BY <1>2 DEF Begin, HandlePaymentCompleted, HandleShipmentStarted,
     HandlePackageArrivedAtPickupStore, HandlePackagePickedUp, UpdateOrderStatus,
     PaymentForExistingOrder, UpdateStatus, CallSave, Save, SelectBatch, Finish,
     repoVars
<1>3. ASSUME NEW r \in Requests, Step(r), ~ Database(RepoStep(r))
      PROVE  UNCHANGED row
  BY <1>3 DEF Step, PaymentCreated, PaymentRegets, PaymentRechecks, Saved,
     BatchUpdateOrderStatus, BatchUpdate, BatchUpdated, Publish,
     PaymentForExistingOrder, UpdateStatus, CallSave, Save, Finish, repoVars
<1> QED
  BY <1>1, <1>2, <1>3
     DEF Next, Step, Database, QueryFails, Finish, Crash, AbortAll, vars, repoVars

\* With batches and one payment only, every change of the table is one that the
\* state machine allows, for every number of batches and orders, whatever is
\* rolled back, retried, committed without an answer or cut off by a crash.
THEOREM OrdersFollowLifecycle ==
  ASSUME Operators = {}, \A p, q \in Payers : p = q
  PROVE  Spec => FollowsLifecycle
<1>1. Spec => Init /\ [][Next]_vars
  BY DEF Spec
<1>2. Init => Lifecycle!Init
  BY InitTypeOK DEF Lifecycle!Init, Lifecycle!Statuses, Statuses, TypeOK, RepoTypeOK
<1>3. /\ IInv /\ RepoIInv /\ SaveIsFresh /\ BatchIsScheduled
      /\ [Next]_vars
      => SaveIsFresh' /\ BatchIsScheduled'
  BY NextFresh
<1> QED
  BY <1>1, <1>2, <1>3, InitFresh, NextIsLegal, Invariance, RepositoryInvariance, PTL
     DEF FollowsLifecycle, Lifecycle!Spec
=============================================================================
