------------------------- MODULE OrderStateService -------------------------
(***************************************************************************)
(* The order state service working on the PostgreSQL repository.  Every    *)
(* request (a delivered payment message, an HTTP status change, a batch of *)
(* the scheduler) is a goroutine of its own, and so is a message that the  *)
(* consumer has given up on or received twice: nothing orders them.        *)
(*                                                                         *)
(* A request makes one call to the service.  Its local variables are       *)
(* call[r]: the order ids, fromStatus (from) and the new status (to).      *)
(***************************************************************************)
EXTENDS PgOrderRepository

CONSTANTS Payers,      \* requests that carry PaymentCompleted events
          Operators,   \* requests that change one order's status
          Schedulers,  \* requests that are batches of the scheduler
          Seeded       \* contents a row may have at the start

ASSUME ServiceAssumption ==
  /\ Payers \cup Operators \cup Schedulers = Requests
  /\ Payers \cap Operators = {}
  /\ Schedulers \cap (Payers \cup Operators) = {}
  /\ Seeded \subseteq Statuses \cup {NoRow}

VARIABLES pc,         \* [Requests -> where in its handler a request is]
          pending,    \* [Requests -> ids whose event is still to be published]
          published,  \* the events sent to order_state_changed_queue
          reached     \* history: [Orders -> every status the order has had]

serviceVars == <<pc, pending, published, reached>>
vars == <<repoVars, serviceVars>>

\* "create", "saving" and "batch" wait for the repository's answer; "create"
\* is the Save of an order that the payment handler did not find.
Running  == {"create", "reget", "saving", "recheck", "selected", "batch",
             "publish"}
Finished == {"ok", "failed", "crashed"}

Events == [by : Requests, id : Orders, from : Int, to : Int]

TypeOK == /\ RepoTypeOK
          /\ pc \in [Requests -> {"idle"} \cup Running \cup Finished]
          /\ pending \in [Requests -> SUBSET Orders]
          /\ published \subseteq Events
          /\ reached \in [Orders -> SUBSET Statuses]

Init == /\ RepoInit(Seeded)
        /\ pc = [r \in Requests |-> "idle"]
        /\ pending = [r \in Requests |-> {}]
        /\ published = {}
        /\ reached = [o \in Orders |-> {row[o]} \ {NoRow}]

Goto(r, p) == pc' = [pc EXCEPT ![r] = p]

\* r's handler returns; the repository is not involved.
Finish(r, p) == /\ Goto(r, p)
                /\ UNCHANGED <<repoVars, pending, published, reached>>

SaveRequest(o, from, to) == [op |-> "save", ids |-> {o}, from |-> from, to |-> to]

\* The handler hands the order, its new status set, to Save.
CallSave(r, o, from, to, p) ==
  /\ Save(r, SaveRequest(o, from, to))
  /\ Goto(r, p)
  /\ UNCHANGED <<pending, published, reached>>

\* Mutant: no transition check.
UpdateStatusUnchecked(r, o, to) == CallSave(r, o, row[o], to, "saving")

\* The transition check is made on what GetByID returned.
UpdateStatus(r, o, to) ==
  \/ /\ CanTransitionTo(row[o], to)
     /\ CallSave(r, o, row[o], to, "saving")
  \/ /\ ~ CanTransitionTo(row[o], to)
     /\ Finish(r, "failed")

-----------------------------------------------------------------------------
(* HandlePaymentCompleted *)

\* Mutant: neither the payment's repetition nor the transition is checked.
PaymentForExistingOrderUnchecked(r, o) ==
  UpdateStatusUnchecked(r, o, "WaitingForShipment")

\* The part after GetByID found the order.
PaymentForExistingOrder(r, o) ==
  \/ /\ row[o] = "Created"
     /\ UpdateStatus(r, o, "WaitingForShipment")
  \/ /\ row[o] # "Created"
     /\ Goto(r, "ok")
     /\ call' = [call EXCEPT ![r] = SaveRequest(o, row[o], "WaitingForShipment")]
     /\ UNCHANGED <<row, lock, tx, attempt, todo, hit, pending, published, reached>>

HandlePaymentCompleted(r, o) ==
  /\ pc[r] = "idle"
  /\ \/ /\ row[o] = NoRow
        /\ CallSave(r, o, NoRow, "WaitingForShipment", "create")
     \/ /\ row[o] # NoRow
        /\ PaymentForExistingOrder(r, o)

\* A created order is not announced with an event.
PaymentCreated(r) ==
  /\ pc[r] = "create"
  /\ \/ tx[r] = "ok" /\ Finish(r, "ok")
     \/ tx[r] = "duplicate" /\ Finish(r, "reget")
     \/ tx[r] \in {"conflict", "error"} /\ Finish(r, "failed")

PaymentRegets(r) ==
  /\ pc[r] = "reget"
  /\ \E o \in call[r].ids :
       \/ row[o] = NoRow /\ Finish(r, "failed")
       \/ row[o] # NoRow /\ PaymentForExistingOrder(r, o)

\* Mutant: after a conflict somebody else is trusted to have done the work.
PaymentTrustsConflict(r) == pc[r] = "recheck" /\ Finish(r, "ok")

PaymentRechecks(r) ==
  /\ pc[r] = "recheck"
  /\ \E o \in call[r].ids :
       \/ row[o] = "WaitingForShipment" /\ Finish(r, "ok")
       \/ row[o] # "WaitingForShipment" /\ Finish(r, "failed")

-----------------------------------------------------------------------------
(* UpdateOrderStatus and the shipment events, which differ in the target.  *)

UpdateOrderStatus(r, o, to) ==
  /\ pc[r] = "idle"
  /\ \/ row[o] = NoRow /\ Finish(r, "failed")
     \/ row[o] # NoRow /\ UpdateStatus(r, o, to)

HandleShipmentStarted(r, o) == UpdateOrderStatus(r, o, "InTransit")
HandlePackageArrivedAtPickupStore(r, o) == UpdateOrderStatus(r, o, "WaitPickup")
HandlePackagePickedUp(r, o) == UpdateOrderStatus(r, o, "Completed")

\* Mutant: the error of Save is not returned before the event is published.
SavedIgnoringErrors(r) ==
  /\ pc[r] = "saving"
  /\ ~ InTx(r)
  /\ Goto(r, "publish")
  /\ pending' = [pending EXCEPT ![r] = call[r].ids]
  /\ UNCHANGED <<repoVars, published, reached>>

\* Save has answered.  Only the payment handler looks again after a conflict.
Saved(r) ==
  /\ pc[r] = "saving"
  /\ \/ /\ tx[r] = "ok"
        /\ Goto(r, "publish")
        /\ pending' = [pending EXCEPT ![r] = call[r].ids]
        /\ UNCHANGED <<repoVars, published, reached>>
     \/ tx[r] = "conflict" /\ r \in Payers /\ Finish(r, "recheck")
     \/ tx[r] = "conflict" /\ r \notin Payers /\ Finish(r, "failed")
     \/ tx[r] \in {"duplicate", "error"} /\ Finish(r, "failed")

-----------------------------------------------------------------------------
(* BatchUpdateOrderStatus, as the scheduler calls it. *)

schedulerTransitions == {<<"WaitingForShipment", "InTransit">>,
                         <<"InTransit", "WaitPickup">>,
                         <<"WaitPickup", "Completed">>}

\* A page of the orders in one status, of which a coin flip each selects S.
SelectBatch(r) ==
  /\ pc[r] = "idle"
  /\ \E t \in schedulerTransitions :
       \E S \in SUBSET {o \in Orders : row[o] = t[1]} :
         /\ S # {}
         /\ call' = [call EXCEPT ![r] =
                       [op |-> "batch", ids |-> S, from |-> t[1], to |-> t[2]]]
  /\ Goto(r, "selected")
  /\ UNCHANGED <<row, lock, tx, attempt, todo, hit, pending, published, reached>>

BatchUpdateOrderStatus(r) ==
  /\ pc[r] = "selected"
  /\ BatchUpdate(r, call[r])
  /\ Goto(r, "batch")
  /\ UNCHANGED <<pending, published, reached>>

\* Every id of the batch gets its event, whichever rows were updated.
BatchUpdated(r) ==
  /\ pc[r] = "batch"
  /\ \/ /\ tx[r] = "ok"
        /\ Goto(r, "publish")
        /\ pending' = [pending EXCEPT ![r] = call[r].ids]
        /\ UNCHANGED <<repoVars, published, reached>>
     \/ tx[r] = "error" /\ Finish(r, "failed")

-----------------------------------------------------------------------------
(* Publishing, failures, and the process. *)

OrderStatusChanged(r, o) == [by |-> r, id |-> o, from |-> ToInt(call[r].from),
                             to |-> ToInt(call[r].to)]

\* One event leaves, or is lost: a failed publication is only logged.
Publish(r) ==
  /\ pc[r] = "publish"
  /\ \E o \in pending[r] :
       /\ pending' = [pending EXCEPT ![r] = @ \ {o}]
       /\ \/ published' = published \cup {OrderStatusChanged(r, o)}
          \/ UNCHANGED published
       /\ Goto(r, IF pending[r] = {o} THEN "ok" ELSE "publish")
  /\ UNCHANGED <<repoVars, reached>>

\* GetByID fails: timeout, no connection.
QueryFails(r) == /\ \/ pc[r] = "idle" /\ r \in Payers \cup Operators
                    \/ pc[r] \in {"reget", "recheck"}
                 /\ Finish(r, "failed")

Crash ==
  /\ AbortAll
  /\ pc' = [r \in Requests |-> IF pc[r] \in Running THEN "crashed" ELSE pc[r]]
  /\ pending' = [r \in Requests |-> {}]
  /\ UNCHANGED <<published, reached>>

\* A step of the database, and what it means for the order's history.
Database(A) ==
  /\ A
  /\ reached' = [o \in Orders |-> reached[o] \cup ({row'[o]} \ {NoRow})]
  /\ UNCHANGED <<pc, pending, published>>

\* A status change over HTTP may ask for any string.
Requestable == Statuses \cup {"NotAStatus"}

Begin(r) ==
  \/ r \in Payers /\ \E o \in Orders : HandlePaymentCompleted(r, o)
  \/ r \in Operators /\ \E o \in Orders :
       \/ HandleShipmentStarted(r, o)
       \/ HandlePackageArrivedAtPickupStore(r, o)
       \/ HandlePackagePickedUp(r, o)
       \/ \E s \in Requestable : UpdateOrderStatus(r, o, s)
  \/ r \in Schedulers /\ SelectBatch(r)

Step(r) == \/ PaymentCreated(r)
           \/ PaymentRegets(r)
           \/ PaymentRechecks(r)
           \/ Saved(r)
           \/ BatchUpdateOrderStatus(r)
           \/ BatchUpdated(r)
           \/ Publish(r)
           \/ Database(RepoStep(r))

Next == \/ \E r \in Requests : \/ Begin(r)
                               \/ Step(r)
                               \/ Database(RepoFault(r))
                               \/ QueryFails(r)
        \/ Crash

\* A goroutine that can run runs; nothing has to begin, fail or crash.
Fairness == \A r \in Requests : WF_vars(Step(r))

Spec == Init /\ [][Next]_vars /\ Fairness

-----------------------------------------------------------------------------
\* No status is reached without the one before it: whatever the requests
\* overwrite, an order was InTransit before it is WaitPickup, Created before
\* it is Canceled.  (A payment may create an order as WaitingForShipment.)
NoStageSkipped ==
  \A o \in Orders : \A s \in reached[o] :
    \/ s \in Seeded \cup {"WaitingForShipment"}
    \/ \E t \in reached[o] : CanTransitionTo(t, s)

PastCreated(o) == row[o] \notin {NoRow, "Created"}

\* A payment that was answered without an error is in the table for good: the
\* order exists and is past Created, although the handler may have skipped it
\* because of what other requests were doing.  (Canceled is past Created too:
\* where that is written over a payment, NoIllegalTransition is violated.)
PaymentNeverForgotten ==
  \A r \in Payers : pc[r] = "ok" =>
    \A o \in call[r].ids : PastCreated(o)

\* An event of a payment or of a status change tells of a legal change that
\* its request has committed; a change that was refused, failed or was
\* rolled back is never announced.
EventsTellCommittedChanges ==
  \A e \in published : e.by \notin Schedulers =>
    /\ tx[e.by] = "ok" /\ e.id \in hit[e.by]
    /\ \E s, t \in reached[e.id] : /\ CanTransitionTo(s, t)
                                  /\ e.from = ToInt(s) /\ e.to = ToInt(t)

\* The table follows the life of an order that the domain describes, as long as
\* only batches and one payment work on an order.  A batch compares before it
\* writes; Save overwrites what it does not look at, so a second payment or a
\* status change breaks this.
Lifecycle == INSTANCE OrderLifecycle WITH status <- row

FollowsLifecycle == Lifecycle!Spec

\* A request that has begun comes to an end: batches and inserts wait for
\* locks, but never for ever.
Termination == \A r \in Requests : (pc[r] \in Running) ~> (pc[r] \in Finished)

-----------------------------------------------------------------------------
(* What makes the properties above inductive. *)

\* An order's history contains its present.
HistoryHasRow == \A o \in Orders : row[o] # NoRow => row[o] \in reached[o]

\* A change under way was legal for a status that each of its orders has had
\* (not: still has), or it creates the order.
CallsJustified ==
  \A r \in Requests : \A o \in call[r].ids :
    /\ pc[r] = "create" => call[r].to = "WaitingForShipment"
    /\ pc[r] \in {"saving", "selected", "batch", "publish"} =>
         call[r].from \in reached[o] /\ CanTransitionTo(call[r].from, call[r].to)

\* A transaction is open only while its request waits for it, and touches
\* only the orders it was asked for.
TransactionsBelong ==
  \A r \in Requests :
    /\ tx[r] \in {"select", "insert", "commit"} => pc[r] \in {"create", "saving"}
    /\ tx[r] = "update" => pc[r] = "batch" /\ todo[r] \subseteq call[r].ids
    /\ pc[r] \in {"selected", "batch"} => r \in Schedulers /\ call[r].op = "batch"
    /\ InTx(r) => hit[r] \subseteq call[r].ids

\* A Save that is answered "ok" has written its one order, which since then is
\* past Created, whoever else has written it.
SavesWrote ==
  \A r \in Requests :
    /\ pc[r] \in {"create", "reget", "saving", "recheck"} =>
         \E o \in Orders : call[r].ids = {o}
    /\ pc[r] \in {"create", "saving"} =>
         /\ tx[r] \in {"select", "insert"} => hit[r] = {}
         /\ tx[r] \in {"commit", "ok"} => hit[r] = call[r].ids
         /\ tx[r] = "ok" => \A o \in call[r].ids :
              call[r].to \in reached[o] /\ PastCreated(o)

\* The same, later: while the event is being published, and after.
PublishersWrote ==
  \A r \in Requests \ Schedulers : pc[r] = "publish" =>
    /\ tx[r] = "ok" /\ hit[r] = call[r].ids /\ pending[r] \subseteq hit[r]
    /\ \A o \in call[r].ids :
         call[r].to \in reached[o] /\ PastCreated(o)

PublishersAreDone ==
  \A e \in published : pc[e.by] \in {"publish", "ok", "crashed"}

IInv == /\ TypeOK
        /\ HistoryHasRow
        /\ CallsJustified
        /\ TransactionsBelong
        /\ SavesWrote
        /\ PublishersWrote
        /\ PublishersAreDone
        /\ NoStageSkipped
        /\ PaymentNeverForgotten
        /\ EventsTellCommittedChanges

\* While only batches and one payment are at work: the payment, which alone
\* calls Save, writes over the status that it has read ...
SaveIsFresh ==
  \A r \in Requests : pc[r] \in {"create", "reget", "saving", "recheck"} =>
    /\ r \in Payers
    /\ InTx(r) => /\ call[r].to = "WaitingForShipment"
                  /\ call[r].from \in {NoRow, "Created"}
                  /\ \A o \in call[r].ids : row[o] = call[r].from

\* ... and a batch goes by the scheduler's table.
BatchIsScheduled ==
  \A r \in Requests : pc[r] \in {"selected", "batch"} =>
    <<call[r].from, call[r].to>> \in schedulerTransitions

-----------------------------------------------------------------------------
\* What the sources say of the program, and the program does not do.

\* A transition that the state machine does not allow never happens.
NoIllegalTransition ==
  [][\A o \in Orders :
       row'[o] # row[o] => Lifecycle!LegalMove(row[o], row'[o])]_vars

\* Of several identical payment events handled at once only one updates the
\* order, and tells the backend so.
OnePaymentSucceeds ==
  \A d, e \in published :
    d.by \in Payers /\ e.by \in Payers /\ d.id = e.id => d.by = e.by

\* A batch publishes an event for an order that it has updated.
BatchEventsTellUpdates ==
  \A e \in published : e.by \in Schedulers => e.id \in hit[e.by]
=============================================================================
