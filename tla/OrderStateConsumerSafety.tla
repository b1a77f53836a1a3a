----------------------- MODULE OrderStateConsumerSafety -----------------------
(***************************************************************************)
(* No payment event is lost, for every number of messages, of workers and  *)
(* of deliveries in the prefetch window.                                   *)
(*                                                                         *)
(* The broker could only forget a message that no handler has handled if   *)
(* it read an ack while it had no other copy.  The acks of such a message  *)
(* are those of a delivery that a worker has published again, and the copy *)
(* is ahead of the ack on the same connection: UnhandledIsKept says so.    *)
(***************************************************************************)
EXTENDS OrderStateConsumer_proofs

USE DEF Tags, brokerVars, receiverVars, workerVars

\* A queue has the message.
Queued(m) == \E q \in ConsumerQueues : \E x \in BagToSet(queues[q]) : x.msg = m

\* The broker waits for the delivery under this tag, which is the message.
KeptAt(t, m) == unacked[t] # None /\ unacked[t].msg = m /\ AcksFollow(t, m)

\* No worker comes to have published what it holds.
NobodyPublishes ==
  \A w \in Workers : worker'[w] = "published" => worker[w] = "published" /\ hold'[w] = hold[w]

\* Either half is enough.
LEMMA KeptIsEither ==
  ASSUME NEW m
  PROVE  /\ Kept(m) <=> Queued(m) \/ \E t \in Tags : KeptAt(t, m)
         /\ Kept(m)' <=> Queued(m)' \/ \E t \in Tags : KeptAt(t, m)'
BY DEF Kept, Queued, KeptAt

\* A message stays where nothing leaves the queues.
LEMMA QueuedStays ==
  ASSUME NEW m, Queued(m), QueuesGrow(queues') \/ UNCHANGED queues
  PROVE  Queued(m)'
BY DEF Queued, QueuesGrow

\* A message that has come to a queue is there.
LEMMA ArrivedIsQueued ==
  ASSUME NEW x, \E q \in ConsumerQueues : x \in BagToSet(queues'[q])
  PROVE  Queued(x.msg)'
BY DEF Queued

-----------------------------------------------------------------------------
(* The frames. *)

\* A frame is sent: it is a copy of the message, or it is not; what has been
\* sent before keeps its place.
LEMMA CopySent ==
  ASSUME wire \in Seq(Publications \cup Settlements),
         NEW f \in Publications \cup Settlements, wire' = Append(wire, f), NEW m
  PROVE  /\ Copies(m) \subseteq 1..Len(wire)
         /\ IF f.kind = "publish" /\ f.of.msg = m
            THEN Copies(m)' = Copies(m) \cup {Len(wire) + 1}
            ELSE Copies(m)' = Copies(m)
         /\ \A t : OnWireAt(t) \subseteq 1..Len(wire)
         /\ \A i \in 1..Len(wire) : wire'[i] = wire[i]
         /\ wire'[Len(wire) + 1] = f
BY DEF Copies, OnWireAt

\* The broker reads a frame that is no copy of the message and does not settle
\* its delivery: acks and copies move up together.
LEMMA AcksFollowAfterReading ==
  ASSUME wire \in Seq(Publications \cup Settlements), wire # <<>>,
         wire' = Tail(wire), NEW t, NEW m, AcksFollow(t, m),
         ~ (Head(wire).kind = "publish" /\ Head(wire).of.msg = m),
         UNCHANGED <<worker, hold>>
  PROVE  AcksFollow(t, m)'
<1>1. Len(wire) \in Nat \ {0} /\ Len(wire') = Len(wire) - 1
  OBVIOUS
<1>2. \A i \in 1..(Len(wire) - 1) : wire'[i] = wire[i + 1]
  OBVIOUS
<1>3. DOMAIN wire = 1..Len(wire) /\ DOMAIN wire' = 1..(Len(wire) - 1)
  BY <1>1
<1>4. 1 \notin Copies(m)
  BY DEF Copies
<1>5. Copies(m) \subseteq 1..Len(wire)
  BY <1>3 DEF Copies
<1>6. \A j \in Copies(m) : j - 1 \in Copies(m)'
  <2> SUFFICES ASSUME NEW j \in Copies(m) PROVE j - 1 \in Copies(m)'
    OBVIOUS
  <2>1. j \in 1..Len(wire) /\ j # 1
    BY <1>4, <1>5
  <2>2. j - 1 \in 1..(Len(wire) - 1) /\ (j - 1) + 1 = j
    BY <1>1, <2>1
  <2>3. wire'[j - 1] = wire[j]
    BY <1>2, <2>2
  <2> QED
    BY <1>3, <2>2, <2>3 DEF Copies
<1>7. ASSUME NEW i \in OnWireAt(t)', wire'[i].by = "ack"
      PROVE  \E j \in Copies(m)' : j < i
  <2>1. i \in 1..(Len(wire) - 1) /\ wire'[i].kind = "settle" /\ wire'[i].tag = t
    BY <1>3 DEF OnWireAt
  <2>2. wire'[i] = wire[i + 1] /\ i + 1 \in 1..Len(wire)
    BY <1>1, <1>2, <2>1
  <2>3. i + 1 \in OnWireAt(t)
    BY <1>3, <2>1, <2>2 DEF OnWireAt
  <2>4. PICK j \in Copies(m) : j < i + 1
    BY <1>7, <2>2, <2>3 DEF AcksFollow
  <2>5. j - 1 \in Copies(m)' /\ j - 1 < i
    BY <1>5, <1>6, <2>1, <2>4
  <2> QED
    BY <2>5
<1>8. ASSUME NEW w \in WorkersWith(t)', worker'[w] = "published"
      PROVE  Copies(m)' # {}
  <2>1. w \in WorkersWith(t) /\ worker[w] = "published"
    BY <1>8 DEF WorkersWith
  <2> QED
    BY <1>6, <2>1 DEF AcksFollow
<1> QED
  BY <1>7, <1>8 DEF AcksFollow

-----------------------------------------------------------------------------
(* Steps that neither read nor lose a frame. *)

\* A step that sends nothing.
LEMMA QuietKeeps ==
  ASSUME NEW m, Kept(m), UNCHANGED <<queues, unacked, wire>>, NobodyPublishes
  PROVE  Kept(m)'
<1>1. CASE Queued(m)
  BY <1>1, KeptIsEither, QueuedStays
<1>2. ASSUME NEW t \in Tags, KeptAt(t, m) PROVE KeptAt(t, m)'
  <2>1. Copies(m)' = Copies(m) /\ OnWireAt(t)' = OnWireAt(t)
    BY DEF Copies, OnWireAt
  <2>2. \A w \in WorkersWith(t)' : worker'[w] = "published" =>
          w \in WorkersWith(t) /\ worker[w] = "published"
    BY DEF NobodyPublishes, WorkersWith
  <2> QED
    BY <1>2, <2>1, <2>2 DEF KeptAt, AcksFollow
<1> QED
  BY <1>1, <1>2, KeptIsEither

\* A delivery is settled.  It may be an ack if there is a copy already.
LEMMA SettleKeeps ==
  ASSUME TypeOK, NEW m, Kept(m), UNCHANGED <<queues, unacked>>, NobodyPublishes,
         NEW d \in Deliveries, NEW by \in {"ack", "requeue", "reject"},
         Settle(d, by),
         \A t \in Tags : by = "ack" /\ Holds(d, t) /\ KeptAt(t, m) => Copies(m) # {}
  PROVE  Kept(m)'
<1>1. CASE d.tag = None
  BY <1>1, QuietKeeps DEF Settle
<1>2. CASE d.tag # None
  <2> DEFINE f == [kind |-> "settle", tag |-> d.tag, by |-> by]
             n == Len(wire) + 1
  <2>1. f \in Settlements /\ f.kind = "settle" /\ f.tag = d.tag /\ f.by = by
    BY <1>2, HoldsItsTag DEF Settlements
  <2>2. wire \in Seq(Publications \cup Settlements) /\ wire' = Append(wire, f)
    BY <1>2 DEF TypeOK, Settle
  <2> HIDE DEF f
  <2>3. CASE Queued(m)
    BY <2>3, KeptIsEither, QueuedStays
  <2>4. ASSUME NEW t \in Tags, KeptAt(t, m) PROVE KeptAt(t, m)'
    <3>1. Copies(m)' = Copies(m) /\ Copies(m) \subseteq 1..Len(wire)
      BY <2>1, <2>2, CopySent
    <3>2. \A i \in 1..Len(wire) : wire'[i] = wire[i]
      BY <2>1, <2>2, CopySent
    <3>3. ASSUME NEW i \in OnWireAt(t)', wire'[i].by = "ack"
          PROVE  \E j \in Copies(m)' : j < i
      <4>1. CASE i \in OnWireAt(t)
        BY <2>1, <2>2, <2>4, <3>1, <3>2, <3>3, <4>1, CopySent DEF KeptAt, AcksFollow
      <4>2. CASE i \notin OnWireAt(t)
        <5>1. i = n /\ f.tag = t
          BY <2>1, <2>2, <4>2, FrameSent
        <5>2. wire'[i] = f
          BY <2>1, <2>2, <5>1, CopySent
        <5>3. by = "ack" /\ Holds(d, t)
          BY <2>1, <3>3, <5>1, <5>2, HoldsItsTag
        <5>4. Copies(m) # {}
          BY <2>4, <5>3
        <5> QED
          BY <2>2, <3>1, <5>1, <5>4
      <4> QED
        BY <4>1, <4>2
    <3>4. \A w \in WorkersWith(t)' : worker'[w] = "published" =>
            w \in WorkersWith(t) /\ worker[w] = "published"
      BY DEF NobodyPublishes, WorkersWith
    <3> QED
      BY <2>4, <3>1, <3>3, <3>4 DEF KeptAt, AcksFollow
  <2> QED
    BY <2>3, <2>4, KeptIsEither
<1> QED
  BY <1>1, <1>2

-----------------------------------------------------------------------------
(* The broker. *)

\* The broker takes a publication: the copy is in a queue.
LEMMA PublicationKeeps ==
  ASSUME Placed, NEW m, Kept(m), wire # <<>>, wire' = Tail(wire),
         Head(wire).kind = "publish", ReceivePublication(Head(wire)),
         UNCHANGED <<worker, hold>>
  PROVE  Kept(m)'
<1> USE DEF Placed
<1> DEFINE f == Head(wire)
<1>1. wire \in Seq(Publications \cup Settlements) /\ f \in Publications \cup Settlements
  BY DEF TypeOK
<1>2. f \in Publications
  BY <1>1 DEF Settlements
<1>3. /\ QueuesGrow(queues')
      /\ \E q \in ConsumerQueues : f.of \in BagToSet(queues'[q])
  BY <1>2, ArriveKeepsQueues DEF ReceivePublication, Publications, TypeOK, QueuesOK
<1>4. CASE Queued(m)
  BY <1>3, <1>4, QueuedStays, KeptIsEither
<1>5. CASE f.of.msg = m
  BY <1>3, <1>5, ArrivedIsQueued, KeptIsEither
<1>6. ASSUME NEW t \in Tags, KeptAt(t, m), f.of.msg # m PROVE KeptAt(t, m)'
  <2>1. AcksFollow(t, m)'
    BY <1>1, <1>6, AcksFollowAfterReading DEF KeptAt
  <2> QED
    BY <1>6, <2>1 DEF KeptAt, ReceivePublication
<1> QED
  BY <1>4, <1>5, <1>6, KeptIsEither

\* The broker settles a delivery.  It forgets it after an ack only, and no ack
\* is the first frame when a copy of the message has to be ahead of it.
LEMMA SettlementKeeps ==
  ASSUME Placed, NEW m, Kept(m), wire # <<>>, wire' = Tail(wire),
         Head(wire).kind = "settle", ReceiveSettlement(Head(wire)),
         UNCHANGED <<worker, hold>>
  PROVE  Kept(m)'
<1> USE DEF Placed
<1> DEFINE f == Head(wire)
           u == f.tag
<1>1. wire \in Seq(Publications \cup Settlements) /\ f \in Publications \cup Settlements
  BY DEF TypeOK
<1>2. u \in Tags /\ f.by \in {"ack", "requeue", "reject"}
  BY <1>1 DEF Publications, Settlements
<1>3. 1 \in OnWireAt(u) /\ f = wire[1]
  BY <1>1 DEF OnWireAt
<1>4. unacked[u] \in Contents /\ QueuesOK(queues)
  BY <1>2, <1>3 DEF TypeOK, QueuesOK, TagsInPlace, InNoPlace
<1>5. \A t \in Tags : t # u => unacked'[t] = unacked[t]
  BY DEF ReceiveSettlement, TypeOK
<1>6. /\ QueuesGrow(queues') \/ UNCHANGED queues
      /\ f.by # "ack" => \E q \in ConsumerQueues : unacked[u] \in BagToSet(queues'[q])
  <2>1. CASE f.by = "ack"
    BY <2>1 DEF ReceiveSettlement
  <2>2. CASE f.by = "requeue"
    <3>1. queues' = Requeued(SetToBag({unacked[u]}))
      BY <2>2 DEF ReceiveSettlement
    <3>2. /\ IsABag(SetToBag({unacked[u]}))
          /\ BagToSet(SetToBag({unacked[u]})) = {unacked[u]}
      BY BagOfSet
    <3>3. {unacked[u]} \subseteq Contents
      BY <1>4
    <3> QED
      BY <1>4, <3>1, <3>2, <3>3, RequeuedKeepsQueues
  <2>3. CASE f.by = "reject"
    <3>1. queues' = Arrive(unacked[u], ConsumerDeadLetters)
      BY <2>3 DEF ReceiveSettlement
    <3> QED
      BY <1>4, <3>1, ArriveKeepsQueues
  <2> QED
    BY <1>2, <2>1, <2>2, <2>3
<1>7. CASE Queued(m)
  BY <1>6, <1>7, QueuedStays, KeptIsEither
<1>8. ASSUME NEW t \in Tags, KeptAt(t, m) PROVE KeptAt(t, m)' \/ Queued(m)'
  <2>1. CASE t = u /\ f.by = "ack"
    <3>1. \E j \in Copies(m) : j < 1
      BY <1>3, <1>8, <2>1 DEF KeptAt, AcksFollow
    <3>2. Copies(m) \subseteq 1..Len(wire)
      BY <1>1 DEF Copies
    <3> QED
      BY <1>1, <3>1, <3>2
  <2>2. CASE t = u /\ f.by # "ack"
    BY <1>6, <1>8, <2>2, ArrivedIsQueued DEF KeptAt
  <2>3. CASE t # u
    <3>1. AcksFollow(t, m)'
      BY <1>1, <1>8, AcksFollowAfterReading DEF KeptAt
    <3> QED
      BY <1>5, <1>8, <2>3, <3>1 DEF KeptAt
  <2> QED
    BY <2>1, <2>2, <2>3
<1> QED
  BY <1>7, <1>8, KeptIsEither

LEMMA ReceiveKeeps ==
  ASSUME Placed, NEW m, Kept(m), Receive
  PROVE  Kept(m)'
BY PublicationKeeps, SettlementKeeps DEF Receive

\* A message that is delivered is unsettled instead of in the queue, and nobody
\* has its delivery yet.
LEMMA DeliverKeeps ==
  ASSUME Placed, NEW m, Kept(m),
         NEW x \in BagToSet(queues["order_state_queue"]), Deliver(x)
  PROVE  Kept(m)'
<1> USE DEF Placed
<1>1. PICK u \in Tags : /\ unacked[u] = None
                        /\ unacked' = [unacked EXCEPT ![u] = x]
  BY DEF Deliver
<1>2. /\ UNCHANGED <<wire, worker, hold>>
      /\ queues' = [queues EXCEPT !["order_state_queue"] = @ (-) SetToBag({x})]
  BY DEF Deliver
<1>3. QueuesOK(queues) /\ unacked \in [Tags -> Contents \cup {None}]
  BY DEF TypeOK, QueuesOK
<1>4. x # None
  BY <1>3, RoutesExist, NoneAssumption DEF QueuesOK
<1>5. ASSUME NEW t \in Tags, AcksFollow(t, m) PROVE AcksFollow(t, m)'
  BY <1>2, <1>5 DEF AcksFollow, OnWireAt, WorkersWith, Copies
<1>6. CASE x.msg = m
  <2>1. AcksFollow(u, m)
    BY <1>1 DEF TagsInPlace, InNoPlace, AcksFollow
  <2> QED
    BY <1>1, <1>3, <1>4, <1>5, <1>6, <2>1, KeptIsEither DEF KeptAt
<1>7. CASE Queued(m) /\ x.msg # m
  <2>0. PICK q \in ConsumerQueues : \E y \in BagToSet(queues[q]) : y.msg = m
    BY <1>7 DEF Queued
  <2>1. PICK y \in BagToSet(queues[q]) : y.msg = m
    BY <2>0
  <2>2. y \in BagToSet(queues'[q])
    <3>1. CASE q = "order_state_queue"
      <4> DEFINE B == queues["order_state_queue"]
      <4>1. IsABag(B) /\ BagToSet(B) \subseteq Contents
        BY <1>3, RoutesExist DEF QueuesOK
      <4>2. queues'[q] = B (-) SetToBag({x})
        BY <1>2, <1>3, <3>1 DEF QueuesOK
      <4>3. y \in BagToSet(B) \ {x}
        BY <1>7, <2>1, <3>1
      <4> HIDE DEF B
      <4> QED
        BY <4>1, <4>2, <4>3, BagRemove
    <3>2. CASE q # "order_state_queue"
      BY <1>2, <1>3, <2>1, <3>2 DEF QueuesOK
    <3> QED
      BY <3>1, <3>2
  <2> QED
    BY <2>1, <2>2, KeptIsEither DEF Queued
<1>8. ASSUME NEW t \in Tags, KeptAt(t, m) PROVE KeptAt(t, m)'
  BY <1>1, <1>3, <1>5, <1>8 DEF KeptAt
<1> QED
  BY <1>6, <1>7, <1>8, KeptIsEither

-----------------------------------------------------------------------------
(* The connection and the process. *)

\* What was unsettled is in the queue again.
LEMMA LoseConnectionKeeps ==
  ASSUME TypeOK, NEW m, Kept(m), LoseConnection
  PROVE  Kept(m)'
<1>1. CASE Queued(m)
  BY <1>1, LoseConnectionType, QueuedStays, KeptIsEither
<1>2. ASSUME NEW t \in Tags, KeptAt(t, m) PROVE Queued(m)'
  BY <1>2, LoseConnectionType, ArrivedIsQueued DEF KeptAt
<1> QED
  BY <1>1, <1>2, KeptIsEither

-----------------------------------------------------------------------------
(* The receiver and the workers. *)

\* The receiver gives a delivery back, or sends nothing.
LEMMA ReceiverKeeps ==
  ASSUME Placed, NEW m, Kept(m), Receiver
  PROVE  Kept(m)'
<1>1. CASE consumeMessages \/ reconnect \/ ReceiverStops
  BY <1>1, QuietKeeps
     DEF consumeMessages, reconnect, ReceiverStops, NobodyPublishes
<1>2. CASE messageReceiver
  <2>1. UNCHANGED <<queues, unacked>> /\ NobodyPublishes
    BY <1>2 DEF messageReceiver, NobodyPublishes
  <2>2. PICK d \in Deliveries : Moved(d)
    BY <1>2, ReceiverTakes
  <2>3. CASE Refuse(d, "range") \/ Refuse(d, "stopped")
    <3>1. Settle(d, "requeue")
      BY <2>3 DEF Refuse, Nack
    <3> QED
      BY <2>1, <3>1, SettleKeeps DEF Placed
  <2>4. CASE UNCHANGED wire
    BY <2>1, <2>4, QuietKeeps
  <2> QED
    BY <2>2, <2>3, <2>4 DEF Moved, Enqueue
<1> QED
  BY <1>1, <1>2 DEF Receiver

\* A worker sends the copy of what it has failed to handle.
LEMMA RepublishKeeps ==
  ASSUME Placed, NEW m, Kept(m), NEW w \in Workers, Republish(w),
         UNCHANGED brokerVars
  PROVE  Kept(m)'
<1> USE DEF Placed
<1>1. hold[w] \in Deliveries /\ hold[w] # None /\ UNCHANGED hold
  BY DEF Republish, HandsMatch, TypeOK
<1>2. CASE Become(w, "unpublished") /\ UNCHANGED wire
  <2>1. NobodyPublishes
    BY <1>1, <1>2 DEF NobodyPublishes, Become, TypeOK
  <2> QED
    BY <1>2, <2>1, QuietKeeps
<1>3. CASE wire' = Append(wire, Republication(w)) /\ Become(w, "published")
  <2> DEFINE f == Republication(w)
  <2>1. /\ wire \in Seq(Publications \cup Settlements)
        /\ f \in Publications /\ f.kind = "publish" /\ f.of.msg = hold[w].of.msg
    BY <1>1, RepublicationType DEF TypeOK
  <2> HIDE DEF f
  <2>2. wire' = Append(wire, f)
    BY <1>3 DEF f
  <2>3. CASE Queued(m)
    BY <2>3, QueuedStays, KeptIsEither
  <2>4. ASSUME NEW t \in Tags, KeptAt(t, m) PROVE KeptAt(t, m)'
    <3>1. OnWireAt(t)' = OnWireAt(t) /\ OnWireAt(t) \subseteq 1..Len(wire)
      BY <2>1, <2>2, FrameSent, CopySent
    <3>2. Copies(m) \subseteq Copies(m)'
      BY <2>1, <2>2, CopySent
    <3>3. \A i \in 1..Len(wire) : wire'[i] = wire[i]
      BY <2>1, <2>2, CopySent
    <3>4. ASSUME NEW v \in WorkersWith(t)', worker'[v] = "published"
          PROVE  Copies(m)' # {}
      <4>1. CASE v = w
        <5>1. Holds(hold[w], t)
          BY <1>1, <3>4, <4>1 DEF WorkersWith
        <5>2. hold[w].of = unacked[t]
          BY <1>1, <5>1, HoldsItsTag, NoneAssumption
             DEF HoldsWhatIsUnsettled, Faithful, Holds
        <5>3. f.of.msg = m
          BY <2>1, <2>4, <5>2 DEF KeptAt
        <5> QED
          BY <2>1, <2>2, <5>3, CopySent
      <4>2. CASE v # w
        <5>1. v \in WorkersWith(t) /\ worker[v] = "published"
          BY <1>1, <1>3, <3>4, <4>2 DEF WorkersWith, Become, TypeOK
        <5> QED
          BY <2>4, <3>2, <5>1 DEF KeptAt, AcksFollow
      <4> QED
        BY <4>1, <4>2
    <3> QED
      BY <2>4, <3>1, <3>2, <3>3, <3>4 DEF KeptAt, AcksFollow
  <2> QED
    BY <2>3, <2>4, KeptIsEither
<1> QED
  BY <1>2, <1>3 DEF Republish

\* A worker may ack what its handler has handled, and what it has published.
LEMMA HandleMessageKeeps ==
  ASSUME Placed, NEW w \in Workers, handleMessage(w), NEW m, Kept(m), m \notin done'
  PROVE  Kept(m)'
<1> USE DEF Placed
<1>1. UNCHANGED brokerVars
  BY DEF handleMessage
<1>2. CASE HandlerFails(w)
  <2>1. NobodyPublishes /\ UNCHANGED wire
    BY <1>2 DEF HandlerFails, NobodyPublishes, Become, TypeOK
  <2> QED
    BY <1>1, <2>1, QuietKeeps
<1>3. CASE Republish(w)
  BY <1>1, <1>3, RepublishKeeps
<1>4. CASE RejectMalformed(w) \/ HandlerSucceeds(w) \/ SettleFailed(w)
  <2>1. hold[w] \in Deliveries
    BY <1>4 DEF RejectMalformed, HandlerSucceeds, SettleFailed, HandsMatch, TypeOK
  <2>2. NobodyPublishes
    BY <1>4 DEF RejectMalformed, HandlerSucceeds, SettleFailed, LetGo, Become,
                NobodyPublishes, TypeOK
  <2>3. CASE Settle(hold[w], "reject") \/ Settle(hold[w], "requeue")
    BY <1>1, <2>1, <2>2, <2>3, SettleKeeps
  <2>4. CASE HandlerSucceeds(w)
    <3>1. Settle(hold[w], "ack") /\ hold[w].of.msg # m
      BY <2>4 DEF HandlerSucceeds, Ack
    <3>2. \A t \in Tags : Holds(hold[w], t) => unacked[t] = hold[w].of
      BY <2>1, HoldsItsTag, NoneAssumption DEF HoldsWhatIsUnsettled, Faithful, Holds
    <3>3. \A t \in Tags : ~ (Holds(hold[w], t) /\ KeptAt(t, m))
      BY <3>1, <3>2 DEF KeptAt
    <3> QED
      BY <1>1, <2>1, <2>2, <3>1, <3>3, SettleKeeps
  <2>5. CASE worker[w] = "published" /\ Settle(hold[w], "ack")
    <3>1. \A t \in Tags : Holds(hold[w], t) /\ KeptAt(t, m) => Copies(m) # {}
      BY <2>5 DEF KeptAt, AcksFollow, WorkersWith
    <3> QED
      BY <1>1, <2>1, <2>2, <2>5, <3>1, SettleKeeps
  <2> QED
    BY <1>4, <2>3, <2>4, <2>5 DEF RejectMalformed, SettleFailed, Ack, Nack
<1> QED
  BY <1>2, <1>3, <1>4 DEF handleMessage

LEMMA WorkerKeeps ==
  ASSUME Placed, NEW w \in Workers, Worker(w), NEW m, Kept(m), m \notin done'
  PROVE  Kept(m)'
<1>1. CASE TakeDelivery(w) \/ WorkerStops(w)
  <2>1. NobodyPublishes /\ UNCHANGED <<queues, unacked, wire>>
    BY <1>1 DEF TakeDelivery, WorkerStops, Become, NobodyPublishes, Placed, TypeOK
  <2> QED
    BY <2>1, QuietKeeps
<1>2. CASE handleMessage(w)
  BY <1>2, HandleMessageKeeps
<1> QED
  BY <1>1, <1>2 DEF Worker

-----------------------------------------------------------------------------
(* The specification. *)

\* A queue has every message at the start.
LEMMA InitKept == Init => UnhandledIsKept
<1> SUFFICES ASSUME Init, NEW m \in Messages PROVE Queued(m)
  BY KeptIsEither DEF UnhandledIsKept
<1> DEFINE x == [msg |-> m, retry |-> 0]
           S == [msg : Messages, retry : {0}]
<1>1. x \in S /\ x.msg = m
  OBVIOUS
<1> HIDE DEF x, S
<1>2. "order_state_queue" \in ConsumerQueues
  BY RoutesExist
<1>3. queues["order_state_queue"] = SetToBag(S)
  BY <1>2 DEF Init, S
<1>4. x \in BagToSet(queues["order_state_queue"])
  BY <1>1, <1>3, BagOfSet
<1> QED
  BY <1>1, <1>2, <1>4 DEF Queued

LEMMA NextKept == IInv /\ [Next]_vars => UnhandledIsKept'
<1> SUFFICES ASSUME IInv, [Next]_vars, NEW m \in Messages, m \notin done'
             PROVE  Kept(m)'
  BY DEF UnhandledIsKept
<1> USE DEF IInv, Placed
<1>1. m \notin done
  BY DEF Next, Broker, Receiver, Worker, Receive, Deliver, consumeMessages,
         reconnect, ReceiverStops, messageReceiver, TakeDelivery, handleMessage,
         RejectMalformed, HandlerSucceeds, HandlerFails, Republish, SettleFailed,
         WorkerStops, OrphanReturns, ConnectionLost, Stop, StopReturns,
         SendOnClosedChannel, Crash, Exit, Restart, vars
<1>2. Kept(m)
  BY <1>1 DEF UnhandledIsKept
<1>3. CASE Broker
  BY <1>2, <1>3, ReceiveKeeps, DeliverKeeps DEF Broker
<1>4. CASE Receiver
  BY <1>2, <1>4, ReceiverKeeps
<1>5. ASSUME NEW w \in Workers, Worker(w) PROVE Kept(m)'
  BY <1>2, <1>5, WorkerKeeps
<1>6. CASE ConnectionLost \/ StopReturns \/ SendOnClosedChannel \/ Crash
  BY <1>2, <1>6, LoseConnectionKeeps
     DEF ConnectionLost, StopReturns, SendOnClosedChannel, Crash, Exit
<1>7. CASE Stop \/ (\E n \in Messages : OrphanReturns(n)) \/ UNCHANGED vars
  BY <1>2, <1>7, QuietKeeps DEF Stop, OrphanReturns, vars, NobodyPublishes
<1>8. CASE Restart
  <2>1. NobodyPublishes
    BY <1>8 DEF Restart, NobodyPublishes
  <2> QED
    BY <1>2, <1>8, <2>1, QuietKeeps DEF Restart
<1> QED
  BY <1>3, <1>4, <1>5, <1>6, <1>7, <1>8 DEF Next

\* The inductive invariant of the consumer: deliveries are in their places, and
\* what nobody has handled has a copy ahead of every ack.
THEOREM Invariance == Spec => []IInv
<1>1. Init => IInv
  BY InitPlaced, InitKept DEF IInv
<1>2. IInv /\ [Next]_vars => IInv'
  BY NextPlaced, NextKept DEF IInv
<1> QED
  BY <1>1, <1>2, PTL DEF Spec

\* No payment event is lost: whatever breaks or crashes in whichever order, the
\* broker has a copy of it until a handler has handled it.
THEOREM MessagesAreKept == Spec => []NoMessageLost
<1>1. IInv => NoMessageLost
  BY DEF IInv, UnhandledIsKept, Kept, NoMessageLost
<1> QED
  BY <1>1, Invariance, PTL
=============================================================================
