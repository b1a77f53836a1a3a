---------------------- MODULE OrderStateConsumer_proofs ----------------------
(***************************************************************************)
(* Proofs about the consumer, for every number of messages, of workers and *)
(* of deliveries in the prefetch window: every variable keeps its type,    *)
(* and every delivery is in exactly one place until it is settled.         *)
(*                                                                         *)
(* The two need each other: that a frame settles a delivery which is still *)
(* unsettled is a matter of places, and the message that goes back to the  *)
(* queue has its type for that reason.                                     *)
(***************************************************************************)
EXTENDS OrderStateConsumer, TLAPS, FiniteSetTheorems, SequenceTheorems

USE DEF Tags, brokerVars, receiverVars, workerVars

-----------------------------------------------------------------------------
(* Sets with one element, sequences and bags. *)

\* T has no, or one, element when S has.
Alike(S, T) == /\ S = {} => T = {}
               /\ Lone(S) => Lone(T)

\* The first element of a sequence leaves: every index is one less.
LEMMA ShiftedPlaces ==
  ASSUME NEW n \in Nat \ {0}, NEW I \in SUBSET (1..n), NEW J,
         J = {j \in 1..(n - 1) : j + 1 \in I}
  PROVE  /\ 1 \notin I => Alike(I, J)
         /\ 1 \in I /\ Lone(I) => J = {}
<1>1. I = {} => J = {}
  OBVIOUS
<1>2. ASSUME NEW k \in I, I = {k}, k # 1
      PROVE  J = {k - 1}
  BY <1>2
<1>3. 1 \in I /\ Lone(I) => J = {}
  BY DEF Lone
<1>4. 1 \notin I /\ Lone(I) => Lone(J)
  BY <1>2 DEF Lone
<1> QED
  BY <1>1, <1>3, <1>4 DEF Alike

\* A message that arrives is in the bag, with what was there.
LEMMA BagAdd ==
  ASSUME NEW S, NEW B, IsABag(B), BagToSet(B) \subseteq S,
         NEW C, IsABag(C), BagToSet(C) \subseteq S
  PROVE  /\ IsABag(B (+) C)
         /\ BagToSet(B (+) C) = BagToSet(B) \cup BagToSet(C)
         /\ BagToSet(B (+) C) \subseteq S
BY DEF IsABag, (+), BagToSet

\* One copy of x leaves the bag; other messages stay.
LEMMA BagRemove ==
  ASSUME NEW S, NEW B, IsABag(B), BagToSet(B) \subseteq S, NEW x
  PROVE  /\ IsABag(B (-) SetToBag({x}))
         /\ BagToSet(B (-) SetToBag({x})) \subseteq S
         /\ BagToSet(B) \ {x} \subseteq BagToSet(B (-) SetToBag({x}))
BY DEF IsABag, (-), SetToBag, BagToSet

\* A set of messages is a bag.
LEMMA BagOfSet ==
  ASSUME NEW S
  PROVE  IsABag(SetToBag(S)) /\ BagToSet(SetToBag(S)) = S
BY DEF IsABag, SetToBag, BagToSet

-----------------------------------------------------------------------------
(* The constants. *)

\* workerChan has a capacity.
LEMMA BufferSizeIsNat == BufferSize \in Nat
<1>1. Cardinality(Workers) \in Nat
  BY FS_CardinalityType, ConsumerAssumption
<1> QED
  BY <1>1 DEF BufferSize, Min2

\* The dead letter addresses are bound, and so is that of the payments.
LEMMA RoutesExist ==
  /\ ConsumerQueues = {"order_state_queue.dlq", "order_state_queue_dlq",
                       "order_state_queue"}
  /\ Route(ConsumerBindings, ConsumerDeadLetters) = {"order_state_queue.dlq"}
  /\ Route(ConsumerBindings, RetriesExceededAddress) = {"order_state_queue_dlq"}
  /\ Route(ConsumerBindings, PaymentCompletedAddress) = {"order_state_queue"}
<1> DEFINE D == ConsumerDeadLetters
           R == RetriesExceededAddress
           P == PaymentCompletedAddress
<1>1. D # R /\ D # P /\ R # P
  <2>1. /\ D.key = "order.state.dlq"
        /\ R.key = "order.state.payment.completed.dlq"
        /\ P.key = "order.state.payment.completed"
    BY DEF ConsumerDeadLetters, RetriesExceededAddress, PaymentCompletedAddress, Address
  <2> QED
    BY <2>1
<1>2. ConsumerBindings = {Binding("order_state_queue.dlq", D),
                          Binding("order_state_queue_dlq", R),
                          Binding("order_state_queue", P)}
  BY DEF ConsumerBindings, ConsumerDeadLetters
<1> HIDE DEF D, R, P
<1>3. ASSUME NEW q, NEW a
      PROVE  Binding(q, a).queue = q /\ Binding(q, a).at = a
  BY DEF Binding
<1>4. ConsumerQueues = {"order_state_queue.dlq", "order_state_queue_dlq",
                        "order_state_queue"}
  BY <1>2, <1>3 DEF ConsumerQueues
<1>5. Route(ConsumerBindings, D) = {"order_state_queue.dlq"}
  BY <1>1, <1>2, <1>3 DEF Route
<1>6. Route(ConsumerBindings, R) = {"order_state_queue_dlq"}
  BY <1>1, <1>2, <1>3 DEF Route
<1>7. Route(ConsumerBindings, P) = {"order_state_queue"}
  BY <1>1, <1>2, <1>3 DEF Route
<1> QED
  BY <1>4, <1>5, <1>6, <1>7 DEF D, R, P

-----------------------------------------------------------------------------
(* The broker's queues. *)

QueuesOK(Q) ==
  /\ DOMAIN Q = ConsumerQueues
  /\ \A q \in ConsumerQueues : IsABag(Q[q]) /\ BagToSet(Q[q]) \subseteq Contents

\* Nothing that is in a queue leaves it.
QueuesGrow(Q) ==
  \A q \in ConsumerQueues : BagToSet(queues[q]) \subseteq BagToSet(Q[q])

\* What is sent to one of the program's addresses is in a queue then.
LEMMA ArriveKeepsQueues ==
  ASSUME QueuesOK(queues), NEW x \in Contents,
         NEW at \in {ConsumerDeadLetters, RetriesExceededAddress,
                     PaymentCompletedAddress}
  PROVE  /\ QueuesOK(Arrive(x, at)) /\ QueuesGrow(Arrive(x, at))
         /\ \E q \in ConsumerQueues : x \in BagToSet(Arrive(x, at)[q])
<1>1. IsABag(SetToBag({x})) /\ BagToSet(SetToBag({x})) = {x}
  BY BagOfSet
<1>2. PICK u \in ConsumerQueues : u \in Route(ConsumerBindings, at)
  BY RoutesExist
<1>3. ASSUME NEW q \in ConsumerQueues
      PROVE  /\ IsABag(Arrive(x, at)[q])
             /\ BagToSet(Arrive(x, at)[q]) \subseteq Contents
             /\ BagToSet(queues[q]) \subseteq BagToSet(Arrive(x, at)[q])
             /\ q \in Route(ConsumerBindings, at) => x \in BagToSet(Arrive(x, at)[q])
  <2>1. CASE q \in Route(ConsumerBindings, at)
    <3>1. Arrive(x, at)[q] = queues[q] (+) SetToBag({x})
      BY <2>1 DEF Arrive
    <3>2. IsABag(queues[q]) /\ BagToSet(queues[q]) \subseteq Contents
      BY DEF QueuesOK
    <3>3. {x} \subseteq Contents
      OBVIOUS
    <3> QED
      BY <1>1, <3>1, <3>2, <3>3, BagAdd
  <2>2. CASE q \notin Route(ConsumerBindings, at)
    BY <2>2 DEF Arrive, QueuesOK
  <2> QED
    BY <2>1, <2>2
<1> QED
  BY <1>2, <1>3 DEF QueuesOK, QueuesGrow, Arrive

\* What goes back to the queue is there then.
LEMMA RequeuedKeepsQueues ==
  ASSUME QueuesOK(queues), NEW C, IsABag(C), BagToSet(C) \subseteq Contents
  PROVE  /\ QueuesOK(Requeued(C)) /\ QueuesGrow(Requeued(C))
         /\ \A x \in BagToSet(C) : \E q \in ConsumerQueues : x \in BagToSet(Requeued(C)[q])
<1>1. "order_state_queue" \in ConsumerQueues
  BY RoutesExist
<1>2. Requeued(C)["order_state_queue"] = queues["order_state_queue"] (+) C
  BY <1>1 DEF Requeued, QueuesOK
<1>3. \A q \in ConsumerQueues : q # "order_state_queue" => Requeued(C)[q] = queues[q]
  BY DEF Requeued, QueuesOK
<1>4. /\ IsABag(Requeued(C)["order_state_queue"])
      /\ BagToSet(Requeued(C)["order_state_queue"])
           = BagToSet(queues["order_state_queue"]) \cup BagToSet(C)
      /\ BagToSet(Requeued(C)["order_state_queue"]) \subseteq Contents
  BY <1>1, <1>2, BagAdd DEF QueuesOK
<1>5. DOMAIN Requeued(C) = ConsumerQueues
  BY DEF Requeued, QueuesOK
<1> QED
  BY <1>1, <1>3, <1>4, <1>5 DEF QueuesOK, QueuesGrow

\* Every delivery that is not settled has a message.
LEMMA UnsettledIsBag ==
  ASSUME unacked \in [Tags -> Contents \cup {None}]
  PROVE  /\ IsABag(Unsettled) /\ BagToSet(Unsettled) \subseteq Contents
         /\ \A t \in Tags : unacked[t] # None => unacked[t] \in BagToSet(Unsettled)
<1> DEFINE all == {t \in Tags : unacked[t] # None}
           under(x) == {t \in all : unacked[t] = x}
<1>1. ASSUME NEW x \in {unacked[t] : t \in all}
      PROVE  Cardinality(under(x)) \in {n \in Nat : n > 0}
  <2>1. IsFiniteSet(Tags)
    BY FS_Interval, ConsumerAssumption
  <2>2. IsFiniteSet(under(x))
    BY <2>1, FS_Subset, under(x) \subseteq Tags
  <2>3. under(x) # {}
    OBVIOUS
  <2>4. Cardinality(under(x)) \in Nat /\ Cardinality(under(x)) # 0
    BY <2>2, <2>3, FS_CardinalityType, FS_EmptySet
  <2> QED
    BY <2>4
<1>2. Unsettled = [x \in {unacked[t] : t \in all} |-> Cardinality(under(x))]
  BY DEF Unsettled
<1> HIDE DEF under
<1>3. IsABag(Unsettled)
  BY <1>1, <1>2 DEF IsABag
<1>4. BagToSet(Unsettled) = {unacked[t] : t \in all}
  BY <1>2 DEF BagToSet
<1> QED
  BY <1>3, <1>4

-----------------------------------------------------------------------------
(* Places, when a sequence gets longer or shorter. *)

\* A frame is sent.
LEMMA FrameSent ==
  ASSUME wire \in Seq(Publications \cup Settlements),
         NEW f \in Publications \cup Settlements, wire' = Append(wire, f), NEW t
  PROVE  IF f.kind = "settle" /\ f.tag = t
         THEN OnWireAt(t)' = OnWireAt(t) \cup {Len(wire) + 1}
         ELSE OnWireAt(t)' = OnWireAt(t)
BY DEF OnWireAt

\* The broker reads a frame.
LEMMA FrameRead ==
  ASSUME wire \in Seq(Publications \cup Settlements), wire # <<>>,
         wire' = Tail(wire), NEW t
  PROVE  IF Head(wire).kind = "settle" /\ Head(wire).tag = t
         THEN 1 \in OnWireAt(t) /\ (Lone(OnWireAt(t)) => OnWireAt(t)' = {})
         ELSE Alike(OnWireAt(t), OnWireAt(t)')
<1>1. Len(wire) \in Nat \ {0} /\ OnWireAt(t) \in SUBSET (1..Len(wire))
  BY DEF OnWireAt
<1>2. OnWireAt(t)' = {j \in 1..(Len(wire) - 1) : j + 1 \in OnWireAt(t)}
  BY <1>1 DEF OnWireAt
<1>3. 1 \in OnWireAt(t) <=> Head(wire).kind = "settle" /\ Head(wire).tag = t
  BY <1>1 DEF OnWireAt
<1> QED
  BY <1>1, <1>2, <1>3, ShiftedPlaces

\* A delivery is put into workerChan.
LEMMA DeliveryBuffered ==
  ASSUME buffer \in Seq(Deliveries), NEW d \in Deliveries,
         buffer' = Append(buffer, d), NEW t
  PROVE  IF Holds(d, t) THEN BufferedAt(t)' = BufferedAt(t) \cup {Len(buffer) + 1}
                        ELSE BufferedAt(t)' = BufferedAt(t)
BY DEF BufferedAt

\* A delivery is taken from workerChan.
LEMMA DeliveryTaken ==
  ASSUME buffer \in Seq(Deliveries), buffer # <<>>, buffer' = Tail(buffer), NEW t
  PROVE  IF Holds(Head(buffer), t)
         THEN 1 \in BufferedAt(t) /\ (Lone(BufferedAt(t)) => BufferedAt(t)' = {})
         ELSE Alike(BufferedAt(t), BufferedAt(t)')
<1>1. Len(buffer) \in Nat \ {0} /\ BufferedAt(t) \in SUBSET (1..Len(buffer))
  BY DEF BufferedAt
<1>2. BufferedAt(t)' = {j \in 1..(Len(buffer) - 1) : j + 1 \in BufferedAt(t)}
  BY <1>1 DEF BufferedAt
<1>3. 1 \in BufferedAt(t) <=> Holds(Head(buffer), t)
  BY <1>1 DEF BufferedAt
<1> QED
  BY <1>1, <1>2, <1>3, ShiftedPlaces

\* The client library gets a delivery, and hands one out.
LEMMA DeliveryPrefetched ==
  ASSUME prefetched \in Seq(Tags), NEW u \in Tags,
         prefetched' = Append(prefetched, u), NEW t
  PROVE  IF u = t THEN PrefetchedAt(t)' = PrefetchedAt(t) \cup {Len(prefetched) + 1}
                  ELSE PrefetchedAt(t)' = PrefetchedAt(t)
BY DEF PrefetchedAt

LEMMA DeliveryHandedOut ==
  ASSUME prefetched \in Seq(Tags), prefetched # <<>>,
         prefetched' = Tail(prefetched), NEW t
  PROVE  IF Head(prefetched) = t
         THEN 1 \in PrefetchedAt(t) /\ (Lone(PrefetchedAt(t)) => PrefetchedAt(t)' = {})
         ELSE Alike(PrefetchedAt(t), PrefetchedAt(t)')
<1>1. Len(prefetched) \in Nat \ {0} /\ PrefetchedAt(t) \in SUBSET (1..Len(prefetched))
  BY DEF PrefetchedAt
<1>2. PrefetchedAt(t)' = {j \in 1..(Len(prefetched) - 1) : j + 1 \in PrefetchedAt(t)}
  BY <1>1 DEF PrefetchedAt
<1>3. 1 \in PrefetchedAt(t) <=> Head(prefetched) = t
  BY <1>1 DEF PrefetchedAt
<1> QED
  BY <1>1, <1>2, <1>3, ShiftedPlaces

-----------------------------------------------------------------------------
(* Places, when deliveries stay or go. *)

\* A step leaves the delivery under tag t, or the absence of one, where it was.
Unmoved(t) ==
  /\ unacked'[t] = None <=> unacked[t] = None
  /\ Alike(WorkersWith(t), WorkersWith(t)')
  /\ Alike(BufferedAt(t), BufferedAt(t)')
  /\ Alike(OnWireAt(t), OnWireAt(t)')
  /\ Alike(PrefetchedAt(t), PrefetchedAt(t)')
  /\ Alike(AtReceiver(t), AtReceiver(t)')

InPlace(t) == IF unacked[t] = None THEN InNoPlace(t) ELSE InOnePlace(t)

\* What stays where it was is still in one place.
LEMMA UnmovedInPlace ==
  ASSUME NEW t \in Tags, InPlace(t), Unmoved(t)
  PROVE  InPlace(t)'
BY DEF InPlace, InNoPlace, InOnePlace, Unmoved, Alike

\* Nothing moves where nothing changes.
LEMMA PlacesUnchanged ==
  ASSUME NEW t
  PROVE  /\ UNCHANGED hold => WorkersWith(t)' = WorkersWith(t)
         /\ UNCHANGED buffer => BufferedAt(t)' = BufferedAt(t)
         /\ UNCHANGED wire => OnWireAt(t)' = OnWireAt(t)
         /\ UNCHANGED prefetched => PrefetchedAt(t)' = PrefetchedAt(t)
         /\ UNCHANGED inHand => AtReceiver(t)' = AtReceiver(t)
BY DEF WorkersWith, BufferedAt, OnWireAt, PrefetchedAt, AtReceiver

LEMMA AlikeSame == ASSUME NEW S PROVE Alike(S, S)
BY DEF Alike

\* A live delivery is unsettled, and in the one place where it is seen.
LEMMA SeenIsUnsettled ==
  ASSUME NEW t \in Tags, InPlace(t),
         \/ WorkersWith(t) # {} \/ BufferedAt(t) # {} \/ OnWireAt(t) # {}
         \/ PrefetchedAt(t) # {} \/ AtReceiver(t) # {}
  PROVE  /\ unacked[t] # None
         /\ WorkersWith(t) # {} =>
              /\ Lone(WorkersWith(t)) /\ BufferedAt(t) = {} /\ OnWireAt(t) = {}
              /\ PrefetchedAt(t) = {} /\ AtReceiver(t) = {}
         /\ BufferedAt(t) # {} =>
              /\ WorkersWith(t) = {} /\ Lone(BufferedAt(t)) /\ OnWireAt(t) = {}
              /\ PrefetchedAt(t) = {} /\ AtReceiver(t) = {}
         /\ OnWireAt(t) # {} =>
              /\ WorkersWith(t) = {} /\ BufferedAt(t) = {} /\ Lone(OnWireAt(t))
              /\ PrefetchedAt(t) = {} /\ AtReceiver(t) = {}
         /\ PrefetchedAt(t) # {} =>
              /\ WorkersWith(t) = {} /\ BufferedAt(t) = {} /\ OnWireAt(t) = {}
              /\ Lone(PrefetchedAt(t)) /\ AtReceiver(t) = {}
         /\ AtReceiver(t) # {} =>
              /\ WorkersWith(t) = {} /\ BufferedAt(t) = {} /\ OnWireAt(t) = {}
              /\ PrefetchedAt(t) = {} /\ Lone(AtReceiver(t))
BY DEF InPlace, InNoPlace, InOnePlace, Lone

\* A delivery is not held under a tag that it does not have.
LEMMA HoldsItsTag ==
  ASSUME NEW d \in Deliveries
  PROVE  /\ d # None
         /\ d.tag = None => \A t \in Tags : ~ Holds(d, t)
         /\ d.tag # None => d.tag \in Tags
         /\ \A t : Holds(d, t) <=> d.tag = t
BY NoneAssumption DEF Holds, Deliveries

-----------------------------------------------------------------------------
(* The start. *)

LEMMA InitPlaced == Init => Placed
<1> SUFFICES ASSUME Init PROVE Placed
  OBVIOUS
<1> USE DEF Init
<1>1. [msg : Messages, retry : {0}] \subseteq Contents
  BY DEF Contents, RetryLimit
<1>2. \A q \in ConsumerQueues : IsABag(queues[q]) /\ BagToSet(queues[q]) \subseteq Contents
  <2>1. SetToBag({}) = EmptyBag
    BY DEF EmptyBag
  <2> QED
    BY <1>1, <2>1, BagOfSet
<1>3. TypeOK
  <2>1. /\ wire \in Seq(Publications \cup Settlements) /\ Len(wire) <= MaxWire
        /\ prefetched \in Seq(Tags) /\ Len(prefetched) <= Prefetch
        /\ buffer \in Seq(Deliveries) /\ Len(buffer) <= BufferSize
    BY ConsumerAssumption, BufferSizeIsNat
  <2>2. DOMAIN queues = ConsumerQueues /\ unacked \in [Tags -> Contents \cup {None}]
    OBVIOUS
  <2> QED
    BY <1>2, <2>1, <2>2 DEF TypeOK
<1>4. HandsMatch
  BY DEF HandsMatch, Running
<1>5. TagsInPlace
  BY DEF TagsInPlace, InNoPlace, WorkersWith, BufferedAt, OnWireAt, PrefetchedAt,
         AtReceiver, Holds
<1>6. HoldsWhatIsUnsettled
  BY DEF HoldsWhatIsUnsettled, Faithful
<1> QED
  BY <1>3, <1>4, <1>5, <1>6 DEF Placed

-----------------------------------------------------------------------------
(* The broker. *)

\* The broker reads a publication, or settles the delivery that a frame names.
LEMMA ReceivePlaced ==
  ASSUME Placed, Receive
  PROVE  Placed'
<1> USE DEF Placed
<1> DEFINE f == Head(wire)
<1>1. /\ wire \in Seq(Publications \cup Settlements) /\ wire # <<>>
      /\ f \in Publications \cup Settlements /\ wire' = Tail(wire)
      /\ wire' \in Seq(Publications \cup Settlements) /\ Len(wire') <= MaxWire
  <2>1. /\ wire \in Seq(Publications \cup Settlements) /\ wire # <<>>
        /\ wire' = Tail(wire) /\ Len(wire) <= MaxWire
    BY DEF Receive, TypeOK
  <2> QED
    BY <2>1, ConsumerAssumption
<1>2. UNCHANGED <<channel, prefetched, receiverVars, buffer, workerVars, process>>
  BY DEF Receive
<1>3. HandsMatch'
  BY <1>2 DEF HandsMatch, Running
<1>4. \A t \in Tags : InPlace(t)
  BY DEF TagsInPlace, InPlace
<1>5. CASE f.kind = "publish" /\ ReceivePublication(f)
  <2>1. f \in Publications
    BY <1>1, <1>5 DEF Settlements
  <2>2. QueuesOK(queues)'
    BY <1>5, <2>1, ArriveKeepsQueues DEF ReceivePublication, Publications, TypeOK, QueuesOK
  <2>3. TypeOK'
    BY <1>1, <1>2, <1>5, <2>2 DEF TypeOK, QueuesOK, ReceivePublication
  <2>4. ASSUME NEW t \in Tags PROVE InPlace(t)'
    <3>1. Alike(OnWireAt(t), OnWireAt(t)')
      BY <1>1, <1>5, FrameRead
    <3>2. Unmoved(t)
      BY <1>2, <1>5, <3>1, PlacesUnchanged, AlikeSame DEF Unmoved, ReceivePublication
    <3> QED
      BY <1>4, <3>2, UnmovedInPlace
  <2>5. HoldsWhatIsUnsettled'
    BY <1>2, <1>5 DEF HoldsWhatIsUnsettled, Faithful, ReceivePublication
  <2> QED
    BY <1>3, <2>3, <2>4, <2>5 DEF TagsInPlace, InPlace
<1>6. CASE f.kind = "settle" /\ ReceiveSettlement(f)
  <2> DEFINE u == f.tag
  <2>1. u \in Tags /\ f.by \in {"ack", "requeue", "reject"}
    BY <1>1, <1>6 DEF Publications, Settlements
  <2>2. 1 \in OnWireAt(u)
    BY <1>1, <1>6 DEF OnWireAt
  <2>3. /\ unacked[u] # None /\ Lone(OnWireAt(u))
        /\ WorkersWith(u) = {} /\ BufferedAt(u) = {}
        /\ PrefetchedAt(u) = {} /\ AtReceiver(u) = {}
    BY <1>4, <2>1, <2>2, SeenIsUnsettled
  <2>4. unacked[u] \in Contents /\ unacked' = [unacked EXCEPT ![u] = None]
    BY <1>6, <2>1, <2>3 DEF TypeOK, ReceiveSettlement
  <2>5. QueuesOK(queues)'
    <3>1. QueuesOK(queues)
      BY DEF TypeOK, QueuesOK
    <3>2. CASE f.by = "ack"
      BY <1>6, <3>1, <3>2 DEF ReceiveSettlement
    <3>3. CASE f.by = "requeue"
      <4>1. queues' = Requeued(SetToBag({unacked[u]}))
        BY <1>6, <3>3 DEF ReceiveSettlement
      <4>2. /\ IsABag(SetToBag({unacked[u]}))
            /\ BagToSet(SetToBag({unacked[u]})) \subseteq Contents
        BY <2>4, BagOfSet
      <4> QED
        BY <3>1, <4>1, <4>2, RequeuedKeepsQueues
    <3>4. CASE f.by = "reject"
      <4>1. queues' = Arrive(unacked[u], ConsumerDeadLetters)
        BY <1>6, <3>4 DEF ReceiveSettlement
      <4> QED
        BY <2>4, <3>1, <4>1, ArriveKeepsQueues
    <3> QED
      BY <2>1, <3>2, <3>3, <3>4
  <2>6. TypeOK'
    BY <1>1, <1>2, <2>4, <2>5 DEF TypeOK, QueuesOK
  <2>7. ASSUME NEW t \in Tags PROVE InPlace(t)'
    <3>1. CASE t = u
      <4>1. OnWireAt(t)' = {}
        BY <1>1, <1>6, <2>3, <3>1, FrameRead
      <4>2. unacked'[t] = None
        BY <2>4, <3>1 DEF TypeOK
      <4> QED
        BY <1>2, <2>3, <3>1, <4>1, <4>2, PlacesUnchanged DEF InPlace, InNoPlace
    <3>2. CASE t # u
      <4>1. Alike(OnWireAt(t), OnWireAt(t)')
        BY <1>1, <3>2, FrameRead
      <4>2. unacked'[t] = unacked[t]
        BY <2>4, <3>2 DEF TypeOK
      <4>3. Unmoved(t)
        BY <1>2, <4>1, <4>2, PlacesUnchanged, AlikeSame DEF Unmoved
      <4> QED
        BY <1>4, <4>3, UnmovedInPlace
    <3> QED
      BY <3>1, <3>2
  <2>8. HoldsWhatIsUnsettled'
    <3>1. ASSUME NEW d, Faithful(d), ~ Holds(d, u)
          PROVE  d # None /\ d.tag # None => d.of = unacked'[d.tag]
      BY <2>4, <3>1 DEF Faithful, Holds, TypeOK
    <3>2. \A w \in Workers : ~ Holds(hold[w], u)
      BY <2>3 DEF WorkersWith
    <3>3. \A i \in DOMAIN buffer : ~ Holds(buffer[i], u)
      BY <2>3 DEF BufferedAt
    <3>4. ~ Holds(inHand, u)
      BY <2>3 DEF AtReceiver
    <3> QED
      BY <1>2, <3>1, <3>2, <3>3, <3>4 DEF HoldsWhatIsUnsettled, Faithful
  <2> QED
    BY <1>3, <2>6, <2>7, <2>8 DEF TagsInPlace, InPlace
<1> QED
  BY <1>5, <1>6 DEF Receive

\* The client library holds at most one delivery per tag, so no more of them
\* than the prefetch window allows.
LEMMA PrefetchedFits ==
  ASSUME NEW s \in Seq(Tags),
         \A i, j \in 1..Len(s) : s[i] = s[j] => i = j
  PROVE  Len(s) <= Prefetch
<1> SUFFICES ASSUME Len(s) > Prefetch PROVE FALSE
  BY ConsumerAssumption
<1>1. PICK n \in Nat : n = Len(s) /\ s \in [1..n -> Tags]
  BY LenProperties
<1>2. n > Prefetch /\ Prefetch \in Nat
  BY <1>1, ConsumerAssumption
<1>3. IsFiniteSet(1..n) /\ Cardinality(1..n) = n
  <2>1. Cardinality(1..n) = IF 1 > n THEN 0 ELSE n - 1 + 1
    BY FS_Interval
  <2>2. IsFiniteSet(1..n)
    BY FS_Interval
  <2> QED
    BY <1>2, <2>1, <2>2
<1>4. IsFiniteSet(Tags) /\ Cardinality(Tags) = Prefetch
  BY FS_Interval, ConsumerAssumption
<1>5. \E i, j \in 1..n : i # j /\ s[i] = s[j]
  <2>1. Cardinality(Tags) < Cardinality(1..n)
    BY <1>2, <1>3, <1>4
  <2> QED
    BY <1>1, <1>3, <1>4, <2>1, FS_PigeonHole
<1> QED
  BY <1>1, <1>5

\* The broker delivers a message under the lowest free tag.
LEMMA DeliverPlaced ==
  ASSUME Placed, NEW x \in BagToSet(queues["order_state_queue"]), Deliver(x)
  PROVE  Placed'
<1> USE DEF Placed
<1>1. PICK u \in Tags : /\ unacked[u] = None
                        /\ unacked' = [unacked EXCEPT ![u] = x]
                        /\ prefetched' = Append(prefetched, u)
  BY DEF Deliver
<1>2. /\ UNCHANGED <<wire, channel, receiverVars, buffer, workerVars, process>>
      /\ queues' = [queues EXCEPT !["order_state_queue"] = @ (-) SetToBag({x})]
  BY DEF Deliver
<1>3. HandsMatch'
  BY <1>2 DEF HandsMatch, Running
<1>4. /\ \A t \in Tags : InPlace(t)
      /\ QueuesOK(queues) /\ unacked \in [Tags -> Contents \cup {None}]
      /\ prefetched \in Seq(Tags)
  BY DEF TagsInPlace, InPlace, QueuesOK, TypeOK
<1>5. InNoPlace(u)
  BY <1>1, <1>4 DEF InPlace
<1>6. x \in Contents /\ x # None
  BY <1>4, RoutesExist, NoneAssumption DEF QueuesOK
<1>7. /\ unacked'[u] = x /\ unacked' \in [Tags -> Contents \cup {None}]
      /\ \A t \in Tags : t # u => unacked'[t] = unacked[t]
  BY <1>1, <1>4, <1>6
<1>8. ASSUME NEW t \in Tags PROVE InPlace(t)'
  <2>1. CASE t = u
    <3>1. PrefetchedAt(t)' = {Len(prefetched) + 1}
      BY <1>1, <1>4, <1>5, <2>1, DeliveryPrefetched DEF InNoPlace
    <3> QED
      BY <1>2, <1>5, <1>6, <1>7, <2>1, <3>1, PlacesUnchanged
         DEF InPlace, InNoPlace, InOnePlace, Lone
  <2>2. CASE t # u
    <3>1. PrefetchedAt(t)' = PrefetchedAt(t)
      BY <1>1, <1>4, <2>2, DeliveryPrefetched
    <3>2. Unmoved(t)
      BY <1>2, <1>7, <2>2, <3>1, PlacesUnchanged, AlikeSame DEF Unmoved
    <3> QED
      BY <1>4, <3>2, UnmovedInPlace
  <2> QED
    BY <2>1, <2>2
<1>9. TypeOK'
  <2>1. QueuesOK(queues)'
    <3>1. /\ queues'["order_state_queue"] = queues["order_state_queue"] (-) SetToBag({x})
          /\ \A q \in ConsumerQueues : q # "order_state_queue" => queues'[q] = queues[q]
          /\ DOMAIN queues' = ConsumerQueues
      BY <1>2, <1>4, RoutesExist DEF QueuesOK
    <3>2. /\ IsABag(queues["order_state_queue"])
          /\ BagToSet(queues["order_state_queue"]) \subseteq Contents
      BY <1>4, RoutesExist DEF QueuesOK
    <3>3. /\ IsABag(queues'["order_state_queue"])
          /\ BagToSet(queues'["order_state_queue"]) \subseteq Contents
      <4> DEFINE B == queues["order_state_queue"]
      <4> HIDE DEF B
      <4>1. IsABag(B) /\ BagToSet(B) \subseteq Contents
        BY <3>2 DEF B
      <4>2. /\ IsABag(B (-) SetToBag({x}))
            /\ BagToSet(B (-) SetToBag({x})) \subseteq Contents
        BY <4>1, BagRemove
      <4> QED
        BY <3>1, <4>2 DEF B
    <3> QED
      BY <1>4, <3>1, <3>3 DEF QueuesOK
  <2>2. prefetched' \in Seq(Tags)
    BY <1>1, <1>4
  <2>3. \A t \in Tags : Lone(PrefetchedAt(t)') \/ PrefetchedAt(t)' = {}
    BY <1>8 DEF InPlace, InNoPlace, InOnePlace
  <2>4. \A i, j \in 1..Len(prefetched') : prefetched'[i] = prefetched'[j] => i = j
    <3> SUFFICES ASSUME NEW i \in 1..Len(prefetched'), NEW j \in 1..Len(prefetched'),
                        prefetched'[i] = prefetched'[j]
                 PROVE  i = j
      OBVIOUS
    <3>1. PICK t \in Tags : prefetched'[i] = t
      BY <2>2, ElementOfSeq
    <3>2. i \in PrefetchedAt(t)' /\ j \in PrefetchedAt(t)'
      BY <2>2, <3>1, LenProperties DEF PrefetchedAt
    <3> QED
      BY <2>3, <3>2 DEF Lone
  <2>5. Len(prefetched') <= Prefetch
    BY <2>2, <2>4, PrefetchedFits
  <2> QED
    BY <1>2, <1>7, <2>1, <2>2, <2>5 DEF TypeOK, QueuesOK
<1>10. HoldsWhatIsUnsettled'
  <2>1. ASSUME NEW d, Faithful(d), ~ Holds(d, u)
        PROVE  d # None /\ d.tag # None => d.of = unacked'[d.tag]
    BY <1>1, <2>1 DEF Faithful, Holds, TypeOK
  <2>2. /\ \A w \in Workers : ~ Holds(hold[w], u)
        /\ \A i \in DOMAIN buffer : ~ Holds(buffer[i], u)
        /\ ~ Holds(inHand, u)
    BY <1>5 DEF InNoPlace, WorkersWith, BufferedAt, AtReceiver
  <2> QED
    BY <1>2, <2>1, <2>2 DEF HoldsWhatIsUnsettled, Faithful
<1> QED
  BY <1>3, <1>8, <1>9, <1>10 DEF TagsInPlace, InPlace

-----------------------------------------------------------------------------
(* The connection and the process. *)

\* What is unsettled goes back to the queue, and nothing is on its way.
LEMMA LoseConnectionType ==
  ASSUME TypeOK, LoseConnection
  PROVE  /\ QueuesOK(queues)' /\ QueuesGrow(queues')
         /\ \A t \in Tags : unacked[t] # None =>
              \E q \in ConsumerQueues : unacked[t] \in BagToSet(queues'[q])
         /\ unacked' \in [Tags -> Contents \cup {None}]
         /\ wire' \in Seq(Publications \cup Settlements) /\ Len(wire') <= MaxWire
         /\ prefetched' \in Seq(Tags) /\ Len(prefetched') <= Prefetch
         /\ consuming' \in BOOLEAN
         /\ \A t \in Tags : /\ unacked'[t] = None /\ OnWireAt(t)' = {}
                            /\ PrefetchedAt(t)' = {}
<1>1. QueuesOK(queues) /\ unacked \in [Tags -> Contents \cup {None}]
  BY DEF TypeOK, QueuesOK
<1>2. queues' = Requeued(Unsettled)
  BY DEF LoseConnection
<1>3. /\ wire' = <<>> /\ prefetched' = <<>>
      /\ unacked' = [t \in Tags |-> None] /\ consuming' = FALSE
  BY DEF LoseConnection
<1>4. /\ wire' \in Seq(Publications \cup Settlements) /\ Len(wire') <= MaxWire
      /\ prefetched' \in Seq(Tags) /\ Len(prefetched') <= Prefetch
  BY <1>3, ConsumerAssumption
<1>5. \A t \in Tags : OnWireAt(t)' = {} /\ PrefetchedAt(t)' = {}
  BY <1>3 DEF OnWireAt, PrefetchedAt
<1>6. QueuesOK(queues)' /\ QueuesGrow(queues')
  BY <1>1, <1>2, UnsettledIsBag, RequeuedKeepsQueues
<1>7. \A t \in Tags : unacked[t] # None =>
        \E q \in ConsumerQueues : unacked[t] \in BagToSet(queues'[q])
  BY <1>1, <1>2, UnsettledIsBag, RequeuedKeepsQueues
<1> QED
  BY <1>3, <1>4, <1>5, <1>6, <1>7

\* A stale delivery is under no tag.
LEMMA StaleHasNoTag ==
  ASSUME NEW d \in Deliveries \cup {None}
  PROVE  /\ Stale(d) \in Deliveries \cup {None}
         /\ d \in Deliveries => Stale(d) \in Deliveries
         /\ Stale(d) = None <=> d = None
         /\ Faithful(Stale(d))'
         /\ \A t \in Tags : ~ Holds(Stale(d), t)
<1>1. CASE d = None
  BY <1>1, NoneAssumption DEF Stale, Faithful, Holds
<1>2. CASE d \in Deliveries
  <2>1. d # None
    BY <1>2, NoneAssumption
  <2>2. Stale(d) = [tag |-> None, of |-> d.of] /\ d.of \in Contents
    BY <1>2, <2>1 DEF Stale, Deliveries
  <2>3. Stale(d) \in Deliveries /\ Stale(d).tag = None
    BY <2>2 DEF Deliveries
  <2>4. Stale(d) # None
    BY <2>3, NoneAssumption
  <2> QED
    BY <1>2, <2>1, <2>3, <2>4, NoneAssumption DEF Faithful, Holds
<1> QED
  BY <1>1, <1>2

\* The connection breaks; goroutines keep what they have.
LEMMA ConnectionLostPlaced ==
  ASSUME Placed, ConnectionLost
  PROVE  Placed'
<1> USE DEF Placed
<1>1. /\ LoseConnection /\ channel' = "closed"
      /\ inHand' = Stale(inHand)
      /\ buffer' = [i \in DOMAIN buffer |-> Stale(buffer[i])]
      /\ hold' = [w \in Workers |-> Stale(hold[w])]
      /\ UNCHANGED <<receiver, worker, orphans, done, process>>
  BY DEF ConnectionLost
<1>2. /\ inHand \in Deliveries \cup {None} /\ buffer \in Seq(Deliveries)
      /\ Len(buffer) <= BufferSize
      /\ hold \in [Workers -> Deliveries \cup {None}]
  BY DEF TypeOK
<1>3. buffer' \in Seq(Deliveries) /\ Len(buffer') = Len(buffer)
      /\ DOMAIN buffer' = DOMAIN buffer
  <2>1. \A i \in DOMAIN buffer : Stale(buffer[i]) \in Deliveries
    BY <1>2, StaleHasNoTag
  <2> QED
    BY <1>1, <1>2, <2>1
<1>4. TypeOK'
  <2>1. inHand' \in Deliveries \cup {None} /\ hold' \in [Workers -> Deliveries \cup {None}]
    BY <1>1, <1>2, StaleHasNoTag
  <2> QED
    BY <1>1, <1>2, <1>3, <2>1, LoseConnectionType DEF TypeOK, QueuesOK
<1>5. HandsMatch'
  BY <1>1, <1>2, StaleHasNoTag DEF HandsMatch, Running
<1>6. TagsInPlace'
  <2> SUFFICES ASSUME NEW t \in Tags PROVE unacked'[t] = None /\ InNoPlace(t)'
    BY DEF TagsInPlace
  <2>1. WorkersWith(t)' = {} /\ AtReceiver(t)' = {}
    BY <1>1, <1>2, StaleHasNoTag DEF WorkersWith, AtReceiver
  <2>2. BufferedAt(t)' = {}
    BY <1>1, <1>2, <1>3, StaleHasNoTag DEF BufferedAt
  <2> QED
    BY <1>1, <2>1, <2>2, LoseConnectionType DEF InNoPlace
<1>7. HoldsWhatIsUnsettled'
  <2>1. (\A i \in DOMAIN buffer : Faithful(buffer[i]))'
    BY <1>1, <1>2, <1>3, StaleHasNoTag
  <2>2. Faithful(inHand)'
    BY <1>1, <1>2, StaleHasNoTag
  <2>3. \A w \in Workers : Faithful(hold[w])'
    BY <1>1, <1>2, StaleHasNoTag
  <2> QED
    BY <2>1, <2>2, <2>3 DEF HoldsWhatIsUnsettled, Faithful
<1> QED
  BY <1>4, <1>5, <1>6, <1>7

\* The process ends.
LEMMA ExitPlaced ==
  ASSUME Placed, NEW p \in {"stopped", "down"}, Exit(p)
  PROVE  Placed'
<1> USE DEF Placed
<1>1. /\ LoseConnection /\ channel' = "closed"
      /\ receiver' = "stopped" /\ inHand' = None /\ buffer' = <<>>
      /\ worker' = [w \in Workers |-> "stopped"]
      /\ hold' = [w \in Workers |-> None]
      /\ orphans' = {} /\ process' = p /\ UNCHANGED done
  BY DEF Exit
<1>2. TypeOK'
  <2>1. buffer' \in Seq(Deliveries) /\ Len(buffer') <= BufferSize
    BY <1>1, BufferSizeIsNat
  <2> QED
    BY <1>1, <2>1, LoseConnectionType DEF TypeOK, QueuesOK
<1>3. HandsMatch'
  BY <1>1 DEF HandsMatch, Running
<1>4. TagsInPlace'
  BY <1>1, LoseConnectionType
     DEF TagsInPlace, InNoPlace, WorkersWith, BufferedAt, AtReceiver, Holds
<1>5. HoldsWhatIsUnsettled'
  BY <1>1 DEF HoldsWhatIsUnsettled, Faithful
<1> QED
  BY <1>2, <1>3, <1>4, <1>5

\* A step that moves no delivery.
LEMMA QuietPlaced ==
  ASSUME Placed, TypeOK', HandsMatch',
         UNCHANGED <<unacked, wire, prefetched, inHand, buffer, hold>>
  PROVE  Placed'
<1>1. ASSUME NEW t \in Tags PROVE InPlace(t)'
  <2>1. InPlace(t)
    BY DEF Placed, TagsInPlace, InPlace
  <2>2. Unmoved(t)
    BY PlacesUnchanged, AlikeSame DEF Unmoved
  <2> QED
    BY <2>1, <2>2, UnmovedInPlace
<1>2. HoldsWhatIsUnsettled'
  BY DEF Placed, HoldsWhatIsUnsettled, Faithful
<1> QED
  BY <1>1, <1>2 DEF Placed, TagsInPlace, InPlace

\* The process stops, or starts again; an orphaned handler returns; the
\* receiver or a worker goes round its loop.
LEMMA RestPlaced ==
  ASSUME Placed,
         \/ Stop \/ Restart \/ consumeMessages \/ reconnect \/ ReceiverStops
         \/ \E m \in Messages : OrphanReturns(m)
         \/ \E w \in Workers : WorkerStops(w)
  PROVE  Placed'
<1> USE DEF Placed
<1>1. CASE Stop
  BY <1>1, QuietPlaced DEF Stop, TypeOK, HandsMatch, Running
<1>2. CASE Restart
  BY <1>2, QuietPlaced DEF Restart, TypeOK, HandsMatch, Running
<1>3. CASE consumeMessages
  BY <1>3, QuietPlaced DEF consumeMessages, TypeOK, HandsMatch, Running
<1>4. CASE reconnect
  BY <1>4, QuietPlaced DEF reconnect, setupChannel, TypeOK, HandsMatch, Running
<1>5. CASE ReceiverStops
  BY <1>5, QuietPlaced DEF ReceiverStops, TypeOK, HandsMatch, Running
<1>6. CASE \E m \in Messages : OrphanReturns(m)
  BY <1>6, QuietPlaced DEF OrphanReturns, TypeOK, HandsMatch, Running
<1>7. CASE \E w \in Workers : WorkerStops(w)
  BY <1>7, QuietPlaced DEF WorkerStops, Become, TypeOK, HandsMatch, Running
<1> QED
  BY <1>1, <1>2, <1>3, <1>4, <1>5, <1>6, <1>7

-----------------------------------------------------------------------------
(* The receiver. *)

\* A settlement frame, if there is one, is for the broker to read.
LEMMA SettleType ==
  ASSUME TypeOK, NEW d \in Deliveries, NEW by \in {"ack", "requeue", "reject"},
         Settle(d, by)
  PROVE  /\ wire' \in Seq(Publications \cup Settlements) /\ Len(wire') <= MaxWire
         /\ \A t \in Tags : ~ Holds(d, t) => OnWireAt(t)' = OnWireAt(t)
         /\ \A t \in Tags : Holds(d, t) =>
              OnWireAt(t)' = OnWireAt(t) \cup {Len(wire) + 1}
<1> DEFINE f == [kind |-> "settle", tag |-> d.tag, by |-> by]
<1>1. wire \in Seq(Publications \cup Settlements) /\ Len(wire) <= MaxWire
  BY DEF TypeOK
<1>2. CASE d.tag = None
  <2>1. wire' = wire
    BY <1>2 DEF Settle
  <2> QED
    BY <1>1, <1>2, <2>1, HoldsItsTag, PlacesUnchanged
<1>3. CASE d.tag # None
  <2>1. wire' = Append(wire, f) /\ Len(wire) < MaxWire
    BY <1>3 DEF Settle
  <2>2. f \in Settlements /\ f.kind = "settle" /\ f.tag = d.tag
    BY <1>3, HoldsItsTag DEF Settlements
  <2>3. /\ wire' \in Seq(Publications \cup Settlements)
        /\ Len(wire') = Len(wire) + 1
    BY <1>1, <2>1, <2>2
  <2>4. Len(wire') <= MaxWire
    BY <1>1, <2>1, <2>3, ConsumerAssumption
  <2> HIDE DEF f
  <2>5. \A t \in Tags : IF d.tag = t
                        THEN OnWireAt(t)' = OnWireAt(t) \cup {Len(wire) + 1}
                        ELSE OnWireAt(t)' = OnWireAt(t)
    BY <1>1, <2>1, <2>2, FrameSent
  <2> QED
    BY <2>3, <2>4, <2>5, HoldsItsTag
<1> QED
  BY <1>2, <1>3

\* The delivery that the receiver has in its hands, from the channel or from
\* its wait, and what becomes of it.
Moved(d) ==
  \/ process = "up" /\ Enqueue(d)
  \/ receiver' = "full" /\ inHand' = d /\ UNCHANGED <<buffer, wire>>
  \/ Refuse(d, "range") \/ Refuse(d, "stopped")

LEMMA ReceiverTakes ==
  ASSUME Placed, messageReceiver
  PROVE  /\ prefetched' \in Seq(Tags) /\ Len(prefetched') <= Prefetch
         /\ \E d \in Deliveries :
              /\ Moved(d) /\ Faithful(d)
              /\ \A t \in Tags : ~ Holds(d, t) =>
                   /\ AtReceiver(t) = {}
                   /\ Alike(PrefetchedAt(t), PrefetchedAt(t)')
              /\ \A t \in Tags : Holds(d, t) =>
                   /\ unacked[t] # None /\ PrefetchedAt(t)' = {}
                   /\ WorkersWith(t) = {} /\ BufferedAt(t) = {} /\ OnWireAt(t) = {}
<1> USE DEF Placed
<1>1. /\ \A t \in Tags : InPlace(t)
      /\ prefetched \in Seq(Tags) /\ Len(prefetched) <= Prefetch
      /\ unacked \in [Tags -> Contents \cup {None}]
      /\ inHand \in Deliveries \cup {None}
  BY DEF TagsInPlace, InPlace, TypeOK
<1>2. CASE /\ receiver = "range" /\ prefetched # <<>>
           /\ Place(Delivery(Head(prefetched)))
           /\ prefetched' = Tail(prefetched)
  <2>1. PICK u \in Tags : u = Head(prefetched)
    BY <1>1, <1>2, HeadTailProperties
  <2> DEFINE d == Delivery(u)
  <2>2. 1 \in PrefetchedAt(u)
    BY <1>1, <1>2, <2>1 DEF PrefetchedAt
  <2>3. /\ unacked[u] # None /\ Lone(PrefetchedAt(u))
        /\ WorkersWith(u) = {} /\ BufferedAt(u) = {} /\ OnWireAt(u) = {}
    BY <1>1, <2>2, SeenIsUnsettled
  <2>4. d \in Deliveries /\ d.tag = u /\ d.of = unacked[u]
    BY <1>1, <2>3 DEF Delivery, Deliveries
  <2>5. Moved(d)
    BY <1>2, <2>1 DEF Moved, Place
  <2>6. inHand = None
    BY <1>2 DEF HandsMatch
  <2> HIDE DEF d
  <2>7. \A t \in Tags : ~ Holds(d, t) =>
          AtReceiver(t) = {} /\ Alike(PrefetchedAt(t), PrefetchedAt(t)')
    BY <1>1, <1>2, <2>1, <2>4, <2>6, DeliveryHandedOut, HoldsItsTag
       DEF AtReceiver, Holds
  <2>8. PrefetchedAt(u)' = {}
    BY <1>1, <1>2, <2>1, <2>3, DeliveryHandedOut
  <2>9. \A t \in Tags : Holds(d, t) => t = u
    BY <2>4, HoldsItsTag
  <2>10. prefetched' \in Seq(Tags) /\ Len(prefetched') <= Prefetch
    BY <1>1, <1>2, ConsumerAssumption
  <2>11. Faithful(d)
    BY <2>4 DEF Faithful
  <2> QED
    BY <2>3, <2>4, <2>5, <2>7, <2>8, <2>9, <2>10, <2>11
<1>3. CASE receiver = "full" /\ WaitForPlace(inHand) /\ UNCHANGED prefetched
  <2>1. inHand \in Deliveries /\ inHand # None
    BY <1>1, <1>3 DEF HandsMatch
  <2>2. Moved(inHand)
    BY <1>3 DEF Moved, WaitForPlace
  <2>3. \A t \in Tags : ~ Holds(inHand, t) =>
          AtReceiver(t) = {} /\ Alike(PrefetchedAt(t), PrefetchedAt(t)')
    BY <1>3, PlacesUnchanged, AlikeSame DEF AtReceiver
  <2>4. \A t \in Tags : Holds(inHand, t) =>
          /\ unacked[t] # None /\ PrefetchedAt(t)' = {}
          /\ WorkersWith(t) = {} /\ BufferedAt(t) = {} /\ OnWireAt(t) = {}
    <3> SUFFICES ASSUME NEW t \in Tags, Holds(inHand, t)
                 PROVE  /\ unacked[t] # None /\ PrefetchedAt(t)' = {}
                        /\ WorkersWith(t) = {} /\ BufferedAt(t) = {}
                        /\ OnWireAt(t) = {}
      OBVIOUS
    <3>1. AtReceiver(t) # {}
      BY DEF AtReceiver
    <3> QED
      BY <1>1, <1>3, <3>1, SeenIsUnsettled, PlacesUnchanged
  <2>5. Faithful(inHand)
    BY DEF HoldsWhatIsUnsettled
  <2> QED
    BY <1>1, <1>3, <2>1, <2>2, <2>3, <2>4, <2>5
<1> QED
  BY <1>2, <1>3 DEF messageReceiver

\* It puts it into workerChan, waits with it, or gives it back.
LEMMA ReceiverPlaced ==
  ASSUME Placed, messageReceiver
  PROVE  Placed'
<1> USE DEF Placed
<1>1. /\ UNCHANGED <<brokerVars, channel, consuming, workerVars, process>>
      /\ Running /\ receiver \in {"range", "full"}
  BY DEF messageReceiver
<1>2. \A t \in Tags : InPlace(t)
  BY DEF TagsInPlace, InPlace
<1>3. PICK d \in Deliveries :
        /\ Moved(d) /\ Faithful(d)
        /\ \A t \in Tags : ~ Holds(d, t) =>
             /\ AtReceiver(t) = {}
             /\ Alike(PrefetchedAt(t), PrefetchedAt(t)')
        /\ \A t \in Tags : Holds(d, t) =>
             /\ unacked[t] # None /\ PrefetchedAt(t)' = {}
             /\ WorkersWith(t) = {} /\ BufferedAt(t) = {} /\ OnWireAt(t) = {}
  BY ReceiverTakes
<1>4. prefetched' \in Seq(Tags) /\ Len(prefetched') <= Prefetch
  BY ReceiverTakes
<1>5. d # None /\ Faithful(d)'
  BY <1>1, <1>3, HoldsItsTag DEF Faithful
<1>6. CASE process = "up" /\ Enqueue(d)
  <2>1. /\ buffer \in Seq(Deliveries) /\ buffer' = Append(buffer, d)
        /\ Len(buffer) < BufferSize
        /\ receiver' = "range" /\ inHand' = None /\ wire' = wire
    BY <1>6 DEF Enqueue, TypeOK
  <2>2. buffer' \in Seq(Deliveries) /\ Len(buffer') = Len(buffer) + 1
    BY <2>1
  <2>3. Len(buffer') <= BufferSize
    BY <2>1, <2>2, BufferSizeIsNat
  <2>4. TypeOK'
    BY <1>1, <1>4, <2>1, <2>2, <2>3 DEF TypeOK
  <2>5. HandsMatch'
    BY <1>1, <2>1 DEF HandsMatch, Running
  <2>6. ASSUME NEW t \in Tags PROVE InPlace(t)'
    <3>1. AtReceiver(t)' = {}
      BY <2>1 DEF AtReceiver, Holds
    <3>2. CASE Holds(d, t)
      <4>1. BufferedAt(t)' = {Len(buffer) + 1}
        BY <1>3, <2>1, <3>2, DeliveryBuffered
      <4> QED
        BY <1>1, <1>3, <2>1, <3>1, <3>2, <4>1, PlacesUnchanged
           DEF InPlace, InOnePlace, Lone
    <3>3. CASE ~ Holds(d, t)
      <4>1. BufferedAt(t)' = BufferedAt(t)
        BY <2>1, <3>3, DeliveryBuffered
      <4>2. Unmoved(t)
        BY <1>1, <1>3, <2>1, <3>1, <3>3, <4>1, PlacesUnchanged, AlikeSame DEF Unmoved
      <4> QED
        BY <1>2, <4>2, UnmovedInPlace
    <3> QED
      BY <3>2, <3>3
  <2>7. HoldsWhatIsUnsettled'
    <3>1. (\A i \in DOMAIN buffer : Faithful(buffer[i]))'
      BY <1>1, <1>5, <2>1 DEF HoldsWhatIsUnsettled, Faithful
    <3> QED
      BY <1>1, <2>1, <3>1 DEF HoldsWhatIsUnsettled, Faithful
  <2> QED
    BY <2>4, <2>5, <2>6, <2>7 DEF TagsInPlace, InPlace
<1>7. CASE receiver' = "full" /\ inHand' = d /\ UNCHANGED <<buffer, wire>>
  <2>1. TypeOK'
    BY <1>1, <1>4, <1>7 DEF TypeOK
  <2>2. HandsMatch'
    BY <1>1, <1>5, <1>7 DEF HandsMatch, Running
  <2>3. ASSUME NEW t \in Tags PROVE InPlace(t)'
    <3>1. CASE Holds(d, t)
      <4>1. AtReceiver(t)' = {d}
        BY <1>7, <3>1 DEF AtReceiver
      <4> QED
        BY <1>1, <1>3, <1>7, <3>1, <4>1, PlacesUnchanged DEF InPlace, InOnePlace, Lone
    <3>2. CASE ~ Holds(d, t)
      <4>1. AtReceiver(t)' = {}
        BY <1>7, <3>2 DEF AtReceiver
      <4>2. Unmoved(t)
        BY <1>1, <1>3, <1>7, <3>2, <4>1, PlacesUnchanged, AlikeSame DEF Unmoved
      <4> QED
        BY <1>2, <4>2, UnmovedInPlace
    <3> QED
      BY <3>1, <3>2
  <2>4. HoldsWhatIsUnsettled'
    BY <1>1, <1>5, <1>7 DEF HoldsWhatIsUnsettled, Faithful
  <2> QED
    BY <2>1, <2>2, <2>3, <2>4 DEF TagsInPlace, InPlace
<1>8. CASE Refuse(d, "range") \/ Refuse(d, "stopped")
  <2>1. /\ Settle(d, "requeue") /\ receiver' \in {"range", "stopped"}
        /\ inHand' = None /\ buffer' = buffer
    BY <1>8 DEF Refuse, Nack
  <2>2. TypeOK'
    BY <1>1, <1>4, <2>1, SettleType DEF TypeOK
  <2>3. HandsMatch'
    BY <1>1, <2>1 DEF HandsMatch, Running
  <2>4. ASSUME NEW t \in Tags PROVE InPlace(t)'
    <3>1. AtReceiver(t)' = {}
      BY <2>1 DEF AtReceiver, Holds
    <3>2. CASE Holds(d, t)
      <4>1. OnWireAt(t)' = {Len(wire) + 1}
        BY <1>3, <2>1, <3>2, SettleType
      <4> QED
        BY <1>1, <1>3, <2>1, <3>1, <3>2, <4>1, PlacesUnchanged
           DEF InPlace, InOnePlace, Lone
    <3>3. CASE ~ Holds(d, t)
      <4>1. OnWireAt(t)' = OnWireAt(t)
        BY <2>1, <3>3, SettleType
      <4>2. Unmoved(t)
        BY <1>1, <1>3, <2>1, <3>1, <3>3, <4>1, PlacesUnchanged, AlikeSame DEF Unmoved
      <4> QED
        BY <1>2, <4>2, UnmovedInPlace
    <3> QED
      BY <3>2, <3>3
  <2>5. HoldsWhatIsUnsettled'
    BY <1>1, <2>1 DEF HoldsWhatIsUnsettled, Faithful
  <2> QED
    BY <2>2, <2>3, <2>4, <2>5 DEF TagsInPlace, InPlace
<1> QED
  BY <1>3, <1>6, <1>7, <1>8 DEF Moved

-----------------------------------------------------------------------------
(* The workers. *)

\* A worker that lets its delivery go holds nothing; the others hold what they
\* held.
LEMMA WorkerLetsGo ==
  ASSUME Placed, NEW w \in Workers, LetGo(w, "idle")
  PROVE  /\ hold' \in [Workers -> Deliveries \cup {None}]
         /\ worker' \in [Workers -> {"idle", "handling", "failed", "published",
                                     "unpublished", "stopped"}]
         /\ hold'[w] = None /\ worker'[w] = "idle"
         /\ \A v \in Workers \ {w} : hold'[v] = hold[v] /\ worker'[v] = worker[v]
         /\ \A t \in Tags : WorkersWith(t)' = WorkersWith(t) \ {w}
<1>1. /\ hold' \in [Workers -> Deliveries \cup {None}]
      /\ worker' \in [Workers -> {"idle", "handling", "failed", "published",
                                  "unpublished", "stopped"}]
      /\ hold'[w] = None /\ worker'[w] = "idle"
      /\ \A v \in Workers \ {w} : hold'[v] = hold[v] /\ worker'[v] = worker[v]
  BY DEF Placed, TypeOK, LetGo, Become
<1>2. \A t \in Tags : WorkersWith(t)' = WorkersWith(t) \ {w}
  BY <1>1 DEF WorkersWith, Holds
<1> QED
  BY <1>1, <1>2

\* A worker settles its delivery, under whichever tag, or in vain.
LEMMA WorkerSettles ==
  ASSUME Placed, NEW w \in Workers, worker[w] \notin {"idle", "stopped"},
         NEW by \in {"ack", "requeue", "reject"},
         Settle(hold[w], by), LetGo(w, "idle"),
         done' \subseteq Messages,
         UNCHANGED <<brokerVars, channel, prefetched, receiverVars, buffer,
                     orphans, process>>
  PROVE  Placed'
<1> USE DEF Placed
<1> DEFINE d == hold[w]
<1>1. d \in Deliveries /\ d # None
  BY DEF HandsMatch, TypeOK
<1> HIDE DEF d
<1>2. Settle(d, by)
  BY DEF d
<1>3. TypeOK'
  BY <1>1, <1>2, SettleType, WorkerLetsGo DEF TypeOK
<1>4. HandsMatch'
  BY WorkerLetsGo DEF HandsMatch, Running
<1>5. ASSUME NEW t \in Tags PROVE InPlace(t)'
  <2>0. InPlace(t)
    BY DEF TagsInPlace, InPlace
  <2>1. CASE Holds(d, t)
    <3>1. w \in WorkersWith(t)
      BY <2>1 DEF WorkersWith, d
    <3>2. /\ unacked[t] # None /\ Lone(WorkersWith(t))
          /\ BufferedAt(t) = {} /\ OnWireAt(t) = {}
          /\ PrefetchedAt(t) = {} /\ AtReceiver(t) = {}
      BY <2>0, <3>1, SeenIsUnsettled
    <3>3. WorkersWith(t)' = {}
      BY <3>1, <3>2, WorkerLetsGo DEF Lone
    <3>4. OnWireAt(t)' = {Len(wire) + 1}
      BY <1>1, <1>2, <2>1, <3>2, SettleType
    <3> QED
      BY <3>2, <3>3, <3>4, PlacesUnchanged DEF InPlace, InOnePlace, Lone
  <2>2. CASE ~ Holds(d, t)
    <3>1. OnWireAt(t)' = OnWireAt(t)
      BY <1>1, <1>2, <2>2, SettleType
    <3>2. WorkersWith(t)' = WorkersWith(t)
      BY <2>2, WorkerLetsGo DEF WorkersWith, d
    <3>3. Unmoved(t)
      BY <3>1, <3>2, PlacesUnchanged, AlikeSame DEF Unmoved
    <3> QED
      BY <2>0, <3>3, UnmovedInPlace
  <2> QED
    BY <2>1, <2>2
<1>6. HoldsWhatIsUnsettled'
  BY WorkerLetsGo DEF HoldsWhatIsUnsettled, Faithful
<1> QED
  BY <1>3, <1>4, <1>5, <1>6 DEF TagsInPlace, InPlace

\* The message goes to the broker again, counted once more, or for good.
LEMMA RepublicationType ==
  ASSUME TypeOK, NEW w \in Workers, hold[w] \in Deliveries
  PROVE  /\ Republication(w) \in Publications /\ Republication(w).kind = "publish"
         /\ Republication(w).of.msg = hold[w].of.msg
<1>1. hold[w].of \in Contents /\ getRetryCount(hold[w]) \in 0..RetryLimit
  BY DEF Deliveries, Contents, getRetryCount, RetryLimit
<1>2. ~ GivesUp(w) => getRetryCount(hold[w]) + 1 \in 0..RetryLimit
  BY <1>1 DEF GivesUp, RetryLimit
<1>3. ASSUME NEW n \in 0..RetryLimit
      PROVE  /\ [hold[w].of EXCEPT !.retry = n] \in Contents
             /\ [hold[w].of EXCEPT !.retry = n].msg = hold[w].of.msg
  BY <1>1 DEF Contents
<1> QED
  BY <1>1, <1>2, <1>3 DEF Republication, Publications

LEMMA RepublishPlaced ==
  ASSUME Placed, NEW w \in Workers, Republish(w), Running,
         UNCHANGED <<brokerVars, channel, prefetched, receiverVars, buffer, process>>
  PROVE  Placed'
<1> USE DEF Placed
<1>1. hold[w] \in Deliveries /\ UNCHANGED <<hold, orphans, done>>
  BY DEF Republish, HandsMatch, TypeOK
<1>2. CASE Become(w, "unpublished") /\ UNCHANGED wire
  <2>1. TypeOK' /\ HandsMatch'
    BY <1>1, <1>2 DEF Become, TypeOK, HandsMatch, Republish, Running
  <2> QED
    BY <1>1, <1>2, <2>1, QuietPlaced
<1>3. CASE /\ Len(wire) < MaxWire /\ wire' = Append(wire, Republication(w))
           /\ Become(w, "published")
  <2>1. /\ wire \in Seq(Publications \cup Settlements)
        /\ Republication(w) \in Publications /\ Republication(w).kind = "publish"
    BY <1>1, RepublicationType DEF TypeOK
  <2>2. /\ wire' \in Seq(Publications \cup Settlements)
        /\ Len(wire') = Len(wire) + 1
    BY <1>3, <2>1
  <2>3. Len(wire') <= MaxWire
    BY <1>3, <2>1, <2>2, ConsumerAssumption
  <2>4. TypeOK'
    BY <1>1, <1>3, <2>2, <2>3 DEF TypeOK, Become
  <2>5. HandsMatch'
    BY <1>1, <1>3 DEF HandsMatch, Become, Republish, Running, TypeOK
  <2>6. ASSUME NEW t \in Tags PROVE InPlace(t)'
    <3>1. OnWireAt(t)' = OnWireAt(t)
      BY <1>3, <2>1, FrameSent
    <3>2. Unmoved(t)
      BY <1>1, <3>1, PlacesUnchanged, AlikeSame DEF Unmoved
    <3> QED
      BY <3>2, UnmovedInPlace DEF TagsInPlace, InPlace
  <2>7. HoldsWhatIsUnsettled'
    BY <1>1 DEF HoldsWhatIsUnsettled, Faithful
  <2> QED
    BY <2>4, <2>5, <2>6, <2>7 DEF TagsInPlace, InPlace
<1> QED
  BY <1>2, <1>3 DEF Republish

\* A worker handles its delivery, fails, publishes it again, or settles it.
LEMMA HandleMessagePlaced ==
  ASSUME Placed, NEW w \in Workers, handleMessage(w)
  PROVE  Placed'
<1>0. /\ Running
      /\ UNCHANGED <<brokerVars, channel, prefetched, receiverVars, buffer, process>>
  BY DEF handleMessage
<1>1. CASE RejectMalformed(w) \/ SettleFailed(w)
  BY <1>0, <1>1, WorkerSettles
     DEF RejectMalformed, SettleFailed, Ack, Nack, Placed, TypeOK
<1>2. CASE HandlerSucceeds(w)
  <2>1. hold[w].of.msg \in Messages
    BY <1>2 DEF HandlerSucceeds, Placed, TypeOK, HandsMatch, Deliveries, Contents
  <2> QED
    BY <1>0, <1>2, <2>1, WorkerSettles DEF HandlerSucceeds, Ack, Placed, TypeOK
<1>3. CASE HandlerFails(w)
  <2>1. hold[w].of.msg \in Messages
    BY <1>3 DEF HandlerFails, Placed, TypeOK, HandsMatch, Deliveries, Contents
  <2>2. TypeOK' /\ HandsMatch'
    BY <1>0, <1>3, <2>1
       DEF HandlerFails, Become, Placed, TypeOK, HandsMatch, Running
  <2> QED
    BY <1>0, <1>3, <2>2, QuietPlaced DEF HandlerFails
<1>4. CASE Republish(w)
  BY <1>0, <1>4, RepublishPlaced
<1> QED
  BY <1>1, <1>2, <1>3, <1>4 DEF handleMessage

\* A worker takes the next delivery from workerChan.
LEMMA TakeDeliveryPlaced ==
  ASSUME Placed, NEW w \in Workers, TakeDelivery(w)
  PROVE  Placed'
<1> USE DEF Placed
<1>1. /\ buffer \in Seq(Deliveries) /\ buffer # <<>> /\ buffer' = Tail(buffer)
      /\ hold' = [hold EXCEPT ![w] = Head(buffer)]
      /\ worker' = [worker EXCEPT ![w] = "handling"]
      /\ hold[w] = None /\ Len(buffer) <= BufferSize
      /\ UNCHANGED <<brokerVars, wire, channel, prefetched, receiverVars, orphans,
                     done, process>>
      /\ hold \in [Workers -> Deliveries \cup {None}] /\ Running
  BY DEF TakeDelivery, Become, TypeOK, HandsMatch
<1>2. PICK d \in Deliveries : d = Head(buffer)
  BY <1>1, HeadTailProperties
<1>3. /\ hold'[w] = d /\ d # None
      /\ \A v \in Workers \ {w} : hold'[v] = hold[v]
  BY <1>1, <1>2, HoldsItsTag
<1>4. TypeOK'
  <2>1. buffer' \in Seq(Deliveries) /\ Len(buffer') <= BufferSize
    BY <1>1, BufferSizeIsNat
  <2> QED
    BY <1>1, <1>2, <2>1 DEF TypeOK
<1>5. HandsMatch'
  BY <1>1, <1>3 DEF HandsMatch, TypeOK, Running
<1>6. ASSUME NEW t \in Tags PROVE InPlace(t)'
  <2>0. InPlace(t)
    BY DEF TagsInPlace, InPlace
  <2>1. CASE Holds(d, t)
    <3>1. 1 \in BufferedAt(t)
      BY <1>1, <1>2, <2>1, DeliveryTaken
    <3>2. /\ unacked[t] # None /\ Lone(BufferedAt(t))
          /\ WorkersWith(t) = {} /\ OnWireAt(t) = {}
          /\ PrefetchedAt(t) = {} /\ AtReceiver(t) = {}
      BY <2>0, <3>1, SeenIsUnsettled
    <3>3. BufferedAt(t)' = {}
      BY <1>1, <1>2, <2>1, <3>2, DeliveryTaken
    <3>4. WorkersWith(t)' = {w}
      BY <1>3, <2>1, <3>2 DEF WorkersWith
    <3> QED
      BY <1>1, <3>2, <3>3, <3>4, PlacesUnchanged DEF InPlace, InOnePlace, Lone
  <2>2. CASE ~ Holds(d, t)
    <3>1. Alike(BufferedAt(t), BufferedAt(t)')
      BY <1>1, <1>2, <2>2, DeliveryTaken
    <3>2. WorkersWith(t)' = WorkersWith(t)
      BY <1>1, <1>3, <2>2 DEF WorkersWith, Holds
    <3>3. Unmoved(t)
      BY <1>1, <3>1, <3>2, PlacesUnchanged, AlikeSame DEF Unmoved
    <3> QED
      BY <2>0, <3>3, UnmovedInPlace
  <2> QED
    BY <2>1, <2>2
<1>7. HoldsWhatIsUnsettled'
  <2>1. Faithful(d) /\ 1 \in DOMAIN buffer
    BY <1>1, <1>2 DEF HoldsWhatIsUnsettled
  <2>2. (\A i \in DOMAIN buffer : Faithful(buffer[i]))'
    BY <1>1 DEF HoldsWhatIsUnsettled, Faithful
  <2> QED
    BY <1>1, <1>3, <2>1, <2>2 DEF HoldsWhatIsUnsettled, Faithful
<1> QED
  BY <1>4, <1>5, <1>6, <1>7 DEF TagsInPlace, InPlace

-----------------------------------------------------------------------------
(* The specification. *)

\* No step of the consumer, the broker or the connection misplaces a delivery.
LEMMA NextPlaced == Placed /\ [Next]_vars => Placed'
<1> SUFFICES ASSUME Placed, [Next]_vars PROVE Placed'
  OBVIOUS
<1>1. CASE Broker
  BY <1>1, ReceivePlaced, DeliverPlaced DEF Broker
<1>2. CASE Receiver
  BY <1>2, RestPlaced, ReceiverPlaced DEF Receiver
<1>3. ASSUME NEW w \in Workers, Worker(w) PROVE Placed'
  BY <1>3, TakeDeliveryPlaced, HandleMessagePlaced, RestPlaced DEF Worker
<1>4. CASE ConnectionLost
  BY <1>4, ConnectionLostPlaced
<1>5. CASE StopReturns \/ SendOnClosedChannel \/ Crash
  BY <1>5, ExitPlaced DEF StopReturns, SendOnClosedChannel, Crash
<1>6. CASE Stop \/ Restart \/ \E m \in Messages : OrphanReturns(m)
  BY <1>6, RestPlaced
<1>7. CASE UNCHANGED vars
  <2>1. TypeOK' /\ HandsMatch'
    BY <1>7 DEF vars, Placed, TypeOK, HandsMatch, Running
  <2> QED
    BY <1>7, <2>1, QuietPlaced DEF vars
<1> QED
  BY <1>1, <1>2, <1>3, <1>4, <1>5, <1>6, <1>7 DEF Next

\* Types, hands, places: together they are inductive.
THEOREM Placement == Spec => []Placed
<1>1. Spec => Init /\ [][Next]_vars
  BY DEF Spec
<1> QED
  BY <1>1, InitPlaced, NextPlaced, PTL

\* Type correctness of the consumer and of the broker's side of it.
THEOREM TypeCorrect == Spec => []TypeOK
<1>1. Placed => TypeOK
  BY DEF Placed
<1> QED
  BY <1>1, Placement, PTL

\* What is in one of the places is one thing, whichever the place.
LEMMA OneThingHeld ==
  ASSUME NEW t \in Tags, InOnePlace(t)
  PROVE  \E p : Held(t) = {p}
<1> DEFINE A == WorkersWith(t)
           B == BufferedAt(t)
           C == OnWireAt(t)
           D == PrefetchedAt(t)
           E == AtReceiver(t)
<1>0. \/ Lone(A) /\ B = {} /\ C = {} /\ D = {} /\ E = {}
      \/ A = {} /\ Lone(B) /\ C = {} /\ D = {} /\ E = {}
      \/ A = {} /\ B = {} /\ Lone(C) /\ D = {} /\ E = {}
      \/ A = {} /\ B = {} /\ C = {} /\ Lone(D) /\ E = {}
      \/ A = {} /\ B = {} /\ C = {} /\ D = {} /\ Lone(E)
  BY DEF InOnePlace
<1> HIDE DEF A, B, C, D, E
<1> DEFINE Labelled(k, S) == {k} \X S
<1>1. ASSUME NEW k, NEW S, Lone(S) PROVE \E p : Labelled(k, S) = {p}
  <2>1. PICK x : S = {x}
    BY <1>1 DEF Lone
  <2>2. {k} \X {x} = {<<k, x>>}
    OBVIOUS
  <2> QED
    BY <2>1, <2>2
<1>2. ASSUME NEW k PROVE Labelled(k, {}) = {}
  OBVIOUS
<1> HIDE DEF Labelled
<1>3. \E p : Labelled("worker", A) \cup Labelled("buffer", B)
             \cup Labelled("wire", C) \cup Labelled("prefetched", D)
             \cup Labelled("receiver", E) = {p}
  <2>1. CASE Lone(A) /\ B = {} /\ C = {} /\ D = {} /\ E = {}
    <3>1. PICK p : Labelled("worker", A) = {p}
      BY <1>1, <2>1
    <3>2. /\ Labelled("buffer", B) = {}
          /\ Labelled("wire", C) = {}
          /\ Labelled("prefetched", D) = {}
          /\ Labelled("receiver", E) = {}
      BY <1>2, <2>1
    <3> QED
      BY <3>1, <3>2
  <2>2. CASE A = {} /\ Lone(B) /\ C = {} /\ D = {} /\ E = {}
    <3>1. PICK p : Labelled("buffer", B) = {p}
      BY <1>1, <2>2
    <3>2. /\ Labelled("worker", A) = {}
          /\ Labelled("wire", C) = {}
          /\ Labelled("prefetched", D) = {}
          /\ Labelled("receiver", E) = {}
      BY <1>2, <2>2
    <3> QED
      BY <3>1, <3>2
  <2>3. CASE A = {} /\ B = {} /\ Lone(C) /\ D = {} /\ E = {}
    <3>1. PICK p : Labelled("wire", C) = {p}
      BY <1>1, <2>3
    <3>2. /\ Labelled("worker", A) = {}
          /\ Labelled("buffer", B) = {}
          /\ Labelled("prefetched", D) = {}
          /\ Labelled("receiver", E) = {}
      BY <1>2, <2>3
    <3> QED
      BY <3>1, <3>2
  <2>4. CASE A = {} /\ B = {} /\ C = {} /\ Lone(D) /\ E = {}
    <3>1. PICK p : Labelled("prefetched", D) = {p}
      BY <1>1, <2>4
    <3>2. /\ Labelled("worker", A) = {}
          /\ Labelled("buffer", B) = {}
          /\ Labelled("wire", C) = {}
          /\ Labelled("receiver", E) = {}
      BY <1>2, <2>4
    <3> QED
      BY <3>1, <3>2
  <2>5. CASE A = {} /\ B = {} /\ C = {} /\ D = {} /\ Lone(E)
    <3>1. PICK p : Labelled("receiver", E) = {p}
      BY <1>1, <2>5
    <3>2. /\ Labelled("worker", A) = {}
          /\ Labelled("buffer", B) = {}
          /\ Labelled("wire", C) = {}
          /\ Labelled("prefetched", D) = {}
      BY <1>2, <2>5
    <3> QED
      BY <3>1, <3>2
  <2> QED
    BY <1>0, <2>1, <2>2, <2>3, <2>4, <2>5
<1> QED
  BY <1>3, Zenon DEF Labelled, Held, A, B, C, D, E

\* Places, counted.
LEMMA PlacesCounted ==
  ASSUME NEW t \in Tags, InPlace(t)
  PROVE  Cardinality(Held(t)) = IF unacked[t] = None THEN 0 ELSE 1
<1>1. CASE unacked[t] = None
  <2>1. Held(t) = {}
    BY <1>1 DEF InPlace, InNoPlace, Held
  <2> QED
    BY <1>1, <2>1, FS_EmptySet
<1>2. CASE unacked[t] # None
  <2>1. \E p : Held(t) = {p}
    BY <1>2, OneThingHeld DEF InPlace
  <2> QED
    BY <1>2, <2>1, FS_Singleton
<1> QED
  BY <1>1, <1>2

\* However deliveries move between the receiver, workerChan, the workers and
\* the connection, each is settled once: none is forgotten while the broker
\* waits for it, none is settled twice.
THEOREM DeliveriesSettledOnce == Spec => []EachDeliverySettledOnce
<1>1. Placed => EachDeliverySettledOnce
  BY PlacesCounted DEF Placed, TagsInPlace, InPlace, EachDeliverySettledOnce
<1> QED
  BY <1>1, Placement, PTL
=============================================================================
