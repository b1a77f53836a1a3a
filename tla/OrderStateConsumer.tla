------------------------- MODULE OrderStateConsumer -------------------------
(***************************************************************************)
(* The consumer of order_state_queue: a receiver goroutine that takes      *)
(* deliveries from the channel and puts them into workerChan, workers that *)
(* hand them to the event handler, retry by republication, Stop, and the   *)
(* broker and the connection on the other side.                            *)
(*                                                                         *)
(* Frames that the client has sent stand in wire until the broker reads    *)
(* them; a lost connection loses them, and the broker puts every delivery  *)
(* that was not settled back into the queue.  What the client still holds  *)
(* of a lost connection is a stale delivery: settling it has no effect.    *)
(* The order of messages in the queue is left open.                        *)
(***************************************************************************)
EXTENDS Topology, Naturals, Sequences, FiniteSets, FiniteSetsExt, Bags

CONSTANTS Messages,    \* payment events that the backend has published
          Malformed,   \* those whose body is not JSON
          MaxCopies,   \* messages in the broker (a bound)
          Workers,     \* worker goroutines
          Prefetch,    \* Qos: deliveries that may be unsettled
          MaxWire,     \* frames under way (a bound)
          HeaderType,  \* Go type in which an int header comes back
          None         \* no delivery, no message, no tag

ASSUME ConsumerAssumption ==
  /\ Malformed \subseteq Messages
  /\ MaxCopies \in Nat
  /\ IsFiniteSet(Workers)
  /\ Prefetch \in Nat \ {0}
  /\ MaxWire \in Nat \ {0}
  /\ HeaderType \in {"int", "int32"}

RetryLimit == 3

Min2(a, b) == IF a < b THEN a ELSE b
BufferSize == Min2(2 * Cardinality(Workers), 100)

VARIABLES queues,     \* [ConsumerQueues -> bag of messages with their counts]
          unacked,    \* [Tags -> the message delivered under this tag, or None]
          wire,       \* frames sent and not yet read by the broker
          channel,    \* "open", "closed", or "nil" while reconnecting fails
          consuming,  \* the broker knows a consumer on this channel
          prefetched, \* deliveries in the client library, in order
          receiver,   \* where messageReceiver is
          inHand,     \* the delivery it cannot place
          buffer,     \* workerChan
          worker,     \* [Workers -> where handleMessage is]
          hold,       \* [Workers -> the delivery it handles]
          orphans,    \* messages whose handler runs on after its timeout
          done,       \* messages that a handler has handled without an error
          process     \* "up", "stopping", "stopped" or "down"

brokerVars == <<queues, unacked>>
receiverVars == <<receiver, inHand, consuming>>
workerVars == <<worker, hold, orphans, done>>
vars == <<brokerVars, wire, channel, prefetched, receiverVars, buffer,
          workerVars, process>>

\* retry is the x-retry-count header, 0 for none.
Contents == [msg : Messages, retry : 0..RetryLimit]

\* Delivery tags; one that has been settled is used again.
Tags == 1..Prefetch

\* tag is None once the connection on which the delivery came has ended.
Deliveries == [tag : Tags \cup {None}, of : Contents]

ASSUME NoneAssumption == None \notin Tags \cup Contents \cup Deliveries

Publications == [kind : {"publish"}, of : Contents,
                 to : {PaymentCompletedAddress, RetriesExceededAddress}]
Settlements  == [kind : {"settle"}, tag : Tags, by : {"ack", "requeue", "reject"}]

TypeOK ==
  /\ DOMAIN queues = ConsumerQueues
  /\ \A q \in ConsumerQueues : IsABag(queues[q]) /\ BagToSet(queues[q]) \subseteq Contents
  /\ unacked \in [Tags -> Contents \cup {None}]
  /\ wire \in Seq(Publications \cup Settlements) /\ Len(wire) <= MaxWire
  /\ channel \in {"open", "closed", "nil"}
  /\ consuming \in BOOLEAN
  /\ prefetched \in Seq(Tags) /\ Len(prefetched) <= Prefetch
  /\ receiver \in {"top", "range", "full", "stopped"}
  /\ inHand \in Deliveries \cup {None}
  /\ buffer \in Seq(Deliveries) /\ Len(buffer) <= BufferSize
  /\ worker \in [Workers -> {"idle", "handling", "failed", "published",
                             "unpublished", "stopped"}]
  /\ hold \in [Workers -> Deliveries \cup {None}]
  /\ orphans \subseteq Messages
  /\ done \subseteq Messages
  /\ process \in {"up", "stopping", "stopped", "down"}

\* One copy of every message is in the queue.
Init ==
  /\ queues = [q \in ConsumerQueues |->
                 IF q = "order_state_queue" THEN SetToBag([msg : Messages, retry : {0}])
                                            ELSE EmptyBag]
  /\ unacked = [t \in Tags |-> None]
  /\ wire = <<>> /\ channel = "open" /\ consuming = FALSE /\ prefetched = <<>>
  /\ receiver = "top" /\ inHand = None /\ buffer = <<>>
  /\ worker = [w \in Workers |-> "idle"]
  /\ hold = [w \in Workers |-> None]
  /\ orphans = {} /\ done = {}
  /\ process = "up"

Running == process \in {"up", "stopping"}

-----------------------------------------------------------------------------
(* Frames to the broker *)

\* Ack or Nack.  A stale delivery is settled in vain: its channel is gone.
Settle(d, by) ==
  IF d.tag # None
  THEN /\ Len(wire) < MaxWire
       /\ wire' = Append(wire, [kind |-> "settle", tag |-> d.tag, by |-> by])
  ELSE UNCHANGED wire

Ack(d)  == Settle(d, "ack")
Nack(d) == Settle(d, "requeue")

\* The queues after a message has been sent to an address; it is dropped if
\* there is no binding for it.
Arrive(x, at) ==
  [q \in ConsumerQueues |->
     IF q \in Route(ConsumerBindings, at) THEN queues[q] (+) SetToBag({x})
                                          ELSE queues[q]]

\* The queues after messages have gone back to the queue they came from.
Requeued(bag) == [queues EXCEPT !["order_state_queue"] = @ (+) bag]

ReceivePublication(f) ==
  /\ queues' = Arrive(f.of, f.to)
  /\ UNCHANGED unacked

\* A rejected message is sent on to the dead letter address of its queue.
ReceiveSettlement(f) ==
  LET x == unacked[f.tag] IN
  /\ unacked' = [unacked EXCEPT ![f.tag] = None]
  /\ queues' = CASE f.by = "ack"     -> queues
                 [] f.by = "requeue" -> Requeued(SetToBag({x}))
                 [] f.by = "reject"  -> Arrive(x, ConsumerDeadLetters)

Receive ==
  /\ wire # <<>>
  /\ \/ Head(wire).kind = "publish" /\ ReceivePublication(Head(wire))
     \/ Head(wire).kind = "settle" /\ ReceiveSettlement(Head(wire))
  /\ wire' = Tail(wire)
  /\ UNCHANGED <<channel, prefetched, receiverVars, buffer, workerVars, process>>

\* Within the prefetch window; the order of the messages is left open.
Deliver(x) ==
  /\ consuming
  /\ queues' = [queues EXCEPT !["order_state_queue"] = @ (-) SetToBag({x})]
  /\ \E t \in Tags :
       /\ unacked[t] = None
       /\ \A s \in Tags : unacked[s] = None => t <= s
       /\ unacked' = [unacked EXCEPT ![t] = x]
       /\ prefetched' = Append(prefetched, t)
  /\ UNCHANGED <<wire, channel, receiverVars, buffer, workerVars, process>>

\* What is delivered and not settled, as a bag.
Unsettled ==
  LET all == {t \in Tags : unacked[t] # None} IN
  [x \in {unacked[t] : t \in all} |-> Cardinality({t \in all : unacked[t] = x})]

\* What a lost connection does to the broker and to its frames.
LoseConnection ==
  /\ queues' = Requeued(Unsettled)
  /\ unacked' = [t \in Tags |-> None]
  /\ wire' = <<>>
  /\ prefetched' = <<>>
  /\ consuming' = FALSE

Stale(d) == IF d = None THEN None ELSE [d EXCEPT !.tag = None]

ConnectionLost ==
  /\ channel = "open"
  /\ Running
  /\ LoseConnection
  /\ channel' = "closed"
  /\ inHand' = Stale(inHand)
  /\ buffer' = [i \in DOMAIN buffer |-> Stale(buffer[i])]
  /\ hold' = [w \in Workers |-> Stale(hold[w])]
  /\ UNCHANGED <<receiver, worker, orphans, done, process>>

-----------------------------------------------------------------------------
(* messageReceiver *)

consumeMessages ==
  /\ Running
  /\ receiver = "top"
  /\ process # "stopping"
  /\ channel = "open"
  /\ consuming' = TRUE
  /\ receiver' = "range"
  /\ UNCHANGED <<brokerVars, wire, channel, prefetched, inHand, buffer,
                 workerVars, process>>

\* The declarations and the Qos of a new channel, of which any may fail.  What
\* they declare is there already.
setupChannel == channel' \in {"open", "nil"}

\* After an error of consumeMessages, and when the deliveries have ended.
reconnect ==
  /\ Running
  /\ receiver = "range" \/ (receiver = "top" /\ process # "stopping")
  /\ channel \in {"closed", "nil"}
  /\ setupChannel
  /\ receiver' = "top"
  /\ UNCHANGED <<brokerVars, wire, prefetched, inHand, consuming, buffer,
                 workerVars, process>>

\* stopChan is looked at here, and where a delivery is to be placed, but not
\* while the receiver waits for the next delivery.
ReceiverStops ==
  /\ process = "stopping"
  /\ receiver = "top"
  /\ receiver' = "stopped"
  /\ UNCHANGED <<brokerVars, wire, channel, prefetched, inHand, consuming,
                 buffer, workerVars, process>>

Delivery(t) == [tag |-> t, of |-> unacked[t]]

\* Mutant: workerChan without a capacity.
EnqueueUnbounded(d) ==
  /\ buffer' = Append(buffer, d)
  /\ receiver' = "range" /\ inHand' = None
  /\ UNCHANGED wire

Enqueue(d) ==
  /\ Len(buffer) < BufferSize
  /\ buffer' = Append(buffer, d)
  /\ receiver' = "range" /\ inHand' = None
  /\ UNCHANGED wire

\* The delivery goes back to the queue, and the receiver on, or away.
Refuse(d, next) == /\ Nack(d)
                   /\ receiver' = next /\ inHand' = None
                   /\ UNCHANGED buffer

\* A delivery is placed at once, or waited with when workerChan is full.
Place(d) ==
  \/ process = "up" /\ Enqueue(d)
  \/ /\ process = "up"
     /\ Len(buffer) = BufferSize
     /\ receiver' = "full" /\ inHand' = d
     /\ UNCHANGED <<buffer, wire>>
  \/ process = "stopping" /\ Refuse(d, "stopped")

\* For five seconds at most.
WaitForPlace(d) ==
  \/ process = "up" /\ Enqueue(d)
  \/ Refuse(d, "range")
  \/ process = "stopping" /\ Refuse(d, "stopped")

messageReceiver ==
  /\ Running
  /\ \/ /\ receiver = "range"
        /\ prefetched # <<>>
        /\ Place(Delivery(Head(prefetched)))
        /\ prefetched' = Tail(prefetched)
     \/ /\ receiver = "full"
        /\ WaitForPlace(inHand)
        /\ UNCHANGED prefetched
  /\ UNCHANGED <<brokerVars, channel, consuming, workerVars, process>>

-----------------------------------------------------------------------------
(* Workers *)

\* The dynamic type of a header that came over the network decides.
getRetryCount(d) == IF HeaderType = "int" THEN d.of.retry ELSE 0

Become(w, p) == worker' = [worker EXCEPT ![w] = p]

LetGo(w, p) == /\ Become(w, p)
               /\ hold' = [hold EXCEPT ![w] = None]

TakeDelivery(w) ==
  /\ Running
  /\ worker[w] = "idle"
  /\ buffer # <<>>
  /\ hold' = [hold EXCEPT ![w] = Head(buffer)]
  /\ buffer' = Tail(buffer)
  /\ Become(w, "handling")
  /\ UNCHANGED <<brokerVars, wire, channel, prefetched, receiverVars, orphans,
                 done, process>>

\* Mutant: the Nack of a malformed message is missing.
RejectMalformedSilently(w) ==
  /\ worker[w] = "handling"
  /\ hold[w].of.msg \in Malformed
  /\ LetGo(w, "idle")
  /\ UNCHANGED <<orphans, done, wire>>

\* A body that cannot be parsed goes to the dead letter exchange.
RejectMalformed(w) ==
  /\ worker[w] = "handling"
  /\ hold[w].of.msg \in Malformed
  /\ Settle(hold[w], "reject")
  /\ LetGo(w, "idle")
  /\ UNCHANGED <<orphans, done>>

HandlerSucceeds(w) ==
  /\ worker[w] = "handling"
  /\ hold[w].of.msg \notin Malformed
  /\ Ack(hold[w])
  /\ done' = done \cup {hold[w].of.msg}
  /\ LetGo(w, "idle")
  /\ UNCHANGED orphans

\* An error of the handler, or messageTimeout: the handler is not cancelled.
HandlerFails(w) ==
  /\ worker[w] = "handling"
  /\ hold[w].of.msg \notin Malformed
  /\ Become(w, "failed")
  /\ \/ UNCHANGED orphans
     \/ orphans' = orphans \cup {hold[w].of.msg}
  /\ UNCHANGED <<hold, done, wire>>

GivesUp(w) == getRetryCount(hold[w]) >= RetryLimit

Republication(w) ==
  LET Publication(count, at) ==
        [kind |-> "publish", of |-> [hold[w].of EXCEPT !.retry = count], to |-> at]
  IN IF GivesUp(w)
     THEN Publication(getRetryCount(hold[w]), RetriesExceededAddress)
     ELSE Publication(getRetryCount(hold[w]) + 1, PaymentCompletedAddress)

\* The broker can take one more message.
Room == Cardinality({i \in DOMAIN wire : wire[i].kind = "publish"})
        + Cardinality({t \in Tags : unacked[t] # None})
        + MapThenSumSet(LAMBDA q : BagCardinality(queues[q]), ConsumerQueues) < MaxCopies

\* republishWithRetryCount and sendToDLQ, on whatever channel there is now;
\* an open channel may refuse, too.
Republish(w) ==
  /\ worker[w] = "failed"
  /\ \/ /\ channel = "open"
        /\ Len(wire) < MaxWire /\ Room
        /\ wire' = Append(wire, Republication(w))
        /\ Become(w, "published")
     \/ /\ Become(w, "unpublished")
        /\ UNCHANGED wire
  /\ UNCHANGED <<hold, orphans, done>>

\* Mutant: the result of the republication is ignored.
SettleUnpublishedWithAck(w) ==
  /\ worker[w] \in {"published", "unpublished"}
  /\ Ack(hold[w])
  /\ LetGo(w, "idle")
  /\ UNCHANGED <<orphans, done>>

\* Mutant: a worker keeps a message that it could not publish again.
SettleFailedIfPublished(w) ==
  /\ worker[w] = "published" /\ Ack(hold[w])
  /\ LetGo(w, "idle")
  /\ UNCHANGED <<orphans, done>>

SettleFailed(w) ==
  /\ \/ worker[w] = "published" /\ Ack(hold[w])
     \/ worker[w] = "unpublished" /\ Nack(hold[w])
  /\ LetGo(w, "idle")
  /\ UNCHANGED <<orphans, done>>

handleMessage(w) ==
  /\ Running
  /\ \/ RejectMalformed(w)
     \/ HandlerSucceeds(w)
     \/ HandlerFails(w)
     \/ Republish(w)
     \/ SettleFailed(w)
  /\ UNCHANGED <<brokerVars, channel, prefetched, receiverVars, buffer, process>>

\* Nobody waits for this handler any more.
OrphanReturns(m) ==
  /\ Running
  /\ m \in orphans
  /\ orphans' = orphans \ {m}
  /\ done' \in {done, done \cup {m}}
  /\ UNCHANGED <<brokerVars, wire, channel, prefetched, receiverVars, buffer,
                 worker, hold, process>>

WorkerStops(w) ==
  /\ process = "stopping"
  /\ worker[w] = "idle"
  /\ Become(w, "stopped")
  /\ UNCHANGED <<brokerVars, wire, channel, prefetched, receiverVars, buffer,
                 hold, orphans, done, process>>

-----------------------------------------------------------------------------
(* The process *)

\* Both channels are closed: stopChan and workerChan.
Stop ==
  /\ process = "up"
  /\ process' = "stopping"
  /\ UNCHANGED <<brokerVars, wire, channel, prefetched, receiverVars, buffer,
                 workerVars>>

\* The process is gone, and its connection with it.
Exit(p) ==
  /\ LoseConnection
  /\ channel' = "closed"
  /\ receiver' = "stopped" /\ inHand' = None /\ buffer' = <<>>
  /\ worker' = [w \in Workers |-> "stopped"]
  /\ hold' = [w \in Workers |-> None]
  /\ orphans' = {}
  /\ process' = p
  /\ UNCHANGED done

\* wg.Wait is over; the channel is closed and main returns.
StopReturns ==
  /\ process = "stopping"
  /\ receiver = "stopped"
  /\ \A w \in Workers : worker[w] = "stopped"
  /\ Exit("stopped")

\* workerChan is closed while the receiver may still send to it.
SendOnClosedChannel ==
  /\ process = "stopping"
  /\ \/ receiver = "full"
     \/ receiver = "range" /\ prefetched # <<>>
  /\ Exit("down")

Crash == Running /\ Exit("down")

Restart ==
  /\ process \in {"down", "stopped"}
  /\ channel' = "open"
  /\ receiver' = "top"
  /\ worker' = [w \in Workers |-> "idle"]
  /\ process' = "up"
  /\ UNCHANGED <<brokerVars, wire, prefetched, inHand, consuming, buffer, hold,
                 orphans, done>>

-----------------------------------------------------------------------------
Broker == \/ Receive
          \/ \E x \in BagToSet(queues["order_state_queue"]) : Deliver(x)

Receiver == consumeMessages \/ reconnect \/ ReceiverStops \/ messageReceiver

Worker(w) == TakeDelivery(w) \/ handleMessage(w) \/ WorkerStops(w)

Next == \/ Broker
        \/ Receiver
        \/ \E w \in Workers : Worker(w)
        \/ \E m \in Messages : OrphanReturns(m)
        \/ ConnectionLost
        \/ Stop \/ StopReturns \/ SendOnClosedChannel \/ Crash \/ Restart

\* Goroutines and the broker make progress; nothing has to break.
Fairness == /\ WF_vars(Broker)
            /\ WF_vars(Receiver)
            /\ \A w \in Workers : WF_vars(Worker(w))
            /\ WF_vars(StopReturns)

Spec == Init /\ [][Next]_vars /\ Fairness

-----------------------------------------------------------------------------
\* A payment event is never lost: until a handler has handled it, the broker
\* has a copy of it, be it in a dead letter queue.  Connections may break and
\* the process may crash between a republication and the ack of the original.
NoMessageLost ==
  \A m \in Messages \ done :
    \/ \E q \in ConsumerQueues : \E x \in BagToSet(queues[q]) : x.msg = m
    \/ \E t \in Tags : unacked[t] # None /\ unacked[t].msg = m

Holds(d, t) == d # None /\ d.tag = t

\* The places where a delivery can be on its way to being settled.
WorkersWith(t)  == {w \in Workers : Holds(hold[w], t)}
BufferedAt(t)   == {i \in DOMAIN buffer : Holds(buffer[i], t)}
OnWireAt(t)     == {i \in DOMAIN wire : wire[i].kind = "settle" /\ wire[i].tag = t}
PrefetchedAt(t) == {i \in DOMAIN prefetched : prefetched[i] = t}
AtReceiver(t)   == {d \in {inHand} : Holds(d, t)}

Held(t) == ({"worker"} \X WorkersWith(t)) \cup ({"buffer"} \X BufferedAt(t))
           \cup ({"wire"} \X OnWireAt(t)) \cup ({"prefetched"} \X PrefetchedAt(t))
           \cup ({"receiver"} \X AtReceiver(t))

\* Every delivery that the broker waits for is in exactly one place on its way
\* to being settled: none is forgotten (it would block the prefetch window
\* until the connection breaks), none is settled twice (the broker would close
\* the channel).
EachDeliverySettledOnce ==
  \A t \in Tags : Cardinality(Held(t)) = IF unacked[t] = None THEN 0 ELSE 1

\* The prefetch window never fills for good: whatever workers and back-pressure
\* do with a delivery, it is settled or its connection ends, unless the program
\* is told to stop.
DeliveriesEnd ==
  \A t \in Tags :
    (unacked[t] # None) ~> (unacked[t] = None \/ process = "stopping")

-----------------------------------------------------------------------------
(* What makes the properties above inductive. *)

\* Who is at rest holds nothing, and a process that is down has everybody at
\* rest.
HandsMatch ==
  /\ inHand # None <=> receiver = "full"
  /\ \A w \in Workers : hold[w] = None <=> worker[w] \in {"idle", "stopped"}
  /\ ~ Running => /\ receiver = "stopped"
                  /\ \A w \in Workers : worker[w] = "stopped"

Lone(S) == \E x \in S : S = {x}

\* EachDeliverySettledOnce without counting.
InOnePlace(t) ==
  \/ /\ Lone(WorkersWith(t)) /\ BufferedAt(t) = {} /\ OnWireAt(t) = {}
     /\ PrefetchedAt(t) = {} /\ AtReceiver(t) = {}
  \/ /\ WorkersWith(t) = {} /\ Lone(BufferedAt(t)) /\ OnWireAt(t) = {}
     /\ PrefetchedAt(t) = {} /\ AtReceiver(t) = {}
  \/ /\ WorkersWith(t) = {} /\ BufferedAt(t) = {} /\ Lone(OnWireAt(t))
     /\ PrefetchedAt(t) = {} /\ AtReceiver(t) = {}
  \/ /\ WorkersWith(t) = {} /\ BufferedAt(t) = {} /\ OnWireAt(t) = {}
     /\ Lone(PrefetchedAt(t)) /\ AtReceiver(t) = {}
  \/ /\ WorkersWith(t) = {} /\ BufferedAt(t) = {} /\ OnWireAt(t) = {}
     /\ PrefetchedAt(t) = {} /\ Lone(AtReceiver(t))

InNoPlace(t) ==
  /\ WorkersWith(t) = {} /\ BufferedAt(t) = {} /\ OnWireAt(t) = {}
  /\ PrefetchedAt(t) = {} /\ AtReceiver(t) = {}

TagsInPlace ==
  \A t \in Tags : IF unacked[t] = None THEN InNoPlace(t) ELSE InOnePlace(t)

\* d is stale, or the message that the broker has unsettled under its tag.
Faithful(d) == d # None /\ d.tag # None => d.of = unacked[d.tag]

HoldsWhatIsUnsettled ==
  /\ Faithful(inHand)
  /\ \A i \in DOMAIN buffer : Faithful(buffer[i])
  /\ \A w \in Workers : Faithful(hold[w])

\* The broker has m in a queue, or delivered and unsettled in such a way that
\* every ack on its way, or about to be sent, has a new copy of m ahead of it.
Copies(m) == {j \in DOMAIN wire : wire[j].kind = "publish" /\ wire[j].of.msg = m}

AcksFollow(t, m) ==
  /\ \A i \in OnWireAt(t) : wire[i].by = "ack" => \E j \in Copies(m) : j < i
  /\ \A w \in WorkersWith(t) : worker[w] = "published" => Copies(m) # {}

Kept(m) ==
  \/ \E q \in ConsumerQueues : \E x \in BagToSet(queues[q]) : x.msg = m
  \/ \E t \in Tags : unacked[t] # None /\ unacked[t].msg = m /\ AcksFollow(t, m)

UnhandledIsKept == \A m \in Messages \ done : Kept(m)

Placed == /\ TypeOK
          /\ HandsMatch
          /\ TagsInPlace
          /\ HoldsWhatIsUnsettled

IInv == Placed /\ UnhandledIsKept

-----------------------------------------------------------------------------
\* What the sources say of the program, and the program does not do.

\* A message that is published again has been counted once more.
RetryCountIncreases ==
  \A w \in Workers : worker[w] = "failed" /\ ~ GivesUp(w) =>
    Republication(w).of.retry > hold[w].of.retry

\* Stop is graceful: it waits for the goroutines and returns.
StopEnds == process = "stopping" ~> process # "stopping"
=============================================================================
