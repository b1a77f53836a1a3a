------------------------- MODULE OrderStateProducer -------------------------
(***************************************************************************)
(* The producer of status change events: one channel shared by all         *)
(* goroutines, made when it is first needed, with a mutex around the       *)
(* making and none around the first check or around the reset after a      *)
(* failed publication.                                                     *)
(*                                                                         *)
(* The connection is shared with the consumer, whose reconnection replaces *)
(* it whenever the consumer's own channel has ended.                       *)
(*                                                                         *)
(* The fields channel and initialized are read and written without a       *)
(* common lock.  A check reads them in one step here and the return, or    *)
(* the closing of the old channel, reads channel again in another: a reset *)
(* between any two of the reads ends the same way, in a use of nil.        *)
(***************************************************************************)
EXTENDS Topology, Naturals, FiniteSets

CONSTANTS Publishers,  \* goroutines that publish
          Channels,    \* identities for channels (a bound)
          Nil,         \* the nil channel
          Nobody       \* "channelLock is free"

ASSUME ProducerAssumption ==
  /\ Nil \notin Channels
  /\ Nobody \notin Publishers

VARIABLES channel,      \* p.channel: a channel or Nil
          initialized,  \* p.initialized
          channelLock,  \* its holder, or Nobody
          pc,           \* [Publishers -> where in its publication it is]
          local,        \* [Publishers -> its local variable channel]
          state,        \* [Channels -> "open", "closed" or "unused"]
          conn,         \* "open", "broken" (not yet noticed) or "closed"
          declared,     \* bindings that the broker knows
          main,         \* "up", or "closing" after Close has returned
          disturbed,    \* history: the connection has been touched
          dropped       \* history: an event has been sent to no queue

producerVars == <<channel, initialized, channelLock>>
goVars       == <<pc, local>>
amqpVars     == <<state, conn, declared>>
vars == <<producerVars, goVars, amqpVars, main, disturbed, dropped>>

Unlocked == {"idle", "return", "lock", "publish", "resetChannel",
             "resetInitialized", "panic"}
Locked   == {"recheck", "returnLocked", "closeOld", "closing", "make", "declare",
             "share", "shared"}

TypeOK ==
  /\ channel \in Channels \cup {Nil}
  /\ initialized \in BOOLEAN
  /\ channelLock \in Publishers \cup {Nobody}
  /\ pc \in [Publishers -> Unlocked \cup Locked]
  /\ \A g \in Publishers : channelLock = g <=> pc[g] \in Locked
  /\ local \in [Publishers -> Channels \cup {Nil}]
  /\ state \in [Channels -> {"open", "closed", "unused"}]
  /\ conn \in {"open", "broken", "closed"}
  /\ declared \subseteq ProducerBindings
  /\ main \in {"up", "closing"}
  /\ disturbed \in BOOLEAN
  /\ dropped \in BOOLEAN

\* What a process starts with; the broker may know the bindings already.
Fresh ==
  /\ channel = Nil /\ initialized = FALSE /\ channelLock = Nobody
  /\ pc = [g \in Publishers |-> "idle"]
  /\ local = [g \in Publishers |-> Nil]
  /\ state = [c \in Channels |-> "unused"]
  /\ conn = "open"
  /\ main = "up"
  /\ disturbed = FALSE

Init == Fresh /\ declared \in {{}, ProducerBindings} /\ dropped = FALSE

Goto(g, p) == pc' = [pc EXCEPT ![g] = p]

Others == <<main, disturbed, dropped>>

\* channel != nil && !channel.IsClosed() && initialized
Usable == channel # Nil /\ state[channel] = "open" /\ initialized

-----------------------------------------------------------------------------
(* getOrCreateChannel *)

Check(g) ==
  /\ pc[g] = "idle"
  /\ Goto(g, IF Usable THEN "return" ELSE "lock")
  /\ UNCHANGED <<producerVars, local, amqpVars, Others>>

\* Whatever channel is by now.
Return(g) ==
  /\ pc[g] = "return"
  /\ Goto(g, "publish")
  /\ local' = [local EXCEPT ![g] = channel]
  /\ UNCHANGED <<producerVars, amqpVars, Others>>

\* Mutant: nobody waits for the lock.
LockWithoutWaiting(g) ==
  /\ pc[g] = "lock"
  /\ channelLock' = g
  /\ Goto(g, "recheck")
  /\ UNCHANGED <<channel, initialized, local, amqpVars, Others>>

Lock(g) ==
  /\ pc[g] = "lock"
  /\ channelLock = Nobody
  /\ channelLock' = g
  /\ Goto(g, "recheck")
  /\ UNCHANGED <<channel, initialized, local, amqpVars, Others>>

\* Mutant: no second check under the lock.
RecheckMissing(g) ==
  /\ pc[g] = "recheck"
  /\ Goto(g, "closeOld")
  /\ UNCHANGED <<producerVars, local, amqpVars, Others>>

Recheck(g) ==
  /\ pc[g] = "recheck"
  /\ Goto(g, IF Usable THEN "returnLocked" ELSE "closeOld")
  /\ UNCHANGED <<producerVars, local, amqpVars, Others>>

\* g returns from getOrCreateChannel, or from a failure in it, and unlocks.
Unlock(g, p) == Goto(g, p) /\ channelLock' = Nobody

ReturnLocked(g) ==
  /\ pc[g] = "returnLocked"
  /\ Unlock(g, "publish")
  /\ local' = [local EXCEPT ![g] = channel]
  /\ UNCHANGED <<channel, initialized, amqpVars, Others>>

Closed(c) == [state EXCEPT ![c] = "closed"]

CloseOld(g) ==
  /\ pc[g] = "closeOld"
  /\ Goto(g, IF channel = Nil THEN "make" ELSE "closing")
  /\ UNCHANGED <<producerVars, local, amqpVars, Others>>

\* channel is read again, and a reset does not wait for the lock.
Closing(g) ==
  /\ pc[g] = "closing"
  /\ \/ /\ channel = Nil
        /\ Unlock(g, "panic")
        /\ UNCHANGED <<channel, state>>
     \/ /\ channel # Nil
        /\ channel' = Nil
        /\ state' = Closed(channel)
        /\ Goto(g, "make")
        /\ UNCHANGED channelLock
  /\ UNCHANGED <<initialized, local, conn, declared, Others>>

Referenced == {channel} \cup {local[g] : g \in Publishers}

\* Mutant: the deferred Unlock is missing where no channel can be had.
GetNewChannelKeepingLock(g) ==
  /\ pc[g] = "make"
  /\ \/ /\ conn = "open"
        /\ \E c \in Channels \ Referenced :
             /\ state' = [state EXCEPT ![c] = "open"]
             /\ local' = [local EXCEPT ![g] = c]
        /\ Goto(g, "declare")
        /\ UNCHANGED channelLock
     \/ /\ conn # "open"
        /\ Goto(g, "idle")
        /\ UNCHANGED <<channelLock, state, local>>
  /\ UNCHANGED <<channel, initialized, conn, declared, Others>>

\* Mutant: the channel is used as it is.
GetNewChannelUndeclared(g) ==
  /\ pc[g] = "make"
  /\ \/ /\ conn = "open"
        /\ \E c \in Channels \ Referenced :
             /\ state' = [state EXCEPT ![c] = "open"]
             /\ local' = [local EXCEPT ![g] = c]
        /\ Goto(g, "share")
        /\ UNCHANGED channelLock
     \/ /\ conn # "open"
        /\ Unlock(g, "idle")
        /\ UNCHANGED <<state, local>>
  /\ UNCHANGED <<channel, initialized, conn, declared, Others>>

GetNewChannel(g) ==
  /\ pc[g] = "make"
  /\ \/ /\ conn = "open"
        /\ \E c \in Channels \ Referenced :
             /\ state' = [state EXCEPT ![c] = "open"]
             /\ local' = [local EXCEPT ![g] = c]
        /\ Goto(g, "declare")
        /\ UNCHANGED channelLock
     \/ /\ conn # "open"
        /\ Unlock(g, "idle")
        /\ UNCHANGED <<state, local>>
  /\ UNCHANGED <<channel, initialized, conn, declared, Others>>

Works(c) == conn = "open" /\ state[c] = "open"

\* The channel breaks or the broker refuses a declaration, possibly after some
\* of the others; either ends the channel.
initializeExchangeAndQueue(g) ==
  /\ pc[g] = "declare"
  /\ \/ /\ Works(local[g])
        /\ declared' = ProducerBindings
        /\ Goto(g, "share")
        /\ UNCHANGED <<channelLock, local, state>>
     \/ /\ \E some \in SUBSET ProducerBindings : declared' = declared \cup some
        /\ state' = Closed(local[g])
        /\ local' = [local EXCEPT ![g] = Nil]
        /\ Unlock(g, "idle")
  /\ UNCHANGED <<channel, initialized, conn, Others>>

Share(g) ==
  /\ pc[g] = "share"
  /\ channel' = local[g]
  /\ Goto(g, "shared")
  /\ UNCHANGED <<initialized, channelLock, local, amqpVars, Others>>

Shared(g) ==
  /\ pc[g] = "shared"
  /\ initialized' = TRUE
  /\ Unlock(g, "publish")
  /\ UNCHANGED <<channel, local, amqpVars, Others>>

-----------------------------------------------------------------------------
(* PublishOrderStatusChanged, with the channel that it was given *)

\* The frame is written and lost with the connection.
LostUnnoticed(g) ==
  /\ conn = "broken" /\ state[local[g]] = "open"
  /\ Goto(g, "idle")

Publish(g) ==
  /\ pc[g] = "publish"
  /\ \/ /\ local[g] = Nil
        /\ Goto(g, "panic")
        /\ UNCHANGED <<local, dropped>>
     \/ /\ local[g] # Nil /\ Works(local[g])
        /\ dropped' = (dropped \/ Route(declared, StatusChangedAddress) = {})
        /\ Goto(g, "idle")
        /\ local' = [local EXCEPT ![g] = Nil]
     \/ /\ local[g] # Nil /\ ~ Works(local[g])
        /\ (Goto(g, "resetChannel") \/ LostUnnoticed(g))
        /\ local' = [local EXCEPT ![g] = Nil]
        /\ UNCHANGED dropped
  /\ UNCHANGED <<producerVars, amqpVars, main, disturbed>>

\* Without the lock: p.channel = nil, then p.initialized = false.
ResetChannel(g) ==
  /\ pc[g] = "resetChannel"
  /\ channel' = Nil
  /\ Goto(g, "resetInitialized")
  /\ UNCHANGED <<initialized, channelLock, local, amqpVars, Others>>

ResetInitialized(g) ==
  /\ pc[g] = "resetInitialized"
  /\ initialized' = FALSE
  /\ Goto(g, "idle")
  /\ UNCHANGED <<channel, channelLock, local, amqpVars, Others>>

\* An HTTP request recovers from a panic; in any other goroutine it ends the
\* process.
Recover(g) ==
  /\ pc[g] = "panic"
  /\ Goto(g, "idle")
  /\ UNCHANGED <<producerVars, local, amqpVars, Others>>

-----------------------------------------------------------------------------
(* The connection *)

AllClosed == [c \in Channels |-> IF state[c] = "open" THEN "closed" ELSE state[c]]

ConnectionBreaks ==
  /\ conn = "open"
  /\ conn' = "broken"
  /\ disturbed' = TRUE
  /\ UNCHANGED <<producerVars, goVars, state, declared, main, dropped>>

\* The client library closes what belongs to a connection: after an error, or
\* because the consumer reconnects, or main closes it.
ConnectionCloses ==
  /\ conn # "closed"
  /\ conn' = "closed"
  /\ state' = AllClosed
  /\ disturbed' = TRUE
  /\ UNCHANGED <<producerVars, goVars, declared, main, dropped>>

\* The second half of the consumer's Reconnect.
Reconnect ==
  /\ main = "up"
  /\ conn = "closed"
  /\ conn' = "open"
  /\ UNCHANGED <<producerVars, goVars, state, declared, main, disturbed, dropped>>

\* main returns: producer.Close, conn.Close, and the end.  Nobody waits for the
\* goroutines that publish.
Close ==
  /\ main = "up"
  /\ channelLock = Nobody
  /\ main' = "closing"
  /\ state' = IF channel = Nil THEN state ELSE Closed(channel)
  /\ IF channel # Nil /\ state[channel] = "open" /\ conn # "open"
     THEN UNCHANGED <<channel, initialized>>  \* channel.Close has failed
     ELSE channel' = Nil /\ initialized' = FALSE
  /\ disturbed' = TRUE
  /\ UNCHANGED <<channelLock, goVars, conn, declared, dropped>>

\* The process ends, by a signal or a panic or after main, and starts again.
Restart ==
  /\ channel' = Nil /\ initialized' = FALSE /\ channelLock' = Nobody
  /\ pc' = [g \in Publishers |-> "idle"]
  /\ local' = [g \in Publishers |-> Nil]
  /\ state' = [c \in Channels |-> "unused"]
  /\ conn' = "open"
  /\ main' = "up"
  /\ disturbed' = FALSE
  /\ UNCHANGED <<declared, dropped>>

-----------------------------------------------------------------------------
getOrCreateChannel(g) ==
  \/ Return(g)
  \/ Recheck(g) \/ ReturnLocked(g)
  \/ CloseOld(g) \/ Closing(g) \/ GetNewChannel(g) \/ initializeExchangeAndQueue(g)
  \/ Share(g) \/ Shared(g)

PublishOrderStatusChanged(g) ==
  \/ getOrCreateChannel(g)
  \/ Publish(g) \/ ResetChannel(g) \/ ResetInitialized(g) \/ Recover(g)

Next == \/ \E g \in Publishers :
             Check(g) \/ Lock(g) \/ PublishOrderStatusChanged(g)
        \/ ConnectionBreaks \/ ConnectionCloses \/ Reconnect
        \/ Close \/ Restart

\* A goroutine that has begun a publication goes on, and a mutex that becomes
\* free again and again is given to everyone who waits for it.
Fairness == \A g \in Publishers : WF_vars(PublishOrderStatusChanged(g)) /\ SF_vars(Lock(g))

Spec == Init /\ [][Next]_vars /\ Fairness

-----------------------------------------------------------------------------
\* Goroutines that all find no channel at once still come to share one: as
\* long as nothing happens to the connection, none makes a second, and none
\* closes the one that another uses.  (Of the resets after a failed publication
\* it says nothing: they come with a disturbance.)
OneChannelWhileConnected ==
  ~ disturbed =>
    /\ Cardinality({c \in Channels : state[c] = "open"}) <= 1
    /\ \A g \in Publishers :
         /\ pc[g] \notin {"resetChannel", "resetInitialized", "panic"}
         /\ pc[g] = "publish" => local[g] = channel

\* The broker has order_state_changed_queue and its binding for every event that
\* it gets, though they are declared by whichever goroutine comes first.  (What
\* is lost on a connection that has broken unnoticed does not get there.)
NoEventDropped == ~ dropped

\* Every publication ends: the lock is given back on every path.
PublicationEnds == \A g \in Publishers : (pc[g] # "idle") ~> (pc[g] = "idle")

\* What the sources say of the program, and the program does not do.

\* getOrCreateChannel gets or creates a channel: without an error it returns
\* one, for as long as the program has not begun to shut down.
ReturnsChannel ==
  main = "up" => \A g \in Publishers : pc[g] = "publish" => local[g] # Nil

-----------------------------------------------------------------------------
(* What makes the safety properties inductive. *)

\* A channel is shared or published on only after its declarations.
DeclaredFirst ==
  /\ channel # Nil => declared = ProducerBindings
  /\ \A g \in Publishers :
       /\ pc[g] \in {"share", "shared"} => declared = ProducerBindings
       /\ pc[g] = "publish" /\ local[g] # Nil => declared = ProducerBindings

IsOpen(c) == c # Nil /\ state[c] = "open"

\* While nothing happens to the connection, a channel is open for being shared
\* or for being made, by the holder of the lock, and never both.
ChannelOf(g) ==
  /\ pc[g] \notin {"resetChannel", "resetInitialized", "panic"}
  /\ pc[g] # "closing"
  /\ pc[g] \in {"closeOld", "make"} => channel = Nil
  /\ pc[g] \in {"declare", "share"} => channel = Nil /\ IsOpen(local[g])
  /\ pc[g] \in {"return", "returnLocked"} => IsOpen(channel)
  /\ pc[g] \in {"publish", "shared"} => local[g] = channel /\ IsOpen(channel)

Undisturbed ==
  ~ disturbed =>
    /\ conn = "open"
    /\ channel # Nil => /\ IsOpen(channel)
                        /\ initialized \/ \E g \in Publishers : pc[g] = "shared"
    /\ \A g \in Publishers : ChannelOf(g)
    /\ \A c \in Channels : state[c] = "open" =>
         \/ c = channel
         \/ \E g \in Publishers : pc[g] \in {"declare", "share"} /\ local[g] = c

IInv == TypeOK /\ DeclaredFirst /\ Undisturbed /\ NoEventDropped
=============================================================================
