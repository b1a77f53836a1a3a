--------------------- MODULE OrderStateProducer_proofs ---------------------
(***************************************************************************)
(* Proofs about the producer, for every number of publishing goroutines    *)
(* and of channels.                                                        *)
(***************************************************************************)
EXTENDS OrderStateProducer, FiniteSetTheorems, TLAPS

USE ProducerAssumption DEF Unlocked, Locked, Goto, Unlock, Others, Usable, Works,
    producerVars, goVars, amqpVars

-----------------------------------------------------------------------------
(* Types, and the lock: exactly the holder is between Lock and Unlock. *)

\* What a process starts with is well typed.
LEMMA FreshType ==
  ASSUME Fresh, declared \subseteq ProducerBindings, dropped \in BOOLEAN
  PROVE  TypeOK
BY DEF Fresh, TypeOK

\* Publishing and making channels keeps every type and the lock in order.
LEMMA GoroutineType ==
  ASSUME TypeOK, NEW g \in Publishers,
         Check(g) \/ Lock(g) \/ PublishOrderStatusChanged(g)
  PROVE  TypeOK'
<1>1. CASE Check(g)
  BY <1>1 DEF Check, TypeOK
<1>2. CASE Lock(g)
  BY <1>2 DEF Lock, TypeOK
<1>3. CASE Return(g)
  BY <1>3 DEF Return, TypeOK
<1>4. CASE Recheck(g)
  BY <1>4 DEF Recheck, TypeOK
<1>5. CASE ReturnLocked(g)
  BY <1>5 DEF ReturnLocked, TypeOK
<1>6. CASE CloseOld(g)
  BY <1>6 DEF CloseOld, TypeOK
<1>7. CASE Closing(g)
  BY <1>7 DEF Closing, Closed, TypeOK
<1>8. CASE GetNewChannel(g)
  BY <1>8 DEF GetNewChannel, TypeOK
<1>9. CASE initializeExchangeAndQueue(g)
  BY <1>9 DEF initializeExchangeAndQueue, Closed, TypeOK
<1>10. CASE Share(g)
  BY <1>10 DEF Share, TypeOK
<1>11. CASE Shared(g)
  BY <1>11 DEF Shared, TypeOK
<1>12. CASE Publish(g)
  BY <1>12 DEF Publish, LostUnnoticed, TypeOK
<1>13. CASE ResetChannel(g)
  BY <1>13 DEF ResetChannel, TypeOK
<1>14. CASE ResetInitialized(g)
  BY <1>14 DEF ResetInitialized, TypeOK
<1>15. CASE Recover(g)
  BY <1>15 DEF Recover, TypeOK
<1> QED
  BY <1>1, <1>2, <1>3, <1>4, <1>5, <1>6, <1>7, <1>8, <1>9, <1>10, <1>11, <1>12,
     <1>13, <1>14, <1>15 DEF PublishOrderStatusChanged, getOrCreateChannel

\* So does what happens to the connection and to the process.
LEMMA SurroundingsType ==
  ASSUME TypeOK,
         ConnectionBreaks \/ ConnectionCloses \/ Reconnect \/ Close \/ Restart
  PROVE  TypeOK'
<1>1. CASE ConnectionBreaks
  BY <1>1 DEF ConnectionBreaks, TypeOK
<1>2. CASE ConnectionCloses
  BY <1>2 DEF ConnectionCloses, AllClosed, TypeOK
<1>3. CASE Reconnect
  BY <1>3 DEF Reconnect, TypeOK
<1>4. CASE Close
  BY <1>4 DEF Close, Closed, TypeOK
<1>5. CASE Restart
  BY <1>5 DEF Restart, TypeOK
<1> QED
  BY <1>1, <1>2, <1>3, <1>4, <1>5

LEMMA NextType == ASSUME TypeOK, [Next]_vars PROVE TypeOK'
<1>1. CASE UNCHANGED vars
  BY <1>1 DEF vars, TypeOK
<1> QED
  BY <1>1, GoroutineType, SurroundingsType DEF Next

\* The producer's fields keep their types, and channelLock is held exactly by
\* a goroutine that is between Lock and the deferred Unlock.
THEOREM TypeCorrect == Spec => []TypeOK
<1>1. Init => TypeOK
  BY FreshType DEF Init
<1>2. TypeOK /\ [Next]_vars => TypeOK'
  BY NextType
<1> QED
  BY <1>1, <1>2, PTL DEF Spec

-----------------------------------------------------------------------------
(* Declarations come before publications. *)

\* A goroutine shares or publishes on a channel only after its declarations.
LEMMA GoroutineDeclares ==
  ASSUME TypeOK, DeclaredFirst, NEW g \in Publishers,
         Check(g) \/ Lock(g) \/ PublishOrderStatusChanged(g)
  PROVE  DeclaredFirst'
<1>1. CASE Check(g)
  BY <1>1 DEF Check, TypeOK, DeclaredFirst
<1>2. CASE Lock(g)
  BY <1>2 DEF Lock, TypeOK, DeclaredFirst
<1>3. CASE Return(g)
  BY <1>3 DEF Return, TypeOK, DeclaredFirst
<1>4. CASE Recheck(g)
  BY <1>4 DEF Recheck, TypeOK, DeclaredFirst
<1>5. CASE ReturnLocked(g)
  BY <1>5 DEF ReturnLocked, TypeOK, DeclaredFirst
<1>6. CASE CloseOld(g)
  BY <1>6 DEF CloseOld, TypeOK, DeclaredFirst
<1>7. CASE Closing(g)
  BY <1>7 DEF Closing, TypeOK, DeclaredFirst
<1>8. CASE GetNewChannel(g)
  BY <1>8 DEF GetNewChannel, TypeOK, DeclaredFirst
<1>9. CASE initializeExchangeAndQueue(g)
  BY <1>9 DEF initializeExchangeAndQueue, TypeOK, DeclaredFirst
<1>10. CASE Share(g)
  BY <1>10 DEF Share, TypeOK, DeclaredFirst
<1>11. CASE Shared(g)
  BY <1>11 DEF Shared, TypeOK, DeclaredFirst
<1>12. CASE Publish(g)
  BY <1>12 DEF Publish, TypeOK, DeclaredFirst
<1>13. CASE ResetChannel(g)
  BY <1>13 DEF ResetChannel, TypeOK, DeclaredFirst
<1>14. CASE ResetInitialized(g)
  BY <1>14 DEF ResetInitialized, TypeOK, DeclaredFirst
<1>15. CASE Recover(g)
  BY <1>15 DEF Recover, TypeOK, DeclaredFirst
<1> QED
  BY <1>1, <1>2, <1>3, <1>4, <1>5, <1>6, <1>7, <1>8, <1>9, <1>10, <1>11, <1>12,
     <1>13, <1>14, <1>15 DEF PublishOrderStatusChanged, getOrCreateChannel

\* Nothing undoes a declaration.
LEMMA SurroundingsDeclare ==
  ASSUME TypeOK, DeclaredFirst,
         ConnectionBreaks \/ ConnectionCloses \/ Reconnect \/ Close \/ Restart
  PROVE  DeclaredFirst'
BY DEF ConnectionBreaks, ConnectionCloses, Reconnect, Close, Restart, DeclaredFirst,
       TypeOK

\* An event finds order_state_changed_queue when the producer's bindings exist.
LEMMA StatusChangesAreRouted == Route(ProducerBindings, StatusChangedAddress) # {}
<1> DEFINE b == Binding("order_state_changed_queue", StatusChangedAddress)
<1>1. b \in ProducerBindings
  BY DEF ProducerBindings
<1>2. b.queue \in Route(ProducerBindings, b.at)
  BY <1>1 DEF Route
<1>3. b.at = StatusChangedAddress
  BY DEF Binding
<1> QED
  BY <1>2, <1>3

\* So a publication does not drop its event.
LEMMA NextDropsNothing ==
  ASSUME TypeOK, DeclaredFirst, NoEventDropped, [Next]_vars
  PROVE  NoEventDropped'
<1>1. ASSUME NEW g \in Publishers, Publish(g) PROVE NoEventDropped'
  BY <1>1, StatusChangesAreRouted DEF Publish, DeclaredFirst, NoEventDropped
<1>2. CASE UNCHANGED dropped
  BY <1>2 DEF NoEventDropped
<1>3. ASSUME NEW g \in Publishers,
             Check(g) \/ Lock(g) \/ PublishOrderStatusChanged(g), ~ Publish(g)
      PROVE  UNCHANGED dropped
  BY <1>3 DEF PublishOrderStatusChanged, getOrCreateChannel, Check, Lock, Return,
     Recheck, ReturnLocked, CloseOld, Closing, GetNewChannel, initializeExchangeAndQueue,
     Share, Shared, ResetChannel, ResetInitialized, Recover
<1>4. ASSUME ConnectionBreaks \/ ConnectionCloses \/ Reconnect \/ Close \/ Restart
      PROVE  UNCHANGED dropped
  BY <1>4 DEF ConnectionBreaks, ConnectionCloses, Reconnect, Close, Restart
<1> QED
  BY <1>1, <1>2, <1>3, <1>4 DEF Next, vars

-----------------------------------------------------------------------------
(* One channel, for as long as nothing happens to the connection. *)

\* While the connection is undisturbed, a goroutine opens a channel only as the
\* holder of the lock and where there is none, and nobody closes or resets it.
LEMMA GoroutineSharesOne ==
  ASSUME TypeOK, Undisturbed, NEW g \in Publishers,
         Check(g) \/ Lock(g) \/ PublishOrderStatusChanged(g)
  PROVE  Undisturbed'
<1>1. CASE Check(g)
  BY <1>1 DEF Check, TypeOK, Undisturbed, ChannelOf, IsOpen
<1>2. CASE Lock(g)
  BY <1>2 DEF Lock, TypeOK, Undisturbed, ChannelOf, IsOpen
<1>3. CASE Return(g)
  BY <1>3 DEF Return, TypeOK, Undisturbed, ChannelOf, IsOpen
<1>4. CASE Recheck(g)
  BY <1>4 DEF Recheck, TypeOK, Undisturbed, ChannelOf, IsOpen
<1>5. CASE ReturnLocked(g)
  BY <1>5 DEF ReturnLocked, TypeOK, Undisturbed, ChannelOf, IsOpen
<1>6. CASE CloseOld(g)
  BY <1>6 DEF CloseOld, TypeOK, Undisturbed, ChannelOf, IsOpen
<1>7. CASE Closing(g)
  BY <1>7 DEF Closing, TypeOK, Undisturbed, ChannelOf, IsOpen
<1>8. CASE GetNewChannel(g)
  BY <1>8 DEF GetNewChannel, TypeOK, Undisturbed, ChannelOf, IsOpen, Referenced
<1>9. CASE initializeExchangeAndQueue(g)
  BY <1>9 DEF initializeExchangeAndQueue, TypeOK, Undisturbed, ChannelOf, IsOpen, Closed
<1>10. CASE Share(g)
  BY <1>10 DEF Share, TypeOK, Undisturbed, ChannelOf, IsOpen
<1>11. CASE Shared(g)
  BY <1>11 DEF Shared, TypeOK, Undisturbed, ChannelOf, IsOpen
<1>12. CASE Publish(g)
  BY <1>12 DEF Publish, TypeOK, Undisturbed, ChannelOf, IsOpen
<1>13. CASE ResetChannel(g)
  BY <1>13 DEF ResetChannel, TypeOK, Undisturbed, ChannelOf, IsOpen
<1>14. CASE ResetInitialized(g)
  BY <1>14 DEF ResetInitialized, TypeOK, Undisturbed, ChannelOf, IsOpen
<1>15. CASE Recover(g)
  BY <1>15 DEF Recover, TypeOK, Undisturbed, ChannelOf, IsOpen
<1> QED
  BY <1>1, <1>2, <1>3, <1>4, <1>5, <1>6, <1>7, <1>8, <1>9, <1>10, <1>11, <1>12,
     <1>13, <1>14, <1>15 DEF PublishOrderStatusChanged, getOrCreateChannel

\* A disturbance ends the claim, until the process starts again.
LEMMA SurroundingsShareOne ==
  ASSUME TypeOK, Undisturbed,
         ConnectionBreaks \/ ConnectionCloses \/ Reconnect \/ Close \/ Restart
  PROVE  Undisturbed'
<1>1. CASE ConnectionBreaks
  BY <1>1 DEF ConnectionBreaks, Undisturbed, ChannelOf
<1>2. CASE ConnectionCloses
  BY <1>2 DEF ConnectionCloses, Undisturbed, ChannelOf
<1>3. CASE Reconnect
  BY <1>3 DEF Reconnect, Undisturbed, ChannelOf
<1>4. CASE Close
  BY <1>4 DEF Close, Undisturbed, ChannelOf
<1>5. CASE Restart
  BY <1>5 DEF Restart, Undisturbed, ChannelOf
<1> QED
  BY <1>1, <1>2, <1>3, <1>4, <1>5

-----------------------------------------------------------------------------
(* The invariant. *)

LEMMA InitIInv == Init => IInv
<1> SUFFICES ASSUME Init PROVE IInv
  OBVIOUS
<1>1. TypeOK
  BY FreshType DEF Init
<1>2. DeclaredFirst /\ Undisturbed /\ NoEventDropped
  BY <1>1 DEF Init, Fresh, DeclaredFirst, Undisturbed, ChannelOf, NoEventDropped
<1> QED
  BY <1>1, <1>2 DEF IInv

LEMMA NextIInv == IInv /\ [Next]_vars => IInv'
<1> SUFFICES ASSUME IInv, [Next]_vars PROVE IInv'
  OBVIOUS
<1> USE DEF IInv
<1>1. TypeOK'
  BY NextType
<1>2. NoEventDropped'
  BY NextDropsNothing
<1>3. CASE UNCHANGED vars
  BY <1>1, <1>2, <1>3 DEF vars, DeclaredFirst, Undisturbed, ChannelOf, IsOpen
<1>4. CASE Next
  BY <1>1, <1>2, <1>4, GoroutineDeclares, SurroundingsDeclare, GoroutineSharesOne,
     SurroundingsShareOne DEF Next
<1> QED
  BY <1>3, <1>4

\* The inductive invariant of the producer.
THEOREM Invariance == Spec => []IInv
BY InitIInv, NextIInv, PTL DEF Spec

\* No event ever gets to an exchange that has no queue for it.
THEOREM NothingDropped == Spec => []NoEventDropped
<1>1. IInv => NoEventDropped
  BY DEF IInv
<1> QED
  BY <1>1, Invariance, PTL

\* A set of which any two elements are equal has at most one.
LEMMA AtMostOne ==
  ASSUME NEW S, \A c, d \in S : c = d
  PROVE  Cardinality(S) <= 1
<1>1. CASE S = {}
  BY <1>1, FS_EmptySet
<1>2. ASSUME NEW c \in S
      PROVE  Cardinality(S) <= 1
  <2>1. S = {c}
    OBVIOUS
  <2>2. Cardinality({c}) = 1
    BY FS_Singleton
  <2> QED
    BY <2>1, <2>2
<1> QED
  BY <1>1, <1>2

\* While nothing happens to the connection all goroutines share one channel.
THEOREM OneChannel == Spec => []OneChannelWhileConnected
<1>1. ASSUME IInv, ~ disturbed
      PROVE  /\ Cardinality({c \in Channels : state[c] = "open"}) <= 1
             /\ \A g \in Publishers :
                  /\ pc[g] \notin {"resetChannel", "resetInitialized", "panic"}
                  /\ pc[g] = "publish" => local[g] = channel
  <2>1. \A c, d \in {e \in Channels : state[e] = "open"} : c = d
    BY <1>1 DEF IInv, TypeOK, Undisturbed, ChannelOf, IsOpen
  <2>2. Cardinality({c \in Channels : state[c] = "open"}) <= 1
    BY <2>1, AtMostOne
  <2>3. \A g \in Publishers : ChannelOf(g)
    BY <1>1 DEF IInv, Undisturbed
  <2> QED
    BY <2>2, <2>3 DEF ChannelOf
<1>2. IInv => OneChannelWhileConnected
  BY <1>1 DEF OneChannelWhileConnected
<1> QED
  BY <1>2, Invariance, PTL
=============================================================================
