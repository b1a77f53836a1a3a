------------------------------ MODULE Topology ------------------------------
(***************************************************************************)
(* The exchanges, queues and bindings that the consumer and the producer   *)
(* declare in RabbitMQ.  Everything is durable, so what has been declared  *)
(* once stays; all exchanges are direct ones.  Neither side asks to have   *)
(* unroutable messages returned: they are dropped.                         *)
(***************************************************************************)

Address(exchange, key) == [exchange |-> exchange, key |-> key]

OrderStateExchange == "order.state.update"
DeadLetterExchange == "dead.letter.exchange"

\* The addresses that publications are sent to.
PaymentCompletedAddress == Address(OrderStateExchange, "order.state.payment.completed")
RetriesExceededAddress  == Address(OrderStateExchange, "order.state.payment.completed.dlq")
StatusChangedAddress    == Address(OrderStateExchange, "order.state.status.changed")

\* queue is bound to the address at.
Binding(queue, at) == [queue |-> queue, at |-> at]

ConsumerBindings ==
  {Binding("order_state_queue.dlq", Address(DeadLetterExchange, "order.state.dlq")),
   Binding("order_state_queue_dlq", RetriesExceededAddress),
   Binding("order_state_queue", PaymentCompletedAddress)}

ProducerBindings ==
  {Binding("order_state_changed_queue.dlq",
           Address(DeadLetterExchange, "order.state.changed.dlq")),
   Binding("order_state_changed_queue", StatusChangedAddress)}

\* Where order_state_queue sends what is rejected: its x-dead-letter arguments.
ConsumerDeadLetters == Address(DeadLetterExchange, "order.state.dlq")

\* What a direct exchange does with a message sent to an address.
Route(bindings, at) == {b.queue : b \in {c \in bindings : c.at = at}}

ConsumerQueues == {b.queue : b \in ConsumerBindings}
=============================================================================
