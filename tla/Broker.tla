-------------------------------- MODULE Broker --------------------------------
(***************************************************************************)
(* RabbitMQ as package queue uses it: durable work queues, one per         *)
(* channel, persistent messages, manual acknowledgement, prefetch 1, and   *)
(* no publisher confirms.  A message is its notification id; the queue it  *)
(* sits in is QueueName(channel).  The order of ready messages is left     *)
(* open: priorities, several consumers and requeueing reorder them.        *)
(***************************************************************************)
EXTENDS NotificationRepo

CONSTANTS
    WorkerConcurrency,  \* WORKER_CONCURRENCY, at least 1
    None                \* no message, no job

ASSUME BrokerAssumption ==
    /\ WorkerConcurrency \in Nat \ {0}
    /\ None \notin Notifications

Workers == 1..WorkerConcurrency

VARIABLES
    ready,              \* ready[n]: copies of n's message waiting in its queue
    unacked             \* unacked[w]: the message delivered to worker w's
                        \* consumer and neither acked, nacked nor requeued

brokerVars == <<ready, unacked>>

BrokerTypeOK ==
    /\ ready \in [Notifications -> Nat]
    /\ unacked \in [Workers -> Notifications \cup {None}]

BrokerInit ==
    /\ ready = [n \in Notifications |-> 0]
    /\ unacked = [w \in Workers |-> None]

(***************************************************************************)
(* RabbitMQPublisher.Publish.  "ok" is a nil error.  Without confirms a    *)
(* nil error only says the frames were written: the broker may still lose  *)
(* the message (ok and not enqueued).  An error means nothing was          *)
(* published: no channel could be opened, or the write failed.             *)
(***************************************************************************)
Publish(n, enqueued, ok) ==
    /\ enqueued => ok
    /\ IF enqueued THEN UNCHANGED faults ELSE Fault
    /\ ready' = [ready EXCEPT ![n] = IF enqueued THEN @ + 1 ELSE @]
    /\ UNCHANGED unacked

\* Slip: every worker consumes the first queue.
QueueOfFirst(w) == SupportedChannels[1]

\* Worker i consumes queueNames[i % len(queueNames)], i counted from 0.
QueueOf(w) == SupportedChannels[((w - 1) % Len(SupportedChannels)) + 1]

Deliver(w, n) ==
    /\ ready[n] > 0
    /\ channel[n] = QueueOf(w)
    /\ unacked[w] = None
    /\ ready' = [ready EXCEPT ![n] = @ - 1]
    /\ unacked' = [unacked EXCEPT ![w] = n]

\* Acknowledging on a channel that is gone fails; the copy was requeued.
Ack(w) ==
    /\ unacked' = [unacked EXCEPT ![w] = None]
    /\ UNCHANGED ready

\* The copy w holds goes back to its queue: Nack(requeue), or w's AMQP
\* channel is lost.
Requeue(w) ==
    /\ ready' = [n \in Notifications |->
                    IF n = unacked[w] THEN ready[n] + 1 ELSE ready[n]]
    /\ unacked' = [unacked EXCEPT ![w] = None]

\* The connection goes down with the process: all copies held go back.
RequeueAll ==
    /\ \E held \in [Notifications -> 0..WorkerConcurrency] :
        /\ \A n \in Notifications : held[n] = Cardinality({w \in Workers : unacked[w] = n})
        /\ ready' = [n \in Notifications |-> ready[n] + held[n]]
    /\ unacked' = [w \in Workers |-> None]

===============================================================================
