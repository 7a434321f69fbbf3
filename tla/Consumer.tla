-------------------------------- MODULE Consumer --------------------------------
(***************************************************************************)
(* RabbitMQConsumer.Consume: the consumers of one work queue, its          *)
(* dead-letter queue, and channels that are lost.  pc[c] is where consumer *)
(* c is:                                                                   *)
(*    "connect"   at the start of consumeOnce                              *)
(*    "waiting"   at the select on ctx.Done() and deliveries               *)
(*    "handling"  in the handler, which is processMessage                  *)
(*    "answer"    about to Ack, Nack or Reject                             *)
(*    "failed"    consumeOnce returned an error                            *)
(*    "backoff"   in the select on ctx.Done() and time.After               *)
(*    "returned"  Consume returned nil                                     *)
(* main.go consumes with prefetch 1, so a channel has at most one delivery *)
(* that is not answered.  After a channel is lost the delivery that its    *)
(* consumer holds is stale: the broker has the message back.               *)
(***************************************************************************)
EXTENDS Failures

CONSTANTS
    Consumers,
    Messages,           \* one per Publish
    Malformed,          \* those json.Unmarshal or Validate refuses
    ReconnectBackoff,   \* reconnectBackoff, the first wait
    MaxBackoff,         \* maxBackoff
    None                \* no delivery

ASSUME ConsumerAssumption ==
    /\ Malformed \subseteq Messages
    /\ ReconnectBackoff \in Nat \ {0} /\ MaxBackoff \in Nat
    /\ ReconnectBackoff <= MaxBackoff
    /\ None \notin Messages
    /\ Consumers \cap {"unsent", "ready", "acked", "dlq"} = {}

VARIABLES
    place,      \* place[m]: "unsent", "ready", "acked", "dlq" or the consumer
                \* to whose channel m is delivered and not answered
    open,       \* consumers whose AMQP channel is open
    pc,
    delivery,   \* delivery[c]: what c has from its channel, or None
    answer,     \* answer[c]: "ack", "nack" or "reject"
    backoff,    \* backoff[c]: the wait after the next error
    stopped,    \* the context is cancelled
    calls,      \* history, calls[m]: times the handler was entered before stop
    handled     \* history: messages it returned nil for

brokerVars == <<place, open>>
consumerVars == <<pc, delivery, answer, backoff>>
history == <<calls, handled>>
vars == <<brokerVars, consumerVars, stopped, history, faults>>

ConsumerTypeOK ==
    /\ place \in [Messages -> {"unsent", "ready", "acked", "dlq"} \cup Consumers]
    /\ open \subseteq Consumers
    /\ pc \in [Consumers -> {"connect", "waiting", "handling", "answer", "failed",
                             "backoff", "returned"}]
    /\ delivery \in [Consumers -> Messages \cup {None}]
    /\ answer \in [Consumers -> {"ack", "nack", "reject"}]
    /\ backoff \in [Consumers -> ReconnectBackoff..MaxBackoff]
    /\ stopped \in BOOLEAN
    /\ calls \in [Messages -> Nat] /\ handled \subseteq Messages
    /\ faults \in 0..MaxFaults
    /\ \A c \in Consumers : pc[c] \in {"handling", "answer"} => delivery[c] # None

ConsumerInit ==
    /\ place = [m \in Messages |-> "unsent"]
    /\ open = {}
    /\ pc = [c \in Consumers |-> "connect"]
    /\ delivery = [c \in Consumers |-> None]
    /\ answer = [c \in Consumers |-> "nack"]
    /\ backoff = [c \in Consumers |-> ReconnectBackoff]
    /\ stopped = FALSE
    /\ calls = [m \in Messages |-> 0] /\ handled = {}
    /\ faults = 0

-------------------------------------------------------------------------------
(* RabbitMQ *)

Arrive(m) ==
    /\ place[m] = "unsent"
    /\ place' = [place EXCEPT ![m] = "ready"]
    /\ UNCHANGED <<open, consumerVars, stopped, history, faults>>

Holds(c) == {m \in Messages : place[m] = c}

Deliver(c, m) ==
    /\ c \in open /\ Holds(c) = {} /\ place[m] = "ready"
    /\ place' = [place EXCEPT ![m] = c]
    /\ delivery' = [delivery EXCEPT ![c] = m]
    /\ UNCHANGED <<open, pc, answer, backoff, stopped, history, faults>>

\* What the broker does when the channel of c goes: unanswered deliveries go
\* back to the queue.
CloseChannel(c) ==
    /\ open' = open \ {c}
    /\ place' = [m \in Messages |-> IF place[m] = c THEN "ready" ELSE place[m]]

LoseChannel(c) ==
    /\ c \in open
    /\ Fault
    /\ CloseChannel(c)
    /\ UNCHANGED <<consumerVars, stopped, history>>

-------------------------------------------------------------------------------
(* consumeOnce and handleDelivery *)

\* channel(ctx), Qos and Consume.
Subscribe(c) ==
    /\ pc[c] = "connect"
    /\ pc' = [pc EXCEPT ![c] = "waiting"]
    /\ open' = open \cup {c}
    /\ UNCHANGED <<place, delivery, answer, backoff, stopped, history, faults>>

\* One of the three fails.  channel(ctx) also fails when it waits for the
\* broker and the context is done.
SubscribeFails(c) ==
    /\ pc[c] = "connect"
    /\ IF stopped THEN UNCHANGED faults ELSE Fault
    /\ pc' = [pc EXCEPT ![c] = "failed"]
    /\ UNCHANGED <<brokerVars, delivery, answer, backoff, stopped, history>>

\* json.Unmarshal or Validate returns an error.
Refuses(m) == m \in Malformed

\* select takes the delivery.
Receive(c) ==
    LET m == delivery[c] IN
    /\ pc[c] = "waiting" /\ m # None
    /\ pc' = [pc EXCEPT ![c] = IF Refuses(m) THEN "answer" ELSE "handling"]
    /\ answer' = [answer EXCEPT ![c] = IF Refuses(m) THEN "reject" ELSE @]
    /\ calls' = IF Refuses(m) \/ stopped THEN calls ELSE [calls EXCEPT ![m] = @ + 1]
    /\ UNCHANGED <<brokerVars, delivery, backoff, stopped, handled, faults>>

\* Slip: the delivery of the lost channel is kept for the next one.
SeeClosedKeeping(c) ==
    /\ pc[c] = "waiting" /\ c \notin open
    /\ pc' = [pc EXCEPT ![c] = "failed"]
    /\ UNCHANGED <<brokerVars, delivery, answer, backoff, stopped, history, faults>>

\* select finds deliveries closed.  A buffered delivery may be dropped.
SeeClosed(c) ==
    /\ pc[c] = "waiting" /\ c \notin open
    /\ pc' = [pc EXCEPT ![c] = "failed"]
    /\ delivery' = [delivery EXCEPT ![c] = None]
    /\ UNCHANGED <<brokerVars, answer, backoff, stopped, history, faults>>

\* Slip: consumeOnce returns without closing its channel.
SeeStopKeepingChannel(c) ==
    /\ pc[c] = "waiting" /\ stopped
    /\ pc' = [pc EXCEPT ![c] = "returned"]
    /\ delivery' = [delivery EXCEPT ![c] = None]
    /\ UNCHANGED <<brokerVars, answer, backoff, stopped, history, faults>>

\* Slip: the loop ranges over deliveries and looks at the context afterwards.
SeeStopLate(c) ==
    /\ pc[c] = "waiting" /\ stopped /\ c \notin open
    /\ pc' = [pc EXCEPT ![c] = "returned"]
    /\ delivery' = [delivery EXCEPT ![c] = None]
    /\ UNCHANGED <<brokerVars, answer, backoff, stopped, history, faults>>

\* select takes ctx.Done(); the deferred ch.Close() gives back what is buffered.
SeeStop(c) ==
    /\ pc[c] = "waiting" /\ stopped
    /\ pc' = [pc EXCEPT ![c] = "returned"]
    /\ delivery' = [delivery EXCEPT ![c] = None]
    /\ CloseChannel(c)
    /\ UNCHANGED <<answer, backoff, stopped, history, faults>>

\* Slip: a handler error is logged and the message acknowledged.
HandleAlwaysAcks(c, ok) ==
    /\ pc[c] = "handling"
    /\ IF ok \/ stopped THEN UNCHANGED faults ELSE Fault
    /\ handled' = IF ok THEN handled \cup {delivery[c]} ELSE handled
    /\ answer' = [answer EXCEPT ![c] = "ack"]
    /\ pc' = [pc EXCEPT ![c] = "answer"]
    /\ UNCHANGED <<brokerVars, delivery, backoff, stopped, calls>>

\* The handler returns.  Its error is a failure of a service, or comes from the
\* cancelled context.
Handle(c, ok) ==
    /\ pc[c] = "handling"
    /\ IF ok \/ stopped THEN UNCHANGED faults ELSE Fault
    /\ handled' = IF ok THEN handled \cup {delivery[c]} ELSE handled
    /\ answer' = [answer EXCEPT ![c] = IF ok THEN "ack" ELSE "nack"]
    /\ pc' = [pc EXCEPT ![c] = "answer"]
    /\ UNCHANGED <<brokerVars, delivery, backoff, stopped, calls>>

\* Slip: Reject(true) puts a malformed message back.
AnsweredRequeueing(a) == IF a = "ack" THEN "acked" ELSE "ready"

\* Where Ack(false), Nack(false, true) and Reject(false) take a message.
\* declareTopology makes the work queue dead-letter into the queue's own DLQ.
Answered(a) == CASE a = "ack" -> "acked" [] a = "nack" -> "ready" [] a = "reject" -> "dlq"

\* Slip: the channel is closed before the answer is sent.
AnswerAfterClose(c) ==
    /\ pc[c] = "answer"
    /\ CloseChannel(c)
    /\ pc' = [pc EXCEPT ![c] = "failed"]
    /\ delivery' = [delivery EXCEPT ![c] = None]
    /\ UNCHANGED <<answer, backoff, stopped, history, faults>>

\* On a channel that is gone the answer is an error, and so is its loop.
Answer(c) ==
    /\ pc[c] = "answer"
    /\ IF c \in open
       THEN /\ place' = [place EXCEPT ![delivery[c]] = Answered(answer[c])]
            /\ pc' = [pc EXCEPT ![c] = "waiting"]
       ELSE /\ pc' = [pc EXCEPT ![c] = "failed"]
            /\ UNCHANGED place
    /\ delivery' = [delivery EXCEPT ![c] = None]
    /\ UNCHANGED <<open, answer, backoff, stopped, history, faults>>

\* The answer is written, and lost with the channel.
AnswerLost(c) ==
    /\ pc[c] = "answer" /\ c \in open
    /\ Fault
    /\ CloseChannel(c)
    /\ pc' = [pc EXCEPT ![c] = "waiting"]
    /\ delivery' = [delivery EXCEPT ![c] = None]
    /\ UNCHANGED <<answer, backoff, stopped, history>>

-------------------------------------------------------------------------------
(* The loop of Consume *)

\* consumeOnce has closed its channel.
AfterError(c) ==
    /\ pc[c] = "failed"
    /\ pc' = [pc EXCEPT ![c] = IF stopped THEN "returned" ELSE "backoff"]
    /\ UNCHANGED <<brokerVars, delivery, answer, backoff, stopped, history, faults>>

\* Slip: the bound is not applied.
DoubledForEver(b) == 2 * b

Doubled(b) == IF 2 * b > MaxBackoff THEN MaxBackoff ELSE 2 * b

\* time.After fires, also if the context is done by then.
Wake(c) ==
    /\ pc[c] = "backoff"
    /\ backoff' = [backoff EXCEPT ![c] = Doubled(@)]
    /\ pc' = [pc EXCEPT ![c] = "connect"]
    /\ UNCHANGED <<brokerVars, delivery, answer, stopped, history, faults>>

WakeToStop(c) ==
    /\ pc[c] = "backoff" /\ stopped
    /\ pc' = [pc EXCEPT ![c] = "returned"]
    /\ UNCHANGED <<brokerVars, delivery, answer, backoff, stopped, history, faults>>

Stop ==
    /\ ~stopped
    /\ stopped' = TRUE
    /\ UNCHANGED <<brokerVars, consumerVars, history, faults>>

ConsumerStep(c) ==
    \/ Subscribe(c) \/ Receive(c) \/ SeeClosed(c) \/ Answer(c)
    \/ AfterError(c) \/ Wake(c)

ConsumerNext ==
    \/ Stop
    \/ \E m \in Messages : Arrive(m)
    \/ \E c \in Consumers :
        \/ ConsumerStep(c) \/ SeeStop(c) \/ WakeToStop(c)
        \/ SubscribeFails(c) \/ LoseChannel(c) \/ AnswerLost(c)
        \/ \E ok \in BOOLEAN : Handle(c, ok)
        \/ \E m \in Messages : Deliver(c, m)

ConsumerSpec == ConsumerInit /\ [][ConsumerNext]_vars

(***************************************************************************)
(* Goroutines run, the handler returns, and the broker delivers what is    *)
(* ready.  A select with several ready cases picks one at random: one that *)
(* is ready again and again is taken in the end, hence SF for SeeStop.     *)
(***************************************************************************)
FairConsumerSpec ==
    /\ ConsumerSpec
    /\ \A c \in Consumers :
        /\ WF_vars(ConsumerStep(c))
        /\ WF_vars(\E ok \in BOOLEAN : Handle(c, ok))
        /\ WF_vars(\E m \in Messages : Deliver(c, m))
        /\ SF_vars(SeeStop(c))

-------------------------------------------------------------------------------
\* A message leaves the work queue for good only when the handler returned nil
\* for it, or, into the dead-letter queue, when it is malformed; the handler
\* completes no malformed one.  Whatever channels and answers are lost on the
\* way.
NothingVanishes ==
    \A m \in Messages :
        /\ place[m] = "acked" => m \in handled
        /\ place[m] = "dlq" => m \in Malformed
        /\ m \in handled => m \notin Malformed

\* Redelivery is the exception: every entry of the handler beyond the first is
\* paid for by a failure, until the program is stopped.
RedeliveryNeedsFailure ==
    \A m \in Messages : calls[m] <= 1 + faults

\* Two consumers work on the same message only if one of them holds a stale
\* delivery: its channel is lost, and its answer will not count.
OneLiveDelivery ==
    \A c, d \in Consumers :
        c # d /\ delivery[c] = delivery[d] /\ delivery[c] # None => c \notin open \/ d \notin open

\* A consumer that has returned keeps no message from the others.
NothingHeldAfterReturn ==
    \A c \in Consumers : pc[c] = "returned" => Holds(c) = {}

\* Every message is acknowledged or dead-lettered unless the program stops: a
\* malformed one, or one whose handler fails, does not block the queue.
QueueMovesOn ==
    \A m \in Messages :
        place[m] = "ready" ~> (place[m] \in {"acked", "dlq"} \/ stopped)

\* After the context is cancelled every consumer returns, wherever it was.
StopEndsConsume ==
    \A c \in Consumers : stopped ~> pc[c] = "returned"

===============================================================================
