----------------------------- MODULE ConsumerProofs -----------------------------
(***************************************************************************)
(* Nothing vanishes between the work queue and the handler, and only a     *)
(* failure makes the handler see a message again, for any number of        *)
(* consumers, messages and failures.                                       *)
(***************************************************************************)
EXTENDS Consumer, TLAPS

\* Consumers that have no channel: they hold nothing.
Away == {"connect", "failed", "backoff", "returned"}

\* What consumer c has and what the broker knows of it agree: a delivery on an
\* open channel is unanswered, and every unanswered delivery is one of those.
InStep(c) ==
    /\ \A m \in Messages : place[m] = c => c \in open /\ delivery[c] = m
    /\ c \in open /\ delivery[c] # None => place[delivery[c]] = c
    /\ pc[c] \in Away => c \notin open /\ delivery[c] = None

\* The answer c is about to give is the one its delivery deserves.
Deserved(c) ==
    /\ pc[c] = "handling" => delivery[c] \notin Malformed
    /\ pc[c] = "answer" /\ answer[c] = "ack" => delivery[c] \in handled
    /\ pc[c] = "answer" /\ answer[c] = "reject" => delivery[c] \in Malformed

ConsumerInv ==
    /\ ConsumerTypeOK
    /\ NothingVanishes
    /\ \A c \in Consumers : InStep(c) /\ Deserved(c)

-------------------------------------------------------------------------------

\* Before the first Consume: nothing is delivered and no channel is open.
LEMMA ConsumerInitially == ConsumerInit => ConsumerInv
<1> SUFFICES ASSUME ConsumerInit
             PROVE  ConsumerInv
    OBVIOUS
<1> USE ConsumerAssumption, MaxFaultsAssumption DEF ConsumerInit
<1>1. ConsumerTypeOK
    <2>1. stopped \in BOOLEAN
        BY Zenon
    <2>2. /\ faults \in 0..MaxFaults
          /\ backoff \in [Consumers -> ReconnectBackoff..MaxBackoff]
        BY SMT
    <2>3. /\ place \in [Messages -> {"unsent", "ready", "acked", "dlq"} \cup Consumers]
          /\ pc \in [Consumers -> {"connect", "waiting", "handling", "answer", "failed",
                                   "backoff", "returned"}]
          /\ delivery \in [Consumers -> Messages \cup {None}]
          /\ answer \in [Consumers -> {"ack", "nack", "reject"}]
          /\ open \subseteq Consumers /\ handled \subseteq Messages
          /\ \A c \in Consumers : pc[c] = "connect"
        OBVIOUS
    <2>4. calls \in [Messages -> Nat]
        BY SMT
    <2> QED
        BY <2>1, <2>2, <2>3, <2>4 DEF ConsumerTypeOK
<1>2. NothingVanishes
    BY DEF NothingVanishes
<1>3. \A c \in Consumers : InStep(c) /\ Deserved(c)
    BY Zenon DEF InStep, Deserved, Away
<1> QED
    BY <1>1, <1>2, <1>3 DEF ConsumerInv

\* The types, action by action.
LEMMA TypeStep ==
    ASSUME ConsumerTypeOK, ConsumerNext
    PROVE  ConsumerTypeOK'
<1> USE MaxFaultsAssumption, ConsumerAssumption
    DEF ConsumerTypeOK, history, brokerVars, consumerVars
<1>1. CASE Stop
    BY <1>1 DEF Stop
<1>2. ASSUME NEW m \in Messages, Arrive(m)
      PROVE  ConsumerTypeOK'
    BY <1>2 DEF Arrive
<1>3. ASSUME NEW c \in Consumers, NEW m \in Messages, Deliver(c, m)
      PROVE  ConsumerTypeOK'
    BY <1>3 DEF Deliver
<1>4. ASSUME NEW c \in Consumers, Subscribe(c) \/ AfterError(c) \/ WakeToStop(c)
      PROVE  ConsumerTypeOK'
    BY <1>4 DEF Subscribe, AfterError, WakeToStop
<1>5. ASSUME NEW c \in Consumers, Receive(c) \/ SeeClosed(c) \/ SeeStop(c)
      PROVE  ConsumerTypeOK'
    BY <1>5 DEF Receive, SeeClosed, SeeStop, CloseChannel
<1>6. ASSUME NEW c \in Consumers, Wake(c)
      PROVE  ConsumerTypeOK'
    <2>1. Doubled(backoff[c]) \in ReconnectBackoff..MaxBackoff
        BY DEF Doubled
    <2> QED
        BY <1>6, <2>1 DEF Wake
<1>7. ASSUME NEW c \in Consumers, Answer(c) \/ AnswerLost(c)
      PROVE  ConsumerTypeOK'
    <2>1. Answered(answer[c]) \in {"ready", "acked", "dlq"}
        BY DEF Answered
    <2> QED
        BY <1>7, <2>1 DEF Answer, AnswerLost, CloseChannel, Fault
<1>8. ASSUME NEW c \in Consumers, SubscribeFails(c) \/ LoseChannel(c)
      PROVE  ConsumerTypeOK'
    BY <1>8 DEF SubscribeFails, LoseChannel, CloseChannel, Fault
<1>9. ASSUME NEW c \in Consumers, NEW ok \in BOOLEAN, Handle(c, ok)
      PROVE  ConsumerTypeOK'
    BY <1>9 DEF Handle, Fault
<1> QED
    BY <1>1, <1>2, <1>3, <1>4, <1>5, <1>6, <1>7, <1>8, <1>9
    DEF ConsumerNext, ConsumerStep

\* A step that leaves the broker and the deliveries alone, and moves consumers
\* that have no channel among themselves only.
LEMMA InStepFrame ==
    ASSUME NEW d \in Consumers, InStep(d), UNCHANGED <<place, open, delivery>>,
           pc'[d] \in Away => pc[d] \in Away
    PROVE  InStep(d)'
BY DEF InStep

\* When the channel of c goes, nobody else's deliveries are touched.
LEMMA CloseInStep ==
    ASSUME ConsumerInv, NEW c \in Consumers, NEW d \in Consumers, CloseChannel(c),
           \/ UNCHANGED <<delivery, pc>>
           \/ /\ delivery' = [delivery EXCEPT ![c] = None]
              /\ \E s \in {"waiting", "returned"} : pc' = [pc EXCEPT ![c] = s]
    PROVE  InStep(d)'
BY ConsumerAssumption DEF ConsumerInv, ConsumerTypeOK, InStep, CloseChannel, Away

\* The broker and the consumers stay in step.
LEMMA InStepStep ==
    ASSUME ConsumerInv, ConsumerNext, NEW d \in Consumers
    PROVE  InStep(d)'
<1> USE DEF ConsumerInv, history, brokerVars, consumerVars
<1>1. CASE Stop
    BY <1>1, InStepFrame DEF Stop
<1>2. ASSUME NEW m \in Messages, Arrive(m)
      PROVE  InStep(d)'
    BY <1>2, ConsumerAssumption DEF Arrive, InStep, ConsumerTypeOK, Away
<1>3. ASSUME NEW c \in Consumers, NEW m \in Messages, Deliver(c, m)
      PROVE  InStep(d)'
    BY <1>3, ConsumerAssumption DEF Deliver, Holds, InStep, ConsumerTypeOK, Away
<1>4. ASSUME NEW c \in Consumers, Subscribe(c)
      PROVE  InStep(d)'
    BY <1>4 DEF Subscribe, InStep, ConsumerTypeOK, Away
<1>5. ASSUME NEW c \in Consumers,
             \/ SubscribeFails(c) \/ Receive(c) \/ AfterError(c) \/ Wake(c) \/ WakeToStop(c)
             \/ \E ok \in BOOLEAN : Handle(c, ok)
      PROVE  InStep(d)'
    <2>1. UNCHANGED <<place, open, delivery>>
        BY <1>5 DEF SubscribeFails, Receive, AfterError, Wake, WakeToStop, Handle
    <2>2. pc'[d] \in Away => pc[d] \in Away
        BY <1>5 DEF SubscribeFails, Receive, AfterError, Wake, WakeToStop, Handle,
                    ConsumerTypeOK, Away
    <2> QED
        BY <2>1, <2>2, InStepFrame
<1>6. ASSUME NEW c \in Consumers, SeeClosed(c)
      PROVE  InStep(d)'
    BY <1>6 DEF SeeClosed, InStep, ConsumerTypeOK, Away
<1>7. ASSUME NEW c \in Consumers, Answer(c)
      PROVE  InStep(d)'
    <2>1. Answered(answer[c]) \in {"ready", "acked", "dlq"}
        BY DEF Answered, ConsumerTypeOK
    <2>2. CASE c \in open
        BY <1>7, <2>1, <2>2, ConsumerAssumption DEF Answer, InStep, ConsumerTypeOK, Away
    <2>3. CASE c \notin open
        BY <1>7, <2>3 DEF Answer, InStep, ConsumerTypeOK, Away
    <2> QED
        BY <2>2, <2>3
<1>8. ASSUME NEW c \in Consumers, SeeStop(c) \/ AnswerLost(c)
      PROVE  InStep(d)'
    BY <1>8, CloseInStep DEF SeeStop, AnswerLost, ConsumerTypeOK
<1>9. ASSUME NEW c \in Consumers, LoseChannel(c)
      PROVE  InStep(d)'
    BY <1>9, CloseInStep, Zenon DEF LoseChannel
<1> QED
    BY <1>1, <1>2, <1>3, <1>4, <1>5, <1>6, <1>7, <1>8, <1>9
    DEF ConsumerNext, ConsumerStep

\* Every answer is the one that its message deserves, and stays so until it is
\* given: the set of handled messages only grows.
LEMMA DeservedStep ==
    ASSUME ConsumerInv, ConsumerNext, NEW d \in Consumers
    PROVE  Deserved(d)'
<1> USE DEF ConsumerInv, history, brokerVars, consumerVars, Deserved
<1>1. CASE Stop \/ \E m \in Messages : Arrive(m)
    BY <1>1 DEF Stop, Arrive
<1>2. ASSUME NEW c \in Consumers, NEW m \in Messages, Deliver(c, m)
      PROVE  Deserved(d)'
    BY <1>2, ConsumerAssumption DEF Deliver, Holds, InStep, ConsumerTypeOK, Away
<1>3. ASSUME NEW c \in Consumers,
             \/ Subscribe(c) \/ SubscribeFails(c) \/ SeeClosed(c) \/ SeeStop(c)
             \/ AfterError(c) \/ Wake(c) \/ WakeToStop(c)
      PROVE  Deserved(d)'
    BY <1>3 DEF Subscribe, SubscribeFails, SeeClosed, SeeStop, AfterError, Wake,
                WakeToStop, ConsumerTypeOK
<1>4. ASSUME NEW c \in Consumers, Receive(c)
      PROVE  Deserved(d)'
    BY <1>4 DEF Receive, Refuses, ConsumerTypeOK
<1>5. ASSUME NEW c \in Consumers, NEW ok \in BOOLEAN, Handle(c, ok)
      PROVE  Deserved(d)'
    BY <1>5 DEF Handle, ConsumerTypeOK
<1>6. ASSUME NEW c \in Consumers, Answer(c) \/ AnswerLost(c)
      PROVE  Deserved(d)'
    BY <1>6 DEF Answer, AnswerLost, ConsumerTypeOK
<1>7. ASSUME NEW c \in Consumers, LoseChannel(c)
      PROVE  Deserved(d)'
    BY <1>7, Zenon DEF LoseChannel
<1> QED
    BY <1>1, <1>2, <1>3, <1>4, <1>5, <1>6, <1>7, Zenon DEF ConsumerNext, ConsumerStep

\* A message leaves the queue through Answer only.
LEMMA VanishStep ==
    ASSUME ConsumerInv, ConsumerNext
    PROVE  NothingVanishes'
<1> USE DEF ConsumerInv, NothingVanishes, history, brokerVars, consumerVars
<1>1. CASE Stop \/ \E m \in Messages : Arrive(m)
    BY <1>1 DEF Stop, Arrive, ConsumerTypeOK
<1>2. ASSUME NEW c \in Consumers, NEW m \in Messages, Deliver(c, m)
      PROVE  NothingVanishes'
    BY <1>2, ConsumerAssumption DEF Deliver, ConsumerTypeOK
<1>3. ASSUME NEW c \in Consumers,
             \/ Subscribe(c) \/ SubscribeFails(c) \/ Receive(c) \/ SeeClosed(c)
             \/ AfterError(c) \/ Wake(c) \/ WakeToStop(c)
      PROVE  NothingVanishes'
    BY <1>3 DEF Subscribe, SubscribeFails, Receive, SeeClosed, AfterError, Wake, WakeToStop
<1>4. ASSUME NEW c \in Consumers, SeeStop(c) \/ LoseChannel(c) \/ AnswerLost(c)
      PROVE  NothingVanishes'
    BY <1>4, Zenon DEF SeeStop, LoseChannel, AnswerLost, CloseChannel
<1>5. ASSUME NEW c \in Consumers, NEW ok \in BOOLEAN, Handle(c, ok)
      PROVE  NothingVanishes'
    BY <1>5 DEF Handle, Deserved
<1>6. ASSUME NEW c \in Consumers, Answer(c)
      PROVE  NothingVanishes'
    <2>1. CASE c \in open
        BY <1>6, <2>1 DEF Answer, Answered, Deserved, ConsumerTypeOK
    <2>2. CASE c \notin open
        BY <1>6, <2>2 DEF Answer
    <2> QED
        BY <2>1, <2>2
<1> QED
    BY <1>1, <1>2, <1>3, <1>4, <1>5, <1>6 DEF ConsumerNext, ConsumerStep

\* The inductive invariant of the consumers.
THEOREM ConsumerInvariant == ConsumerSpec => []ConsumerInv
<1>1. ConsumerInv /\ [ConsumerNext]_vars => ConsumerInv'
    <2> SUFFICES ASSUME ConsumerInv, [ConsumerNext]_vars
                 PROVE  ConsumerInv'
        OBVIOUS
    <2>1. CASE ConsumerNext
        BY <2>1, TypeStep, InStepStep, DeservedStep, VanishStep DEF ConsumerInv
    <2>2. CASE UNCHANGED vars
        BY <2>2 DEF ConsumerInv, ConsumerTypeOK, NothingVanishes, InStep, Deserved,
                    vars, brokerVars, consumerVars, history
    <2> QED
        BY <2>1, <2>2
<1> QED
    BY <1>1, ConsumerInitially, PTL DEF ConsumerSpec

\* The variables keep their types.
THEOREM ConsumerTypeCorrect == ConsumerSpec => []ConsumerTypeOK
<1>1. ConsumerInv => ConsumerTypeOK
    BY DEF ConsumerInv
<1> QED
    BY <1>1, ConsumerInvariant, PTL

\* consumer.go: a message is acknowledged only after the handler returned nil
\* for it and dead-lettered only if it is malformed.
THEOREM NothingEverVanishes == ConsumerSpec => []NothingVanishes
<1>1. ConsumerInv => NothingVanishes
    BY DEF ConsumerInv
<1> QED
    BY <1>1, ConsumerInvariant, PTL

\* consumer.go: of two consumers that work on the same message at most one has
\* a channel on which its answer counts.
THEOREM AlwaysOneLiveDelivery == ConsumerSpec => []OneLiveDelivery
<1>1. ConsumerInv => OneLiveDelivery
    BY DEF ConsumerInv, OneLiveDelivery, InStep, ConsumerTypeOK
<1> QED
    BY <1>1, ConsumerInvariant, PTL

\* consumer.go: a consumer that has returned holds no message back.
THEOREM NeverHeldAfterReturn == ConsumerSpec => []NothingHeldAfterReturn
<1>1. ConsumerInv => NothingHeldAfterReturn
    BY DEF ConsumerInv, NothingHeldAfterReturn, Holds, InStep, Away
<1> QED
    BY <1>1, ConsumerInvariant, PTL

-------------------------------------------------------------------------------
(* Redelivery needs a failure.                                             *)

\* Consumers about to take m from a channel that is lost: each will enter the
\* handler for m although m is in the queue again.
Stale(m) == {c \in Consumers : pc[c] = "waiting" /\ c \notin open /\ delivery[c] = m}

\* The handler was entered for m, and m will not be delivered again unless
\* something fails from now on.
Entered(m) ==
    \/ place[m] = "acked"
    \/ \E c \in open :
        /\ delivery[c] = m
        /\ pc[c] = "handling" \/ (pc[c] = "answer" /\ answer[c] = "ack")

\* S has at most k elements.
AtMost(S, k) == \E f \in [S -> 1..k] : \A x, y \in S : f[x] = f[y] => x = y

\* Until stop the failures so far pay for every entry but one, and for those
\* still to come from stale deliveries.  After stop calls is frozen.
Paid(m) ==
    /\ calls[m] <= 1 + faults
    /\ ~stopped => \E k \in Nat :
        AtMost(Stale(m), k) /\ calls[m] + k <= faults + (IF Entered(m) THEN 1 ELSE 0)

\* A subset has no more elements.
LEMMA AtMostSubset ==
    ASSUME NEW S, NEW T, T \subseteq S, NEW k \in Nat, AtMost(S, k)
    PROVE  AtMost(T, k)
<1>1. PICK f \in [S -> 1..k] : \A x, y \in S : f[x] = f[y] => x = y
    BY DEF AtMost
<1> DEFINE g == [x \in T |-> f[x]]
<1>2. g \in [T -> 1..k] /\ \A x, y \in T : g[x] = g[y] => x = y
    BY <1>1
<1> QED
    BY <1>2, Zenon DEF AtMost

\* One more element needs one more number.
LEMMA AtMostAdd ==
    ASSUME NEW S, NEW c, NEW k \in Nat, AtMost(S, k)
    PROVE  AtMost(S \cup {c}, k + 1)
<1>1. PICK f \in [S -> 1..k] : \A x, y \in S : f[x] = f[y] => x = y
    BY DEF AtMost
<1> DEFINE g == [x \in S \cup {c} |-> IF x \in S THEN f[x] ELSE k + 1]
<1>2. g \in [S \cup {c} -> 1..(k + 1)]
    OBVIOUS
<1>3. \A x, y \in S \cup {c} : g[x] = g[y] => x = y
    BY <1>1
<1> QED
    BY <1>2, <1>3, Zenon DEF AtMost

\* Without one of its elements a set needs one number less.
LEMMA AtMostRemove ==
    ASSUME NEW S, NEW c \in S, NEW k \in Nat, AtMost(S, k)
    PROVE  k > 0 /\ AtMost(S \ {c}, k - 1)
<1>1. PICK f \in [S -> 1..k] : \A x, y \in S : f[x] = f[y] => x = y
    BY DEF AtMost
<1> DEFINE g == [x \in S \ {c} |-> IF f[x] = k THEN f[c] ELSE f[x]]
<1>2. k > 0 /\ g \in [S \ {c} -> 1..(k - 1)]
    BY <1>1
<1>3. \A x, y \in S \ {c} : g[x] = g[y] => x = y
    BY <1>1
<1> QED
    BY <1>2, <1>3, Zenon DEF AtMost

\* A step that enters no handler and makes no delivery stale: it may forget an
\* entry only if it is a failure, or after stop.
LEMMA PaidFrame ==
    ASSUME ConsumerTypeOK, ConsumerTypeOK', NEW m \in Messages, Paid(m),
           calls'[m] = calls[m], Stale(m)' \subseteq Stale(m), stopped => stopped',
           \/ faults' = faults + 1
           \/ faults' = faults /\ (stopped' \/ (Entered(m) => Entered(m)'))
    PROVE  Paid(m)'
<1>1. calls[m] \in Nat /\ faults \in Nat
    BY MaxFaultsAssumption DEF ConsumerTypeOK
<1>2. ASSUME ~stopped'
      PROVE  \E k \in Nat : /\ AtMost(Stale(m)', k)
                            /\ calls'[m] + k <= faults' + (IF Entered(m)' THEN 1 ELSE 0)
    <2>1. PICK k \in Nat : /\ AtMost(Stale(m), k)
                           /\ calls[m] + k <= faults + (IF Entered(m) THEN 1 ELSE 0)
        BY <1>2 DEF Paid
    <2>2. AtMost(Stale(m)', k)
        BY <2>1, AtMostSubset
    <2> QED
        BY <1>1, <1>2, <2>1, <2>2
<1> QED
    BY <1>1, <1>2 DEF Paid

\* select takes a delivery.
LEMMA PaidReceive ==
    ASSUME ConsumerInv, ConsumerInv', NEW m \in Messages, Paid(m),
           NEW c \in Consumers, Receive(c)
    PROVE  Paid(m)'
<1> DEFINE d == delivery[c]
<1>1. /\ d \in Messages /\ pc[c] = "waiting" /\ pc'[c] \in {"answer", "handling"}
      /\ UNCHANGED <<place, open, delivery, stopped, faults>>
      /\ \A e \in Consumers \ {c} : pc'[e] = pc[e] /\ answer'[e] = answer[e]
    BY DEF Receive, ConsumerInv, ConsumerTypeOK, brokerVars
<1>2. Entered(m) => Entered(m)'
    BY <1>1 DEF Entered, ConsumerInv, ConsumerTypeOK
<1>3. Stale(m)' = Stale(m) \ {c}
    <2>1. /\ pc'[c] # "waiting" /\ UNCHANGED <<open, delivery>>
          /\ \A e \in Consumers \ {c} : pc'[e] = pc[e]
        BY <1>1
    <2> QED
        BY <2>1 DEF Stale
<1>4. CASE calls'[m] = calls[m]
    BY <1>1, <1>2, <1>3, <1>4, PaidFrame DEF ConsumerInv
<1>5. CASE calls'[m] # calls[m]
    <2>1. /\ ~stopped /\ m = d /\ calls'[m] = calls[m] + 1 /\ pc'[c] = "handling"
          /\ calls[m] \in Nat /\ faults \in Nat /\ ~stopped' /\ faults' = faults
        <3>1. /\ pc \in [Consumers -> {"connect", "waiting", "handling", "answer", "failed",
                                       "backoff", "returned"}]
              /\ calls \in [Messages -> Nat] /\ faults \in Nat
            BY MaxFaultsAssumption DEF ConsumerInv, ConsumerTypeOK
        <3> QED
            BY <1>1, <1>5, <3>1 DEF Receive
    <2>2. PICK k \in Nat : /\ AtMost(Stale(m), k)
                           /\ calls[m] + k <= faults + (IF Entered(m) THEN 1 ELSE 0)
        BY <2>1, Zenon DEF Paid
    <2>3. CASE c \notin open
        <3>1. c \in Stale(m)
            BY <1>1, <2>1, <2>3 DEF Stale
        <3>2. k - 1 \in Nat /\ AtMost(Stale(m)', k - 1)
            BY <1>3, <2>2, <3>1, AtMostRemove
        <3> QED
            BY <1>2, <2>1, <2>2, <3>2 DEF Paid
    <2>4. CASE c \in open
        <3>1. Entered(m)'
            BY <1>1, <2>1, <2>4, Zenon DEF Entered
        <3>2. ~Entered(m)
            <4>1. place[m] = c /\ c # "acked"
                BY <1>1, <2>1, <2>4, ConsumerAssumption, Zenon
                DEF ConsumerInv, ConsumerTypeOK, InStep
            <4>2. \A e \in open : delivery[e] = m => e = c
                BY <1>1, <2>1, <4>1 DEF ConsumerInv, ConsumerTypeOK, InStep
            <4> QED
                BY <1>1, <4>1, <4>2, Zenon DEF Entered
        <3>3. AtMost(Stale(m)', k)
            BY <1>3, <2>2, AtMostSubset, Zenon
        <3> QED
            BY <2>1, <2>2, <3>1, <3>2, <3>3 DEF Paid
    <2> QED
        BY <2>3, <2>4, Zenon
<1> QED
    BY <1>4, <1>5

\* The channel of c is lost, with what c has not yet taken from it.
LEMMA PaidLose ==
    ASSUME ConsumerInv, ConsumerInv', NEW m \in Messages, Paid(m),
           NEW c \in Consumers, LoseChannel(c)
    PROVE  Paid(m)'
<1>1. /\ c \in open /\ open' = open \ {c} /\ faults' = faults + 1
      /\ UNCHANGED <<pc, delivery, answer, stopped, calls>>
      /\ place[m] = "acked" => place'[m] = "acked"
    BY ConsumerAssumption, Zenon DEF LoseChannel, CloseChannel, Fault, consumerVars, history
<1>2. CASE pc[c] = "waiting" /\ delivery[c] = m
    <2>1. Stale(m)' = Stale(m) \cup {c}
        BY <1>1, <1>2 DEF Stale
    <2>2. Entered(m) => Entered(m)'
        BY <1>1, <1>2 DEF Entered
    <2>3. calls[m] \in Nat /\ faults \in Nat
        BY MaxFaultsAssumption DEF ConsumerInv, ConsumerTypeOK
    <2>4. ASSUME ~stopped
          PROVE  \E k \in Nat : /\ AtMost(Stale(m)', k)
                                /\ calls'[m] + k <= faults' + (IF Entered(m)' THEN 1 ELSE 0)
        <3>1. PICK k \in Nat : /\ AtMost(Stale(m), k)
                               /\ calls[m] + k <= faults + (IF Entered(m) THEN 1 ELSE 0)
            BY <2>4 DEF Paid
        <3>2. AtMost(Stale(m) \cup {c}, k + 1)
            BY <3>1, AtMostAdd, Zenon
        <3> QED
            BY <1>1, <2>1, <2>2, <2>3, <3>1, <3>2
    <2> QED
        BY <1>1, <2>3, <2>4 DEF Paid
<1>3. CASE ~(pc[c] = "waiting" /\ delivery[c] = m)
    <2>1. Stale(m)' = Stale(m)
        BY <1>1, <1>3 DEF Stale
    <2> QED
        BY <1>1, <2>1, PaidFrame DEF ConsumerInv
<1> QED
    BY <1>2, <1>3

\* Consumers, the broker and the channels.
LEMMA PaidStep ==
    ASSUME ConsumerInv, ConsumerInv', NEW m \in Messages, Paid(m), [ConsumerNext]_vars
    PROVE  Paid(m)'
<1>1. ConsumerTypeOK /\ ConsumerTypeOK'
    BY DEF ConsumerInv
<1>2. /\ pc \in [Consumers -> {"connect", "waiting", "handling", "answer", "failed",
                               "backoff", "returned"}]
      /\ delivery \in [Consumers -> Messages \cup {None}]
      /\ answer \in [Consumers -> {"ack", "nack", "reject"}] /\ open \subseteq Consumers
    BY <1>1 DEF ConsumerTypeOK
<1>3. CASE UNCHANGED vars
    BY <1>1, <1>3, PaidFrame, Zenon DEF vars, brokerVars, consumerVars, history, Stale, Entered
<1>4. CASE Stop
    BY <1>1, <1>4, PaidFrame DEF Stop, brokerVars, consumerVars, history, Stale
<1>5. ASSUME NEW n \in Messages, Arrive(n)
      PROVE  Paid(m)'
    <2>1. Entered(m) => Entered(m)'
        BY <1>1, <1>5 DEF Arrive, Entered, ConsumerTypeOK, consumerVars
    <2> QED
        BY <1>1, <1>5, <2>1, PaidFrame DEF Arrive, consumerVars, history, Stale
<1>6. ASSUME NEW c \in Consumers, NEW n \in Messages, Deliver(c, n)
      PROVE  Paid(m)'
    <2>1. delivery[c] = None /\ c \in open
        BY <1>6 DEF Deliver, Holds, ConsumerInv, ConsumerTypeOK, InStep
    <2>2. Entered(m) => Entered(m)'
        BY <1>1, <1>2, <1>6, <2>1, ConsumerAssumption DEF Deliver, Entered, ConsumerTypeOK
    <2>3. Stale(m)' \subseteq Stale(m)
        BY <1>2, <1>6, <2>1 DEF Deliver, Stale
    <2> QED
        BY <1>1, <1>6, <2>2, <2>3, PaidFrame, Zenon DEF Deliver, history
<1>7. ASSUME NEW c \in Consumers, Subscribe(c)
      PROVE  Paid(m)'
    <2>1. Entered(m) => Entered(m)'
        BY <1>2, <1>7 DEF Subscribe, Entered
    <2>2. Stale(m)' \subseteq Stale(m)
        BY <1>2, <1>7, ZenonT(30) DEF Subscribe, Stale
    <2> QED
        BY <1>1, <1>7, <2>1, <2>2, PaidFrame DEF Subscribe, history
<1>8. ASSUME NEW c \in Consumers,
             SubscribeFails(c) \/ AfterError(c) \/ Wake(c) \/ WakeToStop(c) \/ SeeClosed(c)
      PROVE  Paid(m)'
    <2>1. /\ UNCHANGED <<place, open, answer, stopped, calls>>
          /\ pc[c] \notin {"handling", "answer"} /\ pc'[c] # "waiting"
          /\ \A d \in Consumers \ {c} : UNCHANGED <<pc[d], delivery[d]>>
          /\ faults' = faults \/ faults' = faults + 1
        BY <1>2, <1>8, Zenon
        DEF SubscribeFails, AfterError, Wake, WakeToStop, SeeClosed, brokerVars,
            history, Fault
    <2>2. (Entered(m) => Entered(m)') /\ Stale(m)' \subseteq Stale(m)
        BY <1>2, <2>1 DEF Entered, Stale
    <2> QED
        BY <1>1, <2>1, <2>2, PaidFrame
<1>9. ASSUME NEW c \in Consumers, Receive(c) \/ LoseChannel(c)
      PROVE  Paid(m)'
    BY <1>9, PaidReceive, PaidLose
<1>10. ASSUME NEW c \in Consumers, NEW ok \in BOOLEAN, Handle(c, ok)
      PROVE  Paid(m)'
    <2>1. /\ pc[c] = "handling" /\ pc' = [pc EXCEPT ![c] = "answer"]
          /\ ok => answer' = [answer EXCEPT ![c] = "ack"]
          /\ UNCHANGED <<place, open, delivery, calls, stopped>>
          /\ faults' = faults + 1 \/ (faults' = faults /\ (ok \/ stopped))
        BY <1>10, Zenon DEF Handle, brokerVars, Fault
    <2>2. \A d \in Consumers : pc'[d] = "waiting" => pc[d] = "waiting"
        BY <1>2, <2>1
    <2>3. Stale(m)' \subseteq Stale(m)
        BY <2>1, <2>2 DEF Stale
    <2>4. ok => (Entered(m) => Entered(m)')
        BY <1>2, <2>1 DEF Entered
    <2> QED
        BY <1>1, <2>1, <2>3, <2>4, PaidFrame
<1>11. ASSUME NEW c \in Consumers, Answer(c)
      PROVE  Paid(m)'
    <2>1. Stale(m)' \subseteq Stale(m) /\ UNCHANGED <<calls, stopped, faults>>
        BY <1>2, <1>11, ConsumerAssumption DEF Answer, Stale, history
    <2>2. Entered(m) => Entered(m)'
        BY <1>1, <1>2, <1>11, ConsumerAssumption
        DEF Answer, Answered, Entered, ConsumerTypeOK, ConsumerInv, InStep
    <2> QED
        BY <1>1, <2>1, <2>2, PaidFrame
<1>12. ASSUME NEW c \in Consumers, SeeStop(c) \/ AnswerLost(c)
      PROVE  Paid(m)'
    <2>1. Stale(m)' \subseteq Stale(m) /\ UNCHANGED <<calls, stopped>>
        BY <1>2, <1>12, ConsumerAssumption DEF SeeStop, AnswerLost, CloseChannel, Stale, history
    <2> QED
        BY <1>1, <1>12, <2>1, PaidFrame DEF SeeStop, AnswerLost, Fault
<1> QED
    BY <1>3, <1>4, <1>5, <1>6, <1>7, <1>8, <1>9, <1>10, <1>11, <1>12
    DEF ConsumerNext, ConsumerStep

\* consumer.go: a message reaches the handler again only because a channel, an
\* answer or the handler failed: stale deliveries included, never more often
\* than that.
THEOREM RedeliveryIsPaidFor == ConsumerSpec => []RedeliveryNeedsFailure
<1> DEFINE AllPaid == \A m \in Messages : Paid(m)
<1>1. ConsumerInit => AllPaid
    <2> SUFFICES ASSUME ConsumerInit, NEW m \in Messages
                 PROVE  Paid(m)
        OBVIOUS
    <2>1. Stale(m) = {} /\ calls[m] = 0 /\ faults = 0
        BY DEF ConsumerInit, Stale
    <2>2. AtMost({}, 0)
        <3> DEFINE f == [x \in {} |-> 1]
        <3>1. f \in [{} -> 1..0]
            OBVIOUS
        <3> QED
            BY <3>1, Zenon DEF AtMost
    <2> QED
        BY <2>1, <2>2 DEF Paid
<1>2. ConsumerInv /\ ConsumerInv' /\ AllPaid /\ [ConsumerNext]_vars => AllPaid'
    BY PaidStep
<1>3. AllPaid => RedeliveryNeedsFailure
    BY DEF Paid, RedeliveryNeedsFailure
<1> QED
    BY <1>1, <1>2, <1>3, ConsumerInvariant, PTL DEF ConsumerSpec

===============================================================================
