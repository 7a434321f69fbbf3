----------------------------- MODULE TimingProofs -----------------------------
(***************************************************************************)
(* The back-off: what computeRetryDelay computes for every attempt, and    *)
(* that Dispatch with its clock is still Dispatch.                         *)
(***************************************************************************)
EXTENDS InvariantProofs, RetryTiming, WellFoundedInduction

\* A set of natural numbers that is not empty has a least element.
LEMMA LeastElement ==
    ASSUME NEW T, T \subseteq Nat, T # {}
    PROVE  \E x \in T : \A y \in T : x <= y
<1>1. PICK x \in T : \A y \in T : ~(<<y, x>> \in OpToRel(<, Nat))
    BY NatLessThanWellFounded, WFMin
<1>2. \A y \in T : <<y, x>> \in Nat \X Nat
    BY <1>1
<1>3. \A y \in T : ~(y < x)
    BY <1>1, <1>2, Zenon DEF OpToRel
<1> QED
    BY <1>3

\* g is the delay after each round of computeRetryDelay's loop, up to a.
IsDelay(g, a) ==
    g = [k \in 0..a |->
            IF k <= 1 THEN BaseRetryDelay
            ELSE IF 2 * g[k - 1] >= MaxRetryDelay THEN MaxRetryDelay ELSE 2 * g[k - 1]]

\* The recursive definition defines a function.
LEMMA DelayExists ==
    ASSUME NEW a \in Nat
    PROVE  \E g : IsDelay(g, a)
<1> DEFINE T == {m \in Nat : ~\E g : IsDelay(g, m)}
<1>1. ASSUME T # {} PROVE FALSE
    <2>1. PICK m \in T : \A y \in T : m <= y
        BY <1>1, LeastElement, Zenon
    <2>2. CASE m = 0
        <3>1. IsDelay([k \in 0..m |-> BaseRetryDelay], m)
            BY <2>2 DEF IsDelay
        <3> QED
            BY <2>1, <3>1
    <2>3. CASE m # 0
        <3>1. m - 1 \in Nat /\ m - 1 \notin T
            BY <2>1, <2>3
        <3>2. PICK g : IsDelay(g, m - 1)
            BY <3>1
        <3> DEFINE last == IF m <= 1 THEN BaseRetryDelay
                           ELSE IF 2 * g[m - 1] >= MaxRetryDelay THEN MaxRetryDelay
                           ELSE 2 * g[m - 1]
                   h == [k \in 0..m |-> IF k = m THEN last ELSE g[k]]
        <3>3. \A k \in 0..(m - 1) : h[k] = g[k]
            BY <3>1
        <3>4. \A k \in 0..m :
                h[k] = IF k <= 1 THEN BaseRetryDelay
                       ELSE IF 2 * h[k - 1] >= MaxRetryDelay THEN MaxRetryDelay
                       ELSE 2 * h[k - 1]
            <4>1. ASSUME NEW k \in 0..(m - 1)
                  PROVE  g[k] = IF k <= 1 THEN BaseRetryDelay
                                ELSE IF 2 * g[k - 1] >= MaxRetryDelay THEN MaxRetryDelay
                                ELSE 2 * g[k - 1]
                BY <3>2, Zenon DEF IsDelay
            <4>2. h[m] = last
                BY <2>1
            <4>3. \A k \in 0..m : k \in 0..(m - 1) \/ k = m
                BY <2>1
            <4>4. \A k \in 0..m : k <= 1 \/ k - 1 \in 0..(m - 1)
                BY <2>1
            <4> HIDE DEF h
            <4> QED
                BY <3>3, <4>1, <4>2, <4>3, <4>4
        <3>5. IsDelay(h, m)
            BY <3>4, Zenon DEF IsDelay
        <3> QED
            BY <2>1, <3>5
    <2> QED
        BY <2>2, <2>3
<1> QED
    BY <1>1

\* So it is what computeRetryDelay computes, round by round.
LEMMA DelayIs ==
    ASSUME NEW a \in Nat
    PROVE  \E g :
             /\ ComputeRetryDelay(a) = g[a]
             /\ \A k \in 0..a :
                  g[k] = IF k <= 1 THEN BaseRetryDelay
                         ELSE IF 2 * g[k - 1] >= MaxRetryDelay THEN MaxRetryDelay
                         ELSE 2 * g[k - 1]
<1> DEFINE g == CHOOSE g : IsDelay(g, a)
<1>1. IsDelay(g, a)
    BY DelayExists
<1>2. ComputeRetryDelay(a) = g[a]
    BY Zenon DEF ComputeRetryDelay, IsDelay
<1> HIDE DEF g
<1>3. \A k \in 0..a :
        g[k] = IF k <= 1 THEN BaseRetryDelay
               ELSE IF 2 * g[k - 1] >= MaxRetryDelay THEN MaxRetryDelay ELSE 2 * g[k - 1]
    BY <1>1, Zenon DEF IsDelay
<1> QED
    BY <1>2, <1>3, Zenon

\* The delay never exceeds the cap.
LEMMA DelayBound ==
    ASSUME NEW a \in Nat
    PROVE  ComputeRetryDelay(a) \in BaseRetryDelay..MaxRetryDelay
<1>1. PICK g :
        /\ ComputeRetryDelay(a) = g[a]
        /\ \A k \in 0..a :
             g[k] = IF k <= 1 THEN BaseRetryDelay
                    ELSE IF 2 * g[k - 1] >= MaxRetryDelay THEN MaxRetryDelay ELSE 2 * g[k - 1]
    BY DelayIs, Zenon
<1> DEFINE T == {k \in 0..a : g[k] \notin BaseRetryDelay..MaxRetryDelay}
<1>2. ASSUME T # {} PROVE FALSE
    <2>1. PICK k \in T : \A y \in T : k <= y
        <3>1. T \subseteq Nat
            OBVIOUS
        <3> QED
            BY <1>2, <3>1, LeastElement, Zenon
    <2>2. CASE k <= 1
        BY <1>1, <2>1, <2>2, TimingAssumption
    <2>3. CASE k > 1
        <3>1. k - 1 \in 0..a /\ k - 1 \notin T
            BY <2>1, <2>3
        <3>2. g[k - 1] \in BaseRetryDelay..MaxRetryDelay
            BY <3>1
        <3> QED
            BY <1>1, <2>1, <2>3, <3>2, TimingAssumption
    <2> QED
        BY <2>1, <2>2, <2>3
<1> QED
    BY <1>1, <1>2

\* computeRetryDelay gives the base for the first attempt and doubles from
\* attempt to attempt until it meets the cap, where it stays.
THEOREM DelayDoubles ==
    /\ ComputeRetryDelay(1) = BaseRetryDelay
    /\ \A a \in Nat \ {0} :
        ComputeRetryDelay(a + 1) =
            IF 2 * ComputeRetryDelay(a) >= MaxRetryDelay THEN MaxRetryDelay
            ELSE 2 * ComputeRetryDelay(a)
<1>1. ComputeRetryDelay(1) = BaseRetryDelay
    BY DelayIs
<1>2. ASSUME NEW a \in Nat \ {0}
      PROVE  ComputeRetryDelay(a + 1) =
                IF 2 * ComputeRetryDelay(a) >= MaxRetryDelay THEN MaxRetryDelay
                ELSE 2 * ComputeRetryDelay(a)
    <2>1. PICK g :
            /\ ComputeRetryDelay(a) = g[a]
            /\ \A k \in 0..a :
                 g[k] = IF k <= 1 THEN BaseRetryDelay
                        ELSE IF 2 * g[k - 1] >= MaxRetryDelay THEN MaxRetryDelay
                        ELSE 2 * g[k - 1]
        BY DelayIs
    <2>2. PICK h :
            /\ ComputeRetryDelay(a + 1) = h[a + 1]
            /\ \A k \in 0..(a + 1) :
                 h[k] = IF k <= 1 THEN BaseRetryDelay
                        ELSE IF 2 * h[k - 1] >= MaxRetryDelay THEN MaxRetryDelay
                        ELSE 2 * h[k - 1]
        <3>1. a + 1 \in Nat
            OBVIOUS
        <3> QED
            BY <3>1, DelayIs, Zenon
    <2> DEFINE T == {k \in 0..a : g[k] # h[k]}
    <2>3. ASSUME T # {} PROVE FALSE
        <3>1. PICK k \in T : \A y \in T : k <= y
            <4>1. T \subseteq Nat
                OBVIOUS
            <4> QED
                BY <2>3, <4>1, LeastElement, Zenon
        <3>2. k \in 0..a /\ k \in 0..(a + 1) /\ g[k] # h[k]
            BY <3>1
        <3>3. CASE k <= 1
            BY <2>1, <2>2, <3>2, <3>3
        <3>4. CASE k > 1
            <4>1. k - 1 \in 0..a /\ k - 1 \notin T
                BY <3>1, <3>4
            <4>2. g[k - 1] = h[k - 1]
                BY <4>1
            <4> QED
                BY <2>1, <2>2, <3>2, <3>4, <4>2
        <3> QED
            BY <3>2, <3>3, <3>4
    <2>4. g[a] = h[a]
        BY <2>3
    <2>5. a + 1 \in 0..(a + 1) /\ ~(a + 1 <= 1) /\ a + 1 - 1 = a
        OBVIOUS
    <2> QED
        BY <2>1, <2>2, <2>4, <2>5
<1> QED
    BY <1>1, <1>2

\* Every step of RetryTiming is a step of Dispatch or leaves it alone.
LEMMA TimedRefines == TimedNext => Next \/ UNCHANGED vars
BY Zenon DEF TimedNext, Tick, TimedScheduleRetry, TimedStep, Next, WorkerNext, WorkerStep

\* With the back-off of computeRetryDelay every behaviour is one of Dispatch.
THEOREM TimingImplementsDispatch == TimedSpec => Spec
<1>1. TimedInit => Init
    BY DEF TimedInit
<1>2. [TimedNext]_timedVars => [Next]_vars
    BY TimedRefines, Zenon DEF timedVars
<1> QED
    BY <1>1, <1>2, PTL DEF TimedSpec, Spec

\* No retry waits longer than the cap and the jitter allow.
THEOREM DelaysAreCapped == TimedSpec => []TimingTypeOK
<1>1. TimedInit => TimingTypeOK
    BY TimingAssumption DEF TimedInit, TimingTypeOK
<1>2. ASSUME IInv, TimingTypeOK, [TimedNext]_timedVars
      PROVE  TimingTypeOK'
    <2>1. CASE Tick
        BY <1>2, <2>1, TimingAssumption DEF Tick, TimingTypeOK
    <2>2. ASSUME NEW w \in Workers, NEW replied \in BOOLEAN, NEW jitter \in 0..MaxRetryJitter,
                 TimedScheduleRetry(w, replied, jitter)
          PROVE  TimingTypeOK'
        <3>1. attemptNumber[w] \in Nat
            BY <1>2, Zenon DEF IInv, TypeOK, WorkerTypeOK
        <3>2. ComputeRetryDelay(attemptNumber[w]) \in BaseRetryDelay..MaxRetryDelay
            BY <3>1, DelayBound
        <3>3. ComputeRetryDelay(attemptNumber[w]) + jitter \in 0..(MaxRetryDelay + MaxRetryJitter)
            BY <3>2, TimingAssumption
        <3>4. 0 \in 0..MaxRetryDelay
            BY TimingAssumption
        <3> QED
            BY <1>2, <2>2, <3>3, <3>4, Zenon DEF TimedScheduleRetry, TimingTypeOK
    <2>3. CASE TimedStep \/ UNCHANGED timedVars
        BY <1>2, <2>3, Zenon DEF TimedStep, timedVars, timingVars, TimingTypeOK
    <2> QED
        BY <1>2, <2>1, <2>2, <2>3, Zenon DEF TimedNext
<1> QED
    BY <1>1, <1>2, TimingImplementsDispatch, Invariance, PTL DEF TimedSpec

===============================================================================
