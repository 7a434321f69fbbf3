------------------------------ MODULE InfraProofs ------------------------------
(***************************************************************************)
(* The two clients of the infrastructure, which share nothing: the         *)
(* connection of the RabbitMQ client for any number of goroutines,         *)
(* connections and failures, and the keys of RedisRateLimiter (their       *)
(* limit, what they refuse and when they are gone) for any number of       *)
(* callers, any clocks and delays and any number of failures.              *)
(***************************************************************************)
EXTENDS Connection, RateLimiter, TLAPS

-------------------------------------------------------------------------------
(* Connection                                                              *)

\* The places at which a thread has reconnectMu.
Reconnecting == {"dial", "swap", "closeOld", "backoff"}

\* What a thread in reconnectWithBackoff knows: r.conn stays broken while it
\* dials, and the connection it stores or closes is the one it thinks it is.
LockInv ==
    \A t \in Threads :
        /\ pc[t] \in Reconnecting <=> t \in holder
        /\ pc[t] \in {"dial", "backoff"} => ~Usable(conn)
        /\ pc[t] = "swap" => local[t] = dials /\ conn # dials
        /\ pc[t] = "closeOld" => oldConn[t] # dials

\* What main knows in Close: the connection it has taken out of r.conn is not
\* stored again, and one that is stored after it is newer.
CloseInv ==
    /\ conn <= dials /\ closeConn <= dials
    /\ Closing =>
        /\ conn # 0 => closeConn < conn
        /\ \A t \in Threads : pc[t] = "swap" => closeConn < dials

\* The newest connection is open and is r.conn, or is about to be.
LastInUse == dials \in open /\ (conn = dials \/ \E t \in Threads : pc[t] = "swap")

\* Every connection but one in use was lost or closed by Close.
DialInv ==
    dials <= losses + (IF Closing THEN 1 ELSE 0) + (IF LastInUse THEN 1 ELSE 0)

\* Nobody but Close sets r.conn to nil.
NilInv ==
    /\ conn = 0 => Closing
    /\ \A t \in Threads :
        /\ pc[t] \in {"channel", "channel2"} /\ local[t] = 0 => Closing
        /\ pc[t] = "panic" => Closing

\* The inductive invariant.
ConnectionInv ==
    /\ ConnectionTypeOK /\ losses <= faults
    /\ LockInv /\ CloseInv

\* The steps of a thread that asks for a channel.
ThreadStep(t) ==
    \/ StartChannel(t) \/ InChannel(t) \/ LockReconnect(t)
    \/ BackoffCancelled(t) \/ FinishChannel(t)

\* A thread that neither holds reconnectMu nor takes it moves on, and reads
\* r.conn at most.
Moves(t) ==
    /\ t \notin holder
    /\ \E p \in Places \ Reconnecting : pc' = [pc EXCEPT ![t] = p]
    /\ local' = local \/ local' = [local EXCEPT ![t] = conn]
    /\ \E b \in {"check", "reread", "reread2"} : back' = [back EXCEPT ![t] = b]
    /\ faults' \in faults..MaxFaults
    /\ UNCHANGED <<linkVars, mainVars, holder, oldConn>>

\* main, the network and the broker leave the threads alone.
WorldStep ==
    \/ Stop \/ ShutdownServer \/ CloseSwap \/ CloseConnection
    \/ \E c \in Conns : ConnectionLost(c)
    \/ BrokerFails \/ BrokerRecovers

-------------------------------------------------------------------------------

\* The calls of channel outside reconnectWithBackoff.
LEMMA ChannelMoves ==
    ASSUME ConnectionInv, NEW t \in Threads,
           \/ StartChannel(t) \/ CheckConn(t) \/ RecheckConn(t) \/ RereadConn(t)
           \/ OpenChannel(t) \/ DeclareTopology(t) \/ FinishChannel(t)
           \/ LockReconnect(t) /\ UNCHANGED holder
    PROVE  Moves(t)
<1>1. /\ pc \in [Threads -> Places] /\ back \in [Threads -> {"check", "reread", "reread2"}]
      /\ pc[t] \in Reconnecting <=> t \in holder
    BY DEF ConnectionInv, ConnectionTypeOK, LockInv
<1>2. back = [back EXCEPT ![t] = back[t]]
    BY <1>1
<1>8. /\ UNCHANGED faults => faults' \in faults..MaxFaults
      /\ \A c : CallFails(c) => faults' \in faults..MaxFaults
    BY MaxFaultsAssumption DEF ConnectionInv, ConnectionTypeOK, CallFails, Fault
<1>3. CASE StartChannel(t) \/ RecheckConn(t)
    BY <1>1, <1>3, <1>8
    DEF StartChannel, RecheckConn, EnsureConnected, Goto, Moves, Reconnecting, Places
<1>4. CASE CheckConn(t) \/ RereadConn(t)
    BY <1>1, <1>2, <1>4, <1>8 DEF CheckConn, RereadConn, Goto, Moves, Reconnecting, Places
<1>5. CASE OpenChannel(t)
    BY <1>1, <1>2, <1>5, <1>8 DEF OpenChannel, Goto, Moves, Reconnecting, Places
<1>6. CASE DeclareTopology(t) \/ FinishChannel(t)
    BY <1>1, <1>2, <1>6, <1>8 DEF DeclareTopology, FinishChannel, Goto, Moves, Reconnecting, Places
<1>7. CASE LockReconnect(t) /\ UNCHANGED holder
    BY <1>1, <1>2, <1>7, <1>8 DEF LockReconnect, Goto, Moves, Reconnecting, Places
<1> QED
    BY <1>3, <1>4, <1>5, <1>6, <1>7

\* A thread outside reconnectWithBackoff.
LEMMA MovesPreserve ==
    ASSUME ConnectionInv, NEW t \in Threads, Moves(t)
    PROVE  ConnectionInv'
<1>1. ConnectionTypeOK' /\ losses' <= faults'
    BY MaxFaultsAssumption DEF ConnectionInv, ConnectionTypeOK, Moves, linkVars, mainVars
<1>2. LockInv'
    BY DEF ConnectionInv, ConnectionTypeOK, LockInv, Moves, linkVars, Usable, Reconnecting
<1>3. CloseInv'
    BY
    DEF ConnectionInv, ConnectionTypeOK, CloseInv, Closing, Moves, linkVars, mainVars, Reconnecting
<1> QED
    BY <1>1, <1>2, <1>3 DEF ConnectionInv

\* The thread that has reconnectMu, or takes it to dial.
LEMMA ReconnectPreserves ==
    ASSUME ConnectionInv, NEW t \in Threads,
           \/ LockReconnect(t) /\ holder' = {t}
           \/ Dial(t) \/ SwapConn(t) \/ CloseOld(t)
           \/ BackoffOver(t) \/ BackoffCancelled(t)
    PROVE  ConnectionInv'
<1> USE DEF ConnectionInv, ConnectionTypeOK, linkVars, mainVars, Goto, Reconnecting
<1>1. CASE LockReconnect(t) /\ holder' = {t}
    <2>1. ConnectionTypeOK' /\ losses' <= faults'
        BY <1>1 DEF LockReconnect, Places
    <2>2. LockInv'
        BY <1>1 DEF LockReconnect, LockInv, Usable
    <2>3. CloseInv'
        BY <1>1 DEF LockReconnect, CloseInv, Closing
    <2> QED
        BY <2>1, <2>2, <2>3
<1>2. CASE Dial(t)
    <2>1. ConnectionTypeOK' /\ losses' <= faults'
        <3>1. CASE brokerUp /\ dials < MaxDials
            <4>1. dials' \in Conns /\ dials' = dials + 1
                BY <1>2, <3>1, ConnectionAssumption DEF Dial, Conns
            <4>2. open' \subseteq 1..dials'
                <5>1. dials \in Nat /\ open' = open \cup {dials'} /\ open \subseteq 1..dials
                    BY <1>2, <3>1, <4>1, ConnectionAssumption DEF Dial, Conns
                <5> HIDE DEF ConnectionInv
                <5> QED
                    BY <4>1, <5>1
            <4>3. local' \in [Threads -> Conns \cup {0}] /\ pc' \in [Threads -> Places]
                BY <1>2, <3>1, <4>1 DEF Dial, Places
            <4> QED
                BY <1>2, <4>1, <4>2, <4>3 DEF Dial
        <3>2. CASE ~(brokerUp /\ dials < MaxDials)
            BY <1>2, <3>2, Zenon DEF Dial, Places
        <3> QED
            BY <3>1, <3>2
    <2>2. LockInv'
        BY <1>2, ConnectionAssumption DEF Dial, LockInv, CloseInv, Usable, Conns
    <2>3. CloseInv'
        BY <1>2, ConnectionAssumption DEF Dial, CloseInv, Closing, LockInv, Conns
    <2> QED
        BY <2>1, <2>2, <2>3
<1>3. CASE SwapConn(t)
    <2>1. ConnectionTypeOK' /\ losses' <= faults'
        BY <1>3 DEF SwapConn, Places
    <2>2. LockInv'
        BY <1>3 DEF SwapConn, LockInv, Usable
    <2>3. CloseInv'
        BY <1>3, ConnectionAssumption DEF SwapConn, CloseInv, Closing, LockInv, Conns
    <2> QED
        BY <2>1, <2>2, <2>3
<1>4. CASE CloseOld(t)
    <2>1. ConnectionTypeOK' /\ losses' <= faults'
        BY <1>4, Zenon DEF CloseOld, Places
    <2>2. LockInv'
        BY <1>4 DEF CloseOld, LockInv, Usable
    <2>3. CloseInv'
        BY <1>4 DEF CloseOld, CloseInv, Closing
    <2> QED
        BY <2>1, <2>2, <2>3
<1>5. CASE BackoffOver(t) \/ BackoffCancelled(t)
    <2>1. ConnectionTypeOK' /\ losses' <= faults'
        BY <1>5, Zenon DEF BackoffOver, BackoffCancelled, Places
    <2>2. LockInv'
        BY <1>5 DEF BackoffOver, BackoffCancelled, LockInv, Usable
    <2>3. CloseInv'
        BY <1>5 DEF BackoffOver, BackoffCancelled, CloseInv, Closing
    <2> QED
        BY <2>1, <2>2, <2>3
<1> QED
    BY <1>1, <1>2, <1>3, <1>4, <1>5

\* main, the network and the broker.
LEMMA WorldPreserves ==
    ASSUME ConnectionInv, WorldStep
    PROVE  ConnectionInv'
<1> USE DEF ConnectionInv, ConnectionTypeOK, linkVars, threadVars, mainVars
<1>1. ConnectionTypeOK' /\ losses' <= faults'
    <2>1. CASE Stop \/ ShutdownServer \/ CloseSwap \/ CloseConnection
        BY <2>1, Zenon DEF Stop, ShutdownServer, CloseSwap, CloseConnection, Stages
    <2>2. CASE BrokerFails \/ BrokerRecovers \/ \E c \in Conns : ConnectionLost(c)
        <3>1. /\ faults' \in 0..MaxFaults /\ losses' \in 0..MaxFaults
              /\ losses' <= faults'
            BY <2>2, MaxFaultsAssumption DEF ConnectionLost, BrokerFails, BrokerRecovers, Fault
        <3>2. open' \subseteq open /\ brokerUp' \in BOOLEAN
            BY <2>2, Zenon DEF ConnectionLost, BrokerFails, BrokerRecovers
        <3> QED
            BY <2>2, <3>1, <3>2 DEF ConnectionLost, BrokerFails, BrokerRecovers
    <2> QED
        BY <2>1, <2>2 DEF WorldStep
<1>2. LockInv'
    BY ConnectionAssumption DEF WorldStep, Stop, ShutdownServer, CloseSwap, CloseConnection,
        ConnectionLost, BrokerFails, BrokerRecovers, LockInv, Usable, Conns
<1>3. CloseInv'
    BY ConnectionAssumption DEF WorldStep, Stop, ShutdownServer, CloseSwap, CloseConnection,
        ConnectionLost, BrokerFails, BrokerRecovers, CloseInv, Closing, LockInv, Conns
<1> QED
    BY <1>1, <1>2, <1>3

\* The invariant holds after the first dial.
LEMMA ConnectionInvInit == ConnectionInit => ConnectionInv
BY ConnectionAssumption, MaxFaultsAssumption
   DEF ConnectionInit, ConnectionInv, ConnectionTypeOK, LockInv, CloseInv, Conns, Places,
       Stages, Reconnecting, Usable, Closing

\* The steps, as the lemmas above take them.
LEMMA ConnectionCases ==
    ASSUME ConnectionInv, ConnectionNext
    PROVE  \/ \E t \in Threads : Moves(t)
           \/ \E t \in Threads :
                \/ LockReconnect(t) /\ holder' = {t}
                \/ Dial(t) \/ SwapConn(t) \/ CloseOld(t)
                \/ BackoffOver(t) \/ BackoffCancelled(t)
           \/ WorldStep
<1>1. \A t \in Threads : LockReconnect(t) => holder' = {t} \/ UNCHANGED holder
    BY DEF LockReconnect
<1> QED
    BY <1>1, ChannelMoves DEF ConnectionNext, InChannel, WorldStep

\* Every step of a thread, of main, of the network or of the broker keeps it.
LEMMA ConnectionInvStep == ConnectionInv /\ [ConnectionNext]_connectionVars => ConnectionInv'
<1>1. ASSUME ConnectionInv, UNCHANGED connectionVars
      PROVE  ConnectionInv'
    BY <1>1 DEF ConnectionInv, ConnectionTypeOK, LockInv, CloseInv, connectionVars, linkVars,
        threadVars, mainVars, Usable, Closing
<1> QED
    BY <1>1, ConnectionCases, MovesPreserve, ReconnectPreserves, WorldPreserves

\* The variables keep their types.
THEOREM ConnectionTypeCorrect == ConnectionSpec => []ConnectionTypeOK
<1>1. ConnectionInv => ConnectionTypeOK
    BY DEF ConnectionInv
<1> QED
    BY <1>1, ConnectionInvInit, ConnectionInvStep, PTL DEF ConnectionSpec

-------------------------------------------------------------------------------

\* A new connection is counted when it is dialled, and the one it replaces was
\* lost, or was taken by Close.
LEMMA DialStep ==
    ASSUME ConnectionInv, DialInv, [ConnectionNext]_connectionVars
    PROVE  DialInv'
<1>1. /\ dials \in Nat /\ losses \in Nat /\ dials # 0
      /\ pc \in [Threads -> Places] /\ holder \in SUBSET Threads
    BY ConnectionAssumption, MaxFaultsAssumption DEF ConnectionInv, ConnectionTypeOK, Conns
<1>2. CASE \E t \in Threads : Moves(t)
    <2>1. PICK t \in Threads : Moves(t)
        BY <1>2
    <2>2. \A s \in Threads : pc'[s] = "swap" <=> pc[s] = "swap"
        BY <1>1, <2>1 DEF Moves, Reconnecting, ConnectionInv, LockInv
    <2> QED
        BY <2>1, <2>2 DEF DialInv, LastInUse, Closing, Moves, linkVars, mainVars
<1>3. ASSUME NEW t \in Threads,
             \/ LockReconnect(t) /\ holder' = {t}
             \/ BackoffOver(t) \/ BackoffCancelled(t)
      PROVE  DialInv'
    <2>1. \A s \in Threads : pc'[s] = "swap" <=> pc[s] = "swap"
        BY <1>1, <1>3 DEF LockReconnect, BackoffOver, BackoffCancelled, Goto
    <2> QED
        BY <1>3, <2>1 DEF DialInv, LastInUse, Closing, LockReconnect, BackoffOver,
            BackoffCancelled, linkVars, mainVars
<1>4. ASSUME NEW t \in Threads, Dial(t)
      PROVE  DialInv'
    <2>1. ~LastInUse
        BY <1>4 DEF Dial, LastInUse, ConnectionInv, ConnectionTypeOK, LockInv, Usable,
            Reconnecting
    <2>2. CASE brokerUp /\ dials < MaxDials
        <3>1. LastInUse'
            BY <1>1, <1>4, <2>2 DEF Dial, LastInUse, Goto
        <3>2. dials' = dials + 1 /\ UNCHANGED <<losses, stage>>
            BY <1>4, <2>2 DEF Dial, mainVars
        <3> QED
            BY <1>1, <2>1, <3>1, <3>2 DEF DialInv, Closing
    <2>3. CASE ~(brokerUp /\ dials < MaxDials)
        <3>1. UNCHANGED <<dials, losses, stage>>
            BY <1>4, <2>3 DEF Dial, mainVars
        <3> QED
            BY <1>1, <2>1, <3>1 DEF DialInv, Closing
    <2> QED
        BY <2>2, <2>3
<1>5. ASSUME NEW t \in Threads, SwapConn(t)
      PROVE  DialInv'
    <2>1. conn' = dials /\ UNCHANGED <<dials, open, losses, stage>>
        BY <1>5 DEF SwapConn, ConnectionInv, LockInv, mainVars
    <2> QED
        BY <1>1, <2>1 DEF DialInv, LastInUse, Closing
<1>6. ASSUME NEW t \in Threads, CloseOld(t)
      PROVE  DialInv'
    <2>1. /\ dials \in open' <=> dials \in open
          /\ UNCHANGED <<conn, dials, losses, stage>>
        BY <1>6 DEF CloseOld, ConnectionInv, LockInv, mainVars
    <2>2. \A s \in Threads : pc[s] # "swap"
        BY <1>6 DEF CloseOld, ConnectionInv, ConnectionTypeOK, LockInv, Reconnecting
    <2> QED
        BY <1>1, <2>1, <2>2 DEF DialInv, LastInUse, Closing
<1>7. CASE CloseSwap \/ CloseConnection
    <2>1. UNCHANGED <<dials, losses, pc>>
        BY <1>7 DEF CloseSwap, CloseConnection, threadVars
    <2>2. CASE CloseSwap
        BY <1>1, <2>1, <2>2 DEF CloseSwap, DialInv, LastInUse, Closing
    <2>3. CASE CloseConnection
        <3>1. LastInUse => LastInUse'
            BY <2>1, <2>3 DEF CloseConnection, LastInUse, Closing, ConnectionInv, ConnectionTypeOK,
                CloseInv, Conns
        <3> QED
            BY <1>1, <2>1, <2>3, <3>1 DEF CloseConnection, DialInv, Closing
    <2> QED
        BY <1>7, <2>2, <2>3
<1>8. ASSUME NEW c \in Conns, ConnectionLost(c)
      PROVE  DialInv'
    BY <1>1, <1>8 DEF ConnectionLost, DialInv, Closing, mainVars
<1>9. CASE Stop \/ ShutdownServer \/ BrokerFails \/ BrokerRecovers \/ UNCHANGED connectionVars
    <2>1. UNCHANGED <<conn, dials, open, losses, pc>> /\ Closing' = Closing
        BY <1>9 DEF Stop, ShutdownServer, BrokerFails, BrokerRecovers, connectionVars, linkVars,
            threadVars, mainVars, Closing
    <2> QED
        BY <2>1 DEF DialInv, LastInUse
<1> QED
    BY <1>2, <1>3, <1>4, <1>5, <1>6, <1>7, <1>8, <1>9, ConnectionCases DEF WorldStep

\* However many goroutines find the connection broken at once, and whatever
\* is lost while they wait, one dial replaces each connection that was lost
\* or that Close took.
THEOREM DialsReplaceLosses == ConnectionSpec => []DialsAreNeeded
<1>1. ConnectionInit => DialInv
    BY DEF ConnectionInit, DialInv, LastInUse
<1>2. ConnectionInv /\ DialInv => DialsAreNeeded
    <2>1. ConnectionInv => dials \in Nat /\ losses \in Nat
        BY ConnectionAssumption, MaxFaultsAssumption DEF ConnectionInv, ConnectionTypeOK, Conns
    <2> QED
        BY <2>1 DEF DialInv, DialsAreNeeded
<1> QED
    BY <1>1, <1>2, DialStep, ConnectionInvInit, ConnectionInvStep, PTL DEF ConnectionSpec

-------------------------------------------------------------------------------

\* Somebody will close or use connection c.
Owned(c) ==
    \/ ~Closing /\ c = conn
    \/ stage = "swapped" /\ c = closeConn
    \/ Closing /\ c = conn /\ closeConn < c
    \/ \E t \in Threads :
        \/ pc[t] = "swap" /\ c = local[t]
        \/ pc[t] = "closeOld" /\ c = oldConn[t]

\* A connection that stays open keeps an owner, and a new one has one.
LEMMA LeakStep ==
    ASSUME ConnectionInv, LeaksOnlyAfterClose, [ConnectionNext]_connectionVars
    PROVE  LeaksOnlyAfterClose'
<1>1. /\ pc \in [Threads -> Places] /\ local \in [Threads -> Conns \cup {0}]
      /\ oldConn \in [Threads -> Conns \cup {0}]
    BY DEF ConnectionInv, ConnectionTypeOK
<1>2. \A c \in open : Owned(c)
    BY DEF LeaksOnlyAfterClose, Owned
<1> SUFFICES \A c \in open' : Owned(c)'
    BY DEF LeaksOnlyAfterClose, Owned
<1>3. ASSUME NEW t \in Threads, Moves(t), NEW c \in open', Owned(c)
      PROVE  Owned(c)'
    <2>1. pc[t] \notin Reconnecting
        BY <1>3 DEF Moves, ConnectionInv, LockInv
    <2> QED
        BY <1>1, <1>3, <2>1, SMTT(30) DEF Moves, Owned, Closing, linkVars, mainVars, Reconnecting
<1>4. ASSUME NEW t \in Threads, NEW c \in open', Owned(c),
             \/ LockReconnect(t) /\ holder' = {t}
             \/ BackoffOver(t) \/ BackoffCancelled(t)
      PROVE  Owned(c)'
    BY <1>1, <1>4 DEF LockReconnect, BackoffOver, BackoffCancelled, Goto, Owned, Closing,
        linkVars, mainVars
<1>5. ASSUME NEW t \in Threads, NEW c \in open', c \in open => Owned(c), Dial(t)
      PROVE  Owned(c)'
    BY <1>1, <1>5 DEF Dial, Goto, Owned, Closing, mainVars
<1>6. ASSUME NEW t \in Threads, NEW c \in open', Owned(c), SwapConn(t)
      PROVE  Owned(c)'
    <2>1. conn' = local[t] /\ (Closing => closeConn < local[t])
        BY <1>6 DEF SwapConn, ConnectionInv, LockInv, CloseInv
    <2> QED
        BY <1>1, <1>6, <2>1, Zenon DEF SwapConn, Goto, Owned, Closing, mainVars
<1>7. ASSUME NEW t \in Threads, NEW c \in open', Owned(c), CloseOld(t)
      PROVE  Owned(c)'
    BY <1>1, <1>7, Zenon DEF CloseOld, Goto, Owned, Closing, mainVars
<1>8. ASSUME NEW c \in open', Owned(c), WorldStep \/ UNCHANGED connectionVars
      PROVE  Owned(c)'
    BY <1>8, Zenon DEF WorldStep, Stop, ShutdownServer, CloseSwap, CloseConnection, ConnectionLost,
        BrokerFails, BrokerRecovers, connectionVars, linkVars, threadVars, mainVars, Owned,
        Closing
<1>9. \A c \in open' : c \in open \/ \E t \in Threads : Dial(t)
    BY ConnectionCases, Zenon DEF Moves, LockReconnect, SwapConn, CloseOld, BackoffOver,
        BackoffCancelled, WorldStep, Stop, ShutdownServer, CloseSwap, CloseConnection,
        ConnectionLost, BrokerFails, BrokerRecovers, connectionVars, linkVars
<1> QED
    BY <1>2, <1>3, <1>4, <1>5, <1>6, <1>7, <1>8, <1>9, ConnectionCases

\* A connection is forgotten open only when a thread stores the one it dialled
\* after Close took the one before: not by two threads that reconnect at once,
\* and not by Close.
THEOREM ConnectionsAreClosed == ConnectionSpec => []LeaksOnlyAfterClose
<1>1. ConnectionInit => LeaksOnlyAfterClose
    BY Zenon DEF ConnectionInit, LeaksOnlyAfterClose, Closing
<1> QED
    BY <1>1, LeakStep, ConnectionInvInit, ConnectionInvStep, PTL DEF ConnectionSpec

-------------------------------------------------------------------------------

\* A thread that reads nil reads what Close has stored.
LEMMA NilStep ==
    ASSUME ConnectionInv, NilInv, [ConnectionNext]_connectionVars
    PROVE  NilInv'
<1>1. /\ pc \in [Threads -> Places] /\ local \in [Threads -> Conns \cup {0}]
      /\ back \in [Threads -> {"check", "reread", "reread2"}]
      /\ 0 \notin open /\ 0 \notin Conns
    BY ConnectionAssumption DEF ConnectionInv, ConnectionTypeOK, Conns
<1>2. Closing => Closing'
    BY ConnectionCases, Zenon
    DEF Closing, Moves, LockReconnect, Dial, SwapConn, CloseOld, BackoffOver,
        BackoffCancelled, WorldStep, Stop, ShutdownServer, CloseSwap, CloseConnection,
        ConnectionLost, BrokerFails, BrokerRecovers, connectionVars, mainVars
<1>3. conn' = 0 => Closing'
    <2>1. \A t \in Threads : SwapConn(t) => conn' # 0
        BY <1>1 DEF SwapConn, ConnectionInv, ConnectionTypeOK, LockInv, Conns
    <2>2. \/ UNCHANGED conn
          \/ \E t \in Threads : SwapConn(t)
          \/ Closing'
        BY ConnectionCases, ZenonT(30)
        DEF Closing, Moves, LockReconnect, Dial, CloseOld, BackoffOver,
            BackoffCancelled, WorldStep, Stop, ShutdownServer, CloseSwap, CloseConnection,
            ConnectionLost, BrokerFails, BrokerRecovers, connectionVars, linkVars
    <2> QED
        BY <1>2, <2>1, <2>2 DEF NilInv
<1>4. ASSUME NEW t \in Threads, ConnectionNext, ~Closing, ~Closing'
      PROVE  /\ pc'[t] \in {"channel", "channel2"} => local'[t] # 0
             /\ pc'[t] # "panic"
    <2>1. /\ conn # 0
          /\ pc[t] \in {"channel", "channel2"} => local[t] # 0
          /\ pc[t] # "panic"
        BY <1>4, SMTT(30) DEF NilInv
    <2>2. ASSUME NEW s \in Threads, ThreadStep(s), s = t
          PROVE  /\ pc'[t] \in {"channel", "channel2"} => local'[t] # 0
                 /\ pc'[t] # "panic"
        <3>1. CASE CheckConn(t) \/ RereadConn(t) \/ OpenChannel(t)
            BY <1>1, <2>1, <3>1 DEF CheckConn, RereadConn, OpenChannel, Usable, Goto
        <3>2. CASE StartChannel(t) \/ RecheckConn(t) \/ DeclareTopology(t) \/ FinishChannel(t)
            BY <1>1, <3>2, ZenonT(30)
            DEF StartChannel, RecheckConn, EnsureConnected, DeclareTopology,
                FinishChannel, Goto
        <3>3. CASE \/ LockReconnect(t) \/ Dial(t) \/ SwapConn(t) \/ CloseOld(t)
                   \/ BackoffOver(t) \/ BackoffCancelled(t)
            BY <1>1, <3>3, SMTT(30) DEF LockReconnect, Dial, SwapConn, CloseOld, BackoffOver,
                BackoffCancelled, Goto
        <3> QED
            BY <2>2, <3>1, <3>2, <3>3 DEF ThreadStep, InChannel
    <2>3. ASSUME NEW s \in Threads, ThreadStep(s), s # t
          PROVE  UNCHANGED <<pc[t], local[t]>>
        BY <1>1, <2>3, SMTT(30) DEF ThreadStep, InChannel, StartChannel, CheckConn, RecheckConn,
            RereadConn, EnsureConnected, OpenChannel, DeclareTopology, FinishChannel,
            LockReconnect, Dial, SwapConn, CloseOld, BackoffOver, BackoffCancelled, Goto
    <2>4. CASE WorldStep
        BY <2>1, <2>4, ZenonT(30) DEF WorldStep, Stop, ShutdownServer, CloseSwap, CloseConnection,
            ConnectionLost, BrokerFails, BrokerRecovers, threadVars
    <2> QED
        BY <1>4, <2>1, <2>2, <2>3, <2>4 DEF ConnectionNext, ThreadStep, WorldStep
<1>5. CASE UNCHANGED connectionVars
    BY <1>5, Zenon DEF NilInv, Closing, connectionVars, linkVars, threadVars, mainVars
<1> QED
    BY <1>2, <1>3, <1>4, <1>5 DEF NilInv

\* channel() calls conn.Channel() on nil at most once Close has begun, although
\* it uses two of the three connections it reads without a look at them.
THEOREM NilNeedsClose == ConnectionSpec => []NilOnlyAfterClose
<1>1. ConnectionInit => NilInv
    BY DEF ConnectionInit, NilInv
<1>2. NilInv => NilOnlyAfterClose
    BY DEF NilInv, NilOnlyAfterClose
<1> QED
    BY <1>1, <1>2, NilStep, ConnectionInvInit, ConnectionInvStep, PTL DEF ConnectionSpec

-------------------------------------------------------------------------------
(* RateLimiter                                                             *)

\* Products with the limit, which is all the arithmetic that is not linear.
LEMMA LimitTimes ==
    ASSUME NEW k \in Nat
    PROVE  /\ LimitPerSec * k \in Nat
           /\ LimitPerSec * (k + 1) = LimitPerSec * k + LimitPerSec
           /\ LimitPerSec \in Nat \ {0}
BY LimiterAssumption

\* The lives of key s that have ended have let through LimitPerSec calls each
\* at most, and the current one no more than it has counted.
KeyBound(s) ==
    /\ count[s] \in Nat /\ granted[s] \in Nat /\ created[s] \in Nat
    /\ granted[s] <= LimitPerSec * created[s]
    /\ count[s] > 0 => \E k \in Nat :
        /\ created[s] = k + 1
        /\ granted[s] <= LimitPerSec * k + count[s]

KeyInv ==
    /\ count \in [Seconds -> Nat] /\ granted \in [Seconds -> Nat]
    /\ created \in [Seconds -> Nat]
    /\ \A s \in Seconds : KeyBound(s)

\* A request that is counted and allowed, counted and refused, or counted and
\* never answered.
LEMMA CountedKeepsBound ==
    ASSUME KeyInv, NEW s, IncrExpire(s),
           \/ /\ Allowed(count[s] + 1)
              /\ granted' = [granted EXCEPT ![s] = @ + 1]
           \/ UNCHANGED granted
    PROVE  KeyInv'
<1>1. /\ count' \in [Seconds -> Nat] /\ granted' \in [Seconds -> Nat]
      /\ created' \in [Seconds -> Nat]
    <2>1. CASE s \in Seconds
        BY <2>1 DEF KeyInv, IncrExpire, IncrUntil
    <2>2. CASE s \notin Seconds
        BY <2>2, Zenon DEF KeyInv, IncrExpire, IncrUntil
    <2> QED
        BY <2>1, <2>2
<1>2. ASSUME NEW r \in Seconds
      PROVE  KeyBound(r)'
    <2>1. CASE r # s
        BY <2>1, SMTT(30) DEF KeyInv, KeyBound, IncrExpire, IncrUntil
    <2>2. CASE r = s
        <3>1. /\ KeyBound(s)
              /\ count'[s] = count[s] + 1
              /\ created'[s] = IF count[s] = 0 THEN created[s] + 1 ELSE created[s]
              /\ \/ granted'[s] = granted[s]
                 \/ granted'[s] = granted[s] + 1 /\ count[s] + 1 <= LimitPerSec
            <4>1. count'[s] = count[s] + 1
                BY <2>2 DEF KeyInv, IncrExpire, IncrUntil
            <4>2. created'[s] = IF count[s] = 0 THEN created[s] + 1 ELSE created[s]
                BY <2>2 DEF KeyInv, IncrExpire, IncrUntil
            <4>3. \/ granted'[s] = granted[s]
                  \/ granted'[s] = granted[s] + 1 /\ count[s] + 1 <= LimitPerSec
                BY <2>2 DEF KeyInv, Allowed
            <4> QED
                BY <2>2, <4>1, <4>2, <4>3 DEF KeyInv
        <3>2. CASE count[s] = 0
            <4>1. PICK p \in Nat : p = LimitPerSec * created[s]
                BY <3>1, LimitTimes DEF KeyBound
            <4>2. LimitPerSec * (created[s] + 1) = p + LimitPerSec
                BY <3>1, <4>1, LimitTimes DEF KeyBound
            <4>3. /\ granted[s] \in Nat /\ granted[s] <= p
                  /\ count'[s] = 1 /\ created'[s] = created[s] + 1 /\ created[s] \in Nat
                BY <3>1, <3>2, <4>1, SMTT(30) DEF KeyBound
            <4>4. granted'[s] <= p + 1 /\ granted'[s] <= p + LimitPerSec
                BY <3>1, <4>3, LimiterAssumption, SMTT(30)
            <4> QED
                BY <1>1, <2>2, <4>1, <4>2, <4>3, <4>4 DEF KeyBound
        <3>3. CASE count[s] > 0
            <4>1. PICK k \in Nat : created[s] = k + 1 /\ granted[s] <= LimitPerSec * k + count[s]
                BY <3>1, <3>3 DEF KeyBound
            <4>2. PICK p \in Nat : p = LimitPerSec * k
                BY LimitTimes
            <4>3. LimitPerSec * created[s] = p + LimitPerSec
                BY <4>1, <4>2, LimitTimes, SMTT(30)
            <4>4. /\ granted[s] \in Nat /\ count[s] \in Nat
                  /\ granted[s] <= p + count[s] /\ granted[s] <= p + LimitPerSec
                  /\ created'[s] = created[s]
                BY <3>1, <3>3, <4>1, <4>2, <4>3, SMTT(30) DEF KeyBound
            <4>5. granted'[s] <= p + count'[s] /\ granted'[s] <= p + LimitPerSec
                BY <3>1, <4>4, LimiterAssumption
            <4> QED
                BY <1>1, <2>2, <4>1, <4>2, <4>3, <4>4, <4>5 DEF KeyBound
        <3> QED
            BY <3>1, <3>2, <3>3, SMTT(30) DEF KeyBound
    <2> QED
        BY <2>1, <2>2
<1> QED
    BY <1>1, <1>2 DEF KeyInv

\* Every step of the callers, of time and of Redis.
LEMMA KeyStep ==
    ASSUME KeyInv, [LimiterNext]_limiterVars
    PROVE  KeyInv'
<1> USE DEF redisVars, grantHistory, callVars
<1>1. CASE Tick
    BY <1>1 DEF Tick, KeyInv, KeyBound
<1>2. ASSUME NEW c \in Callers,
             \/ \E t \in ClockReadings : StartWait(c, t) \/ Wake(c, t)
             \/ WaitReturnsError(c)
      PROVE  KeyInv'
    BY <1>2, ZenonT(30) DEF StartWait, Wake, WaitReturnsError, KeyInv, KeyBound
<1>3. ASSUME NEW c \in Callers, Evaluate(c)
      PROVE  KeyInv'
    BY <1>3, CountedKeepsBound DEF Evaluate
<1>4. ASSUME NEW c \in Callers, NEW again \in BOOLEAN, AnswerLost(c, again)
      PROVE  KeyInv'
    BY <1>4, CountedKeepsBound DEF AnswerLost
<1>5. CASE UNCHANGED limiterVars
    BY <1>5 DEF limiterVars, KeyInv, KeyBound
<1> QED
    BY <1>1, <1>2, <1>3, <1>4, <1>5 DEF LimiterNext, CallerStep

\* Allow: over all its lives the key of a second lets through no more than
\* limitPerSec calls per life, whatever clocks, delays and lost answers.
THEOREM KeysKeepTheLimit == LimiterSpec => []PerKeyLimit
<1>1. LimiterInit => KeyInv
    BY LimitTimes DEF LimiterInit, KeyInv, KeyBound
<1>2. KeyInv => PerKeyLimit
    BY DEF KeyInv, KeyBound, PerKeyLimit
<1> QED
    BY <1>1, <1>2, KeyStep, PTL DEF LimiterSpec

-------------------------------------------------------------------------------
(* The limit of a second whose requests all reach Redis within it.         *)

\* SecondOf is monotone, and the second ends SecondLength ticks after it began.
LEMMA SecondsPass ==
    ASSUME NEW t \in Nat, NEW u \in Nat, t <= u
    PROVE  /\ SecondOf(t) \in Nat
           /\ SecondOf(t) <= SecondOf(u)
           /\ SecondOf(t + SecondLength) = SecondOf(t) + 1
<1>1. SecondLength \in Nat \ {0}
    BY LimiterAssumption
<1>2. t \div SecondLength \in Nat
    BY <1>1, SMT
<1>3. t \div SecondLength <= u \div SecondLength
    BY <1>1, SMT
<1>4. (t + SecondLength) \div SecondLength = t \div SecondLength + 1
    BY <1>1, SMT
<1> QED
    BY <1>2, <1>3, <1>4 DEF SecondOf

\* While the key of s lives it has let through no more calls than it counted,
\* and it outlives s.  Once it is gone, s is over.
LifeBound(s) ==
    /\ count[s] \in Nat /\ granted[s] \in Nat /\ expiry[s] \in Nat
    /\ granted[s] <= LimitPerSec
    /\ count[s] > 0 => granted[s] <= count[s] /\ SecondOf(expiry[s]) > s
    /\ count[s] = 0 /\ granted[s] > 0 => SecondOf(now) > s

SecondInv ==
    /\ now \in Nat
    /\ count \in [Seconds -> Nat] /\ granted \in [Seconds -> Nat]
    /\ expiry \in [Seconds -> Nat]
    /\ \A s \in Seconds \ strayed : LifeBound(s)

\* A request is counted: in its own second, or its second has strayed.
LEMMA CountedInSecond ==
    ASSUME SecondInv, NEW s, IncrExpire(s),
           \/ /\ Allowed(count[s] + 1)
              /\ granted' = [granted EXCEPT ![s] = @ + 1]
           \/ UNCHANGED granted
    PROVE  SecondInv'
<1>1. now' = now /\ now \in Nat /\ now + SecondLength \in Nat
    BY LimiterAssumption DEF SecondInv, IncrExpire, IncrUntil
<1>2. /\ count' \in [Seconds -> Nat] /\ granted' \in [Seconds -> Nat]
      /\ expiry' \in [Seconds -> Nat]
    <2>1. CASE s \in Seconds
        BY <1>1, <2>1 DEF SecondInv, IncrExpire, IncrUntil
    <2>2. CASE s \notin Seconds
        BY <2>2, Zenon DEF SecondInv, IncrExpire, IncrUntil
    <2> QED
        BY <2>1, <2>2
<1>3. ASSUME NEW r \in Seconds \ strayed'
      PROVE  LifeBound(r)'
    <2>1. r \notin strayed /\ LifeBound(r)
        BY <1>3, ZenonT(30) DEF SecondInv, IncrExpire, IncrUntil
    <2>2. CASE r # s
        BY <1>1, <2>1, <2>2 DEF SecondInv, LifeBound, IncrExpire, IncrUntil
    <2>3. CASE r = s
        <3>1. SecondOf(now) = s
            BY <1>3, <2>3 DEF IncrExpire, IncrUntil
        <3>2. count'[s] = count[s] + 1 /\ expiry'[s] = now + SecondLength
            BY <2>3 DEF SecondInv, IncrExpire, IncrUntil
        <3>3. \/ granted'[s] = granted[s]
              \/ granted'[s] = granted[s] + 1 /\ count[s] + 1 <= LimitPerSec
            BY <2>3 DEF SecondInv, Allowed
        <3>4. SecondOf(now + SecondLength) = s + 1 /\ s \in Nat
            BY <1>1, <3>1, SecondsPass
        <3>5. granted[s] <= count[s]
            BY <2>1, <2>3, <3>1, <3>4 DEF LifeBound
        <3>6. granted'[s] <= count'[s] /\ granted'[s] <= LimitPerSec
            BY <2>1, <2>3, <3>2, <3>3, <3>5, LimiterAssumption DEF LifeBound
        <3> QED
            BY <1>1, <1>2, <2>1, <2>3, <3>2, <3>4, <3>6 DEF LifeBound
    <2> QED
        BY <2>2, <2>3
<1> QED
    BY <1>1, <1>2, <1>3 DEF SecondInv

\* Every step keeps the bound of the seconds.
LEMMA SecondStep ==
    ASSUME SecondInv, [LimiterNext]_limiterVars
    PROVE  SecondInv'
<1> USE DEF redisVars, grantHistory, callVars
<1>1. CASE Tick
    <2>1. /\ now \in Nat /\ now' = now + 1
          /\ count' \in [Seconds -> Nat] /\ expiry' \in [Seconds -> Nat]
        BY <1>1 DEF Tick, SecondInv
    <2>2. ASSUME NEW s \in Seconds \ strayed
          PROVE  LifeBound(s)'
        <3>1. LifeBound(s) /\ s \in Nat
            BY DEF SecondInv, Seconds
        <3>2. SecondOf(now) <= SecondOf(now') /\ SecondOf(now) \in Nat /\ SecondOf(now') \in Nat
            BY <2>1, SecondsPass
        <3>3. CASE expiry[s] <= now + 1
            <4>1. SecondOf(expiry[s]) <= SecondOf(now') /\ SecondOf(expiry[s]) \in Nat
                BY <2>1, <3>1, <3>3, SecondsPass, SMTT(30) DEF LifeBound
            <4>2. /\ count'[s] = 0 /\ expiry'[s] = 0 /\ granted'[s] = granted[s]
                BY <1>1, <3>3 DEF Tick
            <4> QED
                BY <3>1, <3>2, <4>1, <4>2 DEF LifeBound
        <3>4. CASE ~(expiry[s] <= now + 1)
            <4>1. /\ count'[s] = count[s] /\ expiry'[s] = expiry[s]
                  /\ granted'[s] = granted[s]
                BY <1>1, <3>4, Zenon DEF Tick
            <4> QED
                BY <3>1, <3>2, <4>1 DEF LifeBound
        <3> QED
            BY <3>3, <3>4
    <2> QED
        BY <1>1, <2>1, <2>2 DEF Tick, SecondInv
<1>2. ASSUME NEW c \in Callers,
             \/ \E t \in ClockReadings : StartWait(c, t) \/ Wake(c, t)
             \/ WaitReturnsError(c)
      PROVE  SecondInv'
    BY <1>2, Zenon DEF StartWait, Wake, WaitReturnsError, SecondInv, LifeBound
<1>3. ASSUME NEW c \in Callers, Evaluate(c)
      PROVE  SecondInv'
    BY <1>3, CountedInSecond, Zenon DEF Evaluate
<1>4. ASSUME NEW c \in Callers, NEW again \in BOOLEAN, AnswerLost(c, again)
      PROVE  SecondInv'
    BY <1>4, CountedInSecond DEF AnswerLost
<1>5. CASE UNCHANGED limiterVars
    BY <1>5 DEF limiterVars, SecondInv, LifeBound
<1> QED
    BY <1>1, <1>2, <1>3, <1>4, <1>5 DEF LimiterNext, CallerStep

\* Allow: a second whose requests reach Redis within it gets limitPerSec calls
\* at most, because its key cannot expire before it is over.
THEOREM SecondsKeepTheLimit == LimiterSpec => []PerSecondLimit
<1>1. LimiterInit => SecondInv
    BY LimiterAssumption DEF LimiterInit, SecondInv, LifeBound
<1>2. SecondInv => PerSecondLimit
    BY DEF SecondInv, LifeBound, PerSecondLimit
<1> QED
    BY <1>1, <1>2, SecondStep, PTL DEF LimiterSpec

-------------------------------------------------------------------------------
(* Types: the second a caller reads is one of those the model knows.       *)

\* Allow reads the clock of its replica.
LEMMA ReadingIsASecond ==
    ASSUME now \in 0..MaxTime, NEW t \in ClockReadings
    PROVE  SecondOf(t) \in Seconds
<1>1. t \in Nat /\ MaxTime + Skew \in Nat /\ t <= MaxTime + Skew
    BY LimiterAssumption DEF ClockReadings
<1>2. SecondOf(t) \in Nat /\ SecondOf(t) <= SecondOf(MaxTime + Skew)
    BY <1>1, SecondsPass
<1>3. SecondOf(MaxTime + Skew) \in Nat
    BY <1>1, SecondsPass
<1> QED
    BY <1>2, <1>3 DEF Seconds

\* Return resets the second to 0.
LEMMA ZeroIsASecond == 0 \in Seconds
<1>1. MaxTime + Skew \in Nat
    BY LimiterAssumption
<1>2. SecondOf(MaxTime + Skew) \in Nat
    BY <1>1, SecondsPass
<1> QED
    BY <1>2 DEF Seconds

\* INCR and EXPIRE of a known second.
LEMMA IncrType ==
    ASSUME LimiterTypeOK, NEW s \in Seconds, IncrExpire(s)
    PROVE  /\ now' \in 0..MaxTime
           /\ count' \in [Seconds -> Nat] /\ expiry' \in [Seconds -> Nat]
           /\ created' \in [Seconds -> Nat] /\ strayed' \subseteq Seconds
BY LimiterAssumption DEF LimiterTypeOK, IncrExpire, IncrUntil

\* The callers, time and Redis.
LEMMA LimiterTypeStep ==
    ASSUME LimiterTypeOK, [LimiterNext]_limiterVars
    PROVE  LimiterTypeOK'
<1> USE LimiterAssumption, MaxFaultsAssumption DEF redisVars, grantHistory, callVars
<1>1. CASE Tick
    BY <1>1, SMTT(30) DEF Tick, LimiterTypeOK
<1>2. ASSUME NEW c \in Callers, NEW t \in ClockReadings, StartWait(c, t) \/ Wake(c, t)
      PROVE  LimiterTypeOK'
    <2>1. SecondOf(t) \in Seconds
        BY ReadingIsASecond DEF LimiterTypeOK
    <2> QED
        BY <1>2, <2>1 DEF StartWait, Wake, ReadClock, LimiterTypeOK
<1>3. ASSUME NEW c \in Callers, Return(c)
      PROVE  /\ call' \in [Callers -> {"idle", "trying", "sleeping"}]
             /\ second' \in [Callers -> Seconds]
             /\ backoff' \in [Callers -> 1..BackoffMax] /\ wake' \in [Callers -> Nat]
    BY <1>3, ZeroIsASecond, SMTT(30) DEF Return, LimiterTypeOK
<1>4. ASSUME NEW c \in Callers, WaitReturnsError(c)
      PROVE  LimiterTypeOK'
    BY <1>3, <1>4, SMTT(30) DEF WaitReturnsError, Fault, LimiterTypeOK
<1>5. ASSUME NEW c \in Callers, NEW again \in BOOLEAN, AnswerLost(c, again)
      PROVE  LimiterTypeOK'
    <2>1. second[c] \in Seconds
        BY SMTT(30) DEF LimiterTypeOK
    <2> QED
        BY <1>3, <1>5, <2>1, IncrType DEF AnswerLost, Fault, LimiterTypeOK
<1>6. ASSUME NEW c \in Callers, Evaluate(c)
      PROVE  LimiterTypeOK'
    <2>1. second[c] \in Seconds /\ IncrExpire(second[c])
        BY <1>6 DEF Evaluate, LimiterTypeOK
    <2>2. granted' \in [Seconds -> Nat] /\ faults' = faults
        BY <1>6, <2>1 DEF Evaluate, LimiterTypeOK
    <2>3. /\ call' \in [Callers -> {"idle", "trying", "sleeping"}]
          /\ second' \in [Callers -> Seconds]
          /\ backoff' \in [Callers -> 1..BackoffMax] /\ wake' \in [Callers -> Nat]
        <3>1. CASE Return(c)
            BY <1>3, <3>1, ZenonT(30)
        <3>2. CASE ~Return(c)
            <4>1. /\ call' = [call EXCEPT ![c] = "sleeping"]
                  /\ wake' = [wake EXCEPT ![c] = now + backoff[c]]
                  /\ backoff' = [backoff EXCEPT ![c] = NextBackoff(backoff[c])]
                  /\ second' = second
                BY <1>6, <3>2, ZenonT(30) DEF Evaluate
            <4>2. /\ call' \in [Callers -> {"idle", "trying", "sleeping"}]
                  /\ second' \in [Callers -> Seconds]
                BY <4>1, ZenonT(30) DEF LimiterTypeOK
            <4>3. backoff[c] \in 1..BackoffMax /\ now \in 0..MaxTime
                BY ZenonT(30) DEF LimiterTypeOK
            <4>4. NextBackoff(backoff[c]) \in 1..BackoffMax /\ now + backoff[c] \in Nat
                BY <4>3, SMTT(30) DEF NextBackoff
            <4>5. backoff' \in [Callers -> 1..BackoffMax] /\ wake' \in [Callers -> Nat]
                BY <4>1, <4>4, ZenonT(30) DEF LimiterTypeOK
            <4> QED
                BY <4>2, <4>5, ZenonT(30)
        <3> QED
            BY <3>1, <3>2
    <2> QED
        BY <2>1, <2>2, <2>3, IncrType, SMTT(30) DEF LimiterTypeOK
<1>7. CASE UNCHANGED limiterVars
    BY <1>7 DEF limiterVars, LimiterTypeOK
<1> QED
    BY <1>1, <1>2, <1>4, <1>5, <1>6, <1>7 DEF LimiterNext, CallerStep

\* The variables keep their types: no caller names a key of a second that is
\* none, and its back-off stays within backoffMax.
THEOREM LimiterTypeCorrect == LimiterSpec => []LimiterTypeOK
<1>1. LimiterInit => LimiterTypeOK
    BY LimiterAssumption, MaxFaultsAssumption, ZeroIsASecond DEF LimiterInit, LimiterTypeOK
<1> QED
    BY <1>1, LimiterTypeStep, PTL DEF LimiterSpec

-------------------------------------------------------------------------------
(* What Allow refuses.                                                     *)

\* Below the limit a request that was counted was granted or failed.
Accounted(s) ==
    \/ count[s] <= granted[s] + faults
    \/ LimitPerSec <= granted[s] + faults

FullInv == (\A s \in Seconds : Accounted(s)) /\ RefusedOnlyWhenFull

\* A step that counts nothing, puts nobody to sleep and grants nothing.
LEMMA FullFrame ==
    ASSUME LimiterTypeOK, FullInv, UNCHANGED granted,
           \A s \in Seconds : count'[s] = count[s] \/ count'[s] = 0,
           faults' \in Nat, faults' >= faults,
           \A c \in Callers : call'[c] = "sleeping" => call[c] = "sleeping" /\ second'[c] = second[c]
    PROVE  FullInv'
<1>1. LimitPerSec \in Nat /\ faults \in Nat
    BY LimiterAssumption, MaxFaultsAssumption DEF LimiterTypeOK
<1>2. \A s \in Seconds : Accounted(s)'
    BY <1>1, SMTT(30) DEF FullInv, Accounted, LimiterTypeOK
<1>3. RefusedOnlyWhenFull'
    BY <1>1 DEF FullInv, RefusedOnlyWhenFull, LimiterTypeOK
<1> QED
    BY <1>2, <1>3, Zenon DEF FullInv

\* The callers, time and Redis.
LEMMA FullStep ==
    ASSUME LimiterTypeOK, FullInv, [LimiterNext]_limiterVars
    PROVE  FullInv'
<1>1. /\ LimitPerSec \in Nat /\ faults \in Nat
      /\ count \in [Seconds -> Nat] /\ granted \in [Seconds -> Nat]
      /\ call \in [Callers -> {"idle", "trying", "sleeping"}] /\ second \in [Callers -> Seconds]
    BY LimiterAssumption, MaxFaultsAssumption DEF LimiterTypeOK
<1>2. CASE Tick \/ UNCHANGED limiterVars
    BY <1>1, <1>2, FullFrame, SMTT(30) DEF Tick, limiterVars, redisVars, grantHistory, callVars
<1>3. ASSUME NEW c \in Callers,
             \/ \E t \in ClockReadings : StartWait(c, t) \/ Wake(c, t)
             \/ WaitReturnsError(c)
      PROVE  FullInv'
    BY <1>1, <1>3, FullFrame DEF StartWait, Wake, ReadClock, WaitReturnsError, Return, Fault,
        redisVars, grantHistory
<1>4. ASSUME NEW c \in Callers, NEW again \in BOOLEAN, AnswerLost(c, again)
      PROVE  FullInv'
    <2>1. /\ faults' = faults + 1 /\ granted' = granted
          /\ \A s \in Seconds : count'[s] \in Nat /\ count'[s] <= count[s] + 1
        BY <1>1, <1>4 DEF AnswerLost, Fault, IncrExpire, IncrUntil
    <2>2. \A d \in Callers : call'[d] = "sleeping" => call[d] = "sleeping" /\ second'[d] = second[d]
        BY <1>1, <1>4 DEF AnswerLost, Return, callVars
    <2>3. \A s \in Seconds : Accounted(s)'
        BY <1>1, <2>1, SMTT(30) DEF FullInv, Accounted
    <2>4. RefusedOnlyWhenFull'
        BY <1>1, <2>1, <2>2 DEF FullInv, RefusedOnlyWhenFull
    <2> QED
        BY <2>3, <2>4 DEF FullInv
<1>5. ASSUME NEW c \in Callers, Evaluate(c)
      PROVE  FullInv'
    <2> DEFINE s == second[c]
    <2>1. /\ s \in Seconds /\ faults' = faults
          /\ count' = [count EXCEPT ![s] = @ + 1]
        BY <1>1, <1>5 DEF Evaluate, IncrExpire, IncrUntil
    <2>2. CASE Allowed(count[s] + 1)
        <3>1. granted' = [granted EXCEPT ![s] = @ + 1]
            BY <1>5, <2>2, SMTT(30) DEF Evaluate
        <3>2. \A d \in Callers : call'[d] = "sleeping" => call[d] = "sleeping" /\ second'[d] = second[d]
            BY <1>1, <1>5, <2>2 DEF Evaluate, Return
        <3>3. \A r \in Seconds : Accounted(r)'
            BY <1>1, <2>1, <3>1, SMTT(30) DEF FullInv, Accounted
        <3>4. RefusedOnlyWhenFull'
            BY <1>1, <2>1, <3>1, <3>2 DEF FullInv, RefusedOnlyWhenFull
        <3> QED
            BY <3>3, <3>4, ZenonT(30) DEF FullInv
    <2>3. CASE ~Allowed(count[s] + 1)
        <3>1. UNCHANGED <<granted, second>> /\ call' = [call EXCEPT ![c] = "sleeping"]
            BY <1>5, <2>3 DEF Evaluate
        <3>2. LimitPerSec <= granted[s] + faults
            BY <1>1, <2>1, <2>3 DEF FullInv, Accounted, Allowed
        <3>3. \A r \in Seconds : Accounted(r)'
            BY <1>1, <2>1, <3>1, <3>2 DEF FullInv, Accounted
        <3>4. RefusedOnlyWhenFull'
            BY <1>1, <2>1, <3>1, <3>2 DEF FullInv, RefusedOnlyWhenFull
        <3> QED
            BY <3>3, <3>4, ZenonT(30) DEF FullInv
    <2> QED
        BY <2>2, <2>3, ZenonT(30)
<1> QED
    BY <1>2, <1>3, <1>4, <1>5 DEF LimiterNext, CallerStep

\* Wait sleeps only because the limit of its second is used up, by calls that
\* were granted or by requests whose answer was lost.
THEOREM RefusalIsJustified == LimiterSpec => []RefusedOnlyWhenFull
<1>1. LimiterInit => FullInv
    BY DEF LimiterInit, FullInv, Accounted, RefusedOnlyWhenFull
<1>2. FullInv => RefusedOnlyWhenFull
    BY DEF FullInv
<1> QED
    BY <1>1, <1>2, FullStep, LimiterTypeCorrect, PTL DEF LimiterSpec

-------------------------------------------------------------------------------
(* When the keys are gone.                                                 *)

\* A key that exists is removed later than now, and in the second after its
\* own at the latest, unless it was incremented outside its second.
KeyEnds(s) ==
    count[s] > 0 => expiry[s] > now /\ (s \notin strayed => SecondOf(expiry[s]) <= s + 1)

EndInv == \A s \in Seconds : KeyEnds(s)

\* The callers, time and Redis.
LEMMA EndStep ==
    ASSUME LimiterTypeOK, EndInv, [LimiterNext]_limiterVars
    PROVE  EndInv'
<1>1. /\ now \in Nat /\ SecondLength \in Nat \ {0}
      /\ count \in [Seconds -> Nat] /\ expiry \in [Seconds -> Nat]
      /\ second \in [Callers -> Seconds]
    BY LimiterAssumption DEF LimiterTypeOK
<1>2. CASE Tick
    BY <1>1, <1>2 DEF Tick, EndInv, KeyEnds, grantHistory
<1>3. ASSUME NEW r \in Seconds, IncrExpire(r), NEW s \in Seconds
      PROVE  KeyEnds(s)'
    <2>1. CASE s # r
        BY <1>1, <1>3, <2>1 DEF IncrExpire, IncrUntil, EndInv, KeyEnds
    <2>2. CASE s = r
        <3>1. expiry'[s] = now + SecondLength /\ now' = now
            BY <1>1, <1>3, <2>2 DEF IncrExpire, IncrUntil
        <3>2. s \notin strayed' => SecondOf(now) = s
            BY <1>3, <2>2 DEF IncrExpire, IncrUntil
        <3>3. SecondOf(now + SecondLength) = SecondOf(now) + 1 /\ SecondOf(now) \in Nat
            BY <1>1, SecondsPass, SMTT(30)
        <3> QED
            BY <1>1, <3>1, <3>2, <3>3 DEF KeyEnds
    <2> QED
        BY <2>1, <2>2, ZenonT(30)
<1>4. ASSUME NEW c \in Callers,
             Evaluate(c) \/ \E again \in BOOLEAN : AnswerLost(c, again)
      PROVE  EndInv'
    BY <1>1, <1>3, <1>4, ZenonT(30) DEF Evaluate, AnswerLost, EndInv
<1>5. CASE \/ UNCHANGED limiterVars
           \/ \E c \in Callers :
                \/ \E t \in ClockReadings : StartWait(c, t) \/ Wake(c, t)
                \/ WaitReturnsError(c)
    BY <1>5 DEF StartWait, Wake, WaitReturnsError, limiterVars, redisVars, grantHistory, EndInv,
        KeyEnds
<1> QED
    BY <1>2, <1>4, <1>5 DEF LimiterNext, CallerStep

\* EXPIRE removes the key of a second that is over by the end of the next one.
THEOREM KeysAreRemoved == LimiterSpec => []OldKeysVanish
<1>1. LimiterInit => EndInv
    BY DEF LimiterInit, EndInv, KeyEnds
<1>2. LimiterTypeOK /\ EndInv => OldKeysVanish
    <2> SUFFICES ASSUME LimiterTypeOK, EndInv, NEW s \in Seconds \ strayed, count[s] > 0
                 PROVE  s >= SecondOf(now) - 1
        BY DEF OldKeysVanish
    <2>1. now \in Nat /\ expiry[s] \in Nat /\ now <= expiry[s] /\ SecondOf(expiry[s]) <= s + 1
        BY LimiterAssumption DEF LimiterTypeOK, EndInv, KeyEnds
    <2>2. SecondOf(now) <= SecondOf(expiry[s]) /\ SecondOf(now) \in Nat
        BY <2>1, SecondsPass
    <2>3. SecondOf(expiry[s]) \in Nat /\ s \in Nat
        BY <2>1, SecondsPass DEF Seconds
    <2> QED
        BY <2>1, <2>2, <2>3
<1> QED
    BY <1>1, <1>2, EndStep, LimiterTypeCorrect, PTL DEF LimiterSpec

===============================================================================
