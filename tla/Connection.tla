------------------------------- MODULE Connection -------------------------------
(***************************************************************************)
(* The RabbitMQ client: goroutines share one connection, re-establish it   *)
(* when it is lost and open AMQP channels on it, while main may close it.  *)
(* A step is one critical section of mu, one attempt to take reconnectMu   *)
(* or one call to the AMQP library.  A connection is the number of its     *)
(* dial, 0 is nil.                                                         *)
(***************************************************************************)
EXTENDS Failures

CONSTANTS
    Threads,        \* goroutines that call channel()
    Handlers,       \* those that serve an HTTP request
    MaxDials        \* bound: connections that can be dialled

ASSUME ConnectionAssumption ==
    /\ Handlers \subseteq Threads
    /\ MaxDials \in Nat \ {0}

VARIABLES
    conn,           \* r.conn
    dials,          \* connections dialled so far
    open,           \* connections that are not closed
    brokerUp,       \* whether a dial succeeds
    holder,         \* who has reconnectMu: a set of at most one thread
    pc,             \* where a thread is, see Places
    back,           \* where reconnectWithBackoff returns to
    local,          \* the local variable conn (newConn while dialling)
    oldConn,        \* the local variable oldConn of reconnectWithBackoff
    stage,          \* how far main is, see Stages
    closeConn,      \* the local variable conn of Close
    losses          \* history: connections lost to the network

linkVars == <<conn, dials, open, brokerUp, losses>>
threadVars == <<holder, pc, back, local, oldConn>>
mainVars == <<stage, closeConn>>
connectionVars == <<linkVars, threadVars, mainVars, faults>>

Conns == 1..MaxDials

Places == {"idle", "check", "recheck", "reread", "channel", "reread2", "channel2",
           "declare", "ready", "lock", "dial", "swap", "closeOld", "backoff", "panic"}

\* main: stop() was called, the HTTP server is shut down, Close has taken the
\* connection, Close has returned.
Stages == {"running", "stopped", "serverDown", "swapped", "closed"}

ConnectionTypeOK ==
    /\ faults \in 0..MaxFaults /\ losses \in 0..MaxFaults
    /\ conn \in Conns \cup {0} /\ dials \in Conns
    /\ open \subseteq 1..dials
    /\ brokerUp \in BOOLEAN
    /\ holder \in SUBSET Threads /\ (\A s, t \in holder : s = t)
    /\ pc \in [Threads -> Places]
    /\ back \in [Threads -> {"check", "reread", "reread2"}]
    /\ local \in [Threads -> Conns \cup {0}]
    /\ oldConn \in [Threads -> Conns \cup {0}]
    /\ stage \in Stages /\ closeConn \in Conns \cup {0}

\* NewRabbitMQ returns a client only once it is connected.
ConnectionInit ==
    /\ faults = 0 /\ losses = 0
    /\ conn = 1 /\ dials = 1 /\ open = {1}
    /\ brokerUp = TRUE
    /\ holder = {}
    /\ pc = [t \in Threads |-> "idle"]
    /\ back = [t \in Threads |-> "check"]
    /\ local = [t \in Threads |-> 0]
    /\ oldConn = [t \in Threads |-> 0]
    /\ stage = "running" /\ closeConn = 0

Usable(c) == c \in open         \* c != nil && !c.IsClosed()

Closing == stage \in {"swapped", "closed"}

\* Slip: no context reaches the handlers, as with context.Background().
CtxDoneBackground(t) == stage # "running" /\ t \notin Handlers

\* ctx.Done() is closed.  stop() cancels the goroutines of main; a handler has
\* the context of its request, which the server cancels when it is shut down.
CtxDone(t) == stage # "running" /\ (t \in Handlers => stage # "stopped")

Goto(t, place) == pc' = [pc EXCEPT ![t] = place]

-------------------------------------------------------------------------------
(* channel and ensureConnected *)

\* ensureConnected, from either of its calls in channel.
EnsureConnected(t, next) ==
    /\ back' = [back EXCEPT ![t] = next]
    /\ Goto(t, IF Usable(conn) THEN next ELSE "lock")
    /\ UNCHANGED <<linkVars, mainVars, faults, holder, local, oldConn>>

StartChannel(t) == pc[t] = "idle" /\ EnsureConnected(t, "check")

\* Lines 64-68: look at the connection again after ensureConnected.
CheckConn(t) ==
    /\ pc[t] = "check"
    /\ local' = [local EXCEPT ![t] = conn]
    /\ Goto(t, IF Usable(conn) THEN "channel" ELSE "recheck")
    /\ UNCHANGED <<linkVars, mainVars, faults, holder, back, oldConn>>

RecheckConn(t) == pc[t] = "recheck" /\ EnsureConnected(t, "reread")

\* After the second ensureConnected, and after the reconnect, the connection
\* is read and used without another look.
RereadConn(t) ==
    /\ pc[t] \in {"reread", "reread2"}
    /\ local' = [local EXCEPT ![t] = conn]
    /\ Goto(t, IF pc[t] = "reread" THEN "channel" ELSE "channel2")
    /\ UNCHANGED <<linkVars, mainVars, faults, holder, back, oldConn>>

\* A call on connection c returns an error: always when c is closed, and by a
\* failure when c is live (no channel is left, a declaration is refused).
CallFails(c) == IF Usable(c) THEN Fault ELSE UNCHANGED faults

\* conn.Channel(): a nil connection panics.  The first failure leads to a
\* reconnect, the second to an error.
OpenChannel(t) ==
    /\ pc[t] \in {"channel", "channel2"}
    /\ \/ /\ local[t] = 0
          /\ Goto(t, "panic")
          /\ UNCHANGED <<back, faults>>
       \/ /\ Usable(local[t])
          /\ Goto(t, "declare")
          /\ UNCHANGED <<back, faults>>
       \/ /\ local[t] # 0 /\ CallFails(local[t])
          /\ IF pc[t] = "channel"
             THEN Goto(t, "lock") /\ back' = [back EXCEPT ![t] = "reread2"]
             ELSE Goto(t, "idle") /\ UNCHANGED back
    /\ UNCHANGED <<linkVars, mainVars, holder, local, oldConn>>

\* declareTopology: all of its calls succeed, or channel closes the new channel
\* and returns the error of the first that does not.
DeclareTopology(t) ==
    /\ pc[t] = "declare"
    /\ \/ Usable(local[t]) /\ Goto(t, "ready") /\ UNCHANGED faults
       \/ CallFails(local[t]) /\ Goto(t, "idle")
    /\ UNCHANGED <<linkVars, mainVars, holder, back, local, oldConn>>

\* The caller is done with its channel and closes it.
FinishChannel(t) ==
    /\ pc[t] = "ready"
    /\ Goto(t, "idle")
    /\ UNCHANGED <<linkVars, mainVars, faults, holder, back, local, oldConn>>

-------------------------------------------------------------------------------
(* reconnectWithBackoff *)

\* Slip: no second look at the connection under reconnectMu.
LockReconnectBlindly(t) ==
    /\ pc[t] = "lock" /\ holder = {}
    /\ Goto(t, "dial")
    /\ holder' = {t}
    /\ UNCHANGED <<linkVars, mainVars, faults, back, local, oldConn>>

\* Slip: the broken connection is cleared before dialling.
LockReconnectClearing(t) ==
    /\ pc[t] = "lock" /\ holder = {}
    /\ IF Usable(conn) THEN Goto(t, back[t]) /\ UNCHANGED <<holder, conn>>
                       ELSE Goto(t, "dial") /\ holder' = {t} /\ conn' = 0
    /\ UNCHANGED <<dials, open, brokerUp, losses, mainVars, faults, back, local, oldConn>>

\* Slip: reconnectMu is not taken.
LockReconnectUnlocked(t) ==
    /\ pc[t] = "lock"
    /\ IF Usable(conn) THEN Goto(t, back[t]) /\ UNCHANGED holder
                       ELSE Goto(t, "dial") /\ holder' = holder \cup {t}
    /\ UNCHANGED <<linkVars, mainVars, faults, back, local, oldConn>>

\* reconnectMu.Lock() and the check that another thread was not faster.
LockReconnect(t) ==
    /\ pc[t] = "lock" /\ holder = {}
    /\ IF Usable(conn) THEN Goto(t, back[t]) /\ UNCHANGED holder
                       ELSE Goto(t, "dial") /\ holder' = {t}
    /\ UNCHANGED <<linkVars, mainVars, faults, back, local, oldConn>>

Dial(t) ==
    /\ pc[t] = "dial"
    /\ IF brokerUp /\ dials < MaxDials
       THEN /\ dials' = dials + 1
            /\ open' = open \cup {dials + 1}
            /\ local' = [local EXCEPT ![t] = dials + 1]
            /\ Goto(t, "swap")
       ELSE /\ Goto(t, "backoff")
            /\ UNCHANGED <<dials, open, local>>
    /\ UNCHANGED <<conn, brokerUp, losses, mainVars, faults, holder, back, oldConn>>

\* r.conn = newConn under mu.
SwapConn(t) ==
    /\ pc[t] = "swap"
    /\ oldConn' = [oldConn EXCEPT ![t] = conn]
    /\ conn' = local[t]
    /\ Goto(t, "closeOld")
    /\ UNCHANGED <<dials, open, brokerUp, losses, mainVars, faults, holder, back, local>>

\* Close the old connection if it is still open, and return.
CloseOld(t) ==
    /\ pc[t] = "closeOld"
    /\ open' = open \ {oldConn[t]}
    /\ oldConn' = [oldConn EXCEPT ![t] = 0]
    /\ holder' = {}
    /\ Goto(t, back[t])
    /\ UNCHANGED <<conn, dials, brokerUp, losses, mainVars, faults, back, local>>

\* The select of the back-off: time.After fires, also if the context is done
\* by then.
BackoffOver(t) ==
    /\ pc[t] = "backoff"
    /\ Goto(t, "dial")
    /\ UNCHANGED <<linkVars, mainVars, faults, holder, back, local, oldConn>>

\* Slip: the error return does not unlock reconnectMu.
BackoffCancelledKeepingLock(t) ==
    /\ pc[t] = "backoff" /\ CtxDone(t)
    /\ Goto(t, "idle")
    /\ UNCHANGED <<linkVars, mainVars, faults, holder, back, local, oldConn>>

\* The context is done, and channel returns the error.
BackoffCancelled(t) ==
    /\ pc[t] = "backoff" /\ CtxDone(t)
    /\ Goto(t, "idle")
    /\ holder' = {}
    /\ UNCHANGED <<linkVars, mainVars, faults, back, local, oldConn>>

-------------------------------------------------------------------------------
(* main, the network and the broker *)

\* The select of main: a signal, or one of its goroutines has ended.
Stop ==
    /\ stage = "running"
    /\ stage' = "stopped"
    /\ UNCHANGED <<linkVars, threadVars, closeConn, faults>>

\* ShutdownWithTimeout: handlers that go on after the timeout are not waited
\* for, and neither are the workers and the scanners.
ShutdownServer ==
    /\ stage = "stopped"
    /\ stage' = "serverDown"
    /\ UNCHANGED <<linkVars, threadVars, closeConn, faults>>

CloseSwap ==
    /\ stage = "serverDown"
    /\ stage' = "swapped"
    /\ closeConn' = conn
    /\ conn' = 0
    /\ UNCHANGED <<dials, open, brokerUp, losses, threadVars, faults>>

\* Slip: Close forgets the connection without closing it.
CloseForgotten ==
    /\ stage = "swapped"
    /\ stage' = "closed"
    /\ UNCHANGED <<linkVars, threadVars, closeConn, faults>>

CloseConnection ==
    /\ stage = "swapped"
    /\ stage' = "closed"
    /\ open' = open \ {closeConn}
    /\ UNCHANGED <<conn, dials, brokerUp, losses, threadVars, closeConn, faults>>

ConnectionLost(c) ==
    /\ c \in open
    /\ Fault
    /\ open' = open \ {c}
    /\ losses' = losses + 1
    /\ UNCHANGED <<conn, dials, brokerUp, threadVars, mainVars>>

BrokerFails ==
    /\ brokerUp
    /\ Fault
    /\ brokerUp' = FALSE
    /\ UNCHANGED <<conn, dials, open, losses, threadVars, mainVars>>

BrokerRecovers ==
    /\ ~brokerUp
    /\ brokerUp' = TRUE
    /\ UNCHANGED <<conn, dials, open, losses, threadVars, mainVars, faults>>

\* The steps inside channel() that do not wait for reconnectMu.
InChannel(t) ==
    \/ CheckConn(t) \/ RecheckConn(t) \/ RereadConn(t)
    \/ OpenChannel(t) \/ DeclareTopology(t)
    \/ Dial(t) \/ SwapConn(t) \/ CloseOld(t) \/ BackoffOver(t)

ConnectionNext ==
    \/ \E t \in Threads :
        \/ StartChannel(t) \/ InChannel(t) \/ LockReconnect(t)
        \/ BackoffCancelled(t) \/ FinishChannel(t)
    \/ Stop \/ ShutdownServer \/ CloseSwap \/ CloseConnection
    \/ \E c \in Conns : ConnectionLost(c)
    \/ BrokerFails \/ BrokerRecovers

ConnectionSpec == ConnectionInit /\ [][ConnectionNext]_connectionVars

(***************************************************************************)
(* Goroutines are scheduled, sync.Mutex lets no waiter starve, and a       *)
(* select that finds ctx.Done() ready again and again takes it.  Once      *)
(* stop() was called main goes on, because ShutdownWithTimeout is bounded. *)
(***************************************************************************)
ThreadFairness ==
    \A t \in Threads :
        /\ WF_connectionVars(InChannel(t))
        /\ SF_connectionVars(LockReconnect(t) \/ BackoffCancelled(t))

MainFairness == WF_connectionVars(ShutdownServer \/ CloseSwap \/ CloseConnection)

\* The broker may stay away for ever.
FairConnectionSpec == ConnectionSpec /\ ThreadFairness /\ MainFairness

-------------------------------------------------------------------------------
\* reconnectWithBackoff dials only to replace a connection that was lost or
\* closed: of the threads that find it broken, one dials and the others see
\* the new one.
DialsAreNeeded == dials <= 1 + losses + (IF Closing THEN 1 ELSE 0)

\* An open connection is the one that Close will take or has taken, or a
\* thread is about to store or close it.  The one exception is a connection
\* stored after Close took its predecessor: it stays in r.conn, and nobody
\* closes it.
LeaksOnlyAfterClose ==
    \A c \in open :
        \/ ~Closing /\ c = conn
        \/ stage = "swapped" /\ c = closeConn
        \/ Closing /\ c = conn /\ closeConn < c
        \/ \E t \in Threads :
            \/ pc[t] = "swap" /\ c = local[t]
            \/ pc[t] = "closeOld" /\ c = oldConn[t]

\* conn.Channel() is called on nil at most after Close: channel() uses the
\* second and third connection it reads without looking at them.
NilOnlyAfterClose ==
    \A t \in Threads : pc[t] = "panic" => Closing

Answered(t) == pc[t] \in {"idle", "ready", "panic"}

\* If the broker does not stay away, every call of channel() returns.
ChannelAnswered ==
    \A t \in Threads : <>[]brokerUp => []<>Answered(t)

\* Once main is stopping every call of channel() returns, even if the broker
\* is away and the thread waits for reconnectMu behind an HTTP handler, whose
\* context ends later than its own.
StopEndsWaiting == \A t \in Threads : stage # "running" ~> Answered(t)

===============================================================================
