---------------------------- MODULE SessionManager ----------------------------
(***************************************************************************)
(* The sessions of one ServiceClient: every call of RequestAsyncWithHead   *)
(* registers a session under a fresh seq, sends the request and hands the  *)
(* caller an unbuffered channel.  The response (a worker of the            *)
(* connection's ants pool, running Process) and the session's timer        *)
(* goroutine race to destroy the session; the first one delivers on the    *)
(* channel while it holds the session's mutex.                             *)
(*                                                                         *)
(* A seq names the session it was drawn for, the caller that made the      *)
(* request and the session's own goroutine: the one that destroys it with  *)
(* a nil package, which is the timer goroutine, or the caller itself when  *)
(* the body cannot be encoded (in that case no timer goroutine is          *)
(* started).                                                               *)
(***************************************************************************)
EXTENDS ServiceNode, Integers, FiniteSets

(* An operator that stands just before the definition it resembles is a bug
   that definition could have, used to test that a property notices it. *)

CONSTANTS
    MaxSeq,      \* bound on the requests made in a behaviour
    MaxReplies,  \* bound on the packages a server sends for one request
    Workers,     \* the workers of ClientHandler's goroutine pool
    Abandons     \* may an asynchronous caller drop the channel unread?

Seqs == 1..MaxSeq

\* The goroutines that may run DestorySessionAndRespPkg.
Procs == Seqs \cup Workers

ASSUME SessionAssumption ==
    /\ MaxSeq \in Nat
    /\ MaxReplies \in Nat
    /\ Abandons \in BOOLEAN
    /\ Workers \cap Seqs = {}
    /\ None \notin Nodes
    /\ None \notin Procs

VARIABLES
    seq,         \* EasySessionManager.seq: the last seq drawn
    sessionMap,  \* the keys of EasySessionManager.sessionMap
    node,        \* node[s]: EasySession.node
    respChan,    \* EasySession.respChan: "none" before InitSession, "open",
                 \* "nil" once it has been closed
    timer,       \* EasySession.timer: "armed", "fired" (a tick waits in
                 \* timer.C), "drained" or "stopped"
    mutex,       \* mutex[s]: the goroutine that holds EasySession.mutex
    wire,        \* wire[q]: packages under way that carry seq q
    caller,      \* where the caller of request s stands
    pc,          \* where a goroutine stands in the destruction of a session
    sess         \* sess[p]: the seq goroutine p works on

sessionVars == <<seq, sessionMap, node, active, respChan, timer, mutex, wire,
          caller, pc, sess>>

-----------------------------------------------------------------------------
CallerStates ==
    {"none", "encode", "send", "spawn", "returned", "waiting", "abandoned",
     "answered", "timedout", "failing", "panicked"}

ProcStates ==
    {"idle", "process", "timer", "delete", "lock", "send", "finish", "done"}

TypeOK ==
    /\ seq \in 0..MaxSeq
    /\ sessionMap \in SUBSET (1..seq)
    /\ node \in [Seqs -> Nodes \cup {None}]
    /\ active \in [Nodes -> Int]
    /\ respChan \in [Seqs -> {"none", "open", "nil"}]
    /\ timer \in [Seqs -> {"none", "armed", "fired", "drained", "stopped"}]
    /\ mutex \in [Seqs -> Procs \cup {None}]
    /\ wire \in [0..MaxSeq -> Nat]
    /\ caller \in [Seqs -> CallerStates]
    /\ pc \in [Procs -> ProcStates]
    /\ sess \in [Procs -> 0..MaxSeq]

SessionInit ==
    /\ seq = 0
    /\ sessionMap = {}
    /\ node = [s \in Seqs |-> None]
    /\ active = [n \in Nodes |-> 0]
    /\ respChan = [s \in Seqs |-> "none"]
    /\ timer = [s \in Seqs |-> "none"]
    /\ mutex = [s \in Seqs |-> None]
    /\ wire = [q \in 0..MaxSeq |-> 0]
    /\ caller = [s \in Seqs |-> "none"]
    /\ pc = [p \in Procs |-> "idle"]
    /\ sess = [p \in Procs |-> IF p \in Seqs THEN p ELSE 0]

-----------------------------------------------------------------------------
(***************************************************************************)
(* The caller: RequestAsyncWithHead from InitSession on, and the receive   *)
(* of Request or of the asynchronous caller.                               *)
(***************************************************************************)

Registered(s) == sessionMap \cup {s}

\* The atomic increments and the insertion under the manager's lock are one
\* step: until the insertion no other goroutine can reach the session.
InitSession(s, n) ==
    /\ s = seq + 1
    /\ seq' = s
    /\ active' = [active EXCEPT ![n] = @ + 1]
    /\ node' = [node EXCEPT ![s] = n]
    /\ respChan' = [respChan EXCEPT ![s] = "open"]
    /\ timer' = [timer EXCEPT ![s] = "armed"]
    /\ sessionMap' = Registered(s)
    /\ caller' = [caller EXCEPT ![s] = "encode"]
    /\ UNCHANGED <<mutex, wire, pc, sess>>

EncodeOk(s) ==
    /\ caller[s] = "encode"
    /\ caller' = [caller EXCEPT ![s] = "send"]
    /\ UNCHANGED <<seq, sessionMap, node, active, respChan, timer, mutex,
                   wire, pc, sess>>

\* The body or the format cannot be encoded: the caller destroys the session
\* before it has returned the channel.  Nobody can be receiving, so Deliver
\* is never enabled for it and the return of the error is not reached: the
\* module has no action for that statement.
EncodeFails(s) ==
    /\ caller[s] = "encode"
    /\ caller' = [caller EXCEPT ![s] = "failing"]
    /\ pc' = [pc EXCEPT ![s] = "delete"]
    /\ UNCHANGED <<seq, sessionMap, node, active, respChan, timer, mutex,
                   wire, sess>>

\* Send has put the request into the connection's queue.  It may be lost, or be
\* answered with any number of packages; a service that replaces the head
\* answers with seq 0.  Nothing says that Send returns: while the queue is full
\* and its writer is gone, the caller stays here.
SendRequest(s) ==
    /\ caller[s] = "send"
    /\ caller' = [caller EXCEPT ![s] = "spawn"]
    /\ \E q \in {0, s}, k \in 0..MaxReplies :
          wire' = [wire EXCEPT ![q] = @ + k]
    /\ UNCHANGED <<seq, sessionMap, node, active, respChan, timer, mutex,
                   pc, sess>>

\* Send panics on the channel that the connection's reader has closed.  The
\* goroutine unwinds: nobody has been started to destroy the session.
SendPanics(s) ==
    /\ caller[s] = "send"
    /\ caller' = [caller EXCEPT ![s] = "panicked"]
    /\ UNCHANGED <<seq, sessionMap, node, active, respChan, timer, mutex,
                   wire, pc, sess>>

SpawnTimerNot(s) ==
    /\ caller[s] = "spawn"
    /\ caller' = [caller EXCEPT ![s] = "returned"]
    /\ UNCHANGED <<seq, sessionMap, node, active, respChan, timer, mutex,
                   wire, pc, sess>>

\* "go func() { <-session.timer.C ... }()" and the return of the channel.
SpawnTimer(s) ==
    /\ caller[s] = "spawn"
    /\ caller' = [caller EXCEPT ![s] = "returned"]
    /\ pc' = [pc EXCEPT ![s] = "timer"]
    /\ UNCHANGED <<seq, sessionMap, node, active, respChan, timer, mutex,
                   wire, sess>>

Receive(s) ==
    /\ caller[s] = "returned"
    /\ caller' = [caller EXCEPT ![s] = "waiting"]
    /\ UNCHANGED <<seq, sessionMap, node, active, respChan, timer, mutex,
                   wire, pc, sess>>

Abandon(s) ==
    /\ Abandons
    /\ caller[s] = "returned"
    /\ caller' = [caller EXCEPT ![s] = "abandoned"]
    /\ UNCHANGED <<seq, sessionMap, node, active, respChan, timer, mutex,
                   wire, pc, sess>>

-----------------------------------------------------------------------------
(***************************************************************************)
(* The session's timer and its goroutine.                                  *)
(***************************************************************************)

TimerFires(s) ==
    /\ timer[s] = "armed"
    /\ timer' = [timer EXCEPT ![s] = "fired"]
    /\ UNCHANGED <<seq, sessionMap, node, active, respChan, mutex, wire,
                   caller, pc, sess>>

TimerWakes(s) ==
    /\ pc[s] = "timer"
    /\ timer[s] = "fired"
    /\ timer' = [timer EXCEPT ![s] = "drained"]
    /\ pc' = [pc EXCEPT ![s] = "delete"]
    /\ UNCHANGED <<seq, sessionMap, node, active, respChan, mutex, wire,
                   caller, sess>>

-----------------------------------------------------------------------------
(***************************************************************************)
(* Responses: ClientHandler.Dispatch and ServiceClient.Process.            *)
(***************************************************************************)

\* The pool is non-blocking: a package that finds no idle worker is dropped.
Dispatch(q) ==
    /\ wire[q] > 0
    /\ wire' = [wire EXCEPT ![q] = @ - 1]
    /\ \/ \E w \in Workers :
             /\ pc[w] = "idle"
             /\ pc' = [pc EXCEPT ![w] = "process"]
             /\ sess' = [sess EXCEPT ![w] = q]
       \/ /\ \A w \in Workers : pc[w] # "idle"
          /\ UNCHANGED <<pc, sess>>
    /\ UNCHANGED <<seq, sessionMap, node, active, respChan, timer, mutex,
                   caller>>

\* The head cannot be decoded: Process(nil) panics and is recovered.
DecodeFails(w) ==
    /\ pc[w] = "process"
    /\ pc' = [pc EXCEPT ![w] = "idle"]
    /\ UNCHANGED <<seq, sessionMap, node, active, respChan, timer, mutex,
                   wire, caller, sess>>

\* A package with seq 0, or whose session is gone, is only logged.
Process(w) ==
    /\ pc[w] = "process"
    /\ pc' = [pc EXCEPT ![w] =
                 IF sess[w] \in sessionMap THEN "delete" ELSE "idle"]
    /\ UNCHANGED <<seq, sessionMap, node, active, respChan, timer, mutex,
                   wire, caller, sess>>

-----------------------------------------------------------------------------
(***************************************************************************)
(* DestorySessionAndRespPkg(session, respPkg), run by any goroutine.       *)
(***************************************************************************)

DeleteSessionNot(p) ==
    /\ pc[p] = "delete"
    /\ pc' = [pc EXCEPT ![p] = "lock"]
    /\ UNCHANGED <<seq, sessionMap, node, active, respChan, timer, mutex,
                   wire, caller, sess>>

DeleteSession(p) ==
    /\ pc[p] = "delete"
    /\ sessionMap' = sessionMap \ {sess[p]}
    /\ pc' = [pc EXCEPT ![p] = "lock"]
    /\ UNCHANGED <<seq, node, active, respChan, timer, mutex, wire, caller,
                   sess>>

Stopped(s) == IF timer[s] = "armed" THEN "stopped" ELSE timer[s]

\* Where the goroutine goes when it returns from the destruction.
Returned(p) == IF p \in Workers THEN "idle" ELSE "done"

MutexIgnored(s) == TRUE

MutexFree(s) == mutex[s] = None

StillOpen(s) == respChan[s] = "open"

LockFirstEarlyDecrement(p) ==
    /\ pc[p] = "lock"
    /\ MutexFree(sess[p])
    /\ StillOpen(sess[p])
    /\ mutex' = [mutex EXCEPT ![sess[p]] = p]
    /\ active' = [active EXCEPT ![node[sess[p]]] = @ - 1]
    /\ pc' = [pc EXCEPT ![p] = "send"]
    /\ UNCHANGED <<seq, sessionMap, node, respChan, timer, wire, caller,
                   sess>>

\* The first to lock finds the channel and goes on to send, mutex held.
LockFirst(p) ==
    /\ pc[p] = "lock"
    /\ MutexFree(sess[p])
    /\ StillOpen(sess[p])
    /\ mutex' = [mutex EXCEPT ![sess[p]] = p]
    /\ pc' = [pc EXCEPT ![p] = "send"]
    /\ UNCHANGED <<seq, sessionMap, node, active, respChan, timer, wire,
                   caller, sess>>

LockLateDecrements(p) ==
    /\ pc[p] = "lock"
    /\ MutexFree(sess[p])
    /\ ~StillOpen(sess[p])
    /\ timer' = [timer EXCEPT ![sess[p]] = Stopped(sess[p])]
    /\ active' = [active EXCEPT ![node[sess[p]]] = @ - 1]
    /\ pc' = [pc EXCEPT ![p] = Returned(p)]
    /\ UNCHANGED <<seq, sessionMap, node, respChan, mutex, wire, caller,
                   sess>>

\* A later one finds respChan nil, stops the timer and unlocks.
LockLate(p) ==
    /\ pc[p] = "lock"
    /\ MutexFree(sess[p])
    /\ ~StillOpen(sess[p])
    /\ timer' = [timer EXCEPT ![sess[p]] = Stopped(sess[p])]
    /\ pc' = [pc EXCEPT ![p] = Returned(p)]
    /\ UNCHANGED <<seq, sessionMap, node, active, respChan, mutex, wire,
                   caller, sess>>

\* The channel is unbuffered: the send waits for the caller's receive.
Deliver(p) ==
    /\ pc[p] = "send"
    /\ caller[sess[p]] = "waiting"
    /\ caller' = [caller EXCEPT ![sess[p]] =
                     IF p \in Workers THEN "answered" ELSE "timedout"]
    /\ pc' = [pc EXCEPT ![p] = "finish"]
    /\ UNCHANGED <<seq, sessionMap, node, active, respChan, timer, mutex,
                   wire, sess>>

FinishWithoutUnlock(p) ==
    LET s == sess[p] IN
    /\ pc[p] = "finish"
    /\ respChan' = [respChan EXCEPT ![s] = "nil"]
    /\ active' = [active EXCEPT ![node[s]] = @ - 1]
    /\ timer' = [timer EXCEPT ![s] = Stopped(s)]
    /\ pc' = [pc EXCEPT ![p] = Returned(p)]
    /\ UNCHANGED <<seq, sessionMap, node, mutex, wire, caller, sess>>

Finish(p) ==
    LET s == sess[p] IN
    /\ pc[p] = "finish"
    /\ respChan' = [respChan EXCEPT ![s] = "nil"]
    /\ active' = [active EXCEPT ![node[s]] = @ - 1]
    /\ timer' = [timer EXCEPT ![s] = Stopped(s)]
    /\ mutex' = [mutex EXCEPT ![s] = None]
    /\ pc' = [pc EXCEPT ![p] = Returned(p)]
    /\ UNCHANGED <<seq, sessionMap, node, wire, caller, sess>>

-----------------------------------------------------------------------------
Request(s) ==
    \/ \E n \in Nodes : InitSession(s, n)
    \/ EncodeOk(s) \/ EncodeFails(s) \/ SendRequest(s) \/ SendPanics(s)
    \/ SpawnTimer(s) \/ Receive(s) \/ Abandon(s)

Timer(s) == TimerFires(s) \/ TimerWakes(s)

Response(w) == DecodeFails(w) \/ Process(w)

Destroy(p) ==
    \/ DeleteSession(p) \/ LockFirst(p) \/ LockLate(p)
    \/ Deliver(p) \/ Finish(p)

SessionNext ==
    \/ \E s \in Seqs : Request(s) \/ Timer(s)
    \/ \E q \in 0..MaxSeq : Dispatch(q)
    \/ \E w \in Workers : Response(w)
    \/ \E p \in Procs : Destroy(p)

\* Goroutines run until they block, timers fire, and a caller that does not
\* abandon its channel comes to the receive.  Nothing makes a request start,
\* a Send return or a response arrive.
SessionFairness ==
    /\ \A s \in Seqs :
          /\ WF_sessionVars(EncodeOk(s) \/ EncodeFails(s))
          /\ WF_sessionVars(SpawnTimer(s))
          /\ WF_sessionVars(Receive(s))
          /\ WF_sessionVars(TimerFires(s))
          /\ WF_sessionVars(TimerWakes(s))
    /\ \A w \in Workers : WF_sessionVars(Response(w))
    /\ \A p \in Procs : WF_sessionVars(Destroy(p))

SessionSpec == SessionInit /\ [][SessionNext]_sessionVars /\ SessionFairness

-----------------------------------------------------------------------------
(***************************************************************************)
(* What the sessions promise.                                              *)
(***************************************************************************)

\* The goroutines in the critical section of session s.
Holders(s) == {p \in Procs : pc[p] \in {"send", "finish"} /\ sess[p] = s}

\* The sessions that still count as load of node n.
OpenOn(n) == {s \in Seqs : node[s] = n /\ respChan[s] = "open"}

\* The session's own goroutine will still come to destroy it.
TimerPending(s) ==
    \/ pc[s] \in {"delete", "lock", "send"}
    \/ pc[s] = "timer" /\ timer[s] \in {"armed", "fired"}

\* The sessions whose channel nobody will read.
Abandoned == {s \in Seqs : caller[s] = "abandoned"}

\* Response and timer never deliver on the same session together: whoever is
\* between Lock and Unlock in DestorySessionAndRespPkg holds the session's
\* mutex, alone, and has found the channel open.
OneDeliverer ==
    \A s \in Seqs, p \in Procs :
        p \in Holders(s) => mutex[s] = p /\ respChan[s] = "open"

\* Node.Active, which the dynamic load balancer compares, counts exactly the
\* sessions opened on the node and not yet destroyed, whatever the order in
\* which answers and timeouts destroy them.
ActiveCountsSessions ==
    \A n \in Nodes : active[n] = Cardinality(OpenOn(n))

\* A caller that waits on its channel is never stranded: its session's timer
\* goroutine is still to come, whatever the responses do meanwhile, and no
\* goroutine has yet sent on the channel.
WaiterIsServed ==
    \A s \in Seqs :
        caller[s] = "waiting" =>
            TimerPending(s) /\ \A p \in Holders(s) : pc[p] = "send"

\* The call that made the session is still in RequestAsyncWithHead, on this
\* side of the go statement (a Send that never returns stays there).
InTheCall(s) == caller[s] \in {"encode", "send", "spawn"}

\* The session is in the map for ever only through Send, when it panics
\* or never returns: every other session there is either still being made by
\* its call, or the goroutine that will delete it exists and its timer has not
\* been stopped.  A request that is over is no longer in the map.
MapEntryIsOwned ==
    \A s \in sessionMap :
        /\ caller[s] \notin {"answered", "timedout"}
        /\ timer[s] # "stopped"
        /\ \/ InTheCall(s) \/ caller[s] = "panicked"
           \/ pc[s] = "delete"
           \/ pc[s] = "timer" /\ timer[s] \in {"armed", "fired"}

\* A worker of the response pool always comes back, from the channel and from
\* the mutex, unless the asynchronous caller never reads the channel.
WorkersComeBack ==
    \A w \in Workers :
        pc[w] # "idle" ~> pc[w] = "idle" \/ sess[w] \in Abandoned

-----------------------------------------------------------------------------
(***************************************************************************)
(* The abstract specification, and how the sessions implement it.          *)
(***************************************************************************)

StatusOf(s) ==
    CASE caller[s] = "none" -> "unborn"
      [] caller[s] = "waiting" -> "listening"
      [] caller[s] \in {"answered", "timedout"} -> caller[s]
      [] OTHER -> "pending"

Promise == INSTANCE RequestPromise WITH
    Ids    <- Seqs,
    status <- [s \in Seqs |-> StatusOf(s)],
    loaded <- {s \in Seqs : respChan[s] = "open"},
    target <- node,
    load   <- active

\* Each request is resolved at most once and only while its caller listens,
\* is load on its node from its start until after its outcome, and is resolved
\* in the end if its caller listens.
KeepsPromise == Promise!Spec
=============================================================================
