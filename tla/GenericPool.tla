------------------------------ MODULE GenericPool ------------------------------
(***************************************************************************)
(* GenericPool: the buffered channel poolChan of idle connections and the  *)
(* counter curSize, shared by goroutines that Acquire, Release and Close   *)
(* connections and by goroutines that call CloseAll or Shutdown.  No lock  *)
(* joins the channel, the counter and the shutdown flag: each access is a  *)
(* step of its own.  Connections also die (their reader closes them) and   *)
(* grow older than lifetime at any moment.                                 *)
(***************************************************************************)
EXTENDS Integers, Sequences, FiniteSets

(* An operator that stands just before the definition it resembles is a bug
   that definition could have, used to test that a property notices it. *)

CONSTANTS
    MinSize,   \* minSize of NewGenericPool
    MaxArg,    \* the maxSize that NewGenericPool is called with
    Getters,   \* goroutines that acquire and give back
    Closers,   \* goroutines that call CloseAll and Shutdown, users or not
    MaxConns   \* bound on the connections the factory makes in a behaviour

Procs == Getters \cup Closers

ASSUME PoolAssumption ==
    /\ MinSize \in Nat \ {0} /\ MaxArg \in Int
    /\ MaxConns \in Nat /\ MinSize <= MaxConns
    /\ IsFiniteSet(Procs)

\* NewGenericPool: the size of the pool ...
maxSize == IF MaxArg <= 0 \/ MinSize > MaxArg THEN MinSize ELSE MaxArg

CapacityOfMaxSize == maxSize

\* ... and the capacity of its channel.
Capacity == maxSize * 2

Conns == 1..MaxConns
NoConn == 0

VARIABLES
    poolChan,    \* the idle connections, oldest first
    chanClosed,  \* has Shutdown closed poolChan?
    curSize,     \* GenericPool.curSize
    shutdown,    \* GenericPool.shutdown
    made,        \* connections made by the factory so far: 1..made
    closed,      \* connections whose IsClose() is true
    expired,     \* connections older than lifetime
    pc,          \* where a goroutine stands in its call
    conn         \* the connection a goroutine has in hand

vars == <<poolChan, chanClosed, curSize, shutdown, made, closed, expired, pc,
          conn>>

-----------------------------------------------------------------------------
\* A goroutine that has a counted connection in hand, and one that found
\* poolChan empty and may still add a connection.
HoldStates ==
    {"check", "uncount", "held", "put", "closing", "cleared", "drained"}
CreateStates == {"full", "dial", "count"}
PCStates ==
    HoldStates \cup CreateStates \cup
    {"idle", "enter", "poll", "wait", "mark", "closechan", "drain", "clear",
     "panicked"}

Types ==
    /\ poolChan \in Seq(Conns) /\ Len(poolChan) <= Capacity
    /\ chanClosed \in BOOLEAN /\ shutdown \in BOOLEAN
    /\ curSize \in Int
    /\ made \in 0..MaxConns
    /\ closed \in SUBSET Conns /\ expired \in SUBSET Conns
    /\ pc \in [Procs -> PCStates]
    /\ conn \in [Procs -> Conns \cup {NoConn}]

\* The types, and a counter that is never decremented below zero.
TypeOK == Types /\ curSize >= 0

\* The factory may fail for any of the first MinSize connections.
Init ==
    /\ made \in 0..MinSize
    /\ poolChan = [i \in 1..made |-> i]
    /\ curSize = made
    /\ chanClosed = FALSE /\ shutdown = FALSE
    /\ closed = {} /\ expired = {}
    /\ pc = [p \in Procs |-> "idle"]
    /\ conn = [p \in Procs |-> NoConn]

-----------------------------------------------------------------------------
(***************************************************************************)
(* Acquire and getOrCreate.  Acquire returns an error after a shutdown.    *)
(***************************************************************************)

Goto(p, label) == pc' = [pc EXCEPT ![p] = label]

\* Receive from poolChan.  A closed and empty channel yields nil, on which
\* IsClose panics.
Take(p, label) ==
    \/ /\ poolChan # <<>>
       /\ poolChan' = Tail(poolChan)
       /\ conn' = [conn EXCEPT ![p] = Head(poolChan)]
       /\ Goto(p, label)
    \/ /\ poolChan = <<>> /\ chanClosed
       /\ Goto(p, "panicked")
       /\ UNCHANGED <<poolChan, conn>>

Acquire(g) ==
    /\ pc[g] = "idle" /\ ~shutdown
    /\ Goto(g, "enter")
    /\ UNCHANGED <<poolChan, chanClosed, curSize, shutdown, made, closed,
                   expired, conn>>

Enter(g) ==
    /\ pc[g] = "enter"
    /\ Goto(g, IF shutdown THEN "idle" ELSE "poll")
    /\ UNCHANGED <<poolChan, chanClosed, curSize, shutdown, made, closed,
                   expired, conn>>

PollNot(g) ==
    /\ pc[g] = "poll"
    /\ Goto(g, "full")
    /\ UNCHANGED <<poolChan, chanClosed, curSize, shutdown, made, closed,
                   expired, conn>>

Poll(g) ==
    /\ pc[g] = "poll"
    /\ \/ Take(g, "check")
       \/ poolChan = <<>> /\ ~chanClosed /\ Goto(g, "full")
          /\ UNCHANGED <<poolChan, conn>>
    /\ UNCHANGED <<chanClosed, curSize, shutdown, made, closed, expired>>

CheckSize(g) ==
    /\ pc[g] = "full"
    /\ Goto(g, IF curSize >= maxSize THEN "wait" ELSE "dial")
    /\ UNCHANGED <<poolChan, chanClosed, curSize, shutdown, made, closed,
                   expired, conn>>

WaitTake(g) ==
    /\ pc[g] = "wait"
    /\ Take(g, "check")
    /\ UNCHANGED <<chanClosed, curSize, shutdown, made, closed, expired>>

\* "no connection available" after POOL_MAX_WAIT_TIME.
WaitTimesOut(g) ==
    /\ pc[g] = "wait"
    /\ Goto(g, "idle")
    /\ UNCHANGED <<poolChan, chanClosed, curSize, shutdown, made, closed,
                   expired, conn>>

DialFails(g) ==
    /\ pc[g] = "dial"
    /\ Goto(g, "idle")
    /\ UNCHANGED <<poolChan, chanClosed, curSize, shutdown, made, closed,
                   expired, conn>>

Dial(g) ==
    /\ pc[g] = "dial"
    /\ made < MaxConns
    /\ made' = made + 1
    /\ conn' = [conn EXCEPT ![g] = made + 1]
    /\ Goto(g, "count")
    /\ UNCHANGED <<poolChan, chanClosed, curSize, shutdown, closed, expired>>

Count(g) ==
    /\ pc[g] = "count"
    /\ curSize' = curSize + 1
    /\ Goto(g, "check")
    /\ UNCHANGED <<poolChan, chanClosed, shutdown, made, closed, expired,
                   conn>>

CheckUncountsExpired(g) ==
    /\ pc[g] = "check"
    /\ closed' = IF conn[g] \in expired THEN closed \cup {conn[g]} ELSE closed
    /\ curSize' = IF conn[g] \in expired THEN curSize - 1 ELSE curSize
    /\ Goto(g, IF conn[g] \in closed \cup expired THEN "uncount" ELSE "held")
    /\ UNCHANGED <<poolChan, chanClosed, shutdown, made, expired, conn>>

CheckForgetsDead(g) ==
    /\ pc[g] = "check"
    /\ \/ /\ conn[g] \in closed
          /\ Goto(g, "enter")
          /\ conn' = [conn EXCEPT ![g] = NoConn]
          /\ UNCHANGED closed
       \/ /\ conn[g] \notin closed /\ conn[g] \in expired
          /\ closed' = closed \cup {conn[g]}
          /\ Goto(g, "uncount")
          /\ UNCHANGED conn
       \/ /\ conn[g] \notin closed \cup expired
          /\ Goto(g, "held")
          /\ UNCHANGED <<closed, conn>>
    /\ UNCHANGED <<poolChan, chanClosed, curSize, shutdown, made, expired>>

\* Acquire's loop: a dead connection is forgotten, an expired one is closed
\* and forgotten, any other is handed out.
Check(g) ==
    /\ pc[g] = "check"
    /\ closed' = IF conn[g] \in expired THEN closed \cup {conn[g]} ELSE closed
    /\ Goto(g, IF conn[g] \in closed \cup expired THEN "uncount" ELSE "held")
    /\ UNCHANGED <<poolChan, chanClosed, curSize, shutdown, made, expired,
                   conn>>

\* "continue": back to getOrCreate.
Uncount(g) ==
    /\ pc[g] = "uncount"
    /\ curSize' = curSize - 1
    /\ conn' = [conn EXCEPT ![g] = NoConn]
    /\ Goto(g, "enter")
    /\ UNCHANGED <<poolChan, chanClosed, shutdown, made, closed, expired>>

-----------------------------------------------------------------------------
(***************************************************************************)
(* Release and Close of a connection that Acquire handed out.              *)
(***************************************************************************)

\* After a shutdown Release only returns an error: the connection is left to
\* the caller, which drops it.
Release(g) ==
    /\ pc[g] = "held"
    /\ Goto(g, IF shutdown THEN "idle" ELSE "put")
    /\ conn' = IF shutdown THEN [conn EXCEPT ![g] = NoConn] ELSE conn
    /\ UNCHANGED <<poolChan, chanClosed, curSize, shutdown, made, closed,
                   expired>>

PutTwice(g) ==
    /\ pc[g] = "put"
    /\ ~chanClosed /\ Len(poolChan) + 1 < Capacity
    /\ poolChan' = poolChan \o <<conn[g], conn[g]>>
    /\ conn' = [conn EXCEPT ![g] = NoConn]
    /\ Goto(g, "idle")
    /\ UNCHANGED <<chanClosed, curSize, shutdown, made, closed, expired>>

\* The send blocks while the channel is full and panics when it is closed.
Put(g) ==
    /\ pc[g] = "put"
    /\ \/ /\ ~chanClosed /\ Len(poolChan) < Capacity
          /\ poolChan' = Append(poolChan, conn[g])
          /\ conn' = [conn EXCEPT ![g] = NoConn]
          /\ Goto(g, "idle")
       \/ /\ chanClosed
          /\ Goto(g, "panicked")
          /\ UNCHANGED <<poolChan, conn>>
    /\ UNCHANGED <<chanClosed, curSize, shutdown, made, closed, expired>>

Close(g) ==
    /\ pc[g] = "held"
    /\ closed' = closed \cup {conn[g]}
    /\ Goto(g, "closing")
    /\ UNCHANGED <<poolChan, chanClosed, curSize, shutdown, made, expired,
                   conn>>

Closed(g) ==
    /\ pc[g] = "closing"
    /\ curSize' = curSize - 1
    /\ conn' = [conn EXCEPT ![g] = NoConn]
    /\ Goto(g, "idle")
    /\ UNCHANGED <<poolChan, chanClosed, shutdown, made, closed, expired>>

-----------------------------------------------------------------------------
(***************************************************************************)
(* CloseAll and Shutdown.                                                  *)
(***************************************************************************)

CloseAll(k) ==
    /\ pc[k] = "idle" /\ ~shutdown
    /\ Goto(k, "clear")
    /\ UNCHANGED <<poolChan, chanClosed, curSize, shutdown, made, closed,
                   expired, conn>>

CheckShutdown(k) ==
    /\ pc[k] = "idle" /\ ~shutdown
    /\ Goto(k, "mark")
    /\ UNCHANGED <<poolChan, chanClosed, curSize, shutdown, made, closed,
                   expired, conn>>

Shutdown(k) ==
    /\ pc[k] = "mark"
    /\ shutdown' = TRUE
    /\ Goto(k, "closechan")
    /\ UNCHANGED <<poolChan, chanClosed, curSize, made, closed, expired, conn>>

CloseChan(k) ==
    /\ pc[k] = "closechan"
    /\ chanClosed' = TRUE
    /\ Goto(k, IF chanClosed THEN "panicked" ELSE "drain")
    /\ UNCHANGED <<poolChan, curSize, shutdown, made, closed, expired, conn>>

\* The loops of CloseAll ("clear") and of Shutdown ("drain"): take, close,
\* count.
TakeToClose(k) ==
    /\ pc[k] \in {"clear", "drain"}
    /\ poolChan # <<>>
    /\ poolChan' = Tail(poolChan)
    /\ conn' = [conn EXCEPT ![k] = Head(poolChan)]
    /\ closed' = closed \cup {Head(poolChan)}
    /\ Goto(k, IF pc[k] = "clear" THEN "cleared" ELSE "drained")
    /\ UNCHANGED <<chanClosed, curSize, shutdown, made, expired>>

Drop(k) ==
    /\ pc[k] \in {"cleared", "drained"}
    /\ curSize' = curSize - 1
    /\ conn' = [conn EXCEPT ![k] = NoConn]
    /\ Goto(k, IF pc[k] = "cleared" THEN "clear" ELSE "drain")
    /\ UNCHANGED <<poolChan, chanClosed, shutdown, made, closed, expired>>

\* Both loops end when the channel is empty; if the channel was closed
\* meanwhile CloseAll receives nil and panics.
LoopEnds(k) ==
    /\ pc[k] \in {"clear", "drain"}
    /\ poolChan = <<>>
    /\ Goto(k, IF pc[k] = "clear" /\ chanClosed THEN "panicked" ELSE "idle")
    /\ UNCHANGED <<poolChan, chanClosed, curSize, shutdown, made, closed,
                   expired, conn>>

-----------------------------------------------------------------------------
\* The connections: their reader closes them, and time passes.
Dies(c) ==
    /\ c \in 1..made \ closed
    /\ closed' = closed \cup {c}
    /\ UNCHANGED <<poolChan, chanClosed, curSize, shutdown, made, expired, pc,
                   conn>>

Expires(c) ==
    /\ c \in 1..made \ expired
    /\ expired' = expired \cup {c}
    /\ UNCHANGED <<poolChan, chanClosed, curSize, shutdown, made, closed, pc,
                   conn>>

-----------------------------------------------------------------------------
Getter(g) ==
    \/ Acquire(g) \/ Enter(g) \/ Poll(g) \/ CheckSize(g) \/ WaitTake(g)
    \/ WaitTimesOut(g) \/ DialFails(g) \/ Dial(g) \/ Count(g) \/ Check(g)
    \/ Uncount(g) \/ Release(g) \/ Put(g) \/ Close(g) \/ Closed(g)

Closer(k) ==
    \/ CloseAll(k) \/ CheckShutdown(k) \/ Shutdown(k) \/ CloseChan(k)
    \/ TakeToClose(k) \/ Drop(k) \/ LoopEnds(k)

Next ==
    \/ \E g \in Getters : Getter(g)
    \/ \E k \in Closers : Closer(k)
    \/ \E c \in Conns : Dies(c) \/ Expires(c)

Spec == Init /\ [][Next]_vars

-----------------------------------------------------------------------------
Holders == {p \in Procs : pc[p] \in HoldStates}
Creators == {p \in Procs : pc[p] \in CreateStates}

\* The most connections that goroutines which poll the channel before they
\* dial can bring about.
Limit ==
    IF Cardinality(Procs) > maxSize THEN Cardinality(Procs) ELSE maxSize

\* curSize, which is read and written outside any lock, counts exactly the
\* idle connections and those in the hands of goroutines, whichever of
\* Acquire, Release, Close and CloseAll interleave.
SizeIsExact ==
    ~shutdown => curSize = Len(poolChan) + Cardinality(Holders)

\* The test of curSize in getOrCreate is not atomic with the dial, so it does
\* not keep the pool within maxSize; the receive before the test does keep it
\* within the number of goroutines that use it, if that is larger.
SizeBounded == curSize <= Limit

\* A connection is never handed to two goroutines, nor left in the channel
\* while one has it.
OwnedOnce ==
    /\ \A i, j \in 1..Len(poolChan) :
          i # j => poolChan[i] # poolChan[j]
    /\ \A p \in Procs :
          conn[p] # NoConn =>
             /\ \A i \in 1..Len(poolChan) : poolChan[i] # conn[p]
             /\ \A q \in Procs \ {p} : conn[q] # conn[p]

\* The channel has twice the room of the pool: with at most 2*maxSize
\* goroutines a Release finds room, so that the request that released its
\* connection goes on to send.
ReleaseNeverBlocks ==
    Cardinality(Procs) <= maxSize * 2 =>
        \A p \in Procs : pc[p] = "put" => Len(poolChan) < Capacity
=============================================================================
