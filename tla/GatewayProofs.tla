----------------------------- MODULE GatewayProofs -----------------------------
(***************************************************************************)
(* Proofs about Gateway for every number of goroutines, services,          *)
(* addresses and requests.  Clients and pools are made by the holder of a  *)
(* mutex who has found none.  An answer that the queue took stays in it    *)
(* until it is written, and an error's nil comes after its answer, so that *)
(* a writer that has stopped has written the answer of a failed request.   *)
(***************************************************************************)
EXTENDS Gateway, TLAPS

Labels == {"idle", "client", "newClient", "nodes", "pool", "newPool", "acquire",
           "send", "wait", "reply", "error", "nil", "pushReply", "pushError",
           "pushNil"}

Types ==
    /\ arrived \in Nat /\ at \in [Procs -> Labels]
    /\ req \in [Procs -> Nat \cup {None}]
    /\ service \in [Procs -> Services \cup {None}]
    /\ addr \in [Procs -> Addrs \cup {None}]
    /\ mutex \in Procs \cup {None} /\ locked \in [Services -> Procs \cup {None}]
    /\ clients \in [Services -> Nat] /\ nodeMgr \in [Services -> BOOLEAN]
    /\ pools \in [Services -> [Addrs -> Nat]]
    /\ writeChan \in Seq(Nat) /\ writer \in BOOLEAN
    /\ reader \in {"reads", "ends", "nil", "close", "done"}

\* A goroutine with a request knows its number and its service, and, from the
\* choice of a node on, the address.
Known ==
    \A g \in Procs :
        /\ at[g] # "idle" => req[g] \in Nat \ {Nil} /\ service[g] \in Services
        /\ at[g] \in {"pool", "newPool", "acquire"} => addr[g] \in Addrs

\* Who makes a client or a pool holds the mutex and has found none.
MakerIsAlone ==
    \A g \in Procs :
        /\ at[g] = "newClient" => mutex = g /\ clients[service[g]] = 0
        /\ at[g] = "newPool" =>
              /\ locked[service[g]] = g
              /\ pools[service[g]][addr[g]] = 0

MakeInv == Types /\ Known /\ MakerIsAlone /\ OneForAll

In(q, r) == \E i \in 1..Len(q) : q[i] = r

\* The connection has ended, whether the reader has noticed it or not.
Ended == reader # "reads"

\* Who is about to send nil has sent the error, if the connection took it.
ErrorSent ==
    \A g \in Procs :
        at[g] \in {"nil", "pushNil"} =>
            \/ Ended
            \/ req[g] \in failed /\ (req[g] \in written \/ In(writeChan, req[g]))

\* The answer that an error's nil follows is written, or before it in the queue.
NilFollows ==
    \A i \in 1..Len(writeChan) :
        writeChan[i] = Nil =>
            \/ Ended
            \/ \E f \in failed : \/ f \in written
                                \/ \E j \in 1..(i - 1) : writeChan[j] = f

\* The writer only stops with the connection, or after a failed request's answer.
WriterStops == writer \/ Ended \/ failed \cap written # {}

Kept ==
    /\ answered \cup failed \subseteq Nat \ {Nil}
    /\ \A r \in answered : r \in written \/ In(writeChan, r) \/ Ended

AnswerInv == MakeInv /\ ErrorSent /\ NilFollows /\ WriterStops /\ Kept

\* The safety half of AnswersArrive: an answer that the queue took is written, or
\* waits for a writer that is alive; otherwise the connection has ended, or
\* another request of it has failed.
NothingMissed ==
    \A r \in answered :
        \/ r \in written \/ (writer /\ In(writeChan, r))
        \/ Ended \/ failed \ {r} # {}

-----------------------------------------------------------------------------
\* What is in a queue that takes an item.
LEMMA AppendAt ==
    ASSUME NEW q \in Seq(Nat), NEW x \in Nat
    PROVE  /\ Append(q, x) \in Seq(Nat)
           /\ Len(q) \in Nat /\ Len(Append(q, x)) = Len(q) + 1
           /\ \A i \in 1..Len(q) : Append(q, x)[i] = q[i]
           /\ Append(q, x)[Len(q) + 1] = x
OBVIOUS

\* What is in a queue whose head has been taken.
LEMMA TailAt ==
    ASSUME NEW q \in Seq(Nat), q # <<>>
    PROVE  /\ Tail(q) \in Seq(Nat)
           /\ Len(q) \in Nat /\ Len(Tail(q)) = Len(q) - 1
           /\ \A i \in 1..Len(q) - 1 : Tail(q)[i] = q[i + 1]
           /\ Head(q) = q[1]
OBVIOUS

\* The two mutexes are nobody's, or held by somebody who is not nobody.
LEMMA NobodyIsNoProc == None \notin Procs
BY GatewayAssumption DEF Procs

\* Nothing is made when the gateway starts.
LEMMA InitMake == Init => MakeInv
<1> SUFFICES ASSUME Init PROVE MakeInv
    OBVIOUS
<1>1. writer \in BOOLEAN
    BY Zenon DEF Init
<1>2. nodeMgr \in [Services -> BOOLEAN]
    BY DEF Init
<1>3. Types
    BY <1>1, <1>2 DEF Init, Types, Labels
<1>4. Known /\ MakerIsAlone /\ OneForAll
    BY DEF Init, Known, MakerIsAlone, OneForAll
<1> QED
    BY <1>3, <1>4 DEF MakeInv

\* A step of a goroutine.
Moves(g) == Take(g) \/ Work(g) \/ SendRequest(g) \/ Panics(g) \/ DropError(g)

\* A goroutine's step keeps the invariant about making.
LEMMA WorkMakes ==
    ASSUME MakeInv, NEW g \in Procs, Moves(g)
    PROVE  MakeInv'
<1> USE NobodyIsNoProc
        DEF MakeInv, Types, Labels, Known, MakerIsAlone, OneForAll, Goto, Nil,
            connection, shared, requests
<1>1. CASE Take(g)
    BY <1>1 DEF Take
<1>2. CASE FindClient(g)
  <2>1. CASE Goto(g, "nodes") /\ UNCHANGED mutex
      BY <1>2, <2>1 DEF FindClient
  <2>2. CASE clients[service[g]] = 0 /\ Goto(g, "newClient") /\ mutex' = g
      BY <1>2, <2>2 DEF FindClient
  <2> QED
      BY <1>2, <2>1, <2>2 DEF FindClient
<1>3. CASE NewClient(g)
    BY <1>3 DEF NewClient
<1>4. CASE GetNode(g)
    BY <1>4 DEF GetNode
<1>5. CASE NoNode(g)
    BY <1>5 DEF NoNode
<1>6. CASE FindPool(g)
  <2>1. CASE Goto(g, "acquire") /\ UNCHANGED locked
      BY <1>6, <2>1 DEF FindPool
  <2>2. CASE /\ pools[service[g]][addr[g]] = 0 /\ Goto(g, "newPool")
             /\ locked' = [locked EXCEPT ![service[g]] = g]
      BY <1>6, <2>2 DEF FindPool
  <2> QED
      BY <1>6, <2>1, <2>2 DEF FindPool
<1>7. CASE NewPool(g)
    BY <1>7 DEF NewPool
<1>8. CASE Acquire(g)
  <2>1. PICK l \in {"send", "error"} : Goto(g, l)
      BY <1>8 DEF Acquire
  <2> QED
      BY <1>8, <2>1 DEF Acquire
<1>9. CASE SendRequest(g)
    BY <1>9 DEF SendRequest
<1>10. CASE Receive(g)
  <2>1. PICK l \in {"reply", "error"} : Goto(g, l)
      BY <1>10 DEF Receive
  <2> QED
      BY <1>10, <2>1 DEF Receive
<1>11. CASE AnswerHttp(g) \/ Panics(g) \/ DropError(g) \/ PushPanics(g)
  <2>1. Done(g) /\ UNCHANGED <<shared, connection>>
      BY <1>11 DEF AnswerHttp, Panics, DropError, PushPanics
  <2> QED
      BY <2>1 DEF Done
<1>12. CASE TestClose(g)
  <2>0. UNCHANGED <<shared, connection>>
      BY <1>12 DEF TestClose
  <2>1. CASE \E l \in {"nil", "pushReply", "pushError", "pushNil"} : Goto(g, l)
    <3>1. PICK l \in {"nil", "pushReply", "pushError", "pushNil"} : Goto(g, l)
        BY <2>1
    <3>2. at[g] # "idle"
        BY <1>12 DEF TestClose, Pushing
    <3> QED
        BY <2>0, <3>1, <3>2
  <2>2. CASE Done(g)
      BY <2>0, <2>2 DEF Done
  <2>3. \A l \in DOMAIN Pushing : Pushing[l] \in {"pushReply", "pushError", "pushNil"}
      BY DEF Pushing
  <2> QED
      BY <1>12, <2>1, <2>2, <2>3 DEF TestClose
<1>13. CASE Push(g)
  <2>1. /\ UNCHANGED <<shared, writer, reader, written>>
        /\ at[g] \in {"pushReply", "pushError", "pushNil"}
        /\ writeChan' = Append(writeChan, Package(g)) /\ Package(g) \in Nat
      BY <1>13 DEF Push, InPush, Package
  <2>2. writeChan' \in Seq(Nat)
      BY <2>1
  <2>3. CASE Goto(g, "nil")
      BY <2>1, <2>2, <2>3
  <2>4. CASE Done(g)
      BY <2>1, <2>2, <2>4 DEF Done
  <2> QED
      BY <1>13, <2>3, <2>4 DEF Push
<1> QED
    BY <1>1, <1>2, <1>3, <1>4, <1>5, <1>6, <1>7, <1>8, <1>9, <1>10, <1>11,
       <1>12, <1>13
       DEF Moves, Work, Lock

\* So does every other step.
LEMMA MakeStep == MakeInv /\ [Next]_vars => MakeInv'
<1> SUFFICES ASSUME MakeInv, [Next]_vars PROVE MakeInv'
    OBVIOUS
<1> USE DEF MakeInv, Types, Labels, Known, MakerIsAlone, OneForAll, connection,
            shared, requests
<1>1. CASE SubmitFails
    BY <1>1 DEF SubmitFails
<1>2. CASE Writer \/ WriteFails
  <2>1. /\ writeChan' = Tail(writeChan) /\ writeChan # <<>>
        /\ UNCHANGED <<requests, shared, reader>>
      BY <1>2 DEF Writer, WriteFails
  <2>2. writer' \in BOOLEAN
      BY Zenon, <1>2 DEF Writer, WriteFails
  <2>3. writeChan' \in Seq(Nat)
      BY <2>1, TailAt
  <2> QED
      BY <2>1, <2>2, <2>3
<1>3. CASE Disconnect
    BY <1>3 DEF Disconnect
<1>4. CASE Reader
  <2>1. writeChan' = writeChan \/ writeChan' = Append(writeChan, 0)
      BY <1>4 DEF Reader, Nil
  <2>2. writeChan' \in Seq(Nat)
    <3>1. writeChan \in Seq(Nat) /\ 0 \in Nat
        OBVIOUS
    <3>2. Append(writeChan, 0) \in Seq(Nat)
        BY ONLY <3>1, AppendAt
    <3> QED
        BY <2>1, <3>1, <3>2
  <2>3. reader' \in {"nil", "close", "done"} /\ UNCHANGED <<requests, shared, writer>>
      BY <1>4 DEF Reader
  <2> QED
      BY <2>2, <2>3
<1>5. CASE UNCHANGED vars
    BY <1>5 DEF vars
<1> QED
    BY <1>1, <1>2, <1>3, <1>4, <1>5, WorkMakes DEF Next, Moves

\* The invariant about making holds in every behaviour.
THEOREM MakeAlways == Spec => []MakeInv
BY InitMake, MakeStep, PTL DEF Spec

\* However many first requests meet, a service gets one client and each of its
\* addresses one pool.
THEOREM MadeOnce == Spec => []OneForAll
<1>1. MakeInv => OneForAll
    BY DEF MakeInv
<1> QED
    BY <1>1, MakeAlways, PTL

-----------------------------------------------------------------------------
\* A package or nil joins the queue, and leaves what is in it where it is.
LEMMA JoinStep ==
    ASSUME Types, NEW item \in Nat, writeChan' = Append(writeChan, item),
           written' = written, failed \subseteq failed', Ended => Ended'
    PROVE  /\ \A r : In(writeChan, r) => In(writeChan', r)
           /\ In(writeChan', item)
           /\ NilFollows
              /\ (item = Nil =>
                     Ended' \/ \E f \in failed' : f \in written \/ In(writeChan, f))
                 => NilFollows'
<1>1. /\ Len(writeChan) \in Nat /\ Len(writeChan') = Len(writeChan) + 1
      /\ \A i \in 1..Len(writeChan) : writeChan'[i] = writeChan[i]
      /\ writeChan'[Len(writeChan) + 1] = item
    BY AppendAt DEF Types
<1>2. /\ \A r : In(writeChan, r) => In(writeChan', r)
      /\ In(writeChan', item)
    BY <1>1 DEF In
<1>3. ASSUME NilFollows,
             item = Nil =>
                Ended' \/ \E f \in failed' : f \in written \/ In(writeChan, f)
      PROVE  NilFollows'
  <2> SUFFICES ASSUME NEW i \in 1..Len(writeChan'), writeChan'[i] = Nil, ~Ended'
               PROVE  \E f \in failed' : \/ f \in written'
                                        \/ \E j \in 1..(i - 1) : writeChan'[j] = f
      BY DEF NilFollows
  <2>1. CASE i \in 1..Len(writeChan)
      BY <1>1, <1>3, <2>1 DEF NilFollows
  <2>2. CASE i = Len(writeChan) + 1
      BY <1>1, <1>3, <2>2 DEF In
  <2> QED
      BY <1>1, <2>1, <2>2
<1> QED
    BY <1>2, <1>3

\* No answer is owed when the gateway starts.
LEMMA InitAnswers == Init => AnswerInv
<1> SUFFICES ASSUME Init PROVE AnswerInv
    OBVIOUS
<1>1. ErrorSent /\ NilFollows /\ WriterStops /\ Kept
    BY DEF Init, ErrorSent, NilFollows, WriterStops, Kept, Ended
<1> QED
    BY <1>1, InitMake DEF AnswerInv

\* Every step keeps the invariant about answers.
LEMMA AnswerStep == AnswerInv /\ [Next]_vars => AnswerInv'
<1> SUFFICES ASSUME AnswerInv, [Next]_vars PROVE AnswerInv'
    OBVIOUS
<1>m. MakeInv /\ MakeInv'
    BY MakeStep DEF AnswerInv
<1>s. SUFFICES (ErrorSent /\ NilFollows /\ WriterStops /\ Kept)'
    BY <1>m DEF AnswerInv
<1> USE DEF AnswerInv, ErrorSent, WriterStops, Kept, Ended
<1> DEFINE Pushes(g) == at[g] \in {"nil", "pushNil"}
<1>1. ASSUME UNCHANGED connection,
             \A g \in Procs : Pushes(g)' =>
                 (Pushes(g) \/ Ended) /\ req'[g] = req[g]
      PROVE  (ErrorSent /\ NilFollows /\ WriterStops /\ Kept)'
    BY <1>1 DEF connection, NilFollows, In
<1>2. ASSUME NEW g \in Procs, Push(g)
      PROVE  (ErrorSent /\ NilFollows /\ WriterStops /\ Kept)'
  <2>1. /\ at[g] \in {"pushReply", "pushError", "pushNil"}
        /\ writeChan' = Append(writeChan, Package(g))
        /\ UNCHANGED <<writer, reader, written>>
        /\ req[g] \in Nat \ {Nil} /\ Package(g) \in Nat
        /\ answered' = answered \cup ({Package(g)} \ {Nil})
        /\ failed' = IF at[g] = "pushError" THEN failed \cup {req[g]} ELSE failed
      BY <1>2, <1>m DEF Push, InPush, Package, MakeInv, Known, Nil
  <2>2. Package(g) = Nil => at[g] = "pushNil"
      BY <2>1 DEF Package
  <2>3. Package(g) = Nil =>
            Ended' \/ \E f \in failed' : f \in written \/ In(writeChan, f)
      BY <2>1, <2>2
  <2>4. /\ \A r : In(writeChan, r) => In(writeChan', r)
        /\ In(writeChan', Package(g)) /\ NilFollows'
    <3> DEFINE item == Package(g)
    <3> HIDE DEF item
    <3>1. /\ item \in Nat /\ writeChan' = Append(writeChan, item)
          /\ item = Nil =>
                Ended' \/ \E f \in failed' : f \in written \/ In(writeChan, f)
        BY <2>1, <2>3 DEF item
    <3>2. /\ \A r : In(writeChan, r) => In(writeChan', r)
          /\ In(writeChan', item) /\ NilFollows'
        BY <1>m, <2>1, <3>1, JoinStep DEF MakeInv
    <3> QED
        BY <3>2 DEF item
  <2>5. \A h \in Procs : Pushes(h)' =>
            /\ Pushes(h) \/ (h = g /\ at[g] = "pushError")
            /\ req'[h] = req[h]
      BY <1>2, <1>m DEF Push, Goto, Done, MakeInv, Types
  <2>6. at[g] = "pushError" => In(writeChan', req[g]) /\ req[g] \in failed'
      BY <2>1, <2>4 DEF Package
  <2>7. ErrorSent'
      BY <2>1, <2>4, <2>5, <2>6
  <2>8. WriterStops' /\ Kept'
      BY <2>1, <2>4
  <2> QED
      BY <2>4, <2>7, <2>8
<1>3. CASE WriteFails
  <2>1. Ended /\ Ended' /\ UNCHANGED <<answered, failed>>
      BY <1>3 DEF WriteFails
  <2> QED
      BY <2>1 DEF NilFollows
<1>4. CASE Writer
  <2>1. /\ writeChan' = Tail(writeChan)
        /\ written' = written \cup ({writeChan[1]} \ {Nil})
        /\ writer' = (writeChan[1] # Nil)
        /\ Len(writeChan) \in Nat
        /\ Len(writeChan) >= 1 /\ Len(writeChan') = Len(writeChan) - 1
        /\ \A i \in 1..Len(writeChan) - 1 : writeChan'[i] = writeChan[i + 1]
        /\ UNCHANGED <<requests, reader, answered, failed>>
      BY <1>4, <1>m, TailAt DEF Writer, MakeInv, Types
  <2>2. \A r : r # Nil /\ In(writeChan, r) => r \in written' \/ In(writeChan', r)
    <3> SUFFICES ASSUME NEW i \in 1..Len(writeChan), writeChan[i] # Nil,
                        writeChan[i] \notin written'
                 PROVE  In(writeChan', writeChan[i])
        BY DEF In
    <3>1. i # 1 /\ i - 1 \in 1..Len(writeChan')
        BY <2>1
    <3>2. writeChan'[i - 1] = writeChan[i]
        BY <2>1, <3>1
    <3> QED
        BY <3>1, <3>2 DEF In
  <2>3. ErrorSent' /\ Kept'
      BY <2>1, <2>2 DEF requests
  <2>4. WriterStops'
    <3>1. CASE writeChan[1] = Nil
      <4>1. Ended \/ \E f \in failed : f \in written
          BY <2>1, <3>1 DEF NilFollows
      <4> QED
          BY <2>1, <4>1
    <3>2. CASE writeChan[1] # Nil
        BY <2>1, <3>2
    <3> QED
        BY <3>1, <3>2
  <2>5. NilFollows'
    <3> SUFFICES ASSUME NEW i \in 1..Len(writeChan'), writeChan'[i] = Nil
                 PROVE  \/ Ended
                        \/ \E f \in failed' : \/ f \in written'
                                            \/ \E j \in 1..(i - 1) : writeChan'[j] = f
        BY <2>1 DEF NilFollows
    <3>1. i + 1 \in 1..Len(writeChan) /\ writeChan[i + 1] = Nil
        BY <2>1
    <3> SUFFICES ASSUME ~Ended
                 PROVE  \E f \in failed' : \/ f \in written'
                                          \/ \E j \in 1..(i - 1) : writeChan'[j] = f
        OBVIOUS
    <3>2. PICK f \in failed : \/ f \in written
                             \/ \E j \in 1..i : writeChan[j] = f
        BY <2>1, <3>1 DEF NilFollows
    <3>3. CASE f \in written
        BY <2>1, <3>3
    <3>4. ASSUME NEW j \in 1..i, writeChan[j] = f
          PROVE  f \in written' \/ \E k \in 1..(i - 1) : writeChan'[k] = f
      <4>1. CASE j = 1
          BY <2>1, <3>4, <4>1
      <4>2. CASE j # 1
        <5>1. j - 1 \in 1..(i - 1) /\ writeChan'[j - 1] = f
            BY <2>1, <3>4, <4>2
        <5> QED
            BY <5>1
      <4> QED
          BY <4>1, <4>2
    <3> QED
        BY <2>1, <3>2, <3>3, <3>4
  <2> QED
      BY <2>3, <2>4, <2>5
<1>5. CASE Disconnect \/ Reader
  <2>1. Ended' /\ UNCHANGED <<answered, failed>>
      BY <1>5 DEF Disconnect, Reader
  <2> QED
      BY <2>1 DEF NilFollows
<1>6. CASE SubmitFails \/ UNCHANGED vars
    BY <1>1, <1>6 DEF SubmitFails, vars, requests
<1>7. ASSUME NEW g \in Procs, Moves(g), ~Push(g)
      PROVE  (ErrorSent /\ NilFollows /\ WriterStops /\ Kept)'
  <2>1. UNCHANGED connection
      BY <1>7 DEF Moves, Work, Take, Lock, FindClient, FindPool, NewClient,
                  GetNode, NoNode, NewPool, Acquire, SendRequest, Receive, Panics,
                  DropError, TestClose, PushPanics, AnswerHttp
  <2>2. \A h \in Procs : Pushes(h)' => (Pushes(h) \/ Ended) /\ req'[h] = req[h]
    <3>1. CASE TestClose(g)
        BY <1>m, <3>1 DEF TestClose, Pushing, isClose, Goto, Done, MakeInv, Types
    <3>2. CASE ~TestClose(g)
        BY <1>7, <1>m, <3>2
           DEF Moves, Work, Take, Lock, FindClient, FindPool, NewClient, GetNode,
               NoNode, NewPool, Acquire, SendRequest, Receive, Panics, DropError,
               PushPanics, AnswerHttp, Goto, Done, MakeInv, Types
    <3> QED
        BY <3>1, <3>2
  <2> QED
      BY <1>1, <2>1, <2>2
<1> QED
    BY <1>2, <1>3, <1>4, <1>5, <1>6, <1>7 DEF Next, Moves, Work

\* The invariant about answers holds in every behaviour.
THEOREM AnswersAlways == Spec => []AnswerInv
BY InitAnswers, AnswerStep, PTL DEF Spec

\* An answer that the queue took can only be missed because the connection has
\* ended or another request of it has failed: a request's own error is written
\* before the nil behind it stops the writer.
THEOREM AnswersMissedForOthers == Spec => []NothingMissed
<1>1. AnswerInv => NothingMissed
    BY DEF AnswerInv, WriterStops, Kept, NothingMissed, Ended
<1> QED
    BY <1>1, AnswersAlways, PTL
=============================================================================
