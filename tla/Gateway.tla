-------------------------------- MODULE Gateway --------------------------------
(***************************************************************************)
(* The gateway: requests that come over one connection are handled by the  *)
(* goroutines of GatewayHandler's pool (ProxyMiddleware), those over HTTP  *)
(* by goroutines of the HTTP server (HttpProxyMiddleware).  All of them    *)
(* use one EasyClient, which makes a ServiceClient for every service at    *)
(* its first request; a ServiceClient makes a pool of connections for      *)
(* every address at its first request.  Both are made with a mutex held,   *)
(* for as long as etcd and the dialing take.                               *)
(*                                                                         *)
(* The nodes that getNodes finds, what Acquire gives, whether the request  *)
(* gets past Send and how it ends are choices here: NodeManager,           *)
(* LoadBalancer, GenericPool, SessionManager and EasyConnection model      *)
(* them.                                                                   *)
(***************************************************************************)
EXTENDS Integers, Sequences, FiniteSets

(* An operator that stands just before the definition it resembles is a bug
   that definition could have, used to test that a property notices it. *)

CONSTANTS
    Pooled,       \* goroutines of GatewayHandler's pool
    Http,         \* goroutines that serve HTTP
    Services,     \* names of services
    Addrs,        \* addresses of their nodes
    QueueSize,    \* EASYCALL_WRITE_QUEUE_SIZE
    MaxRequests,  \* bound on the requests
    None          \* nobody, and nothing

ASSUME GatewayAssumption ==
    /\ QueueSize \in Nat \ {0} /\ MaxRequests \in Nat
    /\ Pooled \cap Http = {} /\ None \notin Pooled \cup Http

VARIABLES
    arrived,   \* how many requests there were
    at,        \* where a goroutine stands
    req,       \* the number of its request
    service,   \* head.GetService()
    addr,      \* the address of the node it was given
    mutex,     \* who holds EasyClient.mutex
    clients,   \* how many clients of a service were made
    nodeMgr,   \* does the service's client have a NodeManager?
    locked,    \* who holds the mutex of the service's client
    pools,     \* how many pools of an address its client made
    writeChan, \* the queue of the gateway's connection: requests that are answered
    writer,    \* is its writer alive?
    reader,    \* where its reader stands: "ends" when the connection has ended
    answered,  \* auxiliary: the requests whose answer the queue took
    failed,    \* auxiliary: those of them that were answered with an error
    written    \* auxiliary: the requests whose answer was written

requests == <<arrived, at, req, service, addr>>
shared == <<mutex, clients, nodeMgr, locked, pools>>
connection == <<writeChan, writer, reader, answered, failed, written>>
vars == <<requests, shared, connection>>

-----------------------------------------------------------------------------
Procs == Pooled \cup Http
Nil == 0

Init ==
    /\ arrived = 0
    /\ at = [g \in Procs |-> "idle"] /\ req = [g \in Procs |-> None]
    /\ service = [g \in Procs |-> None] /\ addr = [g \in Procs |-> None]
    /\ mutex = None /\ clients = [s \in Services |-> 0]
    /\ nodeMgr = [s \in Services |-> FALSE] /\ locked = [s \in Services |-> None]
    /\ pools = [s \in Services |-> [a \in Addrs |-> 0]]
    /\ writeChan = <<>> /\ writer = TRUE /\ reader = "reads"
    /\ answered = {} /\ failed = {} /\ written = {}

Goto(g, label) ==
    /\ at' = [at EXCEPT ![g] = label]
    /\ UNCHANGED <<arrived, req, service, addr>>

\* Back to the pool, or the HTTP answer is complete.
Done(g) ==
    /\ at' = [at EXCEPT ![g] = "idle"] /\ req' = [req EXCEPT ![g] = None]
    /\ service' = [service EXCEPT ![g] = None] /\ addr' = [addr EXCEPT ![g] = None]
    /\ UNCHANGED arrived

\* EasyConnection.isClose: the reader sets it before it stops the writer.
isClose == reader \in {"nil", "close", "done"}

-----------------------------------------------------------------------------
\* A package is dispatched to the pool, or an HTTP request is served.
Take(g) ==
    /\ arrived < MaxRequests /\ at[g] = "idle"
    /\ g \in Pooled => ~isClose
    /\ arrived' = arrived + 1
    /\ req' = [req EXCEPT ![g] = arrived + 1]
    /\ \E s \in Services : service' = [service EXCEPT ![g] = s]
    /\ at' = [at EXCEPT ![g] = "client"]
    /\ UNCHANGED <<addr, shared, connection>>

\* The pool is full, or the package cannot be decoded, or an HTTP request names
\* no service: nothing is asked of the client.
SubmitFails ==
    /\ arrived < MaxRequests
    /\ arrived' = arrived + 1
    /\ UNCHANGED <<at, req, service, addr, shared, connection>>

-----------------------------------------------------------------------------
(***************************************************************************)
(* EasyClient.RequestAsyncWithHead                                         *)
(***************************************************************************)

FindClientUnlocked(g) ==
    /\ at[g] = "client"
    /\ IF clients[service[g]] > 0
       THEN Goto(g, "nodes") /\ UNCHANGED mutex
       ELSE Goto(g, "newClient") /\ mutex' = g
    /\ UNCHANGED <<clients, nodeMgr, locked, pools, connection>>

\* The mutex is kept if the client is yet to be made.
FindClient(g) ==
    /\ at[g] = "client" /\ mutex = None
    /\ IF clients[service[g]] > 0
       THEN Goto(g, "nodes") /\ UNCHANGED mutex
       ELSE Goto(g, "newClient") /\ mutex' = g
    /\ UNCHANGED <<clients, nodeMgr, locked, pools, connection>>

NewClientKeepsMutex(g) ==
    /\ at[g] = "newClient"
    /\ \E connected \in BOOLEAN :
          /\ nodeMgr' = [nodeMgr EXCEPT ![service[g]] = connected]
          /\ mutex' = IF connected THEN None ELSE mutex
    /\ clients' = [clients EXCEPT ![service[g]] = @ + 1]
    /\ Goto(g, "nodes")
    /\ UNCHANGED <<locked, pools, connection>>

\* NewServiceClient makes a client in any case: if NewNodeManager fails it has
\* none, for ever.
NewClient(g) ==
    /\ at[g] = "newClient"
    /\ \E connected \in BOOLEAN :
          nodeMgr' = [nodeMgr EXCEPT ![service[g]] = connected]
    /\ clients' = [clients EXCEPT ![service[g]] = @ + 1]
    /\ mutex' = None
    /\ Goto(g, "nodes")
    /\ UNCHANGED <<locked, pools, connection>>

-----------------------------------------------------------------------------
(***************************************************************************)
(* ServiceClient.RequestAsyncWithHead                                      *)
(***************************************************************************)

\* getNodes, SetNodes and GetNode.
GetNode(g) ==
    /\ at[g] = "nodes" /\ nodeMgr[service[g]]
    /\ \E a \in Addrs : addr' = [addr EXCEPT ![g] = a]
    /\ at' = [at EXCEPT ![g] = "pool"]
    /\ UNCHANGED <<arrived, req, service, shared, connection>>

\* No NodeManager, no nodes, or none that the balancer can choose.
NoNode(g) ==
    /\ at[g] = "nodes"
    /\ Goto(g, "error")
    /\ UNCHANGED <<shared, connection>>

FindPool(g) ==
    /\ at[g] = "pool" /\ locked[service[g]] = None
    /\ IF pools[service[g]][addr[g]] > 0
       THEN Goto(g, "acquire") /\ UNCHANGED locked
       ELSE Goto(g, "newPool") /\ locked' = [locked EXCEPT ![service[g]] = g]
    /\ UNCHANGED <<mutex, clients, nodeMgr, pools, connection>>

\* NewGenericPool dials its connections; dials that fail only make it smaller.
NewPool(g) ==
    /\ at[g] = "newPool"
    /\ pools' = [pools EXCEPT ![service[g]][addr[g]] = @ + 1]
    /\ locked' = [locked EXCEPT ![service[g]] = None]
    /\ Goto(g, "acquire")
    /\ UNCHANGED <<mutex, clients, nodeMgr, connection>>

Acquire(g) ==
    /\ at[g] = "acquire"
    /\ \/ Goto(g, "send")
       \/ Goto(g, "error")
    /\ UNCHANGED <<shared, connection>>

\* Release, InitSession, the encoding and Send.  They may never return: Release at
\* a full pool, a failed encoding at the session's channel that nobody reads yet,
\* Send at a full queue whose writer is dead.
SendRequest(g) ==
    /\ at[g] = "send"
    /\ Goto(g, "wait")
    /\ UNCHANGED <<shared, connection>>

\* GetNode panics at an index, Send at a closed queue: PanicHandler or the HTTP
\* server recovers the goroutine, and there is no answer.
Panics(g) ==
    /\ at[g] \in {"nodes", "send"}
    /\ Done(g)
    /\ UNCHANGED <<shared, connection>>

\* The session's channel gives the response, or nil at the timeout.
Receive(g) ==
    /\ at[g] = "wait"
    /\ \/ Goto(g, "reply")
       \/ Goto(g, "error")
    /\ UNCHANGED <<shared, connection>>

-----------------------------------------------------------------------------
(***************************************************************************)
(* The answer.  An error goes out as a package, and after it the nil       *)
(* pkgData of that package, which is the writer's order to exit.           *)
(***************************************************************************)

AnswerHttp(g) ==
    /\ g \in Http /\ at[g] \in {"reply", "error"}
    /\ Done(g)
    /\ UNCHANGED <<shared, connection>>

\* The error cannot be encoded.
DropError(g) ==
    /\ g \in Pooled /\ at[g] = "error"
    /\ Done(g)
    /\ UNCHANGED <<shared, connection>>

Pushing == [reply |-> "pushReply", error |-> "pushError", nil |-> "pushNil"]

\* Send's test: a connection that is closed refuses the package.
TestClose(g) ==
    /\ g \in Pooled /\ at[g] \in DOMAIN Pushing
    /\ \/ ~isClose /\ Goto(g, Pushing[at[g]])
       \/ isClose /\ at[g] = "error" /\ Goto(g, "nil")
       \/ isClose /\ at[g] # "error" /\ Done(g)
    /\ UNCHANGED <<shared, connection>>

\* In Send, past its test.
InPush(g) == at[g] \in {"pushReply", "pushError", "pushNil"}

PackageSwapped(g) == IF at[g] = "pushError" THEN Nil ELSE req[g]

Package(g) == IF at[g] = "pushNil" THEN Nil ELSE req[g]

HasRoom == Len(writeChan) < QueueSize

\* A full queue makes Send wait, on a connection that is closed meanwhile too.
Push(g) ==
    /\ InPush(g) /\ reader # "done" /\ HasRoom
    /\ writeChan' = Append(writeChan, Package(g))
    /\ answered' = answered \cup ({Package(g)} \ {Nil})
    /\ \/ at[g] = "pushError" /\ failed' = failed \cup {req[g]} /\ Goto(g, "nil")
       \/ at[g] # "pushError" /\ failed' = failed /\ Done(g)
    /\ UNCHANGED <<shared, writer, reader, written>>

\* The queue is closed behind the test, or while Send waits.
PushPanics(g) ==
    /\ InPush(g) /\ reader = "done"
    /\ Done(g)
    /\ UNCHANGED <<shared, connection>>

Writer ==
    /\ writer /\ writeChan # <<>>
    /\ writer' = (Head(writeChan) # Nil)
    /\ written' = written \cup ({Head(writeChan)} \ {Nil})
    /\ writeChan' = Tail(writeChan)
    /\ UNCHANGED <<requests, shared, reader, answered, failed>>

\* The gateway's client has gone.
Disconnect ==
    /\ reader = "reads"
    /\ reader' = "ends"
    /\ UNCHANGED <<requests, shared, writeChan, writer, answered, failed, written>>

WriteFails ==
    /\ writer /\ reader # "reads"
    /\ writeChan # <<>> /\ Head(writeChan) # Nil
    /\ writer' = FALSE
    /\ writeChan' = Tail(writeChan)
    /\ UNCHANGED <<requests, shared, reader, answered, failed, written>>

\* The reader closes the connection, sends nil when there is room, and closes the
\* queue.
Reader ==
    /\ \/ reader = "ends" /\ reader' = "nil" /\ UNCHANGED writeChan
       \/ /\ reader = "nil" /\ HasRoom
          /\ reader' = "close" /\ writeChan' = Append(writeChan, Nil)
       \/ reader = "close" /\ reader' = "done" /\ UNCHANGED writeChan
    /\ UNCHANGED <<requests, shared, writer, answered, failed, written>>

-----------------------------------------------------------------------------
Lock(g) == FindClient(g) \/ FindPool(g)

Work(g) ==
    \/ Lock(g) \/ NewClient(g) \/ GetNode(g) \/ NoNode(g) \/ NewPool(g)
    \/ Acquire(g) \/ Receive(g) \/ AnswerHttp(g) \/ TestClose(g) \/ Push(g)
    \/ PushPanics(g)

Next ==
    \/ SubmitFails \/ Writer \/ WriteFails \/ Disconnect \/ Reader
    \/ \E g \in Procs :
          Take(g) \/ Work(g) \/ SendRequest(g) \/ Panics(g) \/ DropError(g)

\* Goroutines run, a waiting Lock gets its turn, etcd and dials time out, and the
\* channel of a session whose request was sent gives something.  Nothing makes
\* the sending end.
Fairness ==
    /\ WF_vars(Writer) /\ WF_vars(Reader)
    /\ \A g \in Procs : WF_vars(Work(g)) /\ SF_vars(Lock(g))

Spec == Init /\ [][Next]_vars /\ Fairness

-----------------------------------------------------------------------------
\* However many first requests meet, a service gets one client and an address
\* one pool: a second one would replace the first, with its sessions or its
\* connections.
OneForAll == \A s \in Services : clients[s] <= 1 /\ \A a \in Addrs : pools[s][a] <= 1

\* Every request ends, over HTTP and over the connection, although others never
\* come back from Release, the encoding or Send, or panic in it: nobody keeps a
\* mutex there, nor with a client that could not be made.  The exceptions are
\* those who are stuck there, and the answers that wait for a full queue whose
\* writer an error's nil or the end of the connection stopped.
RequestsEnd ==
    \A g \in Procs :
        at[g] # "idle" ~>
            at[g] \in {"idle", "send"} \/ (InPush(g) /\ ~writer /\ ~HasRoom)

\* An answer that the queue took is written, an error too, unless another
\* request of the connection has failed, which stops the writer for all, or the
\* connection has ended.
AnswersArrive ==
    []<>(\A r \in answered : r \in written \/ reader # "reads" \/ failed \ {r} # {})
=============================================================================
