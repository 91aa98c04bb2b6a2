----------------------------- MODULE ServiceHandler -----------------------------
(***************************************************************************)
(* A service's ServiceHandler: the readers of its connections dispatch     *)
(* packages to a non-blocking pool of goroutines (workers); each decodes   *)
(* its package and runs the middleware chain, whose end calls the method   *)
(* that the request names and sends the answer.  One middleware is an      *)
(* ApmMonitor: it counts requests, errors and time per method in a map     *)
(* that a reporting goroutine swaps every minute.                          *)
(*                                                                         *)
(* Methods, other middlewares and OnData are the application's: what they  *)
(* do here is return, set the ret of the head, or panic.  A Request and    *)
(* its Response have one head.  The monitor's maps are numbered; statuses  *)
(* keeps those that were swapped out, as workers may still hold entries.   *)
(***************************************************************************)
EXTENDS Integers, Sequences

(* An operator that stands just before the definition it resembles is a bug
   that definition could have, used to test that a property notices it. *)

CONSTANTS
    Workers,     \* the goroutines of the pool
    Known,       \* the methods of the service
    Methods,     \* the methods that requests name
    Middlewares, \* the chain that AddMiddleware built, in order
    MaxRequests, \* bound on the packages that arrive
    MaxReports,  \* bound on the ticks of the reporter
    Times,       \* the milliseconds that a request may take
    None         \* no entry

\* ApmMonitorStatus.
Entry == [total : Nat, error : Nat, time : Nat]

\* The chain has one monitor at most.
ASSUME HandlerAssumption ==
    /\ Known \subseteq Methods
    /\ Middlewares \in Seq({"monitor", "other"})
    /\ \A i, j \in DOMAIN Middlewares :
          Middlewares[i] = "monitor" /\ Middlewares[j] = "monitor" => i = j
    /\ MaxRequests \in Nat /\ MaxReports \in Nat /\ Times \subseteq Nat
    /\ None \notin Nat \cup Entry

VARIABLES
    arrived,   \* how many packages were dispatched
    at,        \* where a worker stands
    pos,       \* which middleware of the chain it runs
    method,    \* head.Method of its request
    ret,       \* head.Ret, of the request and of the response
    answer,    \* the ret of the answer it has sent, or None
    entry,     \* the entry of its request: the number of a map, or None
    current,   \* the number of ApmMonitor.statuses
    statuses,  \* the entries of the maps
    reporter,  \* where reportAndReset stands
    left,      \* the methods whose entries it has yet to divide
    mean,      \* the method and the quotient it has computed, or None
    spent,     \* auxiliary: the time of an entry's requests
    held,      \* auxiliary: the entries that workers held at the swap
    reports    \* auxiliary: what OnData was given

workers == <<arrived, at, pos, method, ret, answer, entry>>
report == <<current, reporter, left, mean, held, reports>>
vars == <<workers, report, statuses, spent>>

-----------------------------------------------------------------------------
Maps == 0..MaxReports

Init ==
    /\ arrived = 0
    /\ at = [w \in Workers |-> "idle"] /\ pos = [w \in Workers |-> 0]
    /\ method = [w \in Workers |-> None] /\ ret = [w \in Workers |-> 0]
    /\ answer = [w \in Workers |-> None] /\ entry = [w \in Workers |-> None]
    /\ current = 0
    /\ statuses = [g \in Maps |-> [m \in Methods |-> None]]
    /\ reporter = "tick" /\ left = {} /\ mean = None
    /\ spent = [g \in Maps |-> [m \in Methods |-> 0]]
    /\ held = {} /\ reports = <<>>

Goto(w, label) == at' = [at EXCEPT ![w] = label]

\* The closure ends, also by a panic, which PanicHandler recovers; what the
\* middlewares had to do after next is then left out.
Free(w) ==
    /\ Goto(w, "idle")
    /\ pos' = [pos EXCEPT ![w] = 0] /\ method' = [method EXCEPT ![w] = None]
    /\ ret' = [ret EXCEPT ![w] = 0] /\ answer' = [answer EXCEPT ![w] = None]
    /\ entry' = [entry EXCEPT ![w] = None]
    /\ UNCHANGED arrived

-----------------------------------------------------------------------------
(***************************************************************************)
(* Dispatch                                                                *)
(***************************************************************************)

\* A worker takes the package and decodes it.
Submit(w) ==
    /\ arrived < MaxRequests /\ at[w] = "idle"
    /\ \E m \in Methods : method' = [method EXCEPT ![w] = m]
    /\ arrived' = arrived + 1
    /\ pos' = [pos EXCEPT ![w] = 1] /\ Goto(w, "next")
    /\ UNCHANGED <<ret, answer, entry, report, statuses, spent>>

\* The pool is full, or the package cannot be decoded: it is lost.
SubmitFails ==
    /\ arrived < MaxRequests
    /\ arrived' = arrived + 1
    /\ UNCHANGED <<at, pos, method, ret, answer, entry, report, statuses, spent>>

-----------------------------------------------------------------------------
(***************************************************************************)
(* The chain: next.Middleware is the one at pos, or onRequest at the end.  *)
(***************************************************************************)

Running(w, middleware) ==
    pos[w] \in DOMAIN Middlewares /\ Middlewares[pos[w]] = middleware

\* A middleware of the application calls the next one, or returns with the ret
\* that it has set.
Other(w) ==
    /\ at[w] = "next" /\ Running(w, "other")
    /\ \/ pos' = [pos EXCEPT ![w] = @ + 1] /\ UNCHANGED <<at, ret>>
       \/ /\ pos' = [pos EXCEPT ![w] = @ - 1] /\ Goto(w, "return")
          /\ ret' = [ret EXCEPT ![w] = 1]
    /\ UNCHANGED <<arrived, method, answer, entry, report, statuses, spent>>

Fresh == [total |-> 0, error |-> 0, time |-> 0]

\* The mutex is held from the look at the map to the store of a new entry.
Lookup(w) ==
    /\ at[w] = "next" /\ Running(w, "monitor")
    /\ entry' = [entry EXCEPT ![w] = current]
    /\ statuses' = [statuses EXCEPT ![current][method[w]] =
                                          IF @ = None THEN Fresh ELSE @]
    /\ Goto(w, "count")
    /\ UNCHANGED <<arrived, pos, method, ret, answer, report, spent>>

Count(w) ==
    /\ at[w] = "count"
    /\ statuses' = [statuses EXCEPT ![entry[w]][method[w]].total = @ + 1]
    /\ pos' = [pos EXCEPT ![w] = @ + 1]
    /\ Goto(w, "next")
    /\ UNCHANGED <<arrived, method, ret, answer, entry, report, spent>>

AtEnd(w) == at[w] = "next" /\ pos[w] = Len(Middlewares) + 1

OnRequestWithOwnHead(w) ==
    /\ AtEnd(w)
    /\ \E r \in IF method[w] \in Known THEN {0, 1} ELSE {1} :
          /\ ret' = [ret EXCEPT ![w] = IF method[w] \in Known THEN r ELSE @]
          /\ \/ answer' = [answer EXCEPT ![w] = r]
             \/ method[w] \in Known /\ UNCHANGED answer
    /\ pos' = [pos EXCEPT ![w] = @ - 1] /\ Goto(w, "return")
    /\ UNCHANGED <<arrived, method, entry, report, statuses, spent>>

\* The method sets the ret of the response's head; if there is none by that
\* name, onRequest sets that of the request's.  There is no answer if the body
\* that the method has set cannot be encoded.
OnRequest(w) ==
    /\ AtEnd(w)
    /\ \E r \in IF method[w] \in Known THEN {0, 1} ELSE {1} :
          /\ ret' = [ret EXCEPT ![w] = r]
          /\ \/ answer' = [answer EXCEPT ![w] = r]
             \/ method[w] \in Known /\ UNCHANGED answer
    /\ pos' = [pos EXCEPT ![w] = @ - 1] /\ Goto(w, "return")
    /\ UNCHANGED <<arrived, method, entry, report, statuses, spent>>

\* Send blocks: the queue is full, and its writer has died.
SendBlocks(w) ==
    /\ AtEnd(w)
    /\ Goto(w, "blocked")
    /\ UNCHANGED <<arrived, pos, method, ret, answer, entry, report, statuses, spent>>

CanPanic(w) ==
    \/ AtEnd(w)
    \/ at[w] \in {"next", "return"} /\ Running(w, "other")

PanicsLosesWorker(w) ==
    /\ CanPanic(w) /\ Goto(w, "lost")
    /\ UNCHANGED <<arrived, pos, method, ret, answer, entry, report, statuses, spent>>

\* The method or a middleware of the application panics, or Send meets a closed
\* channel.
Panics(w) == CanPanic(w) /\ Free(w) /\ UNCHANGED <<report, statuses, spent>>

AddTime(w) ==
    /\ at[w] = "return" /\ Running(w, "monitor")
    /\ \E t \in Times :
          /\ statuses' = [statuses EXCEPT ![entry[w]][method[w]].time = @ + t]
          /\ spent' = [spent EXCEPT ![entry[w]][method[w]] = @ + t]
    /\ Goto(w, "judge")
    /\ UNCHANGED <<arrived, pos, method, ret, answer, entry, report>>

\* "if head.GetRet() != 0"
Judge(w) ==
    /\ at[w] = "judge"
    /\ statuses' = [statuses EXCEPT ![entry[w]][method[w]].error = @ + ret[w]]
    /\ entry' = [entry EXCEPT ![w] = None]
    /\ pos' = [pos EXCEPT ![w] = @ - 1]
    /\ Goto(w, "return")
    /\ UNCHANGED <<arrived, method, ret, answer, report, spent>>

Return(w) ==
    /\ at[w] = "return" /\ ~Running(w, "monitor")
    /\ IF pos[w] = 0 THEN Free(w)
       ELSE /\ pos' = [pos EXCEPT ![w] = @ - 1]
            /\ UNCHANGED <<arrived, at, method, ret, answer, entry>>
    /\ UNCHANGED <<report, statuses, spent>>

-----------------------------------------------------------------------------
(***************************************************************************)
(* reportAndReset: the map is swapped under the mutex, then its entries    *)
(* are divided without it, each by a read and a write.                     *)
(***************************************************************************)

Entries(g) == {m \in Methods : statuses[g][m] # None}

SwapWithoutReset ==
    /\ reporter = "tick" /\ Len(reports) < MaxReports
    /\ held' = {method[w] : w \in {v \in Workers : entry[v] = current}}
    /\ left' = Entries(current)
    /\ reporter' = "divide"
    /\ UNCHANGED <<workers, current, mean, reports, statuses, spent>>

Swap ==
    /\ reporter = "tick" /\ Len(reports) < MaxReports
    /\ current' = current + 1
    /\ held' = {method[w] : w \in {v \in Workers : entry[v] = current}}
    /\ left' = Entries(current)
    /\ reporter' = "divide"
    /\ UNCHANGED <<workers, mean, reports, statuses, spent>>

Old == Len(reports)

Divide(m) ==
    /\ reporter = "divide" /\ m \in left
    /\ LET total == statuses[Old][m].total
       IN IF total > 0
          THEN mean' = <<m, statuses[Old][m].time \div total>> /\ reporter' = "store"
          ELSE UNCHANGED <<mean, reporter>>
    /\ left' = left \ {m}
    /\ UNCHANGED <<workers, current, held, reports, statuses, spent>>

Store ==
    /\ reporter = "store"
    /\ statuses' = [statuses EXCEPT ![Old][mean[1]].time = mean[2]]
    /\ mean' = None
    /\ reporter' = "divide"
    /\ UNCHANGED <<workers, current, left, held, reports, spent>>

\* The application is given the entries themselves.
OnData ==
    /\ reporter = "divide" /\ left = {}
    /\ reports' = Append(reports, [data |-> statuses[Old], spent |-> spent[Old],
                                   held |-> held])
    /\ held' = {}
    /\ reporter' = "tick"
    /\ UNCHANGED <<workers, current, left, mean, statuses, spent>>

-----------------------------------------------------------------------------
Work(w) ==
    \/ Other(w) \/ Lookup(w) \/ Count(w)
    \/ OnRequest(w) \/ SendBlocks(w) \/ Panics(w)
    \/ AddTime(w) \/ Judge(w) \/ Return(w)

Report == (\E m \in left : Divide(m)) \/ Store \/ OnData

Next == SubmitFails \/ Swap \/ Report \/ \E w \in Workers : Submit(w) \/ Work(w)

\* Goroutines run, and the application's methods come back.
Fairness == WF_vars(Report) /\ \A w \in Workers : WF_vars(Work(w))

Spec == Init /\ [][Next]_vars /\ Fairness

-----------------------------------------------------------------------------
(* The monitor counts an error exactly for an answer that tells one: the head
   that it reads after the chain is the head that was sent, whether the method
   or onRequest set its ret. *)
ErrorsAreCounted ==
    [][\A w \in Workers : at[w] = "judge" /\ at'[w] # "judge" /\ answer[w] # None =>
          LET Errors(all) == all[entry[w]][method[w]].error
          IN Errors(statuses') - Errors(statuses) = answer[w]]_vars

\* The g-th report has m, and no request held its entry at the swap.
Reported(g, m) == reports[g].data[m] # None /\ m \notin reports[g].held

(* The mean that OnData is given is the time of all requests the entry counts
   over their number, unless a request held the entry at the swap: requests of
   the next minute do not disturb the division, which the lock does not cover. *)
MeanIsRight ==
    \A g \in 1..Len(reports), m \in Methods :
        Reported(g, m) =>
            LET data == reports[g].data[m]
            IN data.total > 0 /\ data.time = reports[g].spent[m] \div data.total

(* What the application was given changes no more, and no request is counted in
   it later, unless a request held the entry at the swap. *)
ReportIsSettled ==
    \A g \in 1..Len(reports), m \in Methods :
        Reported(g, m) => statuses[g - 1][m] = reports[g].data[m]

(* Every worker comes back to the pool, whatever the chain, the method and the
   connection do, unless it waits for the queue of a connection whose writer has
   died. *)
WorkersReturn ==
    \A w \in Workers : at[w] # "idle" ~> at[w] \in {"idle", "blocked"}
=============================================================================
