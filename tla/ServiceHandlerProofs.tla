-------------------------- MODULE ServiceHandlerProofs --------------------------
(***************************************************************************)
(* Proofs about ServiceHandler for every number of workers, requests and   *)
(* reports, every chain with one monitor and all times.  A worker that has *)
(* looked up its entry before a swap is named in held; nobody else gets    *)
(* hold of an entry of a map that was swapped out, so that the division,   *)
(* which runs without the lock, has all other entries to itself.           *)
(***************************************************************************)
EXTENDS ServiceHandler, TLAPS

Labels == {"idle", "next", "count", "return", "judge", "blocked"}

Types ==
    /\ at \in [Workers -> Labels] /\ pos \in [Workers -> Int]
    /\ method \in [Workers -> Methods \cup {None}] /\ ret \in [Workers -> {0, 1}]
    /\ answer \in [Workers -> {0, 1, None}]
    /\ entry \in [Workers -> Maps \cup {None}]
    /\ statuses \in [Maps -> [Methods -> Entry \cup {None}]]
    /\ spent \in [Maps -> [Methods -> Nat]]
    /\ reports \in Seq([data : [Methods -> Entry \cup {None}],
                        spent : [Methods -> Nat], held : SUBSET Methods])
    /\ held \subseteq Methods

\* The monitor's frame is on the worker's stack.
Past(w) == \E i \in DOMAIN Middlewares : Middlewares[i] = "monitor" /\ i < pos[w]
InMonitor(w) ==
    \/ at[w] \in {"count", "judge"}
    \/ at[w] \in {"next", "return", "blocked"} /\ Past(w)
    \/ at[w] = "return" /\ Running(w, "monitor")

\* A worker has an entry exactly while the monitor is on its stack, and the ret of
\* the answer it has sent stays in the head.
Stands ==
    \A w \in Workers :
        /\ at[w] \in {"count", "judge"} => Running(w, "monitor")
        /\ at[w] # "idle" => method[w] \in Methods
        /\ entry[w] # None <=> InMonitor(w)
        /\ answer[w] # None => at[w] \in {"return", "judge"} /\ ret[w] = answer[w]

\* Where the reporter stands in its maps.
Phase ==
    /\ current \in Maps
    /\ reporter \in {"tick", "divide", "store"}
    /\ current = Len(reports) + (IF reporter = "tick" THEN 0 ELSE 1)
    /\ left \subseteq Methods
    /\ reporter = "divide" => \A m \in left : statuses[Old][m] # None
    /\ reporter = "store" =>
          /\ mean \in Methods \X Nat /\ mean[1] \notin left
          /\ statuses[Old][mean[1]] # None
          /\ \A m \in left : statuses[Old][m] # None

\* Workers hold entries that exist, of the newest map or those noted at its swap.
Holders ==
    \A w \in Workers :
        entry[w] # None =>
            /\ entry[w] \in 0..current /\ statuses[entry[w]][method[w]] # None
            /\ entry[w] = Old /\ reporter # "tick" => method[w] \in held
            /\ entry[w] < Len(reports) => method[w] \in reports[entry[w] + 1].held

\* Entries of the newest map hold the time spent, and count a request at least,
\* unless their first is about to be counted.
NewestExact ==
    /\ \A g \in Maps, m \in Methods :
          /\ g > current => statuses[g][m] = None
          /\ statuses[g][m] = None => spent[g][m] = 0
    /\ \A m \in Methods :
          statuses[current][m] # None =>
              /\ statuses[current][m].time = spent[current][m]
              /\ \/ statuses[current][m].total > 0
                 \/ \E w \in Workers : /\ at[w] = "count"
                                       /\ entry[w] = current /\ method[w] = m

\* Entries that the reporter divides, if nobody held them at the swap.
Undivided(m) == m \in left \/ (reporter = "store" /\ mean[1] = m)

DividedExact ==
    reporter # "tick" =>
        \A m \in Methods \ held :
            statuses[Old][m] # None =>
                /\ statuses[Old][m].total > 0
                /\ Undivided(m) => statuses[Old][m].time = spent[Old][m]
                /\ ~Undivided(m) => statuses[Old][m].time =
                                        spent[Old][m] \div statuses[Old][m].total
                /\ reporter = "store" /\ mean[1] = m =>
                       mean[2] = spent[Old][m] \div statuses[Old][m].total

\* What was reported, of entries that nobody held at the swap.
Settled ==
    \A g \in 1..Len(reports), m \in Methods :
        reports[g].data[m] # None /\ m \notin reports[g].held =>
            /\ statuses[g - 1][m] = reports[g].data[m]
            /\ reports[g].data[m].total > 0
            /\ reports[g].data[m].time =
                  reports[g].spent[m] \div reports[g].data[m].total

Inv ==
    /\ Types /\ Stands /\ Phase /\ Holders /\ NewestExact /\ DividedExact
    /\ Settled

-----------------------------------------------------------------------------
\* The invariant holds when the service starts.
LEMMA InitInv == Init => Inv
<1> SUFFICES ASSUME Init PROVE Inv
    OBVIOUS
<1>1. Types
    BY HandlerAssumption DEF Init, Types, Labels, Maps
<1>2. Stands
    BY DEF Init, Stands, InMonitor, Running
<1>3. Phase /\ Holders /\ NewestExact /\ DividedExact /\ Settled
    BY HandlerAssumption
       DEF Init, Phase, Holders, NewestExact, DividedExact, Settled, Maps, Old
<1> QED
    BY <1>1, <1>2, <1>3 DEF Inv

\* One entry of one map changes.
LEMMA Update ==
    ASSUME NEW S, NEW f \in [Maps -> [Methods -> S]], NEW g \in Maps,
           NEW m \in Methods, NEW e \in S
    PROVE  /\ [f EXCEPT ![g][m] = e] \in [Maps -> [Methods -> S]]
           /\ \A h \in Maps, n \in Methods :
                 [f EXCEPT ![g][m] = e][h][n] =
                    IF h = g /\ n = m THEN e ELSE f[h][n]
OBVIOUS

\* The entry that a worker holds.
LEMMA HolderEntry ==
    ASSUME Inv, NEW w \in Workers, entry[w] # None
    PROVE  /\ entry[w] \in Maps /\ entry[w] <= current /\ method[w] \in Methods
           /\ statuses[entry[w]][method[w]] \in Entry
           /\ statuses[entry[w]][method[w]] # None
           /\ spent[entry[w]][method[w]] \in Nat
<1>1. entry[w] \in Maps /\ entry[w] \in 0..current
    BY DEF Inv, Types, Holders
<1>2. method[w] \in Methods
    BY DEF Inv, Stands, InMonitor
<1> QED
    BY <1>1, <1>2 DEF Inv, Types, Holders

\* A worker changes the entry that it holds: the reporter's maps are left alone
\* but for entries that were held at their swap.
LEMMA HolderStep ==
    ASSUME Inv, NEW w \in Workers, entry[w] # None, NEW e \in Entry, NEW t \in Nat,
           statuses' = [statuses EXCEPT ![entry[w]][method[w]] = e],
           spent' = [spent EXCEPT ![entry[w]][method[w]] = t],
           UNCHANGED <<report, method>>, entry'[w] \in {entry[w], None},
           \A v \in Workers \ {w} : at'[v] = at[v] /\ entry'[v] = entry[v],
           \/ at[w] = "count" /\ e.total > 0
           \/ at[w] # "count" /\ e.total = statuses[entry[w]][method[w]].total,
           statuses[entry[w]][method[w]].time = spent[entry[w]][method[w]] => e.time = t
    PROVE  /\ statuses' \in [Maps -> [Methods -> Entry \cup {None}]]
           /\ spent' \in [Maps -> [Methods -> Nat]]
           /\ Phase' /\ Holders' /\ NewestExact' /\ DividedExact' /\ Settled'
<1>1. /\ entry[w] \in Maps /\ entry[w] <= current /\ method[w] \in Methods
      /\ statuses[entry[w]][method[w]] # None
    BY HolderEntry
<1>2. /\ statuses \in [Maps -> [Methods -> Entry \cup {None}]]
      /\ spent \in [Maps -> [Methods -> Nat]]
    BY DEF Inv, Types
<1>3. /\ \A g \in Maps, m \in Methods :
            /\ statuses'[g][m] = IF g = entry[w] /\ m = method[w] THEN e
                                 ELSE statuses[g][m]
            /\ spent'[g][m] = IF g = entry[w] /\ m = method[w] THEN t
                              ELSE spent[g][m]
      /\ statuses' \in [Maps -> [Methods -> Entry \cup {None}]]
      /\ spent' \in [Maps -> [Methods -> Nat]]
    BY <1>1, <1>2, Update
<1>4. e # None
    BY HandlerAssumption
<1>5. /\ Len(reports) \in Nat /\ current \in Nat /\ MaxReports \in Nat
      /\ current <= MaxReports /\ Old = Len(reports)
    BY HandlerAssumption DEF Inv, Types, Phase, Maps, Old
<1>6. reporter # "tick" => Old \in Maps /\ current = Old + 1
    BY <1>5 DEF Inv, Phase, Maps
<1>7. Phase'
    BY <1>3, <1>4, <1>6 DEF Inv, Phase, report, Old
<1>8. Holders'
  <2> SUFFICES ASSUME NEW v \in Workers, entry'[v] # None
               PROVE  /\ entry'[v] \in 0..current'
                      /\ statuses'[entry'[v]][method'[v]] # None
                      /\ entry'[v] = Old' /\ reporter' # "tick"
                            => method'[v] \in held'
                      /\ entry'[v] < Len(reports')
                            => method'[v] \in reports'[entry'[v] + 1].held
      BY DEF Holders
  <2>1. entry'[v] = entry[v] /\ entry[v] # None
      OBVIOUS
  <2>2. entry[v] \in Maps /\ method[v] \in Methods
      BY <2>1, HolderEntry
  <2> QED
      BY <1>3, <1>4, <2>1, <2>2 DEF Inv, Holders, report, Old
<1>9. DividedExact'
  <2>1. CASE reporter = "tick"
      BY <2>1 DEF DividedExact, report
  <2>2. CASE reporter # "tick"
    <3>1. \A m \in Methods \ held :
             statuses'[Old][m] = statuses[Old][m] /\ spent'[Old][m] = spent[Old][m]
        BY <1>1, <1>3, <1>6, <2>2 DEF Inv, Holders, report
    <3>2. /\ reporter' = reporter /\ held' = held /\ mean' = mean
          /\ Old' = Old /\ \A m : Undivided(m)' <=> Undivided(m)
        BY DEF report, Undivided, Old
    <3>3. DividedExact
        BY DEF Inv
    <3> SUFFICES ASSUME NEW m \in Methods \ held, statuses[Old][m] # None
        PROVE  /\ statuses[Old][m].total > 0
               /\ Undivided(m) => statuses[Old][m].time = spent[Old][m]
               /\ ~Undivided(m) => statuses[Old][m].time =
                                       spent[Old][m] \div statuses[Old][m].total
               /\ reporter = "store" /\ mean[1] = m =>
                      mean[2] = spent[Old][m] \div statuses[Old][m].total
        BY <3>1, <3>2 DEF DividedExact
    <3> QED
        BY <2>2, <3>3 DEF DividedExact
  <2> QED
      BY <2>1, <2>2
<1>10. Settled'
  <2> SUFFICES ASSUME NEW g \in 1..Len(reports), NEW m \in Methods,
                      m \notin reports[g].held
               PROVE  statuses'[g - 1][m] = statuses[g - 1][m]
      BY DEF Inv, Settled, report
  <2>1. g - 1 \in Maps /\ g - 1 < Len(reports) /\ (g - 1) + 1 = g
      BY <1>5 DEF Inv, Phase, Maps
  <2>2. ~(g - 1 = entry[w] /\ m = method[w])
      BY <2>1 DEF Inv, Holders
  <2> QED
      BY <1>3, <2>1, <2>2
<1>11. NewestExact'
  <2>1. \A g \in Maps, m \in Methods :
           /\ g > current' => statuses'[g][m] = None
           /\ statuses'[g][m] = None => spent'[g][m] = 0
      BY <1>1, <1>3, <1>4, <1>5 DEF Inv, NewestExact, report, Maps
  <2>2. ASSUME NEW m \in Methods, statuses'[current][m] # None
        PROVE  /\ statuses'[current][m].time = spent'[current][m]
               /\ \/ statuses'[current][m].total > 0
                  \/ \E v \in Workers : /\ at'[v] = "count"
                                        /\ entry'[v] = current /\ method'[v] = m
    <3>0. current \in Maps
        BY DEF Inv, Phase
    <3>1. CASE entry[w] = current /\ method[w] = m
      <4>1. /\ statuses[current][m] # None
            /\ statuses[current][m].time = spent[current][m]
            /\ \/ statuses[current][m].total > 0
               \/ \E v \in Workers : /\ at[v] = "count"
                                     /\ entry[v] = current /\ method[v] = m
          BY <1>1, <3>1 DEF Inv, NewestExact
      <4>2. statuses'[current][m] = e /\ spent'[current][m] = t
          BY <1>3, <3>0, <3>1
      <4>3. e.time = t
          BY <3>1, <4>1
      <4>4. CASE at[w] = "count" /\ e.total > 0
          BY <4>2, <4>3, <4>4
      <4>5. CASE at[w] # "count" /\ e.total = statuses[current][m].total
          BY <3>1, <4>1, <4>2, <4>3, <4>5
      <4> QED
          BY <3>1, <4>4, <4>5
    <3>2. CASE ~(entry[w] = current /\ method[w] = m)
      <4>1. /\ statuses'[current][m] = statuses[current][m]
            /\ spent'[current][m] = spent[current][m]
          BY <1>3, <3>0, <3>2
      <4>2. \/ statuses[current][m].total > 0
            \/ \E v \in Workers \ {w} : /\ at[v] = "count"
                                        /\ entry[v] = current /\ method[v] = m
          BY <2>2, <3>2, <4>1 DEF Inv, NewestExact
      <4> QED
          BY <2>2, <4>1, <4>2 DEF Inv, NewestExact
    <3> QED
        BY <3>1, <3>2
  <2> QED
      BY <2>1, <2>2 DEF NewestExact, report
<1> QED
    BY <1>3, <1>7, <1>8, <1>9, <1>10, <1>11

\* A worker's step that leaves the entries alone.
LEMMA QuietStep ==
    ASSUME Inv, UNCHANGED <<report, statuses, spent>>,
           \A v \in Workers :
              /\ entry'[v] \in {entry[v], None}
              /\ entry'[v] # None => method'[v] = method[v]
              /\ at[v] = "count" => /\ at'[v] = "count"
                                     /\ UNCHANGED <<entry[v], method[v]>>
    PROVE  Phase' /\ Holders' /\ NewestExact' /\ DividedExact' /\ Settled'
<1>1. Phase' /\ DividedExact' /\ Settled'
    BY DEF Inv, Phase, DividedExact, Undivided, Settled, report, Old
<1>2. Holders'
    BY DEF Inv, Holders, report, Old
<1>3. NewestExact'
    BY DEF Inv, NewestExact, report
<1> QED
    BY <1>1, <1>2, <1>3

\* A worker's step keeps the worker's part of the invariant.
LEMMA WorkerStands ==
    ASSUME Inv, NEW w \in Workers, Submit(w) \/ Work(w)
    PROVE  /\ at' \in [Workers -> Labels] /\ pos' \in [Workers -> Int]
           /\ method' \in [Workers -> Methods \cup {None}]
           /\ ret' \in [Workers -> {0, 1}] /\ answer' \in [Workers -> {0, 1, None}]
           /\ entry' \in [Workers -> Maps \cup {None}] /\ Stands'
<1> USE DEF Inv, Types, Labels, Stands, InMonitor, Past, Running, Goto
<1>m. /\ None \notin Nat /\ current \in Nat /\ current \in Maps
      /\ \A i \in DOMAIN Middlewares : i \in Int /\ Middlewares[i] \in {"monitor", "other"}
      /\ \A i, j \in DOMAIN Middlewares :
            Middlewares[i] = "monitor" /\ Middlewares[j] = "monitor" => i = j
      /\ Len(Middlewares) \in Nat /\ DOMAIN Middlewares = 1..Len(Middlewares)
    BY HandlerAssumption DEF Phase, Maps
<1>1. CASE Submit(w)
    BY <1>1, <1>m DEF Submit
<1>2. CASE Other(w)
  <2>1. CASE pos' = [pos EXCEPT ![w] = @ + 1] /\ UNCHANGED <<at, ret>>
      BY <1>2, <1>m, <2>1 DEF Other
  <2>2. CASE /\ pos' = [pos EXCEPT ![w] = @ - 1] /\ Goto(w, "return")
             /\ ret' = [ret EXCEPT ![w] = 1]
      BY <1>2, <1>m, <2>2 DEF Other
  <2> QED
      BY <1>2, <2>1, <2>2 DEF Other
<1>3. CASE Lookup(w)
    BY <1>3, <1>m DEF Lookup
<1>4. CASE Count(w)
    BY <1>4, <1>m DEF Count
<1>5. CASE OnRequest(w)
  <2>1. PICK r \in {0, 1} :
           /\ ret' = [ret EXCEPT ![w] = r]
           /\ answer' = [answer EXCEPT ![w] = r] \/ answer' = answer
      BY <1>5 DEF OnRequest
  <2>2. /\ at[w] = "next" /\ pos[w] = Len(Middlewares) + 1
        /\ pos' = [pos EXCEPT ![w] = @ - 1] /\ at' = [at EXCEPT ![w] = "return"]
        /\ UNCHANGED <<method, entry>>
      BY <1>5 DEF OnRequest, AtEnd
  <2> QED
      BY <1>m, <2>1, <2>2
<1>6. CASE SendBlocks(w)
    BY <1>6, <1>m DEF SendBlocks, AtEnd
<1>7. CASE Panics(w)
    BY <1>7, <1>m DEF Panics, Free
<1>8. CASE AddTime(w)
    BY <1>8, <1>m DEF AddTime
<1>9. CASE Judge(w)
    BY <1>9, <1>m DEF Judge
<1>10. CASE Return(w)
  <2>1. CASE Free(w)
      BY <1>10, <1>m, <2>1 DEF Return, Free
  <2>2. CASE /\ pos' = [pos EXCEPT ![w] = @ - 1]
             /\ UNCHANGED <<arrived, at, method, ret, answer, entry>>
      BY <1>10, <1>m, <2>2 DEF Return
  <2> QED
      BY <1>10, <2>1, <2>2 DEF Return
<1> QED
    BY <1>1, <1>2, <1>3, <1>4, <1>5, <1>6, <1>7, <1>8, <1>9, <1>10 DEF Work

\* A worker's step keeps the invariant.
LEMMA WorkerStep ==
    ASSUME Inv, NEW w \in Workers, Submit(w) \/ Work(w)
    PROVE  Inv'
<1>1. /\ at' \in [Workers -> Labels] /\ pos' \in [Workers -> Int]
      /\ method' \in [Workers -> Methods \cup {None}]
      /\ ret' \in [Workers -> {0, 1}] /\ answer' \in [Workers -> {0, 1, None}]
      /\ entry' \in [Workers -> Maps \cup {None}] /\ Stands'
    BY WorkerStands
<1>2. UNCHANGED report
    BY DEF Submit, Work, Other, Lookup, Count, OnRequest, SendBlocks, Panics,
       AddTime,
           Judge, Return, report
<1>3. ASSUME /\ statuses' \in [Maps -> [Methods -> Entry \cup {None}]]
             /\ spent' \in [Maps -> [Methods -> Nat]],
             Phase' /\ Holders' /\ NewestExact' /\ DividedExact' /\ Settled'
      PROVE  Inv'
    BY <1>1, <1>2, <1>3 DEF Inv, Types, report
<1>t. /\ at \in [Workers -> Labels] /\ method \in [Workers -> Methods \cup {None}]
      /\ entry \in [Workers -> Maps \cup {None}]
      /\ statuses \in [Maps -> [Methods -> Entry \cup {None}]]
      /\ spent \in [Maps -> [Methods -> Nat]]
    BY DEF Inv, Types
<1>n. /\ current \in Nat /\ current \in Maps /\ None \notin Nat /\ None \notin Entry
    BY HandlerAssumption DEF Inv, Phase, Maps
<1>4. CASE \/ Submit(w) \/ Other(w) \/ OnRequest(w) \/ SendBlocks(w) \/ Panics(w)
           \/ Return(w)
  <2>1. UNCHANGED <<statuses, spent>>
      BY <1>4 DEF Submit, Other, OnRequest, SendBlocks, Panics, Return
  <2>2. ASSUME NEW v \in Workers
        PROVE  /\ entry'[v] \in {entry[v], None}
               /\ entry'[v] # None => method'[v] = method[v]
               /\ at[v] = "count" => /\ at'[v] = "count" /\ entry'[v] = entry[v]
                                      /\ method'[v] = method[v]
    <3>1. CASE Submit(w)
        BY <1>t, <3>1 DEF Submit, Goto, Inv, Stands, InMonitor
    <3>2. CASE Other(w)
        BY <1>t, <3>2 DEF Other, Goto
    <3>3. CASE OnRequest(w) \/ SendBlocks(w)
        BY <1>t, <3>3 DEF OnRequest, SendBlocks, AtEnd, Goto
    <3>4. CASE Panics(w)
        BY <1>t, <3>4 DEF Panics, CanPanic, AtEnd, Free, Goto
    <3>5. CASE Return(w)
        BY <1>t, <3>5 DEF Return, Free, Goto
    <3> QED
        BY <1>4, <3>1, <3>2, <3>3, <3>4, <3>5
  <2> QED
      BY <1>2, <1>3, <1>t, <2>1, <2>2, QuietStep
<1>h. ASSUME entry[w] # None
      PROVE  /\ entry[w] \in Maps /\ method[w] \in Methods
             /\ statuses[entry[w]][method[w]] \in Entry
             /\ spent[entry[w]][method[w]] \in Nat
             /\ spent = [spent EXCEPT ![entry[w]][method[w]] =
                                          spent[entry[w]][method[w]]]
    BY <1>h, <1>t, HolderEntry
<1> DEFINE old == statuses[entry[w]][method[w]]
<1>5. CASE Count(w)
  <2>1. at[w] = "count" /\ entry[w] # None
      BY <1>5 DEF Count, Inv, Stands, InMonitor
  <2> DEFINE e == [old EXCEPT !.total = @ + 1]
             t == spent[entry[w]][method[w]]
  <2>2. e \in Entry /\ e.total > 0 /\ e.time = old.time /\ t \in Nat
      BY <1>h, <2>1 DEF Entry
  <2>3. /\ statuses' = [statuses EXCEPT ![entry[w]][method[w]] = e]
        /\ spent' = [spent EXCEPT ![entry[w]][method[w]] = t]
        /\ UNCHANGED <<method, entry>>
        /\ \A v \in Workers \ {w} : at'[v] = at[v]
      BY <1>5, <1>h, <1>t, <2>1 DEF Count, Goto
  <2> QED
    <3> HIDE DEF e
    <3> QED
      BY <1>2, <1>3, <2>1, <2>2, <2>3, HolderStep
<1>6. CASE AddTime(w)
  <2>1. at[w] = "return" /\ entry[w] # None
      BY <1>6 DEF AddTime, Inv, Stands, InMonitor
  <2>2. PICK n \in Times :
           /\ statuses' = [statuses EXCEPT ![entry[w]][method[w]].time = @ + n]
           /\ spent' = [spent EXCEPT ![entry[w]][method[w]] = @ + n]
      BY <1>6 DEF AddTime
  <2>3. n \in Nat
      BY HandlerAssumption
  <2> DEFINE e == [old EXCEPT !.time = @ + n]
             t == spent[entry[w]][method[w]] + n
  <2>4. /\ e \in Entry /\ e.total = old.total /\ e.time = old.time + n /\ t \in Nat
        /\ old.time \in Nat
      BY <1>h, <2>1, <2>3 DEF Entry
  <2>5. /\ statuses' = [statuses EXCEPT ![entry[w]][method[w]] = e]
        /\ spent' = [spent EXCEPT ![entry[w]][method[w]] = t]
        /\ UNCHANGED <<method, entry>>
        /\ \A v \in Workers \ {w} : at'[v] = at[v]
      BY <1>6, <1>h, <1>t, <2>1, <2>2 DEF AddTime, Goto
  <2> QED
    <3> HIDE DEF e
    <3> QED
      BY <1>2, <1>3, <2>1, <2>4, <2>5, HolderStep
<1>7. CASE Judge(w)
  <2>1. at[w] = "judge" /\ entry[w] # None
      BY <1>7 DEF Judge, Inv, Stands, InMonitor
  <2> DEFINE e == [old EXCEPT !.error = @ + ret[w]]
             t == spent[entry[w]][method[w]]
  <2>0. ret[w] \in Nat
      BY DEF Inv, Types
  <2>2. e \in Entry /\ e.total = old.total /\ e.time = old.time /\ t \in Nat
      BY <1>h, <2>0, <2>1 DEF Entry
  <2>3. /\ statuses' = [statuses EXCEPT ![entry[w]][method[w]] = e]
        /\ spent' = [spent EXCEPT ![entry[w]][method[w]] = t]
        /\ UNCHANGED method /\ entry'[w] = None
        /\ \A v \in Workers \ {w} : at'[v] = at[v] /\ entry'[v] = entry[v]
      BY <1>7, <1>h, <1>t, <2>1 DEF Judge, Goto
  <2> QED
    <3> HIDE DEF e
    <3> QED
      BY <1>2, <1>3, <2>1, <2>2, <2>3, HolderStep
<1>8. CASE Lookup(w)
  <2> DEFINE e == IF statuses[current][method[w]] = None THEN Fresh
                  ELSE statuses[current][method[w]]
  <2>1. /\ method[w] \in Methods /\ entry[w] = None /\ at[w] = "next"
        /\ entry' = [entry EXCEPT ![w] = current] /\ UNCHANGED <<method, spent>>
        /\ at' = [at EXCEPT ![w] = "count"]
    <3>1. ~Past(w)
        BY <1>8, HandlerAssumption DEF Lookup, Past, Running
    <3> QED
        BY <1>8, <3>1 DEF Lookup, Inv, Stands, InMonitor, Goto
  <2>2. e \in Entry /\ e # None
      BY <1>t, <1>n, <2>1 DEF Fresh, Entry
  <2>3. statuses' = [statuses EXCEPT ![current][method[w]] = e]
      BY <1>8, <1>t, <1>n, <2>1 DEF Lookup
  <2>4. /\ statuses[current][method[w]] # None => e = statuses[current][method[w]]
        /\ statuses[current][method[w]] = None => e.time = 0
      BY DEF Fresh
  <2> HIDE DEF e
  <2>5. /\ \A g \in Maps, m \in Methods :
              statuses'[g][m] = IF g = current /\ m = method[w] THEN e
                                ELSE statuses[g][m]
        /\ statuses' \in [Maps -> [Methods -> Entry \cup {None}]]
      BY <1>t, <1>n, <2>1, <2>2, <2>3, Update
  <2>6. /\ Len(reports) \in Nat /\ Old = Len(reports) /\ MaxReports \in Nat
        /\ current <= MaxReports /\ Len(reports) <= current
        /\ reporter # "tick" => Old \in Maps /\ current = Old + 1
      BY <1>n, HandlerAssumption DEF Inv, Types, Phase, Old, Maps
  <2>7. Phase'
      BY <1>2, <2>2, <2>5, <2>6 DEF Inv, Phase, report, Old
  <2>8. Holders'
    <3> SUFFICES ASSUME NEW v \in Workers, entry'[v] # None
                 PROVE  /\ entry'[v] \in 0..current'
                        /\ statuses'[entry'[v]][method'[v]] # None
                        /\ entry'[v] = Old' /\ reporter' # "tick"
                            => method'[v] \in held'
                        /\ entry'[v] < Len(reports')
                              => method'[v] \in reports'[entry'[v] + 1].held
        BY DEF Holders
    <3>1. CASE v = w
        BY <1>2, <1>t, <1>n, <2>1, <2>2, <2>5, <2>6, <3>1 DEF report, Old
    <3>2. CASE v # w
      <4>1. entry'[v] = entry[v] /\ entry[v] # None
          BY <1>t, <2>1, <3>2
      <4>2. entry[v] \in Maps /\ method[v] \in Methods
          BY <4>1, HolderEntry
      <4> QED
          BY <1>2, <2>1, <2>2, <2>5, <4>1, <4>2 DEF Inv, Holders, report, Old
    <3> QED
        BY <3>1, <3>2
  <2>9. NewestExact'
    <3>1. \A g \in Maps, m \in Methods :
             /\ g > current' => statuses'[g][m] = None
             /\ statuses'[g][m] = None => spent'[g][m] = 0
        BY <1>2, <1>n, <2>1, <2>2, <2>5 DEF Inv, NewestExact, report, Maps
    <3>2. ASSUME NEW m \in Methods, statuses'[current][m] # None
          PROVE  /\ statuses'[current][m].time = spent'[current][m]
                 /\ \/ statuses'[current][m].total > 0
                    \/ \E v \in Workers : /\ at'[v] = "count"
                                          /\ entry'[v] = current /\ method'[v] = m
      <4>1. CASE m = method[w]
        <5>1. at'[w] = "count" /\ entry'[w] = current /\ method'[w] = m
            BY <1>t, <2>1, <4>1
        <5>2. e.time = spent[current][m]
            BY <1>n, <2>1, <2>4, <4>1 DEF Inv, NewestExact
        <5> QED
            BY <1>n, <2>1, <2>5, <4>1, <5>1, <5>2
      <4>2. CASE m # method[w]
        <5>1. statuses'[current][m] = statuses[current][m]
            BY <1>n, <2>5, <4>2
        <5>2. /\ statuses[current][m].time = spent[current][m]
              /\ \/ statuses[current][m].total > 0
                 \/ \E v \in Workers : /\ at[v] = "count"
                                       /\ entry[v] = current /\ method[v] = m
            BY <3>2, <5>1 DEF Inv, NewestExact
        <5>3. ASSUME NEW v \in Workers, at[v] = "count",
                      entry[v] = current, method[v] = m
              PROVE  at'[v] = "count" /\ entry'[v] = current /\ method'[v] = m
            BY <1>t, <2>1, <5>3
        <5> QED
            BY <2>1, <5>1, <5>2, <5>3
      <4> QED
          BY <4>1, <4>2
    <3> QED
        BY <1>2, <3>1, <3>2 DEF NewestExact, report
  <2>10. DividedExact'
    <3>1. reporter # "tick" =>
             \A m \in Methods : statuses'[Old][m] = statuses[Old][m]
        BY <2>5, <2>6
    <3> QED
        BY <1>2, <2>1, <3>1 DEF Inv, DividedExact, Undivided, report, Old
  <2>11. Settled'
    <3>1. \A g \in 1..Len(reports), m \in Methods :
             statuses'[g - 1][m] = statuses[g - 1][m]
      <4> TAKE g \in 1..Len(reports), m \in Methods
      <4>1. g - 1 \in Maps /\ g - 1 # current
          BY <1>n, <2>6 DEF Maps
      <4> QED
          BY <2>5, <4>1
    <3> QED
        BY <1>2, <2>1, <3>1 DEF Inv, Settled, report
  <2> QED
      BY <1>3, <1>t, <2>1, <2>5, <2>7, <2>8, <2>9, <2>10, <2>11
<1> QED
    BY <1>4, <1>5, <1>6, <1>7, <1>8 DEF Work

\* A step of the reporter keeps the invariant.
LEMMA ReporterStep ==
    ASSUME Inv, Swap \/ Report
    PROVE  Inv'
<1>w. UNCHANGED workers
    BY DEF Swap, Report, Divide, Store, OnData
<1>t. /\ statuses \in [Maps -> [Methods -> Entry \cup {None}]]
      /\ spent \in [Maps -> [Methods -> Nat]]
      /\ reports \in Seq([data : [Methods -> Entry \cup {None}],
                          spent : [Methods -> Nat], held : SUBSET Methods])
      /\ held \subseteq Methods
    BY DEF Inv, Types
<1>n. /\ MaxReports \in Nat /\ current \in Nat /\ current <= MaxReports
      /\ Len(reports) \in Nat /\ Old = Len(reports)
      /\ None \notin Nat /\ None \notin Entry
      /\ reporter = "tick" => current = Len(reports)
      /\ reporter # "tick" => current = Len(reports) + 1 /\ Old \in Maps
    BY HandlerAssumption DEF Inv, Types, Phase, Maps, Old
<1>s. Stands'
    BY <1>w DEF Inv, Stands, InMonitor, Past, Running, workers
<1>1. CASE Swap
  <2>1. /\ reporter = "tick" /\ reporter' = "divide" /\ Len(reports) < MaxReports
        /\ current' = current + 1 /\ UNCHANGED <<statuses, spent, reports, mean>>
        /\ left' = {m \in Methods : statuses[current][m] # None}
        /\ held' = {method[w] : w \in {v \in Workers : entry[v] = current}}
        /\ UNCHANGED <<entry, method, at>> /\ Old' = Old /\ Old = current
      BY <1>1, <1>n DEF Swap, Entries, workers, Old
  <2>2. \A w \in Workers :
           entry[w] = current => method[w] \in held' /\ method[w] \in Methods
      BY <1>n, <2>1, HolderEntry
  <2>3. held' \subseteq Methods
      BY <2>1, <2>2
  <2>4. Types'
      BY <1>w, <2>1, <2>3 DEF Inv, Types, workers
  <2>5. Phase'
      BY <1>n, <2>1 DEF Phase, Maps
  <2>6. Holders'
      BY <1>n, <2>1, <2>2 DEF Inv, Holders
  <2>7. NewestExact'
      BY <1>n, <2>1 DEF Inv, NewestExact, Maps
  <2>8. DividedExact'
    <3> SUFFICES ASSUME NEW m \in Methods, m \notin held', statuses[current][m] # None
                 PROVE  /\ statuses[current][m].total > 0
                        /\ statuses[current][m].time = spent[current][m]
        BY <2>1 DEF DividedExact, Undivided
    <3>1. ~ \E w \in Workers : entry[w] = current /\ method[w] = m
        BY <2>2
    <3> QED
        BY <3>1 DEF Inv, NewestExact
  <2>9. Settled'
      BY <2>1 DEF Inv, Settled
  <2> QED
      BY <1>s, <2>4, <2>5, <2>6, <2>7, <2>8, <2>9 DEF Inv
<1>2. ASSUME NEW m \in left, Divide(m) PROVE Inv'
  <2>1. /\ reporter = "divide" /\ left' = left \ {m}
        /\ UNCHANGED <<current, held, reports, statuses, spent, entry, method, at>>
        /\ Old' = Old
      BY <1>2 DEF Divide, workers, Old
  <2>2. m \in Methods /\ statuses[Old][m] \in Entry
      BY <1>n, <1>t, <2>1 DEF Inv, Phase
  <2> DEFINE total == statuses[Old][m].total
  <2>3. total \in Nat /\ statuses[Old][m].time \in Nat
      BY <2>2 DEF Entry
  <2>4. \/ /\ total > 0 /\ mean' = <<m, statuses[Old][m].time \div total>>
           /\ reporter' = "store"
        \/ total = 0 /\ UNCHANGED <<mean, reporter>>
      BY <1>2, <2>3 DEF Divide
  <2>5. total > 0 => statuses[Old][m].time \div total \in Nat
      BY <2>3
  <2> HIDE DEF total
  <2>6. Types' /\ Settled' /\ NewestExact'
      BY <1>w, <2>1 DEF Inv, Types, Settled, NewestExact, workers
  <2>7. Phase'
      BY <1>n, <2>1, <2>2, <2>4, <2>5 DEF Inv, Phase, Maps
  <2>8. Holders'
      BY <2>1, <2>4 DEF Inv, Holders
  <2>9. DividedExact'
      BY <1>n, <2>1, <2>2, <2>4 DEF Inv, DividedExact, Undivided, total
  <2> QED
      BY <1>s, <2>6, <2>7, <2>8, <2>9 DEF Inv
<1>3. CASE Store
  <2>1. /\ reporter = "store" /\ reporter' = "divide" /\ mean \in Methods \X Nat
        /\ mean[1] \in Methods /\ mean[2] \in Nat /\ mean[1] \notin left
        /\ statuses[Old][mean[1]] \in Entry
        /\ UNCHANGED <<current, held, reports, left, spent, entry, method, at>>
        /\ Old' = Old
      BY <1>3, <1>n, <1>t DEF Store, workers, Old, Inv, Phase
  <2> DEFINE e == [statuses[Old][mean[1]] EXCEPT !.time = mean[2]]
  <2>2. /\ e \in Entry /\ e.total = statuses[Old][mean[1]].total /\ e.time = mean[2]
        /\ e # None
      BY <1>n, <2>1 DEF Entry
  <2>3. statuses' = [statuses EXCEPT ![Old][mean[1]] = e]
      BY <1>3, <1>n, <1>t, <2>1 DEF Store
  <2> HIDE DEF e
  <2>4. /\ \A g \in Maps, n \in Methods :
              statuses'[g][n] = IF g = Old /\ n = mean[1] THEN e ELSE statuses[g][n]
        /\ statuses' \in [Maps -> [Methods -> Entry \cup {None}]]
      BY <1>n, <1>t, <2>1, <2>2, <2>3, Update
  <2>5. Types'
      BY <1>w, <2>1, <2>4 DEF Inv, Types, workers
  <2>6. Phase'
      BY <1>n, <2>1, <2>2, <2>4 DEF Inv, Phase, Maps
  <2>7. Holders'
    <3> SUFFICES ASSUME NEW w \in Workers, entry[w] # None
                 PROVE  /\ entry[w] \in 0..current
                        /\ statuses'[entry[w]][method[w]] # None
                        /\ entry[w] = Old => method[w] \in held
                        /\ entry[w] < Len(reports)
                              => method[w] \in reports[entry[w] + 1].held
        BY <2>1 DEF Holders
    <3>1. entry[w] \in Maps /\ method[w] \in Methods
        BY HolderEntry
    <3> QED
        BY <2>1, <2>2, <2>4, <3>1 DEF Inv, Holders
  <2>8. NewestExact'
    <3>1. current \in Maps /\ Old < current
        BY <1>n, <2>1 DEF Maps
    <3>2. /\ \A n \in Methods : statuses'[current][n] = statuses[current][n]
          /\ \A g \in Maps, n \in Methods :
                /\ statuses'[g][n] = None <=> statuses[g][n] = None
        BY <1>n, <2>1, <2>2, <2>4, <3>1
    <3> QED
        BY <2>1, <3>2 DEF Inv, NewestExact
  <2>9. DividedExact'
    <3> SUFFICES ASSUME NEW n \in Methods \ held, statuses'[Old][n] # None
                 PROVE  /\ statuses'[Old][n].total > 0
                        /\ n \in left => statuses'[Old][n].time = spent[Old][n]
                        /\ n \notin left => statuses'[Old][n].time =
                               spent[Old][n] \div statuses'[Old][n].total
        BY <2>1 DEF DividedExact, Undivided
    <3>1. CASE n = mean[1]
        BY <1>n, <2>1, <2>2, <2>4, <3>1 DEF Inv, DividedExact, Undivided
    <3>2. CASE n # mean[1]
        BY <1>n, <2>1, <2>4, <3>2 DEF Inv, DividedExact, Undivided
    <3> QED
        BY <3>1, <3>2
  <2>10. Settled'
    <3>1. \A g \in 1..Len(reports), n \in Methods :
             statuses'[g - 1][n] = statuses[g - 1][n]
      <4> TAKE g \in 1..Len(reports), n \in Methods
      <4>1. g - 1 \in Maps /\ g - 1 # Old
          BY <1>n, <2>1 DEF Maps
      <4> QED
          BY <2>4, <4>1
    <3> QED
        BY <2>1, <3>1 DEF Inv, Settled
  <2> QED
      BY <1>s, <2>5, <2>6, <2>7, <2>8, <2>9, <2>10 DEF Inv
<1>4. CASE OnData
  <2> DEFINE r == [data |-> statuses[Old], spent |-> spent[Old], held |-> held]
  <2>1. /\ reporter = "divide" /\ reporter' = "tick" /\ left = {} /\ held' = {}
        /\ reports' = Append(reports, r)
        /\ UNCHANGED <<current, left, statuses, spent, entry, method, at>>
      BY <1>4 DEF OnData, workers
  <2>2. /\ r \in [data : [Methods -> Entry \cup {None}], spent : [Methods -> Nat],
                  held : SUBSET Methods]
        /\ r.data = statuses[Old] /\ r.spent = spent[Old] /\ r.held = held
      BY <1>n, <1>t, <2>1
  <2> HIDE DEF r
  <2>3. /\ reports' \in Seq([data : [Methods -> Entry \cup {None}],
                             spent : [Methods -> Nat], held : SUBSET Methods])
        /\ Len(reports') = Len(reports) + 1 /\ reports'[Len(reports) + 1] = r
        /\ \A g \in 1..Len(reports) : reports'[g] = reports[g]
      BY <1>t, <2>1, <2>2
  <2>4. Types'
      BY <1>w, <2>1, <2>3 DEF Inv, Types, workers
  <2>5. Phase'
      BY <1>n, <2>1, <2>3 DEF Phase, Maps
  <2>6. Holders'
    <3> SUFFICES ASSUME NEW w \in Workers, entry[w] # None
                 PROVE  /\ entry[w] \in 0..current
                        /\ statuses[entry[w]][method[w]] # None
                        /\ entry[w] < Len(reports')
                              => method[w] \in reports'[entry[w] + 1].held
        BY <2>1 DEF Holders
    <3>1. entry[w] \in 0..current /\ statuses[entry[w]][method[w]] # None
        BY DEF Inv, Holders
    <3>2. CASE entry[w] = Old
        BY <1>n, <2>1, <2>2, <2>3, <3>1, <3>2 DEF Inv, Holders
    <3>3. CASE entry[w] < Len(reports)
        BY <1>n, <2>3, <3>1, <3>3 DEF Inv, Holders
    <3> QED
        BY <1>n, <2>3, <3>1, <3>2, <3>3
  <2>7. NewestExact'
      BY <2>1 DEF Inv, NewestExact
  <2>8. DividedExact'
      BY <2>1 DEF DividedExact
  <2>9. Settled'
    <3> SUFFICES ASSUME NEW g \in 1..Len(reports'), NEW m \in Methods,
                        reports'[g].data[m] # None, m \notin reports'[g].held
                 PROVE  /\ statuses[g - 1][m] = reports'[g].data[m]
                        /\ reports'[g].data[m].total > 0
                        /\ reports'[g].data[m].time =
                              reports'[g].spent[m] \div reports'[g].data[m].total
        BY <2>1 DEF Settled
    <3>1. CASE g \in 1..Len(reports)
        BY <2>3, <3>1 DEF Inv, Settled
    <3>2. CASE g = Len(reports) + 1
      <4>1. /\ g - 1 = Old /\ reports'[g].data = statuses[Old]
            /\ reports'[g].spent = spent[Old] /\ reports'[g].held = held
          BY <1>n, <2>2, <2>3, <3>2
      <4> QED
          BY <2>1, <4>1 DEF Inv, DividedExact, Undivided
    <3> QED
        BY <1>n, <2>3, <3>1, <3>2
  <2> QED
      BY <1>s, <2>4, <2>5, <2>6, <2>7, <2>8, <2>9 DEF Inv
<1> QED
    BY <1>1, <1>2, <1>3, <1>4 DEF Report

\* Every step keeps the invariant.
LEMMA InvStep == Inv /\ [Next]_vars => Inv'
<1> SUFFICES ASSUME Inv, [Next]_vars PROVE Inv'
    OBVIOUS
<1>1. CASE SubmitFails \/ UNCHANGED vars
  <2>1. UNCHANGED <<at, pos, method, ret, answer, entry, report, statuses, spent>>
      BY <1>1 DEF SubmitFails, vars, workers
  <2>2. Types' /\ Stands'
      BY <2>1 DEF Inv, Types, Stands, InMonitor, Past, Running, report
  <2> QED
      BY <2>1, <2>2, QuietStep DEF Inv
<1> QED
    BY <1>1, WorkerStep, ReporterStep DEF Next

-----------------------------------------------------------------------------
\* The invariant holds in every behaviour.
THEOREM InvAlways == Spec => []Inv
BY InitInv, InvStep, PTL DEF Spec

\* In every report the mean of an entry is the time of all its requests over their
\* number, unless a request held the entry at the swap.
THEOREM MeanAlwaysRight == Spec => []MeanIsRight
<1>1. Inv => MeanIsRight
    BY DEF Inv, Settled, MeanIsRight, Reported
<1> QED
    BY <1>1, InvAlways, PTL

\* The entries of all former reports stay as the application was given them, with
\* the same exception.
THEOREM ReportsStaySettled == Spec => []ReportIsSettled
<1>1. Inv => ReportIsSettled
    BY DEF Inv, Settled, ReportIsSettled, Reported
<1> QED
    BY <1>1, InvAlways, PTL

\* The monitor counts an error for an answer exactly if the answer tells one.
THEOREM ErrorsAlwaysCounted == Spec => ErrorsAreCounted
<1> DEFINE Counts(w) ==
        at[w] = "judge" /\ at'[w] # "judge" /\ answer[w] # None =>
            statuses'[entry[w]][method[w]].error - statuses[entry[w]][method[w]].error
                = answer[w]
<1>1. Inv /\ [Next]_vars => [\A w \in Workers : Counts(w)]_vars
  <2> SUFFICES ASSUME Inv, Next, NEW w \in Workers,
                      at[w] = "judge", at'[w] # "judge", answer[w] # None
               PROVE  statuses'[entry[w]][method[w]].error
                         - statuses[entry[w]][method[w]].error = answer[w]
      OBVIOUS
  <2>1. /\ entry[w] # None /\ ret[w] = answer[w] /\ ret[w] \in Nat
        /\ at \in [Workers -> Labels]
      BY DEF Inv, Stands, InMonitor, Types
  <2>2. Judge(w)
    <3>1. ASSUME NEW v \in Workers, Submit(v) \/ Work(v), at'[w] # at[w] PROVE v = w
        BY <2>1, <3>1 DEF Submit, Work, Other, Lookup, Count, OnRequest,
           SendBlocks,
                   Panics, AddTime, Judge, Return, Free, Goto
    <3>2. ~SubmitFails /\ ~Swap /\ ~Report
        BY DEF SubmitFails, Swap, Report, Divide, Store, OnData, workers
    <3>3. Submit(w) \/ Work(w)
        BY <3>1, <3>2 DEF Next
    <3> QED
        BY <3>3 DEF Submit, Work, Other, Lookup, Count, OnRequest, SendBlocks,
           Panics,
               CanPanic, AtEnd, AddTime, Return
  <2>3. /\ entry[w] \in Maps /\ method[w] \in Methods
        /\ statuses[entry[w]][method[w]] \in Entry
        /\ statuses \in [Maps -> [Methods -> Entry \cup {None}]]
      BY <2>1, HolderEntry DEF Inv, Types
  <2>4. statuses'[entry[w]][method[w]].error =
           statuses[entry[w]][method[w]].error + ret[w]
      BY <2>2, <2>3 DEF Judge, Entry
  <2> QED
      BY <2>1, <2>3, <2>4 DEF Entry
<1>2. (\A w \in Workers : Counts(w)) =>
         \A w \in Workers : at[w] = "judge" /\ at'[w] # "judge" /\ answer[w] # None =>
            LET Errors(all) == all[entry[w]][method[w]].error
            IN Errors(statuses') - Errors(statuses) = answer[w]
    OBVIOUS
<1> QED
    BY <1>1, <1>2, InvAlways, PTL DEF ErrorsAreCounted, Spec
=============================================================================
