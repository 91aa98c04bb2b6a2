--------------------------- MODULE GenericPoolProofs ---------------------------
(***************************************************************************)
(* Proofs about GenericPool for every size of the pool and every number of *)
(* goroutines.  The argument counts goroutines: whoever adds a connection  *)
(* has found the channel empty, so every connection that is counted then   *)
(* is in the hands of another goroutine, or was left by one that has       *)
(* returned from Release after a shutdown and cannot acquire again.        *)
(***************************************************************************)
EXTENDS GenericPool, FiniteSetTheorems, TLAPS

\* The goroutines p whose label f[p] is in S.
At(f, S) == {p \in Procs : f[p] \in S}

\* Goroutines in no call, or lost to a panic.
OutStates == {"idle", "panicked"}

One(x, S) == IF x \in S THEN 1 ELSE 0

hold == Cardinality(At(pc, HoldStates))
create == Cardinality(At(pc, CreateStates))
out == Cardinality(At(pc, OutStates))

\* Who holds or counts a connection has one.
HandsFull ==
    \A p \in Procs : pc[p] \in HoldStates \cup {"count"} => conn[p] \in Conns

\* The channel is closed only after the flag is set.
FlagFirst ==
    /\ chanClosed => shutdown
    /\ \A p \in Procs : pc[p] \in {"closechan", "drain", "drained"} => shutdown

Accounting ==
    /\ ~shutdown => curSize = Len(poolChan) + hold
    /\ Len(poolChan) + hold <= curSize
    /\ curSize <= Len(poolChan) + hold + out
    /\ curSize + create <= Limit

Inv == Types /\ HandsFull /\ FlagFirst /\ Accounting

-----------------------------------------------------------------------------
\* NewGenericPool makes room for at least one connection.
LEMMA MaxSizePositive == maxSize \in Nat /\ MinSize <= maxSize /\ maxSize >= 1
BY PoolAssumption DEF maxSize

\* The goroutines that stand at given labels are finitely many.
LEMMA AtFinite ==
    ASSUME NEW f, NEW S
    PROVE  IsFiniteSet(At(f, S)) /\ Cardinality(At(f, S)) \in Nat
<1>1. IsFiniteSet(At(f, S))
    BY PoolAssumption, FS_Subset DEF At
<1> QED
    BY <1>1, FS_CardinalityType

\* One goroutine goes to another label: the count of S changes by what that
\* goroutine was and is.
LEMMA MoveCount ==
    ASSUME NEW f \in [Procs -> PCStates], NEW p \in Procs, NEW l \in PCStates,
           NEW S
    PROVE  Cardinality(At([f EXCEPT ![p] = l], S)) =
              Cardinality(At(f, S)) - One(f[p], S) + One(l, S)
<1> DEFINE g == [f EXCEPT ![p] = l]
<1>1. IsFiniteSet(At(f, S)) /\ Cardinality(At(f, S)) \in Nat
    BY AtFinite
<1>2. CASE f[p] \in S /\ l \in S
  <2>1. At(g, S) = At(f, S)
    BY <1>2 DEF At
  <2> QED
    BY <1>1, <1>2, <2>1 DEF One
<1>3. CASE f[p] \in S /\ l \notin S
  <2>1. p \in At(f, S) /\ At(g, S) = At(f, S) \ {p}
    BY <1>3 DEF At
  <2>2. Cardinality(At(g, S)) = Cardinality(At(f, S)) - 1
    BY <1>1, <2>1, FS_RemoveElement
  <2> QED
    BY <1>1, <1>3, <2>2 DEF One
<1>4. CASE f[p] \notin S /\ l \in S
  <2>1. p \notin At(f, S) /\ At(g, S) = At(f, S) \cup {p}
    BY <1>4 DEF At
  <2>2. Cardinality(At(g, S)) = Cardinality(At(f, S)) + 1
    BY <1>1, <2>1, FS_AddElement
  <2> QED
    BY <1>1, <1>4, <2>2 DEF One
<1>5. CASE f[p] \notin S /\ l \notin S
  <2>1. At(g, S) = At(f, S)
    BY <1>5 DEF At
  <2> QED
    BY <1>1, <1>5, <2>1 DEF One
<1> QED
    BY <1>2, <1>3, <1>4, <1>5

\* The three counts after a goroutine has moved.
LEMMA Counts ==
    ASSUME Types, NEW p \in Procs, NEW l \in PCStates, Goto(p, l)
    PROVE  /\ hold \in Nat /\ create \in Nat /\ out \in Nat
           /\ hold' \in Nat /\ create' \in Nat /\ out' \in Nat
           /\ hold' = hold - One(pc[p], HoldStates) + One(l, HoldStates)
           /\ create' = create - One(pc[p], CreateStates) + One(l, CreateStates)
           /\ out' = out - One(pc[p], OutStates) + One(l, OutStates)
BY MoveCount, AtFinite DEF Types, Goto, hold, create, out

\* A goroutine that is about to poll is in none of the three sets, which are
\* disjoint.
LEMMA Disjoint ==
    ASSUME Types, NEW p \in Procs, pc[p] = "poll"
    PROVE  hold + create + out + 1 <= Limit
<1> DEFINE H == At(pc, HoldStates)
           C == At(pc, CreateStates)
           O == At(pc, OutStates)
<1>1. /\ H \cap C = {} /\ (H \cup C) \cap O = {}
      /\ p \notin (H \cup C) \cup O
    BY DEF At, HoldStates, CreateStates, OutStates
<1>2. /\ IsFiniteSet(H) /\ IsFiniteSet(C) /\ IsFiniteSet(O)
      /\ hold \in Nat /\ create \in Nat /\ out \in Nat
    BY AtFinite DEF hold, create, out
<1> HIDE DEF H, C, O
<1>3. /\ IsFiniteSet(H \cup C)
      /\ Cardinality(H \cup C) = Cardinality(H) + Cardinality(C) - 0
  <2>1. /\ IsFiniteSet(H \cup C)
        /\ Cardinality(H \cup C)
              = Cardinality(H) + Cardinality(C) - Cardinality(H \cap C)
    BY <1>2, FS_Union
  <2>2. Cardinality(H \cap C) = 0
    BY <1>1, FS_EmptySet
  <2> QED
    BY <2>1, <2>2
<1>4. /\ IsFiniteSet((H \cup C) \cup O)
      /\ Cardinality((H \cup C) \cup O)
            = Cardinality(H \cup C) + Cardinality(O) - 0
  <2> DEFINE HC == H \cup C
  <2>1. IsFiniteSet(HC) /\ HC \cap O = {}
    BY <1>1, <1>3
  <2> HIDE DEF HC
  <2>2. /\ IsFiniteSet(HC \cup O)
        /\ Cardinality(HC \cup O)
              = Cardinality(HC) + Cardinality(O) - Cardinality(HC \cap O)
    BY <1>2, <2>1, FS_Union
  <2>3. Cardinality(HC \cap O) = 0
    BY <2>1, FS_EmptySet
  <2>4. /\ IsFiniteSet(HC \cup O)
        /\ Cardinality(HC \cup O) = Cardinality(HC) + Cardinality(O) - 0
    BY <2>2, <2>3
  <2> QED
    BY <2>4 DEF HC
<1>5. Cardinality(((H \cup C) \cup O) \cup {p})
         = Cardinality((H \cup C) \cup O) + 1
    BY <1>1, <1>4, FS_AddElement
<1>6. ((H \cup C) \cup O) \cup {p} \subseteq Procs
    BY DEF H, C, O, At
<1>7. Cardinality(((H \cup C) \cup O) \cup {p}) <= Cardinality(Procs)
    BY <1>6, PoolAssumption, FS_Subset
<1>8. Cardinality(Procs) \in Nat /\ Cardinality(Procs) <= Limit
    BY PoolAssumption, FS_CardinalityType, MaxSizePositive DEF Limit
<1>9. Cardinality(H) = hold /\ Cardinality(C) = create /\ Cardinality(O) = out
    BY DEF H, C, O, hold, create, out
<1> QED
    BY <1>2, <1>3, <1>4, <1>5, <1>7, <1>8, <1>9, MaxSizePositive DEF Limit

\* Taking from the channel moves one connection into one goroutine's hands.
LEMMA TakeStep ==
    ASSUME Inv, NEW g \in Getters, pc[g] \in {"poll", "wait"}, Take(g, "check"),
           UNCHANGED <<chanClosed, curSize, shutdown, made, closed, expired>>
    PROVE  Inv'
<1> USE PoolAssumption DEF Inv, Procs
<1>1. CASE poolChan # <<>> /\ poolChan' = Tail(poolChan)
           /\ conn' = [conn EXCEPT ![g] = Head(poolChan)] /\ Goto(g, "check")
  <2>1. Head(poolChan) \in Conns /\ poolChan' \in Seq(Conns)
        /\ Len(poolChan') = Len(poolChan) - 1 /\ Len(poolChan) \in Nat
    BY <1>1 DEF Types
  <2>2. Types' /\ HandsFull' /\ FlagFirst'
    BY <1>1, <2>1, MaxSizePositive
       DEF Types, HandsFull, FlagFirst, Goto, PCStates, HoldStates, Capacity
  <2>3. /\ hold' = hold + 1 /\ create' = create /\ out' = out
        /\ hold \in Nat /\ create \in Nat /\ out \in Nat
    <3>1. /\ One(pc[g], HoldStates) = 0 /\ One("check", HoldStates) = 1
          /\ One(pc[g], CreateStates) = 0 /\ One("check", CreateStates) = 0
          /\ One(pc[g], OutStates) = 0 /\ One("check", OutStates) = 0
      BY DEF One, HoldStates, CreateStates, OutStates
    <3>2. g \in Procs /\ "check" \in PCStates /\ Goto(g, "check") /\ Types
      BY <1>1 DEF PCStates, HoldStates
    <3>3. /\ hold \in Nat /\ create \in Nat /\ out \in Nat
          /\ hold' = hold - One(pc[g], HoldStates) + One("check", HoldStates)
          /\ create' = create - One(pc[g], CreateStates)
                             + One("check", CreateStates)
          /\ out' = out - One(pc[g], OutStates) + One("check", OutStates)
      BY <3>2, Counts
    <3> QED
      BY <3>1, <3>3
  <2>4. Accounting'
    BY <2>1, <2>3, MaxSizePositive DEF Accounting, Types, Limit
  <2> QED
    BY <2>2, <2>4
<1>2. CASE chanClosed /\ Goto(g, "panicked") /\ UNCHANGED <<poolChan, conn>>
  <2>1. Types' /\ HandsFull' /\ FlagFirst'
    BY <1>2 DEF Types, HandsFull, FlagFirst, Goto, PCStates, HoldStates
  <2>2. /\ hold' = hold /\ create' = create /\ out' = out + 1
        /\ hold \in Nat /\ create \in Nat /\ out \in Nat
    <3>1. /\ One(pc[g], HoldStates) = 0 /\ One("panicked", HoldStates) = 0
          /\ One(pc[g], CreateStates) = 0 /\ One("panicked", CreateStates) = 0
          /\ One(pc[g], OutStates) = 0 /\ One("panicked", OutStates) = 1
      BY DEF One, HoldStates, CreateStates, OutStates
    <3>2. g \in Procs /\ "panicked" \in PCStates /\ Goto(g, "panicked") /\ Types
      BY <1>2 DEF PCStates
    <3>3. /\ hold \in Nat /\ create \in Nat /\ out \in Nat
          /\ hold' = hold - One(pc[g], HoldStates) + One("panicked", HoldStates)
          /\ create' = create - One(pc[g], CreateStates)
                             + One("panicked", CreateStates)
          /\ out' = out - One(pc[g], OutStates) + One("panicked", OutStates)
      BY <3>2, Counts
    <3> QED
      BY <3>1, <3>3
  <2>3. Accounting'
    BY <1>2, <2>2 DEF Accounting, Types, Limit
  <2> QED
    BY <2>1, <2>3
<1> QED
    BY <1>1, <1>2 DEF Take

\* A new pool satisfies the invariant.
LEMMA InitInv == Init => Inv
<1> SUFFICES ASSUME Init PROVE Inv
    OBVIOUS
<1> USE PoolAssumption
<1>1. made \in Nat /\ made <= maxSize /\ made <= MaxConns
    BY MaxSizePositive DEF Init
<1>2. poolChan \in Seq(Conns) /\ Len(poolChan) = made
    BY <1>1 DEF Init, Conns
<1>3. Types /\ HandsFull /\ FlagFirst
  <2>1. Len(poolChan) <= Capacity /\ made \in 0..MaxConns /\ curSize \in Int
    BY <1>1, <1>2, MaxSizePositive DEF Init, Capacity
  <2>2. /\ pc \in [Procs -> PCStates]
        /\ conn \in [Procs -> Conns \cup {NoConn}]
    BY DEF Init, PCStates
  <2>3. HandsFull /\ FlagFirst
    BY DEF Init, HandsFull, FlagFirst, HoldStates
  <2> QED
    BY <1>2, <2>1, <2>2, <2>3 DEF Init, Types
<1>4. At(pc, HoldStates) = {} /\ At(pc, CreateStates) = {}
    BY DEF Init, At, HoldStates, CreateStates
<1>5. hold = 0 /\ create = 0 /\ out \in Nat
    BY <1>4, AtFinite, FS_EmptySet DEF hold, create, out
<1>6. made <= Limit /\ Limit \in Nat
    BY <1>1, MaxSizePositive, FS_CardinalityType DEF Limit
<1> QED
    BY <1>2, <1>3, <1>5, <1>6 DEF Inv, Accounting, Init

\* Every step preserves the invariant.
LEMMA InvStep == Inv /\ [Next]_vars => Inv'
<1> SUFFICES ASSUME Inv, [Next]_vars PROVE Inv'
    OBVIOUS
<1> USE PoolAssumption DEF Inv, Procs
<1>a. /\ Len(poolChan) \in Nat /\ hold \in Nat /\ create \in Nat /\ out \in Nat
      /\ Limit \in Nat
    BY AtFinite, FS_CardinalityType, MaxSizePositive
       DEF Types, hold, create, out, Limit
<1>1. ASSUME NEW g \in Getters, Acquire(g) PROVE Inv'
  <2>1. Types' /\ HandsFull' /\ FlagFirst'
    BY <1>1, MaxSizePositive
       DEF Acquire, Types, HandsFull, FlagFirst, Goto, PCStates, HoldStates,
           CreateStates, Conns, NoConn
  <2>2. hold' = hold /\ create' = create /\ out' = out - 1
       /\ out' \in Nat
    BY <1>1, Counts
       DEF Acquire, One, PCStates, HoldStates, CreateStates, OutStates
  <2>3. Accounting'
    BY <1>a, <1>1, <2>2 DEF Acquire, Accounting, Types, Limit
  <2> QED
    BY <2>1, <2>3
<1>2. ASSUME NEW g \in Getters, Enter(g) PROVE Inv'
  <2>1. Types' /\ HandsFull' /\ FlagFirst'
    BY <1>2, MaxSizePositive
       DEF Enter, Types, HandsFull, FlagFirst, Goto, PCStates, HoldStates,
           CreateStates, Conns, NoConn
  <2>2. hold' = hold /\ create' = create /\ out' = out + (IF shutdown THEN 1 ELSE 0)
       /\ out' \in Nat
    BY <1>2, Counts
       DEF Enter, One, PCStates, HoldStates, CreateStates, OutStates
  <2>3. Accounting'
    BY <1>a, <1>2, <2>2 DEF Enter, Accounting, Types, Limit
  <2> QED
    BY <2>1, <2>3
<1>3. ASSUME NEW g \in Getters, Poll(g) PROVE Inv'
  <2>1. CASE Take(g, "check")
    BY <1>3, <2>1, TakeStep DEF Poll
  <2>2. CASE poolChan = <<>> /\ ~chanClosed /\ Goto(g, "full")
             /\ UNCHANGED <<poolChan, conn>>
    <3>1. Types' /\ HandsFull' /\ FlagFirst'
      BY <1>3, <2>2
         DEF Poll, Types, HandsFull, FlagFirst, Goto, PCStates, HoldStates,
             CreateStates
    <3>2. hold' = hold /\ create' = create + 1 /\ out' = out
      <4>1. /\ One(pc[g], HoldStates) = 0 /\ One("full", HoldStates) = 0
            /\ One(pc[g], CreateStates) = 0 /\ One("full", CreateStates) = 1
            /\ One(pc[g], OutStates) = 0 /\ One("full", OutStates) = 0
        BY <1>3 DEF Poll, One, HoldStates, CreateStates, OutStates
      <4> QED
        BY <2>2, <4>1, Counts DEF PCStates, CreateStates
    <3>3. hold + create + out + 1 <= Limit
      BY <1>3, Disjoint DEF Poll
    <3>4. Accounting'
      BY <1>a, <1>3, <2>2, <3>2, <3>3 DEF Poll, Accounting, Types, Limit
    <3> QED
      BY <3>1, <3>4
  <2> QED
    BY <1>3, <2>1, <2>2 DEF Poll
<1>4. ASSUME NEW g \in Getters, CheckSize(g) PROVE Inv'
  <2>1. Types' /\ HandsFull' /\ FlagFirst'
    BY <1>4, MaxSizePositive
       DEF CheckSize, Types, HandsFull, FlagFirst, Goto, PCStates, HoldStates,
           CreateStates, Conns, NoConn
  <2>2. /\ hold' = hold /\ out' = out
        /\ create' = create - (IF curSize >= maxSize THEN 1 ELSE 0)
       /\ out' \in Nat
    BY <1>4, Counts
       DEF CheckSize, One, PCStates, HoldStates, CreateStates, OutStates
  <2>3. Accounting'
    BY <1>a, <1>4, <2>2 DEF CheckSize, Accounting, Types, Limit
  <2> QED
    BY <2>1, <2>3
<1>5. ASSUME NEW g \in Getters, WaitTake(g) PROVE Inv'
    BY <1>5, TakeStep DEF WaitTake
<1>6. ASSUME NEW g \in Getters, WaitTimesOut(g) PROVE Inv'
  <2>1. Types' /\ HandsFull' /\ FlagFirst'
    BY <1>6, MaxSizePositive
       DEF WaitTimesOut, Types, HandsFull, FlagFirst, Goto, PCStates,
           HoldStates,
           CreateStates, Conns, NoConn
  <2>2. hold' = hold /\ create' = create /\ out' = out + 1
       /\ out' \in Nat
    BY <1>6, Counts
       DEF WaitTimesOut, One, PCStates, HoldStates, CreateStates, OutStates
  <2>3. Accounting'
    BY <1>a, <1>6, <2>2 DEF WaitTimesOut, Accounting, Types, Limit
  <2> QED
    BY <2>1, <2>3
<1>7. ASSUME NEW g \in Getters, DialFails(g) PROVE Inv'
  <2>1. Types' /\ HandsFull' /\ FlagFirst'
    BY <1>7, MaxSizePositive
       DEF DialFails, Types, HandsFull, FlagFirst, Goto, PCStates, HoldStates,
           CreateStates, Conns, NoConn
  <2>2. hold' = hold /\ create' = create - 1 /\ out' = out + 1
       /\ out' \in Nat
    BY <1>7, Counts
       DEF DialFails, One, PCStates, HoldStates, CreateStates, OutStates
  <2>3. Accounting'
    BY <1>a, <1>7, <2>2 DEF DialFails, Accounting, Types, Limit
  <2> QED
    BY <2>1, <2>3
<1>8. ASSUME NEW g \in Getters, Dial(g) PROVE Inv'
  <2>1. Types' /\ HandsFull' /\ FlagFirst'
    BY <1>8, MaxSizePositive
       DEF Dial, Types, HandsFull, FlagFirst, Goto, PCStates, HoldStates,
           CreateStates, Conns, NoConn
  <2>2. hold' = hold /\ create' = create /\ out' = out
       /\ out' \in Nat
    BY <1>8, Counts
       DEF Dial, One, PCStates, HoldStates, CreateStates, OutStates
  <2>3. Accounting'
    BY <1>a, <1>8, <2>2 DEF Dial, Accounting, Types, Limit
  <2> QED
    BY <2>1, <2>3
<1>9. ASSUME NEW g \in Getters, Count(g) PROVE Inv'
  <2>1. Types' /\ HandsFull' /\ FlagFirst'
    BY <1>9, MaxSizePositive
       DEF Count, Types, HandsFull, FlagFirst, Goto, PCStates, HoldStates,
           CreateStates, Conns, NoConn
  <2>2. hold' = hold + 1 /\ create' = create - 1 /\ out' = out
       /\ out' \in Nat
    BY <1>9, Counts
       DEF Count, One, PCStates, HoldStates, CreateStates, OutStates
  <2>3. Accounting'
    BY <1>a, <1>9, <2>2 DEF Count, Accounting, Types, Limit
  <2> QED
    BY <2>1, <2>3
<1>10. ASSUME NEW g \in Getters, Check(g) PROVE Inv'
  <2>1. Types' /\ HandsFull' /\ FlagFirst'
    BY <1>10, MaxSizePositive
       DEF Check, Types, HandsFull, FlagFirst, Goto, PCStates, HoldStates,
           CreateStates, Conns, NoConn
  <2>2. hold' = hold /\ create' = create /\ out' = out
       /\ out' \in Nat
    BY <1>10, Counts
       DEF Check, One, PCStates, HoldStates, CreateStates, OutStates
  <2>3. Accounting'
    BY <1>a, <1>10, <2>2 DEF Check, Accounting, Types, Limit
  <2> QED
    BY <2>1, <2>3
<1>11. ASSUME NEW g \in Getters, Uncount(g) PROVE Inv'
  <2>1. Types' /\ HandsFull' /\ FlagFirst'
    BY <1>11, MaxSizePositive
       DEF Uncount, Types, HandsFull, FlagFirst, Goto, PCStates, HoldStates,
           CreateStates, Conns, NoConn
  <2>2. hold' = hold - 1 /\ create' = create /\ out' = out
       /\ out' \in Nat
    BY <1>11, Counts
       DEF Uncount, One, PCStates, HoldStates, CreateStates, OutStates
  <2>3. Accounting'
    BY <1>a, <1>11, <2>2 DEF Uncount, Accounting, Types, Limit
  <2> QED
    BY <2>1, <2>3
<1>12. ASSUME NEW g \in Getters, Release(g) PROVE Inv'
  <2>1. Types' /\ HandsFull' /\ FlagFirst'
    BY <1>12, MaxSizePositive
       DEF Release, Types, HandsFull, FlagFirst, Goto, PCStates, HoldStates,
           CreateStates, Conns, NoConn
  <2>2. /\ hold' = hold - (IF shutdown THEN 1 ELSE 0) /\ create' = create
        /\ out' = out + (IF shutdown THEN 1 ELSE 0)
       /\ out' \in Nat
    BY <1>12, Counts
       DEF Release, One, PCStates, HoldStates, CreateStates, OutStates
  <2>3. Accounting'
    BY <1>a, <1>12, <2>2 DEF Release, Accounting, Types, Limit
  <2> QED
    BY <2>1, <2>3
<1>13. ASSUME NEW g \in Getters, Put(g) PROVE Inv'
  <2>1. CASE ~chanClosed /\ Len(poolChan) < Capacity /\ Goto(g, "idle")
             /\ poolChan' = Append(poolChan, conn[g])
             /\ conn' = [conn EXCEPT ![g] = NoConn]
    <3>1. poolChan' \in Seq(Conns) /\ Len(poolChan') = Len(poolChan) + 1
      BY <1>13, <2>1 DEF Put, Types, HandsFull, HoldStates
    <3>2. Types' /\ HandsFull' /\ FlagFirst'
      BY <1>13, <2>1, <3>1, MaxSizePositive
         DEF Put, Types, HandsFull, FlagFirst, Goto, PCStates, HoldStates,
             Capacity, NoConn
    <3>3. hold' = hold - 1 /\ create' = create /\ out' = out + 1
      <4>1. /\ One(pc[g], HoldStates) = 1 /\ One("idle", HoldStates) = 0
            /\ One(pc[g], CreateStates) = 0 /\ One("idle", CreateStates) = 0
            /\ One(pc[g], OutStates) = 0 /\ One("idle", OutStates) = 1
        BY <1>13 DEF Put, One, HoldStates, CreateStates, OutStates
      <4>2. g \in Procs /\ "idle" \in PCStates /\ Goto(g, "idle") /\ Types
        BY <2>1 DEF PCStates
      <4>3. /\ hold \in Nat /\ create \in Nat /\ out \in Nat
            /\ hold' = hold - One(pc[g], HoldStates) + One("idle", HoldStates)
            /\ create' = create - One(pc[g], CreateStates)
                               + One("idle", CreateStates)
            /\ out' = out - One(pc[g], OutStates) + One("idle", OutStates)
        BY <4>2, Counts
      <4> QED
        BY <4>1, <4>3
    <3>4. Accounting'
      BY <1>a, <1>13, <2>1, <3>1, <3>3 DEF Put, Accounting, Types, Limit
    <3> QED
      BY <3>2, <3>4
  <2>2. CASE chanClosed /\ Goto(g, "panicked") /\ UNCHANGED <<poolChan, conn>>
    <3>1. Types' /\ HandsFull' /\ FlagFirst'
      BY <1>13, <2>2
         DEF Put, Types, HandsFull, FlagFirst, Goto, PCStates, HoldStates
    <3>2. hold' = hold - 1 /\ create' = create /\ out' = out + 1
      BY <1>13, <2>2, Counts
         DEF Put, One, PCStates, HoldStates, CreateStates, OutStates
    <3>3. Accounting'
      BY <1>a, <1>13, <2>2, <3>2 DEF Put, Accounting, Types, Limit, FlagFirst
    <3> QED
      BY <3>1, <3>3
  <2> QED
    BY <1>13, <2>1, <2>2 DEF Put
<1>14. ASSUME NEW g \in Getters, Close(g) PROVE Inv'
  <2>1. Types' /\ HandsFull' /\ FlagFirst'
    BY <1>14, MaxSizePositive
       DEF Close, Types, HandsFull, FlagFirst, Goto, PCStates, HoldStates,
           CreateStates, Conns, NoConn
  <2>2. hold' = hold /\ create' = create /\ out' = out
       /\ out' \in Nat
    BY <1>14, Counts
       DEF Close, One, PCStates, HoldStates, CreateStates, OutStates
  <2>3. Accounting'
    BY <1>a, <1>14, <2>2 DEF Close, Accounting, Types, Limit
  <2> QED
    BY <2>1, <2>3
<1>15. ASSUME NEW g \in Getters, Closed(g) PROVE Inv'
  <2>1. Types' /\ HandsFull' /\ FlagFirst'
    BY <1>15, MaxSizePositive
       DEF Closed, Types, HandsFull, FlagFirst, Goto, PCStates, HoldStates,
           CreateStates, Conns, NoConn
  <2>2. hold' = hold - 1 /\ create' = create /\ out' = out + 1
       /\ out' \in Nat
    BY <1>15, Counts
       DEF Closed, One, PCStates, HoldStates, CreateStates, OutStates
  <2>3. Accounting'
    BY <1>a, <1>15, <2>2 DEF Closed, Accounting, Types, Limit
  <2> QED
    BY <2>1, <2>3
<1>16. ASSUME NEW k \in Closers, CloseAll(k) PROVE Inv'
  <2>1. Types' /\ HandsFull' /\ FlagFirst'
    BY <1>16, MaxSizePositive
       DEF CloseAll, Types, HandsFull, FlagFirst, Goto, PCStates, HoldStates,
           CreateStates, Conns, NoConn
  <2>2. hold' = hold /\ create' = create /\ out' = out - 1
       /\ out' \in Nat
    BY <1>16, Counts
       DEF CloseAll, One, PCStates, HoldStates, CreateStates, OutStates
  <2>3. Accounting'
    BY <1>a, <1>16, <2>2 DEF CloseAll, Accounting, Types, Limit
  <2> QED
    BY <2>1, <2>3
<1>17. ASSUME NEW k \in Closers, CheckShutdown(k) PROVE Inv'
  <2>1. Types' /\ HandsFull' /\ FlagFirst'
    BY <1>17, MaxSizePositive
       DEF CheckShutdown, Types, HandsFull, FlagFirst, Goto, PCStates,
           HoldStates,
           CreateStates, Conns, NoConn
  <2>2. hold' = hold /\ create' = create /\ out' = out - 1
       /\ out' \in Nat
    BY <1>17, Counts
       DEF CheckShutdown, One, PCStates, HoldStates, CreateStates, OutStates
  <2>3. Accounting'
    BY <1>a, <1>17, <2>2 DEF CheckShutdown, Accounting, Types, Limit
  <2> QED
    BY <2>1, <2>3
<1>18. ASSUME NEW k \in Closers, Shutdown(k) PROVE Inv'
  <2>1. Types' /\ HandsFull' /\ FlagFirst'
    BY <1>18, MaxSizePositive
       DEF Shutdown, Types, HandsFull, FlagFirst, Goto, PCStates, HoldStates,
           CreateStates, Conns, NoConn
  <2>2. hold' = hold /\ create' = create /\ out' = out
       /\ out' \in Nat
    BY <1>18, Counts
       DEF Shutdown, One, PCStates, HoldStates, CreateStates, OutStates
  <2>3. Accounting'
    BY <1>a, <1>18, <2>2 DEF Shutdown, Accounting, Types, Limit
  <2> QED
    BY <2>1, <2>3
<1>19. ASSUME NEW k \in Closers, CloseChan(k) PROVE Inv'
  <2>1. Types' /\ HandsFull' /\ FlagFirst'
    BY <1>19, MaxSizePositive
       DEF CloseChan, Types, HandsFull, FlagFirst, Goto, PCStates, HoldStates,
           CreateStates, Conns, NoConn
  <2>2. hold' = hold /\ create' = create /\ out' = out + (IF chanClosed THEN 1 ELSE 0)
       /\ out' \in Nat
    BY <1>19, Counts
       DEF CloseChan, One, PCStates, HoldStates, CreateStates, OutStates
  <2>3. Accounting'
    BY <1>a, <1>19, <2>2 DEF CloseChan, Accounting, Types, Limit
  <2> QED
    BY <2>1, <2>3
<1>20. ASSUME NEW k \in Closers, TakeToClose(k) PROVE Inv'
  <2>1. /\ Head(poolChan) \in Conns /\ poolChan' \in Seq(Conns)
        /\ Len(poolChan') = Len(poolChan) - 1
    BY <1>20 DEF TakeToClose, Types
  <2>2. PICK l \in {"cleared", "drained"} :
            Goto(k, l) /\ (l = "drained" => pc[k] = "drain")
    BY <1>20 DEF TakeToClose
  <2> DEFINE c == Head(poolChan)
  <2>3. /\ pc[k] \in {"clear", "drain"}
        /\ conn' = [conn EXCEPT ![k] = c] /\ closed' = closed \cup {c}
        /\ UNCHANGED <<chanClosed, curSize, shutdown, made, expired>>
    BY <1>20 DEF TakeToClose
  <2> HIDE DEF c
  <2>4. c \in Conns
    BY <2>1 DEF c
  <2>5. Types' /\ HandsFull' /\ FlagFirst'
    BY <1>a, <2>1, <2>2, <2>3, <2>4, MaxSizePositive
       DEF Types, HandsFull, FlagFirst, Goto, PCStates, HoldStates, Capacity
  <2>6. hold' = hold + 1 /\ create' = create /\ out' = out
    BY <2>2, <2>3, Counts
       DEF One, PCStates, HoldStates, CreateStates, OutStates
  <2>7. Accounting'
    BY <1>a, <2>1, <2>3, <2>6 DEF Accounting, Types, Limit
  <2> QED
    BY <2>5, <2>7
<1>21. ASSUME NEW k \in Closers, Drop(k) PROVE Inv'
  <2>1. Types' /\ HandsFull' /\ FlagFirst'
    BY <1>21, MaxSizePositive
       DEF Drop, Types, HandsFull, FlagFirst, Goto, PCStates, HoldStates,
           CreateStates, Conns, NoConn
  <2>2. hold' = hold - 1 /\ create' = create /\ out' = out
       /\ out' \in Nat
    BY <1>21, Counts
       DEF Drop, One, PCStates, HoldStates, CreateStates, OutStates
  <2>3. Accounting'
    BY <1>a, <1>21, <2>2 DEF Drop, Accounting, Types, Limit
  <2> QED
    BY <2>1, <2>3
<1>22. ASSUME NEW k \in Closers, LoopEnds(k) PROVE Inv'
  <2>1. Types' /\ HandsFull' /\ FlagFirst'
    BY <1>22
       DEF LoopEnds, Types, HandsFull, FlagFirst, Goto, PCStates, HoldStates
  <2>2. PICK l \in OutStates : Goto(k, l)
    BY <1>22 DEF LoopEnds, OutStates
  <2>3. hold' = hold /\ create' = create /\ out' = out + 1
    BY <1>22, <2>2, Counts
       DEF LoopEnds, One, PCStates, HoldStates, CreateStates, OutStates
  <2>4. Accounting'
    BY <1>a, <1>22, <2>3 DEF LoopEnds, Accounting, Types, Limit
  <2> QED
    BY <2>1, <2>4
<1>23. ASSUME NEW c \in Conns, Dies(c) \/ Expires(c) PROVE Inv'
  <2>1. Types' /\ HandsFull' /\ FlagFirst'
    BY <1>23 DEF Dies, Expires, Types, HandsFull, FlagFirst
  <2>2. UNCHANGED <<poolChan, curSize, shutdown, hold, create, out>>
    BY <1>23 DEF Dies, Expires, hold, create, out, At
  <2> QED
    BY <2>1, <2>2 DEF Accounting, Limit
<1>24. CASE UNCHANGED vars
  <2>1. UNCHANGED <<hold, create, out>>
    BY <1>24 DEF vars, hold, create, out, At
  <2> QED
    BY <1>24, <2>1 DEF vars, Types, HandsFull, FlagFirst, Accounting, Limit
<1> QED
    BY <1>1, <1>2, <1>3, <1>4, <1>5, <1>6, <1>7, <1>8, <1>9, <1>10, <1>11,
       <1>12, <1>13, <1>14, <1>15, <1>16, <1>17, <1>18, <1>19, <1>20, <1>21,
       <1>22, <1>23, <1>24
       DEF Next, Getter, Closer

-----------------------------------------------------------------------------
\* The invariant holds in every behaviour.
THEOREM InvAlways == Spec => []Inv
BY InitInv, InvStep, PTL DEF Spec

\* What the invariant says of the safety properties.
LEMMA InvImplies ==
    Inv => TypeOK /\ SizeIsExact /\ SizeBounded /\ ReleaseNeverBlocks
<1> SUFFICES ASSUME Inv
             PROVE  TypeOK /\ SizeIsExact /\ SizeBounded /\ ReleaseNeverBlocks
    OBVIOUS
<1> USE PoolAssumption, MaxSizePositive DEF Inv, Types, Accounting
<1>1. /\ Len(poolChan) \in Nat /\ hold \in Nat /\ create \in Nat
      /\ Cardinality(Procs) \in Nat /\ hold = Cardinality(Holders)
  <2>1. Len(poolChan) \in Nat
    OBVIOUS
  <2>2. Cardinality(Procs) \in Nat
    BY FS_CardinalityType
  <2>3. hold \in Nat /\ create \in Nat
    BY AtFinite DEF hold, create
  <2>4. hold = Cardinality(Holders)
    BY DEF hold, Holders, At
  <2> QED
    BY <2>1, <2>2, <2>3, <2>4
<1>2. TypeOK
    BY <1>1 DEF TypeOK
<1>3. SizeIsExact
    BY <1>1 DEF SizeIsExact
<1>4. SizeBounded
    BY <1>1 DEF SizeBounded, Limit
<1>5. ReleaseNeverBlocks
  <2> SUFFICES ASSUME Cardinality(Procs) <= maxSize * 2,
                      NEW p \in Procs, pc[p] = "put"
               PROVE  Len(poolChan) < maxSize * 2
    BY DEF ReleaseNeverBlocks, Capacity
  <2>1. p \in At(pc, HoldStates)
    BY DEF At, HoldStates
  <2>2. hold # 0
    BY <2>1, AtFinite, FS_EmptySet DEF hold
  <2>3. Limit <= maxSize * 2
    BY <1>1 DEF Limit
  <2> QED
    BY <1>1, <2>2, <2>3 DEF Limit
<1> QED
    BY <1>2, <1>3, <1>4, <1>5

\* The pool's state keeps its types and its counter is never negative.
THEOREM TypeCorrect == Spec => []TypeOK
BY InvAlways, InvImplies, PTL

\* Until a shutdown, curSize is the number of connections that are idle or in
\* the hands of a goroutine, in every interleaving of the unlocked accesses.
THEOREM SizeAlwaysExact == Spec => []SizeIsExact
BY InvAlways, InvImplies, PTL

\* However many goroutines pass the unlocked test of curSize together, the
\* pool never counts more connections than the larger of maxSize and the
\* number of goroutines.
THEOREM SizeAlwaysBounded == Spec => []SizeBounded
BY InvAlways, InvImplies, PTL

\* With at most 2*maxSize goroutines no Release blocks on a full channel.
THEOREM ReleaseFindsRoom == Spec => []ReleaseNeverBlocks
BY InvAlways, InvImplies, PTL
-----------------------------------------------------------------------------
(***************************************************************************)
(* Who owns a connection.  A connection enters a pair of hands from the    *)
(* factory, which gives a new one, or from the head of the channel, which  *)
(* loses it there; it enters the channel from hands that drop it.          *)
(***************************************************************************)

\* Whatever is in the channel or in hand has been made.
Made ==
    /\ \A i \in 1..Len(poolChan) : poolChan[i] <= made
    /\ \A p \in Procs : conn[p] <= made

OwnInv == Types /\ HandsFull /\ Made /\ OwnedOnce

\* A step that moves no connection, or makes a goroutine forget its own.
LEMMA OwnForget ==
    ASSUME OwnInv, UNCHANGED <<poolChan, made>>,
           \A p \in Procs : conn'[p] \in {conn[p], NoConn}
    PROVE  Made' /\ OwnedOnce'
BY DEF OwnInv, Types, Made, OwnedOnce, NoConn, Conns

\* A step that takes the oldest connection from the channel.
LEMMA OwnTake ==
    ASSUME OwnInv, NEW p \in Procs, poolChan # <<>>, UNCHANGED made,
           poolChan' = Tail(poolChan),
           conn' = [conn EXCEPT ![p] = Head(poolChan)]
    PROVE  Made' /\ OwnedOnce'
<1>1. /\ Len(poolChan) \in Nat \ {0} /\ Len(poolChan') = Len(poolChan) - 1
      /\ \A i \in 1..Len(poolChan') :
            poolChan'[i] = poolChan[i + 1] /\ i + 1 \in 1..Len(poolChan)
      /\ Head(poolChan) = poolChan[1] /\ 1 \in 1..Len(poolChan)
    BY DEF OwnInv, Types
<1>2. conn \in [Procs -> Conns \cup {NoConn}] /\ Made /\ OwnedOnce
    BY DEF OwnInv, Types
<1>3. Made'
    BY <1>1, <1>2 DEF Made
<1>4. \A i, j \in 1..Len(poolChan') : i # j => poolChan'[i] # poolChan'[j]
    BY <1>1, <1>2 DEF OwnedOnce
<1>5. ASSUME NEW q \in Procs, conn'[q] # NoConn,
             NEW i \in 1..Len(poolChan'), poolChan'[i] = conn'[q]
      PROVE  FALSE
    BY <1>1, <1>2, <1>5 DEF OwnedOnce
<1>6. ASSUME NEW q \in Procs, conn'[q] # NoConn, NEW r \in Procs \ {q},
             conn'[r] = conn'[q]
      PROVE  FALSE
    BY <1>1, <1>2, <1>6 DEF OwnedOnce
<1> QED
    BY <1>3, <1>4, <1>5, <1>6 DEF OwnedOnce

\* A goroutine that receives the connection has it, one that finds the channel
\* closed has what it had.
LEMMA OwnReceive ==
    ASSUME OwnInv, NEW p \in Procs, NEW l, Take(p, l), UNCHANGED made
    PROVE  Made' /\ OwnedOnce'
BY OwnTake, OwnForget DEF Take

\* The factory's connection is new.
LEMMA OwnDial ==
    ASSUME OwnInv, NEW p \in Procs, UNCHANGED poolChan, made' = made + 1,
           conn' = [conn EXCEPT ![p] = made + 1]
    PROVE  Made' /\ OwnedOnce'
<1>1. /\ made \in Nat /\ Len(poolChan) \in Nat
      /\ \A i \in 1..Len(poolChan) : poolChan[i] \in Nat
      /\ conn \in [Procs -> Nat]
    BY PoolAssumption DEF OwnInv, Types, Conns, NoConn
<1> QED
    BY <1>1 DEF OwnInv, Made, OwnedOnce

\* Release puts the connection into the channel and drops it.
LEMMA OwnPut ==
    ASSUME OwnInv, NEW p \in Procs, conn[p] # NoConn, UNCHANGED made,
           poolChan' = Append(poolChan, conn[p]),
           conn' = [conn EXCEPT ![p] = NoConn]
    PROVE  Made' /\ OwnedOnce'
<1> DEFINE last == Len(poolChan) + 1
<1>1. /\ Len(poolChan) \in Nat /\ Len(poolChan') = last
      /\ poolChan'[last] = conn[p]
      /\ \A i \in 1..Len(poolChan') :
            i # last => i \in 1..Len(poolChan) /\ poolChan'[i] = poolChan[i]
    BY DEF OwnInv, Types
<1>2. /\ conn \in [Procs -> Conns \cup {NoConn}] /\ Made /\ OwnedOnce
      /\ conn'[p] = NoConn /\ \A q \in Procs \ {p} : conn'[q] = conn[q]
    BY DEF OwnInv, Types
<1> HIDE DEF last
<1>3. Made'
    BY <1>1, <1>2 DEF Made, OwnInv, Types, NoConn
<1>4. ASSUME NEW i \in 1..Len(poolChan'), NEW j \in 1..Len(poolChan'), i # j
      PROVE  poolChan'[i] # poolChan'[j]
    BY <1>1, <1>2, <1>4 DEF OwnedOnce
<1>5. ASSUME NEW q \in Procs, conn'[q] # NoConn
      PROVE  /\ \A i \in 1..Len(poolChan') : poolChan'[i] # conn'[q]
             /\ \A r \in Procs \ {q} : conn'[r] # conn'[q]
    BY <1>1, <1>2, <1>5 DEF OwnedOnce
<1> QED
    BY <1>3, <1>4, <1>5 DEF OwnedOnce

\* Every step keeps the connections apart.
LEMMA OwnStep == Inv /\ OwnInv /\ [Next]_vars => Made' /\ OwnedOnce'
<1> SUFFICES ASSUME Inv, OwnInv, [Next]_vars PROVE Made' /\ OwnedOnce'
    OBVIOUS
<1> USE DEF Procs
<1>c. conn \in [Procs -> Conns \cup {NoConn}]
    BY DEF OwnInv, Types
<1>1. ASSUME NEW g \in Getters, Poll(g) \/ WaitTake(g)
      PROVE  Made' /\ OwnedOnce'
    BY <1>1, OwnReceive, OwnForget DEF Poll, WaitTake
<1>2. ASSUME NEW g \in Getters, Dial(g) PROVE Made' /\ OwnedOnce'
    BY <1>2, OwnDial DEF Dial
<1>3. ASSUME NEW g \in Getters, Put(g) PROVE Made' /\ OwnedOnce'
  <2>1. conn[g] # NoConn
    BY <1>3, PoolAssumption DEF Put, OwnInv, HandsFull, HoldStates, Conns,
       NoConn
  <2> QED
    BY <1>3, <2>1, OwnPut, OwnForget DEF Put
<1>4. ASSUME NEW k \in Closers, TakeToClose(k) PROVE Made' /\ OwnedOnce'
    BY <1>4, OwnTake DEF TakeToClose
<1>5. ASSUME NEW g \in Getters, Uncount(g) \/ Release(g) \/ Closed(g)
      PROVE  Made' /\ OwnedOnce'
    BY <1>5, <1>c, OwnForget DEF Uncount, Release, Closed
<1>6. ASSUME NEW k \in Closers, Drop(k) PROVE Made' /\ OwnedOnce'
    BY <1>6, <1>c, OwnForget DEF Drop
<1>7. CASE UNCHANGED <<poolChan, made, conn>>
    BY <1>7, OwnForget
<1>8. \/ UNCHANGED <<poolChan, made, conn>>
      \/ \E g \in Getters :
            \/ Poll(g) \/ WaitTake(g) \/ Dial(g) \/ Put(g)
            \/ Uncount(g) \/ Release(g) \/ Closed(g)
      \/ \E k \in Closers : TakeToClose(k) \/ Drop(k)
    BY DEF Next, Getter, Closer, vars, Acquire, Enter, CheckSize, WaitTimesOut,
           DialFails, Count, Check, Close, CloseAll, CheckShutdown, Shutdown,
           CloseChan, LoopEnds, Dies, Expires
<1> QED
    BY <1>1, <1>2, <1>3, <1>4, <1>5, <1>6, <1>7, <1>8

\* A connection is in one place: in the channel once, or in the hands of one
\* goroutine, which no other reaches through the pool.
THEOREM ConnectionsOwnedOnce == Spec => []OwnedOnce
<1>1. Init => Made /\ OwnedOnce
    BY PoolAssumption DEF Init, Made, OwnedOnce, NoConn
<1>2. Inv /\ Made /\ OwnedOnce /\ [Next]_vars => Made' /\ OwnedOnce'
    BY OwnStep DEF OwnInv, Inv
<1>3. Init /\ [][Next]_vars => []OwnedOnce
    BY <1>1, <1>2, InitInv, InvStep, PTL
<1> QED
    BY <1>3 DEF Spec
=============================================================================
