--------------------------- MODULE EasyConnectionProofs ---------------------------
(***************************************************************************)
(* Proofs about EasyConnection for every size of writeChan and every       *)
(* number of senders.  What the writer has yet to write is what writeChan  *)
(* took and the socket has not: the packages before the reader's nil       *)
(* package, and behind it those of senders that passed the test of isClose *)
(* before the channel was closed.  What Read dispatches is what the other  *)
(* side has encoded, package after package.                                *)
(***************************************************************************)
EXTENDS EasyConnection, SequenceTheorems, WellFoundedInduction, TLAPS

Types ==
    /\ writeChan \in Seq(Pkgs \cup {Nil})
    /\ accepted \in Seq(Pkgs) /\ written \in Seq(Pkgs)
    /\ chanState \in {"nil", "open", "closed"}
    /\ inHand \in Pkgs \cup {NoPkg}
    /\ sender \in [Senders -> {"idle", "push", "panicked"}]
    /\ sending \in [Senders -> Pkgs \cup {NoPkg}]
    /\ \A g \in Senders : sender[g] = "push" => sending[g] \in Pkgs

\* The writer has a package in hand exactly while it writes.
WriterHolds == writer = "write" <=> inHand # NoPkg

\* The channel is closed behind the nil package.
NilSent == reader \in {"closeChan", "done"}
ClosedBehindNil == chanState = "closed" => NilSent

\* The packages the writer has taken and not dropped.
taken == Len(written) + (IF inHand = NoPkg THEN 0 ELSE 1)

\* The writer follows writeChan's order.
Followed ==
    /\ taken <= Len(accepted)
    /\ \A i \in 1..Len(written) : written[i] = accepted[i]
    /\ inHand # NoPkg => inHand = accepted[taken]

\* Where the nil package is in the queue, or one place behind the queue.
NilAt(p) ==
    /\ p \in 1..(Len(writeChan) + 1)
    /\ p <= Len(writeChan) <=> NilSent
    /\ p <= Len(writeChan) => writeChan[p] = Nil

\* The queue is what writeChan took and the writer has not, and the nil
\* package at p.
Queued(p) ==
    /\ Len(accepted) - taken = Len(writeChan) - (IF NilSent THEN 1 ELSE 0)
    /\ \A i \in 1..Len(writeChan) :
          /\ i < p => writeChan[i] = accepted[taken + i]
          /\ i > p => writeChan[i] = accepted[taken + i - 1]

NothingLost ==
    writer # "done" =>
        \E p \in 1..(Len(writeChan) + 1) : NilAt(p) /\ Queued(p)

\* The goroutines begin when the opener starts them.
NotYet ==
    /\ opener \in {"dial", "goRead"} => reader = "none"
    /\ opener \in {"dial", "goRead", "goWrite"} => writer = "none"

Inv ==
    /\ Types /\ NotYet /\ WriterHolds /\ ClosedBehindNil
    /\ Followed /\ NothingLost

-----------------------------------------------------------------------------
\* The initial states satisfy the invariant.
LEMMA InitInv == Init => Inv
<1> SUFFICES ASSUME Init PROVE Inv
    OBVIOUS
<1> USE ConnectionAssumption
<1>1. Types
    BY DEF Init, Types, Pkgs, NoPkg
<1>2. NotYet /\ WriterHolds /\ ClosedBehindNil /\ Followed
    BY DEF Init, NotYet, WriterHolds, ClosedBehindNil, Followed, taken
<1>3. NilAt(1) /\ Queued(1) /\ 1 \in 1..(Len(writeChan) + 1)
    BY DEF Init, NilAt, NilSent, Queued, taken
<1> QED
    BY <1>1, <1>2, <1>3 DEF Inv, NothingLost

\* A step that leaves the queue, the writer's package and what was written.
LEMMA QueueRests ==
    ASSUME Inv, UNCHANGED <<writeChan, accepted, written, inHand>>,
           NilSent' <=> NilSent, writer' # "done" => writer # "done"
    PROVE  Followed' /\ NothingLost'
BY DEF Inv, Followed, NothingLost, NilAt, Queued, taken, NilSent

\* The reader's nil package goes to the end of the queue.
LEMMA NilStep == Inv /\ ReaderSendsNil => Inv'
<1> SUFFICES ASSUME Inv, ReaderSendsNil PROVE Inv'
    OBVIOUS
<1> USE ConnectionAssumption DEF Inv, ReaderSendsNil, output, sends
<1>1. Types' /\ NotYet' /\ WriterHolds' /\ ClosedBehindNil' /\ Followed'
    BY DEF Types, NotYet, WriterHolds, ClosedBehindNil, Followed, taken, NilSent
<1>2. ASSUME writer # "done" PROVE NothingLost'
  <2>1. PICK p \in 1..(Len(writeChan) + 1) : NilAt(p) /\ Queued(p)
    BY <1>2 DEF NothingLost
  <2>2. Len(writeChan) \in Nat /\ p = Len(writeChan) + 1
    BY <2>1 DEF Types, NilAt, NilSent
  <2>3. /\ Len(writeChan') = Len(writeChan) + 1 /\ writeChan'[p] = Nil
        /\ \A i \in 1..Len(writeChan) : writeChan'[i] = writeChan[i]
    BY <2>2 DEF Types
  <2>4. taken' = taken /\ taken \in Nat /\ NilSent' /\ ~NilSent
    BY DEF taken, NilSent, Types
  <2>5. NilAt(p)' /\ Queued(p)'
    BY <2>1, <2>2, <2>3, <2>4 DEF NilAt, Queued, Types
  <2> QED
    BY <2>2, <2>3, <2>5 DEF NothingLost
<1> QED
    BY <1>1, <1>2 DEF NothingLost

\* A sender's package goes to the end of the queue and of what was accepted.
LEMMA PushStep == ASSUME Inv, NEW g \in Senders, Push(g) PROVE Inv'
<1> USE ConnectionAssumption DEF Inv, Push, output, stream
<1> DEFINE pkg == sending[g]
<1>0. /\ pkg \in Pkgs /\ Len(accepted) \in Nat /\ Len(writeChan) \in Nat
      /\ Len(written) \in Nat
      /\ writeChan' = Append(writeChan, pkg) /\ accepted' = Append(accepted, pkg)
    BY DEF Types
<1> HIDE DEF pkg
<1>1. Types'
    BY <1>0 DEF Types
<1>2. NotYet' /\ WriterHolds' /\ ClosedBehindNil'
    BY DEF NotYet, WriterHolds, ClosedBehindNil, NilSent
<1>3. /\ Len(accepted') = Len(accepted) + 1 /\ accepted'[Len(accepted) + 1] = pkg
      /\ \A i \in 1..Len(accepted) : accepted'[i] = accepted[i]
      /\ Len(writeChan') = Len(writeChan) + 1
      /\ writeChan'[Len(writeChan) + 1] = pkg
      /\ \A i \in 1..Len(writeChan) : writeChan'[i] = writeChan[i]
    BY <1>0 DEF Types
<1>4. taken' = taken /\ taken \in Nat /\ (NilSent' <=> NilSent)
    BY <1>0 DEF taken, NilSent, Types
<1>5. Followed'
    BY <1>0, <1>3, <1>4 DEF Followed, taken
<1>l. Len(accepted) \in Nat /\ Len(writeChan) \in Nat
    BY <1>0
<1> HIDE DEF Inv, Push
<1>6. ASSUME writer # "done" PROVE NothingLost'
  <2>1. PICK p \in 1..(Len(writeChan) + 1) : NilAt(p) /\ Queued(p)
    BY <1>6 DEF Inv, NothingLost
  <2>2. CASE NilSent
    <3>1. p \in 1..Len(writeChan) /\ Len(accepted) = taken + Len(writeChan) - 1
      BY <1>l, <1>4, <2>1, <2>2 DEF NilAt, Queued
    <3>2. NilAt(p)'
      BY <1>l, <1>3, <1>4, <2>1, <2>2, <3>1 DEF NilAt
    <3>3. ASSUME NEW i \in 1..Len(writeChan')
          PROVE  /\ i < p => writeChan'[i] = accepted'[taken + i]
                 /\ i > p => writeChan'[i] = accepted'[taken + i - 1]
      <4>1. CASE i = Len(writeChan) + 1
        <5>1. i > p /\ taken + i - 1 = Len(accepted) + 1
          BY <1>l, <1>4, <3>1, <4>1
        <5> QED
          BY <1>3, <3>1, <4>1, <5>1
      <4>2. CASE i \in 1..Len(writeChan)
        <5>1. /\ i < p => taken + i \in 1..Len(accepted)
              /\ i > p => taken + i - 1 \in 1..Len(accepted)
          BY <1>l, <1>4, <3>1, <4>2
        <5> QED
          BY <1>3, <2>1, <3>1, <4>2, <5>1 DEF Queued
      <4> QED
        BY <1>l, <1>3, <3>3, <4>1, <4>2
    <3>4. Queued(p)'
      <4>1. Len(accepted') - taken' = Len(writeChan') - 1
        BY <1>l, <1>3, <1>4, <3>1
      <4>2. NilSent' /\ taken' = taken
        BY <1>4, <2>2
      <4> QED
        BY <3>3, <4>1, <4>2 DEF Queued
    <3> QED
      BY <1>l, <1>3, <3>1, <3>2, <3>4 DEF NothingLost
  <2>3. CASE ~NilSent
    <3>1. p = Len(writeChan) + 1 /\ Len(accepted) = taken + Len(writeChan)
      BY <1>l, <1>4, <2>1, <2>3 DEF NilAt, Queued
    <3>2. NilAt(p + 1)'
      BY <1>l, <1>3, <1>4, <2>1, <2>3, <3>1 DEF NilAt
    <3>3. ASSUME NEW i \in 1..Len(writeChan')
          PROVE  i < p + 1 /\ writeChan'[i] = accepted'[taken + i]
      <4>1. CASE i = Len(writeChan) + 1
        BY <1>l, <1>3, <1>4, <3>1, <4>1
      <4>2. CASE i \in 1..Len(writeChan)
        <5>1. taken + i \in 1..Len(accepted) /\ i < p
          BY <1>l, <1>4, <3>1, <4>2
        <5> QED
          BY <1>3, <2>1, <3>1, <4>2, <5>1 DEF Queued
      <4> QED
        BY <1>l, <1>3, <3>3, <4>1, <4>2
    <3>4. Queued(p + 1)'
      <4>1. Len(accepted') - taken' = Len(writeChan')
        BY <1>l, <1>3, <1>4, <3>1
      <4>2. ~NilSent' /\ taken' = taken
        BY <1>4, <2>3
      <4> QED
        BY <3>3, <4>1, <4>2, <1>l, <3>1 DEF Queued
    <3> QED
      BY <1>l, <1>3, <3>1, <3>2, <3>4 DEF NothingLost
  <2> QED
    BY <2>2, <2>3
<1> QED
    BY <1>1, <1>2, <1>5, <1>6 DEF Inv, NothingLost, Push

\* The writer takes the head of the queue, or leaves.
LEMMA TakeStep == Inv /\ WriterTakes => Inv'
<1> SUFFICES ASSUME Inv, WriterTakes PROVE Inv'
    OBVIOUS
<1> USE ConnectionAssumption DEF Inv, WriterTakes, stream, sends
<1>0. /\ inHand = NoPkg /\ Len(written) \in Nat /\ Len(accepted) \in Nat
      /\ taken = Len(written) /\ UNCHANGED <<accepted, written>>
    BY DEF WriterHolds, Types, taken
<1>1. CASE writeChan = <<>> \/ Head(writeChan) = Nil
  <2>1. inHand' = inHand /\ writer' = "done" /\ taken' = taken
    BY <1>1 DEF taken
  <2>2. Types'
    BY <1>1, <2>1 DEF Types
  <2>3. NotYet' /\ WriterHolds' /\ ClosedBehindNil' /\ Followed' /\ NothingLost'
    BY <1>0, <2>1 DEF NotYet, WriterHolds, ClosedBehindNil, NilSent, Followed,
                      NothingLost
  <2> QED
    BY <2>2, <2>3
<1>2. CASE writeChan # <<>> /\ Head(writeChan) # Nil
  <2>1. /\ Len(writeChan) \in Nat \ {0} /\ Len(writeChan') = Len(writeChan) - 1
        /\ \A i \in 1..Len(writeChan') :
              writeChan'[i] = writeChan[i + 1] /\ i + 1 \in 1..Len(writeChan)
        /\ Head(writeChan) = writeChan[1] /\ writeChan[1] \in Pkgs
        /\ writeChan' \in Seq(Pkgs \cup {Nil})
    BY <1>2 DEF Types
  <2>2. inHand' = writeChan[1] /\ writer' = "write" /\ inHand' # NoPkg
    BY <1>2, <2>1 DEF Pkgs, NoPkg
  <2>3. taken' = taken + 1 /\ (NilSent' <=> NilSent)
    BY <1>0, <2>2 DEF taken, NilSent
  <2>4. Types'
    BY <2>1, <2>2 DEF Types
  <2>5. NotYet' /\ WriterHolds' /\ ClosedBehindNil'
    BY <2>2 DEF NotYet, WriterHolds, ClosedBehindNil, NilSent
  <2>6. PICK p \in 1..(Len(writeChan) + 1) : NilAt(p) /\ Queued(p)
    BY DEF NothingLost
  <2>7. p > 1
    BY <1>2, <2>1, <2>6 DEF NilAt
  <2>8. writeChan[1] = accepted[taken + 1] /\ Len(accepted) >= taken + 1
    BY <1>0, <2>1, <2>6, <2>7 DEF Queued, NilAt
  <2>9. Followed'
    BY <1>0, <2>2, <2>3, <2>8 DEF Followed
  <2>10. NilAt(p - 1)'
    BY <2>1, <2>3, <2>6, <2>7 DEF NilAt
  <2>11. Queued(p - 1)'
    BY <1>0, <2>1, <2>3, <2>6, <2>7 DEF Queued
  <2>12. p - 1 \in 1..(Len(writeChan') + 1)
    BY <2>1, <2>7
  <2> QED
    BY <2>4, <2>5, <2>9, <2>10, <2>11, <2>12 DEF NothingLost
<1> QED
    BY <1>1, <1>2

\* The writer has written its package, or drops it and leaves.
LEMMA WriteStep == Inv /\ (WriteOk \/ WriteFails) => Inv'
<1> SUFFICES ASSUME Inv, WriteOk \/ WriteFails PROVE Inv'
    OBVIOUS
<1> USE ConnectionAssumption DEF Inv, stream, sends, queue
<1>0. /\ Len(written) \in Nat /\ Len(accepted) \in Nat
      /\ inHand \in Pkgs /\ inHand # NoPkg /\ taken = Len(written) + 1
    BY DEF WriteOk, WriteFails, WriterHolds, Types, taken
<1>1. NotYet' /\ WriterHolds' /\ ClosedBehindNil'
    BY DEF WriteOk, WriteFails, NotYet, WriterHolds, ClosedBehindNil, NilSent
<1>2. CASE WriteOk
  <2>1. /\ written' \in Seq(Pkgs) /\ Len(written') = Len(written) + 1
        /\ written'[Len(written) + 1] = inHand
        /\ \A i \in 1..Len(written) : written'[i] = written[i]
    BY <1>0, <1>2 DEF WriteOk, Types
  <2>2. Types'
    BY <1>2, <2>1 DEF WriteOk, Types
  <2>3. taken' = taken
    BY <1>0, <1>2, <2>1 DEF WriteOk, taken
  <2>4. Followed'
    BY <1>0, <1>2, <2>1, <2>3 DEF WriteOk, Followed
  <2>5. NothingLost'
    BY <1>2, <2>3 DEF WriteOk, NothingLost, NilAt, Queued, NilSent
  <2> QED
    BY <1>1, <2>2, <2>4, <2>5
<1>3. CASE WriteFails
  <2>1. Types'
    BY <1>3 DEF WriteFails, Types
  <2>2. taken' = Len(written) /\ NothingLost'
    BY <1>0, <1>3 DEF WriteFails, taken, NothingLost
  <2>3. Followed'
    BY <1>0, <1>3, <2>2 DEF WriteFails, Followed
  <2> QED
    BY <1>1, <2>1, <2>2, <2>3
<1> QED
    BY <1>2, <1>3

\* Every step preserves the invariant.
LEMMA InvStep == Inv /\ [Next]_vars => Inv'
<1> SUFFICES ASSUME Inv, [Next]_vars PROVE Inv'
    OBVIOUS
<1> USE ConnectionAssumption DEF Inv, queue, sends, output
<1>1. CASE DialOk \/ StartReader \/ StartWriter \/ MarkOpen
  <2>1. Types'
    BY <1>1 DEF DialOk, StartReader, StartWriter, MarkOpen, Types
  <2>2. NotYet' /\ WriterHolds' /\ ClosedBehindNil' /\ (NilSent' <=> NilSent)
    BY <1>1 DEF DialOk, StartReader, StartWriter, MarkOpen, NotYet, WriterHolds,
                ClosedBehindNil, NilSent
  <2>3. UNCHANGED <<writeChan, accepted, written, inHand>>
        /\ (writer' # "done" => writer # "done")
    BY <1>1 DEF DialOk, StartReader, StartWriter, MarkOpen, NotYet
  <2> QED
    BY <2>1, <2>2, <2>3, QueueRests
<1>2. CASE ReadPrefix \/ ReadRest \/ ReadFails \/ ReaderMarks \/ ReaderCloses
           \/ ReaderClosesChan
  <2>1. /\ UNCHANGED <<writeChan, opener, writer, inHand, written, sender, sending,
                       accepted>>
        /\ chanState' = chanState \/ (chanState' = "closed" /\ NilSent')
        /\ reader # "none" /\ (NilSent' <=> NilSent)
    BY <1>2 DEF ReadPrefix, ReadRest, ReadFails, ReaderMarks, ReaderCloses,
                ReaderClosesChan, NilSent
  <2>2. Types' /\ NotYet' /\ WriterHolds' /\ ClosedBehindNil'
    BY <2>1 DEF Types, NotYet, WriterHolds, ClosedBehindNil
  <2> QED
    BY <2>1, <2>2, QueueRests
<1>3. ASSUME CloserMarks \/ CloserCloses \/ UNCHANGED vars
             \/ \E g \in Senders : Panic(g) \/ \E pkg \in Pkgs : Send(g, pkg)
      PROVE  Inv'
  <2>1. UNCHANGED <<writeChan, chanState, opener, reader, writer, inHand, written,
                    accepted>>
    BY <1>3 DEF CloserMarks, CloserCloses, vars, Panic, Send
  <2>2. Types'
    <3>1. CASE UNCHANGED <<sender, sending>>
      BY <2>1, <3>1 DEF Types
    <3>2. ASSUME NEW g \in Senders, Panic(g) PROVE Types'
      BY <2>1, <3>2 DEF Panic, Types
    <3>3. ASSUME NEW g \in Senders, NEW pkg \in Pkgs, Send(g, pkg) PROVE Types'
      BY <2>1, <3>3 DEF Send, Types
    <3> QED
      BY <1>3, <3>1, <3>2, <3>3 DEF CloserMarks, CloserCloses, vars
  <2>3. NotYet' /\ WriterHolds' /\ ClosedBehindNil' /\ (NilSent' <=> NilSent)
    BY <2>1 DEF NotYet, WriterHolds, ClosedBehindNil, NilSent
  <2> QED
    BY <2>1, <2>2, <2>3, QueueRests
<1> QED
    BY <1>1, <1>2, <1>3, NilStep, PushStep, TakeStep, WriteStep
       DEF Next, Opener, Reader, Writer, Closer, Sender

\* The invariant holds in every behaviour.
THEOREM InvAlways == Spec => []Inv
BY InitInv, InvStep, PTL DEF Spec

-----------------------------------------------------------------------------
\* The queue without its nil package.
LEMMA RestAt ==
    ASSUME NEW s \in Seq(Pkgs \cup {Nil}), NEW p \in 1..Len(s), s[p] = Nil,
           \A i \in 1..Len(s) : i # p => s[i] # Nil
    PROVE  Rest(s) = SubSeq(s, 1, p - 1) \o SubSeq(s, p + 1, Len(s))
<1>1. {i \in 1..Len(s) : s[i] = Nil} = {p}
    OBVIOUS
<1>2. Min({p}) = p
    BY DEF Min
<1>3. SelectInSeq(s, LAMBDA v : v = Nil) = p
    BY <1>1, <1>2 DEF SelectInSeq
<1> QED
    BY <1>3 DEF Rest, RemoveFirst, RemoveAt

\* A queue without a nil package.
LEMMA RestAll ==
    ASSUME NEW s, \A i \in 1..Len(s) : s[i] # Nil
    PROVE  Rest(s) = s
BY DEF Rest, RemoveFirst

\* The queue behind what was written and is in hand is what was accepted.
LEMMA Fifo == Inv => FirstInFirstOut
<1> SUFFICES ASSUME Inv PROVE FirstInFirstOut
    OBVIOUS
<1> USE ConnectionAssumption DEF Inv
<1>0. /\ Len(written) \in Nat /\ Len(accepted) \in Nat /\ Len(writeChan) \in Nat
      /\ taken \in Nat /\ Nil \notin Pkgs
    BY DEF Types, taken, Pkgs
<1>1. \A i \in 1..Len(written) : written[i] = accepted[i]
    BY DEF Followed
<1>2. ASSUME writer # "done"
      PROVE  accepted = written \o InHand \o Rest(writeChan)
  <2> DEFINE front == written \o InHand
             rest == Rest(writeChan)
  <2>1. /\ front \in Seq(Pkgs) /\ Len(front) = taken
        /\ \A i \in 1..taken : front[i] = accepted[i]
    <3>1. CASE inHand = NoPkg
      BY <1>0, <1>1, <3>1 DEF InHand, taken, Types
    <3>2. CASE inHand # NoPkg
      <4>1. InHand = <<inHand>> /\ InHand \in Seq(Pkgs) /\ Len(InHand) = 1
            /\ InHand[1] = accepted[taken] /\ taken = Len(written) + 1
        BY <1>0, <3>2 DEF InHand, taken, Types, Followed
      <4>2. /\ front \in Seq(Pkgs) /\ Len(front) = Len(written) + 1
            /\ \A i \in 1..(Len(written) + 1) :
                  front[i] = IF i <= Len(written) THEN written[i]
                                                  ELSE InHand[i - Len(written)]
        <5>1. written \in Seq(Pkgs)
          BY DEF Types
        <5> QED
          BY <4>1, <5>1, ConcatProperties
      <4> HIDE DEF front
      <4>3. ASSUME NEW i \in 1..taken PROVE front[i] = accepted[i]
        <5>1. CASE i <= Len(written)
          BY <1>0, <1>1, <4>1, <4>2, <5>1
        <5>2. CASE i = taken
          BY <1>0, <4>1, <4>2, <5>2
        <5> QED
          BY <1>0, <4>1, <4>3, <5>1, <5>2
      <4> QED
        BY <4>1, <4>2, <4>3
    <3> QED
      BY <3>1, <3>2
  <2>2. PICK p \in 1..(Len(writeChan) + 1) : NilAt(p) /\ Queued(p)
    BY <1>2 DEF NothingLost
  <2>3. /\ rest \in Seq(Pkgs) /\ Len(rest) = Len(accepted) - taken
        /\ \A i \in 1..Len(rest) : rest[i] = accepted[taken + i]
    <3>1. \A i \in 1..Len(writeChan) : i # p => writeChan[i] \in Pkgs
      <4>1. ASSUME NEW i \in 1..Len(writeChan), i # p
            PROVE  \E j \in 1..Len(accepted) : writeChan[i] = accepted[j]
        <5>1. CASE i < p
          BY <1>0, <2>2, <4>1, <5>1 DEF NilAt, Queued
        <5>2. CASE i > p
          BY <1>0, <2>2, <4>1, <5>2 DEF NilAt, Queued
        <5> QED
          BY <2>2, <4>1, <5>1, <5>2
      <4> QED
        BY <4>1 DEF Types
    <3>2. CASE NilSent
      <4>1. p \in 1..Len(writeChan) /\ writeChan[p] = Nil
        BY <1>0, <2>2, <3>2 DEF NilAt
      <4>2. rest = SubSeq(writeChan, 1, p - 1)
                      \o SubSeq(writeChan, p + 1, Len(writeChan))
        BY <1>0, <3>1, <4>1, RestAt DEF Types
      <4> DEFINE before == SubSeq(writeChan, 1, p - 1)
                 behind == SubSeq(writeChan, p + 1, Len(writeChan))
      <4>3. /\ before \in Seq(Pkgs) /\ Len(before) = p - 1
            /\ \A i \in 1..(p - 1) : before[i] = writeChan[i]
        BY <1>0, <3>1, <4>1, SubSeqProperties
      <4>4. /\ behind \in Seq(Pkgs) /\ Len(behind) = Len(writeChan) - p
            /\ \A i \in 1..(Len(writeChan) - p) : behind[i] = writeChan[p + i]
        BY <1>0, <3>1, <4>1, SubSeqProperties
      <4>5. rest = before \o behind
        BY <4>2
      <4> HIDE DEF before, behind, rest
      <4>6. /\ rest \in Seq(Pkgs) /\ Len(rest) = Len(writeChan) - 1
            /\ \A i \in 1..(p - 1) : rest[i] = writeChan[i]
            /\ \A i \in p..(Len(writeChan) - 1) : rest[i] = writeChan[i + 1]
        <5>1. /\ rest \in Seq(Pkgs) /\ Len(rest) = Len(before) + Len(behind)
              /\ \A i \in 1..(Len(before) + Len(behind)) :
                    rest[i] = IF i <= Len(before) THEN before[i]
                                                  ELSE behind[i - Len(before)]
          <6>1. before \in Seq(Pkgs) /\ behind \in Seq(Pkgs)
            BY <4>3, <4>4
          <6> QED
            BY <4>5, <6>1, ConcatProperties
        <5>2. ASSUME NEW i \in 1..(p - 1) PROVE rest[i] = writeChan[i]
          <6>1. i \in 1..(Len(before) + Len(behind)) /\ i <= Len(before)
            BY <1>0, <4>1, <4>3, <4>4
          <6> QED
            BY <4>3, <5>1, <6>1
        <5>3. ASSUME NEW i \in p..(Len(writeChan) - 1)
              PROVE  rest[i] = writeChan[i + 1]
          <6>1. i - (p - 1) \in 1..(Len(writeChan) - p) /\ p + (i - (p - 1)) = i + 1
            BY <1>0, <4>1
          <6>2. /\ i \in 1..(Len(before) + Len(behind)) /\ ~(i <= Len(before))
                /\ i - Len(before) = i - (p - 1)
            BY <1>0, <4>1, <4>3, <4>4
          <6>3. rest[i] = behind[i - (p - 1)]
            BY <5>1, <6>2
          <6>4. behind[i - (p - 1)] = writeChan[p + (i - (p - 1))]
            BY <4>4, <6>1
          <6> QED
            BY <6>1, <6>3, <6>4
        <5> QED
          BY <1>0, <4>1, <4>3, <4>4, <5>1, <5>2, <5>3
      <4>7. ASSUME NEW i \in 1..Len(rest)
            PROVE  rest[i] = accepted[taken + i]
        BY <1>0, <2>2, <4>1, <4>6, <4>7 DEF Queued
      <4> QED
        BY <1>0, <2>2, <3>2, <4>6, <4>7 DEF Queued
    <3>3. CASE ~NilSent
      <4>1. p = Len(writeChan) + 1
        BY <1>0, <2>2, <3>3 DEF NilAt
      <4>2. rest = writeChan
        BY <1>0, <3>1, <4>1, RestAll DEF Types
      <4>3. writeChan \in Seq(Pkgs)
        BY <1>0, <3>1, <4>1, IsASeq DEF Types
      <4> HIDE DEF rest
      <4> QED
        BY <1>0, <2>2, <3>1, <3>3, <4>1, <4>2, <4>3 DEF Queued
    <3> QED
      BY <3>2, <3>3
  <2> HIDE DEF front, rest
  <2> DEFINE all == front \o rest
  <2>4. /\ all \in Seq(Pkgs) /\ Len(all) = Len(front) + Len(rest)
        /\ \A i \in 1..(Len(front) + Len(rest)) :
              all[i] = IF i <= Len(front) THEN front[i] ELSE rest[i - Len(front)]
    <3>1. front \in Seq(Pkgs) /\ rest \in Seq(Pkgs)
      BY <2>1, <2>3
    <3> QED
      BY <3>1, ConcatProperties
  <2> HIDE DEF all
  <2>5. \A i \in 1..Len(accepted) : all[i] = accepted[i]
    BY <1>0, <2>1, <2>3, <2>4
  <2>6. accepted = all
    <3>1. accepted \in Seq(Pkgs)
      BY DEF Types
    <3>2. Len(accepted) = Len(all)
      BY <1>0, <2>1, <2>3, <2>4
    <3> QED
      BY <2>4, <2>5, <3>1, <3>2, SeqEqual
  <2> QED
    BY <2>6 DEF all, front, rest
<1> QED
    BY <1>1, <1>2 DEF FirstInFirstOut

\* Packages reach the socket in the order in which writeChan took them and none
\* is lost until the writer leaves, wherever the reader's nil package falls
\* among those of the senders.
THEOREM PackagesKeepOrder == Spec => []FirstInFirstOut
BY InvAlways, Fifo, PTL

-----------------------------------------------------------------------------
(***************************************************************************)
(* What FlattenSeq, which puts the packages of the peer into one stream,   *)
(* computes.                                                               *)
(***************************************************************************)

\* Induction over data: a set of numbers that is not empty has a least element, so
\* what fails for some number has a first one to fail for.
LEMMA Least ==
  ASSUME NEW T, T \subseteq Nat, T # {} PROVE \E x \in T : \A y \in T : x <= y
<1> DEFINE R == OpToRel(<, Nat)
<1>1. IsWellFoundedOn(R, Nat)
  BY NatLessThanWellFounded
<1>3. \A x, y \in Nat : <<y, x>> \in R <=> y < x
  BY DEF R, OpToRel
<1> HIDE DEF R
<1>2. PICK x \in T : \A y \in T : ~(<<y, x>> \in R)
  BY <1>1, WFMin
<1>4. \A y \in T : x <= y
  <2>1. x \in Nat /\ \A y \in T : y \in Nat /\ ~(y < x)
    BY <1>2, <1>3, Zenon
  <2> QED
    BY <2>1
<1> QED
  BY <1>4

\* g is the function by which FlattenSeq is defined, on 1..n.
Unfolds(s, g, n) ==
  \A i \in 1..n : g[i] = IF i = 1 THEN s[i] ELSE g[i-1] \o s[i]

\* The recursive function that FlattenSeq defines exists: the first n where it did
\* not could be reached from n - 1.
LEMMA FlatExists ==
  ASSUME NEW S, NEW s \in Seq(Seq(S)), NEW n \in 0..Len(s)
  PROVE  \E g \in [1..n -> Seq(S)] : Unfolds(s, g, n)
<1> DEFINE P(m) == \E g \in [1..m -> Seq(S)] : Unfolds(s, g, m)
           T == {m \in Nat : m <= Len(s) /\ ~P(m)}
<1>1. SUFFICES ASSUME ~P(n) PROVE FALSE
  OBVIOUS
<1>2. n \in T
  BY <1>1
<1>3. PICK m \in T : \A k \in T : m <= k
  <2> HIDE DEF P
  <2> QED
    BY <1>2, Least
<1>4. m # 0
  <2>1. [i \in 1..0 |-> <<>>] \in [1..0 -> Seq(S)]
        /\ Unfolds(s, [i \in 1..0 |-> <<>>], 0)
    BY DEF Unfolds
  <2> QED
    BY <2>1
<1>5. m - 1 \in Nat /\ m - 1 <= Len(s) /\ m \in 1..Len(s)
  BY <1>4
<1>6. P(m - 1)
  <2> HIDE DEF P
  <2> QED
    BY <1>3, <1>5
<1>7. PICK g \in [1..(m - 1) -> Seq(S)] : Unfolds(s, g, m - 1)
  BY <1>6
<1> DEFINE h == [i \in 1..m |-> IF i < m THEN g[i]
                                ELSE IF m = 1 THEN s[m] ELSE g[m - 1] \o s[m]]
<1>8. h \in [1..m -> Seq(S)]
  <2>1. s[m] \in Seq(S)
    BY <1>5
  <2>2. m # 1 => g[m-1] \o s[m] \in Seq(S)
    BY <1>5, <1>7, <2>1
  <2> QED
    BY <1>5, <1>7, <2>1, <2>2
<1>9. Unfolds(s, h, m)
  <2> SUFFICES ASSUME NEW i \in 1..m
               PROVE  h[i] = IF i = 1 THEN s[i] ELSE h[i - 1] \o s[i]
    BY Zenon DEF Unfolds
  <2>0. \A k \in 1..m : k < m => h[k] = g[k]
    OBVIOUS
  <2>1. CASE i < m
    <3>1. i \in 1..(m - 1) /\ (i # 1 => i - 1 \in 1..m /\ i - 1 < m)
      BY <1>5, <2>1
    <3>2. g[i] = IF i = 1 THEN s[i] ELSE g[i - 1] \o s[i]
      BY <1>7, <3>1, Zenon DEF Unfolds
    <3> HIDE DEF h
    <3> QED
      BY <2>0, <2>1, <3>1, <3>2
  <2>2. CASE i = m /\ m = 1
    BY <1>5, <2>2
  <2>3. CASE i = m /\ m # 1
    <3>1. h[i] = g[m - 1] \o s[m]
      <4>1. ~(i < m) /\ m # 1
        BY <1>5, <2>3
      <4>2. h[i] = IF i < m THEN g[i] ELSE IF m = 1 THEN s[m] ELSE g[m - 1] \o s[m]
        BY Zenon
      <4> QED
        BY <4>1, <4>2, Zenon
    <3>2. m - 1 \in 1..m /\ m - 1 < m
      BY <1>5, <2>3
    <3> HIDE DEF h
    <3> QED
      BY <2>0, <2>3, <3>1, <3>2
  <2> QED
    BY <1>5, <2>1, <2>2, <2>3
<1>10. P(m)
  <2> HIDE DEF h 
  <2> QED
    BY <1>8, <1>9
<1> QED
  BY <1>10

\* There is one such function.
LEMMA FlatUnique ==
  ASSUME NEW s, NEW n \in Nat, NEW g, NEW h, Unfolds(s, g, n), Unfolds(s, h, n)
  PROVE  \A i \in 1..n : g[i] = h[i]
<1> DEFINE T == {i \in Nat : i \in 1..n /\ g[i] # h[i]}
<1>1. SUFFICES ASSUME T # {} PROVE FALSE
  OBVIOUS
<1>2. PICK m \in T : \A k \in T : m <= k
  <2> HIDE DEF T
  <2>1. T \subseteq Nat
    BY DEF T
  <2> QED
    BY <1>1, <2>1, Least
<1>3. CASE m = 1
  BY <1>2, <1>3 DEF Unfolds
<1>4. CASE m # 1
  <2>1. m - 1 \in 1..n /\ m - 1 \notin T
    BY <1>2, <1>4
  <2>2. g[m - 1] = h[m - 1]
    BY <2>1
  <2> QED
   BY <1>2, <1>4, <2>2 DEF Unfolds
<1> QED
  BY <1>3, <1>4

\* FlattenSeq gives the last value of that function.
LEMMA FlattenIs ==
  ASSUME NEW S, NEW s \in Seq(Seq(S)), s # <<>>
  PROVE \E h \in [1..Len(s) -> Seq(S)] :
          Unfolds(s, h, Len(s)) /\ FlattenSeq(s) = h[Len(s)]
<1> DEFINE f == CHOOSE f : f = [i \in 1..Len(s) |-> IF i = 1 THEN s[i] ELSE f[i-1] \o s[i]]
<1>1. PICK g \in [1..Len(s) -> Seq(S)] : Unfolds(s, g, Len(s))
  BY FlatExists
<1>2. g = [i \in 1..Len(s) |-> IF i = 1 THEN s[i] ELSE g[i-1] \o s[i]]
  BY <1>1 DEF Unfolds
<1>3. f = [i \in 1..Len(s) |-> IF i = 1 THEN s[i] ELSE f[i-1] \o s[i]]
  <2> HIDE <1>1
  <2> QED
    BY <1>2, Zenon
<1>4. FlattenSeq(s) = f[Len(s)]
  BY DEF FlattenSeq
<1> HIDE DEF f
<1>5. Unfolds(s, f, Len(s))
  BY <1>3 DEF Unfolds
<1>6. \A i \in 1..Len(s) : f[i] = g[i]
  BY <1>1, <1>5, FlatUnique
<1>7. f \in [1..Len(s) -> Seq(S)]
  BY <1>1, <1>3, <1>6
<1> QED
  BY <1>4, <1>5, <1>7

\* FlattenSeq, one sequence after the other.
LEMMA FlattenAppend ==
  ASSUME NEW S, NEW s \in Seq(Seq(S)), NEW e \in Seq(S)
  PROVE /\ FlattenSeq(s) \in Seq(S)
        /\ FlattenSeq(Append(s, e)) = FlattenSeq(s) \o e
<1> DEFINE t == Append(s, e)
<1>1. t \in Seq(Seq(S)) /\ t # <<>> /\ Len(t) = Len(s) + 1 /\ t[Len(s) + 1] = e
      /\ \A i \in 1..Len(s) : t[i] = s[i]
  BY AppendProperties
<1> HIDE DEF t
<1>2. PICK h \in [1..Len(t) -> Seq(S)] :
              Unfolds(t, h, Len(t)) /\ FlattenSeq(t) = h[Len(t)]
  BY <1>1, FlattenIs
<1>3. CASE s = <<>>
  <2>1. FlattenSeq(s) = <<>>
    BY <1>3 DEF FlattenSeq
  <2>2. FlattenSeq(t) = e
    BY <1>1, <1>2, <1>3 DEF Unfolds
  <2> QED
    BY <2>1, <2>2 DEF t
<1>4. CASE s # <<>>
  <2>1. PICK g \in [1..Len(s) -> Seq(S)] :
                Unfolds(s, g, Len(s)) /\ FlattenSeq(s) = g[Len(s)]
    BY <1>4, FlattenIs
  <2>2. Unfolds(s, h, Len(s))
    <3> SUFFICES ASSUME NEW i \in 1..Len(s)
                 PROVE  h[i] = IF i = 1 THEN s[i] ELSE h[i - 1] \o s[i]
      BY Zenon DEF Unfolds
    <3>1. i \in 1..Len(t) /\ t[i] = s[i]
      BY <1>1
    <3>2. h[i] = IF i = 1 THEN t[i] ELSE h[i - 1] \o t[i]
      BY <1>2, <3>1, Zenon DEF Unfolds
    <3> QED
      BY <3>1, <3>2
  <2>3. g[Len(s)] = h[Len(s)] /\ Len(s) \in 1..Len(s)
    BY <1>4, <2>1, <2>2, FlatUnique
  <2>4. h[Len(t)] = h[Len(s)] \o e
    <3>1. Len(t) \in 1..Len(t) /\ Len(t) # 1 /\ Len(t) - 1 = Len(s)
      BY <1>1, <2>3
    <3>2. h[Len(t)] = IF Len(t) = 1 THEN t[Len(t)] ELSE h[Len(t) - 1] \o t[Len(t)]
      BY <1>2, <3>1, Zenon DEF Unfolds
    <3> QED
      BY <1>1, <3>1, <3>2
  <2> QED
    BY <1>2, <2>1, <2>3, <2>4 DEF t
<1> QED
  BY <1>3, <1>4

-----------------------------------------------------------------------------
(***************************************************************************)
(* The codec.                                                              *)
(***************************************************************************)

\* Lengths below Width are not wrapped.
LEMMA SmallMod ==
  ASSUME NEW n \in Nat, NEW w \in Nat, n < w PROVE n % w = n
OBVIOUS

\* Where the elements of a concatenation are.
LEMMA ConcatAt ==
  ASSUME NEW S, NEW s \in Seq(S), NEW t \in Seq(S)
  PROVE  /\ s \o t \in Seq(S) /\ Len(s \o t) = Len(s) + Len(t)
         /\ \A i \in 1..Len(s) : (s \o t)[i] = s[i]
         /\ \A i \in 1..Len(t) : (s \o t)[Len(s) + i] = t[i]
<1> DEFINE u == s \o t
<1>1. /\ u \in Seq(S) /\ Len(u) = Len(s) + Len(t)
      /\ \A i \in 1..(Len(s) + Len(t)) :
                u[i] = IF i <= Len(s) THEN s[i] ELSE t[i - Len(s)]
      /\ Len(s) \in Nat /\ Len(t) \in Nat
  BY ConcatProperties
<1> HIDE DEF u
<1>2. ASSUME NEW i \in 1..Len(s) PROVE u[i] = s[i]
  BY <1>1
<1>3. ASSUME NEW i \in 1..Len(t) PROVE u[Len(s) + i] = t[i]
  <2>1. /\ Len(s) + i \in 1..(Len(s) + Len(t)) /\ ~(Len(s) + i <= Len(s))
        /\ (Len(s) + i) - Len(s) = i
    BY <1>1
  <2> QED
    BY <1>1, <2>1
<1> QED
  BY <1>1, <1>2, <1>3 DEF u

\* The bytes of a package whose length does not wrap.
LEMMA EncodeIs ==
  ASSUME NEW p, Fits(p)
  PROVE  LET e == Encode(p) h == Len(p.head) b == Len(p.body) IN
         /\ e \in Seq(Nat) /\ Len(e) = PrefixLen + h + b + 1
         /\ e[1] = STX /\ e[2] = p.format /\ e[3] = h /\ e[4] = b
         /\ \A i \in 1..h : e[PrefixLen + i] = p.head[i]
         /\ \A i \in 1..b : e[PrefixLen + h + i] = p.body[i]
         /\ e[Len(e)] = ETX
<1> DEFINE x == p.head  y == p.body  h == Len(x)  b == Len(y)
           front == <<STX, p.format, h % Width, b % Width>>
           fh == front \o x
           fhb == fh \o y
           e == fhb \o <<ETX>>
<1>1. /\ x \in Seq(Nat) /\ y \in Seq(Nat) /\ p.format \in Nat
      /\ h \in Nat /\ b \in Nat
  BY DEF Fits, Package
<1>2. h < Width /\ b < Width
  <2> HIDE DEF h, b, x, y
  <2>1. PrefixLen + h + b + 1 < Width
    BY DEF Fits, h, b, x, y
  <2> QED
    BY <1>1, <2>1, WidthAssumption DEF PrefixLen
<1>0. Encode(p) = e
  BY DEF Encode, e, fhb, fh, front
<1>l. Len(x) = h /\ Len(y) = b
  OBVIOUS
<1> HIDE DEF h, b, x, y
<1>3. h % Width = h /\ b % Width = b
  BY <1>1, <1>2, WidthAssumption, SmallMod
<1>4. front \in Seq(Nat) /\ Len(front) = 4 /\ front[1] = STX /\ front[2] = p.format
      /\ front[3] = h /\ front[4] = b
  BY <1>1, <1>3 DEF STX
<1> HIDE DEF front
<1>5. /\ fh \in Seq(Nat) /\ Len(fh) = 4 + h
      /\ \A i \in 1..4 : fh[i] = front[i]
      /\ \A i \in 1..h : fh[4 + i] = x[i]
  <2>1. /\ fh \in Seq(Nat) /\ Len(fh) = Len(front) + Len(x)
        /\ \A i \in 1..Len(front) : fh[i] = front[i]
        /\ \A i \in 1..Len(x) : fh[Len(front) + i] = x[i]
    <3>1. front \in Seq(Nat) /\ x \in Seq(Nat)
      BY <1>1, <1>4
    <3> QED
      BY <3>1, ConcatAt
  <2> HIDE DEF fh
  <2> QED
    BY <1>l, <1>4, <2>1
<1> HIDE DEF fh
<1>6. /\ fhb \in Seq(Nat) /\ Len(fhb) = 4 + h + b
      /\ \A i \in 1..(4 + h) : fhb[i] = fh[i]
      /\ \A i \in 1..b : fhb[4 + h + i] = y[i]
  <2>1. /\ fhb \in Seq(Nat) /\ Len(fhb) = Len(fh) + Len(y)
        /\ \A i \in 1..Len(fh) : fhb[i] = fh[i]
        /\ \A i \in 1..Len(y) : fhb[Len(fh) + i] = y[i]
    <3>1. fh \in Seq(Nat) /\ y \in Seq(Nat)
      BY <1>1, <1>5
    <3> QED
      BY <3>1, ConcatAt
  <2> HIDE DEF fhb
  <2> QED
    BY <1>l, <1>5, <2>1
<1> HIDE DEF fhb
<1>7. <<ETX>> \in Seq(Nat) /\ Len(<<ETX>>) = 1 /\ <<ETX>>[1] = ETX
  BY DEF ETX
<1>8. /\ e \in Seq(Nat) /\ Len(e) = 4 + h + b + 1
      /\ \A i \in 1..(4 + h + b) : e[i] = fhb[i]
      /\ \A i \in 1..1 : e[4 + h + b + i] = <<ETX>>[i]
  BY <1>6, <1>7, ConcatAt
<1> HIDE DEF e
<1>9. /\ e[1] = STX /\ e[2] = p.format /\ e[3] = h /\ e[4] = b
  <2>1. ASSUME NEW i \in 1..4 PROVE e[i] = front[i]
    <3>1. i \in 1..(4 + h) /\ i \in 1..(4 + h + b)
      BY <1>1
    <3>2. e[i] = fhb[i]
      BY <1>8, <3>1
    <3>3. fhb[i] = fh[i]
      BY <1>6, <3>1
    <3>4. fh[i] = front[i]
      BY <1>5
    <3> QED
      BY <3>2, <3>3, <3>4
  <2>2. e[1] = front[1] /\ e[2] = front[2] /\ e[3] = front[3] /\ e[4] = front[4]
    BY <2>1
  <2> QED
    BY <1>4, <2>2
<1>10. ASSUME NEW i \in 1..h PROVE e[4 + i] = x[i]
  <2>1. 4 + i \in 1..(4 + h) /\ 4 + i \in 1..(4 + h + b)
    BY <1>1
  <2> QED
    BY <1>5, <1>6, <1>8, <2>1
<1>11. ASSUME NEW i \in 1..b PROVE e[4 + h + i] = y[i]
  <2>1. 4 + h + i \in 1..(4 + h + b)
    BY <1>1
  <2> QED
    BY <1>6, <1>8, <2>1
<1>12. e[Len(e)] = ETX
  BY <1>7, <1>8
<1> QED
  BY <1>0, <1>8, <1>9, <1>10, <1>11, <1>12 DEF h, b, x, y, PrefixLen

\* Where the elements of a subsequence are.
LEMMA SubSeqIs ==
  ASSUME NEW S, NEW s \in Seq(S), NEW a \in Nat, NEW n \in Nat, a + n <= Len(s)
  PROVE  /\ SubSeq(s, a + 1, a + n) \in Seq(S) /\ Len(SubSeq(s, a + 1, a + n)) = n
         /\ \A i \in 1..n : SubSeq(s, a + 1, a + n)[i] = s[a + i]
<1> DEFINE u == SubSeq(s, a + 1, a + n)
<1>1. \A i \in (a + 1)..(a + n) : s[i] \in S
  OBVIOUS
<1>2. /\ u \in Seq(S)
      /\ Len(u) = IF a + 1 <= a + n THEN (a + n) - (a + 1) + 1 ELSE 0
      /\ \A i \in 1..((a + n) - (a + 1) + 1) : u[i] = s[(a + 1) + i - 1]
  BY <1>1, SubSeqProperties
<1> HIDE DEF u
<1>3. (a + n) - (a + 1) + 1 = n /\ \A i \in 1..n : (a + 1) + i - 1 = a + i
  OBVIOUS
<1>4. Len(u) = n
  BY <1>2
<1>5. ASSUME NEW i \in 1..n PROVE u[i] = s[a + i]
  BY <1>2, <1>3
<1> QED
  BY <1>2, <1>4, <1>5 DEF u

\* Decode inverts Encode, whatever bytes head and body have, and the length that Read
\* computes from a prefix is the number of bytes written, as long as it does not
\* wrap.
THEOREM CodecRoundTrip ==
  ASSUME NEW p, Fits(p)
  PROVE  Decode(Encode(p)) = p /\ PkgLen(Encode(p)) = Len(Encode(p))
<1> DEFINE e == Encode(p) h == Len(p.head) b == Len(p.body)
<1>1. /\ e \in Seq(Nat) /\ Len(e) = PrefixLen + h + b + 1
      /\ e[1] = STX /\ e[2] = p.format /\ e[3] = h /\ e[4] = b
      /\ \A i \in 1..h : e[PrefixLen + i] = p.head[i]
      /\ \A i \in 1..b : e[PrefixLen + h + i] = p.body[i]
  BY EncodeIs
<1>2. p.head \in Seq(Nat) /\ p.body \in Seq(Nat) /\ h \in Nat /\ b \in Nat
      /\ p = [format |-> p.format, head |-> p.head, body |-> p.body]
      /\ PrefixLen + h + b + 1 < Width
  BY DEF Fits, Package
<1> HIDE DEF e
<1>l. h = Len(p.head) /\ b = Len(p.body)
  OBVIOUS
<1> HIDE DEF h, b
<1> DEFINE m == PrefixLen + 1 + h + b
<1>3. PkgLen(e) = Len(e)
  <2>1. m \in Nat /\ m < Width /\ m = PrefixLen + h + b + 1
    BY <1>2 DEF PrefixLen
  <2>2. PkgLen(e) = m % Width
    BY <1>1 DEF PkgLen
  <2> HIDE DEF m
  <2> QED
    BY <1>1, <2>1, <2>2, SmallMod, WidthAssumption
<1> DEFINE hd == SubSeq(e, PrefixLen + 1, PrefixLen + h)
           bd == SubSeq(e, PrefixLen + h + 1, PrefixLen + h + b)
<1>n. e \in Seq(Nat) /\ PrefixLen \in Nat /\ PrefixLen + h \in Nat
      /\ h \in Nat /\ b \in Nat
      /\ PrefixLen + h <= Len(e)
      /\ PrefixLen + h + b <= Len(e)
  <2>1. e \in Seq(Nat) /\ Len(e) = PrefixLen + h + b + 1
    BY <1>1
  <2>2. h \in Nat /\ b \in Nat
    BY <1>2
  <2> HIDE DEF hd, bd, m
  <2> QED
    BY <2>1, <2>2 DEF PrefixLen
<1>4. hd = p.head
  <2>1. /\ hd \in Seq(Nat) /\ Len(hd) = h
        /\ \A i \in 1..h : hd[i] = e[PrefixLen + i]
    BY <1>n, SubSeqIs
  <2> HIDE DEF hd
  <2>2. \A i \in 1..Len(hd) : hd[i] = p.head[i]
    BY <1>1, <2>1
  <2> QED
    BY <1>2, <1>l, <2>1, <2>2, SeqEqual
<1>5. bd = p.body
  <2>1. /\ bd \in Seq(Nat) /\ Len(bd) = b
        /\ \A i \in 1..b : bd[i] = e[PrefixLen + h + i]
    BY <1>n, SubSeqIs
  <2> HIDE DEF bd
  <2>2. \A i \in 1..Len(bd) : bd[i] = p.body[i]
    BY <1>1, <2>1
  <2> QED
    BY <1>2, <1>l, <2>1, <2>2, SeqEqual
<1>6. Decode(e) = [format |-> p.format, head |-> hd, body |-> bd]
  BY <1>1 DEF Decode
<1> QED
  BY <1>2, <1>3, <1>4, <1>5, <1>6 DEF e

-----------------------------------------------------------------------------
(***************************************************************************)
(* The stream of the peer and where Read stands in it.                     *)
(***************************************************************************)

\* The bytes of the first k packages, of all, and those that follow the first n
\* bytes of package k + 1.
Encoded(k) == [i \in 1..k |-> Encode(Peer[i])]
Upto(k) == FlattenSeq(Encoded(k))
Stream == Upto(Len(Peer))
Behind(k, n) == SubSeq(Stream, Len(Upto(k)) + n + 1, Len(Stream))

\* As long as no prefix was cut, Read stands at the beginning of a package, or
\* behind its prefix, and has dispatched the packages before it.
InStep ==
    ~cut =>
        LET k == Len(dispatched) IN
        /\ dispatched \in Seq(Package) /\ k <= Len(Peer)
        /\ \A i \in 1..k : dispatched[i] = Peer[i]
        /\ reader \in {"none", "read"} => incoming = Behind(k, 0)
        /\ reader = "rest" =>
              /\ k < Len(Peer) /\ incoming = Behind(k, PrefixLen)
              /\ prefix \in Seq(Nat) /\ Len(prefix) = PrefixLen
              /\ \A j \in 1..PrefixLen : prefix[j] = Encode(Peer[k + 1])[j]

\* A package more.
LEMMA UptoNext ==
  ASSUME PeerFits, NEW k \in 0..Len(Peer)
  PROVE  /\ Upto(k) \in Seq(Nat)
         /\ k < Len(Peer) => Upto(k + 1) = Upto(k) \o Encode(Peer[k + 1])
<1>1. \A i \in 1..Len(Peer) : Encode(Peer[i]) \in Seq(Nat)
  BY EncodeIs DEF PeerFits
<1>2. Len(Peer) \in Nat
  BY DEF PeerFits
<1>3. Encoded(k) \in Seq(Seq(Nat)) /\ Len(Encoded(k)) = k
  BY <1>1, <1>2 DEF Encoded
<1>4. Upto(k) \in Seq(Nat)
  <2>1. <<>> \in Seq(Nat)
    OBVIOUS
  <2> QED
    BY <1>3, <2>1, FlattenAppend DEF Upto
<1>5. ASSUME k < Len(Peer) PROVE Upto(k + 1) = Upto(k) \o Encode(Peer[k + 1])
  <2> DEFINE e == Encode(Peer[k + 1])
  <2>1. e \in Seq(Nat)
    BY <1>1, <1>2, <1>5
  <2>2. Encoded(k + 1) = Append(Encoded(k), e)
    <3> DEFINE s == Encoded(k) t == Encoded(k + 1) u == Append(s, e)
    <3>1. /\ t \in Seq(Seq(Nat)) /\ Len(t) = k + 1
          /\ \A i \in 1..(k + 1) : t[i] = Encode(Peer[i])
      BY <1>1, <1>2, <1>5 DEF Encoded
    <3>2. \A i \in 1..k : s[i] = Encode(Peer[i])
      BY DEF Encoded
    <3> HIDE DEF s, t, e
    <3>3. u \in Seq(Seq(Nat)) /\ Len(u) = k + 1 /\ u[k + 1] = e
          /\ \A i \in 1..k : u[i] = s[i]
      BY <1>3, <2>1, AppendProperties DEF s
    <3> HIDE DEF u
    <3>4. ASSUME NEW i \in 1..Len(t) PROVE t[i] = u[i]
      <4>1. CASE i = k + 1
        BY <3>1, <3>3, <4>1 DEF e
      <4>2. CASE i \in 1..k
        BY <3>1, <3>2, <3>3, <4>2
      <4> QED
        BY <1>2, <3>1, <4>1, <4>2
    <3>5. t = u
      BY <3>1, <3>3, <3>4, SeqEqual
    <3> QED
      BY <3>5 DEF s, t, u
  <2> HIDE DEF e
  <2>3. FlattenSeq(Append(Encoded(k), e)) = FlattenSeq(Encoded(k)) \o e
    BY <1>3, <2>1, FlattenAppend
  <2> QED
    BY <2>2, <2>3 DEF Upto, e
<1> QED
  BY <1>4, <1>5

\* The stream begins with the first k packages.
LEMMA UptoPrefix ==
  ASSUME PeerFits, NEW k \in 0..Len(Peer)
  PROVE  /\ Len(Upto(k)) <= Len(Stream)
         /\ \A j \in 1..Len(Upto(k)) : Stream[j] = Upto(k)[j]
<1> DEFINE P(m) == /\ Len(Upto(m)) <= Len(Stream)
                   /\ \A j \in 1..Len(Upto(m)) : Stream[j] = Upto(m)[j]
           N == Len(Peer)
           T == {d \in Nat : d <= N /\ ~P(N - d)}
<1>0. N \in Nat
  BY DEF PeerFits
<1> HIDE DEF P, N
<1>1. SUFFICES ASSUME ~P(k) PROVE FALSE
  BY DEF P
<1>2. N - k \in Nat /\ N - k <= N /\ N - (N - k) = k
  BY <1>0 DEF N
<1>3. N - k \in T
  BY <1>1, <1>2
<1>4. PICK d \in T : \A c \in T : d <= c
  BY <1>3, Least
<1>5. d \in Nat /\ d <= N /\ ~P(N - d)
  BY <1>4
<1>6. d # 0
  <2>1. P(N)
    BY <1>0, UptoNext DEF P, N, Stream
  <2> QED
    BY <1>0, <1>5, <2>1
<1> DEFINE m == N - d
<1>7. /\ m \in 0..N /\ m < N /\ m + 1 \in 0..N
      /\ d - 1 \in Nat /\ d - 1 <= N /\ N - (d - 1) = m + 1
  BY <1>0, <1>5, <1>6
<1>8. P(m + 1)
  <2>1. d - 1 \notin T
    BY <1>4, <1>7
  <2> QED
    BY <1>7, <2>1
<1>9. ~P(m)
  BY <1>5
<1> HIDE DEF m, T
<1>10. /\ Upto(m) \in Seq(Nat) /\ Upto(m + 1) \in Seq(Nat) /\ Stream \in Seq(Nat)
       /\ Upto(m + 1) = Upto(m) \o Encode(Peer[m + 1])
       /\ Encode(Peer[m + 1]) \in Seq(Nat)
  <2>1. /\ m \in 0..Len(Peer) /\ m + 1 \in 0..Len(Peer) /\ m < Len(Peer)
        /\ Len(Peer) \in 0..Len(Peer)
    BY <1>0, <1>7 DEF N
  <2>2. m + 1 \in 1..Len(Peer)
    BY <2>1
  <2>3. Encode(Peer[m + 1]) \in Seq(Nat)
    BY <2>2, EncodeIs DEF PeerFits
  <2> QED
    BY <2>1, <2>3, UptoNext DEF Stream
<1> DEFINE u == Upto(m) v == Upto(m + 1) e == Encode(Peer[m + 1])
<1>11. /\ Len(v) = Len(u) + Len(e) /\ \A i \in 1..Len(u) : v[i] = u[i]
       /\ Len(u) \in Nat /\ Len(e) \in Nat /\ Len(Stream) \in Nat
  BY <1>10, ConcatAt
<1>12. Len(v) <= Len(Stream) /\ \A j \in 1..Len(v) : Stream[j] = v[j]
  BY <1>8 DEF P
<1>13. Len(u) <= Len(Stream) /\ \A j \in 1..Len(u) : Stream[j] = u[j]
  <2> HIDE DEF u, v, e
  <2> QED
    BY <1>11, <1>12
<1> QED
  BY <1>9, <1>13 DEF P

\* Where the bytes of package k + 1 are in the stream.
LEMMA PackageInStream ==
  ASSUME PeerFits, NEW k \in 0..(Len(Peer) - 1)
  PROVE  LET e == Encode(Peer[k + 1]) IN
         /\ Len(Upto(k + 1)) = Len(Upto(k)) + Len(e)
         /\ Len(Upto(k)) + Len(e) <= Len(Stream)
         /\ \A j \in 1..Len(e) : Stream[Len(Upto(k)) + j] = e[j]
<1> DEFINE u == Upto(k) v == Upto(k + 1) e == Encode(Peer[k + 1])
<1>1. k \in 0..Len(Peer) /\ k + 1 \in 0..Len(Peer) /\ k < Len(Peer)
      /\ k + 1 \in 1..Len(Peer)
  BY DEF PeerFits
<1>2. u \in Seq(Nat) /\ v = u \o e /\ v \in Seq(Nat)
  BY <1>1, UptoNext
<1>3. e \in Seq(Nat)
  BY <1>1, EncodeIs DEF PeerFits
<1>4. Len(v) <= Len(Stream) /\ \A j \in 1..Len(v) : Stream[j] = v[j]
  BY <1>1, UptoPrefix
<1> HIDE DEF u, v, e
<1>5. Len(v) = Len(u) + Len(e) /\ \A i \in 1..Len(e) : v[Len(u) + i] = e[i]
  BY <1>2, <1>3, ConcatAt
<1>6. Len(u) \in Nat /\ Len(e) \in Nat
      /\ \A i \in 1..Len(e) : Len(u) + i \in 1..Len(v)
  BY <1>2, <1>3, <1>5
<1> QED
  BY <1>4, <1>5, <1>6 DEF u, v, e
\* No more is read than is wanted and there is.
LEMMA MinIs ==
  ASSUME NEW a \in Nat, NEW b \in Nat, NEW n \in 1..Min({a, b})
  PROVE  n <= a /\ n <= b
<1>1. \E x \in {a, b} : \A y \in {a, b} : x <= y
  <2>1. CASE a <= b
    BY <2>1
  <2>2. CASE b <= a
    BY <2>2
  <2> QED
    BY <2>1, <2>2
<1>2. Min({a, b}) \in {a, b} /\ \A y \in {a, b} : Min({a, b}) <= y
  BY <1>1 DEF Min
<1> QED
  BY <1>2

\* Where the elements of the rest of a sequence are.
LEMMA RestIs ==
  ASSUME NEW S, NEW s \in Seq(S), NEW n \in Nat, n <= Len(s)
  PROVE  LET t == SubSeq(s, n + 1, Len(s)) IN
         /\ t \in Seq(S) /\ Len(t) = Len(s) - n
         /\ \A i \in 1..(Len(s) - n) : t[i] = s[n + i]
<1>1. PICK d \in Nat : n + d = Len(s) /\ d = Len(s) - n
  <2>1. Len(s) \in Nat
    OBVIOUS
  <2>2. Len(s) - n \in Nat /\ n + (Len(s) - n) = Len(s)
    BY <2>1
  <2> QED
    BY <2>2
<1>2. n + d <= Len(s)
  BY <1>1
<1>3. /\ SubSeq(s, n + 1, n + d) \in Seq(S) /\ Len(SubSeq(s, n + 1, n + d)) = d
      /\ \A i \in 1..d : SubSeq(s, n + 1, n + d)[i] = s[n + i]
  BY <1>2, SubSeqIs
<1> QED
  BY <1>1, <1>3

\* Reading n bytes behind the first a of a stream.
LEMMA ReadOn ==
  ASSUME NEW s \in Seq(Nat), NEW a \in Nat, a <= Len(s),
         NEW n \in Nat, a + n <= Len(s)
  PROVE  LET t == SubSeq(s, a + 1, Len(s)) IN
         /\ Len(t) = Len(s) - a
         /\ SubSeq(t, n + 1, Len(t)) = SubSeq(s, a + n + 1, Len(s))
         /\ SubSeq(t, 1, n) \in Seq(Nat) /\ Len(SubSeq(t, 1, n)) = n
         /\ \A i \in 1..n : SubSeq(t, 1, n)[i] = s[a + i]
<1> DEFINE L == Len(s)  t == SubSeq(s, a + 1, L)
           u == SubSeq(t, n + 1, Len(t))  v == SubSeq(s, a + n + 1, L)
           w == SubSeq(t, 1, n)
<1>0. L \in Nat /\ Len(s) = L
  OBVIOUS
<1>1. t \in Seq(Nat) /\ Len(t) = L - a /\ \A i \in 1..(L - a) : t[i] = s[a + i]
  BY RestIs
<1>2. v \in Seq(Nat) /\ Len(v) = L - a - n
      /\ \A i \in 1..(L - a - n) : v[i] = s[a + n + i]
  <2>1. PICK m \in Nat : m = a + n /\ m <= Len(s)
    OBVIOUS
  <2>2. L - m = L - a - n
    BY <1>0, <2>1
  <2>3. LET r == SubSeq(s, m + 1, Len(s)) IN
        r \in Seq(Nat) /\ Len(r) = L - m /\ \A i \in 1..(L - m) : r[i] = s[m + i]
    BY <2>1, RestIs
  <2> QED
    BY <2>1, <2>2, <2>3
<1> HIDE DEF L, t, v
<1>t. t \in Seq(Nat) /\ n <= Len(t) /\ Len(t) = L - a
  BY <1>0, <1>1
<1>3. u \in Seq(Nat) /\ Len(u) = L - a - n
      /\ \A i \in 1..(L - a - n) : u[i] = t[n + i]
  <2>1. u \in Seq(Nat) /\ Len(u) = Len(t) - n
        /\ \A i \in 1..(Len(t) - n) : u[i] = t[n + i]
    BY <1>t, RestIs
  <2> QED
    BY <1>t, <2>1
<1>4. w \in Seq(Nat) /\ Len(w) = n /\ \A i \in 1..n : w[i] = t[i]
  <2>1. 0 \in Nat /\ 0 + n <= Len(t)
    BY <1>0, <1>1 DEF L
  <2>2. LET r == SubSeq(t, 0 + 1, 0 + n) IN
        r \in Seq(Nat) /\ Len(r) = n /\ \A i \in 1..n : r[i] = t[0 + i]
    BY <1>1, <2>1, SubSeqIs
  <2> QED
    BY <2>2
<1> HIDE DEF u, w
<1>5. u = v
  <2>1. ASSUME NEW i \in 1..Len(u) PROVE u[i] = v[i]
    <3>1. i \in 1..(L - a - n) /\ n + i \in 1..(L - a) /\ a + (n + i) = a + n + i
      BY <1>0, <1>3
    <3> QED
      BY <1>1, <1>2, <1>3, <3>1
  <2> QED
    BY <1>2, <1>3, <2>1, SeqEqual
<1>6. ASSUME NEW i \in 1..n PROVE w[i] = s[a + i]
  <2>1. i \in 1..(L - a)
    BY <1>0 DEF L
  <2> QED
    BY <1>1, <1>4, <2>1
<1> QED
  BY <1>1, <1>4, <1>5, <1>6 DEF L, t, u, v, w

\* At first nothing is dispatched and the whole stream is to come.
LEMMA InStepInit == PeerFits /\ Init => InStep
<1> SUFFICES ASSUME PeerFits, Init PROVE InStep
  OBVIOUS
<1>1. Len(Peer) \in Nat /\ DOMAIN Peer = 1..Len(Peer)
  BY DEF PeerFits
<1>2. Upto(0) = <<>>
  BY DEF Upto, Encoded, FlattenSeq
<1>3. incoming = Stream
  BY <1>1 DEF Init, Stream, Upto, Encoded
<1>4. Stream \in Seq(Nat)
  BY <1>1, UptoNext DEF Stream
<1>5. Behind(0, 0) = Stream
  <2>1. Behind(0, 0) = SubSeq(Stream, 1, Len(Stream))
    BY <1>2 DEF Behind
  <2> HIDE DEF Stream
  <2>2. SubSeq(Stream, 1, Len(Stream)) = Stream
    BY <1>4
  <2> QED
    BY <2>1, <2>2
<1> QED
  BY <1>1, <1>3, <1>5 DEF Init, InStep

\* A prefix that is read whole is that of the next package.
LEMMA PrefixStep == PeerFits /\ InStep /\ ReadPrefix => InStep'
<1> SUFFICES ASSUME PeerFits, InStep, ReadPrefix, ~cut' PROVE InStep'
  BY DEF InStep
<1> DEFINE k == Len(dispatched)  e == Encode(Peer[k + 1])  a == Len(Upto(k))
<1>1. PICK n \in 1..Min({PrefixLen, Len(incoming)}) :
          /\ prefix' = Got(n, PrefixLen)
          /\ incoming' = SubSeq(incoming, n + 1, Len(incoming))
          /\ cut' = (cut \/ n < PrefixLen)
  BY DEF ReadPrefix
<1>2. ~cut /\ ~(n < PrefixLen)
  <2>1. cut' <=> (cut \/ n < PrefixLen)
    BY <1>1, Zenon
  <2> QED
    BY <2>1
<1>3. /\ dispatched \in Seq(Package) /\ k <= Len(Peer)
      /\ \A i \in 1..k : dispatched[i] = Peer[i]
      /\ incoming = Behind(k, 0) /\ dispatched' = dispatched
      /\ reader' \in {"rest", "close"}
  BY <1>2 DEF ReadPrefix, InStep
<1>4. k \in 0..Len(Peer) /\ Len(Peer) \in Nat
  BY <1>3 DEF PeerFits
<1> HIDE DEF k
<1>5. /\ Upto(k) \in Seq(Nat) /\ a \in Nat /\ a <= Len(Stream)
      /\ Stream \in Seq(Nat) /\ Len(Stream) \in Nat
  BY <1>4, UptoNext, UptoPrefix DEF Stream
<1> HIDE DEF a
<1>6. incoming = SubSeq(Stream, a + 1, Len(Stream))
  BY <1>3, <1>5 DEF Behind, a
<1>7. Len(incoming) = Len(Stream) - a
  <2>1. 0 \in Nat /\ a + 0 <= Len(Stream)
    BY <1>5
  <2> QED
    BY <1>5, <1>6, <2>1, ReadOn
<1>8. n = PrefixLen /\ n <= Len(incoming) /\ n \in Nat
  <2>1. PrefixLen \in Nat /\ Len(incoming) \in Nat
    BY <1>5, <1>7 DEF PrefixLen
  <2>2. n <= PrefixLen /\ n <= Len(incoming)
    BY <2>1, MinIs
  <2>3. n \in Nat
    OBVIOUS
  <2> QED
    BY <1>2, <2>1, <2>2, <2>3
<1>9. k < Len(Peer)
  <2>1. ASSUME k = Len(Peer) PROVE FALSE
    <3>1. a = Len(Stream)
      BY <2>1 DEF a, Stream
    <3> QED
      BY <1>5, <1>7, <1>8, <3>1 DEF PrefixLen
  <2> QED
    BY <1>4, <2>1
<1>10. k \in 0..(Len(Peer) - 1) /\ k + 1 \in 1..Len(Peer)
  BY <1>4, <1>9
<1>11. \A j \in 1..Len(e) : Stream[a + j] = e[j]
  BY <1>10, PackageInStream DEF a
<1>12. PrefixLen <= Len(e)
  <2>1. Fits(Peer[k + 1])
    BY <1>10 DEF PeerFits
  <2>2. Len(e) = PrefixLen + Len(Peer[k + 1].head) + Len(Peer[k + 1].body) + 1
    BY <2>1, EncodeIs
  <2> DEFINE h == Len(Peer[k + 1].head)  b == Len(Peer[k + 1].body)
  <2>3. h \in Nat /\ b \in Nat /\ Len(e) = PrefixLen + h + b + 1
    BY <2>1, <2>2 DEF Fits, Package
  <2> HIDE DEF e, h, b
  <2> QED
    BY <2>3 DEF PrefixLen
<1> HIDE DEF e
<1>13. a + n <= Len(Stream)
  BY <1>5, <1>7, <1>8
<1>14. /\ incoming' = SubSeq(Stream, a + n + 1, Len(Stream))
       /\ SubSeq(incoming, 1, n) \in Seq(Nat) /\ Len(SubSeq(incoming, 1, n)) = n
       /\ \A i \in 1..n : SubSeq(incoming, 1, n)[i] = Stream[a + i]
  <2>a. /\ Stream \in Seq(Nat) /\ a \in Nat /\ a <= Len(Stream)
        /\ n \in Nat /\ a + n <= Len(Stream)
    BY <1>5, <1>8, <1>13
  <2> HIDE DEF Stream
  <2>1. LET t == SubSeq(Stream, a + 1, Len(Stream)) IN
         /\ SubSeq(t, n + 1, Len(t)) = SubSeq(Stream, a + n + 1, Len(Stream))
         /\ SubSeq(t, 1, n) \in Seq(Nat) /\ Len(SubSeq(t, 1, n)) = n
         /\ \A i \in 1..n : SubSeq(t, 1, n)[i] = Stream[a + i]
    BY <2>a, ReadOn
  <2> QED
    BY <1>1, <1>6, <2>1
<1> DEFINE p == SubSeq(incoming, 1, n)
<1>15. prefix' = p
  <2>1. Zeros(PrefixLen - n) = <<>>
    BY <1>8 DEF Zeros
  <2>2. p \in Seq(Nat)
    BY <1>14
  <2> HIDE DEF p
  <2>3. p \o <<>> = p
    BY <2>2, ConcatEmptySeq
  <2> QED
    BY <1>1, <2>1, <2>3 DEF Got, p
<1>16. /\ prefix' \in Seq(Nat) /\ Len(prefix') = PrefixLen
       /\ \A j \in 1..PrefixLen : prefix'[j] = e[j]
  <2> HIDE DEF p
  <2>1. \A j \in 1..PrefixLen : j \in 1..n /\ j \in 1..Len(e)
    <3>1. PrefixLen \in Nat
      BY DEF PrefixLen
    <3>2. Len(e) \in Nat
      <4>1. e \in Seq(Nat)
        BY <1>10, EncodeIs DEF e, PeerFits
      <4> QED
        BY <4>1
    <3> QED
      BY <1>8, <1>12, <3>1, <3>2
  <2> QED
    BY <1>8, <1>11, <1>14, <1>15, <2>1 DEF p
<1>17. incoming' = Behind(k, PrefixLen)
  BY <1>8, <1>14 DEF Behind, a
<1> QED
  BY <1>3, <1>4, <1>9, <1>16, <1>17 DEF InStep, k, e
\* Read appends the next package to what it has dispatched, or gives up: when fewer
\* bytes than wanted have come the slice ends in a zero, which is not ETX.
LEMMA RestStep == PeerFits /\ InStep /\ ReadRest => InStep'
<1> SUFFICES ASSUME PeerFits, InStep, ReadRest, ~cut' PROVE InStep'
  BY DEF InStep
<1> DEFINE k == Len(dispatched)  e == Encode(Peer[k + 1])  a == Len(Upto(k))
           b == a + PrefixLen
<1>1. /\ reader = "rest" /\ ~cut /\ UNCHANGED prefix
      /\ dispatched \in Seq(Package) /\ k < Len(Peer)
      /\ \A i \in 1..k : dispatched[i] = Peer[i]
      /\ incoming = Behind(k, PrefixLen)
      /\ prefix \in Seq(Nat) /\ Len(prefix) = PrefixLen
      /\ \A j \in 1..PrefixLen : prefix[j] = e[j]
  BY DEF ReadRest, InStep
<1>2. PICK n \in Portions :
          LET data == prefix \o Got(n, Want) IN
          /\ incoming' = SubSeq(incoming, n + 1, Len(incoming))
          /\ IF data[Len(data)] = ETX
             THEN reader' = "read" /\ dispatched' = Append(dispatched, Decode(data))
             ELSE reader' = "close" /\ UNCHANGED dispatched
  BY DEF ReadRest
<1>3. CASE reader' = "close"
  <2>1. UNCHANGED dispatched
    BY <1>2, <1>3
  <2> QED
    BY <1>1, <1>3, <2>1 DEF InStep, PeerFits
<1> SUFFICES ASSUME reader' # "close" PROVE InStep'
  BY <1>3
<1> DEFINE data == prefix \o Got(n, Want)
<1>4. /\ incoming' = SubSeq(incoming, n + 1, Len(incoming))
      /\ data[Len(data)] = ETX
      /\ reader' = "read" /\ dispatched' = Append(dispatched, Decode(data))
  BY <1>2
<1>5. /\ k \in 0..(Len(Peer) - 1) /\ k \in 0..Len(Peer) /\ Len(Peer) \in Nat
      /\ k + 1 \in 1..Len(Peer)
  BY <1>1 DEF PeerFits
<1>6. Fits(Peer[k + 1])
  BY <1>5 DEF PeerFits
<1> HIDE DEF k
<1>7. /\ Upto(k) \in Seq(Nat) /\ a \in Nat /\ Stream \in Seq(Nat)
      /\ Len(Stream) \in Nat
  BY <1>5, UptoNext DEF Stream
<1>8. /\ e \in Seq(Nat) /\ Len(e) \in Nat /\ PrefixLen + 1 <= Len(e)
      /\ PkgLen(e) = Len(e) /\ Decode(e) = Peer[k + 1]
  <2> DEFINE h == Len(Peer[k + 1].head)  c == Len(Peer[k + 1].body)
  <2>1. h \in Nat /\ c \in Nat /\ Len(e) = PrefixLen + h + c + 1 /\ e \in Seq(Nat)
    <3>1. Peer[k + 1] \in Package /\ h \in Nat /\ c \in Nat
      BY <1>6 DEF Fits, Package
    <3> QED
      BY <1>6, <3>1, EncodeIs
  <2>2. PkgLen(e) = Len(e) /\ Decode(e) = Peer[k + 1]
    BY <1>6, CodecRoundTrip
  <2> HIDE DEF e, h, c
  <2> QED
    BY <2>1, <2>2 DEF PrefixLen
<1>9. /\ Len(Upto(k + 1)) = a + Len(e) /\ a + Len(e) <= Len(Stream)
      /\ \A j \in 1..Len(e) : Stream[a + j] = e[j]
  BY <1>5, PackageInStream
<1> HIDE DEF a, e
<1>10. Want = Len(e) - PrefixLen /\ Want \in Nat /\ Want # 0
  <2>1. prefix[3] = e[3] /\ prefix[4] = e[4]
    BY <1>1 DEF PrefixLen
  <2>2. PkgLen(prefix) = PkgLen(e)
    BY <2>1 DEF PkgLen
  <2> QED
    BY <1>8, <2>2 DEF Want, PrefixLen
<1>11. b \in Nat /\ b <= Len(Stream)
       /\ incoming = SubSeq(Stream, b + 1, Len(Stream))
  <2>1. b \in Nat /\ b <= Len(Stream)
    BY <1>7, <1>8, <1>9 DEF PrefixLen
  <2> QED
    BY <1>1, <2>1 DEF Behind, a
<1>12. Len(incoming) = Len(Stream) - b
  <2>1. 0 \in Nat /\ b + 0 <= Len(Stream)
    BY <1>11
  <2> HIDE DEF b
  <2> QED
    BY <1>7, <1>11, <2>1, ReadOn
<1>13. n \in Nat /\ n <= Want /\ n <= Len(incoming)
  <2>1. Len(incoming) \in Nat
    BY <1>7, <1>11, <1>12
  <2>2. n \in 1..Min({Want, Len(incoming)})
    BY <1>10 DEF Portions
  <2> QED
    BY <1>10, <2>1, <2>2, MinIs
<1>14. b + n <= Len(Stream)
  BY <1>7, <1>11, <1>12, <1>13
<1> DEFINE p == SubSeq(incoming, 1, n)  z == Zeros(Want - n)
<1>15. /\ incoming' = SubSeq(Stream, b + n + 1, Len(Stream))
       /\ p \in Seq(Nat) /\ Len(p) = n
       /\ \A i \in 1..n : p[i] = Stream[b + i]
  <2> HIDE DEF Stream, b
  <2>1. LET t == SubSeq(Stream, b + 1, Len(Stream)) IN
         /\ SubSeq(t, n + 1, Len(t)) = SubSeq(Stream, b + n + 1, Len(Stream))
         /\ SubSeq(t, 1, n) \in Seq(Nat) /\ Len(SubSeq(t, 1, n)) = n
         /\ \A i \in 1..n : SubSeq(t, 1, n)[i] = Stream[b + i]
    <3>1. /\ Stream \in Seq(Nat) /\ b \in Nat /\ b <= Len(Stream)
          /\ n \in Nat /\ b + n <= Len(Stream)
      BY <1>7, <1>11, <1>13, <1>14
    <3> QED
      BY <3>1, ReadOn
  <2> QED
    BY <1>4, <1>11, <2>1
<1>16. /\ z \in Seq(Nat) /\ Len(z) = Want - n /\ \A i \in 1..(Want - n) : z[i] = 0
  BY <1>10, <1>13 DEF Zeros
<1> DEFINE g == p \o z
<1>17. data = prefix \o g
  BY DEF Got
<1> HIDE DEF p, z, data
<1>18. /\ g \in Seq(Nat) /\ Len(g) = n + (Want - n)
       /\ \A i \in 1..n : g[i] = p[i]
       /\ \A i \in 1..(Want - n) : g[n + i] = z[i]
  <2>1. /\ p \in Seq(Nat) /\ z \in Seq(Nat)
    BY <1>15, <1>16
  <2>2. /\ g \in Seq(Nat) /\ Len(g) = Len(p) + Len(z)
        /\ \A i \in 1..Len(p) : g[i] = p[i]
        /\ \A i \in 1..Len(z) : g[Len(p) + i] = z[i]
    BY <2>1, ConcatAt
  <2> HIDE DEF g
  <2> QED
    BY <1>15, <1>16, <2>2
<1> HIDE DEF g
<1>19. Len(g) = Want
  BY <1>10, <1>13, <1>18
<1>20. /\ data \in Seq(Nat) /\ Len(data) = PrefixLen + Want
       /\ \A i \in 1..PrefixLen : data[i] = prefix[i]
       /\ \A i \in 1..Want : data[PrefixLen + i] = g[i]
  <2>1. LET d == prefix \o g IN
        /\ d \in Seq(Nat) /\ Len(d) = Len(prefix) + Len(g)
        /\ \A i \in 1..Len(prefix) : d[i] = prefix[i]
        /\ \A i \in 1..Len(g) : d[Len(prefix) + i] = g[i]
    <3>1. prefix \in Seq(Nat) /\ g \in Seq(Nat)
      BY <1>1, <1>18
    <3> QED
      BY <3>1, ConcatAt
  <2> QED
    BY <1>1, <1>17, <1>19, <2>1
<1>21. n = Want
  <2>1. ASSUME n < Want PROVE FALSE
    <3>1. Want \in 1..Want /\ Want - n \in 1..(Want - n) /\ n + (Want - n) = Want
      BY <1>10, <1>13, <2>1
    <3>2. data[PrefixLen + Want] = g[n + (Want - n)]
      BY <1>20, <3>1
    <3>3. g[n + (Want - n)] = 0
      BY <1>16, <1>18, <3>1
    <3> QED
      BY <1>4, <1>20, <3>2, <3>3 DEF ETX
  <2> QED
    BY <1>10, <1>13, <2>1
<1>22. data = e
  <2>1. Len(data) = Len(e)
    BY <1>8, <1>10, <1>20 DEF PrefixLen
  <2>2. ASSUME NEW i \in 1..Len(e) PROVE data[i] = e[i]
    <3>1. CASE i \in 1..PrefixLen
      BY <1>1, <1>20, <3>1
    <3>2. CASE i \notin 1..PrefixLen
      <4> DEFINE j == i - PrefixLen
      <4>1. j \in 1..Want /\ j \in 1..n /\ PrefixLen + j = i /\ b + j = a + i
        BY <1>7, <1>8, <1>10, <1>21, <3>2 DEF PrefixLen
      <4> HIDE DEF j, b
      <4>2. data[i] = g[j]
        BY <1>20, <4>1
      <4>3. g[j] = Stream[a + i]
        BY <1>15, <1>18, <4>1
      <4> QED
        BY <1>9, <4>2, <4>3
    <3> QED
      BY <3>1, <3>2
  <2> QED
    BY <1>8, <1>20, <2>1, <2>2, SeqEqual
<1>23. dispatched' = Append(dispatched, Peer[k + 1]) /\ Peer[k + 1] \in Package
  BY <1>4, <1>6, <1>8, <1>22 DEF Fits
<1>24. /\ dispatched' \in Seq(Package) /\ Len(dispatched') = k + 1
       /\ \A i \in 1..(k + 1) : dispatched'[i] = Peer[i]
  <2>1. /\ dispatched' \in Seq(Package) /\ Len(dispatched') = Len(dispatched) + 1
        /\ \A i \in 1..Len(dispatched) : dispatched'[i] = dispatched[i]
        /\ dispatched'[Len(dispatched) + 1] = Peer[k + 1]
    BY <1>1, <1>23, AppendProperties
  <2> QED
    BY <1>1, <1>5, <2>1 DEF k
<1>25. incoming' = Behind(k + 1, 0)
  <2> DEFINE c == Len(Upto(k + 1))
  <2>1. b + n = c + 0
    <3>1. c = a + Len(e)
      BY <1>9
    <3> HIDE DEF c
    <3> QED
      BY <1>7, <1>8, <1>10, <1>21, <3>1 DEF PrefixLen
  <2> QED
    BY <1>15, <2>1 DEF Behind
<1>26. k + 1 <= Len(Peer) /\ reader' = "read"
  BY <1>4, <1>5
<1> HIDE DEF b, e, a
<1> QED
  BY <1>24, <1>25, <1>26 DEF InStep

\* Every step keeps the reader in step with the stream.
LEMMA InStepStep == PeerFits /\ InStep /\ NotYet /\ [Next]_vars => InStep'
<1> SUFFICES ASSUME PeerFits, InStep, NotYet, [Next]_vars PROVE InStep'
  OBVIOUS
<1>1. CASE ReadPrefix
  BY <1>1, PrefixStep
<1>2. CASE ReadRest
  BY <1>2, RestStep
<1>3. CASE /\ UNCHANGED stream
           /\ reader' = reader \/ reader' \notin {"none", "read", "rest"}
              \/ (reader = "none" /\ reader' = "read")
  BY <1>3 DEF InStep, Behind, Upto, Encoded, Stream, stream
<1> QED
  BY <1>1, <1>2, <1>3
   DEF Next, vars, NotYet, Opener, Reader, Writer, Closer, Sender, DialOk,
       StartReader, StartWriter, MarkOpen, ReadFails, ReaderMarks, ReaderCloses,
       ReaderSendsNil, ReaderClosesChan, WriterTakes, WriteOk, WriteFails,
       CloserMarks, CloserCloses, Send, Push, Panic

\* In step, the handler has had the first packages of the other side.
LEMMA Prefixed == PeerFits /\ InStep => WholePackages
<1> SUFFICES ASSUME PeerFits, InStep, ~cut PROVE IsPrefix(dispatched, Peer)
  BY Zenon DEF WholePackages
<1> DEFINE k == Len(dispatched)
<1>1. /\ dispatched \in Seq(Package) /\ k <= Len(Peer) /\ k \in Nat
      /\ \A i \in 1..k : dispatched[i] = Peer[i]
  BY DEF InStep
<1>2. Peer \in Seq(Package)
  BY DEF PeerFits
<1> HIDE DEF k
<1> DEFINE d == SubSeq(dispatched, 1, k)  p == SubSeq(Peer, 1, k)
<1>3. /\ d \in Seq(Package) /\ Len(d) = k /\ \A i \in 1..k : d[i] = dispatched[i]
  <2>1. 0 \in Nat /\ 0 + k <= Len(dispatched)
    BY <1>1 DEF k
  <2>2. LET t == SubSeq(dispatched, 0 + 1, 0 + k) IN
        t \in Seq(Package) /\ Len(t) = k /\ \A i \in 1..k : t[i] = dispatched[0 + i]
    BY <1>1, <2>1, SubSeqIs
  <2> QED
    BY <1>1, <2>2
<1>4. /\ p \in Seq(Package) /\ Len(p) = k /\ \A i \in 1..k : p[i] = Peer[i]
  <2>1. 0 \in Nat /\ 0 + k <= Len(Peer)
    BY <1>1
  <2>2. LET t == SubSeq(Peer, 0 + 1, 0 + k) IN
        t \in Seq(Package) /\ Len(t) = k /\ \A i \in 1..k : t[i] = Peer[0 + i]
    BY <1>1, <1>2, <2>1, SubSeqIs
  <2> QED
    BY <1>1, <2>2
<1> HIDE DEF d, p
<1>5. d = p
  <2>1. Len(d) = Len(p) /\ \A i \in 1..Len(d) : d[i] = p[i]
    BY <1>1, <1>3, <1>4
  <2> QED
    BY <1>3, <1>4, <2>1, SeqEqual
<1>6. SubSeq(dispatched, 1, k) = SubSeq(Peer, 1, k)
  BY <1>5 DEF d, p
<1>7. Len(dispatched) <= Len(Peer)
  BY <1>1 DEF k
<1>8. IsPrefix(dispatched, Peer)
  BY <1>6, <1>7 DEF IsPrefix, k
<1> QED
  BY <1>8

\* However TCP cuts the stream into reads, and whatever bytes the packages have,
\* the handler is given the packages of the other side, unaltered and in order;
\* only a read that ends within a prefix breaks this.  The length of a package must
\* not wrap.
THEOREM PackagesArriveWhole ==
    ASSUME PeerFits
    PROVE  Spec => []WholePackages
<1>1. Init => InStep
  BY InStepInit
<1>2. InStep /\ NotYet /\ [Next]_vars => InStep'
  BY InStepStep
<1>3. InStep => WholePackages
  BY Prefixed
<1>4. Inv => NotYet
  BY DEF Inv
<1> QED
  BY <1>1, <1>2, <1>3, <1>4, InvAlways, PTL DEF Spec
=============================================================================
