----------------------------- MODULE EasyConnection -----------------------------
(***************************************************************************)
(* One EasyConnection: the reader goroutine, the writer goroutine that     *)
(* drains writeChan into the socket, the goroutines that Send, one that    *)
(* closes the connection (GenericPool.Close), and the goroutine that       *)
(* brings the connection up: Server.CreateServer, which makes it open, or  *)
(* Connect, which starts the two goroutines and marks it open afterwards.  *)
(* The nil package is the writer's order to exit.                          *)
(*                                                                         *)
(* TCP is external: a read gives what has arrived, at least a byte, and    *)
(* may end in the middle of a package.                                     *)
(***************************************************************************)
EXTENDS EasyPackage, SequencesExt

(* An operator that stands just before the definition it resembles is a bug
   that definition could have, used to test that a property notices it. *)

CONSTANTS
    QueueSize, \* EASYCALL_WRITE_QUEUE_SIZE
    Senders,   \* goroutines that call Send
    MaxSends,  \* bound on the calls of Send in a behaviour
    Nil,       \* the nil package
    Peer       \* the packages that the other side sends, in order

Pkgs == 1..MaxSends
NoPkg == 0

ASSUME ConnectionAssumption ==
    /\ QueueSize \in Nat \ {0} /\ MaxSends \in Nat
    /\ Nil \notin Nat

\* The other side sends packages whose lengths do not wrap.
PeerFits == Peer \in Seq(Package) /\ \A i \in 1..Len(Peer) : Fits(Peer[i])

VARIABLES
    dialed,     \* made by Connect, not accepted by a Server
    isClose,    \* EasyConnection.isClose
    socket,     \* the TCP socket: "open" or "closed" by this side
    writeChan,  \* the packages queued in writeChan
    chanState,  \* writeChan is "nil", "open" or "closed"
    opener,     \* where the goroutine that brings the connection up stands
    reader,     \* where Read stands
    incoming,   \* the bytes that Read has yet to get
    prefix,     \* Read's prefetch
    dispatched, \* the packages that the handler was given, in order
    cut,        \* auxiliary: has a read of a prefix ended in the middle?
    writer,     \* where Write stands
    inHand,     \* the package the writer is writing
    closer,     \* where the caller of Close stands
    sender,     \* where a caller of Send stands
    sending,    \* the package it sends
    accepted,   \* the packages that writeChan has taken, in order
    written     \* the packages the socket has taken, in order

stream == <<incoming, prefix, dispatched, cut>>
queue == <<writeChan, chanState>>
sends == <<sender, sending, accepted>>
output == <<writer, inHand, written>>
vars == <<dialed, isClose, socket, queue, opener, reader, stream, output, closer, sends>>

-----------------------------------------------------------------------------
\* &EasyConnection{isClose: true, writeChan: nil, ...} in ServiceClient, or
\* the connection that a Server has accepted.
Init ==
    /\ dialed \in BOOLEAN
    /\ isClose = dialed
    /\ socket = IF dialed THEN "none" ELSE "open"
    /\ chanState = IF dialed THEN "nil" ELSE "open"
    /\ opener = IF dialed THEN "dial" ELSE "goRead"
    /\ writeChan = <<>>
    /\ reader = "none" /\ writer = "none" /\ inHand = NoPkg
    /\ incoming = FlattenSeq([i \in DOMAIN Peer |-> Encode(Peer[i])])
    /\ prefix = <<>> /\ dispatched = <<>> /\ cut = FALSE
    /\ closer = "idle"
    /\ sender = [g \in Senders |-> "idle"]
    /\ sending = [g \in Senders |-> NoPkg]
    /\ accepted = <<>> /\ written = <<>>

-----------------------------------------------------------------------------
(***************************************************************************)
(* Connect, or the accept loop of a Server.                                *)
(***************************************************************************)

DialOk ==
    /\ opener = "dial"
    /\ socket' = "open" /\ chanState' = "open"
    /\ opener' = "goRead"
    /\ UNCHANGED <<dialed, isClose, writeChan, reader, stream, output, closer,
                   sends>>

StartReader ==
    /\ opener = "goRead"
    /\ reader' = "read"
    /\ opener' = "goWrite"
    /\ UNCHANGED <<dialed, isClose, socket, queue, stream, output, closer,
                   sends>>

StartWriter ==
    /\ opener = "goWrite"
    /\ writer' = "take"
    /\ opener' = IF dialed THEN "mark" ELSE "done"
    /\ UNCHANGED <<dialed, isClose, socket, queue, reader, stream, inHand,
                   written, closer, sends>>

MarkOpen ==
    /\ opener = "mark"
    /\ isClose' = FALSE
    /\ opener' = "done"
    /\ UNCHANGED <<dialed, socket, queue, reader, stream, output, closer,
                   sends>>

-----------------------------------------------------------------------------
(***************************************************************************)
(* Read dispatches the packages of the stream; an error, a bad package or  *)
(* a panic leads to the deferred Close, nil package and close of the       *)
(* channel.  Close is two steps: isClose, then the socket.                 *)
(***************************************************************************)

\* What n bytes of the stream make of a slice of the given length.
Got(n, length) == SubSeq(incoming, 1, n) \o Zeros(length - n)

ReadPrefix ==
    /\ reader = "read"
    /\ \E n \in 1..Min({PrefixLen, Len(incoming)}) :
          /\ prefix' = Got(n, PrefixLen)
          /\ incoming' = SubSeq(incoming, n + 1, Len(incoming))
          /\ cut' = (cut \/ n < PrefixLen)
    /\ reader' = IF Acceptable(prefix') THEN "rest" ELSE "close"
    /\ UNCHANGED <<dialed, isClose, socket, queue, opener, dispatched, output,
                   closer, sends>>

Want == PkgLen(prefix) - PrefixLen

\* The number of bytes that a read of the rest may give.
Portions == IF Want = 0 THEN {0} ELSE 1..Min({Want, Len(incoming)})

ReadRestTestsLastRead ==
    /\ reader = "rest" /\ Want >= 0
    /\ \E n \in Portions :
          LET data == prefix \o Got(n, Want) IN
          /\ incoming' = SubSeq(incoming, n + 1, Len(incoming))
          /\ IF data[PrefixLen + n] = ETX
             THEN reader' = "read" /\ dispatched' = Append(dispatched, Decode(data))
             ELSE reader' = "close" /\ UNCHANGED dispatched
    /\ UNCHANGED <<dialed, isClose, socket, queue, opener, prefix, cut, output,
                   closer, sends>>

\* A read that gives less than it could leaves zeros at the end.
ReadRest ==
    /\ reader = "rest" /\ Want >= 0
    /\ \E n \in Portions :
          LET data == prefix \o Got(n, Want) IN
          /\ incoming' = SubSeq(incoming, n + 1, Len(incoming))
          /\ IF data[Len(data)] = ETX
             THEN reader' = "read" /\ dispatched' = Append(dispatched, Decode(data))
             ELSE reader' = "close" /\ UNCHANGED dispatched
    /\ UNCHANGED <<dialed, isClose, socket, queue, opener, prefix, cut, output,
                   closer, sends>>

\* An error of the socket, the end of the stream, or the panic of a slice that
\* the wrapped length makes too short.
ReadFails ==
    /\ reader \in {"read", "rest"}
    /\ reader' = "close"
    /\ UNCHANGED <<dialed, isClose, socket, queue, opener, stream, output, closer,
                   sends>>

ReaderMarks ==
    /\ reader = "close"
    /\ isClose' = TRUE
    /\ reader' = IF isClose THEN "sentinel" ELSE "closeSocket"
    /\ UNCHANGED <<dialed, socket, queue, opener, stream, output, closer,
                   sends>>

ReaderClosesNot ==
    /\ reader = "closeSocket"
    /\ reader' = "sentinel"
    /\ UNCHANGED <<dialed, isClose, socket, queue, opener, stream, output,
                   closer, sends>>

ReaderCloses ==
    /\ reader = "closeSocket"
    /\ socket' = "closed"
    /\ reader' = "sentinel"
    /\ UNCHANGED <<dialed, isClose, queue, opener, stream, output, closer,
                   sends>>

HasRoom == Len(writeChan) < QueueSize

\* writeChan <- nil blocks while the queue is full.
ReaderSendsNil ==
    /\ reader = "sentinel"
    /\ HasRoom
    /\ writeChan' = Append(writeChan, Nil)
    /\ reader' = "closeChan"
    /\ UNCHANGED <<dialed, isClose, socket, chanState, opener, stream, output,
                   closer, sends>>

ReaderClosesChan ==
    /\ reader = "closeChan"
    /\ chanState' = "closed"
    /\ reader' = "done"
    /\ UNCHANGED <<dialed, isClose, socket, writeChan, opener, stream, output,
                   closer, sends>>

-----------------------------------------------------------------------------
(***************************************************************************)
(* Write: nil, a closed channel or an error of the socket ends it.         *)
(***************************************************************************)

WriterTakesLast ==
    /\ writer = "take" /\ writeChan # <<>>
    /\ LET item == writeChan[Len(writeChan)] IN
          IF item = Nil
          THEN writer' = "done" /\ UNCHANGED inHand
          ELSE writer' = "write" /\ inHand' = item
    /\ writeChan' = SubSeq(writeChan, 1, Len(writeChan) - 1)
    /\ UNCHANGED <<dialed, isClose, socket, chanState, opener, reader, stream,
                   written, closer, sends>>

\* A closed and empty channel gives nil too; the writer has always left by then,
\* since the reader's nil package comes first.
WriterTakes ==
    /\ writer = "take"
    /\ writeChan # <<>> \/ chanState = "closed"
    /\ IF writeChan = <<>> \/ Head(writeChan) = Nil
       THEN writer' = "done" /\ UNCHANGED inHand
       ELSE writer' = "write" /\ inHand' = Head(writeChan)
    /\ writeChan' = IF writeChan = <<>> THEN <<>> ELSE Tail(writeChan)
    /\ UNCHANGED <<dialed, isClose, socket, chanState, opener, reader, stream,
                   written, closer, sends>>

WriteOk ==
    /\ writer = "write" /\ socket = "open"
    /\ written' = Append(written, inHand)
    /\ inHand' = NoPkg
    /\ writer' = "take"
    /\ UNCHANGED <<dialed, isClose, socket, queue, opener, reader, stream,
                   closer, sends>>

\* The socket is closed, or the peer has gone.
WriteFails ==
    /\ writer = "write"
    /\ inHand' = NoPkg
    /\ writer' = "done"
    /\ UNCHANGED <<dialed, isClose, socket, queue, opener, reader, stream,
                   written, closer, sends>>

-----------------------------------------------------------------------------
(***************************************************************************)
(* Close by its user, and Send.  A client gets the connection that Connect *)
(* has brought up; a server's handler gets it with the first package that  *)
(* the reader dispatches.                                                  *)
(***************************************************************************)

HandedOut == IF dialed THEN opener = "done" ELSE dispatched # <<>>

CloserMarks ==
    /\ closer = "idle" /\ HandedOut
    /\ closer' = IF isClose THEN "done" ELSE "closeSocket"
    /\ isClose' = TRUE
    /\ UNCHANGED <<dialed, socket, queue, opener, reader, stream, output,
                   sends>>

CloserCloses ==
    /\ closer = "closeSocket"
    /\ socket' = "closed"
    /\ closer' = "done"
    /\ UNCHANGED <<dialed, isClose, queue, opener, reader, stream, output,
                   sends>>

Used == {sending[g] : g \in Senders} \cup
        {accepted[i] : i \in 1..Len(accepted)}

\* A Send on a connection that is marked closed returns at once.
Send(g, pkg) ==
    /\ sender[g] = "idle" /\ HandedOut
    /\ ~isClose
    /\ pkg \notin Used /\ \A other \in 1..(pkg - 1) : other \in Used
    /\ sender' = [sender EXCEPT ![g] = "push"]
    /\ sending' = [sending EXCEPT ![g] = pkg]
    /\ UNCHANGED <<dialed, isClose, socket, queue, opener, reader, stream,
                   output, closer, accepted>>

Push(g) ==
    /\ sender[g] = "push"
    /\ chanState = "open" /\ HasRoom
    /\ writeChan' = Append(writeChan, sending[g])
    /\ accepted' = Append(accepted, sending[g])
    /\ sender' = [sender EXCEPT ![g] = "idle"]
    /\ sending' = [sending EXCEPT ![g] = NoPkg]
    /\ UNCHANGED <<dialed, isClose, socket, chanState, opener, reader, stream,
                   output, closer>>

\* A send on a closed channel.
Panic(g) ==
    /\ sender[g] = "push"
    /\ chanState = "closed"
    /\ sender' = [sender EXCEPT ![g] = "panicked"]
    /\ UNCHANGED <<dialed, isClose, socket, queue, opener, reader, stream,
                   output, closer, sending, accepted>>

-----------------------------------------------------------------------------
Opener == DialOk \/ StartReader \/ StartWriter \/ MarkOpen

Reader ==
    \/ ReadPrefix \/ ReadRest \/ ReadFails
    \/ ReaderMarks \/ ReaderCloses \/ ReaderSendsNil \/ ReaderClosesChan

Writer == WriterTakes \/ WriteOk \/ WriteFails

Closer == CloserMarks \/ CloserCloses

Sender(g) == (\E pkg \in Pkgs : Send(g, pkg)) \/ Push(g) \/ Panic(g)

Next == Opener \/ Reader \/ Writer \/ Closer \/ \E g \in Senders : Sender(g)

\* A goroutine runs until it blocks.  Nobody has to read a bad frame, to call
\* Send or to call Close.
Fairness ==
    /\ WF_vars(Opener)
    /\ WF_vars(ReaderMarks \/ ReaderCloses \/ ReaderSendsNil \/ ReaderClosesChan)
    /\ WF_vars(Writer)
    /\ WF_vars(CloserCloses)

Spec == Init /\ [][Next]_vars /\ Fairness

-----------------------------------------------------------------------------
\* The packages of a queue that the reader's one nil package may be in.
Rest(s) == RemoveFirst(s, Nil)

InHand == IF inHand = NoPkg THEN <<>> ELSE <<inHand>>

\* Packages reach the socket in the order in which writeChan took them,
\* whatever the senders, the nil package and a failing write do; until the
\* writer exits none is lost.
FirstInFirstOut ==
    /\ \A i \in 1..Len(written) : written[i] = accepted[i]
    /\ writer # "done" => accepted = written \o InHand \o Rest(writeChan)

\* No goroutine that sends runs into the channel its reader has closed ("tcp
\* connection is closed,can't send pkg", easy_connection.go:38).
NoPanic == \A g \in Senders : sender[g] # "panicked"

\* The clean-up that the reader begins ends: the reader and the writer leave and
\* an accepted connection gives its socket back.  Only a writer that died of a
\* socket error and left a full queue behind keeps the reader: then nobody makes
\* room for the nil package.
CleanupEnds ==
    reader = "close" ~>
        /\ writer = "done" /\ (dialed \/ socket = "closed")
        /\ reader = "done" \/ (reader = "sentinel" /\ ~HasRoom)

\* The handler gets the packages that the other side has sent, unaltered and in
\* order, wherever TCP cuts a package behind its prefix and whatever bytes it
\* has: a package that is cut ends the connection.
WholePackages == cut \/ IsPrefix(dispatched, Peer)
=============================================================================
