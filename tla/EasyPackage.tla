------------------------------ MODULE EasyPackage ------------------------------
(***************************************************************************)
(* The bytes of a package: a prefix with STX, the format and the lengths   *)
(* of head and body, then the head, the body and ETX.  A length is one     *)
(* byte here, of Width values, where the code has a uint32 of four; head   *)
(* and body are the bytes that msgpack or json made of them.               *)
(***************************************************************************)
EXTENDS Integers, Sequences

CONSTANTS
    Width,        \* the number of values of a length
    HEAD_MAX_LEN,
    BODY_MAX_LEN

ASSUME WidthAssumption == Width \in Nat \ {0} /\ HEAD_MAX_LEN \in Nat /\ BODY_MAX_LEN \in Nat

STX == 2
ETX == 3
Formats == {0, 1}

PrefixLen == 4

\* EncodeWithBody, EncodeWithBodyData.
Encode(pkg) ==
    <<STX, pkg.format, Len(pkg.head) % Width, Len(pkg.body) % Width>>
        \o pkg.head \o pkg.body \o <<ETX>>

\* What Read makes of a prefix.  The limit of the body is held against the
\* length of the head.
Acceptable(prefix) ==
    /\ prefix[1] = STX /\ prefix[2] \in Formats
    /\ prefix[3] <= HEAD_MAX_LEN
    /\ prefix[3] <= BODY_MAX_LEN

PkgLen(prefix) == (PrefixLen + 1 + prefix[3] + prefix[4]) % Width

\* DecodeWithBodyData, DecodeWithBody.
Decode(data) ==
    LET head == PrefixLen + data[3] IN
    [format |-> data[2], head |-> SubSeq(data, PrefixLen + 1, head),
     body |-> SubSeq(data, head + 1, head + data[4])]

\* The packages, and those whose lengths do not wrap.
Package == [format : Nat, head : Seq(Nat), body : Seq(Nat)]

Fits(pkg) ==
    pkg \in Package /\ PrefixLen + Len(pkg.head) + Len(pkg.body) + 1 < Width

Zeros(n) == [i \in 1..n |-> 0]
=============================================================================
