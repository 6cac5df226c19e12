------------------------------- MODULE Frames -------------------------------
(***************************************************************************)
(* Byte streams of messages with a length in front, as the harbor, the     *)
(* gate and the netpack library read them.  A body is made of numbers that *)
(* say which message they belong to and where.                             *)
(***************************************************************************)
EXTENDS Naturals, Sequences, SequencesExt

\* v written with n digits, most significant first, and back.
Digits(v, base, n) == [i \in 1 .. n |-> (v \div base ^ (n - i)) % base]
Number(digits, base) == FoldLeft(LAMBDA v, d : v * base + d, 0, digits)

\* The k-th message of a stream.
Body(k, length) == [j \in 1 .. length |-> 100 * k + j]

\* The stream of messages with these lengths, each with n digits in front.
Framed(lengths, base, n) ==
  FlattenSeq([k \in DOMAIN lengths |-> Digits(lengths[k], base, n) \o Body(k, lengths[k])])

First(s, k) == SubSeq(s, 1, IF k < Len(s) THEN k ELSE Len(s))
Drop(s, k) == SubSeq(s, k + 1, Len(s))
=============================================================================
