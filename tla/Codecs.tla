------------------------------- MODULE Codecs -------------------------------
(***************************************************************************)
(* Two encodings. The serialisation of the arguments of every Lua message  *)
(* (lua-seri.cpp). A byte has BASE values where the code has 256, a header *)
(* MAX_COOKIE cookies where it has 32, a block BLOCK_SIZE bytes where it   *)
(* has 128, and tables are at most MAX_DEPTH deep. Numbers that are not    *)
(* integers and pointers are copied as they are, and are left out. The     *)
(* second: the packing of zero bytes in sproto (sproto_pack and            *)
(* sproto_unpack of sproto.c), with segments of SEG bytes where the code   *)
(* has 8, and at most RUN of them, where the code has 256, in a run of     *)
(* segments that are copied as they are. A step packs one segment; when    *)
(* all are packed, a step unpacks what belongs to one header.              *)
(***************************************************************************)
EXTENDS Integers, Sequences, SequencesExt

CONSTANTS BASE, MAX_COOKIE, BLOCK_SIZE, MAX_DEPTH,
          Value     \* the lists of arguments that are packed

SeriAssumption ==
  /\ {BASE, BLOCK_SIZE} \subseteq Nat \ {0, 1} /\ MAX_DEPTH \in Nat
  /\ MAX_COOKIE \in 2 .. 32 /\ MAX_COOKIE < BASE ^ 2

VARIABLES
  value,     \* the arguments
  block,     \* what was written, in blocks
  stream,    \* the bytes of the message
  result,    \* the arguments that were unpacked
  mode       \* "pack", "seri", "unpack", "end", "deep" or "invalid"

vars == <<value, block, stream, result, mode>>

Nil == [t |-> "nil"]
Integer(v) == [t |-> "int", v |-> v]

COMBINE_TYPE(t, v) == t + 8 * v
TYPE_NIL == 0
TYPE_BOOLEAN == 1
TYPE_NUMBER == 2
TYPE_SHORT_STRING == 4
TYPE_LONG_STRING == 5
TYPE_TABLE == 6

\* The w lowest bytes of v, and the number that w bytes are, without or with a sign
Bytes(v, w) == [i \in 1 .. w |-> (v \div BASE ^ (i - 1)) % BASE]
Unsigned(s) == FoldRight(LAMBDA b, acc : b + BASE * acc, s, 0)
Signed(s) ==
  LET u == Unsigned(s) IN IF 2 * u >= BASE ^ Len(s) THEN u - BASE ^ Len(s) ELSE u

-----------------------------------------------------------------------------
\* Packing.  An error, a table that is too deep, is the sequence <<-1>>.

wb_integer(v) ==
  CASE v = 0 -> <<COMBINE_TYPE(TYPE_NUMBER, 0)>>
    [] v # 0 /\ v # Signed(Bytes(v, 4)) -> <<COMBINE_TYPE(TYPE_NUMBER, 6)>> \o Bytes(v, 8)
    [] v < 0 /\ v = Signed(Bytes(v, 4)) -> <<COMBINE_TYPE(TYPE_NUMBER, 4)>> \o Bytes(v, 4)
    [] v > 0 /\ v < BASE -> <<COMBINE_TYPE(TYPE_NUMBER, 1)>> \o Bytes(v, 1)
    [] v >= BASE /\ v < BASE ^ 2 -> <<COMBINE_TYPE(TYPE_NUMBER, 2)>> \o Bytes(v, 2)
    [] OTHER -> <<COMBINE_TYPE(TYPE_NUMBER, 4)>> \o Bytes(v, 4)

wb_string(s) ==
  CASE Len(s) < MAX_COOKIE -> <<COMBINE_TYPE(TYPE_SHORT_STRING, Len(s))>> \o s
    [] Len(s) >= MAX_COOKIE /\ Len(s) < BASE ^ 2 ->
         <<COMBINE_TYPE(TYPE_LONG_STRING, 2)>> \o Bytes(Len(s), 2) \o s
    [] OTHER -> <<COMBINE_TYPE(TYPE_LONG_STRING, 4)>> \o Bytes(Len(s), 4) \o s

\* Mutant: an array of MAX_COOKIE - 1 values has its length in the cookie.
MutArrayHead(n) ==
  IF n >= MAX_COOKIE THEN <<COMBINE_TYPE(TYPE_TABLE, MAX_COOKIE - 1)>> \o wb_integer(n)
                     ELSE <<COMBINE_TYPE(TYPE_TABLE, n)>>

\* The beginning of wb_table_array
ArrayHead(n) ==
  IF n >= MAX_COOKIE - 1 THEN <<COMBINE_TYPE(TYPE_TABLE, MAX_COOKIE - 1)>> \o wb_integer(n)
                         ELSE <<COMBINE_TYPE(TYPE_TABLE, n)>>

RECURSIVE pack_one(_, _)

\* wb_table: the array, and the pairs up to nil
wb_table(v, depth) ==
  LET one(x) == pack_one(x, depth)
  IN ArrayHead(Len(v.array))
       \o FlattenSeq([i \in DOMAIN v.array |-> one(v.array[i])])
       \o FlattenSeq([i \in DOMAIN v.hash |-> one(v.hash[i][1]) \o one(v.hash[i][2])])
       \o <<TYPE_NIL>>

pack_one(v, depth) ==
  CASE depth > MAX_DEPTH -> <<-1>>
    [] depth <= MAX_DEPTH /\ v.t = "nil" -> <<TYPE_NIL>>
    [] depth <= MAX_DEPTH /\ v.t = "boolean" -> <<COMBINE_TYPE(TYPE_BOOLEAN, v.v)>>
    [] depth <= MAX_DEPTH /\ v.t = "int" -> wb_integer(v.v)
    [] depth <= MAX_DEPTH /\ v.t = "string" -> wb_string(v.v)
    [] depth <= MAX_DEPTH /\ v.t = "table" -> wb_table(v, depth + 1)

\* wb_push of one byte after another: a block that is full gets a successor
wb_push(b, x) ==
  IF Len(b[Len(b)]) = BLOCK_SIZE THEN Append(b, <<x>>)
                                 ELSE [b EXCEPT ![Len(b)] = Append(@, x)]

-----------------------------------------------------------------------------
\* Unpacking: [v, rest], with the value "bad" when the stream is invalid

Bad == [v |-> [t |-> "bad"], rest |-> <<>>]
Skip(s, n) == SubSeq(s, n + 1, Len(s))

\* rb_read of n bytes, as the string get_buffer makes of them
rb_read(s, n) ==
  IF Len(s) < n THEN Bad
  ELSE [v |-> [t |-> "string", v |-> SubSeq(s, 1, n)], rest |-> Skip(s, n)]

get_buffer(s, n) == rb_read(s, n)

get_integer(s, cookie) ==
  LET r == rb_read(s, IF cookie = 6 THEN 8 ELSE cookie)
  IN CASE cookie \notin {0, 1, 2, 4, 6} \/ r = Bad -> Bad
       [] cookie \in {0, 1, 2} -> [r EXCEPT !.v = Integer(Unsigned(@.v))]
       [] cookie \in {4, 6} -> [r EXCEPT !.v = Integer(Signed(@.v))]

RECURSIVE unpack_one(_), unpack_array(_, _, _), unpack_hash(_, _)

\* The loops of unpack_table
unpack_array(s, n, array) ==
  IF n = 0 THEN unpack_hash(s, [t |-> "table", array |-> array, hash |-> <<>>])
  ELSE LET x == unpack_one(s)
       IN IF x.v.t = "bad" THEN Bad ELSE unpack_array(x.rest, n - 1, Append(array, x.v))

unpack_hash(s, table) ==
  LET k == unpack_one(s)
      x == unpack_one(k.rest)
  IN CASE k.v.t = "nil" -> [v |-> table, rest |-> k.rest]
       [] k.v.t = "bad" -> Bad
       [] OTHER -> IF x.v.t = "bad" THEN Bad
                   ELSE unpack_hash(x.rest, [table EXCEPT !.hash = Append(@, <<k.v, x.v>>)])

unpack_table(s, cookie) ==
  IF cookie # MAX_COOKIE - 1 THEN unpack_array(s, cookie, <<>>)
  ELSE IF s = <<>> \/ Head(s) % 8 # TYPE_NUMBER THEN Bad
  ELSE LET n == get_integer(Tail(s), Head(s) \div 8)
       IN IF n.v.t = "bad" THEN Bad ELSE unpack_array(n.rest, n.v.v, <<>>)

\* unpack_one and push_value
unpack_one(s) ==
  IF s = <<>> THEN Bad
  ELSE LET type == Head(s) % 8
           cookie == Head(s) \div 8
           rest == Tail(s)
       IN CASE type = TYPE_NIL -> [v |-> Nil, rest |-> rest]
            [] type = TYPE_BOOLEAN -> [v |-> [t |-> "boolean", v |-> cookie], rest |-> rest]
            [] type = TYPE_NUMBER -> get_integer(rest, cookie)
            [] type = TYPE_SHORT_STRING -> get_buffer(rest, cookie)
            [] type = TYPE_LONG_STRING /\ cookie \in {2, 4} /\ Len(rest) >= cookie ->
                 get_buffer(Skip(rest, cookie), Unsigned(SubSeq(rest, 1, cookie)))
            [] type = TYPE_TABLE -> unpack_table(rest, cookie)
            [] OTHER -> Bad

-----------------------------------------------------------------------------
\* luaseri_pack up to seri: all arguments are written to blocks.
Pack ==
  /\ mode = "pack"
  /\ LET s == FlattenSeq([i \in DOMAIN value |-> pack_one(value[i], 0)])
     IN IF Contains(s, -1)
        THEN mode' = "deep" /\ UNCHANGED block
        ELSE block' = FoldLeft(wb_push, <<<<>>>>, s) /\ mode' = "seri"
  /\ UNCHANGED <<value, stream, result>>

\* seri
seri ==
  /\ mode = "seri"
  /\ stream' = FlattenSeq(block) /\ mode' = "unpack"
  /\ UNCHANGED <<value, block, result>>

\* One turn of luaseri_unpack's loop
luaseri_unpack ==
  /\ mode = "unpack"
  /\ IF stream = <<>>
     THEN mode' = "end" /\ UNCHANGED <<stream, result>>
     ELSE LET x == unpack_one(stream)
          IN IF x.v.t = "bad"
             THEN mode' = "invalid" /\ UNCHANGED <<stream, result>>
             ELSE stream' = x.rest /\ result' = Append(result, x.v) /\ UNCHANGED mode
  /\ UNCHANGED <<value, block>>

Init ==
  /\ value \in Value
  /\ block = <<<<>>>> /\ stream = <<>> /\ result = <<>> /\ mode = "pack"

Next == Pack \/ seri \/ luaseri_unpack

Spec == Init /\ [][Next]_vars

-----------------------------------------------------------------------------
RECURSIVE Depth(_)

\* How deep a value is
Depth(v) ==
  IF v.t # "table" THEN 0
  ELSE 1 + LET ds == {Depth(x) : x \in ToSet(v.array)
                                       \cup UNION {ToSet(p) : p \in ToSet(v.hash)}}
           IN CHOOSE d \in ds \cup {0} : \A e \in ds : e <= d

\* What is packed is unpacked, whatever the widths of its numbers and the lengths of
\* its strings and arrays, and no table is refused that is not too deep.
SeriRoundTrip ==
  /\ mode # "invalid"
  /\ mode = "end" => result = value
  /\ mode = "deep" => \E i \in DOMAIN value : Depth(value[i]) > MAX_DEPTH

-----------------------------------------------------------------------------
(* The packing of zero bytes *)

CONSTANTS
  SEG, RUN,
  Text        \* byte sequences

PackAssumption == SEG \in Nat /\ SEG > 2 /\ RUN \in Nat \ {0, 1}

VARIABLES
  text,       \* what is packed
  at,         \* bytes of it that were packed
  buffer,     \* the packed bytes
  ff_n, ff_srcstart, ff_desstart,   \* the run: its length, where it begins in text and buffer
  src,        \* what is left to unpack
  out,        \* what was unpacked
  pack_mode   \* "pack", "unpack", "end" or "invalid"

packVars == <<text, at, buffer, ff_n, ff_srcstart, ff_desstart, src, out, pack_mode>>
packingVars == <<text, at, buffer, ff_n, ff_srcstart, ff_desstart>>

FF == 2 ^ SEG - 1
Bit(h, i) == (h \div 2 ^ (i - 1)) % 2 = 1
From(k, n) == SubSeq(text, k + 1, Min({k + n, Len(text)}))
Padded(s, n) == [i \in 1 .. n |-> IF i <= Len(s) THEN s[i] ELSE 0]
Segments == ((Len(text) + SEG - 1) \div SEG) * SEG

-----------------------------------------------------------------------------
NotZero(s) == {i \in 1 .. SEG : s[i] # 0}

\* Mutant: a segment with three zeros is copied in a run too.
MutLiteral(s, n) == Cardinality(NotZero(s)) = SEG \/ (n > 0 /\ Cardinality(NotZero(s)) >= SEG - 3)

\* A segment without zeros is copied; in a run, one with at most two zeros too.
Literal(s, n) == Cardinality(NotZero(s)) = SEG \/ (n > 0 /\ Cardinality(NotZero(s)) >= SEG - 2)

\* pack_seg, for a segment that is not copied: the header and the bytes that are not 0
pack_seg(s) ==
  <<SumSet({2 ^ (i - 1) : i \in NotZero(s)})>> \o SelectSeq(s, LAMBDA b : b # 0)

\* write_ff over the place that the run of n segments has in the buffer b
write_ff(b, n) ==
  [i \in DOMAIN b |->
     LET j == i - ff_desstart
     IN CASE j = 1 -> FF
          [] j = 2 -> n - 1
          [] j > 2 /\ j <= 2 + n * SEG -> Padded(From(ff_srcstart, n * SEG), n * SEG)[j - 2]
          [] OTHER -> b[i]]

\* One turn of sproto_pack's loop
Segment ==
  LET s == Padded(From(at, SEG), SEG)
      room(n) == buffer \o [i \in 1 .. n |-> 0]
  IN /\ pack_mode = "pack" /\ at < Len(text)
     /\ at' = at + SEG
     /\ \/ /\ Literal(s, ff_n) /\ ff_n = 0
           /\ ff_n' = 1 /\ ff_srcstart' = at /\ ff_desstart' = Len(buffer)
           /\ buffer' = room(SEG + 2)
        \/ /\ Literal(s, ff_n) /\ ff_n > 0
           /\ ff_n' = (IF ff_n + 1 = RUN THEN 0 ELSE ff_n + 1)
           /\ buffer' = IF ff_n + 1 = RUN THEN write_ff(room(SEG), RUN) ELSE room(SEG)
           /\ UNCHANGED <<ff_srcstart, ff_desstart>>
        \/ /\ ~ Literal(s, ff_n)
           /\ buffer' = (IF ff_n > 0 THEN write_ff(buffer, ff_n) ELSE buffer) \o pack_seg(s)
           /\ ff_n' = 0
           /\ UNCHANGED <<ff_srcstart, ff_desstart>>
     /\ UNCHANGED <<text, src, out, pack_mode>>

\* The end of sproto_pack
EndPack ==
  /\ pack_mode = "pack" /\ at >= Len(text)
  /\ buffer' = (IF ff_n > 0 THEN write_ff(buffer, ff_n) ELSE buffer)
  /\ src' = buffer' /\ pack_mode' = "unpack"
  /\ UNCHANGED <<text, at, ff_n, ff_srcstart, ff_desstart, out>>

\* One turn of sproto_unpack's loop, or its end
Unpack ==
  /\ pack_mode = "unpack"
  /\ \/ /\ src = <<>>
        /\ pack_mode' = "end"
        /\ UNCHANGED <<src, out>>
     \/ /\ src # <<>> /\ Head(src) = FF
        /\ LET n == (src[2] + 1) * SEG
           IN IF Len(src) < 2 \/ Len(src) < n + 2
              THEN pack_mode' = "invalid" /\ UNCHANGED <<src, out>>
              ELSE /\ out' = out \o SubSeq(src, 3, n + 2)
                   /\ src' = SubSeq(src, n + 3, Len(src))
                   /\ UNCHANGED pack_mode
     \/ /\ src # <<>> /\ Head(src) # FF
        /\ LET h == Head(src)
               before(i) == Cardinality({j \in 1 .. i : Bit(h, j)})
           IN IF Len(src) <= before(SEG)
              THEN pack_mode' = "invalid" /\ UNCHANGED <<src, out>>
              ELSE /\ out' = out \o [i \in 1 .. SEG |->
                                      IF Bit(h, i) THEN src[1 + before(i)] ELSE 0]
                   /\ src' = SubSeq(src, before(SEG) + 2, Len(src))
                   /\ UNCHANGED pack_mode
  /\ UNCHANGED packingVars

PackInit ==
  /\ text \in Text
  /\ at = 0 /\ buffer = <<>> /\ ff_n = 0 /\ ff_srcstart = 0 /\ ff_desstart = 0
  /\ src = <<>> /\ out = <<>> /\ pack_mode = "pack"

PackNext == Segment \/ EndPack \/ Unpack

PackSpec == PackInit /\ [][PackNext]_packVars

-----------------------------------------------------------------------------
\* What was packed is unpacked, with zeros up to a whole segment.
PackRoundTrip ==
  /\ pack_mode # "invalid"
  /\ pack_mode = "end" => out = Padded(text, Segments)

\* The packed text fits into the buffer that lpack of lsproto.c reserves for it, two
\* bytes for every full run begun and two more, although a run may end in padding.
PackFits ==
  Len(buffer) <= ((Len(text) + RUN * SEG - 1) \div (RUN * SEG)) * 2 + Len(text) + 2

=============================================================================
