-------------------------------- MODULE Wire --------------------------------
(***************************************************************************)
(* Serialized data and the cursor that reads it (class Deserializer,       *)
(* lib/util.py).  A buffer is a sequence of fields, each a width in bytes  *)
(* and a value; the cursor is the index of the next field.  Reading a      *)
(* width that is not that of the next field, or skipping bytes that do not *)
(* end between two fields, is a reader that has lost its place.            *)
(***************************************************************************)
EXTENDS Integers, Sequences, SequencesExt

Field(w, v) == IF w = 0 THEN <<>> ELSE <<[w |-> w, v |-> v]>>

RECURSIVE Size(_)
Size(b) == IF b = <<>> THEN 0 ELSE Head(b).w + Size(Tail(b))

\* Counts of 2^32 and more do not occur here.
varint_width(n) == IF n < 253 THEN 1 ELSE IF n < 65536 THEN 3 ELSE 5

\* A byte string is its length and its content.
Blob(w, v) == [w |-> w, v |-> IF w = 0 THEN 0 ELSE v]

pack_varint(n) == Field(varint_width(n), n)
pack_varbytes(s) == pack_varint(s.w) \o Field(s.w, s.v)

RECURSIVE Concat(_)
Concat(ss) == IF ss = <<>> THEN <<>> ELSE Head(ss) \o Concat(Tail(ss))
Vector(elements) == pack_varint(Len(elements)) \o Concat(elements)

-----------------------------------------------------------------------------
(* Readers: what is left of a schema, and the values read so far.           *)

Fixed(w)    == [k |-> "fixed", w |-> w]
VarInt      == [k |-> "varint"]
VarBytes    == [k |-> "varbytes"]
Skip(n)     == [k |-> "skip", w |-> n]
Vec(s)      == [k |-> "vec", of |-> s]
Times(n, s) == [k |-> "times", n |-> n, of |-> s]

At(b, pos) == [b |-> b, pos |-> pos, ok |-> TRUE, v |-> <<>>]
Lost(r) == [r EXCEPT !.ok = FALSE]
Next1(r) == r.b[r.pos]
More(r) == r.pos <= Len(r.b)

Take(r, w) ==
    IF w = 0 THEN [r EXCEPT !.v = Append(@, 0)]
    ELSE IF More(r) /\ Next1(r).w = w
         THEN [r EXCEPT !.pos = @ + 1, !.v = Append(@, Next1(r).v)]
         ELSE Lost(r)

RECURSIVE SkipBytes(_, _)
SkipBytes(r, n) ==
    IF n = 0 THEN r
    ELSE IF More(r) /\ Next1(r).w <= n
         THEN SkipBytes([r EXCEPT !.pos = @ + 1], n - Next1(r).w)
         ELSE Lost(r)

\* The first byte of a count: the count itself, or the escape for its width.
FirstByte(f) == CASE f.w = 1 -> f.v [] f.w = 3 -> 253 [] f.w = 5 -> 254 [] OTHER -> 256

BytesOfCount(n) == IF n < 253 THEN 1 ELSE IF n = 253 THEN 3 ELSE IF n = 254 THEN 5 ELSE 9

read_varint(r) ==
    IF More(r) THEN Take(r, BytesOfCount(FirstByte(Next1(r)))) ELSE Lost(r)

\* As many bytes as the count that was just read.
BytesCounted(r, c, s) ==
    IF ~c.ok \/ ~s.ok THEN Lost(r) ELSE [s EXCEPT !.v = Append(r.v, Blob(Last(c.v), Last(s.v)))]
read_nbytes(r, c) == BytesCounted(r, c, Take(c, Last(c.v)))
read_varbytes(r) == read_nbytes(r, read_varint(r))

RECURSIVE Read(_, _)
RECURSIVE Repeat(_, _, _)

\* n values of a schema, collected in one.
Repeat(r, n, schema) ==
    IF n = 0 \/ ~r.ok THEN r
    ELSE LET one == Read([r EXCEPT !.v = <<>>], schema)
         IN Repeat([one EXCEPT !.v = [r.v EXCEPT ![Len(r.v)] = Append(@, one.v)]], n - 1, schema)

Collect(r, n, schema) == Repeat([r EXCEPT !.v = Append(@, <<>>)], n, schema)

ReadItem(r, it) ==
    CASE it.k = "fixed"    -> Take(r, it.w)
      [] it.k = "varint"   -> read_varint(r)
      [] it.k = "varbytes" -> read_varbytes(r)
      [] it.k = "skip"     -> SkipBytes(r, it.w)
      [] it.k = "times"    -> Collect(r, it.n, it.of)
      [] it.k = "vec"      -> LET c == read_varint(r)
                              IN IF c.ok THEN Collect([c EXCEPT !.v = Front(@)], Last(c.v), it.of)
                                 ELSE Lost(r)

Read(r, schema) ==
    IF ~r.ok \/ schema = <<>> THEN r
    ELSE Read(ReadItem(r, Head(schema)), Tail(schema))

\* Skips as many items of a size as the count that was just read says.
SkipCounted(r, size) == Read(r, <<Skip(size * Last(r.v))>>)

\* What a reader consumed between two positions.
Span(r, from) == SubSeq(r.b, from, r.pos - 1)
=============================================================================
