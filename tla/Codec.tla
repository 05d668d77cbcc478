------------------------------- MODULE Codec -------------------------------
(***************************************************************************)
(* codec.rs: the layout of a frame and of a segment header, and the checks *)
(* that reading them back makes.                                           *)
(*                                                                         *)
(* Bytes are abstracted to cells, one for each fixed-width field and one   *)
(* for each character; a cell is a number.  A cut inside a field is a cut  *)
(* before it: either way the field cannot be read.  A value is            *)
(* [ty, v], v being its cells; an extra pair is <<name, value>>.           *)
(***************************************************************************)
EXTENDS Extra

CONSTANTS
  Chars,    \* the cells that are valid UTF-8 inside a string
  U16Max,   \* u16::MAX
  Magic,    \* MAGIC
  Version   \* FORMAT_VERSION

SegmentHeaderCells == 3
FrameHeaderCells == 2
MinPayloadCells == 6

\* record.rs tag
Tag == [Null |-> 0, Bool |-> 1, I64 |-> 2, F64 |-> 3, Str |-> 4]
TypeOf(t) == CHOOSE ty \in DOMAIN Tag : Tag[ty] = t

\* crc32fast: a polynomial checksum, which notices any one changed cell.
Crc(len, payload) ==
  LET upto[i \in 0..Len(payload)] ==
        IF i = 0 THEN len ELSE (upto[i - 1] * 31 + payload[i] + 1) % 65521
  IN  upto[Len(payload)]
----------------------------------------------------------------------------
(* Encoding                                                                *)

\* put_str16 and put_str32, of a length they accept.
PutStr(s) == <<Len(s)>> \o s

PutValue(x) == <<Tag[x.ty]>> \o (IF x.ty = "Str" THEN PutStr(x.v) ELSE x.v)

Payload(row) ==
  LET extra == Canonical(row.extra)
  IN  <<row.ts, row.epoch>> \o PutStr(row.series) \o PutStr(row.id)
        \o FlattenSeq([i \in DOMAIN row.keys |-> PutValue(row.keys[i])])
        \o <<Len(extra)>>
        \o FlattenSeq([i \in DOMAIN extra |-> PutStr(extra[i][1]) \o PutStr(extra[i][2])])
        \o PutStr(row.data)

\* Lengths and the number of pairs (before duplicates collapse) fit a u16;
\* otherwise encode restores its output and fails.
Encodable(row) ==
  /\ Len(row.extra) <= U16Max
  /\ \A s \in {row.series, row.id} \cup UNION {ToSet(pair) : pair \in ToSet(row.extra)} :
       Len(s) <= U16Max

\* Encoder::encode: the payload, with its length and checksum before it.
Seal(payload) == <<Len(payload), Crc(Len(payload), payload)>> \o payload
Encode(row) == Seal(Payload(row))

\* encode_segment_header
SegmentHeader(id) == <<Magic, Version, id>>
----------------------------------------------------------------------------
(* Decoding                                                                *)

\* Mutant: the fields are looked at before the length is.
ParseHeaderEager(buf) ==
  IF buf = <<>> \/ buf[1] # Magic THEN "BadMagic"
  ELSE IF Len(buf) < 2 \/ buf[2] # Version THEN "Unsupported"
  ELSE IF Len(buf) < SegmentHeaderCells THEN "Truncated" ELSE "Ok"

\* parse_segment_header
ParseHeader(buf) ==
  IF Len(buf) < SegmentHeaderCells THEN "Truncated"
  ELSE IF buf[1] # Magic THEN "BadMagic"
  ELSE IF buf[2] # Version THEN "Unsupported" ELSE "Ok"

\* frame_extent
FrameExtent(buf, max) ==
  IF Len(buf) < FrameHeaderCells THEN "Truncated"
  ELSE IF buf[1] < MinPayloadCells \/ buf[1] > max THEN "Corrupt"
  ELSE IF Len(buf) < FrameHeaderCells + buf[1] THEN "Truncated" ELSE "Ok"

FrameLen(buf) == FrameHeaderCells + buf[1]
PayloadOf(buf) == SubSeq(buf, FrameHeaderCells + 1, FrameLen(buf))

\* Mutant: the checksum is not compared.
FramePayloadUnchecked(buf, max) == FrameExtent(buf, max)

\* frame_payload: the extent, and the checksum over length and payload.
FramePayload(buf, max) ==
  LET extent == FrameExtent(buf, max)
  IN  IF extent = "Ok" /\ Crc(buf[1], PayloadOf(buf)) # buf[2] THEN "Corrupt"
      ELSE extent

\* Cursor over payload p: the next cell and what was read; at = 0 once a read
\* has overrun the payload or met a value that is none.
Fail == [at |-> 0, got |-> <<>>]
Read(c, n, x) == [at |-> c.at + n, got |-> Append(c.got, x)]

\* Cursor::take, of n cells from the next one on.
Fits(p, c, n) == c.at # 0 /\ c.at + n - 1 <= Len(p)

\* Cursor::u8, u16, u32, i64, u64
Num(p, c) == IF Fits(p, c, 1) THEN Read(c, 1, p[c.at]) ELSE Fail

\* Cursor::str16, str32 and utf8
Str(p, c) ==
  LET n == p[c.at]
      s == SubSeq(p, c.at + 1, c.at + n)
  IN  IF Fits(p, c, 1) /\ Fits(p, c, 1 + n) /\ ToSet(s) \subseteq Chars
      THEN Read(c, 1 + n, s) ELSE Fail

\* Cursor::value
Value(p, c) ==
  LET ty == TypeOf(p[c.at])
      x  == p[c.at + 1]
      s  == Str(p, [c EXCEPT !.at = @ + 1])
  IN  IF ~ Fits(p, c, 1) \/ p[c.at] \notin {Tag[t] : t \in DOMAIN Tag} THEN Fail
      ELSE IF ty = "Null" THEN Read(c, 1, [ty |-> ty, v |-> <<>>])
      ELSE IF ty = "Str"
      THEN IF s = Fail THEN Fail
           ELSE [s EXCEPT !.got = Append(c.got, [ty |-> ty, v |-> Last(@)])]
      ELSE IF Fits(p, c, 2) /\ (ty = "Bool" => x \in {0, 1})
      THEN Read(c, 2, [ty |-> ty, v |-> <<x>>]) ELSE Fail

\* Op(p, _) applied n times, or until it fails: each takes a cell of p.
Times(n, Op(_, _), p, c) ==
  LET after[k \in 0..n] == IF k = 0 THEN c ELSE Op(p, after[k - 1])
  IN  after[Min({n, Len(p) + 1})]

\* ts, epoch, series and id, which every reader starts with.
Prefix(p) == Str(p, Str(p, Num(p, Num(p, [at |-> 1, got |-> <<>>]))))

\* validate_prefix: the status, and on Ok the fixed prefix and the frame's length.
ValidatePrefix(buf, max) ==
  LET status == FramePayload(buf, max)
      c      == Prefix(PayloadOf(buf))
  IN  IF status # "Ok" THEN [status |-> status]
      ELSE IF c = Fail THEN [status |-> "Corrupt"]
      ELSE [status |-> "Ok", ts |-> c.got[1], epoch |-> c.got[2],
            series |-> c.got[3], id |-> c.got[4], len |-> FrameLen(buf)]

\* Nothing is left over after the data section.
Whole(p, c) == c # Fail /\ c.at = Len(p) + 1

\* decode_payload, for a frame whose epoch has the given number of keys: a
\* sequence of at most one row.
DecodePayload(p, arity) ==
  LET keys  == Times(arity, Value, p, Prefix(p))
      count == Num(p, keys)
      n     == IF count = Fail THEN 0 ELSE Last(count.got)
      data  == Str(p, Times(2 * n, Str, p, count))
      Pair(j) == LET i == 5 + arity + 2 * j IN <<data.got[i - 1], data.got[i]>>
  IN  IF ~ Whole(p, data) THEN <<>>
      ELSE <<[ts |-> data.got[1], epoch |-> data.got[2], series |-> data.got[3],
              id |-> data.got[4], keys |-> SubSeq(data.got, 5, 4 + arity),
              extra |-> [j \in 1..n |-> Pair(j)], data |-> Last(data.got)]>>

\* decode, and decode_verified for a frame whose checksum is known to be right.
Decode(buf, arity, max) ==
  IF FramePayload(buf, max) = "Ok" THEN DecodePayload(PayloadOf(buf), arity) ELSE <<>>
DecodeVerified(buf, arity) ==
  IF FrameExtent(buf, Len(buf)) = "Ok" THEN DecodePayload(PayloadOf(buf), arity) ELSE <<>>

\* verified_sort_key
SortKey(buf) == LET c == Prefix(PayloadOf(buf)) IN <<c.got[1], c.got[4], FrameLen(buf)>>
=============================================================================
