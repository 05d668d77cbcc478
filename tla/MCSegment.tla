----------------------------- MODULE MCSegment -----------------------------
(***************************************************************************)
(* Instances of Segment for TLC: two epochs, of one key and of two; batches *)
(* in which frames of the current and of an older epoch stand among frames *)
(* that do not decode, have another type, epoch, series or timestamp, have *)
(* their extra pairs unsorted or repeated, or cannot be delimited.         *)
(***************************************************************************)
EXTENDS Segment

S == <<7>>
MCChars == {7, 8}
MCKeys == <<<<"I64">>, <<"Str", "Bool">>>>
MCNotNull == <<{}, {2}>>

Null == [ty |-> "Null", v |-> <<>>]
Yes  == [ty |-> "Bool", v |-> <<1>>]
Entry(ts, epoch, id, keys, extra, data) ==
  [ts |-> ts, epoch |-> epoch, series |-> S, id |-> id, keys |-> keys,
   extra |-> extra, data |-> data]

Full == Entry(3, 1, <<8>>, <<[ty |-> "Str", v |-> <<7>>], Yes>>,
              <<<<<<8>>, <<7>>>>, <<<<7>>, <<8>>>>, <<<<8>>, <<>>>>>>, <<>>)
Bare == Entry(2, 1, <<>>, <<Null, Yes>>, <<>>, <<>>)
Old  == Entry(4, 0, <<>>, <<[ty |-> "I64", v |-> <<9>>]>>, <<>>, <<8>>)
Long == Entry(3, 1, <<7, 7, 7, 7>>, <<Null, Yes>>, <<>>, <<>>)
Gap  == Entry(3, 1, <<>>, <<Null, Null>>, <<>>, <<>>)
MCRows == {Full, Bare, Old, Long, Gap}

Typed  == [Old EXCEPT !.keys[1] = [ty |-> "Bool", v |-> <<0>>]]
Early  == [Bare EXCEPT !.ts = 1]
Late   == [Bare EXCEPT !.ts = 6]
Later  == [Bare EXCEPT !.epoch = 2]
Other  == [Bare EXCEPT !.series = <<8>>]
BadTag == Seal([Payload(Bare) EXCEPT ![6] = 5])
Excess == Seal(Append(Payload(Bare), 0))
BadId  == Seal([Payload(Bare) EXCEPT ![5] = 9])

\* A frame with the fields of Bare and the given extra pairs, as they are.
Pairs(extra) ==
  Seal(Upto(Payload(Bare), 8) \o <<Len(extra)>>
         \o FlattenSeq([i \in DOMAIN extra |-> PutStr(extra[i][1]) \o PutStr(extra[i][2])])
         \o <<0>>)
Unsorted == Pairs(<<<<<<8>>, <<>>>>, <<<<7>>, <<>>>>>>)
Repeated == Pairs(<<<<<<7>>, <<8>>>>, <<<<7>>, <<>>>>>>)

MCWire ==
  {BadTag \o Encode(Old),
   Encode(Typed) \o Excess,
   Encode(Early) \o Encode(Late) \o Encode(Later) \o Encode(Other) \o Encode(Bare),
   Unsorted \o Repeated \o Encode(Gap),
   Encode(Bare) \o BadId \o Encode(Old)}
=============================================================================
