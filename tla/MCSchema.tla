----------------------------- MODULE MCSchema -----------------------------
(* Instances of Schema for TLC: two keys, reordered, removed, made nullable *)
(* and retyped.                                                             *)
EXTENDS Schema

Key(name, ty, nullable) == [name |-> name, ty |-> ty, nullable |-> nullable]

MCLayouts ==
  {<<Key("a", "I64", FALSE), Key("b", "I64", FALSE)>>,
   <<Key("b", "I64", FALSE), Key("a", "I64", FALSE)>>,
   <<Key("b", "I64", FALSE)>>,
   <<Key("a", "Str", FALSE)>>,
   <<Key("a", "Str", TRUE)>>}

MCRows == {<<"I64", "I64">>, <<"null">>}
=============================================================================
