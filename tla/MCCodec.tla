------------------------------ MODULE MCCodec -------------------------------
(***************************************************************************)
(* Lines and messages for TLC.                                             *)
(***************************************************************************)
EXTENDS Codec

MCNumerals == <<"0", "1", "2", "3", "4", "5", "6">>

MCLines == {
  <<"SET", " ", "k", " ", "v">>,
  <<"GET", " ", "k">>,
  <<"SET", " ", "k", " ", "a", "/", "b">>,
  <<"SET", " ", "$", "k", " ", "v">>,
  <<"SET", " ", "k", " ", "val:">>,
  <<"SET", " ", "k", " ", "oldval:">>,
  <<"SET", " ", "k", " ", "}">>,
  <<"SET", " ", "k", " ", "a", " ", "b", " ", "c">> }

Message(type, pos, res) ==
  [type |-> type, add |-> "A", port |-> "8002", pos |-> pos, index |-> "2",
   op |-> <<"SET">>, res |-> <<res>>]

MCAnnounced == {
  Message("[COM]", "2", "2"),
  Message("[PRERE]", "3", "ok") }
=============================================================================
