------------------------------ MODULE MCBuffer ------------------------------
(* Instances of Buffer for TLC. *)
EXTENDS Buffer

TwoBytes == {0, 1}
FunctionObject == <<1, 0>>
SomeStrings == {<<>>, <<0>>, <<1>>, <<0, 1>>, <<1, 0>>, <<1, 0, 1>>, <<0, 1, 0, 1>>}
OnlyReads == {"read"}
=============================================================================
