------------------------------ MODULE MCPrintf ------------------------------
(* Instances of Printf for TLC. *)
EXTENDS Printf

MCPlain == {"a"}
MCDigits == {0, 3}

\* No room at all, for the terminator only, for some, and for most fields.
MCSizes == {Console, 0, 1, 3, 8}

MCStrings == {<<>>, <<"a", "a">>, <<"a", "a", "a", "a">>}

\* Around the ends of the types, which have 3, 5, 7 and 8 bits.
MCValues == {-65, -10, -1, 0, 5, 16, 100}
MCTypeBits == [char |-> 3, short |-> 5, int |-> 7, longlong |-> 8]
=============================================================================
