------------------------------ MODULE MCConsole ------------------------------
(* Instances of Console for TLC. *)
EXTENDS Console

Letters == {"x", "y"}

\* One character each: every text is some sequence of them.
Texts == {<<ch>> : ch \in Chars}

FewTexts == {<<"x">>, <<"x", "newline">>, <<"tab">>}
FewKeys  == {"y", "newline"}
=============================================================================
