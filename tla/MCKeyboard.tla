----------------------------- MODULE MCKeyboard -----------------------------
(* Instances of Keyboard for TLC. *)
EXTENDS Keyboard, TLC

A      == [make |-> <<30>>, break |-> <<158>>]
LShift == [make |-> <<42>>, break |-> <<170>>]
RShift == [make |-> <<54>>, break |-> <<182>>]
Right  == [make |-> <<224, 77>>, break |-> <<224, 205>>]

AllKeys == {A, LShift, RShift, Right}
FewKeys == {A, LShift}

LowerTable == 30 :> "a"
UpperTable == 30 :> "A"

\* As a BIOS leaves it; interrupt off and keyboard disabled.
Ctrs  == {{1, 4, 64}, {4, 16, 32, 64}}
Bytes == {<<>>, <<30>>}
=============================================================================
