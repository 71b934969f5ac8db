----------------------------- MODULE Selections -----------------------------
(***************************************************************************)
(* A list less some of its elements, in the order it had.  It is SelectSeq *)
(* with a set in place of a test, and by counting instead of recursion, so *)
(* that its elements can be reasoned about for lists of any length.        *)
(***************************************************************************)
EXTENDS Integers, Sequences, FiniteSets

\* Where the elements to keep are, and which of them are not after place i.
Places(s, S) == {i \in DOMAIN s : s[i] \in S}
UpTo(places, i) == {j \in places : j <= i}

Kept(s, S) ==
    LET places == Places(s, S)
    IN  [n \in 1..Cardinality(places) |->
            s[CHOOSE i \in places : Cardinality(UpTo(places, i)) = n]]
=============================================================================
