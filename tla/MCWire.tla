------------------------------- MODULE MCWire -------------------------------
(***************************************************************************)
(* An instance of the encodings for TLC: three addresses, one of them an    *)
(* authority or a stranger, marks of two digits to the base four, contents  *)
(* and hashes of which one is empty and one longer than a mark.             *)
(***************************************************************************)
EXTENDS Wire

Member(a, w) == [address |-> a, proposal_weight |-> 1, vote_weight |-> w]
TwoOrThree == {<<Member(1, 1), Member(2, 1)>>, <<Member(1, 1), Member(2, 1), Member(3, 1)>>,
               <<Member(1, 1), Member(2, 3)>>}
SomeContents == {<<>>, <<1, 0, 3>>}
SomeHashes == {<<>>, <<0, 2, 1>>}
=============================================================================
