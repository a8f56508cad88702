------------------------------- MODULE MCTape -------------------------------
(***************************************************************************)
(* An instance of Tape for TLC: a header whose synch bytes lie across the  *)
(* end of the first block that a search from the start reads.              *)
(***************************************************************************)
EXTENDS Tape

Header  == <<"sync", "sync", "sync", "mark">>
OneTape == {<<"data", "sync">> \o Header \o <<"data", "data", "data", "data">>}

=============================================================================
