------------------------------- MODULE MCDsk -------------------------------
(***************************************************************************)
(* Instances of Dsk for TLC.  The images all have one side in their       *)
(* header, and one track or two.                                           *)
(***************************************************************************)
EXTENDS Dsk

CONSTANTS A, B

OneTrack  == [m \in Media |-> 1]
TwoTracks == [m \in Media |-> 2]
OneMounted  == [d \in Drives |-> A]
BothMounted == [d \in Drives |-> IF d = 0 THEN A ELSE B]
BySides   == [m \in Media |-> 1]

=============================================================================
