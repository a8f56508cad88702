-------------------------------- MODULE Line --------------------------------
(***************************************************************************)
(* What a serial line promises: bytes, numbered as they arrive, are handed *)
(* out in that order and once each; they wait in between, and are dropped  *)
(* only while the line is cut.                                             *)
(***************************************************************************)
EXTENDS Integers

VARIABLES
  arrived,    (* the number of the last byte                               *)
  waiting,    (* those that have not been handed out                       *)
  out,        (* the last one that has                                     *)
  up          (* the line is not cut                                       *)

vars == <<arrived, waiting, out, up>>

Init == arrived = 0 /\ waiting = {} /\ out = 0 /\ up = FALSE

Arrive ==
  /\ arrived' = arrived + 1 /\ waiting' = waiting \cup {arrived + 1}
  /\ UNCHANGED <<out, up>>

HandOut ==
  /\ out' \in waiting /\ \A n \in waiting : out' <= n
  /\ waiting' = waiting \ {out'}
  /\ UNCHANGED <<arrived, up>>

Cut == up' = FALSE /\ waiting' \subseteq waiting /\ UNCHANGED <<arrived, out>>

Restore == up' = TRUE /\ UNCHANGED <<arrived, waiting, out>>

Spec == Init /\ [][Arrive \/ HandOut \/ Cut \/ Restore]_vars
=============================================================================
