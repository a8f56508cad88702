-------------------------------- MODULE Pool --------------------------------
(***************************************************************************)
(* A pool of slots, of which a user holds at most one and a slot has at    *)
(* most one user: what sys/lfs.c promises the files that keep their        *)
(* buffers in it.  A slot may be lost, and is then in nobody's hands for   *)
(* good; it is never taken out of the hands of the user who has it.        *)
(***************************************************************************)
CONSTANTS Slots, Users, Nobody, Lost

VARIABLE holder     (* of each slot: a user, Nobody or Lost                *)

Init == holder = [s \in Slots |-> Nobody]

(* A user with no slot takes a free one.                                   *)
Take(s, u) ==
  /\ holder[s] = Nobody /\ \A t \in Slots : holder[t] # u
  /\ holder' = [holder EXCEPT ![s] = u]

(* Users give back what they have, one by one or several at a stop.        *)
Give(us) ==
  holder' = [s \in Slots |-> IF holder[s] \in us THEN Nobody ELSE holder[s]]

(* A slot is taken for a user who then goes without it.                    *)
Lose(s) == holder[s] = Nobody /\ holder' = [holder EXCEPT ![s] = Lost]

Next == \/ \E s \in Slots, u \in Users : Take(s, u)
        \/ \E us \in SUBSET Users : Give(us)
        \/ \E s \in Slots : Lose(s)

Spec == Init /\ [][Next]_holder
=============================================================================
