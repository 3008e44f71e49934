---------------------------- MODULE MCExpireOld ----------------------------
(* Builds with details for three chunks, for none and for one; the newest *)
(* build is beyond the limit of the query at first.                       *)
EXTENDS ExpireOld

CONSTANTS w1, w2

MCNumDetails == [b \in Builds |-> CASE b = 1 -> 5 [] b = 2 -> 0 [] b = 3 -> 2 [] OTHER -> 1]
=============================================================================
