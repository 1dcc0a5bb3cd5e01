--------------------------- MODULE MCOutboundPicking ---------------------------
(***************************************************************************)
(* Small instances of OutboundPicking for TLC: two deliveries compete for  *)
(* stock that cannot serve both in full.  A behaviour either reverses      *)
(* confirmed picks as well, with stock on one balance row, or only goes    *)
(* forward, with stock on two.                                             *)
(***************************************************************************)
EXTENDS OutboundPicking, TLC

CONSTANTS d1, d2, b1, b2, u1, u2, r1, r2

VARIABLE focus

OnTwoRows == (b1 :> 3) @@ (b2 :> 1)
TwoEach   == [d \in Deliveries |-> 2]
SameRow   == [b \in Balances |-> b]

Symmetry == Permutations(Deliveries) \cup Permutations(Users) \cup Permutations(RequestIds)

OneRow == INSTANCE OutboundPicking WITH InitialStock <- (b1 :> 2) @@ (b2 :> 0)

MCInit == (focus = "Reversal" /\ OneRow!Init) \/ (focus = "Forward" /\ Init)
MCNext ==
  /\ UNCHANGED focus
  /\ (focus = "Reversal" /\ Next) \/ (focus = "Forward" /\ Forward)
MCSpec == MCInit /\ [][MCNext]_<<focus, vars>>
=============================================================================
