-------------------------- MODULE MCKittingAndRequests --------------------------
(***************************************************************************)
(* Small instances of PostProcessing and of Kitting for TLC.  The two      *)
(* share no state: a behaviour runs the one its focus names, and the other *)
(* one stays as it was at first.                                           *)
(***************************************************************************)
EXTENDS PostProcessing, Kitting, TLC

CONSTANTS A, B, k1, k2, r1, r2, None

VARIABLE focus
allVars == <<focus, vars, kittingVars>>

\* Two orders, two components, four storage lines.
FourLines == 1..4
ItemOfLine == <<A, A, B, Kit>>
StockOfLine == <<1, 1, 2, 1>>
ASSUME KittingAssumption
ASSUME PostProcessingAssumption

MCInit == focus \in {"Kits", "Requests"} /\ KittingInit /\ Init

Telegrams == focus = "Requests" /\ RetryJob /\ UNCHANGED <<focus, kittingVars>>

MCNext ==
  /\ UNCHANGED focus
  /\ \/ focus = "Kits" /\ KittingNext /\ UNCHANGED vars
     \/ focus = "Requests" /\ Next /\ UNCHANGED kittingVars
MCSpec == MCInit /\ [][MCNext]_allVars /\ WF_allVars(Telegrams)
=============================================================================
