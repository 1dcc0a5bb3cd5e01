----------------------------- MODULE StockAccount -----------------------------
(***************************************************************************)
(* What the stock of a warehouse promises, whatever bins and containers it *)
(* passes through: an account (a handling unit, or the loose stock, with a *)
(* stock type) changes by what a document books on it, and by nothing      *)
(* else, and every change is in the books.  A reservation on it is made    *)
(* and released, never moved to another account.  StockLedger implements   *)
(* this.                                                                   *)
(***************************************************************************)
EXTENDS Integers

CONSTANTS Accounts, Opening

VARIABLES
    held,     \* what an account has
    booked,   \* what the documents say it has
    reserved

vars == <<held, booked, reserved>>

Init ==
    /\ held = Opening
    /\ booked = Opening
    /\ reserved = [a \in Accounts |-> 0]

Amount(n) == IF n < 0 THEN -n ELSE n

\* A document receives or issues on one account, or transfers between two.
Post ==
    /\ UNCHANGED reserved
    /\ LET was == held
           now == held'
           changed == {a \in Accounts : now[a] # was[a]}
       IN /\ booked' = now
          /\ \/ \E a \in changed : changed = {a}
             \/ \E a, b \in changed :
                   /\ changed = {a, b}
                   /\ now[a] + now[b] = was[a] + was[b]

\* An allocation reserves stock of one account, or gives it back.
Allocate ==
    /\ UNCHANGED <<held, booked>>
    /\ LET was == reserved
           now == reserved'
       IN \E a \in Accounts :
            /\ Amount(now[a] - was[a]) = 1
            /\ \A b \in Accounts \ {a} : now[b] = was[b]

Next == Post \/ Allocate

Spec == Init /\ [][Next]_vars
=============================================================================
