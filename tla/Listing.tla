------------------------------- MODULE Listing -------------------------------
(***************************************************************************)
(* What a page that lists server rows owes its user, whatever cache it     *)
(* reads through: the list never goes back in time, and once it rests it   *)
(* holds every change the page itself was told had been made.  Revisions   *)
(* of the server's rows are counted; the rows themselves are left out.     *)
(***************************************************************************)
EXTENDS Naturals

VARIABLES
    rev,    \* changes the server has made
    snap,   \* the revision on screen
    own,    \* the revision as of the last change reported to the page
    due     \* a refresh is under way or promised

vars == <<rev, snap, own, due>>

Init == rev = 0 /\ snap = 0 /\ own = 0 /\ due = FALSE

Change == rev' = rev + 1 /\ UNCHANGED <<snap, own, due>>

Acknowledge == own' = rev /\ due' = TRUE /\ UNCHANGED <<rev, snap>>

Start == due' = TRUE /\ UNCHANGED <<rev, snap, own>>

Refresh ==
    /\ due
    /\ snap' \in snap..rev /\ snap' >= own
    /\ due' = FALSE
    /\ UNCHANGED <<rev, own>>

\* A refresh that fails may be given up only when nothing is owed.
GiveUp == due /\ snap >= own /\ due' = FALSE /\ UNCHANGED <<rev, snap, own>>

Next == Change \/ Acknowledge \/ Start \/ Refresh \/ GiveUp

Spec == Init /\ [][Next]_vars
=============================================================================
