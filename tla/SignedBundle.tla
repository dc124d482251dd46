---------------------------- MODULE SignedBundle ----------------------------
(***************************************************************************)
(* What an operator may rely on about a bundle directory: at any moment it  *)
(* either is the bundle that was issued last or is refused.  A build issues *)
(* its bundle once, in one step; a later build withdraws it by touching the *)
(* directory, and may put it back by undoing what an interrupted one did.   *)
(* No bundle issued earlier ever returns.                                   *)
(***************************************************************************)
EXTENDS Naturals

VARIABLES accepted,     \* the build whose bundle verify accepts, or 0
          issued        \* the builds that have issued a signed bundle

Init == accepted = 0 /\ issued = {}

Issue ==
    /\ accepted' \in Nat \ {0}
    /\ \A g \in issued : g < accepted'
    /\ issued' = issued \cup {accepted'}

Withdraw ==
    /\ accepted # 0
    /\ accepted' = 0
    /\ UNCHANGED issued

Restore ==
    /\ accepted' \in issued
    /\ \A g \in issued : g <= accepted'
    /\ UNCHANGED issued

Next == Issue \/ Withdraw \/ Restore

Spec == Init /\ [][Next]_<<accepted, issued>>
=============================================================================
