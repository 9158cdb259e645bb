---------------------------- MODULE DeliveriesMC ----------------------------
(***************************************************************************)
(* Model checking of Deliveries: one shell with the bounds of the .cfg, or *)
(* two with smaller ones, chosen with the shells that are open.            *)
(***************************************************************************)
EXTENDS Deliveries

CONSTANTS ann, First

\* All shells belong to one user.
OneUser == [s \in Shells |-> ann]

Pair == INSTANCE Deliveries WITH MaxDeliveries <- 1, MaxBlobs <- 2, MaxChanges <- 0, MaxFaults <- 0

MCInit == Init /\ open \in {{First}, Shells}
MCNext == \/ open = {First} /\ Next
          \/ open = Shells /\ Pair!Next
MCSpec == MCInit /\ [][MCNext]_vars /\ Fairness

=============================================================================
