----------------------------- MODULE MCForking -----------------------------
(***************************************************************************)
(* Transaction for TLC, with four choices of the constants: a forked       *)
(* INVITE with a failure route that may do anything (those of the          *)
(* configuration), one that a branch declines for all of them, the other   *)
(* kinds of transaction with retransmissions, and an INVITE that is        *)
(* cancelled while it is forked.                                           *)
(***************************************************************************)
EXTENDS TransactionInv, TLC

CONSTANTS w1, w2

VARIABLE plan

Proxied == {[invite |-> TRUE, local |-> FALSE]}

Decline == INSTANCE Transaction WITH Codes <- {180, 603}, OnFailure <- {"relay"}

Other == INSTANCE Transaction WITH
  Kinds <- [invite : BOOLEAN, local : BOOLEAN] \ Proxied, OnFailure <- {"relay"},
  MaxReplies <- 1, MaxRetrans <- 1

Cancel == INSTANCE Transaction WITH
  Codes <- {180, 200}, OnFailure <- {}, Failover <- FALSE,
  MaxReplies <- 1, MaxCancels <- 1

MCInit ==
  \/ plan = "fork" /\ Init
  \/ plan = "decline" /\ Decline!Init
  \/ plan = "other" /\ Other!Init
  \/ plan = "cancel" /\ Cancel!Init

MCNext ==
  /\ UNCHANGED plan
  /\ \/ plan = "fork" /\ Next
     \/ plan = "decline" /\ Decline!Next
     \/ plan = "other" /\ Other!Next
     \/ plan = "cancel" /\ Cancel!Next

MCSpec == MCInit /\ [][MCNext]_<<vars, plan>>

Symmetry == Permutations(Workers)
=============================================================================
