--------------------------- MODULE MCTransaction ---------------------------
(***************************************************************************)
(* Transaction for TLC: a proxied INVITE.                                  *)
(***************************************************************************)
EXTENDS Transaction

CONSTANTS w1, w2

Proxied == {[invite |-> TRUE, local |-> FALSE]}
=============================================================================
