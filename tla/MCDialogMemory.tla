--------------------------- MODULE MCDialogMemory ---------------------------
(***************************************************************************)
(* Dialog without a database for TLC, with two choices of the bounds: the  *)
(* configuration's, for a forked INVITE with several requests, and a       *)
(* smaller one in which dlg_end_dlg may run.                               *)
(***************************************************************************)
EXTENDS Dialog, TLC

VARIABLE plan

EndDlg == INSTANCE Dialog WITH Max2xx <- 1, MaxReq <- 1, MaxLeak <- 0, MaxMi <- 1

MCInit == Init /\ plan \in {"forked", "end_dlg"}

MCNext ==
  /\ UNCHANGED plan
  /\ \/ plan = "forked" /\ Next
     \/ plan = "end_dlg" /\ EndDlg!Next

MCSpec == MCInit /\ [][MCNext]_<<vars, plan>>

Symmetry == Permutations(Workers)
=============================================================================
