--------------------------- MODULE MCDialogStores ---------------------------
(***************************************************************************)
(* Dialog with a database for TLC: in the mode of the configuration, which *)
(* is "REALTIME", and in "DELAYED" with a restart more.                    *)
(***************************************************************************)
EXTENDS Dialog, TLC

VARIABLE plan

Delayed == INSTANCE Dialog WITH DbMode <- "DELAYED", Max1xx <- 0, MaxBoots <- 2

MCInit == Init /\ plan \in {"realtime", "delayed"}

MCNext ==
  /\ UNCHANGED plan
  /\ \/ plan = "realtime" /\ Next
     \/ plan = "delayed" /\ Delayed!Next

\* Fairness of Dialog, in the mode that was chosen.
MCFairSpec ==
  /\ MCInit /\ [][MCNext]_<<vars, plan>>
  /\ \A p \in Procs : WF_vars(/\ ub = "none"
                              /\ \/ plan = "realtime" /\ Step(p)
                                 \/ plan = "delayed" /\ Delayed!Step(p))
  /\ WF_vars(/\ ub = "none"
             /\ \/ plan = "realtime" /\ TimerStep
                \/ plan = "delayed" /\ Delayed!TimerStep)
  /\ SF_vars(/\ ub = "none"
             /\ \/ plan = "realtime" /\ GetExpiredDlgs
                \/ plan = "delayed" /\ Delayed!GetExpiredDlgs)
  /\ \A d \in Dlgs : SF_vars(/\ ub = "none"
                             /\ \/ plan = "realtime" /\ DlgOnTransDeleted(d)
                                \/ plan = "delayed" /\ Delayed!DlgOnTransDeleted(d))
=============================================================================
