------------------------- MODULE TransactionProofs --------------------------
(***************************************************************************)
(* The theorems about Transaction: types, references, the stored winner,   *)
(* and the promise of the forking proxy, from the lemmas on the steps of   *)
(* the timer process, the workers and the decisions.                       *)
(***************************************************************************)
EXTENDS TransactionDecision, TransactionWorkers, TransactionPromise

\* The invariant holds before the request arrives.
LEMMA InitOK ==
  ASSUME Init
  PROVE  IInv
<1>1. TypeOK
  <2>1. kind \in [invite : BOOLEAN, local : BOOLEAN]
    BY TransactionAssumption DEF Init
  <2>2. cell \in CellType
    <3>1. \A x, y, z, t \in BOOLEAN :
            [life |-> "none", ref |-> 0, status |-> 0, relaied |-> None, out |-> 0,
             cancelled |-> x, noNew |-> y, onNegative |-> z, first |-> 0, nr |-> 0,
             kr |-> t] \in CellType
      BY BranchNumbers DEF CellType, StatusCodes, Span
    <3>2. (OnFailure # {}) \in BOOLEAN
      OBVIOUS
    <3> QED
      BY <3>1, <3>2, Truths, Zenon DEF Init
  <2>3. uac \in UacType
    <3> DEFINE r == [last |-> 0, buffer |-> FALSE, sent |-> "no", reply |-> FALSE, round |-> None,
                     cancel |-> "null", toCancel |-> FALSE, hasRecv |-> FALSE]
    <3>1. \A x, y, z, t \in BOOLEAN :
            [last |-> 0, buffer |-> x, sent |-> "no", reply |-> y, round |-> None,
             cancel |-> "null", toCancel |-> z, hasRecv |-> t] \in BranchType
      BY DEF BranchType, StatusCodes, Span
    <3>2. r \in BranchType
      BY <3>1, Truths, Zenon
    <3>3. uac = [b \in Branches |-> r]
      BY DEF Init
    <3> HIDE DEF r
    <3> QED
      BY <3>2, <3>3 DEF UacType
  <2>4. link \in LinkType
    BY DEF Init, LinkType, LinkStates
  <2>5. proc \in [Procs -> ProcType]
    BY IdleType DEF Init
  <2> QED
    BY <2>1, <2>2, <2>3, <2>4, <2>5 DEF TypeOK
<1>2. \A p \in Procs : proc[p].pc = "idle" /\ proc[p].op = "none" /\ proc[p].todo = {}
  BY DEF Init, Idle
<1>3. /\ cell.life = "none" /\ cell.nr = 0 /\ cell.first = 0 /\ cell.status = 0 /\ cell.ref = 0
  BY DEF Init
<1>4. \A b \in Branches : uac[b].last = 0 /\ uac[b].sent = "no" /\ uac[b].round = None
                          /\ link[fr(b)] = "off"
  BY LinkNames DEF Init
<1>5. \A b \in Branches : ~uac[b].buffer
  BY DEF Init
<1>6. ~cell.noNew
  BY DEF Init
<1>7. \A p \in Workers : p \in Procs
  BY ProcNames
<1>8. WorkerInv
  BY <1>2, <1>7 DEF WorkerInv, WorkerOK, At, TimerPcs, CancelPcs
<1>9. TimerInv
  BY <1>2, ProcNames DEF TimerInv, TimerPcs, Proc
<1>10. LifeInv
  <2>1. Busy = {}
    BY <1>2, <1>7 DEF Busy, Proc
  <2>2. Cardinality(Busy) = 0
    BY <2>1, FS_EmptySet
  <2>3. link = [l \in Links |-> "off"]
    BY DEF Init
  <2>4. link[wait_tl] = "off" /\ link[dele_tl] = "off"
    BY <2>3, LinkNames
  <2> QED
    BY <1>2, <1>3, <2>1, <2>2, <2>3, <2>4, ProcNames DEF LifeInv, Proc
<1>11. BranchInv
  <2>1. \A b \in Branches : b >= cell.nr /\ ~(b < cell.nr) /\ ~(b < cell.first)
    BY <1>3, BranchNumbers
  <2> QED
    BY <1>3, <1>4, <1>5, <2>1 DEF BranchInv, BranchOK
<1>12. RequestInv
  BY <1>2, <1>7 DEF RequestInv, RequestOK, Requesting, RequestPcs, Proc
<1>13. ReplyInv
  BY <1>4, <1>6 DEF ReplyInv, ReplyOK
<1>14. WinnerStored
  BY <1>2 DEF WinnerStored, Proc
<1> QED
  BY <1>1, <1>8, <1>9, <1>10, <1>11, <1>12, <1>13, <1>14 DEF IInv

\* A stuttering step keeps it.
LEMMA Stutter ==
  ASSUME IInv, UNCHANGED vars
  PROVE  IInv'
<1>1. kind' = kind /\ cell' = cell /\ uac' = uac /\ link' = link /\ proc' = proc
  BY DEF vars
<1>2. TypeOK'
  BY <1>1 DEF IInv, TypeOK
<1>3. WorkerInv' /\ TimerInv' /\ BranchInv' /\ ReplyInv'
  <2>1. WorkerInv'
    BY <1>1 DEF IInv, WorkerInv, WorkerOK
  <2>2. TimerInv'
    BY <1>1 DEF IInv, TimerInv, Proc
  <2>3. BranchInv' /\ ReplyInv'
    BY <1>1 DEF IInv, BranchInv, ReplyInv
  <2> QED
    BY <2>1, <2>2, <2>3
<1>4. LifeInv' /\ WinnerStored'
  BY <1>1, Zenon DEF IInv, LifeInv, WinnerStored, Busy, Proc
<1>5. RequestInv'
  BY <1>1 DEF IInv, RequestInv, Requesting, RequestOK, Quiet, Proc
<1> QED
  BY <1>2, <1>3, <1>4, <1>5 DEF IInv

\* Who decides on a reply, on which branches and with which code.
LEMMA WhoDecides ==
  ASSUME IInv, NEW p \in Workers, LockReply(p) \/ Lock487(p)
  PROVE  \E u, code : /\ Kept(uac, u) /\ code \in StatusCodes /\ Carried(p, u, proc[p].b, code)
                      /\ p \in Procs /\ proc[p].pc \in {"reply", "lock487"} /\ kind' = kind
                      /\ proc[p].b \in Branches /\ proc[p].b < cell.nr
<1>1. /\ p \in Procs /\ uac \in UacType /\ WorkerOK(p) /\ cell.nr \in Nat /\ cell.nr <= MaxBranches
  BY Now
<1>2. proc[p].pc \in {"reply", "lock487"} /\ kind' = kind
  BY DEF LockReply, Lock487, Proc
<1>3. proc[p].b \in Branches /\ proc[p].b < cell.nr /\ {} \in SUBSET Branches
  <2>1. proc[p].b \in Added(cell)
    BY <1>1, <1>2 DEF WorkerOK, At
  <2> QED
    BY <1>1, <2>1, BranchNumbers DEF Added
<1>4. CASE LockReply(p)
  <2>1. proc[p].code \in StatusCodes /\ IsReply(proc[p].code)
    BY <1>4, ReplyDecides
  <2>2. PICK u : Kept(uac, u) /\ Decide(p, u, proc[p].b, proc[p].code, {})
    BY <1>4, ReplyDecides
  <2>3. Carried(p, u, proc[p].b, proc[p].code)
    BY <1>1, <1>3, <2>1, <2>2, DecideOutcomes
  <2> QED
    BY <1>1, <1>2, <1>3, <2>1, <2>2, <2>3
<1>5. CASE Lock487(p)
  <2>1. Kept(uac, uac) /\ 487 \in StatusCodes /\ IsReply(487)
    BY <1>1, KeptRefl DEF StatusCodes, IsReply, Span
  <2>2. Decide(p, uac, proc[p].b, 487, {})
    BY <1>5 DEF Lock487
  <2>3. Carried(p, uac, proc[p].b, 487)
    BY <1>1, <1>3, <2>1, <2>2, DecideOutcomes
  <2> QED
    BY <1>1, <1>2, <1>3, <2>1, <2>3
<1> QED
  BY <1>4, <1>5

\* The 408 of final_response_handler is such a decision too.
LEMMA TimerCarries ==
  ASSUME IInv, final_response_handler
  PROVE  \E u : Kept(uac, u) /\ Carried(Timer, u, proc[Timer].b, 408)
<1>1. /\ proc[Timer].b \in Branches /\ proc[Timer].b < cell.nr
      /\ 408 \in StatusCodes /\ IsReply(408) /\ Timer \in Procs
  BY TimerDecides, ProcNames
<1>2. PICK u, found : /\ Kept(uac, u) /\ found \in SUBSET Branches
                      /\ Decide(Timer, u, proc[Timer].b, 408, found)
  BY TimerDecides
<1>3. Carried(Timer, u, proc[Timer].b, 408)
  BY <1>1, <1>2, DecideOutcomes
<1> QED
  BY <1>2, <1>3

\* All three keep the invariant.
LEMMA DecidersStep ==
  ASSUME IInv, final_response_handler \/ \E p \in Workers : LockReply(p) \/ Lock487(p)
  PROVE  IInv'
<1>1. CASE final_response_handler
  BY <1>1, TimerCarries, FinalResponseStep
<1>2. ASSUME NEW p \in Workers, LockReply(p) \/ Lock487(p)
      PROVE  IInv'
  BY <1>2, WhoDecides, WorkerDecides
<1> QED
  BY <1>1, <1>2

\* All three are steps of the proxy.
LEMMA DecidersMap ==
  ASSUME IInv, IInv', final_response_handler \/ \E p \in Workers : LockReply(p) \/ Lock487(p)
  PROVE  Maps
<1>1. CASE final_response_handler
  <2>1. /\ kind' = kind /\ proc[Timer].b \in Branches /\ proc[Timer].b < cell.nr
        /\ 408 \in StatusCodes /\ Timer \in Procs
    BY <1>1, TimerDecides, ProcNames
  <2> QED
    BY <1>1, <2>1, TimerCarries, Deciders
<1>2. ASSUME NEW p \in Workers, LockReply(p) \/ Lock487(p)
      PROVE  Maps
  BY <1>2, WhoDecides, Deciders
<1> QED
  BY <1>1, <1>2

\* Every step keeps the invariant.
LEMMA StepOK ==
  ASSUME IInv, [Next]_vars
  PROVE  IInv'
<1>1. ASSUME NEW p \in Workers, WorkerStep(p) PROVE IInv'
  <2>1. CASE \/ t_forward_nonack(p) \/ BranchesAdded(p) \/ SendBranch(p, TRUE) \/ StartRetr(p)
             \/ BranchesSent(p) \/ kill_transaction(p) \/ _reply_light(p) \/ Unreleased(p)
    BY <2>1, ForwardStep, BranchesAddedStep, SendStep, StartRetrStep, BranchesSentStep, KillStep,
       ReplyLightStep, UnreleasedStep, Zenon
  <2>2. CASE LockReply(p) \/ ReplyDone(p) \/ Lock487(p) \/ Done487(p)
    BY <2>2, DecidersStep, ReplyDoneStep, Done487Step
  <2>3. CASE CancelScan(p) \/ CancelMark(p) \/ cancel_uacs(p) \/ cancel_invite(p)
    BY <2>3, CancelScanStep, CancelMarkStep, CancelUacsStep, CancelInviteStep
  <2>4. CASE CancelDone(p) \/ t_retransmit_reply(p)
    BY <2>4, PlainLeaves
  <2> QED
    BY <1>1, <2>1, <2>2, <2>3, <2>4, Zenon DEF WorkerStep
<1>2. ASSUME NEW p \in Workers, Receive(p) PROVE IInv'
  <2>1. CASE \E b \in Branches, code \in Codes : reply_received(p, b, code)
    BY <2>1, ReplyReceivedStep
  <2>2. CASE t_newtran(p) \/ add_uac(p) \/ SendBranch(p, FALSE) \/ DropReply(p)
    BY <2>2, NewtranStep, AddUacStep, SendStep, PlainLeaves, Zenon
  <2>3. CASE ReceiveCancel(p) \/ Retransmission(p)
    BY <2>3, ReceiveCancelStep, RetransmissionStep
  <2> QED
    BY <1>2, <2>1, <2>2, <2>3, Zenon DEF Receive
<1>3. ASSUME TimerStep PROVE IInv'
  <2>1. CASE \E S \in SUBSET Branches : FrExpire(S)
    BY <2>1, FrExpireStep
  <2>2. CASE run_handler_for_each \/ DropSilently \/ final_response_handler \/ fake_reply
    BY <2>2, RunHandlerStep, DropSilentlyStep, DecidersStep, FakeReplyStep
  <2>3. CASE ResponseExpire \/ wait_handler \/ delete_handler \/ delete_cell
    BY <2>3, ResponseExpireStep, WaitHandlerStep, DeleteHandlerStep, DeleteCellStep
  <2> QED
    BY <1>3, <2>1, <2>2, <2>3 DEF TimerStep
<1> QED
  BY <1>1, <1>2, <1>3, ReceiveAckStep, Stutter DEF Next

\* IInv, the strengthening that makes the properties of tm inductive, holds
\* throughout, for any number of workers and branches, any codes, any
\* failure_route and any number of messages.
THEOREM Invariance == Spec => []IInv
<1>1. Init => IInv
  BY InitOK
<1>2. IInv /\ [Next]_vars => IInv'
  BY StepOK
<1> QED
  BY <1>1, <1>2, PTL DEF Spec

\* The cell, its branches, its timers and every process keep their types:
\* nr_of_outgoings never passes MAX_BRANCHES, and the reference count, which
\* UNREF decrements without a test, never goes below zero.
THEOREM CellTypeCorrect == Spec => []TypeOK
<1>1. IInv => TypeOK
  BY DEF IInv
<1> QED
  BY <1>1, Invariance, PTL

\* ref_count is exactly the number of processes that work on the cell
\* (REF and UNREF in h_table.h), whatever the order of requests, replies,
\* CANCELs and timers; so delete_cell frees only what nobody uses, and once
\* freed nobody comes back.
THEOREM CellRefCounted == Spec => []RefCounted
<1>1. IInv => RefCounted
  BY DEF IInv, LifeInv, RefCounted
<1> QED
  BY <1>1, Invariance, PTL

\* When relay_reply sends the reply of a branch other than the one the
\* message at hand answers, that reply was stored before (store_reply), so
\* there is a message to build from after the lock is released.
THEOREM WinnerIsStored == Spec => []WinnerStored
<1>1. IInv => WinnerStored
  BY DEF IInv
<1> QED
  BY <1>1, Invariance, PTL

\* A transaction that has not started is a proxy that has not.
LEMMA InitMaps ==
  ASSUME Init
  PROVE  Proxy!Init
<1>1. /\ kind.invite \in BOOLEAN /\ cell.status = 0
      /\ \A b \in Branches : uac[b].last = 0 /\ uac[b].round = None
  <2>1. kind \in [invite : BOOLEAN, local : BOOLEAN]
    BY TransactionAssumption DEF Init
  <2> QED
    BY <2>1 DEF Init
<1>2. cell.cancelled = FALSE /\ \A b \in Branches : ~uac[b].buffer
  BY DEF Init
<1>3. Results(uac) = [b \in Branches |-> 0] /\ Rounds(uac) = [b \in Branches |-> -1]
  BY <1>1 DEF Results, Rounds, None
<1>4. Live(uac) = {}
  BY <1>2 DEF Live
<1> QED
  BY <1>1, <1>2, <1>3, <1>4 DEF Proxy!Init, Results, Rounds, Live

\* Every step is one of the proxy, or none.
LEMMA StepMaps ==
  ASSUME IInv, IInv', [Next]_vars
  PROVE  Maps
<1>1. ASSUME NEW p \in Workers, WorkerStep(p) PROVE Maps
  <2>1. CASE \/ t_forward_nonack(p) \/ BranchesAdded(p) \/ StartRetr(p) \/ BranchesSent(p)
             \/ Unreleased(p) \/ CancelDone(p) \/ t_retransmit_reply(p)
             \/ CancelScan(p) \/ cancel_invite(p)
    BY <2>1, ForwardMaps
  <2>2. CASE _reply_light(p) \/ ReplyDone(p) \/ CancelMark(p) \/ cancel_uacs(p) \/ Done487(p)
    BY <2>2, CancelBranchMaps
  <2>3. CASE SendBranch(p, TRUE) \/ kill_transaction(p)
    BY <2>3, SendMaps, KillMaps, Zenon
  <2>4. CASE LockReply(p) \/ Lock487(p)
    BY <2>4, DecidersMap
  <2> QED
    BY <1>1, <2>1, <2>2, <2>3, <2>4, Zenon DEF WorkerStep
<1>2. ASSUME NEW p \in Workers, Receive(p) PROVE Maps
  <2>1. CASE \/ DropReply(p) \/ Retransmission(p)
             \/ \E b \in Branches, code \in Codes : reply_received(p, b, code)
    BY <2>1, ForwardMaps
  <2>2. CASE t_newtran(p) \/ add_uac(p) \/ SendBranch(p, FALSE) \/ ReceiveCancel(p)
    BY <2>2, NewtranMaps, AddUacMaps, SendMaps, ReceiveCancelMaps, Zenon
  <2> QED
    BY <1>2, <2>1, <2>2, Zenon DEF Receive
<1>3. CASE TimerStep
  BY <1>3, TimerMaps, DecidersMap DEF TimerStep
<1>4. CASE ReceiveAck
  BY <1>4, TimerMaps
<1>5. CASE UNCHANGED vars
  BY <1>5, CalmMaps DEF vars
<1> QED
  BY <1>1, <1>2, <1>3, <1>4, <1>5 DEF Next

\* tm keeps the promise of a forking proxy: what t_should_relay_response,
\* relay_reply, local 487s, FR timeouts and kill_transaction say upstream,
\* in any interleaving, is what ForkingProxy allows.  In particular a negative
\* answer is given once, is the best of its round, and is given only when no
\* branch is awaited, or after a CANCEL or a 6xx.
THEOREM ProxyRefined == Spec => ForkingPromise
<1>1. Init => Proxy!Init
  BY InitMaps
<1>2. IInv /\ IInv' /\ [Next]_vars => [Proxy!Next]_(Proxy!vars)
  BY StepMaps DEF Maps
<1>3. Spec => []IInv
  BY Invariance
<1> QED
  BY <1>1, <1>2, <1>3, PTL DEF Spec, ForkingPromise, Proxy!Spec
=============================================================================
