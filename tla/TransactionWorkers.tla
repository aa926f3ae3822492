------------------------- MODULE TransactionWorkers -------------------------
(***************************************************************************)
(* The steps of the workers of Transaction: a request, a reply, a CANCEL   *)
(* and the replies made locally.  Each keeps the inductive invariant; the  *)
(* steps that take a decision do so for every outcome that Decided allows. *)
(***************************************************************************)
EXTENDS TransactionFrame

\* A step of the worker p keeps the invariant if it keeps what concerns p.
LEMMA WorkerMove ==
  ASSUME IInv, TypeOK', NEW p \in Workers, Others(p), Held,
         Enters(p) \/ Stays(p) \/ Leaves(p), BranchInv', ReplyInv',
         proc[p].pc \in RequestPcs \/ (Calm /\ proc'[p].pc \notin RequestPcs),
         WorkerOK(p)', RequestOK(p)', WinnerOK(p)'
  PROVE  IInv'
<1>1. TypeOK /\ WorkerInv /\ TimerInv /\ LifeInv /\ RequestInv /\ WinnerStored
  BY DEF IInv
<1>2. p \in Procs /\ p # Timer /\ Timer \in Procs /\ Workers \subseteq Procs
  BY ProcNames
<1>9. Grown
  BY DEF Held
<1>3. WorkerInv'
  BY <1>9, <1>1, <1>2, OthersWorker DEF WorkerInv, Others
<1>4. \A q \in Workers : q # p => RequestOK(q)'
  <2> SUFFICES ASSUME NEW q \in Workers, q # p PROVE RequestOK(q)'
    OBVIOUS
  <2>1. proc[q].pc \in RequestPcs => Calm
    <3>1. proc[q].pc \in RequestPcs => proc[p].pc \notin RequestPcs
      BY <1>1 DEF RequestInv, Requesting
    <3> QED
      BY <3>1
  <2> QED
    BY <1>1, <1>2, <1>9, <2>1, OthersRequest DEF WorkerInv, RequestInv, Others
<1>5. RequestInv'
  <2>1. \A q \in Workers : q # p => proc'[q] = proc[q]
    BY <1>2 DEF Others
  <2>2. \A q, r \in Requesting' : q = r
    <3>1. Requesting' \subseteq Requesting
      BY <2>1 DEF Requesting
    <3> QED
      BY <1>1, <3>1 DEF RequestInv
  <2> QED
    BY <1>4, <2>2 DEF RequestInv
<1>6. TimerInv'
  BY <1>1, <1>2, TimerKept DEF Others
<1>7. LifeInv'
  BY <1>1, LifeKept
<1>8. WinnerStored'
  <2> SUFFICES ASSUME NEW q \in Procs PROVE WinnerOK(q)'
    BY DEF WinnerStored, WinnerOK
  <2>1. CASE q # p
    BY <1>1, <1>9, <2>1, OthersWinner DEF Others, WinnerStored, WinnerOK
  <2> QED
    BY <2>1
<1> QED
  BY <1>3, <1>5, <1>6, <1>7, <1>8 DEF IInv

\* UNREF: the cell loses a reference, and perhaps its last reply is noted.
LEMMA LeaveStep ==
  ASSUME IInv, NEW p \in Workers, ~Proc(p, "idle"), NEW c \in CellType,
         Ahead(cell, c), c.ref = cell.ref, t_unref(p, c), Kept(uac, uac'), Tame, kind' = kind
  PROVE  IInv'
<1>1. TypeOK /\ LifeInv
  BY DEF IInv
<1>2. p \in Busy
  BY DEF Busy
<1>3. cell.ref \in Nat /\ cell.ref # 0
  <2>1. IsFiniteSet(Busy)
    BY TransactionAssumption, FS_Subset DEF Busy
  <2> QED
    BY <1>1, <1>2, <2>1, FS_EmptySet, FS_CardinalityType DEF LifeInv
<1>4. c.ref - 1 \in Nat
  BY <1>3
<1>5. /\ cell' \in CellType /\ cell'.ref = cell.ref - 1
      /\ cell'.first = c.first /\ cell'.nr = c.nr /\ cell'.life = c.life /\ cell'.status = c.status
  <2>1. cell' = [c EXCEPT !.ref = c.ref - 1]
    BY DEF t_unref
  <2> QED
    BY <1>4, <2>1 DEF CellType
<1>6. cell'.cancelled = c.cancelled /\ cell'.kr = c.kr /\ cell'.noNew = c.noNew
  BY DEF t_unref, CellType
<1>7. Ahead(cell, cell')
  BY <1>5, <1>6, Zenon DEF Ahead
<1>8. Held /\ Calm /\ BranchInv' /\ ReplyInv'
  BY <1>7, KeptStep
<1>9. proc' = [proc EXCEPT ![p] = Idle] /\ p \in Procs /\ proc \in [Procs -> ProcType]
  BY <1>1, ProcNames DEF t_unref, TypeOK
<1>10. proc' \in [Procs -> ProcType] /\ proc'[p] = Idle /\ Others(p)
  BY <1>9, IdleType DEF Others
<1>11. TypeOK'
  BY <1>1, <1>5, <1>10 DEF TypeOK, Kept, Tame, Waits
<1>12. WorkerOK(p)' /\ RequestOK(p)' /\ WinnerOK(p)' /\ Proc(p, "idle")' /\ proc'[p].pc \notin RequestPcs
  BY <1>10, IdleOK
<1>13. Leaves(p)
  BY <1>5, <1>12 DEF Leaves
<1> QED
  BY <1>8, <1>10, <1>11, <1>12, <1>13, WorkerMove

\* The FR timer of a branch that was sent is set.
LEMMA FrTame ==
  ASSUME link \in LinkType, NEW b \in Branches, b < cell.nr, uac[b].sent = "yes",
         link' = set_timer(link, {fr(b)})
  PROVE  Tame
<1>1. wait_tl \notin {fr(b)} /\ dele_tl \notin {fr(b)}
  BY LinkNames
<1>2. Waits(link, link') /\ \A a \in Branches : fr(a) \notin {fr(b)} => link'[fr(a)] = link[fr(a)]
  BY <1>1, SetTimerWaits
<1>3. \A a \in Branches : a # b => link'[fr(a)] = link[fr(a)]
  BY <1>2, LinkNames
<1> QED
  BY <1>2, <1>3 DEF Tame

\* A worker drops a late reply, is done with a CANCEL or has sent the last
\* reply again: it gives its reference back.
LEMMA PlainLeaves ==
  ASSUME IInv, NEW p \in Workers, DropReply(p) \/ CancelDone(p) \/ t_retransmit_reply(p)
  PROVE  IInv'
<1>1. TypeOK
  BY DEF IInv
<1>2. ~Proc(p, "idle") /\ t_unref(p, cell) /\ uac' = uac /\ link' = link /\ kind' = kind
  BY DEF DropReply, CancelDone, t_retransmit_reply, Proc
<1> QED
  BY <1>1, <1>2, Unmoved, LeaveStep

\* t_unref releases a replicated request that could not be forwarded.
LEMMA UnreleasedStep ==
  ASSUME IInv, NEW p \in Workers, Unreleased(p)
  PROVE  IInv'
<1>1. TypeOK
  BY DEF IInv
<1>2. ~Proc(p, "idle") /\ t_unref(p, cell) /\ uac' = uac /\ kind' = kind
  BY DEF Unreleased, Proc
<1>3. Tame
  BY <1>1, ReleaseWaits, Unmoved DEF Unreleased, TypeOK
<1> QED
  BY <1>1, <1>2, <1>3, Unmoved, LeaveStep

\* The rest of _reply_light arms the timer of the 500, cancels the branches
\* that were marked, and leaves.
LEMMA ReplyLightStep ==
  ASSUME IInv, NEW p \in Workers, _reply_light(p)
  PROVE  IInv'
<1>1. TypeOK /\ cell \in CellType /\ uac \in UacType /\ link \in LinkType
  BY DEF IInv, TypeOK
<1>2. ~Proc(p, "idle") /\ Kept(uac, uac') /\ kind' = kind
  BY <1>1, CancelBranchKept DEF _reply_light, Proc
<1> DEFINE lk == cleanup_uac_timers(link, cell)
<1>3. Waits(link, lk) /\ NoFr(link, lk) /\ lk \in LinkType
  BY <1>1, CleanupWaits DEF Waits
<1>4. \/ link' = put_on_wait(lk) /\ t_unref(p, cell)
      \/ link' = set_final_timer(lk, cell) /\ t_unref(p, [cell EXCEPT !.out = 500])
  BY DEF _reply_light
<1> HIDE DEF lk
<1>5. Waits(lk, link') /\ NoFr(lk, link')
  BY <1>3, <1>4, PutOnWaitWaits, FinalTimerWaits
<1>6. Tame
  BY <1>1, <1>3, <1>5, WaitsTrans, NoFrTrans, Unmoved
<1>7. CASE t_unref(p, cell)
  BY <1>1, <1>2, <1>6, <1>7, Unmoved, LeaveStep
<1>8. CASE t_unref(p, [cell EXCEPT !.out = 500])
  <2> DEFINE d == [cell EXCEPT !.out = 500]
  <2>1. d \in CellType /\ Ahead(cell, d) /\ d.ref = cell.ref
    BY <1>1, OutAhead
  <2> HIDE DEF d
  <2>2. t_unref(p, d)
    BY <1>8 DEF d
  <2> QED
    BY <1>2, <1>6, <2>1, <2>2, LeaveStep
<1> QED
  BY <1>4, <1>7, <1>8

\* A reply was relayed, the other branches are cancelled, and the worker
\* leaves.
LEMMA ReplyDoneStep ==
  ASSUME IInv, NEW p \in Workers, ReplyDone(p)
  PROVE  IInv'
<1>1. TypeOK /\ cell \in CellType /\ uac \in UacType /\ link \in LinkType
  BY DEF IInv, TypeOK
<1>2. /\ Proc(p, "unlocked") /\ proc[p].op = "reply" /\ ~Proc(p, "idle")
      /\ t_unref(p, Sent(p)) /\ kind' = kind
  BY DEF ReplyDone, Proc
<1>3. Kept(uac, uac')
  BY <1>1, CancelBranchKept, KeptRefl DEF ReplyDone
<1> DEFINE lk == FinalTimer(p)
           clean == cleanup_uac_timers(lk, cell)
           b == proc[p].b
<1>4. \/ link' = put_on_wait(clean) \/ link' = clean
      \/ link' = set_timer(link, {fr(b)}) \/ link' = link
  BY DEF ReplyDone
<1>5. Waits(link, lk) /\ NoFr(link, lk) /\ lk \in LinkType
  BY <1>1, FinalTimerTame DEF Waits
<1> HIDE DEF lk
<1>6. Waits(lk, clean) /\ NoFr(lk, clean) /\ clean \in LinkType
  BY <1>5, CleanupWaits DEF Waits
<1> HIDE DEF clean
<1>7. Waits(link, clean) /\ NoFr(link, clean)
  BY <1>5, <1>6, WaitsTrans, NoFrTrans
<1>8. Waits(link, put_on_wait(clean)) /\ NoFr(link, put_on_wait(clean))
  BY <1>6, <1>7, PutOnWaitWaits, WaitsTrans, NoFrTrans
<1>9. b \in Branches /\ b < cell.nr /\ uac[b].sent = "yes"
  <2>1. b \in Added(cell) /\ uac[b].sent = "yes"
    BY <1>2, Zenon DEF IInv, WorkerInv, WorkerOK, At, RequestInv, RequestOK, Proc
  <2>2. cell.nr \in Nat /\ cell.nr <= MaxBranches
    BY <1>1, CellNumbers
  <2> QED
    BY <2>1, <2>2, BranchNumbers DEF Added
<1>10. link' = set_timer(link, {fr(b)}) => Tame
  BY <1>1, <1>9, FrTame
<1>11. Tame
  BY <1>1, <1>4, <1>7, <1>8, <1>10, Unmoved
<1> QED
  BY <1>1, <1>2, <1>3, <1>11, ProcNames, SentAhead, LeaveStep

\* A worker goes on with what it does, or starts on a message.
LEMMA StayStep ==
  ASSUME IInv, NEW p \in Workers, Kept(uac, uac'), Tame, Ahead(cell, cell'), kind' = kind,
         NEW r \in ProcType, proc' = [proc EXCEPT ![p] = r], r.pc # "idle",
         \/ ~Proc(p, "idle") /\ cell'.ref = cell.ref
         \/ Proc(p, "idle") /\ cell.life = "hashed" /\ cell'.ref = cell.ref + 1,
         proc[p].pc \in RequestPcs \/ r.pc \notin RequestPcs,
         At(r, cell'), RequestOK(p)', WinnerOK(p)'
  PROVE  IInv'
<1>1. TypeOK /\ p \in Procs
  BY ProcNames DEF IInv
<1>2. proc' \in [Procs -> ProcType] /\ proc'[p] = r /\ Others(p)
  BY <1>1, ProcMove, Zenon
<1>3. TypeOK'
  BY <1>1, <1>2 DEF TypeOK, Kept, Tame, Waits, Ahead
<1>4. Held /\ Calm /\ BranchInv' /\ ReplyInv'
  BY KeptStep
<1>5. Enters(p) \/ Stays(p)
  BY <1>2 DEF Enters, Stays, Proc
<1>6. WorkerOK(p)'
  BY <1>2 DEF WorkerOK
<1> QED
  BY <1>2, <1>3, <1>4, <1>5, <1>6, WorkerMove

\* All branches were tried: the request process waits for the replies, or
\* kills the transaction when none was sent.
LEMMA BranchesSentStep ==
  ASSUME IInv, NEW p \in Workers, BranchesSent(p)
  PROVE  IInv'
<1>1. TypeOK /\ p \in Procs /\ proc[p] \in ProcType /\ cell \in CellType
  BY ProcNames DEF IInv, TypeOK
<1>2. ~Proc(p, "idle") /\ uac' = uac /\ link' = link /\ kind' = kind /\ Proc(p, "send")
      /\ proc[p].todo = {}
  BY DEF BranchesSent, Proc
<1>3. CASE cell.kr
  BY <1>1, <1>2, <1>3, Unmoved, LeaveStep DEF BranchesSent
<1>4. CASE ~cell.kr
  <2> DEFINE r == [proc[p] EXCEPT !.pc = "kill"]
  <2>1. proc' = [proc EXCEPT ![p] = r] /\ cell' = cell
    BY <1>1, <1>4 DEF BranchesSent, Goto
  <2>2. r \in ProcType /\ r.pc = "kill" /\ r.op = proc[p].op /\ r.b = proc[p].b /\ r.todo = {}
    BY <1>1, <1>2 DEF ProcType, Pcs, RequestPcs
  <2> HIDE DEF r
  <2>3. WorkerOK(p) /\ RequestOK(p)
    BY DEF IInv, WorkerInv, RequestInv
  <2>4. At(r, cell')
    BY <2>1, <2>2, <2>3 DEF At, WorkerOK, TimerPcs, CancelPcs
  <2>5. Quiet /\ \A b \in Branches : b < cell.nr => uac[b].sent = "failed"
    BY <1>2, <1>4, <2>3 DEF RequestOK, Proc
  <2>6. proc'[p] = r
    BY <1>1, <2>1, <2>2, ProcMove, Zenon
  <2>7. RequestOK(p)'
    BY <1>2, <2>1, <2>2, <2>5, <2>6 DEF RequestOK, Proc, Quiet
  <2>8. WinnerOK(p)'
    BY <2>2, <2>6 DEF WinnerOK, Proc
  <2>9. proc[p].pc \in RequestPcs
    BY <1>2 DEF RequestPcs, Proc
  <2> QED
    BY <1>1, <1>2, <2>1, <2>2, <2>4, <2>7, <2>8, <2>9, Unmoved, StayStep, Zenon
<1> QED
  BY <1>3, <1>4

\* Where nothing is known of the branches.
PlainPcs == {"copy", "killed"} \cup CancelPcs

\* A step to a place where nothing need be known of the branches.
LEMMA StayPlain ==
  ASSUME IInv, NEW p \in Workers, Kept(uac, uac'), Tame, Ahead(cell, cell'), kind' = kind,
         NEW r \in ProcType, proc' = [proc EXCEPT ![p] = r],
         \/ ~Proc(p, "idle") /\ cell'.ref = cell.ref
         \/ Proc(p, "idle") /\ cell.life = "hashed" /\ cell'.ref = cell.ref + 1,
         proc[p].pc \in RequestPcs \/ r.pc \notin RequestPcs,
         At(r, cell'), r.pc \in PlainPcs
  PROVE  IInv'
<1>1. TypeOK /\ p \in Procs
  BY ProcNames DEF IInv
<1>2. proc'[p] = r
  BY <1>1, ProcMove, Zenon
<1>3. r.pc \notin {"idle", "reply", "unlocked", "fwd", "add", "send", "kill", "retr"}
  BY DEF PlainPcs, CancelPcs
<1>4. RequestOK(p)' /\ WinnerOK(p)'
  BY <1>2, <1>3 DEF RequestOK, WinnerOK, Proc
<1> QED
  BY <1>3, <1>4, StayStep, Zenon

\* kill_transaction answers 500, unless something final was said already.
LEMMA KillStep ==
  ASSUME IInv, NEW p \in Workers, kill_transaction(p)
  PROVE  IInv'
<1>1. /\ TypeOK /\ p \in Procs /\ proc[p] \in ProcType /\ cell \in CellType
      /\ uac \in UacType
  BY ProcNames DEF IInv, TypeOK
<1>2. /\ ~Proc(p, "idle") /\ link' = link /\ kind' = kind /\ Proc(p, "kill")
      /\ proc[p].pc \in RequestPcs
  BY DEF kill_transaction, Proc, RequestPcs
<1>3. Kept(uac, uac')
  BY <1>1, MarkCancelKept, KeptRefl DEF kill_transaction
<1>4. Ahead(cell, cell') /\ cell'.ref = cell.ref
  <2> DEFINE n == IF cell.status >= 200 THEN cell.status ELSE 500
             m == IF cell.status >= 200 THEN cell.relaied ELSE Local
  <2>1. cell' = [cell EXCEPT !.kr = TRUE, !.status = n, !.relaied = m]
    BY DEF kill_transaction
  <2>2. n \in StatusCodes /\ (n = cell.status \/ n >= 200) /\ m \in {None, Local} \cup Branches
    BY <1>1 DEF CellType, StatusCodes, Span
  <2> HIDE DEF n, m
  <2>3. \A x \in BOOLEAN : [cell EXCEPT !.kr = x, !.status = n, !.relaied = m] \in CellType
    BY <1>1, <2>2, Zenon DEF CellType
  <2>6. cell' \in CellType
    BY <2>1, <2>3, Truths, Zenon
  <2>4. cell' \in CellType /\ cell'.first = cell.first /\ cell'.nr = cell.nr
        /\ cell'.life = cell.life /\ cell'.ref = cell.ref /\ cell'.status = n
    BY <1>1, <2>1, <2>6 DEF CellType
  <2>5. cell'.cancelled = cell.cancelled /\ cell'.kr = TRUE /\ cell'.noNew = cell.noNew
    BY <1>1, <2>1 DEF CellType
  <2> QED
    BY <2>2, <2>4, <2>5, Zenon DEF Ahead
<1> DEFINE e == IF cell.status >= 200 THEN "RPS_ERROR" ELSE "none"
           m == IF kind.invite THEN which_cancel(uac, cell) ELSE {}
           r == [proc[p] EXCEPT !.pc = "killed", !.rps = e, !.bm = m]
<1>5. proc' = [proc EXCEPT ![p] = r]
  BY <1>1, Zenon DEF kill_transaction
<1>6. e \in RelayTypes /\ m \in SUBSET Branches
  <2>1. cell.first \in Nat /\ cell.nr \in Nat /\ cell.nr <= MaxBranches
    BY <1>1, CellNumbers
  <2>2. Round(cell) \subseteq Branches
    BY <2>1, BranchNumbers DEF Round
  <2> QED
    BY <2>2 DEF RelayTypes, which_cancel
<1> HIDE DEF e, m
<1>7. /\ r \in ProcType /\ r.pc = "killed" /\ r.op = proc[p].op
      /\ r.b = proc[p].b /\ r.todo = proc[p].todo
  BY <1>1, <1>6, Zenon DEF ProcType, Pcs, RequestPcs
<1> HIDE DEF r
<1>8. At(r, cell')
  <2>1. At(r, cell)
    BY <1>7 DEF IInv, WorkerInv, WorkerOK, At, TimerPcs, CancelPcs
  <2>2. cell.nr \in Nat
    BY <1>1, CellNumbers
  <2> QED
    BY <1>4, <2>1, <2>2, AtKept DEF Ahead
<1>9. r.pc \in PlainPcs
  BY <1>7 DEF PlainPcs
<1> QED
  BY <1>1, <1>2, <1>3, <1>4, <1>5, <1>7, <1>8, <1>9, Unmoved, StayPlain, Zenon

\* The FR timer of a branch is started after it was sent.
LEMMA StartRetrStep ==
  ASSUME IInv, NEW p \in Workers, StartRetr(p)
  PROVE  IInv'
<1>1. /\ TypeOK /\ p \in Procs /\ proc[p] \in ProcType /\ cell \in CellType
      /\ uac \in UacType /\ link \in LinkType
  BY ProcNames DEF IInv, TypeOK
<1>2. /\ ~Proc(p, "idle") /\ uac' = uac /\ kind' = kind /\ Proc(p, "retr")
      /\ proc[p].pc \in RequestPcs /\ cell' = [cell EXCEPT !.kr = TRUE]
      /\ link' = set_timer(link, {fr(proc[p].b)})
  BY DEF StartRetr, Proc, RequestPcs, start_retr
<1>3. WorkerOK(p) /\ RequestOK(p)
  BY DEF IInv, WorkerInv, RequestInv
<1>4. cell.nr \in Nat /\ cell.nr <= MaxBranches
  BY <1>1, CellNumbers
<1>5. proc[p].b \in Branches /\ proc[p].b < cell.nr /\ uac[proc[p].b].sent = "yes"
  <2>1. proc[p].b \in Added(cell) /\ uac[proc[p].b].sent = "yes"
    BY <1>2, <1>3 DEF WorkerOK, At, RequestOK, Proc
  <2> QED
    BY <1>4, <2>1, BranchNumbers DEF Added
<1>6. Tame
  BY <1>1, <1>2, <1>5, FrTame
<1>7. Ahead(cell, cell') /\ cell'.ref = cell.ref /\ cell'.kr
  <2>1. \A x \in BOOLEAN : [cell EXCEPT !.kr = x] \in CellType
    BY <1>1 DEF CellType
  <2>2. cell' \in CellType /\ cell'.first = cell.first /\ cell'.nr = cell.nr
        /\ cell'.life = cell.life /\ cell'.ref = cell.ref /\ cell'.status = cell.status
    BY <1>1, <1>2, <2>1, Zenon DEF CellType
  <2>3. cell'.cancelled = cell.cancelled /\ cell'.kr = TRUE /\ cell'.noNew = cell.noNew
    BY <1>1, <1>2 DEF CellType
  <2> QED
    BY <2>2, <2>3, Zenon DEF Ahead
<1> DEFINE r == [proc[p] EXCEPT !.pc = "send"]
<1>8. proc' = [proc EXCEPT ![p] = r]
  BY <1>1 DEF StartRetr, Goto
<1>9. /\ r \in ProcType /\ r.pc = "send" /\ r.op = proc[p].op
      /\ r.b = proc[p].b /\ r.todo = proc[p].todo
  BY <1>1 DEF ProcType, Pcs, RequestPcs
<1> HIDE DEF r
<1>10. At(r, cell')
  <2>1. At(r, cell)
    BY <1>3, <1>9 DEF WorkerOK, At, TimerPcs, CancelPcs
  <2> QED
    BY <1>4, <1>7, <2>1, AtKept DEF Ahead
<1>11. proc'[p] = r
  BY <1>1, <1>8, <1>9, ProcMove, Zenon
<1>12. RequestOK(p)' /\ WinnerOK(p)'
  <2>1. \A b \in proc[p].todo : uac[b].sent = "no"
    BY <1>2, <1>3 DEF RequestOK, Proc
  <2> QED
    BY <1>2, <1>7, <1>9, <1>11, <2>1 DEF RequestOK, WinnerOK, Proc
<1> QED
  BY <1>1, <1>2, <1>6, <1>7, <1>8, <1>9, <1>10, <1>12, Unmoved, StayStep, Zenon

\* t_forward_nonack starts a round, or refuses a cancelled transaction.
LEMMA ForwardStep ==
  ASSUME IInv, NEW p \in Workers, t_forward_nonack(p)
  PROVE  IInv'
<1>1. /\ TypeOK /\ p \in Procs /\ proc[p] \in ProcType /\ cell \in CellType
      /\ uac \in UacType /\ link \in LinkType
  BY ProcNames DEF IInv, TypeOK
<1>2. /\ ~Proc(p, "idle") /\ uac' = uac /\ kind' = kind /\ Proc(p, "fwd") /\ link' = link
      /\ proc[p].pc \in RequestPcs
  BY DEF t_forward_nonack, Proc, RequestPcs
<1>3. WorkerOK(p) /\ RequestOK(p) /\ BranchOK(uac, cell, link)
  BY DEF IInv, WorkerInv, RequestInv, BranchInv
<1>4. cell.nr = 0 /\ Quiet /\ cell.first = 0
  BY <1>2, <1>3 DEF RequestOK, Proc, BranchOK
<1>5. cell' = cell
  <2>1. cell = [cell EXCEPT !.first = 0]
    BY <1>1, <1>4 DEF CellType
  <2> QED
    BY <1>4, <2>1 DEF t_forward_nonack
<1>6. PICK x \in {"kill", "add"} : proc' = [proc EXCEPT ![p].pc = x]
  BY DEF t_forward_nonack, Goto
<1> DEFINE r == [proc[p] EXCEPT !.pc = x]
<1>7. proc' = [proc EXCEPT ![p] = r]
  BY <1>1, <1>6
<1>8. /\ r \in ProcType /\ r.pc = x /\ r.op = proc[p].op
      /\ r.b = proc[p].b /\ r.todo = proc[p].todo
  BY <1>1 DEF ProcType, Pcs, RequestPcs
<1> HIDE DEF r
<1>9. At(r, cell')
  BY <1>3, <1>5, <1>8 DEF WorkerOK, At, TimerPcs, CancelPcs
<1>10. proc'[p] = r
  BY <1>1, <1>7, <1>8, ProcMove, Zenon
<1>11. RequestOK(p)' /\ WinnerOK(p)'
  <2>1. r.todo = {}
    BY <1>3, <1>4, <1>8 DEF WorkerOK, At, Added
  <2>2. \A b \in Branches : ~(b < cell.nr)
    BY <1>4, BranchNumbers
  <2>3. Quiet'
    BY <1>2, <1>4 DEF Quiet
  <2> QED
    BY <1>5, <1>8, <1>10, <2>1, <2>2, <2>3 DEF RequestOK, WinnerOK, Proc
<1> QED
  BY <1>1, <1>2, <1>5, <1>7, <1>8, <1>9, <1>11, Unmoved, StayStep, Zenon

\* The last branch was appended: sending starts, or the request is killed.
LEMMA BranchesAddedStep ==
  ASSUME IInv, NEW p \in Workers, BranchesAdded(p)
  PROVE  IInv'
<1>1. /\ TypeOK /\ p \in Procs /\ proc[p] \in ProcType /\ cell \in CellType
      /\ uac \in UacType /\ link \in LinkType
  BY ProcNames DEF IInv, TypeOK
<1>2. /\ ~Proc(p, "idle") /\ uac' = uac /\ kind' = kind /\ Proc(p, "add") /\ link' = link
      /\ proc[p].pc \in RequestPcs /\ cell' = cell
  BY DEF BranchesAdded, Proc, RequestPcs
<1>3. WorkerOK(p) /\ RequestOK(p)
  BY DEF IInv, WorkerInv, RequestInv
<1>4. /\ Quiet
      /\ \A b \in Branches : b < cell.nr => b \in proc[p].todo \/ uac[b].sent = "failed"
      /\ \A b \in proc[p].todo : uac[b].sent = "no"
  BY <1>2, <1>3 DEF RequestOK, Proc
<1>6. PICK x \in {"kill", "send"} : /\ proc' = [proc EXCEPT ![p].pc = x]
                                    /\ x = "kill" => proc[p].todo = {}
  BY Zenon DEF BranchesAdded, Goto
<1> DEFINE r == [proc[p] EXCEPT !.pc = x]
<1>5. proc' = [proc EXCEPT ![p].pc = x]
  BY <1>6
<1>7. proc' = [proc EXCEPT ![p] = r]
  BY <1>1, <1>5
<1>8. /\ r \in ProcType /\ r.pc = x /\ r.op = proc[p].op
      /\ r.b = proc[p].b /\ r.todo = proc[p].todo
  BY <1>1 DEF ProcType, Pcs, RequestPcs
<1> HIDE DEF r
<1>9. At(r, cell')
  BY <1>2, <1>3, <1>8 DEF WorkerOK, At, TimerPcs, CancelPcs
<1>10. proc'[p] = r
  BY <1>1, <1>7, <1>8, ProcMove, Zenon
<1>11. RequestOK(p)' /\ WinnerOK(p)'
  <2>1. Quiet'
    BY <1>2, <1>4 DEF Quiet
  <2>2. WinnerOK(p)' /\ proc'[p].pc \in {"kill", "send"} /\ proc'[p].todo = proc[p].todo
    BY <1>8, <1>10 DEF WinnerOK, Proc
  <2>3. x = "kill" => proc[p].todo = {}
    BY <1>6
  <2>4. proc'[p].pc = "kill" => \A b \in Branches : b < cell.nr => uac[b].sent = "failed"
    BY <1>4, <1>8, <1>10, <2>3
  <2> QED
    BY <1>2, <1>4, <2>1, <2>2, <2>4 DEF RequestOK, Proc
<1> QED
  BY <1>1, <1>2, <1>7, <1>8, <1>9, <1>11, Unmoved, StayStep, Zenon

\* add_uac appends one branch to the round that is being forked.
LEMMA AddUacStep ==
  ASSUME IInv, NEW p \in Workers, add_uac(p)
  PROVE  IInv'
<1>1. /\ TypeOK /\ p \in Procs /\ proc[p] \in ProcType /\ cell \in CellType
      /\ uac \in UacType /\ link \in LinkType
  BY ProcNames DEF IInv, TypeOK
<1>2. /\ ~Proc(p, "idle") /\ kind' = kind /\ Proc(p, "add") /\ link' = link
      /\ proc[p].pc \in RequestPcs /\ cell.nr < MaxBranches
      /\ cell' = [cell EXCEPT !.nr = cell.nr + 1]
  BY DEF add_uac, Proc, RequestPcs
<1>3. WorkerOK(p) /\ RequestOK(p) /\ BranchOK(uac, cell, link) /\ ReplyOK(uac, cell.status)
      /\ (cell.noNew => cell.status >= 200)
  BY DEF IInv, WorkerInv, RequestInv, BranchInv, ReplyInv
<1>4. cell.nr \in Nat /\ cell.first \in Nat /\ cell.nr \in Branches
  BY <1>1, <1>2, CellNumbers, BranchNumbers
<1>5. /\ cell' \in CellType /\ cell'.first = cell.first /\ cell'.nr = cell.nr + 1
      /\ cell'.life = cell.life /\ cell'.ref = cell.ref /\ cell'.status = cell.status
  <2>1. cell.nr + 1 \in 0..MaxBranches
    BY <1>2, <1>4, BranchNumbers
  <2> QED
    BY <1>1, <1>2, <2>1 DEF CellType
<1>6. cell'.cancelled = cell.cancelled /\ cell'.kr = cell.kr /\ cell'.noNew = cell.noNew
  BY <1>1, <1>2 DEF CellType
<1> DEFINE n == cell.nr
           q == [uac[n] EXCEPT !.buffer = TRUE, !.round = cell.first]
<1>7. uac' = [uac EXCEPT ![n] = q]
  BY <1>1, <1>4, Zenon DEF add_uac, UacType
<1>8. cell.first \in Branches
  BY <1>3, <1>4, BranchNumbers DEF BranchOK
<1>9. /\ q \in BranchType /\ q.last = uac[n].last /\ q.sent = uac[n].sent
      /\ q.round = cell.first
  <2>1. uac[n] \in BranchType
    BY <1>1, <1>4 DEF UacType
  <2>2. \A x \in BOOLEAN : [uac[n] EXCEPT !.buffer = x, !.round = cell.first] \in BranchType
    BY <1>8, <2>1, Zenon DEF BranchType
  <2>3. q \in BranchType
    BY <2>2, Truths, Zenon
  <2> QED
    BY <2>1, <2>3 DEF BranchType
<1>10. q.buffer /\ q.reply = uac[n].reply
  BY <1>1, <1>4 DEF UacType, BranchType
<1> HIDE DEF q
<1>11. /\ uac' \in UacType /\ uac'[n] = q
       /\ \A b \in Branches : b # n => uac'[b] = uac[b]
  BY <1>1, <1>4, <1>7, <1>9 DEF UacType
<1>12. \A b \in Branches : uac'[b].last = uac[b].last /\ uac'[b].sent = uac[b].sent
  BY <1>9, <1>11
<1>13. \A b \in Branches : uac'[b].reply = uac[b].reply
  BY <1>10, <1>11
<1>14. Waits(link, link')
  BY <1>1, <1>2 DEF Waits
<1>15. Held
  <2>1. cell.nr <= cell'.nr
    BY <1>4, <1>5
  <2> QED
    BY <1>5, <1>6, <1>12, <1>13, <1>14, <2>1, Zenon DEF Held, Grown
<1>16. BranchOK(uac', cell', link')
  <2>1. ASSUME NEW b \in Branches, b # n
        PROVE  /\ b >= cell'.nr <=> b >= cell.nr
               /\ b < cell'.nr <=> b < cell.nr
    BY <1>4, <1>5, <2>1, BranchNumbers
  <2>2. ~(n >= cell'.nr) /\ ~(n < cell.first) /\ ~(cell'.nr = 0) /\ cell'.first < cell'.nr
    BY <1>3, <1>4, <1>5 DEF BranchOK
  <2> HIDE DEF n
  <2>3. ASSUME NEW b \in Branches, b # n
        PROVE  /\ b >= cell'.nr => /\ uac'[b].last = 0 /\ ~uac'[b].buffer /\ uac'[b].sent = "no"
                                   /\ uac'[b].round = None /\ link'[fr(b)] = "off"
               /\ b < cell'.nr => uac'[b].buffer
               /\ b < cell'.nr /\ cell'.first <= b => uac'[b].round = cell'.first
               /\ b < cell'.first => /\ uac'[b].round # None /\ uac'[b].round < cell'.first
                                     /\ uac'[b].last >= 200 \/ uac'[b].sent = "failed"
    <3>1. uac'[b] = uac[b]
      BY <1>11, <2>3
    <3> QED
      BY <1>2, <1>3, <1>5, <2>1, <2>3, <3>1 DEF BranchOK
  <2>4. uac'[n].buffer /\ uac'[n].round = cell'.first
    BY <1>5, <1>9, <1>10, <1>11
  <2> QED
    BY <1>5, <2>2, <2>3, <2>4 DEF BranchOK
<1>17. ReplyOK(uac', cell'.status)
  BY <1>3, <1>5, <1>12, <1>13 DEF ReplyOK
<1>18. cell'.noNew => cell'.status >= 200
  BY <1>3, <1>5, <1>6
<1> DEFINE r == [proc[p] EXCEPT !.todo = proc[p].todo \cup {n}]
<1>19. proc' = [proc EXCEPT ![p] = r]
  BY <1>1 DEF add_uac
<1>20. /\ r \in ProcType /\ r.pc = "add" /\ r.op = proc[p].op
       /\ r.b = proc[p].b /\ r.todo = proc[p].todo \cup {n}
  BY <1>1, <1>2, <1>4 DEF ProcType, Proc
<1> HIDE DEF r
<1>21. proc' \in [Procs -> ProcType] /\ proc'[p] = r /\ Others(p)
  BY <1>1, <1>19, <1>20, ProcMove, Zenon
<1>22. WorkerOK(p)'
  <2>1. r.todo \subseteq Added(cell')
    BY <1>3, <1>4, <1>5, <1>20 DEF WorkerOK, At, Added
  <2>2. r.op = "cancel" => cell'.cancelled
    BY <1>3, <1>6, <1>20, Zenon DEF WorkerOK, At
  <2> QED
    BY <1>20, <1>21, <2>1, <2>2 DEF WorkerOK, At, TimerPcs, CancelPcs
<1>23. RequestOK(p)' /\ WinnerOK(p)'
  <2>1. Quiet'
    BY <1>2, <1>3, <1>12 DEF RequestOK, Quiet, Proc
  <2>2. \A b \in Branches : b < cell'.nr => b \in r.todo \/ uac'[b].sent = "failed"
    <3>1. ASSUME NEW b \in Branches, b < cell'.nr
          PROVE  b = n \/ b < cell.nr
      <4>1. b \in Nat /\ cell.nr \in Nat /\ cell'.nr = cell.nr + 1
        BY <1>4, <1>5, BranchNumbers, Zenon
      <4> QED
        BY <3>1, <4>1
    <3> QED
      BY <1>2, <1>3, <1>12, <1>20, <3>1 DEF RequestOK, Proc
  <2>3. \A b \in r.todo : uac'[b].sent = "no"
    <3>1. uac[n].sent = "no"
      BY <1>3, <1>4 DEF BranchOK
    <3>2. proc[p].todo \subseteq Branches
      BY <1>1 DEF ProcType
    <3> QED
      BY <1>2, <1>3, <1>4, <1>12, <1>20, <3>1, <3>2 DEF RequestOK, Proc
  <2> QED
    BY <1>20, <1>21, <2>1, <2>2, <2>3 DEF RequestOK, WinnerOK, Proc
<1>24. TypeOK'
  BY <1>1, <1>2, <1>5, <1>11, <1>21 DEF TypeOK
<1>25. Stays(p)
  BY <1>2, <1>5, <1>20, <1>21 DEF Stays, Proc
<1> QED
  BY <1>2, <1>15, <1>16, <1>17, <1>18, <1>21, <1>22, <1>23, <1>24, <1>25, WorkerMove
     DEF BranchInv, ReplyInv

\* The request goes out on one branch, or the send fails.
LEMMA SendStep ==
  ASSUME IInv, NEW p \in Workers, NEW ok, SendBranch(p, ok)
  PROVE  IInv'
<1>1. /\ TypeOK /\ p \in Procs /\ proc[p] \in ProcType /\ cell \in CellType
      /\ uac \in UacType /\ link \in LinkType
  BY ProcNames DEF IInv, TypeOK
<1>2. /\ ~Proc(p, "idle") /\ kind' = kind /\ Proc(p, "send") /\ link' = link
      /\ proc[p].pc \in RequestPcs /\ cell' = cell /\ proc[p].todo # {}
  BY DEF SendBranch, Proc, RequestPcs
<1>3. WorkerOK(p) /\ RequestOK(p) /\ BranchOK(uac, cell, link) /\ ReplyOK(uac, cell.status)
      /\ (cell.noNew => cell.status >= 200)
  BY DEF IInv, WorkerInv, RequestInv, BranchInv, ReplyInv
<1> DEFINE b == Min(proc[p].todo)
<1>4. b \in proc[p].todo /\ b \in Branches
  BY <1>1, <1>2, MinOf DEF ProcType
<1>5. PICK s, x : /\ (s = "yes" /\ x = "retr") \/ (s = "failed" /\ x = "send")
                  /\ uac' = [uac EXCEPT ![b].sent = s]
                  /\ proc' = [proc EXCEPT ![p].pc = x, ![p].b = b, ![p].todo = @ \ {b}]
  BY Zenon DEF SendBranch
<1>s. uac' = [uac EXCEPT ![b].sent = s] /\ s \in {"yes", "failed"}
  BY <1>5
<1>x. proc' = [proc EXCEPT ![p].pc = x, ![p].b = b, ![p].todo = @ \ {b}] /\ x \in {"retr", "send"}
  BY <1>5
<1>6. \A n \in proc[p].todo : uac[n].sent = "no"
  BY <1>2, <1>3 DEF RequestOK, Proc
<1> HIDE DEF b
<1>7. b \in 0..(cell.nr - 1) /\ cell.nr \in Nat /\ b < cell.nr
  <2>1. cell.nr \in Nat
    BY <1>1, CellNumbers
  <2> QED
    BY <1>3, <1>4, <2>1 DEF WorkerOK, At, Added
<1>8. /\ uac' \in UacType /\ uac'[b].sent = s
      /\ \A a \in Branches : /\ a # b => uac'[a] = uac[a]
                             /\ uac'[a].last = uac[a].last /\ uac'[a].round = uac[a].round
  BY <1>1, <1>4, <1>s DEF UacType, BranchType
<1>9. \A a \in Branches : uac'[a].reply = uac[a].reply /\ uac'[a].buffer = uac[a].buffer
  BY <1>1, <1>4, <1>s DEF UacType, BranchType
<1>10. Held
  <2>1. Waits(link, link')
    BY <1>1, <1>2 DEF Waits
  <2>2. \A a \in Branches : uac[a].sent = "yes" => uac'[a].sent = "yes"
    BY <1>4, <1>6, <1>8
  <2>3. cell.nr <= cell'.nr
    BY <1>2, <1>7
  <2> QED
    BY <1>2, <1>9, <2>1, <2>2, <2>3, Zenon DEF Held, Grown
<1>11. BranchOK(uac', cell', link')
  <2>1. \A a \in Branches : a >= cell.nr => uac'[a].sent = uac[a].sent
    <3>1. ~(b >= cell.nr)
      BY <1>7
    <3> QED
      BY <1>8, <3>1
  <2>2. \A a \in Branches : uac[a].sent = "failed" => uac'[a].sent = "failed"
    BY <1>4, <1>6, <1>8
  <2> QED
    BY <1>2, <1>3, <1>8, <1>9, <2>1, <2>2 DEF BranchOK
<1>12. ReplyOK(uac', cell'.status)
  <2>1. \A a \in Branches : uac'[a].last = uac[a].last /\ uac'[a].reply = uac[a].reply
    BY <1>8, <1>9
  <2>2. ReplyOK(uac, cell'.status)
    BY <1>2, <1>3, Zenon
  <2> QED
    BY <2>1, <2>2 DEF ReplyOK
<1> DEFINE r == [proc[p] EXCEPT !.pc = x, !.b = b, !.todo = proc[p].todo \ {b}]
<1>13. proc' = [proc EXCEPT ![p] = r]
  BY <1>1, <1>x, Zenon
<1>14. /\ r \in ProcType /\ r.pc = x /\ r.op = proc[p].op
       /\ r.b = b /\ r.todo = proc[p].todo \ {b}
  <2>1. b \in Int
    BY <1>4, BranchNumbers
  <2> QED
    BY <1>1, <1>x, <2>1, Zenon DEF ProcType, Pcs, RequestPcs
<1> HIDE DEF r
<1>15. proc' \in [Procs -> ProcType] /\ proc'[p] = r /\ Others(p)
  BY <1>1, <1>13, <1>14, ProcMove, Zenon
<1>16. WorkerOK(p)'
  <2>1. b \in Added(cell)
    BY <1>7 DEF Added
  <2>2. At(r, cell)
    BY <1>3, <1>14, <1>x, <2>1 DEF WorkerOK, At, TimerPcs, CancelPcs
  <2> QED
    BY <1>2, <1>15, <2>2 DEF WorkerOK
<1>17. RequestOK(p)'
  <2>1. \A a \in r.todo : uac'[a].sent = "no"
    <3>1. proc[p].todo \subseteq Branches
      BY <1>1 DEF ProcType
    <3> QED
      BY <1>6, <1>8, <1>14, <3>1
  <2>2. CASE x = "retr" /\ s = "yes"
    BY <1>8, <1>14, <1>15, <2>1, <2>2 DEF RequestOK, Proc
  <2>3. CASE x = "send" /\ s = "failed"
    <3>1. ~cell.kr => /\ Quiet
                      /\ \A a \in Branches : a < cell.nr => a \in proc[p].todo \/ uac[a].sent = "failed"
      BY <1>2, <1>3, Zenon DEF RequestOK, Proc
    <3>2. Quiet => Quiet'
      BY <1>2, <1>8, <2>3 DEF Quiet
    <3>3. ~cell.kr => \A a \in Branches : a < cell.nr => a \in r.todo \/ uac'[a].sent = "failed"
      BY <1>8, <1>14, <2>3, <3>1
    <3> QED
      BY <1>2, <1>14, <1>15, <2>1, <2>3, <3>1, <3>2, <3>3, Zenon DEF RequestOK, Proc
  <2> QED
    BY <1>5, <2>2, <2>3
<1>18. WinnerOK(p)'
  BY <1>14, <1>15, <1>x DEF WinnerOK, Proc
<1>19. TypeOK'
  BY <1>1, <1>2, <1>8, <1>15 DEF TypeOK
<1>20. Stays(p)
  BY <1>2, <1>14, <1>15, <1>x DEF Stays, Proc
<1>21. cell'.noNew => cell'.status >= 200
  BY <1>2, <1>3
<1> QED
  BY <1>2, <1>10, <1>11, <1>12, <1>15, <1>16, <1>17, <1>18, <1>19, <1>20, <1>21, WorkerMove
     DEF BranchInv, ReplyInv

\* cancel_invite reads a branch without the lock ...
LEMMA CancelScanStep ==
  ASSUME IInv, NEW p \in Workers, CancelScan(p)
  PROVE  IInv'
<1>1. /\ TypeOK /\ p \in Procs /\ proc[p] \in ProcType /\ cell \in CellType
      /\ uac \in UacType /\ WorkerOK(p) /\ cell.nr \in Nat /\ cell.nr <= MaxBranches
  BY Now
<1>2. /\ Proc(p, "scan") /\ ~Proc(p, "idle") /\ cell' = cell /\ uac' = uac /\ link' = link /\ kind' = kind
  BY DEF CancelScan, Proc
<1> DEFINE x == IF proc[p].b < cell.nr THEN "mark" ELSE "cancel"
           n == IF proc[p].b < cell.nr /\ uac[proc[p].b].cancel = "null"
                  THEN uac[proc[p].b].last ELSE 999
           r == [proc[p] EXCEPT !.pc = x, !.seen = n]
<1>3. proc' = [proc EXCEPT ![p].pc = x, ![p].seen = n]
  BY DEF CancelScan
<1>4. proc[p].b \in Nat /\ proc[p].op = "cancel"
  BY <1>1, <1>2 DEF WorkerOK, At, Proc, CancelPcs
<1>5. n \in Int
  <2>1. proc[p].b < cell.nr => proc[p].b \in Branches
    BY <1>1, <1>4, BranchNumbers
  <2>2. proc[p].b < cell.nr => uac[proc[p].b].last \in StatusCodes
    BY <1>1, <2>1 DEF UacType, BranchType
  <2> QED
    BY <2>2, CodeNumbers
<1>6. x \in {"mark", "cancel"} /\ (x = "mark" => proc[p].b \in Added(cell))
  BY <1>1, <1>4 DEF Added
<1> HIDE DEF x, n
<1>11. proc' = [proc EXCEPT ![p] = r]
  BY <1>1, <1>3, Zenon
<1>7. x \in {"mark", "cancel"}
  BY <1>6
<1>8. r \in ProcType /\ r.pc = x /\ r.op = proc[p].op /\ r.b = proc[p].b /\ r.todo = proc[p].todo
  BY <1>1, <1>5, <1>7, Zenon DEF ProcType, Pcs, CancelPcs
<1> HIDE DEF r
<1>9. At(r, cell')
  BY <1>1, <1>2, <1>4, <1>6, <1>8 DEF WorkerOK, At, TimerPcs, CancelPcs
<1>10. r.pc \in PlainPcs /\ r.pc \notin RequestPcs
  BY <1>7, <1>8 DEF PlainPcs, CancelPcs, RequestPcs
<1> QED
  BY <1>1, <1>2, <1>11, <1>8, <1>9, <1>10, Unmoved, StayPlain, Zenon

\* ... and marks it for what it has read.
LEMMA CancelMarkStep ==
  ASSUME IInv, NEW p \in Workers, CancelMark(p)
  PROVE  IInv'
<1>1. /\ TypeOK /\ p \in Procs /\ proc[p] \in ProcType /\ cell \in CellType
      /\ uac \in UacType /\ WorkerOK(p) /\ cell.nr \in Nat /\ cell.nr <= MaxBranches
  BY Now
<1>2. /\ Proc(p, "mark") /\ ~Proc(p, "idle") /\ cell' = cell /\ link' = link /\ kind' = kind
  BY DEF CancelMark, Proc
<1> DEFINE b == proc[p].b
           m == IF Provisional(proc[p].seen) THEN proc[p].bm \cup {b} ELSE proc[p].bm
           r == [proc[p] EXCEPT !.pc = "scan", !.b = b + 1, !.bm = m]
<1>4. Kept(uac, uac') /\ b \in Branches /\ b \in Nat /\ proc[p].op = "cancel"
  BY MarkedKept
<1>3. proc' = [proc EXCEPT ![p] = r]
  BY <1>1, Zenon DEF CancelMark
<1>6. m \in SUBSET Branches
  BY <1>1, <1>4 DEF ProcType
<1> HIDE DEF m
<1>8. r \in ProcType /\ r.pc = "scan" /\ r.op = proc[p].op /\ r.b \in Nat /\ r.todo = proc[p].todo
  <2>1. "scan" \in Pcs
    BY DEF Pcs, CancelPcs
  <2>2. b + 1 \in Int /\ b + 1 \in Nat
    BY <1>4
  <2>3. \A n \in Int : LET x == [proc[p] EXCEPT !.pc = "scan", !.b = n, !.bm = m]
                      IN /\ x \in ProcType /\ x.pc = "scan" /\ x.op = proc[p].op /\ x.b = n
                         /\ x.todo = proc[p].todo
    BY <1>1, <1>6, <2>1, Zenon DEF ProcType
  <2> QED
    BY <2>2, <2>3, Zenon
<1> HIDE DEF r
<1>9. At(r, cell')
  BY <1>1, <1>2, <1>4, <1>8, Zenon DEF WorkerOK, At, TimerPcs, CancelPcs
<1>10. r.pc \in PlainPcs /\ r.pc \notin RequestPcs
  BY <1>8 DEF PlainPcs, CancelPcs, RequestPcs
<1> QED
  BY <1>1, <1>2, <1>3, <1>4, <1>8, <1>9, <1>10, Unmoved, StayPlain, Zenon

\* cancel_uacs sends the CANCELs that were marked.
LEMMA CancelUacsStep ==
  ASSUME IInv, NEW p \in Workers, cancel_uacs(p)
  PROVE  IInv'
<1>1. /\ TypeOK /\ p \in Procs /\ proc[p] \in ProcType /\ cell \in CellType
      /\ uac \in UacType /\ WorkerOK(p) /\ cell.nr \in Nat /\ cell.first \in Nat
  BY Now
<1>2. /\ Proc(p, "cancel") /\ ~Proc(p, "idle") /\ cell' = cell /\ link' = link /\ kind' = kind
      /\ Kept(uac, uac')
  BY <1>1, CancelBranchKept DEF cancel_uacs, Proc
<1> DEFINE r == [proc[p] EXCEPT !.pc = "try487", !.b = cell.first, !.bm = {}, !.seen = 0]
<1>3. proc' = [proc EXCEPT ![p] = r]
  BY <1>1, Zenon DEF cancel_uacs
<1>4. proc[p].op = "cancel"
  BY <1>1, <1>2 DEF WorkerOK, At, Proc, CancelPcs
<1>8. r \in ProcType /\ r.pc = "try487" /\ r.op = proc[p].op /\ r.b \in Nat /\ r.todo = proc[p].todo
  <2>1. "try487" \in Pcs
    BY DEF Pcs, CancelPcs
  <2>2. proc[p] \in ProcType
    BY <1>1
  <2>3. {} \in SUBSET Branches /\ cell.first \in Int /\ 0 \in Int
    BY <1>1
  <2> DEFINE n == cell.first
             m == {}
  <2>4. m \in SUBSET Branches /\ n \in Int /\ r = [proc[p] EXCEPT !.pc = "try487", !.b = n, !.bm = m, !.seen = 0]
    BY <2>3
  <2> HIDE DEF m, r
  <2>5. r \in ProcType /\ r.pc = "try487" /\ r.op = proc[p].op /\ r.b = n /\ r.todo = proc[p].todo
    BY <2>1, <2>2, <2>3, <2>4, Zenon DEF ProcType
  <2> QED
    BY <1>1, <2>5
<1> HIDE DEF r
<1>9. At(r, cell')
  BY <1>1, <1>2, <1>4, <1>8, Zenon DEF WorkerOK, At, TimerPcs, CancelPcs
<1>10. r.pc \in PlainPcs /\ r.pc \notin RequestPcs
  BY <1>8 DEF PlainPcs, CancelPcs, RequestPcs
<1> QED
  BY <1>1, <1>2, <1>3, <1>8, <1>9, <1>10, Unmoved, StayPlain, Zenon

\* cancel_invite stops the timer of a branch nothing was heard of.
LEMMA CancelInviteStep ==
  ASSUME IInv, NEW p \in Workers, cancel_invite(p)
  PROVE  IInv'
<1>1. /\ TypeOK /\ p \in Procs /\ proc[p] \in ProcType /\ cell \in CellType
      /\ link \in LinkType /\ WorkerOK(p) /\ cell.nr \in Nat /\ cell.nr <= MaxBranches
  BY Now
<1>2. /\ Proc(p, "try487") /\ ~Proc(p, "idle") /\ cell' = cell /\ uac' = uac /\ kind' = kind
      /\ proc[p].b < cell.nr
  BY DEF cancel_invite, Proc
<1>3. proc[p].b \in Nat /\ proc[p].op = "cancel"
  BY <1>1, <1>2 DEF WorkerOK, At, Proc, CancelPcs
<1>4. proc[p].b \in Branches /\ proc[p].b \in Added(cell)
  BY <1>1, <1>2, <1>3, BranchNumbers DEF Added
<1>5. Tame
  <2>1. wait_tl \notin {fr(proc[p].b)} /\ dele_tl \notin {fr(proc[p].b)}
    BY <1>4, LinkNames
  <2>2. link' = link \/ link' = reset_timer(link, {fr(proc[p].b)})
    BY DEF cancel_invite
  <2> QED
    BY <1>1, <2>1, <2>2, ResetTimerWaits, Unmoved
<1>6. PICK r : /\ proc' = [proc EXCEPT ![p] = r]
               /\ \/ r = [proc[p] EXCEPT !.pc = "lock487"]
                  \/ r = [proc[p] EXCEPT !.b = proc[p].b + 1]
  BY <1>1, Zenon DEF cancel_invite, Goto
<1>7. /\ r \in ProcType /\ r.op = proc[p].op /\ r.todo = proc[p].todo /\ r.b \in Nat
      /\ r.pc \in {"lock487", "try487"} /\ (r.pc = "lock487" => r.b \in Added(cell))
  <2>1. CASE r = [proc[p] EXCEPT !.pc = "lock487"]
    BY <1>1, <1>3, <1>4, <2>1 DEF ProcType, Pcs, CancelPcs
  <2>2. CASE r = [proc[p] EXCEPT !.b = proc[p].b + 1]
    BY <1>1, <1>2, <1>3, <2>2 DEF ProcType, Proc
  <2> QED
    BY <1>6, <2>1, <2>2
<1>8. proc' = [proc EXCEPT ![p] = r]
  BY <1>6
<1>9. At(r, cell')
  BY <1>1, <1>2, <1>3, <1>7 DEF WorkerOK, At, TimerPcs, CancelPcs
<1>10. r.pc \in PlainPcs /\ r.pc \notin RequestPcs
  BY <1>7 DEF PlainPcs, CancelPcs, RequestPcs
<1> QED
  BY <1>1, <1>2, <1>5, <1>7, <1>8, <1>9, <1>10, Unmoved, StayPlain, Zenon

\* The local 487 of a branch was relayed or stored, and the next branch is
\* looked at.
LEMMA Done487Step ==
  ASSUME IInv, NEW p \in Workers, Done487(p)
  PROVE  IInv'
<1>1. /\ TypeOK /\ p \in Procs /\ proc[p] \in ProcType /\ cell \in CellType
      /\ link \in LinkType /\ WorkerOK(p) /\ cell.nr \in Nat /\ cell.nr <= MaxBranches
  BY Now
<1>2. /\ Proc(p, "unlocked") /\ ~Proc(p, "idle") /\ cell' = Sent(p) /\ uac' = uac /\ kind' = kind
      /\ link' = FinalTimer(p) /\ proc[p].op = "cancel"
  BY DEF Done487, Proc
<1>3. Tame
  BY <1>1, <1>2, FinalTimerTame, Unmoved, Zenon
<1>4. Ahead(cell, cell') /\ cell'.ref = cell.ref
  BY <1>1, <1>2, SentAhead
<1>5. proc[p].b \in Nat
  BY <1>1, <1>2 DEF WorkerOK, At, Proc, Added
<1> DEFINE r == [Idle EXCEPT !.pc = "try487", !.op = "cancel", !.b = proc[p].b + 1]
<1>6. proc' = [proc EXCEPT ![p] = r]
  BY DEF Done487
<1>7. r \in ProcType /\ r.pc = "try487" /\ r.op = "cancel" /\ r.b \in Nat /\ r.todo = {}
  <2>1. "try487" \in Pcs /\ "cancel" \in Ops /\ proc[p].b + 1 \in Nat /\ proc[p].b + 1 \in Int
    BY <1>5 DEF Pcs, CancelPcs, Ops
  <2>2. r = [Idle EXCEPT !.pc = "try487", !.op = "cancel", !.b = proc[p].b + 1]
    OBVIOUS
  <2> HIDE DEF r
  <2>3. r \in ProcType /\ r.pc = "try487" /\ r.op = "cancel" /\ r.b = proc[p].b + 1 /\ r.todo = {}
    BY <2>1, <2>2, IdleType, Zenon DEF ProcType, Idle
  <2> QED
    BY <2>1, <2>3
<1> HIDE DEF r
<1>8. cell.cancelled
  BY <1>1, <1>2 DEF WorkerOK, At
<1>9. cell'.cancelled
  BY <1>4, <1>8 DEF Ahead
<1>10. At(r, cell')
  BY <1>7, <1>9 DEF At, TimerPcs, CancelPcs
<1>11. r.pc \in PlainPcs /\ r.pc \notin RequestPcs
  BY <1>7 DEF PlainPcs, CancelPcs, RequestPcs
<1> QED
  BY <1>1, <1>2, <1>3, <1>4, <1>6, <1>7, <1>10, <1>11, Unmoved, StayPlain, Zenon

\* REF: a worker takes a reference on the cell.
LEMMA EnterCell ==
  ASSUME cell \in CellType, NEW x \in BOOLEAN, cell.cancelled => x,
         cell' = [cell EXCEPT !.ref = cell.ref + 1, !.cancelled = x]
  PROVE  Ahead(cell, cell') /\ cell'.ref = cell.ref + 1 /\ cell'.cancelled = x
<1>1. cell'.first = cell.first /\ cell'.nr = cell.nr /\ cell'.life = cell.life
      /\ cell'.status = cell.status /\ cell'.ref = cell.ref + 1
  BY DEF CellType
<1>2. cell' \in CellType
  <2>1. \A n \in Nat : [cell EXCEPT !.ref = n, !.cancelled = x] \in CellType
    BY Zenon DEF CellType
  <2>2. cell.ref + 1 \in Nat
    BY CellNumbers
  <2> QED
    BY <2>1, <2>2, Zenon
<1>3. cell'.kr = cell.kr /\ cell'.noNew = cell.noNew /\ cell'.cancelled = x
  BY DEF CellType
<1> QED
  BY <1>1, <1>2, <1>3, Zenon DEF Ahead

\* A CANCEL finds the transaction, refers to it and marks it cancelled.
LEMMA ReceiveCancelStep ==
  ASSUME IInv, NEW p \in Workers, ReceiveCancel(p)
  PROVE  IInv'
<1>1. /\ TypeOK /\ p \in Procs /\ proc[p] \in ProcType /\ cell \in CellType
      /\ cell.nr \in Nat /\ cell.first \in Nat
  BY Now
<1>2. /\ Proc(p, "idle") /\ cell.life = "hashed" /\ uac' = uac /\ link' = link /\ kind' = kind
  BY DEF ReceiveCancel
<1>3. Ahead(cell, cell') /\ cell'.ref = cell.ref + 1 /\ cell'.cancelled
  <2>1. cell' = [cell EXCEPT !.ref = cell.ref + 1, !.cancelled = TRUE]
    BY DEF ReceiveCancel
  <2> QED
    BY <1>1, <2>1, Truths, EnterCell, Zenon
<1> DEFINE r == [Idle EXCEPT !.pc = "scan", !.op = "cancel", !.b = cell.first]
<1>4. proc' = [proc EXCEPT ![p] = r]
  BY DEF ReceiveCancel
<1>5. r \in ProcType /\ r.pc = "scan" /\ r.op = "cancel" /\ r.b \in Nat /\ r.todo = {}
  <2>1. "scan" \in Pcs /\ "cancel" \in Ops /\ cell.first \in Int
    BY <1>1 DEF Pcs, CancelPcs, Ops
  <2>2. r = [Idle EXCEPT !.pc = "scan", !.op = "cancel", !.b = cell.first]
    OBVIOUS
  <2> HIDE DEF r
  <2>3. r \in ProcType /\ r.pc = "scan" /\ r.op = "cancel" /\ r.b = cell.first /\ r.todo = {}
    BY <2>1, <2>2, IdleType, Zenon DEF ProcType, Idle
  <2> QED
    BY <1>1, <2>3
<1> HIDE DEF r
<1>6. At(r, cell')
  BY <1>3, <1>5 DEF At, TimerPcs, CancelPcs
<1>7. r.pc \in PlainPcs /\ r.pc \notin RequestPcs
  BY <1>5 DEF PlainPcs, CancelPcs, RequestPcs
<1> QED
  BY <1>1, <1>2, <1>3, <1>4, <1>5, <1>6, <1>7, Unmoved, StayPlain, Zenon

\* So does a worker with a reply or a retransmission.
LEMMA PlainEnter ==
  ASSUME cell \in CellType, cell' = [cell EXCEPT !.ref = cell.ref + 1]
  PROVE  Ahead(cell, cell') /\ cell'.ref = cell.ref + 1
<1>1. cell'.first = cell.first /\ cell'.nr = cell.nr /\ cell'.life = cell.life
      /\ cell'.status = cell.status /\ cell'.ref = cell.ref + 1
  BY DEF CellType
<1>2. cell' \in CellType
  BY CellNumbers DEF CellType
<1>3. cell'.kr = cell.kr /\ cell'.noNew = cell.noNew /\ cell'.cancelled = cell.cancelled
  BY DEF CellType
<1> QED
  BY <1>1, <1>2, <1>3, Zenon DEF Ahead

\* A retransmission of the request finds the transaction.
LEMMA RetransmissionStep ==
  ASSUME IInv, NEW p \in Workers, Retransmission(p)
  PROVE  IInv'
<1>1. TypeOK /\ p \in Procs /\ proc[p] \in ProcType /\ cell \in CellType
  BY Now
<1>2. /\ Proc(p, "idle") /\ cell.life = "hashed" /\ uac' = uac /\ link' = link /\ kind' = kind
      /\ cell' = [cell EXCEPT !.ref = cell.ref + 1]
  BY DEF Retransmission
<1>3. Ahead(cell, cell') /\ cell'.ref = cell.ref + 1
  BY <1>1, <1>2, PlainEnter
<1> DEFINE r == [Idle EXCEPT !.pc = "copy"]
<1>4. proc' = [proc EXCEPT ![p] = r]
  BY DEF Retransmission
<1>5. r \in ProcType /\ r.pc = "copy" /\ r.op = "none" /\ r.todo = {}
  BY <1>1, IdleType DEF ProcType, Idle, Pcs
<1> HIDE DEF r
<1>6. At(r, cell')
  BY <1>5 DEF At, TimerPcs, CancelPcs
<1>7. r.pc \in PlainPcs /\ r.pc \notin RequestPcs
  BY <1>5 DEF PlainPcs, CancelPcs, RequestPcs
<1> QED
  BY <1>1, <1>2, <1>3, <1>4, <1>5, <1>6, <1>7, Unmoved, StayPlain, Zenon

\* A reply finds its branch, which was sent.
LEMMA ReplyReceivedStep ==
  ASSUME IInv, NEW p \in Workers, NEW b \in Branches, NEW code \in Codes,
         reply_received(p, b, code)
  PROVE  IInv'
<1>1. /\ TypeOK /\ p \in Procs /\ proc[p] \in ProcType /\ cell \in CellType /\ uac \in UacType
      /\ link \in LinkType /\ cell.nr \in Nat
  BY Now
<1>2. /\ Proc(p, "idle") /\ cell.life = "hashed" /\ uac' = uac /\ kind' = kind
      /\ cell' = [cell EXCEPT !.ref = cell.ref + 1]
      /\ b < cell.nr /\ uac[b].sent = "yes"
  BY DEF reply_received
<1>3. Ahead(cell, cell') /\ cell'.ref = cell.ref + 1
  BY <1>1, <1>2, PlainEnter
<1>4. Tame
  <2>1. wait_tl \notin {fr(b)} /\ dele_tl \notin {fr(b)}
    BY LinkNames
  <2>2. link' = link \/ link' = reset_timer(link, {fr(b)})
    BY DEF reply_received
  <2> QED
    BY <1>1, <2>1, <2>2, ResetTimerWaits, Unmoved
<1>5. code \in ReplyCodes /\ code \in Int
  BY TransactionAssumption DEF ReplyCodes, Span
<1>6. uac[b].last \in Int /\ b \in Int
  <2>1. uac[b].last \in StatusCodes
    BY <1>1 DEF UacType, BranchType
  <2> QED
    BY <2>1, CodeNumbers, BranchNumbers
<1> DEFINE s == uac[b].last
           r == [Idle EXCEPT !.pc = "reply", !.op = "reply", !.b = b, !.code = code, !.seen = s]
<1>7. proc' = [proc EXCEPT ![p] = r]
  BY DEF reply_received
<1>12. s \in Int
  BY <1>6
<1> HIDE DEF s
<1>8. r \in ProcType /\ r.pc = "reply" /\ r.op = "reply" /\ r.b = b /\ r.code = code /\ r.todo = {}
  <2>1. "reply" \in Pcs /\ "reply" \in Ops
    BY DEF Pcs, Ops
  <2>2. r = [Idle EXCEPT !.pc = "reply", !.op = "reply", !.b = b, !.code = code, !.seen = s]
    OBVIOUS
  <2> HIDE DEF r
  <2> QED
    BY <1>5, <1>6, <1>12, <2>1, <2>2, IdleType, Zenon DEF ProcType, Idle
<1> HIDE DEF r
<1>9. At(r, cell')
  <2>1. b \in Added(cell')
    BY <1>1, <1>2, <1>3, BranchNumbers DEF Added, Ahead
  <2> QED
    BY <1>5, <1>8, <2>1 DEF At, TimerPcs, CancelPcs
<1>10. proc'[p] = r
  BY <1>1, <1>7, <1>8, ProcMove, Zenon
<1>11. RequestOK(p)' /\ WinnerOK(p)' /\ r.pc \notin RequestPcs /\ r.pc # "idle"
  BY <1>2, <1>8, <1>10 DEF RequestOK, WinnerOK, Proc, RequestPcs
<1> QED
  BY <1>1, <1>2, <1>3, <1>4, <1>7, <1>8, <1>9, <1>11, Unmoved, StayStep, Zenon

\* t_newtran inserts the cell, with the one reference of its process.
LEMMA NewtranStep ==
  ASSUME IInv, NEW p \in Workers, t_newtran(p)
  PROVE  IInv'
<1>1. /\ TypeOK /\ p \in Procs /\ proc[p] \in ProcType /\ cell \in CellType /\ uac \in UacType
      /\ link \in LinkType /\ cell.nr \in Nat /\ WorkerOK(p)
  BY Now
<1>2. /\ Proc(p, "idle") /\ cell.life = "none" /\ uac' = uac /\ link' = link /\ kind' = kind
  BY DEF t_newtran
<1>3. PICK n, m : /\ cell' = [cell EXCEPT !.life = "hashed", !.ref = 1, !.status = n, !.out = n,
                                          !.relaied = m]
                  /\ n \in {0, 100} /\ m \in {Local, cell.relaied}
  BY Zenon DEF t_newtran
<1>4. /\ cell' \in CellType /\ cell'.life = "hashed" /\ cell'.ref = 1 /\ cell'.status = n
      /\ cell'.first = cell.first /\ cell'.nr = cell.nr
  <2>1. n \in StatusCodes /\ n \in Int /\ m \in {None, Local} \cup Branches
    BY <1>1, <1>3 DEF StatusCodes, CellType, Span
  <2>2. cell' = [cell EXCEPT !.life = "hashed", !.ref = 1, !.status = n, !.out = n, !.relaied = m]
    BY <1>3
  <2> QED
    BY <1>1, <2>1, <2>2, Zenon DEF CellType
<1>5. cell'.cancelled = cell.cancelled /\ cell'.noNew = cell.noNew
  BY <1>1, <1>3 DEF CellType
<1>6. /\ Busy = {} /\ Proc(Timer, "idle") /\ cell.nr = 0 /\ cell.status = 0
      /\ link = [l \in Links |-> "off"]
  BY <1>2 DEF IInv, LifeInv
<1> DEFINE r == [proc[p] EXCEPT !.pc = "fwd", !.op = "request"]
<1>7. proc' = [proc EXCEPT ![p] = r]
  BY <1>1, Zenon DEF t_newtran
<1>8. r \in ProcType /\ r.pc = "fwd" /\ r.op = "request" /\ r.todo = proc[p].todo
  BY <1>1, Zenon DEF ProcType, Pcs, RequestPcs, Ops
<1> HIDE DEF r
<1>9. proc' \in [Procs -> ProcType] /\ proc'[p] = r /\ Others(p)
  BY <1>1, <1>7, <1>8, ProcMove, Zenon
<1>10. /\ Timer \in Procs /\ Timer # p /\ proc'[Timer] = proc[Timer]
       /\ \A q \in Workers : q # p => proc'[q] = proc[q] /\ Proc(q, "idle")
  BY <1>6, <1>9, ProcNames DEF Others, Busy
<1>11. TypeOK'
  BY <1>1, <1>2, <1>4, <1>9 DEF TypeOK
<1>12. WorkerInv'
  <2>1. ASSUME NEW q \in Workers PROVE At(proc[q], cell')
    <3>1. At(proc[q], cell)
      BY DEF IInv, WorkerInv, WorkerOK
    <3>2. cell.nr <= cell'.nr /\ cell'.nr \in Nat
      BY <1>1, <1>4
    <3>3. cell.cancelled => cell'.cancelled
      BY <1>5
    <3> QED
      BY <1>1, <3>1, <3>2, <3>3, AtKept
  <2>2. At(r, cell')
    <3>1. proc[p].todo \subseteq Added(cell')
      BY <2>1 DEF At
    <3> QED
      BY <1>8, <3>1 DEF At, TimerPcs, CancelPcs
  <2> QED
    BY <1>9, <1>10, <2>1, <2>2 DEF WorkerInv, WorkerOK
<1>13. TimerInv'
  <2>1. proc[Timer].todo = {} /\ proc[Timer].pc = "idle"
    BY <1>6 DEF IInv, TimerInv, Proc
  <2> QED
    BY <1>10, <2>1 DEF TimerInv, Proc, TimerPcs
<1>14. LifeInv'
  <2>1. Busy' = {p}
    BY <1>8, <1>9, <1>10 DEF Busy, Proc
  <2>2. Cardinality(Busy') = 1
    BY <2>1, FS_Singleton
  <2>3. link'[wait_tl] = "off" /\ link'[dele_tl] = "off"
    BY <1>2, <1>6, LinkNames
  <2>4. ~Proc(Timer, "delete")'
    BY <1>6, <1>10 DEF Proc
  <2> QED
    BY <1>4, <2>2, <2>3, <2>4 DEF LifeInv
<1>15. BranchOK(uac', cell', link')
  BY <1>2, <1>4 DEF IInv, BranchInv, BranchOK
<1>16. \A b \in Branches : uac[b].last = 0 /\ uac[b].sent = "no" /\ link[fr(b)] = "off"
  <2>1. \A b \in Branches : b >= cell.nr
    BY <1>6, BranchNumbers
  <2> QED
    BY <2>1 DEF IInv, BranchInv, BranchOK
<1>17. RequestInv'
  <2>1. Requesting' \subseteq {p}
    BY <1>10 DEF Requesting, RequestPcs, Proc
  <2>2. Quiet'
    BY <1>2, <1>16 DEF Quiet
  <2>3. RequestOK(p)'
    BY <1>4, <1>6, <1>8, <1>9, <2>2, Zenon DEF RequestOK, Proc
  <2>4. \A q \in Workers : q # p => RequestOK(q)'
    BY <1>10, Zenon DEF RequestOK, Proc
  <2> QED
    BY <2>1, <2>3, <2>4 DEF RequestInv
<1>18. ReplyInv'
  <2>1. ReplyOK(uac', cell'.status)
    BY <1>2, <1>16 DEF ReplyOK
  <2>2. ~cell.noNew
    <3>1. ~(cell.status >= 200)
      BY <1>6
    <3> QED
      BY <3>1 DEF IInv, ReplyInv
  <2> QED
    BY <1>5, <2>1, <2>2 DEF ReplyInv
<1>19. WinnerStored'
  <2> SUFFICES ASSUME NEW q \in Procs PROVE ~Proc(q, "unlocked")'
    BY DEF WinnerStored
  <2> QED
    BY <1>6, <1>8, <1>9, <1>10 DEF Procs, Proc
<1> QED
  BY <1>11, <1>12, <1>13, <1>14, <1>15, <1>17, <1>18, <1>19 DEF IInv, BranchInv

\* A worker has decided on a reply, its own or a local 487, under the lock.
LEMMA WorkerDecides ==
  ASSUME IInv, NEW p \in Workers, proc[p].pc \in {"reply", "lock487"},
         NEW u, Kept(uac, u), NEW code \in StatusCodes, Carried(p, u, proc[p].b, code), kind' = kind
  PROVE  IInv'
<1> DEFINE b == proc[p].b
<1>1. /\ TypeOK /\ p \in Procs /\ cell.nr \in Nat /\ cell.nr <= MaxBranches /\ WorkerOK(p) /\ RequestOK(p)
  BY Now
<1>2. b \in Added(cell) /\ b \in Branches /\ b < cell.nr
  <2>1. b \in Added(cell)
    BY <1>1, Zenon DEF WorkerOK, At
  <2> QED
    BY <1>1, <2>1, BranchNumbers DEF Added
<1>3. Quiet => cell.cancelled
  <2>1. CASE Proc(p, "reply")
    BY <1>1, <1>2, <2>1, Zenon DEF RequestOK, Quiet
  <2>2. CASE Proc(p, "lock487")
    BY <1>1, <2>2, Zenon DEF WorkerOK, At, Proc, CancelPcs
  <2> QED
    BY <2>1, <2>2 DEF Proc
<1>5. /\ TypeOK' /\ Held /\ Calm /\ BranchInv' /\ ReplyInv' /\ cell'.ref = cell.ref
      /\ \E r : Out(p, b, r)
  BY <1>1, <1>2, <1>3, DecideStep, Zenon
<1>6. PICK r : Out(p, b, r)
  BY <1>5
<1>7. /\ proc'[p] = r /\ Others(p) /\ r.pc = "unlocked" /\ r.op = proc[p].op /\ r.b = b
      /\ r.todo = proc[p].todo
  BY <1>1, <1>6, ProcMove, Zenon DEF Out
<1>8. WorkerOK(p)'
  <2>1. At(proc[p], cell')
    <3>1. cell.nr \in Nat /\ cell'.nr \in Nat
      BY <1>1, <1>5, BranchNumbers DEF TypeOK, CellType
    <3>2. cell.nr <= cell'.nr /\ (cell.cancelled => cell'.cancelled)
      BY <1>5, Zenon DEF Held, Grown
    <3> QED
      BY <1>1, <3>1, <3>2, AtKept DEF WorkerOK
  <2>2. proc[p].op \in {"reply", "cancel"} /\ b \in Added(cell')
    BY <2>1, Zenon DEF At, CancelPcs
  <2>3. At(r, cell')
    BY <1>7, <2>1, <2>2, Zenon DEF At, TimerPcs, CancelPcs
  <2> QED
    BY <1>7, <2>3 DEF WorkerOK
<1>9. RequestOK(p)'
  <2>1. CASE Proc(p, "reply")
    <3>1. uac'[b].sent = "yes"
      BY <1>1, <1>2, <1>5, <2>1, Zenon DEF RequestOK, Held, Grown
    <3> QED
      BY <1>7, <3>1, Zenon DEF RequestOK, Proc
  <2>2. CASE Proc(p, "lock487")
    <3>1. r.op = "cancel"
      BY <1>1, <1>7, <2>2, Zenon DEF WorkerOK, At, Proc, CancelPcs
    <3> QED
      BY <1>7, <3>1, Zenon DEF RequestOK, Proc
  <2> QED
    BY <2>1, <2>2, Zenon DEF Proc
<1>10. WinnerOK(p)'
  BY <1>6, <1>7, Zenon DEF WinnerOK, Out
<1>11. Stays(p) /\ r.pc \notin RequestPcs
  BY <1>5, <1>7 DEF Stays, Proc, RequestPcs
<1> QED
  BY <1>5, <1>7, <1>8, <1>9, <1>10, <1>11, WorkerMove, Zenon

=============================================================================
