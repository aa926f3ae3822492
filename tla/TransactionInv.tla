--------------------------- MODULE TransactionInv ---------------------------
(***************************************************************************)
(* What holds of the cell of tm at every step, for any number of branches  *)
(* and workers: the inductive invariant IInv that the proofs about         *)
(* Transaction rest on.  RefCounted and WinnerStored follow from it;       *)
(* neither is inductive by itself.                                         *)
(***************************************************************************)
EXTENDS Transaction

LinkStates == {"off", "on", "reset", "fired", "void"}
LinkType == [Links -> LinkStates]

\* The status codes from lo to hi.
Span(lo, hi) == {n \in Nat : lo <= n /\ n <= hi}

StatusCodes == Span(0, 699)

BranchType ==
  [last : StatusCodes, buffer : BOOLEAN, sent : {"no", "yes", "failed"}, reply : BOOLEAN,
   round : {None} \cup Branches, cancel : {"null", "busy", "sent"},
   toCancel : BOOLEAN, hasRecv : BOOLEAN]
UacType == [Branches -> BranchType]

CellType ==
  [life : {"none", "hashed", "removed", "freed"}, ref : Nat, status : StatusCodes,
   relaied : {None, Local} \cup Branches, out : Int,
   cancelled : BOOLEAN, noNew : BOOLEAN, onNegative : BOOLEAN,
   first : 0..MaxBranches, nr : 0..MaxBranches, kr : BOOLEAN]

RequestPcs == {"fwd", "add", "send", "retr", "kill", "killed"}
CancelPcs == {"scan", "mark", "cancel", "try487", "lock487"}
TimerPcs == {"run", "frlock", "delete"}
Pcs == {"idle", "reply", "unlocked", "copy"} \cup RequestPcs \cup CancelPcs \cup TimerPcs
Ops == {"none", "request", "reply", "cancel", "fr"}

RelayTypes == {"none", "RPS_ERROR", "RPS_STORE", "RPS_DISCARDED", "RPS_PROVISIONAL",
               "RPS_COMPLETED", "RPS_PUSHED_AFTER_COMPLETION"}

ProcType ==
  [pc : Pcs, op : Ops, b : Int, code : Int, seen : Int, rps : RelayTypes,
   relay : {None} \cup Branches, bm : SUBSET Branches, todo : SUBSET Branches]

\* The types of the cell, its branches, timer links and processes:
\* nr_of_outgoings stays within MAX_BRANCHES, ref_count is not negative.
TypeOK ==
  /\ kind \in [invite : BOOLEAN, local : BOOLEAN]
  /\ cell \in CellType
  /\ uac \in UacType
  /\ link \in LinkType
  /\ proc \in [Procs -> ProcType]

\* The branches there are.
Added(c) == 0..(c.nr - 1)

\* Where a worker may be, r, and the branch of c it works on.
ReplyCodes == Span(100, 699)
At(r, c) ==
  /\ r.pc \notin TimerPcs
  /\ r.pc \in {"reply", "lock487", "unlocked", "mark", "retr"} => r.b \in Added(c)
  /\ r.pc = "reply" => r.op = "reply" /\ r.code \in ReplyCodes
  /\ r.pc = "unlocked" => r.op \in {"reply", "cancel"}
  /\ r.pc \in CancelPcs => r.op = "cancel" /\ r.b \in Nat
  /\ r.op = "cancel" => c.cancelled
  /\ r.todo \subseteq Added(c)
WorkerOK(p) == At(proc[p], cell)
WorkerInv == \A p \in Workers : WorkerOK(p)

\* The timer process holds links that are in a list or detached.
TimerInv ==
  /\ proc[Timer].pc \in {"idle", "unlocked"} \cup TimerPcs
  /\ proc[Timer].pc \in {"frlock", "unlocked"} => proc[Timer].b \in 0..(cell.nr - 1)
  /\ proc[Timer].pc \in {"run", "frlock", "unlocked"} => proc[Timer].op = "fr"
  /\ Proc(Timer, "run") => proc[Timer].todo # {}
  /\ proc[Timer].pc \in {"idle", "delete"} => proc[Timer].todo = {}
  /\ \A b \in proc[Timer].todo : link[fr(b)] # "off"
  /\ Proc(Timer, "frlock") => link[fr(proc[Timer].b)] # "off"

\* References, and the wait and delete timers.
LifeInv ==
  /\ cell.ref = Cardinality(Busy)
  /\ cell.life = "none" => /\ Busy = {} /\ Proc(Timer, "idle")
                           /\ cell.nr = 0 /\ cell.status = 0
                           /\ link = [l \in Links |-> "off"]
  /\ link[wait_tl] \in {"off", "on", "fired"}
  /\ cell.life \in {"removed", "freed"} <=> link[wait_tl] = "fired"
  /\ link[dele_tl] = "on" => cell.life = "removed"
  /\ Proc(Timer, "delete") => cell.life = "removed" /\ link[dele_tl] = "fired"
  /\ cell.life = "freed" => Busy = {} /\ Proc(Timer, "idle")

\* The branches of u, the rounds and the timers of c and lk agree.
BranchOK(u, c, lk) ==
  /\ IF c.nr = 0 THEN c.first = 0 ELSE c.first < c.nr
  /\ \A b \in Branches :
       /\ b >= c.nr => /\ u[b].last = 0 /\ ~u[b].buffer /\ u[b].sent = "no"
                       /\ u[b].round = None /\ lk[fr(b)] = "off"
       /\ b < c.nr => u[b].buffer
       /\ b < c.nr /\ c.first <= b => u[b].round = c.first
       /\ b < c.first => /\ u[b].round # None /\ u[b].round < c.first
                         /\ u[b].last >= 200 \/ u[b].sent = "failed"

BranchInv == BranchOK(uac, cell, link)

\* Nothing was sent yet.
Quiet == \A b \in Branches : uac[b].sent # "yes" /\ link[fr(b)] = "off"

\* The workers that forward the request: at most one.
Requesting == {p \in Workers : proc[p].pc \in RequestPcs}

\* What the process that forks the request knows of its branches, and the
\* others of the one they have an answer to.
RequestOK(p) ==
  /\ Proc(p, "reply") \/ (Proc(p, "unlocked") /\ proc[p].op = "reply")
       => uac[proc[p].b].sent = "yes"
  /\ Proc(p, "fwd") => cell.nr = 0
  /\ proc[p].pc \in {"fwd", "add", "kill"} \/ (Proc(p, "send") /\ ~cell.kr) => Quiet
  /\ Proc(p, "add") \/ (Proc(p, "send") /\ ~cell.kr) =>
       \A b \in Branches : b < cell.nr => b \in proc[p].todo \/ uac[b].sent = "failed"
  /\ Proc(p, "kill") => cell.cancelled \/ \A b \in Branches : b < cell.nr => uac[b].sent = "failed"
  /\ proc[p].pc \in {"add", "send", "retr"} => \A b \in proc[p].todo : uac[b].sent = "no"
  /\ Proc(p, "retr") => uac[proc[p].b].sent = "yes"

RequestInv ==
  /\ \A p, q \in Requesting : p = q
  /\ \A p \in Workers : RequestOK(p)

ReplyOK(u, status) ==
  status < 200 => \A b \in Branches :
    u[b].last >= 200 => u[b].reply /\ u[b].last \in Span(300, 599)

\* Until something final was sent, every final reply is negative and stored.
ReplyInv == ReplyOK(uac, cell.status) /\ (cell.noNew => cell.status >= 200)

\* Between any two critical sections of tm: the cell, its branches, the timer
\* lists and what each process is about to do agree.  ref_count is that of the
\* processes, a link the timer process has detached is not forgotten, a branch
\* belongs to one round of forking, only the process that forks the request
\* touches branches not sent yet, and until something final was sent upstream
\* every final reply is negative and stored.
IInv == TypeOK /\ WorkerInv /\ TimerInv /\ LifeInv /\ BranchInv /\ RequestInv /\ ReplyInv
         /\ WinnerStored
=============================================================================
