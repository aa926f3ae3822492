---------------------------- MODULE Transaction ----------------------------
(***************************************************************************)
(* One transaction cell of the tm module (modules/tm) and everything that  *)
(* works on it at the same time: the process that received the request and *)
(* forks it, the processes that receive replies, a CANCEL, an ACK or a      *)
(* retransmission, and the timer process with its FR, WAIT and DELETE       *)
(* lists.  What runs under REPLY_LOCK, from the decision on a reply to the  *)
(* change of the status, is one step, and so is what runs under the hash    *)
(* lock; code that touches the cell without a lock is split where another   *)
(* process can come in between.  Retransmission timers, and those of the    *)
(* CANCELs sent from here, only send again and are left out.                *)
(***************************************************************************)
EXTENDS Integers, FiniteSets, FiniteSetsExt

CONSTANTS
  Workers,       \* the SIP worker processes
  MaxBranches,   \* MAX_BRANCHES
  Kinds,         \* the transactions looked at: [invite, local : BOOLEAN]
  Codes,         \* the status codes a branch may answer with
  OnFailure,     \* what failure_route may do: a subset of {"relay", "reply"}
  Failover,      \* DNS has a second address for a branch that never answered
  MaxReplies,    \* bound: replies that arrive
  MaxRetrans,    \* bound: retransmissions of the request
  MaxCancels     \* bound: CANCELs for the transaction

ASSUME TransactionAssumption ==
  /\ IsFiniteSet(Workers) /\ "timer" \notin Workers
  /\ MaxBranches \in Nat \ {0}
  /\ Kinds \subseteq [invite : BOOLEAN, local : BOOLEAN]
  /\ Codes \subseteq 100..699
  /\ OnFailure \subseteq {"relay", "reply"}
  /\ Failover \in BOOLEAN

VARIABLES
  kind,     \* method and T_IS_LOCAL_FLAG of the transaction
  cell,     \* struct cell without its branches
  uac,      \* uac[b]: the branches
  link,     \* the timer links of the cell
  proc,     \* what every process is doing
  budget    \* what the environment may still send
vars == <<kind, cell, uac, link, proc, budget>>

Branches == 0..(MaxBranches - 1)
Timer == "timer"
Procs == Workers \cup {Timer}
None == -1       \* no branch to relay
Local == -2      \* relaied_reply_branch of a reply made here

(***************************************************************************)
(* Timer links.  A link is in no list ("off"), in a list ("on"), in a list *)
(* with its deleted flag up ("reset"), on the detached list of the timer   *)
(* process ("fired") or there with the flag up ("void").                    *)
(***************************************************************************)
fr(b) == <<"fr", b>>                \* uac[b].request.fr_timer
response == <<"response", None>>    \* uas.response.fr_timer
wait_tl == <<"wait", None>>
dele_tl == <<"delete", None>>
Links == {fr(b) : b \in Branches} \cup {response, wait_tl, dele_tl}

\* A detached link is left alone.
set_timer(lk, S) ==
  [l \in Links |-> IF l \in S /\ lk[l] \in {"off", "on", "reset"}
                     THEN "on" ELSE lk[l]]

reset_timer(lk, S) ==
  [l \in Links |-> CASE l \in S /\ lk[l] = "on"    -> "reset"
                     [] l \in S /\ lk[l] = "fired" -> "void"
                     [] OTHER                      -> lk[l]]

\* Mutant: the wait timer is set again each time a reply has been sent.
PutOnWaitAgain(lk) == [lk EXCEPT ![wait_tl] = "on"]

\* The wait timer is set once in the life of a transaction.
put_on_wait(lk) ==
  IF lk[wait_tl] = "off" THEN [lk EXCEPT ![wait_tl] = "on"] ELSE lk

check_and_split_time_list(lk, S) ==
  [l \in Links |-> CASE l \in S /\ lk[l] = "on"    -> "fired"
                     [] l \in S /\ lk[l] = "reset" -> "void"
                     [] OTHER                      -> lk[l]]

\* What delete_cell takes out of the FR and RETR lists.
unlink_timers(lk) ==
  [l \in Links |-> IF l \notin {wait_tl, dele_tl} /\ lk[l] \in {"on", "reset"}
                     THEN "off" ELSE lk[l]]

start_retr(lk, b) == set_timer(lk, {fr(b)})

Round(c) == c.first..(c.nr - 1)

cleanup_uac_timers(lk, c) == reset_timer(lk, {fr(b) : b \in Round(c)})

\* INVITEs answered negatively, or here, wait for the ACK.
set_final_timer(lk, c) ==
  IF /\ kind.invite /\ ~kind.local
     /\ c.status >= 300 \/ (c.relaied = Local /\ c.status >= 200)
    THEN set_timer(lk, {response})
    ELSE put_on_wait(lk)

t_release_transaction(lk, c) ==
  put_on_wait(cleanup_uac_timers(reset_timer(lk, {response}), c))

(***************************************************************************)
(* CANCEL of branches.  cancel is local_cancel.buffer: NULL, BUSY_BUFFER or *)
(* the CANCEL that was sent.                                                *)
(***************************************************************************)
Provisional(code) == code >= 100 /\ code < 200

should_cancel_branch(u, b) == u[b].cancel = "null" /\ Provisional(u[b].last)

\* The marks left on the branches S: BUSY_BUFFER, or T_UAC_TO_CANCEL_FLAG
\* for a branch that has not been heard of.
MarkCancel(u, S) ==
  [b \in Branches |->
     CASE b \in S /\ should_cancel_branch(u, b) -> [u[b] EXCEPT !.cancel = "busy"]
       [] b \in S /\ u[b].cancel = "null" /\ u[b].last = 0
                                               -> [u[b] EXCEPT !.toCancel = TRUE]
       [] OTHER                                -> u[b]]

\* The branches with b's record replaced.
Set(u, b, rec) == [x \in Branches |-> IF x = b THEN rec ELSE u[x]]

\* Mutant: the last branch of the round is passed over.
WhichCancelShort(u, c) == {b \in Round(c) : b < c.nr - 1 /\ should_cancel_branch(u, b)}

which_cancel(u, c) == {b \in Round(c) : should_cancel_branch(u, b)}

cancel_branch(u, S) ==
  [b \in Branches |-> IF b \in S THEN [u[b] EXCEPT !.cancel = "sent"] ELSE u[b]]

(***************************************************************************)
(* Choice of the reply, from within REPLY_LOCK.                            *)
(***************************************************************************)
\* The branch preferred by t_pick_branch after it has seen branch b, when
\* it preferred best so far.
Better(u, cancelled, best, b) ==
  LET s == u[best].last
      n == u[b].last
  IN IF \/ best = None
        \/ cancelled /\ n = 487
        \/ (s # 487 \/ ~cancelled) /\ (s = 503 \/ (n # 503 /\ n < s))
       THEN b ELSE best

Pending == -3

\* Mutant: a branch without a final reply is passed over.
PickUnfinished(u, c) ==
  LET scan[b \in (c.first - 1)..(c.nr - 1)] ==
        IF b < c.first THEN None
        ELSE IF ~u[b].buffer \/ u[b].last < 200 THEN scan[b - 1]
        ELSE Better(u, c.cancelled, scan[b - 1], b)
  IN scan[c.nr - 1]

\* What becomes of the preference at branch b.
PickStep(u, c, best, b) ==
  CASE best = Pending                                    -> Pending
    [] best # Pending /\ ~u[b].buffer                    -> best
    [] best # Pending /\ u[b].buffer /\ u[b].last < 200  -> Pending
    [] OTHER                                             -> Better(u, c.cancelled, best, b)

\* The round's best branch, or Pending while one has no final reply.
t_pick_branch(u, c) ==
  LET scan[b \in (c.first - 1)..(c.nr - 1)] ==
        IF b < c.first THEN None ELSE PickStep(u, c, scan[b - 1], b)
  IN scan[c.nr - 1]

\* A branch added from within the lock, sent or not.
NewBranch(u, c, ok) ==
  Set(u, c.nr, [u[c.nr] EXCEPT !.buffer = TRUE, !.round = c.nr,
                               !.sent = IF ok THEN "yes" ELSE "failed"])

Outcome(u, c, lk, rps, relay, bm) ==
  [uac |-> u, cell |-> c, link |-> lk, rps |-> rps, relay |-> relay, bm |-> bm]

\* Mutant: the reply is not kept.
StoredNot(u, c, lk, b) == Outcome(u, c, lk, "RPS_STORE", None, {})

\* The reply on branch b is kept, and the transaction waits for the others.
Stored(u, c, lk, b) ==
  Outcome(Set(u, b, [u[b] EXCEPT !.reply = TRUE]), c, lk, "RPS_STORE", None, {})

\* t_forward_nonack from within the lock, in failure_route or for DNS
\* failover: one more branch.  It may fail before or after adding it.
Forwarded(u, c, lk, b) ==
  IF c.cancelled \/ c.noNew \/ c.nr = MaxBranches THEN {}
  ELSE {Stored(NewBranch(u, c, ok), [c EXCEPT !.first = c.nr, !.nr = @ + 1],
               IF ok THEN start_retr(lk, c.nr) ELSE lk, b) : ok \in BOOLEAN}

\* t_reply_unsafe in failure_route.  The branches bm that a 6xx has marked
\* are left to the caller.
Replied(u, c, lk, code, bm) ==
  LET mine == IF kind.invite THEN which_cancel(u, c) ELSE {}
      c2 == [c EXCEPT !.status = code, !.relaied = Local, !.out = code]
      u2 == IF kind.invite THEN cancel_branch(MarkCancel(u, Round(c)), mine) ELSE u
  IN Outcome(u2, c2, set_final_timer(cleanup_uac_timers(lk, c), c2),
             "RPS_COMPLETED", None, bm)

is_3263_failure(u, b) == u[b].last = 408 /\ ~u[b].hasRecv

\* failure_route: it does nothing, relays or replies.
run_failure_handlers(u, c, lk, b, picked, bm) ==
  LET off == [c EXCEPT !.onNegative = FALSE]
      relayed(cc) == Outcome(u, cc, lk, "RPS_COMPLETED", picked, bm)
  IN IF ~c.onNegative THEN {relayed(c)}
     ELSE {relayed(off)}
            \cup (IF "relay" \in OnFailure THEN Forwarded(u, off, lk, b) ELSE {})
            \cup (IF "reply" \in OnFailure THEN {Replied(u, off, lk, 480, bm)} ELSE {})

\* What becomes of a negative reply on branch b once picked has won: DNS
\* failover to the next address, if there is one, else failure_route.
Failed(u, c, lk, b, picked, bm) ==
  LET tries == IF Failover /\ is_3263_failure(u, picked) THEN Forwarded(u, c, lk, b) ELSE {}
      sent(o) == o.uac[c.nr].sent = "yes"
  IN UNION {run_failure_handlers(u, c, lk, b, picked, bm),
            {x \in tries : sent(x)},
            UNION {run_failure_handlers(o.uac, o.cell, o.link, b, picked, bm) :
                     o \in {x \in tries : ~sent(x)}}}

t_should_relay_response(u, c, lk, b, code) ==
  LET inv_through == code >= 200 /\ code < 300 /\ kind.invite
      u2 == Set(u, b, [u[b] EXCEPT !.last = code])
      discard == {Outcome(u, c, lk, "RPS_DISCARDED", None, {})}
      marked == MarkCancel(u2, Round(c))
  IN CASE c.status >= 200 ->
            IF inv_through
              THEN {Outcome(u2, c, lk, "RPS_PUSHED_AFTER_COMPLETION", b, {})}
              ELSE discard
       [] c.status < 200 /\ u[b].last >= 200 /\ ~(inv_through /\ u[b].last < 300) ->
            discard
       [] OTHER ->
            CASE code >= 600 ->
                   Failed(marked, [c EXCEPT !.noNew = TRUE], lk, b, b,
                          which_cancel(u2, c))
              [] code >= 300 /\ code < 600 ->
                   LET picked == t_pick_branch(u2, c)
                   IN CASE picked = Pending -> {Stored(u2, c, lk, b)}
                        [] picked = None -> {Outcome(u2, c, lk, "RPS_DISCARDED", None, {})}
                        [] OTHER -> Failed(u2, c, lk, b, picked, {})
              [] code >= 200 /\ code < 300 ->
                   {Outcome(marked, c, lk, "RPS_COMPLETED", b, which_cancel(u2, c))}
              [] OTHER ->
                   {Outcome(u2, c, lk, "RPS_PROVISIONAL",
                            IF code = 100 THEN None ELSE b, {})}

(***************************************************************************)
(* Processes.                                                              *)
(***************************************************************************)
Idle == [pc |-> "idle", op |-> "none", b |-> None, code |-> 0, seen |-> 0,
         rps |-> "none", relay |-> None, bm |-> {}, todo |-> {}]

Proc(p, pc) == proc[p].pc = pc
Goto(p, pc) == proc' = [proc EXCEPT ![p].pc = pc]

\* UNREF: the process is done with the cell c.
t_unref(p, c) ==
  /\ cell' = [c EXCEPT !.ref = @ - 1]
  /\ proc' = [proc EXCEPT ![p] = Idle]

Init ==
  /\ kind \in Kinds
  /\ cell = [life |-> "none", ref |-> 0, status |-> 0, relaied |-> None, out |-> 0,
             cancelled |-> FALSE, noNew |-> FALSE, onNegative |-> OnFailure # {},
             first |-> 0, nr |-> 0, kr |-> FALSE]
  /\ uac = [b \in Branches |->
              [last |-> 0, buffer |-> FALSE, sent |-> "no", reply |-> FALSE, round |-> None,
               cancel |-> "null", toCancel |-> FALSE, hasRecv |-> FALSE]]
  /\ link = [l \in Links |-> "off"]
  /\ proc = [p \in Procs |-> Idle]
  /\ budget = [replies |-> MaxReplies,
               retrans |-> MaxRetrans, cancels |-> MaxCancels]

(***************************************************************************)
(* The request: t_relay_to, t_forward_nonack.                              *)
(***************************************************************************)
\* t_newtran makes the cell; t_relay_to answers 100 to an INVITE.
t_newtran(p) ==
  /\ p \in Workers /\ Proc(p, "idle")
  /\ cell.life = "none"
  /\ LET code == IF kind.invite /\ ~kind.local THEN 100 ELSE 0
     IN cell' = [cell EXCEPT !.life = "hashed", !.ref = 1, !.status = code,
                             !.out = code, !.relaied = IF code = 100 THEN Local ELSE @]
  /\ proc' = [proc EXCEPT ![p].pc = "fwd", ![p].op = "request"]
  /\ UNCHANGED <<kind, uac, link, budget>>

\* t_forward_nonack refuses a cancelled transaction, otherwise a new round
\* of branches starts.
t_forward_nonack(p) ==
  /\ Proc(p, "fwd")
  /\ IF cell.cancelled \/ cell.noNew
       THEN Goto(p, "kill") /\ UNCHANGED cell
       ELSE Goto(p, "add") /\ cell' = [cell EXCEPT !.first = cell.nr]
  /\ UNCHANGED <<kind, uac, link, budget>>

add_uac(p) ==
  /\ Proc(p, "add") /\ cell.nr < MaxBranches
  /\ uac' = [uac EXCEPT ![cell.nr].buffer = TRUE, ![cell.nr].round = cell.first]
  /\ cell' = [cell EXCEPT !.nr = @ + 1]
  /\ proc' = [proc EXCEPT ![p].todo = @ \cup {cell.nr}]
  /\ UNCHANGED <<kind, link, budget>>

\* All branches are there, or none could be added.
BranchesAdded(p) ==
  /\ Proc(p, "add")
  /\ Goto(p, IF proc[p].todo = {} THEN "kill" ELSE "send")
  /\ UNCHANGED <<kind, cell, uac, link, budget>>

\* A branch is sent, or every address of it fails and it is passed over.
SendBranch(p, ok) ==
  /\ Proc(p, "send") /\ proc[p].todo # {}
  /\ LET b == Min(proc[p].todo)
     IN /\ uac' = [uac EXCEPT ![b].sent = IF ok THEN "yes" ELSE "failed"]
        /\ proc' = [proc EXCEPT ![p].pc = IF ok THEN "retr" ELSE "send",
                                ![p].b = b, ![p].todo = @ \ {b}]
  /\ UNCHANGED <<kind, cell, link, budget>>

StartRetr(p) ==
  /\ Proc(p, "retr")
  /\ link' = start_retr(link, proc[p].b)
  /\ cell' = [cell EXCEPT !.kr = TRUE]
  /\ Goto(p, "send")
  /\ UNCHANGED <<kind, uac, budget>>

\* A request that was forwarded is done.
BranchesSent(p) ==
  /\ Proc(p, "send") /\ proc[p].todo = {}
  /\ IF cell.kr THEN t_unref(p, cell) ELSE Goto(p, "kill") /\ UNCHANGED cell
  /\ UNCHANGED <<kind, uac, link, budget>>

\* kill_transaction, t_reply(..).  A reply that comes after a final one is
\* an error.
kill_transaction(p) ==
  /\ Proc(p, "kill") /\ ~kind.local
  /\ uac' = IF kind.invite THEN MarkCancel(uac, Round(cell)) ELSE uac
  /\ cell' = [cell EXCEPT !.kr = TRUE,
                          !.status = IF @ >= 200 THEN @ ELSE 500,
                          !.relaied = IF cell.status >= 200 THEN @ ELSE Local]
  /\ proc' = [proc EXCEPT ![p].pc = "killed",
                ![p].rps = IF cell.status >= 200 THEN "RPS_ERROR" ELSE "none",
                ![p].bm = IF kind.invite THEN which_cancel(uac, cell) ELSE {}]
  /\ UNCHANGED <<kind, link, budget>>

\* A replicated request is not answered: t_unref releases what the script
\* neither forwarded nor replied to.
Unreleased(p) ==
  /\ Proc(p, "kill") /\ kind.local
  /\ link' = t_release_transaction(link, cell)
  /\ t_unref(p, cell)
  /\ UNCHANGED <<kind, uac, budget>>

\* The rest of _reply_light: clean-up, final timer, the reply is sent.
_reply_light(p) ==
  /\ Proc(p, "killed")
  /\ LET lk == cleanup_uac_timers(link, cell)
     IN IF proc[p].rps = "RPS_ERROR"
          THEN link' = put_on_wait(lk) /\ t_unref(p, cell)
          ELSE link' = set_final_timer(lk, cell) /\ t_unref(p, [cell EXCEPT !.out = 500])
  /\ uac' = cancel_branch(uac, proc[p].bm)
  /\ UNCHANGED <<kind, budget>>

(***************************************************************************)
(* Replies: reply_received.                                                *)
(***************************************************************************)
\* t_check finds the cell and takes a reference; the timer of the branch is
\* stopped before the lock is asked for.
reply_received(p, b, code) ==
  /\ p \in Workers /\ Proc(p, "idle")
  /\ cell.life = "hashed" /\ b < cell.nr /\ uac[b].sent = "yes"
  /\ budget.replies > 0
  /\ budget' = [budget EXCEPT !.replies = @ - 1]
  /\ cell' = [cell EXCEPT !.ref = @ + 1]
  /\ link' = IF code >= 200 THEN reset_timer(link, {fr(b)}) ELSE link
  /\ proc' = [proc EXCEPT ![p] = [Idle EXCEPT !.pc = "reply", !.op = "reply", !.b = b,
                                              !.code = code, !.seen = uac[b].last]]
  /\ UNCHANGED <<kind, uac>>

\* onreply_route drops a provisional reply.
DropReply(p) ==
  /\ Proc(p, "reply") /\ proc[p].code < 200
  /\ t_unref(p, cell)
  /\ UNCHANGED <<kind, uac, link, budget>>

\* relay_reply and local_reply up to UNLOCK_REPLIES: the decision on a reply
\* for branch b and the new status.  The branches to cancel afterwards are
\* those of the decision, or what the caller has found.
Decide(p, u, b, code, found) ==
  \E o \in t_should_relay_response(u, cell, link, b, code) :
    /\ uac' = o.uac /\ link' = o.link
    /\ cell' = IF o.relay = None THEN o.cell
               ELSE [o.cell EXCEPT !.status = o.uac[o.relay].last,
                                   !.relaied = IF kind.local THEN @ ELSE o.relay]
    /\ proc' = [proc EXCEPT ![p].pc = "unlocked", ![p].rps = o.rps,
                            ![p].relay = o.relay,
                            ![p].code = IF o.relay = None THEN code
                                        ELSE o.uac[o.relay].last,
                            ![p].bm = IF proc[p].op = "reply" THEN o.bm ELSE found]

\* The pending CANCEL of a branch goes out with its first provisional reply.
LockReply(p) ==
  /\ Proc(p, "reply")
  /\ LET b == proc[p].b
         u == [uac EXCEPT ![b].hasRecv = TRUE, ![b].toCancel = FALSE]
     IN Decide(p, IF uac[b].toCancel /\ proc[p].code < 200 THEN cancel_branch(u, {b}) ELSE u,
               b, proc[p].code, {})
  /\ UNCHANGED <<kind, budget>>

\* The end of relay_reply: the final timer is set before the reply is sent.
FinalTimer(p) ==
  IF proc[p].rps = "RPS_COMPLETED" /\ ~kind.local THEN set_final_timer(link, cell) ELSE link
Sent(p) ==
  IF proc[p].relay = None \/ kind.local THEN cell ELSE [cell EXCEPT !.out = proc[p].code]

\* The end of reply_received: clean-up of a completed transaction, or a new
\* timer for an INVITE branch that goes on; then the reference is returned.
ReplyDone(p) ==
  /\ Proc(p, "unlocked") /\ proc[p].op = "reply"
  /\ LET completed == proc[p].rps = "RPS_COMPLETED"
         clean == cleanup_uac_timers(FinalTimer(p), cell)
         code == proc[p].code
         restart == /\ proc[p].rps = "RPS_PROVISIONAL" /\ kind.invite
                    /\ proc[p].seen < code /\ (code >= 180 \/ proc[p].seen = 0)
     IN /\ link' = CASE completed /\ kind.local -> put_on_wait(clean)
                     [] completed /\ ~kind.local -> clean
                     [] restart -> set_timer(link, {fr(proc[p].b)})
                     [] OTHER -> link
        /\ uac' = IF completed /\ kind.invite THEN cancel_branch(uac, proc[p].bm) ELSE uac
  /\ t_unref(p, Sent(p))
  /\ UNCHANGED <<kind, budget>>

(***************************************************************************)
(* Other requests for the transaction: CANCEL, ACK, retransmission.        *)
(***************************************************************************)
\* t_lookupOriginalT finds the INVITE and takes a reference.
ReceiveCancel(p) ==
  /\ p \in Workers /\ Proc(p, "idle")
  /\ kind.invite /\ ~kind.local /\ cell.life = "hashed" /\ budget.cancels > 0
  /\ budget' = [budget EXCEPT !.cancels = @ - 1]
  /\ cell' = [cell EXCEPT !.ref = @ + 1, !.cancelled = TRUE]
  /\ proc' = [proc EXCEPT ![p] = [Idle EXCEPT !.pc = "scan", !.op = "cancel", !.b = cell.first]]
  /\ UNCHANGED <<kind, uac, link>>

\* cancel_invite calls which_cancel without REPLY_LOCK: it reads a branch ...
CancelScan(p) ==
  /\ Proc(p, "scan")
  /\ proc' = [proc EXCEPT
       ![p].pc = IF proc[p].b < cell.nr THEN "mark" ELSE "cancel",
       ![p].seen = IF proc[p].b < cell.nr /\ uac[proc[p].b].cancel = "null"
                     THEN uac[proc[p].b].last ELSE 999]
  /\ UNCHANGED <<kind, cell, uac, link, budget>>

\* ... and marks it for what it has read.
CancelMark(p) ==
  /\ Proc(p, "mark")
  /\ LET b == proc[p].b
         prov == Provisional(proc[p].seen)
     IN /\ uac' = [uac EXCEPT ![b].cancel = IF prov THEN "busy" ELSE @,
                              ![b].toCancel = @ \/ proc[p].seen = 0]
        /\ proc' = [proc EXCEPT ![p].pc = "scan", ![p].b = @ + 1,
                                ![p].bm = IF prov THEN @ \cup {b} ELSE @]
  /\ UNCHANGED <<kind, cell, link, budget>>

cancel_uacs(p) ==
  /\ Proc(p, "cancel")
  /\ uac' = cancel_branch(uac, proc[p].bm)
  /\ proc' = [proc EXCEPT ![p].pc = "try487", ![p].b = cell.first, ![p].bm = {},
                          ![p].seen = 0]
  /\ UNCHANGED <<kind, cell, link, budget>>

\* A branch nothing was heard of is ended here with 487.
cancel_invite(p) ==
  /\ Proc(p, "try487") /\ proc[p].b < cell.nr
  /\ LET b == proc[p].b
     IN IF uac[b].last = 0
          THEN Goto(p, "lock487") /\ link' = reset_timer(link, {fr(b)})
          ELSE proc' = [proc EXCEPT ![p].b = @ + 1] /\ UNCHANGED link
  /\ UNCHANGED <<kind, cell, uac, budget>>

CancelDone(p) ==
  /\ Proc(p, "try487") /\ proc[p].b >= cell.nr
  /\ t_unref(p, cell)
  /\ UNCHANGED <<kind, uac, link, budget>>

Lock487(p) ==
  /\ Proc(p, "lock487")
  /\ Decide(p, uac, proc[p].b, 487, {})
  /\ UNCHANGED <<kind, budget>>

Done487(p) ==
  /\ Proc(p, "unlocked") /\ proc[p].op = "cancel"
  /\ link' = FinalTimer(p) /\ cell' = Sent(p)
  /\ proc' = [proc EXCEPT ![p] = [Idle EXCEPT !.pc = "try487", !.op = "cancel",
                                              !.b = proc[p].b + 1]]
  /\ UNCHANGED <<kind, uac, budget>>

\* The ACK for a final reply that waits for it.
ReceiveAck ==
  /\ cell.life = "hashed" /\ kind.invite /\ ~kind.local
  /\ cell.out >= 300 /\ cell.status >= 300 /\ link[response] = "on"
  /\ link' = t_release_transaction(link, cell)
  /\ UNCHANGED <<kind, cell, uac, proc, budget>>

\* A retransmission of the request: t_retransmit_reply takes the lock to
\* copy the last reply.
Retransmission(p) ==
  /\ p \in Workers /\ Proc(p, "idle")
  /\ cell.life = "hashed" /\ budget.retrans > 0
  /\ budget' = [budget EXCEPT !.retrans = @ - 1]
  /\ cell' = [cell EXCEPT !.ref = @ + 1]
  /\ proc' = [proc EXCEPT ![p] = [Idle EXCEPT !.pc = "copy"]]
  /\ UNCHANGED <<kind, uac, link>>

t_retransmit_reply(p) ==
  /\ Proc(p, "copy")
  /\ t_unref(p, cell)
  /\ UNCHANGED <<kind, uac, link, budget>>

(***************************************************************************)
(* The timer process.                                                      *)
(***************************************************************************)
\* timer_routine detaches the expired FR links of a pass and then goes
\* through them.
FrExpire(S) ==
  /\ Proc(Timer, "idle") /\ S # {} /\ cell.life # "freed"
  /\ \A b \in S : link[fr(b)] \in {"on", "reset"}
  /\ link' = check_and_split_time_list(link, {fr(b) : b \in S})
  /\ proc' = [proc EXCEPT ![Timer] = [Idle EXCEPT !.pc = "run", !.op = "fr", !.todo = S]]
  /\ UNCHANGED <<kind, cell, uac, budget>>

\* run_handler_for_each: the next link, unless it was reset meanwhile.
run_handler_for_each ==
  /\ Proc(Timer, "run") /\ proc[Timer].todo # {}
  /\ LET b == Min(proc[Timer].todo)
         rest == proc[Timer].todo \ {b}
     IN proc' = [proc EXCEPT ![Timer] =
          CASE link[fr(b)] = "fired" ->
                 [@ EXCEPT !.pc = "frlock", !.b = b, !.todo = rest]
            [] link[fr(b)] # "fired" /\ rest # {} -> [@ EXCEPT !.todo = rest]
            [] OTHER -> Idle]
  /\ UNCHANGED <<kind, cell, uac, link, budget>>

\* The timer process goes on with the pass.
NextLink == IF proc[Timer].todo = {} THEN Idle
            ELSE [Idle EXCEPT !.pc = "run", !.op = "fr", !.todo = proc[Timer].todo]

\* An INVITE on one branch that was answered provisionally is forgotten
\* without a reply, unless a failure route is armed.
Silent(b) ==
  ~kind.local /\ kind.invite /\ cell.nr = 1 /\ ~cell.onNegative /\ uac[b].last > 0

DropSilently ==
  /\ Proc(Timer, "frlock") /\ Silent(proc[Timer].b)
  /\ link' = put_on_wait(link)
  /\ proc' = [proc EXCEPT ![Timer] = NextLink]
  /\ UNCHANGED <<kind, cell, uac, budget>>

\* Otherwise the branch gets a 408; bm is set when it has to be cancelled.
final_response_handler ==
  /\ Proc(Timer, "frlock") /\ ~Silent(proc[Timer].b)
  /\ LET b == proc[Timer].b
         cb == IF kind.invite /\ should_cancel_branch(uac, b) THEN {b} ELSE {}
         u == IF kind.invite THEN MarkCancel(uac, {b}) ELSE uac
     IN Decide(Timer, u, b, 408, cb)
  /\ UNCHANGED <<kind, budget>>

\* The end of fake_reply: the CANCEL for the branch goes out after the lock.
fake_reply ==
  /\ Proc(Timer, "unlocked")
  /\ link' = IF kind.local /\ proc[Timer].rps = "RPS_COMPLETED"
               THEN put_on_wait(link) ELSE FinalTimer(Timer)
  /\ cell' = Sent(Timer)
  /\ uac' = cancel_branch(uac, proc[Timer].bm)
  /\ proc' = [proc EXCEPT ![Timer] = NextLink]
  /\ UNCHANGED <<kind, budget>>

\* No ACK came for the reply.
ResponseExpire ==
  /\ Proc(Timer, "idle") /\ cell.life # "freed" /\ link[response] \in {"on", "reset"}
  /\ LET lk == check_and_split_time_list(link, {response})
     IN link' = IF lk[response] = "fired" THEN put_on_wait(lk) ELSE lk
  /\ UNCHANGED <<kind, cell, uac, proc, budget>>

\* Mutant: the cell is freed whoever refers to it.
WaitHandlerFrees ==
  /\ Proc(Timer, "idle") /\ link[wait_tl] = "on"
  /\ link' = [unlink_timers(link) EXCEPT ![wait_tl] = "fired"]
  /\ cell' = [cell EXCEPT !.life = "freed"]
  /\ UNCHANGED <<kind, uac, proc, budget>>

\* Under the hash lock: out of the table, and freed unless referenced.
wait_handler ==
  /\ Proc(Timer, "idle") /\ link[wait_tl] = "on"
  /\ LET lk == unlink_timers(link)
     IN link' = [lk EXCEPT ![wait_tl] = "fired",
                           ![dele_tl] = IF cell.ref # 0 THEN "on" ELSE @]
  /\ cell' = [cell EXCEPT !.life = IF cell.ref # 0 THEN "removed" ELSE "freed"]
  /\ UNCHANGED <<kind, uac, proc, budget>>

\* delete_handler runs without the hash lock: first the timers ...
delete_handler ==
  /\ Proc(Timer, "idle") /\ link[dele_tl] = "on"
  /\ link' = [unlink_timers(link) EXCEPT ![dele_tl] = "fired"]
  /\ Goto(Timer, "delete")
  /\ UNCHANGED <<kind, cell, uac, budget>>

\* Mutant: a cell that is still referenced is not looked at again.
DeleteCellOnce ==
  /\ Proc(Timer, "delete")
  /\ cell' = [cell EXCEPT !.life = IF cell.ref # 0 THEN @ ELSE "freed"]
  /\ Goto(Timer, "idle")
  /\ UNCHANGED <<kind, uac, link, budget>>

\* ... then the reference count.
delete_cell ==
  /\ Proc(Timer, "delete")
  /\ IF cell.ref # 0
       THEN link' = [link EXCEPT ![dele_tl] = "on"] /\ UNCHANGED cell
       ELSE cell' = [cell EXCEPT !.life = "freed"] /\ UNCHANGED link
  /\ Goto(Timer, "idle")
  /\ UNCHANGED <<kind, uac, budget>>

(***************************************************************************)
(* Specification.                                                          *)
(***************************************************************************)
\* The steps a worker takes once it has started on a message.
WorkerStep(p) ==
  \/ t_forward_nonack(p) \/ BranchesAdded(p) \/ SendBranch(p, TRUE) \/ StartRetr(p)
  \/ BranchesSent(p) \/ kill_transaction(p) \/ _reply_light(p) \/ Unreleased(p)
  \/ LockReply(p) \/ ReplyDone(p)
  \/ CancelScan(p) \/ CancelMark(p) \/ cancel_uacs(p) \/ cancel_invite(p) \/ CancelDone(p)
  \/ Lock487(p) \/ Done487(p) \/ t_retransmit_reply(p)

TimerStep ==
  \/ run_handler_for_each \/ DropSilently \/ final_response_handler \/ fake_reply
  \/ ResponseExpire \/ wait_handler \/ delete_handler \/ delete_cell
  \/ \E S \in SUBSET Branches : FrExpire(S)

Receive(p) ==
  \/ t_newtran(p) \/ add_uac(p) \/ SendBranch(p, FALSE) \/ DropReply(p)
  \/ ReceiveCancel(p) \/ Retransmission(p)
  \/ \E b \in Branches, code \in Codes : reply_received(p, b, code)

Next ==
  \/ \E p \in Workers : WorkerStep(p) \/ Receive(p)
  \/ TimerStep
  \/ ReceiveAck

Spec == Init /\ [][Next]_vars

\* A process goes on with what it has begun, and a timer that is set runs
\* out: FrExpire, like the others, takes the links of one list at a time.
Fairness ==
  /\ \A p \in Workers : WF_vars(WorkerStep(p))
  /\ WF_vars(TimerStep)

FairSpec == Spec /\ Fairness

(***************************************************************************)
(* Properties.                                                             *)
(***************************************************************************)
Busy == {p \in Workers : ~Proc(p, "idle")}

\* Replies, requests and scripts hold the cell by its reference count: the
\* count is that of the processes at work on it, and the cell is not freed
\* under any of them, nor under a timer handler (REF_UNSAFE, UNREF,
\* wait_handler, delete_handler).
RefCounted ==
  /\ cell.ref = Cardinality(Busy)
  /\ Busy # {} \/ ~Proc(Timer, "idle") => cell.life # "freed"

\* A reply that is relayed from another branch than the one it arrived on
\* was stored when it came: relay_reply dereferences uac[relay].reply.
WinnerStored ==
  \A p \in Procs : Proc(p, "unlocked") /\ proc[p].relay \notin {None, proc[p].b}
    => uac[proc[p].relay].reply

\* A transaction that is completed takes the other branches with it: once
\* it is freed, a branch that was sent has ended, or its CANCEL was sent or
\* waits for a first reply.  Excepted are the INVITE dropped silently on its
\* only branch, and the one a CANCEL came for while it was forked.
OthersCancelled ==
  cell.life = "freed" /\ kind.invite /\ ~cell.cancelled =>
    \A b \in Branches : uac[b].sent = "yes" =>
      \/ uac[b].last >= 200 \/ uac[b].cancel = "sent"
      \/ uac[b].last = 0 /\ (uac[b].toCancel \/ uac[b].hasRecv)
      \/ cell.nr = 1 /\ cell.status < 200

\* A branch was added whose request could not be sent.
Stranded == \E b \in Branches : uac[b].sent = "failed"

\* Every transaction whose branches could be sent is eventually freed,
\* whatever is answered or lost: no timer is lost in the races between the
\* timer process and the workers.
Ends == cell.life = "hashed" ~> (cell.life = "freed" \/ Stranded)

\* h_table.h on REQ_FWDED: a transaction that was forwarded is completed,
\* by a reply or by the FR timer.
Completes == (cell.kr /\ cell.life = "hashed") ~> cell.life = "freed"

\* The promise of a forking proxy, read off the transaction.
Proxy == INSTANCE ForkingProxy WITH
  invite    <- kind.invite,
  answer    <- cell.status,
  result    <- [b \in Branches |-> IF uac[b].last >= 200 THEN uac[b].last ELSE 0],
  round     <- [b \in Branches |-> uac[b].round],
  live      <- {b \in Branches : uac[b].buffer /\ uac[b].sent # "failed" /\ uac[b].last < 200},
  cancelled <- cell.cancelled
ForkingPromise == Proxy!Spec
=============================================================================
