------------------------------- MODULE Dialog -------------------------------
(***************************************************************************)
(* The dialog module: the dialogs of one hash entry (dlg_hash.c), the      *)
(* dialog timer (dlg_timer.c), the handlers tm, rr, MI and the timer       *)
(* process run on a dialog (dlg_handlers.c, dlg_req_within.c) and the      *)
(* dialog table of the database (dlg_db_handler.c).                        *)
(*                                                                         *)
(* SIP workers and the timer process share the dialog cells.  An action is *)
(* what a process does between two points where another process can see or *)
(* change the cell: one critical section of the entry lock or of the timer *)
(* lock, one unlocked load or store of dlg->flags, one query.              *)
(***************************************************************************)
EXTENDS Integers, Sequences, FiniteSets, Functions

CONSTANTS Dlgs,      \* the dialog cells of the hash entry
          Workers,   \* the SIP worker and MI processes
          Tmr,       \* the process that runs the timer routines
          DbMode,    \* dlg_db_mode: "NONE", "REALTIME" or "DELAYED"
          DbFails,   \* may a query fail?
          Max1xx,    \* bound: 1xx callbacks per dialog
          Max2xx,    \* bound: 2xx callbacks per dialog (forked INVITE)
          MaxReq,    \* bound: sequential requests per dialog
          MaxLeak,   \* bound: matched but refused sequential requests
          MaxMi,     \* bound: dlg_end_dlg commands per dialog
          MaxBoots   \* bound: restarts of the server

ASSUME DlgsAssumption == IsFiniteSet(Dlgs) /\ Dlgs # {}
ASSUME WorkersAssumption == IsFiniteSet(Workers) /\ Tmr \notin Workers
ASSUME ModeAssumption == DbMode \in {"NONE", "REALTIME", "DELAYED"}
ASSUME BoundAssumption ==
  /\ DbFails \in BOOLEAN
  /\ {Max1xx, Max2xx, MaxReq, MaxLeak, MaxMi, MaxBoots} \subseteq Nat

Procs == Workers \cup {Tmr}

UNCONFIRMED  == 1
EARLY        == 2
CONFIRMED_NA == 3
CONFIRMED    == 4
DELETED      == 5
States == 1..5

ReplyEvents == {"RPL1xx", "RPL2xx", "RPL3xx"}
RouteEvents == {"REQPRACK", "REQACK", "REQBYE", "REQ"}
Flags == {"NEW", "CHANGED", "HASBYE"}

\* What the bounds limit.
Counted == ReplyEvents \cup {"req", "mi"}

VARIABLES
  life,     \* cell of a dialog: "none", "linked" in the entry, "gone" (freed)
  state,    \* dlg->state
  ref,      \* dlg->ref
  flags,    \* dlg->flags
  tm,       \* may the INVITE transaction still call dlg_onreply?
  tlist,    \* the sorted timer list, first to expire first
  det,      \* the expired chain dlg_timer_routine still has to walk
  rows,     \* the rows of the dialog table: how many, and their state column
  act,      \* statistic active_dialogs
  early,    \* statistic early_dialogs
  byes,     \* BYEs of dlg_end_dlg that wait for a final reply
  mi,       \* references dlg_end_dlg took and nobody has released
  leaked,   \* references that nobody will release
  cnt,      \* how much of each bound has been used
  boots,    \* restarts so far
  pc,       \* what each process does next
  job,      \* the locals of the handler each process runs
  ub        \* the handler that has touched a freed or relinked cell, or "none"

cell == <<life, state, ref, flags>>
aux  == <<byes, mi, leaked, cnt, boots>>
vars == <<life, state, ref, flags, tm, tlist, det, rows, act, early, byes, mi,
          leaked, cnt, boots, pc, job, ub>>

\* The handler a process runs, the dialog it runs on, the states before and
\* after its event, the loaded flags word, the block of dlg_onroute it is in,
\* the references it will release and its pending change of the statistics.
Idle == [h |-> "none", d |-> CHOOSE d \in Dlgs : TRUE, ev |-> "REQ",
         old |-> DELETED, new |-> DELETED, fl |-> {}, blk |-> 1,
         n |-> 0, da |-> 0, de |-> 0]

Init ==
  /\ life = [d \in Dlgs |-> "none"]
  /\ state = [d \in Dlgs |-> UNCONFIRMED]
  /\ ref = [d \in Dlgs |-> 0]
  /\ flags = [d \in Dlgs |-> {}]
  /\ tm = [d \in Dlgs |-> FALSE]
  /\ tlist = <<>> /\ det = <<>>
  /\ rows = [d \in Dlgs |-> [n |-> 0, st |-> UNCONFIRMED]]
  /\ act = 0 /\ early = 0
  /\ byes = [d \in Dlgs |-> 0] /\ mi = [d \in Dlgs |-> 0]
  /\ leaked = [d \in Dlgs |-> 0]
  /\ cnt = [d \in Dlgs |-> [c \in Counted |-> 0]]
  /\ boots = 0
  /\ pc = [p \in Procs |-> "idle"] /\ job = [p \in Procs |-> Idle]
  /\ ub = "none"

-----------------------------------------------------------------------------
(* next_state_dlg *)

Confirmed(s) == s \in {CONFIRMED_NA, CONFIRMED}
Pending(s) == s \in {UNCONFIRMED, EARLY}

StateAfter(ev, s, bye) ==
  CASE ev \in {"TDEL", "RPL3xx"} /\ Pending(s) -> DELETED
    [] ev = "RPL1xx" /\ Pending(s) -> EARLY
    [] ev = "RPL2xx" /\ (Pending(s) \/ (s = DELETED /\ ~bye)) -> CONFIRMED_NA
    [] ev = "REQACK" /\ s = CONFIRMED_NA -> CONFIRMED
    [] ev = "REQBYE" /\ Confirmed(s) -> DELETED
    [] OTHER -> s

\* Mutants: a revived dialog gets no reference; TDEL also drops the entry's.
RefAfterNoRevive(ev, s, bye) == IF ev = "TDEL" THEN -1 ELSE 0
RefAfterTwice(ev, s, bye) ==
  IF ev = "TDEL" THEN -2 ELSE IF ev = "RPL2xx" /\ s = DELETED /\ ~bye THEN 1 ELSE 0

\* What the event does to dlg->ref inside the critical section.
RefAfter(ev, s, bye) ==
  CASE ev = "TDEL" -> -1
    [] ev = "RPL2xx" /\ s = DELETED /\ ~bye -> 1
    [] OTHER -> 0

\* remove_dlg_timer_unsafe: a cell is at most once in the list.
Unlink(s, d) ==
  LET i == CHOOSE i \in DOMAIN s : s[i] = d
  IN IF d \in Range(s) THEN SubSeq(s, 1, i - 1) \o SubSeq(s, i + 1, Len(s)) ELSE s

\* unref_dlg_unsafe (and ref_dlg_unsafe): at zero the cell is unlinked and
\* destroyed, which also takes it off the timer list if it is linked there.
Freed(d, k) == ref[d] + k <= 0
RefBy(d, k) ==
  /\ ref' = [ref EXCEPT ![d] = @ + k]
  /\ life' = IF Freed(d, k) THEN [life EXCEPT ![d] = "gone"] ELSE life
  /\ tlist' = IF Freed(d, k) THEN Unlink(tlist, d) ELSE tlist

NextStateDlg(d, ev) ==
  LET bye == "HASBYE" \in flags[d] IN
  /\ state' = [state EXCEPT ![d] = StateAfter(ev, @, bye)]
  /\ flags' = IF ev = "REQBYE" /\ Confirmed(state[d])
              THEN [flags EXCEPT ![d] = @ \cup {"HASBYE"}] ELSE flags
  /\ RefBy(d, RefAfter(ev, state[d], bye))

\* The job of a handler that has just run next_state_dlg.
Job(h, d, ev) ==
  [Idle EXCEPT !.h = h, !.d = d, !.old = state[d],
               !.new = StateAfter(ev, state[d], "HASBYE" \in flags[d])]

Goto(p, l, j) == pc' = [pc EXCEPT ![p] = l] /\ job' = [job EXCEPT ![p] = j]
Done(p) == Goto(p, "idle", Idle)

\* A handler that has finished with the cell updates the statistics.
Report(p) ==
  LET j == job[p] IN
  IF j.da = 0 /\ j.de = 0 THEN Done(p)
  ELSE Goto(p, "stat", [Idle EXCEPT !.h = j.h, !.d = j.d, !.da = j.da,
                                    !.de = j.de])

\* A process is free to take the next message, command or timer routine; the
\* timer process first finishes the expired chain it is walking.
Free(p) == pc[p] = "idle" /\ (p = Tmr => det = <<>>)

\* A process takes its next step, l, on a cell that still exists.
At(p, l) == pc[p] = l /\ life[job[p].d] = "linked"

-----------------------------------------------------------------------------
(* dlg_onreq: a new dialog, one reference for the entry and one for tm; when *)
(* the record-route parameter or the tm callback cannot be added, both are   *)
(* released and the cell is destroyed.                                       *)

DlgOnReq(d) ==
  /\ life[d] = "none"
  /\ life' = [life EXCEPT ![d] = "linked"]
  /\ ref' = [ref EXCEPT ![d] = 2]
  /\ tm' = [tm EXCEPT ![d] = TRUE]
  /\ UNCHANGED <<state, flags, tlist, det, rows, act, early, aux, pc, job, ub>>

DlgOnReqError(d) ==
  /\ life[d] = "none"
  /\ life' = [life EXCEPT ![d] = "gone"]
  /\ UNCHANGED <<state, ref, flags, tm, tlist, det, rows, act, early, aux, pc,
                 job, ub>>

-----------------------------------------------------------------------------
(* dlg_onreply *)

\* tm relays at most one negative final reply and any number of 2xx replies of
\* forked branches; their callbacks run outside the reply lock, in any order.
\* The timer process relays only negative replies it generated itself.
MayReply(p, d, ev) ==
  /\ tm[d]
  /\ p = Tmr => ev = "RPL3xx"
  /\ ev = "RPL1xx" => cnt[d]["RPL1xx"] < Max1xx
  /\ ev = "RPL2xx" => cnt[d]["RPL2xx"] < Max2xx
  /\ ev = "RPL3xx" => cnt[d]["RPL3xx"] = 0

\* Where dlg_onreply goes after its event: <<label, job>>.
AfterReply(j) ==
  LET left == IF j.old = EARLY THEN -1 ELSE 0 IN
  CASE j.new = EARLY /\ j.old # EARLY -> <<"stat", [j EXCEPT !.de = 1]>>
    [] j.new = CONFIRMED_NA /\ ~Confirmed(j.old) ->
         <<"load", [j EXCEPT !.de = left, !.da = 1]>>
    [] j.new = DELETED /\ j.old # DELETED ->
         <<"unref", [j EXCEPT !.de = left, !.n = 1]>>
    [] OTHER -> <<"idle", Idle>>

DlgOnReply(p, d, ev) ==
  LET next == AfterReply(Job("onreply", d, ev)) IN
  /\ Free(p) /\ MayReply(p, d, ev)
  /\ NextStateDlg(d, ev)
  /\ Goto(p, next[1], next[2])
  /\ cnt' = [cnt EXCEPT ![d][ev] = @ + 1]
  /\ UNCHANGED <<tm, det, rows, act, early, byes, mi, leaked, boots, ub>>

\* TMCB_TRANS_DELETED: the timer process frees the transaction when nobody
\* uses it any more.  *new_state = dlg->state is read after the cell may have
\* been destroyed: the handler sees DELETED, or what the memory now holds.
DlgOnTransDeleted(d) ==
  LET next == AfterReply(Job("onreply", d, "TDEL")) IN
  /\ Free(Tmr) /\ tm[d]
  /\ \A p \in Procs : ~(job[p].h = "onreply" /\ job[p].d = d)
  /\ NextStateDlg(d, "TDEL")
  /\ tm' = [tm EXCEPT ![d] = FALSE]
  /\ Goto(Tmr, next[1], next[2])
  /\ ub' \in IF Freed(d, -1) THEN {"none", "onreply"} ELSE {"none"}
  /\ UNCHANGED <<det, rows, act, early, aux>>

-----------------------------------------------------------------------------
(* dlg_onroute *)

\* lookup_dlg and internal_get_dlg find a dialog that is not DELETED.
Lookup(d) == life[d] = "linked" /\ state[d] # DELETED

DlgOnRoute(p, d, ev) ==
  /\ Free(p) /\ p # Tmr /\ Lookup(d) /\ cnt[d]["req"] < MaxReq
  /\ ref' = [ref EXCEPT ![d] = @ + 1]
  /\ cnt' = [cnt EXCEPT ![d]["req"] = @ + 1]
  /\ Goto(p, "next", [Idle EXCEPT !.h = "onroute", !.d = d, !.ev = ev])
  /\ UNCHANGED <<life, state, flags, tm, tlist, det, rows, act, early, byes, mi,
                 leaked, boots, ub>>

\* The request carries the dialog's id but its headers do not match it: the
\* handler returns and keeps the reference of lookup_dlg.
DlgOnRouteMismatch(d) ==
  /\ Lookup(d) /\ leaked[d] < MaxLeak
  /\ ref' = [ref EXCEPT ![d] = @ + 1]
  /\ leaked' = [leaked EXCEPT ![d] = @ + 1]
  /\ UNCHANGED <<life, state, flags, tm, tlist, det, rows, act, early, byes, mi,
                 cnt, boots, pc, job, ub>>

AfterRoute(ev, j) ==
  CASE ev = "REQBYE" /\ j.new = DELETED /\ j.old # DELETED ->
         <<"tl_del", [j EXCEPT !.n = 2, !.da = -1]>>
    [] ev \in {"REQ", "REQACK"} /\ j.new = CONFIRMED -> <<"tl_upd", j>>
    [] OTHER -> <<"unref", [j EXCEPT !.n = 1]>>

DlgOnRouteNext(p) ==
  LET next == AfterRoute(job[p].ev, Job("onroute", job[p].d, job[p].ev)) IN
  /\ At(p, "next") /\ job[p].h = "onroute"
  /\ NextStateDlg(job[p].d, job[p].ev)
  /\ Goto(p, next[1], next[2])
  /\ UNCHANGED <<tm, det, rows, act, early, aux, ub>>

-----------------------------------------------------------------------------
(* Saving a dialog: dlg->flags |= DLG_FLAG_NEW or DLG_FLAG_CHANGED outside   *)
(* the entry lock, then update_dialog_dbinfo in REALTIME mode.               *)

\* Where a handler goes after it saved the dialog, or skipped saving it.
AfterSave(j) ==
  CASE j.h = "onreply" -> <<"tl_ins", j>>
    [] j.h = "onroute" /\ j.blk = 1 /\ j.old = CONFIRMED_NA ->
         <<"load", [j EXCEPT !.blk = 2]>>
    [] OTHER -> <<"unref", [j EXCEPT !.n = 1]>>

LoadFlags(p) ==
  /\ At(p, "load")
  /\ Goto(p, "store", [job[p] EXCEPT !.fl = flags[job[p].d]])
  /\ UNCHANGED <<cell, tm, tlist, det, rows, act, early, aux, ub>>

StoreFlags(p) ==
  LET bit == IF job[p].h = "onreply" THEN "NEW" ELSE "CHANGED"
      j == [job[p] EXCEPT !.fl = {}]
      next == IF DbMode = "REALTIME" THEN <<"db_test", j>> ELSE AfterSave(j) IN
  /\ At(p, "store")
  /\ flags' = [flags EXCEPT ![job[p].d] = job[p].fl \cup {bit}]
  /\ Goto(p, next[1], next[2])
  /\ UNCHANGED <<life, state, ref, tm, tlist, det, rows, act, early, aux, ub>>

\* update_dialog_dbinfo chooses between INSERT and UPDATE before it locks.
TestFlags(p) ==
  LET f == flags[job[p].d]
      next == CASE "NEW" \in f -> <<"db_insert", job[p]>>
                [] "NEW" \notin f /\ "CHANGED" \in f -> <<"db_update", job[p]>>
                [] OTHER -> AfterSave(job[p]) IN
  /\ At(p, "db_test")
  /\ Goto(p, next[1], next[2])
  /\ UNCHANGED <<cell, tm, tlist, det, rows, act, early, aux, ub>>

RowInserted(d) == [n |-> rows[d].n + 1, st |-> state[d]]
RowUpdated(d) == IF rows[d].n = 0 THEN rows[d] ELSE [rows[d] EXCEPT !.st = state[d]]

DbInsert(p) ==
  LET d == job[p].d  next == AfterSave(job[p]) IN
  /\ At(p, "db_insert")
  /\ rows' = [rows EXCEPT ![d] = RowInserted(d)]
  /\ flags' = [flags EXCEPT ![d] = @ \ {"NEW", "CHANGED"}]
  /\ Goto(p, next[1], next[2])
  /\ UNCHANGED <<life, state, ref, tm, tlist, det, act, early, aux, ub>>

DbUpdate(p) ==
  LET d == job[p].d  next == AfterSave(job[p]) IN
  /\ At(p, "db_update")
  /\ rows' = [rows EXCEPT ![d] = RowUpdated(d)]
  /\ flags' = [flags EXCEPT ![d] = @ \ {"CHANGED"}]
  /\ Goto(p, next[1], next[2])
  /\ UNCHANGED <<life, state, ref, tm, tlist, det, act, early, aux, ub>>

\* Mutant: the flags are cleared although the query failed.
DbSaveFailsClears(p) ==
  LET next == AfterSave(job[p]) IN
  /\ DbFails
  /\ At(p, "db_insert") \/ At(p, "db_update")
  /\ flags' = [flags EXCEPT ![job[p].d] = @ \ {"NEW", "CHANGED"}]
  /\ Goto(p, next[1], next[2])
  /\ UNCHANGED <<life, state, ref, tm, tlist, det, rows, act, early, aux, ub>>

\* The query fails: the flags stay set and the caller ignores the error.
DbSaveFails(p) ==
  LET next == AfterSave(job[p]) IN
  /\ DbFails
  /\ At(p, "db_insert") \/ At(p, "db_update")
  /\ Goto(p, next[1], next[2])
  /\ UNCHANGED <<cell, tm, tlist, det, rows, act, early, aux, ub>>

\* remove_dialog_from_db: nothing to delete while the NEW flag is set.
DbRemove(p) ==
  LET d == job[p].d IN
  /\ At(p, "db_del")
  /\ rows' \in IF "NEW" \in flags[d] THEN {rows}
               ELSE {[rows EXCEPT ![d].n = 0]} \cup (IF DbFails THEN {rows} ELSE {})
  /\ Goto(p, "unref", job[p])
  /\ UNCHANGED <<cell, tm, tlist, det, act, early, aux, ub>>

-----------------------------------------------------------------------------
(* The timer list.  get_expired_dlgs detaches a prefix of the list: prev = 0  *)
(* in all of it and next = 0 in its last cell, which therefore looks like a   *)
(* cell that is in no list.                                                   *)

Detached(d) == d \in Range(det) /\ d # det[Len(det)]
Linked(d) == d \in Range(tlist)

\* The places of the sorted list a cell may be inserted at: any, since the
\* lifetimes of the dialogs are arbitrary.
Insertions(s, d) ==
  {SubSeq(s, 1, i - 1) \o <<d>> \o SubSeq(s, i, Len(s)) : i \in 1..(Len(s) + 1)}

InsertDlgTimer(p) ==
  LET d == job[p].d IN
  /\ At(p, "tl_ins")
  /\ tlist' \in IF Linked(d) \/ Detached(d) THEN {tlist} ELSE Insertions(tlist, d)
  /\ Report(p)
  /\ UNCHANGED <<cell, tm, det, rows, act, early, aux, ub>>

RemoveDlgTimer(p) ==
  LET j == job[p] IN
  /\ At(p, "tl_del")
  /\ tlist' = Unlink(tlist, j.d)
  /\ Goto(p, IF j.h = "onroute" /\ DbMode # "NONE" THEN "db_del" ELSE "unref", j)
  /\ UNCHANGED <<cell, tm, det, rows, act, early, aux, ub>>

\* Mutant: a request whose CSeq cannot be saved leaves the dialog unlinked.
UpdateDlgTimerUnlinks(p) ==
  LET d == job[p].d  skip == AfterSave(job[p]) IN
  /\ At(p, "tl_upd")
  /\ \/ tlist' \in Insertions(Unlink(tlist, d), d) /\ Goto(p, "load", job[p])
     \/ tlist' = Unlink(tlist, d) /\ Goto(p, skip[1], skip[2])
  /\ UNCHANGED <<cell, tm, det, rows, act, early, aux, ub>>

\* update_dlg_timer fails on a detached cell; update_cseqs may fail after it.
UpdateDlgTimer(p) ==
  LET d == job[p].d  skip == AfterSave(job[p]) IN
  /\ At(p, "tl_upd")
  /\ \/ /\ ~Detached(d)
        /\ tlist' \in Insertions(Unlink(tlist, d), d)
        /\ \/ Goto(p, "load", job[p])
           \/ Goto(p, skip[1], skip[2])
     \/ /\ Detached(d)
        /\ Goto(p, skip[1], skip[2])
        /\ UNCHANGED tlist
  /\ UNCHANGED <<cell, tm, det, rows, act, early, aux, ub>>

\* get_expired_dlgs: the clock has passed the timeouts of the first n cells.
GetExpiredDlgs ==
  /\ Free(Tmr)
  /\ \E n \in 1..Len(tlist) :
       /\ det' = SubSeq(tlist, 1, n)
       /\ tlist' = SubSeq(tlist, n + 1, Len(tlist))
  /\ UNCHANGED <<cell, tm, rows, act, early, aux, pc, job, ub>>

\* dlg_timer_routine takes the next cell off the chain.  If that cell was
\* destroyed, or linked again, its next pointer is no longer the chain's.
DlgTimerRoutine ==
  /\ pc[Tmr] = "idle" /\ det # <<>>
  /\ LET d == Head(det) IN
     \/ /\ life[d] = "linked" /\ ~Linked(d)
        /\ det' = Tail(det)
        /\ Goto(Tmr, "next", [Idle EXCEPT !.h = "ontimeout", !.d = d,
                                          !.ev = "REQBYE"])
        /\ UNCHANGED ub
     \/ /\ life[d] = "gone" \/ Linked(d)
        /\ ub' = "timer"
        /\ UNCHANGED <<det, pc, job>>
  /\ UNCHANGED <<cell, tm, tlist, rows, act, early, aux>>

\* Mutant: the timeout does not release the entry's reference.
AfterTimeoutKeeps(j) == <<"idle", Idle>>

AfterTimeout(j) ==
  IF j.new = DELETED /\ j.old # DELETED
  THEN <<IF DbMode = "NONE" THEN "unref" ELSE "db_del",
         [j EXCEPT !.n = 1, !.da = -1]>>
  ELSE <<"idle", Idle>>

DlgOnTimeout ==
  LET next == AfterTimeout(Job("ontimeout", job[Tmr].d, "REQBYE")) IN
  /\ At(Tmr, "next")
  /\ NextStateDlg(job[Tmr].d, "REQBYE")
  /\ Goto(Tmr, next[1], next[2])
  /\ UNCHANGED <<tm, det, rows, act, early, aux, ub>>

-----------------------------------------------------------------------------
(* The end of a handler: unref_dlg, then the statistics. *)

UnrefDlg(p) ==
  /\ At(p, "unref")
  /\ RefBy(job[p].d, -job[p].n)
  /\ Report(p)
  /\ UNCHANGED <<state, flags, tm, det, rows, act, early, aux, ub>>

\* Mutant: early_dialogs is not decremented when the dialog is confirmed.
UpdateStatNoEarly(p) ==
  /\ pc[p] = "stat"
  /\ act' = act + job[p].da
  /\ early' = IF job[p].da = 1 THEN early ELSE early + job[p].de
  /\ Done(p)
  /\ UNCHANGED <<cell, tm, tlist, det, rows, aux, ub>>

UpdateStat(p) ==
  /\ pc[p] = "stat"
  /\ act' = act + job[p].da
  /\ early' = early + job[p].de
  /\ Done(p)
  /\ UNCHANGED <<cell, tm, tlist, det, rows, aux, ub>>

-----------------------------------------------------------------------------
(* dlg_end_dlg: mi_terminate_dlg looks the dialog up and sends a BYE to each *)
(* leg; bye_reply_cb runs on the final reply of each.  byes and mi count the *)
(* BYEs under way and the references taken for the command.                  *)

MiTerminateDlg(p, d) ==
  /\ Free(p) /\ p # Tmr /\ Lookup(d) /\ cnt[d]["mi"] < MaxMi
  /\ ref' = [ref EXCEPT ![d] = @ + 1]
  /\ mi' = [mi EXCEPT ![d] = @ + 1]
  /\ cnt' = [cnt EXCEPT ![d]["mi"] = @ + 1]
  /\ Goto(p, "bye", [Idle EXCEPT !.h = "mi", !.d = d])
  /\ UNCHANGED <<life, state, flags, tm, tlist, det, rows, act, early, byes,
                 leaked, boots, ub>>

\* send_bye to the caller (block 1), then to the callee (block 2).  When it
\* fails it releases what it took, and the command ends without releasing the
\* reference of lookup_dlg.
SendBye(p) ==
  LET d == job[p].d IN
  /\ At(p, "bye")
  /\ \/ /\ ref' = [ref EXCEPT ![d] = @ + 1]
        /\ mi' = [mi EXCEPT ![d] = @ + 1]
        /\ byes' = [byes EXCEPT ![d] = @ + 1]
        /\ IF job[p].blk = 1 THEN Goto(p, "bye", [job[p] EXCEPT !.blk = 2])
                             ELSE Done(p)
     \/ /\ Done(p)
        /\ UNCHANGED <<ref, mi, byes>>
  /\ UNCHANGED <<life, state, flags, tm, tlist, det, rows, act, early, leaked,
                 cnt, boots, ub>>

\* The first final reply releases two references besides the table's.
AfterByeReply(j) ==
  CASE j.new = DELETED /\ j.old # DELETED ->
         <<"tl_del", [j EXCEPT !.n = 3, !.da = -1]>>
    [] j.new = DELETED /\ j.old = DELETED ->
         <<IF DbMode = "NONE" THEN "unref" ELSE "db_del", [j EXCEPT !.n = 1]>>
    [] OTHER -> <<"idle", Idle>>

\* Mutant: the callback also runs for a reply that was already handled.
ByeReplyCbTwice(p, d) ==
  LET next == AfterByeReply(Job("byecb", d, "REQBYE")) IN
  /\ Free(p) /\ cnt[d]["mi"] > 0 /\ life[d] = "linked"
  /\ NextStateDlg(d, "REQBYE")
  /\ Goto(p, next[1], next[2])
  /\ byes' = [byes EXCEPT ![d] = @ - 1]
  /\ UNCHANGED <<tm, det, rows, act, early, mi, leaked, cnt, boots, ub>>

ByeReplyCb(p, d) ==
  LET next == AfterByeReply(Job("byecb", d, "REQBYE"))
      spent == CASE next[1] = "tl_del" -> 2
                 [] next[1] = "idle" -> 0
                 [] OTHER -> 1 IN
  /\ Free(p) /\ byes[d] > 0
  /\ NextStateDlg(d, "REQBYE")
  /\ Goto(p, next[1], next[2])
  /\ byes' = [byes EXCEPT ![d] = @ - 1]
  /\ mi' = [mi EXCEPT ![d] = @ - spent]
  /\ UNCHANGED <<tm, det, rows, act, early, leaked, cnt, boots, ub>>

-----------------------------------------------------------------------------
(* dialog_update_db: the timer routine of DELAYED mode, also run at shutdown. *)

\* The routine copies the entry, its first pointer included, before it locks.
FlushCopy(d) ==
  /\ DbMode = "DELAYED" /\ Free(Tmr) /\ life[d] = "linked"
  /\ Goto(Tmr, "flush", [Idle EXCEPT !.h = "flush", !.d = d])
  /\ UNCHANGED <<cell, tm, tlist, det, rows, act, early, aux, ub>>

Saved(d) ==
  CASE "NEW" \in flags[d] -> RowInserted(d)
    [] "NEW" \notin flags[d] /\ "CHANGED" \in flags[d] -> RowUpdated(d)
    [] OTHER -> rows[d]

\* Which cells are saved: all of them, or those before a query that fails.
SavedSets ==
  LET all == {d \in Dlgs : life[d] = "linked"}
  IN  IF DbFails THEN SUBSET all ELSE {all}

DialogUpdateDb ==
  /\ At(Tmr, "flush")
  /\ \E S \in SavedSets :
       /\ rows' = [d \in Dlgs |-> IF d \in S THEN Saved(d) ELSE rows[d]]
       /\ flags' = [d \in Dlgs |-> IF d \in S THEN flags[d] \ {"NEW", "CHANGED"}
                                   ELSE flags[d]]
  /\ Done(Tmr)
  /\ UNCHANGED <<life, state, ref, tm, tlist, det, act, early, aux, ub>>

-----------------------------------------------------------------------------
(* Use of a cell another process has destroyed: what happens next is         *)
(* undefined and the model stops.                                            *)

UseFreed(p) ==
  /\ pc[p] \notin {"idle", "stat"} /\ life[job[p].d] = "gone"
  /\ ub' = job[p].h
  /\ UNCHANGED <<cell, tm, tlist, det, rows, act, early, aux, pc, job>>

-----------------------------------------------------------------------------
(* The server stops and starts again: load_dialog_info_from_db rebuilds the  *)
(* table from the rows.  A graceful stop saves first (mod_destroy), a crash  *)
(* does not; the transactions and the statistics are lost in both cases.  A  *)
(* row whose state is DELETED becomes a cell whose reference nobody releases. *)

LoadedFrom(r) ==
  LET loaded == {d \in Dlgs : r[d].n > 0} IN
  /\ rows' = r
  /\ life' = [d \in Dlgs |-> CASE d \in loaded -> "linked"
                               [] d \notin loaded /\ life[d] = "none" -> "none"
                               [] OTHER -> "gone"]
  /\ state' = [d \in Dlgs |-> IF d \in loaded THEN r[d].st ELSE state[d]]
  /\ ref' = [d \in Dlgs |-> IF d \in loaded THEN 1 ELSE 0]
  /\ flags' = [d \in Dlgs |-> {}]
  /\ tm' = [d \in Dlgs |-> FALSE]
  /\ tlist' \in {s \in [1..Cardinality(loaded) -> loaded] : Range(s) = loaded}
  /\ det' = <<>>
  /\ act' = 0 /\ early' = 0
  /\ byes' = [d \in Dlgs |-> 0] /\ mi' = [d \in Dlgs |-> 0]
  /\ leaked' = [d \in Dlgs |-> IF d \in loaded /\ r[d].st = DELETED THEN 1 ELSE 0]
  /\ pc' = [p \in Procs |-> "idle"] /\ job' = [p \in Procs |-> Idle]

Restart(graceful) ==
  /\ DbMode # "NONE" /\ boots < MaxBoots
  /\ \A d \in Dlgs : rows[d].n <= 1
  /\ \E S \in IF graceful /\ DbMode = "DELAYED" THEN SavedSets ELSE {{}} :
       LoadedFrom([d \in Dlgs |-> IF d \in S THEN Saved(d) ELSE rows[d]])
  /\ boots' = boots + 1
  /\ UNCHANGED <<cnt, ub>>

-----------------------------------------------------------------------------
Step(p) ==
  \/ DlgOnRouteNext(p)
  \/ LoadFlags(p) \/ StoreFlags(p)
  \/ TestFlags(p) \/ DbInsert(p) \/ DbUpdate(p) \/ DbSaveFails(p) \/ DbRemove(p)
  \/ InsertDlgTimer(p) \/ RemoveDlgTimer(p) \/ UpdateDlgTimer(p)
  \/ UnrefDlg(p) \/ UpdateStat(p)
  \/ SendBye(p)
  \/ UseFreed(p)

TimerStep ==
  \/ DlgTimerRoutine
  \/ DlgOnTimeout
  \/ DialogUpdateDb

Environment(p, d) ==
  \/ \E ev \in ReplyEvents : DlgOnReply(p, d, ev)
  \/ \E ev \in RouteEvents : DlgOnRoute(p, d, ev)
  \/ MiTerminateDlg(p, d)
  \/ ByeReplyCb(p, d)

Next ==
  /\ ub = "none"
  /\ \/ \E d \in Dlgs : DlgOnReq(d) \/ DlgOnReqError(d) \/ DlgOnRouteMismatch(d)
     \/ \E d \in Dlgs : DlgOnTransDeleted(d) \/ FlushCopy(d)
     \/ \E p \in Procs, d \in Dlgs : Environment(p, d)
     \/ \E p \in Procs : Step(p)
     \/ TimerStep
     \/ GetExpiredDlgs
     \/ \E graceful \in BOOLEAN : Restart(graceful)

Spec == Init /\ [][Next]_vars

\* A process that runs a handler runs it to its end, tm frees every
\* transaction, and every timeout that is not moved again expires.
Fairness ==
  /\ \A p \in Procs : WF_vars(ub = "none" /\ Step(p))
  /\ WF_vars(ub = "none" /\ TimerStep)
  /\ SF_vars(ub = "none" /\ GetExpiredDlgs)
  /\ \A d \in Dlgs : SF_vars(ub = "none" /\ DlgOnTransDeleted(d))

FairSpec == Spec /\ Fairness

-----------------------------------------------------------------------------
Labels == {"idle", "next", "load", "store", "db_test", "db_insert", "db_update",
           "db_del", "tl_ins", "tl_del", "tl_upd", "unref", "stat", "bye",
           "flush"}
Handlers == {"none", "onreply", "onroute", "ontimeout", "mi", "byecb", "flush"}
Jobs == [h : Handlers, d : Dlgs, ev : RouteEvents, old : States, new : States,
         fl : SUBSET Flags, blk : {1, 2}, n : 0..3, da : {-1, 0, 1},
         de : {-1, 0, 1}]

\* Every variable has its type.
TypeOK ==
  /\ life \in [Dlgs -> {"none", "linked", "gone"}]
  /\ state \in [Dlgs -> States]
  /\ ref \in [Dlgs -> Int]
  /\ flags \in [Dlgs -> SUBSET Flags]
  /\ tm \in [Dlgs -> BOOLEAN]
  /\ tlist \in Seq(Dlgs) /\ det \in Seq(Dlgs)
  /\ rows \in [Dlgs -> [n : Nat, st : States]]
  /\ act \in Int /\ early \in Int
  /\ byes \in [Dlgs -> Nat] /\ mi \in [Dlgs -> Int] /\ leaked \in [Dlgs -> Nat]
  /\ cnt \in [Dlgs -> [Counted -> Nat]]
  /\ boots \in Nat
  /\ pc \in [Procs -> Labels]
  /\ job \in [Procs -> Jobs]
  /\ ub \in Handlers \cup {"timer"}

\* The references process p will still release on d: the one of the lookup in
\* dlg_onroute, and those of the unref_dlg it is heading for.
Held(p, d) ==
  CASE job[p].d # d -> 0
    [] job[p].d = d /\ job[p].h = "onroute" /\ pc[p] # "stat" ->
         IF job[p].n = 0 THEN 1 ELSE job[p].n
    [] OTHER -> job[p].n

\* The owners of a reference to d: the entry while d is linked and not
\* DELETED, the transaction, and the handlers under way.
Owners(d) ==
  (IF life[d] = "linked" /\ state[d] # DELETED THEN {<<"entry", 0>>} ELSE {})
    \cup (IF tm[d] THEN {<<"tm", 0>>} ELSE {})
    \cup {r \in Procs \X (1..3) : r[2] <= Held(r[1], d)}

\* dlg->ref counts exactly its owners, the references of dlg_end_dlg and the
\* leaked ones, whatever the interleaving of the handlers: no path
\* of next_state_dlg and its callers releases twice or forgets to release.
RefExact ==
  \A d \in Dlgs : ref[d] = Cardinality(Owners(d)) + mi[d] + leaked[d]

\* A handler that owns a reference, and the transaction, find the cell in
\* memory: nobody destroys a dialog that tm, dlg_onreply, dlg_onroute or
\* bye_reply_cb still uses.
HeldAlive ==
  \A d \in Dlgs : Owners(d) # {} \/ byes[d] > 0 => life[d] = "linked"

Quiet == (\A p \in Procs : pc[p] = "idle") /\ det = <<>>
In(S) == {d \in Dlgs : life[d] = "linked" /\ state[d] \in S}

\* Once no handler is under way active_dialogs is the number of confirmed
\* dialogs and early_dialogs the number of early ones: the updates the handlers
\* make after they have released the entry lock add up, whichever of a BYE, a
\* timeout, a reply or a second 2xx wins.
StatExact ==
  Quiet /\ boots = 0 =>
    /\ act = Cardinality(In({CONFIRMED_NA, CONFIRMED}))
    /\ early = Cardinality(In({EARLY}))

\* Once no handler is under way every confirmed dialog is on the timer list,
\* so that it cannot stay in memory for ever: insert_dlg_timer of the 2xx,
\* update_dlg_timer of a request that overtakes it and remove_dlg_timer of a
\* BYE leave it armed.  Excepted is a dialog with a second 2xx, which may
\* revive it while the BYE is still on its way to the timer list.
TimerArmed ==
  Quiet => \A d \in In({CONFIRMED_NA, CONFIRMED}) :
             cnt[d]["RPL2xx"] <= 1 => d \in Range(tlist)

\* Once no handler is under way, the next save leaves a row with the current
\* state for every confirmed dialog: no change is lost between dlg->flags, the
\* memory and the table, even when queries fail or the server crashes.
NothingForgotten ==
  Quiet => \A d \in In({CONFIRMED_NA, CONFIRMED}) :
             Saved(d).n >= 1 /\ Saved(d).st = state[d]

\* dlg_timer_routine and dlg_ontimeout never use a dialog that another process
\* has destroyed or put back on the timer list.
TimerLinksSafe == ub \notin {"timer", "ontimeout"}

\* A dialog that a BYE or its timeout has ended stays ended: only one that a
\* negative reply ended may still be confirmed, by a 2xx of another branch.
ByeIsFinal ==
  [][\A d \in Dlgs :
       state[d] = DELETED /\ cnt[d]["RPL3xx"] = 0 /\ boots' = boots
         => state'[d] = DELETED]_vars

\* Every dialog ends: the entry lets go of it by a negative reply, a BYE or
\* its timeout, and the last reference destroys it; only one that a reference
\* has leaked of (a refused request, a row loaded as DELETED) may stay.
DialogsEnd ==
  \A d \in Dlgs :
    life[d] = "linked" ~> life[d] # "linked" \/ leaked[d] > 0 \/ ub # "none"
=============================================================================
