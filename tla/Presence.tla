------------------------------ MODULE Presence ------------------------------
(***************************************************************************)
(* modules/presence: the subscriptions of the watchers of one presentity.  *)
(* They live in one slot of the hash table subs_htable, under the slot's   *)
(* lock, and are written to the table active_watchers by the timer, at     *)
(* shutdown, and (deletions only) by the workers, without the lock.        *)
(* Workers handle SUBSCRIBE and PUBLISH, the MI process refreshWatchers;   *)
(* all of them copy records under the lock, release it, and later write    *)
(* parts of the copy back: notify() takes the CSeq of a NOTIFY from the    *)
(* record, not from the copy.                                              *)
(*                                                                         *)
(* The event requires authorization and has no watcher information event;  *)
(* fallback2db is off, its default.  A subscription is its To tag and each *)
(* is of another watcher.  An initial SUBSCRIBE with Expires: 0 changes no *)
(* state.  Shutdown is orderly; what a crash would lose is not modelled.   *)
(***************************************************************************)
EXTENDS Integers

CONSTANTS Workers,            \* SIP workers and the MI process
          Subs,               \* subscriptions made in a behaviour
          Lifetime,           \* expires of a SUBSCRIBE, in ticks
          MemGrace, DbGrace,  \* 50 and 10 seconds of update_db_subs, in ticks
          MaxNow, MaxOps,     \* bounds: clock, requests handled
          MaxBoots            \* bound: restarts

VARIABLES table,   \* subs_htable: id -> record
          rows,    \* active_watchers: id -> what was written of the record
          auth,    \* the watchers table: id -> status
          worker,  \* worker -> what it still has to do
          sweep,   \* the timer's pass: {} or the records it has not seen yet
          sweeping,
          now, ops, boots,
          used,    \* id -> CSeq numbers of the NOTIFYs sent
          reused,  \* ids that had a number used twice while they lasted
          ended    \* ids whose subscription was ended

vars == <<table, rows, auth, worker, sweep, sweeping, now, ops, boots, used, reused, ended>>
timerVars == <<sweep, sweeping>>
bounds == <<now, ops, boots>>

Status == {"ACTIVE", "PENDING", "TERMINATED"}
Idle == [pc |-> "idle"]

Known == DOMAIN table
Drop(f, S) == [x \in DOMAIN f \ S |-> f[x]]
Put(f, x, v) == [y \in DOMAIN f \cup {x} |-> IF y = x THEN v ELSE f[y]]

(* What of a record a row holds. *)
Columns(r) == [exp |-> r.exp, rcseq |-> r.rcseq, lcseq |-> r.lcseq, status |-> r.status]

(* The timer holds the slot's lock from the first record to the last. *)
LockFree == ~ sweeping

Init ==
    /\ table = <<>> /\ rows = <<>> /\ auth = <<>>
    /\ worker = [w \in Workers |-> Idle]
    /\ sweep = {} /\ sweeping = FALSE
    /\ now = 0 /\ ops = 0 /\ boots = 0
    /\ used = [s \in Subs |-> {}] /\ reused = {} /\ ended = {}

(***************************************************************************)
(* send_notify_request: a NOTIFY with that number; with expires 0, or the  *)
(* status TERMINATED, it ends the subscription for the watcher.            *)
(***************************************************************************)
send_notify_request(s, cseq, last) ==
    /\ used' = [used EXCEPT ![s] = @ \cup {cseq}]
    /\ reused' = IF cseq \in used[s] /\ ~ last /\ s \notin ended THEN reused \cup {s} ELSE reused
    /\ ended' = IF last THEN ended \cup {s} ELSE ended

NoNotify == UNCHANGED <<used, reused>>

(***************************************************************************)
(* hash.c.  update_shtable with LOCAL_TYPE takes the next number and, like *)
(* REMOTE_TYPE, writes the status of the caller's copy back.               *)
(***************************************************************************)
insert_shtable(s, rcseq, status) ==
    table' = Put(table, s, [exp |-> now + Lifetime, rcseq |-> rcseq, lcseq |-> 0,
                            status |-> status, flag |-> "INSERTDB"])

\* Mutant: a change of a record that was saved is not marked for the timer.
MarkNothing(r) == r.flag

Marked(r) == IF r.flag = "NO_UPDATEDB" THEN "UPDATEDB" ELSE r.flag

UpdateRemote(s, rcseq, status) ==
    table' = [table EXCEPT ![s] = [@ EXCEPT !.exp = now + Lifetime, !.rcseq = rcseq,
                                            !.status = status, !.flag = Marked(table[s])]]

UpdateLocal(s, status) ==
    table' = [table EXCEPT ![s] = [@ EXCEPT !.lcseq = @ + 1,
                                            !.status = status, !.flag = Marked(table[s])]]

(***************************************************************************)
(* notify(): `c' is the caller's copy of a record.  A copy with expires 0  *)
(* is notified with the number it was copied with.  A record that is gone  *)
(* is an error, after which refreshWatchers gives up its other copies and  *)
(* publ_notify does not.  Terminated dialogs are deleted from the database *)
(* by update_watchers_status once they have been notified.                 *)
(***************************************************************************)
Rest(w, c) == LET q == worker[w].copies \ {c}
              IN  IF q = {} THEN Idle ELSE [worker[w] EXCEPT !.copies = q]

notify(w) ==
    /\ worker[w].pc \in {"publish", "refresh"}
    /\ \E c \in worker[w].copies :
          \/ /\ c.exp # 0 /\ LockFree /\ c.id \in Known
             /\ UpdateLocal(c.id, c.status)
             /\ send_notify_request(c.id, table[c.id].lcseq, c.status = "TERMINATED")
             /\ worker' = [worker EXCEPT ![w] = Rest(w, c)]
             /\ UNCHANGED rows
          \/ /\ c.exp # 0 /\ LockFree /\ c.id \notin Known
             /\ worker' = [worker EXCEPT ![w] =
                               IF worker[w].pc = "refresh" THEN Idle ELSE Rest(w, c)]
             /\ NoNotify
             /\ UNCHANGED <<table, rows, ended>>
          \/ /\ c.exp = 0
             /\ send_notify_request(c.id, c.lcseq, TRUE)
             /\ worker' = [worker EXCEPT ![w] = Rest(w, c)]
             /\ rows' = IF worker[w].pc = "refresh" /\ c.status = "TERMINATED"
                        THEN Drop(rows, {c.id}) ELSE rows
             /\ UNCHANGED table
    /\ UNCHANGED <<auth, timerVars, bounds>>

(***************************************************************************)
(* handle_subscribe outside a dialog: the status comes from the watchers   *)
(* table, where a new watcher is entered with what the rules say.          *)
(***************************************************************************)
Copy(s, r) == [id |-> s, exp |-> r.exp - now, lcseq |-> r.lcseq, status |-> r.status]

Takes(w) == worker[w] = Idle /\ ops < MaxOps /\ ops' = ops + 1

SubscribeNew(w, s) ==
    /\ Takes(w)
    /\ s \notin Known /\ used[s] = {} /\ s \notin ended /\ s \notin DOMAIN auth
    /\ LockFree
    /\ \E status \in Status :
           /\ auth' = Put(auth, s, status)
           /\ insert_shtable(s, 1, status)
           /\ worker' = [worker EXCEPT ![w] =
                  [pc |-> "publish", copies |-> {[id |-> s, exp |-> Lifetime, lcseq |-> 0,
                                                  status |-> status]}]]
    /\ NoNotify
    /\ UNCHANGED <<rows, timerVars, now, boots, ended>>

(***************************************************************************)
(* handle_subscribe within a dialog.  get_stored_info checks the CSeq and  *)
(* copies the status under the lock; update_subscription uses them later.  *)
(***************************************************************************)
get_stored_info(w, s) ==
    /\ Takes(w)
    /\ LockFree
    /\ s \in Known
    /\ \E e \in {0, Lifetime} :
           worker' = [worker EXCEPT ![w] =
               [pc |-> IF e = 0 THEN "unsubscribe" ELSE "subscribe", id |-> s,
                rcseq |-> table[s].rcseq + 1, status |-> table[s].status]]
    /\ NoNotify
    /\ UNCHANGED <<table, rows, auth, timerVars, now, boots, ended>>

Refresh(w) ==
    /\ worker[w].pc = "subscribe"
    /\ LockFree
    /\ LET s == worker[w].id
           Done == worker' = [worker EXCEPT ![w] = Idle]
       IN  IF s \in Known
           THEN /\ UpdateRemote(s, worker[w].rcseq, worker[w].status)
                /\ worker' = [worker EXCEPT ![w] =
                      [pc |-> "publish", copies |-> {[id |-> s, exp |-> Lifetime,
                           lcseq |-> table[s].lcseq, status |-> worker[w].status]}]]
           ELSE Done /\ UNCHANGED table
    /\ NoNotify
    /\ UNCHANGED <<rows, auth, timerVars, bounds, ended>>

(* The row goes first, then the record, which the timer may meet between. *)
delete_db_subs(w) ==
    /\ worker[w].pc = "unsubscribe"
    /\ rows' = Drop(rows, {worker[w].id})
    /\ worker' = [worker EXCEPT ![w].pc = "forget"]
    /\ NoNotify
    /\ UNCHANGED <<table, auth, timerVars, bounds, ended>>

delete_shtable(w) ==
    /\ worker[w].pc = "forget"
    /\ LockFree
    /\ LET s == worker[w].id
       IN  /\ send_notify_request(s, IF s \in Known THEN table[s].lcseq ELSE -1, TRUE)
           /\ table' = Drop(table, {s})
    /\ worker' = [worker EXCEPT ![w] = Idle]
    /\ UNCHANGED <<rows, auth, timerVars, bounds>>

(***************************************************************************)
(* PUBLISH: get_subs_dialog copies what is active and has not expired.     *)
(***************************************************************************)
get_subs_dialog(w) ==
    /\ Takes(w)
    /\ LockFree
    /\ LET S == {s \in Known : table[s].exp >= now /\ table[s].status = "ACTIVE"}
       IN  /\ S # {}
           /\ worker' = [worker EXCEPT ![w] =
                 [pc |-> "publish", copies |-> {Copy(s, table[s]) : s \in S}]]
    /\ NoNotify
    /\ UNCHANGED <<table, rows, auth, timerVars, now, boots, ended>>

(***************************************************************************)
(* refreshWatchers: the rules give one watcher another status.  The lock   *)
(* is held while the tables change; update_pw_dialogs marks the record     *)
(* UPDATEDB whatever its mark was, and unlinks it when it is terminated.   *)
(* A watcher without a record only changes in the watchers table, which no *)
(* other step reads: that case is left out.                                *)
(***************************************************************************)
update_watchers_status(w) ==
    /\ Takes(w)
    /\ LockFree
    /\ \E s \in DOMAIN auth, status \in Status :
           /\ status # auth[s]
           /\ auth' = [auth EXCEPT ![s] = status]
           /\ s \in Known
           /\ LET r == [table[s] EXCEPT !.status = status, !.flag = "UPDATEDB"]
                  gone == status = "TERMINATED"
              IN  /\ table' = IF gone THEN Drop(table, {s}) ELSE [table EXCEPT ![s] = r]
                  /\ ended' = IF gone THEN ended \cup {s} ELSE ended
                  /\ worker' = [worker EXCEPT ![w] =
                        [pc |-> "refresh",
                         copies |-> {IF gone THEN [Copy(s, r) EXCEPT !.exp = 0] ELSE Copy(s, r)}]]
    /\ NoNotify
    /\ UNCHANGED <<rows, timerVars, now, boots>>

(***************************************************************************)
(* p_tm_callback: a NOTIFY was refused; the record goes first, then the    *)
(* row.                                                                    *)
(***************************************************************************)
p_tm_callback(w, s) ==
    /\ worker[w] = Idle
    /\ LockFree
    /\ s \in Known /\ used[s] # {}
    /\ table' = Drop(table, {s})
    /\ ended' = ended \cup {s}
    /\ worker' = [worker EXCEPT ![w] = [pc |-> "refused", id |-> s]]
    /\ NoNotify
    /\ UNCHANGED <<rows, auth, timerVars, bounds>>

RefusedRow(w) ==
    /\ worker[w].pc = "refused"
    /\ rows' = Drop(rows, {worker[w].id})
    /\ worker' = [worker EXCEPT ![w] = Idle]
    /\ NoNotify
    /\ UNCHANGED <<table, auth, timerVars, bounds, ended>>

(***************************************************************************)
(* update_db_subs.                                                         *)
(***************************************************************************)
Expired(r) == r.exp < now - MemGrace

(* An INSERT makes the row, an UPDATE changes it if there is one. *)
Written(R, s, r) ==
    CASE r.flag = "INSERTDB" -> Put(R, s, Columns(r))
      [] r.flag = "UPDATEDB" /\ s \in DOMAIN R -> Put(R, s, Columns(r))
      [] OTHER -> R

Saved(r) == [r EXCEPT !.flag = "NO_UPDATEDB"]

timer_db_update ==
    /\ ~ sweeping
    /\ Known # {}
    /\ sweep' = Known /\ sweeping' = TRUE
    /\ NoNotify
    /\ UNCHANGED <<table, rows, auth, worker, bounds, ended>>

\* Mutant: an expired record that was saved is left to the database's clean-up.
SweepUnsaved(s) ==
    /\ sweeping /\ s \in sweep
    /\ IF Expired(table[s]) /\ table[s].flag # "NO_UPDATEDB"
       THEN /\ send_notify_request(s, table[s].lcseq, TRUE)
            /\ table' = Drop(table, {s})
            /\ rows' = rows
       ELSE /\ rows' = Written(rows, s, table[s])
            /\ table' = [table EXCEPT ![s] = Saved(@)]
            /\ UNCHANGED <<used, reused, ended>>
    /\ sweep' = sweep \ {s}
    /\ UNCHANGED <<sweeping, auth, worker, bounds>>

Sweep(s) ==
    /\ sweeping /\ s \in sweep
    /\ IF Expired(table[s])
       THEN /\ send_notify_request(s, table[s].lcseq, TRUE)    \* handle_expired_subs
            /\ table' = Drop(table, {s})
            /\ rows' = rows
       ELSE /\ rows' = Written(rows, s, table[s])
            /\ table' = [table EXCEPT ![s] = Saved(@)]
            /\ UNCHANGED <<used, reused, ended>>
    /\ sweep' = sweep \ {s}
    /\ UNCHANGED <<sweeping, auth, worker, bounds>>

(* The lock is released, then the rows that expired are deleted. *)
ExpiredRows(R) == {s \in DOMAIN R : R[s].exp < now - DbGrace}

SweepEnds ==
    /\ sweeping /\ sweep = {}
    /\ sweeping' = FALSE
    /\ rows' = Drop(rows, ExpiredRows(rows))
    /\ NoNotify
    /\ UNCHANGED <<sweep, table, auth, worker, bounds, ended>>

(* A query, or the NOTIFY for an expired record, fails: the pass is over. *)
SweepFails ==
    /\ sweeping /\ sweep # {}
    /\ \E s \in sweep : Expired(table[s]) \/ table[s].flag # "NO_UPDATEDB"
    /\ sweeping' = FALSE /\ sweep' = {}
    /\ NoNotify
    /\ UNCHANGED <<table, rows, auth, worker, bounds, ended>>

(***************************************************************************)
(* destroy() makes a last pass, without NOTIFYs; at the next start         *)
(* restore_db_subs loads the rows that have not expired, as records that   *)
(* have to be inserted, and deletes them all.                              *)
(***************************************************************************)
LastPass ==
    LET Kept == {s \in Known : ~ Expired(table[s])}
        All[S \in SUBSET Kept] ==
            IF S = {} THEN rows
            ELSE LET s == CHOOSE x \in S : TRUE IN Written(All[S \ {s}], s, table[s])
        R == All[Kept]
    IN  Drop(R, ExpiredRows(R))

restore_db_subs ==
    /\ boots < MaxBoots /\ boots' = boots + 1
    /\ LockFree /\ \A w \in Workers : worker[w] = Idle
    /\ table' = [s \in {x \in DOMAIN LastPass : LastPass[x].exp >= now} |->
                    [exp |-> LastPass[s].exp, rcseq |-> LastPass[s].rcseq,
                     lcseq |-> LastPass[s].lcseq, status |-> LastPass[s].status,
                     flag |-> "INSERTDB"]]
    /\ rows' = <<>>
    /\ NoNotify
    /\ UNCHANGED <<auth, worker, timerVars, now, ops, ended>>

Tick ==
    /\ now < MaxNow /\ now' = now + 1
    /\ NoNotify
    /\ UNCHANGED <<table, rows, auth, worker, timerVars, ops, boots, ended>>

Next ==
    \/ \E w \in Workers :
          \/ notify(w) \/ Refresh(w) \/ delete_db_subs(w) \/ delete_shtable(w)
          \/ get_subs_dialog(w) \/ update_watchers_status(w) \/ RefusedRow(w)
          \/ \E s \in Subs : SubscribeNew(w, s) \/ get_stored_info(w, s) \/ p_tm_callback(w, s)
    \/ \E s \in Subs : Sweep(s)
    \/ timer_db_update \/ SweepEnds \/ SweepFails \/ restore_db_subs \/ Tick

Spec == Init /\ [][Next]_vars

(***************************************************************************)
(* The timer runs again and again, and the database is not down forever:   *)
(* a record is reached in the end although passes fail now and then.       *)
(***************************************************************************)
Fairness == (\A s \in Subs : SF_vars(Sweep(s))) /\ WF_vars(SweepEnds) /\ SF_vars(timer_db_update)
FairSpec == Spec /\ Fairness

(***************************************************************************)
(* Properties.                                                             *)
(***************************************************************************)
(* update_shtable and update_db_subs: while a subscription lasts, no two   *)
(* of its NOTIFYs have the same CSeq number, whoever sends them and also   *)
(* across an orderly restart: what was used in memory is written before    *)
(* the record is read again.                                               *)
NotifyCseqs == reused = {}

(* update_db_subs, handle_expired_subs: a record that has expired for long *)
(* enough is ended, or refreshed, although queries and NOTIFYs fail and    *)
(* whatever mark the record has for the database.                          *)
ExpiredEnd ==
    \A s \in Subs :
        (s \in Known /\ Expired(table[s])) ~> (s \notin Known \/ ~ Expired(table[s]))
=============================================================================
