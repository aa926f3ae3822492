------------------------------- MODULE Msilo -------------------------------
(***************************************************************************)
(* modules/msilo: MESSAGEs for users who are offline are rows of a         *)
(* database table.  A worker that handles a REGISTER dumps the rows of the *)
(* user (m_dump), the timer process sends the reminders that are due       *)
(* (m_send_ontimer) and removes what has been answered (m_clean_silo).     *)
(* All of them meet in one list in shared memory, `lsent', that says which *)
(* messages are on their way.  The rows are read by a query, and used      *)
(* later, one by one: a message of the result may have been answered, and  *)
(* even deleted, in between.                                               *)
(*                                                                         *)
(* One user; a message is its id, which is never 0.  Clock values are left *)
(* out: a reminder becomes due and a message expires in steps of their     *)
(* own.  The transaction that carries a message is tm's (external), which  *)
(* calls back once, with the final reply (pass_provisional_replies is 0,   *)
(* its default).                                                           *)
(***************************************************************************)
EXTENDS Naturals, SequencesExt

CONSTANTS Workers,  \* processes that handle REGISTERs
          Mids,     \* messages stored in a behaviour
          Times,    \* when they are to be sent: at the next REGISTER, or later
          Codes     \* final replies to the requests that carry them

VARIABLES rows,       \* the table: id -> [snd, expired]
          lsent,      \* ml->lsent: the elements, oldest first
          ldone,      \* ml->ldone, then the list m_clean_silo walks
          result,     \* process -> the ids of its query still to be sent
          calls,      \* id -> requests in flight for it
          delivered,  \* ids some request of which was answered 2xx
          purged,     \* ids deleted because they expired
          undeleted   \* ids the deletion of which failed in the database

vars == <<rows, lsent, ldone, result, calls, delivered, purged, undeleted>>
ghosts == <<delivered, purged, undeleted>>

Timer == "timer"
Processes == Workers \cup {Timer}

Stored == DOMAIN rows
Without(S) == [m \in Stored \ S |-> rows[m]]
InList(m) == \E i \in DOMAIN lsent : lsent[i].mid = m
Answered(e) == e.flag \cap {"MS_MSG_DONE", "MS_MSG_ERRO"} # {}

(* A message that was stored before: ids are an auto_increment column. *)
Used(m) == m \in Stored \cup delivered \cup purged

Init ==
    /\ rows = <<>> /\ lsent = <<>> /\ ldone = <<>>
    /\ result = [p \in Processes |-> <<>>]
    /\ calls = [m \in Mids |-> 0]
    /\ delivered = {} /\ purged = {} /\ undeleted = {}

(***************************************************************************)
(* msg_list_set_flag: the first element with that id, if there is one.     *)
(***************************************************************************)
msg_list_set_flag(l, m, fl) ==
    LET I == {i \in DOMAIN l : l[i].mid = m}
    IN  IF I = {} THEN l
        ELSE [l EXCEPT ![Min(I)].flag = @ \cup {fl}]

(***************************************************************************)
(* msg_list_check: the first answered element moves to the done list.  The *)
(* walk then follows p0->next, which by now is the link of the done list,  *)
(* empty since the last msg_list_reset: a pass takes one element at most.  *)
(***************************************************************************)
\* Mutant: the walk stops at an element that has no answer yet.
CheckHeadOnly(l) == {i \in {1} \cap DOMAIN l : Answered(l[i])}

msg_list_check(l) ==
    LET I == {i \in DOMAIN l : Answered(l[i])}
    IN  IF I = {} THEN {} ELSE {Min(I)}

(***************************************************************************)
(* m_store: a row for later delivery, now or at the time an AVP names.     *)
(***************************************************************************)
m_store(m) ==
    /\ ~ Used(m)
    /\ \E s \in Times :
           rows' = [x \in Stored \cup {m} |->
                        IF x = m THEN [snd |-> s, expired |-> FALSE] ELSE rows[x]]
    /\ UNCHANGED <<lsent, ldone, result, calls, ghosts>>

(***************************************************************************)
(* The queries.  m_dump asks for the rows without a sending time, ordered  *)
(* by id; m_send_ontimer for those whose time has come.                    *)
(***************************************************************************)
Query(p, S) ==
    /\ result[p] = <<>>
    /\ S # {}
    /\ result' = [result EXCEPT ![p] = SetToSortSeq(S, <)]
    /\ UNCHANGED <<rows, lsent, ldone, calls, ghosts>>

m_dump(w) == Query(w, {m \in Stored : rows[m].snd = "zero"})

m_send_ontimer == ldone = <<>> /\ Query(Timer, {m \in Stored : rows[m].snd = "due"})

(***************************************************************************)
(* One turn of the loops over the rows.  msg_list_check_msg looks for the  *)
(* id and appends it under the list's lock, or fails for want of memory; a *)
(* message that is in the list is skipped.  When its headers do not fit    *)
(* the element is marked as failed and the rest of the result is given up. *)
(* t_request may fail (sent = FALSE): nobody looks at its result.          *)
(***************************************************************************)
\* Mutant: the list is not consulted, the element is just appended.
SendBlind(p) ==
    /\ result[p] # <<>>
    /\ result' = [result EXCEPT ![p] = Tail(@)]
    /\ lsent' = Append(lsent, [mid |-> Head(result[p]), flag |-> {}])
    /\ calls' = [calls EXCEPT ![Head(result[p])] = @ + 1]
    /\ UNCHANGED <<rows, ldone, ghosts>>

SendNext(p) ==
    /\ result[p] # <<>>
    /\ LET m == Head(result[p])
           f == IF p = Timer THEN {"MS_MSG_TSND"} ELSE {}
           Listed(flag) == lsent' = Append(lsent, [mid |-> m, flag |-> flag])
           Rest(s) == result' = [result EXCEPT ![p] = s]
       IN  \/ /\ Rest(Tail(result[p]))              \* in the list, or no memory
              /\ UNCHANGED <<lsent, calls>>
           \/ /\ ~ InList(m)
              /\ Listed(f)
              /\ Rest(Tail(result[p]))
              /\ \E sent \in BOOLEAN :
                     calls' = [calls EXCEPT ![m] = IF sent THEN @ + 1 ELSE @]
           \/ /\ ~ InList(m)
              /\ Listed({"MS_MSG_ERRO"})
              /\ Rest(<<>>)
              /\ UNCHANGED calls
    /\ UNCHANGED <<rows, ldone, ghosts>>

(***************************************************************************)
(* m_tm_callback: everything below 300 counts as delivered.                *)
(***************************************************************************)
\* Mutant: only negative final replies, not redirections, count as failures.
CallbackLenient(m, code) ==
    lsent' = msg_list_set_flag(lsent, m,
                 IF code >= 400 THEN "MS_MSG_ERRO" ELSE "MS_MSG_DONE")

m_tm_callback(m, code) ==
    lsent' = msg_list_set_flag(lsent, m,
                 IF code >= 300 THEN "MS_MSG_ERRO" ELSE "MS_MSG_DONE")

(* The transaction ends, once, with a final reply or a timeout. *)
Completed(m, code) ==
    /\ calls[m] > 0
    /\ m_tm_callback(m, code)
    /\ calls' = [calls EXCEPT ![m] = @ - 1]
    /\ delivered' = IF code < 300 THEN delivered \cup {m} ELSE delivered
    /\ UNCHANGED <<rows, ldone, result, purged, undeleted>>

(***************************************************************************)
(* m_clean_silo: the answered element leaves the list; the database is     *)
(* changed after that, with no lock held; then, every clean_period passes, *)
(* the expired rows go.                                                    *)
(***************************************************************************)
m_clean_silo ==
    /\ result[Timer] = <<>> /\ ldone = <<>>
    /\ \E i \in msg_list_check(lsent) :
           /\ ldone' = <<lsent[i]>>
           /\ lsent' = RemoveAt(lsent, i)
    /\ UNCHANGED <<rows, result, calls, ghosts>>

(* ms_reset_stime: an undelivered reminder waits for the next REGISTER. *)
ms_reset_stime(m) ==
    rows' = [x \in Stored |-> IF x = m THEN [rows[x] EXCEPT !.snd = "zero"] ELSE rows[x]]

\* Mutant: a delivered reminder is taken for one that has to be tried again.
CleanResets ==
    /\ ldone # <<>>
    /\ LET e == Head(ldone)
       IN  CASE "MS_MSG_TSND" \in e.flag -> ms_reset_stime(e.mid)
             [] "MS_MSG_DONE" \in e.flag -> rows' = Without({e.mid})
             [] OTHER -> rows' = rows
    /\ ldone' = Tail(ldone)
    /\ UNCHANGED <<lsent, result, calls, ghosts>>

CleanRow ==
    /\ ldone # <<>>
    /\ LET e == Head(ldone)
       IN  \/ /\ "MS_MSG_DONE" \in e.flag
              /\ rows' = Without({e.mid})
              /\ UNCHANGED undeleted
           \/ /\ "MS_MSG_DONE" \in e.flag
              /\ rows' = rows
              /\ undeleted' = undeleted \cup {e.mid}
           \/ /\ "MS_MSG_DONE" \notin e.flag
              /\ "MS_MSG_TSND" \in e.flag
              /\ ms_reset_stime(e.mid) \/ rows' = rows
              /\ UNCHANGED undeleted
           \/ /\ e.flag \cap {"MS_MSG_DONE", "MS_MSG_TSND"} = {}
              /\ UNCHANGED <<rows, undeleted>>
    /\ ldone' = Tail(ldone)
    /\ UNCHANGED <<lsent, result, calls, delivered, purged>>

CleanExpired ==
    /\ ldone = <<>> /\ result[Timer] = <<>>
    /\ LET E == {m \in Stored : rows[m].expired}
       IN  /\ E # {}
           /\ rows' = Without(E)
           /\ purged' = purged \cup E
    /\ UNCHANGED <<lsent, ldone, result, calls, delivered, undeleted>>

TimePasses(m) ==
    /\ m \in Stored
    /\ \/ rows[m].snd = "later" /\ rows' = [rows EXCEPT ![m].snd = "due"]
       \/ ~ rows[m].expired /\ rows' = [rows EXCEPT ![m].expired = TRUE]
    /\ UNCHANGED <<lsent, ldone, result, calls, ghosts>>

Next ==
    \/ \E m \in Mids : m_store(m) \/ TimePasses(m)
    \/ \E m \in Mids, code \in Codes : Completed(m, code)
    \/ \E w \in Workers : m_dump(w)
    \/ \E p \in Processes : SendNext(p)
    \/ m_send_ontimer \/ m_clean_silo \/ CleanRow \/ CleanExpired

Spec == Init /\ [][Next]_vars

(***************************************************************************)
(* The timer process runs its routines again and again, and no step of     *)
(* theirs waits for anybody.                                               *)
(***************************************************************************)
Fairness == WF_vars(SendNext(Timer)) /\ WF_vars(CleanRow) /\ SF_vars(m_clean_silo)
FairSpec == Spec /\ Fairness

(* msg_list_check_msg: two REGISTERs of the user, or a REGISTER and the    *)
(* timer, never have the same message in flight twice, however old the     *)
(* query result is that one of them works from.                            *)
OneInFlight == \A m \in Mids : calls[m] <= 1

(* m_clean_silo: a row leaves the table only when a request that carried   *)
(* the message got a 2xx, or when it expired; a failed or redirected       *)
(* attempt leaves it for the next REGISTER.                                *)
NeverLost ==
    [][\A m \in Stored : m \in DOMAIN rows' \/ m \in delivered \cup purged']_vars

(* m_tm_callback, msg_list_check and m_clean_silo: a delivered message     *)
(* whose row is still there has a list element that will have it deleted,  *)
(* unless the database refused to.                                         *)
DeliveredGone ==
    \A m \in (delivered \cap Stored) \ undeleted :
        \E e \in ToSet(ldone) \cup ToSet(lsent) :
            e.mid = m /\ "MS_MSG_DONE" \in e.flag

(* msg_list_check takes one element in a pass, and yet every answered      *)
(* element leaves the list, so that a failed message can be sent again.    *)
AnsweredLeave ==
    \A m \in Mids :
        (\E e \in ToSet(lsent) : e.mid = m /\ Answered(e))
            ~> (\A e \in ToSet(lsent) : e.mid = m => ~ Answered(e))
=============================================================================
