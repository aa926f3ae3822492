------------------------------- MODULE Usrloc -------------------------------
(***************************************************************************)
(* The usrloc module: the list of contacts of one address of record, the   *)
(* state that ties each contact to the table location, and the operations  *)
(* the registrar and the timer perform on them.                            *)
(*                                                                         *)
(* Every operation runs under the lock of the record's slot, so records    *)
(* do not influence each other and one of them is modelled.  Modes NO_DB,   *)
(* WRITE_THROUGH and WRITE_BACK are modelled, DB_ONLY is not.               *)
(***************************************************************************)
EXTENDS Integers, Sequences, FiniteSets, SequencesExt

CONSTANTS
  Uris, CallIds, Qs,  \* contact addresses, Call-IDs, q values
  DbMode,             \* db_mode
  MatchingMode,       \* matching_mode
  DescTimeOrder,      \* desc_time_order
  DbFails             \* the kinds of query that may fail

ASSUME DbModeAssumption == DbMode \in {"NO_DB", "WRITE_THROUGH", "WRITE_BACK"}
ASSUME MatchingAssumption == MatchingMode \in {"CONTACT_ONLY", "CONTACT_CALLID"}
ASSUME OrderAssumption == DescTimeOrder \in BOOLEAN
ASSUME FailsAssumption == DbFails \subseteq {"insert", "update", "delete"}
ASSUME QsAssumption == Qs \subseteq Nat

VARIABLES
  contacts,  \* urecord->contacts, a list
  rows,      \* the table: row id -> binding
  loading,   \* rows that were read at start-up and are not in memory yet
  now        \* the time

CS_NEW == "CS_NEW"
CS_SYNC == "CS_SYNC"
CS_DIRTY == "CS_DIRTY"

\* Mutant: the date that marks a contact as expired is not a date.
UlExpiredTimeUnset == -1

\* Contacts that are forced to expire get a date in the past.
UL_EXPIRED_TIME == 10

\* What a row stores.
Bindings == [c : Uris, callid : CallIds, cseq : Nat, q : Qs, expires : Nat]

\* struct ucontact: a binding, FL_MEM and the state.
Ucontacts == [c : Uris, callid : CallIds, cseq : Nat, q : Qs, expires : Nat,
              mem : BOOLEAN, state : {CS_NEW, CS_SYNC, CS_DIRTY}]

Binding(c) == [c |-> c.c, callid |-> c.callid, cseq |-> c.cseq, q |-> c.q,
               expires |-> c.expires]

VALID_CONTACT(c) == c.expires > now \/ c.expires = 0

-----------------------------------------------------------------------------
\* The table.  A query either succeeds or, if its kind may fail, changes nothing.

Outcomes(op) == IF op \in DbFails THEN BOOLEAN ELSE {TRUE}

\* db_update_ucontact and db_delete_ucontact select rows by these columns.
SameKey(a, b) == a.c = b.c /\ a.callid = b.callid

\* The column id: no key but this one is unique.
FreshId ==
  CHOOSE k \in 1..(Cardinality(DOMAIN rows) + 1) : k \notin DOMAIN rows

\* Contacts with FL_MEM never reach the table, but the caller sees success.
DbInsertUcontact(c) ==
  IF c.mem THEN rows
  ELSE [k \in DOMAIN rows \cup {FreshId} |->
          IF k \in DOMAIN rows THEN rows[k] ELSE Binding(c)]

DbUpdateUcontact(c) ==
  IF c.mem THEN rows
  ELSE [k \in DOMAIN rows |->
          IF SameKey(rows[k], c) THEN Binding(c) ELSE rows[k]]

DbDeleteUcontact(c) ==
  IF c.mem THEN rows
  ELSE [k \in {j \in DOMAIN rows : ~SameKey(rows[j], c)} |-> rows[k]]

-----------------------------------------------------------------------------
\* The list.

\* Where mem_insert_ucontact puts a contact: before the first smaller q, or
\* first of all when the order is by time.
InsertPos(cs, q, pos) ==
  IF DescTimeOrder THEN pos = 1
  ELSE /\ \A j \in 1..(pos - 1) : cs[j].q >= q
       /\ pos <= Len(cs) => cs[pos].q < q

\* Where update_contact_pos puts contact i of cs, with its new q, in the list
\* rest of the others.
MovePos(cs, rest, i, q, pos) ==
  LET inPlace == /\ i = 1 \/ q <= cs[i - 1].q
                 /\ i = Len(cs) \/ q >= cs[i + 1].q IN
  CASE DescTimeOrder -> pos = 1
    [] ~DescTimeOrder /\ inPlace -> pos = i
    [] OTHER -> /\ \A j \in 1..(pos - 1) : rest[j].q < q
                /\ pos <= Len(rest) => rest[pos].q >= q

\* contact_match, contact_callid_match.
Matches(c, u, callid) ==
  c.c = u /\ (MatchingMode = "CONTACT_CALLID" => c.callid = callid)

FirstMatch(u, callid, i) ==
  /\ Matches(contacts[i], u, callid)
  /\ \A j \in 1..(i - 1) : ~Matches(contacts[j], u, callid)

NoMatch(u, callid) == \A i \in DOMAIN contacts : ~Matches(contacts[i], u, callid)

\* get_ucontact for a contact c that was found: "found", "invalid", or "skip"
\* when the same request changed it less than cseq_delay seconds ago.
Found(c, callid, cseq, recent) ==
  CASE c.callid # callid \/ cseq > c.cseq -> "found"
    [] c.callid = callid /\ cseq = c.cseq /\ recent -> "skip"
    [] OTHER -> "invalid"

-----------------------------------------------------------------------------
\* Operations on a contact: each sets contacts' and rows'.

NewUcontact(u, callid, cseq, q, expires, mem) ==
  [c |-> u, callid |-> callid, cseq |-> cseq, q |-> q, expires |-> expires,
   mem |-> mem, state |-> CS_NEW]

InsertUcontact(c) ==
  \E pos \in 1..(Len(contacts) + 1), ok \in Outcomes("insert") :
    LET stored == DbMode = "WRITE_THROUGH" /\ ok IN
    /\ InsertPos(contacts, c.q, pos)
    /\ contacts' = InsertAt(contacts, pos,
                     [c EXCEPT !.state = IF stored THEN CS_SYNC ELSE @])
    /\ rows' = IF stored THEN DbInsertUcontact(c) ELSE rows

StUpdate(st) ==
  IF st = CS_SYNC /\ DbMode \in {"WRITE_THROUGH", "WRITE_BACK"}
  THEN CS_DIRTY ELSE st

\* The Call-ID of the contact stays.
UpdateUcontact(i, new) ==
  LET c == [new EXCEPT !.callid = contacts[i].callid,
                       !.state = StUpdate(contacts[i].state)]
      rest == RemoveAt(contacts, i) IN
  \E pos \in 1..Len(contacts), ok \in Outcomes("update") :
    LET stored == DbMode = "WRITE_THROUGH" /\ ok IN
    /\ MovePos(contacts, rest, i, c.q, pos)
    /\ contacts' = InsertAt(rest, pos,
                     [c EXCEPT !.state = IF stored THEN CS_SYNC ELSE @])
    /\ rows' = IF stored THEN DbUpdateUcontact(c) ELSE rows

\* Mutant: contacts wait for the timer in every mode.
DeferredAlways(c) == c.state # CS_NEW

\* Mutant: the contact is forgotten at once, its row with it.
DeferredNever(c) == FALSE

\* st_delete_ucontact: the contact stays in memory for the timer to delete.
Deferred(c) == DbMode = "WRITE_BACK" /\ c.state # CS_NEW

\* c is contact i with its current FL_MEM.
DeleteUcontact(i, c) ==
  \/ /\ Deferred(c)
     /\ contacts' = ReplaceAt(contacts, i, [c EXCEPT !.expires = UL_EXPIRED_TIME])
     /\ UNCHANGED rows
  \/ /\ ~Deferred(c)
     /\ contacts' = RemoveAt(contacts, i)
     /\ \E ok \in Outcomes("delete") :
          rows' = IF DbMode = "WRITE_THROUGH" /\ ok
                  THEN DbDeleteUcontact(c) ELSE rows

\* wb_timer, nodb_timer on a contact whose time is over.
ExpireUcontact(i) ==
  LET c == contacts[i] IN
  /\ ~VALID_CONTACT(c)
  /\ contacts' = RemoveAt(contacts, i)
  /\ \E ok \in Outcomes("delete") :
       rows' = IF DbMode # "NO_DB" /\ c.state # CS_NEW /\ ok
               THEN DbDeleteUcontact(c) ELSE rows

\* Mutant: a failed query does not restore the state.
FlushUcontactForgets(i) ==
  LET c == contacts[i] IN
  /\ VALID_CONTACT(c)
  /\ contacts' = ReplaceAt(contacts, i, [c EXCEPT !.state = CS_SYNC])
  /\ \E ok \in Outcomes("insert") :
       rows' = IF ok /\ c.state = CS_NEW THEN DbInsertUcontact(c)
               ELSE IF ok /\ c.state = CS_DIRTY THEN DbUpdateUcontact(c) ELSE rows

\* Mutant: modified contacts are not written.
FlushUcontactInserts(i) ==
  LET c == contacts[i] IN
  /\ VALID_CONTACT(c)
  /\ IF c.state # CS_NEW THEN UNCHANGED <<contacts, rows>>
     ELSE /\ contacts' = ReplaceAt(contacts, i, [c EXCEPT !.state = CS_SYNC])
          /\ rows' = DbInsertUcontact(c)

\* wb_timer on a valid contact; it stays as it is if the query fails.
FlushUcontact(i) ==
  LET c == contacts[i]
      synced == ReplaceAt(contacts, i, [c EXCEPT !.state = CS_SYNC]) IN
  /\ VALID_CONTACT(c)
  /\ CASE DbMode = "NO_DB" \/ c.state = CS_SYNC -> UNCHANGED <<contacts, rows>>
       [] DbMode # "NO_DB" /\ c.state = CS_NEW ->
            \E ok \in Outcomes("insert") :
              /\ contacts' = IF ok THEN synced ELSE contacts
              /\ rows' = IF ok THEN DbInsertUcontact(c) ELSE rows
       [] OTHER ->
            \E ok \in Outcomes("update") :
              /\ contacts' = IF ok THEN synced ELSE contacts
              /\ rows' = IF ok THEN DbUpdateUcontact(c) ELSE rows

\* preload_udomain inserts a row it has read; the rows come in any order.
Loaded(b) == [NewUcontact(b.c, b.callid, b.cseq, b.q, b.expires, FALSE)
                EXCEPT !.state = CS_SYNC]

PreloadUcontact(k) ==
  \E pos \in 1..(Len(contacts) + 1) :
    /\ InsertPos(contacts, loading[k].q, pos)
    /\ contacts' = InsertAt(contacts, pos, Loaded(loading[k]))
    /\ loading' = [j \in DOMAIN loading \ {k} |-> loading[j]]
=============================================================================
