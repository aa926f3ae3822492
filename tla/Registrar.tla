------------------------------ MODULE Registrar ------------------------------
(***************************************************************************)
(* REGISTER requests for one address of record: the function save of the   *)
(* registrar on top of usrloc, the timer of usrloc, the clock, restarts and *)
(* the loading of the table by the first SIP worker.                       *)
(*                                                                         *)
(* A request and a pass of the timer hold the lock of the record's slot    *)
(* from beginning to end, so there is one of them at a time: job.  It is   *)
(* worked off contact by contact, because a query of each may fail and the *)
(* server may stop between two of them.  The clock moves while no job is   *)
(* under way: a job reads it once, and nobody else looks at the record      *)
(* before the job is done.                                                 *)
(***************************************************************************)
EXTENDS Usrloc

CONSTANTS
  Lifetimes,    \* the values of expires, after min_expires and max_expires
  MemFlags,     \* whether save is called with REG_SAVE_MEM_FL
  MaxContacts,  \* max_contacts, 0 for no limit
  Early,        \* whether others serve requests while the first worker loads
  MaxCseq, MaxLen, MaxReg, MaxNow, MaxBoots  \* bounds

ASSUME LifetimesAssumption == Lifetimes \subseteq Nat \ {0}
ASSUME CallIdsAssumption == CallIds # {}
ASSUME MemAssumption == MemFlags \subseteq BOOLEAN
ASSUME EarlyAssumption == Early \in BOOLEAN
ASSUME LimitsAssumption ==
  /\ MaxContacts \in Nat /\ MaxCseq \in Nat /\ MaxLen \in Nat
  /\ MaxReg \in Nat /\ MaxNow \in Nat /\ MaxBoots \in Nat

VARIABLES
  asked, \* the first worker has queried the table
  job,   \* the request or the pass of the timer that holds the lock
  regs,  \* number of requests so far
  boots  \* number of restarts so far

vars == <<contacts, rows, loading, now, asked, job, regs, boots>>

\* A Contact header field: address, q and expires, 0 to remove the binding.
Items == [c : Uris, q : Qs, e : {0} \cup Lifetimes]
Lists == UNION {[1..n -> Items] : n \in 1..MaxLen}

Idle == [kind |-> "idle", callid |-> CHOOSE x \in CallIds : TRUE, cseq |-> 0,
         mem |-> FALSE, recent |-> {}, rest |-> <<>>, num |-> 0, i |-> 0]

Init ==
  /\ contacts = <<>>
  /\ rows = <<>>
  /\ loading = <<>>
  /\ asked = TRUE
  /\ now = UL_EXPIRED_TIME + 1
  /\ job = Idle
  /\ regs = 0
  /\ boots = 0

\* The contact that an item of the current request asks for.
Wanted(it) == NewUcontact(it.c, job.callid, job.cseq, it.q, now + it.e, job.mem)

\* A worker takes the lock for a request.
Serving == job.kind = "idle" /\ (Early \/ (asked /\ loading = <<>>))

\* The job once the first item of the list is dealt with.
Proceed ==
  IF Len(job.rest) = 1 THEN Idle
  ELSE [job EXCEPT !.rest = Tail(@), !.recent = @ \cup {Head(job.rest).c}]

-----------------------------------------------------------------------------
\* test_max_contacts: the contacts before and, by its reckoning, after the
\* request; it fails on a request that is too old.
Lookup(it, callid, cseq, recent) ==
  IF NoMatch(it.c, callid) THEN "none"
  ELSE LET i == CHOOSE i \in DOMAIN contacts : FirstMatch(it.c, callid, i) IN
       Found(contacts[i], callid, cseq, it.c \in recent)

Count(S) == Cardinality(S)

TestMaxContacts(list, callid, cseq, recent) ==
  LET Ret(k) == Lookup(list[k], callid, cseq, recent) IN
  /\ \A k \in DOMAIN list : Ret(k) # "invalid"
  /\ Count({i \in DOMAIN contacts : VALID_CONTACT(contacts[i])})
       + Count({k \in DOMAIN list : Ret(k) = "none" /\ list[k].e # 0})
       - Count({k \in DOMAIN list : Ret(k) = "found" /\ list[k].e = 0})
     <= MaxContacts

\* add_contacts: the record is found or has to be made.  recent are the
\* contacts that were modified less than cseq_delay seconds ago.
AddContacts(list, callid, cseq, mem, recent) ==
  /\ Serving
  /\ regs < MaxReg
  /\ regs' = regs + 1
  /\ \/ /\ contacts = <<>>
        /\ job' = [Idle EXCEPT !.kind = "insert", !.callid = callid,
                     !.cseq = cseq, !.mem = mem, !.rest = list]
     \/ /\ contacts # <<>>
        /\ job' = IF MaxContacts # 0
                     /\ ~TestMaxContacts(list, callid, cseq, recent)
                  THEN job
                  ELSE [Idle EXCEPT !.kind = "update", !.callid = callid,
                          !.cseq = cseq, !.mem = mem, !.recent = recent,
                          !.rest = list]
  /\ UNCHANGED <<contacts, rows, loading, asked, now, boots>>

\* One round of the loop of update_contacts.
UpdateContacts ==
  LET it == Head(job.rest) IN
  /\ job.kind = "update"
  /\ \/ /\ NoMatch(it.c, job.callid)
        /\ IF it.e = 0 THEN UNCHANGED <<contacts, rows>>
           ELSE InsertUcontact(Wanted(it))
        /\ job' = Proceed
     \/ \E i \in DOMAIN contacts :
          LET c == contacts[i]
              found == Found(c, job.callid, job.cseq, it.c \in job.recent) IN
          /\ FirstMatch(it.c, job.callid, i)
          /\ \/ /\ found = "invalid"
                /\ job' = Idle
                /\ UNCHANGED <<contacts, rows>>
             \/ /\ found = "skip"
                /\ job' = Proceed
                /\ UNCHANGED <<contacts, rows>>
             \/ /\ found = "found"
                /\ IF it.e = 0 THEN DeleteUcontact(i, [c EXCEPT !.mem = job.mem])
                   ELSE UpdateUcontact(i, Wanted(it))
                /\ job' = Proceed
  /\ UNCHANGED <<loading, asked, now, regs, boots>>

\* Mutant: insert_contacts does not look for a contact it has just inserted.
InsertContactsBlind ==
  LET it == Head(job.rest) IN
  /\ job.kind = "insert"
  /\ IF it.e = 0 THEN UNCHANGED <<contacts, rows>> ELSE InsertUcontact(Wanted(it))
  /\ job' = Proceed
  /\ UNCHANGED <<loading, asked, now, regs, boots>>

\* One round of the loop of insert_contacts; too many contacts end it.
InsertContacts ==
  LET it == Head(job.rest) IN
  /\ job.kind = "insert"
  /\ \/ /\ it.e = 0
        /\ job' = Proceed
        /\ UNCHANGED <<contacts, rows>>
     \/ /\ it.e # 0 /\ MaxContacts # 0 /\ job.num >= MaxContacts
        /\ job' = [Idle EXCEPT !.kind = "wipe", !.i = 1]
        /\ UNCHANGED <<contacts, rows>>
     \/ /\ it.e # 0 /\ (MaxContacts = 0 \/ job.num < MaxContacts)
        /\ \/ NoMatch(it.c, job.callid) /\ InsertUcontact(Wanted(it))
           \/ \E i \in DOMAIN contacts :
                FirstMatch(it.c, job.callid, i) /\ UpdateUcontact(i, Wanted(it))
        /\ job' = IF Len(job.rest) = 1 THEN Idle
                  ELSE [Proceed EXCEPT !.num = @ + 1]
  /\ UNCHANGED <<loading, asked, now, regs, boots>>

\* A contact that cannot be parsed, or no memory for it, ends the request:
\* update_contacts keeps what it has done, insert_contacts deletes the record.
Fail ==
  /\ job.kind \in {"update", "insert"}
  /\ job' = IF job.kind = "insert" /\ contacts # <<>>
            THEN [Idle EXCEPT !.kind = "wipe", !.i = 1] ELSE Idle
  /\ UNCHANGED <<contacts, rows, loading, asked, now, regs, boots>>

\* star: all contacts get the FL_MEM of the request, then delete_urecord.
Star(mem) ==
  /\ Serving
  /\ regs < MaxReg
  /\ regs' = regs + 1
  /\ contacts # <<>>
  /\ contacts' = [i \in DOMAIN contacts |-> [contacts[i] EXCEPT !.mem = mem]]
  /\ job' = [Idle EXCEPT !.kind = "wipe", !.i = 1]
  /\ UNCHANGED <<rows, loading, asked, now, boots>>

\* The loop of delete_urecord.
DeleteUrecord ==
  /\ job.kind = "wipe"
  /\ \/ /\ job.i > Len(contacts)
        /\ job' = Idle
        /\ UNCHANGED <<contacts, rows>>
     \/ /\ job.i <= Len(contacts)
        /\ DeleteUcontact(job.i, contacts[job.i])
        /\ job' = [job EXCEPT !.i = IF Deferred(contacts[job.i]) THEN @ + 1 ELSE @]
  /\ UNCHANGED <<loading, asked, now, regs, boots>>

-----------------------------------------------------------------------------
TimerBegin ==
  /\ job.kind = "idle"
  /\ contacts # <<>>
  /\ job' = [Idle EXCEPT !.kind = "timer", !.i = 1]
  /\ UNCHANGED <<contacts, rows, loading, asked, now, regs, boots>>

\* The loop of wb_timer and nodb_timer.
TimerUrecord ==
  /\ job.kind = "timer"
  /\ \/ /\ job.i > Len(contacts)
        /\ job' = Idle
        /\ UNCHANGED <<contacts, rows>>
     \/ /\ job.i <= Len(contacts)
        /\ \/ ExpireUcontact(job.i) /\ UNCHANGED job
           \/ FlushUcontact(job.i) /\ job' = [job EXCEPT !.i = @ + 1]
  /\ UNCHANGED <<loading, asked, now, regs, boots>>

Tick ==
  /\ job.kind = "idle"
  /\ now < MaxNow
  /\ now' = now + 1
  /\ UNCHANGED <<contacts, rows, loading, asked, job, regs, boots>>

\* The server stops, in the middle of a job or not, and starts again.
Restart ==
  /\ boots < MaxBoots
  /\ boots' = boots + 1
  /\ job' = Idle
  /\ contacts' = <<>>
  /\ loading' = <<>>
  /\ asked' = (DbMode = "NO_DB")
  /\ UNCHANGED <<rows, now, regs>>

\* preload_udomain: one query, then the lock is taken for each row.
PreloadQuery ==
  /\ ~asked
  /\ asked' = TRUE
  /\ loading' = rows
  /\ UNCHANGED <<contacts, rows, now, job, regs, boots>>

PreloadRow ==
  /\ job.kind = "idle"
  /\ \E k \in DOMAIN loading : PreloadUcontact(k)
  /\ UNCHANGED <<rows, now, asked, job, regs, boots>>

Next ==
  \/ \E list \in Lists, callid \in CallIds, cseq \in 1..MaxCseq, mem \in MemFlags,
        recent \in SUBSET Uris :
       AddContacts(list, callid, cseq, mem, recent)
  \/ UpdateContacts
  \/ InsertContacts
  \/ Fail
  \/ \E mem \in MemFlags : Star(mem)
  \/ DeleteUrecord
  \/ TimerBegin
  \/ TimerUrecord
  \/ Tick
  \/ Restart
  \/ PreloadQuery
  \/ PreloadRow

Spec == Init /\ [][Next]_vars

\* The requests and the timer get on with their work, the timer comes back,
\* the loader gets the lock and the database does not refuse for ever.
Fairness ==
  /\ WF_vars(PreloadQuery)
  /\ SF_vars(PreloadRow)
  /\ WF_vars(UpdateContacts \/ InsertContacts \/ DeleteUrecord \/ TimerUrecord)
  /\ WF_vars(TimerBegin)
  /\ \A n \in 1..(MaxReg * MaxLen) :
       SF_vars(TimerUrecord /\ job.i = n /\ <<contacts, rows>>' # <<contacts, rows>>)

FairSpec == Spec /\ Fairness

-----------------------------------------------------------------------------
Kinds == {"idle", "insert", "update", "wipe", "timer"}

\* Every variable has its type.
TypeOK ==
  /\ contacts \in Seq(Ucontacts)
  /\ DOMAIN rows \subseteq Nat \ {0} /\ IsFiniteSet(DOMAIN rows)
  /\ \A k \in DOMAIN rows : rows[k] \in Bindings
  /\ DOMAIN loading \subseteq Nat \ {0} /\ IsFiniteSet(DOMAIN loading)
  /\ \A k \in DOMAIN loading : loading[k] \in Bindings
  /\ now \in Nat /\ regs \in Nat /\ boots \in Nat /\ asked \in BOOLEAN
  /\ job \in [kind : Kinds, callid : CallIds, cseq : Nat, mem : BOOLEAN,
              recent : SUBSET Uris, rest : Seq(Items), num : Nat, i : Nat]

\* No two contacts of the record answer to the same address (and Call-ID).
ContactsDistinct ==
  \A i, j \in DOMAIN contacts :
    i # j => ~Matches(contacts[i], contacts[j].c, contacts[j].callid)

\* What the state of contact c says about the table is true: a CS_SYNC contact
\* is there as it is, a CS_DIRTY one with older values, a CS_NEW one not at all.
Truthful(c) ==
  CASE c.state = CS_SYNC ->
         \E k \in DOMAIN rows :
           /\ SameKey(rows[k], c)
           /\ rows[k] = Binding(c) \/ c.expires = UL_EXPIRED_TIME
    [] c.state = CS_DIRTY -> \E k \in DOMAIN rows : SameKey(rows[k], c)
    [] OTHER -> \A k \in DOMAIN rows : ~SameKey(rows[k], c)

\* The states of the contacts never lie about the table, so that a later flush
\* or clean-up issues the right query whatever failed or crashed before.
StateTruthful == \A i \in DOMAIN contacts : Truthful(contacts[i])

\* The rows that the first worker has not brought to memory yet.
Pending == IF asked THEN loading ELSE rows

\* Every row belongs to a contact in memory that will update or delete it, or
\* is about to be loaded.
RowsOwned ==
  \A k \in DOMAIN rows :
    \/ k \in DOMAIN Pending
    \/ \E i \in DOMAIN contacts :
         SameKey(rows[k], contacts[i]) /\ contacts[i].state # CS_NEW

\* The bindings in force implement the abstract location service: only
\* requests and time change them.
bound ==
  {Binding(contacts[i]) : i \in {j \in DOMAIN contacts : VALID_CONTACT(contacts[j])}}
    \cup {Pending[k] : k \in {j \in DOMAIN Pending : VALID_CONTACT(Pending[j])}}

Loc == INSTANCE Location WITH bound <- bound, now <- now

LocationService == Loc!Spec

\* Once requests cease, memory and table agree, and expired contacts are gone.
CaughtUp ==
  []<>( /\ \A i \in DOMAIN contacts : VALID_CONTACT(contacts[i])
        /\ {rows[k] : k \in DOMAIN rows} = bound )
=============================================================================
