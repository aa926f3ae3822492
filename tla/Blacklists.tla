----------------------------- MODULE Blacklists -----------------------------
(***************************************************************************)
(* The blacklist of destinations that did not answer (resolve.c creates it *)
(* with BL_DO_EXPIRE and BL_BY_DEFAULT): a worker whose request failed     *)
(* adds the address, every worker looks an address up before it sends, and *)
(* the timer removes the rules whose time has passed.  Writers keep each   *)
(* other and readers out with two counters under a lock.                   *)
(*                                                                         *)
(* A rule is its address; a list is linked through nxt.  What a writer     *)
(* does to the list is one step: it links new rules and unlinks old ones   *)
(* by a single assignment each.  A reader takes a step per rule.           *)
(***************************************************************************)
EXTENDS Naturals, Sequences, SequencesExt, FiniteSets

CONSTANTS
  Workers,
  Addrs,
  NRules,     \* bound: rules that are made
  Flags,      \* of the list, a subset of {"BL_READONLY_LIST", "BL_DO_EXPIRE", "BL_BY_DEFAULT"}
  ExpireLimit,  \* DNS_BL_EXPIRE
  MaxTicks

VARIABLES
  ticks,
  rule,       \* per rule: address, expire_end, and whether it is unused, allocated or freed
  nxt,        \* per rule: next
  first, last,
  count_write, count_read,
  worker,     \* per worker: pc, and the rule it adds or looks at
  timer       \* of the timer process: pc, and the rules it has still to free

vars == <<ticks, rule, nxt, first, last, count_write, count_read, worker, timer>>

Nil == 0
Rules == 1..NRules

Idle == [pc |-> "idle", r |-> Nil]

Init ==
  /\ ticks = 0
  /\ rule = [r \in Rules |-> [addr |-> "none", expire_end |-> 0, mem |-> "unused"]]
  /\ nxt = [r \in Rules |-> Nil]
  /\ first = Nil /\ last = Nil
  /\ count_write = 0 /\ count_read = 0
  /\ worker = [w \in Workers |-> Idle]
  /\ timer = [pc |-> "idle", now |-> 0, free |-> <<>>]

\* The rules from r on, in order.
RECURSIVE From(_)
From(r) == IF r = Nil THEN <<>> ELSE <<r>> \o From(nxt[r])

List == From(first)

(***************************************************************************)
(* A worker adds a rule: get_next_su, add_list_to_head.                    *)
(***************************************************************************)
\* The rule and its end are made before the list is asked for.
add_rule_to_list(w, r, a) ==
  /\ worker[w] = Idle
  /\ rule[r].mem = "unused" /\ \A q \in 1..(r - 1) : rule[q].mem # "unused"
  /\ rule' = [rule EXCEPT ![r] = [addr |-> a, expire_end |-> ticks + ExpireLimit,
                                  mem |-> "allocated"]]
  /\ worker' = [worker EXCEPT ![w] = [pc |-> "write", r |-> r]]
  /\ UNCHANGED <<ticks, nxt, first, last, count_write, count_read, timer>>

\* Get the list for write: first from the other writers ...
GetWrite(w) ==
  /\ worker[w].pc = "write"
  /\ count_write = 0
  /\ count_write' = 1
  /\ worker' = [worker EXCEPT ![w].pc = "drain"]
  /\ UNCHANGED <<ticks, rule, nxt, first, last, count_read, timer>>

\* Mutant: the rule is put at the end.
LinkLast(r) ==
  IF first = Nil
    THEN first' = r /\ last' = r /\ UNCHANGED nxt
    ELSE last' = r /\ nxt' = [nxt EXCEPT ![last] = r] /\ UNCHANGED first

\* Where r goes in a list that is kept in the order of expire_end: in front,
\* at the end, or behind the rule whose successor ends no earlier.
Link(r) ==
  LET e == rule[r].expire_end
      before(p) == p # last /\ rule[nxt[p]].expire_end >= e
  IN IF first = Nil
       THEN first' = r /\ last' = r /\ UNCHANGED nxt
     ELSE IF rule[first].expire_end >= e
       THEN first' = r /\ nxt' = [nxt EXCEPT ![r] = first] /\ UNCHANGED last
     ELSE IF rule[last].expire_end <= e
       THEN last' = r /\ nxt' = [nxt EXCEPT ![last] = r] /\ UNCHANGED first
     ELSE LET p == SelectInSeq(List, before)
          IN /\ nxt' = [nxt EXCEPT ![r] = nxt[List[p]], ![List[p]] = r]
             /\ UNCHANGED <<first, last>>

\* rm_dups: the list has a rule with the address of r.
Duplicate(r) == \E i \in DOMAIN List : rule[List[i]].addr = rule[r].addr

\* ... then from the readers.  A duplicate is dropped.
add_list_to_head(w) ==
  /\ worker[w].pc = "drain" /\ count_read = 0
  /\ LET r == worker[w].r
     IN IF Duplicate(r)
          THEN rule' = [rule EXCEPT ![r].mem = "freed"] /\ UNCHANGED <<nxt, first, last>>
          ELSE Link(r) /\ UNCHANGED rule
  /\ count_write' = 0
  /\ worker' = [worker EXCEPT ![w] = Idle]
  /\ UNCHANGED <<ticks, count_read, timer>>

(***************************************************************************)
(* A worker looks an address up: check_against_rule_list.                  *)
(***************************************************************************)
\* !flags & BL_READONLY_LIST is (!flags) & 1: true of a list without flags.
TakesReadLock == Flags = {}

GetRead(w) ==
  /\ worker[w] = Idle
  /\ TakesReadLock => count_write = 0
  /\ count_read' = IF TakesReadLock THEN count_read + 1 ELSE count_read
  /\ worker' = [worker EXCEPT ![w] = [pc |-> "first", r |-> Nil]]
  /\ UNCHANGED <<ticks, rule, nxt, first, last, count_write, timer>>

\* The pointer to the next rule is taken; at the end, or at a match, the
\* search is over.
check_against_rule_list(w) ==
  /\ worker[w].pc \in {"first", "read"}
  /\ LET p == IF worker[w].pc = "first" THEN first ELSE nxt[worker[w].r]
     IN \/ /\ p # Nil
           /\ worker' = [worker EXCEPT ![w] = [pc |-> "read", r |-> p]]
           /\ UNCHANGED count_read
        \/ /\ p = Nil \/ worker[w].pc = "read"
           /\ worker' = [worker EXCEPT ![w] = Idle]
           /\ count_read' = IF TakesReadLock THEN count_read - 1 ELSE count_read
  /\ UNCHANGED <<ticks, rule, nxt, first, last, count_write, timer>>

(***************************************************************************)
(* The timer: delete_expired_routine.                                      *)
(***************************************************************************)
delete_expired_routine ==
  /\ timer.pc = "idle" /\ "BL_DO_EXPIRE" \in Flags /\ first # Nil
  /\ timer' = [timer EXCEPT !.pc = "write", !.now = ticks]
  /\ UNCHANGED <<ticks, rule, nxt, first, last, count_write, count_read, worker>>

TimerGetWrite ==
  /\ timer.pc = "write" /\ count_write = 0
  /\ count_write' = 1
  /\ timer' = [timer EXCEPT !.pc = "drain"]
  /\ UNCHANGED <<ticks, rule, nxt, first, last, count_read, worker>>

\* Mutant: a rule that ends now stays.
DeleteLate ==
  /\ timer.pc = "drain" /\ count_read = 0
  /\ count_write' = 0
  /\ LET stays(r) == rule[r].expire_end >= timer.now
         p == SelectInSeq(List, stays)
     IN IF p = 0
          THEN /\ first' = Nil /\ last' = Nil
               /\ timer' = [timer EXCEPT !.pc = "free", !.free = List]
               /\ UNCHANGED nxt
          ELSE /\ first' = List[p]
               /\ timer' = [timer EXCEPT !.pc = "free", !.free = SubSeq(List, 1, p - 1)]
               /\ nxt' = IF p = 1 THEN nxt ELSE [nxt EXCEPT ![List[p - 1]] = Nil]
               /\ UNCHANGED last
  /\ UNCHANGED <<ticks, rule, count_read, worker>>

\* The rules up to the first one that ends later are cut off, then freed
\* after the list is given back.
delete_expired ==
  /\ timer.pc = "drain" /\ count_read = 0
  /\ count_write' = 0
  /\ LET stays(r) == rule[r].expire_end > timer.now
         p == SelectInSeq(List, stays)
     IN IF p = 0
          THEN /\ first' = Nil /\ last' = Nil
               /\ timer' = [timer EXCEPT !.pc = "free", !.free = List]
               /\ UNCHANGED nxt
          ELSE /\ first' = List[p]
               /\ timer' = [timer EXCEPT !.pc = "free", !.free = SubSeq(List, 1, p - 1)]
               /\ nxt' = IF p = 1 THEN nxt ELSE [nxt EXCEPT ![List[p - 1]] = Nil]
               /\ UNCHANGED last
  /\ UNCHANGED <<ticks, rule, count_read, worker>>

FreeExpired ==
  /\ timer.pc = "free"
  /\ IF timer.free = <<>>
       THEN timer' = [timer EXCEPT !.pc = "idle"] /\ UNCHANGED rule
       ELSE /\ rule' = [rule EXCEPT ![Head(timer.free)].mem = "freed"]
            /\ timer' = [timer EXCEPT !.free = Tail(@)]
  /\ UNCHANGED <<ticks, nxt, first, last, count_write, count_read, worker>>

Tick ==
  /\ ticks < MaxTicks
  /\ ticks' = ticks + 1
  /\ UNCHANGED <<rule, nxt, first, last, count_write, count_read, worker, timer>>

(***************************************************************************)
(* Specification.                                                          *)
(***************************************************************************)
WriterStep(w) == GetWrite(w) \/ add_list_to_head(w)

TimerStep == delete_expired_routine \/ TimerGetWrite \/ delete_expired \/ FreeExpired

Next ==
  \/ Tick \/ TimerStep
  \/ \E w \in Workers :
       \/ WriterStep(w) \/ GetRead(w) \/ check_against_rule_list(w)
       \/ \E r \in Rules, a \in Addrs : add_rule_to_list(w, r, a)

Spec == Init /\ [][Next]_vars

\* Time passes, the timer process runs and so do the workers, which make
\* a bounded number of rules.
Fairness ==
  /\ WF_vars(Tick)
  /\ WF_vars(TimerStep)
  /\ \A w \in Workers : WF_vars(WriterStep(w))

FairSpec == Spec /\ Fairness

(***************************************************************************)
(* Properties.                                                             *)
(***************************************************************************)
\* The list keeps its shape although a rule's end is computed before the
\* list is locked and other rules get in first: it is in the order of
\* expire_end, which delete_expired relies on to stop at the first rule
\* that stays; last is its last rule, where the next one is hung; it holds
\* no freed rule and no address twice ("should NOT add ANY DUPLICATES").
ListSound ==
  /\ \A i, j \in DOMAIN List :
       /\ i < j => rule[List[i]].expire_end <= rule[List[j]].expire_end
       /\ i # j => rule[List[i]].addr # rule[List[j]].addr
  /\ \A i \in DOMAIN List : rule[List[i]].mem = "allocated"
  /\ first # Nil => last = List[Len(List)]

\* A destination does not stay blacklisted after its time.
RulesExpire ==
  \A r \in Rules :
    (r \in ToSet(List) /\ rule[r].expire_end <= ticks) ~> r \notin ToSet(List)
=============================================================================
