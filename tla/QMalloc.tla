------------------------------ MODULE QMalloc ------------------------------
(***************************************************************************)
(* The allocator of the debugging build, mem/q_malloc.c: a fragment has a  *)
(* header and an end with its size again, from which the fragment in front *)
(* of the next one is found, so that free neighbours can be joined on both *)
(* sides.  The free lists are doubly linked and in the order of size.      *)
(*                                                                         *)
(* A fragment is the address of its header and an end its own address; a   *)
(* free list is the sequence of its fragments.  The check patterns, and    *)
(* the largest value real_used has had, are left out.                      *)
(***************************************************************************)
EXTENDS Integers, Sequences, FiniteSets, SequencesExt, FiniteSetsExt, Functions

CONSTANTS
  ROUNDTO,
  HeadSize,           \* sizeof(struct qm_frag)
  EndSize,            \* sizeof(struct qm_frag_end)
  FACTOR,          \* QM_MALLOC_OPTIMIZE_FACTOR
  Bits,            \* of a long
  Block,           \* the size of the control block
  Arena,           \* the size of the first fragment
  Sizes,           \* the sizes that are asked for
  MaxFrags,        \* bound: fragments
  MaxRealUsed      \* bound: real_used, which realloc can raise without end

VARIABLES
  qm,              \* the block: sizes in headers and ends, free lists, counters
  held             \* per fragment that a caller has: the size asked for

vars == <<qm, held>>

OPTIMIZE == 2 ^ FACTOR
QM_HASH_SIZE == OPTIMIZE \div ROUNDTO + (Bits - FACTOR) + 1
FRAG_OVERHEAD == HeadSize + EndSize
Overhead == Block + FRAG_OVERHEAD
Total == Overhead + Arena
first_frag == 0
last_frag_end == HeadSize + Arena

ROUNDUP(s) == ((s + ROUNDTO - 1) \div ROUNDTO) * ROUNDTO

\* The number of the highest bit that is set.
big_hash_idx(s) == CHOOSE i \in 0..Bits : 2 ^ i <= s /\ s < 2 ^ (i + 1)

GET_HASH(s) ==
  IF s <= OPTIMIZE THEN s \div ROUNDTO
  ELSE OPTIMIZE \div ROUNDTO + big_hash_idx(s) - FACTOR + 1

FRAG_END(q, f) == f + HeadSize + q.size[f]
FRAG_NEXT(q, f) == FRAG_END(q, f) + EndSize
FRAG_PREV(q, f) == f - EndSize - q.tail[f - EndSize] - HeadSize

is_free(q, f) == \E h \in DOMAIN q.free : \E i \in DOMAIN q.free[h] : q.free[h][i] = f

\* In front of the first fragment that is not smaller.
qm_insert_free(q, f) ==
  LET h == GET_HASH(q.size[f])
      l == q.free[h]
      later(g) == q.size[f] <= q.size[g]
      p == IF \E i \in DOMAIN l : later(l[i]) THEN SelectInSeq(l, later) ELSE Len(l) + 1
  IN [q EXCEPT !.free[h] = InsertAt(l, p, f), !.no[h] = @ + 1]

\* qm_detach_free and the count of the list, which the callers take down.
Detach(q, h, f) ==
  [q EXCEPT !.free[h] = SelectSeq(@, LAMBDA g : g # f), !.no[h] = @ - 1]

\* A fragment at f has this size, and the ones gone are part of it; its end
\* is written.
Sized(q, f, gone, size) ==
  [q EXCEPT !.size = [g \in (DOMAIN q.size \cup {f}) \ gone |-> IF g = f THEN size ELSE q.size[g]],
            !.tail = [e \in {x \in DOMAIN q.tail : x < f \/ x > f + HeadSize + size}
                              \cup {f + HeadSize + size} |->
                        IF e = f + HeadSize + size THEN size ELSE q.tail[e]]]

\* 0 is returned when the fragment was split.
split_frag(q, f, new_size) ==
  LET rest == q.size[f] - new_size
      n == f + HeadSize + new_size + EndSize
      cut == Sized(Sized(q, f, {}, new_size), n, {}, rest - FRAG_OVERHEAD)
  IN IF rest > FRAG_OVERHEAD + OPTIMIZE \/ rest >= FRAG_OVERHEAD + new_size
       THEN [r |-> 0, q |-> qm_insert_free([cut EXCEPT !.real_used = @ + FRAG_OVERHEAD], n)]
       ELSE [r |-> -1, q |-> q]

qm_find_free(q, size) ==
  LET fits(f) == q.size[f] >= size
      lists == {h \in GET_HASH(size)..(QM_HASH_SIZE - 1) : \E i \in DOMAIN q.free[h] : fits(q.free[h][i])}
      h == Min(lists)
  IN IF lists = {} THEN [ok |-> FALSE, h |-> 0, f |-> 0]
     ELSE [ok |-> TRUE, h |-> h, f |-> q.free[h][SelectInSeq(q.free[h], fits)]]

\* size-real_used is unsigned.
qm_malloc(q, asked) ==
  LET size == ROUNDUP(asked)
      found == qm_find_free(q, size)
      split == split_frag(Detach(q, found.h, found.f), found.f, size).q
      got == split.size[found.f]
  IN IF size > (Total - q.real_used) % 2 ^ Bits \/ ~found.ok
       THEN [ok |-> FALSE, q |-> q, p |-> 0]
       ELSE [ok |-> TRUE, p |-> found.f,
             q |-> [split EXCEPT !.real_used = @ + got, !.used = @ + got]]

JoinNext(q, f) ==
  LET next == FRAG_NEXT(q, f)
      d == Detach(q, GET_HASH(q.size[next]), next)
  IN IF next < last_frag_end /\ is_free(q, next)
       THEN [Sized(d, f, {next}, q.size[f] + q.size[next] + FRAG_OVERHEAD)
               EXCEPT !.real_used = @ - FRAG_OVERHEAD]
       ELSE q

\* Mutant: the fragment in front is not taken out of its list.
PrevStaysListed(q, f) ==
  LET prev == FRAG_PREV(q, f)
  IN IF f > first_frag /\ is_free(q, prev)
       THEN [f |-> prev,
             q |-> [Sized(q, prev, {f}, q.size[f] + q.size[prev] + FRAG_OVERHEAD)
                      EXCEPT !.real_used = @ - FRAG_OVERHEAD]]
       ELSE [f |-> f, q |-> q]

JoinPrev(q, f) ==
  LET prev == FRAG_PREV(q, f)
      d == Detach(q, GET_HASH(q.size[prev]), prev)
  IN IF f > first_frag /\ is_free(q, prev)
       THEN [f |-> prev,
             q |-> [Sized(d, prev, {f}, q.size[f] + q.size[prev] + FRAG_OVERHEAD)
                      EXCEPT !.real_used = @ - FRAG_OVERHEAD]]
       ELSE [f |-> f, q |-> q]

qm_free(q, f) ==
  LET given == [q EXCEPT !.used = @ - q.size[f], !.real_used = @ - q.size[f]]
      joined == JoinPrev(JoinNext(given, f), f)
  IN qm_insert_free(joined.q, joined.f)

\* The counters are only changed when the fragment was not split.
Shrink(q, f, size) ==
  LET split == split_frag(q, f, size)
      less == q.size[f] - split.q.size[f]
  IN IF split.r # 0
       THEN [split.q EXCEPT !.real_used = @ - (less - FRAG_OVERHEAD), !.used = @ - less]
       ELSE split.q

Joins(q, f, size) ==
  LET n == FRAG_NEXT(q, f)
  IN n < last_frag_end /\ is_free(q, n) /\ q.size[n] + FRAG_OVERHEAD >= size - q.size[f]

Grow(q, f, size) ==
  LET joined == JoinNext(q, f)
      split == IF joined.size[f] > size THEN split_frag(joined, f, size).q ELSE joined
      more == split.size[f] - q.size[f]
  IN [split EXCEPT !.real_used = @ + more, !.used = @ + more]

\* With a pointer and a size other than 0.
qm_realloc(q, f, asked) ==
  LET size == ROUNDUP(asked)
      new == qm_malloc(q, size)
  IN IF q.size[f] > size THEN [ok |-> TRUE, q |-> Shrink(q, f, size), p |-> f]
     ELSE IF q.size[f] = size THEN [ok |-> TRUE, q |-> q, p |-> f]
     ELSE IF Joins(q, f, size) THEN [ok |-> TRUE, q |-> Grow(q, f, size), p |-> f]
     ELSE IF new.ok THEN [new EXCEPT !.q = qm_free(new.q, f)]
     ELSE new

-----------------------------------------------------------------------------
qm_malloc_init ==
  qm_insert_free([size |-> [f \in {first_frag} |-> Arena],
                  tail |-> [e \in {last_frag_end} |-> Arena],
                  free |-> [h \in 0..(QM_HASH_SIZE - 1) |-> <<>>],
                  no |-> [h \in 0..(QM_HASH_SIZE - 1) |-> 0],
                  used |-> 0, real_used |-> Overhead], first_frag)

Init == qm = qm_malloc_init /\ held = [f \in {} |-> 0]

Holding(old, f, asked) == [g \in DOMAIN old \cup {f} |-> IF g = f THEN asked ELSE old[g]]

Bounded == Cardinality(DOMAIN qm.size) < MaxFrags /\ qm.real_used < MaxRealUsed

Malloc(asked) ==
  LET new == qm_malloc(qm, asked)
  IN /\ Bounded
     /\ qm' = new.q
     /\ held' = IF new.ok THEN Holding(held, new.p, asked) ELSE held

\* realloc to size 0 is free, realloc of a null pointer is malloc.
Free(f) ==
  /\ qm' = qm_free(qm, f)
  /\ held' = Restrict(held, DOMAIN held \ {f})

Realloc(f, asked) ==
  LET new == qm_realloc(qm, f, asked)
  IN /\ Bounded
     /\ qm' = new.q
     /\ held' = IF new.ok THEN Holding(Restrict(held, DOMAIN held \ {f}), new.p, asked)
                ELSE held

Next ==
  \/ \E s \in Sizes : Malloc(s)
  \/ \E f \in DOMAIN held : Free(f) \/ \E s \in Sizes : Realloc(f, s)

Spec == Init /\ [][Next]_vars

-----------------------------------------------------------------------------
Listed(f) == {<<h, i>> \in UNION {{h} \X DOMAIN qm.free[h] : h \in DOMAIN qm.free} : qm.free[h][i] = f}

\* Whatever is allocated, released, grown and shrunk in whatever order: the
\* fragments cover the block without gap or overlap, and the end of each
\* has its size, so that the one in front of a fragment is found; a
\* fragment is either a caller's and holds at least what the caller asked
\* for, or is once in the list of its size, which is in order and counts
\* right.
HeapSound ==
  /\ first_frag \in DOMAIN qm.size
  /\ \A f \in DOMAIN qm.size :
       /\ FRAG_END(qm, f) \in DOMAIN qm.tail /\ qm.tail[FRAG_END(qm, f)] = qm.size[f]
       /\ FRAG_END(qm, f) = last_frag_end \/ FRAG_NEXT(qm, f) \in DOMAIN qm.size
       /\ \A g \in DOMAIN qm.size : f < g => FRAG_NEXT(qm, f) <= g
       /\ IF f \in DOMAIN held
            THEN Listed(f) = {} /\ held[f] <= qm.size[f]
            ELSE Cardinality(Listed(f)) = 1 /\ \A e \in Listed(f) : e[1] = GET_HASH(qm.size[f])
  /\ DOMAIN held \subseteq DOMAIN qm.size
  /\ \A h \in DOMAIN qm.free :
       /\ qm.no[h] = Len(qm.free[h])
       /\ \A i, j \in DOMAIN qm.free[h] : i < j => qm.size[qm.free[h][i]] <= qm.size[qm.free[h][j]]
=============================================================================
