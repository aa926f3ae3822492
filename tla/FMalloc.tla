------------------------------ MODULE FMalloc ------------------------------
(***************************************************************************)
(* The allocator of the default build, mem/f_malloc.c: a block of memory   *)
(* is cut into fragments, each a header followed by its data; the free     *)
(* ones are in lists by size.  Free neighbours are not joined, except that *)
(* a fragment that is to grow takes the one behind it.                     *)
(*                                                                         *)
(* A fragment is the address of its header; a free list is the sequence of *)
(* its fragments, so that u.nxt_free of a fragment is null when it is      *)
(* allocated and when it is the last of its list.  The largest value       *)
(* real_used has had is left out.                                          *)
(***************************************************************************)
EXTENDS Integers, Sequences, FiniteSets, SequencesExt, FiniteSetsExt, Functions

CONSTANTS
  ROUNDTO,
  FRAG_OVERHEAD,   \* sizeof(struct fm_frag)
  FACTOR,          \* F_MALLOC_OPTIMIZE_FACTOR
  Bits,            \* of a long
  Overhead,        \* init_overhead
  Arena,           \* the size of the first fragment
  Sizes,           \* the sizes that are asked for
  MaxFrags,        \* bound: fragments
  MaxRealUsed      \* bound: real_used, which realloc can raise without end

VARIABLES
  qm,              \* the block: size of each fragment, free lists, counters
  held             \* per fragment that a caller has: the size asked for

vars == <<qm, held>>

OPTIMIZE == 2 ^ FACTOR
F_HASH_SIZE == OPTIMIZE \div ROUNDTO + (Bits - FACTOR) + 1
first_frag == 0
end == FRAG_OVERHEAD + Arena

ROUNDUP(s) == ((s + ROUNDTO - 1) \div ROUNDTO) * ROUNDTO

\* The number of the highest bit that is set.
big_hash_idx(s) == CHOOSE i \in 0..Bits : 2 ^ i <= s /\ s < 2 ^ (i + 1)

GET_HASH(s) ==
  IF s <= OPTIMIZE THEN s \div ROUNDTO
  ELSE OPTIMIZE \div ROUNDTO + big_hash_idx(s) - FACTOR + 1

FRAG_NEXT(q, f) == f + FRAG_OVERHEAD + q.size[f]

\* In front of its list; a list of big fragments is kept in order.
fm_insert_free(q, f) ==
  LET h == GET_HASH(q.size[f])
      l == q.free[h]
      later(g) == q.size[f] <= q.size[g]
      p == IF q.size[f] <= OPTIMIZE THEN 1
           ELSE IF \E i \in DOMAIN l : later(l[i]) THEN SelectInSeq(l, later) ELSE Len(l) + 1
  IN [q EXCEPT !.free[h] = InsertAt(l, p, f), !.no[h] = @ + 1]

\* What is left behind the first size bytes becomes a free fragment if that
\* is worth while (MEM_FRAG_AVOIDANCE).
fm_split_frag(q, f, size) ==
  LET rest == q.size[f] - size
      n == f + FRAG_OVERHEAD + size
      cut == [q.size EXCEPT ![f] = size]
  IN IF rest > FRAG_OVERHEAD + OPTIMIZE \/ rest >= FRAG_OVERHEAD + size
       THEN fm_insert_free(
              [q EXCEPT !.size = [g \in DOMAIN cut \cup {n} |->
                                    IF g = n THEN rest - FRAG_OVERHEAD ELSE cut[g]],
                        !.real_used = @ + FRAG_OVERHEAD], n)
       ELSE q

Detach(q, h, f) ==
  [q EXCEPT !.free[h] = SelectSeq(@, LAMBDA g : g # f), !.no[h] = @ - 1]

\* The first fragment that is big enough, of the first list that has one.
fm_malloc(q, asked) ==
  LET size == ROUNDUP(asked)
      fits(f) == q.size[f] >= size
      lists == {h \in GET_HASH(size)..(F_HASH_SIZE - 1) : \E i \in DOMAIN q.free[h] : fits(q.free[h][i])}
      h == Min(lists)
      f == q.free[h][SelectInSeq(q.free[h], fits)]
      split == fm_split_frag(Detach(q, h, f), f, size)
  IN IF lists = {} THEN [ok |-> FALSE, q |-> q, p |-> 0]
     ELSE [ok |-> TRUE, p |-> f,
           q |-> [split EXCEPT !.real_used = @ + split.size[f], !.used = @ + split.size[f]]]

fm_free(q, f) ==
  fm_insert_free([q EXCEPT !.used = @ - q.size[f], !.real_used = @ - q.size[f]], f)

Shrink(q, f, size) ==
  LET split == fm_split_frag(q, f, size)
  IN [split EXCEPT !.real_used = @ - (q.size[f] - split.size[f] - FRAG_OVERHEAD),
                   !.used = @ - (q.size[f] - split.size[f])]

\* The fragment behind f is free and not the last of its list.
Linked(q, f) ==
  \E h \in DOMAIN q.free : \E i \in DOMAIN q.free[h] : i < Len(q.free[h]) /\ q.free[h][i] = f

Joins(q, f, size) ==
  LET n == FRAG_NEXT(q, f)
  IN n < end /\ Linked(q, n) /\ q.size[n] + FRAG_OVERHEAD >= size - q.size[f]

\* Mutant: what the fragment had before is counted again.
GrowCountsAll(q, f, size) ==
  LET n == FRAG_NEXT(q, f)
      d == Detach(q, GET_HASH(q.size[n]), n)
      joined == [d EXCEPT !.size = [g \in DOMAIN q.size \ {n} |->
                                      IF g = f THEN q.size[f] + q.size[n] + FRAG_OVERHEAD
                                      ELSE q.size[g]],
                          !.real_used = @ - FRAG_OVERHEAD]
      split == IF joined.size[f] > size THEN fm_split_frag(joined, f, size) ELSE joined
  IN [split EXCEPT !.real_used = @ + split.size[f], !.used = @ + split.size[f]]

Grow(q, f, size) ==
  LET n == FRAG_NEXT(q, f)
      d == Detach(q, GET_HASH(q.size[n]), n)
      joined == [d EXCEPT !.size = [g \in DOMAIN q.size \ {n} |->
                                      IF g = f THEN q.size[f] + q.size[n] + FRAG_OVERHEAD
                                      ELSE q.size[g]],
                          !.real_used = @ - FRAG_OVERHEAD]
      split == IF joined.size[f] > size THEN fm_split_frag(joined, f, size) ELSE joined
  IN [split EXCEPT !.real_used = @ + (split.size[f] - q.size[f]),
                   !.used = @ + (split.size[f] - q.size[f])]

\* With a pointer and a size other than 0.
fm_realloc(q, f, asked) ==
  LET size == ROUNDUP(asked)
      new == fm_malloc(q, size)
  IN IF q.size[f] > size THEN [ok |-> TRUE, q |-> Shrink(q, f, size), p |-> f]
     ELSE IF q.size[f] = size THEN [ok |-> TRUE, q |-> q, p |-> f]
     ELSE IF Joins(q, f, size) THEN [ok |-> TRUE, q |-> Grow(q, f, size), p |-> f]
     ELSE IF new.ok THEN [new EXCEPT !.q = fm_free(new.q, f)]
     ELSE new

-----------------------------------------------------------------------------
fm_malloc_init ==
  fm_insert_free([size |-> [f \in {first_frag} |-> Arena],
                  free |-> [h \in 0..(F_HASH_SIZE - 1) |-> <<>>],
                  no |-> [h \in 0..(F_HASH_SIZE - 1) |-> 0],
                  used |-> 0, real_used |-> Overhead], first_frag)

Init == qm = fm_malloc_init /\ held = [f \in {} |-> 0]

Holding(old, f, asked) == [g \in DOMAIN old \cup {f} |-> IF g = f THEN asked ELSE old[g]]

Bounded == Cardinality(DOMAIN qm.size) < MaxFrags /\ qm.real_used < MaxRealUsed

Malloc(asked) ==
  LET new == fm_malloc(qm, asked)
  IN /\ Bounded
     /\ qm' = new.q
     /\ held' = IF new.ok THEN Holding(held, new.p, asked) ELSE held

\* realloc to size 0 is free, realloc of a null pointer is malloc.
Free(f) ==
  /\ qm' = fm_free(qm, f)
  /\ held' = Restrict(held, DOMAIN held \ {f})

Realloc(f, asked) ==
  LET new == fm_realloc(qm, f, asked)
  IN /\ Bounded
     /\ qm' = new.q
     /\ held' = IF new.ok THEN Holding(Restrict(held, DOMAIN held \ {f}), new.p, asked)
                ELSE held

Next ==
  \/ \E s \in Sizes : Malloc(s)
  \/ \E f \in DOMAIN held : Free(f) \/ \E s \in Sizes : Realloc(f, s)

Spec == Init /\ [][Next]_vars

-----------------------------------------------------------------------------
Listed(f) == {<<h, i>> \in UNION {{h} \X DOMAIN qm.free[h] : h \in DOMAIN qm.free} : qm.free[h][i] = f}

\* Whatever is allocated, released, grown and shrunk in whatever order: the
\* fragments cover the block without gap or overlap; a fragment is either a
\* caller's and holds at least what the caller asked for, or is once in the
\* list of its size, which counts right; the lists of big fragments are in
\* order, since the search of fm_malloc takes the first that fits.
HeapSound ==
  /\ first_frag \in DOMAIN qm.size
  /\ \A f \in DOMAIN qm.size :
       /\ FRAG_NEXT(qm, f) \in DOMAIN qm.size \cup {end}
       /\ \A g \in DOMAIN qm.size : f < g => FRAG_NEXT(qm, f) <= g
       /\ IF f \in DOMAIN held
            THEN Listed(f) = {} /\ held[f] <= qm.size[f]
            ELSE Cardinality(Listed(f)) = 1 /\ \A e \in Listed(f) : e[1] = GET_HASH(qm.size[f])
  /\ DOMAIN held \subseteq DOMAIN qm.size
  /\ \A h \in DOMAIN qm.free :
       /\ qm.no[h] = Len(qm.free[h])
       /\ h > OPTIMIZE \div ROUNDTO =>
            \A i, j \in DOMAIN qm.free[h] : i < j => qm.size[qm.free[h][i]] <= qm.size[qm.free[h][j]]

\* used is what the callers have, over every path that grows or shrinks a
\* fragment in place or by copying.
UsedExact == qm.used = MapThenSumSet(LAMBDA f : qm.size[f], DOMAIN held)
=============================================================================
