------------------------------- MODULE Pike -------------------------------
(***************************************************************************)
(* modules/pike: the requests of each source address are counted in a tree *)
(* with a level per byte of the address.  A node is split when its prefix  *)
(* is busy, so that only busy addresses get a leaf of their own.  The      *)
(* workers mark the tree; the timer process removes the nodes whose time   *)
(* has passed and starts a new counting period.                            *)
(*                                                                         *)
(* A node is its prefix.  A branch is the subtree of a first byte and has  *)
(* a lock; the list of the nodes by time has another one, which is taken   *)
(* after it.  The lists are sequences: has_timer_set says that a node is   *)
(* in the list or among those that the timer process has taken out of it.  *)
(***************************************************************************)
EXTENDS Naturals, Sequences, FiniteSets, SequencesExt

CONSTANTS
  Workers,
  Ips,          \* the source addresses, sequences of bytes
  max_hits, timeout,
  MaxHits,      \* MAX_TYPE_VAL of a counter less one
  MaxReqs, MaxTicks

VARIABLES
  node,         \* per node: hits and leaf_hits of [prev, curr], flags, expires
  timer,        \* the nodes in the order in which their time passes
  split,        \* the nodes that the timer process has taken out
  ticks,
  worker,       \* per worker: pc, address, the node, its father, flags
  lock,         \* the branches that a worker has locked
  failed,       \* an assertion has failed
  seen,         \* per address: requests in the last and in this period
  red,          \* the last request that was refused, and the counts then
  reqs

vars == <<node, timer, split, ticks, worker, lock, failed, seen, red, reqs>>

Idle == [pc |-> "idle", ip |-> <<>>, n |-> <<>>, father |-> <<>>, new |-> FALSE,
         no_update |-> FALSE]
Zero == [prev |-> 0, curr |-> 0]
Fresh == [hits |-> Zero, leaf_hits |-> Zero, EXPIRED |-> FALSE, INTIMER |-> FALSE,
          IPLEAF |-> FALSE, expires |-> 0]

Init ==
  /\ node = [n \in {} |-> Fresh]
  /\ timer = <<>> /\ split = <<>> /\ ticks = 0
  /\ worker = [w \in Workers |-> Idle]
  /\ lock = {} /\ failed = FALSE
  /\ seen = [i \in Ips |-> Zero]
  /\ red = Zero /\ reqs = 0

Branches == {i[1] : i \in Ips}
Nodes == DOMAIN node
Kids(nodes, n) == {k \in nodes : Len(k) = Len(n) + 1 /\ Front(k) = n}
has_timer_set(n) == n \in ToSet(timer) \cup ToSet(split)

With(f, n, r) == [x \in DOMAIN f \cup {n} |-> IF x = n THEN r ELSE f[x]]

-----------------------------------------------------------------------------
(* A worker marks the tree with the branch locked.                         *)

Hit(c) == IF c.curr < MaxHits THEN [c EXCEPT !.curr = @ + 1] ELSE c

is_hot(c, limit) == c.prev >= limit \/ c.curr >= limit \/ (c.prev + c.curr) \div 2 >= limit
is_hot_non_leaf(n) == is_hot(n.hits, max_hits \div 4)
is_hot_leaf(n) == is_hot(n.leaf_hits, max_hits)
is_warm_leaf(n) == n.hits.curr >= max_hits \div 4

\* The counters are unsigned short.
Less1(x) == (x + MaxHits + 1) % (MaxHits + 2)

\* Mutant: the child's own count inherits the father's hits.
SplitInherits(dad) == [Fresh EXCEPT !.hits.curr = dad.hits.curr - 1, !.leaf_hits.prev = dad.hits.curr]

\* The child inherits a part of the father's hits.
split_node(dad) ==
  [Fresh EXCEPT !.hits.curr = IF dad.hits.curr >= 1 THEN dad.hits.curr - 1 ELSE 0,
                !.leaf_hits.prev = IF dad.leaf_hits.curr >= 1 THEN Less1(dad.leaf_hits.prev) ELSE 0]

\* The longest prefix of the address that has a node.
Longest(ip) ==
  LET ks == {k \in 1..Len(ip) : SubSeq(ip, 1, k) \in Nodes}
  IN IF ks = {} THEN 0 ELSE CHOOSE k \in ks : \A j \in ks : j <= k

mark_node(w, ip) ==
  LET k == Longest(ip)
      n == SubSeq(ip, 1, k)
      hit == [node EXCEPT ![n].hits = Hit(@)]
      kid == SubSeq(ip, 1, k + 1)
      next(m, dad, new, no_update) ==
        worker' = [worker EXCEPT ![w] = [pc |-> "timer", ip |-> ip, n |-> m, father |-> dad,
                                         new |-> new, no_update |-> no_update]]
  IN \/ /\ k = Len(ip)
        /\ node' = [node EXCEPT ![n].IPLEAF = TRUE, ![n].leaf_hits = Hit(@)]
        /\ next(n, <<>>, FALSE, FALSE)
     \/ /\ k = 0
        /\ node' = With(node, <<ip[1]>>, [Fresh EXCEPT !.hits.curr = 1])
        /\ next(<<ip[1]>>, <<>>, TRUE, FALSE)
     \/ /\ k \in 1..(Len(ip) - 1) /\ is_hot_non_leaf(hit[n])
        /\ node' = With(hit, kid, split_node(hit[n]))
        /\ next(kid, n, TRUE, FALSE)
     \/ /\ k \in 1..(Len(ip) - 1) /\ ~is_hot_non_leaf(hit[n])
        /\ node' = hit
        /\ next(n, <<>>, FALSE, ~is_warm_leaf(hit[n]))

\* The first half of pike_check_req.
Mark(w, ip) ==
  /\ worker[w] = Idle /\ reqs < MaxReqs /\ ip[1] \notin lock
  /\ reqs' = reqs + 1
  /\ lock' = lock \cup {ip[1]}
  /\ seen' = [seen EXCEPT ![ip] = Hit(@)]
  /\ mark_node(w, ip)
  /\ UNCHANGED <<timer, split, ticks, failed, red>>

\* There is no memory for a new node: the request passes.
NoNode(w, ip) ==
  LET n == SubSeq(ip, 1, Longest(ip))
  IN /\ worker[w] = Idle /\ reqs < MaxReqs /\ ip[1] \notin lock
     /\ Len(n) \in 1..(Len(ip) - 1)
     /\ is_hot_non_leaf([node[n] EXCEPT !.hits = Hit(@)])
     /\ node' = [node EXCEPT ![n].hits = Hit(@)]
     /\ reqs' = reqs + 1
     /\ seen' = [seen EXCEPT ![ip] = Hit(@)]
     /\ UNCHANGED <<timer, split, ticks, worker, lock, failed, red>>

Without(list, n) == SelectSeq(list, LAMBDA m : m # n)

\* Mutant: the father stays in the list.
FatherStays(n, dad) ==
  /\ failed' = failed
  /\ node' = [node EXCEPT ![n].expires = ticks + timeout, ![n].INTIMER = TRUE]
  /\ timer' = Append(timer, n)
  /\ split' = split

\* Mutant: a father that the timer process has is not left alone.
FatherKept(n, dad) ==
  LET first == dad # <<>> /\ Cardinality(Kids(Nodes, dad)) = 1 /\ ~node[dad].EXPIRED
      in == [node EXCEPT ![n].expires = ticks + timeout, ![n].INTIMER = TRUE]
  IN /\ UNCHANGED <<failed, split>>
     /\ node' = IF first THEN [in EXCEPT ![dad].INTIMER = FALSE] ELSE in
     /\ timer' = SelectSeq(Append(timer, n), LAMBDA m : ~(first /\ m = dad))

\* A new node goes into the list.  A father that now has its first child
\* leaves it unless it is a leaf; if the timer process has it already, it
\* is told to leave it alone.
TimerNew(n, dad) ==
  LET in == [node EXCEPT ![n].expires = ticks + timeout, ![n].INTIMER = TRUE]
      first == dad # <<>> /\ ~node[dad].IPLEAF /\ Cardinality(Kids(Nodes, dad)) = 1
      waiting == Append(timer, n)
  IN /\ failed' = (failed \/ has_timer_set(n)
                   \/ (first /\ ~(has_timer_set(dad) /\ (node[dad].EXPIRED \/ node[dad].INTIMER))))
     /\ split' = split
     /\ IF ~first THEN node' = in /\ timer' = waiting
        ELSE IF node[dad].EXPIRED
          THEN node' = [in EXCEPT ![dad].EXPIRED = FALSE] /\ timer' = waiting
          ELSE node' = [in EXCEPT ![dad].INTIMER = FALSE] /\ timer' = Without(waiting, dad)

\* A node that was there: leaves are in the list, inner nodes are not.
TimerKnown(n, no_update) ==
  IF node[n].IPLEAF \/ Kids(Nodes, n) = {}
    THEN /\ failed' = (failed \/ ~(has_timer_set(n) /\ (node[n].EXPIRED \/ node[n].INTIMER)))
         /\ IF no_update \/ node[n].EXPIRED
              THEN UNCHANGED <<node, timer, split>>
              ELSE /\ node' = [node EXCEPT ![n].expires = ticks + timeout]
                   /\ timer' = Append(Without(timer, n), n)
                   /\ split' = Without(split, n)
    ELSE /\ failed' = (failed \/ has_timer_set(n) \/ node[n].INTIMER \/ node[n].EXPIRED)
         /\ UNCHANGED <<node, timer, split>>

\* The second half, with the lock of the list.
Update(w) ==
  LET n == worker[w].n
  IN /\ worker[w].pc = "timer"
     /\ IF worker[w].new THEN TimerNew(n, worker[w].father)
        ELSE TimerKnown(n, worker[w].no_update)
     /\ lock' = lock \ {n[1]}
     /\ red' = IF ~worker[w].new /\ Len(n) = Len(worker[w].ip) /\ is_hot_leaf(node[n])
                 THEN seen[worker[w].ip] ELSE red
     /\ worker' = [worker EXCEPT ![w] = Idle]
     /\ UNCHANGED <<ticks, seen, reqs>>

-----------------------------------------------------------------------------
(* The timer process.                                                      *)

\* The flags of a node that the timer process takes out.  A worker that has
\* found the whole address sets a flag of the same byte under the other
\* lock, so that either of the two writes may be lost.
Expired(n) ==
  LET out == [node[n] EXCEPT !.EXPIRED = TRUE, !.INTIMER = FALSE]
      marked == \E w \in Workers : worker[w].pc = "timer" /\ worker[w].n = n /\ worker[w].ip = n
                                  /\ ~worker[w].new
  IN {out} \cup IF marked THEN {[out EXCEPT !.IPLEAF = FALSE], node[n]} ELSE {}

\* The nodes whose time has passed are marked and taken out of the list.
check_and_split_timer ==
  LET k == Cardinality({i \in DOMAIN timer : \A j \in 1..i : node[timer[j]].expires <= ticks})
  IN /\ split = <<>> /\ k > 0
     /\ split' = SubSeq(timer, 1, k)
     /\ timer' = SubSeq(timer, k + 1, Len(timer))
     /\ \E out \in [ToSet(split') -> UNION {Expired(n) : n \in ToSet(split')}] :
          /\ \A n \in ToSet(split') : out[n] \in Expired(n)
          /\ node' = [n \in Nodes |-> IF n \in ToSet(split') THEN out[n] ELSE node[n]]
     /\ UNCHANGED <<ticks, worker, lock, failed, seen, red, reqs>>

\* A step for a node that was taken out, s being the state of the tree, the
\* list, the rest of the nodes taken out and the assertions.
CleanNode(s, n) ==
  LET rest == Without(s.split, n)
      set(m) == m \in ToSet(s.timer) \cup ToSet(rest)
      off == [s.node EXCEPT ![n].expires = 0, ![n].EXPIRED = FALSE]
      dad == Front(n)
      last == Len(n) > 1 /\ Kids(DOMAIN s.node, dad) = {n}
      less(f) == [m \in DOMAIN f \ {n} |-> f[m]]
  IN IF ~s.node[n].EXPIRED THEN [s EXCEPT !.split = rest, !.node = off]
     ELSE IF Kids(DOMAIN s.node, n) # {}
       THEN [s EXCEPT !.split = rest,
                      !.node = [off EXCEPT ![n].IPLEAF = FALSE, ![n].leaf_hits.curr = 0],
                      !.failed = @ \/ ~s.node[n].IPLEAF]
     ELSE IF ~last THEN [s EXCEPT !.split = rest, !.node = less(off)]
     ELSE IF s.node[dad].IPLEAF
       THEN [s EXCEPT !.split = rest, !.node = less(off), !.failed = @ \/ ~set(dad)]
     ELSE [s EXCEPT !.split = rest, !.timer = Append(@, dad),
                    !.node = less([off EXCEPT ![dad].expires = ticks + timeout,
                                              ![dad].INTIMER = TRUE]),
                    !.failed = @ \/ set(dad)]

\* The loop of clean_routine over a branch, with the branch locked.
clean_routine(b) ==
  LET mine == SelectSeq(split, LAMBDA n : n[1] = b)
      s == FoldLeft(CleanNode, [node |-> node, timer |-> timer, split |-> split,
                                failed |-> failed], mine)
  IN /\ b \notin lock /\ mine # <<>>
     /\ node' = s.node /\ timer' = s.timer /\ split' = s.split /\ failed' = s.failed
     /\ UNCHANGED <<ticks, worker, lock, seen, red, reqs>>

\* A new period: every node's counts move on.  The branches are locked one
\* by one; they share no counts, so one step stands for all.
swap_routine ==
  /\ split = <<>> /\ lock = {}
  /\ node' = [n \in Nodes |-> [node[n] EXCEPT !.hits = [prev |-> @.curr, curr |-> 0],
                                              !.leaf_hits = [prev |-> @.curr, curr |-> 0]]]
  /\ seen' = [i \in Ips |-> [prev |-> seen[i].curr, curr |-> 0]]
  /\ UNCHANGED <<timer, split, ticks, worker, lock, failed, red, reqs>>

Tick ==
  /\ ticks < MaxTicks
  /\ ticks' = ticks + 1
  /\ UNCHANGED <<node, timer, split, worker, lock, failed, seen, red, reqs>>

-----------------------------------------------------------------------------
Next ==
  \/ \E w \in Workers : Update(w) \/ \E ip \in Ips : Mark(w, ip) \/ NoNode(w, ip)
  \/ check_and_split_timer \/ swap_routine \/ Tick
  \/ \E b \in Branches : clean_routine(b)

Spec == Init /\ [][Next]_vars

-----------------------------------------------------------------------------
\* No assertion of pike_check_req, clean_routine and append_to_timer fails,
\* although a node may pass to the timer process between the two locks of a
\* worker.
AssertionsHold == ~failed

\* When no worker is at work and nothing is being cleaned, a node is in the
\* list exactly if it is a leaf of the tree or the end of an address, and
\* the list is in the order of time: no node is forgotten, and none is freed
\* while it is in the list.
TimedNodes ==
  (lock = {} /\ split = <<>>) =>
    /\ ToSet(timer) = {n \in Nodes : node[n].IPLEAF \/ Kids(Nodes, n) = {}}
    /\ Cardinality(ToSet(timer)) = Len(timer)
    /\ \A i, j \in DOMAIN timer : i < j => node[timer[i]].expires <= node[timer[j]].expires
    /\ \A n \in Nodes : Len(n) > 1 => Front(n) \in Nodes

\* An address is only refused after max_hits requests of its own in this
\* period, in the last one, or on average of the two, however its leaf came
\* about.
RefusedForCause == red = Zero \/ is_hot(red, max_hits)
=============================================================================
