------------------------ MODULE TransactionFailover -------------------------
(***************************************************************************)
(* What a negative reply leads to: the branch t_pick_branch chooses, the   *)
(* branches that DNS failover or failure_route add, and the reply of       *)
(* failure_route, up to the outcome that t_should_relay_response hands to  *)
(* relay_reply.                                                            *)
(***************************************************************************)
EXTENDS TransactionFrame

\* The reply on b is kept.
LEMMA StoreKept ==
  ASSUME NEW u \in UacType, NEW b
  PROVE  Kept(u, Set(u, b, [u[b] EXCEPT !.reply = TRUE]))
<1> DEFINE v == Set(u, b, [u[b] EXCEPT !.reply = TRUE])
<1>1. ASSUME NEW a \in Branches PROVE Like(u[a], v[a])
  <2>1. u[a] \in BranchType
    BY DEF UacType
  <2>2. v[a] = u[a] \/ v[a] = [u[a] EXCEPT !.reply = TRUE]
    BY Zenon DEF Set
  <2> QED
    BY <2>1, <2>2, MarkedLike, Zenon
<1>2. v = [a \in Branches |-> v[a]]
  BY DEF Set
<1> QED
  BY <1>1, <1>2, LikeKept, Zenon

\* Induction over the natural numbers, for a set.
LEMMA NatSetInduction ==
  ASSUME NEW S, 0 \in S, \A n \in Nat : n \in S => n + 1 \in S
  PROVE  Nat \subseteq S
<1> DEFINE T == Nat \ S
<1> SUFFICES ASSUME T # {} PROVE FALSE
  OBVIOUS
<1>1. T \in SUBSET Nat
  OBVIOUS
<1>2. PICK n \in T : \A m \in T : n <= m
  BY <1>1, LeastNat, Zenon
<1>3. n # 0 /\ n \in Nat
  BY <1>2
<1>4. n - 1 \in Nat /\ ~(n <= n - 1) /\ (n - 1) + 1 = n
  BY <1>3
<1>5. n - 1 \in S
  BY <1>2, <1>4
<1> QED
  BY <1>2, <1>4, <1>5

\* The table of what t_pick_branch prefers after every branch up to n.
IsScan(f, u, c, n) ==
  f = [b \in (c.first - 1)..n |->
         IF b < c.first THEN None ELSE PickStep(u, c, f[b - 1], b)]

\* The recursion of t_pick_branch is well-founded: the table exists.
LEMMA ScanExists ==
  ASSUME NEW u, NEW c, c.first \in Int, NEW N \in Nat
  PROVE  \E f : IsScan(f, u, c, c.first - 1 + N)
<1> DEFINE S == {n \in Nat : \E f : IsScan(f, u, c, c.first - 1 + n)}
<1>1. 0 \in S
  <2> DEFINE g == [b \in (c.first - 1)..(c.first - 1 + 0) |-> None]
  <2>1. IsScan(g, u, c, c.first - 1 + 0)
    BY DEF IsScan
  <2> QED
    BY <2>1
<1>2. ASSUME NEW n \in Nat, n \in S PROVE n + 1 \in S
  <2>1. PICK f : IsScan(f, u, c, c.first - 1 + n)
    BY <1>2
  <2> DEFINE g == [b \in (c.first - 1)..(c.first - 1 + (n + 1)) |->
                     IF b < c.first + n THEN f[b] ELSE PickStep(u, c, f[b - 1], b)]
  <2>2. \A b \in (c.first - 1)..(c.first - 1 + (n + 1)) :
          g[b] = IF b < c.first THEN None ELSE PickStep(u, c, g[b - 1], b)
    BY <2>1 DEF IsScan
  <2>3. IsScan(g, u, c, c.first - 1 + (n + 1))
    BY <2>2, Zenon DEF IsScan
  <2> HIDE DEF g
  <2> QED
    BY <2>3
<1> HIDE DEF S
<1>3. N \in S
  BY <1>1, <1>2, NatSetInduction
<1> QED
  BY <1>3 DEF S

\* t_pick_branch reads the last entry of that table.
LEMMA PickTable ==
  ASSUME NEW u, NEW c, c.first \in Int, c.nr \in Int, c.first <= c.nr
  PROVE  \E f : IsScan(f, u, c, c.nr - 1) /\ t_pick_branch(u, c) = f[c.nr - 1]
<1> DEFINE scan[b \in (c.first - 1)..(c.nr - 1)] ==
             IF b < c.first THEN None ELSE PickStep(u, c, scan[b - 1], b)
<1>1. \E f : IsScan(f, u, c, c.nr - 1)
  <2>1. c.nr - c.first \in Nat /\ c.nr - 1 = c.first - 1 + (c.nr - c.first)
    OBVIOUS
  <2>2. \E f : IsScan(f, u, c, c.first - 1 + (c.nr - c.first))
    BY <2>1, ScanExists, Zenon
  <2> QED
    BY <2>1, <2>2
<1>2. IsScan(scan, u, c, c.nr - 1)
  BY <1>1 DEF IsScan
<1>3. t_pick_branch(u, c) = scan[c.nr - 1]
  BY DEF t_pick_branch
<1> HIDE DEF scan
<1> QED
  BY <1>2, <1>3

\* k is the best of the branches from..b, which are final.
BestOf(u, c, from, b, k) ==
  /\ k \in from..b
  /\ \A a \in from..b : /\ u[a].last >= 200
                         /\ PickRank(c.cancelled, u[k].last) <= PickRank(c.cancelled, u[a].last)

Unfinished(u, from, b) == \E a \in from..b : u[a].last < 200

\* Ranks are numbers.
LEMMA RankType ==
  ASSUME NEW code \in Span(0, 699), NEW cancelled \in BOOLEAN
  PROVE  PickRank(cancelled, code) \in Int
BY DEF PickRank, Span

\* Better keeps the lower rank.
LEMMA BetterRank ==
  ASSUME NEW u \in UacType, NEW cancelled \in BOOLEAN, NEW k \in Branches, NEW b \in Branches
  PROVE  LET R(a) == PickRank(cancelled, u[a].last)
             w == Better(u, cancelled, k, b)
         IN w \in {k, b} /\ R(w) <= R(k) /\ R(w) <= R(b)
<1> DEFINE s == u[k].last
           n == u[b].last
<1>1. s \in Span(0, 699) /\ n \in Span(0, 699)
  BY DEF UacType, BranchType, StatusCodes
<1> HIDE DEF s, n
<1>2. k # None
  BY BranchNumbers
<1>3. PickRank(cancelled, s) \in Int /\ PickRank(cancelled, n) \in Int
  BY <1>1, RankType
<1>4. PickRank(cancelled, s) <= PickRank(cancelled, s)
      /\ PickRank(cancelled, n) <= PickRank(cancelled, n)
  BY <1>3
<1>5. CASE \/ cancelled /\ n = 487
           \/ (s # 487 \/ ~cancelled) /\ (s = 503 \/ (n # 503 /\ n < s))
  <2>1. Better(u, cancelled, k, b) = b
    BY <1>5 DEF Better, s, n
  <2>2. PickRank(cancelled, n) <= PickRank(cancelled, s)
    BY <1>1, <1>5 DEF PickRank, Span
  <2> QED
    BY <1>4, <2>1, <2>2 DEF s, n
<1>6. CASE ~ \/ cancelled /\ n = 487
             \/ (s # 487 \/ ~cancelled) /\ (s = 503 \/ (n # 503 /\ n < s))
  <2>1. Better(u, cancelled, k, b) = k
    BY <1>2, <1>6 DEF Better, s, n
  <2>2. PickRank(cancelled, s) <= PickRank(cancelled, n)
    BY <1>1, <1>6 DEF PickRank, Span
  <2> QED
    BY <1>4, <2>1, <2>2 DEF s, n
<1> QED
  BY <1>5, <1>6

\* One branch more.
LEMMA PickStepBest ==
  ASSUME NEW u \in UacType, NEW c \in CellType, NEW from \in Nat,
         NEW b \in Branches, from <= b, u[b].buffer, NEW best,
         \/ from = b /\ best = None
         \/ from < b /\ best = Pending /\ Unfinished(u, from, b - 1)
         \/ from < b /\ BestOf(u, c, from, b - 1, best)
  PROVE  LET k == PickStep(u, c, best, b)
         IN (k = Pending /\ Unfinished(u, from, b)) \/ BestOf(u, c, from, b, k)
<1>1. b \in Nat /\ u[b].last \in Span(0, 699) /\ c.cancelled \in BOOLEAN
  BY BranchNumbers DEF UacType, BranchType, StatusCodes, CellType
<1>2. CASE best = Pending
  BY <1>1, <1>2 DEF PickStep, Unfinished, Pending, None, BestOf
<1>3. CASE best # Pending /\ u[b].last < 200
  BY <1>1, <1>3 DEF PickStep, Unfinished
<1>4. CASE best # Pending /\ u[b].last >= 200
  <2>1. PickStep(u, c, best, b) = Better(u, c.cancelled, best, b)
    BY <1>1, <1>4 DEF PickStep, Span
  <2>2. CASE from = b /\ best = None
    <3>1. Better(u, c.cancelled, best, b) = b
      BY <2>2 DEF Better
    <3> QED
      BY <1>1, <1>4, <2>1, <2>2, <3>1 DEF BestOf, PickRank, Span
  <2>3. CASE from < b /\ BestOf(u, c, from, b - 1, best)
    <3> DEFINE k == Better(u, c.cancelled, best, b)
               R(a) == PickRank(c.cancelled, u[a].last)
    <3>1. best \in Branches /\ best \in from..(b - 1)
      BY <1>1, <2>3, BranchNumbers DEF BestOf
    <3>2. k \in {best, b} /\ R(k) <= R(best) /\ R(k) <= R(b)
      BY <1>1, <3>1, BetterRank, Zenon
    <3>3. \A a \in from..(b - 1) : u[a].last >= 200 /\ R(best) <= R(a)
      BY <2>3 DEF BestOf
    <3>4. \A a \in from..b : R(a) \in Int
      <4> SUFFICES ASSUME NEW a \in from..b PROVE R(a) \in Int
        OBVIOUS
      <4>1. a \in Branches
        BY <1>1, BranchNumbers
      <4>2. u[a].last \in Span(0, 699)
        BY <4>1 DEF UacType, BranchType, StatusCodes
      <4> QED
        BY <1>1, <4>2, RankType, Zenon
    <3> HIDE DEF k, R
    <3>5. \A a \in from..b : u[a].last >= 200 /\ R(k) <= R(a)
      <4> SUFFICES ASSUME NEW a \in from..b PROVE u[a].last >= 200 /\ R(k) <= R(a)
        OBVIOUS
      <4>1. CASE a = b
        BY <4>1, <1>4, <3>2
      <4>2. CASE a # b
        <5>1. a \in from..(b - 1)
          BY <4>2, <1>1
        <5>2. R(best) \in Int /\ R(k) \in Int /\ R(a) \in Int
          BY <3>1, <3>2, <3>4, <1>1
        <5> QED
          BY <5>1, <5>2, <3>2, <3>3
      <4> QED
        BY <4>1, <4>2
    <3>6. k \in from..b
      BY <3>1, <3>2, <1>1
    <3>7. BestOf(u, c, from, b, k)
      BY <3>5, <3>6 DEF BestOf, R
    <3> QED
      BY <2>1, <3>7 DEF k
  <2> QED
    BY <1>4, <2>2, <2>3
<1> QED
  BY <1>1, <1>2, <1>3, <1>4 DEF Span

\* t_pick_branch returns the best branch of a round whose branches are all
\* final, and Pending for any other round.
LEMMA PickBranch ==
  ASSUME NEW u \in UacType, NEW c \in CellType, c.first < c.nr,
         \A b \in Round(c) : u[b].buffer
  PROVE  \/ t_pick_branch(u, c) = Pending /\ Unfinished(u, c.first, c.nr - 1)
         \/ BestOf(u, c, c.first, c.nr - 1, t_pick_branch(u, c))
<1>1. c.first \in Nat /\ c.nr \in Nat /\ c.nr <= MaxBranches
  BY BranchNumbers DEF CellType
<1>2. PICK f : IsScan(f, u, c, c.nr - 1) /\ t_pick_branch(u, c) = f[c.nr - 1]
  BY <1>1, PickTable
<1> DEFINE Good(b) == \/ f[b] = Pending /\ Unfinished(u, c.first, b)
                      \/ BestOf(u, c, c.first, b, f[b])
           T == {b \in Nat : b \in Round(c) /\ ~Good(b)}
<1>3. T = {}
  <2> SUFFICES ASSUME T # {} PROVE FALSE
    OBVIOUS
  <2>1. PICK b \in T : \A m \in T : b <= m
    BY LeastNat, Zenon
  <2>2. b \in Nat /\ c.first <= b /\ b <= c.nr - 1 /\ ~Good(b)
    BY <1>1, <2>1 DEF Round
  <2>3. b \in Branches /\ u[b].buffer
    BY <1>1, <2>1, <2>2, BranchNumbers DEF Round
  <2>4. f[b] = PickStep(u, c, f[b - 1], b)
    BY <1>1, <1>2, <2>2 DEF IsScan
  <2>5. CASE b = c.first
    <3>1. f[b - 1] = None
      BY <1>1, <1>2, <2>5 DEF IsScan
    <3> QED
      BY <1>1, <2>2, <2>3, <2>4, <2>5, <3>1, PickStepBest
  <2>6. CASE b # c.first
    <3>1. b - 1 \in Nat /\ b - 1 \in Round(c) /\ c.first < b
      BY <1>1, <2>2, <2>6 DEF Round
    <3>2. Good(b - 1)
      BY <2>1, <2>2, <3>1
    <3> QED
      BY <1>1, <2>2, <2>3, <2>4, <3>1, <3>2, PickStepBest
  <2> QED
    BY <2>5, <2>6
<1>4. c.nr - 1 \in Nat /\ c.nr - 1 \in Round(c)
  BY <1>1 DEF Round
<1> QED
  BY <1>2, <1>3, <1>4

\* One branch more: u, c, lk become v, d, l.
Grows(u, c, lk, b, v, d, l, m) ==
  /\ ~c.cancelled /\ ~c.noNew /\ c.nr # MaxBranches
  /\ v = Set(NewBranch(u, c, m = "yes"), b, [NewBranch(u, c, m = "yes")[b] EXCEPT !.reply = TRUE])
  /\ d = [c EXCEPT !.first = c.nr, !.nr = @ + 1]
  /\ l = IF m = "yes" THEN start_retr(lk, c.nr) ELSE lk

IsStore(o) == o.rps = "RPS_STORE" /\ o.relay = None /\ o.bm = {}

\* A branch that failure_route or DNS failover appends starts a round of its
\* own, and the reply on b is stored.
LEMMA ForwardedGrows ==
  ASSUME NEW u, NEW c, NEW lk, NEW b, NEW o \in Forwarded(u, c, lk, b)
  PROVE  IsStore(o) /\ \E m \in {"yes", "failed"} : Grows(u, c, lk, b, o.uac, o.cell, o.link, m)
<1>1. ~c.cancelled /\ ~c.noNew /\ c.nr # MaxBranches
  BY DEF Forwarded
<1>2. PICK ok \in BOOLEAN :
        o = Stored(NewBranch(u, c, ok), [c EXCEPT !.first = c.nr, !.nr = @ + 1],
                   IF ok THEN start_retr(lk, c.nr) ELSE lk, b)
  BY <1>1 DEF Forwarded
<1>3. CASE ok
  <2>1. Grows(u, c, lk, b, o.uac, o.cell, o.link, "yes")
    BY <1>1, <1>2, <1>3, Zenon DEF Stored, Outcome, Grows
  <2> QED
    BY <1>2, <2>1 DEF Stored, Outcome, IsStore
<1>4. CASE ~ok
  <2>1. Grows(u, c, lk, b, o.uac, o.cell, o.link, "failed")
    BY <1>1, <1>2, <1>4, Zenon DEF Stored, Outcome, Grows
  <2> QED
    BY <1>2, <2>1 DEF Stored, Outcome, IsStore
<1> QED
  BY <1>3, <1>4

\* The fields of the cell that a new branch leaves alone.
SameCell(c, d) ==
  /\ d.life = c.life /\ d.ref = c.ref /\ d.status = c.status /\ d.relaied = c.relaied
  /\ d.out = c.out /\ (d.cancelled <=> c.cancelled)
  /\ (d.noNew <=> c.noNew) /\ (d.kr <=> c.kr)

\* Moving first_branch and nr_of_outgoings keeps the cell well-formed.
LEMMA CellUpdate ==
  ASSUME NEW c \in CellType
  PROVE  \A f, n \in 0..MaxBranches : [c EXCEPT !.first = f, !.nr = n] \in CellType
BY Zenon DEF CellType

\* What one branch more changes.
LEMMA GrowsFrame ==
  ASSUME NEW u \in UacType, NEW c \in CellType, NEW lk \in LinkType, NEW b \in Branches,
         b < c.nr, NEW v, NEW d, NEW l, NEW m \in {"yes", "failed"},
         Grows(u, c, lk, b, v, d, l, m)
  PROVE  /\ v \in UacType /\ d \in CellType /\ l \in LinkType /\ c.nr \in Branches
         /\ d.first = c.nr /\ d.nr = c.nr + 1 /\ SameCell(c, d)
         /\ Waits(lk, l) /\ (m = "failed" => l = lk)
         /\ \A a \in Branches : a # c.nr => Like(u[a], v[a]) /\ l[fr(a)] = lk[fr(a)]
         /\ v[b].reply
         /\ v[c.nr].last = u[c.nr].last /\ v[c.nr].buffer /\ v[c.nr].round = c.nr
         /\ v[c.nr].sent = m
<1>1. c.nr \in Branches /\ c.nr \in Nat /\ b # c.nr
  BY BranchNumbers DEF CellType, Grows
<1> DEFINE w == NewBranch(u, c, m = "yes")
           r == [u[c.nr] EXCEPT !.buffer = TRUE, !.round = c.nr, !.sent = m]
<1>2. u[c.nr] \in BranchType /\ u[b] \in BranchType
  BY <1>1 DEF UacType
<1>3. /\ r \in BranchType /\ r.last = u[c.nr].last /\ r.buffer /\ r.round = c.nr
      /\ r.sent = m
  <2>1. r \in BranchType
    BY <1>1, <1>2, Zenon DEF BranchType
  <2>2. r.last = u[c.nr].last /\ r.buffer /\ r.round = c.nr /\ r.sent = m
    BY <1>2 DEF BranchType
  <2> QED
    BY <2>1, <2>2
<1>4. w = [a \in Branches |-> IF a = c.nr THEN r ELSE u[a]]
  BY Zenon DEF NewBranch, Set
<1>5. v = [a \in Branches |-> IF a = b THEN [w[b] EXCEPT !.reply = TRUE] ELSE w[a]]
  BY DEF Grows, Set
<1>6. /\ v = [a \in Branches |-> v[a]]
      /\ v[b] = [u[b] EXCEPT !.reply = TRUE] /\ v[c.nr] = r
      /\ \A a \in Branches : a # b /\ a # c.nr => v[a] = u[a]
  BY <1>1, <1>4, <1>5, Zenon
<1> HIDE DEF w, r
<1>7. \A a \in Branches : a # c.nr => Like(u[a], v[a])
  BY <1>1, <1>6, MarkedLike, Zenon DEF UacType
<1>8. v \in UacType
  BY <1>1, <1>3, <1>6, <1>7 DEF UacType, Like
<1>9. v[b].reply
  BY <1>2, <1>6 DEF BranchType
<1>10. d \in CellType /\ d.first = c.nr /\ d.nr = c.nr + 1 /\ SameCell(c, d)
  <2>1. d = [c EXCEPT !.first = c.nr, !.nr = c.nr + 1]
    BY DEF Grows
  <2>2. c.nr \in 0..MaxBranches /\ c.nr + 1 \in 0..MaxBranches
    BY <1>1, BranchNumbers
  <2>3. d \in CellType
    BY <2>1, <2>2, CellUpdate, Zenon
  <2> QED
    BY <2>1, <2>3 DEF CellType, SameCell
<1>11. /\ Waits(lk, l) /\ l \in LinkType /\ (m = "failed" => l = lk)
       /\ \A a \in Branches : a # c.nr => l[fr(a)] = lk[fr(a)]
  <2>1. CASE m = "yes"
    <3>1. l = start_retr(lk, c.nr)
      BY <2>1 DEF Grows
    <3> QED
      BY <1>1, <2>1, <3>1, StartRetrWaits, Zenon DEF Waits
  <2>2. CASE m = "failed"
    BY <2>2 DEF Grows, Waits
  <2> QED
    BY <2>1, <2>2
<1> QED
  BY <1>1, <1>3, <1>6, <1>7, <1>8, <1>9, <1>10, <1>11

\* The failure route was taken off, or there was none.
Off(c, e) == e = c \/ e = [c EXCEPT !.onNegative = FALSE]

\* What failure_route leads to when branch k has won: k is relayed, another
\* branch is tried, or the route replies.
RouteOutcome(u, c, lk, b, k, bm, o) ==
  \E e : Off(c, e) /\
    \/ o = Outcome(u, e, lk, "RPS_COMPLETED", k, bm)
    \/ IsStore(o) /\ \E m \in {"yes", "failed"} : Grows(u, e, lk, b, o.uac, o.cell, o.link, m)
    \/ o = Replied(u, e, lk, 480, bm)

\* run_failure_handlers takes the route off and does what the route does.
LEMMA HandlersOutcome ==
  ASSUME NEW u, NEW c, NEW lk, NEW b, NEW k, NEW bm,
         NEW o \in run_failure_handlers(u, c, lk, b, k, bm)
  PROVE  RouteOutcome(u, c, lk, b, k, bm, o)
<1> DEFINE off == [c EXCEPT !.onNegative = FALSE]
<1>1. \/ o = Outcome(u, c, lk, "RPS_COMPLETED", k, bm)
      \/ o = Outcome(u, off, lk, "RPS_COMPLETED", k, bm)
      \/ o \in Forwarded(u, off, lk, b)
      \/ o = Replied(u, off, lk, 480, bm)
  BY DEF run_failure_handlers
<1> HIDE DEF off
<1>2. ASSUME o \in Forwarded(u, off, lk, b)
      PROVE  IsStore(o) /\ \E m \in {"yes", "failed"} : Grows(u, off, lk, b, o.uac, o.cell, o.link, m)
  BY <1>2, ForwardedGrows
<1> QED
  BY <1>1, <1>2 DEF off, Off, RouteOutcome

\* The same after DNS failover: it has sent one branch more, or could not
\* send it, or was not tried.
FailOutcome(u, c, lk, b, k, bm, o) ==
  \/ RouteOutcome(u, c, lk, b, k, bm, o)
  \/ IsStore(o) /\ \E m \in {"yes", "failed"} : Grows(u, c, lk, b, o.uac, o.cell, o.link, m)
  \/ \E v, d : Grows(u, c, lk, b, v, d, lk, "failed") /\ RouteOutcome(v, d, lk, b, k, bm, o)

\* A failed round leads to DNS failover, to failure_route or to both.
LEMMA FailedOutcome ==
  ASSUME NEW u \in UacType, NEW c \in CellType, NEW lk \in LinkType, NEW b \in Branches,
         b < c.nr, NEW k, NEW bm, NEW o \in Failed(u, c, lk, b, k, bm)
  PROVE  FailOutcome(u, c, lk, b, k, bm, o)
<1> DEFINE tries == IF Failover /\ is_3263_failure(u, k) THEN Forwarded(u, c, lk, b) ELSE {}
<1>1. tries \subseteq Forwarded(u, c, lk, b)
  OBVIOUS
<1>2. \/ o \in run_failure_handlers(u, c, lk, b, k, bm)
      \/ o \in tries
      \/ \E x \in tries : /\ x.uac[c.nr].sent # "yes"
                           /\ o \in run_failure_handlers(x.uac, x.cell, x.link, b, k, bm)
  BY DEF Failed
<1> HIDE DEF tries
<1>3. CASE o \in run_failure_handlers(u, c, lk, b, k, bm)
  BY <1>3, HandlersOutcome DEF FailOutcome
<1>4. CASE o \in tries
  <2>1. IsStore(o) /\ \E m \in {"yes", "failed"} : Grows(u, c, lk, b, o.uac, o.cell, o.link, m)
    BY <1>1, <1>4, ForwardedGrows
  <2> QED
    BY <2>1 DEF FailOutcome
<1>5. ASSUME NEW x \in tries, x.uac[c.nr].sent # "yes",
             o \in run_failure_handlers(x.uac, x.cell, x.link, b, k, bm)
      PROVE  FailOutcome(u, c, lk, b, k, bm, o)
  <2>1. PICK m \in {"yes", "failed"} : Grows(u, c, lk, b, x.uac, x.cell, x.link, m)
    BY <1>1, <1>5, ForwardedGrows
  <2>2. x.uac[c.nr].sent = m
    BY <2>1, GrowsFrame
  <2>3. m = "failed"
    BY <1>5, <2>2
  <2>4. x.link = lk /\ Grows(u, c, lk, b, x.uac, x.cell, lk, "failed")
    BY <2>1, <2>3 DEF Grows
  <2>5. RouteOutcome(x.uac, x.cell, lk, b, k, bm, o)
    BY <1>5, <2>4, HandlersOutcome
  <2> QED
    BY <2>4, <2>5 DEF FailOutcome
<1> QED
  BY <1>2, <1>3, <1>4, <1>5

\* Where a negative reply on b is handled: no new branch will be tried, or
\* all branches are final and the other replies are stored.
Negative(u, c, lk, b) ==
  /\ u \in UacType /\ c \in CellType /\ lk \in LinkType /\ BranchOK(u, c, lk)
  /\ b < c.nr /\ u[b].last \in Span(300, 699) /\ (u[b].last >= 600 => c.noNew) /\ (c.noNew => u[b].last >= 600)
  /\ \A a \in Branches : a # b /\ u[a].last >= 200 => u[a].reply /\ u[a].last \in Span(300, 599)
  /\ c.noNew \/ AllFinal(u, c)
  /\ c.status < 200

\* Decisions on the same cell compose: DNS failover, then failure_route.
LEMMA FollowsTrans ==
  ASSUME NEW u, NEW c \in CellType, NEW lk, NEW v, NEW d, NEW l, NEW w, NEW e, NEW k,
         Follows(u, c, lk, v, d, l), Follows(v, d, l, w, e, k), c.noNew => d.noNew
  PROVE  Follows(u, c, lk, w, e, k)
<1>1. c.nr \in Nat /\ d.nr \in Nat /\ e.nr \in Nat /\ c.nr <= d.nr /\ d.nr <= e.nr
  <2>1. d \in CellType /\ e \in CellType /\ c.nr <= d.nr /\ d.nr <= e.nr
    BY DEF Follows
  <2> QED
    BY <2>1, BranchNumbers DEF CellType
<1>2. Waits(lk, k)
  BY WaitsTrans DEF Follows
<1>3. ASSUME NEW a \in Branches
      PROVE  /\ u[a].reply => w[a].reply
             /\ a < c.nr => /\ w[a].sent = u[a].sent /\ w[a].last = u[a].last
                            /\ w[a].round = u[a].round
                            /\ lk[fr(a)] = "off" => k[fr(a)] = "off"
             /\ a >= c.nr => w[a].last = 0
  <2>1. a \in Nat
    BY BranchNumbers
  <2>2. CASE a < c.nr
    BY <1>1, <2>1, <2>2 DEF Follows
  <2>3. CASE a >= c.nr
    <3>1. v[a].last = 0 /\ (u[a].reply => v[a].reply) /\ (v[a].reply => w[a].reply)
      BY <2>3 DEF Follows
    <3>2. w[a].last = 0
      BY <1>1, <2>1, <3>1 DEF Follows
    <3> QED
      BY <1>1, <2>1, <2>3, <3>1, <3>2
  <2> QED
    BY <1>1, <2>1, <2>2, <2>3
<1>4. c.nr # e.nr => ~c.cancelled /\ ~c.noNew
  BY <1>1 DEF Follows
<1> QED
  BY <1>1, <1>2, <1>3, <1>4 DEF Follows

\* A branch more starts a round of its own, and all rounds before are final.
LEMMA GrowsFollows ==
  ASSUME NEW u, NEW c, NEW lk, NEW b \in Branches, Negative(u, c, lk, b),
         NEW v, NEW d, NEW l, NEW m \in {"yes", "failed"}, Grows(u, c, lk, b, v, d, l, m)
  PROVE  /\ Follows(u, c, lk, v, d, l) /\ SameCell(c, d) /\ v[b].reply
         /\ m = "failed" => Negative(v, d, l, b)
<1>0. u[b].last \in Span(300, 699) /\ (u[b].last >= 600 => c.noNew)
  BY Zenon DEF Negative
<1>9. \A a \in Branches : a # b /\ u[a].last >= 200 => u[a].reply /\ u[a].last \in Span(300, 599)
  BY Zenon DEF Negative
<1>1. /\ u \in UacType /\ c \in CellType /\ lk \in LinkType /\ b < c.nr
      /\ BranchOK(u, c, lk) /\ AllFinal(u, c) /\ ~c.cancelled /\ ~c.noNew
  BY Zenon DEF Negative, Grows
<1>2. /\ v \in UacType /\ d \in CellType /\ l \in LinkType /\ c.nr \in Branches
      /\ d.first = c.nr /\ d.nr = c.nr + 1 /\ SameCell(c, d)
      /\ Waits(lk, l)
      /\ \A a \in Branches : a # c.nr => Like(u[a], v[a]) /\ l[fr(a)] = lk[fr(a)]
      /\ v[b].reply
      /\ v[c.nr].last = u[c.nr].last /\ v[c.nr].buffer /\ v[c.nr].round = c.nr
      /\ v[c.nr].sent = m
  BY <1>1, GrowsFrame
<1>3. \A a \in Branches : a \in Nat /\ u[a].last \in Span(0, 699) /\ u[a].round \in {None} \cup Branches
  BY <1>1, BranchNumbers DEF UacType, BranchType, StatusCodes
<1>4. c.nr \in Nat /\ c.first \in Nat /\ c.first < c.nr
  BY <1>1, <1>3 DEF CellType, BranchOK
<1>5. v[c.nr].last = 0
  BY <1>1, <1>2, <1>3 DEF BranchOK
<1>6. BranchOK(v, d, l)
  <2> SUFFICES ASSUME NEW a \in Branches
               PROVE  /\ a >= d.nr => /\ v[a].last = 0 /\ ~v[a].buffer /\ v[a].sent = "no"
                                      /\ v[a].round = None /\ l[fr(a)] = "off"
                      /\ a < d.nr => v[a].buffer
                      /\ a < d.nr /\ d.first <= a => v[a].round = d.first
                      /\ a < d.first => /\ v[a].round # None /\ v[a].round < d.first
                                        /\ v[a].last >= 200 \/ v[a].sent = "failed"
    BY <1>2, <1>4 DEF BranchOK
  <2>1. CASE a >= d.nr
    <3>1. a \in Nat /\ d.nr = c.nr + 1
      BY <1>2, <1>3, Zenon
    <3>2. a >= c.nr /\ a # c.nr /\ ~(a < d.nr) /\ ~(a < c.nr)
      BY <1>4, <2>1, <3>1
    <3>3. Like(u[a], v[a]) /\ l[fr(a)] = lk[fr(a)]
      BY <1>2, <3>2, Zenon
    <3>4. /\ u[a].last = 0 /\ ~u[a].buffer /\ u[a].sent = "no"
          /\ u[a].round = None /\ lk[fr(a)] = "off"
      BY <1>1, <3>2, Zenon DEF BranchOK
    <3>5. ~(a < d.first)
      BY <1>2, <3>2, Zenon
    <3> QED
      BY <3>2, <3>3, <3>4, <3>5, Zenon DEF Like
  <2>2. CASE a = c.nr
    BY <1>2, <1>4, <2>2
  <2>3. CASE a < c.nr
    <3>1. Like(u[a], v[a])
      BY <1>2, <1>3, <1>4, <2>3
    <3>2. u[a].buffer /\ (u[a].last >= 200 \/ u[a].sent = "failed")
      BY <1>1, <2>3 DEF BranchOK, AllFinal
    <3>3. u[a].round # None /\ u[a].round < c.nr
      <4>1. CASE a < c.first
        <5>1. u[a].round # None /\ u[a].round < c.first
          BY <1>1, <4>1 DEF BranchOK
        <5>2. u[a].round \in Nat
          BY <1>3, <5>1, BranchNumbers, Zenon
        <5> QED
          BY <1>4, <5>1, <5>2
      <4>2. CASE c.first <= a
        BY <1>1, <1>3, <1>4, <2>3, <4>2, BranchNumbers DEF BranchOK, None
      <4> QED
        BY <1>3, <1>4, <4>1, <4>2
    <3>4. /\ v[a].buffer /\ v[a].round # None /\ v[a].round < c.nr
          /\ v[a].last >= 200 \/ v[a].sent = "failed"
      BY <3>1, <3>2, <3>3, Zenon DEF Like
    <3>5. a \in Nat /\ d.first = c.nr /\ d.nr = c.nr + 1
      BY <1>2, <1>3, Zenon
    <3>6. ~(a >= d.nr) /\ ~(d.first <= a)
      BY <1>4, <2>3, <3>5
    <3> QED
      BY <3>4, <3>5, <3>6, Zenon
  <2>4. a \in Nat /\ d.nr = c.nr + 1
    BY <1>2, <1>3, Zenon
  <2>5. a >= d.nr \/ a = c.nr \/ a < c.nr
    BY <1>4, <2>4
  <2> QED
    BY <2>1, <2>2, <2>3, <2>5, Zenon
<1>7. Follows(u, c, lk, v, d, l)
  <2>1. ASSUME NEW a \in Branches
        PROVE  /\ u[a].reply => v[a].reply
               /\ a < c.nr => /\ v[a].sent = u[a].sent /\ v[a].last = u[a].last
                              /\ v[a].round = u[a].round
                              /\ lk[fr(a)] = "off" => l[fr(a)] = "off"
               /\ a >= c.nr => v[a].last = 0
    <3>1. CASE a # c.nr
      <4>1. Like(u[a], v[a]) /\ l[fr(a)] = lk[fr(a)]
        BY <1>2, <3>1, Zenon
      <4>2. a >= c.nr => u[a].last = 0
        BY <1>1, Zenon DEF BranchOK
      <4> QED
        BY <4>1, <4>2, Zenon DEF Like
    <3>2. CASE a = c.nr
      <4>1. u[a].reply => v[a].reply
        BY <3>2, <1>1 DEF Grows, Set, NewBranch
      <4> QED
        BY <1>4, <1>5, <3>2, <4>1
    <3> QED
      BY <3>1, <3>2, Zenon
  <2> QED
    BY <1>1, <1>2, <1>4, <1>6, <2>1 DEF Follows, SameCell
<1>8. ASSUME m = "failed" PROVE Negative(v, d, l, b)
  <2>1. b # c.nr /\ b < d.nr
    <3>1. b \in Nat
      BY <1>3, Zenon
    <3> QED
      BY <1>1, <1>2, <1>4, <3>1
  <2>5. Like(u[b], v[b])
    BY <1>2, <2>1
  <2>2. ASSUME NEW a \in Branches, a # b, v[a].last >= 200
        PROVE  v[a].reply /\ v[a].last \in Span(300, 599)
    <3>1. a # c.nr
      BY <1>5, <2>2
    <3>2. Like(u[a], v[a])
      BY <1>2, <3>1
    <3>3. u[a].reply /\ u[a].last \in Span(300, 599)
      <4>1. v[a].last = u[a].last
        BY <3>2 DEF Like
      <4>2. u[a].last >= 200
        BY <2>2, <4>1
      <4> QED
        BY <1>9, <2>2, <4>2, Zenon
    <3> QED
      BY <3>2, <3>3, Zenon DEF Like
  <2>3. AllFinal(v, d)
    BY <1>1, <1>2, <1>3, <1>4, <1>8 DEF AllFinal, Like
  <2>4. v[b].last \in Span(300, 599)
    <3>1. u[b].last \in Span(300, 699) /\ ~(u[b].last >= 600)
      BY <1>0, <1>1, Zenon
    <3> QED
      BY <2>5, <3>1 DEF Like, Span
  <2>6. v[b].last \in Span(300, 699) /\ ~(v[b].last >= 600)
    BY <2>4 DEF Span
  <2>7. ~d.noNew /\ d.status < 200
    <3>1. c.status < 200 /\ d.status = c.status
      BY <1>2, Zenon DEF Negative, SameCell
    <3>2. ~d.noNew
      BY <1>1, <1>2, Zenon DEF SameCell
    <3> QED
      BY <3>1, <3>2
  <2> QED
    <3>1. \A a \in Branches : a # b /\ v[a].last >= 200 => v[a].reply /\ v[a].last \in Span(300, 599)
      BY <2>2
    <3>2. v \in UacType /\ d \in CellType /\ l \in LinkType
      BY <1>2
    <3> QED
      BY <1>6, <2>1, <2>3, <2>6, <2>7, <3>1, <3>2, Zenon DEF Negative
<1> QED
  BY <1>2, <1>7, <1>8

\* The cell keeps its branches, its life and its references.
Still(c, d) ==
  /\ d \in CellType /\ d.first = c.first /\ d.nr = c.nr
  /\ d.life = c.life /\ d.ref = c.ref /\ (d.cancelled <=> c.cancelled) /\ (d.kr <=> c.kr)

\* A decision that adds no branch follows from what was there.
LEMMA KeptFollows ==
  ASSUME NEW u \in UacType, NEW c \in CellType, NEW lk, NEW v, NEW d, NEW l,
         BranchOK(u, c, lk), Kept(u, v), Still(c, d), Waits(lk, l), NoFr(lk, l)
  PROVE  Follows(u, c, lk, v, d, l)
<1>1. /\ v \in UacType /\ d \in CellType /\ l \in LinkType /\ d.first = c.first /\ d.nr = c.nr
      /\ d.life = c.life /\ d.ref = c.ref /\ (d.cancelled <=> c.cancelled) /\ (d.kr <=> c.kr)
  BY DEF Kept, Still, Waits
<1>2. c.nr \in Nat
  BY BranchNumbers DEF CellType
<1>3. BranchOK(v, d, l)
  BY <1>1 DEF BranchOK, Kept, NoFr
<1>4. ASSUME NEW a \in Branches
      PROVE  /\ u[a].reply => v[a].reply
             /\ a < c.nr => /\ v[a].sent = u[a].sent /\ v[a].last = u[a].last
                            /\ v[a].round = u[a].round
                            /\ lk[fr(a)] = "off" => l[fr(a)] = "off"
             /\ a >= c.nr => v[a].last = 0
  BY DEF Kept, NoFr, BranchOK
<1> QED
  BY <1>1, <1>2, <1>3, <1>4 DEF Follows

\* failure_route has replied 480.
LEMMA RepliedFollows ==
  ASSUME NEW u \in UacType, NEW c \in CellType, NEW lk \in LinkType, NEW bm,
         BranchOK(u, c, lk), NEW o, o = Replied(u, c, lk, 480, bm)
  PROVE  /\ Follows(u, c, lk, o.uac, o.cell, o.link) /\ Kept(u, o.uac)
         /\ o.cell.status = 480 /\ o.relay = None /\ o.rps = "RPS_COMPLETED" /\ o.bm = bm
         /\ o.cell.nr = c.nr
<1> DEFINE mine == IF kind.invite THEN which_cancel(u, c) ELSE {}
           c2 == [c EXCEPT !.status = 480, !.relaied = Local, !.out = 480]
           u1 == MarkCancel(u, Round(c))
           u2 == IF kind.invite THEN cancel_branch(u1, mine) ELSE u
           l1 == cleanup_uac_timers(lk, c)
           l2 == set_final_timer(l1, c2)
<1>1. o = Outcome(u2, c2, l2, "RPS_COMPLETED", None, bm)
  BY DEF Replied
<1>2. o.uac = u2 /\ o.cell = c2 /\ o.link = l2 /\ o.relay = None /\ o.rps = "RPS_COMPLETED" /\ o.bm = bm
  BY <1>1 DEF Outcome
<1>3. Kept(u, u2)
  <2>1. Kept(u, u1) /\ u1 \in UacType
    BY MarkCancelKept DEF Kept
  <2>2. Kept(u1, cancel_branch(u1, mine))
    BY <2>1, CancelBranchKept
  <2> QED
    BY <2>1, <2>2, KeptTrans, KeptRefl
<1>4. Still(c, c2) /\ c2.status = 480
  <2> DEFINE d1 == [c EXCEPT !.status = 480]
             d2 == [d1 EXCEPT !.relaied = Local]
             d3 == [d2 EXCEPT !.out = 480]
  <2>10. d1 \in CellType
    <3>1. \A n \in StatusCodes : [c EXCEPT !.status = n] \in CellType
      BY DEF CellType
    <3>2. 480 \in StatusCodes
      BY DEF StatusCodes, Span
    <3> QED
      BY <3>1, <3>2, Zenon
  <2>11. d1.first = c.first /\ d1.nr = c.nr /\ d1.life = c.life /\ d1.ref = c.ref
    BY DEF CellType
  <2>12. d1.cancelled = c.cancelled /\ d1.kr = c.kr
    BY DEF CellType
  <2>13. d1.status = 480
    BY DEF CellType
  <2> HIDE DEF d1
  <2>20. d2 \in CellType
    BY <2>10 DEF CellType
  <2>21. d2.first = d1.first /\ d2.nr = d1.nr /\ d2.life = d1.life /\ d2.ref = d1.ref
    BY <2>10 DEF CellType
  <2>22. d2.cancelled = d1.cancelled /\ d2.kr = d1.kr
    BY <2>10 DEF CellType
  <2>23. d2.status = 480
    BY <2>10, <2>13 DEF CellType
  <2> HIDE DEF d2
  <2>30. d3 \in CellType
    BY <2>20 DEF CellType
  <2>31. d3.first = d2.first /\ d3.nr = d2.nr /\ d3.life = d2.life /\ d3.ref = d2.ref
    BY <2>20 DEF CellType
  <2>32. d3.cancelled = d2.cancelled /\ d3.kr = d2.kr
    BY <2>20 DEF CellType
  <2>33. d3.status = 480
    BY <2>20, <2>23 DEF CellType
  <2> HIDE DEF d3
  <2>40. Still(c, d3)
    BY <2>30, <2>11, <2>21, <2>31, <2>12, <2>22, <2>32, Zenon DEF Still
  <2> QED
    BY <2>33, <2>40 DEF d1, d2, d3
<1>5. Waits(lk, l1) /\ NoFr(lk, l1) /\ l1 \in LinkType
  BY CleanupWaits DEF Waits
<1> HIDE DEF l1, c2, u2
<1>6. Waits(l1, l2) /\ NoFr(l1, l2)
  BY <1>5, FinalTimerWaits
<1> HIDE DEF l2
<1>7. Waits(lk, l2) /\ NoFr(lk, l2)
  BY <1>5, <1>6, WaitsTrans, NoFrTrans
<1>8. Follows(u, c, lk, u2, c2, l2)
  BY <1>3, <1>4, <1>7, KeptFollows
<1> QED
  BY <1>2, <1>3, <1>4, <1>8 DEF Still

\* Taking failure_route off changes nothing else of the cell.
LEMMA OffStill ==
  ASSUME NEW c \in CellType, NEW e, Off(c, e)
  PROVE  Still(c, e) /\ e.status = c.status /\ (e.noNew <=> c.noNew)
<1>1. CASE e = c
  BY <1>1 DEF Still
<1>2. CASE e = [c EXCEPT !.onNegative = FALSE]
  <2>1. [c EXCEPT !.onNegative = FALSE] \in CellType
    <3>1. FALSE \in BOOLEAN
      OBVIOUS
    <3>2. ASSUME NEW x \in BOOLEAN PROVE [c EXCEPT !.onNegative = x] \in CellType
      BY DEF CellType
    <3> QED
      BY <3>1, <3>2, Zenon
  <2>2. e.first = c.first /\ e.nr = c.nr /\ e.life = c.life /\ e.ref = c.ref /\ e.status = c.status
    BY <1>2 DEF CellType
  <2>3. e.cancelled = c.cancelled /\ e.kr = c.kr /\ e.noNew = c.noNew
    BY <1>2 DEF CellType
  <2> QED
    BY <1>2, <2>1, <2>2, <2>3, Zenon DEF Still
<1> QED
  BY <1>1, <1>2 DEF Off

\* The status once a decision is carried out.
NewStatus(o) == IF o.relay = None THEN o.cell.status ELSE o.uac[o.relay].last

\* What holds of every decision on a reply to branch b: it follows from
\* the branches u, another branch that is relayed has its reply stored, and
\* so have all final replies as long as nothing final is relayed.
Decided(u, c, lk, b, o) ==
  /\ Follows(u, c, lk, o.uac, o.cell, o.link)
  /\ o.relay = None \/ o.relay \in Branches
  /\ o.relay \in Branches /\ o.relay # b => o.uac[o.relay].reply
  /\ ReplyOK(o.uac, NewStatus(o))
  /\ AnswerOK(c.status, o.uac, o.cell, NewStatus(o))
  /\ o.cell.noNew => NewStatus(o) >= 200
  /\ o.bm \subseteq Branches /\ o.rps \in RelayTypes

\* Branch k has won when a negative reply on b is handled.
Wins(u, c, b, k) ==
  k < c.nr /\ u[k].last >= 200 /\ (k # b => u[k].reply) /\ BestIn(u, c, k)

\* Whatever failure_route does, the decision keeps its promises: the winner
\* is relayed and stored, or another branch is awaited, or 480 was replied.
LEMMA RouteDecided ==
  ASSUME NEW u, NEW c, NEW lk, NEW b \in Branches, Negative(u, c, lk, b),
         NEW k \in Branches, Wins(u, c, b, k),
         NEW bm \in SUBSET Branches, NEW o, RouteOutcome(u, c, lk, b, k, bm, o)
  PROVE  Decided(u, c, lk, b, o)
<1>1. /\ u \in UacType /\ c \in CellType /\ lk \in LinkType /\ BranchOK(u, c, lk)
      /\ b < c.nr
  BY Zenon DEF Negative
<1>0. /\ u[b].last \in Span(300, 699) /\ (u[b].last >= 600 => c.noNew) /\ (c.noNew => u[b].last >= 600)
      /\ c.noNew \/ AllFinal(u, c)
  BY Zenon DEF Negative
<1>11. \A a \in Branches : a # b /\ u[a].last >= 200 => u[a].reply /\ u[a].last \in Span(300, 599)
  BY Zenon DEF Negative
<1>2. PICK e : /\ Off(c, e)
               /\ \/ o = Outcome(u, e, lk, "RPS_COMPLETED", k, bm)
                  \/ /\ IsStore(o)
                     /\ \E m \in {"yes", "failed"} : Grows(u, e, lk, b, o.uac, o.cell, o.link, m)
                  \/ o = Replied(u, e, lk, 480, bm)
  BY DEF RouteOutcome
<1>3. Still(c, e) /\ e.status = c.status /\ (e.noNew <=> c.noNew) /\ e \in CellType
  BY <1>1, <1>2, OffStill DEF Still
<1>4. Kept(u, u) /\ Waits(lk, lk) /\ NoFr(lk, lk)
  BY <1>1, KeptRefl DEF Waits, NoFr
<1>5. Follows(u, c, lk, u, e, lk)
  BY <1>1, <1>3, <1>4, KeptFollows
<1>6. k \in Nat /\ k # None
  BY BranchNumbers
<1>10. c.status < 200 /\ c.status \in Span(0, 699)
  BY <1>1, Zenon DEF Negative, CellType, StatusCodes
<1>7. CASE o = Outcome(u, e, lk, "RPS_COMPLETED", k, bm)
  <2>1. o.uac = u /\ o.cell = e /\ o.link = lk /\ o.relay = k /\ o.rps = "RPS_COMPLETED" /\ o.bm = bm
    BY <1>7 DEF Outcome
  <2>2. u[k].last \in Span(0, 699)
    BY <1>1 DEF UacType, BranchType, StatusCodes
  <2>3. ReplyOK(u, u[k].last)
    <3>1. u[k].last >= 200
      BY DEF Wins
    <3>2. ~(u[k].last < 200)
      BY <2>2, <3>1 DEF Span
    <3> QED
      BY <3>2 DEF ReplyOK
  <2>4. NewStatus(o) = u[k].last
    BY <1>6, <2>1 DEF NewStatus
  <2>5. AnswerOK(c.status, u, e, u[k].last)
    <3>1. e.nr = c.nr /\ (e.cancelled <=> c.cancelled)
      BY <1>3 DEF Still
    <3>2. e.cancelled = c.cancelled
      BY <1>1, <1>3, <3>1, Zenon DEF CellType
    <3>3. BestIn(u, e, k)
      BY <3>1, <3>2 DEF Wins, BestIn, EndedIn, AllFinal
    <3> QED
      BY <1>10, <3>3, Zenon DEF AnswerOK
  <2>6. e.noNew => u[k].last >= 200
    BY DEF Wins
  <2>7. k < c.nr /\ (k # b => u[k].reply)
    BY DEF Wins
  <2>8. /\ o.relay \in Branches /\ o.relay < c.nr /\ (o.relay # b => o.uac[o.relay].reply)
        /\ o.rps \in RelayTypes /\ o.bm \subseteq Branches
    BY <1>6, <2>1, <2>7 DEF RelayTypes
  <2> QED
    BY <1>5, <2>1, <2>3, <2>4, <2>5, <2>6, <2>8, Zenon DEF Decided
<1>8. CASE IsStore(o) /\ \E m \in {"yes", "failed"} : Grows(u, e, lk, b, o.uac, o.cell, o.link, m)
  <2>1. PICK m \in {"yes", "failed"} : Grows(u, e, lk, b, o.uac, o.cell, o.link, m)
    BY <1>8
  <2>2. Negative(u, e, lk, b)
    BY <1>3, <1>5 DEF Negative, Still, AllFinal, Follows
  <2>3. Follows(u, e, lk, o.uac, o.cell, o.link) /\ SameCell(e, o.cell) /\ o.uac[b].reply
    BY <2>1, <2>2, GrowsFollows, Zenon
  <2>4. Follows(u, c, lk, o.uac, o.cell, o.link)
    BY <1>1, <1>3, <1>5, <2>3, FollowsTrans, Zenon
  <2>7. ~e.noNew
    BY <2>1 DEF Grows
  <2>8. ~c.noNew /\ ~o.cell.noNew
    BY <1>3, <2>3, <2>7, Zenon DEF SameCell
  <2>5. ASSUME NEW a \in Branches, o.uac[a].last >= 200
        PROVE  o.uac[a].reply /\ o.uac[a].last \in Span(300, 599)
    <3>1. a < c.nr /\ o.uac[a].last = u[a].last
      BY <1>1, <2>4, <2>5, BranchNumbers DEF Follows, CellType
    <3>2. CASE a # b
      <4>1. u[a].reply /\ u[a].last \in Span(300, 599)
        <5>1. u[a].last >= 200
          BY <2>5, <3>1
        <5> QED
          BY <1>11, <3>2, <5>1, Zenon
      <4> QED
        BY <2>4, <3>1, <4>1, Zenon DEF Follows
    <3>3. CASE a = b
      <4>2. u[b].last \in Span(300, 599)
        <5>1. u[b].last \in Span(300, 699) /\ ~(u[b].last >= 600)
          BY <1>0, <2>8, Zenon
        <5> QED
          BY <5>1 DEF Span
      <4> QED
        BY <2>3, <3>1, <3>3, <4>2, Zenon
    <3> QED
      BY <3>2, <3>3, Zenon
  <2>6. o.relay = None /\ o.rps = "RPS_STORE" /\ o.bm = {}
    BY <1>8 DEF IsStore
  <2>9. NewStatus(o) = c.status
    BY <1>3, <2>3, <2>6, Zenon DEF NewStatus, SameCell
  <2>10. ReplyOK(o.uac, NewStatus(o)) /\ AnswerOK(c.status, o.uac, o.cell, NewStatus(o))
    BY <2>5, <2>9, Zenon DEF ReplyOK, AnswerOK
  <2>11. o.relay \notin Branches /\ o.rps \in RelayTypes /\ o.bm \subseteq Branches
    BY <2>6, BranchNumbers DEF RelayTypes
  <2> QED
    BY <2>4, <2>6, <2>8, <2>10, <2>11, Zenon DEF Decided
<1>9. CASE o = Replied(u, e, lk, 480, bm)
  <2>1. BranchOK(u, e, lk)
    BY <1>5, Zenon DEF Follows
  <2>2. /\ Follows(u, e, lk, o.uac, o.cell, o.link) /\ o.cell.status = 480 /\ o.relay = None
        /\ o.rps = "RPS_COMPLETED" /\ o.bm = bm /\ o.cell.nr = e.nr
    BY <1>1, <1>3, <1>9, <2>1, RepliedFollows
  <2>3. Follows(u, c, lk, o.uac, o.cell, o.link)
    BY <1>1, <1>3, <1>5, <2>2, FollowsTrans
  <2>4. NewStatus(o) = 480
    BY <2>2 DEF NewStatus
  <2>5. EndedIn(o.uac, o.cell)
    <3>1. CASE AllFinal(u, c)
      <4>1. o.cell.nr = c.nr
        BY <1>3, <2>2, Zenon DEF Still
      <4> QED
        BY <3>1, <4>1, <2>3 DEF AllFinal, EndedIn, Follows
    <3>2. CASE ~AllFinal(u, c)
      <4>1. u[b].last >= 600
        BY <1>0, <3>2, Zenon
      <4>2. o.uac[b].last >= 600
        BY <1>1, <2>3, <4>1, Zenon DEF Follows
      <4> QED
        BY <4>2 DEF EndedIn
    <3> QED
      BY <3>1, <3>2
  <2>6. ReplyOK(o.uac, NewStatus(o)) /\ AnswerOK(c.status, o.uac, o.cell, NewStatus(o))
    BY <1>10, <2>4, <2>5 DEF ReplyOK, AnswerOK, Span
  <2>7. o.relay \notin Branches /\ o.rps \in RelayTypes /\ o.bm \subseteq Branches /\ NewStatus(o) >= 200
    BY <2>2, <2>4, BranchNumbers DEF RelayTypes
  <2> QED
    BY <2>2, <2>3, <2>6, <2>7, Zenon DEF Decided
<1> QED
  BY <1>2, <1>7, <1>8, <1>9

\* What one branch more changes when its request cannot be sent.
LEMMA FailedGrows ==
  ASSUME NEW u \in UacType, NEW c \in CellType, NEW lk \in LinkType, NEW b \in Branches,
         b < c.nr, NEW v, NEW d, NEW l, Grows(u, c, lk, b, v, d, l, "failed")
  PROVE  /\ d.nr = c.nr + 1 /\ v[c.nr].last = u[c.nr].last /\ c.nr \in Branches
         /\ \A a \in Branches : a # c.nr => Like(u[a], v[a])
<1>1. "failed" \in {"yes", "failed"}
  OBVIOUS
<1> DEFINE m == "failed"
<1>2. m \in {"yes", "failed"} /\ Grows(u, c, lk, b, v, d, l, m)
  BY <1>1
<1> HIDE DEF m
<1> QED
  BY <1>2, GrowsFrame

\* So it does after DNS failover.
LEMMA FailDecided ==
  ASSUME NEW u, NEW c, NEW lk, NEW b \in Branches, Negative(u, c, lk, b),
         NEW k \in Branches, Wins(u, c, b, k),
         NEW bm \in SUBSET Branches, NEW o, FailOutcome(u, c, lk, b, k, bm, o)
  PROVE  Decided(u, c, lk, b, o)
<1>1. /\ u \in UacType /\ c \in CellType /\ lk \in LinkType /\ BranchOK(u, c, lk)
      /\ b < c.nr
  BY Zenon DEF Negative
<1>2. CASE RouteOutcome(u, c, lk, b, k, bm, o)
  BY <1>2, RouteDecided
<1>3. CASE IsStore(o) /\ \E m \in {"yes", "failed"} : Grows(u, c, lk, b, o.uac, o.cell, o.link, m)
  BY <1>3, RouteDecided DEF RouteOutcome, Off
<1>4. ASSUME NEW v, NEW d, Grows(u, c, lk, b, v, d, lk, "failed"),
             RouteOutcome(v, d, lk, b, k, bm, o)
      PROVE  Decided(u, c, lk, b, o)
  <2>1. Follows(u, c, lk, v, d, lk) /\ SameCell(c, d) /\ Negative(v, d, lk, b)
    BY <1>4, GrowsFollows
  <2>2. /\ d.nr = c.nr + 1 /\ v[c.nr].last = u[c.nr].last /\ c.nr \in Branches
        /\ \A a \in Branches : a # c.nr => Like(u[a], v[a])
    BY <1>1, <1>4, FailedGrows, Zenon
  <2>3. v[c.nr].last = 0 /\ c.nr \in Nat
    <3>1. c.nr \in Nat /\ c.nr >= c.nr
      <4>1. c.nr \in Nat
        BY <2>2, BranchNumbers, Zenon
      <4> QED
        BY <4>1
    <3> QED
      BY <1>1, <2>2, <3>1, Zenon DEF BranchOK
  <2>4. AllFinal(v, d)
    BY <2>1, <1>4, Zenon DEF Negative, SameCell, Grows
  <2>5. Wins(v, d, b, k)
    <3>1. k < c.nr /\ u[k].last >= 200 /\ (k # b => u[k].reply) /\ BestIn(u, c, k)
      BY DEF Wins
    <3>2. k # c.nr /\ k < d.nr
      BY <2>2, <2>3, <3>1, BranchNumbers
    <3>3. v[k].last = u[k].last /\ v[k].round = u[k].round /\ (u[k].reply => v[k].reply)
      BY <2>2, <3>2 DEF Like
    <3>4. BestIn(v, d, k)
      <4>1. CASE u[k].last >= 600
        BY <4>1, <3>3 DEF BestIn
      <4>2. CASE ~(u[k].last >= 600)
        <5>1. /\ u[k].last >= 300
              /\ \A a \in Branches : u[a].round = u[k].round /\ u[a].last >= 300
                   => PickRank(c.cancelled, u[k].last) <= PickRank(c.cancelled, u[a].last)
          BY <3>1, <4>2, Zenon DEF BestIn
        <5>2. d.cancelled = c.cancelled
          <6>1. d \in CellType
            BY <2>1, Zenon DEF Follows
          <6> QED
            BY <1>1, <2>1, <6>1, Zenon DEF CellType, SameCell
        <5>3. \A a \in Branches : v[a].round = v[k].round /\ v[a].last >= 300
                   => PickRank(d.cancelled, v[k].last) <= PickRank(d.cancelled, v[a].last)
          <6> SUFFICES ASSUME NEW a \in Branches, v[a].round = v[k].round, v[a].last >= 300
                       PROVE  PickRank(d.cancelled, v[k].last) <= PickRank(d.cancelled, v[a].last)
            BY Zenon
          <6>1. a # c.nr
            BY <2>3
          <6>2. v[a].last = u[a].last /\ v[a].round = u[a].round
            BY <2>2, <6>1, Zenon DEF Like
          <6> QED
            BY <3>3, <5>1, <5>2, <6>2, Zenon
        <5>4. EndedIn(v, d) /\ v[k].last >= 300
          BY <2>4, <3>3, <5>1 DEF EndedIn
        <5> QED
          BY <5>3, <5>4, Zenon DEF BestIn
      <4> QED
        BY <4>1, <4>2
    <3> QED
      BY <3>1, <3>2, <3>3, <3>4 DEF Wins
  <2>6. Decided(v, d, lk, b, o)
    BY <1>4, <2>1, <2>5, RouteDecided
  <2>7. Follows(v, d, lk, o.uac, o.cell, o.link)
    BY <2>6, Zenon DEF Decided
  <2>8. Follows(u, c, lk, o.uac, o.cell, o.link)
    BY <1>1, <2>1, <2>7, FollowsTrans DEF SameCell
  <2>9. d.status = c.status
    BY <2>1 DEF SameCell
  <2> QED
    BY <2>6, <2>8, <2>9, Zenon DEF Decided
<1> QED
  BY <1>2, <1>3, <1>4 DEF FailOutcome
=============================================================================
