-------------------------- MODULE TransactionFrame --------------------------
(***************************************************************************)
(* What the steps of Transaction leave alone: the timer lists, the         *)
(* branches and the processes that a handler does not touch, so that a     *)
(* step has to be looked at only where it acts.  Then the steps of the     *)
(* timer process (timer.c): each keeps IInv.                               *)
(***************************************************************************)
EXTENDS TransactionInv, FiniteSetTheorems, WellFoundedInduction, TLAPS

\* Branches are natural numbers below MaxBranches.
LEMMA BranchNumbers ==
  /\ MaxBranches \in Nat /\ MaxBranches > 0
  /\ Branches \subseteq Nat /\ None \notin Branches /\ Local \notin Branches
  /\ \A n \in Nat : n \in Branches <=> n < MaxBranches
BY TransactionAssumption DEF Branches, None, Local

\* Status codes are natural numbers.
LEMMA CodeNumbers == \A n \in StatusCodes : n \in Nat /\ n <= 699
BY DEF StatusCodes, Span

\* The two truth values.
LEMMA Truths == TRUE \in BOOLEAN /\ FALSE \in BOOLEAN
BY Zenon

\* Timer links are distinct.
LEMMA LinkNames ==
  /\ response \in Links /\ wait_tl \in Links /\ dele_tl \in Links
  /\ \A b \in Branches : fr(b) \in Links /\ fr(b) \notin {response, wait_tl, dele_tl}
  /\ \A a, b : fr(a) = fr(b) => a = b
  /\ response # wait_tl /\ response # dele_tl /\ wait_tl # dele_tl
BY DEF Links, response, wait_tl, dele_tl, fr

\* lk2 is lk after operations that neither take the wait and delete timers
\* out of their lists nor forget a timer of a branch.
Waits(lk, lk2) ==
  /\ lk2 \in LinkType
  /\ lk2[dele_tl] = lk[dele_tl]
  /\ \/ lk2[wait_tl] = lk[wait_tl]
     \/ lk[wait_tl] = "off" /\ lk2[wait_tl] = "on"
  /\ \A b \in Branches : lk[fr(b)] # "off" => lk2[fr(b)] # "off"

\* The timers of branches that were not set stay so.
NoFr(lk, lk2) == \A b \in Branches : lk[fr(b)] = "off" => lk2[fr(b)] = "off"

\* Operations on the timer lists compose.
LEMMA WaitsTrans ==
  ASSUME NEW lk1, NEW lk2, NEW lk3, Waits(lk1, lk2), Waits(lk2, lk3)
  PROVE  Waits(lk1, lk3)
BY DEF Waits

\* So do operations that set no FR timer.
LEMMA NoFrTrans ==
  ASSUME NEW lk1, NEW lk2, NEW lk3, NoFr(lk1, lk2), NoFr(lk2, lk3)
  PROVE  NoFr(lk1, lk3)
BY DEF NoFr

\* set_timer moves the links it is given, and leaves the wait and delete
\* timers alone when they are not among them.
LEMMA SetTimerWaits ==
  ASSUME NEW lk \in LinkType, NEW S, wait_tl \notin S, dele_tl \notin S
  PROVE  /\ Waits(lk, set_timer(lk, S))
         /\ (\A b \in Branches : fr(b) \notin S) => NoFr(lk, set_timer(lk, S))
         /\ \A b \in Branches : fr(b) \notin S => set_timer(lk, S)[fr(b)] = lk[fr(b)]
BY LinkNames DEF set_timer, Waits, NoFr, LinkType, LinkStates

\* reset_timer only raises the deleted flag of links that are set.
LEMMA ResetTimerWaits ==
  ASSUME NEW lk \in LinkType, NEW S, wait_tl \notin S, dele_tl \notin S
  PROVE  Waits(lk, reset_timer(lk, S)) /\ NoFr(lk, reset_timer(lk, S))
BY LinkNames DEF reset_timer, Waits, NoFr, LinkType, LinkStates

\* put_on_wait sets the wait timer, once, and no FR timer.
LEMMA PutOnWaitWaits ==
  ASSUME NEW lk \in LinkType
  PROVE  Waits(lk, put_on_wait(lk)) /\ NoFr(lk, put_on_wait(lk))
BY LinkNames DEF put_on_wait, Waits, NoFr, LinkType, LinkStates

\* cleanup_uac_timers resets the FR timers of the branches and sets none.
LEMMA CleanupWaits ==
  ASSUME NEW lk \in LinkType, NEW c
  PROVE  Waits(lk, cleanup_uac_timers(lk, c)) /\ NoFr(lk, cleanup_uac_timers(lk, c))
<1>1. wait_tl \notin {fr(b) : b \in Round(c)} /\ dele_tl \notin {fr(b) : b \in Round(c)}
  BY DEF wait_tl, dele_tl, fr
<1> QED
  BY <1>1, ResetTimerWaits DEF cleanup_uac_timers

\* set_final_timer arms the timer of the final reply or puts the
\* cell on wait, and sets no FR timer of a branch.
LEMMA FinalTimerWaits ==
  ASSUME NEW lk \in LinkType, NEW c
  PROVE  Waits(lk, set_final_timer(lk, c)) /\ NoFr(lk, set_final_timer(lk, c))
BY LinkNames, SetTimerWaits, PutOnWaitWaits DEF set_final_timer

\* So does t_release_transaction, which resets the timers of the branches
\* first.
LEMMA ReleaseWaits ==
  ASSUME NEW lk \in LinkType, NEW c
  PROVE  Waits(lk, t_release_transaction(lk, c)) /\ NoFr(lk, t_release_transaction(lk, c))
<1> DEFINE lk1 == reset_timer(lk, {response})
           lk2 == cleanup_uac_timers(lk1, c)
<1>1. Waits(lk, lk1) /\ NoFr(lk, lk1)
  BY LinkNames, ResetTimerWaits
<1>2. lk1 \in LinkType
  BY <1>1 DEF Waits
<1> HIDE DEF lk1
<1>3. Waits(lk1, lk2) /\ NoFr(lk1, lk2)
  BY <1>2, CleanupWaits
<1>4. lk2 \in LinkType
  BY <1>3 DEF Waits
<1> HIDE DEF lk2
<1>5. Waits(lk2, put_on_wait(lk2)) /\ NoFr(lk2, put_on_wait(lk2))
  BY <1>4, PutOnWaitWaits
<1> QED
  BY <1>1, <1>3, <1>5, WaitsTrans, NoFrTrans DEF t_release_transaction, lk1, lk2

\* start_retr sets the FR timer of the one branch that was sent.
LEMMA StartRetrWaits ==
  ASSUME NEW lk \in LinkType, NEW b \in Branches
  PROVE  /\ Waits(lk, start_retr(lk, b))
         /\ \A a \in Branches : a # b => start_retr(lk, b)[fr(a)] = lk[fr(a)]
<1>1. wait_tl \notin {fr(b)} /\ dele_tl \notin {fr(b)}
  BY LinkNames
<1>2. \A a \in Branches : a # b => fr(a) \notin {fr(b)}
  BY LinkNames
<1> QED
  BY <1>1, <1>2, SetTimerWaits DEF start_retr

\* v is u with other cancel marks only, or with more replies stored.
Kept(u, v) ==
  /\ v \in UacType
  /\ \A b \in Branches :
       /\ v[b].last = u[b].last /\ v[b].buffer = u[b].buffer
       /\ v[b].sent = u[b].sent /\ v[b].round = u[b].round
       /\ u[b].reply => v[b].reply

\* Marks and stored replies accumulate.
LEMMA KeptTrans ==
  ASSUME NEW u, NEW v, NEW w, Kept(u, v), Kept(v, w)
  PROVE  Kept(u, w)
BY DEF Kept

\* No mark at all is a case of it.
LEMMA KeptRefl ==
  ASSUME NEW u \in UacType
  PROVE  Kept(u, u)
BY DEF Kept

\* What a branch is, and what the marks leave of it.
Like(r, q) ==
  /\ q \in BranchType
  /\ q.last = r.last /\ q.buffer = r.buffer /\ q.sent = r.sent /\ q.round = r.round
  /\ r.reply => q.reply

\* Every mark the cancel code and the reply code make on a branch leaves its
\* status, its buffer, its round and what was sent alone.
LEMMA MarkedLike ==
  ASSUME NEW r \in BranchType
  PROVE  /\ Like(r, r)
         /\ Like(r, [r EXCEPT !.toCancel = TRUE])
         /\ Like(r, [r EXCEPT !.reply = TRUE])
         /\ Like(r, [r EXCEPT !.cancel = "busy"])
         /\ Like(r, [r EXCEPT !.cancel = "sent"])
<1>1. Like(r, r)
  BY DEF Like
<1>4. Like(r, [r EXCEPT !.toCancel = TRUE])
  BY Zenon DEF Like, BranchType
<1>2. Like(r, [r EXCEPT !.reply = TRUE])
  BY Zenon DEF Like, BranchType
<1>3. Like(r, [r EXCEPT !.cancel = "busy"]) /\ Like(r, [r EXCEPT !.cancel = "sent"])
  BY DEF Like, BranchType
<1> QED
  BY <1>1, <1>2, <1>3, <1>4

\* What holds of every branch holds of the array t->uac.
LEMMA LikeKept ==
  ASSUME NEW u, NEW v, v = [b \in Branches |-> v[b]], \A b \in Branches : Like(u[b], v[b])
  PROVE  Kept(u, v)
BY DEF Like, Kept, UacType

\* which_cancel marks branches and changes nothing else of them.
LEMMA MarkCancelKept ==
  ASSUME NEW u \in UacType, NEW S
  PROVE  Kept(u, MarkCancel(u, S))
<1> DEFINE v == MarkCancel(u, S)
<1>1. ASSUME NEW b \in Branches PROVE Like(u[b], v[b])
  <2>1. u[b] \in BranchType
    BY DEF UacType
  <2>2. \/ v[b] = u[b] \/ v[b] = [u[b] EXCEPT !.cancel = "busy"]
        \/ v[b] = [u[b] EXCEPT !.toCancel = TRUE]
    BY DEF MarkCancel
  <2> QED
    BY <2>1, <2>2, MarkedLike, Zenon
<1>2. v = [b \in Branches |-> v[b]]
  BY DEF MarkCancel
<1> QED
  BY <1>1, <1>2, LikeKept

\* cancel_branch sends the CANCELs and changes nothing else of the branches.
LEMMA CancelBranchKept ==
  ASSUME NEW u \in UacType, NEW S
  PROVE  Kept(u, cancel_branch(u, S))
<1> DEFINE v == cancel_branch(u, S)
<1>1. ASSUME NEW b \in Branches PROVE Like(u[b], v[b])
  <2>1. u[b] \in BranchType
    BY DEF UacType
  <2>2. v[b] = u[b] \/ v[b] = [u[b] EXCEPT !.cancel = "sent"]
    BY DEF cancel_branch
  <2> QED
    BY <2>1, <2>2, MarkedLike, Zenon
<1>2. v = [b \in Branches |-> v[b]]
  BY DEF cancel_branch
<1> QED
  BY <1>1, <1>2, LikeKept

\* A non-empty set of natural numbers has a least element.
LEMMA LeastNat ==
  ASSUME NEW T \in SUBSET Nat, T # {}
  PROVE  \E n \in T : \A m \in T : n <= m
<1>1. PICK x \in T : \A y \in T : ~(<<y, x>> \in OpToRel(<, Nat))
  BY NatLessThanWellFounded, WFMin, Zenon
<1>2. \A y \in T : ~(y < x)
  BY <1>1, Zenon DEF OpToRel
<1> QED
  BY <1>2

\* The lowest branch of a set is one of the set: the order in which the
\* request process walks its branches.
LEMMA MinOf ==
  ASSUME NEW S \in SUBSET Branches, S # {}
  PROVE  Min(S) \in S
<1>1. S \subseteq Nat
  BY BranchNumbers
<1>2. PICK m \in S : \A n \in S : m <= n
  BY <1>1, LeastNat
<1> QED
  BY <1>2 DEF Min

\* Every branch has a final reply or could not be sent.
AllFinal(u, c) == \A a \in Branches : a < c.nr => u[a].last >= 200 \/ u[a].sent = "failed"

\* No result is awaited any more: all branches are final, or a 6xx or a
\* CANCEL came.
EndedIn(u, c) == AllFinal(u, c) \/ c.cancelled \/ \E a \in Branches : u[a].last >= 600

\* The order in which t_pick_branch prefers codes.
PickRank(cancelled, code) ==
  IF cancelled /\ code = 487 THEN 0 ELSE IF code = 503 THEN 1000 ELSE code

\* Branch k may be relayed: a 6xx, or the best of its round.
BestIn(u, c, k) ==
  \/ u[k].last >= 600
  \/ /\ EndedIn(u, c) /\ u[k].last >= 300
     /\ \A a \in Branches : u[a].round = u[k].round /\ u[a].last >= 300
          => PickRank(c.cancelled, u[k].last) <= PickRank(c.cancelled, u[a].last)

\* What may be said upstream, when s was said before.
AnswerOK(s, u, c, s2) ==
  \/ s2 = s
  \/ s < 200 /\ s2 \in Span(100, 199)
  \/ s < 200 /\ EndedIn(u, c) /\ s2 \in Span(400, 599)
  \/ \E k \in Branches :
       /\ s2 = u[k].last
       /\ \/ s < 200 /\ BestIn(u, c, k)
          \/ (s < 200 \/ kind.invite) /\ s2 \in Span(200, 299)

\* v, d, l come from u, c, lk: the branches that were there keep what they
\* have sent, been answered and stored, and their timers stay unset.
Follows(u, c, lk, v, d, l) ==
  /\ v \in UacType /\ d \in CellType /\ l \in LinkType
  /\ BranchOK(v, d, l) /\ Waits(lk, l)
  /\ d.life = c.life /\ d.ref = c.ref /\ (d.cancelled <=> c.cancelled)
  /\ (d.kr <=> c.kr)
  /\ c.nr <= d.nr /\ (c.nr # d.nr => ~c.cancelled /\ ~c.noNew)
  /\ \A a \in Branches :
       /\ u[a].reply => v[a].reply
       /\ a < c.nr => /\ v[a].sent = u[a].sent /\ v[a].last = u[a].last
                      /\ v[a].round = u[a].round
                      /\ lk[fr(a)] = "off" => l[fr(a)] = "off"
       /\ a >= c.nr => v[a].last = 0

\* The branches with the reply on b counted in.
Coded(u, b, code) == Set(u, b, [u[b] EXCEPT !.last = code])

IsCoded(u, b, code, v) ==
  /\ v \in UacType /\ v[b].last = code
  /\ \A a \in Branches : /\ a # b => v[a] = u[a]
                         /\ v[a].buffer = u[a].buffer /\ v[a].sent = u[a].sent
                         /\ v[a].round = u[a].round /\ v[a].reply = u[a].reply

\* Counting a reply in changes last_received of its branch only.
LEMMA CodedBranches ==
  ASSUME NEW u \in UacType, NEW b \in Branches, NEW code \in StatusCodes
  PROVE  IsCoded(u, b, code, Coded(u, b, code))
<1> DEFINE v == Coded(u, b, code)
           r == [u[b] EXCEPT !.last = code]
<1>1. u[b] \in BranchType
  BY DEF UacType
<1>2. r \in BranchType /\ r.last = code
  BY <1>1 DEF BranchType
<1>3. r.buffer = u[b].buffer /\ r.sent = u[b].sent /\ r.round = u[b].round /\ r.reply = u[b].reply
  BY <1>1 DEF BranchType
<1>4. v = [a \in Branches |-> IF a = b THEN r ELSE u[a]]
  BY DEF Coded, Set
<1> HIDE DEF r
<1>5. v \in UacType
  BY <1>2, <1>4 DEF UacType
<1>6. v[b] = r /\ \A a \in Branches : a # b => v[a] = u[a]
  BY <1>4
<1> HIDE DEF v
<1>7. \A a \in Branches : /\ v[a].buffer = u[a].buffer /\ v[a].sent = u[a].sent
                          /\ v[a].round = u[a].round /\ v[a].reply = u[a].reply
  BY <1>3, <1>6
<1> QED
  BY <1>2, <1>5, <1>6, <1>7 DEF v, IsCoded

\* The branches a decision starts from: the reply on b was counted in, or not.
Counted(u, b, code, w) ==
  \/ w = u
  \/ /\ w = Coded(u, b, code)
     /\ u[b].last < 200 \/ (kind.invite /\ code \in Span(200, 299))

IsReply(code) == code >= 100

\* Step of process p: the others stay where they are.
Others(p) == \A q \in Procs : q # p => proc'[q] = proc[q]

\* What no step takes back, and no step of a process on the cell.
Grown ==
  /\ cell.nr <= cell'.nr /\ (cell.cancelled => cell'.cancelled)
  /\ \A b \in Branches : /\ uac[b].sent = "yes" => uac'[b].sent = "yes"
                         /\ uac[b].reply => uac'[b].reply

Held == cell'.life = cell.life /\ Waits(link, link') /\ Grown

\* What only the process that forks the request changes.
Calm ==
  /\ cell.kr => cell'.kr
  /\ \A b \in Branches : b < cell.nr => uac'[b].sent = uac[b].sent
  /\ Quiet => Quiet' /\ cell'.nr = cell.nr
  /\ cell.nr = 0 => cell'.nr = 0

\* The timer process is no worker.
LEMMA ProcNames == Timer \in Procs /\ Timer \notin Workers /\ Workers \subseteq Procs
BY TransactionAssumption DEF Procs, Timer

\* The cell's counters.
LEMMA CellNumbers ==
  ASSUME cell \in CellType
  PROVE  cell.nr \in Nat /\ cell.nr <= MaxBranches /\ cell.first \in Nat /\ cell.ref \in Nat
BY BranchNumbers DEF CellType

\* A cell with more branches, or cancelled.
LEMMA AtKept ==
  ASSUME NEW r, NEW c, NEW d, At(r, c), c.nr \in Nat, d.nr \in Nat, c.nr <= d.nr,
         c.cancelled => d.cancelled
  PROVE  At(r, d)
<1>1. Added(c) \subseteq Added(d)
  BY DEF Added
<1> QED
  BY <1>1, Zenon DEF At

\* A worker that does not move stays well placed while branches are added
\* and a CANCEL comes in.
LEMMA OthersWorker ==
  ASSUME TypeOK, TypeOK', NEW q \in Workers, WorkerOK(q), proc'[q] = proc[q], Grown
  PROVE  WorkerOK(q)'
<1>1. cell.nr \in Nat /\ cell'.nr \in Nat /\ cell.nr <= cell'.nr /\ (cell.cancelled => cell'.cancelled)
  BY BranchNumbers DEF TypeOK, CellType, Grown
<1>2. At(proc[q], cell')
  BY <1>1, AtKept DEF WorkerOK
<1> QED
  BY <1>2 DEF WorkerOK

\* It also still knows what it knew of the branches, when it forks the
\* request only if the step is calm.
LEMMA OthersRequest ==
  ASSUME TypeOK, TypeOK', NEW q \in Workers, WorkerOK(q), RequestOK(q), proc'[q] = proc[q], Grown,
         proc[q].pc \in RequestPcs => Calm
  PROVE  RequestOK(q)'
<1>1. cell.nr \in Nat /\ cell'.nr \in Nat /\ cell.nr <= cell'.nr /\ Branches \subseteq Nat
  BY BranchNumbers DEF TypeOK, CellType, Grown
<1>2. ASSUME Proc(q, "reply") \/ (Proc(q, "unlocked") /\ proc[q].op = "reply") \/ Proc(q, "retr")
      PROVE  uac'[proc[q].b].sent = "yes"
  <2>1. proc[q].b \in Branches
    BY <1>1, <1>2, BranchNumbers DEF WorkerOK, At, Added, Proc, TypeOK, CellType
  <2> QED
    BY <1>2, <2>1 DEF RequestOK, Grown
<1>3. CASE proc[q].pc \notin RequestPcs
  <2>1. proc[q].pc \notin {"fwd", "add", "send", "kill", "retr"}
    BY <1>3 DEF RequestPcs
  <2> QED
    BY <1>2, <2>1 DEF RequestOK, Proc
<1>4. CASE proc[q].pc \in RequestPcs
  <2>1. /\ cell.kr => cell'.kr
        /\ \A b \in Branches : b < cell.nr => uac'[b].sent = uac[b].sent
        /\ Quiet => Quiet' /\ cell'.nr = cell.nr
        /\ cell.nr = 0 => cell'.nr = 0
        /\ cell.cancelled => cell'.cancelled
    BY <1>4 DEF Calm, Grown
  <2>2. ASSUME proc[q].pc \in {"fwd", "add", "kill"} \/ (Proc(q, "send") /\ ~cell'.kr)
        PROVE  Quiet /\ Quiet' /\ cell'.nr = cell.nr
    BY <2>1, <2>2 DEF RequestOK
  <2>3. ASSUME Proc(q, "add") \/ (Proc(q, "send") /\ ~cell'.kr)
        PROVE  \A b \in Branches : b < cell'.nr => b \in proc[q].todo \/ uac'[b].sent = "failed"
    <3>1. cell'.nr = cell.nr
      BY <2>2, <2>3 DEF Proc
    <3> QED
      BY <2>1, <2>3, <3>1 DEF RequestOK
  <2>4. ASSUME Proc(q, "kill")
        PROVE  cell'.cancelled \/ \A b \in Branches : b < cell'.nr => uac'[b].sent = "failed"
    <3>1. cell'.nr = cell.nr
      BY <2>2, <2>4 DEF Proc
    <3> QED
      BY <2>1, <2>4, <3>1 DEF RequestOK
  <2>5. ASSUME proc[q].pc \in {"add", "send", "retr"}, NEW b \in proc[q].todo
        PROVE  uac'[b].sent = "no"
    <3>1. b \in 0..(cell.nr - 1)
      BY DEF WorkerOK, At, Added
    <3>2. b \in Branches /\ b < cell.nr
      BY <1>1, <3>1, BranchNumbers DEF TypeOK, CellType
    <3> QED
      BY <2>1, <2>5, <3>2 DEF RequestOK
  <2>6. Proc(q, "fwd") => cell'.nr = 0
    BY <2>1 DEF RequestOK
  <2> QED
    BY <1>2, <2>2, <2>3, <2>4, <2>5, <2>6 DEF RequestOK, Proc
<1> QED
  BY <1>3, <1>4

\* A reply that a process is about to relay stays stored.
LEMMA OthersWinner ==
  ASSUME TypeOK, NEW q \in Procs, proc'[q] = proc[q], Grown,
         Proc(q, "unlocked") /\ proc[q].relay \notin {None, proc[q].b} => uac[proc[q].relay].reply
  PROVE  Proc(q, "unlocked")' /\ proc'[q].relay \notin {None, proc'[q].b} => uac'[proc'[q].relay].reply
<1>1. proc[q].relay \in {None} \cup Branches
  BY DEF TypeOK, ProcType
<1> QED
  BY <1>1 DEF Grown, Proc

\* The links of the timer process stay in a list or detached while the
\* workers move.
LEMMA TimerKept ==
  ASSUME TypeOK, TypeOK', TimerInv, proc'[Timer] = proc[Timer], Held
  PROVE  TimerInv'
<1>1. cell.nr \in Nat /\ cell'.nr \in Nat /\ cell.nr <= cell'.nr
  BY BranchNumbers DEF TypeOK, CellType, Held, Grown
<1>2. \A n : n \in 0..(cell.nr - 1) => n \in 0..(cell'.nr - 1)
  BY <1>1
<1>3. \A b \in Branches : link[fr(b)] # "off" => link'[fr(b)] # "off"
  BY DEF Held, Waits
<1>4. proc[Timer].todo \subseteq Branches
  BY ProcNames DEF TypeOK, ProcType
<1>5. Proc(Timer, "frlock") => proc[Timer].b \in Branches
  BY <1>1, BranchNumbers DEF TimerInv, Proc, TypeOK, CellType
<1> QED
  BY <1>2, <1>3, <1>4, <1>5 DEF TimerInv, Proc

\* The process p comes to the cell, is on it, or leaves it.
Enters(p) == /\ Proc(p, "idle") /\ ~Proc(p, "idle")' /\ cell.life = "hashed"
             /\ cell'.ref = cell.ref + 1
Stays(p)  == ~Proc(p, "idle") /\ ~Proc(p, "idle")' /\ cell'.ref = cell.ref

Leaves(p) == ~Proc(p, "idle") /\ Proc(p, "idle")' /\ cell'.ref = cell.ref - 1

\* The step of a worker keeps the count of references exact and the cell where
\* it is: it takes a reference when it comes, and drops it when it leaves.
LEMMA LifeKept ==
  ASSUME TypeOK, TypeOK', LifeInv, NEW p \in Workers, Others(p), Held,
         Enters(p) \/ Stays(p) \/ Leaves(p)
  PROVE  LifeInv'
<1>0. p \in Procs /\ p # Timer /\ IsFiniteSet(Workers) /\ proc'[Timer] = proc[Timer]
  BY ProcNames, TransactionAssumption DEF Others
<1>1. IsFiniteSet(Busy)
  BY <1>0, FS_Subset DEF Busy
<1>2. \A q \in Workers : q # p => (Proc(q, "idle")' <=> Proc(q, "idle"))
  BY ProcNames DEF Others, Proc
<1>3. cell'.ref = Cardinality(Busy') /\ cell.life # "none" /\ cell'.life # "freed"
  <2>1. CASE Enters(p)
    <3>1. p \notin Busy /\ Busy' = Busy \cup {p}
      BY <1>2, <2>1 DEF Busy, Enters
    <3>2. Cardinality(Busy') = Cardinality(Busy) + 1
      BY <1>1, <3>1, FS_AddElement, Zenon
    <3> QED
      BY <2>1, <3>2 DEF Enters, LifeInv, Held
  <2>2. CASE Stays(p)
    <3>1. p \in Busy /\ Busy' = Busy
      BY <1>2, <2>2 DEF Busy, Stays
    <3> QED
      BY <2>2, <3>1 DEF Stays, LifeInv, Held
  <2>3. CASE Leaves(p)
    <3>1. p \in Busy /\ Busy' = Busy \ {p}
      BY <1>2, <2>3 DEF Busy, Leaves
    <3>2. Cardinality(Busy') = Cardinality(Busy) - 1
      BY <1>1, <3>1, FS_RemoveElement
    <3> QED
      BY <2>3, <3>1, <3>2 DEF Leaves, LifeInv, Held
  <2> QED
    BY <2>1, <2>2, <2>3
<1>4. /\ link'[dele_tl] = link[dele_tl] /\ cell'.life = cell.life
      /\ link'[wait_tl] = link[wait_tl] \/ (link[wait_tl] = "off" /\ link'[wait_tl] = "on")
  BY DEF Held, Waits
<1>5. \A x : Proc(Timer, x)' <=> Proc(Timer, x)
  BY <1>0 DEF Proc
<1> QED
  BY <1>3, <1>4, <1>5 DEF LifeInv

\* What is relayed by a process that is past the lock.
WinnerOK(p) ==
  Proc(p, "unlocked") /\ proc[p].relay \notin {None, proc[p].b} => uac[proc[p].relay].reply

\* No FR timer is set but for a branch that was sent.
Tame ==
  /\ Waits(link, link')
  /\ \A b \in Branches : link[fr(b)] = "off" =>
       link'[fr(b)] = "off" \/ (b < cell.nr /\ uac[b].sent = "yes")

\* The cell keeps its branches and its life.
Ahead(c, d) ==
  /\ d \in CellType /\ d.first = c.first /\ d.nr = c.nr /\ d.life = c.life
  /\ (c.cancelled => d.cancelled) /\ (c.kr => d.kr) /\ (d.noNew => c.noNew)
  /\ d.status = c.status \/ d.status >= 200

\* A step that only marks branches and sets timers of sent branches disturbs
\* no branch, no round and no stored reply.
LEMMA KeptStep ==
  ASSUME IInv, Kept(uac, uac'), Tame, Ahead(cell, cell')
  PROVE  Held /\ Calm /\ BranchInv' /\ ReplyInv'
<1>1. /\ cell \in CellType /\ cell' \in CellType /\ cell'.first = cell.first /\ cell'.nr = cell.nr
      /\ cell'.life = cell.life
  BY DEF IInv, TypeOK, Ahead
<1>2. cell.nr \in Nat
  BY <1>1, CellNumbers
<1>3. \A b \in Branches : /\ uac'[b].last = uac[b].last /\ uac'[b].buffer = uac[b].buffer
                          /\ uac'[b].sent = uac[b].sent /\ uac'[b].round = uac[b].round
  BY DEF Kept
<1>4. \A b \in Branches : uac[b].reply => uac'[b].reply
  BY DEF Kept
<1>5. Held
  BY <1>1, <1>2, <1>3, <1>4 DEF Held, Grown, Ahead, Tame
<1>6. Quiet => Quiet'
  BY <1>3 DEF Quiet, Tame
<1>7. Calm
  BY <1>1, <1>3, <1>6 DEF Calm, Ahead
<1>8. \A b \in Branches : b >= cell.nr /\ link[fr(b)] = "off" => link'[fr(b)] = "off"
  BY <1>2, BranchNumbers DEF Tame
<1>9. BranchOK(uac, cell, link)
  BY DEF IInv, BranchInv
<1>10. BranchOK(uac', cell', link')
  BY <1>1, <1>3, <1>8, <1>9 DEF BranchOK
<1>11. ReplyOK(uac', cell'.status)
  <2>3. ReplyOK(uac, cell.status)
    BY DEF IInv, ReplyInv
  <2>1. CASE cell'.status = cell.status
    BY <2>1, <2>3, <1>3, <1>4 DEF ReplyOK
  <2>2. CASE cell'.status >= 200
    <3>1. cell'.status \in Nat
      BY <1>1, CodeNumbers DEF CellType
    <3> QED
      BY <2>2, <3>1 DEF ReplyOK
  <2> QED
    BY <2>1, <2>2 DEF Ahead
<1>12. cell'.noNew => cell'.status >= 200
  <2>1. cell'.noNew => cell.noNew
    BY DEF Ahead
  <2>2. cell.noNew => cell.status >= 200
    BY DEF IInv, ReplyInv
  <2>3. cell'.status = cell.status \/ cell'.status >= 200
    BY DEF Ahead
  <2> QED
    BY <2>1, <2>2, <2>3, Zenon
<1> QED
  BY <1>5, <1>7, <1>10, <1>11, <1>12 DEF BranchInv, ReplyInv

\* A process without work is well-formed.
LEMMA IdleType == Idle \in ProcType
BY DEF Idle, ProcType, Pcs, Ops, None, RelayTypes

\* It is well placed, has nothing to relay and forks no request.
LEMMA IdleOK ==
  ASSUME NEW p \in Workers, proc'[p] = Idle
  PROVE  WorkerOK(p)' /\ RequestOK(p)' /\ WinnerOK(p)' /\ Proc(p, "idle")' /\ proc'[p].pc \notin RequestPcs
<1>1. /\ Idle.pc = "idle" /\ Idle.op = "none" /\ Idle.todo = {}
  BY DEF Idle
<1>2. At(Idle, cell')
  BY <1>1 DEF At, TimerPcs, CancelPcs
<1> QED
  BY <1>1, <1>2 DEF WorkerOK, RequestOK, WinnerOK, Proc, RequestPcs

\* What a step that leaves a variable alone owes for it.
LEMMA Unmoved ==
  ASSUME TypeOK
  PROVE  /\ uac' = uac => Kept(uac, uac')
         /\ link' = link => Tame
         /\ Waits(link, link') /\ NoFr(link, link') => Tame
         /\ Ahead(cell, cell) /\ cell \in CellType
BY KeptRefl DEF TypeOK, Tame, Waits, NoFr, Ahead

\* Noting the reply that goes out changes the cell in nothing else.
LEMMA OutAhead ==
  ASSUME NEW c \in CellType, NEW n \in Int, NEW d, d = [c EXCEPT !.out = n]
  PROVE  d \in CellType /\ Ahead(c, d) /\ d.ref = c.ref
<1>1. /\ d \in CellType /\ d.ref = c.ref
      /\ d.first = c.first /\ d.nr = c.nr /\ d.life = c.life /\ d.status = c.status
  BY DEF CellType
<1>2. d.cancelled = c.cancelled /\ d.kr = c.kr /\ d.noNew = c.noNew
  BY DEF CellType
<1> QED
  BY <1>1, <1>2, Zenon DEF Ahead

\* So does sending a reply upstream.
LEMMA SentAhead ==
  ASSUME TypeOK, NEW p \in Procs
  PROVE  Sent(p) \in CellType /\ Ahead(cell, Sent(p)) /\ Sent(p).ref = cell.ref
<1>1. cell \in CellType /\ proc[p].code \in Int
  BY DEF TypeOK, ProcType
<1>2. Ahead(cell, cell)
  BY Unmoved
<1>3. Sent(p) = cell \/ Sent(p) = [cell EXCEPT !.out = proc[p].code]
  BY DEF Sent
<1> QED
  BY <1>1, <1>2, <1>3, OutAhead

\* The timer armed after a final reply is no FR timer of a branch.
LEMMA FinalTimerTame ==
  ASSUME link \in LinkType, NEW p
  PROVE  Waits(link, FinalTimer(p)) /\ NoFr(link, FinalTimer(p))
BY FinalTimerWaits DEF FinalTimer, Waits, NoFr

\* The process p changes to r.
LEMMA ProcMove ==
  ASSUME TypeOK, NEW p \in Procs, NEW r \in ProcType, proc' = [proc EXCEPT ![p] = r]
  PROVE  proc' \in [Procs -> ProcType] /\ proc'[p] = r /\ Others(p)
BY DEF TypeOK, Others

\* What is known before the step of a worker.
LEMMA Now ==
  ASSUME IInv, NEW p \in Workers
  PROVE  /\ TypeOK /\ p \in Procs /\ proc[p] \in ProcType /\ cell \in CellType
         /\ uac \in UacType /\ link \in LinkType /\ WorkerOK(p) /\ RequestOK(p)
         /\ cell.nr \in Nat /\ cell.nr <= MaxBranches /\ cell.first \in Nat
BY ProcNames, CellNumbers DEF IInv, TypeOK, WorkerInv, RequestInv

\* Where the process p is once it has decided on a reply to b.
Out(p, b, r) ==
  /\ r \in ProcType /\ proc' = [proc EXCEPT ![p] = r] /\ r.pc = "unlocked"
  /\ r.op = proc[p].op /\ r.b = proc[p].b /\ r.todo = proc[p].todo
  /\ r.relay \in {None, b} \/ uac'[r.relay].reply

\* Everything a decision does: the reply on b is counted in or not, which
\* gives w, and what comes of it is said upstream.
Outcomes(u, b, code, w) ==
  /\ Counted(u, b, code, w)
  /\ Follows(w, cell, link, uac', cell', link')
  /\ ReplyInv'
  /\ AnswerOK(cell.status, uac', cell', cell'.status)
  /\ cell'.nr = cell.nr \/ (w = Coded(u, b, code) /\ u[b].last < 200 /\ code >= 200)

Carried(p, u, b, code) == \E w, r : Outcomes(u, b, code, w) /\ Out(p, b, r)

\* A reply to b is decided on, by a process or by the timer.
LEMMA DecideStep ==
  ASSUME IInv, NEW p \in Procs, NEW u, Kept(uac, u), NEW b \in Branches, b < cell.nr,
         NEW code \in StatusCodes, Carried(p, u, b, code), kind' = kind, Quiet => cell.cancelled
  PROVE  /\ TypeOK' /\ Held /\ Calm /\ BranchInv' /\ ReplyInv' /\ cell'.ref = cell.ref
         /\ \E r : Out(p, b, r)
<1>1. /\ TypeOK /\ cell \in CellType /\ uac \in UacType /\ BranchOK(uac, cell, link)
  BY DEF IInv, TypeOK, BranchInv
<1>2. PICK w, r : Outcomes(u, b, code, w) /\ Out(p, b, r)
  BY DEF Carried
<1>3. Follows(w, cell, link, uac', cell', link') /\ ReplyInv' /\ Counted(u, b, code, w)
  BY <1>2 DEF Outcomes
<1>4. \A a \in Branches : w[a].sent = uac[a].sent /\ (uac[a].reply => w[a].reply)
  <2>1. \A a \in Branches : u[a].sent = uac[a].sent /\ (uac[a].reply => u[a].reply)
    BY DEF Kept
  <2>2. CASE w = u
    BY <2>1, <2>2
  <2>3. CASE w = Coded(u, b, code)
    <3>1. IsCoded(u, b, code, w)
      BY <2>3, CodedBranches DEF Kept
    <3> QED
      BY <2>1, <3>1 DEF IsCoded
  <2> QED
    BY <1>3, <2>2, <2>3 DEF Counted
<1>5. /\ uac' \in UacType /\ cell' \in CellType /\ link' \in LinkType /\ BranchOK(uac', cell', link')
      /\ Waits(link, link') /\ cell'.life = cell.life /\ cell'.ref = cell.ref
      /\ (cell'.cancelled <=> cell.cancelled) /\ (cell'.kr <=> cell.kr)
      /\ cell.nr <= cell'.nr /\ (cell.nr # cell'.nr => ~cell.cancelled)
      /\ \A a \in Branches : /\ w[a].reply => uac'[a].reply
                             /\ a < cell.nr => /\ uac'[a].sent = w[a].sent
                                               /\ link[fr(a)] = "off" => link'[fr(a)] = "off"
  BY <1>3 DEF Follows
<1>6. cell.nr \in Nat /\ cell'.nr \in Nat /\ cell.nr # 0 /\ b \in Nat
  <2>1. cell.nr \in Nat /\ cell'.nr \in Nat
    BY <1>1, <1>5, BranchNumbers DEF CellType
  <2> QED
    BY <2>1, BranchNumbers
<1>7. \A a \in Branches : a < cell.nr \/ a >= cell.nr
  BY <1>6, BranchNumbers
<1>8. \A a \in Branches : uac[a].sent = "yes" => uac'[a].sent = "yes"
  <2>1. \A a \in Branches : a >= cell.nr => uac[a].sent = "no"
    BY <1>1 DEF BranchOK
  <2> QED
    BY <1>4, <1>5, <1>7, <2>1
<1>9. Held
  BY <1>4, <1>5, <1>8 DEF Held, Grown
<1>10. Quiet => Quiet' /\ cell'.nr = cell.nr
  <2> SUFFICES ASSUME Quiet PROVE Quiet' /\ cell'.nr = cell.nr
    OBVIOUS
  <2>1. cell'.nr = cell.nr
    BY <1>5
  <2>2. \A a \in Branches : a >= cell.nr => uac'[a].sent = "no" /\ link'[fr(a)] = "off"
    BY <1>5, <2>1 DEF BranchOK
  <2> QED
    BY <1>4, <1>5, <1>7, <2>1, <2>2 DEF Quiet
<1>11. Calm
  BY <1>4, <1>5, <1>6, <1>10 DEF Calm
<1>12. TypeOK'
  <2>1. proc' \in [Procs -> ProcType]
    BY <1>1, <1>2, ProcMove, Zenon DEF Out
  <2> QED
    BY <1>1, <1>5, <2>1 DEF TypeOK
<1> QED
  BY <1>2, <1>3, <1>5, <1>9, <1>11, <1>12 DEF BranchInv

\* The scan of cancel_invite leaves of a branch all but its cancel marks.
LEMMA MarkedKept ==
  ASSUME IInv, NEW p \in Workers, CancelMark(p)
  PROVE  Kept(uac, uac') /\ proc[p].b \in Branches /\ proc[p].b \in Nat /\ proc[p].op = "cancel"
<1>1. uac \in UacType /\ WorkerOK(p) /\ cell.nr \in Nat /\ cell.nr <= MaxBranches
  BY Now
<1>2. Proc(p, "mark")
  BY DEF CancelMark
<1> DEFINE b == proc[p].b
           c == IF Provisional(proc[p].seen) THEN "busy" ELSE uac[b].cancel
           t == uac[b].toCancel \/ proc[p].seen = 0
           q == [uac[b] EXCEPT !.cancel = c, !.toCancel = t]
<1>4. b \in Branches /\ b \in Nat /\ proc[p].op = "cancel"
  <2>1. b \in Added(cell) /\ proc[p].op = "cancel"
    BY <1>1, <1>2 DEF WorkerOK, At, Proc, CancelPcs
  <2> QED
    BY <1>1, <2>1, BranchNumbers DEF Added
<1>3. uac' = [uac EXCEPT ![b] = q]
  BY <1>1, <1>4, Zenon DEF CancelMark, UacType
<1>5. Like(uac[b], q)
  <2>1. uac[b] \in BranchType
    BY <1>1, <1>4 DEF UacType
  <2>2. c \in {"null", "busy", "sent"}
    BY <2>1 DEF BranchType
  <2>3. t \in BOOLEAN
    BY <2>1 DEF BranchType
  <2> HIDE DEF c, t
  <2>4. q \in BranchType
    BY <2>1, <2>2, <2>3, Zenon DEF BranchType
  <2>5. q.last = uac[b].last /\ q.sent = uac[b].sent /\ q.round = uac[b].round
    BY <2>1 DEF BranchType
  <2>6. q.buffer = uac[b].buffer /\ q.reply = uac[b].reply
    BY <2>1 DEF BranchType
  <2> HIDE DEF q
  <2> QED
    BY <2>4, <2>5, <2>6, Zenon DEF Like
<1> HIDE DEF q
<1>7. Kept(uac, uac')
  <2>1. \A a \in Branches : uac'[a] = IF a = b THEN q ELSE uac[a]
    BY <1>1, <1>3 DEF UacType
  <2>2. \A a \in Branches : Like(uac[a], uac[a])
    BY <1>1, MarkedLike, Zenon DEF UacType
  <2>3. \A a \in Branches : Like(uac[a], uac'[a])
    BY <1>5, <2>1, <2>2
  <2>4. uac' = [a \in Branches |-> uac'[a]]
    BY <1>1, <1>3, Zenon DEF UacType
  <2> QED
    BY <2>3, <2>4, LikeKept
<1> QED
  BY <1>4, <1>7

\* reply_received decides on branches that differ in their marks only.
LEMMA ReplyDecides ==
  ASSUME IInv, NEW p \in Workers, LockReply(p)
  PROVE  /\ Proc(p, "reply") /\ kind' = kind
         /\ proc[p].code \in StatusCodes /\ IsReply(proc[p].code)
         /\ \E u : Kept(uac, u) /\ Decide(p, u, proc[p].b, proc[p].code, {})
<1>1. /\ uac \in UacType /\ WorkerOK(p) /\ cell.nr \in Nat /\ cell.nr <= MaxBranches
  BY Now
<1> DEFINE b == proc[p].b
           code == proc[p].code
           v == [uac EXCEPT ![b].hasRecv = TRUE, ![b].toCancel = FALSE]
           u == IF uac[b].toCancel /\ code < 200 THEN cancel_branch(v, {b}) ELSE v
<1>2. Proc(p, "reply") /\ Decide(p, u, b, code, {}) /\ kind' = kind
  BY DEF LockReply
<1>3. b \in Branches /\ code \in ReplyCodes
  <2>1. b \in Added(cell) /\ code \in ReplyCodes
    BY <1>1, <1>2 DEF WorkerOK, At, Proc
  <2> QED
    BY <1>1, <2>1, BranchNumbers DEF Added
<1>4. code \in StatusCodes /\ IsReply(code)
  <2>1. \A n \in ReplyCodes : n \in StatusCodes /\ IsReply(n)
    BY DEF ReplyCodes, StatusCodes, IsReply, Span
  <2> QED
    BY <1>3, <2>1
<1> DEFINE q == [uac[b] EXCEPT !.hasRecv = TRUE, !.toCancel = FALSE]
<1>5. Like(uac[b], q)
  <2>1. uac[b] \in BranchType
    BY <1>1, <1>3 DEF UacType
  <2>2. \A x, y \in BOOLEAN : [uac[b] EXCEPT !.hasRecv = x, !.toCancel = y] \in BranchType
    BY <2>1, Zenon DEF BranchType
  <2>3. q \in BranchType
    BY <2>2, Truths, Zenon
  <2>4. q.last = uac[b].last /\ q.sent = uac[b].sent /\ q.round = uac[b].round
    BY <2>1 DEF BranchType
  <2>5. q.buffer = uac[b].buffer /\ q.reply = uac[b].reply
    BY <2>1 DEF BranchType
  <2> HIDE DEF q
  <2> QED
    BY <2>3, <2>4, <2>5, Zenon DEF Like
<1>6. v = [uac EXCEPT ![b] = q]
  BY <1>1, <1>3, Zenon DEF UacType
<1> HIDE DEF q, v
<1>7. Kept(uac, v)
  <2>1. \A a \in Branches : v[a] = IF a = b THEN q ELSE uac[a]
    BY <1>1, <1>6 DEF UacType
  <2>2. \A a \in Branches : Like(uac[a], uac[a])
    BY <1>1, MarkedLike, Zenon DEF UacType
  <2>3. \A a \in Branches : Like(uac[a], v[a])
    BY <1>5, <2>1, <2>2
  <2>4. v = [a \in Branches |-> v[a]]
    BY <1>1, <1>6, Zenon DEF UacType
  <2> QED
    BY <2>3, <2>4, LikeKept
<1>8. Kept(uac, u)
  <2>1. v \in UacType
    BY <1>7 DEF Kept
  <2>2. Kept(v, cancel_branch(v, {b}))
    BY <2>1, CancelBranchKept
  <2> QED
    BY <1>7, <2>2, KeptTrans
<1> HIDE DEF u
<1> QED
  BY <1>2, <1>4, <1>8

\* So does final_response_handler, on a branch whose timer has fired.
LEMMA TimerDecides ==
  ASSUME IInv, final_response_handler
  PROVE  /\ Proc(Timer, "frlock") /\ kind' = kind /\ proc[Timer].op = "fr"
         /\ proc[Timer].b \in 0..(cell.nr - 1) /\ proc[Timer].b \in Branches
         /\ proc[Timer].b < cell.nr /\ 408 \in StatusCodes /\ IsReply(408)
         /\ Quiet => cell.cancelled
         /\ \E u, found : /\ Kept(uac, u) /\ found \in SUBSET Branches
                          /\ Decide(Timer, u, proc[Timer].b, 408, found)
<1>1. TimerInv /\ uac \in UacType /\ cell.nr \in Nat /\ cell.nr <= MaxBranches
  BY CellNumbers DEF IInv, TypeOK
<1> DEFINE b == proc[Timer].b
           cb == IF kind.invite /\ should_cancel_branch(uac, b) THEN {b} ELSE {}
           u == IF kind.invite THEN MarkCancel(uac, {b}) ELSE uac
<1>2. Proc(Timer, "frlock") /\ Decide(Timer, u, b, 408, cb) /\ kind' = kind
  BY DEF final_response_handler
<1>3. b \in 0..(cell.nr - 1) /\ link[fr(b)] # "off" /\ proc[Timer].op = "fr"
  BY <1>1, <1>2 DEF TimerInv, Proc
<1>4. b \in Branches /\ b < cell.nr
  BY <1>1, <1>3, BranchNumbers
<1>5. Kept(uac, u) /\ cb \in SUBSET Branches
  BY <1>1, <1>4, MarkCancelKept, KeptRefl
<1>6. 408 \in StatusCodes /\ IsReply(408)
  BY DEF StatusCodes, IsReply, Span
<1>7. ~Quiet
  BY <1>3, <1>4 DEF Quiet
<1> HIDE DEF u, cb
<1> QED
  BY <1>2, <1>3, <1>4, <1>5, <1>6, <1>7

-----------------------------------------------------------------------------
(* The steps of the timer process. *)

\* A step of the timer process, or of none, keeps the invariant if it keeps
\* what concerns the cell, the branches and the timers.
LEMMA TimerMove ==
  ASSUME IInv, TypeOK', Others(Timer), Grown, Calm, BranchInv', ReplyInv', TimerInv', LifeInv',
         WinnerOK(Timer)'
  PROVE  IInv'
<1>1. TypeOK /\ WorkerInv /\ RequestInv /\ WinnerStored
  BY DEF IInv
<1>2. \A q \in Workers : q \in Procs /\ q # Timer /\ proc'[q] = proc[q]
  BY ProcNames DEF Others
<1>3. WorkerInv'
  BY <1>1, <1>2, OthersWorker DEF WorkerInv
<1>4. \A q \in Workers : RequestOK(q)'
  BY <1>1, <1>2, OthersRequest DEF WorkerInv, RequestInv
<1>5. RequestInv'
  <2>1. Requesting' \subseteq Requesting
    BY <1>2 DEF Requesting
  <2> QED
    BY <1>1, <1>4, <2>1 DEF RequestInv
<1>6. WinnerStored'
  <2> SUFFICES ASSUME NEW q \in Procs PROVE WinnerOK(q)'
    BY DEF WinnerStored, WinnerOK
  <2>1. CASE q # Timer
    BY <1>1, <2>1, OthersWinner DEF Others, WinnerStored, WinnerOK
  <2> QED
    BY <2>1
<1> QED
  BY <1>3, <1>5, <1>6 DEF IInv

\* The timer process holds no reference.
LEMMA BusySame ==
  ASSUME Others(Timer)
  PROVE  Busy' = Busy
<1>1. \A q \in Workers : proc'[q] = proc[q]
  BY ProcNames DEF Others
<1> QED
  BY <1>1 DEF Busy, Proc

\* A step of the timer process that neither frees nor unlinks the cell.
LEMMA LifeSame ==
  ASSUME LifeInv, Others(Timer), Held, cell'.ref = cell.ref, cell.life \notin {"none", "freed"},
         proc'[Timer].pc # "delete"
  PROVE  LifeInv'
<1>1. Busy' = Busy
  BY BusySame
<1>2. /\ link'[dele_tl] = link[dele_tl] /\ cell'.life = cell.life
      /\ link'[wait_tl] = link[wait_tl] \/ (link[wait_tl] = "off" /\ link'[wait_tl] = "on")
  BY DEF Held, Waits
<1>3. ~Proc(Timer, "delete")'
  BY DEF Proc
<1> QED
  BY <1>1, <1>2, <1>3 DEF LifeInv

\* The timer process changes to r, and the branches stay what they are.
LEMMA TimerGoes ==
  ASSUME IInv, Kept(uac, uac'), Tame, Ahead(cell, cell'), kind' = kind, cell'.ref = cell.ref,
         cell.life \notin {"none", "freed"}, NEW r \in ProcType, proc' = [proc EXCEPT ![Timer] = r],
         r.pc \notin {"delete", "unlocked"}, TimerInv'
  PROVE  IInv'
<1>1. TypeOK /\ Timer \in Procs /\ LifeInv
  BY ProcNames DEF IInv
<1>2. proc' \in [Procs -> ProcType] /\ proc'[Timer] = r /\ Others(Timer)
  BY <1>1, ProcMove, Zenon
<1>3. TypeOK'
  BY <1>1, <1>2, Zenon DEF TypeOK, Kept, Tame, Waits, Ahead
<1>4. Held /\ Grown /\ Calm /\ BranchInv' /\ ReplyInv'
  BY KeptStep DEF Held
<1>5. LifeInv'
  BY <1>1, <1>2, <1>4, LifeSame
<1>6. WinnerOK(Timer)'
  BY <1>2 DEF WinnerOK, Proc
<1> QED
  BY <1>2, <1>3, <1>4, <1>5, <1>6, TimerMove

\* No process moves.
LEMMA LinkGoes ==
  ASSUME IInv, uac' = uac, cell' = cell, proc' = proc, kind' = kind, Tame,
         cell.life \notin {"none", "freed"}, ~Proc(Timer, "delete")
  PROVE  IInv'
<1>1. TypeOK /\ LifeInv /\ TimerInv /\ WinnerStored /\ cell \in CellType /\ Timer \in Procs
  BY ProcNames DEF IInv, TypeOK
<1>2. Kept(uac, uac') /\ Ahead(cell, cell')
  BY <1>1, Unmoved
<1>3. TypeOK' /\ Others(Timer)
  BY <1>1 DEF TypeOK, Tame, Waits, Others
<1>4. Held /\ Grown /\ Calm /\ BranchInv' /\ ReplyInv'
  BY <1>2, KeptStep DEF Held
<1>5. LifeInv'
  BY <1>1, <1>3, <1>4, LifeSame DEF Proc
<1>6. TimerInv'
  BY <1>1, <1>3, <1>4, TimerKept
<1>7. WinnerOK(Timer)'
  BY <1>1 DEF WinnerStored, WinnerOK, Proc
<1> QED
  BY <1>3, <1>4, <1>5, <1>6, <1>7, TimerMove

\* Detaching the links that have expired sets none.
LEMMA SplitTame ==
  ASSUME link \in LinkType, NEW S, wait_tl \notin S, dele_tl \notin S
  PROVE  /\ Waits(link, check_and_split_time_list(link, S))
         /\ NoFr(link, check_and_split_time_list(link, S))
BY LinkNames DEF check_and_split_time_list, Waits, NoFr, LinkType, LinkStates

\* An ACK for a negative reply puts the cell on wait.
LEMMA ReceiveAckStep ==
  ASSUME IInv, ReceiveAck
  PROVE  IInv'
<1>1. TypeOK /\ link \in LinkType /\ LifeInv
  BY DEF IInv, TypeOK
<1>2. /\ cell.life = "hashed" /\ uac' = uac /\ cell' = cell /\ proc' = proc /\ kind' = kind
      /\ link' = t_release_transaction(link, cell)
  BY DEF ReceiveAck
<1>3. Tame
  BY <1>1, <1>2, ReleaseWaits, Unmoved
<1>4. ~Proc(Timer, "delete")
  BY <1>1, <1>2 DEF LifeInv
<1> QED
  BY <1>2, <1>3, <1>4, LinkGoes

\* The final reply was not acknowledged in time: the cell goes on wait.
LEMMA ResponseExpireStep ==
  ASSUME IInv, ResponseExpire
  PROVE  IInv'
<1>1. TypeOK /\ link \in LinkType /\ LifeInv
  BY DEF IInv, TypeOK
<1> DEFINE lk == check_and_split_time_list(link, {response})
<1>2. /\ cell.life # "freed" /\ uac' = uac /\ cell' = cell /\ proc' = proc /\ kind' = kind
      /\ link[response] # "off" /\ Proc(Timer, "idle")
      /\ link' = put_on_wait(lk) \/ link' = lk
  BY DEF ResponseExpire
<1>3. Waits(link, lk) /\ NoFr(link, lk)
  BY <1>1, LinkNames, SplitTame
<1>4. lk \in LinkType
  BY <1>3 DEF Waits
<1> HIDE DEF lk
<1>5. Tame
  BY <1>1, <1>2, <1>3, <1>4, PutOnWaitWaits, WaitsTrans, NoFrTrans, Unmoved
<1>6. cell.life # "none" /\ ~Proc(Timer, "delete")
  BY <1>1, <1>2, LinkNames DEF LifeInv, Proc
<1> QED
  BY <1>2, <1>5, <1>6, LinkGoes

\* The timer process detaches the FR links that have expired.
LEMMA FrExpireStep ==
  ASSUME IInv, NEW S \in SUBSET Branches, FrExpire(S)
  PROVE  IInv'
<1>1. TypeOK /\ link \in LinkType /\ LifeInv /\ Timer \in Procs /\ cell \in CellType
  BY ProcNames DEF IInv, TypeOK
<1> DEFINE T == {fr(b) : b \in S}
           r == [Idle EXCEPT !.pc = "run", !.op = "fr", !.todo = S]
<1>2. /\ cell.life # "freed" /\ uac' = uac /\ cell' = cell /\ kind' = kind /\ S # {}
      /\ \A b \in S : link[fr(b)] \in {"on", "reset"}
      /\ link' = check_and_split_time_list(link, T)
      /\ proc' = [proc EXCEPT ![Timer] = r]
  BY DEF FrExpire
<1>3. wait_tl \notin T /\ dele_tl \notin T
  BY LinkNames
<1> HIDE DEF T
<1>4. Waits(link, link') /\ NoFr(link, link')
  BY <1>1, <1>2, <1>3, SplitTame
<1>5. cell.life # "none"
  BY <1>1, <1>2, LinkNames DEF LifeInv
<1>6. r \in ProcType /\ r.pc = "run" /\ r.op = "fr" /\ r.todo = S
  <2>1. "run" \in Pcs /\ "fr" \in Ops
    BY DEF Pcs, TimerPcs, Ops
  <2> QED
    BY <2>1, IdleType, Zenon DEF ProcType, Idle
<1> HIDE DEF r
<1>7. proc'[Timer] = r
  BY <1>1, <1>2, <1>6, ProcMove, Zenon
<1>8. TimerInv'
  <2>1. \A b \in S : link'[fr(b)] # "off"
    BY <1>2, <1>4 DEF Waits
  <2> QED
    BY <1>2, <1>6, <1>7, <2>1 DEF TimerInv, Proc, TimerPcs
<1> QED
  BY <1>1, <1>2, <1>4, <1>5, <1>6, <1>8, Unmoved, TimerGoes, Zenon

\* The timer process goes on with the pass, or ends it.
LEMMA NextOK ==
  ASSUME IInv, NEW r, r = NextLink
  PROVE  /\ r \in ProcType /\ (r.pc = "run" => r.op = "fr" /\ r.todo # {})
         /\ r.pc = "idle" \/ r.pc = "run"
         /\ r.todo = proc[Timer].todo /\ (r.pc = "idle" => r.todo = {})
<1>1. proc[Timer].todo \in SUBSET Branches
  BY ProcNames DEF IInv, TypeOK, ProcType
<1>2. CASE proc[Timer].todo = {}
  <2>1. r = Idle
    BY <1>2 DEF NextLink
  <2>2. Idle.pc = "idle" /\ Idle.todo = {}
    BY DEF Idle
  <2> QED
    BY <1>2, <2>1, <2>2, IdleType
<1>3. CASE proc[Timer].todo # {}
  <2> DEFINE S == proc[Timer].todo
  <2>1. r = [Idle EXCEPT !.pc = "run", !.op = "fr", !.todo = S] /\ S \in SUBSET Branches /\ S # {}
    BY <1>1, <1>3 DEF NextLink
  <2>2. "run" \in Pcs /\ "fr" \in Ops
    BY DEF Pcs, TimerPcs, Ops
  <2> HIDE DEF S
  <2>3. r \in ProcType /\ r.pc = "run" /\ r.op = "fr" /\ r.todo = S
    BY <2>1, <2>2, IdleType, Zenon DEF ProcType, Idle
  <2> QED
    BY <2>1, <2>3 DEF S
<1> QED
  BY <1>2, <1>3

\* The rest of the pass.
LEMMA TimerNext ==
  ASSUME IInv, Kept(uac, uac'), Tame, Ahead(cell, cell'), kind' = kind, cell'.ref = cell.ref,
         ~Proc(Timer, "idle"), proc' = [proc EXCEPT ![Timer] = NextLink]
  PROVE  IInv'
<1>1. TypeOK /\ LifeInv /\ Timer \in Procs /\ TimerInv
  BY ProcNames DEF IInv
<1> DEFINE r == NextLink
<1>2. /\ r \in ProcType /\ (r.pc = "run" => r.op = "fr" /\ r.todo # {})
      /\ r.pc = "idle" \/ r.pc = "run"
      /\ r.todo = proc[Timer].todo /\ (r.pc = "idle" => r.todo = {})
  BY NextOK
<1>3. proc' = [proc EXCEPT ![Timer] = r]
  OBVIOUS
<1> HIDE DEF r
<1>4. proc'[Timer] = r
  BY <1>1, <1>2, <1>3, ProcMove, Zenon
<1>5. cell.life \notin {"none", "freed"}
  BY <1>1 DEF LifeInv
<1>6. TimerInv'
  <2>1. \A b \in r.todo : link'[fr(b)] # "off"
    <3>1. r.todo \subseteq Branches
      BY <1>2 DEF ProcType
    <3> QED
      BY <1>1, <1>2, <3>1, Zenon DEF TimerInv, Tame, Waits
  <2> QED
    BY <1>2, <1>4, <2>1 DEF TimerInv, Proc, TimerPcs
<1> QED
  BY <1>2, <1>3, <1>5, <1>6, TimerGoes, Zenon

\* An INVITE on one branch is forgotten without a reply when its timer fires.
LEMMA DropSilentlyStep ==
  ASSUME IInv, DropSilently
  PROVE  IInv'
<1>1. TypeOK /\ link \in LinkType
  BY DEF IInv, TypeOK
<1>2. /\ ~Proc(Timer, "idle") /\ link' = put_on_wait(link) /\ uac' = uac /\ cell' = cell
      /\ kind' = kind /\ proc' = [proc EXCEPT ![Timer] = NextLink]
  BY DEF DropSilently, Proc
<1> QED
  BY <1>1, <1>2, PutOnWaitWaits, Unmoved, TimerNext

\* The timer process relays the decision on the 408 it made up.
LEMMA FakeReplyStep ==
  ASSUME IInv, fake_reply
  PROVE  IInv'
<1>1. TypeOK /\ link \in LinkType /\ uac \in UacType /\ Timer \in Procs
  BY ProcNames DEF IInv, TypeOK
<1>2. /\ ~Proc(Timer, "idle") /\ kind' = kind /\ cell' = Sent(Timer)
      /\ link' = put_on_wait(link) \/ link' = FinalTimer(Timer)
      /\ uac' = cancel_branch(uac, proc[Timer].bm)
      /\ proc' = [proc EXCEPT ![Timer] = NextLink]
  BY DEF fake_reply, Proc
<1>3. Tame
  BY <1>1, <1>2, PutOnWaitWaits, FinalTimerTame, Unmoved
<1> QED
  BY <1>1, <1>2, <1>3, CancelBranchKept, SentAhead, TimerNext

\* It takes the next detached link, and passes over the ones reset since.
LEMMA RunHandlerStep ==
  ASSUME IInv, run_handler_for_each
  PROVE  IInv'
<1>1. /\ TypeOK /\ LifeInv /\ TimerInv /\ Timer \in Procs /\ proc[Timer] \in ProcType
      /\ cell \in CellType /\ link \in LinkType
  BY ProcNames DEF IInv, TypeOK
<1>2. /\ ~Proc(Timer, "idle") /\ Proc(Timer, "run") /\ proc[Timer].todo # {}
      /\ link' = link /\ uac' = uac /\ cell' = cell /\ kind' = kind
  BY DEF run_handler_for_each, Proc
<1> DEFINE b == Min(proc[Timer].todo)
           rest == proc[Timer].todo \ {b}
<1>3. b \in proc[Timer].todo /\ b \in Branches /\ rest \in SUBSET Branches
  BY <1>1, <1>2, MinOf DEF ProcType
<1>4. PICK r : /\ proc' = [proc EXCEPT ![Timer] = r]
               /\ \/ r = [proc[Timer] EXCEPT !.pc = "frlock", !.b = b, !.todo = rest]
                  \/ r = [proc[Timer] EXCEPT !.todo = rest] /\ rest # {}
                  \/ r = Idle
  BY <1>1, Zenon DEF run_handler_for_each, TypeOK
<1>5. proc' = [proc EXCEPT ![Timer] = r]
  BY <1>4
<1>6. b \in 0..(cell.nr - 1)
  <2>1. link[fr(b)] # "off"
    BY <1>1, <1>3 DEF TimerInv
  <2>2. ~(b >= cell.nr)
    BY <1>3, <2>1 DEF IInv, BranchInv, BranchOK
  <2>3. cell.nr \in Nat /\ b \in Nat
    BY <1>1, <1>3, CellNumbers, BranchNumbers, Zenon
  <2> HIDE DEF b
  <2> QED
    BY <2>2, <2>3
<1>7. proc[Timer].op = "fr" /\ \A a \in rest : link[fr(a)] # "off"
  BY <1>1, <1>2, Zenon DEF TimerInv, Proc
<1>8. link[fr(b)] # "off"
  BY <1>1, <1>3 DEF TimerInv
<1>9. r \in ProcType /\ r.pc \in {"idle", "run", "frlock"} /\ (r.pc # "idle" => r.op = "fr")
      /\ (r.pc = "run" => r.todo = rest /\ rest # {}) /\ (r.pc = "idle" => r.todo = {})
      /\ (r.pc = "frlock" => r.b = b /\ r.todo = rest)
  <2> HIDE DEF b, rest
  <2>1. CASE r = [proc[Timer] EXCEPT !.pc = "frlock", !.b = b, !.todo = rest]
    <3>1. "frlock" \in Pcs /\ b \in Int
      BY <1>3, BranchNumbers DEF Pcs, TimerPcs
    <3> QED
      BY <1>1, <1>3, <1>7, <2>1, <3>1, Zenon DEF ProcType
  <2>2. CASE r = [proc[Timer] EXCEPT !.todo = rest] /\ rest # {}
    BY <1>1, <1>2, <1>3, <1>7, <2>2 DEF ProcType, Proc
  <2>3. CASE r = Idle
    <3>1. Idle.pc = "idle" /\ Idle.todo = {}
      BY DEF Idle
    <3> QED
      BY <2>3, <3>1, IdleType
  <2> QED
    BY <1>4, <2>1, <2>2, <2>3
<1> HIDE DEF b, rest
<1>10. proc'[Timer] = r
  BY <1>1, <1>5, <1>9, ProcMove, Zenon
<1>11. TimerInv'
  BY <1>2, <1>6, <1>7, <1>8, <1>9, <1>10, Zenon DEF TimerInv, Proc, TimerPcs
<1>12. cell.life \notin {"none", "freed"}
  BY <1>1, <1>2 DEF LifeInv
<1> QED
  BY <1>1, <1>2, <1>5, <1>9, <1>11, <1>12, Unmoved, TimerGoes, Zenon

\* It decides on a 408 for the branch whose timer fired, under the lock.
LEMMA FinalResponseStep ==
  ASSUME IInv, final_response_handler, NEW u, Kept(uac, u), Carried(Timer, u, proc[Timer].b, 408)
  PROVE  IInv'
<1>1. /\ TypeOK /\ LifeInv /\ TimerInv /\ Timer \in Procs /\ uac \in UacType
      /\ cell \in CellType /\ cell.nr \in Nat /\ cell.nr <= MaxBranches
  BY ProcNames, CellNumbers DEF IInv, TypeOK
<1> DEFINE b == proc[Timer].b
<1>2. /\ Proc(Timer, "frlock") /\ kind' = kind /\ b \in Branches /\ b < cell.nr
      /\ 408 \in StatusCodes /\ IsReply(408)
      /\ Quiet => cell.cancelled
  BY TimerDecides, Zenon
<1>3. b \in 0..(cell.nr - 1) /\ proc[Timer].op = "fr"
  BY TimerDecides
<1>8. /\ TypeOK' /\ Held /\ Calm /\ BranchInv' /\ ReplyInv' /\ cell'.ref = cell.ref
      /\ \E r : Out(Timer, b, r)
  BY <1>1, <1>2, DecideStep, Zenon
<1>9. PICK r : Out(Timer, b, r)
  BY <1>8, Zenon
<1>10. /\ proc'[Timer] = r /\ Others(Timer) /\ r.pc = "unlocked" /\ r.op = "fr" /\ r.b = b
       /\ r.todo = proc[Timer].todo
  BY <1>1, <1>3, <1>9, ProcMove, Zenon DEF Out
<1>11. TimerInv'
  <2>1. b \in 0..(cell'.nr - 1)
    <3>1. cell'.nr \in Nat /\ cell.nr <= cell'.nr
      BY <1>8, BranchNumbers DEF TypeOK, CellType, Held, Grown
    <3> QED
      BY <1>1, <1>3, <3>1
  <2>2. \A a \in proc[Timer].todo : link'[fr(a)] # "off"
    <3>1. proc[Timer].todo \subseteq Branches
      BY <1>1 DEF TypeOK, ProcType
    <3> QED
      BY <1>1, <1>8, <3>1, Zenon DEF TimerInv, Held, Waits
  <2> QED
    BY <1>10, <2>1, <2>2, Zenon DEF TimerInv, Proc, TimerPcs
<1>12. WinnerOK(Timer)'
  BY <1>9, <1>10, Zenon DEF WinnerOK, Out
<1>13. cell.life \notin {"none", "freed"} /\ proc'[Timer].pc # "delete"
  BY <1>1, <1>2, <1>10, Zenon DEF LifeInv, Proc
<1>14. LifeInv'
  BY <1>1, <1>8, <1>10, <1>13, LifeSame
<1>15. Grown
  BY <1>8, Zenon DEF Held
<1> QED
  BY <1>8, <1>10, <1>11, <1>12, <1>14, <1>15, TimerMove, Zenon

\* The cell changes its place only.
LEMMA LifeMoves ==
  ASSUME IInv, uac' = uac, kind' = kind, link' \in LinkType, NoFr(link, link'),
         NEW x \in {"none", "hashed", "removed", "freed"},
         cell' = cell \/ cell' = [cell EXCEPT !.life = x], NEW y \in {"idle", "delete"},
         proc' = proc \/ proc' = [proc EXCEPT ![Timer].pc = y],
         proc[Timer].pc \in {"idle", "delete"},
         (cell'.ref = cell.ref /\ Busy' = Busy) => LifeInv'
  PROVE  IInv'
<1>1. /\ TypeOK /\ Timer \in Procs /\ cell \in CellType /\ proc[Timer] \in ProcType /\ uac \in UacType
  BY ProcNames DEF IInv, TypeOK
<1>2. /\ cell' \in CellType /\ cell'.first = cell.first /\ cell'.nr = cell.nr
      /\ cell'.status = cell.status /\ cell'.ref = cell.ref
  BY <1>1 DEF CellType
<1>3. cell'.cancelled = cell.cancelled /\ cell'.kr = cell.kr /\ cell'.noNew = cell.noNew
  BY <1>1 DEF CellType
<1>4. /\ proc' \in [Procs -> ProcType] /\ Others(Timer) /\ proc'[Timer].todo = proc[Timer].todo
      /\ proc'[Timer].pc \in {"idle", "delete"}
  <2>1. CASE proc' = proc
    BY <1>1, <2>1 DEF TypeOK, Others
  <2>2. CASE proc' = [proc EXCEPT ![Timer].pc = y]
    <3> DEFINE r == [proc[Timer] EXCEPT !.pc = y]
    <3>1. proc' = [proc EXCEPT ![Timer] = r]
      BY <1>1, <2>2
    <3>2. y \in Pcs
      BY DEF Pcs, TimerPcs
    <3>3. r \in ProcType /\ r.todo = proc[Timer].todo /\ r.pc = y
      BY <1>1, <3>2 DEF ProcType
    <3> HIDE DEF r
    <3> QED
      BY <1>1, <3>1, <3>3, ProcMove, Zenon
  <2> QED
    BY <2>1, <2>2
<1>5. TypeOK'
  BY <1>1, <1>2, <1>4 DEF TypeOK
<1>6. Grown
  <2>1. cell.nr <= cell'.nr
    BY <1>1, <1>2, CellNumbers
  <2> QED
    BY <1>3, <2>1 DEF Grown
<1>7. Calm
  <2>1. Quiet => Quiet'
    BY DEF Quiet, NoFr
  <2> QED
    BY <1>2, <1>3, <2>1 DEF Calm
<1>8. BranchInv'
  <2>1. BranchOK(uac, cell, link)
    BY DEF IInv, BranchInv
  <2>2. BranchOK(uac', cell', link')
    BY <1>2, <2>1 DEF BranchOK, NoFr
  <2> QED
    BY <2>2 DEF BranchInv
<1>9. ReplyInv'
  BY <1>2, <1>3 DEF IInv, ReplyInv
<1>10. TimerInv'
  <2>1. proc[Timer].todo = {}
    BY DEF IInv, TimerInv
  <2> QED
    BY <1>4, <2>1 DEF TimerInv, Proc, TimerPcs
<1>11. LifeInv'
  BY <1>2, <1>4, BusySame
<1>12. WinnerOK(Timer)'
  BY <1>4 DEF WinnerOK, Proc
<1> QED
  BY <1>4, <1>5, <1>6, <1>7, <1>8, <1>9, <1>10, <1>11, <1>12, TimerMove

\* unlink_timers takes the links of the cell out and sets none.
LEMMA UnlinkNoFr ==
  ASSUME link \in LinkType
  PROVE  /\ unlink_timers(link) \in LinkType /\ NoFr(link, unlink_timers(link))
         /\ unlink_timers(link)[wait_tl] = link[wait_tl] /\ unlink_timers(link)[dele_tl] = link[dele_tl]
BY LinkNames DEF unlink_timers, NoFr, LinkType, LinkStates

\* Nobody holds the cell when its count is zero.
LEMMA RefZero ==
  ASSUME LifeInv, cell.ref = 0
  PROVE  Busy = {}
<1>1. IsFiniteSet(Busy)
  BY TransactionAssumption, FS_Subset DEF Busy
<1> QED
  BY <1>1, FS_EmptySet, Zenon DEF LifeInv

\* The wait timer fires: the cell leaves the hash table, and goes to the
\* delete timer when somebody still refers to it.
LEMMA WaitHandlerStep ==
  ASSUME IInv, wait_handler
  PROVE  IInv'
<1>1. TypeOK /\ LifeInv /\ link \in LinkType /\ cell \in CellType
  BY DEF IInv, TypeOK
<1> DEFINE lk == unlink_timers(link)
           d == IF cell.ref # 0 THEN "on" ELSE lk[dele_tl]
           x == IF cell.ref # 0 THEN "removed" ELSE "freed"
<1>2. /\ Proc(Timer, "idle") /\ link[wait_tl] = "on" /\ uac' = uac /\ proc' = proc /\ kind' = kind
      /\ link' = [lk EXCEPT ![wait_tl] = "fired", ![dele_tl] = d]
      /\ cell' = [cell EXCEPT !.life = x]
  BY DEF wait_handler
<1>3. lk \in LinkType /\ NoFr(link, lk) /\ lk[dele_tl] = link[dele_tl]
  BY <1>1, UnlinkNoFr
<1>4. d \in LinkStates
  BY <1>3, LinkNames DEF LinkType, LinkStates
<1> HIDE DEF lk, d
<1>5. link' \in LinkType /\ link'[wait_tl] = "fired" /\ link'[dele_tl] = d
      /\ \A b \in Branches : link'[fr(b)] = lk[fr(b)]
  BY <1>2, <1>3, <1>4, LinkNames DEF LinkType, LinkStates
<1>6. NoFr(link, link')
  BY <1>3, <1>5 DEF NoFr
<1>7. cell'.life = x /\ x \in {"removed", "freed"}
  BY <1>1, <1>2 DEF CellType
<1>8. ASSUME cell'.ref = cell.ref, Busy' = Busy
      PROVE  LifeInv'
  <2>1. link[dele_tl] # "on"
    BY <1>1, <1>2 DEF LifeInv
  <2>2. CASE cell.ref = 0
    <3>1. Busy = {} /\ d # "on" /\ x = "freed"
      BY <1>1, <1>3, <2>1, <2>2, RefZero DEF d
    <3> QED
      BY <1>1, <1>2, <1>5, <1>7, <1>8, <3>1 DEF LifeInv, Proc
  <2>3. CASE cell.ref # 0
    BY <1>1, <1>2, <1>5, <1>7, <1>8, <2>3 DEF LifeInv, Proc
  <2> QED
    BY <2>2, <2>3
<1> QED
  BY <1>2, <1>5, <1>6, <1>7, <1>8, LifeMoves DEF Proc

\* delete_handler takes the timers of the cell out of their lists ...
LEMMA DeleteHandlerStep ==
  ASSUME IInv, delete_handler
  PROVE  IInv'
<1>1. TypeOK /\ LifeInv /\ link \in LinkType /\ cell \in CellType /\ Timer \in Procs
      /\ proc[Timer] \in ProcType /\ proc \in [Procs -> ProcType]
  BY ProcNames DEF IInv, TypeOK
<1> DEFINE lk == unlink_timers(link)
<1>2. /\ Proc(Timer, "idle") /\ link[dele_tl] = "on" /\ uac' = uac /\ cell' = cell /\ kind' = kind
      /\ link' = [lk EXCEPT ![dele_tl] = "fired"]
      /\ proc' = [proc EXCEPT ![Timer].pc = "delete"]
  BY DEF delete_handler, Goto
<1>3. lk \in LinkType /\ NoFr(link, lk) /\ lk[wait_tl] = link[wait_tl]
  BY <1>1, UnlinkNoFr
<1> HIDE DEF lk
<1>5. link' \in LinkType /\ link'[wait_tl] = link[wait_tl] /\ link'[dele_tl] = "fired"
      /\ \A b \in Branches : link'[fr(b)] = lk[fr(b)]
  BY <1>2, <1>3, LinkNames DEF LinkType, LinkStates
<1>6. NoFr(link, link')
  BY <1>3, <1>5 DEF NoFr
<1>7. proc'[Timer].pc = "delete"
  BY <1>1, <1>2 DEF ProcType
<1>8. ASSUME cell'.ref = cell.ref, Busy' = Busy
      PROVE  LifeInv'
  BY <1>1, <1>2, <1>5, <1>7, <1>8 DEF LifeInv, Proc
<1> QED
  BY <1>2, <1>5, <1>6, <1>8, LifeMoves DEF Proc

\* ... and frees the cell if nobody refers to it; otherwise it waits again.
LEMMA DeleteCellStep ==
  ASSUME IInv, delete_cell
  PROVE  IInv'
<1>1. TypeOK /\ LifeInv /\ link \in LinkType /\ cell \in CellType /\ Timer \in Procs
      /\ proc[Timer] \in ProcType /\ proc \in [Procs -> ProcType]
  BY ProcNames DEF IInv, TypeOK
<1>2. /\ Proc(Timer, "delete") /\ uac' = uac /\ kind' = kind
      /\ proc' = [proc EXCEPT ![Timer].pc = "idle"]
  BY DEF delete_cell, Goto
<1>3. proc'[Timer].pc = "idle"
  BY <1>1, <1>2 DEF ProcType
<1>4. cell.life = "removed" /\ link[dele_tl] = "fired"
  BY <1>1, <1>2 DEF LifeInv
<1>5. CASE cell.ref # 0
  <2>1. link' = [link EXCEPT ![dele_tl] = "on"] /\ cell' = cell
    BY <1>5 DEF delete_cell
  <2>2. /\ link' \in LinkType /\ link'[wait_tl] = link[wait_tl] /\ link'[dele_tl] = "on"
        /\ NoFr(link, link')
    BY <1>1, <2>1, LinkNames DEF LinkType, LinkStates, NoFr
  <2>3. ASSUME cell'.ref = cell.ref, Busy' = Busy
        PROVE  LifeInv'
    BY <1>1, <1>3, <1>4, <2>1, <2>2, <2>3, Zenon DEF LifeInv, Proc
  <2> QED
    BY <1>2, <2>1, <2>2, <2>3, LifeMoves DEF Proc
<1>6. CASE cell.ref = 0
  <2>1. link' = link /\ cell' = [cell EXCEPT !.life = "freed"]
    BY <1>6 DEF delete_cell
  <2>2. NoFr(link, link') /\ cell'.life = "freed"
    BY <1>1, <2>1 DEF NoFr, CellType
  <2>3. Busy = {}
    BY <1>1, <1>6, RefZero
  <2>4. ASSUME cell'.ref = cell.ref, Busy' = Busy
        PROVE  LifeInv'
    BY <1>1, <1>3, <1>4, <2>1, <2>2, <2>3, <2>4 DEF LifeInv, Proc
  <2> QED
    BY <1>1, <1>2, <2>1, <2>2, <2>4, LifeMoves DEF Proc
<1> QED
  BY <1>5, <1>6
=============================================================================
