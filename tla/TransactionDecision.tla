------------------------ MODULE TransactionDecision -------------------------
(***************************************************************************)
(* t_should_relay_response, case by case: whatever it decides keeps the    *)
(* branches, the rounds and the timers in agreement, and says upstream     *)
(* only what a stored final reply, a forwarded reply or a failure route    *)
(* allows.                                                                 *)
(***************************************************************************)
EXTENDS TransactionFailover

\* The reply takes no final status back.
StaysFinal(u, b, code) == u[b].last >= 200 => code >= 200

\* Counting a reply in keeps the branches, the rounds and the timers in
\* agreement, unless it took a final status back.
LEMMA CodedBranchOK ==
  ASSUME NEW u \in UacType, NEW c \in CellType, NEW lk, BranchOK(u, c, lk), NEW b \in Branches,
         b < c.nr, NEW code \in StatusCodes, StaysFinal(u, b, code)
  PROVE  BranchOK(Coded(u, b, code), c, lk)
<1> DEFINE v == Coded(u, b, code)
<1>0. IsCoded(u, b, code, v)
  BY CodedBranches
<1> HIDE DEF v
<1>1. /\ v[b].last = code
      /\ \A a \in Branches : /\ a # b => v[a] = u[a]
                             /\ v[a].buffer = u[a].buffer /\ v[a].sent = u[a].sent
                             /\ v[a].round = u[a].round
  BY <1>0 DEF IsCoded
<1>2. c.nr \in Nat /\ b \in Nat
  BY BranchNumbers DEF CellType
<1>3. ~(b >= c.nr)
  BY <1>2
<1>4. \A a \in Branches : a >= c.nr => v[a].last = u[a].last
  BY <1>1, <1>3
<1>5. \A a \in Branches : u[a].last >= 200 => v[a].last >= 200
  BY <1>1 DEF StaysFinal
<1>6. BranchOK(v, c, lk)
  BY <1>1, <1>4, <1>5 DEF BranchOK
<1> QED
  BY <1>6 DEF v

\* Where a reply on b is decided on.
Deciding(u, c, lk, b) ==
  /\ u \in UacType /\ c \in CellType /\ lk \in LinkType /\ BranchOK(u, c, lk)
  /\ b < c.nr /\ ReplyOK(u, c.status) /\ (c.noNew => c.status >= 200)

\* The branches with the reply on b counted in, where it is decided on.
LEMMA CodedOK ==
  ASSUME NEW u, NEW c, NEW lk, NEW b \in Branches, Deciding(u, c, lk, b),
         NEW code \in StatusCodes, StaysFinal(u, b, code)
  PROVE  IsCoded(u, b, code, Coded(u, b, code)) /\ BranchOK(Coded(u, b, code), c, lk)
<1>1. u \in UacType /\ c \in CellType /\ BranchOK(u, c, lk) /\ b < c.nr
  BY DEF Deciding
<1>2. IsCoded(u, b, code, Coded(u, b, code))
  BY <1>1, CodedBranches
<1>3. BranchOK(Coded(u, b, code), c, lk)
  BY <1>1, CodedBranchOK
<1> QED
  BY <1>2, <1>3

GlobalCode(code) == code >= 600

NegativeCode(code) == code \in Span(300, 599)

\* Branch b has no final reply, nor has the transaction.
Awaited(u, c, b) == c.status < 200 /\ u[b].last < 200

\* A 6xx ends the transaction: nothing new is tried.
LEMMA GlobalFailure ==
  ASSUME NEW u, NEW c, NEW lk, NEW b \in Branches, Deciding(u, c, lk, b), Awaited(u, c, b),
         NEW code \in StatusCodes, GlobalCode(code),
         NEW bm \in SUBSET Branches, NEW v, Kept(Coded(u, b, code), v), NEW o,
         o \in Failed(v, [c EXCEPT !.noNew = TRUE], lk, b, b, bm)
  PROVE  Decided(Coded(u, b, code), c, lk, b, o)
<1> DEFINE w == Coded(u, b, code)
           e == [c EXCEPT !.noNew = TRUE]
<1>1. /\ u \in UacType /\ c \in CellType /\ lk \in LinkType /\ BranchOK(u, c, lk)
      /\ b < c.nr /\ ReplyOK(u, c.status)
  BY DEF Deciding
<1>2. IsCoded(u, b, code, w) /\ BranchOK(w, c, lk)
  <2>1. StaysFinal(u, b, code)
    BY DEF StaysFinal, GlobalCode, NegativeCode, StatusCodes, Span
  <2> QED
    BY <2>1, CodedOK
<1>0. e \in CellType
  <2>1. TRUE \in BOOLEAN
    OBVIOUS
  <2>2. ASSUME NEW x \in BOOLEAN PROVE [c EXCEPT !.noNew = x] \in CellType
    BY <1>1 DEF CellType
  <2> QED
    BY <2>1, <2>2, Zenon
<1>3. /\ e.first = c.first /\ e.nr = c.nr /\ e.life = c.life /\ e.ref = c.ref
      /\ e.status = c.status
  BY <1>1 DEF CellType
<1>4. e.cancelled = c.cancelled /\ e.kr = c.kr /\ e.noNew = TRUE
  BY <1>1 DEF CellType
<1>5. e.noNew /\ Still(c, e)
  BY <1>0, <1>3, <1>4, Zenon DEF Still
<1>6. o \in Failed(v, e, lk, b, b, bm)
  OBVIOUS
<1>7. Kept(w, v)
  OBVIOUS
<1> HIDE DEF e, w
<1>8. w \in UacType /\ Waits(lk, lk) /\ NoFr(lk, lk)
  BY <1>1, <1>2 DEF IsCoded, Waits, NoFr
<1>9. Follows(w, c, lk, v, e, lk)
  BY <1>1, <1>2, <1>5, <1>7, <1>8, KeptFollows
<1>10. v[b].last = code /\ code >= 600 /\ code \in Span(0, 699)
  BY <1>2, <1>7 DEF Kept, IsCoded, GlobalCode, StatusCodes
<1>11. \A a \in Branches : a # b /\ v[a].last >= 200 => v[a].reply /\ v[a].last \in Span(300, 599)
  <2> SUFFICES ASSUME NEW a \in Branches, a # b, v[a].last >= 200
               PROVE  v[a].reply /\ v[a].last \in Span(300, 599)
    OBVIOUS
  <2>1. v[a].last = w[a].last /\ (w[a].reply => v[a].reply)
    BY <1>7 DEF Kept
  <2>2. w[a].last = u[a].last /\ w[a].reply = u[a].reply
    BY <1>2, Zenon DEF IsCoded
  <2>3. u[a].last >= 200
    BY <2>1, <2>2, Zenon
  <2>4. u[a].reply /\ u[a].last \in Span(300, 599)
    BY <1>1, <2>3 DEF ReplyOK, Awaited
  <2> QED
    BY <2>1, <2>2, <2>4, Zenon
<1>12. Negative(v, e, lk, b)
  <2>1. v \in UacType /\ BranchOK(v, e, lk)
    BY <1>9 DEF Follows
  <2>2. v[b].last \in Span(300, 699) /\ v[b].last >= 600 /\ b < e.nr /\ e.status < 200
    BY <1>1, <1>3, <1>10 DEF Awaited, Span
  <2> QED
    BY <1>0, <1>1, <1>5, <1>11, <2>1, <2>2, Zenon DEF Negative
<1>13. Wins(v, e, b, b)
  <2>1. v[b].last >= 600 /\ v[b].last >= 200 /\ b < e.nr
    BY <1>1, <1>3, <1>10 DEF Span
  <2> QED
    BY <2>1 DEF Wins, BestIn
<1>14. FailOutcome(v, e, lk, b, b, bm, o)
  BY <1>0, <1>1, <1>3, <1>6, <1>7, FailedOutcome DEF Kept
<1>15. Decided(v, e, lk, b, o)
  BY <1>12, <1>13, <1>14, FailDecided
<1>16. Decided(w, c, lk, b, o)
  <2>1. Follows(v, e, lk, o.uac, o.cell, o.link)
    BY <1>15 DEF Decided
  <2>2. Follows(w, c, lk, o.uac, o.cell, o.link)
    BY <1>1, <1>5, <1>9, <2>1, FollowsTrans
  <2> QED
    BY <1>3, <1>15, <2>2, Zenon DEF Decided
<1> QED
  BY <1>16 DEF w

Picked(u, c, k) == k = t_pick_branch(u, c) /\ k # Pending

\* The branch t_pick_branch returns wins: its round and all rounds before
\* are final, and no branch of the round ranks before it.
LEMMA PickedWins ==
  ASSUME NEW u, NEW c, NEW lk, NEW b \in Branches, Deciding(u, c, lk, b), Awaited(u, c, b),
         NEW code \in StatusCodes, NegativeCode(code), NEW k, Picked(Coded(u, b, code), c, k)
  PROVE  /\ k \in Branches
         /\ Negative(Coded(u, b, code), c, lk, b)
         /\ Wins(Coded(u, b, code), c, b, k)
<1> DEFINE w == Coded(u, b, code)
<1>1. /\ u \in UacType /\ c \in CellType /\ lk \in LinkType /\ BranchOK(u, c, lk)
      /\ b < c.nr /\ ReplyOK(u, c.status)
  BY DEF Deciding
<1>2. IsCoded(u, b, code, w) /\ BranchOK(w, c, lk)
  <2>1. StaysFinal(u, b, code)
    BY DEF StaysFinal, GlobalCode, NegativeCode, StatusCodes, Span
  <2> QED
    BY <2>1, CodedOK
<1>3. Picked(w, c, k)
  OBVIOUS
<1> HIDE DEF w
<1>16. code \in Span(300, 599)
  BY DEF NegativeCode
<1>4. w \in UacType /\ w[b].last = code /\ \A a \in Branches : a # b => w[a] = u[a]
  BY <1>2 DEF IsCoded
<1>5. c.first \in Nat /\ c.nr \in Nat /\ c.nr <= MaxBranches /\ b \in Nat
  BY <1>1, BranchNumbers DEF CellType
<1>6. c.first < c.nr
  BY <1>2, <1>5, <1>1 DEF BranchOK
<1>7. \A a \in Branches : a \in Nat /\ (a < c.nr => w[a].buffer)
  BY <1>2, BranchNumbers, Zenon DEF BranchOK
<1>8. \A a \in Round(c) : w[a].buffer
  BY <1>5, <1>7, BranchNumbers DEF Round
<1>9. BestOf(w, c, c.first, c.nr - 1, k)
  BY <1>1, <1>3, <1>4, <1>6, <1>8, PickBranch DEF Picked
<1>10. k \in Nat /\ k < c.nr /\ c.first <= k /\ k \in Branches
  BY <1>5, <1>9, BranchNumbers DEF BestOf
<1>11. \A a \in Branches : a < c.nr /\ c.first <= a =>
          /\ w[a].last >= 200 /\ w[a].round = c.first
          /\ PickRank(c.cancelled, w[k].last) <= PickRank(c.cancelled, w[a].last)
  <2> SUFFICES ASSUME NEW a \in Branches, a < c.nr, c.first <= a
               PROVE  /\ w[a].last >= 200 /\ w[a].round = c.first
                      /\ PickRank(c.cancelled, w[k].last) <= PickRank(c.cancelled, w[a].last)
    OBVIOUS
  <2>1. a \in c.first..(c.nr - 1)
    BY <1>5, <1>7
  <2>2. w[a].round = c.first
    BY <1>2 DEF BranchOK
  <2> QED
    BY <1>9, <2>1, <2>2 DEF BestOf
<1>12. AllFinal(w, c)
  <2> SUFFICES ASSUME NEW a \in Branches, a < c.nr
               PROVE  w[a].last >= 200 \/ w[a].sent = "failed"
    BY DEF AllFinal
  <2>1. CASE c.first <= a
    BY <2>1, <1>11
  <2>2. CASE a < c.first
    BY <2>2, <1>2, Zenon DEF BranchOK
  <2> QED
    BY <1>5, <1>7, <2>1, <2>2
<1>13. \A a \in Branches : a # b /\ w[a].last >= 200 => w[a].reply /\ w[a].last \in Span(300, 599)
  BY <1>1, <1>4 DEF ReplyOK, Awaited, Span
<1>14. Negative(w, c, lk, b)
  <2>1. w[b].last \in Span(300, 699) /\ ~(w[b].last >= 600)
    BY <1>4, <1>16 DEF Span
  <2>2. ~c.noNew /\ c.status < 200
    <3>1. c.status < 200 /\ c.status \in Span(0, 699)
      BY <1>1, Zenon DEF Awaited, CellType, StatusCodes
    <3>2. ~(c.status >= 200)
      BY <3>1 DEF Span
    <3> QED
      BY <3>1, <3>2 DEF Deciding
  <2> QED
    BY <1>1, <1>2, <1>4, <1>12, <1>13, <2>1, <2>2, Zenon DEF Negative
<1>15. Wins(w, c, b, k)
  <2>1. w[k].last >= 200 /\ w[k].round = c.first
    BY <1>10, <1>11
  <2>2. k # b => w[k].reply
    BY <1>10, <1>13, <2>1
  <2>3. w[k].last >= 300
    <3>1. CASE k = b
      BY <1>4, <1>16, <3>1 DEF Span
    <3>2. CASE k # b
      <4>1. w[k].last \in Span(300, 599)
        BY <1>10, <1>13, <2>1, <3>2
      <4> QED
        BY <4>1 DEF Span
    <3> QED
      BY <3>1, <3>2
  <2>4. \A a \in Branches : w[a].round = w[k].round /\ w[a].last >= 300
          => PickRank(c.cancelled, w[k].last) <= PickRank(c.cancelled, w[a].last)
    <3> SUFFICES ASSUME NEW a \in Branches, w[a].round = w[k].round
                 PROVE  PickRank(c.cancelled, w[k].last) <= PickRank(c.cancelled, w[a].last)
      OBVIOUS
    <3>1. w[a].round = c.first
      BY <2>1
    <3>2. a < c.nr
      <4>1. ~(a >= c.nr)
        BY <1>2, <1>5, <3>1 DEF BranchOK, None
      <4> QED
        BY <1>5, <1>7, <4>1
    <3>3. c.first <= a
      <4>1. ~(a < c.first)
        BY <1>2, <1>5, <3>1 DEF BranchOK
      <4> QED
        BY <1>5, <1>7, <4>1
    <3> QED
      BY <1>11, <3>2, <3>3
  <2> QED
    BY <1>10, <1>12, <2>1, <2>2, <2>3, <2>4 DEF Wins, BestIn, EndedIn
<1> QED
  BY <1>10, <1>14, <1>15 DEF w

\* A decision that leaves the cell and the timers alone: v is u with marks,
\* and b or nothing is relayed.
LEMMA PlainDecided ==
  ASSUME NEW u, NEW c, NEW lk, NEW b \in Branches, Deciding(u, c, lk, b),
         NEW code \in StatusCodes, StaysFinal(u, b, code),
         NEW w, w = u \/ w = Coded(u, b, code), NEW v, Kept(w, v),
         NEW relay \in {None, b}, NEW rps \in RelayTypes, NEW bm \in SUBSET Branches,
         LET s == IF relay = None THEN c.status ELSE v[b].last
         IN ReplyOK(v, s) /\ AnswerOK(c.status, v, c, s) /\ (c.status >= 200 => s >= 200)
  PROVE  Decided(w, c, lk, b, Outcome(v, c, lk, rps, relay, bm))
<1> DEFINE o == Outcome(v, c, lk, rps, relay, bm)
<1>1. /\ u \in UacType /\ c \in CellType /\ lk \in LinkType /\ BranchOK(u, c, lk)
      /\ c.noNew => c.status >= 200
  BY DEF Deciding
<1>2. w \in UacType /\ BranchOK(w, c, lk)
  <2>1. IsCoded(u, b, code, Coded(u, b, code)) /\ BranchOK(Coded(u, b, code), c, lk)
    BY CodedOK, Zenon
  <2> QED
    BY <1>1, <2>1 DEF IsCoded
<1>3. Still(c, c) /\ Waits(lk, lk) /\ NoFr(lk, lk)
  BY <1>1, Zenon DEF Still, Waits, NoFr
<1>4. Follows(w, c, lk, v, c, lk)
  BY <1>1, <1>2, <1>3, KeptFollows, Zenon
<1>5. /\ o.uac = v /\ o.cell = c /\ o.link = lk /\ o.rps = rps /\ o.relay = relay /\ o.bm = bm
  BY Zenon DEF Outcome
<1> DEFINE s == IF relay = None THEN c.status ELSE v[b].last
<1>6. ReplyOK(v, s) /\ AnswerOK(c.status, v, c, s) /\ (c.status >= 200 => s >= 200)
  OBVIOUS
<1>7. NewStatus(o) = s
  BY <1>5, Zenon DEF NewStatus
<1> HIDE DEF o, s
<1>8. /\ o.relay = None \/ o.relay \in Branches
      /\ o.relay \in Branches /\ o.relay # b => o.uac[o.relay].reply
      /\ o.rps \in RelayTypes /\ o.bm \subseteq Branches
  BY <1>5, BranchNumbers, Zenon
<1>9. o.cell.noNew => NewStatus(o) >= 200
  BY <1>1, <1>5, <1>6, <1>7, Zenon
<1>10. Decided(w, c, lk, b, o)
  BY <1>4, <1>5, <1>6, <1>7, <1>8, <1>9, Zenon DEF Decided
<1> QED
  BY <1>10 DEF o

\* The cases of t_should_relay_response.
Discards(u, c, lk, o) == o = Outcome(u, c, lk, "RPS_DISCARDED", None, {})

Pushes(w, c, lk, b, o) == o = Outcome(w, c, lk, "RPS_PUSHED_AFTER_COMPLETION", b, {})

Completes2xx(w, c, lk, b, o) ==
  o = Outcome(MarkCancel(w, Round(c)), c, lk, "RPS_COMPLETED", b, which_cancel(w, c))

Provisions(w, c, lk, b, code, o) ==
  o = Outcome(w, c, lk, "RPS_PROVISIONAL", IF code = 100 THEN None ELSE b, {})

EndsAll(w, c, lk, b, o) ==
  o \in Failed(MarkCancel(w, Round(c)), [c EXCEPT !.noNew = TRUE], lk, b, b, which_cancel(w, c))

Success(code) == code \in Span(200, 299)

Early(code) == code \in Span(100, 199)

Cases(u, c, lk, b, code, w, o) ==
  \/ Discards(u, c, lk, o)
  \/ c.status >= 200 /\ kind.invite /\ Success(code) /\ Pushes(w, c, lk, b, o)
  \/ Awaited(u, c, b) /\ GlobalCode(code) /\ EndsAll(w, c, lk, b, o)
  \/ Awaited(u, c, b) /\ NegativeCode(code) /\ t_pick_branch(w, c) = Pending /\ o = Stored(w, c, lk, b)
  \/ Awaited(u, c, b) /\ NegativeCode(code)
       /\ \E k : Picked(w, c, k) /\ (k = None \/ o \in Failed(w, c, lk, b, k, {}))
  \/ Awaited(u, c, b) /\ Success(code) /\ Completes2xx(w, c, lk, b, o)
  \/ Awaited(u, c, b) /\ Early(code) /\ Provisions(w, c, lk, b, code, o)

\* t_should_relay_response has these cases, and no more: the guards of the
\* code exclude each other as the comments there say.
LEMMA DecisionCases ==
  ASSUME NEW u, NEW c, NEW lk, NEW b \in Branches, Deciding(u, c, lk, b),
         NEW code \in StatusCodes, IsReply(code),
         NEW o \in t_should_relay_response(u, c, lk, b, code)
  PROVE  Cases(u, c, lk, b, code, Coded(u, b, code), o)
<1> DEFINE w == Coded(u, b, code)
           through == code >= 200 /\ code < 300 /\ kind.invite
<1>1. c.status \in Nat /\ u[b].last \in Nat /\ code \in Nat /\ code <= 699
  <2>1. c.status \in StatusCodes /\ u[b].last \in StatusCodes
    BY DEF Deciding, CellType, UacType, BranchType
  <2> QED
    BY <2>1, CodeNumbers
<1>2. CASE c.status >= 200
  <2>1. CASE through
    <3>1. o \in {Outcome(w, c, lk, "RPS_PUSHED_AFTER_COMPLETION", b, {})}
      BY <1>1, <1>2, <2>1 DEF t_should_relay_response, Coded
    <3>2. Success(code)
      BY <1>1, <2>1 DEF Success, Span
    <3> QED
      BY <1>2, <2>1, <3>1, <3>2 DEF Cases, Pushes
  <2>2. CASE ~through
    <3>1. o \in {Outcome(u, c, lk, "RPS_DISCARDED", None, {})}
      BY <1>1, <1>2, <2>2 DEF t_should_relay_response
    <3> QED
      BY <3>1 DEF Cases, Discards
  <2> QED
    BY <2>1, <2>2
<1>3. CASE c.status < 200 /\ u[b].last >= 200
  <2>1. ~(u[b].last < 300)
    BY <1>1, <1>3 DEF Deciding, ReplyOK, Span
  <2>2. o \in {Outcome(u, c, lk, "RPS_DISCARDED", None, {})}
    BY <1>1, <1>3, <2>1 DEF t_should_relay_response
  <2> QED
    BY <2>2 DEF Cases, Discards
<1>4. CASE c.status < 200 /\ u[b].last < 200
  <2>1. Awaited(u, c, b)
    BY <1>4 DEF Awaited
  <2>2. ~(c.status >= 200) /\ ~(u[b].last >= 200)
    BY <1>1, <1>4
  <2>3. CASE code >= 600
    <3>1. o \in Failed(MarkCancel(w, Round(c)), [c EXCEPT !.noNew = TRUE], lk, b, b, which_cancel(w, c))
      BY <1>1, <2>2, <2>3 DEF t_should_relay_response, Coded
    <3> QED
      BY <2>1, <2>3, <3>1 DEF Cases, EndsAll, GlobalCode
  <2>4. CASE code >= 300 /\ code < 600
    <3> DEFINE k == t_pick_branch(w, c)
    <3>1. o \in CASE k = Pending -> {Stored(w, c, lk, b)}
                   [] k = None -> {Outcome(w, c, lk, "RPS_DISCARDED", None, {})}
                   [] OTHER -> Failed(w, c, lk, b, k, {})
      BY <1>1, <2>2, <2>4 DEF t_should_relay_response, Coded
    <3>2. NegativeCode(code)
      BY <1>1, <2>4 DEF NegativeCode, Span
    <3>3. CASE k = Pending
      <4>1. o = Stored(w, c, lk, b)
        BY <3>1, <3>3 DEF Pending, None
      <4> QED
        BY <2>1, <3>2, <3>3, <4>1 DEF Cases
    <3>4. CASE k # Pending
      <4>1. k = None \/ o \in Failed(w, c, lk, b, k, {})
        BY <3>1, <3>4
      <4>2. Picked(w, c, k)
        BY <3>4 DEF Picked
      <4> QED
        BY <2>1, <3>2, <4>1, <4>2 DEF Cases
    <3> QED
      BY <3>3, <3>4
  <2>5. CASE code >= 200 /\ code < 300
    <3>1. o \in {Outcome(MarkCancel(w, Round(c)), c, lk, "RPS_COMPLETED", b, which_cancel(w, c))}
      BY <1>1, <2>2, <2>5 DEF t_should_relay_response, Coded
    <3>2. Success(code)
      BY <1>1, <2>5 DEF Success, Span
    <3> QED
      BY <2>1, <3>1, <3>2 DEF Cases, Completes2xx
  <2>6. CASE code < 200
    <3>1. o \in {Outcome(w, c, lk, "RPS_PROVISIONAL", IF code = 100 THEN None ELSE b, {})}
      BY <1>1, <2>2, <2>6 DEF t_should_relay_response, Coded
    <3>2. Early(code)
      BY <1>1, <2>6 DEF Early, IsReply, Span
    <3> QED
      BY <2>1, <3>1, <3>2 DEF Cases, Provisions
  <2> QED
    BY <1>1, <2>3, <2>4, <2>5, <2>6
<1> QED
  BY <1>1, <1>2, <1>3, <1>4

\* Branches are added only once a final reply was counted in.
Tried(u, b, code, w, c, o) ==
  o.cell.nr = c.nr \/ (w = Coded(u, b, code) /\ u[b].last < 200 /\ code >= 200)

\* Whatever t_should_relay_response decides: it counts the reply in or not,
\* keeps its promises, and tries another branch only after a final reply.
LEMMA Decision ==
  ASSUME NEW u, NEW c, NEW lk, NEW b \in Branches, Deciding(u, c, lk, b),
         NEW code \in StatusCodes, IsReply(code),
         NEW o \in t_should_relay_response(u, c, lk, b, code)
  PROVE  \E w : Counted(u, b, code, w) /\ Decided(w, c, lk, b, o) /\ Tried(u, b, code, w, c, o)
<1> DEFINE w == Coded(u, b, code)
<1>1. /\ u \in UacType /\ c \in CellType /\ lk \in LinkType /\ BranchOK(u, c, lk)
      /\ b < c.nr /\ ReplyOK(u, c.status)
  BY DEF Deciding
<1>2. Cases(u, c, lk, b, code, w, o)
  BY DecisionCases
<1>3. c.status \in StatusCodes /\ u[b].last \in StatusCodes
  BY <1>1 DEF CellType, UacType, BranchType
<1>4. c.status \in Nat /\ u[b].last \in Nat /\ code \in Nat
  BY <1>3, CodeNumbers
<1>5. Awaited(u, c, b) => Counted(u, b, code, w) /\ c.status < 200 /\ u[b].last < 200
  BY DEF Counted, Awaited
<1>6. ASSUME StaysFinal(u, b, code)
      PROVE  IsCoded(u, b, code, w) /\ BranchOK(w, c, lk) /\ w \in UacType /\ Kept(w, w)
  <2>1. IsCoded(u, b, code, w) /\ BranchOK(w, c, lk)
    BY <1>6, CodedOK
  <2>2. w \in UacType
    BY <2>1, Zenon DEF IsCoded
  <2> QED
    BY <2>1, <2>2, KeptRefl
<1>7. which_cancel(w, c) \subseteq Branches
  BY <1>1, BranchNumbers DEF which_cancel, Round, CellType
<1>15. Awaited(u, c, b) /\ (Success(code) \/ GlobalCode(code) \/ NegativeCode(code))
         => Tried(u, b, code, w, c, o)
  BY <1>4 DEF Tried, Awaited, Success, GlobalCode, NegativeCode, Span
<1> HIDE DEF w
<1>8. CASE Discards(u, c, lk, o)
  <2>1. StaysFinal(u, b, u[b].last) /\ Kept(u, u)
    BY <1>1, KeptRefl DEF StaysFinal
  <2>2. AnswerOK(c.status, u, c, c.status)
    BY DEF AnswerOK
  <2>3. "RPS_DISCARDED" \in RelayTypes
    BY DEF RelayTypes
  <2>4. Decided(u, c, lk, b, Outcome(u, c, lk, "RPS_DISCARDED", None, {}))
    BY <1>1, <1>3, <2>1, <2>2, <2>3, PlainDecided, Zenon
  <2>5. Tried(u, b, code, u, c, o)
    BY <1>8, Zenon DEF Discards, Outcome, Tried
  <2> QED
    BY <1>8, <2>4, <2>5, Zenon DEF Discards, Counted
<1>9. CASE c.status >= 200 /\ kind.invite /\ Success(code) /\ Pushes(w, c, lk, b, o)
  <2>1. StaysFinal(u, b, code) /\ Counted(u, b, code, w) /\ code \in Span(200, 299) /\ ~(code < 200)
    BY <1>9 DEF StaysFinal, Counted, Success, w, Span
  <2>2. Kept(w, w) /\ w[b].last = code
    BY <1>6, <2>1 DEF IsCoded
  <2>3. ReplyOK(w, code) /\ AnswerOK(c.status, w, c, code) /\ code >= 200
    BY <1>9, <2>1, <2>2 DEF ReplyOK, AnswerOK, Span
  <2>4. "RPS_PUSHED_AFTER_COMPLETION" \in RelayTypes /\ b # None
    BY BranchNumbers DEF RelayTypes
  <2>5. Decided(w, c, lk, b, Outcome(w, c, lk, "RPS_PUSHED_AFTER_COMPLETION", b, {}))
    BY <2>1, <2>2, <2>3, <2>4, PlainDecided, Zenon DEF w
  <2>6. Tried(u, b, code, w, c, o)
    BY <1>9 DEF Pushes, Outcome, Tried
  <2> QED
    BY <1>9, <2>1, <2>5, <2>6 DEF Pushes
<1>10. CASE Awaited(u, c, b) /\ GlobalCode(code) /\ EndsAll(w, c, lk, b, o)
  <2>1. StaysFinal(u, b, code)
    BY <1>4, <1>10 DEF StaysFinal, GlobalCode
  <2>2. Kept(w, MarkCancel(w, Round(c)))
    BY <1>6, <2>1, MarkCancelKept
  <2>3. Decided(w, c, lk, b, o)
    BY <1>7, <1>10, <2>2, GlobalFailure DEF EndsAll, w
  <2> QED
    BY <1>5, <1>10, <1>15, <2>3, Zenon
<1>11. CASE /\ Awaited(u, c, b) /\ NegativeCode(code) /\ t_pick_branch(w, c) = Pending
            /\ o = Stored(w, c, lk, b)
  <2>1. StaysFinal(u, b, code) /\ code \in Span(300, 599)
    BY <1>4, <1>11 DEF StaysFinal, NegativeCode, Span
  <2> DEFINE v == Set(w, b, [w[b] EXCEPT !.reply = TRUE])
  <2>2. Kept(w, v) /\ IsCoded(u, b, code, w)
    BY <1>6, <2>1, StoreKept
  <2>3. v[b].reply
    <3>1. w[b] \in BranchType
      BY <1>6, <2>1 DEF UacType
    <3> QED
      BY <3>1 DEF Set, BranchType
  <2>4. o = Outcome(v, c, lk, "RPS_STORE", None, {})
    BY <1>11 DEF Stored
  <2> HIDE DEF v
  <2>5. \A a \in Branches : v[a].last >= 200 => v[a].reply /\ v[a].last \in Span(300, 599)
    <3> SUFFICES ASSUME NEW a \in Branches, v[a].last >= 200
                 PROVE  v[a].reply /\ v[a].last \in Span(300, 599)
      BY Zenon
    <3>1. v[a].last = w[a].last /\ (w[a].reply => v[a].reply)
      BY <2>2 DEF Kept
    <3>2. CASE a = b
      BY <2>1, <2>2, <2>3, <3>1, <3>2, Zenon DEF IsCoded
    <3>3. CASE a # b
      <4>1. w[a] = u[a]
        BY <2>2, <3>3 DEF IsCoded
      <4>2. u[a].last >= 200
        BY <3>1, <4>1
      <4>3. u[a].reply /\ u[a].last \in Span(300, 599)
        BY <1>1, <1>5, <1>11, <4>2, Zenon DEF ReplyOK
      <4> QED
        BY <3>1, <4>1, <4>3 DEF Span
    <3> QED
      BY <3>2, <3>3, Zenon
  <2>6. ReplyOK(v, c.status) /\ AnswerOK(c.status, v, c, c.status)
    BY <2>5, Zenon DEF ReplyOK, AnswerOK
  <2>7. "RPS_STORE" \in RelayTypes
    BY DEF RelayTypes
  <2>8. Decided(w, c, lk, b, Outcome(v, c, lk, "RPS_STORE", None, {}))
    BY <2>1, <2>2, <2>6, <2>7, PlainDecided, Zenon DEF w
  <2> QED
    BY <1>5, <1>11, <1>15, <2>4, <2>8, Zenon
<1>12. ASSUME Awaited(u, c, b), NegativeCode(code), NEW k, Picked(w, c, k),
              k = None \/ o \in Failed(w, c, lk, b, k, {})
       PROVE  Decided(w, c, lk, b, o)
  <2>1. k \in Branches /\ Negative(w, c, lk, b) /\ Wins(w, c, b, k)
    BY <1>12, PickedWins DEF w
  <2>2. o \in Failed(w, c, lk, b, k, {})
    BY <1>12, <2>1, BranchNumbers
  <2>3. w \in UacType
    BY <2>1, Zenon DEF Negative
  <2>4. FailOutcome(w, c, lk, b, k, {}, o)
    BY <1>1, <2>2, <2>3, FailedOutcome
  <2> QED
    BY <2>1, <2>4, FailDecided
<1>13. CASE Awaited(u, c, b) /\ Success(code) /\ Completes2xx(w, c, lk, b, o)
  <2>1. StaysFinal(u, b, code) /\ code \in Span(200, 299)
    BY <1>4, <1>13 DEF StaysFinal, Success, Span
  <2> DEFINE v == MarkCancel(w, Round(c))
  <2>2. Kept(w, v) /\ IsCoded(u, b, code, w)
    BY <1>6, <2>1, MarkCancelKept
  <2>3. o = Outcome(v, c, lk, "RPS_COMPLETED", b, which_cancel(w, c))
    BY <1>13 DEF Completes2xx
  <2> HIDE DEF v
  <2>4. v[b].last = code
    BY <2>2 DEF Kept, IsCoded
  <2>5. ReplyOK(v, code) /\ AnswerOK(c.status, v, c, code) /\ code >= 200
    BY <1>5, <1>13, <2>1, <2>4 DEF ReplyOK, AnswerOK, Span
  <2>6. "RPS_COMPLETED" \in RelayTypes /\ b # None
    BY BranchNumbers DEF RelayTypes
  <2>7. Decided(w, c, lk, b, Outcome(v, c, lk, "RPS_COMPLETED", b, which_cancel(w, c)))
    BY <1>7, <2>1, <2>2, <2>4, <2>5, <2>6, PlainDecided, Zenon DEF w
  <2> QED
    BY <1>5, <1>13, <1>15, <2>3, <2>7, Zenon
<1>14. CASE Awaited(u, c, b) /\ Early(code) /\ Provisions(w, c, lk, b, code, o)
  <2>1. StaysFinal(u, b, code) /\ code \in Span(100, 199)
    BY <1>4, <1>5, <1>14 DEF StaysFinal, Early
  <2>2. Kept(w, w) /\ IsCoded(u, b, code, w)
    BY <1>6, <2>1
  <2>3. \A a \in Branches : w[a].last >= 200 => w[a].reply /\ w[a].last \in Span(300, 599)
    <3> SUFFICES ASSUME NEW a \in Branches, w[a].last >= 200
                 PROVE  w[a].reply /\ w[a].last \in Span(300, 599)
      BY Zenon
    <3>1. w[b].last = code /\ (a # b => w[a] = u[a])
      BY <2>2 DEF IsCoded
    <3>2. a # b
      BY <2>1, <3>1 DEF Span
    <3> QED
      BY <1>1, <1>5, <1>14, <3>1, <3>2, Zenon DEF ReplyOK
  <2>4. w[b].last = code
    BY <2>2 DEF IsCoded
  <2>5. /\ ReplyOK(w, code) /\ AnswerOK(c.status, w, c, code) /\ ~(c.status >= 200)
        /\ ReplyOK(w, c.status) /\ AnswerOK(c.status, w, c, c.status)
    BY <1>4, <1>5, <1>14, <2>1, <2>3 DEF ReplyOK, AnswerOK
  <2>6. "RPS_PROVISIONAL" \in RelayTypes /\ b # None
    BY BranchNumbers DEF RelayTypes
  <2>7. \A relay \in {None, b} : Decided(w, c, lk, b, Outcome(w, c, lk, "RPS_PROVISIONAL", relay, {}))
    <3> SUFFICES ASSUME NEW relay \in {None, b}
                 PROVE  Decided(w, c, lk, b, Outcome(w, c, lk, "RPS_PROVISIONAL", relay, {}))
      OBVIOUS
    <3>1. LET s == IF relay = None THEN c.status ELSE w[b].last
          IN ReplyOK(w, s) /\ AnswerOK(c.status, w, c, s) /\ (c.status >= 200 => s >= 200)
      BY <2>4, <2>5
    <3> QED
      BY <2>1, <2>2, <2>6, <3>1, PlainDecided, Zenon DEF w
  <2>8. Tried(u, b, code, w, c, o)
    BY <1>14 DEF Provisions, Outcome, Tried
  <2> QED
    BY <1>5, <1>14, <2>7, <2>8, Zenon DEF Provisions
<1> QED
  BY <1>2, <1>5, <1>15, <1>8, <1>9, <1>10, <1>11, <1>12, <1>13, <1>14, Zenon DEF Cases

\* What may be said upstream depends on the number of branches and on the
\* CANCEL only.
LEMMA AnswerStill ==
  ASSUME NEW s, NEW u, NEW c, NEW d, NEW t, AnswerOK(s, u, c, t), c.nr = d.nr,
         c.cancelled = d.cancelled
  PROVE  AnswerOK(s, u, d, t)
<1>2. EndedIn(u, c) <=> EndedIn(u, d)
  BY DEF EndedIn, AllFinal
<1>4. \A k : BestIn(u, c, k) => BestIn(u, d, k)
  BY <1>2 DEF BestIn
<1> QED
  BY <1>2, <1>4 DEF AnswerOK

\* The status and the relayed branch are written after the decision, and
\* touch nothing it has established.
LEMMA FollowsStill ==
  ASSUME NEW u, NEW c, NEW lk, NEW v, NEW d, NEW l, NEW e, Follows(u, c, lk, v, d, l), Still(d, e)
  PROVE  Follows(u, c, lk, v, e, l)
<1>1. /\ e \in CellType /\ e.first = d.first /\ e.nr = d.nr /\ e.life = d.life /\ e.ref = d.ref
      /\ (e.cancelled <=> d.cancelled) /\ (e.kr <=> d.kr)
  BY DEF Still
<1>2. BranchOK(v, e, l)
  BY <1>1, Zenon DEF Follows, BranchOK
<1>3. d.nr = e.nr /\ e.life = d.life /\ e.ref = d.ref
  BY <1>1
<1> QED
  BY <1>1, <1>2, Zenon DEF Follows

\* A decision, carried out: relay_reply and local_reply write the status of
\* the cell and leave the lock with what remains to be sent.
LEMMA DecideOutcomes ==
  ASSUME IInv, NEW p \in Procs, NEW u, Kept(uac, u), NEW b \in Branches, b < cell.nr,
         NEW code \in StatusCodes, IsReply(code), NEW found \in SUBSET Branches,
         Decide(p, u, b, code, found)
  PROVE  Carried(p, u, b, code)
<1>1. /\ TypeOK /\ cell \in CellType /\ uac \in UacType /\ link \in LinkType /\ proc[p] \in ProcType
      /\ BranchOK(uac, cell, link) /\ ReplyOK(uac, cell.status) /\ (cell.noNew => cell.status >= 200)
  BY DEF IInv, TypeOK, BranchInv, ReplyInv
<1>2. Deciding(u, cell, link, b)
  <2>1. BranchOK(u, cell, link)
    BY <1>1 DEF Kept, BranchOK
  <2>2. ReplyOK(u, cell.status)
    BY <1>1, Zenon DEF Kept, ReplyOK
  <2> QED
    BY <1>1, <2>1, <2>2 DEF Deciding, Kept
<1>3. PICK o \in t_should_relay_response(u, cell, link, b, code) :
        /\ uac' = o.uac /\ link' = o.link
        /\ cell' = IF o.relay = None THEN o.cell
                   ELSE [o.cell EXCEPT !.status = o.uac[o.relay].last,
                                       !.relaied = IF kind.local THEN @ ELSE o.relay]
        /\ proc' = [proc EXCEPT ![p].pc = "unlocked", ![p].rps = o.rps,
                                ![p].relay = o.relay,
                                ![p].code = IF o.relay = None THEN code
                                            ELSE o.uac[o.relay].last,
                                ![p].bm = IF proc[p].op = "reply" THEN o.bm ELSE found]
  BY Zenon DEF Decide
<1>4. PICK w : Counted(u, b, code, w) /\ Decided(w, cell, link, b, o) /\ Tried(u, b, code, w, cell, o)
  BY <1>2, Decision
<1>5. /\ Follows(w, cell, link, o.uac, o.cell, o.link)
      /\ o.relay \in {None} \cup Branches
      /\ o.relay \in Branches /\ o.relay # b => o.uac[o.relay].reply
      /\ ReplyOK(o.uac, NewStatus(o))
      /\ AnswerOK(cell.status, o.uac, o.cell, NewStatus(o))
      /\ o.cell.noNew => NewStatus(o) >= 200
      /\ o.bm \in SUBSET Branches /\ o.rps \in RelayTypes
  BY <1>4, Zenon DEF Decided
<1>6. o.uac \in UacType /\ o.cell \in CellType /\ o.link \in LinkType
      /\ BranchOK(o.uac, o.cell, o.link)
  BY <1>5, Zenon DEF Follows
<1>7. o.relay # None => o.uac[o.relay].last \in StatusCodes /\ o.relay \in Branches
  BY <1>5, <1>6, Zenon DEF UacType, BranchType
<1>8. /\ Still(o.cell, cell') /\ cell'.status = NewStatus(o)
      /\ (cell'.noNew => o.cell.noNew) /\ o.cell.nr = cell'.nr
      /\ o.cell.cancelled = cell'.cancelled
  <2>1. CASE o.relay = None
    BY <1>3, <1>6, <2>1 DEF Still, NewStatus
  <2>2. CASE o.relay # None
    <3> DEFINE n == o.uac[o.relay].last
               m == IF kind.local THEN o.cell.relaied ELSE o.relay
    <3>1. cell' = [o.cell EXCEPT !.status = n, !.relaied = m]
      BY <1>3, <2>2
    <3>2. n \in StatusCodes /\ m \in {None, Local} \cup Branches /\ n = NewStatus(o)
      BY <1>6, <1>7, <2>2, Zenon DEF CellType, NewStatus
    <3> DEFINE c == o.cell
               d == cell'
    <3>3. c \in CellType /\ d = [c EXCEPT !.status = n, !.relaied = m]
      BY <1>6, <3>1
    <3> HIDE DEF n, m, c, d
    <3>5. /\ d \in CellType /\ d.first = c.first /\ d.nr = c.nr /\ d.life = c.life /\ d.ref = c.ref
          /\ d.status = n
      BY <3>2, <3>3, Zenon DEF CellType
    <3>6. d.cancelled = c.cancelled /\ d.kr = c.kr /\ d.noNew = c.noNew
      BY <3>3 DEF CellType
    <3>4. /\ Still(c, d) /\ d.status = n /\ (d.noNew => c.noNew) /\ c.nr = d.nr
          /\ c.cancelled = d.cancelled
      BY <3>5, <3>6, Zenon DEF Still
    <3> QED
      BY <3>2, <3>4 DEF c, d
  <2> QED
    BY <2>1, <2>2, Zenon
<1>9. Follows(w, cell, link, uac', cell', link')
  <2>1. uac' = o.uac /\ link' = o.link
    BY <1>3
  <2>2. Follows(w, cell, link, o.uac, cell', o.link)
    BY <1>5, <1>8, FollowsStill, Zenon
  <2> QED
    BY <2>1, <2>2
<1>10. ReplyInv'
  BY <1>3, <1>5, <1>8 DEF ReplyInv
<1>11. AnswerOK(cell.status, uac', cell', cell'.status)
  <2>1. AnswerOK(cell.status, o.uac, cell', NewStatus(o))
    BY <1>5, <1>8, AnswerStill, Zenon
  <2> QED
    BY <1>3, <1>8, <2>1
<1>19. cell'.nr = cell.nr \/ (w = Coded(u, b, code) /\ u[b].last < 200 /\ code >= 200)
  BY <1>4, <1>8, Zenon DEF Tried
<1>12. Outcomes(u, b, code, w)
  BY <1>4, <1>9, <1>10, <1>11, <1>19, Zenon DEF Outcomes
<1> DEFINE n == IF o.relay = None THEN code ELSE o.uac[o.relay].last
           m == IF proc[p].op = "reply" THEN o.bm ELSE found
           y == o.relay
           t == o.rps
           r == [proc[p] EXCEPT !.pc = "unlocked", !.rps = t, !.relay = y, !.code = n, !.bm = m]
<1>13. n \in Int /\ m \in SUBSET Branches /\ y \in {None} \cup Branches /\ t \in RelayTypes
  BY <1>5, <1>7, CodeNumbers
<1>14. proc' = [proc EXCEPT ![p].pc = "unlocked", ![p].rps = t, ![p].relay = y, ![p].code = n, ![p].bm = m]
  BY <1>3
<1>15. y \in {None, b} \/ uac'[y].reply
  BY <1>3, <1>5
<1> HIDE DEF n, m, y, t
<1>16. proc' = [proc EXCEPT ![p] = r]
  BY <1>1, <1>14, Zenon DEF TypeOK
<1>17. /\ r \in ProcType /\ r.pc = "unlocked" /\ r.op = proc[p].op /\ r.b = proc[p].b
       /\ r.todo = proc[p].todo /\ r.relay = y
  <2>1. "unlocked" \in Pcs
    BY DEF Pcs
  <2> QED
    BY <1>1, <1>13, <2>1, Zenon DEF ProcType
<1> HIDE DEF r
<1>18. Out(p, b, r)
  BY <1>15, <1>16, <1>17, Zenon DEF Out
<1> QED
  BY <1>12, <1>18 DEF Carried
=============================================================================
