------------------------- MODULE TransactionPromise -------------------------
(***************************************************************************)
(* The steps of Transaction, seen as steps of ForkingProxy: the refinement *)
(* mapping applied to the branches before and after, and each action shown *)
(* to be one step of the proxy or none.                                    *)
(***************************************************************************)
EXTENDS TransactionFrame

\* What the proxy sees of the branches u.
Results(u) == [b \in Branches |-> IF u[b].last >= 200 THEN u[b].last ELSE 0]

Rounds(u) == [b \in Branches |-> u[b].round]

Live(u) == {b \in Branches : u[b].buffer /\ u[b].sent # "failed" /\ u[b].last < 200}

\* When every branch is final, the proxy awaits none.
LEMMA LiveMaps ==
  ASSUME NEW u \in UacType, NEW c \in CellType, NEW lk, BranchOK(u, c, lk), AllFinal(u, c)
  PROVE  Live(u) = {}
<1> SUFFICES ASSUME NEW b \in Branches, u[b].buffer, u[b].sent # "failed", u[b].last < 200
             PROVE  FALSE
  BY DEF Live
<1>1. u[b].last \in Nat /\ c.nr \in Nat /\ b \in Nat
  <2>1. u[b].last \in StatusCodes
    BY DEF UacType, BranchType
  <2> QED
    BY <2>1, CodeNumbers, BranchNumbers DEF CellType
<1>2. b < c.nr
  <2>1. b >= c.nr => ~u[b].buffer
    BY DEF BranchOK
  <2> QED
    BY <1>1, <2>1
<1> QED
  BY <1>1, <1>2 DEF AllFinal

\* When the code stops waiting, so may the proxy.
LEMMA EndedMaps ==
  ASSUME TypeOK', BranchInv', EndedIn(uac', cell')
  PROVE  Proxy!Ended'
<1>1. uac' \in UacType /\ cell' \in CellType /\ BranchOK(uac', cell', link')
  BY DEF TypeOK, BranchInv
<1>2. CASE AllFinal(uac', cell')
  <2>1. Live(uac') = {}
    BY <1>1, <1>2, LiveMaps
  <2> QED
    BY <2>1 DEF Proxy!Ended, Live
<1>3. CASE cell'.cancelled
  BY <1>3 DEF Proxy!Ended
<1>4. CASE \E a \in Branches : uac'[a].last >= 600
  <2>1. PICK a \in Branches : uac'[a].last >= 600
    BY <1>4
  <2>2. uac'[a].last \in Nat
    <3>1. uac'[a].last \in StatusCodes
      BY <1>1 DEF UacType, BranchType
    <3> QED
      BY <3>1, CodeNumbers
  <2>3. uac'[a].last >= 200
    BY <2>1, <2>2
  <2> QED
    BY <2>1, <2>3 DEF Proxy!Ended
<1> QED
  BY <1>2, <1>3, <1>4 DEF EndedIn

\* t_pick_branch and the proxy rank codes alike.
LEMMA RankMaps ==
  ASSUME NEW a \in Branches
  PROVE  Proxy!Rank(Results(uac)[a])' = PickRank(cell'.cancelled, Results(uac')[a])
BY DEF Proxy!Rank, PickRank, Results

\* The branch t_pick_branch prefers is the best of its round.
LEMMA BestMaps ==
  ASSUME TypeOK', BranchInv', NEW k \in Branches, BestIn(uac', cell', k)
  PROVE  Proxy!Best(k)'
<1> DEFINE res == Results(uac')
<1>1. \A a \in Branches : uac'[a].last \in Nat
  <2>1. \A a \in Branches : uac'[a].last \in StatusCodes
    BY DEF TypeOK, UacType, BranchType
  <2> QED
    BY <2>1, CodeNumbers
<1>2. /\ \A a \in Branches : uac'[a].last >= 200 => res[a] = uac'[a].last
      /\ \A a \in Branches : res[a] >= 200 => res[a] = uac'[a].last
      /\ \A a \in Branches : res[a] \in Nat
  BY <1>1 DEF Results
<1>6. Rounds(uac') = [b \in Branches |-> uac'[b].round]
  BY DEF Rounds
<1>3. CASE uac'[k].last >= 600
  <2>1. res[k] >= 600
    BY <1>1, <1>2, <1>3
  <2> QED
    BY <2>1 DEF Results, Proxy!Best
<1>4. CASE /\ EndedIn(uac', cell') /\ uac'[k].last >= 300
           /\ \A a \in Branches : uac'[a].round = uac'[k].round /\ uac'[a].last >= 300
                => PickRank(cell'.cancelled, uac'[k].last) <= PickRank(cell'.cancelled, uac'[a].last)
  <2>1. Proxy!Ended'
    BY <1>4, EndedMaps
  <2>2. res[k] = uac'[k].last /\ res[k] >= 300
    BY <1>1, <1>2, <1>4
  <2>3. ASSUME NEW a \in Branches, Rounds(uac')[a] = Rounds(uac')[k], res[a] >= 300
        PROVE  Proxy!Rank(Results(uac)[k])' <= Proxy!Rank(Results(uac)[a])'
    <3>1. res[a] = uac'[a].last /\ uac'[a].round = uac'[k].round
      BY <1>1, <1>2, <2>3 DEF Rounds
    <3>2. PickRank(cell'.cancelled, res[k]) <= PickRank(cell'.cancelled, res[a])
      BY <1>4, <2>2, <2>3, <3>1
    <3> QED
      BY <3>2, RankMaps
  <2> QED
    BY <2>1, <2>2, <2>3 DEF Results, Rounds, Proxy!Best
<1> QED
  BY <1>3, <1>4 DEF BestIn

\* What the code says upstream, the proxy may say.
LEMMA AnswerMaps ==
  ASSUME TypeOK', BranchInv', AnswerOK(cell.status, uac', cell', cell'.status)
  PROVE  Proxy!Answer
<1>1. CASE cell'.status = cell.status
  BY <1>1 DEF Proxy!Answer
<1>2. CASE cell.status < 200 /\ cell'.status \in Span(100, 199)
  BY <1>2 DEF Proxy!Answer, Span
<1>3. CASE cell.status < 200 /\ EndedIn(uac', cell') /\ cell'.status \in Span(400, 599)
  <2>1. Proxy!Ended'
    BY <1>3, EndedMaps
  <2> QED
    BY <1>3, <2>1 DEF Proxy!Answer, Span
<1>4. ASSUME NEW k \in Branches, cell'.status = uac'[k].last, cell.status < 200, BestIn(uac', cell', k)
      PROVE  Proxy!Answer
  <2>1. Proxy!Best(k)'
    BY <1>4, BestMaps
  <2>2. uac'[k].last \in StatusCodes
    BY DEF TypeOK, UacType, BranchType
  <2>3. uac'[k].last \in Nat /\ (uac'[k].last >= 600 \/ uac'[k].last >= 300)
    BY <1>4, <2>2, CodeNumbers DEF BestIn
  <2>4. Results(uac')[k] = uac'[k].last
    BY <2>3 DEF Results
  <2> QED
    BY <1>4, <2>1, <2>4 DEF Proxy!Answer, Results
<1>5. ASSUME NEW k \in Branches, cell'.status = uac'[k].last, cell.status < 200 \/ kind.invite,
             cell'.status \in Span(200, 299)
      PROVE  Proxy!Answer
  <2>1. Results(uac')[k] = uac'[k].last
    BY <1>5 DEF Results, Span
  <2> QED
    BY <1>5, <2>1 DEF Proxy!Answer, Results, Span
<1> QED
  BY <1>1, <1>2, <1>3, <1>4, <1>5 DEF AnswerOK

\* Marks and stored replies are not seen upstream.
LEMMA SameBranches ==
  ASSUME Kept(uac, uac')
  PROVE  Results(uac') = Results(uac) /\ Rounds(uac') = Rounds(uac) /\ Live(uac') = Live(uac)
BY DEF Kept, Results, Rounds, Live

\* A step that only marks branches is none of the proxy.
LEMMA StutterMaps ==
  ASSUME Kept(uac, uac'), kind' = kind, cell'.status = cell.status, cell'.cancelled = cell.cancelled
  PROVE  UNCHANGED Proxy!vars
BY SameBranches DEF Proxy!vars, Results, Rounds, Live

\* A step that marks branches and answers is one of the proxy.
LEMMA SayMaps ==
  ASSUME Kept(uac, uac'), kind' = kind, cell'.cancelled = cell.cancelled, Proxy!Answer
  PROVE  Proxy!Next
<1>1. /\ Results(uac') = Results(uac) /\ Rounds(uac') = Rounds(uac) /\ Live(uac') = Live(uac)
      /\ kind'.invite = kind.invite
  BY SameBranches
<1> QED
  BY <1>1 DEF Proxy!Next, Results, Rounds, Live

\* A CANCEL of the transaction is one of the request.
LEMMA CancelMaps ==
  ASSUME uac' = uac, kind' = kind, cell'.status = cell.status, cell'.cancelled = TRUE
  PROVE  Proxy!Next
<1>1. Proxy!Cancel
  BY DEF Proxy!Cancel
<1> QED
  BY <1>1 DEF Proxy!Next

\* The branches a decision leaves as they are, and those it adds.
LEMMA DecidedBranches ==
  ASSUME IInv, TypeOK', BranchInv', NEW u, Kept(uac, u), NEW b \in Branches, b < cell.nr,
         NEW code \in StatusCodes, NEW w, Outcomes(u, b, code, w)
  PROVE  /\ \A a \in Branches : a < cell.nr =>
              /\ uac'[a].last = w[a].last /\ uac'[a].sent = uac[a].sent
              /\ uac'[a].round = uac[a].round /\ uac'[a].buffer = uac[a].buffer
         /\ \A a \in Branches : a >= cell.nr =>
              /\ uac'[a].last = 0 /\ uac[a].last = 0 /\ ~uac[a].buffer /\ uac[a].round = None
              /\ a < cell'.nr => uac'[a].buffer /\ uac'[a].round \in Branches
              /\ a >= cell'.nr => ~uac'[a].buffer /\ uac'[a].round = None
         /\ cell.nr \in Nat /\ cell'.nr \in Nat /\ cell.nr <= cell'.nr
<1>1. /\ TypeOK /\ cell \in CellType /\ uac \in UacType /\ BranchOK(uac, cell, link)
      /\ cell' \in CellType /\ uac' \in UacType /\ BranchOK(uac', cell', link')
  BY DEF IInv, TypeOK, BranchInv
<1>2. Follows(w, cell, link, uac', cell', link') /\ Counted(u, b, code, w)
  BY DEF Outcomes
<1>3. cell.nr \in Nat /\ cell'.nr \in Nat /\ cell.nr <= cell'.nr
  BY <1>1, <1>2, BranchNumbers DEF CellType, Follows
<1>4. \A a \in Branches : w[a].sent = uac[a].sent /\ w[a].round = uac[a].round
  <2>1. \A a \in Branches : u[a].sent = uac[a].sent /\ u[a].round = uac[a].round
    BY DEF Kept
  <2>2. CASE w = u
    BY <2>1, <2>2
  <2>3. CASE w = Coded(u, b, code)
    <3>1. IsCoded(u, b, code, w)
      BY <2>3, CodedBranches DEF Kept
    <3> QED
      BY <2>1, <3>1 DEF IsCoded
  <2> QED
    BY <1>2, <2>2, <2>3 DEF Counted
<1>5. ASSUME NEW a \in Branches, a < cell.nr
      PROVE  /\ uac'[a].last = w[a].last /\ uac'[a].sent = uac[a].sent
             /\ uac'[a].round = uac[a].round /\ uac'[a].buffer = uac[a].buffer
  <2>1. a < cell'.nr
    BY <1>3, <1>5, BranchNumbers
  <2>2. uac'[a].buffer /\ uac[a].buffer
    BY <1>1, <1>5, <2>1 DEF BranchOK
  <2>3. uac'[a].buffer \in BOOLEAN /\ uac[a].buffer \in BOOLEAN
    BY <1>1 DEF UacType, BranchType
  <2>4. uac'[a].buffer = uac[a].buffer
    BY <2>2, <2>3, Zenon
  <2> QED
    BY <1>2, <1>4, <1>5, <2>4 DEF Follows
<1>6. ASSUME NEW a \in Branches, a >= cell.nr
      PROVE  /\ uac'[a].last = 0 /\ uac[a].last = 0 /\ ~uac[a].buffer /\ uac[a].round = None
             /\ a < cell'.nr => uac'[a].buffer /\ uac'[a].round \in Branches
             /\ a >= cell'.nr => ~uac'[a].buffer /\ uac'[a].round = None
  <2>1. uac[a].last = 0 /\ ~uac[a].buffer /\ uac[a].round = None
    BY <1>1, <1>6 DEF BranchOK
  <2>2. uac'[a].last = 0
    BY <1>2, <1>6 DEF Follows
  <2>3. a >= cell'.nr => ~uac'[a].buffer /\ uac'[a].round = None
    BY <1>1 DEF BranchOK
  <2>4. a < cell'.nr => uac'[a].buffer
    BY <1>1 DEF BranchOK
  <2>5. ASSUME a < cell'.nr PROVE uac'[a].round \in Branches
    <3>1. cell'.first \in Nat /\ cell'.nr # 0 /\ cell'.nr <= MaxBranches /\ a \in Nat
      BY <1>1, <1>3, <2>5, BranchNumbers DEF CellType
    <3>2. cell'.first < cell'.nr
      BY <1>1, <3>1 DEF BranchOK
    <3>3. CASE cell'.first <= a
      <4>1. uac'[a].round = cell'.first
        BY <1>1, <2>5, <3>3 DEF BranchOK
      <4> QED
        BY <1>3, <3>1, <3>2, <4>1, BranchNumbers DEF Branches
    <3>4. CASE a < cell'.first
      <4>1. uac'[a].round # None
        BY <1>1, <3>4 DEF BranchOK
      <4>2. uac'[a].round \in {None} \cup Branches
        BY <1>1 DEF UacType, BranchType
      <4> QED
        BY <4>1, <4>2
    <3> QED
      BY <3>1, <3>3, <3>4
  <2> QED
    BY <2>1, <2>2, <2>3, <2>4, <2>5
<1> QED
  BY <1>3, <1>5, <1>6

\* A decision counts one result in or none, may try other branches, and
\* answers: one step of the proxy.
LEMMA DecideMaps ==
  ASSUME IInv, TypeOK', BranchInv', NEW u, Kept(uac, u), NEW b \in Branches, b < cell.nr,
         NEW code \in StatusCodes, NEW w, Outcomes(u, b, code, w), kind' = kind
  PROVE  Proxy!Next
<1>1. /\ \A a \in Branches : a < cell.nr =>
           /\ uac'[a].last = w[a].last /\ uac'[a].sent = uac[a].sent
           /\ uac'[a].round = uac[a].round /\ uac'[a].buffer = uac[a].buffer
      /\ \A a \in Branches : a >= cell.nr =>
           /\ uac'[a].last = 0 /\ uac[a].last = 0 /\ ~uac[a].buffer /\ uac[a].round = None
           /\ a < cell'.nr => uac'[a].buffer /\ uac'[a].round \in Branches
           /\ a >= cell'.nr => ~uac'[a].buffer /\ uac'[a].round = None
      /\ cell.nr \in Nat /\ cell'.nr \in Nat /\ cell.nr <= cell'.nr
  BY DecidedBranches
<1>2. \A a \in Branches : /\ a \in Nat /\ (a < cell.nr \/ a >= cell.nr) /\ uac[a].last \in Nat
                          /\ uac'[a].last \in Nat
  <2>1. \A a \in Branches : uac[a].last \in StatusCodes /\ uac'[a].last \in StatusCodes
    BY DEF IInv, TypeOK, UacType, BranchType
  <2> QED
    BY <1>1, <2>1, BranchNumbers, CodeNumbers
<1>3. /\ Counted(u, b, code, w) /\ AnswerOK(cell.status, uac', cell', cell'.status)
      /\ cell'.nr = cell.nr \/ (w = Coded(u, b, code) /\ u[b].last < 200 /\ code >= 200)
      /\ code \in Nat
  BY CodeNumbers DEF Outcomes
<1>4. Proxy!Answer
  BY <1>3, AnswerMaps
<1>5. kind'.invite = kind.invite /\ cell'.cancelled = cell.cancelled
  <2>1. cell'.cancelled <=> cell.cancelled
    BY DEF Outcomes, Follows
  <2>2. cell'.cancelled \in BOOLEAN /\ cell.cancelled \in BOOLEAN
    BY DEF IInv, TypeOK, CellType
  <2> QED
    BY <2>1, <2>2, Zenon
<1>6. \A a \in Branches : u[a].last = uac[a].last
  BY DEF Kept
<1>7. w = Coded(u, b, code) => w[b].last = code /\ \A a \in Branches : a # b => w[a].last = uac[a].last
  <2>1. IsCoded(u, b, code, Coded(u, b, code))
    BY CodedBranches DEF Kept
  <2> QED
    BY <1>6, <2>1 DEF IsCoded
<1>8. CASE cell'.nr = cell.nr /\ (w = u \/ (w = Coded(u, b, code) /\ code < 200))
  <2>1. cell'.nr = cell.nr
    BY <1>8
  <2>2. \A a \in Branches : /\ uac'[a].round = uac[a].round
                            /\ uac'[a].buffer <=> uac[a].buffer
                            /\ uac'[a].sent = uac[a].sent \/ ~uac[a].buffer
    BY <1>1, <1>2, <2>1
  <2>3. ASSUME NEW a \in Branches
        PROVE  /\ uac'[a].last >= 200 => uac'[a].last = uac[a].last
               /\ uac[a].last >= 200 => uac'[a].last = uac[a].last
               /\ (uac'[a].last < 200 /\ uac[a].last < 200) \/ uac'[a].last = uac[a].last
    <3>1. CASE w = u
      BY <1>1, <1>2, <1>6, <3>1
    <3>2. CASE w = Coded(u, b, code) /\ code < 200
      <4>1. CASE a = b
        <5>1. uac'[b].last = code /\ uac[b].last < 200
          BY <1>1, <1>3, <1>6, <1>7, <3>2 DEF Counted, Span
        <5> QED
          BY <1>2, <3>2, <4>1, <5>1
      <4>2. CASE a # b
        BY <1>1, <1>2, <1>7, <3>2, <4>2
      <4> QED
        BY <4>1, <4>2
    <3> QED
      BY <1>8, <3>1, <3>2
  <2>4. Results(uac') = Results(uac)
    BY <1>2, <2>3 DEF Results
  <2>5. Rounds(uac') = Rounds(uac)
    BY <2>2 DEF Rounds
  <2>6. Live(uac') = Live(uac)
    BY <1>2, <2>2, <2>3 DEF Live
  <2> QED
    BY <1>4, <1>5, <2>4, <2>5, <2>6 DEF Proxy!Next, Results, Rounds, Live
<1>9. CASE /\ w = Coded(u, b, code) /\ code >= 200
           /\ u[b].last < 200 \/ (kind.invite /\ code \in Span(200, 299))
  <2> DEFINE new == {a \in Branches : a >= cell.nr /\ a < cell'.nr}
             reached == {a \in new : uac'[a].sent # "failed"}
             r == [a \in new |-> uac'[a].round]
  <2>1. uac'[b].last = code /\ \A a \in Branches : a # b => uac'[a].last = uac[a].last
    BY <1>1, <1>2, <1>7, <1>9
  <2>2. Results(uac') = [Results(uac) EXCEPT ![b] = Results(uac')[b]]
    BY <2>1, Zenon DEF Results
  <2>3. Results(uac')[b] = code
    BY <1>9, <2>1 DEF Results
  <2>4. Results(uac')[b] >= 200 /\ (Results(uac)[b] = 0 \/ (kind.invite /\ Results(uac')[b] < 300))
    <3>1. CASE u[b].last < 200
      <4>1. Results(uac)[b] = 0
        BY <1>2, <1>6, <3>1 DEF Results
      <4> QED
        BY <1>9, <2>3, <4>1
    <3>2. CASE kind.invite /\ code \in Span(200, 299)
      BY <1>9, <2>3, <3>2 DEF Span
    <3> QED
      BY <1>9, <3>1, <3>2
  <2>5. new \in SUBSET {a \in Branches : Rounds(uac)[a] = -1}
    BY <1>1 DEF Rounds, None
  <2>6. reached \in SUBSET new /\ r \in [new -> Branches]
    BY <1>1
  <2>7. Rounds(uac') = [a \in Branches |-> IF a \in new THEN r[a] ELSE Rounds(uac)[a]]
    <3>1. \A a \in Branches : a \notin new => uac'[a].round = uac[a].round
      BY <1>1, <1>2
    <3> QED
      BY <3>1 DEF Rounds
  <2>8. Live(uac') = (Live(uac) \ {b}) \cup reached
    <3>1. ASSUME NEW a \in Branches, a \in new
          PROVE  a \in Live(uac') <=> a \in (Live(uac) \ {b}) \cup reached
      BY <1>1, <1>2, <3>1 DEF Live
    <3>2. ASSUME NEW a \in Branches, a \notin new
          PROVE  a \in Live(uac') <=> a \in (Live(uac) \ {b}) \cup reached
      <4>1. CASE a = b
        BY <1>1, <1>3, <1>9, <2>1, <3>2, <4>1 DEF Live
      <4>2. CASE a # b
        BY <1>1, <1>2, <2>1, <3>2, <4>2 DEF Live
      <4> QED
        BY <4>1, <4>2
    <3>3. Live(uac') \subseteq Branches /\ Live(uac) \subseteq Branches /\ reached \subseteq Branches
      BY DEF Live
    <3> QED
      BY <3>1, <3>2, <3>3
  <2> HIDE DEF new, reached, r
  <2>9. Proxy!Report(b)
    <3>1. \E s \in SUBSET new : Live(uac') = (Live(uac) \ {b}) \cup s
      BY <2>6, <2>8
    <3>2. \E s \in [new -> Branches] :
            Rounds(uac') = [a \in Branches |-> IF a \in new THEN s[a] ELSE Rounds(uac)[a]]
      BY <2>6, <2>7
    <3>3. \E n \in SUBSET {a \in Branches : Rounds(uac)[a] = -1} :
            /\ \E s \in SUBSET n : Live(uac') = (Live(uac) \ {b}) \cup s
            /\ \E s \in [n -> Branches] :
                 Rounds(uac') = [a \in Branches |-> IF a \in n THEN s[a] ELSE Rounds(uac)[a]]
      BY <2>5, <3>1, <3>2, Zenon
    <3> QED
      BY <2>2, <2>4, <3>3, Zenon DEF Proxy!Report, Results, Rounds, Live
  <2> QED
    BY <1>4, <1>5, <2>9 DEF Proxy!Next
<1> QED
  BY <1>3, <1>8, <1>9 DEF Counted

Maps == Proxy!Next \/ UNCHANGED Proxy!vars

\* Steps that leave status and T_CANCELED alone stutter.
LEMMA CalmMaps ==
  ASSUME IInv, uac' = uac \/ Kept(uac, uac'), kind' = kind, cell'.status = cell.status,
         cell'.cancelled = cell.cancelled
  PROVE  Maps
<1>1. Kept(uac, uac')
  BY KeptRefl DEF IInv, TypeOK
<1> QED
  BY <1>1, StutterMaps DEF Maps

\* Steps that leave status and cancelled of the cell alone.
LEMMA ForwardMaps ==
  ASSUME IInv, NEW p \in Workers,
         \/ t_forward_nonack(p) \/ BranchesAdded(p) \/ StartRetr(p) \/ BranchesSent(p)
         \/ Unreleased(p) \/ DropReply(p) \/ CancelDone(p) \/ t_retransmit_reply(p)
         \/ CancelScan(p) \/ cancel_invite(p) \/ Retransmission(p)
         \/ \E b \in Branches, code \in Codes : reply_received(p, b, code)
  PROVE  Maps
<1>1. cell \in CellType
  BY DEF IInv, TypeOK
<1>2. /\ uac' = uac /\ kind' = kind
      /\ \/ cell' = cell \/ cell' = [cell EXCEPT !.first = cell.nr]
         \/ cell' = [cell EXCEPT !.kr = TRUE]
         \/ cell' = [cell EXCEPT !.ref = @ - 1] \/ cell' = [cell EXCEPT !.ref = @ + 1]
  BY Zenon DEF t_forward_nonack, BranchesAdded, StartRetr, BranchesSent, Unreleased, DropReply,
     CancelDone, t_retransmit_reply, CancelScan, cancel_invite, Retransmission,
     reply_received, t_unref
<1>3. cell'.status = cell.status /\ cell'.cancelled = cell.cancelled
  BY <1>1, <1>2 DEF CellType
<1> QED
  BY <1>2, <1>3, CalmMaps

\* Steps that send CANCELs or end a decision stutter.
LEMMA CancelBranchMaps ==
  ASSUME IInv, NEW p \in Workers,
         _reply_light(p) \/ ReplyDone(p) \/ CancelMark(p) \/ cancel_uacs(p) \/ Done487(p)
  PROVE  Maps
<1>1. cell \in CellType /\ uac \in UacType /\ p \in Procs /\ proc[p].bm \in SUBSET Branches
  BY Now DEF ProcType
<1>2. uac' = uac \/ Kept(uac, uac')
  <2>1. Kept(uac, cancel_branch(uac, proc[p].bm))
    BY <1>1, CancelBranchKept
  <2>2. CASE CancelMark(p)
    BY <2>2, MarkedKept
  <2>3. CASE _reply_light(p) \/ ReplyDone(p) \/ cancel_uacs(p) \/ Done487(p)
    BY <2>1, <2>3, Zenon DEF _reply_light, ReplyDone, cancel_uacs, Done487
  <2> QED
    BY <2>2, <2>3
<1>3. /\ kind' = kind
      /\ \/ cell' = cell \/ cell' = [cell EXCEPT !.ref = @ - 1]
         \/ cell' = [[cell EXCEPT !.out = 500] EXCEPT !.ref = @ - 1]
         \/ cell' = [Sent(p) EXCEPT !.ref = @ - 1] \/ cell' = Sent(p)
  BY Zenon DEF _reply_light, ReplyDone, CancelMark, cancel_uacs, Done487, t_unref
<1>4. Sent(p).status = cell.status /\ Sent(p).cancelled = cell.cancelled
  BY <1>1 DEF CellType, Sent
<1>5. cell'.status = cell.status /\ cell'.cancelled = cell.cancelled
  <2>1. CASE cell' = cell \/ cell' = [cell EXCEPT !.ref = @ - 1]
    BY <1>1, <2>1 DEF CellType
  <2>2. CASE cell' = [[cell EXCEPT !.out = 500] EXCEPT !.ref = @ - 1]
    BY <1>1, <2>2 DEF CellType
  <2>3. CASE cell' = [Sent(p) EXCEPT !.ref = @ - 1] \/ cell' = Sent(p)
    BY <1>1, <1>4, <2>3 DEF CellType, Sent
  <2> QED
    BY <1>3, <2>1, <2>2, <2>3
<1> QED
  BY <1>2, <1>3, <1>5, CalmMaps

\* Steps of the timer process other than its 408 stutter.
LEMMA TimerMaps ==
  ASSUME IInv,
         \/ run_handler_for_each \/ DropSilently \/ fake_reply
         \/ ResponseExpire \/ wait_handler \/ delete_handler \/ delete_cell
         \/ (\E S \in SUBSET Branches : FrExpire(S)) \/ ReceiveAck
  PROVE  Maps
<1>1. cell \in CellType /\ uac \in UacType /\ Timer \in Procs /\ proc[Timer].bm \in SUBSET Branches
  BY ProcNames DEF IInv, TypeOK, ProcType
<1>2. uac' = uac \/ Kept(uac, uac')
  <2>1. Kept(uac, cancel_branch(uac, proc[Timer].bm))
    BY <1>1, CancelBranchKept
  <2> QED
    BY <2>1, Zenon DEF run_handler_for_each, DropSilently, fake_reply, ResponseExpire, wait_handler,
       delete_handler, delete_cell, FrExpire, ReceiveAck
<1>3. /\ kind' = kind
      /\ \/ cell' = cell \/ cell' = Sent(Timer)
         \/ \E x : cell' = [cell EXCEPT !.life = x]
  BY Zenon DEF run_handler_for_each, DropSilently, fake_reply, ResponseExpire, wait_handler,
     delete_handler, delete_cell, FrExpire, ReceiveAck
<1>4. cell'.status = cell.status /\ cell'.cancelled = cell.cancelled
  BY <1>1, <1>3 DEF CellType, Sent
<1> QED
  BY <1>2, <1>3, <1>4, CalmMaps

\* t_newtran says 100 or nothing, kill_transaction 500.
LEMMA NewtranMaps ==
  ASSUME IInv, NEW p \in Workers, t_newtran(p)
  PROVE  Maps
<1>1. cell \in CellType /\ uac \in UacType
  BY Now
<1>2. uac' = uac /\ kind' = kind /\ cell.status = 0
  BY DEF t_newtran, IInv, LifeInv
<1>3. PICK n, m : /\ cell' = [cell EXCEPT !.life = "hashed", !.ref = 1, !.status = n, !.out = n,
                                          !.relaied = m]
                  /\ n \in {0, 100}
  BY Zenon DEF t_newtran
<1>4. cell'.status = n /\ cell'.cancelled = cell.cancelled
  BY <1>1, <1>3 DEF CellType
<1>5. cell'.status = cell.status \/ (cell.status < 200 /\ cell'.status \in Span(100, 199))
  BY <1>2, <1>3, <1>4 DEF Span
<1>6. Proxy!Answer
  BY <1>5 DEF Proxy!Answer, Span
<1>7. Kept(uac, uac')
  BY <1>1, <1>2, KeptRefl
<1> QED
  BY <1>2, <1>4, <1>6, <1>7, SayMaps DEF Maps

\* kill_transaction answers 500 when no branch is awaited.
LEMMA KillMaps ==
  ASSUME IInv, IInv', NEW p \in Workers, kill_transaction(p)
  PROVE  Maps
<1>1. /\ cell \in CellType /\ uac \in UacType /\ RequestOK(p) /\ Proc(p, "kill") /\ kind' = kind
      /\ TypeOK' /\ BranchInv'
  BY Now DEF kill_transaction, IInv
<1>2. Kept(uac, uac')
  BY <1>1, MarkCancelKept, KeptRefl DEF kill_transaction
<1> DEFINE n == IF cell.status >= 200 THEN cell.status ELSE 500
           m == IF cell.status >= 200 THEN cell.relaied ELSE Local
<1>8. cell' = [cell EXCEPT !.kr = TRUE, !.status = n, !.relaied = m]
  BY DEF kill_transaction
<1>3. n = IF cell.status >= 200 THEN cell.status ELSE 500
  OBVIOUS
<1> HIDE DEF n, m
<1>9. cell'.status = n /\ cell'.nr = cell.nr
  BY <1>1, <1>8 DEF CellType
<1>10. cell'.cancelled = cell.cancelled
  BY <1>1, <1>8 DEF CellType
<1>4. cell'.status = n /\ cell'.cancelled = cell.cancelled /\ cell'.nr = cell.nr
  BY <1>9, <1>10
<1>5. EndedIn(uac', cell')
  <2>1. cell.cancelled \/ \A b \in Branches : b < cell.nr => uac[b].sent = "failed"
    BY <1>1 DEF RequestOK
  <2>2. CASE cell.cancelled
    BY <1>4, <2>2 DEF EndedIn
  <2>3. CASE \A b \in Branches : b < cell.nr => uac[b].sent = "failed"
    BY <1>2, <1>4, <2>3 DEF EndedIn, AllFinal, Kept
  <2> QED
    BY <2>1, <2>2, <2>3
<1>6. AnswerOK(cell.status, uac', cell', cell'.status)
  <2>1. CASE cell.status >= 200
    BY <1>3, <1>4, <2>1 DEF AnswerOK
  <2>2. CASE ~(cell.status >= 200)
    <3>1. cell.status \in Nat
      BY <1>1, CodeNumbers DEF CellType
    <3>2. cell.status < 200 /\ cell'.status \in Span(400, 599)
      BY <1>3, <1>4, <2>2, <3>1 DEF Span
    <3> QED
      BY <1>5, <3>2 DEF AnswerOK
  <2> QED
    BY <2>1, <2>2
<1>7. Proxy!Answer
  BY <1>1, <1>6, AnswerMaps
<1> QED
  BY <1>1, <1>2, <1>4, <1>7, SayMaps DEF Maps

\* Receiving a CANCEL cancels the request, or finds it cancelled.
LEMMA ReceiveCancelMaps ==
  ASSUME IInv, NEW p \in Workers, ReceiveCancel(p)
  PROVE  Maps
<1>1. cell \in CellType
  BY Now
<1>2. uac' = uac /\ kind' = kind /\ cell' = [cell EXCEPT !.ref = @ + 1, !.cancelled = TRUE]
  BY DEF ReceiveCancel
<1>3. cell'.status = cell.status /\ cell'.cancelled = TRUE
  BY <1>1, <1>2 DEF CellType
<1> QED
  BY <1>2, <1>3, CancelMaps DEF Maps

\* A branch is added, and sent or given up.
LEMMA OpenMaps ==
  ASSUME NEW n \in Branches, NEW f \in Branches, Results(uac') = Results(uac),
         Rounds(uac') = [Rounds(uac) EXCEPT ![n] = f], Live(uac') = Live(uac) \cup {n},
         Rounds(uac)[n] = -1, kind' = kind, cell'.status = cell.status,
         cell'.cancelled = cell.cancelled
  PROVE  Maps
<1>1. Proxy!Open(n, f)
  BY DEF Proxy!Open, Results, Rounds, Live
<1> QED
  BY <1>1 DEF Maps, Proxy!Next

\* A branch is given up, and nothing else happens.
LEMMA GiveUpMaps ==
  ASSUME NEW b \in Branches, Results(uac') = Results(uac), Rounds(uac') = Rounds(uac),
         Live(uac') = Live(uac) \ {b}, kind' = kind, cell' = cell
  PROVE  Maps
<1>1. Proxy!GiveUp(b)
  BY DEF Proxy!GiveUp, Results, Rounds, Live
<1> QED
  BY <1>1 DEF Maps, Proxy!Next

\* add_uac opens one branch.
LEMMA AddUacMaps ==
  ASSUME IInv, NEW p \in Workers, add_uac(p)
  PROVE  Maps
<1> DEFINE n == cell.nr
           f == cell.first
<1>1. /\ cell \in CellType /\ uac \in UacType /\ cell.nr \in Nat /\ cell.first \in Nat
      /\ BranchOK(uac, cell, link)
  BY Now DEF IInv, BranchInv
<1>2. kind' = kind /\ n < MaxBranches /\ cell' = [cell EXCEPT !.nr = n + 1]
      /\ uac' = [uac EXCEPT ![n].buffer = TRUE, ![n].round = f]
  BY DEF add_uac
<1>3. cell'.status = cell.status /\ cell'.cancelled = cell.cancelled
  BY <1>1, <1>2 DEF CellType
<1>4. n \in Branches /\ f \in Branches
  BY <1>1, <1>2, BranchNumbers DEF BranchOK
<1>5. n >= cell.nr
  BY <1>1
<1>6. uac[n].round = None /\ uac[n].sent = "no" /\ uac[n].last = 0
  BY <1>1, <1>4, <1>5 DEF BranchOK
<1> HIDE DEF n, f
<1>7. /\ uac'[n].buffer = TRUE /\ uac'[n].round = f /\ uac'[n].last = uac[n].last
      /\ uac'[n].sent = uac[n].sent
      /\ \A b \in Branches : b # n => uac'[b] = uac[b]
  BY <1>1, <1>2, <1>4 DEF UacType, BranchType
<1>8. Results(uac') = Results(uac)
  BY <1>7 DEF Results
<1>9. Rounds(uac') = [Rounds(uac) EXCEPT ![n] = f]
  BY <1>7, Zenon DEF Rounds
<1>10. Live(uac') = Live(uac) \cup {n}
  BY <1>4, <1>6, <1>7 DEF Live
<1>11. Rounds(uac)[n] = -1
  BY <1>4, <1>6 DEF Rounds, None
<1> QED
  BY <1>2, <1>3, <1>4, <1>8, <1>9, <1>10, <1>11, OpenMaps, Zenon

\* A send that fails gives its branch up; one that succeeds is not seen.
LEMMA SendMaps ==
  ASSUME IInv, NEW p \in Workers, NEW ok, SendBranch(p, ok)
  PROVE  Maps
<1> DEFINE b == Min(proc[p].todo)
<1>1. /\ cell \in CellType /\ uac \in UacType /\ RequestOK(p) /\ Proc(p, "send") /\ kind' = kind
      /\ cell' = cell /\ proc[p].todo # {} /\ proc[p].todo \subseteq Branches
  BY Now DEF SendBranch, ProcType
<1>2. b \in proc[p].todo /\ b \in Branches
  BY <1>1, MinOf
<1>3. PICK s \in {"yes", "failed"} : uac' = [uac EXCEPT ![b].sent = s]
  BY Zenon DEF SendBranch
<1>4. uac[b].sent = "no"
  BY <1>1, <1>2 DEF RequestOK, Proc
<1> HIDE DEF b
<1>5. /\ uac'[b].sent = s
      /\ \A a \in Branches : a # b => uac'[a] = uac[a]
      /\ \A a \in Branches : uac'[a].last = uac[a].last /\ uac'[a].round = uac[a].round
  BY <1>1, <1>2, <1>3 DEF UacType, BranchType
<1>6. \A a \in Branches : uac'[a].buffer = uac[a].buffer
  BY <1>1, <1>2, <1>3 DEF UacType, BranchType
<1>7. Results(uac') = Results(uac) /\ Rounds(uac') = Rounds(uac)
  BY <1>5 DEF Results, Rounds
<1>8. CASE s = "yes"
  <2>1. Live(uac') = Live(uac)
    BY <1>2, <1>4, <1>5, <1>6, <1>8 DEF Live
  <2> QED
    BY <1>1, <1>7, <2>1 DEF Maps, Proxy!vars, Results, Rounds, Live
<1>9. CASE s = "failed"
  <2>1. Live(uac') = Live(uac) \ {b}
    BY <1>2, <1>4, <1>5, <1>6, <1>9 DEF Live
  <2> QED
    BY <1>1, <1>2, <1>7, <2>1, GiveUpMaps
<1> QED
  BY <1>3, <1>8, <1>9

\* Whoever decides on a reply, the proxy counts it in and answers.
LEMMA Deciders ==
  ASSUME IInv, IInv', NEW p \in Procs, NEW u, Kept(uac, u), NEW b \in Branches, b < cell.nr,
         NEW code \in StatusCodes, Carried(p, u, b, code), kind' = kind
  PROVE  Maps
<1>1. PICK w, r : Outcomes(u, b, code, w) /\ Out(p, b, r)
  BY DEF Carried
<1>2. TypeOK' /\ BranchInv'
  BY DEF IInv
<1>3. Proxy!Next
  BY <1>1, <1>2, DecideMaps
<1> QED
  BY <1>3 DEF Maps
=============================================================================
