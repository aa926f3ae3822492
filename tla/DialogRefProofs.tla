--------------------------- MODULE DialogRefProofs --------------------------
(***************************************************************************)
(* dlg->ref is exact, and whoever owns a reference finds the dialog in     *)
(* memory, for any number of dialogs and processes, in every database mode *)
(* and with restarts, when dlg_end_dlg is not used (MaxMi = 0).  The steps *)
(* that run an event through next_state_dlg come first: what the event does*)
(* to the counter is what it does to the owners.                           *)
(***************************************************************************)
EXTENDS DialogProofs

(* The steps that move references. *)

\* A cell whose transaction is alive, or that a handler holds, is in memory.
LEMMA OwnedLinked ==
  ASSUME RefInv, NEW p \in Procs, NEW d \in Dlgs, tm[d] \/ Held(p, d) > 0
  PROVE  life[d] = "linked" /\ ref[d] > 0
<1>1. tm[d] => Trans(d) = 1
  BY DEF Trans
<1>2. ref[d] > 0
  BY <1>1, RefSum, OneTypes
<1> QED
  BY <1>2 DEF RefInv, Live

\* What next_state_dlg does to the cell it locks.
LEMMA NextStateEffect ==
  ASSUME RefInv, NEW d \in Dlgs, NEW ev, NextStateDlg(d, ev), life[d] = "linked"
  PROVE  LET bye == "HASBYE" \in flags[d]
             k == RefAfter(ev, state[d], bye)
         IN  /\ state'[d] = StateAfter(ev, state[d], bye)
             /\ ref'[d] = ref[d] + k
             /\ life'[d] = IF ref[d] + k <= 0 THEN "gone" ELSE "linked"
             /\ \A e \in Dlgs \ {d} : /\ life'[e] = life[e]
                                      /\ state'[e] = state[e]
                                      /\ ref'[e] = ref[e]
<1> DEFINE k == RefAfter(ev, state[d], "HASBYE" \in flags[d])
<1>1. /\ state \in [Dlgs -> States] /\ ref \in [Dlgs -> Int]
      /\ life \in [Dlgs -> {"none", "linked", "gone"}]
  BY DEF RefInv, TypeOK
<1>2. /\ state' = [state EXCEPT ![d] = StateAfter(ev, state[d], "HASBYE" \in flags[d])]
      /\ ref' = [ref EXCEPT ![d] = ref[d] + k]
      /\ life' = IF ref[d] + k <= 0 THEN [life EXCEPT ![d] = "gone"] ELSE life
  BY DEF NextStateDlg, RefBy, Freed
<1> HIDE DEF k
<1>3. /\ ref'[d] = ref[d] + k
      /\ \A e \in Dlgs \ {d} : ref'[e] = ref[e]
  BY <1>1, <1>2
<1>4. /\ life'[d] = IF ref[d] + k <= 0 THEN "gone" ELSE "linked"
      /\ \A e \in Dlgs \ {d} : life'[e] = life[e]
  BY <1>1, <1>2
<1>5. /\ state'[d] = StateAfter(ev, state[d], "HASBYE" \in flags[d])
      /\ \A e \in Dlgs \ {d} : state'[e] = state[e]
  BY <1>1, <1>2
<1> QED
  BY <1>3, <1>4, <1>5 DEF k

\* An event other than TDEL takes a reference exactly when it revives the
\* dialog.
LEMMA RefAfterMatches ==
  ASSUME NEW ev \in ReplyEvents \cup RouteEvents, NEW s \in States, NEW bye
  PROVE  RefAfter(ev, s, bye) =
           IF s = DELETED /\ StateAfter(ev, s, bye) # DELETED THEN 1 ELSE 0
BY DEF RefAfter, StateAfter, ReplyEvents, RouteEvents, Pending, Confirmed,
       UNCONFIRMED, EARLY, CONFIRMED_NA, CONFIRMED, DELETED, States

\* Only a BYE among the sequential requests deletes a dialog.
LEMMA RouteDeletes ==
  ASSUME NEW ev \in RouteEvents, NEW s \in States, NEW bye
  PROVE  s # DELETED /\ StateAfter(ev, s, bye) = DELETED => ev = "REQBYE"
BY DEF StateAfter, RouteEvents, Pending, Confirmed,
       UNCONFIRMED, EARLY, CONFIRMED_NA, CONFIRMED, DELETED, States

\* A handler runs an event other than TDEL and goes to l with job j, where it
\* holds one reference more if the event deleted the dialog.
LEMMA RefEvent ==
  ASSUME RefInv, TypeOK', NEW p \in Procs, NEW d \in Dlgs,
         NEW ev \in ReplyEvents \cup RouteEvents, NextStateDlg(d, ev),
         life[d] = "linked", NEW l, NEW j, Goto(p, l, j), GoodJob(l, j),
         p = Tmr => j.h # "onroute",
         UNCHANGED <<tm, mi, byes, leaked>>,
         \A e \in Dlgs \ {d} : HeldOf(l, j, e) = Held(p, e),
         HeldOf(l, j, d) = Held(p, d) +
           IF state[d] # DELETED
                /\ StateAfter(ev, state[d], "HASBYE" \in flags[d]) = DELETED
           THEN 1 ELSE 0
  PROVE  RefInv'
<1> DEFINE new == StateAfter(ev, state[d], "HASBYE" \in flags[d])
           k == RefAfter(ev, state[d], "HASBYE" \in flags[d])
<1>1. /\ state'[d] = new /\ ref'[d] = ref[d] + k
      /\ life'[d] = IF ref[d] + k <= 0 THEN "gone" ELSE "linked"
      /\ \A e \in Dlgs \ {d} : /\ life'[e] = life[e]
                               /\ state'[e] = state[e]
                               /\ ref'[e] = ref[e]
  BY NextStateEffect
<1>2. k = IF state[d] = DELETED /\ new # DELETED THEN 1 ELSE 0
  <2>1. state[d] \in States
    BY DEF RefInv, TypeOK
  <2> QED
    BY <2>1, RefAfterMatches
<1>3. HeldOf(l, j, d) = Held(p, d) +
        IF state[d] # DELETED /\ new = DELETED THEN 1 ELSE 0
  OBVIOUS
<1> HIDE DEF new, k
<1>4. ref[d] > 0 /\ ref[d] \in Nat /\ Held(p, d) \in Int
  BY RefSum DEF RefInv, Live
<1>5. life'[d] = "linked" /\ ref'[d] > 0
  BY <1>1, <1>2, <1>4
<1>6. /\ Entry(d) = IF state[d] # DELETED THEN 1 ELSE 0
      /\ Entry(d)' = IF new # DELETED THEN 1 ELSE 0
      /\ Trans(d)' = Trans(d) /\ Trans(d) \in Int
      /\ leaked'[d] = leaked[d] /\ leaked[d] \in Int
  <2>1. Entry(d) = IF state[d] # DELETED THEN 1 ELSE 0
    BY DEF Entry
  <2>2. Entry(d)' = IF new # DELETED THEN 1 ELSE 0
    BY <1>1, <1>5 DEF Entry
  <2>3. Trans(d)' = Trans(d) /\ Trans(d) \in Int
    BY DEF Trans
  <2> QED
    BY <2>1, <2>2, <2>3, RefSum
<1>7. ref'[d] = ref[d] + (Entry(d)' - Entry(d)) + (Trans(d)' - Trans(d))
                 + (HeldOf(l, j, d) - Held(p, d)) + (leaked'[d] - leaked[d])
  BY <1>1, <1>2, <1>3, <1>4, <1>6
<1> QED
  BY <1>1, <1>5, <1>7, RefStep

\* The event of dlg_onreply keeps the invariant.
LEMMA RefOnReply ==
  ASSUME RefInv, TypeOK', NEW p \in Procs, NEW d \in Dlgs,
         NEW ev \in ReplyEvents, DlgOnReply(p, d, ev)
  PROVE  RefInv'
<1> DEFINE i == Job("onreply", d, ev)
           l == AfterReply(i)[1]
           j == AfterReply(i)[2]
<1>1. /\ pc[p] = "idle" /\ tm[d] /\ NextStateDlg(d, ev) /\ Goto(p, l, j)
      /\ UNCHANGED <<tm, mi, byes, leaked>>
  BY DEF DlgOnReply, Free, MayReply
<1>2. /\ i \in Jobs /\ i.h = "onreply" /\ i.d = d /\ i.n = 0
      /\ i.old = state[d]
      /\ i.new = StateAfter(ev, state[d], "HASBYE" \in flags[d])
  <2>1. state \in [Dlgs -> States] /\ "onreply" \in Handlers
    BY DEF RefInv, TypeOK, Handlers
  <2> QED
    BY <2>1, JobType
<1> HIDE DEF i
<1>3. /\ GoodJob(l, j) /\ j.h # "onroute"
      /\ \A e : HeldOf(l, j, e) =
            IF e = i.d /\ i.new = DELETED /\ i.old # DELETED THEN 1 ELSE 0
  BY <1>2, AfterReplyHeld
<1>4. \A e \in Dlgs : Held(p, e) = 0
  BY <1>1, HeldIdle
<1>5. life[d] = "linked"
  BY <1>1, OwnedLinked
<1> HIDE DEF l, j
<1> QED
  BY <1>1, <1>2, <1>3, <1>4, <1>5, RefEvent

\* The event of dlg_onroute keeps the invariant.
LEMMA RefOnRouteNext ==
  ASSUME RefInv, TypeOK', NEW p \in Procs, DlgOnRouteNext(p)
  PROVE  RefInv'
<1>0. PICK d \in Dlgs : d = job[p].d
  BY Zenon DEF RefInv, TypeOK, Jobs
<1>00. PICK ev \in RouteEvents : ev = job[p].ev
  BY Zenon DEF RefInv, TypeOK, Jobs
<1> DEFINE i == Job("onroute", d, ev)
           l == AfterRoute(ev, i)[1]
           j == AfterRoute(ev, i)[2]
<1>1. /\ pc[p] = "next" /\ job[p].h = "onroute" /\ life[d] = "linked"
      /\ NextStateDlg(d, ev) /\ Goto(p, l, j)
      /\ UNCHANGED <<tm, mi, byes, leaked>>
  BY <1>0, <1>00 DEF DlgOnRouteNext, At, aux
<1>2. /\ i \in Jobs /\ i.h = "onroute" /\ i.d = d /\ i.n = 0
      /\ i.old = state[d]
      /\ i.new = StateAfter(ev, state[d], "HASBYE" \in flags[d])
  <2>1. state \in [Dlgs -> States] /\ "onroute" \in Handlers
    BY DEF RefInv, TypeOK, Handlers
  <2> QED
    BY <2>1, JobType
<1> HIDE DEF i
<1>3. /\ GoodJob(l, j)
      /\ \A e : HeldOf(l, j, e) =
            IF e # i.d THEN 0
            ELSE IF ev = "REQBYE" /\ i.new = DELETED /\ i.old # DELETED
                 THEN 2 ELSE 1
  BY <1>2, AfterRouteHeld, Zenon
<1>4. \A e \in Dlgs : Held(p, e) = IF e = d THEN 1 ELSE 0
  <2>1. job[p].n = 0
    BY <1>1 DEF RefInv, Shape, GoodJob
  <2> QED
    BY <1>0, <1>1, <2>1 DEF Held
<1>5. i.new = DELETED /\ i.old # DELETED => ev = "REQBYE"
  <2>1. state[d] \in States
    BY DEF RefInv, TypeOK
  <2> QED
    BY <1>2, <2>1, RouteDeletes
<1>6. p # Tmr
  BY <1>1 DEF RefInv, Shape
<1>7. HeldOf(l, j, d) = Held(p, d) +
        IF state[d] # DELETED
             /\ StateAfter(ev, state[d], "HASBYE" \in flags[d]) = DELETED
        THEN 1 ELSE 0
  BY <1>2, <1>3, <1>4, <1>5
<1>8. \A e \in Dlgs \ {d} : HeldOf(l, j, e) = Held(p, e)
  BY <1>2, <1>3, <1>4
<1> HIDE DEF l, j
<1> QED
  BY <1>1, <1>3, <1>6, <1>7, <1>8, RefEvent

\* The event of dlg_ontimeout keeps the invariant.
LEMMA RefOnTimeout ==
  ASSUME RefInv, TypeOK', DlgOnTimeout
  PROVE  RefInv'
<1>p. Tmr \in Procs
  BY DEF Procs
<1>0. PICK d \in Dlgs : d = job[Tmr].d
  BY <1>p, Zenon DEF RefInv, TypeOK, Jobs
<1> DEFINE i == Job("ontimeout", d, "REQBYE")
           l == AfterTimeout(i)[1]
           j == AfterTimeout(i)[2]
<1>1. /\ pc[Tmr] = "next" /\ life[d] = "linked"
      /\ NextStateDlg(d, "REQBYE") /\ Goto(Tmr, l, j)
      /\ UNCHANGED <<tm, mi, byes, leaked>>
  BY <1>0 DEF DlgOnTimeout, At, aux
<1>2. /\ i \in Jobs /\ i.h = "ontimeout" /\ i.d = d /\ i.n = 0
      /\ i.old = state[d]
      /\ i.new = StateAfter("REQBYE", state[d], "HASBYE" \in flags[d])
  <2>1. state \in [Dlgs -> States] /\ "ontimeout" \in Handlers
    BY DEF RefInv, TypeOK, Handlers
  <2> QED
    BY <2>1, JobType
<1> HIDE DEF i
<1>3. /\ GoodJob(l, j) /\ j.h # "onroute"
      /\ \A e : HeldOf(l, j, e) =
            IF e = i.d /\ i.new = DELETED /\ i.old # DELETED THEN 1 ELSE 0
  BY <1>2, AfterTimeoutHeld
<1>4. \A e \in Dlgs : Held(Tmr, e) = 0
  <2>1. job[Tmr].n = 0 /\ job[Tmr].h # "onroute"
    BY <1>1, <1>p DEF RefInv, Shape, GoodJob
  <2> QED
    BY <2>1 DEF Held
<1>5. "REQBYE" \in ReplyEvents \cup RouteEvents
  BY DEF RouteEvents
<1> HIDE DEF l, j
<1> QED
  BY <1>p, <1>1, <1>2, <1>3, <1>4, <1>5, RefEvent

\* The transaction goes: its reference is dropped inside next_state_dlg, and
\* the entry's too, by the handler, if the dialog was still pending.
LEMMA RefOnTransDeleted ==
  ASSUME RefInv, TypeOK', NEW d \in Dlgs, DlgOnTransDeleted(d)
  PROVE  RefInv'
<1>p. Tmr \in Procs
  BY DEF Procs
<1> DEFINE i == Job("onreply", d, "TDEL")
           l == AfterReply(i)[1]
           j == AfterReply(i)[2]
<1>1. /\ pc[Tmr] = "idle" /\ tm[d] /\ NextStateDlg(d, "TDEL")
      /\ Goto(Tmr, l, j) /\ tm' = [tm EXCEPT ![d] = FALSE]
      /\ UNCHANGED <<mi, byes, leaked>>
  BY DEF DlgOnTransDeleted, Free, aux
<1>2. /\ i \in Jobs /\ i.h = "onreply" /\ i.d = d /\ i.n = 0
      /\ i.old = state[d]
      /\ i.new = StateAfter("TDEL", state[d], "HASBYE" \in flags[d])
  <2>1. state \in [Dlgs -> States] /\ "onreply" \in Handlers
    BY DEF RefInv, TypeOK, Handlers
  <2> QED
    BY <2>1, JobType
<1> HIDE DEF i
<1>3. /\ GoodJob(l, j) /\ j.h # "onroute"
      /\ \A e : HeldOf(l, j, e) =
            IF e = i.d /\ i.new = DELETED /\ i.old # DELETED THEN 1 ELSE 0
  BY <1>2, AfterReplyHeld
<1>4. \A e \in Dlgs : Held(Tmr, e) = 0
  BY <1>1, <1>p, HeldIdle
<1>5. life[d] = "linked" /\ ref[d] > 0
  BY <1>1, <1>p, OwnedLinked
<1> HIDE DEF l, j
<1>6. RefAfter("TDEL", state[d], "HASBYE" \in flags[d]) = -1
  BY DEF RefAfter
<1>7. i.old = DELETED => i.new = DELETED
  BY <1>2 DEF StateAfter, Pending, UNCONFIRMED, EARLY, DELETED
<1>8. /\ state'[d] = i.new /\ ref'[d] = ref[d] - 1
      /\ life'[d] = IF ref[d] - 1 <= 0 THEN "gone" ELSE "linked"
      /\ \A e \in Dlgs \ {d} : /\ life'[e] = life[e]
                               /\ state'[e] = state[e]
                               /\ ref'[e] = ref[e]
  <2> DEFINE bye == "HASBYE" \in flags[d]
             k == RefAfter("TDEL", state[d], bye)
  <2>1. ref[d] \in Int
    BY RefSum, <1>p
  <2>2. /\ state'[d] = StateAfter("TDEL", state[d], bye)
        /\ ref'[d] = ref[d] + k
        /\ life'[d] = IF ref[d] + k <= 0 THEN "gone" ELSE "linked"
        /\ \A e \in Dlgs \ {d} : /\ life'[e] = life[e]
                                 /\ state'[e] = state[e]
                                 /\ ref'[e] = ref[e]
    BY <1>1, <1>5, NextStateEffect
  <2>3. k = -1 /\ i.new = StateAfter("TDEL", state[d], bye)
    BY <1>2, <1>6
  <2> HIDE DEF k, bye
  <2>4. ref[d] + k = ref[d] - 1
    BY <2>1, <2>3
  <2> QED
    BY <2>2, <2>3, <2>4
<1>9. tm'[d] = FALSE /\ \A e \in Dlgs \ {d} : tm'[e] = tm[e]
  BY <1>1 DEF RefInv, TypeOK
<1>10. Trans(d) = 1 /\ Trans(d)' = 0
  BY <1>1, <1>9 DEF Trans
<1>11. Entry(d) = IF i.old # DELETED THEN 1 ELSE 0
  BY <1>2, <1>5 DEF Entry
<1>12. /\ ref[d] = Entry(d) + 1 + Cardinality(Others(Tmr, d)) + leaked[d]
       /\ Cardinality(Others(Tmr, d)) \in Nat /\ leaked[d] \in Nat
       /\ ref[d] \in Nat
  BY <1>4, <1>10, <1>p, RefSum, OneTypes
<1>13. i.old # DELETED => life'[d] = "linked"
  BY <1>8, <1>11, <1>12
<1>14. Entry(d)' = IF i.new # DELETED THEN 1 ELSE 0
  BY <1>7, <1>8, <1>13 DEF Entry
<1>15. HeldOf(l, j, d) = IF i.new = DELETED /\ i.old # DELETED THEN 1 ELSE 0
  BY <1>2, <1>3
<1>16. ref'[d] = ref[d] + (Entry(d)' - Entry(d)) + (Trans(d)' - Trans(d))
                  + (HeldOf(l, j, d) - Held(Tmr, d)) + (leaked'[d] - leaked[d])
  <2>1. ref'[d] = ref[d] - 1 /\ ref[d] \in Nat
    BY <1>8, <1>12
  <2>2. Held(Tmr, d) = 0 /\ leaked'[d] = leaked[d] /\ leaked[d] \in Nat
    BY <1>1, <1>4, <1>12
  <2>3. HeldOf(l, j, d) + (Entry(d)' - Entry(d)) = 0
    BY <1>7, <1>11, <1>14, <1>15
  <2>4. Entry(d)' \in {0, 1} /\ Entry(d) \in {0, 1} /\ HeldOf(l, j, d) \in {0, 1}
    BY <1>11, <1>14, <1>15
  <2> QED
    BY <1>10, <2>1, <2>2, <2>3, <2>4
<1>17. /\ life'[d] = "linked" <=> ref'[d] > 0
       /\ life'[d] # "none"
  <2>1. ref'[d] = ref[d] - 1 /\ life'[d] = IF ref[d] - 1 <= 0 THEN "gone" ELSE "linked"
    BY <1>8
  <2>2. ref[d] \in Nat
    BY <1>12
  <2> QED
    BY <2>1, <2>2
<1>18. \A e \in Dlgs \ {d} : HeldOf(l, j, e) = Held(Tmr, e)
  BY <1>2, <1>3, <1>4
<1>19. \A e \in Dlgs \ {d} : leaked'[e] = leaked[e]
  BY <1>1
<1> QED
  BY <1>p, <1>1, <1>3, <1>8, <1>9, <1>16, <1>17, <1>18, <1>19, RefStep, Zenon

-----------------------------------------------------------------------------
\* unref_dlg at the end of a handler keeps the invariant.
LEMMA RefUnref ==
  ASSUME RefInv, TypeOK', NEW p \in Procs, UnrefDlg(p)
  PROVE  RefInv'
<1>0. PICK d \in Dlgs : d = job[p].d
  BY Zenon DEF RefInv, TypeOK, Jobs
<1>00. PICK n \in {1, 2} : n = job[p].n
  BY DEF UnrefDlg, At, RefInv, Shape, GoodJob
<1>1. /\ pc[p] = "unref" /\ life[d] = "linked" /\ RefBy(d, -n) /\ Report(p)
      /\ UNCHANGED <<state, tm, mi, byes, leaked>>
  BY <1>0, <1>00 DEF UnrefDlg, At, aux
<1>2. PICK l, j : /\ Goto(p, l, j) /\ GoodJob(l, j)
                  /\ p = Tmr => j.h # "onroute"
                  /\ \A e : HeldOf(l, j, e) = 0
  BY <1>1, ReportHeld DEF RefInv
<1>3. \A e \in Dlgs : Held(p, e) = IF e = d THEN n ELSE 0
  BY <1>0, <1>00, <1>1 DEF Held
<1>4. /\ ref'[d] = ref[d] - n
      /\ life'[d] = IF ref[d] - n <= 0 THEN "gone" ELSE "linked"
      /\ \A e \in Dlgs \ {d} : ref'[e] = ref[e] /\ life'[e] = life[e]
  <2>1. /\ ref \in [Dlgs -> Int] /\ life \in [Dlgs -> {"none", "linked", "gone"}]
    BY Zenon DEF RefInv, TypeOK
  <2>2. /\ ref' = [ref EXCEPT ![d] = ref[d] + (-n)]
        /\ life' = IF ref[d] + (-n) <= 0 THEN [life EXCEPT ![d] = "gone"] ELSE life
    BY <1>1 DEF RefBy, Freed
  <2>3. ref[d] + (-n) = ref[d] - n
    BY <2>1
  <2> QED
    BY <1>1, <2>1, <2>2, <2>3
<1>5. /\ ref[d] = Entry(d) + Trans(d) + Cardinality(Others(p, d)) + n + leaked[d]
      /\ Cardinality(Others(p, d)) \in Nat /\ leaked[d] \in Nat
      /\ ref[d] \in Nat /\ Entry(d) \in {0, 1} /\ Trans(d) \in {0, 1}
  BY <1>3, RefSum, OneTypes
<1>6. Trans(d)' = Trans(d) /\ leaked'[d] = leaked[d]
  BY <1>1 DEF Trans
<1>7. Entry(d)' = Entry(d)
  <2>1. CASE state[d] = DELETED
    BY <1>1, <2>1 DEF Entry
  <2>2. CASE state[d] # DELETED
    <3>1. Entry(d) = 1
      BY <1>1, <2>2 DEF Entry
    <3>2. life'[d] = "linked"
      BY <1>4, <1>5, <3>1
    <3> QED
      BY <1>1, <2>2, <3>1, <3>2 DEF Entry
  <2> QED
    BY <2>1, <2>2
<1>8. ref'[d] = ref[d] + (Entry(d)' - Entry(d)) + (Trans(d)' - Trans(d))
                  + (HeldOf(l, j, d) - Held(p, d)) + (leaked'[d] - leaked[d])
  <2>1. Entry(d) \in Int /\ Trans(d) \in Int /\ leaked[d] \in Int /\ ref[d] \in Int
    BY <1>5
  <2> QED
    BY <1>2, <1>3, <1>4, <1>6, <1>7, <2>1
<1>9. /\ life'[d] = "linked" <=> ref'[d] > 0
      /\ life'[d] # "none"
  BY <1>4, <1>5
<1>10. \A e \in Dlgs \ {d} :
         /\ HeldOf(l, j, e) = Held(p, e) /\ leaked'[e] = leaked[e]
         /\ state'[e] = state[e] /\ tm'[e] = tm[e]
  BY <1>1, <1>2, <1>3
<1> QED
  BY <1>1, <1>2, <1>4, <1>8, <1>9, <1>10, RefStep, Zenon

\* An idle process picks up work on d: it goes to l with job j.
LEMMA RefPickUp ==
  ASSUME RefInv, TypeOK', NEW p \in Procs, pc[p] = "idle", NEW l, NEW j,
         Goto(p, l, j), GoodJob(l, j), j.h # "onroute", j.n = 0,
         UNCHANGED <<life, state, ref, tm, mi, byes, leaked>>
  PROVE  RefInv'
<1>1. \A e \in Dlgs : HeldOf(l, j, e) = Held(p, e)
  BY HeldIdle DEF HeldOf
<1> QED
  BY <1>1, RefQuiet

\* The lookup of dlg_onroute takes the reference its handler holds.
LEMMA RefOnRoute ==
  ASSUME RefInv, TypeOK', NEW p \in Procs, NEW d \in Dlgs,
         NEW ev \in RouteEvents, DlgOnRoute(p, d, ev)
  PROVE  RefInv'
<1> DEFINE j == [Idle EXCEPT !.h = "onroute", !.d = d, !.ev = ev]
<1>1. /\ pc[p] = "idle" /\ p # Tmr /\ life[d] = "linked"
      /\ ref' = [ref EXCEPT ![d] = ref[d] + 1]
      /\ Goto(p, "next", j)
      /\ UNCHANGED <<life, state, tm, mi, byes, leaked>>
  BY DEF DlgOnRoute, Free, Lookup
<1>2. j.h = "onroute" /\ j.d = d /\ j.n = 0
  BY IdleType DEF Idle
<1> HIDE DEF j
<1>3. GoodJob("next", j)
  BY <1>2 DEF GoodJob, Saving
<1>4. \A e \in Dlgs : HeldOf("next", j, e) = IF e = d THEN 1 ELSE 0
  BY <1>2 DEF HeldOf
<1>5. \A e \in Dlgs : Held(p, e) = 0
  BY <1>1, HeldIdle
<1>6. ref'[d] = ref[d] + 1 /\ \A e \in Dlgs \ {d} : ref'[e] = ref[e]
  BY <1>1 DEF RefInv, TypeOK
<1>7. ref[d] > 0 /\ ref[d] \in Nat /\ leaked[d] \in Nat
  BY <1>1, RefSum DEF RefInv, Live
<1>8. /\ Entry(d)' = Entry(d) /\ Trans(d)' = Trans(d) /\ leaked'[d] = leaked[d]
      /\ Entry(d) \in Int /\ Trans(d) \in Int
  <2>1. Entry(d)' = Entry(d) /\ Trans(d)' = Trans(d) /\ leaked'[d] = leaked[d]
    BY <1>1, Zenon DEF Entry, Trans
  <2>2. Entry(d) \in Int /\ Trans(d) \in Int
    BY OneTypes
  <2> QED
    BY <2>1, <2>2, Zenon
<1>9. ref'[d] = ref[d] + (Entry(d)' - Entry(d)) + (Trans(d)' - Trans(d))
                 + (HeldOf("next", j, d) - Held(p, d)) + (leaked'[d] - leaked[d])
  <2>1. HeldOf("next", j, d) = 1 /\ Held(p, d) = 0 /\ ref'[d] = ref[d] + 1
    BY <1>4, <1>5, <1>6, Zenon
  <2>2. ref[d] \in Int /\ leaked[d] \in Int
    BY <1>7
  <2> QED
    BY <1>8, <2>1, <2>2
<1>10. life'[d] = "linked" /\ ref'[d] > 0
  <2>1. life'[d] = "linked"
    BY <1>1, Zenon
  <2>2. ref'[d] = ref[d] + 1 /\ ref[d] \in Nat
    BY <1>6, <1>7, Zenon
  <2> QED
    BY <2>1, <2>2
<1>11. \A e \in Dlgs \ {d} :
         /\ life'[e] = life[e] /\ state'[e] = state[e] /\ tm'[e] = tm[e]
         /\ leaked'[e] = leaked[e] /\ HeldOf("next", j, e) = Held(p, e)
  BY <1>1, <1>4, <1>5, Zenon
<1> QED
  BY <1>1, <1>3, <1>6, <1>9, <1>10, <1>11, RefStep, Zenon

\* The steps that run no handler: the first request of a dialog, and a
\* sequential request that matches no dialog although its id does.
LEMMA RefNoHandler ==
  ASSUME RefInv, TypeOK', NEW d \in Dlgs,
         DlgOnReq(d) \/ DlgOnReqError(d) \/ DlgOnRouteMismatch(d)
  PROVE  RefInv'
<1>0. /\ Tmr \in Procs
      /\ ref \in [Dlgs -> Int] /\ tm \in [Dlgs -> BOOLEAN]
      /\ life \in [Dlgs -> {"none", "linked", "gone"}]
      /\ leaked \in [Dlgs -> Nat]
  BY Zenon DEF Procs, RefInv, TypeOK
<1> DEFINE l == pc[Tmr]
           j == job[Tmr]
<1>1. /\ Goto(Tmr, l, j)
      /\ UNCHANGED <<state, mi, byes>>
  BY <1>0, Zenon DEF DlgOnReq, DlgOnReqError, DlgOnRouteMismatch, Goto, aux, RefInv, TypeOK
<1>2. GoodJob(l, j) /\ j.h # "onroute"
  BY <1>0, Zenon DEF RefInv, Shape
<1>3. \A e \in Dlgs : HeldOf(l, j, e) = Held(Tmr, e)
  BY DEF Held, HeldOf
<1>4. /\ ref[d] = Entry(d) + Trans(d) + Cardinality(Others(Tmr, d))
                    + Held(Tmr, d) + leaked[d]
      /\ Cardinality(Others(Tmr, d)) \in Nat /\ Held(Tmr, d) \in 0..3
      /\ leaked[d] \in Nat /\ ref[d] \in Nat
      /\ Entry(d) \in {0, 1} /\ Trans(d) \in {0, 1}
  BY <1>0, RefSum, OneTypes
<1>9. /\ Held(Tmr, d) \in Int /\ leaked[d] \in Int /\ ref[d] \in Int
      /\ Entry(d) \in Int /\ Trans(d) \in Int
  BY <1>4
<1>5. /\ life[d] = "linked" <=> ref[d] > 0
      /\ life[d] = "none" => state[d] # DELETED
  BY DEF RefInv, Live
<1> HIDE DEF l, j
<1>6. CASE DlgOnReq(d)
  <2>1. /\ life[d] = "none"
        /\ life' = [life EXCEPT ![d] = "linked"]
        /\ ref' = [ref EXCEPT ![d] = 2]
        /\ tm' = [tm EXCEPT ![d] = TRUE]
        /\ leaked' = leaked
    BY <1>6 DEF DlgOnReq, aux
  <2>2. /\ life'[d] = "linked" /\ ref'[d] = 2 /\ tm'[d] = TRUE
        /\ \A e \in Dlgs \ {d} :
             /\ life'[e] = life[e] /\ ref'[e] = ref[e] /\ tm'[e] = tm[e]
             /\ state'[e] = state[e] /\ leaked'[e] = leaked[e]
    BY <1>0, <1>1, <2>1
  <2>3. ref[d] = 0
    BY <1>4, <1>5, <2>1
  <2>4. Entry(d) = 0 /\ Trans(d) = 0
    BY <1>4, <2>3
  <2>5. Entry(d)' = 1 /\ Trans(d)' = 1
    BY <1>1, <1>5, <2>1, <2>2 DEF Entry, Trans
  <2>6. ref'[d] = ref[d] + (Entry(d)' - Entry(d)) + (Trans(d)' - Trans(d))
                   + (HeldOf(l, j, d) - Held(Tmr, d)) + (leaked'[d] - leaked[d])
    <3>1. ref'[d] = 2 /\ HeldOf(l, j, d) = Held(Tmr, d) /\ leaked'[d] = leaked[d]
      BY <1>3, <2>1, <2>2, Zenon
    <3> QED
      BY <1>9, <2>3, <2>4, <2>5, <3>1
  <2>7. ref'[d] > 0
    <3>1. ref'[d] = 2
      BY <2>2, Zenon
    <3> QED
      BY <3>1
  <2> QED
    BY <1>0, <1>1, <1>2, <1>3, <2>2, <2>6, <2>7, RefStep, Zenon
<1>7. CASE DlgOnReqError(d)
  <2>1. /\ life[d] = "none"
        /\ life' = [life EXCEPT ![d] = "gone"]
        /\ ref' = ref /\ tm' = tm /\ leaked' = leaked
    BY <1>7 DEF DlgOnReqError, aux
  <2>2. /\ life'[d] = "gone" /\ ref'[d] = ref[d] /\ tm'[d] = tm[d]
        /\ \A e \in Dlgs \ {d} :
             /\ life'[e] = life[e] /\ ref'[e] = ref[e] /\ tm'[e] = tm[e]
             /\ state'[e] = state[e] /\ leaked'[e] = leaked[e]
    BY <1>0, <1>1, <2>1
  <2>3. ~(ref'[d] > 0)
    <3>1. life[d] = "none" /\ ref'[d] = ref[d]
      BY <2>1, Zenon
    <3> QED
      BY <1>5, <3>1
  <2>4. Entry(d) = 0 /\ Entry(d)' = 0 /\ Trans(d)' = Trans(d)
    BY <2>1, <2>2 DEF Entry, Trans
  <2>5. ref'[d] = ref[d] + (Entry(d)' - Entry(d)) + (Trans(d)' - Trans(d))
                   + (HeldOf(l, j, d) - Held(Tmr, d)) + (leaked'[d] - leaked[d])
    <3>1. HeldOf(l, j, d) = Held(Tmr, d) /\ ref'[d] = ref[d] /\ leaked'[d] = leaked[d]
      BY <1>3, <2>1, Zenon
    <3> QED
      BY <1>9, <2>4, <3>1
  <2> QED
    BY <1>0, <1>1, <1>2, <1>3, <2>2, <2>3, <2>5, RefStep, Zenon
<1>8. CASE DlgOnRouteMismatch(d)
  <2>1. /\ life[d] = "linked"
        /\ ref' = [ref EXCEPT ![d] = ref[d] + 1]
        /\ leaked' = [leaked EXCEPT ![d] = leaked[d] + 1]
        /\ life' = life /\ tm' = tm
    BY <1>8, Zenon DEF DlgOnRouteMismatch, Lookup
  <2>2. /\ life'[d] = "linked" /\ ref'[d] = ref[d] + 1
        /\ leaked'[d] = leaked[d] + 1
        /\ \A e \in Dlgs \ {d} :
             /\ life'[e] = life[e] /\ ref'[e] = ref[e] /\ tm'[e] = tm[e]
             /\ state'[e] = state[e] /\ leaked'[e] = leaked[e]
    BY <1>0, <1>1, <2>1
  <2>3. ref'[d] > 0
    <3>1. ref[d] \in Nat /\ ref'[d] = ref[d] + 1
      BY <1>4, <2>2, Zenon
    <3> QED
      BY <3>1
  <2>4. Entry(d)' = Entry(d) /\ Trans(d)' = Trans(d)
    BY <1>1, <2>1, Zenon DEF Entry, Trans
  <2>5. ref'[d] = ref[d] + (Entry(d)' - Entry(d)) + (Trans(d)' - Trans(d))
                   + (HeldOf(l, j, d) - Held(Tmr, d)) + (leaked'[d] - leaked[d])
    <3>1. /\ ref'[d] = ref[d] + 1 /\ leaked'[d] = leaked[d] + 1 /\ HeldOf(l, j, d) = Held(Tmr, d)
      BY <1>3, <2>2, Zenon
    <3> QED
      BY <1>9, <2>4, <3>1
  <2> QED
    BY <1>0, <1>1, <1>2, <1>3, <2>2, <2>3, <2>5, RefStep, Zenon
<1> QED
  BY <1>6, <1>7, <1>8

\* The timer process between two handlers.
LEMMA RefTimer ==
  ASSUME RefInv, TypeOK',
         DlgTimerRoutine \/ DialogUpdateDb \/ GetExpiredDlgs
           \/ \E d \in Dlgs : FlushCopy(d)
  PROVE  RefInv'
<1>0. Tmr \in Procs
  BY DEF Procs
<1>1. CASE DlgTimerRoutine
  <2>1. UNCHANGED <<life, state, ref, tm, mi, byes, leaked>>
    BY <1>1 DEF DlgTimerRoutine, cell, aux
  <2>2. CASE UNCHANGED <<pc, job>>
    BY <2>1, <2>2, RefSame
  <2>3. CASE ~UNCHANGED <<pc, job>>
    <3> DEFINE d == Head(det)
               j == [Idle EXCEPT !.h = "ontimeout", !.d = d, !.ev = "REQBYE"]
    <3>1. pc[Tmr] = "idle" /\ Goto(Tmr, "next", j)
      BY <1>1, <2>3 DEF DlgTimerRoutine
    <3>2. j.h = "ontimeout" /\ j.n = 0
      BY IdleType DEF Idle
    <3> HIDE DEF j
    <3>3. GoodJob("next", j)
      BY <3>2 DEF GoodJob, Saving
    <3> QED
      BY <1>0, <2>1, <3>1, <3>2, <3>3, RefPickUp
  <2> QED
    BY <2>2, <2>3
<1>2. CASE DialogUpdateDb
  <2>1. /\ pc[Tmr] = "flush" /\ Goto(Tmr, "idle", Idle)
        /\ UNCHANGED <<life, state, ref, tm, mi, byes, leaked>>
    BY <1>2 DEF DialogUpdateDb, At, Done, aux
  <2>2. job[Tmr].n = 0 /\ job[Tmr].h # "onroute"
    <3>1. GoodJob(pc[Tmr], job[Tmr]) /\ job[Tmr].h # "onroute" /\ pc[Tmr] = "flush"
      BY <1>0, <2>1, Zenon DEF RefInv, Shape
    <3> QED
      BY <3>1 DEF GoodJob
  <2>3. \A e \in Dlgs : Held(Tmr, e) = 0
    BY <2>2 DEF Held
  <2> QED
    BY <1>0, <2>1, <2>3, IdleGood, IdleType, RefQuiet
<1>3. CASE GetExpiredDlgs
  <2>1. UNCHANGED <<life, state, ref, tm, mi, byes, leaked, pc, job>>
    BY <1>3 DEF GetExpiredDlgs, cell, aux
  <2> QED
    BY <2>1, RefSame
<1>4. CASE \E d \in Dlgs : FlushCopy(d)
  <2>1. PICK d \in Dlgs : FlushCopy(d)
    BY <1>4
  <2> DEFINE j == [Idle EXCEPT !.h = "flush", !.d = d]
  <2>2. /\ pc[Tmr] = "idle" /\ Goto(Tmr, "flush", j)
        /\ UNCHANGED <<life, state, ref, tm, mi, byes, leaked>>
    BY <2>1, Zenon DEF FlushCopy, Free, cell, aux
  <2>3. j.h = "flush" /\ j.n = 0
    BY IdleType DEF Idle
  <2> HIDE DEF j
  <2>4. GoodJob("flush", j)
    BY <2>3 DEF GoodJob, Saving
  <2> QED
    BY <1>0, <2>2, <2>3, <2>4, RefPickUp
<1> QED
  BY <1>1, <1>2, <1>3, <1>4

-----------------------------------------------------------------------------
(* The initial state, a restart, and the theorems. *)

\* With every process idle only the entry and the transaction own references.
LEMMA AllIdle ==
  ASSUME TypeOK, pc = [p \in Procs |-> "idle"], job = [p \in Procs |-> Idle],
         NEW d \in Dlgs
  PROVE  Cardinality(Owners(d)) = Entry(d) + Trans(d)
<1>0. Tmr \in Procs
  BY DEF Procs
<1>1. \A p \in Procs : Held(p, d) = 0
  BY IdleType DEF Held
<1>2. Others(Tmr, d) = {}
  <2>1. \A i \in 1..3 : ~(i <= 0)
    OBVIOUS
  <2> QED
    BY <1>1, <2>1 DEF Others
<1>3. Cardinality(Others(Tmr, d)) = 0
  BY <1>2, FS_EmptySet
<1>4. CountedBy(Tmr, d)
  BY <1>0, OwnersCount
<1> QED
  BY <1>0, <1>1, <1>3, <1>4, OneTypes DEF CountedBy

\* With every process idle all are well placed.
LEMMA AllIdleShape ==
  ASSUME pc = [p \in Procs |-> "idle"], job = [p \in Procs |-> Idle]
  PROVE  Shape
<1>1. Tmr \in Procs
  BY DEF Procs
<1>2. job[Tmr].h # "onroute"
  BY <1>1, IdleType
<1>3. \A p \in Procs : pc[p] = "idle" /\ job[p] = Idle
  OBVIOUS
<1> QED
  BY <1>2, <1>3, IdleGood DEF Shape

\* What the table looks like after Init and after a restart.
LEMMA RefFresh ==
  TypeOK /\ NoMi /\ Live
    /\ pc = [p \in Procs |-> "idle"] /\ job = [p \in Procs |-> Idle]
    /\ (\A d \in Dlgs : ref[d] = Entry(d) + Trans(d) + leaked[d])
  => RefInv
<1> SUFFICES ASSUME TypeOK, NoMi, Live,
                    pc = [p \in Procs |-> "idle"], job = [p \in Procs |-> Idle],
                    \A d \in Dlgs : ref[d] = Entry(d) + Trans(d) + leaked[d]
             PROVE  RefInv
  OBVIOUS
<1>1. RefExact
  <2> SUFFICES ASSUME NEW d \in Dlgs
               PROVE  ref[d] = Cardinality(Owners(d)) + mi[d] + leaked[d]
    BY DEF RefExact
  <2>1. Cardinality(Owners(d)) = Entry(d) + Trans(d)
    BY AllIdle
  <2>2. mi[d] = 0 /\ leaked[d] \in Nat
    BY DEF NoMi, TypeOK
  <2> QED
    BY <2>1, <2>2, OneTypes
<1> QED
  BY <1>1, AllIdleShape DEF RefInv

\* The invariant holds initially.
LEMMA RefInit == Init => RefInv
<1> SUFFICES ASSUME Init PROVE RefInv
  OBVIOUS
<1>1. TypeOK
  BY TypeInit
<1>2. NoMi
  BY DEF Init, NoMi
<1>3. Live
  BY DEF Init, Live, UNCONFIRMED, DELETED
<1>4. \A d \in Dlgs : ref[d] = Entry(d) + Trans(d) + leaked[d]
  BY DEF Init, Entry, Trans
<1>5. pc = [p \in Procs |-> "idle"] /\ job = [p \in Procs |-> Idle]
  BY DEF Init
<1> QED
  BY <1>1, <1>2, <1>3, <1>4, <1>5, RefFresh

\* A restart establishes the invariant for the loaded dialogs.
LEMMA RefRestart ==
  ASSUME RefInv, TypeOK', NEW graceful, Restart(graceful)
  PROVE  RefInv'
<1>1. PICK r : LoadedFrom(r)
  BY DEF Restart
<1> DEFINE loaded == {d \in Dlgs : r[d].n > 0}
<1>2. /\ life' = [d \in Dlgs |-> CASE d \in loaded -> "linked"
                               [] d \notin loaded /\ life[d] = "none" -> "none"
                               [] OTHER -> "gone"]
      /\ state' = [d \in Dlgs |-> IF d \in loaded THEN r[d].st ELSE state[d]]
      /\ ref' = [d \in Dlgs |-> IF d \in loaded THEN 1 ELSE 0]
      /\ tm' = [d \in Dlgs |-> FALSE]
      /\ byes' = [d \in Dlgs |-> 0] /\ mi' = [d \in Dlgs |-> 0]
      /\ leaked' = [d \in Dlgs |-> IF d \in loaded /\ r[d].st = DELETED
                                   THEN 1 ELSE 0]
      /\ pc' = [p \in Procs |-> "idle"] /\ job' = [p \in Procs |-> Idle]
  BY <1>1 DEF LoadedFrom
<1> HIDE DEF loaded
<1>3. NoMi'
  BY <1>2 DEF NoMi
<1>4. \A d \in Dlgs :
        /\ d \in loaded => /\ life'[d] = "linked" /\ ref'[d] = 1
                           /\ state'[d] = r[d].st
                           /\ leaked'[d] = IF r[d].st = DELETED THEN 1 ELSE 0
        /\ d \notin loaded => /\ life'[d] \in {"none", "gone"} /\ ref'[d] = 0
                              /\ state'[d] = state[d] /\ leaked'[d] = 0
                              /\ life'[d] = "none" => life[d] = "none"
        /\ tm'[d] = FALSE
  BY <1>2
<1>5. Live'
  <2> SUFFICES ASSUME NEW d \in Dlgs
               PROVE  /\ life'[d] = "linked" <=> ref'[d] > 0
                      /\ life'[d] = "none" => state'[d] # DELETED
    BY DEF Live
  <2>1. life[d] = "none" => state[d] # DELETED
    BY DEF RefInv, Live
  <2> QED
    BY <1>4, <2>1
<1>6. \A d \in Dlgs : ref'[d] = Entry(d)' + Trans(d)' + leaked'[d]
  BY <1>4 DEF Entry, Trans
<1>7. (TypeOK /\ NoMi /\ Live
         /\ pc = [p \in Procs |-> "idle"] /\ job = [p \in Procs |-> Idle]
         /\ (\A d \in Dlgs : ref[d] = Entry(d) + Trans(d) + leaked[d])
       => RefInv)'
  BY RefFresh, PTL
<1>8. Procs' = Procs /\ Idle' = Idle
  BY DEF Procs, Idle
<1> QED
  BY <1>2, <1>3, <1>5, <1>6, <1>7

\* Every step keeps the invariant.
LEMMA RefNext ==
  ASSUME MaxMi = 0
  PROVE  RefInv /\ [Next]_vars => RefInv'
<1> SUFFICES ASSUME RefInv, [Next]_vars PROVE RefInv'
  OBVIOUS
<1>1. TypeOK'
  BY TypeNext DEF RefInv
<1>2. CASE UNCHANGED vars
  BY <1>1, <1>2, RefSame DEF vars
<1>3. ASSUME NEW d \in Dlgs,
             DlgOnReq(d) \/ DlgOnReqError(d) \/ DlgOnRouteMismatch(d)
      PROVE  RefInv'
  BY <1>1, <1>3, RefNoHandler
<1>4. ASSUME NEW d \in Dlgs, DlgOnTransDeleted(d) \/ FlushCopy(d)
      PROVE  RefInv'
  BY <1>1, <1>4, RefOnTransDeleted, RefTimer
<1>5. ASSUME NEW p \in Procs, NEW d \in Dlgs, Environment(p, d)
      PROVE  RefInv'
  <2>1. CASE \E ev \in ReplyEvents : DlgOnReply(p, d, ev)
    BY <1>1, <2>1, RefOnReply
  <2>2. CASE \E ev \in RouteEvents : DlgOnRoute(p, d, ev)
    BY <1>1, <2>2, RefOnRoute
  <2>3. CASE MiTerminateDlg(p, d)
    <3>1. cnt[d]["mi"] \in Nat
      BY DEF RefInv, TypeOK, Counted
    <3>2. cnt[d]["mi"] < 0
      BY <2>3 DEF MiTerminateDlg
    <3> QED
      BY <3>1, <3>2
  <2>4. CASE ByeReplyCb(p, d)
    BY <2>4 DEF ByeReplyCb, RefInv, NoMi
  <2> QED
    BY <1>5, <2>1, <2>2, <2>3, <2>4 DEF Environment
<1>6. ASSUME NEW p \in Procs, Step(p)
      PROVE  RefInv'
  BY <1>1, <1>6, RefOnRouteNext, RefUnref, RefQuietSteps DEF Step
<1>7. CASE TimerStep \/ GetExpiredDlgs
  BY <1>1, <1>7, RefTimer, RefOnTimeout DEF TimerStep
<1>8. ASSUME NEW graceful \in BOOLEAN, Restart(graceful)
      PROVE  RefInv'
  BY <1>1, <1>8, RefRestart
<1> QED
  BY <1>2, <1>3, <1>4, <1>5, <1>6, <1>7, <1>8 DEF Next

\* While dlg_end_dlg is not used, dlg->ref counts exactly the owners of
\* references: whatever handlers interleave, whatever queries fail and wherever
\* the server crashes, no path of dlg_onreply, dlg_onroute, dlg_ontimeout and
\* next_state_dlg releases a reference twice or forgets one, apart from the
\* leaks of dlg_onroute's early returns.
THEOREM RefsExact ==
  ASSUME MaxMi = 0
  PROVE  Spec => []RefExact
<1>1. RefInv => RefExact
  BY DEF RefInv
<1> QED
  BY <1>1, RefInit, RefNext, PTL DEF Spec

\* While dlg_end_dlg is not used, nobody destroys a dialog that the transaction
\* or a handler which took a reference still uses.
THEOREM OwnersFindTheCell ==
  ASSUME MaxMi = 0
  PROVE  Spec => []HeldAlive
<1>1. RefInv => HeldAlive
  <2> SUFFICES ASSUME RefInv, NEW d \in Dlgs, Owners(d) # {} \/ byes[d] > 0
               PROVE  life[d] = "linked"
    BY DEF HeldAlive
  <2>1. Tmr \in Procs
    BY DEF Procs
  <2>2. byes[d] = 0
    BY DEF RefInv, NoMi
  <2>3. PICK r : r \in Owners(d)
    BY <2>2
  <2>4. CASE life[d] = "linked" /\ state[d] # DELETED
    BY <2>4
  <2>5. CASE tm[d]
    BY <2>1, <2>5, OwnedLinked
  <2>6. CASE r \in Procs \X (1..3) /\ r[2] <= Held(r[1], d)
    <3>1. PICK p \in Procs, i \in 1..3 : r = <<p, i>>
      BY <2>6
    <3>2. i <= Held(p, d) /\ Held(p, d) \in 0..3
      BY <2>6, <3>1, RefSum
    <3>3. Held(p, d) > 0
      BY <3>2
    <3> QED
      BY <3>3, OwnedLinked
  <2> QED
    BY <2>3, <2>4, <2>5, <2>6 DEF Owners
<1> QED
  BY <1>1, RefInit, RefNext, PTL DEF Spec
=============================================================================
