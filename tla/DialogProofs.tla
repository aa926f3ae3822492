---------------------------- MODULE DialogProofs ----------------------------
(***************************************************************************)
(* Type correctness of Dialog, and what its reference counts rest on: the  *)
(* types of what the handlers compute, the theorem TypeCorrect, how the    *)
(* owners of a dialog are counted (dlg->ref is a sum over the entry, the   *)
(* transaction and the handlers, and a step of one process moves only its  *)
(* own share), and the steps of a handler that move no reference.          *)
(***************************************************************************)
EXTENDS Dialog, FiniteSetTheorems, SequenceTheorems, TLAPS

-----------------------------------------------------------------------------
(* Lemmas on the operators of the model. *)

\* A handler without a message is a well-formed job.
LEMMA IdleType == Idle \in Jobs /\ Idle.n = 0 /\ Idle.h = "none"
<1>1. (CHOOSE d \in Dlgs : TRUE) \in Dlgs
  BY DlgsAssumption
<1> QED
  BY <1>1 DEF Idle, Jobs, Handlers, RouteEvents, States, DELETED

\* next_state_dlg yields a dialog state.
LEMMA StateAfterType ==
  ASSUME NEW ev, NEW s \in States, NEW bye
  PROVE  StateAfter(ev, s, bye) \in States
BY DEF StateAfter, States, DELETED, EARLY, CONFIRMED_NA, CONFIRMED

\* An event changes the counter by at most one.
LEMMA RefAfterType ==
  ASSUME NEW ev, NEW s, NEW bye
  PROVE  RefAfter(ev, s, bye) \in {-1, 0, 1}
BY DEF RefAfter

\* remove_dlg_timer keeps a list of dialogs.
LEMMA UnlinkType ==
  ASSUME NEW s \in Seq(Dlgs), NEW d
  PROVE  Unlink(s, d) \in Seq(Dlgs)
<1>1. CASE d \notin Range(s)
  BY <1>1 DEF Unlink
<1>2. CASE d \in Range(s)
  <2> DEFINE i == CHOOSE i \in DOMAIN s : s[i] = d
  <2>1. i \in DOMAIN s
    BY <1>2 DEF Range
  <2>2. DOMAIN s = 1..Len(s) /\ Len(s) \in Nat
    BY LenProperties
  <2> HIDE DEF i
  <2>3. SubSeq(s, 1, i - 1) \in Seq(Dlgs)
    BY <2>1, <2>2, SubSeqProperties, ElementOfSeq
  <2>4. SubSeq(s, i + 1, Len(s)) \in Seq(Dlgs)
    BY <2>1, <2>2, SubSeqProperties, ElementOfSeq
  <2>5. SubSeq(s, 1, i - 1) \o SubSeq(s, i + 1, Len(s)) \in Seq(Dlgs)
    BY <2>3, <2>4, ConcatProperties
  <2> QED
    BY <1>2, <2>5 DEF Unlink, i
<1> QED
  BY <1>1, <1>2

\* insert_dlg_timer_unsafe keeps a list of dialogs.
LEMMA InsertionsType ==
  ASSUME NEW s \in Seq(Dlgs), NEW d \in Dlgs
  PROVE  Insertions(s, d) \subseteq Seq(Dlgs)
<1> SUFFICES ASSUME NEW i \in 1..(Len(s) + 1)
             PROVE  SubSeq(s, 1, i - 1) \o <<d>> \o SubSeq(s, i, Len(s)) \in Seq(Dlgs)
  BY Zenon DEF Insertions
<1>1. Len(s) \in Nat
  BY LenProperties
<1>2. SubSeq(s, 1, i - 1) \in Seq(Dlgs)
  BY <1>1, SubSeqProperties, ElementOfSeq
<1>3. SubSeq(s, i, Len(s)) \in Seq(Dlgs)
  BY <1>1, SubSeqProperties, ElementOfSeq
<1>4. <<d>> \in Seq(Dlgs)
  OBVIOUS
<1>5. SubSeq(s, 1, i - 1) \o <<d>> \in Seq(Dlgs)
  BY <1>2, <1>4, ConcatProperties
<1> QED
  BY <1>3, <1>5, ConcatProperties

\* load_dialog_info_from_db arms the loaded dialogs.
LEMMA OrdersType ==
  ASSUME NEW S \in SUBSET Dlgs
  PROVE  {s \in [1..Cardinality(S) -> S] : Range(s) = S} \subseteq Seq(Dlgs)
<1>1. Cardinality(S) \in Nat
  BY DlgsAssumption, FS_Subset, FS_CardinalityType
<1>2. ASSUME NEW f \in [1..Cardinality(S) -> S] PROVE f \in Seq(Dlgs)
  BY <1>1, <1>2
<1> QED
  BY <1>2

-----------------------------------------------------------------------------
(* What the handlers do next is a label and a job. *)

\* The job of a handler that has run next_state_dlg.
LEMMA JobType ==
  ASSUME state \in [Dlgs -> States], NEW h \in Handlers, NEW d \in Dlgs, NEW ev
  PROVE  /\ Job(h, d, ev) \in Jobs
         /\ Job(h, d, ev).h = h /\ Job(h, d, ev).d = d /\ Job(h, d, ev).n = 0
         /\ Job(h, d, ev).old = state[d]
         /\ Job(h, d, ev).new = StateAfter(ev, state[d], "HASBYE" \in flags[d])
<1>1. StateAfter(ev, state[d], "HASBYE" \in flags[d]) \in States
  BY StateAfterType
<1> QED
  BY <1>1, IdleType, Zenon DEF Job, Jobs

\* Setting what a handler will release and report leaves a job.
LEMMA JobExceptType ==
  ASSUME NEW j \in Jobs, NEW n \in 0..3, NEW a \in {-1, 0, 1}, NEW e \in {-1, 0, 1}
  PROVE  /\ [j EXCEPT !.n = n] \in Jobs
         /\ [j EXCEPT !.de = e] \in Jobs
         /\ [j EXCEPT !.n = n, !.da = a] \in Jobs
         /\ [j EXCEPT !.de = e, !.da = a] \in Jobs
         /\ [j EXCEPT !.de = e, !.n = n] \in Jobs
<1>1. [j EXCEPT !.n = n] \in Jobs
  BY DEF Jobs
<1>2. [j EXCEPT !.de = e] \in Jobs
  BY DEF Jobs
<1>3. [j EXCEPT !.n = n, !.da = a] \in Jobs
  BY Zenon DEF Jobs
<1>4. [j EXCEPT !.de = e, !.da = a] \in Jobs
  BY Zenon DEF Jobs
<1>5. [j EXCEPT !.de = e, !.n = n] \in Jobs
  BY Zenon DEF Jobs
<1> QED
  BY <1>1, <1>2, <1>3, <1>4, <1>5

\* dlg_onreply goes on to a label with a job.
LEMMA AfterReplyType ==
  ASSUME NEW j \in Jobs
  PROVE  AfterReply(j)[1] \in Labels /\ AfterReply(j)[2] \in Jobs
<1> DEFINE left == IF j.old = EARLY THEN -1 ELSE 0
<1>1. left \in {-1, 0, 1} /\ 1 \in {-1, 0, 1} /\ 1 \in 0..3
  OBVIOUS
<1>2. [j EXCEPT !.de = 1] \in Jobs
  BY <1>1, JobExceptType, Zenon
<1>3. [j EXCEPT !.de = left, !.da = 1] \in Jobs
  BY <1>1, JobExceptType, Zenon
<1>4. [j EXCEPT !.de = left, !.n = 1] \in Jobs
  BY <1>1, JobExceptType, Zenon
<1> QED
  BY <1>2, <1>3, <1>4, IdleType DEF AfterReply, Labels

\* dlg_onroute goes on to a label with a job.
LEMMA AfterRouteType ==
  ASSUME NEW j \in Jobs, NEW ev
  PROVE  AfterRoute(ev, j)[1] \in Labels /\ AfterRoute(ev, j)[2] \in Jobs
<1>0. -1 \in {-1, 0, 1} /\ 2 \in 0..3
  OBVIOUS
<1>1. [j EXCEPT !.n = 2, !.da = -1] \in Jobs
  BY <1>0, JobExceptType, Zenon
<1>2. [j EXCEPT !.n = 1] \in Jobs
  BY DEF Jobs
<1> QED
  BY <1>1, <1>2, IdleType DEF AfterRoute, Labels

\* A handler that has saved the dialog goes on to a label with a job.
LEMMA AfterSaveType ==
  ASSUME NEW j \in Jobs
  PROVE  AfterSave(j)[1] \in Labels /\ AfterSave(j)[2] \in Jobs
BY IdleType DEF AfterSave, Jobs, Labels

\* dlg_ontimeout goes on to a label with a job.
LEMMA AfterTimeoutType ==
  ASSUME NEW j \in Jobs
  PROVE  AfterTimeout(j)[1] \in Labels /\ AfterTimeout(j)[2] \in Jobs
<1>0. -1 \in {-1, 0, 1} /\ 1 \in 0..3
  OBVIOUS
<1>1. [j EXCEPT !.n = 1, !.da = -1] \in Jobs
  BY <1>0, JobExceptType, Zenon
<1> QED
  BY <1>1, IdleType DEF AfterTimeout, Labels

\* bye_reply_cb goes on to a label with a job.
LEMMA AfterByeReplyType ==
  ASSUME NEW j \in Jobs
  PROVE  AfterByeReply(j)[1] \in Labels /\ AfterByeReply(j)[2] \in Jobs
<1>0. -1 \in {-1, 0, 1} /\ 3 \in 0..3
  OBVIOUS
<1>1. [j EXCEPT !.n = 3, !.da = -1] \in Jobs
  BY <1>0, JobExceptType, Zenon
<1>2. [j EXCEPT !.n = 1] \in Jobs
  BY DEF Jobs
<1> QED
  BY <1>1, <1>2, IdleType DEF AfterByeReply, Labels

-----------------------------------------------------------------------------
(* What the pieces of an action do to the types. *)

PcType == pc \in [Procs -> Labels] /\ job \in [Procs -> Jobs]
CellType == /\ life \in [Dlgs -> {"none", "linked", "gone"}]
            /\ ref \in [Dlgs -> Int]
            /\ tlist \in Seq(Dlgs)

\* Counting towards a bound.
LEMMA CountType ==
  ASSUME cnt \in [Dlgs -> [Counted -> Nat]], NEW d \in Dlgs, NEW c \in Counted
  PROVE  [cnt EXCEPT ![d][c] = @ + 1] \in [Dlgs -> [Counted -> Nat]]
<1>1. cnt[d] \in [Counted -> Nat] /\ cnt[d][c] \in Nat
  OBVIOUS
<1>2. [cnt[d] EXCEPT ![c] = cnt[d][c] + 1] \in [Counted -> Nat]
  BY <1>1
<1>3. [cnt EXCEPT ![d][c] = @ + 1]
        = [cnt EXCEPT ![d] = [cnt[d] EXCEPT ![c] = cnt[d][c] + 1]]
  BY Zenon
<1> QED
  BY <1>2, <1>3

\* A process that goes to a label with a job keeps the control state typed.
LEMMA GotoType ==
  ASSUME PcType, NEW p \in Procs, NEW l \in Labels, NEW j \in Jobs, Goto(p, l, j)
  PROVE  PcType'
BY DEF PcType, Goto

\* So does one that has finished.
LEMMA DoneType ==
  ASSUME PcType, NEW p \in Procs, Done(p)
  PROVE  PcType'
BY GotoType, IdleType DEF Done, Labels

\* So does one that is left with the statistics.
LEMMA ReportType ==
  ASSUME PcType, NEW p \in Procs, Report(p)
  PROVE  PcType'
<1> DEFINE j == job[p]
           r == [Idle EXCEPT !.h = j.h, !.d = j.d, !.da = j.da, !.de = j.de]
<1>1. r \in Jobs
  <2>1. j \in Jobs
    BY DEF PcType
  <2> QED
    BY <2>1, IdleType, Zenon DEF Jobs
<1>2. CASE Done(p)
  BY <1>2, DoneType
<1>3. CASE Goto(p, "stat", r)
  BY <1>1, <1>3, GotoType DEF Labels
<1> QED
  BY <1>2, <1>3 DEF Report

\* A change of the counter, which may destroy the cell, keeps the cells typed.
LEMMA RefByType ==
  ASSUME CellType, NEW d \in Dlgs, NEW k \in Int, RefBy(d, k)
  PROVE  CellType'
BY UnlinkType DEF CellType, RefBy

\* next_state_dlg keeps the cells typed.
LEMMA NextStateType ==
  ASSUME CellType, state \in [Dlgs -> States], flags \in [Dlgs -> SUBSET Flags],
         NEW d \in Dlgs, NEW ev, NextStateDlg(d, ev)
  PROVE  /\ CellType'
         /\ state' \in [Dlgs -> States]
         /\ flags' \in [Dlgs -> SUBSET Flags]
<1> DEFINE bye == "HASBYE" \in flags[d]
<1>1. CellType'
  <2>1. RefAfter(ev, state[d], bye) \in Int
    BY RefAfterType
  <2> QED
    BY <2>1, RefByType DEF NextStateDlg
<1>2. state' \in [Dlgs -> States]
  BY StateAfterType DEF NextStateDlg
<1>3. flags' \in [Dlgs -> SUBSET Flags]
  BY DEF NextStateDlg, Flags
<1> QED
  BY <1>1, <1>2, <1>3

\* A save writes a row with a dialog state.
LEMMA RowType ==
  ASSUME rows \in [Dlgs -> [n : Nat, st : States]], state \in [Dlgs -> States],
         NEW d \in Dlgs
  PROVE  /\ RowInserted(d) \in [n : Nat, st : States]
         /\ RowUpdated(d) \in [n : Nat, st : States]
         /\ Saved(d) \in [n : Nat, st : States]
<1>1. RowInserted(d) \in [n : Nat, st : States]
  BY DEF RowInserted
<1>2. RowUpdated(d) \in [n : Nat, st : States]
  BY DEF RowUpdated
<1> QED
  BY <1>1, <1>2 DEF Saved

-----------------------------------------------------------------------------
(* Type correctness. *)

\* The initial state is typed.
LEMMA TypeInit == Init => TypeOK
<1> SUFFICES ASSUME Init PROVE TypeOK
  OBVIOUS
<1>1. job \in [Procs -> Jobs] /\ pc \in [Procs -> Labels]
  BY IdleType DEF Init, Labels
<1>2. tlist \in Seq(Dlgs) /\ det \in Seq(Dlgs)
  BY DEF Init
<1>3. cnt \in [Dlgs -> [Counted -> Nat]]
  BY DEF Init
<1>4. rows \in [Dlgs -> [n : Nat, st : States]]
  BY DEF Init, States, UNCONFIRMED
<1> QED
  BY <1>1, <1>2, <1>3, <1>4
  DEF Init, TypeOK, States, UNCONFIRMED, Flags, Handlers

\* The actions that start a handler or end a transaction.
LEMMA TypeEnvironment ==
  ASSUME TypeOK, NEW d \in Dlgs
  PROVE  /\ DlgOnReq(d) \/ DlgOnReqError(d) \/ DlgOnRouteMismatch(d) => TypeOK'
         /\ DlgOnTransDeleted(d) \/ FlushCopy(d) => TypeOK'
         /\ \A p \in Procs : Environment(p, d) => TypeOK'
<1> Tmr \in Procs
  BY DEF Procs
<1> PcType /\ CellType
  BY DEF TypeOK, PcType, CellType
<1>1. CASE DlgOnReq(d)
  <2>1. CellType'
    BY <1>1 DEF DlgOnReq, CellType
  <2>2. tm' \in [Dlgs -> BOOLEAN]
    BY <1>1 DEF DlgOnReq, TypeOK
  <2> QED
    BY <1>1, <2>1, <2>2, Zenon DEF DlgOnReq, TypeOK, CellType, aux
<1>2. CASE DlgOnReqError(d)
  BY <1>2, Zenon DEF DlgOnReqError, TypeOK, aux
<1>3. CASE DlgOnRouteMismatch(d)
  <2>1. ref' \in [Dlgs -> Int] /\ leaked' \in [Dlgs -> Nat]
    BY <1>3 DEF DlgOnRouteMismatch, TypeOK
  <2> QED
    BY <1>3, <2>1, Zenon DEF DlgOnRouteMismatch, TypeOK
<1>4. CASE DlgOnTransDeleted(d)
  <2> DEFINE next == AfterReply(Job("onreply", d, "TDEL"))
  <2>1. next[1] \in Labels /\ next[2] \in Jobs
    BY JobType, AfterReplyType DEF TypeOK, Handlers
  <2> HIDE DEF next
  <2>2. PcType'
    BY <1>4, <2>1, GotoType DEF DlgOnTransDeleted, next
  <2>3. /\ CellType'
        /\ state' \in [Dlgs -> States]
        /\ flags' \in [Dlgs -> SUBSET Flags]
    BY <1>4, NextStateType DEF DlgOnTransDeleted, TypeOK
  <2>4. ub' \in Handlers /\ tm' \in [Dlgs -> BOOLEAN]
    BY <1>4 DEF DlgOnTransDeleted, TypeOK, Handlers
  <2> QED
    BY <1>4, <2>2, <2>3, <2>4
   , Zenon DEF DlgOnTransDeleted, TypeOK, aux, PcType, CellType
<1>5. CASE FlushCopy(d)
  <2>1. [Idle EXCEPT !.h = "flush", !.d = d] \in Jobs
    BY IdleType, Zenon DEF Jobs, Handlers
  <2>2. PcType'
    BY <1>5, <2>1, GotoType DEF FlushCopy, Labels
  <2> QED
    BY <1>5, <2>2, Zenon DEF FlushCopy, TypeOK, cell, aux, PcType
<1>6. ASSUME NEW p \in Procs, Environment(p, d) PROVE TypeOK'
  <2>1. ASSUME NEW ev \in ReplyEvents, DlgOnReply(p, d, ev) PROVE TypeOK'
    <3> DEFINE next == AfterReply(Job("onreply", d, ev))
    <3>1. next[1] \in Labels /\ next[2] \in Jobs
      BY JobType, AfterReplyType DEF TypeOK, Handlers
    <3> HIDE DEF next
    <3>2. PcType'
      BY <2>1, <3>1, GotoType DEF DlgOnReply, next
    <3>3. /\ CellType'
          /\ state' \in [Dlgs -> States]
          /\ flags' \in [Dlgs -> SUBSET Flags]
      BY <2>1, NextStateType DEF DlgOnReply, TypeOK
    <3>4. cnt' \in [Dlgs -> [Counted -> Nat]]
      BY <2>1, CountType, Zenon DEF DlgOnReply, TypeOK, Counted
    <3> QED
      BY <2>1, <3>2, <3>3, <3>4, Zenon DEF DlgOnReply, TypeOK, PcType, CellType
  <2>2. ASSUME NEW ev \in RouteEvents, DlgOnRoute(p, d, ev) PROVE TypeOK'
    <3>1. [Idle EXCEPT !.h = "onroute", !.d = d, !.ev = ev] \in Jobs
      BY IdleType, Zenon DEF Jobs, Handlers
    <3>2. PcType'
      BY <2>2, <3>1, GotoType DEF DlgOnRoute, Labels
    <3>3. cnt' \in [Dlgs -> [Counted -> Nat]]
      BY <2>2, CountType, Zenon DEF DlgOnRoute, TypeOK, Counted
    <3>4. ref' \in [Dlgs -> Int]
      BY <2>2 DEF DlgOnRoute, TypeOK
    <3> QED
      BY <2>2, <3>2, <3>3, <3>4, Zenon DEF DlgOnRoute, TypeOK, PcType
  <2>3. CASE MiTerminateDlg(p, d)
    <3>1. [Idle EXCEPT !.h = "mi", !.d = d] \in Jobs
      BY IdleType, Zenon DEF Jobs, Handlers
    <3>2. PcType'
      BY <2>3, <3>1, GotoType DEF MiTerminateDlg, Labels
    <3>3. cnt' \in [Dlgs -> [Counted -> Nat]]
      BY <2>3, CountType, Zenon DEF MiTerminateDlg, TypeOK, Counted
    <3>4. ref' \in [Dlgs -> Int] /\ mi' \in [Dlgs -> Int]
      BY <2>3 DEF MiTerminateDlg, TypeOK
    <3> QED
      BY <2>3, <3>2, <3>3, <3>4, Zenon DEF MiTerminateDlg, TypeOK, PcType
  <2>4. CASE ByeReplyCb(p, d)
    <3> DEFINE next == AfterByeReply(Job("byecb", d, "REQBYE"))
               spent == CASE next[1] = "tl_del" -> 2
                          [] next[1] = "idle" -> 0
                          [] OTHER -> 1
    <3>1. next[1] \in Labels /\ next[2] \in Jobs
      BY JobType, AfterByeReplyType DEF TypeOK, Handlers
    <3> HIDE DEF next
    <3>2. PcType'
      BY <2>4, <3>1, GotoType DEF ByeReplyCb, next
    <3>3. /\ CellType'
          /\ state' \in [Dlgs -> States]
          /\ flags' \in [Dlgs -> SUBSET Flags]
      BY <2>4, NextStateType DEF ByeReplyCb, TypeOK
    <3>4. mi' = [mi EXCEPT ![d] = @ - spent]
      BY <2>4 DEF ByeReplyCb, next
    <3>5. spent \in Int
      OBVIOUS
    <3> HIDE DEF spent
    <3>6. mi' \in [Dlgs -> Int]
      BY <3>4, <3>5 DEF TypeOK
    <3>7. byes' \in [Dlgs -> Nat]
      <4>1. byes' = [byes EXCEPT ![d] = @ - 1] /\ byes[d] > 0
        BY <2>4 DEF ByeReplyCb
      <4>2. byes \in [Dlgs -> Nat]
        BY DEF TypeOK
      <4>3. byes[d] - 1 \in Nat
        BY <4>1, <4>2
      <4> QED
        BY <4>1, <4>2, <4>3
    <3> QED
      BY <2>4, <3>2, <3>3, <3>6, <3>7, Zenon DEF ByeReplyCb, TypeOK, PcType, CellType
  <2> QED
    BY <1>6, <2>1, <2>2, <2>3, <2>4 DEF Environment
<1> QED
  BY <1>1, <1>2, <1>3, <1>4, <1>5, <1>6

-----------------------------------------------------------------------------
(* Type correctness: the steps of the handlers and of the timer process. *)

\* The steps of a handler.
LEMMA TypeStep ==
  ASSUME TypeOK, NEW p \in Procs, Step(p)
  PROVE  TypeOK'
<1> DEFINE j == job[p]
           d == j.d
<1>0. /\ PcType /\ CellType
      /\ j \in Jobs /\ d \in Dlgs
  BY DEF TypeOK, PcType, CellType, Jobs
<1>1. CASE DlgOnRouteNext(p)
  <2> DEFINE next == AfterRoute(j.ev, Job("onroute", d, j.ev))
  <2>1. next[1] \in Labels /\ next[2] \in Jobs
    BY <1>0, JobType, AfterRouteType DEF TypeOK, Handlers
  <2> HIDE DEF next
  <2>2. PcType'
    BY <1>0, <1>1, <2>1, GotoType, Zenon DEF DlgOnRouteNext, next
  <2>3. /\ CellType'
        /\ state' \in [Dlgs -> States]
        /\ flags' \in [Dlgs -> SUBSET Flags]
    BY <1>0, <1>1, NextStateType DEF DlgOnRouteNext, TypeOK
  <2> QED
    BY <1>1, <2>2, <2>3 DEF DlgOnRouteNext, TypeOK, aux, PcType, CellType
<1>2. CASE LoadFlags(p)
  <2>1. [j EXCEPT !.fl = flags[d]] \in Jobs
    BY <1>0, Zenon DEF TypeOK, Jobs
  <2>2. PcType'
    BY <1>0, <1>2, <2>1, GotoType DEF LoadFlags, Labels
  <2> QED
    BY <1>2, <2>2 DEF LoadFlags, TypeOK, cell, aux, PcType
<1>3. CASE StoreFlags(p)
  <2> DEFINE k == [j EXCEPT !.fl = {}]
             next == IF DbMode = "REALTIME" THEN <<"db_test", k>> ELSE AfterSave(k)
             bit == IF j.h = "onreply" THEN "NEW" ELSE "CHANGED"
  <2>1. k \in Jobs
    BY <1>0 DEF Jobs
  <2> HIDE DEF k
  <2>2. next[1] \in Labels /\ next[2] \in Jobs
    BY <2>1, AfterSaveType DEF Labels
  <2> HIDE DEF next
  <2>3. PcType'
    BY <1>0, <1>3, <2>2, GotoType DEF StoreFlags, next, k
  <2>4. j.fl \cup {bit} \in SUBSET Flags
    BY <1>0 DEF Jobs, Flags
  <2>5. flags' \in [Dlgs -> SUBSET Flags]
    BY <1>3, <2>4, <1>0 DEF StoreFlags, TypeOK
  <2> QED
    BY <1>3, <2>3, <2>5, Zenon DEF StoreFlags, TypeOK, aux, PcType
<1>4. CASE TestFlags(p)
  <2> DEFINE f == flags[d]
             next == CASE "NEW" \in f -> <<"db_insert", j>>
                       [] "NEW" \notin f /\ "CHANGED" \in f -> <<"db_update", j>>
                       [] OTHER -> AfterSave(j)
  <2>1. next[1] \in Labels /\ next[2] \in Jobs
    BY <1>0, AfterSaveType DEF Labels
  <2> HIDE DEF next
  <2>2. PcType'
    BY <1>0, <1>4, <2>1, GotoType DEF TestFlags, next
  <2> QED
    BY <1>4, <2>2, Zenon DEF TestFlags, TypeOK, cell, aux, PcType
<1>5. CASE DbInsert(p) \/ DbUpdate(p) \/ DbSaveFails(p)
  <2>1. AfterSave(j)[1] \in Labels /\ AfterSave(j)[2] \in Jobs
    BY <1>0, AfterSaveType
  <2>2. PcType'
    BY <1>0, <1>5, <2>1, GotoType, Zenon DEF DbInsert, DbUpdate, DbSaveFails
  <2>3. rows' \in [Dlgs -> [n : Nat, st : States]]
    <3>1. CASE DbInsert(p)
      BY <1>0, <3>1, RowType DEF DbInsert, TypeOK
    <3>2. CASE DbUpdate(p)
      BY <1>0, <3>2, RowType DEF DbUpdate, TypeOK
    <3>3. CASE DbSaveFails(p)
      BY <3>3 DEF DbSaveFails, TypeOK
    <3> QED
      BY <1>5, <3>1, <3>2, <3>3
  <2>4. flags' \in [Dlgs -> SUBSET Flags]
    <3>1. CASE DbInsert(p)
      BY <1>0, <3>1 DEF DbInsert, TypeOK
    <3>2. CASE DbUpdate(p)
      BY <1>0, <3>2 DEF DbUpdate, TypeOK
    <3>3. CASE DbSaveFails(p)
      BY <3>3 DEF DbSaveFails, TypeOK, cell
    <3> QED
      BY <1>5, <3>1, <3>2, <3>3
  <2> QED
    BY <1>5, <2>2, <2>3, <2>4, Zenon
    DEF DbInsert, DbUpdate, DbSaveFails, TypeOK, cell, aux, PcType
<1>6. CASE DbRemove(p)
  <2>1. PcType'
    BY <1>0, <1>6, GotoType DEF DbRemove, Labels
  <2>2. [rows EXCEPT ![d].n = 0] \in [Dlgs -> [n : Nat, st : States]]
    <3>1. [rows[d] EXCEPT !.n = 0] \in [n : Nat, st : States]
      BY <1>0, ZenonT(40) DEF TypeOK
    <3>2. [rows EXCEPT ![d].n = 0] = [rows EXCEPT ![d] = [rows[d] EXCEPT !.n = 0]]
      BY Zenon
    <3> QED
      BY <1>0, <3>1, <3>2 DEF TypeOK
  <2>3. rows' \in [Dlgs -> [n : Nat, st : States]]
    BY <1>6, <2>2, Zenon DEF DbRemove, TypeOK
  <2> QED
    BY <1>6, <2>1, <2>3 DEF DbRemove, TypeOK, cell, aux, PcType
<1>7. CASE InsertDlgTimer(p)
  <2>1. PcType'
    BY <1>0, <1>7, ReportType DEF InsertDlgTimer
  <2>2. tlist' \in Seq(Dlgs)
    BY <1>0, <1>7, InsertionsType DEF InsertDlgTimer, CellType
  <2> QED
    BY <1>7, <2>1, <2>2 DEF InsertDlgTimer, TypeOK, cell, aux, PcType
<1>8. CASE RemoveDlgTimer(p)
  <2>1. PcType'
    BY <1>0, <1>8, GotoType DEF RemoveDlgTimer, Labels
  <2>2. tlist' \in Seq(Dlgs)
    BY <1>0, <1>8, UnlinkType DEF RemoveDlgTimer, CellType
  <2> QED
    BY <1>8, <2>1, <2>2, Zenon DEF RemoveDlgTimer, TypeOK, cell, aux, PcType
<1>9. CASE UpdateDlgTimer(p)
  <2>1. AfterSave(j)[1] \in Labels /\ AfterSave(j)[2] \in Jobs
    BY <1>0, AfterSaveType
  <2>2. PcType'
    BY <1>0, <1>9, <2>1, GotoType DEF UpdateDlgTimer, Labels
  <2>3. Unlink(tlist, d) \in Seq(Dlgs)
    BY <1>0, UnlinkType DEF CellType
  <2>4. tlist' \in Seq(Dlgs)
    BY <1>0, <1>9, <2>3, InsertionsType DEF UpdateDlgTimer, CellType
  <2> QED
    BY <1>9, <2>2, <2>4, Zenon DEF UpdateDlgTimer, TypeOK, cell, aux, PcType
<1>10. CASE UnrefDlg(p)
  <2>1. PcType'
    BY <1>0, <1>10, ReportType DEF UnrefDlg
  <2>2. -j.n \in Int
    BY <1>0 DEF Jobs
  <2>3. CellType'
    BY <1>0, <1>10, <2>2, RefByType DEF UnrefDlg
  <2> QED
    BY <1>10, <2>1, <2>3 DEF UnrefDlg, TypeOK, aux, PcType, CellType
<1>11. CASE UpdateStat(p)
  <2>1. PcType'
    BY <1>0, <1>11, DoneType DEF UpdateStat
  <2>2. act' \in Int /\ early' \in Int
    <3>1. act' = act + j.da /\ early' = early + j.de
      BY <1>11 DEF UpdateStat
    <3>2. j.da \in {-1, 0, 1} /\ j.de \in {-1, 0, 1}
      BY <1>0 DEF Jobs
    <3>3. act \in Int /\ early \in Int
      BY DEF TypeOK
    <3> HIDE DEF j
    <3> QED
      BY <3>1, <3>2, <3>3
  <2> QED
    BY <1>11, <2>1, <2>2 DEF UpdateStat, TypeOK, cell, aux, PcType
<1>12. CASE SendBye(p)
  <2>1. [j EXCEPT !.blk = 2] \in Jobs
    BY <1>0 DEF Jobs
  <2>2. PcType'
    BY <1>0, <1>12, <2>1, GotoType, DoneType DEF SendBye, Labels
  <2>3. ref' \in [Dlgs -> Int] /\ mi' \in [Dlgs -> Int] /\ byes' \in [Dlgs -> Nat]
    <3>1. ref' \in {ref, [ref EXCEPT ![d] = @ + 1]}
      BY <1>12 DEF SendBye
    <3>2. mi' \in {mi, [mi EXCEPT ![d] = @ + 1]}
      BY <1>12 DEF SendBye
    <3>3. byes' \in {byes, [byes EXCEPT ![d] = @ + 1]}
      BY <1>12 DEF SendBye
    <3>4. ref' \in [Dlgs -> Int]
      <4>1. ref \in [Dlgs -> Int] /\ d \in Dlgs
        BY <1>0 DEF TypeOK
      <4>2. [ref EXCEPT ![d] = @ + 1] \in [Dlgs -> Int]
        BY <4>1
      <4> QED
        BY <4>1, <4>2, <3>1
    <3>5. mi' \in [Dlgs -> Int]
      <4>1. mi \in [Dlgs -> Int] /\ d \in Dlgs
        BY <1>0 DEF TypeOK
      <4>2. [mi EXCEPT ![d] = @ + 1] \in [Dlgs -> Int]
        BY <4>1
      <4> QED
        BY <4>1, <4>2, <3>2
    <3>6. byes' \in [Dlgs -> Nat]
      <4>1. byes \in [Dlgs -> Nat] /\ d \in Dlgs
        BY <1>0 DEF TypeOK
      <4>2. [byes EXCEPT ![d] = @ + 1] \in [Dlgs -> Nat]
        BY <4>1
      <4> QED
        BY <4>1, <4>2, <3>3
    <3> QED
      BY <3>4, <3>5, <3>6
  <2> QED
    BY <1>12, <2>2, <2>3, Zenon DEF SendBye, TypeOK, PcType
<1>13. CASE UseFreed(p)
  BY <1>0, <1>13 DEF UseFreed, TypeOK, cell, aux, Jobs
<1> QED
  BY <1>1, <1>2, <1>3, <1>4, <1>5, <1>6, <1>7, <1>8, <1>9, <1>10, <1>11, <1>12,
     <1>13 DEF Step

\* The timer process on the expired chain and in the periodic save.
LEMMA TypeTimerStep ==
  ASSUME TypeOK, TimerStep \/ GetExpiredDlgs
  PROVE  TypeOK'
<1>0. Tmr \in Procs /\ PcType /\ CellType
  BY DEF TypeOK, PcType, CellType, Procs
<1>1. CASE DlgTimerRoutine
  <2>1. det # <<>> /\ det \in Seq(Dlgs)
    BY <1>1 DEF DlgTimerRoutine, TypeOK
  <2>2. Head(det) \in Dlgs /\ Tail(det) \in Seq(Dlgs)
    BY <2>1, HeadTailProperties
  <2>3. [Idle EXCEPT !.h = "ontimeout", !.d = Head(det), !.ev = "REQBYE"] \in Jobs
    BY <2>2, IdleType, ZenonT(40) DEF Jobs, Handlers, RouteEvents
  <2>4. PcType'
    BY <1>0, <1>1, <2>3, GotoType DEF DlgTimerRoutine, Labels, PcType
  <2>5. det' \in Seq(Dlgs) /\ ub' \in Handlers \cup {"timer"}
    BY <1>1, <2>2, Zenon DEF DlgTimerRoutine, TypeOK
  <2> QED
    BY <1>1, <2>4, <2>5, Zenon DEF DlgTimerRoutine, TypeOK, cell, aux, PcType
<1>2. CASE DlgOnTimeout
  <2> DEFINE d == job[Tmr].d
             next == AfterTimeout(Job("ontimeout", d, "REQBYE"))
  <2>1. d \in Dlgs
    BY <1>0 DEF PcType, Jobs
  <2>2. next[1] \in Labels /\ next[2] \in Jobs
    BY <2>1, JobType, AfterTimeoutType, Zenon DEF TypeOK, Handlers
  <2> HIDE DEF next
  <2>3. PcType'
    BY <1>0, <1>2, <2>2, GotoType DEF DlgOnTimeout, next
  <2>4. /\ CellType'
        /\ state' \in [Dlgs -> States]
        /\ flags' \in [Dlgs -> SUBSET Flags]
    BY <1>0, <1>2, <2>1, NextStateType DEF DlgOnTimeout, TypeOK
  <2> QED
    BY <1>2, <2>3, <2>4 DEF DlgOnTimeout, TypeOK, aux, PcType, CellType
<1>3. CASE DialogUpdateDb
  <2>1. PcType'
    BY <1>0, <1>3, DoneType, Zenon DEF DialogUpdateDb
  <2>2. rows' \in [Dlgs -> [n : Nat, st : States]]
    BY <1>3, RowType DEF DialogUpdateDb, TypeOK
  <2>3. flags' \in [Dlgs -> SUBSET Flags]
    BY <1>3 DEF DialogUpdateDb, TypeOK
  <2> QED
    BY <1>3, <2>1, <2>2, <2>3 DEF DialogUpdateDb, TypeOK, aux, PcType
<1>4. CASE GetExpiredDlgs
  <2>1. PICK n \in 1..Len(tlist) :
           /\ det' = SubSeq(tlist, 1, n)
           /\ tlist' = SubSeq(tlist, n + 1, Len(tlist))
    BY <1>4 DEF GetExpiredDlgs
  <2>2. tlist \in Seq(Dlgs) /\ Len(tlist) \in Nat
    BY LenProperties DEF TypeOK
  <2>3. det' \in Seq(Dlgs)
    BY <2>1, <2>2, SubSeqProperties, ElementOfSeq
  <2>4. tlist' \in Seq(Dlgs)
    BY <2>1, <2>2, SubSeqProperties, ElementOfSeq
  <2> QED
    BY <1>4, <2>3, <2>4, Zenon DEF GetExpiredDlgs, TypeOK, cell, aux
<1> QED
  BY <1>1, <1>2, <1>3, <1>4 DEF TimerStep

\* The table rebuilt from the database.
LEMMA TypeRestart ==
  ASSUME TypeOK, NEW graceful \in BOOLEAN, Restart(graceful)
  PROVE  TypeOK'
<1>1. PICK S \in (IF graceful /\ DbMode = "DELAYED" THEN SavedSets ELSE {{}}) :
         LoadedFrom([d \in Dlgs |-> IF d \in S THEN Saved(d) ELSE rows[d]])
  BY DEF Restart
<1> DEFINE r == [d \in Dlgs |-> IF d \in S THEN Saved(d) ELSE rows[d]]
           loaded == {d \in Dlgs : r[d].n > 0}
<1>2. r \in [Dlgs -> [n : Nat, st : States]]
  BY RowType DEF TypeOK
<1> HIDE DEF r
<1>3. LoadedFrom(r)
  BY <1>1 DEF r
<1>4. rows' \in [Dlgs -> [n : Nat, st : States]]
  BY <1>2, <1>3 DEF LoadedFrom
<1>5. life' \in [Dlgs -> {"none", "linked", "gone"}]
  BY <1>3 DEF LoadedFrom
<1>6. state' \in [Dlgs -> States]
  BY <1>2, <1>3 DEF LoadedFrom, TypeOK
<1>7. /\ ref' \in [Dlgs -> Int] /\ leaked' \in [Dlgs -> Nat]
      /\ byes' \in [Dlgs -> Nat] /\ mi' \in [Dlgs -> Int]
      /\ act' \in Int /\ early' \in Int
  BY <1>3 DEF LoadedFrom
<1>8. flags' \in [Dlgs -> SUBSET Flags] /\ tm' \in [Dlgs -> BOOLEAN]
  BY <1>3 DEF LoadedFrom
<1>9. tlist' \in Seq(Dlgs) /\ det' \in Seq(Dlgs)
  <2>1. tlist' \in {s \in [1..Cardinality(loaded) -> loaded] : Range(s) = loaded} /\ det' = <<>>
    BY <1>3 DEF LoadedFrom
  <2>2. loaded \in SUBSET Dlgs
    OBVIOUS
  <2>3. <<>> \in Seq(Dlgs)
    OBVIOUS
  <2> QED
    BY <2>1, <2>2, <2>3, OrdersType, Zenon
<1>10. pc' \in [Procs -> Labels] /\ job' \in [Procs -> Jobs]
  BY <1>3, IdleType DEF LoadedFrom, Labels
<1>11. boots' \in Nat /\ cnt' = cnt /\ ub' = ub
  BY DEF Restart, TypeOK
<1> QED
  BY <1>4, <1>5, <1>6, <1>7, <1>8, <1>9, <1>10, <1>11 DEF TypeOK

\* Every step keeps the types.
LEMMA TypeNext == TypeOK /\ [Next]_vars => TypeOK'
<1> SUFFICES ASSUME TypeOK, [Next]_vars PROVE TypeOK'
  OBVIOUS
<1>1. CASE UNCHANGED vars
  BY <1>1 DEF TypeOK, vars
<1>2. CASE Next
  BY <1>2, TypeEnvironment, TypeStep, TypeTimerStep, TypeRestart DEF Next
<1> QED
  BY <1>1, <1>2

\* Every variable keeps its type in every behaviour of the dialog module.
THEOREM TypeCorrect == Spec => []TypeOK
BY TypeInit, TypeNext, PTL DEF Spec

-----------------------------------------------------------------------------
(* The owners of a dialog, counted. *)

Entry(d) == IF life[d] = "linked" /\ state[d] # DELETED THEN 1 ELSE 0
Trans(d) == IF tm[d] THEN 1 ELSE 0

\* The references of the handlers other than p's.
Others(p, d) == {r \in (Procs \ {p}) \X (1..3) : r[2] <= Held(r[1], d)}

\* References are counted one owner at a time, from the point of view of p.
CountedBy(p, d) ==
  Cardinality(Owners(d))
    = Entry(d) + Trans(d) + Cardinality(Others(p, d)) + Held(p, d)

\* The workers and the timer process are finitely many.
LEMMA ProcsFinite == IsFiniteSet(Procs)
BY WorkersAssumption, FS_AddElement DEF Procs

\* A handler holds at most three references.
LEMMA HeldType ==
  ASSUME TypeOK, NEW p \in Procs, NEW d \in Dlgs
  PROVE  Held(p, d) \in 0..3
BY DEF Held, TypeOK, Jobs

\* The references of the other handlers are finitely many.
LEMMA OthersFinite ==
  ASSUME NEW p, NEW d
  PROVE  IsFiniteSet(Others(p, d)) /\ Cardinality(Others(p, d)) \in Nat
<1>1. IsFiniteSet(1..3)
  <2>1. 1 \in Int /\ 3 \in Int
    OBVIOUS
  <2> QED
    BY <2>1, FS_Interval, Zenon
<1>2. IsFiniteSet(Procs \ {p})
  BY ProcsFinite, FS_RemoveElement
<1>3. IsFiniteSet((Procs \ {p}) \X (1..3))
  BY <1>1, <1>2, FS_Product
<1>4. Others(p, d) \subseteq (Procs \ {p}) \X (1..3)
  BY DEF Others
<1>5. IsFiniteSet(Others(p, d))
  BY <1>3, <1>4, FS_Subset
<1> QED
  BY <1>5, FS_CardinalityType

\* The owners of d are the entry, tm, the other handlers and p's references.
LEMMA OwnersCount == TypeOK => \A p \in Procs, d \in Dlgs : CountedBy(p, d)
<1> SUFFICES ASSUME TypeOK, NEW p \in Procs, NEW d \in Dlgs PROVE CountedBy(p, d)
  OBVIOUS
<1> DEFINE O == Others(p, d)
           h == Held(p, d)
           H == {r \in {p} \X (1..3) : r[2] <= h}
           E == IF Entry(d) = 1 THEN {<<"entry", 0>>} ELSE {}
           T == IF tm[d] THEN {<<"tm", 0>>} ELSE {}
<1>1. h \in 0..3
  BY HeldType
<1>2. IsFiniteSet(O) /\ Cardinality(O) \in Nat
  BY OthersFinite
<1>3. Owners(d) = ((O \cup H) \cup E) \cup T
  <2>1. {r \in Procs \X (1..3) : r[2] <= Held(r[1], d)} = O \cup H
    BY DEF Others
  <2>2. (IF life[d] = "linked" /\ state[d] # DELETED THEN {<<"entry", 0>>} ELSE {})
          = E
    BY DEF Entry
  <2> QED
    BY <2>1, <2>2, Zenon DEF Owners
<1>4. IsFiniteSet(O \cup H) /\ Cardinality(O \cup H) = Cardinality(O) + h
  <2>0. <<p, 1>> \notin O /\ <<p, 2>> \notin O /\ <<p, 3>> \notin O
    BY DEF Others
  <2>a. /\ IsFiniteSet(O \cup {<<p, 1>>})
        /\ Cardinality(O \cup {<<p, 1>>}) = Cardinality(O) + 1
    BY <1>2, <2>0, FS_AddElement
  <2>b. /\ IsFiniteSet((O \cup {<<p, 1>>}) \cup {<<p, 2>>})
        /\ Cardinality((O \cup {<<p, 1>>}) \cup {<<p, 2>>}) = Cardinality(O) + 2
    <3>1. <<p, 2>> \notin O \cup {<<p, 1>>}
      BY <2>0
    <3>2. /\ IsFiniteSet((O \cup {<<p, 1>>}) \cup {<<p, 2>>})
          /\ Cardinality((O \cup {<<p, 1>>}) \cup {<<p, 2>>})
               = Cardinality(O \cup {<<p, 1>>}) + 1
      BY <2>a, <3>1, FS_AddElement
    <3> QED
      BY <1>2, <2>a, <3>2
  <2>c. /\ IsFiniteSet(((O \cup {<<p, 1>>}) \cup {<<p, 2>>}) \cup {<<p, 3>>})
        /\ Cardinality(((O \cup {<<p, 1>>}) \cup {<<p, 2>>}) \cup {<<p, 3>>})
             = Cardinality(O) + 3
    <3>1. <<p, 3>> \notin (O \cup {<<p, 1>>}) \cup {<<p, 2>>}
      BY <2>0
    <3>2. /\ IsFiniteSet(((O \cup {<<p, 1>>}) \cup {<<p, 2>>}) \cup {<<p, 3>>})
          /\ Cardinality(((O \cup {<<p, 1>>}) \cup {<<p, 2>>}) \cup {<<p, 3>>})
               = Cardinality((O \cup {<<p, 1>>}) \cup {<<p, 2>>}) + 1
      BY <2>b, <3>1, FS_AddElement
    <3> QED
      BY <1>2, <2>b, <3>2
  <2>1. CASE h = 0
    <3>1. O \cup H = O
      BY <2>1
    <3> QED
      BY <1>2, <2>1, <3>1
  <2>2. CASE h = 1
    <3>1. H = {<<p, 1>>}
      BY <2>2
    <3> QED
      BY <2>a, <2>2, <3>1, Zenon
  <2>3. CASE h = 2
    <3>1. H = {<<p, 1>>, <<p, 2>>}
      BY <2>3
    <3>2. O \cup H = (O \cup {<<p, 1>>}) \cup {<<p, 2>>}
      BY <3>1
    <3> QED
      BY <2>b, <2>3, <3>2
  <2>4. CASE h = 3
    <3>1. H = {<<p, 1>>, <<p, 2>>, <<p, 3>>}
      BY <2>4
    <3>2. O \cup H = ((O \cup {<<p, 1>>}) \cup {<<p, 2>>}) \cup {<<p, 3>>}
      BY <3>1
    <3> QED
      BY <2>c, <2>4, <3>2
  <2> QED
    BY <1>1, <2>1, <2>2, <2>3, <2>4
<1>5. <<"entry", 0>> \notin O \cup H /\ <<"tm", 0>> \notin (O \cup H) \cup E
  BY DEF Others
<1> HIDE DEF O, H, h
<1>6. /\ IsFiniteSet((O \cup H) \cup E)
      /\ Cardinality((O \cup H) \cup E) = Cardinality(O) + h + Entry(d)
  <2>1. CASE Entry(d) = 1
    <3>1. E = {<<"entry", 0>>}
      BY <2>1
    <3>2. /\ IsFiniteSet((O \cup H) \cup {<<"entry", 0>>})
          /\ Cardinality((O \cup H) \cup {<<"entry", 0>>})
               = Cardinality(O \cup H) + 1
      BY <1>4, <1>5, FS_AddElement, Zenon
    <3> QED
      BY <1>4, <2>1, <3>1, <3>2
  <2>2. CASE Entry(d) = 0
    <3>1. (O \cup H) \cup E = O \cup H
      BY <2>2
    <3> QED
      BY <1>1, <1>2, <1>4, <2>2, <3>1
  <2> QED
    BY <2>1, <2>2 DEF Entry
<1> HIDE DEF E
<1>7. Cardinality(Owners(d)) = Cardinality(O) + h + Entry(d) + Trans(d)
  <2>0. Entry(d) \in {0, 1}
    BY DEF Entry
  <2>1. CASE tm[d]
    <3>1. /\ IsFiniteSet(((O \cup H) \cup E) \cup {<<"tm", 0>>})
          /\ Cardinality(((O \cup H) \cup E) \cup {<<"tm", 0>>})
               = Cardinality((O \cup H) \cup E) + 1
      BY <1>5, <1>6, FS_AddElement, Zenon
    <3>2. T = {<<"tm", 0>>} /\ Trans(d) = 1
      BY <2>1 DEF Trans
    <3> QED
      BY <1>3, <1>6, <3>1, <3>2
  <2>2. CASE ~tm[d]
    <3>1. T = {} /\ Trans(d) = 0
      BY <2>2 DEF Trans
    <3>2. Owners(d) = (O \cup H) \cup E
      BY <1>3, <3>1
    <3> QED
      BY <1>1, <1>2, <1>6, <2>0, <3>1, <3>2
  <2> QED
    BY <2>1, <2>2
<1>8. Entry(d) \in {0, 1} /\ Trans(d) \in {0, 1}
  BY DEF Entry, Trans
<1> QED
  BY <1>1, <1>2, <1>7, <1>8 DEF CountedBy, O, h

\* The same count in the state after a step.
LEMMA OwnersCountPrime ==
  TypeOK' => (\A p \in Procs, d \in Dlgs : CountedBy(p, d))'
BY OwnersCount, PTL

-----------------------------------------------------------------------------
(* The inductive invariant. *)

Saving == {"load", "store", "db_test", "db_insert", "db_update"}

\* Where a handler can be and what it then still has to release; the handlers
\* of dlg_end_dlg do not run.
GoodJob(l, j) ==
  /\ l # "bye" /\ j.h \notin {"mi", "byecb"}
  /\ l = "idle" => j = Idle
  /\ l = "next" => j.h \in {"onroute", "ontimeout"} /\ j.n = 0
  /\ l \in Saving => j.h \in {"onreply", "onroute"} /\ j.n = 0
  /\ l = "tl_ins" => j.h = "onreply" /\ j.n = 0
  /\ l = "tl_upd" => j.h = "onroute" /\ j.n = 0
  /\ l \in {"tl_del", "db_del", "unref"} => j.n \in {1, 2}
  /\ l = "stat" => j.n = 0
  /\ l = "flush" => j.h = "flush" /\ j.n = 0

Shape ==
  /\ job[Tmr].h # "onroute"
  /\ \A p \in Procs : GoodJob(pc[p], job[p])

NoMi == \A d \in Dlgs : mi[d] = 0 /\ byes[d] = 0

\* A cell is in memory exactly while its counter is positive.
Live ==
  \A d \in Dlgs : /\ life[d] = "linked" <=> ref[d] > 0
                  /\ life[d] = "none" => state[d] # DELETED

RefInv == TypeOK /\ NoMi /\ Shape /\ RefExact /\ Live

-----------------------------------------------------------------------------
(* How the parts of the invariant are carried over a step. *)

\* The entry and the transaction own at most one reference each.
LEMMA OneTypes ==
  ASSUME NEW d
  PROVE  Entry(d) \in {0, 1} /\ Trans(d) \in {0, 1}
BY DEF Entry, Trans

\* The counter as a sum, from the point of view of p.
LEMMA RefSum ==
  ASSUME RefInv, NEW p \in Procs, NEW d \in Dlgs
  PROVE  /\ ref[d] = Entry(d) + Trans(d) + Cardinality(Others(p, d))
                       + Held(p, d) + leaked[d]
         /\ Cardinality(Others(p, d)) \in Nat /\ Held(p, d) \in 0..3
         /\ leaked[d] \in Nat /\ ref[d] \in Nat
<1>1. CountedBy(p, d)
  BY OwnersCount DEF RefInv
<1>2. Cardinality(Others(p, d)) \in Nat
  BY OthersFinite
<1>3. Held(p, d) \in 0..3 /\ leaked[d] \in Nat /\ mi[d] = 0
  BY HeldType, Zenon DEF RefInv, TypeOK, NoMi
<1>4. ref[d] = Cardinality(Owners(d)) + mi[d] + leaked[d]
  BY DEF RefInv, RefExact
<1> QED
  BY <1>1, <1>2, <1>3, <1>4, OneTypes DEF CountedBy

\* The terms of the sum are integers.
LEMMA RefInts ==
  ASSUME RefInv, NEW p \in Procs, NEW d \in Dlgs
  PROVE  /\ Entry(d) \in Int /\ Trans(d) \in Int /\ Held(p, d) \in Int
         /\ Cardinality(Others(p, d)) \in Int
         /\ leaked[d] \in Int /\ ref[d] \in Int
<1>1. /\ \A n \in {0, 1} : n \in Int
      /\ \A n \in 0..3 : n \in Int
      /\ \A n \in Nat : n \in Int
  OBVIOUS
<1> QED
  BY <1>1, RefSum, OneTypes, Zenon

\* The sum after every term has moved by as much as the counter.
LEMMA SumMoves ==
  ASSUME NEW p, NEW d,
         Entry(d) \in Int /\ Trans(d) \in Int /\ Held(p, d) \in Int,
         Cardinality(Others(p, d)) \in Int /\ leaked[d] \in Int /\ ref[d] \in Int,
         Entry(d)' \in Int /\ Trans(d)' \in Int,
         Held(p, d)' \in Int /\ leaked'[d] \in Int,
         mi'[d] = 0,
         ref[d] = Entry(d) + Trans(d) + Cardinality(Others(p, d)) + Held(p, d)
                    + leaked[d],
         ref'[d] = ref[d] + (Entry(d)' - Entry(d)) + (Trans(d)' - Trans(d))
                     + (Held(p, d)' - Held(p, d)) + (leaked'[d] - leaked[d]),
         Cardinality(Owners(d)') = Entry(d)' + Trans(d)'
                                     + Cardinality(Others(p, d)) + Held(p, d)'
  PROVE  ref'[d] = Cardinality(Owners(d)') + mi'[d] + leaked'[d]
OBVIOUS

\* A counter that stays, and none of whose terms moves.
LEMMA SumRests ==
  ASSUME NEW p, NEW d, NEW h,
         Entry(d) \in Int /\ Trans(d) \in Int /\ Held(p, d) \in Int,
         leaked[d] \in Int /\ ref[d] \in Int,
         Entry(d)' = Entry(d) /\ Trans(d)' = Trans(d) /\ h = Held(p, d),
         leaked'[d] = leaked[d] /\ ref'[d] = ref[d]
  PROVE  ref'[d] = ref[d] + (Entry(d)' - Entry(d)) + (Trans(d)' - Trans(d))
                     + (h - Held(p, d)) + (leaked'[d] - leaked[d])
OBVIOUS

\* A step of p on d that changes the counter by what its owners change keeps
\* every counter exact.
LEMMA RefFrame ==
  ASSUME RefInv, TypeOK', NEW p \in Procs, NEW d \in Dlgs,
         mi' = mi,
         \A q \in Procs \ {p} : pc'[q] = pc[q] /\ job'[q] = job[q],
         \A e \in Dlgs \ {d} :
            /\ life'[e] = life[e] /\ state'[e] = state[e] /\ tm'[e] = tm[e]
            /\ ref'[e] = ref[e] /\ leaked'[e] = leaked[e]
            /\ Held(p, e)' = Held(p, e),
         ref'[d] = ref[d] + (Entry(d)' - Entry(d)) + (Trans(d)' - Trans(d))
                     + (Held(p, d)' - Held(p, d)) + (leaked'[d] - leaked[d])
  PROVE  RefExact'
<1> SUFFICES ASSUME NEW e \in Dlgs
             PROVE  ref'[e] = Cardinality(Owners(e)') + mi'[e] + leaked'[e]
  BY Zenon DEF RefExact
<1>1. Others(p, e)' = Others(p, e)
  <2>1. \A q \in Procs \ {p} : Held(q, e)' = Held(q, e)
    BY DEF Held
  <2> QED
    BY <2>1 DEF Others
<1>2. Cardinality(Owners(e)') = Entry(e)' + Trans(e)' + Cardinality(Others(p, e))
                                 + Held(p, e)'
  BY <1>1, OwnersCountPrime, Zenon DEF CountedBy
<1>3. ref[e] = Entry(e) + Trans(e) + Cardinality(Others(p, e)) + Held(p, e)
                  + leaked[e]
  BY RefSum, Zenon
<1>4. /\ Entry(e) \in Int /\ Trans(e) \in Int /\ Held(p, e) \in Int
      /\ Cardinality(Others(p, e)) \in Int /\ leaked[e] \in Int /\ ref[e] \in Int
  BY RefInts, Zenon
<1>5. Entry(e)' \in Int /\ Trans(e)' \in Int
  <2>1. 0 \in Int /\ 1 \in Int
    OBVIOUS
  <2> QED
    BY <2>1, Zenon DEF Entry, Trans
<1>6. Held(p, e)' \in Int /\ leaked'[e] \in Int
  <2>1. /\ \A k \in Jobs : k.n \in Int
        /\ \A n \in Nat : n \in Int
        /\ 0 \in Int /\ 1 \in Int
    BY DEF Jobs
  <2>2. job'[p] \in Jobs /\ leaked'[e] \in Nat
    BY Zenon DEF TypeOK
  <2>3. Held(p, e)' \in {0, 1, job'[p].n}
    BY DEF Held
  <2> QED
    BY <2>1, <2>2, <2>3, Zenon
<1>7. mi'[e] = 0
  BY Zenon DEF RefInv, NoMi
<1>8. ref'[e] = ref[e] + (Entry(e)' - Entry(e)) + (Trans(e)' - Trans(e))
                  + (Held(p, e)' - Held(p, e)) + (leaked'[e] - leaked[e])
  <2>1. CASE e = d
    BY <2>1, Zenon
  <2>2. CASE e # d
    <3>1. Entry(e)' = Entry(e) /\ Trans(e)' = Trans(e)
      BY <2>2, Zenon DEF Entry, Trans
    <3>2. ref'[e] = ref[e] /\ leaked'[e] = leaked[e] /\ Held(p, e)' = Held(p, e)
      BY <2>2, Zenon
    <3> QED
      BY <1>4, <3>1, <3>2, SumRests, Zenon
  <2> QED
    BY <2>1, <2>2, Zenon
<1> QED
  BY <1>2, <1>3, <1>4, <1>5, <1>6, <1>7, <1>8, SumMoves, Zenon

\* One handler moves on, to a good place.
LEMMA ShapeFrame ==
  ASSUME TypeOK, Shape, NEW p \in Procs, NEW l, NEW j, Goto(p, l, j),
         GoodJob(l, j), p = Tmr => j.h # "onroute"
  PROVE  /\ Shape'
         /\ pc'[p] = l /\ job'[p] = j
         /\ \A q \in Procs \ {p} : pc'[q] = pc[q] /\ job'[q] = job[q]
<1>1. pc'[p] = l /\ job'[p] = j
  BY DEF Goto, TypeOK
<1>2. \A q \in Procs \ {p} : pc'[q] = pc[q] /\ job'[q] = job[q]
  BY DEF Goto, TypeOK
<1>3. \A q \in Procs : GoodJob(pc'[q], job'[q])
  BY <1>1, <1>2, Zenon DEF Shape
<1>4. Tmr \in Procs
  BY DEF Procs
<1>5. job'[Tmr].h # "onroute"
  BY <1>1, <1>2, <1>4 DEF Shape
<1>6. Shape'
  BY <1>3, <1>5, Zenon DEF Shape, GoodJob
<1> QED
  BY <1>1, <1>2, <1>6, Zenon

\* A handler that has nothing to do holds nothing.
LEMMA HeldIdle ==
  ASSUME RefInv, NEW p \in Procs, pc[p] = "idle", NEW d \in Dlgs
  PROVE  Held(p, d) = 0
<1>1. job[p] = Idle
  BY DEF RefInv, Shape, GoodJob
<1> QED
  BY <1>1, IdleType DEF Held

\* What a handler holds, from its label and its job.
HeldOf(l, j, d) ==
  CASE j.d # d -> 0
    [] j.d = d /\ j.h = "onroute" /\ l # "stat" -> IF j.n = 0 THEN 1 ELSE j.n
    [] OTHER -> j.n

\* The step of p on d, in terms of where p goes and what it holds there.
LEMMA RefStep ==
  ASSUME RefInv, TypeOK', NEW p \in Procs, NEW d \in Dlgs, NEW l, NEW j,
         Goto(p, l, j), GoodJob(l, j), p = Tmr => j.h # "onroute",
         mi' = mi, byes' = byes,
         \A e \in Dlgs \ {d} :
            /\ life'[e] = life[e] /\ state'[e] = state[e] /\ tm'[e] = tm[e]
            /\ ref'[e] = ref[e] /\ leaked'[e] = leaked[e]
            /\ HeldOf(l, j, e) = Held(p, e),
         ref'[d] = ref[d] + (Entry(d)' - Entry(d)) + (Trans(d)' - Trans(d))
                     + (HeldOf(l, j, d) - Held(p, d)) + (leaked'[d] - leaked[d]),
         life'[d] = "linked" <=> ref'[d] > 0,
         life'[d] = "none" => state'[d] # DELETED
  PROVE  RefInv'
<1>1. /\ Shape'
      /\ pc'[p] = l /\ job'[p] = j
      /\ \A q \in Procs \ {p} : pc'[q] = pc[q] /\ job'[q] = job[q]
  BY ShapeFrame, Zenon DEF RefInv
<1>2. \A e \in Dlgs : Held(p, e)' = HeldOf(l, j, e)
  BY <1>1 DEF Held, HeldOf
<1>3. RefExact'
  <2>1. \A e \in Dlgs \ {d} :
          /\ life'[e] = life[e] /\ state'[e] = state[e] /\ tm'[e] = tm[e]
          /\ ref'[e] = ref[e] /\ leaked'[e] = leaked[e]
          /\ Held(p, e)' = Held(p, e)
    BY <1>2, Zenon
  <2>2. ref'[d] = ref[d] + (Entry(d)' - Entry(d)) + (Trans(d)' - Trans(d))
                    + (Held(p, d)' - Held(p, d)) + (leaked'[d] - leaked[d])
    BY <1>2, Zenon
  <2> QED
    BY <1>1, <2>1, <2>2, RefFrame, Zenon
<1>4. Live'
  BY Zenon DEF RefInv, Live
<1>5. NoMi'
  BY Zenon DEF RefInv, NoMi
<1> QED
  BY <1>1, <1>3, <1>4, <1>5, Zenon DEF RefInv

\* A step of p that moves no reference.
LEMMA RefQuiet ==
  ASSUME RefInv, TypeOK', NEW p \in Procs, NEW l, NEW j,
         Goto(p, l, j), GoodJob(l, j), p = Tmr => j.h # "onroute",
         UNCHANGED <<life, state, ref, tm, mi, byes, leaked>>,
         \A e \in Dlgs : HeldOf(l, j, e) = Held(p, e)
  PROVE  RefInv'
<1>1. PICK d \in Dlgs : TRUE
  BY DlgsAssumption
<1>2. /\ Entry(d)' = Entry(d) /\ Trans(d)' = Trans(d) /\ leaked'[d] = leaked[d]
      /\ ref'[d] = ref[d] /\ HeldOf(l, j, d) = Held(p, d)
  BY <1>1, Zenon DEF Entry, Trans
<1>3. /\ Entry(d) \in Int /\ Trans(d) \in Int /\ Held(p, d) \in Int
      /\ leaked[d] \in Int /\ ref[d] \in Int
  BY <1>1, RefInts, Zenon
<1>4. ref'[d] = ref[d] + (Entry(d)' - Entry(d)) + (Trans(d)' - Trans(d))
                 + (HeldOf(l, j, d) - Held(p, d)) + (leaked'[d] - leaked[d])
  BY <1>2, <1>3, SumRests, Zenon
<1>5. /\ life'[d] = "linked" <=> ref'[d] > 0
      /\ life'[d] = "none" => state'[d] # DELETED
  BY <1>1, Zenon DEF RefInv, Live
<1> QED
  BY <1>1, <1>4, <1>5, RefStep, Zenon

-----------------------------------------------------------------------------
(* Where the handlers go and what they hold there. *)

\* A process without a handler is well placed and holds nothing.
LEMMA IdleGood == GoodJob("idle", Idle) /\ \A e : HeldOf("idle", Idle, e) = 0
BY IdleType DEF GoodJob, HeldOf, Saving

\* What a handler writes to its job leaves h and d alone.
LEMMA JobFields ==
  ASSUME NEW j \in Jobs, NEW n, NEW a, NEW e
  PROVE  /\ LET r == [j EXCEPT !.de = e, !.da = a]
            IN  r.h = j.h /\ r.d = j.d /\ r.n = j.n
         /\ LET r == [j EXCEPT !.de = e, !.n = n]
            IN  r.h = j.h /\ r.d = j.d /\ r.n = n
         /\ LET r == [j EXCEPT !.n = n, !.da = a]
            IN  r.h = j.h /\ r.d = j.d /\ r.n = n
BY DEF Jobs

\* Where dlg_onreply goes and what it holds there.
LEMMA AfterReplyHeld ==
  ASSUME NEW j \in Jobs, j.h = "onreply", j.n = 0
  PROVE  LET r == AfterReply(j) IN
         /\ GoodJob(r[1], r[2]) /\ r[2].h # "onroute"
         /\ \A e : HeldOf(r[1], r[2], e) =
              IF e = j.d /\ j.new = DELETED /\ j.old # DELETED THEN 1 ELSE 0
<1> DEFINE left == IF j.old = EARLY THEN -1 ELSE 0
<1>1. CASE j.new = EARLY /\ j.old # EARLY
  <2>1. AfterReply(j) = <<"stat", [j EXCEPT !.de = 1]>>
    BY <1>1 DEF AfterReply, EARLY, CONFIRMED_NA, DELETED
  <2> QED
    BY <1>1, <2>1 DEF GoodJob, HeldOf, Saving, Jobs, EARLY, DELETED
<1>2. CASE j.new = CONFIRMED_NA /\ ~Confirmed(j.old)
  <2>1. AfterReply(j) = <<"load", [j EXCEPT !.de = left, !.da = 1]>>
    BY <1>2 DEF AfterReply, EARLY, CONFIRMED_NA, DELETED
  <2> DEFINE r == [j EXCEPT !.de = left, !.da = 1]
  <2>2. r.h = j.h /\ r.d = j.d /\ r.n = j.n
    BY JobFields
  <2>3. AfterReply(j) = <<"load", r>>
    BY <2>1
  <2> HIDE DEF r
  <2> QED
    BY <1>2, <2>2, <2>3 DEF GoodJob, HeldOf, Saving, CONFIRMED_NA, DELETED
<1>3. CASE j.new = DELETED /\ j.old # DELETED
  <2>1. AfterReply(j) = <<"unref", [j EXCEPT !.de = left, !.n = 1]>>
    BY <1>3 DEF AfterReply, EARLY, CONFIRMED_NA, DELETED
  <2> DEFINE r == [j EXCEPT !.de = left, !.n = 1]
  <2>2. r.h = j.h /\ r.d = j.d /\ r.n = 1
    BY JobFields
  <2>3. AfterReply(j) = <<"unref", r>>
    BY <2>1
  <2> HIDE DEF r
  <2> QED
    BY <1>3, <2>2, <2>3 DEF GoodJob, HeldOf, Saving
<1>4. CASE ~(\/ j.new = EARLY /\ j.old # EARLY
             \/ j.new = CONFIRMED_NA /\ ~Confirmed(j.old)
             \/ j.new = DELETED /\ j.old # DELETED)
  <2>1. AfterReply(j) = <<"idle", Idle>>
    BY <1>4 DEF AfterReply
  <2> QED
    BY <1>4, <2>1, IdleGood, IdleType
<1> QED
  BY <1>1, <1>2, <1>3, <1>4, Zenon

\* Where dlg_onroute goes and what it holds there.
LEMMA AfterRouteHeld ==
  ASSUME NEW ev, NEW j \in Jobs, j.h = "onroute", j.n = 0
  PROVE  LET r == AfterRoute(ev, j) IN
         /\ GoodJob(r[1], r[2])
         /\ \A e : HeldOf(r[1], r[2], e) =
              IF e # j.d THEN 0
              ELSE IF ev = "REQBYE" /\ j.new = DELETED /\ j.old # DELETED
                   THEN 2 ELSE 1
<1>1. CASE ev = "REQBYE" /\ j.new = DELETED /\ j.old # DELETED
  <2>1. AfterRoute(ev, j) = <<"tl_del", [j EXCEPT !.n = 2, !.da = -1]>>
    BY <1>1 DEF AfterRoute
  <2> DEFINE r == [j EXCEPT !.n = 2, !.da = -1]
  <2>2. r.h = j.h /\ r.d = j.d /\ r.n = 2
    BY JobFields
  <2>3. AfterRoute(ev, j) = <<"tl_del", r>>
    BY <2>1
  <2> HIDE DEF r
  <2> QED
    BY <1>1, <2>2, <2>3 DEF GoodJob, HeldOf, Saving
<1>2. CASE ev \in {"REQ", "REQACK"} /\ j.new = CONFIRMED
  <2>1. AfterRoute(ev, j) = <<"tl_upd", j>>
    BY <1>2 DEF AfterRoute
  <2> QED
    BY <1>2, <2>1 DEF GoodJob, HeldOf, Saving, Jobs
<1>3. CASE ~(\/ ev = "REQBYE" /\ j.new = DELETED /\ j.old # DELETED
             \/ ev \in {"REQ", "REQACK"} /\ j.new = CONFIRMED)
  <2>1. AfterRoute(ev, j) = <<"unref", [j EXCEPT !.n = 1]>>
    BY <1>3 DEF AfterRoute
  <2> QED
    BY <1>3, <2>1 DEF GoodJob, HeldOf, Saving, Jobs
<1> QED
  BY <1>1, <1>2, <1>3, Zenon

\* Where a handler that has saved the dialog goes and what it holds there.
LEMMA AfterSaveHeld ==
  ASSUME NEW j \in Jobs, j.h \in {"onreply", "onroute"}, j.n = 0
  PROVE  LET r == AfterSave(j) IN
         /\ GoodJob(r[1], r[2]) /\ r[2].h = j.h
         /\ \A e : HeldOf(r[1], r[2], e) =
              IF e = j.d /\ j.h = "onroute" THEN 1 ELSE 0
<1>1. CASE j.h = "onreply"
  <2>1. AfterSave(j) = <<"tl_ins", j>>
    BY <1>1 DEF AfterSave
  <2> QED
    BY <1>1, <2>1 DEF GoodJob, HeldOf, Saving, Jobs
<1>2. CASE j.h = "onroute" /\ j.blk = 1 /\ j.old = CONFIRMED_NA
  <2>1. AfterSave(j) = <<"load", [j EXCEPT !.blk = 2]>>
    BY <1>2 DEF AfterSave
  <2> QED
    BY <1>2, <2>1 DEF GoodJob, HeldOf, Saving, Jobs
<1>3. CASE j.h = "onroute" /\ ~(j.blk = 1 /\ j.old = CONFIRMED_NA)
  <2>1. AfterSave(j) = <<"unref", [j EXCEPT !.n = 1]>>
    BY <1>3 DEF AfterSave
  <2> QED
    BY <1>3, <2>1 DEF GoodJob, HeldOf, Saving, Jobs
<1> QED
  BY <1>1, <1>2, <1>3, Zenon

\* Where dlg_ontimeout goes and what it holds there.
LEMMA AfterTimeoutHeld ==
  ASSUME NEW j \in Jobs, j.h = "ontimeout", j.n = 0
  PROVE  LET r == AfterTimeout(j) IN
         /\ GoodJob(r[1], r[2]) /\ r[2].h # "onroute"
         /\ \A e : HeldOf(r[1], r[2], e) =
              IF e = j.d /\ j.new = DELETED /\ j.old # DELETED THEN 1 ELSE 0
<1>1. CASE j.new = DELETED /\ j.old # DELETED
  <2>1. AfterTimeout(j) = <<IF DbMode = "NONE" THEN "unref" ELSE "db_del",
                            [j EXCEPT !.n = 1, !.da = -1]>>
    BY <1>1 DEF AfterTimeout
  <2> DEFINE r == [j EXCEPT !.n = 1, !.da = -1]
  <2>2. r.h = j.h /\ r.d = j.d /\ r.n = 1
    BY JobFields
  <2>3. AfterTimeout(j) = <<IF DbMode = "NONE" THEN "unref" ELSE "db_del", r>>
    BY <2>1
  <2> HIDE DEF r
  <2> QED
    BY <1>1, <2>2, <2>3 DEF GoodJob, HeldOf, Saving
<1>2. CASE ~(j.new = DELETED /\ j.old # DELETED)
  <2>1. AfterTimeout(j) = <<"idle", Idle>>
    BY <1>2 DEF AfterTimeout
  <2> QED
    BY <1>2, <2>1, IdleGood, IdleType
<1> QED
  BY <1>1, <1>2, Zenon

-----------------------------------------------------------------------------
(* The steps that move no reference. *)

\* Nothing the invariant speaks of changes.
LEMMA RefSame ==
  ASSUME RefInv, TypeOK',
         UNCHANGED <<life, state, ref, tm, mi, byes, leaked, pc, job>>
  PROVE  RefInv'
<1>1. Tmr \in Procs
  BY DEF Procs
<1>2. Goto(Tmr, pc[Tmr], job[Tmr])
  BY <1>1 DEF Goto, RefInv, TypeOK
<1>3. GoodJob(pc[Tmr], job[Tmr]) /\ job[Tmr].h # "onroute"
  BY <1>1 DEF RefInv, Shape
<1>4. \A e \in Dlgs : HeldOf(pc[Tmr], job[Tmr], e) = Held(Tmr, e)
  BY DEF Held, HeldOf
<1> QED
  BY <1>1, <1>2, <1>3, <1>4, RefQuiet, Zenon

\* A handler that saves the dialog holds the reference of its lookup, if any.
LEMMA SavingHeld ==
  ASSUME RefInv, NEW p \in Procs, pc[p] \in Saving \cup {"tl_upd"}
  PROVE  /\ job[p] \in Jobs /\ job[p].d \in Dlgs /\ job[p].n = 0
         /\ job[p].h \in {"onreply", "onroute"}
         /\ p = Tmr => job[p].h # "onroute"
         /\ \A e : Held(p, e) = IF e = job[p].d /\ job[p].h = "onroute"
                                THEN 1 ELSE 0
<1>1. job[p] \in Jobs /\ job[p].d \in Dlgs
  BY DEF RefInv, TypeOK, Jobs
<1>2. job[p].n = 0 /\ job[p].h \in {"onreply", "onroute"}
  BY DEF RefInv, Shape, GoodJob
<1>3. p = Tmr => job[p].h # "onroute"
  BY DEF RefInv, Shape
<1>4. pc[p] # "stat"
  BY DEF Saving
<1> QED
  BY <1>1, <1>2, <1>3, <1>4 DEF Held

\* The handler goes on to AfterSave.
LEMMA RefSave ==
  ASSUME RefInv, TypeOK', NEW p \in Procs, pc[p] \in Saving \cup {"tl_upd"},
         NEW j \in Jobs, j.h = job[p].h, j.d = job[p].d, j.n = job[p].n,
         Goto(p, AfterSave(j)[1], AfterSave(j)[2]),
         UNCHANGED <<life, state, ref, tm, mi, byes, leaked>>
  PROVE  RefInv'
<1> DEFINE l == AfterSave(j)[1]
           k == AfterSave(j)[2]
<1>1. /\ j.n = 0 /\ j.h \in {"onreply", "onroute"}
      /\ p = Tmr => j.h # "onroute"
      /\ \A e : Held(p, e) = IF e = j.d /\ j.h = "onroute" THEN 1 ELSE 0
  BY SavingHeld, Zenon
<1>2. /\ GoodJob(l, k) /\ k.h = j.h
      /\ \A e : HeldOf(l, k, e) = IF e = j.d /\ j.h = "onroute" THEN 1 ELSE 0
  BY <1>1, AfterSaveHeld, Zenon
<1>3. Goto(p, l, k)
  OBVIOUS
<1> HIDE DEF l, k
<1>4. \A e \in Dlgs : HeldOf(l, k, e) = Held(p, e)
  BY <1>1, <1>2, Zenon
<1>5. p = Tmr => k.h # "onroute"
  BY <1>1, <1>2, Zenon
<1> QED
  BY <1>2, <1>3, <1>4, <1>5, RefQuiet, Zenon

\* The handler goes on saving.
LEMMA RefSaving ==
  ASSUME RefInv, TypeOK', NEW p \in Procs, pc[p] \in Saving \cup {"tl_upd"},
         NEW l \in Saving, NEW j \in Jobs,
         j.h = job[p].h, j.d = job[p].d, j.n = job[p].n, Goto(p, l, j),
         UNCHANGED <<life, state, ref, tm, mi, byes, leaked>>
  PROVE  RefInv'
<1>1. /\ j.n = 0 /\ j.h \in {"onreply", "onroute"}
      /\ p = Tmr => j.h # "onroute"
      /\ \A e : Held(p, e) = IF e = j.d /\ j.h = "onroute" THEN 1 ELSE 0
  BY SavingHeld, Zenon
<1>2. /\ GoodJob(l, j)
      /\ \A e : HeldOf(l, j, e) = IF e = j.d /\ j.h = "onroute" THEN 1 ELSE 0
  BY <1>1 DEF GoodJob, HeldOf, Saving
<1>3. \A e \in Dlgs : HeldOf(l, j, e) = Held(p, e)
  BY <1>1, <1>2, Zenon
<1> QED
  BY <1>1, <1>2, <1>3, RefQuiet, Zenon

\* A handler that reports holds nothing any more.
LEMMA ReportHeld ==
  ASSUME TypeOK, Shape, NEW p \in Procs, Report(p)
  PROVE  \E l, j : /\ Goto(p, l, j) /\ GoodJob(l, j)
                   /\ p = Tmr => j.h # "onroute"
                   /\ \A e : HeldOf(l, j, e) = 0
<1> DEFINE r == [Idle EXCEPT !.h = job[p].h, !.d = job[p].d, !.da = job[p].da,
                             !.de = job[p].de]
<1>1. CASE job[p].da = 0 /\ job[p].de = 0
  <2>1. Goto(p, "idle", Idle)
    BY <1>1 DEF Report, Done
  <2> QED
    BY <2>1, IdleGood, IdleType
<1>2. CASE ~(job[p].da = 0 /\ job[p].de = 0)
  <2>1. Goto(p, "stat", r)
    BY <1>2 DEF Report
  <2>2. r.h = job[p].h /\ r.n = 0
    BY IdleType DEF Idle
  <2>3. job[p].h \notin {"mi", "byecb"} /\ (p = Tmr => job[p].h # "onroute")
    BY DEF Shape, GoodJob
  <2> HIDE DEF r
  <2>4. GoodJob("stat", r)
    BY <2>2, <2>3 DEF GoodJob, Saving
  <2>5. \A e : HeldOf("stat", r, e) = 0
    BY <2>2 DEF HeldOf
  <2> QED
    BY <2>1, <2>2, <2>3, <2>4, <2>5
<1> QED
  BY <1>1, <1>2, Zenon

\* The steps of a handler that move no reference.
LEMMA RefQuietSteps ==
  ASSUME RefInv, TypeOK', NEW p \in Procs,
         \/ LoadFlags(p) \/ StoreFlags(p) \/ TestFlags(p) \/ DbInsert(p)
         \/ DbUpdate(p) \/ DbSaveFails(p) \/ DbRemove(p) \/ InsertDlgTimer(p)
         \/ RemoveDlgTimer(p) \/ UpdateDlgTimer(p) \/ UpdateStat(p)
         \/ SendBye(p) \/ UseFreed(p)
  PROVE  RefInv'
<1> DEFINE j == job[p]
<1>0. j \in Jobs /\ GoodJob(pc[p], j) /\ (p = Tmr => j.h # "onroute")
  BY Zenon DEF RefInv, TypeOK, Shape
<1>1. CASE LoadFlags(p)
  <2> DEFINE k == [j EXCEPT !.fl = flags[j.d]]
  <2>1. k \in Jobs /\ k.h = j.h /\ k.d = j.d /\ k.n = j.n
    BY <1>0, Zenon DEF RefInv, TypeOK, Jobs
  <2>2. /\ pc[p] = "load" /\ Goto(p, "store", k)
        /\ UNCHANGED <<life, state, ref, tm, mi, byes, leaked>>
    BY <1>1 DEF LoadFlags, At, cell, aux
  <2> HIDE DEF k
  <2> QED
    BY <2>1, <2>2, RefSaving, Zenon DEF Saving
<1>2. CASE StoreFlags(p)
  <2> DEFINE k == [j EXCEPT !.fl = {}]
  <2>1. k \in Jobs /\ k.h = j.h /\ k.d = j.d /\ k.n = j.n
    BY <1>0 DEF Jobs
  <2>2. /\ pc[p] = "store"
        /\ \/ Goto(p, "db_test", k)
           \/ Goto(p, AfterSave(k)[1], AfterSave(k)[2])
        /\ UNCHANGED <<life, state, ref, tm, mi, byes, leaked>>
    BY <1>2 DEF StoreFlags, At, aux
  <2> HIDE DEF k
  <2> QED
    BY <2>1, <2>2, RefSaving, RefSave, Zenon DEF Saving
<1>3. CASE TestFlags(p)
  <2>1. /\ pc[p] = "db_test"
        /\ \/ Goto(p, "db_insert", j) \/ Goto(p, "db_update", j)
           \/ Goto(p, AfterSave(j)[1], AfterSave(j)[2])
        /\ UNCHANGED <<life, state, ref, tm, mi, byes, leaked>>
    BY <1>3 DEF TestFlags, At, cell, aux
  <2> QED
    BY <1>0, <2>1, RefSaving, RefSave, Zenon DEF Saving
<1>4. CASE DbInsert(p) \/ DbUpdate(p) \/ DbSaveFails(p)
  <2>1. /\ pc[p] \in {"db_insert", "db_update"}
        /\ Goto(p, AfterSave(j)[1], AfterSave(j)[2])
        /\ UNCHANGED <<life, state, ref, tm, mi, byes, leaked>>
    BY <1>4, Zenon DEF DbInsert, DbUpdate, DbSaveFails, At, cell, aux
  <2> QED
    BY <1>0, <2>1, RefSave, Zenon DEF Saving
<1>5. CASE DbRemove(p) \/ RemoveDlgTimer(p)
  <2>1. PICK l \in {"db_del", "unref"} :
          /\ pc[p] \in {"tl_del", "db_del"} /\ Goto(p, l, j)
          /\ UNCHANGED <<life, state, ref, tm, mi, byes, leaked>>
    BY <1>5 DEF DbRemove, RemoveDlgTimer, At, cell, aux
  <2>2. GoodJob(l, j)
    BY <1>0, <2>1, Zenon DEF GoodJob, Saving
  <2>3. \A e \in Dlgs : HeldOf(l, j, e) = Held(p, e)
    BY <2>1 DEF HeldOf, Held
  <2> QED
    BY <1>0, <2>1, <2>2, <2>3, RefQuiet, Zenon
<1>6. CASE InsertDlgTimer(p)
  <2>1. /\ pc[p] = "tl_ins" /\ Report(p)
        /\ UNCHANGED <<life, state, ref, tm, mi, byes, leaked>>
    BY <1>6, Zenon DEF InsertDlgTimer, At, cell, aux
  <2>2. \A e \in Dlgs : Held(p, e) = 0
    BY <1>0, <2>1 DEF GoodJob, Held
  <2> QED
    BY <2>1, <2>2, ReportHeld, RefQuiet DEF RefInv
<1>7. CASE UpdateDlgTimer(p)
  <2>1. /\ pc[p] = "tl_upd"
        /\ \/ Goto(p, "load", j)
           \/ Goto(p, AfterSave(j)[1], AfterSave(j)[2])
        /\ UNCHANGED <<life, state, ref, tm, mi, byes, leaked>>
    BY <1>7, Zenon DEF UpdateDlgTimer, At, cell, aux
  <2> QED
    BY <1>0, <2>1, RefSaving, RefSave, Zenon DEF Saving
<1>8. CASE UpdateStat(p)
  <2>1. /\ pc[p] = "stat" /\ Goto(p, "idle", Idle)
        /\ UNCHANGED <<life, state, ref, tm, mi, byes, leaked>>
    BY <1>8, Zenon DEF UpdateStat, Done, cell, aux
  <2>2. \A e \in Dlgs : Held(p, e) = 0
    BY <1>0, <2>1 DEF GoodJob, Held
  <2> QED
    BY <2>1, <2>2, IdleGood, IdleType, RefQuiet
<1>9. CASE SendBye(p)
  BY <1>0, <1>9 DEF SendBye, At, GoodJob
<1>10. CASE UseFreed(p)
  <2>1. UNCHANGED <<life, state, ref, tm, mi, byes, leaked, pc, job>>
    BY <1>10, Zenon DEF UseFreed, cell, aux
  <2> QED
    BY <2>1, RefSame
<1> QED
  BY <1>1, <1>2, <1>3, <1>4, <1>5, <1>6, <1>7, <1>8, <1>9, <1>10
=============================================================================
