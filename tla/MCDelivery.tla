----------------------------- MODULE MCDelivery -----------------------------
(***************************************************************************)
(* What must happen in the end on the way of a message, for TLC: the       *)
(* transaction ends, the connection that failed is given up, the           *)
(* destination that was blacklisted is allowed again, the stored message   *)
(* that was answered leaves the list, the subscription that expired is     *)
(* ended.  The components share no variables: in a behaviour one of them   *)
(* runs, the others stay as they began.                                    *)
(***************************************************************************)
EXTENDS Naturals

CONSTANTS w1, w2, c1, s1, a1, a2

VARIABLES
  part,                                                       \* which one runs
  kind, cell, uac, link, proc, budget,                        \* Transaction
  conn, watched, opened, busy, toReader, reading, fromReader,
  sender, fromSender, lost, sends,                            \* TcpConnections
  ticks, rule, nxt, first, last, count_write, count_read,
  worker, timer,                                              \* Blacklists
  silo, lsent, ldone, result, calls, delivered, purged,
  undeleted,                                                  \* Msilo
  table, rows, auth, watcher, sweep, sweeping, now, ops,
  boots, used, reused, ended                                  \* Presence

Tm == INSTANCE Transaction WITH
  Workers <- {w1, w2}, MaxBranches <- 2,
  Kinds <- {[invite |-> TRUE, local |-> FALSE], [invite |-> FALSE, local |-> TRUE]},
  Codes <- {180, 486}, OnFailure <- {"relay"}, Failover <- TRUE, MaxReplies <- 1,
  MaxRetrans <- 0, MaxCancels <- 0

Tcp == INSTANCE TcpConnections WITH
  Conns <- {c1}, Senders <- {w1, w2}, Faults <- {"send_fd", "send_all"}, Reused <- FALSE,
  NReaders <- 2, MaxConnections <- 1, MaxSends <- 3

Lists == INSTANCE Blacklists WITH
  Workers <- {w1, w2}, Addrs <- {a1, a2}, NRules <- 2,
  Flags <- {"BL_DO_EXPIRE", "BL_BY_DEFAULT"}, ExpireLimit <- 1, MaxTicks <- 2

Silo == INSTANCE Msilo WITH
  Workers <- {w1}, Mids <- {1, 2}, Times <- {"later"}, Codes <- {200}, rows <- silo

Pres == INSTANCE Presence WITH
  Workers <- {w1}, Subs <- {s1}, Lifetime <- 1, MemGrace <- 1, DbGrace <- 0, MaxNow <- 3,
  MaxOps <- 2, MaxBoots <- 1, worker <- watcher

tmVars == <<kind, cell, uac, link, proc, budget>>
tcpVars == <<conn, watched, opened, busy, toReader, reading, fromReader, sender, fromSender,
             lost, sends>>
listsVars == <<ticks, rule, nxt, first, last, count_write, count_read, worker, timer>>
siloVars == <<silo, lsent, ldone, result, calls, delivered, purged, undeleted>>
presVars == <<table, rows, auth, watcher, sweep, sweeping, now, ops, boots, used, reused, ended>>
vars == <<part, tmVars, tcpVars, listsVars, siloVars, presVars>>

Init ==
  /\ part \in {"tm", "tcp", "lists", "silo", "presence"}
  /\ Tm!Init /\ Tcp!Init /\ Lists!Init /\ Silo!Init /\ Pres!Init
  /\ part # "tm" => kind = [invite |-> TRUE, local |-> FALSE]

Only(p) ==
  /\ part = p /\ UNCHANGED part
  /\ p # "tm" => UNCHANGED tmVars
  /\ p # "tcp" => UNCHANGED tcpVars
  /\ p # "lists" => UNCHANGED listsVars
  /\ p # "silo" => UNCHANGED siloVars
  /\ p # "presence" => UNCHANGED presVars

Next ==
  \/ Only("tm") /\ Tm!Next
  \/ Only("tcp") /\ Tcp!Next
  \/ Only("lists") /\ Lists!Next
  \/ Only("silo") /\ Silo!Next
  \/ Only("presence") /\ Pres!Next

\* The fairness of each component, which its module states and explains.  The
\* workers of the components, and their timer processes, share a formula: only
\* one of the components runs.
Fairness ==
  /\ \A w \in {w1, w2} : WF_vars(\/ Only("tm") /\ Tm!WorkerStep(w)
                                 \/ Only("tcp") /\ Tcp!SenderStep(w)
                                 \/ Only("lists") /\ Lists!WriterStep(w))
  /\ WF_vars(\/ Only("tm") /\ Tm!TimerStep
             \/ Only("tcp") /\ Tcp!tcpconn_timeout(c1)
             \/ Only("lists") /\ Lists!TimerStep
             \/ Only("silo") /\ (Silo!SendNext(Silo!Timer) \/ Silo!CleanRow)
             \/ Only("presence") /\ Pres!SweepEnds)
  /\ SF_vars(\/ Only("silo") /\ Silo!m_clean_silo
             \/ Only("presence") /\ Pres!Sweep(s1))
  /\ SF_vars(Only("presence") /\ Pres!timer_db_update)
  /\ WF_vars(Only("lists") /\ Lists!Tick)
  /\ \A w \in {w1, w2} : WF_vars(Only("tcp") /\ Tcp!handle_ser_child(w))
  /\ \A r \in 1..2 :
        /\ WF_vars(Only("tcp") /\ Tcp!handle_tcp_child(r))
        /\ WF_vars(Only("tcp") /\ Tcp!ReceiveConn(r))
        /\ WF_vars(Only("tcp") /\ (Tcp!tcp_receive_timeout(r, c1)
                                   \/ (conn[c1].state = "eof" /\ Tcp!ReadFails(r, c1))))

FairSpec == Init /\ [][Next]_vars /\ Fairness

\* tm: every transaction whose branches could be sent is eventually freed,
\* whatever is answered or lost, and whichever way timers and replies race.
TransactionsEnd == Tm!Ends

\* tcp_main.c: a connection that turned bad is given up by everyone and
\* freed, unless a message about it could not be written.
TcpBadEnds == Tcp!BadEnds

\* blacklists.c: two workers and the timer leave the list of rules in order,
\* without duplicates or freed rules, and with the right last rule.
BlacklistSound == Lists!ListSound

\* delete_expired: no destination stays blacklisted after its time.
BlacklistExpires == Lists!RulesExpire

\* msg_list_check, m_clean_silo: every answered element leaves the list of
\* messages on their way, one in a pass.
SiloAnsweredLeave == Silo!AnsweredLeave

\* update_db_subs: a subscription that has expired is ended although queries
\* and NOTIFYs fail.
SubscriptionsEnd == Pres!ExpiredEnd
=============================================================================
