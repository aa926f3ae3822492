----------------------------- MODULE MCServices -----------------------------
(***************************************************************************)
(* The services under the SIP modules for TLC.  They share no variables:   *)
(* in a behaviour one of them runs, the others stay as they began.         *)
(***************************************************************************)
EXTENDS Naturals, Sequences, SequencesExt

CONSTANTS w1, w2, c1, c2

VARIABLES
  part,                                                       \* which one runs
  conn, watched, opened, busy, toReader, reading, fromReader,
  sender, fromSender, lost, sends,                            \* TcpConnections
  stream, arrived, req, received,                             \* TcpFraming
  dns, sent, addr_idx, dn, tried, over,                       \* DnsFailover
  fm, fm_held,                                                \* FMalloc
  qm, qm_held,                                                \* QMalloc
  node, timer, split, ticks, worker, lock, failed, seen, red,
  reqs,                                                       \* Pike
  silo, lsent, ldone, result, calls, delivered, purged,
  undeleted,                                                  \* Msilo
  table, rows, auth, watcher, sweep, sweeping, now, ops,
  boots, used, reused, ended                                  \* Presence

Tcp == INSTANCE TcpConnections WITH
  Conns <- {c1, c2}, Senders <- {w1, w2}, Faults <- {"send_fd", "send_all"}, Reused <- FALSE,
  NReaders <- 2, MaxConnections <- 2, MaxSends <- 2

\* Header lines, Content-Length in several spellings, empty lines and bytes
\* of a body, in every order: whole messages and parts of them.
Pieces ==
  {<<"x", "LF">>, <<"N", ":", "1", "LF">>, <<"N", "SP", ":", "SP", "0", "CR", "LF">>,
   <<"LF">>, <<"CR", "LF">>, <<"x">>, <<"SP", "N">>, <<":", "2">>}
Frames == INSTANCE TcpFraming WITH
  Streams <- {FlattenSeq(s) : s \in UNION {[1..n -> Pieces] : n \in 1..4}}, BufSize <- 12
OneStream == INSTANCE TcpFraming WITH Streams <- {<<"x">>}, BufSize <- 12

\* Up to three SRV records in any order, or up to three NAPTR records that
\* lead to SRV records; one SRV name has no address.
Srvs == [priority : 1..2, weight : 0..1, n : 0..1]
S0 == [priority |-> 2, weight |-> 0, n |-> 0]
S1 == [priority |-> 1, weight |-> 0, n |-> 1]
S2 == [priority |-> 2, weight |-> 1, n |-> 2]
Naptrs ==
  [prio : 3..5, usable : {TRUE}, srv : {<<S1>>, <<S1, S2>>, <<S0, S2>>, <<S2, S0, S1>>}]
    \cup {[prio |-> 3, usable |-> FALSE, srv |-> <<S1>>]}
UpTo3(S) == UNION {[1..k -> S] : k \in 0..3}
Dns == INSTANCE DnsFailover WITH
  Zones <- [naptr : {<<>>}, srv : UpTo3(Srvs), a : {0, 2}]
             \cup [naptr : UpTo3(Naptrs), srv : {<<S1>>}, a : {1}],
  MaxWeight <- 1, MaxTries <- 6
OneZone == INSTANCE DnsFailover WITH
  Zones <- {[naptr |-> <<>>, srv |-> <<>>, a |-> 1]}, MaxWeight <- 1, MaxTries <- 6

Fm == INSTANCE FMalloc WITH
  ROUNDTO <- 2, FRAG_OVERHEAD <- 2, FACTOR <- 2, Bits <- 6, Overhead <- 10, Arena <- 24,
  Sizes <- {1, 3, 8}, MaxFrags <- 4, MaxRealUsed <- 42, qm <- fm, held <- fm_held

Qm == INSTANCE QMalloc WITH
  ROUNDTO <- 2, HeadSize <- 2, EndSize <- 2, FACTOR <- 2, Bits <- 6, Block <- 4, Arena <- 24,
  Sizes <- {1, 3, 8}, MaxFrags <- 4, MaxRealUsed <- 36, held <- qm_held

Pk == INSTANCE Pike WITH
  Workers <- {w1, w2}, Ips <- {<<1, 1>>, <<1, 2>>}, max_hits <- 4, timeout <- 1,
  MaxHits <- 5, MaxReqs <- 6, MaxTicks <- 1

Silo == INSTANCE Msilo WITH
  Workers <- {"worker"}, Mids <- {1, 2}, Times <- {"zero", "later"}, Codes <- {200, 302, 408},
  rows <- silo

Pres == INSTANCE Presence WITH
  Workers <- {w1, w2}, Subs <- {"sub"}, Lifetime <- 1, MemGrace <- 1, DbGrace <- 0, MaxNow <- 3,
  MaxOps <- 3, MaxBoots <- 1, worker <- watcher

Init ==
  /\ part \in {"tcp", "frames", "dns", "fm", "qm", "pike", "silo", "presence"}
  /\ Tcp!Init /\ Fm!Init /\ Qm!Init /\ Pk!Init /\ Silo!Init /\ Pres!Init
  /\ IF part = "frames" THEN Frames!Init ELSE OneStream!Init
  /\ IF part = "dns" THEN Dns!Init ELSE OneZone!Init

tcpVars == <<conn, watched, opened, busy, toReader, reading, fromReader, sender, fromSender,
             lost, sends>>
framesVars == <<stream, arrived, req, received>>
dnsVars == <<dns, sent, addr_idx, dn, tried, over>>
heapVars == <<fm, fm_held, qm, qm_held>>
pikeVars == <<node, timer, split, ticks, worker, lock, failed, seen, red, reqs>>
siloVars == <<silo, lsent, ldone, result, calls, delivered, purged, undeleted>>
presVars == <<table, rows, auth, watcher, sweep, sweeping, now, ops, boots, used, reused, ended>>
vars == <<part, tcpVars, framesVars, dnsVars, heapVars, pikeVars, siloVars, presVars>>

Only(p) ==
  /\ part = p /\ UNCHANGED part
  /\ p # "tcp" => UNCHANGED tcpVars
  /\ p # "frames" => UNCHANGED framesVars
  /\ p # "dns" => UNCHANGED dnsVars
  /\ p # "fm" => UNCHANGED <<fm, fm_held>>
  /\ p # "qm" => UNCHANGED <<qm, qm_held>>
  /\ p # "pike" => UNCHANGED pikeVars
  /\ p # "silo" => UNCHANGED siloVars
  /\ p # "presence" => UNCHANGED presVars

Next ==
  \/ Only("tcp") /\ Tcp!Next
  \/ Only("frames") /\ Frames!Next
  \/ Only("dns") /\ Dns!Next
  \/ Only("fm") /\ Fm!Next
  \/ Only("qm") /\ Qm!Next
  \/ Only("pike") /\ Pk!Next
  \/ Only("silo") /\ Silo!Next
  \/ Only("presence") /\ Pres!Next

Spec == Init /\ [][Next]_vars

Symmetry == Permutations({w1, w2})

\* tcp_main.c, tcp_read.c: refcnt counts the processes and messages that use
\* a connection, and none refers to a connection that is freed.
TcpRefCounted == part = "tcp" => Tcp!RefCounted

\* The stream of a connection is read by one process at a time.
TcpReadByOne == part = "tcp" => Tcp!ReadByOne

\* tcp_read_req: however a stream is cut into reads, the messages handed on
\* are those that are complete in it.
TcpFramed == part = "frames" => Frames!Framed

\* resolve.c: failover tries the addresses in the order of the DNS records.
DestinationsInOrder == Dns!InOrder

\* f_malloc.c, q_malloc.c: the fragments cover the block, and each is a
\* caller's, as large as was asked for, or once in its free list.
HeapSound ==
  /\ part = "fm" => Fm!HeapSound
  /\ part = "qm" => Qm!HeapSound

\* f_malloc.c: `used' is what the callers have, also after fm_realloc.
HeapCounted == part = "fm" => Fm!UsedExact

\* pike_funcs.c, timer.c: no assertion about the flags of a node fails.
PikeAssertionsHold == part = "pike" => Pk!AssertionsHold

\* A node is in pike's timer list exactly if it is a leaf of the tree or the
\* end of an address, and the list is in the order of time.
PikeTimedNodes == part = "pike" => Pk!TimedNodes

\* mark_node, split_node: an address is refused only for requests of its own.
PikeRefusedForCause == part = "pike" => Pk!RefusedForCause

\* msg_list_check_msg: a stored message is never in flight twice.
SiloOneInFlight == Silo!OneInFlight

\* m_clean_silo: a delivered message whose row is still there is going to be
\* deleted, unless the database refused to.
SiloDeliveredGone == Silo!DeliveredGone

\* m_clean_silo: a stored message leaves the table only when it was delivered
\* or has expired.
SiloNeverLost == Silo!NeverLost

\* update_shtable: no two NOTIFYs of a subscription that lasts have the same
\* CSeq number, also across a restart.
NotifyCseqs == Pres!NotifyCseqs
=============================================================================
