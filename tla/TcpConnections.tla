--------------------------- MODULE TcpConnections ---------------------------
(***************************************************************************)
(* TCP connections: TCP main accepts them, watches the idle ones and hands *)
(* one that has data to a reader; a reader gives it back or reports its    *)
(* end; any process may send on it, with a descriptor that it asks of TCP  *)
(* main.  Three kinds of process count their uses in refcnt.  The messages *)
(* between them go through socket pairs, in order.                         *)
(*                                                                         *)
(* A step is what happens between two of these messages or under           *)
(* TCPCONN_LOCK.  Addresses and aliases are left out: a sender takes any   *)
(* connection that _tcpconn_find may return.  Time is left out too: a      *)
(* timeout may have passed whenever it is looked at.                       *)
(***************************************************************************)
EXTENDS Integers, Sequences, FiniteSets, FiniteSetsExt

CONSTANTS
  Conns,        \* memory for connections, each used once
  NReaders,     \* tcp_children_no
  Senders,      \* processes in tcp_send
  Faults,       \* of {"send_fd", "send_all"}: the calls on socket pairs that may fail
  Reused,       \* memory that is freed may be written to by others at once
  MaxConnections, MaxSends

VARIABLES
  conn,     \* per connection: life, state, refcnt, the flag F_CONN_REMOVED
  watched,  \* the connections whose descriptor TCP main polls
  opened,   \* tcp_connections_no of TCP main
  busy,     \* per reader: tcp_children[].busy
  toReader, \* per reader: connections handed over, on their way
  reading,  \* per reader: its list tcp_conn_lst
  fromReader, \* per reader: commands on their way, <<cmd, connection>>
  sender,   \* per sender: pc and connection
  fromSender, \* per sender: commands on their way to TCP main
  lost,     \* references whose command could not be sent
  sends     \* bound: sends so far

vars == <<conn, watched, opened, busy, toReader, reading, fromReader, sender, fromSender,
          lost, sends>>

Readers == 1..NReaders

NoConn == "none"

Init ==
  /\ conn = [c \in Conns |-> [life |-> "unused", state |-> "ok", refcnt |-> 0,
                              removed |-> TRUE]]
  /\ watched = {} /\ opened = 0
  /\ busy = [r \in Readers |-> 0]
  /\ toReader = [r \in Readers |-> <<>>]
  /\ reading = [r \in Readers |-> {}]
  /\ fromReader = [r \in Readers |-> <<>>]
  /\ sender = [s \in Senders |-> [pc |-> "idle", c |-> NoConn]]
  /\ fromSender = [s \in Senders |-> <<>>]
  /\ lost = [c \in Conns |-> 0]
  /\ sends = 0

\* A new connection with one reference, for a reader or for the sender.
tcpconn_new(c, life) ==
  [conn EXCEPT ![c] = [life |-> life, state |-> "ok", refcnt |-> 1, removed |-> TRUE]]

\* One reference is given up with the connection: the last one frees it,
\* otherwise it is marked and will time out.
tcpconn_destroy(c, cn) ==
  /\ conn' = [cn EXCEPT ![c].refcnt = @ - 1,
                        ![c].life = IF cn[c].refcnt = 1 THEN "freed" ELSE @,
                        ![c].state = IF cn[c].refcnt = 1 THEN @ ELSE "bad"]
  /\ opened' = IF cn[c].refcnt = 1 THEN opened - 1 ELSE opened

(***************************************************************************)
(* TCP main.                                                               *)
(***************************************************************************)
\* The first reader with the fewest connections.
LeastBusy ==
  CHOOSE r \in Readers :
    /\ \A q \in Readers : busy[r] <= busy[q]
    /\ \A q \in 1..(r - 1) : busy[r] < busy[q]

\* The reference goes with the message, or is taken back by the caller.
send2child(c, cn) ==
  /\ busy' = [busy EXCEPT ![LeastBusy] = @ + 1]
  /\ \/ /\ toReader' = [toReader EXCEPT ![LeastBusy] = Append(@, c)]
        /\ conn' = cn
     \/ /\ "send_fd" \in Faults
        /\ conn' = [cn EXCEPT ![c].refcnt = @ - 1,
                              ![c].life = IF cn[c].refcnt = 1 THEN "freed" ELSE @]
        /\ UNCHANGED toReader

handle_new_connect(c) ==
  /\ conn[c].life = "unused" /\ opened < MaxConnections
  /\ opened' = opened + 1
  /\ send2child(c, tcpconn_new(c, "open"))
  /\ UNCHANGED <<watched, reading, fromReader, sender, fromSender, lost, sends>>

\* Mutant: the connection stays in the set that is polled.
EventKeepsWatch(c) ==
  /\ c \in watched
  /\ send2child(c, [conn EXCEPT ![c].refcnt = @ + 1])
  /\ UNCHANGED <<watched, opened, reading, fromReader, sender, fromSender, lost, sends>>

\* There is data: the connection is no longer watched and goes to a reader.
handle_tcpconn_ev(c) ==
  /\ c \in watched
  /\ watched' = watched \ {c}
  /\ send2child(c, [conn EXCEPT ![c].removed = TRUE, ![c].refcnt = @ + 1])
  /\ UNCHANGED <<opened, reading, fromReader, sender, fromSender, lost, sends>>

\* A command of a reader.
handle_tcp_child(r) ==
  /\ fromReader[r] # <<>>
  /\ fromReader' = [fromReader EXCEPT ![r] = Tail(@)]
  /\ busy' = [busy EXCEPT ![r] = @ - 1]
  /\ LET cmd == Head(fromReader[r])[1]
         c == Head(fromReader[r])[2]
     IN IF cmd = "CONN_RELEASE" /\ conn[c].state # "bad"
          THEN /\ conn' = [conn EXCEPT ![c].refcnt = @ - 1, ![c].removed = FALSE]
               /\ watched' = watched \cup {c}
               /\ UNCHANGED opened
          ELSE tcpconn_destroy(c, conn) /\ UNCHANGED watched
  /\ UNCHANGED <<toReader, reading, sender, fromSender, lost, sends>>

\* A command of a sender.
handle_ser_child(s) ==
  /\ fromSender[s] # <<>>
  /\ fromSender' = [fromSender EXCEPT ![s] = Tail(@)]
  /\ LET cmd == Head(fromSender[s])[1]
         c == Head(fromSender[s])[2]
     IN \/ /\ cmd = "CONN_ERROR"
           /\ watched' = IF conn[c].removed THEN watched ELSE watched \ {c}
           /\ tcpconn_destroy(c, [conn EXCEPT ![c].removed = TRUE])
           /\ UNCHANGED sender
        \/ /\ cmd = "CONN_GET_FD"
           /\ sender' = [sender EXCEPT ![s].pc = "send"]
           /\ UNCHANGED <<conn, watched, opened>>
        \/ /\ cmd = "CONN_GET_FD" /\ "send_fd" \in Faults
           /\ UNCHANGED <<conn, watched, opened, sender>>
        \/ /\ cmd = "CONN_NEW"
           /\ conn' = [conn EXCEPT ![c].life = "open", ![c].removed = FALSE]
           /\ watched' = watched \cup {c}
           /\ UNCHANGED <<opened, sender>>
  /\ UNCHANGED <<busy, toReader, reading, fromReader, lost, sends>>

\* Mutant: only the connections that are polled time out.
TimeoutWatched(c) ==
  /\ c \in watched /\ conn[c].refcnt = 0
  /\ conn' = [conn EXCEPT ![c].life = "freed", ![c].removed = TRUE]
  /\ watched' = watched \ {c}
  /\ opened' = opened - 1
  /\ UNCHANGED <<busy, toReader, reading, fromReader, sender, fromSender, lost, sends>>

\* An unused connection whose time has passed is freed; then refcnt and
\* flags are read from the freed memory to see whether to stop polling it,
\* and if others have written to that memory by then it may not be.
tcpconn_timeout(c) ==
  /\ conn[c].life = "open" /\ conn[c].refcnt = 0
  /\ conn' = [conn EXCEPT ![c].life = "freed", ![c].removed = TRUE]
  /\ \E rewritten \in (IF Reused THEN BOOLEAN ELSE {FALSE}) :
       watched' = IF conn[c].removed \/ rewritten THEN watched ELSE watched \ {c}
  /\ opened' = opened - 1
  /\ UNCHANGED <<busy, toReader, reading, fromReader, sender, fromSender, lost, sends>>

(***************************************************************************)
(* A reader.                                                               *)
(***************************************************************************)
\* The command carries the reference back; if it cannot be written the
\* reference is lost.
release_tcpconn(r, c, cmd) ==
  \/ /\ fromReader' = [fromReader EXCEPT ![r] = Append(@, <<cmd, c>>)]
     /\ UNCHANGED lost
  \/ /\ "send_all" \in Faults
     /\ lost' = [lost EXCEPT ![c] = @ + 1]
     /\ UNCHANGED fromReader

\* handle_io on the socket of TCP main.
ReceiveConn(r) ==
  /\ toReader[r] # <<>>
  /\ toReader' = [toReader EXCEPT ![r] = Tail(@)]
  /\ reading' = [reading EXCEPT ![r] = @ \cup {Head(toReader[r])}]
  /\ UNCHANGED <<conn, watched, opened, busy, fromReader, sender, fromSender, lost, sends>>

\* The end of the stream is noted in state, whatever was there, while
\* requests read before it are still handled.
tcp_read_eof(r, c) ==
  /\ c \in reading[r] /\ conn[c].state # "eof"
  /\ conn' = [conn EXCEPT ![c].state = "eof"]
  /\ UNCHANGED <<watched, opened, busy, toReader, reading, fromReader, sender, fromSender,
                 lost, sends>>

\* After an error or the end of the stream the connection goes back as bad.
ReadFails(r, c) ==
  /\ c \in reading[r]
  /\ reading' = [reading EXCEPT ![r] = @ \ {c}]
  /\ conn' = [conn EXCEPT ![c].state = "bad"]
  /\ release_tcpconn(r, c, IF conn[c].state = "eof" THEN "CONN_EOF" ELSE "CONN_ERROR")
  /\ UNCHANGED <<watched, opened, busy, toReader, sender, fromSender, sends>>

\* A bad connection is given up, an idle one goes back to TCP main.
tcp_receive_timeout(r, c) ==
  /\ c \in reading[r] /\ conn[c].state # "eof"
  /\ reading' = [reading EXCEPT ![r] = @ \ {c}]
  /\ release_tcpconn(r, c, IF conn[c].state = "bad" THEN "CONN_ERROR" ELSE "CONN_RELEASE")
  /\ UNCHANGED <<conn, watched, opened, busy, toReader, sender, fromSender, sends>>

(***************************************************************************)
(* tcp_send.                                                               *)
(***************************************************************************)
\* A connection that is not bad is found and referenced.
tcpconn_get(s, c) ==
  /\ sender[s].pc = "idle" /\ sends < MaxSends
  /\ conn[c].life = "open" /\ conn[c].state # "bad"
  /\ sends' = sends + 1
  /\ conn' = [conn EXCEPT ![c].refcnt = @ + 1]
  /\ sender' = [sender EXCEPT ![s] = [pc |-> "get_fd", c |-> c]]
  /\ UNCHANGED <<watched, opened, busy, toReader, reading, fromReader, fromSender, lost>>

\* Its descriptor is asked of TCP main, and waited for without limit.
GetFd(s) ==
  /\ sender[s].pc = "get_fd"
  /\ \/ /\ fromSender' = [fromSender EXCEPT ![s] = Append(@, <<"CONN_GET_FD", sender[s].c>>)]
        /\ sender' = [sender EXCEPT ![s].pc = "wait"]
     \/ /\ "send_all" \in Faults
        /\ sender' = [sender EXCEPT ![s].pc = "put"]
        /\ UNCHANGED fromSender
  /\ UNCHANGED <<conn, watched, opened, busy, toReader, reading, fromReader, lost, sends>>

\* The new connection is known to the sender alone until TCP main has read
\* CONN_NEW.
tcpconn_connect(s, c) ==
  /\ sender[s].pc = "idle" /\ sends < MaxSends
  /\ conn[c].life = "unused"
  /\ sends' = sends + 1
  /\ conn' = tcpconn_new(c, "new")
  /\ \/ /\ fromSender' = [fromSender EXCEPT ![s] = Append(@, <<"CONN_NEW", c>>)]
        /\ sender' = [sender EXCEPT ![s] = [pc |-> "send", c |-> c]]
     \/ /\ "send_fd" \in Faults
        /\ sender' = [sender EXCEPT ![s] = [pc |-> "put", c |-> c]]
        /\ UNCHANGED fromSender
  /\ UNCHANGED <<watched, opened, busy, toReader, reading, fromReader, lost>>

tcpconn_put(s) ==
  /\ sender[s].pc \in {"send", "put"}
  /\ conn' = [conn EXCEPT ![sender[s].c].refcnt = @ - 1]
  /\ sender' = [sender EXCEPT ![s] = [pc |-> "idle", c |-> NoConn]]
  /\ UNCHANGED <<watched, opened, busy, toReader, reading, fromReader, fromSender, lost,
                 sends>>

\* The write fails: the connection is marked without the lock ...
WriteFails(s) ==
  /\ sender[s].pc = "send"
  /\ conn' = [conn EXCEPT ![sender[s].c].state = "bad"]
  /\ sender' = [sender EXCEPT ![s].pc = "error"]
  /\ UNCHANGED <<watched, opened, busy, toReader, reading, fromReader, fromSender, lost,
                 sends>>

\* Mutant: the reference is given back here too.
SendErrorPuts(s) ==
  /\ sender[s].pc = "error"
  /\ fromSender' = [fromSender EXCEPT ![s] = Append(@, <<"CONN_ERROR", sender[s].c>>)]
  /\ conn' = [conn EXCEPT ![sender[s].c].refcnt = @ - 1]
  /\ sender' = [sender EXCEPT ![s] = [pc |-> "idle", c |-> NoConn]]
  /\ UNCHANGED <<watched, opened, busy, toReader, reading, fromReader, lost, sends>>

\* ... and TCP main is told, which gives the reference back.
SendError(s) ==
  /\ sender[s].pc = "error"
  /\ \/ /\ fromSender' = [fromSender EXCEPT ![s] = Append(@, <<"CONN_ERROR", sender[s].c>>)]
        /\ UNCHANGED lost
     \/ /\ "send_all" \in Faults
        /\ lost' = [lost EXCEPT ![sender[s].c] = @ + 1]
        /\ UNCHANGED fromSender
  /\ sender' = [sender EXCEPT ![s] = [pc |-> "idle", c |-> NoConn]]
  /\ UNCHANGED <<conn, watched, opened, busy, toReader, reading, fromReader, sends>>

(***************************************************************************)
(* Specification.                                                          *)
(***************************************************************************)
MainStep ==
  \/ \E r \in Readers : handle_tcp_child(r)
  \/ \E s \in Senders : handle_ser_child(s)

ReaderStep(r) ==
  \/ ReceiveConn(r)
  \/ \E c \in Conns :
       tcp_receive_timeout(r, c) \/ tcp_read_eof(r, c) \/ ReadFails(r, c)

SenderStep(s) == GetFd(s) \/ tcpconn_put(s) \/ SendError(s)

Next ==
  \/ MainStep
  \/ \E r \in Readers : ReaderStep(r)
  \/ \E s \in Senders : SenderStep(s) \/ WriteFails(s)
  \/ \E c \in Conns :
       \/ handle_new_connect(c) \/ handle_tcpconn_ev(c) \/ tcpconn_timeout(c)
       \/ \E s \in Senders : tcpconn_get(s, c) \/ tcpconn_connect(s, c)

Spec == Init /\ [][Next]_vars

\* The processes run, and the loops of TCP main and of the readers look at
\* the timeouts after every poll.
Fairness ==
  /\ \A r \in Readers : WF_vars(handle_tcp_child(r)) /\ WF_vars(ReceiveConn(r))
  /\ \A r \in Readers, c \in Conns :
       WF_vars(tcp_receive_timeout(r, c) \/ (conn[c].state = "eof" /\ ReadFails(r, c)))
  /\ \A c \in Conns : WF_vars(tcpconn_timeout(c))
  /\ \A s \in Senders : WF_vars(handle_ser_child(s)) /\ WF_vars(SenderStep(s))

FairSpec == Spec /\ Fairness

(***************************************************************************)
(* Properties.                                                             *)
(***************************************************************************)
Occurrences(q, c) == Cardinality({i \in DOMAIN q : q[i] = c})
Commands(q, cmds, c) == Cardinality({i \in DOMAIN q : q[i][1] \in cmds /\ q[i][2] = c})

\* The readers that have c, and the messages to and from them.
WithReaders(c) ==
  MapThenSumSet(
    LAMBDA r : Occurrences(toReader[r], c) + (IF c \in reading[r] THEN 1 ELSE 0)
               + Commands(fromReader[r], {"CONN_RELEASE", "CONN_ERROR", "CONN_EOF"}, c),
    Readers)

\* Who has a reference to c: the reader or a message to or from it, a
\* sender at work, a CONN_ERROR on its way.
Holders(c) ==
  WithReaders(c)
  + Cardinality({s \in Senders : sender[s].c = c})
  + MapThenSumSet(LAMBDA s : Commands(fromSender[s], {"CONN_ERROR"}, c), Senders)

\* refcnt counts the uses of a connection in all three kinds of process and
\* in the messages between them ("CONN_ERROR will auto-dec refcnt => we
\* must not call tcpconn_put"), and no command or process refers to a
\* connection that is freed.
RefCounted ==
  \A c \in Conns :
    /\ conn[c].refcnt = Holders(c) + lost[c]
    /\ conn[c].life \in {"unused", "freed"} => Holders(c) = 0

\* The stream is read by one process at a time: while TCP main polls a
\* connection neither a reader nor a message to or from one has it, and no
\* two do.  Two readers would share out the bytes of a message.
ReadByOne ==
  \A c \in Conns :
    (IF c \in watched THEN 1 ELSE 0) + WithReaders(c) <= 1

\* A bad connection is given up by everyone and freed, unless a message
\* about it could not be sent: then its reference is lost, or the sender
\* waits for a descriptor that does not come.
BadEnds ==
  \A c \in Conns :
    (conn[c].life = "open" /\ conn[c].state = "bad")
      ~> (conn[c].life = "freed" \/ lost[c] > 0
          \/ \E s \in Senders : sender[s] = [pc |-> "wait", c |-> c] /\ fromSender[s] = <<>>)
=============================================================================
