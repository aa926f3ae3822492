--------------------------- MODULE XmlrpcUsrloc ---------------------------
(***************************************************************************)
(* The user location of modules/xmlrpc_usrloc: the contacts of one address *)
(* of record are values of an overlay (a distributed hash table) reached   *)
(* by XML-RPC calls.  A worker serving a REGISTER loads the values, and    *)
(* then puts, replaces or removes one; its locks do nothing, so the calls  *)
(* of two workers interleave freely.  A fault of a call ends the server.   *)
(***************************************************************************)
EXTENDS Naturals, Sequences, FiniteSets, SequencesExt

CONSTANTS
  Workers,      \* the SIP worker processes
  Contacts,     \* the contact addresses user agents register
  MaxPuts,      \* bound: how many values are ever put into the overlay
  MAX_VALS      \* how many values one get_details call asks for

VARIABLES
  overlay,      \* the values stored in the overlay for the address of record
  puts,         \* how many values have been put, which is also their hash
  pc,           \* where each worker is in its request
  req,          \* the request each worker serves
  found,        \* the contact of the loaded record the worker goes on with
  view,         \* what the last load was given and what it made of it
  up            \* no call has faulted yet

vars == <<overlay, puts, pc, req, found, view, up>>

NoRecord == <<>>
NoContact == [text |-> <<>>, hash |-> 0]
Requests == [contact : Contacts, expires : {0, 1}]

Init ==
  /\ overlay = {} /\ puts = 0 /\ up = TRUE
  /\ pc = [w \in Workers |-> "idle"]
  /\ req \in [Workers -> {CHOOSE r \in Requests : TRUE}]
  /\ found = [w \in Workers |-> NoContact]
  /\ view = [given |-> <<>>, record |-> NoRecord]

-----------------------------------------------------------------------------
(* A stored value is a list of lines "name=field"; a field is a sequence   *)
(* of tokens here.                                                         *)

\* The text xmlrpc_insert_ucontact writes: the contact and the socket lines
\* are the two the loading depends on.  The registrar always names a socket.
Text(contact) == [contact |-> <<"contact_uri", "=", contact>>,
                  socket |-> <<"socket", "=", "udp", ":", "host", ":", "port">>]

\* A line is skipped up to its '=', and the field starts at the '=' itself.
FieldOf(line) == SubSeq(line, SelectInSeq(line, LAMBDA t : t = "="), Len(line))

\* A socket is proto:host:port, host:port or host; the part before the first
\* of two colons has to be the name of a protocol.
parse_phostport(text) ==
  \/ Cardinality({i \in DOMAIN text : text[i] = ":"}) < 2
  \/ text[1] \in {"udp", "tcp", "tls"} /\ text[2] = ":"

my_row2info(val) ==
  [ok |-> parse_phostport(FieldOf(val.text.socket)),
   text |-> FieldOf(val.text.contact), hash |-> val.hash]

\* One turn of the loading loop.  The record is forgotten before the value is
\* read, so a value that is refused leaves no record at all.
LoadOne(r, val) ==
  LET row == my_row2info(val)
  IN IF row.ok THEN <<[text |-> row.text, hash |-> row.hash]>> ELSE NoRecord

\* The values are taken from the last one to the first.
xmlrpc_load_urecord(given) == FoldLeft(LoadOne, NoRecord, Reverse(given))

contact_match(r, contact) ==
  LET here == {i \in DOMAIN r : r[i].text = <<contact>>}
  IN IF here = {} THEN NoContact ELSE r[CHOOSE i \in here : \A j \in here : i <= j]

-----------------------------------------------------------------------------
(* The calls of the overlay.                                               *)

\* At most MAX_VALS values come back, in no particular order.
get_details ==
  {SubSeq(s, 1, IF Len(s) < MAX_VALS THEN Len(s) ELSE MAX_VALS) : s \in SetToSeqs(overlay)}

Put(contact) ==
  /\ puts < MaxPuts
  /\ puts' = puts + 1
  /\ overlay' = overlay \cup {[text |-> Text(contact), hash |-> puts + 1]}

Rm(hash) == overlay' = {v \in overlay : v.hash # hash}

\* Answers other than success: the overlay is full or asks to try again.
Refused == UNCHANGED <<overlay, puts>>

\* The time to live a value was put with runs out.
Expire ==
  /\ up
  /\ \E v \in overlay : overlay' = overlay \ {v}
  /\ UNCHANGED <<puts, pc, req, found, view, up>>

-----------------------------------------------------------------------------
(* The workers.                                                            *)

get_urecord(given) == view' = [given |-> given, record |-> xmlrpc_load_urecord(given)]

\* save() with one contact loads the record.  A record that was found is
\* searched for the contact of the request.
Save(w) ==
  /\ up /\ pc[w] = "idle"
  /\ \E r \in Requests, given \in get_details :
       /\ get_urecord(given)
       /\ req' = [req EXCEPT ![w] = r]
       /\ LET c == contact_match(view'.record, r.contact)
          IN /\ found' = [found EXCEPT ![w] = c]
             /\ pc' = [pc EXCEPT ![w] = IF c # NoContact THEN "delete"
                                        ELSE IF r.expires # 0 THEN "insert" ELSE "idle"]
  /\ UNCHANGED <<overlay, puts, up>>

\* insert_ucontact, and the second half of xmlrpc_update_ucontact: the reply
\* is 200 whatever the overlay answers.
xmlrpc_insert_ucontact(w) ==
  /\ up /\ pc[w] = "insert"
  /\ Put(req[w].contact) \/ Refused
  /\ pc' = [pc EXCEPT ![w] = "idle"]
  /\ UNCHANGED <<req, found, view, up>>

\* delete_ucontact, and the first half of xmlrpc_update_ucontact, which goes
\* on with the insertion whether or not the value was removed.
xmlrpc_delete_ucontact(w) ==
  /\ up /\ pc[w] = "delete"
  /\ (Rm(found[w].hash) /\ UNCHANGED puts) \/ Refused
  /\ pc' = [pc EXCEPT ![w] = IF req[w].expires # 0 THEN "insert" ELSE "idle"]
  /\ UNCHANGED <<req, found, view, up>>

\* lookup() and a REGISTER without a contact only load the record.  star()
\* does too: delete_urecord is not implemented and reports success.
Lookup(w) ==
  /\ up /\ pc[w] = "idle"
  /\ \E given \in get_details : get_urecord(given)
  /\ UNCHANGED <<overlay, puts, pc, req, found, up>>

\* die_if_fault_occurred: the process exits, and the server with it.
Fault == up /\ up' = FALSE /\ UNCHANGED <<overlay, puts, pc, req, found, view>>

Next ==
  \/ Expire \/ Fault
  \/ \E w \in Workers : \/ Save(w) \/ Lookup(w)
                        \/ xmlrpc_insert_ucontact(w) \/ xmlrpc_delete_ucontact(w)

Spec == Init /\ [][Next]_vars

-----------------------------------------------------------------------------
\* Loading a record yields all the contacts the overlay holds for the address
\* of record, as the comment over xmlrpc_load_urecord promises.
AllLoaded ==
  {view.record[i].hash : i \in DOMAIN view.record} = {view.given[i].hash : i \in DOMAIN view.given}
=============================================================================
