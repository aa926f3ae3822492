---------------------------- MODULE DnsFailover ----------------------------
(***************************************************************************)
(* Where a request for a domain is sent, and where next when that fails:   *)
(* sip_resolvehost follows the NAPTR, SRV and A records to a first host    *)
(* and keeps the records it did not need in a tree of at most two nodes;   *)
(* get_next_su goes to the next address of the host, then to the next host *)
(* of the tree.  forward_request and tm call it after every failed send.   *)
(*                                                                         *)
(* A zone is what DNS holds for the domain:                                *)
(*   naptr  sequence of [prio, usable, srv], usable being whether the      *)
(*          service is supported, and srv the records of its replacement;  *)
(*   srv    the SRV records of the domain itself;                          *)
(*   a      the number of its addresses.                                   *)
(* A SRV record is [priority, weight, n], n the number of addresses of its *)
(* host, which does not resolve when n is 0.                               *)
(***************************************************************************)
EXTENDS Integers, Sequences, SequencesExt, Functions

CONSTANTS
  Zones,      \* what DNS may hold
  MaxWeight,
  MaxTries

VARIABLES
  dns,      \* the hosts of the NAPTR names, of the SRV records and of the domain
  sent,     \* the host the request goes to
  addr_idx, \* p->addr_idx
  dn,       \* p->dn
  tried,    \* the addresses so far
  over      \* get_next_su has found nothing more

vars == <<dns, sent, addr_idx, dn, tried, over>>

NoHost == [id |-> <<>>, rank |-> <<>>, n |-> 0]
NoNode == [type |-> "none"]

(***************************************************************************)
(* The order of the records.                                               *)
(***************************************************************************)
\* A record goes in front of the first one it is to be tried before.
InsertSrv(list, r) ==
  LET p == SelectInSeq(list, LAMBDA q : \/ r.priority < q.priority
                                        \/ r.priority = q.priority /\ r.weight > q.weight)
  IN IF p = 0 THEN Append(list, r) ELSE InsertAt(list, p, r)

\* get_record sorts the SRV records as they are read.
SortedSrv(records) == FoldLeft(InsertSrv, <<>>, records)

\* Mutant: the place is looked for from the wrong side.
NaptrBackwards(list, l) ==
  IF list = <<>> \/ list[1].prio >= l.prio THEN Append(list, l) ELSE <<l>> \o list

\* One step of filter_and_sort_naptr: l goes to the front, to the end, or
\* in front of the first record but the first that it does not come after,
\* and of the last one at the latest.
InsertNaptr(list, l) ==
  IF list = <<>> \/ list[1].prio >= l.prio THEN <<l>> \o list
  ELSE IF l.prio >= list[Len(list)].prio THEN Append(list, l)
  ELSE LET p == SelectInSeq(SubSeq(list, 2, Len(list) - 1), LAMBDA q : l.prio <= q.prio)
       IN InsertAt(list, IF p = 0 THEN Len(list) ELSE p + 1, l)

filter_and_sort_naptr(records) ==
  FoldLeft(InsertNaptr, <<>>, SelectSeq(records, LAMBDA r : r.usable))

(***************************************************************************)
(* Lookups.  A host has a place among the records, a rank (NAPTR prio, SRV *)
(* priority, and the weight from the heaviest down) and a number of        *)
(* addresses.                                                              *)
(***************************************************************************)
Hosts(k, prio, sorted) ==
  [i \in DOMAIN sorted |->
    [id |-> <<k, i>>, rank |-> <<prio, sorted[i].priority, MaxWeight - sorted[i].weight>>,
     n |-> sorted[i].n]]

\* The records of a zone as the resolver orders them.
Answers(zone) ==
  LET naptr == filter_and_sort_naptr(zone.naptr)
  IN [naptr |-> [k \in DOMAIN naptr |-> Hosts(k, naptr[k].prio, SortedSrv(naptr[k].srv))],
      srv |-> Hosts(0, 1, SortedSrv(zone.srv)),
      a |-> [id |-> <<0, 0>>, rank |-> <<2, 0, 0>>, n |-> zone.a]]

\* The first host that resolves, and a node of those after it.
do_srv_lookup(hosts) ==
  LET p == SelectInSeq(hosts, LAMBDA h : h.n > 0)
  IN IF p = 0 THEN [he |-> NoHost, dn |-> NoNode]
     ELSE [he |-> hosts[p],
           dn |-> IF p = Len(hosts) THEN NoNode
                  ELSE [type |-> "A", idx |-> 1, vals |-> SubSeq(hosts, p + 1, Len(hosts))]]

\* NAPTR records one by one; the state of the resolver is kept, with the
\* current record if it has hosts left and from the next one on otherwise.
NaptrLookup ==
  LET names == dns.naptr
      p == SelectInSeq(names, LAMBDA hs : do_srv_lookup(hs).he # NoHost)
      found == do_srv_lookup(names[p])
      rest == SubSeq(names, IF found.dn = NoNode THEN p + 1 ELSE p, Len(names))
  IN IF p = 0 THEN [he |-> NoHost, dn |-> NoNode]
     ELSE [he |-> found.he,
           dn |-> IF rest = <<>> THEN NoNode
                  ELSE [type |-> "SRV", idx |-> 1, vals |-> rest, kids |-> found.dn]]

ALookup == [he |-> IF dns.a.n > 0 THEN dns.a ELSE NoHost, dn |-> NoNode]

SrvLookup ==
  LET found == do_srv_lookup(dns.srv) IN IF found.he # NoHost THEN found ELSE ALookup

\* Which records are looked at depends on what the URI names.
sip_resolvehost(named) ==
  CASE named = "port" -> ALookup
    [] named = "proto" -> SrvLookup
    [] named = "neither" ->
         LET found == NaptrLookup IN IF found.he # NoHost THEN found ELSE SrvLookup

(***************************************************************************)
(* get_next_he: the next host and what is left of the tree.                *)
(***************************************************************************)
\* The first value from idx on that yields a host, or one past the end.
FirstFrom(node, yields(_)) ==
  LET p == SelectInSeq(SubSeq(node.vals, node.idx, Len(node.vals)), yields)
  IN IF p = 0 THEN Len(node.vals) + 1 ELSE node.idx + p - 1

\* An SRV node without kids: the name at idx is resolved.  The node goes
\* when it was the last one.
NextOfSrv(node) ==
  LET i == FirstFrom(node, LAMBDA hs : do_srv_lookup(hs).he # NoHost)
      found == do_srv_lookup(node.vals[i])
  IN IF i > Len(node.vals) THEN [he |-> NoHost, dn |-> NoNode]
     ELSE [he |-> found.he,
           dn |-> IF i = Len(node.vals) THEN found.dn
                  ELSE [node EXCEPT !.idx = i, !.kids = found.dn]]

\* An A node: the host at idx is resolved, and idx stays on it.  The node
\* goes with its last host, or when no other host resolves.
NextOfA(node) ==
  LET i == FirstFrom(node, LAMBDA h : h.n > 0)
  IN [he |-> IF i > Len(node.vals) THEN NoHost ELSE node.vals[i],
      dn |-> IF i >= Len(node.vals) THEN NoNode ELSE [node EXCEPT !.idx = i]]

get_next_he(node) ==
  IF node.type = "A" THEN NextOfA(node)
  ELSE IF node.kids = NoNode THEN NextOfSrv(node)
  ELSE LET next == NextOfA(node.kids)
       IN [he |-> next.he,
           dn |-> IF next.dn # NoNode THEN [node EXCEPT !.kids = next.dn]
                  ELSE IF node.idx < Len(node.vals)
                    THEN [node EXCEPT !.kids = NoNode, !.idx = @ + 1]
                  ELSE NoNode]

(***************************************************************************)
(* Specification.                                                          *)
(***************************************************************************)
Init ==
  /\ \E zone \in Zones : dns = Answers(zone)
  /\ \E named \in {"port", "proto", "neither"} :
       LET first == sip_resolvehost(named)
       IN first.he # NoHost /\ sent = first.he /\ dn = first.dn
  /\ addr_idx = 1
  /\ tried = <<<<sent.id, 1>>>>
  /\ over = FALSE

\* The send failed; the next address of the host or the next host.
get_next_su ==
  /\ ~over /\ Len(tried) < MaxTries
  /\ LET next == IF dn = NoNode THEN [he |-> NoHost, dn |-> NoNode] ELSE get_next_he(dn)
     IN \/ /\ addr_idx < sent.n
           /\ addr_idx' = addr_idx + 1
           /\ UNCHANGED <<sent, dn, over>>
        \/ /\ addr_idx = sent.n
           /\ dn' = next.dn
           /\ IF next.he = NoHost
                THEN over' = TRUE /\ UNCHANGED <<sent, addr_idx>>
                ELSE sent' = next.he /\ addr_idx' = 1 /\ UNCHANGED over
  /\ tried' = IF over' THEN tried ELSE Append(tried, <<sent'.id, addr_idx'>>)
  /\ UNCHANGED dns

Next == get_next_su

Spec == Init /\ [][Next]_vars

(***************************************************************************)
(* Properties.                                                             *)
(***************************************************************************)
NoLater(h, g) ==
  IF h.id[1] = g.id[1]
    THEN h.rank[2] < g.rank[2] \/ (h.rank[2] = g.rank[2] /\ h.rank[3] <= g.rank[3])
    ELSE h.rank[1] <= g.rank[1]

\* The addresses are tried in the order that the records ask for (NAPTR
\* order and preference, then SRV priority, then weight): failover never
\* goes back to a host that is to be tried before the one that just
\* failed, and never skips an address of a host it is at.
InOrder ==
  [][/\ NoLater(sent, sent')
     /\ sent' # sent => addr_idx = sent.n]_vars
=============================================================================
