------------------------------ MODULE Location ------------------------------
(***************************************************************************)
(* What a location service promises for one address of record: a set of    *)
(* bindings that requests add, refresh and remove, and that time takes      *)
(* away.  Nothing else changes it: neither the clean-up of expired contacts *)
(* nor a restart.                                                          *)
(***************************************************************************)
EXTENDS Integers

CONSTANTS
  Uris, CallIds, Qs,   \* contact addresses, Call-IDs and q values
  MatchingMode         \* "CONTACT_ONLY" or "CONTACT_CALLID"

VARIABLES
  bound,  \* the bindings in force
  now     \* the time

Bindings == [c : Uris, callid : CallIds, cseq : Nat, q : Qs, expires : Nat]

\* Two bindings that the service takes for the same contact.
Same(a, b) ==
  a.c = b.c /\ (MatchingMode = "CONTACT_CALLID" => a.callid = b.callid)

Init == bound = {} /\ now \in Nat

Bind(b) ==
  /\ b.expires > now
  /\ \A a \in bound : ~Same(a, b)
  /\ bound' = bound \cup {b}
  /\ UNCHANGED now

\* The binding keeps the Call-ID it was created with.  A request with this
\* Call-ID must not be older than the binding.
Refresh(a, b) ==
  /\ b.expires > now
  /\ b.c = a.c /\ b.callid = a.callid
  /\ MatchingMode = "CONTACT_CALLID" => b.cseq >= a.cseq
  /\ bound' = (bound \ {a}) \cup {b}
  /\ UNCHANGED now

Unbind(a) == bound' = bound \ {a} /\ UNCHANGED now

Tick ==
  /\ now' = now + 1
  /\ bound' = {b \in bound : b.expires > now'}

Next ==
  \/ \E b \in bound' \cap Bindings : Bind(b)
  \/ \E a \in bound, b \in bound' \cap Bindings : Refresh(a, b)
  \/ \E a \in bound : Unbind(a)
  \/ Tick

Spec == Init /\ [][Next]_<<bound, now>>
=============================================================================
