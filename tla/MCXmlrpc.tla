----------------------------- MODULE MCXmlrpc -----------------------------
(***************************************************************************)
(* XmlrpcUsrloc for TLC: two workers and the contact of one user agent.    *)
(***************************************************************************)
EXTENDS XmlrpcUsrloc
CONSTANTS w1, w2, a1
=============================================================================
