----------------------------- MODULE MCSession -----------------------------
(* Bounded instances of Session.                                           *)
EXTENDS Session
CONSTANTS a, b, stop
=============================================================================
