----------------------------- MODULE MCSessions -----------------------------
(* Sessions with three requests, two at once, on a user with one token.     *)
EXTENDS Sessions

CONSTANTS r1, r2, r3
=============================================================================
