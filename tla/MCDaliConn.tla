----------------------------- MODULE MCDaliConn -----------------------------
(* Instances of DaliConn for TLC: sets of calls and of integers.           *)
EXTENDS DaliConnInv

(* The values of replies: one of each sign.                                *)
Signs == {-1, 1}

=============================================================================
