----------------------------- MODULE MCRollover -----------------------------
(* TLC instance of Console: two letters, of which one may go down before   *)
(* the other is up.                                                        *)
EXTENDS Console

MCTwoKeys == {Plain(30), Plain(48)}
=============================================================================
