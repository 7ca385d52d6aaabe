------------------------------ MODULE MCE1000 ------------------------------
(* TLC instances of E1000. *)
EXTENDS E1000

=============================================================================
