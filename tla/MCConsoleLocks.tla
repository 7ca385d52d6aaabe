--------------------------- MODULE MCConsoleLocks ---------------------------
(* TLC instance of ConsoleLocks: a command of one letter and Enter. *)
EXTENDS ConsoleLocks

MCTwoKeys == {Plain(30), Plain(ENTER)}
=============================================================================
