------------------------------- MODULE MCAta -------------------------------
(* TLC instance of Ata: two sectors, and a call that gives up. *)
EXTENDS Ata
=============================================================================
