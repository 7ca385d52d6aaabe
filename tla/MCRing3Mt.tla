------------------------------ MODULE MCRing3Mt ------------------------------
(* TLC instance of Ring3Mt: three slots, two priority tiers. *)
EXTENDS Ring3Mt

=============================================================================
