----------------------------- MODULE TierSelect -----------------------------
(***************************************************************************)
(* scheduler/tier_select.rs: the one piece of scheduling logic the two     *)
(* ring-3 schedulers share.  Task slots are numbered from 0; priorities    *)
(* are `Priority as u8`, a lower value being a higher priority.            *)
(***************************************************************************)
EXTENDS Integers

(* Plausible slips in the selection, for checking that the properties notice. *)
EligibleDoneTop(active, prios, done) ==   \* `top` counts finished tasks too
  { i \in 0 .. active - 1 : ~done[i] /\ \A j \in 0 .. active - 1 : prios[i] <= prios[j] }
AfterFromZero(active, current, k) == k - 1   \* restarts every walk at slot 0

(***************************************************************************)
(* The slots `select_next` may stop at: not done, and at the top priority  *)
(* found among the slots that are not done (its first loop computes `top`, *)
(* the condition of its second loop tests it).                             *)
(***************************************************************************)
Eligible(active, prios, done) ==
  { i \in 0 .. active - 1 :
      /\ ~done[i]
      /\ \A j \in 0 .. active - 1 : ~done[j] => prios[i] <= prios[j] }

(* The slot reached from `current` after k increments modulo `active`. *)
After(active, current, k) ==
  IF current + k < active THEN current + k ELSE current + k - active

(***************************************************************************)
(* The value `select_next` returns: the first eligible slot met when       *)
(* walking the ring from the slot after `current`.  The set is empty when  *)
(* no slot is eligible, which is when the code's `while` never ends.       *)
(***************************************************************************)
SelectNext(active, current, prios, done) ==
  { n \in Eligible(active, prios, done) :
      \E k \in 1 .. active :
        /\ n = After(active, current, k)
        /\ \A j \in 1 .. k - 1 :
             After(active, current, j) \notin Eligible(active, prios, done) }

=============================================================================
