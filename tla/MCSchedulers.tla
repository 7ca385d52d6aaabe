---------------------------- MODULE MCSchedulers ----------------------------
(***************************************************************************)
(* TLC instance of the preemptive scheduler and the two cooperative ones.  *)
(* The boot demonstrates one after the other and they share no variable,   *)
(* so a behaviour is one of Preempt, of Coop or of Ring3Coop; the others   *)
(* stay as they were initialised.                                          *)
(***************************************************************************)
EXTENDS Preempt

CONSTANTS
  MaxTasks, Priorities, Iterations, MaxDemos,   (* of Coop                 *)
  Ring3Tasks, Ring3Priorities, MaxSessions      (* of Ring3Coop            *)

VARIABLES
  demo,   (* the scheduler being demonstrated                              *)
  ccpu, cslots, ccurrent, ckernelRsp, cpcb, cdemos,
  rcpu, rstack, rsp0, rcaller, ractive, rcurrent, rprios, rdone, rbodies, rsig

cvars == <<ccpu, cslots, ccurrent, ckernelRsp, cpcb, cdemos>>
rvars == <<rcpu, rstack, rsp0, rcaller, ractive, rcurrent, rprios, rdone, rbodies, rsig>>

C == INSTANCE Coop WITH
       cpu <- ccpu, slots <- cslots, current <- ccurrent,
       kernelRsp <- ckernelRsp, pcb <- cpcb, demos <- cdemos

R == INSTANCE Ring3Coop WITH
       MaxTasks <- Ring3Tasks, Priorities <- Ring3Priorities,
       cpu <- rcpu, stack <- rstack, caller <- rcaller, active <- ractive,
       current <- rcurrent, prios <- rprios, done <- rdone, bodies <- rbodies,
       sig <- rsig

ASSUME CoopAssumption      == C!Assumptions
ASSUME Ring3CoopAssumption == R!Assumptions

all == <<demo, vars, cvars, rvars>>

MCInit == demo \in {"preempt", "coop", "ring3"} /\ Init /\ C!Init /\ R!Init

CoopRuns  == demo = "coop"  /\ C!Run /\ UNCHANGED <<demo, vars, rvars>>
Ring3Runs == demo = "ring3" /\ R!Run /\ UNCHANGED <<demo, vars, cvars>>

MCNext ==
  \/ demo = "preempt" /\ Next   /\ UNCHANGED <<demo, cvars, rvars>>
  \/ demo = "coop"    /\ C!Next /\ UNCHANGED <<demo, vars, rvars>>
  \/ demo = "ring3"   /\ R!Next /\ UNCHANGED <<demo, vars, cvars>>

MCSpec ==
  /\ MCInit /\ [][MCNext]_all
  /\ Fairness /\ WF_all(CoopRuns) /\ WF_all(Ring3Runs)

-----------------------------------------------------------------------------
(***************************************************************************)
(* What `ps` prints for a cooperative task agrees with the scheduler after *)
(* any sequence of yields and retirements: Running for the one on the CPU, *)
(* Ready for the others, Terminated once finish_current_task has run.      *)
(***************************************************************************)
TableShowsSchedule == C!TableShowsSchedule

(***************************************************************************)
(* yield_now, finish_current_task and switch_to implement the abstract     *)
(* hand-over of the CPU: no context is lost or run twice, a finished task  *)
(* never runs, and the kernel gets the CPU back.                           *)
(***************************************************************************)
HandsOver == C!HandsOver

(***************************************************************************)
(* The vectors 0x83 and 0x85 and the return from 0x82 implement the        *)
(* abstract hand-over of the CPU: no context is lost or run twice, through *)
(* ticks that overwrite RSP0 in between, and the kernel gets the CPU back. *)
(***************************************************************************)
Ring3HandsOver == R!HandsOver

(***************************************************************************)
(* The digits the programs leave are the ones the ring-3 cooperative tests *)
(* expect for the order of priorities, yields and retirements they set up. *)
(***************************************************************************)
SignatureAsExpected == R!SignatureAsExpected
=============================================================================
