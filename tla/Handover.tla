------------------------------ MODULE Handover ------------------------------
(***************************************************************************)
(* What a cooperative scheduler promises.  A context that gives up the CPU *)
(* later continues exactly where it stopped, whatever ran in between; a    *)
(* task that has ended never runs again; every session starts each task at *)
(* its beginning and ends with the kernel continuing after the call it     *)
(* made.  Nothing here speaks of stacks, saved registers or slots.         *)
(***************************************************************************)
EXTENDS Naturals

CONSTANTS Tasks, Kernel

VARIABLES
  running,   (* the context that has the CPU                               *)
  pos,       (* how far each context has come                              *)
  over       (* tasks that have ended                                      *)

hvars == <<running, pos, over>>

HInit ==
  /\ running = Kernel
  /\ pos = [c \in Tasks \cup {Kernel} |-> 0]
  /\ over = {}

Fresh(k) == [c \in Tasks \cup {Kernel} |-> IF c = Kernel THEN k ELSE 0]

(* The kernel sets up tasks, or takes down those of a session that is over. *)
Prepare ==
  /\ running = Kernel /\ UNCHANGED running
  /\ pos'[Kernel] > pos[Kernel]
  /\ pos' = Fresh(pos'[Kernel])
  /\ over' = {}

(* The context on the CPU makes one step, whereupon it may end and any task *)
(* that has not ended may be next.                                         *)
Step ==
  /\ pos' = [pos EXCEPT ![running] = @ + 1]
  /\ over' = over \/ (running # Kernel /\ over' = over \cup {running})
  /\ running' \in Tasks \ over'

(* A task's last step gives the CPU back to the kernel, which continues     *)
(* where it stopped; the other tasks are abandoned.                        *)
Leave ==
  /\ running # Kernel /\ running' = Kernel
  /\ pos' = Fresh(pos[Kernel])
  /\ over' = {}

HNext == Prepare \/ Step \/ Leave

(* A session always comes to its end. *)
HSpec == HInit /\ [][HNext]_hvars /\ []<>(running = Kernel)

=============================================================================
