-------------------------------- MODULE PcbKv --------------------------------
(***************************************************************************)
(* The process table (scheduler/agent_scheduler.rs, process.rs), the       *)
(* KV-cache block table (memory/kv_allocator.rs) and the system calls that *)
(* keep them consistent (syscall.rs: SYS_AGENT_SPAWN, SYS_KV_ALLOC,        *)
(* SYS_KV_FREE).                                                           *)
(*                                                                         *)
(* Each table has its own lock and no caller holds both, but nothing that  *)
(* changes a table runs between the two halves of a system call: int 0x80  *)
(* is an interrupt gate and boot-time callers run before any task exists.  *)
(* Every operation is therefore one step.  Process ids and block ids come  *)
(* from the caller unchecked: any number.                                  *)
(***************************************************************************)
EXTENDS Integers, FiniteSets

CONSTANTS
  MaxProcesses,  (* MAX_PROCESSES                                          *)
  MaxBlocks,     (* length of KVCacheMemoryManager::blocks                 *)
  Prios,         (* Priority as u8                                         *)
  PidArgs,       (* pids a caller may pass                                 *)
  IdArgs         (* block ids a caller may pass                            *)

ASSUME MaxProcessesAssumption == MaxProcesses \in Nat \ {0}
ASSUME MaxBlocksAssumption    == MaxBlocks \in Nat \ {0}
ASSUME PriosAssumption        == Prios \subseteq 0 .. 98
ASSUME ArgsAssumption         == PidArgs \subseteq Nat /\ IdArgs \subseteq Nat

Slots  == 0 .. MaxProcesses - 1
Blocks == 0 .. MaxBlocks - 1
States == {"Ready", "Running", "Blocked", "Terminated"}

NoPid   == 0    \* an empty slot: real pids start at 1
NoBlock == 0    \* kv_block_id None: real ids start at 1
Free    == -1   \* an empty block slot: a block's pid may be any number

VARIABLES
  processes,   (* NativeAgentScheduler::processes                          *)
  currentPid,  (* NativeAgentScheduler::current_pid                        *)
  nextPid,     (* NativeAgentScheduler::next_pid                           *)
  owner,       (* KVCacheMemoryManager::blocks: each block's pid           *)
  allocated    (* KVCacheMemoryManager::allocated_count                    *)

vars == <<processes, currentPid, nextPid, owner, allocated>>

Pcb == [pid : Nat, state : States, prio : Prios \cup {0}, kv : 0 .. MaxBlocks]

EmptyProc == [pid |-> NoPid, state |-> "Ready", prio |-> 0, kv |-> NoBlock]

TypeOK ==
  /\ processes \in [Slots -> Pcb]
  /\ currentPid \in Nat
  /\ nextPid \in Nat \ {0}
  /\ owner \in [Blocks -> Nat \cup {Free}]
  /\ allocated \in Nat

Init ==
  /\ processes = [s \in Slots |-> EmptyProc]
  /\ currentPid = 0
  /\ nextPid = 1
  /\ owner = [b \in Blocks |-> Free]
  /\ allocated = 0

-----------------------------------------------------------------------------
(* The process table. *)

Used(s) == processes[s].pid # NoPid

(* The first slot of a table for which a condition holds. *)
IsFirst(s, S) == s \in S /\ \A t \in S : s <= t

(* spawn: the first empty slot, and the next pid; None when there is none. *)
Spawn(prio) ==
  \E s \in Slots :
    /\ IsFirst(s, { t \in Slots : ~Used(t) })
    /\ processes' = [processes EXCEPT ![s] =
         [pid |-> nextPid, state |-> "Ready", prio |-> prio, kv |-> NoBlock]]
    /\ nextPid' = nextPid + 1
    /\ UNCHANGED <<currentPid, owner, allocated>>

Ready == { s \in Slots : Used(s) /\ processes[s].state = "Ready" }

TopReady == { t \in Ready : \A r \in Ready : processes[t].prio <= processes[r].prio }

(* schedule_next: the first of the ready processes of the top priority. *)
ScheduleNext ==
  \E s \in Slots :
    /\ IsFirst(s, TopReady)
    /\ processes' = [processes EXCEPT ![s].state = "Running"]
    /\ currentPid' = processes[s].pid
    /\ UNCHANGED <<nextPid, owner, allocated>>

(***************************************************************************)
(* update_process, set_kv_block_id and clear_kv_block_id_if_matches change *)
(* the first process with the given pid, if there is one.                  *)
(***************************************************************************)
HasPid(pid) == { s \in Slots : Used(s) /\ processes[s].pid = pid }

UpdateProcess(pid, state) ==
  \E s \in Slots :
    /\ IsFirst(s, HasPid(pid))
    /\ processes' = [processes EXCEPT ![s].state = state]
    /\ UNCHANGED <<currentPid, nextPid, owner, allocated>>

SetKvBlockId(pid, id) ==
  [s \in Slots |-> IF IsFirst(s, HasPid(pid))
                   THEN [processes[s] EXCEPT !.kv = id] ELSE processes[s]]

ClearNothing(pid, id) == processes    \* slip: the claim is left behind
ClearAnyBlock(pid, id) ==             \* slip: the claim's id is not compared
  [s \in Slots |-> IF IsFirst(s, HasPid(pid))
                   THEN [processes[s] EXCEPT !.kv = NoBlock] ELSE processes[s]]

Claims(pid, id) == { s \in HasPid(pid) : processes[s].kv = id }

ClearKvBlockIdIfMatches(pid, id) ==
  [s \in Slots |-> IF IsFirst(s, Claims(pid, id))
                   THEN [processes[s] EXCEPT !.kv = NoBlock] ELSE processes[s]]

-----------------------------------------------------------------------------
(* The block table and the system calls. *)

FirstFree(b) == IsFirst(b, { c \in Blocks : owner[c] = Free })

AllocateUncounted(b, pid) ==    \* slip: allocated_count is not raised
  FirstFree(b) /\ owner' = [owner EXCEPT ![b] = pid] /\ allocated' = allocated

AllocateBlock(b, pid) ==
  /\ FirstFree(b)
  /\ owner' = [owner EXCEPT ![b] = pid]
  /\ allocated' = allocated + 1

(* main.rs: the boot sequence allocates through the manager alone. *)
AllocateKvBlock(pid) ==
  \E b \in Blocks :
    /\ AllocateBlock(b, pid)
    /\ UNCHANGED <<processes, currentPid, nextPid>>

(* SYS_KV_ALLOC *)
KvAlloc(pid) ==
  \E b \in Blocks :
    /\ AllocateBlock(b, pid)
    /\ processes' = SetKvBlockId(pid, b + 1)
    /\ UNCHANGED <<currentPid, nextPid>>

(* SYS_KV_FREE: block ids are slot + 1; 0, unknown and free ids change nothing. *)
KvFree(id) ==
  /\ id - 1 \in Blocks
  /\ owner[id - 1] # Free
  /\ owner' = [owner EXCEPT ![id - 1] = Free]
  /\ allocated' = allocated - 1
  /\ processes' = ClearKvBlockIdIfMatches(owner[id - 1], id)
  /\ UNCHANGED <<currentPid, nextPid>>

Next ==
  \/ \E p \in Prios : Spawn(p)
  \/ ScheduleNext
  \/ \E pid \in PidArgs, st \in States : UpdateProcess(pid, st)
  \/ \E pid \in PidArgs : AllocateKvBlock(pid)
  \/ \E pid \in PidArgs : KvAlloc(pid)
  \/ \E id \in IdArgs : KvFree(id)

Spec == Init /\ [][Next]_vars

-----------------------------------------------------------------------------
(* Properties *)

(* Every process has a pid of its own, smaller than the next one. *)
PidsUnique ==
  \A s \in Slots : Used(s) =>
    /\ processes[s].pid < nextPid
    /\ \A t \in Slots : t # s => processes[t].pid # processes[s].pid

(***************************************************************************)
(* A block a process claims in its PCB is allocated, and to that process.  *)
(* (What SYS_KV_FREE's clear_kv_block_id_if_matches is for: ids are reused *)
(* at once, so a stale claim would name somebody else's block.)            *)
(***************************************************************************)
ClaimsAreOwned ==
  \A s \in Slots : processes[s].kv # NoBlock =>
    Used(s) /\ owner[processes[s].kv - 1] = processes[s].pid

(* No two processes claim the same block. *)
NoSharedBlock ==
  \A s, t \in Slots :
    s # t /\ processes[s].kv # NoBlock => processes[s].kv # processes[t].kv

(* allocated_count is the number of blocks that are allocated. *)
CountExact == allocated = Cardinality({ b \in Blocks : owner[b] # Free })

(***************************************************************************)
(* A process loses its claim only to a newer block of its own or to the    *)
(* freeing of that very block: freeing an older, superseded block never    *)
(* stomps a newer claim.                                                   *)
(***************************************************************************)
ClaimsEndProperly ==
  [][\A s \in Slots :
       LET old == processes[s].kv
           new == processes'[s].kv
       IN  old # NoBlock /\ new # old =>
             \/ new # NoBlock /\ owner[new - 1] = Free /\ owner'[new - 1] = processes[s].pid
             \/ new = NoBlock /\ owner'[old - 1] = Free]_vars

IInv == TypeOK /\ PidsUnique /\ ClaimsAreOwned /\ CountExact

=============================================================================
