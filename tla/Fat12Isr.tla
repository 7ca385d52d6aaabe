------------------------------ MODULE Fat12Isr ------------------------------
(***************************************************************************)
(* The FAT12 driver with a shell command arriving in the middle of one of  *)
(* its operations: the keyboard interrupt handler dispatches the line, and *)
(* nothing in the driver keeps it out.                                     *)
(***************************************************************************)
EXTENDS Fat12

\* A touch or rm typed at the keyboard: the interrupt handler dispatches it on a
\* mount of its own and with interrupts off, so it runs to its end at once; the
\* interrupted operation goes on with the writes and the cached FAT it had.
ShellCommand ==
    /\ op # Idle
    /\ \E d \in SoundDirs(disk), n \in Names, x \in Contents :
         \E p \in CreateFile(disk, fat, d, n, x) \cup DeleteFile(disk, fat, d, n) :
           /\ disk' = FoldLeft(WrittenDisk, disk, p.writes)
           /\ fat' = FoldLeft(WrittenFat, fat, p.writes)
           /\ files' = Outcome(p)
    /\ UNCHANGED <<cache, op, lost, failures>>

NextIsr == Next \/ ShellCommand

SpecIsr == Init /\ [][NextIsr]_vars
=============================================================================
