------------------------------- MODULE Memory -------------------------------
(***************************************************************************)
(* memory/: the frame allocator over the bootloader's memory map, the heap *)
(* and user pages the boot maps from it, and the check of a pointer range  *)
(* against the page table.  Addresses are those of a small machine: Top of *)
(* them, with a hole that is not canonical, and pages of PageSize bytes.   *)
(***************************************************************************)
EXTENDS Naturals, Sequences, FiniteSets

CONSTANTS
  PageSize,    (* 4096                                                     *)
  Top,         (* 2^64                                                     *)
  Hole,        (* the addresses that are not canonical                     *)
  Usable,      (* the physical addresses of the Usable regions             *)
  HeapPages,   (* the pages of the heap, in order                          *)
  UserPages,   (* the pages map_user_page_at maps, in order                *)
  TableFrames  (* page -> frames map_to takes for tables on its way        *)

ASSUME PageSizeAssumption == PageSize \in Nat \ {0, 1}
ASSUME TopAssumption      == Top \in Nat /\ Top % PageSize = 0 /\ PageSize < Top
ASSUME UsableAssumption   == Usable \subseteq Nat /\ IsFiniteSet(Usable)

(* The hole begins and ends at a page. *)
ASSUME HoleAssumption ==
  /\ Hole \subseteq 0 .. Top - 1
  /\ \A a \in Hole : (a \div PageSize) * PageSize \in Hole

ASSUME PagesAssumption ==
  /\ HeapPages \in Seq(Nat) /\ UserPages \in Seq(Nat)
  /\ \A i \in 1 .. Len(HeapPages \o UserPages) : TableFrames[(HeapPages \o UserPages)[i]] \in Nat

(* The bootloader's regions are whole pages. *)
ASSUME WholePagesAssumption ==
  \A a \in Usable : \A i \in 0 .. PageSize - 1 : (a \div PageSize) * PageSize + i \in Usable

VARIABLES
  next,     (* BootInfoFrameAllocator::next                                *)
  installed,(* the allocator is the global one                             *)
  table,    (* the page table: mapped page -> may ring 3 use it?           *)
  frames,   (* the frames handed out, in order                             *)
  booted,   (* mappings made so far                                        *)
  panicked

mvars == <<next, installed, table, frames, booted, panicked>>

-----------------------------------------------------------------------------
(* usable_frames().nth(n): every PageSize-th byte of the usable regions    *)
(* laid end to end, rounded down to its frame.                             *)
UsableFrames(n) ==
  {a \div PageSize : a \in {b \in Usable : Cardinality({c \in Usable : c < b}) = n * PageSize}}

(* The frames of n calls of allocate_frame, where there are that many. *)
Allocated(n) == [i \in 1 .. n |-> UsableFrames(next + i - 1)]

OutOfMemory(n) == \E i \in 1 .. n : UsableFrames(next + i - 1) = {}

(* allocate_frame moves `next` on whether or not there was a frame. *)
Allocate(n) ==
  /\ next' = next + n
  /\ frames' = frames \o Allocated(n)
  /\ panicked' = OutOfMemory(n)

Pages == HeapPages \o UserPages

MInit ==
  /\ next = 0 /\ installed = FALSE
  /\ table = <<>>
  /\ frames = <<>>
  /\ booted = 0 /\ panicked = FALSE

(* init_heap and map_user_page_at: a frame for the page, then map_to. *)
MapPage ==
  /\ ~panicked /\ booted < Len(Pages)
  /\ LET p == Pages[booted + 1]
     IN  /\ Allocate(1 + TableFrames[p])
         /\ table' = [q \in DOMAIN table \cup {p} |->
                        IF q = p THEN booted >= Len(HeapPages) ELSE table[q]]
  /\ booted' = booted + 1
  /\ UNCHANGED installed

(* Slip: the global allocator is built anew from the memory map. *)
InstallFresh == 0

InstallAt == next

(* main.rs: install_global. *)
InstallGlobal ==
  /\ ~panicked /\ booted = Len(Pages) /\ ~installed
  /\ installed' = TRUE
  /\ next' = InstallAt
  /\ UNCHANGED <<table, frames, booted, panicked>>

(* The drivers' calls of the global allocate_frame. *)
DriverTakes ==
  /\ ~panicked /\ installed
  /\ Allocate(1)
  /\ UNCHANGED <<installed, table, booted>>

-----------------------------------------------------------------------------
PointerHasFlags(addr, user) ==
  /\ addr # 0
  /\ addr \notin Hole
  /\ addr \div PageSize \in DOMAIN table
  /\ user => table[addr \div PageSize]

(* Slip: before Fase 77 only the first page was looked at. *)
RangeFirstPageOnly(addr, len, user) == len = 0 \/ PointerHasFlags((addr \div PageSize) * PageSize, user)

(* range_has_flags, with checked_add. *)
RangeHasFlags(addr, len, user) ==
  \/ len = 0
  \/ /\ addr + len - 1 < Top
     /\ \A page \in addr \div PageSize .. (addr + len - 1) \div PageSize :
          PointerHasFlags(page * PageSize, user)

-----------------------------------------------------------------------------
(***************************************************************************)
(* No frame is ever handed out twice, to the heap, to a user page, to the  *)
(* page tables or to a driver's ring, before or after the allocator became *)
(* the global one, and every frame lies in usable memory; the kernel stops *)
(* only when memory has run out.                                           *)
(***************************************************************************)
FramesNotShared ==
  /\ \A i, j \in DOMAIN frames : i # j => frames[i] \cap frames[j] = {}
  /\ \A i \in DOMAIN frames : \A f \in frames[i] : \A a \in 0 .. PageSize - 1 : f * PageSize + a \in Usable
  /\ panicked <=> \E i \in DOMAIN frames : frames[i] = {}

=============================================================================
