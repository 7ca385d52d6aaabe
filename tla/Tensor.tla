------------------------------- MODULE Tensor -------------------------------
(***************************************************************************)
(* syscall.rs: SYS_TENSOR_EVAL, from ring 0 and from ring 3, with          *)
(* arguments that may be anything, and matmul_layer on the slices the call *)
(* was given.  Interrupts are off throughout; one action is one check or   *)
(* one row.  What counts is which addresses are touched.                   *)
(***************************************************************************)
EXTENDS Memory

CONSTANTS
  F32Size,    (* size_of::<f32>()                                          *)
  ArgsSize,   (* size_of::<TensorEvalArgs>()                               *)
  Pointers,   (* the pointers a caller passes                              *)
  Lengths,    (* the lengths and dimensions it passes                      *)
  Slices      (* <<"weights", "inputs", "bias", "outputs">>                *)

ASSUME SizesAssumption == F32Size \in Nat \ {0} /\ ArgsSize \in Nat \ {0}

(* Any register and any usize; the four slices of TensorEvalArgs. *)
ASSUME ArgumentsAssumption ==
  Pointers \subseteq 0 .. Top - 1 /\ Lengths \subseteq Nat /\ Len(Slices) = 4

VARIABLES
  pc,       (* "idle", "slices", "dims", "rows" or "panic"                 *)
  ring3,    (* caller_is_ring3                                             *)
  ptr, len, (* the slices checked so far                                   *)
  dims,     (* [in, out]                                                   *)
  row,      (* rows done                                                   *)
  touched   (* the addresses the last step reads or writes                 *)

tvars == <<pc, ring3, ptr, len, dims, row, touched>>
tensorVars == <<mvars, tvars>>

-----------------------------------------------------------------------------
(* Slip: a product that wraps. *)
WrappingMul(a, b) == (a * b) % Top

SaturatingMul(a, b) == IF a * b >= Top THEN Top - 1 ELSE a * b

(* The addresses of n bytes from p on. *)
Extent(p, n) == {(p + i) % Top : i \in 0 .. n - 1}

(* Those of element i of a slice. *)
Element(s, i) == Extent(ptr[s] + i * F32Size, F32Size)

Forget ==
  /\ pc' = "idle" /\ ring3' = FALSE
  /\ ptr' = <<>> /\ len' = <<>>
  /\ dims' = [in |-> 0, out |-> 0]
  /\ row' = 0 /\ touched' = {}

TInit ==
  /\ MInit
  /\ pc = "idle" /\ ring3 = FALSE
  /\ ptr = <<>> /\ len = <<>>
  /\ dims = [in |-> 0, out |-> 0]
  /\ row = 0 /\ touched = {}

(* The call: the check of the argument block, which is then read. *)
Enter ==
  /\ pc = "idle" /\ ~panicked /\ booted = Len(Pages)
  /\ \E r \in BOOLEAN, p \in Pointers :
       /\ RangeHasFlags(p, ArgsSize, r)
       /\ ring3' = r
       /\ touched' = Extent(p, ArgsSize)
  /\ pc' = "slices"
  /\ UNCHANGED <<ptr, len, dims, row>>

(* pointer_is_mapped_checked of the next slice. *)
CheckSlice ==
  /\ pc = "slices" /\ Len(ptr) < Len(Slices)
  /\ \E p \in Pointers, n \in Lengths :
       IF RangeHasFlags(p, SaturatingMul(n, F32Size), ring3)
       THEN /\ ptr' = Append(ptr, p) /\ len' = Append(len, n)
            /\ touched' = {}
            /\ UNCHANGED <<pc, ring3, dims, row>>
       ELSE Forget

(* The dimensions against the lengths of weights and outputs. *)
CheckDims ==
  /\ pc = "slices" /\ Len(ptr) = Len(Slices)
  /\ \E i, o \in Lengths :
       IF SaturatingMul(o, i) > len[1] \/ o > len[4]
       THEN Forget
       ELSE /\ dims' = [in |-> i, out |-> o]
            /\ pc' = "rows" /\ touched' = {}
            /\ UNCHANGED <<ring3, ptr, len, row>>

(* A row of matmul_layer: slicing the weights, dot_product over the        *)
(* shorter of the two, the bias if it has this row, and the output.        *)
Row ==
  /\ pc = "rows" /\ row < dims.out
  /\ LET start == row * dims.in
         n     == IF dims.in < len[2] THEN dims.in ELSE len[2]
     IN  IF start + dims.in > len[1] \/ row >= len[4]
         THEN pc' = "panic" /\ touched' = {} /\ UNCHANGED row
         ELSE /\ touched' = (UNION {Element(1, start + i) \cup Element(2, i) : i \in 0 .. n - 1})
                              \cup (IF row < len[3] THEN Element(3, row) ELSE {})
                              \cup Element(4, row)
              /\ row' = row + 1
              /\ UNCHANGED pc
  /\ UNCHANGED <<ring3, ptr, len, dims>>

Return ==
  /\ pc = "rows" /\ row = dims.out
  /\ Forget

Eval == Enter \/ CheckSlice \/ CheckDims \/ Row \/ Return

TNext ==
  \/ pc = "idle" /\ (MapPage \/ InstallGlobal \/ DriverTakes) /\ UNCHANGED tvars
  \/ Eval /\ UNCHANGED mvars

TSpec == TInit /\ [][TNext]_tensorVars

-----------------------------------------------------------------------------
(***************************************************************************)
(* Whatever a caller passes, the kernel touches for it only memory that is *)
(* mapped and, when the caller is in ring 3, only memory ring 3 may use    *)
(* itself, to the last byte of the last row; and no row indexes past a     *)
(* slice, which would stop the kernel for good.                            *)
(***************************************************************************)
TouchesOnlyCallers ==
  /\ pc # "panic"
  /\ \A a \in touched :
       /\ a >= PageSize /\ a \notin Hole
       /\ a \div PageSize \in DOMAIN table
       /\ ring3 => table[a \div PageSize]

=============================================================================
