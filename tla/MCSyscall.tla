------------------------------ MODULE MCSyscall ------------------------------
(***************************************************************************)
(* TLC instance of what the system calls work on: the process table and    *)
(* the KV blocks (PcbKv), memory and SYS_TENSOR_EVAL (Tensor), and the     *)
(* decoders that make the tensors (Gguf).  They share no variable and a    *)
(* call runs with interrupts off, so a behaviour is one of the three; the  *)
(* other two stay as they were initialised.                                *)
(***************************************************************************)
EXTENDS PcbKv, Tensor

CONSTANTS Formats, Halves   (* of Gguf                                     *)

VARIABLES
  part,   (* "tables", "tensor" or "gguf"                                  *)
  fmt, half, g, is, q_offset, mask, used, taken, out

G == INSTANCE Gguf

ASSUME GgufAssumption == G!Assumptions

gvars == <<fmt, half, g, is, q_offset, mask, used, taken, out>>
all   == <<part, vars, tensorVars, gvars>>

-----------------------------------------------------------------------------
MCHeap   == <<6>>
MCUser   == <<2, 5, 7>>
MCTables == [p \in 0 .. 7 |-> p % 2]
MCSlices == <<"weights", "inputs", "bias", "outputs">>

AllFormats == {"F32", "F16", "Q8_0", "Q4_0", "Q4_1", "Q2_K", "Q3_K", "Q4_K", "Q5_K", "Q6_K", "Q8_K"}

(* Both signs; the subnormals and zero, the least and a middle binade, the *)
(* greatest binade, infinities and NaNs.                                   *)
EdgeHalves == {s * 32768 + e * 1024 + m : s \in {0, 1}, e \in {0, 1, 15, 30, 31}, m \in 0 .. 1023}

-----------------------------------------------------------------------------
(* Decoders not in use: one of their initial states is enough. *)
GgufIdle == G!Init /\ fmt = "Q8_0"

MCInit ==
  /\ Init /\ TInit
  /\ \/ part \in {"tables", "tensor"} /\ GgufIdle
     \/ part = "gguf" /\ G!Init

MCNext ==
  \/ part = "tables" /\ Next   /\ UNCHANGED <<part, tensorVars, gvars>>
  \/ part = "tensor" /\ TNext  /\ UNCHANGED <<part, vars, gvars>>
  \/ part = "gguf"   /\ G!Next /\ UNCHANGED <<part, vars, tensorVars>>

MCSpec == MCInit /\ [][MCNext]_all

-----------------------------------------------------------------------------
(***************************************************************************)
(* The decode_ functions lose and duplicate nothing: no bit of a block     *)
(* becomes part of two values or of a value and a scale, every value is    *)
(* scaled by the scale of its own sub-block, a whole block uses all bits,  *)
(* and the blocks of the boot's self-tests give the values it expects.     *)
(***************************************************************************)
EveryBitOnce == part = "gguf" => G!EveryBitOnce

(***************************************************************************)
(* f16_to_f32 is exact, subnormals included; infinities stay infinities    *)
(* and NaNs NaNs.                                                          *)
(***************************************************************************)
HalfExact == part = "gguf" => G!HalfExact
=============================================================================
