------------------------------ MODULE Register ------------------------------
(***************************************************************************)
(* The registers of Zydis in 64 bit mode: a register is its class and its  *)
(* number in the class.  The instruction pointers have no number in the    *)
(* source (-1); their width stands in its place.                           *)
(***************************************************************************)
EXTENDS Integers

Reg(class, id) == [class |-> class, id |-> id]
NoReg == Reg("INVALID", 0)
RIP == Reg("IP", 64)
EIP == Reg("IP", 32)
Gpr64(id) == Reg("GPR64", id)

(* How many registers a class has; the numbers of GPR8 count the high bytes and *)
(* the low bytes that need REX: AL to BL, AH to BH, SPL to DIL, R8B to R15B.     *)
ClassSize(class) ==
    CASE class = "GPR8" -> 20
      [] class \in {"GPR16", "GPR32", "GPR64", "CONTROL", "DEBUG"} -> 16
      [] class \in {"X87", "MMX", "TMM", "TEST", "MASK"} -> 8
      [] class \in {"XMM", "YMM", "ZMM"} -> 32
      [] class = "SEGMENT" -> 6
      [] class = "BOUND" -> 4
      [] OTHER -> 0

ZydisRegisterEncode(class, id) ==
    IF id \in 0 .. ClassSize(class) - 1 THEN Reg(class, id) ELSE NoReg

ClassWidth(class) ==
    CASE class = "GPR8" -> 8
      [] class \in {"GPR16", "SEGMENT"} -> 16
      [] class \in {"GPR32", "TEST"} -> 32
      [] class \in {"GPR64", "MMX", "MASK", "CONTROL", "DEBUG"} -> 64
      [] class = "X87" -> 80
      [] class \in {"XMM", "BOUND"} -> 128
      [] class = "YMM" -> 256
      [] class = "ZMM" -> 512
      [] class = "TMM" -> 8192
      [] OTHER -> 0

ZydisRegisterGetWidth(r) == IF r.class = "IP" THEN r.id ELSE ClassWidth(r.class)
ZydisRegisterGetId(r) == IF r.class = "IP" THEN -1 ELSE r.id

GprClasses == {"GPR8", "GPR16", "GPR32", "GPR64"}
VectorClasses == {"XMM", "YMM", "ZMM"}

(* AH to BH lie in RAX to RBX. *)
GprOf(r) ==
    IF r.class # "GPR8" \/ r.id < 4 THEN r.id
    ELSE r.id - 4

ZydisRegisterGetLargestEnclosing(r) ==
    CASE r.class = "IP" -> RIP
      [] r.class \in GprClasses -> Gpr64(GprOf(r))
      [] r.class \in VectorClasses -> Reg("ZMM", r.id)
      [] OTHER -> NoReg

(* The GPR class of a width. *)
GprOfWidth(width) ==
    CASE width = 8 -> "GPR8" [] width = 16 -> "GPR16" [] width = 32 -> "GPR32" [] width = 64 -> "GPR64"
=============================================================================
