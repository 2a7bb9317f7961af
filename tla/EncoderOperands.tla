-------------------------- MODULE EncoderOperands --------------------------
(***************************************************************************)
(* The encoder of Zydis tries the forms of a mnemonic one after the other, *)
(* in 64 bit mode here.  A trial t follows one form through the operands   *)
(* of the request and collects what they demand: the effective sizes,      *)
(* whether a REX has to be or must not be, the size of the displacement    *)
(* and of the immediate.  The operators on trials are the checks of the    *)
(* source; t.ok is what they return, and a demand that is not met makes it *)
(* false for good.                                                         *)
(*                                                                         *)
(* Sizes of 0 are sizes not known yet.  Memory has its size in bytes here, *)
(* all else in bits.                                                       *)
(***************************************************************************)
EXTENDS Definitions, Word64, SequencesExt

Trial(q, e) ==
    [q |-> q, e |-> e, ok |-> TRUE, size |-> 0, rex |-> "UNKNOWN", no64 |-> FALSE, rel |-> FALSE,
     easz |-> IF e.hint = "ASZ" THEN q.asz ELSE 0, eosz |-> IF e.hint = "OSZ" THEN q.osz ELSE 0,
     dispSize |-> 0, immSize |-> 0, cd8 |-> 0]

Require(t, demand) == [t EXCEPT !.ok = @ /\ demand]

(* Checks in sequence: the next one looks only at a trial that is still open. *)
Then(t, Check(_)) == IF t.ok THEN Check(t) ELSE t

(* The maps of operand sizes and address sizes that the encoder asks for. *)
Default64 == 4
Force64 == 5
ByteOp == 1
IgnoresAddressSize == 1

FirstOr(s, none) == IF s = <<>> THEN none ELSE s[1]
Larger(a, b) == IF a >= b THEN a ELSE b

-----------------------------------------------------------------------------
(* Sizes *)

(* A table of sizes has an entry for an operand size of 16 (or 8), of 32 and of 64. *)
SizeAt(table, width) == table[(width \div 32) + 1]

SignedImmSize(w) == IF FitsSigned(w, 1) THEN 8 ELSE IF FitsSigned(w, 2) THEN 16 ELSE IF FitsSigned(w, 4) THEN 32 ELSE 64
UnsignedImmSize(w) ==
    IF FitsUnsigned(w, 1) THEN 8 ELSE IF FitsUnsigned(w, 2) THEN 16 ELSE IF FitsUnsigned(w, 4) THEN 32 ELSE 64

MaxAddressSize(q) == IF q.asz = 0 THEN 64 ELSE q.asz

(* The operand size that gives what the table has for it the desired size; 32 is *)
(* preferred, since it needs no prefix.                                          *)
OperandSizeFromElementSize(t, table, desired, exact) ==
    LET Fits(w) == IF exact THEN SizeAt(table, w) = desired ELSE SizeAt(table, w) >= desired
        map     == t.e.def.osz
    IN  CASE map = Default64 -> IF Fits(64) THEN 64 ELSE IF SizeAt(table, 16) = desired THEN 16 ELSE 0
          [] map = Force64 -> IF SizeAt(table, 64) = desired THEN 64 ELSE 0
          [] OTHER -> FirstOr(SelectSeq(<<32, 64, 16>>, LAMBDA w : w \in t.e.osz /\ Fits(w)), 0)

(* An immediate whose size goes with the operand size, and needs at least min bits. *)
ScaledImmSize(t, table, min) ==
    IF t.eosz # 0 THEN [t EXCEPT !.size = IF SizeAt(table, t.eosz) >= min THEN SizeAt(table, t.eosz) ELSE 0]
    ELSE LET w == OperandSizeFromElementSize(t, table, min, FALSE) IN
         [t EXCEPT !.eosz = w, !.size = IF w = 0 THEN 0 ELSE SizeAt(table, w)]

FixedSizes ==
    [UIMM8 |-> 8, SIMM8 |-> 8, UIMM16 |-> 16, SIMM16 |-> 16, UIMM32 |-> 32, SIMM32 |-> 32, UIMM64 |-> 64,
     SIMM64 |-> 64]
ScaledSizes ==
    [UIMM16_32_64 |-> <<16, 32, 64>>, SIMM16_32_64 |-> <<16, 32, 64>>, UIMM32_32_64 |-> <<32, 32, 64>>,
     SIMM32_32_64 |-> <<32, 32, 64>>, UIMM16_32_32 |-> <<16, 32, 32>>, SIMM16_32_32 |-> <<16, 32, 32>>]
JumpSizes == [JIMM8 |-> 8, JIMM16 |-> 16, JIMM32 |-> 32, JIMM64 |-> 64]
IsImmSigned(encoding) ==
    encoding \notin {"UIMM8", "UIMM16", "UIMM32", "UIMM64", "UIMM16_32_64", "UIMM32_32_64", "UIMM16_32_32", "IS4"}

(* The absolute address of a move to or from the accumulator.  It may be too small *)
(* for its sign to be right.                                                       *)
MoffsSize(t, w, min) ==
    LET max  == MaxAddressSize(t.q)
        low  == ZeroExtend(LowBytes(w, max \div 8))
        size == Larger(32, IF min < max /\ UnsignedImmSize(low) > min THEN max ELSE min)
    IN  [t EXCEPT !.easz = size, !.size = size]

(* Leaves the size of the value w as operand o in t.size, 0 if it does not fit. *)
EffectiveImmSize(t, w, o) ==
    LET min      == IF IsImmSigned(o.encoding) THEN SignedImmSize(w) ELSE UnsignedImmSize(w)
        width    == t.q.branchWidth
        Sized(n) == [t EXCEPT !.size = IF n >= min THEN n ELSE 0]
    IN  CASE o.encoding \in DOMAIN FixedSizes -> Sized(FixedSizes[o.encoding])
          [] o.encoding = "IS4" -> Sized(IF FitsUnsigned(w, 1) /\ w[1] <= 15 THEN 8 ELSE 0)
          [] o.encoding \in DOMAIN ScaledSizes -> ScaledImmSize(t, ScaledSizes[o.encoding], min)
          [] o.encoding = "DISP16_32_64" -> MoffsSize(t, w, min)
          [] o.encoding \in DOMAIN JumpSizes ->
                Sized(IF width \in {0, JumpSizes[o.encoding]} THEN JumpSizes[o.encoding] ELSE 0)
          [] o.encoding = "JIMM16_32_32" ->
                IF width = 0 THEN ScaledImmSize(t, <<16, 32, 32>>, min)
                ELSE Sized(IF width \in {16, 32} THEN width ELSE 0)

CheckOsz(t, width) ==
    IF t.eosz # 0 THEN Require(t, t.eosz = width)
    ELSE [Require(t, width # 8) EXCEPT !.eosz = width]

CheckAsz(t, width) ==
    IF t.easz # 0 THEN Require(t, t.easz = width)
    ELSE [Require(t, width # 16) EXCEPT !.easz = width]

-----------------------------------------------------------------------------
(* Registers *)

IsRegisterAllowed(t, r) == r.id >= 16 /\ r.class # "GPR8" => t.e.encoding \in {"EVEX", "MVEX"}

(* AH to BH cannot be had together with anything that needs a REX. *)
ValidateRexType(t, r, addressing) ==
    CASE r.class = "GPR8" /\ r.id < 4 -> t
      [] r.class = "GPR8" /\ r.id \in 4 .. 7 -> [Require(t, t.rex # "REQUIRED") EXCEPT !.rex = "FORBIDDEN"]
      [] \/ r.class = "GPR8" /\ r.id > 7
         \/ r.class # "GPR8" /\ (r.id > 7 \/ (~addressing /\ r.class = "GPR64")) ->
            [Require(t, t.rex # "FORBIDDEN") EXCEPT !.rex = "REQUIRED"]
      [] OTHER -> t

(* The classes that a type of register operand admits. *)
Admits ==
    [GPR8 |-> {"GPR8"}, GPR16 |-> {"GPR16"}, GPR32 |-> {"GPR32"}, GPR64 |-> {"GPR64"},
     GPR16_32_64 |-> {"GPR16", "GPR32", "GPR64"}, GPR32_32_64 |-> {"GPR32", "GPR64"},
     GPR16_32_32 |-> {"GPR16", "GPR32"}, GPR_ASZ |-> {"GPR16", "GPR32", "GPR64"}, FPR |-> {"X87"}, MMX |-> {"MMX"},
     XMM |-> {"XMM"}, YMM |-> {"YMM"}, ZMM |-> {"ZMM"}, TMM |-> {"TMM"}, BND |-> {"BOUND"}, SREG |-> {"SEGMENT"},
     CR |-> {"CONTROL"}, DR |-> {"DEBUG"}, MASK |-> {"MASK"}]

(* What a register demands of the effective sizes. *)
RegisterSized(t, type, r) ==
    LET width == ClassWidth(r.class) IN
    CASE type = "GPR16_32_64" -> CheckOsz(t, width)
      [] type = "GPR32_32_64" /\ t.eosz # 0 -> Require(t, t.eosz = width)
      [] type = "GPR32_32_64" /\ t.eosz = 0 ->
            IF r.class = "GPR64" THEN [t EXCEPT !.eosz = 64] ELSE [t EXCEPT !.no64 = TRUE]
      [] type = "GPR16_32_32" -> IF t.eosz = 64 THEN Require(t, r.class = "GPR32") ELSE CheckOsz(t, width)
      [] type = "GPR_ASZ" -> CheckAsz(t, width)
      [] OTHER -> t

CountLimited == {"GPR8", "GPR16", "GPR32", "GPR16_32_64", "GPR32_32_64", "GPR16_32_32", "GPR_ASZ", "XMM", "YMM", "ZMM"}

MaskAdmitted(t, r, o) ==
    t.e.encoding = "EVEX" /\ o.encoding = "MASK" /\ r.id = 0 =>
        /\ t.e.def.maskPolicy # "REQUIRED"
        /\ ~(t.e.def.maskPolicy = "ALLOWED" /\ t.q.avx.zeroing)

(* Single registers of a class that a form does not take. *)
NumberAdmitted(t, r, o) ==
    /\ o.type = "SREG" /\ "WRITE" \in o.actions => r.id # 1
    /\ o.type = "CR" => r.id \in {0, 2, 3, 4, 8}
    /\ o.type = "DR" => r.id < 8
    /\ o.type = "MASK" => MaskAdmitted(t, r, o)

ExplicitRegister(t, u, o) ==
    LET r     == u.reg
        type  == o.type
        sized == RegisterSized(Require(t, r.class \in Admits[type]), type, r)
        rexed == IF type \in {"GPR8", "GPR16_32_64", "GPR32_32_64"} THEN ValidateRexType(sized, r, FALSE) ELSE sized
    IN  Require(rexed,
            /\ type \in CountLimited => IsRegisterAllowed(t, r)
            /\ NumberAdmitted(t, r, o)
            /\ u.is4 <=> type \in {"XMM", "YMM"} /\ o.encoding = "IS4")

ImplicitRegister(t, u, o) ==
    LET how == o.register.how
        gpr == Require(t, u.reg.class \in GprClasses /\ u.reg.id = o.register.id)
    IN  Require(CASE how = "STATIC" -> Require(t, u.reg = o.register.reg)
                  [] how = "GPR_OSZ" -> CheckOsz(gpr, ClassWidth(u.reg.class))
                  [] how = "GPR_ASZ" -> CheckAsz(gpr, ClassWidth(u.reg.class)),
                ~u.is4)

IsRegisterOperandCompatible(t, u, o) ==
    IF ClassWidth(u.reg.class) = 0 THEN Require(t, FALSE)
    ELSE IF o.type = "IMPLICIT_REG" THEN ImplicitRegister(t, u, o) ELSE ExplicitRegister(t, u, o)

-----------------------------------------------------------------------------
(* The unit of an 8 bit displacement of EVEX and MVEX, as a power of two *)

Requested(q) == q.avx.ratio # NoBroadcast

LengthIndex(e) == CASE e.length = 128 -> 0 [] e.length = 256 -> 1 [] e.length = 512 -> 2

ElementLog(d) == CASE d.elementSize = 8 -> 0 [] d.elementSize = 16 -> 1 [] d.elementSize = 32 -> 2
                   [] d.elementSize = 64 -> 3 [] d.elementSize = 128 -> 4

CompDispScaleEvex(t) ==
    LET d  == t.e.def
        ll == LengthIndex(t.e)
    IN  CASE d.tuple = "FV" -> IF Requested(t.q) THEN ElementLog(d) ELSE 4 + ll
          [] d.tuple = "HV" -> IF Requested(t.q) THEN ElementLog(d) ELSE 3 + ll
          [] d.tuple = "QUARTER" -> IF Requested(t.q) THEN 1 ELSE 2 + ll
          [] d.tuple = "FVM" -> 4 + ll
          [] d.tuple = "HVM" -> 3 + ll
          [] d.tuple = "QVM" -> 2 + ll
          [] d.tuple = "OVM" -> 1 + ll
          [] d.tuple \in {"GSCAT", "T1S", "T1F"} -> ElementLog(d)
          [] d.tuple = "T2" -> IF t.e.rexW THEN 4 ELSE 3
          [] d.tuple = "T4" -> IF t.e.rexW THEN 5 ELSE 4
          [] d.tuple \in {"T1_4X", "M128"} -> 4
          [] d.tuple = "T8" -> 5
          [] d.tuple = "DUP" -> <<3, 5, 6>>[ll + 1]

EncodeMvexBroadcastMode(ratio) == IF ratio = NoBroadcast THEN 0 ELSE IF ratio[1] = 1 THEN 1 ELSE 2
EncodeMvexConversionMode ==
    [INVALID |-> 0, FLOAT16 |-> 3, UINT8 |-> 4, SINT8 |-> 5, UINT16 |-> 6, SINT16 |-> 7]

(* By what the instruction reads (all, an element, four of them) and by SSS. *)
FloatScales == << <<6, 2, 4, 5, 4, 4, 5, 5>>, <<2, 0, 0, 1, 0, 0, 1, 1>>, <<4, 0, 0, 3, 2, 2, 3, 3>> >>
IntegerScales == << <<6, 2, 4, 0, 4, 4, 5, 5>>, <<2, 0, 0, 0, 0, 0, 1, 1>>, <<4, 0, 0, 0, 2, 2, 3, 3>> >>
DoubleScales == << <<6, 3, 5>>, <<3, 0, 0>>, <<5, 0, 0>> >>
StoreScales == << <<6, 0, 0, 5, 4, 4, 5, 5>>, <<2, 0, 0, 1, 0, 0, 1, 1>> >>

CompDispScaleMvex(t) ==
    LET d     == t.e.def
        reads == IF d.granular THEN 1 ELSE EncodeMvexBroadcastMode(d.broadcast)
        sss   == EncodeMvexBroadcastMode(t.q.avx.ratio) + EncodeMvexConversionMode[t.q.avx.conversion]
        f     == d.functionality
    IN  CASE f \in {"IGNORED", "INVALID", "RC", "SAE", "SWIZZLE_32", "SWIZZLE_64"} -> 0
          [] f \in Whole -> 6
          [] f \in {"SF_32", "SF_32_BCST", "SF_32_BCST_4TO16", "UF_32"} -> FloatScales[reads + 1][sss + 1]
          [] f \in {"SI_32", "SI_32_BCST", "SI_32_BCST_4TO16", "UI_32"} -> IntegerScales[reads + 1][sss + 1]
          [] f \in {"SF_64", "SI_64", "UF_64", "UI_64"} -> DoubleScales[reads + 1][sss + 1]
          [] f \in {"DF_32", "DI_32"} -> StoreScales[reads + 1][sss + 1]
          [] f \in {"DF_64", "DI_64"} -> IF reads = 0 THEN 6 ELSE 3

CompDispScale(t) ==
    CASE t.e.encoding = "EVEX" -> CompDispScaleEvex(t)
      [] t.e.encoding = "MVEX" -> CompDispScaleMvex(t)
      [] OTHER -> 0

X_Displaced(t, m) ==
    IF m.disp = Zero THEN t
    ELSE LET n   == SignedImmSize(m.disp)
             cd8 == CompDispScale(t)
             low == SignedImmSize(ShiftRight(m.disp, cd8)) = 8
         IN  [Require(t, n <= 32) EXCEPT !.cd8 = cd8, !.dispSize = IF cd8 # 0 /\ low THEN 8 ELSE n]

(* The displacement: none if it is 0, and 8 bits if it is a multiple of the unit *)
(* and few enough of them.                                                       *)
Displaced(t, m) ==
    IF m.disp = Zero THEN t
    ELSE LET n     == SignedImmSize(m.disp)
             cd8   == CompDispScale(t)
             whole == IsMultiple(m.disp, cd8)
             low   == SignedImmSize(ShiftRight(m.disp, cd8)) = 8
         IN  [Require(t, n <= 32) EXCEPT
                 !.cd8 = cd8,
                 !.dispSize = CASE cd8 # 0 /\ whole /\ low -> 8
                                [] cd8 # 0 /\ ~whole /\ n = 8 -> 16
                                [] OTHER -> n]

-----------------------------------------------------------------------------
(* Memory *)

(* The bytes that a form with vectors reads or writes, where the definition has no *)
(* size of its own.                                                                *)
EvexBytes(t) ==
    LET d == t.e.def IN
    IF Requested(t.q) \/ d.broadcast # NoBroadcast THEN d.elementSize \div 8
    ELSE (16 * 2^LengthIndex(t.e)) \div (CASE d.tuple = "HV" -> 2 [] d.tuple = "QUARTER" -> 4 [] d.tuple = "FV" -> 1)

MvexBytes(t) ==
    LET d    == t.e.def
        conversion == t.q.avx.conversion
        element == CASE conversion \in {"FLOAT16", "SINT16", "UINT16"} -> 2
                     [] conversion \in {"SINT8", "UINT8"} -> 1
                     [] conversion = "INVALID" -> IF d.functionality \in Doubles \cup Up64 THEN 8 ELSE 4
        vector == CASE conversion \in {"FLOAT16", "SINT16", "UINT16"} -> 32
                    [] conversion \in {"SINT8", "UINT8"} -> 16
                    [] conversion = "INVALID" ->
                          IF d.functionality \in {"SF_32_BCST", "SI_32_BCST"} THEN 32 ELSE 64
        ratio == IF Requested(t.q) THEN t.q.avx.ratio ELSE d.broadcast
    IN  IF ratio = NoBroadcast THEN vector ELSE ratio[1] * element

VectorMemoryBytes(t, o) ==
    LET fixed == IF t.no64 THEN o.size[2] ELSE o.size[3] IN
    CASE fixed # 0 \/ t.e.encoding = "VEX" -> fixed
      [] fixed = 0 /\ t.e.encoding = "EVEX" -> EvexBytes(t)
      [] fixed = 0 /\ t.e.encoding = "MVEX" -> MvexBytes(t)

ExactOsz(t, m, o) ==
    LET w == OperandSizeFromElementSize(t, o.size, m.size, TRUE) IN [Require(t, w # 0) EXCEPT !.eosz = w]

(* The size of a memory operand against the operand size. *)
MemorySized(t, m, o) ==
    CASE t.eosz # 0 -> Require(t, SizeAt(o.size, t.eosz) = m.size)
      [] t.eosz = 0 /\ (t.e.length # 0 \/ t.e.encoding = "MVEX") -> Require(t, m.size = VectorMemoryBytes(t, o))
      [] OTHER -> IF t.e.rexW THEN [t EXCEPT !.eosz = 64] ELSE ExactOsz(t, m, o)

(* An address that is only computed has the address size; a known one is in bits. *)
AddressAsOperand(t, m) ==
    IF t.easz # 0 THEN Require(t, t.easz = m.size)
    ELSE [Require(t, m.size \in {2, 4, 8}) EXCEPT !.easz = 8 * m.size]

IndexClass == [MEM_VSIBX |-> "XMM", MEM_VSIBY |-> "YMM", MEM_VSIBZ |-> "ZMM"]

InstructionPointers == {RIP, EIP}
Unnamed(r) == r.class = "INVALID"

IsValidAddressingClass(t, r) ==
    IF Unnamed(r) THEN t ELSE ValidateRexType(Require(t, r.class \in {"GPR32", "GPR64"}), r, TRUE)

(* Base and index are registers that can address. *)
Addressable(t, m, o) ==
    LET scaled == Require(t,
            /\ m.base \in InstructionPointers => ~t.e.def.opRm.noRip /\ t.e.modrm % 8 # 4 /\ Unnamed(m.index)
            /\ ~Unnamed(m.index) => m.scale # 0 \/ o.type = "MIB"
            /\ Unnamed(m.index) => m.scale = 0)
        based == IF m.base \in InstructionPointers THEN scaled ELSE IsValidAddressingClass(scaled, m.base)
    IN  IF o.type \in DOMAIN IndexClass
        THEN Require(scaled, /\ m.base.class \in {"GPR32", "GPR64", "INVALID"}
                             /\ m.index.class = IndexClass[o.type]
                             /\ m.index.id <= (IF t.e.encoding = "VEX" THEN 15 ELSE 31))
        ELSE Require(IsValidAddressingClass(based, m.index),
                     /\ ~Unnamed(m.base) /\ ~Unnamed(m.index) => m.base.class = m.index.class
                     /\ m.index \notin {Reg("GPR32", 4), Reg("GPR64", 4)})

(* The address size.  With neither base nor index the displacement is the address, *)
(* and 32 bits at least.                                                            *)
AddressSized(t, m, o) ==
    LET max   == MaxAddressSize(t.q)
        alone == Unnamed(m.base) /\ Unnamed(m.index) /\ (t.dispSize # 8 \/ t.cd8 = 0)
        width == CASE ~Unnamed(m.base) -> ZydisRegisterGetWidth(m.base)
                   [] Unnamed(m.base) /\ ~Unnamed(m.index) ->
                         IF o.type \in DOMAIN IndexClass THEN 64 ELSE ClassWidth(m.index.class)
                   [] alone -> IF max = 32 /\ ~Negative(m.disp) /\ t.easz # 32 THEN 64 ELSE max
                   [] OTHER -> 0
        easz  == IF t.easz = 0 THEN width ELSE t.easz
    IN  [Require(t, /\ alone => t.dispSize <= max
                    /\ easz = width
                    /\ t.e.def.asz = IgnoresAddressSize => easz = 64)
            EXCEPT !.easz = easz, !.dispSize = IF alone THEN Larger(@, 32) ELSE @]

KnownOrExact(t, m, o) == IF t.eosz # 0 THEN Require(t, SizeAt(o.size, t.eosz) = m.size) ELSE ExactOsz(t, m, o)
MoffsTaken(t, min) == [Require(t, t.size # 0 /\ ~(t.size = 64 /\ min < 64)) EXCEPT !.dispSize = t.size]

IsMoffsCompatible(t, m, o) ==
    LET min   == SignedImmSize(m.disp)
        plain == Require(t, Unnamed(m.base) /\ Unnamed(m.index) /\ m.scale = 0 /\ min <= MaxAddressSize(t.q))
    IN  MoffsTaken(EffectiveImmSize(KnownOrExact(plain, m, o), m.disp, o), min)

IsMemoryOperandCompatible(t, u, o) ==
    LET m == u.mem
        Sized(s) == IF o.type = "AGEN" THEN AddressAsOperand(s, m) ELSE MemorySized(s, m, o)
    IN  IF o.type = "MOFFS" THEN IsMoffsCompatible(t, m, o)
        ELSE Then(Then(Then(Displaced(Require(t, o.type = "MIB" => m.scale = 0), m), Sized),
                       LAMBDA s : Addressable(s, m, o)),
                  LAMBDA s : AddressSized(s, m, o))

-----------------------------------------------------------------------------
(* Immediates.  The first of two takes the place of the displacement. *)

ImmediateTaken(t, o) ==
    [Require(t, IF o.encoding = "IS4" THEN t.size = 8 ELSE t.size # 0) EXCEPT
        !.dispSize = IF o.encoding # "IS4" /\ t.immSize # 0 THEN t.immSize ELSE @,
        !.immSize = t.size, !.rel = o.type = "REL"]

IsImmediateOperandCompatible(t, u, o) ==
    IF o.type = "IMPLICIT_IMM1" THEN Require(t, u.imm = FromSmall(1))
    ELSE ImmediateTaken(EffectiveImmSize(t, u.imm, o), o)
=============================================================================
