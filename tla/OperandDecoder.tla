--------------------------- MODULE OperandDecoder ---------------------------
(***************************************************************************)
(* The second half of ZydisDecoderDecodeFull: from the instruction that    *)
(* Decoder has found to the vector information and the operands.  Operands *)
(* that are hidden (no assembler writes them) are left out, and the        *)
(* element types of vectors; far pointers do not exist in 64 bit mode.     *)
(***************************************************************************)
EXTENDS Decoder, Definitions

ASSUME DefinitionsAssumption ==
    \A x \in DOMAIN Tree :
        IF Tree[x].type = "DEFINITION" THEN IsDefinition(Tree[x].def) ELSE Tree[x].type \in ZydisDecoderTreeNodeType

VARIABLES
    avx,        \* ZydisDecodedInstruction.avx, with the scale of 8 bit displacements
    operands    \* the visible operands

decodedVars == <<vars, avx, operands>>

(* One operand; what its type does not use stays as it is here. *)
NoMemory == [kind |-> "INVALID", segment |-> NoReg, base |-> NoReg, index |-> NoReg, scale |-> 0,
             hasDisp |-> FALSE, disp |-> Zero]
NoImmediate == [value |-> Zero, signed |-> FALSE, relative |-> FALSE]
EmptyOperand == [type |-> "UNUSED", size |-> 0, actions |-> {}, reg |-> NoReg, mem |-> NoMemory, imm |-> NoImmediate]

-----------------------------------------------------------------------------
(* Registers *)

(* The class of a register operand by its semantic type. *)
FixedClass ==
    [GPR8 |-> "GPR8", GPR16 |-> "GPR16", GPR32 |-> "GPR32", GPR64 |-> "GPR64", FPR |-> "X87", MMX |-> "MMX",
     XMM |-> "XMM", YMM |-> "YMM", ZMM |-> "ZMM", TMM |-> "TMM", BND |-> "BOUND", SREG |-> "SEGMENT",
     CR |-> "CONTROL", DR |-> "DEBUG", MASK |-> "MASK"]

RegisterTypes == DOMAIN FixedClass \cup {"GPR16_32_64", "GPR32_32_64", "GPR16_32_32", "GPR_ASZ"}

EffectiveWidth == OperandWidth(ins, Def)

RegisterClass(type) ==
    CASE type \in DOMAIN FixedClass -> FixedClass[type]
      [] type = "GPR16_32_64" -> GprOfWidth(ins.operandWidth)
      [] type = "GPR32_32_64" -> IF ins.operandWidth = 64 THEN "GPR64" ELSE "GPR32"
      [] type = "GPR16_32_32" -> IF ins.operandWidth = 16 THEN "GPR16" ELSE "GPR32"
      [] type = "GPR_ASZ" -> GprOfWidth(ins.addressWidth)

(* The number of a register in the upper half of an immediate.  The fifth bit *)
(* exists for vectors of EVEX and MVEX only.                                  *)
Is4Id(class) ==
    LET byte == ins.imm[1].value[1] IN
    (byte \div 16) + (IF IsEmvex /\ class \in VectorClasses THEN 16 * Bit(byte, 3) ELSE 0)

ZydisCalcRegisterId(encoding, class) ==
    CASE encoding = "MODRM_REG" -> reg.reg
      [] encoding = "MODRM_RM" -> reg.rm
      [] encoding = "NDSNDD" -> reg.ndsndd
      [] encoding = "MASK" -> vu.mask
      [] encoding = "OPCODE" -> (ins.opcode % 8) + 8 * vu.B
      [] encoding = "IS4" -> Is4Id(class)

(* With REX the numbers 4 to 7 are the low bytes of RSP to RDI instead of AH to BH. *)
ZydisDecodeOperandRegister(class, id) ==
    IF class # "GPR8" THEN ZydisRegisterEncode(class, id)
    ELSE Reg("GPR8", IF "REX" \in ins.attributes /\ id >= 4 THEN id + 4 ELSE id)

ZydisDecodeOperandImplicitRegister(r) ==
    CASE r.how = "STATIC" -> r.reg
      [] r.how = "GPR_OSZ" -> Reg(GprOfWidth(EffectiveWidth), r.id)
      [] r.how = "GPR_ASZ" -> Reg(GprOfWidth(ins.addressWidth), r.id)
      [] r.how = "GPR_SSZ" -> Gpr64(r.id)
      [] r.how = "IP_ASZ" -> Reg("IP", ins.addressWidth)
      [] r.how = "IP_SSZ" -> RIP
      [] r.how = "FLAGS_SSZ" -> Reg("FLAGS", 64)

-----------------------------------------------------------------------------
(* Memory *)

(* The bases that say "no base" with mod 0.  For addresses of 32 bits the *)
(* source asks for EBP alone.                                             *)
BaselessIds == IF ins.addressWidth = 64 THEN {5, 13} ELSE {5}

MemoryDisplacementSize(base) ==
    IF ins.modrm.rm = 4 /\ base.id \in BaselessIds
    THEN IF ins.modrm.mod = 1 THEN 8 ELSE 32
    ELSE CASE ins.modrm.mod = 1 -> 8
           [] ins.modrm.mod = 2 -> 32
           [] ins.modrm.mod = 0 -> IF ins.modrm.rm = 5 THEN 32 ELSE 0

(* An 8 bit displacement of EVEX and MVEX counts in units of avx.scale. *)
Displacement ==
    IF IsEmvex /\ ins.disp.size = 8 THEN FromSmall(ToSmall(SignExtend(ins.disp.value)) * avx.scale)
    ELSE SignExtend(ins.disp.value)

(* A memory operand by ModRM and SIB; indexClass is the class of the index. *)
ZydisDecodeOperandMemory(kind, indexClass) ==
    LET gpr    == GprOfWidth(ins.addressWidth)
        sib    == ins.modrm.rm = 4
        based  == Reg(gpr, reg.base)
        index  == Reg(IF indexClass = "GPR" THEN gpr ELSE indexClass, reg.index)
        none   == ~sib \/ index = Reg(gpr, 4)
        hasDisp == MemoryDisplacementSize(based) # 0
    IN  [NoMemory EXCEPT
            !.kind = kind,
            !.base = IF RipRelative THEN Reg("IP", ins.addressWidth)
                     ELSE IF sib /\ based.id \in BaselessIds /\ ins.modrm.mod = 0 THEN NoReg ELSE based,
            !.index = IF none THEN NoReg ELSE index,
            !.scale = IF none THEN 0 ELSE 2^ins.sib.scale,
            !.hasDisp = hasDisp,
            !.disp = IF hasDisp THEN Displacement ELSE Zero]

ImplicitBase == [AAX |-> 0, ADX |-> 2, ABX |-> 3, ASI |-> 6, ADI |-> 7]

ZydisDecodeOperandImplicitMemory(m) ==
    LET gpr == GprOfWidth(ins.addressWidth) IN
    [NoMemory EXCEPT
        !.kind = "MEM",
        !.segment = m.segment,
        !.base = CASE m.base = "AGPR_REG" -> Reg(gpr, reg.reg)
                   [] m.base = "AGPR_RM" -> Reg(gpr, reg.rm)
                   [] m.base = "SSP" -> Gpr64(4)
                   [] m.base = "SBP" -> Gpr64(5)
                   [] OTHER -> Reg(gpr, ImplicitBase[m.base])]

(* A segment prefix counts unless the operand ignores it; the stack pointers *)
(* address SS without one.                                                   *)
WithSegment(m, o) ==
    [m EXCEPT !.segment =
        IF ~o.ignoreSegment /\ "SEGMENT_FS" \in ins.attributes THEN Reg("SEGMENT", 4)
        ELSE IF ~o.ignoreSegment /\ "SEGMENT_GS" \in ins.attributes THEN Reg("SEGMENT", 5)
        ELSE IF m.segment # NoReg THEN m.segment
        ELSE IF m.base.class \in {"GPR64", "GPR32"} /\ m.base.id \in {4, 5} THEN Reg("SEGMENT", 2)
        ELSE Reg("SEGMENT", 3)]

MemoryTypes == {"MEM", "MEM_VSIBX", "MEM_VSIBY", "MEM_VSIBZ", "AGEN", "MIB", "MOFFS", "IMPLICIT_MEM"}

MemoryOperand(o) ==
    CASE o.type = "MEM" -> ZydisDecodeOperandMemory("MEM", "GPR")
      [] o.type = "MEM_VSIBX" -> ZydisDecodeOperandMemory("VSIB", "XMM")
      [] o.type = "MEM_VSIBY" -> ZydisDecodeOperandMemory("VSIB", "YMM")
      [] o.type = "MEM_VSIBZ" -> ZydisDecodeOperandMemory("VSIB", "ZMM")
      [] o.type = "AGEN" -> ZydisDecodeOperandMemory("AGEN", "GPR")
      [] o.type = "MIB" -> ZydisDecodeOperandMemory("MIB", "GPR")
      [] o.type = "MOFFS" -> [NoMemory EXCEPT !.kind = "MEM", !.hasDisp = TRUE, !.disp = SignExtend(ins.disp.value)]
      [] o.type = "IMPLICIT_MEM" -> ZydisDecodeOperandImplicitMemory(o.memory)

-----------------------------------------------------------------------------
(* Sizes *)

(* The size of a memory operand of MVEX: a broadcast reads some elements, a *)
(* conversion elements that are smaller.                                    *)
MvexMemorySize ==
    LET bits == CASE avx.conversion = "INVALID" -> IF Def.functionality \in {"SF_32_BCST", "SI_32_BCST"} THEN 256 ELSE 512
                  [] avx.conversion \in {"FLOAT16", "SINT16", "UINT16"} -> 256
                  [] avx.conversion \in {"SINT8", "UINT8"} -> 128
        element == 8 * ElementBytes(Def, ins.vector.SSS)
    IN  IF avx.ratio = NoBroadcast THEN bits ELSE avx.ratio[1] * element

X_EvexMemorySize == avx.length \div Part[Def.tuple]

EvexMemorySize ==
    IF avx.ratio # NoBroadcast THEN Def.elementSize ELSE avx.length \div Part[Def.tuple]

ZydisSetOperandSize(o, operand) ==
    LET fixed == 8 * o.size[EoszIndex] IN
    CASE operand.type = "REGISTER" -> IF fixed # 0 THEN fixed ELSE ZydisRegisterGetWidth(operand.reg)
      [] operand.type = "IMMEDIATE" -> fixed
      [] operand.type = "MEMORY" ->
            CASE IsEmvex /\ fixed = 0 -> IF ins.encoding = "EVEX" THEN EvexMemorySize ELSE MvexMemorySize
              [] ~IsEmvex /\ operand.mem.kind = "AGEN" -> ins.addressWidth
              [] OTHER -> fixed

-----------------------------------------------------------------------------
(* All operands *)

ImmediateTypes == {"IMM", "REL"}

(* The immediates are taken in the order of the operands that have one. *)
ImmediateOperand(i) ==
    LET o   == Def.ops[i]
        raw == ins.imm[Cardinality({j \in 1 .. i : Def.ops[j].type \in ImmediateTypes})]
        value == IF raw.signed THEN SignExtend(raw.value) ELSE ZeroExtend(raw.value)
    IN  [value |-> IF o.encoding = "IS4" THEN FromSmall(raw.value[1] % 16) ELSE value,
         signed |-> raw.signed, relative |-> raw.relative]

UnsizedOperand(i) ==
    LET o == Def.ops[i]
        base == [EmptyOperand EXCEPT !.actions = IF o.type \in {"AGEN", "MIB"} THEN {} ELSE o.actions]
    IN  CASE o.type \in RegisterTypes ->
                [base EXCEPT !.type = "REGISTER",
                    !.reg = LET class == RegisterClass(o.type) IN
                            ZydisDecodeOperandRegister(class, ZydisCalcRegisterId(o.encoding, class))]
          [] o.type = "IMPLICIT_REG" ->
                [base EXCEPT !.type = "REGISTER", !.reg = ZydisDecodeOperandImplicitRegister(o.register)]
          [] o.type \in MemoryTypes ->
                [base EXCEPT !.type = "MEMORY", !.mem = WithSegment(MemoryOperand(o), o)]
          [] o.type = "IMPLICIT_IMM1" ->
                [base EXCEPT !.type = "IMMEDIATE", !.imm.value = FromSmall(1)]
          [] o.type \in ImmediateTypes ->
                [base EXCEPT !.type = "IMMEDIATE", !.imm = ImmediateOperand(i)]

(* An instruction that merges into its destination by a mask reads it as well. *)
Merged(actions, type) ==
    CASE actions = {"WRITE"} -> IF type = "MEMORY" THEN {"CONDWRITE"} ELSE {"READ", "CONDWRITE"}
      [] actions = {"READ", "WRITE"} -> {"READ", "CONDWRITE"}
      [] OTHER -> actions

Operand(i) ==
    LET operand == UnsizedOperand(i) IN
    [operand EXCEPT !.size = ZydisSetOperandSize(Def.ops[i], operand),
                    !.actions = IF i = 1 /\ avx.maskMode = "MERGING" THEN Merged(@, operand.type) ELSE @]

-----------------------------------------------------------------------------
DecodedInit == Init /\ avx = NoVectorInfo /\ operands = <<>>

DecodePhysical == DecodeStep /\ UNCHANGED <<avx, operands>>

SetAVXInformation ==
    /\ pc = "decoded"
    /\ avx' = ZydisSetAVXInformation(ins.encoding, Def, ins.vector, vu, ins.modrm.mod)
    /\ pc' = "operands"
    /\ UNCHANGED <<buffer, ins, pfx, vu, reg, node, temp, status, operands>>

ZydisDecodeOperands ==
    /\ pc = "operands"
    /\ operands' = [i \in 1 .. Len(Def.ops) |-> Operand(i)]
    /\ pc' = "full"
    /\ UNCHANGED <<buffer, ins, pfx, vu, reg, node, temp, status, avx>>

DecodeFull == DecodePhysical \/ SetAVXInformation \/ ZydisDecodeOperands
=============================================================================
