------------------------------ MODULE Emitter ------------------------------
(***************************************************************************)
(* From the form that the encoder of Zydis has taken to the bytes.         *)
(* ZydisBuildInstruction gathers the fields of the encoding from the trial *)
(* t of the form, ZydisEmitInstruction writes them out in order.           *)
(***************************************************************************)
EXTENDS EncoderOperands

VectorEncodings == {"XOP", "VEX", "EVEX", "MVEX"}

-----------------------------------------------------------------------------
(* The fields that follow from the form and the features *)

EvexRequested(t) ==
    t.e.encoding = "EVEX" /\ (t.q.avx.sae \/ Requested(t.q) \/ t.q.avx.rounding # 0)

(* A rounding takes the place of the vector length. *)
VectorLengthField(t) ==
    IF t.e.encoding = "EVEX" /\ t.q.avx.rounding # 0 THEN t.q.avx.rounding - 1
    ELSE IF t.e.length = 0 THEN 0 ELSE LengthIndex(t.e)

(* What SSS means depends on the form: a broadcast, a conversion, a rounding, a *)
(* swizzle; 4 suppresses exceptions.                                             *)
SssField(t) ==
    LET a == t.q.avx IN
    IF t.e.encoding # "MVEX" THEN 0
    ELSE EncodeMvexBroadcastMode(a.ratio) + EncodeMvexConversionMode[a.conversion] +
         (IF a.rounding # 0 THEN a.rounding - 1 ELSE 0) + (IF a.swizzle # 0 THEN a.swizzle - 1 ELSE 0) +
         (IF a.sae THEN 4 ELSE 0)

(* Two mnemonics are told apart from their neighbours by the bit of the hint. *)
EvictionField(t) ==
    /\ t.e.encoding = "MVEX"
    /\ t.q.mnemonic \notin {"vmovnrapd", "vmovnraps"}
    /\ \/ t.q.avx.sae \/ t.q.avx.eviction \/ t.q.avx.rounding # 0
       \/ t.q.mnemonic \in {"vmovnrngoapd", "vmovnrngoaps"}

(* A prefix of 66 stands for an operand size of 16, or of anything but 64 where 64 *)
(* is forced.                                                                      *)
SizePrefixed(t) == IF t.e.def.osz = Force64 THEN t.eosz # 64 ELSE t.eosz = 16

FormAttributes(t) ==
    t.q.prefixes \cup
    (IF t.e.modrm # 0 THEN {"MODRM"} ELSE {}) \cup
    (IF EvexRequested(t) THEN {"EVEX_B"} ELSE {}) \cup
    (CASE t.e.prefix = 102 -> {"OPERANDSIZE"} [] t.e.prefix = 242 -> {"REPNE"} [] t.e.prefix = 243 -> {"REP"}
       [] t.e.prefix = 0 -> {}) \cup
    (IF t.easz # 64 THEN {"ADDRESSSIZE"} ELSE {}) \cup
    (IF SizePrefixed(t) THEN {"OPERANDSIZE"} ELSE {})

FromForm(t) ==
    [attributes |-> FormAttributes(t), encoding |-> t.e.encoding, map |-> t.e.map, opcode |-> t.e.opcode,
     rexW |-> IF t.e.def.osz # Force64 /\ t.eosz = 64 THEN t.e.def.osz # Default64 ELSE t.e.rexW,
     mod |-> t.e.modrm \div 64, reg |-> Bits(t.e.modrm, 5, 3), rm |-> t.e.modrm % 8,
     length |-> VectorLengthField(t),
     zeroing |-> t.e.encoding = "EVEX" /\ t.e.def.maskOverride # "ZEROING" /\ t.q.avx.zeroing,
     sss |-> SssField(t), eviction |-> EvictionField(t), vvvv |-> 0, mask |-> 0,
     base |-> 0, index |-> 0, scale |-> 0, dispSize |-> 0, disp |-> Zero, immSize |-> 0, imm |-> Zero]

-----------------------------------------------------------------------------
(* The fields that the operands fill *)

With(n, attribute) == [n EXCEPT !.attributes = @ \cup {attribute}]

(* SPL to DIL have the numbers of AH to BH, and a REX that tells them apart. *)
RegisterNumber(r) == IF r.class = "GPR8" /\ r.id >= 8 THEN r.id - 4 ELSE r.id
NeedsRex(r) == r.class = "GPR8" /\ r.id \in 8 .. 11

ZydisBuildRegisterOperand(n, r, o) ==
    LET id == RegisterNumber(r)
        m  == IF NeedsRex(r) THEN With(n, "REX") ELSE n
    IN  CASE o.type = "IMPLICIT_REG" -> n
          [] o.encoding = "MODRM_REG" -> [With(m, "MODRM") EXCEPT !.reg = id]
          [] o.encoding = "MODRM_RM" -> [With(m, "MODRM") EXCEPT !.rm = id]
          [] o.encoding = "OPCODE" -> [m EXCEPT !.opcode = @ + (id % 8), !.rm = id]
          [] o.encoding = "NDSNDD" -> [m EXCEPT !.vvvv = id]
          [] o.encoding = "IS4" -> [m EXCEPT !.immSize = 8, !.imm = FromSmall(16 * id)]
          [] o.encoding = "MASK" -> [m EXCEPT !.mask = id]

(* RBP and R13 as a base need a displacement, of 0 if there is none. *)
Based(n, base) ==
    IF n.dispSize = 0 /\ base.class # "INVALID" /\ base.id \in {5, 13}
    THEN [n EXCEPT !.dispSize = 8, !.disp = Zero, !.mod = 1] ELSE n

ScaleBits(scale) == CASE scale \in {0, 1} -> 0 [] scale = 2 -> 1 [] scale = 4 -> 2 [] scale = 8 -> 3

(* SIB is taken where there is an index, where the number of the base means SIB in *)
(* ModRM, and where the form asks for it.                                          *)
ZydisBuildMemoryOperand(n, t, m) ==
    LET start  == [With(n, "MODRM") EXCEPT !.disp = m.disp]
        sized  == [start EXCEPT
                      !.dispSize = IF t.dispSize = 16 THEN 32 ELSE t.dispSize,
                      !.mod = CASE t.dispSize = 0 -> @ [] t.dispSize = 8 -> 1 [] t.dispSize \in {16, 32} -> 2]
        based  == Based(sized, m.base)
    IN  CASE Unnamed(m.index) /\ Unnamed(m.base) ->
               [With(start, "SIB") EXCEPT !.rm = 4, !.base = 5, !.index = 4, !.dispSize = 32]
          [] Unnamed(m.index) /\ m.base \in InstructionPointers -> [start EXCEPT !.rm = 5, !.dispSize = 32]
          [] Unnamed(m.index) /\ m.base.class \in GprClasses /\ m.base.id \notin {4, 12} /\ t.e.modrm % 8 # 4 ->
               [based EXCEPT !.rm = m.base.id]
          [] OTHER ->
               [With(based, "SIB") EXCEPT
                   !.rm = 4,
                   !.base = IF Unnamed(m.base) THEN 5 ELSE m.base.id,
                   !.mod = IF Unnamed(m.base) THEN 0 ELSE @,
                   !.dispSize = IF Unnamed(m.base) THEN 32 ELSE @,
                   !.index = IF Unnamed(m.index) THEN 4 ELSE m.index.id,
                   !.scale = ScaleBits(m.scale)]

(* An 8 bit displacement is written in the units of the form. *)
BuildMemory(n, t, m, o) ==
    IF o.type = "MOFFS" THEN [n EXCEPT !.dispSize = t.dispSize, !.disp = m.disp]
    ELSE LET built == ZydisBuildMemoryOperand(n, t, m) IN
         IF built.dispSize = 8 THEN [built EXCEPT !.disp = ShiftRight(@, t.cd8)] ELSE built

(* Of two immediates the first one moves to the place of the displacement; the half *)
(* byte beside a register shares its byte.                                          *)
BuildImmediate(n, t, imm, o) ==
    CASE o.type = "IMPLICIT_IMM1" -> n
      [] o.type # "IMPLICIT_IMM1" /\ o.encoding = "IS4" -> [n EXCEPT !.imm[1] = @ + imm[1]]
      [] OTHER -> [n EXCEPT !.dispSize = IF n.immSize # 0 THEN t.dispSize ELSE @,
                            !.disp = IF n.immSize # 0 THEN n.imm ELSE @,
                            !.immSize = t.immSize, !.imm = imm]

BuildOperand(n, t, i) ==
    LET u == t.q.ops[i]
        o == t.e.def.ops[i]
    IN  CASE u.type = "REGISTER" -> ZydisBuildRegisterOperand(n, u.reg, o)
          [] u.type = "MEMORY" -> BuildMemory(n, t, u.mem, o)
          [] u.type = "IMMEDIATE" -> BuildImmediate(n, t, u.imm, o)

ZydisBuildInstruction(t) ==
    FoldLeft(LAMBDA n, i : BuildOperand(n, t, i), FromForm(t), [i \in DOMAIN t.q.ops |-> i])

-----------------------------------------------------------------------------
(* Bytes *)

(* Prefixes in the order in which they are written, with what asks for them. *)
PrefixOrder ==
    << <<240, {"LOCK"}>>, <<242, {"REPNE", "BND", "XACQUIRE"}>>, <<243, {"REP", "REPE", "XRELEASE"}>>,
       <<46, {"SEGMENT_CS", "BRANCH_NOT_TAKEN"}>>, <<54, {"SEGMENT_SS"}>>, <<62, {"SEGMENT_DS", "BRANCH_TAKEN"}>>,
       <<38, {"SEGMENT_ES"}>>, <<100, {"SEGMENT_FS"}>>, <<101, {"SEGMENT_GS"}>>, <<62, {"NOTRACK"}>>,
       <<102, {"OPERANDSIZE"}>>, <<103, {"ADDRESSSIZE"}>> >>

(* Mandatory prefixes and the operand size are inside a vector prefix. *)
InsideVectorPrefix == {242, 243, 102}

ZydisEmitLegacyPrefixes(n) ==
    LET Written(p) == /\ p[2] \cap n.attributes # {}
                      /\ n.encoding \in VectorEncodings => p[1] \notin InsideVectorPrefix
        written    == SelectSeq(PrefixOrder, Written)
    IN  [k \in DOMAIN written |-> written[k][1]]

(* The fourth bits of the numbers, and a fifth one for vectors. *)
WithSib(n) == {"MODRM", "SIB"} \subseteq n.attributes
WithModrm(n) == "MODRM" \in n.attributes
BitB(n) == Bit(IF WithSib(n) THEN n.base ELSE n.rm, 3)
BitX(n) == IF WithSib(n) THEN Bit(n.index, 3) ELSE IF WithModrm(n) THEN Bit(n.rm, 4) ELSE 0
BitR(n) == IF WithModrm(n) THEN Bit(n.reg, 3) ELSE 0
BitW(n) == IF n.rexW THEN 1 ELSE 0
HighR(n) == IF WithModrm(n) THEN Bit(n.reg, 4) ELSE 0
ZydisEncodeRexLowNibble(n) == (8 * BitW(n)) + (4 * BitR(n)) + (2 * BitX(n)) + BitB(n)

ZydisEmitRex(n) ==
    IF ZydisEncodeRexLowNibble(n) # 0 \/ "REX" \in n.attributes THEN <<64 + ZydisEncodeRexLowNibble(n)>> ELSE <<>>

(* The fields that all vector prefixes share; they are written inverted. *)
MapField(n) == IF n.encoding = "XOP" THEN n.map - 1 ELSE n.map
PpField(n) ==
    CASE "OPERANDSIZE" \in n.attributes -> 1
      [] "OPERANDSIZE" \notin n.attributes /\ "REP" \in n.attributes -> 2
      [] n.attributes \cap {"OPERANDSIZE", "REP"} = {} -> IF "REPNE" \in n.attributes THEN 3 ELSE 0
InvertedRXB(n) == (128 * (1 - BitR(n))) + (64 * (1 - BitX(n))) + (32 * (1 - BitB(n)))
InvertedVvvv(n) == 8 * (15 - (n.vvvv % 16))

ThreeByteTail(n) ==
    <<InvertedRXB(n) + MapField(n), (128 * BitW(n)) + InvertedVvvv(n) + (4 * n.length) + PpField(n)>>
ZydisEmitXop(n) == <<143>> \o ThreeByteTail(n)

(* Two bytes do where only R is needed. *)
ZydisEmitVex(n) ==
    IF MapField(n) # 1 \/ BitW(n) + BitX(n) + BitB(n) # 0 THEN <<196>> \o ThreeByteTail(n)
    ELSE <<197, (128 * (1 - BitR(n))) + InvertedVvvv(n) + (4 * n.length) + PpField(n)>>

(* EVEX and MVEX: the fifth bit of vvvv is shared with the one of the index. *)
EmvexHead(n, marker) ==
    <<98, InvertedRXB(n) + (16 * (1 - HighR(n))) + MapField(n),
      (128 * BitW(n)) + InvertedVvvv(n) + marker + PpField(n)>>
SharedV(n) == IF Bit(n.vvvv, 4) + Bit(n.index, 4) = 0 THEN 8 ELSE 0
ZydisEmitEvex(n) ==
    Append(EmvexHead(n, 4), (IF n.zeroing THEN 128 ELSE 0) + (32 * n.length) +
                            (IF "EVEX_B" \in n.attributes THEN 16 ELSE 0) + SharedV(n) + n.mask)
ZydisEmitMvex(n) ==
    Append(EmvexHead(n, 0), (IF n.eviction THEN 128 ELSE 0) + (16 * n.sss) + SharedV(n) + n.mask)

VectorPrefixOf(n) ==
    CASE n.encoding \in {"LEGACY", "3DNOW"} -> ZydisEmitRex(n)
      [] n.encoding = "XOP" -> ZydisEmitXop(n)
      [] n.encoding = "VEX" -> ZydisEmitVex(n)
      [] n.encoding = "EVEX" -> ZydisEmitEvex(n)
      [] n.encoding = "MVEX" -> ZydisEmitMvex(n)

Escapes(n) ==
    IF n.encoding \in VectorEncodings THEN <<>>
    ELSE CASE n.map = 0 -> <<>> [] n.map = 1 -> <<15>> [] n.map = 2 -> <<15, 56>> [] n.map = 3 -> <<15, 58>>
           [] n.map = 8 -> <<15, 15>>

(* The opcode of 3DNow! comes last. *)
ZydisEmitInstruction(n) ==
    ZydisEmitLegacyPrefixes(n) \o VectorPrefixOf(n) \o Escapes(n) \o
    (IF n.encoding = "3DNOW" THEN <<>> ELSE <<n.opcode>>) \o
    (IF WithModrm(n) THEN << (64 * n.mod) + (8 * (n.reg % 8)) + (n.rm % 8) >> ELSE <<>>) \o
    (IF "SIB" \in n.attributes THEN << (64 * n.scale) + (8 * (n.index % 8)) + (n.base % 8) >> ELSE <<>>) \o
    LowBytes(n.disp, n.dispSize \div 8) \o LowBytes(n.imm, n.immSize \div 8) \o
    (IF n.encoding = "3DNOW" THEN <<n.opcode>> ELSE <<>>)
=============================================================================
