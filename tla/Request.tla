------------------------------- MODULE Request -------------------------------
(***************************************************************************)
(* ZydisEncoderDecodedInstructionToEncoderRequest and the checks that the  *)
(* encoder makes of a request before it looks for a form.  A decoded       *)
(* instruction comes as i, its definition d, its vector information a, and *)
(* its operands os.                                                        *)
(***************************************************************************)
EXTENDS EncoderMatch

EncodablePrefixes ==
    {"LOCK", "REP", "REPE", "REPNE", "BND", "XACQUIRE", "XRELEASE", "NOTRACK"} \cup BranchHints \cup Segments

(* What the fields of a request may be; a size of 0 is one that is left open. *)
ZydisBroadcastMode ==
    {NoBroadcast} \cup ({1} \X {2, 4, 8, 16, 32, 64}) \cup ({2} \X {4, 8, 16}) \cup ({4} \X {8, 16}) \cup {<<8, 16>>}
ZydisConversionMode == {"INVALID", "FLOAT16", "SINT8", "UINT8", "SINT16", "UINT16"}
ZydisRoundingMode == 0 .. 4
ZydisSwizzleMode == 0 .. 8
ZydisBranchWidth == {0, 8, 16, 32, 64}
ZydisAddressSizeHint == {0, 16, 32, 64}
ZydisOperandSizeHint == {0, 8, 16, 32, 64}

Word == [1 .. 8 -> 0 .. 255]
Register == [class : STRING, id : 0 .. 255]

MaxOperands == 5
ZydisEncoderOperand ==
    [type : {"REGISTER", "MEMORY", "IMMEDIATE"}, reg : Register, is4 : BOOLEAN, imm : Word,
     mem : [base : Register, index : Register, scale : 0 .. 255, disp : Word, size : 0 .. 65535]]

ZydisEncoderRequest ==
    [mnemonic : DOMAIN EncoderTable, allowed : ZydisInstructionEncoding,
     branchType : ZydisBranchType, branchWidth : ZydisBranchWidth,
     prefixes : SUBSET EncodablePrefixes, asz : ZydisAddressSizeHint, osz : ZydisOperandSizeHint,
     ops : Seq(ZydisEncoderOperand),
     avx : [ratio : ZydisBroadcastMode, conversion : ZydisConversionMode, rounding : ZydisRoundingMode,
            swizzle : ZydisSwizzleMode, sae : BOOLEAN, zeroing : BOOLEAN, eviction : BOOLEAN]]

(* A broadcast that is part of the instruction is not asked for. *)
RequestedFeatures(i, a) ==
    IF i.encoding \notin {"EVEX", "MVEX"} THEN NoFeatures
    ELSE [ratio |-> IF a.static THEN NoBroadcast ELSE a.ratio, conversion |-> a.conversion, rounding |-> a.rounding,
          swizzle |-> a.swizzle, sae |-> a.sae, eviction |-> a.eviction,
          zeroing |-> a.maskMode \in {"ZEROING", "CONTROL_ZEROING"} /\ i.vector.z = 1]

RequestedOperand(o, encoding) ==
    [type |-> o.type, reg |-> o.reg, is4 |-> encoding = "IS4" /\ o.type = "REGISTER", imm |-> o.imm.value,
     mem |-> [base |-> o.mem.base, index |-> o.mem.index,
              scale |-> IF o.mem.kind = "MIB" THEN 0 ELSE o.mem.scale,
              disp |-> IF o.mem.hasDisp THEN o.mem.disp ELSE Zero, size |-> o.size \div 8]]

X_RequestedWidth(i, d, os) ==
    CASE d.branch = "NONE" -> 0 [] d.branch = "SHORT" -> 8 [] d.branch \in {"NEAR", "FAR"} -> i.operandWidth

(* The width of a branch is that of its relative operand, if it has one.  The operand *)
(* of xbegin is relative, but xbegin is no branch.                                    *)
RequestedWidth(i, d, os) ==
    IF d.name # "xbegin" /\ \E n \in DOMAIN os : os[n].type = "IMMEDIATE" /\ os[n].imm.relative
    THEN i.imm[1].size
    ELSE CASE d.branch = "NONE" -> 0 [] d.branch = "SHORT" -> 8 [] d.branch \in {"NEAR", "FAR"} -> i.operandWidth

DecodedInstructionToEncoderRequest(i, d, a, os) ==
    [mnemonic |-> d.name, branchType |-> d.branch, branchWidth |-> RequestedWidth(i, d, os),
     prefixes |-> (i.attributes \cap EncodablePrefixes) \ (IF "SEGMENT" \in d.accepts THEN {} ELSE Segments),
     asz |-> i.addressWidth, osz |-> i.operandWidth, allowed |-> i.encoding,
     ops |-> [n \in DOMAIN os |-> RequestedOperand(os[n], d.ops[n].encoding)],
     avx |-> RequestedFeatures(i, a)]

-----------------------------------------------------------------------------
(* A request that contradicts itself is refused.  CS to DS are of no use in 64 bit *)
(* mode and are refused too.                                                       *)

AtMostOneOf(prefixes, group) == Cardinality(prefixes \cap group) <= 1

BranchWidthFits(type, width) ==
    CASE type = "NONE" -> TRUE
      [] type = "SHORT" -> width \in {0, 8}
      [] type \in {"NEAR", "FAR"} -> width # 8

ZydisIsScaleValid(scale) == scale \in {0, 1, 2, 4, 8}

ZydisEncoderCheckRequestSanity(q) ==
    /\ q \in ZydisEncoderRequest /\ Len(q.ops) <= MaxOperands
    /\ q.prefixes \cap Segments \subseteq {"SEGMENT_FS", "SEGMENT_GS"}
    /\ AtMostOneOf(q.prefixes, Segments)
    /\ AtMostOneOf(q.prefixes, {"REP", "REPE", "REPNE"})
    /\ AtMostOneOf(q.prefixes, {"XACQUIRE", "XRELEASE"})
    /\ AtMostOneOf(q.prefixes, BranchHints)
    /\ "NOTRACK" \in q.prefixes => q.prefixes \cap Segments = {}
    /\ BranchWidthFits(q.branchType, q.branchWidth)
    /\ q.asz # 16
    /\ \A n \in DOMAIN q.ops : q.ops[n].type = "MEMORY" => ZydisIsScaleValid(q.ops[n].mem.scale)
=============================================================================
