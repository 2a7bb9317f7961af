----------------------------- MODULE Definitions -----------------------------
(***************************************************************************)
(* What the generated tables of Zydis may hold: the enumerations and the   *)
(* records of the internal headers.  A size that is not given is 0, a      *)
(* broadcast of n elements to m is the pair of the two.                    *)
(***************************************************************************)
EXTENDS VectorInfo, Register, Sequences

(* The filters of the decoder tree *)
ZydisDecoderTreeNodeType ==
    {"XOP", "VEX", "EMVEX", "OPCODE", "MODE", "MODE_COMPACT", "MODRM_MOD", "MODRM_MOD_COMPACT", "MODRM_REG",
     "MODRM_RM", "PREFIX_GROUP1", "MANDATORY_PREFIX", "OPERAND_SIZE", "ADDRESS_SIZE", "VECTOR_LENGTH", "REX_W",
     "REX_B", "EVEX_B", "MVEX_E", "MODE_AMD", "MODE_KNC", "MODE_MPX", "MODE_CET", "MODE_LZCNT", "MODE_TZCNT",
     "MODE_WBNOINVD", "MODE_CLDEMOTE", "MODE_IPREFETCH", "MODE_UD0_COMPAT"}

-----------------------------------------------------------------------------
(* Operands *)

ZydisSemanticOperandType ==
    {"UNUSED", "IMPLICIT_REG", "IMPLICIT_MEM", "IMPLICIT_IMM1", "GPR8", "GPR16", "GPR32", "GPR64", "GPR16_32_64",
     "GPR32_32_64", "GPR16_32_32", "GPR_ASZ", "FPR", "MMX", "XMM", "YMM", "ZMM", "TMM", "BND", "SREG", "CR", "DR",
     "MASK", "MEM", "MEM_VSIBX", "MEM_VSIBY", "MEM_VSIBZ", "IMM", "REL", "PTR", "AGEN", "MOFFS", "MIB"}

ZydisOperandEncoding ==
    {"NONE", "MODRM_REG", "MODRM_RM", "OPCODE", "NDSNDD", "IS4", "MASK",
     "DISP8", "DISP16", "DISP32", "DISP64", "DISP16_32_64", "DISP32_32_64", "DISP16_32_32",
     "UIMM8", "UIMM16", "UIMM32", "UIMM64", "UIMM16_32_64", "UIMM32_32_64", "UIMM16_32_32",
     "SIMM8", "SIMM16", "SIMM32", "SIMM64", "SIMM16_32_64", "SIMM32_32_64", "SIMM16_32_32",
     "JIMM8", "JIMM16", "JIMM32", "JIMM64", "JIMM16_32_64", "JIMM32_32_64", "JIMM16_32_32"}

ZydisOperandAction == {"READ", "WRITE", "CONDREAD", "CONDWRITE"}
ZydisImplicitRegisterType == {"STATIC", "GPR_OSZ", "GPR_ASZ", "IP_ASZ", "IP_SSZ", "GPR_SSZ", "FLAGS_SSZ"}
ZydisImplicitMemBase == {"AGPR_REG", "AGPR_RM", "AAX", "ADX", "ABX", "ASI", "ADI", "SSP", "SBP"}

Sizes == [1 .. 3 -> Nat]

(* The members of the union hold what their kind of operand needs, or nothing. *)
IsOperandDefinition(o) ==
    /\ o.type \in ZydisSemanticOperandType
    /\ o.encoding \in ZydisOperandEncoding
    /\ o.size \in Sizes
    /\ o.actions \in SUBSET ZydisOperandAction
    /\ o.ignoreSegment \in BOOLEAN
    /\ IF o.type = "IMPLICIT_REG" THEN o.register.how \in ZydisImplicitRegisterType ELSE o.register.how = "NONE"
    /\ o.register.how = "STATIC" => o.register.reg # NoReg
    /\ IF o.type = "IMPLICIT_MEM" THEN o.memory.base \in ZydisImplicitMemBase ELSE o.memory.base = "NONE"

-----------------------------------------------------------------------------
(* Instructions *)

ZydisRegisterKind ==
    {"INVALID", "GPR", "X87", "MMX", "VR", "TMM", "SEGMENT", "TEST", "CONTROL", "DEBUG", "MASK", "BOUND"}
ZydisMemoryOperandType == {"INVALID", "MEM", "AGEN", "MIB", "VSIB"}
ZydisBranchType == {"NONE", "SHORT", "NEAR", "FAR"}

ZydisInternalVectorLength == {0, 128, 256, 512}
ZydisInternalElementSize == {0, 8, 16, 32, 64, 128}
ZydisEVEXFunctionality == {"INVALID", "BC", "RC", "SAE"}
ZydisEVEXTupleType ==
    {"INVALID", "FV", "HV", "FVM", "T1S", "T1F", "T1_4X", "GSCAT", "T2", "T4", "T8", "HVM", "QVM", "OVM", "M128",
     "DUP", "QUARTER"}
ZydisMVEXFunctionality ==
    {"IGNORED", "INVALID", "RC", "SAE", "SWIZZLE_32", "SWIZZLE_64"} \cup Whole \cup Singles \cup Doubles \cup Up32 \cup Up64
ZydisMaskPolicy == {"INVALID", "ALLOWED", "REQUIRED", "FORBIDDEN"}
ZydisMaskOverride == {"DEFAULT", "ZEROING", "CONTROL"}

ZydisVEXStaticBroadcast == {NoBroadcast, <<2, 4>>} \cup ({1} \X {2, 4, 8, 16, 32})
ZydisEVEXStaticBroadcast ==
    {NoBroadcast, <<8, 16>>} \cup ({1} \X {2, 4, 8, 16, 32, 64}) \cup ({2} \X {4, 8, 16}) \cup ({4} \X {8, 16})
ZydisMVEXStaticBroadcast == {NoBroadcast} \cup ({1, 4} \X {8, 16})

(* What a definition says of prefixes that instructions of its kind may have. *)
ZydisAcceptedPrefix ==
    {"LOCK", "REP", "REPE", "REPNE", "BND", "XACQUIRE", "XRELEASE", "NOTRACK", "HLE_WITHOUT_LOCK", "BRANCH_HINTS",
     "SEGMENT"}

(* The part of a definition that all encodings have *)
IsInstructionDefinition(d) ==
    /\ d.name \in STRING
    /\ d.osz \in 0 .. 7 /\ d.asz \in 0 .. 3
    /\ d.opReg.kind \in ZydisRegisterKind /\ d.opReg.high \in BOOLEAN
    /\ d.opRm.kind \in ZydisRegisterKind /\ d.opRm.high \in BOOLEAN
    /\ d.opRm.mem \in ZydisMemoryOperandType /\ d.opRm.noRip \in BOOLEAN
    /\ d.opNdsndd \in ZydisRegisterKind
    /\ d.branch \in ZydisBranchType
    /\ d.accepts \in SUBSET ZydisAcceptedPrefix
    /\ \A n \in DOMAIN d.ops : IsOperandDefinition(d.ops[n])

(* and what the vector encodings add to it *)
IsVectorDefinition(d) ==
    /\ {d.gather, d.noSourceDest, d.noSourceSource, d.zeroMask, d.granular} \subseteq BOOLEAN
    /\ d.length \in ZydisInternalVectorLength
    /\ d.tuple \in ZydisEVEXTupleType
    /\ d.elementSize \in ZydisInternalElementSize
    /\ d.functionality \in ZydisEVEXFunctionality \cup ZydisMVEXFunctionality
    /\ d.maskPolicy \in ZydisMaskPolicy
    /\ d.maskOverride \in ZydisMaskOverride
    /\ d.broadcast \in ZydisVEXStaticBroadcast \cup ZydisEVEXStaticBroadcast \cup ZydisMVEXStaticBroadcast

IsDefinition(d) == IsInstructionDefinition(d) /\ IsVectorDefinition(d)

-----------------------------------------------------------------------------
(* Forms of the encoder *)

ZydisInstructionEncoding == {"LEGACY", "3DNOW", "XOP", "VEX", "EVEX", "MVEX"}
(* The maps of opcodes: default, 0F, 0F38, 0F3A, MAP4 to MAP7, 0F0F, XOP8 to XOPA *)
ZydisOpcodeMap == 0 .. 11
ZydisWidthFlag == {16, 32, 64}
ZydisMandatoryPrefix == {0, 102, 242, 243}
ZydisVectorLength == {0, 128, 256, 512}
ZydisSizeHint == {"NONE", "ASZ", "OSZ"}

IsEncodableInstruction(e) ==
    /\ e.encoding \in ZydisInstructionEncoding
    /\ e.map \in ZydisOpcodeMap /\ e.opcode \in 0 .. 255 /\ e.modrm \in 0 .. 255
    /\ e.prefix \in ZydisMandatoryPrefix /\ e.rexW \in BOOLEAN
    /\ e.length \in ZydisVectorLength
    /\ e.asz \in SUBSET ZydisWidthFlag /\ e.osz \in SUBSET ZydisWidthFlag
    /\ e.hint \in ZydisSizeHint
    /\ e.swappable \in BOOLEAN
=============================================================================
