------------------------------ MODULE Decoder ------------------------------
(***************************************************************************)
(* The decoder of Zydis as snippet_decode and create_instruction use it:   *)
(* 64 bit mode, all features built in.  One call decodes one instruction   *)
(* from the front of a buffer.  The module is the physical decoding        *)
(* (ZydisDecoderDecodeInstruction): prefixes, the walk through the tree of *)
(* filters, the optional parts, and the checks of the register numbers.    *)
(*                                                                         *)
(* The tree of filters and the definitions at its leaves are generated     *)
(* tables of Zydis; they are the constants Tree and Root.  Bytes are       *)
(* numbers; displacements and immediates stay sequences of bytes, least    *)
(* significant first, since the decoder does not compute with them.        *)
(***************************************************************************)
EXTENDS Word64, FiniteSets, TLC

CONSTANTS
    Buffers,        \* the byte sequences a caller may hand over
    MaxLength,      \* ZYDIS_MAX_INSTRUCTION_LENGTH
    Tree,           \* name -> [type, kids] with the names of the kids, or [type |-> "DEFINITION", def]
    Root            \* the name of the root of the tree, an opcode filter

Byte == 0 .. 255

ASSUME BuffersAssumption == Buffers \subseteq Seq(Byte)
ASSUME MaxLengthAssumption == MaxLength \in Nat \ {0}

(* A node of the tree has kids in the tree, or is a definition.  Displacements and  *)
(* immediates have a size for each of three widths.                                 *)
BySize == [1 .. 3 -> Nat]

ASSUME TreeAssumption ==
    /\ Root \in DOMAIN Tree /\ Tree[Root].type = "OPCODE"
    /\ \A x \in DOMAIN Tree :
          IF Tree[x].type = "DEFINITION"
          THEN LET d == Tree[x].def IN
               /\ d.osz \in 0 .. 7
               /\ d.disp # <<>> => d.disp \in BySize
               /\ d.imm \in Seq([size : BySize, signed : BOOLEAN, relative : BOOLEAN]) /\ Len(d.imm) <= 2
          ELSE Tree[x].type \notin {"INVALID", "NONE"} /\ \A i \in DOMAIN Tree[x].kids : Tree[x].kids[i] \in DOMAIN Tree

VARIABLES
    buffer,     \* the bytes given to this call
    pc,         \* what the decoder does next, or "decoded" or "failed"
    ins,        \* ZydisDecodedInstruction: the raw part
    pfx,        \* ZydisDecoderState.prefixes, and the candidate for REX
    vu,         \* ZydisDecoderContext.vector_unified
    reg,        \* ZydisDecoderContext.reg_info
    node,       \* the current node of the tree
    temp,       \* the node to return to when a mandatory prefix leads nowhere
    status      \* the status returned

vars == <<buffer, pc, ins, pfx, vu, reg, node, temp, status>>

(* A node that leads nowhere, and none at all. *)
InvalidNode == [type |-> "INVALID"]
None == [type |-> "NONE"]

-----------------------------------------------------------------------------
(* The input.  Peeking, skipping and reading n bytes share one guard: first the *)
(* limit on the length, then the end of the buffer.                             *)

X_InputStatus(n) == IF ins.length + n > Len(buffer) THEN "NO_MORE_DATA" ELSE "SUCCESS"

InputStatus(n) ==
    IF ins.length + n > MaxLength THEN "INSTRUCTION_TOO_LONG"
    ELSE IF ins.length + n > Len(buffer) THEN "NO_MORE_DATA"
    ELSE "SUCCESS"

(* The byte at distance d from the position of the decoder. *)
Ahead(d) == buffer[ins.length + d + 1]

(* The n bytes that come next. *)
NextBytes(n) == SubSeq(buffer, ins.length + 1, ins.length + n)

Fail(s) ==
    /\ pc' = "failed"
    /\ status' = s
    /\ UNCHANGED <<buffer, ins, pfx, vu, reg, node, temp>>

-----------------------------------------------------------------------------
(* A call of ZydisDecoderDecodeInstruction clears all that it works on. *)

EmptyInstruction ==
    [length |-> 0, attributes |-> {}, prefixes |-> <<>>, rexOffset |-> 0,
     encoding |-> "LEGACY", map |-> 0, opcode |-> 0,
     vector |-> [offset |-> 0, size |-> 0, map |-> 0, pp |-> 0, b |-> 0, z |-> 0, E |-> 0, SSS |-> 0],
     modrm |-> [offset |-> 0, mod |-> 0, reg |-> 0, rm |-> 0],
     sib |-> [offset |-> 0, scale |-> 0, index |-> 0, base |-> 0],
     disp |-> [offset |-> 0, size |-> 0, value |-> <<>>],
     imm |-> <<>>, operandWidth |-> 0, addressWidth |-> 0]

NoPrefixes ==
    [lock |-> FALSE, group1 |-> 0, group2 |-> 0, segment |-> 0, mandatory |-> 0, rex |-> 0,
     at |-> [lock |-> 0, group1 |-> 0, group2 |-> 0, osz |-> 0, asz |-> 0, segment |-> 0,
             mandatory |-> 0, notrack |-> -1]]

NoVector ==
    [W |-> 0, R |-> 0, X |-> 0, B |-> 0, LL |-> 0, R2 |-> 0, V2 |-> 0, vvvv |-> 0, mask |-> 0]

NoRegisters ==
    [isReg |-> FALSE, reg |-> 0, rm |-> 0, ndsndd |-> 0, base |-> 0, index |-> 0]

(* No bytes at all are refused before anything else. *)
StartOf(b) ==
    IF b = <<>> THEN [pc |-> "failed", status |-> "NO_MORE_DATA"] ELSE [pc |-> "prefixes", status |-> "SUCCESS"]

Start(b) ==
    /\ buffer = b
    /\ pc = StartOf(b).pc /\ status = StartOf(b).status
    /\ ins = EmptyInstruction /\ pfx = NoPrefixes /\ vu = NoVector /\ reg = NoRegisters
    /\ node = Tree[Root] /\ temp = None

Init == \E b \in Buffers : Start(b)

-----------------------------------------------------------------------------
(* Prefixes *)

LOCK == 240
REPNE == 242
REPE == 243
DS == 62
OSZ == 102
ASZ == 103
DeadSegments == {46, 54, 62, 38}        \* CS, SS, DS, ES: without effect in 64 bit mode
LiveSegments == {100, 101}              \* FS, GS
RexBytes == 64 .. 79
PrefixBytes == {LOCK, REPNE, REPE, OSZ, ASZ} \cup DeadSegments \cup LiveSegments \cup RexBytes

(* A REX is forgotten when another prefix follows. *)
RexCandidate(p, b) == IF b \in RexBytes THEN b ELSE 0

(* The bookkeeping for prefix byte b at the given offset.  The last prefix of a *)
(* group counts.  REP prefixes have precedence over 66 as mandatory prefix.     *)
NotePrefix(p, b, offset) ==
    LET q == [p EXCEPT !.rex = RexCandidate(p, b)] IN
    CASE b = LOCK -> [q EXCEPT !.lock = TRUE, !.at.lock = offset]
      [] b \in {REPNE, REPE} ->
            [q EXCEPT !.group1 = b, !.mandatory = b, !.at.group1 = offset, !.at.mandatory = offset]
      [] b \in DeadSegments ->
            [q EXCEPT !.group2 = b, !.at.group2 = offset,
                      !.at.notrack = IF b = DS /\ p.segment \notin LiveSegments THEN offset ELSE @]
      [] b \in LiveSegments ->
            [q EXCEPT !.group2 = b, !.segment = b, !.at.group2 = offset,
                      !.at.segment = offset, !.at.notrack = -1]
      [] b = OSZ ->
            [q EXCEPT !.at.osz = offset, !.mandatory = IF @ = 0 THEN OSZ ELSE @,
                      !.at.mandatory = IF p.mandatory = 0 THEN offset ELSE @]
      [] b = ASZ -> [q EXCEPT !.at.asz = offset]
      [] OTHER -> q

CollectPrefix ==
    /\ pc = "prefixes"
    /\ InputStatus(1) = "SUCCESS"
    /\ Ahead(0) \in PrefixBytes
    /\ LET b == Ahead(0)
           offset == ins.length
       IN  /\ pfx' = NotePrefix(pfx, b, offset)
           /\ ins' = [ins EXCEPT !.length = @ + 1,
                                 !.prefixes = Append(@, [value |-> b, type |-> "IGNORED"]),
                                 !.rexOffset = IF b \in RexBytes THEN offset ELSE 0,
                                 !.attributes = @ \cup
                                     (IF b = OSZ THEN {"OPERANDSIZE"} ELSE {}) \cup
                                     (IF b = ASZ THEN {"ADDRESSSIZE"} ELSE {})]
    /\ UNCHANGED <<buffer, pc, vu, reg, node, temp, status>>

(* The types of the prefixes that are effective whatever the instruction is. *)
MarkEffective(i) ==
    LET marked == (IF "OPERANDSIZE" \in i.attributes THEN {pfx.at.osz} ELSE {}) \cup
                  (IF "ADDRESSSIZE" \in i.attributes THEN {pfx.at.asz} ELSE {}) \cup
                  (IF pfx.rex # 0 THEN {i.rexOffset} ELSE {})
    IN  [k \in 1 .. Len(i.prefixes) |->
            IF k - 1 \in marked THEN [i.prefixes[k] EXCEPT !.type = "EFFECTIVE"] ELSE i.prefixes[k]]

(* The four bits of a REX *)
ZydisDecodeREX(v, data) ==
    [v EXCEPT !.W = Bit(data, 3), !.R = Bit(data, 2), !.X = Bit(data, 1), !.B = Bit(data, 0)]

PrefixesCollected ==
    /\ pc = "prefixes"
    /\ InputStatus(1) = "SUCCESS"
    /\ Ahead(0) \notin PrefixBytes
    /\ ins' = [ins EXCEPT !.prefixes = MarkEffective(ins),
                          !.attributes = @ \cup (IF pfx.rex # 0 THEN {"REX"} ELSE {})]
    /\ vu' = IF pfx.rex = 0 THEN vu ELSE ZydisDecodeREX(vu, pfx.rex)
    /\ pc' = "tree"
    /\ UNCHANGED <<buffer, pfx, reg, node, temp, status>>

PrefixesEndEarly ==
    /\ pc = "prefixes"
    /\ InputStatus(1) # "SUCCESS"
    /\ Fail(InputStatus(1))

CollectOptionalPrefixes == CollectPrefix \/ PrefixesCollected \/ PrefixesEndEarly

-----------------------------------------------------------------------------
(* The vector prefixes.  Each operator returns the status, the fields that the   *)
(* tree asks for, and the unified fields: stored inverted in the prefix, they are *)
(* turned over here.                                                              *)

Inv(b, n) == 1 - Bit(b, n)

VectorField(size, map, pp, b, z, E, SSS) ==
    [offset |-> ins.length, size |-> size, map |-> map, pp |-> pp, b |-> b, z |-> z, E |-> E, SSS |-> SSS]

DecodeVEX3(b1, b2) ==
    [status |-> IF Bits(b1, 4, 0) > 3 THEN "INVALID_MAP" ELSE "SUCCESS",
     vector |-> VectorField(3, Bits(b1, 4, 0), Bits(b2, 1, 0), 0, 0, 0, 0),
     vu |-> [NoVector EXCEPT !.W = Bit(b2, 7), !.R = Inv(b1, 7), !.X = Inv(b1, 6), !.B = Inv(b1, 5),
                             !.LL = Bit(b2, 2), !.vvvv = 15 - Bits(b2, 6, 3)]]

DecodeVEX2(b1) ==
    [status |-> "SUCCESS",
     vector |-> VectorField(2, 1, Bits(b1, 1, 0), 0, 0, 0, 0),
     vu |-> [NoVector EXCEPT !.R = Inv(b1, 7), !.LL = Bit(b1, 2), !.vvvv = 15 - Bits(b1, 6, 3)]]

DecodeXOP(b1, b2) ==
    [status |-> IF Bits(b1, 4, 0) \notin 8 .. 10 THEN "INVALID_MAP" ELSE "SUCCESS",
     vector |-> VectorField(3, Bits(b1, 4, 0), Bits(b2, 1, 0), 0, 0, 0, 0),
     vu |-> [NoVector EXCEPT !.W = Bit(b2, 7), !.R = Inv(b1, 7), !.X = Inv(b1, 6), !.B = Inv(b1, 5),
                             !.LL = Bit(b2, 2), !.vvvv = 15 - Bits(b2, 6, 3)]]

DecodeEVEX(b1, b2, b3) ==
    [status |-> IF Bit(b1, 3) = 1 THEN "MALFORMED_EVEX"
                ELSE IF Bits(b1, 2, 0) \in {0, 4, 7} THEN "INVALID_MAP"
                ELSE IF Bit(b3, 7) = 1 /\ Bits(b3, 2, 0) = 0 THEN "INVALID_MASK"
                ELSE IF Bit(b3, 4) = 0 /\ Bits(b3, 6, 5) = 3 THEN "MALFORMED_EVEX"
                ELSE "SUCCESS",
     vector |-> VectorField(4, Bits(b1, 2, 0), Bits(b2, 1, 0), Bit(b3, 4), Bit(b3, 7), 0, 0),
     vu |-> [W |-> Bit(b2, 7), R |-> Inv(b1, 7), X |-> Inv(b1, 6), B |-> Inv(b1, 5),
             LL |-> Bits(b3, 6, 5), R2 |-> Inv(b1, 4), V2 |-> Inv(b3, 3),
             vvvv |-> 15 - Bits(b2, 6, 3), mask |-> Bits(b3, 2, 0)]]

DecodeMVEX(b1, b2, b3) ==
    [status |-> IF Bits(b1, 3, 0) > 3 THEN "INVALID_MAP" ELSE "SUCCESS",
     vector |-> VectorField(4, Bits(b1, 3, 0), Bits(b2, 1, 0), 0, 0, Bit(b3, 7), Bits(b3, 6, 4)),
     vu |-> [W |-> Bit(b2, 7), R |-> Inv(b1, 7), X |-> Inv(b1, 6), B |-> Inv(b1, 5),
             LL |-> 2, R2 |-> Inv(b1, 4), V2 |-> Inv(b3, 3),
             vvvv |-> 15 - Bits(b2, 6, 3), mask |-> Bits(b3, 2, 0)]]

-----------------------------------------------------------------------------
(* The walk through the tree *)

Type == node.type
Child(n, i) == IF n.type # "INVALID" /\ i \in DOMAIN n.kids THEN Tree[n.kids[i]] ELSE InvalidNode

Goto(i) == node' = Child(node, i)

(* The tree asks for an opcode byte at its root, after 0F, after 0F 0F, 0F 38 and 0F 3A, *)
(* and after the vector prefixes, and nowhere else; below the first byte of a vector     *)
(* prefix is the filter for it, which leads to such a node unless the byte was an opcode. *)
Map1 == Child(Tree[Root], 15)

FilterOf == [op \in {98, 143, 196, 197} |-> CASE op = 98 -> "EMVEX" [] op = 143 -> "XOP" [] OTHER -> "VEX"]
VectorTypes == {"XOP", "VEX", "EMVEX"}

ASSUME OpcodeAssumption ==
    \A x \in DOMAIN Tree : Tree[x].type # "DEFINITION" =>
        \A i \in DOMAIN Tree[x].kids :
            LET kid == Child(Tree[x], i) IN
            /\ kid.type = "OPCODE" <=> \/ Tree[x] = Tree[Root] /\ i = 15
                                       \/ Tree[x] = Map1 /\ i \in {15, 56, 58}
                                       \/ Tree[x].type \in VectorTypes /\ i # 0
            /\ \A t \in VectorTypes :
                  kid.type = t <=> Tree[x] = Tree[Root] /\ i \in DOMAIN FilterOf /\ FilterOf[i] = t
            /\ kid # Tree[Root]
            /\ kid = Map1 => Tree[x] = Tree[Root]

(* An opcode filter.  It may meet the first byte of a vector prefix, and a vector *)
(* prefix does not go with REX, LOCK, 66, F2 or F3.                               *)
VectorBytes == [op \in {98, 143, 196, 197} |-> CASE op = 98 -> 4 [] op = 197 -> 2 [] OTHER -> 3]

IsEscape(op) ==
    /\ ins.encoding = "LEGACY" /\ ins.map = 0
    /\ op \in DOMAIN VectorBytes
    /\ op = 143 /\ InputStatus(2) = "SUCCESS" => Ahead(1) % 32 >= 8

DecodeVectorPrefix(op) ==
    CASE op = 196 -> DecodeVEX3(Ahead(1), Ahead(2))
      [] op = 197 -> DecodeVEX2(Ahead(1))
      [] op = 143 -> DecodeXOP(Ahead(1), Ahead(2))
      [] op = 98 /\ Bit(Ahead(2), 2) = 1 -> DecodeEVEX(Ahead(1), Ahead(2), Ahead(3))
      [] op = 98 /\ Bit(Ahead(2), 2) = 0 -> DecodeMVEX(Ahead(1), Ahead(2), Ahead(3))

EscapeEncoding(op) ==
    CASE op = 143 -> "XOP"
      [] op = 98 -> IF Bit(Ahead(2), 2) = 1 THEN "EVEX" ELSE "MVEX"
      [] OTHER -> "VEX"

EscapeStatus(op) ==
    IF InputStatus(2) # "SUCCESS" THEN InputStatus(2)
    ELSE IF "REX" \in ins.attributes THEN "ILLEGAL_REX"
    ELSE IF pfx.lock THEN "ILLEGAL_LOCK"
    ELSE IF pfx.mandatory # 0 THEN "ILLEGAL_LEGACY_PFX"
    ELSE IF InputStatus(VectorBytes[op]) # "SUCCESS" THEN InputStatus(VectorBytes[op])
    ELSE DecodeVectorPrefix(op).status

OpcodeStatus ==
    IF ins.encoding = "3DNOW" THEN "SUCCESS"
    ELSE IF InputStatus(1) # "SUCCESS" THEN InputStatus(1)
    ELSE IF IsEscape(Ahead(0)) THEN EscapeStatus(Ahead(0))
    ELSE IF ins.encoding = "LEGACY" /\ ins.map = 1 /\ Ahead(0) = 15 /\ pfx.lock THEN "ILLEGAL_LOCK"
    ELSE "SUCCESS"

VectorOpcode ==
    LET op == Ahead(0)
        v  == DecodeVectorPrefix(op)
    IN  /\ ins.encoding = "LEGACY" /\ IsEscape(op)
        /\ ins' = [ins EXCEPT !.length = @ + VectorBytes[op], !.opcode = op, !.vector = v.vector,
                              !.encoding = EscapeEncoding(op), !.attributes = @ \cup {EscapeEncoding(op)},
                              !.map = IF op = 143 THEN v.vector.map + 1 ELSE v.vector.map]
        /\ vu' = v.vu

(* The escape bytes 0F, 0F 38 and 0F 3A change the opcode map; 0F 0F is 3DNow!,   *)
(* whose opcode comes last.                                                      *)
LegacyOpcode ==
    LET op == Ahead(0) IN
    /\ ins.encoding = "LEGACY" /\ ~IsEscape(op)
    /\ ins' = [ins EXCEPT !.length = @ + 1, !.opcode = op,
                          !.map = CASE @ = 0 /\ op = 15 -> 1
                                    [] @ = 1 /\ op = 15 -> 8
                                    [] @ = 1 /\ op = 56 -> 2
                                    [] @ = 1 /\ op = 58 -> 3
                                    [] OTHER -> @,
                          !.encoding = IF ins.map = 1 /\ op = 15 THEN "3DNOW" ELSE @]
    /\ UNCHANGED vu

OpcodeAfterPrefix ==
    /\ ins.encoding \notin {"LEGACY", "3DNOW"}
    /\ ins' = [ins EXCEPT !.length = @ + 1, !.opcode = Ahead(0)]
    /\ UNCHANGED vu

PlaceholderOpcode == ins.encoding = "3DNOW" /\ UNCHANGED <<ins, vu>>

NodeHandlerOpcode ==
    /\ pc = "tree" /\ Type = "OPCODE"
    /\ \/ OpcodeStatus # "SUCCESS" /\ Fail(OpcodeStatus)
       \/ /\ OpcodeStatus = "SUCCESS"
          /\ VectorOpcode \/ LegacyOpcode \/ OpcodeAfterPrefix \/ PlaceholderOpcode
          /\ Goto(IF ins.encoding = "3DNOW" THEN 12 ELSE Ahead(0))
          /\ UNCHANGED <<buffer, pc, pfx, reg, temp, status>>

X_DecodeModRM(i) ==
    [i EXCEPT !.length = @ + 1,
              !.modrm = [offset |-> ins.length + 1, mod |-> Bits(Ahead(0), 7, 6),
                         reg |-> Bits(Ahead(0), 5, 3), rm |-> Bits(Ahead(0), 2, 0)],
              !.attributes = @ \cup {"MODRM"}]

(* The filters on ModRM read the byte if no filter did before. *)
DecodeModRM(i) ==
    [i EXCEPT !.length = @ + 1,
              !.modrm = [offset |-> ins.length, mod |-> Bits(Ahead(0), 7, 6),
                         reg |-> Bits(Ahead(0), 5, 3), rm |-> Bits(Ahead(0), 2, 0)],
              !.attributes = @ \cup {"MODRM"}]

ModrmTypes == {"MODRM_MOD", "MODRM_MOD_COMPACT", "MODRM_REG", "MODRM_RM"}

ModrmIndex(m) ==
    CASE Type = "MODRM_MOD" -> m.mod
      [] Type = "MODRM_MOD_COMPACT" -> IF m.mod = 3 THEN 0 ELSE 1
      [] Type = "MODRM_REG" -> m.reg
      [] Type = "MODRM_RM" -> m.rm

NodeHandlerModrm ==
    /\ pc = "tree" /\ Type \in ModrmTypes
    /\ IF ins.modrm.offset = 0 /\ InputStatus(1) # "SUCCESS"
       THEN Fail(InputStatus(1))
       ELSE /\ ins' = IF ins.modrm.offset = 0 THEN DecodeModRM(ins) ELSE ins
            /\ Goto(ModrmIndex(ins'.modrm))
            /\ UNCHANGED <<buffer, pc, pfx, vu, reg, temp, status>>

(* The filters that only look. *)
DefaultModes == {"MODE_MPX", "MODE_CET", "MODE_LZCNT", "MODE_TZCNT", "MODE_CLDEMOTE", "MODE_IPREFETCH"}
OtherModes == {"MODE_AMD", "MODE_KNC", "MODE_WBNOINVD", "MODE_UD0_COMPAT"}

Flag(b) == IF b THEN 1 ELSE 0

(* The widths of the machine modes are 16, 32 and 64 bits; the compact filter asks *)
(* for 64 bits only.                                                               *)
NodeHandlerMode == 2
NodeHandlerModeCompact == 0

FilterIndex(t) ==
    CASE t = "XOP" -> IF ins.encoding = "LEGACY" THEN 0 ELSE ins.vector.map - 8 + 3 * ins.vector.pp + 1
      [] t = "VEX" -> IF ins.encoding = "LEGACY" THEN 0 ELSE ins.vector.map + 4 * ins.vector.pp + 1
      [] t = "EMVEX" -> IF ins.encoding = "LEGACY" THEN 0
                          ELSE IF ins.encoding = "EVEX" THEN ins.vector.map + 8 * ins.vector.pp + 1
                          ELSE ins.vector.map + 4 * ins.vector.pp + 33
      [] t = "MODE" -> NodeHandlerMode
      [] t = "MODE_COMPACT" -> NodeHandlerModeCompact
      [] t = "PREFIX_GROUP1" -> Flag(pfx.group1 # 0)
      [] t = "ADDRESS_SIZE" -> IF "ADDRESSSIZE" \in ins.attributes THEN 1 ELSE 2
      [] t = "VECTOR_LENGTH" -> vu.LL
      [] t = "REX_W" -> vu.W
      [] t = "REX_B" -> vu.B
      [] t = "EVEX_B" -> ins.vector.b
      [] t = "MVEX_E" -> ins.vector.E
      [] t \in DefaultModes -> 1
      [] t \in OtherModes -> 0

LookingTypes ==
    {"XOP", "VEX", "EMVEX", "MODE", "MODE_COMPACT", "PREFIX_GROUP1", "ADDRESS_SIZE", "VECTOR_LENGTH",
     "REX_W", "REX_B", "EVEX_B", "MVEX_E"} \cup DefaultModes \cup OtherModes

NodeHandlerLooking ==
    /\ pc = "tree" /\ Type \in LookingTypes
    /\ IF Type = "VECTOR_LENGTH" /\ vu.LL = 3
       THEN Fail("DECODING_ERROR")
       ELSE /\ Goto(FilterIndex(Type))
            /\ UNCHANGED <<buffer, pc, ins, pfx, vu, reg, temp, status>>

SetPrefixType(i, offset, t) == [i EXCEPT !.prefixes[offset + 1].type = t]

NodeHandlerOperandSize ==
    /\ pc = "tree" /\ Type = "OPERAND_SIZE"
    /\ Goto(IF vu.W = 1 THEN 2 ELSE IF "OPERANDSIZE" \in ins.attributes THEN 0 ELSE 1)
    /\ ins' = IF vu.W = 0 /\ "OPERANDSIZE" \in ins.attributes
              THEN SetPrefixType(ins, pfx.at.osz, "EFFECTIVE") ELSE ins
    /\ UNCHANGED <<buffer, pc, pfx, vu, reg, temp, status>>

(* A mandatory prefix filter takes the candidate as part of the opcode, and keeps *)
(* child 0, for instructions without a mandatory prefix, to return to.            *)
NodeHandlerMandatoryPrefix ==
    /\ pc = "tree" /\ Type = "MANDATORY_PREFIX"
    /\ temp' = Child(node, 0)
    /\ Goto(CASE pfx.mandatory = OSZ -> 2 [] pfx.mandatory = REPE -> 3
              [] pfx.mandatory = REPNE -> 4 [] OTHER -> 1)
    /\ ins' = IF pfx.mandatory = 0 THEN ins
              ELSE [SetPrefixType(ins, pfx.at.mandatory, "MANDATORY")
                       EXCEPT !.attributes = IF pfx.mandatory = OSZ THEN @ \ {"OPERANDSIZE"} ELSE @]
    /\ UNCHANGED <<buffer, pc, pfx, vu, reg, status>>

X_DeadEnd ==
    /\ pc = "tree" /\ Type = "INVALID"
    /\ IF temp = None
       THEN Fail("DECODING_ERROR")
       ELSE /\ node' = temp
            /\ ins' = IF pfx.mandatory = 0 THEN ins ELSE SetPrefixType(ins, pfx.at.mandatory, "IGNORED")
            /\ UNCHANGED <<buffer, pc, pfx, vu, reg, temp, status>>

(* A dead end.  The decoder returns to temp, once, and takes back what the     *)
(* mandatory prefix changed.                                                   *)
DeadEnd ==
    /\ pc = "tree" /\ Type = "INVALID"
    /\ IF temp = None
       THEN Fail("DECODING_ERROR")
       ELSE /\ node' = temp
            /\ temp' = None
            /\ ins' = CASE pfx.mandatory = 0 -> ins
                        [] pfx.mandatory \in {REPE, REPNE} ->
                              SetPrefixType(ins, pfx.at.mandatory, "IGNORED")
                        [] pfx.mandatory = OSZ ->
                              [SetPrefixType(ins, pfx.at.mandatory,
                                   IF pfx.at.osz = pfx.at.mandatory THEN "EFFECTIVE" ELSE "IGNORED")
                                  EXCEPT !.attributes = @ \cup {"OPERANDSIZE"}]
            /\ UNCHANGED <<buffer, pc, pfx, vu, reg, status>>

-----------------------------------------------------------------------------
(* A definition is found: the widths, and the optional parts of the instruction *)

Def == node.def

(* Operand width by size map (0 to 7), without and with 66, and with W. *)
OperandWidths ==
    << <<32, 16, 64>>, <<32, 16, 64>>, <<32, 32, 64>>, <<32, 16, 32>>,
       <<64, 16, 64>>, <<64, 64, 64>>, <<32, 32, 64>>, <<64, 64, 64>> >>

SizeColumn(i) == IF vu.W = 1 THEN 3 ELSE IF "OPERANDSIZE" \in i.attributes THEN 2 ELSE 1

OperandWidth(i, d) == OperandWidths[d.osz + 1][SizeColumn(i)]

SetEffectiveOperandWidth(i, d) == IF d.osz = 1 THEN 8 ELSE OperandWidth(i, d)
SetEffectiveAddressWidth(i, d) == IF "ADDRESSSIZE" \in i.attributes /\ d.asz = 0 THEN 32 ELSE 64

(* The sizes of displacements and immediates come by a width of 16, 32 or 64. *)
SizeIndex(width) == (width \div 32) + 1
EoszIndex == SizeIndex(OperandWidth(ins, Def))
EaszIndex == SizeIndex(ins.addressWidth)

FoundDefinition ==
    /\ pc = "tree" /\ Type = "DEFINITION"
    /\ ins' = [ins EXCEPT !.operandWidth = SetEffectiveOperandWidth(ins, Def),
                          !.addressWidth = SetEffectiveAddressWidth(ins, Def)]
    /\ pc' = "modrm"
    /\ UNCHANGED <<buffer, pfx, vu, reg, node, temp, status>>

ReadModrm ==
    /\ pc = "modrm"
    /\ IF Def.modrm /\ ins.modrm.offset = 0 /\ InputStatus(1) # "SUCCESS"
       THEN Fail(InputStatus(1))
       ELSE /\ ins' = IF Def.modrm /\ ins.modrm.offset = 0 THEN DecodeModRM(ins) ELSE ins
            /\ reg' = IF Def.modrm
                      THEN [reg EXCEPT !.isReg = ins'.modrm.mod = 3 \/ Def.forceReg] ELSE reg
            /\ pc' = "sib"
            /\ UNCHANGED <<buffer, pfx, vu, node, temp, status>>

HasMemory == Def.modrm /\ ~Def.forceReg /\ ins.modrm.mod # 3

ZydisDecodeSIB(data) ==
    [offset |-> ins.length, scale |-> Bits(data, 7, 6), index |-> Bits(data, 5, 3), base |-> Bits(data, 2, 0)]

ReadSib ==
    /\ pc = "sib"
    /\ IF HasMemory /\ ins.modrm.rm = 4
       THEN IF InputStatus(1) # "SUCCESS" THEN Fail(InputStatus(1))
            ELSE /\ ins' = [ins EXCEPT !.length = @ + 1,
                               !.sib = ZydisDecodeSIB(Ahead(0)),
                               !.attributes = @ \cup {"SIB"}]
                 /\ pc' = "disp"
                 /\ UNCHANGED <<buffer, pfx, vu, reg, node, temp, status>>
       ELSE /\ pc' = "disp"
            /\ UNCHANGED <<buffer, ins, pfx, vu, reg, node, temp, status>>

(* Without base (rm 5, or base 5 in the SIB, and mod 0) the displacement has 32 *)
(* bits; rm 5 is then relative to the instruction pointer.                      *)
DisplacementSize ==
    CASE ~HasMemory -> 0
      [] ins.modrm.mod = 1 -> 8
      [] ins.modrm.mod = 2 -> 32
      [] ins.modrm.mod = 0 /\ ins.modrm.rm = 5 -> 32
      [] ins.modrm.mod = 0 /\ ins.modrm.rm = 4 /\ ins.sib.base = 5 -> 32
      [] OTHER -> 0

RipRelative == HasMemory /\ ins.modrm.mod = 0 /\ ins.modrm.rm = 5

X_ReadDisplacement ==
    /\ pc = "disp"
    /\ LET size == IF Def.disp # <<>> THEN Def.disp[EaszIndex] ELSE DisplacementSize
           n    == IF InputStatus(size \div 8) = "SUCCESS" THEN size \div 8 ELSE 0
       IN  ins' = [ins EXCEPT !.length = @ + n,
                      !.disp = IF n = 0 THEN @ ELSE [offset |-> ins.length, size |-> size, value |-> NextBytes(n)]]
    /\ pc' = "imm"
    /\ UNCHANGED <<buffer, pfx, vu, reg, node, temp, status>>

(* An instruction has a displacement with ModRM, or one of its own (moffs). *)
ReadDisplacement ==
    /\ pc = "disp"
    /\ LET size == IF Def.disp # <<>> THEN Def.disp[EaszIndex] ELSE DisplacementSize
           n    == size \div 8
       IN  IF InputStatus(n) # "SUCCESS" /\ n > 0
           THEN Fail(InputStatus(n))
           ELSE /\ ins' = [ins EXCEPT !.length = @ + n,
                              !.disp = IF n = 0 THEN @
                                       ELSE [offset |-> ins.length, size |-> size, value |-> NextBytes(n)],
                              !.attributes = @ \cup (IF RipRelative THEN {"RELATIVE"} ELSE {})]
                /\ pc' = "imm"
                /\ UNCHANGED <<buffer, pfx, vu, reg, node, temp, status>>

ReadImmediate ==
    /\ pc = "imm"
    /\ IF Len(ins.imm) = Len(Def.imm)
       THEN pc' = "check" /\ UNCHANGED <<buffer, ins, pfx, vu, reg, node, temp, status>>
       ELSE LET info == Def.imm[Len(ins.imm) + 1]
                size == info.size[EoszIndex]
                n    == size \div 8
            IN  IF InputStatus(n) # "SUCCESS"
                THEN Fail(InputStatus(n))
                ELSE /\ ins' = [ins EXCEPT !.length = @ + n,
                                   !.imm = Append(@, [offset |-> ins.length, size |-> size,
                                                      signed |-> info.signed, relative |-> info.relative,
                                                      value |-> NextBytes(n)]),
                                   !.attributes = @ \cup (IF info.relative THEN {"RELATIVE"} ELSE {})]
                     /\ UNCHANGED <<buffer, pc, pfx, vu, reg, node, temp, status>>

-----------------------------------------------------------------------------
(* Register numbers and the checks on them *)

(* How many bits of a register number count for a kind of register, in ModRM.reg *)
(* and in ModRM.rm, and how many registers of the kind there are.                *)
RegBits(kind) ==
    CASE kind \in {"GPR", "VR", "TMM", "MASK"} -> 5
      [] kind \in {"CONTROL", "DEBUG", "BOUND"} -> 4
      [] kind \in {"X87", "MMX", "SEGMENT", "TEST"} -> 3
      [] kind = "INVALID" -> 0

RmBits(kind) ==
    CASE kind = "VR" -> 5
      [] kind \in {"GPR", "TMM", "CONTROL", "DEBUG", "BOUND"} -> 4
      [] kind \in {"X87", "MMX", "SEGMENT", "TEST", "MASK"} -> 3
      [] kind = "INVALID" -> 0

Available(kind) ==
    CASE kind = "INVALID" -> 255
      [] kind = "VR" -> 32
      [] kind \in {"GPR", "CONTROL"} -> 16
      [] kind \in {"X87", "MMX", "TMM", "TEST", "DEBUG", "MASK"} -> 8
      [] kind = "SEGMENT" -> 6
      [] kind = "BOUND" -> 4

ControlRegisters == {0, 2, 3, 4, 8}

IsEmvex == ins.encoding \in {"EVEX", "MVEX"}
HasSib  == ~reg.isReg /\ ins.modrm.rm = 4
HasVsib == HasSib /\ Def.opRm.mem = "VSIB"

RegisterIds ==
    [isReg  |-> reg.isReg,
     reg    |-> (ins.modrm.reg + 16 * vu.R2 + 8 * vu.R) % 2^RegBits(Def.opReg.kind),
     rm     |-> LET id == ins.modrm.rm + 8 * vu.B + (IF IsEmvex THEN 16 * vu.X ELSE 0)
                IN  IF reg.isReg THEN id % 2^RmBits(Def.opRm.kind) ELSE id,
     ndsndd |-> vu.vvvv + 16 * vu.V2,
     base   |-> (IF HasSib THEN ins.sib.base ELSE ins.modrm.rm) + 8 * vu.B,
     index  |-> ins.sib.index + 8 * vu.X + (IF HasVsib THEN 16 * vu.V2 ELSE 0)]

BadRegisterIds(r) ==
    \/ Def.opNdsndd = "INVALID" /\ vu.vvvv # 0
    \/ Def.opNdsndd = "INVALID" /\ ~HasVsib /\ vu.V2 # 0
    \/ r.reg >= Available(Def.opReg.kind)
    \/ r.ndsndd >= Available(Def.opNdsndd)
    \/ r.isReg /\ r.rm >= Available(Def.opRm.kind)
    \/ Def.opReg.kind = "CONTROL" /\ ~(r.isReg /\ Def.opRm.kind = "CONTROL") /\ r.reg \notin ControlRegisters
    \/ r.isReg /\ Def.opRm.kind = "CONTROL" /\ r.rm \notin ControlRegisters

(* Numbers of registers that the instruction does not have are marked. *)
Unused == -1
PopulateRegisterIds(r) ==
    [r EXCEPT !.reg    = IF Def.opReg.kind = "INVALID" THEN Unused ELSE @,
              !.rm     = IF Def.opRm.kind = "INVALID" \/ ~r.isReg THEN Unused ELSE @,
              !.ndsndd = IF Def.opNdsndd = "INVALID" THEN Unused ELSE @]

(* Destination, index and mask of a gather are three registers.  A gather of EVEX *)
(* or MVEX has its mask in a register of another kind.                            *)
GatherClash(r) ==
    LET dest == IF IsEmvex /\ Def.opReg.kind = "INVALID" THEN 241 ELSE r.reg
        mask == IF ins.encoding = "VEX" THEN r.ndsndd ELSE 240
    IN  dest = r.index \/ dest = mask \/ r.index = mask

(* What the functionality of a MVEX instruction admits for SSS. *)
MvexAdmits(f) ==
    CASE f \in {"IGNORED", "RC", "SAE", "SWIZZLE_32", "SWIZZLE_64"} -> 0 .. 7
      [] f = "SF_32" -> 0 .. 7 \ {5}
      [] f = "SI_32" -> 0 .. 7 \ {3}
      [] f \in {"SF_32_BCST", "SF_64", "SI_32_BCST", "SI_64"} -> {0, 1, 2}
      [] f \in {"SF_32_BCST_4TO16", "SI_32_BCST_4TO16"} -> {0, 2}
      [] f \in {"UF_32", "DF_32"} -> {0, 3, 4, 5, 6, 7}
      [] f \in {"UI_32", "DI_32"} -> {0, 4, 5, 6, 7}
      [] f \in {"INVALID", "F_32", "I_32", "F_64", "I_64", "UF_64", "UI_64", "DF_64", "DI_64"} -> {0}

ErrorCondition ==
    LET r == PopulateRegisterIds(RegisterIds) IN
    IF ins.encoding = "LEGACY" /\ pfx.lock /\ "LOCK" \notin Def.accepts THEN "ILLEGAL_LOCK"
    ELSE IF ins.encoding = "EVEX" /\ ins.vector.z = 1 /\ ~Def.zeroMask THEN "INVALID_MASK"
    ELSE IF ins.encoding = "MVEX" /\ ins.vector.SSS \notin MvexAdmits(Def.functionality) THEN "DECODING_ERROR"
    ELSE IF ~reg.isReg /\ Def.opRm.noRip /\ ins.modrm.mod = 0 /\ ins.modrm.rm = 5 THEN "BAD_REGISTER"
    ELSE IF BadRegisterIds(RegisterIds) THEN "BAD_REGISTER"
    ELSE IF Def.opReg.high /\ r.reg = 1 THEN "BAD_REGISTER"
    ELSE IF reg.isReg /\ Def.opRm.high /\ r.rm = 1 THEN "BAD_REGISTER"
    ELSE IF Def.gather /\ GatherClash(r) THEN "BAD_REGISTER"
    ELSE IF Def.noSourceDest /\ (r.reg = r.ndsndd \/ (reg.isReg /\ r.reg = r.rm)) THEN "BAD_REGISTER"
    ELSE IF Def.noSourceSource /\ Cardinality({r.reg, r.ndsndd, r.rm}) < 3 THEN "BAD_REGISTER"
    ELSE IF Def.maskPolicy = "REQUIRED" /\ vu.mask = 0 THEN "INVALID_MASK"
    ELSE IF Def.maskPolicy = "FORBIDDEN" /\ vu.mask # 0 THEN "INVALID_MASK"
    ELSE "SUCCESS"

CheckErrorConditions ==
    /\ pc = "check"
    /\ IF ErrorCondition # "SUCCESS"
       THEN Fail(ErrorCondition)
       ELSE /\ reg' = PopulateRegisterIds(RegisterIds)
            /\ pc' = IF ins.encoding = "3DNOW" THEN "suffix" ELSE "attributes"
            /\ UNCHANGED <<buffer, ins, pfx, vu, node, temp, status>>

(* The opcode of 3DNow! follows the operands; the definition is looked up again. *)
OpcodeSuffix ==
    /\ pc = "suffix"
    /\ IF InputStatus(1) # "SUCCESS" THEN Fail(InputStatus(1))
       ELSE \E n \in {Child(Child(Child(Tree[Root], 15), 15), Ahead(0))} :
            IF n = InvalidNode THEN Fail("DECODING_ERROR")
            ELSE /\ ins' = [ins EXCEPT !.length = @ + 1, !.opcode = Ahead(0)]
                 /\ node' = Child(n, IF ins.modrm.mod = 3 THEN 0 ELSE 1)
                 /\ pc' = "attributes"
                 /\ UNCHANGED <<buffer, pfx, vu, reg, temp, status>>

-----------------------------------------------------------------------------
(* The attributes.  What a prefix means depends on what the definition accepts; *)
(* a prefix that means something is marked as effective.                        *)

LockUsed == pfx.lock /\ "LOCK" \in Def.accepts
HleAdmitted == LockUsed \/ "HLE_WITHOUT_LOCK" \in Def.accepts

(* The meaning of F2 and F3, by precedence. *)
Group1Meaning ==
    IF pfx.group1 = REPNE
    THEN IF "REPNE" \in Def.accepts THEN {"REPNE"}
         ELSE IF "XACQUIRE" \in Def.accepts /\ HleAdmitted THEN {"XACQUIRE"}
         ELSE {"BND"} \cap Def.accepts
    ELSE IF pfx.group1 = REPE
    THEN IF "REP" \in Def.accepts THEN {"REP"}
         ELSE IF "REPE" \in Def.accepts THEN {"REPE"}
         ELSE IF "XRELEASE" \in Def.accepts /\ HleAdmitted THEN {"XRELEASE"}
         ELSE {}
    ELSE {}

BranchHint ==
    IF "BRANCH_HINTS" \notin Def.accepts THEN {}
    ELSE CASE pfx.group2 = 46 -> {"BRANCH_NOT_TAKEN"} [] pfx.group2 = DS -> {"BRANCH_TAKEN"} [] OTHER -> {}

NoTrack == IF "NOTRACK" \in Def.accepts /\ pfx.at.notrack >= 0 THEN {"NOTRACK"} ELSE {}

Segment ==
    IF "SEGMENT" \notin Def.accepts \/ pfx.segment = 0 THEN {}
    ELSE IF ins.encoding = "LEGACY" /\ ("BRANCH_HINTS" \in Def.accepts \/ NoTrack # {}) THEN {}
    ELSE {IF pfx.segment = 100 THEN "SEGMENT_FS" ELSE "SEGMENT_GS"}

X_PrefixesInUse == IF Segment # {} THEN {pfx.at.segment} ELSE {}

(* The offsets of the prefixes in use.  A mandatory F2 or F3 stays mandatory. *)
PrefixesInUse ==
    (IF Segment # {} THEN {pfx.at.segment} ELSE {}) \cup
    (IF ins.encoding # "LEGACY" THEN {} ELSE
        (IF LockUsed THEN {pfx.at.lock} ELSE {}) \cup
        (IF Group1Meaning # {} /\ ins.prefixes[pfx.at.group1 + 1].type = "IGNORED"
         THEN {pfx.at.group1} ELSE {}) \cup
        (IF BranchHint # {} THEN {pfx.at.group2} ELSE {}) \cup
        (IF NoTrack # {} THEN {pfx.at.notrack} ELSE {}))

SetAttributes ==
    /\ pc = "attributes"
    /\ ins' = [ins EXCEPT
          !.attributes = @ \cup Segment \cup
              (IF ins.encoding = "LEGACY"
               THEN (IF LockUsed THEN {"LOCK"} ELSE {}) \cup Group1Meaning \cup BranchHint \cup NoTrack
               ELSE {}),
          !.prefixes = [k \in DOMAIN @ |->
              IF k - 1 \in PrefixesInUse THEN [@[k] EXCEPT !.type = "EFFECTIVE"] ELSE @[k]]]
    /\ pc' = "decoded"
    /\ UNCHANGED <<buffer, pfx, vu, reg, node, temp, status>>

WalkTree ==
    \/ NodeHandlerOpcode \/ NodeHandlerModrm \/ NodeHandlerLooking \/ NodeHandlerOperandSize
    \/ NodeHandlerMandatoryPrefix \/ DeadEnd \/ FoundDefinition

DecodeOptionalInstructionParts == ReadModrm \/ ReadSib \/ ReadDisplacement \/ ReadImmediate

DecodeStep ==
    \/ CollectOptionalPrefixes \/ WalkTree \/ DecodeOptionalInstructionParts
    \/ CheckErrorConditions \/ OpcodeSuffix \/ SetAttributes

(* The call has returned. *)
Returned == pc \in {"decoded", "failed"}

Spec == Init /\ [][DecodeStep]_vars /\ WF_vars(DecodeStep)
=============================================================================
