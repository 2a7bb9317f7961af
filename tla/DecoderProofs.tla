--------------------------- MODULE DecoderProofs ---------------------------
(***************************************************************************)
(* Proofs about Disassembly: for every tree of filters, every limit on the *)
(* length and every blob, the decoder stays in the bytes it was given,     *)
(* every instruction of the listing took at least one of them and says     *)
(* nothing of itself that no prefix byte says, and the parts it notes of   *)
(* an instruction tile it.                                                 *)
(***************************************************************************)
EXTENDS Disassembly, SequenceTheorems, TLAPS

Nodes == {Tree[x] : x \in DOMAIN Tree} \cup {InvalidNode}

Immediate == [offset : Nat, size : Nat, signed : BOOLEAN, relative : BOOLEAN, value : Seq(Byte)]

(* The fields of an instruction that the proofs are about. *)
Fields ==
    {"length", "imm", "addressWidth", "encoding", "prefixes", "attributes", "rexOffset", "map", "vector", "modrm",
     "sib", "disp"}

(* The values of pc between the definition that was found and its last immediate. *)
Parts == {"modrm", "sib", "disp", "imm"}

(* Those at which the node is one of the tree; 3DNow! looks up another one later. *)
Walking == {"prefixes", "tree"} \cup Parts

Consistent ==
    /\ buffer \in Seq(Byte)
    /\ "mandatory" \in DOMAIN pfx /\ pfx.mandatory \in {0, OSZ, REPE, REPNE}
    /\ Fields \subseteq DOMAIN ins
    /\ ins.length \in Nat
    /\ pc \in Walking => node \in Nodes
    /\ temp \in Nodes \cup {None}

(* While the parts of a definition are read, no more immediates than it has. *)
ReadsDefinition ==
    /\ pc \in Parts => node.type = "DEFINITION" /\ ins.addressWidth \in {32, 64}
    /\ ins.imm \in Seq(Immediate)
    /\ pc \in {"prefixes", "tree", "modrm", "sib", "disp"} => ins.imm = <<>>
    /\ pc = "imm" => Len(ins.imm) <= Len(node.def.imm)

(* The walk begins at an opcode filter, which takes a byte from then on. *)
TakesBytes ==
    /\ pc = "prefixes" => node = Tree[Root] /\ temp = None /\ ins.encoding = "LEGACY"
    /\ pc = "tree" => (node = Tree[Root] /\ temp = None /\ ins.encoding = "LEGACY") \/ ins.length > 0
    /\ pc \notin {"prefixes", "tree", "failed"} => ins.length > 0

IInv == Consistent /\ NeverOverruns /\ ReadsDefinition /\ TakesBytes

-----------------------------------------------------------------------------
(* Facts about the operators *)

(* A guard that succeeds leaves room for the bytes it was asked for. *)
LEMMA InputFact ==
    ASSUME NEW n \in Nat, buffer \in Seq(Byte), ins.length \in Nat, InputStatus(n) = "SUCCESS"
    PROVE  ins.length + n <= Len(buffer) /\ ins.length + n <= MaxLength
  BY MaxLengthAssumption DEF InputStatus

(* A step down the tree stays in the tree or leads nowhere. *)
LEMMA ChildFact ==
    ASSUME NEW n \in Nodes, NEW i, n.type # "DEFINITION"
    PROVE  Child(n, i) \in Nodes
  BY TreeAssumption DEF Child, Nodes, InvalidNode

(* A definition has a size for each width that may come up. *)
LEMMA DefinitionFact ==
    ASSUME node \in Nodes, node.type = "DEFINITION"
    PROVE  /\ node.def.osz \in 0 .. 7
           /\ node.def.disp # <<>> => node.def.disp \in BySize
           /\ node.def.imm \in Seq([size : BySize, signed : BOOLEAN, relative : BOOLEAN]) /\ Len(node.def.imm) <= 2
  <1>1. PICK x \in DOMAIN Tree : node = Tree[x]
    BY DEF Nodes, InvalidNode
  <1> QED  BY <1>1, TreeAssumption

LEMMA WidthFact ==
    ASSUME node \in Nodes, node.type = "DEFINITION"
    PROVE  EoszIndex \in 1 .. 3
  <1>1. Def.osz \in 0 .. 7
    BY DefinitionFact DEF Def
  <1>2. SizeColumn(ins) \in 1 .. 3
    BY DEF SizeColumn
  <1>3. OperandWidth(ins, Def) \in {16, 32, 64}
    BY <1>1, <1>2 DEF OperandWidth, OperandWidths
  <1> QED  BY <1>3 DEF EoszIndex, SizeIndex

(* Whichever vector prefix it is, it has two bytes or more. *)
LEMMA VectorBytesFact ==
    ASSUME NEW op \in DOMAIN VectorBytes
    PROVE  VectorBytes[op] \in {2, 3, 4}
  BY DEF VectorBytes

-----------------------------------------------------------------------------
(* One lemma per step of a call *)

LEMMA InitIInv == StreamInit => IInv
  <1> SUFFICES ASSUME StreamInit PROVE IInv
    OBVIOUS
  <1>1. PICK b \in Buffers : Start(b)
    BY DEF StreamInit, DecodedInit, Init
  <1>2. buffer \in Seq(Byte) /\ Len(buffer) \in Nat
    BY <1>1, BuffersAssumption DEF Start
  <1>3. pc \in {"prefixes", "failed"}
    BY <1>1 DEF Start, StartOf
  <1> QED
    BY <1>1, <1>2, <1>3, TreeAssumption, MaxLengthAssumption
    DEF Start, IInv, Consistent, NeverOverruns, ReadsDefinition, TakesBytes, Parts, Walking, Fields, Nodes,
        EmptyInstruction, NoPrefixes

(* A call that fails leaves everything as it was. *)
LEMMA FailIInv ==
    ASSUME IInv, NEW s, Fail(s)
    PROVE  IInv'
  BY DEF Fail, IInv, Consistent, NeverOverruns, ReadsDefinition, TakesBytes, Parts, Walking, Nodes

LEMMA PrefixIInv ==
    ASSUME IInv, CollectOptionalPrefixes
    PROVE  IInv'
  <1> USE DEF IInv
  <1>1. CASE CollectPrefix
    <2>1. ins.length + 1 <= Len(buffer) /\ ins.length + 1 <= MaxLength
      BY <1>1, InputFact DEF CollectPrefix, Consistent
    <2>2. "mandatory" \in DOMAIN pfx' /\ pfx'.mandatory \in {0, OSZ, REPE, REPNE}
      <3> DEFINE b == Ahead(0)
      <3> HIDE DEF b
      <3>1. b \in PrefixBytes /\ pfx' = NotePrefix(pfx, b, ins.length)
        BY <1>1 DEF CollectPrefix, b
      <3> QED
        BY <3>1 DEF NotePrefix, Consistent, PrefixBytes, LOCK, REPNE, REPE, OSZ, ASZ, DS, DeadSegments,
                    LiveSegments, RexBytes
    <2>3. /\ ins'.length = ins.length + 1 /\ ins'.imm = ins.imm /\ ins'.encoding = ins.encoding
          /\ DOMAIN ins' = DOMAIN ins
      BY <1>1 DEF CollectPrefix, Consistent, Fields
    <2> QED
      BY <1>1, <2>1, <2>2, <2>3
      DEF CollectPrefix, Consistent, NeverOverruns, ReadsDefinition, TakesBytes, Parts, Walking, Nodes
  <1>2. CASE PrefixesCollected
    <2>1. /\ ins'.length = ins.length /\ ins'.imm = ins.imm /\ ins'.encoding = ins.encoding
          /\ DOMAIN ins' = DOMAIN ins
      BY <1>2 DEF PrefixesCollected, Consistent, Fields
    <2> QED
      BY <1>2, <2>1
      DEF PrefixesCollected, Consistent, NeverOverruns, ReadsDefinition, TakesBytes, Parts, Walking, Nodes
  <1>3. CASE PrefixesEndEarly
    BY <1>3, FailIInv DEF PrefixesEndEarly
  <1> QED  BY <1>1, <1>2, <1>3 DEF CollectOptionalPrefixes

(* In the tree a filter may take bytes, but no immediates, and leaves the prefixes. *)
LEMMA TreeIInv ==
    ASSUME IInv, pc = "tree", pc' = "tree",
           UNCHANGED <<buffer, pfx>>,
           node' \in Nodes, temp' \in Nodes \cup {None},
           Fields \subseteq DOMAIN ins', ins'.imm = ins.imm,
           ins'.length \in Nat, ins'.length <= Len(buffer), ins'.length <= MaxLength, ins'.length > 0
    PROVE  IInv'
  BY DEF IInv, Consistent, NeverOverruns, ReadsDefinition, TakesBytes, Parts, Walking, Nodes

(* Below the opcode filter at the root, a filter that takes no bytes need not say so. *)
LEMMA FilterIInv ==
    ASSUME IInv, pc = "tree", pc' = "tree", Type # "OPCODE",
           UNCHANGED <<buffer, pfx>>,
           node' \in Nodes, temp' \in Nodes \cup {None},
           Fields \subseteq DOMAIN ins', ins'.imm = ins.imm, ins'.length = ins.length
    PROVE  IInv'
  <1>1. ins.length > 0
    BY TreeAssumption DEF IInv, TakesBytes, Type
  <1> QED  BY <1>1, TreeIInv DEF IInv, Consistent, NeverOverruns

LEMMA ModRMFact ==
    ASSUME Fields \subseteq DOMAIN ins
    PROVE  /\ DOMAIN DecodeModRM(ins) = DOMAIN ins
           /\ DecodeModRM(ins).length = ins.length + 1
           /\ DecodeModRM(ins).imm = ins.imm
           /\ DecodeModRM(ins).addressWidth = ins.addressWidth
  BY DEF DecodeModRM, Fields

LEMMA PrefixTypeFact ==
    ASSUME Fields \subseteq DOMAIN ins, NEW offset, NEW t
    PROVE  /\ DOMAIN SetPrefixType(ins, offset, t) = DOMAIN ins
           /\ SetPrefixType(ins, offset, t).length = ins.length
           /\ SetPrefixType(ins, offset, t).imm = ins.imm
  BY DEF SetPrefixType, Fields

LEMMA OpcodeIInv ==
    ASSUME IInv, NodeHandlerOpcode
    PROVE  IInv'
  <1> USE DEF IInv
  <1>1. CASE OpcodeStatus # "SUCCESS" /\ Fail(OpcodeStatus)
    BY <1>1, FailIInv
  <1>2. CASE OpcodeStatus = "SUCCESS"
    <2>1. /\ pc = "tree" /\ pc' = "tree" /\ UNCHANGED <<buffer, pfx, temp>>
          /\ node' = Child(node, IF ins.encoding = "3DNOW" THEN 12 ELSE Ahead(0))
          /\ node.type = "OPCODE"
          /\ VectorOpcode \/ LegacyOpcode \/ OpcodeAfterPrefix \/ PlaceholderOpcode
      BY <1>2 DEF NodeHandlerOpcode, Goto, Type
    <2>2. node' \in Nodes
      BY <2>1, ChildFact DEF Consistent, Walking
    <2>3. /\ Fields \subseteq DOMAIN ins' /\ ins'.imm = ins.imm
          /\ ins'.length \in Nat /\ ins'.length <= Len(buffer) /\ ins'.length <= MaxLength /\ ins'.length > 0
      <3>1. CASE VectorOpcode
        <4> DEFINE op == Ahead(0)
        <4>1. IsEscape(op) /\ ins.encoding # "3DNOW"
          BY <3>1 DEF VectorOpcode
        <4>2. VectorBytes[op] \in {2, 3, 4}
          BY <4>1, VectorBytesFact DEF IsEscape
        <4>3. InputStatus(VectorBytes[op]) = "SUCCESS"
          BY <1>2, <4>1 DEF OpcodeStatus, EscapeStatus
        <4>4. ins.length + VectorBytes[op] <= Len(buffer) /\ ins.length + VectorBytes[op] <= MaxLength
          BY <4>2, <4>3, InputFact DEF Consistent
        <4>5. DOMAIN ins' = DOMAIN ins /\ ins'.imm = ins.imm /\ ins'.length = ins.length + VectorBytes[op]
          BY <3>1 DEF VectorOpcode, Consistent, Fields
        <4> QED  BY <4>2, <4>4, <4>5 DEF Consistent
      <3>2. CASE LegacyOpcode \/ OpcodeAfterPrefix
        <4>1. InputStatus(1) = "SUCCESS"
          BY <1>2, <3>2 DEF OpcodeStatus, LegacyOpcode, OpcodeAfterPrefix
        <4>2. ins.length + 1 <= Len(buffer) /\ ins.length + 1 <= MaxLength
          BY <4>1, InputFact DEF Consistent
        <4>3. DOMAIN ins' = DOMAIN ins /\ ins'.imm = ins.imm /\ ins'.length = ins.length + 1
          BY <3>2 DEF LegacyOpcode, OpcodeAfterPrefix, Consistent, Fields
        <4> QED  BY <4>2, <4>3 DEF Consistent
      <3>3. CASE PlaceholderOpcode
        BY <2>1, <3>3 DEF PlaceholderOpcode, Consistent, NeverOverruns, TakesBytes
      <3> QED  BY <2>1, <3>1, <3>2, <3>3
    <2> QED  BY <2>1, <2>2, <2>3, TreeIInv DEF Consistent
  <1> QED  BY <1>1, <1>2 DEF NodeHandlerOpcode

LEMMA WalkIInv ==
    ASSUME IInv, WalkTree
    PROVE  IInv'
  <1> USE DEF IInv
  <1>0. Fields \subseteq DOMAIN ins /\ node \in Nodes /\ ins.length \in Nat
    <2>1. pc = "tree"
      BY DEF WalkTree, NodeHandlerOpcode, NodeHandlerModrm, NodeHandlerLooking, NodeHandlerOperandSize,
             NodeHandlerMandatoryPrefix, DeadEnd, FoundDefinition
    <2> QED  BY <2>1 DEF Consistent, Walking
  <1>1. CASE NodeHandlerOpcode
    BY <1>1, OpcodeIInv
  <1>2. CASE NodeHandlerModrm
    <2>1. CASE ins.modrm.offset = 0 /\ InputStatus(1) # "SUCCESS"
      BY <1>2, <2>1, FailIInv DEF NodeHandlerModrm
    <2>2. CASE ~(ins.modrm.offset = 0 /\ InputStatus(1) # "SUCCESS")
      <3>1. /\ pc = "tree" /\ pc' = "tree" /\ UNCHANGED <<buffer, pfx, temp>>
            /\ node' = Child(node, ModrmIndex(ins'.modrm)) /\ node.type \in ModrmTypes
            /\ ins' = IF ins.modrm.offset = 0 THEN DecodeModRM(ins) ELSE ins
        BY <1>2, <2>2 DEF NodeHandlerModrm, Goto, Type
      <3>2. node' \in Nodes
        BY <3>1, <1>0, ChildFact DEF ModrmTypes
      <3>3. CASE ins.modrm.offset = 0
        <4>1. ins.length + 1 <= Len(buffer) /\ ins.length + 1 <= MaxLength
          BY <2>2, <3>3, InputFact DEF Consistent
        <4> QED  BY <3>1, <3>2, <3>3, <4>1, <1>0, ModRMFact, TreeIInv DEF Consistent
      <3>4. CASE ins.modrm.offset # 0
        BY <3>1, <3>2, <3>4, <1>0, FilterIInv DEF Consistent, Type, ModrmTypes
      <3> QED  BY <3>3, <3>4
    <2> QED  BY <2>1, <2>2
  <1>3. CASE NodeHandlerLooking
    <2>1. CASE Type = "VECTOR_LENGTH" /\ vu.LL = 3
      BY <1>3, <2>1, FailIInv DEF NodeHandlerLooking
    <2>2. CASE ~(Type = "VECTOR_LENGTH" /\ vu.LL = 3)
      <3>1. node' \in Nodes /\ Type # "OPCODE"
        BY <1>3, <2>2, <1>0, ChildFact
        DEF NodeHandlerLooking, Goto, Type, LookingTypes, DefaultModes, OtherModes
      <3> QED  BY <1>3, <2>2, <3>1, <1>0, FilterIInv DEF NodeHandlerLooking, Consistent
    <2> QED  BY <2>1, <2>2
  <1>4. CASE NodeHandlerOperandSize
    <2>1. node' \in Nodes /\ Type # "OPCODE"
      BY <1>4, <1>0, ChildFact DEF NodeHandlerOperandSize, Goto, Type
    <2> QED  BY <1>4, <2>1, <1>0, PrefixTypeFact, FilterIInv DEF NodeHandlerOperandSize, Consistent
  <1>5. CASE NodeHandlerMandatoryPrefix
    <2>1. node' \in Nodes /\ temp' \in Nodes /\ Type # "OPCODE"
      BY <1>5, <1>0, ChildFact DEF NodeHandlerMandatoryPrefix, Goto, Type
    <2>2. Fields \subseteq DOMAIN ins' /\ ins'.imm = ins.imm /\ ins'.length = ins.length
      BY <1>5, <1>0, PrefixTypeFact DEF NodeHandlerMandatoryPrefix, Fields
    <2> QED  BY <1>5, <2>1, <2>2, <1>0, FilterIInv DEF NodeHandlerMandatoryPrefix
  <1>6. CASE DeadEnd
    <2>1. CASE temp = None
      BY <1>6, <2>1, FailIInv DEF DeadEnd
    <2>2. CASE temp # None
      <3>1. node' \in Nodes /\ temp' = None /\ Type # "OPCODE"
        BY <1>6, <2>2 DEF DeadEnd, Consistent, Type
      <3>2. Fields \subseteq DOMAIN ins' /\ ins'.imm = ins.imm /\ ins'.length = ins.length
        <4>1. pfx.mandatory \in {0, OSZ, REPE, REPNE} /\ OSZ \notin {0, REPE, REPNE} /\ 0 \notin {REPE, REPNE}
          BY DEF Consistent, OSZ, REPE, REPNE
        <4>2. CASE pfx.mandatory = 0
          BY <1>6, <2>2, <4>1, <4>2, <1>0 DEF DeadEnd
        <4>3. CASE pfx.mandatory \in {REPE, REPNE}
          BY <1>6, <2>2, <4>1, <4>3, <1>0, PrefixTypeFact DEF DeadEnd
        <4>4. CASE pfx.mandatory = OSZ
          <5> DEFINE t == IF pfx.at.osz = pfx.at.mandatory THEN "EFFECTIVE" ELSE "IGNORED"
          <5>1. ins' = [SetPrefixType(ins, pfx.at.mandatory, t) EXCEPT !.attributes = @ \cup {"OPERANDSIZE"}]
            BY <1>6, <2>2, <4>1, <4>4 DEF DeadEnd
          <5> HIDE DEF t
          <5> QED  BY <5>1, <1>0, PrefixTypeFact DEF Fields
        <4> QED  BY <4>1, <4>2, <4>3, <4>4
      <3> QED  BY <1>6, <2>2, <3>1, <3>2, FilterIInv DEF DeadEnd
    <2> QED  BY <2>1, <2>2
  <1>7. CASE FoundDefinition
    <2>1. ins.length > 0
      BY <1>7, TreeAssumption DEF FoundDefinition, TakesBytes, Type
    <2>2. /\ DOMAIN ins' = DOMAIN ins /\ ins'.length = ins.length /\ ins'.imm = ins.imm
          /\ ins'.addressWidth \in {32, 64}
      BY <1>7, <1>0 DEF FoundDefinition, SetEffectiveAddressWidth, Fields
    <2> QED
      BY <1>7, <2>1, <2>2
      DEF FoundDefinition, Consistent, NeverOverruns, ReadsDefinition, TakesBytes, Parts, Walking, Type, Nodes
  <1> QED  BY <1>1, <1>2, <1>3, <1>4, <1>5, <1>6, <1>7 DEF WalkTree

(* Behind the definition no step goes back; each part has its guard. *)
LEMMA PartsIInv ==
    ASSUME IInv, DecodeOptionalInstructionParts
    PROVE  IInv'
  <1> USE DEF IInv
  <1>0. /\ Fields \subseteq DOMAIN ins /\ node \in Nodes /\ ins.length \in Nat /\ buffer \in Seq(Byte)
        /\ ins.imm \in Seq(Immediate)
    <2>1. pc \in Parts
      BY DEF DecodeOptionalInstructionParts, ReadModrm, ReadSib, ReadDisplacement, ReadImmediate, Parts
    <2> QED  BY <2>1 DEF Consistent, ReadsDefinition, Walking
  <1>1. CASE ReadModrm
    <2>1. CASE Def.modrm /\ ins.modrm.offset = 0 /\ InputStatus(1) # "SUCCESS"
      BY <1>1, <2>1, FailIInv DEF ReadModrm
    <2>2. CASE ~(Def.modrm /\ ins.modrm.offset = 0 /\ InputStatus(1) # "SUCCESS")
      <3>1. /\ pc = "modrm" /\ pc' = "sib" /\ UNCHANGED <<buffer, pfx, node, temp>>
            /\ ins' = IF Def.modrm /\ ins.modrm.offset = 0 THEN DecodeModRM(ins) ELSE ins
        BY <1>1, <2>2 DEF ReadModrm
      <3>2. /\ DOMAIN ins' = DOMAIN ins /\ ins'.imm = ins.imm /\ ins'.addressWidth = ins.addressWidth
            /\ \/ ins'.length = ins.length
               \/ InputStatus(1) = "SUCCESS" /\ ins'.length = ins.length + 1
        BY <2>2, <3>1, <1>0, ModRMFact
      <3>3. /\ ins'.length \in Nat /\ ins'.length >= ins.length
            /\ ins'.length <= Len(buffer) /\ ins'.length <= MaxLength
        BY <3>2, <1>0, InputFact DEF NeverOverruns
      <3> QED
        BY <3>1, <3>2, <3>3 DEF Consistent, NeverOverruns, ReadsDefinition, TakesBytes, Parts, Walking, Nodes
    <2> QED  BY <2>1, <2>2
  <1>2. CASE ReadSib
    <2>1. CASE HasMemory /\ ins.modrm.rm = 4 /\ InputStatus(1) # "SUCCESS"
      BY <1>2, <2>1, FailIInv DEF ReadSib
    <2>2. CASE ~(HasMemory /\ ins.modrm.rm = 4 /\ InputStatus(1) # "SUCCESS")
      <3>1. pc = "sib" /\ pc' = "disp" /\ UNCHANGED <<buffer, pfx, node, temp>>
        BY <1>2, <2>2 DEF ReadSib
      <3>2. /\ DOMAIN ins' = DOMAIN ins /\ ins'.imm = ins.imm /\ ins'.addressWidth = ins.addressWidth
            /\ \/ ins'.length = ins.length
               \/ InputStatus(1) = "SUCCESS" /\ ins'.length = ins.length + 1
        BY <1>2, <2>2, <1>0 DEF ReadSib, Fields
      <3>3. /\ ins'.length \in Nat /\ ins'.length >= ins.length
            /\ ins'.length <= Len(buffer) /\ ins'.length <= MaxLength
        BY <3>2, <1>0, InputFact DEF NeverOverruns
      <3> QED
        BY <3>1, <3>2, <3>3 DEF Consistent, NeverOverruns, ReadsDefinition, TakesBytes, Parts, Walking, Nodes
    <2> QED  BY <2>1, <2>2
  <1>3. CASE ReadDisplacement
    <2> DEFINE size == IF Def.disp # <<>> THEN Def.disp[EaszIndex] ELSE DisplacementSize
               n    == size \div 8
    <2>1. pc = "disp" /\ node.type = "DEFINITION" /\ ins.addressWidth \in {32, 64}
      BY <1>3 DEF ReadDisplacement, ReadsDefinition, Parts
    <2>2. size \in Nat
      <3>1. CASE Def.disp # <<>>
        <4>1. EaszIndex \in 1 .. 3
          BY <2>1 DEF EaszIndex, SizeIndex
        <4>2. Def.disp \in [1 .. 3 -> Nat]
          BY <2>1, <3>1, <1>0, DefinitionFact DEF Def, BySize
        <4> QED  BY <3>1, <4>1, <4>2
      <3>2. CASE Def.disp = <<>>
        BY <3>2 DEF DisplacementSize
      <3> QED  BY <3>1, <3>2
    <2>3. n \in Nat
      BY <2>2
    <2> HIDE DEF size, n
    <2>4. CASE InputStatus(n) # "SUCCESS" /\ n > 0
      BY <1>3, <2>4, FailIInv DEF ReadDisplacement, size, n
    <2>5. CASE ~(InputStatus(n) # "SUCCESS" /\ n > 0)
      <3>1. /\ pc' = "imm" /\ UNCHANGED <<buffer, pfx, node, temp>>
            /\ DOMAIN ins' = DOMAIN ins /\ ins'.imm = ins.imm /\ ins'.addressWidth = ins.addressWidth
            /\ ins'.length = ins.length + n
        BY <1>3, <2>5, <1>0 DEF ReadDisplacement, size, n, Fields
      <3>2. ins.length + n <= Len(buffer) /\ ins.length + n <= MaxLength
        BY <2>3, <2>5, <1>0, InputFact DEF NeverOverruns
      <3>3. node.def.imm \in Seq([size : BySize, signed : BOOLEAN, relative : BOOLEAN])
        BY <2>1, <1>0, DefinitionFact
      <3> QED
        BY <2>1, <2>3, <3>1, <3>2, <3>3, <1>0
        DEF Consistent, NeverOverruns, ReadsDefinition, TakesBytes, Parts, Walking, Nodes
    <2> QED  BY <2>4, <2>5
  <1>4. CASE ReadImmediate
    <2>1. pc = "imm" /\ node.type = "DEFINITION" /\ Len(ins.imm) <= Len(Def.imm)
      BY <1>4 DEF ReadImmediate, ReadsDefinition, Parts, Def
    <2>2. Def.imm \in Seq([size : BySize, signed : BOOLEAN, relative : BOOLEAN])
      BY <2>1, <1>0, DefinitionFact DEF Def
    <2>3. CASE Len(ins.imm) = Len(Def.imm)
      BY <1>4, <2>1, <2>3 DEF ReadImmediate, Consistent, NeverOverruns, ReadsDefinition, TakesBytes, Parts,
         Walking, Nodes
    <2>4. CASE Len(ins.imm) # Len(Def.imm)
      <3> DEFINE info == Def.imm[Len(ins.imm) + 1]
                 size == info.size[EoszIndex]
                 n    == size \div 8
      <3>1. info \in [size : BySize, signed : BOOLEAN, relative : BOOLEAN] /\ Len(ins.imm) + 1 <= Len(Def.imm)
        <4> HIDE DEF info
        <4>1. Len(ins.imm) \in Nat /\ Len(Def.imm) \in Nat
          BY <2>2, <1>0
        <4>2. Len(ins.imm) + 1 \in 1 .. Len(Def.imm)
          BY <4>1, <2>1, <2>4
        <4>3. Def.imm[Len(ins.imm) + 1] \in [size : BySize, signed : BOOLEAN, relative : BOOLEAN]
          BY <4>2, <2>2, ElementOfSeq
        <4> QED  BY <4>1, <4>2, <4>3 DEF info
      <3>2. size \in Nat /\ n \in Nat
        <4>1. info.size \in BySize /\ EoszIndex \in 1 .. 3
          BY <3>1, <2>1, <1>0, WidthFact
        <4> HIDE DEF info
        <4>2. size \in Nat
          BY <4>1 DEF BySize
        <4> HIDE DEF size
        <4> QED  BY <4>2
      <3> HIDE DEF info, size, n
      <3>3. CASE InputStatus(n) # "SUCCESS"
        BY <1>4, <2>4, <3>3, FailIInv DEF ReadImmediate, info, size, n
      <3>4. CASE InputStatus(n) = "SUCCESS"
        <4>1. ins.length + n <= Len(buffer) /\ ins.length + n <= MaxLength
          BY <3>2, <3>4, <1>0, InputFact
        <4> DEFINE piece == [offset |-> ins.length, size |-> size, signed |-> info.signed,
                             relative |-> info.relative, value |-> NextBytes(n)]
        <4>2. piece \in Immediate
          <5>1. NextBytes(n) \in Seq(Byte)
            BY <3>2, <4>1, <1>0 DEF NextBytes
          <5> QED  BY <5>1, <3>1, <3>2, <1>0 DEF Immediate
        <4>3. /\ pc' = pc /\ UNCHANGED <<buffer, pfx, node, temp>>
              /\ DOMAIN ins' = DOMAIN ins /\ ins'.addressWidth = ins.addressWidth
              /\ ins'.length = ins.length + n /\ ins'.imm = Append(ins.imm, piece)
          BY <1>4, <2>4, <3>4, <1>0 DEF ReadImmediate, info, size, n, Fields
        <4> HIDE DEF piece
        <4>4. ins'.imm \in Seq(Immediate) /\ Len(ins'.imm) <= Len(Def.imm)
          BY <4>2, <4>3, <3>1, <1>0
        <4> QED
          BY <2>1, <3>2, <4>1, <4>3, <4>4, <1>0
          DEF Consistent, NeverOverruns, ReadsDefinition, TakesBytes, Parts, Walking, Nodes, Def
      <3> QED  BY <3>3, <3>4
    <2> QED  BY <2>3, <2>4
  <1> QED  BY <1>1, <1>2, <1>3, <1>4 DEF DecodeOptionalInstructionParts

(* The steps after the last immediate take at most the opcode of 3DNow!. *)
LEMMA TailIInv ==
    ASSUME IInv, CheckErrorConditions \/ OpcodeSuffix \/ SetAttributes
    PROVE  IInv'
  <1> USE DEF IInv
  <1>0. /\ Fields \subseteq DOMAIN ins /\ ins.length \in Nat /\ buffer \in Seq(Byte)
    BY DEF Consistent
  <1>1. CASE CheckErrorConditions
    <2>1. CASE ErrorCondition # "SUCCESS"
      BY <1>1, <2>1, FailIInv DEF CheckErrorConditions
    <2>2. CASE ErrorCondition = "SUCCESS"
      <3>1. pc = "check" /\ pc' \in {"suffix", "attributes"} /\ UNCHANGED <<buffer, ins, pfx, node, temp>>
        BY <1>1, <2>2 DEF CheckErrorConditions
      <3> QED  BY <3>1 DEF Consistent, NeverOverruns, ReadsDefinition, TakesBytes, Parts, Walking, Nodes
    <2> QED  BY <2>1, <2>2
  <1>2. CASE OpcodeSuffix
    <2>1. CASE Fail(InputStatus(1)) \/ Fail("DECODING_ERROR")
      BY <2>1, FailIInv
    <2>2. CASE ~(Fail(InputStatus(1)) \/ Fail("DECODING_ERROR"))
      <3> DEFINE n == Child(Child(Child(Tree[Root], 15), 15), Ahead(0))
      <3>1. /\ pc = "suffix" /\ pc' = "attributes" /\ UNCHANGED <<buffer, pfx, temp>>
            /\ InputStatus(1) = "SUCCESS"
            /\ ins' = [ins EXCEPT !.length = @ + 1, !.opcode = Ahead(0)]
            /\ node' = Child(n, IF ins.modrm.mod = 3 THEN 0 ELSE 1)
        BY <1>2, <2>2 DEF OpcodeSuffix
      <3>2. ins.length + 1 <= Len(buffer) /\ ins.length + 1 <= MaxLength
        BY <3>1, <1>0, InputFact
      <3>3. DOMAIN ins' = DOMAIN ins /\ ins'.imm = ins.imm /\ ins'.length = ins.length + 1
        BY <3>1, <1>0 DEF Fields
      <3> QED
        BY <3>1, <3>2, <3>3, <1>0
        DEF Consistent, NeverOverruns, ReadsDefinition, TakesBytes, Parts, Walking, Nodes
    <2> QED  BY <2>1, <2>2
  <1>3. CASE SetAttributes
    <2>1. /\ pc = "attributes" /\ pc' = "decoded" /\ UNCHANGED <<buffer, pfx, node, temp>>
          /\ DOMAIN ins' = DOMAIN ins /\ ins'.imm = ins.imm /\ ins'.length = ins.length
      BY <1>3, <1>0 DEF SetAttributes, Fields
    <2> QED  BY <2>1, <1>0 DEF Consistent, NeverOverruns, ReadsDefinition, TakesBytes, Parts, Walking, Nodes
  <1> QED  BY <1>1, <1>2, <1>3

LEMMA StepIInv ==
    ASSUME IInv, DecodeStep
    PROVE  IInv'
  BY PrefixIInv, WalkIInv, PartsIInv, TailIInv DEF DecodeStep

-----------------------------------------------------------------------------
(* The loop over the blob *)

(* The next call begins behind the instruction, on what is left. *)
LEMMA AdvanceIInv ==
    ASSUME IInv, Advance
    PROVE  IInv' /\ Len(buffer') < Len(buffer)
  <1> DEFINE rest == SubSeq(buffer, ins.length + 1, Len(buffer))
  <1>1. /\ buffer \in Seq(Byte) /\ ins.length \in Nat /\ ins.length > 0 /\ ins.length <= Len(buffer)
    BY DEF IInv, Consistent, NeverOverruns, TakesBytes, Advance
  <1>2. rest \in Seq(Byte) /\ Len(rest) \in Nat /\ Len(rest) < Len(buffer)
    <2>1. ins.length + 1 \in 1 .. Len(buffer) + 1 /\ Len(buffer) \in Nat
      BY <1>1
    <2> QED  BY <2>1, <1>1, SubSeqProperties
  <1>3. /\ buffer' = rest /\ pc' \in {"prefixes", "failed"}
        /\ ins' = EmptyInstruction /\ pfx' = NoPrefixes /\ node' = Tree[Root] /\ temp' = None
    BY DEF Advance, Cleared, StartOf
  <1> HIDE DEF rest
  <1>4. IInv'
    BY <1>2, <1>3, TreeAssumption, MaxLengthAssumption
    DEF IInv, Consistent, NeverOverruns, ReadsDefinition, TakesBytes, Parts, Walking, Fields, Nodes,
        EmptyInstruction, NoPrefixes
  <1> QED  BY <1>2, <1>3, <1>4

LEMMA NextIInv == IInv /\ [DisassembleStep]_streamVars => IInv'
  <1> SUFFICES ASSUME IInv, [DisassembleStep]_streamVars PROVE IInv'
    OBVIOUS
  <1>1. CASE DecodeStep
    BY <1>1, StepIInv
  <1>2. CASE SetAVXInformation
    BY <1>2 DEF SetAVXInformation, IInv, Consistent, NeverOverruns, ReadsDefinition, TakesBytes, Parts,
       Walking, Nodes
  <1>3. CASE ZydisDecodeOperands
    BY <1>3 DEF ZydisDecodeOperands, IInv, Consistent, NeverOverruns, ReadsDefinition, TakesBytes, Parts,
       Walking, Nodes
  <1>4. CASE Advance
    BY <1>4, AdvanceIInv
  <1>5. CASE UNCHANGED streamVars
    BY <1>5
    DEF streamVars, decodedVars, vars, IInv, Consistent, NeverOverruns, ReadsDefinition, TakesBytes, Parts,
        Walking, Nodes
  <1> QED
    BY <1>1, <1>2, <1>3, <1>4, <1>5 DEF DisassembleStep, DecodeNext, DecodeFull, DecodePhysical

LEMMA Invariance == StreamSpec => []IInv
  BY InitIInv, NextIInv, PTL DEF StreamSpec

-----------------------------------------------------------------------------
(* The decoder takes no byte that it was not given and none beyond the longest   *)
(* instruction, whatever the tree, the blob and the limit are.                   *)
THEOREM StaysInBuffer == StreamSpec => []NeverOverruns
  BY Invariance, PTL DEF IInv

(* Between two calls of the loop in snippet_decode the blob becomes shorter: no   *)
(* instruction is decoded from no bytes, so the loop has at most as many rounds as *)
(* the blob has bytes.                                                             *)
Shrinks == Len(buffer') < Len(buffer)

THEOREM LoopConsumes == StreamSpec => [][Advance => Shrinks]_streamVars
  <1>1. IInv /\ [DisassembleStep]_streamVars => [Advance => Shrinks]_streamVars
    BY AdvanceIInv DEF Shrinks
  <1> QED  BY <1>1, Invariance, PTL DEF StreamSpec

-----------------------------------------------------------------------------
(* What the prefixes are to the instruction *)

Prefix == [value : Byte, type : {"IGNORED", "EFFECTIVE", "MANDATORY"}]

Places ==
    [lock : Nat, group1 : Nat, group2 : Nat, osz : Nat, asz : Nat, segment : Nat, mandatory : Nat,
     notrack : Nat \cup {-1}]

PrefixState ==
    [lock : BOOLEAN, group1 : {0, REPNE, REPE}, group2 : {0} \cup DeadSegments \cup LiveSegments,
     segment : {0} \cup LiveSegments, mandatory : {0, OSZ, REPE, REPNE}, rex : {0} \cup RexBytes,
     at : Places]

(* A byte of the set is at the offset; the prefix there is not ignored. *)
Noted(prefixes, offset, bytes) ==
    offset \in 0 .. Len(prefixes) - 1 /\ prefixes[offset + 1].value \in bytes

Counts(prefixes, offset) == prefixes[offset + 1].type # "IGNORED"

(* The state of the prefixes remembers where the bytes were. *)
PrefixesNoted(p, i) ==
    /\ p \in PrefixState
    /\ i.prefixes \in Seq(Prefix)
    /\ p.lock => Noted(i.prefixes, p.at.lock, {LOCK})
    /\ p.group1 # 0 => Noted(i.prefixes, p.at.group1, {p.group1})
    /\ p.mandatory # 0 => Noted(i.prefixes, p.at.mandatory, {p.mandatory})
    /\ p.mandatory = OSZ \/ "OPERANDSIZE" \in i.attributes => Noted(i.prefixes, p.at.osz, {OSZ})
    /\ "ADDRESSSIZE" \in i.attributes => Noted(i.prefixes, p.at.asz, {ASZ})
    /\ p.group2 # 0 => Noted(i.prefixes, p.at.group2, {p.group2})
    /\ p.segment # 0 => Noted(i.prefixes, p.at.segment, {p.segment})
    /\ p.at.notrack >= 0 => Noted(i.prefixes, p.at.notrack, {DS})
    /\ p.rex # 0 => Noted(i.prefixes, i.rexOffset, RexBytes)

(* The attributes that are known before the definition is. *)
Early == {"OPERANDSIZE", "ADDRESSSIZE", "REX"}

(* An instruction says only what its prefixes say. *)
Backed(i) ==
    \A a \in i.attributes \cap DOMAIN PrefixOf :
        \E n \in DOMAIN i.prefixes : i.prefixes[n].value \in PrefixOf[a] /\ i.prefixes[n].type # "IGNORED"

(* Where the walk may give a mandatory 66 back, the one that counts for the size  *)
(* must have remained.                                                            *)
EarlyBacked(p, i) ==
    /\ i.attributes \cap DOMAIN PrefixOf \subseteq Early
    /\ "OPERANDSIZE" \in i.attributes => Counts(i.prefixes, p.at.osz)
    /\ p.mandatory = OSZ /\ p.at.osz # p.at.mandatory => Counts(i.prefixes, p.at.osz)
    /\ "ADDRESSSIZE" \in i.attributes => Counts(i.prefixes, p.at.asz)
    /\ "REX" \in i.attributes => p.rex # 0 /\ Counts(i.prefixes, i.rexOffset)

Collecting(p, i) ==
    /\ i.attributes \subseteq {"OPERANDSIZE", "ADDRESSSIZE"}
    /\ p.mandatory = OSZ => "OPERANDSIZE" \in i.attributes

Between == Parts \cup {"tree", "check", "suffix", "attributes"}
Complete == {"decoded", "operands", "full"}

PrefixesInv ==
    /\ pc \in {"prefixes"} \cup Between => PrefixesNoted(pfx, ins)
    /\ pc = "prefixes" => ins.length = Len(ins.prefixes) /\ Collecting(pfx, ins)
    /\ pc \in Between => EarlyBacked(pfx, ins)
    /\ pc \in Complete => Backed(ins)

(* What has been decoded stays backed. *)
ListingBacked == \E S : listing \in Seq(S) /\ \A k \in DOMAIN listing : Backed(listing[k].ins)

-----------------------------------------------------------------------------
LEMMA PrefixValues ==
    /\ LOCK = 240 /\ REPNE = 242 /\ REPE = 243 /\ OSZ = 102 /\ ASZ = 103 /\ DS = 62
    /\ DeadSegments = {46, 54, 62, 38} /\ LiveSegments = {100, 101} /\ RexBytes = 64 .. 79
    /\ PrefixBytes \subseteq Byte
  BY DEF LOCK, REPNE, REPE, OSZ, ASZ, DS, DeadSegments, LiveSegments, RexBytes, PrefixBytes, Byte

(* A byte that is appended is noted at the offset it has; the others stay where they are. *)
LEMMA NotedAppend ==
    ASSUME NEW s \in Seq(Prefix), NEW b \in Byte
    PROVE  /\ Append(s, [value |-> b, type |-> "IGNORED"]) \in Seq(Prefix)
           /\ Len(Append(s, [value |-> b, type |-> "IGNORED"])) = Len(s) + 1
           /\ \A v : b \in v => Noted(Append(s, [value |-> b, type |-> "IGNORED"]), Len(s), v)
           /\ \A k, v : Noted(s, k, v) => Noted(Append(s, [value |-> b, type |-> "IGNORED"]), k, v)
  <1> DEFINE e == [value |-> b, type |-> "IGNORED"]
  <1>1. e \in Prefix /\ e.value = b
    BY DEF Prefix
  <1> HIDE DEF e
  <1>2. /\ Append(s, e) \in Seq(Prefix) /\ Len(Append(s, e)) = Len(s) + 1 /\ Len(s) \in Nat
        /\ Append(s, e)[Len(s) + 1] = e
        /\ \A i \in 1 .. Len(s) : Append(s, e)[i] = s[i]
    BY <1>1
  <1> HIDE DEF Prefix
  <1>3. ASSUME NEW k, NEW v, Noted(s, k, v)
        PROVE  Noted(Append(s, e), k, v)
    <2>1. k \in 0 .. Len(s) - 1 /\ k + 1 \in 1 .. Len(s) /\ s[k + 1].value \in v
      BY <1>2, <1>3 DEF Noted
    <2> QED  BY <1>2, <2>1 DEF Noted
  <1>4. ASSUME NEW v, b \in v
        PROVE  Noted(Append(s, e), Len(s), v)
    BY <1>1, <1>2, <1>4 DEF Noted
  <1> QED  BY <1>2, <1>3, <1>4 DEF e

(* The bookkeeping for one more prefix byte. *)
LEMMA NotePrefixFact ==
    ASSUME NEW p \in PrefixState, NEW b \in PrefixBytes, NEW k \in Nat
    PROVE  LET q == NotePrefix(p, b, k) IN
           /\ q \in PrefixState
           /\ q.lock => (b = LOCK /\ q.at.lock = k) \/ (p.lock /\ q.at.lock = p.at.lock)
           /\ q.group1 # 0 => (b = q.group1 /\ q.at.group1 = k)
              \/ (q.group1 = p.group1 /\ q.at.group1 = p.at.group1)
           /\ q.mandatory # 0 =>
                 (b = q.mandatory /\ q.at.mandatory = k)
                 \/ (q.mandatory = p.mandatory /\ q.at.mandatory = p.at.mandatory)
           /\ q.group2 # 0 => (b = q.group2 /\ q.at.group2 = k)
              \/ (q.group2 = p.group2 /\ q.at.group2 = p.at.group2)
           /\ q.segment # 0 =>
                 (b = q.segment /\ q.at.segment = k) \/ (q.segment = p.segment /\ q.at.segment = p.at.segment)
           /\ q.at.notrack >= 0 => (b = DS /\ q.at.notrack = k) \/ q.at.notrack = p.at.notrack
           /\ q.at.osz = IF b = OSZ THEN k ELSE p.at.osz
           /\ q.at.asz = IF b = ASZ THEN k ELSE p.at.asz
           /\ q.rex = IF b \in RexBytes THEN b ELSE 0
           /\ q.mandatory = OSZ => b = OSZ \/ p.mandatory = OSZ
  <1> DEFINE q == NotePrefix(p, b, k)
             r == [p EXCEPT !.rex = RexCandidate(p, b)]
  <1>1. /\ r \in PrefixState /\ r.rex = IF b \in RexBytes THEN b ELSE 0
        /\ r.lock = p.lock /\ r.group1 = p.group1 /\ r.group2 = p.group2 /\ r.segment = p.segment
        /\ r.mandatory = p.mandatory /\ r.at = p.at
    BY DEF PrefixState, RexCandidate
  <1>2. CASE b = LOCK
    <2> DEFINE a == [r.at EXCEPT !.lock = k]
    <2>1. q = [r EXCEPT !.lock = TRUE, !.at.lock = k]
      BY <1>2, PrefixValues DEF NotePrefix
    <2> HIDE DEF q, r
    <2>2. q = [r EXCEPT !.lock = TRUE, !.at = a]
      BY <1>1, <2>1 DEF PrefixState
    <2>3. a \in Places
      BY <1>1 DEF PrefixState, Places
    <2>4. a.lock = k /\ a.group1 = p.at.group1 /\ a.group2 = p.at.group2 /\ a.osz = p.at.osz
          /\ a.asz = p.at.asz /\ a.segment = p.at.segment /\ a.mandatory = p.at.mandatory
          /\ a.notrack = p.at.notrack
      BY <1>1 DEF PrefixState, Places
    <2> HIDE DEF a
    <2>5. q.at = a /\ q.rex = r.rex
          /\ q.lock = TRUE /\ q.group1 = p.group1 /\ q.group2 = p.group2 /\ q.segment = p.segment
          /\ q.mandatory = p.mandatory
      BY <1>1, <2>2 DEF PrefixState
    <2>6. q \in PrefixState
      BY <1>1, <1>2, <2>2, <2>3 DEF PrefixState
    <2> HIDE DEF PrefixState, Places
    <2> QED  BY <1>1, <1>2, <2>4, <2>5, <2>6, PrefixValues DEF q
  <1>3. CASE b \in {REPNE, REPE}
    <2> DEFINE a == [r.at EXCEPT !.group1 = k, !.mandatory = k]
    <2>1. q = [r EXCEPT !.group1 = b, !.mandatory = b, !.at.group1 = k, !.at.mandatory = k]
      BY <1>3, PrefixValues DEF NotePrefix
    <2> HIDE DEF q, r
    <2>2. q = [r EXCEPT !.group1 = b, !.mandatory = b, !.at = a]
      BY <1>1, <2>1 DEF PrefixState
    <2>3. a \in Places
      BY <1>1 DEF PrefixState, Places
    <2>4. a.lock = p.at.lock /\ a.group1 = k /\ a.group2 = p.at.group2 /\ a.osz = p.at.osz /\ a.asz = p.at.asz
          /\ a.segment = p.at.segment /\ a.mandatory = k /\ a.notrack = p.at.notrack
      BY <1>1 DEF PrefixState, Places
    <2> HIDE DEF a
    <2>5. q.at = a /\ q.rex = r.rex
          /\ q.lock = p.lock /\ q.group1 = b /\ q.group2 = p.group2 /\ q.segment = p.segment /\ q.mandatory = b
      BY <1>1, <2>2 DEF PrefixState
    <2>6. q \in PrefixState
      BY <1>1, <1>3, <2>2, <2>3 DEF PrefixState
    <2> HIDE DEF PrefixState, Places
    <2> QED  BY <1>1, <1>3, <2>4, <2>5, <2>6, PrefixValues DEF q
  <1>4. CASE b \in DeadSegments
    <2> DEFINE a == [r.at EXCEPT !.group2 = k,
                               !.notrack = IF b = DS /\ p.segment \notin LiveSegments THEN k ELSE @]
    <2>1. q = [r EXCEPT !.group2 = b, !.at.group2 = k,
                          !.at.notrack = IF b = DS /\ p.segment \notin LiveSegments THEN k ELSE @]
      BY <1>4, PrefixValues DEF NotePrefix
    <2> HIDE DEF q, r
    <2>2. q = [r EXCEPT !.group2 = b, !.at = a]
      BY <1>1, <2>1 DEF PrefixState
    <2>3. a \in Places
      BY <1>1 DEF PrefixState, Places
    <2>4. a.lock = p.at.lock /\ a.group1 = p.at.group1 /\ a.group2 = k /\ a.osz = p.at.osz /\ a.asz = p.at.asz
          /\ a.segment = p.at.segment /\ a.mandatory = p.at.mandatory
          /\ a.notrack = (IF b = DS /\ p.segment \notin LiveSegments THEN k ELSE p.at.notrack)
      BY <1>1 DEF PrefixState, Places
    <2> HIDE DEF a
    <2>5. q.at = a /\ q.rex = r.rex
          /\ q.lock = p.lock /\ q.group1 = p.group1 /\ q.group2 = b /\ q.segment = p.segment
          /\ q.mandatory = p.mandatory
      BY <1>1, <2>2 DEF PrefixState
    <2>6. q \in PrefixState
      BY <1>1, <1>4, <2>2, <2>3 DEF PrefixState
    <2> HIDE DEF PrefixState, Places
    <2> QED  BY <1>1, <1>4, <2>4, <2>5, <2>6, PrefixValues DEF q
  <1>5. CASE b \in LiveSegments
    <2> DEFINE a == [r.at EXCEPT !.group2 = k, !.segment = k, !.notrack = -1]
    <2>1. q = [r EXCEPT !.group2 = b, !.segment = b, !.at.group2 = k, !.at.segment = k, !.at.notrack = -1]
      BY <1>5, PrefixValues DEF NotePrefix
    <2> HIDE DEF q, r
    <2>2. q = [r EXCEPT !.group2 = b, !.segment = b, !.at = a]
      BY <1>1, <2>1 DEF PrefixState
    <2>3. a \in Places
      BY <1>1 DEF PrefixState, Places
    <2>4. a.lock = p.at.lock /\ a.group1 = p.at.group1 /\ a.group2 = k /\ a.osz = p.at.osz /\ a.asz = p.at.asz
          /\ a.segment = k /\ a.mandatory = p.at.mandatory /\ a.notrack = -1
      BY <1>1 DEF PrefixState, Places
    <2> HIDE DEF a
    <2>5. q.at = a /\ q.rex = r.rex
          /\ q.lock = p.lock /\ q.group1 = p.group1 /\ q.group2 = b /\ q.segment = b /\ q.mandatory = p.mandatory
      BY <1>1, <2>2 DEF PrefixState
    <2>6. q \in PrefixState
      BY <1>1, <1>5, <2>2, <2>3 DEF PrefixState
    <2> HIDE DEF PrefixState, Places
    <2> QED  BY <1>1, <1>5, <2>4, <2>5, <2>6, PrefixValues DEF q
  <1>6. CASE b = OSZ
    <2> DEFINE a == [r.at EXCEPT !.osz = k, !.mandatory = IF p.mandatory = 0 THEN k ELSE @]
    <2>1. q = [r EXCEPT !.mandatory = IF @ = 0 THEN OSZ ELSE @, !.at.osz = k,
                          !.at.mandatory = IF p.mandatory = 0 THEN k ELSE @]
      <3>1. b # LOCK /\ b \notin {REPNE, REPE} /\ b \notin DeadSegments /\ b \notin LiveSegments /\ b # ASZ
        BY <1>6, PrefixValues
      <3> QED  BY <3>1, <1>6 DEF NotePrefix
    <2> HIDE DEF q, r
    <2>2. q = [r EXCEPT !.mandatory = IF @ = 0 THEN OSZ ELSE @, !.at = a]
      BY <1>1, <2>1 DEF PrefixState
    <2>3. a \in Places
      BY <1>1 DEF PrefixState, Places
    <2>4. a.lock = p.at.lock /\ a.group1 = p.at.group1 /\ a.group2 = p.at.group2 /\ a.osz = k
          /\ a.asz = p.at.asz /\ a.segment = p.at.segment
          /\ a.mandatory = (IF p.mandatory = 0 THEN k ELSE p.at.mandatory) /\ a.notrack = p.at.notrack
      BY <1>1 DEF PrefixState, Places
    <2> HIDE DEF a
    <2>5. q.at = a /\ q.rex = r.rex
          /\ q.lock = p.lock /\ q.group1 = p.group1 /\ q.group2 = p.group2 /\ q.segment = p.segment
          /\ q.mandatory = (IF p.mandatory = 0 THEN OSZ ELSE p.mandatory)
      BY <1>1, <2>2 DEF PrefixState
    <2>6. q \in PrefixState
      BY <1>1, <1>6, <2>2, <2>3 DEF PrefixState
    <2> HIDE DEF PrefixState, Places
    <2> QED  BY <1>1, <1>6, <2>4, <2>5, <2>6, PrefixValues DEF q
  <1>7. CASE b = ASZ
    <2> DEFINE a == [r.at EXCEPT !.asz = k]
    <2>1. q = [r EXCEPT !.at.asz = k]
      BY <1>7, PrefixValues DEF NotePrefix
    <2> HIDE DEF q, r
    <2>2. q = [r EXCEPT !.at = a]
      BY <1>1, <2>1 DEF PrefixState
    <2>3. a \in Places
      BY <1>1 DEF PrefixState, Places
    <2>4. a.lock = p.at.lock /\ a.group1 = p.at.group1 /\ a.group2 = p.at.group2 /\ a.osz = p.at.osz
          /\ a.asz = k /\ a.segment = p.at.segment /\ a.mandatory = p.at.mandatory /\ a.notrack = p.at.notrack
      BY <1>1 DEF PrefixState, Places
    <2> HIDE DEF a
    <2>5. q.at = a /\ q.rex = r.rex
          /\ q.lock = p.lock /\ q.group1 = p.group1 /\ q.group2 = p.group2 /\ q.segment = p.segment
          /\ q.mandatory = p.mandatory
      BY <1>1, <2>2 DEF PrefixState
    <2>6. q \in PrefixState
      BY <1>1, <1>7, <2>2, <2>3 DEF PrefixState
    <2> HIDE DEF PrefixState, Places
    <2> QED  BY <1>1, <1>7, <2>4, <2>5, <2>6, PrefixValues DEF q
  <1>8. CASE b \in RexBytes
    <2>1. q = r
      BY <1>8, PrefixValues DEF NotePrefix
    <2> HIDE DEF r, q, PrefixState
    <2> QED  BY <1>1, <1>8, <2>1, PrefixValues DEF q
  <1> QED  BY <1>2, <1>3, <1>4, <1>5, <1>6, <1>7, <1>8 DEF PrefixBytes

(* The same prefixes with the same values, of whatever type. *)
SameValues(s, t) ==
    /\ t \in Seq(Prefix) /\ Len(t) = Len(s)
    /\ \A n \in 1 .. Len(s) : t[n].value = s[n].value

LEMMA SameNoted ==
    ASSUME NEW s, NEW t, SameValues(s, t), NEW k, NEW v, Noted(s, k, v)
    PROVE  Noted(t, k, v)
  <1>1. k \in 0 .. Len(s) - 1 /\ s[k + 1].value \in v
    BY DEF Noted
  <1>2. Len(s) \in Nat
    BY DEF SameValues
  <1>3. k + 1 \in 1 .. Len(s)
    BY <1>1, <1>2
  <1> QED  BY <1>1, <1>3 DEF SameValues, Noted

LEMMA RetypedNoted ==
    ASSUME NEW p, NEW i, NEW j, PrefixesNoted(p, i), SameValues(i.prefixes, j.prefixes), j.rexOffset = i.rexOffset,
           "OPERANDSIZE" \in j.attributes => p.mandatory = OSZ \/ "OPERANDSIZE" \in i.attributes,
           "ADDRESSSIZE" \in j.attributes => "ADDRESSSIZE" \in i.attributes
    PROVE  PrefixesNoted(p, j)
  <1>1. \A k, v : Noted(i.prefixes, k, v) => Noted(j.prefixes, k, v)
    BY SameNoted
  <1>2. j.prefixes \in Seq(Prefix)
    BY DEF SameValues
  <1> HIDE DEF Noted
  <1> QED  BY <1>1, <1>2 DEF PrefixesNoted

(* A step that leaves prefixes and early attributes alone. *)
LEMMA UntouchedFact ==
    ASSUME NEW p, NEW i, NEW j, j.prefixes = i.prefixes, j.rexOffset = i.rexOffset,
           j.attributes \cap DOMAIN PrefixOf = i.attributes \cap DOMAIN PrefixOf
    PROVE  /\ PrefixesNoted(p, i) => PrefixesNoted(p, j)
           /\ EarlyBacked(p, i) => EarlyBacked(p, j)
           /\ Backed(i) => Backed(j)
  <1>1. {"OPERANDSIZE", "ADDRESSSIZE", "REX"} \subseteq DOMAIN PrefixOf
    BY DEF PrefixOf
  <1>2. \A a \in {"OPERANDSIZE", "ADDRESSSIZE", "REX"} : a \in j.attributes <=> a \in i.attributes
    BY <1>1
  <1>3. PrefixesNoted(p, i) => PrefixesNoted(p, j)
    BY <1>2 DEF PrefixesNoted
  <1>4. EarlyBacked(p, i) => EarlyBacked(p, j)
    BY <1>2 DEF EarlyBacked
  <1>5. Backed(i) => Backed(j)
    BY DEF Backed
  <1> QED  BY <1>3, <1>4, <1>5

(* What the setting of a type does. *)
Types == {"IGNORED", "EFFECTIVE", "MANDATORY"}

Retyped(i, j, k, t) ==
    /\ SameValues(i.prefixes, j.prefixes)
    /\ j.rexOffset = i.rexOffset /\ j.attributes = i.attributes /\ DOMAIN j = DOMAIN i
    /\ Counts(j.prefixes, k) <=> t # "IGNORED"
    /\ \A m \in 0 .. Len(i.prefixes) - 1 : m # k => (Counts(j.prefixes, m) <=> Counts(i.prefixes, m))

LEMMA RetypeFact ==
    ASSUME NEW i, Fields \subseteq DOMAIN i, i.prefixes \in Seq(Prefix), NEW k, NEW v, Noted(i.prefixes, k, v),
           NEW t \in Types
    PROVE  Retyped(i, SetPrefixType(i, k, t), k, t)
  <1> DEFINE j == SetPrefixType(i, k, t)
             s == i.prefixes
             u == [s EXCEPT ![k + 1].type = t]
  <1>1. k + 1 \in 1 .. Len(s) /\ Len(s) \in Nat
    BY DEF Noted
  <1>2. s[k + 1] \in Prefix
    BY <1>1, ElementOfSeq
  <1>3. [s[k + 1] EXCEPT !.type = t] \in Prefix /\ [s[k + 1] EXCEPT !.type = t].value = s[k + 1].value
        /\ [s[k + 1] EXCEPT !.type = t].type = t
    BY <1>2 DEF Prefix, Types
  <1>4. j.prefixes = u /\ j.rexOffset = i.rexOffset /\ j.attributes = i.attributes /\ DOMAIN j = DOMAIN i
    BY DEF SetPrefixType, Fields
  <1> HIDE DEF s, j
  <1>5. u = [s EXCEPT ![k + 1] = [s[k + 1] EXCEPT !.type = t]]
    BY <1>1 DEF s
  <1> DEFINE e == [s[k + 1] EXCEPT !.type = t]
  <1> HIDE DEF e, Prefix
  <1>6. u \in Seq(Prefix) /\ Len(u) = Len(s) /\ u[k + 1] = e
        /\ \A n \in 1 .. Len(s) : n # k + 1 => u[n] = s[n]
    BY <1>1, <1>3, <1>5 DEF s, e
  <1> HIDE DEF u
  <1>7. SameValues(s, u)
    BY <1>3, <1>6 DEF SameValues, e
  <1>8. Counts(u, k) <=> t # "IGNORED"
    BY <1>3, <1>6 DEF Counts, e
  <1>9. ASSUME NEW m \in 0 .. Len(s) - 1, m # k
        PROVE  Counts(u, m) <=> Counts(s, m)
    <2>1. m + 1 \in 1 .. Len(s) /\ m + 1 # k + 1
      BY <1>1, <1>9 DEF Noted
    <2> QED  BY <2>1, <1>6 DEF Counts
  <1> QED  BY <1>4, <1>7, <1>8, <1>9 DEF s, j, Retyped

-----------------------------------------------------------------------------
(* One lemma per step *)

LEMMA CollectPrefixAInv ==
    ASSUME IInv, PrefixesInv, CollectPrefix
    PROVE  PrefixesInv'
  <1> DEFINE b == Ahead(0)
             s == ins.prefixes
             k == ins.length
             e == [value |-> b, type |-> "IGNORED"]
             q == NotePrefix(pfx, b, k)
  <1>1. /\ pc = "prefixes" /\ pc' = "prefixes" /\ b \in PrefixBytes /\ pfx' = q
        /\ ins' = [ins EXCEPT !.length = @ + 1, !.prefixes = Append(@, e),
                              !.rexOffset = IF b \in RexBytes THEN k ELSE 0,
                              !.attributes = @ \cup (IF b = OSZ THEN {"OPERANDSIZE"} ELSE {}) \cup
                                                    (IF b = ASZ THEN {"ADDRESSSIZE"} ELSE {})]
    BY DEF CollectPrefix
  <1>2. PrefixesNoted(pfx, ins) /\ k = Len(s) /\ Collecting(pfx, ins) /\ Fields \subseteq DOMAIN ins
    BY <1>1 DEF PrefixesInv, IInv, Consistent
  <1>3. pfx \in PrefixState /\ s \in Seq(Prefix) /\ k \in Nat /\ b \in Byte
    BY <1>1, <1>2, PrefixValues DEF PrefixesNoted
  <1> HIDE DEF b
  <1>4. /\ Append(s, e) \in Seq(Prefix) /\ Len(Append(s, e)) = k + 1
        /\ \A v : b \in v => Noted(Append(s, e), k, v)
        /\ \A m, v : Noted(s, m, v) => Noted(Append(s, e), m, v)
    BY <1>2, <1>3, NotedAppend
  <1>5. /\ ins'.length = k + 1 /\ ins'.prefixes = Append(s, e)
        /\ ins'.rexOffset = IF b \in RexBytes THEN k ELSE 0
        /\ ins'.attributes = ins.attributes \cup (IF b = OSZ THEN {"OPERANDSIZE"} ELSE {})
                                            \cup (IF b = ASZ THEN {"ADDRESSSIZE"} ELSE {})
    BY <1>1, <1>2 DEF Fields
  <1>6. /\ q \in PrefixState
        /\ q.lock => (b = LOCK /\ q.at.lock = k) \/ (pfx.lock /\ q.at.lock = pfx.at.lock)
        /\ q.group1 # 0 => (b = q.group1 /\ q.at.group1 = k)
           \/ (q.group1 = pfx.group1 /\ q.at.group1 = pfx.at.group1)
        /\ q.mandatory # 0 => \/ b = q.mandatory /\ q.at.mandatory = k
                              \/ q.mandatory = pfx.mandatory /\ q.at.mandatory = pfx.at.mandatory
        /\ q.group2 # 0 => (b = q.group2 /\ q.at.group2 = k)
           \/ (q.group2 = pfx.group2 /\ q.at.group2 = pfx.at.group2)
        /\ q.segment # 0 => \/ b = q.segment /\ q.at.segment = k
                            \/ q.segment = pfx.segment /\ q.at.segment = pfx.at.segment
        /\ q.at.notrack >= 0 => (b = DS /\ q.at.notrack = k) \/ q.at.notrack = pfx.at.notrack
        /\ q.at.osz = IF b = OSZ THEN k ELSE pfx.at.osz
        /\ q.at.asz = IF b = ASZ THEN k ELSE pfx.at.asz
        /\ q.rex = IF b \in RexBytes THEN b ELSE 0
        /\ q.mandatory = OSZ => b = OSZ \/ pfx.mandatory = OSZ
    BY <1>1, <1>3, NotePrefixFact
  <1> HIDE DEF e, q, k, s
  <1>7. PrefixesNoted(q, ins')
    <2> HIDE DEF PrefixState, Noted
    <2>1. q.lock => Noted(Append(s, e), q.at.lock, {LOCK})
      BY <1>2, <1>4, <1>6 DEF PrefixesNoted, s
    <2>2. q.group1 # 0 => Noted(Append(s, e), q.at.group1, {q.group1})
      BY <1>2, <1>4, <1>6 DEF PrefixesNoted, s
    <2>3. q.mandatory # 0 => Noted(Append(s, e), q.at.mandatory, {q.mandatory})
      BY <1>2, <1>4, <1>6 DEF PrefixesNoted, s
    <2>4. q.mandatory = OSZ \/ "OPERANDSIZE" \in ins'.attributes => Noted(Append(s, e), q.at.osz, {OSZ})
      BY <1>2, <1>4, <1>5, <1>6 DEF PrefixesNoted, s
    <2>5. "ADDRESSSIZE" \in ins'.attributes => Noted(Append(s, e), q.at.asz, {ASZ})
      BY <1>2, <1>4, <1>5, <1>6 DEF PrefixesNoted, s
    <2>6. q.group2 # 0 => Noted(Append(s, e), q.at.group2, {q.group2})
      BY <1>2, <1>4, <1>6 DEF PrefixesNoted, s
    <2>7. q.segment # 0 => Noted(Append(s, e), q.at.segment, {q.segment})
      BY <1>2, <1>4, <1>6 DEF PrefixesNoted, s
    <2>8. q.at.notrack >= 0 => Noted(Append(s, e), q.at.notrack, {DS})
      BY <1>2, <1>4, <1>6 DEF PrefixesNoted, s
    <2>9. q.rex # 0 => Noted(Append(s, e), ins'.rexOffset, RexBytes)
      BY <1>4, <1>5, <1>6
    <2> QED  BY <1>4, <1>5, <1>6, <2>1, <2>2, <2>3, <2>4, <2>5, <2>6, <2>7, <2>8, <2>9 DEF PrefixesNoted
  <1>8. Collecting(q, ins')
    BY <1>2, <1>5, <1>6 DEF Collecting
  <1> QED  BY <1>1, <1>4, <1>5, <1>7, <1>8 DEF PrefixesInv, Between, Parts, Complete, q

LEMMA PrefixesCollectedAInv ==
    ASSUME IInv, PrefixesInv, PrefixesCollected
    PROVE  PrefixesInv'
  <1> DEFINE s == ins.prefixes
             marked == (IF "OPERANDSIZE" \in ins.attributes THEN {pfx.at.osz} ELSE {}) \cup
                       (IF "ADDRESSSIZE" \in ins.attributes THEN {pfx.at.asz} ELSE {}) \cup
                       (IF pfx.rex # 0 THEN {ins.rexOffset} ELSE {})
             t == [k \in 1 .. Len(s) |-> IF k - 1 \in marked THEN [s[k] EXCEPT !.type = "EFFECTIVE"] ELSE s[k]]
  <1>1. /\ pc = "prefixes" /\ pc' = "tree" /\ pfx' = pfx
        /\ ins' = [ins EXCEPT !.prefixes = t, !.attributes = @ \cup (IF pfx.rex # 0 THEN {"REX"} ELSE {})]
    BY DEF PrefixesCollected, MarkEffective
  <1>2. PrefixesNoted(pfx, ins) /\ Collecting(pfx, ins) /\ Fields \subseteq DOMAIN ins
    BY <1>1 DEF PrefixesInv, IInv, Consistent
  <1>3. s \in Seq(Prefix)
    BY <1>2 DEF PrefixesNoted
  <1>4. /\ ins'.prefixes = t /\ ins'.rexOffset = ins.rexOffset
        /\ ins'.attributes = ins.attributes \cup (IF pfx.rex # 0 THEN {"REX"} ELSE {})
    BY <1>1, <1>2 DEF Fields
  <1> HIDE DEF marked
  <1>5. ASSUME NEW k \in 1 .. Len(s)
        PROVE  /\ t[k] \in Prefix /\ t[k].value = s[k].value
               /\ k - 1 \in marked => t[k].type = "EFFECTIVE"
    <2>1. s[k] \in Prefix
      BY <1>3, ElementOfSeq
    <2> HIDE DEF s
    <2> QED  BY <2>1 DEF Prefix
  <1>6. t \in Seq(Prefix) /\ Len(t) = Len(s)
    <2>1. Len(s) \in Nat
      BY <1>3
    <2> HIDE DEF s, Prefix
    <2>2. t \in [1 .. Len(s) -> Prefix]
      BY <1>5
    <2> QED  BY <2>1, <2>2
  <1> HIDE DEF s, t, Prefix
  <1>7. SameValues(s, t)
    BY <1>5, <1>6 DEF SameValues
  <1>8. ASSUME NEW k, NEW v, Noted(s, k, v), k \in marked
        PROVE  Counts(t, k)
    <2>1. k + 1 \in 1 .. Len(s) /\ (k + 1) - 1 = k
      BY <1>3, <1>8 DEF Noted
    <2> QED  BY <1>5, <1>8, <2>1 DEF Counts
  <1>9. PrefixesNoted(pfx, ins')
    BY <1>2, <1>4, <1>7, RetypedNoted DEF s
  <1>10. EarlyBacked(pfx, ins')
    <2>1. "OPERANDSIZE" \in ins.attributes => Counts(t, pfx.at.osz)
      BY <1>2, <1>8 DEF PrefixesNoted, marked, s
    <2>2. "ADDRESSSIZE" \in ins.attributes => Counts(t, pfx.at.asz)
      BY <1>2, <1>8 DEF PrefixesNoted, marked, s
    <2>3. pfx.rex # 0 => Counts(t, ins.rexOffset)
      BY <1>2, <1>8 DEF PrefixesNoted, marked, s
    <2>4. ins'.attributes \subseteq Early /\ ("REX" \in ins'.attributes => pfx.rex # 0)
      BY <1>2, <1>4 DEF Collecting, Early
    <2>5. /\ "OPERANDSIZE" \in ins'.attributes => "OPERANDSIZE" \in ins.attributes
          /\ "ADDRESSSIZE" \in ins'.attributes => "ADDRESSSIZE" \in ins.attributes
      BY <1>4
    <2>6. pfx.mandatory = OSZ => "OPERANDSIZE" \in ins.attributes
      BY <1>2 DEF Collecting
    <2> HIDE DEF Counts
    <2> QED  BY <1>4, <2>1, <2>2, <2>3, <2>4, <2>5, <2>6 DEF EarlyBacked
  <1> QED  BY <1>1, <1>9, <1>10 DEF PrefixesInv, Between, Parts, Complete

(* A step that leaves the prefixes and what stands for them alone. *)
LEMMA UntouchedAInv ==
    ASSUME PrefixesInv, pfx' = pfx, pc \in Between, pc' \in Between,
           ins'.prefixes = ins.prefixes, ins'.rexOffset = ins.rexOffset,
           ins'.attributes \cap DOMAIN PrefixOf = ins.attributes \cap DOMAIN PrefixOf
    PROVE  PrefixesInv'
  <1>1. PrefixesNoted(pfx, ins) /\ EarlyBacked(pfx, ins)
    BY DEF PrefixesInv
  <1>2. PrefixesNoted(pfx, ins') /\ EarlyBacked(pfx, ins')
    BY <1>1, UntouchedFact
  <1>3. pc' # "prefixes" /\ pc' \notin Complete
    BY DEF Between, Parts, Complete
  <1> QED  BY <1>2, <1>3 DEF PrefixesInv

LEMMA FailAInv ==
    ASSUME NEW r, Fail(r)
    PROVE  PrefixesInv'
  BY DEF Fail, PrefixesInv, Between, Parts, Complete

(* What a filter does with the type of one prefix. *)
LEMMA OperandSizeAInv ==
    ASSUME IInv, PrefixesInv, NodeHandlerOperandSize
    PROVE  PrefixesInv'
  <1>1. pc = "tree" /\ pc' = "tree" /\ pfx' = pfx
    BY DEF NodeHandlerOperandSize
  <1>2. PrefixesNoted(pfx, ins) /\ EarlyBacked(pfx, ins) /\ Fields \subseteq DOMAIN ins /\ pc' \in Between
    BY <1>1 DEF PrefixesInv, Between, IInv, Consistent
  <1>3. CASE ~(vu.W = 0 /\ "OPERANDSIZE" \in ins.attributes)
    <2>1. ins' = ins
      BY <1>3 DEF NodeHandlerOperandSize
    <2> QED  BY <1>1, <1>2, <2>1, UntouchedAInv DEF Between
  <1>4. CASE vu.W = 0 /\ "OPERANDSIZE" \in ins.attributes
    <2>1. ins' = SetPrefixType(ins, pfx.at.osz, "EFFECTIVE") /\ Noted(ins.prefixes, pfx.at.osz, {OSZ})
      BY <1>2, <1>4 DEF NodeHandlerOperandSize, PrefixesNoted
    <2>2. /\ SameValues(ins.prefixes, ins'.prefixes)
          /\ ins'.rexOffset = ins.rexOffset /\ ins'.attributes = ins.attributes
          /\ Counts(ins'.prefixes, pfx.at.osz)
          /\ \A m \in 0 .. Len(ins.prefixes) - 1 :
                 m # pfx.at.osz => (Counts(ins'.prefixes, m) <=> Counts(ins.prefixes, m))
      <3>1. ins.prefixes \in Seq(Prefix)
        BY <1>2 DEF PrefixesNoted
      <3>2. "EFFECTIVE" \in Types /\ "EFFECTIVE" # "IGNORED"
        BY DEF Types
      <3>3. Retyped(ins, ins', pfx.at.osz, "EFFECTIVE")
        BY <1>2, <2>1, <3>1, <3>2, RetypeFact
      <3> QED  BY <3>2, <3>3 DEF Retyped
    <2>3. PrefixesNoted(pfx, ins')
      BY <1>2, <2>2, RetypedNoted
    <2>4. EarlyBacked(pfx, ins')
      <3>1. \A k, v : Noted(ins.prefixes, k, v) => k \in 0 .. Len(ins.prefixes) - 1
        BY DEF Noted
      <3> HIDE DEF Noted, Counts
      <3> QED  BY <1>2, <2>2, <3>1 DEF EarlyBacked, PrefixesNoted
    <2> QED  BY <1>1, <1>2, <2>3, <2>4 DEF PrefixesInv, Between, Parts, Complete
  <1> QED  BY <1>3, <1>4

LEMMA MandatoryAInv ==
    ASSUME IInv, PrefixesInv, NodeHandlerMandatoryPrefix
    PROVE  PrefixesInv'
  <1>1. pc = "tree" /\ pc' = "tree" /\ pfx' = pfx
    BY DEF NodeHandlerMandatoryPrefix
  <1>2. PrefixesNoted(pfx, ins) /\ EarlyBacked(pfx, ins) /\ Fields \subseteq DOMAIN ins /\ pc' \in Between
    BY <1>1 DEF PrefixesInv, Between, IInv, Consistent
  <1>3. CASE pfx.mandatory = 0
    <2>1. ins' = ins
      BY <1>3 DEF NodeHandlerMandatoryPrefix
    <2> QED  BY <1>1, <1>2, <2>1, UntouchedAInv DEF Between
  <1>4. CASE pfx.mandatory # 0
    <2> DEFINE j == SetPrefixType(ins, pfx.at.mandatory, "MANDATORY")
    <2>1. /\ ins' = [j EXCEPT !.attributes = IF pfx.mandatory = OSZ THEN @ \ {"OPERANDSIZE"} ELSE @]
          /\ Noted(ins.prefixes, pfx.at.mandatory, {pfx.mandatory})
      BY <1>2, <1>4 DEF NodeHandlerMandatoryPrefix, PrefixesNoted
    <2>2. /\ SameValues(ins.prefixes, j.prefixes)
          /\ j.rexOffset = ins.rexOffset /\ j.attributes = ins.attributes /\ DOMAIN j = DOMAIN ins
          /\ Counts(j.prefixes, pfx.at.mandatory)
          /\ \A m \in 0 .. Len(ins.prefixes) - 1 :
                 m # pfx.at.mandatory => (Counts(j.prefixes, m) <=> Counts(ins.prefixes, m))
      <3>1. ins.prefixes \in Seq(Prefix)
        BY <1>2 DEF PrefixesNoted
      <3>2. "MANDATORY" \in Types /\ "MANDATORY" # "IGNORED"
        BY DEF Types
      <3>3. Retyped(ins, j, pfx.at.mandatory, "MANDATORY")
        BY <1>2, <2>1, <3>1, <3>2, RetypeFact
      <3> QED  BY <3>2, <3>3 DEF Retyped
    <2> HIDE DEF j
    <2>3. /\ ins'.prefixes = j.prefixes /\ ins'.rexOffset = ins.rexOffset
          /\ ins'.attributes \subseteq ins.attributes
      BY <1>2, <2>1, <2>2 DEF Fields
    <2>4. PrefixesNoted(pfx, ins')
      BY <1>2, <2>2, <2>3, RetypedNoted
    <2>5. EarlyBacked(pfx, ins')
      <3>1. \A k, v : Noted(ins.prefixes, k, v) => k \in 0 .. Len(ins.prefixes) - 1
        BY DEF Noted
      <3> HIDE DEF Noted, Counts
      <3> QED  BY <1>2, <2>2, <2>3, <3>1 DEF EarlyBacked, PrefixesNoted
    <2> QED  BY <1>1, <1>2, <2>4, <2>5 DEF PrefixesInv, Between, Parts, Complete
  <1> QED  BY <1>3, <1>4

(* A mandatory prefix that is given back: an F2 or F3 has no other use; of two 66  *)
(* the last one is effective again or still.                                       *)
LEMMA DeadEndAInv ==
    ASSUME IInv, PrefixesInv, DeadEnd
    PROVE  PrefixesInv'
  <1>1. CASE temp = None
    BY <1>1, FailAInv DEF DeadEnd
  <1>2. CASE temp # None
    <2>1. pc = "tree" /\ pc' = "tree" /\ pfx' = pfx
      BY <1>2 DEF DeadEnd
    <2>2. PrefixesNoted(pfx, ins) /\ EarlyBacked(pfx, ins) /\ Fields \subseteq DOMAIN ins /\ pc' \in Between
      BY <2>1 DEF PrefixesInv, Between, IInv, Consistent
    <2>3. pfx.mandatory \in {0, OSZ, REPE, REPNE} /\ OSZ \notin {0, REPE, REPNE} /\ 0 \notin {REPE, REPNE}
      BY DEF IInv, Consistent, OSZ, REPE, REPNE
    <2>4. CASE pfx.mandatory = 0
      <3>1. ins' = ins
        BY <1>2, <2>3, <2>4 DEF DeadEnd
      <3> QED  BY <2>1, <2>2, <3>1, UntouchedAInv DEF Between
    <2>5. CASE pfx.mandatory # 0
      <3> DEFINE t == IF pfx.mandatory = OSZ /\ pfx.at.osz = pfx.at.mandatory THEN "EFFECTIVE" ELSE "IGNORED"
                 j == SetPrefixType(ins, pfx.at.mandatory, t)
      <3>1. /\ pfx.mandatory = OSZ => ins' = [j EXCEPT !.attributes = @ \cup {"OPERANDSIZE"}]
            /\ pfx.mandatory # OSZ => ins' = j
        BY <1>2, <2>3, <2>5 DEF DeadEnd
      <3>2. Noted(ins.prefixes, pfx.at.mandatory, {pfx.mandatory})
        BY <2>2, <2>5 DEF PrefixesNoted
      <3>3. t \in Types
            /\ (t = "EFFECTIVE" <=> pfx.mandatory = OSZ /\ pfx.at.osz = pfx.at.mandatory)
        BY DEF Types
      <3> HIDE DEF t
      <3>4. /\ SameValues(ins.prefixes, j.prefixes)
            /\ j.rexOffset = ins.rexOffset /\ j.attributes = ins.attributes /\ DOMAIN j = DOMAIN ins
            /\ Counts(j.prefixes, pfx.at.mandatory) <=> t # "IGNORED"
            /\ \A m \in 0 .. Len(ins.prefixes) - 1 :
                   m # pfx.at.mandatory => (Counts(j.prefixes, m) <=> Counts(ins.prefixes, m))
        <4>1. ins.prefixes \in Seq(Prefix)
          BY <2>2 DEF PrefixesNoted
        <4>2. Retyped(ins, j, pfx.at.mandatory, t)
          BY <2>2, <3>2, <3>3, <4>1, RetypeFact
        <4> QED  BY <4>2 DEF Retyped
      <3> HIDE DEF j
      <3>5. /\ ins'.prefixes = j.prefixes /\ ins'.rexOffset = ins.rexOffset
            /\ ins'.attributes = ins.attributes \cup (IF pfx.mandatory = OSZ THEN {"OPERANDSIZE"} ELSE {})
        BY <2>2, <3>1, <3>4 DEF Fields
      <3>6. PrefixesNoted(pfx, ins')
        BY <2>2, <3>4, <3>5, RetypedNoted
      <3>7. \A m, b : Noted(ins.prefixes, m, {b}) /\ b # pfx.mandatory => m # pfx.at.mandatory
        BY <3>2 DEF Noted
      <3>8. \A m, v : Noted(ins.prefixes, m, v) => m \in 0 .. Len(ins.prefixes) - 1
        BY DEF Noted
      <3>9. "REX" \in ins.attributes => ins.rexOffset # pfx.at.mandatory
        <4>1. pfx.mandatory \notin RexBytes
          BY <2>3, PrefixValues
        <4> QED  BY <2>2, <3>2, <4>1 DEF EarlyBacked, PrefixesNoted, Noted
      <3>10. "ADDRESSSIZE" \in ins.attributes => pfx.at.asz # pfx.at.mandatory
        <4>1. pfx.mandatory # ASZ
          BY <2>3, PrefixValues
        <4> HIDE DEF Noted
        <4> QED  BY <2>2, <3>7, <4>1 DEF PrefixesNoted
      <3>11. pfx.mandatory # OSZ /\ "OPERANDSIZE" \in ins.attributes => pfx.at.osz # pfx.at.mandatory
        BY <2>2, <3>7 DEF PrefixesNoted
      <3>12. pfx.mandatory = OSZ => Counts(ins'.prefixes, pfx.at.osz)
        <4> HIDE DEF Noted, Counts
        <4> QED  BY <2>2, <3>3, <3>4, <3>5, <3>8 DEF EarlyBacked, PrefixesNoted
      <3>13. "OPERANDSIZE" \in ins'.attributes => Counts(ins'.prefixes, pfx.at.osz)
        <4> HIDE DEF Noted, Counts
        <4> QED  BY <2>2, <3>4, <3>5, <3>8, <3>11, <3>12 DEF EarlyBacked, PrefixesNoted
      <3>14. "ADDRESSSIZE" \in ins'.attributes => Counts(ins'.prefixes, pfx.at.asz)
        <4> HIDE DEF Noted, Counts
        <4> QED  BY <2>2, <3>4, <3>5, <3>8, <3>10 DEF EarlyBacked, PrefixesNoted
      <3>15. "REX" \in ins'.attributes => pfx.rex # 0 /\ Counts(ins'.prefixes, ins'.rexOffset)
        <4> HIDE DEF Noted, Counts
        <4> QED  BY <2>2, <3>4, <3>5, <3>8, <3>9 DEF EarlyBacked, PrefixesNoted
      <3>16. ins'.attributes \cap DOMAIN PrefixOf \subseteq Early
        BY <2>2, <3>5 DEF EarlyBacked, Early
      <3>17. EarlyBacked(pfx, ins')
        <4> HIDE DEF Counts, Early
        <4> QED  BY <3>12, <3>13, <3>14, <3>15, <3>16 DEF EarlyBacked
      <3> QED  BY <2>1, <2>2, <3>6, <3>17 DEF PrefixesInv, Between, Parts, Complete
    <2> QED  BY <2>4, <2>5
  <1> QED  BY <1>1, <1>2

LEMMA WalkAInv ==
    ASSUME IInv, PrefixesInv, WalkTree
    PROVE  PrefixesInv'
  <1> DEFINE harmless == {"MODRM", "VEX", "EVEX", "MVEX", "XOP"}
  <1>1. Fields \subseteq DOMAIN ins /\ harmless \cap DOMAIN PrefixOf = {}
    BY DEF IInv, Consistent, PrefixOf
  <1>2. ASSUME pc = "tree", pc' \in {"tree", "modrm"}, pfx' = pfx,
               ins'.prefixes = ins.prefixes, ins'.rexOffset = ins.rexOffset,
               \E a \in SUBSET harmless : ins'.attributes = ins.attributes \cup a
        PROVE  PrefixesInv'
    <2>1. ins'.attributes \cap DOMAIN PrefixOf = ins.attributes \cap DOMAIN PrefixOf
      BY <1>1, <1>2
    <2>2. pc \in Between /\ pc' \in Between
      BY <1>2 DEF Between, Parts
    <2> QED  BY <1>2, <2>1, <2>2, UntouchedAInv
  <1>3. CASE NodeHandlerOpcode
    <2>1. CASE Fail(OpcodeStatus)
      BY <2>1, FailAInv
    <2>2. CASE ~Fail(OpcodeStatus)
      <3>1. pc = "tree" /\ pc' = "tree" /\ pfx' = pfx
            /\ (VectorOpcode \/ LegacyOpcode \/ OpcodeAfterPrefix \/ PlaceholderOpcode)
        BY <1>3, <2>2 DEF NodeHandlerOpcode
      <3>2. ins'.prefixes = ins.prefixes /\ ins'.rexOffset = ins.rexOffset
        BY <3>1, <1>1 DEF VectorOpcode, LegacyOpcode, OpcodeAfterPrefix, PlaceholderOpcode, Fields
      <3>3. \E a \in SUBSET harmless : ins'.attributes = ins.attributes \cup a
        <4>1. CASE VectorOpcode
          <5>1. ins'.attributes = ins.attributes \cup {EscapeEncoding(Ahead(0))}
            BY <4>1, <1>1 DEF VectorOpcode, Fields
          <5>2. Ahead(0) \in {98, 143, 196, 197}
            BY <4>1 DEF VectorOpcode, IsEscape, VectorBytes
          <5>3. EscapeEncoding(Ahead(0)) \in harmless
            BY <5>2 DEF EscapeEncoding
          <5> QED  BY <5>1, <5>3
        <4>2. CASE LegacyOpcode \/ OpcodeAfterPrefix \/ PlaceholderOpcode
          <5>1. ins'.attributes = ins.attributes \cup {}
            BY <4>2, <1>1 DEF LegacyOpcode, OpcodeAfterPrefix, PlaceholderOpcode, Fields
          <5> QED  BY <5>1
        <4> QED  BY <3>1, <4>1, <4>2
      <3> QED  BY <1>2, <3>1, <3>2, <3>3
    <2> QED  BY <2>1, <2>2
  <1>4. CASE NodeHandlerModrm
    <2>1. CASE Fail(InputStatus(1))
      BY <2>1, FailAInv
    <2>2. CASE ~Fail(InputStatus(1))
      <3>1. pc = "tree" /\ pc' = "tree" /\ pfx' = pfx /\ ins' \in {DecodeModRM(ins), ins}
        BY <1>4, <2>2 DEF NodeHandlerModrm
      <3>2. /\ ins'.prefixes = ins.prefixes /\ ins'.rexOffset = ins.rexOffset
            /\ ins'.attributes = ins.attributes \cup {"MODRM"} \/ ins'.attributes = ins.attributes \cup {}
        BY <3>1, <1>1 DEF DecodeModRM, Fields
      <3> QED  BY <1>2, <3>1, <3>2
    <2> QED  BY <2>1, <2>2
  <1>5. CASE NodeHandlerLooking
    <2>1. CASE Fail("DECODING_ERROR")
      BY <2>1, FailAInv
    <2>2. CASE ~Fail("DECODING_ERROR")
      <3>1. pc = "tree" /\ pc' = "tree" /\ pfx' = pfx /\ ins' = ins
        BY <1>5, <2>2 DEF NodeHandlerLooking
      <3>2. ins'.attributes = ins.attributes \cup {}
        BY <3>1
      <3> QED  BY <1>2, <3>1, <3>2
    <2> QED  BY <2>1, <2>2
  <1>6. CASE FoundDefinition
    <2>1. /\ pc = "tree" /\ pc' = "modrm" /\ pfx' = pfx
          /\ ins'.prefixes = ins.prefixes /\ ins'.rexOffset = ins.rexOffset
          /\ ins'.attributes = ins.attributes \cup {}
      BY <1>6, <1>1 DEF FoundDefinition, Fields
    <2> QED  BY <1>2, <2>1
  <1> QED
    BY <1>3, <1>4, <1>5, <1>6, OperandSizeAInv, MandatoryAInv, DeadEndAInv DEF WalkTree

LEMMA PartsAInv ==
    ASSUME IInv, PrefixesInv, DecodeOptionalInstructionParts
    PROVE  PrefixesInv'
  <1> DEFINE harmless == {"MODRM", "SIB", "RELATIVE"}
  <1>1. Fields \subseteq DOMAIN ins /\ harmless \cap DOMAIN PrefixOf = {}
    BY DEF IInv, Consistent, PrefixOf
  <1>2. ASSUME pc \in Parts, pc' \in Parts \cup {"check"}, pfx' = pfx,
               ins'.prefixes = ins.prefixes, ins'.rexOffset = ins.rexOffset,
               \E a \in SUBSET harmless : ins'.attributes = ins.attributes \cup a
        PROVE  PrefixesInv'
    <2>1. ins'.attributes \cap DOMAIN PrefixOf = ins.attributes \cap DOMAIN PrefixOf
      BY <1>1, <1>2
    <2>2. pc \in Between /\ pc' \in Between
      BY <1>2 DEF Between
    <2> QED  BY <1>2, <2>1, <2>2, UntouchedAInv
  <1>3. CASE \E s : Fail(s)
    BY <1>3, FailAInv
  <1>4. CASE ~(\E s : Fail(s))
    <2>1. CASE ReadModrm
      <3>1. pc = "modrm" /\ pc' = "sib" /\ pfx' = pfx /\ ins' \in {DecodeModRM(ins), ins}
        BY <1>4, <2>1 DEF ReadModrm
      <3>2. /\ ins'.prefixes = ins.prefixes /\ ins'.rexOffset = ins.rexOffset
            /\ ins'.attributes = ins.attributes \cup {"MODRM"} \/ ins'.attributes = ins.attributes \cup {}
        BY <3>1, <1>1 DEF DecodeModRM, Fields
      <3> QED  BY <1>2, <3>1, <3>2 DEF Parts
    <2>2. CASE ReadSib
      <3>1. /\ pc = "sib" /\ pc' = "disp" /\ pfx' = pfx
            /\ ins'.prefixes = ins.prefixes /\ ins'.rexOffset = ins.rexOffset
            /\ ins'.attributes = ins.attributes \cup {"SIB"} \/ ins'.attributes = ins.attributes \cup {}
        BY <1>1, <1>4, <2>2 DEF ReadSib, Fields
      <3> QED  BY <1>2, <3>1 DEF Parts
    <2>3. CASE ReadDisplacement
      <3>1. /\ pc = "disp" /\ pc' = "imm" /\ pfx' = pfx
            /\ ins'.prefixes = ins.prefixes /\ ins'.rexOffset = ins.rexOffset
            /\ ins'.attributes = ins.attributes \cup (IF RipRelative THEN {"RELATIVE"} ELSE {})
        BY <1>1, <1>4, <2>3 DEF ReadDisplacement, Fields
      <3> QED  BY <1>2, <3>1 DEF Parts
    <2>4. CASE ReadImmediate
      <3>1. /\ pc = "imm" /\ pc' \in {"imm", "check"} /\ pfx' = pfx
            /\ ins'.prefixes = ins.prefixes /\ ins'.rexOffset = ins.rexOffset
            /\ ins'.attributes = ins.attributes \cup {"RELATIVE"} \/ ins'.attributes = ins.attributes \cup {}
        <4>1. CASE Len(ins.imm) = Len(Def.imm)
          <5>1. pc = "imm" /\ pc' = "check" /\ pfx' = pfx /\ ins' = ins
            BY <2>4, <4>1 DEF ReadImmediate
          <5> QED  BY <5>1
        <4>2. CASE Len(ins.imm) # Len(Def.imm)
          <5> DEFINE info == Def.imm[Len(ins.imm) + 1]
          <5>1. /\ pc = "imm" /\ pc' = "imm" /\ pfx' = pfx
                /\ ins'.prefixes = ins.prefixes /\ ins'.rexOffset = ins.rexOffset
                /\ ins'.attributes = ins.attributes \cup (IF info.relative THEN {"RELATIVE"} ELSE {})
            BY <1>1, <1>4, <2>4, <4>2 DEF ReadImmediate, Fields
          <5> QED  BY <5>1
        <4> QED  BY <4>1, <4>2
      <3> QED  BY <1>2, <3>1 DEF Parts
    <2> QED  BY <2>1, <2>2, <2>3, <2>4 DEF DecodeOptionalInstructionParts
  <1> QED  BY <1>3, <1>4

(* What SetAttributes adds comes from a byte that was noted, which it marks. *)
LEMMA AddedBacked ==
    ASSUME IInv, PrefixesNoted(pfx, ins),
           NEW a \in Segment \cup (IF ins.encoding = "LEGACY"
                                  THEN (IF LockUsed THEN {"LOCK"} ELSE {}) \cup Group1Meaning \cup BranchHint
                                  \cup NoTrack
                                  ELSE {}),
           a \in DOMAIN PrefixOf
    PROVE  \E k : Noted(ins.prefixes, k, PrefixOf[a]) /\ (k \in PrefixesInUse \/ Counts(ins.prefixes, k))
  <1>0. ins.prefixes \in Seq(Prefix) /\ pfx \in PrefixState
    BY DEF PrefixesNoted
  <1>1. CASE a \in Segment
    <2>1. pfx.segment # 0 /\ a = (IF pfx.segment = 100 THEN "SEGMENT_FS" ELSE "SEGMENT_GS")
          /\ pfx.at.segment \in PrefixesInUse
      BY <1>1 DEF Segment, PrefixesInUse
    <2>2. pfx.segment \in {100, 101}
      BY <1>0, <2>1 DEF PrefixState, LiveSegments
    <2>3. Noted(ins.prefixes, pfx.at.segment, {pfx.segment})
      BY <2>1 DEF PrefixesNoted
    <2>4. PrefixOf[a] = {pfx.segment}
      BY <2>1, <2>2 DEF PrefixOf
    <2> QED  BY <2>1, <2>3, <2>4
  <1>2. CASE ins.encoding = "LEGACY" /\ LockUsed /\ a = "LOCK"
    <2>1. pfx.lock /\ pfx.at.lock \in PrefixesInUse /\ PrefixOf[a] = {LOCK}
      BY <1>2 DEF LockUsed, PrefixesInUse, PrefixOf
    <2> QED  BY <2>1 DEF PrefixesNoted
  <1>3. CASE ins.encoding = "LEGACY" /\ a \in Group1Meaning
    <2>1. /\ pfx.group1 \in {REPNE, REPE} /\ pfx.group1 # 0
          /\ pfx.group1 = REPNE => a \in {"REPNE", "XACQUIRE", "BND"}
          /\ pfx.group1 = REPE => a \in {"REP", "REPE", "XRELEASE"}
      BY <1>3, PrefixValues DEF Group1Meaning
    <2>2. PrefixOf[a] = {pfx.group1}
      BY <2>1 DEF PrefixOf
    <2>3. Noted(ins.prefixes, pfx.at.group1, {pfx.group1})
      BY <2>1 DEF PrefixesNoted
    <2>4. pfx.at.group1 \in PrefixesInUse \/ Counts(ins.prefixes, pfx.at.group1)
      BY <1>3 DEF PrefixesInUse, Counts
    <2> QED  BY <2>2, <2>3, <2>4
  <1>4. CASE ins.encoding = "LEGACY" /\ a \in BranchHint
    <2>1. /\ (pfx.group2 = 46 /\ a = "BRANCH_NOT_TAKEN") \/ (pfx.group2 = DS /\ a = "BRANCH_TAKEN")
          /\ pfx.at.group2 \in PrefixesInUse
      <3>1. pfx.at.group2 \in PrefixesInUse
        BY <1>4 DEF PrefixesInUse
      <3>2. (pfx.group2 = 46 /\ a = "BRANCH_NOT_TAKEN") \/ (pfx.group2 = DS /\ a = "BRANCH_TAKEN")
        BY <1>4 DEF BranchHint
      <3> QED  BY <3>1, <3>2
    <2>2. pfx.group2 # 0 /\ PrefixOf[a] = {pfx.group2}
      BY <2>1, PrefixValues DEF PrefixOf
    <2>3. Noted(ins.prefixes, pfx.at.group2, {pfx.group2})
      BY <2>2 DEF PrefixesNoted
    <2> QED  BY <2>1, <2>2, <2>3
  <1>5. CASE ins.encoding = "LEGACY" /\ a \in NoTrack
    <2>1. pfx.at.notrack >= 0 /\ a = "NOTRACK" /\ pfx.at.notrack \in PrefixesInUse
      BY <1>5 DEF NoTrack, PrefixesInUse
    <2>2. PrefixOf[a] = {DS}
      BY <2>1 DEF PrefixOf
    <2>3. Noted(ins.prefixes, pfx.at.notrack, {DS})
      BY <2>1 DEF PrefixesNoted
    <2> QED  BY <2>1, <2>2, <2>3
  <1> QED  BY <1>1, <1>2, <1>3, <1>4, <1>5

LEMMA SetAttributesAInv ==
    ASSUME IInv, PrefixesInv, SetAttributes
    PROVE  PrefixesInv'
  <1> DEFINE s == ins.prefixes
             t == [k \in DOMAIN s |-> IF k - 1 \in PrefixesInUse THEN [s[k] EXCEPT !.type = "EFFECTIVE"] ELSE s[k]]
             added == Segment \cup (IF ins.encoding = "LEGACY"
                                   THEN (IF LockUsed THEN {"LOCK"} ELSE {}) \cup Group1Meaning \cup BranchHint
                                   \cup NoTrack
                                   ELSE {})
  <1>1. /\ pc = "attributes" /\ pc' = "decoded" /\ pfx' = pfx
        /\ ins' = [ins EXCEPT !.attributes = @ \cup Segment \cup
                       (IF ins.encoding = "LEGACY"
                        THEN (IF LockUsed THEN {"LOCK"} ELSE {}) \cup Group1Meaning \cup BranchHint \cup NoTrack
                        ELSE {}),
                       !.prefixes = t]
    BY DEF SetAttributes
  <1>2. PrefixesNoted(pfx, ins) /\ EarlyBacked(pfx, ins) /\ Fields \subseteq DOMAIN ins
    BY <1>1 DEF PrefixesInv, Between, IInv, Consistent
  <1>3. s \in Seq(Prefix)
    BY <1>2 DEF PrefixesNoted
  <1>4. ins'.prefixes = t /\ ins'.attributes = ins.attributes \cup added
    BY <1>1, <1>2 DEF Fields
  <1> HIDE DEF added
  <1>5. ASSUME NEW k, NEW v, Noted(s, k, v), k \in PrefixesInUse \/ Counts(s, k)
        PROVE  \E n \in DOMAIN t : t[n].value \in v /\ t[n].type # "IGNORED"
    <2>1. k + 1 \in 1 .. Len(s) /\ (k + 1) - 1 = k /\ s[k + 1].value \in v
      BY <1>3, <1>5 DEF Noted
    <2>2. s[k + 1] \in Prefix /\ k + 1 \in DOMAIN s
      BY <1>3, <2>1, ElementOfSeq
    <2>3. t[k + 1].value \in v /\ t[k + 1].type # "IGNORED"
      <3> HIDE DEF s
      <3>1. CASE k \in PrefixesInUse
        <4>1. t[k + 1] = [s[k + 1] EXCEPT !.type = "EFFECTIVE"]
          BY <2>1, <2>2, <3>1
        <4> QED  BY <2>1, <2>2, <4>1 DEF Prefix
      <3>2. CASE k \notin PrefixesInUse
        <4>1. t[k + 1] = s[k + 1]
          BY <2>1, <2>2, <3>2
        <4> QED  BY <1>5, <2>1, <3>2, <4>1 DEF Counts
      <3> QED  BY <3>1, <3>2
    <2> QED  BY <2>2, <2>3
  <1> HIDE DEF s, t
  <1>6. ASSUME NEW a \in ins'.attributes \cap DOMAIN PrefixOf
        PROVE  \E n \in DOMAIN t : t[n].value \in PrefixOf[a] /\ t[n].type # "IGNORED"
    <2>1. CASE a \in added
      <3>1. \E k : Noted(s, k, PrefixOf[a]) /\ (k \in PrefixesInUse \/ Counts(s, k))
        BY <1>2, <2>1, <1>6, AddedBacked DEF added, s
      <3> QED  BY <1>5, <3>1
    <2>2. CASE a \in ins.attributes
      <3>1. a \in Early
        BY <1>2, <2>2, <1>6 DEF EarlyBacked
      <3>2. CASE a = "OPERANDSIZE"
        <4>1. Noted(s, pfx.at.osz, {OSZ}) /\ Counts(s, pfx.at.osz) /\ PrefixOf[a] = {OSZ}
          BY <1>2, <2>2, <3>2 DEF PrefixesNoted, EarlyBacked, PrefixOf, s
        <4> QED  BY <1>5, <4>1
      <3>3. CASE a = "ADDRESSSIZE"
        <4>1. Noted(s, pfx.at.asz, {ASZ}) /\ Counts(s, pfx.at.asz) /\ PrefixOf[a] = {ASZ}
          BY <1>2, <2>2, <3>3 DEF PrefixesNoted, EarlyBacked, PrefixOf, s
        <4> QED  BY <1>5, <4>1
      <3>4. CASE a = "REX"
        <4>1. Noted(s, ins.rexOffset, RexBytes) /\ Counts(s, ins.rexOffset) /\ PrefixOf[a] = RexBytes
          BY <1>2, <2>2, <3>4 DEF PrefixesNoted, EarlyBacked, PrefixOf, s
        <4> QED  BY <1>5, <4>1
      <3> QED  BY <3>1, <3>2, <3>3, <3>4 DEF Early
    <2> QED  BY <1>4, <1>6, <2>1, <2>2
  <1>7. Backed(ins')
    BY <1>4, <1>6 DEF Backed
  <1> QED  BY <1>1, <1>7 DEF PrefixesInv, Between, Parts, Complete

LEMMA StepAInv ==
    ASSUME IInv, PrefixesInv, DecodeStep
    PROVE  PrefixesInv'
  <1>1. CASE CollectOptionalPrefixes
    BY <1>1, CollectPrefixAInv, PrefixesCollectedAInv, FailAInv DEF CollectOptionalPrefixes, PrefixesEndEarly
  <1>2. CASE CheckErrorConditions
    <2>1. CASE Fail(ErrorCondition)
      BY <2>1, FailAInv
    <2>2. CASE ~Fail(ErrorCondition)
      <3>1. pc = "check" /\ pc' \in {"suffix", "attributes"} /\ pfx' = pfx /\ ins' = ins
        BY <1>2, <2>2 DEF CheckErrorConditions
      <3> QED  BY <3>1, UntouchedAInv DEF Between
    <2> QED  BY <2>1, <2>2
  <1>3. CASE OpcodeSuffix
    <2>1. CASE Fail(InputStatus(1)) \/ Fail("DECODING_ERROR")
      BY <2>1, FailAInv
    <2>2. CASE ~(Fail(InputStatus(1)) \/ Fail("DECODING_ERROR"))
      <3>1. /\ pc = "suffix" /\ pc' = "attributes" /\ pfx' = pfx
            /\ ins' = [ins EXCEPT !.length = @ + 1, !.opcode = Ahead(0)]
        BY <1>3, <2>2 DEF OpcodeSuffix
      <3>2. /\ ins'.prefixes = ins.prefixes /\ ins'.rexOffset = ins.rexOffset
            /\ ins'.attributes = ins.attributes
        BY <3>1 DEF IInv, Consistent, Fields
      <3> QED  BY <3>1, <3>2, UntouchedAInv DEF Between
    <2> QED  BY <2>1, <2>2
  <1> QED  BY <1>1, <1>2, <1>3, WalkAInv, PartsAInv, SetAttributesAInv DEF DecodeStep

(* What a call starts with; no prefix has been seen. *)
LEMMA ClearedAInv ==
    ASSUME ins' = EmptyInstruction, pfx' = NoPrefixes, pc' \in {"prefixes", "failed"}
    PROVE  PrefixesInv'
  <1>1. EmptyInstruction.length = 0 /\ EmptyInstruction.prefixes = <<>> /\ EmptyInstruction.attributes = {}
    BY DEF EmptyInstruction
  <1>2. /\ NoPrefixes \in PrefixState /\ NoPrefixes.lock = FALSE /\ NoPrefixes.group1 = 0 /\ NoPrefixes.group2 = 0
        /\ NoPrefixes.segment = 0 /\ NoPrefixes.mandatory = 0 /\ NoPrefixes.rex = 0 /\ NoPrefixes.at.notrack = -1
    BY DEF NoPrefixes, PrefixState, Places
  <1>3. PrefixesNoted(NoPrefixes, EmptyInstruction)
    BY <1>1, <1>2, PrefixValues DEF PrefixesNoted
  <1>4. Collecting(NoPrefixes, EmptyInstruction)
    BY <1>1, <1>2, PrefixValues DEF Collecting
  <1> QED  BY <1>1, <1>3, <1>4 DEF PrefixesInv, Between, Parts, Complete

LEMMA AdvanceAInv ==
    ASSUME PrefixesInv, ListingBacked, Advance
    PROVE  PrefixesInv' /\ ListingBacked'
  <1>1. pc = "full" /\ listing' = Append(listing, Decoded) /\ Decoded.ins = ins
        /\ ins' = EmptyInstruction /\ pfx' = NoPrefixes /\ pc' \in {"prefixes", "failed"}
    BY DEF Advance, Cleared, StartOf, Decoded
  <1>2. PrefixesInv'
    BY <1>1, ClearedAInv
  <1>3. Backed(ins)
    BY <1>1 DEF PrefixesInv, Complete
  <1>4. PICK S : listing \in Seq(S)
    BY DEF ListingBacked
  <1> DEFINE T == S \cup {Decoded}
  <1>5. listing \in Seq(T) /\ Decoded \in T
    BY <1>4, SeqMonotonic
  <1> HIDE DEF T
  <1>6. ASSUME NEW k \in DOMAIN listing'
        PROVE  Backed(listing'[k].ins)
    <2>1. /\ DOMAIN listing' = 1 .. Len(listing) + 1 /\ Len(listing) \in Nat
          /\ k \in 1 .. Len(listing) => listing'[k] = listing[k] /\ k \in DOMAIN listing
          /\ k = Len(listing) + 1 => listing'[k] = Decoded
      BY <1>1, <1>5
    <2> QED  BY <1>1, <1>3, <1>6, <2>1 DEF ListingBacked
  <1>7. listing' \in Seq(T)
    BY <1>1, <1>5
  <1> QED  BY <1>2, <1>6, <1>7 DEF ListingBacked

LEMMA InitAInv == StreamInit => PrefixesInv /\ ListingBacked
  <1> SUFFICES ASSUME StreamInit PROVE PrefixesInv /\ ListingBacked
    OBVIOUS
  <1>1. PICK b \in Buffers : Start(b)
    BY DEF StreamInit, DecodedInit, Init
  <1>2. ins = EmptyInstruction /\ pfx = NoPrefixes /\ pc \in {"prefixes", "failed"} /\ listing = <<>>
    BY <1>1 DEF Start, StartOf, StreamInit
  <1>3. /\ EmptyInstruction.length = 0 /\ EmptyInstruction.prefixes = <<>> /\ EmptyInstruction.attributes = {}
        /\ NoPrefixes \in PrefixState /\ NoPrefixes.lock = FALSE /\ NoPrefixes.group1 = 0 /\ NoPrefixes.group2 = 0
        /\ NoPrefixes.segment = 0 /\ NoPrefixes.mandatory = 0 /\ NoPrefixes.rex = 0 /\ NoPrefixes.at.notrack = -1
    BY DEF EmptyInstruction, NoPrefixes, PrefixState, Places
  <1>4. PrefixesNoted(NoPrefixes, EmptyInstruction)
    BY <1>3, PrefixValues DEF PrefixesNoted
  <1>5. Collecting(NoPrefixes, EmptyInstruction)
    BY <1>3, PrefixValues DEF Collecting
  <1>6. PrefixesInv
    BY <1>2, <1>3, <1>4, <1>5 DEF PrefixesInv, Between, Parts, Complete
  <1>7. ListingBacked
    <2>1. listing \in Seq({})
      BY <1>2
    <2>2. DOMAIN listing = {}
      BY <1>2
    <2> QED  BY <2>1, <2>2 DEF ListingBacked
  <1> QED  BY <1>6, <1>7

AInv == IInv /\ PrefixesInv /\ ListingBacked

LEMMA NextAInv == AInv /\ [DisassembleStep]_streamVars => AInv'
  <1> SUFFICES ASSUME AInv, [DisassembleStep]_streamVars PROVE AInv'
    OBVIOUS
  <1>0. IInv /\ PrefixesInv /\ ListingBacked /\ IInv'
    BY NextIInv DEF AInv
  <1>1. CASE DecodeNext
    <2>1. ListingBacked'
      BY <1>0, <1>1 DEF DecodeNext, ListingBacked
    <2>2. CASE DecodeStep
      BY <1>0, <2>1, <2>2, StepAInv DEF AInv
    <2>3. CASE SetAVXInformation \/ ZydisDecodeOperands
      <3>1. pc \in Complete /\ pc' \in Complete /\ ins' = ins
        BY <2>3 DEF SetAVXInformation, ZydisDecodeOperands, Complete
      <3>2. PrefixesInv'
        BY <1>0, <3>1 DEF PrefixesInv, Between, Parts, Complete
      <3> QED  BY <1>0, <2>1, <3>2 DEF AInv
    <2> QED  BY <1>1, <2>2, <2>3 DEF DecodeNext, DecodeFull, DecodePhysical
  <1>2. CASE Advance
    BY <1>0, <1>2, AdvanceAInv DEF AInv
  <1>3. CASE UNCHANGED streamVars
    <2>1. UNCHANGED <<pc, pfx, ins, listing>>
      BY <1>3 DEF streamVars, decodedVars, vars
    <2> QED  BY <1>0, <2>1 DEF AInv, PrefixesInv, ListingBacked
  <1> QED  BY <1>1, <1>2, <1>3 DEF DisassembleStep

(* An instruction says nothing of itself that no byte of it says: for every tree, blob *)
(* and limit, an attribute that stands for a prefix (LOCK, REP, BND, NOTRACK, a         *)
(* segment, a size, REX) has a prefix byte that is not ignored.                         *)
THEOREM EveryAttributeBacked == StreamSpec => []AttributesBacked
  <1>1. AInv => AttributesBacked
    BY DEF AInv, ListingBacked, Backed, AttributesBacked
  <1>2. StreamInit => AInv
    BY InitIInv, InitAInv DEF AInv
  <1> QED  BY <1>1, <1>2, NextAInv, PTL DEF StreamSpec

-----------------------------------------------------------------------------
(* The segments *)

SegmentType ==
    {"PREFIXES", "REX", "XOP", "VEX", "EVEX", "MVEX", "OPCODE", "MODRM", "SIB", "DISPLACEMENT", "IMMEDIATE"}

SegmentPiece == [type : SegmentType, offset : Nat, size : Nat]

(* Pieces that follow each other from one offset to another. *)
Spans(s, from, to) ==
    IF s = <<>> THEN from = to
    ELSE /\ s[1].offset = from
         /\ \A n \in 2 .. Len(s) : s[n].offset = s[n - 1].offset + s[n - 1].size
         /\ s[Len(s)].offset + s[Len(s)].size = to

SpansFrom(s, from, to) == s \in Seq(SegmentPiece) /\ Spans(s, from, to)

LEMMA SpansConcat ==
    ASSUME NEW s, NEW t, NEW a, NEW b, NEW c, SpansFrom(s, a, b), SpansFrom(t, b, c)
    PROVE  SpansFrom(s \o t, a, c)
  <1>1. s \in Seq(SegmentPiece) /\ t \in Seq(SegmentPiece)
    BY DEF SpansFrom
  <1> HIDE DEF SegmentPiece
  <1>2. CASE s = <<>>
    <2>1. s \o t = t
      BY <1>1, <1>2
    <2> QED  BY <1>2, <2>1 DEF SpansFrom, Spans
  <1>3. CASE t = <<>>
    <2>1. s \o t = s
      BY <1>1, <1>3
    <2> QED  BY <1>3, <2>1 DEF SpansFrom, Spans
  <1>4. CASE s # <<>> /\ t # <<>>
    <2> DEFINE u == s \o t
    <2>1. /\ u \in Seq(SegmentPiece) /\ Len(u) = Len(s) + Len(t) /\ Len(s) \in Nat \ {0} /\ Len(t) \in Nat \ {0}
          /\ \A n \in 1 .. Len(s) : u[n] = s[n]
          /\ \A n \in 1 .. Len(t) : u[Len(s) + n] = t[n]
      BY <1>1, <1>4
    <2> HIDE DEF u
    <2>2. /\ s[1].offset = a /\ s[Len(s)].offset + s[Len(s)].size = b
          /\ \A n \in 2 .. Len(s) : s[n].offset = s[n - 1].offset + s[n - 1].size
          /\ t[1].offset = b /\ t[Len(t)].offset + t[Len(t)].size = c
          /\ \A n \in 2 .. Len(t) : t[n].offset = t[n - 1].offset + t[n - 1].size
      BY <1>4 DEF SpansFrom, Spans
    <2>3. u[1] = s[1] /\ u[Len(u)] = t[Len(t)] /\ u # <<>>
      BY <2>1
    <2>4. ASSUME NEW n \in 2 .. Len(u)
          PROVE  u[n].offset = u[n - 1].offset + u[n - 1].size
      <3>1. CASE n <= Len(s)
        <4>1. n \in 2 .. Len(s) /\ n \in 1 .. Len(s) /\ n - 1 \in 1 .. Len(s)
          BY <2>1, <3>1
        <4> QED  BY <2>1, <2>2, <4>1
      <3>2. CASE n = Len(s) + 1
        <4>1. u[n] = t[1] /\ u[n - 1] = s[Len(s)]
          BY <2>1, <3>2
        <4> QED  BY <2>2, <4>1
      <3>3. CASE n > Len(s) + 1
        <4> DEFINE m == n - Len(s)
        <4>1. m \in 2 .. Len(t) /\ m \in 1 .. Len(t) /\ m - 1 \in 1 .. Len(t) /\ n = Len(s) + m
              /\ n - 1 = Len(s) + (m - 1)
          BY <2>1, <3>3
        <4> HIDE DEF m
        <4>2. u[n] = t[m] /\ u[n - 1] = t[m - 1]
          BY <2>1, <4>1
        <4> QED  BY <2>2, <4>1, <4>2
      <3> QED  BY <2>1, <3>1, <3>2, <3>3
    <2> QED  BY <2>1, <2>2, <2>3, <2>4 DEF SpansFrom, Spans, u
  <1> QED  BY <1>2, <1>3, <1>4

Adjacent(type, a, n, b) == type \in SegmentType /\ a \in Nat /\ n \in Nat /\ b = a + n

LEMMA SpansPiece ==
    ASSUME NEW type, NEW a, NEW n, NEW b, Adjacent(type, a, n, b)
    PROVE  SpansFrom(Piece(type, a, n), a, b)
  <1>0. type \in SegmentType /\ a \in Nat /\ n \in Nat /\ b = a + n
    BY DEF Adjacent
  <1>1. [type |-> type, offset |-> a, size |-> n] \in SegmentPiece
    BY <1>0 DEF SegmentPiece
  <1>2. Len(Piece(type, a, n)) = 1 /\ Piece(type, a, n) \in Seq(SegmentPiece) /\ Piece(type, a, n) # <<>>
        /\ Piece(type, a, n)[1] = [type |-> type, offset |-> a, size |-> n]
    BY <1>1 DEF Piece
  <1> QED  BY <1>0, <1>2 DEF SpansFrom, Spans

LEMMA SpansNothing == ASSUME NEW a PROVE SpansFrom(<<>>, a, a)
  BY DEF SpansFrom, Spans

-----------------------------------------------------------------------------
(* Where the parts of an instruction end *)

LegacyEncodings == {"LEGACY", "3DNOW"}
VectorEncodings == {"XOP", "VEX", "EVEX", "MVEX"}

OpcodeStart(i) == Len(i.prefixes) + (IF i.encoding \in VectorEncodings THEN i.vector.size ELSE 0)
OpcodeEnd(i) == OpcodeStart(i) + OpcodeSize(i)
ModrmEnd(i) == OpcodeEnd(i) + (IF "MODRM" \in i.attributes THEN 1 ELSE 0)
SibEnd(i) == ModrmEnd(i) + (IF "SIB" \in i.attributes THEN 1 ELSE 0)
DispEnd(i) == SibEnd(i) + (i.disp.size \div 8)
FirstEnd(i) == DispEnd(i) + (IF Len(i.imm) >= 1 THEN i.imm[1].size \div 8 ELSE 0)
PartsEnd(i) == FirstEnd(i) + (IF Len(i.imm) >= 2 THEN i.imm[2].size \div 8 ELSE 0)

VectorSize(encoding) == CASE encoding = "XOP" -> {3} [] encoding = "VEX" -> {2, 3} [] OTHER -> {4}

(* The bytes before the opcode. *)
WellBegun(i) ==
    /\ Len(i.prefixes) \in Nat
    /\ "REX" \in i.attributes => Len(i.prefixes) > 0
    /\ i.encoding \in LegacyEncodings \cup VectorEncodings
    /\ i.encoding \in LegacyEncodings => i.map \in {0, 1, 2, 3, 8}
    /\ i.encoding \in VectorEncodings =>
          i.vector.offset = Len(i.prefixes) /\ i.vector.size \in VectorSize(i.encoding)

(* What the steps noted about the parts that were read. *)
Laid(i) ==
    /\ WellBegun(i)
    /\ i.modrm.offset \in Nat
    /\ "MODRM" \in i.attributes <=> i.modrm.offset # 0
    /\ "MODRM" \in i.attributes => i.modrm.offset = OpcodeEnd(i)
    /\ "SIB" \in i.attributes => i.sib.offset = ModrmEnd(i)
    /\ i.disp.size \in Nat
    /\ i.disp.size > 0 => i.disp.offset = SibEnd(i)
    /\ i.imm \in Seq(Immediate) /\ Len(i.imm) <= 2
    /\ Len(i.imm) >= 1 => i.imm[1].offset = DispEnd(i)
    /\ Len(i.imm) >= 2 => i.imm[2].offset = FirstEnd(i)

Suffix(i) == IF i.encoding = "3DNOW" THEN 1 ELSE 0

Tiled(i) ==
    LET s == ZydisGetInstructionSegments(i) IN
    /\ s[1].offset = 0
    /\ \A n \in 2 .. Len(s) : s[n].offset = s[n - 1].offset + s[n - 1].size
    /\ s[Len(s)].offset + s[Len(s)].size = i.length

LEMMA EndsFact ==
    ASSUME NEW i, Laid(i)
    PROVE  /\ OpcodeStart(i) \in Nat /\ OpcodeSize(i) \in {1, 2, 3} /\ OpcodeEnd(i) \in Nat \ {0}
           /\ ModrmEnd(i) \in Nat
           /\ SibEnd(i) \in Nat /\ DispEnd(i) \in Nat /\ FirstEnd(i) \in Nat /\ PartsEnd(i) \in Nat
           /\ \A n \in 1 .. Len(i.imm) : i.imm[n].size \in Nat
           /\ PartsEnd(i) >= OpcodeEnd(i)
  <1>1. Len(i.prefixes) \in Nat
    BY DEF Laid, WellBegun
  <1>2. OpcodeStart(i) \in Nat
    BY <1>1 DEF Laid, WellBegun, OpcodeStart, VectorSize, VectorEncodings
  <1>3. OpcodeSize(i) \in {1, 2, 3}
    BY DEF Laid, WellBegun, OpcodeSize, LegacyEncodings, VectorEncodings
  <1>4. OpcodeEnd(i) \in Nat \ {0} /\ ModrmEnd(i) \in Nat /\ SibEnd(i) \in Nat
    BY <1>2, <1>3 DEF OpcodeEnd, ModrmEnd, SibEnd
  <1>5. i.disp.size \div 8 \in Nat /\ DispEnd(i) \in Nat
    BY <1>4 DEF Laid, DispEnd
  <1>6. ASSUME NEW n \in 1 .. Len(i.imm)
        PROVE  i.imm[n].size \in Nat /\ i.imm[n].size \div 8 \in Nat
    <2>1. i.imm[n] \in Immediate
      BY ElementOfSeq DEF Laid
    <2> QED  BY <2>1 DEF Immediate
  <1>7. Len(i.imm) \in Nat
    BY DEF Laid
  <1>8. FirstEnd(i) \in Nat
    BY <1>5, <1>6, <1>7 DEF FirstEnd
  <1>9. PartsEnd(i) \in Nat
    BY <1>6, <1>7, <1>8 DEF PartsEnd
  <1>10. ModrmEnd(i) >= OpcodeEnd(i) /\ SibEnd(i) >= ModrmEnd(i)
    BY <1>4 DEF ModrmEnd, SibEnd
  <1>11. DispEnd(i) >= SibEnd(i)
    BY <1>4, <1>5 DEF DispEnd
  <1>12. FirstEnd(i) >= DispEnd(i)
    BY <1>5, <1>6, <1>7, <1>8 DEF FirstEnd
  <1>13. PartsEnd(i) >= FirstEnd(i)
    BY <1>6, <1>7, <1>8, <1>9 DEF PartsEnd
  <1>14. PartsEnd(i) >= OpcodeEnd(i)
    BY <1>4, <1>5, <1>8, <1>9, <1>10, <1>11, <1>12, <1>13
  <1> QED  BY <1>2, <1>3, <1>4, <1>5, <1>6, <1>8, <1>9, <1>14

(* The parts that were noted tile the instruction. *)
LEMMA LaidTiles ==
    ASSUME NEW i, Laid(i), i.length = PartsEnd(i) + Suffix(i)
    PROVE  Tiled(i)
  <1> DEFINE prefixes == PrefixPieces(i)
             before == prefixes \o VectorPiece(i)
             opcode == OpcodePiece(i, before)
             modrm == IF "MODRM" \in i.attributes THEN Piece("MODRM", i.modrm.offset, 1) ELSE <<>>
             sib == IF "SIB" \in i.attributes THEN Piece("SIB", i.sib.offset, 1) ELSE <<>>
             disp == IF i.disp.size > 0 THEN Piece("DISPLACEMENT", i.disp.offset, i.disp.size \div 8) ELSE <<>>
             suffix == IF i.encoding = "3DNOW" THEN Piece("OPCODE", i.length - 1, 1) ELSE <<>>
  <1>0. /\ OpcodeStart(i) \in Nat /\ OpcodeSize(i) \in {1, 2, 3} /\ OpcodeEnd(i) \in Nat \ {0}
        /\ ModrmEnd(i) \in Nat
        /\ SibEnd(i) \in Nat /\ DispEnd(i) \in Nat /\ FirstEnd(i) \in Nat /\ PartsEnd(i) \in Nat
        /\ \A n \in 1 .. Len(i.imm) : i.imm[n].size \in Nat
        /\ Len(i.imm) \in Nat /\ PartsEnd(i) >= OpcodeEnd(i)
    BY EndsFact DEF Laid
  <1>1. SpansFrom(prefixes, 0, Len(i.prefixes))
    <2> DEFINE count == Len(i.prefixes)
               rex == IF "REX" \in i.attributes THEN 1 ELSE 0
               first == IF count > rex THEN Piece("PREFIXES", 0, count - rex) ELSE <<>>
               second == IF count > 0 /\ rex = 1 THEN Piece("REX", count - 1, 1) ELSE <<>>
    <2>1. count \in Nat /\ (rex = 1 => count > 0) /\ rex \in {0, 1}
      BY DEF Laid, WellBegun
    <2>2. prefixes = first \o second
      BY DEF PrefixPieces
    <2> HIDE DEF rex, count
    <2>3. SpansFrom(first, 0, count - rex)
      <3>1. CASE count > rex
        <4>1. Adjacent("PREFIXES", 0, count - rex, count - rex)
          BY <2>1, <3>1 DEF Adjacent, SegmentType
        <4>2. first = Piece("PREFIXES", 0, count - rex)
          BY <3>1
        <4> QED  BY <4>1, <4>2, SpansPiece
      <3>2. CASE ~(count > rex)
        <4>1. first = <<>> /\ 0 = count - rex
          BY <2>1, <3>2
        <4> QED  BY <4>1, SpansNothing
      <3> QED  BY <3>1, <3>2
    <2>4. SpansFrom(second, count - rex, count)
      <3>1. CASE rex = 1
        <4>1. Adjacent("REX", count - 1, 1, count) /\ count > 0 /\ count - rex = count - 1
          BY <2>1, <3>1 DEF Adjacent, SegmentType
        <4>2. second = Piece("REX", count - 1, 1)
          BY <3>1, <4>1
        <4> QED  BY <4>1, <4>2, SpansPiece
      <3>2. CASE rex = 0
        <4>1. second = <<>> /\ count - rex = count
          BY <2>1, <3>2
        <4> QED  BY <4>1, SpansNothing
      <3> QED  BY <2>1, <3>1, <3>2
    <2> HIDE DEF first, second, prefixes
    <2> QED  BY <2>2, <2>3, <2>4, SpansConcat DEF count
  <1>2. SpansFrom(VectorPiece(i), Len(i.prefixes), OpcodeStart(i))
    <2>1. Len(i.prefixes) \in Nat
      BY DEF Laid, WellBegun
    <2>2. CASE i.encoding \in LegacyEncodings
      <3>1. VectorPiece(i) = <<>> /\ OpcodeStart(i) = Len(i.prefixes)
        BY <2>1, <2>2 DEF VectorPiece, OpcodeStart, LegacyEncodings, VectorEncodings
      <3> QED  BY <3>1, SpansNothing
    <2>3. CASE i.encoding \in VectorEncodings
      <3>1. i.vector.offset = Len(i.prefixes) /\ i.vector.size \in Nat /\ i.encoding \in SegmentType
        BY <2>3 DEF Laid, WellBegun, VectorSize, VectorEncodings, SegmentType
      <3>2. VectorPiece(i) = Piece(i.encoding, i.vector.offset, i.vector.size)
        <4>1. i.vector.size \in VectorSize(i.encoding)
          BY <2>3 DEF Laid, WellBegun
        <4>2. CASE i.encoding = "XOP"
          BY <4>1, <4>2 DEF VectorPiece, VectorSize
        <4>3. CASE i.encoding = "VEX"
          BY <4>3 DEF VectorPiece
        <4>4. CASE i.encoding = "EVEX"
          BY <4>1, <4>4 DEF VectorPiece, VectorSize
        <4>5. CASE i.encoding = "MVEX"
          BY <4>1, <4>5 DEF VectorPiece, VectorSize
        <4> QED  BY <2>3, <4>2, <4>3, <4>4, <4>5 DEF VectorEncodings
      <3>3. OpcodeStart(i) = Len(i.prefixes) + i.vector.size
        BY <2>3 DEF OpcodeStart
      <3>4. Adjacent(i.encoding, Len(i.prefixes), i.vector.size, OpcodeStart(i))
        BY <2>1, <3>1, <3>3 DEF Adjacent, SegmentType
      <3>5. VectorPiece(i) = Piece(i.encoding, Len(i.prefixes), i.vector.size)
        BY <3>1, <3>2
      <3> QED  BY <3>4, <3>5, SpansPiece
    <2> QED  BY <2>2, <2>3 DEF Laid, WellBegun
  <1> HIDE DEF prefixes
  <1>3. SpansFrom(before, 0, OpcodeStart(i))
    BY <1>1, <1>2, SpansConcat
  <1> HIDE DEF before
  <1>4. SpansFrom(opcode, OpcodeStart(i), OpcodeEnd(i)) /\ opcode # <<>>
    <2>1. opcode = Piece("OPCODE", OpcodeStart(i), OpcodeSize(i))
      <3>1. CASE before = <<>>
        BY <1>3, <3>1 DEF OpcodePiece, SpansFrom, Spans
      <3>2. CASE before # <<>>
        BY <1>3, <3>2 DEF OpcodePiece, SpansFrom, Spans
      <3> QED  BY <3>1, <3>2
    <2>2. OpcodeSize(i) \in Nat /\ OpcodeEnd(i) = OpcodeStart(i) + OpcodeSize(i)
      BY <1>0 DEF OpcodeEnd
    <2>3. SpansFrom(opcode, OpcodeStart(i), OpcodeEnd(i))
      <3>1. Adjacent("OPCODE", OpcodeStart(i), OpcodeSize(i), OpcodeEnd(i))
        BY <1>0, <2>2 DEF Adjacent, SegmentType
      <3> QED  BY <2>1, <3>1, SpansPiece
    <2>4. opcode # <<>>
      BY <2>1 DEF Piece
    <2> QED  BY <2>3, <2>4
  <1> HIDE DEF opcode
  <1>5. SpansFrom(modrm, OpcodeEnd(i), ModrmEnd(i))
    <2>1. CASE "MODRM" \in i.attributes
      <3>1. i.modrm.offset = OpcodeEnd(i) /\ ModrmEnd(i) = OpcodeEnd(i) + 1
        BY <2>1 DEF Laid, ModrmEnd
      <3>2. Adjacent("MODRM", OpcodeEnd(i), 1, ModrmEnd(i))
        BY <1>0, <3>1 DEF Adjacent, SegmentType
      <3>3. modrm = Piece("MODRM", OpcodeEnd(i), 1)
        BY <2>1, <3>1
      <3> QED  BY <3>2, <3>3, SpansPiece
    <2>2. CASE "MODRM" \notin i.attributes
      <3>1. modrm = <<>> /\ ModrmEnd(i) = OpcodeEnd(i)
        BY <1>0, <2>2 DEF ModrmEnd
      <3> QED  BY <3>1, SpansNothing
    <2> QED  BY <2>1, <2>2
  <1>6. SpansFrom(sib, ModrmEnd(i), SibEnd(i))
    <2>1. CASE "SIB" \in i.attributes
      <3>1. i.sib.offset = ModrmEnd(i) /\ SibEnd(i) = ModrmEnd(i) + 1
        BY <2>1 DEF Laid, SibEnd
      <3>2. Adjacent("SIB", ModrmEnd(i), 1, SibEnd(i))
        BY <1>0, <3>1 DEF Adjacent, SegmentType
      <3>3. sib = Piece("SIB", ModrmEnd(i), 1)
        BY <2>1, <3>1
      <3> QED  BY <3>2, <3>3, SpansPiece
    <2>2. CASE "SIB" \notin i.attributes
      <3>1. sib = <<>> /\ SibEnd(i) = ModrmEnd(i)
        BY <1>0, <2>2 DEF SibEnd
      <3> QED  BY <3>1, SpansNothing
    <2> QED  BY <2>1, <2>2
  <1>7. SpansFrom(disp, SibEnd(i), DispEnd(i))
    <2>1. i.disp.size \in Nat /\ i.disp.size \div 8 \in Nat
      BY DEF Laid
    <2>2. CASE i.disp.size > 0
      <3>1. i.disp.offset = SibEnd(i) /\ DispEnd(i) = SibEnd(i) + (i.disp.size \div 8)
        BY <2>2 DEF Laid, DispEnd
      <3>2. Adjacent("DISPLACEMENT", SibEnd(i), i.disp.size \div 8, DispEnd(i))
        BY <1>0, <2>1, <3>1 DEF Adjacent, SegmentType
      <3>3. disp = Piece("DISPLACEMENT", SibEnd(i), i.disp.size \div 8)
        BY <2>2, <3>1
      <3> QED  BY <3>2, <3>3, SpansPiece
    <2>3. CASE i.disp.size = 0
      <3>1. disp = <<>> /\ DispEnd(i) = SibEnd(i)
        BY <1>0, <2>3 DEF DispEnd
      <3> QED  BY <3>1, SpansNothing
    <2> QED  BY <2>1, <2>2, <2>3
  <1>8. SpansFrom(ImmediatePiece(i, 1), DispEnd(i), FirstEnd(i))
    <2>1. CASE Len(i.imm) >= 1
      <3>1. i.imm[1].size \in Nat /\ i.imm[1].size \div 8 \in Nat /\ ~(1 > Len(i.imm))
        BY <1>0, <2>1
      <3>2. i.imm[1].offset = DispEnd(i) /\ FirstEnd(i) = DispEnd(i) + (i.imm[1].size \div 8)
        BY <2>1 DEF Laid, FirstEnd
      <3>3. CASE i.imm[1].size = 0
        <4>1. ImmediatePiece(i, 1) = <<>> /\ FirstEnd(i) = DispEnd(i)
          BY <1>0, <3>2, <3>3 DEF ImmediatePiece
        <4> QED  BY <4>1, SpansNothing
      <3>4. CASE i.imm[1].size # 0
        <4>1. ImmediatePiece(i, 1) = Piece("IMMEDIATE", DispEnd(i), i.imm[1].size \div 8)
          BY <3>1, <3>2, <3>4 DEF ImmediatePiece
        <4>2. Adjacent("IMMEDIATE", DispEnd(i), i.imm[1].size \div 8, FirstEnd(i))
          BY <1>0, <3>1, <3>2 DEF Adjacent, SegmentType
        <4> QED  BY <4>1, <4>2, SpansPiece
      <3> QED  BY <3>3, <3>4
    <2>2. CASE ~(Len(i.imm) >= 1)
      <3>1. ImmediatePiece(i, 1) = <<>> /\ FirstEnd(i) = DispEnd(i)
        BY <1>0, <2>2 DEF ImmediatePiece, FirstEnd
      <3> QED  BY <3>1, SpansNothing
    <2> QED  BY <2>1, <2>2
  <1>9. SpansFrom(ImmediatePiece(i, 2), FirstEnd(i), PartsEnd(i))
    <2>1. CASE Len(i.imm) >= 2
      <3>1. i.imm[2].size \in Nat /\ i.imm[2].size \div 8 \in Nat /\ ~(2 > Len(i.imm))
        BY <1>0, <2>1
      <3>2. i.imm[2].offset = FirstEnd(i) /\ PartsEnd(i) = FirstEnd(i) + (i.imm[2].size \div 8)
        BY <2>1 DEF Laid, PartsEnd
      <3>3. CASE i.imm[2].size = 0
        <4>1. ImmediatePiece(i, 2) = <<>> /\ PartsEnd(i) = FirstEnd(i)
          BY <1>0, <3>2, <3>3 DEF ImmediatePiece
        <4> QED  BY <4>1, SpansNothing
      <3>4. CASE i.imm[2].size # 0
        <4>1. ImmediatePiece(i, 2) = Piece("IMMEDIATE", FirstEnd(i), i.imm[2].size \div 8)
          BY <3>1, <3>2, <3>4 DEF ImmediatePiece
        <4>2. Adjacent("IMMEDIATE", FirstEnd(i), i.imm[2].size \div 8, PartsEnd(i))
          BY <1>0, <3>1, <3>2 DEF Adjacent, SegmentType
        <4> QED  BY <4>1, <4>2, SpansPiece
      <3> QED  BY <3>3, <3>4
    <2>2. CASE ~(Len(i.imm) >= 2)
      <3>1. ImmediatePiece(i, 2) = <<>> /\ PartsEnd(i) = FirstEnd(i)
        BY <1>0, <2>2 DEF ImmediatePiece, PartsEnd
      <3> QED  BY <3>1, SpansNothing
    <2> QED  BY <2>1, <2>2
  <1>10. SpansFrom(suffix, PartsEnd(i), i.length)
    <2>1. CASE i.encoding = "3DNOW"
      <3>1. i.length = PartsEnd(i) + 1 /\ i.length - 1 = PartsEnd(i)
        BY <1>0, <2>1 DEF Suffix
      <3>2. Adjacent("OPCODE", PartsEnd(i), 1, i.length)
        BY <1>0, <3>1 DEF Adjacent, SegmentType
      <3>3. suffix = Piece("OPCODE", PartsEnd(i), 1)
        BY <2>1, <3>1
      <3> QED  BY <3>2, <3>3, SpansPiece
    <2>2. CASE i.encoding # "3DNOW"
      <3>1. suffix = <<>> /\ i.length = PartsEnd(i)
        BY <1>0, <2>2 DEF Suffix
      <3> QED  BY <3>1, SpansNothing
    <2> QED  BY <2>1, <2>2
  <1> HIDE DEF modrm, sib, disp, suffix
  <1> DEFINE s == ZydisGetInstructionSegments(i)
  <1>11. s = before \o opcode \o modrm \o sib \o disp \o ImmediatePiece(i, 1) \o ImmediatePiece(i, 2) \o suffix
    BY DEF ZydisGetInstructionSegments, before, prefixes, opcode, modrm, sib, disp, suffix
  <1>12. SpansFrom(before \o opcode, 0, OpcodeEnd(i)) /\ before \o opcode # <<>>
    <2>1. SpansFrom(before \o opcode, 0, OpcodeEnd(i))
      BY <1>3, <1>4, SpansConcat
    <2> QED  BY <2>1, <1>0 DEF SpansFrom, Spans
  <1>13. SpansFrom(before \o opcode \o modrm, 0, ModrmEnd(i))
    BY <1>12, <1>5, SpansConcat
  <1>14. SpansFrom(before \o opcode \o modrm \o sib, 0, SibEnd(i))
    BY <1>13, <1>6, SpansConcat
  <1>15. SpansFrom(before \o opcode \o modrm \o sib \o disp, 0, DispEnd(i))
    BY <1>14, <1>7, SpansConcat
  <1>16. SpansFrom(before \o opcode \o modrm \o sib \o disp \o ImmediatePiece(i, 1), 0, FirstEnd(i))
    BY <1>15, <1>8, SpansConcat
  <1>17. SpansFrom(before \o opcode \o modrm \o sib \o disp \o ImmediatePiece(i, 1) \o ImmediatePiece(i, 2),
                   0, PartsEnd(i))
    BY <1>16, <1>9, SpansConcat
  <1>18. SpansFrom(s, 0, i.length)
    BY <1>11, <1>17, <1>10, SpansConcat
  <1> HIDE DEF s
  <1>19. i.length > 0
    BY <1>0 DEF Suffix
  <1>20. s # <<>>
    BY <1>18, <1>19 DEF SpansFrom, Spans
  <1> QED  BY <1>18, <1>20 DEF SpansFrom, Spans, Tiled, s

-----------------------------------------------------------------------------
(* How far an instruction has been read *)

Heads == {"OPCODE"} \cup VectorTypes

(* No displacement, no immediate and no SIB yet. *)
Short(i) == i.disp.size = 0 /\ i.imm = <<>> /\ "SIB" \notin i.attributes

(* The opcode is not complete: no ModRM either. *)
Begun(i) == WellBegun(i) /\ Short(i) /\ "MODRM" \notin i.attributes /\ i.modrm.offset = 0

(* What a vector filter asks for leads away from its child 0. *)
Selects(i, type) ==
    i.vector.map \in Nat /\ i.vector.pp \in Nat /\ (type = "XOP" => i.vector.map >= 8)

(* Where the walk is, by the bytes of prefixes and opcode it has taken. *)
AtRoot(n, i) == n = Tree[Root] /\ i.encoding = "LEGACY" /\ i.map = 0 /\ i.length = Len(i.prefixes)

AtMap1(n, i) ==
    /\ n = Map1 /\ n # Tree[Root] /\ n.type = "OPCODE"
    /\ i.encoding = "LEGACY" /\ i.map = 1 /\ i.length = Len(i.prefixes) + 1

AtFilter(n, i) ==
    /\ n.type \in VectorTypes
    /\ \/ i.encoding = "LEGACY" /\ i.map = 0 /\ i.length = Len(i.prefixes) + 1
       \/ i.encoding \in VectorEncodings /\ i.length = OpcodeStart(i) /\ Selects(i, n.type)

AtLast(n, i) ==
    /\ n.type = "OPCODE" /\ n # Tree[Root] /\ n # Map1
    /\ \/ i.encoding = "LEGACY" /\ i.map \in {2, 3} /\ i.length = Len(i.prefixes) + 2
       \/ i.encoding = "3DNOW" /\ i.map = 8 /\ i.length = Len(i.prefixes) + 2
       \/ i.encoding \in VectorEncodings /\ i.length = OpcodeStart(i)

AtHead(n, i) == AtRoot(n, i) \/ AtMap1(n, i) \/ AtFilter(n, i) \/ AtLast(n, i)

(* All parts that were read are noted, and nothing else was read. *)
AllNoted(i) == Laid(i) /\ i.length = PartsEnd(i)

Reached(n, t, i) ==
    \/ n.type \in Heads /\ t = None /\ Begun(i) /\ AtHead(n, i)
    \/ n.type = "INVALID" /\ t = None
    \/ n.type \notin Heads /\ AllNoted(i) /\ Short(i)

LayoutInv ==
    /\ pc = "prefixes" => Begun(ins) /\ ins.map = 0
    /\ pc = "tree" => Reached(node, temp, ins) /\ temp.type \notin Heads
    /\ pc \in Parts \cup {"check", "suffix"} => AllNoted(ins)
    /\ pc \in {"modrm", "sib"} => Short(ins)
    /\ pc = "disp" => ins.disp.size = 0 /\ ins.imm = <<>>
    /\ pc = "suffix" => ins.encoding = "3DNOW"
    /\ pc \in {"attributes"} \cup Complete => Laid(ins) /\ ins.length = PartsEnd(ins) + Suffix(ins)

(* The same parts at the same places: the types of prefixes and other attributes may differ. *)
SameParts(i, j) ==
    /\ Len(j.prefixes) = Len(i.prefixes) /\ j.encoding = i.encoding /\ j.map = i.map /\ j.vector = i.vector
    /\ j.modrm = i.modrm /\ j.sib = i.sib /\ j.disp = i.disp /\ j.imm = i.imm
    /\ \A a \in {"REX", "MODRM", "SIB"} : a \in j.attributes <=> a \in i.attributes

SameLayout(i, j) == SameParts(i, j) /\ j.length = i.length

LEMMA SamePartsFact ==
    ASSUME NEW i, NEW j, SameParts(i, j)
    PROVE  /\ Laid(i) => Laid(j)
           /\ PartsEnd(j) = PartsEnd(i) /\ OpcodeStart(j) = OpcodeStart(i) /\ OpcodeEnd(j) = OpcodeEnd(i)
           /\ Suffix(j) = Suffix(i)
           /\ Short(i) => Short(j)
           /\ Begun(i) => Begun(j)
  <1>0. /\ Len(j.prefixes) = Len(i.prefixes) /\ j.encoding = i.encoding /\ j.map = i.map /\ j.vector = i.vector
        /\ j.modrm = i.modrm /\ j.sib = i.sib /\ j.disp = i.disp /\ j.imm = i.imm
        /\ "REX" \in j.attributes <=> "REX" \in i.attributes
        /\ "MODRM" \in j.attributes <=> "MODRM" \in i.attributes
        /\ "SIB" \in j.attributes <=> "SIB" \in i.attributes
    BY DEF SameParts
  <1>1. OpcodeStart(j) = OpcodeStart(i) /\ OpcodeSize(j) = OpcodeSize(i)
    BY <1>0 DEF OpcodeStart, OpcodeSize
  <1>2. OpcodeEnd(j) = OpcodeEnd(i) /\ ModrmEnd(j) = ModrmEnd(i) /\ SibEnd(j) = SibEnd(i)
        /\ DispEnd(j) = DispEnd(i)
    BY <1>0, <1>1 DEF OpcodeEnd, ModrmEnd, SibEnd, DispEnd
  <1>3. FirstEnd(j) = FirstEnd(i) /\ PartsEnd(j) = PartsEnd(i) /\ Suffix(j) = Suffix(i)
    BY <1>0, <1>2 DEF FirstEnd, PartsEnd, Suffix
  <1>4. WellBegun(i) => WellBegun(j)
    BY <1>0 DEF WellBegun
  <1>5. Laid(i) => Laid(j)
    BY <1>0, <1>2, <1>3, <1>4 DEF Laid
  <1>6. Short(i) => Short(j)
    BY <1>0 DEF Short
  <1> QED  BY <1>0, <1>1, <1>2, <1>3, <1>4, <1>5, <1>6 DEF Begun

LEMMA SameLayoutFact ==
    ASSUME NEW i, NEW j, SameLayout(i, j)
    PROVE  /\ AllNoted(i) => AllNoted(j)
           /\ Short(i) => Short(j)
           /\ Suffix(j) = Suffix(i)
           /\ Laid(i) /\ i.length = PartsEnd(i) + Suffix(i) => Laid(j) /\ j.length = PartsEnd(j) + Suffix(j)
  BY SamePartsFact DEF SameLayout, AllNoted

(* When the opcode is complete, everything that was read is noted. *)
LEMMA OpcodeComplete ==
    ASSUME NEW i, Begun(i), i.length = OpcodeEnd(i)
    PROVE  AllNoted(i) /\ Short(i)
  <1>1. /\ WellBegun(i) /\ "MODRM" \notin i.attributes /\ "SIB" \notin i.attributes
        /\ i.modrm.offset = 0 /\ i.disp.size = 0 /\ i.imm = <<>> /\ Short(i)
    BY DEF Begun, Short
  <1>2. i.imm \in Seq(Immediate) /\ Len(i.imm) = 0
    BY <1>1
  <1>3. Laid(i)
    BY <1>1, <1>2 DEF Laid
  <1>4. OpcodeEnd(i) \in Nat
    BY <1>3, EndsFact
  <1>5. PartsEnd(i) = OpcodeEnd(i)
    BY <1>1, <1>2, <1>4 DEF PartsEnd, FirstEnd, DispEnd, SibEnd, ModrmEnd
  <1> QED  BY <1>1, <1>3, <1>5 DEF AllNoted

-----------------------------------------------------------------------------
(* Where a step down the tree may lead *)

LEMMA KidFact ==
    ASSUME NEW n \in Nodes, n.type \notin {"DEFINITION", "INVALID"}, NEW k, k \in DOMAIN n.kids
    PROVE  /\ Child(n, k).type = "OPCODE" <=> \/ n = Tree[Root] /\ k = 15
                                              \/ n = Map1 /\ k \in {15, 56, 58}
                                              \/ n.type \in VectorTypes /\ k # 0
           /\ \A t \in VectorTypes : Child(n, k).type = t <=> n = Tree[Root] /\ k \in DOMAIN FilterOf
              /\ FilterOf[k] = t
           /\ Child(n, k) # Tree[Root]
           /\ Child(n, k) = Map1 => n = Tree[Root]
  <1>1. PICK x \in DOMAIN Tree : n = Tree[x]
    BY DEF Nodes, InvalidNode
  <1> HIDE DEF Map1, VectorTypes, FilterOf
  <1> QED  BY <1>1, OpcodeAssumption

LEMMA NoKid ==
    ASSUME NEW n, NEW k, ~(n.type # "INVALID" /\ k \in DOMAIN n.kids)
    PROVE  Child(n, k) = InvalidNode /\ Child(n, k).type = "INVALID" /\ "INVALID" \notin Heads
  BY DEF Child, InvalidNode, Heads, VectorTypes

LEMMA RootFact == Tree[Root] \in Nodes /\ Tree[Root].type = "OPCODE"
  BY TreeAssumption DEF Nodes

LEMMA Map1Fact ==
    /\ Map1 \in Nodes
    /\ Map1.type # "INVALID" => Map1.type = "OPCODE" /\ Map1 # Tree[Root]
    /\ Map1.type = "INVALID" => Map1 = InvalidNode
  <1>1. Map1 \in Nodes
    BY RootFact, ChildFact DEF Map1
  <1>2. CASE ~(Tree[Root].type # "INVALID" /\ 15 \in DOMAIN Tree[Root].kids)
    BY <1>1, <1>2, NoKid DEF Map1
  <1>3. CASE Tree[Root].type # "INVALID" /\ 15 \in DOMAIN Tree[Root].kids
    <2>1. Child(Tree[Root], 15).type = "OPCODE" /\ Child(Tree[Root], 15) # Tree[Root]
      BY <1>3, RootFact, KidFact
    <2> QED  BY <1>1, <2>1 DEF Map1
  <1> QED  BY <1>2, <1>3

(* Below all other nodes there are no opcodes and no vector filters. *)
LEMMA KidOfOther ==
    ASSUME NEW n \in Nodes, n.type # "DEFINITION", n.type \notin VectorTypes, n # Tree[Root],
           n = Map1 => n.type # "OPCODE", NEW k
    PROVE  Child(n, k).type \notin Heads
  <1>1. CASE ~(n.type # "INVALID" /\ k \in DOMAIN n.kids)
    BY <1>1, NoKid
  <1>2. CASE n.type # "INVALID" /\ k \in DOMAIN n.kids
    <2>1. n # Map1
      BY <1>2, Map1Fact
    <2> QED  BY <1>2, <2>1, KidFact DEF Heads
  <1> QED  BY <1>1, <1>2

(* A vector filter leads to an opcode filter, but not from its child 0. *)
LEMMA KidOfFilter ==
    ASSUME NEW n \in Nodes, n.type \in VectorTypes, NEW k
    PROVE  /\ k = 0 => Child(n, k).type \notin Heads
           /\ k # 0 => \/ Child(n, k).type = "INVALID"
                       \/ Child(n, k).type = "OPCODE" /\ Child(n, k) # Tree[Root] /\ Child(n, k) # Map1
  <1>0. n.type \notin {"DEFINITION", "INVALID", "OPCODE"}
    BY DEF VectorTypes
  <1>1. n # Tree[Root] /\ n # Map1
    BY <1>0, RootFact, Map1Fact
  <1>2. CASE ~(n.type # "INVALID" /\ k \in DOMAIN n.kids)
    BY <1>2, NoKid
  <1>3. CASE n.type # "INVALID" /\ k \in DOMAIN n.kids
    BY <1>0, <1>1, <1>3, KidFact DEF Heads
  <1> QED  BY <1>2, <1>3

(* The root leads to the opcode map of 0F and to the vector filters. *)
LEMMA KidOfRoot ==
    ASSUME NEW k
    PROVE  /\ k = 15 => Child(Tree[Root], k) = Map1
           /\ k # 15 => \/ Child(Tree[Root], k).type \notin Heads
                        \/ k \in DOMAIN FilterOf /\ Child(Tree[Root], k).type = FilterOf[k]
           /\ k \in DOMAIN FilterOf => \/ Child(Tree[Root], k).type = "INVALID"
                                       \/ Child(Tree[Root], k).type = FilterOf[k]
  <1>0. "OPCODE" \notin VectorTypes /\ Tree[Root].type = "OPCODE"
    BY RootFact DEF VectorTypes
  <1>1. \A j \in DOMAIN FilterOf : FilterOf[j] \in VectorTypes
    BY DEF FilterOf, VectorTypes
  <1>2. Tree[Root].type \notin {"DEFINITION", "INVALID"} /\ Tree[Root] # Map1 /\ Tree[Root] \in Nodes
    BY RootFact, Map1Fact
  <1>3. k = 15 => Child(Tree[Root], k) = Map1
    BY DEF Map1
  <1>4. CASE ~(Tree[Root].type # "INVALID" /\ k \in DOMAIN Tree[Root].kids)
    BY <1>3, <1>4, NoKid
  <1>5. CASE Tree[Root].type # "INVALID" /\ k \in DOMAIN Tree[Root].kids
    <2>1. /\ Child(Tree[Root], k).type = "OPCODE" <=> k = 15
          /\ \A t \in VectorTypes : Child(Tree[Root], k).type = t <=> k \in DOMAIN FilterOf /\ FilterOf[k] = t
      BY <1>0, <1>2, <1>5, KidFact
    <2> QED  BY <1>1, <1>3, <2>1 DEF Heads
  <1> QED  BY <1>4, <1>5

(* The map of 0F leads to three more opcodes. *)
LEMMA KidOfMap1 ==
    ASSUME Map1.type = "OPCODE", NEW k
    PROVE  /\ k \in {15, 56, 58} => \/ Child(Map1, k).type = "INVALID"
                                    \/ Child(Map1, k).type = "OPCODE" /\ Child(Map1, k) # Tree[Root]
                                       /\ Child(Map1, k) # Map1
           /\ k \notin {15, 56, 58} => Child(Map1, k).type \notin Heads
  <1>0. Map1.type \notin {"DEFINITION", "INVALID"} /\ Map1.type \notin VectorTypes /\ Map1 # Tree[Root]
        /\ Map1 \in Nodes
    BY Map1Fact DEF VectorTypes
  <1>1. CASE ~(Map1.type # "INVALID" /\ k \in DOMAIN Map1.kids)
    BY <1>1, NoKid
  <1>2. CASE Map1.type # "INVALID" /\ k \in DOMAIN Map1.kids
    BY <1>0, <1>2, KidFact DEF Heads
  <1> QED  BY <1>1, <1>2

-----------------------------------------------------------------------------
(* One lemma per step *)

LEMMA BitFact ==
    ASSUME NEW b \in Byte
    PROVE  /\ Bits(b, 4, 0) \in Nat /\ Bits(b, 3, 0) \in Nat /\ Bits(b, 2, 0) \in Nat /\ Bits(b, 1, 0) \in Nat
           /\ Bit(b, 2) \in {0, 1}
  BY DEF Bit, Bits, Byte

(* What a vector prefix says of itself when it is accepted. *)
Accepted(v, op) ==
    /\ v.offset = ins.length /\ v.size = VectorBytes[op]
    /\ v.size \in VectorSize(EscapeEncoding(op))
    /\ v.map \in Nat /\ v.pp \in Nat
    /\ op = 143 => v.map >= 8
    /\ EscapeEncoding(op) \in VectorEncodings

LEMMA VectorPrefixFact ==
    ASSUME NEW op \in DOMAIN VectorBytes, Ahead(1) \in Byte, op # 197 => Ahead(2) \in Byte,
           DecodeVectorPrefix(op).status = "SUCCESS"
    PROVE  Accepted(DecodeVectorPrefix(op).vector, op)
  <1> DEFINE v == DecodeVectorPrefix(op).vector
  <1>1. CASE op = 196
    <2>1. DecodeVectorPrefix(op) = DecodeVEX3(Ahead(1), Ahead(2)) /\ EscapeEncoding(op) = "VEX"
          /\ VectorBytes[op] = 3
      BY <1>1 DEF DecodeVectorPrefix, EscapeEncoding, VectorBytes
    <2>2. v = VectorField(3, Bits(Ahead(1), 4, 0), Bits(Ahead(2), 1, 0), 0, 0, 0, 0)
      BY <2>1 DEF DecodeVEX3
    <2>3. v.offset = ins.length /\ v.size = 3 /\ v.map \in Nat /\ v.pp \in Nat
      BY <1>1, <2>2, BitFact DEF VectorField
    <2> QED  BY <1>1, <2>1, <2>3 DEF VectorSize, VectorEncodings, Accepted
  <1>2. CASE op = 197
    <2>1. DecodeVectorPrefix(op) = DecodeVEX2(Ahead(1)) /\ EscapeEncoding(op) = "VEX" /\ VectorBytes[op] = 2
      BY <1>2 DEF DecodeVectorPrefix, EscapeEncoding, VectorBytes
    <2>2. v = VectorField(2, 1, Bits(Ahead(1), 1, 0), 0, 0, 0, 0)
      BY <2>1 DEF DecodeVEX2
    <2>3. v.offset = ins.length /\ v.size = 2 /\ v.map \in Nat /\ v.pp \in Nat
      BY <2>2, BitFact DEF VectorField
    <2> QED  BY <1>2, <2>1, <2>3 DEF VectorSize, VectorEncodings, Accepted
  <1>3. CASE op = 143
    <2>1. DecodeVectorPrefix(op) = DecodeXOP(Ahead(1), Ahead(2)) /\ EscapeEncoding(op) = "XOP"
          /\ VectorBytes[op] = 3
      BY <1>3 DEF DecodeVectorPrefix, EscapeEncoding, VectorBytes
    <2>2. v = VectorField(3, Bits(Ahead(1), 4, 0), Bits(Ahead(2), 1, 0), 0, 0, 0, 0)
      BY <2>1 DEF DecodeXOP
    <2>3. Bits(Ahead(1), 4, 0) \in 8 .. 10
      BY <2>1 DEF DecodeXOP
    <2>4. v.offset = ins.length /\ v.size = 3 /\ v.map \in Nat /\ v.pp \in Nat /\ v.map >= 8
      BY <1>3, <2>2, <2>3, BitFact DEF VectorField
    <2> QED  BY <2>1, <2>4 DEF VectorSize, VectorEncodings, Accepted
  <1>4. CASE op = 98 /\ Bit(Ahead(2), 2) = 1
    <2>1. DecodeVectorPrefix(op) = DecodeEVEX(Ahead(1), Ahead(2), Ahead(3)) /\ EscapeEncoding(op) = "EVEX"
          /\ VectorBytes[op] = 4
      BY <1>4 DEF DecodeVectorPrefix, EscapeEncoding, VectorBytes
    <2>2. v = VectorField(4, Bits(Ahead(1), 2, 0), Bits(Ahead(2), 1, 0), Bit(Ahead(3), 4), Bit(Ahead(3), 7), 0, 0)
      BY <2>1 DEF DecodeEVEX
    <2>3. v.offset = ins.length /\ v.size = 4 /\ v.map \in Nat /\ v.pp \in Nat
      BY <1>4, <2>2, BitFact DEF VectorField
    <2> QED  BY <1>4, <2>1, <2>3 DEF VectorSize, VectorEncodings, Accepted
  <1>5. CASE op = 98 /\ Bit(Ahead(2), 2) = 0
    <2>1. DecodeVectorPrefix(op) = DecodeMVEX(Ahead(1), Ahead(2), Ahead(3)) /\ EscapeEncoding(op) = "MVEX"
          /\ VectorBytes[op] = 4
      BY <1>5 DEF DecodeVectorPrefix, EscapeEncoding, VectorBytes
    <2>2. v = VectorField(4, Bits(Ahead(1), 3, 0), Bits(Ahead(2), 1, 0), 0, 0, Bit(Ahead(3), 7),
          Bits(Ahead(3), 6, 4))
      BY <2>1 DEF DecodeMVEX
    <2>3. v.offset = ins.length /\ v.size = 4 /\ v.map \in Nat /\ v.pp \in Nat
      BY <1>5, <2>2, BitFact DEF VectorField
    <2> QED  BY <1>5, <2>1, <2>3 DEF VectorSize, VectorEncodings, Accepted
  <1>6. op \in {98, 143, 196, 197} /\ (op = 98 => Bit(Ahead(2), 2) \in {0, 1})
    BY BitFact DEF VectorBytes
  <1> QED  BY <1>1, <1>2, <1>3, <1>4, <1>5, <1>6

(* A step at an opcode filter leaves alone what is noted of other parts. *)
Took(i, j) ==
    /\ j.prefixes = i.prefixes /\ j.modrm = i.modrm /\ j.disp = i.disp /\ j.imm = i.imm
    /\ \A a \in {"REX", "MODRM", "SIB"} : a \in j.attributes <=> a \in i.attributes

LEMMA TookBegun ==
    ASSUME NEW i, NEW j, Begun(i), Took(i, j)
    PROVE  /\ j.encoding \in LegacyEncodings /\ j.map \in {0, 1, 2, 3, 8} => Begun(j)
           /\ /\ j.encoding \in VectorEncodings
              /\ j.vector.offset = Len(j.prefixes) /\ j.vector.size \in VectorSize(j.encoding)
              => Begun(j)
           /\ Len(j.prefixes) = Len(i.prefixes) /\ Len(i.prefixes) \in Nat
  <1>1. /\ Len(i.prefixes) \in Nat /\ ("REX" \in i.attributes => Len(i.prefixes) > 0)
        /\ i.disp.size = 0 /\ i.imm = <<>> /\ "SIB" \notin i.attributes /\ "MODRM" \notin i.attributes
        /\ i.modrm.offset = 0
    BY DEF Begun, WellBegun, Short
  <1>2. /\ Len(j.prefixes) \in Nat /\ ("REX" \in j.attributes => Len(j.prefixes) > 0)
        /\ j.disp.size = 0 /\ j.imm = <<>> /\ "SIB" \notin j.attributes /\ "MODRM" \notin j.attributes
        /\ j.modrm.offset = 0 /\ Len(j.prefixes) = Len(i.prefixes)
    BY <1>1 DEF Took
  <1>3. LegacyEncodings \cap VectorEncodings = {}
    BY DEF LegacyEncodings, VectorEncodings
  <1>4. ASSUME j.encoding \in LegacyEncodings, j.map \in {0, 1, 2, 3, 8} PROVE Begun(j)
    <2>1. WellBegun(j)
      BY <1>2, <1>3, <1>4 DEF WellBegun
    <2> QED  BY <1>2, <2>1 DEF Begun, Short
  <1>5. ASSUME j.encoding \in VectorEncodings,
               j.vector.offset = Len(j.prefixes), j.vector.size \in VectorSize(j.encoding)
        PROVE  Begun(j)
    <2>1. WellBegun(j)
      BY <1>2, <1>3, <1>5 DEF WellBegun
    <2> QED  BY <1>2, <2>1 DEF Begun, Short
  <1> QED  BY <1>1, <1>2, <1>4, <1>5

LEMMA TreeLayout ==
    ASSUME pc' = "tree", Reached(node', temp', ins'), temp'.type \notin Heads
    PROVE  LayoutInv'
  BY DEF LayoutInv, Parts, Complete

LEMMA FailLayout ==
    ASSUME NEW r, Fail(r)
    PROVE  LayoutInv'
  BY DEF Fail, LayoutInv, Parts, Complete

LEMMA VectorOpcodeLayout ==
    ASSUME IInv, OpcodeStatus = "SUCCESS", VectorOpcode, Begun(ins), AtRoot(node, ins),
           NEW n, n = Child(node, Ahead(0))
    PROVE  Reached(n, None, ins')
  <1> DEFINE op == Ahead(0)
             v == DecodeVectorPrefix(op).vector
  <1>1. /\ IsEscape(op) /\ ins.encoding = "LEGACY" /\ op \in DOMAIN VectorBytes
        /\ ins' = [ins EXCEPT !.length = @ + VectorBytes[op], !.opcode = op, !.vector = v,
                              !.encoding = EscapeEncoding(op), !.attributes = @ \cup {EscapeEncoding(op)},
                              !.map = IF op = 143 THEN v.map + 1 ELSE v.map]
    BY DEF VectorOpcode, IsEscape
  <1>2. /\ Fields \subseteq DOMAIN ins /\ ins.length \in Nat /\ buffer \in Seq(Byte)
        /\ node = Tree[Root] /\ ins.length = Len(ins.prefixes)
    BY DEF IInv, Consistent, AtRoot
  <1>3. /\ ins'.length = ins.length + VectorBytes[op] /\ ins'.vector = v /\ ins'.encoding = EscapeEncoding(op)
        /\ ins'.attributes = ins.attributes \cup {EscapeEncoding(op)}
        /\ ins'.prefixes = ins.prefixes /\ ins'.modrm = ins.modrm /\ ins'.disp = ins.disp /\ ins'.imm = ins.imm
    BY <1>1, <1>2 DEF Fields
  <1>4. EscapeStatus(op) = "SUCCESS"
    BY <1>1 DEF OpcodeStatus
  <1>5. InputStatus(VectorBytes[op]) = "SUCCESS" /\ DecodeVectorPrefix(op).status = "SUCCESS"
    BY <1>4 DEF EscapeStatus
  <1>6. Ahead(1) \in Byte /\ (op # 197 => Ahead(2) \in Byte)
    <2>1. VectorBytes[op] \in {2, 3, 4} /\ (op # 197 => VectorBytes[op] \in {3, 4})
      BY <1>1 DEF VectorBytes
    <2>2. ins.length + VectorBytes[op] <= Len(buffer) /\ Len(buffer) \in Nat
      BY <1>2, <1>5, <2>1, InputFact
    <2>3. ins.length + 1 + 1 \in 1 .. Len(buffer) /\ (op # 197 => ins.length + 2 + 1 \in 1 .. Len(buffer))
      BY <1>2, <2>1, <2>2
    <2> QED  BY <1>2, <2>3, ElementOfSeq DEF Ahead
  <1>7. Accepted(v, op)
    BY <1>1, <1>5, <1>6, VectorPrefixFact
  <1> HIDE DEF v, op
  <1>8. /\ v.offset = Len(ins.prefixes) /\ v.size = VectorBytes[op] /\ v.size \in VectorSize(EscapeEncoding(op))
        /\ v.map \in Nat /\ v.pp \in Nat /\ (op = 143 => v.map >= 8) /\ EscapeEncoding(op) \in VectorEncodings
    BY <1>2, <1>7 DEF Accepted
  <1>9. Took(ins, ins')
    <2>1. EscapeEncoding(op) \notin {"REX", "MODRM", "SIB"}
      BY <1>8 DEF VectorEncodings
    <2> QED  BY <1>3, <2>1 DEF Took
  <1>10. Begun(ins')
    BY <1>3, <1>8, <1>9, TookBegun
  <1>11. ins'.length = OpcodeStart(ins') /\ ins'.encoding \in VectorEncodings
    BY <1>2, <1>3, <1>8 DEF OpcodeStart
  <1>12. n.type = "INVALID" \/ n.type = FilterOf[op]
    <2>1. op \in DOMAIN FilterOf
      BY <1>1 DEF FilterOf, VectorBytes
    <2> QED  BY <1>2, <2>1, KidOfRoot DEF op
  <1>13. CASE n.type = "INVALID"
    BY <1>13 DEF Reached
  <1>14. CASE n.type = FilterOf[op]
    <2>1. n.type \in VectorTypes /\ (n.type = "XOP" => op = 143)
      BY <1>1, <1>14 DEF FilterOf, VectorTypes, VectorBytes
    <2>2. Selects(ins', n.type)
      BY <1>3, <1>8, <2>1 DEF Selects
    <2>3. AtFilter(n, ins')
      BY <1>11, <2>1, <2>2 DEF AtFilter
    <2> QED  BY <1>10, <2>1, <2>3 DEF Reached, AtHead, Heads
  <1> QED  BY <1>12, <1>13, <1>14

LEMMA LegacyOpcodeLayout ==
    ASSUME IInv, LegacyOpcode, node \in Nodes, node.type = "OPCODE", Begun(ins), AtHead(node, ins),
           NEW n, n = Child(node, Ahead(0))
    PROVE  Reached(n, None, ins')
  <1> DEFINE op == Ahead(0)
             m == CASE ins.map = 0 /\ op = 15 -> 1
                    [] ins.map = 1 /\ op = 15 -> 8
                    [] ins.map = 1 /\ op = 56 -> 2
                    [] ins.map = 1 /\ op = 58 -> 3
                    [] OTHER -> ins.map
             e == IF ins.map = 1 /\ op = 15 THEN "3DNOW" ELSE ins.encoding
  <1>1. /\ ins.encoding = "LEGACY"
        /\ ins' = [ins EXCEPT !.length = @ + 1, !.opcode = op, !.map = m, !.encoding = e]
    BY DEF LegacyOpcode
  <1>2. Fields \subseteq DOMAIN ins /\ ins.length \in Nat
    BY DEF IInv, Consistent
  <1>3. /\ ins'.length = ins.length + 1 /\ ins'.map = m /\ ins'.encoding = e
        /\ ins'.attributes = ins.attributes /\ ins'.prefixes = ins.prefixes
        /\ ins'.modrm = ins.modrm /\ ins'.disp = ins.disp /\ ins'.imm = ins.imm
    BY <1>1, <1>2 DEF Fields
  <1> HIDE DEF op
  <1>4. Took(ins, ins')
    BY <1>3 DEF Took
  <1>5. LegacyEncodings = {"LEGACY", "3DNOW"} /\ "LEGACY" \notin VectorEncodings /\ "3DNOW" \notin VectorEncodings
    BY DEF LegacyEncodings, VectorEncodings
  <1>6. ASSUME m \in {0, 1, 2, 3, 8}, e \in LegacyEncodings
        PROVE  Begun(ins') /\ Len(ins'.prefixes) = Len(ins.prefixes) /\ Len(ins.prefixes) \in Nat
    BY <1>3, <1>4, <1>6, TookBegun
  <1>7. ASSUME e \in LegacyEncodings, m \in {0, 1, 2, 3, 8}, n.type \notin Heads,
               ins'.length = Len(ins.prefixes) + (IF m = 0 THEN 1 ELSE IF m \in {1, 8} THEN 2 ELSE 3)
        PROVE  Reached(n, None, ins')
    <2>1. Begun(ins') /\ Len(ins'.prefixes) = Len(ins.prefixes) /\ Len(ins.prefixes) \in Nat
      BY <1>6, <1>7
    <2>2. OpcodeStart(ins') = Len(ins.prefixes)
      BY <1>3, <1>5, <1>7, <2>1 DEF OpcodeStart
    <2>3. OpcodeSize(ins') = IF m = 0 THEN 1 ELSE IF m \in {1, 8} THEN 2 ELSE 3
      <3> HIDE DEF m, e
      <3> QED  BY <1>3, <1>5, <1>7 DEF OpcodeSize
    <2>4. ins'.length = OpcodeEnd(ins')
      BY <1>7, <2>2, <2>3 DEF OpcodeEnd
    <2> QED  BY <1>7, <2>1, <2>4, OpcodeComplete DEF Reached
  <1>8. CASE AtRoot(node, ins)
    <2>1. node = Tree[Root] /\ ins.map = 0 /\ ins.length = Len(ins.prefixes) /\ e = "LEGACY"
      BY <1>1, <1>8 DEF AtRoot
    <2>2. CASE op = 15
      <3>1. m = 1 /\ n = Map1
        BY <2>1, <2>2, KidOfRoot DEF op
      <3>2. Begun(ins') /\ ins'.length = Len(ins'.prefixes) + 1
        BY <1>3, <1>5, <1>6, <2>1, <3>1
      <3>3. CASE n.type = "OPCODE"
        <4>1. AtMap1(n, ins')
          BY <1>3, <2>1, <3>1, <3>2, <3>3, Map1Fact DEF AtMap1
        <4> QED  BY <3>2, <3>3, <4>1 DEF Reached, AtHead, Heads
      <3>4. CASE n.type # "OPCODE"
        BY <3>1, <3>4, Map1Fact DEF Reached
      <3> QED  BY <3>3, <3>4
    <2>3. CASE op # 15
      <3>1. m = 0
        BY <2>1, <2>3
      <3>2. CASE n.type \notin Heads
        BY <1>3, <1>5, <1>7, <2>1, <3>1, <3>2
      <3>3. CASE op \in DOMAIN FilterOf /\ n.type = FilterOf[op]
        <4>1. Begun(ins') /\ ins'.length = Len(ins'.prefixes) + 1
          BY <1>3, <1>5, <1>6, <2>1, <3>1
        <4>2. n.type \in VectorTypes
          BY <3>3 DEF FilterOf, VectorTypes
        <4>3. AtFilter(n, ins')
          BY <1>3, <2>1, <3>1, <4>1, <4>2 DEF AtFilter
        <4> QED  BY <4>1, <4>2, <4>3 DEF Reached, AtHead, Heads
      <3> QED  BY <2>1, <2>3, <3>2, <3>3, KidOfRoot DEF op
    <2> QED  BY <2>2, <2>3
  <1>9. CASE AtMap1(node, ins)
    <2>1. node = Map1 /\ Map1.type = "OPCODE" /\ ins.map = 1 /\ ins.length = Len(ins.prefixes) + 1
      BY <1>9 DEF AtMap1
    <2>2. CASE op \in {15, 56, 58}
      <3>1. \/ m = 8 /\ e = "3DNOW"
            \/ m \in {2, 3} /\ e = "LEGACY"
        BY <1>1, <2>1, <2>2
      <3>2. Begun(ins') /\ ins'.length = Len(ins'.prefixes) + 2
        <4> HIDE DEF m, e
        <4>1. m \in {0, 1, 2, 3, 8} /\ e \in LegacyEncodings
          BY <1>5, <3>1
        <4> QED  BY <1>3, <1>6, <2>1, <4>1
      <3>3. CASE n.type = "INVALID"
        BY <3>3 DEF Reached
      <3>4. CASE n.type = "OPCODE" /\ n # Tree[Root] /\ n # Map1
        <4> HIDE DEF m, e
        <4>1. AtLast(n, ins')
          BY <1>3, <3>1, <3>2, <3>4 DEF AtLast
        <4> QED  BY <3>2, <3>4, <4>1 DEF Reached, AtHead, Heads
      <3> QED  BY <2>1, <2>2, <3>3, <3>4, KidOfMap1 DEF op
    <2>3. CASE op \notin {15, 56, 58}
      <3>1. m = 1 /\ e = "LEGACY"
        BY <1>1, <2>1, <2>3
      <3>2. n.type \notin Heads
        BY <2>1, <2>3, KidOfMap1 DEF op
      <3>3. Len(ins.prefixes) \in Nat
        BY <1>5, <1>6, <3>1
      <3> HIDE DEF m, e
      <3>4. ins'.length = Len(ins.prefixes) + (IF m = 0 THEN 1 ELSE IF m \in {1, 8} THEN 2 ELSE 3)
        BY <1>3, <2>1, <3>1, <3>3
      <3> QED  BY <1>5, <1>7, <3>1, <3>2, <3>4
    <2> QED  BY <2>2, <2>3
  <1>10. CASE AtLast(node, ins)
    <2>1. ins.map \in {2, 3} /\ ins.length = Len(ins.prefixes) + 2 /\ node # Tree[Root] /\ node # Map1
      BY <1>1, <1>5, <1>10 DEF AtLast
    <2>2. m = ins.map /\ e = "LEGACY"
      BY <1>1, <2>1
    <2>3. n.type \notin Heads
      <3>1. node.type # "DEFINITION" /\ node.type \notin VectorTypes
        BY DEF VectorTypes
      <3> QED  BY <2>1, <3>1, KidOfOther DEF op
    <2>4. Len(ins.prefixes) \in Nat
      BY <1>5, <1>6, <2>1, <2>2
    <2> HIDE DEF m, e
    <2>5. m \in {2, 3} /\ e \in LegacyEncodings /\ ins'.length = Len(ins.prefixes) + 3
      BY <1>3, <1>5, <2>1, <2>2, <2>4
    <2>6. ins'.length = Len(ins.prefixes) + (IF m = 0 THEN 1 ELSE IF m \in {1, 8} THEN 2 ELSE 3)
      <3>1. (IF m = 0 THEN 1 ELSE IF m \in {1, 8} THEN 2 ELSE 3) = 3
        BY <2>5
      <3> QED  BY <2>5, <3>1
    <2> QED  BY <1>5, <1>7, <2>3, <2>5, <2>6
  <1>11. ~AtFilter(node, ins)
    BY DEF AtFilter, VectorTypes
  <1> QED  BY <1>8, <1>9, <1>10, <1>11 DEF AtHead

LEMMA OpcodeLayout ==
    ASSUME IInv, LayoutInv, NodeHandlerOpcode
    PROVE  LayoutInv'
  <1>1. CASE OpcodeStatus # "SUCCESS" /\ Fail(OpcodeStatus)
    BY <1>1, FailLayout
  <1>2. CASE OpcodeStatus = "SUCCESS"
    <2> DEFINE k == IF ins.encoding = "3DNOW" THEN 12 ELSE Ahead(0)
    <2>1. /\ pc = "tree" /\ pc' = "tree" /\ temp' = temp /\ node' = Child(node, k)
          /\ node.type = "OPCODE"
          /\ VectorOpcode \/ LegacyOpcode \/ OpcodeAfterPrefix \/ PlaceholderOpcode
      BY <1>2 DEF NodeHandlerOpcode, Goto, Type
    <2>2. /\ Begun(ins) /\ temp = None /\ AtHead(node, ins) /\ node \in Nodes
          /\ Fields \subseteq DOMAIN ins /\ ins.length \in Nat
      BY <2>1 DEF LayoutInv, Reached, Heads, IInv, Consistent, Walking
    <2>3. None.type \notin Heads
      BY DEF None, Heads, VectorTypes
    <2>4. node.type # "DEFINITION" /\ node.type \notin VectorTypes /\ ~AtFilter(node, ins)
      BY <2>1 DEF VectorTypes, AtFilter
    <2>5. ASSUME AtLast(node, ins)
          PROVE  node'.type \notin Heads
      BY <2>1, <2>2, <2>4, <2>5, KidOfOther DEF AtLast
    <2>6. CASE VectorOpcode
      <3>1. ins.encoding = "LEGACY" /\ ins.map = 0
        BY <2>6 DEF VectorOpcode, IsEscape
      <3>2. AtRoot(node, ins)
        BY <2>2, <2>4, <3>1 DEF AtHead, AtMap1, AtLast, VectorEncodings
      <3>3. node' = Child(node, Ahead(0))
        BY <2>1, <3>1
      <3> QED  BY <1>2, <2>1, <2>2, <2>3, <2>6, <3>2, <3>3, VectorOpcodeLayout, TreeLayout
    <2>7. CASE LegacyOpcode
      <3>1. node' = Child(node, Ahead(0))
        BY <2>1, <2>7 DEF LegacyOpcode
      <3> QED  BY <2>1, <2>2, <2>3, <2>7, <3>1, LegacyOpcodeLayout, TreeLayout
    <2>8. CASE OpcodeAfterPrefix
      <3>1. /\ ins.encoding \notin {"LEGACY", "3DNOW"}
            /\ ins' = [ins EXCEPT !.length = @ + 1, !.opcode = Ahead(0)]
        BY <2>8 DEF OpcodeAfterPrefix
      <3>2. AtLast(node, ins) /\ ins.encoding \in VectorEncodings /\ ins.length = OpcodeStart(ins)
        BY <2>2, <2>4, <3>1 DEF AtHead, AtRoot, AtMap1, AtLast
      <3>3. /\ ins'.length = ins.length + 1 /\ ins'.vector = ins.vector /\ ins'.encoding = ins.encoding
            /\ ins'.attributes = ins.attributes /\ ins'.prefixes = ins.prefixes
            /\ ins'.modrm = ins.modrm /\ ins'.disp = ins.disp /\ ins'.imm = ins.imm
        BY <2>2, <3>1 DEF Fields
      <3>4. Took(ins, ins') /\ WellBegun(ins)
        BY <2>2, <3>3 DEF Took, Begun
      <3>5. Begun(ins')
        BY <2>2, <3>2, <3>3, <3>4, TookBegun DEF WellBegun
      <3>6. ins'.length = OpcodeEnd(ins')
        <4>1. OpcodeStart(ins') = OpcodeStart(ins) /\ OpcodeSize(ins') = 1
          BY <3>1, <3>3 DEF OpcodeStart, OpcodeSize
        <4> QED  BY <3>2, <3>3, <4>1 DEF OpcodeEnd
      <3>7. Reached(node', temp', ins')
        BY <2>5, <3>2, <3>5, <3>6, OpcodeComplete DEF Reached
      <3> QED  BY <2>1, <2>2, <2>3, <3>7, TreeLayout
    <2>9. CASE PlaceholderOpcode
      <3>1. ins.encoding = "3DNOW" /\ ins' = ins
        BY <2>9 DEF PlaceholderOpcode
      <3>2. AtLast(node, ins) /\ ins.map = 8 /\ ins.length = Len(ins.prefixes) + 2
        BY <2>2, <2>4, <3>1 DEF AtHead, AtRoot, AtMap1, AtLast, VectorEncodings
      <3>3. ins.length = OpcodeEnd(ins)
        <4>1. OpcodeStart(ins) = Len(ins.prefixes) /\ OpcodeSize(ins) = 2 /\ Len(ins.prefixes) \in Nat
          BY <2>2, <3>1, <3>2 DEF OpcodeStart, OpcodeSize, VectorEncodings, Begun, WellBegun
        <4> QED  BY <3>2, <4>1 DEF OpcodeEnd
      <3>4. Reached(node', temp', ins')
        BY <2>2, <2>5, <3>1, <3>2, <3>3, OpcodeComplete DEF Reached
      <3> QED  BY <2>1, <2>2, <2>3, <3>4, TreeLayout
    <2> QED  BY <2>1, <2>6, <2>7, <2>8, <2>9
  <1> QED  BY <1>1, <1>2 DEF NodeHandlerOpcode

(* What has been read when there is no SIB, displacement or immediate yet. *)
LEMMA ShortEnd ==
    ASSUME NEW i, Laid(i), i.disp.size = 0, i.imm = <<>>
    PROVE  PartsEnd(i) = SibEnd(i) /\ ("SIB" \notin i.attributes => PartsEnd(i) = ModrmEnd(i))
  <1>1. SibEnd(i) \in Nat /\ ModrmEnd(i) \in Nat
    BY EndsFact
  <1>2. Len(i.imm) = 0
    OBVIOUS
  <1>3. DispEnd(i) = SibEnd(i)
    BY <1>1 DEF DispEnd
  <1>4. PartsEnd(i) = SibEnd(i)
    BY <1>1, <1>2, <1>3 DEF PartsEnd, FirstEnd
  <1> QED  BY <1>1, <1>4 DEF SibEnd

LEMMA ModrmLayout ==
    ASSUME NEW i, NEW j, AllNoted(i), Short(i), i.modrm.offset = 0,
           j.length = i.length + 1, j.modrm.offset = i.length, j.attributes = i.attributes \cup {"MODRM"},
           j.prefixes = i.prefixes, j.encoding = i.encoding, j.map = i.map, j.vector = i.vector, j.sib = i.sib,
           j.disp = i.disp, j.imm = i.imm
    PROVE  AllNoted(j) /\ Short(j)
  <1>1. /\ Laid(i) /\ i.length = PartsEnd(i) /\ WellBegun(i) /\ "MODRM" \notin i.attributes
        /\ i.disp.size = 0 /\ i.imm = <<>> /\ "SIB" \notin i.attributes
    BY DEF AllNoted, Laid, Short
  <1>2. OpcodeEnd(i) \in Nat \ {0} /\ ModrmEnd(i) = OpcodeEnd(i) /\ i.length = OpcodeEnd(i)
    BY <1>1, EndsFact, ShortEnd DEF ModrmEnd
  <1>3. WellBegun(j) /\ Short(j)
    BY <1>1 DEF WellBegun, Short
  <1>4. OpcodeEnd(j) = OpcodeEnd(i)
    BY DEF OpcodeEnd, OpcodeStart, OpcodeSize
  <1>5. j.imm \in Seq(Immediate) /\ Len(j.imm) = 0
    BY <1>1
  <1>6. Laid(j)
    BY <1>1, <1>2, <1>3, <1>4, <1>5 DEF Laid
  <1>7. PartsEnd(j) = ModrmEnd(j)
    BY <1>1, <1>6, ShortEnd
  <1>8. ModrmEnd(j) = OpcodeEnd(i) + 1
    BY <1>4 DEF ModrmEnd
  <1> QED  BY <1>2, <1>3, <1>6, <1>7, <1>8 DEF AllNoted

LEMMA ReadsModrm ==
    ASSUME Fields \subseteq DOMAIN ins, AllNoted(ins), Short(ins), ins.modrm.offset = 0
    PROVE  AllNoted(DecodeModRM(ins)) /\ Short(DecodeModRM(ins))
  <1> DEFINE j == DecodeModRM(ins)
  <1>1. /\ j.length = ins.length + 1 /\ j.attributes = ins.attributes \cup {"MODRM"}
        /\ j.modrm = [offset |-> ins.length, mod |-> Bits(Ahead(0), 7, 6),
                      reg |-> Bits(Ahead(0), 5, 3), rm |-> Bits(Ahead(0), 2, 0)]
        /\ j.prefixes = ins.prefixes /\ j.encoding = ins.encoding /\ j.map = ins.map /\ j.vector = ins.vector
        /\ j.sib = ins.sib /\ j.disp = ins.disp /\ j.imm = ins.imm
    BY DEF DecodeModRM, Fields
  <1>2. j.modrm.offset = ins.length
    BY <1>1
  <1> HIDE DEF j
  <1>3. AllNoted(j) /\ Short(j)
    BY <1>1, <1>2, ModrmLayout
  <1> QED  BY <1>3 DEF j

(* A filter that is none of the opcode and comes when the opcode is complete. *)
LEMMA FilterLayout ==
    ASSUME IInv, LayoutInv, pc = "tree", pc' = "tree", node.type \notin Heads \cup {"INVALID", "DEFINITION"},
           NEW k, node' = Child(node, k), NEW l, temp' \in {temp, Child(node, l)},
           AllNoted(ins) /\ Short(ins) => AllNoted(ins') /\ Short(ins')
    PROVE  LayoutInv'
  <1>1. AllNoted(ins) /\ Short(ins) /\ temp.type \notin Heads /\ node \in Nodes
    BY DEF LayoutInv, Reached, IInv, Consistent, Walking
  <1>2. \A c : Child(node, c).type \notin Heads
    <2>1. node # Tree[Root] /\ node.type # "OPCODE" /\ node.type \notin VectorTypes
      BY RootFact DEF Heads
    <2> QED  BY <1>1, <2>1, KidOfOther
  <1>3. Reached(node', temp', ins') /\ temp'.type \notin Heads
    BY <1>1, <1>2 DEF Reached
  <1> QED  BY <1>3, TreeLayout

LEMMA ModrmFilterLayout ==
    ASSUME IInv, LayoutInv, NodeHandlerModrm
    PROVE  LayoutInv'
  <1>1. CASE ins.modrm.offset = 0 /\ InputStatus(1) # "SUCCESS"
    BY <1>1, FailLayout DEF NodeHandlerModrm
  <1>2. CASE ~(ins.modrm.offset = 0 /\ InputStatus(1) # "SUCCESS")
    <2>1. /\ pc = "tree" /\ pc' = "tree" /\ temp' = temp
          /\ node' = Child(node, ModrmIndex(ins'.modrm)) /\ node.type \in ModrmTypes
          /\ ins' = IF ins.modrm.offset = 0 THEN DecodeModRM(ins) ELSE ins
      BY <1>2 DEF NodeHandlerModrm, Goto, Type
    <2>2. node.type \notin Heads \cup {"INVALID", "DEFINITION"}
      BY <2>1 DEF ModrmTypes, Heads, VectorTypes
    <2>3. AllNoted(ins) /\ Short(ins) => AllNoted(ins') /\ Short(ins')
      BY <2>1, ReadsModrm DEF IInv, Consistent
    <2> QED  BY <2>1, <2>2, <2>3, FilterLayout
  <1> QED  BY <1>1, <1>2

(* The filters of the vector prefixes and the others that only look. *)
LEMMA LookingLayout ==
    ASSUME IInv, LayoutInv, NodeHandlerLooking
    PROVE  LayoutInv'
  <1>1. CASE Type = "VECTOR_LENGTH" /\ vu.LL = 3
    BY <1>1, FailLayout DEF NodeHandlerLooking
  <1>2. CASE ~(Type = "VECTOR_LENGTH" /\ vu.LL = 3)
    <2> DEFINE k == FilterIndex(node.type)
    <2>1. /\ pc = "tree" /\ pc' = "tree" /\ temp' = temp /\ ins' = ins
          /\ node' = Child(node, k) /\ node.type \in LookingTypes
      BY <1>2 DEF NodeHandlerLooking, Goto, Type
    <2>2. node.type \notin {"OPCODE", "INVALID", "DEFINITION"} /\ node \in Nodes
      BY <2>1 DEF LookingTypes, DefaultModes, OtherModes, IInv, Consistent, Walking
    <2>3. CASE node.type \notin VectorTypes
      BY <2>1, <2>2, <2>3, FilterLayout DEF Heads
    <2>4. CASE node.type \in VectorTypes
      <3>1. Begun(ins) /\ temp = None /\ AtFilter(node, ins) /\ temp.type \notin Heads
        <4>1. Reached(node, temp, ins) /\ node.type \in Heads /\ node # Tree[Root] /\ temp.type \notin Heads
          BY <2>1, <2>2, <2>4, RootFact DEF LayoutInv, Heads
        <4> QED  BY <2>2, <4>1 DEF Reached, AtHead, AtRoot, AtMap1, AtLast
      <3>2. CASE ins.encoding = "LEGACY" /\ ins.map = 0 /\ ins.length = Len(ins.prefixes) + 1
        <4>1. k = 0
          BY <2>4, <3>2 DEF FilterIndex, VectorTypes, DefaultModes, OtherModes
        <4>2. node'.type \notin Heads
          BY <2>1, <2>2, <2>4, <4>1, KidOfFilter
        <4>3. ins.length = OpcodeEnd(ins)
          <5>1. OpcodeStart(ins) = Len(ins.prefixes) /\ OpcodeSize(ins) = 1 /\ Len(ins.prefixes) \in Nat
            BY <3>1, <3>2 DEF OpcodeStart, OpcodeSize, VectorEncodings, Begun, WellBegun
          <5> QED  BY <3>2, <5>1 DEF OpcodeEnd
        <4>4. Reached(node', temp', ins')
          BY <2>1, <3>1, <4>2, <4>3, OpcodeComplete DEF Reached
        <4> QED  BY <2>1, <3>1, <4>4, TreeLayout
      <3>3. CASE ins.encoding \in VectorEncodings /\ ins.length = OpcodeStart(ins) /\ Selects(ins, node.type)
        <4>1. k # 0
          <5>1. ins.encoding # "LEGACY" /\ ins.vector.map \in Nat /\ ins.vector.pp \in Nat
            BY <3>3 DEF VectorEncodings, Selects
          <5>2. CASE node.type = "XOP"
            <6>1. k = ins.vector.map - 8 + 3 * ins.vector.pp + 1 /\ ins.vector.map >= 8
              BY <3>3, <5>1, <5>2 DEF FilterIndex, Selects, DefaultModes, OtherModes
            <6> HIDE DEF k
            <6> QED  BY <5>1, <6>1
          <5>3. CASE node.type = "VEX"
            <6>1. k = ins.vector.map + 4 * ins.vector.pp + 1
              BY <5>1, <5>3 DEF FilterIndex, DefaultModes, OtherModes
            <6> HIDE DEF k
            <6> QED  BY <5>1, <6>1
          <5>4. CASE node.type = "EMVEX"
            <6>1. \/ k = ins.vector.map + 8 * ins.vector.pp + 1
                  \/ k = ins.vector.map + 4 * ins.vector.pp + 33
              BY <5>1, <5>4 DEF FilterIndex, DefaultModes, OtherModes
            <6> HIDE DEF k
            <6> QED  BY <5>1, <6>1
          <5> HIDE DEF k
          <5> QED  BY <2>4, <5>2, <5>3, <5>4 DEF VectorTypes
        <4> HIDE DEF k
        <4>2. CASE node'.type = "INVALID"
          BY <2>1, <3>1, <4>2, TreeLayout DEF Reached
        <4>3. CASE node'.type = "OPCODE" /\ node' # Tree[Root] /\ node' # Map1
          <5>1. AtLast(node', ins')
            BY <2>1, <3>3, <4>3 DEF AtLast
          <5>2. Reached(node', temp', ins')
            BY <2>1, <3>1, <4>3, <5>1 DEF Reached, AtHead, Heads
          <5> QED  BY <2>1, <3>1, <5>2, TreeLayout
        <4> QED  BY <2>1, <2>2, <2>4, <4>1, <4>2, <4>3, KidOfFilter
      <3> QED  BY <3>1, <3>2, <3>3 DEF AtFilter
    <2> QED  BY <2>3, <2>4
  <1> QED  BY <1>1, <1>2

LEMMA RetypeLayout ==
    ASSUME NEW i, Fields \subseteq DOMAIN i, i.prefixes \in Seq(Prefix), NEW k, NEW v, Noted(i.prefixes, k, v),
           NEW t \in Types
    PROVE  SameLayout(i, SetPrefixType(i, k, t))
  <1> DEFINE j == SetPrefixType(i, k, t)
  <1>0. Retyped(i, j, k, t)
    BY RetypeFact
  <1>1. Len(j.prefixes) = Len(i.prefixes) /\ j.attributes = i.attributes
    <2> HIDE DEF j
    <2> QED  BY <1>0 DEF Retyped, SameValues
  <1>2. /\ j.length = i.length /\ j.encoding = i.encoding /\ j.map = i.map /\ j.vector = i.vector
        /\ j.modrm = i.modrm /\ j.sib = i.sib /\ j.disp = i.disp /\ j.imm = i.imm
    BY DEF SetPrefixType, Fields
  <1> HIDE DEF j
  <1> QED  BY <1>1, <1>2 DEF SameLayout, SameParts, j

LEMMA ResizedLayout ==
    ASSUME NEW i, NEW j, SameLayout(i, j), Fields \subseteq DOMAIN j, NEW a, \E b \in SUBSET {"OPERANDSIZE"} :
               a = j.attributes \ b \/ a = j.attributes \cup b
    PROVE  SameLayout(i, [j EXCEPT !.attributes = a])
  <1> DEFINE h == [j EXCEPT !.attributes = a]
  <1>1. /\ h.length = j.length /\ h.encoding = j.encoding /\ h.map = j.map /\ h.vector = j.vector
        /\ h.modrm = j.modrm /\ h.sib = j.sib /\ h.disp = j.disp /\ h.imm = j.imm /\ h.prefixes = j.prefixes
        /\ h.attributes = a
    BY DEF Fields
  <1> HIDE DEF h
  <1>2. \A x \in {"REX", "MODRM", "SIB"} : x \in h.attributes <=> x \in j.attributes
    BY <1>1
  <1> QED  BY <1>1, <1>2 DEF SameLayout, SameParts, h

LEMMA OperandSizeLayout ==
    ASSUME IInv, PrefixesInv, LayoutInv, NodeHandlerOperandSize
    PROVE  LayoutInv'
  <1> DEFINE k == IF vu.W = 1 THEN 2 ELSE IF "OPERANDSIZE" \in ins.attributes THEN 0 ELSE 1
  <1>1. pc = "tree" /\ pc' = "tree" /\ temp' = temp /\ node' = Child(node, k) /\ node.type = "OPERAND_SIZE"
    BY DEF NodeHandlerOperandSize, Goto, Type
  <1>2. PrefixesNoted(pfx, ins) /\ Fields \subseteq DOMAIN ins
    BY <1>1 DEF PrefixesInv, Between, IInv, Consistent
  <1>3. AllNoted(ins) /\ Short(ins) => AllNoted(ins') /\ Short(ins')
    <2>1. CASE vu.W = 0 /\ "OPERANDSIZE" \in ins.attributes
      <3>1. ins' = SetPrefixType(ins, pfx.at.osz, "EFFECTIVE") /\ Noted(ins.prefixes, pfx.at.osz, {OSZ})
            /\ ins.prefixes \in Seq(Prefix) /\ "EFFECTIVE" \in Types
        BY <1>2, <2>1 DEF NodeHandlerOperandSize, PrefixesNoted, Types
      <3>2. SameLayout(ins, ins')
        BY <1>2, <3>1, RetypeLayout
      <3> QED  BY <3>2, SameLayoutFact
    <2>2. CASE ~(vu.W = 0 /\ "OPERANDSIZE" \in ins.attributes)
      BY <2>2 DEF NodeHandlerOperandSize
    <2> QED  BY <2>1, <2>2
  <1>4. node.type \notin Heads \cup {"INVALID", "DEFINITION"}
    BY <1>1 DEF Heads, VectorTypes
  <1> HIDE DEF k
  <1> QED  BY <1>1, <1>3, <1>4, FilterLayout

LEMMA MandatoryLayout ==
    ASSUME IInv, PrefixesInv, LayoutInv, NodeHandlerMandatoryPrefix
    PROVE  LayoutInv'
  <1> DEFINE k == CASE pfx.mandatory = OSZ -> 2 [] pfx.mandatory = REPE -> 3
                    [] pfx.mandatory = REPNE -> 4 [] OTHER -> 1
  <1>1. /\ pc = "tree" /\ pc' = "tree" /\ temp' = Child(node, 0) /\ node' = Child(node, k)
        /\ node.type = "MANDATORY_PREFIX"
    BY DEF NodeHandlerMandatoryPrefix, Goto, Type
  <1> HIDE DEF k
  <1>2. PrefixesNoted(pfx, ins) /\ Fields \subseteq DOMAIN ins
    BY <1>1 DEF PrefixesInv, Between, IInv, Consistent
  <1>3. AllNoted(ins) /\ Short(ins) => AllNoted(ins') /\ Short(ins')
    <2>1. CASE pfx.mandatory # 0
      <3> DEFINE j == SetPrefixType(ins, pfx.at.mandatory, "MANDATORY")
                 a == IF pfx.mandatory = OSZ THEN j.attributes \ {"OPERANDSIZE"} ELSE j.attributes
      <3>1. /\ ins' = [j EXCEPT !.attributes = a]
            /\ Noted(ins.prefixes, pfx.at.mandatory, {pfx.mandatory})
            /\ ins.prefixes \in Seq(Prefix) /\ "MANDATORY" \in Types
        BY <1>2, <2>1 DEF NodeHandlerMandatoryPrefix, PrefixesNoted, Types
      <3>2. SameLayout(ins, j)
        BY <1>2, <3>1, RetypeLayout
      <3>3. Fields \subseteq DOMAIN j
        BY <1>2, PrefixTypeFact
      <3> HIDE DEF j
      <3>4. \E b \in SUBSET {"OPERANDSIZE"} : a = j.attributes \ b \/ a = j.attributes \cup b
        <4>1. a = j.attributes \ {"OPERANDSIZE"} \/ a = j.attributes \cup {}
          OBVIOUS
        <4> QED  BY <4>1
      <3> HIDE DEF a
      <3>5. SameLayout(ins, ins')
        BY <3>1, <3>2, <3>3, <3>4, ResizedLayout
      <3> QED  BY <3>5, SameLayoutFact
    <2>2. CASE pfx.mandatory = 0
      BY <2>2 DEF NodeHandlerMandatoryPrefix
    <2> QED  BY <2>1, <2>2
  <1>4. node.type \notin Heads \cup {"INVALID", "DEFINITION"}
    BY <1>1 DEF Heads, VectorTypes
  <1> QED  BY <1>1, <1>3, <1>4, FilterLayout

LEMMA DeadEndLayout ==
    ASSUME IInv, PrefixesInv, LayoutInv, DeadEnd
    PROVE  LayoutInv'
  <1>1. CASE temp = None
    BY <1>1, FailLayout DEF DeadEnd
  <1>2. CASE temp # None
    <2>1. pc = "tree" /\ pc' = "tree" /\ node' = temp /\ temp' = None /\ node.type = "INVALID"
      BY <1>2 DEF DeadEnd, Type
    <2>2. AllNoted(ins) /\ Short(ins) /\ temp.type \notin Heads
      BY <1>2, <2>1 DEF LayoutInv, Reached, Heads, VectorTypes
    <2>3. PrefixesNoted(pfx, ins) /\ Fields \subseteq DOMAIN ins
      BY <2>1 DEF PrefixesInv, Between, IInv, Consistent
    <2>4. pfx.mandatory \in {0, OSZ, REPE, REPNE} /\ OSZ \notin {0, REPE, REPNE} /\ 0 \notin {REPE, REPNE}
      BY DEF IInv, Consistent, OSZ, REPE, REPNE
    <2>5. AllNoted(ins') /\ Short(ins')
      <3>1. CASE pfx.mandatory = 0
        BY <1>2, <2>2, <2>4, <3>1 DEF DeadEnd
      <3>2. CASE pfx.mandatory # 0
        <4> DEFINE t == IF pfx.mandatory = OSZ /\ pfx.at.osz = pfx.at.mandatory THEN "EFFECTIVE" ELSE "IGNORED"
                   j == SetPrefixType(ins, pfx.at.mandatory, t)
        <4>1. /\ pfx.mandatory = OSZ => ins' = [j EXCEPT !.attributes = j.attributes \cup {"OPERANDSIZE"}]
              /\ pfx.mandatory # OSZ => ins' = j
          BY <1>2, <2>4, <3>2 DEF DeadEnd
        <4>2. Noted(ins.prefixes, pfx.at.mandatory, {pfx.mandatory}) /\ ins.prefixes \in Seq(Prefix)
          BY <2>3, <3>2 DEF PrefixesNoted
        <4>3. t \in Types
          BY DEF Types
        <4> HIDE DEF t
        <4>4. SameLayout(ins, j) /\ Fields \subseteq DOMAIN j
          BY <2>3, <4>2, <4>3, RetypeLayout, PrefixTypeFact
        <4> HIDE DEF j
        <4>5. SameLayout(ins, [j EXCEPT !.attributes = j.attributes \cup {"OPERANDSIZE"}])
          BY <4>4, ResizedLayout
        <4>6. SameLayout(ins, ins')
          BY <4>1, <4>4, <4>5
        <4> QED  BY <2>2, <4>6, SameLayoutFact
      <3> QED  BY <3>1, <3>2
    <2>6. Reached(node', temp', ins') /\ temp'.type \notin Heads
      BY <2>1, <2>2, <2>5 DEF Reached, None, Heads, VectorTypes
    <2> QED  BY <2>1, <2>6, TreeLayout
  <1> QED  BY <1>1, <1>2

LEMMA FoundLayout ==
    ASSUME IInv, LayoutInv, FoundDefinition
    PROVE  LayoutInv'
  <1>1. /\ pc = "tree" /\ pc' = "modrm" /\ node.type = "DEFINITION"
        /\ ins' = [ins EXCEPT !.operandWidth = SetEffectiveOperandWidth(ins, Def),
                              !.addressWidth = SetEffectiveAddressWidth(ins, Def)]
    BY DEF FoundDefinition, Type
  <1>2. AllNoted(ins) /\ Short(ins) /\ Fields \subseteq DOMAIN ins
    BY <1>1 DEF LayoutInv, Reached, Heads, VectorTypes, IInv, Consistent
  <1>3. SameLayout(ins, ins')
    BY <1>1, <1>2 DEF SameLayout, SameParts, Fields
  <1>4. AllNoted(ins') /\ Short(ins')
    BY <1>2, <1>3, SameLayoutFact
  <1> QED  BY <1>1, <1>4 DEF LayoutInv, Parts, Complete

LEMMA WalkLayout ==
    ASSUME IInv, PrefixesInv, LayoutInv, WalkTree
    PROVE  LayoutInv'
  BY OpcodeLayout, ModrmFilterLayout, LookingLayout, OperandSizeLayout, MandatoryLayout, DeadEndLayout, FoundLayout
  DEF WalkTree

-----------------------------------------------------------------------------
(* The optional parts: each is noted at the end of those before it. *)

LEMMA ReadModrmLayout ==
    ASSUME IInv, LayoutInv, ReadModrm
    PROVE  LayoutInv'
  <1>1. CASE Def.modrm /\ ins.modrm.offset = 0 /\ InputStatus(1) # "SUCCESS"
    BY <1>1, FailLayout DEF ReadModrm
  <1>2. CASE ~(Def.modrm /\ ins.modrm.offset = 0 /\ InputStatus(1) # "SUCCESS")
    <2>1. /\ pc = "modrm" /\ pc' = "sib"
          /\ ins' = IF Def.modrm /\ ins.modrm.offset = 0 THEN DecodeModRM(ins) ELSE ins
      BY <1>2 DEF ReadModrm
    <2>2. AllNoted(ins) /\ Short(ins) /\ Fields \subseteq DOMAIN ins
      BY <2>1 DEF LayoutInv, Parts, IInv, Consistent
    <2>3. AllNoted(ins') /\ Short(ins')
      BY <2>1, <2>2, ReadsModrm
    <2> QED  BY <2>1, <2>3 DEF LayoutInv, Parts, Complete
  <1> QED  BY <1>1, <1>2

LEMMA ReadSibLayout ==
    ASSUME IInv, LayoutInv, ReadSib
    PROVE  LayoutInv'
  <1>1. CASE \E s : Fail(s)
    BY <1>1, FailLayout
  <1>2. CASE ~(\E s : Fail(s))
    <2>1. pc = "sib" /\ pc' = "disp"
      BY <1>2 DEF ReadSib
    <2>2. /\ Laid(ins) /\ ins.length = PartsEnd(ins) /\ ins.disp.size = 0 /\ ins.imm = <<>>
          /\ "SIB" \notin ins.attributes
          /\ Fields \subseteq DOMAIN ins
      BY <2>1 DEF LayoutInv, Parts, IInv, Consistent, AllNoted, Short
    <2>3. CASE HasMemory /\ ins.modrm.rm = 4
      <3>1. ins' = [ins EXCEPT !.length = @ + 1, !.sib = ZydisDecodeSIB(Ahead(0)), !.attributes = @ \cup {"SIB"}]
        BY <1>2, <2>3 DEF ReadSib
      <3>2. /\ ins'.length = ins.length + 1 /\ ins'.sib = ZydisDecodeSIB(Ahead(0))
            /\ ins'.attributes = ins.attributes \cup {"SIB"} /\ ins'.prefixes = ins.prefixes
            /\ ins'.encoding = ins.encoding /\ ins'.map = ins.map /\ ins'.vector = ins.vector
            /\ ins'.modrm = ins.modrm /\ ins'.disp = ins.disp /\ ins'.imm = ins.imm
        BY <2>2, <3>1 DEF Fields
      <3>3. ins'.sib.offset = ins.length
        BY <3>2 DEF ZydisDecodeSIB
      <3>4. ModrmEnd(ins) \in Nat /\ ins.length = ModrmEnd(ins)
        BY <2>2, EndsFact, ShortEnd
      <3>5. OpcodeEnd(ins') = OpcodeEnd(ins)
        BY <3>2 DEF OpcodeEnd, OpcodeStart, OpcodeSize
      <3>6. ModrmEnd(ins') = ModrmEnd(ins)
        BY <3>2, <3>5 DEF ModrmEnd
      <3>7. ins'.imm \in Seq(Immediate) /\ Len(ins'.imm) = 0 /\ WellBegun(ins')
        BY <2>2, <3>2 DEF Laid, WellBegun
      <3>8. Laid(ins')
        BY <2>2, <3>2, <3>3, <3>4, <3>5, <3>6, <3>7 DEF Laid
      <3>9. PartsEnd(ins') = ModrmEnd(ins) + 1
        <4>1. PartsEnd(ins') = SibEnd(ins')
          BY <2>2, <3>2, <3>8, ShortEnd
        <4> QED  BY <3>2, <3>6, <4>1 DEF SibEnd
      <3>10. AllNoted(ins') /\ ins'.disp.size = 0 /\ ins'.imm = <<>>
        BY <2>2, <3>2, <3>4, <3>8, <3>9 DEF AllNoted
      <3> QED  BY <2>1, <3>10 DEF LayoutInv, Parts, Complete
    <2>4. CASE ~(HasMemory /\ ins.modrm.rm = 4)
      <3>1. ins' = ins
        BY <2>4 DEF ReadSib
      <3> QED  BY <2>1, <2>2, <3>1 DEF LayoutInv, Parts, Complete, AllNoted
    <2> QED  BY <2>3, <2>4
  <1> QED  BY <1>1, <1>2

LEMMA ReadDisplacementLayout ==
    ASSUME IInv, LayoutInv, ReadDisplacement
    PROVE  LayoutInv'
  <1> DEFINE size == IF Def.disp # <<>> THEN Def.disp[EaszIndex] ELSE DisplacementSize
             n    == size \div 8
  <1>1. /\ pc = "disp" /\ node.type = "DEFINITION" /\ ins.addressWidth \in {32, 64} /\ node \in Nodes
        /\ Fields \subseteq DOMAIN ins
    BY DEF ReadDisplacement, IInv, ReadsDefinition, Consistent, Parts, Walking
  <1>2. size \in Nat
    <2>1. CASE Def.disp # <<>>
      <3>1. EaszIndex \in 1 .. 3
        BY <1>1 DEF EaszIndex, SizeIndex
      <3>2. Def.disp \in [1 .. 3 -> Nat]
        BY <1>1, <2>1, DefinitionFact DEF Def, BySize
      <3> QED  BY <2>1, <3>1, <3>2
    <2>2. CASE Def.disp = <<>>
      BY <2>2 DEF DisplacementSize
    <2> QED  BY <2>1, <2>2
  <1> HIDE DEF size
  <1>3. n \in Nat /\ (n # 0 => size > 0)
    BY <1>2
  <1>4. CASE InputStatus(n) # "SUCCESS" /\ n > 0
    BY <1>4, FailLayout DEF ReadDisplacement, size
  <1>5. CASE ~(InputStatus(n) # "SUCCESS" /\ n > 0)
    <2> DEFINE d == IF n = 0 THEN ins.disp ELSE [offset |-> ins.length, size |-> size, value |-> NextBytes(n)]
    <2>1. /\ pc' = "imm"
          /\ ins' = [ins EXCEPT !.length = @ + n, !.disp = d,
                                !.attributes = @ \cup (IF RipRelative THEN {"RELATIVE"} ELSE {})]
      BY <1>5 DEF ReadDisplacement, size
    <2>2. /\ ins'.length = ins.length + n /\ ins'.disp = d
          /\ ins'.attributes = ins.attributes \cup (IF RipRelative THEN {"RELATIVE"} ELSE {})
          /\ ins'.prefixes = ins.prefixes /\ ins'.encoding = ins.encoding /\ ins'.map = ins.map
          /\ ins'.vector = ins.vector /\ ins'.modrm = ins.modrm /\ ins'.sib = ins.sib /\ ins'.imm = ins.imm
      BY <1>1, <2>1 DEF Fields
    <2>3. d.size \in Nat /\ (d.size > 0 => d.offset = ins.length) /\ d.size \div 8 = n
      <3>1. ins.disp.size = 0
        BY <1>1 DEF LayoutInv
      <3>2. CASE n = 0
        BY <3>1, <3>2
      <3>3. CASE n # 0
        <4>1. d.size = size /\ d.offset = ins.length
          BY <3>3
        <4> HIDE DEF d
        <4> QED  BY <1>2, <1>3, <4>1
      <3> QED  BY <3>2, <3>3
    <2> HIDE DEF d
    <2>4. Laid(ins) /\ ins.length = PartsEnd(ins) /\ ins.disp.size = 0 /\ ins.imm = <<>>
      BY <1>1 DEF LayoutInv, Parts, AllNoted
    <2>5. SibEnd(ins) \in Nat /\ ins.length = SibEnd(ins)
      BY <2>4, EndsFact, ShortEnd
    <2>6. /\ "REX" \in ins'.attributes <=> "REX" \in ins.attributes
          /\ "MODRM" \in ins'.attributes <=> "MODRM" \in ins.attributes
          /\ "SIB" \in ins'.attributes <=> "SIB" \in ins.attributes
      BY <2>2
    <2>7. OpcodeEnd(ins') = OpcodeEnd(ins)
      BY <2>2 DEF OpcodeEnd, OpcodeStart, OpcodeSize
    <2>8. ModrmEnd(ins') = ModrmEnd(ins) /\ SibEnd(ins') = SibEnd(ins)
      BY <2>6, <2>7 DEF ModrmEnd, SibEnd
    <2>9. ins'.imm \in Seq(Immediate) /\ Len(ins'.imm) = 0 /\ WellBegun(ins')
      BY <2>2, <2>4, <2>6 DEF Laid, WellBegun
    <2>10. Laid(ins')
      BY <2>2, <2>3, <2>4, <2>5, <2>6, <2>7, <2>8, <2>9 DEF Laid
    <2>11. DispEnd(ins') = SibEnd(ins) + n /\ DispEnd(ins') \in Nat
      BY <1>3, <2>2, <2>3, <2>5, <2>8 DEF DispEnd
    <2>12. PartsEnd(ins') = DispEnd(ins')
      BY <2>9, <2>11 DEF PartsEnd, FirstEnd
    <2>13. AllNoted(ins')
      BY <2>2, <2>5, <2>10, <2>11, <2>12 DEF AllNoted
    <2> QED  BY <2>1, <2>13 DEF LayoutInv, Parts, Complete
  <1> QED  BY <1>4, <1>5

LEMMA BelowTwo == \A k \in Nat : k < 2 => k = 0 \/ k = 1
  OBVIOUS

LEMMA AppendFact ==
    ASSUME NEW S, NEW s \in Seq(S), NEW e \in S
    PROVE  /\ Append(s, e) \in Seq(S) /\ Len(Append(s, e)) = Len(s) + 1 /\ Len(s) \in Nat
           /\ Append(s, e)[Len(s) + 1] = e
           /\ \A m \in 1 .. Len(s) : Append(s, e)[m] = s[m]
  OBVIOUS

(* One more immediate, at the end of what has been read. *)
LEMMA ImmediateLayout ==
    ASSUME NEW i, NEW j, NEW p \in Immediate, NEW n, AllNoted(i), Len(i.imm) < 2,
           j.imm = Append(i.imm, p), p.offset = i.length, p.size \div 8 = n, j.length = i.length + n,
           j.prefixes = i.prefixes, j.encoding = i.encoding, j.map = i.map, j.vector = i.vector,
           j.modrm = i.modrm, j.sib = i.sib, j.disp = i.disp,
           \A a \in {"REX", "MODRM", "SIB"} : a \in j.attributes <=> a \in i.attributes
    PROVE  AllNoted(j)
  <1>1. /\ Laid(i) /\ i.length = PartsEnd(i) /\ i.imm \in Seq(Immediate)
        /\ "REX" \in j.attributes <=> "REX" \in i.attributes
        /\ "MODRM" \in j.attributes <=> "MODRM" \in i.attributes
        /\ "SIB" \in j.attributes <=> "SIB" \in i.attributes
    BY DEF AllNoted, Laid
  <1>2. /\ j.imm \in Seq(Immediate) /\ Len(j.imm) = Len(i.imm) + 1 /\ Len(i.imm) \in {0, 1}
        /\ j.imm[Len(i.imm) + 1] = p
        /\ \A m \in 1 .. Len(i.imm) : j.imm[m] = i.imm[m]
    <2>1. Len(i.imm) \in Nat
      BY <1>1
    <2>2. Len(i.imm) = 0 \/ Len(i.imm) = 1
      BY <2>1, BelowTwo
    <2> QED  BY <1>1, <2>2, AppendFact
  <1>3. p.size \in Nat /\ n \in Nat
    <2>1. p.size \in Nat
      BY DEF Immediate
    <2> QED  BY <2>1
  <1>4. OpcodeEnd(j) = OpcodeEnd(i) /\ WellBegun(j)
    BY <1>1 DEF OpcodeEnd, OpcodeStart, OpcodeSize, WellBegun, Laid
  <1>5. ModrmEnd(j) = ModrmEnd(i) /\ SibEnd(j) = SibEnd(i) /\ DispEnd(j) = DispEnd(i)
    BY <1>1, <1>4 DEF ModrmEnd, SibEnd, DispEnd
  <1>6. DispEnd(i) \in Nat /\ FirstEnd(i) \in Nat
    BY <1>1, EndsFact
  <1> HIDE DEF Immediate
  <1>7. CASE Len(i.imm) = 0
    <2>1. Len(j.imm) = 1 /\ j.imm[1] = p
      BY <1>2, <1>7
    <2>2. PartsEnd(i) = DispEnd(i)
      BY <1>6, <1>7 DEF PartsEnd, FirstEnd
    <2>3. PartsEnd(j) = DispEnd(i) + n
      BY <1>3, <1>5, <1>6, <2>1 DEF PartsEnd, FirstEnd
    <2>4. Laid(j)
      BY <1>1, <1>2, <1>4, <1>5, <2>1, <2>2 DEF Laid
    <2> QED  BY <1>1, <2>2, <2>3, <2>4 DEF AllNoted
  <1>8. CASE Len(i.imm) = 1
    <2>1. Len(j.imm) = 2 /\ j.imm[1] = i.imm[1] /\ j.imm[2] = p
      BY <1>2, <1>8
    <2>2. FirstEnd(j) = FirstEnd(i)
      BY <1>5, <1>8, <2>1 DEF FirstEnd
    <2>3. PartsEnd(i) = FirstEnd(i)
      BY <1>6, <1>8 DEF PartsEnd
    <2>4. PartsEnd(j) = FirstEnd(i) + n
      BY <1>3, <1>6, <2>1, <2>2 DEF PartsEnd
    <2>5. Laid(j)
      BY <1>1, <1>2, <1>4, <1>5, <1>8, <2>1, <2>2, <2>3 DEF Laid
    <2> QED  BY <1>1, <2>3, <2>4, <2>5 DEF AllNoted
  <1> QED  BY <1>2, <1>7, <1>8

LEMMA ReadImmediateLayout ==
    ASSUME IInv, LayoutInv, ReadImmediate, IInv'
    PROVE  LayoutInv'
  <1>1. /\ pc = "imm" /\ AllNoted(ins) /\ Fields \subseteq DOMAIN ins /\ node \in Nodes /\ node.type = "DEFINITION"
        /\ ins.imm \in Seq(Immediate) /\ Len(ins.imm) <= Len(Def.imm)
    BY DEF ReadImmediate, LayoutInv, Parts, IInv, Consistent, ReadsDefinition, Walking, Def
  <1>2. CASE Len(ins.imm) = Len(Def.imm)
    <2>1. pc' = "check" /\ ins' = ins
      BY <1>2 DEF ReadImmediate
    <2> QED  BY <1>1, <2>1 DEF LayoutInv, Parts, Complete
  <1>3. CASE Len(ins.imm) # Len(Def.imm)
    <2> DEFINE info == Def.imm[Len(ins.imm) + 1]
               size == info.size[EoszIndex]
               n    == size \div 8
               p    == [offset |-> ins.length, size |-> size, signed |-> info.signed, relative |-> info.relative,
                        value |-> NextBytes(n)]
    <2>1. CASE InputStatus(n) # "SUCCESS"
      BY <1>3, <2>1, FailLayout DEF ReadImmediate
    <2>2. CASE InputStatus(n) = "SUCCESS"
      <3>1. /\ pc' = "imm"
            /\ ins' = [ins EXCEPT !.length = @ + n, !.imm = Append(@, p),
                                  !.attributes = @ \cup (IF info.relative THEN {"RELATIVE"} ELSE {})]
        BY <1>1, <1>3, <2>2 DEF ReadImmediate
      <3>2. p.offset = ins.length /\ p.size \div 8 = n
        OBVIOUS
      <3> HIDE DEF info, size, n, p
      <3>3. /\ ins'.length = ins.length + n /\ ins'.imm = Append(ins.imm, p)
            /\ ins'.attributes = ins.attributes \cup (IF info.relative THEN {"RELATIVE"} ELSE {})
            /\ ins'.prefixes = ins.prefixes /\ ins'.encoding = ins.encoding /\ ins'.map = ins.map
            /\ ins'.vector = ins.vector /\ ins'.modrm = ins.modrm /\ ins'.sib = ins.sib /\ ins'.disp = ins.disp
        BY <1>1, <3>1 DEF Fields
      <3>4. \A a \in {"REX", "MODRM", "SIB"} : a \in ins'.attributes <=> a \in ins.attributes
        BY <3>3
      <3>5. Len(ins.imm) < 2
        <4>1. Len(Def.imm) \in Nat /\ Len(Def.imm) <= 2
          BY <1>1, DefinitionFact DEF Def
        <4> QED  BY <1>1, <1>3, <4>1
      <3>6. p \in Immediate
        <4>1. ins'.imm \in Seq(Immediate)
          BY DEF IInv, ReadsDefinition
        <4>2. Len(ins'.imm) = Len(ins.imm) + 1 /\ ins'.imm[Len(ins.imm) + 1] = p /\ Len(ins.imm) \in Nat
          BY <1>1, <3>3
        <4>3. Len(ins.imm) + 1 \in 1 .. Len(ins'.imm)
          BY <4>2
        <4> HIDE DEF Immediate
        <4> QED  BY <4>1, <4>2, <4>3, ElementOfSeq
      <3>7. AllNoted(ins')
        BY <1>1, <3>2, <3>3, <3>4, <3>5, <3>6, ImmediateLayout
      <3> QED  BY <3>1, <3>7 DEF LayoutInv, Parts, Complete
    <2> QED  BY <2>1, <2>2
  <1> QED  BY <1>2, <1>3

LEMMA TailLayout ==
    ASSUME IInv, LayoutInv, CheckErrorConditions \/ OpcodeSuffix
    PROVE  LayoutInv'
  <1>1. CASE \E s : Fail(s)
    BY <1>1, FailLayout
  <1>2. CASE ~(\E s : Fail(s)) /\ CheckErrorConditions
    <2>1. pc = "check" /\ pc' = (IF ins.encoding = "3DNOW" THEN "suffix" ELSE "attributes") /\ ins' = ins
      BY <1>2 DEF CheckErrorConditions
    <2>2. AllNoted(ins)
      BY <2>1 DEF LayoutInv
    <2>3. CASE ins.encoding = "3DNOW"
      BY <2>1, <2>2, <2>3 DEF LayoutInv, Parts, Complete
    <2>4. CASE ins.encoding # "3DNOW"
      <3>1. Laid(ins) /\ ins.length = PartsEnd(ins) + Suffix(ins)
        <4>1. Laid(ins) /\ ins.length = PartsEnd(ins) /\ PartsEnd(ins) \in Nat /\ Suffix(ins) = 0
          BY <2>2, <2>4, EndsFact DEF AllNoted, Suffix
        <4> QED  BY <4>1
      <3> QED  BY <2>1, <2>4, <3>1 DEF LayoutInv, Parts, Complete
    <2> QED  BY <2>3, <2>4
  <1>3. CASE ~(\E s : Fail(s)) /\ OpcodeSuffix
    <2>1. /\ pc = "suffix" /\ pc' = "attributes"
          /\ ins' = [ins EXCEPT !.length = @ + 1, !.opcode = Ahead(0)]
      BY <1>3 DEF OpcodeSuffix
    <2>2. AllNoted(ins) /\ ins.encoding = "3DNOW" /\ Fields \subseteq DOMAIN ins
      BY <2>1 DEF LayoutInv, IInv, Consistent
    <2>3. /\ ins'.length = ins.length + 1 /\ ins'.attributes = ins.attributes /\ ins'.prefixes = ins.prefixes
          /\ ins'.encoding = ins.encoding /\ ins'.map = ins.map /\ ins'.vector = ins.vector
          /\ ins'.modrm = ins.modrm /\ ins'.sib = ins.sib /\ ins'.disp = ins.disp /\ ins'.imm = ins.imm
      BY <2>1, <2>2 DEF Fields
    <2>4. SameParts(ins, ins')
      BY <2>3 DEF SameParts
    <2>5. Laid(ins') /\ PartsEnd(ins') = PartsEnd(ins) /\ Suffix(ins') = 1 /\ ins.length = PartsEnd(ins)
      BY <2>2, <2>3, <2>4, SamePartsFact DEF AllNoted, Suffix
    <2> QED  BY <2>1, <2>3, <2>5 DEF LayoutInv, Parts, Complete
  <1> QED  BY <1>1, <1>2, <1>3

LEMMA SetAttributesLayout ==
    ASSUME IInv, PrefixesInv, LayoutInv, SetAttributes
    PROVE  LayoutInv'
  <1> DEFINE s == ins.prefixes
             t == [k \in DOMAIN s |-> IF k - 1 \in PrefixesInUse THEN [s[k] EXCEPT !.type = "EFFECTIVE"] ELSE s[k]]
             added == Segment \cup (IF ins.encoding = "LEGACY"
                                   THEN (IF LockUsed THEN {"LOCK"} ELSE {}) \cup Group1Meaning \cup BranchHint
                                   \cup NoTrack
                                   ELSE {})
  <1>1. /\ pc = "attributes" /\ pc' = "decoded"
        /\ ins' = [ins EXCEPT !.attributes = @ \cup Segment \cup
                       (IF ins.encoding = "LEGACY"
                        THEN (IF LockUsed THEN {"LOCK"} ELSE {}) \cup Group1Meaning \cup BranchHint \cup NoTrack
                        ELSE {}),
                       !.prefixes = t]
    BY DEF SetAttributes
  <1>2. /\ Fields \subseteq DOMAIN ins /\ s \in Seq(Prefix)
        /\ Laid(ins) /\ ins.length = PartsEnd(ins) + Suffix(ins)
    BY <1>1 DEF PrefixesInv, Between, PrefixesNoted, IInv, Consistent, LayoutInv
  <1>3. /\ ins'.prefixes = t /\ ins'.attributes = ins.attributes \cup added
        /\ ins'.length = ins.length /\ ins'.encoding = ins.encoding /\ ins'.map = ins.map
        /\ ins'.vector = ins.vector
        /\ ins'.modrm = ins.modrm /\ ins'.sib = ins.sib /\ ins'.disp = ins.disp /\ ins'.imm = ins.imm
    BY <1>1, <1>2 DEF Fields
  <1>4. added \cap {"REX", "MODRM", "SIB"} = {}
    <2>1. Segment \subseteq {"SEGMENT_FS", "SEGMENT_GS"} /\ NoTrack \subseteq {"NOTRACK"}
      BY DEF Segment, NoTrack
    <2>2. Group1Meaning \subseteq {"REPNE", "XACQUIRE", "BND", "REP", "REPE", "XRELEASE"}
      BY DEF Group1Meaning
    <2>3. BranchHint \subseteq {"BRANCH_NOT_TAKEN", "BRANCH_TAKEN"}
      BY DEF BranchHint, DS
    <2> QED  BY <2>1, <2>2, <2>3
  <1> HIDE DEF added
  <1>5. Len(t) = Len(s)
    <2>1. Len(s) \in Nat /\ DOMAIN s = 1 .. Len(s)
      BY <1>2
    <2>2. ASSUME NEW k \in 1 .. Len(s)
          PROVE  t[k] \in Prefix
      <3>1. s[k] \in Prefix
        BY <1>2, ElementOfSeq
      <3>2. [s[k] EXCEPT !.type = "EFFECTIVE"] \in Prefix
        BY <3>1 DEF Prefix
      <3> HIDE DEF s, Prefix
      <3> QED  BY <2>1, <3>1, <3>2
    <2> HIDE DEF s, Prefix
    <2>3. t \in [1 .. Len(s) -> Prefix]
      BY <2>1, <2>2
    <2> HIDE DEF t
    <2> QED  BY <2>1, <2>3
  <1> HIDE DEF t
  <1>6. SameLayout(ins, ins')
    <2>1. \A a \in {"REX", "MODRM", "SIB"} : a \in ins'.attributes <=> a \in ins.attributes
      BY <1>3, <1>4
    <2> QED  BY <1>3, <1>5, <2>1 DEF SameLayout, SameParts
  <1>7. Laid(ins') /\ ins'.length = PartsEnd(ins') + Suffix(ins')
    BY <1>2, <1>6, SameLayoutFact
  <1> QED  BY <1>1, <1>7 DEF LayoutInv, Parts, Complete

LEMMA CollectPrefixLayout ==
    ASSUME IInv, LayoutInv, CollectPrefix, PrefixesInv'
    PROVE  LayoutInv'
  <1> DEFINE a == (IF Ahead(0) = OSZ THEN {"OPERANDSIZE"} ELSE {})
                  \cup (IF Ahead(0) = ASZ THEN {"ADDRESSSIZE"} ELSE {})
             e == [value |-> Ahead(0), type |-> "IGNORED"]
             o == IF Ahead(0) \in RexBytes THEN ins.length ELSE 0
  <1>1. /\ pc = "prefixes" /\ pc' = "prefixes"
        /\ ins' = [ins EXCEPT !.length = @ + 1, !.prefixes = Append(@, e), !.rexOffset = o,
                              !.attributes = @ \cup (IF Ahead(0) = OSZ THEN {"OPERANDSIZE"} ELSE {}) \cup
                                                    (IF Ahead(0) = ASZ THEN {"ADDRESSSIZE"} ELSE {})]
    BY DEF CollectPrefix
  <1>2. /\ Begun(ins) /\ ins.map = 0 /\ Fields \subseteq DOMAIN ins /\ ins.encoding = "LEGACY"
    BY <1>1 DEF LayoutInv, IInv, Consistent, TakesBytes
  <1> HIDE DEF e, o
  <1>3. /\ ins'.encoding = ins.encoding /\ ins'.map = ins.map
        /\ ins'.modrm = ins.modrm /\ ins'.disp = ins.disp /\ ins'.imm = ins.imm
        /\ ins'.attributes = ins.attributes \cup a
    BY <1>1, <1>2 DEF Fields
  <1>4. a \cap {"MODRM", "SIB"} = {}
    OBVIOUS
  <1> HIDE DEF a
  <1>5. Len(ins'.prefixes) \in Nat /\ "REX" \notin ins'.attributes
    BY <1>1 DEF PrefixesInv, PrefixesNoted, Collecting
  <1>6. WellBegun(ins')
    BY <1>2, <1>3, <1>5 DEF WellBegun, LegacyEncodings, VectorEncodings
  <1>7. Begun(ins') /\ ins'.map = 0
    BY <1>2, <1>3, <1>4, <1>6 DEF Begun, Short
  <1> QED  BY <1>1, <1>7 DEF LayoutInv, Parts, Complete

LEMMA PrefixesCollectedLayout ==
    ASSUME IInv, PrefixesInv, LayoutInv, PrefixesCollected
    PROVE  LayoutInv'
  <1>1. /\ pc = "prefixes" /\ pc' = "tree" /\ node' = node /\ temp' = temp
        /\ ins' = [ins EXCEPT !.prefixes = MarkEffective(ins),
                              !.attributes = @ \cup (IF pfx.rex # 0 THEN {"REX"} ELSE {})]
    BY DEF PrefixesCollected
  <1>2. /\ Begun(ins) /\ ins.map = 0 /\ Fields \subseteq DOMAIN ins /\ ins.encoding = "LEGACY"
        /\ node = Tree[Root] /\ temp = None
        /\ ins.prefixes \in Seq(Prefix) /\ ins.length = Len(ins.prefixes)
        /\ (pfx.rex # 0 => Noted(ins.prefixes, ins.rexOffset, RexBytes))
        /\ "REX" \notin ins.attributes
    BY <1>1 DEF LayoutInv, IInv, Consistent, TakesBytes, PrefixesInv, PrefixesNoted, Collecting
  <1>3. /\ ins'.encoding = ins.encoding /\ ins'.map = ins.map /\ ins'.length = ins.length
        /\ ins'.modrm = ins.modrm /\ ins'.disp = ins.disp /\ ins'.imm = ins.imm
        /\ ins'.attributes = ins.attributes \cup (IF pfx.rex # 0 THEN {"REX"} ELSE {})
        /\ ins'.prefixes = MarkEffective(ins)
    BY <1>1, <1>2 DEF Fields
  <1>4. Len(ins'.prefixes) = Len(ins.prefixes) /\ Len(ins.prefixes) \in Nat
    <2> DEFINE s == ins.prefixes
               t == MarkEffective(ins)
    <2>1. Len(s) \in Nat
      BY <1>2
    <2>2. DOMAIN t = 1 .. Len(s)
      BY DEF MarkEffective
    <2>3. ASSUME NEW k \in 1 .. Len(s)
          PROVE  t[k] \in Prefix
      <3>1. s[k] \in Prefix
        BY <1>2, ElementOfSeq
      <3>2. [s[k] EXCEPT !.type = "EFFECTIVE"] \in Prefix
        BY <3>1 DEF Prefix
      <3>3. t[k] = [s[k] EXCEPT !.type = "EFFECTIVE"] \/ t[k] = s[k]
        BY DEF MarkEffective
      <3> HIDE DEF s, t, Prefix
      <3> QED  BY <3>1, <3>2, <3>3
    <2>4. t = [k \in 1 .. Len(s) |-> t[k]]
      BY DEF MarkEffective
    <2> HIDE DEF s, t, Prefix
    <2>5. t \in [1 .. Len(s) -> Prefix]
      BY <2>1, <2>3, <2>4
    <2>6. Len(t) = Len(s)
      BY <2>1, <2>5
    <2> QED  BY <1>3, <2>1, <2>6 DEF s, t
  <1>5. "REX" \in ins'.attributes => Len(ins.prefixes) > 0
    <2>1. "REX" \in ins'.attributes => pfx.rex # 0
      BY <1>2, <1>3
    <2> QED  BY <1>2, <1>4, <2>1 DEF Noted
  <1>6. WellBegun(ins')
    BY <1>2, <1>3, <1>4, <1>5 DEF WellBegun, LegacyEncodings, VectorEncodings
  <1>7. Begun(ins')
    BY <1>2, <1>3, <1>6 DEF Begun, Short
  <1>8. AtRoot(node', ins')
    BY <1>1, <1>2, <1>3, <1>4 DEF AtRoot
  <1>9. Reached(node', temp', ins') /\ temp'.type \notin Heads
    BY <1>1, <1>2, <1>7, <1>8, RootFact DEF Reached, AtHead, Heads, None, VectorTypes
  <1> QED  BY <1>1, <1>9, TreeLayout

LEMMA StepLayout ==
    ASSUME IInv, PrefixesInv, LayoutInv, DecodeStep
    PROVE  LayoutInv'
  <1>1. IInv' /\ PrefixesInv'
    BY StepIInv, StepAInv
  <1>2. CASE CollectOptionalPrefixes
    BY <1>1, <1>2, CollectPrefixLayout, PrefixesCollectedLayout, FailLayout
       DEF CollectOptionalPrefixes, PrefixesEndEarly
  <1>3. CASE WalkTree
    BY <1>3, WalkLayout
  <1>4. CASE DecodeOptionalInstructionParts
    BY <1>1, <1>4, ReadModrmLayout, ReadSibLayout, ReadDisplacementLayout, ReadImmediateLayout
    DEF DecodeOptionalInstructionParts
  <1>5. CASE CheckErrorConditions \/ OpcodeSuffix
    BY <1>5, TailLayout
  <1>6. CASE SetAttributes
    BY <1>6, SetAttributesLayout
  <1> QED  BY <1>2, <1>3, <1>4, <1>5, <1>6 DEF DecodeStep

-----------------------------------------------------------------------------
(* The listing *)

LEMMA EmptyBegun == Begun(EmptyInstruction) /\ EmptyInstruction.map = 0
  <1>1. /\ EmptyInstruction.prefixes = <<>> /\ EmptyInstruction.attributes = {}
        /\ EmptyInstruction.encoding = "LEGACY" /\ EmptyInstruction.map = 0 /\ EmptyInstruction.imm = <<>>
        /\ EmptyInstruction.modrm.offset = 0 /\ EmptyInstruction.disp.size = 0
    BY DEF EmptyInstruction
  <1>2. WellBegun(EmptyInstruction)
    BY <1>1 DEF WellBegun, LegacyEncodings, VectorEncodings
  <1> QED  BY <1>1, <1>2 DEF Begun, Short

(* What has been decoded stays tiled. *)
ListingTiled == \E S : listing \in Seq(S) /\ \A k \in DOMAIN listing : Tiled(listing[k].ins)

LEMMA AdvanceLayout ==
    ASSUME LayoutInv, ListingTiled, Advance
    PROVE  LayoutInv' /\ ListingTiled'
  <1>1. pc = "full" /\ listing' = Append(listing, Decoded) /\ Decoded.ins = ins
        /\ ins' = EmptyInstruction /\ pc' \in {"prefixes", "failed"}
    BY DEF Advance, Cleared, StartOf, Decoded
  <1>2. LayoutInv'
    BY <1>1, EmptyBegun DEF LayoutInv, Parts, Complete
  <1>3. Tiled(ins)
    BY <1>1, LaidTiles DEF LayoutInv, Complete
  <1>4. PICK S : listing \in Seq(S)
    BY DEF ListingTiled
  <1> DEFINE T == S \cup {Decoded}
  <1>5. listing \in Seq(T) /\ Decoded \in T
    BY <1>4, SeqMonotonic
  <1> HIDE DEF T
  <1>6. ASSUME NEW k \in DOMAIN listing'
        PROVE  Tiled(listing'[k].ins)
    <2>1. /\ DOMAIN listing' = 1 .. Len(listing) + 1 /\ Len(listing) \in Nat
          /\ k \in 1 .. Len(listing) => listing'[k] = listing[k] /\ k \in DOMAIN listing
          /\ k = Len(listing) + 1 => listing'[k] = Decoded
      BY <1>1, <1>5
    <2> QED  BY <1>1, <1>3, <1>6, <2>1 DEF ListingTiled
  <1>7. listing' \in Seq(T)
    BY <1>1, <1>5
  <1> QED  BY <1>2, <1>6, <1>7 DEF ListingTiled

LInv == AInv /\ LayoutInv /\ ListingTiled

LEMMA InitLInv == StreamInit => LInv
  <1> SUFFICES ASSUME StreamInit PROVE LInv
    OBVIOUS
  <1>1. AInv
    BY InitIInv, InitAInv DEF AInv
  <1>2. PICK b \in Buffers : Start(b)
    BY DEF StreamInit, DecodedInit, Init
  <1>3. ins = EmptyInstruction /\ pc \in {"prefixes", "failed"} /\ listing = <<>>
    BY <1>2 DEF Start, StartOf, StreamInit
  <1>4. LayoutInv
    BY <1>3, EmptyBegun DEF LayoutInv, Parts, Complete
  <1>5. ListingTiled
    <2>1. listing \in Seq({}) /\ DOMAIN listing = {}
      BY <1>3
    <2> QED  BY <2>1 DEF ListingTiled
  <1> QED  BY <1>1, <1>4, <1>5 DEF LInv

LEMMA NextLInv == LInv /\ [DisassembleStep]_streamVars => LInv'
  <1> SUFFICES ASSUME LInv, [DisassembleStep]_streamVars PROVE LInv'
    OBVIOUS
  <1>0. AInv /\ IInv /\ PrefixesInv /\ LayoutInv /\ ListingTiled /\ AInv'
    BY NextAInv DEF LInv, AInv
  <1>1. CASE DecodeNext
    <2>1. ListingTiled'
      BY <1>0, <1>1 DEF DecodeNext, ListingTiled
    <2>2. CASE DecodeStep
      BY <1>0, <2>1, <2>2, StepLayout DEF LInv
    <2>3. CASE SetAVXInformation \/ ZydisDecodeOperands
      <3>1. pc \in Complete /\ pc' \in Complete /\ ins' = ins
        BY <2>3 DEF SetAVXInformation, ZydisDecodeOperands, Complete
      <3>2. LayoutInv'
        BY <1>0, <3>1 DEF LayoutInv, Parts, Complete
      <3> QED  BY <1>0, <2>1, <3>2 DEF LInv
    <2> QED  BY <1>1, <2>2, <2>3 DEF DecodeNext, DecodeFull, DecodePhysical
  <1>2. CASE Advance
    BY <1>0, <1>2, AdvanceLayout DEF LInv
  <1>3. CASE UNCHANGED streamVars
    <2>1. UNCHANGED <<pc, ins, node, temp, listing>>
      BY <1>3 DEF streamVars, decodedVars, vars
    <2> QED  BY <1>0, <2>1 DEF LInv, LayoutInv, ListingTiled
  <1> QED  BY <1>1, <1>2, <1>3 DEF DisassembleStep

(* The segments of every instruction tile it: for every tree, blob and limit, what      *)
(* ZydisGetInstructionSegments computes from the offsets that the steps noted begins at *)
(* the first byte, leaves no gap, overlaps nowhere and ends with the last byte.         *)
THEOREM SegmentsAlwaysTile == StreamSpec => []SegmentsTile
  <1>1. LInv => SegmentsTile
    BY DEF LInv, ListingTiled, Tiled, SegmentsTile
  <1> QED  BY <1>1, InitLInv, NextLInv, PTL DEF StreamSpec
=============================================================================
