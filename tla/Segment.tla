------------------------------ MODULE Segment ------------------------------
(***************************************************************************)
(* ZydisGetInstructionSegments: the parts of a decoded instruction i, each *)
(* with its offset and its size in bytes, computed from the fields that    *)
(* the decoder left in i.                                                  *)
(***************************************************************************)
EXTENDS Integers, Sequences

Piece(type, offset, size) == << [type |-> type, offset |-> offset, size |-> size] >>

PrefixPieces(i) ==
    LET count == Len(i.prefixes)
        rex   == IF "REX" \in i.attributes THEN 1 ELSE 0
    IN  (IF count > rex THEN Piece("PREFIXES", 0, count - rex) ELSE <<>>) \o
        (IF count > 0 /\ rex = 1 THEN Piece("REX", count - 1, 1) ELSE <<>>)

VectorPiece(i) ==
    CASE i.encoding = "XOP" -> Piece("XOP", i.vector.offset, 3)
      [] i.encoding = "VEX" -> Piece("VEX", i.vector.offset, i.vector.size)
      [] i.encoding \in {"EVEX", "MVEX"} -> Piece(i.encoding, i.vector.offset, 4)
      [] i.encoding \in {"LEGACY", "3DNOW"} -> <<>>

(* The escape bytes of the legacy maps (8 is 0F 0F) belong to the opcode. *)
OpcodeSize(i) ==
    IF i.encoding \notin {"LEGACY", "3DNOW"} THEN 1
    ELSE CASE i.map = 0 -> 1 [] i.map \in {1, 8} -> 2 [] i.map \in {2, 3} -> 3

(* The opcode has no offset of its own: it follows what comes before. *)
OpcodePiece(i, before) ==
    Piece("OPCODE", IF before = <<>> THEN 0 ELSE before[Len(before)].offset + before[Len(before)].size,
         OpcodeSize(i))

ImmediatePiece(i, n) ==
    IF n > Len(i.imm) \/ i.imm[n].size = 0 THEN <<>>
    ELSE Piece("IMMEDIATE", i.imm[n].offset, i.imm[n].size \div 8)

ZydisGetInstructionSegments(i) ==
    LET before == PrefixPieces(i) \o VectorPiece(i) IN
    before \o OpcodePiece(i, before) \o
    (IF "MODRM" \in i.attributes THEN Piece("MODRM", i.modrm.offset, 1) ELSE <<>>) \o
    (IF "SIB" \in i.attributes THEN Piece("SIB", i.sib.offset, 1) ELSE <<>>) \o
    (IF i.disp.size > 0 THEN Piece("DISPLACEMENT", i.disp.offset, i.disp.size \div 8) ELSE <<>>) \o
    ImmediatePiece(i, 1) \o ImmediatePiece(i, 2) \o
    (IF i.encoding = "3DNOW" THEN Piece("OPCODE", i.length - 1, 1) ELSE <<>>)
=============================================================================
