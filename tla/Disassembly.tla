---------------------------- MODULE Disassembly ----------------------------
(***************************************************************************)
(* snippet_decode: a blob of code is decoded instruction by instruction    *)
(* from its front, each call of ZydisDisassembleIntel given all the bytes  *)
(* that are left.  The loop ends with the first call that fails; at the    *)
(* end of the blob a call is given no bytes and fails for that.            *)
(***************************************************************************)
EXTENDS OperandDecoder, Segment, SequencesExt

VARIABLES
    listing     \* what the calls that succeeded have decoded, in order

streamVars == <<decodedVars, listing>>

(* An instruction of the listing: the bytes it came from, and the results. *)
Decoded ==
    [bytes |-> SubSeq(buffer, 1, ins.length), name |-> Def.name, ins |-> ins, avx |-> avx, operands |-> operands]

StreamInit == DecodedInit /\ listing = <<>>

DecodeNext == DecodeFull /\ UNCHANGED listing

X_Cleared ==
    /\ ins' = EmptyInstruction /\ pfx' = NoPrefixes /\ vu' = vu /\ reg' = NoRegisters
    /\ node' = Tree[Root] /\ temp' = None /\ avx' = NoVectorInfo /\ operands' = <<>>

(* A call clears everything before it begins. *)
Cleared ==
    /\ ins' = EmptyInstruction /\ pfx' = NoPrefixes /\ vu' = NoVector /\ reg' = NoRegisters
    /\ node' = Tree[Root] /\ temp' = None /\ avx' = NoVectorInfo /\ operands' = <<>>

(* The next call starts behind the instruction. *)
Advance ==
    /\ pc = "full"
    /\ listing' = Append(listing, Decoded)
    /\ LET rest == SubSeq(buffer, ins.length + 1, Len(buffer)) IN
       /\ buffer' = rest
       /\ pc' = StartOf(rest).pc /\ status' = StartOf(rest).status
    /\ Cleared

DisassembleStep == DecodeNext \/ Advance

StreamSpec == StreamInit /\ [][DisassembleStep]_streamVars /\ WF_streamVars(DisassembleStep)

-----------------------------------------------------------------------------
(* Properties *)

(* The decoder never takes a byte that it was not given, and never more than   *)
(* the longest instruction has: its position stays in the buffer at every step *)
(* of a call, through all peeks and skips.                                     *)
NeverOverruns == ins.length <= Len(buffer) /\ ins.length <= MaxLength

(* The segments of an instruction, computed from offsets that seven different    *)
(* steps of the decoder noted, follow each other without gap and without overlap *)
(* from the first byte to the last.                                              *)
SegmentsTile ==
    \A k \in DOMAIN listing :
        LET s == ZydisGetInstructionSegments(listing[k].ins) IN
        /\ s[1].offset = 0
        /\ \A n \in 2 .. Len(s) : s[n].offset = s[n - 1].offset + s[n - 1].size
        /\ s[Len(s)].offset + s[Len(s)].size = listing[k].ins.length

(* What an instruction says of its prefixes, its bytes say: an attribute that stands *)
(* for a prefix has a byte of that kind among the prefixes, one that the decoder did *)
(* not find to be ignored.                                                           *)
PrefixOf ==
    [LOCK |-> {LOCK}, REP |-> {REPE}, REPE |-> {REPE}, REPNE |-> {REPNE}, BND |-> {REPNE},
     XACQUIRE |-> {REPNE}, XRELEASE |-> {REPE}, BRANCH_NOT_TAKEN |-> {46}, BRANCH_TAKEN |-> {DS},
     NOTRACK |-> {DS}, SEGMENT_FS |-> {100}, SEGMENT_GS |-> {101}, OPERANDSIZE |-> {OSZ},
     ADDRESSSIZE |-> {ASZ}, REX |-> RexBytes]

AttributesBacked ==
    \A k \in DOMAIN listing :
        LET i == listing[k].ins IN
        \A a \in i.attributes \cap DOMAIN PrefixOf :
            \E n \in DOMAIN i.prefixes : i.prefixes[n].value \in PrefixOf[a] /\ i.prefixes[n].type # "IGNORED"

(* EVEX and MVEX count an 8 bit displacement in units of what the instruction *)
(* reads, which the decoder derives from the tuple type; the size of the memory *)
(* operand it derives on another way.  The two agree.  (A gather's operand is   *)
(* one of its elements, an address has no size.)                                *)
ScaleIsOperandSize ==
    \A k \in DOMAIN listing :
        LET d == listing[k] IN
        d.ins.encoding \in {"EVEX", "MVEX"} =>
            \A n \in DOMAIN d.operands :
                d.operands[n].type = "MEMORY" => d.operands[n].size = 8 * d.avx.scale

(* The meaning of bytes depends neither on what follows them nor on what was *)
(* decoded before: the same bytes are the same instruction wherever they are, *)
(* and what was an instruction before is not refused later.                   *)
SameBytesSameMeaning ==
    /\ \A k, l \in DOMAIN listing : listing[k].bytes = listing[l].bytes => listing[k] = listing[l]
    /\ pc = "failed" => \A k \in DOMAIN listing : ~ IsPrefix(listing[k].bytes, buffer)

(* An instruction that is cut off is reported as that, never as invalid and never *)
(* as another, shorter one: no instruction is the beginning of another, and what  *)
(* is left of the blob, if it is the beginning of an instruction of the listing,  *)
(* was refused for want of bytes.                                                 *)
CutOffIsNoMoreData ==
    /\ \A k, l \in DOMAIN listing : ~ IsStrictPrefix(listing[k].bytes, listing[l].bytes)
    /\ pc = "failed" =>
          \A k \in DOMAIN listing : IsStrictPrefix(buffer, listing[k].bytes) => status = "NO_MORE_DATA"

(* The loop ends, in whatever way the bytes lead the decoder back and forth in its *)
(* tree.                                                                           *)
Terminates == <>[](pc = "failed")

(* A memory operand has a displacement if and only if the instruction has the bytes *)
(* of one.                                                                          *)
DisplacementUsed ==
    \A k \in DOMAIN listing :
        \A n \in DOMAIN listing[k].operands :
            LET o == listing[k].operands[n] IN
            o.type = "MEMORY" => (o.mem.hasDisp <=> listing[k].ins.disp.size > 0)
=============================================================================
