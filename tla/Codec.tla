------------------------------- MODULE Codec -------------------------------
(***************************************************************************)
(* There and back: snippet_decode turns a blob of code into the requests   *)
(* that the snippet keeps, snippet_encode turns the requests into code,    *)
(* and the code is disassembled again, as Zydis' own test of re-encoding   *)
(* does.  Nothing changes the requests in between; what passes do to them  *)
(* is in other modules.                                                    *)
(***************************************************************************)
EXTENDS Disassembly, Absolute

CONSTANT CodeSize       \* the size of the buffer given to snippet_encode

ASSUME CodeSizeAssumption == CodeSize \in Nat

VARIABLES
    phase,      \* "decode" and encode, then "reread"; or why a request was refused
    requests,   \* the requests of the snippet
    encoded,    \* the bytes that each request became
    first       \* the listing of the first pass

codecVars == <<streamVars, phase, requests, encoded, first>>

CodecInit == StreamInit /\ phase = "decode" /\ requests = <<>> /\ encoded = <<>> /\ first = <<>>

Decode == DecodeNext /\ UNCHANGED <<phase, requests, encoded, first>>

(* An instruction of the blob becomes a request of the snippet. *)
SnippetDecode ==
    /\ phase = "decode"
    /\ Advance
    /\ requests' = Append(requests, DecodedInstructionToEncoderRequest(ins, Def, avx, operands))
    /\ UNCHANGED <<phase, encoded, first>>

Encoding == phase = "decode" /\ pc = "failed" /\ Len(encoded) < Len(requests)
Room == CodeSize - Len(FlattenSeq(encoded))
Result == ZydisEncoderEncodeInstruction(requests[Len(encoded) + 1])

(* A request that does not fit is refused where its first byte too many is written. *)
Outcome(r) == IF r.status = "SUCCESS" /\ Len(r.bytes) > Room THEN "INSUFFICIENT_BUFFER_SIZE" ELSE r.status

SnippetEncode ==
    /\ Encoding
    /\ \E r \in {Result} :
          IF Outcome(r) = "SUCCESS" THEN encoded' = Append(encoded, r.bytes) /\ UNCHANGED phase
          ELSE phase' = Outcome(r) /\ UNCHANGED encoded
    /\ UNCHANGED <<streamVars, requests, first>>

(* The code is read again, from a clean state. *)
Reread ==
    /\ phase = "decode" /\ pc = "failed" /\ Len(encoded) = Len(requests)
    /\ phase' = "reread"
    /\ first' = listing /\ listing' = <<>>
    /\ LET code == FlattenSeq(encoded) IN
       /\ buffer' = code
       /\ pc' = StartOf(code).pc /\ status' = StartOf(code).status
    /\ Cleared
    /\ UNCHANGED <<requests, encoded>>

AdvanceAgain == phase = "reread" /\ Advance /\ UNCHANGED <<phase, requests, encoded, first>>

Reading == Decode \/ SnippetDecode \/ AdvanceAgain

CodecNext == Reading \/ SnippetEncode \/ Reread

(* The loops over code go on; no more is needed for them to end. *)
CodecSpec == CodecInit /\ [][CodecNext]_codecVars /\ WF_codecVars(Reading)

-----------------------------------------------------------------------------
(* When two instructions are the same one, as ZydisValidateInstructionIdentity has it *)

(* xchg of an accumulator with itself is encoded as the nop that it is. *)
IsAliasOfNop(a, b) ==
    /\ a.name = "xchg" /\ b.name = "nop"
    /\ a.operands[1].reg = a.operands[2].reg
    /\ a.operands[1].reg \in {Reg("GPR16", 0), Reg("GPR32", 0), Gpr64(0)}

(* Swizzle 1 is the one that changes nothing. *)
SameFeatures(a, b) ==
    /\ \A f \in {"maskMode", "static", "ratio", "conversion", "rounding", "sae", "eviction"} : a[f] = b[f]
    /\ a.swizzle = b.swizzle \/ {a.swizzle, b.swizzle} = {0, 1}

(* The scale of MIB has no meaning. *)
SameMemory(m, n) ==
    /\ \A f \in {"kind", "segment", "base", "index", "disp"} : m[f] = n[f]
    /\ m.scale = n.scale \/ m.kind = "MIB"

(* A move may hold its immediate in fewer bytes. *)
SameImmediate(o, p, name) ==
    \/ o.imm = p.imm
    \/ /\ name = "mov"
       /\ LET bytes == Larger(o.size, p.size) \div 8 IN
          LowBytes(o.imm.value, bytes) = LowBytes(p.imm.value, bytes)

SameOperand(o, p, name) ==
    /\ o.type = p.type
    /\ CASE o.type = "REGISTER" -> o.size = p.size /\ o.reg = p.reg
         [] o.type = "MEMORY" -> o.size = p.size /\ SameMemory(o.mem, p.mem)
         [] o.type = "IMMEDIATE" -> SameImmediate(o, p, name)

SameInstruction(a, b) ==
    \/ IsAliasOfNop(a, b)
    \/ /\ a.name = b.name
       /\ SameFeatures(a.avx, b.avx)
       /\ Len(a.operands) = Len(b.operands)
       /\ \A n \in DOMAIN a.operands : SameOperand(a.operands[n], b.operands[n], a.name)

-----------------------------------------------------------------------------
(* Properties *)

(* What was decoded can be encoded: the encoder finds a form for every request *)
(* that comes from an instruction, and refuses one only for want of room, in a *)
(* buffer smaller than the code was.                                           *)
EncodesWhatItDecoded ==
    phase \notin {"decode", "reread"} =>
        /\ phase = "INSUFFICIENT_BUFFER_SIZE"
        /\ CodeSize < SumFunction([k \in DOMAIN listing |-> listing[k].ins.length])

(* The code does what the blob did: reading it again gives the instructions of the *)
(* first listing, one by one and no others.                                        *)
SameCode ==
    phase = "reread" =>
        /\ Len(listing) <= Len(first)
        /\ \A k \in DOMAIN listing : SameInstruction(first[k], listing[k])
        /\ pc = "failed" => Len(listing) = Len(first)

(* The encoder takes a shortest form: no instruction becomes longer than it was, *)
(* however it was written in the blob.                                           *)
NeverLonger ==
    phase = "reread" => \A k \in DOMAIN first : Len(encoded[k]) <= first[k].ins.length

(* An instruction can be encoded from the addresses that it means.  From those that *)
(* the code just read means it becomes the same bytes; left to choose the width of a *)
(* branch, the encoder takes a form that is no longer, a short jump with a bound     *)
(* excepted, which it makes near.  And whatever is asked for, a branch that is       *)
(* encoded leads to the address that it was given: the size predicted for it is the  *)
(* size it gets.                                                                     *)
Open(q) == [q EXCEPT !.branchType = "NONE", !.branchWidth = 0]

Hinted(q) ==
    {[q EXCEPT !.branchType = t, !.branchWidth = w] : t \in {q.branchType, "NONE", "NEAR"}, w \in {0, 8, 16, 32}} \cup
    {[q EXCEPT !.osz = w] : w \in {16, 32, 64}} \cup {[q EXCEPT !.asz = w] : w \in {32, 64}}

Distances == {-127, -126, 129, 130, 40000}

Redirected(q, runtime) ==
    {[p EXCEPT !.ops[n].imm = Plus(runtime, FromSmall(distance))] :
        p \in Hinted(q), n \in RelativeOperands(q), distance \in Distances}

Short(d, q) == d.name = "jmp" /\ "BND" \in q.prefixes

SameFromAddresses ==
    phase = "reread" /\ pc = "failed" =>
        \A k \in DOMAIN listing :
            \E d \in {listing[k]} : \E runtime \in {TestAddress(d.ins)} :
            \E q \in {AsAbsolute(requests[k], d.ins, d.operands, runtime)} :
                (\E n \in DOMAIN d.operands : MeansAddress(d.operands[n])) =>
                \A p \in {q, Open(q)} \cup Redirected(q, runtime) :
                    \E r \in {ZydisEncoderEncodeInstructionAbsolute(p, runtime)} :
                        /\ p \in {q, Open(q)} => r.status = "SUCCESS"
                        /\ p = q => r.bytes = d.bytes
                        /\ p = Open(q) /\ ~Short(d, q) => Len(r.bytes) <= Len(d.bytes)
                        /\ r.status = "SUCCESS" =>
                              \A n \in RelativeOperands(p) :
                                  p.ops[n].imm = FromNext(runtime, Len(r.bytes), r.request.ops[n].imm)
=============================================================================
