------------------------------ MODULE Absolute ------------------------------
(***************************************************************************)
(* Requests whose relative operands are given as the addresses they mean.  *)
(* The distance to an address counts from the end of the instruction, so   *)
(* the encoder predicts the size of a branch from a table before it        *)
(* encodes it, and patches a displacement relative to the instruction      *)
(* pointer into the bytes after it has encoded them.                       *)
(***************************************************************************)
EXTENDS Request, Emitter

(* The bytes of instruction n; patch is where those of a displacement begin. *)
Emitted(n) ==
    LET bytes == ZydisEmitInstruction(n) IN
    [status |-> "SUCCESS", bytes |-> bytes,
     patch |-> Len(bytes) - (((n.dispSize + n.immSize) \div 8) + (IF n.encoding = "3DNOW" THEN 1 ELSE 0))]

(* The results of the three stages, one of each.  What a request becomes does not *)
(* depend on the room there is for it.                                             *)
Stages(q) ==
    UNION {IF t.ok THEN {Emitted(n) : n \in {ZydisBuildInstruction(t)}}
           ELSE {[status |-> "IMPOSSIBLE_INSTRUCTION", bytes |-> <<>>, patch |-> 0]}
             : t \in {FindMatchingDefinition(q)}}

EncodeInstructionInternal(q) == CHOOSE r \in Stages(q) : TRUE

Invalid == [status |-> "INVALID_ARGUMENT", bytes |-> <<>>, patch |-> 0]

ZydisEncoderEncodeInstruction(q) ==
    IF ZydisEncoderCheckRequestSanity(q) THEN EncodeInstructionInternal(q) ELSE Invalid

-----------------------------------------------------------------------------
(* The address that an operand of a decoded instruction means, where it means one *)

EipRelative(runtime, length, disp) ==
    ZeroExtend(LowBytes(Plus(Plus(ZeroExtend(LowBytes(runtime, 4)), FromSmall(length)), disp), 4))
FromNext(runtime, length, distance) == Plus(Plus(runtime, FromSmall(length)), distance)

Address(a) == [status |-> "SUCCESS", address |-> a]
NoAddress == [status |-> "INVALID_ARGUMENT", address |-> Zero]

AddressOfMemory(i, m, runtime) ==
    CASE ~m.hasDisp -> NoAddress
      [] m.hasDisp /\ m.base = EIP -> Address(EipRelative(runtime, i.length, m.disp))
      [] m.hasDisp /\ m.base = RIP -> Address(FromNext(runtime, i.length, m.disp))
      [] m.hasDisp /\ Unnamed(m.base) /\ Unnamed(m.index) ->
             Address(ZeroExtend(LowBytes(m.disp, i.addressWidth \div 8)))
      [] OTHER -> NoAddress

ZydisCalcAbsoluteAddress(i, o, runtime) ==
    CASE o.type = "MEMORY" -> AddressOfMemory(i, o.mem, runtime)
      [] o.type = "IMMEDIATE" /\ o.imm.signed /\ o.imm.relative -> Address(FromNext(runtime, i.length, o.imm.value))
      [] OTHER -> NoAddress

-----------------------------------------------------------------------------
(* Branches *)

(* The sizes of the forms with 8, 16 and 32 bits (0: there is none), which hint    *)
(* chooses among them, and which prefixes make them longer.  Where the address     *)
(* size chooses, the sizes for 32 and for 64 bits are the same.                     *)
RelInfo(s8, s16, s32, hint, branchHints, bound) ==
    [size |-> (8 :> s8 @@ 16 :> s16 @@ 32 :> s32), hint |-> hint, branchHints |-> branchHints, bound |-> bound]

Conditional ==
    {"jb", "jbe", "jl", "jle", "jnb", "jnbe", "jnl", "jnle", "jno", "jnp", "jns", "jnz", "jo", "jp", "js", "jz"}
RelativeMnemonics ==
    Conditional \cup {"call", "jcxz", "jecxz", "jkzd", "jknzd", "jmp", "jrcxz", "loop", "loope", "loopne", "xbegin"}

ZydisGetRelInfo(mnemonic) ==
    CASE mnemonic = "call" -> RelInfo(0, 0, 5, "NONE", FALSE, TRUE)
      [] mnemonic \in Conditional -> RelInfo(2, 0, 6, "NONE", TRUE, TRUE)
      [] mnemonic = "jcxz" -> RelInfo(0, 0, 0, "NONE", FALSE, FALSE)
      [] mnemonic = "jecxz" -> RelInfo(3, 0, 0, "NONE", FALSE, FALSE)
      [] mnemonic \in {"jkzd", "jknzd"} -> RelInfo(5, 0, 7, "NONE", FALSE, FALSE)
      [] mnemonic = "jmp" -> RelInfo(2, 0, 5, "NONE", FALSE, TRUE)
      [] mnemonic = "jrcxz" -> RelInfo(2, 0, 0, "NONE", FALSE, FALSE)
      [] mnemonic \in {"loop", "loope", "loopne"} -> RelInfo(2, 0, 0, "ASZ", FALSE, FALSE)
      [] mnemonic = "xbegin" -> RelInfo(0, 5, 6, "OSZ", FALSE, FALSE)

Count(conditions) == Len(SelectSeq(conditions, LAMBDA c : c))

X_ExtraLength(q, info) ==
    CASE info.hint = "NONE" -> Count(<< info.branchHints /\ q.prefixes \cap BranchHints # {} >>)
      [] info.hint = "OSZ" -> Count(<< q.osz = 64 >>)
      [] info.hint = "ASZ" -> Count(<< q.asz = 32 >>)

(* Prefixes that the table does not know of. *)
ExtraLength(q, info) ==
    CASE info.hint = "NONE" -> Count(<< info.branchHints /\ q.prefixes \cap BranchHints # {},
                                        info.bound /\ "BND" \in q.prefixes >>)
      [] info.hint = "OSZ" -> Count(<< q.osz = 64 >>)
      [] info.hint = "ASZ" -> Count(<< q.asz = 32 >>)

(* A jump with a bound, or a branch that is to be near, is not made short. *)
NotShort(q, info) ==
    \/ q.branchType = "NEAR"
    \/ info.bound /\ "BND" \in q.prefixes /\ q.mnemonic = "jmp" /\ q.branchType = "NONE"

(* The widths in the order in which they are tried, or the one that was asked for. *)
Tried(q, info) ==
    CASE info.hint = "NONE" /\ q.branchWidth # 0 -> <<q.branchWidth>>
      [] info.hint = "NONE" /\ q.branchWidth = 0 -> IF NotShort(q, info) THEN <<32>> ELSE <<8, 32>>
      [] info.hint = "OSZ" -> (CASE q.osz = 0 -> <<8, 32, 16>> [] q.osz = 64 -> <<32>> [] OTHER -> <<q.osz>>)
      [] info.hint = "ASZ" -> <<8>>

(* The request with the distance in place of the address, in the first width that   *)
(* has a form, ends in the address space and holds the distance; or no request.      *)
Aimed(q, n, info, runtime) ==
    LET Size(w) == FromSmall(info.size[w] + ExtraLength(q, info))
        Distance(w) == Minus(q.ops[n].imm, Plus(runtime, Size(w)))
        widths == SelectSeq(Tried(q, info),
                            LAMBDA w : info.size[w] # 0 /\ ~Wraps(runtime, Size(w)) /\ FitsSigned(Distance(w), w \div 8))
        refused == \/ info.hint = "NONE" /\ (q.branchType = "FAR" \/ q.branchWidth = 64)
                   \/ info.hint = "ASZ" /\ q.asz = 16
    IN  IF refused \/ widths = <<>> THEN {}
        ELSE LET w == Head(widths) IN
             {[q EXCEPT !.ops[n].imm = Distance(w),
                        !.branchWidth = IF info.hint = "NONE" THEN w ELSE @,
                        !.osz = IF info.hint = "OSZ" /\ @ = 0 THEN w ELSE @]}

-----------------------------------------------------------------------------
(* ZydisEncoderEncodeInstructionAbsolute *)

RelativeOperands(q) ==
    {n \in DOMAIN q.ops : q.ops[n].type = "IMMEDIATE" /\ q.mnemonic \in RelativeMnemonics}
RipOperands(q) == {n \in DOMAIN q.ops : q.ops[n].type = "MEMORY" /\ q.ops[n].mem.base \in InstructionPointers}

(* The loop over the operands: the request as it has been rewritten in place, whether *)
(* an immediate has been replaced by a distance, the operand relative to the          *)
(* instruction pointer (0: none yet) and the address that it was given. Its           *)
(* displacement is zero until the size of the instruction is known.                   *)
Untouched(q) == [ok |-> TRUE, request |-> q, adjusted |-> FALSE, rip |-> 0, address |-> Zero]
Refuse(s) == [s EXCEPT !.ok = FALSE]

TakeImmediate(s, n, runtime) ==
    LET aimed == Aimed(s.request, n, ZydisGetRelInfo(s.request.mnemonic), runtime)
    IN  IF s.adjusted \/ aimed = {} THEN Refuse(s)
        ELSE [s EXCEPT !.request = CHOOSE q \in aimed : TRUE, !.adjusted = TRUE]

TakeRip(s, n) ==
    IF s.rip # 0 THEN Refuse(s)
    ELSE [s EXCEPT !.rip = n, !.address = s.request.ops[n].mem.disp, !.request.ops[n].mem.disp = Zero]

TakeOperand(s, n, runtime) ==
    CASE s.ok /\ n \in RelativeOperands(s.request) -> TakeImmediate(s, n, runtime)
      [] s.ok /\ n \in RipOperands(s.request) -> TakeRip(s, n)
      [] OTHER -> s

OperandsTaken(q, runtime) ==
    FoldLeft(LAMBDA s, n : TakeOperand(s, n, runtime), Untouched(q), [n \in DOMAIN q.ops |-> n])

(* What the caller is left with: a request that was refused stays as far as it was    *)
(* rewritten.                                                                         *)
Left(status, bytes, q) == [status |-> status, bytes |-> bytes, request |-> q]

PatchRip(s, r, runtime) ==
    LET size == FromSmall(Len(r.bytes))
        distance == Minus(s.address, Plus(runtime, size))
        Patched == [k \in DOMAIN r.bytes |-> IF k - r.patch \in 1 .. 4 THEN distance[k - r.patch] ELSE r.bytes[k]]
    IN  IF Wraps(runtime, size) \/ ~FitsSigned(distance, 4) THEN Left(Invalid.status, r.bytes, s.request)
        ELSE Left(r.status, Patched, [s.request EXCEPT !.ops[s.rip].mem.disp = distance])

Complete(s, r, runtime) ==
    IF s.rip = 0 \/ r.status # "SUCCESS" THEN Left(r.status, r.bytes, s.request)
    ELSE PatchRip(s, r, runtime)

ZydisEncoderEncodeInstructionAbsolute(q, runtime) ==
    LET s == OperandsTaken(q, runtime)
    IN  CASE ~ZydisEncoderCheckRequestSanity(q) -> Left(Invalid.status, Invalid.bytes, q)
          [] ZydisEncoderCheckRequestSanity(q) /\ ~s.ok -> Left(Invalid.status, Invalid.bytes, s.request)
          [] OTHER -> Complete(s, EncodeInstructionInternal(s.request), runtime)

-----------------------------------------------------------------------------
(* The request that Zydis' test of re-encoding makes of a decoded instruction *)

(* An address at which a branch crosses the middle of the address space. *)
TestAddress(i) ==
    Minus(IF i.addressWidth = 32 THEN ZeroExtend(<<0, 0, 0, 128>>) ELSE <<0, 0, 0, 0, 0, 0, 0, 128>>, FromSmall(i.length))

MeansAddress(o) ==
    \/ o.type = "IMMEDIATE" /\ o.imm.relative
    \/ o.type = "MEMORY" /\ o.mem.base \in InstructionPointers

AsAbsolute(q, i, os, runtime) ==
    LET Target(n) == ZydisCalcAbsoluteAddress(i, os[n], runtime).address
        Become(n) ==
            CASE ~MeansAddress(os[n]) -> q.ops[n]
              [] MeansAddress(os[n]) /\ os[n].type = "IMMEDIATE" -> [q.ops[n] EXCEPT !.imm = Target(n)]
              [] MeansAddress(os[n]) /\ os[n].type = "MEMORY" -> [q.ops[n] EXCEPT !.mem.disp = Target(n)]
    IN  [q EXCEPT !.ops = [n \in DOMAIN @ |-> Become(n)]]
=============================================================================
