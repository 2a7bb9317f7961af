------------------------------ MODULE Pipeline ------------------------------
(***************************************************************************)
(* The passes of pipeline.c over a snippet, and what the clients of the    *)
(* library do to the snippet between two pipelines.                        *)
(*                                                                         *)
(* An instruction is what the passes tell apart: its kind, its address,    *)
(* and for a jump the target instruction, the target address and the       *)
(* immediate.  Lengths are scaled down: a near jump has length 2, every    *)
(* other instruction 1, and a short jump reaches Reach bytes.  The idx     *)
(* fields are the places in the list: every pass that reads them runs just *)
(* after validate_metadata has written them.                               *)
(***************************************************************************)
EXTENDS Integers, SequencesExt, FiniteSetsExt

CONSTANTS
    Obj,      \* blocks of the arena an instruction can live in
    Decoded,  \* the kinds of instructions that the snippet is decoded from
    Created,  \* the kinds that clients create and insert
    Targets,  \* the absolute addresses that new jumps are given
    Reach,    \* how far a short jump reaches
    MaxEdits, \* bound: how often clients change the snippet
    Null

Kinds == {"plain",    \* any instruction that no pass minds
          "banned",   \* privileged, or on the list of validate_instructions
          "fragile",  \* may not encode after its registers are rewritten
          "rip",      \* rip-relative operand, memory within two gigabytes
          "far",      \* rip-relative operand, memory further away than that
          "short",    \* short jump with a branch width, as the decoder makes it
          "loose",    \* short jump without one, as the generator makes it
          "near",     \* near jump with a 32 bit immediate
          "indirect", \* near jump through a register or memory
          "misfit",   \* near immediate jump with a width that near jumps have not
          "broken"}   \* does not encode

ASSUME PipelineAssumption ==
    /\ Decoded \subseteq Kinds \ {"loose", "misfit", "broken"}
    /\ Created \subseteq Kinds \ {"short", "near", "misfit", "broken"}
    /\ Targets \subseteq Nat
    /\ Reach \in Nat /\ MaxEdits \in Nat
    /\ Null \notin Obj
    /\ IsFiniteSet(Obj)

Base == 1             \* ctx->code.address
ADDRESS_INVALID == 0

VARIABLES
    snip,    \* the list, from first to last
    ins,     \* the fields of all blocks, freed ones included
    passes,  \* the passes of the running pipeline that have not ended
    fresh,   \* validate_metadata has run for the first of them
    todo,    \* the jumps that its walk has still to visit
    run,     \* the pipeline last started, "none" if the snippet was changed since
    valid,   \* pipeline_validate succeeded, and no pass but validate_jump_offsets ran since
    state,   \* "idle", "running", or "aborted": the call does not return
    rc,      \* what the last pipeline returned
    edits    \* how often clients have changed the snippet

vars == <<snip, ins, passes, fresh, todo, run, valid, state, rc, edits>>

Listed == ToSet(snip)
Immediate == {"short", "loose", "near", "misfit"}  \* is_imm_jmp
Jumps == Immediate \cup {"indirect"}               \* is_jump

\* What a walk over a list leaves in it, or visits, if that is the set S.  (This
\* is SelectSeq, written as a function to reason about.)
KeptUpTo(list, S) ==
    LET kept[k \in 0..Len(list)] ==
            IF k = 0 THEN << >>
            ELSE IF list[k] \in S THEN Append(kept[k - 1], list[k]) ELSE kept[k - 1]
    IN  kept
Those(list, S) == KeptUpTo(list, S)[Len(list)]

JumpsOf(list, f) == Those(list, {o \in Obj : f[o].kind \in Jumps})

Length(i) == IF i.kind \in {"near", "misfit"} THEN 2 ELSE 1

\* ZydisEncoderEncodeInstruction succeeds.
Encodes(i) ==
    /\ i.kind \notin {"misfit", "broken"}
    /\ i.kind \in {"short", "loose"} => i.imm \in -Reach..Reach

Blank == [kind |-> "plain", target |-> Null, taddr |-> ADDRESS_INVALID, addr |-> 0, imm |-> 0]

\* Of a block that is given back, only the address is ever read again.
Freed(i) == [Blank EXCEPT !.addr = i.addr]

-----------------------------------------------------------------------------
\* offset_between
OffsetBetween(src, dst) == dst.addr - (src.addr + Length(src))

\* The bytes in front of the k-th instruction of a list
BytesBefore(list, f, k) == {b \in (1..(k - 1)) \X (1..2) : b[2] <= Length(f[list[b[1]]])}
AddressAt(list, f, k) == Base + Cardinality(BytesBefore(list, f, k))

Placed(list, f) ==
    [o \in Obj |-> IF o \in ToSet(list)
                   THEN [f[o] EXCEPT !.addr = AddressAt(list, f, CHOOSE k \in DOMAIN list : list[k] = o)]
                   ELSE f[o]]

\* snippet_remove of the listed instructions outside keep
Removed(list, f, keep) ==
    [o \in Obj |-> IF o \in ToSet(list) \ keep THEN Freed(f[o]) ELSE f[o]]

\* The instructions that validate_metadata keeps.
Encodable(list, f) == Those(list, {o \in Obj : Encodes(f[o])})

\* The fields after validate_metadata
Metadata(list, f) == Placed(Encodable(list, f), Removed(list, f, ToSet(Encodable(list, f))))

-----------------------------------------------------------------------------
\* A pipeline_validate that does not register validate_jump_offsets.
Pipelines_NoOffsets ==
    [validate |-> <<"instructions", "registers", "memory", "jump_operands",
                    "jump_targets", "rip_relative">>,
     encode   |-> <<"jump_offsets">>,
     decode   |-> <<"jump_targets">>]

\* A pipeline_validate that registers validate_memory_operands last.
Pipelines_MemoryLast ==
    [validate |-> <<"instructions", "registers", "jump_operands", "jump_targets",
                    "rip_relative", "jump_offsets", "memory">>,
     encode   |-> <<"jump_offsets">>,
     decode   |-> <<"jump_targets">>]

\* What pipeline_validate, pipeline_encode and pipeline_decode register
Pipelines ==
    [validate |-> <<"instructions", "registers", "memory", "jump_operands",
                    "jump_targets", "rip_relative", "jump_offsets">>,
     encode   |-> <<"jump_offsets">>,
     decode   |-> <<"jump_targets">>]

InPass(p) == state = "running" /\ fresh /\ Head(passes) = p

\* The walks of two passes visit what is in the list.
TypeOK ==
    /\ snip \in Seq(Obj) /\ IsInjective(snip)
    /\ \A o \in Obj : /\ ins[o].kind \in Kinds
                      /\ ins[o].target \in Obj \cup {Null}
                      /\ ins[o].taddr \in Nat /\ ins[o].addr \in Nat /\ ins[o].imm \in Int
    /\ InPass("jump_operands") \/ InPass("jump_targets") => ToSet(todo) \subseteq Listed
    /\ state \in {"idle", "running", "aborted"}
    /\ passes # << >> <=> state # "idle"
    /\ rc \in {0, -1}
    /\ edits \in 0..MaxEdits

\* The pass that runs returns 0: the next one begins, or the pipeline ends.
PassEnds ==
    /\ passes' = Tail(passes)
    /\ fresh' = FALSE
    /\ todo' = << >>
    /\ IF Len(passes) = 1
       THEN state' = "idle" /\ rc' = 0 /\ valid' = (valid \/ run = "validate")
       ELSE UNCHANGED <<state, rc, valid>>
    /\ UNCHANGED <<run, edits>>

\* The pass returns an error, and so does the pipeline.
PassFails ==
    /\ passes' = << >>
    /\ fresh' = FALSE
    /\ todo' = << >>
    /\ state' = "idle"
    /\ rc' = -1
    /\ valid' = FALSE
    /\ UNCHANGED <<run, edits>>

PassGoesOn == UNCHANGED <<passes, fresh, run, valid, state, rc, edits>>

\* The assertion min < max of rand_exclude
Abort ==
    /\ state' = "aborted"
    /\ UNCHANGED <<snip, ins, passes, fresh, todo, run, valid, rc, edits>>

-----------------------------------------------------------------------------
\* A walk over the jumps that were in the list before validate_metadata.
ValidateMetadata_StaleWalk ==
    /\ state = "running" /\ ~fresh
    /\ snip' = Encodable(snip, ins)
    /\ ins' = Metadata(snip, ins)
    /\ fresh' = TRUE
    /\ todo' = JumpsOf(snip, ins)
    /\ UNCHANGED <<passes, run, valid, state, rc, edits>>

\* pipeline_execute calls validate_metadata before every pass.
ValidateMetadata ==
    /\ state = "running" /\ ~fresh
    /\ snip' = Encodable(snip, ins)
    /\ ins' = Metadata(snip, ins)
    /\ fresh' = TRUE
    /\ todo' = JumpsOf(snip', ins')
    /\ UNCHANGED <<passes, run, valid, state, rc, edits>>

\* validate_instructions on every instruction
ValidateInstructions ==
    /\ InPass("instructions")
    /\ LET kept == Those(snip, {o \in Obj : ins[o].kind # "banned"})
       IN  /\ snip' = kept
           /\ ins' = Removed(snip, ins, ToSet(kept))
    /\ PassEnds

\* validate_registers and validate_memory_operands on every instruction.  Their
\* error returns are not reached: validate_metadata has just encoded each of
\* them, so that it has a definition, and one with an index but no scale would
\* not have been encoded (Encoder.c:1845).
ValidateOperands ==
    /\ InPass("registers") \/ InPass("memory")
    /\ \E bad \in SUBSET {o \in Listed : ins[o].kind = "fragile"} :
          ins' = [o \in Obj |-> IF o \in bad THEN [ins[o] EXCEPT !.kind = "broken"] ELSE ins[o]]
    /\ UNCHANGED snip
    /\ PassEnds

\* The kind of a jump after validate_jump_operands.  The branch width stays.
Rewritten(kind) == CASE kind = "short" -> "misfit"
                     [] kind = "indirect" -> "misfit"
                     [] kind = "loose" -> "near"
                     [] OTHER -> kind

\* The target that a jump keeps in validate_jump_operands
KeptTarget(i) == IF i.kind = "indirect" \/ i.target \notin Listed THEN Null ELSE i.target

\* A validate_jump_operands that picks a target and forgets its address.
Aimed_NoAddress(i, t) == [i EXCEPT !.target = t, !.imm = OffsetBetween(i, ins[t])]

\* A jump given the target t
Aimed(i, t) == [i EXCEPT !.target = t, !.taddr = ins[t].addr, !.imm = OffsetBetween(i, ins[t])]

\* validate_jump_operands.  The offset of a new target is computed with the
\* length that the jump had before it was rewritten.
ValidateJumpOperands ==
    /\ InPass("jump_operands")
    /\ IF todo = << >> THEN UNCHANGED <<snip, ins>> /\ PassEnds ELSE
       LET o == Head(todo)
           i == [ins[o] EXCEPT !.target = KeptTarget(ins[o]),
                               !.imm = IF ins[o].kind = "indirect" THEN 0 ELSE @]
           Done(new) == /\ ins' = [ins EXCEPT ![o] = [new EXCEPT !.kind = Rewritten(@)]]
                        /\ todo' = Tail(todo)
                        /\ UNCHANGED snip
                        /\ PassGoesOn
       IN  \/ i.target # Null /\ Done(i)
           \/ i.target = Null /\ \E t \in Listed \ {o} : Done(Aimed(i, t))
           \/ i.target = Null /\ Len(snip) = 1 /\ Abort

\* A validate_jump_targets that keeps the old target if the search fails.
Found_OrOld(o) ==
    LET there == {t \in Listed : ins[t].addr = ins[o].taddr}
    IN  IF there # {} THEN there ELSE {ins[o].target} \ {Null}

\* A fallback that also excludes the index behind that of the jump; rand_exclude
\* asserts that this index is not above the largest.
Found_ExcludesTwo(o) ==
    LET there == {t \in Listed : ins[t].addr = ins[o].taddr}
        k     == CHOOSE n \in DOMAIN snip : snip[n] = o
    IN  IF there # {} THEN there
        ELSE IF k = Len(snip) THEN {} ELSE Listed \ {o, snip[k + 1]}

\* The targets that validate_jump_targets may choose: the instruction at the
\* target address, or if there is none any but the jump itself.
Found(o) ==
    LET there == {t \in Listed : ins[t].addr = ins[o].taddr}
    IN  IF there # {} THEN there ELSE Listed \ {o}

\* validate_jump_targets, one round of its second loop
ValidateJumpTargets ==
    /\ InPass("jump_targets")
    /\ IF todo = << >> THEN UNCHANGED <<snip, ins>> /\ PassEnds ELSE
       LET o == Head(todo) IN
       IF ins[o].kind = "indirect"
       THEN todo' = Tail(todo) /\ UNCHANGED <<snip, ins>> /\ PassGoesOn
       ELSE \/ /\ ins[o].taddr = ADDRESS_INVALID
               /\ UNCHANGED <<snip, ins>>
               /\ PassFails
            \/ /\ ins[o].taddr # ADDRESS_INVALID
               /\ \E t \in Found(o) : ins' = [ins EXCEPT ![o].target = t]
               /\ todo' = Tail(todo)
               /\ UNCHANGED snip
               /\ PassGoesOn
            \/ ins[o].taddr # ADDRESS_INVALID /\ Found(o) = {} /\ Abort

\* validate_rip_relative_mem, one round.  A displacement counts as wrong unless
\* it was computed for the address that the instruction has; imm keeps that.
\* An address is 0 (-25) for code at address 0 only, which nobody asks for.
ValidateRipRelative ==
    /\ InPass("rip_relative")
    /\ snip' = Encodable(snip, ins)
    /\ LET m     == Metadata(snip, ins)
           wrong == {o \in ToSet(snip') : m[o].kind \in {"rip", "far"} /\ m[o].imm # m[o].addr}
       IN  /\ ins' = [o \in Obj |->
                        IF o \notin wrong THEN m[o]
                        ELSE IF m[o].kind = "far" THEN [m[o] EXCEPT !.kind = "broken"]
                        ELSE [m[o] EXCEPT !.imm = m[o].addr]]
           /\ IF wrong = {} THEN PassEnds ELSE UNCHANGED todo /\ PassGoesOn

\* A validate_jump_offsets that measures from the start of the jump.
NewOffset_FromStart(f, o) == f[f[o].target].addr - f[o].addr

\* The immediate of the jump o.  The target is read even if it was freed.
NewOffset(f, o) == OffsetBetween(f[o], f[f[o].target])

\* A loop that goes on as long as there is a jump.
OffsetsChanged_AnyJump(list, f, g) == \E o \in ToSet(list) : g[o].kind \in Immediate

\* The flag of the loop
OffsetsChanged(list, f, g) == \E o \in ToSet(list) : f[o].imm # g[o].imm

\* validate_jump_offsets, one round: metadata, then every immediate jump up to
\* the first without a target.
ValidateJumpOffsets ==
    /\ InPass("jump_offsets")
    /\ snip' = Encodable(snip, ins)
    /\ LET m       == Metadata(snip, ins)
           jumps   == Those(snip', {o \in Obj : m[o].kind \in Immediate})
           unknown == {k \in DOMAIN jumps : m[jumps[k]].target = Null}
           reached == IF unknown = {} THEN Range(jumps)
                      ELSE {jumps[k] : k \in 1..(Min(unknown) - 1)}
       IN  /\ ins' = [o \in Obj |-> IF o \in reached THEN [m[o] EXCEPT !.imm = NewOffset(m, o)]
                                                     ELSE m[o]]
           /\ IF unknown # {} THEN PassFails
              ELSE IF OffsetsChanged(snip', m, ins') THEN UNCHANGED todo /\ PassGoesOn
              ELSE PassEnds

-----------------------------------------------------------------------------
\* An instruction as create_instruction and create_random_instruction leave it.
New(kind, taddr) ==
    [Blank EXCEPT !.kind = kind, !.addr = Base, !.taddr = taddr,
                  !.imm = IF kind = "loose" THEN taddr - Base ELSE 0]

Requests(kinds) ==
    [kind : kinds \cap Immediate, taddr : Targets] \cup
    [kind : kinds \ Immediate, taddr : {ADDRESS_INVALID}]

\* What snippet_decode reads from the code: addresses from the order, targets
\* only as addresses
AsDecoded(list, code) ==
    LET At(o)  == CHOOSE k \in DOMAIN list : list[k] = o
        raw    == [o \in Obj |-> IF o \in ToSet(list)
                                THEN [Blank EXCEPT !.kind = code[At(o)].kind, !.taddr = code[At(o)].taddr]
                                ELSE Blank]
        placed == Placed(list, raw)
    IN  [o \in Obj |-> IF raw[o].kind \in Immediate
                      THEN [placed[o] EXCEPT !.imm = placed[o].taddr - (placed[o].addr + Length(placed[o]))]
                      ELSE placed[o]]

Init ==
    /\ \E n \in 0..Cardinality(Obj) :
       \E list \in {s \in [1..n -> Obj] : IsInjective(s)}, code \in [1..n -> Requests(Decoded)] :
          /\ snip = list
          /\ ins = AsDecoded(list, code)
          /\ \A o \in ToSet(list) : Encodes(ins[o])
    /\ passes = << >> /\ fresh = FALSE /\ todo = << >>
    /\ run = "none" /\ valid = FALSE /\ state = "idle" /\ rc = 0
    /\ edits = 0

Changed ==
    /\ state = "idle"
    /\ edits < MaxEdits
    /\ edits' = edits + 1
    /\ run' = "none" /\ valid' = FALSE
    /\ UNCHANGED <<passes, fresh, todo, state, rc>>

\* A new instruction, or with MUT_REPEAT the copy of one in the list
ClientInsert ==
    /\ Changed
    /\ \E o \in Obj \ Listed, k \in 1..(Len(snip) + 1),
          i \in {New(r.kind, r.taddr) : r \in Requests(Created)} \cup {ins[t] : t \in Listed} :
          /\ snip' = InsertAt(snip, k, o)
          /\ ins' = [ins EXCEPT ![o] = i]

ClientRemove ==
    /\ Changed
    /\ \E k \in DOMAIN snip :
          /\ snip' = RemoveAt(snip, k)
          /\ ins' = [ins EXCEPT ![snip[k]] = Freed(@)]

ClientSwap ==
    /\ Changed
    /\ \E j, k \in DOMAIN snip :
          /\ j < k
          /\ snip' = [snip EXCEPT ![j] = snip[k], ![k] = snip[j]]
          /\ UNCHANGED ins

\* pipeline_validate, pipeline_encode or pipeline_decode is called.
Start(p) ==
    /\ state = "idle"
    /\ state' = "running"
    /\ passes' = Pipelines[p]
    /\ run' = p
    /\ valid' = (valid /\ p = "encode")
    /\ UNCHANGED <<snip, ins, fresh, todo, rc, edits>>

Step ==
    \/ ValidateMetadata
    \/ ValidateInstructions
    \/ ValidateOperands
    \/ ValidateJumpOperands
    \/ ValidateJumpTargets
    \/ ValidateRipRelative
    \/ ValidateJumpOffsets

Next ==
    \/ ClientInsert
    \/ ClientRemove
    \/ ClientSwap
    \/ \E p \in DOMAIN Pipelines : Start(p)
    \/ Step

Spec == Init /\ [][Next]_vars

\* A call that runs goes on: nothing in the library waits for anything.
FairSpec == Spec /\ WF_vars(Step)

-----------------------------------------------------------------------------
(***************************************************************************)
(* Lands: after a pipeline_validate that returned 0, and after a           *)
(* pipeline_encode that followed it, the instructions lie one behind the   *)
(* other from the code address, all encode, every jump is immediate, and   *)
(* it leads to its target if that is in the snippet.                       *)
(***************************************************************************)
LandsIn(list) ==
    /\ \A k \in DOMAIN list : ins[list[k]].addr = AddressAt(list, ins, k) /\ Encodes(ins[list[k]])
    /\ \A o \in ToSet(list) : ins[o].kind \in Jumps =>
          /\ ins[o].kind \in Immediate
          /\ ins[o].target \in Listed =>
                ins[o].addr + Length(ins[o]) + ins[o].imm = ins[ins[o].target].addr

Lands == state = "idle" /\ valid => LandsIn(snip)

(***************************************************************************)
(* TargetsLive: when pipeline_validate reads the target of a jump in       *)
(* validate_jump_offsets, and when it has returned, the target is in the   *)
(* snippet: no pass in between has removed it and given its memory back.   *)
(* (Not so with memory out of reach, where validate_rip_relative_mem, the  *)
(* pass after those that choose targets, removes instructions.)            *)
(***************************************************************************)
TargetsLive ==
    (run = "validate" /\ InPass("jump_offsets")) \/ (state = "idle" /\ valid) =>
        \A o \in Listed : ins[o].kind \in Immediate => ins[o].target \in Listed

(***************************************************************************)
(* ValidateSucceeds: pipeline_validate does not fail half way, whatever    *)
(* the clients did before: no jump reaches validate_jump_targets without   *)
(* an address (-66) or validate_jump_offsets without a target (-56).       *)
(***************************************************************************)
ValidateSucceeds == state = "idle" /\ run = "validate" => rc = 0

(***************************************************************************)
(* OnlyLoneJumpAborts: the assertions of rand_exclude fail only when a     *)
(* jump is the one instruction that is left.                               *)
(***************************************************************************)
OnlyLoneJumpAborts ==
    state = "aborted" => Len(snip) = 1 /\ ins[snip[1]].kind \in Jumps

(***************************************************************************)
(* EncodeKeepsValid: pipeline_encode of a snippet that is valid changes    *)
(* nothing, so what was validated is what snippet_encode writes.           *)
(***************************************************************************)
EncodeKeepsValid ==
    [][valid /\ state = "running" => UNCHANGED <<snip, ins>>]_vars

(***************************************************************************)
(* PipelineEnds: every pipeline returns or aborts.  Its loops run until    *)
(* nothing changes, while the changes they make move other instructions.   *)
(***************************************************************************)
PipelineEnds == state = "running" ~> state # "running"

(***************************************************************************)
(* NoAbort: the assertions of rand_exclude (common.h:133, assert(min <     *)
(* max)) hold whenever a pass picks a target.                              *)
(***************************************************************************)
NoAbort == state # "aborted"

(***************************************************************************)
(* ShortJumpsStay: "Rewrite short jumps" (pipeline.c:531) leaves a jump    *)
(* behind: pipeline_validate removes no short jump that encodes.           *)
(***************************************************************************)
ShortJumpsStay ==
    [][run = "validate" /\ state = "running" =>
          \A o \in Listed : ins[o].kind \in {"short", "misfit"} => o \in ToSet(snip')]_vars
=============================================================================
