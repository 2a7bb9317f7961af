------------------------------ MODULE Generator ------------------------------
(***************************************************************************)
(* create_index of generate.c, which tries create_instruction several      *)
(* times for every mnemonic, on one instruction.  create_instruction picks *)
(* a definition of the mnemonic, generate_instruction generates its        *)
(* operands one by one, and the encoder takes or refuses the request.      *)
(*                                                                         *)
(* The operands of a request have to agree in their sizes, and on whether  *)
(* there is a REX prefix.  What the ones before have settled is in the     *)
(* fields eosz and rex_state of the instruction.  create_index clears them *)
(* once for every mnemonic, generate_instruction does not.                 *)
(*                                                                         *)
(* Sizes are in bytes.  Of a register, and of the index register of a      *)
(* memory operand, the model has the group that decides about REX.         *)
(***************************************************************************)
EXTENDS Integers, SequencesExt, FiniteSetsExt

CONSTANTS
    Variations,  \* for every mnemonic the set of its definitions
    Iterations,  \* idx->iterations
    Threshold    \* idx->threshold, in percent

\* The operand definitions told apart, and what their sizes are
OperandKinds ==
    {"reg",    \* a register of one of the classes with these sizes
     "fixed",  \* IMPLREG_TYPE_STATIC
     "osz",    \* IMPLREG_TYPE_GPR_OSZ, the accumulator of the operand size
     "asz",    \* GPR_ASZ
     "mem",    \* memory: sizes for the operand sizes 2, 4 and 8
     "moffs",  \* the same, by displacement alone
     "agen",   \* an address, no access
     "vsib",   \* memory with a vector of indexes, which is refused
     "imm",    \* an immediate: the sizes of its encoding
     "imm1",   \* the constant 1
     "rel"}    \* a relative jump target: the sizes of its encoding

Sizes == {1, 2, 4, 6, 8, 10, 16}

Operands == [kind : OperandKinds, sizes : BoundedSeq(Sizes, 3)]
Branches == {"none", "short", "near", "far"}

Definitions == [branch : Branches, map4 : BOOLEAN, ops : Seq(Operands)]

\* An operand has the number of sizes that its generator reads.
WellSized(d) ==
    /\ d.kind \in {"reg", "fixed", "imm", "rel"} => d.sizes # << >>
    /\ d.kind \in {"mem", "moffs", "agen", "vsib"} => Len(d.sizes) \in {0, 3}

ASSUME GeneratorAssumption ==
    /\ Variations \in Seq(SUBSET Definitions) /\ Variations # << >>
    /\ \A m \in DOMAIN Variations : \A f \in Variations[m] :
          \A k \in DOMAIN f.ops : WellSized(f.ops[k])
    /\ Iterations \in Nat \ {0} /\ Threshold \in 0..100

OfKind(f, kind) == {k \in DOMAIN f.ops : f.ops[k].kind = kind}
Accumulators(f) == OfKind(f, "osz")

\* What the tables of Zydis have of the eleven mnemonics with an accumulator:
\* ADC, ADD, AND, CMP, MOV, OR, SBB, SUB, TEST, XCHG and XOR.  No definition
\* has two of them, and every operand beside has the size of a general register.
ASSUME AccumulatorAssumption ==
    \A m \in DOMAIN Variations :
       (\E f \in Variations[m] : Accumulators(f) # {}) =>
           \A f \in Variations[m] :
              /\ \A j, k \in Accumulators(f) : j = k
              /\ \A k \in DOMAIN f.ops :
                    /\ f.ops[k].kind \in {"reg", "fixed", "osz", "mem", "moffs", "imm"}
                    /\ f.ops[k].sizes # << >> /\ ToSet(f.ops[k].sizes) \subseteq {1, 2, 4, 8}

\* No instruction has a jump target and an immediate.
ASSUME JumpAssumption ==
    \A m \in DOMAIN Variations : \A f \in Variations[m] :
       OfKind(f, "rel") = {} \/ OfKind(f, "imm") = {}

VARIABLES
    mnemonic,   \* the mnemonic that is tried
    attempt,    \* how often
    successes,  \* how often with success
    count,      \* idx->count
    form,       \* the definition chosen for the attempt
    todo,       \* the operands that are still to be generated
    ops,        \* the operands of the request
    eosz,       \* effective operand size, 0 when unknown
    rex_state,  \* "unknown", "required" or "forbidden"
    pc          \* "next", "operands", "encode" or "done"

vars == <<mnemonic, attempt, successes, count, form, todo, ops, eosz, rex_state, pc>>
index == <<mnemonic, attempt, successes, count>>

\* Registers: "low" needs no REX prefix, "high" (AH, CH, DH) allows none,
\* "new" (SPL to DIL, R8 and above) needs one.
Unset == [size |-> 0, reg |-> "none"]

TypeOK ==
    /\ mnemonic \in 1..(Len(Variations) + 1)
    /\ attempt \in 0..Iterations /\ successes \in 0..attempt /\ count \in 0..(mnemonic - 1)
    /\ eosz \in {0} \cup Sizes
    /\ rex_state \in {"unknown", "required", "forbidden"}
    /\ pc \in {"next", "operands", "encode", "done"}
    /\ pc \in {"operands", "encode"} =>
          /\ form \in Variations[mnemonic]
          /\ ToSet(todo) \subseteq DOMAIN form.ops
          /\ ops \in [DOMAIN form.ops -> [size : {0} \cup Sizes, reg : {"none", "low", "high", "new"}]]
          /\ todo = << >> <=> pc = "encode"

-----------------------------------------------------------------------------
\* An order from the first operand to the last.
Order_InSequence(f) == [k \in DOMAIN f.ops |-> k]

\* An accumulator that comes first waits for the operand behind it.
Order(f) ==
    IF Len(f.ops) > 1 /\ f.ops[1].kind = "osz"
    THEN [k \in DOMAIN f.ops |-> IF k = 1 THEN 2 ELSE IF k = 2 THEN 1 ELSE k]
    ELSE [k \in DOMAIN f.ops |-> k]

\* "Set the eosz for branches early": near and far ones have size 8.
BranchSize(f) == IF f.branch \in {"near", "far"} THEN 8 ELSE eosz

Known(size) == IF eosz = 0 THEN size ELSE eosz

\* The elements of a sequence but those with index above 1 and this value: has_32
Without(s, value) ==
    LET has == {k \in DOMAIN s : k > 1 /\ s[k] = value}
    IN  {s[k] : k \in IF has = {} THEN DOMAIN s ELSE DOMAIN s \ {Max(has)}}

\* Register sizes that leave the operand size out of account.
RegisterSizes_Any(d) == ToSet(d.sizes)

\* The sizes that generate_register_operand may choose
RegisterSizes(d) ==
    IF eosz = 0 THEN IF form.map4 THEN Without(d.sizes, 4) ELSE ToSet(d.sizes)
    ELSE IF Len(d.sizes) = 1 THEN ToSet(d.sizes)
    ELSE IF eosz \in ToSet(d.sizes) THEN {eosz}
    ELSE IF d.sizes[1] = 2 /\ eosz > 2 THEN ToSet(Tail(d.sizes))
    ELSE ToSet(d.sizes)

\* The sizes that generate_memory_operand may choose.  It looks for 2 where
\* the size of 32 bits is 4.
MemorySizes(d) ==
    IF d.sizes = << >> THEN {0}
    ELSE IF eosz \in {2, 4, 8} THEN {d.sizes[CHOOSE k \in 1..3 : <<2, 4, 8>>[k] = eosz]}
    ELSE IF form.map4 THEN Without(d.sizes, 2)
    ELSE ToSet(d.sizes)

\* Immediates of every size of the encoding.
ImmediateSizes_All(d) == ToSet(d.sizes)

\* The sizes in front of the first one above the operand size, or the first
ImmediateSizes(d) ==
    LET above == {k \in DOMAIN d.sizes : eosz # 0 /\ d.sizes[k] > eosz}
    IN  IF above \subseteq {1} THEN {d.sizes[1]} ELSE {d.sizes[k] : k \in 1..(Min(above \ {1}) - 1)}

\* Registers that leave out of account what the other operands need.
Registers_Any(size) == IF size = 1 THEN {"low", "high", "new"} ELSE {"low", "new"}

\* The registers of a class: for a byte "the rex prefix, for small registers"
Registers(size) ==
    IF size # 1 THEN {"low", "new"}
    ELSE CASE rex_state = "required" -> {"low", "new"}
           [] rex_state = "forbidden" -> {"low", "high"}
           [] OTHER -> {"low", "high", "new"}

\* The index registers of a memory operand
IndexRegisters == IF rex_state = "forbidden" THEN {"low"} ELSE {"low", "new"}

\* rex_requirement
RexRequirement(reg, size, addressing) ==
    IF reg = "high" THEN "forbidden"
    ELSE IF reg = "new" \/ (size = 8 /\ ~addressing) THEN "required"
    ELSE "unknown"

-----------------------------------------------------------------------------
\* The operand i is generated, and the next one follows.
Generated(i, size, reg) ==
    /\ ops' = [ops EXCEPT ![i] = [size |-> size, reg |-> reg]]
    /\ todo' = Tail(todo)
    /\ pc' = IF Len(todo) = 1 THEN "encode" ELSE "operands"
    /\ UNCHANGED <<index, form>>

\* create_instruction returns an error.
Fails ==
    /\ pc' = "next"
    /\ UNCHANGED <<index, form, todo, ops, eosz, rex_state>>

Operand(kinds) == pc = "operands" /\ form.ops[Head(todo)].kind \in kinds

GenerateRegister ==
    /\ Operand({"reg"})
    /\ LET i == Head(todo)
           d == form.ops[i]
       IN  \E size \in RegisterSizes(d) : \E reg \in Registers(size) :
              /\ eosz' = Known(size)
              /\ rex_state' = IF rex_state # "unknown" THEN rex_state
                              ELSE RexRequirement(reg, size, FALSE)
              /\ Generated(i, size, reg)

GenerateFixedRegister ==
    /\ Operand({"fixed"})
    /\ LET i == Head(todo)
           size == form.ops[i].sizes[1]
       IN  eosz' = Known(size) /\ Generated(i, size, "low")
    /\ UNCHANGED rex_state

\* IMPLREG_TYPE_GPR_OSZ, "always dependent on other operand"
GenerateAccumulator ==
    /\ Operand({"osz"})
    /\ IF eosz \notin {1, 2, 4, 8} THEN Fails
       ELSE Generated(Head(todo), eosz, "low") /\ UNCHANGED <<eosz, rex_state>>

\* GPR_ASZ: the operand size if there is one, and else the address size
GenerateAddressRegister ==
    /\ Operand({"asz"})
    /\ IF Known(8) \notin {1, 2, 4, 8} THEN Fails
       ELSE /\ eosz' = Known(8)
            /\ Generated(Head(todo), eosz', "low")
            /\ UNCHANGED rex_state

GenerateMemory ==
    /\ Operand({"mem", "moffs", "agen"})
    /\ LET i == Head(todo)
           d == form.ops[i]
       IN  \E size \in MemorySizes(d) :
           \E reg \in IF d.kind = "moffs" THEN {"none"} ELSE IndexRegisters :
              /\ eosz' = Known(size)
              /\ rex_state' = IF reg = "none" THEN rex_state ELSE RexRequirement(reg, size, TRUE)
              /\ Generated(i, IF d.kind = "agen" THEN 8 ELSE size, reg)

GenerateImmediate ==
    /\ Operand({"imm", "imm1", "rel"})
    /\ LET i == Head(todo)
           d == form.ops[i]
       IN  \E size \in IF d.kind = "imm1" THEN {1} ELSE ImmediateSizes(d) :
              /\ eosz' = IF d.kind = "rel" THEN size ELSE Known(size)
              /\ Generated(i, size, "none")
    /\ UNCHANGED rex_state

\* The refusal comes after the operand size was settled.
GenerateVsib ==
    /\ Operand({"vsib"})
    /\ \E size \in MemorySizes(form.ops[Head(todo)]) : eosz' = Known(size)
    /\ pc' = "next"
    /\ UNCHANGED <<index, form, todo, ops, rex_state>>

-----------------------------------------------------------------------------
\* The operand i has the size that goes with the operand size s.
Fits(i, s) ==
    LET sizes == form.ops[i].sizes
    IN  CASE form.ops[i].kind \in {"reg", "mem", "moffs", "osz"} ->
                 \/ s \in ToSet(sizes) /\ ops[i].size = s
                 \/ s \notin ToSet(sizes) /\ ops[i].size = sizes[1]
          [] form.ops[i].kind = "asz" -> ops[i].size \in {4, 8}
          [] form.ops[i].kind = "imm" -> ops[i].size <= s \/ ops[i].size = 1
          [] OTHER -> TRUE

SizesFit == \E s \in Sizes : \A i \in DOMAIN ops : Fits(i, s)

NeedsRex(i) ==
    \/ ops[i].reg = "new"
    \/ form.ops[i].kind = "reg" /\ ops[i].size = 8 /\ form.branch = "none" /\ ~form.map4

RexFits == ~\E i, j \in DOMAIN ops : ops[i].reg = "high" /\ NeedsRex(j)

\* The request encodes.  In 64 bit mode there are no near jumps of 16 bits,
\* and no 32 bit operands in the instructions of operand size map 4.
Encodes ==
    /\ SizesFit
    /\ RexFits
    /\ form.branch = "near" => \A i \in DOMAIN ops : form.ops[i].kind = "rel" => ops[i].size # 2
    /\ form.map4 => \A i \in DOMAIN ops : form.ops[i].kind \in {"reg", "mem"} => ops[i].size # 4

-----------------------------------------------------------------------------
\* memset of the instruction in create_index
Cleared == eosz' = 0 /\ rex_state' = "unknown"

Init ==
    /\ mnemonic = 1 /\ attempt = 0 /\ successes = 0 /\ count = 0
    /\ form \in Variations[1] /\ todo = << >> /\ ops = << >>
    /\ eosz = 0 /\ rex_state = "unknown"
    /\ pc = "next"

\* create_instruction chooses a definition, and generate_instruction wipes the
\* request but not the sizes.  An accumulator alone has nothing to wait for.
Attempt ==
    /\ pc = "next" /\ mnemonic <= Len(Variations) /\ attempt < Iterations
    /\ attempt' = attempt + 1
    /\ \E f \in Variations[mnemonic] :
          /\ form' = f
          /\ ops' = [k \in DOMAIN f.ops |-> Unset]
          /\ todo' = Order(f)
          /\ eosz' = BranchSize(f)
          /\ pc' = IF Len(f.ops) = 1 /\ f.ops[1].kind = "osz" THEN "next"
                   ELSE IF f.ops = << >> THEN "encode" ELSE "operands"
    /\ UNCHANGED <<mnemonic, successes, count, rex_state>>

Encode ==
    /\ pc = "encode"
    /\ successes' = IF Encodes THEN successes + 1 ELSE successes
    /\ pc' = "next"
    /\ UNCHANGED <<mnemonic, attempt, count, form, todo, ops, eosz, rex_state>>

\* A create_index that does not begin to count anew.
NextMnemonic_CountsOn ==
    /\ pc = "next" /\ mnemonic <= Len(Variations) /\ attempt = Iterations
    /\ count' = IF 100 * successes < Threshold * Iterations THEN count ELSE count + 1
    /\ mnemonic' = mnemonic + 1
    /\ attempt' = 0
    /\ Cleared
    /\ UNCHANGED <<successes, form, todo, ops, pc>>

\* "We only want reliable instructions"
NextMnemonic ==
    /\ pc = "next" /\ mnemonic <= Len(Variations) /\ attempt = Iterations
    /\ count' = IF 100 * successes < Threshold * Iterations THEN count ELSE count + 1
    /\ mnemonic' = mnemonic + 1
    /\ attempt' = 0 /\ successes' = 0
    /\ Cleared
    /\ UNCHANGED <<form, todo, ops, pc>>

Return ==
    /\ pc = "next" /\ mnemonic > Len(Variations)
    /\ pc' = "done"
    /\ UNCHANGED <<index, form, todo, ops, eosz, rex_state>>

GenerateOperand ==
    \/ GenerateRegister
    \/ GenerateFixedRegister
    \/ GenerateAccumulator
    \/ GenerateAddressRegister
    \/ GenerateMemory
    \/ GenerateVsib
    \/ GenerateImmediate

Next == Attempt \/ GenerateOperand \/ Encode \/ NextMnemonic \/ Return

Spec == Init /\ [][Next]_vars

-----------------------------------------------------------------------------
(***************************************************************************)
(* FreshRequestFits: the operands of a request that was generated on a     *)
(* clear instruction agree in their sizes, whatever their order is, and    *)
(* never combine AH, CH or DH with an operand that needs a REX prefix.     *)
(* (Not so on an instruction that is used again: eosz is still that of the *)
(* attempt before.)                                                        *)
(***************************************************************************)
FreshRequestFits == pc = "encode" /\ attempt = 1 => SizesFit /\ RexFits

(***************************************************************************)
(* FollowsOperandSize: what follows the operand size finds one and keeps   *)
(* to it.  An accumulator may stand before or behind the operand that      *)
(* settles the size; create_instruction never fails for want of one.  Also *)
(* on an instruction that is used again, an immediate is no larger than    *)
(* the operand size it is generated for, unless its encoding has nothing   *)
(* smaller.                                                                *)
(***************************************************************************)
FollowsOperandSize ==
    /\ Operand({"osz"}) => eosz \in {1, 2, 4, 8}
    /\ pc = "encode" => \A i \in DOMAIN ops :
          form.ops[i].kind = "imm" => ops[i].size <= eosz \/ ops[i].size = form.ops[i].sizes[1]
=============================================================================
