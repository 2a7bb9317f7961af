-------------------------- MODULE GeneratorProofs --------------------------
(***************************************************************************)
(* What the generator does with the definitions of an instruction, for     *)
(* every table of definitions, and the draws it makes, for words of any    *)
(* size.                                                                   *)
(***************************************************************************)
EXTENDS Generator, RandRange, SequenceTheorems, TLAPS

-----------------------------------------------------------------------------
\* What an attempt has of its definition, strong enough to be inductive
Attempted ==
    /\ form \in Variations[mnemonic]
    /\ todo \in Seq(DOMAIN form.ops)
    /\ ops \in [DOMAIN form.ops -> [size : {0} \cup Sizes, reg : {"none", "low", "high", "new"}]]
    /\ todo = << >> <=> pc = "encode"

Typed ==
    /\ mnemonic \in 1..(Len(Variations) + 1)
    /\ attempt \in 0..Iterations /\ successes \in 0..attempt /\ count \in 0..(mnemonic - 1)
    /\ eosz \in {0} \cup Sizes
    /\ rex_state \in {"unknown", "required", "forbidden"}
    /\ pc \in {"next", "operands", "encode", "done"}
    /\ pc \in {"operands", "encode"} => mnemonic <= Len(Variations) /\ successes < attempt /\ Attempted

General == {1, 2, 4, 8}

\* A mnemonic that has a definition with an accumulator
HasAccumulator(m) == \E f \in Variations[m] : Accumulators(f) # {}

\* Also what is left of an attempt before is the size of a general register.
SettledGeneral ==
    mnemonic <= Len(Variations) /\ HasAccumulator(mnemonic) => eosz \in {0} \cup General

\* Beside an accumulator, the first operand that is generated settles a size.
FirstSettles ==
    pc \in {"operands", "encode"} /\ Accumulators(form) # {} =>
        /\ eosz # 0 \/ todo = Order(form)
        /\ Len(form.ops) # 1

\* An operand that is not generated yet has size 0.
ImmediatesFit ==
    pc \in {"operands", "encode"} =>
        \A i \in OfKind(form, "imm") :
            ops[i].size <= eosz \/ ops[i].size = form.ops[i].sizes[1]

Inv == Typed /\ SettledGeneral /\ FirstSettles /\ ImmediatesFit

-----------------------------------------------------------------------------
\* The parts of a definition
LEMMA DefinitionParts ==
    ASSUME NEW m \in 1..Len(Variations), NEW f \in Variations[m]
    PROVE  /\ f \in Definitions /\ f.ops \in Seq(Operands)
           /\ DOMAIN f.ops = 1..Len(f.ops) /\ Len(f.ops) \in Nat
           /\ \A k \in DOMAIN f.ops : f.ops[k] \in Operands /\ WellSized(f.ops[k])
<1>1. DOMAIN Variations = 1..Len(Variations) /\ Variations[m] \in SUBSET Definitions
  BY GeneratorAssumption
<1>2. f \in Definitions
  BY <1>1
<1>3. f.ops \in Seq(Operands)
  BY <1>2 DEF Definitions
<1>4. /\ DOMAIN f.ops = 1..Len(f.ops) /\ Len(f.ops) \in Nat
      /\ \A k \in DOMAIN f.ops : f.ops[k] \in Operands
  BY <1>3
<1> QED
  BY <1>1, <1>2, <1>3, <1>4, GeneratorAssumption

\* The sizes of an operand
LEMMA SizesParts ==
    ASSUME NEW d \in Operands
    PROVE  /\ d.kind \in OperandKinds
           /\ d.sizes \in Seq(Sizes) /\ Len(d.sizes) \in 0..3
           /\ DOMAIN d.sizes = 1..Len(d.sizes)
           /\ \A k \in DOMAIN d.sizes : d.sizes[k] \in Sizes /\ d.sizes[k] \in ToSet(d.sizes)
           /\ ToSet(d.sizes) \subseteq Sizes
<1>1. d.kind \in OperandKinds /\ d.sizes \in BoundedSeq(Sizes, 3)
  BY DEF Operands
<1>2. PICK n \in 0..3 : d.sizes \in [1..n -> Sizes]
  BY <1>1 DEF BoundedSeq, SeqOf
<1>3. d.sizes \in Seq(Sizes) /\ Len(d.sizes) = n /\ DOMAIN d.sizes = 1..n
  BY <1>2
<1>4. \A k \in DOMAIN d.sizes : d.sizes[k] \in Sizes /\ d.sizes[k] \in ToSet(d.sizes)
  BY <1>2 DEF ToSet
<1>5. ToSet(d.sizes) \subseteq Sizes
  BY <1>4 DEF ToSet
<1> QED
  BY <1>1, <1>3, <1>4, <1>5

LEMMA WithoutSubset == ASSUME NEW s, NEW value PROVE Without(s, value) \subseteq ToSet(s)
BY DEF Without, ToSet

\* A register has one of the sizes of its classes.
LEMMA RegisterSizesOf ==
    ASSUME NEW d \in Operands, d.sizes # << >>
    PROVE  RegisterSizes(d) \subseteq ToSet(d.sizes)
<1>1. ToSet(Tail(d.sizes)) \subseteq ToSet(d.sizes)
  <2>1. Tail(d.sizes) \in Seq(Sizes) /\ \A k \in 1..Len(Tail(d.sizes)) : Tail(d.sizes)[k] = d.sizes[k + 1]
    BY SizesParts
  <2>2. Len(Tail(d.sizes)) = Len(d.sizes) - 1 /\ Len(d.sizes) \in Nat
    BY SizesParts
  <2>3. ASSUME NEW k \in DOMAIN Tail(d.sizes) PROVE Tail(d.sizes)[k] \in ToSet(d.sizes)
    <3>1. k \in 1..Len(Tail(d.sizes))
      BY <2>1
    <3>2. k + 1 \in DOMAIN d.sizes
      BY <3>1, <2>2, SizesParts
    <3> QED
      BY <3>1, <3>2, <2>1, SizesParts
  <2> QED
    BY <2>3 DEF ToSet
<1> QED
  BY <1>1, WithoutSubset DEF RegisterSizes

\* Memory has one of the sizes of its definition, or none when that has none.
LEMMA MemorySizesOf ==
    ASSUME NEW d \in Operands, WellSized(d), d.kind \in {"mem", "moffs", "agen", "vsib"}
    PROVE  MemorySizes(d) \subseteq IF d.sizes = << >> THEN {0} ELSE ToSet(d.sizes)
<1>1. CASE d.sizes = << >>
  BY <1>1 DEF MemorySizes
<1>2. CASE d.sizes # << >> /\ eosz \in {2, 4, 8}
  <2>1. Len(d.sizes) = 3
    BY <1>2, SizesParts DEF WellSized
  <2> DEFINE k == CHOOSE j \in 1..3 : <<2, 4, 8>>[j] = eosz
  <2>2. \E j \in 1..3 : <<2, 4, 8>>[j] = eosz
    <3>1. <<2, 4, 8>>[1] = 2 /\ <<2, 4, 8>>[2] = 4 /\ <<2, 4, 8>>[3] = 8
      OBVIOUS
    <3> QED
      BY <3>1, <1>2
  <2>3. k \in 1..3
    BY <2>2
  <2>4. d.sizes[k] \in ToSet(d.sizes)
    <3> HIDE DEF k
    <3> QED BY <2>1, <2>3, SizesParts
  <2>5. MemorySizes(d) = {d.sizes[k]}
    BY <1>2 DEF MemorySizes
  <2> QED
    BY <1>2, <2>4, <2>5
<1>3. CASE d.sizes # << >> /\ eosz \notin {2, 4, 8}
  BY <1>3, WithoutSubset DEF MemorySizes
<1> QED
  BY <1>1, <1>2, <1>3

\* A set of indexes of two elements at most has a smallest one.
LEMMA SmallMin ==
    ASSUME NEW S \in SUBSET {2, 3}, S # {}
    PROVE  Min(S) \in S /\ \A k \in S : Min(S) <= k
<1>1. \E x \in S : \A y \in S : x =< y
  <2>1. CASE 2 \in S
    <3>1. \A y \in S : 2 =< y
      OBVIOUS
    <3> QED
      BY <2>1, <3>1
  <2>2. CASE 2 \notin S
    <3>1. S = {3}
      BY <2>2
    <3> QED
      BY <3>1
  <2> QED
    BY <2>1, <2>2
<1> QED
  BY <1>1 DEF Min

\* An immediate has a size of its encoding that is not above the operand size,
\* or the first one.
LEMMA ImmediateSizesOf ==
    ASSUME NEW d \in Operands, d.sizes # << >>, eosz \in {0} \cup Sizes,
           NEW size \in ImmediateSizes(d)
    PROVE  /\ size \in ToSet(d.sizes)
           /\ size = d.sizes[1] \/ (eosz # 0 /\ size <= eosz)
<1> DEFINE above == {k \in DOMAIN d.sizes : eosz # 0 /\ d.sizes[k] > eosz}
<1>1. Len(d.sizes) \in 1..3 /\ DOMAIN d.sizes = 1..Len(d.sizes)
  BY SizesParts
<1>2. CASE above \subseteq {1}
  <2>1. size = d.sizes[1]
    BY <1>2 DEF ImmediateSizes
  <2> QED
    BY <2>1, <1>1, SizesParts
<1>3. CASE ~(above \subseteq {1})
  <2>1. above \ {1} \in SUBSET {2, 3} /\ above \ {1} # {}
    BY <1>1, <1>3
  <2> DEFINE first == Min(above \ {1})
  <2>2. first \in above \ {1} /\ \A k \in above \ {1} : first <= k
    BY <2>1, SmallMin
  <2>3. size \in {d.sizes[k] : k \in 1..(first - 1)}
    BY <1>3 DEF ImmediateSizes
  <2>4. PICK k \in 1..(first - 1) : size = d.sizes[k]
    BY <2>3
  <2> HIDE DEF first
  <2>5. first \in 2..Len(d.sizes)
    BY <2>1, <2>2, <1>1
  <2>6. k \in DOMAIN d.sizes /\ k \notin above \ {1}
    BY <2>2, <2>4, <2>5, <1>1
  <2>7. eosz # 0
    BY <2>2
  <2>8. k = 1 \/ d.sizes[k] <= eosz
    BY <2>6, <2>7, SizesParts DEF Sizes
  <2> QED
    BY <2>4, <2>6, <2>7, <2>8, SizesParts
<1> QED
  BY <1>2, <1>3

\* The order of generation goes through every operand once.
LEMMA OrderOf ==
    ASSUME NEW m \in 1..Len(Variations), NEW f \in Variations[m]
    PROVE  /\ Order(f) \in Seq(DOMAIN f.ops) /\ Len(Order(f)) = Len(f.ops)
           /\ Len(f.ops) > 1 /\ (\A j, k \in Accumulators(f) : j = k) =>
                  Order(f)[1] \notin Accumulators(f)
<1>1. DOMAIN f.ops = 1..Len(f.ops) /\ Len(f.ops) \in Nat
  BY DefinitionParts
<1>2. CASE Len(f.ops) > 1 /\ f.ops[1].kind = "osz"
  <2>1. Order(f) = [k \in 1..Len(f.ops) |-> IF k = 1 THEN 2 ELSE IF k = 2 THEN 1 ELSE k]
    BY <1>1, <1>2 DEF Order
  <2>2. Order(f) \in Seq(DOMAIN f.ops) /\ Len(Order(f)) = Len(f.ops) /\ Order(f)[1] = 2
    BY <1>1, <1>2, <2>1
  <2>3. 1 \in Accumulators(f)
    BY <1>1, <1>2 DEF Accumulators, OfKind
  <2> QED
    BY <2>2, <2>3
<1>3. CASE ~(Len(f.ops) > 1 /\ f.ops[1].kind = "osz")
  <2>1. Order(f) = [k \in 1..Len(f.ops) |-> k]
    BY <1>1, <1>3 DEF Order
  <2>2. Order(f) \in Seq(DOMAIN f.ops) /\ Len(Order(f)) = Len(f.ops)
    BY <1>1, <2>1
  <2>3. Len(f.ops) > 1 => Order(f)[1] = 1 /\ 1 \notin Accumulators(f)
    BY <1>1, <1>3, <2>1 DEF Accumulators, OfKind
  <2> QED
    BY <2>2, <2>3
<1> QED
  BY <1>2, <1>3

-----------------------------------------------------------------------------
\* What is true where an operand is about to be generated
LEMMA OperandParts ==
    ASSUME Inv, pc = "operands"
    PROVE  /\ mnemonic \in 1..Len(Variations) /\ form \in Variations[mnemonic]
           /\ Head(todo) \in DOMAIN form.ops
           /\ form.ops[Head(todo)] \in Operands /\ WellSized(form.ops[Head(todo)])
           /\ todo # << >> /\ todo \in Seq(DOMAIN form.ops)
           /\ Tail(todo) \in Seq(DOMAIN form.ops) /\ Len(todo) \in Nat
           /\ Tail(todo) = << >> <=> Len(todo) = 1
<1>1. mnemonic \in 1..Len(Variations) /\ form \in Variations[mnemonic]
  BY GeneratorAssumption DEF Inv, Typed, Attempted
<1>2. todo # << >> /\ todo \in Seq(DOMAIN form.ops)
  BY DEF Inv, Typed, Attempted
<1>3. /\ Head(todo) \in DOMAIN form.ops
      /\ Tail(todo) \in Seq(DOMAIN form.ops) /\ Len(Tail(todo)) = Len(todo) - 1
      /\ Len(todo) \in Nat
  BY <1>2, HeadTailProperties
<1>4. Tail(todo) = << >> <=> Len(Tail(todo)) = 0
  BY <1>3, EmptySeq
<1>5. Tail(todo) = << >> <=> Len(todo) = 1
  BY <1>3, <1>4
<1> QED
  BY <1>1, <1>2, <1>3, <1>5, DefinitionParts

\* The operands of a definition with an accumulator all have sizes of general
\* registers, and so have those of the other definitions of the mnemonic.
LEMMA BesideAccumulator ==
    ASSUME NEW m \in 1..Len(Variations), HasAccumulator(m), NEW f \in Variations[m],
           NEW k \in DOMAIN f.ops
    PROVE  /\ \A i, j \in Accumulators(f) : i = j
           /\ f.ops[k].kind \in {"reg", "fixed", "osz", "mem", "moffs", "imm"}
           /\ f.ops[k].sizes # << >> /\ ToSet(f.ops[k].sizes) \subseteq General
<1>1. m \in DOMAIN Variations
  BY GeneratorAssumption
<1> QED
  BY <1>1, AccumulatorAssumption DEF HasAccumulator, General

\* Where an accumulator is generated there is a size for it.
LEMMA AccumulatorFindsSize ==
    ASSUME Inv, Operand({"osz"})
    PROVE  eosz \in General
<1>1. pc = "operands" /\ form.ops[Head(todo)].kind = "osz"
  BY DEF Operand
<1>2. Head(todo) \in Accumulators(form)
  BY <1>1, OperandParts DEF Accumulators, OfKind
<1>3. HasAccumulator(mnemonic)
  BY <1>1, <1>2, OperandParts DEF HasAccumulator
<1>4. eosz # 0
  <2>1. SUFFICES ASSUME todo = Order(form) PROVE FALSE
    BY <1>1, <1>2 DEF Inv, FirstSettles
  <2>2. Len(form.ops) > 1
    <3>1. Len(form.ops) # 1
      BY <1>1, <1>2 DEF Inv, FirstSettles
    <3>2. Len(form.ops) \in Nat /\ Head(todo) \in 1..Len(form.ops)
      BY <1>1, OperandParts, DefinitionParts
    <3>3. \A n \in Nat : \A h \in 1..n : n # 1 => n > 1
      OBVIOUS
    <3> QED
      BY <3>1, <3>2, <3>3, Zenon
  <2>3. Order(form)[1] \notin Accumulators(form)
    BY <2>2, <1>1, <1>3, OperandParts, OrderOf, BesideAccumulator
  <2>4. Head(todo) = Order(form)[1]
    BY <2>1, <1>1, OperandParts
  <2> QED
    BY <2>3, <2>4, <1>2
<1> QED
  BY <1>1, <1>3, <1>4, OperandParts DEF Inv, SettledGeneral

\* The size that is settled when one of a definition's sizes is generated
LEMMA KnownSize ==
    ASSUME Inv, pc = "operands",
           NEW size, size \in ToSet(form.ops[Head(todo)].sizes)
    PROVE  /\ size \in Sizes /\ Known(size) \in {0} \cup Sizes /\ Known(size) # 0
           /\ eosz <= Known(size)
           /\ HasAccumulator(mnemonic) => Known(size) \in General
<1>1. size \in Sizes
  BY OperandParts, SizesParts
<1>2. eosz \in {0} \cup Sizes
  BY DEF Inv, Typed
<1>3. Known(size) \in {0} \cup Sizes /\ Known(size) # 0 /\ eosz <= Known(size)
  BY <1>1, <1>2 DEF Known, Sizes
<1>4. ASSUME HasAccumulator(mnemonic) PROVE Known(size) \in General
  <2>1. size \in General
    BY <1>4, OperandParts, BesideAccumulator
  <2>2. eosz \in {0} \cup General
    BY <1>4, OperandParts DEF Inv, SettledGeneral
  <2> QED
    BY <2>1, <2>2 DEF Known
<1> QED
  BY <1>1, <1>3, <1>4

\* An operand is generated in one of its sizes: what has to hold of the size
\* that is settled after it.
LEMMA GeneratedInv ==
    ASSUME Inv, pc = "operands",
           NEW size \in {0} \cup Sizes, NEW reg \in {"none", "low", "high", "new"},
           Generated(Head(todo), size, reg),
           eosz' \in {0} \cup Sizes, rex_state' \in {"unknown", "required", "forbidden"},
           eosz <= eosz' \/ OfKind(form, "imm") = {},
           HasAccumulator(mnemonic) => eosz' \in General,
           Head(todo) \in OfKind(form, "imm") =>
               size <= eosz' \/ size = form.ops[Head(todo)].sizes[1]
    PROVE  Inv'
<1> DEFINE i == Head(todo)
<1>1. UNCHANGED <<mnemonic, attempt, successes, count, form>>
  BY DEF Generated, index
<1>2. ops' = [ops EXCEPT ![i] = [size |-> size, reg |-> reg]] /\ todo' = Tail(todo)
      /\ pc' = IF Len(todo) = 1 THEN "encode" ELSE "operands"
  BY DEF Generated
<1>3. Attempted
  BY DEF Inv, Typed
<1>4. Attempted'
  <2>1. ops' \in [DOMAIN form.ops -> [size : {0} \cup Sizes, reg : {"none", "low", "high", "new"}]]
    BY <1>2, <1>3, OperandParts DEF Attempted
  <2>2. todo' \in Seq(DOMAIN form.ops) /\ (todo' = << >> <=> pc' = "encode")
    BY <1>2, OperandParts
  <2> QED
    BY <1>1, <1>3, <2>1, <2>2 DEF Attempted
<1>5. Typed'
  <2>1. mnemonic <= Len(Variations)
    BY DEF Inv, Typed
  <2>2. pc' \in {"operands", "encode"}
    BY <1>2
  <2> QED
    BY <1>1, <1>4, <2>1, <2>2 DEF Inv, Typed
<1>6. SettledGeneral'
  BY <1>1 DEF SettledGeneral, HasAccumulator, General
<1>7. FirstSettles'
  <2>1. SUFFICES ASSUME Accumulators(form) # {} PROVE eosz' # 0 /\ Len(form.ops) # 1
    BY <1>1 DEF FirstSettles, Accumulators, OfKind
  <2>2. HasAccumulator(mnemonic)
    BY <2>1, OperandParts DEF HasAccumulator
  <2> QED
    BY <2>1, <2>2 DEF Inv, FirstSettles, General
<1>8. ImmediatesFit'
  <2>1. SUFFICES ASSUME NEW j \in OfKind(form, "imm")
                 PROVE  ops'[j].size <= eosz' \/ ops'[j].size = form.ops[j].sizes[1]
    BY <1>1 DEF ImmediatesFit, OfKind
  <2>2. j \in DOMAIN ops /\ DOMAIN ops = DOMAIN form.ops
    BY <1>3 DEF OfKind, Attempted
  <2>3. CASE j = i
    <3>1. ops'[j] = [size |-> size, reg |-> reg]
      BY <1>2, <2>2, <2>3
    <3> QED
      BY <2>1, <2>3, <3>1
  <2>4. CASE j # i
    <3>1. ops'[j] = ops[j]
      BY <1>2, <2>2, <2>4
    <3>2. ops[j].size <= eosz \/ ops[j].size = form.ops[j].sizes[1]
      BY <2>1 DEF Inv, ImmediatesFit
    <3>3. ops[j].size \in {0} \cup Sizes /\ eosz \in {0} \cup Sizes
      BY <1>3, <2>2 DEF Attempted, Inv, Typed
    <3>4. eosz <= eosz'
      BY <2>1
    <3> QED
      BY <3>1, <3>2, <3>3, <3>4 DEF Sizes
  <2> QED
    BY <2>3, <2>4
<1> QED
  BY <1>5, <1>6, <1>7, <1>8 DEF Inv

-----------------------------------------------------------------------------
LEMMA RegisterInv == ASSUME Inv, GenerateRegister PROVE Inv'
<1> DEFINE i == Head(todo)
           d == form.ops[i]
<1>1. pc = "operands" /\ d.kind = "reg"
  BY DEF GenerateRegister, Operand
<1>0. PICK size \in RegisterSizes(d) : \E reg \in Registers(size) :
         /\ eosz' = Known(size)
         /\ rex_state' = IF rex_state # "unknown" THEN rex_state
                         ELSE RexRequirement(reg, size, FALSE)
         /\ Generated(i, size, reg)
  BY DEF GenerateRegister
<1>2. PICK reg \in Registers(size) :
         /\ eosz' = Known(size)
         /\ rex_state' = IF rex_state # "unknown" THEN rex_state
                         ELSE RexRequirement(reg, size, FALSE)
         /\ Generated(i, size, reg)
  BY <1>0
<1>3. d \in Operands /\ d.sizes # << >>
  BY <1>1, OperandParts DEF WellSized
<1>4. size \in ToSet(d.sizes)
  BY <1>3, RegisterSizesOf
<1>5. reg \in {"none", "low", "high", "new"}
  BY <1>2 DEF Registers
<1>6. rex_state' \in {"unknown", "required", "forbidden"}
  BY <1>2 DEF RexRequirement, Inv, Typed
<1>7. i \notin OfKind(form, "imm")
  BY <1>1 DEF OfKind
<1> QED
  BY <1>1, <1>2, <1>4, <1>5, <1>6, <1>7, KnownSize, GeneratedInv

LEMMA FixedRegisterInv == ASSUME Inv, GenerateFixedRegister PROVE Inv'
<1> DEFINE i == Head(todo)
           d == form.ops[i]
           size == d.sizes[1]
<1>1. /\ pc = "operands" /\ d.kind = "fixed"
      /\ eosz' = Known(size) /\ Generated(i, size, "low") /\ UNCHANGED rex_state
  BY DEF GenerateFixedRegister, Operand
<1>2. d \in Operands /\ d.sizes # << >>
  BY <1>1, OperandParts DEF WellSized
<1>3. size \in ToSet(d.sizes)
  BY <1>2, SizesParts
<1>4. rex_state' \in {"unknown", "required", "forbidden"}
  BY <1>1 DEF Inv, Typed
<1>5. i \notin OfKind(form, "imm")
  BY <1>1 DEF OfKind
<1> HIDE DEF size
<1> QED
  BY <1>1, <1>3, <1>4, <1>5, KnownSize, GeneratedInv

\* create_instruction gives up, and nothing but the place changes.
LEMMA FailsInv == ASSUME Inv, Fails PROVE Inv'
<1>1. pc' = "next" /\ UNCHANGED <<mnemonic, attempt, successes, count, form, todo, ops, eosz, rex_state>>
  BY DEF Fails, index
<1>2. Typed'
  BY <1>1 DEF Inv, Typed
<1>3. SettledGeneral'
  BY <1>1 DEF Inv, SettledGeneral, HasAccumulator
<1> QED
  BY <1>1, <1>2, <1>3 DEF Inv, FirstSettles, ImmediatesFit

LEMMA AccumulatorInv == ASSUME Inv, GenerateAccumulator PROVE Inv'
<1>1. pc = "operands" /\ form.ops[Head(todo)].kind = "osz" /\ eosz \in General
  BY AccumulatorFindsSize DEF GenerateAccumulator, Operand
<1>2. Generated(Head(todo), eosz, "low") /\ UNCHANGED <<eosz, rex_state>>
  BY <1>1 DEF GenerateAccumulator, General
<1>3. /\ eosz \in {0} \cup Sizes /\ eosz' \in {0} \cup Sizes /\ eosz <= eosz' /\ eosz' \in General
      /\ rex_state' \in {"unknown", "required", "forbidden"}
  BY <1>1, <1>2 DEF Inv, Typed, General, Sizes
<1>4. Head(todo) \notin OfKind(form, "imm")
  BY <1>1 DEF OfKind
<1> QED
  BY <1>1, <1>2, <1>3, <1>4, GeneratedInv

LEMMA AddressRegisterInv == ASSUME Inv, GenerateAddressRegister PROVE Inv'
<1>1. pc = "operands" /\ form.ops[Head(todo)].kind = "asz"
  BY DEF GenerateAddressRegister, Operand
<1>2. CASE Known(8) \notin {1, 2, 4, 8}
  BY <1>2, FailsInv DEF GenerateAddressRegister
<1>3. CASE Known(8) \in {1, 2, 4, 8}
  <2>1. eosz' = Known(8) /\ Generated(Head(todo), eosz', "low") /\ UNCHANGED rex_state
    BY <1>3 DEF GenerateAddressRegister
  <2>2. eosz \in {0} \cup Sizes /\ rex_state' \in {"unknown", "required", "forbidden"}
    BY <2>1 DEF Inv, Typed
  <2>3. eosz' \in {0} \cup Sizes /\ eosz <= eosz' /\ eosz' \in General
    BY <1>3, <2>1, <2>2 DEF Known, Sizes, General
  <2>4. Head(todo) \notin OfKind(form, "imm")
    BY <1>1 DEF OfKind
  <2> QED
    BY <1>1, <2>1, <2>2, <2>3, <2>4, GeneratedInv
<1> QED
  BY <1>2, <1>3

LEMMA MemoryInv == ASSUME Inv, GenerateMemory PROVE Inv'
<1> DEFINE i == Head(todo)
           d == form.ops[i]
<1>1. pc = "operands" /\ d.kind \in {"mem", "moffs", "agen"}
  BY DEF GenerateMemory, Operand
<1>2. PICK size \in MemorySizes(d), reg \in IF d.kind = "moffs" THEN {"none"} ELSE IndexRegisters :
         /\ eosz' = Known(size)
         /\ rex_state' = IF reg = "none" THEN rex_state ELSE RexRequirement(reg, size, TRUE)
         /\ Generated(i, IF d.kind = "agen" THEN 8 ELSE size, reg)
  BY DEF GenerateMemory
<1> DEFINE given == IF d.kind = "agen" THEN 8 ELSE size
<1>3. d \in Operands /\ WellSized(d) /\ i \in DOMAIN form.ops
  BY <1>1, OperandParts
<1>4. reg \in {"none", "low", "high", "new"}
  BY <1>2 DEF IndexRegisters
<1>5. rex_state' \in {"unknown", "required", "forbidden"}
  BY <1>2 DEF RexRequirement, Inv, Typed
<1>6. i \notin OfKind(form, "imm")
  BY <1>1 DEF OfKind
<1>7. CASE d.sizes = << >>
  <2>1. size = 0
    BY <1>1, <1>2, <1>3, <1>7, MemorySizesOf
  <2>2. eosz' = eosz /\ eosz \in {0} \cup Sizes
    BY <1>2, <2>1 DEF Known, Inv, Typed
  <2>3. ~HasAccumulator(mnemonic)
    BY <1>1, <1>3, <1>7, OperandParts, BesideAccumulator
  <2>4. given \in {0} \cup Sizes /\ eosz <= eosz' /\ eosz' \in {0} \cup Sizes
    BY <2>1, <2>2 DEF Sizes
  <2>5. Generated(i, given, reg)
    BY <1>2
  <2> HIDE DEF given
  <2> QED
    BY <1>1, <1>4, <1>5, <1>6, <2>3, <2>4, <2>5, GeneratedInv
<1>8. CASE d.sizes # << >>
  <2>1. size \in ToSet(d.sizes)
    BY <1>1, <1>2, <1>3, <1>8, MemorySizesOf
  <2>2. /\ size \in Sizes /\ eosz' \in {0} \cup Sizes /\ eosz <= eosz'
        /\ HasAccumulator(mnemonic) => eosz' \in General
    BY <1>1, <1>2, <2>1, KnownSize
  <2>3. given \in {0} \cup Sizes
    BY <2>2 DEF Sizes
  <2>4. Generated(i, given, reg)
    BY <1>2
  <2> HIDE DEF given
  <2> QED
    BY <1>1, <1>4, <1>5, <1>6, <2>2, <2>3, <2>4, GeneratedInv
<1> QED
  BY <1>7, <1>8

LEMMA VsibInv == ASSUME Inv, GenerateVsib PROVE Inv'
<1> DEFINE d == form.ops[Head(todo)]
<1>1. /\ pc = "operands" /\ d.kind = "vsib" /\ pc' = "next"
      /\ UNCHANGED <<mnemonic, attempt, successes, count, form, todo, ops, rex_state>>
  BY DEF GenerateVsib, Operand, index
<1>2. PICK size \in MemorySizes(d) : eosz' = Known(size)
  BY DEF GenerateVsib
<1>3. d \in Operands /\ WellSized(d) /\ Head(todo) \in DOMAIN form.ops
  BY <1>1, OperandParts
<1>4. size \in {0} \cup Sizes
  BY <1>1, <1>2, <1>3, MemorySizesOf, SizesParts
<1>5. eosz' \in {0} \cup Sizes
  BY <1>2, <1>4 DEF Known, Inv, Typed
<1>6. ~HasAccumulator(mnemonic)
  BY <1>1, <1>3, OperandParts, BesideAccumulator
<1>7. Typed'
  BY <1>1, <1>5 DEF Inv, Typed
<1>8. SettledGeneral'
  BY <1>1, <1>6 DEF SettledGeneral, HasAccumulator
<1> QED
  BY <1>1, <1>7, <1>8 DEF Inv, FirstSettles, ImmediatesFit

LEMMA ImmediateInv == ASSUME Inv, GenerateImmediate PROVE Inv'
<1> DEFINE i == Head(todo)
           d == form.ops[i]
<1>1. pc = "operands" /\ d.kind \in {"imm", "imm1", "rel"} /\ UNCHANGED rex_state
  BY DEF GenerateImmediate, Operand
<1>2. PICK size \in IF d.kind = "imm1" THEN {1} ELSE ImmediateSizes(d) :
         /\ eosz' = IF d.kind = "rel" THEN size ELSE Known(size)
         /\ Generated(i, size, "none")
  BY DEF GenerateImmediate
<1>3. d \in Operands /\ WellSized(d) /\ i \in DOMAIN form.ops /\ eosz \in {0} \cup Sizes
  BY <1>1, OperandParts DEF Inv, Typed
<1>4. rex_state' \in {"unknown", "required", "forbidden"}
  BY <1>1 DEF Inv, Typed
<1>5. CASE d.kind = "imm1"
  <2>1. size = 1 /\ eosz' = Known(size)
    BY <1>2, <1>5
  <2>2. size \in {0} \cup Sizes /\ eosz' \in {0} \cup Sizes /\ eosz <= eosz'
    BY <1>3, <2>1 DEF Known, Sizes
  <2>3. ~HasAccumulator(mnemonic)
    BY <1>1, <1>3, <1>5, OperandParts, BesideAccumulator
  <2>4. i \notin OfKind(form, "imm")
    BY <1>5 DEF OfKind
  <2> QED
    BY <1>1, <1>2, <1>4, <2>2, <2>3, <2>4, GeneratedInv
<1>6. CASE d.kind = "rel"
  <2>1. size \in ToSet(d.sizes) /\ eosz' = size
    BY <1>2, <1>3, <1>6, ImmediateSizesOf DEF WellSized
  <2>2. size \in {0} \cup Sizes
    BY <1>3, <2>1, SizesParts
  <2>3. ~HasAccumulator(mnemonic)
    BY <1>1, <1>3, <1>6, OperandParts, BesideAccumulator
  <2>4. OfKind(form, "imm") = {}
    <3>1. i \in OfKind(form, "rel")
      BY <1>3, <1>6 DEF OfKind
    <3>2. mnemonic \in DOMAIN Variations
      BY <1>1, OperandParts, GeneratorAssumption
    <3> QED
      BY <1>1, <3>1, <3>2, OperandParts, JumpAssumption
  <2> QED
    BY <1>1, <1>2, <1>4, <2>1, <2>2, <2>3, <2>4, GeneratedInv
<1>7. CASE d.kind = "imm"
  <2>1. /\ size \in ToSet(d.sizes) /\ eosz' = Known(size)
        /\ size = d.sizes[1] \/ (eosz # 0 /\ size <= eosz)
    BY <1>2, <1>3, <1>7, ImmediateSizesOf DEF WellSized
  <2>2. /\ size \in Sizes /\ eosz' \in {0} \cup Sizes /\ eosz <= eosz'
        /\ HasAccumulator(mnemonic) => eosz' \in General
    BY <1>1, <2>1, KnownSize
  <2>3. size = d.sizes[1] \/ size <= eosz'
    BY <1>3, <2>1, <2>2 DEF Known, Sizes
  <2> QED
    BY <1>1, <1>2, <1>4, <2>2, <2>3, GeneratedInv
<1> QED
  BY <1>1, <1>5, <1>6, <1>7

-----------------------------------------------------------------------------
LEMMA AttemptInv == ASSUME Inv, Attempt PROVE Inv'
<1>1. /\ pc = "next" /\ mnemonic <= Len(Variations) /\ attempt < Iterations
      /\ attempt' = attempt + 1
      /\ UNCHANGED <<mnemonic, successes, count, rex_state>>
  BY DEF Attempt
<1>2. PICK f \in Variations[mnemonic] :
         /\ form' = f
         /\ ops' = [k \in DOMAIN f.ops |-> Unset]
         /\ todo' = Order(f)
         /\ eosz' = BranchSize(f)
         /\ pc' = IF Len(f.ops) = 1 /\ f.ops[1].kind = "osz" THEN "next"
                  ELSE IF f.ops = << >> THEN "encode" ELSE "operands"
  BY DEF Attempt
<1>3. mnemonic \in 1..Len(Variations)
  BY <1>1, GeneratorAssumption DEF Inv, Typed
<1>4. eosz' \in {eosz, 8} /\ eosz \in {0} \cup Sizes /\ eosz' \in {0} \cup Sizes
  BY <1>2 DEF BranchSize, Inv, Typed, Sizes
<1>5. ASSUME pc' \in {"operands", "encode"} PROVE Attempted'
  <2>1. ops' \in [DOMAIN f.ops -> [size : {0} \cup Sizes, reg : {"none", "low", "high", "new"}]]
    BY <1>2 DEF Unset
  <2>2. Order(f) \in Seq(DOMAIN f.ops) /\ Len(Order(f)) = Len(f.ops) /\ f.ops \in Seq(Operands)
    BY <1>3, OrderOf, DefinitionParts
  <2>3. Order(f) = << >> <=> f.ops = << >>
    BY <2>2
  <2>4. Order(f) = << >> <=> pc' = "encode"
    BY <1>2, <1>5, <2>3
  <2> QED
    BY <1>1, <1>2, <2>1, <2>2, <2>4 DEF Attempted
<1>6. Typed'
  <2>1. attempt' \in 0..Iterations /\ successes' \in 0..attempt'
    BY <1>1, GeneratorAssumption DEF Inv, Typed
  <2>2. pc' \in {"next", "operands", "encode", "done"}
    BY <1>2
  <2> QED
    BY <1>1, <1>4, <1>5, <2>1, <2>2 DEF Inv, Typed
<1>7. SettledGeneral'
  BY <1>1, <1>4 DEF Inv, SettledGeneral, HasAccumulator, General
<1>8. FirstSettles'
  <2>1. SUFFICES ASSUME pc' \in {"operands", "encode"}, Accumulators(f) # {} PROVE Len(f.ops) # 1
    BY <1>2 DEF FirstSettles
  <2>2. SUFFICES ASSUME Len(f.ops) = 1 PROVE FALSE
    OBVIOUS
  <2>3. 1 \in Accumulators(f)
    BY <1>3, <2>1, <2>2, DefinitionParts DEF Accumulators, OfKind
  <2> QED
    BY <1>2, <2>1, <2>2, <2>3 DEF Accumulators, OfKind
<1>9. ImmediatesFit'
  <2>1. SUFFICES ASSUME NEW i \in OfKind(f, "imm") PROVE ops'[i].size <= eosz'
    BY <1>2 DEF ImmediatesFit
  <2>2. ops'[i].size = 0
    BY <1>2 DEF Unset, OfKind
  <2> QED
    BY <1>4, <2>2 DEF Sizes
<1> QED
  BY <1>6, <1>7, <1>8, <1>9 DEF Inv

LEMMA EncodeInv == ASSUME Inv, Encode PROVE Inv'
<1>1. /\ pc = "encode" /\ pc' = "next" /\ successes' \in {successes, successes + 1}
      /\ UNCHANGED <<mnemonic, attempt, count, form, todo, ops, eosz, rex_state>>
  BY DEF Encode
<1>2. successes' \in 0..attempt'
  BY <1>1 DEF Inv, Typed
<1>3. Typed'
  BY <1>1, <1>2 DEF Inv, Typed
<1>4. SettledGeneral'
  BY <1>1 DEF Inv, SettledGeneral, HasAccumulator
<1> QED
  BY <1>1, <1>3, <1>4 DEF Inv, FirstSettles, ImmediatesFit

LEMMA NextMnemonicInv == ASSUME Inv, NextMnemonic PROVE Inv'
<1>1. /\ pc = "next" /\ mnemonic <= Len(Variations) /\ mnemonic' = mnemonic + 1
      /\ count' \in {count, count + 1} /\ attempt' = 0 /\ successes' = 0
      /\ eosz' = 0 /\ rex_state' = "unknown" /\ pc' = pc
  BY DEF NextMnemonic, Cleared
<1>2. Len(Variations) \in Nat
  BY GeneratorAssumption
<1>3. mnemonic' \in 1..(Len(Variations) + 1) /\ count' \in 0..(mnemonic' - 1)
  BY <1>1, <1>2 DEF Inv, Typed
<1>4. Typed'
  BY <1>1, <1>3, GeneratorAssumption DEF Typed
<1>5. SettledGeneral'
  BY <1>1 DEF SettledGeneral
<1> QED
  BY <1>1, <1>4, <1>5 DEF Inv, FirstSettles, ImmediatesFit

LEMMA ReturnInv == ASSUME Inv, Return PROVE Inv'
<1>1. pc' = "done" /\ UNCHANGED <<mnemonic, attempt, successes, count, form, todo, ops, eosz, rex_state>>
  BY DEF Return, index
<1>2. Typed'
  BY <1>1 DEF Inv, Typed
<1>3. SettledGeneral'
  BY <1>1 DEF Inv, SettledGeneral, HasAccumulator
<1> QED
  BY <1>1, <1>2, <1>3 DEF Inv, FirstSettles, ImmediatesFit

LEMMA StutterInv == ASSUME Inv, UNCHANGED vars PROVE Inv'
<1>1. UNCHANGED <<mnemonic, attempt, successes, count, form, todo, ops, eosz, rex_state, pc>>
  BY DEF vars
<1>2. Typed'
  BY <1>1 DEF Inv, Typed, Attempted
<1>3. SettledGeneral'
  BY <1>1 DEF Inv, SettledGeneral, HasAccumulator
<1>4. FirstSettles'
  BY <1>1 DEF Inv, FirstSettles, Accumulators, OfKind, Order
<1>5. ImmediatesFit'
  BY <1>1 DEF Inv, ImmediatesFit, OfKind
<1> QED
  BY <1>2, <1>3, <1>4, <1>5 DEF Inv

LEMMA InitInv == Init => Inv
<1> SUFFICES ASSUME Init PROVE Inv
  OBVIOUS
<1>1. Typed
  BY GeneratorAssumption DEF Init, Typed
<1> QED
  BY <1>1 DEF Init, Inv, SettledGeneral, FirstSettles, ImmediatesFit

LEMMA NextInv == Inv /\ [Next]_vars => Inv'
<1> SUFFICES ASSUME Inv, [Next]_vars PROVE Inv'
  OBVIOUS
<1>1. CASE Attempt
  BY <1>1, AttemptInv
<1>2. CASE GenerateOperand
  BY <1>2, RegisterInv, FixedRegisterInv, AccumulatorInv, AddressRegisterInv, MemoryInv,
     VsibInv, ImmediateInv DEF GenerateOperand
<1>3. CASE Encode
  BY <1>3, EncodeInv
<1>4. CASE NextMnemonic
  BY <1>4, NextMnemonicInv
<1>5. CASE Return
  BY <1>5, ReturnInv
<1>6. CASE UNCHANGED vars
  BY <1>6, StutterInv
<1> QED
  BY <1>1, <1>2, <1>3, <1>4, <1>5, <1>6 DEF Next

LEMMA Inductive == Spec => []Inv
<1> QED BY InitInv, NextInv, PTL DEF Spec

(***************************************************************************)
(* The counters of create_index stay in their bounds (no more successes    *)
(* than attempts, no more mnemonics counted than tried), and an attempt    *)
(* goes through the operands of one definition of its mnemonic.            *)
(***************************************************************************)
THEOREM GeneratorTypes == Spec => []TypeOK
<1>1. Inv => TypeOK
  <2> SUFFICES ASSUME Inv PROVE TypeOK
    OBVIOUS
  <2>1. ASSUME Attempted PROVE ToSet(todo) \subseteq DOMAIN form.ops
    BY <2>1 DEF Attempted, ToSet
  <2> QED
    BY <2>1 DEF Inv, Typed, Attempted, TypeOK
<1> QED BY <1>1, Inductive, PTL

(***************************************************************************)
(* The question in generate_register_operand, whether the accumulator is   *)
(* "always dependent on other operand", has the answer yes for every table *)
(* that is like that of Zydis in AccumulatorAssumption: in whatever place  *)
(* the accumulator stands, and whatever earlier attempts left behind, the  *)
(* size of a general register is settled when it is generated.  And no     *)
(* immediate is larger than the operand size the request ends up with.     *)
(***************************************************************************)
THEOREM OperandSizeIsFollowed == Spec => []FollowsOperandSize
<1>1. Inv => FollowsOperandSize
  <2> SUFFICES ASSUME Inv PROVE FollowsOperandSize
    OBVIOUS
  <2>1. Operand({"osz"}) => eosz \in {1, 2, 4, 8}
    BY AccumulatorFindsSize DEF General
  <2>2. ASSUME pc = "encode", NEW i \in DOMAIN ops, form.ops[i].kind = "imm"
        PROVE  ops[i].size <= eosz \/ ops[i].size = form.ops[i].sizes[1]
    BY <2>2 DEF Inv, Typed, Attempted, ImmediatesFit, OfKind
  <2> QED
    BY <2>1, <2>2 DEF FollowsOperandSize
<1> QED BY <1>1, Inductive, PTL

(***************************************************************************)
(* Under its assertions no sum or difference of rand_exclude leaves the    *)
(* range of a word, so the modulo operations do nothing and what is left   *)
(* is linear arithmetic.                                                   *)
(***************************************************************************)
Words == min \in UInt /\ max \in UInt /\ excl_min \in UInt /\ excl_max \in UInt

\* A value that fits a word is not changed by the reduction to a word.
LEMMA NoWrap == ASSUME NEW a \in UInt PROVE a % Word = a
BY WordAssumption, SMT DEF UInt

\* What the counts and the mapping are once nothing wraps around.
LEMMA CountsExact ==
    ASSUME Words, Asserted
    PROVE  /\ count_lo = excl_min - min
           /\ count_hi = max - excl_max
           /\ count_valid = (excl_min - min) + (max - excl_max)
           /\ count_valid \in UInt \ {0}
<1>1. excl_min - min \in UInt /\ max - excl_max \in UInt
  BY WordAssumption, SMT DEF Words, Asserted, UInt
<1>2. (excl_min - min) + (max - excl_max) \in UInt \ {0}
  BY WordAssumption, SMT DEF Words, Asserted, UInt
<1>3. count_lo = excl_min - min /\ count_hi = max - excl_max
  BY <1>1, NoWrap DEF count_lo, count_hi
<1> QED
  BY <1>2, <1>3, NoWrap DEF count_valid

LEMMA DrawnExact ==
    ASSUME Words, Asserted, NEW rand \in 0..(count_valid - 1)
    PROVE  Drawn(rand) = IF rand < excl_min - min THEN min + rand
                         ELSE excl_max + 1 + (rand - (excl_min - min))
<1>1. rand \in Int /\ 0 <= rand /\ rand < (excl_min - min) + (max - excl_max)
  BY CountsExact, WordAssumption, SMT DEF Words, UInt
<1>2. CASE rand < excl_min - min
  <2>1. min + rand \in UInt
    BY <1>1, <1>2, WordAssumption, SMT DEF Words, Asserted, UInt
  <2> QED
    BY <2>1, <1>2, CountsExact, NoWrap DEF Drawn
<1>3. CASE ~(rand < excl_min - min)
  <2>1. /\ excl_max + 1 \in UInt
        /\ (excl_max + 1) + (rand - (excl_min - min)) \in UInt
    BY <1>1, <1>3, WordAssumption, SMT DEF Words, Asserted, UInt
  <2> QED
    BY <2>1, <1>3, CountsExact, NoWrap DEF Drawn
<1> QED
  BY <1>2, <1>3

\* Every draw is admissible.
LEMMA DrawnAdmissible ==
    ASSUME Words, Asserted, NEW rand \in 0..(count_valid - 1)
    PROVE  Drawn(rand) \in Admissible \cap UInt
<1>1. rand \in Int /\ 0 <= rand /\ rand < (excl_min - min) + (max - excl_max)
  BY CountsExact, WordAssumption, SMT DEF Words, UInt
<1> QED
  BY <1>1, DrawnExact, WordAssumption, SMT DEF Words, Asserted, UInt, Admissible

\* The draw that yields an admissible value, and the only one
LEMMA DrawnBijective ==
    ASSUME Words, Asserted, NEW v \in Admissible
    PROVE  \E rand \in 0..(count_valid - 1) :
              /\ Drawn(rand) = v
              /\ \A other \in 0..(count_valid - 1) : Drawn(other) = v => other = rand
<1> DEFINE draw == IF v < excl_min THEN v - min ELSE (excl_min - min) + (v - excl_max - 1)
<1>1. draw \in 0..(count_valid - 1)
  BY CountsExact, WordAssumption, SMT DEF Words, Asserted, UInt, Admissible
<1>2. Drawn(draw) = v
  <2>1. Drawn(draw) = IF draw < excl_min - min THEN min + draw
                      ELSE excl_max + 1 + (draw - (excl_min - min))
    BY <1>1, DrawnExact
  <2> QED
    BY <2>1, WordAssumption, SMT DEF Words, Asserted, UInt, Admissible
<1>3. ASSUME NEW other \in 0..(count_valid - 1), Drawn(other) = v PROVE other = draw
  <2>1. v = IF other < excl_min - min THEN min + other
            ELSE excl_max + 1 + (other - (excl_min - min))
    BY <1>3, DrawnExact
  <2>2. other \in Int /\ 0 <= other
    BY CountsExact, WordAssumption, SMT DEF Words, UInt
  <2> QED
    BY <2>1, <2>2, WordAssumption, SMT DEF Words, Asserted, UInt, Admissible
<1> QED
  BY <1>1, <1>2, <1>3

-----------------------------------------------------------------------------
\* The assertions hold from Pass to Draw, and Draw leaves an admissible value.
DrawInv ==
    /\ DrawTypeOK
    /\ stage = "drawing" => Asserted
    /\ stage = "returned" => Asserted /\ result \in Admissible

LEMMA InitDrawInv == DrawInit => DrawInv
BY WordAssumption, SMT DEF DrawInit, DrawInv, DrawTypeOK, UInt

LEMMA NextDrawInv == DrawInv /\ [DrawNext]_drawVars => DrawInv'
<1> SUFFICES ASSUME DrawInv, [DrawNext]_drawVars PROVE DrawInv'
  OBVIOUS
<1>1. CASE Pass
  BY <1>1 DEF DrawInv, DrawTypeOK, Pass, Asserted, Admissible
<1>2. CASE Fail
  BY <1>2 DEF DrawInv, DrawTypeOK, Fail
<1>3. CASE Draw
  <2>1. PICK rand \in 0..(count_valid - 1) : result' = Drawn(rand)
    BY <1>3 DEF Draw
  <2>2. Words /\ Asserted
    BY <1>3 DEF DrawInv, DrawTypeOK, Words, Draw
  <2>3. result' \in Admissible \cap UInt
    BY <2>1, <2>2, DrawnAdmissible
  <2> QED
    BY <1>3, <2>2, <2>3 DEF DrawInv, DrawTypeOK, Draw, Asserted, Admissible
<1>4. CASE Call
  BY <1>4 DEF DrawInv, DrawTypeOK, Call
<1>5. CASE UNCHANGED drawVars
  BY <1>5 DEF DrawInv, DrawTypeOK, drawVars, Asserted, Admissible
<1> QED
  BY <1>1, <1>2, <1>3, <1>4, <1>5 DEF DrawNext

LEMMA DrawInductive == DrawSpec => []DrawInv
<1> QED BY InitDrawInv, NextDrawInv, PTL DEF DrawSpec

(***************************************************************************)
(* The arguments and the result of rand_exclude stay in the range of a     *)
(* uint64_t.                                                               *)
(***************************************************************************)
THEOREM DrawTypeCorrect == DrawSpec => []DrawTypeOK
<1>1. DrawInv => DrawTypeOK BY DEF DrawInv
<1> QED BY <1>1, DrawInductive, PTL

(***************************************************************************)
(* What rand_exclude returns is in the interval and outside the gap.       *)
(***************************************************************************)
THEOREM ReturnsAdmissible == DrawSpec => []DrawsAdmissible
<1>1. DrawInv => DrawsAdmissible BY DEF DrawInv, DrawsAdmissible
<1> QED BY <1>1, DrawInductive, PTL

(***************************************************************************)
(* The branch of rand_exclude for an empty choice is never reached.        *)
(***************************************************************************)
THEOREM ChoiceIsNeverEmpty == DrawSpec => []NeverEmpty
<1>1. DrawInv => NeverEmpty
  BY CountsExact DEF DrawInv, DrawTypeOK, Words, NeverEmpty
<1> QED BY <1>1, DrawInductive, PTL

(***************************************************************************)
(* Each admissible value has exactly one draw.                             *)
(***************************************************************************)
THEOREM DrawsAreBijective == DrawSpec => []EveryValueOnce
<1>1. DrawInv => EveryValueOnce
  BY DrawnBijective DEF DrawInv, DrawTypeOK, Words, EveryValueOnce
<1> QED BY <1>1, DrawInductive, PTL
=============================================================================
