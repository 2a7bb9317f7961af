---------------------------- MODULE EncoderMatch ----------------------------
(***************************************************************************)
(* ZydisFindMatchingDefinition: the form that the encoder of Zydis takes   *)
(* for a request, the first of the forms of the mnemonic whose trial ends  *)
(* well.  A request names the mnemonic, the prefixes, what it knows of     *)
(* sizes and of the kind of branch, and the operands; what EVEX and MVEX   *)
(* say beyond operands is in avx.                                          *)
(***************************************************************************)
EXTENDS EncoderOperands

CONSTANT EncoderTable       \* mnemonic -> its forms, as ZydisGetEncodableInstructions has them

ASSUME EncoderTableAssumption ==
    \A m \in DOMAIN EncoderTable : \A n \in DOMAIN EncoderTable[m] :
        IsEncodableInstruction(EncoderTable[m][n]) /\ IsDefinition(EncoderTable[m][n].def)

-----------------------------------------------------------------------------
(* Features of the vector encodings *)

NoFeatures ==
    [ratio |-> NoBroadcast, conversion |-> "INVALID", rounding |-> 0, swizzle |-> 0, sae |-> FALSE,
     zeroing |-> FALSE, eviction |-> FALSE]

(* Only the named features may be asked for. *)
AtMost(a, features) ==
    \A f \in {"ratio", "conversion", "rounding", "swizzle", "sae", "eviction"} \ features : a[f] = NoFeatures[f]

IsBroadcastModeCompatible(e, ratio) ==
    ratio # NoBroadcast =>
        ratio = <<1, e.length \div ((CASE e.def.tuple = "FV" -> 1 [] e.def.tuple = "HV" -> 2
                                       [] e.def.tuple = "QUARTER" -> 4) * e.def.elementSize)>>

AreEvexFeaturesCompatible(e, a) ==
    LET f == e.def.functionality IN
    /\ a.zeroing => e.def.zeroMask \/ e.def.maskOverride = "ZEROING"
    /\ CASE f = "INVALID" -> AtMost(a, {})
         [] f = "BC" -> AtMost(a, {"ratio"}) /\ IsBroadcastModeCompatible(e, a.ratio)
         [] f = "RC" -> AtMost(a, {"rounding", "sae"}) /\ (a.rounding # 0 <=> a.sae)
         [] f = "SAE" -> AtMost(a, {"sae"})

(* The broadcasts and the conversions that a load of MVEX may ask for. *)
SixteenWide == {<<1, 16>>, <<4, 16>>}
Ratios(f) ==
    CASE f \in {"SF_32", "SI_32", "SF_32_BCST", "SI_32_BCST"} -> SixteenWide
      [] f \in {"SF_32_BCST_4TO16", "SI_32_BCST_4TO16"} -> {<<4, 16>>}
      [] f \in Doubles -> {<<1, 8>>, <<4, 8>>}
      [] OTHER -> {}
Conversions(f) ==
    CASE f = "SF_32" -> {"FLOAT16", "UINT8", "UINT16", "SINT16"}
      [] f \in {"SI_32", "UI_32", "DI_32"} -> {"UINT8", "SINT8", "UINT16", "SINT16"}
      [] f \in {"UF_32", "DF_32"} -> {"FLOAT16", "UINT8", "SINT8", "UINT16", "SINT16"}
      [] OTHER -> {}

AreMvexFeaturesCompatible(e, a) ==
    LET f == e.def.functionality
        plain     == a.ratio = NoBroadcast
        converted == a.conversion # "INVALID"
    IN  /\ e.modrm >= 192 => ~a.eviction
        /\ CASE f = "RC" -> AtMost(a, {"rounding", "sae"})
             [] f = "SAE" -> AtMost(a, {"sae"})
             [] f \in {"SWIZZLE_32", "SWIZZLE_64"} -> AtMost(a, {"swizzle", "eviction"})
             [] OTHER -> /\ AtMost(a, {"ratio", "conversion", "eviction"})
                         /\ plain \/ a.ratio \in Ratios(f)
                         /\ converted => a.conversion \in Conversions(f)
                         /\ plain \/ ~converted

FeaturesCompatible(t) ==
    CASE t.e.encoding = "EVEX" -> AreEvexFeaturesCompatible(t.e, t.q.avx)
      [] t.e.encoding = "MVEX" -> AreMvexFeaturesCompatible(t.e, t.q.avx)
      [] OTHER -> TRUE

-----------------------------------------------------------------------------
(* Constraints between operands: registers that have to differ *)

Differ(s) == \A i, j \in DOMAIN s : i < j => s[i] # s[j]

CheckConstraints(t) ==
    LET u == t.q.ops
        d == t.e.def
    IN  CASE t.e.encoding = "VEX" ->
               /\ d.gather => Differ(<<u[1].reg.id, u[2].mem.index.id, u[3].reg.id>>)
               /\ d.noSourceSource => Differ(<<u[1].reg, u[2].reg, u[3].reg>>)
          [] t.e.encoding \in {"EVEX", "MVEX"} ->
               /\ d.noSourceDest => u[1].reg # u[3].reg /\ (u[4].type = "REGISTER" => u[1].reg # u[4].reg)
               /\ d.gather /\ u[1].type = "REGISTER" => u[1].reg.id # u[3].mem.index.id
          [] OTHER -> TRUE

-----------------------------------------------------------------------------
(* Prefixes *)

Segments == {"SEGMENT_CS", "SEGMENT_SS", "SEGMENT_DS", "SEGMENT_ES", "SEGMENT_FS", "SEGMENT_GS"}
BranchHints == {"BRANCH_TAKEN", "BRANCH_NOT_TAKEN"}

ArePrefixesCompatible(t) ==
    LET accepted == t.e.def.accepts
        others   == t.q.prefixes \ Segments
    IN  /\ t.q.prefixes \cap Segments # {} => "SEGMENT" \in accepted
        /\ t.e.encoding # "LEGACY" => others = {}
        /\ others \cap BranchHints # {} => "BRANCH_HINTS" \in accepted
        /\ others \ BranchHints \subseteq accepted
        /\ others \cap {"XACQUIRE", "XRELEASE"} # {} => "LOCK" \in others \/ "HLE_WITHOUT_LOCK" \in accepted

-----------------------------------------------------------------------------
(* One trial *)

OperandTypes(q) == [i \in DOMAIN q.ops |-> q.ops[i].type]
FormTypes(d) ==
    [i \in DOMAIN d.ops |-> CASE d.ops[i].type \in {"IMM", "REL", "IMPLICIT_IMM1"} -> "IMMEDIATE"
                              [] d.ops[i].type \in DOMAIN Admits \cup {"IMPLICIT_REG"} -> "REGISTER"
                              [] OTHER -> "MEMORY"]

IsOperandCompatible(t, i) ==
    LET u == t.q.ops[i]
        o == t.e.def.ops[i]
    IN  CASE u.type = "REGISTER" -> IsRegisterOperandCompatible(t, u, o)
          [] u.type = "MEMORY" -> IsMemoryOperandCompatible(t, u, o)
          [] u.type = "IMMEDIATE" -> IsImmediateOperandCompatible(t, u, o)

(* The operand size that a branch of a given width has. *)
BranchOsz(t) ==
    CASE t.e.def.branch = "NONE" \/ t.q.branchWidth \in {0, 8} -> 0
      [] t.e.def.branch # "NONE" /\ t.q.branchWidth = 32 -> IF t.rel /\ t.e.def.osz = Force64 THEN 64 ELSE 32
      [] t.e.def.branch # "NONE" /\ t.q.branchWidth \in {16, 64} -> t.q.branchWidth

BranchCompatible(t) ==
    LET osz == BranchOsz(t) IN
    [Require(t, t.e.def.branch # "NONE" =>
                   /\ t.q.branchWidth = 8 => t.rel /\ t.e.def.branch = "SHORT"
                   /\ t.q.branchWidth = 64 => ~t.rel
                   /\ t.eosz # 0 /\ osz # 0 => t.eosz = osz)
        EXCEPT !.eosz = IF @ = 0 THEN osz ELSE @]

IsDefinitionCompatible(t) ==
    Then(Then(FoldLeft(LAMBDA s, i : Then(s, LAMBDA r : IsOperandCompatible(r, i)),
                       Require(t, FeaturesCompatible(t)), [i \in DOMAIN t.q.ops |-> i]),
              BranchCompatible),
         LAMBDA s : Require(s, CheckConstraints(s)))

(* What the request says of the form before any operand is looked at. *)
Eligible(q, e) ==
    /\ OperandTypes(q) = FormTypes(e.def)
    /\ e.encoding = q.allowed
    /\ q.branchType \in {"NONE", e.def.branch}
    /\ e.def.branch = "NONE" => q.branchWidth = 0

X_SwapsTo(t) == t.ok /\ t.e.swappable /\ t.q.mnemonic # "mov" /\ t.q.ops[1].reg.id <= 7 /\ t.q.ops[Len(t.q.ops)].reg.id <= 7

(* A form may be followed by one with the roles of two registers swapped, which is *)
(* shorter if only the source has a number above 7.                                 *)
SwapsTo(t) ==
    LET source == t.q.ops[IF Len(t.q.ops) = 3 THEN 3 ELSE 2] IN
    /\ t.ok /\ t.e.swappable
    /\ t.q.ops[1].reg.id <= 7 /\ source.type = "REGISTER" /\ source.reg.id > 7

(* A move of 64 bits whose immediate is shorter is left to a shorter form. *)
LeftToShorter(t) ==
    t.e.swappable /\ t.q.mnemonic = "mov" /\ t.eosz = 64 /\ SignedImmSize(t.q.ops[2].imm) < 64

(* Sizes that no operand settled, and a last check on the others. *)
FinalAsz(t) ==
    IF t.easz = 0 THEN [t EXCEPT !.easz = IF 64 \in t.e.asz THEN 64 ELSE 32] ELSE Require(t, t.easz \in t.e.asz)

FinalOsz(t) ==
    LET map     == t.e.def.osz
        default == CASE map = Default64 -> IF 64 \in t.e.osz THEN 64 ELSE 16
                     [] map = Force64 -> 64
                     [] OTHER -> FirstOr(SelectSeq(<<32, 16>>, LAMBDA w : w \in t.e.osz), 64)
        eosz    == IF t.eosz = 0 THEN default ELSE t.eosz
    IN  [Require(t, /\ map = Default64 => eosz # 32
                    /\ map = Force64 => eosz = 64
                    /\ t.eosz # 0 \/ map \in {Default64, Force64} =>
                          /\ ~(t.no64 /\ eosz = 64)
                          /\ eosz \in t.e.osz)
            EXCEPT !.eosz = eosz]

(* What form e asks of the request, up to the sizes that no operand settles. *)
Opened(q, e) ==
    LET start  == Require(Trial(q, e), Eligible(q, e))
        hinted == Then(start, LAMBDA s : Require(s, /\ s.eosz = 8 => e.def.osz = ByteOp
                                                             /\ ArePrefixesCompatible(s)))
    IN  Then(Then(hinted, IsDefinitionCompatible), LAMBDA s : Require(s, ~LeftToShorter(s)))

Impossible == [ok |-> FALSE]

(* The trial of form k.  A form that the one before it was swapped for is not tried *)
(* again.                                                                           *)
Attempt(q, forms, k) ==
    LET Settled(s) == IF SwapsTo(s) THEN [s EXCEPT !.e = forms[k + 1]] ELSE s
    IN  IF k > 1 /\ forms[k - 1].swappable /\ SwapsTo(Opened(q, forms[k - 1])) THEN Impossible
        ELSE Then(Then(Then(Opened(q, forms[k]), Settled), FinalAsz), FinalOsz)

(* The first form that fits. *)
FirstFit(q, forms) == FirstOr(SelectSeq([k \in DOMAIN forms |-> Attempt(q, forms, k)], LAMBDA t : t.ok), Impossible)

FindMatchingDefinition(q) == FirstFit(q, EncoderTable[q.mnemonic])
=============================================================================
