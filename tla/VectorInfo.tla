----------------------------- MODULE VectorInfo -----------------------------
(***************************************************************************)
(* What a vector prefix says beyond registers and opcode: the length of    *)
(* the vectors, broadcasts, rounding, the mask, and the unit that an 8 bit *)
(* displacement counts in.  The operators take the definition d and the    *)
(* fields of the prefix; the tables of the source are given by what they   *)
(* tabulate, sizes of vectors and elements.                                *)
(***************************************************************************)
EXTENDS Integers

NoVectorInfo ==
    [length |-> 0, scale |-> 0, ratio |-> <<1, 1>>, static |-> FALSE, rounding |-> 0, sae |-> FALSE,
     maskMode |-> "INVALID", mask |-> 0, swizzle |-> 0, conversion |-> "INVALID", eviction |-> FALSE]

(* A broadcast of n elements to m. *)
NoBroadcast == <<1, 1>>

LengthOf(LL) == 128 * 2^LL

XopVexInformation(d, LL) ==
    [NoVectorInfo EXCEPT !.length = LengthOf(LL), !.ratio = d.broadcast, !.static = d.broadcast # NoBroadcast]

-----------------------------------------------------------------------------
(* EVEX *)

(* The parts of a vector that a tuple type reads from memory. *)
Part ==
    [FV |-> 1, FVM |-> 1, HV |-> 2, HVM |-> 2, QUARTER |-> 4, QVM |-> 4, OVM |-> 8]

Broadcasting == {"FV", "HV", "QUARTER"}

TupleBytes(d, b, W, length) ==
    CASE d.tuple = "INVALID" -> 0
      [] d.tuple \in Broadcasting /\ b = 1 -> d.elementSize \div 8
      [] d.tuple \in DOMAIN Part /\ (b = 0 \/ d.tuple \notin Broadcasting) -> length \div (8 * Part[d.tuple])
      [] d.tuple \in {"T1S", "T1F", "GSCAT"} -> d.elementSize \div 8
      [] d.tuple = "T2" -> 8 * 2^W
      [] d.tuple = "T4" -> 16 * 2^W
      [] d.tuple = "T8" -> 32
      [] d.tuple \in {"T1_4X", "M128"} -> 16
      [] d.tuple = "DUP" -> IF length = 128 THEN 8 ELSE length \div 8

EvexBroadcast(d, b, length) ==
    IF d.broadcast # NoBroadcast THEN d.broadcast
    ELSE IF d.tuple \in Broadcasting /\ b = 1
         THEN <<1, length \div (Part[d.tuple] * d.elementSize)>>
         ELSE NoBroadcast

EvexMaskMode(d, z, mask) ==
    CASE mask = 0 -> "DISABLED"
      [] mask # 0 /\ d.maskOverride = "DEFAULT" -> IF z = 1 THEN "ZEROING" ELSE "MERGING"
      [] mask # 0 /\ d.maskOverride = "ZEROING" -> "ZEROING"
      [] mask # 0 /\ d.maskOverride = "CONTROL" -> IF z = 1 THEN "CONTROL_ZEROING" ELSE "CONTROL"

EvexInformation(d, v, u) ==
    LET length == IF d.length # 0 THEN d.length ELSE LengthOf(u.LL) IN
    [NoVectorInfo EXCEPT
        !.length = length,
        !.scale = TupleBytes(d, v.b, u.W, length),
        !.ratio = EvexBroadcast(d, v.b, length),
        !.static = d.broadcast # NoBroadcast,
        !.rounding = IF v.b = 1 /\ d.functionality = "RC" THEN 1 + u.LL ELSE 0,
        !.sae = v.b = 1 /\ d.functionality \in {"RC", "SAE"},
        !.mask = u.mask,
        !.maskMode = EvexMaskMode(d, v.z, u.mask)]

-----------------------------------------------------------------------------
(* MVEX.  SSS selects a rounding, a swizzle, a broadcast or a conversion.  *)

Singles == {"SF_32", "SF_32_BCST", "SF_32_BCST_4TO16", "SI_32", "SI_32_BCST", "SI_32_BCST_4TO16"}
Doubles == {"SF_64", "SI_64"}
Whole == {"F_32", "I_32", "F_64", "I_64"}
Up64 == {"UF_64", "UI_64", "DF_64", "DI_64"}
Up32 == {"UF_32", "UI_32", "DF_32", "DI_32"}

Conversion(d, SSS) ==
    IF d.functionality \notin Singles \cup Up32 \/ SSS < 3 THEN "INVALID"
    ELSE <<"FLOAT16", "UINT8", "SINT8", "UINT16", "SINT16">>[SSS - 2]

MvexBroadcast(d, SSS) ==
    CASE d.functionality \in Singles /\ SSS \in {1, 2} -> IF SSS = 1 THEN <<1, 16>> ELSE <<4, 16>>
      [] d.functionality \in Doubles /\ SSS \in {1, 2} -> IF SSS = 1 THEN <<1, 8>> ELSE <<4, 8>>
      [] OTHER -> IF d.granular THEN NoBroadcast ELSE d.broadcast

(* The bytes of an element in memory, by the conversion that widens it. *)
ElementBytes(d, SSS) ==
    CASE d.functionality \in Doubles \cup Up64 -> 8
      [] d.functionality \notin Doubles \cup Up64 /\ Conversion(d, SSS) \in {"UINT8", "SINT8"} -> 1
      [] d.functionality \notin Doubles \cup Up64 /\ Conversion(d, SSS) \in {"FLOAT16", "UINT16", "SINT16"} -> 2
      [] OTHER -> 4

(* How many elements are read: a broadcast by SSS, one inside the instruction (both *)
(* at once is none), single elements, or the vector.                                *)
MvexScale(d, SSS) ==
    LET bytes  == ElementBytes(d, SSS)
        single == d.granular \/ (d.broadcast[1] = 1 /\ d.broadcast # NoBroadcast)
        four   == ~d.granular /\ d.broadcast[1] = 4
        loads  == d.functionality \in Singles \cup Doubles
    IN  CASE d.functionality \in Whole -> 64
          [] d.functionality \in {"IGNORED", "INVALID", "RC", "SAE", "SWIZZLE_32", "SWIZZLE_64"} -> 0
          [] loads /\ SSS \in {1, 2} -> IF single \/ four THEN 0 ELSE IF SSS = 1 THEN bytes ELSE 4 * bytes
          [] OTHER -> IF single THEN bytes ELSE IF four THEN 4 * bytes
                      ELSE bytes * (IF d.functionality \in Doubles \cup Up64 THEN 8 ELSE 16)

MvexInformation(d, v, u, mod) ==
    [NoVectorInfo EXCEPT
        !.length = 512,
        !.scale = MvexScale(d, v.SSS),
        !.ratio = MvexBroadcast(d, v.SSS),
        !.static = ~d.granular /\ d.broadcast # NoBroadcast,
        !.rounding = IF d.functionality = "RC" THEN 1 + (v.SSS % 4) ELSE 0,
        !.sae = d.functionality \in {"RC", "SAE"} /\ v.SSS >= 4,
        !.swizzle = IF d.functionality \in {"SWIZZLE_32", "SWIZZLE_64"} THEN 1 + v.SSS ELSE 0,
        !.conversion = Conversion(d, v.SSS),
        !.eviction = mod # 3 /\ v.E = 1,
        !.maskMode = "MERGING",
        !.mask = u.mask]

ZydisSetAVXInformation(encoding, d, v, u, mod) ==
    CASE encoding \in {"XOP", "VEX"} -> XopVexInformation(d, u.LL)
      [] encoding = "EVEX" -> EvexInformation(d, v, u)
      [] encoding = "MVEX" -> MvexInformation(d, v, u, mod)
      [] OTHER -> NoVectorInfo
=============================================================================
