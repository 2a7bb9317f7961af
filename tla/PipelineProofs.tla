--------------------------- MODULE PipelineProofs ---------------------------
(***************************************************************************)
(* Proofs about Pipeline and Mutator, for every set of blocks, every kind  *)
(* of instructions and every number of edits: what the passes leave behind *)
(* is what the next ones rely on.  The search of find_target comes last.   *)
(*                                                                         *)
(* The invariant Inv says of each stage of pipeline_validate what the      *)
(* jumps of the snippet have by then (Rewrites), of the walks that they    *)
(* visit jumps of the list (Visits), and of a snippet that is valid that   *)
(* every address and offset is the one that would be computed (InPlace).   *)
(***************************************************************************)
EXTENDS Mutator, JumpSearch, SequenceTheorems, FiniteSetTheorems, WellFoundedInduction, TLAPS

(***************************************************************************)
(* Lists that a walk leaves                                                *)
(***************************************************************************)

(* A set of numbers has a least one. *)
LEMMA Least ==
    ASSUME NEW T \in SUBSET Nat, T # {}
    PROVE  \E x \in T : \A y \in T : x <= y
  <1>1. PICK x \in T : \A y \in T : ~(<<y, x>> \in OpToRel(<, Nat))
    BY NatLessThanWellFounded, WFMin
  <1>2. \A y \in T : ~(y < x)
    BY <1>1 DEF OpToRel
  <1> QED  BY <1>2

(* The equation of KeptUpTo as a function of its own. *)
KeepStep(list, S, g, k) ==
    IF k = 0 THEN << >> ELSE IF list[k] \in S THEN Append(g[k - 1], list[k]) ELSE g[k - 1]

(* There is a function that fulfils the equation up to n. *)
LEMMA KeptUpToExists ==
    ASSUME NEW list, NEW S, NEW n \in Nat
    PROVE  \E g : g = [k \in 0..n |-> KeepStep(list, S, g, k)]
  <1> DEFINE Solved(m) == \E g : g = [k \in 0..m |-> KeepStep(list, S, g, k)]
             T == {m \in Nat : ~Solved(m)}
  <1> SUFFICES ASSUME T # {} PROVE FALSE
    OBVIOUS
  <1>1. PICK m \in T : \A y \in T : m <= y
    BY Least
  <1>2. CASE m = 0
    <2> DEFINE g == [k \in 0..0 |-> << >>]
    <2>1. g = [k \in 0..0 |-> KeepStep(list, S, g, k)]
      BY DEF KeepStep
    <2> QED  BY <1>2, <2>1
  <1>3. CASE m # 0
    <2>1. m - 1 \in Nat /\ m - 1 \notin T
      BY <1>1, <1>3
    <2>2. PICK g : g = [k \in 0..(m - 1) |-> KeepStep(list, S, g, k)]
      BY <2>1
    <2> DEFINE h == [k \in 0..m |-> IF k = m THEN KeepStep(list, S, g, m) ELSE g[k]]
    <2>3. \A k \in 0..m : h[k] = KeepStep(list, S, h, k)
      <3> TAKE k \in 0..m
      <3>1. k \in Nat /\ (k # 0 => k - 1 \in 0..(m - 1) /\ h[k - 1] = g[k - 1])
        BY <1>1
      <3>2. KeepStep(list, S, h, k) = KeepStep(list, S, g, k)
        BY <3>1 DEF KeepStep
      <3>3. CASE k = m
        BY <3>2, <3>3
      <3>4. CASE k # m
        <4>1. k \in 0..(m - 1)
          BY <3>4, <1>1
        <4>2. g[k] = KeepStep(list, S, g, k)
          BY <2>2, <4>1
        <4> QED  BY <3>2, <3>4, <4>2
      <3> QED  BY <3>3, <3>4
    <2>4. h = [k \in 0..m |-> KeepStep(list, S, h, k)]
      BY <2>3
    <2> QED  BY <2>4, <1>1
  <1> QED  BY <1>2, <1>3

LEMMA KeptUpToEquation ==
    ASSUME NEW list, NEW S, Len(list) \in Nat
    PROVE  \A k \in 0..Len(list) : KeptUpTo(list, S)[k] = KeepStep(list, S, KeptUpTo(list, S), k)
  <1> DEFINE F(g) == g = [k \in 0..Len(list) |-> KeepStep(list, S, g, k)]
  <1>1. \E g : F(g)
    BY KeptUpToExists
  <1>2. KeptUpTo(list, S) = CHOOSE g : F(g)
    BY DEF KeptUpTo, KeepStep
  <1>3. F(KeptUpTo(list, S))
    BY <1>1, <1>2
  <1> QED  BY <1>3

(* What s has to do with the first n elements of a list *)
KeptOf(X, list, S, s, n) ==
    /\ s \in Seq(X)
    /\ \A i \in 1..Len(s) : \E j \in 1..n : s[i] = list[j] /\ list[j] \in S
    /\ \A j \in 1..n : list[j] \in S => \E i \in 1..Len(s) : s[i] = list[j]
    /\ IsInjective(list) => \A i, j \in 1..Len(s) : s[i] = s[j] => i = j
    /\ (\A j \in 1..n : list[j] \in S) => Len(s) = n /\ \A i \in 1..n : s[i] = list[i]

LEMMA KeptOfNext ==
    ASSUME NEW X, NEW list \in Seq(X), NEW S, NEW s, NEW n \in 0..(Len(list) - 1), KeptOf(X, list, S, s, n)
    PROVE  KeptOf(X, list, S, IF list[n + 1] \in S THEN Append(s, list[n + 1]) ELSE s, n + 1)
  <1>1. n \in Nat /\ n + 1 \in 1..Len(list) /\ DOMAIN list = 1..Len(list) /\ list[n + 1] \in X
    BY LenProperties, ElementOfSeq
  <1>2. CASE list[n + 1] \notin S
    <2>1. \A j \in 1..(n + 1) : j \in 1..n \/ j = n + 1
      BY <1>1
    <2> QED  BY <1>1, <1>2, <2>1, SMTT(30) DEF KeptOf
  <1>3. CASE list[n + 1] \in S
    <2> DEFINE t == Append(s, list[n + 1])
    <2>1. s \in Seq(X) /\ Len(s) \in Nat
      BY LenProperties DEF KeptOf
    <2>2. /\ t \in Seq(X) /\ Len(t) = Len(s) + 1 /\ t[Len(s) + 1] = list[n + 1]
          /\ \A i \in 1..Len(s) : t[i] = s[i]
      BY <1>1, <2>1, AppendProperties
    <2>3. \A i \in 1..Len(t) : i \in 1..Len(s) \/ i = Len(s) + 1
      BY <2>1, <2>2
    <2>4. \A i \in 1..Len(t) : \E j \in 1..(n + 1) : t[i] = list[j] /\ list[j] \in S
      BY <1>1, <1>3, <2>2, <2>3 DEF KeptOf
    <2>5. \A j \in 1..(n + 1) : list[j] \in S => \E i \in 1..Len(t) : t[i] = list[j]
      <3> SUFFICES ASSUME NEW j \in 1..(n + 1), list[j] \in S PROVE \E i \in 1..Len(t) : t[i] = list[j]
        OBVIOUS
      <3>1. CASE j = n + 1
        BY <2>1, <2>2, <3>1
      <3>2. CASE j # n + 1
        <4>1. j \in 1..n
          BY <1>1, <3>2
        <4>2. PICK i \in 1..Len(s) : s[i] = list[j]
          BY <4>1 DEF KeptOf
        <4> QED  BY <2>1, <2>2, <4>2
      <3> QED  BY <3>1, <3>2
    <2>6. ASSUME IsInjective(list), NEW i \in 1..Len(t), NEW j \in 1..Len(t), t[i] = t[j] PROVE i = j
      <3>1. ASSUME NEW h \in 1..Len(s) PROVE s[h] # list[n + 1]
        <4>1. PICK k \in 1..n : s[h] = list[k]
          BY DEF KeptOf
        <4>2. k \in DOMAIN list /\ n + 1 \in DOMAIN list /\ k # n + 1
          BY <1>1
        <4> QED  BY <2>6, <4>1, <4>2 DEF IsInjective
      <3> QED  BY <2>2, <2>3, <2>6, <3>1 DEF KeptOf
    <2>7. ASSUME \A j \in 1..(n + 1) : list[j] \in S
          PROVE  Len(t) = n + 1 /\ \A i \in 1..(n + 1) : t[i] = list[i]
      <3>1. \A j \in 1..n : j \in 1..(n + 1)
        BY <1>1
      <3>2. Len(s) = n /\ \A i \in 1..n : s[i] = list[i]
        BY <2>7, <3>1 DEF KeptOf
      <3> QED  BY <1>1, <2>2, <2>3, <3>2
    <2>8. KeptOf(X, list, S, t, n + 1)
      BY <2>2, <2>4, <2>5, <2>6, <2>7 DEF KeptOf
    <2> QED  BY <1>3, <2>8
  <1> QED  BY <1>2, <1>3

(***************************************************************************)
(* Those(list, S) is a list of the elements of list that are in S, it has  *)
(* none twice if list has none twice, and it is list if all are in S.      *)
(***************************************************************************)
LEMMA ThoseFacts ==
    ASSUME NEW X, NEW list \in Seq(X), NEW S
    PROVE  /\ Those(list, S) \in Seq(X)
           /\ ToSet(Those(list, S)) = ToSet(list) \cap S
           /\ IsInjective(list) => IsInjective(Those(list, S))
           /\ ToSet(list) \subseteq S => Those(list, S) = list
  <1> DEFINE kept == KeptUpTo(list, S)
             T == {n \in 0..Len(list) : ~KeptOf(X, list, S, kept[n], n)}
  <1>1. Len(list) \in Nat /\ DOMAIN list = 1..Len(list)
    BY LenProperties
  <1>2. \A k \in 0..Len(list) : kept[k] = KeepStep(list, S, kept, k)
    BY <1>1, KeptUpToEquation
  <1> HIDE DEF kept
  <1>3. T = {}
    <2> SUFFICES ASSUME T # {} PROVE FALSE
      OBVIOUS
    <2>1. PICK n \in T : \A y \in T : n <= y
      <3>1. T \in SUBSET Nat
        BY <1>1
      <3> QED  BY <3>1, Least
    <2>2. CASE n = 0
      <3>1. kept[0] = << >>
        BY <1>1, <1>2 DEF KeepStep
      <3>2. KeptOf(X, list, S, << >>, 0)
        BY EmptySeq DEF KeptOf
      <3> QED  BY <2>1, <2>2, <3>1, <3>2
    <2>3. CASE n # 0
      <3>1. n - 1 \in 0..(Len(list) - 1) /\ n - 1 \notin T /\ n = (n - 1) + 1
        BY <1>1, <2>1, <2>3
      <3>2. KeptOf(X, list, S, kept[n - 1], n - 1)
        BY <1>1, <3>1
      <3>3. KeptOf(X, list, S, IF list[n] \in S THEN Append(kept[n - 1], list[n]) ELSE kept[n - 1], n)
        BY <3>1, <3>2, KeptOfNext
      <3>4. kept[n] = IF list[n] \in S THEN Append(kept[n - 1], list[n]) ELSE kept[n - 1]
        BY <1>2, <2>1, <2>3 DEF KeepStep
      <3> QED  BY <2>1, <3>3, <3>4
    <2> QED  BY <2>2, <2>3
  <1>4. KeptOf(X, list, S, Those(list, S), Len(list))
    BY <1>1, <1>3 DEF Those, kept
  <1> DEFINE s == Those(list, S)
  <1>5. s \in Seq(X) /\ DOMAIN s = 1..Len(s)
    BY <1>4, LenProperties DEF KeptOf
  <1>6. ToSet(s) = ToSet(list) \cap S
    <2>1. ASSUME NEW i \in DOMAIN s PROVE s[i] \in ToSet(list) \cap S
      <3>1. PICK j \in 1..Len(list) : s[i] = list[j] /\ list[j] \in S
        BY <1>4, <1>5, <2>1 DEF KeptOf
      <3> QED  BY <1>1, <3>1 DEF ToSet
    <2>2. ASSUME NEW j \in DOMAIN list, list[j] \in S PROVE list[j] \in ToSet(s)
      <3>1. PICK i \in 1..Len(s) : s[i] = list[j]
        BY <1>1, <1>4, <2>2 DEF KeptOf
      <3> QED  BY <1>5, <3>1 DEF ToSet
    <2> QED  BY <2>1, <2>2 DEF ToSet
  <1>7. IsInjective(list) => IsInjective(s)
    BY <1>4, <1>5 DEF KeptOf, IsInjective
  <1>8. ASSUME ToSet(list) \subseteq S PROVE s = list
    <2>1. Len(s) = Len(list) /\ \A i \in 1..Len(list) : s[i] = list[i]
      BY <1>1, <1>4, <1>8 DEF KeptOf, ToSet
    <2> QED  BY <1>5, <2>1, SeqEqual
  <1> QED  BY <1>5, <1>6, <1>7, <1>8

-----------------------------------------------------------------------------
(***************************************************************************)
(* Addresses and validate_metadata                                         *)
(***************************************************************************)

(* The kinds there are: those that are decoded or created, and what the passes *)
(* and the mutator make of them                                                *)
Available == Decoded \cup Created \cup {"plain", "near", "misfit", "broken"}

Instr == [kind : Available, target : Obj \cup {Null}, taddr : Nat, addr : Nat, imm : Int]

LEMMA AddressFacts ==
    ASSUME NEW list \in Seq(Obj), NEW f, NEW k \in 1..Len(list)
    PROVE  AddressAt(list, f, k) \in Nat \ {0}
  <1>1. IsFiniteSet(1..(k - 1)) /\ IsFiniteSet(1..2)
    <2>1. k - 1 \in Int /\ 1 \in Int /\ 2 \in Int
      BY LenProperties
    <2> QED  BY <2>1, FS_Interval
  <1>2. IsFiniteSet((1..(k - 1)) \X (1..2))
    BY <1>1, FS_Product
  <1>3. IsFiniteSet(BytesBefore(list, f, k))
    <2>1. BytesBefore(list, f, k) \in SUBSET ((1..(k - 1)) \X (1..2))
      BY DEF BytesBefore
    <2> QED  BY <1>2, <2>1, FS_Subset
  <1>4. Cardinality(BytesBefore(list, f, k)) \in Nat
    BY <1>3, FS_CardinalityType
  <1> QED  BY <1>4 DEF AddressAt, Base

(* Addresses depend on the lengths of the instructions alone. *)
LEMMA SameAddresses ==
    ASSUME NEW list \in Seq(Obj), NEW f, NEW g, \A o \in ToSet(list) : f[o].kind = g[o].kind
    PROVE  \A k \in DOMAIN list : AddressAt(list, f, k) = AddressAt(list, g, k)
  <1> TAKE k \in DOMAIN list
  <1>1. Len(list) \in Nat /\ DOMAIN list = 1..Len(list)
    BY LenProperties
  <1>2. ASSUME NEW b \in (1..(k - 1)) \X (1..2) PROVE Length(f[list[b[1]]]) = Length(g[list[b[1]]])
    <2>1. b[1] \in DOMAIN list
      BY <1>1
    <2>2. list[b[1]] \in ToSet(list)
      BY <2>1 DEF ToSet
    <2> QED  BY <2>2 DEF Length
  <1>3. BytesBefore(list, f, k) = BytesBefore(list, g, k)
    BY <1>2 DEF BytesBefore
  <1> QED  BY <1>3 DEF AddressAt

(* What Placed does to the instructions of a list, and to the others. *)
LEMMA PlacedFacts ==
    ASSUME NEW list \in Seq(Obj), IsInjective(list), NEW f \in [Obj -> Instr]
    PROVE  /\ Placed(list, f) \in [Obj -> Instr]
           /\ \A k \in DOMAIN list :
                 Placed(list, f)[list[k]] = [f[list[k]] EXCEPT !.addr = AddressAt(list, f, k)]
           /\ \A o \in Obj \ ToSet(list) : Placed(list, f)[o] = f[o]
  <1>1. Len(list) \in Nat /\ DOMAIN list = 1..Len(list) /\ \A k \in DOMAIN list : list[k] \in Obj
    BY LenProperties, ElementOfSeq
  <1>2. ASSUME NEW k \in DOMAIN list
        PROVE  Placed(list, f)[list[k]] = [f[list[k]] EXCEPT !.addr = AddressAt(list, f, k)]
    <2>1. list[k] \in ToSet(list) /\ list[k] \in Obj
      BY <1>1 DEF ToSet
    <2>2. (CHOOSE h \in DOMAIN list : list[h] = list[k]) = k
      BY DEF IsInjective
    <2> QED  BY <2>1, <2>2 DEF Placed
  <1>3. \A o \in Obj \ ToSet(list) : Placed(list, f)[o] = f[o]
    BY DEF Placed
  <1>4. ASSUME NEW o \in Obj PROVE Placed(list, f)[o] \in Instr
    <2>1. CASE o \notin ToSet(list)
      BY <1>3, <2>1
    <2>2. CASE o \in ToSet(list)
      <3>1. PICK k \in DOMAIN list : list[k] = o
        BY <2>2 DEF ToSet
      <3>2. AddressAt(list, f, k) \in Nat
        BY <1>1, AddressFacts
      <3>3. f[o] \in Instr
        OBVIOUS
      <3> QED  BY <1>2, <3>1, <3>2, <3>3 DEF Instr
    <2> QED  BY <2>1, <2>2
  <1>5. Placed(list, f) \in [Obj -> Instr]
    <2>1. Placed(list, f) = [o \in Obj |-> Placed(list, f)[o]]
      BY DEF Placed
    <2> QED  BY <1>4, <2>1
  <1> QED  BY <1>2, <1>3, <1>5

(* What removal does to the instructions of a list, and to the others. *)
LEMMA RemovedFacts ==
    ASSUME NEW list, NEW f \in [Obj -> Instr], NEW keep
    PROVE  /\ Removed(list, f, keep) \in [Obj -> Instr]
           /\ \A o \in Obj : o \in keep \/ o \notin ToSet(list) => Removed(list, f, keep)[o] = f[o]
           /\ \A o \in Obj : o \in ToSet(list) \ keep => Removed(list, f, keep)[o] = Freed(f[o])
  <1>1. \A o \in Obj : f[o] \in Instr /\ f[o].addr \in Nat
    BY DEF Instr
  <1>2. \A o \in Obj : Freed(f[o]) \in Instr
    BY <1>1 DEF Freed, Blank, Instr, Available, ADDRESS_INVALID
  <1> QED  BY <1>1, <1>2 DEF Removed

Encodables(f) == {o \in Obj : Encodes(f[o])}

(* Fields that validate_metadata does not touch on what it keeps *)
Alike(i, j) == i.kind = j.kind /\ i.target = j.target /\ i.taddr = j.taddr /\ i.imm = j.imm

(***************************************************************************)
(* validate_metadata keeps the instructions that encode, and only their    *)
(* addresses change, to what follows from their order.                     *)
(***************************************************************************)
LEMMA MetadataFacts ==
    ASSUME NEW list \in Seq(Obj), IsInjective(list), NEW f \in [Obj -> Instr],
           NEW e, e = Encodable(list, f), NEW m, m = Metadata(list, f)
    PROVE  /\ e \in Seq(Obj) /\ IsInjective(e)
           /\ ToSet(e) = {o \in ToSet(list) : Encodes(f[o])}
           /\ m \in [Obj -> Instr]
           /\ \A o \in ToSet(e) : Alike(m[o], f[o]) /\ Encodes(m[o]) /\ m[o].addr # 0
           /\ \A k \in DOMAIN e : m[e[k]].addr = AddressAt(e, m, k)
           /\ \A o \in ToSet(list) \ ToSet(e) : m[o] = Freed(f[o])
           /\ \A o \in Obj \ ToSet(list) : m[o] = f[o]
  <1> DEFINE r == Removed(list, f, ToSet(e))
  <1>1. ToSet(list) \subseteq Obj
    BY LenProperties, ElementOfSeq DEF ToSet
  <1>2. e = Those(list, Encodables(f))
    BY DEF Encodable, Encodables
  <1>3. /\ e \in Seq(Obj) /\ IsInjective(e)
        /\ ToSet(e) = ToSet(list) \cap Encodables(f)
    BY <1>2, ThoseFacts
  <1>4. ToSet(e) = {o \in ToSet(list) : Encodes(f[o])}
    BY <1>1, <1>3 DEF Encodables
  <1>5. r \in [Obj -> Instr] /\ (\A o \in ToSet(e) : r[o] = f[o])
        /\ (\A o \in Obj \ ToSet(list) : r[o] = f[o])
        /\ (\A o \in ToSet(list) \ ToSet(e) : r[o] = Freed(f[o]))
    BY <1>1, <1>4, RemovedFacts
  <1> HIDE DEF r
  <1>6. m = Placed(e, r)
    BY DEF Metadata, r
  <1>7. /\ m \in [Obj -> Instr]
        /\ \A k \in DOMAIN e : m[e[k]] = [r[e[k]] EXCEPT !.addr = AddressAt(e, r, k)]
        /\ \A o \in Obj \ ToSet(e) : m[o] = r[o]
    BY <1>3, <1>5, <1>6, PlacedFacts
  <1>8. ASSUME NEW k \in DOMAIN e
        PROVE  /\ Alike(m[e[k]], f[e[k]])
               /\ m[e[k]].addr = AddressAt(e, r, k)
               /\ m[e[k]].addr # 0
    <2>1. e[k] \in ToSet(e) /\ e[k] \in Obj /\ f[e[k]] \in Instr
      BY <1>1, <1>4 DEF ToSet
    <2>2. m[e[k]] = [f[e[k]] EXCEPT !.addr = AddressAt(e, r, k)]
      BY <1>5, <1>7, <2>1
    <2>3. AddressAt(e, r, k) # 0
      BY <1>3, AddressFacts, LenProperties
    <2> QED  BY <2>1, <2>2, <2>3 DEF Alike, Instr
  <1>9. ASSUME NEW o \in ToSet(e) PROVE Alike(m[o], f[o]) /\ Encodes(m[o]) /\ m[o].addr # 0
    <2>1. PICK k \in DOMAIN e : e[k] = o
      BY DEF ToSet
    <2>2. Alike(m[o], f[o]) /\ m[o].addr # 0
      BY <1>8, <2>1
    <2> QED  BY <1>4, <2>2 DEF Encodes, Alike
  <1>10. \A k \in DOMAIN e : AddressAt(e, r, k) = AddressAt(e, m, k)
    <2>1. \A o \in ToSet(e) : r[o].kind = m[o].kind
      BY <1>5, <1>9 DEF Alike
    <2> QED  BY <1>3, <2>1, SameAddresses, ZenonT(30)
  <1> QED  BY <1>1, <1>3, <1>4, <1>5, <1>7, <1>8, <1>9, <1>10

(* ... and nothing changes when all encode and have their addresses. *)
LEMMA MetadataStays ==
    ASSUME NEW list \in Seq(Obj), IsInjective(list), NEW f \in [Obj -> Instr],
           \A o \in ToSet(list) : Encodes(f[o]),
           \A k \in DOMAIN list : f[list[k]].addr = AddressAt(list, f, k)
    PROVE  Encodable(list, f) = list /\ Metadata(list, f) = f
  <1>1. ToSet(list) \subseteq Encodables(f)
    BY LenProperties, ElementOfSeq DEF ToSet, Encodables
  <1>2. Encodable(list, f) = list
    BY <1>1, ThoseFacts DEF Encodable, Encodables
  <1>3. Removed(list, f, ToSet(list)) = f
    BY DEF Removed
  <1>4. /\ Placed(list, f) \in [Obj -> Instr]
        /\ \A k \in DOMAIN list : Placed(list, f)[list[k]] = [f[list[k]] EXCEPT !.addr = AddressAt(list, f, k)]
        /\ \A o \in Obj \ ToSet(list) : Placed(list, f)[o] = f[o]
    BY PlacedFacts
  <1>5. ASSUME NEW o \in Obj PROVE Placed(list, f)[o] = f[o]
    <2>1. CASE o \notin ToSet(list)
      BY <1>4, <2>1
    <2>2. CASE o \in ToSet(list)
      <3>1. PICK k \in DOMAIN list : list[k] = o
        BY <2>2 DEF ToSet
      <3>2. Placed(list, f)[o] = [f[o] EXCEPT !.addr = f[o].addr]
        BY <1>4, <3>1
      <3> QED  BY <3>2 DEF Instr
    <2> QED  BY <2>1, <2>2
  <1>6. Placed(list, f) = f
    BY <1>4, <1>5
  <1> QED  BY <1>2, <1>3, <1>6 DEF Metadata

-----------------------------------------------------------------------------
(***************************************************************************)
(* The invariant                                                           *)
(***************************************************************************)

(* The passes of pipeline p from the n-th on *)
Rest(p, n) == [i \in 1..(Len(Pipelines[p]) - n + 1) |-> Pipelines[p][i + n - 1]]

Names == {"validate", "encode", "decode"}

Typed ==
    /\ snip \in Seq(Obj) /\ IsInjective(snip)
    /\ ins \in [Obj -> Instr]
    /\ todo \in Seq(Obj)

(* What runs is the rest of the pipeline that was started; a snippet that is *)
(* valid is only encoded.                                                    *)
Control ==
    /\ state \in {"idle", "running", "aborted"} /\ fresh \in BOOLEAN /\ valid \in BOOLEAN
    /\ state = "running" => run \in Names /\ \E n \in 1..Len(Pipelines[run]) : passes = Rest(run, n)
    /\ state = "idle" => fresh = FALSE
    /\ fresh = FALSE => todo = << >>
    /\ valid /\ state = "running" => run = "encode"

(* A jump that has a target has its address, and what is in the list has one. *)
Addressed ==
    /\ \A o \in Obj : ins[o].target # Null => ins[o].taddr # ADDRESS_INVALID
    /\ \A o \in Listed : ins[o].addr # 0

(* The walk visits jumps of the list. *)
Visits ==
    InPass("jump_operands") \/ InPass("jump_targets") =>
        \A o \in ToSet(todo) : o \in Listed /\ ins[o].kind \in Jumps

(* In pipeline_validate the jumps behind the walk of validate_jump_operands are *)
(* immediate and have a target, and so are all of them from then on.            *)
Settled(i) == i.kind \in {"near", "misfit"} /\ i.target # Null

Rewrites ==
    state = "running" /\ run = "validate" =>
        \A o \in Listed : ins[o].kind \in Jumps =>
            \/ Settled(ins[o])
            \/ Len(passes) \in {5, 6, 7}
            \/ Len(passes) = 4 /\ (fresh => o \in ToSet(todo))

(* What validate_metadata and validate_jump_offsets compute is there. *)
InPlace ==
    valid =>
        /\ \A k \in DOMAIN snip : ins[snip[k]].addr = AddressAt(snip, ins, k)
        /\ \A o \in Listed :
              /\ Encodes(ins[o])
              /\ ins[o].kind \in Jumps =>
                    ins[o].kind = "near" /\ ins[o].target # Null /\ ins[o].imm = NewOffset(ins, o)

Inv == Typed /\ Control /\ Addressed /\ Visits /\ Rewrites /\ InPlace /\ ValidateSucceeds

-----------------------------------------------------------------------------
(***************************************************************************)
(* Pipelines and their passes                                              *)
(***************************************************************************)

LEMMA Registered ==
    /\ DOMAIN Pipelines = Names
    /\ Len(Pipelines["validate"]) = 7 /\ Len(Pipelines["encode"]) = 1 /\ Len(Pipelines["decode"]) = 1
    /\ Pipelines["validate"][1] = "instructions" /\ Pipelines["validate"][2] = "registers"
    /\ Pipelines["validate"][3] = "memory" /\ Pipelines["validate"][4] = "jump_operands"
    /\ Pipelines["validate"][5] = "jump_targets" /\ Pipelines["validate"][6] = "rip_relative"
    /\ Pipelines["validate"][7] = "jump_offsets"
    /\ Pipelines["encode"][1] = "jump_offsets" /\ Pipelines["decode"][1] = "jump_targets"
  BY DEF Pipelines, Names

LEMMA PipelineIsRest ==
    ASSUME NEW p \in Names
    PROVE  Pipelines[p] = Rest(p, 1) /\ 1 \in 1..Len(Pipelines[p])
  <1>1. CASE p = "validate"
    BY <1>1 DEF Pipelines, Rest
  <1>2. CASE p = "encode"
    BY <1>2 DEF Pipelines, Rest
  <1>3. CASE p = "decode"
    BY <1>3 DEF Pipelines, Rest
  <1> QED  BY <1>1, <1>2, <1>3 DEF Names

LEMMA RestFacts ==
    ASSUME NEW p \in Names, NEW n \in 1..Len(Pipelines[p])
    PROVE  /\ Rest(p, n) # << >>
           /\ Len(Rest(p, n)) = Len(Pipelines[p]) - n + 1
           /\ Head(Rest(p, n)) = Pipelines[p][n]
           /\ Len(Rest(p, n)) # 1 => n + 1 \in 1..Len(Pipelines[p]) /\ Tail(Rest(p, n)) = Rest(p, n + 1)
           /\ Len(Rest(p, n)) = 1 => n = Len(Pipelines[p])
  <1> DEFINE s == Rest(p, n)
             l == Len(Pipelines[p])
             X == {Pipelines[p][i] : i \in 1..l}
  <1>1. l \in Nat
    BY Registered DEF Names
  <1>2. s = [i \in 1..(l - n + 1) |-> Pipelines[p][i + n - 1]]
    BY DEF Rest
  <1> HIDE DEF s, l
  <1>3. \A i \in 1..(l - n + 1) : i + n - 1 \in 1..l
    BY <1>1 DEF l
  <1>4. l - n + 1 \in Nat /\ n \in Nat
    BY <1>1 DEF l
  <1>5. s \in Seq(X) /\ Len(s) = l - n + 1
    BY <1>2, <1>3, <1>4, IsASeq, SMTT(30)
  <1>6. s # << >> /\ Head(s) = Pipelines[p][n]
    <2>1. 1 \in 1..(l - n + 1) /\ 1 + n - 1 = n
      BY <1>4 DEF l
    <2>2. s[1] = Pipelines[p][n]
      BY <1>2, <2>1
    <2>3. s # << >>
      BY <1>5, <2>1, LenProperties, EmptySeq
    <2> QED  BY <1>5, <2>2, <2>3
  <1>7. ASSUME Len(s) # 1 PROVE n + 1 \in 1..l /\ Tail(s) = Rest(p, n + 1)
    <2>1. n + 1 \in 1..l
      BY <1>1, <1>5, <1>7 DEF l
    <2>2. /\ Tail(s) \in Seq(X) /\ Len(Tail(s)) = Len(s) - 1
          /\ \A i \in 1..Len(Tail(s)) : Tail(s)[i] = s[i + 1]
      BY <1>5, <1>6, HeadTailProperties
    <2>3. Len(Tail(s)) = l - (n + 1) + 1
      BY <1>1, <1>4, <1>5, <2>2
    <2>4. \A i \in 1..(l - (n + 1) + 1) : Tail(s)[i] = Pipelines[p][i + (n + 1) - 1]
      <3> TAKE i \in 1..(l - (n + 1) + 1)
      <3>1. i + 1 \in 1..(l - n + 1) /\ (i + 1) + n - 1 = i + (n + 1) - 1
        BY <1>1, <1>4
      <3> QED  BY <1>2, <2>2, <2>3, <3>1
    <2>5. Tail(s) = [i \in 1..(l - (n + 1) + 1) |-> Pipelines[p][i + (n + 1) - 1]]
      <3> DEFINE r == [i \in 1..(l - (n + 1) + 1) |-> Pipelines[p][i + (n + 1) - 1]]
      <3>1. DOMAIN Tail(s) = 1..(l - (n + 1) + 1)
        BY <2>2, <2>3, LenProperties
      <3>2. Tail(s) = [i \in DOMAIN Tail(s) |-> Tail(s)[i]]
        BY <2>2, LenProperties
      <3> QED  BY <2>4, <3>1, <3>2
    <2> QED  BY <2>1, <2>5 DEF Rest, l
  <1>8. ASSUME Len(s) = 1 PROVE n = l
    <2>1. l - n + 1 = 1
      BY <1>5, <1>8
    <2> QED  BY <1>1, <1>4, <2>1
  <1> QED  BY <1>5, <1>6, <1>7, <1>8 DEF s, l

(* What is known of a pass that runs, and of its end. *)
LEMMA PassFacts ==
    ASSUME Control, state = "running"
    PROVE  /\ run \in Names /\ passes # << >> /\ Len(passes) \in 1..7
           /\ run = "validate" => \/ Head(passes) = "instructions" /\ Len(passes) = 7
                                  \/ Head(passes) = "registers" /\ Len(passes) = 6
                                  \/ Head(passes) = "memory" /\ Len(passes) = 5
                                  \/ Head(passes) = "jump_operands" /\ Len(passes) = 4
                                  \/ Head(passes) = "jump_targets" /\ Len(passes) = 3
                                  \/ Head(passes) = "rip_relative" /\ Len(passes) = 2
                                  \/ Head(passes) = "jump_offsets" /\ Len(passes) = 1
           /\ run = "encode" => Head(passes) = "jump_offsets" /\ Len(passes) = 1
           /\ run = "decode" => Head(passes) = "jump_targets" /\ Len(passes) = 1
  <1>1. run \in Names
    BY DEF Control
  <1>2. PICK n \in 1..Len(Pipelines[run]) : passes = Rest(run, n)
    BY DEF Control
  <1>3. passes # << >> /\ Len(passes) = Len(Pipelines[run]) - n + 1 /\ Head(passes) = Pipelines[run][n]
    BY <1>1, <1>2, RestFacts
  <1>4. CASE run = "validate"
    <2>1. n \in {1, 2, 3, 4, 5, 6, 7} /\ Len(passes) = 8 - n
      BY <1>2, <1>3, <1>4, Registered
    <2> QED  BY <1>1, <1>3, <1>4, <2>1, Registered
  <1>5. CASE run = "encode"
    <2>1. n = 1 /\ Len(passes) = 1
      BY <1>2, <1>3, <1>5, Registered
    <2> QED  BY <1>1, <1>3, <1>5, <2>1, Registered
  <1>6. CASE run = "decode"
    <2>1. n = 1 /\ Len(passes) = 1
      BY <1>2, <1>3, <1>6, Registered
    <2> QED  BY <1>1, <1>3, <1>6, <2>1, Registered
  <1> QED  BY <1>1, <1>4, <1>5, <1>6 DEF Names

LEMMA PassEndsFacts ==
    ASSUME Control, state = "running", PassEnds
    PROVE  /\ Control' /\ Visits' /\ ValidateSucceeds'
           /\ fresh' = FALSE /\ todo' = << >> /\ run' = run
           /\ valid' = (valid \/ (Len(passes) = 1 /\ run = "validate"))
           /\ state' = "running" => Len(passes') = Len(passes) - 1
           /\ state' = "running" \/ Len(passes) = 1
  <1>1. run \in Names
    BY DEF Control
  <1>2. PICK n \in 1..Len(Pipelines[run]) : passes = Rest(run, n)
    BY DEF Control
  <1>3. fresh' = FALSE /\ todo' = << >> /\ run' = run /\ passes' = Tail(passes)
    BY DEF PassEnds
  <1>4. CASE Len(passes) = 1
    <2>1. state' = "idle" /\ rc' = 0 /\ valid' = (valid \/ run = "validate")
      BY <1>4 DEF PassEnds
    <2> QED  BY <1>3, <1>4, <2>1 DEF Control, Visits, ValidateSucceeds, InPass
  <1>5. CASE Len(passes) # 1
    <2>1. state' = "running" /\ valid' = valid
      BY <1>5 DEF PassEnds
    <2>2. n + 1 \in 1..Len(Pipelines[run]) /\ passes' = Rest(run, n + 1)
      BY <1>1, <1>2, <1>3, <1>5, RestFacts
    <2>3. Len(passes) = Len(Pipelines[run]) - n + 1 /\ Len(passes') = Len(Pipelines[run]) - (n + 1) + 1
      BY <1>1, <1>2, <2>2, RestFacts
    <2>4. Len(passes') = Len(passes) - 1
      <3>1. Len(Pipelines[run]) \in Nat
        BY <1>1, Registered DEF Names
      <3> QED  BY <2>3, <3>1
    <2>5. Control'
      BY <1>1, <1>3, <2>1, <2>2 DEF Control
    <2>6. valid' = (valid \/ (Len(passes) = 1 /\ run = "validate"))
      BY <1>5, <2>1 DEF Control
    <2>7. Visits' /\ ValidateSucceeds'
      BY <1>3, <2>1 DEF Visits, ValidateSucceeds, InPass
    <2> QED  BY <1>3, <2>1, <2>4, <2>5, <2>6, <2>7
  <1> QED  BY <1>4, <1>5

LEMMA PassGoesOnFacts ==
    ASSUME Control, state = "running", fresh = TRUE, PassGoesOn
    PROVE  Control' /\ ValidateSucceeds'
  BY DEF Control, PassGoesOn, ValidateSucceeds

LEMMA PassFailsFacts ==
    ASSUME Control, PassFails, run # "validate"
    PROVE  Control' /\ Visits' /\ Rewrites' /\ InPlace' /\ ValidateSucceeds'
  BY DEF Control, PassFails, Visits, Rewrites, InPlace, ValidateSucceeds, InPass

-----------------------------------------------------------------------------
(***************************************************************************)
(* Every step keeps the invariant                                          *)
(***************************************************************************)

LEMMA ListedObj ==
    ASSUME NEW list \in Seq(Obj)
    PROVE  ToSet(list) \subseteq Obj
  BY LenProperties, ElementOfSeq DEF ToSet

LEMMA JumpsOfFacts ==
    ASSUME NEW list \in Seq(Obj), NEW f
    PROVE  JumpsOf(list, f) \in Seq(Obj) /\ ToSet(JumpsOf(list, f)) = {o \in ToSet(list) : f[o].kind \in Jumps}
  <1>1. ToSet(JumpsOf(list, f)) = ToSet(list) \cap {o \in Obj : f[o].kind \in Jumps}
    BY ThoseFacts DEF JumpsOf
  <1> QED  BY <1>1, ThoseFacts, ListedObj DEF JumpsOf

(* The fields that Addressed and Rewrites speak of, after validate_metadata *)
LEMMA MetadataKeeps ==
    ASSUME Typed, Addressed, NEW e, e = Encodable(snip, ins), NEW m, m = Metadata(snip, ins)
    PROVE  /\ e \in Seq(Obj) /\ IsInjective(e) /\ m \in [Obj -> Instr]
           /\ ToSet(e) \subseteq Listed
           /\ \A o \in Obj : m[o].target # Null => m[o].taddr # ADDRESS_INVALID
           /\ \A o \in ToSet(e) : Alike(m[o], ins[o]) /\ Encodes(m[o]) /\ m[o].addr # 0
           /\ \A k \in DOMAIN e : m[e[k]].addr = AddressAt(e, m, k)
           /\ ToSet(e) = {o \in Listed : Encodes(ins[o])}
  <1>1. /\ e \in Seq(Obj) /\ IsInjective(e) /\ m \in [Obj -> Instr]
        /\ ToSet(e) = {o \in Listed : Encodes(ins[o])}
        /\ \A o \in ToSet(e) : Alike(m[o], ins[o]) /\ Encodes(m[o]) /\ m[o].addr # 0
        /\ \A k \in DOMAIN e : m[e[k]].addr = AddressAt(e, m, k)
        /\ \A o \in Listed \ ToSet(e) : m[o] = Freed(ins[o])
        /\ \A o \in Obj \ Listed : m[o] = ins[o]
    BY MetadataFacts DEF Typed, Listed
  <1>2. ASSUME NEW o \in Obj, m[o].target # Null PROVE m[o].taddr # ADDRESS_INVALID
    <2>1. CASE o \in ToSet(e)
      BY <1>1, <1>2, <2>1 DEF Alike, Addressed
    <2>2. CASE o \in Listed \ ToSet(e)
      BY <1>1, <1>2, <2>2 DEF Freed, Blank
    <2>3. CASE o \notin Listed
      BY <1>1, <1>2, <2>3 DEF Addressed
    <2> QED  BY <1>1, <2>1, <2>2, <2>3
  <1> QED  BY <1>1, <1>2

(* A snippet that is valid is what validate_metadata makes of it. *)
LEMMA MetadataOfValid ==
    ASSUME Typed, InPlace, valid
    PROVE  Encodable(snip, ins) = snip /\ Metadata(snip, ins) = ins
  BY MetadataStays DEF Typed, InPlace, Listed

LEMMA MetadataStep ==
    ASSUME Inv, ValidateMetadata
    PROVE  Inv'
  <1> USE DEF Inv
  <1>1. /\ state = "running" /\ fresh = FALSE
        /\ snip' = Encodable(snip, ins) /\ ins' = Metadata(snip, ins)
        /\ fresh' = TRUE /\ todo' = JumpsOf(snip', ins')
        /\ passes' = passes /\ run' = run /\ valid' = valid /\ state' = state /\ rc' = rc
    BY DEF ValidateMetadata, Control
  <1>2. /\ snip' \in Seq(Obj) /\ IsInjective(snip') /\ ins' \in [Obj -> Instr]
        /\ Listed' \subseteq Listed
        /\ \A o \in Obj : ins'[o].target # Null => ins'[o].taddr # ADDRESS_INVALID
        /\ \A o \in Listed' : Alike(ins'[o], ins[o]) /\ ins'[o].addr # 0
    BY <1>1, MetadataKeeps DEF Listed
  <1>3. todo' \in Seq(Obj) /\ ToSet(todo') = {o \in Listed' : ins'[o].kind \in Jumps}
    <2>1. /\ JumpsOf(snip', ins') \in Seq(Obj)
          /\ ToSet(JumpsOf(snip', ins')) = {o \in ToSet(snip') : ins'[o].kind \in Jumps}
      BY <1>2, JumpsOfFacts
    <2> QED  BY <1>1, <2>1 DEF Listed
  <1>4. Typed'
    BY <1>2, <1>3 DEF Typed
  <1>5. Control'
    BY <1>1 DEF Control
  <1>6. Addressed'
    BY <1>2 DEF Addressed
  <1>7. Visits'
    BY <1>3 DEF Visits
  <1>8. Rewrites'
    BY <1>1, <1>2, <1>3 DEF Rewrites, Settled, Alike
  <1>9. InPlace'
    <2> SUFFICES ASSUME valid PROVE snip' = snip /\ ins' = ins
      BY <1>1 DEF InPlace, Listed, AddressAt, BytesBefore
    <2> QED  BY <1>1, MetadataOfValid
  <1>10. ValidateSucceeds'
    BY <1>1 DEF ValidateSucceeds
  <1> QED  BY <1>4, <1>5, <1>6, <1>7, <1>8, <1>9, <1>10

LEMMA PassBeforeOffsets ==
    ASSUME Control, state = "running", PassEnds, Head(passes) # "jump_offsets"
    PROVE  /\ Control' /\ Visits' /\ ValidateSucceeds'
           /\ fresh' = FALSE /\ todo' = << >> /\ run' = run /\ valid' = FALSE
           /\ state' = "running" => Len(passes') = Len(passes) - 1
  <1>1. /\ Control' /\ Visits' /\ ValidateSucceeds'
        /\ fresh' = FALSE /\ todo' = << >> /\ run' = run
        /\ valid' = (valid \/ (Len(passes) = 1 /\ run = "validate"))
        /\ state' = "running" => Len(passes') = Len(passes) - 1
    BY PassEndsFacts
  <1>2. /\ run \in Names /\ Len(passes) \in 1..7 /\ run # "encode"
        /\ ~(Len(passes) = 1 /\ run = "validate")
    BY PassFacts
  <1>3. valid' = FALSE
    BY <1>1, <1>2 DEF Control
  <1> QED  BY <1>1, <1>3

(* The end of a pass before validate_jump_offsets, if it leaves the jumps *)
(* settled that validate_jump_operands has rewritten                      *)
LEMMA EarlyPassEnds ==
    ASSUME Control, state = "running", PassEnds, Head(passes) # "jump_offsets",
           run = "validate" /\ Len(passes) \notin {5, 6, 7} =>
               \A o \in Listed' : ins'[o].kind \in Jumps => Settled(ins'[o])
    PROVE  Control' /\ Visits' /\ Rewrites' /\ InPlace' /\ ValidateSucceeds' /\ todo' = << >>
  <1>1. /\ Control' /\ Visits' /\ ValidateSucceeds'
        /\ fresh' = FALSE /\ todo' = << >> /\ run' = run /\ valid' = FALSE
        /\ state' = "running" => Len(passes') = Len(passes) - 1
    BY PassBeforeOffsets
  <1>2. Len(passes) \in 1..7
    BY PassFacts
  <1>3. Rewrites'
    <2> SUFFICES ASSUME state' = "running", run' = "validate", NEW o \in Listed', ins'[o].kind \in Jumps
                 PROVE  Settled(ins'[o]) \/ Len(passes') \in {5, 6, 7} \/ Len(passes') = 4
      BY <1>1 DEF Rewrites
    <2>1. CASE Len(passes) \in {5, 6, 7}
      <3>1. Len(passes') = Len(passes) - 1
        BY <1>1
      <3>2. Len(passes') \in {4, 5, 6}
        BY <2>1, <3>1
      <3> QED  BY <3>2
    <2>2. CASE Len(passes) \notin {5, 6, 7}
      BY <1>1, <2>2
    <2> QED  BY <2>1, <2>2
  <1> QED  BY <1>1, <1>3 DEF InPlace

LEMMA InstructionsStep ==
    ASSUME Inv, ValidateInstructions
    PROVE  Inv'
  <1>1. Typed /\ Control /\ Addressed
    BY DEF Inv
  <1>2. state = "running" /\ Head(passes) = "instructions" /\ PassEnds
    BY DEF ValidateInstructions, InPass
  <1>3. run = "validate" => Len(passes) = 7
    BY <1>1, <1>2, PassFacts
  <1>4. Control' /\ Visits' /\ Rewrites' /\ InPlace' /\ ValidateSucceeds' /\ todo' = << >>
    BY <1>1, <1>2, <1>3, EarlyPassEnds
  <1> DEFINE kept == Those(snip, {o \in Obj : ins[o].kind # "banned"})
  <1>5. snip' = kept /\ ins' = Removed(snip, ins, ToSet(kept))
    BY DEF ValidateInstructions
  <1>6. kept \in Seq(Obj) /\ IsInjective(kept) /\ ToSet(kept) \subseteq Listed
    BY <1>1, ThoseFacts DEF Typed, Listed
  <1> HIDE DEF kept
  <1>7. /\ ins' \in [Obj -> Instr]
        /\ \A o \in Obj : o \in ToSet(kept) \/ o \notin Listed => ins'[o] = ins[o]
        /\ \A o \in Obj : o \in Listed \ ToSet(kept) => ins'[o] = Freed(ins[o])
    <2>1. ins \in [Obj -> Instr]
      BY <1>1 DEF Typed
    <2> DEFINE r == Removed(snip, ins, ToSet(kept))
    <2>2. /\ r \in [Obj -> Instr]
          /\ \A o \in Obj : o \in ToSet(kept) \/ o \notin ToSet(snip) => r[o] = ins[o]
          /\ \A o \in Obj : o \in ToSet(snip) \ ToSet(kept) => r[o] = Freed(ins[o])
      BY <2>1, RemovedFacts
    <2> QED  BY <1>5, <2>2 DEF Listed
  <1>8. Typed'
    BY <1>4, <1>5, <1>6, <1>7, EmptySeq DEF Typed
  <1>9. \A o \in Obj : ins'[o].target # Null => ins'[o].taddr # ADDRESS_INVALID
    BY <1>1, <1>7 DEF Addressed, Freed, Blank
  <1>10. \A o \in Listed' : ins'[o].addr # 0
    <2>1. Listed' = ToSet(kept) /\ Listed \subseteq Obj
      BY <1>1, <1>5, ListedObj DEF Listed, Typed
    <2> QED  BY <1>1, <1>6, <1>7, <2>1 DEF Addressed
  <1> QED  BY <1>4, <1>8, <1>9, <1>10 DEF Inv, Addressed

LEMMA OperandsStep ==
    ASSUME Inv, ValidateOperands
    PROVE  Inv'
  <1>1. Typed /\ Control /\ Addressed
    BY DEF Inv
  <1>2. state = "running" /\ Head(passes) \in {"registers", "memory"} /\ PassEnds
    BY DEF ValidateOperands, InPass
  <1>3. run = "validate" => Len(passes) \in {5, 6}
    BY <1>1, <1>2, PassFacts
  <1>4. Control' /\ Visits' /\ Rewrites' /\ InPlace' /\ ValidateSucceeds' /\ todo' = << >>
    BY <1>1, <1>2, <1>3, EarlyPassEnds
  <1>5. PICK bad \in SUBSET {o \in Listed : ins[o].kind = "fragile"} :
           ins' = [o \in Obj |-> IF o \in bad THEN [ins[o] EXCEPT !.kind = "broken"] ELSE ins[o]]
    BY DEF ValidateOperands
  <1>6. snip' = snip
    BY DEF ValidateOperands
  <1>7. ins' \in [Obj -> Instr]
    BY <1>1, <1>5, ZenonT(30) DEF Typed, Instr, Available
  <1>8. \A o \in Obj : /\ ins'[o].target = ins[o].target /\ ins'[o].taddr = ins[o].taddr
                       /\ ins'[o].addr = ins[o].addr
    BY <1>1, <1>5 DEF Typed, Instr
  <1>9. Listed' = Listed /\ Listed \subseteq Obj
    BY <1>1, <1>6, ListedObj DEF Listed, Typed
  <1>10. Typed' /\ Addressed'
    BY <1>1, <1>4, <1>6, <1>7, <1>8, <1>9, EmptySeq DEF Typed, Addressed
  <1> QED  BY <1>4, <1>10 DEF Inv

LEMMA Unchanged ==
    ASSUME Inv, UNCHANGED <<snip, ins, fresh, todo, run, valid, rc>>,
           state' = "aborted" \/ (state' = state /\ passes' = passes)
    PROVE  Inv'
  <1>1. Typed /\ Control /\ Addressed /\ Visits /\ Rewrites /\ InPlace /\ ValidateSucceeds
    BY DEF Inv
  <1>2. Typed' /\ Addressed' /\ Control'
    BY <1>1 DEF Typed, Addressed, Listed, Control
  <1>3. Visits' /\ Rewrites' /\ ValidateSucceeds'
    BY <1>1 DEF Visits, InPass, Rewrites, ValidateSucceeds, Listed
  <1>4. InPlace'
    BY <1>1 DEF InPlace, Listed, AddressAt, BytesBefore, NewOffset, OffsetBetween
  <1> QED  BY <1>2, <1>3, <1>4 DEF Inv

LEMMA AbortStep ==
    ASSUME Inv, Abort
    PROVE  Inv'
  BY Unchanged DEF Abort

LEMMA HeadOfWalk ==
    ASSUME NEW list \in Seq(Obj), list # << >>
    PROVE  /\ Head(list) \in ToSet(list) /\ Tail(list) \in Seq(Obj)
           /\ ToSet(list) = {Head(list)} \cup ToSet(Tail(list))
  <1>1. /\ Tail(list) \in Seq(Obj) /\ Len(Tail(list)) = Len(list) - 1 /\ Head(list) = list[1]
        /\ \A i \in 1..Len(Tail(list)) : Tail(list)[i] = list[i + 1]
    BY HeadTailProperties
  <1>2. /\ Len(list) \in Nat /\ DOMAIN list = 1..Len(list) /\ DOMAIN Tail(list) = 1..(Len(list) - 1)
        /\ Len(list) # 0
    BY <1>1, LenProperties, EmptySeq
  <1>3. 1 \in DOMAIN list
    BY <1>2
  <1>4. Head(list) \in ToSet(list)
    BY <1>1, <1>3 DEF ToSet
  <1>5. ASSUME NEW x \in ToSet(list) PROVE x = Head(list) \/ x \in ToSet(Tail(list))
    <2>1. PICK i \in DOMAIN list : x = list[i]
      BY DEF ToSet
    <2>2. CASE i = 1
      BY <1>1, <2>1, <2>2
    <2>3. CASE i # 1
      <3>1. i - 1 \in DOMAIN Tail(list) /\ (i - 1) + 1 = i
        BY <1>2, <2>3
      <3>2. Tail(list)[i - 1] = x
        BY <1>1, <1>2, <2>1, <3>1
      <3> QED  BY <3>1, <3>2 DEF ToSet
    <2> QED  BY <2>2, <2>3
  <1>6. ASSUME NEW x \in ToSet(Tail(list)) PROVE x \in ToSet(list)
    <2>1. PICK i \in DOMAIN Tail(list) : x = Tail(list)[i]
      BY DEF ToSet
    <2>2. i + 1 \in DOMAIN list /\ x = list[i + 1]
      BY <1>1, <1>2, <2>1
    <2> QED  BY <2>2 DEF ToSet
  <1> QED  BY <1>1, <1>4, <1>5, <1>6

(* A round of validate_jump_operands or validate_jump_targets: the first of *)
(* the jumps that the walk has still to visit becomes j.                    *)
LEMMA WalkStep ==
    ASSUME Typed, Control, Addressed, Visits, Rewrites, state = "running", fresh = TRUE,
           Head(passes) \in {"jump_operands", "jump_targets"}, todo # << >>,
           NEW o, o = Head(todo), NEW j \in Instr,
           j.target # Null => j.taddr # ADDRESS_INVALID, j.addr = ins[o].addr, j.kind \in Jumps,
           run = "validate" => Settled(j),
           ins' = [ins EXCEPT ![o] = j], todo' = Tail(todo), snip' = snip, PassGoesOn
    PROVE  Inv'
  <1>1. /\ Tail(todo) \in Seq(Obj) /\ ToSet(todo) = {o} \cup ToSet(Tail(todo))
        /\ Listed \subseteq Obj /\ Listed' = Listed
    BY HeadOfWalk, ListedObj DEF Typed, Listed
  <1>2. \A x \in ToSet(todo) : x \in Listed /\ ins[x].kind \in Jumps
    BY DEF Visits, InPass
  <1>3. o \in Obj /\ ins'[o] = j /\ \A x \in Obj : x # o => ins'[x] = ins[x]
    BY <1>1, <1>2 DEF Typed
  <1>4. /\ state' = state /\ passes' = passes /\ fresh' = fresh /\ run' = run /\ valid' = valid
        /\ Control' /\ ValidateSucceeds'
    BY PassGoesOnFacts DEF PassGoesOn
  <1>5. run # "encode"
    BY PassFacts
  <1>6. valid = FALSE
    BY <1>5 DEF Control
  <1>7. Typed'
    BY <1>1, <1>3 DEF Typed
  <1>8. Addressed'
    BY <1>1, <1>3 DEF Addressed
  <1>9. Visits'
    BY <1>1, <1>2, <1>3 DEF Visits
  <1>10. Rewrites'
    <2> SUFFICES ASSUME run = "validate", NEW x \in Listed, ins'[x].kind \in Jumps
                 PROVE  \/ Settled(ins'[x])
                        \/ Len(passes) \in {5, 6, 7}
                        \/ Len(passes) = 4 /\ x \in ToSet(Tail(todo))
      BY <1>1, <1>4 DEF Rewrites
    <2>1. CASE x = o
      BY <1>3, <2>1
    <2>2. CASE x # o
      BY <1>1, <1>3, <2>2 DEF Rewrites
    <2> QED  BY <2>1, <2>2
  <1>11. InPlace'
    BY <1>4, <1>6 DEF InPlace
  <1> QED  BY <1>4, <1>7, <1>8, <1>9, <1>10, <1>11 DEF Inv

(* The jumps of pipeline_validate behind validate_jump_operands *)
LEMMA SettledBehind ==
    ASSUME Control, Rewrites, state = "running", run = "validate",
           Len(passes) \notin {5, 6, 7}, Len(passes) = 4 => fresh = TRUE /\ todo = << >>
    PROVE  \A o \in Listed : ins[o].kind \in Jumps => Settled(ins[o])
  <1>1. ToSet(<< >>) = {}
    BY DEF ToSet
  <1> QED  BY <1>1 DEF Rewrites

(* A pass that ends, or fails, and leaves all as it is *)
LEMMA StaysTyped ==
    ASSUME Typed, Addressed, snip' = snip, ins' = ins, todo' = << >>
    PROVE  Typed' /\ Addressed'
  BY EmptySeq DEF Typed, Addressed, Listed

LEMMA JumpOperandsStep ==
    ASSUME Inv, ValidateJumpOperands
    PROVE  Inv'
  <1>1. Typed /\ Control /\ Addressed /\ Visits /\ Rewrites
    BY DEF Inv
  <1>2. state = "running" /\ fresh = TRUE /\ Head(passes) = "jump_operands"
    BY <1>1 DEF ValidateJumpOperands, InPass, Control
  <1>3. run = "validate" => Len(passes) = 4
    BY <1>1, <1>2, PassFacts
  <1>4. CASE todo = << >>
    <2>1. snip' = snip /\ ins' = ins /\ PassEnds
      BY <1>4 DEF ValidateJumpOperands
    <2>2. run = "validate" => \A o \in Listed' : ins'[o].kind \in Jumps => Settled(ins'[o])
      <3> SUFFICES ASSUME run = "validate" PROVE \A o \in Listed : ins[o].kind \in Jumps => Settled(ins[o])
        BY <2>1 DEF Listed
      <3>1. Len(passes) \notin {5, 6, 7}
        BY <1>3
      <3> QED  BY <1>1, <1>2, <1>4, <3>1, SettledBehind
    <2>3. Control' /\ Visits' /\ Rewrites' /\ InPlace' /\ ValidateSucceeds' /\ todo' = << >>
      BY <1>1, <1>2, <2>1, <2>2, EarlyPassEnds
    <2> QED  BY <1>1, <2>1, <2>3, StaysTyped DEF Inv
  <1>5. CASE todo # << >>
    <2> DEFINE o == Head(todo)
               i == [ins[o] EXCEPT !.target = KeptTarget(ins[o]),
                                   !.imm = IF ins[o].kind = "indirect" THEN 0 ELSE @]
               Done(new) == /\ ins' = [ins EXCEPT ![o] = [new EXCEPT !.kind = Rewritten(@)]]
                            /\ todo' = Tail(todo)
                            /\ UNCHANGED snip
                            /\ PassGoesOn
    <2>1. \/ i.target # Null /\ Done(i)
          \/ \E t \in Listed \ {o} : Done(Aimed(i, t))
          \/ Abort
      BY <1>5 DEF ValidateJumpOperands
    <2>2. o \in Listed /\ o \in Obj /\ ins[o].kind \in Jumps /\ Listed \subseteq Obj
      BY <1>1, <1>2, <1>5, HeadOfWalk, ListedObj DEF Visits, InPass, Typed, Listed
    <2>3. ins[o] \in Instr /\ ins[o].target # Null => ins[o].taddr # ADDRESS_INVALID
      BY <1>1, <2>2 DEF Typed, Addressed
    <2>4. i \in Instr /\ i.addr = ins[o].addr /\ i.kind = ins[o].kind /\ i.taddr = ins[o].taddr
          /\ (i.target # Null => i.target = ins[o].target)
      <3>1. ins[o] \in Instr
        BY <1>1, <2>2 DEF Typed
      <3>2. KeptTarget(ins[o]) \in {Null, ins[o].target}
        BY DEF KeptTarget
      <3>3. (IF ins[o].kind = "indirect" THEN 0 ELSE ins[o].imm) \in Int
        BY <3>1 DEF Instr
      <3> HIDE DEF o
      <3> QED  BY <3>1, <3>2, <3>3 DEF Instr
    <2>5. ASSUME NEW new \in Instr, new.kind = i.kind, new.addr = i.addr, new.target # Null,
                 new.taddr # ADDRESS_INVALID, Done(new)
          PROVE  Inv'
      <3> DEFINE j == [new EXCEPT !.kind = Rewritten(@)]
      <3>1. Rewritten(new.kind) \in {"near", "misfit"}
        BY <2>2, <2>4, <2>5 DEF Rewritten, Jumps, Immediate
      <3>2. /\ j \in Instr /\ j.kind \in {"near", "misfit"} /\ j.target # Null
            /\ j.taddr # ADDRESS_INVALID /\ j.addr = ins[o].addr
        BY <2>4, <2>5, <3>1 DEF Instr, Available
      <3>3. j.kind \in Jumps /\ Settled(j)
        BY <3>2 DEF Jumps, Immediate, Settled
      <3>4. ins' = [ins EXCEPT ![o] = j] /\ todo' = Tail(todo) /\ snip' = snip /\ PassGoesOn
        BY <2>5
      <3> HIDE DEF j, o
      <3> QED  BY <1>1, <1>2, <1>5, <3>2, <3>3, <3>4, WalkStep DEF o
    <2>6. CASE i.target # Null /\ Done(i)
      <3>1. i.taddr # ADDRESS_INVALID
        BY <1>1, <2>2, <2>4, <2>6 DEF Addressed
      <3> HIDE DEF i
      <3> QED  BY <2>4, <2>5, <2>6, <3>1
    <2>7. ASSUME NEW t \in Listed \ {o}, Done(Aimed(i, t)) PROVE Inv'
      <3> HIDE DEF i, o
      <3>1. t \in Obj /\ ins[t] \in Instr /\ ins[t].addr # 0
        BY <1>1, <2>2, <2>7 DEF Typed, Addressed
      <3>2. OffsetBetween(i, ins[t]) \in Int
        BY <2>4, <3>1 DEF OffsetBetween, Length, Instr
      <3>3. Aimed(i, t) \in Instr
        BY <2>4, <3>1, <3>2 DEF Aimed, Instr
      <3>4. /\ Aimed(i, t).kind = i.kind /\ Aimed(i, t).addr = i.addr
            /\ Aimed(i, t).target = t /\ Aimed(i, t).taddr = ins[t].addr
        BY <2>4 DEF Aimed, Instr
      <3>5. t # Null
        BY <3>1, PipelineAssumption
      <3> QED  BY <2>5, <2>7, <3>1, <3>3, <3>4, <3>5 DEF ADDRESS_INVALID
    <2>8. CASE Abort
      BY <2>8, AbortStep
    <2> QED  BY <2>1, <2>6, <2>7, <2>8
  <1> QED  BY <1>4, <1>5

LEMMA JumpTargetsStep ==
    ASSUME Inv, ValidateJumpTargets
    PROVE  Inv'
  <1>1. Typed /\ Control /\ Addressed /\ Visits /\ Rewrites
    BY DEF Inv
  <1>2. state = "running" /\ fresh = TRUE /\ Head(passes) = "jump_targets"
    BY <1>1 DEF ValidateJumpTargets, InPass, Control
  <1>3. run = "validate" => Len(passes) = 3
    BY <1>1, <1>2, PassFacts
  <1>4. run = "validate" => \A x \in Listed : ins[x].kind \in Jumps => Settled(ins[x])
    <2> SUFFICES ASSUME run = "validate" PROVE \A x \in Listed : ins[x].kind \in Jumps => Settled(ins[x])
      OBVIOUS
    <2>1. Len(passes) \notin {5, 6, 7} /\ Len(passes) # 4
      BY <1>3
    <2> QED  BY <1>1, <1>2, <2>1, SettledBehind
  <1>5. CASE todo = << >>
    <2>1. snip' = snip /\ ins' = ins /\ PassEnds
      BY <1>5 DEF ValidateJumpTargets
    <2>2. run = "validate" => \A x \in Listed' : ins'[x].kind \in Jumps => Settled(ins'[x])
      BY <1>4, <2>1 DEF Listed
    <2>3. Control' /\ Visits' /\ Rewrites' /\ InPlace' /\ ValidateSucceeds' /\ todo' = << >>
      BY <1>1, <1>2, <2>1, <2>2, EarlyPassEnds
    <2> QED  BY <1>1, <2>1, <2>3, StaysTyped DEF Inv
  <1>6. CASE todo # << >>
    <2> DEFINE o == Head(todo)
    <2>1. \/ todo' = Tail(todo) /\ snip' = snip /\ ins' = ins /\ PassGoesOn
          \/ ins[o].taddr = ADDRESS_INVALID /\ snip' = snip /\ ins' = ins /\ PassFails
          \/ /\ ins[o].taddr # ADDRESS_INVALID
             /\ \E t \in Found(o) : ins' = [ins EXCEPT ![o].target = t]
             /\ todo' = Tail(todo) /\ snip' = snip /\ PassGoesOn
          \/ Abort
      BY <1>6 DEF ValidateJumpTargets
    <2>2. o \in Listed /\ o \in Obj /\ ins[o].kind \in Jumps /\ Listed \subseteq Obj
      BY <1>1, <1>2, <1>6, HeadOfWalk, ListedObj DEF Visits, InPass, Typed, Listed
    <2> HIDE DEF o
    <2>3. ins[o] \in Instr /\ (ins[o].target # Null => ins[o].taddr # ADDRESS_INVALID)
      BY <1>1, <2>2 DEF Typed, Addressed
    <2>4. CASE todo' = Tail(todo) /\ snip' = snip /\ ins' = ins /\ PassGoesOn
      <3>1. ins' = [ins EXCEPT ![o] = ins[o]]
        BY <1>1, <2>2, <2>4 DEF Typed
      <3> QED  BY <1>1, <1>2, <1>4, <1>6, <2>2, <2>3, <2>4, <3>1, WalkStep DEF o
    <2>5. CASE ins[o].taddr = ADDRESS_INVALID /\ snip' = snip /\ ins' = ins /\ PassFails
      <3>1. run # "validate"
        BY <1>4, <2>2, <2>3, <2>5 DEF Settled
      <3>2. todo' = << >>
        BY <2>5 DEF PassFails
      <3> QED  BY <1>1, <2>5, <3>1, <3>2, PassFailsFacts, StaysTyped DEF Inv
    <2>6. ASSUME NEW t \in Found(o), ins' = [ins EXCEPT ![o].target = t], ins[o].taddr # ADDRESS_INVALID,
                 todo' = Tail(todo), snip' = snip, PassGoesOn
          PROVE  Inv'
      <3> DEFINE j == [ins[o] EXCEPT !.target = t]
      <3>1. t \in Obj /\ t # Null
        BY <2>2, PipelineAssumption DEF Found
      <3>2. /\ j \in Instr /\ j.target = t /\ j.taddr = ins[o].taddr /\ j.addr = ins[o].addr
            /\ j.kind = ins[o].kind
        BY <2>3, <3>1 DEF Instr
      <3>3. ins' = [ins EXCEPT ![o] = j]
        BY <2>6
      <3> HIDE DEF j
      <3>4. run = "validate" => Settled(j)
        BY <1>4, <2>2, <3>1, <3>2 DEF Settled
      <3> QED  BY <1>1, <1>2, <1>6, <2>2, <2>6, <3>2, <3>3, <3>4, WalkStep DEF o
    <2>7. CASE Abort
      BY <2>7, AbortStep
    <2> QED  BY <2>1, <2>4, <2>5, <2>6, <2>7
  <1> QED  BY <1>5, <1>6

LEMMA RipRelativeStep ==
    ASSUME Inv, ValidateRipRelative
    PROVE  Inv'
  <1>1. Typed /\ Control /\ Addressed /\ Visits /\ Rewrites
    BY DEF Inv
  <1>2. state = "running" /\ fresh = TRUE /\ Head(passes) = "rip_relative"
    BY <1>1 DEF ValidateRipRelative, InPass, Control
  <1>3. run = "validate" => Len(passes) = 2
    BY <1>1, <1>2, PassFacts
  <1>4. run # "encode" /\ valid = FALSE
    BY <1>1, <1>2, PassFacts DEF Control
  <1>5. run = "validate" => \A x \in Listed : ins[x].kind \in Jumps => Settled(ins[x])
    <2> SUFFICES ASSUME run = "validate" PROVE \A x \in Listed : ins[x].kind \in Jumps => Settled(ins[x])
      OBVIOUS
    <2>1. Len(passes) \notin {5, 6, 7} /\ Len(passes) # 4
      BY <1>3
    <2> QED  BY <1>1, <1>2, <2>1, SettledBehind
  <1> DEFINE e == Encodable(snip, ins)
             m == Metadata(snip, ins)
             wrong == {o \in ToSet(snip') : m[o].kind \in {"rip", "far"} /\ m[o].imm # m[o].addr}
  <1>6. /\ snip' = e
        /\ ins' = [o \in Obj |-> IF o \notin wrong THEN m[o]
                                 ELSE IF m[o].kind = "far" THEN [m[o] EXCEPT !.kind = "broken"]
                                 ELSE [m[o] EXCEPT !.imm = m[o].addr]]
        /\ PassEnds \/ (todo' = todo /\ PassGoesOn)
    BY DEF ValidateRipRelative
  <1>7. /\ e \in Seq(Obj) /\ IsInjective(e) /\ m \in [Obj -> Instr]
        /\ ToSet(e) \subseteq Listed /\ Listed' = ToSet(e) /\ ToSet(e) \subseteq Obj
        /\ \A o \in Obj : m[o].target # Null => m[o].taddr # ADDRESS_INVALID
        /\ \A o \in ToSet(e) : Alike(m[o], ins[o]) /\ m[o].addr # 0
    <2>1. Listed' = ToSet(e)
      BY <1>6 DEF Listed
    <2> HIDE DEF e, m
    <2>2. e = Encodable(snip, ins) /\ m = Metadata(snip, ins)
      BY DEF e, m
    <2> QED  BY <1>1, <2>1, <2>2, MetadataKeeps, ListedObj
  <1> HIDE DEF e, m, wrong
  <1>8. ASSUME NEW o \in Obj
        PROVE  /\ ins'[o] \in Instr /\ ins'[o].target = m[o].target /\ ins'[o].taddr = m[o].taddr
               /\ ins'[o].addr = m[o].addr
               /\ ins'[o].kind \in Jumps => ins'[o] = m[o]
    <2>1. m[o] \in Instr /\ m[o].addr \in Int
      BY <1>7 DEF Instr
    <2>2. CASE o \notin wrong
      BY <1>6, <2>1, <2>2
    <2>3. CASE o \in wrong
      <3>1. m[o].kind \in {"rip", "far"}
        BY <2>3 DEF wrong
      <3>2. "rip" \notin Jumps /\ "broken" \notin Jumps
        BY DEF Jumps, Immediate
      <3>3. CASE m[o].kind = "far"
        <4>1. ins'[o] = [m[o] EXCEPT !.kind = "broken"]
          BY <1>6, <2>3, <3>3
        <4> QED  BY <2>1, <3>2, <4>1 DEF Instr, Available
      <3>4. CASE m[o].kind = "rip"
        <4>1. ins'[o] = [m[o] EXCEPT !.imm = m[o].addr]
          BY <1>6, <2>3, <3>4
        <4> QED  BY <2>1, <3>2, <3>4, <4>1 DEF Instr
      <3> QED  BY <3>1, <3>3, <3>4
    <2> QED  BY <2>2, <2>3
  <1>9. snip' \in Seq(Obj) /\ IsInjective(snip') /\ ins' \in [Obj -> Instr]
    <2>1. ins' = [o \in Obj |-> ins'[o]]
      BY <1>6
    <2> QED  BY <1>6, <1>7, <1>8, <2>1
  <1>10. Addressed'
    BY <1>7, <1>8 DEF Addressed
  <1>11. run = "validate" => \A x \in Listed' : ins'[x].kind \in Jumps => Settled(ins'[x])
    BY <1>5, <1>7, <1>8 DEF Settled, Alike
  <1>12. CASE PassEnds
    <2>1. Control' /\ Visits' /\ Rewrites' /\ InPlace' /\ ValidateSucceeds' /\ todo' = << >>
      BY <1>1, <1>2, <1>11, <1>12, EarlyPassEnds
    <2>2. Typed'
      BY <1>9, <2>1, EmptySeq DEF Typed
    <2> QED  BY <1>10, <2>1, <2>2 DEF Inv
  <1>13. CASE todo' = todo /\ PassGoesOn
    <2>1. /\ state' = state /\ passes' = passes /\ run' = run /\ valid' = valid
          /\ Control' /\ ValidateSucceeds'
      BY <1>1, <1>2, <1>13, PassGoesOnFacts DEF PassGoesOn
    <2>2. Typed'
      BY <1>1, <1>9, <1>13 DEF Typed
    <2>3. Visits' /\ InPlace' /\ Rewrites'
      BY <1>2, <1>4, <1>11, <2>1 DEF Visits, InPass, InPlace, Rewrites
    <2> QED  BY <1>10, <2>1, <2>2, <2>3 DEF Inv
  <1> QED  BY <1>6, <1>12, <1>13

(* A round of validate_jump_offsets: what it writes, and when it fails *)
OffsetJumps == Those(Encodable(snip, ins), {o \in Obj : Metadata(snip, ins)[o].kind \in Immediate})
Unknown == {k \in DOMAIN OffsetJumps : Metadata(snip, ins)[OffsetJumps[k]].target = Null}

LEMMA JumpOffsetsFacts ==
    ASSUME Typed, Addressed, ValidateJumpOffsets, NEW e, e = Encodable(snip, ins),
           NEW m, m = Metadata(snip, ins)
    PROVE  /\ snip' = e
           /\ ins' \in [Obj -> Instr]
           /\ \A o \in Obj : /\ ins'[o].kind = m[o].kind /\ ins'[o].target = m[o].target
                             /\ ins'[o].taddr = m[o].taddr /\ ins'[o].addr = m[o].addr
                             /\ ~(o \in ToSet(e) /\ m[o].kind \in Immediate) => ins'[o] = m[o]
           /\ Unknown # {} =>
                 PassFails /\ \E o \in ToSet(e) : m[o].kind \in Immediate /\ m[o].target = Null
           /\ Unknown = {} =>
                 /\ \A o \in ToSet(e) : m[o].kind \in Immediate =>
                       m[o].target \in Obj /\ ins'[o] = [m[o] EXCEPT !.imm = NewOffset(m, o)]
                 /\ \/ todo' = todo /\ PassGoesOn
                    \/ PassEnds /\ \A o \in ToSet(e) : m[o].imm = ins'[o].imm
  <1>1. /\ e \in Seq(Obj) /\ m \in [Obj -> Instr] /\ ToSet(e) \subseteq Obj
    BY MetadataKeeps, ListedObj
  <1> DEFINE jumps == OffsetJumps
             unknown == Unknown
             reached == IF unknown = {} THEN Range(jumps)
                        ELSE {jumps[k] : k \in 1..(Min(unknown) - 1)}
  <1>2. /\ snip' = e
        /\ ins' = [o \in Obj |-> IF o \in reached THEN [m[o] EXCEPT !.imm = NewOffset(m, o)] ELSE m[o]]
        /\ unknown # {} => PassFails
        /\ unknown = {} => \/ todo' = todo /\ PassGoesOn
                           \/ PassEnds /\ ~OffsetsChanged(snip', m, ins')
    BY ZenonT(30) DEF ValidateJumpOffsets, OffsetJumps, Unknown
  <1>3. /\ jumps \in Seq(Obj)
        /\ ToSet(jumps) = {o \in ToSet(e) : m[o].kind \in Immediate}
    <2>1. jumps = Those(e, {o \in Obj : m[o].kind \in Immediate})
      BY DEF OffsetJumps
    <2>2. ToSet(jumps) = ToSet(e) \cap {o \in Obj : m[o].kind \in Immediate} /\ jumps \in Seq(Obj)
      BY <1>1, <2>1, ThoseFacts
    <2> QED  BY <1>1, <2>2
  <1>4. Len(jumps) \in Nat /\ DOMAIN jumps = 1..Len(jumps) /\ unknown \subseteq 1..Len(jumps)
        /\ unknown = {k \in DOMAIN jumps : m[jumps[k]].target = Null}
    BY <1>3, LenProperties DEF Unknown
  <1> HIDE DEF jumps, unknown
  <1>5. ASSUME unknown # {}
        PROVE  /\ \A k \in 1..(Min(unknown) - 1) : k \in DOMAIN jumps \ unknown
               /\ \E o \in ToSet(e) : m[o].kind \in Immediate /\ m[o].target = Null
    <2>1. unknown \in SUBSET Nat
      BY <1>4
    <2>2. \E x \in unknown : \A y \in unknown : x <= y
      BY <1>5, <2>1, Least
    <2>3. Min(unknown) \in unknown /\ \A y \in unknown : Min(unknown) <= y
      BY <2>2 DEF Min
    <2>4. \A k \in 1..(Min(unknown) - 1) : k \in DOMAIN jumps /\ ~(Min(unknown) <= k)
      BY <1>4, <2>1, <2>3
    <2>5. jumps[Min(unknown)] \in ToSet(jumps) /\ m[jumps[Min(unknown)]].target = Null
      BY <1>4, <2>3 DEF ToSet
    <2> QED  BY <1>3, <2>3, <2>4, <2>5
  <1>6. reached \subseteq {o \in ToSet(jumps) : m[o].target # Null}
    <2>1. CASE unknown = {}
      <3>1. \A k \in DOMAIN jumps : m[jumps[k]].target # Null
        BY <1>4, <2>1
      <3> QED  BY <2>1, <3>1 DEF Range, ToSet
    <2>2. CASE unknown # {}
      <3>1. \A k \in 1..(Min(unknown) - 1) : k \in DOMAIN jumps /\ m[jumps[k]].target # Null
        BY <1>4, <1>5, <2>2
      <3> QED  BY <2>2, <3>1 DEF ToSet
    <2> QED  BY <2>1, <2>2
  <1>7. unknown = {} => reached = ToSet(jumps)
    BY DEF Range, ToSet
  <1> HIDE DEF reached
  <1>8. ASSUME NEW o \in reached PROVE m[o].target \in Obj /\ NewOffset(m, o) \in Int
    <2>1. o \in Obj /\ m[o].target # Null /\ m[o] \in Instr
      BY <1>1, <1>3, <1>6, <1>8
    <2>2. m[o].target \in Obj
      BY <2>1 DEF Instr
    <2>3. m[m[o].target] \in Instr
      BY <1>1, <2>2
    <2> QED  BY <2>1, <2>2, <2>3 DEF NewOffset, OffsetBetween, Length, Instr
  <1>9. ASSUME NEW o \in Obj
        PROVE  /\ ins'[o] \in Instr
               /\ ins'[o].kind = m[o].kind /\ ins'[o].target = m[o].target
               /\ ins'[o].taddr = m[o].taddr /\ ins'[o].addr = m[o].addr
               /\ o \notin reached => ins'[o] = m[o]
               /\ o \in reached => ins'[o] = [m[o] EXCEPT !.imm = NewOffset(m, o)]
    <2>1. m[o] \in Instr
      BY <1>1
    <2>2. CASE o \in reached
      <3>1. ins'[o] = [m[o] EXCEPT !.imm = NewOffset(m, o)] /\ NewOffset(m, o) \in Int
        BY <1>2, <1>8, <2>2
      <3> QED  BY <2>1, <2>2, <3>1 DEF Instr
    <2>3. CASE o \notin reached
      BY <1>2, <2>1, <2>3
    <2> QED  BY <2>2, <2>3
  <1>10. ins' \in [Obj -> Instr]
    <2>1. ins' = [o \in Obj |-> ins'[o]]
      BY <1>2
    <2> QED  BY <1>9, <2>1
  <1>11. ASSUME Unknown = {}
         PROVE  \A o \in ToSet(e) : m[o].kind \in Immediate =>
                    m[o].target \in Obj /\ ins'[o] = [m[o] EXCEPT !.imm = NewOffset(m, o)]
    <2>1. unknown = {}
      BY <1>11 DEF unknown
    <2> QED  BY <1>1, <1>3, <1>7, <1>8, <1>9, <2>1
  <1>12. Unknown = {} => \/ todo' = todo /\ PassGoesOn
                         \/ PassEnds /\ \A o \in ToSet(e) : m[o].imm = ins'[o].imm
    BY <1>2 DEF OffsetsChanged, unknown
  <1>13. Unknown # {} =>
            PassFails /\ \E o \in ToSet(e) : m[o].kind \in Immediate /\ m[o].target = Null
    BY <1>2, <1>5 DEF unknown
  <1>14. \A o \in Obj : ~(o \in ToSet(e) /\ m[o].kind \in Immediate) => ins'[o] = m[o]
    BY <1>3, <1>6, <1>9
  <1> QED  BY <1>2, <1>9, <1>10, <1>11, <1>12, <1>13, <1>14

(* A valid snippet is not changed by a round of validate_jump_offsets. *)
LEMMA OffsetsOfValid ==
    ASSUME Typed, Addressed, InPlace, valid, ValidateJumpOffsets
    PROVE  Unknown = {} /\ snip' = snip /\ ins' = ins
  <1>1. Encodable(snip, ins) = snip /\ Metadata(snip, ins) = ins
    BY MetadataOfValid
  <1>2. /\ snip' = snip /\ ins' \in [Obj -> Instr] /\ ins \in [Obj -> Instr]
        /\ \A o \in Obj : ~(o \in ToSet(snip) /\ ins[o].kind \in Immediate) => ins'[o] = ins[o]
        /\ Unknown # {} => \E o \in ToSet(snip) : ins[o].kind \in Immediate /\ ins[o].target = Null
        /\ Unknown = {} => \A o \in ToSet(snip) : ins[o].kind \in Immediate =>
                              ins'[o] = [ins[o] EXCEPT !.imm = NewOffset(ins, o)]
    <2> DEFINE e == Encodable(snip, ins)
               m == Metadata(snip, ins)
    <2>1. e = Encodable(snip, ins) /\ m = Metadata(snip, ins)
      OBVIOUS
    <2> HIDE DEF e, m
    <2>2. /\ snip' = e /\ ins' \in [Obj -> Instr]
          /\ \A o \in Obj : ~(o \in ToSet(e) /\ m[o].kind \in Immediate) => ins'[o] = m[o]
          /\ Unknown # {} => \E o \in ToSet(e) : m[o].kind \in Immediate /\ m[o].target = Null
          /\ Unknown = {} => \A o \in ToSet(e) : m[o].kind \in Immediate =>
                                ins'[o] = [m[o] EXCEPT !.imm = NewOffset(m, o)]
      BY <2>1, JumpOffsetsFacts
    <2>3. e = snip /\ m = ins
      BY <1>1, <2>1
    <2> QED  BY <2>2, <2>3 DEF Typed
  <1>3. \A o \in ToSet(snip) : ins[o].kind \in Immediate =>
            ins[o].target # Null /\ ins[o].imm = NewOffset(ins, o)
    BY DEF InPlace, Listed, Jumps
  <1>4. Unknown = {}
    BY <1>2, <1>3
  <1>5. ASSUME NEW o \in Obj PROVE ins'[o] = ins[o]
    <2>1. CASE o \in ToSet(snip) /\ ins[o].kind \in Immediate
      <3>1. ins'[o] = [ins[o] EXCEPT !.imm = NewOffset(ins, o)] /\ ins[o].imm = NewOffset(ins, o)
        BY <1>2, <1>3, <1>4, <2>1
      <3>2. ins[o] \in Instr
        BY <1>2
      <3> QED  BY <3>1, <3>2 DEF Instr
    <2>2. CASE ~(o \in ToSet(snip) /\ ins[o].kind \in Immediate)
      BY <1>2, <2>2
    <2> QED  BY <2>1, <2>2
  <1> QED  BY <1>2, <1>4, <1>5

(* What the last round of pipeline_validate leaves is in place. *)
LEMMA LastRound ==
    ASSUME NEW e \in Seq(Obj), NEW m \in [Obj -> Instr], NEW f \in [Obj -> Instr],
           \A o \in ToSet(e) : m[o].kind \in Jumps => Settled(m[o]),
           \A o \in ToSet(e) : Encodes(m[o]),
           \A k \in DOMAIN e : m[e[k]].addr = AddressAt(e, m, k),
           \A o \in Obj : /\ f[o].kind = m[o].kind /\ f[o].target = m[o].target
                          /\ f[o].taddr = m[o].taddr /\ f[o].addr = m[o].addr,
           \A o \in ToSet(e) : m[o].imm = f[o].imm,
           \A o \in ToSet(e) : m[o].kind \in Immediate =>
               m[o].target \in Obj /\ f[o] = [m[o] EXCEPT !.imm = NewOffset(m, o)]
    PROVE  /\ \A k \in DOMAIN e : f[e[k]].addr = AddressAt(e, f, k)
           /\ \A o \in ToSet(e) :
                 /\ Encodes(f[o])
                 /\ f[o].kind \in Jumps =>
                       f[o].kind = "near" /\ f[o].target # Null /\ f[o].imm = NewOffset(f, o)
  <1>1. ToSet(e) \subseteq Obj
    BY ListedObj
  <1>2. ASSUME NEW k \in DOMAIN e PROVE f[e[k]].addr = AddressAt(e, f, k)
    <2>1. e[k] \in ToSet(e) /\ e[k] \in Obj
      BY <1>1 DEF ToSet
    <2>2. AddressAt(e, f, k) = AddressAt(e, m, k)
      <3>1. \A o \in ToSet(e) : f[o].kind = m[o].kind
        BY <1>1
      <3> QED  BY <3>1, SameAddresses
    <2> QED  BY <2>1, <2>2
  <1>3. ASSUME NEW o \in ToSet(e) PROVE Encodes(f[o])
    BY <1>1 DEF Encodes
  <1>4. ASSUME NEW o \in ToSet(e), f[o].kind \in Jumps
        PROVE  f[o].kind = "near" /\ f[o].target # Null /\ f[o].imm = NewOffset(f, o)
    <2>1. o \in Obj /\ m[o].kind \in Jumps /\ Settled(m[o]) /\ Encodes(m[o])
      BY <1>1, <1>4
    <2>2. m[o].kind = "near"
      BY <2>1 DEF Settled, Encodes
    <2>3. m[o].kind \in Immediate
      BY <2>2 DEF Immediate
    <2>4. m[o].target \in Obj /\ f[o] = [m[o] EXCEPT !.imm = NewOffset(m, o)]
      BY <2>3
    <2>5. m[o] \in Instr
      BY <2>1
    <2>6. f[o].imm = NewOffset(m, o)
      BY <2>4, <2>5 DEF Instr
    <2>7. NewOffset(f, o) = NewOffset(m, o)
      BY <2>1, <2>4 DEF NewOffset, OffsetBetween, Length
    <2> QED  BY <2>1, <2>2, <2>6, <2>7 DEF Settled
  <1> QED  BY <1>2, <1>3, <1>4

LEMMA JumpOffsetsStep ==
    ASSUME Inv, ValidateJumpOffsets
    PROVE  Inv'
  <1>1. Typed /\ Control /\ Addressed /\ Visits /\ Rewrites /\ InPlace
    BY DEF Inv
  <1>2. state = "running" /\ fresh = TRUE /\ Head(passes) = "jump_offsets"
    BY <1>1 DEF ValidateJumpOffsets, InPass, Control
  <1>3. Len(passes) = 1 /\ run \in {"validate", "encode"}
    BY <1>1, <1>2, PassFacts DEF Names
  <1>4. run = "validate" => \A x \in Listed : ins[x].kind \in Jumps => Settled(ins[x])
    <2> SUFFICES ASSUME run = "validate" PROVE \A x \in Listed : ins[x].kind \in Jumps => Settled(ins[x])
      OBVIOUS
    <2>1. Len(passes) \notin {5, 6, 7} /\ Len(passes) # 4
      BY <1>3
    <2> QED  BY <1>1, <1>2, <2>1, SettledBehind
  <1> DEFINE e == Encodable(snip, ins)
             m == Metadata(snip, ins)
  <1>5. e = Encodable(snip, ins) /\ m = Metadata(snip, ins)
    OBVIOUS
  <1> HIDE DEF e, m
  <1>6. /\ e \in Seq(Obj) /\ IsInjective(e) /\ m \in [Obj -> Instr]
        /\ ToSet(e) \subseteq Listed /\ ToSet(e) \subseteq Obj
        /\ \A o \in Obj : m[o].target # Null => m[o].taddr # ADDRESS_INVALID
        /\ \A o \in ToSet(e) : Alike(m[o], ins[o]) /\ Encodes(m[o]) /\ m[o].addr # 0
        /\ \A k \in DOMAIN e : m[e[k]].addr = AddressAt(e, m, k)
    BY <1>1, <1>5, MetadataKeeps, ListedObj
  <1>7. /\ snip' = e /\ Listed' = ToSet(e)
        /\ ins' \in [Obj -> Instr]
        /\ \A o \in Obj : /\ ins'[o].kind = m[o].kind /\ ins'[o].target = m[o].target
                          /\ ins'[o].taddr = m[o].taddr /\ ins'[o].addr = m[o].addr
        /\ Unknown # {} =>
              PassFails /\ \E o \in ToSet(e) : m[o].kind \in Immediate /\ m[o].target = Null
        /\ Unknown = {} =>
              /\ \A o \in ToSet(e) : m[o].kind \in Immediate =>
                    m[o].target \in Obj /\ ins'[o] = [m[o] EXCEPT !.imm = NewOffset(m, o)]
              /\ \/ todo' = todo /\ PassGoesOn
                 \/ PassEnds /\ \A o \in ToSet(e) : m[o].imm = ins'[o].imm
    BY <1>1, <1>5, JumpOffsetsFacts DEF Listed
  <1>8. Addressed'
    BY <1>6, <1>7 DEF Addressed
  <1>9. run = "validate" => \A o \in ToSet(e) : m[o].kind \in Jumps => Settled(m[o])
    BY <1>4, <1>6 DEF Settled, Alike
  <1>10. run = "validate" => Unknown = {}
    BY <1>7, <1>9 DEF Settled, Jumps
  <1>11. CASE Unknown # {}
    <2>1. PassFails /\ run # "validate" /\ todo' = << >>
      BY <1>7, <1>10, <1>11 DEF PassFails
    <2>2. Typed'
      BY <1>6, <1>7, <2>1, EmptySeq DEF Typed
    <2> QED  BY <1>1, <1>8, <2>1, <2>2, PassFailsFacts DEF Inv
  <1>12. CASE Unknown = {} /\ todo' = todo /\ PassGoesOn
    <2>1. /\ state' = state /\ passes' = passes /\ fresh' = fresh /\ run' = run /\ valid' = valid
          /\ Control' /\ ValidateSucceeds'
      BY <1>1, <1>2, <1>12, PassGoesOnFacts DEF PassGoesOn
    <2>2. Typed'
      BY <1>1, <1>6, <1>7, <1>12 DEF Typed
    <2>3. Visits'
      BY <1>2, <2>1 DEF Visits, InPass
    <2>4. Rewrites'
      BY <1>6, <1>7, <1>9, <2>1 DEF Rewrites, Settled
    <2>5. InPlace'
      <3> SUFFICES ASSUME valid PROVE snip' = snip /\ ins' = ins
        BY <1>1, <2>1 DEF InPlace, Listed, AddressAt, BytesBefore, NewOffset, OffsetBetween
      <3>1. ValidateJumpOffsets
        OBVIOUS
      <3> QED  BY <1>1, <3>1, OffsetsOfValid
    <2> QED  BY <1>8, <2>1, <2>2, <2>3, <2>4, <2>5 DEF Inv
  <1>13. CASE Unknown = {} /\ PassEnds /\ \A o \in ToSet(e) : m[o].imm = ins'[o].imm
    <2>1. /\ Control' /\ Visits' /\ ValidateSucceeds' /\ todo' = << >> /\ run' = run
          /\ valid' = (valid \/ run = "validate")
      BY <1>1, <1>2, <1>3, <1>13, PassEndsFacts
    <2>2. state' = "idle"
      BY <1>3, <1>13 DEF PassEnds
    <2>3. Typed'
      BY <1>6, <1>7, <2>1, EmptySeq DEF Typed
    <2>4. Rewrites'
      BY <2>2 DEF Rewrites
    <2>5. CASE run = "validate"
      <3>1. /\ \A k \in DOMAIN e : ins'[e[k]].addr = AddressAt(e, ins', k)
            /\ \A o \in ToSet(e) :
                  /\ Encodes(ins'[o])
                  /\ ins'[o].kind \in Jumps =>
                        ins'[o].kind = "near" /\ ins'[o].target # Null /\ ins'[o].imm = NewOffset(ins', o)
        <4>1. \A o \in ToSet(e) : m[o].kind \in Jumps => Settled(m[o])
          BY <1>9, <2>5
        <4>2. /\ \A o \in ToSet(e) : m[o].imm = ins'[o].imm
              /\ \A o \in ToSet(e) : m[o].kind \in Immediate =>
                    m[o].target \in Obj /\ ins'[o] = [m[o] EXCEPT !.imm = NewOffset(m, o)]
          BY <1>7, <1>13
        <4>3. \A o \in ToSet(e) : Encodes(m[o])
          BY <1>6
        <4> QED  BY <1>6, <1>7, <4>1, <4>2, <4>3, LastRound, ZenonT(30)
      <3>2. InPlace'
        BY <1>7, <3>1 DEF InPlace, AddressAt, BytesBefore, NewOffset, OffsetBetween
      <3> QED  BY <1>8, <2>1, <2>3, <2>4, <3>2 DEF Inv
    <2>6. CASE run # "validate"
      <3>1. InPlace'
        <4> SUFFICES ASSUME valid PROVE snip' = snip /\ ins' = ins
          BY <1>1, <2>1, <2>6 DEF InPlace, Listed, AddressAt, BytesBefore, NewOffset, OffsetBetween
        <4>1. ValidateJumpOffsets
          OBVIOUS
        <4> QED  BY <1>1, <4>1, OffsetsOfValid
      <3> QED  BY <1>8, <2>1, <2>3, <2>4, <3>1 DEF Inv
    <2> QED  BY <2>5, <2>6
  <1> QED  BY <1>7, <1>11, <1>12, <1>13

-----------------------------------------------------------------------------
(***************************************************************************)
(* What clients and mutations make of a snippet                            *)
(***************************************************************************)

Sound(i) ==
    i \in Instr /\ (i.target # Null => i.taddr # ADDRESS_INVALID) /\ i.addr # 0

Good(list, f) ==
    /\ list \in Seq(Obj) /\ IsInjective(list)
    /\ f \in [Obj -> Instr]
    /\ \A o \in Obj : f[o].target # Null => f[o].taddr # ADDRESS_INVALID
    /\ \A o \in ToSet(list) : f[o].addr # 0

LEMMA GoodNow ==
    ASSUME Typed, Addressed
    PROVE  Good(snip, ins) /\ \A o \in Listed : o \in Obj /\ Sound(ins[o])
  BY ListedObj DEF Typed, Addressed, Good, Sound, Listed

LEMMA NewFacts ==
    ASSUME NEW kinds \in SUBSET Available, NEW r \in Requests(kinds)
    PROVE  Sound(New(r.kind, r.taddr)) /\ New(r.kind, r.taddr).target = Null
  <1>1. r.kind \in Available /\ r.taddr \in Nat
    <2>1. CASE r \in [kind : kinds \cap Immediate, taddr : Targets]
      <3>1. r.kind \in kinds /\ r.taddr \in Targets
        BY <2>1
      <3> QED  BY <3>1, PipelineAssumption
    <2>2. CASE r \in [kind : kinds \ Immediate, taddr : {ADDRESS_INVALID}]
      <3>1. r.kind \in kinds /\ r.taddr = ADDRESS_INVALID
        BY <2>2
      <3> QED  BY <3>1 DEF ADDRESS_INVALID
    <2> QED  BY <2>1, <2>2 DEF Requests
  <1>2. Base \in Nat \ {0} /\ (IF r.kind = "loose" THEN r.taddr - Base ELSE 0) \in Int
    BY <1>1 DEF Base
  <1> QED  BY <1>1, <1>2 DEF New, Blank, Sound, Instr, ADDRESS_INVALID

LEMMA InsertFacts ==
    ASSUME NEW list \in Seq(Obj), IsInjective(list), NEW o \in Obj \ ToSet(list),
           NEW k \in 1..(Len(list) + 1)
    PROVE  /\ InsertAt(list, k, o) \in Seq(Obj) /\ IsInjective(InsertAt(list, k, o))
           /\ ToSet(InsertAt(list, k, o)) \subseteq ToSet(list) \cup {o}
  <1> DEFINE s == InsertAt(list, k, o)
             n == Len(list) + 1
  <1>1. /\ Len(list) \in Nat /\ DOMAIN list = 1..Len(list)
        /\ \A i \in DOMAIN list : list[i] \in Obj /\ list[i] \in ToSet(list)
    BY LenProperties, ElementOfSeq DEF ToSet
  <1>2. /\ s \in Seq(Obj) /\ Len(s) = n /\ n \in Nat
        /\ \A j \in 1..n : s[j] = IF j < k THEN list[j] ELSE IF j = k THEN o ELSE list[j - 1]
    <2> DEFINE a == SubSeq(list, 1, k - 1)
               b == <<o>>
               c == SubSeq(list, k, Len(list))
    <2>1. k \in Int /\ k - 1 \in 0..Len(list) /\ 1 \in Int
      BY <1>1
    <2>2. (\A i \in 1..(k - 1) : list[i] \in Obj) /\ (\A i \in k..Len(list) : list[i] \in Obj)
      BY <1>1, <2>1
    <2>3. /\ a \in Seq(Obj) /\ Len(a) = k - 1
          /\ \A i \in 1..(k - 1) : a[i] = list[i]
      BY <2>1, <2>2, SubSeqProperties
    <2>4. /\ c \in Seq(Obj) /\ Len(c) = n - k
          /\ \A i \in 1..(n - k) : c[i] = list[k + i - 1]
      BY <1>1, <2>1, <2>2, SubSeqProperties
    <2>5. b \in Seq(Obj) /\ Len(b) = 1 /\ b[1] = o
      OBVIOUS
    <2>6. s = (a \o b) \o c
      BY DEF InsertAt
    <2> HIDE DEF a, b, c, s
    <2>7. /\ a \o b \in Seq(Obj) /\ Len(a \o b) = k
          /\ \A i \in 1..k : (a \o b)[i] = IF i < k THEN list[i] ELSE o
      <3>1. /\ a \o b \in Seq(Obj) /\ Len(a \o b) = k - 1 + 1
            /\ \A i \in 1..(k - 1 + 1) : (a \o b)[i] = IF i <= k - 1 THEN a[i] ELSE b[i - (k - 1)]
        <4>1. /\ a \o b \in Seq(Obj) /\ Len(a \o b) = Len(a) + Len(b)
              /\ \A i \in 1..(Len(a) + Len(b)) : (a \o b)[i] = IF i <= Len(a) THEN a[i] ELSE b[i - Len(a)]
          BY <2>3, <2>5, ConcatProperties
        <4> QED  BY <2>3, <2>5, <4>1
      <3>2. k - 1 + 1 = k
        BY <2>1
      <3>3. ASSUME NEW i \in 1..k PROVE (a \o b)[i] = IF i < k THEN list[i] ELSE o
        BY <2>1, <2>3, <2>5, <3>1, <3>2
      <3> QED  BY <3>1, <3>2, <3>3
    <2>8. /\ s \in Seq(Obj) /\ Len(s) = k + (n - k)
          /\ \A i \in 1..(k + (n - k)) : s[i] = IF i <= k THEN (a \o b)[i] ELSE c[i - k]
      <3> DEFINE d == a \o b
      <3> HIDE DEF d
      <3>1. d \in Seq(Obj) /\ c \in Seq(Obj) /\ s = d \o c
        BY <2>4, <2>6, <2>7 DEF d
      <3>2. /\ d \o c \in Seq(Obj) /\ Len(d \o c) = Len(d) + Len(c)
            /\ \A i \in 1..(Len(d) + Len(c)) : (d \o c)[i] = IF i <= Len(d) THEN d[i] ELSE c[i - Len(d)]
        BY <3>1, ConcatProperties
      <3>3. Len(d) = k /\ Len(c) = n - k
        BY <2>4, <2>7 DEF d
      <3> QED  BY <3>1, <3>2, <3>3 DEF d
    <2>9. k + (n - k) = n /\ n \in Nat
      BY <1>1
    <2>10. ASSUME NEW j \in 1..n
           PROVE  s[j] = IF j < k THEN list[j] ELSE IF j = k THEN o ELSE list[j - 1]
      <3> DEFINE d == a \o b
      <3>0. /\ \A i \in 1..k : d[i] = IF i < k THEN list[i] ELSE o
            /\ \A i \in 1..n : s[i] = IF i <= k THEN d[i] ELSE c[i - k]
        BY <2>7, <2>8, <2>9
      <3> HIDE DEF d
      <3>1. CASE j <= k
        <4>1. j \in 1..k
          BY <2>1, <3>1
        <4>2. s[j] = IF j < k THEN list[j] ELSE o
          BY <3>0, <3>1, <4>1
        <4> QED  BY <2>1, <3>1, <4>2
      <3>2. CASE j > k
        <4>1. j - k \in 1..(n - k) /\ k + (j - k) - 1 = j - 1
          BY <1>1, <2>1, <3>2
        <4> QED  BY <2>1, <2>4, <3>0, <3>2, <4>1
      <3> QED  BY <2>1, <3>1, <3>2
    <2> QED  BY <2>8, <2>9, <2>10
  <1> HIDE DEF s
  <1>3. ASSUME NEW j \in 1..n
        PROVE  /\ j < k => j \in DOMAIN list /\ s[j] = list[j]
               /\ j = k => s[j] = o
               /\ j > k => j - 1 \in DOMAIN list /\ s[j] = list[j - 1]
    BY <1>1, <1>2
  <1>4. \A j \in 1..n : s[j] \in Obj /\ s[j] \in ToSet(list) \cup {o}
    BY <1>1, <1>3
  <1>6. s \in Seq(Obj) /\ DOMAIN s = 1..n
    BY <1>2, LenProperties
  <1>7. \A i, j \in 1..n : s[i] = s[j] => i = j
    <2> SUFFICES ASSUME NEW i \in 1..n, NEW j \in 1..n, s[i] = s[j] PROVE i = j
      OBVIOUS
    <2>1. i \in Int /\ j \in Int /\ k \in Int
      BY <1>1
    <2>2. \A x, y \in DOMAIN list : list[x] = list[y] => x = y
      BY DEF IsInjective
    <2>3. CASE i = k \/ j = k
      BY <1>1, <1>3, <2>1, <2>3, SMTT(30)
    <2>4. CASE i # k /\ j # k
      BY <1>3, <2>1, <2>2, <2>4
    <2> QED  BY <2>3, <2>4
  <1>8. IsInjective(s)
    BY <1>6, <1>7 DEF IsInjective
  <1>9. ToSet(s) \subseteq ToSet(list) \cup {o}
    BY <1>4, <1>6 DEF ToSet
  <1> QED  BY <1>6, <1>8, <1>9 DEF s

LEMMA AppendFacts ==
    ASSUME NEW list \in Seq(Obj), IsInjective(list), NEW o \in Obj \ ToSet(list)
    PROVE  /\ Append(list, o) \in Seq(Obj) /\ IsInjective(Append(list, o))
           /\ ToSet(Append(list, o)) \subseteq ToSet(list) \cup {o}
  <1>1. Len(list) \in Nat /\ DOMAIN list = 1..Len(list) /\ \A i \in DOMAIN list : list[i] \in ToSet(list)
    BY LenProperties DEF ToSet
  <1> DEFINE s == Append(list, o)
  <1>2. /\ s \in Seq(Obj) /\ DOMAIN s = 1..(Len(list) + 1) /\ s[Len(list) + 1] = o
        /\ \A i \in 1..Len(list) : s[i] = list[i]
    BY AppendProperties, LenProperties
  <1> HIDE DEF s
  <1>3. \A i \in DOMAIN s : i \in DOMAIN list \/ i = Len(list) + 1
    BY <1>1, <1>2
  <1>4. IsInjective(s)
    BY <1>1, <1>2, <1>3 DEF IsInjective
  <1>5. ToSet(s) \subseteq ToSet(list) \cup {o}
    BY <1>1, <1>2, <1>3 DEF ToSet
  <1> QED  BY <1>2, <1>4, <1>5 DEF s

LEMMA RemoveFacts ==
    ASSUME NEW list \in Seq(Obj), IsInjective(list), NEW k \in DOMAIN list
    PROVE  /\ RemoveAt(list, k) \in Seq(Obj) /\ IsInjective(RemoveAt(list, k))
           /\ ToSet(RemoveAt(list, k)) \subseteq ToSet(list) \ {list[k]}
  <1> DEFINE s == RemoveAt(list, k)
             n == Len(list) - 1
  <1>1. /\ Len(list) \in Nat /\ DOMAIN list = 1..Len(list) /\ k \in 1..Len(list)
        /\ \A i \in DOMAIN list : list[i] \in Obj /\ list[i] \in ToSet(list)
    BY LenProperties, ElementOfSeq DEF ToSet
  <1>2. /\ s \in Seq(Obj) /\ Len(s) = n /\ n \in Nat
        /\ \A j \in 1..n : s[j] = IF j < k THEN list[j] ELSE list[j + 1]
    <2> DEFINE a == SubSeq(list, 1, k - 1)
               c == SubSeq(list, k + 1, Len(list))
    <2>1. k \in Int /\ k - 1 \in 0..Len(list) /\ 1 \in Int /\ k + 1 \in Int
      BY <1>1
    <2>2. (\A i \in 1..(k - 1) : list[i] \in Obj) /\ (\A i \in (k + 1)..Len(list) : list[i] \in Obj)
      BY <1>1, <2>1
    <2>3. /\ a \in Seq(Obj) /\ Len(a) = k - 1
          /\ \A i \in 1..(k - 1) : a[i] = list[i]
      BY <2>1, <2>2, SubSeqProperties
    <2>4. /\ c \in Seq(Obj) /\ Len(c) = Len(list) - k
          /\ \A i \in 1..(Len(list) - k) : c[i] = list[k + i]
      <3>1. /\ c \in Seq(Obj) /\ Len(c) = IF k + 1 <= Len(list) THEN Len(list) - (k + 1) + 1 ELSE 0
            /\ \A i \in 1..(Len(list) - (k + 1) + 1) : c[i] = list[(k + 1) + i - 1]
        BY <1>1, <2>1, <2>2, SubSeqProperties
      <3>2. Len(list) - (k + 1) + 1 = Len(list) - k /\ k <= Len(list)
        BY <1>1
      <3>3. \A i \in 1..(Len(list) - k) : (k + 1) + i - 1 = k + i
        BY <1>1
      <3> QED  BY <1>1, <3>1, <3>2, <3>3
    <2>5. s = a \o c
      BY DEF RemoveAt
    <2> HIDE DEF a, c, s
    <2>6. /\ s \in Seq(Obj) /\ Len(s) = k - 1 + (Len(list) - k)
          /\ \A i \in 1..(k - 1 + (Len(list) - k)) : s[i] = IF i <= k - 1 THEN a[i] ELSE c[i - (k - 1)]
      <3>1. /\ a \o c \in Seq(Obj) /\ Len(a \o c) = Len(a) + Len(c)
            /\ \A i \in 1..(Len(a) + Len(c)) : (a \o c)[i] = IF i <= Len(a) THEN a[i] ELSE c[i - Len(a)]
        BY <2>3, <2>4, ConcatProperties
      <3> QED  BY <2>3, <2>4, <2>5, <3>1
    <2>7. k - 1 + (Len(list) - k) = n /\ n \in Nat
      BY <1>1
    <2>8. ASSUME NEW j \in 1..n PROVE s[j] = IF j < k THEN list[j] ELSE list[j + 1]
      <3>1. CASE j < k
        BY <2>1, <2>3, <2>6, <2>7, <3>1, SMTT(30)
      <3>2. CASE ~(j < k)
        <4>1. j - (k - 1) \in 1..(Len(list) - k) /\ k + (j - (k - 1)) = j + 1 /\ ~(j <= k - 1)
          BY <1>1, <2>1, <3>2
        <4> QED  BY <2>4, <2>6, <2>7, <3>2, <4>1
      <3> QED  BY <3>1, <3>2
    <2> QED  BY <2>6, <2>7, <2>8
  <1> HIDE DEF s
  <1>3. ASSUME NEW j \in 1..n
        PROVE  /\ j < k => j \in DOMAIN list /\ s[j] = list[j]
               /\ ~(j < k) => j + 1 \in DOMAIN list /\ s[j] = list[j + 1]
    BY <1>1, <1>2
  <1>4. \A x, y \in DOMAIN list : list[x] = list[y] => x = y
    BY DEF IsInjective
  <1>5. ASSUME NEW j \in 1..n PROVE s[j] \in Obj /\ s[j] \in ToSet(list) /\ s[j] # list[k]
    <2>1. CASE j < k
      BY <1>1, <1>3, <1>4, <2>1
    <2>2. CASE ~(j < k)
      <3>1. j + 1 # k
        BY <1>1, <2>2
      <3> QED  BY <1>1, <1>3, <1>4, <2>2, <3>1
    <2> QED  BY <2>1, <2>2
  <1>7. s \in Seq(Obj) /\ DOMAIN s = 1..n
    BY <1>2, LenProperties
  <1>8. \A i, j \in 1..n : s[i] = s[j] => i = j
    <2> SUFFICES ASSUME NEW i \in 1..n, NEW j \in 1..n, s[i] = s[j] PROVE i = j
      OBVIOUS
    <2>1. i \in Int /\ j \in Int /\ k \in Int
      BY <1>1
    <2> QED  BY <1>3, <1>4, <2>1
  <1>9. IsInjective(s)
    BY <1>7, <1>8 DEF IsInjective
  <1>10. ToSet(s) \subseteq ToSet(list) \ {list[k]}
    BY <1>5, <1>7 DEF ToSet
  <1> QED  BY <1>7, <1>9, <1>10 DEF s

LEMMA SwapFacts ==
    ASSUME NEW list \in Seq(Obj), IsInjective(list), NEW j \in DOMAIN list, NEW k \in DOMAIN list,
           NEW s, s = [list EXCEPT ![j] = list[k], ![k] = list[j]]
    PROVE  s \in Seq(Obj) /\ IsInjective(s) /\ ToSet(s) \subseteq ToSet(list)
  <1>1. /\ Len(list) \in Nat /\ DOMAIN list = 1..Len(list)
        /\ \A i \in DOMAIN list : list[i] \in Obj /\ list[i] \in ToSet(list)
        /\ list = [i \in DOMAIN list |-> list[i]]
    BY LenProperties, ElementOfSeq DEF ToSet
  <1>2. DOMAIN s = 1..Len(list) /\ s = [i \in 1..Len(list) |-> s[i]]
    BY <1>1
  <1>3. \A i \in 1..Len(list) : s[i] = IF i = k THEN list[j] ELSE IF i = j THEN list[k] ELSE list[i]
    BY <1>1
  <1>4. \A i \in 1..Len(list) : s[i] \in Obj /\ s[i] \in ToSet(list)
    BY <1>1, <1>3
  <1>5. s \in Seq(Obj)
    BY <1>1, <1>2, <1>4, IsASeq
  <1>6. IsInjective(s)
    BY <1>1, <1>2, <1>3 DEF IsInjective
  <1>7. ToSet(s) \subseteq ToSet(list)
    BY <1>2, <1>4 DEF ToSet
  <1> QED  BY <1>5, <1>6, <1>7

(* One block gets new fields. *)
LEMMA GoodFields ==
    ASSUME Good(snip, ins), NEW o \in Obj, NEW i, Sound(i),
           NEW list \in Seq(Obj), IsInjective(list), ToSet(list) \subseteq ToSet(snip) \cup {o}
    PROVE  Good(list, [ins EXCEPT ![o] = i])
  BY DEF Good, Sound

LEMMA GoodInsert ==
    ASSUME Good(snip, ins), NEW o \in Obj \ ToSet(snip), NEW k \in 1..(Len(snip) + 1), NEW i, Sound(i)
    PROVE  Good(InsertAt(snip, k, o), [ins EXCEPT ![o] = i])
  BY InsertFacts, GoodFields DEF Good

LEMMA GoodInserted ==
    ASSUME Good(snip, ins), NEW o \in Obj \ ToSet(snip), NEW k \in 0..Len(snip), NEW i, Sound(i)
    PROVE  Good(Inserted(o, k), [ins EXCEPT ![o] = i])
  <1>1. snip \in Seq(Obj) /\ IsInjective(snip) /\ Len(snip) \in Nat
    BY LenProperties DEF Good
  <1>2. CASE k \in {0, Len(snip)}
    BY <1>1, <1>2, AppendFacts, GoodFields DEF Inserted
  <1>3. CASE k \notin {0, Len(snip)}
    <2>1. k + 1 \in 1..(Len(snip) + 1)
      BY <1>1
    <2> QED  BY <1>3, <2>1, GoodInsert DEF Inserted
  <1> QED  BY <1>2, <1>3

LEMMA GoodRemove ==
    ASSUME Good(snip, ins), NEW k \in DOMAIN snip
    PROVE  Good(RemoveAt(snip, k), [ins EXCEPT ![snip[k]] = Freed(@)])
  <1> DEFINE o == snip[k]
             list == RemoveAt(snip, k)
             f == [ins EXCEPT ![o] = Freed(@)]
  <1>1. snip \in Seq(Obj) /\ IsInjective(snip) /\ ins \in [Obj -> Instr]
    BY DEF Good
  <1>2. list \in Seq(Obj) /\ IsInjective(list) /\ ToSet(list) \subseteq ToSet(snip) \ {o}
    BY <1>1, RemoveFacts
  <1>3. o \in Obj
    BY <1>1, LenProperties, ElementOfSeq
  <1>4. Freed(ins[o]) \in Instr /\ Freed(ins[o]).target = Null
    <2>1. ins[o] \in Instr
      BY <1>1, <1>3
    <2>2. ins[o].addr \in Nat
      BY <2>1 DEF Instr
    <2> QED  BY <2>2 DEF Freed, Blank, Instr, Available, ADDRESS_INVALID
  <1>5. f = [ins EXCEPT ![o] = Freed(ins[o])]
    BY <1>1, <1>3
  <1> HIDE DEF o, list, f
  <1>6. /\ f \in [Obj -> Instr] /\ f[o].target = Null
        /\ \A x \in Obj : x # o => f[x] = ins[x]
    BY <1>1, <1>3, <1>4, <1>5
  <1>7. ToSet(snip) \subseteq Obj
    BY <1>1, ListedObj
  <1>8. \A x \in Obj : f[x].target # Null => f[x].taddr # ADDRESS_INVALID
    BY <1>6 DEF Good
  <1>9. \A x \in ToSet(list) : f[x].addr # 0
    BY <1>2, <1>6, <1>7 DEF Good
  <1>10. Good(list, f)
    BY <1>2, <1>6, <1>8, <1>9 DEF Good
  <1> QED  BY <1>10 DEF list, f, o

LEMMA GoodReplace ==
    ASSUME Good(snip, ins), NEW o \in ToSet(snip), NEW i, Sound(i)
    PROVE  Good(snip, [ins EXCEPT ![o] = i])
  <1>1. snip \in Seq(Obj) /\ IsInjective(snip) /\ o \in Obj
    BY ListedObj DEF Good
  <1> QED  BY <1>1, GoodFields

LEMMA GoodSwap ==
    ASSUME Good(snip, ins), NEW j \in DOMAIN snip, NEW k \in DOMAIN snip
    PROVE  Good([snip EXCEPT ![j] = snip[k], ![k] = snip[j]], ins)
  <1> DEFINE s == [snip EXCEPT ![j] = snip[k], ![k] = snip[j]]
  <1>1. s \in Seq(Obj) /\ IsInjective(s) /\ ToSet(s) \subseteq ToSet(snip)
    BY SwapFacts DEF Good
  <1> HIDE DEF s
  <1>2. Good(s, ins)
    BY <1>1 DEF Good
  <1> QED  BY <1>2 DEF s

(* New instructions in new blocks: snippet_decode, create_snippet *)
LEMMA GoodFresh ==
    ASSUME NEW n \in Nat, NEW list \in [1..n -> Obj], IsInjective(list),
           NEW f \in [Obj -> Instr], \A o \in Obj : f[o].target # Null => f[o].taddr # ADDRESS_INVALID,
           \A k \in 1..n : f[list[k]].addr # 0
    PROVE  Good(list, f)
  <1>1. list = [k \in 1..n |-> list[k]] /\ \A k \in 1..n : list[k] \in Obj
    OBVIOUS
  <1>2. list \in Seq(Obj)
    BY <1>1, IsASeq
  <1>3. \A o \in ToSet(list) : \E k \in 1..n : o = list[k]
    BY DEF ToSet
  <1> QED  BY <1>2, <1>3 DEF Good

LEMMA Edited ==
    ASSUME Inv, Good(snip', ins'), state = "idle", fresh' = fresh, todo' = todo, valid' = FALSE,
           \/ state' = state /\ run' = "none"
           \/ state' = "running" /\ run' = "validate" /\ passes' = Pipelines["validate"]
    PROVE  Inv'
  <1>1. Control /\ fresh = FALSE /\ todo = << >>
    BY DEF Inv, Control
  <1>2. Typed' /\ Addressed'
    BY <1>1, EmptySeq DEF Typed, Addressed, Listed, Good
  <1>3. Control'
    <2>1. CASE state' = state
      BY <1>1, <2>1 DEF Control
    <2>2. CASE state' = "running" /\ run' = "validate" /\ passes' = Pipelines["validate"]
      BY <1>1, <2>2, PipelineIsRest DEF Control, Names
    <2> QED  BY <2>1, <2>2
  <1>4. Visits' /\ InPlace'
    BY <1>1 DEF Visits, InPass, InPlace
  <1>5. Rewrites'
    <2>1. state' = "running" => Len(passes') = 7
      BY Registered
    <2> QED  BY <2>1 DEF Rewrites
  <1>6. ValidateSucceeds'
    BY DEF ValidateSucceeds
  <1> QED  BY <1>2, <1>3, <1>4, <1>5, <1>6 DEF Inv

LEMMA StartStep ==
    ASSUME Inv, NEW p \in Names, Start(p)
    PROVE  Inv'
  <1>1. Typed /\ Control /\ Addressed /\ InPlace /\ fresh = FALSE
    BY DEF Inv, Control, Start
  <1>2. /\ snip' = snip /\ ins' = ins /\ fresh' = fresh /\ todo' = todo
        /\ state' = "running" /\ run' = p /\ passes' = Pipelines[p] /\ valid' = (valid /\ p = "encode")
    BY DEF Start
  <1>3. Typed' /\ Addressed'
    BY <1>1, <1>2 DEF Typed, Addressed, Listed
  <1>4. Control'
    BY <1>1, <1>2, PipelineIsRest DEF Control
  <1>5. Visits' /\ ValidateSucceeds'
    BY <1>1, <1>2 DEF Visits, InPass, ValidateSucceeds
  <1>6. Rewrites'
    <2>1. p = "validate" => Len(passes') = 7
      BY <1>2, Registered
    <2> QED  BY <1>2, <2>1 DEF Rewrites
  <1>7. InPlace'
    BY <1>1, <1>2 DEF InPlace, Listed, AddressAt, BytesBefore, NewOffset, OffsetBetween
  <1> QED  BY <1>3, <1>4, <1>5, <1>6, <1>7 DEF Inv

LEMMA InitInv == Init => Inv
  <1> SUFFICES ASSUME Init PROVE Inv
    OBVIOUS
  <1>1. PICK n \in 0..Cardinality(Obj) :
        \E list \in {s \in [1..n -> Obj] : IsInjective(s)}, code \in [1..n -> Requests(Decoded)] :
           snip = list /\ ins = AsDecoded(list, code)
    BY DEF Init
  <1>2. PICK list \in {s \in [1..n -> Obj] : IsInjective(s)}, code \in [1..n -> Requests(Decoded)] :
           snip = list /\ ins = AsDecoded(list, code)
    BY <1>1
  <1>4. n \in Nat /\ IsInjective(list) /\ list \in [1..n -> Obj]
    BY PipelineAssumption, FS_CardinalityType
  <1>5. list \in Seq(Obj) /\ DOMAIN list = 1..n
    <2>1. list = [k \in 1..n |-> list[k]] /\ \A k \in 1..n : list[k] \in Obj
      BY <1>4
    <2> QED  BY <1>4, <2>1, IsASeq
  <1> DEFINE At(o)  == CHOOSE k \in DOMAIN list : list[k] = o
             raw    == [o \in Obj |-> IF o \in ToSet(list)
                                     THEN [Blank EXCEPT !.kind = code[At(o)].kind, !.taddr = code[At(o)].taddr]
                                     ELSE Blank]
             placed == Placed(list, raw)
  <1>3. /\ snip = list
        /\ ins = [o \in Obj |-> IF raw[o].kind \in Immediate
                      THEN [placed[o] EXCEPT !.imm = placed[o].taddr - (placed[o].addr + Length(placed[o]))]
                      ELSE placed[o]]
    BY <1>2 DEF AsDecoded
  <1>6. ASSUME NEW o \in Obj PROVE raw[o] \in Instr /\ raw[o].target = Null
    <2>1. CASE o \in ToSet(list)
      <3>1. \E k \in 1..n : list[k] = o
        BY <1>5, <2>1 DEF ToSet
      <3>2. At(o) \in 1..n
        BY <1>5, <3>1
      <3> DEFINE r == code[At(o)]
      <3>3. r \in Requests(Decoded)
        BY <3>2
      <3> HIDE DEF r
      <3>4. r.kind \in Available /\ r.taddr \in Nat
        <4>1. CASE r \in [kind : Decoded \cap Immediate, taddr : Targets]
          <5>1. r.kind \in Decoded /\ r.taddr \in Targets
            BY <4>1
          <5> QED  BY <5>1, PipelineAssumption DEF Available
        <4>2. CASE r \in [kind : Decoded \ Immediate, taddr : {ADDRESS_INVALID}]
          <5>1. r.kind \in Decoded /\ r.taddr = ADDRESS_INVALID
            BY <4>2
          <5> QED  BY <5>1, PipelineAssumption DEF ADDRESS_INVALID, Available
        <4> QED  BY <3>3, <4>1, <4>2 DEF Requests
      <3>5. raw[o] = [Blank EXCEPT !.kind = r.kind, !.taddr = r.taddr]
        BY <2>1 DEF r
      <3> HIDE DEF raw
      <3>6. raw[o] = [kind |-> r.kind, target |-> Null, taddr |-> r.taddr, addr |-> 0, imm |-> 0]
        BY <3>5 DEF Blank
      <3> QED  BY <3>4, <3>6 DEF Instr
    <2>2. CASE o \notin ToSet(list)
      <3>1. raw[o] = Blank
        BY <2>2
      <3> QED  BY <3>1 DEF Blank, Instr, Available, ADDRESS_INVALID
    <2> QED  BY <2>1, <2>2
  <1>7. raw \in [Obj -> Instr]
    BY <1>6
  <1> HIDE DEF raw, At
  <1>8. /\ placed \in [Obj -> Instr]
        /\ \A k \in 1..n : placed[list[k]] = [raw[list[k]] EXCEPT !.addr = AddressAt(list, raw, k)]
        /\ \A o \in Obj \ ToSet(list) : placed[o] = raw[o]
    BY <1>4, <1>5, <1>7, PlacedFacts
  <1> HIDE DEF placed
  <1>9. ASSUME NEW o \in Obj PROVE placed[o].target = Null
    <2>1. CASE o \in ToSet(list)
      <3>1. PICK k \in 1..n : list[k] = o
        BY <1>5, <2>1 DEF ToSet
      <3>2. placed[o] = [raw[o] EXCEPT !.addr = AddressAt(list, raw, k)]
        BY <1>8, <3>1
      <3> QED  BY <1>6, <3>2 DEF Instr
    <2>2. CASE o \notin ToSet(list)
      BY <1>6, <1>8, <2>2
    <2> QED  BY <2>1, <2>2
  <1>10. ASSUME NEW k \in 1..n PROVE placed[list[k]].addr # 0
    <2>1. list[k] \in Obj
      BY <1>4
    <2>2. AddressAt(list, raw, k) \in Nat \ {0}
      BY <1>4, <1>5, AddressFacts, LenProperties
    <2>3. placed[list[k]] = [raw[list[k]] EXCEPT !.addr = AddressAt(list, raw, k)] /\ raw[list[k]] \in Instr
      BY <1>6, <1>8, <2>1
    <2> QED  BY <2>2, <2>3 DEF Instr
  <1>11. ASSUME NEW o \in Obj
         PROVE  ins[o] \in Instr /\ ins[o].target = placed[o].target /\ ins[o].addr = placed[o].addr
    <2>1. placed[o] \in Instr
      BY <1>8
    <2> DEFINE imm == placed[o].taddr - (placed[o].addr + Length(placed[o]))
    <2>2. imm \in Int
      BY <2>1 DEF Instr, Length
    <2>3. ins[o] = [placed[o] EXCEPT !.imm = imm] \/ ins[o] = placed[o]
      BY <1>3
    <2> QED  BY <2>1, <2>2, <2>3 DEF Instr
  <1>12. ins \in [Obj -> Instr]
    BY <1>3, <1>11
  <1>13. Good(snip, ins)
    <2>1. \A o \in Obj : ins[o].target = Null
      BY <1>9, <1>11
    <2>2. \A k \in 1..n : ins[list[k]].addr # 0
      BY <1>4, <1>10, <1>11
    <2> QED  BY <1>3, <1>4, <1>12, <2>1, <2>2, GoodFresh
  <1>14. fresh = FALSE /\ todo = << >> /\ valid = FALSE /\ state = "idle" /\ rc = 0
    BY DEF Init
  <1> QED  BY <1>13, <1>14, EmptySeq DEF Inv, Typed, Addressed, Listed, Good, Control, Visits, Rewrites,
                                       InPass, InPlace, ValidateSucceeds

LEMMA StepInv ==
    ASSUME Inv, Step
    PROVE  Inv'
  BY MetadataStep, InstructionsStep, OperandsStep, JumpOperandsStep, JumpTargetsStep, RipRelativeStep,
     JumpOffsetsStep DEF Step

LEMMA ClientInsertStep ==
    ASSUME Inv, ClientInsert
    PROVE  Inv'
  <1>1. Good(snip, ins) /\ \A o \in Listed : o \in Obj /\ Sound(ins[o])
    BY GoodNow DEF Inv
  <1>2. PICK o \in Obj \ Listed, k \in 1..(Len(snip) + 1),
             i \in {New(r.kind, r.taddr) : r \in Requests(Created)} \cup {ins[t] : t \in Listed} :
             snip' = InsertAt(snip, k, o) /\ ins' = [ins EXCEPT ![o] = i]
    BY DEF ClientInsert
  <1>3. Created \in SUBSET Available
    BY DEF Available
  <1>4. Sound(i)
    BY <1>1, <1>2, <1>3, NewFacts
  <1>5. Good(snip', ins')
    BY <1>1, <1>2, <1>4, GoodInsert DEF Listed
  <1> QED  BY <1>5, Edited DEF ClientInsert, Changed

LEMMA ClientRemoveStep ==
    ASSUME Inv, ClientRemove
    PROVE  Inv'
  <1>1. Good(snip, ins)
    BY GoodNow DEF Inv
  <1>2. PICK k \in DOMAIN snip : snip' = RemoveAt(snip, k) /\ ins' = [ins EXCEPT ![snip[k]] = Freed(@)]
    BY DEF ClientRemove
  <1>3. Good(snip', ins')
    BY <1>1, <1>2, GoodRemove
  <1> QED  BY <1>3, Edited DEF ClientRemove, Changed

LEMMA ClientSwapStep ==
    ASSUME Inv, ClientSwap
    PROVE  Inv'
  <1>1. Good(snip, ins)
    BY GoodNow DEF Inv
  <1>2. PICK j \in DOMAIN snip, k \in DOMAIN snip :
           snip' = [snip EXCEPT ![j] = snip[k], ![k] = snip[j]] /\ ins' = ins
    BY DEF ClientSwap
  <1>3. Good(snip', ins')
    BY <1>1, <1>2, GoodSwap
  <1> QED  BY <1>3, Edited DEF ClientSwap, Changed

LEMMA NextInv ==
    ASSUME Inv, [Next]_vars
    PROVE  Inv'
  <1>1. CASE UNCHANGED vars
    BY <1>1, Unchanged DEF vars
  <1>2. CASE \E p \in DOMAIN Pipelines : Start(p)
    BY <1>2, StartStep, Registered
  <1> QED  BY <1>1, <1>2, StepInv, ClientInsertStep, ClientRemoveStep, ClientSwapStep DEF Next

LEMMA ValidatesStep ==
    ASSUME Inv, Mutated, NEW list, NEW f, Good(list, f), Validates(list, f)
    PROVE  Inv'
  <1>1. Good(snip', ins')
    BY DEF Validates
  <1> QED  BY <1>1, Edited DEF Mutated, Validates

LEMMA BreaksStep ==
    ASSUME Inv, Mutated, NEW f, Good(snip, f), Breaks(f)
    PROVE  Inv'
  <1>1. Good(snip', ins')
    BY DEF Breaks
  <1> QED  BY <1>1, Edited DEF Mutated, Breaks

LEMMA ReturnsStep ==
    ASSUME Inv, Mutated, Returns \/ IsLost
    PROVE  Inv'
  BY Unchanged DEF Mutated, Returns, IsLost

LEMMA MutatorKinds ==
    /\ GeneratedKinds \in SUBSET Available /\ RandomKinds \in SUBSET Available /\ "plain" \in Available
    /\ \A kinds \in SUBSET Available : \A i \in Generated(kinds) : Sound(i)
  <1>1. Created \subseteq Available
    BY DEF Available
  <1>2. \A kinds \in SUBSET Available : \A i \in Generated(kinds) : Sound(i)
    BY NewFacts DEF Generated
  <1> QED  BY <1>1, <1>2 DEF GeneratedKinds, RandomKinds, Available

LEMMA AddStep ==
    ASSUME Inv, NEW kinds \in SUBSET Available, Add(kinds)
    PROVE  Inv'
  <1>1. Good(snip, ins)
    BY GoodNow DEF Inv
  <1>2. ASSUME NEW o \in Obj \ Listed, NEW k \in 0..Len(snip), NEW i \in Generated(kinds), Mutated,
               Validates(Inserted(o, k), [ins EXCEPT ![o] = i])
        PROVE  Inv'
    <2>1. Good(Inserted(o, k), [ins EXCEPT ![o] = i])
      BY <1>1, MutatorKinds, GoodInserted DEF Listed
    <2> QED  BY <1>2, <2>1, ValidatesStep
  <1> QED  BY <1>2, ReturnsStep DEF Add

LEMMA MutRemoveStep ==
    ASSUME Inv, MutRemove
    PROVE  Inv'
  <1>1. Good(snip, ins)
    BY GoodNow DEF Inv
  <1>2. ASSUME NEW k \in DOMAIN snip, Mutated,
               Validates(RemoveAt(snip, k), [ins EXCEPT ![snip[k]] = Freed(@)])
        PROVE  Inv'
    BY <1>1, <1>2, GoodRemove, ValidatesStep
  <1> QED  BY <1>2, ReturnsStep DEF MutRemove

LEMMA MutReplaceStep ==
    ASSUME Inv, MutReplace \/ MutReplaceNop
    PROVE  Inv'
  <1>1. Good(snip, ins)
    BY GoodNow DEF Inv
  <1>2. ASSUME NEW o \in Listed, NEW i, Sound(i), Mutated, Validates(snip, [ins EXCEPT ![o] = i])
        PROVE  Inv'
    <2>1. Good(snip, [ins EXCEPT ![o] = i])
      BY <1>1, <1>2, GoodReplace DEF Listed
    <2> QED  BY <1>2, <2>1, ValidatesStep
  <1>3. CASE MutReplace
    BY <1>2, <1>3, MutatorKinds, ReturnsStep DEF MutReplace
  <1>4. CASE MutReplaceNop
    <2>1. Sound(New("plain", ADDRESS_INVALID))
      <3>1. [kind |-> "plain", taddr |-> ADDRESS_INVALID] \in Requests({"plain"})
        BY DEF Requests, Immediate
      <3> QED  BY <3>1, MutatorKinds, NewFacts
    <2> QED  BY <1>2, <1>4, <2>1, ReturnsStep DEF MutReplaceNop
  <1> QED  BY <1>3, <1>4

LEMMA MutRepeatStep ==
    ASSUME Inv, MutRepeat
    PROVE  Inv'
  <1>1. Good(snip, ins) /\ \A o \in Listed : Sound(ins[o])
    BY GoodNow DEF Inv
  <1>2. ASSUME NEW o \in Obj \ Listed, NEW k \in DOMAIN snip, Mutated,
               Validates(Inserted(o, k - 1), [ins EXCEPT ![o] = ins[snip[k]]])
        PROVE  Inv'
    <2>1. k - 1 \in 0..Len(snip) /\ snip[k] \in Listed
      BY <1>1, LenProperties DEF Good, Listed, ToSet
    <2>2. Good(Inserted(o, k - 1), [ins EXCEPT ![o] = ins[snip[k]]])
      BY <1>1, <2>1, GoodInserted DEF Listed
    <2> QED  BY <1>2, <2>2, ValidatesStep
  <1> QED  BY <1>2, ReturnsStep DEF MutRepeat

LEMMA MutSwapStep ==
    ASSUME Inv, MutSwap
    PROVE  Inv'
  <1>1. Good(snip, ins)
    BY GoodNow DEF Inv
  <1>2. ASSUME NEW j \in DOMAIN snip, NEW k \in DOMAIN snip, Mutated,
               Validates([snip EXCEPT ![j] = snip[k], ![k] = snip[j]], ins)
        PROVE  Inv'
    BY <1>1, <1>2, GoodSwap, ValidatesStep
  <1> QED  BY <1>2, ReturnsStep DEF MutSwap

(* An instruction of the list that create_instruction could not generate *)
LEMMA Broken ==
    ASSUME Good(snip, ins), NEW o \in Listed
    PROVE  Good(snip, [ins EXCEPT ![o].kind = "broken"])
  <1>1. o \in Obj /\ o \in ToSet(snip) /\ Sound(ins[o]) /\ ins \in [Obj -> Instr]
    BY ListedObj DEF Good, Listed, Sound
  <1>2. Sound([ins[o] EXCEPT !.kind = "broken"])
    BY <1>1 DEF Sound, Instr, Available
  <1> QED  BY <1>1, <1>2, GoodReplace

LEMMA MutArgsStep ==
    ASSUME Inv, MutReplaceArgs \/ MutRandomizeArgs \/ MutSwapArgs
    PROVE  Inv'
  <1>1. Good(snip, ins) /\ \A o \in Listed : o \in Obj /\ Sound(ins[o])
    BY GoodNow DEF Inv
  <1>2. CASE MutReplaceArgs
    <2>1. ASSUME NEW o \in Listed, NEW i \in Generated(SameMnemonic(o)), Mutated,
                 Validates(snip, [ins EXCEPT ![o] = IF i.kind \in Immediate THEN i
                                                    ELSE [i EXCEPT !.taddr = ins[o].taddr]])
          PROVE  Inv'
      <3> DEFINE j == IF i.kind \in Immediate THEN i ELSE [i EXCEPT !.taddr = ins[o].taddr]
      <3>1. SameMnemonic(o) \in SUBSET Available
        <4>1. GeneratedKinds \subseteq Available
          BY MutatorKinds
        <4>2. ins[o].kind \in Available
          BY <1>1 DEF Sound, Instr
        <4> QED  BY <4>1, <4>2 DEF SameMnemonic
      <3>2. PICK r \in Requests(SameMnemonic(o)) : i = New(r.kind, r.taddr)
        BY <2>1 DEF Generated
      <3>3. Sound(i) /\ i.target = Null
        BY <3>1, <3>2, NewFacts
      <3>4. ins[o] \in Instr /\ ins[o].taddr \in Nat
        BY <1>1 DEF Sound, Instr
      <3>5. Sound(j)
        BY <3>3, <3>4 DEF Sound, Instr
      <3>6. Good(snip, [ins EXCEPT ![o] = j])
        BY <1>1, <3>5, GoodReplace DEF Listed
      <3> QED  BY <2>1, <3>6, ValidatesStep
    <2>2. ASSUME NEW o \in Listed, Mutated, Breaks([ins EXCEPT ![o].kind = "broken"])
          PROVE  Inv'
      BY <1>1, <2>2, Broken, BreaksStep
    <2> QED  BY <1>2, <2>1, <2>2, ReturnsStep DEF MutReplaceArgs
  <1>3. CASE MutRandomizeArgs
    BY <1>3, ReturnsStep DEF MutRandomizeArgs
  <1>4. CASE MutSwapArgs
    <2>1. ASSUME NEW o \in Listed, Mutated, Validates(snip, [ins EXCEPT ![o].kind = "broken"])
          PROVE  Inv'
      BY <1>1, <2>1, Broken, ValidatesStep
    <2>2. ASSUME Mutated, Validates(snip, ins) PROVE Inv'
      BY <1>1, <2>2, ValidatesStep
    <2> QED  BY <1>4, <2>1, <2>2, ReturnsStep DEF MutSwapArgs
  <1> QED  BY <1>2, <1>3, <1>4

LEMMA CreateSnippetStep ==
    ASSUME Inv, CreateSnippet
    PROVE  Inv'
  <1>1. Good(snip, ins) /\ Mutated
    BY GoodNow DEF Inv, CreateSnippet
  <1> DEFINE kinds == GeneratedKinds \cup RandomKinds
  <1>2. PICK n \in 0..Cardinality(Obj) :
        \E list \in {s \in [1..n -> Obj] : IsInjective(s)}, new \in [1..n -> Generated(kinds)] :
           Validates(list, [o \in Obj |->
               IF o \in Range(list) THEN new[CHOOSE k \in 1..n : list[k] = o] ELSE ins[o]])
    BY DEF CreateSnippet
  <1>3. PICK list \in {s \in [1..n -> Obj] : IsInjective(s)}, new \in [1..n -> Generated(kinds)] :
           Validates(list, [o \in Obj |->
               IF o \in Range(list) THEN new[CHOOSE k \in 1..n : list[k] = o] ELSE ins[o]])
    BY <1>2
  <1> DEFINE f == [o \in Obj |->
                     IF o \in Range(list) THEN new[CHOOSE k \in 1..n : list[k] = o] ELSE ins[o]]
  <1>4. n \in Nat /\ IsInjective(list) /\ list \in [1..n -> Obj]
    BY PipelineAssumption, FS_CardinalityType
  <1>5. \A k \in 1..n : Sound(new[k])
    BY MutatorKinds
  <1>6. ASSUME NEW o \in Obj
        PROVE  /\ f[o] \in Instr /\ (f[o].target # Null => f[o].taddr # ADDRESS_INVALID)
               /\ o \in Range(list) => f[o].addr # 0
    <2>1. CASE o \in Range(list)
      <3>1. \E k \in 1..n : list[k] = o
        BY <1>4, <2>1 DEF Range
      <3>2. Sound(f[o])
        BY <1>5, <2>1, <3>1
      <3> QED  BY <3>2 DEF Sound
    <2>2. CASE o \notin Range(list)
      BY <1>1, <2>2 DEF Good
    <2> QED  BY <2>1, <2>2
  <1>7. f \in [Obj -> Instr]
    BY <1>6
  <1>8. \A k \in 1..n : list[k] \in Obj /\ list[k] \in Range(list)
    BY <1>4 DEF Range
  <1>9. Validates(list, f)
    BY <1>3
  <1> HIDE DEF f
  <1>10. Good(list, f)
    BY <1>4, <1>6, <1>7, <1>8, GoodFresh
  <1> QED  BY <1>1, <1>9, <1>10, ValidatesStep

LEMMA MutatorNextInv ==
    ASSUME Inv, [MutatorNext]_vars
    PROVE  Inv'
  <1>1. CASE UNCHANGED vars
    BY <1>1, Unchanged DEF vars
  <1>2. CASE MutAddRand \/ MutAddDet \/ MutAddJmp \/ MutAddVzeroupper
    <2>1. \A kinds \in SUBSET Available : Add(kinds) => Inv'
      BY AddStep
    <2>2. /\ RandomKinds \in SUBSET Available /\ GeneratedKinds \cup RandomKinds \in SUBSET Available
          /\ (GeneratedKinds \cap Jumps) \cup RandomKinds \in SUBSET Available
          /\ {"plain"} \cup RandomKinds \in SUBSET Available
      BY MutatorKinds
    <2> QED  BY <1>2, <2>1, <2>2 DEF MutAddRand, MutAddDet, MutAddJmp, MutAddVzeroupper
  <1>3. CASE MutUnsupported
    BY <1>3, ReturnsStep DEF MutUnsupported
  <1>4. CASE \E p \in {"encode", "decode"} : Start(p)
    BY <1>4, StartStep DEF Names
  <1> QED  BY <1>1, <1>2, <1>3, <1>4, StepInv, MutRemoveStep, MutReplaceStep, MutRepeatStep, MutSwapStep,
              MutArgsStep, CreateSnippetStep DEF MutatorNext, MutateSnippet

-----------------------------------------------------------------------------
(***************************************************************************)
(* What follows                                                            *)
(***************************************************************************)

(* The invariant holds in both specifications. *)
THEOREM PipelineInv == Spec => []Inv
  <1>1. Inv /\ [Next]_vars => Inv'
    BY NextInv
  <1> QED  BY InitInv, <1>1, PTL DEF Spec

THEOREM MutatorInv == MutatorSpec => []Inv
  <1>1. Inv /\ [MutatorNext]_vars => Inv'
    BY MutatorNextInv
  <1> QED  BY InitInv, <1>1, PTL DEF MutatorSpec

(***************************************************************************)
(* pipeline_validate never returns an error, whatever clients or           *)
(* mutations did to the snippet before.                                    *)
(***************************************************************************)
THEOREM ValidateNeverFails == Spec => []ValidateSucceeds
  BY PipelineInv, PTL DEF Inv

THEOREM ValidateNeverFailsMutating == MutatorSpec => []ValidateSucceeds
  BY MutatorInv, PTL DEF Inv

(***************************************************************************)
(* After pipeline_validate, and pipeline_encode after it, the              *)
(* instructions lie one behind the other and encode, and every jump leads  *)
(* to its target.                                                          *)
(***************************************************************************)
LEMMA InvLands ==
    ASSUME Inv
    PROVE  Lands
  <1>1. Typed /\ InPlace
    BY DEF Inv
  <1> SUFFICES ASSUME valid PROVE LandsIn(snip)
    BY DEF Lands
  <1>2. \A k \in DOMAIN snip : snip[k] \in Listed
    BY DEF Listed, ToSet
  <1>3. Listed \subseteq Obj
    BY <1>1, ListedObj DEF Typed, Listed
  <1>4. ASSUME NEW o \in Listed, ins[o].kind \in Jumps
        PROVE  /\ ins[o].kind \in Immediate
               /\ ins[o].target \in Listed =>
                     ins[o].addr + Length(ins[o]) + ins[o].imm = ins[ins[o].target].addr
    <2>1. ins[o].kind = "near" /\ ins[o].imm = NewOffset(ins, o)
      BY <1>1, <1>4 DEF InPlace
    <2>2. ins[o] \in Instr
      BY <1>1, <1>3 DEF Typed
    <2>3. ASSUME ins[o].target \in Listed PROVE ins[ins[o].target] \in Instr
      BY <1>1, <1>3, <2>3 DEF Typed
    <2> QED  BY <2>1, <2>2, <2>3 DEF NewOffset, OffsetBetween, Length, Instr, Immediate
  <1> QED  BY <1>1, <1>2, <1>4 DEF LandsIn, InPlace, Listed

THEOREM JumpsLand == Spec => []Lands
  <1>1. Inv => Lands
    BY InvLands
  <1> QED  BY <1>1, PipelineInv, PTL

(***************************************************************************)
(* pipeline_encode changes nothing in a snippet that is valid.             *)
(***************************************************************************)
LEMMA ValidStays ==
    ASSUME Inv, valid, state = "running", Next
    PROVE  snip' = snip /\ ins' = ins
  <1>1. Typed /\ Control /\ Addressed /\ InPlace
    BY DEF Inv
  <1>2. run = "encode" /\ Head(passes) = "jump_offsets"
    BY <1>1, PassFacts DEF Control
  <1>3. CASE ValidateMetadata
    BY <1>1, <1>3, MetadataOfValid DEF ValidateMetadata
  <1>4. CASE ValidateJumpOffsets
    BY <1>1, <1>4, OffsetsOfValid
  <1> QED  BY <1>2, <1>3, <1>4 DEF Next, Step, ClientInsert, ClientRemove, ClientSwap, Changed, Start,
              ValidateInstructions, ValidateOperands, ValidateJumpOperands, ValidateJumpTargets,
              ValidateRipRelative, InPass

THEOREM ValidIsKept == Spec => EncodeKeepsValid
  <1>1. Inv /\ [Next]_vars => [valid /\ state = "running" => UNCHANGED <<snip, ins>>]_vars
    BY ValidStays
  <1> QED  BY <1>1, PipelineInv, PTL DEF Spec, EncodeKeepsValid

(***************************************************************************)
(* Types, and the walks of validate_jump_operands and                      *)
(* validate_jump_targets over jumps of the list                            *)
(***************************************************************************)
Counted == rc \in {0, -1} /\ edits \in 0..MaxEdits /\ (passes # << >> <=> state # "idle")

LEMMA CountedNext ==
    ASSUME Inv, Inv', Counted, [Next]_vars
    PROVE  Counted'
  <1>1. Control /\ Control' /\ MaxEdits \in Nat
    BY PipelineAssumption DEF Inv
  <1>2. state = "running" /\ state' = "running" => passes' # << >>
    BY <1>1, PassFacts, RestFacts DEF Control
  <1>3. CASE PassEnds /\ state = "running"
    <2>1. passes # << >> /\ Len(passes) \in 1..7
      BY <1>1, <1>3, PassFacts
    <2>2. CASE Len(passes) = 1
      <3>1. PICK n \in 1..Len(Pipelines[run]) : passes = Rest(run, n)
        BY <1>1, <1>3 DEF Control
      <3>2. passes = [i \in 1..1 |-> passes[i]]
        <4>1. run \in Names /\ Len(Pipelines[run]) \in Nat
          BY <1>1, <1>3, Registered DEF Control, Names
        <4>2. Len(Pipelines[run]) - n + 1 = 1
          BY <2>2, <3>1, <4>1, RestFacts
        <4> QED  BY <3>1, <4>2 DEF Rest
      <3>3. passes \in Seq({passes[1]}) /\ Len(passes) = 1
        BY <2>2, <3>2, IsASeq
      <3>4. Tail(passes) \in Seq({passes[1]}) /\ Len(Tail(passes)) = 0
        BY <2>1, <3>3, HeadTailProperties
      <3>5. Tail(passes) = << >>
        BY <3>4, EmptySeq
      <3> QED  BY <1>3, <2>2, <3>5 DEF PassEnds, Counted
    <2>3. CASE Len(passes) # 1
      BY <1>2, <1>3, <2>3 DEF PassEnds, Counted
    <2> QED  BY <2>2, <2>3
  <1>4. CASE PassFails
    BY <1>4 DEF PassFails, Counted
  <1>5. CASE PassGoesOn
    BY <1>5 DEF PassGoesOn, Counted
  <1>6. CASE Abort /\ state = "running"
    BY <1>6 DEF Abort, Counted
  <1>7. CASE Step
    BY <1>3, <1>4, <1>5, <1>6, <1>7 DEF Step, ValidateMetadata, ValidateInstructions, ValidateOperands,
       ValidateJumpOperands, ValidateJumpTargets, ValidateRipRelative, ValidateJumpOffsets, InPass, Counted
  <1>8. CASE Changed
    BY <1>1, <1>8 DEF Changed, Counted
  <1>9. ASSUME NEW p \in Names, Start(p) PROVE Counted'
    <2>1. Pipelines[p] # << >>
      BY PipelineIsRest, RestFacts
    <2> QED  BY <1>9, <2>1 DEF Start, Counted
  <1>10. CASE UNCHANGED vars
    BY <1>10 DEF vars, Counted
  <1> QED  BY <1>7, <1>8, <1>9, <1>10, Registered DEF Next, ClientInsert, ClientRemove, ClientSwap

THEOREM PipelineTypes == Spec => []TypeOK
  <1>1. Init => Counted
    BY PipelineAssumption DEF Init, Counted
  <1>2. Inv /\ Inv' /\ Counted /\ [Next]_vars => Counted'
    BY CountedNext
  <1>3. Inv /\ Counted => TypeOK
    <2> SUFFICES ASSUME Inv, Counted PROVE TypeOK
      OBVIOUS
    <2>1. \A o \in Obj : /\ ins[o].kind \in Kinds /\ ins[o].target \in Obj \cup {Null}
                         /\ ins[o].taddr \in Nat /\ ins[o].addr \in Nat /\ ins[o].imm \in Int
      <3>1. Available \subseteq Kinds
        BY PipelineAssumption DEF Available, Kinds
      <3>2. \A o \in Obj : ins[o] \in Instr
        BY DEF Inv, Typed
      <3> QED  BY <3>1, <3>2 DEF Instr
    <2> QED  BY <2>1 DEF TypeOK, Inv, Typed, Control, Visits, Counted
  <1> QED  BY <1>1, <1>2, <1>3, PipelineInv, PTL DEF Spec

(***************************************************************************)
(* The assertions of rand_exclude fail only for a jump that is the one     *)
(* instruction of the snippet.                                             *)
(***************************************************************************)
LEMMA LoneInList ==
    ASSUME Typed, NEW o \in Listed, Listed \subseteq {o}
    PROVE  Len(snip) = 1 /\ snip[1] = o
  <1>1. Len(snip) \in Nat /\ DOMAIN snip = 1..Len(snip) /\ IsInjective(snip)
    BY LenProperties DEF Typed
  <1>2. PICK k \in DOMAIN snip : snip[k] = o
    BY DEF Listed, ToSet
  <1>3. \A i \in DOMAIN snip : snip[i] = o
    BY DEF Listed, ToSet
  <1>4. 1 \in DOMAIN snip /\ Len(snip) \in DOMAIN snip
    BY <1>1, <1>2
  <1>5. Len(snip) = 1
    BY <1>1, <1>3, <1>4 DEF IsInjective
  <1> QED  BY <1>3, <1>4, <1>5

LEMMA LoneJumpNext ==
    ASSUME Inv, OnlyLoneJumpAborts, [Next]_vars
    PROVE  OnlyLoneJumpAborts'
  <1>1. Typed /\ Visits /\ Control
    BY DEF Inv
  <1>2. CASE Abort /\ state = "running"
    <2>1. snip' = snip /\ ins' = ins
      BY <1>2 DEF Abort
    <2>2. CASE ValidateJumpOperands \/ ValidateJumpTargets
      <3> DEFINE o == Head(todo)
      <3>1. todo # << >> /\ (Len(snip) = 1 \/ Found(o) = {})
        BY <1>2, <2>2 DEF ValidateJumpOperands, ValidateJumpTargets, Abort, PassEnds, PassGoesOn, PassFails
      <3>2. o \in Listed /\ ins[o].kind \in Jumps
        BY <1>1, <2>2, <3>1, HeadOfWalk DEF Visits, Typed, ValidateJumpOperands, ValidateJumpTargets
      <3> HIDE DEF o
      <3>3. CASE Len(snip) = 1
        <4>1. snip[1] = o
          BY <1>1, <3>2, <3>3, LenProperties DEF Listed, ToSet, Typed
        <4> QED  BY <2>1, <3>2, <3>3, <4>1 DEF OnlyLoneJumpAborts
      <3>4. CASE Found(o) = {}
        <4>1. Listed \subseteq {o}
          BY <3>4 DEF Found
        <4>2. Len(snip) = 1 /\ snip[1] = o
          BY <1>1, <3>2, <4>1, LoneInList
        <4> QED  BY <2>1, <3>2, <4>2 DEF OnlyLoneJumpAborts
      <3> QED  BY <3>1, <3>3, <3>4
    <2>3. CASE ~(ValidateJumpOperands \/ ValidateJumpTargets)
      BY <1>2, <2>3 DEF Abort, Next, Step, ClientInsert, ClientRemove, ClientSwap, Changed, Start,
         ValidateMetadata, ValidateInstructions, ValidateOperands, ValidateRipRelative,
         ValidateJumpOffsets, PassEnds, PassGoesOn, PassFails, vars
    <2> QED  BY <2>2, <2>3
  <1>3. CASE UNCHANGED vars
    BY <1>3 DEF vars, OnlyLoneJumpAborts
  <1>4. CASE Next /\ ~(Abort /\ state = "running")
    <2>1. state' # "aborted"
      BY <1>4 DEF Next, Step, ClientInsert, ClientRemove, ClientSwap, Changed, Start, InPass,
         ValidateMetadata, ValidateInstructions, ValidateOperands, ValidateJumpOperands,
         ValidateJumpTargets, ValidateRipRelative, ValidateJumpOffsets, PassEnds, PassGoesOn, PassFails
    <2> QED  BY <2>1 DEF OnlyLoneJumpAborts
  <1> QED  BY <1>2, <1>3, <1>4

THEOREM OnlyLoneJumps == Spec => []OnlyLoneJumpAborts
  <1>1. Init => OnlyLoneJumpAborts
    BY DEF Init, OnlyLoneJumpAborts
  <1>2. Inv /\ OnlyLoneJumpAborts /\ [Next]_vars => OnlyLoneJumpAborts'
    BY LoneJumpNext
  <1> QED  BY <1>1, <1>2, PipelineInv, PTL DEF Spec

(***************************************************************************)
(* A pipeline that returned 0 leaves instructions that encode.             *)
(***************************************************************************)
Encoding ==
    /\ state = "running" /\ run = "decode" /\ fresh => \A o \in Listed : Encodes(ins[o])
    /\ EncodesAfterPipeline

LEMMA EncodingStep ==
    ASSUME Inv, Encoding, Step
    PROVE  Encoding'
  <1>1. Typed /\ Control /\ Addressed /\ Visits /\ Listed \subseteq Obj
    BY ListedObj DEF Inv, Typed, Listed
  <1>2. CASE ValidateMetadata
    <2> DEFINE e == Encodable(snip, ins)
               m == Metadata(snip, ins)
    <2>1. e = Encodable(snip, ins) /\ m = Metadata(snip, ins)
      OBVIOUS
    <2> HIDE DEF e, m
    <2>2. snip' = e /\ ins' = m /\ state' = "running"
      BY <1>2, <2>1 DEF ValidateMetadata
    <2>3. \A o \in ToSet(e) : Encodes(m[o])
      BY <1>1, <2>1, MetadataKeeps
    <2> QED  BY <2>2, <2>3 DEF Encoding, EncodesAfterPipeline, Listed
  <1>3. CASE ValidateJumpTargets
    <2>1. state = "running" /\ fresh = TRUE /\ snip' = snip /\ Head(passes) = "jump_targets" /\ run' = run
      BY <1>1, <1>3 DEF ValidateJumpTargets, InPass, Control, PassEnds, PassFails, PassGoesOn, Abort
    <2>2. \A o \in Obj : ins'[o].kind = ins[o].kind /\ ins'[o].imm = ins[o].imm
      <3>1. ins' = ins \/ \E o, t : ins' = [ins EXCEPT ![o].target = t]
        BY <1>3 DEF ValidateJumpTargets, Abort
      <3>2. \A o \in Obj : ins[o] \in Instr
        BY <1>1 DEF Typed
      <3>3. ASSUME NEW o, NEW t, ins' = [ins EXCEPT ![o].target = t], NEW x \in Obj
            PROVE  ins'[x].kind = ins[x].kind /\ ins'[x].imm = ins[x].imm
        <4>1. ins'[x] = ins[x] \/ ins'[x] = [ins[x] EXCEPT !.target = t]
          BY <1>1, <3>3 DEF Typed
        <4> QED  BY <3>2, <4>1 DEF Instr
      <3> QED  BY <3>1, <3>3
    <2>3. (\A o \in Listed : Encodes(ins[o])) => \A o \in Listed' : Encodes(ins'[o])
      BY <1>1, <2>1, <2>2 DEF Encodes, Listed
    <2>4. CASE run = "decode"
      BY <2>1, <2>3, <2>4 DEF Encoding, EncodesAfterPipeline
    <2>5. CASE run # "decode"
      <3>1. Len(passes) # 1
        BY <1>1, <2>1, <2>5, PassFacts DEF Names
      <3>2. state' # "idle" \/ rc' = -1
        BY <1>3, <2>1, <3>1 DEF ValidateJumpTargets, PassEnds, PassFails, PassGoesOn, Abort
      <3> QED  BY <2>1, <2>5, <3>2 DEF Encoding, EncodesAfterPipeline
    <2> QED  BY <2>4, <2>5
  <1>4. CASE ValidateJumpOffsets
    <2> DEFINE e == Encodable(snip, ins)
               m == Metadata(snip, ins)
    <2>1. e = Encodable(snip, ins) /\ m = Metadata(snip, ins)
      OBVIOUS
    <2> HIDE DEF e, m
    <2>2. state = "running" /\ fresh = TRUE /\ Head(passes) = "jump_offsets"
      BY <1>1, <1>4 DEF ValidateJumpOffsets, InPass, Control
    <2>3. run # "decode"
      BY <1>1, <2>2, PassFacts
    <2>4. ToSet(e) \subseteq Listed /\ \A o \in ToSet(e) : Encodes(m[o])
      BY <1>1, <2>1, MetadataKeeps
    <2>5. /\ snip' = e
          /\ \A o \in Obj : ins'[o].kind = m[o].kind
          /\ \/ PassFails
             \/ PassGoesOn
             \/ PassEnds /\ \A o \in ToSet(e) : m[o].imm = ins'[o].imm
      BY <1>1, <1>4, <2>1, JumpOffsetsFacts
    <2>6. CASE PassFails
      BY <2>3, <2>6 DEF PassFails, Encoding, EncodesAfterPipeline
    <2>7. CASE PassGoesOn
      BY <2>2, <2>3, <2>7 DEF PassGoesOn, Encoding, EncodesAfterPipeline
    <2>8. CASE PassEnds /\ \A o \in ToSet(e) : m[o].imm = ins'[o].imm
      <3>1. \A o \in Listed' : Encodes(ins'[o])
        BY <1>1, <2>4, <2>5, <2>8 DEF Encodes, Listed
      <3> QED  BY <3>1 DEF Encoding, EncodesAfterPipeline
    <2> QED  BY <2>5, <2>6, <2>7, <2>8
  <1>5. CASE ValidateInstructions \/ ValidateOperands \/ ValidateJumpOperands \/ ValidateRipRelative
    <2>1. state = "running" /\ fresh = TRUE /\ run = "validate" /\ Len(passes) # 1
      <3>1. /\ state = "running" /\ fresh = TRUE
            /\ Head(passes) \in {"instructions", "registers", "memory", "jump_operands", "rip_relative"}
        BY <1>1, <1>5 DEF ValidateInstructions, ValidateOperands, ValidateJumpOperands,
           ValidateRipRelative, InPass, Control
      <3> QED  BY <1>1, <3>1, PassFacts DEF Names
    <2>2. PassEnds \/ PassGoesOn \/ Abort
      BY <1>5 DEF ValidateInstructions, ValidateOperands, ValidateJumpOperands, ValidateRipRelative
    <2>3. state' # "idle" /\ run' = "validate"
      BY <2>1, <2>2 DEF PassEnds, PassGoesOn, Abort
    <2> QED  BY <2>3 DEF Encoding, EncodesAfterPipeline
  <1> QED  BY <1>2, <1>3, <1>4, <1>5 DEF Step

LEMMA EncodingStays ==
    ASSUME Encoding, UNCHANGED <<snip, ins, fresh, run, rc>>,
           state' = "aborted" \/ state' = state
    PROVE  Encoding'
  BY DEF Encoding, EncodesAfterPipeline, Listed

LEMMA EncodingBegins ==
    ASSUME Inv, state = "idle", fresh' = fresh, state' = "running" \/ run' = "none"
    PROVE  Encoding'
  BY DEF Encoding, EncodesAfterPipeline, Inv, Control

LEMMA EncodingNext ==
    ASSUME Inv, Encoding, [Next]_vars \/ [MutatorNext]_vars
    PROVE  Encoding'
  <1>1. CASE Step
    BY <1>1, EncodingStep
  <1>2. CASE UNCHANGED vars
    BY <1>2, EncodingStays DEF vars
  <1>3. ASSUME NEW p, Start(p) PROVE Encoding'
    BY <1>3, EncodingBegins DEF Start
  <1>4. CASE Changed
    BY <1>4, EncodingBegins DEF Changed
  <1>5. ASSUME Mutated, NEW list, NEW f, Validates(list, f) \/ Breaks(f) PROVE Encoding'
    BY <1>5, EncodingBegins DEF Mutated, Validates, Breaks
  <1>6. CASE Mutated /\ (Returns \/ IsLost)
    BY <1>6, EncodingStays DEF Mutated, Returns, IsLost
  <1>7. ASSUME NEW kinds, Add(kinds) PROVE Encoding'
    BY <1>5, <1>6, <1>7 DEF Add
  <1>8. CASE MutateSnippet
    BY <1>5, <1>6, <1>7, <1>8 DEF MutateSnippet, MutAddRand, MutAddDet, MutAddJmp, MutAddVzeroupper,
       MutRemove, MutReplace, MutReplaceNop, MutRepeat, MutSwap, MutReplaceArgs, MutRandomizeArgs,
       MutSwapArgs, MutUnsupported
  <1>9. CASE CreateSnippet
    BY <1>5, <1>9 DEF CreateSnippet
  <1> QED  BY <1>1, <1>2, <1>3, <1>4, <1>8, <1>9
           DEF Next, MutatorNext, ClientInsert, ClientRemove, ClientSwap

THEOREM PipelinesEncode == MutatorSpec => []EncodesAfterPipeline
  <1>1. Init => Encoding
    BY DEF Init, Encoding, EncodesAfterPipeline
  <1>2. Inv /\ Encoding /\ [MutatorNext]_vars => Encoding'
    BY EncodingNext
  <1>3. Encoding => EncodesAfterPipeline
    BY DEF Encoding
  <1> QED  BY <1>1, <1>2, <1>3, MutatorInv, PTL DEF MutatorSpec

(***************************************************************************)
(* The targets of jumps, with memory in reach                              *)
(***************************************************************************)

(* The kinds that are left when validate_jump_targets begins; they encode. *)
Sturdy == {"plain", "banned", "fragile", "rip", "near"}

(* From validate_jump_targets to the end of pipeline_validate nothing is    *)
(* removed, and behind the walk every jump has a target in the list.        *)
Aims(x) == ins[x].kind = "near" => ins[x].target \in Listed

Targeted ==
    /\ state = "running" /\ run = "validate" =>
          /\ Len(passes) \in {1, 2} => \A o \in Listed : ins[o].kind \in Sturdy /\ Aims(o)
          /\ Len(passes) = 3 /\ fresh =>
                \A o \in Listed : ins[o].kind \in Sturdy /\ (Aims(o) \/ o \in ToSet(todo))
    /\ valid => \A o \in Listed : Aims(o)

LEMMA KindsInReach ==
    ASSUME "far" \notin Decoded \cup Created, NEW i \in Instr
    PROVE  /\ i.kind # "far"
           /\ Encodes(i) /\ (i.kind \in Jumps => Settled(i)) => i.kind \in Sturdy
           /\ i.kind \in Sturdy => Encodes(i)
           /\ i.kind \in Sturdy \cap Jumps => i.kind = "near"
  <1>1. i.kind \in Kinds \ {"far"}
    BY PipelineAssumption DEF Instr, Available, Kinds
  <1> QED  BY <1>1 DEF Kinds, Encodes, Settled, Sturdy, Jumps, Immediate

(* What validate_metadata leaves of a list in which all encode *)
LEMMA SturdyStays ==
    ASSUME "far" \notin Decoded \cup Created, Typed, Addressed, \A o \in Listed : ins[o].kind \in Sturdy,
           NEW e, e = Encodable(snip, ins), NEW m, m = Metadata(snip, ins)
    PROVE  ToSet(e) = Listed /\ \A o \in Listed : m[o].kind = ins[o].kind /\ m[o].target = ins[o].target
  <1>1. \A o \in Listed : ins[o] \in Instr
    BY ListedObj DEF Typed, Listed
  <1>2. \A o \in Listed : Encodes(ins[o])
    BY <1>1, KindsInReach
  <1> QED  BY <1>2, MetadataKeeps, ZenonT(30) DEF Alike

LEMMA TargetedMetadata ==
    ASSUME "far" \notin Decoded \cup Created, Inv, Targeted, ValidateMetadata
    PROVE  Targeted'
  <1>1. Typed /\ Control /\ Addressed /\ Rewrites /\ InPlace
    BY DEF Inv
  <1> DEFINE e == Encodable(snip, ins)
             m == Metadata(snip, ins)
  <1>2. e = Encodable(snip, ins) /\ m = Metadata(snip, ins)
    OBVIOUS
  <1>3. /\ state = "running" /\ fresh = FALSE /\ snip' = e /\ ins' = m /\ Listed' = ToSet(e)
        /\ state' = state /\ run' = run /\ passes' = passes /\ valid' = valid
        /\ todo' = JumpsOf(e, m)
    BY <1>1 DEF ValidateMetadata, Control, Listed
  <1>4. /\ e \in Seq(Obj) /\ m \in [Obj -> Instr] /\ ToSet(e) \subseteq Listed /\ ToSet(e) \subseteq Obj
        /\ \A o \in ToSet(e) : Alike(m[o], ins[o]) /\ Encodes(m[o])
    BY <1>1, MetadataKeeps, ListedObj
  <1>5. ToSet(JumpsOf(e, m)) = {o \in ToSet(e) : m[o].kind \in Jumps}
    BY <1>4, JumpsOfFacts
  <1> HIDE DEF e, m
  <1>6. CASE run = "validate" /\ Len(passes) \in {1, 2}
    <2>1. \A o \in Listed : ins[o].kind \in Sturdy /\ Aims(o)
      BY <1>3, <1>6 DEF Targeted
    <2>2. ToSet(e) = Listed /\ \A o \in Listed : m[o].kind = ins[o].kind /\ m[o].target = ins[o].target
      BY <1>1, <1>2, <2>1, SturdyStays
    <2>3. valid = FALSE
      BY <1>1, <1>3, <1>6 DEF Control
    <2> QED  BY <1>3, <1>6, <2>1, <2>2, <2>3 DEF Targeted, Aims
  <1>7. CASE run = "validate" /\ Len(passes) = 3
    <2>1. \A o \in Listed : ins[o].kind \in Jumps => Settled(ins[o])
      <3>1. Len(passes) \notin {5, 6, 7} /\ Len(passes) # 4
        BY <1>7
      <3> QED  BY <1>1, <1>3, <1>7, <3>1, SettledBehind
    <2>2. \A o \in ToSet(e) : m[o] \in Instr /\ m[o].kind \in Sturdy
      <3> TAKE o \in ToSet(e)
      <3>1. m[o] \in Instr /\ Encodes(m[o]) /\ (m[o].kind \in Jumps => Settled(m[o]))
        BY <1>4, <2>1 DEF Alike, Settled
      <3> QED  BY <3>1, KindsInReach
    <2>3. \A o \in ToSet(e) : m[o].kind = "near" => o \in ToSet(todo')
      BY <1>3, <1>5 DEF Jumps, Immediate
    <2>4. valid = FALSE
      BY <1>1, <1>3, <1>7 DEF Control
    <2>5. Len(passes) \notin {1, 2}
      BY <1>7
    <2> QED  BY <1>3, <1>7, <2>2, <2>3, <2>4, <2>5 DEF Targeted, Aims
  <1>8. CASE ~(run = "validate" /\ Len(passes) \in {1, 2, 3})
    <2>1. valid => e = snip /\ m = ins
      BY <1>1, <1>2, MetadataOfValid
    <2> QED  BY <1>3, <1>8, <2>1 DEF Targeted, Aims, Listed
  <1> QED  BY <1>6, <1>7, <1>8

(* The passes before validate_jump_targets *)
LEMMA TargetedEarly ==
    ASSUME Inv, ValidateInstructions \/ ValidateOperands \/ ValidateJumpOperands
    PROVE  Targeted'
  <1>1. Control
    BY DEF Inv
  <1>2. /\ state = "running" /\ fresh = TRUE
        /\ Head(passes) \in {"instructions", "registers", "memory", "jump_operands"}
    BY <1>1 DEF ValidateInstructions, ValidateOperands, ValidateJumpOperands, InPass, Control
  <1>3. run = "validate" /\ Len(passes) \in {4, 5, 6, 7}
    BY <1>1, <1>2, PassFacts DEF Names
  <1>4. valid = FALSE
    BY <1>1, <1>2, <1>3 DEF Control
  <1>5. PassEnds \/ PassGoesOn \/ Abort
    BY DEF ValidateInstructions, ValidateOperands, ValidateJumpOperands
  <1>6. CASE PassEnds
    <2>1. fresh' = FALSE /\ valid' = FALSE /\ (state' = "running" => Len(passes') = Len(passes) - 1)
      BY <1>1, <1>2, <1>6, PassBeforeOffsets
    <2>2. ASSUME state' = "running" PROVE Len(passes') \notin {1, 2}
      <3>1. Len(passes') = Len(passes) - 1
        BY <2>1, <2>2
      <3>2. Len(passes') \in {3, 4, 5, 6}
        BY <1>3, <3>1
      <3> QED  BY <3>2
    <2> QED  BY <2>1, <2>2 DEF Targeted
  <1>7. CASE PassGoesOn
    BY <1>3, <1>4, <1>7 DEF PassGoesOn, Targeted
  <1>8. CASE Abort
    BY <1>4, <1>8 DEF Abort, Targeted
  <1> QED  BY <1>5, <1>6, <1>7, <1>8

LEMMA TargetedJumpTargets ==
    ASSUME "far" \notin Decoded \cup Created, Inv, Targeted, ValidateJumpTargets
    PROVE  Targeted'
  <1>1. Typed /\ Control /\ Visits /\ Listed \subseteq Obj
    BY ListedObj DEF Inv, Typed, Listed
  <1>2. state = "running" /\ fresh = TRUE /\ Head(passes) = "jump_targets"
    BY <1>1 DEF ValidateJumpTargets, InPass, Control
  <1>3. (run = "validate" => Len(passes) = 3) /\ run # "encode"
    BY <1>1, <1>2, PassFacts
  <1>4. valid = FALSE
    BY <1>1, <1>2, <1>3 DEF Control
  <1>5. run = "validate" =>
           \A x \in Listed : ins[x].kind \in Sturdy /\ (Aims(x) \/ x \in ToSet(todo))
    BY <1>2, <1>3 DEF Targeted
  <1>6. CASE todo = << >>
    <2>1. snip' = snip /\ ins' = ins /\ PassEnds
      BY <1>6 DEF ValidateJumpTargets
    <2>2. /\ fresh' = FALSE /\ run' = run /\ valid' = FALSE
          /\ state' = "running" => Len(passes') = Len(passes) - 1
      BY <1>1, <1>2, <2>1, PassBeforeOffsets
    <2>3. run = "validate" => \A x \in Listed : ins[x].kind \in Sturdy /\ Aims(x)
      BY <1>5, <1>6 DEF ToSet
    <2> QED  BY <2>1, <2>2, <2>3 DEF Targeted, Aims, Listed
  <1>7. CASE todo # << >>
    <2> DEFINE o == Head(todo)
    <2>1. \/ ins[o].kind = "indirect" /\ todo' = Tail(todo) /\ snip' = snip /\ ins' = ins /\ PassGoesOn
          \/ PassFails
          \/ /\ \E t \in Found(o) : ins' = [ins EXCEPT ![o].target = t]
             /\ todo' = Tail(todo) /\ snip' = snip /\ PassGoesOn
          \/ Abort
      BY <1>7 DEF ValidateJumpTargets
    <2>2. o \in Listed /\ o \in Obj /\ ToSet(todo) = {o} \cup ToSet(Tail(todo))
      BY <1>1, <1>2, <1>7, HeadOfWalk DEF Visits, InPass, Typed
    <2> HIDE DEF o
    <2>3. CASE ins[o].kind = "indirect" /\ todo' = Tail(todo) /\ snip' = snip /\ ins' = ins /\ PassGoesOn
      <3>1. run # "validate"
        BY <1>5, <2>2, <2>3 DEF Sturdy
      <3> QED  BY <1>4, <2>3, <3>1 DEF PassGoesOn, Targeted
    <2>4. CASE PassFails
      BY <2>4 DEF PassFails, Targeted
    <2>5. ASSUME NEW t \in Found(o), ins' = [ins EXCEPT ![o].target = t],
                 todo' = Tail(todo), snip' = snip, PassGoesOn
          PROVE  Targeted'
      <3>1. t \in Listed
        BY <2>5 DEF Found
      <3>2. \A x \in Obj : ins'[x].kind = ins[x].kind /\ (x # o => ins'[x] = ins[x])
        <4>1. \A x \in Obj : ins[x] \in Instr
          BY <1>1 DEF Typed
        <4>2. ins'[o] = [ins[o] EXCEPT !.target = t] /\ \A x \in Obj : x # o => ins'[x] = ins[x]
          BY <1>1, <2>2, <2>5 DEF Typed
        <4> QED  BY <2>2, <4>1, <4>2 DEF Instr
      <3>3. ins'[o].target = t
        <4>1. ins[o] \in Instr
          BY <1>1, <2>2 DEF Typed
        <4> QED  BY <1>1, <2>2, <2>5, <4>1 DEF Typed, Instr
      <3>4. Listed' = Listed
        BY <2>5 DEF Listed
      <3>5. run = "validate" =>
               \A x \in Listed : ins'[x].kind \in Sturdy /\ (Aims(x)' \/ x \in ToSet(Tail(todo)))
        BY <1>1, <1>5, <2>2, <3>1, <3>2, <3>3, <3>4 DEF Aims
      <3>6. run = "validate" => Len(passes) \notin {1, 2}
        BY <1>3
      <3> QED  BY <1>4, <2>5, <3>4, <3>5, <3>6 DEF PassGoesOn, Targeted
    <2>6. CASE Abort
      BY <1>4, <2>6 DEF Abort, Targeted
    <2> QED  BY <2>1, <2>3, <2>4, <2>5, <2>6
  <1> QED  BY <1>6, <1>7

LEMMA TargetedRipRelative ==
    ASSUME "far" \notin Decoded \cup Created, Inv, Targeted, ValidateRipRelative
    PROVE  Targeted'
  <1>1. Typed /\ Control /\ Addressed /\ Listed \subseteq Obj
    BY ListedObj DEF Inv, Typed, Listed
  <1>2. state = "running" /\ fresh = TRUE /\ Head(passes) = "rip_relative"
    BY <1>1 DEF ValidateRipRelative, InPass, Control
  <1>3. run = "validate" /\ Len(passes) = 2
    BY <1>1, <1>2, PassFacts DEF Names
  <1>4. valid = FALSE
    BY <1>1, <1>2, <1>3 DEF Control
  <1>5. \A x \in Listed : ins[x].kind \in Sturdy /\ Aims(x)
    BY <1>2, <1>3 DEF Targeted
  <1> DEFINE e == Encodable(snip, ins)
             m == Metadata(snip, ins)
             wrong == {o \in ToSet(snip') : m[o].kind \in {"rip", "far"} /\ m[o].imm # m[o].addr}
  <1>6. e = Encodable(snip, ins) /\ m = Metadata(snip, ins)
    OBVIOUS
  <1>7. /\ snip' = e
        /\ ins' = [o \in Obj |-> IF o \notin wrong THEN m[o]
                                 ELSE IF m[o].kind = "far" THEN [m[o] EXCEPT !.kind = "broken"]
                                 ELSE [m[o] EXCEPT !.imm = m[o].addr]]
        /\ PassEnds \/ PassGoesOn
    BY DEF ValidateRipRelative
  <1> HIDE DEF e, m, wrong
  <1>8. ToSet(e) = Listed /\ \A o \in Listed : m[o].kind = ins[o].kind /\ m[o].target = ins[o].target
    BY <1>1, <1>5, <1>6, SturdyStays
  <1>9. m \in [Obj -> Instr]
    BY <1>1, <1>6, MetadataKeeps
  <1>10. ASSUME NEW x \in Listed PROVE ins'[x].kind = ins[x].kind /\ ins'[x].target = ins[x].target
    <2>1. x \in Obj /\ m[x] \in Instr /\ m[x].kind # "far"
      BY <1>1, <1>9, KindsInReach
    <2>2. ins'[x] = m[x] \/ ins'[x] = [m[x] EXCEPT !.imm = m[x].addr]
      BY <1>7, <2>1
    <2> QED  BY <1>8, <2>1, <2>2 DEF Instr
  <1>11. Listed' = Listed /\ \A x \in Listed : ins'[x].kind \in Sturdy /\ Aims(x)'
    <2>1. Listed' = Listed
      BY <1>7, <1>8 DEF Listed
    <2> QED  BY <1>5, <1>10, <2>1 DEF Aims
  <1>12. CASE PassEnds
    <2>1. fresh' = FALSE /\ valid' = FALSE
      BY <1>1, <1>2, <1>12, PassBeforeOffsets
    <2> QED  BY <1>11, <2>1 DEF Targeted
  <1>13. CASE PassGoesOn
    <2>1. valid' = FALSE /\ Len(passes') # 3
      BY <1>3, <1>4, <1>13 DEF PassGoesOn
    <2> QED  BY <1>11, <2>1 DEF Targeted
  <1> QED  BY <1>7, <1>12, <1>13

LEMMA TargetedJumpOffsets ==
    ASSUME "far" \notin Decoded \cup Created, Inv, Targeted, ValidateJumpOffsets
    PROVE  Targeted'
  <1>1. Typed /\ Control /\ Addressed /\ InPlace /\ Listed \subseteq Obj
    BY ListedObj DEF Inv, Typed, Listed
  <1>2. state = "running" /\ fresh = TRUE /\ Head(passes) = "jump_offsets"
    BY <1>1 DEF ValidateJumpOffsets, InPass, Control
  <1>3. Len(passes) = 1 /\ run \in {"validate", "encode"}
    BY <1>1, <1>2, PassFacts DEF Names
  <1>4. run' = run
    BY DEF ValidateJumpOffsets, PassEnds, PassFails, PassGoesOn
  <1>5. CASE run = "validate"
    <2> DEFINE e == Encodable(snip, ins)
               m == Metadata(snip, ins)
    <2>1. e = Encodable(snip, ins) /\ m = Metadata(snip, ins)
      OBVIOUS
    <2> HIDE DEF e, m
    <2>2. \A x \in Listed : ins[x].kind \in Sturdy /\ Aims(x)
      BY <1>2, <1>3, <1>5 DEF Targeted
    <2>3. ToSet(e) = Listed /\ \A o \in Listed : m[o].kind = ins[o].kind /\ m[o].target = ins[o].target
      BY <1>1, <2>1, <2>2, SturdyStays
    <2>4. snip' = e /\ \A o \in Obj : ins'[o].kind = m[o].kind /\ ins'[o].target = m[o].target
      BY <1>1, <2>1, JumpOffsetsFacts
    <2>5. Listed' = Listed
      BY <2>3, <2>4 DEF Listed
    <2>6. \A x \in Listed' : ins'[x].kind \in Sturdy /\ Aims(x)'
      BY <1>1, <2>2, <2>3, <2>4, <2>5 DEF Aims
    <2> QED  BY <2>6 DEF Targeted
  <1>6. CASE run = "encode"
    <2>1. valid' => valid
      BY <1>6 DEF ValidateJumpOffsets, PassEnds, PassFails, PassGoesOn
    <2>2. valid => snip' = snip /\ ins' = ins
      BY <1>1, OffsetsOfValid
    <2> QED  BY <1>4, <1>6, <2>1, <2>2 DEF Targeted, Aims, Listed
  <1> QED  BY <1>3, <1>5, <1>6

LEMMA TargetedNext ==
    ASSUME "far" \notin Decoded \cup Created, Inv, Targeted, [Next]_vars
    PROVE  Targeted'
  <1>1. CASE Step
    BY <1>1, TargetedMetadata, TargetedEarly, TargetedJumpTargets, TargetedRipRelative,
       TargetedJumpOffsets DEF Step
  <1>2. CASE UNCHANGED vars
    BY <1>2 DEF vars, Targeted, Aims, Listed
  <1>3. CASE Changed
    BY <1>3 DEF Changed, Targeted
  <1>4. ASSUME NEW p \in Names, Start(p) PROVE Targeted'
    <2>1. run' = "validate" => Len(passes') = 7
      BY <1>4, Registered DEF Start
    <2>2. run' = "validate" => Len(passes') \notin {1, 2, 3}
      BY <2>1
    <2> QED  BY <1>4, <2>2 DEF Start, Targeted, Aims, Listed
  <1> QED  BY <1>1, <1>2, <1>3, <1>4, Registered DEF Next, ClientInsert, ClientRemove, ClientSwap

(***************************************************************************)
(* With memory in reach, every target that pipeline_validate reads in      *)
(* validate_jump_offsets, and every target in a valid snippet, is an       *)
(* instruction of the snippet.                                             *)
(***************************************************************************)
THEOREM TargetsStay ==
    ASSUME "far" \notin Decoded \cup Created
    PROVE  Spec => []TargetsLive
  <1>1. Init => Targeted
    BY DEF Init, Targeted
  <1>2. Inv /\ Targeted /\ [Next]_vars => Targeted'
    BY TargetedNext
  <1>3. Inv /\ Targeted => TargetsLive
    <2> SUFFICES ASSUME Inv, Targeted, NEW o \in Listed, ins[o].kind \in Immediate,
                        (run = "validate" /\ InPass("jump_offsets")) \/ (state = "idle" /\ valid)
                 PROVE  ins[o].target \in Listed
      BY DEF TargetsLive
    <2>1. ins[o] \in Instr /\ ins[o].kind \in Jumps
      BY ListedObj DEF Inv, Typed, Listed, Jumps
    <2>2. CASE run = "validate" /\ InPass("jump_offsets")
      <3>1. Len(passes) = 1
        BY <2>2, PassFacts DEF Inv, InPass
      <3>2. ins[o].kind \in Sturdy /\ Aims(o)
        BY <2>2, <3>1 DEF Targeted, InPass
      <3> QED  BY <2>1, <3>2, KindsInReach DEF Aims
    <2>3. CASE state = "idle" /\ valid
      BY <2>1, <2>3 DEF Targeted, Aims, Inv, InPlace
    <2> QED  BY <2>2, <2>3
  <1> QED  BY <1>1, <1>2, <1>3, PipelineInv, PTL DEF Spec

-----------------------------------------------------------------------------
(***************************************************************************)
(* The search of validate_jump_targets: for snippets of any length at any  *)
(* addresses it stays inside the array and its answer is right.            *)
(***************************************************************************)

(***************************************************************************)
(* The inductive invariant: the addresses are sorted, and an instruction   *)
(* at the wanted address can only be between the bounds of the call.       *)
(***************************************************************************)
Narrowing ==
    /\ min <= max + 1
    /\ \A i \in Index : targets[i] = wanted => min <= i /\ i <= max

SearchInv ==
    /\ SearchTypeOK
    /\ Increasing(count, targets)
    /\ pc = "search" => Narrowing
    /\ FoundIffPresent

(* The probe lies between the bounds. *)
LEMMA MidBetween ==
    ASSUME SearchTypeOK, min <= max
    PROVE  Mid \in Index /\ min <= Mid /\ Mid <= max
  BY CountAssumption DEF SearchTypeOK, Index, Mid

LEMMA SearchBegins == SearchInit => SearchInv
  BY CountAssumption DEF SearchInit, SearchInv, SearchTypeOK, Index, Narrowing, FoundIffPresent

LEMMA SearchGoesOn == SearchInv /\ [SearchNext]_searchVars => SearchInv'
  <1> SUFFICES ASSUME SearchInv, [SearchNext]_searchVars PROVE SearchInv'
    OBVIOUS
  <1>0. SearchTypeOK /\ Increasing(count, targets) /\ (pc = "search" => Narrowing) /\ FoundIffPresent
    BY DEF SearchInv
  <1>1. CASE Exhausted
    <2>1. \A i \in Index : targets[i] # wanted
      BY <1>0, <1>1, CountAssumption DEF Exhausted, Narrowing, SearchTypeOK, Index
    <2> QED  BY <1>0, <1>1, <2>1 DEF Exhausted, Return, SearchInv, SearchTypeOK, Index, FoundIffPresent
  <1>2. CASE Hit
    <2>1. Mid \in Index
      BY <1>0, <1>2, MidBetween DEF Hit
    <2>2. result' = Mid /\ targets[Mid] = wanted /\ NotFound \notin Index
      BY <1>2, AddressAssumption, CountAssumption DEF Hit, Return, Index
    <2> QED  BY <1>0, <1>2, <2>1, <2>2 DEF Hit, Return, SearchInv, SearchTypeOK, Index, FoundIffPresent
  <1>3. CASE GoLow
    <2>1. Mid \in Index /\ min <= Mid /\ Mid <= max
      BY <1>0, <1>3, MidBetween DEF GoLow
    <2>n. wanted \in Nat /\ \A i \in Index : targets[i] \in Nat
      BY <1>0, AddressAssumption DEF SearchTypeOK
    <2>i. \A i \in Index : i > Mid => targets[Mid] < targets[i]
      BY <1>0, <2>1 DEF Increasing, Index
    <2>2. \A i \in Index : i >= Mid => targets[i] > wanted
      <3> SUFFICES ASSUME NEW i \in Index, i >= Mid PROVE targets[i] > wanted
        OBVIOUS
      <3>1. CASE i = Mid
        BY <1>3, <3>1 DEF GoLow
      <3>2. CASE i # Mid
        <4>1. i > Mid
          BY <2>1, <3>2 DEF Index
        <4>2. targets[Mid] > wanted
          BY <1>3 DEF GoLow
        <4> QED  BY <2>1, <2>n, <2>i, <4>1, <4>2
      <3> QED  BY <3>1, <3>2
    <2>3. CASE Mid = 0
      <3>1. \A i \in Index : targets[i] # wanted
        BY <1>0, <2>2, <2>3, AddressAssumption DEF SearchTypeOK, Index
      <3> QED  BY <1>0, <1>3, <2>3, <3>1 DEF GoLow, Return, SearchInv, SearchTypeOK, Index, FoundIffPresent
    <2>4. CASE Mid # 0
      <3>1. Recur(min, Mid - 1)
        BY <1>3, <2>4 DEF GoLow
      <3>2. Mid - 1 \in 0..(count - 1) /\ min <= (Mid - 1) + 1
        BY <1>0, <2>1, <2>4 DEF SearchTypeOK, Index
      <3>3. \A i \in Index : targets[i] = wanted => min <= i /\ i <= Mid - 1
        BY <1>0, <1>3, <2>1, <2>2, AddressAssumption DEF GoLow, Narrowing, SearchTypeOK, Index
      <3> QED  BY <1>0, <1>3, <3>1, <3>2, <3>3
               DEF GoLow, Recur, SearchInv, SearchTypeOK, Index, Narrowing, FoundIffPresent
    <2> QED  BY <2>3, <2>4
  <1>4. CASE GoHigh
    <2>1. Mid \in Index /\ min <= Mid /\ Mid <= max
      BY <1>0, <1>4, MidBetween DEF GoHigh
    <2>n. wanted \in Nat /\ \A i \in Index : targets[i] \in Nat
      BY <1>0, AddressAssumption DEF SearchTypeOK
    <2>i. \A i \in Index : i < Mid => targets[i] < targets[Mid]
      BY <1>0, <2>1 DEF Increasing, Index
    <2>2. \A i \in Index : i <= Mid => targets[i] < wanted
      <3> SUFFICES ASSUME NEW i \in Index, i <= Mid PROVE targets[i] < wanted
        OBVIOUS
      <3>1. CASE i = Mid
        BY <1>4, <3>1 DEF GoHigh
      <3>2. CASE i # Mid
        <4>1. i < Mid
          BY <2>1, <3>2 DEF Index
        <4>2. targets[Mid] < wanted
          BY <1>4 DEF GoHigh
        <4> QED  BY <2>1, <2>n, <2>i, <4>1, <4>2
      <3> QED  BY <3>1, <3>2
    <2>3. Mid + 1 \in 0..count /\ Mid + 1 <= max + 1
      BY <1>0, <2>1 DEF SearchTypeOK, Index
    <2>4. \A i \in Index : targets[i] = wanted => Mid + 1 <= i /\ i <= max
      BY <1>0, <1>4, <2>1, <2>2, AddressAssumption DEF GoHigh, Narrowing, SearchTypeOK, Index
    <2> QED  BY <1>0, <1>4, <2>3, <2>4
             DEF GoHigh, Recur, SearchInv, SearchTypeOK, Index, Narrowing, FoundIffPresent
  <1>5. CASE NextJump
    BY <1>0, <1>5, CountAssumption
    DEF NextJump, SearchInv, SearchTypeOK, Index, Narrowing, FoundIffPresent
  <1>6. CASE UNCHANGED searchVars
    BY <1>0, <1>6 DEF searchVars, SearchInv, SearchTypeOK, Index, Narrowing, FoundIffPresent
  <1> QED  BY <1>1, <1>2, <1>3, <1>4, <1>5, <1>6 DEF SearchNext, Probe

(***************************************************************************)
(* The bounds of the recursion keep their ranges: size_t never wraps.      *)
(***************************************************************************)
THEOREM SearchTypes == SearchSpec => []SearchTypeOK
  <1>1. SearchInv => SearchTypeOK
    BY DEF SearchInv
  <1> QED  BY SearchBegins, SearchGoesOn, <1>1, PTL DEF SearchSpec

(***************************************************************************)
(* Every probe reads inside the array.                                     *)
(***************************************************************************)
THEOREM ProbesInBounds == SearchSpec => []InBounds
  <1>1. SearchInv => InBounds
    BY MidBetween DEF SearchInv, InBounds
  <1> QED  BY SearchBegins, SearchGoesOn, <1>1, PTL DEF SearchSpec

(***************************************************************************)
(* find_target finds the instruction at an address if and only if there is *)
(* one, for every number of instructions.                                  *)
(***************************************************************************)
THEOREM SearchIsCorrect == SearchSpec => []FoundIffPresent
  <1>1. SearchInv => FoundIffPresent
    BY DEF SearchInv
  <1> QED  BY SearchBegins, SearchGoesOn, <1>1, PTL DEF SearchSpec
=============================================================================
