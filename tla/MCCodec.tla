------------------------------ MODULE MCCodec ------------------------------
(* Disassembly and Codec over the tables of ZydisTables.  A blob has an instruction, *)
(* one that leaves a mark in everything the decoder keeps, the first one again, and  *)
(* again, but cut off.  Encoded, the blobs go into a buffer that is too small for    *)
(* the longest of them.                                                              *)
EXTENDS Codec, ZydisTables

(* Groups of prefixes: none, single ones, ones of a group that overwrite each   *)
(* other, ones that compete for being mandatory, a REX before another prefix,   *)
(* and more of them than an instruction may have.                               *)
Many == [n \in 1 .. 12 |-> OSZ]
PrefixGroups ==
    { <<>>, <<OSZ>>, <<OSZ, OSZ>>, <<REPE>>, <<REPNE, REPE>>, <<REPE, REPNE>>, <<OSZ, REPE>>, <<REPE, OSZ>>,
      <<LOCK>>, <<LOCK, REPNE>>, <<46>>, <<DS>>, <<100>>, <<DS, 101>>, <<101, DS>>, <<101, 100, 46>>, <<ASZ>>,
      <<72>>, <<65>>, <<66, OSZ>>, <<OSZ, 76>>, <<64, 73>>, Many }
Locks == { <<LOCK>>, <<LOCK, REPNE>>, <<REPE, LOCK>>, <<REPNE>> }
FewPrefixes == { <<>>, <<OSZ>>, <<ASZ>>, <<65>>, <<100>> }
WithRex == { <<>>, <<72>>, <<65>> }

(* ModRM with what it asks for: two registers, AH, SIB and its displacement, no *)
(* base, a byte of displacement, no base and 32 bits, relative to RIP.          *)
Forms ==
    { <<193>>, <<236>>, <<24>>, <<4, 37, 0, 0, 208, 0>>, <<68, 36, 128>>, <<5, 0, 1, 0, 0>>, <<131, 0, 1, 0, 0>>,
      <<4, 197, 0, 1, 0, 0>>, <<4, 36>> }
FewForms == { <<193>>, <<68, 36, 128>> }

Opcodes == { <<1>>, <<139>>, <<15, 182>>, <<15, 184>>, <<15, 16>>, <<15, 199>>, <<255>> }
Immediate8 == { <<131>>, <<107>>, <<193>> }
Prefixed == { <<164>>, <<144>>, <<116, 254>>, <<15, 132, 0, 1, 0, 0>> }
Relative == { <<232, 0, 1, 0, 0>>, <<233, 0, 1, 0, 0>>, <<235, 254>>, <<226, 254>>, <<199, 248, 0, 1, 0, 0>> }
RelativePrefixes == { <<>>, <<OSZ>>, <<ASZ>>, <<REPNE>>, <<46>>, <<72>> }
NoModrm == { <<80>>, <<152>>, <<227, 254>>, <<243, 15, 30, 250>>, <<184, 1, 0, 0, 128>>, <<106, 255>>,
             <<161, 1, 2, 3, 4, 5, 6, 7, 128>> }
Special == { <<15, 189>>, <<15, 26>>, <<141>>, <<142>>, <<15, 32>>, <<15, 175>>, <<134>>, <<137>>, <<199>> }

(* Vector instructions: VEX in its two forms, a gather, a register in an immediate, *)
(* EVEX with mask, zeroing, broadcast and the two bits that extend a number, MVEX,   *)
(* XOP.  2 and 3 give malformed ones.                                                *)
VectorPrefixes ==
    { <<197, 240, 88>>, <<197, 116, 88>>, <<196, 225, 116, 88>>, <<196, 193, 112, 88>>, <<196, 226, 113, 146>>,
      <<197, 248, 146>>, <<98, 241, 116, 8, 88>>, <<98, 145, 116, 73, 88>>, <<98, 241, 116, 217, 88>>,
      <<98, 242, 125, 73, 146>>, <<98, 242, 125, 72, 146>>, <<98, 241, 112, 0, 88>>, <<98, 241, 112, 16, 88>>,
      <<98, 240, 116, 8, 88>>, <<98, 241, 116, 136, 88>>, <<98, 241, 116, 120, 88>> }
VectorForms == { <<193>>, <<76, 20, 4>>, <<4, 37, 0, 0, 208, 0>>, <<64, 255>> }
Is4 == { <<196, 227, 113, 74>>, <<143, 232, 112, 162>>, <<143, 232, 240, 162>> }

(* What an encoder may write in another way: a base that needs a displacement,      *)
(* displacements of EVEX that are whole units and that are not, moves between       *)
(* vectors with numbers above 7, immediates of 64 bits that fit in fewer.           *)
Rewritten ==
    {b \o <<69, 0>> : b \in { <<139>>, <<65, 139>> }} \cup
    {b \o <<68, s, 0>> : b \in { <<139>>, <<65, 139>>, <<66, 139>> }, s \in {36, 37, 5, 101}} \cup
    {<<98, 241, l, 8, 88, 128, d, 0, 0, 0>> : l \in {116, 244}, d \in {0, 1, 64, 65, 128}} \cup
    {<<98, 241, 116, l, 88, 64, 1>> : l \in {8, 24, 40, 72, 88}} \cup
    {<<197, r, o, 200>> : r \in {121, 249}, o \in {111, 127}} \cup {<<196, 193, 121, o, 193>> : o \in {111, 127}} \cup
    {<<r, 184, 1, 2, 0, 0, h, 0, 0, 0>> : r \in {72, 73}, h \in {0, 1}} \cup
    {<<r, 199, 192, 255, 255, 255, h>> : r \in {72, 73}, h \in {127, 255}}

Instructions ==
    {p \o o \o <<193>> : p \in PrefixGroups, o \in Opcodes} \cup
    {p \o <<o, 68, 36, 128>> : p \in Locks, o \in {1, 139}} \cup
    {p \o o \o f : p \in FewPrefixes, o \in { <<139>>, <<15, 184>> }, f \in Forms} \cup
    {o \o f : o \in Opcodes, f \in Forms} \cup
    {p \o o \o f \o <<127>> : p \in FewPrefixes, o \in Immediate8, f \in FewForms} \cup
    {p \o o \o f \o <<1, 2, 3, 4>> : p \in FewPrefixes, o \in {<<199>>, <<105>>}, f \in FewForms} \cup
    {p \o n : p \in PrefixGroups, n \in Prefixed} \cup {p \o n : p \in RelativePrefixes, n \in Relative} \cup
    {p \o n : p \in FewPrefixes, n \in NoModrm} \cup
    {p \o o \o f : p \in WithRex, o \in Special, f \in FewForms} \cup
    {p \o <<15, 15>> \o f \o <<s>> : p \in FewPrefixes, f \in FewForms, s \in {158, 11}} \cup
    {p \o v \o f : p \in { <<>>, <<100>> }, v \in VectorPrefixes, f \in VectorForms} \cup
    {p \o v \o <<193>> : p \in { <<ASZ>>, <<OSZ>>, <<72>> }, v \in VectorPrefixes} \cup
    {v \o f \o <<80>> : v \in Is4, f \in VectorForms} \cup
    Rewritten

Marking == <<101, 98, 145, 116, 73, 88, 193>>
MCBuffers == {x \o Marking \o x \o SubSeq(x, 1, Len(x) - 1) : x \in Instructions}

(* Loads with a displacement and no base, or one of the two bases that look alike. *)
MCLoads == {p \o <<139>> \o f : p \in { <<>>, <<ASZ>>, <<65>>, <<ASZ, 65>> }, f \in Forms}
=============================================================================
