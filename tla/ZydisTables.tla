----------------------------- MODULE ZydisTables -----------------------------
(***************************************************************************)
(* A part of the tables that Zydis generates: the definitions of some      *)
(* thirty mnemonics that between them use every kind of filter, of prefix  *)
(* and of operand that a 64 bit decoder meets, and the tree of filters cut *)
(* down to what leads to them.  A node is named by its filter and the      *)
(* opcode bytes before it, a definition by its mnemonic and its number in  *)
(* the generated list of its encoding.                                     *)
(***************************************************************************)
EXTENDS Register, Sequences, TLC

Filter(t, k) == [type |-> t, kids |-> k]

(* Places of operands in the bytes, actions, sizes by operand width. *)
REG == "MODRM_REG"
RM == "MODRM_RM"
VVVV == "NDSNDD"
Rd == {"READ"}
Wr == {"WRITE"}
RdWr == {"READ", "WRITE"}
Always(bytes) == <<bytes, bytes, bytes>>
ByWidth == <<2, 4, 8>>

Op(type, encoding, size, actions) ==
    [type |-> type, encoding |-> encoding, size |-> size, actions |-> actions,
     ignoreSegment |-> FALSE, register |-> [how |-> "NONE", reg |-> NoReg, id |-> 0],
     memory |-> [base |-> "NONE", segment |-> NoReg]]
R(type, encoding, actions) == Op(type, encoding, Always(0), actions)
V(type, encoding, actions) == Op(type, encoding, Always(ClassWidth(type) \div 8), actions)
M(type, size, actions) == Op(type, RM, size, actions)
Static(class, id, size, actions) ==
    [Op("IMPLICIT_REG", "NONE", size, actions) EXCEPT !.register = [how |-> "STATIC", reg |-> Reg(class, id), id |-> 0]]
Implicit(how, id, size, actions) ==
    [Op("IMPLICIT_REG", "NONE", size, actions) EXCEPT !.register = [how |-> how, reg |-> NoReg, id |-> id]]
At(base, segment, size, actions, ignore) ==
    [Op("IMPLICIT_MEM", "NONE", size, actions) EXCEPT
        !.memory = [base |-> base, segment |-> IF segment = -1 THEN NoReg ELSE Reg("SEGMENT", segment)],
        !.ignoreSegment = ignore]
One(size) == Op("IMPLICIT_IMM1", "NONE", size, Rd)

(* Immediates: the size by operand width follows from the encoding. *)
ImmediateBytes(encoding) ==
    CASE encoding \in {"SIMM8", "UIMM8", "JIMM8"} -> Always(1)
      [] encoding \in {"JIMM32"} -> Always(4)
      [] encoding \in {"SIMM16_32_32", "JIMM16_32_32"} -> <<2, 4, 4>>
      [] encoding = "SIMM16_32_64" -> ByWidth
I(encoding) == Op("IMM", encoding, ImmediateBytes(encoding), Rd)
J(encoding) == Op("REL", encoding, ImmediateBytes(encoding), Rd)

ImmediateInfo(o) ==
    LET bytes == IF o.encoding = "IS4" THEN Always(1) ELSE o.size IN
    [size |-> [n \in 1 .. 3 |-> 8 * bytes[n]], signed |-> o.encoding \notin {"IS4", "UIMM8"}, relative |-> o.type = "REL"]

Plain ==
    [name |-> "", osz |-> 0, asz |-> 0, modrm |-> FALSE, forceReg |-> FALSE, disp |-> <<>>, imm |-> <<>>,
     opReg |-> [kind |-> "INVALID", high |-> FALSE],
     opRm |-> [kind |-> "INVALID", high |-> FALSE, mem |-> "INVALID", noRip |-> FALSE],
     opNdsndd |-> "INVALID", accepts |-> {}, gather |-> FALSE, noSourceDest |-> FALSE, noSourceSource |-> FALSE,
     zeroMask |-> FALSE, maskPolicy |-> "INVALID", functionality |-> "INVALID", broadcast |-> <<1, 1>>,
     length |-> 0, tuple |-> "INVALID", elementSize |-> 0, maskOverride |-> "DEFAULT", granular |-> FALSE,
     branch |-> "NONE", ops |-> <<>>]
Modrm(r, m) == [Plain EXCEPT !.modrm = TRUE, !.opReg.kind = r, !.opRm.kind = m, !.opRm.mem = "MEM"]
Vector(m) == [Modrm("VR", m) EXCEPT !.opNdsndd = "VR"]
Sized(osz, base) == [base EXCEPT !.osz = osz]

(* A definition: its immediates are those of its operands. *)
Form(name, base, accepts, ops) ==
    [type |-> "DEFINITION",
     def  |-> [base EXCEPT !.name = name, !.accepts = accepts, !.ops = ops,
                  !.imm = LET s == SelectSeq(ops, LAMBDA o : o.type \in {"IMM", "REL"} \/ o.encoding = "IS4")
                          IN  [n \in DOMAIN s |-> ImmediateInfo(s[n])]]]

Seg == {"SEGMENT"}
Lock == {"SEGMENT", "LOCK", "XACQUIRE", "XRELEASE"}

-----------------------------------------------------------------------------
(* Definitions, by mnemonic *)

AddForms ==
    "add L30" :> Form("add", Sized(1, Modrm("GPR", "GPR")), {}, <<R("GPR8", RM, RdWr), R("GPR8", REG, Rd)>>) @@
    "add L31" :> Form("add", Sized(1, Modrm("GPR", "GPR")), Lock, <<M("MEM", Always(1), RdWr), R("GPR8", REG, Rd)>>) @@
    "add L32" :> Form("add", Modrm("GPR", "GPR"), {}, <<R("GPR16_32_64", RM, RdWr), R("GPR16_32_64", REG, Rd)>>) @@
    "add L33" :> Form("add", Modrm("GPR", "GPR"), Lock, <<M("MEM", ByWidth, RdWr), R("GPR16_32_64", REG, Rd)>>) @@
    "add L34" :> Form("add", Sized(1, Modrm("GPR", "GPR")), {}, <<R("GPR8", REG, RdWr), R("GPR8", RM, Rd)>>) @@
    "add L35" :> Form("add", Sized(1, Modrm("GPR", "GPR")), Seg, <<R("GPR8", REG, RdWr), M("MEM", Always(1), Rd)>>) @@
    "add L36" :> Form("add", Modrm("GPR", "GPR"), {}, <<R("GPR16_32_64", REG, RdWr), R("GPR16_32_64", RM, Rd)>>) @@
    "add L37" :> Form("add", Modrm("GPR", "GPR"), Seg, <<R("GPR16_32_64", REG, RdWr), M("MEM", ByWidth, Rd)>>) @@
    "add L38" :> Form("add", Sized(1, Plain), {}, <<Static("GPR8", 0, Always(0), RdWr), I("SIMM8")>>) @@
    "add L39" :> Form("add", Plain, {}, <<Implicit("GPR_OSZ", 0, Always(0), RdWr), I("SIMM16_32_32")>>) @@
    "add L40" :> Form("add", Sized(1, Modrm("INVALID", "GPR")), {}, <<R("GPR8", RM, RdWr), I("SIMM8")>>) @@
    "add L41" :> Form("add", Sized(1, Modrm("INVALID", "GPR")), Lock, <<M("MEM", Always(1), RdWr), I("SIMM8")>>) @@
    "add L42" :> Form("add", Modrm("INVALID", "GPR"), {}, <<R("GPR16_32_64", RM, RdWr), I("SIMM16_32_32")>>) @@
    "add L43" :> Form("add", Modrm("INVALID", "GPR"), Lock, <<M("MEM", ByWidth, RdWr), I("SIMM16_32_32")>>) @@
    "add L46" :> Form("add", Modrm("INVALID", "GPR"), {}, <<R("GPR16_32_64", RM, RdWr), I("SIMM8")>>) @@
    "add L47" :> Form("add", Modrm("INVALID", "GPR"), Lock, <<M("MEM", ByWidth, RdWr), I("SIMM8")>>)

Pi2fwForms ==
    "pi2fw 342" :> Form("pi2fw", Modrm("MMX", "MMX"), {}, <<V("MMX", REG, RdWr), V("MMX", RM, Rd)>>) @@
    "pi2fw 343" :> Form("pi2fw", Modrm("MMX", "GPR"), Seg, <<V("MMX", REG, RdWr), M("MEM", Always(8), Rd)>>)

PfaddForms ==
    "pfadd 38" :> Form("pfadd", Modrm("MMX", "MMX"), {}, <<V("MMX", REG, RdWr), V("MMX", RM, Rd)>>) @@
    "pfadd 39" :> Form("pfadd", Modrm("MMX", "GPR"), Seg, <<V("MMX", REG, RdWr), M("MEM", Always(8), Rd)>>)

MovupsForms ==
    "movups L920" :> Form("movups", Modrm("VR", "VR"), {}, <<V("XMM", REG, Wr), V("XMM", RM, Rd)>>) @@
    "movups L921" :> Form("movups", Modrm("VR", "GPR"), Seg, <<V("XMM", REG, Wr), M("MEM", Always(16), Rd)>>) @@
    "movups L922" :> Form("movups", Modrm("VR", "VR"), {}, <<V("XMM", RM, Wr), V("XMM", REG, Rd)>>) @@
    "movups L923" :> Form("movups", Modrm("VR", "GPR"), Seg, <<M("MEM", Always(16), Wr), V("XMM", REG, Rd)>>)

MovupdForms ==
    "movupd L916" :> Form("movupd", Modrm("VR", "VR"), {}, <<V("XMM", REG, Wr), V("XMM", RM, Rd)>>) @@
    "movupd L917" :> Form("movupd", Modrm("VR", "GPR"), Seg, <<V("XMM", REG, Wr), M("MEM", Always(16), Rd)>>) @@
    "movupd L918" :> Form("movupd", Modrm("VR", "VR"), {}, <<V("XMM", RM, Wr), V("XMM", REG, Rd)>>) @@
    "movupd L919" :> Form("movupd", Modrm("VR", "GPR"), Seg, <<M("MEM", Always(16), Wr), V("XMM", REG, Rd)>>)

BndmovForms ==
    "bndmov L140" :> Form("bndmov", [Modrm("BOUND", "BOUND") EXCEPT !.opRm.noRip = TRUE], {}, <<R("BND", REG, Wr),
        R("BND", RM, Rd)>>) @@
    "bndmov L141" :> Form("bndmov", [Modrm("BOUND", "GPR") EXCEPT !.asz = 1], Seg, <<R("BND", REG, Wr), M("MEM",
        Always(16), Rd)>>) @@
    "bndmov L143" :> Form("bndmov", [Modrm("BOUND", "BOUND") EXCEPT !.opRm.noRip = TRUE], {}, <<R("BND", RM, Wr),
        R("BND", REG, Rd)>>) @@
    "bndmov L144" :> Form("bndmov", [Modrm("BOUND", "GPR") EXCEPT !.asz = 1], Seg, <<M("MEM", Always(16), Wr),
        R("BND", REG, Rd)>>)

Endbr64Forms ==
    "endbr64 L377" :> Form("endbr64", Modrm("INVALID", "INVALID"), {}, <<>>)

MovForms ==
    "mov L799" :> Form("mov", [Sized(7, Modrm("CONTROL", "GPR")) EXCEPT !.forceReg = TRUE], {}, <<R("GPR64", RM,
        Wr), R("CR", REG, Rd)>>) @@
    "mov L801" :> Form("mov", [Sized(7, Modrm("DEBUG", "GPR")) EXCEPT !.forceReg = TRUE], {}, <<R("GPR64", RM, Wr),
        R("DR", REG, Rd)>>) @@
    "mov L803" :> Form("mov", [Sized(7, Modrm("CONTROL", "GPR")) EXCEPT !.forceReg = TRUE], {}, <<R("CR", REG, Wr),
        R("GPR64", RM, Rd)>>) @@
    "mov L805" :> Form("mov", [Sized(7, Modrm("DEBUG", "GPR")) EXCEPT !.forceReg = TRUE], {}, <<R("DR", REG, Wr),
        R("GPR64", RM, Rd)>>) @@
    "mov L777" :> Form("mov", Sized(1, Modrm("GPR", "GPR")), {}, <<R("GPR8", RM, Wr), R("GPR8", REG, Rd)>>) @@
    "mov L778" :> Form("mov", Sized(1, Modrm("GPR", "GPR")), {"SEGMENT", "XRELEASE", "HLE_WITHOUT_LOCK"}, <<M("MEM",
        Always(1), Wr), R("GPR8", REG, Rd)>>) @@
    "mov L779" :> Form("mov", Modrm("GPR", "GPR"), {}, <<R("GPR16_32_64", RM, Wr), R("GPR16_32_64", REG, Rd)>>) @@
    "mov L780" :> Form("mov", Modrm("GPR", "GPR"), {"SEGMENT", "XRELEASE", "HLE_WITHOUT_LOCK"}, <<M("MEM", ByWidth,
        Wr), R("GPR16_32_64", REG, Rd)>>) @@
    "mov L781" :> Form("mov", Sized(1, Modrm("GPR", "GPR")), {}, <<R("GPR8", REG, Wr), R("GPR8", RM, Rd)>>) @@
    "mov L782" :> Form("mov", Sized(1, Modrm("GPR", "GPR")), Seg, <<R("GPR8", REG, Wr), M("MEM", Always(1), Rd)>>) @@
    "mov L783" :> Form("mov", Modrm("GPR", "GPR"), {}, <<R("GPR16_32_64", REG, Wr), R("GPR16_32_64", RM, Rd)>>) @@
    "mov L784" :> Form("mov", Modrm("GPR", "GPR"), Seg, <<R("GPR16_32_64", REG, Wr), M("MEM", ByWidth, Rd)>>) @@
    "mov L785" :> Form("mov", Modrm("SEGMENT", "GPR"), {}, <<R("GPR16_32_64", RM, Wr), R("SREG", REG, Rd)>>) @@
    "mov L786" :> Form("mov", Modrm("SEGMENT", "GPR"), Seg, <<M("MEM", Always(2), Wr), R("SREG", REG, Rd)>>) @@
    "mov L787" :> Form("mov", [Modrm("SEGMENT", "GPR") EXCEPT !.opReg.high = TRUE], {}, <<R("SREG", REG, Wr),
        R("GPR16", RM, Rd)>>) @@
    "mov L788" :> Form("mov", [Modrm("SEGMENT", "GPR") EXCEPT !.opReg.high = TRUE], Seg, <<R("SREG", REG, Wr),
        M("MEM", Always(2), Rd)>>) @@
    "mov L789" :> Form("mov", [Sized(1, Plain) EXCEPT !.disp = <<16, 32, 64>>], Seg, <<Static("GPR8", 0, Always(0),
        Wr), Op("MOFFS", "DISP16_32_64", Always(1), Rd)>>) @@
    "mov L790" :> Form("mov", [Plain EXCEPT !.disp = <<16, 32, 64>>], Seg, <<Implicit("GPR_OSZ", 0, Always(0), Wr),
        Op("MOFFS", "DISP16_32_64", ByWidth, Rd)>>) @@
    "mov L791" :> Form("mov", [Sized(1, Plain) EXCEPT !.disp = <<16, 32, 64>>], Seg, <<Op("MOFFS", "DISP16_32_64",
        Always(1), Wr), Static("GPR8", 0, Always(0), Rd)>>) @@
    "mov L792" :> Form("mov", [Plain EXCEPT !.disp = <<16, 32, 64>>], Seg, <<Op("MOFFS", "DISP16_32_64", ByWidth,
        Wr), Implicit("GPR_OSZ", 0, Always(0), Rd)>>) @@
    "mov L793" :> Form("mov", Sized(1, Plain), {}, <<R("GPR8", "OPCODE", Wr), I("SIMM8")>>) @@
    "mov L794" :> Form("mov", Plain, {}, <<R("GPR16_32_64", "OPCODE", Wr), I("SIMM16_32_64")>>) @@
    "mov L795" :> Form("mov", Sized(1, Modrm("INVALID", "GPR")), {}, <<R("GPR8", RM, Wr), I("SIMM8")>>) @@
    "mov L796" :> Form("mov", Sized(1, Modrm("INVALID", "GPR")), {"SEGMENT", "XRELEASE", "HLE_WITHOUT_LOCK"},
        <<M("MEM", Always(1), Wr), I("SIMM8")>>) @@
    "mov L797" :> Form("mov", Modrm("INVALID", "GPR"), {}, <<R("GPR16_32_64", RM, Wr), I("SIMM16_32_32")>>) @@
    "mov L798" :> Form("mov", Modrm("INVALID", "GPR"), {"SEGMENT", "XRELEASE", "HLE_WITHOUT_LOCK"}, <<M("MEM",
        ByWidth, Wr), I("SIMM16_32_32")>>)

JzForms ==
    "jz L706" :> Form("jz", [Sized(5, Plain) EXCEPT !.branch = "NEAR"], {"BND", "BRANCH_HINTS"}, <<J("JIMM32")>>) @@
    "jz L707" :> Form("jz", [Sized(4, Plain) EXCEPT !.branch = "NEAR"], {"BND", "BRANCH_HINTS"},
        <<J("JIMM16_32_32")>>) @@
    "jz L704" :> Form("jz", [Sized(5, Plain) EXCEPT !.branch = "SHORT"], {"BND", "BRANCH_HINTS"}, <<J("JIMM8")>>)

PushForms ==
    "push L1491" :> Form("push", Sized(4, Plain), {}, <<Static("SEGMENT", 4, Always(0), Rd)>>) @@
    "push L1492" :> Form("push", Sized(4, Plain), {}, <<Static("SEGMENT", 5, Always(0), Rd)>>) @@
    "push L1486" :> Form("push", Sized(4, Plain), {}, <<R("GPR16_32_64", "OPCODE", Rd)>>) @@
    "push L1487" :> Form("push", Sized(4, Plain), {}, <<I("SIMM16_32_32")>>) @@
    "push L1488" :> Form("push", Sized(4, Plain), {}, <<I("SIMM8")>>) @@
    "push L1489" :> Form("push", Sized(4, Modrm("INVALID", "GPR")), {}, <<R("GPR16_32_64", RM, Rd)>>) @@
    "push L1490" :> Form("push", Sized(4, Modrm("INVALID", "GPR")), Seg, <<M("MEM", ByWidth, Rd)>>)

ImulForms ==
    "imul L568" :> Form("imul", Modrm("GPR", "GPR"), {}, <<R("GPR16_32_64", REG, RdWr), R("GPR16_32_64", RM, Rd)>>) @@
    "imul L569" :> Form("imul", Modrm("GPR", "GPR"), Seg, <<R("GPR16_32_64", REG, RdWr), M("MEM", ByWidth, Rd)>>) @@
    "imul L560" :> Form("imul", Modrm("GPR", "GPR"), {}, <<R("GPR16_32_64", REG, Wr), R("GPR16_32_64", RM, Rd),
        I("SIMM16_32_32")>>) @@
    "imul L561" :> Form("imul", Modrm("GPR", "GPR"), Seg, <<R("GPR16_32_64", REG, Wr), M("MEM", ByWidth, Rd),
        I("SIMM16_32_32")>>) @@
    "imul L562" :> Form("imul", Modrm("GPR", "GPR"), {}, <<R("GPR16_32_64", REG, Wr), R("GPR16_32_64", RM, Rd),
        I("SIMM8")>>) @@
    "imul L563" :> Form("imul", Modrm("GPR", "GPR"), Seg, <<R("GPR16_32_64", REG, Wr), M("MEM", ByWidth, Rd),
        I("SIMM8")>>) @@
    "imul L564" :> Form("imul", Sized(1, Modrm("INVALID", "GPR")), {}, <<R("GPR8", RM, Rd)>>) @@
    "imul L565" :> Form("imul", Sized(1, Modrm("INVALID", "GPR")), Seg, <<M("MEM", Always(1), Rd)>>) @@
    "imul L566" :> Form("imul", Modrm("INVALID", "GPR"), {}, <<R("GPR16_32_64", RM, Rd)>>) @@
    "imul L567" :> Form("imul", Modrm("INVALID", "GPR"), Seg, <<M("MEM", ByWidth, Rd)>>)

MovzxForms ==
    "movzx L924" :> Form("movzx", Modrm("GPR", "GPR"), {}, <<R("GPR16_32_64", REG, Wr), R("GPR8", RM, Rd)>>) @@
    "movzx L925" :> Form("movzx", Modrm("GPR", "GPR"), Seg, <<R("GPR16_32_64", REG, Wr), M("MEM", Always(1), Rd)>>) @@
    "movzx L926" :> Form("movzx", Modrm("GPR", "GPR"), {}, <<R("GPR16_32_64", REG, Wr), R("GPR16", RM, Rd)>>) @@
    "movzx L927" :> Form("movzx", Modrm("GPR", "GPR"), Seg, <<R("GPR16_32_64", REG, Wr), M("MEM", Always(2), Rd)>>)

PopcntForms ==
    "popcnt L1321" :> Form("popcnt", Modrm("GPR", "GPR"), {}, <<Op("GPR16_32_64", REG, ByWidth, Wr),
        Op("GPR16_32_64", RM, ByWidth, Rd)>>) @@
    "popcnt L1322" :> Form("popcnt", Modrm("GPR", "GPR"), Seg, <<Op("GPR16_32_64", REG, ByWidth, Wr), M("MEM",
        ByWidth, Rd)>>) @@
    "popcnt V135" :> Form("popcnt", Modrm("GPR", "GPR"), {}, <<Op("GPR32", REG, Always(4), Wr), Op("GPR32", RM,
        Always(4), Rd)>>) @@
    "popcnt V136" :> Form("popcnt", Modrm("GPR", "GPR"), {}, <<Op("GPR64", REG, Always(8), Wr), Op("GPR64", RM,
        Always(8), Rd)>>)

BsrForms ==
    "bsr L154" :> Form("bsr", Modrm("GPR", "GPR"), {}, <<R("GPR16_32_64", REG, Wr), R("GPR16_32_64", RM, Rd)>>) @@
    "bsr L156" :> Form("bsr", Modrm("GPR", "GPR"), {}, <<R("GPR16_32_64", REG, Wr), R("GPR16_32_64", RM, Rd)>>) @@
    "bsr L155" :> Form("bsr", Modrm("GPR", "GPR"), Seg, <<R("GPR16_32_64", REG, Wr), M("MEM", ByWidth, Rd)>>) @@
    "bsr L157" :> Form("bsr", Modrm("GPR", "GPR"), Seg, <<R("GPR16_32_64", REG, Wr), M("MEM", ByWidth, Rd)>>)

LzcntForms ==
    "lzcnt L750" :> Form("lzcnt", Modrm("GPR", "GPR"), {}, <<Op("GPR16_32_64", REG, ByWidth, Wr), Op("GPR16_32_64",
        RM, ByWidth, Rd)>>) @@
    "lzcnt L751" :> Form("lzcnt", Modrm("GPR", "GPR"), Seg, <<Op("GPR16_32_64", REG, ByWidth, Wr), M("MEM", ByWidth,
        Rd)>>) @@
    "lzcnt V115" :> Form("lzcnt", Modrm("GPR", "GPR"), {}, <<Op("GPR32", REG, Always(4), Wr), Op("GPR32", RM,
        Always(4), Rd)>>) @@
    "lzcnt V116" :> Form("lzcnt", Modrm("GPR", "GPR"), {}, <<Op("GPR64", REG, Always(8), Wr), Op("GPR64", RM,
        Always(8), Rd)>>)

Cmpxchg16bForms ==
    "cmpxchg16b L273" :> Form("cmpxchg16b", Sized(6, Modrm("INVALID", "GPR")), {"SEGMENT", "LOCK"}, <<M("MEM",
        Always(16), {"READ", "CONDWRITE"})>>)

VaddpsForms ==
    "vaddps E19" :> Form("vaddps", [Vector("VR") EXCEPT !.zeroMask = TRUE, !.maskPolicy = "ALLOWED"], {}, <<V("XMM",
        REG, Wr), V("MASK", "MASK", Rd), V("XMM", VVVV, Rd), V("XMM", RM, Rd)>>) @@
    "vaddps E20" :> Form("vaddps", [Vector("VR") EXCEPT !.zeroMask = TRUE, !.maskPolicy = "ALLOWED"], {}, <<V("YMM",
        REG, Wr), V("MASK", "MASK", Rd), V("YMM", VVVV, Rd), V("YMM", RM, Rd)>>) @@
    "vaddps E21" :> Form("vaddps", [Vector("VR") EXCEPT !.zeroMask = TRUE, !.maskPolicy = "ALLOWED"], {}, <<V("ZMM",
        REG, Wr), V("MASK", "MASK", Rd), V("ZMM", VVVV, Rd), V("ZMM", RM, Rd)>>) @@
    "vaddps E18" :> Form("vaddps", [Vector("VR") EXCEPT !.zeroMask = TRUE, !.maskPolicy = "ALLOWED", !.functionality
        = "RC", !.length = 512], {}, <<V("ZMM", REG, Wr), V("MASK", "MASK", Rd), V("ZMM", VVVV, Rd), V("ZMM", RM,
        Rd)>>) @@
    "vaddps E22" :> Form("vaddps", [Vector("GPR") EXCEPT !.zeroMask = TRUE, !.maskPolicy = "ALLOWED",
        !.functionality = "BC", !.tuple = "FV", !.elementSize = 32], Seg, <<V("XMM", REG, Wr), V("MASK", "MASK",
        Rd), V("XMM", VVVV, Rd), M("MEM", Always(0), Rd)>>) @@
    "vaddps E23" :> Form("vaddps", [Vector("GPR") EXCEPT !.zeroMask = TRUE, !.maskPolicy = "ALLOWED",
        !.functionality = "BC", !.tuple = "FV", !.elementSize = 32], Seg, <<V("YMM", REG, Wr), V("MASK", "MASK",
        Rd), V("YMM", VVVV, Rd), M("MEM", Always(0), Rd)>>) @@
    "vaddps E24" :> Form("vaddps", [Vector("GPR") EXCEPT !.zeroMask = TRUE, !.maskPolicy = "ALLOWED",
        !.functionality = "BC", !.tuple = "FV", !.elementSize = 32], Seg, <<V("ZMM", REG, Wr), V("MASK", "MASK",
        Rd), V("ZMM", VVVV, Rd), M("MEM", Always(0), Rd)>>) @@
    "vaddps M11" :> Form("vaddps", [Vector("VR") EXCEPT !.maskPolicy = "ALLOWED", !.functionality = "SWIZZLE_32"],
        {}, <<V("ZMM", REG, RdWr), Op("MASK", "MASK", Always(2), Rd), V("ZMM", VVVV, Rd), V("ZMM", RM, Rd)>>) @@
    "vaddps M12" :> Form("vaddps", [Vector("VR") EXCEPT !.maskPolicy = "ALLOWED", !.functionality = "RC"], {},
        <<V("ZMM", REG, RdWr), Op("MASK", "MASK", Always(2), Rd), V("ZMM", VVVV, Rd), V("ZMM", RM, Rd)>>) @@
    "vaddps M13" :> Form("vaddps", [Vector("GPR") EXCEPT !.maskPolicy = "ALLOWED", !.functionality = "SF_32"], Seg,
        <<V("ZMM", REG, RdWr), Op("MASK", "MASK", Always(2), Rd), V("ZMM", VVVV, Rd), M("MEM", Always(0), Rd)>>) @@
    "vaddps V183" :> Form("vaddps", Vector("VR"), {}, <<V("XMM", REG, Wr), V("XMM", VVVV, Rd), V("XMM", RM, Rd)>>) @@
    "vaddps V185" :> Form("vaddps", Vector("GPR"), Seg, <<V("XMM", REG, Wr), V("XMM", VVVV, Rd), M("MEM",
        Always(16), Rd)>>) @@
    "vaddps V184" :> Form("vaddps", Vector("VR"), {}, <<V("YMM", REG, Wr), V("YMM", VVVV, Rd), V("YMM", RM, Rd)>>) @@
    "vaddps V186" :> Form("vaddps", Vector("GPR"), Seg, <<V("YMM", REG, Wr), V("YMM", VVVV, Rd), M("MEM",
        Always(32), Rd)>>)

VgatherdpsForms ==
    "vgatherdps E1386" :> Form("vgatherdps", [Modrm("VR", "INVALID") EXCEPT !.opRm.mem = "VSIB", !.gather = TRUE,
        !.maskPolicy = "REQUIRED", !.tuple = "GSCAT", !.elementSize = 32, !.opRm.noRip = TRUE], Seg, <<V("XMM", REG,
        Wr), V("MASK", "MASK", RdWr), M("MEM_VSIBX", Always(4), Rd)>>) @@
    "vgatherdps E1387" :> Form("vgatherdps", [Modrm("VR", "INVALID") EXCEPT !.opRm.mem = "VSIB", !.gather = TRUE,
        !.maskPolicy = "REQUIRED", !.tuple = "GSCAT", !.elementSize = 32, !.opRm.noRip = TRUE], Seg, <<V("YMM", REG,
        Wr), V("MASK", "MASK", RdWr), M("MEM_VSIBY", Always(4), Rd)>>) @@
    "vgatherdps E1388" :> Form("vgatherdps", [Modrm("VR", "INVALID") EXCEPT !.opRm.mem = "VSIB", !.gather = TRUE,
        !.maskPolicy = "REQUIRED", !.tuple = "GSCAT", !.elementSize = 32, !.opRm.noRip = TRUE], Seg, <<V("ZMM", REG,
        Wr), V("MASK", "MASK", RdWr), M("MEM_VSIBZ", Always(4), Rd)>>) @@
    "vgatherdps M152" :> Form("vgatherdps", [Modrm("VR", "INVALID") EXCEPT !.opRm.mem = "VSIB", !.gather = TRUE,
        !.maskPolicy = "ALLOWED", !.functionality = "UF_32", !.broadcast = <<1, 16>>, !.opRm.noRip = TRUE], Seg,
        <<V("ZMM", REG, RdWr), Op("MASK", "MASK", Always(2), RdWr), M("MEM_VSIBZ", Always(0), Rd)>>) @@
    "vgatherdps V717" :> Form("vgatherdps", [Vector("INVALID") EXCEPT !.opRm.mem = "VSIB", !.gather = TRUE,
        !.opRm.noRip = TRUE], Seg, <<V("XMM", REG, {"WRITE", "CONDREAD"}), M("MEM_VSIBX", Always(4), Rd), V("XMM",
        VVVV, RdWr)>>) @@
    "vgatherdps V718" :> Form("vgatherdps", [Vector("INVALID") EXCEPT !.opRm.mem = "VSIB", !.gather = TRUE,
        !.opRm.noRip = TRUE], Seg, <<V("YMM", REG, {"WRITE", "CONDREAD"}), M("MEM_VSIBY", Always(4), Rd), V("YMM",
        VVVV, RdWr)>>)

XchgForms ==
    "xchg L1894" :> Form("xchg", Sized(1, Modrm("GPR", "GPR")), {}, <<R("GPR8", RM, RdWr), R("GPR8", REG, RdWr)>>) @@
    "xchg L1895" :> Form("xchg", Sized(1, Modrm("GPR", "GPR")), Lock \cup {"HLE_WITHOUT_LOCK"}, <<M("MEM",
        Always(1), RdWr), R("GPR8", REG, RdWr)>>) @@
    "xchg L1896" :> Form("xchg", Modrm("GPR", "GPR"), {}, <<R("GPR16_32_64", RM, RdWr), R("GPR16_32_64", REG,
        RdWr)>>) @@
    "xchg L1897" :> Form("xchg", Modrm("GPR", "GPR"), Lock \cup {"HLE_WITHOUT_LOCK"}, <<M("MEM", ByWidth, RdWr),
        R("GPR16_32_64", REG, RdWr)>>) @@
    "xchg L1898" :> Form("xchg", Plain, {}, <<R("GPR16_32_64", "OPCODE", RdWr), Implicit("GPR_OSZ", 0, Always(0),
        RdWr)>>) @@
    "xchg L1899" :> Form("xchg", Plain, {}, <<R("GPR16_32_64", "OPCODE", RdWr), Implicit("GPR_OSZ", 0, Always(0),
        RdWr)>>)

LeaForms ==
    "lea L715" :> Form("lea", [Modrm("GPR", "X87") EXCEPT !.opRm.mem = "AGEN"], {}, <<R("GPR16_32_64", REG, Wr),
        M("AGEN", Always(0), Rd)>>)

VpcmovForms ==
    "vpcmov X38" :> Form("vpcmov", Vector("VR"), {}, <<V("XMM", REG, Wr), V("XMM", VVVV, Rd), V("XMM", RM, Rd),
        V("XMM", "IS4", Rd)>>) @@
    "vpcmov X39" :> Form("vpcmov", Vector("VR"), {}, <<V("XMM", REG, Wr), V("XMM", VVVV, Rd), V("XMM", "IS4", Rd),
        V("XMM", RM, Rd)>>) @@
    "vpcmov X42" :> Form("vpcmov", Vector("GPR"), Seg, <<V("XMM", REG, Wr), V("XMM", VVVV, Rd), M("MEM", Always(16),
        Rd), V("XMM", "IS4", Rd)>>) @@
    "vpcmov X43" :> Form("vpcmov", Vector("GPR"), Seg, <<V("XMM", REG, Wr), V("XMM", VVVV, Rd), V("XMM", "IS4", Rd),
        M("MEM", Always(16), Rd)>>) @@
    "vpcmov X40" :> Form("vpcmov", Vector("VR"), {}, <<V("YMM", REG, Wr), V("YMM", VVVV, Rd), V("YMM", RM, Rd),
        V("YMM", "IS4", Rd)>>) @@
    "vpcmov X41" :> Form("vpcmov", Vector("VR"), {}, <<V("YMM", REG, Wr), V("YMM", VVVV, Rd), V("YMM", "IS4", Rd),
        V("YMM", RM, Rd)>>) @@
    "vpcmov X44" :> Form("vpcmov", Vector("GPR"), Seg, <<V("YMM", REG, Wr), V("YMM", VVVV, Rd), M("MEM", Always(32),
        Rd), V("YMM", "IS4", Rd)>>) @@
    "vpcmov X45" :> Form("vpcmov", Vector("GPR"), Seg, <<V("YMM", REG, Wr), V("YMM", VVVV, Rd), V("YMM", "IS4", Rd),
        M("MEM", Always(32), Rd)>>)

NopForms ==
    "nop L950" :> Form("nop", Plain, {}, <<>>)

PauseForms ==
    "pause L1116" :> Form("pause", Plain, {}, <<>>)

CbwForms ==
    "cbw L182" :> Form("cbw", Plain, {}, <<>>)

CwdeForms ==
    "cwde L343" :> Form("cwde", Plain, {}, <<>>)

CdqeForms ==
    "cdqe L184" :> Form("cdqe", Plain, {}, <<>>)

MovsbForms ==
    "movsb L886" :> Form("movsb", Sized(1, Plain), {"SEGMENT", "REP", "REPNE"}, <<>>) @@
    "movsb L887" :> Form("movsb", Sized(1, Plain), {"SEGMENT", "REP", "REPNE"}, <<>>) @@
    "movsb L888" :> Form("movsb", Sized(1, Plain), {"SEGMENT", "REP", "REPNE"}, <<>>)

ShlForms ==
    "shl L1690" :> Form("shl", Sized(1, Modrm("INVALID", "GPR")), {}, <<R("GPR8", RM, RdWr), I("UIMM8")>>) @@
    "shl L1691" :> Form("shl", Sized(1, Modrm("INVALID", "GPR")), {}, <<R("GPR8", RM, RdWr), I("UIMM8")>>) @@
    "shl L1692" :> Form("shl", Sized(1, Modrm("INVALID", "GPR")), Seg, <<M("MEM", Always(1), RdWr), I("UIMM8")>>) @@
    "shl L1693" :> Form("shl", Sized(1, Modrm("INVALID", "GPR")), Seg, <<M("MEM", Always(1), RdWr), I("UIMM8")>>) @@
    "shl L1694" :> Form("shl", Modrm("INVALID", "GPR"), {}, <<R("GPR16_32_64", RM, RdWr), I("UIMM8")>>) @@
    "shl L1695" :> Form("shl", Modrm("INVALID", "GPR"), {}, <<R("GPR16_32_64", RM, RdWr), I("UIMM8")>>) @@
    "shl L1696" :> Form("shl", Modrm("INVALID", "GPR"), Seg, <<M("MEM", ByWidth, RdWr), I("UIMM8")>>) @@
    "shl L1697" :> Form("shl", Modrm("INVALID", "GPR"), Seg, <<M("MEM", ByWidth, RdWr), I("UIMM8")>>) @@
    "shl L1698" :> Form("shl", Sized(1, Modrm("INVALID", "GPR")), {}, <<R("GPR8", RM, RdWr), One(Always(1))>>) @@
    "shl L1699" :> Form("shl", Sized(1, Modrm("INVALID", "GPR")), {}, <<R("GPR8", RM, RdWr), One(Always(1))>>) @@
    "shl L1700" :> Form("shl", Sized(1, Modrm("INVALID", "GPR")), Seg, <<M("MEM", Always(1), RdWr),
        One(Always(1))>>) @@
    "shl L1701" :> Form("shl", Sized(1, Modrm("INVALID", "GPR")), Seg, <<M("MEM", Always(1), RdWr),
        One(Always(1))>>) @@
    "shl L1702" :> Form("shl", Modrm("INVALID", "GPR"), {}, <<R("GPR16_32_64", RM, RdWr), One(Always(1))>>) @@
    "shl L1703" :> Form("shl", Modrm("INVALID", "GPR"), {}, <<R("GPR16_32_64", RM, RdWr), One(Always(1))>>) @@
    "shl L1704" :> Form("shl", Modrm("INVALID", "GPR"), Seg, <<M("MEM", ByWidth, RdWr), One(Always(1))>>) @@
    "shl L1705" :> Form("shl", Modrm("INVALID", "GPR"), Seg, <<M("MEM", ByWidth, RdWr), One(Always(1))>>) @@
    "shl L1706" :> Form("shl", Sized(1, Modrm("INVALID", "GPR")), {}, <<R("GPR8", RM, RdWr), Static("GPR8", 1,
        Always(0), Rd)>>) @@
    "shl L1707" :> Form("shl", Sized(1, Modrm("INVALID", "GPR")), {}, <<R("GPR8", RM, RdWr), Static("GPR8", 1,
        Always(0), Rd)>>) @@
    "shl L1708" :> Form("shl", Sized(1, Modrm("INVALID", "GPR")), Seg, <<M("MEM", Always(1), RdWr), Static("GPR8",
        1, Always(0), Rd)>>) @@
    "shl L1709" :> Form("shl", Sized(1, Modrm("INVALID", "GPR")), Seg, <<M("MEM", Always(1), RdWr), Static("GPR8",
        1, Always(0), Rd)>>) @@
    "shl L1710" :> Form("shl", Modrm("INVALID", "GPR"), {}, <<R("GPR16_32_64", RM, RdWr), Static("GPR8", 1,
        Always(0), Rd)>>) @@
    "shl L1711" :> Form("shl", Modrm("INVALID", "GPR"), {}, <<R("GPR16_32_64", RM, RdWr), Static("GPR8", 1,
        Always(0), Rd)>>) @@
    "shl L1712" :> Form("shl", Modrm("INVALID", "GPR"), Seg, <<M("MEM", ByWidth, RdWr), Static("GPR8", 1, Always(0),
        Rd)>>) @@
    "shl L1713" :> Form("shl", Modrm("INVALID", "GPR"), Seg, <<M("MEM", ByWidth, RdWr), Static("GPR8", 1, Always(0),
        Rd)>>)

VmovdqaForms ==
    "vmovdqa V821" :> Form("vmovdqa", Modrm("VR", "VR"), {}, <<V("XMM", REG, Wr), V("XMM", RM, Rd)>>) @@
    "vmovdqa V823" :> Form("vmovdqa", Modrm("VR", "GPR"), Seg, <<V("XMM", REG, Wr), M("MEM", Always(16), Rd)>>) @@
    "vmovdqa V822" :> Form("vmovdqa", Modrm("VR", "VR"), {}, <<V("YMM", REG, Wr), V("YMM", RM, Rd)>>) @@
    "vmovdqa V824" :> Form("vmovdqa", Modrm("VR", "GPR"), Seg, <<V("YMM", REG, Wr), M("MEM", Always(32), Rd)>>) @@
    "vmovdqa V825" :> Form("vmovdqa", Modrm("VR", "VR"), {}, <<V("XMM", RM, Wr), V("XMM", REG, Rd)>>) @@
    "vmovdqa V827" :> Form("vmovdqa", Modrm("VR", "GPR"), Seg, <<M("MEM", Always(16), Wr), V("XMM", REG, Rd)>>) @@
    "vmovdqa V826" :> Form("vmovdqa", Modrm("VR", "VR"), {}, <<V("YMM", RM, Wr), V("YMM", REG, Rd)>>) @@
    "vmovdqa V828" :> Form("vmovdqa", Modrm("VR", "GPR"), Seg, <<M("MEM", Always(32), Wr), V("YMM", REG, Rd)>>)

KmovbForms ==
    "kmovb V51" :> Form("kmovb", [Modrm("MASK", "MASK") EXCEPT !.opRm.noRip = TRUE], {}, <<V("MASK", REG, Wr),
        V("MASK", RM, Rd)>>) @@
    "kmovb V52" :> Form("kmovb", Modrm("MASK", "GPR"), Seg, <<V("MASK", REG, Wr), M("MEM", Always(1), Rd)>>) @@
    "kmovb V53" :> Form("kmovb", Modrm("MASK", "GPR"), Seg, <<M("MEM", Always(1), Wr), V("MASK", REG, Rd)>>) @@
    "kmovb V54" :> Form("kmovb", Modrm("MASK", "GPR"), {}, <<V("MASK", REG, Wr), Op("GPR32", RM, Always(4), Rd)>>) @@
    "kmovb V55" :> Form("kmovb", [Modrm("GPR", "MASK") EXCEPT !.opRm.noRip = TRUE], {}, <<Op("GPR32", REG,
        Always(4), Wr), V("MASK", RM, Rd)>>)

VblendvpsForms ==
    "vblendvps V251" :> Form("vblendvps", Vector("VR"), {}, <<V("XMM", REG, Wr), V("XMM", VVVV, Rd), V("XMM", RM,
        Rd), V("XMM", "IS4", Rd)>>) @@
    "vblendvps V253" :> Form("vblendvps", Vector("GPR"), Seg, <<V("XMM", REG, Wr), V("XMM", VVVV, Rd), M("MEM",
        Always(16), Rd), V("XMM", "IS4", Rd)>>) @@
    "vblendvps V252" :> Form("vblendvps", Vector("VR"), {}, <<V("YMM", REG, Wr), V("YMM", VVVV, Rd), V("YMM", RM,
        Rd), V("YMM", "IS4", Rd)>>) @@
    "vblendvps V254" :> Form("vblendvps", Vector("GPR"), Seg, <<V("YMM", REG, Wr), V("YMM", VVVV, Rd), M("MEM",
        Always(32), Rd), V("YMM", "IS4", Rd)>>)

XbeginForms ==
    "xbegin L1893" :> Form("xbegin", Modrm("INVALID", "INVALID"), {}, <<J("JIMM16_32_32")>>)

LoopForms ==
    "loop L742" :> Form("loop", [Sized(5, Plain) EXCEPT !.branch = "SHORT"], {}, <<J("JIMM8")>>)

JecxzForms ==
    "jecxz L627" :> Form("jecxz", [Sized(5, Plain) EXCEPT !.branch = "SHORT"], {}, <<J("JIMM8")>>)

JrcxzForms ==
    "jrcxz L698" :> Form("jrcxz", [Sized(5, Plain) EXCEPT !.branch = "SHORT"], {}, <<J("JIMM8")>>)

CallForms ==
    "call L176" :> Form("call", [Sized(5, Plain) EXCEPT !.branch = "NEAR"], {"BND"}, <<J("JIMM32")>>) @@
    "call L177" :> Form("call", [Sized(4, Plain) EXCEPT !.branch = "NEAR"], {"BND"}, <<J("JIMM16_32_32")>>) @@
    "call L179" :> Form("call", [Sized(5, Modrm("INVALID", "GPR")) EXCEPT !.branch = "NEAR"], {"BND", "NOTRACK"},
        <<R("GPR16_32_64", RM, Rd)>>) @@
    "call L180" :> Form("call", [Sized(5, Modrm("INVALID", "GPR")) EXCEPT !.branch = "NEAR"], {"SEGMENT", "BND",
        "NOTRACK"}, <<M("MEM", ByWidth, Rd)>>) @@
    "call L181" :> Form("call", [Modrm("INVALID", "GPR") EXCEPT !.branch = "FAR"], Seg, <<M("MEM", <<4, 6, 10>>,
        Rd)>>)

JmpForms ==
    "jmp L639" :> Form("jmp", [Sized(5, Plain) EXCEPT !.branch = "NEAR"], {"BND"}, <<J("JIMM32")>>) @@
    "jmp L640" :> Form("jmp", [Sized(4, Plain) EXCEPT !.branch = "NEAR"], {"BND"}, <<J("JIMM16_32_32")>>) @@
    "jmp L643" :> Form("jmp", [Sized(5, Plain) EXCEPT !.branch = "SHORT"], {}, <<J("JIMM8")>>) @@
    "jmp L645" :> Form("jmp", [Sized(5, Modrm("INVALID", "GPR")) EXCEPT !.branch = "NEAR"], {"BND", "NOTRACK"},
        <<R("GPR16_32_64", RM, Rd)>>) @@
    "jmp L646" :> Form("jmp", [Sized(5, Modrm("INVALID", "GPR")) EXCEPT !.branch = "NEAR"], {"SEGMENT", "BND",
        "NOTRACK"}, <<M("MEM", ByWidth, Rd)>>) @@
    "jmp L647" :> Form("jmp", [Modrm("INVALID", "GPR") EXCEPT !.branch = "FAR"], Seg, <<M("MEM", <<4, 6, 10>>,
        Rd)>>)

-----------------------------------------------------------------------------
(* Filters *)

OneByteFilters ==
    "OPCODE" :> Filter("OPCODE", 0 :> "MODRM_MOD_COMPACT 00" @@ 1 :> "MODRM_MOD_COMPACT 01" @@ 2 :>
        "MODRM_MOD_COMPACT 02" @@ 3 :> "MODRM_MOD_COMPACT 03" @@ 4 :> "add L38" @@ 5 :> "add L39" @@ 15 :>
        "OPCODE 0F" @@ 80 :> "push L1486" @@ 81 :> "push L1486" @@ 82 :> "push L1486" @@ 83 :> "push L1486" @@ 84 :>
        "push L1486" @@ 85 :> "push L1486" @@ 86 :> "push L1486" @@ 87 :> "push L1486" @@ 98 :> "EMVEX 62" @@ 104 :>
        "push L1487" @@ 105 :> "MODRM_MOD_COMPACT 69" @@ 106 :> "push L1488" @@ 107 :> "MODRM_MOD_COMPACT 6B" @@ 116
        :> "MODE_COMPACT 74" @@ 128 :> "MODRM_MOD_COMPACT 80" @@ 129 :> "MODRM_MOD_COMPACT 81" @@ 131 :>
        "MODRM_MOD_COMPACT 83" @@ 134 :> "MODRM_MOD_COMPACT 86" @@ 135 :> "MODRM_MOD_COMPACT 87" @@ 136 :>
        "MODRM_MOD_COMPACT 88" @@ 137 :> "MODRM_MOD_COMPACT 89" @@ 138 :> "MODRM_MOD_COMPACT 8A" @@ 139 :>
        "MODRM_MOD_COMPACT 8B" @@ 140 :> "MODRM_MOD_COMPACT 8C" @@ 141 :> "MODRM_MOD_COMPACT 8D" @@ 142 :>
        "MODRM_MOD_COMPACT 8E" @@ 143 :> "XOP 8F" @@ 144 :> "MANDATORY_PREFIX 90" @@ 145 :> "xchg L1899" @@ 146 :>
        "xchg L1899" @@ 147 :> "xchg L1899" @@ 148 :> "xchg L1899" @@ 149 :> "xchg L1899" @@ 150 :> "xchg L1899" @@
        151 :> "xchg L1899" @@ 152 :> "OPERAND_SIZE 98" @@ 160 :> "mov L789" @@ 161 :> "mov L790" @@ 162 :>
        "mov L791" @@ 163 :> "mov L792" @@ 164 :> "MANDATORY_PREFIX A4" @@ 176 :> "mov L793" @@ 177 :> "mov L793" @@
        178 :> "mov L793" @@ 179 :> "mov L793" @@ 180 :> "mov L793" @@ 181 :> "mov L793" @@ 182 :> "mov L793" @@ 183
        :> "mov L793" @@ 184 :> "mov L794" @@ 185 :> "mov L794" @@ 186 :> "mov L794" @@ 187 :> "mov L794" @@ 188 :>
        "mov L794" @@ 189 :> "mov L794" @@ 190 :> "mov L794" @@ 191 :> "mov L794" @@ 192 :> "MODRM_MOD_COMPACT C0"
        @@ 193 :> "MODRM_MOD_COMPACT C1" @@ 196 :> "VEX C4" @@ 197 :> "VEX C5" @@ 198 :> "MODRM_MOD_COMPACT C6" @@
        199 :> "MODRM_MOD_COMPACT C7" @@ 208 :> "MODRM_MOD_COMPACT D0" @@ 209 :> "MODRM_MOD_COMPACT D1" @@ 210 :>
        "MODRM_MOD_COMPACT D2" @@ 211 :> "MODRM_MOD_COMPACT D3" @@ 226 :> "loop L742" @@ 227 :> "MODE_COMPACT E3" @@
        232 :> "MODE_COMPACT E8" @@ 233 :> "MODE_COMPACT E9" @@ 235 :> "MODE_COMPACT EB" @@ 246 :>
        "MODRM_MOD_COMPACT F6" @@ 247 :> "MODRM_MOD_COMPACT F7" @@ 255 :> "MODRM_MOD_COMPACT FF") @@
    "MODRM_MOD_COMPACT 00" :> Filter("MODRM_MOD_COMPACT", 0 :> "add L30" @@ 1 :> "add L31") @@
    "MODRM_MOD_COMPACT 01" :> Filter("MODRM_MOD_COMPACT", 0 :> "add L32" @@ 1 :> "add L33") @@
    "MODRM_MOD_COMPACT 02" :> Filter("MODRM_MOD_COMPACT", 0 :> "add L34" @@ 1 :> "add L35") @@
    "MODRM_MOD_COMPACT 03" :> Filter("MODRM_MOD_COMPACT", 0 :> "add L36" @@ 1 :> "add L37") @@
    "EMVEX 62" :> Filter("EMVEX", 2 :> "OPCODE EVEX1 0" @@ 11 :> "OPCODE EVEX2 1" @@ 34 :> "OPCODE MVEX1 0" @@ 39 :>
        "OPCODE MVEX2 1") @@
    "MODRM_MOD_COMPACT 69" :> Filter("MODRM_MOD_COMPACT", 0 :> "imul L560" @@ 1 :> "imul L561") @@
    "MODRM_MOD_COMPACT 6B" :> Filter("MODRM_MOD_COMPACT", 0 :> "imul L562" @@ 1 :> "imul L563") @@
    "MODE_COMPACT 74" :> Filter("MODE_COMPACT", 0 :> "jz L704") @@
    "MODRM_MOD_COMPACT 80" :> Filter("MODRM_MOD_COMPACT", 0 :> "MODRM_REG 80" @@ 1 :> "MODRM_REG 80'") @@
    "MODRM_REG 80" :> Filter("MODRM_REG", 0 :> "add L40") @@
    "MODRM_REG 80'" :> Filter("MODRM_REG", 0 :> "add L41") @@
    "MODRM_MOD_COMPACT 81" :> Filter("MODRM_MOD_COMPACT", 0 :> "MODRM_REG 81" @@ 1 :> "MODRM_REG 81'") @@
    "MODRM_REG 81" :> Filter("MODRM_REG", 0 :> "add L42") @@
    "MODRM_REG 81'" :> Filter("MODRM_REG", 0 :> "add L43") @@
    "MODRM_MOD_COMPACT 83" :> Filter("MODRM_MOD_COMPACT", 0 :> "MODRM_REG 83" @@ 1 :> "MODRM_REG 83'") @@
    "MODRM_REG 83" :> Filter("MODRM_REG", 0 :> "add L46") @@
    "MODRM_REG 83'" :> Filter("MODRM_REG", 0 :> "add L47") @@
    "MODRM_MOD_COMPACT 86" :> Filter("MODRM_MOD_COMPACT", 0 :> "xchg L1894" @@ 1 :> "xchg L1895") @@
    "MODRM_MOD_COMPACT 87" :> Filter("MODRM_MOD_COMPACT", 0 :> "xchg L1896" @@ 1 :> "xchg L1897") @@
    "MODRM_MOD_COMPACT 88" :> Filter("MODRM_MOD_COMPACT", 0 :> "mov L777" @@ 1 :> "mov L778") @@
    "MODRM_MOD_COMPACT 89" :> Filter("MODRM_MOD_COMPACT", 0 :> "mov L779" @@ 1 :> "mov L780") @@
    "MODRM_MOD_COMPACT 8A" :> Filter("MODRM_MOD_COMPACT", 0 :> "mov L781" @@ 1 :> "mov L782") @@
    "MODRM_MOD_COMPACT 8B" :> Filter("MODRM_MOD_COMPACT", 0 :> "mov L783" @@ 1 :> "mov L784") @@
    "MODRM_MOD_COMPACT 8C" :> Filter("MODRM_MOD_COMPACT", 0 :> "mov L785" @@ 1 :> "mov L786") @@
    "MODRM_MOD_COMPACT 8D" :> Filter("MODRM_MOD_COMPACT", 1 :> "lea L715") @@
    "MODRM_MOD_COMPACT 8E" :> Filter("MODRM_MOD_COMPACT", 0 :> "mov L787" @@ 1 :> "mov L788") @@
    "XOP 8F" :> Filter("XOP", 1 :> "OPCODE XOP8 0") @@
    "MANDATORY_PREFIX 90" :> Filter("MANDATORY_PREFIX", 0 :> "REX_B 90" @@ 3 :> "pause L1116") @@
    "REX_B 90" :> Filter("REX_B", 0 :> "nop L950" @@ 1 :> "xchg L1898") @@
    "OPERAND_SIZE 98" :> Filter("OPERAND_SIZE", 0 :> "cbw L182" @@ 1 :> "cwde L343" @@ 2 :> "REX_W 98") @@
    "REX_W 98" :> Filter("REX_W", 1 :> "cdqe L184") @@
    "MANDATORY_PREFIX A4" :> Filter("MANDATORY_PREFIX", 0 :> "movsb L886" @@ 3 :> "movsb L887" @@ 4 :> "movsb L888") @@
    "MODRM_MOD_COMPACT C0" :> Filter("MODRM_MOD_COMPACT", 0 :> "MODRM_REG C0" @@ 1 :> "MODRM_REG C0'") @@
    "MODRM_REG C0" :> Filter("MODRM_REG", 4 :> "shl L1690" @@ 6 :> "shl L1691") @@
    "MODRM_REG C0'" :> Filter("MODRM_REG", 4 :> "shl L1692" @@ 6 :> "shl L1693") @@
    "MODRM_MOD_COMPACT C1" :> Filter("MODRM_MOD_COMPACT", 0 :> "MODRM_REG C1" @@ 1 :> "MODRM_REG C1'") @@
    "MODRM_REG C1" :> Filter("MODRM_REG", 4 :> "shl L1694" @@ 6 :> "shl L1695") @@
    "MODRM_REG C1'" :> Filter("MODRM_REG", 4 :> "shl L1696" @@ 6 :> "shl L1697") @@
    "VEX C4" :> Filter("VEX", 2 :> "OPCODE VEX1 0" @@ 6 :> "OPCODE VEX1 1" @@ 7 :> "OPCODE VEX2 1" @@ 8 :>
        "OPCODE VEX3 1" @@ 10 :> "OPCODE VEX1 2") @@
    "VEX C5" :> Filter("VEX", 2 :> "OPCODE VEX1 0'" @@ 6 :> "OPCODE VEX1 1'" @@ 10 :> "OPCODE VEX1 2'") @@
    "MODRM_MOD_COMPACT C6" :> Filter("MODRM_MOD_COMPACT", 0 :> "MODRM_REG C6" @@ 1 :> "MODRM_REG C6'") @@
    "MODRM_REG C6" :> Filter("MODRM_REG", 0 :> "mov L795") @@
    "MODRM_REG C6'" :> Filter("MODRM_REG", 0 :> "mov L796") @@
    "MODRM_MOD_COMPACT C7" :> Filter("MODRM_MOD_COMPACT", 0 :> "MODRM_REG C7" @@ 1 :> "MODRM_REG C7'") @@
    "MODRM_REG C7" :> Filter("MODRM_REG", 0 :> "mov L797" @@ 7 :> "MODRM_RM C7") @@
    "MODRM_RM C7" :> Filter("MODRM_RM", 0 :> "xbegin L1893") @@
    "MODRM_REG C7'" :> Filter("MODRM_REG", 0 :> "mov L798") @@
    "MODRM_MOD_COMPACT D0" :> Filter("MODRM_MOD_COMPACT", 0 :> "MODRM_REG D0" @@ 1 :> "MODRM_REG D0'") @@
    "MODRM_REG D0" :> Filter("MODRM_REG", 4 :> "shl L1698" @@ 6 :> "shl L1699") @@
    "MODRM_REG D0'" :> Filter("MODRM_REG", 4 :> "shl L1700" @@ 6 :> "shl L1701") @@
    "MODRM_MOD_COMPACT D1" :> Filter("MODRM_MOD_COMPACT", 0 :> "MODRM_REG D1" @@ 1 :> "MODRM_REG D1'") @@
    "MODRM_REG D1" :> Filter("MODRM_REG", 4 :> "shl L1702" @@ 6 :> "shl L1703") @@
    "MODRM_REG D1'" :> Filter("MODRM_REG", 4 :> "shl L1704" @@ 6 :> "shl L1705") @@
    "MODRM_MOD_COMPACT D2" :> Filter("MODRM_MOD_COMPACT", 0 :> "MODRM_REG D2" @@ 1 :> "MODRM_REG D2'") @@
    "MODRM_REG D2" :> Filter("MODRM_REG", 4 :> "shl L1706" @@ 6 :> "shl L1707") @@
    "MODRM_REG D2'" :> Filter("MODRM_REG", 4 :> "shl L1708" @@ 6 :> "shl L1709") @@
    "MODRM_MOD_COMPACT D3" :> Filter("MODRM_MOD_COMPACT", 0 :> "MODRM_REG D3" @@ 1 :> "MODRM_REG D3'") @@
    "MODRM_REG D3" :> Filter("MODRM_REG", 4 :> "shl L1710" @@ 6 :> "shl L1711") @@
    "MODRM_REG D3'" :> Filter("MODRM_REG", 4 :> "shl L1712" @@ 6 :> "shl L1713") @@
    "MODE_COMPACT E3" :> Filter("MODE_COMPACT", 0 :> "ADDRESS_SIZE E3") @@
    "ADDRESS_SIZE E3" :> Filter("ADDRESS_SIZE", 1 :> "jecxz L627" @@ 2 :> "jrcxz L698") @@
    "MODE_COMPACT E8" :> Filter("MODE_COMPACT", 0 :> "MODE_AMD E8") @@
    "MODE_AMD E8" :> Filter("MODE_AMD", 0 :> "call L176" @@ 1 :> "call L177") @@
    "MODE_COMPACT E9" :> Filter("MODE_COMPACT", 0 :> "MODE_AMD E9") @@
    "MODE_AMD E9" :> Filter("MODE_AMD", 0 :> "jmp L639" @@ 1 :> "jmp L640") @@
    "MODE_COMPACT EB" :> Filter("MODE_COMPACT", 0 :> "jmp L643") @@
    "MODRM_MOD_COMPACT F6" :> Filter("MODRM_MOD_COMPACT", 0 :> "MODRM_REG F6" @@ 1 :> "MODRM_REG F6'") @@
    "MODRM_REG F6" :> Filter("MODRM_REG", 5 :> "imul L564") @@
    "MODRM_REG F6'" :> Filter("MODRM_REG", 5 :> "imul L565") @@
    "MODRM_MOD_COMPACT F7" :> Filter("MODRM_MOD_COMPACT", 0 :> "MODRM_REG F7" @@ 1 :> "MODRM_REG F7'") @@
    "MODRM_REG F7" :> Filter("MODRM_REG", 5 :> "imul L566") @@
    "MODRM_REG F7'" :> Filter("MODRM_REG", 5 :> "imul L567") @@
    "MODRM_MOD_COMPACT FF" :> Filter("MODRM_MOD_COMPACT", 0 :> "MODRM_REG FF" @@ 1 :> "MODRM_REG FF'") @@
    "MODRM_REG FF" :> Filter("MODRM_REG", 2 :> "call L179" @@ 4 :> "jmp L645" @@ 6 :> "push L1489") @@
    "MODRM_REG FF'" :> Filter("MODRM_REG", 2 :> "call L180" @@ 3 :> "call L181" @@ 4 :> "jmp L646" @@ 5 :>
        "jmp L647" @@ 6 :> "push L1490")

TwoByteFilters ==
    "OPCODE 0F" :> Filter("OPCODE", 15 :> "OPCODE 0F 0F" @@ 16 :> "MODRM_MOD_COMPACT 0F 10" @@ 17 :>
        "MODRM_MOD_COMPACT 0F 11" @@ 26 :> "MODE_MPX 0F 1A" @@ 27 :> "MODE_MPX 0F 1B" @@ 30 :>
        "MODRM_MOD_COMPACT 0F 1E" @@ 32 :> "MODE_COMPACT 0F 20" @@ 33 :> "MODE_COMPACT 0F 21" @@ 34 :>
        "MODE_COMPACT 0F 22" @@ 35 :> "MODE_COMPACT 0F 23" @@ 132 :> "MODE_COMPACT 0F 84" @@ 160 :> "push L1491" @@
        168 :> "push L1492" @@ 175 :> "MODRM_MOD_COMPACT 0F AF" @@ 182 :> "MODRM_MOD_COMPACT 0F B6" @@ 183 :>
        "MODRM_MOD_COMPACT 0F B7" @@ 184 :> "MODRM_MOD_COMPACT 0F B8" @@ 189 :> "MODRM_MOD_COMPACT 0F BD" @@ 199 :>
        "MODRM_MOD_COMPACT 0F C7") @@
    "OPCODE 0F 0F" :> Filter("OPCODE", 12 :> "MODRM_MOD_COMPACT 0F 0F 0C" @@ 158 :> "MODRM_MOD_COMPACT 0F 0F 9E") @@
    "MODRM_MOD_COMPACT 0F 0F 0C" :> Filter("MODRM_MOD_COMPACT", 0 :> "pi2fw 342" @@ 1 :> "pi2fw 343") @@
    "MODRM_MOD_COMPACT 0F 0F 9E" :> Filter("MODRM_MOD_COMPACT", 0 :> "pfadd 38" @@ 1 :> "pfadd 39") @@
    "MODRM_MOD_COMPACT 0F 10" :> Filter("MODRM_MOD_COMPACT", 0 :> "MANDATORY_PREFIX 0F 10" @@ 1 :>
        "MANDATORY_PREFIX 0F 10'") @@
    "MANDATORY_PREFIX 0F 10" :> Filter("MANDATORY_PREFIX", 1 :> "movups L920" @@ 2 :> "movupd L916") @@
    "MANDATORY_PREFIX 0F 10'" :> Filter("MANDATORY_PREFIX", 1 :> "movups L921" @@ 2 :> "movupd L917") @@
    "MODRM_MOD_COMPACT 0F 11" :> Filter("MODRM_MOD_COMPACT", 0 :> "MANDATORY_PREFIX 0F 11" @@ 1 :>
        "MANDATORY_PREFIX 0F 11'") @@
    "MANDATORY_PREFIX 0F 11" :> Filter("MANDATORY_PREFIX", 1 :> "movups L922" @@ 2 :> "movupd L918") @@
    "MANDATORY_PREFIX 0F 11'" :> Filter("MANDATORY_PREFIX", 1 :> "movups L923" @@ 2 :> "movupd L919") @@
    "MODE_MPX 0F 1A" :> Filter("MODE_MPX", 1 :> "MODRM_MOD_COMPACT 0F 1A") @@
    "MODRM_MOD_COMPACT 0F 1A" :> Filter("MODRM_MOD_COMPACT", 0 :> "MANDATORY_PREFIX 0F 1A" @@ 1 :>
        "MANDATORY_PREFIX 0F 1A'") @@
    "MANDATORY_PREFIX 0F 1A" :> Filter("MANDATORY_PREFIX", 2 :> "bndmov L140") @@
    "MANDATORY_PREFIX 0F 1A'" :> Filter("MANDATORY_PREFIX", 2 :> "MODE_COMPACT 0F 1A") @@
    "MODE_COMPACT 0F 1A" :> Filter("MODE_COMPACT", 0 :> "bndmov L141") @@
    "MODE_MPX 0F 1B" :> Filter("MODE_MPX", 1 :> "MODRM_MOD_COMPACT 0F 1B") @@
    "MODRM_MOD_COMPACT 0F 1B" :> Filter("MODRM_MOD_COMPACT", 0 :> "MANDATORY_PREFIX 0F 1B" @@ 1 :>
        "MANDATORY_PREFIX 0F 1B'") @@
    "MANDATORY_PREFIX 0F 1B" :> Filter("MANDATORY_PREFIX", 2 :> "bndmov L143") @@
    "MANDATORY_PREFIX 0F 1B'" :> Filter("MANDATORY_PREFIX", 2 :> "MODE_COMPACT 0F 1B") @@
    "MODE_COMPACT 0F 1B" :> Filter("MODE_COMPACT", 0 :> "bndmov L144") @@
    "MODRM_MOD_COMPACT 0F 1E" :> Filter("MODRM_MOD_COMPACT", 0 :> "MANDATORY_PREFIX 0F 1E") @@
    "MANDATORY_PREFIX 0F 1E" :> Filter("MANDATORY_PREFIX", 3 :> "MODRM_REG 0F 1E") @@
    "MODRM_REG 0F 1E" :> Filter("MODRM_REG", 7 :> "MODRM_RM 0F 1E") @@
    "MODRM_RM 0F 1E" :> Filter("MODRM_RM", 2 :> "MODE_CET 0F 1E") @@
    "MODE_CET 0F 1E" :> Filter("MODE_CET", 1 :> "endbr64 L377") @@
    "MODE_COMPACT 0F 20" :> Filter("MODE_COMPACT", 0 :> "mov L799") @@
    "MODE_COMPACT 0F 21" :> Filter("MODE_COMPACT", 0 :> "mov L801") @@
    "MODE_COMPACT 0F 22" :> Filter("MODE_COMPACT", 0 :> "mov L803") @@
    "MODE_COMPACT 0F 23" :> Filter("MODE_COMPACT", 0 :> "mov L805") @@
    "MODE_COMPACT 0F 84" :> Filter("MODE_COMPACT", 0 :> "MODE_AMD 0F 84") @@
    "MODE_AMD 0F 84" :> Filter("MODE_AMD", 0 :> "jz L706" @@ 1 :> "jz L707") @@
    "MODRM_MOD_COMPACT 0F AF" :> Filter("MODRM_MOD_COMPACT", 0 :> "imul L568" @@ 1 :> "imul L569") @@
    "MODRM_MOD_COMPACT 0F B6" :> Filter("MODRM_MOD_COMPACT", 0 :> "movzx L924" @@ 1 :> "movzx L925") @@
    "MODRM_MOD_COMPACT 0F B7" :> Filter("MODRM_MOD_COMPACT", 0 :> "movzx L926" @@ 1 :> "movzx L927") @@
    "MODRM_MOD_COMPACT 0F B8" :> Filter("MODRM_MOD_COMPACT", 0 :> "MANDATORY_PREFIX 0F B8" @@ 1 :>
        "MANDATORY_PREFIX 0F B8'") @@
    "MANDATORY_PREFIX 0F B8" :> Filter("MANDATORY_PREFIX", 3 :> "popcnt L1321") @@
    "MANDATORY_PREFIX 0F B8'" :> Filter("MANDATORY_PREFIX", 3 :> "popcnt L1322") @@
    "MODRM_MOD_COMPACT 0F BD" :> Filter("MODRM_MOD_COMPACT", 0 :> "MANDATORY_PREFIX 0F BD" @@ 1 :>
        "MANDATORY_PREFIX 0F BD'") @@
    "MANDATORY_PREFIX 0F BD" :> Filter("MANDATORY_PREFIX", 0 :> "bsr L154" @@ 1 :> "bsr L156" @@ 3 :>
        "MODE_LZCNT 0F BD") @@
    "MODE_LZCNT 0F BD" :> Filter("MODE_LZCNT", 1 :> "lzcnt L750") @@
    "MANDATORY_PREFIX 0F BD'" :> Filter("MANDATORY_PREFIX", 0 :> "bsr L155" @@ 1 :> "bsr L157" @@ 3 :>
        "MODE_LZCNT 0F BD'") @@
    "MODE_LZCNT 0F BD'" :> Filter("MODE_LZCNT", 1 :> "lzcnt L751") @@
    "MODRM_MOD_COMPACT 0F C7" :> Filter("MODRM_MOD_COMPACT", 1 :> "MANDATORY_PREFIX 0F C7") @@
    "MANDATORY_PREFIX 0F C7" :> Filter("MANDATORY_PREFIX", 0 :> "MODRM_REG 0F C7") @@
    "MODRM_REG 0F C7" :> Filter("MODRM_REG", 1 :> "MODE_COMPACT 0F C7") @@
    "MODE_COMPACT 0F C7" :> Filter("MODE_COMPACT", 0 :> "REX_W 0F C7") @@
    "REX_W 0F C7" :> Filter("REX_W", 1 :> "cmpxchg16b L273")

VectorFilters ==
    "OPCODE EVEX1 0" :> Filter("OPCODE", 88 :> "MODRM_MOD_COMPACT EVEX1 0 58") @@
    "MODRM_MOD_COMPACT EVEX1 0 58" :> Filter("MODRM_MOD_COMPACT", 0 :> "REX_W EVEX1 0 58" @@ 1 :>
        "REX_W EVEX1 0 58'") @@
    "REX_W EVEX1 0 58" :> Filter("REX_W", 0 :> "EVEX_B EVEX1 0 58") @@
    "EVEX_B EVEX1 0 58" :> Filter("EVEX_B", 0 :> "VECTOR_LENGTH EVEX1 0 58" @@ 1 :> "vaddps E18") @@
    "VECTOR_LENGTH EVEX1 0 58" :> Filter("VECTOR_LENGTH", 0 :> "vaddps E19" @@ 1 :> "vaddps E20" @@ 2 :>
        "vaddps E21") @@
    "REX_W EVEX1 0 58'" :> Filter("REX_W", 0 :> "VECTOR_LENGTH EVEX1 0 58'") @@
    "VECTOR_LENGTH EVEX1 0 58'" :> Filter("VECTOR_LENGTH", 0 :> "vaddps E22" @@ 1 :> "vaddps E23" @@ 2 :>
        "vaddps E24") @@
    "OPCODE EVEX2 1" :> Filter("OPCODE", 146 :> "MODRM_MOD_COMPACT EVEX2 1 92") @@
    "MODRM_MOD_COMPACT EVEX2 1 92" :> Filter("MODRM_MOD_COMPACT", 1 :> "MODRM_RM EVEX2 1 92") @@
    "MODRM_RM EVEX2 1 92" :> Filter("MODRM_RM", 4 :> "REX_W EVEX2 1 92") @@
    "REX_W EVEX2 1 92" :> Filter("REX_W", 0 :> "ADDRESS_SIZE EVEX2 1 92") @@
    "ADDRESS_SIZE EVEX2 1 92" :> Filter("ADDRESS_SIZE", 1 :> "EVEX_B EVEX2 1 92" @@ 2 :> "EVEX_B EVEX2 1 92'") @@
    "EVEX_B EVEX2 1 92" :> Filter("EVEX_B", 0 :> "VECTOR_LENGTH EVEX2 1 92") @@
    "VECTOR_LENGTH EVEX2 1 92" :> Filter("VECTOR_LENGTH", 0 :> "vgatherdps E1386" @@ 1 :> "vgatherdps E1387" @@ 2 :>
        "vgatherdps E1388") @@
    "EVEX_B EVEX2 1 92'" :> Filter("EVEX_B", 0 :> "VECTOR_LENGTH EVEX2 1 92'") @@
    "VECTOR_LENGTH EVEX2 1 92'" :> Filter("VECTOR_LENGTH", 0 :> "vgatherdps E1386" @@ 1 :> "vgatherdps E1387" @@ 2
        :> "vgatherdps E1388") @@
    "OPCODE MVEX1 0" :> Filter("OPCODE", 88 :> "MODRM_MOD_COMPACT MVEX1 0 58") @@
    "MODRM_MOD_COMPACT MVEX1 0 58" :> Filter("MODRM_MOD_COMPACT", 0 :> "REX_W MVEX1 0 58" @@ 1 :>
        "REX_W MVEX1 0 58'") @@
    "REX_W MVEX1 0 58" :> Filter("REX_W", 0 :> "MVEX_E MVEX1 0 58") @@
    "MVEX_E MVEX1 0 58" :> Filter("MVEX_E", 0 :> "vaddps M11" @@ 1 :> "vaddps M12") @@
    "REX_W MVEX1 0 58'" :> Filter("REX_W", 0 :> "vaddps M13") @@
    "OPCODE MVEX2 1" :> Filter("OPCODE", 146 :> "MODRM_MOD_COMPACT MVEX2 1 92") @@
    "MODRM_MOD_COMPACT MVEX2 1 92" :> Filter("MODRM_MOD_COMPACT", 1 :> "MODRM_RM MVEX2 1 92") @@
    "MODRM_RM MVEX2 1 92" :> Filter("MODRM_RM", 4 :> "REX_W MVEX2 1 92") @@
    "REX_W MVEX2 1 92" :> Filter("REX_W", 0 :> "vgatherdps M152") @@
    "OPCODE XOP8 0" :> Filter("OPCODE", 162 :> "VECTOR_LENGTH XOP8 0 A2") @@
    "VECTOR_LENGTH XOP8 0 A2" :> Filter("VECTOR_LENGTH", 0 :> "MODRM_MOD_COMPACT XOP8 0 A2" @@ 1 :>
        "MODRM_MOD_COMPACT XOP8 0 A2'") @@
    "MODRM_MOD_COMPACT XOP8 0 A2" :> Filter("MODRM_MOD_COMPACT", 0 :> "REX_W XOP8 0 A2" @@ 1 :> "REX_W XOP8 0 A2'") @@
    "REX_W XOP8 0 A2" :> Filter("REX_W", 0 :> "vpcmov X38" @@ 1 :> "vpcmov X39") @@
    "REX_W XOP8 0 A2'" :> Filter("REX_W", 0 :> "vpcmov X42" @@ 1 :> "vpcmov X43") @@
    "MODRM_MOD_COMPACT XOP8 0 A2'" :> Filter("MODRM_MOD_COMPACT", 0 :> "REX_W XOP8 0 A2''" @@ 1 :>
        "REX_W XOP8 0 A2'''") @@
    "REX_W XOP8 0 A2''" :> Filter("REX_W", 0 :> "vpcmov X40" @@ 1 :> "vpcmov X41") @@
    "REX_W XOP8 0 A2'''" :> Filter("REX_W", 0 :> "vpcmov X44" @@ 1 :> "vpcmov X45") @@
    "OPCODE VEX1 0" :> Filter("OPCODE", 88 :> "VECTOR_LENGTH VEX1 0 58") @@
    "VECTOR_LENGTH VEX1 0 58" :> Filter("VECTOR_LENGTH", 0 :> "MODRM_MOD_COMPACT VEX1 0 58" @@ 1 :>
        "MODRM_MOD_COMPACT VEX1 0 58'") @@
    "MODRM_MOD_COMPACT VEX1 0 58" :> Filter("MODRM_MOD_COMPACT", 0 :> "vaddps V183" @@ 1 :> "vaddps V185") @@
    "MODRM_MOD_COMPACT VEX1 0 58'" :> Filter("MODRM_MOD_COMPACT", 0 :> "vaddps V184" @@ 1 :> "vaddps V186") @@
    "OPCODE VEX1 1" :> Filter("OPCODE", 111 :> "VECTOR_LENGTH VEX1 1 6F" @@ 127 :> "VECTOR_LENGTH VEX1 1 7F" @@ 144
        :> "VECTOR_LENGTH VEX1 1 90" @@ 145 :> "VECTOR_LENGTH VEX1 1 91" @@ 146 :> "VECTOR_LENGTH VEX1 1 92" @@ 147
        :> "VECTOR_LENGTH VEX1 1 93") @@
    "VECTOR_LENGTH VEX1 1 6F" :> Filter("VECTOR_LENGTH", 0 :> "MODRM_MOD_COMPACT VEX1 1 6F" @@ 1 :>
        "MODRM_MOD_COMPACT VEX1 1 6F'") @@
    "MODRM_MOD_COMPACT VEX1 1 6F" :> Filter("MODRM_MOD_COMPACT", 0 :> "vmovdqa V821" @@ 1 :> "vmovdqa V823") @@
    "MODRM_MOD_COMPACT VEX1 1 6F'" :> Filter("MODRM_MOD_COMPACT", 0 :> "vmovdqa V822" @@ 1 :> "vmovdqa V824") @@
    "VECTOR_LENGTH VEX1 1 7F" :> Filter("VECTOR_LENGTH", 0 :> "MODRM_MOD_COMPACT VEX1 1 7F" @@ 1 :>
        "MODRM_MOD_COMPACT VEX1 1 7F'") @@
    "MODRM_MOD_COMPACT VEX1 1 7F" :> Filter("MODRM_MOD_COMPACT", 0 :> "vmovdqa V825" @@ 1 :> "vmovdqa V827") @@
    "MODRM_MOD_COMPACT VEX1 1 7F'" :> Filter("MODRM_MOD_COMPACT", 0 :> "vmovdqa V826" @@ 1 :> "vmovdqa V828") @@
    "VECTOR_LENGTH VEX1 1 90" :> Filter("VECTOR_LENGTH", 0 :> "MODRM_MOD_COMPACT VEX1 1 90") @@
    "MODRM_MOD_COMPACT VEX1 1 90" :> Filter("MODRM_MOD_COMPACT", 0 :> "REX_W VEX1 1 90" @@ 1 :> "REX_W VEX1 1 90'") @@
    "REX_W VEX1 1 90" :> Filter("REX_W", 0 :> "kmovb V51") @@
    "REX_W VEX1 1 90'" :> Filter("REX_W", 0 :> "kmovb V52") @@
    "VECTOR_LENGTH VEX1 1 91" :> Filter("VECTOR_LENGTH", 0 :> "MODRM_MOD_COMPACT VEX1 1 91") @@
    "MODRM_MOD_COMPACT VEX1 1 91" :> Filter("MODRM_MOD_COMPACT", 1 :> "REX_W VEX1 1 91") @@
    "REX_W VEX1 1 91" :> Filter("REX_W", 0 :> "kmovb V53") @@
    "VECTOR_LENGTH VEX1 1 92" :> Filter("VECTOR_LENGTH", 0 :> "MODRM_MOD_COMPACT VEX1 1 92") @@
    "MODRM_MOD_COMPACT VEX1 1 92" :> Filter("MODRM_MOD_COMPACT", 0 :> "REX_W VEX1 1 92") @@
    "REX_W VEX1 1 92" :> Filter("REX_W", 0 :> "kmovb V54") @@
    "VECTOR_LENGTH VEX1 1 93" :> Filter("VECTOR_LENGTH", 0 :> "MODRM_MOD_COMPACT VEX1 1 93") @@
    "MODRM_MOD_COMPACT VEX1 1 93" :> Filter("MODRM_MOD_COMPACT", 0 :> "REX_W VEX1 1 93") @@
    "REX_W VEX1 1 93" :> Filter("REX_W", 0 :> "kmovb V55") @@
    "OPCODE VEX2 1" :> Filter("OPCODE", 146 :> "MODRM_RM VEX2 1 92") @@
    "MODRM_RM VEX2 1 92" :> Filter("MODRM_RM", 4 :> "VECTOR_LENGTH VEX2 1 92") @@
    "VECTOR_LENGTH VEX2 1 92" :> Filter("VECTOR_LENGTH", 0 :> "MODRM_MOD_COMPACT VEX2 1 92" @@ 1 :>
        "MODRM_MOD_COMPACT VEX2 1 92'") @@
    "MODRM_MOD_COMPACT VEX2 1 92" :> Filter("MODRM_MOD_COMPACT", 1 :> "REX_W VEX2 1 92") @@
    "REX_W VEX2 1 92" :> Filter("REX_W", 0 :> "ADDRESS_SIZE VEX2 1 92") @@
    "ADDRESS_SIZE VEX2 1 92" :> Filter("ADDRESS_SIZE", 1 :> "vgatherdps V717" @@ 2 :> "vgatherdps V717") @@
    "MODRM_MOD_COMPACT VEX2 1 92'" :> Filter("MODRM_MOD_COMPACT", 1 :> "REX_W VEX2 1 92'") @@
    "REX_W VEX2 1 92'" :> Filter("REX_W", 0 :> "ADDRESS_SIZE VEX2 1 92'") @@
    "ADDRESS_SIZE VEX2 1 92'" :> Filter("ADDRESS_SIZE", 1 :> "vgatherdps V718" @@ 2 :> "vgatherdps V718") @@
    "OPCODE VEX3 1" :> Filter("OPCODE", 74 :> "VECTOR_LENGTH VEX3 1 4A") @@
    "VECTOR_LENGTH VEX3 1 4A" :> Filter("VECTOR_LENGTH", 0 :> "MODRM_MOD_COMPACT VEX3 1 4A" @@ 1 :>
        "MODRM_MOD_COMPACT VEX3 1 4A'") @@
    "MODRM_MOD_COMPACT VEX3 1 4A" :> Filter("MODRM_MOD_COMPACT", 0 :> "REX_W VEX3 1 4A" @@ 1 :> "REX_W VEX3 1 4A'") @@
    "REX_W VEX3 1 4A" :> Filter("REX_W", 0 :> "vblendvps V251") @@
    "REX_W VEX3 1 4A'" :> Filter("REX_W", 0 :> "vblendvps V253") @@
    "MODRM_MOD_COMPACT VEX3 1 4A'" :> Filter("MODRM_MOD_COMPACT", 0 :> "REX_W VEX3 1 4A''" @@ 1 :>
        "REX_W VEX3 1 4A'''") @@
    "REX_W VEX3 1 4A''" :> Filter("REX_W", 0 :> "vblendvps V252") @@
    "REX_W VEX3 1 4A'''" :> Filter("REX_W", 0 :> "vblendvps V254") @@
    "OPCODE VEX1 2" :> Filter("OPCODE", 184 :> "VECTOR_LENGTH VEX1 2 B8" @@ 189 :> "VECTOR_LENGTH VEX1 2 BD") @@
    "VECTOR_LENGTH VEX1 2 B8" :> Filter("VECTOR_LENGTH", 0 :> "MODE_COMPACT VEX1 2 B8") @@
    "MODE_COMPACT VEX1 2 B8" :> Filter("MODE_COMPACT", 0 :> "MODRM_MOD_COMPACT VEX1 2 B8") @@
    "MODRM_MOD_COMPACT VEX1 2 B8" :> Filter("MODRM_MOD_COMPACT", 0 :> "REX_W VEX1 2 B8") @@
    "REX_W VEX1 2 B8" :> Filter("REX_W", 0 :> "popcnt V135" @@ 1 :> "popcnt V136") @@
    "VECTOR_LENGTH VEX1 2 BD" :> Filter("VECTOR_LENGTH", 0 :> "MODE_COMPACT VEX1 2 BD") @@
    "MODE_COMPACT VEX1 2 BD" :> Filter("MODE_COMPACT", 0 :> "MODRM_MOD_COMPACT VEX1 2 BD") @@
    "MODRM_MOD_COMPACT VEX1 2 BD" :> Filter("MODRM_MOD_COMPACT", 0 :> "REX_W VEX1 2 BD") @@
    "REX_W VEX1 2 BD" :> Filter("REX_W", 0 :> "lzcnt V115" @@ 1 :> "lzcnt V116") @@
    "OPCODE VEX1 0'" :> Filter("OPCODE", 88 :> "VECTOR_LENGTH VEX1 0 58'") @@
    "VECTOR_LENGTH VEX1 0 58'" :> Filter("VECTOR_LENGTH", 0 :> "MODRM_MOD_COMPACT VEX1 0 58''" @@ 1 :>
        "MODRM_MOD_COMPACT VEX1 0 58'''") @@
    "MODRM_MOD_COMPACT VEX1 0 58''" :> Filter("MODRM_MOD_COMPACT", 0 :> "vaddps V183" @@ 1 :> "vaddps V185") @@
    "MODRM_MOD_COMPACT VEX1 0 58'''" :> Filter("MODRM_MOD_COMPACT", 0 :> "vaddps V184" @@ 1 :> "vaddps V186") @@
    "OPCODE VEX1 1'" :> Filter("OPCODE", 111 :> "VECTOR_LENGTH VEX1 1 6F'" @@ 127 :> "VECTOR_LENGTH VEX1 1 7F'" @@
        144 :> "VECTOR_LENGTH VEX1 1 90'" @@ 145 :> "VECTOR_LENGTH VEX1 1 91'" @@ 146 :> "VECTOR_LENGTH VEX1 1 92'"
        @@ 147 :> "VECTOR_LENGTH VEX1 1 93'") @@
    "VECTOR_LENGTH VEX1 1 6F'" :> Filter("VECTOR_LENGTH", 0 :> "MODRM_MOD_COMPACT VEX1 1 6F''" @@ 1 :>
        "MODRM_MOD_COMPACT VEX1 1 6F'''") @@
    "MODRM_MOD_COMPACT VEX1 1 6F''" :> Filter("MODRM_MOD_COMPACT", 0 :> "vmovdqa V821" @@ 1 :> "vmovdqa V823") @@
    "MODRM_MOD_COMPACT VEX1 1 6F'''" :> Filter("MODRM_MOD_COMPACT", 0 :> "vmovdqa V822" @@ 1 :> "vmovdqa V824") @@
    "VECTOR_LENGTH VEX1 1 7F'" :> Filter("VECTOR_LENGTH", 0 :> "MODRM_MOD_COMPACT VEX1 1 7F''" @@ 1 :>
        "MODRM_MOD_COMPACT VEX1 1 7F'''") @@
    "MODRM_MOD_COMPACT VEX1 1 7F''" :> Filter("MODRM_MOD_COMPACT", 0 :> "vmovdqa V825" @@ 1 :> "vmovdqa V827") @@
    "MODRM_MOD_COMPACT VEX1 1 7F'''" :> Filter("MODRM_MOD_COMPACT", 0 :> "vmovdqa V826" @@ 1 :> "vmovdqa V828") @@
    "VECTOR_LENGTH VEX1 1 90'" :> Filter("VECTOR_LENGTH", 0 :> "MODRM_MOD_COMPACT VEX1 1 90'") @@
    "MODRM_MOD_COMPACT VEX1 1 90'" :> Filter("MODRM_MOD_COMPACT", 0 :> "REX_W VEX1 1 90''" @@ 1 :>
        "REX_W VEX1 1 90'''") @@
    "REX_W VEX1 1 90''" :> Filter("REX_W", 0 :> "kmovb V51") @@
    "REX_W VEX1 1 90'''" :> Filter("REX_W", 0 :> "kmovb V52") @@
    "VECTOR_LENGTH VEX1 1 91'" :> Filter("VECTOR_LENGTH", 0 :> "MODRM_MOD_COMPACT VEX1 1 91'") @@
    "MODRM_MOD_COMPACT VEX1 1 91'" :> Filter("MODRM_MOD_COMPACT", 1 :> "REX_W VEX1 1 91'") @@
    "REX_W VEX1 1 91'" :> Filter("REX_W", 0 :> "kmovb V53") @@
    "VECTOR_LENGTH VEX1 1 92'" :> Filter("VECTOR_LENGTH", 0 :> "MODRM_MOD_COMPACT VEX1 1 92'") @@
    "MODRM_MOD_COMPACT VEX1 1 92'" :> Filter("MODRM_MOD_COMPACT", 0 :> "REX_W VEX1 1 92'") @@
    "REX_W VEX1 1 92'" :> Filter("REX_W", 0 :> "kmovb V54") @@
    "VECTOR_LENGTH VEX1 1 93'" :> Filter("VECTOR_LENGTH", 0 :> "MODRM_MOD_COMPACT VEX1 1 93'") @@
    "MODRM_MOD_COMPACT VEX1 1 93'" :> Filter("MODRM_MOD_COMPACT", 0 :> "REX_W VEX1 1 93'") @@
    "REX_W VEX1 1 93'" :> Filter("REX_W", 0 :> "kmovb V55") @@
    "OPCODE VEX1 2'" :> Filter("OPCODE", 184 :> "VECTOR_LENGTH VEX1 2 B8'" @@ 189 :> "VECTOR_LENGTH VEX1 2 BD'") @@
    "VECTOR_LENGTH VEX1 2 B8'" :> Filter("VECTOR_LENGTH", 0 :> "MODE_COMPACT VEX1 2 B8'") @@
    "MODE_COMPACT VEX1 2 B8'" :> Filter("MODE_COMPACT", 0 :> "MODRM_MOD_COMPACT VEX1 2 B8'") @@
    "MODRM_MOD_COMPACT VEX1 2 B8'" :> Filter("MODRM_MOD_COMPACT", 0 :> "REX_W VEX1 2 B8'") @@
    "REX_W VEX1 2 B8'" :> Filter("REX_W", 0 :> "popcnt V135" @@ 1 :> "popcnt V136") @@
    "VECTOR_LENGTH VEX1 2 BD'" :> Filter("VECTOR_LENGTH", 0 :> "MODE_COMPACT VEX1 2 BD'") @@
    "MODE_COMPACT VEX1 2 BD'" :> Filter("MODE_COMPACT", 0 :> "MODRM_MOD_COMPACT VEX1 2 BD'") @@
    "MODRM_MOD_COMPACT VEX1 2 BD'" :> Filter("MODRM_MOD_COMPACT", 0 :> "REX_W VEX1 2 BD'") @@
    "REX_W VEX1 2 BD'" :> Filter("REX_W", 0 :> "lzcnt V115" @@ 1 :> "lzcnt V116")

ZydisTree ==
    OneByteFilters @@ TwoByteFilters @@ VectorFilters @@ AddForms @@ Pi2fwForms @@ PfaddForms @@ MovupsForms @@
    MovupdForms @@ BndmovForms @@ Endbr64Forms @@ MovForms @@ JzForms @@ PushForms @@ ImulForms @@ MovzxForms @@
    PopcntForms @@ BsrForms @@ LzcntForms @@ Cmpxchg16bForms @@ VaddpsForms @@ VgatherdpsForms @@ XchgForms @@
    LeaForms @@ VpcmovForms @@ NopForms @@ PauseForms @@ CbwForms @@ CwdeForms @@ CdqeForms @@ MovsbForms @@
    ShlForms @@ VmovdqaForms @@ KmovbForms @@ VblendvpsForms @@ XbeginForms @@ LoopForms @@ JecxzForms @@ JrcxzForms
    @@ CallForms @@ JmpForms

ZydisRoot == "OPCODE"

-----------------------------------------------------------------------------
(* The forms that an assembler may choose from for a mnemonic, in the order that *)
(* it tries them.                                                               *)

Encodable(encoding, def, map, opcode, modrm) ==
    [def |-> def, encoding |-> encoding, map |-> map, opcode |-> opcode, modrm |-> modrm,
     prefix |-> 0, rexW |-> FALSE, length |-> 0, hint |-> "NONE", asz |-> {16, 32, 64}, osz |-> {16, 32, 64},
     swappable |-> FALSE]
Legacy(def, map, opcode, modrm) == Encodable("LEGACY", def, map, opcode, modrm)
WithPrefix(prefix, e) == [e EXCEPT !.prefix = prefix]
OfLength(length, e) == [e EXCEPT !.length = length]

AddEncodable == <<
    Legacy("add L30", 0, 0, 192),
    Legacy("add L31", 0, 0, 0),
    Legacy("add L32", 0, 1, 192),
    Legacy("add L33", 0, 1, 0),
    Legacy("add L34", 0, 2, 192),
    Legacy("add L35", 0, 2, 0),
    Legacy("add L36", 0, 3, 192),
    Legacy("add L37", 0, 3, 0),
    Legacy("add L38", 0, 4, 0),
    Legacy("add L40", 0, 128, 192),
    Legacy("add L41", 0, 128, 0),
    Legacy("add L46", 0, 131, 192),
    Legacy("add L47", 0, 131, 0),
    Legacy("add L39", 0, 5, 0),
    Legacy("add L42", 0, 129, 192),
    Legacy("add L43", 0, 129, 0) >>

MovEncodable == <<
    Legacy("mov L789", 0, 160, 0),
    Legacy("mov L790", 0, 161, 0),
    Legacy("mov L791", 0, 162, 0),
    Legacy("mov L792", 0, 163, 0),
    Legacy("mov L777", 0, 136, 192),
    Legacy("mov L778", 0, 136, 0),
    Legacy("mov L779", 0, 137, 192),
    Legacy("mov L780", 0, 137, 0),
    Legacy("mov L781", 0, 138, 192),
    Legacy("mov L782", 0, 138, 0),
    Legacy("mov L783", 0, 139, 192),
    Legacy("mov L784", 0, 139, 0),
    Legacy("mov L785", 0, 140, 192),
    Legacy("mov L786", 0, 140, 0),
    Legacy("mov L787", 0, 142, 192),
    Legacy("mov L788", 0, 142, 0),
    Legacy("mov L793", 0, 176, 0),
    Legacy("mov L795", 0, 198, 192),
    Legacy("mov L796", 0, 198, 0),
    [Legacy("mov L799", 1, 32, 0) EXCEPT !.asz = {32, 64}],
    [Legacy("mov L801", 1, 33, 0) EXCEPT !.asz = {32, 64}],
    [Legacy("mov L803", 1, 34, 0) EXCEPT !.asz = {32, 64}],
    [Legacy("mov L805", 1, 35, 0) EXCEPT !.asz = {32, 64}],
    [Legacy("mov L794", 0, 184, 0) EXCEPT !.swappable = TRUE],
    Legacy("mov L797", 0, 199, 192),
    Legacy("mov L798", 0, 199, 0) >>

LeaEncodable == <<
    Legacy("lea L715", 0, 141, 0) >>

JmpEncodable == <<
    [Legacy("jmp L643", 0, 235, 0) EXCEPT !.asz = {32, 64}],
    Legacy("jmp L645", 0, 255, 224),
    Legacy("jmp L646", 0, 255, 32),
    Legacy("jmp L647", 0, 255, 40),
    [Legacy("jmp L639", 0, 233, 0) EXCEPT !.asz = {32, 64}] >>

JzEncodable == <<
    [Legacy("jz L704", 0, 116, 0) EXCEPT !.asz = {32, 64}],
    [Legacy("jz L706", 1, 132, 0) EXCEPT !.asz = {32, 64}] >>

MovzxEncodable == <<
    Legacy("movzx L924", 1, 182, 192),
    Legacy("movzx L925", 1, 182, 0),
    Legacy("movzx L926", 1, 183, 192),
    Legacy("movzx L927", 1, 183, 0) >>

PushEncodable == <<
    Legacy("push L1486", 0, 80, 0),
    [Legacy("push L1488", 0, 106, 0) EXCEPT !.hint = "OSZ"],
    Legacy("push L1489", 0, 255, 240),
    Legacy("push L1490", 0, 255, 48),
    [Legacy("push L1491", 1, 160, 0) EXCEPT !.hint = "OSZ"],
    [Legacy("push L1492", 1, 168, 0) EXCEPT !.hint = "OSZ"],
    [Legacy("push L1487", 0, 104, 0) EXCEPT !.hint = "OSZ"] >>

ImulEncodable == <<
    Legacy("imul L564", 0, 246, 232),
    Legacy("imul L565", 0, 246, 40),
    Legacy("imul L566", 0, 247, 232),
    Legacy("imul L567", 0, 247, 40),
    Legacy("imul L562", 0, 107, 192),
    Legacy("imul L563", 0, 107, 0),
    Legacy("imul L568", 1, 175, 192),
    Legacy("imul L569", 1, 175, 0),
    Legacy("imul L560", 0, 105, 192),
    Legacy("imul L561", 0, 105, 0) >>

ShlEncodable == <<
    Legacy("shl L1698", 0, 208, 224),
    Legacy("shl L1699", 0, 208, 240),
    Legacy("shl L1700", 0, 208, 32),
    Legacy("shl L1701", 0, 208, 48),
    Legacy("shl L1702", 0, 209, 224),
    Legacy("shl L1703", 0, 209, 240),
    Legacy("shl L1704", 0, 209, 32),
    Legacy("shl L1705", 0, 209, 48),
    Legacy("shl L1706", 0, 210, 224),
    Legacy("shl L1707", 0, 210, 240),
    Legacy("shl L1708", 0, 210, 32),
    Legacy("shl L1709", 0, 210, 48),
    Legacy("shl L1710", 0, 211, 224),
    Legacy("shl L1711", 0, 211, 240),
    Legacy("shl L1712", 0, 211, 32),
    Legacy("shl L1713", 0, 211, 48),
    Legacy("shl L1690", 0, 192, 224),
    Legacy("shl L1691", 0, 192, 240),
    Legacy("shl L1692", 0, 192, 32),
    Legacy("shl L1693", 0, 192, 48),
    Legacy("shl L1694", 0, 193, 224),
    Legacy("shl L1695", 0, 193, 240),
    Legacy("shl L1696", 0, 193, 32),
    Legacy("shl L1697", 0, 193, 48) >>

MovsbEncodable == <<
    [Legacy("movsb L886", 0, 164, 0) EXCEPT !.hint = "ASZ"] >>

XchgEncodable == <<
    Legacy("xchg L1898", 0, 144, 0),
    Legacy("xchg L1899", 0, 145, 0),
    Legacy("xchg L1894", 0, 134, 192),
    Legacy("xchg L1895", 0, 134, 0),
    Legacy("xchg L1896", 0, 135, 192),
    Legacy("xchg L1897", 0, 135, 0) >>

PopcntEncodable == <<
    WithPrefix(243, Legacy("popcnt L1321", 1, 184, 192)),
    WithPrefix(243, Legacy("popcnt L1322", 1, 184, 0)),
    [WithPrefix(243, OfLength(128, Encodable("VEX", "popcnt V135", 1, 184, 192))) EXCEPT !.asz = {32, 64}],
    [WithPrefix(243, OfLength(128, Encodable("VEX", "popcnt V136", 1, 184, 192))) EXCEPT !.rexW = TRUE, !.asz = {32,
        64}] >>

MovupsEncodable == <<
    Legacy("movups L920", 1, 16, 192),
    Legacy("movups L921", 1, 16, 0),
    Legacy("movups L922", 1, 17, 192),
    Legacy("movups L923", 1, 17, 0) >>

MovupdEncodable == <<
    WithPrefix(102, Legacy("movupd L916", 1, 16, 192)),
    WithPrefix(102, Legacy("movupd L917", 1, 16, 0)),
    WithPrefix(102, Legacy("movupd L918", 1, 17, 192)),
    WithPrefix(102, Legacy("movupd L919", 1, 17, 0)) >>

CbwEncodable == <<
    [Legacy("cbw L182", 0, 152, 0) EXCEPT !.osz = {16}] >>

CwdeEncodable == <<
    [Legacy("cwde L343", 0, 152, 0) EXCEPT !.osz = {32}] >>

CdqeEncodable == <<
    [Legacy("cdqe L184", 0, 152, 0) EXCEPT !.rexW = TRUE, !.asz = {32, 64}, !.osz = {64}] >>

JecxzEncodable == <<
    [Legacy("jecxz L627", 0, 227, 0) EXCEPT !.asz = {32}] >>

JrcxzEncodable == <<
    [Legacy("jrcxz L698", 0, 227, 0) EXCEPT !.asz = {64}] >>

BndmovEncodable == <<
    WithPrefix(102, Legacy("bndmov L140", 1, 26, 192)),
    [WithPrefix(102, Legacy("bndmov L141", 1, 26, 0)) EXCEPT !.asz = {32, 64}],
    WithPrefix(102, Legacy("bndmov L143", 1, 27, 192)),
    [WithPrefix(102, Legacy("bndmov L144", 1, 27, 0)) EXCEPT !.asz = {32, 64}] >>

Endbr64Encodable == <<
    WithPrefix(243, Legacy("endbr64 L377", 1, 30, 250)) >>

LzcntEncodable == <<
    WithPrefix(243, Legacy("lzcnt L750", 1, 189, 192)),
    WithPrefix(243, Legacy("lzcnt L751", 1, 189, 0)),
    [WithPrefix(243, OfLength(128, Encodable("VEX", "lzcnt V115", 1, 189, 192))) EXCEPT !.asz = {32, 64}],
    [WithPrefix(243, OfLength(128, Encodable("VEX", "lzcnt V116", 1, 189, 192))) EXCEPT !.rexW = TRUE, !.asz = {32,
        64}] >>

BsrEncodable == <<
    Legacy("bsr L154", 1, 189, 192),
    Legacy("bsr L155", 1, 189, 0) >>

PfaddEncodable == <<
    Encodable("3DNOW", "pfadd 38", 8, 158, 192),
    Encodable("3DNOW", "pfadd 39", 8, 158, 0) >>

VaddpsEncodable == <<
    OfLength(128, Encodable("VEX", "vaddps V183", 1, 88, 192)),
    OfLength(256, Encodable("VEX", "vaddps V184", 1, 88, 192)),
    OfLength(128, Encodable("VEX", "vaddps V185", 1, 88, 0)),
    OfLength(256, Encodable("VEX", "vaddps V186", 1, 88, 0)),
    OfLength(512, Encodable("EVEX", "vaddps E18", 1, 88, 192)),
    OfLength(128, Encodable("EVEX", "vaddps E19", 1, 88, 192)),
    OfLength(256, Encodable("EVEX", "vaddps E20", 1, 88, 192)),
    OfLength(512, Encodable("EVEX", "vaddps E21", 1, 88, 192)),
    OfLength(128, Encodable("EVEX", "vaddps E22", 1, 88, 0)),
    OfLength(256, Encodable("EVEX", "vaddps E23", 1, 88, 0)),
    OfLength(512, Encodable("EVEX", "vaddps E24", 1, 88, 0)),
    Encodable("MVEX", "vaddps M11", 1, 88, 192),
    Encodable("MVEX", "vaddps M12", 1, 88, 192),
    Encodable("MVEX", "vaddps M13", 1, 88, 0) >>

VgatherdpsEncodable == <<
    [WithPrefix(102, OfLength(128, Encodable("VEX", "vgatherdps V717", 2, 146, 4))) EXCEPT !.asz = {32, 64}],
    [WithPrefix(102, OfLength(256, Encodable("VEX", "vgatherdps V718", 2, 146, 4))) EXCEPT !.asz = {32, 64}],
    [WithPrefix(102, OfLength(128, Encodable("EVEX", "vgatherdps E1386", 2, 146, 4))) EXCEPT !.asz = {32, 64}],
    [WithPrefix(102, OfLength(256, Encodable("EVEX", "vgatherdps E1387", 2, 146, 4))) EXCEPT !.asz = {32, 64}],
    [WithPrefix(102, OfLength(512, Encodable("EVEX", "vgatherdps E1388", 2, 146, 4))) EXCEPT !.asz = {32, 64}],
    WithPrefix(102, Encodable("MVEX", "vgatherdps M152", 2, 146, 4)) >>

VblendvpsEncodable == <<
    WithPrefix(102, OfLength(128, Encodable("VEX", "vblendvps V251", 3, 74, 192))),
    WithPrefix(102, OfLength(256, Encodable("VEX", "vblendvps V252", 3, 74, 192))),
    WithPrefix(102, OfLength(128, Encodable("VEX", "vblendvps V253", 3, 74, 0))),
    WithPrefix(102, OfLength(256, Encodable("VEX", "vblendvps V254", 3, 74, 0))) >>

VpcmovEncodable == <<
    OfLength(128, Encodable("XOP", "vpcmov X38", 9, 162, 192)),
    [OfLength(128, Encodable("XOP", "vpcmov X39", 9, 162, 192)) EXCEPT !.rexW = TRUE],
    OfLength(256, Encodable("XOP", "vpcmov X40", 9, 162, 192)),
    [OfLength(256, Encodable("XOP", "vpcmov X41", 9, 162, 192)) EXCEPT !.rexW = TRUE],
    OfLength(128, Encodable("XOP", "vpcmov X42", 9, 162, 0)),
    [OfLength(128, Encodable("XOP", "vpcmov X43", 9, 162, 0)) EXCEPT !.rexW = TRUE],
    OfLength(256, Encodable("XOP", "vpcmov X44", 9, 162, 0)),
    [OfLength(256, Encodable("XOP", "vpcmov X45", 9, 162, 0)) EXCEPT !.rexW = TRUE] >>

KmovbEncodable == <<
    WithPrefix(102, OfLength(128, Encodable("VEX", "kmovb V51", 1, 144, 192))),
    WithPrefix(102, OfLength(128, Encodable("VEX", "kmovb V52", 1, 144, 0))),
    WithPrefix(102, OfLength(128, Encodable("VEX", "kmovb V53", 1, 145, 0))),
    WithPrefix(102, OfLength(128, Encodable("VEX", "kmovb V54", 1, 146, 192))),
    WithPrefix(102, OfLength(128, Encodable("VEX", "kmovb V55", 1, 147, 192))) >>

Cmpxchg16bEncodable == <<
    [Legacy("cmpxchg16b L273", 1, 199, 8) EXCEPT !.rexW = TRUE, !.asz = {32, 64}] >>

VmovdqaEncodable == <<
    WithPrefix(102, OfLength(128, Encodable("VEX", "vmovdqa V823", 1, 111, 0))),
    WithPrefix(102, OfLength(256, Encodable("VEX", "vmovdqa V824", 1, 111, 0))),
    WithPrefix(102, OfLength(128, Encodable("VEX", "vmovdqa V827", 1, 127, 0))),
    WithPrefix(102, OfLength(256, Encodable("VEX", "vmovdqa V828", 1, 127, 0))),
    [WithPrefix(102, OfLength(128, Encodable("VEX", "vmovdqa V821", 1, 111, 192))) EXCEPT !.swappable = TRUE],
    WithPrefix(102, OfLength(128, Encodable("VEX", "vmovdqa V825", 1, 127, 192))),
    [WithPrefix(102, OfLength(256, Encodable("VEX", "vmovdqa V822", 1, 111, 192))) EXCEPT !.swappable = TRUE],
    WithPrefix(102, OfLength(256, Encodable("VEX", "vmovdqa V826", 1, 127, 192))) >>

NopEncodable == <<
    Legacy("nop L950", 0, 144, 0) >>

PauseEncodable == <<
    WithPrefix(243, Legacy("pause L1116", 0, 144, 0)) >>

CallEncodable == <<
    Legacy("call L179", 0, 255, 208),
    Legacy("call L180", 0, 255, 16),
    Legacy("call L181", 0, 255, 24),
    [Legacy("call L176", 0, 232, 0) EXCEPT !.asz = {32, 64}] >>

LoopEncodable == <<
    [Legacy("loop L742", 0, 226, 0) EXCEPT !.hint = "ASZ"] >>

XbeginEncodable == <<
    [Legacy("xbegin L1893", 0, 199, 248) EXCEPT !.hint = "OSZ"] >>

Named ==
    "add" :> AddEncodable @@ "mov" :> MovEncodable @@ "lea" :> LeaEncodable @@ "jmp" :> JmpEncodable @@ "jz" :>
    JzEncodable @@ "movzx" :> MovzxEncodable @@ "push" :> PushEncodable @@ "imul" :> ImulEncodable @@ "shl" :>
    ShlEncodable @@ "movsb" :> MovsbEncodable @@ "xchg" :> XchgEncodable @@ "popcnt" :> PopcntEncodable @@ "movups"
    :> MovupsEncodable @@ "movupd" :> MovupdEncodable @@ "cbw" :> CbwEncodable @@ "cwde" :> CwdeEncodable @@ "cdqe"
    :> CdqeEncodable @@ "jecxz" :> JecxzEncodable @@ "jrcxz" :> JrcxzEncodable @@ "bndmov" :> BndmovEncodable @@
    "endbr64" :> Endbr64Encodable @@ "lzcnt" :> LzcntEncodable @@ "bsr" :> BsrEncodable @@ "pfadd" :> PfaddEncodable
    @@ "vaddps" :> VaddpsEncodable @@ "vgatherdps" :> VgatherdpsEncodable @@ "vblendvps" :> VblendvpsEncodable @@
    "vpcmov" :> VpcmovEncodable @@ "kmovb" :> KmovbEncodable @@ "cmpxchg16b" :> Cmpxchg16bEncodable @@ "vmovdqa" :>
    VmovdqaEncodable @@ "nop" :> NopEncodable @@ "pause" :> PauseEncodable @@ "call" :> CallEncodable @@ "loop" :>
    LoopEncodable @@ "xbegin" :> XbeginEncodable

(* The definition itself takes the place of its name. *)
ZydisEncodable ==
    [m \in DOMAIN Named |-> [k \in DOMAIN Named[m] |-> [Named[m][k] EXCEPT !.def = ZydisTree[@].def]]]

=============================================================================
