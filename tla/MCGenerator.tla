----------------------------- MODULE MCGenerator -----------------------------
(* Definitions from the tables of Zydis, for mnemonics that have between    *)
(* them every kind of operand in every place; three attempts for each.      *)
EXTENDS Generator

R8   == [kind |-> "reg",   sizes |-> <<1>>]
R    == [kind |-> "reg",   sizes |-> <<2, 4, 8>>]
R48  == [kind |-> "reg",   sizes |-> <<4, 8>>]
R4   == [kind |-> "reg",   sizes |-> <<4>>]
Fix  == [kind |-> "fixed", sizes |-> <<1>>]
Osz  == [kind |-> "osz",   sizes |-> <<2, 4, 8>>]
Asz  == [kind |-> "asz",   sizes |-> <<>>]
M8   == [kind |-> "mem",   sizes |-> <<1, 1, 1>>]
M    == [kind |-> "mem",   sizes |-> <<2, 4, 8>>]
Offs == [kind |-> "moffs", sizes |-> <<2, 4, 8>>]
Agen == [kind |-> "agen",  sizes |-> <<>>]
I8   == [kind |-> "imm",   sizes |-> <<1>>]
I    == [kind |-> "imm",   sizes |-> <<2, 4>>]
U    == [kind |-> "imm",   sizes |-> <<2, 4, 8>>]
One  == [kind |-> "imm1",  sizes |-> <<>>]
J8   == [kind |-> "rel",   sizes |-> <<1>>]
J16  == [kind |-> "rel",   sizes |-> <<2, 4>>]
J32  == [kind |-> "rel",   sizes |-> <<4>>]
Mfar == [kind |-> "mem",   sizes |-> <<4, 6, 10>>]
X    == [kind |-> "reg",   sizes |-> <<16>>]
M4   == [kind |-> "mem",   sizes |-> <<4, 4, 4>>]
M16  == [kind |-> "mem",   sizes |-> <<16, 16, 16>>]
Vsib == [kind |-> "vsib",  sizes |-> <<4, 4, 4>>]

Plain(s)  == [branch |-> "none", map4 |-> FALSE, ops |-> s]
Stack(s)  == [branch |-> "none", map4 |-> TRUE, ops |-> s]
Jump(b, d) == [branch |-> b, map4 |-> FALSE, ops |-> <<d>>]

ADD      == {Plain(s) : s \in {<<R8, R8>>, <<M8, R8>>, <<R8, M8>>, <<R, R>>, <<M, R>>, <<R, M>>,
                               <<Fix, I8>>, <<R, I8>>, <<Osz, I>>, <<R, I>>, <<M, I>>}}
IMUL     == {Plain(s) : s \in {<<R8>>, <<R, M, I>>, <<R, R, I8>>}}
MOV      == {Plain(s) : s \in {<<Osz, Offs>>, <<Offs, Osz>>, <<R, U>>, <<R8, R8>>, <<M, I>>}}
MOVZX    == {Plain(s) : s \in {<<R, R8>>, <<R, M8>>}}
CRC32    == {Plain(s) : s \in {<<R48, R8>>, <<R48, R>>, <<R48, M>>}}
XCHG     == {Plain(s) : s \in {<<R, Osz>>, <<M8, R8>>, <<M, R>>}}
SHL      == {Plain(s) : s \in {<<R8, One>>, <<M, Fix>>}}
LEA      == {Plain(<<R, Agen>>)}
UMONITOR == {Plain(<<Asz>>)}
PUSH     == {Stack(s) : s \in {<<R>>, <<M>>, <<I8>>}}
JMP      == {Jump("short", J8), Jump("near", J16), Jump("near", J32), Jump("near", R),
             Jump("near", M), Jump("far", Mfar)}
CWD      == {Plain(<<>>)}
CVTSI2SD == {Plain(s) : s \in {<<X, R4>>, <<X, M4>>}}
PEXTRB   == {Plain(s) : s \in {<<R4, X, I8>>, <<M8, X, I8>>}}
PADDD    == {Plain(s) : s \in {<<X, X>>, <<X, M16>>}}
GATHER   == {Plain(s) : s \in {<<X, Vsib, X>>, <<Vsib, X>>}}

Mnemonics == <<ADD, IMUL, MOV, MOVZX, CRC32, XCHG, SHL, LEA, UMONITOR, PUSH, JMP, CWD,
               CVTSI2SD, PEXTRB, PADDD, GATHER>>
=============================================================================
