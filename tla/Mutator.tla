------------------------------- MODULE Mutator -------------------------------
(***************************************************************************)
(* create_snippet and mutate_snippet of generate.c over the passes of      *)
(* Pipeline: a snippet that is decoded or created and then changed by      *)
(* nothing but mutations, each of which ends in pipeline_validate unless   *)
(* it fails or returns before that.                                        *)
(*                                                                         *)
(* An instruction that create_instruction could not generate is left with  *)
(* a request that does not encode, "broken".  create_random_instruction    *)
(* tries until it succeeds.  The blocks of Obj that are not in the list    *)
(* are the free ones: no path of the mutator loses a block, because        *)
(* create_random_instruction never fails and create_instruction is         *)
(* followed by arena_free or by create_random_instruction when it does.    *)
(***************************************************************************)
EXTENDS Pipeline

\* What create_random_instruction makes: relative jumps are not among it.
RandomKinds == Created \ Immediate

\* What create_instruction makes: memory operands are never rip-relative.
GeneratedKinds == Created \ {"rip", "far"}

Generated(kinds) == {New(r.kind, r.taddr) : r \in Requests(kinds)}

\* Instructions that may have no operand
MayLackOperands(o) == ins[o].kind \in {"plain", "banned", "broken"}

Mutated ==
    /\ state = "idle"
    /\ edits < MaxEdits
    /\ edits' = edits + 1
    /\ UNCHANGED <<fresh, todo>>

\* The edit is done and pipeline_validate begins.
Validates(list, f) ==
    /\ snip' = list
    /\ ins' = f
    /\ state' = "running"
    /\ passes' = Pipelines["validate"]
    /\ run' = "validate"
    /\ valid' = FALSE
    /\ UNCHANGED rc

\* mutate_snippet returns with nothing done and no pipeline run: -1, or 0 when
\* the instruction has no operands.
Returns == UNCHANGED <<snip, ins, state, passes, run, valid, rc>>

\* It returns an error and leaves changed instructions behind.
Breaks(f) ==
    /\ ins' = f
    /\ run' = "none" /\ valid' = FALSE
    /\ UNCHANGED <<snip, state, passes, rc>>

\* It never returns: a NULL pointer, an assertion, or a loop without end.
IsLost ==
    /\ state' = "aborted"
    /\ passes' = Pipelines["validate"]
    /\ UNCHANGED <<snip, ins, run, valid, rc>>

\* snippet_append or snippet_insert_at; index 0 is the end of the list.
Inserted(o, k) == IF k \in {0, Len(snip)} THEN Append(snip, o) ELSE InsertAt(snip, k + 1, o)

-----------------------------------------------------------------------------
\* A new instruction at a random index, or no memory for it
Add(kinds) ==
    /\ Mutated
    /\ \/ \E o \in Obj \ Listed, k \in 0..Len(snip), i \in Generated(kinds) :
             Validates(Inserted(o, k), [ins EXCEPT ![o] = i])
       \/ Obj = Listed /\ Returns

MutAddRand == Add(RandomKinds)

\* The others fall back to MUT_ADD_RAND when create_instruction fails.
MutAddDet == Add(GeneratedKinds \cup RandomKinds)
MutAddJmp == Add((GeneratedKinds \cap Jumps) \cup RandomKinds)
MutAddVzeroupper == Add({"plain"} \cup RandomKinds)

MutRemove ==
    /\ Mutated
    /\ \/ snip = << >> /\ Returns
       \/ \E k \in DOMAIN snip :
             Validates(RemoveAt(snip, k), [ins EXCEPT ![snip[k]] = Freed(@)])

\* MUT_REPLACE reads the node of the instruction before it tests for NULL.
MutReplace ==
    /\ Mutated
    /\ \/ snip = << >> /\ IsLost
       \/ \E o \in Listed, i \in Generated(RandomKinds) : Validates(snip, [ins EXCEPT ![o] = i])

\* For a NOP create_instruction succeeds.
MutReplaceNop ==
    /\ Mutated
    /\ \/ snip = << >> /\ Returns
       \/ \E o \in Listed : Validates(snip, [ins EXCEPT ![o] = New("plain", ADDRESS_INVALID)])

\* MUT_REPEAT copies from snippet_get without a test for NULL.
MutRepeat ==
    /\ Mutated
    /\ \/ Obj = Listed /\ Returns
       \/ Obj # Listed /\ snip = << >> /\ IsLost
       \/ \E o \in Obj \ Listed, k \in DOMAIN snip :
             Validates(Inserted(o, k - 1), [ins EXCEPT ![o] = ins[snip[k]]])

\* MUT_SWAP: for an empty snippet the range of rand_exclude wraps around, and
\* snippet_swap refuses what it draws; for a single instruction it asserts.
MutSwap ==
    /\ Mutated
    /\ \/ snip = << >> /\ Returns
       \/ Len(snip) = 1 /\ IsLost
       \/ \E j, k \in DOMAIN snip :
             j # k /\ Validates([snip EXCEPT ![j] = snip[k], ![k] = snip[j]], ins)

\* The kinds of instructions with the mnemonic of o
SameMnemonic(o) ==
    CASE ins[o].kind \in Jumps -> GeneratedKinds \cap Jumps
      [] ins[o].kind = "banned" -> {"banned"}
      [] ins[o].kind = "broken" -> GeneratedKinds
      [] OTHER -> (GeneratedKinds \ Jumps) \ {"banned"}

\* create_instruction on an instruction of the list: target_addrs is written
\* only for a relative jump.
MutReplaceArgs ==
    /\ Mutated
    /\ \/ snip = << >> /\ Returns
       \/ \E o \in Listed :
             \/ MayLackOperands(o) /\ Returns
             \/ \E i \in Generated(SameMnemonic(o)) :
                   Validates(snip, [ins EXCEPT ![o] =
                       IF i.kind \in Immediate THEN i ELSE [i EXCEPT !.taddr = ins[o].taddr]])
             \/ Breaks([ins EXCEPT ![o].kind = "broken"])

\* The loop over the operand types in create_instruction (generate.c:1013)
\* compares a pointer with an enumeration value and does not end.
MutRandomizeArgs ==
    /\ Mutated
    /\ \/ snip = << >> /\ Returns
       \/ \E o \in Listed : \/ MayLackOperands(o) /\ Returns
                            \/ IsLost

\* A jump has one operand, and other instructions may not encode afterwards.
MutSwapArgs ==
    /\ Mutated
    /\ \/ snip = << >> /\ Returns
       \/ \E o \in Listed :
             \/ MayLackOperands(o) /\ Returns
             \/ Validates(snip, ins)
             \/ ins[o].kind \notin Jumps /\ Validates(snip, [ins EXCEPT ![o].kind = "broken"])

\* MUT_SNIPPET and unknown mutations
MutUnsupported == Mutated /\ Returns

\* create_snippet on an empty snippet.  (It sets the count of any other to 0
\* and leaves its list as it is.)
CreateSnippet ==
    /\ Mutated
    /\ snip = << >>
    /\ \E n \in 0..Cardinality(Obj) :
       \E list \in {s \in [1..n -> Obj] : IsInjective(s)},
          new \in [1..n -> Generated(GeneratedKinds \cup RandomKinds)] :
          Validates(list, [o \in Obj |->
              IF o \in Range(list) THEN new[CHOOSE k \in 1..n : list[k] = o] ELSE ins[o]])

MutateSnippet ==
    \/ MutAddRand \/ MutAddDet \/ MutAddJmp \/ MutAddVzeroupper
    \/ MutRemove \/ MutReplace \/ MutReplaceNop \/ MutRepeat \/ MutSwap
    \/ MutReplaceArgs \/ MutRandomizeArgs \/ MutSwapArgs \/ MutUnsupported

MutatorNext ==
    \/ MutateSnippet
    \/ CreateSnippet
    \/ \E p \in {"encode", "decode"} : Start(p)
    \/ Step

\* A call that runs goes on, as in Pipeline.
MutatorSpec == Init /\ [][MutatorNext]_vars /\ WF_vars(Step)

-----------------------------------------------------------------------------
(***************************************************************************)
(* EncodesAfterPipeline: when a pipeline has returned 0 and no mutation    *)
(* has broken off since, snippet_encode succeeds on every instruction,     *)
(* whatever instructions earlier mutations left broken behind, and however *)
(* far the last pass has moved short jumps from their targets.             *)
(***************************************************************************)
EncodesAfterPipeline ==
    state = "idle" /\ run # "none" /\ rc = 0 => \A o \in Listed : Encodes(ins[o])
=============================================================================
