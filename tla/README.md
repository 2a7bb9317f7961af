# Verification of libsnippet

libsnippet builds, mutates and encodes short x86 programs ("snippets") for fuzzing. A snippet is an
intrusive list of instructions in blocks of an arena. Instructions are decoded and encoded by a
vendored Zydis. A generator and a mutator change the list; a pipeline of passes then repairs it until it
encodes and every jump leads to an instruction of the snippet. The library is single-threaded C with a
thin Python binding. Assertions are compiled in (the Makefile does not define NDEBUG).

## Components

| Component | State | Operations | Properties that make it right | Model |
|---|---|---|---|---|
| intrusive list, `list.h` | `next`, `prev` of every node | init, insert before and after, remove, replace, swap, get, the safe iterators | the pointers are one two-way ring through the head; the operations edit it like a sequence | `DList`, `LinkedList`, `SeqList` |
| arena, `arena.c` | chain of sub-arenas, free list and `free_count` of each | init, allocate (grows the chain), free, destroy | no block has two owners; the count is that of the list; growth only when full | `Arena`, `Allocator` |
| snippet, `snippet.c` | list head, `count`, `idx` of instructions, arena pointers | allocate, get, append, insert, remove, swap, free, destroy, decode, encode | list, count, indexes and arena agree after every call, failed ones included | `Snippet`; the loops of decode and encode over code in `Disassembly` and `Codec` |
| pipeline, `pipeline.c` | registered passes; address, length, target of instructions | register, execute, the validate, encode and decode pipelines and their passes | after validation all instructions encode and all jumps land; passes do not fail, abort or run for ever | `Pipeline`, `JumpSearch` |
| random ranges, `common.h` | none | `rand_between`, `rand_exclude` | every value of the range outside the gap, and no other, is drawn | `RandRange` |
| generator, `generate.c` | a request under construction, `eosz`, `easz`, `rex_state` | `create_instruction`, `create_random_instruction`, operand generators, index | the request encodes or an error is returned; operands agree in size and REX prefix | `Generator` |
| mutator, `generate.c` | the snippet | `create_snippet`, `mutate_snippet` | whatever a mutation does or fails to do, the next validation repairs it | `Mutator` |
| Zydis decoder | buffer and length read so far, node of the tree, prefixes, fields of ModRM, SIB, REX and vector prefixes, operands | one call of `ZydisDisassembleIntel` per instruction | it never reads beyond its input; the parts tile the instruction; the same bytes mean the same | `Decoder`, `OperandDecoder`, `VectorInfo`, `Segment`, `Register`, `Word64`, `Definitions` |
| Zydis encoder | the request; the trial of one form after the other | decoded instruction to request, encode, encode from an address | the code means what the request says, is not longer than it was, and can be read again | `Request`, `EncoderMatch`, `EncoderOperands`, `Emitter`, `Absolute` |
| Zycore containers | size, capacity and block of vectors; nodes of lists; words of bitsets | insert, delete, resize, swap, search and so on, with memory of an allocator or of the caller | a failing call changes nothing; the others do what a sequence does; what is thrown out meets its destructor once; where this is not so is known | `Container`, `ZyanVector`, `ZyanString`, `ZyanList`, `ZyanBitset`, `Containers` |
| basic blocks, `pipeline.c` | leaders bitmap, block list | `generate_basic_blocks`, `walk_basic_blocks` | | not modelled |
| Zydis formatter and tools, Zycore portability layer, printing, Python binding | | | | not modelled |

The parts meet in shared memory: the arena's free lists and the snippet are lists of `list.h`; every
instruction is a block of the arena; jumps point to instructions (`jump_target`), and remember an
address (`target_addrs`) that is right for one layout only. `pipeline_execute` calls
`validate_metadata`, which may remove instructions, before every pass. `snippet_decode` and
`create_instruction` call the decoder of Zydis, `snippet_encode` and the passes its encoder, and the
request of an instruction is what the snippet keeps. Nothing runs concurrently and nothing is
persisted. What is hard is the state that survives one call and is stale in the next one, calls that
fail half way, boundary values, tables whose rows compete, and loops that run until nothing changes.
`PROJECT.json` lists these hazards line by line.

## Modules

Lists, memory and snippets:

* **DList** translates the functions of `list.h` into operators on a heap (`next` and `prev` of all
  cells). **LinkedList** is one list under any sequence of calls that keep to the header's unchecked
  contract. **SeqList** is what its users rely on, a sequence without pointers; `LinkedList`
  implements it (`ImplementsSequence`, with the traversal from the head as refinement mapping).
* **Arena** is `arena.c`. A block is a pair of sub-arena and position, so that the owner search by
  address range is a comparison; the free list is a sequence, which `LinkedList` justifies.
  `arena_allocate` is three actions: from a free block, from a new sub-arena, and without memory.
  **Allocator** is the pool that `Arena` implements (`ImplementsPool`).
* **Snippet** EXTENDS `Arena` and instantiates `DList`: the whole container, with `snippet_decode`
  as a loop whose rounds may fail. Memory that Python owns is `Foreign`: `__init__.py` inserts such
  instructions, and `arena_free` refuses them. Callers do not use a snippet between `snippet_destroy`
  and the next `snippet_init`. A wild memory access ends a behaviour in the state `fault`.

Passes, generation and mutation:

* **JumpSearch** is `find_target` on the array that `validate_jump_targets` fills. The bounds of the
  current frame are variables, because the recursion is a tail call.
* **RandRange** is `rand_exclude` in words of `Word` values, with its assertions.
* **Pipeline** has one action per pass or, where a pass asks `random()` or loops until nothing
  changes, per round. Instructions are reduced to what the passes tell apart (`Kinds`). Lengths are
  scaled down (near jumps 2, the rest 1), and `Encodes` stands for the encoder: near jumps with a
  branch width they do not have are rejected, short jumps beyond `Reach` too. Client actions insert,
  remove and swap instructions between pipelines; a removed instruction keeps its memory until it is
  allocated again, so a dangling target can be read. `valid` and `run` record history for the
  properties.
* **Mutator** EXTENDS `Pipeline` and replaces its clients by `create_snippet` and one action for each
  case of `mutate_snippet`, with early returns, failures (`Breaks`) and calls that never return
  (`IsLost`: a NULL pointer, an assertion, the endless loop of `create_instruction` with operand types).
  What generation makes is `RandomKinds` and `GeneratedKinds`. That random relative jumps never occur
  (Zydis refuses to convert instructions with hidden operands) and which mutations fail was confirmed
  with a build of the library.
* **Generator** is `create_index`, which tries each mnemonic several times on the same instruction, and
  below it `generate_instruction`, one action per operand generator. Operand definitions have a kind
  and the sizes they may take; registers are in the three groups that decide about the REX prefix.
  `Encodes` stands for the encoder. `MCGenerator` has definitions from the Zydis tables. For 44 of its
  45 definitions and all fifteen pairs of an earlier operand size and REX state, a build of the library
  could succeed, and could fail, exactly where the model does.

Zydis, in 64 bit mode with all features, as libsnippet sets it up:

* **Decoder** is the physical decoding. `pc` names the step of the source: "prefixes", one byte per
  action; "tree", one filter per action, with the return to the remembered node (`temp`) at a dead end;
  then ModRM, SIB, displacement, the immediates, and the checks of register numbers. All reads go
  through the same guards (`InputStatus`) as `ZydisInputPeek` and `ZydisInputNext`. Filters and
  definitions are the constants `Tree` and `Root`.
* **OperandDecoder** is the second half of `ZydisDecoderDecodeFull` with **VectorInfo** (vector length,
  broadcast, rounding, mask, and the unit of 8 bit displacements), **Register** (which register a number
  is) and **Word64** (values as bytes, least significant first, so that the width is the source's).
  **Segment** is `ZydisGetInstructionSegments`. **Definitions** is what the rows of the generated tables may
  hold, from the enumerations and records of the internal headers; the tables that are checked are rows of that
  kind (`DefinitionsAssumption`, `EncoderTableAssumption`). **Disassembly** is the loop of `snippet_decode`: one
  decoder for all instructions, until a call fails.
* **Request** is `ZydisEncoderDecodedInstructionToEncoderRequest` and the sanity checks.
  **EncoderOperands** and **EncoderMatch** are the search for a form: a *trial* is the encoder's state
  for one form, the operators on trials are its checks. **Emitter** gathers the fields and writes the
  bytes. **Absolute** is `ZydisEncoderEncodeInstructionAbsolute` and
  `ZydisCalcAbsoluteAddress`: the predicted size of a branch, and the displacement that is patched in
  afterwards. These are operators, since the encoder keeps nothing between calls.
* **Codec** EXTENDS both halves: decode a blob, turn what was decoded into requests, encode them into a
  buffer of `CodeSize` bytes as `snippet_encode` does, and read the result again from a clean state.
* **ZydisTables** holds the rows of the generated tables of the decoder and the encoder for 33
  mnemonics, chosen so that every kind of filter, prefix, encoding and operand of 64 bit mode occurs. It
  was extracted from the generated files by a program; nothing in it was written by hand except the
  names of common rows.

Zycore:

* **Container** says what all containers promise: a sequence of items, a limit on it, the answer to a
  call that is out of range, and the size a caller is told. It also says where the source breaks this promise, and what
  holds then: an item that is emplaced in the middle by a constructor that fails displaces the items behind it
  (`Displaced`), and three calls make a bitset count bits it does not have (`Miscounted`). Such a
  set is *adrift*: it has no contract until it is cleared (`Adrift`). **ZyanVector**, **ZyanString**, **ZyanList** and **ZyanBitset** are the
  sources: the block of a vector with what lies behind its size (`Junk`), the terminator of strings, the
  first unused node of a list, the bytes of a bitset, and its size in words of `Wrap` values. **Containers** is one of them at a time under any
  caller, which also makes the calls that break the contract; `MCLists` puts them beside `LinkedList`. Allocation may fail; a vector that got no memory is
  only destroyed afterwards, for its capacity is then wrong.

Operators named `X_Something` beside an operator `X` are faulty versions of it (a forgotten count, a
skipped index, a swapped order). They are not used by any specification; each property was run
against one of them, to see that it tells the fault from the code.

## Runs

| Run | Question | Bounds, and why they are enough |
|---|---|---|
| lists | is the list of `list.h` one ring that is edited like a sequence; does every Zycore container do what `Container` says, its exceptions included, with and without memory, in range and out of range; do searches find what is there | three nodes: two swapped nodes can be neighbours in either order, apart, and at both ends; containers of up to three items (a first, a middle and a last one) with growth and shrinking by a factor of two; bitsets with bytes of two bits, so that three bits end inside a byte, in words of eight values, so that the size of an empty set wraps when a bit is taken from it; it may go one beyond the three items and two below nothing; one character besides the one that unwritten memory holds |
| arena | ownership, counts, growth, refinement | three sub-arenas of two blocks: a first, a middle and a last one, each partly used; one instruction of Python |
| snippet | container consistency | three sub-arenas of one block, so that the arena grows inside a decode and the owner of a block is searched for in every place of the chain; lists of three have a middle; no `Foreign` memory |
| search | exact, in bounds, ends | all increasing arrays of up to five addresses; both parities of the midpoint, both ends |
| rand_exclude | every draw of every interval | words of 8 values: all intervals and gaps |
| pipeline | what `pipeline_validate` promises | three instructions, two client edits: a jump, its target and one that moves them; jumps to known and unknown addresses |
| mutator | the same under mutations, with every kind of instruction; termination | two instructions, three mutations: one that breaks an instruction, one that returns early, one that validates; memory out of reach of rip-relative operands |
| generator | agreement of operands | 16 mnemonics with all kinds of operands in all places; three attempts: fresh, used again, used again after a failure |
| codec | decoder, encoder and the two loops over code | 801 blobs, each with an instruction *x*, one that leaves a mark in everything the decoder keeps, *x* again, and *x* cut off; *x* ranges over the kinds of prefixes and their orders, every encoding, every form of ModRM and SIB with its displacement, and malformed ones; the buffer has 26 bytes, so that some blobs fit into it when encoded and some do not |

`TargetsLive` is not checked in `mutator`: an instruction whose operand cannot reach the memory is
removed by `validate_rip_relative_mem`, after targets were chosen, and may be one. With memory within
reach, as in `pipeline`, `TargetsLive` holds.

What the properties of `codec` say together: no step of the decoder leaves its input (`NeverOverruns`),
what seven steps noted about the parts of an instruction covers it exactly (`SegmentsTile`), every attribute
goes back to a prefix that counts (`AttributesBacked`), the unit of a compressed displacement is the size of
the operand, which is computed elsewhere (`ScaleIsOperandSize`), nothing is carried from one call to the next
(`SameBytesSameMeaning`), only missing bytes are reported as missing (`CutOffIsNoMoreData`), and the loop ends
(`Terminates`). The encoder finds a form for whatever was decoded (`EncodesWhatItDecoded`), which when read
again is the same instruction (`SameCode`) and not longer (`NeverLonger`); and given absolute addresses,
with hints that fit and that do not, whatever it accepts leads where it should (`SameFromAddresses`).
When two instructions are the same is taken from `ZydisValidateInstructionIdentity` of Zydis' own fuzzer.

Three runs show a disagreement between the code and what the repository says of it:

* **insert_at_front** (`InsertedAtIndex`): index 0 inserts at the end (`snippet.c:247`), which
  `test/test_mutator.py:97-98` contradicts.
* **lone_jump** (`NoAbort`): a near jump is decoded alone, its target address lies elsewhere, and
  `validate_jump_targets` asks for another target than the jump itself: `assert(min < max)` of
  `rand_exclude` fails, in `pipeline_decode` (`pipeline.c:591`).
* **displacement** (`DisplacementUsed`): a SIB with base 5 and mod 0 has no base and a displacement of 32
  bits. With 32 bit addressing `Decoder.c:1357` asks for EBP only: where a prefix makes it R13D, the
  operand gets that base and loses the displacement.

The passing runs leave these out by their properties, not by their models: `InsertedAtInnerIndex` speaks of
the indexes other than 0; `pipeline` and `mutator` go through lone jumps, where the abort is a state, and
`OnlyLoneJumpAborts` says that nothing else in the passes leads to it. The blobs of `codec` have a SIB
without a base under 64 bit addressing only. `snippet` has no `Foreign` memory (see below). The runs with `CHECK_DEADLOCK FALSE` are those of programs that end: an aborted process,
`create_index`, `rand_exclude`, and the loops over code.

Other behaviour that a reader may not expect, seen while modelling, without a run of its own. In libsnippet:

* `snippet_remove` of an instruction that Python owns unlinks it and returns before it counts, because the
  arena refuses the block. `snippet_free` stops at the first such instruction. A destroyed snippet keeps its
  pointers. This is the behaviour of `Snippet` with a non-empty `Foreign`, under which `CountIsLength` fails.
* A decoded short jump is rewritten to a pair of branch type and width that does not encode, and is dropped.
* `generate_instruction` clears the request but not `eosz` and `rex_state`. On an instruction used again
  (`create_index`, `MUT_REPLACE_ARGS`) operands then disagree: in a build, ADD never failed on a clear
  instruction and one time in five on a used one. Hence `FreshRequestFits`.
* The search for the size of 32 bits compares a size in bytes with 2 (`generate.c:434`).
* `validate_jump_targets` can move a jump off a target that is present, because `target_addrs` belongs to an
  older layout (`pipeline.c:587`); `pipeline_encode` after a removal reads the freed target.
* `MUT_RANDOMIZE_ARGS` does not return (`generate.c:1013` compares a pointer); `MUT_REPLACE` and
  `MUT_REPEAT` of an empty snippet read through NULL; `create_snippet` zeroes the count of a list it
  does not empty (`generate.c:1039`); `MUT_REPLACE_ARGS` leaves an instruction that does not encode when it
  fails.

In Zycore, whose models do what the code does here:

* A vector notes its new capacity before the memory is there. A bitset notes its new size before: a refused
  `Push` still counts the bit (`Bitset.c:414`). `Pop` of an empty bitset succeeds and leaves the largest size
  (`Bitset.c:430`). A bitset of one bit is made with no byte, although `Bitset.c:52-56` says that the bytes are
  those "needed to fit" the bits: `(x) / 8` is rounded down before it is rounded up. After each of these, pushes
  and pops add and take bytes at the wrong bits, until a `Clear`. `lists` makes all these calls; such a set is
  adrift, and `WellFormed` asks of it only that it lies in its memory.
* `ZyanVectorEmplaceEx` in the middle, with a constructor that fails, has shifted the elements behind already:
  the one in the place is there twice, and the last one is lost without a destructor.
  `ZyanVectorSwapElements` refuses a full vector even when it could grow.
* `ZyanStringInsert` accepts an index one behind the terminator; a view inside of a view counts one byte too
  few; comparison without case is not antisymmetric for letters that differ only in case.
* The last, incomplete byte of a bitset is left out or masked wrongly by `All`, `Any` and `None`, and `Count`
  counts bits that were cut off. Nothing in this repository calls them; they are not modelled.

## Fairness

`PipelineEnds` assumes `WF_vars(Step)`: a call that runs goes on. The library is sequential C and no
pass waits for anything. Clients and mutations get no fairness: they may never call. `SearchEnds` assumes
the same of the search, `WF_searchVars(Probe)`, not of the next search. `Terminates` assumes it of the loops over
code, `WF_codecVars(Reading)`, not of the calls that start them.

## Proofs

All for every value of the constants, by TLAPS.

* **DListProofs**: what each function of `list.h` does to a list, for every heap, head and list: if the list
  of a head is the sequence `s` (`IsList`: no node twice, and `next` and `prev` lead from each place to the
  neighbours), then afterwards it is `s` with the node inserted, removed, replaced or swapped. `list_swap` is
  composed of the others as in the code, neighbours in both orders included. A traversal
  from the head shows `s` (`ElementsOfList`), and `list_get` finds its elements (`ListGetOfList`).
* **LinkedListProofs**: `Spec => []Ring`. `Ring` is not inductive, because it allows a second cycle beside
  the one through the head, which `list_replace` of a self-linked node breaks. The invariant is `OneRing`:
  there is a sequence that the list is and that has exactly the linked nodes. Every call is one edit of that
  sequence, hence `ListIsOneCycle` and the refinement of `SeqList` (`ListImplementsSequence`), whose mapping
  is the traversal from the head.
* **SnippetProofs** begins with the arena: `TypeOK`, `CountsExact`, `NoBlockTwice` are inductive together. They
  are proved per sub-arena (`SubArenaOK`), since an operation changes one sub-arena or adds one.
  `FailsOnlyWhenFull` follows for every step, and the refinement of `Allocator` is one step lemma.
  Then it joins the list and the arena: list, count, indexes and arena for every order of calls, with the rounds of
  `snippet_decode`, `snippet_destroy` and a second `snippet_init` among them. `CountIsLength` and `NoFault` need
  all of `SInv`: the nodes of the list are blocks that are in use and that no caller holds, so a newly
  allocated block, which is wiped, is never one of them, and `arena_free` accepts each of them, and so list,
  count and arena change together. From it follow the action properties `SwapKeepsIndexes`,
  `InsertedAtInnerIndex` and `LostOnlyInDecode`, and that `list_get` finds a node for every index below the count
  (`IndexesNameInstructions`). The theorems assume `Foreign = {}`. That is needed: for an instruction that Python
  owns, `arena_free` refuses in the middle of `snippet_remove` and `snippet_free`, and the count goes wrong.
  `snippet_free` is a loop over the list; the chain that is left after it (`FreedChain`) is a recursive function on
  the number of blocks that were freed.
* **GeneratorProofs**: about `Generator`, for every table of definitions that its assumptions admit.
  `FollowsOperandSize` says that `create_instruction` never fails for want of a size for the accumulator, and it
  holds on an instruction that is used again. By itself it is not inductive. The invariant adds that
  what earlier attempts at the mnemonic have left is the size of a general register (`SettledGeneral`), that the
  first operand to be generated beside an accumulator settles a size (`FirstSettles`, where the exchange
  in `Order` is needed), and that an immediate goes with the operand size also before the request is complete
  (`ImmediatesFit`): the operand size is settled once in an attempt, but for relative jumps, which have no immediates.
  Then about `RandRange`: behind the assertions the modular sums are exact (`CountsExact`), so `Drawn` is a
  bijection from the draws to the admissible values, for every word width.
* **DecoderProofs**: for every tree of filters, every blob of bytes and every limit on the length,
  `StreamSpec => []NeverOverruns` (`StaysInBuffer`), and every instruction that is decoded takes a byte
  (`LoopConsumes`), so the loop of `snippet_decode` has at most as many rounds as the blob has bytes. The
  position alone is not inductive: the size of a step depends on what was read before. The invariant also
  says that the decoder is at a node of the tree (`Consistent`), reads no more immediates than the definition
  has and knows the widths that give their sizes (`ReadsDefinition`), and that the root, an opcode filter,
  has taken a byte before anything can be found (`TakesBytes`).
  `EveryAttributeBacked` is `AttributesBacked`. It needs that the decoder's notes on prefixes are true
  (`PrefixesNoted`: at each offset that is kept there is a byte of that group), and, at every node of the walk,
  that a size prefix that is said to count does (`EarlyBacked`). The hard case is 66: a mandatory prefix filter
  takes it out of the attributes, a dead end puts it back, and with a second 66 the one that was taken and the one
  that gives the size are different bytes.
  `SegmentsAlwaysTile` is `SegmentsTile`. Seven steps note offsets and `ZydisGetInstructionSegments` puts
  the opcode at a place it infers from the opcode map or the size of the vector prefix, so the invariant
  (`LInv`) has to say that what a step notes is where the parts before it end (`LayoutInv`), and, while the
  walk reads opcode bytes, that the map it is in and the number of bytes it took agree with the filter it is at.
  That is where `OpcodeAssumption` comes in: with an opcode filter anywhere else the segments would not tile.
* **PipelineProofs**: about `Pipeline` and, with its own edits, `Mutator`. That `pipeline_validate` never
  fails (`ValidateSucceeds`) is not inductive: whether a pass fails depends on what the earlier ones left.
  The invariant `Inv` says at each stage what the jumps have by then (`Rewrites`), that a walk visits jumps
  of the list (`Visits`), that whoever has a target has its address (`Addressed`), and that in a valid snippet every
  address and offset is the one that would be computed (`InPlace`). From the last part follow `Lands`, and
  `EncodeKeepsValid`: a valid snippet is a fixed point of `validate_metadata` and `validate_jump_offsets`.
  `ValidateSucceeds` and `EncodesAfterPipeline` hold for `MutatorSpec` too, hence for every order of edits
  and encodings. That targets stay in the list (`TargetsStay`) is proved for code without operands
  whose memory is out of reach (`"far"`): `validate_rip_relative_mem` leaves those unencodable, and a jump
  may have one for its target. What a walk keeps of a list (`KeptUpTo`) is a recursive function and an
  address (`BytesBefore`) the number of bytes before it, so that both have lemmas of their own. The last part is
  about `JumpSearch`: the invariant is that an instruction at the wanted address lies between the bounds
  (`Narrowing`), with the addresses increasing; from it `InBounds` and `FoundIffPresent`.
* **ArrayProofs** and **ContainersProofs**: `Containers` implements `Container` (`ContainersImplement`), its
  containers stay well formed (`ContainersWellFormed`) and its searches exact (`ContainersSearch`), for everything that is stored, every length, every
  factor of growth and every order of calls, the failing ones and those that break the contract included, which
  `Container` has as steps of their own. `WellFormed` is not inductive. The
  invariant `ContainerInv` says what each kind of container must know about itself before the next call:
  * a vector that has its memory lies in it, with what is behind its size typed but otherwise unknown
    (`VectorInv`); a string ends with a NUL besides (`StringInv`). What a call does is stated once, as relations
    between the vector before and after it: the block grew and its items stayed (`Extends`), items were
    inserted, removed, overwritten or exchanged (`Inserted` and its like), on top of the lemmas about `Written`
    and `Moved`, which are the `memcpy` and `memmove` of the source;
  * a bitset that is not adrift has exactly the bytes that its bits need (`Covered`), and each is a byte
    (`Stored`); one that is adrift has bytes and a size, and nothing relates the two (`AdriftInv`). The bits of the
    last byte behind the size are whatever they were, so a bit that is pushed has to be written; what the theorem
    needs is that a push finds that byte, and that the byte is given back with its last bit;
  * the nodes of a list are two chains, of those in use from `head` to `tail` with both pointers right
    (`Strung`), and of those put aside from `first` on (`Waiting`). No node is on both or twice on one, and in a
    buffer of the caller every node that was ever given out is on one of them (`Taken`), so the place of the next
    new node, which the source computes from the length of the list, is free. In the middle of a call one
    node is on neither chain (`new`).
  
  Every call of a container then is one call of `Container` on the items one can see (`Held`), with the same
  size, status and result (`ItemsCounted`, `BitsCounted`), a failing call that leaves them alone, or one of the
  exceptions: a set leaves the contract exactly when its size stops to be the number of its bits. The walk along a list (`Onward`) is a recursive
  function on the number of nodes, and that it ends at the end of the chain is a lemma of its own (`OnwardChain`).

  The searches read the container and change nothing, so `SearchesExact` follows from the invariant and from what they
  compute. An attempt of the search from the left or from the right succeeds exactly where the needle lies wholly in the
  part it is given, and one that runs out of the part leaves none behind it (`Attempted`, `AttemptedUp`). A round of
  the binary search keeps what is below `l` less than the element and what is above `h` not less, and takes one
  element away at least (`Round`), so that as many rounds as elements are enough (`Rounds`).

Assumptions: the named ASSUMEs of the modules: cells and NULL are distinct, the nodes are finitely many,
there is at least one block and one sub-arena, `Pipeline` has finitely many instructions to give out,
addresses are natural numbers, a word has a value; of a tree that its root is an opcode filter, that filters
lead to nodes, that definitions have sizes that are natural numbers and at most the two immediates an instruction
has room for (`TreeAssumption`; `imm[2]` in `DecoderTypes.h:1231`), and that the tree asks for opcode bytes at
its root, after 0F, 0F 0F, 0F 38 and 0F 3A and after vector prefixes, and nowhere else (`OpcodeAssumption`, the
shape of the rows of `Generated/DecoderTables.inc`). TLC evaluates them in the runs, those of the tree on the
tables of `ZydisTables`. `ContainerAssumption` says that sizes and values are numbers, and that a vector which
shrinks at all does so at a factor no smaller than the one it grows by. So it is with the factors of `Vector.h:58-63`,
`String.h:57-62` and `Bitset.c:35`; with a smaller one, which the source admits, a deletion could find the block
too large, ask for a larger one, and fail for want of memory. Of the words of sizes (`Wrap`) it says that the largest
size is not one of whole bytes, as 2^64 - 1 is not, and is beyond what a container may hold. `GeneratorAssumption` gives every operand
the sizes that its generator reads. `AccumulatorAssumption` is what `InstructionDefinitions.inc` and
`OperandDefinitions.inc` have of `GPR_OSZ` operands that are visible: they occur in 11 mnemonics (ADC, ADD, AND, CMP,
MOV, OR, SBB, SUB, TEST, XCHG, XOR), all of whose definitions have two operands, at most one of them an
accumulator, registers and memory of 1, 2, 4 or 8 bytes, and immediates; and no definition in the tables has
a relative target beside an immediate (`JumpAssumption`). It answers what `generate.c:539` asks ("Always dependent on
other operand?") and `generate.c:904` leaves to later ("more than one dependent operand").

Only model-checked: all liveness; `FreshRequestFits`, which depends on how the sizes of neighbouring operands
are chosen in the table of definitions; and, in `codec`, what instructions mean (`ScaleIsOperandSize`,
`SameBytesSameMeaning`, `CutOffIsNoMoreData`, and the four properties of the encoder), which depends on the tables.

## Not modelled

* **Basic blocks.** `generate_basic_blocks` returns -1 when `snip->basic_blocks` is set, which `snippet_init`
  always does (`pipeline.c:275`), and nothing calls it or `walk_basic_blocks`: no state of the program
  has a basic block.
* **Arithmetic of displacements** in `validate_rip_relative_mem` and `validate_memory_operands`. `Pipeline`
  has the choice whether the operand reaches the memory. With a memory of 128 bytes or less the
  remainder at `pipeline.c:502` is by zero or by a wrapped size.
* **Generator**: the values of immediates and displacements, and the selection by operand types, which its
  only caller does not get to. A second `create_index` on one index overruns its array
  (`generate.c:1263`), and no iterations make the quotient no number (`generate.c:1260`): the model makes one
  call with at least one.
* **Zydis**: 16 and 32 bit modes, decoder modes that libsnippet never sets, far pointers in the encoder,
  `ZydisEncoderNopFill`, flags and meta information (categories, instruction sets), hidden operands, element
  types. Mnemonics without rows in `ZydisTables` are not checked, although the code that treats them is
  modelled: Zydis asks for a mnemonic by name in a handful of places only (`mov`, `jmp`, `xbegin`, and the
  `vmovnr` moves, which have no rows), and the theorems do not depend on the tables.
* **Formatter and tools** of Zydis, **portability layer** of Zycore, `print_instruction`, `dump_snippet`,
  `debug_strings.c`: text and calls of the operating system; no state that the library reads again.
* **Python binding**: a thin ctypes layer. What matters to the library, instructions whose memory Python
  owns, is `Foreign` in `Arena` and `Snippet`.

The order of the project was: the data structures everything lies in (list, arena), the container, the
pipeline, its clients (mutator, generator), then the decoder, the encoder and the containers underneath.
What would come next is a larger part of the tables of definitions, for what the generator and the encoder
agree about, and the arithmetic of displacements on words of small width.
