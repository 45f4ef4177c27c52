# A formal model of Mihini

Mihini is a small byte code machine for embedded use: a virtual machine
(`mhvm`), its assembler (`mhasm`) and disassembler (`mhdasm`), and the heap
manager and containers they share. Everything is sequential C: what is hard
here is not concurrency but long sequences of legal calls over shared pointers,
integer widths, and two programs (assembler and machine) that must agree on
arithmetic neither of them states.

The modules are checked with TLC on small instances. Proved with TLAPS, for every
value of the constants: that the heap is safe and that the linked lists of
`pmalloc.c` implement it as long as no split leaves less than a header and headers
come to lie in clear memory; that the machine keeps its types, its zero flag, its
arithmetic at every width, its branches, the frame of its instructions and the
stack in its memory; the safety of the assembler; that the doubly linked list is a
deque; what both trees find and keep, also in the midst of balancing; and that a
line is split as it reads.

## The system

| Component | State | Operations | Interacts with |
|---|---|---|---|
| heap manager, `src/pmalloc.c` | two linked lists of headers in the managed memory, sorted by address (`__available`, `__assigned`); counters | `paddblock`, `pmalloc`, `pcalloc`, `pfree`, `psizeof` | `vm_init` hands it the machine's memory; `ALLOC`, `FREE` and the loader call it |
| virtual machine, `src/vm.c` | 16 registers of 64 bits, memory, condition flags, `ip`, `stopped` | one handler per opcode, called by `vm_run`'s loop | executes what the assembler writes; heap through `ALLOC`/`FREE` |
| A7 stack, `src/vm.c` | the memory above `A7` | `CALL*`, `RET`, `PUSH`, `POP`, system calls | part of the machine |
| assembler, `src/mhasm.c` | position in the output, labels, forward labels with lists of slots, output file | a line (label, opcode, operands), end of file, pass over the forward labels | trees (`stree`), lists (`dll`), `parser`, offsets agreed with `vm.c` |
| line splitter, `parse` in `src/mhasm.c` | segments of one line | `parse`, `next_segment`, `get_segment` | feeds `assemble` |
| disassembler, `src/mhdasm.c` | position, labels | two passes over the byte code | `btree`, `printer`, `opcodes` |
| operand parser and printer, `src/parser.c`, `src/printer.c` | none | registers, masks, immediates to and from text | assembler, disassembler |
| opcode tables, `src/opcodes.c` | none | name to opcode and back | assembler, disassembler |
| ternary tree, `src/stree.c` | nodes | `stree_set`, `stree_get`, `stree_exists`, `stree_iterate`, `stree_balance`, `stree_free` | labels, forward labels, opcodes |
| binary tree, `src/btree.c` | nodes | `btree_add`, `btree_get`, `btree_iterate`, `btree_balance`, `btree_free` | labels of the disassembler |
| list, `src/dll.c` | nodes, first, last, count | `dll_push`, `dll_pop`, `dll_shift`, `dll_unshift`, `dll_iterate`, `dll_free` | forward references |
| front end, `src/mhvm.c` | none | load a file, `vm_init`, `vm_run` | machine, heap |

What must hold of them, and what is hard about it:

* **Heap.** Blocks never overlap or leave their area, free neighbours are
  always merged, everything comes back when everything is freed; the lists stay
  sorted, doubly linked and apart. A violation takes a long sequence of calls
  in the right order. Sizes are unsigned, addresses are sums on typed pointers,
  headers are placed in memory that held user data.
* **Machine.** An instruction changes what its operands name and nothing else;
  flags tell the truth about results; arithmetic carried out in 64 bits is right
  at the width of the instruction; calls and returns nest. Each handler is
  short; the errors are in the widths, in the order operands are read in, and in
  sequences of instructions.
* **Containers.** Whatever the sequence of calls, the list gives back what was
  put in, in order; the trees find what was stored, and balancing loses nothing.
  They are pointer programs, and the errors are in the cases at the ends: the
  last node, a key that is there twice, a word that begins another.
* **The way of a program through the tools.** A line is split as it reads; an
  operand is the same as text and as bytes; the machine reads as many bytes as
  the assembler wrote; a listing says what the program said, with every label at
  its statement. Four switches over the opcodes, in three programs, and two
  passes must agree.
* **Assembler.** A reference, backward or forward, leads the machine to its
  label; a label that is missing leaves its own references open and no others;
  the last pass runs also over a program that was only half read.

Every hazard, at its line, is in `PROJECT.json` with the properties that would
catch it, or the reason none does yet.

## The modules

| Module | Models | Role |
|---|---|---|
| `Heap` | `pmalloc.c` | what the heap promises: sets of free and used blocks |
| `HeapProofs` | | theorems about `Heap` |
| `Pmalloc` | `pmalloc.c` | the code: linked lists, counters; implements `Heap` |
| `PmallocOrderly` | `pmalloc.c` | the calls for which the code keeps its promise: assumptions on the areas, conditions on each call |
| `Walks` | | lemmas: loops along links, least counterexamples, sums over sets |
| `PmallocProofs` | | lemmas about the list operations of `Pmalloc`; theorems about it, the refinement among them |
| `Offsets` | `mhasm.c`, `vm.c`, `mhdasm.c` | the offset arithmetic that assembler, machine and disassembler share |
| `VmWords` | `vm.c` | bytes, words, memory accesses, arithmetic |
| `Vm` | `vm.c` | the machine, one action per instruction handler |
| `CallStack` | `vm.c` | what the A7 stack promises; `Vm` implements it |
| `VmProofs` | | lemmas about bytes, words and memory; theorems about `Vm`, the refinement among them |
| `Assembler` | `mhasm.c`, `stree.c` | lines, labels, references, the last pass |
| `AssemblerProofs` | | theorems about `Offsets` and `Assembler` |
| `Deque` | `dll.c` | what the list promises: a sequence with two ends, and a walk |
| `Dll` | `dll.c` | the code: nodes and links; implements `Deque` |
| `Trees` | `btree.c`, `stree.c` | what the two trees share: insertion by key, moving a root down |
| `Btree` | `btree.c` | the binary tree and its balancing |
| `Stree` | `stree.c` | the ternary tree and its balancing |
| `ContainerProofs` | | theorems about `Dll`, the refinement among them, `Btree` and `Stree` |
| `Codec` | `opcodes.h`, `opcodes.c`, `mhasm.c`, `vm.c`, `mhdasm.c` | opcode numbers and operand sizes, as each program has them |
| `Disassembler` | `mhdasm.c` | the two passes; composes `Codec`, `Offsets` and `Btree` |
| `DisassemblerProofs` | | lemmas about `Codec`, rows of bytes and the fetches of the machine; theorems about `Disassembler` |
| `LineSplit` | `mhasm.c` | a source line cut into its segments |
| `LineSplitProofs` | | the theorem about `LineSplit` |
| `OperandText` | `parser.c`, `printer.c`, `mhasm.c` | operands as text and as values, data lines |
| `MC...` | | values of the constants for TLC |

Definitions called a mutant in their comment are not part of any specification:
each is a definition of the model with a plausible bug, there to show that a
property notices it.

### Heap and Pmalloc

`Pmalloc` keeps one record per header (`prev`, `next`, `size`) in `heap.node`
and the two list heads in `heap.root`. `LLRemove` and `LLInsertSorted` are
`ll_remove` and `ll_insert_sorted` assignment by assignment, the links they leave
alone included; `Paddblock`, `Pmalloc`, `Pcalloc` and `Pfree` are the functions
of that name, with the first-fit search, the split, and the loops of `pfree`
that go back over contiguous free blocks and then swallow forward. `held` is not
in the code: it is what callers hold and how much they asked for. All counters
and sizes wrap at `U32`, as `uint32_t` does.

Every sum in the code is on an `ll_item_t *`, so the code's addresses advance by
headers where bytes are meant. An address in the model therefore counts cells of
the size of a header. Read this way the algorithm is consistent, and the run
`pmalloc` shows it correct; `InsideArea` states what the scaling costs in bytes,
and `pmalloc_bytes` shows it violated.

`Heap` forgets the lists: `free` and `used` are sets of addresses, and a release
merges with the free block on either side. It leaves open which free block is
taken. `Pmalloc` defines the refinement mapping (the members of the two lists,
found by following `next` from the heads, and the sizes in the headers) and the
run `pmalloc` checks `HeapSpec`, that is `H!Spec`.

The code keeps that promise under conditions only, and checks none of them.
`PmallocOrderly` states them, and `OrderlySpec` is `Pmalloc` restricted to calls
that meet them: the memory a header is written to is clear (`Clear`;
`pmalloc_stale` shows what happens otherwise); the block found has the size asked
for, or enough besides for the header of the remainder (`Roomy`; otherwise
`pmalloc_unaligned`); the product `pcalloc` forms does not wrap. Sizes are otherwise
arbitrary, and whether a call is `Roomy` depends on the block the search ends at, so
on all calls before it. Of the areas it is assumed that they do not touch
(`SeparateAssumption`: `pfree` would merge across the border) and that the counters
can hold all of them (`RoomAssumption`). Nothing in the repository keeps callers to
this: the buffer `test_malloc` hands over was never cleared, nor is memory that was
freed. The theorems about `Pmalloc` are theorems about `OrderlySpec`, and so is the
run `pmalloc`; `MCPmallocOdd` checks the code without the conditions.

`totalmem` grows, with each area, by all the free memory (line 43). For the first
area that is its usable size, and `Accounts` says that it stays so; from the
second area on `ptotalmem` and `pusedmem`, which read it, answer too much.

### Vm, VmWords, CallStack

An instruction is a record that has been decoded already. `Execute` is one turn
of `vm_run`'s loop: it takes an instruction that `Code` allows at `ip`, and the
handler's action does what the handler does, in its order: `ReadOp` and
`WriteOp` are `vm_read_register_or_memory` and `vm_write_register_or_memory`, so
an addressing mode with an increment acts each time an operand is read or
written. `WriteMem` has the missing `break` of `.b`. Where C leaves the order of
two reads open (`a OP b`), `ReadBoth` allows both. Where a shift count is
undefined in C, the model does what x86 and ARM do (the count modulo the word).
`POP` does not return, so its loop is a second action, `PopStep`, one turn at a
time; once the counter has wrapped to 255 it may write outside the register file,
which is the outcome `crashed`, as is a division by zero. An addressing mode that is
none of the four (`parse_register` answers 0xFF for a register it cannot read) reads
as 0 and writes nothing, and an opcode that is in no case of the dispatch is passed
over (`Nop`).

`VM_LAYOUT.md` and `vm.c` disagree about three instructions whose properties a run
or a theorem states. Of `SUB` the document says that the first operand is subtracted
from the second (line 133), as `SUBI` and `CMP` do; the code subtracts the second
from the first. `NarrowExact` is about the width and has the code's direction;
`SubtractsFirst` is the document's, and `vm_sub` shows it violated. Of the branches
the tables say that 101, `BGT`, is "less than or equal" and that 110, `BLE`, is
"greater than" (lines 93-94, 273-274), where `opcodes.h`, the handlers and the
mnemonics of the same table say the opposite. `CompareThenBranch` goes by the names:
a program written by the words takes both branches the wrong way.

`WellFormed` says which decoded instructions there are: registers 0 to 15, the
widths, the modes, immediates that fit. `VmAssumption` asks it of the program
and asks that what is given from outside (first registers, memory, pointers of
the host, floats) fits its words.

`Frame` is promised of instructions that are `Tame`: they do not store single
bytes to memory (`vm_byte`), do not read and write back through a register that
moves, and do not divide a register into the address of its own remainder. The
assumption `OpsTame` of `MCVm` says that the run's instructions are.

`CallStack` is a stack of words. `StackSpec` maps it to the memory above `A7`
(`Stacked`). A program that pops an empty stack or overfills the memory is
promised nothing from there on (`sound`). `OnStack` is the discipline: calls by
any of the three forms, returns, system calls, `PUSH.L D0 -(A7)`,
`MOVE.L (A7)+ D0`, and whatever else names `A7` nowhere and leaves its results in
registers (`Apart`). The assumption `StackOnStack` of `MCVm` says that the run's
program keeps to it.

### Offsets and Assembler

`Offsets` is five definitions: `Encode`, the word that `parse_label` and
`fix_fwd_labels_iter_2` write; `Land` and `ReferTo`, where branches and `REFER`
go with it; `LabelKey` and `LookupKey`, the position it leads to in the two
passes of the disassembler.

`Assembler` reads a line as an optional label and a statement; of a statement
only its size and its label operand matter. `Plain`, `Backward` and `Forward`
are `assemble` on such a line, `Redefinition` and `Unknown` its two returns of
`false`, which end the reading but not the assembler; `FixUp` is
`fix_fwd_labels_iter` for one forward label and `Finish` the end of `main`.
Labels are in a ternary tree, which answers for every prefix of a key: `Longer`
says which names are prefixes of which. Such an inner node has value 0 because
`malloc`'s memory is still fresh (nothing is freed before the end). With a
forward label that is a prefix of an earlier one, its list is `NULL` and the
assembler dies: `Crash`.

### Deque and Dll

`Dll` has the list's `first`, `last` and `count`, and in `node` the nodes that are
allocated, by address; `calloc` takes any address that is free, so one that was
freed may come back. The loops of `dll_iterate` and `dll_free` run one turn at a
time (`DllVisit`, `DllFreeNode`); nobody calls the list from inside a callback, as
`mhasm.c` does not. `order` and `index` are not in the code: the addresses in
list order, and the place of the cursor. A walk backwards starts at the first
node too, so `Deque` promises little of it. After `dll_free`, which does not reset
`count`, nothing is promised and nothing called.

### Trees, Btree and Stree

A node is one allocation and no two links lead to the same one, so a node is known
by the links that lead to it from the root. A tree is a function from such
sequences of links to what the nodes hold: the pointers are in its domain. `At` is
what a link leads to and `Hang` what becomes of the tree when the link is written.
`Leads` says that a node is on the way a loop takes down the tree for a key; the
loop itself ends at `Slot`, or at what `BtreeGet` and `StreeGet` answer: the set of
the nodes found, which has one member or none.

`btree_balance` passes the root down one side as often as half the difference of
the two spines, and then does the same with each subtree. Each turn of its loop is an
action (`BalanceMove`, by `RootDown`), and the calls still to come are a sequence
of the places they are made at. What the properties say they say in between, too.
A key added twice lies to the right of its like until balancing turns the two
round; then a lookup finds the later one, or, after another balancing or insertion,
goes past it. `KeysFound` and `EntriesKept` say what holds in spite of that
(`shuffled`). In the disassembler, which adds a position each time a branch names
it and never balances, lookups find the first.

`Stree` gives every stored word a copy at some address, because `stree_insert`
compares addresses: a tree that was balanced keeps its words, and lookups in it
may miss them. `stree_new` sets one field of six, and the rest is taken to be
zero, which is so while the process has freed nothing.

### Codec and Disassembler

`Codec` has the numbers of `opcodes.h` and, for an opcode and a width, its
operands by kind and size: `Written` (`assemble`), `Executed`
(`vm_opcode_execute`), `FirstPass` and `SecondPass` (`mhdasm.c`). `Operands` is
where the four agree, so the others show at a glance where they do not.

`Disassembler` starts from `CodeOf(program)`, the bytes the assembler makes of a
program: offsets are those of `Offsets`, and every other operand is its place
among the arguments, so that a swapped pair shows. `FirstTurn` and `SecondTurn` are
one call of `first_pass` and `disassemble`, with the look-up of the opcode, all
reads, the label tree and the line printed. `feof` is true only after a read has
failed: each pass takes one more turn on bytes nobody set, any of `GarbageBytes`
and `GarbageWords`, and dies of an opcode that is in no table (`UnknownOpcode`).

### LineSplit and OperandText

`LineSplit` has one action for each of the five segments `parse` looks for and the
cases each ends in. Positions wrap at `Wrap` (256 in the code), so a loop of
`next_segment` may find no end: `NeverEnds`. `SplitRight` compares `offsets` with
the words of the line. Where the opcode should be a dot and a width may stand alone
(`Nameless`): `parse` stores an opcode of length 0 and takes the next word for the
opcode again, so nothing is promised of such a line.

`OperandText` reads and prints one operand, again and again: `TextParse` is
`get_segment` and the parser, `TextPrint` the printer. A line of `data` is read by
`Data`, the state machine of `write_data`.

## What TLC checks

Runs that pass:

| Run | Checks | Bounds |
|---|---|---|
| `pmalloc` | `TypeOK`, `ListsSound`, `HeldSound`, `Accounts`, `HeapSpec` | `OrderlySpec`; headers of 2 cells, areas of 13 and 4, requests of 0, 1 and 3 and `pcalloc` of 2 times that; enough for a list of three and for removing a first, a middle and a last header. Neither areas nor requests are multiples of a header: splits leave remainders of all sizes that hold one. |
| `vm_ops` | `TypeOK`, `ZeroFlag`, `Frame`, `NarrowExact`, `CompareThenBranch` | bytes of one bit, so `.b .w .l .x` are 1, 2, 4, 8 bits, addresses wrap at 16 and registers at 256; three instructions, any of 67 at every step, unknown opcodes and addressing modes among them, from 4 register files and 2 memories. Three steps are enough for a result, a flag set by it and a branch that tests it. |
| `vm_stack` | `StackSpec` | six instructions of eleven; room for three words. Nested calls, a push between a call and its return, overflow and underflow occur. |
| `assembler` | `TypeOK`, `Resolved`, `LeftOpen`, `Boundaries`, `WrittenOnce`, `Finishes` | three names, one a prefix of another; sixteen bytes of code: three statements with a label operand, before and after their labels. |
| `tools` | `TypeOK`, `Disjoint`, `InAreas`, `Tiled`, `Coalesced`, `Restored`, `LiveBlocksStable`; `Linked`, `DequeSpec`; `KeysFound`, `EntriesKept`; `NamesFound`, `NamesVisited`; `ListingRight`, `MachineReads`; `SplitRight`; `TextReturns` | each part by itself (`part`). The abstract heap, with two areas that do not touch, of 13 and 6 cells, headers of 2 and requests of 0, 1, 2: a block is released with a free neighbour on neither, either and both sides, and a block is taken whole and split; no bound on the number of calls. A list of up to three nodes at three addresses, two values, no bound on the calls. A tree of five entries over five keys: a root that is moved with its other subtree needs five. Three stored words of eight, among them words that begin others, siblings enough to be moved, and the root's own letter. Every mnemonic at every width before a `stop`, with its label before, at and after it, and every program of three over the kinds of operands the passes read alike, with labels before, after and at the end; positions are words of 24 bits. Lines of up to five words with and without label, indent and comment, and one word around `Wrap` = 16 characters long. Every register byte, width and 8 bit integer in every notation, every mask of two banks of four and every list of two items; data lines of three items. |

What the properties of `tools` leave open is what the code does not do, each
named in the property: a tree balanced with a key in it twice (`KeysFound`); a
ternary tree after `stree_balance` (`NamesFound`); `jmp`, which the first pass
reads without its operand, and instructions with an immediate and a register,
whose immediate the passes take for eight bytes and for one (`Regular`); shifts by
an immediate, written at their width and read as a byte, and a width on `jmpm`,
`callm`, `alloc` or `free`, which turns the opcode into another (`Misread`);
lines of `Wrap` characters or more, lines without a name before the dot, and the
third argument after a label (`SplitRight`). The inputs leave out a capital letter as a character immediate,
which `get_segment` makes small, and a comment after data.

In one place a run leaves instructions out on purpose: the memory operands of
`vm_ops` are wider than a byte (see `vm_byte`), and those an instruction reads
and writes back use `(An)` and not `(An)+` (see the list below).

Runs that find a disagreement between a document or comment and the code:

| Run | Property | What happens |
|---|---|---|
| `pmalloc_unaligned` | `HandedOutFits` | a remainder smaller than a header: its size wraps, and the next request is answered beyond the area (`pmalloc.c:69`) |
| `pmalloc_bytes` | `InsideArea` | pointer sums scaled by the header's size leave the area (`pmalloc.c:68`, `83`, `97`) |
| `pmalloc_stale` | `ChainEnds` | `ll_insert_sorted` leaves one link of a first or last header unset (`pmalloc.c:160-164`, `174`) |
| `vm_byte` | `ByteStore` | a store of one byte writes two (`vm.c:104`) |
| `vm_sub` | `SubtractsFirst` | `SUB a b` leaves `a - b` in `b`, where the document takes the first operand from the second (`VM_LAYOUT.md:133`, `vm.c:568`) |
| `vm_pop` | `PopCompletes` | `POP`'s loop never ends (`vm.c:505`) |
| `assembler_prefix` | `AllResolved` | a name that begins that of an earlier label is taken for a label at position 0 (`mhasm.c:606`) |

Deadlock is not checked where the system stops by design: the machine at `STOP`
or at the bound `MaxSteps`, the assembler when it is done or crashed. The heap
never stops, and there it is checked.

Seen while modelling and modelled as the code has it, without a run: `DIV`
leaves its quotient in the second operand, the document says the first
(`VM_LAYOUT.md:141`, `vm.c:605`); the words for `BGT` and `BLE` are those of each
other's condition (`VM_LAYOUT.md:93-94`, `273-274`, `vm.c:416-421`); `NOT` is the logical negation (`vm.c:738`);
`TSTI` and `NOT` never clear the zero flag (`vm.c:740`, `746`); `FCAST` writes to
its source; `DUMP_MEMORY` takes an argument that `SYSTEM.md` says it has not;
`INC (A0)+` reads one cell and writes the next (`vm.c:515-520`); `totalmem` adds
up free memory (`pmalloc.c:43`), so that with a second area `ptotalmem` is not "the
total amount of memory" (`pmalloc.h:14`); `pcalloc` clears `size` bytes only;
`#'A'` is assembled as `a` (`mhasm.c:295`); `\\` in a data string writes nothing
(`mhasm.c:721-735`); a comment after data is written as numbers (`mhasm.c:695`);
`tsti` is in no table of `opcodes.c` and cannot be written; an integer without a
notation stops at `2^63 - 1` (`parser.c:167`); and what `Regular` and `Misread`
name.

## Fairness

`vm_run` is a loop and the assembler a program with an end of file: each is the
only thing that runs, so weak fairness of the whole next-state relation says no
more than that the process is given its next turn. `Finishes` takes the
assembler's death (`Crash`) for an end too: it says that no loop runs for ever.
`Finishes` and `PopCompletes` are checked under it. No fairness is asked of single actions. That
`PopCompletes` fails even so shows that the loop itself does not end.

## What is proved

All theorems hold for every value of the constants that meets the assumptions
named in the module that declares them.

* `HeapProofs`, from `HdrAssumption` (headers have a size), `AreasAssumption`
  (areas hold a header and do not overlap or touch) and `RequestsAssumption`.
  The invariant `HeapInv` is the conjunction of `TypeOK`, `Disjoint`, `InAreas`,
  `Tiled` and `Coalesced`; none is inductive alone. A split needs sizes that are
  naturals; a new area meets no block because blocks lie in areas; a merge
  consumes just the neighbours that `Coalesced` says are not followed by further
  free blocks, and they share an area because areas do not touch. `Restored` is a
  consequence: a free block that ended before its area did would be followed by
  another free one. `HeapLiveBlocksStable` is an action property from the same
  invariant. That areas do not touch matters: two areas side by side would be
  merged into one block by the code.
* `PmallocProofs`, from the assumptions of `Pmalloc` and `PmallocOrderly`, of
  `OrderlySpec`: all these theorems are about calls that find clear memory for their
  headers and leave no remainder below a header. That the lists implement `Heap`
  (`PmallocImplementsHeap`), `TypeOK`, `ListsSound`, `HeldSound`, `Accounts`, all that
  `Heap` promises of blocks (`PmallocBlocksSafe`), and that `pmalloc` answers `NULL`
  only when no block would do. No part of the invariant
  `Inv` is inductive alone. `Shape` (each list is an ascending chain through just
  its members) lets an insertion find its place, but that the header of a split
  falls in free memory needs the invariant of `Heap`; that a merge swallows what lies
  next on the list needs both, and that the loop of `pfree` stops where `Heap` says
  needs `Coalesced`; that a remainder holds its header is what `Roomy` says of the
  call; and the counters, which wrap (`Counts`), are exact
  because blocks and headers together take just the room of the areas added
  (`Filled`), which a counter can hold.
  The code's loops are recursive functions along `next`, and the provers cannot
  instantiate the library's induction. `Walks` goes round it: that a function satisfying the recursion exists is
  shown from the finite walks or tables that satisfy it so far (`LoopExists`,
  `RecursionExists`), and where an induction is called for, the least number or the smallest set that
  would be a counterexample is refuted. The same way it proves what sums over a
  finite set do when an element comes or goes. The first part
  of the module says what `LLInsertSorted`, `LLRemove`, the search and the merge do to a
  chain, each once.
* `VmProofs`, from `BitsAssumption` (bytes of any width) and `VmAssumption`. `VmInv`
  is `TypeOK`, `ZeroFlag`, `Compared` (after a comparison of two registers the
  conditions are its relation) and `Popping` (the last instruction was
  well-formed, and was `POP` while `POP` counts): `ZeroFlag` speaks of the last
  instruction, and the turns of `POP` change registers without being one. From it
  follow `VmTypeOK`,
  `VmZeroFlag` and, with `Compared`, `VmCompareThenBranch`.
  `VmNarrowExact`: sums, differences and products by remainders (`Span(w)` divides
  the word), bitwise operations by the sets of bits that numbers stand for.
  `VmFrame`, for programs of tame instructions: per instruction, that the machine it
  leaves is confined to its cells and its registers (`Keeps`); what `PUSH` does
  after each register comes from the first register at which it would fail.
  `VmStackSpec`, for programs on the stack and memory of at least a word: after each
  instruction the words above `A7` are the stack before with a word more
  (`PushesWord`), a word less (`PopsWord`) or the same. `ReadBack` says that what was
  written is read, `ReadBeside` that the word beside it is untouched, although
  both go through the same bytes; only a pop of an empty stack or a push onto a full
  one leaves `Within`, and `sound` with it, from where on `CallStack` allows all.
  The first part of the module has the arithmetic: bounds of every operation, bytes of words,
  powers of two (as the number of subsets of a set), shifts and rotations.
* `AssemblerProofs`, from `OffsetsAssumption` and `AssemblerAssumption`.
  `BranchLands` and `ReferArrives` are the arithmetic, modulo `2^32` or any other
  width. `AsmInv` says in addition to `TypeOK` and `Boundaries` that labels are
  behind the position, that a slot on a label's list is an open reference to that
  label, and that every reference waits, is settled or is abandoned
  (`Accounted`). `AsmResolved`, `AsmLeftOpen`, `AsmBoundaries` and
  `AsmWrittenOnce` follow.
* `ContainerProofs`, the list, from `DllAssumption` (no node is at the null address). The invariant
  `DllInv` is `DllTypeOK` and `Linked`: neither the links nor the types are
  inductive alone, for a call writes through `last`, `first` or `prev`, and only
  `Linked` says that these are nodes. `DllIsDeque` shows the initial state and every
  action map to `Deque`: the lemmas give, for each action, what `Contents` and
  `Place` are afterwards, from where `order` changed. The addresses are any set,
  finite or not.
* `ContainerProofs`, the trees, from `BtreeAssumption` and `StreeAssumption`. Lemmas first: a tree is
  what is left without a subtree, and that subtree (`IsTree`, `Hangs`); hanging,
  inserting and moving a root down keep what the nodes hold, and, where every node
  lies where its key leads (`Ordered`), keep that. For `btree.c` the invariant
  `TreeInv` is that the nodes are the entries, once each, and, until a key is there
  twice when balancing begins, that they are `Ordered` and the older of equal keys lies
  above the younger (`Aged`): only this makes a lookup find the first, and an
  iteration keep equal keys as they came. `KeysAreFound` and `EntriesAreKept` follow.
  For `stree.c` a node is told from the others by the letters that lead to it only
  while the tree was not balanced (`Named`); what an iteration gives depends only on
  what the nodes hold (`Listed`), which balancing does not change, and stays right
  until a word is stored after it. `NamesAreFound` and `NamesAreVisited` follow. Of
  a tree that was balanced with a key in it twice `KeysFound` promises less, and
  `NamesFound` nothing of one that `stree_balance` was called on.
* `LineSplitProofs`, from `LineSplitAssumption` (a position is at least three values
  and no longer than a length). For a line shorter than `Wrap` the loops of
  `next_segment` end where the next word begins and ends; the invariant `LineInv`
  is that the words before the position are those found, all of them code, and that
  the fields hold what these words mean (`Reading`, `Holding`). At the end every word
  has been read, or there are more than five.
* `DisassemblerProofs`, from `OffsetsAssumption` and `DisassemblerAssumption` (a word's
  highest byte is a byte; what the turn after the end of the file reads is a byte and
  a word). `DasmSpec` starts from any program in `Sources`, all that an author can
  write in less than `U32` bytes: any length, every mnemonic but `ext` at every width,
  every target, while the run takes short ones. `MachineReadsAll` first needs that an
  opcode byte tells mnemonic and width (`ByteTells`: no two mnemonics have one
  number, and the four numbers of each that is widened are its own), that the layouts
  of `assemble` and `vm_opcode_execute` agree for what is not `Misread`
  (`ReadAsWritten`), and that in a row of sequences each lies where the lengths before
  it add up (`FlattenIs`, `StartsAre`). For `ListingIsProgram` the invariant `DasmInv`
  is that each pass stands at the start of a statement until its last turn
  (`FirstScan`, `SecondScan`), that the first has entered a label for all that the
  statements behind it lead to (`Collected`), that each number in the tree of labels is
  there once and below the next (`WellNumbered`), and that each line printed is its
  statement, with the labels the finished tree gives (`Printing`). The offset of an
  operand is read as it was written (`LabelRead`), and the two keys made of it meet
  (`KeysMeet`) although the passes count positions differently.
  A turn after the end may enter one more label, from whatever it reads; it gives the
  others no new number (`LastTurn`, `MoreLabels`), so the listing stays right.
* `LabelKeysMeet` in `AssemblerProofs` carries `Encode` on to the disassembler: the
  first pass counts four bytes of the header, the second none, and both name the
  label's position.

Only model-checked: `TextReturns`, whose definitions are `RECURSIVE` operators over
characters and out of the prover's reach (every other invariant of a passing run is a
theorem); `Finishes` and the other properties of liveness; and what the violation runs show. Not
proved either: anything of `ByteStore`'s single bytes and of the operands that `Tame`
leaves out, of which the documents' promise does not hold.

## Not modelled

* The content of user memory in the heap, and so what `pcalloc` clears.
* `Vm` takes decoded instructions and does not fetch through `Codec`: that its
  operands are as long as the assembler wrote them is `MachineReads`.
* Machine and heap together: `ALLOC` and `FREE` hand host addresses to programs
  (`vm.c:891`), and nothing in the repository says what a program may do with one.
* Programs that write over their own code.
* Floating point beyond the load and the cast: the other handlers are empty in
  `vm.c` and are `Nop` here; the text of floats is `atof` and `printf` of the C
  library, whose rounding is beyond a checker of small instances.
* `dump_mem`, `dump_reg`, the printing of system calls, error messages, and with
  them `check_args`, which only reports; malformed registers and masks.
* Loading a file in `mhvm.c`: two calls of the machine around file I/O.
* `endian_shim.h`: macros for other hosts; memory is little endian here.
* Files that cannot be opened or read, a header that is wrong, memory that runs
  out on the host: the code does not check `malloc`.

## Plan

Done, in this order, the core first: `Heap`, `Pmalloc`, `HeapProofs`; `VmWords`,
`Vm`, `CallStack`; `Offsets`, `Assembler`, `AssemblerProofs`; `Deque`, `Dll`,
theorems about `Dll`; `Btree`, `Stree`; `Codec`, `Disassembler`; `LineSplit`,
`OperandText`; `Walks`, `PmallocProofs`; `VmProofs`; `LineSplitProofs`; `Trees`,
`ContainerProofs`; `DisassemblerProofs`.

Left, most important first:

1. Proofs: `ListsSound` for areas that touch.
2. The machine and the heap composed as `mhvm` composes them (memory of 1 MiB,
   stack of 4096 bytes, the program allocated from the heap), for the border
   between heap and stack.
3. `Vm` over the bytes of `CodeOf`, so that a program is fetched as it was
   assembled, with the order in which a compiler evaluates the reads.
