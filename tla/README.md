# Blueberry in TLA+

Blueberry is a small scripting language in C: a lexer, a parser and a bytecode
compiler in front of a register VM, on top of a runtime of reference-counted
objects (arrays, hash maps, ordered maps, strings, numbers) in an arena
allocator of its own. Everything runs in one thread; what makes the code hard is
not threads but data structures with packed representations, destructors that
re-enter the allocator, manual reference counts, malloc failures half-way
through an operation, and long histories of legal calls.

This directory holds models of the runtime, of the path of a script from its
text to its results, of strings, the pattern matcher and the timers, with the TLC
configurations that check them, and proofs about the allocator, the arrays with
their script methods, the timers, the hash map and the strings.

## 1. Inventory

| part | state | operations | used by | what is hard |
|---|---|---|---|---|
| slot allocator, `tgmemlib/tgmemlib.c` | per type: chain of arenas, each with bump pointer, freelist, `live_count` | `tg_alloc`, `tg_free`, `tg_alloc_linked`, `tg_free_linked`, `tg_cleanup` | every object | destructors free and allocate before their own slot is back; runs of adjacent slots are searched in a freelist of any order; cleanup trusts a count |
| mmap strategies, `tgmemlib_strategy_*.c` | stripe counter (probe), stripes in use (pool) | map, unmap | allocator | stripes are a finite resource |
| objects, `ciobj.[ch]` | header with tag and 16-bit count | `ci_inc`, `ci_dec`, `ci_free` | everything | saturation, immortal objects, recursion through destructors |
| array, `ci_array.c` | size, length, offset, buffer, inline flag | push, pop, shift, unshift, set, extend, slice, copy, append, clear | VM, compiler | wrapped buffer, inline buffer that must be upgraded, growth in two mallocs |
| array methods, `proto/array.c` | none of their own | `push` ... `merge`, `splice`, `splice_arr`, `size` | scripts | raw buffer pointers beside the circular accessors, reference counts |
| hash map, `ci_map.c` | buckets, pairs, preindex bytes (route, longest probe), countdown | put/find/remove by identity of content, set/get/delete by pointer, resize, clear, next | VM globals, objects, interning | displacement only after four probes, backward shift, a saturating 5-bit field, resizing |
| ordered map, `ci_tree.c`, `proto/btree.c` | B-tree, count, height, search hint; iterators with a stack of nodes | set, get, delete, clear, forward and reverse iteration | scripts | splits with malloc failures, merges and rotations, hints from earlier shapes, iterators over a changing tree |
| strings, `ci_string*.c`, `proto/string.c` | buffer with head and tail space, read-only and slice representations, cached hash, intern table | append, prepend, trim, clear, slice, replace, split | everything | slices point into a buffer that its owner may move; space at both ends is reused; a hash outlives its text |
| numbers, `ci_number.c` | tagged integers, boxed floats | arithmetic | VM | overflow to boxed numbers |
| timers, `ci_timer.c` | array heap of timers, each the head of a chain | new, start, stop, restart, poll | programs that embed the runtime | deletion from the middle without sifting, callbacks that change the heap, unsigned time differences |
| VM, `blueberry.c`, `blueberry_vm/*` | loaded unit, frames with registers, closures, globals | one handler per opcode | scripts | who owns a reference in which register; results and arguments in windows that caller and callee must agree on |
| coroutines, `coro.c` | frame stack, value stack | call, return, resume | VM | `realloc` of the stack during a call |
| compiler, `lexer.c`, `parser.c`, `bytecode.c` | tokens, syntax tree, register boxes and freelists, scopes, labels | compile | VM | registers freed while opcodes name them, renamed after the fact, loaded late |
| encoder, decoder, `encoder.c`, `bytecode_load.c`, `bb_build_cached` | byte stream, label boxes | write, load and decode a unit | VM | formats must agree; jumps are patched by byte offset |
| PEG matcher, `cma/cma.c`, `lib/cma.c` | ops, position, backtrack stack, captures; pattern objects that own ops | match, build patterns, destroy them | scripts | captures of abandoned alternatives, two scan loops, input that comes in parts, raw pointers between ops of different owners |

How they interact: scripts reach arrays and maps through the methods in
`proto/` and `lib/` and through opcodes. Containers call `ci_dec`
on their elements when they are cleared or destroyed, `ci_dec` calls `tg_free`,
`tg_free` calls the type's destructor, and that is a container again: the
recursion that `TgMem` models. The runtime below the VM calls back only through destructors,
the compare function of ordered maps and the callbacks of timers. A script goes
through parser, code generator and encoder to a byte image, which the VM loads
and decodes; `cma.match` reads a string's buffer and returns slices of it.

What makes each part correct: the allocator never hands out a slot that is in
use, loses none and unmaps no arena in use; containers behave as the sequence or
map they stand for, also when memory runs out; the references a container counts
are the ones it holds; loops end and visit what they should; a script does what
its text means; a matcher decides what its grammar means; a string reads as what
was put into it; a timer fires once, when it is due. `PROJECT.json` lists
the hazards at their source lines with the properties that cover them.

## 2. Modules

| module | models | refines |
|---|---|---|
| `TgMem` | `tgmemlib.c` for one object type, with `tgmemlib_strategy_probe.c` | |
| `TgMemProofs` | proofs about `TgMem` | |
| `CiArrayOps` | `ci_array.c` as operators on array records | |
| `CiArrayOpsProofs` | what these operators do, for every array | |
| `CiArray` | its API as a state machine, with malloc failures and reference counts | `CiArraySpec` |
| `CiArrayProofs` | proofs about `CiArray`, the refinement of `CiArraySpec` included | |
| `CiArraySpec` | what an array promises: a sequence | |
| `ArrayProto` | `proto/array.c`, built on `CiArrayOps` | |
| `ArrayProtoProofs` | proofs about `ArrayProto` | |
| `CiMap` | `ci_map.c`, in both modes | `MapSpec` |
| `CiMapProofs` | proofs about `CiMap`, the refinement of `MapSpec` included | |
| `CiTree` | `ci_tree.c` | `MapSpec` (steps) |
| `MapSpec` | what a map promises | |
| `BbParser` | `parser.c` on the tokens of `lexer.c` | |
| `BbCompiler` | `bytecode.c`: syntax tree to opcodes over boxed registers | |
| `BbEncoder` | `encoder.c`, `bytecode_load.c`, `bb_build_cached`: opcodes to bytes and back | |
| `BbVM` | `blueberry.c`, `blueberry_vm/*opcodes.c`, `coro.c` with the counts of `ciobj.h` | |
| `BbSemantics` | what the language promises: text and meaning of a program | |
| `BbPipeline` | a script through all of them | compared with `BbSemantics` |
| `CiTimer` | `ci_timer.c` | |
| `CiTimerProofs` | proofs about `CiTimer` | |
| `Cma` | `cma/cma.c`, and `Peg`, its reference | compared with `Peg` |
| `CiString` | `ci_string.c` and `proto/string.c` as operators on a store | |
| `BbStrings` | scripts that use strings: the methods, references, captures | |
| `BbStringsProofs` | proofs about `BbStrings` | |
| `BbText` | `BbStrings` with the patterns of `lib/cma.c` and `match` | |
| `RecursionLemmas` | induction and recursive functions along an interval, for the proofs | |
| `MC*` | instances for TLC | |

### TgMem
`chain` is `heads[tag]` with its `next` links, `ar[s]` the arena in stripe `s`
(`bump`, `freelist`, `live`), `stripe_next` the counter of the probe strategy;
`mmap` is a choice of the first free stripe, or failure. `blocks` is the client's
side. `freeing` is the stack of `tg_free` calls that are inside a destructor:
between `FreeBegin` and `FreeEnd` any other allocation or free may run, as
destructors do. A block of several slots is returned as arrays and strings do it,
the tail with `tg_free_linked`, then the first slot. The loops of
`tg_alloc_linked` (one bubble-sort pass, search for a run, next arena, new
arena) and of `tg_cleanup` are single steps of the call `op`. Types do not
share arenas or stripes, so one type is enough.

### CiArrayOps, CiArray, ArrayProto
An array is the C struct; `malloc`ed memory holds `Junk`, which no client stores,
so that reading it is visible. Allocating operators return the set of their
outcomes: success, and failure at each malloc. `CiArray` has one action per API
function. Its `cnt[e]` is the number of references the arrays should own.
`ArrayProto` has one action per method. The methods do not look at the result of the
functions that allocate, and the actions go on as the methods do: a push or unshift
without memory has retained an element that no slot holds (`lost`), a set indexes past
the end and fails the assertion of `ci_arr_index` (`status = "aborted"`), merge and splice
copy into the buffer they have (`Prepared`). `status` becomes `"overrun"` when a
method writes past the buffer, or round its end over its own elements, and `"stuck"` when
it cannot return; `oom` says that a malloc of the last call failed. The loops of
`merge` over its arguments are recursive functions, so that they can be proved about.

### CiMap
A map is the C struct, a hash its low bits `Lo` (bucket) and its top bits `Hi`
(preindex). `Probe` is the insertion loop: the first four slots never displace,
then shorter probes are displaced. `view` is what the code's own lookup answers
for every key after every call, and `call` the last call with its key and value (a
history variable: TLC does not tell states by it). `RefinesMap` compares `view`, `call` and
the result with an abstract map: a step must be the step of its own call.
A setup fixes keys, hashes, the sizes a table may have, mode and what clients do
(`deletes`, `replaces`), since two combinations do not satisfy the properties
(section 4). The loops (probing, shifting back, reinserting on a resize) are
recursive functions, so that they can be proved about.

### CiTree
A tree is `root`, `count`, `height`, `hint`; a node is a record with sequences
of pairs and children. `mem` is the number of mallocs that succeed in a call, so
an insertion can fail after any of its splits. `view` and `call` are as in `CiMap`. An iterator is
the stack of the
indices of `ci_tree_iter`; a loop body looks keys up and replaces values. The
code's `CI_TREE_MAX_ITEMS` is even (64), which makes the right half of a split
one pair smaller than the minimum; the model is checked with 4, which has the
same effect. Keys are numbers: `ci_tree_default_cmp` orders integers and strings
totally. It takes all other keys for equal, so they are outside the model.

### BbParser, BbCompiler, BbEncoder, BbVM, BbPipeline
The stages of a script are functions of the stage before, so `BbPipeline` has one
step per stage, each of which may end the process, and then one step per opcode.
Parse functions return node and position; `as_ops_prio` is two tables, prefix and
infix. The compiler is one record: `regs` is the table of register boxes, and
an opcode holds indices into it, so that renaming a box and loading a
deferred value change opcodes emitted earlier, as the shared pointers of the code
do. `b_reg_label` looks a label up by a pointer into the source, which ends only where the source
does (`bytecode.c:634`): it finds nothing unless the label is the last text of a
script, and such scripts are kept out. So each goto and label has its own box, and a label may be named
like a variable. Compiling a call `a.b.f()` shortens the list of names in its
syntax node; `Compiled` is the tree after that, for the compound assignments, which compile their target
twice. The encoder produces real bytes, since jump targets are byte offsets and the
decoder finds instructions by their sizes. In the VM a value is a tagged
record, an object an entry of `heap` with its count, keys and values; a freed
object stays in the heap marked freed, so that a use after a free shows. Arrays
and maps are sequences there (`CiArray` and `CiMap` have the layout), and where a
new key lands in a map's iteration is left open. `Bit17` says which addresses a
malloc'ed function may have: the default build's `ci_inc` tests bit 17 of the
pointer, `ci_dec` does not. `BbSemantics` gives the same syntax trees their
text and meaning with an environment and a store, without registers, labels,
bytes or counts; it follows `docs/` and `tests/`, not the code.

### CiTimer
A timer's `link` is the C union of `prev` and `heap_idx`. `Poll` is split where
the code calls out: `PollHead` and `PollChained` begin a callback, during which
start, stop and restart of any timer may run, and `next` is read only after it.
Times are naturals, and the unsigned comparison of `BatchOf` is `Close`, the
distance in either direction. `due` is a history variable: the timers
started or rescheduled and not yet fired or stopped. `Careful` keeps the client
to deletions `ci_timerheap_delete` can handle (section 4).

### Cma, CiString, BbStrings, BbText
An op is the record its `cma_init_*` builds; pointers are keys of a heap of ops.
A match function takes the matcher's state and returns the one it leaves; the
`longjmp` of `cma_ret_end_reached` is a status that every caller passes on.
The SIMD loop looks at `Chunk` bytes at a time (2 for 16) through the two nibble
tables; `Simds` checks builds with and without it. `Peg` is the textbook meaning of the same
ops, without stack or capture array.

A string object is offsets into a buffer; a freed buffer disappears from the
store, so a stale pointer shows. Hashes are known by the text they were computed from.
The loops of `split`, `replace` and of a release are recursive functions, one round
a step, so that they can be proved about: `Scan` has the index and the marks of the C loop, and
`Releasing` the
objects that `ci_dec` and the destructors it calls have still to go through.
`BbStrings` has one action per method, on references the script takes and drops; `val` is a
history variable: the text each object stands for. `Capture` is what `match` does to a
string, with any bounds and name. `BbText` adds the patterns, and there
`match` captures what the matcher says.
A pattern object of `lib/cma.c` owns one op and, through its children, the
objects whose ops its own op points into. `Careful` keeps the client from
changing a string while a slice reads its buffer (section 4).

## 3. Runs

| run | expected | distinct states | shows |
|---|---|---|---|
| `tgmem` | pass | 65221 | section 5's invariants, `CleanupKeepsLive`, `LinkedServes`, `CallsReturn` |
| `ci_array` | pass | 45033 | every history of API calls behaves as on a sequence, which junk never enters; counts are exact |
| `array_append` | violation | | `ci_arr_append` of two elements |
| `array_proto` | pass | 8265 | methods, whichever malloc fails: elements, counts, no overrun with memory |
| `array_shifted_splice` | violation | | `splice` on a shifted array, room in front only |
| `ci_map` | pass | 49676 | pointer maps with deletion and identity maps without: a map to its clients, no entry out of reach |
| `map_ident_lost` | violation | | deletion from an identity map |
| `ci_tree` | pass | 63152 | shape, order of loops, map behaviour of B-trees |
| `bb_pipeline` | pass | 12227 | every script gives what its text means; no object is used after its free; jumps land on their labels; scripts end |
| `bb_methodbind` | violation | | a method bound and dropped twice |
| `ci_timer` | pass | 183003 | no timer lost, doubled, fired unasked or too early; one-shot timers all fire |
| `bb_text` | pass | 536607 | the matcher means its grammar, in whole and in parts; strings, slices and captures keep their text; ownership of ops and strings is exact |

Bounds, and why they are enough:

* `tgmem`: arenas of 3 slots, 2 stripes, requests of up to 4 slots, 2 nested
  destructors. A freelist of three has all the orders a sort and a run search
  can fail on for runs of 1, 2 and 3; the request of 4 is the one that fits no
  arena. An instance with arenas of 4 slots and requests of 5 passes too
  (1.69 million states, too long to repeat each time), and the proofs cover all sizes.
* `ci_array`: a buffer of 2 grows to 4 with up to 3 elements, so every
  position of the seam, the full and the empty buffer, the upgrade of an inline
  array and each malloc failure occur. `AppendMax = 1` keeps the client to appends that
  work (section 4).
* `array_proto`: receivers of up to 4 elements, operands that are empty,
  shifted and wrapped, and up to two of them in a `merge` (`MaxArgs`): the second
  goes behind what the first left. Any malloc fails; failed calls may lose one reference to
  an object (`MaxLost`), and the next call starts from what they left. The process ends when a method
  overruns, aborts or does not return, so deadlock is not checked. The script passes
  no array to its own merge (`SelfMerge`), and on an array whose first element is not in slot
  0 calls no merge that need not grow it and no splice for which the room is in front
  (`ShiftedCalls`); `array_shifted_splice` and section 4 show what these calls do.
* `ci_map`: the pointer setup has 6 keys chosen to collide in tables of 4 and 8
  buckets; with a longest probe of 5 in place of 31 the saturated field is reached with 6 keys.
  The identity setup has 8 objects of 7 contents in tables of 8 and 16; chains of two
  displacements happen.
* `ci_tree`: nodes of 4, four starting trees (empty, about to grow to height
  3, two of height 3), 18 keys of which the client touches four. Merges and rotations in
  both directions happen on leaves and on branches. `HintBytes = 2`, below the
  height, so that levels with and without a hint occur. Loops begin with one
  value of the hint only (`LoopHints`): iterators do not read the hint.
* `bb_pipeline`: one behaviour per script. 384 scripts have every pair of eight operators
  of different priority, nested on either side, over local, global and constant
  operands; 196 have every ordered pair of fourteen statement templates
  (assignment, loops, functions, maps, arrays, short circuits) over two locals and
  a global; the others are picked for one behaviour each (recursion,
  methods, too few and too many arguments and results, labels, gotos to one label from two places,
  errors of every
  stage). The target of a compound assignment contains no function literal and no
  assignment, and no call through three names: those are the nodes that
  compiling changes (section 4). `FrameCap = 10` in place of 32 reaches the limit with a short recursion.
* `ci_timer`: six timers, so that the heap has three levels and an insertion finds
  candidates for batching at the parent, the sibling and the child; three plans
  (one-shot only, two stops or restarts, periodic). Batches of 1 tick, clock up to 6.
* `bb_text`: three plans: three patterns; three string calls; two patterns, then
  two calls among them `match`. The words are `a`, `ab` and `aa`, which overlaps itself. Patterns
  may be dropped at any time. Inputs of up to 4 bytes
  with a chunk of 2 give every position of the first foreign byte in
  a chunk, the maximum inside a chunk, and the tail. A recursive grammar as
  C code writes it (a reference, nested captures, a callback that refuses) is
  in the initial states. `MaxStrs = 4` strings, `MaxLen = 8` bytes.

Fairness. `TgMem` has `WF_vars(InCall)`: a call in progress is
straight-line code of the only thread, so it takes its next step; nothing is
assumed of clients. `CallsReturn` (the bubble sort ends) rests on it.
`BbPipeline` has the same for the one thread that runs a script: it steps until
the script has ended, spelled out as `Fairness`; `Terminates` then says
that compiled loops, jumps and calls end. `CiTimer` has weak fairness of the
clock and of `Poll`: the program around the timers calls `ci_timerheap_poll`
in its loop, and time passes; starts and stops are never required.
`AllFire` holds where every timer is one-shot: a periodic timer at the head can
starve others behind it once a deletion has put the heap out of order.
`ci_timer` and `bb_text` may stop (the bounded clock and the bounded number of calls
end the behaviour), so deadlock is not checked there; `CiArray`, `CiMap`,
`CiTree` and the text component are checked for safety.

## 4. Disagreements between code and documentation

Four runs are expected to be violated (`findings` in `PROJECT.json`):

* `array_append`: the copy loop of `ci_arr_append` (`ci_array.c:519`) writes
  every element to the same index, so appending two or more loses all but the last.
* `array_shifted_splice`: `splice` on a shifted array that is not wrapped keeps its offset and
  writes past the buffer (`proto/array.c:237`).
* `map_ident_lost`: a removal stops shifting at an entry with probe length
  0 (`ci_map.c:590`), but entries of the removed key's chain may lie behind it, since
  the first four probes of an insertion never displace. A lookup by identity
  ends at the hole.
* `bb_methodbind`: a bound method shares the function of the method's closure
  without counting it (`advanced_opcodes.c:72`).

Also seen with other constants of the same modules, and kept out of the passing
runs by a client that does not do it, or allowed for by their properties:

* failed growth (`ArrayProto`, in the passing run): the methods ignore that the array could not
  grow. `set` then fails an assertion (`proto/array.c:131`), push and unshift lose a
  reference, merge and splice write past the buffer: `RefBalance` and `NoOverrun` allow for
  exactly these (`lost`, `oom`);
* `ShiftedCalls = TRUE` (`ArrayProto`): `merge` retains the slots from `data + start`
  (`proto/array.c:202`) while it copied to `data + offset + start` (`RefBalance`);
* `SelfMerge = TRUE` (`ArrayProto`): `merge` of an array with itself on the slow path does not
  return (`proto/array.c:192`; `MethodsReturn`);
* `Sources <- MCCallTarget` (`BbPipeline`): compiling `o.a.get().n += 1` compiles the call twice,
  and the first time takes `get` off its names for good (`bytecode.c:1300`). The script ends in
  an error (`ResultCorrect`), although `syntax.md:134` says that all compound assigns work on map fields;
* pointer maps with both `deletes` and `replaces`: the hole a deletion left can
  take a key that is also further on, `NoDuplicateKeys` fails (`ci_map.h:143`
  says "insert or replace"); same cause as `map_ident_lost`;
* identity maps of more than 256 buckets: a saturated longest probe makes `ci_map_find`
  look at 256 slots (`ci_map.c:522`), fewer than a full walk. This one was not run: it
  is where the proof of `EveryEntryFound` stops;
* `Bit17 = {FALSE}` (`BbVM`): `ci_inc` skips functions whose address has bit 17 clear and
  `ci_dec` does not, so their counts run down (`FunctionsLive`);
* `Careful = FALSE` (`CiTimer`): stopping a timer that is chained, that heads a
  chain or that has just fired violates `InOnePlace`, `FiresOnlyDue`, `NotEarly` and `AllFire`;
* `Realloc = {TRUE, FALSE}` (`CiTimer`): the insertion ignores that
  `ci_timerheap_ensure` failed (`ci_timer.c:137`) and writes past the array (`TypeOK`);
* `Careful = FALSE` (`BbText`): appending or prepending to a string moves its
  buffer away from under its slices and captures (`ci_string.c:627`), although a
  slice "keeps the backing memory alive" (`ci_string.c:137`): it keeps only
  the string object (`SliceMemoryKept`, `StringsRead`). And `s.append(s)` and `s.prepend(s)` take the
  source pointer before the buffer moves and read freed memory (`StringsRead`).

Found while reading for the models, and modelled as the code has it or left out of the scripts:

* Parser and compiler: a script that is cut off compiles the statements before
  the cut; `m->(1)` gives "no opcode"; locals are read when they are used, not when
  the expression reaches them (`x + x++`); `x = (x + 1) && x` and `x = x++`
  are renamed wrongly; `a, b = b, a` assigns one after the other; `arr[i] = f()`
  goes to the store for maps; `a, b = 1` with a global `b` emits a NULL register;
  `y = (m.a ||= 5)` yields the old value; `return x, x` returns `x` and null;
  registers leak, so about 250 statements overflow a function; `b_array` has 2560
  entries and no check (`bytecode.c:42`); the error "already declared as variable" for a label
  (`bytecode.c:637`) is never raised; the 16-bit code length truncates a function of 64 KiB.
* VM: replacing a map's value leaks the old one; the results of a native with
  several results overwrite registers without releasing them.
* Timers: a deletion moves the last timer into the hole without sifting (the
  TODO at `ci_timer.c:335`), so the heap goes out of order and timers fire
  late; a periodic timer without NOBATCH that is chained is never rescheduled.
* Matcher: a repetition whose iteration consumes nothing does not count it, so
  `REP(1, n)` of an empty match misses, and keeps its captures; a miss at the end of
  the input does not move `farthest` (`cma.h:218`); `endl` takes the end of a part
  of a stream for the end.
* `lib/cma.c`: an array given to `cma.seq` or `cma.alt` is counted and never released
  (`api.c:103`), so its patterns live for ever; `cma.any` leaks its set.
* `proto/btree.c`: `set` stores key and value without `ci_inc`; `ci_arr_new` out of memory
  frees a header with a stale length; `splice_arr` of an array into itself reads
  a buffer that may have moved.

## 5. Proofs

### The allocator

`TgMemProofs` proves, for every arena size, number of stripes, request size and
depth of nested destructors (`SizeAssumption` asks only that the first two are
positive naturals and the others naturals):

| theorem | statement |
|---|---|
| `Invariance` | `Spec => []IInv` |
| `TypeCorrect` | `Spec => []TypeOK` |
| `AllocSafe` | `Spec => []OneOwner`: no slot has two owners, no block is in an unmapped arena |
| `CountExact` | `Spec => []LiveCount`: `live_count` is the number of slots held |
| `NothingLost` | `Spec => []NoSlotLost` |
| `ChainSound` | `Spec => []ChainAndStack` |
| `CleanupSafe` | `Spec => CleanupKeepsLive`: `tg_cleanup` unmaps empty arenas only and leaves one |
| `LinkedServed` | `Spec => LinkedServes`: a request for several slots that fits in an arena fails only when no stripe is left |

`IInv` is the conjunction of the five invariants. None is inductive alone: that
cleanup unmaps no block needs the exact count; the exact count needs that a block which
comes back was not on the freelist (`OneOwner`); that needs that the frees on
the stack are about different blocks (`ChainAndStack`), and a new arena is
unlike the mapped ones only because their stripes are behind the counter.

The argument is per arena. An arena with the blocks in it is `Good` when it is
`Owned`, `Complete` and `Counted`. `TakeGood` and `GiveGood` say what it takes for
an arena to stay good when slots leave it and when they come back; the
freelist operations (head, run from the middle, bump pointer, swap of two
neighbours, list put in front) are instances. `OneArena`, `ArenaMapped` and
`ArenaDropped` lift this to the chain. There is one lemma per action, and
`NextIInv` collects them.

### Arrays

`CiArrayProofs`, for every set of objects, every capacity and every bound on
the lengths:

| theorem | hypotheses | statement |
|---|---|---|
| `TypeCorrect` | none | `Spec => []TypeOK`: every array is a well-formed circular or inline buffer |
| `CountsExact` | `NoArrIsNone`, `AppendMax <= 1` | `Spec => []RefBalance`: one reference is counted for each slot that holds an object |
| `RefinesArray` | the same | `Spec => RefinesSequence`: `CiArray` implements `CiArraySpec` |

`NoArrIsNone` says that the null pointer is not an array. `AppendMax <= 1`
keeps the client to appends that work: with two elements the refinement
is false (`array_append`, section 4), so the hypothesis cannot be dropped.

`TypeOK` is inductive; `RefBalance` is with `TypeOK` before and after the step.
The refinement mapping is `Elements`, the list a client can see; the simulation
has one step per API function and needs `TypeOK` on both sides. Malloc
failures at either allocation are steps like any others: they must leave list and
counts as they were.

`CiArrayOpsProofs` carries the weight. `Idx` (`ci_arr__idx`) is one-to-one on
the indices below `size`, so a write to one index disturbs no other
(`IdxInjective`, `WriteOne`); everything about wrapped buffers rests on this. Each
operation is then described three times: by its elements (`PushHeadIs`,
`EnsureSpaceSame`, `SliceIs`), by how often an object occurs (`HitsTail` to
`DecsAreHits`), by its list (`ElementsPushTail` to `ElementsAppended`).

### Script methods of arrays

`ArrayProtoProofs`, for every buffer size and number of arguments, whichever malloc fails:

| theorem | hypotheses | statement |
|---|---|---|
| `ArrayStaysSound` | `~SelfMerge` | `Spec => []IsArray(arr)` |
| `MergeIsConcat` | `~SelfMerge` | `Spec => []MergeConcatenates` |
| `SpliceIsReplace` | `~SelfMerge` | `Spec => []SpliceReplaces` |
| `MethodsStayInside` | `~SelfMerge`, `~ShiftedCalls` | `Spec => []NoOverrun` |
| `MethodsCountExactly` | `~SelfMerge`, `~ShiftedCalls` | `Spec => []RefBalance` |

The hypotheses are the cases in which the code fails with memory too (section 4): a merge of
an array with itself may not return, a merge that need not grow a shifted array counts
from the start of its buffer, and a splice takes the room in front of the first element for room
behind the last. Merging and splicing are right about the
elements on shifted arrays too, as long as they stay in the buffer. A failed malloc needs no hypothesis:
what is stored, counted, lost and overrun then is in the statements. The invariant `Inv` is the
three facts together, because a count is exact only of slots in the buffer; per method,
`MergeKept` and `SpliceKept` split on whether the room was made.

`merge` is a recursion along its arguments. What a recursive function computes is out of the
prover's reach in general, but along an interval it is not: `RecursionLemmas` gets
from the least counterexample (`LeastNat`) an induction (`AlongInduction`) and the existence of a
function with given steps (`RecursiveExists`); `MergeIs` then follows the
sum of the lengths and the place of each copied run. For the counts, a spliced list is a head, the
inserts and a tail, and the old list is the same head and tail around the
removed elements (`SplicedBack`), so the occurrences that change are those the code counts.

### Timers

`CiTimerProofs`, for every number of timers, every plan, every `Batch`, first
capacity and end of the clock:

| theorem | hypotheses | statement |
|---|---|---|
| `Invariant` | `Careful` | `Spec => []IInv` |
| `TypeCorrect` | `Careful`, `Realloc = {TRUE}` | `Spec => []TypeOK` |
| `NoneLost` | `Careful`, periodic timers are NOBATCH | `Spec => []InOnePlace` |
| `FiresTheDue` | `Careful` | `Spec => FiresOnlyDue` |
| `FiresInTime` | `Careful` | `Spec => NotEarly` |

Again the hypotheses exclude what section 4 lists: deletions that
`ci_timerheap_delete` cannot handle, a failed `realloc` (for `TypeOK` alone), and
periodic timers in a chain, which are never rescheduled (for `InOnePlace` alone).

`InOnePlace` counts slots and walks along `next`, and is far from inductive. `IInv` says it
in a form that steps can keep:

* `InSlots`: the timers with `CI_TIMER_HEAP` are those of the array, once each, and
  `heap_idx` is their position. Floating up, cutting out, swapping siblings
  and rewriting the indices keep this (`AncestorsPath` to `InsertIs`). The order of the heap is no part
  of it: the code does not keep it.
* `Woven`: there are a head `hd[t]` for each timer that is somewhere, itself if
  it is in a slot or fires as the root, and a rank `rk[t]`, its distance from the end of
  its chain. `next` goes from rank k to rank k - 1 and `prev` back, the last timer closes the
  chain at its head, no two timers of a chain have the same rank, and the rank of a
  head in a slot counts its chain (which bounds it). An active periodic timer that
  cannot be chained has a head.

An insertion into a chain gives the head one rank more and the new timer the head's
old rank (`WebChained`); poll takes ranks off the top (`WebNext`), and when the
chain ends nobody is left on it (`WebDone`). That a timer started by a callback cannot
get into the chain that fires follows from its head having left the heap. `AlongRanks` then
shows that a walk along `next` loses one rank per step, so it meets each timer
of the chain exactly once (`AlongMeets`), and `PlacesCount` adds up. TLC checked `Woven` on the
instance of `ci_timer`, with heads and ranks computed from the state, before it was proved.

### Maps

`CiMapProofs`, for every set of keys, every hash function (`Lo`, `Hi`), every series of
table sizes and every width of the saturating probe field:

| theorem | statement |
|---|---|
| `TypeCorrect` | `Spec => []TypeOK` |
| `KeysOnce` | `Spec => []NoDuplicateKeys`: no key is in two buckets |
| `EntriesFound` | `Spec => []EveryEntryFound`: lookups find every entry |
| `RefinesDictionary` | `Spec => RefinesMap`: `CiMap` implements `MapSpec` |

All four have the hypothesis `Supported`, one condition per failure of section 4: a setup with
deletions is neither an identity map nor sets a key that is present after a deletion, and an
identity map has at most 256 buckets. Pointer maps are proved for any size, deletions
and resizes in any order.

`EveryEntryFound` is not inductive: that an insertion loses nobody depends on why the
entries are where they are. `IInv` says it of the table (`Good`): the route of each entry
is known (`RoutesKnown`), its probe length is at most the longest probe of its route or that
field is saturated (`Within`), no key occurs twice (`Once`), `used_limit` counts the
entries (`Counted`), and `Robin`: from the fourth place on, a slot that an entry has gone
past on the way from its home holds an entry that is itself at least that far from its own
home. Before the first deletion the slots passed in the first four places are in use as
well; after one they need not be (`Holes`): they are taken without a comparison, so
a backward shift can leave a hole among them. This hole is what identity maps stumble over, since
`ci_map_find` stops at an empty slot, and it is why the two kinds of client are proved under
different conditions.

* Insertion: `Carried` says of the pair in hand what `Good` says of those in the table, and
  each round of the probe loop keeps both, by ending in a hole (`ProbeEmpty`), going on
  (`ProbePast`) or swapping pairs (`ProbeSwap`). `InsertNew` and `InsertPresent` draw
  the conclusion. That a hole comes before the loop has gone round is `used_limit`.
* Resize: the slots are reinserted one by one into an empty table, so the same step is
  followed along the old table (`ReinsertedIs`, `ResizeIs`).
* Deletion: the shift is a bijection of the slots that moves each entry of a run back
  by one (`FromIs`, `ShiftedIs`), so no key is lost or doubled, and distances in the run
  fall together (`ShiftRobin`).
* Lookup: `FindPtrIs` and `FindIdentIs` show from `Good` that a lookup gives the entry of a key if it
  has one. The state of `MapSpec` is `view`, what the lookups answer, with the call and its result;
  `StepRefines` shows call by call that a step is the abstract one with the same key and value, from
  these and from
  what each call does to the set of pairs.

### Strings

`BbStringsProofs`, for texts of any length and bytes, any number of strings, any arguments
of the methods and any count at which counts saturate:

| theorem | hypothesis | statement |
|---|---|---|
| `StringsStayRead` | `Careful` | `StrSpec => []StringsRead` |
| `SplitAndReplaceAgree` | `Careful` | `StrSpec => []SplitJoins` |

`Careful` keeps the client from what section 4 lists: changing a string while a slice
reads its buffer, and appending or prepending a string to itself. Without it the first theorem is
false. The second does not need it for its own sake, only for the invariant that says
`val` has texts; its core, `SplitCuts`, is about any text, needle and replacement.

That a slice reads as its text is not inductive: its buffer must still be there, so the
object that owns it must not be freed, so its count must cover the slice. `StrInv` is the
conjunction of

* `Held`: the buffer of an object is in the store, and between `start` and `end` it has the
  text of `val`; a cached hash is of that text;
* `Shape`: an owner has its buffer to itself among the owners, and a slice points into the buffer of its
  parent, or into the static `""`; parents do not go round in a circle
  (`Grounded`: in every set of objects one has its parent outside);
* `Rooted`, `Counted`: a count is saturated or at least the number of what refers to the object,
  which is
  the script, the slices whose parent or context it is, and the work of a release under way.

* A method that changes `s` leaves a store that is the old one but for `s` and the buffer that
  only `s` points into (`Own`), and there the new text (`Now`). `append`, `prepend`, `trim`
  and the growth behind them are each shown to be such a change, for both outcomes of `realloc`
  (`AppendNow`, `PrependNow`, `TrimNow`, ...).
* A method that makes a string leaves the old store and one object more (`Made`); a slice or a capture
  counts its parent and its name first.
* A release is followed step by step: each leaves an invariant store with what is still to be
  released as part of the references (`Left`), and one step less is left, so after twice the
  number of objects the work is done.
* `split`, the counting pass and the filling pass of `replace` are compared round by round:
  `Together` says that the three loops are at the same index, that the pieces joined so far are
  what has been filled in, and that the count is the number of pieces. What the size of the result
  then says follows from the lengths.

### Checked by TLC only, and why

`CallsReturn`, `Terminates` and `AllFire`: liveness under fairness is outside the
prover. Everything about `CiTree`, the pipeline and `Cma`, `CiTree`'s
refinement of `MapSpec` included, and with `Cma` the ownership of patterns and ops in `BbText`
(`OpsAlive`): their walks are recursive operators over trees, programs and patterns. `TypeOK` of
`BbText` is about patterns too; what it says of strings is part of `StrInv`.

## 6. Not modelled

* The `newalloc` stack of the allocator (only a test sets it up), canaries and
  dumps, `tg_allocator_destroy`, the strategies other than probe.
* Lengths near 2^32, and the wrap-around of `uint32_t` sums with them.
* The pointer that `ci_arr_head` returns: it points into a wrapped buffer when laying it out in one
  piece failed.
* Failed mallocs of strings (`ci_string.c:628`: the string stays as it was and the caller raises an
  error), of the compiler, the VM and the pattern objects.
* Reference counts of tree pairs; iteration over a hash map's buckets; iteration over
  a tree whose keys change under the loop, where the iterator's node pointers
  may dangle. Copy-on-write in `ci_tree.c`, which no build turns on.
* Recognition of tokens, string interpolation, floating-point and number
  formatting, `printf`, I/O and the dump programs: pure functions of their input
  or outside a discrete model.
* `ci_number.c`: integers that overflow to boxed numbers.
* Resume and yield of script coroutines, natives that call back into the VM
  (`callproxy`), metamethods; the register stack as one reallocated array.
* `ci_timer_unchain` and `ci_timerheap_max`, which nothing calls.
* Small inline strings, which nothing outside the tests makes; UTF-8.
* `CMA_EXEC` ops and exceptions of the matcher; the JSON parsers, which are benchmarks.

## 7. Plan

In this order:

1. Coroutines as scripts use them, with the register stack as one buffer that a call may move.
2. Numbers: packed integers, their overflow and boxed results.
3. The pool strategy of the allocator, and map iteration under deletion.
