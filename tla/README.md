# A verification project for scheme-rs

scheme-rs is an R6RS Scheme for Rust programs: a reader, a hygienic macro
expander, a CPS compiler that emits machine code through Cranelift, a runtime
with first-class continuations, a concurrent cycle collector, and libraries of
builtins. This directory holds TLA+ modules that model its core, TLC
configurations that check them on small instances, and theorems that TLAPS
proves for every size. Paths below are relative to the repository; `gc/`,
`proc.rs` and the like are under `src/`.

- `tlc -config X.cfg M` checks a configuration, `tlapm M.tla` the proofs of a module.
- `PROJECT.json` lists the runs with their properties, a mutant of the code for
  every property, the source lines behind every definition, the hazards the
  properties are aimed at, and the theorems.

## 1. The system

### Components

| Component | State it keeps | Operations | Correct when |
|---|---|---|---|
| Gc pointers, `gc/mod.rs` | a count, colour and flags in the header of every object | clone, drop, read and write a field under its lock | counts equal the references; no reference outlives its object |
| Collector, `gc/collection.rs` | heap list, roots, candidate cycles, addresses freed, the epoch | sweep, release, mark grey, scan, collect white, two tests, free, refurbish | frees garbage and only garbage, and gets to all of it; requests are answered |
| Dynamic state, `proc.rs` | continuation stack, dynamic stack, barrier ids | dynamic-wind, call/cc, prompts, handlers, raise, redirection, calls from Rust | jumps run exactly the thunks between source and destination; frames and dynamic stack agree |
| Exceptions, `exceptions.rs` | the handler stack, part of the dynamic stack | with-exception-handler, raise, raise-continuable, conditions | a handler runs outside itself; no way back from raise |
| Threads, `threads.rs` | a locked cell per thread | spawn, join | join gives the thread's values, always the same |
| Registry, `registry.rs`, `env.rs` | libraries by name, dependency graph | import, def_lib, load from a file or from Rust | recursion ends; cycles are refused; what is loaded is complete |
| Library bodies, `env.rs` | a state and lock per library, global bindings | maybe_expand, maybe_invoke, lookups | a body runs once, after what it uses; threads do not wait in a circle |
| Runtime, `runtime.rs` | a queue of five compilations, one compiler thread | compile_expr, entry points of compiled code | every request is answered, in whatever order |
| Hygiene, `syntax/mod.rs`, `env.rs` | scopes of identifiers, global binding table | marks, add_binding, resolve | an identifier means what it meant where it was written |
| Expander, `expand.rs` | none: patterns, templates | match, expand | templates instantiate what patterns matched |
| Reader, `syntax/lex.rs`, `syntax/parse.rs` | position in a port | tokens, data | data read back as written; numbers exact |
| Compiler, `ast.rs`, `cps/` | none: terms | parse, compile, reduce, contify, generate code | passes keep meaning; code owns its values once |
| Records, `records.rs` | table of nongenerative types | make types, constructors, accessors | fields of parents first; one type per uid |
| Hash tables, `hashtables.rs` | a table under a lock | set, ref, update, delete, copy | one entry per key; user procedures under the lock |
| Atomic boxes, `atomic.rs`; futures, `futures.rs` | a shared pointer; a shared task | swap, compare and swap; spawn, await | a swap is atomic; await gives one result |
| Ports, `ports.rs` | buffers, decoder state, position, marks of text | read, peek, write, flush, seek, close | bytes in order, once, none lost at buffer edges |
| Numbers, `num.rs` | none | arithmetic over four representations | exact, in the canonical representation |
| Values and collections, `value.rs`, `lists.rs`, `vectors.rs`, `strings.rs`, `symbols.rs`, `enumerations.rs` | tagged words; intern table | equivalence, indexing, interning | equal names one id; indices in range |
| Immix heap, `scheme-rs-gc/` | a block and line allocator that nothing links to yet | alloc, retire | no two objects overlap |
| Language server, REPL, macros, build scripts | I/O and generated code | | |

### How they interact

- **Every value is a Gc pointer.** Mutator threads change counts directly
  (`Clone`, `Drop`); the collector is one thread that shares the headers and the
  list of objects with them. A traversal takes each object's lock with
  `try_read`, so what it sees depends on who is writing.
- **Compiled code runs in a trampoline** (`Application::eval`): a call returns
  the next call. Frames are on an explicit stack in a `ContBarrier`; the same
  barrier carries the dynamic stack. `call/cc`, `raise`, prompts and port
  redirection all edit the two stacks, and each has its own cleanup frame.
- **Rust calls Scheme** with a new barrier, so a jump may target a barrier
  further down the Rust stack.
- **Naming a library loads it** (the registry's lock is held through the
  recursion); naming one of its variables expands and runs it under the
  library's lock, in whatever thread does the naming.
- **Macro transformers, hash and equality procedures, record protocols** are user code
  called with locks of the runtime held.

### Hard behaviours

The list is `hazards` in `PROJECT.json`, each at its line: 40 entries, all but two with
properties aimed at them (`ports.rs:1638` needs malformed text; `value.rs:487` is the hash that goes
with `equal?`, described in section 3). Where the code fails on a hazard, and a property leaves that case
out, the note of the hazard says so. The groups are:
an epoch that works on counts sampled at different moments while mutators run; pointers parked
from one epoch to the next while their objects are freed; jumps that run user thunks which may
jump; delimited continuations resumed where they were not captured; libraries that fail half-way
and are tried again; several threads that enter the library graph at different points; user code
that runs under the locks of hash tables; a compiler thread that may die with requests in its
queue; names that go through scopes, contours and libraries; passes that rest on counts made
before the term changed; reference counts kept by generated code; and sequential code with sharp
edges (buffers, overflow, budgets, indices of inherited fields).

## 2. The modules

| Module | Models | State and actions |
|---|---|---|
| `RefHeap` | the contract of the heap: `gc/mod.rs`, fields as in `lists.rs` | `status`, `rc`, `handles`, `slots`; one action per operation on a `Gc`, plus the three steps by which a collector may end an object: `Condemn`, `Decrement`, `Free` |
| `GcCollector` | `gc/collection.rs`, all of it | headers (`color`, `crc`, `epochRc`, `buffered`), the shared heap (`fresh`, `newAllocs`, `force`, `waiting`), the collector's own lists, and `work`, the explicit stack of what a traversal has still to do. One action per loop iteration or stack entry, so mutators interleave everywhere they can. At its end: the mapping to `RefHeap` and what the collector promises |
| `DynamicState` | the control operators of `proc.rs` and `exceptions.rs` | `frames` (the continuation), `dyn` (the dynamic stack), `id` and `outer` (barriers), `conts`, `delims` (captured continuations). One action per builtin and per continuation function it pushes |
| `Threads` | `threads.rs` | `phase`, `holder`, `cell`, `joining`; spawn, lock, store, join |
| `Registry` | loading in `registry.rs`, `from_spec` of `env.rs` | `libs` as `status`, `imports` and `declared` (the name a file declares, which nothing compares with the one that was asked for), `depGraph` by declared names, the recursion as the stack `loading`, files as `source` |
| `Interfaces` | what libraries export and import: specifications, versions, import sets (`registry.rs`), bindings and imports of an environment (`env.rs`) | `spaces` (the environment of each library and of a session), `top` (the table of top-level bindings), `cx` (the table of bindings), `current` (the specification being read, clause by clause) and the session's `sets` |
| `Libraries` | `maybe_expand`, `maybe_invoke` and the lookups of `env.rs` | `state` and `holder` of each library, `bound` (pending top-level bindings), `gaps` (exports that the body does not define), the stack `calls` of each thread |
| `Syntax` | identifiers, scopes, `resolve`, contours: `syntax/mod.rs`, `env.rs` | operators on an expansion context: the table, the contours, the counters |
| `SyntaxCase` | patterns and templates, `expand.rs`, compiled, matched, expanded | operators |
| `AbstractSyntax` | the expander and the parser of expressions, binding forms and bodies, `ast.rs`, and `apply_transformer` | operators from a form and a context to an expression and a context |
| `Hygiene` | nothing of the code: what a program with macros means, by renaming what macros insert | operators |
| `Expansion`, `MacroPrograms` | one case at a time: a program expanded, a form matched; the programs, libraries and forms | `case`, `outcome` |
| `CpsTerms`, `CpsCompile` | terms in continuation-passing style and what each expression is compiled to, `cps/mod.rs`, `cps/compile.rs` | operators |
| `CpsReduce`, `CpsContify` | uses and their cache, beta and eta reduction, dead code; dominators, contification: `cps/reduce.rs`, `cps/analysis.rs`, `cps/contify.rs` | operators |
| `CpsCompiler` | the passes in their order | `program`, `stage`, `term`, `uses` |
| `CpsMachine` | the code that `cps/codegen.rs` generates, an action per instruction, and the functions of `runtime.rs` it calls | `code` (what was found out about the term), `live` (which locals own, borrow or hold cells), `scopes`, `stack` (continuations), `heap` (counts of cells, closures, pairs), `globals`, `trace` |
| `CpsMeaning`, `CpsPrograms` | nothing of the code: direct evaluation of a program, evaluation of a term; the programs | operators |
| `CompileQueue` | the channel to the compiler thread, `runtime.rs` | `queue`, `compiling`, `alive`, and what each requester waits for |
| `HashTables` | `hashtables.rs` under the reader-writer lock | `entries`, `mutable`, and `calls`, the stack of operations of each thread: user procedures run between the steps of an operation |
| `AbstractTables` | the contract of a hash table | `map`, `answer` |
| `AtomicBox` | `atomic.rs`: the read-copy-update of a swap | `inner` (address and value), `swapping` (what a thread has read) |
| `Records` | types, constructors, accessors of `records.rs` | `types` (with `since`, the number of types when the definition of one looked up its uid), `nongenerative`, `defining` (a definition between its two locks), `records` |
| `Numbers` | the exact numbers of `num.rs` | `acc`, an accumulator in a representation, and `value`, the number it should be; the operations as operators |
| `Equality` | `equal?` of `value.rs` | `node` (both values), `todo` (what is still to compare), `budget`, the classes as `boxOf` and `box` |
| `Ports` | binary and transcoded ports over a file, `ports.rs` | `disk` and `devPos` are the device; `inputPos`, `bytesRead`, `inputBuffer`, `outputBuffer`, `open` the fields of `BinaryPortData`; `op` is the read under way. A read is `BeginRead`, one `Fill` per read of the device, `EndRead`; the other calls are one action each |
| `FilePort` | the contract of such a port | `file` and one `pos` |
| `PortBytes` | bytes, characters, line endings and files, for both | none |
| `*_proofs` | | theorems, see section 4 |
| `MC*` | | constants and symmetry for TLC. `MCComponents`, `MCObjects`, `MCRegistry`, `MCLibraries` and `MCEpochs` put components that share no state into one run: `part` says which one a behaviour is about, so their state spaces add and do not multiply |

`GcCollector` implements `RefHeap` under the mapping at its end:
`StatusBar` calls an object dying when its `Free` is on the stack, `SlotsBar`
empties a field of a dying object when its decrement has been done. Registry and
Libraries compose by assumption and guarantee: Registry proves that the graph of
recorded imports has no cycle and that loaded libraries have loaded imports;
Libraries takes any such graph as the constant `Graphs`. `Interfaces` is the other half of that division: libraries
are loaded in order and expanded whenever a name is looked up, which is all that loading and expansion
may do to the meaning of a name. `HashTables` implements `AbstractTables`: an operation takes effect in the step that
answers. The expander and the compiler are compared with reference meanings that share none of their
definitions: `Hygiene` renames instead of marking with scopes, `CpsMeaning` evaluates the
expression directly, with a store. `Ports` implements `FilePort`
under the mapping `Contents` (the disk, with what is buffered for output written over it)
and `Position` (the device's, less what was read ahead, plus what is buffered).

Conventions. A panic (`unwrap`, `expect`, an index out of range) is an action
without a successor: deadlock checking, or an invariant that says the operand
exists, finds it. Names, values and procedures are model values. Identities
made by counters (barrier ids, thread ids) are the least natural number not in use, which
keeps the models finite and is sound because the code only compares them.
Every bound is a constant whose name begins with `Max` or stands in the guards.
`returned`, `joined`, `runs`, `named`, `imported` and `since` are history variables: no guard reads them.

## 3. What each run checks

| Run | Instance | What it shows |
|---|---|---|
| `objects` | heap: 3 objects with one field, 2 handles each. Hash tables: 2 threads, 2 tables, 3 keys of which two are equivalent and all collide, procedures of one table that use the other. Compile queue: 2 requesters, 2 requests each, 1 place | counts are exact, nothing dangles; operations on a table are atomic and end, whatever the user's procedures do; every requested compilation is answered or fails, the death of the compiler included |
| `gc_epochs` | 2 objects that may form any cycle through one field, one of them with a second field, mutators paused during epochs, fair collector. Requests: 2 objects without fields, 2 mutators that run at every step. `equal?`: some 6,500 pairs of values of up to four pairs and vectors | only garbage is freed and the collector's own pointers stay valid; every object can be found again by a later epoch; a request returns, also one made while an epoch runs, and an epoch begins after it; garbage is freed in the end; fields are dropped once, children before parents. `equal?` returns, and rightly, also on cycles |
| `gc_lost_reference` | 1 object that may name itself, 2 threads, mutators at every step | a **violation**: see below |
| `dynamic_state` | escapes: 2 winders, a handler, a port, one call from Rust, 3 frames. Prompts: 2 tags, 2 prompts, a winder, a delimited continuation, 6 frames | jumps run the thunks between two states, one extent at a time, and arrive; captures stop at the prompt, whose barrier always exists; a resumed continuation fits |
| `dyn_shared_handler` | 2 winders, one handler, installed inside of an extent only (`HandlersInExtents`) | a **violation** |
| `components` | threads: 3 beside the main one, 2 results. Ports: buffers of 3 bytes, characters of 1 and 2 bytes, all texts of 4 characters, 4 line endings, 3 buffer modes, binary files with puts of 1 and 4 bytes and seeks to the start and beyond the end, files of up to 6 bytes. An atomic box: 2 threads, 2 values. Records: 2 Rust types, 2 more, 1 record. Numbers: machine integers of 4 bits, 12 literals, every operation | joins that find their thread begun see its whole, unchanging result; buffers do not show, the decoder's lookahead fits; compare-and-swap is one step; fields keep their values under inheritance, two types for one uid come from definitions that overlap; exact results, comparisons and hashes agree with the numbers |
| `standard_input` | a line-buffered text port without a line ending | a **violation** |
| `registry` | loading: 3 libraries, files that declare their own name and import any, or two that declare either's name, one file changed once, a Rust library, def_lib, at most 4 files being loaded at once. Interfaces: 2 libraries and a session, families of specifications. Collector: 2 objects, acyclic data, 2 handles each, mutators at every step, up to the first cycle that is freed (`CountingNext`). Expander: some 6,300 programs; patterns against forms | cycles refused before they are followed, and only cycles of the declared names; loading recurses without end only through a file that declares another name; what is loaded is complete; names denote what imports and exports lead to; what is freed by counting alone is garbage under true concurrency, and the collector's own pointers stay valid; macros keep the meaning of names; what a pattern matches is all of the form |
| `libraries` | a chain of 3 libraries, 2 threads, one faulty library that also calls itself early, the first of which may lack what it exports. Compiler: some 850 programs, with known procedures that refuse their arguments | bodies run once, after what they use; no circular wait; lookups return but for three kinds of causes, or waits for one of them. Every pass keeps meaning and scopes; the generated code does what the program says; reference counts stay exact through every instruction |
| `unhygienic_macro` | a macro used in the body that defines it, with a binder given by the user | a **violation** |
| `join_before_begin` | 2 threads beside the main one, 2 results | a **violation** |
| `compiler_captured_cell` | a closure over an assigned variable, called | a **violation** |

Every property has a mutant of a mapped definition that breaks it, in the same
run: a sweep that skips a case, a condition reversed, a frame left out.

### Disagreements found

- `gc_lost_reference`: the collector frees an object a thread still holds.
  The sweep samples the count 1 of an object that a thread has write-locked. The thread clones its handle (count 2) and moves
  the clone into a field of the object; the markings take the field for the reference that was sampled, so the
  object looks like an isolated cycle. The thread takes the handle out of the field again and drops one of the two: the count
  is back at 1 when the next epoch samples it, and both tests pass. It takes a mutator inside the
  epoch, so `gc_epochs` holds; it takes `free_cycle`, so what counting alone frees is garbage
  in `registry`. Acyclic data is no remedy: with three objects that only
  point to older ones, two members are parked as a cycle by mistake, counting frees one, the other
  is left as a cycle of one object whose circular count is 0, and is freed while a
  thread holds it (a trace of some 55 steps).
- `dyn_shared_handler`: `unwind` compares the top of the two dynamic stacks only.
  With the same handler (or winder) at the same depth of two extents it
  stops above an extent it should leave. A continuation is captured on `[w1, h]`; both are left, the out thunk of `w1`
  enters `w2`, installs `h` again and calls the continuation from `[w2, h]`. `unwind` stops at `h` at once: `w2` is not
  left, `w1` is not entered, and the continuation goes on with `[w2, h]`.
- `standard_input`: a line-buffered text port returns the end-of-file object before the text
  it has read, when the device ends before a chunk that holds a line ending. The port of
  the standard input is of this kind.
- `unhygienic_macro`: `apply_transformer` marks what a macro inserts and not where it was used
  (there is no use-site scope). Where definition and use share a body, a binder that the
  user gives the macro captures an identifier the macro inserts.
- `join_before_begin`: the cell of a thread is locked by the new thread and not by `spawn`, so a join may come first. It
  finds the initial value and returns no values at once; `docs/Standard Libraries/threads.md` says that it blocks until the thread returns.
- `compiler_captured_cell`: a captured assigned variable is only borrowed from the closure's environment, but the
  generator treats every cell as owned and drops it; the closure's own drop then counts it a second time.

Met while modelling, and excluded from the other runs by the conditions named under "Constants":

- Threads: a thunk that panics leaves the initial values to be joined.
- Registry: a file found under one name may declare another. Imports are recorded under the declared name (`env.rs:225-226`) and libraries
  looked up and kept under the name that is asked for (`registry.rs:353`), so a file for `(A)` that declares `(B)` and imports `(A)` is loaded
  again and again under the registry's lock, until the stack ends. The model has this (`MaxDepth` ends it), and `ReentersByMisnamed` says that nothing else does it.
- Libraries: an export that the body does not define never gets a global (`ast.rs:2027`), so a lookup of it goes round in `lookup_var` or `lookup_keyword` for ever
  (`env.rs:470-472`); a library that calls itself while it is expanded waits for itself; a lookup in a library whose expansion failed goes round too, and
  one that finds it `Invalid` takes its body for run. The model has all four; `LookupsReturn` and `ImportsRanFirst` excuse what they do and what waits for it, no more.
- Records: two threads that define types of one uid at the same time both define one (`records.rs:1039`: the table is read under one
  lock and written under another). The model has it; `OneTypePerUid` says that two types come from definitions that overlap.
- Equality, the hash not modelled: `equal-hash` writes a part it has met before as its position, though it is no longer inside of it (`value.rs:487`).
  `equal?` does not tell a part held twice from two equal parts, the hash does, which the comment at `value.rs:481` rules out.
- Dynamic state: an abort slices the stack it saved by the length after the thunks ran (`proc.rs:1842`).
- Interfaces: exports are kept by internal name, so of two external names of a variable the last one stays;
  the tests for a conflicting import compare the new binding with itself (`env.rs:357`, `:632`), so
  conflicts are not refused and a second name of a binding is not bound; an import of a fresh
  library inside of a body binds nothing; `only` ignores names that do not exist; a rename onto an existing name
  depends on the order of a hash map; the version `()` is refused.
- Expander: an internal definition reuses the outer binding when its identifier resolves to one; macros
  defined in a `let-syntax` body are not seen outside of it; a name that loops through ambiguous scopes is refused; `_` does not match
  `()`, `(x ... . d)` no atom; too many ellipses behind a variable are dropped; a variable may occur twice in a pattern.
- Compiler: a call of a known procedure without arguments passes a value too many; a variadic lambda applied to too
  few arguments panics in `reduce.rs:147`; dead code elimination may leave a function contification does not expect
  (`contify.rs:226`); uses cached before a reduction are stale after it; a cell read in an argument position is read
  after later arguments have been evaluated when the reduction moves it.
- Numbers: `(expt 0 -1)` is infinite, an exact complex with zero imaginary part hashes unlike the real equal to it,
  a rational with denominator 1 is not accepted as an index.

### Bounds

Two objects give every cycle shape the tests distinguish (self loop, pair,
pair with a tail through the handle counts), and the second field lets a cycle keep
another alive, which the reverse order of `free_cycles` is about. A collector
bug needs at most: an object, one that names it, and an epoch
that is neither first nor last, and epochs are unbounded. Escapes need three
frames for a jump that leaves one extent and enters another; prompts six
for a prompt inside a resumed continuation inside a prompt, and one frame more. The two concerns
are separate parts of `dynamic_state`, four million states between them; together they
take too long for regular use. Three libraries are the
least for a cycle that no single edge shows, and for a chain in which the middle one
fails. A read buffer of three bytes with characters of at most
two has every case of the code's 8192 and four: a character across the buffer's edge, a
tail that is moved, a wrap, an ending of two characters at the edge. Binary ports in mode
"line" run the code of "block". One change of a file is enough to make an edge of an earlier version stale.
Two libraries and a session have every path of a name: defined, renamed on export, imported through sets,
exported again, met twice on two paths. Three colliding keys, two of them equivalent, give a bucket with an entry
in front of and behind the one that is looked for. One place in the queue makes two requesters fill it and wait.
Machine integers of 4 bits overflow in both directions in every operation, and the operands have the limits and their
neighbours; results above `MaxPart` are checked but not computed with again. A record type is begun only while there is
room for one more (`MaxTypes`), so what never ends is not enumerated; two definitions may be under way at any time before. `equal?` has budgets small enough to
run out at each of up to four nodes. Programs of the compiler are written to use every form of the
language, every instruction and every reduction; those of the expander are all combinations of a definition, a rule,
a binding form and the names in them.

### Fairness

`gc_epochs` assumes weak fairness of the collector thread only: it is an OS
thread in a loop. Programs may do anything or stop. `GarbageIsFreed` is
conditional on infinitely many epochs, because an epoch starts when enough
objects were allocated or someone asks. `equal?` is one thread that runs (weak fairness). `libraries` assumes that each thread
that can take a step of a lookup does, and that library bodies end (`EndExpand`
and `EndInvoke` are fair); starting a use, naming other libraries and failing are not fair.
Hash tables: a thread in an operation goes on (weak fairness), user procedures end (strong fairness of the
steps of the outer operation: a procedure uses other tables finitely often), and a lock that is free again and again
is acquired (strong fairness of `Lock`: parking_lot hands a lock over to a waiter
within bounded time). Compile queue: the compiler thread and each requester
take the steps they can (weak fairness); as each asks finitely often, a place stays free in the end.

### Constants that restrict the code's behaviour

- `Concurrent` (GcCollector): mutators during an epoch, or not. FALSE is not what
  the program does; it isolates the algorithm from the race shown by `gc_lost_reference`. It is TRUE in the part of `gc_epochs` about requests and in `registry`.
- `MayPoint` (GcCollector): the shapes of data.
- `Shared` (DynamicState): may an element be installed while it is installed
  already, or while a frame will still push or pop it. FALSE excludes the case of `dyn_shared_handler`.
- `ThunkAborts` (DynamicState): may a thunk that a jump runs abort to a prompt.
  With TRUE the saved dynamic stack is sliced beyond its end (hazard at `proc.rs:1842`).
- `WellBehaved` (MCPorts): a text port that converts "\r\n" reads no wide character right
  behind a "\r" (it panics at the buffer's edge), a line-buffered one reads complete lines
  with endings of one byte (see `standard_input`), textual files are opened for one direction
  (for both they have no position to go back to). Texts are well-formed in the codec.
- `Disks`, `Changes`, `MaxEdits`, `MaxDepth` (Registry): the files there are, those they may become, how often, and how deep the
  recursion of loading may get (the stack of the process).
- `Faulty`, `CallsItself`, `Gaps`, `BodyImports` (Libraries): which libraries fail, which call
  a variable of theirs while they are expanded, which exports their bodies may leave undefined, which imports are made by bodies: only of libraries
  further down the chain. Lookups that a running body makes through `eval` are not modelled.
- `Uses`, `Program` (HashTables): the tables a table's procedures use (a procedure that uses its own
  table waits for itself), and the operations of each thread.
- `Conforms`, `SessionConforms` (Interfaces): the specifications that `NamesDenote` is about. They leave out conflicting
  imports, exports of undefined names, two names for a variable and a name for two, which the code does not handle (above).
- `Programs` (Expansion, CpsCompiler): the families of programs. `HygienicPrograms` has no binder given by the user where the macro is
  defined; `SamplePrograms` has no called closure over an assigned variable.
- `Graphs`, `K0`, `KB` (Equality): the values compared and the budgets, 400 and -40 in the code.
- `Initial`, `Observed`, `PrimOpOf`, `KnownOf` (CpsMachine): the globals of the programs, and which procedures record
  their arguments, are instructions, or are called without a check.

Deadlock checking is off where the system may stop: all threads returned or
joining each other, a port closed (`components`, `standard_input`), `equal?` returned (`gc_epochs`), every thread returned (`join_before_begin`), a thread's program done (`objects`), a library that waits for itself (`libraries`), a library loaded
until the stack ends (`registry`), a program run to its end (`compiler_captured_cell`).

## 4. What is proved

All theorems are for any value of the constants under the modules' ASSUMEs, which say
that sets are finite where they are counted and that markers are not members of the sets they mark.
A hypothesis beyond those is named below and stands in the statement. Each module `X_proofs`
is about `X`; `Components_proofs` is about six components that share no state, and `GcCounting_proofs`
continues `GcCollector_proofs`.

| Theorem | Module | Property | Hypothesis |
|---|---|---|---|
| `CountsAreExact` | `RefHeap_proofs` | `RcExact` | |
| `ReferencesStayValid` | `RefHeap_proofs` | `NoDangling` | |
| `CollectorImplementsHeap` | `GcCollector_proofs` | `ImplementsRefHeap` (refinement) | `~Concurrent`: programs pause from the moment a collection is due until its epoch has ended. Without it the algorithm is wrong (`gc_lost_reference`) |
| `NoneStrandedHolds` | `GcCollector_proofs` | `NoneStranded` | `~Concurrent` |
| `ReleasesAreSafeHolds` | `GcCollector_proofs` | `ReleasesAreSafe`, from `FreedIsGarbageHolds` and `PointersValidHolds` | `~Concurrent` |
| `CountingIsSafeHolds` | `GcCounting_proofs` | `ReleasesAreSafe` | none but the specification: `CountingSpec`, steps up to the first cycle that is freed |
| `CountingImplementsHeap` | `GcCounting_proofs` | `ImplementsRefHeap` (refinement) | the same |
| `DependenciesAreAcyclic` | `Registry_proofs` | `Acyclic` | |
| `LoadingEnds` | `Registry_proofs` | `ReentersByMisnamed` | none; without misnamed files it is that loading ends |
| `LoadedIsComplete` | `Registry_proofs` | `OriginsLoaded` | |
| `RefusalsAreRight` | `Registry_proofs` | `CycleIsReal` (action) | |
| `RunsOnceHolds` | `Libraries_proofs` | `RunsOnce` | |
| `ImportsRanFirstHolds` | `Libraries_proofs` | `ImportsRanFirst` | |
| `WaitsFollowImportsHolds` | `Libraries_proofs` | `WaitsFollowImports` | `NoCircles`: import forms inside of bodies close no circle (those between libraries never do, see `Acyclic`) |
| `TablesImplementMaps` | `HashTables_proofs` | `ImplementsMap` (refinement) | |
| `OneExtentAtATimeHolds` | `DynamicState_proofs` | `OneExtentAtATime` (action) | |
| `JumpKeepsCommonHolds` | `DynamicState_proofs` | `JumpKeepsCommon` (action) | |
| `CaptureStopsAtPromptHolds` | `DynamicState_proofs` | `CaptureStopsAtPrompt` (action) | `~Shared` |
| `ContinuationFitsHolds` | `DynamicState_proofs` | `ContinuationFits` | `~Shared`, `~ThunkAborts` |
| `BarriersMatchHolds` | `DynamicState_proofs` | `BarriersMatch` | `~Shared`, `~ThunkAborts` |
| `JumpArrivesHolds` | `DynamicState_proofs` | `JumpArrives` (action) | `~Shared`, without which it is false (`dyn_shared_handler`); `~ThunkAborts` |
| `LookaheadNeverFails` | `Components_proofs` | `LookaheadFits` | `NoCrlf`: no port converts "\r\n", where it is false |
| `PortsImplementFiles` | `Components_proofs` | `ImplementsFile` (refinement) | `PortSound`: texts that are read are well-formed; a port that reads and writes seeks, and ports that seek are binary; a binary port has no line ending; a line-buffered text port reads a file that is empty or ends in its line ending, of one byte, without which it is false (`standard_input`) |
| `ResultsAreStable` | `Components_proofs` | `CellHoldsResult` | |
| `AnswersAreAtomicHolds` | `Components_proofs` | `AnswersAreAtomic` (action) | |
| `OneTypePerUidHolds` | `Components_proofs` | `OneTypePerUid` | |
| `FieldsKeptHolds` | `Components_proofs` | `FieldsKept` | |
| `ResultsExactHolds` | `Components_proofs` | `ResultsExact` | |
| `ComparisonsAgreeHolds` | `Components_proofs` | `ComparisonsAgree` | |
| `RequestsAreKeptHolds` | `Components_proofs` | no run checks it: compilations are answered to the thread that asked, once, and none is lost while the compilation thread lives | `QueueAssumption`: the channel has a place, and `None` is no task |

The arguments:

- **Heap.** Neither property is inductive by
  itself: a drop is safe because the count is exact, and the count of an object that
  is condemned need not be, because nothing names it any more. `HeapInvariant` is
  their conjunction with the types and with `FreeIsEmpty`: a free address holds no
  references that an allocation would bring back to life. Counts are cardinalities of
  sets of fields, so each step is an argument about one element added to or
  removed from a finite set (`WriteField`, `FieldIsRef`).
- **Collector.** `CollectorInvariant` says what is true in each phase of an epoch. Between epochs (`AtRest`) what is parked is closed: no handle
  and no field outside names a parked object, so what programs do passes it by. Three facts about counts carry an epoch. While marking, the
  handles of a Gray object, the references to it from objects that are not Gray and the visits of it still on the stack are together no more
  than its circular count, since that began at the count noted by the sweep, which is at least the exact one (`Counted`), and each visit takes off one
  (`Marking`). So an object with no circular count left is named by Gray objects only; when the scan has spread what is alive from all others
  (`Spreading`), and every Gray or White object is reached from a root that is still to be scanned (`Reached`), the White objects that are left are closed.
  They are gathered depth first, one root after the other, so that no cycle refers to one gathered later (`Ordered`). After
  sigma-preparation the circular counts of a cycle are at least the references from outside of it (`Covers`, by the second loop's
  `Balancing`), which stays so in the next epoch because every later drop of such a reference takes off one or breaks the test of colours. Cycles are then freed from
  the last to the first: a sum of 0 means that nothing outside names a member (`CycleIsGarbage`), and what is left of the rest is still closed (`Lost`),
  also when a cycle is given up. A release is a stack in which every object is freed below all that is to be done about it (`Nested`), and in which the
  fields to be given up are those that the abstract heap still counts (`ReleaseBar`): then each `Decrement` or `CyclicDecrement` is one of `RefHeap`, each `Free` too, and
  everything else stutters. The refinement and the invariant are proved together: the exactness of counts is that of `HeapInvariant`, read through the mapping.
- **Counting beside programs.** Here programs run at any time, over data of any shape, and the specification stops before the
  first cycle is freed (`CountingSpec`; beyond it the theorems are false, see `gc_lost_reference`). `CountingInv` then knows nothing of what marks and
  circular counts mean, only that they do no harm: a traversal reads, or it is a release by the sweep
  (`Stacked`). What a release condemns is on the list of its epoch, hence seen by the sweep (`Ledger`), and no program
  holds it, so no lock that a program has or takes is one of its (`HeldLocks`). Marks left on an object when an epoch ends
  matter only if they are Red, since a release takes Red for done (`Painted`). The release itself is argued as above.
- **Registry.** The graph is kept
  acyclic by the test `Reaches` alone: where y does not reach x there is a closed set with y and
  without x, and a cycle through the new edge from x to y would lie in it (`EdgeKeepsAcyclic`). The stack of
  `load_lib` is a path in that graph as far as each file declares the name it was asked for (`Path`), so a library
  that is loaded twice with no misnamed file between would be a cycle; `Followed` says which imports of each frame have
  been recorded and loaded; `Definitions` carries the same through def_lib. For `RefusalsAreRight`, which is about files that
  do not change, `FromFiles` says that everything recorded, or waiting on the stack, is an import of a text that declares that name, also
  what failed loads have left behind: the path that the test finds is then a cycle of the names that texts declare.
- **Libraries.** The stacks of calls of all threads are one invariant: who holds a library's lock has the call that
  took it on its stack, at the position the state of the library says; the calls above a call are about libraries
  that its own sees; what a call has passed is invoked. That a body ran once is then a fact about states, that
  the imports ran before it a fact about what has been passed, and a thread that waits inside of a body waits for a library that the body's own sees.
- **Hash tables.** A step is the abstract one because what a call has found out about its table (`Knows`: its entry, or that
  the entry is among those it has still to compare) stays true while user procedures run, which is so because a writer is alone (`Locked`)
  and a class has one entry (`OneEntry`). The step that answers is then the abstract operation, and every other step stutters (`MapOf`
  does not change).
- **Dynamic state.** Every step cuts the dynamic stack or appends to it (`CallsGrow`, `ReturnsChange`), and leaves or enters one extent at most: `unwind`
  stops below the last winder or at the destination, `wind` above the next one. A common prefix is kept since `unwind` stops no
  lower than the highest position at which both agree (`UnwindToIs`). Steps that change the barrier are told apart by `Nested`: barriers
  that wait have other ids. For captures, `Apart`: no two frames of a continuation own the same
  element, so the barrier that is found is the only one of its prompt.
- **Continuations and their dynamic stacks.** `ArrangedHolds` is the invariant. Every element is given the stack that it was installed on
  (`par`); a stack obeys `par` when each of its elements lies on the one `par` gives it, so two stacks that have an element
  in common agree up to it (`SamePath`), which is why comparing one element is enough for `unwind`. A continuation is a `Chain`: between
  every two frames there is a dynamic stack, and `Link` says what each kind of frame makes of the one above it. The
  running continuation, those that wait for a call from Rust and those that programs keep all follow one `par`; a new element is given the
  running stack, which no stack refers to yet since nothing installs the element (`Install`). What a delimited continuation captured follows a `par` of
  its own, relative to its prompt: splitting a chain at the prompt's barrier cuts that prefix off every stack (`ChainAbove`), and
  resuming puts the running stack in its place (`ChainJoin`), for which no frame of a jump may lie in the slice: hence
  `Quiet`, and `~ThunkAborts`. Then `wind` ends with its destination, each prompt on a stack has a barrier where
  the chain first grows past it (`PromptFound`), and by the frames from the bottom the chain meets what `Needs` computes (`PathMeets`).
- **Ports.** Behind `input_pos` there is always room for the
  longest character (`Room`), and less than that is unread whenever the decoder asks for more
  (`NextCharBounds`); the move of the tail in `Consume` and the growth of the buffer in `Fill`
  keep it so. For the refinement, what was read and not consumed is the last bytes in front of the device's position
  (`Ahead`), and there is none while output is buffered (`Sides`), so the position is the device's less the first or plus the second.
  The position of a text is always between two characters (`Texts`), so what the decoder finds in the buffer is what
  stands in the file (`DecodesHere`), however the device split it; a line-buffered read that ends finds the whole line.
  Buffered output and then its successor, written one after the other, are written as one (`OverlayJoin`), also beyond the end of the file.
  Each step is then one of the file or a stutter.
- **Threads, atomic boxes, records.** `Pending`: before the thunk returns the cell holds its initial value and only the thread itself
  locks it. A swap that succeeds compared with the value that is in the box, because a change would have taken a fresh address that
  differs from the one it read. A definition that is under way noted how many types there were when it found none of its uid,
  so a type of that uid that it does not replace was made later: the two definitions overlap.
- **Compile queue.** A request is in one place: not sent, in the channel, being compiled, or answered (`CompiledOnce`). What is under way
  is wanted by the thread that its identity names, so a thread that takes an answer touches nobody else's (`WaitEnds`), and only the
  end of the compilation thread removes a task that nobody took.
- **Fields of records.** `Laid` says where each value of a record is: the field i of a type of the lineage stands behind the fields of
  that type's parents, in the Rust value as far as this reaches and in a slot beyond. That no two fields have one place
  (`PlacesDiffer`), that the default constructor hands each type its own arguments (`SplitIs`) and that Rust types are at
  the root of a lineage (`RustAt`) is shown of every hierarchy, along the parents; a new type leaves all of it
  as it was (`NewTypeKeepsLaid`), since a type is defined after its parent. Of the types written in Rust it is assumed that
  each embeds itself and comes after its parent, as `rtd!` makes them.
- **Numbers.** A rational is one pair: two pairs in lowest terms that are equal crosswise are the same (`RationalUnique`, by Bezout's
  identity), and `Lowest` finds it (`LowestIs`). So every equation between rationals is shown by any fractions they come from
  (`Frac`, `FracArithmetic`, `FracSame`), and an operation only has to be right about its fraction; which representation the result is given
  never changes the number (`ArithmeticIs`). What is specific to the code is then: the quotient that `div` rounds up or down is
  the only one that leaves a rest below the divisor (`RefQuotientIs`), and the difference that `mod` takes is the one that is not negative (`ModuloIs`);
  the reciprocal of a power is the power of the reciprocal (`PowersOfIntegers`); a complex quotient, which multiplies by the
  conjugate and divides by the norm, is the quotient also of reals, whose norm is a square (`NumberDivIs`), and the norm is zero only of zero
  (`NormIs`). The invariant says that the accumulator denotes `value`, or is an exception or an inexact number with none.

The prover has no way to use an induction theorem that takes an operator as a parameter; inductions over numbers are done by
well-founded sets instead (`MinOf`, `Least`), also for recursive functions: the one that flattens encoded characters (`EncodedIsBytes`), powers (`PowerIs`), those along
the parents of types and the one up the frames of a continuation, which are shown to exist (`FromParentExists`, `NeedingExists`) before their equations are used. It cannot see recursive operators at all, nor liveness.

Only model-checked: cycles found beside running programs, and that the collector frees all garbage; interfaces; all liveness. The
expander, the compiler, its code and `equal?` are recursive operators over terms, which are checked on
families of programs.

## 5. Not modelled, and why

The components marked `not_modelled` in `PROJECT.json` say why. In the modelled ones:
parameters and continuation marks (data on the same stacks); the intrusive
lists of the collector (sets here); Trace of individual types (a set of fields);
import forms inside of bodies that close a circle, and lookups that running bodies make through `eval`; `equal-hash`; the async variants of locks; malformed text, UTF-16,
the line endings NEL, CR NEL and LS, custom ports, failing devices and `get_pos`; transformers that are
procedures other than those of syntax-rules, fenders, `syntax` outside of them, spans; the encoding of instructions
as Cranelift code and the fast paths of arithmetic; inexact arithmetic and transcendental functions;
the inspection of records and the macro that defines them; the Immix heap, which nothing is linked to.

## 6. Plan

Order is by how much of the system's risk a module carries.

1. Done: the heap and its collector, dynamic state, threads, registry, interfaces and library bodies, ports, hash tables,
   atomic boxes, records, the compile queue, numbers, `equal?`, the compiler with its code, and the expander.
2. Proofs. Done: what section 4 lists.
3. `Reader`: tokens and data, round trips. With it the rest of ports: malformed text, UTF-16, failing devices, custom ports.
4. Condition objects, `guard` and `raise-continuable`; enumerations, vectors and strings: index arithmetic.

Recursive operators stay out of modules with proofs: of those above, `AbstractSyntax`, `Syntax`, `SyntaxCase`, `Hygiene`,
`Interfaces`, `Equality` and the `Cps` modules are for TLC only.
