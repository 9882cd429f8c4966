# gel: TLA+ models, checks and proofs

gel is a Lisp. A script is parsed, macro-expanded, turned into a flow graph,
compiled to bytecode and interpreted. Timers, file system requests and reactive
streams call back into the interpreter from a libuv event loop on the same
thread. Objects live in a heap with a copying collector.

The directory holds TLA+ modules of the parts that carry this behaviour, TLC
configurations that check them on small instances, and TLAPS proofs.
`PROJECT.json` lists the runs, the theorems, the hazards and, for each
definition, the source lines it models. File names below are relative to
`src/Sources/gel/`.

## The system

| part | state | operations | interacts with |
|---|---|---|---|
| Runtime (`runtime.*`, `stack_frame.h`, `operation_stack.h`) | stack of frames, `curr_scope_`, `result_` | `Eval`, `Exec`, `Call`, `CallPop`, `PushScope`, `PopScope` | interpreter, event loop, natives |
| Interpreter (`interpreter.*`) | `current_`, the address of the next opcode | one step per opcode | the frame and scope of the Runtime; the event loop in `kRet` |
| Event loop (`event_loop.*`, `natives.cc`, `natives_fs.cc`) | timers, requests; libuv's own queues | create, start, stop, again, set-repeat, five requests, callbacks | called by natives, calls procedures |
| Rx (`rx.*`, `rx_object.*`) | subscriptions (in rpp) | publish, map, filter | calls procedures from a native |
| Assembler (`assembler*`) | code buffer, position of every label | emit, jump, bind | flow graph compiler |
| Parser (`parser.*`, `expression.*`) | scopes, the position in its source | one operation per form | macro expansion, modules, natives |
| Macro expansion (`macro_expander.*`) | the scope of parameters | one visit per kind of expression | before the flow graph is built |
| Flow graph builder and compiler (`flow_graph_builder.*`, `flow_graph_compiler.*`, `instruction_vm.cc`) | blocks, labels of blocks | visit, compile | assembler |
| Objects and classes (`object.*`, `class.*`, `type.*`) | the list of classes | operators, casts, `new`, equality | interpreter, heap |
| Heap (`heap.*`, `zone.*`, `collector.*`, `pointer.*`) | new zone (two semispaces), old zone, roots | allocate, minor collection | every object |
| Scopes (`local_scope.*`) | names and values, parent | add, look up, iterate | parser, runtime |
| Natives (`native_procedure.*`, `native_bindings.*`) | registered procedures, entries | register, link, bind arguments | runtime, modules, shared libraries |
| Modules, scripts, namespaces (`module.*`, `script.*`, `namespace.*`) | the registry of modules, scopes, `initialized` | load, init, import | parser, runtime, natives |
| Symbols, arrays, buffers, printing, repl, threads | see `PROJECT.json`, "components" | | |

What is hard here is neither threads nor messages: there is one thread. It is
*re-entrancy*. `kRet` runs the event loop before its frame is popped
(`interpreter.cc:432-437`), a callback of the loop calls a procedure, and that
one ends in a `kRet` too. So calls nest inside drains inside passes of libuv
inside calls, all sharing one instruction pointer, one current scope and one
stack of frames. The other hard places are data structures threaded by hand
through memory (the link lists of unbound labels, forwarding addresses in the heap,
the vector of block labels), and names: the scopes of a macro, a lambda, a module and
the runtime are filled at different times, and what a name means depends on who was
first.

## Modules

| module | models |
|---|---|
| `EventLoop` | the tables of timers and requests and the operations on them, as operators; which callbacks a finished request runs |
| `CallStack` | abstract: what a call promises its caller |
| `Runtime` | frames, scopes, the instruction pointer, natives, and the drain in `kRet`; refines `CallStack` |
| `MC_Runtime` | small programs for TLC |
| `Runtime_proofs` | the inductive invariant of `Runtime`, proved |
| `CallStack_proofs` | `Runtime` implements `CallStack`, proved |
| `EventLoop_proofs` | the queues of libuv's passes, and what is left of an evaluation, proved |
| `JumpTable` | abstract: what an assembler promises about its labels |
| `Assembler` | the code buffer, labels and the lists of unresolved jumps; refines `JumpTable` |
| `MC_Assembler` | two labels for TLC |
| `Assembler_proofs` | the invariants of `Assembler` and the refinement, proved |
| `Scopes` | locals, scopes and chains of scopes, as operators |
| `Objects` | values, and what operators, casts and `new` do with them |
| `Equality` | when two values are equal |
| `Expression` | the kinds of expression, their children, which of them are constant |
| `Parser` | what the parser makes of a form: indexes of locals, constants, lambdas, macros |
| `Macro` | macro expansion, with the `set!` that changes its expression in place |
| `Instruction` | the instructions of a flow graph |
| `FlowGraph` | the visitors of the flow graph builder |
| `Bytecode` | opcodes, what the assembler emits for each, and reading it back |
| `Disassembler` | from one operation of the code to the next |
| `Compiler` | block labels and the compilation of instructions to code |
| `Meaning` | what a script means, without bytecode: the reference for `Machine` |
| `Machine` | a script from source to output: the steps of the runtime and the interpreter, and its properties |
| `MC_Machine` | scripts for TLC, and the phases that `Machine` takes as parameters |
| `Machine_proofs` | frames, scopes and arguments of `Machine`, proved |
| `Heap` | the new zone: allocation, and each step of a copying collection |
| `Heap_proofs` | the inductive invariant of `Heap` and its properties, proved |
| `Modules` | native procedures, namespaces, modules, and the imports of a script |
| `MC_Modules` | small sources for TLC |
| `Modules_proofs` | the inductive invariant of `Modules` and its properties, proved |

`Parser`, `Macro`, `FlowGraph` and `Compiler` extend one another in the order of the phases.
`Machine` extends modules without recursion (`Scopes`, `Objects`, `Bytecode`) and has what the recursive ones compute as constants: `Parsed`, `Compiled`, `Operations`, `Same`,
`SameUndefined`, `MeaningOf`. `MC_Machine` gives them their values, so that TLC checks the composition
of all phases, while the proofs about `Machine` hold for any parser and compiler that keep to
what is asked of them. `Modules` uses `Scopes`, too.

`Runtime` and `Machine` are two views of the interpreter: the first has all of its control and no
values, the second has values and leaves out the event loop.

### Runtime

`program` is the code under execution, in a bytecode reduced to what matters
for control: `work` pops some operands and may push one, `jump`, `branch`,
`invoke`, `throw`, `ret`. A native has one *effect*: nothing, a timer
operation, a request, or the calls an rx native makes. Values are the procedure
that made them, so that an operand stack shows who pushed what.

A frame of `stack` stands for a `StackFrame` together with the C++ activation
that pushed it. Its `phase` says where that activation is:

    run -> drain -> poll -> timers -> drain ... -> (returned)     bytecode
    apply -> applied -> (returned)                                native

`drain` is the loop `while (uv_run(NOWAIT))` of `kRet`; `poll` and `timers` are
the two parts of one pass. `calls` are the procedures a callback or a native has
still to call, one after the other; each is a call like any other, with a frame
of its own on top.

`Return` is the end of `Runtime::Call`: pop the frame, hand its value over,
restore the caller's address, pop the scope. Whatever is not called by `CallPop` leaves
its result on the operand stack of the frame below; for a callback that is the frame that drains, and what
that frame returns is its top operand. The address and the scope are
single variables, as in the code, and nothing but these pairs of push and pop
keeps them right.

libuv is outside the repository. It is modelled by what gel relies on: a pass
moves finished requests, then due timers, off its heap to a queue of that pass
(`pass` is the id of the frame that drains), and calls them back one at a time; a
callback may start a pass of its own. Time is abstracted, any armed timer may be
due at any pass. What the order within a pass is, is left open.

Undefined behaviour does not occur in the modelled paths, but a native that is
given too few arguments is outside of the model (see the hazards).

### Assembler

Code is abstracted to its length (`size`) and the operands of its jumps (`words`).
`pos` is `Label::pos_`, whose sign tells a bound label from one with unresolved
jumps; the operand of an unresolved jump holds the `pos_` before it, which
threads a list through the code. `Bind` walks the list with one `BindLink` for each
turn of its loop, so that the invariant speaks of the list half patched, too;
nothing else runs meanwhile (`binding`). Labels may be bound more than once, as the
inline compilation of branches does.

Two history variables, not in the code, say what a jump is for: `open` is the
set of operands that wait for a label, `goal` the place where the label of a jump
was bound.

`Bind` keeps positions one opcode past the place where it is called, and the
interpreter adds an operand to the address of the opcode, not of the operand. The
two cancel out for a jump that is resolved by `Bind`. `Jump` to a label that is
already bound does not take them into account and lands one opcode too far.
`ForwardSpec` leaves out this one action, `Spec` has it.

### Code generation

All phases are pure: each is a recursive function of the one before. `Parsed` is the parser with
macro expansion, `Compiled` what is left of them for one unit. `Machine` runs the code. `codes` has the code
of the script and of each lambda, which is compiled at its first call, below the scopes of
that call, as the code does; `frames` and `scopes` are the Runtime's; `output` is what was
printed. Source is a tree, and a value a tuple tagged with its type.

The expressions are literals, quotes, operators, lists, calls, `def`, `defn`, `fn`,
dispatch lambdas, ranges, macros, `begin`, `set!`, `when`, `while`, `cond`, `case`, `let`,
`throw`, `new`, casts and instance tests. Code is bytes and words at addresses, so that what
the assembler emits can be read back by the interpreter and by the disassembler, and a jump
may go astray. This is the release build: `LOG_IF(FATAL)` ends it and `ASSERT` does not. The
flag `pedantic`, which adds checks of types to the code, takes both values.

Of values, a Long is a word of `WordBits` bits, an Error is compared by its message, and
strings and doubles are left out: where the kernel throws a String, a number stands for it.
Of the natives there are `print` and `list`. Arguments are bound as `CallWithNArgs` and `Call`
do, optional ones included.

`Macro` visits an expression and returns the macros, the expression itself and what
replaces it. The first two are results because `set!` is expanded in place: the body of a
macro, and an expression used twice, may come back changed.

Labels are abstracted to what `Assembler` promises, and jumps it does not promise
go astray. Of the jumps to a label that is never bound, the first keeps 0, what `EmitLabelLink` wrote, and
leads to itself; the operands of the others are positions and lead anywhere. The vector of labels is kept in detail, because that is where compilation goes
wrong: its size, the capacity behind it (doubled at least, as `std::vector` does), and
the pointers into it that are held while it may move.

Undefined behaviour (a label behind the end of the vector, a pointer to a label that has
moved, a null pointer in the builder, an operand popped off an empty stack, a local
without value) is a status of its own, which no run leaves. A failed `LOG_IF(FATAL)` is
the status `fatal`, an exception that leaves the script `thrown`.

`Meaning` evaluates the source directly, with lexical scopes. `Machine` computes it in
its initial state and keeps it, so that an invariant can compare.

### Heap

`mem` maps the address of each header to its object; a write ends the objects it overlaps.
Allocation bumps `current` and never uses the last address of a half. There is no collection
when a half is full: allocation fails and the program ends, as it does for large objects,
which need the old zone. A collection happens only when a script calls `gel/minor-gc!`,
which exists in the debug build, so this module has failed assertions as ends (`abort`).

The program makes strings and the like (nothing to visit), errors, classes and modules, the
last two of which are roots, and puts values into the scope of a module. An object refers
to any object made before, by the address it was made at (the namespaces of a module, which the collector visits last and
like its name, are left out): this is what variables and
operand stacks, which are no roots, hold after a collection, too. `Collect`, `ProcessRoot`,
`VisitPointer`, `EndVisitPointers`, `NotifyRoot` and `EndCollect` are one turn each of the loops
of `collector.cc`. What is read from memory that has since been reused may be anything
(`wild`).

Three parts are not in the code and for properties only: the `id` of an object and of a
root, and `clean`, which says that the collection began in an undamaged half: its objects
refer to one another or to nothing, none has a forwarding address and none is there twice.
The first collection of a program is clean. A later one is not if the one before copied
anything with a field, because of the disagreement `heap_fields` shows: the copy still refers
to the old half. It is not enough to ask for such pointers to be absent. A collection that
follows one leaves forwarding addresses in the half in use, and two copies of an
object; a third that finds no such pointer any more takes the forwarding addresses for its own.
Roots stay intact in all of them.

### Modules

A source is a sequence of items, one for each form outside of a procedure: `defn`,
`defnative`, `ns`, `import`, and two expressions that make up an init function, one that loads
a library of natives and one that sets `Module:initialized`. A symbol is a pair of namespace and
name, the name of a file a pair of base and extension, because the registry drops
the extension and a later import does not. A value tells only where it was defined.

`natives` and `entries` are the procedures the runtime knows and the ones the C++ side
has linked; either may come first. `init` is the runtime's scope, `script` the script's. A
script is chosen form by form while it is parsed, and each import of a module runs
through the parsing of its file, its init function and the copying of its locals. Each turn
of a loop is an action: a form of a file (`todo` is what is left of it), a member of a
namespace, a native that a library links, a local that is copied from one scope to another (`queue` is
what is left of these). Nothing else runs in between; the invariants hold there, too. Any `FATAL` is the status `fatal`. A shared library that is not there ends in an
error nobody handles, which is rpp's (external) doing and `fatal` here as well.

## Runs

| run | bounds | shows |
|---|---|---|
| `runtime_calls` | five programs, two evaluations, callbacks come due up to five frames deep | the invariants below, and that the frames implement `CallStack` |
| `runtime_live` | three programs, callbacks up to seven frames deep, three timers, four requests | evaluations with one-shot timers and at most one request in flight end |
| `timer_stop` | one program | violation: `(Timer:stop 2)` stops timer 1 |
| `stat_error` | one program | violation: a failing stat reports success |
| `assembler_jumps` | two labels, 13 bytes of code, opcodes of one byte, words of two, no jump to a bound label | the lists of unresolved jumps stay sound when labels are jumped to and bound in any order; jumps land where they should; implements `JumpTable` |
| `assembler_back` | 9 bytes | violation: a jump back lands one opcode past its label |
| `codegen` | 28 scripts with procedures, values and macros; the 780 scripts of up to four statements out of five on one variable; 192 with conditionals in conditionals; 110 with a lambda that ends in a conditional; words of 8 bits | scripts print what they mean; code can be read back and jumps lead forward; calls pass arguments in order |
| `block_labels` | one of three scripts | violation: `let`, `while` and a `cond` of two clauses cannot be compiled |
| `apply_print` | one script | violation: a procedure in a variable cannot be called |
| `heap` | two halves of 9 words, headers of 1, sizes 1 to 3 of which 3 is too large, four objects, a local in each module, three collections | roots survive, copies are complete, single and adjacent |
| `heap_fields` | the same | violation: copies refer to the objects they were copied from |
| `modules` | the kernel and two libraries, each with one of 12 sources; scripts of up to three forms out of seven; `GEL_HOME` and the flag `kernel` set or not | what is imported is complete and initialized; no name changes its meaning |

The five programs are the smallest in which each interesting case occurs: a
helper whose own return drains timers armed for its caller; a callback that stops
or re-arms the timer it was called for, or another that is queued; a request whose
callback starts another; a native that calls two subscribers with one value and
takes the result of a third back; a callback that throws. Two evaluations are
needed for something to be left over by the first. `MaxDepth` cuts the recursion of
callbacks that re-enter the event loop: at depth five, there is a pass within
a pass within a pass, and a deeper one adds no new situation because a pass only
looks at the handles that carry its own id.

For the assembler, 13 bytes are room for four jumps: a list of three jumps (first,
middle, last) next to the list of another label, with instructions in between. A
word longer than an opcode is what makes overlapping operands conceivable.

The scripts of `codegen` are `factorial`, `length`, `append`, `nth` and `min` of
`gel/_kernel.cl`, its macros, those scripts of `scripts/` that work (optional arguments, dispatch,
instances, `new`, macros), a lambda in a variable, two procedures that call each other, calls
through quoted names, calls of a name that is not there, exceptions, and sequences of
`print`, `set!`, `when` and `cond` with and
without an alternate. Four statements are enough for a vector of labels that grows several
times, with and without moving, between two conditionals. What fails is left out of them
and has a run of its own (`while`, `let`, two clauses, calls of variables). A `while` has two defects, of which
`block_labels` meets the first. When conditionals before it have left the vector of labels with room for its own,
it is compiled, and the second shows in the model: no one binds the label of its test, since `BranchInstr::Compile` alone binds labels, those of
its own blocks; so the loop stands at its back jump after one turn. No loop can be among scripts that work.

Conditionals are nested up to three deep and in the test of another, each run with three values of the
variable, so that every way through them is taken. They come after three plain conditionals, which leave the vector of
labels large enough: at the start of a script the inner labels would move the vector under the pointers
`BranchInstr::Compile` holds (instruction_vm.cc:151), which is undefined behaviour like that of `block_labels`.

The lambdas that end in a conditional are those for which the source says what they return: each way leaves a value,
or prints and leaves '(), after up to two statements that branch, assign, print or leave an operand of
their own. Left out are those where the code returns something nobody means: after a statement that left an operand,
a conditional with a way that leaves nothing returns that older operand, and a `begin` or
`when` that ends in a constant drops it and returns '().

Left out, too, and listed under the hazards: `set!` of a variable that is a constant by then, and the call of a
macro with parameters in the body of another.

Four objects are enough for a root, an object it shows, an object both of two roots show, and
garbage between them that is gone after a collection; nine words do not hold four objects
of the larger size, so that halves fill up, before and after a collection. Two
collections bring a half back to be used over its old contents, and a third works on what
the second made of them.

The 12 sources of `modules` have each way two names can meet: defined twice, defined by a
module and by a library of natives, declared before and after a library links it, in
a namespace and outside of it, in a namespace named like the kernel; init functions that do and do not
finish; a library that is missing. Three forms are two imports around a
definition, or the same import twice.

### Properties

- `ScopesMatchFrames`: the current scope is the innermost frame's, scopes of the
  frames follow each other, nothing is left over after an evaluation.
- `ContinuesInOwnCode`: although all frames share one instruction pointer, each
  continues in its own bytecode; a native leaves it alone.
- `QueuesHavePass`: a handle off libuv's heap is in the queue of a pass under
  way, so that no callback is lost or run twice.
- `CallbacksDelivered`: a finished request is called back once, with all of its callbacks, by the
  pass that collected it; a timer leaves its queue for its callback, in its own pass, or because a
  native stopped or restarted it; and the calls a callback or a native still owes are made in order, each
  once, whatever runs in between.
- `QuietWhenIdle`: no timer and no request outlives its evaluation.
- `CallsAreIsolated`: whatever runs on top, a frame gets back its operands with the
  result of the call added, once, and nothing added for a call that discards it (`CallPop`); its position;
  and its scope.
- `Terminates`: see fairness.
- `ListsSound`: the list of a label holds exactly the jumps that wait for it and
  that `Bind` has not patched; the others it has patched are right already; no two
  operands share a byte, so that patching one list leaves the others alone.
- `JumpsLand`: the interpreter arrives where the label of the jump was bound.
- `Agrees`: at any moment the output is the beginning of what the script should print, all
  of it in the end; the run fails only where the script throws or has no meaning, and
  is undefined only there and without the checks of a pedantic build.
- `CodeSound`: code that is entered for the first time can be read from start to end, each
  jump of it leads forward to an operation, and the operands of its operations are lambdas, natives and
  values that exist.
- `ArgumentsPassed`: a call finds its operands in its locals, in order and from the second on, with null
  where there is none, and leaves the other operands to its caller.
- `ImplementsTable`: binding a label resolves the jumps that wait for it, in one go
  and whatever way they are threaded, and disturbs no other jump.
- `Tiled`: the objects of the half in use follow one another without a gap, and the scan
  is always at one of them.
- `RootsIntact`: after any number of collections, each root is in the half in use and is
  the class or module that was registered.
- `RoomToCopy`: there is room for every root and, in a clean collection, for all it copies.
- `CopiedOnce`, `NothingLost`: a clean collection copies each object it reaches, once.
- `FieldsForwarded`: what a copy refers to is a copy (does not hold).
- `NativesUnique`: a symbol has one native and a native at most one entry, in whatever
  order they are declared and linked.
- `ImportsResolve`: a script that has imported a module finds each of its names, with the
  value it has there.
- `ImportsReady`: a script sees a module only after its init function, and the libraries
  that loads, are done.
- `GlobalsKept`: a name in the runtime's scope never changes its value.

### Fairness

`Terminates` assumes that the thread keeps running (weak fairness of `Step`), that
the kernel answers every request and that an armed timer comes due (strong
fairness, since a drain polls over and over, and each pass offers both). It is
stated only for programs without a repeating timer, which run for ever by design,
and with at most one request in flight: with two that finish in one pass, the
callback of the first drains, waits for the second, and the second waits for that
callback. The code hangs there and so does the model.

## Proofs

`Runtime_proofs` proves, for every set of procedures, every program and every
bound,

    THEOREM Invariance == Spec => [](TypeOK /\ ScopesMatchFrames /\ ContinuesInOwnCode)

The conjunction is inductive. None of the three is on its own: that a return
restores an address in the caller's code needs the addresses saved below it,
that it leaves the right scope needs every frame's scope and the base scope of the
evaluation, and both need the types. The proof goes action by action; calls and
returns are lemmas of their own (a call keeps the invariant whichever code
makes it; a return keeps it whatever ran on top). The assumptions are those of
`Runtime`: programs are well-formed, no procedure is both a lambda and a native,
and `NoAddress` and `Null` are distinct from addresses and procedures.

`Assembler_proofs` proves, for every set of labels, every size of opcodes and words
and every length of code,

    THEOREM Lists      == Spec => [](TypeOK /\ ListsSound)
    THEOREM Jumps      == ForwardSpec => []JumpsLand
    THEOREM Refinement == ForwardSpec => ImplementsTable

`TypeOK /\ ListsSound` is inductive. That each operand leads to the previous jump of
the same label shows that `BindLink` visits all of them; that operands lie apart and
inside the code shows that neither a new jump nor a patch overwrites a link. When
`BindEnd` is reached, the list is empty, so all the operands in `open` have been
patched, and `JumpsLand` and `JumpTable!Place` follow. All other steps are
stutters of `JumpTable` or change only what they say.

`CallStack_proofs` proves, under the same assumptions,

    THEOREM Isolation == Spec => CallsAreIsolated

The refinement maps each frame to what its owner relies on: operands, position,
scope, and whether its result is for the frame below (`keep`). A call pushes and a return pops, and all other steps change the innermost frame
only; what a frame below gets back is what it had because the stack is changed at its end
alone. The invariant of `Runtime_proofs` gives the position and the scope a return restores.

`EventLoop_proofs` proves

    THEOREM Queues           == Spec => []QueuesHavePass
    THEOREM QuietEvaluations == Spec => []QuietWhenIdle
    THEOREM Delivery         == Spec => CallbacksDelivered

The conjunction of the first two, with `Quiet` in the place of the second, is inductive together with the
invariant of `Runtime_proofs`. `Quiet` says that nothing is outstanding whenever the stack is
empty; `QuietWhenIdle` speaks only of the moments between evaluations. For the first, what
matters is which frame can leave which phase: a pass holds its handles in the frame whose drain
started it, frames below the innermost one do not change, and the innermost one goes from
`poll` to `timers` and on only when no handle of that phase waits in it. For the second, the
outermost frame is a lambda's, and it returns only from a drain that found nothing
active. An exception that nobody catches ends the program, and so leaves nothing to prove. The third
looks at each step: what changes a request or a queued timer is the pass whose frame is
innermost, or a native; and `CallsInv` says that only frames in a pass and natives that have been applied have
calls left to make: a frame in any other phase may return without a look at them.

`Heap_proofs` proves, for halves, headers and objects of every size, and any number of
objects and collections,

    THEOREM Types    == Spec => []TypeOK
    THEOREM Tiling   == Spec => []Tiled
    THEOREM Rooted   == Spec => []RootsIntact
    THEOREM Roomy    == Spec => []RoomToCopy
    THEOREM Once     == Spec => []CopiedOnce
    THEOREM Complete == Spec => []NothingLost
    THEOREM First    == Spec => []FirstClean

from one inductive invariant (`Invariance`). Its parts:

- `Whole`, `Apart`, `Chains`: objects lie inside their half and do not overlap, and those of
  the half in use follow one another up to its end. A write keeps that, as what it overlaps
  is gone.
- `OldHalf`: what a collection copies from lies below the address where allocation stopped.
- `RootIds`, `RootPlaces`: where each root is in each phase of a collection: in the old half,
  there with a forwarding address to its copy, or moved.
- `Room`: the words in use of the new half are as many as those the copied originals cover.
  The originals lie apart in a half of the same size, so that there is room for the next one.
  This is a fact about cardinalities; it is what makes `RoomToCopy` more than arithmetic.
- `Clean`: in a clean collection, pointers of the old half stay in it, no id is there twice,
  a forwarding address leads to the copy and each copy has its original, and what the
  scan has passed refers to copied objects only.

`First` says that the hypothesis `clean` is met: until the first collection has ended nothing
damages the half in use.

`Modules_proofs` proves, for every set of sources, libraries of natives and forms of a
script,

    THEOREM Types      == Spec => []TypeOK
    THEOREM Natives    == Spec => []NativesUnique
    THEOREM Resolution == Spec => []ImportsResolve
    THEOREM Readiness  == Spec => []ImportsReady
    THEOREM Globals    == Spec => GlobalsKept

from one inductive invariant (`Invariance`). `NativesUnique` is inductive with the types. The
others need:

- `Place`: while a module is loaded it is the last of the registry, and not imported; where the
  loops inside of a form are.
- `GoodScopes`: a native in any scope, those of namespaces included, is the native of the name
  it has there, and the runtime's scope has the name of each native. An import copies no
  native, so this is why a script finds it: whatever the runtime's scope has under the name is either
  the same native or no native.
- `Progress`: all modules but the one that is loaded are ready, and of that one, each
  expression of the init function is done or left to do. While a library is linked, each of
  its natives is linked or in the queue.
- `ScriptScope`: the script has no natives and no name twice, and has the locals of all it imported
  but those in the queue of the import under way.

That a script may import a module twice, under names with and without an extension, does not disturb
the argument: what is found is a module of the registry, and ready. `Globals` follows from
the types: every local has a value, so that `Add` either refuses or appends. The assumptions are
those of `Modules` about the shapes of sources. Words are a parameter, not `STRING`, since the provers know no
elements of that set.

`Machine_proofs` proves, for every set of programs and whatever `Parsed`, `Compiled`, `Same` and the other
phases compute,

    THEOREM Types   == Spec /\ CodeSound => []TypeOK
    THEOREM Passage == Spec /\ CodeSound => ArgumentsPassed

`CodeSound`, which `codegen` checks of the real compiler, is the interface between the compiler and the
interpreter: a unit that is entered for the first time has code that can be read to its end. The proofs
use it one step at a time, as an assumption about what a compilation returns. The interpreter's part is what is
proved: no jump, call, return or failed step makes it leave the operations of that code, run a unit that has no
code, or lose the pairing of frames and scopes.

The inductive invariant is `TypeOK /\ (~Ended => Deep)`; once the script has ended, only `TypeOK` is left, since a
script that could not be parsed has no lambdas and no scope to speak of. `Deep` says that each frame stands
where the disassembler would stop (`Operations`), so that the operands behind it are the ones of its operation (`Takes`); that
all compiled code is sound; and that there is a set `S`, closed under the parts of pairs, which has all values
on operand stacks and in scopes, and whose lambdas and natives exist (`Holds`). `S` grows as operators make
values; that it is a set, instead of a type of values defined by recursion, is what keeps induction over
data out of the proof. The one function on numbers among the operators, the list a native `list` makes
(`ToList`), is shown to exist by a least counterexample.

`Passage` adds the arithmetic of a call: how many operands `CallWithNArgs` pops, that the ones it reverses come out
in the order of the source, where null fills up (`PassingLemma`), that `Call` numbers them from 1
(`LocalsLemma`), and that a step at a call operation which adds a frame is that call (`InterpretLemma`). It speaks of lambdas without a vararg,
which takes all operands there are left.

Assumptions: `ParserAssumption` (a script that was parsed has its lambdas and its scope, with parameters and
values as they should be) and `NameAssumption` (the names of the natives and their parameters are
names). TLC evaluates both for the scripts of `codegen`, `block_labels` and `apply_print`.

Model-checked only: the liveness property `Terminates`, which is out of the prover's reach; `CodeSound` itself, and
`Agrees`. The last two are about what the recursive phases compute for a source, which takes induction
over expressions.

## Not modelled

- Tokens and syntax: the lexer and the parser's reading of forms are data a model would repeat.
- Fields, maps, sets, `let:rx`, strings, doubles, arrays and buffers: they add operations of the
  same shape as those modelled, or data no property tells apart.
- The symbol pool: a symbol is its name, which is what `Symbol::Equals` compares.
- Natives other than those of the event loop, of rx, `print` and `list`, and how `NativeArgument`
  converts its arguments.
- The old zone and major collections, which end the program (`NOT_IMPLEMENTED`); marker, sweeper,
  compactor and semispace, `ModuleLoader`, and the iterators and unions of scopes, which nothing
  calls.
- A `def` in a module whose value is not a constant; `Runtime::Import` of a symbol.
- Where the code buffer ends. `Emit` checks it in the debug build only; what lies behind it is
  outside of any model here.
- Subscription and disposal, which are in rpp; libuv, of which only what gel relies on is modelled.
- Printing, dot files, the repl, flags, threads, memory regions: no state the program reads back.

Procedures with variable arguments, and macros with parameters inside other macros, are in
the model, but no run has a script with them; the second is a hazard.

## Plan

1. `Runtime` and `Assembler` with their abstract specifications: done.
2. Code generation against the meaning of the source, macros, classes, exceptions and optional
   arguments: done.
3. `Heap` and `Modules`: done.
4. Proofs of `Runtime`, its refinement of `CallStack`, its queues, of `Assembler`, `Heap` and
   `Modules`: done.
5. Delivery of callbacks, and the interpreter above any compiler that makes sound code (`Machine_proofs`):
   done.
6. Open: `CodeSound` for every source, which needs induction over expressions; scripts with variable
   arguments and with nested macros that have parameters; the hazards without a property.
