# DAPARS in TLA+

DAPARS is a compiler for a small object oriented language (`DACOMPILER`, with
its recursive descent parser in `RecDescent`), the virtual machine its output
runs on (`DAVM`), and a set of parsing tools (`Common`, `GrammarAnalysis`,
`LR1`, `LALR`).  This directory holds TLA+ models of the parts in which the
program's own logic is, TLC configurations that check them on small instances,
and proofs, checked with TLAPS, of what holds for every instance.

Everything is sequential: there are no threads, no messages and no persistent
state to recover.  What makes the code hard is elsewhere: mutable tables that
several passes share and that must mirror each other (scopes and symbols,
register and address descriptors, nodes and waiting jumps), addresses that mean
something in one numbering only, early returns after errors, and a machine that
executes whatever code and stack contents it is given.

## The system

| Part | State | Operations | Used by | Correct when |
|---|---|---|---|---|
| DAVM execution (`DAVM/src/lib/VM/Execution`) | instruction pointer, registers, error log | one per instruction; the loop `ExecProcess`; `CompilerTest` | run on the byte code | exceptions stop it, the stack stays within its segment, a clean report means a passed test |
| DAVM memory (`Memory`, `MMU`, `Process`) | pages, page tables | allocate the pages of a chunk; load, store | built from the byte code's chunks, used by every access | exactly the asked for pages are mapped |
| DAVM byte code (`ByteCode/`) | - | encode, decode, patch a target; list, read, write | back end, VM | the machine executes what the back end emitted |
| Lexical scopes, symbol table (`LexicalScope`, `ScopeManager`, `CompilationUnit`) | one symbol table for all scopes, the undo list of each scope, the current scope, symbol and scope ids | register a declaration, look up, open a nested scope, restore the parent | parser (declares), later passes (look up) | a name means its nearest definition, and leaving a scope forgets it |
| Class scopes, class manager | members per class and parent, object records, adjustments of `this` | insert, look up through the parent, lay out an object | parser, member passes, IR generation | a function finds the variables of its class in every object that has them |
| Functions, labels, types of a unit | tables of functions, labels, types; the addresses of a function's symbols | register, look up, intern, store an address | every pass | one entry per thing; variables do not collide |
| Syntax tree, passes, visitors | the tree, attribute tables | ordered by `PassManager` | parser, IR generation | each pass finds what it needs |
| IR generation (`IRGenerator`, `IRStream`, `IRUnit`) | a stream per function, jumps that wait per node, marks of basic blocks | visit each kind of node, back patch | back end reads its streams and marks | every jump gets the address of its node |
| Register allocator (`RegisterAllocator`) | register descriptors, address descriptors, usage count, reserved registers | get a register for a read, a result, a store; flush | called back end instruction by instruction; calls back to emit loads and stores | an operand is in the register it is said to be in |
| DAVM back end (`BackendDAVM`, `MemAllocator`) | byte code, translation of jump and call targets | one per IR instruction; prologue, epilogue; patch targets | drives the allocator | code does what the IR says |
| Recursive descent parser (`RecDescent`) | current token, scope handed down | one function per nonterminal | calls the scopes and the tables | accepts the grammar, leaves the scopes as it found them |
| Tokenizer, base parser (`Common`) | input, token | next, accept, skip until | the parsers | halts on every input |
| Grammar analysis, LR(1), LALR and their parsers | First, Follow, item sets, tables; a stack | fixpoints; shift, reduce, goto | tools and tests | tables accept the grammar's language |
| Language library (`LangLib`) | names, types, the test's variable | register, append the declaration of the test's variable to main | compiler driver | the test's verdict has a place |
| Diagnostics, dumps, discarded flex/bison front end | - | text output | - | - |

`PROJECT.json` lists the same components with what is modelled of each, the
source lines behind every definition (`map`), and the hazards, at their lines.

## Modules

| Module | What it models |
|---|---|
| `DavmVM` | `VirtualMachine`: boot, fetch, every instruction, exceptions, the compiler's test |
| `StackMachine` | abstract: a register machine with a bounded last-in-first-out stack |
| `ProcessMemory` | `Process`: the construction of the page tables from memory chunks |
| `LexicalScopes` | `LexicalScope`, `ScopeManager` and the parser's activations that own scopes |
| `ScopeChain` | abstract: scoping by a chain of definition maps |
| `RegisterAllocator` | every operation of the allocator, driven by the back end's handlers over one function |
| `StructuredProgram` | abstract: what the control flow of a source program means, without jumps |
| `IRGeneration` | `IRGenerator`: the walk over the tree, successors, back patching |
| `CodeGen` | the whole way: `IRGeneration`, `IRUnit`, `BackendDAVM`, then the machine on the byte code beside the source program |
| `Grammars` | the grammars the tools are run on |
| `Derivations` | abstract: what a grammar derives, First, Follow, the words of its language |
| `GrammarSets` | `Grammar`: First, Follow, First+, the violations that are printed |
| `LRTables` | `GrammarLR1`, `GrammarLALR`: collections of item sets, merging, tables |
| `LRParser` | `ParserLR1` on these tables |
| `Tokenizer`, `BaseParser` | the tokens of a text; accepting, skipping, counting errors |
| `RecDescParser` | the compiler's parser: one function per nonterminal |
| `ParserSentences` | beside it, a recogniser of the language of a grammar |
| `Encoding` | instruction words: `IRDefinition`, `IRCodification`, the patching of `IRBuilder` |
| `ObjectRecords` | `HierarchicalScope` and `Class::BuildObjectRecord`: which member a name is, variables and inherited functions in an object |
| `FrameLayout` | `LocalVarOffsets`: the addresses of variables and parameters |
| `CallCode` | the code of a function with calls: `IRGenerator`, `BackendDAVM`, the registers they end up in |
| `Activations` | the composition: layout, emission, words, patching, and `DavmVM` on the words beside the source's activations |
| `MC*`, `SmallPrograms` | instances for TLC |
| `*Proofs` | theorems |

### DavmVM and StackMachine

A state is a machine between two instructions; `Next` has one action per
group of the `switch` in `ExecProcess`, and one disjunct per instruction.  Words
are bounded by `AddrSpace` and wrap around like the machine's 32 bits (`ToWord`,
`Addr`); memory is the mapped words, and every access goes through
`LogicalToPhysical`, page faults included.  The operations on bits are constant
operators, because only TLC has the module that evaluates them.  `ArithI` is
modelled as the code has it: its body is empty.

For programs that leave the stack register and the stack's memory to push, pop,
call and return (`Disciplined`), the machine implements `StackMachine`: the
refinement mapping reads the stack off memory between the stack register's start
and its present value.  A stack that is exhausted or empty fails the machine.

### ProcessMemory

The constructor's loop, one step per page of a chunk, with addresses that wrap
around: a chunk that reaches the last page would otherwise be walked for ever.

### LexicalScopes and ScopeChain

The actions are the places of the parser where scopes or symbols change, in the
code's order (a function is registered after its parameters).  `frames` is the
parser's recursion, `alive` what the scope manager believes to be open: they
differ where the parser returns early without restoring a scope.  The symbol
table is one map for all scopes; each scope has the list of what its
declarations hid.

`ScopeChain` has no shared table: a chain of maps, and a name means what the
nearest says.  For programs that give no parameter the name of its function and
have no error that makes the parser return early, the code implements it.

### RegisterAllocator

The tables are a record `ra` with the code's tables; beside them the model runs
the code that is emitted, so `held` is what the machine registers really
contain, as the number of the virtual register whose value it is.  Properties
compare what the allocator believes with what the machine would read.  The
function is the choice among the actions: an expression is a stack of virtual
registers that are written once and read once, as the tree walk produces them.
The constants say what functions may do: `Forcing` (need more registers than
there are), `Calls` (nowhere, between expressions, inside one), `ArgReads` (how
the argument in register 0 is named).  The arguments of a call are evaluated before
the first of them is set, as the code does it for functions outside classes.  Left
out here are the instructions that calls of members have between two `SetArg`s: one on an
object evaluates the object's address after the arguments were set
(`IRGenerator.cpp:300`, `356-369`; `Activations` has it), and one by its bare name
sets `this` before it evaluates the arguments (`287-298`).

### StructuredProgram, IRGeneration, CodeGen

A program is a sequence of function bodies, main first, each a sequence of
statements with blocks; a node is known by its place.  A block that is there has
at least one statement, so an empty `else` field is an `if` without an else.

`IRGeneration` keeps the recursion of the visits as an agenda, `todo`.  A visit
patches its node, appends instructions and makes jumps wait; the parts of a visit
that come after a nested one (the exits of an `if`, the jump back of a `while`)
are items of their own.  `back_patch` is the map from nodes to addresses.  An
expression is one instruction, because what it computes is not at stake here;
the code's jumps, calls and returns are kept one by one.  Three behaviours of the
code stand as they are: an `if` without an else dereferences a null node
(`aborted`); a return appends no jump; the body of a loop is visited with the
loop's own successor.

`CodeGen` continues with `IRUnit` (where basic blocks begin), the back end (one
step per stream: prologue, translation, epilogue; then the patching of jump and
call targets) and the machine.  Every machine instruction that the source can
tell takes the source's next step, otherwise the run is `lost`: this is the
refinement of `StructuredProgram`, stated as a joint run, so that the choice of
each condition is the same on both sides.  Prologue and epilogue have the length
they have for functions with an argument and no locals, and every call drops one
argument: the lengths matter, being what addresses are made of, the contents do
not.

### Grammars, Derivations, GrammarSets, LRTables, LRParser

`GrammarSets` goes through the loops of `Grammar` one rule at a time, in the order
of the rules; `LRTables` handles one set of items per step.  The collections of
the code are ordered sets, and their order decides which number a state gets and
which table entry is written last, so the order of items and sets is modelled
(`Before`, `Precedes`).  `LRParser` reads one input of a bounded length from each
grammar whose tables a program builds.

`Derivations` says the same things without loops: which words a grammar derives,
what begins and what follows a nonterminal in them, and whether one symbol of
lookahead decides between rules.

What the code does and the model keeps: a goto entry is written only when the set
it leads to is new, so in a grammar like `E -> E + T | T` the second way into a
set has no entry (none of the grammars that get tables has one); the LALR action
table looks the target of a shift up in the merged collection by the unmerged
set and finds state 0 (`test_grammar_lalr.ver` shows it); First+ looks at the first
symbol of a rule only, so of a rule that begins with a nullable nonterminal it lacks
what lies behind and has the empty word, by which two such rules seem to collide; the
LALR goto table is never filled; `ParserLALR` runs the LR(1) loop on LR(1) tables; an item whose
lookahead is the empty word ends the building of tables (`aborted`).

`ViolationsAreRight` is about the violations `ComputeBackTrackFree` prints as it finds
them (`LR1/src/tests/verification/g1.ver:1-8` has the two of `Pars`, and so
has the model).  It is not about the flag that sums them up.  `Grammar::IsBackTrackFree()`
(`Grammar.cpp:193-195`), which the header marks `//todo`, is the flag's only reader and
has no return statement, so its value is undefined, and `DumpProperties` prints
that: `RecDescent/src/tests/verification/test_grammar_dalang.ver:231` has "Is backtrack free:
0" for a grammar of which it lists no violation, and the model finds none either.
The model has neither the flag nor the accessor.

### Tokenizer, BaseParser, RecDescParser, ParserSentences

A text is a sequence of pieces: keywords, single letters and digits, signs.
`Tokenizer` tells which token a position begins, with the code's order of tests, by
which `order` begins with `or`, and a character of no token is an error the
position does not get past.

`RecDescParser` keeps the calls of the parser's functions as a stack of frames; a
frame is what a function has left to do, one item at a time: accept a token,
call, report, recover, build a node.  A node is null, whole, or has a null pointer
below it (`Holed`).  Whether a declaration, a name or a call is an error of meaning
depends on the symbol table, which is the subject of `LexicalScopes`; here it is a
choice, at every declaration, name and call, whatever errors came before: in
`class A{int x;int ;}` the second member has no name, the functions go on with the
one before (`MemberList` reads `prev_token_string_value_`), and the declaration
clashes.  `blamed` is what errors come from, and an error of meaning outweighs the
others.

The parser can die (`Die`).  The declaration of a member whose name an ancestor has
looks for the ancestor's symbol among the class's own, where there is none
(`DeclarationIsInherited`); a type that is the end of the file is taken for the name
before it, and the parent it is to be need not be a class (`FindParents`); and when
a class ends, all its members are looked up by their nodes, also those that are null
(`EndClass`): a variable's name is then asked of a null pointer, and a function is in
no table, unless one without a body was entered there under a null pointer before
(`IsFound`).  A class is therefore the one place where an error is followed by a
null pointer and the pointer by a crash; nothing else of the file is parsed.

`ParserSentences` runs beside it a recogniser that knows the grammar and nothing of
the functions.  It has two grammars: `Documented`, which is `grammar.txt`, and
`Followed`, which is what the functions take.  They differ: every block and every
program needs a statement or a function (`{}` is an error); `f(int x,)` and
`int a,;` are accepted; a comparison has a single term on its right (`a < b + 1` is
an error); there is no `void*`, and no negation although the set that starts a
statement has `not`.

What else the code does and the model keeps: tokens between a type and its first
name are skipped without an error (`NameList`); a parameter without a name is a
function left without a return (`NoReturn`, any outcome); after `o.f(g(x))` the
inner call has reset `defer_build_call_`; a class's name becomes a type when the
token after the class was already scanned, so `class A{} A f()` is an error; an
`if` with an else and the members of a class are built without looking for null
pointers, so an error of meaning can leave one in the tree, or kill the parser, which
`halting_strategy.txt` ("Any node creation that takes another node checks for a
nullptr") does not expect.  Of the errors of syntax two do so too, in the condition
of an `if` with an else.  After a dot without a name, `if(x.){...} else {...}`, the
expression is null and the next token is the `)` the `if` goes on with.  In
`if(1+(1<1+1){...} else {...}` the right side of a comparison is a single term, so
`RelExprPrime` ends in front of the second plus with an error and null; the missing
parenthesis is reported and nothing else; and `NumExprPrime`, which was waiting for
its operand since the first plus, takes the second one and what follows it, and
returns null in front of the `)` after all.  `NoHolesFromSyntax` is claimed for files
in which every dot has a name behind it (`DotsHaveNames`) and no comparison stands
between two pluses (`ComparesBetweenPluses`), wherever in the file they are, and in
which no error of meaning is reported, neither for its own sake nor as a consequence
of an error of syntax.  The trees of such a file have no null pointer, and the proof
has this for every one; of other files nothing is said.  `SurvivesSyntax` says what is
left of the crashes: without an error of meaning and without parents a class does
not kill the parser.

### Encoding, ObjectRecords, FrameLayout, CallCode, Activations

`Activations` is the compiler from typed source to running words: `LayOut` (the
scopes and records of the classes, the addresses of every function's variables), `EmitStream`
(one function: prologue, body, epilogue, packed into words), `BackpathCallTargets`
(jumps and calls patched in the words), then `Run`: a step of `DavmVM` on the
decoded words together with the step of the source it stands for, on a stack of
activations that keep values by name.  The registers an expression uses are
counted from one in every statement, as the allocator does for statements as
short as these; loads, stores, pushes, moves and calls are one by one what the
back end appends.

Functions are emitted in the generator's order (`Streams`: main, members, the
others, `__test`).  All share one table by plain name (`GetFunc`), whose last entry
counts: a member call finds its function by class and name, but the prologue and
epilogue around a body are those of the last function with the name (`Framed`), and
a call of a free function goes to that one too.  The properties are claimed where
this gives the function the frame it needs and the call its function (`Supported`).

What the code does and the model keeps: `ArithI` does nothing, so neither are
locals reserved nor pushed arguments dropped.  What a function other than main
pushes for a call lands on its locals; a function without a frame that pushes an
argument returns to it as to an address; in a function with a frame the epilogue
takes the stack pointer from the frame and repairs it.  The register of `this` is
never loaded from the argument, so members work for objects at address 0 without an
adjustment.  The argument passed in register 0 is lost with the next call.
`o.x = e` loads and does not store.  A function inherited twice through a parent
that is not the first gets a wrong adjustment, and a variable that comes through two
parents overwrites its place.  A parameter or variable of a member function with the
name of a member of its class is compiled as that member (`MemberVars`).  A class
that declares a name it inherits ends the compiler (`Declarable`): `IsDeclValid`
finds the name in the parent and dereferences the class's own entry, which is null.
`Supported`, `PushersKeepFrames` and `PlainHierarchy` name the programs for
which the code is right, and the properties are claimed for those; the runs
contain others too.

## Runs

| Run | Asks |
|---|---|
| `davm_all` | any short program from a pool that reaches every instruction and every exception, and arithmetic on pairs of words: words stay words, a clean report is a passed test, an instruction that raises an exception spares memory |
| `davm_stack` | disciplined programs: the machine is a stack machine, its pointer stays on the stack, runaway recursion ends |
| `process_memory` | every chunk and pair of chunks of three pages: exactly their pages are mapped, the walk ends |
| `scopes_any` | any program, with the parser's early returns: tables stay typed and undoing never erases an absent name |
| `scopes_clean` | programs without own-name parameters and early returns: implements `ScopeChain`, and nothing is left behind |
| `registers_fit` | functions that fit the registers: operands, variables, counts, register 0, faults, flushes |
| `codegen` | every small program: back patching, and the run of the byte code of the supported ones |
| `codegen_jumps` (violation) | a loop outside main jumps into another function |
| `grammar` | the six grammars of the tools, and every input of up to six tokens for those that get tables: the sets, the violations, the language, the merged states, the end of the parser |
| `parser` | four programs and every one-piece edit of them, an `if` with an else on any short condition, and classes whose members clash, have no name or no body: errors are justified, what is accepted is a program and has a whole tree, errors of syntax leave no null pointer and do not kill the parser, it halts |
| `parser_halts` (violation) | a block of eleven `not`: the parser does not halt |
| `calls` | 187 programs with calls, branches, objects, from source to words: variables, returns, words, members |

### Bounds

* VM: pages of two to four words, three or four pages, three registers, programs
  of up to three or four instructions.  That is enough for a page fault, for the
  stack to fill and empty, for nested and recursive calls, and for an exception
  at each point.  Programs are sequences of a pool because the property is about
  every program; the pool has each instruction with the operands that make its
  cases differ.
* Scopes: two names, five symbols, four scopes: a name hidden twice, a scope
  inside a scope inside a function, two functions and a class.
* Registers: six machine registers (four to hand out, next to the two reserved
  ones), two variables, six virtual registers, expressions three deep: every
  descriptor can be shared between a variable and an operand, and evicted.
* Code generation: main of one or two statements from a set that nests ifs and
  whiles in each other in first, last and only position, with and without
  declarations (nodes that are patched and append nothing) around them; a
  function that main calls, also from a loop; two calls under way.
* Grammars: the grammars are the real ones, and the analysis is of each as a whole.
  `MaxLen` = 6 bounds the inputs of the parser: nesting three deep, every prefix of
  an error.  Sentences are enumerated up to twice that length, so that a word is
  seen to begin one.
* Parser: texts are four programs that between them reach every function of the
  parser, and each with one piece missing, turned into `;`, or with a name, a character of
  no token, a keyword that joins with its neighbour, or `not` inserted, at each
  place.  One edit makes cascades of errors, up to the ten after which parsing
  stops.  The conditions of an `if` with an else are all of up to two pieces, behind
  a statement with and without an error of its own; and one that compares with a sum
  within a sum, the shortest that is null in front of its parenthesis without a dot.  Eleven files have a
  class with and without a parent whose members are declared twice, without a name
  or without a body, or whose parent is the end of the file: between them the parser
  dies in each of the ways it can.  `Deepest` = 25 rules for one token is more than any of them needs (the
  recogniser would otherwise get stuck on a program, which `AcceptsOnlyPrograms`
  would show).
* Calls: three activations deep (`MaxDepth` = 4), registers, field widths and the
  machine's word as in the code, addresses of 16 bits; a literal of the greatest
  magnitude; classes with none, one and two parents and with a parent's parent, laid
  out right and wrong, with a variable that two parents have, by name or the very
  one; parameters of member functions with a name of no class, of a later class and
  of their own; objects before and after other variables; functions of one name in
  two classes, and in a class and outside, with and without frames.

`CHECK_DEADLOCK FALSE` is everywhere because a program ends, a compilation ends,
or a bound of the enumeration is reached.

### Fairness

`FairSpec`, `FairDisciplinedSpec` and `CodeSpec` have weak fairness of the whole
next-state relation: each models one sequential program that does take its next
step.  No branch gets fairness of its own; which way a condition goes is free,
so a loop may run for ever, and `KeepsGoing` says only that it then tests its
condition again and again.  `LRParser` and `RecDescParser` have weak fairness of
the parser's loop for the same reason: one thread that waits for nothing.

### What the model shows with other constants

These are behaviours of the code a reader may want to see; change a constant or
drop a restriction and run TLC.  Where the repository says otherwise of itself, the
place is named.

* `MCLexicalScopes` with `OwnNameParams = TRUE`, `LeakyErrors = FALSE` and three
  symbols and scopes violates `NearestDefinition`: `ParseFuncDef` registers the
  function in the enclosing scope after its parameters, so in `int f(int f){ return
  f; }` the body's `f` is the function.  `DACOMPILER/doc/SymbolTable.txt:2-3`:
  "within current scope lookup by name gives the nearest scope definition of the
  symbol".
* The same with `LeakyErrors = TRUE` violates `NothingLeftBehind`: a function that
  is defined twice returns early without restoring its scope.
  `DACOMPILER/doc/SymbolTable.txt:4-5`: "When parsing ends, the only scope alive is
  the global scope".
* `MCRegisterAllocator` with `Forcing = TRUE`, `Calls = "none"`, `ArgReads =
  "never"`, one variable, `MaxMachineReg = 5`, `FixedUsage = 1`, `MaxVRegs = 8`
  violates `ReadsFindTheirValues`: forcing a register free takes one off the count
  by which free registers are handed out, so a register in use is handed out next
  (`UsageCountsHeldRegisters` fails, too).
* With `Forcing = FALSE`, `Calls = "operand"`, `MaxVRegs = 5`: an operand computed
  before a call, the `a` of `a + f(b)`, is read from a register the callee wrote.
  `DACOMPILER/doc/IR.txt:1-2` has "register-register model. SSA registers".
* `MCActivations` with `Programs <- MCStackArgs` violates
  `ParametersHoldTheirArguments`: the second parameter is not read from where its
  argument was pushed; `lang_args_offsets.lang:9` tests that it is.
* `MCLRParser` with `ShiftsGoToTheMergedState`: the shifts of the LALR action table
  go to state 0, unlike those of the algorithm `GrammarLALR.cpp:50` refers to.
* `MCParserSentences` without `DotsHaveNames` violates `NoHolesFromSyntax` on
  `if(x.)` with an else, and without `ComparesBetweenPluses` on `if(1+(1<1+1)` with
  one.  `SurvivesSyntax` for classes with parents fails on `class B:A` at the end of a
  file, and with errors of meaning on `class A{int x;int ;}`.  `RecDescent/doc/halting_strategy.txt:12-16` says that no node is made of a null one.
* `RegisterAllocator` with `ArgReads = "anywhere"`: a register argument that is
  named after register 0 was overwritten, by a call or by the setting of its
  argument, reads the wrong value (`ReadsFindTheirValues`).  With
  `ArgReads = "early"` a later flush writes the variable the argument was
  assigned to.
* `FollowsSource` without `Supported`: an `if` without an else, an `if` or a
  `while` that ends a loop's body, a return before the end and a branch outside
  main each give a counterexample.
* `VariablesHoldTheirValues` without `Supported`, `ReturnsRestoreTheCaller` without
  `PushersKeepFrames` and `FunctionsFindTheirMembers` without `PlainHierarchy` each
  fail on programs of the run.

## Proofs

| Module | Theorem | For every |
|---|---|---|
| `DavmVMProofs` | `TypeCorrect` | machine size, program |
| | `StackStaysBounded`: `[]StackBounded` | disciplined program |
| | `ImplementsStackMachine`: the refinement | disciplined program |
| | `CleanRunsPassed`: `[]CleanRunPassedItsTest` | machine size, program |
| | `MemoryIsSpared`: `ExceptionsSpareMemory` | machine size, program |
| `LexicalScopesProofs` | `TypeCorrect` | program, bound |
| | `UndoIsDefined`: `[]UndoFindsItsNames` | program, leaked scopes included |
| | `ImplementsScopeChain`: `IsScopeChain`, the refinement | program without own-name parameters and early returns |
| | `LeavesNothing`: `[]NothingLeftBehind` | the same |
| `RegisterAllocatorProofs` | `TypeCorrect` | function |
| | `OperandsAreFound`: `[]ReadsFindTheirValues`, `VariablesAreKept` | function that fits the registers, whose arguments and operands outlive its calls |
| | `NothingFaults` | function that fits, whose argument in register 0 outlives its calls |
| | `RegistersAreCounted`, `R0IsReserved`, `FlushIsComplete` | function that fits the registers |
| `DavmPartsProofs` | `ChunksAreMapped`: `[]ExactlyTheChunksAreMapped` | page size, address space, list of chunks |
| | `WordsKeepInstructions`, `InstructionsFitWords` | instruction the compiler emits, whatever its fields |
| | `PatchesChangeTargets` | packed jump or call, new target |
| `CodeGenProofs` | `TypeCorrect` | program |
| | `PatchesAreSafe`: `[]PatchesFindTheirJumps` | program |
| | `PatchesAreComplete`: `[]NoJumpIsForgotten` | program |
| | `CompilerPatches`: both, in the whole compiler | program, bound on calls |
| | `JumpsEnterMarkedBlocks`: `JumpsEnterBlocks` | the same |
| | `JumpsHaveTargets`, `TableFindsInstructions` | the same |
| `GrammarProofs` | `AnalysisInvariant` | grammar |
| | `SetsAreDerived`: `[]SetsAreWhatIsDerived` | grammar |
| | `ViolationsAreTrue`: `[]ViolationsAreRight` | grammar |
| `LRParserProofs` | `TablesDescribeTheCollection` | grammar, order of symbols |
| | `ActionsAreFound`, `ReductionsFindTheirHandle` | grammar, order, input |
| | `AcceptsOnlySentences` | grammar with a start and an end of its own and every goto written, order, input |
| `ParserSentencesProofs` | `SyntaxLeavesNoHoles`: `[]NoHolesFromSyntax` | file, number of errors that are forgiven |
| | `CleanParsesAreWhole`: the tree in `AcceptsOnlyPrograms` | the same |

The assumptions are those the modules declare about their constants, which TLC
evaluates in every run, and the hypotheses a theorem states, which say which
programs or functions the code is right for: "without own-name parameters and early
returns" is `CleanPrograms`, "that fits the registers" is `~Forcing`, and what is
said of arguments and operands is `ArgumentOutlivesCalls` (an argument that is
passed in register 0 is not named once a call was made) and `OperandsOutliveCalls`
(besides, it is named only while register 0 still contains it, and no call stands
inside an expression).  Each is needed: the section above has a counterexample
without it.  Of a grammar `GrammarsAssumption` asks that its symbols are finitely
many, that rules derive non-empty sequences with the empty word alone or not at all,
and that heads are no terminals; `RulesAssumption`, that no rule is there twice; `OrderAssumption`, that the order of
names ranks every symbol and the mark of the dot, which is no symbol.  Of a text
`PiecesAssumption` asks that a piece is of one sort, a letter, a digit, a keyword, a
blank or a sign, as characters are; `TextsAssumption`, that it is a sequence.

**Stack machine.**  `StackBounded` is not inductive alone: that a store leaves
the stack alone needs that mapped addresses stay apart, and the refinement needs
that the words between the pointer and the start are those the stack machine
holds.  The lemmas about `StackContents` (append, drop, unchanged) carry one step
each.

**Exceptions.**  The invariant adds to `TypeOK` that nothing is logged before the
boot, and that a machine past its loop without an exception stands at a STOP
(`CleanlyStopped`): the loop is left by a STOP, an invalid opcode or an exception,
and the last two are in the log.  A word of memory changes in a push, a call or a
store only; each of them raises an exception either before it writes or because
its address faults, and then it writes the first word of the default stack.

**Process memory.**  The invariant is `TypeOK` and `MappedSoFar`: while a chunk is
walked, its pages up to the address reached are mapped, besides those of the
chunks before it.  The step needs that an address a page further is on the next
page (`NextPage`), and the loop's early end that the rest of the chunk is on the
same page (`OneLastPage`), which holds because pages fill the address space.

**Scopes.**  The invariant adds that within one scope at most one declaration of
a name hid nothing, and that a name some live scope declared as new is in the
table: an undo then either finds it there or has just put it back.  Leaked scopes
keep it, as an undo always works on the scope that is current.

**Scope chain.**  `CleanInv` says that the one symbol table is, for every name,
what the nearest live scope defines (`TableIsNearest`); that what a live scope hid
is what the scopes around it mean by the name (`HiddenIsKept`), so that leaving a
scope uncovers it; that a definition is of one scope only; and that the parser's
scopes are the scope manager's (`ParserSeesThem`), which holds because nothing
returns early.  While parameters are parsed the function itself is still to be
registered, in the scope around them, under a name its parameters do not have
(`InParameters`).  Each step then is a step of the chain or leaves it alone.

**Registers.**  As long as no register has to be forced free, registers are handed
out in increasing order.  So a virtual register still to be read is alone in its
machine register, or is the argument in register 0; a read changes neither table but
for register 0; and the count is the number of the first free register.  Three
invariants are built on each other, each with the hypotheses it needs and no more:
`TableInv` for what the tables say, `FaultInv` for the descriptors a flush looks up,
`ValueInv` for what the registers and the variables contain.

**Back patching.**  The invariant `IInv` ties the waiting jumps to the agenda:
every node a jump waits for, and every successor that an item of the agenda may
make one wait for, is patched by a later item (`WaitersAreCovered`, `Ahead`).
When the agenda is empty no jump can wait for a node; hence none is patched in
another function's stream, where its address would mean something else.  For
main `MainIsClosed` adds that the only items followed by null are the declaration
the library appends and what contains it, which make no jump wait.  Each action
is shown to be one `AgendaStep`: it puts items in front that are followed by each
other or by its own successor.  The invariant also has where a jump may lead: to an
address of its stream, or, while the stream is being written, to the address that
comes next (`TargetsWithin`).  The latter is filled before the stream is complete,
as the agenda ends in the item that appends the return (`EndIsLast`).

**Byte code.**  `CodeInv` adds the tables of the back end.  An instruction's address
is the length of what was placed before it, so the lemmas are about flattening: how
long the flattening of a prefix is (`FlattenedGrows`), where a member lies in it
(`MembersAreInside`), and that there is nothing else (`NothingElseInside`).  Then
each stream that is placed leaves the earlier entries of the table and the code they
point at alone, and appends an entry per instruction that points at its translation
(`NewAddresses`).  The return that ends a function has an empty translation, so its
entry is the address of the epilogue; that of main is a stop (`MainEndsIt`); so every
entry is an address of the code.  A jump's target, before `BackpathCallTargets`, is one of
the targets of the streams, which `IRUnit` marked, and its number is one of the
table's (`TargetsInRange`); the address it is patched to is that of a marked
instruction.  This is so whether or not the number was meant for another function,
which is what `JumpsStayInTheirFunction` is about.

**Grammar analysis.**  First, Follow and the nullable nonterminals are defined
without loops, as what a number of rounds of a monotone operator reaches.  That the
rounds suffice is a matter of counting (`Saturates`): a round that adds nothing is
the last one, and a round that adds something adds to a set of at most so many
elements; the induction over the rounds takes the smallest number that fails
(`AllNumbers`).  What is reached is then the least closed family (`FirstLeast`,
`FollowLeast`), so a loop of the code is never above it, and at its end, when a
whole round over the rules changed nothing, its sets are closed and not below.
`AnalysisInv` says how far each loop has come: the sets lie below the derived ones, and
while nothing has changed in this round the rules passed already are closed.
The trailer of the Follow loop is First of what comes after the place it is at
(`TrailerIsWhatComesAfter`), and two rules of a head have First+ sets that meet where
the lookahead sets of the definition do, but for what a nullable nonterminal in
front of one of them hides (`PlusDecides`).

**Table-driven parser.**  The order of items and of sets is shown to be total
(`LessIsTotal`, `KeysDiffer`, `SetKeyFacts`), so the loop finds a next set and numbers
new ones apart; a closure is no larger than what its symbols can open, so the rounds
that are counted suffice (`ClosureFacts`).  Then a state names one set (`NumbersInv`),
an entry of the goto table the successor of one (`SuccessorsInv`), and a row the actions
of one (`RowsInv`).  `StackInv` says that at every place of the stack stands the set its
state names, above the symbols before the dots of its items (`StandsIn`).  A goto that
was never written is zero; the set of that number has only items that have just begun,
of which nothing needs to be true, so `StackInv` holds even then, and a reduction finds
its symbols.  What is lost is where an item began (`RootedIn`), without which an
accepted stack need not be what the first rule derives; so `AcceptsOnlySentences`
asks that no rule derives the starting symbol or the end of the input and that every
goto has its entry, which `AcceptsTheLanguage` checks of both grammars the tools build
tables for.  `ReadInv` then has the word read in every set of words closed under the
rules that has what is on the stack; "derived" means being in all of those.

**Recursive descent.**  No function looks at the stack below it, so the proof is about
what a function promises when it returns, and the invariant (`Inv`) about what is left of
each one that is under way.  A frame has a kind, and a kind a promise (`Promise`): an expression
returns null only in front of a token that no expression goes on with or ends before
(`Refused`), or when the parser is to stop, or else a whole node in front of none of
its own operators; a missing else, null; the others, null or a whole node.  A class
with a null member gets past its end only after a fatal error (`EndClass`), which drops the
whole tree; a parser that died hands on nothing (`DeadIsOver`).  `Steady`, `Awaits` and
`Ready` say of a frame at which item of its body it is, what it has collected there and
of which kind the call is that it waits for; `Running` puts them together for
the stack.  A step is then an item: each kind of body has a lemma that goes through its
items, and each item one that says what it does to the token and to what was
made.  A plus is the one token that a null expression may stand before and a
waiting one take, so kinds of expressions also say whether a plus was read
before (`Added`), and whether a comparison after it (`Compared`).  This is why the
scanner is part of the invariant (`Scanned_`): a token that is a plus, a dot or a comparison
is the piece of text before the position, which each step moves on and none
back.  `Claimed` restricts all of it to files and errors for which something is
claimed; once another error is blamed it stays blamed.  As the bound on errors is
arbitrary, the parser may stop at any of them, which most promises have to allow for.

**Instruction words.**  A word of each class is a sum of fields, each times a power
of two (`Places`), of which a field from bit `n` up is a quotient and a remainder
(`Fields0` to `Fields3`).  The class is in the low bits of every opcode and the
opcodes are all different (`OpCodes`), so that the machine finds the name the
compiler meant (`Names`).  A literal is one of magnitude up to `MaxLiteral`: the code
keeps no more bits of a larger one.  `Activations.WordsKeepTheirInstructions` says
the same of the words of whole programs, after all patches; it is checked, not
proved, as emission is recursive.

Only model-checked: liveness (`ConstructionEnds`, `RunawayRecursionStops`,
`KeepsGoing`, `ParserEnds`, `HaltsWithoutNegation`) and everything about
enabledness, which the prover does not reach; `FollowsSource`, which compares the code
of a program with its meaning and needs induction over nested statements; the
properties of `Activations`, whose records, code and words are laid out with
recursive operators; that the LR parser accepts every sentence, reads nothing
but prefixes of them and merges without new conflicts, which hold of the grammars the
tools are run on and not of every grammar (an action that is overwritten, a goto that
is not written), the first two of them up to the length of the words enumerated;
and of the parser what compares it with its grammar, `ErrorsAreJustified` and the part of
`AcceptsOnlyPrograms` that is about the recogniser: that the functions follow the
grammar is a statement about this one grammar of seventy rules, with fixpoints that
TLC computes and the prover would have to unfold.

## Plan

Modelled and checked as above.  What would come next:

1. Proofs: that the translation of one statement without blocks, in any place of
   the code, does what the statement means, as a first part of `FollowsSource`.
2. Larger compositions: `while` in `Activations`, member functions that call each
   other.
3. The types of members, and the visitors that infer and check types.

## Not modelled

* Listing, dumping and pretty printing are output no decision depends on; reading
  and writing byte code files is plain I/O.
* The syntax tree is data with constructors: which node is made of which children
  is in `RecDescParser`, and trees are the input of the other models.
* The pass manager runs one fixed list of passes; the visitors that annotate or
  check a tree (`TypeInference`, `TypeCheck`, `LvalRval`, `ResolveMemberTypes`, `DeferredNodesCreation`) are functions of one tree each.
* Interning of types and labels: tables that only grow.
* References and dereferences in the generated code, and calls through a computed
  register, which have no body in the back end.
* The flex and bison front end is no longer built.
