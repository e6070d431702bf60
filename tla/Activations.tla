------------------------------ MODULE Activations ------------------------------
(***************************************************************************)
(* Calls, from the source program to the machine: BackendDAVM emits the     *)
(* code of every function (CallCode) as instruction words (Encoding), puts  *)
(* the targets in, and DavmVM runs the words, next to the source program's  *)
(* activations: which functions are under way and the value of each of      *)
(* their variables.                                                         *)
(***************************************************************************)
EXTENDS CallCode, Encoding

CONSTANTS
  Programs,               \* the source programs
  PageSize, AddrSpace,    \* the machine, as in DavmVM
  MemStack, MemUser,
  BitOr(_, _), BitAnd(_, _),
  MaxDepth                \* bound: activations under way

VARIABLES
  program,
  stage,              \* "layout", "emit", "run"
  records,            \* the layout of the objects of every class
  addresses,          \* of every function, where what it names is
  emitted, words,     \* the code: as instructions, and as words
  means,              \* what each instruction is for
  call_ids,           \* call_backpatch_ids_: the functions called, by number
  call_translation,   \* the address of each function
  jump_translation,   \* the address of each instruction of the intermediate code
  bodies,             \* of each stream, its function and where its body is
  code, phase, ip, regs, mem, errors,    \* the machine, as in DavmVM
  frames,             \* the activations under way, main's first
  result              \* the value being returned

layout_vars == <<program, records, addresses>>
emit_vars == <<emitted, words, means, call_ids, call_translation, jump_translation, bodies>>
machine_vars == <<code, phase, ip, regs, mem, errors>>
source_vars == <<frames, result>>
vars == <<layout_vars, emit_vars, stage, machine_vars, source_vars>>

VM == INSTANCE DavmVM WITH Programs <- {}, CompilerTested <- TRUE

(* The words of the chunks, which are whole pages here. *)
MappedWords ==
  {a \in UNION {m.low .. m.high : m \in MemUser \cup {MemStack}} : a % VM!kWordSize = 0}

Frame(f, object, values) ==
  [ f |-> f, object |-> object, values |-> values,
    sp |-> regs[MRegStackPtr], arp |-> regs[MRegArpPtr], this |-> regs[MRegThisPtr],
    back |-> ip + 1 ]

Init ==
  /\ program \in Programs
  /\ stage = "layout"
  /\ records = <<>> /\ addresses = <<>>
  /\ emitted = <<>> /\ words = <<>> /\ means = <<>>
  /\ call_ids = <<>> /\ call_translation = <<>> /\ jump_translation = <<>>
  /\ bodies = <<>>
  /\ code = <<>> /\ phase = "boot" /\ ip = 0 /\ errors = <<>>
  /\ regs = [r \in 0..NumRegs - 1 |-> 0]
  /\ mem = [a \in MappedWords |-> 0]
  /\ frames = <<[f |-> 1, object |-> "", values |-> (<<"", TestResult>> :> 1),
                 sp |-> 0, arp |-> 0, this |-> 0, back |-> 0]>>
  /\ result = 0

-----------------------------------------------------------------------------
(* The back end. *)

Known(f) ==
  [p |-> program, addr |-> addresses[f], main |-> addresses[1], records |-> records]

(* The class table is complete, then LocalVarOffsets runs. *)
LayOut ==
  /\ stage = "layout"
  /\ Declarable(program.classes)
  /\ records' = Records(program.classes)
  /\ addresses' = [f \in DOMAIN program.functions |-> AddressTable(program, f, records')]
  /\ stage' = "emit"
  /\ UNCHANGED <<program, emit_vars, machine_vars, source_vars>>

Called(insts) ==
  LET calls == SelectSeq(insts, LAMBDA i : i.op = "CALL")
  IN  [n \in DOMAIN calls |-> calls[n].lit]

(* BackpatchId: a function gets the next number when it is first called. *)
WithIds(ids, callees) ==
  FoldLeft(LAMBDA known, f : IF f \in ToSet(known) THEN known ELSE Append(known, f),
           ids, callees)

IdOf(ids, f) == (CHOOSE n \in DOMAIN ids : ids[n] = f) - 1

(* main, the members of the classes, the other functions; __test is added   *)
(* when the others are parsed.                                              *)
Streams ==
  LET others == [n \in 1..Len(program.functions) - 2 |-> n + 2]
      AreMembers(f) == IsMember(Function(program, f))
  IN  <<1>> \o SelectSeq(others, AreMembers)
        \o SelectSeq(others, LAMBDA f : ~AreMembers(f)) \o <<2>>

(* The function a stream is given with its label: the one with its name. *)
Framed(f) == Function(program, GetFunc(program, Function(program, f).name))

(* A stream between its prologue and its epilogue. *)
Emission(f) ==
  LET function == Framed(f)
      Leave == Means("leave", "", NoExpr, NoCall)
      epilogue == IF f = 1 THEN <<>> ELSE FuncEpilogue(function)
  IN  [ prologue |-> Entry(IF f = 1 THEN InitTest ELSE FuncPrologue(function)),
        stream |-> StreamOf(Known(f), f),
        epilogue |->
          IF epilogue = <<>> THEN Entry(<<>>)
          ELSE [Entry(epilogue) EXCEPT !.means[Len(epilogue)] = Leave] ]

InstsOf(entries) == FlattenSeq([n \in DOMAIN entries |-> entries[n].insts])
MeansOf(entries) == FlattenSeq([n \in DOMAIN entries |-> entries[n].means])

WithId(inst, ids) == IF inst.op = "CALL" THEN [inst EXCEPT !.lit = IdOf(ids, @)] ELSE inst

(* Visit(IRStream). *)
EmitStream ==
  /\ stage = "emit"
  /\ Len(bodies) < Len(Streams)
  /\ \E f \in {Streams[Len(bodies) + 1]} :
     \E e \in {Emission(f)} :
     \E entries \in {<<e.prologue>> \o e.stream \o <<e.epilogue>>} :
     \E insts \in {InstsOf(entries)} :
     \E at \in {[n \in DOMAIN e.stream |->
                  Len(words) + Len(InstsOf(SubSeq(entries, 1, n)))]} :
       /\ emitted' = emitted \o insts
       /\ means' = means \o MeansOf(entries)
       /\ call_ids' = WithIds(call_ids, Called(insts))
       /\ words' = words \o [n \in DOMAIN insts |-> Encoded(WithId(insts[n], call_ids'))]
       /\ call_translation' = (f :> Len(words)) @@ call_translation
       /\ jump_translation' = jump_translation \o at
       /\ bodies' = Append(bodies,
            [f |-> f, first |-> at[1],
             after |-> Len(words) + Len(insts) - Len(e.epilogue.insts)])
  /\ UNCHANGED <<layout_vars, stage, machine_vars, source_vars>>

CallPatch(id) == call_translation[call_ids[id + 1]]
JumpPatch(addr) == jump_translation[addr + 1]

PatchedWord(word) ==
  IF IsJump(word) THEN PatchJump(word, JumpPatch(TargetOf(word)))
  ELSE IF IsCall(word) THEN PatchCall(word, CallPatch(TargetOf(word)))
  ELSE word

(* BackpathCallTargets; the machine is given what the words say. *)
BackpathCallTargets ==
  /\ stage = "emit"
  /\ Len(bodies) = Len(Streams)
  /\ words' = [n \in DOMAIN words |-> PatchedWord(words[n])]
  /\ code' = [n \in DOMAIN words |-> Decoded(words'[n])]
  /\ stage' = "run"
  /\ UNCHANGED <<layout_vars, emitted, means, call_ids, call_translation,
                 jump_translation, bodies, phase, ip, regs, mem, errors, source_vars>>

-----------------------------------------------------------------------------
(* The source program.  A name means the variable or parameter of the       *)
(* function, or else the member of its class; the variables of an object    *)
(* are named by the pair of the object and the member.                      *)

Top == frames[Len(frames)]
Current == Function(program, Top.f)

OwnNames(f) ==
  DOMAIN LocalVars(Function(program, f), f = 1).table \cup ToSet(Function(program, f).params)
IsOwn(var) == var \in OwnNames(Top.f)

Field(object, class, name) == <<object, VariableMeant(program.classes, class, name)>>
IsField(var) ==
  ~IsOwn(var) /\ IsMember(Current) /\ HasVariable(program.classes, Current.class, var)
Key(var) == IF IsField(var) THEN Field(Top.object, Current.class, var) ELSE <<"", var>>

ValueIn(values, key) == IF key \in DOMAIN values THEN values[key] ELSE 0
ValueOf(var) == ValueIn(IF IsOwn(var) THEN Top.values ELSE frames[1].values, Key(var))

SourceValue(e) ==
  CASE e.kind = "lit" -> e.lit
    [] e.kind = "var" -> ValueOf(e.var)
    [] e.kind = "and" -> BitAnd(ValueOf(TestResult), ValueOf(e.var))
    [] e.kind = "dot" -> ValueIn(frames[1].values, Field(e.object, program.class_of[e.object], e.var))
    [] e.kind = "result" -> result

Assigned(var, value) ==
  LET n == IF IsOwn(var) THEN Len(frames) ELSE 1
  IN  [frames EXCEPT ![n].values = (Key(var) :> value) @@ @]

Entered(call) ==
  LET params == Function(program, call.callee).params
      Position(v) == CHOOSE n \in DOMAIN params : params[n] = v
  IN  Append(frames, Frame(call.callee, call.object,
        [k \in {""} \X ToSet(params) |-> SourceValue(call.args[Position(k[2])])]))

Follow(m) ==
  \/ m.does = "nothing" /\ UNCHANGED source_vars
  \/ m.does = "set" /\ frames' = Assigned(m.to, SourceValue(m.e)) /\ UNCHANGED result
  \/ m.does = "result" /\ result' = SourceValue(m.e) /\ UNCHANGED frames
  \/ m.does = "call" /\ frames' = Entered(m.call) /\ UNCHANGED result
  \/ m.does = "leave" /\ Len(frames) > 1 /\ frames' = Front(frames) /\ UNCHANGED result

-----------------------------------------------------------------------------
Run ==
  /\ stage = "run"
  /\ Len(frames) <= MaxDepth
  /\ VM!Next
  /\ IF VM!Executing THEN Follow(means[ip + 1]) ELSE UNCHANGED source_vars
  /\ UNCHANGED <<layout_vars, emit_vars, stage>>

Next ==
  \/ LayOut
  \/ EmitStream
  \/ BackpathCallTargets
  \/ Run

Spec == Init /\ [][Next]_vars

-----------------------------------------------------------------------------
(* Properties. *)

InBody ==
  /\ stage = "run"
  /\ \E b \in ToSet(bodies) : b.f = Top.f /\ b.first <= ip /\ ip < b.after

(* What the machine has for a variable of the function under way, or of an  *)
(* object or of main (for these it does not take a frame).                  *)
InFrame(addr) == VM!Load(VM!Addr(VM!ToWord(addr.offset + regs[MRegArpPtr])))

MachineValue(f, var) ==
  LET addr == addresses[f][var]
  IN  IF addr.label = "MainDS" THEN VM!Load(VM!Addr(addr.offset)) ELSE InFrame(addr)

MachineField(object, symbol) ==
  VM!Load(addresses[1][object].offset
            + records[program.class_of[object]].offset_of_var[symbol])

Calls(f) == {s.call : s \in {t \in ToSet(f.body) :
                               t.kind \in {"call", "assign_call", "return_call"}}}

(* The functions that get their calls right: at most one parameter, and it  *)
(* is read before any call; no variables around a call, because nothing     *)
(* keeps what is pushed off them; members only of objects at address 0,     *)
(* because nobody sets the register for "this", and with adjustments right; *)
(* no name of a member function's own that is also a member's, because the  *)
(* generator takes it for the member; and the function last defined with    *)
(* the name, which the code finds by it, sets up a frame if this one needs   *)
(* it, and is this one unless that is a member.                             *)
Supported(p) ==
  /\ \A f \in 2..Len(p.functions) :
       LET function == p.functions[f]
       IN  /\ Len(function.params) <= kNumArgsInRegister
           /\ Calls(function) # {} =>
                /\ ~HasLocals(function, FALSE)
                /\ Cardinality(Calls(function)) = 1
                /\ function.body[Len(function.body)].kind \in {"call", "return_call"}
                /\ \A c \in Calls(function) : Len(c.args) <= 1
           /\ OwnNames(f) \cap MemberVars(function, records) = {}
           /\ UsesArp(function) => UsesArp(Framed(f))
           /\ ~IsMember(function) => GetFunc(p, function.name) = f
  /\ PlainHierarchy(p.classes)
  /\ \A s \in ToSet(p.functions[1].body) : s.call.object # "" =>
       addresses[1][s.call.object].offset
         + FuncPtrThisAdjust(records[p.class_of[s.call.object]],
                             p.functions[s.call.callee].name) = 0

(* Every variable of the function under way, and every variable of main and *)
(* of main's objects, holds in the machine's memory the value it was last   *)
(* assigned in the source program: offsets do not collide, calls and        *)
(* returns pass values and leave the caller's frame where it was.           *)
VariablesHoldTheirValues ==
  InBody /\ ~VM!HasErrors /\ Supported(program) =>
    /\ \A v \in OwnNames(Top.f) :
         /\ <<"", v>> \in DOMAIN Top.values
         /\ v \notin ToSet(Current.params)
         => MachineValue(Top.f, v) = Top.values[<<"", v>>]
    /\ \A k \in DOMAIN frames[1].values :
         frames[1].values[k] = IF k[1] = "" THEN MachineValue(1, k[2])
                                            ELSE MachineField(k[1], k[2])

(* A function returns to the instruction after its call, with the stack     *)
(* pointer, the frame and the object its caller had, whenever the functions *)
(* that push arguments keep a frame: the epilogue makes good for the        *)
(* instructions that should drop what was pushed.                           *)
PushersKeepFrames(p) ==
  \A f \in 2..Len(p.functions) :
    (\E c \in Calls(p.functions[f]) : Pushed(c) > 0) => UsesArp(Framed(f))

Leaving == stage = "run" /\ VM!Executing /\ means[ip + 1].does = "leave"

ReturnsRestoreTheCaller ==
  [][PushersKeepFrames(program) /\ Leaving =>
       /\ Len(frames) > 1
       /\ ip' = Top.back
       /\ regs'[MRegStackPtr] = Top.sp
       /\ regs'[MRegArpPtr] = Top.arp
       /\ regs'[MRegThisPtr] = Top.this]_vars

(* The machine executes what the back end emitted: packing an instruction   *)
(* into a word, patching the word and unpacking it change nothing but the   *)
(* targets, as long as literals fit.                                        *)
Resolved(i) ==
  CASE i.op = "CALL" -> [i EXCEPT !.lit = call_translation[@]]
    [] i.op \in {"JMP", "JMPC"} -> [i EXCEPT !.lit = JumpPatch(@)]
    [] OTHER -> i

WordsKeepTheirInstructions ==
  /\ CodificationIsWellFormed
  /\ stage = "run" =>
       \A n \in DOMAIN code :
         emitted[n].lit \in -MaxLiteral..MaxLiteral => code[n] = Resolved(emitted[n])

(* The functions of a class find the variables of their class in every      *)
(* object that has them, through the adjustment of "this".                  *)
FunctionsFindTheirMembers == PlainHierarchy(program.classes) => MembersInPlace(program.classes)

(* "return __test(a == 16)" (the verification programs): a parameter that   *)
(* comes on the stack has the value that was passed for it.                 *)
ParametersHoldTheirArguments ==
  InBody /\ ~VM!HasErrors =>
    \A n \in DOMAIN Current.params :
      LET addr == addresses[Top.f][Current.params[n]]
      IN  addr.label = "arp" => InFrame(addr) = Top.values[<<"", Current.params[n]>>]
===============================================================================
