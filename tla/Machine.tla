------------------------------- MODULE Machine -------------------------------
(***************************************************************************)
(* A script from its source to its output: parsed, compiled, and run by    *)
(* the Interpreter (interpreter.cc) and the calls of Runtime               *)
(* (runtime.{h,cc}).  Lambdas are compiled when they are first called,     *)
(* below the scopes of that call.                                          *)
(*                                                                         *)
(* The interpreter knows the parser, the compiler and the comparison of    *)
(* two values by what they return: they are parameters here, for which a   *)
(* configuration gives Parser, Compiler and Equality.                      *)
(*                                                                         *)
(* What calls do to addresses, scopes and frames when the event loop calls *)
(* back in between is the matter of Runtime; here a frame keeps its own    *)
(* address.  Of the natives there are print and list.  output is what      *)
(* print has printed.                                                      *)
(*                                                                         *)
(* meaning, a history variable, is what the script is meant to print.      *)
(***************************************************************************)
EXTENDS Bytecode, Scopes, FiniteSets

CONSTANTS
  Name,                         \* the names of locals and parameters
  Programs,                     \* a set of sources
  Parsed(_, _),                 \* Parser, of the runtime's scope and a source
  Compiled(_, _, _, _, _),      \* CompileTarget, of macros, a unit, its kind, scopes and the flag
  Operations(_),                \* the places of a code where the disassembler finds an operation
  Same(_, _),                   \* Object::Equals
  SameUndefined(_, _),          \* Object::Equals, when it is undefined
  Parts(_),                     \* a value and all that it holds
  MeaningOf(_)                  \* what a source means: its output and its end

VARIABLES
  script,           \* what the parser made of the source
  codes,            \* code of each unit: 0 for the script, ids of lambdas
  frames,           \* the frames, the current one first
  scopes,           \* curr_scope_ and its parents
  output,
  status,
  pedantic,         \* the flag
  meaning

vars == <<script, codes, frames, scopes, output, status, pedantic, meaning>>

InitScope ==
  <<[name |-> "print", index |-> 0, value |-> <<"native", "print">>],
    [name |-> "list",  index |-> 1, value |-> <<"native", "list">>]>>
NativeArgs == [print |-> <<Argument("value")>>, list |-> <<Vararg("values")>>]

(* These are names like any other.                                         *)
ASSUME NameAssumption == {"print", "list", "value", "values"} \subseteq Name

(* What is in S is made of what is in S; lambdas are among the first n.    *)
Closed(S, n) ==
  \A v \in S :
    /\ v[1] = "lambda" => v[2] \in 1..n
    /\ v[1] = "native" => v[2] \in DOMAIN NativeArgs
    /\ IsPair(v)       => v = Null \/ (v[2] \in S /\ v[3] \in S)

Local(S)  == [name : Name, index : Nat, value : S]
Parameter == [name : Name, takes : {"one", "maybe", "all"}]

(* The lambdas of a script that was parsed to its end, and the scope it    *)
(* runs in.                                                                *)
Complete(parsed) ==
  LET n     == Len(parsed.lambdas)
      scope == AddAll(<<>>, parsed.scope)
      S     == UNION {Parts(scope[i].value) : i \in DOMAIN scope}
  IN  /\ n \in Nat
      /\ \A id \in 1..n : parsed.lambdas[id].name \in Name /\ parsed.lambdas[id].args \in Seq(Parameter)
      /\ scope \in Seq(Local(S)) /\ Closed(S, n)

Fine == ""          \* what a phase gives that has not failed

(* What the interpreter expects of the parser.                             *)
ASSUME ParserAssumption ==
  \A source \in Programs :
    LET parsed == Parsed(<<InitScope>>, source)
    IN  /\ {"lambdas", "macros"} \subseteq DOMAIN parsed
        /\ parsed.dead \in {Fine, "fatal", "undefined"}
        /\ parsed.dead = Fine => Complete(parsed)

NotCompiled == <<>>

(* Script::FromFile, up to the parser.                                     *)
Init ==
  \E source \in Programs :
    /\ script = Parsed(<<InitScope>>, source)
    /\ codes = [u \in 0..Len(script.lambdas) |-> NotCompiled]
    /\ frames = <<>>
    /\ scopes = <<InitScope>>
    /\ output = <<>>
    /\ status = IF script.dead = Fine THEN "start" ELSE script.dead
    /\ pedantic \in BOOLEAN
    /\ meaning = MeaningOf(source)

Fail(how) ==
  /\ status' = how
  /\ UNCHANGED <<script, codes, frames, scopes, output, pedantic, meaning>>

(* Compile a unit unless it is compiled, and enter it.  An empty unit      *)
(* cannot be compiled.  Expanding macros may change them.                  *)
Run(u, locals, below) ==
  /\ frames' = <<[unit |-> u, ip |-> 1, ops |-> <<>>]>> \o below
  /\ scopes' = <<locals>> \o scopes
  /\ status' = "run"
  /\ UNCHANGED <<output, pedantic, meaning>>
EnterCompiled(u, c, locals, below) ==
  IF c.result.fail # Fine THEN Fail(IF c.result.fail = "fatal" THEN "fatal" ELSE "undefined")
  ELSE /\ codes' = [codes EXCEPT ![u] = c.result.code]
       /\ script' = [script EXCEPT !.macros = c.macros]
       /\ Run(u, locals, below)
Enter(u, unit, kind, chain, locals, below) ==
  IF codes[u] # NotCompiled THEN Run(u, locals, below) /\ UNCHANGED <<codes, script>>
  ELSE IF unit.body = <<>> THEN Fail("fatal")
  ELSE EnterCompiled(u, Compiled(script.macros, unit, kind, chain, pedantic), locals, below)

(* Compiled below the scope of the runtime, run in a copy of its scope.    *)
Exec ==
  /\ status = "start"
  /\ Enter(0, script, "script", scopes, AddAll(<<>>, script.scope), <<>>)

Frame == Head(frames)
Code  == codes[Frame.unit]
Pos   == Frame.ip
Stack == Frame.ops
Top(i)     == Stack[Len(Stack) + 1 - i]
Dropped(n) == SubSeq(Stack, 1, Len(Stack) - n)
Operand(i) == Code[Pos + i]

Fetched == OpAt(Code, Pos)
At(ops) == Fetched \in ops

(* The frame that is left for now, or goes on, behind this operation.      *)
Behind(ops) == [frames EXCEPT ![1] = [@ EXCEPT !.ip = NextPos(Code, Pos), !.ops = ops]]

Continue(ops) ==
  /\ frames' = Behind(ops)
  /\ UNCHANGED <<script, codes, scopes, output, status, pedantic, meaning>>

Push ==
  /\ At(Pushes)
  /\ Continue(Append(Stack, PushedValue(Code, Pos)))

LoadLocal ==
  /\ At(Loads)
  /\ LET i == LoadIndex(Code, Pos) + 1
     IN  IF i \notin DOMAIN Head(scopes) \/ ~HasValue(Head(scopes)[i]) THEN Fail("undefined")
         ELSE Continue(Append(Stack, Head(scopes)[i].value))

StoreLocal ==
  /\ At(Stores)
  /\ LET i == StoreIndex(Code, Pos)
     IN  IF i + 1 \notin DOMAIN Head(scopes) THEN Fail("undefined")
         ELSE /\ frames' = Behind(Dropped(1))
              /\ scopes' = [scopes EXCEPT ![1] = SetValue(@, i, Top(1))]
              /\ UNCHANGED <<script, codes, output, status, pedantic, meaning>>

Binary(op, x, y) ==
  CASE op \in Arithmetic  -> Arith(op, x, y)
    [] op \in Logic       -> Logical(op, x, y)
    [] op \in Compares    -> Compare(op, x, y)
    [] op = "Equals"      -> Bool(Same(x, y))
    [] op = "Cons"        -> Pair(x, y)
    [] op = "InstanceOf"  -> Bool(IsInstanceOf(GetType(x), y[2]))

(* Only Long compares, and it takes the other for one.                     *)
ExecBinaryOp ==
  /\ At(Range(BinaryOps))
  /\ LET x == Top(2)
         y == Top(1)
     IN  CASE Fetched = "Equals" /\ SameUndefined(x, y)     -> Fail("undefined")
           [] DividesByZero(Fetched, x, y)                    -> Fail("undefined")
           [] Fetched \in Compares /\ ~IsLong(x)              -> Fail("fatal")
           [] Fetched \in Compares /\ IsLong(x) /\ ~IsLong(y) -> Fail("undefined")
           [] OTHER -> Continue(Append(Dropped(2), Binary(Fetched, x, y)))

Unary(op, x) ==
  CASE op = "Not"     -> Bool(~Truth(x))
    [] op = "Null"    -> Bool(x = Null)
    [] op = "Nonnull" -> Bool(x # Null)
    [] op = "Car"     -> Car(x)
    [] op = "Cdr"     -> Cdr(x)

ExecUnaryOp ==
  /\ At(Range(UnaryOps))
  /\ IF At({"Car", "Cdr"}) /\ ~IsPair(Top(1)) THEN Fail("undefined")
     ELSE Continue(Append(Dropped(1), Unary(Fetched, Top(1))))

(* kJnz falls through when the value is true.                              *)
GoTo(taken, ops) ==
  IF taken /\ ~HasOffset(Code, Pos) THEN Fail("undefined")
  ELSE /\ frames' = IF taken THEN [frames EXCEPT ![1] = [@ EXCEPT !.ip = JumpTarget(Code, Pos), !.ops = ops]]
                    ELSE Behind(ops)
       /\ UNCHANGED <<script, codes, scopes, output, status, pedantic, meaning>>

ExecJump ==
  \/ At({"Jump"}) /\ GoTo(TRUE, Stack)
  \/ At({"Jnz"})  /\ GoTo(~Truth(Top(1)), Dropped(1))
  \/ /\ At({"Jne"})
     /\ IF SameUndefined(Top(2), Top(1)) THEN Fail("undefined")
        ELSE GoTo(~Same(Top(2), Top(1)), Dropped(2))

CheckInstance ==
  /\ At({"CheckInstance"})
  /\ IF Stack # <<>> /\ IsInstanceOf(GetType(Top(1)), Operand(1)[2]) THEN Continue(Stack)
     ELSE Fail("fatal")

(* Only a cast to Observable, which is left out, has a result.             *)
Cast ==
  /\ At({"Cast"})
  /\ Continue(Dropped(1))

(* PopN: null for operands that are not there.                             *)
PopN(n) ==
  LET missing == IF n > Len(Stack) THEN n - Len(Stack) ELSE 0
  IN  [args |-> [i \in 1..missing |-> Null] \o SubSeq(Stack, Len(Stack) + 1 - (n - missing), Len(Stack)),
       left |-> Dropped(n - missing)]
New ==
  /\ At({"New"})
  /\ LET popped == PopN(Operand(2)[2])
         value  == NewInstance(Operand(1)[2], popped.args)
     IN  IF value = Abort THEN Fail("fatal") ELSE Continue(Append(popped.left, value))

(* The C++ exception goes through all calls.                               *)
Throw ==
  /\ At({"Throw"})
  /\ Fail(IF IsError(Top(1)) THEN "thrown" ELSE "undefined")

-----------------------------------------------------------------------------
(* Calls                                                                   *)

(* Runtime::CallWithNArgs: one operand for each parameter there is, the    *)
(* top one first, all of them from a vararg on; null for optional          *)
(* parameters without one.  Surplus operands stay.                         *)
Fixed(params) == Cardinality({i \in DOMAIN params : \A j \in 1..i : ~IsVararg(params[j])})
Missing(params, n) == IF n < Fixed(params) THEN Fixed(params) - n ELSE 0
TooFew(params, n) == \E i \in (n + 1)..Fixed(params) : ~IsOptional(params[i])
NumberPopped(params, n) ==
  IF Fixed(params) < Len(params) \/ n < Len(params) THEN n ELSE Len(params)
(* A mutant of Arguments: in the order in which they are popped.           *)
ArgumentsPopped(params, n, ops) ==
  Reverse(SubSeq(ops, Len(ops) + 1 - NumberPopped(params, n), Len(ops)))
  \o [i \in 1..Missing(params, n) |-> Null]
Arguments(params, n, ops) ==
  SubSeq(ops, Len(ops) + 1 - NumberPopped(params, n), Len(ops))
  \o [i \in 1..Missing(params, n) |-> Null]
Remaining(params, n, ops) == SubSeq(ops, 1, Len(ops) - NumberPopped(params, n))

(* A call of n arguments that is not callable fails.                       *)
Callable(params, n, ops) == ~TooFew(params, n) /\ NumberPopped(params, n) <= Len(ops)
CallFails(params, n)     == Fail(IF TooFew(params, n) THEN "fatal" ELSE "undefined")

(* A mutant of Locals: arguments in the order in which they are popped.    *)
LocalsReversed(id, lambda, args) ==
  LET n == Len(lambda.args)
  IN  <<[name |-> lambda.name, index |-> 0, value |-> <<"lambda", id>>]>>
      \o [i \in 1..n |-> [name |-> lambda.args[i].name, index |-> i, value |-> args[n + 1 - i]]]

(* Call(Lambda): locals are the lambda itself, then its parameters.  The   *)
(* arguments are in the order of the source, the names in reverse order.   *)
Locals(id, lambda, args) ==
  LET n == Len(lambda.args)
  IN  <<[name |-> lambda.name, index |-> 0, value |-> <<"lambda", id>>]>>
      \o [i \in 1..n |-> [name |-> lambda.args[n + 1 - i].name, index |-> i, value |-> args[i]]]

CallWithLocals(id, lambda, locals, ops) ==
  Enter(id, lambda, "lambda", <<locals>> \o scopes, locals, Behind(ops))
CallLambda(id, n, ops) ==
  LET lambda == script.lambdas[id]
      args   == Arguments(lambda.args, n, ops)
  IN  IF ~Callable(lambda.args, n, ops) THEN CallFails(lambda.args, n)
      ELSE IF Len(args) < Len(lambda.args) THEN Fail("undefined")
      ELSE CallWithLocals(id, lambda, Locals(id, lambda, args), Remaining(lambda.args, n, ops))

(* Both natives leave their result.                                        *)
CallNative(name, n, ops) ==
  LET args   == Arguments(NativeArgs[name], n, ops)
      result == IF name = "print" THEN Null ELSE ToList(args)
  IN  IF ~Callable(NativeArgs[name], n, ops) THEN CallFails(NativeArgs[name], n)
      ELSE /\ frames' = Behind(Append(Remaining(NativeArgs[name], n, ops), result))
           /\ output' = IF name = "print" THEN Append(output, args[1]) ELSE output
           /\ UNCHANGED <<script, codes, scopes, status, pedantic, meaning>>

Invoke ==
  /\ At({"Invoke"})
  /\ CallLambda(Operand(1)[2], Operand(2)[2], Stack)

InvokeNative ==
  /\ At({"InvokeNative"})
  /\ CallNative(Operand(1)[2], Operand(2)[2], Stack)

(* PopLookup accepts symbols only.                                         *)
PopLookup ==
  /\ At({"Lookup"})
  /\ IF ~IsSymbol(Top(1)) THEN Fail("fatal")
     ELSE LET name == Top(1)[2]
          IN  Continue(Append(Dropped(1), IF HasValueIn(scopes, name) THEN Lookup(scopes, name).value ELSE Null))

InvokeDynamic ==
  /\ At({"InvokeDynamic"})
  /\ CASE Top(1)[1] = "lambda" -> CallLambda(Top(1)[2], Operand(1)[2], Dropped(1))
       [] Top(1)[1] = "native" -> CallNative(Top(1)[2], Operand(1)[2], Dropped(1))
       [] OTHER -> Fail("thrown")

(* A mutant of LeaveScope: the scope of the call stays.                    *)
KeptScope == scopes

(* PopScope                                                                *)
LeaveScope == Tail(scopes)

(* kRet and the end of Call: the result is the top operand, if any.        *)
Return ==
  /\ At({"Ret"})
  /\ LET result == IF Stack = <<>> THEN Null ELSE Top(1)
         below  == Tail(frames)
     IN  /\ frames' = IF below = <<>> THEN <<>> ELSE [below EXCEPT ![1].ops = Append(@, result)]
         /\ status' = IF below = <<>> THEN "done" ELSE "run"
  /\ scopes' = LeaveScope
  /\ UNCHANGED <<script, codes, output, pedantic, meaning>>

(* Operands an operation pops without asking.                              *)
Needs ==
  CASE At(Stores \cup Range(UnaryOps) \cup {"Jnz", "Lookup", "InvokeDynamic", "Cast", "Throw"}) -> 1
    [] At(Range(BinaryOps) \cup {"Jne"}) -> 2
    [] OTHER -> 0

(* Interpreter::Run.  Popping from the empty stack is undefined.           *)
Interpret ==
  /\ status = "run"
  /\ IF Len(Stack) < Needs THEN Fail("undefined")
     ELSE \/ Push \/ LoadLocal \/ StoreLocal \/ ExecBinaryOp \/ ExecUnaryOp \/ ExecJump
          \/ CheckInstance \/ Cast \/ New \/ Throw
          \/ Invoke \/ InvokeNative \/ PopLookup \/ InvokeDynamic \/ Return

Step == Exec \/ Interpret

Ended == status \in {"done", "fatal", "thrown", "undefined"}

Next == Step \/ (Ended /\ UNCHANGED vars)

Spec == Init /\ [][Next]_vars

(***************************************************************************)
(* Properties                                                              *)
(***************************************************************************)

(* Frames run code that is there, each in a scope of its own below the     *)
(* scope of the runtime (PushScope and PopScope of Call), and stand at an  *)
(* operation.                                                              *)
TypeOK ==
  /\ status \in {"start", "run"} \/ Ended
  /\ status = "run" => frames # <<>>
  /\ \A i \in DOMAIN frames :
       /\ frames[i].unit \in DOMAIN codes
       /\ frames[i].ip \in DOMAIN codes[frames[i].unit]
       /\ codes[frames[i].unit][frames[i].ip][1] = "op"
  /\ Len(scopes) = Len(frames) + 1

(* What a script prints is what it means: no macro, jump, index of a local *)
(* or operand of the compiled code is wrong, at any moment of its run.     *)
(* The run fails where the script throws or has no meaning, and nowhere    *)
(* else; and only without the checks of a pedantic build is it undefined   *)
(* there (AddInstanceOf and CheckInstance).                                *)
Agrees ==
  /\ IsPrefix(output, meaning.output)
  /\ Ended => output = meaning.output
  /\ status = "done"      => meaning.end = Fine
  /\ status = "fatal"     => meaning.end = "stuck"
  /\ status = "thrown"    => meaning.end # Fine
  /\ status = "undefined" => meaning.end = "stuck" /\ ~pedantic

(* The operands the interpreter takes for a lambda, a native, a number of  *)
(* arguments or a value, are one.                                          *)
Takes(code, p, n) ==
  LET op == OpAt(code, p)
      x  == code[p + 1]
      y  == code[p + 2]
  IN  /\ op = "PushQ"         => x \in Parts(x) /\ Closed(Parts(x), n)
      /\ op = "Invoke"        => x[2] \in 1..n /\ y[2] \in Nat
      /\ op = "InvokeNative"  => x[2] \in DOMAIN NativeArgs /\ y[2] \in Nat
      /\ op = "InvokeDynamic" => x[2] \in Nat
      /\ op = "New"           => y[2] \in Nat

Leaves == {"Ret", "Throw"}

(* Code of a script with n lambdas that can be read from its start to its  *)
(* end (Disassembler) and ends in a return or a throw.  Every jump of it   *)
(* leads forward to an operation: no label is left without a place and     *)
(* none is bound before a jump to it (BranchInstr::Compile), so that a     *)
(* unit without calls comes to its end.                                    *)
Sound(code, n) ==
  LET places == Operations(code)
  IN  /\ 1 \in places
      /\ \A p \in places :
           /\ p \in Nat \cap DOMAIN code /\ code[p][1] = "op" /\ code[p][2] \in DOMAIN Ops
           /\ NextPos(code, p) \in places \/ (NextPos(code, p) = Len(code) + 1 /\ OpAt(code, p) \in Leaves)
           /\ OpAt(code, p) \in Jumps =>
                HasOffset(code, p) /\ JumpTarget(code, p) \in places /\ JumpTarget(code, p) > p
           /\ Takes(code, p, n)

(* A unit that is entered for the first time has sound code.               *)
Entered(u) == frames # <<>> /\ Head(frames).unit = u
CodeSound ==
  [][\A u \in DOMAIN codes :
       codes[u] = NotCompiled /\ Entered(u)' => Sound(codes'[u], Len(script.lambdas))]_vars

(* What a call of n operands makes of ops: the last ones, as many as there *)
(* are parameters, are its locals, from the second on and in their order,  *)
(* and null for each parameter without one; the others stay.               *)
Passed(params, n, ops) ==
  LET taken == IF n < Len(params) THEN n ELSE Len(params)
  IN  /\ \A i \in 1..Len(params) :
           Head(scopes')[i + 1].value = IF i <= taken THEN ops[Len(ops) - taken + i] ELSE Null
      /\ frames'[2].ops = SubSeq(ops, 1, Len(ops) - taken)
Passes(lambda, n, ops) == (\A i \in DOMAIN lambda.args : ~IsVararg(lambda.args[i])) => Passed(lambda.args, n, ops)

(* CallWithNArgs pops, reverses and fills up, and Call numbers what it     *)
(* gets: compiled code finds each argument under its index, and the caller *)
(* its own operands (without a vararg).                                    *)
ArgumentsPassed ==
  [][status = "run" /\ Len(frames') > Len(frames) =>
       /\ Fetched = "Invoke"        => Passes(script.lambdas[Operand(1)[2]], Operand(2)[2], Stack)
       /\ Fetched = "InvokeDynamic" => Passes(script.lambdas[Top(1)[2]], Operand(1)[2], Dropped(1))]_vars

=============================================================================
