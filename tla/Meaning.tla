------------------------------- MODULE Meaning -------------------------------
(***************************************************************************)
(* What a script means, without bytecode: expressions are evaluated in     *)
(* lexical scopes, procedures keep the scopes they were made in, variables *)
(* can be set, the call of a macro stands for its body with the arguments  *)
(* in it.  Numbers have no bounds.  The reference for Machine.             *)
(*                                                                         *)
(* A memory is [scopes, procs, value, output, end]: all scopes ever made   *)
(* (functions from names to values), all procedures and macros, the last   *)
(* value, what was printed, and whether the script has ended early:        *)
(* "thrown", or "stuck" at something without a meaning, such as the call   *)
(* of a number.  env lists the scopes in sight, the innermost one first.   *)
(***************************************************************************)
EXTENDS Integers, Sequences, SequencesExt

CONSTANT WordBits

P == INSTANCE Parser

NoNames == [n \in {} |-> P!Null]
With(m, v)  == [m EXCEPT !.value = v]
End(m, how) == [m EXCEPT !.end = how]
Stuck(m)    == End(m, "stuck")
Ended(m)    == m.end # ""

Sees(m, env, name) == \E d \in DOMAIN env : name \in DOMAIN m.scopes[env[d]]
Home(m, env, name) ==
  env[CHOOSE d \in DOMAIN env :
        /\ name \in DOMAIN m.scopes[env[d]]
        /\ \A c \in 1..(d - 1) : name \notin DOMAIN m.scopes[env[c]]]
Put(m, scope, name, v) == [m EXCEPT !.scopes[scope] = (name :> v) @@ @]

(* A scope made now has this number.                                       *)
Fresh(m) == Len(m.scopes) + 1
AddScope(m, names) == [m EXCEPT !.scopes = Append(@, names)]

RECURSIVE Eval(_, _, _)

EvalAll(m, env, list) == FoldLeft(LAMBDA n, e : Eval(n, env, e), m, list)
EvalIn(m, env, list)  == EvalAll(AddScope(With(m, P!Null), NoNames), <<Fresh(m)>> \o env, list)

(* The values of list, kept in a memory that has a field for them.         *)
Values(m, env, list) ==
  FoldLeft(LAMBDA r, e : LET n == Eval(r.memory, env, e)
                         IN  [memory |-> n, values |-> Append(r.values, n.value)],
           [memory |-> m, values |-> <<>>], list)

ValueOf(m, env, v) ==
  IF P!IsSymbol(v) /\ Sees(m, env, v[2]) THEN m.scopes[Home(m, env, v[2])][v[2]] ELSE v

Make(m, env, tag, name, args, body) ==
  With([m EXCEPT !.procs = Append(@, [name |-> name, args |-> args, body |-> body, env |-> env])],
       <<tag, Len(m.procs) + 1>>)

(* Optional parameters may be left out, at the end.                        *)
Accepts(proc, n) ==
  n <= Len(proc.args) /\ \A i \in (n + 1)..Len(proc.args) : P!IsOptional(proc.args[i])
Bound(proc, values) ==
  [x \in {proc.args[i].name : i \in DOMAIN proc.args} |->
     LET i == CHOOSE i \in DOMAIN proc.args : proc.args[i].name = x
     IN  IF i \in DOMAIN values THEN values[i] ELSE P!Null]

Apply(m, f, values) ==
  CASE f = <<"native", "print">> /\ Len(values) = 1 ->
         With([m EXCEPT !.output = Append(@, values[1])], P!Null)
    [] f = <<"native", "list">> -> With(m, P!ToList(values))
    [] f[1] = "lambda" /\ Accepts(m.procs[f[2]], Len(values)) ->
         LET proc  == m.procs[f[2]]
         IN  EvalAll(AddScope(With(m, P!Null), Bound(proc, values) @@ (proc.name :> f)),
                     <<Fresh(m)>> \o proc.env, proc.body)
    [] OTHER -> Stuck(m)

(* The body of a macro, with expressions for its parameters.               *)
RECURSIVE Subst(_, _, _)
Subst(e, macro, list) ==
  LET hits == {i \in DOMAIN macro.args : P!IsLiteralSymbol(e) /\ e.data[2] = macro.args[i].name}
  IN  IF hits # {} THEN list[CHOOSE i \in hits : TRUE]
      ELSE [e EXCEPT !.subs = [i \in DOMAIN @ |-> Subst(@[i], macro, list)]]
Expand(m, env, macro, list) ==
  EvalAll(m, env, [i \in DOMAIN macro.body |-> Subst(macro.body[i], macro, list)])

Number(n) == <<"long", n>>
Operator(m, op, x, y) ==
  IF op \in P!Arithmetic \cup P!Compares /\ ~(P!IsLong(x) /\ P!IsLong(y)) THEN Stuck(m)
  ELSE CASE op = "Add"              -> With(m, Number(x[2] + y[2]))
         [] op = "Subtract"         -> With(m, Number(x[2] - y[2]))
         [] op = "Multiply"         -> With(m, Number(x[2] * y[2]))
         [] op \in {"Divide", "Modulus"} /\ y[2] = 0 -> Stuck(m)
         [] op = "Divide" /\ y[2] # 0  -> With(m, Number(x[2] \div y[2]))
         [] op = "Modulus" /\ y[2] # 0 -> With(m, Number(x[2] % y[2]))
         [] op \in P!Compares       -> With(m, P!Compare(op, x, y))
         [] op = "Equals"           -> With(m, P!Bool(x = y))
         [] op = "BinaryAnd"        -> With(m, P!Bool(P!Truth(x) /\ P!Truth(y)))
         [] op = "BinaryOr"         -> With(m, P!Bool(P!Truth(x) \/ P!Truth(y)))
         [] op = "Cons"             -> With(m, P!Pair(x, y))

Test(m, op, x) ==
  CASE op = "Not"     -> With(m, P!Bool(~P!Truth(x)))
    [] op = "Null"    -> With(m, P!Bool(x = P!Null))
    [] op = "Nonnull" -> With(m, P!Bool(x # P!Null))
    [] op \in {"Car", "Cdr"} ->
         IF x[1] = "pair" THEN With(m, x[IF op = "Car" THEN 2 ELSE 3]) ELSE Stuck(m)

Instance(m, class, values) ==
  IF P!NewInstance(class, values) = P!Abort THEN Stuck(m) ELSE With(m, P!NewInstance(class, values))

RECURSIVE Choose(_, _, _)
Choose(m, env, clauses) ==
  CASE Len(clauses) = 0 -> With(m, P!Null)
    [] Len(clauses) = 1 -> Eval(m, env, clauses[1])
    [] OTHER -> LET n == Eval(m, env, clauses[1])
                IN  IF P!Truth(n.value) THEN Eval(n, env, clauses[2])
                    ELSE Choose(n, env, SubSeq(clauses, 3, Len(clauses)))

(* The first clause of a case whose key is the value.                      *)
Match(m, env, clauses) ==
  LET fits(c) == Eval(m, env, Head(c.subs)).value = m.value
      found   == SelectSeq(clauses, fits)
  IN  IF Ended(m) THEN m
      ELSE IF found = <<>> THEN With(m, P!Null) ELSE EvalIn(m, env, Tail(Head(found).subs))

RECURSIVE Repeat(_, _, _, _)
Repeat(m, env, test, body) ==
  LET n == Eval(m, env, test)
  IN  IF Ended(n) \/ ~P!Truth(n.value) THEN With(n, P!Null)
      ELSE Repeat(EvalIn(n, env, body), env, test, body)

(* The name of a class makes an instance, that of a macro is expanded.  A  *)
(* symbol that is called stands for the procedure it names.                *)
CallOf(m, env, target, list) ==
  LET f     == IF P!IsLiteral(target) THEN ValueOf(m, env, target.data) ELSE P!None
      args  == Values(m, env, list)
      value == Eval(args.memory, env, target)
  IN  CASE f[1] = "macro" -> Expand(m, env, m.procs[f[2]], list)
        [] P!IsClassReference(target) -> Instance(args.memory, target.data[2], args.values)
        [] OTHER -> IF Ended(value) THEN value ELSE Apply(value, ValueOf(value, env, value.value), args.values)

Eval(m, env, e) ==
  LET sub(i) == Eval(m, env, e.subs[i])
      all    == Values(m, env, e.subs)
      name   == e.data[2]
      define(n) == With(Put(n, env[1], name, n.value), P!Null)
  IN  IF Ended(m) THEN m
      ELSE CASE e.kind = "literal" -> With(m, ValueOf(m, env, e.data))
             [] e.kind = "quoted" -> With(m, e.data)
             [] e.kind = "unary"  -> IF Ended(sub(1)) THEN sub(1) ELSE Test(sub(1), name, sub(1).value)
             [] e.kind = "binary" ->
                  FoldLeft(LAMBDA n, y : IF Ended(n) THEN n ELSE Operator(n, name, n.value, y),
                           With(all.memory, Head(all.values)), Tail(all.values))
             [] e.kind = "call"   -> CallOf(m, env, Head(e.subs), Tail(e.subs))
             [] e.kind = "new"    -> Instance(all.memory, name, all.values)
             [] e.kind = "list"   -> With(all.memory, P!ToList(all.values))
             [] e.kind = "range"  ->
                  With(m, P!ListFromRange(e.subs[1].data[2], e.subs[2].data[2]))
             [] e.kind = "instanceof" ->
                  With(sub(1), P!Bool(P!IsInstanceOf(P!GetType(sub(1).value), name)))
             [] e.kind = "cast"   -> sub(1)
             [] e.kind = "throw"  ->
                  IF Ended(sub(1)) THEN sub(1)
                  ELSE End(sub(1), IF P!IsError(sub(1).value) THEN "thrown" ELSE "stuck")
             [] e.kind \in {"begin", "let"} -> EvalIn(m, env, e.subs)
             [] e.kind \in {"binding", "def"} -> define(sub(1))
             [] e.kind = "when"   ->
                  IF P!Truth(sub(1).value) THEN EvalIn(sub(1), env, Tail(e.subs)) ELSE With(sub(1), P!Null)
             [] e.kind = "while"  -> Repeat(m, env, Head(e.subs), Tail(e.subs))
             [] e.kind = "cond"   -> Choose(m, env, e.subs)
             [] e.kind = "case"   -> Match(sub(1), env, Tail(e.subs))
             [] e.kind = "setvar" ->
                  IF Sees(m, env, name) THEN With(Put(sub(1), Home(m, env, name), name, sub(1).value), P!Null)
                  ELSE Stuck(m)
             [] e.kind \in {"fn", "dispatch"} -> Make(m, env, "lambda", "$", name, e.subs)
             [] e.kind = "defn"     -> define(Make(m, env, "lambda", name, e.data[3], e.subs))
             [] e.kind = "defmacro" -> define(Make(m, env, "macro", name, e.data[3], e.subs))

Meaning(source) ==
  LET m == [scopes |-> <<("print" :> <<"native", "print">>) @@ ("list" :> <<"native", "list">>), NoNames>>,
            procs |-> <<>>, value |-> P!Null, output |-> <<>>, end |-> ""]
      n == EvalAll(m, <<2, 1>>, source)
  IN  [output |-> n.output, end |-> n.end]

=============================================================================
