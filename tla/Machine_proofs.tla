--------------------------- MODULE Machine_proofs ---------------------------
(***************************************************************************)
(* A script runs to its end in well-formed frames, below the code the      *)
(* compiler makes of it, for every parser and compiler that keep to what   *)
(* is asked of them.                                                       *)
(***************************************************************************)
EXTENDS Machine, FiniteSetTheorems, WellFoundedInduction, TLAPS

(***************************************************************************)
(* Values                                                                  *)
(***************************************************************************)

Good(v, n)     == \E S : Closed(S, n) /\ v \in S
Values(ops, n) == \E S : Closed(S, n) /\ ops \in Seq(S)

LEMMA UnionLemma ==
  ASSUME NEW n, NEW S, NEW T, Closed(S, n), Closed(T, n)
  PROVE  Closed(S \cup T, n)
BY DEF Closed

LEMMA SeqMonotone ==
  ASSUME NEW S, NEW T, S \subseteq T, NEW s \in Seq(S)
  PROVE  s \in Seq(T)
OBVIOUS

LEMMA FunctionIsSeq ==
  ASSUME NEW X, NEW k \in Nat, NEW f \in [1..k -> X]
  PROVE  f \in Seq(X) /\ Len(f) = k
OBVIOUS

LEMMA AtomLemma ==
  ASSUME NEW n, NEW v, v[1] \notin {"lambda", "native", "pair", "null"} \/ v = Null
  PROVE  Good(v, n)
<1>1. Closed({v}, n)
  BY DEF Closed, IsPair, Null
<1> QED
  BY <1>1 DEF Good

LEMMA PairLemma ==
  ASSUME NEW n, NEW x, NEW y, Good(x, n), Good(y, n)
  PROVE  Good(Pair(x, y), n)
<1>1. PICK S : Closed(S, n) /\ x \in S
  BY DEF Good
<1>2. PICK T : Closed(T, n) /\ y \in T
  BY DEF Good
<1> DEFINE U == S \cup T \cup {Pair(x, y)}
<1>3. Pair(x, y)[1] = "pair" /\ Pair(x, y)[2] = x /\ Pair(x, y)[3] = y
  BY DEF Pair
<1>4. Closed(U, n)
  BY <1>1, <1>2, <1>3 DEF Closed
<1> QED
  BY <1>4 DEF Good

LEMMA PartsLemma ==
  ASSUME NEW n, NEW v, Good(v, n)
  PROVE  /\ v[1] = "lambda" => v[2] \in 1..n
         /\ v[1] = "native" => v[2] \in DOMAIN NativeArgs
         /\ IsPair(v) => Good(Car(v), n) /\ Good(Cdr(v), n)
<1>1. PICK S : Closed(S, n) /\ v \in S
  BY DEF Good
<1>2. Good(Null, n)
  BY AtomLemma
<1> QED
  BY <1>1, <1>2 DEF Closed, Good, Car, Cdr

(***************************************************************************)
(* Lists                                                                   *)
(***************************************************************************)

(* A set of numbers that is not empty has a least one.                     *)
LEMMA LeastLemma ==
  ASSUME NEW A \in SUBSET Nat, NEW a \in A
  PROVE  \E m \in A : \A k \in A : m <= k
<1> DEFINE less == OpToRel(<, Nat)
<1>1. IsWellFoundedOn(less, Nat)
  BY NatLessThanWellFounded
<1>2. \A x, y \in Nat : x < y => <<x, y>> \in less
  BY DEF OpToRel
<1> HIDE DEF less
<1>3. A # {}
  OBVIOUS
<1>4. PICK m \in A : \A k \in A : ~(<<k, m>> \in less)
  BY <1>1, <1>3, WFMin
<1>5. ASSUME NEW k \in A PROVE m <= k
  <2>1. k \in Nat /\ m \in Nat /\ ~(k < m)
    BY <1>2, <1>4
  <2> QED
    BY <2>1
<1> QED
  BY <1>5

(* f makes the lists of the last values, up to k of them.                  *)
Makes(f, values, k) ==
  f = [i \in 0..k |-> IF i = 0 THEN Null ELSE Pair(values[Len(values) + 1 - i], f[i - 1])]

(* Lists is the function its definition asks for: there is one.            *)
LEMMA ListsDefined ==
  ASSUME NEW values, Len(values) \in Nat
  PROVE  Makes(Lists(values), values, Len(values))
<1> DEFINE m == Len(values)
           A == {k \in Nat : ~\E f : Makes(f, values, k)}
<1>1. Lists(values) = CHOOSE f : Makes(f, values, m)
  BY DEF Lists, Makes
<1>2. ASSUME NEW k \in A, \A j \in A : k <= j PROVE FALSE
  <2>1. k \in Nat
    OBVIOUS
  <2>2. CASE k = 0
    <3>1. Makes([i \in 0..0 |-> Null], values, 0)
      BY DEF Makes
    <3> QED
      BY <2>2, <3>1
  <2>3. CASE k # 0
    <3>1. k - 1 \in Nat /\ k - 1 \notin A
      BY <1>2, <2>1, <2>3
    <3>2. PICK f : Makes(f, values, k - 1)
      BY <3>1
    <3> DEFINE g == [i \in 0..k |-> IF i = k THEN Pair(values[m + 1 - k], f[k - 1]) ELSE f[i]]
    <3>3. ASSUME NEW i \in 0..k
          PROVE  g[i] = IF i = 0 THEN Null ELSE Pair(values[m + 1 - i], g[i - 1])
      <4>1. CASE i = k
        <5>1. k - 1 \in 0..k /\ k - 1 # k /\ k \in 0..k
          BY <2>1, <2>3
        <5>2. g[k] = Pair(values[m + 1 - k], f[k - 1]) /\ g[k - 1] = f[k - 1]
          BY <5>1
        <5> QED
          BY <2>3, <4>1, <5>2
      <4>2. CASE i # k
        <5>1. i \in 0..(k - 1) /\ (i # 0 => i - 1 \in 0..k /\ i - 1 # k)
          BY <2>1, <4>2
        <5>2. g[i] = f[i] /\ (i # 0 => g[i - 1] = f[i - 1])
          BY <4>2, <5>1
        <5>3. f[i] = IF i = 0 THEN Null ELSE Pair(values[m + 1 - i], f[i - 1])
          BY <3>2, <5>1 DEF Makes
        <5> QED
          BY <5>2, <5>3
      <4> QED
        BY <4>1, <4>2
    <3>4. g = [i \in 0..k |-> IF i = 0 THEN Null ELSE Pair(values[m + 1 - i], g[i - 1])]
      BY <3>3
    <3> HIDE DEF g
    <3>5. Makes(g, values, k)
      BY <3>4 DEF Makes
    <3> QED
      BY <3>5
  <2> QED
    BY <2>2, <2>3
<1>3. A = {}
  <2> HIDE DEF A
  <2>1. A \subseteq Nat
    BY DEF A
  <2> QED
    BY <1>2, <2>1, LeastLemma
<1>4. \E f : Makes(f, values, m)
  BY <1>3
<1> QED
  BY <1>1, <1>4

(* A list of good values is good.                                          *)
LEMMA ToListLemma ==
  ASSUME NEW n, NEW values, Values(values, n)
  PROVE  Good(ToList(values), n)
<1> DEFINE m == Len(values)
           A == {k \in 0..m : ~Good(Lists(values)[k], n)}
<1>1. PICK S : Closed(S, n) /\ values \in Seq(S)
  BY DEF Values
<1>2. m \in Nat /\ \A i \in 1..m : Good(values[i], n)
  BY <1>1 DEF Good
<1>3. \A k \in 0..m : Lists(values)[k] = IF k = 0 THEN Null ELSE Pair(values[m + 1 - k], Lists(values)[k - 1])
  BY <1>2, ListsDefined DEF Makes
<1>4. Good(Null, n)
  BY AtomLemma
<1>5. ASSUME NEW k \in A, \A j \in A : k <= j PROVE FALSE
  <2>1. k \in 0..m /\ ~Good(Lists(values)[k], n) /\ k # 0
    BY <1>3, <1>4
  <2>2. k - 1 \in 0..m /\ k - 1 \notin A /\ m + 1 - k \in 1..m
    BY <1>2, <1>5, <2>1
  <2>3. Good(Lists(values)[k - 1], n) /\ Good(values[m + 1 - k], n)
    BY <1>2, <2>2
  <2>4. Good(Pair(values[m + 1 - k], Lists(values)[k - 1]), n)
    BY <2>3, PairLemma
  <2> QED
    BY <1>3, <2>1, <2>4
<1>6. A = {}
  <2> HIDE DEF A
  <2>1. A \subseteq Nat
    BY <1>2 DEF A
  <2> QED
    BY <1>5, <2>1, LeastLemma
<1> QED
  BY <1>2, <1>6 DEF ToList

(***************************************************************************)
(* Sequences of values                                                     *)
(***************************************************************************)

LEMMA ValuesAt ==
  ASSUME NEW n, NEW ops, Values(ops, n)
  PROVE  Len(ops) \in Nat /\ DOMAIN ops = 1..Len(ops) /\ \A i \in 1..Len(ops) : Good(ops[i], n)
BY DEF Values, Good

LEMMA ValuesAppend ==
  ASSUME NEW n, NEW ops, Values(ops, n), NEW v, Good(v, n)
  PROVE  Values(Append(ops, v), n)
<1>1. PICK S : Closed(S, n) /\ ops \in Seq(S)
  BY DEF Values
<1>2. PICK T : Closed(T, n) /\ v \in T
  BY DEF Good
<1>3. ops \in Seq(S \cup T)
  BY <1>1, SeqMonotone
<1>4. Append(ops, v) \in Seq(S \cup T)
  BY <1>2, <1>3
<1> QED
  BY <1>1, <1>2, <1>4, UnionLemma DEF Values

LEMMA ValuesConcat ==
  ASSUME NEW n, NEW ops, NEW more, Values(ops, n), Values(more, n)
  PROVE  Values(ops \o more, n)
<1>1. PICK S : Closed(S, n) /\ ops \in Seq(S)
  BY DEF Values
<1>2. PICK T : Closed(T, n) /\ more \in Seq(T)
  BY DEF Values
<1>3. ops \in Seq(S \cup T) /\ more \in Seq(S \cup T)
  BY <1>1, <1>2, SeqMonotone
<1>4. ops \o more \in Seq(S \cup T)
  BY <1>3
<1> QED
  BY <1>1, <1>2, <1>4, UnionLemma DEF Values

(* What is left when some are dropped, and the last ones.                  *)
LEMMA ValuesSub ==
  ASSUME NEW n, NEW ops, Values(ops, n), NEW k \in 0..Len(ops)
  PROVE  /\ Values(SubSeq(ops, 1, Len(ops) - k), n)
         /\ Values(SubSeq(ops, Len(ops) + 1 - k, Len(ops)), n)
         /\ Len(SubSeq(ops, 1, Len(ops) - k)) = Len(ops) - k
         /\ Len(SubSeq(ops, Len(ops) + 1 - k, Len(ops))) = k
         /\ \A i \in 1..k : SubSeq(ops, Len(ops) + 1 - k, Len(ops))[i] = ops[Len(ops) - k + i]
<1>1. PICK S : Closed(S, n) /\ ops \in Seq(S)
  BY DEF Values
<1>2. Len(ops) \in Nat /\ k \in Nat /\ k <= Len(ops)
  BY <1>1
<1>3. SubSeq(ops, 1, Len(ops) - k) \in Seq(S) /\ Len(SubSeq(ops, 1, Len(ops) - k)) = Len(ops) - k
  BY <1>1, <1>2
<1>4. /\ SubSeq(ops, Len(ops) + 1 - k, Len(ops)) \in Seq(S)
      /\ Len(SubSeq(ops, Len(ops) + 1 - k, Len(ops))) = k
      /\ \A i \in 1..k : SubSeq(ops, Len(ops) + 1 - k, Len(ops))[i] = ops[Len(ops) - k + i]
  BY <1>1, <1>2
<1> QED
  BY <1>1, <1>3, <1>4 DEF Values

LEMMA ValuesNull ==
  ASSUME NEW n, NEW k \in Nat
  PROVE  Values([i \in 1..k |-> Null], n) /\ Len([i \in 1..k |-> Null]) = k
<1>1. PICK S : Closed(S, n) /\ Null \in S
  BY AtomLemma DEF Good
<1>2. [i \in 1..k |-> Null] \in Seq(S)
  BY <1>1
<1> QED
  BY <1>1, <1>2 DEF Values

(***************************************************************************)
(* Arguments                                                               *)
(***************************************************************************)

LEMMA FixedLemma ==
  ASSUME NEW params \in Seq(Parameter)
  PROVE  /\ Fixed(params) \in 0..Len(params)
         /\ (\A i \in 1..Len(params) : ~IsVararg(params[i])) => Fixed(params) = Len(params)
<1> DEFINE A == {i \in DOMAIN params : \A j \in 1..i : ~IsVararg(params[j])}
<1>1. DOMAIN params = 1..Len(params) /\ Len(params) \in Nat
  OBVIOUS
<1>2. IsFiniteSet(1..Len(params)) /\ Cardinality(1..Len(params)) = Len(params)
  BY <1>1, FS_Interval, SMTT(20)
<1>3. A \subseteq 1..Len(params)
  BY <1>1
<1>4. IsFiniteSet(A) /\ Cardinality(A) <= Cardinality(1..Len(params))
  BY <1>2, <1>3, FS_Subset
<1>5. Cardinality(A) \in Nat
  BY <1>4, FS_CardinalityType
<1>6. ASSUME \A i \in 1..Len(params) : ~IsVararg(params[i]) PROVE A = 1..Len(params)
  BY <1>1, <1>6
<1>7. Fixed(params) = Cardinality(A)
  BY DEF Fixed
<1> HIDE DEF A
<1> QED
  BY <1>1, <1>2, <1>4, <1>5, <1>6, <1>7

LEMMA PoppedLemma ==
  ASSUME NEW params \in Seq(Parameter), NEW k \in Nat
  PROVE  NumberPopped(params, k) \in Nat /\ Missing(params, k) \in Nat
<1>1. Fixed(params) \in Nat /\ Len(params) \in Nat
  BY FixedLemma
<1> QED
  BY <1>1 DEF NumberPopped, Missing

LEMMA ArgumentsLemma ==
  ASSUME NEW n, NEW ops, Values(ops, n), NEW params \in Seq(Parameter), NEW k \in Nat,
         Callable(params, k, ops)
  PROVE  Values(Arguments(params, k, ops), n) /\ Values(Remaining(params, k, ops), n)
<1>1. NumberPopped(params, k) \in Nat /\ Missing(params, k) \in Nat /\ Len(ops) \in Nat
  BY PoppedLemma, ValuesAt
<1>2. NumberPopped(params, k) \in 0..Len(ops)
  BY <1>1 DEF Callable
<1>3. Values([i \in 1..Missing(params, k) |-> Null], n)
  BY <1>1, ValuesNull
<1> QED
  BY <1>2, <1>3, ValuesSub, ValuesConcat DEF Arguments, Remaining

(* A call of a procedure without a vararg: the last operands, as many as   *)
(* there are parameters, are its arguments, in their order, and null for   *)
(* each optional parameter that got none (CallWithNArgs).                  *)
Passing(params, k, ops) ==
  LET args  == Arguments(params, k, ops)
      taken == IF k < Len(params) THEN k ELSE Len(params)
  IN  /\ Len(args) = Len(params)
      /\ taken \in 0..Len(ops)
      /\ \A i \in 1..taken : args[i] = ops[Len(ops) - taken + i]
      /\ \A i \in (taken + 1)..Len(params) : args[i] = Null /\ IsOptional(params[i])
      /\ Remaining(params, k, ops) = SubSeq(ops, 1, Len(ops) - taken)
LEMMA PassingLemma ==
  ASSUME NEW n, NEW ops, Values(ops, n), NEW params \in Seq(Parameter), NEW k \in Nat,
         Callable(params, k, ops), \A i \in 1..Len(params) : ~IsVararg(params[i])
  PROVE  Passing(params, k, ops)
<1> DEFINE taken == IF k < Len(params) THEN k ELSE Len(params)
           given == SubSeq(ops, Len(ops) + 1 - taken, Len(ops))
           nulls == [i \in 1..Missing(params, k) |-> Null]
<1>1. Fixed(params) = Len(params) /\ Len(params) \in Nat /\ Len(ops) \in Nat
  BY FixedLemma, ValuesAt
<1>2. NumberPopped(params, k) = taken /\ taken \in Nat
  BY <1>1 DEF NumberPopped
<1>3. Missing(params, k) = Len(params) - taken /\ Missing(params, k) \in Nat
  BY <1>1 DEF Missing
<1>4. taken \in 0..Len(ops) /\ ~TooFew(params, k)
  BY <1>1, <1>2 DEF Callable
<1>5. Arguments(params, k, ops) = given \o nulls
  BY <1>2 DEF Arguments
<1>6. Values(given, n) /\ Len(given) = taken /\ \A i \in 1..taken : given[i] = ops[Len(ops) - taken + i]
  <2> HIDE DEF taken
  <2> QED
    BY <1>4, ValuesSub
<1>7. Values(nulls, n) /\ Len(nulls) = Len(params) - taken /\ \A i \in 1..(Len(params) - taken) : nulls[i] = Null
  <2>1. Values(nulls, n) /\ Len(nulls) = Missing(params, k)
    BY <1>3, ValuesNull
  <2>2. \A i \in 1..Missing(params, k) : nulls[i] = Null
    OBVIOUS
  <2> HIDE DEF nulls, taken
  <2> QED
    BY <1>3, <2>1, <2>2
<1> HIDE DEF given, nulls
<1>8. /\ Len(given \o nulls) = Len(given) + Len(nulls)
      /\ \A i \in 1..Len(given) : (given \o nulls)[i] = given[i]
      /\ \A i \in (Len(given) + 1)..(Len(given) + Len(nulls)) : (given \o nulls)[i] = nulls[i - Len(given)]
  <2>1. PICK S : given \in Seq(S)
    BY <1>6 DEF Values
  <2>2. PICK T : nulls \in Seq(T)
    BY <1>7 DEF Values
  <2>3. given \in Seq(S \cup T) /\ nulls \in Seq(S \cup T)
    BY <2>1, <2>2, SeqMonotone
  <2> QED
    BY <2>3
<1>9. \A i \in (taken + 1)..Len(params) : IsOptional(params[i])
  BY <1>1, <1>2, <1>4 DEF TooFew
<1>10. Remaining(params, k, ops) = SubSeq(ops, 1, Len(ops) - taken)
  BY <1>2 DEF Remaining
<1>11. \A i \in (taken + 1)..Len(params) : (given \o nulls)[i] = Null
  <2> HIDE DEF taken
  <2> QED
    BY <1>1, <1>2, <1>6, <1>7, <1>8
<1>12. \A i \in 1..taken : (given \o nulls)[i] = ops[Len(ops) - taken + i]
  <2> HIDE DEF taken
  <2> QED
    BY <1>1, <1>2, <1>6, <1>8
<1>13. Len(given \o nulls) = Len(params)
  <2> HIDE DEF taken
  <2> QED
    BY <1>1, <1>2, <1>6, <1>7, <1>8
<1> QED
  BY <1>4, <1>5, <1>9, <1>10, <1>11, <1>12, <1>13 DEF Passing

(***************************************************************************)
(* Scopes                                                                  *)
(***************************************************************************)

(* What is found under a name is one of the locals of the chain.           *)
LEMMA LookupLemma ==
  ASSUME NEW S, NEW chain \in Seq(Seq(Local(S))), NEW name, InScope(chain, name)
  PROVE  Lookup(chain, name).value \in S
<1> DEFINE A == {d \in DOMAIN chain : name \in Names(chain[d])}
           First(d) == name \in Names(chain[d]) /\ \A e \in 1..(d - 1) : name \notin Names(chain[e])
           depth == CHOOSE d \in DOMAIN chain : First(d)
<1>1. DOMAIN chain = 1..Len(chain) /\ Len(chain) \in Nat
  OBVIOUS
<1>2. PICK a : a \in A
  BY DEF InScope
<1>3. A \subseteq Nat
  BY <1>1
<1>4. PICK d \in A : \A e \in A : d <= e
  BY <1>2, <1>3, LeastLemma
<1>5. d \in DOMAIN chain /\ First(d)
  <2>1. d \in 1..Len(chain) /\ name \in Names(chain[d])
    BY <1>1
  <2>2. ASSUME NEW e \in 1..(d - 1), name \in Names(chain[e]) PROVE FALSE
    <3>1. e \in 1..Len(chain) /\ ~(d <= e)
      BY <1>1, <2>1
    <3> QED
      BY <1>1, <1>4, <2>2, <3>1
  <2> QED
    BY <1>1, <2>1, <2>2
<1>6. depth \in DOMAIN chain /\ name \in Names(chain[depth])
  BY <1>5
<1>7. Lookup(chain, name) = chain[depth][Find(chain[depth], name)]
  BY DEF Lookup
<1> HIDE DEF depth
<1>8. Find(chain[depth], name) \in DOMAIN chain[depth]
  BY <1>6 DEF Find, Names
<1>9. chain[depth] \in Seq(Local(S))
  BY <1>6
<1>10. chain[depth][Find(chain[depth], name)] \in Local(S)
  BY <1>8, <1>9
<1> QED
  BY <1>7, <1>10 DEF Local

LEMMA SetValueLemma ==
  ASSUME NEW S, NEW scope \in Seq(Local(S)), NEW index, NEW v \in S
  PROVE  SetValue(scope, index, v) \in Seq(Local(S))
<1> DEFINE new == SetValue(scope, index, v)
<1>1. DOMAIN new = 1..Len(scope) /\ Len(scope) \in Nat
  BY DEF SetValue
<1>2. ASSUME NEW i \in 1..Len(scope) PROVE new[i] \in Local(S)
  <2>1. scope[i] \in Local(S)
    OBVIOUS
  <2>2. [scope[i] EXCEPT !.value = v] \in Local(S)
    BY <2>1 DEF Local
  <2>3. new[i] = IF i = index + 1 THEN [scope[i] EXCEPT !.value = v] ELSE scope[i]
    BY DEF SetValue
  <2> QED
    BY <2>1, <2>2, <2>3
<1>3. new \in [1..Len(scope) -> Local(S)]
  <2>1. new = [i \in 1..Len(scope) |-> new[i]]
    BY <1>1 DEF SetValue
  <2> HIDE DEF new
  <2> QED
    BY <1>2, <2>1
<1> QED
  BY <1>1, <1>3, FunctionIsSeq

LEMMA LocalMonotone ==
  ASSUME NEW S, NEW T, S \subseteq T
  PROVE  /\ \A scope \in Seq(Local(S)) : scope \in Seq(Local(T))
         /\ \A chain \in Seq(Seq(Local(S))) : chain \in Seq(Seq(Local(T)))
<1>1. Local(S) \subseteq Local(T)
  BY DEF Local
<1>2. Seq(Local(S)) \subseteq Seq(Local(T))
  BY <1>1, SeqMonotone
<1>3. Seq(Seq(Local(S))) \subseteq Seq(Seq(Local(T)))
  BY <1>2, SeqMonotone
<1> QED
  BY <1>2, <1>3

(* The scope of a call: the lambda itself and its arguments.               *)
LEMMA LocalsLemma ==
  ASSUME NEW n \in Nat, NEW id \in 1..n, NEW lambda, lambda.name \in Name, lambda.args \in Seq(Parameter),
         NEW args, Values(args, n), Len(lambda.args) <= Len(args)
  PROVE  /\ \E S : Closed(S, n) /\ Locals(id, lambda, args) \in Seq(Local(S))
         /\ Len(Locals(id, lambda, args)) = Len(lambda.args) + 1
         /\ \A i \in 1..Len(lambda.args) : Locals(id, lambda, args)[i + 1].value = args[i]
<1> DEFINE self == <<"lambda", id>>
           k == Len(lambda.args)
           first == [name |-> lambda.name, index |-> 0, value |-> self]
           rest == [i \in 1..k |-> [name |-> lambda.args[k + 1 - i].name, index |-> i, value |-> args[i]]]
<1>1. PICK T : Closed(T, n) /\ args \in Seq(T)
  BY DEF Values
<1> DEFINE S == T \cup {self}
<1>2. Closed(S, n)
  <2>1. self[1] = "lambda" /\ self[2] = id
    OBVIOUS
  <2> HIDE DEF self
  <2> QED
    BY <1>1, <2>1 DEF Closed, IsPair
<1>3. first \in Local(S)
  BY DEF Local
<1>4. k \in Nat /\ Len(args) \in Nat
  BY <1>1
<1>5. ASSUME NEW i \in 1..k PROVE rest[i] \in Local(S) /\ rest[i].value = args[i]
  <2>1. i \in 1..Len(args) /\ k + 1 - i \in 1..k /\ i \in Nat
    BY <1>4
  <2>2. args[i] \in S /\ lambda.args[k + 1 - i] \in Parameter
    BY <1>1, <2>1
  <2> QED
    BY <2>1, <2>2 DEF Local, Parameter
<1>6. rest \in Seq(Local(S)) /\ Len(rest) = k
  <2>1. rest = [i \in 1..k |-> rest[i]]
    OBVIOUS
  <2> HIDE DEF rest
  <2>2. rest \in [1..k -> Local(S)]
    BY <1>5, <2>1
  <2> QED
    BY <1>4, <2>2, FunctionIsSeq
<1>7. <<first>> \in Seq(Local(S)) /\ Len(<<first>>) = 1
  BY <1>3
<1>8. Locals(id, lambda, args) = <<first>> \o rest
  BY DEF Locals
<1> HIDE DEF first, rest, S
<1>9. /\ <<first>> \o rest \in Seq(Local(S))
      /\ Len(<<first>> \o rest) = k + 1
      /\ \A i \in 1..k : (<<first>> \o rest)[i + 1] = rest[i]
  BY <1>4, <1>6, <1>7
<1> QED
  BY <1>2, <1>5, <1>8, <1>9

(***************************************************************************)
(* The invariant                                                           *)
(***************************************************************************)

Count == Len(script.lambdas)

LambdasOK ==
  /\ {"lambdas", "macros"} \subseteq DOMAIN script
  /\ Count \in Nat
  /\ \A id \in 1..Count : script.lambdas[id].name \in Name /\ script.lambdas[id].args \in Seq(Parameter)

CodesOK ==
  /\ DOMAIN codes = 0..Count
  /\ \A u \in 0..Count : codes[u] # NotCompiled => Sound(codes[u], Count)

FrameOf(S) == [unit : 0..Count, ip : Nat, ops : Seq(S)]

(* All values there are can be found in S.                                 *)
Holds(S) ==
  /\ Closed(S, Count)
  /\ frames \in Seq(FrameOf(S))
  /\ scopes \in Seq(Seq(Local(S)))

(* A frame stands at an operation of compiled code.                        *)
Stands(f) == codes[f.unit] # NotCompiled /\ f.ip \in Operations(codes[f.unit])

Starts ==
  /\ frames = <<>>
  /\ \E S : Closed(S, Count) /\ AddAll(<<>>, script.scope) \in Seq(Local(S))

Deep ==
  /\ LambdasOK
  /\ CodesOK
  /\ \E S : Holds(S)
  /\ \A i \in DOMAIN frames : Stands(frames[i])
  /\ Len(scopes) = Len(frames) + 1
  /\ status = "run" => frames # <<>>
  /\ status = "start" => Starts

Inv == TypeOK /\ (~Ended => Deep)

(* What is asked of the compiler in a step.                                *)
CodeStep ==
  \A u \in DOMAIN codes :
    codes[u] = NotCompiled /\ Entered(u)' => Sound(codes'[u], Len(script.lambdas))

(* Some operation of one, or of the other.                                 *)
Ongoing ==
  Pushes \cup Loads \cup Stores \cup Jumps \cup Range(UnaryOps) \cup Range(BinaryOps)
  \cup {"CheckInstance", "Cast", "New", "Invoke", "InvokeNative", "InvokeDynamic", "Lookup"}

LEMMA OngoingLemma == Ongoing \cap Leaves = {}
BY DEF Ongoing, Leaves, Pushes, Loads, Stores, Jumps, Range, UnaryOps, BinaryOps

LEMMA FailStep ==
  ASSUME Inv, NEW how \in {"fatal", "thrown", "undefined"}, Fail(how)
  PROVE  Inv'
<1>1. Ended'
  BY DEF Fail, Ended
<1>2. TypeOK'
  BY <1>1 DEF Inv, TypeOK, Fail, Ended
<1> QED
  BY <1>1, <1>2 DEF Inv

LEMMA FramesMonotone ==
  ASSUME NEW S, NEW T, S \subseteq T
  PROVE  \A below \in Seq(FrameOf(S)) : below \in Seq(FrameOf(T))
<1>1. Seq(S) \subseteq Seq(T)
  BY SeqMonotone
<1>2. FrameOf(S) \subseteq FrameOf(T)
  BY <1>1 DEF FrameOf
<1> QED
  BY <1>2, SeqMonotone

(* What is known of the place where the current frame stands.              *)
LEMMA FetchLemma ==
  ASSUME Inv, status = "run"
  PROVE  /\ Deep
         /\ frames # <<>> /\ Frame = frames[1] /\ 1 \in DOMAIN frames
         /\ Frame.unit \in 0..Count /\ Sound(Code, Count) /\ Pos \in Operations(Code)
         /\ Values(Stack, Count)
         /\ scopes # <<>>
         /\ Takes(Code, Pos, Count)
         /\ Fetched \in Ongoing => NextPos(Code, Pos) \in Operations(Code)
         /\ Fetched \in Jumps /\ HasOffset(Code, Pos) => JumpTarget(Code, Pos) \in Operations(Code)
<1>1. Deep /\ frames # <<>>
  BY DEF Inv, Ended, Deep
<1>2. PICK S : Holds(S)
  BY <1>1 DEF Deep
<1>3. Frame = frames[1] /\ 1 \in DOMAIN frames /\ Frame \in FrameOf(S)
  BY <1>1, <1>2 DEF Frame, Holds
<1>4. Frame.unit \in 0..Count /\ Values(Stack, Count)
  BY <1>2, <1>3 DEF FrameOf, Stack, Values, Holds
<1>5. Stands(Frame)
  BY <1>1, <1>3 DEF Deep
<1>6. Sound(Code, Count) /\ Pos \in Operations(Code)
  BY <1>1, <1>4, <1>5 DEF Deep, CodesOK, Stands, Code, Pos
<1>7. Takes(Code, Pos, Count)
  BY <1>6 DEF Sound
<1>8. Fetched \in Ongoing => NextPos(Code, Pos) \in Operations(Code)
  BY <1>6, OngoingLemma DEF Sound, Fetched
<1>9. Fetched \in Jumps /\ HasOffset(Code, Pos) => JumpTarget(Code, Pos) \in Operations(Code)
  BY <1>6 DEF Sound, Fetched
<1>10. scopes # <<>>
  BY <1>1, <1>2, <1>3 DEF Deep, Holds
<1> QED
  BY <1>1, <1>3, <1>4, <1>6, <1>7, <1>8, <1>9, <1>10

LEMMA RunTypes ==
  ASSUME Deep', status' = "run"
  PROVE  Inv'
<1>1. frames' # <<>> /\ Len(scopes)' = Len(frames)' + 1
  BY DEF Deep
<1>2. PICK S : Holds(S)'
  BY DEF Deep
<1>3. ASSUME NEW i \in DOMAIN frames'
      PROVE  /\ frames'[i].unit \in DOMAIN codes'
             /\ frames'[i].ip \in DOMAIN codes'[frames'[i].unit]
             /\ codes'[frames'[i].unit][frames'[i].ip][1] = "op"
  <2>1. frames'[i].unit \in 0..Count'
    <3>1. frames' \in Seq(FrameOf(S)')
      BY <1>2 DEF Holds
    <3>2. frames'[i] \in FrameOf(S)'
      BY <1>3, <3>1
    <3> QED
      BY <3>2 DEF FrameOf
  <2>2. Stands(frames[i])'
    BY <1>3 DEF Deep
  <2> QED
    BY <2>1, <2>2 DEF Deep, CodesOK, Stands, Sound
<1> QED
  BY <1>1, <1>3 DEF Inv, TypeOK

(* The frames when the current one has moved in its code.                  *)
Moved(pos, ops) == [frames EXCEPT ![1] = [@ EXCEPT !.ip = pos, !.ops = ops]]

LEMMA MovedLemma ==
  ASSUME Inv, status = "run", NEW U, frames \in Seq(FrameOf(U)), NEW ops \in Seq(U), NEW pos \in Operations(Code)
  PROVE  /\ Moved(pos, ops) \in Seq(FrameOf(U))
         /\ Len(Moved(pos, ops)) = Len(frames)
         /\ Moved(pos, ops) # <<>>
         /\ \A i \in DOMAIN Moved(pos, ops) : Stands(Moved(pos, ops)[i])
<1> DEFINE new == [frames[1] EXCEPT !.ip = pos, !.ops = ops]
           moved == Moved(pos, ops)
<1>1. Deep /\ 1 \in DOMAIN frames /\ Frame = frames[1] /\ Sound(Code, Count)
  BY FetchLemma
<1>2. pos \in Nat
  BY <1>1 DEF Sound
<1>3. frames[1] \in FrameOf(U)
  BY <1>1
<1>4. new \in FrameOf(U) /\ new.unit = frames[1].unit /\ new.ip = pos
  BY <1>2, <1>3 DEF FrameOf
<1>5. moved = [frames EXCEPT ![1] = new]
  BY DEF Moved
<1> HIDE DEF new, moved
<1>6. moved \in Seq(FrameOf(U)) /\ Len(moved) = Len(frames) /\ DOMAIN moved = DOMAIN frames
  BY <1>1, <1>4, <1>5
<1>7. ASSUME NEW i \in DOMAIN moved PROVE Stands(moved[i])
  <2>1. Stands(frames[i])
    BY <1>1, <1>6, <1>7 DEF Deep
  <2>2. CASE i = 1
    <3>1. moved[i] = new
      BY <1>1, <1>5, <2>2
    <3>2. Stands(frames[1])
      BY <2>1, <2>2
    <3>3. pos \in Operations(codes[frames[1].unit])
      BY <1>1 DEF Code
    <3> QED
      BY <1>4, <3>1, <3>2, <3>3 DEF Stands
  <2>3. CASE i # 1
    <3>1. moved[i] = frames[i]
      BY <1>5, <1>6, <1>7, <2>3
    <3> QED
      BY <2>1, <3>1
  <2> QED
    BY <2>2, <2>3
<1>8. moved # <<>>
  BY <1>1, <1>6
<1> QED
  BY <1>6, <1>7, <1>8 DEF moved

(* The current frame goes on, or somewhere else in its code.               *)
LEMMA MoveStep ==
  ASSUME Inv, status = "run", NEW T, Closed(T, Count), NEW ops \in Seq(T), NEW pos \in Operations(Code),
         frames' = Moved(pos, ops),
         scopes' = scopes \/ scopes' \in Seq(Seq(Local(T))), Len(scopes') = Len(scopes),
         UNCHANGED <<script, codes, status>>
  PROVE  Inv'
<1>1. Deep
  BY FetchLemma
<1>2. PICK S : Holds(S)
  BY <1>1 DEF Deep
<1> DEFINE U == S \cup T
<1>3. Closed(U, Count)
  BY <1>2, UnionLemma DEF Holds
<1>4. scopes' \in Seq(Seq(Local(U)))
  BY <1>2, LocalMonotone DEF Holds
<1>5. frames \in Seq(FrameOf(U)) /\ ops \in Seq(U)
  BY <1>2, FramesMonotone, SeqMonotone DEF Holds
<1> HIDE DEF U
<1>6. /\ frames' \in Seq(FrameOf(U)) /\ Len(frames') = Len(frames) /\ frames' # <<>>
      /\ \A i \in DOMAIN frames' : Stands(frames'[i])
  BY <1>5, MovedLemma
<1>7. Holds(U)'
  BY <1>3, <1>4, <1>6 DEF Holds, FrameOf, Count
<1>8. \A i \in DOMAIN frames' : Stands(frames[i])'
  BY <1>6 DEF Stands
<1>9. LambdasOK' /\ CodesOK'
  BY <1>1 DEF Deep, LambdasOK, CodesOK, Count
<1>10. Deep'
  BY <1>1, <1>6, <1>7, <1>8, <1>9 DEF Deep
<1> QED
  BY <1>10, RunTypes

LEMMA ContinueStep ==
  ASSUME Inv, status = "run", Fetched \in Ongoing, NEW ops, Values(ops, Count), Continue(ops)
  PROVE  Inv'
<1>1. NextPos(Code, Pos) \in Operations(Code)
  BY FetchLemma
<1>2. PICK T : Closed(T, Count) /\ ops \in Seq(T)
  BY DEF Values
<1>3. frames' = Moved(NextPos(Code, Pos), ops)
  BY DEF Continue, Behind, Moved
<1>4. UNCHANGED <<script, codes, scopes, status>>
  BY DEF Continue
<1> QED
  BY <1>1, <1>2, <1>3, <1>4, MoveStep

(* A unit is entered: in code that is there, or that has been made.        *)
LEMMA RunStep ==
  ASSUME Deep, NEW S, Closed(S, Count), scopes \in Seq(Seq(Local(S))),
         NEW u \in 0..Count, NEW locals \in Seq(Local(S)),
         NEW below \in Seq(FrameOf(S)), \A i \in DOMAIN below : Stands(below[i]),
         Len(scopes) = Len(below) + 1,
         Run(u, locals, below), LambdasOK', CodesOK', Count' = Count,
         \A v \in 0..Count : codes[v] # NotCompiled => codes'[v] = codes[v],
         codes'[u] # NotCompiled
  PROVE  Inv'
<1> DEFINE new == [unit |-> u, ip |-> 1, ops |-> <<>>]
<1>1. frames' = <<new>> \o below /\ scopes' = <<locals>> \o scopes /\ status' = "run"
  BY DEF Run
<1>2. new \in FrameOf(S) /\ new.unit = u /\ new.ip = 1
  BY DEF FrameOf
<1> HIDE DEF new
<1>3. /\ frames' \in Seq(FrameOf(S))
      /\ Len(frames') = Len(below) + 1
      /\ frames'[1] = new
      /\ \A i \in 2..Len(frames') : frames'[i] = below[i - 1] /\ i - 1 \in DOMAIN below
  BY <1>1, <1>2
<1>4. scopes' \in Seq(Seq(Local(S))) /\ Len(scopes') = Len(scopes) + 1
  BY <1>1
<1>5. Holds(S)'
  <2>1. FrameOf(S)' = FrameOf(S) /\ Closed(S, Count)'
    BY DEF FrameOf, Closed
  <2> QED
    BY <1>3, <1>4, <2>1 DEF Holds
<1>6. ASSUME NEW i \in DOMAIN frames' PROVE Stands(frames[i])'
  <2>1. i \in 1..Len(frames')
    BY <1>3, <1>6
  <2>2. CASE i = 1
    <3>1. Sound(codes'[u], Count)
      BY DEF CodesOK
    <3>2. 1 \in Operations(codes'[u])
      BY <3>1 DEF Sound
    <3> QED
      BY <1>2, <1>3, <2>2, <3>2 DEF Stands
  <2>3. CASE i # 1
    <3>1. frames'[i] = below[i - 1] /\ i - 1 \in DOMAIN below
      BY <1>3, <2>1, <2>3
    <3>2. Stands(below[i - 1]) /\ below[i - 1] \in FrameOf(S)
      BY <3>1
    <3>3. below[i - 1].unit \in 0..Count
      BY <3>2 DEF FrameOf
    <3> QED
      BY <3>1, <3>2, <3>3 DEF Stands
  <2> QED
    BY <2>2, <2>3
<1>7. frames' # <<>> /\ Len(scopes') = Len(frames') + 1
  BY <1>3, <1>4
<1>8. Deep'
  BY <1>1, <1>5, <1>6, <1>7 DEF Deep
<1> QED
  BY <1>1, <1>8, RunTypes

LEMMA EnterStep ==
  ASSUME Inv, ~Ended, NEW S, Closed(S, Count), scopes \in Seq(Seq(Local(S))),
         NEW u \in 0..Count, NEW locals \in Seq(Local(S)),
         NEW below \in Seq(FrameOf(S)), \A i \in DOMAIN below : Stands(below[i]),
         Len(scopes) = Len(below) + 1,
         NEW unit, NEW kind, NEW chain, Enter(u, unit, kind, chain, locals, below), CodeStep
  PROVE  Inv'
<1> DEFINE c == Compiled(script.macros, unit, kind, chain, pedantic)
<1>1. Deep /\ LambdasOK /\ CodesOK
  BY DEF Inv, Deep
<1>2. CASE codes[u] # NotCompiled
  <2>1. Run(u, locals, below) /\ UNCHANGED <<codes, script>>
    BY <1>2 DEF Enter
  <2>2. LambdasOK' /\ CodesOK' /\ Count' = Count
    BY <1>1, <2>1 DEF LambdasOK, CodesOK, Count
  <2> QED
    BY <1>1, <1>2, <2>1, <2>2, RunStep
<1>3. CASE codes[u] = NotCompiled /\ unit.body = <<>>
  BY <1>3, FailStep DEF Enter
<1>4. CASE codes[u] = NotCompiled /\ unit.body # <<>> /\ c.result.fail # Fine
  BY <1>4, FailStep DEF Enter, EnterCompiled
<1>5. CASE codes[u] = NotCompiled /\ unit.body # <<>> /\ c.result.fail = Fine
  <2>1. /\ codes' = [codes EXCEPT ![u] = c.result.code]
        /\ script' = [script EXCEPT !.macros = c.macros]
        /\ Run(u, locals, below)
    BY <1>5 DEF Enter, EnterCompiled
  <2> HIDE DEF c
  <2>2. script'.lambdas = script.lambdas /\ DOMAIN script' = DOMAIN script
    BY <1>1, <2>1 DEF LambdasOK
  <2>3. Count' = Count /\ LambdasOK'
    BY <1>1, <2>2 DEF LambdasOK, Count
  <2>4. Entered(u)'
    <3>1. frames' = <<[unit |-> u, ip |-> 1, ops |-> <<>>]>> \o below
      BY <2>1 DEF Run
    <3>2. <<[unit |-> u, ip |-> 1, ops |-> <<>>]>> \in Seq(FrameOf(S))
      BY DEF FrameOf
    <3>3. frames' # <<>> /\ Head(frames') = [unit |-> u, ip |-> 1, ops |-> <<>>]
      BY <3>1, <3>2
    <3> QED
      BY <3>3 DEF Entered
  <2>5. Sound(codes'[u], Count)
    BY <1>1, <1>5, <2>4 DEF CodeStep, CodesOK, Count
  <2>6. codes'[u] # NotCompiled
    <3>1. 1 \in DOMAIN codes'[u]
      BY <2>5 DEF Sound
    <3>2. 1 \notin DOMAIN NotCompiled
      BY DEF NotCompiled
    <3> QED
      BY <3>1, <3>2
  <2>7. CodesOK'
    BY <1>1, <2>1, <2>3, <2>5 DEF CodesOK
  <2>8. \A v \in 0..Count : codes[v] # NotCompiled => codes'[v] = codes[v]
    BY <1>1, <1>5, <2>1 DEF CodesOK
  <2> QED
    BY <1>1, <2>1, <2>3, <2>6, <2>7, <2>8, RunStep
<1> QED
  BY <1>2, <1>3, <1>4, <1>5

LEMMA ExecStep ==
  ASSUME Inv, Exec, CodeStep
  PROVE  Inv'
<1>1. status = "start" /\ Enter(0, script, "script", scopes, AddAll(<<>>, script.scope), <<>>)
  BY DEF Exec
<1>2. ~Ended /\ Deep /\ Starts
  BY <1>1 DEF Inv, Deep, Ended
<1>3. PICK S : Holds(S)
  BY <1>2 DEF Deep
<1>4. PICK T : Closed(T, Count) /\ AddAll(<<>>, script.scope) \in Seq(Local(T))
  BY <1>2 DEF Starts
<1> DEFINE U == S \cup T
<1>5. Closed(U, Count)
  BY <1>3, <1>4, UnionLemma DEF Holds
<1>6. scopes \in Seq(Seq(Local(U))) /\ AddAll(<<>>, script.scope) \in Seq(Local(U))
  BY <1>3, <1>4, LocalMonotone DEF Holds
<1>7. 0 \in 0..Count /\ Len(scopes) = 1
  BY <1>2 DEF Deep, LambdasOK, Starts
<1> DEFINE below == <<>>
           locals == AddAll(<<>>, script.scope)
<1>8. below \in Seq(FrameOf(U)) /\ (\A i \in DOMAIN below : Stands(below[i])) /\ Len(scopes) = Len(below) + 1
  BY <1>7
<1>9. locals \in Seq(Local(U)) /\ Enter(0, script, "script", scopes, locals, below)
  BY <1>1, <1>6
<1> HIDE DEF U, below, locals
<1> QED
  BY <1>2, <1>5, <1>6, <1>7, <1>8, <1>9, EnterStep

(***************************************************************************)
(* Operations                                                              *)
(***************************************************************************)

LEMMA NeedsLemma ==
  /\ Fetched \in Stores \cup Range(UnaryOps) \cup {"Jnz", "Lookup", "InvokeDynamic", "Cast", "Throw"} => Needs = 1
  /\ Fetched \in Range(BinaryOps) \cup {"Jne"} => Needs = 2
BY DEF Needs, At, Stores, Range, UnaryOps, BinaryOps

LEMMA TopLemma ==
  ASSUME Inv, status = "run", NEW k \in Nat, k <= Len(Stack)
  PROVE  /\ \A i \in 1..k : Good(Top(i), Count)
         /\ Values(Dropped(k), Count)
<1>1. Values(Stack, Count) /\ Len(Stack) \in Nat /\ \A i \in 1..Len(Stack) : Good(Stack[i], Count)
  BY FetchLemma, ValuesAt
<1>2. \A i \in 1..k : Len(Stack) + 1 - i \in 1..Len(Stack)
  BY <1>1
<1>3. k \in 0..Len(Stack)
  BY <1>1
<1> QED
  BY <1>1, <1>2, <1>3, ValuesSub DEF Top, Dropped

LEMMA PushStep ==
  ASSUME Inv, status = "run", Push
  PROVE  Inv'
<1>1. Fetched \in Pushes /\ Continue(Append(Stack, PushedValue(Code, Pos)))
  BY DEF Push, At
<1>2. Fetched = OpAt(Code, Pos) /\ Takes(Code, Pos, Count) /\ Values(Stack, Count)
  BY FetchLemma DEF Fetched
<1>3. CASE Fetched = "PushQ"
  <2>1. PushedValue(Code, Pos) = Code[Pos + 1]
    BY <1>2, <1>3 DEF PushedValue
  <2>2. Good(Code[Pos + 1], Count)
    BY <1>2, <1>3 DEF Takes, Good
  <2>3. Values(Append(Stack, PushedValue(Code, Pos)), Count)
    BY <1>2, <2>1, <2>2, ValuesAppend
  <2> QED
    BY <1>1, <2>3, ContinueStep DEF Ongoing
<1>4. CASE Fetched # "PushQ"
  <2>1. PushedValue(Code, Pos)[1] \in {"long", "bool"} \/ PushedValue(Code, Pos) = Null
    BY <1>1, <1>2, <1>4 DEF PushedValue, Pushes, Long, Bool
  <2>2. Good(PushedValue(Code, Pos), Count)
    BY <2>1, AtomLemma
  <2>3. Values(Append(Stack, PushedValue(Code, Pos)), Count)
    BY <1>2, <2>2, ValuesAppend
  <2> QED
    BY <1>1, <2>3, ContinueStep DEF Ongoing
<1> QED
  BY <1>3, <1>4

LEMMA LoadLocalStep ==
  ASSUME Inv, status = "run", LoadLocal
  PROVE  Inv'
<1> DEFINE i == LoadIndex(Code, Pos) + 1
<1>1. Fetched \in Loads
  BY DEF LoadLocal, At
<1>2. CASE i \notin DOMAIN Head(scopes) \/ ~HasValue(Head(scopes)[i])
  BY <1>2, FailStep DEF LoadLocal
<1>3. CASE i \in DOMAIN Head(scopes) /\ HasValue(Head(scopes)[i])
  <2>1. Continue(Append(Stack, Head(scopes)[i].value))
    BY <1>3 DEF LoadLocal
  <2> HIDE DEF i
  <2>2. PICK S : Holds(S)
    BY FetchLemma DEF Deep
  <2>3. Head(scopes) \in Seq(Local(S)) /\ Values(Stack, Count)
    BY <2>2, FetchLemma DEF Holds
  <2>4. Head(scopes)[i] \in Local(S)
    BY <1>3, <2>3
  <2>5. Good(Head(scopes)[i].value, Count)
    BY <2>2, <2>4 DEF Local, Holds, Good
  <2>6. Values(Append(Stack, Head(scopes)[i].value), Count)
    BY <2>3, <2>5, ValuesAppend
  <2> QED
    BY <1>1, <2>1, <2>6, ContinueStep DEF Ongoing
<1> QED
  BY <1>2, <1>3

LEMMA StoreLocalStep ==
  ASSUME Inv, status = "run", Len(Stack) >= Needs, StoreLocal
  PROVE  Inv'
<1> DEFINE i == StoreIndex(Code, Pos)
<1>1. Fetched \in Stores /\ 1 <= Len(Stack) /\ NextPos(Code, Pos) \in Operations(Code)
  BY NeedsLemma, FetchLemma DEF StoreLocal, At, Ongoing
<1>2. CASE i + 1 \notin DOMAIN Head(scopes)
  BY <1>2, FailStep DEF StoreLocal
<1>3. CASE i + 1 \in DOMAIN Head(scopes)
  <2>1. /\ frames' = Moved(NextPos(Code, Pos), Dropped(1))
        /\ scopes' = [scopes EXCEPT ![1] = SetValue(@, i, Top(1))]
        /\ UNCHANGED <<script, codes, status>>
    BY <1>3 DEF StoreLocal, Behind, Moved
  <2> HIDE DEF i
  <2>2. Good(Top(1), Count) /\ Values(Dropped(1), Count)
    BY <1>1, TopLemma
  <2>3. PICK S : Holds(S)
    BY FetchLemma DEF Deep
  <2>4. PICK T : Closed(T, Count) /\ Top(1) \in T
    BY <2>2 DEF Good
  <2>5. PICK R : Closed(R, Count) /\ Dropped(1) \in Seq(R)
    BY <2>2 DEF Values
  <2> DEFINE U == (S \cup T) \cup R
  <2>6. Closed(U, Count)
    BY <2>3, <2>4, <2>5, UnionLemma DEF Holds
  <2>7. Dropped(1) \in Seq(U) /\ Top(1) \in U
    BY <2>4, <2>5, SeqMonotone
  <2>8. scopes \in Seq(Seq(Local(U))) /\ scopes # <<>>
    BY <2>3, LocalMonotone, FetchLemma DEF Holds
  <2> HIDE DEF U
  <2>9. scopes[1] \in Seq(Local(U)) /\ 1 \in DOMAIN scopes
    BY <2>8
  <2>10. SetValue(scopes[1], i, Top(1)) \in Seq(Local(U))
    BY <2>7, <2>9, SetValueLemma
  <2>11. scopes' = [scopes EXCEPT ![1] = SetValue(scopes[1], i, Top(1))]
    BY <2>1
  <2>12. scopes' \in Seq(Seq(Local(U))) /\ Len(scopes') = Len(scopes)
    BY <2>8, <2>10, <2>11
  <2> QED
    BY <1>1, <2>1, <2>6, <2>7, <2>12, MoveStep
<1> QED
  BY <1>2, <1>3

(* The result of a binary operation is made of its operands.               *)
LEMMA BinaryLemma ==
  ASSUME NEW n, NEW op \in Range(BinaryOps), NEW x, NEW y, Good(x, n), Good(y, n)
  PROVE  Good(Binary(op, x, y), n)
<1>1. CASE op = "Cons"
  <2>1. Binary(op, x, y) = Pair(x, y)
    BY <1>1 DEF Binary, Arithmetic, Logic, Compares
  <2> QED
    BY <2>1, PairLemma
<1>2. CASE op # "Cons"
  <2>1. op \in Arithmetic \cup Logic \cup Compares \cup {"Equals", "InstanceOf"}
    BY <1>2 DEF Range, BinaryOps, Arithmetic, Logic, Compares
  <2>2. Arith(op, x, y)[1] = "long" \/ Arith(op, x, y) = Null
    BY DEF Arith, Long
  <2>3. Logical(op, x, y)[1] = "bool" \/ Logical(op, x, y) = Null
    BY DEF Logical, Bool
  <2>4. Compare(op, x, y)[1] = "bool"
    BY DEF Compare, Bool
  <2>5. \A b : Bool(b)[1] = "bool"
    BY DEF Bool
  <2>6. \/ Binary(op, x, y) \in {Arith(op, x, y), Logical(op, x, y), Compare(op, x, y)}
        \/ \E b : Binary(op, x, y) = Bool(b)
    BY <1>2, <2>1 DEF Binary, Arithmetic, Logic, Compares
  <2>7. Binary(op, x, y)[1] \in {"long", "bool"} \/ Binary(op, x, y) = Null
    BY <2>2, <2>3, <2>4, <2>5, <2>6
  <2> QED
    BY <2>7, AtomLemma
<1> QED
  BY <1>1, <1>2

LEMMA BinaryStep ==
  ASSUME Inv, status = "run", Len(Stack) >= Needs, ExecBinaryOp
  PROVE  Inv'
<1>1. Fetched \in Range(BinaryOps) /\ 2 <= Len(Stack)
  BY NeedsLemma DEF ExecBinaryOp, At
<1>2. CASE \E how \in {"fatal", "undefined"} : Fail(how)
  BY <1>2, FailStep
<1>3. CASE Continue(Append(Dropped(2), Binary(Fetched, Top(2), Top(1))))
  <2>1. Good(Top(2), Count) /\ Good(Top(1), Count) /\ Values(Dropped(2), Count)
    BY <1>1, TopLemma
  <2>2. Good(Binary(Fetched, Top(2), Top(1)), Count)
    BY <1>1, <2>1, BinaryLemma
  <2>3. Values(Append(Dropped(2), Binary(Fetched, Top(2), Top(1))), Count)
    BY <2>1, <2>2, ValuesAppend
  <2> QED
    BY <1>1, <1>3, <2>3, ContinueStep DEF Ongoing
<1> QED
  BY <1>2, <1>3 DEF ExecBinaryOp

LEMMA UnaryStep ==
  ASSUME Inv, status = "run", Len(Stack) >= Needs, ExecUnaryOp
  PROVE  Inv'
<1>1. Fetched \in Range(UnaryOps) /\ 1 <= Len(Stack)
  BY NeedsLemma DEF ExecUnaryOp, At
<1>2. CASE At({"Car", "Cdr"}) /\ ~IsPair(Top(1))
  BY <1>2, FailStep DEF ExecUnaryOp
<1>3. CASE ~(At({"Car", "Cdr"}) /\ ~IsPair(Top(1)))
  <2>1. Continue(Append(Dropped(1), Unary(Fetched, Top(1))))
    BY <1>3 DEF ExecUnaryOp
  <2>2. Good(Top(1), Count) /\ Values(Dropped(1), Count)
    BY <1>1, TopLemma
  <2>3. CASE Fetched \in {"Car", "Cdr"}
    <3>1. Good(Car(Top(1)), Count) /\ Good(Cdr(Top(1)), Count)
      BY <1>3, <2>2, <2>3, PartsLemma DEF At
    <3>2. Good(Unary(Fetched, Top(1)), Count)
      BY <2>3, <3>1 DEF Unary
    <3>3. Values(Append(Dropped(1), Unary(Fetched, Top(1))), Count)
      BY <2>2, <3>2, ValuesAppend
    <3> QED
      BY <1>1, <2>1, <3>3, ContinueStep DEF Ongoing
  <2>4. CASE Fetched \notin {"Car", "Cdr"}
    <3>1. Fetched \in {"Not", "Null", "Nonnull"}
      BY <1>1, <2>4 DEF Range, UnaryOps
    <3>2. Unary(Fetched, Top(1))[1] = "bool"
      BY <3>1 DEF Unary, Bool
    <3>3. Good(Unary(Fetched, Top(1)), Count)
      BY <3>2, AtomLemma
    <3>4. Values(Append(Dropped(1), Unary(Fetched, Top(1))), Count)
      BY <2>2, <3>3, ValuesAppend
    <3> QED
      BY <1>1, <2>1, <3>4, ContinueStep DEF Ongoing
  <2> QED
    BY <2>3, <2>4
<1> QED
  BY <1>2, <1>3

LEMMA GoToStep ==
  ASSUME Inv, status = "run", Fetched \in Jumps, NEW taken, NEW ops, Values(ops, Count), GoTo(taken, ops)
  PROVE  Inv'
<1>1. PICK T : Closed(T, Count) /\ ops \in Seq(T)
  BY DEF Values
<1>2. Fetched \in Ongoing
  BY DEF Ongoing
<1>3. CASE taken /\ ~HasOffset(Code, Pos)
  BY <1>3, FailStep DEF GoTo
<1>4. CASE taken /\ HasOffset(Code, Pos)
  <2>1. JumpTarget(Code, Pos) \in Operations(Code)
    BY <1>4, FetchLemma
  <2>2. frames' = Moved(JumpTarget(Code, Pos), ops) /\ UNCHANGED <<script, codes, scopes, status>>
    BY <1>4 DEF GoTo, Moved
  <2> QED
    BY <1>1, <2>1, <2>2, MoveStep
<1>5. CASE ~taken
  <2>1. Continue(ops)
    BY <1>5 DEF GoTo, Continue
  <2> QED
    BY <1>2, <2>1, ContinueStep
<1> QED
  BY <1>3, <1>4, <1>5

LEMMA JumpStep ==
  ASSUME Inv, status = "run", Len(Stack) >= Needs, ExecJump
  PROVE  Inv'
<1>1. CASE At({"Jump"}) /\ GoTo(TRUE, Stack)
  <2>1. Fetched \in Jumps /\ Values(Stack, Count)
    BY <1>1, FetchLemma DEF At, Jumps
  <2> QED
    BY <1>1, <2>1, GoToStep
<1>2. CASE At({"Jnz"}) /\ GoTo(~Truth(Top(1)), Dropped(1))
  <2>1. Fetched = "Jnz"
    BY <1>2 DEF At
  <2>2. Fetched \in Jumps /\ Values(Dropped(1), Count)
    BY <2>1, NeedsLemma, TopLemma DEF Jumps
  <2> QED
    BY <1>2, <2>2, GoToStep
<1>3. CASE At({"Jne"}) /\ SameUndefined(Top(2), Top(1))
  BY <1>3, FailStep DEF ExecJump, At
<1>4. CASE At({"Jne"}) /\ ~SameUndefined(Top(2), Top(1)) /\ GoTo(~Same(Top(2), Top(1)), Dropped(2))
  <2>1. Fetched = "Jne"
    BY <1>4 DEF At
  <2>2. Fetched \in Jumps /\ Values(Dropped(2), Count)
    BY <2>1, NeedsLemma, TopLemma DEF Jumps
  <2> QED
    BY <1>4, <2>2, GoToStep
<1> QED
  BY <1>1, <1>2, <1>3, <1>4 DEF ExecJump

LEMMA OtherStep ==
  ASSUME Inv, status = "run", Len(Stack) >= Needs, CheckInstance \/ Cast \/ Throw
  PROVE  Inv'
<1>1. CASE \E how \in {"fatal", "thrown", "undefined"} : Fail(how)
  BY <1>1, FailStep
<1>2. CASE At({"CheckInstance"}) /\ Continue(Stack)
  <2>1. Fetched \in Ongoing /\ Values(Stack, Count)
    BY <1>2, FetchLemma DEF At, Ongoing
  <2> QED
    BY <1>2, <2>1, ContinueStep
<1>3. CASE At({"Cast"}) /\ Continue(Dropped(1))
  <2>1. Fetched = "Cast"
    BY <1>3 DEF At
  <2>2. Fetched \in Ongoing /\ Values(Dropped(1), Count)
    BY <2>1, NeedsLemma, TopLemma DEF Ongoing
  <2> QED
    BY <1>3, <2>2, ContinueStep
<1> QED
  BY <1>1, <1>2, <1>3 DEF CheckInstance, Cast, Throw

LEMMA NewStep ==
  ASSUME Inv, status = "run", New
  PROVE  Inv'
<1> DEFINE k == Operand(2)[2]
           value == NewInstance(Operand(1)[2], PopN(k).args)
<1>1. Fetched = "New" /\ Values(Stack, Count)
  BY FetchLemma DEF New, At
<1>2. k \in Nat
  BY <1>1, FetchLemma DEF Takes, Fetched, Operand
<1>3. CASE value = Abort
  BY <1>3, FailStep DEF New
<1>4. CASE value # Abort
  <2>1. Continue(Append(PopN(k).left, value))
    BY <1>4 DEF New
  <2>2. value[1] \in {"error", "bool"} \/ value = Null
    BY <1>4 DEF NewInstance, Error, Bool
  <2> HIDE DEF value
  <2>3. Good(value, Count)
    BY <2>2, AtomLemma
  <2> DEFINE missing == IF k > Len(Stack) THEN k - Len(Stack) ELSE 0
  <2>4. PopN(k).left = Dropped(k - missing)
    BY DEF PopN
  <2>5. Len(Stack) \in Nat
    BY <1>1, ValuesAt
  <2>6. k - missing \in Nat /\ k - missing <= Len(Stack)
    BY <1>2, <2>5
  <2>7. Values(PopN(k).left, Count)
    BY <2>4, <2>6, TopLemma
  <2>8. Values(Append(PopN(k).left, value), Count)
    BY <2>3, <2>7, ValuesAppend
  <2> QED
    BY <1>1, <2>1, <2>8, ContinueStep DEF Ongoing
<1> QED
  BY <1>3, <1>4

LEMMA LookupStep ==
  ASSUME Inv, status = "run", Len(Stack) >= Needs, PopLookup
  PROVE  Inv'
<1> DEFINE name == Top(1)[2]
           value == IF HasValueIn(scopes, name) THEN Lookup(scopes, name).value ELSE Null
<1>1. Fetched = "Lookup" /\ 1 <= Len(Stack)
  BY NeedsLemma DEF PopLookup, At
<1>2. CASE ~IsSymbol(Top(1))
  BY <1>2, FailStep DEF PopLookup
<1>3. CASE IsSymbol(Top(1))
  <2>1. Continue(Append(Dropped(1), value))
    BY <1>3 DEF PopLookup
  <2>2. PICK S : Holds(S)
    BY FetchLemma DEF Deep
  <2> HIDE DEF name
  <2>3. Good(value, Count)
    <3>1. CASE HasValueIn(scopes, name)
      BY <2>2, <3>1, LookupLemma DEF HasValueIn, Holds, Good
    <3>2. CASE ~HasValueIn(scopes, name)
      BY <3>2, AtomLemma
    <3> QED
      BY <3>1, <3>2
  <2> HIDE DEF value
  <2>4. Values(Append(Dropped(1), value), Count)
    BY <1>1, <2>3, TopLemma, ValuesAppend
  <2> QED
    BY <1>1, <2>1, <2>4, ContinueStep DEF Ongoing
<1> QED
  BY <1>2, <1>3

(***************************************************************************)
(* Calls                                                                   *)
(***************************************************************************)

LEMMA CallLambdaStep ==
  ASSUME Inv, status = "run", CodeStep, Fetched \in Ongoing,
         NEW id \in 1..Count, NEW k \in Nat, NEW ops, Values(ops, Count), CallLambda(id, k, ops)
  PROVE  Inv'
<1> DEFINE lambda == script.lambdas[id]
           args == Arguments(lambda.args, k, ops)
           left == Remaining(lambda.args, k, ops)
           locals == Locals(id, lambda, args)
           pos == NextPos(Code, Pos)
<1>1. Deep /\ pos \in Operations(Code)
  BY FetchLemma
<1>2. lambda.name \in Name /\ lambda.args \in Seq(Parameter) /\ Count \in Nat
  BY <1>1 DEF Deep, LambdasOK
<1>3. CASE ~Callable(lambda.args, k, ops)
  BY <1>3, FailStep DEF CallLambda, CallFails
<1>4. CASE Callable(lambda.args, k, ops) /\ Len(args) < Len(lambda.args)
  BY <1>4, FailStep DEF CallLambda
<1>5. CASE Callable(lambda.args, k, ops) /\ ~(Len(args) < Len(lambda.args))
  <2>1. Enter(id, lambda, "lambda", <<locals>> \o scopes, locals, Moved(pos, left))
    BY <1>5 DEF CallLambda, CallWithLocals, Behind, Moved
  <2> HIDE DEF pos, lambda
  <2>2. Values(args, Count) /\ Values(left, Count)
    BY <1>2, <1>5, ArgumentsLemma
  <2> HIDE DEF args, left
  <2>3. Len(lambda.args) <= Len(args)
    BY <1>2, <1>5, <2>2, ValuesAt
  <2>4. PICK T : Closed(T, Count) /\ locals \in Seq(Local(T))
    BY <1>2, <2>2, <2>3, LocalsLemma
  <2>5. PICK R : Closed(R, Count) /\ left \in Seq(R)
    BY <2>2 DEF Values
  <2>6. PICK S : Holds(S)
    BY <1>1 DEF Deep
  <2> HIDE DEF locals
  <2> DEFINE U == (S \cup T) \cup R
  <2>7. Closed(U, Count)
    BY <2>4, <2>5, <2>6, UnionLemma DEF Holds
  <2>8. locals \in Seq(Local(U)) /\ scopes \in Seq(Seq(Local(U)))
    BY <2>4, <2>6, LocalMonotone DEF Holds
  <2>9. left \in Seq(U) /\ frames \in Seq(FrameOf(U))
    BY <2>5, <2>6, SeqMonotone, FramesMonotone DEF Holds
  <2> HIDE DEF U
  <2> DEFINE below == Moved(pos, left)
  <2>10. /\ below \in Seq(FrameOf(U)) /\ Len(below) = Len(frames)
         /\ \A i \in DOMAIN below : Stands(below[i])
    BY <1>1, <2>9, MovedLemma
  <2>11. Len(scopes) = Len(below) + 1 /\ ~Ended /\ id \in 0..Count
    BY <1>1, <1>2, <2>10 DEF Deep, Ended
  <2> HIDE DEF below
  <2>12. Enter(id, lambda, "lambda", <<locals>> \o scopes, locals, below)
    BY <2>1 DEF below
  <2> QED
    BY <2>7, <2>8, <2>10, <2>11, <2>12, EnterStep
<1> QED
  BY <1>3, <1>4, <1>5

LEMMA CallNativeStep ==
  ASSUME Inv, status = "run", Fetched \in Ongoing,
         NEW name \in DOMAIN NativeArgs, NEW k \in Nat, NEW ops, Values(ops, Count), CallNative(name, k, ops)
  PROVE  Inv'
<1> DEFINE params == NativeArgs[name]
           args == Arguments(params, k, ops)
           result == IF name = "print" THEN Null ELSE ToList(args)
           new == Append(Remaining(params, k, ops), result)
           pos == NextPos(Code, Pos)
<1>1. pos \in Operations(Code)
  BY FetchLemma
<1>2. params \in Seq(Parameter)
  <2>1. Argument("value") \in Parameter /\ Vararg("values") \in Parameter
    BY NameAssumption DEF Parameter, Argument, Vararg
  <2>2. params = <<Argument("value")>> \/ params = <<Vararg("values")>>
    BY DEF NativeArgs
  <2>3. <<Argument("value")>> \in Seq(Parameter) /\ <<Vararg("values")>> \in Seq(Parameter)
    BY <2>1
  <2> HIDE DEF params
  <2> QED
    BY <2>2, <2>3
<1>3. CASE ~Callable(params, k, ops)
  BY <1>3, FailStep DEF CallNative, CallFails
<1>4. CASE Callable(params, k, ops)
  <2>1. frames' = Moved(pos, new) /\ UNCHANGED <<script, codes, scopes, status>>
    BY <1>4 DEF CallNative, Behind, Moved
  <2> HIDE DEF pos, params
  <2>2. Values(args, Count) /\ Values(Remaining(params, k, ops), Count)
    BY <1>2, <1>4, ArgumentsLemma
  <2>3. Good(result, Count)
    BY <2>2, ToListLemma, AtomLemma
  <2> HIDE DEF result
  <2>4. Values(new, Count)
    BY <2>2, <2>3, ValuesAppend
  <2> HIDE DEF new
  <2>5. PICK T : Closed(T, Count) /\ new \in Seq(T)
    BY <2>4 DEF Values
  <2> QED
    BY <1>1, <2>1, <2>5, MoveStep
<1> QED
  BY <1>3, <1>4

LEMMA InvokeStep ==
  ASSUME Inv, status = "run", Len(Stack) >= Needs, CodeStep, Invoke \/ InvokeNative \/ InvokeDynamic
  PROVE  Inv'
<1>1. Takes(Code, Pos, Count) /\ Values(Stack, Count) /\ Fetched = OpAt(Code, Pos)
  BY FetchLemma DEF Fetched
<1>2. CASE Invoke
  <2>1. Fetched = "Invoke" /\ CallLambda(Operand(1)[2], Operand(2)[2], Stack)
    BY <1>2 DEF Invoke, At
  <2>2. Operand(1)[2] \in 1..Count /\ Operand(2)[2] \in Nat
    BY <1>1, <2>1 DEF Takes, Operand
  <2> QED
    BY <1>1, <2>1, <2>2, CallLambdaStep DEF Ongoing
<1>3. CASE InvokeNative
  <2>1. Fetched = "InvokeNative" /\ CallNative(Operand(1)[2], Operand(2)[2], Stack)
    BY <1>3 DEF InvokeNative, At
  <2>2. Operand(1)[2] \in DOMAIN NativeArgs /\ Operand(2)[2] \in Nat
    BY <1>1, <2>1 DEF Takes, Operand
  <2> QED
    BY <1>1, <2>1, <2>2, CallNativeStep DEF Ongoing
<1>4. CASE InvokeDynamic
  <2>1. Fetched = "InvokeDynamic"
    BY <1>4 DEF InvokeDynamic, At
  <2>2. Good(Top(1), Count) /\ Values(Dropped(1), Count)
    BY <2>1, NeedsLemma, TopLemma
  <2>3. Operand(1)[2] \in Nat
    BY <1>1, <2>1 DEF Takes, Operand
  <2>4. CASE Top(1)[1] = "lambda"
    <3>1. CallLambda(Top(1)[2], Operand(1)[2], Dropped(1))
      BY <1>4, <2>4 DEF InvokeDynamic
    <3>2. Top(1)[2] \in 1..Count
      BY <2>2, <2>4, PartsLemma
    <3> QED
      BY <2>1, <2>2, <2>3, <3>1, <3>2, CallLambdaStep DEF Ongoing
  <2>5. CASE Top(1)[1] = "native"
    <3>1. CallNative(Top(1)[2], Operand(1)[2], Dropped(1))
      BY <1>4, <2>5 DEF InvokeDynamic
    <3>2. Top(1)[2] \in DOMAIN NativeArgs
      BY <2>2, <2>5, PartsLemma
    <3> QED
      BY <2>1, <2>2, <2>3, <3>1, <3>2, CallNativeStep DEF Ongoing
  <2>6. CASE Top(1)[1] \notin {"lambda", "native"}
    <3>1. Fail("thrown")
      BY <1>4, <2>6 DEF InvokeDynamic
    <3> QED
      BY <3>1, FailStep
  <2> QED
    BY <2>4, <2>5, <2>6
<1> QED
  BY <1>2, <1>3, <1>4

LEMMA ReturnStep ==
  ASSUME Inv, status = "run", Return
  PROVE  Inv'
<1> DEFINE result == IF Stack = <<>> THEN Null ELSE Top(1)
           below == Tail(frames)
<1>1. Deep /\ frames # <<>> /\ scopes # <<>> /\ Values(Stack, Count)
  BY FetchLemma
<1>2. PICK S : Holds(S)
  BY <1>1 DEF Deep
<1>3. /\ below \in Seq(FrameOf(S)) /\ Len(below) = Len(frames) - 1
      /\ \A i \in 1..Len(below) : below[i] = frames[i + 1] /\ i + 1 \in DOMAIN frames
  BY <1>1, <1>2 DEF Holds
<1>4. \A i \in DOMAIN below : Stands(below[i])
  BY <1>1, <1>3 DEF Deep
<1>5. scopes' = Tail(scopes) /\ scopes' \in Seq(Seq(Local(S))) /\ Len(scopes') = Len(scopes) - 1
  BY <1>1, <1>2 DEF Return, LeaveScope, Holds
<1>6. Len(scopes') = Len(below) + 1 /\ Len(frames) \in Nat /\ Len(below) \in Nat
  BY <1>1, <1>2, <1>3, <1>5 DEF Deep, Holds
<1>7. UNCHANGED <<script, codes>>
  BY DEF Return
<1>8. CASE below = <<>>
  <2>1. frames' = <<>> /\ status' = "done"
    BY <1>8 DEF Return
  <2>2. Len(scopes') = Len(frames') + 1
    BY <1>6, <1>8, <2>1
  <2> QED
    BY <2>1, <2>2 DEF Inv, TypeOK, Ended
<1>9. CASE below # <<>>
  <2>1. frames' = [below EXCEPT ![1].ops = Append(@, result)] /\ status' = "run"
    BY <1>9 DEF Return
  <2>2. Good(result, Count)
    <3>1. CASE Stack = <<>>
      BY <3>1, AtomLemma
    <3>2. CASE Stack # <<>>
      <4>1. Len(Stack) \in Nat /\ Len(Stack) # 0
        BY <1>1, <3>2 DEF Values
      <4>2. Good(Top(1), Count)
        BY <4>1, TopLemma
      <4> QED
        BY <3>2, <4>2
    <3> QED
      BY <3>1, <3>2
  <2> HIDE DEF result
  <2>3. PICK T : Closed(T, Count) /\ result \in T
    BY <2>2 DEF Good
  <2> DEFINE U == S \cup T
             new == [below[1] EXCEPT !.ops = Append(@, result)]
  <2>4. Closed(U, Count) /\ result \in U
    BY <1>2, <2>3, UnionLemma DEF Holds
  <2>5. below \in Seq(FrameOf(U)) /\ scopes' \in Seq(Seq(Local(U)))
    BY <1>3, <1>5, FramesMonotone, LocalMonotone
  <2> HIDE DEF U, below
  <2>6. 1 \in DOMAIN below /\ below[1] \in FrameOf(U)
    BY <1>9, <2>5
  <2>7. new \in FrameOf(U) /\ new.unit = below[1].unit /\ new.ip = below[1].ip
    BY <2>4, <2>6 DEF FrameOf
  <2>8. frames' = [below EXCEPT ![1] = new]
    BY <2>1
  <2> HIDE DEF new
  <2>9. frames' \in Seq(FrameOf(U)) /\ Len(frames') = Len(below) /\ DOMAIN frames' = DOMAIN below /\ frames' # <<>>
    BY <2>5, <2>6, <2>7, <2>8
  <2>10. Holds(U)'
    BY <1>7, <2>4, <2>5, <2>9 DEF Holds, FrameOf, Count
  <2>11. ASSUME NEW i \in DOMAIN frames' PROVE Stands(frames[i])'
    <3>1. Stands(below[i])
      BY <1>4, <2>9, <2>11
    <3>2. frames'[i].unit = below[i].unit /\ frames'[i].ip = below[i].ip
      BY <2>6, <2>7, <2>8, <2>9, <2>11
    <3> QED
      BY <1>7, <3>1, <3>2 DEF Stands
  <2>12. LambdasOK' /\ CodesOK'
    BY <1>1, <1>7 DEF Deep, LambdasOK, CodesOK, Count
  <2>13. Deep'
    BY <1>6, <2>1, <2>9, <2>10, <2>11, <2>12 DEF Deep
  <2> QED
    BY <2>1, <2>13, RunTypes
<1> QED
  BY <1>8, <1>9

(***************************************************************************)
(* The script                                                              *)
(***************************************************************************)

LEMMA InitLemma == Init => Inv
<1> SUFFICES ASSUME Init PROVE Inv
  OBVIOUS
<1>1. PICK source \in Programs :
        /\ script = Parsed(<<InitScope>>, source)
        /\ codes = [u \in 0..Count |-> NotCompiled]
        /\ frames = <<>> /\ scopes = <<InitScope>>
        /\ status = IF script.dead = Fine THEN "start" ELSE script.dead
  BY DEF Init, Count
<1>2. /\ {"lambdas", "macros"} \subseteq DOMAIN script
      /\ script.dead \in {Fine, "fatal", "undefined"}
      /\ script.dead = Fine => Complete(script)
  BY <1>1, ParserAssumption
<1>3. status = "start" \/ Ended
  BY <1>1, <1>2 DEF Ended
<1>4. Len(scopes) = Len(frames) + 1 /\ DOMAIN frames = {}
  BY <1>1
<1>5. TypeOK
  <2>1. status # "run"
    BY <1>3 DEF Ended
  <2> QED
    BY <1>3, <1>4, <2>1 DEF TypeOK
<1>6. ASSUME ~Ended PROVE Deep
  <2>1. Complete(script) /\ status = "start"
    BY <1>1, <1>2, <1>3, <1>6 DEF Ended
  <2> DEFINE scope == AddAll(<<>>, script.scope)
             S == UNION {Parts(scope[i].value) : i \in DOMAIN scope}
  <2>2. LambdasOK /\ scope \in Seq(Local(S)) /\ Closed(S, Count)
    BY <1>2, <2>1 DEF Complete, LambdasOK, Count
  <2> HIDE DEF scope, S
  <2>3. Starts
    BY <1>1, <2>2 DEF Starts, scope
  <2>4. CodesOK
    BY <1>1 DEF CodesOK
  <2>5. \E T : Holds(T)
    <3> DEFINE T == {<<"native", "print">>, <<"native", "list">>}
    <3>1. Closed(T, Count)
      BY DEF Closed, NativeArgs, IsPair
    <3> DEFINE print == [name |-> "print", index |-> 0, value |-> <<"native", "print">>]
               list == [name |-> "list", index |-> 1, value |-> <<"native", "list">>]
    <3>2. InitScope \in Seq(Local(T))
      <4>1. print \in Local(T) /\ list \in Local(T)
        BY NameAssumption DEF Local
      <4>2. InitScope = <<print, list>>
        BY DEF InitScope
      <4> HIDE DEF print, list
      <4> QED
        BY <4>1, <4>2
    <3>3. scopes \in Seq(Seq(Local(T)))
      BY <1>1, <3>2
    <3>4. frames \in Seq(FrameOf(T))
      BY <1>1
    <3> QED
      BY <3>1, <3>3, <3>4 DEF Holds
  <2> QED
    BY <1>4, <2>1, <2>2, <2>3, <2>4, <2>5 DEF Deep
<1> QED
  BY <1>5, <1>6 DEF Inv

LEMMA NextLemma == Inv /\ [Next]_vars /\ [CodeStep]_vars => Inv'
<1> SUFFICES ASSUME Inv, [Next]_vars, [CodeStep]_vars PROVE Inv'
  OBVIOUS
<1>1. CASE UNCHANGED vars
  BY <1>1 DEF Inv, TypeOK, Ended, Deep, LambdasOK, CodesOK, Holds, FrameOf, Stands, Starts, Count, vars
<1>2. CASE CodeStep /\ Exec
  BY <1>2, ExecStep
<1>3. CASE CodeStep /\ Interpret
  <2>1. status = "run"
    BY <1>3 DEF Interpret
  <2>2. CASE Len(Stack) < Needs
    BY <1>3, <2>2, FailStep DEF Interpret
  <2>3. CASE ~(Len(Stack) < Needs)
    <3>1. Len(Stack) >= Needs
      BY <2>1, <2>3, FetchLemma, ValuesAt DEF Needs
    <3> QED
      BY <1>3, <2>1, <2>3, <3>1, PushStep, LoadLocalStep, StoreLocalStep, BinaryStep, UnaryStep, JumpStep,
         OtherStep, NewStep, InvokeStep, LookupStep, ReturnStep DEF Interpret
  <2> QED
    BY <2>2, <2>3
<1> QED
  BY <1>1, <1>2, <1>3 DEF Next, Step

(* Whatever the script: as long as the compiler makes sound code, each     *)
(* frame stands at an operation of the code of its unit, and has a scope   *)
(* of its own (Runtime::Call, Interpreter::Run).  No jump, call, return or *)
(* failure is an exception.                                                *)
THEOREM Types == Spec /\ CodeSound => []TypeOK
<1>1. Inv => TypeOK
  BY DEF Inv
<1> QED
  BY InitLemma, NextLemma, <1>1, PTL DEF Spec, CodeSound, CodeStep

(***************************************************************************)
(* Arguments of calls                                                      *)
(***************************************************************************)

(* A step that adds a frame has entered a unit.                            *)
LEMMA EnteredLemma ==
  ASSUME NEW u, NEW unit, NEW kind, NEW chain, NEW locals, NEW below, Enter(u, unit, kind, chain, locals, below),
         frames' # frames
  PROVE  Run(u, locals, below)
BY DEF Enter, EnterCompiled, Fail

LEMMA CallPasses ==
  ASSUME Inv, status = "run", Fetched \in Ongoing, NEW id \in 1..Count, NEW k \in Nat, NEW ops, Values(ops, Count),
         CallLambda(id, k, ops), Len(frames') > Len(frames)
  PROVE  Passes(script.lambdas[id], k, ops)
<1> DEFINE lambda == script.lambdas[id]
           params == lambda.args
           args == Arguments(params, k, ops)
           left == Remaining(params, k, ops)
           locals == Locals(id, lambda, args)
           pos == NextPos(Code, Pos)
           taken == IF k < Len(params) THEN k ELSE Len(params)
<1>1. Deep /\ pos \in Operations(Code)
  BY FetchLemma
<1>2. lambda.name \in Name /\ params \in Seq(Parameter) /\ Count \in Nat
  BY <1>1 DEF Deep, LambdasOK
<1>3. frames' # frames
  <2>1. PICK S : Holds(S)
    BY <1>1 DEF Deep
  <2>2. Len(frames) \in Nat
    BY <2>1 DEF Holds
  <2> QED
    BY <2>2
<1>4. Callable(params, k, ops) /\ ~(Len(args) < Len(params))
  BY <1>3 DEF CallLambda, CallFails, Fail
<1>5. Enter(id, lambda, "lambda", <<locals>> \o scopes, locals, Moved(pos, left))
  BY <1>4 DEF CallLambda, CallWithLocals, Behind, Moved
<1> HIDE DEF pos, lambda
<1>6. Run(id, locals, Moved(pos, left))
  BY <1>3, <1>5, EnteredLemma
<1>7. Values(args, Count) /\ Values(left, Count)
  BY <1>2, <1>4, ArgumentsLemma
<1>8. Len(params) \in Nat /\ Len(args) \in Nat
  BY <1>2, <1>7, ValuesAt
<1>9. /\ \E S : Closed(S, Count) /\ locals \in Seq(Local(S))
      /\ Len(locals) = Len(params) + 1
      /\ \A i \in 1..Len(params) : locals[i + 1].value = args[i]
  <2>1. Len(params) <= Len(args)
    BY <1>4, <1>8
  <2> HIDE DEF args
  <2> QED
    BY <1>2, <1>7, <2>1, LocalsLemma
<1>10. ASSUME \A i \in DOMAIN params : ~IsVararg(params[i])
       PROVE  /\ taken \in 0..Len(ops)
              /\ \A i \in 1..taken : args[i] = ops[Len(ops) - taken + i]
              /\ \A i \in (taken + 1)..Len(params) : args[i] = Null
              /\ left = SubSeq(ops, 1, Len(ops) - taken)
  <2>1. \A i \in 1..Len(params) : ~IsVararg(params[i])
    BY <1>2, <1>10
  <2>2. params \in Seq(Parameter) /\ Callable(params, k, ops)
    BY <1>2, <1>4
  <2> HIDE DEF params
  <2>3. Passing(params, k, ops)
    BY <2>1, <2>2, PassingLemma
  <2> QED
    BY <2>3 DEF Passing
<1> HIDE DEF args, locals, left
<1>11. Head(scopes') = locals
  <2>1. scopes' = <<locals>> \o scopes
    BY <1>6 DEF Run
  <2>2. PICK S : Holds(S)
    BY <1>1 DEF Deep
  <2>3. PICK T : locals \in Seq(Local(T))
    BY <1>9
  <2>4. scopes \in Seq(Seq(Local(S \cup T))) /\ locals \in Seq(Local(S \cup T))
    BY <2>2, <2>3, LocalMonotone DEF Holds
  <2> QED
    BY <2>1, <2>4
<1>12. frames'[2].ops = left
  <2> DEFINE new == [unit |-> id, ip |-> 1, ops |-> <<>>]
             moved == Moved(pos, left)
  <2>1. frames' = <<new>> \o moved
    BY <1>6 DEF Run
  <2>2. PICK S : Holds(S)
    BY <1>1 DEF Deep
  <2>3. PICK T : left \in Seq(T)
    BY <1>7 DEF Values
  <2>4. frames \in Seq(FrameOf(S \cup T)) /\ left \in Seq(S \cup T)
    BY <2>2, <2>3, SeqMonotone, FramesMonotone DEF Holds
  <2>5. moved \in Seq(FrameOf(S \cup T)) /\ Len(moved) = Len(frames) /\ moved # <<>>
    BY <1>1, <2>4, MovedLemma
  <2>6. moved[1].ops = left
    <3>1. 1 \in DOMAIN frames /\ frames[1] \in FrameOf(S \cup T)
      BY <2>4, FetchLemma
    <3>2. moved[1] = [frames[1] EXCEPT !.ip = pos, !.ops = left]
      BY <3>1 DEF Moved
    <3> QED
      BY <3>1, <3>2 DEF FrameOf
  <2>7. new \in FrameOf(S \cup T)
    BY <1>2 DEF FrameOf
  <2> HIDE DEF new, moved
  <2>8. frames'[2] = moved[1]
    BY <2>1, <2>5, <2>7
  <2> QED
    BY <2>6, <2>8
<1>13. ASSUME \A i \in DOMAIN params : ~IsVararg(params[i]) PROVE Passed(params, k, ops)
  <2>1. ASSUME NEW i \in 1..Len(params)
        PROVE  Head(scopes')[i + 1].value = IF i <= taken THEN ops[Len(ops) - taken + i] ELSE Null
    <3>1. Head(scopes')[i + 1].value = args[i]
      BY <1>9, <1>11
    <3>2. taken \in Nat
      BY <1>8
    <3> HIDE DEF taken
    <3>3. i \in 1..taken \/ (i \in (taken + 1)..Len(params) /\ ~(i <= taken))
      BY <1>8, <3>2
    <3> QED
      BY <1>10, <1>13, <3>1, <3>3
  <2>2. frames'[2].ops = SubSeq(ops, 1, Len(ops) - taken)
    BY <1>10, <1>12, <1>13
  <2> QED
    BY <2>1, <2>2 DEF Passed
<1> QED
  BY <1>13 DEF Passes, lambda

(* The call of a native adds no frame.                                     *)
LEMMA BehindLength ==
  ASSUME Inv, status = "run", NEW ops
  PROVE  Len(Behind(ops)) = Len(frames) /\ ~(Len(frames) > Len(frames))
<1>1. PICK S : Holds(S)
  BY FetchLemma DEF Deep
<1>2. Len(frames) \in Nat /\ DOMAIN frames = 1..Len(frames)
  BY <1>1 DEF Holds
<1>3. DOMAIN Behind(ops) = 1..Len(frames)
  BY <1>2 DEF Behind
<1> QED
  BY <1>2, <1>3

(* A frame is added by a call only.                                        *)
LEMMA InterpretLemma ==
  ASSUME Inv, Interpret, Len(frames') > Len(frames)
  PROVE  /\ Len(Stack) >= Needs
         /\ Fetched = "Invoke" => Invoke
         /\ Fetched = "InvokeDynamic" => InvokeDynamic
<1>1. status = "run"
  BY DEF Interpret
<1>2. Len(Stack) \in Nat /\ Needs \in {0, 1, 2}
  BY <1>1, FetchLemma, ValuesAt DEF Needs
<1>3. ~(Len(frames) > Len(frames))
  <2>1. PICK S : Holds(S)
    BY <1>1, FetchLemma DEF Deep
  <2>2. Len(frames) \in Nat
    BY <2>1 DEF Holds
  <2> QED
    BY <2>2
<1>4. ~(Len(Stack) < Needs)
  BY <1>3 DEF Interpret, Fail
<1>5. Len(Stack) >= Needs
  BY <1>2, <1>4
<1>6. CASE Push \/ LoadLocal \/ StoreLocal
  <2>1. Fetched \in Pushes \cup Loads \cup Stores
    BY <1>6 DEF Push, LoadLocal, StoreLocal, At
  <2> QED
    BY <1>5, <2>1 DEF Pushes, Loads, Stores
<1>7. CASE ExecBinaryOp \/ ExecUnaryOp
  <2>1. Fetched \in Range(BinaryOps) \cup Range(UnaryOps)
    BY <1>7 DEF ExecBinaryOp, ExecUnaryOp, At
  <2> QED
    BY <1>5, <2>1 DEF Range, BinaryOps, UnaryOps
<1>8. CASE ExecJump \/ CheckInstance \/ Cast \/ New \/ Throw \/ InvokeNative \/ PopLookup \/ Return
  <2>1. Fetched \in {"Jump", "Jnz", "Jne", "CheckInstance", "Cast", "New", "Throw", "InvokeNative", "Lookup", "Ret"}
    BY <1>8 DEF ExecJump, CheckInstance, Cast, New, Throw, InvokeNative, PopLookup, Return, At
  <2> QED
    BY <1>5, <2>1
<1>9. CASE Invoke
  <2>1. Fetched = "Invoke"
    BY <1>9 DEF Invoke, At
  <2> QED
    BY <1>5, <1>9, <2>1
<1>10. CASE InvokeDynamic
  <2>1. Fetched = "InvokeDynamic"
    BY <1>10 DEF InvokeDynamic, At
  <2> QED
    BY <1>5, <1>10, <2>1
<1> QED
  BY <1>4, <1>6, <1>7, <1>8, <1>9, <1>10 DEF Interpret

(* Every call of a lambda without a vararg hands over its operands in      *)
(* order and leaves the rest to the caller (CallWithNArgs, Call).          *)
THEOREM Passage == Spec /\ CodeSound => ArgumentsPassed
<1> DEFINE Step0 ==
      status = "run" /\ Len(frames') > Len(frames) =>
        /\ Fetched = "Invoke"        => Passes(script.lambdas[Operand(1)[2]], Operand(2)[2], Stack)
        /\ Fetched = "InvokeDynamic" => Passes(script.lambdas[Top(1)[2]], Operand(1)[2], Dropped(1))
<1>1. ASSUME Inv, Next, status = "run", Len(frames') > Len(frames)
      PROVE  /\ Fetched = "Invoke"        => Passes(script.lambdas[Operand(1)[2]], Operand(2)[2], Stack)
             /\ Fetched = "InvokeDynamic" => Passes(script.lambdas[Top(1)[2]], Operand(1)[2], Dropped(1))
  <2>1. Interpret
    BY <1>1 DEF Next, Step, Exec, Ended
  <2>2. Takes(Code, Pos, Count) /\ Values(Stack, Count) /\ Fetched = OpAt(Code, Pos)
    BY <1>1, FetchLemma DEF Fetched
  <2>3. CASE Fetched = "Invoke"
    <3>1. CallLambda(Operand(1)[2], Operand(2)[2], Stack)
      BY <1>1, <2>1, <2>3, InterpretLemma DEF Invoke
    <3>2. Operand(1)[2] \in 1..Count /\ Operand(2)[2] \in Nat
      BY <2>2, <2>3 DEF Takes, Operand
    <3> QED
      BY <1>1, <2>2, <2>3, <3>1, <3>2, CallPasses DEF Ongoing
  <2>4. CASE Fetched = "InvokeDynamic"
    <3>1. InvokeDynamic /\ Len(Stack) >= Needs
      BY <1>1, <2>1, <2>4, InterpretLemma
    <3>2. Good(Top(1), Count) /\ Values(Dropped(1), Count)
      BY <1>1, <2>4, <3>1, NeedsLemma, TopLemma
    <3>3. frames' # frames
      <4>1. PICK S : Holds(S)
        BY <1>1, FetchLemma DEF Deep
      <4>2. Len(frames) \in Nat
        BY <4>1 DEF Holds
      <4> QED
        BY <1>1, <4>2
    <3>4. Top(1)[1] = "lambda"
      <4>1. ASSUME CallNative(Top(1)[2], Operand(1)[2], Dropped(1)), Top(1)[1] = "native" PROVE FALSE
        <5>1. Top(1)[2] \in DOMAIN NativeArgs /\ Operand(1)[2] \in Nat
          BY <2>2, <2>4, <3>2, <4>1, PartsLemma DEF Takes, Operand
        <5>2. Len(frames') = Len(frames)
          BY <1>1, <3>3, <4>1, BehindLength DEF CallNative, CallFails, Fail
        <5> QED
          BY <1>1, <5>2, <3>3
      <4>2. ~Fail("thrown")
        BY <3>3 DEF Fail
      <4> QED
        BY <3>1, <4>1, <4>2 DEF InvokeDynamic
    <3>5. CallLambda(Top(1)[2], Operand(1)[2], Dropped(1))
      BY <3>1, <3>4 DEF InvokeDynamic
    <3>6. Top(1)[2] \in 1..Count /\ Operand(1)[2] \in Nat
      BY <2>2, <2>4, <3>2, <3>4, PartsLemma DEF Takes, Operand
    <3> QED
      BY <1>1, <2>4, <3>2, <3>5, <3>6, CallPasses DEF Ongoing
  <2> QED
    BY <2>3, <2>4
<1>2. Inv /\ [Next]_vars => [Step0]_vars
  BY <1>1
<1> HIDE DEF Step0
<1>3. Spec /\ CodeSound => [][Step0]_vars
  BY InitLemma, NextLemma, <1>2, PTL DEF Spec, CodeSound, CodeStep
<1> QED
  BY <1>3 DEF ArgumentsPassed, Step0

=============================================================================
