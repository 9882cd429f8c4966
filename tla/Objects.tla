------------------------------- MODULE Objects -------------------------------
(***************************************************************************)
(* The values of a script and what they can do: object.{h,cc}, class.cc,   *)
(* error.cc.                                                               *)
(*                                                                         *)
(* A value is a tuple tagged with its type: <<"long", 3>>, <<"lambda", 1>>.*)
(* null is the empty pair.  Longs are unsigned words.                      *)
(***************************************************************************)
EXTENDS Integers, Sequences, SequencesExt

CONSTANT WordBits           \* of a Long: 64 in the code

ASSUME WordBitsAssumption == WordBits \in Nat \ {0}

None       == <<"none">>
Null       == <<"null">>
Pair(x, y) == <<"pair", x, y>>
Long(n)    == <<"long", n % 2^WordBits>>
Bool(b)    == <<"bool", b>>
Symbol(s)  == <<"symbol", s>>
Error(v)   == <<"error", v>>
Class(c)   == <<"class", c>>

IsSymbol(v) == v[1] = "symbol"
IsLong(v)   == v[1] = "long"
IsPair(v)   == v[1] \in {"pair", "null"}
IsError(v)  == v[1] = "error"
IsProcedure(v) == v[1] \in {"lambda", "native"}

(* gel::Truth                                                              *)
Truth(v) == IF v[1] = "bool" THEN v[2] ELSE v # Null

(* Object::GetType, by the name of the class.                              *)
GetType(v) ==
  CASE v[1] = "long"   -> "Long"
    [] v[1] = "bool"   -> "Bool"
    [] IsPair(v)       -> "Pair"
    [] v[1] = "symbol" -> "Symbol"
    [] v[1] = "error"  -> "Error"
    [] v[1] = "class"  -> "Class"
    [] v[1] = "lambda" -> "Lambda"
    [] v[1] = "native" -> "NativeProcedure"
    [] v[1] = "macro"  -> "Macro"

(* Object::Init: the classes, each with its parent.                        *)
ParentClass ==
  [Long |-> "Number", Number |-> "Object", Bool |-> "Object", Pair |-> "Seq", Seq |-> "Object",
   Symbol |-> "Object", Error |-> "Object", Class |-> "Object", Lambda |-> "Procedure",
   NativeProcedure |-> "Procedure", Procedure |-> "Object", Macro |-> "Object", Object |-> ""]

(* Class::FindClass finds all of these.                                    *)
FindClass(c) == c \in DOMAIN ParentClass

(* Class::IsInstanceOf: up the parents.                                    *)
Ancestors[c \in DOMAIN ParentClass] ==
  IF c = "Object" THEN {c} ELSE {c} \cup Ancestors[ParentClass[c]]
IsInstanceOf(c, target) == target \in Ancestors[c]

(* Class::NewInstance.  A list is true unless it is empty.  Most classes  *)
(* have no constructor.                                                    *)
Abort == <<"abort">>
NewInstance(c, args) ==
  CASE c = "Error" -> Error(IF args = <<>> THEN None ELSE args[1])
    [] c = "Bool"  -> Bool(args # <<>> /\ (Len(args) = 1 => Truth(args[1])))
    [] c = "Pair" /\ args = <<>> -> Null
    [] OTHER       -> Abort

(* The list of some values, from the last one on: gel::ToList of a native's *)
(* arguments.  Lists(values)[k] is the list of the last k of them.         *)
Lists(values) ==
  LET list[k \in 0..Len(values)] ==
        IF k = 0 THEN Null ELSE Pair(values[Len(values) + 1 - k], list[k - 1])
  IN  list
ToList(values) == Lists(values)[Len(values)]

(* gel::ListFromRange: both ends are part of it, in either order.          *)
ListFromRange(from, to) ==
  LET first == IF from < to THEN from ELSE to
      last  == IF from < to THEN to ELSE from
  IN  ToList([i \in 1..(last - first + 1) |-> Long(first + i - 1)])

Arithmetic == {"Add", "Subtract", "Multiply", "Divide", "Modulus"}
Logic      == {"BinaryAnd", "BinaryOr"}
Compares   == {"LessThan", "GreaterThan", "LessThanEqual", "GreaterThanEqual"}

(* Object::Add and the like: overridden by Long, null for all others.      *)
Arith(op, x, y) ==
  IF ~IsLong(x) \/ ~IsLong(y) THEN Null
  ELSE Long(CASE op = "Add"      -> x[2] + y[2]
              [] op = "Subtract" -> x[2] - y[2]
              [] op = "Multiply" -> x[2] * y[2]
              [] op = "Divide"   -> x[2] \div y[2]
              [] op = "Modulus"  -> x[2] % y[2])
DividesByZero(op, x, y) == op \in {"Divide", "Modulus"} /\ IsLong(x) /\ y = Long(0)

(* Bool::And and Bool::Or look at the truth of the other operand.          *)
Logical(op, x, y) ==
  IF x[1] # "bool" THEN Null
  ELSE Bool(IF op = "BinaryAnd" THEN x[2] /\ Truth(y) ELSE x[2] \/ Truth(y))

(* Long::Compare                                                           *)
Compare(op, x, y) ==
  Bool(CASE op = "LessThan"         -> x[2] < y[2]
         [] op = "GreaterThan"      -> x[2] > y[2]
         [] op = "LessThanEqual"    -> x[2] <= y[2]
         [] op = "GreaterThanEqual" -> x[2] >= y[2])

(* gel::Car and gel::Cdr, of a pair.                                       *)
Car(x) == IF x = Null THEN Null ELSE x[2]
Cdr(x) == IF x = Null THEN Null ELSE x[3]

(* Argument: how many values a parameter takes.                            *)
Argument(name)    == [name |-> name, takes |-> "one"]
OptionalArg(name) == [name |-> name, takes |-> "maybe"]
Vararg(name)      == [name |-> name, takes |-> "all"]
IsOptional(arg)   == arg.takes = "maybe"
IsVararg(arg)     == arg.takes = "all"

=============================================================================
