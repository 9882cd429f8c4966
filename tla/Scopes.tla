------------------------------- MODULE Scopes --------------------------------
(***************************************************************************)
(* LocalScope and LocalVariable: local_scope.{h,cc}, local.{h,cc}.          *)
(*                                                                         *)
(* A scope is a sequence of locals in the order in which they were added,  *)
(* a chain a sequence of scopes, the innermost one first: a LocalScope     *)
(* with its parents.  A value is a tuple tagged with its type; a local     *)
(* that has none holds NoValue.  Indexes count from 0, as in the code.     *)
(***************************************************************************)
EXTENDS Integers, Sequences, SequencesExt

NoValue == <<"none">>

HasValue(local) == local.value # NoValue
IsNative(local) == local.value[1] = "native"

Names(scope) == {scope[i].name : i \in DOMAIN scope}

(* LocalVariable::New gives a local the next index of its scope.           *)
NewLocal(scope, name, value) == [name |-> name, index |-> Len(scope), value |-> value]

(* Add(LocalVariable): refused if the name is there.                       *)
AddLocal(scope, name, value) ==
  IF name \in Names(scope) THEN scope ELSE Append(scope, NewLocal(scope, name, value))

Find(scope, name) == CHOOSE i \in DOMAIN scope : scope[i].name = name

(* Add(name, value): gives a value to a local without one, too.            *)
Define(scope, name, value) ==
  IF name \notin Names(scope) THEN Append(scope, NewLocal(scope, name, value))
  ELSE IF HasValue(scope[Find(scope, name)]) THEN scope
  ELSE [scope EXCEPT ![Find(scope, name)].value = value]

(* One turn of the loop of Add(LocalScope): natives stay behind.           *)
AddOne(scope, local) ==
  IF IsNative(local) THEN scope ELSE Define(scope, local.name, local.value)

AddAll(scope, other) == FoldLeft(AddOne, scope, other)

InScope(chain, name) == \E d \in DOMAIN chain : name \in Names(chain[d])

(* Lookup: the innermost local of that name, with or without a value.      *)
Lookup(chain, name) ==
  LET depth == CHOOSE d \in DOMAIN chain :
                 name \in Names(chain[d]) /\ \A e \in 1..(d - 1) : name \notin Names(chain[e])
      scope == chain[depth]
  IN  scope[Find(scope, name)]

HasValueIn(chain, name) == InScope(chain, name) /\ HasValue(Lookup(chain, name))

SetValue(scope, index, value) == [scope EXCEPT ![index + 1].value = value]

=============================================================================
