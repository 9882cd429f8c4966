--------------------------- MODULE Modules_proofs ---------------------------
(***************************************************************************)
(* What an import makes visible is complete and initialized, for every     *)
(* collection of sources and libraries and every script.                   *)
(***************************************************************************)
EXTENDS Modules, WellFoundedInduction, TLAPS

(***************************************************************************)
(* The invariant                                                           *)
(***************************************************************************)

(* The current module is being parsed or initialized.                      *)
Loading == status \in {"module", "namespace", "append", "globals", "init", "link"}

(* Where the parser is, and where todo in the loops inside of a form.      *)
Place ==
  /\ Loading \/ status = "loaded" => Current > 0
  /\ Loading => Current \notin imported
  /\ status \in {"namespace", "append"} => todo # <<>> /\ Head(todo).op = "ns"
  /\ status = "link" => todo # <<>> /\ Head(todo).op = "load-bindings"

(* Each native of scope is the one of its name in all.                     *)
Good(scope, all) ==
  \A i \in DOMAIN scope : IsNative(scope[i]) =>
    \E k \in DOMAIN all : scope[i].value = Native(k) /\ all[k].symbol = scope[i].name

GoodScopes ==
  /\ Symbols(natives) \subseteq Names(init)
  /\ Good(init, natives) /\ Good(space, natives)
  /\ \A m \in DOMAIN modules :
       /\ Good(modules[m].scope, natives)
       /\ \A n \in DOMAIN modules[m].namespaces : Good(modules[m].namespaces[n], natives)

(* The natives of the library that item loads are among the linked ones.   *)
IsLinked(item, all) ==
  item.op = "load-bindings" =>
    item.lib \in DOMAIN Bindings /\ ToSet(Bindings[item.lib]) \subseteq ToSet(all)

Ready(module, all) ==
  module.body # <<>> => module.initialized /\ \A i \in DOMAIN module.body : IsLinked(module.body[i], all)

(* An init function that is under way has done what is not left to do.     *)
Progress ==
  /\ \A m \in DOMAIN modules :
       Ready(modules[m], entries) \/ (m = Current /\ m \notin imported /\ (Loading \/ status = "fatal"))
  /\ status \in {"init", "link"} =>
       \A i \in DOMAIN Module.body : IsLinked(Module.body[i], entries) \/ Module.body[i] \in ToSet(todo)
  /\ status = "link" => Head(todo).lib \in DOMAIN Bindings
  /\ status = "link" => ToSet(Bindings[Head(todo).lib]) \subseteq ToSet(entries) \cup ToSet(queue)

(* The script has the locals of what it imported, but those of the import  *)
(* that is under way.                                                      *)
Has(scope, local) ==
  \E j \in DOMAIN scope : scope[j].name = local.name /\ scope[j].value = local.value

ScriptScope ==
  /\ \A i \in DOMAIN script : ~IsNative(script[i])
  /\ \A i, j \in DOMAIN script : script[i].name = script[j].name => i = j
  /\ \A m \in imported : \A i \in DOMAIN modules[m].scope :
       \/ IsNative(modules[m].scope[i])
       \/ Has(script, modules[m].scope[i])
       \/ status \in {"import", "fatal"} /\ modules[m].scope[i] \in ToSet(queue)

Inv == TypeOK /\ Place /\ NativesUnique /\ GoodScopes /\ Progress /\ ScriptScope

(***************************************************************************)
(* Scopes                                                                  *)
(***************************************************************************)

(* The types of a native and of the others.                                *)
ModuleType ==
  [name : Symbol, scope : Seq(Local), namespaces : Seq(Seq(Local)),
   body : Seq(Item), initialized : BOOLEAN]

(* No local is without a value.                                            *)
LEMMA ValueLemma == ASSUME NEW v \in Value PROVE v # NoValue
<1>1. v[1] \in {"native", "lambda", "namespace"}
  BY DEF Value
<1> QED
  BY <1>1 DEF NoValue

LEMMA ValuesLemma ==
  ASSUME NEW m \in Nat, NEW ns \in Words, NEW symbol \in Symbol
  PROVE  /\ Native(m) \in Value /\ Native(m)[1] = "native"
         /\ <<"lambda", m, ns, symbol>> \in Value /\ <<"lambda", m, ns, symbol>>[1] = "lambda"
         /\ <<"namespace", m, ns>> \in Value /\ <<"namespace", m, ns>>[1] = "namespace"
  BY DEF Value, Native

(* Add(LocalVariable): the scope is left alone, or gets one local more.    *)
LEMMA AddLocalLemma ==
  ASSUME NEW scope \in Seq(Local), Indexed(scope), NEW name \in Symbol, NEW value \in Value
  PROVE  LET after == AddLocal(scope, name, value) IN
         /\ after \in Seq(Local) /\ Indexed(after)
         /\ Names(after) = Names(scope) \cup {name}
         /\ DOMAIN scope \subseteq DOMAIN after
         /\ \A i \in DOMAIN scope : after[i] = scope[i]
         /\ \A i \in DOMAIN after :
              \/ i \in DOMAIN scope
              \/ i \notin DOMAIN scope /\ name \notin Names(scope)
                 /\ after[i].name = name /\ after[i].value = value
         /\ \A i, j \in DOMAIN after : i \notin DOMAIN scope /\ j \notin DOMAIN scope => i = j
<1> DEFINE after == AddLocal(scope, name, value)
           local == NewLocal(scope, name, value)
<1>1. CASE name \in Names(scope)
  BY <1>1 DEF AddLocal
<1>2. CASE name \notin Names(scope)
  <2>1. after = Append(scope, local)
    BY <1>2 DEF AddLocal
  <2>2. /\ local \in Local /\ local.name = name /\ local.value = value /\ local.index = Len(scope)
    BY DEF NewLocal, Local
  <2> HIDE DEF local
  <2>3. /\ after \in Seq(Local) /\ Len(after) = Len(scope) + 1 /\ Len(scope) \in Nat
        /\ DOMAIN after = 1..(Len(scope) + 1) /\ DOMAIN scope = 1..Len(scope)
        /\ \A i \in 1..Len(scope) : after[i] = scope[i]
        /\ after[Len(scope) + 1] = local
    BY <2>1, <2>2
  <2> HIDE DEF after
  <2>4. Indexed(after)
    BY <2>2, <2>3 DEF Indexed
  <2>5. Names(after) = Names(scope) \cup {name}
    BY <2>2, <2>3 DEF Names
  <2>6. \A i \in DOMAIN after : i \in DOMAIN scope \/
          (i \notin DOMAIN scope /\ after[i].name = name /\ after[i].value = value)
    BY <2>2, <2>3
  <2>7. \A i, j \in DOMAIN after : i \notin DOMAIN scope /\ j \notin DOMAIN scope => i = j
    BY <2>3
  <2> QED
    BY <1>2, <2>3, <2>4, <2>5, <2>6, <2>7 DEF after
<1> QED
  BY <1>1, <1>2

(* Add(name, value) is the same, since every local has a value.            *)
LEMMA DefineLemma ==
  ASSUME NEW scope \in Seq(Local), NEW name \in Symbol, NEW value \in Value
  PROVE  Define(scope, name, value) = AddLocal(scope, name, value)
<1>1. CASE name \in Names(scope)
  <2>1. Find(scope, name) \in DOMAIN scope
    BY <1>1 DEF Names, Find
  <2>2. scope[Find(scope, name)] \in Local
    BY <2>1
  <2>3. scope[Find(scope, name)].value \in Value
    BY <2>2 DEF Local
  <2> QED
    BY <1>1, <2>3, ValueLemma DEF Define, AddLocal, HasValue
<1>2. CASE name \notin Names(scope)
  BY <1>2 DEF Define, AddLocal
<1> QED
  BY <1>1, <1>2

LEMMA AddOneLemma ==
  ASSUME NEW scope \in Seq(Local), NEW local \in Local
  PROVE  AddOne(scope, local) = IF IsNative(local) THEN scope
                                ELSE AddLocal(scope, local.name, local.value)
  BY DefineLemma DEF AddOne, Local

LEMMA PrefixLemma ==
  ASSUME NEW S, NEW s \in Seq(S), NEW t \in Seq(S),
         DOMAIN s \subseteq DOMAIN t, \A i \in DOMAIN s : t[i] = s[i]
  PROVE  IsPrefix(s, t)
<1>1. Len(s) \in Nat /\ Len(t) \in Nat /\ DOMAIN s = 1..Len(s) /\ DOMAIN t = 1..Len(t)
  OBVIOUS
<1>2. Len(s) <= Len(t)
  BY <1>1
<1>3. SubSeq(s, 1, Len(s)) = SubSeq(t, 1, Len(s))
  BY <1>1, <1>2
<1> QED
  BY <1>2, <1>3 DEF IsPrefix

LEMMA RetypeLemma ==
  ASSUME NEW S, NEW T, NEW s \in Seq(S), \A i \in DOMAIN s : s[i] \in T
  PROVE  s \in Seq(T)
  OBVIOUS

LEMMA UpdateLemma ==
  ASSUME NEW S, NEW s \in Seq(S), NEW i \in DOMAIN s, NEW x \in S
  PROVE  LET t == [s EXCEPT ![i] = x]
         IN  /\ t \in Seq(S) /\ Len(t) = Len(s) /\ DOMAIN t = DOMAIN s
             /\ t[i] = x /\ \A j \in DOMAIN s : j # i => t[j] = s[j]
  OBVIOUS

(* What is left of a loop after one turn.                                  *)
LEMMA TailLemma ==
  ASSUME NEW S, NEW q \in Seq(S), q # <<>>
  PROVE  /\ Head(q) \in S /\ Tail(q) \in Seq(S)
         /\ ToSet(q) = {Head(q)} \cup ToSet(Tail(q))
<1>1. /\ Len(q) \in Nat /\ Len(q) > 0 /\ Head(q) = q[1] /\ Tail(q) \in Seq(S)
      /\ DOMAIN q = 1..Len(q) /\ DOMAIN Tail(q) = 1..(Len(q) - 1)
      /\ \A i \in 1..(Len(q) - 1) : Tail(q)[i] = q[i + 1]
  OBVIOUS
<1>2. ASSUME NEW x \in ToSet(q) PROVE x = Head(q) \/ x \in ToSet(Tail(q))
  <2>1. PICK i \in DOMAIN q : q[i] = x
    BY DEF ToSet
  <2>2. i = 1 \/ (i - 1 \in DOMAIN Tail(q) /\ Tail(q)[i - 1] = x)
    BY <1>1, <2>1
  <2> QED
    BY <1>1, <2>1, <2>2 DEF ToSet
<1>3. \A x \in ToSet(Tail(q)) : x \in ToSet(q)
  BY <1>1 DEF ToSet
<1>4. Head(q) \in ToSet(q) /\ Head(q) \in S
  BY <1>1 DEF ToSet
<1> QED
  BY <1>1, <1>2, <1>3, <1>4

(***************************************************************************)
(* Natives                                                                 *)
(***************************************************************************)

NativeType == [symbol : Symbol, entry : 0..Len(entries)]

(* Natives are never taken off the list, and keep their symbols.           *)
LEMMA GoodMoreLemma ==
  ASSUME NEW all, NEW more, DOMAIN all \subseteq DOMAIN more,
         \A k \in DOMAIN all : more[k].symbol = all[k].symbol
  PROVE  \A scope : Good(scope, all) => Good(scope, more)
  BY DEF Good

LEMMA GoodAddLemma ==
  ASSUME NEW scope \in Seq(Local), Indexed(scope), NEW name \in Symbol, NEW value \in Value,
         NEW all, Good(scope, all),
         value[1] = "native" => \E k \in DOMAIN all : value = Native(k) /\ all[k].symbol = name
  PROVE  Good(AddLocal(scope, name, value), all)
<1> DEFINE after == AddLocal(scope, name, value)
<1>1. /\ \A i \in DOMAIN scope : after[i] = scope[i]
      /\ \A i \in DOMAIN after : i \in DOMAIN scope \/ (after[i].name = name /\ after[i].value = value)
  BY AddLocalLemma
<1> HIDE DEF after
<1>2. Good(after, all)
  BY <1>1 DEF Good, IsNative
<1> QED
  BY <1>2 DEF after

LEMMA FindNativeLemma ==
  ASSUME NEW all, NEW symbol \in Symbols(all)
  PROVE  FindNative(all, symbol) \in DOMAIN all /\ all[FindNative(all, symbol)].symbol = symbol
  BY DEF Symbols, FindNative

(* FindOrCreate: there is one native of the symbol, and the runtime's      *)
(* scope has its name.                                                     *)
LEMMA FindOrCreateLemma ==
  ASSUME TypeOK, NativesUnique, GoodScopes, NEW symbol \in Symbol
  PROVE  LET created == FindOrCreate(symbol)
             scope   == Registered(symbol)
         IN  /\ created \in Seq(NativeType)
             /\ DOMAIN natives \subseteq DOMAIN created
             /\ \A k \in DOMAIN natives : created[k] = natives[k]
             /\ \A j, k \in DOMAIN created : created[j].symbol = created[k].symbol => j = k
             /\ symbol \in Symbols(created)
             /\ scope \in Seq(Local) /\ Indexed(scope) /\ IsPrefix(init, scope)
             /\ Symbols(created) \subseteq Names(scope)
             /\ Good(scope, created)
<1> DEFINE created == FindOrCreate(symbol)
           scope   == Registered(symbol)
           n       == Len(natives) + 1
           new     == [symbol |-> symbol, entry |-> Unlinked]
<1>0. /\ natives \in Seq(NativeType) /\ init \in Seq(Local) /\ Indexed(init) /\ Len(entries) \in Nat
      /\ \A j, k \in DOMAIN natives : natives[j].symbol = natives[k].symbol => j = k
      /\ Symbols(natives) \subseteq Names(init) /\ Good(init, natives)
  BY DEF TypeOK, NativeType, NativesUnique, GoodScopes
<1>1. CASE symbol \in Symbols(natives)
  <2>1. created = natives /\ scope = init
    BY <1>1 DEF FindOrCreate, Registered
  <2>2. IsPrefix(init, init)
    BY <1>0, PrefixLemma
  <2> QED
    BY <1>0, <1>1, <2>1, <2>2
<1>2. CASE symbol \notin Symbols(natives)
  <2>1. created = Append(natives, new) /\ scope = Register(init, symbol, n)
    BY <1>2 DEF FindOrCreate, Registered
  <2>2. new \in NativeType /\ new.symbol = symbol
    BY <1>0 DEF NativeType, Unlinked
  <2> HIDE DEF new
  <2>3. /\ n \in Nat /\ n > 0 /\ created \in Seq(NativeType)
        /\ DOMAIN natives = 1..(n - 1) /\ DOMAIN created = 1..n
        /\ \A k \in 1..(n - 1) : created[k] = natives[k]
        /\ created[n] = new
    BY <1>0, <2>1, <2>2
  <2>4. \A k \in DOMAIN natives : natives[k].symbol # symbol
    BY <1>2 DEF Symbols
  <2>5. Native(n) \in Value
    BY <2>3 DEF Value, Native
  <2>6. scope = AddLocal(init, symbol, Native(n))
    BY <1>0, <2>1, <2>5, DefineLemma DEF Register
  <2>7. /\ scope \in Seq(Local) /\ Indexed(scope)
        /\ Names(scope) = Names(init) \cup {symbol}
        /\ DOMAIN init \subseteq DOMAIN scope
        /\ \A i \in DOMAIN init : scope[i] = init[i]
    BY <1>0, <2>5, <2>6, AddLocalLemma
  <2> HIDE DEF created, n
  <2>8. Good(init, created)
    BY <1>0, <2>3, GoodMoreLemma
  <2>9. Good(scope, created)
    <3>1. n \in DOMAIN created /\ created[n].symbol = symbol
      BY <2>2, <2>3
    <3> QED
      BY <1>0, <2>5, <2>6, <2>8, <3>1, GoodAddLemma
  <2> HIDE DEF scope
  <2>10. IsPrefix(init, scope)
    BY <1>0, <2>7, PrefixLemma
  <2>11. Symbols(created) = Symbols(natives) \cup {symbol}
    BY <2>2, <2>3 DEF Symbols
  <2>12. \A j, k \in DOMAIN created : created[j].symbol = created[k].symbol => j = k
    BY <1>0, <2>2, <2>3, <2>4
  <2> QED
    BY <1>0, <2>3, <2>7, <2>9, <2>10, <2>11, <2>12 DEF created, scope
<1> QED
  BY <1>1, <1>2

(***************************************************************************)
(* What every step may do to the natives and the runtime's scope           *)
(***************************************************************************)

Grown ==
  /\ entries' \in Seq(Symbol) /\ natives' \in Seq(NativeType') /\ init' \in Seq(Local)
  /\ Indexed(init') /\ NativesUnique' /\ IsPrefix(init, init')
  /\ Symbols(natives') \subseteq Names(init') /\ Good(init', natives')
  /\ \A scope : Good(scope, natives) => Good(scope, natives')
  /\ ToSet(entries) \subseteq ToSet(entries')

LEMMA GrownUnchanged ==
  ASSUME TypeOK, NativesUnique, GoodScopes, UNCHANGED linked
  PROVE  Grown
<1>1. IsPrefix(init, init)
  BY PrefixLemma DEF TypeOK
<1> QED
  BY <1>1 DEF Grown, linked, TypeOK, NativeType, GoodScopes, NativesUnique

LEMMA GrownDeclared ==
  ASSUME TypeOK, NativesUnique, GoodScopes, UNCHANGED entries,
         NEW ns \in Words, NEW item \in Member, Declared(ns, item)
  PROVE  Grown
<1> DEFINE symbol == CreateSymbol(ns, item.symbol)
<1>1. symbol \in Symbol
  BY DEF Member, CreateSymbol, Symbol
<1>2. CASE item.op = "defnative"
  <2>1. natives' = FindOrCreate(symbol) /\ init' = Registered(symbol)
    BY <1>2 DEF Declared
  <2> HIDE DEF symbol
  <2>2. /\ natives' \in Seq(NativeType)
        /\ DOMAIN natives \subseteq DOMAIN natives'
        /\ \A k \in DOMAIN natives : natives'[k] = natives[k]
        /\ \A j, k \in DOMAIN natives' : natives'[j].symbol = natives'[k].symbol => j = k
        /\ init' \in Seq(Local) /\ Indexed(init') /\ IsPrefix(init, init')
        /\ Symbols(natives') \subseteq Names(init')
        /\ Good(init', natives')
    BY <1>1, <2>1, FindOrCreateLemma
  <2>3. \A scope : Good(scope, natives) => Good(scope, natives')
    BY <2>2, GoodMoreLemma
  <2>4. NativesUnique'
    BY <2>2 DEF NativesUnique
  <2> QED
    BY <2>2, <2>3, <2>4 DEF Grown, TypeOK, NativeType
<1>3. CASE item.op # "defnative"
  BY <1>3, GrownUnchanged DEF Declared, linked
<1> QED
  BY <1>2, <1>3

(* The locals of a module that are no natives go to the runtime's scope.   *)
LEMMA GrownGlobal ==
  ASSUME TypeOK, NativesUnique, GoodScopes, UNCHANGED <<natives, entries>>,
         NEW local \in Local, init' = AddOne(init, local)
  PROVE  Grown
<1>1. CASE IsNative(local)
  BY <1>1, AddOneLemma, GrownUnchanged DEF TypeOK, linked
<1>2. CASE ~IsNative(local)
  <2>1. /\ init \in Seq(Local) /\ Indexed(init) /\ local.name \in Symbol /\ local.value \in Value
        /\ local.value[1] # "native" /\ Good(init, natives) /\ Symbols(natives) \subseteq Names(init)
    BY <1>2 DEF TypeOK, Local, IsNative, GoodScopes
  <2>2. init' = AddLocal(init, local.name, local.value)
    BY <1>2, <2>1, AddOneLemma
  <2>3. /\ init' \in Seq(Local) /\ Indexed(init')
        /\ Names(init) \subseteq Names(init')
        /\ DOMAIN init \subseteq DOMAIN init'
        /\ \A i \in DOMAIN init : init'[i] = init[i]
    BY <2>1, <2>2, AddLocalLemma
  <2>4. Good(init', natives)
    BY <2>1, <2>2, GoodAddLemma
  <2>5. IsPrefix(init, init')
    BY <2>1, <2>3, PrefixLemma
  <2> QED
    BY <2>1, <2>3, <2>4, <2>5 DEF Grown, TypeOK, NativeType, NativesUnique
<1> QED
  BY <1>1, <1>2

(* Link: the entry is new, so that it is the entry of this native only.    *)
LEMMA GrownLink ==
  ASSUME TypeOK, NativesUnique, GoodScopes, NEW symbol \in Symbol,
         Link(symbol), status' # "fatal"
  PROVE  Grown /\ entries' = Append(entries, symbol)
<1> DEFINE created == FindOrCreate(symbol)
           i       == FindNative(created, symbol)
           e       == Len(entries) + 1
<1>1. /\ created[i].entry = Unlinked
      /\ natives' = [created EXCEPT ![i].entry = e]
      /\ entries' = Append(entries, symbol) /\ init' = Registered(symbol)
  BY DEF Link, Fatal
<1>2. /\ created \in Seq(NativeType)
      /\ DOMAIN natives \subseteq DOMAIN created
      /\ \A k \in DOMAIN natives : created[k] = natives[k]
      /\ \A j, k \in DOMAIN created : created[j].symbol = created[k].symbol => j = k
      /\ symbol \in Symbols(created)
      /\ init' \in Seq(Local) /\ Indexed(init') /\ IsPrefix(init, init')
      /\ Symbols(created) \subseteq Names(init')
      /\ Good(init', created)
  BY <1>1, FindOrCreateLemma
<1>3. i \in DOMAIN created /\ created[i].symbol = symbol
  BY <1>2, FindNativeLemma
<1>4. /\ entries \in Seq(Symbol) /\ e \in Nat /\ e > 0 /\ entries' \in Seq(Symbol) /\ Len(entries') = e
      /\ DOMAIN entries = 1..(e - 1) /\ DOMAIN entries' = 1..e
      /\ entries'[e] = symbol /\ \A j \in 1..(e - 1) : entries'[j] = entries[j]
  BY <1>1 DEF TypeOK
<1> HIDE DEF created, i
<1> DEFINE bound == [created[i] EXCEPT !.entry = e]
<1>5a. \A k \in DOMAIN created : created[k] \in NativeType
  BY <1>2
<1>5b. bound \in NativeType' /\ bound.symbol = symbol /\ bound.entry = e
  BY <1>3, <1>4, <1>5a DEF NativeType
<1>5c. natives' = [created EXCEPT ![i] = bound]
  BY <1>1
<1> HIDE DEF bound
<1>5. /\ DOMAIN natives' = DOMAIN created
      /\ natives'[i].symbol = symbol /\ natives'[i].entry = e
      /\ \A k \in DOMAIN created : k # i => natives'[k] = created[k]
      /\ \A k \in DOMAIN created : natives'[k].symbol = created[k].symbol
  BY <1>2, <1>3, <1>5b, <1>5c
<1>6. natives' \in Seq(NativeType')
  <2>1. \A k \in DOMAIN created : created[k] \in NativeType'
    BY <1>4, <1>5a DEF NativeType
  <2>2. created \in Seq(NativeType')
    BY <1>2, <2>1, RetypeLemma
  <2> QED
    BY <1>3, <1>5b, <1>5c, <2>2, UpdateLemma
<1>7. NativesUnique'
  <2>1. \A j, k \in DOMAIN natives' : natives'[j].symbol = natives'[k].symbol => j = k
    BY <1>2, <1>5
  <2>2. ASSUME NEW d \in DOMAIN entries'
        PROVE  \E k \in DOMAIN natives' : natives'[k].symbol = entries'[d] /\ natives'[k].entry = d
    <3>1. CASE d = e
      BY <1>3, <1>4, <1>5, <3>1
    <3>2. CASE d # e
      <4>1. d \in DOMAIN entries /\ entries'[d] = entries[d] /\ d > 0
        BY <1>4, <3>2
      <4>2. PICK k \in DOMAIN natives : natives[k].symbol = entries[d] /\ natives[k].entry = d
        BY <4>1 DEF NativesUnique
      <4>3. k \in DOMAIN created /\ created[k] = natives[k] /\ k # i
        BY <1>1, <1>2, <4>1, <4>2 DEF Unlinked
      <4> QED
        BY <1>5, <4>1, <4>2, <4>3
    <3> QED
      BY <3>1, <3>2
  <2> QED
    BY <2>1, <2>2 DEF NativesUnique
<1>8. Symbols(natives') = Symbols(created)
  BY <1>5 DEF Symbols
<1>9. Good(init', natives')
  BY <1>2, <1>5, GoodMoreLemma
<1>10. \A scope : Good(scope, natives) => Good(scope, natives')
  BY <1>2, <1>5, GoodMoreLemma
<1>11. ToSet(entries) \subseteq ToSet(entries')
  BY <1>4 DEF ToSet
<1> QED
  BY <1>1, <1>2, <1>4, <1>6, <1>7, <1>8, <1>9, <1>10, <1>11 DEF Grown

(***************************************************************************)
(* Steps                                                                   *)
(***************************************************************************)

(* What a module was ready with, it stays ready with.                      *)
LEMMA ReadyLemma ==
  ASSUME Grown
  PROVE  /\ \A item : IsLinked(item, entries) => IsLinked(item, entries')
         /\ \A module : Ready(module, entries) => Ready(module, entries')
<1>1. \A item : IsLinked(item, entries) => IsLinked(item, entries')
  BY DEF Grown, IsLinked
<1> QED
  BY <1>1 DEF Ready

LEMMA FatalStep ==
  ASSUME Inv, Fatal, length' \in 0..MaxScript
  PROVE  Inv' /\ IsPrefix(init, init')
<1>1. IsPrefix(init, init')
  BY PrefixLemma DEF Inv, TypeOK, Fatal, linked
<1>2. TypeOK'
  BY DEF Inv, TypeOK, Fatal, linked, sources
<1>3. Place'
  BY DEF Place, Loading, Fatal
<1>4. NativesUnique' /\ GoodScopes'
  BY DEF Inv, NativesUnique, GoodScopes, Fatal, linked
<1>5. Progress'
  <2>1. Current' = Current
    BY DEF Fatal, Current
  <2>2. entries' = entries
    BY DEF Fatal, linked
  <2> QED
    BY <2>1, <2>2 DEF Inv, Progress, Fatal
<1>6. ScriptScope'
  BY DEF Inv, ScriptScope, Has, Fatal
<1> QED
  BY <1>1, <1>2, <1>3, <1>4, <1>5, <1>6 DEF Inv

(* The module that is being loaded.                                        *)
LEMMA ModuleLemma ==
  ASSUME Inv, Loading \/ status = "loaded"
  PROVE  /\ Current \in DOMAIN modules /\ Current \in Nat /\ Module = modules[Current]
         /\ Module \in ModuleType /\ Indexed(Module.scope)
         /\ Module.scope \in Seq(Local) /\ Module.namespaces \in Seq(Seq(Local))
         /\ Module.body \in Seq(Item)
         /\ Good(Module.scope, natives)
         /\ \A n \in DOMAIN Module.namespaces : Good(Module.namespaces[n], natives)
<1>1. modules \in Seq(ModuleType) /\ Current > 0
  BY DEF Inv, TypeOK, ModuleType, Place
<1>2. Current \in Nat /\ Current \in DOMAIN modules
  BY <1>1 DEF Current
<1>3. Module \in ModuleType
  BY <1>1, <1>2 DEF Module
<1> QED
  BY <1>2, <1>3 DEF Inv, TypeOK, GoodScopes, Module, ModuleType

(* A step in the course of loading a module, which may change this module. *)
LEMMA LoadingStep ==
  ASSUME Inv, Loading, Loading', Grown,
         UNCHANGED <<sources, script, imported, length>>,
         NEW after \in ModuleType, modules' = [modules EXCEPT ![Current] = after],
         Indexed(after.scope), Good(after.scope, natives'),
         \A n \in DOMAIN after.namespaces : Good(after.namespaces[n], natives'),
         space' \in Seq(Local), Indexed(space'), Good(space', natives'),
         todo' \in Seq(Item),
         status' = "link" => queue' \in Seq(Symbol),
         status' = "namespace" => queue' \in Seq(Member),
         status' \in {"append", "globals"} => queue' \in Seq(Local),
         status' \in {"namespace", "append"} => todo' # <<>> /\ Head(todo').op = "ns",
         status' = "link" =>
           /\ todo' # <<>> /\ Head(todo').op = "load-bindings"
           /\ Head(todo').lib \in DOMAIN Bindings
           /\ ToSet(Bindings[Head(todo').lib]) \subseteq ToSet(entries') \cup ToSet(queue'),
         status' \in {"init", "link"} =>
           \A i \in DOMAIN after.body : IsLinked(after.body[i], entries') \/ after.body[i] \in ToSet(todo')
  PROVE  Inv' /\ IsPrefix(init, init')
<1>1. /\ Current \in DOMAIN modules /\ modules \in Seq(ModuleType) /\ Current \notin imported
      /\ Current \in Nat /\ Current > 0 /\ imported \subseteq DOMAIN modules
  BY ModuleLemma DEF Inv, TypeOK, ModuleType, Place
<1>2. /\ modules' \in Seq(ModuleType) /\ DOMAIN modules' = DOMAIN modules
      /\ Len(modules') = Len(modules) /\ modules'[Current] = after
      /\ \A m \in DOMAIN modules : m # Current => modules'[m] = modules[m]
  BY <1>1, UpdateLemma
<1>3. Current' = Current /\ Module' = after
  BY <1>2 DEF Current, Module
<1>4. TypeOK'
  <2>1. \A m \in DOMAIN modules' : Indexed(modules'[m].scope)
    BY <1>1, <1>2 DEF Inv, TypeOK
  <2>2. status' \in {"module", "namespace", "append", "globals", "init", "link"}
    BY DEF Loading
  <2> QED
    BY <1>1, <1>2, <2>1, <2>2 DEF Inv, TypeOK, Grown, NativeType, ModuleType, sources
<1>5. Place'
  BY <1>1, <1>3 DEF Place
<1>6. GoodScopes'
  <2>1. \A m \in DOMAIN modules : m # Current =>
          /\ Good(modules'[m].scope, natives')
          /\ \A n \in DOMAIN modules'[m].namespaces : Good(modules'[m].namespaces[n], natives')
    BY <1>2 DEF Inv, GoodScopes, Grown
  <2> QED
    BY <1>1, <1>2, <2>1 DEF GoodScopes, Grown
<1>7. Progress'
  <2>1. ASSUME NEW m \in DOMAIN modules, m # Current PROVE Ready(modules'[m], entries')
    <3>1. Ready(modules[m], entries)
      BY <2>1 DEF Inv, Progress
    <3> QED
      BY <1>2, <2>1, <3>1, ReadyLemma
  <2> QED
    BY <1>1, <1>2, <1>3, <2>1 DEF Progress
<1>8. ScriptScope'
  <2>1. \A m \in imported : modules'[m] = modules[m]
    BY <1>1, <1>2
  <2>2. status \notin {"import", "fatal"}
    BY DEF Loading
  <2> QED
    BY <2>1, <2>2, SMTT(30) DEF Inv, ScriptScope, Has
<1> QED
  BY <1>4, <1>5, <1>6, <1>7, <1>8 DEF Inv, Grown

(* A step in the course of loading a module, which leaves this one alone.  *)
LEMMA KeepingStep ==
  ASSUME Inv, Loading, Loading', Grown,
         UNCHANGED <<sources, script, imported, length, modules>>,
         space' \in Seq(Local), Indexed(space'), Good(space', natives'),
         todo' \in Seq(Item),
         status' = "link" => queue' \in Seq(Symbol),
         status' = "namespace" => queue' \in Seq(Member),
         status' \in {"append", "globals"} => queue' \in Seq(Local),
         status' \in {"namespace", "append"} => todo' # <<>> /\ Head(todo').op = "ns",
         status' = "link" =>
           /\ todo' # <<>> /\ Head(todo').op = "load-bindings"
           /\ Head(todo').lib \in DOMAIN Bindings
           /\ ToSet(Bindings[Head(todo').lib]) \subseteq ToSet(entries') \cup ToSet(queue'),
         status' \in {"init", "link"} =>
           \A i \in DOMAIN Module.body : IsLinked(Module.body[i], entries') \/ Module.body[i] \in ToSet(todo')
  PROVE  Inv' /\ IsPrefix(init, init')
<1>1. modules \in Seq(ModuleType)
  BY DEF Inv, TypeOK, ModuleType
<1>2. modules' = [modules EXCEPT ![Current] = Module]
  BY <1>1 DEF Module
<1>3. /\ Module \in ModuleType /\ Indexed(Module.scope) /\ Good(Module.scope, natives')
      /\ \A n \in DOMAIN Module.namespaces : Good(Module.namespaces[n], natives')
  BY ModuleLemma DEF Grown
<1> HIDE DEF Module
<1> QED
  BY <1>2, <1>3, LoadingStep

LEMMA ItemLemma ==
  ASSUME NEW item \in Item
  PROVE  /\ item.op \in {"defn", "defnative"} => item \in Member
         /\ item.op = "ns" => item.ns \in Words /\ item.members \in Seq(Member)
         /\ item.op = "load-bindings" => item.lib \in Words
         /\ item.op = "import" => item.file \in Symbol
         /\ item.op \in {"defn", "defnative", "ns", "load-bindings", "set-initialized", "import"}
  BY DEF Item, Member

(* A definition adds one local, which is a good one.                       *)
LEMMA DefinitionLemma ==
  ASSUME Inv, Grown, NEW scope \in Seq(Local), Indexed(scope), Good(scope, natives),
         NEW m \in Nat, NEW ns \in Words, NEW item \in Member, Declared(ns, item)
  PROVE  LET after == Definition(scope, m, ns, item)
         IN  after \in Seq(Local) /\ Indexed(after) /\ Good(after, natives')
<1> DEFINE symbol == CreateSymbol(ns, item.symbol)
           value  == IF item.op = "defnative" THEN Native(FindNative(FindOrCreate(symbol), symbol))
                     ELSE <<"lambda", m, ns, symbol>>
<1>1. symbol \in Symbol
  BY DEF Member, CreateSymbol, Symbol
<1>2. Good(scope, natives')
  BY DEF Grown
<1>3. /\ value \in Value
      /\ value[1] = "native" => \E k \in DOMAIN natives' : value = Native(k) /\ natives'[k].symbol = symbol
  <2>1. CASE item.op = "defnative"
    <3>1. natives' = FindOrCreate(symbol)
      BY <2>1 DEF Declared
    <3> HIDE DEF symbol
    <3>2. symbol \in Symbols(natives')
      BY <1>1, <3>1, FindOrCreateLemma DEF Inv
    <3>3. /\ FindNative(natives', symbol) \in DOMAIN natives'
          /\ natives'[FindNative(natives', symbol)].symbol = symbol
      BY <3>2, FindNativeLemma
    <3>4. FindNative(natives', symbol) \in Nat
      BY <3>3 DEF Grown
    <3>5. value = Native(FindNative(natives', symbol))
      BY <2>1, <3>1
    <3> QED
      BY <1>1, <3>3, <3>4, <3>5, ValuesLemma
  <2>2. CASE item.op # "defnative"
    <3>1. value = <<"lambda", m, ns, symbol>>
      BY <2>2
    <3> HIDE DEF value, symbol
    <3> QED
      BY <1>1, <3>1, ValuesLemma
  <2> QED
    BY <2>1, <2>2
<1>4. Definition(scope, m, ns, item) = AddLocal(scope, symbol, value)
  BY DEF Definition
<1> HIDE DEF symbol, value
<1> QED
  BY <1>1, <1>2, <1>3, <1>4, AddLocalLemma, GoodAddLemma

(* One turn of Add(LocalScope).                                            *)
LEMMA AddOneGoodLemma ==
  ASSUME NEW scope \in Seq(Local), Indexed(scope), NEW all, Good(scope, all), NEW local \in Local
  PROVE  /\ AddOne(scope, local) \in Seq(Local) /\ Indexed(AddOne(scope, local))
         /\ Good(AddOne(scope, local), all)
<1>1. local.name \in Symbol /\ local.value \in Value
  BY DEF Local
<1>2. CASE IsNative(local)
  BY <1>2, AddOneLemma
<1>3. CASE ~IsNative(local)
  <2>1. AddOne(scope, local) = AddLocal(scope, local.name, local.value)
    BY <1>3, AddOneLemma
  <2>2. local.value[1] # "native"
    BY <1>3 DEF IsNative
  <2> QED
    BY <1>1, <2>1, <2>2, AddLocalLemma, GoodAddLemma
<1> QED
  BY <1>2, <1>3

(***************************************************************************)
(* The actions that parse a module                                         *)
(***************************************************************************)

LEMMA DefinitionStep ==
  ASSUME Inv, ParseDefinition, UNCHANGED length
  PROVE  Inv' /\ IsPrefix(init, init')
<1> DEFINE item == Head(todo)
<1>1. /\ status = "module" /\ todo # <<>> /\ item.op \in {"defn", "defnative"}
  BY DEF ParseDefinition, Parsing
<1>2. /\ todo \in Seq(Item) /\ item \in Item /\ Tail(todo) \in Seq(Item) /\ length' \in 0..MaxScript
  BY <1>1, TailLemma DEF Inv, TypeOK
<1>3. item \in Member /\ Loading
  BY <1>1, <1>2, ItemLemma DEF Loading
<1>4. CASE Fatal
  BY <1>2, <1>4, FatalStep
<1>5. CASE ~Fatal
  <2> DEFINE scope == Definition(Module.scope, Current, "", item)
             after == [Module EXCEPT !.scope = scope]
  <2>1. /\ Declared("", item)
        /\ modules' = [modules EXCEPT ![Current].scope = Definition(@, Current, "", item)]
        /\ todo' = Tail(todo)
        /\ UNCHANGED <<sources, entries, space, script, imported, queue, status>>
    BY <1>5 DEF ParseDefinition
  <2>0. "" \in Words
    BY SourcesAssumption
  <2>2. Grown
    BY <1>3, <2>0, <2>1, GrownDeclared DEF Inv
  <2>3. /\ Current \in DOMAIN modules /\ Current \in Nat /\ Module = modules[Current]
        /\ Module \in ModuleType /\ Indexed(Module.scope)
        /\ Module.scope \in Seq(Local)
        /\ Good(Module.scope, natives)
        /\ \A n \in DOMAIN Module.namespaces : Good(Module.namespaces[n], natives)
    BY <1>3, ModuleLemma
  <2>4. scope \in Seq(Local) /\ Indexed(scope) /\ Good(scope, natives')
    BY <1>3, <2>0, <2>1, <2>2, <2>3, DefinitionLemma
  <2>5. modules' = [modules EXCEPT ![Current] = after]
    BY <2>1, <2>3
  <2> HIDE DEF scope
  <2>6. after \in ModuleType /\ after.scope = scope /\ after.namespaces = Module.namespaces
    BY <2>3, <2>4 DEF ModuleType
  <2> HIDE DEF after
  <2>7. space' \in Seq(Local) /\ Indexed(space') /\ Good(space', natives')
    BY <2>1, <2>2 DEF Inv, TypeOK, GoodScopes, Grown
  <2>8. \A n \in DOMAIN after.namespaces : Good(after.namespaces[n], natives')
    BY <2>2, <2>3, <2>6 DEF Grown
  <2>9. status' = "module" /\ Loading'
    BY <1>1, <2>1 DEF Loading
  <2> QED
    BY <1>2, <1>3, <2>1, <2>2, <2>4, <2>5, <2>6, <2>7, <2>8, <2>9, LoadingStep
<1> QED
  BY <1>4, <1>5

LEMMA InitExprStep ==
  ASSUME Inv, ParseInitExpr, UNCHANGED length
  PROVE  Inv' /\ IsPrefix(init, init')
<1> DEFINE item  == Head(todo)
           body  == Append(Module.body, item)
           after == [Module EXCEPT !.body = body]
<1>1. /\ status = "module" /\ todo # <<>> /\ Loading
      /\ modules' = [modules EXCEPT ![Current].body = Append(@, item)] /\ todo' = Tail(todo)
      /\ UNCHANGED <<sources, linked, space, script, imported, queue, status>>
  BY DEF ParseInitExpr, Parsing, Loading
<1>2. item \in Item /\ Tail(todo) \in Seq(Item)
  BY <1>1, TailLemma DEF Inv, TypeOK
<1>3. Grown
  BY <1>1, GrownUnchanged DEF Inv
<1>4. /\ Current \in DOMAIN modules /\ Module = modules[Current]
      /\ Module \in ModuleType /\ Indexed(Module.scope) /\ Module.body \in Seq(Item)
      /\ Good(Module.scope, natives)
      /\ \A n \in DOMAIN Module.namespaces : Good(Module.namespaces[n], natives)
  BY <1>1, ModuleLemma
<1>5. modules' = [modules EXCEPT ![Current] = after]
  BY <1>1, <1>4
<1>6. body \in Seq(Item)
  BY <1>2, <1>4
<1> HIDE DEF body
<1>7. after \in ModuleType /\ after.scope = Module.scope /\ after.namespaces = Module.namespaces
  BY <1>4, <1>6 DEF ModuleType
<1> HIDE DEF after
<1>8. /\ space' \in Seq(Local) /\ Indexed(space') /\ Good(space', natives') /\ Good(after.scope, natives')
      /\ \A n \in DOMAIN after.namespaces : Good(after.namespaces[n], natives')
  BY <1>1, <1>3, <1>4, <1>7 DEF Inv, TypeOK, GoodScopes, Grown
<1>9. status' = "module" /\ Loading'
  BY <1>1 DEF Loading
<1> QED
  BY <1>1, <1>2, <1>3, <1>4, <1>5, <1>7, <1>8, <1>9, LoadingStep

LEMMA DefNamespaceStep ==
  ASSUME Inv, ParseDefNamespace, UNCHANGED length
  PROVE  Inv' /\ IsPrefix(init, init')
<1>1. /\ status = "module" /\ todo # <<>> /\ Head(todo).op = "ns" /\ Loading
      /\ space' = <<>> /\ queue' = Head(todo).members /\ status' = "namespace" /\ Loading'
      /\ UNCHANGED <<sources, linked, modules, script, imported, todo>>
  BY DEF ParseDefNamespace, Parsing, Loading
<1>2. todo \in Seq(Item) /\ Head(todo) \in Item
  BY <1>1, TailLemma DEF Inv, TypeOK
<1>3. queue' \in Seq(Member)
  BY <1>1, <1>2, ItemLemma
<1>4. Grown
  BY <1>1, GrownUnchanged DEF Inv
<1>5. space' \in Seq(Local) /\ Indexed(space') /\ Good(space', natives')
  BY <1>1 DEF Indexed, Good
<1> QED
  BY <1>1, <1>2, <1>3, <1>4, <1>5, KeepingStep

LEMMA MemberStep ==
  ASSUME Inv, ParseMember, UNCHANGED length
  PROVE  Inv' /\ IsPrefix(init, init')
<1> DEFINE ns == Head(todo).ns
<1>1. status = "namespace" /\ queue # <<>> /\ Loading
  BY DEF ParseMember, Loading
<1>2. /\ todo \in Seq(Item) /\ todo # <<>> /\ Head(todo).op = "ns" /\ length' \in 0..MaxScript
      /\ queue \in Seq(Member)
  BY <1>1 DEF Inv, TypeOK, Place
<1>3. /\ Head(queue) \in Member /\ Tail(queue) \in Seq(Member) /\ ns \in Words
  BY <1>1, <1>2, TailLemma, ItemLemma
<1>4. CASE Fatal
  BY <1>2, <1>4, FatalStep
<1>5. CASE ~Fatal
  <2>1. /\ Declared(ns, Head(queue))
        /\ space' = Definition(space, Current, ns, Head(queue))
        /\ queue' = Tail(queue)
        /\ UNCHANGED <<sources, entries, modules, script, imported, todo, status>>
    BY <1>5 DEF ParseMember
  <2> HIDE DEF ns
  <2>2. Grown
    BY <1>3, <2>1, GrownDeclared DEF Inv
  <2>3. space \in Seq(Local) /\ Indexed(space) /\ Good(space, natives) /\ Current \in Nat
    BY <1>1, ModuleLemma DEF Inv, TypeOK, GoodScopes
  <2>4. space' \in Seq(Local) /\ Indexed(space') /\ Good(space', natives')
    BY <1>3, <2>1, <2>2, <2>3, DefinitionLemma
  <2>5. status' = "namespace" /\ Loading'
    BY <1>1, <2>1 DEF Loading
  <2> QED
    BY <1>1, <1>2, <1>3, <2>1, <2>2, <2>4, <2>5, KeepingStep
<1> QED
  BY <1>4, <1>5

LEMMA EndOfNamespaceStep ==
  ASSUME Inv, EndOfNamespace, UNCHANGED length
  PROVE  Inv' /\ IsPrefix(init, init')
<1> DEFINE name  == NamespaceSymbol(Head(todo))
           value == Namespace(Current, Head(todo))
           scope == AddLocal(Module.scope, name, value)
           after == [Module EXCEPT !.scope = scope, !.namespaces = Append(@, space)]
<1>1. status = "namespace" /\ Loading
  BY DEF EndOfNamespace, Loading
<1>2. /\ todo \in Seq(Item) /\ todo # <<>> /\ Head(todo).op = "ns" /\ length' \in 0..MaxScript
      /\ space \in Seq(Local) /\ Indexed(space) /\ Good(space, natives)
  BY <1>1 DEF Inv, TypeOK, Place, GoodScopes
<1>3. Head(todo).ns \in Words
  BY <1>2, TailLemma, ItemLemma
<1>4. CASE Fatal
  BY <1>2, <1>4, FatalStep
<1>5. CASE ~Fatal
  <2>1. /\ modules' = [modules EXCEPT ![Current].scope = AddLocal(@, name, value),
                                      ![Current].namespaces = Append(@, space)]
        /\ queue' = space /\ space' = <<>> /\ status' = "append" /\ Loading'
        /\ UNCHANGED <<sources, linked, script, imported, todo>>
    BY <1>5 DEF EndOfNamespace, Loading
  <2>2. Grown
    BY <2>1, GrownUnchanged DEF Inv
  <2>3. /\ Current \in DOMAIN modules /\ Current \in Nat /\ Module = modules[Current]
        /\ Module \in ModuleType /\ Indexed(Module.scope)
        /\ Module.scope \in Seq(Local) /\ Module.namespaces \in Seq(Seq(Local))
        /\ Good(Module.scope, natives)
        /\ \A n \in DOMAIN Module.namespaces : Good(Module.namespaces[n], natives)
    BY <1>1, ModuleLemma
  <2>4. modules \in Seq(ModuleType)
    BY DEF Inv, TypeOK, ModuleType
  <2>5. modules' = [modules EXCEPT ![Current] = after]
    BY <2>1, <2>3, <2>4
  <2>6. name \in Symbol /\ value \in Value /\ value[1] # "native"
    BY <1>3, <2>3, SourcesAssumption DEF NamespaceSymbol, Symbol, Namespace, Value
  <2> HIDE DEF name, value
  <2>7. scope \in Seq(Local) /\ Indexed(scope) /\ Good(scope, natives)
    BY <2>3, <2>6, AddLocalLemma, GoodAddLemma
  <2> HIDE DEF scope
  <2> DEFINE spaces == Append(Module.namespaces, space)
  <2>8. spaces \in Seq(Seq(Local)) /\ \A n \in DOMAIN spaces : Good(spaces[n], natives)
    BY <1>2, <2>3
  <2>9. after.namespaces = spaces /\ after.scope = scope
    BY <2>3 DEF ModuleType
  <2> HIDE DEF spaces
  <2>10. after \in ModuleType
    BY <2>3, <2>7, <2>8, <2>9 DEF ModuleType
  <2> HIDE DEF after
  <2>11. /\ Good(after.scope, natives') /\ Indexed(after.scope)
         /\ \A n \in DOMAIN after.namespaces : Good(after.namespaces[n], natives')
         /\ space' \in Seq(Local) /\ Indexed(space') /\ Good(space', natives')
    BY <2>1, <2>7, <2>8, <2>9 DEF linked, Indexed, Good
  <2> QED
    BY <1>1, <1>2, <2>1, <2>2, <2>5, <2>10, <2>11, LoadingStep
<1> QED
  BY <1>4, <1>5

(* What steps that leave the natives and namespaces alone keep.            *)
LEMMA SpaceLemma ==
  ASSUME Inv, Grown, UNCHANGED space
  PROVE  space' \in Seq(Local) /\ Indexed(space') /\ Good(space', natives')
  BY DEF Inv, TypeOK, GoodScopes, Grown

LEMMA AppendStep ==
  ASSUME Inv, AppendNext \/ AppendEnds, UNCHANGED length
  PROVE  Inv' /\ IsPrefix(init, init')
<1>1. status = "append" /\ Loading
  BY DEF AppendNext, AppendEnds, Loading
<1>2. Grown
  BY GrownUnchanged DEF Inv, AppendNext, AppendEnds
<1>3. space' \in Seq(Local) /\ Indexed(space') /\ Good(space', natives')
  BY <1>2, SpaceLemma DEF AppendNext, AppendEnds
<1>4. todo \in Seq(Item) /\ todo # <<>> /\ Head(todo).op = "ns" /\ queue \in Seq(Local)
  BY <1>1 DEF Inv, TypeOK, Place
<1>5. Tail(todo) \in Seq(Item)
  BY <1>4, TailLemma
<1>6. CASE AppendNext
  <2> DEFINE scope == AddOne(Module.scope, Head(queue))
             after == [Module EXCEPT !.scope = scope]
  <2>1. /\ queue # <<>> /\ queue' = Tail(queue) /\ status' = "append" /\ Loading'
        /\ modules' = [modules EXCEPT ![Current].scope = AddOne(@, Head(queue))]
        /\ UNCHANGED <<sources, linked, script, imported, todo>>
    BY <1>6 DEF AppendNext, Loading
  <2>2. Head(queue) \in Local /\ Tail(queue) \in Seq(Local)
    BY <1>4, <2>1, TailLemma
  <2>3. /\ Current \in DOMAIN modules /\ Current \in Nat /\ Module = modules[Current]
        /\ Module \in ModuleType /\ Indexed(Module.scope)
        /\ Module.scope \in Seq(Local)
        /\ Good(Module.scope, natives)
        /\ \A n \in DOMAIN Module.namespaces : Good(Module.namespaces[n], natives)
    BY <1>1, ModuleLemma
  <2>4. scope \in Seq(Local) /\ Indexed(scope) /\ Good(scope, natives)
    BY <2>2, <2>3, AddOneGoodLemma
  <2>5. modules' = [modules EXCEPT ![Current] = after]
    BY <2>1, <2>3
  <2> HIDE DEF scope
  <2>6. after \in ModuleType /\ after.scope = scope /\ after.namespaces = Module.namespaces
    BY <2>3, <2>4 DEF ModuleType
  <2> HIDE DEF after
  <2>7. /\ Good(after.scope, natives') /\ Indexed(after.scope)
        /\ \A n \in DOMAIN after.namespaces : Good(after.namespaces[n], natives')
    BY <2>1, <2>3, <2>4, <2>6 DEF linked
  <2> QED
    BY <1>1, <1>2, <1>3, <1>4, <2>1, <2>2, <2>5, <2>6, <2>7, LoadingStep
<1>7. CASE AppendEnds
  <2>1. /\ todo' = Tail(todo) /\ status' = "module" /\ Loading'
        /\ UNCHANGED <<sources, modules, script, imported>>
    BY <1>7 DEF AppendEnds, Loading
  <2> QED
    BY <1>1, <1>2, <1>3, <1>5, <2>1, KeepingStep
<1> QED
  BY <1>6, <1>7

LEMMA GlobalStep ==
  ASSUME Inv, EndOfModule \/ GlobalNext, UNCHANGED length
  PROVE  Inv' /\ IsPrefix(init, init')
<1>1. Loading /\ todo' \in Seq(Item) /\ status' = "globals" /\ Loading'
  BY DEF EndOfModule, GlobalNext, Loading, Inv, TypeOK
<1>2. CASE EndOfModule
  <2>1. /\ queue' = Module.scope
        /\ UNCHANGED <<sources, linked, modules, space, script, imported>>
    BY <1>2 DEF EndOfModule
  <2>2. queue' \in Seq(Local)
    BY <1>1, <2>1, ModuleLemma
  <2>3. Grown
    BY <2>1, GrownUnchanged DEF Inv
  <2>4. space' \in Seq(Local) /\ Indexed(space') /\ Good(space', natives')
    BY <2>1, <2>3, SpaceLemma
  <2> QED
    BY <1>1, <2>1, <2>2, <2>3, <2>4, KeepingStep
<1>3. CASE GlobalNext
  <2>1. /\ status = "globals" /\ queue # <<>> /\ queue' = Tail(queue) /\ init' = AddOne(init, Head(queue))
        /\ UNCHANGED <<sources, natives, entries, modules, space, script, imported>>
    BY <1>3 DEF GlobalNext
  <2>2. Head(queue) \in Local /\ queue' \in Seq(Local)
    BY <2>1, TailLemma DEF Inv, TypeOK
  <2>3. Grown
    BY <2>1, <2>2, GrownGlobal DEF Inv
  <2>4. space' \in Seq(Local) /\ Indexed(space') /\ Good(space', natives')
    BY <2>1, <2>3, SpaceLemma
  <2> QED
    BY <1>1, <2>1, <2>2, <2>3, <2>4, KeepingStep
<1> QED
  BY <1>2, <1>3

(***************************************************************************)
(* The init function                                                       *)
(***************************************************************************)

(* No module is being loaded any more.                                     *)
LEMMA RestStep ==
  ASSUME Inv, UNCHANGED <<sources, linked, modules, space, script, imported>>,
         length' \in 0..MaxScript, todo' \in Seq(Item), status' \in {"loaded", "script", "done"},
         status' = "loaded" => Current > 0,
         status \notin {"import", "fatal"} \/ queue = <<>>,
         \A m \in DOMAIN modules : Ready(modules[m], entries)
  PROVE  Inv' /\ IsPrefix(init, init')
<1>1. Grown
  BY GrownUnchanged DEF Inv
<1>2. TypeOK'
  BY DEF Inv, TypeOK, sources, linked
<1>3. Place' /\ Current' = Current
  BY DEF Place, Loading, Current
<1>4. NativesUnique' /\ GoodScopes'
  BY DEF Inv, NativesUnique, GoodScopes, linked
<1>5. Progress'
  BY <1>3 DEF Progress, linked
<1>6. ScriptScope'
  BY DEF Inv, ScriptScope, Has, ToSet
<1> QED
  BY <1>1, <1>2, <1>3, <1>4, <1>5, <1>6 DEF Inv, Grown

LEMMA AllReadyLemma ==
  ASSUME Inv, ~Loading, status # "fatal"
  PROVE  \A m \in DOMAIN modules : Ready(modules[m], entries)
  BY DEF Inv, Progress

(* All but the current module are ready.                                   *)
LEMMA OthersReadyLemma ==
  ASSUME Inv, Loading, Ready(Module, entries)
  PROVE  \A m \in DOMAIN modules : Ready(modules[m], entries)
  BY ModuleLemma DEF Inv, Progress

LEMMA GlobalsEndStep ==
  ASSUME Inv, GlobalsEnd, UNCHANGED length
  PROVE  Inv' /\ IsPrefix(init, init')
<1>1. /\ status = "globals" /\ Loading /\ todo' = Module.body
      /\ status' = IF Module.body = <<>> THEN "loaded" ELSE "init"
      /\ UNCHANGED <<sources, linked, modules, space, script, imported>>
  BY DEF GlobalsEnd, Loading
<1>2. Module.body \in Seq(Item) /\ Current > 0 /\ length' \in 0..MaxScript
  BY <1>1, ModuleLemma DEF Inv, Place, TypeOK
<1>3. CASE Module.body = <<>>
  <2>1. Ready(Module, entries)
    BY <1>3 DEF Ready
  <2> QED
    BY <1>1, <1>2, <1>3, <2>1, OthersReadyLemma, RestStep
<1>4. CASE Module.body # <<>>
  <2>1. Grown
    BY <1>1, GrownUnchanged DEF Inv
  <2>2. space' \in Seq(Local) /\ Indexed(space') /\ Good(space', natives')
    BY <1>1, <2>1, SpaceLemma
  <2>3. status' = "init" /\ Loading'
    BY <1>1, <1>4 DEF Loading
  <2>4. \A i \in DOMAIN Module.body : Module.body[i] \in ToSet(todo')
    BY <1>1 DEF ToSet
  <2> HIDE DEF Module
  <2> QED
    BY <1>1, <1>2, <2>1, <2>2, <2>3, <2>4, KeepingStep
<1> QED
  BY <1>3, <1>4

(* What the init function has still to do.                                 *)
LEMMA InitLemma ==
  ASSUME Inv, status \in {"init", "link"}
  PROVE  /\ Loading /\ todo \in Seq(Item) /\ Current > 0
         /\ \A i \in DOMAIN Module.body : IsLinked(Module.body[i], entries) \/ Module.body[i] \in ToSet(todo)
  BY DEF Inv, TypeOK, Place, Progress, Loading

LEMMA InitLoadsStep ==
  ASSUME Inv, InitLoads, UNCHANGED length
  PROVE  Inv' /\ IsPrefix(init, init')
<1>1. status = "init" /\ todo # <<>> /\ Head(todo).op = "load-bindings" /\ LoadBindings(Head(todo).lib)
  BY DEF InitLoads, Initializing
<1>2. /\ Loading /\ todo \in Seq(Item) /\ length' \in 0..MaxScript
      /\ \A i \in DOMAIN Module.body : IsLinked(Module.body[i], entries) \/ Module.body[i] \in ToSet(todo)
  BY <1>1, InitLemma DEF Inv, TypeOK
<1>3. CASE Fatal
  BY <1>2, <1>3, FatalStep
<1>4. CASE ~Fatal
  <2>1. /\ Head(todo).lib \in DOMAIN Bindings /\ queue' = Bindings[Head(todo).lib]
        /\ status' = "link" /\ Loading'
        /\ UNCHANGED <<sources, linked, modules, space, script, imported, todo>>
    BY <1>1, <1>4 DEF LoadBindings, Loading
  <2>2. queue' \in Seq(Symbol)
    BY <2>1, SourcesAssumption
  <2>3. Grown
    BY <2>1, GrownUnchanged DEF Inv
  <2>4. space' \in Seq(Local) /\ Indexed(space') /\ Good(space', natives')
    BY <2>1, <2>3, SpaceLemma
  <2>5. \A i \in DOMAIN Module.body : IsLinked(Module.body[i], entries') \/ Module.body[i] \in ToSet(todo')
    BY <1>2, <2>1 DEF linked
  <2> HIDE DEF Module
  <2> QED
    BY <1>1, <1>2, <2>1, <2>2, <2>3, <2>4, <2>5, KeepingStep
<1> QED
  BY <1>3, <1>4

LEMMA InitSetsStep ==
  ASSUME Inv, InitSets, UNCHANGED length
  PROVE  Inv' /\ IsPrefix(init, init')
<1> DEFINE after == [Module EXCEPT !.initialized = TRUE]
<1>1. /\ status = "init" /\ todo # <<>> /\ Head(todo).op = "set-initialized" /\ todo' = Tail(todo)
      /\ modules' = [modules EXCEPT ![Current].initialized = TRUE]
      /\ UNCHANGED <<sources, linked, space, script, imported, queue>>
      /\ status' = "init" /\ Loading'
  BY DEF InitSets, Initializing, Loading
<1>2. /\ Loading /\ todo \in Seq(Item)
      /\ \A i \in DOMAIN Module.body : IsLinked(Module.body[i], entries) \/ Module.body[i] \in ToSet(todo)
  BY <1>1, InitLemma
<1>3. Tail(todo) \in Seq(Item) /\ ToSet(todo) = {Head(todo)} \cup ToSet(Tail(todo))
  BY <1>1, <1>2, TailLemma
<1>4. Grown
  BY <1>1, GrownUnchanged DEF Inv
<1>5. space' \in Seq(Local) /\ Indexed(space') /\ Good(space', natives')
  BY <1>1, <1>4, SpaceLemma
<1>6. /\ Current \in DOMAIN modules /\ Module = modules[Current]
      /\ Module \in ModuleType /\ Indexed(Module.scope)
      /\ Good(Module.scope, natives)
      /\ \A n \in DOMAIN Module.namespaces : Good(Module.namespaces[n], natives)
  BY <1>2, ModuleLemma
<1>7. modules' = [modules EXCEPT ![Current] = after]
  BY <1>1, <1>6
<1>8. /\ after \in ModuleType /\ after.scope = Module.scope
      /\ after.namespaces = Module.namespaces /\ after.body = Module.body
  BY <1>6 DEF ModuleType
<1> HIDE DEF after
<1>9. /\ Good(after.scope, natives') /\ Indexed(after.scope)
      /\ \A n \in DOMAIN after.namespaces : Good(after.namespaces[n], natives')
  BY <1>1, <1>6, <1>8 DEF linked
<1>10. IsLinked(Head(todo), entries)
  BY <1>1 DEF IsLinked
<1>11. \A i \in DOMAIN after.body : IsLinked(after.body[i], entries') \/ after.body[i] \in ToSet(todo')
  BY <1>1, <1>2, <1>3, <1>8, <1>10 DEF linked
<1> QED
  BY <1>1, <1>2, <1>3, <1>4, <1>5, <1>7, <1>8, <1>9, <1>11, LoadingStep

LEMMA InitEndsStep ==
  ASSUME Inv, InitEnds, UNCHANGED length
  PROVE  Inv' /\ IsPrefix(init, init')
<1>1. status = "init" /\ todo = <<>>
  BY DEF InitEnds
<1>2. /\ Loading /\ todo \in Seq(Item) /\ Current > 0 /\ length' \in 0..MaxScript
      /\ \A i \in DOMAIN Module.body : IsLinked(Module.body[i], entries) \/ Module.body[i] \in ToSet(todo)
  BY <1>1, InitLemma DEF Inv, TypeOK
<1>3. CASE Fatal
  BY <1>2, <1>3, FatalStep
<1>4. CASE ~Fatal
  <2>1. /\ Module.initialized /\ status' = "loaded"
        /\ UNCHANGED <<sources, linked, modules, space, script, imported, todo>>
    BY <1>4 DEF InitEnds
  <2>2. ToSet(todo) = {}
    BY <1>1 DEF ToSet
  <2>3. Ready(Module, entries)
    BY <1>2, <2>1, <2>2 DEF Ready
  <2> QED
    BY <1>1, <1>2, <2>1, <2>3, OthersReadyLemma, RestStep
<1> QED
  BY <1>3, <1>4

(* Linking the natives of the program or of a library.                     *)
LEMMA LinkStep ==
  ASSUME Inv, LinkNext, UNCHANGED length
  PROVE  Inv' /\ IsPrefix(init, init')
<1> DEFINE symbol == Head(queue)
<1>1. status \in {"natives", "link"} /\ queue # <<>> /\ Link(symbol)
  BY DEF LinkNext
<1>2. queue \in Seq(Symbol) /\ todo \in Seq(Item) /\ length' \in 0..MaxScript
  BY <1>1 DEF Inv, TypeOK
<1>3. symbol \in Symbol /\ Tail(queue) \in Seq(Symbol) /\ ToSet(queue) = {symbol} \cup ToSet(Tail(queue))
  BY <1>1, <1>2, TailLemma
<1> HIDE DEF symbol
<1>4. CASE Fatal
  BY <1>2, <1>4, FatalStep
<1>5. CASE ~Fatal
  <2>1. /\ queue' = Tail(queue) /\ status' = status
        /\ UNCHANGED <<sources, modules, space, script, imported, todo>>
    BY <1>1, <1>5 DEF Link
  <2>2. Grown /\ entries' = Append(entries, symbol)
    BY <1>1, <1>3, <2>1, GrownLink DEF Inv
  <2>3. space' \in Seq(Local) /\ Indexed(space') /\ Good(space', natives')
    BY <2>1, <2>2, SpaceLemma
  <2>4. symbol \in ToSet(entries')
    <3>1. entries \in Seq(Symbol)
      BY DEF Inv, TypeOK
    <3>2. Len(entries) + 1 \in DOMAIN entries' /\ entries'[Len(entries) + 1] = symbol
      BY <1>3, <2>2, <3>1
    <3> QED
      BY <3>2 DEF ToSet
  <2>5. CASE status = "link"
    <3>1. /\ Loading /\ Loading' /\ todo # <<>> /\ Head(todo).op = "load-bindings"
          /\ Head(todo).lib \in DOMAIN Bindings
          /\ ToSet(Bindings[Head(todo).lib]) \subseteq ToSet(entries) \cup ToSet(queue)
      BY <2>1, <2>5 DEF Loading, Inv, Place, Progress
    <3>2. ToSet(Bindings[Head(todo').lib]) \subseteq ToSet(entries') \cup ToSet(queue')
      BY <1>3, <2>1, <2>2, <2>4, <3>1 DEF Grown
    <3>3. \A i \in DOMAIN Module.body : IsLinked(Module.body[i], entries') \/ Module.body[i] \in ToSet(todo')
      BY <2>1, <2>2, <2>5, InitLemma, ReadyLemma
    <3> HIDE DEF Module
    <3> QED
      BY <1>2, <1>3, <2>1, <2>2, <2>3, <2>5, <3>1, <3>2, <3>3, KeepingStep
  <2>6. CASE status = "natives"
    <3>1. ~Loading /\ ~Loading' /\ status' = "natives" /\ Current' = Current
      BY <2>1, <2>6 DEF Loading, Current
    <3>2. TypeOK'
      BY <1>2, <1>3, <2>1, <2>2, <2>3, <3>1 DEF Inv, TypeOK, Grown, NativeType, sources
    <3>3. Place'
      BY <3>1 DEF Place
    <3>4. GoodScopes'
      BY <2>1, <2>2, <2>3 DEF Inv, GoodScopes, Grown
    <3>5. Progress'
      <4>1. \A m \in DOMAIN modules : Ready(modules[m], entries')
        BY <2>2, <2>6, <3>1, AllReadyLemma, ReadyLemma
      <4> QED
        BY <2>1, <3>1, <4>1 DEF Progress
    <3>6. ScriptScope'
      BY <2>1, <2>6 DEF Inv, ScriptScope, Has
    <3> QED
      BY <2>2, <3>2, <3>3, <3>4, <3>5, <3>6 DEF Inv, Grown
  <2> QED
    BY <1>1, <2>5, <2>6
<1> QED
  BY <1>4, <1>5

LEMMA LinkEndsStep ==
  ASSUME Inv, LinkEnds, UNCHANGED length
  PROVE  Inv' /\ IsPrefix(init, init')
<1>1. /\ status = "link" /\ queue = <<>> /\ todo' = Tail(todo) /\ status' = "init" /\ Loading'
      /\ UNCHANGED <<sources, linked, modules, space, script, imported>>
  BY DEF LinkEnds, Loading
<1>2. /\ Loading /\ todo \in Seq(Item) /\ todo # <<>> /\ Head(todo).lib \in DOMAIN Bindings
      /\ ToSet(Bindings[Head(todo).lib]) \subseteq ToSet(entries) \cup ToSet(queue)
      /\ \A i \in DOMAIN Module.body : IsLinked(Module.body[i], entries) \/ Module.body[i] \in ToSet(todo)
  BY <1>1, InitLemma DEF Inv, Place, Progress
<1>3. Tail(todo) \in Seq(Item) /\ ToSet(todo) = {Head(todo)} \cup ToSet(Tail(todo))
  BY <1>2, TailLemma
<1>4. ToSet(queue) = {}
  BY <1>1 DEF ToSet
<1>5. IsLinked(Head(todo), entries)
  BY <1>2, <1>4 DEF IsLinked
<1>6. Grown
  BY <1>1, GrownUnchanged DEF Inv
<1>7. space' \in Seq(Local) /\ Indexed(space') /\ Good(space', natives')
  BY <1>1, <1>6, SpaceLemma
<1>8. \A i \in DOMAIN Module.body : IsLinked(Module.body[i], entries') \/ Module.body[i] \in ToSet(todo')
  BY <1>1, <1>2, <1>3, <1>5 DEF linked
<1> HIDE DEF Module
<1> QED
  BY <1>1, <1>2, <1>3, <1>6, <1>7, <1>8, KeepingStep

(***************************************************************************)
(* The registry and the script                                             *)
(***************************************************************************)

(* Module::LoadFrom registers a module that nothing refers to yet.         *)
LEMMA LoadFromStep ==
  ASSUME Inv, status \in {"natives", "script"}, NEW file \in Symbol, file[1] \in Libraries \cup {"_kernel"},
         LoadFrom(file), length' \in 0..MaxScript
  PROVE  Inv' /\ IsPrefix(init, init')
<1> DEFINE new == NewModule(file)
<1>1. /\ modules' = Append(modules, new) /\ todo' = files[file[1]] /\ status' = "module"
      /\ UNCHANGED <<sources, linked, space, script, imported, queue>> /\ ~Loading /\ Loading'
  BY DEF LoadFrom, Loading
<1>2. modules \in Seq(ModuleType) /\ imported \subseteq DOMAIN modules
  BY DEF Inv, TypeOK, ModuleType
<1>3. new \in ModuleType /\ new.scope = <<>> /\ new.namespaces = <<>>
  <2>1. Stem(file) \in Symbol
    BY SourcesAssumption DEF Stem, Symbol
  <2> QED
    BY <2>1 DEF NewModule, ModuleType
<1> HIDE DEF new
<1>4. /\ modules' \in Seq(ModuleType) /\ Len(modules') = Len(modules) + 1 /\ Len(modules) \in Nat
      /\ DOMAIN modules = 1..Len(modules) /\ DOMAIN modules' = 1..(Len(modules) + 1)
      /\ modules'[Len(modules) + 1] = new
      /\ \A m \in DOMAIN modules : modules'[m] = modules[m]
  BY <1>1, <1>2, <1>3
<1>5. Current' = Len(modules) + 1 /\ Current' \notin imported /\ Current' \notin DOMAIN modules
  BY <1>2, <1>4 DEF Current
<1>6. Grown
  BY <1>1, GrownUnchanged DEF Inv
<1>7. TypeOK'
  <2>1. todo' \in Seq(Item)
    BY <1>1, SourcesAssumption DEF Inv, TypeOK
  <2>2. \A m \in DOMAIN modules' : Indexed(modules'[m].scope)
    <3>1. Indexed(new.scope)
      BY <1>3 DEF Indexed
    <3>2. \A m \in DOMAIN modules : Indexed(modules[m].scope)
      BY DEF Inv, TypeOK
    <3> QED
      BY <1>4, <3>1, <3>2
  <2>3. home' \in BOOLEAN /\ kernel' \in BOOLEAN /\ files' \in [Libraries \cup {"_kernel"} -> Contents]
    BY <1>1 DEF Inv, TypeOK, sources
  <2>4. /\ script' \in Seq(Local) /\ space' \in Seq(Local) /\ Indexed(script') /\ Indexed(space')
        /\ imported' \subseteq DOMAIN modules'
    BY <1>1, <1>2, <1>4 DEF Inv, TypeOK
  <2>5. /\ entries' \in Seq(Symbol) /\ init' \in Seq(Local) /\ Indexed(init')
        /\ natives' \in Seq([symbol : Symbol, entry : 0..Len(entries')])
    BY <1>6 DEF Grown, NativeType
  <2>6. modules' \in Seq([name : Symbol, scope : Seq(Local), namespaces : Seq(Seq(Local)),
                          body : Seq(Item), initialized : BOOLEAN])
    BY <1>4 DEF ModuleType
  <2>7. length' \in 0..MaxScript /\ status' = "module"
    BY <1>1
  <2> QED
    BY <2>1, <2>2, <2>3, <2>4, <2>5, <2>6, <2>7, Zenon DEF TypeOK
<1>8. Place'
  BY <1>1, <1>4, <1>5 DEF Place
<1>9. GoodScopes'
  <2>1. \A m \in DOMAIN modules' :
          /\ Good(modules'[m].scope, natives)
          /\ \A n \in DOMAIN modules'[m].namespaces : Good(modules'[m].namespaces[n], natives)
    <3>1. /\ Good(new.scope, natives)
          /\ \A n \in DOMAIN new.namespaces : Good(new.namespaces[n], natives)
      BY <1>3 DEF Good
    <3> QED
      BY <1>4, <3>1 DEF Inv, GoodScopes
  <2> QED
    BY <1>1, <2>1 DEF Inv, GoodScopes, linked
<1>10. Progress'
  <2>1. \A m \in DOMAIN modules : Ready(modules[m], entries)
    BY <1>1, AllReadyLemma
  <2> QED
    BY <1>1, <1>4, <1>5, <2>1 DEF Progress, linked
<1>11. ScriptScope'
  BY <1>1, <1>2, <1>4 DEF Inv, ScriptScope, Has
<1> QED
  BY <1>6, <1>7, <1>8, <1>9, <1>10, <1>11 DEF Inv, Grown

LEMMA ImportModuleStep ==
  ASSUME Inv, status \in {"loaded", "script"}, NEW m \in DOMAIN modules, ImportModule(m),
         length' \in 0..MaxScript
  PROVE  Inv' /\ IsPrefix(init, init')
<1>1. /\ imported' = imported \cup {m} /\ queue' = modules[m].scope /\ status' = "import"
      /\ UNCHANGED <<sources, linked, modules, space, script, todo>> /\ ~Loading /\ ~Loading'
  BY DEF ImportModule, Loading
<1>2. Grown
  BY <1>1, GrownUnchanged DEF Inv
<1>3. TypeOK'
  <2>1. queue' \in Seq(Local)
    <3>1. modules \in Seq(ModuleType)
      BY DEF Inv, TypeOK, ModuleType
    <3>2. modules[m] \in ModuleType
      BY <3>1
    <3> QED
      BY <1>1, <3>2 DEF ModuleType
  <2> QED
    BY <1>1, <2>1 DEF Inv, TypeOK, sources, linked
<1>4. Place' /\ Current' = Current
  BY <1>1 DEF Place, Current
<1>5. NativesUnique' /\ GoodScopes'
  BY <1>1 DEF Inv, NativesUnique, GoodScopes, linked
<1>6. Progress'
  BY <1>1, <1>4, AllReadyLemma DEF Progress, linked
<1>7. ScriptScope'
  <2>1. \A i \in DOMAIN modules[m].scope : modules[m].scope[i] \in ToSet(queue')
    BY <1>1 DEF ToSet
  <2> QED
    BY <1>1, <2>1 DEF Inv, ScriptScope, Has
<1> QED
  BY <1>2, <1>3, <1>4, <1>5, <1>6, <1>7 DEF Inv, Grown

(* The script gets a local more, of a name that it did not have.           *)
LEMMA ScriptLemma ==
  ASSUME Inv, NEW name \in Symbol, name \notin Names(script), NEW value \in Value, value[1] # "native",
         script' = AddLocal(script, name, value)
  PROVE  /\ script' \in Seq(Local) /\ Indexed(script')
         /\ \A i \in DOMAIN script' : ~IsNative(script'[i])
         /\ \A i, j \in DOMAIN script' : script'[i].name = script'[j].name => i = j
         /\ \A local : Has(script, local) => Has(script', local)
         /\ \E i \in DOMAIN script' : script'[i].name = name /\ script'[i].value = value
<1>1. /\ script \in Seq(Local) /\ Indexed(script)
      /\ \A i \in DOMAIN script : ~IsNative(script[i])
      /\ \A i, j \in DOMAIN script : script[i].name = script[j].name => i = j
  BY DEF Inv, TypeOK, ScriptScope
<1>2. /\ script' \in Seq(Local) /\ Indexed(script')
      /\ Names(script') = Names(script) \cup {name}
      /\ DOMAIN script \subseteq DOMAIN script'
      /\ \A i \in DOMAIN script : script'[i] = script[i]
      /\ \A i \in DOMAIN script' : i \in DOMAIN script \/ (script'[i].name = name /\ script'[i].value = value)
      /\ \A i, j \in DOMAIN script' : i \notin DOMAIN script /\ j \notin DOMAIN script => i = j
  BY <1>1, AddLocalLemma
<1>3. \A i \in DOMAIN script : script[i].name # name
  BY DEF Names
<1>4. \A i \in DOMAIN script' : ~IsNative(script'[i])
  BY <1>1, <1>2 DEF IsNative
<1>5. \A i, j \in DOMAIN script' : script'[i].name = script'[j].name => i = j
  BY <1>1, <1>2, <1>3
<1>6. \A local : Has(script, local) => Has(script', local)
  BY <1>2 DEF Has
<1>7. \E i \in DOMAIN script' : script'[i].name = name /\ script'[i].value = value
  <2>1. PICK i \in DOMAIN script' : script'[i].name = name
    BY <1>2 DEF Names
  <2> QED
    BY <1>2, <1>3, <2>1
<1> QED
  BY <1>2, <1>4, <1>5, <1>6, <1>7

LEMMA ImportNextStep ==
  ASSUME Inv, ImportNext, UNCHANGED length
  PROVE  Inv' /\ IsPrefix(init, init')
<1> DEFINE local == Head(queue)
<1>1. status = "import" /\ queue # <<>>
  BY DEF ImportNext
<1>2. queue \in Seq(Local) /\ script \in Seq(Local) /\ length' \in 0..MaxScript
  BY <1>1 DEF Inv, TypeOK
<1>3. /\ local \in Local /\ Tail(queue) \in Seq(Local) /\ ToSet(queue) = {local} \cup ToSet(Tail(queue))
      /\ local.name \in Symbol /\ local.value \in Value
  <2>1. local \in Local /\ Tail(queue) \in Seq(Local) /\ ToSet(queue) = {local} \cup ToSet(Tail(queue))
    BY <1>1, <1>2, TailLemma
  <2> QED
    BY <2>1 DEF Local
<1> HIDE DEF local
<1>4. CASE Fatal
  BY <1>2, <1>4, FatalStep
<1>5. CASE ~Fatal
  <2>1. /\ IsNative(local) \/ local.name \notin Names(script)
        /\ script' = AddOne(script, local) /\ queue' = Tail(queue) /\ status' = "import"
        /\ UNCHANGED <<sources, linked, modules, space, imported, todo>> /\ ~Loading /\ ~Loading'
    BY <1>1, <1>5 DEF ImportNext, Loading, local
  <2>2. Grown
    BY <2>1, GrownUnchanged DEF Inv
  <2>3. /\ script' \in Seq(Local) /\ Indexed(script')
        /\ \A i \in DOMAIN script' : ~IsNative(script'[i])
        /\ \A i, j \in DOMAIN script' : script'[i].name = script'[j].name => i = j
        /\ \A l : Has(script, l) => Has(script', l)
        /\ IsNative(local) \/ Has(script', local)
    <3>1. CASE IsNative(local)
      <4>1. script' = script
        BY <1>2, <1>3, <2>1, <3>1, AddOneLemma
      <4> QED
        BY <3>1, <4>1 DEF Inv, TypeOK, ScriptScope
    <3>2. CASE ~IsNative(local)
      <4>1. script' = AddLocal(script, local.name, local.value)
        BY <1>2, <1>3, <2>1, <3>2, AddOneLemma
      <4>2. local.value[1] # "native" /\ local.name \notin Names(script)
        BY <2>1, <3>2 DEF IsNative
      <4>3. /\ script' \in Seq(Local) /\ Indexed(script')
            /\ \A i \in DOMAIN script' : ~IsNative(script'[i])
            /\ \A i, j \in DOMAIN script' : script'[i].name = script'[j].name => i = j
            /\ \A l : Has(script, l) => Has(script', l)
            /\ \E i \in DOMAIN script' : script'[i].name = local.name /\ script'[i].value = local.value
        BY <1>3, <4>1, <4>2, ScriptLemma
      <4> QED
        BY <4>3 DEF Has
    <3> QED
      BY <3>1, <3>2
  <2>4. TypeOK'
    BY <1>3, <2>1, <2>3 DEF Inv, TypeOK, sources, linked
  <2>5. Place' /\ Current' = Current
    BY <2>1 DEF Place, Current
  <2>6. NativesUnique' /\ GoodScopes'
    BY <2>1 DEF Inv, NativesUnique, GoodScopes, linked
  <2>7. Progress'
    BY <1>1, <2>1, <2>5, AllReadyLemma DEF Progress, linked
  <2>8. ScriptScope'
    <3>1. ASSUME NEW m \in imported, NEW i \in DOMAIN modules[m].scope
          PROVE  \/ IsNative(modules[m].scope[i]) \/ Has(script', modules[m].scope[i])
                 \/ modules[m].scope[i] \in ToSet(queue')
      <4>1. \/ IsNative(modules[m].scope[i]) \/ Has(script, modules[m].scope[i])
            \/ modules[m].scope[i] \in ToSet(queue)
        BY DEF Inv, ScriptScope
      <4> QED
        BY <1>3, <2>1, <2>3, <4>1
    <3> QED
      BY <2>1, <2>3, <3>1 DEF ScriptScope
  <2> QED
    BY <2>2, <2>4, <2>5, <2>6, <2>7, <2>8 DEF Inv, Grown
<1> QED
  BY <1>4, <1>5

LEMMA ScriptDefnStep ==
  ASSUME Inv, status = "script", NEW item \in Item, item.op = "defn", ScriptDefn(item),
         length' \in 0..MaxScript
  PROVE  Inv' /\ IsPrefix(init, init')
<1> DEFINE symbol == CreateSymbol("", item.symbol)
           value  == <<"lambda", 0, "", symbol>>
<1>1. symbol \in Symbol /\ value \in Value /\ value[1] # "native"
  <2>1. item.symbol \in Symbol
    BY ItemLemma DEF Member
  <2>2. symbol = item.symbol
    BY DEF CreateSymbol
  <2> QED
    BY <2>1, <2>2, SourcesAssumption DEF Value
<1>2. CASE Fatal
  BY <1>2, FatalStep
<1>3. CASE ~Fatal
  <2>1. /\ symbol \notin Names(script) /\ script' = AddLocal(script, symbol, value)
        /\ UNCHANGED <<sources, linked, modules, space, imported, todo, queue, status>>
    BY <1>3 DEF ScriptDefn, Taken, Definition
  <2> HIDE DEF symbol, value
  <2>2. /\ script' \in Seq(Local) /\ Indexed(script')
        /\ \A i \in DOMAIN script' : ~IsNative(script'[i])
        /\ \A i, j \in DOMAIN script' : script'[i].name = script'[j].name => i = j
        /\ \A local : Has(script, local) => Has(script', local)
    BY <1>1, <2>1, ScriptLemma
  <2>3. Grown /\ ~Loading /\ ~Loading'
    BY <2>1, GrownUnchanged DEF Inv, Loading
  <2>4. TypeOK'
    BY <2>1, <2>2 DEF Inv, TypeOK, sources, linked
  <2>5. Place' /\ Current' = Current
    BY <2>1, <2>3 DEF Place, Current
  <2>6. NativesUnique' /\ GoodScopes'
    BY <2>1 DEF Inv, NativesUnique, GoodScopes, linked
  <2>7. Progress'
    BY <2>1, <2>3, <2>5, AllReadyLemma DEF Progress, linked
  <2>8. ScriptScope'
    BY <2>1, <2>2 DEF Inv, ScriptScope
  <2> QED
    BY <2>3, <2>4, <2>5, <2>6, <2>7, <2>8 DEF Inv, Grown
<1> QED
  BY <1>2, <1>3

(* A set of numbers up to n, if it is not empty, has a least one.           *)
LEMMA LeastLemma ==
  ASSUME NEW n \in Nat, NEW A \in SUBSET (1..n), NEW a \in A
  PROVE  \E m \in A : \A k \in A : m <= k
<1> DEFINE less == OpToRel(<, Nat)
<1>1. IsWellFoundedOn(less, Nat)
  BY NatLessThanWellFounded
<1>2. \A x, y \in Nat : x < y => <<x, y>> \in less
  BY DEF OpToRel
<1> HIDE DEF less
<1>3. A \subseteq Nat /\ A # {}
  OBVIOUS
<1>4. PICK m \in A : \A k \in A : ~(<<k, m>> \in less)
  BY <1>1, <1>3, WFMin
<1>5. ASSUME NEW k \in A PROVE m <= k
  <2>1. k \in Nat /\ m \in Nat /\ ~(k < m)
    BY <1>2, <1>3, <1>4
  <2> QED
    BY <2>1
<1> QED
  BY <1>5

LEMMA FirstLemma ==
  ASSUME Inv, NEW file, Found(file) # {}
  PROVE  First(Found(file)) \in DOMAIN modules
<1>1. Found(file) \subseteq DOMAIN modules /\ DOMAIN modules = 1..Len(modules) /\ Len(modules) \in Nat
  BY DEF Found, Inv, TypeOK
<1>2. PICK n : n \in Found(file)
  OBVIOUS
<1>3. \E m \in Found(file) : \A k \in Found(file) : m <= k
  BY <1>1, <1>2, LeastLemma
<1> QED
  BY <1>1, <1>3 DEF First

LEMMA ScriptStep ==
  ASSUME Inv, NEW item \in ScriptItems, ParseScript(item)
  PROVE  Inv' /\ IsPrefix(init, init')
<1>1. status = "script" /\ length < MaxScript /\ length' = length + 1 /\ item \in Item /\ ScriptForm(item)
  BY SourcesAssumption DEF ParseScript
<1>2. length' \in 0..MaxScript
  <2>1. length \in 0..MaxScript /\ MaxScript \in Nat
    BY SourcesAssumption DEF Inv, TypeOK
  <2> QED
    BY <1>1, <2>1
<1>3. CASE Fatal
  BY <1>2, <1>3, FatalStep
<1>4. CASE item.op = "import" /\ FindOrLoad(item.file) /\ ~Fatal
  <2>1. item.file \in Symbol
    BY <1>1, <1>4, ItemLemma
  <2>2. CASE Found(item.file) # {}
    BY <1>1, <1>2, <1>4, <2>2, FirstLemma, ImportModuleStep DEF FindOrLoad
  <2>3. CASE Found(item.file) = {}
    <3>1. PICK lib \in Libraries : item.file = <<lib, "cl">>
      BY <1>4, <2>3 DEF FindOrLoad
    <3>2. item.file[1] \in Libraries /\ LoadFrom(item.file)
      BY <1>4, <2>3, <3>1 DEF FindOrLoad
    <3> QED
      BY <1>1, <1>2, <2>1, <3>2, LoadFromStep
  <2> QED
    BY <2>2, <2>3
<1>5. CASE item.op = "defn" /\ ScriptDefn(item)
  BY <1>1, <1>2, <1>5, ScriptDefnStep
<1> QED
  BY <1>1, <1>3, <1>4, <1>5 DEF ScriptForm, ScriptNamespace, ScriptNative

(* The steps between modules and forms.                                    *)
LEMMA BetweenStep ==
  ASSUME Inv, LoadKernelModule \/ Loaded \/ ImportEnds \/ EndOfScript, UNCHANGED length
  PROVE  Inv' /\ IsPrefix(init, init')
<1>1. ~Loading /\ status \in {"natives", "loaded", "import", "script"} /\ (status = "import" => queue = <<>>)
  BY DEF LoadKernelModule, Loaded, ImportEnds, EndOfScript, Loading
<1>2. length' \in 0..MaxScript /\ todo \in Seq(Item)
  BY DEF Inv, TypeOK
<1>3. \A m \in DOMAIN modules : Ready(modules[m], entries)
  BY <1>1, AllReadyLemma
<1>4. CASE /\ status' \in {"script", "done"}
           /\ UNCHANGED <<sources, linked, modules, space, script, imported, todo, queue>>
  BY <1>1, <1>2, <1>3, <1>4, RestStep
<1>5. CASE LoadKernelModule /\ LoadFrom(<<"_kernel", "cl">>)
  <2>1. <<"_kernel", "cl">> \in Symbol /\ <<"_kernel", "cl">>[1] \in Libraries \cup {"_kernel"}
    BY SourcesAssumption DEF Symbol
  <2>2. status \in {"natives", "script"}
    BY <1>5 DEF LoadKernelModule
  <2> QED
    BY <1>2, <1>5, <2>1, <2>2, LoadFromStep
<1>6. CASE Loaded /\ ImportModule(Current)
  BY <1>2, <1>6, ModuleLemma, ImportModuleStep DEF Loaded
<1> QED
  BY <1>4, <1>5, <1>6 DEF LoadKernelModule, Loaded, ImportEnds, EndOfScript

LEMMA StepLemma ==
  ASSUME Inv, [Next]_vars
  PROVE  Inv' /\ IsPrefix(init, init')
<1>1. CASE UNCHANGED vars
  <2>1. IsPrefix(init, init')
    BY <1>1, PrefixLemma DEF vars, linked, Inv, TypeOK
  <2>2. TypeOK' /\ NativesUnique' /\ GoodScopes'
    BY <1>1 DEF vars, linked, sources, Inv, TypeOK, NativesUnique, GoodScopes
  <2>3. Place' /\ Current' = Current /\ Module' = Module /\ Loading' = Loading
    BY <1>1 DEF vars, Inv, Place, Current, Module, Loading
  <2>4. Progress' /\ ScriptScope'
    BY <1>1, <2>3 DEF vars, linked, Inv, Progress, ScriptScope
  <2> QED
    BY <2>1, <2>2, <2>3, <2>4 DEF Inv
<1>2. CASE \E item \in ScriptItems : ParseScript(item)
  BY <1>2, ScriptStep
<1>3. CASE ModuleStep /\ UNCHANGED length
  <2>1. CASE LinkNext
    BY <1>3, <2>1, LinkStep
  <2>2. CASE LinkEnds
    BY <1>3, <2>2, LinkEndsStep
  <2>3. CASE LoadKernelModule \/ Loaded \/ ImportEnds \/ EndOfScript
    BY <1>3, <2>3, BetweenStep
  <2>4. CASE ParseDefinition
    BY <1>3, <2>4, DefinitionStep
  <2>5. CASE ParseInitExpr
    BY <1>3, <2>5, InitExprStep
  <2>6. CASE ParseUnexpected
    <3>1. length' \in 0..MaxScript
      BY <1>3 DEF Inv, TypeOK
    <3> QED
      BY <2>6, <3>1, FatalStep DEF ParseUnexpected
  <2>7. CASE ParseDefNamespace
    BY <1>3, <2>7, DefNamespaceStep
  <2>8. CASE ParseMember
    BY <1>3, <2>8, MemberStep
  <2>9. CASE EndOfNamespace
    BY <1>3, <2>9, EndOfNamespaceStep
  <2>10. CASE AppendNext \/ AppendEnds
    BY <1>3, <2>10, AppendStep
  <2>11. CASE EndOfModule \/ GlobalNext
    BY <1>3, <2>11, GlobalStep
  <2>12. CASE GlobalsEnd
    BY <1>3, <2>12, GlobalsEndStep
  <2>13. CASE InitLoads
    BY <1>3, <2>13, InitLoadsStep
  <2>14. CASE InitSets
    BY <1>3, <2>14, InitSetsStep
  <2>15. CASE InitEnds
    BY <1>3, <2>15, InitEndsStep
  <2>16. CASE ImportNext
    BY <1>3, <2>16, ImportNextStep
  <2> QED
    BY <1>3, <2>1, <2>2, <2>3, <2>4, <2>5, <2>6, <2>7, <2>8, <2>9, <2>10, <2>11, <2>12, <2>13,
       <2>14, <2>15, <2>16 DEF ModuleStep
<1> QED
  BY <1>1, <1>2, <1>3 DEF Next

LEMMA InitialLemma == Init => Inv
<1> SUFFICES ASSUME Init PROVE Inv
  OBVIOUS
<1>1. TypeOK
  <2>1. /\ \A S : <<>> \in Seq(S)
        /\ DOMAIN <<>> = {} /\ Len(<<>>) = 0
    OBVIOUS
  <2>2. queue \in Seq(Symbol) /\ length \in 0..MaxScript
    <3>1. MaxScript \in Nat /\ Builtins \in Seq(Symbol)
      BY SourcesAssumption
    <3>2. queue = Builtins /\ length = 0
      BY DEF Init
    <3> QED
      BY <3>1, <3>2
  <2>3. Indexed(<<>>)
    BY <2>1 DEF Indexed
  <2> QED
    BY <2>1, <2>2, <2>3 DEF Init, TypeOK
<1>2. Place /\ Progress
  BY DEF Init, Place, Progress, Loading
<1>3. NativesUnique /\ GoodScopes /\ ScriptScope
  BY DEF Init, NativesUnique, GoodScopes, ScriptScope, Symbols, Good
<1> QED
  BY <1>1, <1>2, <1>3 DEF Inv

(***************************************************************************)
(* Theorems                                                                *)
(***************************************************************************)

(* The inductive invariant of loading and importing modules.               *)
THEOREM Invariance == Spec => []Inv
<1>1. Init => Inv
  BY InitialLemma
<1>2. Inv /\ [Next]_vars => Inv'
  BY StepLemma
<1> QED
  BY <1>1, <1>2, PTL DEF Spec

(* The types of the natives, scopes, modules and loops of the parser: a    *)
(* native is linked to an entry there is, and a local knows its place.     *)
THEOREM Types == Spec => []TypeOK
<1>1. Inv => TypeOK
  BY DEF Inv
<1> QED
  BY <1>1, Invariance, PTL

(* FindOrCreate and Link keep natives and entries one to one, whichever    *)
(* modules and libraries name them and in whatever order.                  *)
THEOREM Natives == Spec => []NativesUnique
<1>1. Inv => NativesUnique
  BY DEF Inv
<1> QED
  BY <1>1, Invariance, PTL

(* No script sees a module of which the init function, or a library that   *)
(* it loads, is not done.                                                  *)
THEOREM Readiness == Spec => []ImportsReady
<1>1. ASSUME Inv PROVE ImportsReady
  <2>1. \A m \in imported : m \in DOMAIN modules /\ Ready(modules[m], entries)
    BY <1>1 DEF Inv, TypeOK, Progress
  <2> QED
    BY <2>1 DEF ImportsReady, Ready, IsLinked
<1> QED
  BY <1>1, Invariance, PTL

(* The local that is found under a name: the script's, or the runtime's.   *)
LEMMA LookupLemma ==
  ASSUME NEW name
  PROVE  /\ name \in Names(script) => /\ InScope(<<script, init>>, name)
                                      /\ \E i \in DOMAIN script :
                                           script[i].name = name /\ Lookup(<<script, init>>, name) = script[i]
         /\ name \notin Names(script) /\ name \in Names(init) =>
              /\ InScope(<<script, init>>, name)
              /\ \E i \in DOMAIN init : init[i].name = name /\ Lookup(<<script, init>>, name) = init[i]
<1> DEFINE chain == <<script, init>>
           Holds(d) == name \in Names(chain[d]) /\ \A e \in 1..(d - 1) : name \notin Names(chain[e])
           depth == CHOOSE d \in DOMAIN chain : Holds(d)
<1>1. DOMAIN chain = 1..2 /\ chain[1] = script /\ chain[2] = init
  OBVIOUS
<1>2. Lookup(chain, name) = chain[depth][Find(chain[depth], name)]
  BY DEF Lookup
<1>3. \A scope : name \in Names(scope) =>
        Find(scope, name) \in DOMAIN scope /\ scope[Find(scope, name)].name = name
  BY DEF Names, Find
<1> HIDE DEF chain
<1>4. CASE name \in Names(script)
  <2>1. Holds(1) /\ \A d \in DOMAIN chain : Holds(d) => d = 1
    BY <1>1, <1>4
  <2>2. depth = 1
    BY <1>1, <2>1
  <2>3. InScope(chain, name)
    BY <1>1, <1>4 DEF InScope
  <2> QED
    BY <1>1, <1>2, <1>3, <1>4, <2>2, <2>3 DEF chain
<1>5. CASE name \notin Names(script) /\ name \in Names(init)
  <2>1. Holds(2) /\ \A d \in DOMAIN chain : Holds(d) => d = 2
    BY <1>1, <1>5
  <2>2. depth = 2
    BY <1>1, <2>1
  <2>3. InScope(chain, name)
    BY <1>1, <1>5 DEF InScope
  <2> QED
    BY <1>1, <1>2, <1>3, <1>5, <2>2, <2>3 DEF chain
<1> QED
  BY <1>4, <1>5

(* A script finds every name of the modules it has imported, and finds it  *)
(* with the value it has there.                                            *)
THEOREM Resolution == Spec => []ImportsResolve
<1>1. ASSUME Inv, status \in {"script", "done"}, NEW m \in imported, NEW local \in Members(m)
      PROVE  /\ InScope(<<script, init>>, local.name)
             /\ \/ Lookup(<<script, init>>, local.name).value = local.value
                \/ IsNative(local) /\ ~IsNative(Lookup(<<script, init>>, local.name))
  <2> DEFINE found == Lookup(<<script, init>>, local.name)
  <2>1. m \in DOMAIN modules
    BY <1>1 DEF Inv, TypeOK
  <2>2. CASE IsNative(local)
    <3>1. \E k \in DOMAIN natives : local.value = Native(k) /\ natives[k].symbol = local.name
      <4>1. \E scope : Good(scope, natives) /\ \E i \in DOMAIN scope : scope[i] = local
        BY <1>1, <2>1 DEF Members, Inv, GoodScopes
      <4> QED
        BY <2>2, <4>1 DEF Good
    <3>2. PICK k \in DOMAIN natives : local.value = Native(k) /\ natives[k].symbol = local.name
      BY <3>1
    <3>3. local.name \in Names(init)
      BY <1>1, <3>2 DEF Inv, GoodScopes, Symbols
    <3>4. CASE local.name \in Names(script)
      <4>1. PICK i \in DOMAIN script : found = script[i]
        BY <3>4, LookupLemma
      <4> QED
        BY <1>1, <2>2, <3>4, <4>1, LookupLemma DEF Inv, ScriptScope
    <3>5. CASE local.name \notin Names(script)
      <4>1. PICK i \in DOMAIN init : init[i].name = local.name /\ found = init[i]
        BY <3>3, <3>5, LookupLemma
      <4>2. IsNative(found) => found.value = local.value
        <5>1. ASSUME IsNative(found) PROVE found.value = local.value
          <6>1. PICK j \in DOMAIN natives : found.value = Native(j) /\ natives[j].symbol = local.name
            BY <1>1, <4>1, <5>1 DEF Inv, GoodScopes, Good
          <6>2. j = k
            BY <1>1, <3>2, <6>1 DEF Inv, NativesUnique
          <6> QED
            BY <3>2, <6>1, <6>2
        <5> QED
          BY <5>1
      <4> QED
        BY <2>2, <3>3, <3>5, <4>2, LookupLemma
    <3> QED
      BY <3>4, <3>5
  <2>3. CASE ~IsNative(local)
    <3>1. PICK i \in DOMAIN modules[m].scope : modules[m].scope[i] = local
      BY <2>3 DEF Members
    <3>2. PICK j \in DOMAIN script : script[j].name = local.name /\ script[j].value = local.value
      BY <1>1, <2>3, <3>1 DEF Inv, ScriptScope, Has
    <3>3. local.name \in Names(script)
      BY <3>2 DEF Names
    <3>4. PICK k \in DOMAIN script : script[k].name = local.name /\ found = script[k]
      BY <3>3, LookupLemma
    <3>5. k = j
      BY <1>1, <3>2, <3>4 DEF Inv, ScriptScope
    <3> QED
      BY <3>2, <3>3, <3>4, <3>5, LookupLemma
  <2> QED
    BY <2>2, <2>3
<1>2. Inv => ImportsResolve
  BY <1>1 DEF ImportsResolve
<1> QED
  BY <1>2, Invariance, PTL

(* A name in the runtime's scope never changes its meaning, and is never   *)
(* removed, whatever is defined, imported or linked later.                 *)
THEOREM Globals == Spec => GlobalsKept
<1>1. Inv /\ [Next]_vars => [IsPrefix(init, init')]_vars
  BY StepLemma
<1> QED
  BY <1>1, Invariance, PTL DEF Spec, GlobalsKept

=============================================================================
