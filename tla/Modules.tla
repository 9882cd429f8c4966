------------------------------- MODULE Modules -------------------------------
(***************************************************************************)
(* What a name means: native procedures, namespaces, modules, and the      *)
(* imports of a script.  module.cc, namespace.cc, native_procedure.cc,     *)
(* native_bindings.cc and the definitions of parser.cc.                    *)
(*                                                                         *)
(* A source is a sequence of items, one for each form the parser meets     *)
(* outside of a procedure.  A symbol is a pair <<namespace, name>>, the    *)
(* name of a file a pair <<base, extension>>.  What a procedure does is    *)
(* left out: a value only tells where it was defined.                      *)
(***************************************************************************)
EXTENDS Scopes, FiniteSets

CONSTANTS
  Words,           \* what symbols and the names of files are made of
  Builtins,        \* the natives of the program itself, a sequence of symbols
  Bindings,        \* the natives of each shared library
  Contents,        \* the possible sources of a module
  ScriptItems,     \* the forms a script may use
  Libraries,       \* the files under lib, without their extension
  MaxScript        \* bound on the length of a script

Symbol == Words \X Words
Member == [op : {"defn", "defnative"}, symbol : Symbol]
Item ==
  Member \cup [op : {"ns"}, ns : Words, members : Seq(Member)]
         \cup [op : {"load-bindings"}, lib : Words]
         \cup [op : {"set-initialized"}]
         \cup [op : {"import"}, file : Symbol]

ASSUME SourcesAssumption ==
  /\ {"", "cl", "_kernel"} \cup Libraries \subseteq Words
  /\ \A lib \in DOMAIN Bindings : Bindings[lib] \in Seq(Symbol)
  /\ Builtins \in Seq(Symbol)
  /\ \A source \in Contents : source \in Seq(Item)
  /\ \A item \in ScriptItems : item \in Item
  /\ MaxScript \in Nat

VARIABLES
  home, kernel,    \* GEL_HOME is set; the flag kernel
  files,           \* the source of each module
  natives,         \* NativeProcedure::all_: [symbol, entry], entry 0 for none
  entries,         \* the symbols linked so far; an entry is its index
  init,            \* the scope of the runtime
  modules,         \* modules_: [name, scope, namespaces, body, initialized]
  space,           \* the scope of the namespace that is being parsed
  script,          \* the scope of the script
  imported,        \* the modules the script has imported
  todo,            \* what is left to parse of a module, then to run of its init
  queue,           \* what is left of the loop under way
  length,          \* of the script, so far
  status

sources == <<home, kernel, files>>
linked  == <<natives, entries, init>>
vars    == <<sources, linked, modules, space, script, imported, todo, queue, length, status>>

Fatal ==
  /\ status' = "fatal"
  /\ UNCHANGED <<sources, linked, modules, space, script, imported, todo, queue>>

-----------------------------------------------------------------------------
(* Native procedures                                                       *)

Unlinked == 0
Native(i) == <<"native", i>>

(* A mutant of Register: a native is known to the list only.               *)
RegisterListed(scope, symbol, i) == scope

(* A mutant of Register: the native replaces what the name meant.          *)
RegisterOver(scope, symbol, i) ==
  IF symbol \in Names(scope) THEN SetValue(scope, Find(scope, symbol) - 1, Native(i))
  ELSE AddLocal(scope, symbol, Native(i))

(* Register: a local that has a value keeps it.                            *)
Register(scope, symbol, i) == Define(scope, symbol, Native(i))

(* A mutant of Symbols: the natives of no namespace are forgotten.         *)
SymbolsQualified(all) == {all[i].symbol : i \in {j \in DOMAIN all : all[j].symbol[1] # ""}}

Symbols(all) == {all[i].symbol : i \in DOMAIN all}

(* FindOrCreate: the natives and the runtime's scope after it.             *)
FindOrCreate(symbol) ==
  IF symbol \in Symbols(natives) THEN natives
  ELSE Append(natives, [symbol |-> symbol, entry |-> Unlinked])
Registered(symbol) ==
  IF symbol \in Symbols(natives) THEN init ELSE Register(init, symbol, Len(natives) + 1)

FindNative(all, symbol) == CHOOSE i \in DOMAIN all : all[i].symbol = symbol

(* A mutant of Link: the entry is not told of its native.                  *)
LinkNative(symbol) ==
  LET created == FindOrCreate(symbol)
  IN  /\ natives' = [created EXCEPT ![FindNative(created, symbol)].entry = Len(entries) + 1]
      /\ init' = Registered(symbol)
      /\ queue' = Tail(queue)
      /\ UNCHANGED <<sources, entries, modules, space, script, imported, todo, status>>

(* Link, to a new entry.  Linking a native twice is fatal.                 *)
Link(symbol) ==
  LET created == FindOrCreate(symbol)
      i       == FindNative(created, symbol)
  IN  IF created[i].entry # Unlinked THEN Fatal
      ELSE /\ natives' = [created EXCEPT ![i].entry = Len(entries) + 1]
           /\ entries' = Append(entries, symbol)
           /\ init' = Registered(symbol)
           /\ queue' = Tail(queue)
           /\ UNCHANGED <<sources, modules, space, script, imported, todo, status>>

(* InitNatives links the natives of the program, the Init function of a    *)
(* shared library its own.                                                 *)
LinkNext == status \in {"natives", "link"} /\ queue # <<>> /\ Link(Head(queue))

LinkEnds ==
  /\ status = "link" /\ queue = <<>>
  /\ todo' = Tail(todo)
  /\ status' = "init"
  /\ UNCHANGED <<sources, linked, modules, space, script, imported, queue>>

(* NativeBindings::Load: if there is no such library, the search ends with *)
(* an error, for which load-bindings has no handler.                       *)
LoadBindings(lib) ==
  IF lib \notin DOMAIN Bindings THEN Fatal
  ELSE /\ queue' = Bindings[lib]
       /\ status' = "link"
       /\ UNCHANGED <<sources, linked, modules, space, script, imported, todo>>

-----------------------------------------------------------------------------
(* Definitions                                                             *)

(* Namespace::CreateSymbol                                                 *)
CreateSymbol(ns, symbol) == IF ns \in {"", "_kernel"} THEN symbol ELSE <<ns, symbol[2]>>

(* ParseDefn, ParseMacroDef and ParseDefNative in namespace ns of module   *)
(* m: the scope after it, and what becomes of the natives.  A native is    *)
(* created before its name turns out to be taken, which is fatal.          *)
Taken(scope, ns, item) == CreateSymbol(ns, item.symbol) \in Names(scope)

Definition(scope, m, ns, item) ==
  LET symbol == CreateSymbol(ns, item.symbol)
  IN  AddLocal(scope, symbol,
        IF item.op = "defnative" THEN Native(FindNative(FindOrCreate(symbol), symbol))
        ELSE <<"lambda", m, ns, symbol>>)

Declared(ns, item) ==
  IF item.op = "defnative"
  THEN /\ natives' = FindOrCreate(CreateSymbol(ns, item.symbol))
       /\ init' = Registered(CreateSymbol(ns, item.symbol))
  ELSE UNCHANGED <<natives, init>>

NamespaceSymbol(item) == <<"", item.ns>>
Namespace(m, item) == <<"namespace", m, item.ns>>

-----------------------------------------------------------------------------
(* Modules                                                                 *)

Current == Len(modules)
Module  == modules[Current]

(* ParseModuleFrom names a module after its file, without the extension.   *)
Stem(file) == <<file[1], "">>

(* Module::New                                                             *)
NewModule(file) == [name |-> Stem(file), scope |-> <<>>, namespaces |-> <<>>,
                    body |-> <<>>, initialized |-> FALSE]

(* Module::LoadFrom, up to the first form.                                 *)
LoadFrom(file) ==
  /\ modules' = Append(modules, NewModule(file))
  /\ todo' = files[file[1]]
  /\ status' = "module"
  /\ UNCHANGED <<sources, linked, space, script, imported, queue>>

LoadKernelModule ==
  /\ status = "natives" /\ queue = <<>>
  /\ IF kernel /\ home THEN LoadFrom(<<"_kernel", "cl">>)
     ELSE /\ status' = "script"
          /\ UNCHANGED <<sources, linked, modules, space, script, imported, todo, queue>>

Parsing(op) == status = "module" /\ todo # <<>> /\ Head(todo).op \in op

ParseDefinition ==
  /\ Parsing({"defn", "defnative"})
  /\ IF Taken(Module.scope, "", Head(todo)) THEN Fatal
     ELSE /\ Declared("", Head(todo))
          /\ modules' = [modules EXCEPT
               ![Current].scope = Definition(@, Current, "", Head(todo))]
          /\ todo' = Tail(todo)
          /\ UNCHANGED <<sources, entries, space, script, imported, queue, status>>

(* ParseDefNamespace, with ParseNamespace and a turn for each member...    *)
ParseDefNamespace ==
  /\ Parsing({"ns"})
  /\ space' = <<>>
  /\ queue' = Head(todo).members
  /\ status' = "namespace"
  /\ UNCHANGED <<sources, linked, modules, script, imported, todo>>

ParseMember ==
  /\ status = "namespace" /\ queue # <<>>
  /\ LET ns == Head(todo).ns
     IN  IF Taken(space, ns, Head(queue)) THEN Fatal
         ELSE /\ Declared(ns, Head(queue))
              /\ space' = Definition(space, Current, ns, Head(queue))
              /\ queue' = Tail(queue)
              /\ UNCHANGED <<sources, entries, modules, script, imported, todo, status>>

(* ... and Module::Append, which adds the locals of the namespace to the   *)
(* module's, but those it has already.                                     *)
EndOfNamespace ==
  /\ status = "namespace" /\ queue = <<>>
  /\ IF NamespaceSymbol(Head(todo)) \in Names(Module.scope) THEN Fatal
     ELSE /\ modules' = [modules EXCEPT
               ![Current].scope = AddLocal(@, NamespaceSymbol(Head(todo)), Namespace(Current, Head(todo))),
               ![Current].namespaces = Append(@, space)]
          /\ queue' = space
          /\ space' = <<>>
          /\ status' = "append"
          /\ UNCHANGED <<sources, linked, script, imported, todo>>

AppendNext ==
  /\ status = "append" /\ queue # <<>>
  /\ modules' = [modules EXCEPT ![Current].scope = AddOne(@, Head(queue))]
  /\ queue' = Tail(queue)
  /\ UNCHANGED <<sources, linked, space, script, imported, todo, status>>

AppendEnds ==
  /\ status = "append" /\ queue = <<>>
  /\ todo' = Tail(todo)
  /\ status' = "module"
  /\ UNCHANGED <<sources, linked, modules, space, script, imported, queue>>

(* An expression becomes part of the init function.                        *)
ParseInitExpr ==
  /\ Parsing({"load-bindings", "set-initialized"})
  /\ modules' = [modules EXCEPT ![Current].body = Append(@, Head(todo))]
  /\ todo' = Tail(todo)
  /\ UNCHANGED <<sources, linked, space, script, imported, queue, status>>

(* ParseExpression knows no import.                                        *)
ParseUnexpected == Parsing({"import"}) /\ Fatal

(* The rest of FindOrLoad and LoadKernelModule: the locals of the module   *)
(* go to the runtime's scope, as far as it has none of their names...      *)
EndOfModule ==
  /\ status = "module" /\ todo = <<>>
  /\ queue' = Module.scope
  /\ status' = "globals"
  /\ UNCHANGED <<sources, linked, modules, space, script, imported, todo>>

GlobalNext ==
  /\ status = "globals" /\ queue # <<>>
  /\ init' = AddOne(init, Head(queue))
  /\ queue' = Tail(queue)
  /\ UNCHANGED <<sources, natives, entries, modules, space, script, imported, todo, status>>

(* A mutant of GlobalsEnd: the init function never runs.                   *)
GlobalsEndModule ==
  /\ status = "globals" /\ queue = <<>>
  /\ status' = "loaded"
  /\ UNCHANGED <<sources, linked, modules, space, script, imported, todo, queue>>

(* ... and Module::Init runs the init function, if there is one...         *)
GlobalsEnd ==
  /\ status = "globals" /\ queue = <<>>
  /\ todo' = Module.body
  /\ status' = IF Module.body = <<>> THEN "loaded" ELSE "init"
  /\ UNCHANGED <<sources, linked, modules, space, script, imported, queue>>

Initializing(op) == status = "init" /\ todo # <<>> /\ Head(todo).op = op

InitLoads == Initializing("load-bindings") /\ LoadBindings(Head(todo).lib)

InitSets ==
  /\ Initializing("set-initialized")
  /\ modules' = [modules EXCEPT ![Current].initialized = TRUE]
  /\ todo' = Tail(todo)
  /\ UNCHANGED <<sources, linked, space, script, imported, queue, status>>

(* ... and wants it to have set the field of its module.                   *)
InitEnds ==
  /\ status = "init" /\ todo = <<>>
  /\ IF ~Module.initialized THEN Fatal
     ELSE /\ status' = "loaded"
          /\ UNCHANGED <<sources, linked, modules, space, script, imported, todo, queue>>

-----------------------------------------------------------------------------
(* The script                                                              *)

(* ParseImportExpr, once it has the module, adds its locals to the scope   *)
(* of the script.  If a name is taken this ends the program, when all the  *)
(* others have been added.                                                 *)
ImportModule(m) ==
  /\ imported' = imported \cup {m}
  /\ queue' = modules[m].scope
  /\ status' = "import"
  /\ UNCHANGED <<sources, linked, modules, space, script, todo>>

ImportNext ==
  /\ status = "import" /\ queue # <<>>
  /\ IF ~IsNative(Head(queue)) /\ Head(queue).name \in Names(script) THEN Fatal
     ELSE /\ script' = AddOne(script, Head(queue))
          /\ queue' = Tail(queue)
          /\ UNCHANGED <<sources, linked, modules, space, imported, todo, status>>

ImportEnds ==
  /\ status = "import" /\ queue = <<>>
  /\ status' = "script"
  /\ UNCHANGED <<sources, linked, modules, space, script, imported, todo, queue>>

Loaded ==
  /\ status = "loaded"
  /\ IF Module.name = <<"_kernel", "">>
     THEN /\ status' = "script"
          /\ UNCHANGED <<sources, linked, modules, space, script, imported, todo, queue>>
     ELSE ImportModule(Current)

Found(file) == {m \in DOMAIN modules : modules[m].name = file}
First(found) == CHOOSE m \in found : \A n \in found : m <= n

(* Module::FindOrLoad: a module is asked for by the name of its file, and  *)
(* known by the name without the extension.                                *)
FindOrLoad(file) ==
  IF Found(file) # {} THEN ImportModule(First(Found(file)))
  ELSE IF ~home \/ file \notin {<<lib, "cl">> : lib \in Libraries} THEN Fatal
  ELSE LoadFrom(file)

ScriptDefn(item) ==
  IF Taken(script, "", item) THEN Fatal
  ELSE /\ script' = Definition(script, 0, "", item)
       /\ UNCHANGED <<sources, linked, modules, space, imported, todo, queue, status>>

(* Script::Append finds the namespace that ParseDefNamespace has just      *)
(* added to the same scope.                                                *)
ScriptNamespace == Fatal

(* ParseScript knows no defnative.                                         *)
ScriptNative == Fatal

ScriptForm(item) ==
  \/ item.op = "import" /\ FindOrLoad(item.file)
  \/ item.op = "defn" /\ ScriptDefn(item)
  \/ item.op = "ns" /\ ScriptNamespace
  \/ item.op = "defnative" /\ ScriptNative

ParseScript(item) ==
  /\ status = "script" /\ length < MaxScript
  /\ length' = length + 1
  /\ ScriptForm(item)

EndOfScript ==
  /\ status = "script"
  /\ status' = "done"
  /\ UNCHANGED <<sources, linked, modules, space, script, imported, todo, queue>>

-----------------------------------------------------------------------------
Init ==
  /\ home \in BOOLEAN /\ kernel \in BOOLEAN
  /\ files \in [Libraries \cup {"_kernel"} -> Contents]
  /\ natives = <<>> /\ entries = <<>> /\ init = <<>>
  /\ modules = <<>> /\ space = <<>> /\ script = <<>> /\ imported = {}
  /\ todo = <<>> /\ queue = Builtins /\ length = 0
  /\ status = "natives"

ModuleStep ==
  \/ LinkNext \/ LinkEnds
  \/ LoadKernelModule
  \/ ParseDefinition \/ ParseInitExpr \/ ParseUnexpected
  \/ ParseDefNamespace \/ ParseMember \/ EndOfNamespace \/ AppendNext \/ AppendEnds
  \/ EndOfModule \/ GlobalNext \/ GlobalsEnd
  \/ InitLoads \/ InitSets \/ InitEnds
  \/ Loaded \/ ImportNext \/ ImportEnds
  \/ EndOfScript

Next ==
  \/ ModuleStep /\ UNCHANGED length
  \/ \E item \in ScriptItems : ParseScript(item)

Spec == Init /\ [][Next]_vars

-----------------------------------------------------------------------------
Value == ({"native"} \X Nat) \cup ({"lambda"} \X Nat \X Words \X Symbol)
                             \cup ({"namespace"} \X Nat \X Words)
Local == [name : Symbol, index : Nat, value : Value]

(* The types of the variables; a local knows its place in its scope, and   *)
(* a native is linked to an entry there is.                                *)
Indexed(scope) == \A i \in DOMAIN scope : scope[i].index = i - 1

TypeOK ==
  /\ home \in BOOLEAN /\ kernel \in BOOLEAN
  /\ files \in [Libraries \cup {"_kernel"} -> Contents]
  /\ entries \in Seq(Symbol)
  /\ natives \in Seq([symbol : Symbol, entry : 0..Len(entries)])
  /\ init \in Seq(Local) /\ script \in Seq(Local) /\ space \in Seq(Local)
  /\ modules \in Seq([name : Symbol, scope : Seq(Local), namespaces : Seq(Seq(Local)),
                      body : Seq(Item), initialized : BOOLEAN])
  /\ Indexed(init) /\ Indexed(script) /\ Indexed(space)
  /\ \A m \in DOMAIN modules : Indexed(modules[m].scope)
  /\ imported \subseteq DOMAIN modules
  /\ todo \in Seq(Item)
  /\ status \in {"natives", "link"} => queue \in Seq(Symbol)
  /\ status = "namespace" => queue \in Seq(Member)
  /\ status \in {"append", "globals", "import"} => queue \in Seq(Local)
  /\ length \in 0..MaxScript
  /\ status \in {"natives", "module", "namespace", "append", "globals", "init", "link",
                 "loaded", "script", "import", "done", "fatal"}

(* FindOrCreate and Link, called from definitions and from libraries in    *)
(* any order: a symbol has one native, an entry is linked to the native of *)
(* its symbol, and that native to no other entry.                          *)
NativesUnique ==
  /\ \A i, j \in DOMAIN natives : natives[i].symbol = natives[j].symbol => i = j
  /\ \A e \in DOMAIN entries :
       \E i \in DOMAIN natives : natives[i].symbol = entries[e] /\ natives[i].entry = e

(* The members of a module that a script may name: its locals, and the     *)
(* natives of its namespaces, which Module::Append leaves behind.          *)
Members(m) ==
  LET scope  == modules[m].scope
      spaces == modules[m].namespaces
  IN  {scope[i] : i \in DOMAIN scope} \cup
      {local \in UNION {{spaces[n][i] : i \in DOMAIN spaces[n]} : n \in DOMAIN spaces} : IsNative(local)}

(* A script that has imported a module finds each of its names: with the   *)
(* value it has in the module or, for a native, which no import copies,    *)
(* with the native, unless something else was defined under its name.      *)
ImportsResolve ==
  status \in {"script", "done"} =>
    \A m \in imported : \A local \in Members(m) :
      /\ InScope(<<script, init>>, local.name)
      /\ LET found == Lookup(<<script, init>>, local.name)
         IN  found.value = local.value \/ (IsNative(local) /\ ~IsNative(found))

(* A script gets to see a module only when all its init function does is   *)
(* done: the field initialized is set, and the natives of the libraries it *)
(* loads are linked.                                                       *)
ImportsReady ==
  \A m \in imported : modules[m].body # <<>> =>
    /\ modules[m].initialized
    /\ \A i \in DOMAIN modules[m].body :
         LET item == modules[m].body[i]
         IN  item.op = "load-bindings" =>
               ToSet(Bindings[item.lib]) \subseteq ToSet(entries)

(* Whatever is defined, imported or linked later, a name of the runtime's  *)
(* scope keeps the value it has, so code compiled before means the same.   *)
GlobalsKept == [][IsPrefix(init, init')]_vars

=============================================================================
