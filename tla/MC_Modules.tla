----------------------------- MODULE MC_Modules ------------------------------
(***************************************************************************)
(* Small sources for Modules: two names, a namespace, two libraries of     *)
(* natives.  A module may end with what its init function needs.           *)
(***************************************************************************)
EXTENDS Modules

f == <<"", "f">>
g == <<"", "g">>

Defn(symbol)      == [op |-> "defn", symbol |-> symbol]
DefNative(symbol) == [op |-> "defnative", symbol |-> symbol]
Ns(ns, members)   == [op |-> "ns", ns |-> ns, members |-> members]
Load(lib)         == [op |-> "load-bindings", lib |-> lib]
SetInitialized    == [op |-> "set-initialized"]
Import(base, ext) == [op |-> "import", file |-> <<base, ext>>]

MCWords == {"", "f", "g", "N", "n", "both", "missing", "a", "b", "cl", "_kernel"}

MCBuiltins == <<g>>
MCBindings == [n |-> <<<<"N", "f">>>>, both |-> <<f, <<"N", "g">>>>]

MCContents ==
  { <<>>,
    <<Defn(f)>>,
    <<Defn(f), Defn(f)>>,
    <<DefNative(f)>>,
    <<DefNative(g), Ns("N", <<Defn(f), DefNative(g)>>)>>,
    <<Ns("N", <<DefNative(f)>>), Load("n")>>,
    <<Ns("N", <<DefNative(f)>>), Load("n"), SetInitialized>>,
    <<Load("both"), SetInitialized, Load("n"), DefNative(f)>>,
    <<Defn(g), Ns("_kernel", <<Defn(f), Defn(g)>>)>>,
    <<Load("missing"), SetInitialized>>,
    <<Ns("N", <<DefNative(f)>>), Ns("N", <<>>)>>,
    <<Import("a", "cl")>> }

MCScriptItems ==
  {Import("a", "cl"), Import("b", "cl"), Import("a", ""), Import("_kernel", ""),
   Defn(f), DefNative(f), Ns("N", <<>>)}

=============================================================================
