---------------------------- MODULE MCBuildStore ----------------------------
(* Two programs in one out-dir: both roots declare module Main, one imports *)
(* a library the other does not.                                            *)
EXTENDS BuildStore, TLC
ProgramGraph == [app |-> <<"lib", "app">>, tool |-> <<"tool">>]
ModuleNames == [lib |-> "Lib", app |-> "Main", tool |-> "Main"]
ImportsOf == [lib |-> {}, app |-> {"lib"}, tool |-> {}]
SharedGraph == [app |-> <<"lib", "app">>, tool |-> <<"lib", "tool">>]
SharedImports == [lib |-> {}, app |-> {"lib"}, tool |-> {"lib"}]
Interchangeable == Permutations(Builders)
=============================================================================
