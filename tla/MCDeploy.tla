------------------------------ MODULE MCDeploy ------------------------------
(* Two programs deployed from one out-dir; the stem of the second is not *)
(* its module name.                                                      *)
EXTENDS Deploy
ProgramGraph == [app |-> <<"lib", "app">>, tool |-> <<"tool">>]
Stems == [app |-> "app", tool |-> "toolmain"]
OpenObligations == {<<"lib", 2>>, <<"tool", 1>>}
=============================================================================
