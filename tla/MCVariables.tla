---------------------------- MODULE MCVariables ----------------------------
(* Instances of Variables for TLC: a run with a variable of its own, and a  *)
(* run of another script, which share a global one.                        *)
EXTENDS Variables, TLC

MCDeclared == "a" :> <<"p", "g">> @@ "b" :> <<"g">>
MCDefault  == "a" :> 0 @@ "b" :> 1
=============================================================================
