--------------------------- MODULE MCControlPlane ---------------------------
(* An administrator's key that ends, with or without an editor's that does *)
(* not, and one more to come.                                              *)
EXTENDS ControlPlane

Scopes(s) == s \cup {"config:write"}

OneKey  == {[id |-> "k1", scopes |-> Scopes({"policy:write"}), from |-> 0, until |-> 1, revoked |-> Never]}
TwoKeys == OneKey \cup
           {[id |-> "k2", scopes |-> Scopes({}), from |-> 0, until |-> Never, revoked |-> Never]}

Lists == {<< >>, << "runtime", "admin" >>}
=============================================================================
