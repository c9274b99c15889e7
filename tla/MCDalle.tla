------------------------------ MODULE MCDalle ------------------------------
(* One variable in dalle's data, an array over two pages, one variable on  *)
(* its stack.                                                              *)
EXTENDS Dalle

MCLayout == <<[name |-> <<"cs_longest", "">>, addr |-> 0, size |-> 1],
              [name |-> <<"cs_shortes", "t">>, addr |-> 1, size |-> 3],
              [name |-> <<"command", "">>, addr |-> 5, size |-> 1]>>
MCStructs == {MCLayout[k] : k \in DOMAIN MCLayout}
=============================================================================
