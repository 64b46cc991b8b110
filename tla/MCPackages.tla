----------------------------- MODULE MCPackages -----------------------------
(* Small instances of module Packages: a type of two cells, one of three,  *)
(* and one with the tag of the latter; processes that register the same    *)
(* two, and processes of which one has registered a tag twice that the     *)
(* other does not know.                                                    *)
EXTENDS Packages

A == [tag |-> 1, size |-> 1]
B == [tag |-> 2, size |-> 2]
C == [tag |-> 2, size |-> 1]

MCTypes == {A, B, C}
MCRegistrations == {<<<<A, B>>, <<A, B>>>>, <<<<A, B, C>>, <<A>>>>}

(* A codec that fits, one that asks for a larger buffer at once, one that  *)
(* asks for what it has, one that asks for nothing.                        *)
MCAnswers == {[need |-> 1, out |-> 1], [need |-> 3, out |-> 3],
              [need |-> 4, out |-> 1], [need |-> 4, out |-> 0]}
=============================================================================
