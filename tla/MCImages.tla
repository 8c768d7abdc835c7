------------------------------ MODULE MCImages ------------------------------
(* The instance of Images that TLC checks: two names, one of which is not   *)
(* clean and means the other.                                               *)
EXTENDS Images

CONSTANTS foo, fooSlash, j1, j2

CleanName == [n \in {foo, fooSlash} |-> foo]
NameOf == [j \in Job |-> IF j = j1 THEN fooSlash ELSE foo]
=============================================================================
