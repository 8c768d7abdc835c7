----------------------------- MODULE MCSession ------------------------------
(* The instance of Session that TLC checks.                                 *)
EXTENDS Session

CONSTANTS r, a

\* Two chunks of who attaches: one for an earlier run to swallow, and one more.
InputOf == [c \in {r, a} |-> IF c = r THEN 1 ELSE 2]

\* run in a pipeline and attach at a terminal, the other way round, and a tty.
Worlds == {[tty |-> FALSE, term |-> {a}], [tty |-> FALSE, term |-> {r}],
           [tty |-> TRUE, term |-> {r, a}]}
=============================================================================
