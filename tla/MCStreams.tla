----------------------------- MODULE MCStreams ------------------------------
(* The instances of Streams that TLC checks.                                *)
EXTENDS Streams

CONSTANTS a, b

\* Two clients, one of which never reads, and one run.
TwoClients(tty, n) ==
  [tty |-> tty, attaching |-> {a, b}, reading |-> {a}, chunks |-> <<n>>]

\* One client and two runs: it attaches, leaves or reads on while the
\* container restarts.
TwoRuns(tty, m, n) ==
  [tty |-> tty, attaching |-> {a}, reading |-> {a}, chunks |-> <<m, n>>]

AllWorlds == {TwoClients(TRUE, 1), TwoClients(FALSE, 2),
              TwoRuns(TRUE, 1, 1), TwoRuns(FALSE, 2, 2)}
=============================================================================
