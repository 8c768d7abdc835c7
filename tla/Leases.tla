------------------------------- MODULE Leases -------------------------------
(***************************************************************************)
(* What the allocators of network.go promise their callers, with no queue, *)
(* no goroutine and no iptables in sight: every resource of the pool is    *)
(* free or is leased to exactly one client, a lease is given only from the *)
(* free ones, and a lease that ends goes back to the pool.  Network        *)
(* implements this twice, for the bridge addresses and for the external    *)
(* TCP ports; Container uses it for the addresses of its interfaces.       *)
(***************************************************************************)
CONSTANTS Client, Resource

VARIABLES free,    \* the resources that can be leased
          leased   \* leased[c] is the set of resources client c holds

vars == <<free, leased>>

Init ==
  /\ free = Resource
  /\ leased = [c \in Client |-> {}]

\* Acquire() hands out a resource nobody holds.
Acquire(c) ==
  \E r \in free :
    /\ free' = free \ {r}
    /\ leased' = [leased EXCEPT ![c] = @ \union {r}]

\* Release(r) by the client that holds r.
Release(c) ==
  \E r \in leased[c] :
    /\ free' = free \union {r}
    /\ leased' = [leased EXCEPT ![c] = @ \ {r}]

\* A new manager starts from a full pool.
Reset ==
  /\ free' = Resource
  /\ leased' = [c \in Client |-> {}]

Next == (\E c \in Client : Acquire(c) \/ Release(c)) \/ Reset

Spec == Init /\ [][Next]_vars

-----------------------------------------------------------------------------
\* No resource is leased twice.
Exclusive ==
  \A c, d \in Client : c # d => leased[c] \intersect leased[d] = {}

\* No resource is lost, and none is free while somebody holds it.
Conserved ==
  /\ \A r \in Resource : r \in free \/ \E c \in Client : r \in leased[c]
  /\ \A c \in Client : free \intersect leased[c] = {}

Inv ==
  /\ free \subseteq Resource
  /\ leased \in [Client -> SUBSET Resource]
  /\ Exclusive
  /\ Conserved
=============================================================================
