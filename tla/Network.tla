------------------------------ MODULE Network -------------------------------
(***************************************************************************)
(* The network manager of docker 0.1 (network.go): an IP allocator and a   *)
(* port allocator, each a buffered Go channel used as a FIFO of free       *)
(* resources, and a port mapper that pairs an in-memory map with the rules *)
(* of the DOCKER chain of the host's nat table.  Nothing is locked, and    *)
(* every command a client sends runs in a goroutine of its own, so the     *)
(* steps of Allocate, AllocatePort and Release of several containers       *)
(* interleave.  Each goroutine here is the one that works for a container: *)
(* Container.allocateNetwork, then later Container.releaseNetwork.         *)
(*                                                                         *)
(* A channel operation, an iptables command and an access to the map are   *)
(* one step each.  iptables is a process of the host and may fail; the     *)
(* commands that may, on the host at hand, are in faults, and one that     *)
(* fails changes nothing.                                                  *)
(***************************************************************************)
EXTENDS Integers, SequencesExt

CONSTANTS
  Client,                        \* the containers' goroutines
  FirstIP, Size, HostIP,         \* bridge network: base address, number of
                                 \* addresses, the bridge's own address
  PortRangeStart, PortRangeEnd,  \* 49153 and 65535 in network.go
  Ports,                         \* Ports[c]: Config.Ports of c's container
  Faults,                        \* the hosts: each a set of iptables
                                 \* commands that may fail there
  MaxCrashes,                    \* bound on the deaths of the daemon
  MaxRules                       \* bound on the chain: the table is then full

Command == {"-D:PREROUTING", "-F", "-X", "-N", "-A:PREROUTING", "-A", "-D"}

\* newNetworkManager reads the bridge's address from the host, so it is one
\* of the addresses the network can give to a host (see AddressPool for the
\* masks and addresses where it is not).
ASSUME NetworkAssumption ==
  /\ FirstIP \in Nat /\ Size \in Nat /\ Size >= 4
  /\ HostIP \in (FirstIP + 1) .. (FirstIP + Size - 2)
  /\ PortRangeStart \in Nat /\ PortRangeEnd \in Nat
  /\ PortRangeStart < PortRangeEnd /\ PortRangeStart > 0
  /\ Ports \in [Client -> Seq(Nat)]
  /\ Faults \subseteq SUBSET Command
  /\ MaxCrashes \in Nat /\ MaxRules \in Nat

Address == ((FirstIP + 1) .. (FirstIP + Size - 2)) \ {HostIP}
Port == PortRangeStart .. (PortRangeEnd - 1)
NoIP == FirstIP          \* never given to a container
NoPort == 0

\* A DNAT rule, and the net.TCPAddr the mapping keeps for a port.
Dest == [ip : Address, port : Nat]
Rule == [dport : Port, dest : Dest]

VARIABLES
  ipQueue,      \* IPAllocator.queue
  portQueue,    \* PortAllocator.ports
  mapping,      \* PortMapper.mapping, a partial function from Port to Dest
  mapper,       \* NetworkManager.portMapper: "nil" or "ready"
  chain,        \* the rules of the DOCKER chain, in the order they apply
  chainExists,  \* the DOCKER chain exists in the nat table
  jump,         \* PREROUTING jumps to DOCKER
  faults,       \* the commands of iptables that may fail on this host
  daemon,       \* "down", the next command of its boot, or "up"
  crashes,      \* how often the daemon has died
  pc,           \* where each goroutine is
  ip,           \* NetworkInterface.IPNet.IP, or NoIP
  extPorts,     \* NetworkInterface.extPorts
  ext,          \* the local extPort of AllocatePort, or NoPort
  rel           \* the index of Release's loop over extPorts

alloc == <<ipQueue, portQueue>>
nat == <<chain, chainExists, jump>>
host == <<mapper, chainExists, jump, faults, daemon, crashes>>
iface == <<ip, extPorts, ext, rel>>
vars == <<ipQueue, portQueue, mapping, mapper, chain, chainExists, jump,
          faults, daemon, crashes, pc, ip, extPorts, ext, rel>>

Outcome(cmd) == IF cmd \in faults THEN BOOLEAN ELSE {TRUE}

\* The two populate()s: every address of the network but its first, its last
\* and the bridge's own, and every port below the end of the range, ascending.
IPPopulate ==
  [i \in 1 .. (Size - 3) |->
     IF FirstIP + i < HostIP THEN FirstIP + i ELSE FirstIP + i + 1]

PortPopulate ==
  [i \in 1 .. (PortRangeEnd - PortRangeStart) |-> PortRangeStart + i - 1]

\* The non-blocking send of both Release()s: a full channel refuses.
SendOrDrop(queue, capacity, x) ==
  IF Len(queue) < capacity THEN Append(queue, x) ELSE queue

ReleaseIP(q, x) == SendOrDrop(q, Size - 3, x)
ReleasePort(q, p) == SendOrDrop(q, PortRangeEnd - PortRangeStart, p)

NoInterfaces ==
  /\ pc' = [c \in Client |-> "idle"]
  /\ ip' = [c \in Client |-> NoIP]
  /\ extPorts' = [c \in Client |-> <<>>]
  /\ ext' = [c \in Client |-> NoPort]
  /\ rel' = [c \in Client |-> 1]

Init ==
  /\ ipQueue = <<>> /\ portQueue = <<>>
  /\ mapping = <<>> /\ mapper = "nil"
  /\ chain = <<>> /\ chainExists = FALSE /\ jump = FALSE
  /\ faults \in Faults /\ daemon = "down" /\ crashes = 0
  /\ pc = [c \in Client |-> "idle"]
  /\ ip = [c \in Client |-> NoIP]
  /\ extPorts = [c \in Client |-> <<>>]
  /\ ext = [c \in Client |-> NoPort]
  /\ rel = [c \in Client |-> 1]

-----------------------------------------------------------------------------
(* newNetworkManager, which the daemon runs before it serves anybody.       *)

Boot(from, to) == daemon = from /\ daemon' = to

\* The two allocators are populated, in the memory of this goroutine alone.
NewAllocators ==
  /\ Boot("down", "unhook")
  /\ ipQueue' = IPPopulate
  /\ portQueue' = PortPopulate
  /\ UNCHANGED <<mapping, mapper, nat, faults, crashes, pc, iface>>

BootFrame == UNCHANGED <<alloc, faults, crashes, pc, iface>>

\* cleanup(): iptables -D PREROUTING, -F and -X, the errors of all three
\* ignored.  The kernel has at most one jump to DOCKER.
Unhook ==
  /\ Boot("unhook", "flush")
  /\ \E ok \in Outcome("-D:PREROUTING") : jump' = (jump /\ ~ok)
  /\ BootFrame /\ UNCHANGED <<mapping, mapper, chain, chainExists>>

\* Mutant: cleanup() does not flush.
FlushForgotten ==
  Boot("flush", "delete") /\ BootFrame /\ UNCHANGED <<mapping, mapper, nat>>

Flush ==
  /\ Boot("flush", "delete")
  /\ \E ok \in Outcome("-F") : chain' = IF ok THEN <<>> ELSE chain
  /\ BootFrame /\ UNCHANGED <<mapping, mapper, chainExists, jump>>

\* -X only removes a chain that is empty and that nothing jumps to.
DeleteChain ==
  /\ Boot("delete", "new")
  /\ \E ok \in Outcome("-X") :
       chainExists' = (chainExists /\ ~(ok /\ chain = <<>> /\ ~jump))
  /\ mapping' = <<>>
  /\ BootFrame /\ UNCHANGED <<mapper, chain, jump>>

\* setup(): iptables -N and -A PREROUTING.  It stops at the first that fails,
\* and the error newPortMapper returns is dropped: the manager then has a nil
\* port mapper, and the daemon comes up all the same.
NewChain ==
  /\ \E ok \in Outcome("-N") :
       IF ok /\ ~chainExists
       THEN Boot("new", "hook") /\ chainExists' = TRUE
       ELSE Boot("new", "up") /\ UNCHANGED chainExists
  /\ BootFrame /\ UNCHANGED <<mapping, mapper, chain, jump>>

Hook ==
  /\ Boot("hook", "up")
  /\ \E ok \in Outcome("-A:PREROUTING") :
       /\ jump' = (jump \/ ok)
       /\ mapper' = IF ok THEN "ready" ELSE "nil"
  /\ BootFrame /\ UNCHANGED <<mapping, chain, chainExists>>

NewNetworkManager ==
  NewAllocators \/ Unhook \/ Flush \/ DeleteChain \/ NewChain \/ Hook

\* The daemon dies (killed, or a panic in any goroutine), also half-way through
\* its boot.  The rules of the kernel stay; everything else was in its memory.
Die ==
  /\ daemon # "down"
  /\ daemon' = "down"
  /\ crashes' = IF crashes < MaxCrashes THEN crashes + 1 ELSE crashes
  /\ mapper' = "nil" /\ mapping' = <<>>
  /\ ipQueue' = <<>> /\ portQueue' = <<>>
  /\ NoInterfaces
  /\ UNCHANGED <<nat, faults>>

Crash == crashes < MaxCrashes /\ Die

-----------------------------------------------------------------------------
(* Container.allocateNetwork: one address, then every port of Config.Ports. *)

Go(c, from, to) == daemon = "up" /\ pc[c] = from /\ pc' = [pc EXCEPT ![c] = to]

\* NetworkManager.Allocate.  With an empty queue it returns an error and the
\* container does not start: nothing changes.
Allocate(c) ==
  /\ Go(c, "idle", "ports")
  /\ ipQueue # <<>>
  /\ ip' = [ip EXCEPT ![c] = Head(ipQueue)]
  /\ ipQueue' = Tail(ipQueue)
  /\ UNCHANGED <<portQueue, mapping, chain, host, extPorts, ext, rel>>

\* The first statement of AllocatePort: portAllocator.Acquire().
AcquirePort(c) ==
  /\ Go(c, "ports", "map")
  /\ Len(extPorts[c]) < Len(Ports[c])
  /\ portQueue # <<>>
  /\ ext' = [ext EXCEPT ![c] = Head(portQueue)]
  /\ portQueue' = Tail(portQueue)
  /\ UNCHANGED <<ipQueue, mapping, chain, host, ip, extPorts, rel>>

\* Acquire() finds no port: allocateNetwork releases the interface.
NoMorePorts(c) ==
  /\ Go(c, "ports", "release")
  /\ Len(extPorts[c]) < Len(Ports[c])
  /\ portQueue = <<>>
  /\ UNCHANGED <<alloc, mapping, chain, host, iface>>

\* Every port is mapped: the interface is the container's.
Allocated(c) ==
  /\ Go(c, "ports", "up")
  /\ Len(extPorts[c]) = Len(Ports[c])
  /\ UNCHANGED <<alloc, mapping, chain, host, iface>>

DestOf(c) == [ip |-> ip[c], port |-> Ports[c][Len(extPorts[c]) + 1]]

\* PortMapper.Map, the iptables -A of it: the rule is appended to the chain.
Forward(c) ==
  /\ Go(c, "map", "record")
  /\ chainExists /\ Len(chain) < MaxRules
  /\ chain' = Append(chain, [dport |-> ext[c], dest |-> DestOf(c)])
  /\ UNCHANGED <<alloc, mapping, host, iface>>

\* Mutant: Map drops the error of iptables, as cleanup() does.
ForwardFailureIgnored(c) ==
  /\ Go(c, "map", "record")
  /\ chainExists /\ Len(chain) < MaxRules => FALSE \in Outcome("-A")
  /\ UNCHANGED <<alloc, mapping, chain, host, iface>>

ForwardFails(c) ==
  /\ Go(c, "map", "unacquire")
  /\ chainExists /\ Len(chain) < MaxRules => FALSE \in Outcome("-A")
  /\ UNCHANGED <<alloc, mapping, chain, host, iface>>

\* PortMapper.Map, the entry of the map, and the append of AllocatePort.
Record(c) ==
  /\ Go(c, "record", "ports")
  /\ mapper = "ready"
  /\ mapping' = [p \in DOMAIN mapping \union {ext[c]} |->
                   IF p = ext[c] THEN DestOf(c) ELSE mapping[p]]
  /\ extPorts' = [extPorts EXCEPT ![c] = Append(@, ext[c])]
  /\ ext' = [ext EXCEPT ![c] = NoPort]
  /\ UNCHANGED <<alloc, chain, host, ip, rel>>

\* With a nil port mapper that assignment is a nil dereference: a panic.
RecordPanics(c) == pc[c] = "record" /\ mapper = "nil" /\ Die

\* Mutant: AllocatePort returns without releasing the port.
UnacquireForgets(c) ==
  /\ Go(c, "unacquire", "release")
  /\ ext' = [ext EXCEPT ![c] = NoPort]
  /\ UNCHANGED <<alloc, mapping, chain, host, ip, extPorts, rel>>

\* Map failed: AllocatePort gives the port back, allocateNetwork gives up.
Unacquire(c) ==
  /\ Go(c, "unacquire", "release")
  /\ portQueue' = ReleasePort(portQueue, ext[c])
  /\ ext' = [ext EXCEPT ![c] = NoPort]
  /\ UNCHANGED <<ipQueue, mapping, chain, host, ip, extPorts, rel>>

-----------------------------------------------------------------------------
(* NetworkInterface.Release, called by allocateNetwork on an error and by   *)
(* the container's monitor when its process has ended.                      *)

BeginRelease(c) ==
  /\ Go(c, "up", "release")
  /\ UNCHANGED <<alloc, mapping, chain, host, iface>>

Releasing(c) == extPorts[c][rel[c]]
ToRelease(c) == rel[c] <= Len(extPorts[c])
RuleOf(p) == [dport |-> p, dest |-> mapping[p]]

RuleInChain(p) == \E i \in 1 .. Len(chain) : chain[i] = RuleOf(p)

\* Mutant: Unmap forgets the mapping but not the rule.
UnforwardKeepsRule(c) ==
  /\ Go(c, "release", "delete")
  /\ ToRelease(c)
  /\ Releasing(c) \in DOMAIN mapping
  /\ UNCHANGED <<alloc, mapping, chain, host, iface>>

\* PortMapper.Unmap, the look-up and the iptables -D of it: the first rule
\* that matches goes.
Unforward(c) ==
  /\ Go(c, "release", "delete")
  /\ ToRelease(c)
  /\ Releasing(c) \in DOMAIN mapping
  /\ \E i \in 1 .. Len(chain) :
       /\ chain[i] = RuleOf(Releasing(c))
       /\ \A j \in 1 .. (i - 1) : chain[j] # RuleOf(Releasing(c))
       /\ chain' = RemoveAt(chain, i)
  /\ UNCHANGED <<alloc, mapping, host, iface>>

\* Unmap fails, which Release only logs.
UnmapFails(c) ==
  /\ Go(c, "release", "free")
  /\ ToRelease(c)
  /\ Releasing(c) \in DOMAIN mapping /\ RuleInChain(Releasing(c)) =>
       FALSE \in Outcome("-D")
  /\ UNCHANGED <<alloc, mapping, chain, host, iface>>

DeleteMapping(c) ==
  /\ Go(c, "delete", "free")
  /\ mapping' = Restrict(mapping, DOMAIN mapping \ {Releasing(c)})
  /\ UNCHANGED <<alloc, chain, host, iface>>

\* Whatever Unmap said, the port goes back to the allocator.
FreePort(c) ==
  /\ Go(c, "free", "release")
  /\ portQueue' = ReleasePort(portQueue, Releasing(c))
  /\ rel' = [rel EXCEPT ![c] = @ + 1]
  /\ UNCHANGED <<ipQueue, mapping, chain, host, ip, extPorts, ext>>

FreeIP(c) ==
  /\ Go(c, "release", "idle")
  /\ ~ToRelease(c)
  /\ ipQueue' = ReleaseIP(ipQueue, ip[c])
  /\ ip' = [ip EXCEPT ![c] = NoIP]
  /\ extPorts' = [extPorts EXCEPT ![c] = <<>>]
  /\ rel' = [rel EXCEPT ![c] = 1]
  /\ UNCHANGED <<portQueue, mapping, chain, host, ext>>

-----------------------------------------------------------------------------
Step(c) ==
  \/ Allocate(c) \/ AcquirePort(c) \/ NoMorePorts(c) \/ Allocated(c)
  \/ Forward(c) \/ ForwardFails(c) \/ Record(c) \/ RecordPanics(c)
  \/ Unacquire(c) \/ BeginRelease(c) \/ Unforward(c) \/ UnmapFails(c)
  \/ DeleteMapping(c) \/ FreePort(c) \/ FreeIP(c)

Next == NewNetworkManager \/ Crash \/ \E c \in Client : Step(c)

Spec == Init /\ [][Next]_vars

-----------------------------------------------------------------------------
\* What a goroutine holds: the ports its interface has not given back yet, and
\* the one between Acquire() and the append to extPorts.
HeldPorts(c) ==
  {extPorts[c][j] : j \in rel[c] .. Len(extPorts[c])}
    \union (IF ext[c] = NoPort THEN {} ELSE {ext[c]})

HeldIPs(c) == {ip[c]} \ {NoIP}

PcValues == {"idle", "ports", "map", "record", "unacquire", "up", "release",
             "delete", "free"}

DaemonValues == {"down", "unhook", "flush", "delete", "new", "hook", "up"}

\* Every variable has its type; in particular the ports of the range, never
\* 65535 and never 0, and never the bridge's own address are handed out
\* (populate, network.go:170 and 209).
TypeOK ==
  /\ ipQueue \in Seq(Address) /\ portQueue \in Seq(Port)
  /\ DOMAIN mapping \subseteq Port
  /\ \A p \in DOMAIN mapping : mapping[p] \in Dest
  /\ mapper \in {"nil", "ready"}
  /\ chain \in Seq(Rule)
  /\ chainExists \in BOOLEAN /\ jump \in BOOLEAN
  /\ faults \in SUBSET Command /\ daemon \in DaemonValues
  /\ crashes \in 0 .. MaxCrashes
  /\ pc \in [Client -> PcValues]
  /\ ip \in [Client -> Address \union {NoIP}]
  /\ extPorts \in [Client -> Seq(Port)]
  /\ ext \in [Client -> Port \union {NoPort}]
  /\ rel \in [Client -> Nat \ {0}]

\* The two allocators implement the pool of Leases (network.go:165 and 203,
\* "Atomatically allocate and release").
PortPool ==
  INSTANCE Leases WITH
    Resource <- Port,
    free <- IF daemon = "down" THEN Port ELSE Range(portQueue),
    leased <- [c \in Client |-> HeldPorts(c)]

IPPool ==
  INSTANCE Leases WITH
    Resource <- Address,
    free <- IF daemon = "down" THEN Address ELSE Range(ipQueue),
    leased <- [c \in Client |-> HeldIPs(c)]

\* Each port of the range is in the channel exactly once or is held by exactly
\* one container, over AllocatePort's three steps, its error path and the loop
\* of Release, whatever iptables does and however containers interleave
\* (network.go:177-195, 277-302).
PortsConserved == PortPool!Inv /\ IsInjective(portQueue)

\* The same of the addresses of the bridge network (network.go:237-255).
AddressesConserved == IPPool!Inv /\ IsInjective(ipQueue)

\* Where a goroutine is, and what its local variables hold there.
GoroutineOK ==
  \A c \in Client :
    /\ pc[c] = "idle" <=> ip[c] = NoIP
    /\ pc[c] = "idle" => extPorts[c] = <<>>
    /\ pc[c] \in {"map", "record", "unacquire"} <=> ext[c] # NoPort
    /\ pc[c] \in {"map", "record"} => Len(extPorts[c]) < Len(Ports[c])
    /\ pc[c] \notin {"release", "delete", "free"} => rel[c] = 1
    /\ pc[c] \in {"delete", "free"} => rel[c] <= Len(extPorts[c])
    /\ daemon # "up" => pc[c] = "idle"
    /\ IsInjective(extPorts[c])
    /\ ext[c] \notin Range(extPorts[c])

\* The inductive invariant behind the conservation properties.
IInv == TypeOK /\ GoroutineOK /\ PortsConserved /\ AddressesConserved

\* The channels are exactly as large as their pools, so the "Too many ports
\* have been released" branches, which would lose a port for good, are dead
\* (network.go:192 and 252).
ReleaseNeverRefused ==
  \A c \in Client :
    /\ pc[c] \in {"free", "unacquire"} =>
         Len(portQueue) < PortRangeEnd - PortRangeStart
    /\ ip[c] # NoIP => Len(ipQueue) < Size - 3

\* "It keeps track of all mappings and is able to unmap at will"
\* (network.go:105), which a failed iptables -D puts an end to: with a port
\* mapper in place every rule of the chain is the one the mapping has for its
\* port, unless Map is between the two.
RulesTracked ==
  mapper = "ready" =>
    \A i \in 1 .. Len(chain) :
      \/ /\ chain[i].dport \in DOMAIN mapping
         /\ mapping[chain[i].dport] = chain[i].dest
      \/ \E c \in Client :
           /\ pc[c] = "record"
           /\ chain[i] = [dport |-> ext[c], dest |-> DestOf(c)]

\* As long as every rule that is there can be deleted, that is so whatever
\* else fails, across the interleavings of Map and Unmap and the deaths of
\* the daemon.
RulesTrackedIfDeleted == "-D" \notin faults => RulesTracked

\* A connection to an external port of a started container reaches that
\* container: the first rule for the port is the container's
\* (Container.allocateNetwork reports that port in NetworkSettings), where
\* no -D has left the rule of an earlier container behind.
FirstRule(p, r) ==
  \E i \in 1 .. Len(chain) :
    /\ chain[i] = r
    /\ \A j \in 1 .. (i - 1) : chain[j].dport # p

PortsReachContainer ==
  "-D" \notin faults =>
  \A c \in Client : pc[c] = "up" /\ Ports[c] # <<>> =>
    jump /\ \A k \in 1 .. Len(Ports[c]) :
      FirstRule(extPorts[c][k],
                [dport |-> extPorts[c][k],
                 dest |-> [ip |-> ip[c], port |-> Ports[c][k]]])

\* A daemon that comes up on a host where the commands of its boot work has a
\* port mapper and gets the connections of PREROUTING, whatever its predecessors
\* left behind: their rules, or the half of a boot that one of them died in,
\* between any two of the five commands (network.go:110-127).
BootCommand == {"-D:PREROUTING", "-F", "-X", "-N", "-A:PREROUTING"}

BootHasMapper ==
  faults \intersect BootCommand = {} =>
    (daemon = "up" => mapper = "ready" /\ chainExists /\ jump)

\* Every step of AllocatePort and Release is, for the ports, a step of the
\* pool or none: a port is never leased while leased, and never dropped.
\* Of the addresses, every step of Allocate and Release is one as well.
PoolsAreLeases == PortPool!Spec /\ IPPool!Spec
=============================================================================
