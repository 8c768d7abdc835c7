--------------------------- MODULE NetworkProofs ----------------------------
(***************************************************************************)
(* For any number of containers, any bridge network, any range of ports    *)
(* and any behaviour of iptables: nothing the network manager hands out is *)
(* handed out twice, and nothing is lost.  And where a rule can always be  *)
(* deleted, the rules are those of the containers that are up.  The last   *)
(* part is about the arithmetic that fills the pool of addresses.          *)
(***************************************************************************)
EXTENDS Network, AddressPool, SequenceTheorems, FiniteSetTheorems, TLAPS

-----------------------------------------------------------------------------
(* A Go channel used as a set of free resources: a sequence without         *)
(* duplicates, received from at its head and sent to at its end.            *)

\* Receiving takes exactly the head out of what the channel holds.
LEMMA ReceiveLemma ==
  ASSUME NEW S, NEW q \in Seq(S), q # <<>>, IsInjective(q)
  PROVE  /\ Tail(q) \in Seq(S)
         /\ Head(q) \in S
         /\ Head(q) \in Range(q)
         /\ IsInjective(Tail(q))
         /\ Range(Tail(q)) = Range(q) \ {Head(q)}
<1>1. /\ Len(q) \in Nat /\ Len(q) > 0
      /\ DOMAIN q = 1 .. Len(q)
      /\ q \in [1 .. Len(q) -> S]
  BY EmptySeq
<1>2. /\ Tail(q) \in Seq(S)
      /\ Head(q) = q[1]
      /\ DOMAIN Tail(q) = 1 .. (Len(q) - 1)
      /\ \A i \in 1 .. (Len(q) - 1) : Tail(q)[i] = q[i + 1]
  BY <1>1
<1>3. IsInjective(Tail(q))
  BY <1>1, <1>2 DEF IsInjective
<1>4. Head(q) \in S /\ Head(q) \in Range(q)
  <2>1. 1 \in DOMAIN q /\ q[1] \in S
    BY <1>1
  <2> QED BY <2>1, <1>2 DEF Range
<1>5. Range(Tail(q)) = Range(q) \ {Head(q)}
  <2>1. ASSUME NEW x \in Range(Tail(q)) PROVE x \in Range(q) \ {Head(q)}
    BY <1>1, <1>2 DEF Range, IsInjective
  <2>2. ASSUME NEW x \in Range(q) \ {Head(q)} PROVE x \in Range(Tail(q))
    <3>1. PICK i \in 1 .. Len(q) : x = q[i]
      BY <1>1 DEF Range
    <3>2. i - 1 \in 1 .. (Len(q) - 1) /\ x = Tail(q)[i - 1]
      BY <3>1, <1>2, <1>1
    <3> QED BY <3>2, <1>2 DEF Range
  <2> QED BY <2>1, <2>2
<1> QED BY <1>2, <1>3, <1>4, <1>5

\* What is in a sequence is at some place of it.
LEMMA RangeLemma ==
  ASSUME NEW S, NEW q \in Seq(S)
  PROVE  \A x : x \in Range(q) <=> \E i \in 1 .. Len(q) : q[i] = x
<1>1. DOMAIN q = 1 .. Len(q)
  OBVIOUS
<1> QED BY <1>1 DEF Range

\* What is sent is what the channel holds besides.
LEMMA AppendLemma ==
  ASSUME NEW S, NEW q \in Seq(S), NEW x \in S
  PROVE  Range(Append(q, x)) = Range(q) \union {x}
<1>1. /\ Len(q) \in Nat
      /\ DOMAIN q = 1 .. Len(q)
      /\ DOMAIN Append(q, x) = 1 .. (Len(q) + 1)
      /\ \A i \in 1 .. Len(q) : Append(q, x)[i] = q[i]
      /\ Append(q, x)[Len(q) + 1] = x
  BY AppendProperties
<1>2. ASSUME NEW y \in Range(Append(q, x)) PROVE y \in Range(q) \union {x}
  BY <1>1, <1>2 DEF Range
<1>3. ASSUME NEW y \in Range(q) PROVE y \in Range(Append(q, x))
  BY <1>1, <1>3 DEF Range
<1>4. x \in Range(Append(q, x))
  <2>1. Len(q) + 1 \in DOMAIN Append(q, x)
    BY <1>1
  <2> QED BY <2>1, <1>1 DEF Range
<1> QED BY <1>2, <1>3, <1>4

\* Sending something the channel does not hold adds exactly that.
LEMMA SendLemma ==
  ASSUME NEW S, NEW q \in Seq(S), NEW x \in S, IsInjective(q), x \notin Range(q)
  PROVE  /\ Append(q, x) \in Seq(S)
         /\ IsInjective(Append(q, x))
         /\ Range(Append(q, x)) = Range(q) \union {x}
<1>1. /\ Len(q) \in Nat
      /\ DOMAIN q = 1 .. Len(q)
      /\ \A i \in 1 .. Len(q) : q[i] # x
  BY DEF Range
<1>2. /\ Append(q, x) \in Seq(S)
      /\ DOMAIN Append(q, x) = 1 .. (Len(q) + 1)
      /\ \A i \in 1 .. Len(q) : Append(q, x)[i] = q[i]
      /\ Append(q, x)[Len(q) + 1] = x
  BY <1>1, AppendProperties
<1>3. IsInjective(Append(q, x))
  BY <1>1, <1>2 DEF IsInjective
<1>4. Range(Append(q, x)) = Range(q) \union {x}
  BY AppendLemma
<1> QED BY <1>2, <1>3, <1>4

\* While one resource of the pool is out, the channel has room for it.
LEMMA RoomLemma ==
  ASSUME NEW S, IsFiniteSet(S), NEW q \in Seq(S), IsInjective(q),
         NEW x \in S, x \notin Range(q)
  PROVE  Len(q) < Cardinality(S)
<1>1. q \in Injection(1 .. Len(q), S \ {x})
  <2>1. q \in [1 .. Len(q) -> S \ {x}]
    BY DEF Range
  <2> QED BY <2>1 DEF Injection
<1>2. /\ IsFiniteSet(S \ {x})
      /\ Cardinality(S \ {x}) = Cardinality(S) - 1
      /\ Cardinality(S) \in Nat
  BY FS_RemoveElement, FS_CardinalityType
<1>3. Cardinality(1 .. Len(q)) <= Cardinality(S \ {x})
  BY <1>1, <1>2, FS_Injection
<1>4. Len(q) \in Nat /\ Cardinality(1 .. Len(q)) = Len(q)
  <2>1. \A n \in Nat : Cardinality(1 .. n) = n
    BY FS_Interval
  <2> QED BY <2>1
<1>5. \A m, n \in Nat : m <= n - 1 => m < n
  OBVIOUS
<1>6. Len(q) <= Cardinality(S) - 1
  BY <1>2, <1>3, <1>4, Zenon
<1> QED BY <1>2, <1>4, <1>5, <1>6, Zenon

-----------------------------------------------------------------------------
USE NetworkAssumption

\* Ports and addresses: finite sets of known size, without the none values.
LEMMA RangeFacts ==
  /\ NoPort \notin Port
  /\ NoIP \notin Address
  /\ Port \subseteq Nat
  /\ IsFiniteSet(Port) /\ Cardinality(Port) = PortRangeEnd - PortRangeStart
  /\ IsFiniteSet(Address) /\ Cardinality(Address) = Size - 3
<1>1. NoPort \notin Port /\ NoIP \notin Address /\ Port \subseteq Nat
  BY DEF Port, Address, NoPort, NoIP
<1>2. IsFiniteSet(Port) /\ Cardinality(Port) = PortRangeEnd - PortRangeStart
  BY FS_Interval DEF Port
<1>3. /\ IsFiniteSet((FirstIP + 1) .. (FirstIP + Size - 2))
      /\ Cardinality((FirstIP + 1) .. (FirstIP + Size - 2)) = Size - 2
  BY FS_Interval
<1>4. IsFiniteSet(Address) /\ Cardinality(Address) = Size - 3
  <2> DEFINE S == (FirstIP + 1) .. (FirstIP + Size - 2)
  <2>1. /\ IsFiniteSet(S \ {HostIP})
        /\ Cardinality(S \ {HostIP}) = Cardinality(S) - 1
    BY <1>3, FS_RemoveElement
  <2>2. Address = S \ {HostIP}
    BY DEF Address
  <2> HIDE DEF S
  <2> QED BY <2>1, <2>2, <1>3 DEF S
<1> QED BY <1>1, <1>2, <1>4

\* The two populate()s fill the channel with the whole pool, once each.
LEMMA PopulateFacts ==
  /\ PortPopulate \in Seq(Port)
  /\ IsInjective(PortPopulate)
  /\ Range(PortPopulate) = Port
  /\ IPPopulate \in Seq(Address)
  /\ IsInjective(IPPopulate)
  /\ Range(IPPopulate) = Address
<1>1. PortPopulate \in Seq(Port)
  <2>1. PortPopulate \in [1 .. (PortRangeEnd - PortRangeStart) -> Port]
    BY DEF PortPopulate, Port
  <2> QED BY <2>1
<1>2. IsInjective(PortPopulate)
  BY DEF PortPopulate, IsInjective
<1>3. Range(PortPopulate) = Port
  <2>1. ASSUME NEW p \in Port PROVE p \in Range(PortPopulate)
    <3>1. /\ p - PortRangeStart + 1 \in DOMAIN PortPopulate
          /\ PortPopulate[p - PortRangeStart + 1] = p
      BY DEF PortPopulate, Port
    <3> QED BY <3>1 DEF Range
  <2>2. Range(PortPopulate) \subseteq Port
    BY DEF PortPopulate, Port, Range
  <2> QED BY <2>1, <2>2
<1>4. IPPopulate \in Seq(Address)
  <2>1. IPPopulate \in [1 .. (Size - 3) -> Address]
    BY DEF IPPopulate, Address
  <2> QED BY <2>1
<1>5. IsInjective(IPPopulate)
  BY DEF IPPopulate, IsInjective
<1>6. Range(IPPopulate) = Address
  <2>1. ASSUME NEW a \in Address PROVE a \in Range(IPPopulate)
    <3>1. CASE a < HostIP
      <4>1. /\ a - FirstIP \in DOMAIN IPPopulate
            /\ IPPopulate[a - FirstIP] = a
        BY <3>1 DEF IPPopulate, Address
      <4> QED BY <4>1 DEF Range
    <3>2. CASE a > HostIP
      <4>1. /\ a - FirstIP - 1 \in DOMAIN IPPopulate
            /\ IPPopulate[a - FirstIP - 1] = a
        BY <3>2 DEF IPPopulate, Address
      <4> QED BY <4>1 DEF Range
    <3> QED BY <3>1, <3>2 DEF Address
  <2>2. Range(IPPopulate) \subseteq Address
    BY DEF IPPopulate, Address, Range
  <2> QED BY <2>1, <2>2
<1> QED BY <1>1, <1>2, <1>3, <1>4, <1>5, <1>6

\* A goroutine about to map holds a port and has a destination.
LEMMA DestOfType ==
  ASSUME TypeOK, GoroutineOK, NEW c \in Client, pc[c] \in {"map", "record"}
  PROVE  /\ DestOf(c) \in Dest
         /\ ext[c] \in Port
<1>1. ip[c] \in Address
  BY DEF TypeOK, GoroutineOK
<1>2. ext[c] \in Port
  BY DEF TypeOK, GoroutineOK
<1>3. /\ Len(extPorts[c]) \in Nat
      /\ Len(extPorts[c]) < Len(Ports[c])
      /\ Ports[c] \in Seq(Nat)
  BY DEF TypeOK, GoroutineOK
<1>4. Ports[c][Len(extPorts[c]) + 1] \in Nat
  BY <1>3
<1> QED BY <1>1, <1>2, <1>4 DEF DestOf, Dest

-----------------------------------------------------------------------------
(* What each step does to the two pools.                                    *)

\* The part of the state the ports' pool is made of.
portState == <<portQueue, extPorts, ext, rel, daemon>>
ipState == <<ipQueue, ip, daemon>>

\* A step of the boot leaves the goroutines alone, which do not run yet, and
\* after the first one the queues.
LEMMA BootParts ==
  ASSUME NewNetworkManager
  PROVE  /\ UNCHANGED <<faults, crashes, pc, ip, extPorts, ext, rel>>
         /\ daemon # "up" /\ daemon' \in DaemonValues \ {"down"}
         /\ \/ NewAllocators
            \/ UNCHANGED <<ipQueue, portQueue>> /\ daemon # "down"
<1>1. CASE NewAllocators
  BY <1>1 DEF NewAllocators, Boot, DaemonValues, iface
<1>2. CASE Unhook \/ Flush \/ DeleteChain \/ NewChain \/ Hook
  BY <1>2 DEF Unhook, Flush, DeleteChain, NewChain, Hook, Boot, BootFrame,
              DaemonValues, alloc, iface
<1> QED BY <1>1, <1>2 DEF NewNetworkManager

\* A step of Network is a lease step of the pool of ports, or a stutter.
LEMMA PortPoolStep ==
  ASSUME IInv, Next
  PROVE  [PortPool!Next]_(PortPool!vars) /\ IsInjective(portQueue')
<1> USE DEF IInv
<1>1. CASE UNCHANGED portState
  BY <1>1 DEF portState, PortPool!vars, HeldPorts, PortsConserved
<1>2. CASE NewNetworkManager
  <2>1. CASE NewAllocators
    <3>1. /\ daemon = "down" /\ daemon' = "unhook" /\ portQueue' = PortPopulate
          /\ UNCHANGED <<extPorts, ext, rel>>
      BY <2>1 DEF NewAllocators, Boot, iface
    <3> QED BY <3>1, PopulateFacts DEF PortPool!vars, HeldPorts
  <2>2. CASE UNCHANGED portQueue /\ daemon # "down"
    BY <1>2, <2>2, BootParts DEF PortPool!vars, HeldPorts, PortsConserved
  <2> QED BY <1>2, <2>1, <2>2, BootParts
<1>3. CASE Die
  <2>1. \A c \in Client : HeldPorts(c)' = {}
    BY <1>3 DEF Die, NoInterfaces, HeldPorts
  <2>2. PortPool!Reset
    BY <2>1, <1>3 DEF PortPool!Reset, Die
  <2>3. IsInjective(portQueue')
    BY <1>3 DEF Die, IsInjective
  <2> QED BY <2>2, <2>3 DEF PortPool!Next
<1>4. ASSUME NEW c \in Client, AcquirePort(c)
      PROVE  PortPool!Acquire(c) /\ IsInjective(portQueue')
  <2>1. /\ Head(portQueue) \in Range(portQueue)
        /\ IsInjective(Tail(portQueue))
        /\ Range(Tail(portQueue)) = Range(portQueue) \ {Head(portQueue)}
        /\ Head(portQueue) \in Port
    BY <1>4, ReceiveLemma DEF AcquirePort, TypeOK, PortsConserved
  <2>2. /\ ext[c] = NoPort /\ ext' = [ext EXCEPT ![c] = Head(portQueue)]
        /\ ext \in [Client -> Port \union {NoPort}]
        /\ portQueue' = Tail(portQueue)
        /\ daemon = "up" /\ daemon' = "up" /\ UNCHANGED <<extPorts, rel>>
    BY <1>4 DEF AcquirePort, Go, GoroutineOK, TypeOK, host
  <2>3. /\ HeldPorts(c)' = HeldPorts(c) \union {Head(portQueue)}
        /\ \A d \in Client \ {c} : HeldPorts(d)' = HeldPorts(d)
    BY <2>1, <2>2, RangeFacts DEF HeldPorts
  <2> QED BY <2>1, <2>2, <2>3 DEF PortPool!Acquire
<1>5. ASSUME NEW c \in Client, Record(c)
      PROVE  UNCHANGED PortPool!vars /\ IsInjective(portQueue')
  <2>1. /\ rel[c] = 1 /\ extPorts[c] \in Seq(Port) /\ ext[c] \in Port
        /\ extPorts \in [Client -> Seq(Port)] /\ ext \in [Client -> Port \union {NoPort}]
    BY <1>5 DEF Record, Go, GoroutineOK, TypeOK
  <2>2. /\ extPorts' = [extPorts EXCEPT ![c] = Append(extPorts[c], ext[c])]
        /\ ext' = [ext EXCEPT ![c] = NoPort]
        /\ UNCHANGED <<portQueue, rel, daemon>>
    BY <1>5 DEF Record, alloc, host
  <2>3. HeldPorts(c)' = HeldPorts(c)
    <3>1. HeldPorts(c)' = {Append(extPorts[c], ext[c])[j] : j \in 1 .. (Len(extPorts[c]) + 1)}
      <4>1. /\ extPorts'[c] = Append(extPorts[c], ext[c])
            /\ ext'[c] = NoPort /\ rel'[c] = 1
        BY <2>1, <2>2
      <4>2. Len(Append(extPorts[c], ext[c])) = Len(extPorts[c]) + 1
        BY <2>1
      <4> QED BY <4>1, <4>2 DEF HeldPorts
    <3>2. HeldPorts(c) = {extPorts[c][j] : j \in 1 .. Len(extPorts[c])} \union {ext[c]}
      BY <2>1, RangeFacts DEF HeldPorts
    <3>3. {Append(extPorts[c], ext[c])[j] : j \in 1 .. (Len(extPorts[c]) + 1)}
            = {extPorts[c][j] : j \in 1 .. Len(extPorts[c])} \union {ext[c]}
      <4> DEFINE s == extPorts[c]
                 t == Append(extPorts[c], ext[c])
      <4>1. /\ Len(s) \in Nat /\ t[Len(s) + 1] = ext[c]
            /\ \A j \in 1 .. Len(s) : t[j] = s[j]
        BY <2>1
      <4>2. 1 .. (Len(s) + 1) = 1 .. Len(s) \union {Len(s) + 1}
        BY <4>1
      <4> HIDE DEF s, t
      <4>3. {t[j] : j \in 1 .. (Len(s) + 1)} = {s[j] : j \in 1 .. Len(s)} \union {ext[c]}
        BY <4>1, <4>2
      <4> QED BY <4>3 DEF s, t
    <3> QED BY <3>1, <3>2, <3>3
  <2>4. \A d \in Client \ {c} : HeldPorts(d)' = HeldPorts(d)
    BY <2>1, <2>2 DEF HeldPorts
  <2> QED BY <2>2, <2>3, <2>4 DEF PortPool!vars, PortsConserved
<1>6. ASSUME NEW c \in Client, Unacquire(c)
      PROVE  PortPool!Release(c) /\ IsInjective(portQueue')
  <2>1. /\ daemon = "up" /\ ext[c] \in Port /\ ext[c] \in HeldPorts(c)
        /\ ext[c] \notin Range(portQueue) /\ rel[c] = 1
        /\ ext \in [Client -> Port \union {NoPort}] /\ portQueue \in Seq(Port)
        /\ extPorts[c] \in Seq(Port)
    BY <1>6 DEF Unacquire, Go, GoroutineOK, TypeOK, PortsConserved, PortPool!Inv,
                PortPool!Conserved, HeldPorts
  <2>2. Len(portQueue) < PortRangeEnd - PortRangeStart
    BY <2>1, RangeFacts, RoomLemma DEF PortsConserved
  <2>3. /\ portQueue' = Append(portQueue, ext[c])
        /\ ext' = [ext EXCEPT ![c] = NoPort]
        /\ daemon' = "up" /\ UNCHANGED <<extPorts, rel>>
    BY <1>6, <2>1, <2>2 DEF Unacquire, ReleasePort, SendOrDrop, host
  <2>4. /\ IsInjective(portQueue')
        /\ Range(portQueue') = Range(portQueue) \union {ext[c]}
    BY <2>1, <2>3, SendLemma DEF PortsConserved
  <2>5. HeldPorts(c)' = HeldPorts(c) \ {ext[c]}
    <3>1. \A j \in 1 .. Len(extPorts[c]) : extPorts[c][j] # ext[c]
      BY <2>1 DEF GoroutineOK, Range
    <3> QED BY <2>1, <2>3, <3>1, RangeFacts DEF HeldPorts
  <2>6. \A d \in Client \ {c} : HeldPorts(d)' = HeldPorts(d)
    BY <2>1, <2>3 DEF HeldPorts
  <2> QED BY <2>1, <2>3, <2>4, <2>5, <2>6 DEF PortPool!Release
<1>7. ASSUME NEW c \in Client, FreePort(c)
      PROVE  PortPool!Release(c) /\ IsInjective(portQueue')
  <2> DEFINE p == extPorts[c][rel[c]]
  <2>1. /\ daemon = "up" /\ rel[c] \in 1 .. Len(extPorts[c]) /\ ext[c] = NoPort
        /\ extPorts[c] \in Seq(Port) /\ rel \in [Client -> Nat \ {0}]
        /\ portQueue \in Seq(Port) /\ IsInjective(extPorts[c])
    <3>1. /\ daemon = "up" /\ pc[c] = "free"
          /\ extPorts[c] \in Seq(Port) /\ rel \in [Client -> Nat \ {0}]
          /\ portQueue \in Seq(Port)
      BY <1>7 DEF FreePort, Go, TypeOK
    <3>2. rel[c] <= Len(extPorts[c]) /\ ext[c] = NoPort /\ IsInjective(extPorts[c])
      BY <3>1 DEF GoroutineOK
    <3> QED BY <3>1, <3>2
  <2>2. p \in Port /\ p \in HeldPorts(c)
    BY <2>1 DEF HeldPorts
  <2>3. p \notin Range(portQueue)
    BY <2>1, <2>2 DEF PortsConserved, PortPool!Inv, PortPool!Conserved
  <2>4. Len(portQueue) < PortRangeEnd - PortRangeStart
    BY <2>1, <2>2, <2>3, RangeFacts, RoomLemma DEF PortsConserved
  <2>5. /\ portQueue' = Append(portQueue, p)
        /\ rel' = [rel EXCEPT ![c] = rel[c] + 1]
        /\ daemon' = "up" /\ UNCHANGED <<extPorts, ext>>
    BY <1>7, <2>1, <2>4 DEF FreePort, ReleasePort, SendOrDrop, Releasing, host
  <2>6. /\ IsInjective(portQueue')
        /\ Range(portQueue') = Range(portQueue) \union {p}
    BY <2>1, <2>2, <2>3, <2>5, SendLemma DEF PortsConserved
  <2>7. HeldPorts(c)' = HeldPorts(c) \ {p}
    <3>1. HeldPorts(c) = {extPorts[c][j] : j \in rel[c] .. Len(extPorts[c])}
      BY <2>1 DEF HeldPorts
    <3>2. HeldPorts(c)' = {extPorts[c][j] : j \in (rel[c] + 1) .. Len(extPorts[c])}
      BY <2>1, <2>5 DEF HeldPorts
    <3>3. \A j \in (rel[c] + 1) .. Len(extPorts[c]) : extPorts[c][j] # p
      BY <2>1 DEF IsInjective
    <3> QED BY <2>1, <3>1, <3>2, <3>3
  <2>8. \A d \in Client \ {c} : HeldPorts(d)' = HeldPorts(d)
    BY <2>1, <2>5 DEF HeldPorts
  <2> HIDE DEF p
  <2> QED BY <2>1, <2>2, <2>5, <2>6, <2>7, <2>8 DEF PortPool!Release
<1>8. ASSUME NEW c \in Client, FreeIP(c)
      PROVE  UNCHANGED PortPool!vars /\ IsInjective(portQueue')
  <2>1. /\ rel[c] \in Nat /\ rel[c] > Len(extPorts[c]) /\ ext[c] = NoPort
        /\ extPorts \in [Client -> Seq(Port)] /\ rel \in [Client -> Nat \ {0}]
    <3>1. /\ pc[c] = "release" /\ ~ToRelease(c)
          /\ extPorts \in [Client -> Seq(Port)] /\ rel \in [Client -> Nat \ {0}]
      BY <1>8 DEF FreeIP, Go, TypeOK
    <3>2. ext[c] = NoPort
      BY <3>1 DEF GoroutineOK
    <3>3. rel[c] \in Nat /\ Len(extPorts[c]) \in Nat
      BY <3>1
    <3> QED BY <3>1, <3>2, <3>3 DEF ToRelease
  <2>2. /\ extPorts' = [extPorts EXCEPT ![c] = <<>>]
        /\ rel' = [rel EXCEPT ![c] = 1]
        /\ UNCHANGED <<portQueue, ext, daemon>>
    BY <1>8 DEF FreeIP, host
  <2>3. HeldPorts(c) = {} /\ HeldPorts(c)' = {}
    BY <2>1, <2>2 DEF HeldPorts
  <2>4. \A d \in Client \ {c} : HeldPorts(d)' = HeldPorts(d)
    BY <2>1, <2>2 DEF HeldPorts
  <2> QED BY <2>2, <2>3, <2>4 DEF PortPool!vars, PortsConserved
<1>9. ASSUME NEW c \in Client, Step(c)
      PROVE  \/ UNCHANGED portState \/ Die
             \/ AcquirePort(c) \/ Record(c) \/ Unacquire(c)
             \/ FreePort(c) \/ FreeIP(c)
  BY <1>9 DEF Step, Allocate, NoMorePorts, Allocated, Forward, ForwardFails,
              RecordPanics, BeginRelease, Unforward, UnmapFails, DeleteMapping,
              portState, alloc, host, iface
<1>10. CASE \E c \in Client : Step(c)
  BY <1>10, <1>1, <1>3, <1>4, <1>5, <1>6, <1>7, <1>8, <1>9 DEF PortPool!Next
<1> QED BY <1>1, <1>2, <1>3, <1>10 DEF Next, Crash

\* A step of Network is a lease step of the pool of addresses, or a stutter.
LEMMA IPPoolStep ==
  ASSUME IInv, Next
  PROVE  [IPPool!Next]_(IPPool!vars) /\ IsInjective(ipQueue')
<1> USE DEF IInv
<1>1. CASE UNCHANGED ipState
  BY <1>1 DEF ipState, IPPool!vars, HeldIPs, AddressesConserved
<1>2. CASE NewNetworkManager
  <2>1. CASE NewAllocators
    <3>1. /\ daemon = "down" /\ daemon' = "unhook" /\ ipQueue' = IPPopulate
          /\ UNCHANGED ip
      BY <2>1 DEF NewAllocators, Boot, iface
    <3> QED BY <3>1, PopulateFacts DEF IPPool!vars, HeldIPs
  <2>2. CASE UNCHANGED ipQueue /\ daemon # "down"
    BY <1>2, <2>2, BootParts DEF IPPool!vars, HeldIPs, AddressesConserved
  <2> QED BY <1>2, <2>1, <2>2, BootParts
<1>3. CASE Die
  <2>1. \A c \in Client : HeldIPs(c)' = {}
    BY <1>3 DEF Die, NoInterfaces, HeldIPs
  <2>2. IPPool!Reset
    BY <2>1, <1>3 DEF IPPool!Reset, Die
  <2>3. IsInjective(ipQueue')
    BY <1>3 DEF Die, IsInjective
  <2> QED BY <2>2, <2>3 DEF IPPool!Next
<1>4. ASSUME NEW c \in Client, Allocate(c)
      PROVE  IPPool!Acquire(c) /\ IsInjective(ipQueue')
  <2>1. /\ Head(ipQueue) \in Range(ipQueue)
        /\ IsInjective(Tail(ipQueue))
        /\ Range(Tail(ipQueue)) = Range(ipQueue) \ {Head(ipQueue)}
        /\ Head(ipQueue) \in Address
    BY <1>4, ReceiveLemma DEF Allocate, TypeOK, AddressesConserved
  <2>2. /\ ip[c] = NoIP /\ ip' = [ip EXCEPT ![c] = Head(ipQueue)]
        /\ ip \in [Client -> Address \union {NoIP}]
        /\ ipQueue' = Tail(ipQueue)
        /\ daemon = "up" /\ daemon' = "up"
    BY <1>4 DEF Allocate, Go, GoroutineOK, TypeOK, host
  <2>3. /\ HeldIPs(c)' = HeldIPs(c) \union {Head(ipQueue)}
        /\ \A d \in Client \ {c} : HeldIPs(d)' = HeldIPs(d)
    BY <2>1, <2>2, RangeFacts DEF HeldIPs
  <2> QED BY <2>1, <2>2, <2>3 DEF IPPool!Acquire
<1>5. ASSUME NEW c \in Client, FreeIP(c)
      PROVE  IPPool!Release(c) /\ IsInjective(ipQueue')
  <2>1. /\ daemon = "up" /\ ip[c] \in Address /\ ip[c] \in HeldIPs(c)
        /\ ip[c] \notin Range(ipQueue)
        /\ ip \in [Client -> Address \union {NoIP}] /\ ipQueue \in Seq(Address)
    BY <1>5, RangeFacts DEF FreeIP, Go, GoroutineOK, TypeOK, AddressesConserved,
                IPPool!Inv, IPPool!Conserved, HeldIPs
  <2>2. Len(ipQueue) < Size - 3
    BY <2>1, RangeFacts, RoomLemma DEF AddressesConserved
  <2>3. /\ ipQueue' = Append(ipQueue, ip[c])
        /\ ip' = [ip EXCEPT ![c] = NoIP]
        /\ daemon' = "up"
    BY <1>5, <2>1, <2>2 DEF FreeIP, ReleaseIP, SendOrDrop, host
  <2>4. /\ IsInjective(ipQueue')
        /\ Range(ipQueue') = Range(ipQueue) \union {ip[c]}
    BY <2>1, <2>3, SendLemma DEF AddressesConserved
  <2>5. /\ HeldIPs(c)' = HeldIPs(c) \ {ip[c]}
        /\ \A d \in Client \ {c} : HeldIPs(d)' = HeldIPs(d)
    BY <2>1, <2>3, RangeFacts DEF HeldIPs
  <2> QED BY <2>1, <2>3, <2>4, <2>5 DEF IPPool!Release
<1>6. ASSUME NEW c \in Client, Step(c)
      PROVE  UNCHANGED ipState \/ Die \/ Allocate(c) \/ FreeIP(c)
  BY <1>6 DEF Step, AcquirePort, NoMorePorts, Allocated, Forward, ForwardFails,
              Record, RecordPanics, Unacquire, BeginRelease, Unforward,
              UnmapFails, DeleteMapping, FreePort, ipState, alloc, host, iface
<1>7. CASE \E c \in Client : Step(c)
  BY <1>7, <1>1, <1>3, <1>4, <1>5, <1>6 DEF IPPool!Next
<1> QED BY <1>1, <1>2, <1>3, <1>7 DEF Next, Crash

-----------------------------------------------------------------------------
\* Every step keeps the types.
LEMMA TypeStep ==
  ASSUME IInv, Next
  PROVE  TypeOK'
<1> USE DEF IInv
<1> DEFINE Rest == /\ mapper' \in {"nil", "ready"} /\ faults' \in SUBSET Command
                   /\ chainExists' \in BOOLEAN /\ jump' \in BOOLEAN
                   /\ daemon' \in DaemonValues
                   /\ crashes' \in 0 .. MaxCrashes
<1>1. CASE NewNetworkManager
  <2>1. /\ UNCHANGED <<faults, crashes, pc, ip, extPorts, ext, rel>>
        /\ daemon' \in DaemonValues
    BY <1>1, BootParts
  <2>2. ipQueue' \in Seq(Address) /\ portQueue' \in Seq(Port)
    <3>1. CASE NewAllocators
      BY <3>1, PopulateFacts DEF NewAllocators
    <3>2. CASE UNCHANGED <<ipQueue, portQueue>>
      BY <3>2 DEF TypeOK
    <3> QED BY <1>1, <3>1, <3>2, BootParts
  <2>3. /\ chain' = <<>> \/ chain' = chain
        /\ mapping' = <<>> \/ mapping' = mapping
        /\ jump' \in BOOLEAN
    BY <1>1 DEF NewNetworkManager, NewAllocators, Unhook, Flush, DeleteChain,
       NewChain, Hook, BootFrame, nat, TypeOK
  <2>4. chainExists' \in BOOLEAN
    BY <1>1 DEF NewNetworkManager, NewAllocators, Unhook, Flush, DeleteChain,
       NewChain, Hook, BootFrame, nat, TypeOK
  <2>5. mapper' \in {"nil", "ready"}
    BY <1>1 DEF NewNetworkManager, NewAllocators, Unhook, Flush, DeleteChain,
       NewChain, Hook, BootFrame, nat, TypeOK
  <2>6. chain' \in Seq(Rule)
    <3>1. <<>> \in Seq(Rule) /\ chain \in Seq(Rule)
      BY DEF TypeOK
    <3> QED BY <3>1, <2>3
  <2>7. DOMAIN mapping' \subseteq Port /\ \A p \in DOMAIN mapping' : mapping'[p] \in Dest
    <3>1. DOMAIN <<>> = {}
      OBVIOUS
    <3> QED BY <2>3, <3>1 DEF TypeOK
  <2> QED BY <2>1, <2>2, <2>3, <2>4, <2>5, <2>6, <2>7 DEF TypeOK
<1>2. CASE Die
  <2>1. Rest
    BY <1>2 DEF Die, TypeOK, nat, DaemonValues
  <2>2. /\ ipQueue' = <<>> /\ portQueue' = <<>> /\ mapping' = <<>>
        /\ chain' \in Seq(Rule) /\ NoInterfaces
    BY <1>2 DEF Die, nat, TypeOK
  <2> QED BY <2>1, <2>2 DEF TypeOK, NoInterfaces, PcValues
<1>3. ASSUME NEW c \in Client, Allocate(c) PROVE TypeOK'
  <2>1. Head(ipQueue) \in Address /\ Tail(ipQueue) \in Seq(Address)
    BY <1>3, ReceiveLemma DEF Allocate, TypeOK, AddressesConserved
  <2> QED BY <1>3, <2>1 DEF Allocate, Go, TypeOK, PcValues, host
<1>4. ASSUME NEW c \in Client, AcquirePort(c) PROVE TypeOK'
  <2>1. Head(portQueue) \in Port /\ Tail(portQueue) \in Seq(Port)
    BY <1>4, ReceiveLemma DEF AcquirePort, TypeOK, PortsConserved
  <2> QED BY <1>4, <2>1 DEF AcquirePort, Go, TypeOK, PcValues, host
<1>5. ASSUME NEW c \in Client,
             \/ NoMorePorts(c) \/ Allocated(c) \/ ForwardFails(c)
             \/ BeginRelease(c) \/ UnmapFails(c)
      PROVE  TypeOK'
  BY <1>5 DEF NoMorePorts, Allocated, ForwardFails, BeginRelease, UnmapFails,
              Go, TypeOK, PcValues, host, alloc, iface
<1>6. ASSUME NEW c \in Client, Forward(c) PROVE TypeOK'
  <2>1. [dport |-> ext[c], dest |-> DestOf(c)] \in Rule
    BY <1>6, DestOfType DEF Forward, Go, Rule
  <2>2. chain' \in Seq(Rule)
    BY <1>6, <2>1 DEF Forward, TypeOK
  <2> QED BY <1>6, <2>2 DEF Forward, Go, TypeOK, PcValues, host, alloc, iface
<1>7. ASSUME NEW c \in Client, Record(c) PROVE TypeOK'
  <2>1. DestOf(c) \in Dest /\ ext[c] \in Port
    BY <1>7, DestOfType DEF Record, Go
  <2>2. /\ DOMAIN mapping' \subseteq Port
        /\ \A p \in DOMAIN mapping' : mapping'[p] \in Dest
    BY <1>7, <2>1 DEF Record, TypeOK
  <2>3. extPorts' \in [Client -> Seq(Port)]
    BY <1>7, <2>1 DEF Record, TypeOK
  <2> QED BY <1>7, <2>2, <2>3 DEF Record, Go, TypeOK, PcValues, host, alloc
<1>8. ASSUME NEW c \in Client, Unacquire(c) PROVE TypeOK'
  <2>1. ext[c] \in Port
    BY <1>8 DEF Unacquire, Go, GoroutineOK, TypeOK
  <2>2. portQueue' \in Seq(Port)
    BY <1>8, <2>1 DEF Unacquire, ReleasePort, SendOrDrop, TypeOK
  <2> QED BY <1>8, <2>2 DEF Unacquire, Go, TypeOK, PcValues, host
<1>9. ASSUME NEW c \in Client, Unforward(c) PROVE TypeOK'
  <2>1. chain' \in Seq(Rule)
    <3>1. PICK i \in 1 .. Len(chain) : chain' = RemoveAt(chain, i)
      BY <1>9 DEF Unforward
    <3>2. chain \in Seq(Rule)
      BY DEF TypeOK
    <3>3. /\ SubSeq(chain, 1, i - 1) \in Seq(Rule)
          /\ SubSeq(chain, i + 1, Len(chain)) \in Seq(Rule)
      BY <3>2, SubSeqProperties
    <3> QED BY <3>1, <3>3, ConcatProperties DEF RemoveAt
  <2> QED BY <1>9, <2>1 DEF Unforward, Go, TypeOK, PcValues, host, alloc, iface
<1>10. ASSUME NEW c \in Client, DeleteMapping(c) PROVE TypeOK'
  <2>1. /\ DOMAIN mapping' \subseteq Port
        /\ \A p \in DOMAIN mapping' : mapping'[p] \in Dest
    BY <1>10 DEF DeleteMapping, Restrict, TypeOK
  <2> QED BY <1>10, <2>1 DEF DeleteMapping, Go, TypeOK, PcValues, host, alloc, iface
<1>11. ASSUME NEW c \in Client, FreePort(c) PROVE TypeOK'
  <2>1. /\ pc[c] = "free" /\ extPorts[c] \in Seq(Port)
        /\ rel[c] \in Nat \ {0}
    BY <1>11 DEF FreePort, Go, TypeOK
  <2>2. Releasing(c) \in Port
    BY <2>1 DEF GoroutineOK, Releasing
  <2>3. portQueue' \in Seq(Port)
    BY <1>11, <2>2 DEF FreePort, ReleasePort, SendOrDrop, TypeOK
  <2> QED BY <1>11, <2>3 DEF FreePort, Go, TypeOK, PcValues, host
<1>12. ASSUME NEW c \in Client, FreeIP(c) PROVE TypeOK'
  <2>1. ip[c] \in Address
    BY <1>12 DEF FreeIP, Go, GoroutineOK, TypeOK
  <2>2. ipQueue' \in Seq(Address)
    BY <1>12, <2>1 DEF FreeIP, ReleaseIP, SendOrDrop, TypeOK
  <2>3. extPorts' \in [Client -> Seq(Port)]
    BY <1>12 DEF FreeIP, TypeOK
  <2> QED BY <1>12, <2>2, <2>3 DEF FreeIP, Go, TypeOK, PcValues, host
<1> QED BY <1>1, <1>2, <1>3, <1>4, <1>5, <1>6, <1>7, <1>8, <1>9, <1>10, <1>11,
           <1>12 DEF Next, Crash, Step, RecordPanics

\* Every step keeps what each goroutine holds at its place in the code.
LEMMA GoroutineStep ==
  ASSUME IInv, Next
  PROVE  GoroutineOK'
<1> USE DEF IInv
<1>1. CASE NewNetworkManager
  BY <1>1, BootParts DEF GoroutineOK
<1>2. CASE Die
  BY <1>2 DEF Die, NoInterfaces, GoroutineOK, IsInjective, Range, NoPort
<1>3. ASSUME NEW c \in Client, Allocate(c) PROVE GoroutineOK'
  <2>1. Head(ipQueue) \in Address
    BY <1>3, ReceiveLemma DEF Allocate, TypeOK, AddressesConserved
  <2> QED BY <1>3, <2>1, RangeFacts DEF Allocate, Go, TypeOK, GoroutineOK, host
<1>4. ASSUME NEW c \in Client, AcquirePort(c) PROVE GoroutineOK'
  <2>1. /\ Head(portQueue) \in Port /\ Head(portQueue) \in Range(portQueue)
        /\ daemon = "up" /\ pc[c] = "ports" /\ extPorts[c] \in Seq(Port)
    BY <1>4, ReceiveLemma DEF AcquirePort, Go, TypeOK, PortsConserved
  <2>2. rel[c] = 1
    BY <2>1 DEF GoroutineOK
  <2>3. Head(portQueue) \notin Range(extPorts[c])
    <3>1. HeldPorts(c) \intersect Range(portQueue) = {}
      BY <2>1 DEF PortsConserved, PortPool!Inv, PortPool!Conserved
    <3>2. Range(extPorts[c]) \subseteq HeldPorts(c)
      <4>1. DOMAIN extPorts[c] = rel[c] .. Len(extPorts[c])
        BY <2>1, <2>2
      <4> QED BY <4>1 DEF HeldPorts, Range
    <3> QED BY <2>1, <3>1, <3>2
  <2> QED BY <1>4, <2>1, <2>3, RangeFacts
    DEF AcquirePort, Go, TypeOK, GoroutineOK, host
<1>5. ASSUME NEW c \in Client,
             \/ NoMorePorts(c) \/ Allocated(c) \/ Forward(c) \/ ForwardFails(c)
             \/ BeginRelease(c) \/ UnmapFails(c) \/ Unforward(c)
      PROVE  GoroutineOK'
  <2>1. /\ daemon = "up" /\ daemon' = "up"
        /\ UNCHANGED <<ip, extPorts, ext, rel>>
        /\ pc \in [Client -> PcValues] /\ rel[c] \in Nat /\ extPorts[c] \in Seq(Port)
    BY <1>5 DEF NoMorePorts, Allocated, Forward, ForwardFails, BeginRelease,
                UnmapFails, Unforward, Go, TypeOK, host, iface
  <2>2. \/ pc[c] = "ports" /\ pc' = [pc EXCEPT ![c] = "release"]
        \/ pc[c] = "ports" /\ pc' = [pc EXCEPT ![c] = "up"]
        \/ pc[c] = "map" /\ pc' = [pc EXCEPT ![c] = "record"]
        \/ pc[c] = "map" /\ pc' = [pc EXCEPT ![c] = "unacquire"]
        \/ pc[c] = "up" /\ pc' = [pc EXCEPT ![c] = "release"]
        \/ /\ pc[c] = "release" /\ ToRelease(c)
           /\ \/ pc' = [pc EXCEPT ![c] = "free"]
              \/ pc' = [pc EXCEPT ![c] = "delete"]
    BY <1>5 DEF NoMorePorts, Allocated, Forward, ForwardFails, BeginRelease,
                UnmapFails, Unforward, Go
  <2> QED BY <2>1, <2>2 DEF GoroutineOK, ToRelease
<1>6. ASSUME NEW c \in Client, Record(c) PROVE GoroutineOK'
  <2>1. /\ daemon = "up" /\ pc[c] = "record" /\ pc \in [Client -> PcValues]
        /\ extPorts \in [Client -> Seq(Port)] /\ ext \in [Client -> Port \union {NoPort}]
        /\ extPorts[c] \in Seq(Port)
        /\ pc' = [pc EXCEPT ![c] = "ports"]
        /\ extPorts' = [extPorts EXCEPT ![c] = Append(extPorts[c], ext[c])]
        /\ ext' = [ext EXCEPT ![c] = NoPort]
        /\ UNCHANGED <<ip, rel, daemon>>
    BY <1>6 DEF Record, Go, TypeOK, host
  <2>2. /\ ext[c] \in Port /\ ext[c] \notin Range(extPorts[c])
        /\ IsInjective(extPorts[c])
    BY <2>1 DEF GoroutineOK
  <2>3. /\ IsInjective(Append(extPorts[c], ext[c]))
        /\ NoPort \notin Range(Append(extPorts[c], ext[c]))
    BY <2>1, <2>2, SendLemma, RangeFacts DEF Range
  <2> QED BY <2>1, <2>3 DEF GoroutineOK
<1>7. ASSUME NEW c \in Client, Unacquire(c) PROVE GoroutineOK'
  <2>1. /\ daemon = "up" /\ pc[c] = "unacquire" /\ pc \in [Client -> PcValues]
        /\ ext \in [Client -> Port \union {NoPort}] /\ extPorts[c] \in Seq(Port)
        /\ pc' = [pc EXCEPT ![c] = "release"]
        /\ ext' = [ext EXCEPT ![c] = NoPort]
        /\ UNCHANGED <<ip, extPorts, rel, daemon>>
    BY <1>7 DEF Unacquire, Go, TypeOK, host
  <2>2. NoPort \notin Range(extPorts[c])
    BY <2>1, RangeFacts DEF Range
  <2> QED BY <2>1, <2>2 DEF GoroutineOK
<1>8. ASSUME NEW c \in Client, DeleteMapping(c) PROVE GoroutineOK'
  BY <1>8 DEF DeleteMapping, Go, TypeOK, GoroutineOK, host, iface
<1>9. ASSUME NEW c \in Client, FreePort(c) PROVE GoroutineOK'
  BY <1>9 DEF FreePort, Go, TypeOK, GoroutineOK, host
<1>10. ASSUME NEW c \in Client, FreeIP(c) PROVE GoroutineOK'
  <2>1. IsInjective(<<>>) /\ Range(<<>>) = {}
    BY DEF IsInjective, Range
  <2> QED BY <1>10, <2>1 DEF FreeIP, Go, TypeOK, GoroutineOK, host
<1> QED BY <1>1, <1>2, <1>3, <1>4, <1>5, <1>6, <1>7, <1>8, <1>9, <1>10
        DEF Next, Crash, Step, RecordPanics

-----------------------------------------------------------------------------
\* The network of a new daemon satisfies the invariant.
LEMMA InitIInv == Init => IInv
<1> SUFFICES ASSUME Init PROVE IInv
  OBVIOUS
<1>1. TypeOK
  <2>1. /\ <<>> \in Seq(Address) /\ <<>> \in Seq(Port) /\ <<>> \in Seq(Rule)
        /\ DOMAIN <<>> = {} /\ 0 \in 0 .. MaxCrashes
    OBVIOUS
  <2>2. /\ ipQueue \in Seq(Address) /\ portQueue \in Seq(Port) /\ chain \in Seq(Rule)
        /\ DOMAIN mapping = {} /\ crashes \in 0 .. MaxCrashes
    BY <2>1 DEF Init
  <2>3. /\ mapper \in {"nil", "ready"} /\ daemon \in DaemonValues
        /\ chainExists \in BOOLEAN /\ jump \in BOOLEAN
        /\ faults \in SUBSET Command
    BY NetworkAssumption DEF Init, DaemonValues
  <2>4. /\ pc \in [Client -> PcValues] /\ ip \in [Client -> Address \union {NoIP}]
        /\ extPorts \in [Client -> Seq(Port)]
        /\ ext \in [Client -> Port \union {NoPort}] /\ rel \in [Client -> Nat \ {0}]
    BY <2>1 DEF Init, PcValues
  <2> QED BY <2>2, <2>3, <2>4 DEF TypeOK
<1>2. GoroutineOK
  BY DEF Init, GoroutineOK, IsInjective, Range
<1>3. PortsConserved
  <2>1. \A c \in Client : HeldPorts(c) = {}
    BY DEF Init, HeldPorts
  <2> QED BY <2>1 DEF Init, PortsConserved, IsInjective, PortPool!Inv,
                      PortPool!Exclusive, PortPool!Conserved
<1>4. AddressesConserved
  <2>1. \A c \in Client : HeldIPs(c) = {}
    BY DEF Init, HeldIPs
  <2> QED BY <2>1 DEF Init, AddressesConserved, IsInjective, IPPool!Inv,
                      IPPool!Exclusive, IPPool!Conserved
<1> QED BY <1>1, <1>2, <1>3, <1>4 DEF IInv

\* What the pool of Leases promises, of what is free and what is leased, and
\* what one of its steps makes of them.
Pooled(S, f, l) ==
  /\ f \subseteq S /\ l \in [Client -> SUBSET S]
  /\ \A c, d \in Client : c # d => l[c] \intersect l[d] = {}
  /\ \A r \in S : r \in f \/ \E c \in Client : r \in l[c]
  /\ \A c \in Client : f \intersect l[c] = {}

PoolStep(S, f, l, g, m) ==
  \/ g = f /\ m = l
  \/ g = S /\ m = [c \in Client |-> {}]
  \/ \E c \in Client : \E r \in f :
       g = f \ {r} /\ m = [l EXCEPT ![c] = @ \union {r}]
  \/ \E c \in Client : \E r \in l[c] :
       g = f \union {r} /\ m = [l EXCEPT ![c] = @ \ {r}]

\* Leases, returns and resets keep every resource in one place.
LEMMA StaysPooled ==
  ASSUME NEW S, NEW f, NEW l, NEW g, NEW m, Pooled(S, f, l), PoolStep(S, f, l, g, m)
  PROVE  Pooled(S, g, m)
<1>1. ASSUME NEW c \in Client, NEW r \in f,
             g = f \ {r}, m = [l EXCEPT ![c] = @ \union {r}]
      PROVE  Pooled(S, g, m)
  BY <1>1 DEF Pooled
<1>2. ASSUME NEW c \in Client, NEW r \in l[c],
             g = f \union {r}, m = [l EXCEPT ![c] = @ \ {r}]
      PROVE  Pooled(S, g, m)
  BY <1>2 DEF Pooled
<1>3. CASE g = S /\ m = [c \in Client |-> {}]
  BY <1>3 DEF Pooled
<1> QED BY <1>1, <1>2, <1>3 DEF PoolStep

\* So a step of the pool of ports keeps what it promises,
LEMMA PortPoolKeeps ==
  ASSUME PortPool!Inv, [PortPool!Next]_(PortPool!vars)
  PROVE  PortPool!Inv'
<1> DEFINE f == IF daemon = "down" THEN Port ELSE Range(portQueue)
           l == [c \in Client |-> HeldPorts(c)]
<1>1. Pooled(Port, f, l)
  BY DEF PortPool!Inv, PortPool!Exclusive, PortPool!Conserved, Pooled
<1>2. PoolStep(Port, f, l, f', l')
  BY DEF PortPool!Next, PortPool!vars, PortPool!Acquire, PortPool!Release,
         PortPool!Reset, PoolStep
<1> HIDE DEF f, l
<1>3. Pooled(Port, f', l')
  BY <1>1, <1>2, StaysPooled
<1> QED BY <1>3
  DEF f, l, Pooled, PortPool!Inv, PortPool!Exclusive, PortPool!Conserved

\* and one of the pool of addresses.
LEMMA IPPoolKeeps ==
  ASSUME IPPool!Inv, [IPPool!Next]_(IPPool!vars)
  PROVE  IPPool!Inv'
<1> DEFINE f == IF daemon = "down" THEN Address ELSE Range(ipQueue)
           l == [c \in Client |-> HeldIPs(c)]
<1>1. Pooled(Address, f, l)
  BY DEF IPPool!Inv, IPPool!Exclusive, IPPool!Conserved, Pooled
<1>2. PoolStep(Address, f, l, f', l')
  BY DEF IPPool!Next, IPPool!vars, IPPool!Acquire, IPPool!Release, IPPool!Reset,
         PoolStep
<1> HIDE DEF f, l
<1>3. Pooled(Address, f', l')
  BY <1>1, <1>2, StaysPooled
<1> QED BY <1>3 DEF f, l, Pooled, IPPool!Inv, IPPool!Exclusive, IPPool!Conserved

\* Every step, and a stutter, keeps the invariant.
LEMMA NextIInv == IInv /\ [Next]_vars => IInv'
<1> SUFFICES ASSUME IInv, [Next]_vars PROVE IInv'
  OBVIOUS
<1>1. CASE Next
  <2>1. TypeOK' /\ GoroutineOK'
    BY <1>1, TypeStep, GoroutineStep
  <2>2. PortsConserved'
    <3>1. [PortPool!Next]_(PortPool!vars) /\ IsInjective(portQueue')
      BY <1>1, PortPoolStep
    <3>2. PortPool!Inv
      BY DEF IInv, PortsConserved
    <3>3. PortPool!Inv'
      BY <3>1, <3>2, PortPoolKeeps
    <3> QED BY <3>1, <3>3 DEF PortsConserved
  <2>3. AddressesConserved'
    <3>1. [IPPool!Next]_(IPPool!vars) /\ IsInjective(ipQueue')
      BY <1>1, IPPoolStep
    <3>2. IPPool!Inv
      BY DEF IInv, AddressesConserved
    <3>3. IPPool!Inv'
      BY <3>1, <3>2, IPPoolKeeps
    <3> QED BY <3>1, <3>3 DEF AddressesConserved
  <2> QED BY <2>1, <2>2, <2>3 DEF IInv
<1>2. CASE UNCHANGED vars
  <2>1. /\ UNCHANGED <<ipQueue, portQueue, mapping, mapper, chain, chainExists,
                        jump, faults, daemon, crashes, pc, ip, extPorts, ext, rel>>
    BY <1>2 DEF vars
  <2>2. TypeOK' /\ GoroutineOK'
    BY <2>1 DEF IInv, TypeOK, GoroutineOK
  <2>3. PortsConserved' /\ AddressesConserved'
    <3>1. UNCHANGED PortPool!vars /\ UNCHANGED IPPool!vars
      BY <2>1 DEF PortPool!vars, IPPool!vars, HeldPorts, HeldIPs
    <3>2. /\ PortPool!Inv /\ IPPool!Inv
          /\ IsInjective(portQueue') /\ IsInjective(ipQueue')
      BY <2>1 DEF IInv, PortsConserved, AddressesConserved
    <3>3. PortPool!Inv' /\ IPPool!Inv'
      BY <3>1, <3>2, PortPoolKeeps, IPPoolKeeps
    <3> QED BY <3>2, <3>3 DEF PortsConserved, AddressesConserved
  <2> QED BY <2>2, <2>3 DEF IInv
<1> QED BY <1>1, <1>2

\* Type correctness: in particular a port outside the range, or the bridge's
\* own address, is never handed out (network.go:170 and 209).
THEOREM NetworkTypeOK == Spec => []TypeOK
<1>1. IInv => TypeOK
  BY DEF IInv
<1> QED BY InitIInv, NextIInv, <1>1, PTL DEF Spec

\* However the containers' goroutines interleave, whatever iptables answers and
\* wherever the daemon dies, no port and no address is ever held by two
\* interfaces, or lost (network.go:165-302).
THEOREM NetworkConserves == Spec => [](PortsConserved /\ AddressesConserved)
<1>1. IInv => PortsConserved /\ AddressesConserved
  BY DEF IInv
<1> QED BY InitIInv, NextIInv, <1>1, PTL DEF Spec

\* The branches of the two Release()s that would drop a resource are dead code
\* (network.go:191 and 251).
THEOREM NetworkReleaseNeverRefused == Spec => []ReleaseNeverRefused
<1>1. IInv => ReleaseNeverRefused
  <2> SUFFICES ASSUME IInv, NEW c \in Client
               PROVE  /\ pc[c] \in {"free", "unacquire"} =>
                           Len(portQueue) < PortRangeEnd - PortRangeStart
                      /\ ip[c] # NoIP => Len(ipQueue) < Size - 3
    BY DEF ReleaseNeverRefused
  <2> USE DEF IInv
  <2>1. ASSUME pc[c] \in {"free", "unacquire"}
        PROVE  \E p \in Port : p \in HeldPorts(c)
    <3>1. /\ extPorts[c] \in Seq(Port) /\ rel[c] \in Nat \ {0}
          /\ ext[c] \in Port \union {NoPort}
      BY DEF TypeOK
    <3>2. CASE pc[c] = "free"
      <4>1. rel[c] \in 1 .. Len(extPorts[c])
        BY <3>1, <3>2 DEF GoroutineOK
      <4>2. extPorts[c][rel[c]] \in Port
        BY <3>1, <4>1
      <4>3. extPorts[c][rel[c]] \in HeldPorts(c)
        BY <3>1, <4>1 DEF HeldPorts
      <4> QED BY <4>2, <4>3
    <3>3. CASE pc[c] = "unacquire"
      BY <3>1, <3>3 DEF HeldPorts, GoroutineOK
    <3> QED BY <2>1, <3>2, <3>3
  <2>2. ASSUME pc[c] \in {"free", "unacquire"}
        PROVE  Len(portQueue) < PortRangeEnd - PortRangeStart
    <3>1. PICK p \in Port : p \in HeldPorts(c)
      BY <2>1, <2>2
    <3>2. p \notin Range(portQueue) /\ portQueue \in Seq(Port)
      <4>1. daemon = "up"
        BY <2>2 DEF GoroutineOK, TypeOK
      <4> QED BY <3>1, <4>1
        DEF PortsConserved, PortPool!Inv, PortPool!Conserved, TypeOK
    <3> QED BY <3>2, RoomLemma, RangeFacts DEF PortsConserved
  <2>3. ASSUME ip[c] # NoIP PROVE Len(ipQueue) < Size - 3
    <3>1. daemon = "up" /\ ip[c] \in Address /\ ipQueue \in Seq(Address)
      BY <2>3 DEF GoroutineOK, TypeOK
    <3>2. ip[c] \notin Range(ipQueue)
      BY <2>3, <3>1 DEF AddressesConserved, IPPool!Inv, IPPool!Conserved, HeldIPs
    <3> QED BY <3>1, <3>2, RoomLemma, RangeFacts DEF AddressesConserved
  <2> QED BY <2>2, <2>3
<1> QED BY InitIInv, NextIInv, <1>1, PTL DEF Spec

\* The port allocator, with its FIFO channel, AllocatePort's error path and
\* Release's loop, implements the pool of Leases.
LEMMA NetworkImplementsPortPool == Spec => PortPool!Spec
<1>1. Init => PortPool!Init
  BY DEF Init, PortPool!Init, HeldPorts
<1>2. IInv /\ [Next]_vars => [PortPool!Next]_(PortPool!vars)
  <2>1. CASE Next
    BY <2>1, PortPoolStep
  <2>2. UNCHANGED vars => UNCHANGED PortPool!vars
    BY DEF vars, PortPool!vars, HeldPorts
  <2> QED BY <2>1, <2>2
<1> QED BY InitIInv, NextIInv, <1>1, <1>2, PTL DEF Spec, PortPool!Spec

\* So does the address allocator.
LEMMA NetworkImplementsIPPool == Spec => IPPool!Spec
<1>1. Init => IPPool!Init
  BY DEF Init, IPPool!Init, HeldIPs
<1>2. IInv /\ [Next]_vars => [IPPool!Next]_(IPPool!vars)
  <2>1. CASE Next
    BY <2>1, IPPoolStep
  <2>2. UNCHANGED vars => UNCHANGED IPPool!vars
    BY DEF vars, IPPool!vars, HeldIPs
  <2> QED BY <2>1, <2>2
<1> QED BY InitIInv, NextIInv, <1>1, <1>2, PTL DEF Spec, IPPool!Spec

\* Network implements Leases twice, for any clients, ports, addresses, faults
\* and deaths: no resource is leased while it is leased, and none is dropped
\* (network.go:177-195, 237-255, 277-302).
THEOREM NetworkImplementsLeases == Spec => PoolsAreLeases
BY NetworkImplementsPortPool, NetworkImplementsIPPool DEF PoolsAreLeases

-----------------------------------------------------------------------------
(* The rules of the chain.  What Unmap can delete it finds by the mapping,  *)
(* so the mapping, the chain and the ports the goroutines hold have to      *)
(* agree: which they do while every -D succeeds.                            *)

\* The rules that are there, and the one Map makes for a port.
Rules == Range(chain)
RuleFor(p, d) == [dport |-> p, dest |-> d]

\* The entry Map made for the j-th port of c's container.
Entry(c, j) == [ip |-> ip[c], port |-> Ports[c][j]]

\* The ports of c that are still in the mapping, and those with a rule.
Held(c) == rel[c] .. Len(extPorts[c])
Mapped(c) == {j \in Held(c) : ~(pc[c] = "free" /\ j = rel[c])}
Ruled(c) == {j \in Mapped(c) : ~(pc[c] = "delete" /\ j = rel[c])}

\* What no fault disturbs: a chain that is not there has no rules, nor has the
\* one the boot has just made; before the boot is over there is no mapping and
\* no port mapper; a manager without a port mapper has given out no port, and
\* an interface that is complete has every port.
ChainInv ==
  /\ daemon # "up" => mapper = "nil" /\ mapping = <<>>
  /\ daemon = "hook" => chain = <<>>
  /\ ~chainExists => chain = <<>>
  /\ mapper = "ready" => jump
  /\ mapper = "nil" => \A c \in Client : extPorts[c] = <<>>
  /\ \A c \in Client : pc[c] = "up" => Len(extPorts[c]) = Len(Ports[c])

\* No port has two rules, so -D of one leaves none.
OneRule ==
  \A i, j \in 1 .. Len(chain) : chain[i].dport = chain[j].dport => i = j

\* A port that Acquire() may give out is not in the mapping.
FreeUnmapped == DOMAIN mapping \intersect Range(portQueue) = {}

\* The mapping and the chain have what the interface of c says, less what the
\* two steps of Map have still to add and those of Unmap have taken away.
Agrees(c) ==
  /\ \A j \in Mapped(c) : /\ extPorts[c][j] \in DOMAIN mapping
                          /\ mapping[extPorts[c][j]] = Entry(c, j)
  /\ \A j \in Ruled(c) : RuleFor(extPorts[c][j], Entry(c, j)) \in Rules
  /\ ext[c] \notin DOMAIN mapping
  /\ pc[c] = "record" => RuleFor(ext[c], DestOf(c)) \in Rules
  /\ pc[c] = "delete" => \A r \in Rules : r.dport # Releasing(c)
  /\ pc[c] = "free" => Releasing(c) \notin DOMAIN mapping

\* Every rule is in the mapping, or Map is about to put it there.
Known(r) ==
  \/ r.dport \in DOMAIN mapping /\ mapping[r.dport] = r.dest
  \/ \E c \in Client : pc[c] = "record" /\ r = RuleFor(ext[c], DestOf(c))

Tracked ==
  /\ \A r \in Rules : Known(r)
  /\ OneRule /\ FreeUnmapped
  /\ \A c \in Client : Agrees(c)

RuleInv == ChainInv /\ ("-D" \notin faults /\ mapper = "ready" => Tracked)

\* Whoever holds a port is the only one, in its interface and between Acquire()
\* and the append.
LEMMA Apart ==
  ASSUME IInv
  PROVE  /\ \A c \in Client : extPorts[c] \in Seq(Port) /\ rel[c] \in Nat \ {0}
         /\ \A c, d \in Client : ext[c] # NoPort /\ ext[c] = ext[d] => c = d
         /\ \A c, d \in Client : \A j \in rel[d] .. Len(extPorts[d]) :
              extPorts[d][j] # ext[c] /\ extPorts[d][j] \in Port
         /\ \A c, d \in Client : \A j \in rel[c] .. Len(extPorts[c]) :
              \A k \in rel[d] .. Len(extPorts[d]) :
                extPorts[c][j] = extPorts[d][k] => c = d /\ j = k
         /\ daemon = "up" => \A c \in Client : ext[c] \notin Range(portQueue)
         /\ daemon = "up" => \A c \in Client : \A j \in rel[c] .. Len(extPorts[c]) :
              extPorts[c][j] \notin Range(portQueue)
<1> USE DEF IInv
<1>1. \A c \in Client : extPorts[c] \in Seq(Port) /\ rel[c] \in Nat \ {0}
                        /\ ext[c] \in Port \union {NoPort}
  BY DEF TypeOK
<1>2. \A c \in Client : \A j \in rel[c] .. Len(extPorts[c]) :
        /\ extPorts[c][j] \in Port /\ j \in DOMAIN extPorts[c]
        /\ extPorts[c][j] \in HeldPorts(c)
  BY <1>1 DEF HeldPorts
<1>3. \A c \in Client : ext[c] # NoPort => ext[c] \in HeldPorts(c)
  BY DEF HeldPorts
<1>4. \A c, d \in Client : c # d => HeldPorts(c) \intersect HeldPorts(d) = {}
  BY DEF PortsConserved, PortPool!Inv, PortPool!Exclusive
<1>5. \A c \in Client : daemon = "up" => HeldPorts(c) \intersect Range(portQueue) = {}
  BY DEF PortsConserved, PortPool!Inv, PortPool!Conserved
<1>6. \A c \in Client : IsInjective(extPorts[c]) /\ ext[c] \notin Range(extPorts[c])
  BY DEF GoroutineOK
<1>7. \A c \in Client : \A j \in rel[c] .. Len(extPorts[c]) :
        extPorts[c][j] \in Range(extPorts[c])
  BY <1>2 DEF Range
<1>8. NoPort \notin Port
  BY RangeFacts
<1>9. portQueue \in Seq(Port)
  BY DEF TypeOK
<1>10. NoPort \notin Range(portQueue)
  BY <1>8, <1>9 DEF Range
<1>11. \A c, d \in Client : \A j \in rel[c] .. Len(extPorts[c]) :
              \A k \in rel[d] .. Len(extPorts[d]) :
                extPorts[c][j] = extPorts[d][k] => c = d /\ j = k
  BY <1>2, <1>4, <1>6 DEF IsInjective
<1>12. \A c, d \in Client : \A j \in rel[d] .. Len(extPorts[d]) :
              extPorts[d][j] # ext[c] /\ extPorts[d][j] \in Port
  BY <1>2, <1>3, <1>4, <1>6, <1>7, <1>8
<1> QED BY <1>1, <1>2, <1>3, <1>4, <1>5, <1>8, <1>10, <1>11, <1>12

\* What RemoveAt leaves: every other element, once.
LEMMA RemoveLemma ==
  ASSUME NEW S, NEW s \in Seq(S), NEW i \in 1 .. Len(s)
  PROVE  LET t == RemoveAt(s, i)
             at(k) == IF k < i THEN k ELSE k + 1
         IN /\ t \in Seq(S) /\ Len(t) = Len(s) - 1
            /\ \A k \in 1 .. Len(t) :
                 at(k) \in 1 .. Len(s) /\ at(k) # i /\ t[k] = s[at(k)]
            /\ \A m \in 1 .. Len(s) : m # i => \E k \in 1 .. Len(t) : at(k) = m
<1> DEFINE a == SubSeq(s, 1, i - 1)
           b == SubSeq(s, i + 1, Len(s))
           t == RemoveAt(s, i)
           at(k) == IF k < i THEN k ELSE k + 1
<1>1. /\ a \in Seq(S) /\ Len(a) = i - 1 /\ \A k \in 1 .. (i - 1) : a[k] = s[k]
      /\ b \in Seq(S) /\ Len(b) = Len(s) - i
      /\ \A k \in 1 .. (Len(s) - i) : b[k] = s[i + k]
  BY SubSeqProperties
<1>2. t = a \o b
  BY DEF RemoveAt
<1>3. /\ t \in Seq(S) /\ Len(t) = Len(s) - 1
      /\ \A k \in 1 .. Len(t) : t[k] = IF k < i THEN s[k] ELSE s[k + 1]
  <2> HIDE DEF a, b, t
  <2>0. /\ a \o b \in Seq(S) /\ Len(a \o b) = Len(a) + Len(b)
        /\ \A k \in 1 .. Len(a) + Len(b) :
             (a \o b)[k] = IF k <= Len(a) THEN a[k] ELSE b[k - Len(a)]
    BY <1>1, ConcatProperties, Zenon
  <2>1. /\ t \in Seq(S) /\ Len(t) = Len(a) + Len(b)
        /\ \A k \in 1 .. Len(t) : t[k] = IF k <= Len(a) THEN a[k] ELSE b[k - Len(a)]
    BY <1>2, <2>0, Zenon
  <2>2. Len(s) \in Nat /\ Len(t) = Len(s) - 1
    BY <1>1, <2>1
  <2>3. ASSUME NEW k \in 1 .. Len(t), k < i PROVE t[k] = s[k]
    BY <1>1, <2>1, <2>3
  <2>4. ASSUME NEW k \in 1 .. Len(t), ~(k < i) PROVE t[k] = s[k + 1]
    <3>1. k - (i - 1) \in 1 .. (Len(s) - i) /\ ~(k <= Len(a)) /\ Len(a) = i - 1
      BY <1>1, <2>2, <2>4
    <3>2. t[k] = b[k - (i - 1)]
      BY <2>1, <3>1
    <3>3. b[k - (i - 1)] = s[i + (k - (i - 1))]
      BY <1>1, <3>1
    <3>4. i + (k - (i - 1)) = k + 1
      OBVIOUS
    <3> QED BY <3>2, <3>3, <3>4
  <2> QED BY <2>1, <2>2, <2>3, <2>4
<1>4. \A k \in 1 .. Len(t) : at(k) \in 1 .. Len(s) /\ at(k) # i /\ t[k] = s[at(k)]
  <2> HIDE DEF t
  <2> QED BY <1>3
<1>5. \A m \in 1 .. Len(s) : m # i => \E k \in 1 .. Len(t) : at(k) = m
  <2> HIDE DEF t
  <2>1. ASSUME NEW m \in 1 .. Len(s), m # i PROVE \E k \in 1 .. Len(t) : at(k) = m
    <3>1. CASE m < i
      <4>1. m \in 1 .. Len(t) /\ at(m) = m
        BY <1>3, <3>1
      <4> QED BY <4>1
    <3>2. CASE m > i
      <4>1. m - 1 \in 1 .. Len(t) /\ at(m - 1) = m
        BY <1>3, <3>2
      <4> QED BY <4>1
    <3> QED BY <2>1, <3>1, <3>2
  <2> QED BY <2>1
<1> QED BY <1>3, <1>4, <1>5

\* Every step keeps what no fault disturbs.
LEMMA ChainStep ==
  ASSUME IInv, ChainInv, Next
  PROVE  ChainInv'
<1> USE DEF ChainInv
<1>0. /\ pc \in [Client -> PcValues] /\ extPorts \in [Client -> Seq(Port)]
      /\ \A c \in Client : pc[c] = "idle" => extPorts[c] = <<>>
      /\ \A c \in Client : daemon # "up" => pc[c] = "idle"
      /\ mapper \in {"nil", "ready"}
  BY DEF IInv, TypeOK, GoroutineOK
<1>1. CASE NewNetworkManager
  <2>1. /\ daemon # "up" /\ UNCHANGED <<pc, extPorts>>
        /\ \A c \in Client : pc[c] = "idle" /\ extPorts[c] = <<>>
    BY <1>0, <1>1, BootParts
  <2>2. ~chainExists' => chain' = <<>>
    BY <1>1 DEF NewNetworkManager, NewAllocators, Unhook, Flush, DeleteChain,
       NewChain, Hook, nat
  <2>3. mapper' = "ready" => jump'
    <3>1. mapper = "nil"
      BY <2>1
    <3> QED BY <1>1, <3>1 DEF NewNetworkManager, NewAllocators, Unhook, Flush,
               DeleteChain, NewChain, Hook, nat
  <2>4. /\ daemon' # "up" => mapper' = "nil" /\ mapping' = <<>>
        /\ daemon' = "hook" => chain' = <<>>
    BY <1>1, <2>1 DEF NewNetworkManager, NewAllocators, Unhook, Flush, DeleteChain,
       NewChain, Hook, Boot
  <2> QED BY <2>1, <2>2, <2>3, <2>4
<1>2. CASE Die
  BY <1>2 DEF Die, NoInterfaces, nat
<1>3. ASSUME NEW c \in Client, Allocate(c) \/ AcquirePort(c) \/ NoMorePorts(c)
               \/ Allocated(c) \/ ForwardFails(c)
      PROVE  ChainInv'
  BY <1>0, <1>3 DEF Allocate, AcquirePort, NoMorePorts, Allocated,
     ForwardFails, Go, alloc, host, iface
<1>6. ASSUME NEW c \in Client, Forward(c) PROVE ChainInv'
  <2>1. /\ chainExists /\ UNCHANGED <<chainExists, jump, mapper, extPorts>>
        /\ daemon = "up" /\ daemon' = "up"
        /\ pc' = [pc EXCEPT ![c] = "record"]
    BY <1>6 DEF Forward, Go, host, iface
  <2> QED BY <1>0, <2>1
<1>4. ASSUME NEW c \in Client, Record(c) \/ Unacquire(c) \/ BeginRelease(c)
               \/ UnmapFails(c) \/ DeleteMapping(c) \/ FreePort(c) \/ FreeIP(c)
      PROVE  ChainInv'
  BY <1>0, <1>4 DEF Record, Unacquire, BeginRelease, UnmapFails, DeleteMapping,
     FreePort, FreeIP, Go, alloc, host, iface
<1>5. ASSUME NEW c \in Client, Unforward(c) PROVE ChainInv'
  <2>1. chainExists
    <3>1. Len(chain) # 0
      BY <1>5 DEF Unforward
    <3> QED BY <3>1
  <2> QED BY <1>0, <1>5, <2>1 DEF Unforward, Go, alloc, host, iface
<1> QED BY <1>1, <1>2, <1>3, <1>4, <1>5, <1>6
        DEF Next, Crash, Step, RecordPanics

-----------------------------------------------------------------------------
\* d's goroutine stays where it is.
Same(d) ==
  /\ pc'[d] = pc[d] /\ ip'[d] = ip[d] /\ extPorts'[d] = extPorts[d]
  /\ ext'[d] = ext[d] /\ rel'[d] = rel[d]

\* A step that changes what is said of the port x alone leaves another
\* container, which does not hold x, as it was.
LEMMA AgreesFrame ==
  ASSUME NEW d \in Client, Agrees(d), Same(d), NEW x,
         x # ext[d], \A j \in Held(d) : extPorts[d][j] # x,
         pc[d] \in {"delete", "free"} => rel[d] \in Held(d),
         \A p : p # x => /\ p \in DOMAIN mapping' <=> p \in DOMAIN mapping
                         /\ p \in DOMAIN mapping => mapping'[p] = mapping[p],
         \A r : r.dport # x => (r \in Rules' <=> r \in Rules)
  PROVE  Agrees(d)'
<1>1. /\ Mapped(d)' = Mapped(d) /\ Ruled(d)' = Ruled(d) /\ DestOf(d)' = DestOf(d)
      /\ \A j : Entry(d, j)' = Entry(d, j)
      /\ Releasing(d)' = Releasing(d)
  BY DEF Same, Mapped, Ruled, Held, DestOf, Entry, Releasing
<1>2. /\ Mapped(d) \subseteq Held(d) /\ Ruled(d) \subseteq Mapped(d)
      /\ pc[d] \in {"delete", "free"} => Releasing(d) # x
  BY DEF Mapped, Ruled, Releasing
<1>3. \A p, e : RuleFor(p, e).dport = p /\ RuleFor(p, e)' = RuleFor(p, e)
  BY DEF RuleFor
<1>4. \A j \in Mapped(d)' : /\ extPorts'[d][j] \in DOMAIN mapping'
                            /\ mapping'[extPorts'[d][j]] = Entry(d, j)'
  BY <1>1, <1>2 DEF Agrees, Same
<1>5. \A j \in Ruled(d)' : RuleFor(extPorts'[d][j], Entry(d, j)') \in Rules'
  BY <1>1, <1>2, <1>3 DEF Agrees, Same
<1>6. ext'[d] \notin DOMAIN mapping'
  BY DEF Agrees, Same
<1>7. pc'[d] = "record" => RuleFor(ext'[d], DestOf(d)') \in Rules'
  BY <1>1, <1>3 DEF Agrees, Same
<1>8. pc'[d] = "delete" => \A r \in Rules' : r.dport # Releasing(d)'
  BY <1>1, <1>2 DEF Agrees, Same
<1>9. pc'[d] = "free" => Releasing(d)' \notin DOMAIN mapping'
  BY <1>1, <1>2 DEF Agrees, Same
<1> QED BY <1>4, <1>5, <1>6, <1>7, <1>8, <1>9 DEF Agrees, RuleFor

\* A step of c that touches no mapping and no rule but those of a port that c
\* holds leaves the others as they were.
LEMMA OthersAgree ==
  ASSUME IInv, NEW c \in Client, \A d \in Client : Agrees(d),
         \A d \in Client \ {c} : Same(d),
         NEW x, \/ x = ext[c] /\ x # NoPort
                \/ \E j \in Held(c) : x = extPorts[c][j]
                \/ x = -1,
         \A p : p # x => /\ p \in DOMAIN mapping' <=> p \in DOMAIN mapping
                         /\ p \in DOMAIN mapping => mapping'[p] = mapping[p],
         \A r : r.dport # x => (r \in Rules' <=> r \in Rules)
  PROVE  \A d \in Client \ {c} : Agrees(d)'
<1> SUFFICES ASSUME NEW d \in Client \ {c} PROVE Agrees(d)'
  OBVIOUS
<1>1. x # ext[d] /\ \A j \in Held(d) : extPorts[d][j] # x
  <2>1. -1 \notin Port /\ NoPort # -1 /\ ext[d] \in Port \union {NoPort}
    BY RangeFacts DEF IInv, TypeOK, NoPort
  <2> QED BY <2>1, Apart DEF Held
<1>2. pc[d] \in {"delete", "free"} => rel[d] \in Held(d)
  BY Apart DEF IInv, GoroutineOK, Held
<1> QED BY <1>1, <1>2, AgreesFrame

\* A rule stays known while its entry does, or the Map that made it goes on.
LEMMA StillKnown ==
  ASSUME NEW c \in Client, \A d \in Client \ {c} : Same(d), NEW r, Known(r),
         r.dport \in DOMAIN mapping =>
           r.dport \in DOMAIN mapping' /\ mapping'[r.dport] = mapping[r.dport],
         pc[c] # "record"
  PROVE  Known(r)'
<1>1. CASE r.dport \in DOMAIN mapping /\ mapping[r.dport] = r.dest
  BY <1>1 DEF Known
<1>2. CASE \E d \in Client : pc[d] = "record" /\ r = RuleFor(ext[d], DestOf(d))
  <2>1. PICK d \in Client : pc[d] = "record" /\ r = RuleFor(ext[d], DestOf(d))
    BY <1>2
  <2>2. /\ pc'[d] = "record" /\ DestOf(d)' = DestOf(d) /\ ext'[d] = ext[d]
    BY <2>1 DEF Same, DestOf
  <2>3. r = RuleFor(ext'[d], DestOf(d)')
    BY <2>1, <2>2
  <2> QED BY <2>2, <2>3 DEF Known, RuleFor
<1> QED BY <1>1, <1>2 DEF Known

\* A step that touches neither, and leaves c its ports, agrees with c too.
LEMMA QuietTracked ==
  ASSUME IInv, Tracked, NEW c \in Client, \A d \in Client \ {c} : Same(d),
         mapping' = mapping, chain' = chain, pc[c] # "record",
         FreeUnmapped', Agrees(c)'
  PROVE  Tracked'
<1>1. \A d \in Client \ {c} : Agrees(d)'
  <2>1. Rules' = Rules
    BY DEF Rules
  <2>2. \A d \in Client : Agrees(d)
    BY DEF Tracked
  <2> QED BY <2>1, <2>2, OthersAgree
<1>2. \A r \in Rules : Known(r)'
  BY StillKnown DEF Tracked
<1>3. Rules' = Rules /\ OneRule'
  BY DEF Rules, OneRule, Tracked
<1> QED BY <1>1, <1>2, <1>3 DEF Tracked

\* What the goroutine of c keeps to itself.
LEMMA StepOfOne ==
  ASSUME IInv, NEW c \in Client, Step(c), ~Die
  PROVE  /\ \A d \in Client \ {c} : Same(d)
         /\ daemon = "up" /\ UNCHANGED <<faults, mapper>>
<1>1. /\ pc \in [Client -> PcValues] /\ extPorts \in [Client -> Seq(Port)]
      /\ ip \in [Client -> Address \union {NoIP}]
      /\ ext \in [Client -> Port \union {NoPort}] /\ rel \in [Client -> Nat \ {0}]
  BY DEF IInv, TypeOK
<1>2. CASE Allocate(c) \/ AcquirePort(c) \/ NoMorePorts(c) \/ Allocated(c)
           \/ Forward(c) \/ ForwardFails(c)
  BY <1>1, <1>2 DEF Allocate, AcquirePort, NoMorePorts, Allocated, Forward,
     ForwardFails, Go, host, iface, Same
<1>3. CASE Record(c) \/ Unacquire(c) \/ BeginRelease(c) \/ Unforward(c)
  BY <1>1, <1>3
    DEF Record, Unacquire, BeginRelease, Unforward, Go, host, iface, Same
<1>4. CASE UnmapFails(c) \/ DeleteMapping(c) \/ FreePort(c) \/ FreeIP(c)
  BY <1>1, <1>4
    DEF UnmapFails, DeleteMapping, FreePort, FreeIP, Go, host, iface, Same
<1> QED BY <1>2, <1>3, <1>4 DEF Step, RecordPanics

\* Every step keeps the mapping and the chain in agreement with the goroutines.
LEMMA TrackedStep ==
  ASSUME IInv, IInv', ChainInv, Tracked, NEW c \in Client, Step(c), ~Die,
         "-D" \notin faults, mapper = "ready"
  PROVE  Tracked'
<1>1. /\ pc \in [Client -> PcValues] /\ extPorts \in [Client -> Seq(Port)]
      /\ ip \in [Client -> Address \union {NoIP}]
      /\ ext \in [Client -> Port \union {NoPort}] /\ rel \in [Client -> Nat \ {0}]
      /\ extPorts[c] \in Seq(Port) /\ rel[c] \in Nat \ {0}
      /\ portQueue \in Seq(Port) /\ chain \in Seq(Rule)
  BY DEF IInv, TypeOK
<1>2. /\ \A d \in Client \ {c} : Same(d) /\ Agrees(d)
      /\ Agrees(c) /\ OneRule /\ FreeUnmapped /\ \A r \in Rules : Known(r)
      /\ daemon = "up" /\ UNCHANGED <<faults, mapper>>
      /\ NoPort \notin DOMAIN mapping
  BY StepOfOne, RangeFacts DEF Tracked, IInv, TypeOK
<1>3. CASE Allocate(c)
  <2>1. Agrees(c)'
    BY <1>1, <1>2, <1>3 DEF Allocate, Go, Agrees, Mapped, Ruled, Held, Releasing,
         IInv, GoroutineOK
  <2>2. FreeUnmapped' /\ UNCHANGED <<mapping, chain>> /\ pc[c] # "record"
    BY <1>2, <1>3 DEF Allocate, Go, FreeUnmapped
  <2> QED BY <1>2, <2>1, <2>2, QuietTracked
<1>4. CASE AcquirePort(c)
  <2>1. ext'[c] \in Range(portQueue) /\ Range(portQueue') \subseteq Range(portQueue)
    BY <1>1, <1>4, ReceiveLemma DEF AcquirePort, PortsConserved, IInv
  <2>2. Agrees(c)'
    BY <1>1, <1>2, <1>4, <2>1
      DEF AcquirePort, Go, Agrees, Mapped, Ruled, Held, Releasing,
         FreeUnmapped, Entry, RuleFor, Rules
  <2>3. FreeUnmapped' /\ UNCHANGED <<mapping, chain>> /\ pc[c] # "record"
    BY <1>2, <1>4, <2>1 DEF AcquirePort, Go, FreeUnmapped
  <2> QED BY <1>2, <2>2, <2>3, QuietTracked
<1>5. CASE NoMorePorts(c) \/ Allocated(c) \/ ForwardFails(c) \/ BeginRelease(c)
  <2>1. UNCHANGED <<mapping, chain, portQueue, extPorts, rel, ext, ip>>
        /\ pc[c] \in {"ports", "map", "up"}
        /\ pc'[c] \in {"release", "up", "unacquire"}
    BY <1>1, <1>5
      DEF NoMorePorts, Allocated, ForwardFails, BeginRelease, Go, iface, alloc
  <2>2. Agrees(c)'
    BY <1>1, <1>2, <2>1 DEF Agrees, Mapped, Ruled, Held, Releasing,
         Entry, RuleFor, Rules
  <2>3. FreeUnmapped'
    BY <1>2, <2>1 DEF FreeUnmapped
  <2> QED BY <1>2, <2>1, <2>2, <2>3, QuietTracked
<1>6. CASE Unacquire(c)
  <2>1. Range(portQueue') \subseteq Range(portQueue) \union {ext[c]}
    BY <1>1, <1>6 DEF Unacquire, ReleasePort, SendOrDrop, Range
  <2>2. Agrees(c)'
    BY <1>1, <1>2, <1>6 DEF Unacquire, Go, Agrees, Mapped, Ruled, Held, Releasing,
         Entry, RuleFor, Rules
  <2>3. FreeUnmapped'
    BY <1>1, <1>2, <1>6, <2>1 DEF Unacquire, Agrees, FreeUnmapped
  <2>4. UNCHANGED <<mapping, chain>> /\ pc[c] # "record"
    BY <1>6 DEF Unacquire, Go
  <2> QED BY <1>2, <2>2, <2>3, <2>4, QuietTracked
<1>7. CASE FreePort(c)
  <2>1. Range(portQueue') \subseteq Range(portQueue) \union {Releasing(c)}
    BY <1>1, <1>7 DEF FreePort, ReleasePort, SendOrDrop, Range
  <2>2. Agrees(c)'
    <3>1. /\ extPorts' = extPorts /\ ext' = ext /\ ip' = ip
          /\ mapping' = mapping /\ Rules' = Rules
          /\ pc[c] = "free" /\ pc'[c] = "release" /\ rel'[c] = rel[c] + 1
      BY <1>1, <1>7 DEF FreePort, Go, Rules
    <3>2. Mapped(c)' \subseteq Mapped(c) /\ Ruled(c)' \subseteq Ruled(c)
      BY <1>1, <3>1 DEF Mapped, Ruled, Held
    <3>3. \A j : Entry(c, j)' = Entry(c, j)
      BY <3>1 DEF Entry
    <3> QED BY <1>2, <3>1, <3>2, <3>3 DEF Agrees, RuleFor
  <2>3. FreeUnmapped'
    BY <1>1, <1>2, <1>7, <2>1 DEF FreePort, Go, Agrees, FreeUnmapped
  <2>4. UNCHANGED <<mapping, chain>> /\ pc[c] # "record"
    BY <1>7 DEF FreePort, Go
  <2> QED BY <1>2, <2>2, <2>3, <2>4, QuietTracked
<1>8. CASE FreeIP(c)
  <2>1. Agrees(c)'
    BY <1>1, <1>2, <1>8 DEF FreeIP, Go, Agrees, Mapped, Ruled, Held, Releasing,
         Entry, RuleFor, Rules
  <2>2. FreeUnmapped' /\ UNCHANGED <<mapping, chain>> /\ pc[c] # "record"
    BY <1>2, <1>8 DEF FreeIP, Go, FreeUnmapped
  <2> QED BY <1>2, <2>1, <2>2, QuietTracked
<1>9. CASE UnmapFails(c)
  <2>1. /\ pc[c] = "release" /\ rel[c] \in Held(c)
        /\ ~(Releasing(c) \in DOMAIN mapping /\ RuleInChain(Releasing(c)))
    BY <1>1, <1>2, <1>9 DEF UnmapFails, Go, ToRelease, Held, Outcome
  <2>2. rel[c] \in Mapped(c) /\ rel[c] \in Ruled(c)
    BY <2>1 DEF Mapped, Ruled
  <2>3. /\ Releasing(c) \in DOMAIN mapping
        /\ mapping[Releasing(c)] = Entry(c, rel[c])
        /\ RuleFor(Releasing(c), Entry(c, rel[c])) \in Rules
    BY <1>2, <2>2 DEF Agrees, Releasing
  <2>4. \E i \in 1 .. Len(chain) : chain[i] = RuleOf(Releasing(c))
    <3>1. RuleOf(Releasing(c)) = RuleFor(Releasing(c), Entry(c, rel[c]))
      BY <2>3 DEF RuleOf, RuleFor
    <3> QED BY <1>1, <2>3, <3>1, RangeLemma DEF Rules
  <2> QED BY <2>1, <2>3, <2>4 DEF RuleInChain
<1>10. CASE Forward(c)
  <2> DEFINE new == RuleFor(ext[c], DestOf(c))
  <2>1. /\ pc[c] = "map" /\ pc' = [pc EXCEPT ![c] = "record"]
        /\ chain' = Append(chain, new)
        /\ UNCHANGED <<mapping, ext, extPorts, rel, ip, portQueue>>
    BY <1>10 DEF Forward, Go, RuleFor, alloc, iface
  <2>2. ext[c] # NoPort /\ \A r \in Rules : r.dport # ext[c]
    <3>1. ext[c] # NoPort
      BY <2>1 DEF IInv, GoroutineOK
    <3>2. \A d \in Client \ {c} : ext[d] # ext[c]
      BY <3>1, Apart
    <3>3. ext[c] \notin DOMAIN mapping
      BY <1>2 DEF Agrees
    <3>4. ASSUME NEW r \in Rules, r.dport = ext[c] PROVE FALSE
      <4>1. PICK d \in Client : pc[d] = "record" /\ r = RuleFor(ext[d], DestOf(d))
        BY <1>2, <3>3, <3>4 DEF Known
      <4>2. d # c /\ ext[d] = ext[c]
        BY <2>1, <3>4, <4>1 DEF RuleFor
      <4> QED BY <3>2, <4>2
    <3> QED BY <3>1, <3>4
  <2>3. new \in Rule
    <3>1. chain' \in Seq(Rule) /\ Len(chain') = Len(chain) + 1
          /\ chain'[Len(chain) + 1] = new
      BY <1>1, <2>1 DEF IInv, TypeOK
    <3>2. Len(chain) + 1 \in 1 .. Len(chain')
      BY <1>1, <3>1
    <3> HIDE DEF new
    <3> QED BY <3>1, <3>2
  <2>4. /\ Len(chain') = Len(chain) + 1 /\ chain'[Len(chain) + 1] = new
        /\ \A i \in 1 .. Len(chain) : chain'[i] = chain[i]
        /\ chain' \in Seq(Rule)
    <3> HIDE DEF new
    <3> QED BY <1>1, <2>1, <2>3
  <2>5. Rules' = Rules \union {new}
    <3> HIDE DEF new
    <3> QED BY <1>1, <2>1, <2>3, AppendLemma DEF Rules
  <2>6. OneRule'
    <3>1. \A i \in 1 .. Len(chain) : chain[i].dport # ext[c]
      BY <1>1, <2>2 DEF Rules, Range
    <3>2. new.dport = ext[c]
      BY DEF RuleFor
    <3> SUFFICES ASSUME NEW i \in 1 .. (Len(chain) + 1), NEW j \in 1 .. (Len(chain) + 1),
                        chain'[i].dport = chain'[j].dport
                 PROVE  i = j
      BY <2>4 DEF OneRule
    <3> HIDE DEF new
    <3>3. \A k \in 1 .. (Len(chain) + 1) : k \in 1 .. Len(chain) \/ k = Len(chain) + 1
      BY <1>1
    <3>4. CASE i \in 1 .. Len(chain) /\ j \in 1 .. Len(chain)
      BY <1>2, <2>4, <3>4 DEF OneRule
    <3> QED BY <2>4, <3>1, <3>2, <3>3, <3>4
  <2>7. \A d \in Client \ {c} : Agrees(d)'
    <3>1. \A r : r.dport # ext[c] => (r \in Rules' <=> r \in Rules)
      BY <2>5 DEF RuleFor
    <3> QED BY <1>2, <2>1, <2>2, <3>1, OthersAgree
  <2>8. Agrees(c)'
    <3>1. pc'[c] = "record" /\ new \in Rules' /\ Rules \subseteq Rules'
      BY <1>1, <2>1, <2>5
    <3>2. /\ Mapped(c)' = Mapped(c) /\ Ruled(c)' = Ruled(c)
          /\ DestOf(c)' = DestOf(c) /\ \A j : Entry(c, j)' = Entry(c, j)
      BY <2>1, <3>1 DEF Mapped, Ruled, Held, DestOf, Entry
    <3> QED BY <1>2, <2>1, <3>1, <3>2 DEF Agrees, RuleFor
  <2>9. \A r \in Rules' : Known(r)'
    <3>1. ASSUME NEW r, r = new PROVE Known(r)'
      BY <1>1, <2>1, <3>1 DEF Known, RuleFor, DestOf
    <3>2. ASSUME NEW r \in Rules PROVE Known(r)'
      BY <1>2, <2>1, <3>2, StillKnown
    <3> HIDE DEF new
    <3> QED BY <2>5, <3>1, <3>2
  <2> QED BY <1>2, <2>1, <2>6, <2>7, <2>8, <2>9 DEF Tracked, FreeUnmapped
<1>11. CASE Record(c)
  <2> DEFINE x == ext[c]
             new == DestOf(c)
  <2>1. /\ pc[c] = "record" /\ pc' = [pc EXCEPT ![c] = "ports"]
        /\ DOMAIN mapping' = DOMAIN mapping \union {x}
        /\ mapping'[x] = new
        /\ \A p \in DOMAIN mapping : p # x => mapping'[p] = mapping[p]
        /\ extPorts' = [extPorts EXCEPT ![c] = Append(@, x)]
        /\ ext' = [ext EXCEPT ![c] = NoPort]
        /\ UNCHANGED <<chain, rel, ip, portQueue>>
    BY <1>11 DEF Record, Go, alloc
  <2>2. x # NoPort /\ x \in Port /\ x \notin DOMAIN mapping
        /\ x \notin Range(portQueue) /\ rel[c] = 1
    BY <1>1, <1>2, <2>1, Apart DEF IInv, GoroutineOK, Agrees
  <2>3. Rules' = Rules /\ OneRule'
    BY <1>2, <2>1 DEF Rules, OneRule
  <2>4. \A d \in Client \ {c} : Agrees(d)'
    BY <1>2, <2>1, <2>2, <2>3, OthersAgree
  <2>5. FreeUnmapped'
    BY <1>2, <2>1, <2>2 DEF FreeUnmapped
  <2>6. /\ Len(extPorts'[c]) = Len(extPorts[c]) + 1
        /\ extPorts'[c][Len(extPorts[c]) + 1] = x
        /\ \A j \in 1 .. Len(extPorts[c]) : extPorts'[c][j] = extPorts[c][j]
    <3> HIDE DEF x, new
    <3>1. extPorts'[c] = Append(extPorts[c], x)
      BY <1>1, <2>1
    <3> QED BY <1>1, <2>2, <3>1
  <2>7. Agrees(c)'
    <3>1. pc'[c] = "ports" /\ rel'[c] = 1 /\ ext'[c] = NoPort
      BY <1>1, <2>1, <2>2
    <3>2. /\ Mapped(c) = Held(c) /\ Ruled(c) = Held(c)
          /\ Held(c) = 1 .. Len(extPorts[c])
          /\ Mapped(c)' = Held(c) \union {Len(extPorts[c]) + 1}
          /\ Ruled(c)' = Held(c) \union {Len(extPorts[c]) + 1}
      BY <1>1, <2>1, <2>2, <2>6, <3>1 DEF Mapped, Ruled, Held
    <3>3. \A j : Entry(c, j)' = Entry(c, j)
      BY <2>1 DEF Entry
    <3>4. Entry(c, Len(extPorts[c]) + 1) = DestOf(c)
      BY DEF Entry, DestOf
    <3>5. \A j \in Held(c) : extPorts[c][j] # x
      BY Apart DEF Held
    <3>6. ASSUME NEW j \in Mapped(c)'
          PROVE  /\ extPorts'[c][j] \in DOMAIN mapping'
                 /\ mapping'[extPorts'[c][j]] = Entry(c, j)
                 /\ RuleFor(extPorts'[c][j], Entry(c, j)) \in Rules
      <4> HIDE DEF x, new
      <4>1. CASE j \in Held(c)
        BY <1>2, <2>1, <2>6, <3>2, <3>5, <4>1 DEF Agrees
      <4>2. CASE j = Len(extPorts[c]) + 1
        BY <1>2, <2>1, <2>6, <3>4, <4>2 DEF Agrees, x, new
      <4> QED BY <3>2, <3>6, <4>1, <4>2
    <3>7. NoPort \notin DOMAIN mapping'
      BY <1>2, <2>1, <2>2
    <3> HIDE DEF x, new
    <3> QED BY <2>3, <3>1, <3>2, <3>3, <3>6, <3>7 DEF Agrees, RuleFor
  <2>8. ASSUME NEW r \in Rules PROVE Known(r)'
    <3>1. CASE r.dport \in DOMAIN mapping /\ mapping[r.dport] = r.dest
      BY <2>1, <2>2, <3>1 DEF Known
    <3>2. CASE r = RuleFor(x, new)
      BY <2>1, <3>2 DEF Known, RuleFor
    <3>3. CASE \E d \in Client \ {c} :
                 pc[d] = "record" /\ r = RuleFor(ext[d], DestOf(d))
      <4>1. PICK d \in Client \ {c} :
                   pc[d] = "record" /\ r = RuleFor(ext[d], DestOf(d))
        BY <3>3
      <4>2. pc'[d] = "record" /\ DestOf(d)' = DestOf(d) /\ ext'[d] = ext[d]
        BY <1>2, <4>1 DEF Same, DestOf
      <4> QED BY <4>1, <4>2 DEF Known, RuleFor
    <3> QED BY <1>2, <3>1, <3>2, <3>3 DEF Known
  <2> QED BY <2>3, <2>4, <2>5, <2>7, <2>8 DEF Tracked
<1>12. CASE Unforward(c)
  <2> DEFINE x == Releasing(c)
  <2>1. /\ pc[c] = "release" /\ pc' = [pc EXCEPT ![c] = "delete"]
        /\ rel[c] \in Held(c) /\ x \in DOMAIN mapping
        /\ UNCHANGED <<mapping, ext, extPorts, rel, ip, portQueue>>
    BY <1>1, <1>12 DEF Unforward, Go, ToRelease, Held, alloc, iface
  <2>2. PICK i \in 1 .. Len(chain) :
          chain[i] = RuleOf(x) /\ chain' = RemoveAt(chain, i)
    BY <1>12 DEF Unforward
  <2> DEFINE at(k) == IF k < i THEN k ELSE k + 1
  <2>3. /\ chain' \in Seq(Rule) /\ Len(chain') = Len(chain) - 1
        /\ \A k \in 1 .. Len(chain') : at(k) \in 1 .. Len(chain) /\ at(k) # i
                                       /\ chain'[k] = chain[at(k)]
        /\ \A m \in 1 .. Len(chain) : m # i => \E k \in 1 .. Len(chain') : at(k) = m
    BY <1>1, <2>2, RemoveLemma
  <2>4. Rules' = {r \in Rules : r.dport # x}
    <3>1. chain[i].dport = x
      BY <2>2 DEF RuleOf
    <3>2. \A m \in 1 .. Len(chain) : m # i => chain[m].dport # x
      BY <1>2, <3>1 DEF OneRule
    <3> HIDE DEF at, x
    <3>3. ASSUME NEW r \in Rules' PROVE r \in Rules /\ r.dport # x
      <4>1. PICK k \in 1 .. Len(chain') : r = chain'[k]
        BY <2>3, <3>3 DEF Rules, Range
      <4>2. chain'[k] = chain[at(k)] /\ at(k) \in 1 .. Len(chain) /\ at(k) # i
        BY <2>3
      <4> QED BY <1>1, <3>2, <4>1, <4>2, RangeLemma DEF Rules
    <3>4. ASSUME NEW r \in Rules, r.dport # x PROVE r \in Rules'
      <4>1. PICK m \in 1 .. Len(chain) : r = chain[m]
        BY <1>1, <3>4 DEF Rules, Range
      <4>2. PICK k \in 1 .. Len(chain') : at(k) = m
        BY <2>3, <3>1, <3>4, <4>1
      <4>3. chain'[k] = r
        BY <2>3, <4>1, <4>2
      <4>4. k \in DOMAIN chain'
        BY <2>3, <4>2
      <4> QED BY <4>3, <4>4 DEF Rules, Range
    <3> QED BY <3>3, <3>4
  <2>5. OneRule'
    <3> SUFFICES ASSUME NEW k \in 1 .. Len(chain'), NEW m \in 1 .. Len(chain'),
                        chain'[k].dport = chain'[m].dport
                 PROVE  k = m
      BY DEF OneRule
    <3>1. at(k) = at(m)
      <4> HIDE DEF at
      <4> QED BY <1>2, <2>3 DEF OneRule
    <3> QED BY <3>1
  <2>6. \A d \in Client \ {c} : Agrees(d)'
    <3>1. \A r : r.dport # x => (r \in Rules' <=> r \in Rules)
      BY <2>4
    <3>2. \E j \in Held(c) : x = extPorts[c][j]
      BY <2>1 DEF Releasing
    <3> HIDE DEF x
    <3> QED BY <1>2, <2>1, <3>1, <3>2, OthersAgree
  <2>7. Agrees(c)'
    <3>1. pc'[c] = "delete" /\ Releasing(c)' = x
      BY <1>1, <2>1 DEF Releasing
    <3>2. /\ Mapped(c)' = Mapped(c) /\ Ruled(c)' = Ruled(c) \ {rel[c]}
          /\ Ruled(c) = Held(c) /\ \A j : Entry(c, j)' = Entry(c, j)
      BY <1>1, <2>1, <3>1 DEF Mapped, Ruled, Held, Entry
    <3>3. \A j \in Held(c) : j # rel[c] => extPorts[c][j] # x
      BY <2>1, Apart DEF Held, Releasing
    <3>4. \A j \in Ruled(c)' : RuleFor(extPorts[c][j], Entry(c, j)) \in Rules'
      BY <1>2, <2>4, <3>2, <3>3 DEF Agrees, RuleFor
    <3>5. \A r \in Rules' : r.dport # x
      BY <2>4
    <3> HIDE DEF x
    <3> QED BY <1>2, <2>1, <3>1, <3>2, <3>4, <3>5 DEF Agrees, RuleFor
  <2>8. \A r \in Rules' : Known(r)'
    BY <1>2, <2>1, <2>4, StillKnown
  <2> QED BY <1>2, <2>1, <2>5, <2>6, <2>7, <2>8 DEF Tracked, FreeUnmapped
<1>13. CASE DeleteMapping(c)
  <2> DEFINE x == Releasing(c)
  <2>1. /\ pc[c] = "delete" /\ pc' = [pc EXCEPT ![c] = "free"]
        /\ DOMAIN mapping' = DOMAIN mapping \ {x}
        /\ \A p \in DOMAIN mapping' : mapping'[p] = mapping[p]
        /\ UNCHANGED <<chain, ext, extPorts, rel, ip, portQueue>>
    BY <1>13 DEF DeleteMapping, Go, Restrict, alloc, iface
  <2>2. rel[c] \in Held(c)
    BY <1>1, <2>1 DEF IInv, GoroutineOK, Held
  <2>3. Rules' = Rules /\ OneRule'
    BY <1>2, <2>1 DEF Rules, OneRule
  <2>4. \A d \in Client \ {c} : Agrees(d)'
    <3>1. \E j \in Held(c) : x = extPorts[c][j]
      BY <2>2 DEF Releasing
    <3> HIDE DEF x
    <3> QED BY <1>2, <2>1, <2>3, <3>1, OthersAgree
  <2>5. Agrees(c)'
    <3>1. pc'[c] = "free" /\ Releasing(c)' = x
      BY <1>1, <2>1 DEF Releasing
    <3>2. /\ Mapped(c)' = Mapped(c) \ {rel[c]} /\ Ruled(c)' = Mapped(c)'
          /\ Ruled(c) = Mapped(c) \ {rel[c]} /\ Mapped(c) = Held(c)
          /\ \A j : Entry(c, j)' = Entry(c, j)
      BY <1>1, <2>1, <3>1 DEF Mapped, Ruled, Held, Entry
    <3>3. \A j \in Held(c) : j # rel[c] => extPorts[c][j] # x
      BY <2>2, Apart DEF Held, Releasing
    <3>4. \A j \in Mapped(c)' : /\ extPorts[c][j] \in DOMAIN mapping'
                                /\ mapping'[extPorts[c][j]] = Entry(c, j)
      BY <1>2, <2>1, <3>2, <3>3 DEF Agrees
    <3> HIDE DEF x
    <3> QED BY <1>2, <2>1, <2>3, <3>1, <3>2, <3>4 DEF Agrees, RuleFor
  <2>6. \A r \in Rules : Known(r)'
    <3>1. \A r \in Rules : r.dport # x
      BY <1>2, <2>1 DEF Agrees
    <3> HIDE DEF x
    <3> QED BY <1>2, <2>1, <3>1, StillKnown
  <2> QED BY <1>2, <2>1, <2>3, <2>4, <2>5, <2>6 DEF Tracked, FreeUnmapped
<1> QED BY <1>3, <1>4, <1>5, <1>6, <1>7, <1>8, <1>9, <1>10, <1>11, <1>12, <1>13
        DEF Step, RecordPanics

\* A host without a daemon has no rules of it yet.
LEMMA InitRuleInv == Init => RuleInv
<1> SUFFICES ASSUME Init PROVE RuleInv
  OBVIOUS
<1>1. /\ chain = <<>> /\ mapper = "nil" /\ \A c \in Client : extPorts[c] = <<>>
      /\ mapping = <<>> /\ daemon = "down"
      /\ \A c \in Client : pc[c] = "idle"
  BY DEF Init
<1> QED BY <1>1 DEF RuleInv, ChainInv

\* Every step, and a stutter, keeps the rules in order.
LEMMA NextRuleInv == IInv /\ IInv' /\ RuleInv /\ [Next]_vars => RuleInv'
<1> SUFFICES ASSUME IInv, IInv', RuleInv, [Next]_vars PROVE RuleInv'
  OBVIOUS
<1>1. CASE UNCHANGED vars
  BY <1>1 DEF vars, RuleInv, ChainInv, Tracked, Known, OneRule, FreeUnmapped,
     Agrees, Mapped, Ruled, Held, Entry, DestOf, Releasing, Rules
<1>2. CASE Next
  <2>1. ChainInv'
    BY <1>2, ChainStep DEF RuleInv
  <2>2. ASSUME "-D" \notin faults', mapper' = "ready" PROVE Tracked'
    <3>1. CASE NewNetworkManager
      <4>1. /\ UNCHANGED <<extPorts, pc, ext, rel>> /\ daemon # "up"
            /\ mapper = "nil" /\ mapping = <<>>
        BY <3>1, BootParts DEF RuleInv, ChainInv
      <4>2. chain' = <<>> /\ mapping' = <<>>
        <5>1. Hook
          BY <2>2, <3>1, <4>1 DEF NewNetworkManager, NewAllocators, Unhook, Flush,
             DeleteChain, NewChain
        <5> QED BY <4>1, <5>1 DEF Hook, Boot, RuleInv, ChainInv
      <4>3. \A c \in Client : pc[c] = "idle" /\ extPorts[c] = <<>> /\ rel[c] = 1
        BY <4>1 DEF IInv, GoroutineOK
      <4>4. DOMAIN mapping' = {} /\ Rules' = {} /\ Len(chain') = 0
        BY <4>1, <4>2 DEF Rules, Range
      <4>5. ASSUME NEW c \in Client PROVE Agrees(c)'
        <5>1. Mapped(c)' = {} /\ Ruled(c)' = {}
          BY <4>1, <4>3 DEF Mapped, Ruled, Held
        <5> QED BY <4>1, <4>3, <4>4, <5>1 DEF Agrees
      <4> QED BY <4>2, <4>4, <4>5 DEF Tracked, OneRule, FreeUnmapped
    <3>2. CASE Die
      BY <2>2, <3>2 DEF Die
    <3>3. ASSUME NEW c \in Client, Step(c), ~Die PROVE Tracked'
      <4>1. faults' = faults /\ mapper' = mapper
        BY <3>3, StepOfOne
      <4> QED BY <2>2, <3>3, <4>1, TrackedStep DEF RuleInv
    <3> QED BY <1>2, <3>1, <3>2, <3>3 DEF Next, Crash
  <2> QED BY <2>1, <2>2 DEF RuleInv
<1> QED BY <1>1, <1>2

\* ... so they are always in order.
LEMMA RuleInvAlways == Spec => [](IInv /\ RuleInv)
<1>1. Init => IInv /\ RuleInv
  BY InitIInv, InitRuleInv
<1>2. IInv /\ RuleInv /\ [Next]_vars => (IInv /\ RuleInv)'
  BY NextIInv, NextRuleInv
<1> QED BY <1>1, <1>2, PTL DEF Spec

\* Where every -D succeeds, whatever else fails and wherever the daemon dies,
\* each rule of the chain is the mapping's, or Map's next entry (network.go:105,
\* "able to unmap at will").
THEOREM RulesCanBeUnmapped == Spec => []RulesTrackedIfDeleted
<1>1. IInv /\ RuleInv => RulesTrackedIfDeleted
  <2> SUFFICES ASSUME IInv, RuleInv, "-D" \notin faults, mapper = "ready",
                      NEW i \in 1 .. Len(chain)
               PROVE  \/ /\ chain[i].dport \in DOMAIN mapping
                         /\ mapping[chain[i].dport] = chain[i].dest
                      \/ \E c \in Client :
                           /\ pc[c] = "record"
                           /\ chain[i] = [dport |-> ext[c], dest |-> DestOf(c)]
    BY DEF RulesTrackedIfDeleted, RulesTracked
  <2>1. chain[i] \in Rules
    BY DEF IInv, TypeOK, Rules, Range
  <2> QED BY <2>1 DEF RuleInv, Tracked, Known, RuleFor
<1> QED BY <1>1, RuleInvAlways, PTL

\* ... and the first rule for each port of a started container leads to it.
THEOREM PortsLead == Spec => []PortsReachContainer
<1>1. IInv /\ RuleInv => PortsReachContainer
  <2> SUFFICES ASSUME IInv, RuleInv, "-D" \notin faults, NEW c \in Client,
                      pc[c] = "up", Ports[c] # <<>>
               PROVE  /\ jump
                      /\ \A k \in 1 .. Len(Ports[c]) :
                           FirstRule(extPorts[c][k],
                                     RuleFor(extPorts[c][k], Entry(c, k)))
    BY DEF PortsReachContainer, RuleFor, Entry
  <2>1. /\ extPorts[c] \in Seq(Port) /\ Len(extPorts[c]) = Len(Ports[c])
        /\ Ports[c] \in Seq(Nat) /\ chain \in Seq(Rule)
    BY DEF IInv, TypeOK, RuleInv, ChainInv
  <2>2. mapper = "ready" /\ jump
    <3>1. extPorts[c] # <<>>
      BY <2>1
    <3> QED BY <3>1 DEF RuleInv, ChainInv, IInv, TypeOK
  <2>3. Ruled(c) = 1 .. Len(Ports[c])
    BY <2>1 DEF IInv, GoroutineOK, Ruled, Mapped, Held
  <2>4. ASSUME NEW k \in 1 .. Len(Ports[c])
        PROVE  FirstRule(extPorts[c][k], RuleFor(extPorts[c][k], Entry(c, k)))
    <3>1. RuleFor(extPorts[c][k], Entry(c, k)) \in Rules
      BY <2>2, <2>3 DEF RuleInv, Tracked, Agrees
    <3>2. PICK i \in 1 .. Len(chain) : chain[i] = RuleFor(extPorts[c][k], Entry(c, k))
      BY <2>1, <3>1 DEF Rules, Range
    <3>3. \A j \in 1 .. (i - 1) : chain[j].dport # extPorts[c][k]
      BY <2>1, <2>2, <3>2 DEF RuleInv, Tracked, OneRule, RuleFor
    <3> QED BY <3>2, <3>3 DEF FirstRule
  <2> QED BY <2>2, <2>4
<1> QED BY <1>1, RuleInvAlways, PTL

\* What a boot whose commands work has got done by each of them, over whatever
\* it found.
BootInv ==
  faults \intersect BootCommand = {} =>
    /\ daemon \in {"flush", "delete", "new"} => ~jump
    /\ daemon \in {"delete", "new"} => chain = <<>>
    /\ daemon = "new" => ~chainExists
    /\ daemon = "hook" => chainExists
    /\ daemon = "up" => mapper = "ready" /\ chainExists /\ jump

\* The steps of the boot, a death in the middle of it and all others keep that.
LEMMA NextBootInv == IInv /\ BootInv /\ [Next]_vars => BootInv'
<1> SUFFICES ASSUME IInv, BootInv, [Next]_vars PROVE BootInv'
  OBVIOUS
<1>0. faults' = faults
  <2>1. CASE NewNetworkManager
    BY <2>1, BootParts
  <2>2. CASE Die \/ UNCHANGED vars
    BY <2>2 DEF Die, vars
  <2>3. ASSUME NEW c \in Client, Step(c), ~Die PROVE faults' = faults
    BY <2>3 DEF Step, Allocate, AcquirePort, NoMorePorts, Allocated, Forward,
       ForwardFails, Record, RecordPanics, Unacquire, BeginRelease, Unforward,
       UnmapFails, DeleteMapping, FreePort, FreeIP, Go, host
  <2> QED BY <2>1, <2>2, <2>3 DEF Next, Crash
<1> SUFFICES ASSUME faults \intersect BootCommand = {} PROVE BootInv'
  BY <1>0 DEF BootInv
<1>1. \A cmd \in BootCommand : Outcome(cmd) = {TRUE}
  BY DEF Outcome
<1>2. /\ Outcome("-D:PREROUTING") = {TRUE} /\ Outcome("-F") = {TRUE}
      /\ Outcome("-X") = {TRUE} /\ Outcome("-N") = {TRUE}
      /\ Outcome("-A:PREROUTING") = {TRUE}
  BY <1>1 DEF BootCommand
<1>3. /\ jump \in BOOLEAN /\ chainExists \in BOOLEAN
      /\ faults \intersect BootCommand = {}
  BY DEF IInv, TypeOK
<1> USE <1>2, <1>3 DEF BootInv, Boot
<1>4. CASE NewAllocators
  BY <1>4 DEF NewAllocators
<1>5. CASE Unhook
  BY <1>5 DEF Unhook
<1>6. CASE Flush
  BY <1>6 DEF Flush
<1>7. CASE DeleteChain
  BY <1>7 DEF DeleteChain
<1>8. CASE NewChain
  BY <1>8 DEF NewChain
<1>9. CASE Hook
  BY <1>9 DEF Hook
<1>10. CASE Die
  BY <1>10 DEF Die
<1>11. ASSUME NEW c \in Client, Step(c), ~Die PROVE BootInv'
  <2>1. daemon = "up" /\ daemon' = "up" /\ mapper' = mapper
        /\ UNCHANGED <<chainExists, jump>>
    BY <1>11 DEF Step, Allocate, AcquirePort, NoMorePorts, Allocated, Forward,
       ForwardFails, Record, RecordPanics, Unacquire, BeginRelease, Unforward,
       UnmapFails, DeleteMapping, FreePort, FreeIP, Go, host
  <2> QED BY <2>1
<1>12. CASE UNCHANGED vars
  BY <1>12 DEF vars
<1> QED BY <1>4, <1>5, <1>6, <1>7, <1>8, <1>9, <1>10, <1>11, <1>12
        DEF Next, Crash, NewNetworkManager

\* A daemon that comes up on a host where the commands of its boot work has its
\* port mapper and the jump to its chain, over whatever rules or half of a boot
\* the ones before left (network.go:110-127).
THEOREM BootsWithMapper == Spec => []BootHasMapper
<1>1. Init => BootInv
  BY DEF Init, BootInv
<1>2. BootInv => BootHasMapper
  BY DEF BootInv, BootHasMapper
<1> QED BY InitIInv, NextIInv, NextBootInv, <1>1, <1>2, PTL DEF Spec

-----------------------------------------------------------------------------
(* Where the addresses come from: what IPAllocator.populate sends into the   *)
(* channel, by the arithmetic of AddressPool, is what Network starts with.   *)

\* Division with remainder, and that its parts are the only ones.
LEMMA ModParts ==
  ASSUME NEW m \in Nat, m > 0, NEW n \in Int
  PROVE  n % m \in 0 .. (m - 1) /\ \E q \in Int : n = m * q + (n % m)
<1>1. n % m \in 0 .. (m - 1)
  OBVIOUS
<1>2. n \div m \in Int /\ n = m * (n \div m) + (n % m)
  OBVIOUS
<1> QED BY <1>1, <1>2

\* A remainder is the one there is.
LEMMA ModUnique ==
  ASSUME NEW m \in Nat, m > 0, NEW q \in Int, NEW r \in 0 .. (m - 1)
  PROVE  (m * q + r) % m = r
<1> DEFINE n == m * q + r
<1>0. m * q \in Int /\ n \in Int
  OBVIOUS
<1>1. PICK p \in Int : n = m * p + (n % m)
  BY <1>0, ModParts
<1>2. n % m \in 0 .. (m - 1)
  BY <1>0, ModParts
<1>3. m * (q - p) = (n % m) - r
  <2>1. m * (q - p) = m * q - m * p
    OBVIOUS
  <2>2. m * p \in Int /\ m * q + r = m * p + (n % m)
    BY <1>1
  <2> HIDE DEF n
  <2> QED BY <1>0, <1>2, <2>1, <2>2
<1>4. q = p
  <2>1. CASE q - p >= 1
    <3>1. m * (q - p) >= m
      BY <2>1
    <3> QED BY <1>2, <1>3, <3>1
  <2>2. CASE q - p <= -1
    <3>1. m * (q - p) <= -m
      BY <2>2
    <3> QED BY <1>2, <1>3, <3>1
  <2> QED BY <2>1, <2>2
<1> QED BY <1>1, <1>2, <1>4

\* An int32 is the integer but for a multiple of the number of addresses, and
\* is the integer if that is small.
LEMMA Int32Parts ==
  /\ Max32 \in Nat /\ Max32 >= 6 /\ Max32 \div 2 \in Nat
  /\ Max32 = 2 * (Max32 \div 2)
  /\ \A n \in Int : /\ Int32(n) \in Int
                    /\ \E k \in Int : Int32(n) = n + Max32 * k
  /\ \A n \in (-(Max32 \div 2)) .. (Max32 \div 2 - 1) : Int32(n) = n
<1>1. PICK half \in 1 .. Max32 : Max32 = 2 * half
  BY SizesAssumption DEF MasksAreBlocks
<1>2. /\ Max32 \in Nat /\ Max32 >= 6 /\ Max32 \div 2 = half /\ half \in Nat
      /\ half >= 3
  BY <1>1, SizesAssumption DEF MasksAreBlocks
<1>3. ASSUME NEW n \in Int
      PROVE  Int32(n) \in Int /\ \E k \in Int : Int32(n) = n + Max32 * k
  <2>0. Max32 > 0
    BY <1>2
  <2>1. PICK q \in Int : n = Max32 * q + (n % Max32)
    BY <1>2, <1>3, <2>0, ModParts
  <2>2. n % Max32 \in Int
    BY <1>2, <1>3, <2>0, ModParts
  <2>3. CASE n % Max32 >= half
    <3>1. Int32(n) = (n % Max32) - Max32
      BY <1>2, <2>3 DEF Int32
    <3>2. -q - 1 \in Int /\ Max32 * (-q - 1) = -(Max32 * q) - Max32
      BY <1>2
    <3>3. Int32(n) = n + Max32 * (-q - 1)
      <4>1. Max32 * q \in Int
        BY <1>2
      <4> QED BY <1>2, <1>3, <2>1, <2>2, <3>1, <3>2, <4>1
    <3>4. Int32(n) \in Int
      BY <1>2, <2>2, <3>1
    <3> QED BY <3>2, <3>3, <3>4, Zenon
  <2>4. CASE n % Max32 < half
    <3>1. Int32(n) = n % Max32
      BY <1>2, <2>2, <2>4 DEF Int32
    <3>2. -q \in Int /\ Max32 * (-q) = -(Max32 * q)
      BY <1>2
    <3>3. Int32(n) = n + Max32 * (-q)
      <4>1. Max32 * q \in Int
        BY <1>2
      <4> QED BY <1>2, <1>3, <2>1, <2>2, <3>1, <3>2, <4>1
    <3>4. Int32(n) \in Int
      BY <2>2, <3>1
    <3> QED BY <3>2, <3>3, <3>4, Zenon
  <2> QED BY <1>2, <2>2, <2>3, <2>4
<1>4. ASSUME NEW n \in (-half) .. (half - 1) PROVE Int32(n) = n
  <2>1. CASE n >= 0
    <3>1. n % Max32 = n
      BY <1>1, <1>2, <2>1
    <3> QED BY <1>2, <2>1, <3>1 DEF Int32
  <2>2. CASE n < 0
    <3>1. Max32 * (-1) + (n + Max32) = n /\ n + Max32 \in 0 .. (Max32 - 1)
      BY <1>1, <1>2, <2>2
    <3>2. (Max32 * (-1) + (n + Max32)) % Max32 = n + Max32
      BY <1>2, <3>1, ModUnique
    <3>3. n % Max32 = n + Max32
      BY <3>1, <3>2
    <3> QED BY <1>1, <1>2, <2>2, <3>3 DEF Int32
  <2> QED BY <1>2, <2>1, <2>2
<1> QED BY <1>1, <1>2, <1>3, <1>4

\* An address goes through the int32 and comes back.
LEMMA IntToIpToInt ==
  ASSUME NEW f \in Nat, NEW n \in Nat, f + n < Max32
  PROVE  IntToIp(Int32(IpToInt(f) + n)) = f + n
<1>1. Max32 \in Nat /\ Max32 > 0
  BY Int32Parts
<1>0. f \in Int
  OBVIOUS
<1>2. PICK j \in Int : Int32(f) = f + Max32 * j
  BY <1>0, Int32Parts
<1>3. Int32(f) \in Int /\ Int32(f) + n \in Int
  <2>1. Int32(f) \in Int
    BY <1>0, Int32Parts
  <2> QED BY <2>1
<1>4. PICK k \in Int :
        Int32(Int32(f) + n) = (Int32(f) + n) + Max32 * k
  BY <1>3, Int32Parts
<1>5. Int32(Int32(f) + n) = Max32 * (j + k) + (f + n)
  BY <1>1, <1>2, <1>3, <1>4
<1>6. (Max32 * (j + k) + (f + n)) % Max32 = f + n
  <2>1. f + n \in 0 .. (Max32 - 1) /\ j + k \in Int
    BY <1>1
  <2> QED BY <1>1, <2>1, ModUnique
<1> QED BY <1>5, <1>6 DEF IntToIp, IpToInt

\* A network is within the address space.
LEMMA NetworkParts ==
  ASSUME NEW a \in 0 .. (Max32 - 1), NEW h \in Sizes
  PROVE  /\ h \in Nat /\ h > 0 /\ (h = Max32 \/ h <= Max32 \div 2)
         /\ FirstIPOf(a, h) \in Nat /\ FirstIPOf(a, h) + h <= Max32
         /\ a \in FirstIPOf(a, h) .. LastIPOf(a, h)
         /\ LastIPOf(a, h) = FirstIPOf(a, h) + h - 1
<1>1. /\ Max32 \in Nat /\ Max32 > 0 /\ Max32 \div 2 \in Nat
      /\ Max32 = 2 * (Max32 \div 2) /\ h \in Nat /\ h > 0
  <2>1. h \in Nat /\ h > 0
    BY SizesAssumption DEF MasksAreBlocks
  <2>2. /\ Max32 \in Nat /\ Max32 >= 6 /\ Max32 \div 2 \in Nat
        /\ Max32 = 2 * (Max32 \div 2)
    BY Int32Parts, Zenon
  <2> QED BY <2>1, <2>2
<1>2. PICK n \in 1 .. Max32 : Max32 = h * n
  BY SizesAssumption DEF MasksAreBlocks
<1>3. h = Max32 \/ h <= Max32 \div 2
  <2>1. CASE n = 1
    BY <1>1, <1>2, <2>1
  <2>2. CASE n >= 2
    <3>1. h * n >= h * 2
      BY <1>1, <2>2
    <3> QED BY <1>1, <1>2, <3>1
  <2> QED BY <1>1, <2>1, <2>2
<1>4. a \in Int /\ a % h \in 0 .. (h - 1)
  BY <1>1, ModParts
<1>5. PICK q \in Int : a = h * q + (a % h)
  BY <1>1, <1>4, ModParts
<1>6. FirstIPOf(a, h) = h * q /\ h * q \in Int
  BY <1>1, <1>4, <1>5 DEF FirstIPOf
<1>7. q >= 0
  <2>1. ASSUME q <= -1 PROVE FALSE
    <3>1. h * q <= -h
      BY <1>1, <2>1
    <3> QED BY <1>1, <1>4, <1>5, <1>6, <3>1
  <2> QED BY <2>1
<1>8. q <= n - 1
  <2>1. ASSUME q >= n PROVE FALSE
    <3>1. h * q >= h * n
      BY <1>1, <2>1
    <3> QED BY <1>1, <1>2, <1>4, <1>5, <1>6, <3>1
  <2> QED BY <1>1, <2>1
<1>9. h * q >= 0 /\ h * q + h <= h * n
  <2>1. h * (n - 1 - q) >= 0
    BY <1>1, <1>8
  <2>2. h * (n - 1 - q) = h * n - h - h * q
    BY <1>1
  <2> QED BY <1>1, <1>6, <1>7, <2>1, <2>2
<1>10. LastIPOf(a, h) = FirstIPOf(a, h) + h - 1
  BY <1>1, <1>6 DEF LastIPOf, HostMask
<1> QED BY <1>1, <1>2, <1>3, <1>4, <1>5, <1>6, <1>9, <1>10

\* The arithmetic of the capacity and of the end of the loop comes out right
\* although it wraps, but for the network of all addresses.
LEMMA LoopParts ==
  ASSUME NEW h \in Sizes
  PROVE  /\ h = Max32 => Capacity(h) = -3
         /\ h <= Max32 \div 2 =>
              Capacity(h) = h - 3 /\ LoopEnd(h) = h - 1
<1> DEFINE half == Max32 \div 2
<1>1. /\ Max32 \in Nat /\ half \in Nat /\ Max32 = 2 * half /\ half >= 3
      /\ h \in Nat /\ h > 0 /\ (h = Max32 \/ h <= half)
      /\ \A n \in (-half) .. (half - 1) : Int32(n) = n
  <2>1. 0 \in 0 .. (Max32 - 1)
    BY Int32Parts
  <2> QED BY <2>1, Int32Parts, NetworkParts
<1>2. ASSUME NEW n \in half .. (Max32 - 1) PROVE Int32(n) = n - Max32
  <2>1. n % Max32 = n
    BY <1>1, <1>2
  <2> QED BY <1>1, <1>2, <2>1 DEF Int32
<1>3. ASSUME NEW n \in (-Max32) .. (-half - 1) PROVE Int32(n) = n + Max32
  <2>1. Max32 * (-1) + (n + Max32) = n /\ n + Max32 \in 0 .. (Max32 - 1)
    BY <1>1, <1>3
  <2>2. (Max32 * (-1) + (n + Max32)) % Max32 = n + Max32
    BY <1>1, <2>1, ModUnique
  <2>3. n % Max32 = n + Max32 /\ n + Max32 < half
    BY <1>1, <1>3, <2>1, <2>2
  <2> QED BY <1>1, <2>3 DEF Int32
<1> HIDE DEF half
<1>4. CASE h < half
  <2>1. Int32(h - 1) = h - 1 /\ NetworkSize(h) = h
    <3>1. h - 1 \in (-half) .. (half - 1) /\ h \in (-half) .. (half - 1)
          /\ (h - 1) + 1 = h
      BY <1>1, <1>4
    <3> QED BY <1>1, <3>1 DEF NetworkSize, HostMask
  <2>2. Capacity(h) = h - 3 /\ LoopEnd(h) = h - 1
    <3>1. h - 3 \in (-half) .. (half - 1) /\ h - 1 \in (-half) .. (half - 1)
      BY <1>1, <1>4
    <3> QED BY <1>1, <2>1, <3>1 DEF Capacity, LoopEnd
  <2> QED BY <1>1, <1>4, <2>2 DEF half
<1>5. CASE h = half
  <2>1. Int32(h - 1) = h - 1 /\ Int32(h) = -half
    <3>1. h - 1 \in (-half) .. (half - 1) /\ h \in half .. (Max32 - 1)
      BY <1>1, <1>5
    <3> QED BY <1>1, <1>2, <1>5, <3>1
  <2>2. NetworkSize(h) = -half
    <3>1. (h - 1) + 1 = h
      BY <1>1
    <3> QED BY <2>1, <3>1 DEF NetworkSize, HostMask
  <2>3. Capacity(h) = h - 3 /\ LoopEnd(h) = h - 1
    <3>1. /\ -half - 1 \in (-Max32) .. (-half - 1)
          /\ -half - 3 \in (-Max32) .. (-half - 1)
      BY <1>1
    <3>2. /\ Int32(-half - 1) = -half - 1 + Max32
          /\ Int32(-half - 3) = -half - 3 + Max32
      BY <1>3, <3>1
    <3> QED BY <1>1, <1>5, <2>2, <3>2 DEF LoopEnd, Capacity
  <2> QED BY <1>1, <1>5, <2>3 DEF half
<1>6. CASE h = Max32
  <2>1. Int32(h - 1) = -1
    <3>1. h - 1 \in half .. (Max32 - 1)
      BY <1>1, <1>6
    <3> QED BY <1>1, <1>2, <1>6, <3>1
  <2>2. NetworkSize(h) = 0
    <3>1. 0 \in (-half) .. (half - 1) /\ -1 + 1 = 0
      BY <1>1
    <3> QED BY <1>1, <2>1, <3>1 DEF NetworkSize, HostMask
  <2>3. Capacity(h) = -3
    <3>1. -3 \in (-half) .. (half - 1)
      BY <1>1
    <3> QED BY <1>1, <2>2, <3>1 DEF Capacity
  <2> QED BY <1>1, <1>6, <2>3 DEF half
<1> QED BY <1>1, <1>4, <1>5, <1>6 DEF half

\* The addresses of the network that come before the one of turn n, and the
\* j-th of those that are not the bridge's.
Before(n) ==
  (FirstIPOf(bridge, block) + 1) .. (FirstIPOf(bridge, block) + n - 1)

Given(j, f) == IF f < bridge /\ bridge <= f + j THEN f + j + 1 ELSE f + j

\* How far the loop has come: the channel holds the addresses before the one of
\* the counter but the bridge's, in order.
Loaded ==
  /\ Capacity(block) >= 0
  /\ turn \in 1 .. (block - 1)
  /\ given \in Seq(Int)
  /\ Range(given) = Before(turn) \ {bridge}
  /\ \A j \in 1 .. Len(given) : given[j] = Given(j, FirstIPOf(bridge, block))
  /\ Len(given) = IF bridge \in Before(turn) THEN turn - 2 ELSE turn - 1

\* The inductive invariant of populate.
PopulateInv ==
  /\ bridge \in 0 .. (Max32 - 1) /\ block \in Sizes
  /\ stage \in {"make", "loop", "done", "panic"}
  /\ stage = "make" => turn = 1 /\ given = <<>>
  /\ stage \in {"loop", "done"} => Loaded
  /\ stage = "done" => turn >= LoopEnd(block)
  /\ stage = "panic" => Capacity(block) < 0

\* What the loop reads and computes at a turn: nothing wraps.
LEMMA LoopFacts ==
  ASSUME PopulateInv, stage \in {"loop", "done"}
  PROVE  LET f == FirstIPOf(bridge, block)
         IN /\ bridge \in Nat /\ f \in Nat /\ turn \in Nat /\ turn >= 1
            /\ turn < block
            /\ block \in Nat /\ f + block <= Max32 /\ f <= bridge
            /\ bridge < f + block
            /\ Capacity(block) = block - 3
            /\ LoopEnd(block) = block - 1
            /\ block >= 3 /\ Candidate = f + turn
            /\ Usable = (f + 1) .. (f + block - 2)
            /\ (turn < LoopEnd(block) => Int32(turn + 1) = turn + 1)
<1> DEFINE f == FirstIPOf(bridge, block)
<1>1. /\ bridge \in 0 .. (Max32 - 1) /\ block \in Sizes
      /\ Capacity(block) >= 0
      /\ turn \in 1 .. (block - 1)
  BY DEF PopulateInv, Loaded, Before
<1>2. /\ block \in Nat /\ block > 0 /\ (block = Max32 \/ block <= Max32 \div 2)
      /\ f \in Nat /\ f + block <= Max32
      /\ bridge \in f .. LastIPOf(bridge, block)
      /\ LastIPOf(bridge, block) = f + block - 1
  BY <1>1, NetworkParts
<1>3. /\ Max32 \in Nat /\ Max32 >= 6 /\ Max32 \div 2 \in Nat
      /\ \A n \in (-(Max32 \div 2)) .. (Max32 \div 2 - 1) : Int32(n) = n
  BY Int32Parts
<1>4. block = Max32 => Capacity(block) = -3
  BY <1>1, LoopParts
<1>5. /\ block <= Max32 \div 2 /\ Capacity(block) = block - 3
      /\ LoopEnd(block) = block - 1
  <2>1. block # Max32
    BY <1>1, <1>4
  <2>2. block <= Max32 \div 2
    BY <1>2, <2>1
  <2> QED BY <1>1, <2>2, LoopParts
<1> HIDE DEF f
<1>6. /\ bridge \in Nat /\ turn \in Nat /\ turn >= 1 /\ turn < block
      /\ f <= bridge /\ bridge < f + block
      /\ block >= 3
  BY <1>1, <1>2, <1>3, <1>5
<1>7. Candidate = f + turn
  <2>1. f + turn < Max32
    BY <1>2, <1>3, <1>6
  <2>2. IntToIp(Int32(IpToInt(f) + turn)) = f + turn
    BY <1>2, <1>6, <2>1, IntToIpToInt
  <2> QED BY <2>2 DEF Candidate, f
<1>8. Usable = (f + 1) .. (f + block - 2)
  <2>1. Usable = (f + 1) .. (LastIPOf(bridge, block) - 1)
    BY DEF Usable, f
  <2> QED BY <1>2, <2>1
<1>9. ASSUME turn < LoopEnd(block)
      PROVE  Int32(turn + 1) = turn + 1
  <2>1. turn + 1 \in (-(Max32 \div 2)) .. (Max32 \div 2 - 1)
    BY <1>2, <1>3, <1>5, <1>6, <1>9
  <2> QED BY <1>3, <2>1
<1> QED BY <1>2, <1>5, <1>6, <1>7, <1>8, <1>9 DEF f

\* Every step of populate, and a stutter, keeps the invariant.
LEMMA NextPopulateInv ==
  PopulateInv /\ [PopulateNext]_populateVars => PopulateInv'
<1> SUFFICES ASSUME PopulateInv, [PopulateNext]_populateVars PROVE PopulateInv'
  OBVIOUS
<1> DEFINE f == FirstIPOf(bridge, block)
<1>1. CASE MakeQueue
  <2>0. /\ bridge' = bridge /\ block' = block /\ turn' = 1 /\ given' = <<>>
        /\ bridge \in 0 .. (Max32 - 1) /\ block \in Sizes
        /\ stage' = IF Capacity(block) < 0 THEN "panic" ELSE "loop"
    BY <1>1 DEF MakeQueue, PopulateInv
  <2>1. CASE Capacity(block) < 0
    BY <2>0, <2>1 DEF PopulateInv
  <2>2. CASE ~(Capacity(block) < 0)
    <3>1. /\ block \in Nat /\ block > 0
          /\ (block = Max32 \/ block <= Max32 \div 2)
          /\ f \in Nat
      BY <2>0, NetworkParts
    <3>2. /\ block = Max32 => Capacity(block) = -3
          /\ block <= Max32 \div 2 => Capacity(block) = block - 3
      BY <2>0, LoopParts
    <3>3. block >= 3 /\ Capacity(block) >= 0
      BY <2>2, <3>1, <3>2
    <3>4. Range(<<>>) = {} /\ Len(<<>>) = 0 /\ <<>> \in Seq(Int)
      BY DEF Range
    <3>5. (f + 1) .. (f + 1 - 1) = {}
      BY <3>1
    <3>6. Loaded'
      <4> HIDE DEF f
      <4>1. f' = f
        BY <2>0 DEF f
      <4> QED BY <2>0, <3>1, <3>3, <3>4, <3>5, <4>1 DEF Loaded, Before, Given, f
    <3> QED BY <2>0, <2>2, <3>6 DEF PopulateInv
  <2> QED BY <2>1, <2>2
<1>2. CASE Discard \/ Send
  <2>0. /\ stage = "loop" /\ stage' = "loop" /\ bridge' = bridge
        /\ block' = block
        /\ turn < LoopEnd(block) /\ turn' = Int32(turn + 1)
        /\ bridge \in 0 .. (Max32 - 1) /\ block \in Sizes /\ Loaded
    BY <1>2 DEF Discard, Send, PopulateInv
  <2>1. /\ bridge \in Nat /\ f \in Nat /\ turn \in Nat /\ turn >= 1
        /\ block \in Nat /\ LoopEnd(block) = block - 1
        /\ Candidate = f + turn
        /\ turn' = turn + 1
    BY <2>0, LoopFacts
  <2>2. /\ Capacity(block) >= 0 /\ given \in Seq(Int)
        /\ Range(given) = ((f + 1) .. (f + turn - 1)) \ {bridge}
        /\ \A j \in 1 .. Len(given) : given[j] = Given(j, f)
        /\ Len(given) = IF bridge \in (f + 1) .. (f + turn - 1)
                        THEN turn - 2 ELSE turn - 1
    BY <2>0 DEF Loaded, Before
  <2>3. f' = f
    BY <2>0
  <2>4. turn' \in 1 .. (block' - 1)
    BY <2>0, <2>1
  <2> HIDE DEF f
  <2>5. (f + 1) .. (f + turn' - 1) = ((f + 1) .. (f + turn - 1)) \union {f + turn}
    BY <2>1
  <2>6. CASE Discard
    <3>1. f + turn = bridge /\ given' = given
      BY <2>1, <2>6 DEF Discard
    <3>2. Range(given') = ((f + 1) .. (f + turn' - 1)) \ {bridge}
      BY <2>2, <2>5, <3>1
    <3>3. Len(given') = IF bridge \in (f + 1) .. (f + turn' - 1)
                        THEN turn' - 2 ELSE turn' - 1
      <4>1. /\ bridge \in (f + 1) .. (f + turn' - 1)
            /\ bridge \notin (f + 1) .. (f + turn - 1)
        BY <2>1, <3>1
      <4> QED BY <2>1, <2>2, <3>1, <4>1
    <3>4. Loaded'
      BY <2>0, <2>2, <2>3, <2>4, <3>1, <3>2, <3>3 DEF Loaded, Before, Given, f
    <3> QED BY <2>0, <3>4 DEF PopulateInv
  <2>7. CASE Send
    <3>1. /\ f + turn # bridge /\ given' = Append(given, f + turn)
          /\ f + turn \in Int
      BY <2>1, <2>7 DEF Send
    <3>2. /\ given' \in Seq(Int) /\ Len(given') = Len(given) + 1
          /\ Range(given') = Range(given) \union {f + turn}
      BY <2>2, <3>1, AppendLemma, AppendProperties
    <3>3. Range(given') = ((f + 1) .. (f + turn' - 1)) \ {bridge}
      BY <2>2, <2>5, <3>1, <3>2
    <3>4. Len(given') = IF bridge \in (f + 1) .. (f + turn' - 1)
                        THEN turn' - 2 ELSE turn' - 1
      <4>1. bridge \in (f + 1) .. (f + turn' - 1)
              <=> bridge \in (f + 1) .. (f + turn - 1)
        BY <2>5, <3>1
      <4> QED BY <2>1, <2>2, <3>2, <4>1
    <3>5. ASSUME NEW j \in 1 .. Len(given') PROVE given'[j] = Given(j, f)
      <4>0. Len(given) \in Nat /\ j \in 1 .. (Len(given) + 1)
        BY <2>2, <3>2, <3>5
      <4>1. CASE j \in 1 .. Len(given)
        <5>1. given'[j] = given[j]
          BY <2>2, <3>1, <4>1
        <5> QED BY <2>2, <4>1, <5>1
      <4>2. CASE j = Len(given) + 1
        <5>1. given'[j] = f + turn
          BY <2>2, <3>1, <4>2
        <5>2. Given(j, f) = f + turn
          <6>1. CASE bridge \in (f + 1) .. (f + turn - 1)
            BY <2>1, <2>2, <4>2, <6>1 DEF Given
          <6>2. CASE bridge \notin (f + 1) .. (f + turn - 1)
            BY <2>1, <2>2, <3>1, <4>2, <6>2 DEF Given
          <6> QED BY <6>1, <6>2
        <5> QED BY <5>1, <5>2
      <4> QED BY <4>0, <4>1, <4>2
    <3>6. Loaded'
      BY <2>0, <2>2, <2>3, <2>4, <3>2, <3>3, <3>4, <3>5
         DEF Loaded, Before, Given, f
    <3> QED BY <2>0, <3>6 DEF PopulateInv
  <2> QED BY <1>2, <2>6, <2>7
<1>3. CASE Return
  <2>1. /\ stage = "loop" /\ stage' = "done" /\ bridge' = bridge
        /\ block' = block /\ turn' = turn
        /\ given' = given /\ turn >= LoopEnd(block)
    BY <1>3 DEF Return
  <2>2. Loaded'
    BY <2>1 DEF PopulateInv, Loaded, Before, Given
  <2> QED BY <2>1, <2>2 DEF PopulateInv
<1>4. CASE UNCHANGED populateVars
  BY <1>4 DEF populateVars, PopulateInv, Loaded, Before, Given
<1> QED BY <1>1, <1>2, <1>3, <1>4 DEF PopulateNext

\* It holds all the while populate runs.
LEMMA PopulateInvAlways == PopulateSpec => []PopulateInv
<1>1. PopulateInit => PopulateInv
  BY DEF PopulateInit, PopulateInv
<1> QED BY <1>1, NextPopulateInv, PTL DEF PopulateSpec

\* Whatever the address and the mask of the bridge: when populate returns, the
\* channel holds the usable addresses but the bridge's own, each once and in
\* ascending order, although the int32 wraps (network.go:209-235).
THEOREM PoolStartsWithHosts == PopulateSpec => []PoolIsHosts
<1>1. ASSUME PopulateInv PROVE PoolIsHosts
  <2>1. ASSUME stage = "done"
        PROVE  /\ Range(given) = Usable \ {bridge}
               /\ \A j, k \in 1 .. Len(given) : j < k => given[j] < given[k]
    <3> DEFINE f == FirstIPOf(bridge, block)
    <3>1. /\ f \in Nat /\ turn \in Nat /\ turn < block /\ block \in Nat
          /\ LoopEnd(block) = block - 1
          /\ Usable = (f + 1) .. (f + block - 2)
      BY <1>1, <2>1, LoopFacts
    <3>2. /\ Range(given) = ((f + 1) .. (f + turn - 1)) \ {bridge}
          /\ turn >= LoopEnd(block)
          /\ \A j \in 1 .. Len(given) : given[j] = Given(j, f)
          /\ Len(given) \in Nat /\ bridge \in 0 .. (Max32 - 1)
      BY <1>1, <2>1 DEF PopulateInv, Loaded, Before
    <3>3. turn = block - 1
      BY <3>1, <3>2
    <3>4. f + turn - 1 = f + block - 2
      BY <3>1, <3>3
    <3> HIDE DEF f
    <3>5. ASSUME NEW j \in 1 .. Len(given), NEW k \in 1 .. Len(given), j < k
          PROVE  given[j] < given[k]
      BY <3>1, <3>2, <3>5 DEF Given
    <3> QED BY <3>1, <3>2, <3>4, <3>5
  <2> QED BY <2>1 DEF PoolIsHosts, Range
<1> QED BY <1>1, PopulateInvAlways, PTL

\* The send of populate has room, and its make panics for the networks that
\* Populates says and for no other.
NeverWaits ==
  /\ (/\ bridge \in Usable /\ stage = "loop"
      /\ turn < LoopEnd(block) /\ Candidate # bridge)
       => Len(given) < Capacity(block)
  /\ stage = "panic" => MakePanics(block)
  /\ stage \in {"loop", "done"} => ~MakePanics(block)

\* While the bridge has a usable address, the channel has room for each that
\* populate sends: the send, which nobody could receive from yet, never waits.
\* make panics where the network has one address, two, or all there are (the
\* mask /0, whose size wraps to 0), and nowhere else (network.go:218-232).
THEOREM PopulateHasRoom == PopulateSpec => []NeverWaits
<1>1. ASSUME PopulateInv PROVE NeverWaits
  <2> DEFINE f == FirstIPOf(bridge, block)
  <2>1. ASSUME bridge \in Usable, stage = "loop", turn < LoopEnd(block),
               Candidate # bridge
        PROVE  Len(given) < Capacity(block)
    <3>1. /\ bridge \in Nat /\ f \in Nat /\ turn \in Nat /\ turn >= 1
          /\ block \in Nat
          /\ Capacity(block) = block - 3 /\ LoopEnd(block) = block - 1
          /\ Candidate = f + turn
          /\ Usable = (f + 1) .. (f + block - 2)
      BY <1>1, <2>1, LoopFacts
    <3>2. Len(given) = IF bridge \in (f + 1) .. (f + turn - 1)
                       THEN turn - 2 ELSE turn - 1
      BY <1>1, <2>1 DEF PopulateInv, Loaded, Before
    <3> HIDE DEF f
    <3>3. CASE bridge < f + turn
      BY <2>1, <3>1, <3>2, <3>3
    <3>4. CASE bridge > f + turn
      BY <2>1, <3>1, <3>2, <3>4
    <3> QED BY <2>1, <3>1, <3>3, <3>4
  <2>0. /\ block \in Sizes /\ bridge \in 0 .. (Max32 - 1)
        /\ block \in Nat /\ block > 0
        /\ (block = Max32 \/ block <= Max32 \div 2)
    <3>1. block \in Sizes /\ bridge \in 0 .. (Max32 - 1)
      BY <1>1 DEF PopulateInv
    <3> QED BY <3>1, NetworkParts
  <2>2. ASSUME stage = "panic" PROVE MakePanics(block)
    <3>1. Capacity(block) < 0
      BY <1>1, <2>2 DEF PopulateInv
    <3>2. block <= Max32 \div 2 => Capacity(block) = block - 3
      BY <2>0, LoopParts
    <3> QED BY <2>0, <3>1, <3>2 DEF MakePanics
  <2>3. ASSUME stage \in {"loop", "done"} PROVE ~MakePanics(block)
    <3>1. Capacity(block) = block - 3 /\ block >= 3
      BY <1>1, <2>3, LoopFacts
    <3>2. block = Max32 => Capacity(block) = -3
      BY <2>0, LoopParts
    <3> QED BY <2>0, <3>1, <3>2 DEF MakePanics
  <2> QED BY <2>1, <2>2, <2>3 DEF NeverWaits
<1> QED BY <1>1, PopulateInvAlways, PTL

\* The loop's counter, an int32, comes one nearer to the bound of the loop.
TurnsFall ==
  stage = "loop" =>
    \/ stage' = "done" /\ turn = LoopEnd(block)
    \/ /\ stage' = "loop" /\ block' = block
       /\ turn' = turn + 1 /\ turn' <= LoopEnd(block)

\* Whatever the mask, populate cannot loop for ever: each turn brings its
\* counter one nearer to the bound, and the int32 does not wrap before it is
\* there (network.go:222-233).
THEOREM PopulateRunsDown == PopulateSpec => [][TurnsFall]_populateVars
<1>1. ASSUME PopulateInv, PopulateNext, stage = "loop"
      PROVE  \/ stage' = "done" /\ turn = LoopEnd(block)
             \/ /\ stage' = "loop" /\ block' = block
                /\ turn' = turn + 1 /\ turn' <= LoopEnd(block)
  <2>1. /\ turn \in Nat /\ turn < block /\ block \in Nat
        /\ LoopEnd(block) = block - 1
        /\ (turn < LoopEnd(block) => Int32(turn + 1) = turn + 1)
    BY <1>1, LoopFacts
  <2>2. CASE Discard \/ Send
    BY <1>1, <2>1, <2>2 DEF Discard, Send
  <2>3. CASE Return
    BY <1>1, <2>1, <2>3 DEF Return
  <2> QED BY <1>1, <2>2, <2>3 DEF PopulateNext, MakeQueue
<1>2. PopulateInv /\ PopulateNext => TurnsFall
  BY <1>1 DEF TurnsFall
<1> QED BY <1>2, PopulateInvAlways, PTL DEF PopulateSpec

\* What populate has sent for the bridge network of Network is its IPPopulate.
THEOREM PopulateIsIPPopulate ==
  PopulateSpec =>
    []((/\ stage = "done" /\ bridge = HostIP /\ block = Size
        /\ FirstIPOf(bridge, block) = FirstIP)
         => given = IPPopulate)
<1>1. ASSUME PopulateInv, stage = "done", bridge = HostIP, block = Size,
             FirstIPOf(bridge, block) = FirstIP
      PROVE  given = IPPopulate
  <2>1. /\ turn \in Nat /\ turn < Size /\ LoopEnd(block) = Size - 1
    BY <1>1, LoopFacts
  <2>2. /\ turn >= LoopEnd(block) /\ given \in Seq(Int)
        /\ \A j \in 1 .. Len(given) : given[j] = Given(j, FirstIP)
        /\ Len(given) = IF HostIP \in (FirstIP + 1) .. (FirstIP + turn - 1)
                         THEN turn - 2 ELSE turn - 1
    BY <1>1 DEF PopulateInv, Loaded, Before
  <2>3. /\ FirstIP \in Nat /\ Size \in Nat /\ Size >= 4
        /\ HostIP \in (FirstIP + 1) .. (FirstIP + Size - 2)
    BY NetworkAssumption
  <2>4. turn = Size - 1 /\ Len(given) = Size - 3
    BY <2>1, <2>2, <2>3
  <2>5. /\ given = [j \in 1 .. (Size - 3) |-> given[j]]
        /\ IPPopulate = [j \in 1 .. (Size - 3) |-> IPPopulate[j]]
    BY <2>2, <2>4 DEF IPPopulate
  <2>6. ASSUME NEW j \in 1 .. (Size - 3) PROVE given[j] = IPPopulate[j]
    <3>1. given[j] = Given(j, FirstIP)
      BY <2>2, <2>4
    <3>2. Given(j, FirstIP) = IF FirstIP + j < HostIP THEN FirstIP + j
                              ELSE FirstIP + j + 1
      BY <1>1, <2>3 DEF Given
    <3> QED BY <3>1, <3>2 DEF IPPopulate
  <2> QED BY <2>5, <2>6
<1>2. PopulateInv =>
        ((/\ stage = "done" /\ bridge = HostIP /\ block = Size
          /\ FirstIPOf(bridge, block) = FirstIP)
           => given = IPPopulate)
  BY <1>1
<1> QED BY <1>2, PopulateInvAlways, PTL
=============================================================================
