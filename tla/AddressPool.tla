---------------------------- MODULE AddressPool -----------------------------
(***************************************************************************)
(* How newIPAllocator fills its channel from the address and mask of the   *)
(* bridge (network.go:22-67, 209-235).  An address is the integer its      *)
(* bytes spell, and a mask is known by the number of addresses of one of   *)
(* its networks, which divides that of all addresses.  The int32           *)
(* arithmetic of the code wraps at that.  The loop sends into a channel    *)
(* nobody receives from yet: if it is full, populate, and the daemon's     *)
(* start with it, waits for ever; and make() panics when the capacity is   *)
(* negative.  That the memory for the channel is there is taken as given.  *)
(***************************************************************************)
EXTENDS Integers, SequencesExt

CONSTANTS Max32,  \* how many addresses there are: 2^32
          Sizes   \* and how many a network may have, by its mask

\* The int32 is signed; with fewer addresses than six even the arithmetic of
\* the -3 wraps.
MasksAreBlocks ==
  /\ Max32 \in Nat /\ Max32 >= 6 /\ \E half \in 1 .. Max32 : Max32 = 2 * half
  /\ \A h \in Sizes : h \in 1 .. Max32 /\ \E n \in 1 .. Max32 : Max32 = h * n

ASSUME SizesAssumption == MasksAreBlocks

VARIABLES bridge,   \* alloc.network.IP
          block,    \* the addresses of a network of alloc.network.Mask
          stage,    \* "make", "loop", "done" or "panic"
          turn,     \* the loop's counter, an int32
          given     \* alloc.queue

populateVars == <<bridge, block, stage, turn, given>>

\* A Go int32 holding the integer n.
Int32(n) == LET u == n % Max32 IN IF u >= Max32 \div 2 THEN u - Max32 ELSE u

\* The bits of an address that the mask leaves, and networkRange.
HostMask(h) == h - 1
FirstIPOf(a, h) == a - (a % h)
LastIPOf(a, h) == FirstIPOf(a, h) + HostMask(h)

IpToInt(a) == Int32(a)
IntToIp(n) == n % Max32

NetworkSize(h) == Int32(Int32(HostMask(h)) + 1)

\* Mutants: the capacity and the bound of the loop off by one.
CapacityShort(h) == Int32(NetworkSize(h) - 4)
LoopEndShort(h) == Int32(NetworkSize(h) - 2)

Capacity(h) == Int32(NetworkSize(h) - 3)
LoopEnd(h) == Int32(NetworkSize(h) - 1)

PopulateInit ==
  /\ bridge \in 0 .. (Max32 - 1)
  /\ block \in Sizes
  /\ stage = "make" /\ turn = 1 /\ given = <<>>

MakeQueue ==
  /\ stage = "make"
  /\ stage' = IF Capacity(block) < 0 THEN "panic" ELSE "loop"
  /\ UNCHANGED <<bridge, block, turn, given>>

Candidate == IntToIp(Int32(IpToInt(FirstIPOf(bridge, block)) + turn))

\* "Discard the network IP (that's the host IP address)".
Discard ==
  /\ stage = "loop" /\ turn < LoopEnd(block) /\ Candidate = bridge
  /\ turn' = Int32(turn + 1)
  /\ UNCHANGED <<bridge, block, stage, given>>

\* The send blocks while the channel is full.
Send ==
  /\ stage = "loop" /\ turn < LoopEnd(block) /\ Candidate # bridge
  /\ Len(given) < Capacity(block)
  /\ given' = Append(given, Candidate)
  /\ turn' = Int32(turn + 1)
  /\ UNCHANGED <<bridge, block, stage>>

Return ==
  /\ stage = "loop" /\ turn >= LoopEnd(block)
  /\ stage' = "done"
  /\ UNCHANGED <<bridge, block, turn, given>>

PopulateNext == MakeQueue \/ Discard \/ Send \/ Return

PopulateSpec ==
  PopulateInit /\ [][PopulateNext]_populateVars /\ WF_populateVars(PopulateNext)

-----------------------------------------------------------------------------
\* The addresses a host of the network can have.
Usable == (FirstIPOf(bridge, block) + 1) .. (LastIPOf(bridge, block) - 1)

\* When populate returns, the channel holds every usable address but the
\* bridge's own, once, in ascending order: no network and no broadcast address
\* (the comment of network.go:215-217), also for a network in the upper half
\* of the address space, where the int32 is negative.
PoolIsHosts ==
  stage = "done" =>
    /\ Range(given) = Usable \ {bridge}
    /\ \A j, k \in 1 .. Len(given) : j < k => given[j] < given[k]

\* The networks make() has no capacity for: those of the masks /32 and /31, and
\* that of the mask /0, whose size wraps to 0.
MakePanics(h) == h \in {1, 2, Max32}

\* What becomes of populate (network.go:218-232).  On a network of one address,
\* of two, or of all it panics, and the daemon does not start.  On every other,
\* down to the /30 with one address to give and up to the /1 where the size is
\* the smallest of all int32, it returns and never waits on its own channel, if
\* the bridge has a usable address of the network.
Populates ==
  \A h \in Sizes :
    /\ (block = h /\ MakePanics(h)) ~> stage = "panic"
    /\ (block = h /\ ~MakePanics(h) /\ bridge \in Usable) ~> stage = "done"
=============================================================================
