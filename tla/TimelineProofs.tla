--------------------------- MODULE TimelineProofs ---------------------------
(***************************************************************************)
(* For any seed and any number of starts, visits and deaths of mongod: a   *)
(* server that seeds the collection never serves a part of its own seed,   *)
(* the types, and: a page of a server that found the seed whole is whole.  *)
(* Last, a server that starts, a seed and a page are never held, and take  *)
(* only so many steps.                                                     *)
(***************************************************************************)
EXTENDS Timeline, TLAPS

\* One server runs at a time, after those before it.
InTurn == \A s, t \in Server : t < s /\ sp[s] # "off" => sp[t] = "dead"

\* A server has sent nothing before it is through with its count; what is in
\* mongod somebody has sent; and who was told that all is there can rely on it.
Unsent ==
  \A s \in Server :
    sp[s] \in {"off", "connect", "hung", "count", "seed"} => batch[s] = "none"

Sent == docs > 0 => \E t \in Server : batch[t] # "none"

Told == \A s \in Server : batch[s] = "done" => docs = N

\* Who listened early goes on to listen.
EarlyListens == early \subseteq {s \in Server : sp[s] \in {"listen", "dead"}}

SpValues == {"off", "connect", "hung", "count", "seed", "inserting", "listen",
             "failed", "dead"}
BatchValues == {"none", "running", "done", "duplicate", "lost"}

SeedOK ==
  /\ sp \in [Server -> SpValues] /\ batch \in [Server -> BatchValues]
  /\ docs \in 0..N

IInv == SeedOK /\ InTurn /\ Unsent /\ Sent /\ Told /\ EarlyListens /\ OwnSeedIsWhole

\* The seed has items.
LEMMA SeedHasItems == N \in Nat /\ N > 0
BY SeedAssumption

\* A server number counts the starts.
LEMMA ServerIsInt == Server \subseteq Int
BY DEF Server

\* A step of one server: the others stay where they are.
LEMMA StepMoves ==
  ASSUME SeedOK, NEW s \in Server, NEW from, NEW to \in SpValues, Step(s, from, to)
  PROVE  /\ sp[s] = from /\ sp'[s] = to /\ sp' \in [Server -> SpValues]
         /\ \A t \in Server \ {s} : sp'[t] = sp[t]
BY DEF SeedOK, Step

\* A server that moves on without a word to mongod; if it listens early,
\* it is because it has counted what another server has sent.
LEMMA Goes ==
  ASSUME IInv, NEW s \in Server, UNCHANGED <<docs, batch>>,
         NEW from \in SpValues, NEW to \in SpValues, Step(s, from, to),
         from # "off" \/ \A t \in Server : t < s => sp[t] = "dead",
         from # "dead", to # "off", from # "listen",
         to \in {"connect", "hung", "count", "seed"} => from \in {"off", "connect",
             "count"},
         early' = early \/ (docs < N /\ early' = early \union {s}
           /\ to = "listen" /\
                             from = "count" /\ docs > 0)
  PROVE  IInv'
<1>1. /\ sp[s] = from /\ sp'[s] = to /\ sp' \in [Server -> SpValues]
      /\ \A t \in Server \ {s} : sp'[t] = sp[t]
  BY StepMoves DEF IInv
<1>2. SeedOK'
  BY <1>1 DEF IInv, SeedOK
<1>3. InTurn'
  BY <1>1, ServerIsInt DEF IInv, InTurn
<1>4. Unsent' /\ Sent' /\ Told'
  BY <1>1 DEF IInv, Unsent, Sent, Told
<1>5. EarlyListens'
  <2>1. s \notin early
    BY <1>1 DEF IInv, EarlyListens
  <2> QED BY <1>1, <2>1 DEF IInv, EarlyListens
<1>6. OwnSeedIsWhole'
  <2>1. ASSUME NEW t \in early
          PROVE batch[t] = "none" /\ \E u \in Server : sp'[u] = "dead"
            /\ batch[u] # "none"
    <3>1. PICK u \in Server : sp[u] = "dead" /\ batch[u] # "none"
      BY DEF IInv, OwnSeedIsWhole
    <3> QED BY <1>1, <3>1 DEF IInv, OwnSeedIsWhole
  <2>2. CASE early' = early \union {s} /\ from = "count" /\ docs > 0
    <3>1. from = "count" /\ docs > 0
      BY <2>2
    <3>2. batch[s] = "none"
      BY <1>1, <3>1 DEF IInv, Unsent
    <3>3. PICK t \in Server : batch[t] # "none"
      BY <3>1 DEF IInv, Sent
    <3>4. t # s /\ sp[t] # "off"
      BY <3>2, <3>3 DEF IInv, Unsent
    <3>5. t < s
      BY <1>1, <3>1, <3>4, ServerIsInt DEF IInv, InTurn
    <3>6. sp[t] = "dead"
      BY <1>1, <3>1, <3>5 DEF IInv, InTurn
    <3> QED BY <1>1, <2>1, <2>2, <3>2, <3>3, <3>4, <3>6 DEF OwnSeedIsWhole
  <2>3. CASE early' = early
    BY <2>1, <2>3 DEF OwnSeedIsWhole
  <2> QED BY <2>2, <2>3
<1> QED BY <1>2, <1>3, <1>4, <1>5, <1>6 DEF IInv

\* The server whose connection mongod answers, or that hears of its batch.
LEMMA ServerKeeps ==
  ASSUME IInv, NEW s \in Server, ServerStep(s)
  PROVE  IInv'
<1>1. CASE Start(s)
  <2>1. \A t \in Server : t < s => sp[t] = "dead"
    BY <1>1 DEF Start, Server
  <2> QED BY <1>1, <2>1, Goes DEF Start, db, visit, SpValues
<1>2. CASE Connect(s)
  <2>1. PICK to \in {"count", "hung"} : Step(s, "connect", to)
    BY <1>2 DEF Connect
  <2>2. UNCHANGED <<docs, batch, early>>
    BY <1>2 DEF Connect, db
  <2> QED BY <2>1, <2>2, Goes DEF SpValues
<1>3. CASE Count(s)
  <2>1. UNCHANGED <<docs, batch>>
    BY <1>3 DEF Count, db
  <2>2. CASE UNCHANGED early
    <3>1. PICK to \in {"seed", "failed", "listen"} : Step(s, "count", to)
      BY <1>3 DEF Count, Listen
    <3> QED BY <2>1, <2>2, <3>1, Goes DEF SpValues
  <2>3. CASE ~UNCHANGED early
    <3>1. Step(s, "count", "listen") /\ docs > 0 /\ docs < N
            /\ early' = early \union {s}
      BY <1>3, <2>3 DEF Count, Listen
    <3> QED BY <2>1, <3>1, Goes DEF SpValues
  <2> QED BY <2>2, <2>3
<1>4. CASE Initialized(s)
  <2>1. UNCHANGED <<docs, batch>>
    BY <1>4 DEF Initialized, db
  <2>2. CASE UNCHANGED early
    <3>1. PICK to \in {"failed", "listen"} : Step(s, "inserting", to)
      BY <1>4 DEF Initialized, Listen
    <3> QED BY <2>1, <2>2, <3>1, Goes DEF SpValues
  <2>3. CASE ~UNCHANGED early
    <3>1. batch[s] = "done"
      BY <1>4, <2>3 DEF Initialized, Listen
    <3>2. docs < N
      BY <1>4, <2>3 DEF Initialized, Listen
    <3>3. docs = N
      BY <3>1 DEF IInv, Told
    <3> QED BY <3>2, <3>3, SeedHasItems
  <2> QED BY <2>2, <2>3
<1>5. CASE InsertMany(s)
  <2>1. PICK b \in {"running", "lost"} : batch' = [batch EXCEPT ![s] = b]
    BY <1>5 DEF InsertMany, SendBatch
  <2>2. Step(s, "seed", "inserting") /\ UNCHANGED <<docs, early>>
    BY <1>5 DEF InsertMany, db
  <2>3. /\ sp[s] = "seed" /\ sp'[s] = "inserting" /\ sp' \in [Server -> SpValues]
        /\ \A t \in Server \ {s} : sp'[t] = sp[t]
    BY <2>2, StepMoves DEF IInv, SpValues
  <2>4. /\ batch' \in [Server -> BatchValues] /\ batch'[s] = b
        /\ \A t \in Server \ {s} : batch'[t] = batch[t]
    BY <2>1 DEF IInv, SeedOK, BatchValues
  <2>5. SeedOK'
    BY <2>2, <2>3, <2>4 DEF IInv, SeedOK
  <2>6. InTurn'
    BY <2>3, ServerIsInt DEF IInv, InTurn
  <2>7. Unsent' /\ Sent' /\ Told'
    BY <2>1, <2>2, <2>3, <2>4 DEF IInv, Unsent, Sent, Told
  <2>8. EarlyListens' /\ s \notin early
    BY <2>2, <2>3 DEF IInv, EarlyListens
  <2>9. OwnSeedIsWhole'
    <3>1. SUFFICES ASSUME NEW t \in early
                   PROVE  batch'[t] = "none"
                     /\ \E u \in Server : sp'[u] = "dead" /\ batch'[u] # "none"
      BY <2>2 DEF OwnSeedIsWhole
    <3>2. PICK u \in Server : sp[u] = "dead" /\ batch[u] # "none"
      BY DEF IInv, OwnSeedIsWhole
    <3>3. batch[t] = "none" /\ t \in Server
      BY DEF IInv, OwnSeedIsWhole, EarlyListens
    <3> QED BY <2>3, <2>4, <2>8, <3>2, <3>3
  <2> QED BY <2>5, <2>6, <2>7, <2>8, <2>9 DEF IInv
<1>6. CASE Dies(s)
  <2>1. sp[s] \notin {"off", "dead"} /\ sp' = [sp EXCEPT ![s] = "dead"]
          /\ UNCHANGED <<docs, batch, early>>
    BY <1>6 DEF Dies, db
  <2>2. PICK from \in SpValues : Step(s, from, "dead")
          /\ from \notin {"off", "dead"}
    BY <2>1 DEF IInv, SeedOK, Step
  <2>3. CASE from # "listen"
    BY <2>1, <2>2, <2>3, Goes DEF SpValues
  <2>4. CASE from = "listen"
    <3>1. /\ sp'[s] = "dead" /\ sp' \in [Server -> SpValues] /\ sp[s] = "listen"
          /\ \A t \in Server \ {s} : sp'[t] = sp[t]
      BY <2>2, <2>4, StepMoves DEF IInv, SpValues
    <3>2. SeedOK' /\ Unsent' /\ Sent' /\ Told' /\ EarlyListens'
      BY <2>1, <3>1 DEF IInv, SeedOK, Unsent, Sent, Told, EarlyListens
    <3>3. InTurn'
      BY <3>1, ServerIsInt DEF IInv, InTurn
    <3>4. OwnSeedIsWhole'
      BY <2>1, <3>1 DEF IInv, OwnSeedIsWhole
    <3> QED BY <3>2, <3>3, <3>4 DEF IInv
  <2> QED BY <2>3, <2>4
<1> QED BY <1>1, <1>2, <1>3, <1>4, <1>5, <1>6 DEF ServerStep

\* A batch goes on or ends where it is.
LEMMA MongoKeeps ==
  ASSUME IInv, MongoStep
  PROVE  IInv'
<1>1. ASSUME NEW s \in Server, Insert(s) PROVE IInv'
  <2>1. batch[s] = "running" /\ UNCHANGED <<sp, early>>
    BY <1>1 DEF Insert
  <2>2. /\ \A t \in Server \ {s} : batch'[t] = batch[t]
        /\ batch'[s] # "none" /\ batch' \in [Server -> BatchValues]
        /\ docs' \in 0..N /\ docs <= docs' /\ (batch'[s] = "done" => docs' = N)
    <3>1. batch \in [Server -> BatchValues] /\ docs \in 0..N /\ N \in Nat
      BY SeedHasItems DEF IInv, SeedOK
    <3>2. CASE pos[s] = docs
      <4>1. PICK k \in {b \in Breaks : b > docs} :
              /\ docs' = k
              /\ batch' = IF k = N THEN [batch EXCEPT ![s] = "done"] ELSE batch
        BY <1>1, <3>2 DEF Insert
      <4>2. k \in 0..N /\ docs <= k
        BY <3>1, <4>1, TimelineAssumption
      <4>3. CASE k = N
        BY <2>1, <3>1, <4>1, <4>2, <4>3 DEF BatchValues
      <4>4. CASE k # N
        BY <2>1, <3>1, <4>1, <4>2, <4>4
      <4> QED BY <4>3, <4>4
    <3>3. CASE pos[s] # docs
      <4>1. batch' = [batch EXCEPT ![s] = "duplicate"] /\ docs' = docs
        BY <1>1, <3>3 DEF Insert
      <4> QED BY <3>1, <4>1 DEF BatchValues
    <3> QED BY <3>2, <3>3
  <2>3. SeedOK' /\ InTurn' /\ EarlyListens'
    BY <2>1, <2>2 DEF IInv, SeedOK, InTurn, EarlyListens
  <2>4. Unsent' /\ Sent'
    BY <2>1, <2>2 DEF IInv, Unsent, Sent
  <2>5. Told'
    <3>1. ASSUME NEW t \in Server, batch'[t] = "done" PROVE docs' = N
      <4>1. CASE t = s
        BY <2>2, <3>1, <4>1
      <4>2. CASE t # s
        <5>1. docs = N
          BY <2>2, <3>1, <4>2 DEF IInv, Told
        <5> QED BY <2>2, <5>1, SeedHasItems
      <4> QED BY <4>1, <4>2
    <3> QED BY <3>1 DEF Told
  <2>6. OwnSeedIsWhole'
    <3>1. SUFFICES ASSUME NEW t \in early
                   PROVE  batch'[t] = "none"
                     /\ \E u \in Server : sp'[u] = "dead" /\ batch'[u] # "none"
      BY <2>1 DEF OwnSeedIsWhole
    <3>2. PICK u \in Server : sp[u] = "dead" /\ batch[u] # "none"
      BY DEF IInv, OwnSeedIsWhole
    <3>3. batch[t] = "none" /\ t \in Server
      BY DEF IInv, OwnSeedIsWhole, EarlyListens
    <3> QED BY <2>1, <2>2, <3>2, <3>3
  <2> QED BY <2>3, <2>4, <2>5, <2>6 DEF IInv
<1>2. ASSUME Stop PROVE IInv'
  <2>1. /\ batch' = [s \in Server |->
                       IF batch[s] = "running" THEN "lost" ELSE batch[s]]
        /\ UNCHANGED <<sp, docs, early>>
    BY <1>2 DEF Stop
  <2>2. batch' \in [Server -> BatchValues]
    BY <2>1 DEF IInv, SeedOK, BatchValues
  <2>3. \A s \in Server : (batch'[s] = "none" <=> batch[s] = "none")
          /\ (batch'[s] = "done" <=> batch[s] = "done")
    BY <2>1
  <2>4. SeedOK' /\ InTurn' /\ EarlyListens'
    BY <2>1, <2>2 DEF IInv, SeedOK, InTurn, EarlyListens
  <2>5. Unsent' /\ Sent' /\ Told'
    BY <2>1, <2>3 DEF IInv, Unsent, Sent, Told
  <2>6. OwnSeedIsWhole'
    BY <2>1, <2>3 DEF IInv, OwnSeedIsWhole, EarlyListens
  <2> QED BY <2>4, <2>5, <2>6 DEF IInv
<1>3. ASSUME UNCHANGED <<sp, batch, docs, early>> PROVE IInv'
  BY <1>3 DEF IInv, SeedOK, InTurn, Unsent, Sent, Told, EarlyListens, OwnSeedIsWhole
<1>4. CASE MongoStarts \/ CreateUsers \/ \E s \in Server : GivesUp(s)
  BY <1>3, <1>4 DEF MongoStarts, CreateUsers, GivesUp, db
<1>5. CASE Shutdown \/ MongoDies
  BY <1>2, <1>5 DEF Shutdown, MongoDies
<1>6. CASE \E s \in Server : Insert(s)
  BY <1>1, <1>6
<1> QED BY <1>4, <1>5, <1>6 DEF MongoStep

\* A visit only reads.
LEMMA VisitKeeps ==
  ASSUME IInv, NEW v \in Visit, VisitStep(v)
  PROVE  IInv'
<1>1. UNCHANGED <<sp, batch, docs, early>>
  <2>1. ASSUME NEW e, Get(v, e) \/ Click(v, e)
          PROVE UNCHANGED <<sp, batch, docs, early>>
    BY <2>1 DEF Get, Click, db
  <2>2. ASSUME NEW r, Find(v, r) \/ FindFails(v, r) \/ Receive(v, r)
        PROVE  UNCHANGED <<sp, batch, docs, early>>
    BY <2>2 DEF Find, FindFails, Receive, Answer, db
  <2>3. ASSUME Render(v) \/ Boot(v) PROVE UNCHANGED <<sp, batch, docs, early>>
    BY <2>3 DEF Render, Rendered, Boot, db
  <2> QED BY <2>1, <2>2, <2>3 DEF VisitStep
<1> QED BY <1>1
  DEF IInv, SeedOK, InTurn, Unsent, Sent, Told, EarlyListens, OwnSeedIsWhole

\* A server never serves a part of its own seed (initializationTasks.js:13-36).
THEOREM NoHalfSeed == Spec => []OwnSeedIsWhole
<1>1. Init => IInv
  BY SeedHasItems DEF Init, IInv, SeedOK, InTurn, Unsent, Sent, Told, EarlyListens,
     OwnSeedIsWhole, SpValues, BatchValues
<1>2. IInv /\ [Next]_vars => IInv'
  <2>1. SUFFICES ASSUME IInv, [Next]_vars PROVE IInv'
    OBVIOUS
  <2>2. CASE UNCHANGED vars
    BY <2>1, <2>2
      DEF vars, IInv, SeedOK, InTurn, Unsent, Sent, Told, EarlyListens,
         OwnSeedIsWhole
  <2> QED BY <2>1, <2>2, ServerKeeps, MongoKeeps, VisitKeeps DEF Next
<1>3. IInv => OwnSeedIsWhole
  BY DEF IInv
<1> QED BY <1>1, <1>2, <1>3, PTL DEF Spec

-----------------------------------------------------------------------------
(* The types.                                                               *)

Ranges == {Range[k] : k \in 1..N} \union {NoRange}
ConnValues == {"none", "open", "closed"}
AtValues == {"none", "fetching", "page", "text", "lost", "asking", "live", "broken"}
Fetches == [state : {"none", "sent", "answered", "done"}, items : 0..N]

\* What a server and mongod have, and what a visit has.
ServerOK ==
  /\ mongo \in {"off", "fresh", "primer", "up"} /\ primed \in BOOLEAN
  /\ docs \in 0..N /\ deaths \in 0..MaxDeaths
  /\ conn \in [Server -> ConnValues] /\ batch \in [Server -> BatchValues]
  /\ pos \in [Server -> 0..N] /\ sp \in [Server -> SpValues]
  /\ early \subseteq Server

VisitOK ==
  /\ dates \in [Server -> Ranges]
  /\ at \in [Visit -> AtValues] /\ on \in [Visit -> Server \union {NoServer}]
  /\ event \in [Visit -> Ids(N) \union {NoEvent}]
  /\ fetch \in [Visit -> [Request -> Fetches]]
  /\ items \in [Visit -> 0..N] /\ range \in [Visit -> Ranges]
  /\ missed \subseteq Visit
  /\ \A v \in Visit : at[v] = "fetching" => on[v] \in Server

Typed == ServerOK /\ VisitOK

\* A filterCriteria is over some items or none.
LEMMA FilterInRanges ==
  ASSUME NEW d \in Ranges, NEW k \in 0..N
  PROVE  Filter(d, k) \in Ranges
<1>1. CASE d = NoRange /\ k > 0
  <2>1. k \in 1..N
    BY <1>1, SeedHasItems
  <2> QED BY <1>1, <2>1 DEF Filter, Ranges
<1>2. CASE ~(d = NoRange /\ k > 0)
  BY <1>2 DEF Filter
<1> QED BY <1>1, <1>2

\* Who has only a part of the items has events of them all.
LEMMA IdsGrow ==
  ASSUME NEW k \in 0..N
  PROVE  Ids(k) \subseteq Ids(N)
<1>1. ASSUME NEW i \in 1..k PROVE i \in 1..N
  BY SeedHasItems
<1> QED BY <1>1 DEF Ids

\* What is found in a part is found in the whole.
LEMMA FoundInWhole ==
  ASSUME NEW e, NEW k \in 0..N, Found(e, k)
  PROVE  e \in Ids(N)
BY IdsGrow DEF Found, Ids

\* A step of a server.
LEMMA ServerTyped ==
  ASSUME Typed, NEW s \in Server, ServerStep(s)
  PROVE  Typed'
<1>1. CASE Start(s)
  <2>1. UNCHANGED <<mongo, primed, docs, deaths, pos>> /\ UNCHANGED <<dates, visit>>
    BY <1>1 DEF Start, db
  <2>2. VisitOK'
    BY <2>1 DEF Typed, VisitOK, visit
  <2>3. /\ sp' \in [Server -> SpValues] /\ conn' \in [Server -> ConnValues]
        /\ batch' \in [Server -> BatchValues] /\ early' \subseteq Server
    BY <1>1 DEF Start, Step, Typed, ServerOK, SpValues, ConnValues, BatchValues
  <2>4. ServerOK'
    BY <2>1, <2>3 DEF Typed, ServerOK
  <2> QED BY <2>2, <2>4 DEF Typed
<1>2. CASE Connect(s)
  <2>1. UNCHANGED <<mongo, primed, docs, deaths, pos>> /\ UNCHANGED <<dates, visit>>
    BY <1>2 DEF Connect, db
  <2>2. VisitOK'
    BY <2>1 DEF Typed, VisitOK, visit
  <2>3. /\ sp' \in [Server -> SpValues] /\ conn' \in [Server -> ConnValues]
        /\ batch' \in [Server -> BatchValues] /\ early' \subseteq Server
    BY <1>2 DEF Connect, Step, Typed, ServerOK, SpValues, ConnValues, BatchValues
  <2>4. ServerOK'
    BY <2>1, <2>3 DEF Typed, ServerOK
  <2> QED BY <2>2, <2>4 DEF Typed
<1>3. CASE Count(s)
  <2>1. UNCHANGED <<mongo, primed, docs, deaths, pos>> /\ UNCHANGED <<dates, visit>>
    BY <1>3 DEF Count, db
  <2>2. VisitOK'
    BY <2>1 DEF Typed, VisitOK, visit
  <2>3. /\ sp' \in [Server -> SpValues] /\ conn' \in [Server -> ConnValues]
        /\ batch' \in [Server -> BatchValues] /\ early' \subseteq Server
    BY <1>3
      DEF Count, Step, Listen, Typed, ServerOK, SpValues, ConnValues, BatchValues
  <2>4. ServerOK'
    BY <2>1, <2>3 DEF Typed, ServerOK
  <2> QED BY <2>2, <2>4 DEF Typed
<1>4. CASE InsertMany(s)
  <2>1. UNCHANGED <<mongo, primed, docs, deaths, pos>> /\ UNCHANGED <<dates, visit>>
    BY <1>4 DEF InsertMany, db
  <2>2. VisitOK'
    BY <2>1 DEF Typed, VisitOK, visit
  <2>3. /\ sp' \in [Server -> SpValues] /\ conn' \in [Server -> ConnValues]
        /\ batch' \in [Server -> BatchValues] /\ early' \subseteq Server
    BY <1>4
      DEF InsertMany, Step, SendBatch, Typed, ServerOK, SpValues, ConnValues,
         BatchValues
  <2>4. ServerOK'
    BY <2>1, <2>3 DEF Typed, ServerOK
  <2> QED BY <2>2, <2>4 DEF Typed
<1>5. CASE Initialized(s)
  <2>1. UNCHANGED <<mongo, primed, docs, deaths, pos>> /\ UNCHANGED <<dates, visit>>
    BY <1>5 DEF Initialized, db
  <2>2. VisitOK'
    BY <2>1 DEF Typed, VisitOK, visit
  <2>3. /\ sp' \in [Server -> SpValues] /\ conn' \in [Server -> ConnValues]
        /\ batch' \in [Server -> BatchValues] /\ early' \subseteq Server
    BY <1>5
      DEF Initialized, Step, Listen, Typed, ServerOK, SpValues, ConnValues,
         BatchValues
  <2>4. ServerOK'
    BY <2>1, <2>3 DEF Typed, ServerOK
  <2> QED BY <2>2, <2>4 DEF Typed
<1>6. CASE Dies(s)
  <2>1. /\ UNCHANGED <<mongo, primed, docs, deaths, batch, pos, early>>
        /\ UNCHANGED <<on, event, range, missed>>
        /\ sp' = [sp EXCEPT ![s] = "dead"] /\ conn' = [conn EXCEPT ![s] = "none"]
        /\ dates' = [dates EXCEPT ![s] = NoRange]
    BY <1>6 DEF Dies, db
  <2>2. PICK cut \in SUBSET Visit :
          /\ at' = [v \in Visit |-> IF v \in cut THEN "lost" ELSE at[v]]
          /\ fetch' = [v \in Visit |-> IF v \in cut THEN NoFetch ELSE fetch[v]]
          /\ items' = [v \in Visit |-> IF v \in cut THEN 0 ELSE items[v]]
    BY <1>6 DEF Dies
  <2>3. ServerOK'
    BY <2>1 DEF Typed, ServerOK, SpValues, ConnValues
  <2>4. NoFetch \in [Request -> Fetches] /\ 0 \in 0..N
    BY SeedHasItems DEF NoFetch, Idle, Fetches
  <2>5. /\ at' \in [Visit -> AtValues]
        /\ \A v \in Visit : at'[v] = "fetching" => on'[v] \in Server
    BY <2>1, <2>2 DEF Typed, VisitOK, AtValues
  <2>6. fetch' \in [Visit -> [Request -> Fetches]]
    BY <2>2, <2>4 DEF Typed, VisitOK
  <2>7. items' \in [Visit -> 0..N]
    BY <2>2, <2>4 DEF Typed, VisitOK
  <2>8. dates' \in [Server -> Ranges]
    BY <2>1 DEF Typed, VisitOK, Ranges
  <2>9. VisitOK'
    BY <2>1, <2>5, <2>6, <2>7, <2>8 DEF Typed, VisitOK
  <2> QED BY <2>3, <2>9 DEF Typed
<1> QED BY <1>1, <1>2, <1>3, <1>4, <1>5, <1>6 DEF ServerStep

\* A step of mongod.
LEMMA MongoTyped ==
  ASSUME Typed, MongoStep
  PROVE  Typed'
<1>1. UNCHANGED <<sp, dates, early>> /\ UNCHANGED visit
  BY
    DEF MongoStep, MongoStarts, CreateUsers, Shutdown, MongoDies, Stop, Insert,
       GivesUp
<1>2. VisitOK'
  BY <1>1 DEF Typed, VisitOK, visit
<1>3. /\ mongo' \in {"off", "fresh", "primer", "up"} /\ primed' \in BOOLEAN
      /\ conn' \in [Server -> ConnValues]
  BY
    DEF MongoStep, MongoStarts, CreateUsers, Shutdown, MongoDies, Stop, Insert,
       GivesUp,
     Typed, ServerOK, ConnValues, db
<1>4. batch' \in [Server -> BatchValues]
  BY
    DEF MongoStep, MongoStarts, CreateUsers, Shutdown, MongoDies, Stop, Insert,
       GivesUp,
     Typed, ServerOK, BatchValues
<1>5. deaths' \in 0..MaxDeaths
  <2>1. CASE MongoDies
    <3>1. deaths < MaxDeaths /\ deaths' = deaths + 1
      BY <2>1 DEF MongoDies
    <3>2. deaths \in 0..MaxDeaths /\ MaxDeaths \in Nat
      BY TimelineAssumption DEF Typed, ServerOK
    <3> QED BY <3>1, <3>2
  <2>2. CASE ~MongoDies
    <3>1. deaths' = deaths
      BY <2>2 DEF MongoStep, MongoStarts, CreateUsers, Shutdown, Insert, GivesUp, db
    <3> QED BY <3>1 DEF Typed, ServerOK
  <2> QED BY <2>1, <2>2
<1>6. docs' \in 0..N /\ pos' \in [Server -> 0..N]
  <2>1. ASSUME NEW s \in Server, Insert(s), pos[s] = docs
        PROVE  docs' \in 0..N /\ pos' \in [Server -> 0..N]
    <3>1. PICK k \in {b \in Breaks : b > docs} :
            docs' = k /\ pos' = [pos EXCEPT ![s] = k]
      BY <2>1 DEF Insert
    <3>2. docs \in 0..N
      BY DEF Typed, ServerOK
    <3>3. k \in 0..N
      BY <3>2, SeedHasItems, TimelineAssumption
    <3> QED BY <3>1, <3>3 DEF Typed, ServerOK
  <2>2. ASSUME \A s \in Server : ~(Insert(s) /\ pos[s] = docs)
        PROVE  UNCHANGED <<docs, pos>>
    <3>1. CASE \E s \in Server : Insert(s)
      BY <2>2, <3>1 DEF Insert
    <3>2. CASE ~\E s \in Server : Insert(s)
      BY <3>2
        DEF MongoStep, MongoStarts, CreateUsers, Shutdown, MongoDies, Stop,
           GivesUp, db
    <3> QED BY <3>1, <3>2
  <2>3. docs \in 0..N /\ pos \in [Server -> 0..N]
    BY DEF Typed, ServerOK
  <2> QED BY <2>1, <2>2, <2>3
<1>7. ServerOK'
  BY <1>1, <1>3, <1>4, <1>5, <1>6 DEF Typed, ServerOK
<1> QED BY <1>2, <1>7 DEF Typed

\* A step of a visit.
LEMMA VisitTyped ==
  ASSUME Typed, NEW v \in Visit, VisitStep(v)
  PROVE  Typed'
<1>0. UNCHANGED <<mongo, primed, docs, deaths, conn, batch, pos, sp, early>>
  <2>1. ASSUME NEW e, Get(v, e) \/ Click(v, e)
        PROVE  UNCHANGED <<mongo, primed, docs, deaths, conn, batch, pos, sp,
            early>>
    BY <2>1 DEF Get, Click, db
  <2>2. ASSUME NEW r, Find(v, r) \/ FindFails(v, r) \/ Receive(v, r)
        PROVE  UNCHANGED <<mongo, primed, docs, deaths, conn, batch, pos, sp,
            early>>
    BY <2>2 DEF Find, FindFails, Receive, Answer, db
  <2>3. ASSUME Render(v) \/ Boot(v)
        PROVE  UNCHANGED <<mongo, primed, docs, deaths, conn, batch, pos, sp,
            early>>
    BY <2>3 DEF Render, Rendered, Boot, db
  <2> QED BY <2>1, <2>2, <2>3 DEF VisitStep
<1>1. ServerOK'
  BY <1>0 DEF Typed, ServerOK
<1>2. ASSUME NEW e \in Path, Get(v, e) PROVE VisitOK'
  <2>1. PICK s \in Server : on' = [on EXCEPT ![v] = s]
    BY <1>2 DEF Get, Listening
  <2>2. /\ at' = [at EXCEPT ![v] = "fetching"] /\ event' = [event EXCEPT ![v] = e]
        /\ UNCHANGED <<dates, items, range, missed>>
    BY <1>2 DEF Get
  <2>3. PICK f \in [Request -> Fetches] : fetch' = [fetch EXCEPT ![v] = f]
    <3>1. [r \in Request |-> IF r \in Containers(e) THEN Asked ELSE Idle]
            \in [Request -> Fetches]
      BY SeedHasItems DEF Asked, Idle, Fetches
    <3> QED BY <1>2, <3>1 DEF Get
  <2>4. e \in Ids(N) \union {NoEvent}
    BY TimelineAssumption
  <2>5. event' \in [Visit -> Ids(N) \union {NoEvent}]
          /\ on' \in [Visit -> Server \union {NoServer}]
    BY <2>1, <2>2, <2>4 DEF Typed, VisitOK
  <2>6. fetch' \in [Visit -> [Request -> Fetches]]
    BY <2>3 DEF Typed, VisitOK
  <2>7. at' \in [Visit -> AtValues]
          /\ \A u \in Visit : at'[u] = "fetching" => on'[u] \in Server
    BY <2>1, <2>2 DEF Typed, VisitOK, AtValues
  <2> QED BY <2>2, <2>5, <2>6, <2>7 DEF Typed, VisitOK
<1>3. ASSUME NEW e, Click(v, e) PROVE VisitOK'
  <2>1. /\ Found(e, items[v]) /\ event' = [event EXCEPT ![v] = e] /\ at[v] = "live"
        /\ at' \in {[at EXCEPT ![v] = "live"], [at EXCEPT ![v] = "broken"]}
        /\ UNCHANGED <<dates, on, fetch, items, range, missed>>
    BY <1>3 DEF Click
  <2>2. e \in Ids(N)
    <3>1. items[v] \in 0..N
      BY DEF Typed, VisitOK
    <3> QED BY <2>1, <3>1, FoundInWhole
  <2>3. event' \in [Visit -> Ids(N) \union {NoEvent}]
    BY <2>1, <2>2 DEF Typed, VisitOK
  <2>4. at' \in [Visit -> AtValues]
          /\ \A u \in Visit : at'[u] = "fetching" => on'[u] \in Server
    BY <2>1 DEF Typed, VisitOK, AtValues
  <2> QED BY <2>1, <2>3, <2>4 DEF Typed, VisitOK
<1>4. ASSUME NEW r \in Request, Find(v, r) \/ FindFails(v, r) PROVE VisitOK'
  <2>1. PICK k \in 0..N : Answer(v, r, k)
    BY <1>4, SeedHasItems DEF Find, FindFails, Typed, ServerOK
  <2>2. fetch' = [fetch EXCEPT ![v][r] = [state |-> "answered", items |-> k]]
        /\ UNCHANGED <<dates, at, on, event, items, range>>
    BY <2>1 DEF Answer
  <2>3. fetch' \in [Visit -> [Request -> Fetches]]
    <3>1. [state |-> "answered", items |-> k] \in Fetches
      BY DEF Fetches
    <3> QED BY <2>2, <3>1 DEF Typed, VisitOK
  <2>4. missed' \subseteq Visit
    BY <1>4 DEF Find, FindFails, Typed, VisitOK
  <2> QED BY <2>2, <2>3, <2>4 DEF Typed, VisitOK
<1>5. ASSUME NEW r \in Request, Receive(v, r) PROVE VisitOK'
  <2>1. fetch \in [Visit -> [Request -> Fetches]] /\ fetch[v][r].items \in 0..N
          /\ range[v] \in Ranges
    BY DEF Typed, VisitOK, Fetches
  <2>2. items' \in [Visit -> 0..N] /\ UNCHANGED <<dates, on, event, missed>>
    BY <1>5, <2>1 DEF Receive, Typed, VisitOK
  <2>3. fetch' \in [Visit -> [Request -> Fetches]]
    <3>1. Done \in Fetches /\ NoFetch \in [Request -> Fetches]
      BY SeedHasItems DEF Done, NoFetch, Idle, Fetches
    <3>2. [fetch[v] EXCEPT ![r] = Done] \in [Request -> Fetches]
      BY <2>1, <3>1
    <3>3. PICK f \in [Request -> Fetches] : fetch' = [fetch EXCEPT ![v] = f]
      BY <1>5, <3>1, <3>2 DEF Receive
    <3> QED BY <2>1, <3>3
  <2>4. CASE at[v] = "asking"
    <3>1. /\ at' = [at EXCEPT ![v] = "live"]
          /\ range' = [range EXCEPT ![v] = Filter(range[v], fetch[v][r].items)]
      BY <1>5, <2>4 DEF Receive
    <3>2. range' \in [Visit -> Ranges]
      BY <2>1, <3>1, FilterInRanges DEF Typed, VisitOK
    <3>3. at' \in [Visit -> AtValues]
            /\ \A u \in Visit : at'[u] = "fetching" => on'[u] \in Server
      BY <2>2, <3>1 DEF Typed, VisitOK, AtValues
    <3> QED BY <2>2, <2>3, <3>2, <3>3 DEF Typed, VisitOK
  <2>5. CASE at[v] # "asking"
    <3>1. UNCHANGED <<at, range>>
      BY <1>5, <2>5 DEF Receive
    <3> QED BY <2>2, <2>3, <3>1 DEF Typed, VisitOK
  <2> QED BY <2>4, <2>5
<1>6. ASSUME Render(v) PROVE VisitOK'
  <2>1. at[v] = "fetching" /\ Rendered(v)
    BY <1>6 DEF Render
  <2>2. on[v] \in Server /\ dates[on[v]] \in Ranges /\ items[v] \in 0..N
    BY <2>1 DEF Typed, VisitOK
  <2>3. PICK d \in Ranges :
          /\ dates' = [dates EXCEPT ![on[v]] = d]
          /\ \/ at' = [at EXCEPT ![v] = "page"] /\ range' = [range EXCEPT ![v] = d]
             \/ at' = [at EXCEPT ![v] = "text"] /\ UNCHANGED range
          /\ fetch' = [fetch EXCEPT ![v] = NoFetch]
          /\ UNCHANGED <<on, event, items, missed>>
    BY <2>1, <2>2, FilterInRanges DEF Rendered
  <2>4. dates' \in [Server -> Ranges] /\ range' \in [Visit -> Ranges]
    BY <2>2, <2>3 DEF Typed, VisitOK
  <2>5. at' \in [Visit -> AtValues]
          /\ \A u \in Visit : at'[u] = "fetching" => on'[u] \in Server
    BY <2>3 DEF Typed, VisitOK, AtValues
  <2>6. fetch' \in [Visit -> [Request -> Fetches]]
    <3>1. NoFetch \in [Request -> Fetches]
      BY SeedHasItems DEF NoFetch, Idle, Fetches
    <3> QED BY <2>3, <3>1 DEF Typed, VisitOK
  <2> QED BY <2>3, <2>4, <2>5, <2>6 DEF Typed, VisitOK
<1>7. ASSUME Boot(v) PROVE VisitOK'
  <2>1. /\ at' \in {[at EXCEPT ![v] = "asking"], [at EXCEPT ![v] = "live"]}
        /\ fetch' = fetch \/ fetch' = [fetch EXCEPT ![v][1] = Asked]
        /\ UNCHANGED <<dates, on, event, items, range, missed>>
    BY <1>7 DEF Boot
  <2>2. at' \in [Visit -> AtValues]
          /\ \A u \in Visit : at'[u] = "fetching" => on'[u] \in Server
    BY <2>1 DEF Typed, VisitOK, AtValues
  <2>3. fetch' \in [Visit -> [Request -> Fetches]]
    <3>1. Asked \in Fetches
      BY SeedHasItems DEF Asked, Fetches
    <3> QED BY <2>1, <3>1 DEF Typed, VisitOK, Request
  <2> QED BY <2>1, <2>2, <2>3 DEF Typed, VisitOK
<1>8. VisitOK'
  BY <1>2, <1>3, <1>4, <1>5, <1>6, <1>7 DEF VisitStep
<1> QED BY <1>1, <1>8 DEF Typed

\* How it begins.
LEMMA InitTyped ==
  ASSUME Init
  PROVE  Typed
<1>1. ServerOK
  <2>1. docs \in 0..N /\ deaths \in 0..MaxDeaths /\ pos \in [Server -> 0..N]
    BY SeedHasItems, TimelineAssumption DEF Init
  <2>2. mongo \in {"off", "fresh", "primer", "up"} /\ primed \in BOOLEAN
          /\ early \subseteq Server
    BY DEF Init
  <2>3. conn \in [Server -> ConnValues] /\ batch \in [Server -> BatchValues]
          /\ sp \in [Server -> SpValues]
    BY DEF Init, ConnValues, BatchValues, SpValues
  <2> QED BY <2>1, <2>2, <2>3 DEF ServerOK
<1>2. VisitOK
  <2>1. NoFetch \in [Request -> Fetches] /\ 0 \in 0..N
    BY SeedHasItems DEF NoFetch, Idle, Fetches
  <2>2. /\ dates \in [Server -> Ranges] /\ range \in [Visit -> Ranges]
        /\ fetch \in [Visit -> [Request -> Fetches]] /\ items \in [Visit -> 0..N]
    BY <2>1 DEF Init, Ranges
  <2>3. /\ at \in [Visit -> AtValues] /\ (\A v \in Visit : at[v] # "fetching")
        /\ on \in [Visit -> Server \union {NoServer}]
        /\ event \in [Visit -> Ids(N) \union {NoEvent}] /\ missed \subseteq Visit
    BY DEF Init, AtValues
  <2> QED BY <2>2, <2>3 DEF VisitOK
<1> QED BY <1>1, <1>2 DEF Typed

\* The types.
THEOREM TimelineTypeOK == Spec => []TypeOK
<1>1. Init => Typed
  BY InitTyped
<1>2. Typed /\ [Next]_vars => Typed'
  <2>1. SUFFICES ASSUME Typed, [Next]_vars PROVE Typed'
    OBVIOUS
  <2>2. CASE UNCHANGED vars
    BY <2>1, <2>2 DEF vars, Typed, ServerOK, VisitOK
  <2> QED BY <2>1, <2>2, ServerTyped, MongoTyped, VisitTyped DEF Next
<1>3. Typed => TypeOK
  BY
    DEF Typed, ServerOK, VisitOK, TypeOK, Ranges, ConnValues, BatchValues,
       SpValues, AtValues, Fetches
<1> QED BY <1>1, <1>2, <1>3, PTL DEF Spec

-----------------------------------------------------------------------------
(* Pages over a whole seed.                                                 *)

\* A server that was not early listens to a whole seed.
ServesWhole == \A s \in Server : sp[s] = "listen" /\ s \notin early => docs = N

\* The dates that such a server has once were those of the whole.
DatesWhole == \A s \in Server : s \notin early => dates[s] \in {NoRange, Range[N]}

\* Nothing is known of a page that nobody has asked for.
Unasked ==
  \A v \in Visit :
    /\ at[v] = "none" => items[v] = 0
    /\ at[v] = "none" <=> on[v] = NoServer

\* What a page of such a server has received is the whole seed, or nothing
\* because a request failed; and one of its requests is for the items.
WholeOrNone(v) ==
  /\ docs = N /\ items[v] \in {0, N}
  /\ \A r \in Request :
       fetch[v][r].state = "answered" => fetch[v][r].items \in {0, N}

Received(v) ==
  /\ at[v] = "fetching" => fetch[v][1].state # "none"
  /\ \A r \in Request :
       /\ fetch[v][r].state = "answered" => fetch[v][r].items = N
       /\ at[v] = "fetching" /\ fetch[v][r].state = "done" => items[v] = N

Good(v) ==
  /\ at[v] \notin {"text", "broken", "asking"}
  /\ at[v] \in {"page", "live"} => items[v] = N /\ range[v] = Range[N]

PageInv(v) ==
  on[v] \in Server \ early =>
    WholeOrNone(v) /\ (v \notin missed => Received(v) /\ Good(v))

PInv ==
  /\ Typed /\ ServesWhole /\ DatesWhole /\ Unasked
  /\ \A v \in Visit : PageInv(v)

\* Every event of the seed can be shown over the whole of it.
LEMMA WholeShows ==
  ASSUME NEW e \in Ids(N) \union {NoEvent}
  PROVE  Shows(e, N)
<1>1. ASSUME e \in Ids(N) PROVE Found(e, N)
  BY <1>1 DEF Ids, Found
<1>2. ASSUME NEW i \in 1..N, NEW a \in Seed[i].associated PROVE Found(a, N)
  BY SeedAssumption DEF Ids, Found
<1> QED BY <1>1, <1>2 DEF Shows, ShowsAssociated

\* Dates once they are those of the whole stay so.
LEMMA FilterWhole ==
  ASSUME NEW d \in {NoRange, Range[N]}
  PROVE  /\ \A k \in {0, N} : Filter(d, k) \in {NoRange, Range[N]}
         /\ Filter(d, N) = Range[N]
BY SeedHasItems DEF Filter

\* A page that a step leaves alone.
LEMMA PageStays ==
  ASSUME NEW u \in Visit, PageInv(u), early \subseteq early', docs = N => docs' = N,
         on'[u] = on[u], at'[u] = at[u], fetch'[u] = fetch[u],
         items'[u] = items[u], range'[u] = range[u], u \in missed' <=> u \in missed
  PROVE  PageInv(u)'
BY DEF PageInv, WholeOrNone, Received, Good

\* What the servers and mongod do does not undo a whole seed, and a server
\* that listens to less is early.
LEMMA SeedStays ==
  ASSUME PInv, Next
  PROVE  /\ early \subseteq early' /\ (docs = N => docs' = N) /\ ServesWhole'
<1>1. /\ early \subseteq Server /\ docs \in 0..N /\ N \in Nat
      /\ sp \in [Server -> SpValues]
  BY SeedHasItems DEF PInv, Typed, ServerOK
<1>2. ASSUME NEW s \in Server, ServerStep(s)
      PROVE  /\ early \subseteq early' /\ docs' = docs /\ ServesWhole'
  <2>1. early \subseteq early' /\ docs' = docs
    BY <1>2 DEF ServerStep, Start, Connect, Count, Listen, InsertMany, Initialized,
       Dies, db
  <2>2. ASSUME NEW from, Listen(s, from) PROVE ServesWhole'
    <3>1. /\ sp'[s] = "listen" /\ \A t \in Server \ {s} : sp'[t] = sp[t]
          /\ docs < N => s \in early'
      BY <1>1, <2>2 DEF Listen, Step
    <3>2. docs = N \/ s \in early'
      BY <1>1, <3>1
    <3> QED BY <2>1, <3>1, <3>2 DEF PInv, ServesWhole
  <2>3. ASSUME NEW to \in SpValues \ {"listen"}, sp' = [sp EXCEPT ![s] = to]
        PROVE  ServesWhole'
    BY <1>1, <2>1, <2>3 DEF PInv, ServesWhole
  <2>4. \/ \E from \in SpValues : Listen(s, from)
        \/ \E to \in SpValues \ {"listen"} : sp' = [sp EXCEPT ![s] = to]
    BY <1>2 DEF ServerStep, Start, Connect, Count, InsertMany, Initialized, Dies,
       Step, SpValues
  <2> QED BY <2>1, <2>2, <2>3, <2>4
<1>3. ASSUME MongoStep
      PROVE  UNCHANGED <<early, sp>> /\ (docs = N => docs' = N)
  <2>1. UNCHANGED <<early, sp>>
    BY <1>3 DEF MongoStep, MongoStarts, CreateUsers, Shutdown, MongoDies, Stop,
       Insert, GivesUp
  <2>2. CASE \E s \in Server : Insert(s)
    <3>1. docs' = docs \/ \E k \in {b \in Breaks : b > docs} : docs' = k
      BY <2>2 DEF Insert
    <3> QED BY <1>1, <2>1, <3>1, TimelineAssumption
  <2>3. CASE ~\E s \in Server : Insert(s)
    BY <1>3, <2>1, <2>3 DEF MongoStep, MongoStarts, CreateUsers, Shutdown,
       MongoDies, Stop, GivesUp, db
  <2> QED BY <2>2, <2>3
<1>4. ASSUME NEW v \in Visit, VisitStep(v) PROVE UNCHANGED <<early, docs, sp>>
  BY <1>4 DEF VisitStep, Get, Click, Find, FindFails, Answer, Receive, Render,
     Rendered, Boot, db
<1>5. ASSUME UNCHANGED <<early, sp>>, docs = N => docs' = N PROVE ServesWhole'
  BY <1>5 DEF PInv, ServesWhole
<1> QED BY <1>1, <1>2, <1>3, <1>4, <1>5 DEF Next

\* A server that dies takes the pages that it renders along.
LEMMA ServerKeepsPages ==
  ASSUME PInv, NEW s \in Server, ServerStep(s)
  PROVE  DatesWhole' /\ Unasked' /\ \A u \in Visit : PageInv(u)'
<1>1. early \subseteq early' /\ (docs = N => docs' = N)
  BY SeedStays DEF Next
<1>2. CASE UNCHANGED <<dates, visit>>
  <2>1. DatesWhole' /\ Unasked'
    BY <1>1, <1>2 DEF PInv, DatesWhole, Unasked, visit
  <2> QED BY <1>1, <1>2, <2>1, PageStays DEF PInv, visit
<1>3. CASE Dies(s)
  <2>1. /\ dates' = [dates EXCEPT ![s] = NoRange] /\ UNCHANGED <<docs, early>>
        /\ UNCHANGED <<on, range, missed>> /\ dates \in [Server -> Ranges]
    BY <1>3 DEF Dies, PInv, Typed, VisitOK, db
  <2>2. DatesWhole'
    BY <2>1 DEF PInv, DatesWhole
  <2>3. ASSUME NEW u \in Visit
        PROVE  /\ PageInv(u)' /\ (at'[u] = "none" <=> at[u] = "none")
               /\ (at'[u] = "none" => items'[u] = items[u])
    <3>1. CASE at[u] = "fetching" /\ on[u] = s
      <4>1. at'[u] = "lost" /\ fetch'[u] = NoFetch /\ items'[u] = 0
        BY <1>3, <3>1 DEF Dies
      <4>2. PageInv(u)'
        BY <2>1, <3>1, <4>1 DEF PInv, PageInv, WholeOrNone, Received, Good, NoFetch,
           Idle
      <4> QED BY <3>1, <4>1, <4>2
    <3>2. CASE ~(at[u] = "fetching" /\ on[u] = s)
      <4>1. at'[u] = at[u] /\ fetch'[u] = fetch[u] /\ items'[u] = items[u]
        BY <1>3, <3>2 DEF Dies
      <4> QED BY <1>1, <2>1, <4>1, PageStays DEF PInv
    <3> QED BY <3>1, <3>2
  <2>4. Unasked'
    BY <2>1, <2>3 DEF PInv, Unasked
  <2> QED BY <2>2, <2>3, <2>4
<1> QED BY <1>2, <1>3 DEF ServerStep, Start, Connect, Count, InsertMany, Initialized

\* A visit that goes on: the other visits stay where they are.
LEMMA VisitKeepsPages ==
  ASSUME PInv, NEW v \in Visit, VisitStep(v)
  PROVE  DatesWhole' /\ Unasked' /\ \A u \in Visit : PageInv(u)'
<1>1. /\ at \in [Visit -> AtValues] /\ on \in [Visit -> Server \union {NoServer}]
      /\ event \in [Visit -> Ids(N) \union {NoEvent}]
      /\ fetch \in [Visit -> [Request -> Fetches]]
      /\ items \in [Visit -> 0..N] /\ range \in [Visit -> Ranges]
      /\ dates \in [Server -> Ranges] /\ docs \in 0..N /\ N > 0 /\ N \in Nat
      /\ at[v] = "fetching" => on[v] \in Server
  BY SeedHasItems DEF PInv, Typed, VisitOK, ServerOK
<1>2. PageInv(v) /\ NoServer \notin Server
  BY DEF PInv, NoServer, Server
<1>3. UNCHANGED <<docs, early, sp>>
  BY DEF VisitStep, Get, Click, Find, FindFails, Answer, Receive, Render, Rendered,
     Boot, db
<1>4. ASSUME NEW u \in Visit \ {v}
      PROVE  /\ at'[u] = at[u] /\ on'[u] = on[u] /\ fetch'[u] = fetch[u]
             /\ items'[u] = items[u] /\ range'[u] = range[u]
             /\ u \in missed' <=> u \in missed
  BY <1>1 DEF VisitStep, Get, Click, Find, FindFails, Answer, Receive, Render,
     Rendered, Boot
<1>5. ASSUME NEW u \in Visit \ {v} PROVE PageInv(u)'
  BY <1>3, <1>4, PageStays DEF PInv
<1>6. ASSUME PageInv(v)', DatesWhole',
             at'[v] = "none" => items'[v] = 0,
             at'[v] = "none" <=> on'[v] = NoServer
      PROVE  DatesWhole' /\ Unasked' /\ \A u \in Visit : PageInv(u)'
  BY <1>4, <1>5, <1>6 DEF PInv, Unasked
<1>7. ASSUME UNCHANGED dates PROVE DatesWhole'
  BY <1>3, <1>7 DEF PInv, DatesWhole
<1>8. /\ at[v] = "none" => items[v] = 0
      /\ at[v] = "none" <=> on[v] = NoServer
  BY DEF PInv, Unasked
<1>9. ASSUME NEW e \in Path, Get(v, e)
      PROVE  DatesWhole' /\ Unasked' /\ \A u \in Visit : PageInv(u)'
  <2>1. PICK s \in Server : sp[s] = "listen" /\ on' = [on EXCEPT ![v] = s]
    BY <1>9 DEF Get, Listening
  <2>2. /\ at[v] = "none" /\ at'[v] = "fetching" /\ on'[v] = s
        /\ \A r \in Request :
             fetch'[v][r] = IF r \in Containers(e) THEN Asked ELSE Idle
        /\ UNCHANGED <<dates, items, range, missed>>
    BY <1>1, <1>9, <2>1 DEF Get
  <2>3. 1 \in Containers(e) /\ 1 \in Request
    BY DEF Containers, Request
  <2>4. s \notin early => docs = N
    BY <2>1 DEF PInv, ServesWhole
  <2>5. items[v] = 0
    BY <1>8, <2>2
  <2>6. PageInv(v)'
    BY <1>3, <2>2, <2>3, <2>4, <2>5
      DEF PageInv, WholeOrNone, Received, Good, Asked, Idle
  <2> QED BY <1>2, <1>6, <1>7, <2>2, <2>6
<1>10. ASSUME NEW e, Click(v, e)
       PROVE  DatesWhole' /\ Unasked' /\ \A u \in Visit : PageInv(u)'
  <2>1. /\ at[v] = "live" /\ Found(e, items[v])
        /\ at'[v] = IF Shows(e, items[v]) THEN "live" ELSE "broken"
        /\ UNCHANGED <<dates, on, fetch, items, range, missed>>
    BY <1>1, <1>10 DEF Click
  <2>2. items[v] = N => at'[v] = "live"
    <3>1. e \in Ids(N)
      BY <1>1, <2>1, FoundInWhole
    <3> QED BY <2>1, <3>1, WholeShows
  <2>3. PageInv(v)'
    BY <1>2, <1>3, <2>1, <2>2 DEF PageInv, WholeOrNone, Received, Good
  <2> QED BY <1>6, <1>7, <1>8, <2>1, <2>3
<1>11. ASSUME NEW r \in Request, Find(v, r) \/ FindFails(v, r)
       PROVE  DatesWhole' /\ Unasked' /\ \A u \in Visit : PageInv(u)'
  <2>1. PICK k \in {0, docs} :
          /\ Answer(v, r, k)
          /\ (k = docs /\ missed' = missed) \/ missed' = missed \union {v}
    BY <1>11 DEF Find, FindFails
  <2>2. /\ fetch' = [fetch EXCEPT ![v][r] = [state |-> "answered", items |-> k]]
        /\ UNCHANGED <<dates, at, on, event, items, range>>
    BY <2>1 DEF Answer
  <2>3. /\ fetch'[v][r] = [state |-> "answered", items |-> k]
        /\ \A q \in Request \ {r} : fetch'[v][q] = fetch[v][q]
    BY <1>1, <2>2
  <2>4. v \notin missed' => k = docs /\ v \notin missed
    BY <2>1
  <2>5. 1 \in Request
    BY DEF Request
  <2>6. ASSUME on[v] \in Server \ early PROVE WholeOrNone(v)'
    <3>1. WholeOrNone(v)
      BY <1>2, <2>6 DEF PageInv
    <3> QED BY <1>3, <2>2, <2>3, <3>1 DEF WholeOrNone
  <2>7. ASSUME on[v] \in Server \ early, v \notin missed'
        PROVE  Received(v)' /\ Good(v)'
    <3>1. WholeOrNone(v) /\ Received(v) /\ Good(v)
      BY <1>2, <2>4, <2>7 DEF PageInv
    <3>2. Received(v)'
      BY <2>2, <2>3, <2>4, <2>5, <2>7, <3>1 DEF WholeOrNone, Received
    <3> QED BY <2>2, <3>1, <3>2 DEF Good
  <2>8. PageInv(v)'
    BY <1>3, <2>2, <2>6, <2>7 DEF PageInv
  <2> QED BY <1>6, <1>7, <1>8, <2>2, <2>8
<1>12. ASSUME NEW r \in Request, Receive(v, r)
       PROVE  DatesWhole' /\ Unasked' /\ \A u \in Visit : PageInv(u)'
  <2>1. /\ fetch[v][r].state = "answered" /\ at[v] \in {"fetching", "asking"}
        /\ items'[v] = fetch[v][r].items /\ UNCHANGED <<dates, on, event, missed>>
    BY <1>1, <1>12 DEF Receive
  <2>2. CASE at[v] = "asking"
    <3>1. at'[v] = "live" /\ fetch'[v] = NoFetch
      BY <1>1, <1>12, <2>2 DEF Receive
    <3>2. PageInv(v)'
      BY <1>2, <1>3, <2>1, <2>2, <3>1
        DEF PageInv, WholeOrNone, Received, Good, NoFetch, Idle
    <3> QED BY <1>6, <1>7, <1>8, <2>1, <2>2, <3>1, <3>2
  <2>3. CASE at[v] = "fetching"
    <3>1. UNCHANGED <<at, range>> /\ fetch'[v] = [fetch[v] EXCEPT ![r] = Done]
      BY <1>1, <1>12, <2>3 DEF Receive
    <3>2. /\ fetch'[v][r] = Done /\ Done.state = "done"
          /\ \A q \in Request \ {r} : fetch'[v][q] = fetch[v][q]
      BY <1>1, <3>1 DEF Done
    <3>3. PageInv(v)'
      BY <1>2, <1>3, <2>1, <2>3, <3>1, <3>2
        DEF PageInv, WholeOrNone, Received, Good
    <3> QED BY <1>6, <1>7, <1>8, <2>1, <2>3, <3>1, <3>3
  <2> QED BY <2>1, <2>2, <2>3
<1>13. ASSUME Render(v)
       PROVE  DatesWhole' /\ Unasked' /\ \A u \in Visit : PageInv(u)'
  <2>1. /\ at[v] = "fetching" /\ Rendered(v)
        /\ \A r \in Request : fetch[v][r].state \in {"none", "done"}
    BY <1>13 DEF Render
  <2> DEFINE d == Filter(dates[on[v]], items[v])
  <2>2. /\ dates' = [dates EXCEPT ![on[v]] = d] /\ fetch'[v] = NoFetch
        /\ \/ Shows(event[v], items[v]) /\ at'[v] = "page" /\ range'[v] = d
           \/ ~Shows(event[v], items[v]) /\ at'[v] = "text"
        /\ UNCHANGED <<on, event, items, missed>>
    BY <1>1, <2>1 DEF Rendered
  <2>3. ASSUME on[v] \notin early
        PROVE  /\ WholeOrNone(v) /\ dates[on[v]] \in {NoRange, Range[N]}
               /\ d \in {NoRange, Range[N]} /\ (items[v] = N => d = Range[N])
    <3>1. on[v] \in Server \ early
      BY <1>1, <2>1, <2>3
    <3>2. WholeOrNone(v) /\ dates[on[v]] \in {NoRange, Range[N]}
      BY <1>2, <3>1 DEF PageInv, PInv, DatesWhole
    <3> QED BY <3>2, FilterWhole DEF WholeOrNone
  <2>4. DatesWhole'
    BY <1>1, <1>3, <2>2, <2>3 DEF PInv, DatesWhole
  <2>5. PageInv(v)'
    <3>1. ASSUME on[v] \in Server \ early, v \notin missed
          PROVE  items[v] = N /\ at'[v] = "page" /\ range'[v] = Range[N]
      <4>1. 1 \in Request /\ Received(v)
        BY <1>2, <3>1 DEF PageInv, Request
      <4>2. fetch[v][1].state = "done"
        BY <2>1, <4>1 DEF Received
      <4>3. items[v] = N
        BY <2>1, <4>1, <4>2 DEF Received
      <4>4. Shows(event[v], N)
        BY <1>1, WholeShows
      <4> QED BY <2>2, <2>3, <3>1, <4>3, <4>4
    <3>2. ASSUME on[v] \in Server \ early PROVE WholeOrNone(v)'
      BY <1>3, <2>2, <2>3, <3>2 DEF WholeOrNone, NoFetch, Idle
    <3>3. Received(v)' <=> at'[v] = "fetching" => FALSE
      BY <2>2 DEF Received, NoFetch, Idle, Request
    <3> QED BY <1>3, <2>2, <3>1, <3>2, <3>3 DEF PageInv, Good
  <2> QED BY <1>6, <1>8, <2>1, <2>2, <2>4, <2>5
<1>14. ASSUME Boot(v)
       PROVE  DatesWhole' /\ Unasked' /\ \A u \in Visit : PageInv(u)'
  <2>1. /\ at[v] = "page" /\ UNCHANGED <<dates, on, event, items, range, missed>>
    BY <1>14 DEF Boot
  <2>2. CASE items[v] = 0
    <3>1. /\ at'[v] = "asking" /\ fetch'[v][1] = Asked
          /\ \A r \in Request \ {1} : fetch'[v][r] = fetch[v][r]
      BY <1>1, <1>14, <2>2 DEF Boot, Request
    <3>2. PageInv(v)'
      <4>1. ASSUME on[v] \in Server \ early PROVE v \in missed
        BY <1>1, <1>2, <2>1, <2>2, <4>1 DEF PageInv, Good
      <4> QED BY <1>2, <1>3, <2>1, <3>1, <4>1 DEF PageInv, WholeOrNone, Asked
    <3> QED BY <1>6, <1>7, <1>8, <2>1, <3>1, <3>2
  <2>3. CASE items[v] # 0
    <3>1. at'[v] = "live" /\ fetch' = fetch
      BY <1>1, <1>14, <2>3 DEF Boot
    <3>2. PageInv(v)'
      BY <1>2, <1>3, <2>1, <3>1 DEF PageInv, WholeOrNone, Received, Good
    <3> QED BY <1>6, <1>7, <1>8, <2>1, <3>1, <3>2
  <2> QED BY <2>2, <2>3
<1> QED BY <1>9, <1>10, <1>11, <1>12, <1>13, <1>14 DEF VisitStep

\* A page of a server that found the seed whole, none of whose requests
\* failed, shows all of it over the dates of all of it, for any seed, however
\* it got into mongod (timelineContainer.js:122-138 and 199-207,
\* timeLineReducer.js:12).
THEOREM PagesAreWhole == Spec => []PageIsWhole
<1>1. Init => PInv
  <2> SUFFICES ASSUME Init PROVE PInv
    OBVIOUS
  <2>1. ServesWhole /\ DatesWhole /\ Unasked
    BY DEF Init, ServesWhole, DatesWhole, Unasked
  <2>2. \A v \in Visit : PageInv(v)
    BY DEF Init, PageInv, NoServer, Server
  <2> QED BY <2>1, <2>2, InitTyped DEF PInv
<1>2. PInv /\ [Next]_vars => PInv'
  <2> SUFFICES ASSUME PInv, [Next]_vars PROVE PInv'
    OBVIOUS
  <2>1. Typed
    BY DEF PInv
  <2>2. CASE UNCHANGED vars
    BY <2>2
      DEF vars, PInv, Typed, ServerOK, VisitOK, ServesWhole, DatesWhole, Unasked,
         PageInv, WholeOrNone, Received, Good
  <2>3. CASE Next
    <3>1. Typed'
      BY <2>1, <2>3, ServerTyped, MongoTyped, VisitTyped DEF Next
    <3>2. ServesWhole' /\ early \subseteq early' /\ (docs = N => docs' = N)
      BY <2>3, SeedStays
    <3>3. CASE MongoStep
      <4>1. UNCHANGED dates /\ UNCHANGED visit
        BY <3>3
          DEF MongoStep, MongoStarts, CreateUsers, Shutdown, MongoDies, Stop,
             Insert, GivesUp
      <4>2. DatesWhole' /\ Unasked'
        BY <3>2, <4>1 DEF PInv, DatesWhole, Unasked, visit
      <4>3. \A u \in Visit : PageInv(u)'
        BY <3>2, <4>1, PageStays DEF PInv, visit
      <4> QED BY <3>1, <3>2, <4>2, <4>3 DEF PInv
    <3>4. CASE \E s \in Server : ServerStep(s)
      BY <3>1, <3>2, <3>4, ServerKeepsPages DEF PInv
    <3>5. CASE \E v \in Visit : VisitStep(v)
      BY <3>1, <3>2, <3>5, VisitKeepsPages DEF PInv
    <3> QED BY <2>3, <3>3, <3>4, <3>5 DEF Next
  <2> QED BY <2>2, <2>3
<1>3. PInv => PageIsWhole
  <2> SUFFICES ASSUME PInv, NEW v \in Visit, on[v] \notin early, v \notin missed
               PROVE  Good(v)
    BY DEF PageIsWhole, Good
  <2>1. CASE on[v] \in Server
    BY <2>1 DEF PInv, PageInv
  <2>2. CASE on[v] = NoServer
    BY <2>2 DEF PInv, Unasked, Good
  <2> QED BY <2>1, <2>2 DEF PInv, Typed, VisitOK
<1> QED BY <1>1, <1>2, <1>3, PTL DEF Spec
-----------------------------------------------------------------------------
(* The safety in the liveness properties: what a server that starts, the     *)
(* seed and a page wait for can come, and only so many steps are left.       *)

\* The guards of the steps of a server, of its batch, of its driver.
ServerCan(s) ==
  \/ sp[s] = "connect"
  \/ sp[s] = "count" /\ conn[s] \in {"open", "closed"}
  \/ sp[s] = "seed" /\ ((conn[s] = "open" /\ Answers) \/ conn[s] = "closed")
  \/ sp[s] = "inserting" /\ batch[s] \in {"done", "duplicate", "lost"}

InsertCan(s) == Answers /\ batch[s] = "running" /\ (pos[s] = docs => docs < N)

GivesUpCan(s) == mongo = "off" /\ conn[s] = "open"

\* A server that starts is not held.
StartGoesOn ==
  \A s \in Server : sp[s] \in {"connect", "count", "seed", "inserting"} =>
    ServerCan(s) \/ InsertCan(s) \/ GivesUpCan(s)

\* Somebody goes on with a seed that was begun, unless mongod has stopped.
SeedGoesOn ==
  0 < docs /\ docs < N =>
    \E s \in Server : batch[s] = "lost" \/ (InsertCan(s) /\ pos[s] = docs)

\* The guards of a request and of a page.
FindCan(v, r) ==
  /\ fetch[v][r].state = "sent" /\ Answers
  /\ \E s \in Server : Asks(v, s) /\ conn[s] = "open"

FindFailsCan(v, r) ==
  /\ fetch[v][r].state = "sent"
  /\ \/ Listening = {}
     \/ \E s \in Server : /\ Asks(v, s)
                          /\ \/ conn[s] = "open" /\ ~Answers
                             \/ conn[s] = "closed"

ReceiveCan(v, r) ==
  fetch[v][r].state = "answered" /\ at[v] \in {"fetching", "asking"}

VisitCan(v) ==
  \/ \E r \in Request : FindCan(v, r) \/ FindFailsCan(v, r) \/ ReceiveCan(v, r)
  \/ /\ at[v] = "fetching"
     /\ \A r \in Request : fetch[v][r].state \in {"none", "done"}
  \/ at[v] = "page"

\* A page is never held, whatever happens to mongod.
VisitGoesOn ==
  \A v \in Visit : at[v] \in {"fetching", "page", "asking"} => VisitCan(v)

\* A server that has counted has asked for a connection.
Linked ==
  \A s \in Server :
    sp[s] \in {"count", "seed", "inserting", "listen", "failed"} => conn[s] # "none"

\* mongod is up while it is at a batch, and has some of it left.
Sending ==
  \A s \in Server :
    /\ batch[s] = "none" => pos[s] = 0 /\ sp[s] # "inserting"
    /\ batch[s] = "running" => Answers /\ pos[s] < N

\* A page has the server it was asked of, or the request that its browser made.
HasServer(v) ==
  /\ at[v] = "fetching" => sp[on[v]] = "listen"
  /\ at[v] = "asking" => fetch[v][1].state \in {"sent", "answered"}

Served == \A v \in Visit : HasServer(v)

GInv == IInv /\ Typed /\ Linked /\ Sending /\ Served /\ SeedGoesOn

\* How many steps a server and its batch can still take, and a page; a
\* connection that is not closed may be, so one that opens counts for a step.
Ahead(p) ==
  CASE p = "off" -> 8 [] p = "connect" -> 7 [] p = "count" -> 5
    [] p = "seed" -> 4 [] p = "inserting" -> 3 [] p = "dead" -> 0 [] OTHER -> 2

BatchLeft(s) ==
  CASE batch[s] = "none" -> N + 1 [] batch[s] = "running" -> N + 1 - pos[s]
    [] OTHER -> 0

ServerLeft(s) ==
  Ahead(sp[s]) + BatchLeft(s) + (IF conn[s] = "closed" THEN 0 ELSE 1)

Asking(p) == CASE p = "sent" -> 2 [] p = "answered" -> 1 [] OTHER -> 0

Showing(p) ==
  CASE p = "none" -> 10 [] p = "fetching" -> 5 [] p = "page" -> 4
    [] p = "asking" -> 1 [] OTHER -> 0

VisitLeft(v) ==
  Showing(at[v]) + Asking(fetch[v][1].state) + Asking(fetch[v][2].state)

ServerWorks(s) == ServerStep(s) \/ Insert(s) \/ GivesUp(s)

VisitWorks(v) ==
  \/ \E e \in Path : Get(v, e)
  \/ \E r \in Request : Find(v, r) \/ FindFails(v, r) \/ Receive(v, r)
  \/ Render(v) \/ Boot(v)

StepsFall ==
  /\ \A s \in Server : /\ ServerLeft(s)' =< ServerLeft(s)
                       /\ ServerWorks(s) => ServerLeft(s)' < ServerLeft(s)
  /\ \A v \in Visit : /\ VisitLeft(v)' =< VisitLeft(v)
                      /\ VisitWorks(v) => VisitLeft(v)' < VisitLeft(v)

\* Visits do not see what a server does before it listens.
LEMMA ServedStays ==
  ASSUME Served, \A s \in Server : sp[s] = "listen" => sp'[s] = "listen",
         Typed, UNCHANGED visit
  PROVE  Served'
BY DEF Served, HasServer, Typed, VisitOK, visit

\* A step that leaves mongod, the batches and the collection as they are.
LEMMA SeedGoesOnStays ==
  ASSUME SeedGoesOn, UNCHANGED <<mongo, docs, pos>>,
         \A s \in Server : batch[s] # "none" => batch'[s] = batch[s]
  PROVE  SeedGoesOn'
BY DEF SeedGoesOn, InsertCan, Answers

\* A step of a server.
LEMMA ServerLinks ==
  ASSUME GInv, NEW s \in Server, ServerStep(s)
  PROVE  Linked' /\ Sending' /\ Served' /\ SeedGoesOn'
<1>1. /\ sp \in [Server -> SpValues] /\ conn \in [Server -> ConnValues]
      /\ batch \in [Server -> BatchValues] /\ pos \in [Server -> 0..N]
  BY DEF GInv, Typed, ServerOK
<1>2. CASE ~Dies(s) /\ ~InsertMany(s)
  <2>1. /\ UNCHANGED <<mongo, docs, pos, batch>> /\ UNCHANGED visit
        /\ \A t \in Server \ {s} : sp'[t] = sp[t] /\ conn'[t] = conn[t]
    BY <1>1, <1>2 DEF ServerStep, Start, Connect, Count, Initialized, Listen, Step, db
  <2>2. /\ sp[s] # "listen" /\ sp'[s] # "inserting"
        /\ \/ sp'[s] \in {"connect", "hung"}
           \/ conn'[s] = "open"
           \/ conn'[s] = conn[s] /\ sp[s] \in {"count", "inserting"}
    BY <1>1, <1>2 DEF ServerStep, Start, Connect, Count, Initialized, Listen, Step
  <2>3. Linked'
    BY <2>1, <2>2 DEF GInv, Linked
  <2>4. Sending'
    BY <2>1, <2>2 DEF GInv, Sending, Answers
  <2>5. Served'
    BY <2>1, <2>2, ServedStays DEF GInv
  <2>6. SeedGoesOn'
    BY <2>1, SeedGoesOnStays DEF GInv
  <2> QED BY <2>3, <2>4, <2>5, <2>6
<1>3. CASE InsertMany(s)
  <2>1. PICK b \in {"running", "lost"} :
          batch' = [batch EXCEPT ![s] = b] /\ (b = "running" => Answers)
    BY <1>3 DEF InsertMany, SendBatch
  <2>2. /\ Step(s, "seed", "inserting")
        /\ UNCHANGED <<mongo, docs, conn, pos>> /\ UNCHANGED visit
    BY <1>3 DEF InsertMany, db
  <2>3. /\ sp[s] = "seed" /\ sp'[s] = "inserting"
        /\ \A t \in Server \ {s} : sp'[t] = sp[t] /\ batch'[t] = batch[t]
        /\ batch'[s] = b
    BY <1>1, <2>1, <2>2 DEF Step
  <2>4. batch[s] = "none"
    BY <2>3 DEF GInv, IInv, Unsent
  <2>5. pos[s] < N
    BY <2>4, SeedHasItems DEF GInv, Sending
  <2>6. Linked'
    BY <2>2, <2>3 DEF GInv, Linked
  <2>7. Sending'
    BY <2>1, <2>2, <2>3, <2>5 DEF GInv, Sending, Answers
  <2>8. Served'
    BY <2>2, <2>3, ServedStays DEF GInv
  <2>9. SeedGoesOn'
    BY <2>2, <2>3, <2>4, SeedGoesOnStays DEF GInv
  <2> QED BY <2>6, <2>7, <2>8, <2>9
<1>4. CASE Dies(s)
  <2>1. /\ UNCHANGED <<mongo, docs, pos, batch>> /\ on' = on
        /\ sp' = [sp EXCEPT ![s] = "dead"] /\ conn' = [conn EXCEPT ![s] = "none"]
    BY <1>4 DEF Dies, db
  <2>2. Linked'
    BY <1>1, <2>1 DEF GInv, Linked
  <2>3. Sending'
    BY <1>1, <2>1 DEF GInv, Sending, Answers
  <2>4. SeedGoesOn'
    BY <2>1, SeedGoesOnStays DEF GInv
  <2>5. ASSUME NEW v \in Visit
        PROVE  /\ at'[v] = "fetching" => sp'[on'[v]] = "listen"
               /\ at'[v] = "asking" => fetch'[v][1].state \in {"sent", "answered"}
    <3>1. CASE at[v] = "fetching" /\ on[v] = s
      BY <1>4, <3>1 DEF Dies
    <3>2. CASE ~(at[v] = "fetching" /\ on[v] = s)
      <4>1. at'[v] = at[v] /\ fetch'[v] = fetch[v]
        BY <1>4, <3>2 DEF Dies
      <4>2. at[v] = "fetching" => on[v] \in Server
        BY DEF GInv, Typed, VisitOK
      <4> QED BY <1>1, <2>1, <3>2, <4>1, <4>2 DEF GInv, Served, HasServer
    <3> QED BY <3>1, <3>2
  <2>6. Served'
    BY <2>5 DEF Served, HasServer
  <2> QED BY <2>2, <2>3, <2>4, <2>6
<1> QED BY <1>2, <1>3, <1>4

\* A batch goes on from where it is, or somebody else has been there.
LEMMA InsertLinks ==
  ASSUME GInv, NEW s \in Server, Insert(s)
  PROVE  Sending' /\ SeedGoesOn'
<1>1. /\ batch \in [Server -> BatchValues] /\ pos \in [Server -> 0..N]
      /\ docs \in 0..N /\ N \in Nat
  BY SeedHasItems DEF GInv, Typed, ServerOK
<1>2. Answers /\ batch[s] = "running" /\ UNCHANGED <<mongo, sp>>
  BY <1>1 DEF Insert
<1>3. CASE pos[s] = docs
  <2>1. PICK k \in {b \in Breaks : b > docs} :
          /\ docs' = k /\ pos' = [pos EXCEPT ![s] = k]
          /\ batch' = IF k = N THEN [batch EXCEPT ![s] = "done"] ELSE batch
    BY <1>3 DEF Insert
  <2>2. k \in 1..N
    BY <2>1, TimelineAssumption
  <2>3. /\ \A t \in Server \ {s} : batch'[t] = batch[t] /\ pos'[t] = pos[t]
        /\ pos'[s] = k /\ batch'[s] = (IF k = N THEN "done" ELSE "running")
    BY <1>1, <1>2, <2>1
  <2>4. Sending'
    BY <1>1, <1>2, <2>2, <2>3 DEF GInv, Sending, Answers
  <2>5. SeedGoesOn'
    BY <1>1, <1>2, <2>1, <2>2, <2>3 DEF SeedGoesOn, InsertCan, Answers
  <2> QED BY <2>4, <2>5
<1>4. CASE pos[s] # docs
  <2>1. batch' = [batch EXCEPT ![s] = "duplicate"] /\ UNCHANGED <<docs, pos>>
    BY <1>4 DEF Insert
  <2>2. Sending'
    BY <1>1, <1>2, <2>1 DEF GInv, Sending, Answers
  <2>3. SeedGoesOn'
    <3>1. SUFFICES ASSUME 0 < docs, docs < N
                   PROVE  \E t \in Server : batch'[t] = "lost"
                            \/ (InsertCan(t)' /\ pos'[t] = docs')
      BY <2>1 DEF SeedGoesOn
    <3>2. PICK t \in Server : batch[t] = "lost" \/ (InsertCan(t) /\ pos[t] = docs)
      BY <3>1 DEF GInv, SeedGoesOn
    <3>3. t # s
      BY <1>2, <1>4, <3>2
    <3>4. batch'[t] = batch[t]
      BY <1>1, <2>1, <3>3
    <3> QED BY <1>2, <2>1, <3>2, <3>4 DEF InsertCan, Answers
  <2> QED BY <2>2, <2>3
<1> QED BY <1>3, <1>4

\* A step of mongod.
LEMMA MongoLinks ==
  ASSUME GInv, MongoStep
  PROVE  Linked' /\ Sending' /\ Served' /\ SeedGoesOn'
<1>1. /\ batch \in [Server -> BatchValues] /\ pos \in [Server -> 0..N]
      /\ conn \in [Server -> ConnValues]
  BY DEF GInv, Typed, ServerOK
<1>2. UNCHANGED sp /\ UNCHANGED visit
  BY DEF MongoStep, MongoStarts, CreateUsers, Shutdown, MongoDies, Stop, Insert,
     GivesUp
<1>3. Served'
  BY <1>2, ServedStays DEF GInv
<1>4. Linked'
  <2>1. \A s \in Server : conn[s] # "none" => conn'[s] # "none"
    BY <1>1 DEF MongoStep, MongoStarts, CreateUsers, Shutdown, MongoDies, Stop,
       Insert, GivesUp
  <2> QED BY <1>2, <2>1 DEF GInv, Linked
<1>5. CASE \E s \in Server : Insert(s)
  BY <1>3, <1>4, <1>5, InsertLinks
<1>6. CASE MongoStarts \/ CreateUsers \/ \E s \in Server : GivesUp(s)
  <2>1. UNCHANGED <<docs, pos, batch>> /\ (Answers => Answers')
    BY <1>6 DEF MongoStarts, CreateUsers, GivesUp, db, Answers
  <2>2. Sending'
    BY <1>2, <2>1 DEF GInv, Sending
  <2>3. SeedGoesOn'
    BY <2>1 DEF GInv, SeedGoesOn, InsertCan
  <2> QED BY <1>3, <1>4, <2>2, <2>3
<1>7. CASE Stop
  <2>1. /\ UNCHANGED <<docs, pos>>
        /\ \A s \in Server : batch'[s] =
             IF batch[s] = "running" THEN "lost" ELSE batch[s]
    BY <1>7 DEF Stop
  <2>2. Sending'
    BY <1>2, <2>1 DEF GInv, Sending
  <2>3. SeedGoesOn'
    BY <2>1 DEF GInv, SeedGoesOn, InsertCan
  <2> QED BY <1>3, <1>4, <2>2, <2>3
<1> QED BY <1>5, <1>6, <1>7 DEF MongoStep, Shutdown, MongoDies

\* A step of a page.
LEMMA VisitLinks ==
  ASSUME GInv, NEW v \in Visit, VisitStep(v)
  PROVE  Linked' /\ Sending' /\ Served' /\ SeedGoesOn'
<1>1. UNCHANGED <<mongo, docs, conn, batch, pos, sp>>
  <2>1. ASSUME NEW e, Get(v, e) \/ Click(v, e)
        PROVE  UNCHANGED <<mongo, docs, conn, batch, pos, sp>>
    BY <2>1 DEF Get, Click, db
  <2>2. ASSUME NEW r, Find(v, r) \/ FindFails(v, r) \/ Receive(v, r)
        PROVE  UNCHANGED <<mongo, docs, conn, batch, pos, sp>>
    BY <2>2 DEF Find, FindFails, Receive, Answer, db
  <2>3. ASSUME Render(v) \/ Boot(v)
        PROVE  UNCHANGED <<mongo, docs, conn, batch, pos, sp>>
    BY <2>3 DEF Render, Rendered, Boot, db
  <2> QED BY <2>1, <2>2, <2>3 DEF VisitStep
<1>2. Linked' /\ Sending'
  BY <1>1 DEF GInv, Linked, Sending, Answers
<1>3. SeedGoesOn'
  BY <1>1, SeedGoesOnStays DEF GInv
<1>4. /\ at \in [Visit -> AtValues] /\ on \in [Visit -> Server \union {NoServer}]
      /\ fetch \in [Visit -> [Request -> Fetches]]
  BY DEF GInv, Typed, VisitOK
<1>5. ASSUME NEW u \in Visit, at'[u] = at[u], on'[u] = on[u], fetch'[u] = fetch[u]
      PROVE  HasServer(u)'
  BY <1>1, <1>5 DEF GInv, Served, HasServer
<1>6. ASSUME NEW e \in Path, Get(v, e) PROVE Served'
  <2>1. PICK s \in Server : sp[s] = "listen" /\ on' = [on EXCEPT ![v] = s]
    BY <1>6 DEF Get, Listening
  <2>2. /\ at' = [at EXCEPT ![v] = "fetching"]
        /\ \A u \in Visit \ {v} : fetch'[u] = fetch[u]
    BY <1>4, <1>6 DEF Get
  <2>3. HasServer(v)'
    BY <1>1, <1>4, <2>1, <2>2 DEF HasServer
  <2> QED BY <1>4, <1>5, <2>1, <2>2, <2>3 DEF Served
<1>7. ASSUME NEW e, Click(v, e) PROVE Served'
  <2>1. UNCHANGED <<on, fetch>> /\ at'[v] \in {"live", "broken"}
          /\ \A u \in Visit \ {v} : at'[u] = at[u]
    BY <1>4, <1>7 DEF Click
  <2>2. HasServer(v)'
    BY <2>1 DEF HasServer
  <2> QED BY <1>5, <2>1, <2>2 DEF Served
<1>8. ASSUME NEW r \in Request, Find(v, r) \/ FindFails(v, r) PROVE Served'
  <2>1. PICK k : fetch' = [fetch EXCEPT ![v][r] = [state |-> "answered", items |-> k]]
          /\ UNCHANGED <<at, on>>
    BY <1>8 DEF Find, FindFails, Answer
  <2>2. \A u \in Visit \ {v} : fetch'[u] = fetch[u]
    BY <1>4, <2>1
  <2>3. fetch'[v] = [fetch[v] EXCEPT ![r] = [state |-> "answered", items |-> k]]
    BY <1>4, <2>1
  <2>4. fetch'[v][1].state \in {"answered", fetch[v][1].state}
    BY <1>4, <2>3 DEF Request
  <2>5. HasServer(v)'
    BY <1>1, <2>1, <2>4 DEF GInv, Served, HasServer
  <2> QED BY <1>5, <2>1, <2>2, <2>5 DEF Served
<1>9. ASSUME NEW r \in Request, Receive(v, r) PROVE Served'
  <2>1. /\ on' = on /\ at[v] \in {"fetching", "asking"}
        /\ at' = IF at[v] = "asking" THEN [at EXCEPT ![v] = "live"] ELSE at
        /\ \A u \in Visit \ {v} : fetch'[u] = fetch[u]
    BY <1>4, <1>9 DEF Receive
  <2>2. at'[v] # "asking" /\ \A u \in Visit \ {v} : at'[u] = at[u]
    BY <1>4, <2>1
  <2>3. at'[v] = "fetching" => at[v] = "fetching"
    BY <1>4, <2>1
  <2>4. HasServer(v)'
    BY <1>1, <2>1, <2>2, <2>3 DEF GInv, Served, HasServer
  <2> QED BY <1>5, <2>1, <2>2, <2>4 DEF Served
<1>10. ASSUME Render(v) \/ Boot(v) PROVE Served'
  <2>1. on' = on /\ \A u \in Visit \ {v} : at'[u] = at[u] /\ fetch'[u] = fetch[u]
    BY <1>4, <1>10 DEF Render, Rendered, Boot
  <2>2. at'[v] # "fetching"
    BY <1>4, <1>10 DEF Render, Rendered, Boot
  <2>3. at'[v] = "asking" => fetch'[v][1].state = "sent"
    BY <1>4, <1>10 DEF Render, Rendered, Boot, Request, Asked
  <2>4. HasServer(v)'
    BY <2>2, <2>3 DEF HasServer
  <2> QED BY <1>5, <2>1, <2>4 DEF Served
<1>11. Served'
  BY <1>6, <1>7, <1>8, <1>9, <1>10 DEF VisitStep
<1> QED BY <1>2, <1>3, <1>11

\* One step.
LEMMA GoesOnKept ==
  ASSUME GInv, Next
  PROVE  GInv'
<1>1. IInv' /\ Typed'
  BY ServerKeeps, MongoKeeps, VisitKeeps, ServerTyped, MongoTyped, VisitTyped
     DEF GInv, Next
<1>2. Linked' /\ Sending' /\ Served' /\ SeedGoesOn'
  BY ServerLinks, MongoLinks, VisitLinks DEF Next
<1> QED BY <1>1, <1>2 DEF GInv

\* What a server, the seed and a page wait for.
LEMMA TimelineGoesOn == Spec => []GInv
<1>1. Init => GInv
  <2> SUFFICES ASSUME Init PROVE GInv
    OBVIOUS
  <2>1. IInv
    BY SeedHasItems DEF Init, IInv, SeedOK, InTurn, Unsent, Sent, Told,
       EarlyListens, OwnSeedIsWhole, SpValues, BatchValues
  <2>2. Linked /\ Sending /\ Served /\ SeedGoesOn
    BY DEF Init, Linked, Sending, Served, HasServer, SeedGoesOn
  <2> QED BY <2>1, <2>2, InitTyped DEF GInv
<1>2. GInv /\ UNCHANGED vars => GInv'
  BY DEF vars, GInv, IInv, SeedOK, InTurn, Unsent, Sent, Told, EarlyListens,
     OwnSeedIsWhole, Typed, ServerOK, VisitOK, Linked, Sending, Answers, Served,
     HasServer, SeedGoesOn, InsertCan
<1> QED BY <1>1, <1>2, GoesOnKept, PTL DEF Spec

\* A server that starts always has a step to take, or mongod has one at its
\* batch, or its driver gives up: but for the error that connectionProvider.js
\* logs (sp is "hung") nothing keeps it from listening
\* (server.js:39-49, initializationTasks.js:13-36).
THEOREM StartIsNotHeld == Spec => []StartGoesOn
<1>1. GInv => StartGoesOn
  <2> SUFFICES ASSUME GInv, NEW s \in Server,
                      sp[s] \in {"connect", "count", "seed", "inserting"}
               PROVE  ServerCan(s) \/ InsertCan(s) \/ GivesUpCan(s)
    BY DEF StartGoesOn
  <2>1. /\ mongo \in {"off", "fresh", "primer", "up"} /\ conn[s] \in ConnValues
        /\ batch[s] \in BatchValues /\ pos[s] \in 0..N /\ docs \in 0..N
    BY DEF GInv, Typed, ServerOK
  <2>2. CASE sp[s] \in {"count", "seed"}
    BY <2>1, <2>2 DEF GInv, Linked, ServerCan, GivesUpCan, Answers, ConnValues
  <2>3. CASE sp[s] = "inserting"
    BY <2>1, <2>3 DEF GInv, Sending, ServerCan, InsertCan, BatchValues
  <2> QED BY <2>2, <2>3 DEF ServerCan
<1> QED BY <1>1, TimelineGoesOn, PTL

\* A seed that was begun is whole, or mongod is at the batch that goes on where
\* it ends, or has stopped during a batch (initializationTasks.js:31).
THEOREM SeedIsNotHeld == Spec => []SeedGoesOn
<1>1. GInv => SeedGoesOn
  BY DEF GInv
<1> QED BY <1>1, TimelineGoesOn, PTL

\* Whatever happens to mongod, a request is answered, with the items or with an
\* error, by the server of the page or in its place: a page never waits for
\* what cannot come (timelineRoutes.js:36-38, timelineApi.js:14-16).
THEOREM PageIsNotHeld == Spec => []VisitGoesOn
<1>1. GInv => VisitGoesOn
  <2> SUFFICES ASSUME GInv, NEW v \in Visit, at[v] \in {"fetching", "page", "asking"}
               PROVE  VisitCan(v)
    BY DEF VisitGoesOn
  <2>1. \A r \in Request :
          fetch[v][r].state \in {"none", "sent", "answered", "done"}
    BY DEF GInv, Typed, VisitOK, Fetches
  <2>2. HasServer(v)
    BY DEF GInv, Served
  <2>3. ASSUME NEW s \in Listening
        PROVE  s \in Server /\ conn[s] \in {"open", "closed"}
    BY DEF GInv, Typed, ServerOK, Linked, Listening, ConnValues
  <2>4. CASE at[v] = "page"
    BY <2>4 DEF VisitCan
  <2>5. ASSUME at[v] # "page", NEW r \in Request, fetch[v][r].state = "sent"
        PROVE  VisitCan(v)
    <3>1. CASE Listening = {}
      BY <2>5, <3>1 DEF VisitCan, FindFailsCan
    <3>2. CASE Listening # {}
      <4>1. PICK s \in Listening : Asks(v, s)
        <5>1. CASE at[v] = "fetching"
          <6>1. on[v] \in Server
            BY <5>1 DEF GInv, Typed, VisitOK
          <6> QED BY <2>2, <5>1, <6>1 DEF HasServer, Asks, Listening
        <5>2. CASE at[v] # "fetching"
          BY <3>2, <5>2 DEF Asks
        <5> QED BY <5>1, <5>2
      <4>2. s \in Server /\ conn[s] \in {"open", "closed"}
        BY <2>3
      <4>3. FindCan(v, r) \/ FindFailsCan(v, r)
        BY <2>5, <4>1, <4>2 DEF FindCan, FindFailsCan
      <4> QED BY <4>3 DEF VisitCan
    <3> QED BY <3>1, <3>2
  <2>6. ASSUME at[v] # "page", NEW r \in Request, fetch[v][r].state = "answered"
        PROVE  VisitCan(v)
    BY <2>6 DEF VisitCan, ReceiveCan
  <2>7. ASSUME at[v] # "page",
               \A r \in Request : fetch[v][r].state \notin {"sent", "answered"}
        PROVE  VisitCan(v)
    BY <2>1, <2>2, <2>7 DEF VisitCan, HasServer, Request
  <2> QED BY <2>4, <2>5, <2>6, <2>7
<1> QED BY <1>1, TimelineGoesOn, PTL

\* They are numbers.
LEMMA LeftIsNat ==
  ASSUME Typed
  PROVE  /\ \A s \in Server : ServerLeft(s) \in Nat /\ BatchLeft(s) \in Nat
         /\ \A v \in Visit : VisitLeft(v) \in Nat
<1>1. ASSUME NEW s \in Server PROVE ServerLeft(s) \in Nat /\ BatchLeft(s) \in Nat
  <2>1. pos[s] \in 0..N /\ N \in Nat
    BY SeedHasItems DEF Typed, ServerOK
  <2>2. BatchLeft(s) \in Nat
    BY <2>1 DEF BatchLeft
  <2>3. Ahead(sp[s]) \in Nat
    BY DEF Ahead
  <2> QED BY <2>2, <2>3 DEF ServerLeft
<1>2. ASSUME NEW v \in Visit PROVE VisitLeft(v) \in Nat
  <2>1. Showing(at[v]) \in Nat
    BY DEF Showing
  <2>2. \A p : Asking(p) \in Nat
    BY DEF Asking
  <2> QED BY <2>1, <2>2 DEF VisitLeft
<1> QED BY <1>1, <1>2

\* Also after a step.
LEMMA LeftLater ==
  ASSUME Typed'
  PROVE  /\ \A s \in Server : ServerLeft(s)' \in Nat
         /\ \A v \in Visit : VisitLeft(v)' \in Nat
<1>1. ASSUME NEW s \in Server PROVE ServerLeft(s)' \in Nat
  <2>1. pos'[s] \in 0..N /\ N \in Nat
    BY SeedHasItems DEF Typed, ServerOK
  <2>2. BatchLeft(s)' \in Nat
    BY <2>1 DEF BatchLeft
  <2>3. Ahead(sp'[s]) \in Nat
    BY DEF Ahead
  <2> QED BY <2>2, <2>3 DEF ServerLeft
<1>2. ASSUME NEW v \in Visit PROVE VisitLeft(v)' \in Nat
  <2>1. Showing(at'[v]) \in Nat /\ \A p : Asking(p) \in Nat
    BY DEF Showing, Asking
  <2> QED BY <2>1 DEF VisitLeft
<1> QED BY <1>1, <1>2

\* A step of a server, of its batch or of its driver.
LEMMA ServerFalls ==
  ASSUME GInv, NEW s \in Server, ServerWorks(s)
  PROVE  ServerLeft(s)' < ServerLeft(s)
<1>1. /\ sp \in [Server -> SpValues] /\ conn \in [Server -> ConnValues]
      /\ batch \in [Server -> BatchValues] /\ pos \in [Server -> 0..N]
      /\ docs \in 0..N /\ N \in Nat
  BY SeedHasItems DEF GInv, Typed, ServerOK
<1>2. BatchLeft(s) \in Nat
  BY LeftIsNat DEF GInv
<1>3. CASE Start(s) \/ Connect(s) \/ Count(s) \/ Initialized(s)
  <2>1. BatchLeft(s)' = BatchLeft(s)
    BY <1>3 DEF Start, Connect, Count, Initialized, db, BatchLeft
  <2>2. /\ sp[s] # "connect" => conn'[s] = conn[s]
        /\ <<sp[s], sp'[s]>> \in {<<"off", "connect">>, <<"connect", "count">>,
             <<"connect", "hung">>, <<"count", "seed">>, <<"count", "listen">>,
             <<"count", "failed">>, <<"inserting", "listen">>,
             <<"inserting", "failed">>}
    BY <1>1, <1>3 DEF Start, Connect, Count, Initialized, Listen, Step
  <2>3. /\ Ahead(sp[s]) \in Nat /\ Ahead(sp'[s]) \in Nat
        /\ Ahead(sp'[s]) < Ahead(sp[s])
        /\ sp[s] = "connect" => Ahead(sp'[s]) + 1 < Ahead(sp[s])
    BY <2>2 DEF Ahead
  <2> QED BY <1>2, <2>1, <2>2, <2>3 DEF ServerLeft
<1>4. CASE InsertMany(s)
  <2>1. Ahead(sp'[s]) = 3 /\ Ahead(sp[s]) = 4 /\ conn'[s] = conn[s] /\ sp[s] = "seed"
    BY <1>1, <1>4 DEF InsertMany, Step, Ahead
  <2>2. batch[s] = "none" /\ pos[s] = 0
    BY <2>1 DEF GInv, IInv, Unsent, Sending
  <2>3. pos'[s] = 0 /\ batch'[s] \in {"running", "lost"}
    BY <1>1, <1>4, <2>2 DEF InsertMany, SendBatch
  <2>4. BatchLeft(s)' =< BatchLeft(s) /\ BatchLeft(s)' \in Nat
    BY <1>1, <2>2, <2>3 DEF BatchLeft
  <2> QED BY <1>2, <2>1, <2>4 DEF ServerLeft
<1>5. CASE Dies(s)
  <2>1. Ahead(sp'[s]) = 0 /\ Ahead(sp[s]) \in 2..8
    BY <1>1, <1>5 DEF Dies, Ahead, SpValues
  <2>2. BatchLeft(s)' = BatchLeft(s)
    BY <1>5 DEF Dies, db, BatchLeft
  <2> QED BY <1>2, <2>1, <2>2 DEF ServerLeft
<1>6. CASE Insert(s)
  <2>1. batch[s] = "running" /\ UNCHANGED <<sp, conn>>
    BY <1>6 DEF Insert
  <2>2. CASE pos[s] = docs
    <3>1. PICK k \in {b \in Breaks : b > docs} :
            /\ pos' = [pos EXCEPT ![s] = k]
            /\ batch' = IF k = N THEN [batch EXCEPT ![s] = "done"] ELSE batch
      BY <1>6, <2>2 DEF Insert
    <3>2. k \in 1..N /\ k > pos[s]
      BY <2>2, <3>1, TimelineAssumption
    <3>3. pos'[s] = k /\ batch'[s] \in {"done", "running"}
      BY <1>1, <2>1, <3>1
    <3>4. BatchLeft(s)' < BatchLeft(s) /\ BatchLeft(s)' \in Nat
      BY <1>1, <2>1, <3>2, <3>3 DEF BatchLeft
    <3>5. Ahead(sp[s]) \in Nat
      BY DEF Ahead
    <3> QED BY <1>2, <2>1, <3>4, <3>5 DEF ServerLeft
  <2>3. CASE pos[s] # docs
    <3>1. batch'[s] = "duplicate"
      BY <1>1, <1>6, <2>3 DEF Insert
    <3>2. BatchLeft(s)' = 0 /\ BatchLeft(s) > 0
      BY <1>1, <2>1, <3>1 DEF BatchLeft
    <3>3. Ahead(sp[s]) \in Nat
      BY DEF Ahead
    <3> QED BY <1>2, <2>1, <3>2, <3>3 DEF ServerLeft
  <2> QED BY <2>2, <2>3
<1>7. CASE GivesUp(s)
  <2>1. conn[s] = "open" /\ conn'[s] = "closed" /\ sp' = sp
    BY <1>1, <1>7 DEF GivesUp
  <2>2. BatchLeft(s)' = BatchLeft(s)
    BY <1>7 DEF GivesUp, BatchLeft
  <2>3. Ahead(sp[s]) \in Nat
    BY DEF Ahead
  <2> QED BY <1>2, <2>1, <2>2, <2>3 DEF ServerLeft
<1> QED BY <1>3, <1>4, <1>5, <1>6, <1>7 DEF ServerWorks, ServerStep

\* What others do to a server.
LEMMA ServerNeverRises ==
  ASSUME GInv, Next, NEW s \in Server
  PROVE  ServerLeft(s)' =< ServerLeft(s)
<1>1. /\ sp \in [Server -> SpValues] /\ conn \in [Server -> ConnValues]
      /\ batch \in [Server -> BatchValues] /\ pos \in [Server -> 0..N]
      /\ N \in Nat
  BY SeedHasItems DEF GInv, Typed, ServerOK
<1>2. ServerLeft(s) \in Nat /\ BatchLeft(s) \in Nat
  BY LeftIsNat DEF GInv
<1>3. ASSUME UNCHANGED <<sp[s], conn[s], batch[s], pos[s]>>
      PROVE  ServerLeft(s)' =< ServerLeft(s)
  <2>1. ServerLeft(s)' = ServerLeft(s)
    BY <1>3 DEF ServerLeft, BatchLeft
  <2> QED BY <1>2, <2>1
<1>4. CASE ServerWorks(s)
  <2>1. GInv'
    BY GoesOnKept
  <2>2. ServerLeft(s)' \in Nat
    BY <2>1, LeftLater DEF GInv
  <2> QED BY <1>2, <1>4, <2>2, ServerFalls
<1>5. ASSUME NEW t \in Server \ {s}, ServerWorks(t)
      PROVE  UNCHANGED <<sp[s], conn[s], batch[s], pos[s]>>
  <2>1. CASE ServerStep(t)
    BY <1>1, <1>5, <2>1 DEF ServerStep, Start, Connect, Count, Listen, InsertMany,
       SendBatch, Initialized, Dies, Step
  <2>2. CASE Insert(t)
    BY <1>1, <1>5, <2>2 DEF Insert
  <2>3. CASE GivesUp(t)
    BY <1>1, <1>5, <2>3 DEF GivesUp
  <2> QED BY <1>5, <2>1, <2>2, <2>3 DEF ServerWorks
<1>6. CASE MongoStarts \/ CreateUsers
  BY <1>3, <1>6 DEF MongoStarts, CreateUsers
<1>7. CASE Stop
  <2>1. UNCHANGED <<sp, conn, pos>>
          /\ batch'[s] = IF batch[s] = "running" THEN "lost" ELSE batch[s]
    BY <1>7 DEF Stop
  <2>2. BatchLeft(s)' =< BatchLeft(s) /\ BatchLeft(s)' \in Nat
    BY <1>1, <1>2, <2>1 DEF BatchLeft
  <2>3. Ahead(sp[s]) \in Nat
    BY DEF Ahead
  <2> QED BY <1>2, <2>1, <2>2, <2>3 DEF ServerLeft
<1>8. ASSUME NEW v \in Visit, VisitStep(v)
      PROVE  UNCHANGED <<sp, conn, batch, pos>>
  <2>1. ASSUME NEW e, Get(v, e) \/ Click(v, e)
        PROVE  UNCHANGED <<sp, conn, batch, pos>>
    BY <2>1 DEF Get, Click
  <2>2. ASSUME NEW r, Find(v, r) \/ FindFails(v, r) \/ Receive(v, r)
        PROVE  UNCHANGED <<sp, conn, batch, pos>>
    BY <2>2 DEF Find, FindFails, Receive, Answer
  <2>3. ASSUME Render(v) \/ Boot(v)
        PROVE  UNCHANGED <<sp, conn, batch, pos>>
    BY <2>3 DEF Render, Rendered, Boot
  <2> QED BY <1>8, <2>1, <2>2, <2>3 DEF VisitStep
<1>9. CASE \E v \in Visit : VisitStep(v)
  BY <1>3, <1>8, <1>9
<1>10. CASE \E t \in Server : ServerWorks(t)
  BY <1>3, <1>4, <1>5, <1>10
<1> QED BY <1>6, <1>7, <1>9, <1>10
        DEF Next, MongoStep, Shutdown, MongoDies, ServerWorks

\* A step of a page.
LEMMA VisitFalls ==
  ASSUME Typed, NEW v \in Visit, VisitWorks(v)
  PROVE  VisitLeft(v)' < VisitLeft(v)
<1>1. /\ at \in [Visit -> AtValues] /\ fetch \in [Visit -> [Request -> Fetches]]
  BY DEF Typed, VisitOK
<1>2. \A p : Asking(p) \in 0..2
  BY DEF Asking
<1>3. ASSUME NEW e \in Path, Get(v, e) PROVE VisitLeft(v)' < VisitLeft(v)
  <2>1. Showing(at[v]) = 10 /\ Showing(at'[v]) = 5
    BY <1>1, <1>3 DEF Get, Showing
  <2> QED BY <1>2, <2>1 DEF VisitLeft
<1>4. ASSUME NEW r \in Request, NEW f, fetch' = [fetch EXCEPT ![v][r] = f]
      PROVE  /\ fetch'[v][r] = f
             /\ \A q \in Request \ {r} : fetch'[v][q] = fetch[v][q]
  BY <1>1, <1>4
<1>5. ASSUME NEW r \in Request, Find(v, r) \/ FindFails(v, r)
      PROVE  VisitLeft(v)' < VisitLeft(v)
  <2>1. PICK k : fetch' = [fetch EXCEPT ![v][r] = [state |-> "answered", items |-> k]]
          /\ at' = at /\ fetch[v][r].state = "sent"
    BY <1>5 DEF Find, FindFails, Answer
  <2>2. /\ fetch'[v][r] = [state |-> "answered", items |-> k]
        /\ \A q \in Request \ {r} : fetch'[v][q] = fetch[v][q]
    BY <1>1, <2>1
  <2>3. fetch'[v][r].state = "answered"
    BY <2>2
  <2>4. Asking("sent") = 2 /\ Asking("answered") = 1 /\ Showing(at[v]) \in Nat
    BY DEF Asking, Showing
  <2> QED BY <1>2, <2>1, <2>2, <2>3, <2>4 DEF VisitLeft, Request
<1>6. ASSUME NEW r \in Request, Receive(v, r)
      PROVE  VisitLeft(v)' < VisitLeft(v)
  <2>1. /\ fetch[v][r].state = "answered" /\ at[v] \in {"fetching", "asking"}
        /\ fetch' = [fetch EXCEPT ![v] = IF at[v] = "asking" THEN NoFetch
                                        ELSE [fetch[v] EXCEPT ![r] = Done]]
        /\ at' = IF at[v] = "asking" THEN [at EXCEPT ![v] = "live"] ELSE at
    BY <1>6 DEF Receive
  <2>2. /\ Asking("answered") = 1 /\ Asking("none") = 0 /\ Asking("done") = 0
        /\ Showing(at[v]) \in Nat /\ Showing("asking") = 1 /\ Showing("live") = 0
    BY DEF Asking, Showing
  <2>3. CASE at[v] = "asking"
    <3>1. at'[v] = "live" /\ fetch'[v] = NoFetch
      BY <1>1, <2>1, <2>3
    <3>2. fetch'[v][1].state = "none" /\ fetch'[v][2].state = "none"
      BY <3>1 DEF NoFetch, Idle, Request
    <3> QED BY <1>2, <2>2, <2>3, <3>1, <3>2 DEF VisitLeft
  <2>4. CASE at[v] # "asking"
    <3>1. at'[v] = at[v] /\ fetch'[v] = [fetch[v] EXCEPT ![r] = Done]
      BY <1>1, <2>1, <2>4
    <3>2. fetch'[v][r].state = "done"
            /\ \A q \in Request \ {r} : fetch'[v][q] = fetch[v][q]
      BY <1>1, <3>1 DEF Done
    <3> QED BY <1>2, <2>1, <2>2, <3>1, <3>2 DEF VisitLeft, Request
  <2> QED BY <2>3, <2>4
<1>7. CASE Render(v)
  <2>1. at[v] = "fetching" /\ at'[v] \in {"page", "text"} /\ fetch'[v] = NoFetch
    BY <1>1, <1>7 DEF Render, Rendered
  <2>2. fetch'[v][1].state = "none" /\ fetch'[v][2].state = "none"
    BY <2>1 DEF NoFetch, Idle, Request
  <2>3. Asking("none") = 0 /\ Showing("fetching") = 5 /\ Showing(at'[v]) =< 4
          /\ Showing(at'[v]) \in Nat
    BY <2>1 DEF Asking, Showing
  <2> QED BY <1>2, <2>1, <2>2, <2>3 DEF VisitLeft
<1>8. CASE Boot(v)
  <2>1. Showing("page") = 4 /\ Showing("asking") = 1 /\ Showing("live") = 0
    BY DEF Showing
  <2>2. CASE items[v] = 0
    <3>1. at'[v] = "asking" /\ fetch' = [fetch EXCEPT ![v][1] = Asked] /\ at[v] = "page"
      BY <1>1, <1>8, <2>2 DEF Boot
    <3>2. fetch'[v][2] = fetch[v][2]
      BY <1>4, <3>1 DEF Request
    <3> QED BY <1>2, <2>1, <3>1, <3>2 DEF VisitLeft
  <2>3. CASE items[v] # 0
    <3>1. at'[v] = "live" /\ fetch' = fetch /\ at[v] = "page"
      BY <1>1, <1>8, <2>3 DEF Boot
    <3> QED BY <1>2, <2>1, <3>1 DEF VisitLeft
  <2> QED BY <2>2, <2>3
<1> QED BY <1>3, <1>5, <1>6, <1>7, <1>8 DEF VisitWorks

\* What others do to a page, and what a click does.
LEMMA VisitNeverRises ==
  ASSUME GInv, Next, NEW v \in Visit
  PROVE  VisitLeft(v)' =< VisitLeft(v)
<1>1. /\ at \in [Visit -> AtValues] /\ fetch \in [Visit -> [Request -> Fetches]]
  BY DEF GInv, Typed, VisitOK
<1>2. VisitLeft(v) \in Nat
  BY LeftIsNat DEF GInv
<1>3. ASSUME UNCHANGED <<at[v], fetch[v]>> PROVE VisitLeft(v)' =< VisitLeft(v)
  <2>1. VisitLeft(v)' = VisitLeft(v)
    BY <1>3 DEF VisitLeft
  <2> QED BY <1>2, <2>1
<1>4. CASE VisitWorks(v)
  <2>1. GInv'
    BY GoesOnKept
  <2>2. VisitLeft(v)' \in Nat
    BY <2>1, LeftLater DEF GInv
  <2> QED BY <1>2, <1>4, <2>2, VisitFalls DEF GInv
<1>5. ASSUME NEW u \in Visit \ {v}, VisitStep(u)
      PROVE  UNCHANGED <<at[v], fetch[v]>>
  <2>1. ASSUME NEW e, Get(u, e) \/ Click(u, e)
        PROVE  UNCHANGED <<at[v], fetch[v]>>
    BY <1>1, <1>5, <2>1 DEF Get, Click
  <2>2. ASSUME NEW r, Find(u, r) \/ FindFails(u, r) \/ Receive(u, r)
        PROVE  UNCHANGED <<at[v], fetch[v]>>
    BY <1>1, <1>5, <2>2 DEF Find, FindFails, Receive, Answer
  <2>3. ASSUME Render(u) \/ Boot(u)
        PROVE  UNCHANGED <<at[v], fetch[v]>>
    BY <1>1, <1>5, <2>3 DEF Render, Rendered, Boot
  <2> QED BY <1>5, <2>1, <2>2, <2>3 DEF VisitStep
<1>6. ASSUME NEW e, Click(v, e) PROVE VisitLeft(v)' =< VisitLeft(v)
  <2>1. fetch' = fetch /\ at[v] = "live" /\ at'[v] \in {"live", "broken"}
    BY <1>1, <1>6 DEF Click
  <2>2. Showing(at'[v]) = Showing(at[v])
    BY <2>1 DEF Showing
  <2>3. VisitLeft(v)' = VisitLeft(v)
    BY <2>1, <2>2 DEF VisitLeft
  <2> QED BY <1>2, <2>3
<1>7. ASSUME NEW s \in Server, Dies(s) PROVE VisitLeft(v)' =< VisitLeft(v)
  <2>1. CASE at[v] = "fetching" /\ on[v] = s
    <3>1. at'[v] = "lost" /\ fetch'[v] = NoFetch
      BY <1>7, <2>1 DEF Dies
    <3>2. fetch'[v][1].state = "none" /\ fetch'[v][2].state = "none"
      BY <3>1 DEF NoFetch, Idle, Request
    <3>3. VisitLeft(v)' = 0
      BY <3>1, <3>2 DEF VisitLeft, Showing, Asking
    <3> QED BY <1>2, <3>3
  <2>2. CASE ~(at[v] = "fetching" /\ on[v] = s)
    BY <1>3, <1>7, <2>2 DEF Dies
  <2> QED BY <2>1, <2>2
<1>8. ASSUME UNCHANGED visit PROVE VisitLeft(v)' =< VisitLeft(v)
  BY <1>3, <1>8 DEF visit
<1>9. CASE MongoStep
  BY <1>8, <1>9 DEF MongoStep, MongoStarts, CreateUsers, Shutdown, MongoDies, Stop,
     Insert, GivesUp
<1>10. ASSUME NEW s \in Server, ServerStep(s) PROVE VisitLeft(v)' =< VisitLeft(v)
  BY <1>7, <1>8, <1>10 DEF ServerStep, Start, Connect, Count, InsertMany, Initialized
<1>11. ASSUME VisitStep(v) PROVE VisitLeft(v)' =< VisitLeft(v)
  BY <1>4, <1>6, <1>11 DEF VisitStep, VisitWorks
<1> QED BY <1>3, <1>5, <1>9, <1>10, <1>11 DEF Next

\* Every step of a server, of its batch and of its driver, and every step of a
\* page but a click, lowers a natural number that nothing else raises: a start,
\* a seed and a page take only so many steps (initializationTasks.js:13-36,
\* wildcardRoute.js:60-76).
THEOREM TimelineRunsDown == Spec => [][StepsFall]_vars
<1>1. GInv /\ [Next]_vars => [StepsFall]_vars
  <2> SUFFICES ASSUME GInv, Next PROVE StepsFall
    OBVIOUS
  <2> QED BY ServerFalls, ServerNeverRises, VisitFalls, VisitNeverRises
          DEF GInv, StepsFall
<1> QED BY <1>1, TimelineGoesOn, PTL DEF Spec
=============================================================================
