------------------------------ MODULE Timeline ------------------------------
(***************************************************************************)
(* The timeline demo of docker-for-devs: node servers that seed a          *)
(* collection of mongo and then serve it, and the pages that browsers get  *)
(* of them.                                                                *)
(*                                                                         *)
(* A server connects, counts the collection, inserts the seed if it is     *)
(* empty and only then listens.  mongod inserts the documents of one       *)
(* command in order, in one or more steps, whether the server that sent it *)
(* lives or not, and stops at the first _id it has already: so what it     *)
(* holds is always a first part of Seed, and docs is its length.  The      *)
(* containers start in any order (docker-compose.yml has no depends_on),   *)
(* and the container of mongo, the first time, starts mongod twice: to add *)
(* the users, then for good.                                               *)
(*                                                                         *)
(* A page is rendered by the server: its components fetch the items from   *)
(* the server's own API into a redux store, which goes into the page and   *)
(* starts the store of the browser.  A list of items is its length too.    *)
(***************************************************************************)
EXTENDS Integers, Sequences, FiniteSets

CONSTANTS
  Seed,          \* the items to insert: _id, dates and timelineEvents of each
  Starts,        \* how often node server/server.js is started
  Visit,         \* the pages that are asked for
  Path,          \* the events they are of and the links clicked there,
                 \* NoEvent for the page at /
  Breaks,        \* how much of Seed a batch may leave in mongod
  MaxDeaths      \* bound on the stops of mongod after its first start for good

Server == 1..Starts  \* the processes in the order they start
NoServer == 0
NoEvent == 0

N == Len(Seed)
Ids(k) == {Seed[i].id : i \in 1..k}

\* Item i refers to items of the seed alone, and no other has its _id.
ASSUME SeedAssumption ==
  /\ N \in Nat \ {0}
  /\ \A i \in 1..N :
       /\ Seed[i].start \in Int /\ Seed[i].end \in Int
       /\ Seed[i].associated \subseteq Ids(N)
       /\ \A j \in 1..N : Seed[i].id = Seed[j].id => i = j

ASSUME TimelineAssumption ==
  /\ Starts \in Nat /\ MaxDeaths \in Nat
  /\ Path \subseteq Ids(N) \union {NoEvent}
  /\ Breaks \subseteq 1..N /\ N \in Breaks

\* getTimelineEvent finds events among the items of a page, the first k.
Found(id, k) == \E i \in 1..k : Seed[i].id = id

\* AssociatedEvents looks at the group of each: one not found throws.
ShowsAssociated(event, k) ==
  \A i \in 1..k : Seed[i].id = event => \A a \in Seed[i].associated : Found(a, k)

\* TimelineEventDetails maps the details of the event, and throws if there
\* is none.
Shows(event, k) ==
  event # NoEvent => Found(event, k) /\ ShowsAssociated(event, k)

\* getMinimumDate and getMaximumDate of the first k items.
Range == [k \in 1..N |->
  [start |-> CHOOSE d \in {Seed[i].start : i \in 1..k} :
               \A i \in 1..k : d <= Seed[i].start,
   end   |-> CHOOSE d \in {Seed[i].end : i \in 1..k} :
               \A i \in 1..k : d >= Seed[i].end]]
\* The filterCriteria of initialState.
NoRange == [start |-> 0, end |-> 0]

VARIABLES
  mongo, primed, \* mongod, and whether its users were added (no /.runonce)
  docs,          \* the part of Seed it holds
  deaths,
  conn,          \* _internalConnectionPool of each server
  batch, pos,    \* its insertMany in mongod, and how far that is
  sp,            \* where it is
  dates,         \* the one filterCriteria of initialState, which all stores
                 \* of a server share
  at, on, event, \* where a visit is, its server, the event it shows
  fetch,         \* its requests to the API
  items, range,  \* the timelineItems and filterCriteria of its store
  early,         \* history: the servers that listened before Seed was whole
  missed         \* history: the visits with a request that failed

db == <<mongo, primed, docs, deaths>>
visit == <<at, on, event, fetch, items, range, missed>>
vars == <<mongo, primed, docs, deaths, conn, batch, pos, sp, dates,
          at, on, event, fetch, items, range, early, missed>>

Request == 1..2
Idle == [state |-> "none", items |-> 0]
Asked == [state |-> "sent", items |-> 0]
Done == [state |-> "done", items |-> 0]
NoFetch == [r \in Request |-> Idle]

Init ==
  /\ primed \in BOOLEAN /\ mongo \in IF primed THEN {"off", "up"} ELSE {"off"}
  /\ docs = 0 /\ deaths = 0
  /\ conn = [s \in Server |-> "none"]
  /\ batch = [s \in Server |-> "none"] /\ pos = [s \in Server |-> 0]
  /\ sp = [s \in Server |-> "off"] /\ dates = [s \in Server |-> NoRange]
  /\ at = [v \in Visit |-> "none"] /\ on = [v \in Visit |-> NoServer]
  /\ event = [v \in Visit |-> NoEvent]
  /\ fetch = [v \in Visit |-> NoFetch]
  /\ items = [v \in Visit |-> 0] /\ range = [v \in Visit |-> NoRange]
  /\ early = {} /\ missed = {}

Answers == mongo # "off"
Listening == {s \in Server : sp[s] = "listen"}

-----------------------------------------------------------------------------
(* A server starts.                                                         *)

Step(s, from, to) == sp[s] = from /\ sp' = [sp EXCEPT ![s] = to]

\* The server is up for requests.
Listen(s, from) ==
  /\ Step(s, from, "listen")
  /\ early' = IF docs < N THEN early \union {s} ELSE early

\* npm start runs one server, and the next when it is gone.
Start(s) ==
  /\ \A t \in 1..s - 1 : sp[t] = "dead"
  /\ Step(s, "off", "connect")
  /\ UNCHANGED <<db, conn, batch, pos, dates, visit, early>>

\* Mutant: nobody is told of the open connection.
ConnectUntold(s) ==
  /\ mongo \notin {"primer", "up"} /\ Step(s, "connect", "hung")
  /\ UNCHANGED <<db, conn, batch, pos, dates, visit, early>>

\* connectionProvider settles its promise on "open" only: an error, of the
\* network or of a user that is not added yet, is logged and nothing else.
Connect(s) ==
  /\ IF mongo \in {"primer", "up"}
     THEN Step(s, "connect", "count") /\ conn' = [conn EXCEPT ![s] = "open"]
     ELSE Step(s, "connect", "hung") /\ UNCHANGED conn
  /\ UNCHANGED <<db, batch, pos, dates, visit, early>>

\* The driver keeps a request while mongod is off, until it gives up; a count
\* that was with mongod when it stopped is an error.
Count(s) ==
  /\ \/ /\ conn[s] = "open" /\ Answers /\ docs = 0 /\ Step(s, "count", "seed")
        /\ UNCHANGED early
     \/ conn[s] = "open" /\ Answers /\ docs > 0 /\ Listen(s, "count")
     \/ /\ conn[s] = "closed" \/ (conn[s] = "open" /\ ~Answers)
        /\ Step(s, "count", "failed") /\ UNCHANGED early
  /\ UNCHANGED <<db, conn, batch, pos, dates, visit>>

SendBatch(s) ==
  \/ /\ conn[s] = "open" /\ Answers
     /\ batch' = [batch EXCEPT ![s] = "running"]
  \/ /\ conn[s] = "closed"
     /\ batch' = [batch EXCEPT ![s] = "lost"]

\* Mutant: insertMany is not awaited.
InsertManyUnawaited(s) ==
  /\ Listen(s, "seed") /\ SendBatch(s)
  /\ UNCHANGED <<db, conn, pos, dates, visit>>

InsertMany(s) ==
  /\ Step(s, "seed", "inserting") /\ SendBatch(s)
  /\ UNCHANGED <<db, conn, pos, dates, visit, early>>

\* initialize resolves, or its error is logged and nothing listens.
Initialized(s) ==
  /\ \/ batch[s] = "done" /\ Listen(s, "inserting")
     \/ /\ batch[s] \in {"duplicate", "lost"} /\ Step(s, "inserting", "failed")
        /\ UNCHANGED early
  /\ UNCHANGED <<db, conn, batch, pos, dates, visit>>

\* nodemon restarts it or its container stops: what it holds is gone, the
\* pages that it renders too.
Dies(s) ==
  LET cut == {v \in Visit : at[v] = "fetching" /\ on[v] = s}
  IN /\ sp[s] \notin {"off", "dead"} /\ sp' = [sp EXCEPT ![s] = "dead"]
     /\ conn' = [conn EXCEPT ![s] = "none"]
     /\ dates' = [dates EXCEPT ![s] = NoRange]
     /\ at' = [v \in Visit |-> IF v \in cut THEN "lost" ELSE at[v]]
     /\ fetch' = [v \in Visit |-> IF v \in cut THEN NoFetch ELSE fetch[v]]
     /\ items' = [v \in Visit |-> IF v \in cut THEN 0 ELSE items[v]]
     /\ UNCHANGED <<db, batch, pos, early, on, event, range, missed>>

-----------------------------------------------------------------------------
(* mongod.                                                                  *)

\* Mutant: the server sends the documents one by one.
InsertWhileAlive(s) ==
  /\ Answers /\ batch[s] = "running" /\ sp[s] # "dead"
  /\ IF pos[s] = docs
     THEN \E k \in {b \in Breaks : b > docs} :
            /\ docs' = k /\ pos' = [pos EXCEPT ![s] = k]
            /\ batch' = IF k = N THEN [batch EXCEPT ![s] = "done"] ELSE batch
     ELSE /\ batch' = [batch EXCEPT ![s] = "duplicate"]
          /\ UNCHANGED <<docs, pos>>
  /\ UNCHANGED <<mongo, primed, deaths, conn, sp, dates, visit, early>>

Insert(s) ==
  /\ Answers /\ batch[s] = "running"
  /\ IF pos[s] = docs
     THEN \E k \in {b \in Breaks : b > docs} :
            /\ docs' = k /\ pos' = [pos EXCEPT ![s] = k]
            /\ batch' = IF k = N THEN [batch EXCEPT ![s] = "done"] ELSE batch
     ELSE /\ batch' = [batch EXCEPT ![s] = "duplicate"]
          /\ UNCHANGED <<docs, pos>>
  /\ UNCHANGED <<mongo, primed, deaths, conn, sp, dates, visit, early>>

\* start.sh
MongoStarts ==
  /\ mongo = "off" /\ mongo' = IF primed THEN "up" ELSE "fresh"
  /\ UNCHANGED <<primed, docs, deaths, conn, batch, pos, sp, dates, visit, early>>

\* primer.sh: the users of the two roles.
CreateUsers ==
  /\ mongo = "fresh" /\ mongo' = "primer"
  /\ UNCHANGED <<primed, docs, deaths, conn, batch, pos, sp, dates, visit, early>>

\* A batch that mongod is at ends where it is.
Stop ==
  /\ mongo' = "off"
  /\ batch' = [s \in Server |->
                 IF batch[s] = "running" THEN "lost" ELSE batch[s]]
  /\ UNCHANGED <<docs, conn, pos, sp, dates, visit, early>>

\* primer.sh: mongod --shutdown, and no second time.
Shutdown == mongo = "primer" /\ primed' = TRUE /\ Stop /\ UNCHANGED deaths

MongoDies ==
  /\ mongo = "up" /\ deaths < MaxDeaths /\ deaths' = deaths + 1
  /\ Stop /\ UNCHANGED primed

\* The driver has tried to reconnect for long enough.
GivesUp(s) ==
  /\ mongo = "off" /\ conn[s] = "open" /\ conn' = [conn EXCEPT ![s] = "closed"]
  /\ UNCHANGED <<db, batch, pos, sp, dates, visit, early>>

-----------------------------------------------------------------------------
(* A page.                                                                  *)

\* The route /timeline/:event has two TimelineContainers.
Containers(e) == IF e = NoEvent THEN {1} ELSE Request

\* fetchComponentState: getTimelineItems for every TimelineContainer.
Get(v, e) ==
  /\ at[v] = "none"
  /\ \E s \in Listening : on' = [on EXCEPT ![v] = s]
  /\ at' = [at EXCEPT ![v] = "fetching"] /\ event' = [event EXCEPT ![v] = e]
  /\ fetch' = [fetch EXCEPT ![v] =
                 [r \in Request |-> IF r \in Containers(e) THEN Asked ELSE Idle]]
  /\ UNCHANGED <<db, conn, batch, pos, sp, dates, early, items, range, missed>>

\* The server that has the API request of a visit.
Asks(v, s) ==
  s \in Listening /\ (at[v] = "fetching" => s = on[v])

Answer(v, r, k) ==
  /\ fetch' = [fetch EXCEPT ![v][r] = [state |-> "answered", items |-> k]]
  /\ UNCHANGED <<db, conn, batch, pos, sp, dates, early,
                 at, on, event, items, range>>

\* The route handler uses the connection of the pool, whatever its user.
Find(v, r) ==
  /\ fetch[v][r].state = "sent"
  /\ \E s \in Server : Asks(v, s) /\ conn[s] = "open"
  /\ Answers
  /\ Answer(v, r, docs) /\ UNCHANGED missed

\* Mutant: the handler does not answer an error.
FindFailsSilently(v, r) ==
  /\ fetch[v][r].state = "sent" /\ Listening = {}
  /\ Answer(v, r, 0) /\ missed' = missed \union {v}

\* A request that was with mongod when it stopped, one over a closed
\* connection, or one that nobody listens for: timelineApi makes it [].
FindFails(v, r) ==
  /\ fetch[v][r].state = "sent"
  /\ \/ Listening = {}
     \/ \E s \in Server : /\ Asks(v, s)
                          /\ \/ conn[s] = "open" /\ ~Answers
                             \/ conn[s] = "closed"
  /\ Answer(v, r, 0) /\ missed' = missed \union {v}

\* mapStateToProps: the dates of a filterCriteria d with k items beside it.
Filter(d, k) == IF d = NoRange /\ k > 0 THEN Range[k] ELSE d

\* TIMELINEITEMS_RECEIVED: the list replaces the one in the store, whichever
\* request it answers.
Receive(v, r) ==
  /\ fetch[v][r].state = "answered" /\ at[v] \in {"fetching", "asking"}
  /\ fetch' = [fetch EXCEPT ![v] = IF at[v] = "asking" THEN NoFetch
                                  ELSE [fetch[v] EXCEPT ![r] = Done]]
  /\ items' = [items EXCEPT ![v] = fetch[v][r].items]
  /\ IF at[v] = "asking"
     THEN /\ at' = [at EXCEPT ![v] = "live"]
          /\ range' = [range EXCEPT ![v] = Filter(range[v], fetch[v][r].items)]
     ELSE UNCHANGED <<at, range>>
  /\ UNCHANGED <<db, conn, batch, pos, sp, dates, early, on, event, missed>>

\* renderView, or the text of what it throws.
Rendered(v) ==
  LET s == on[v]
      d == Filter(dates[s], items[v])
  IN /\ dates' = [dates EXCEPT ![s] = d]
     /\ IF Shows(event[v], items[v])
        THEN at' = [at EXCEPT ![v] = "page"] /\ range' = [range EXCEPT ![v] = d]
        ELSE at' = [at EXCEPT ![v] = "text"] /\ UNCHANGED range
     /\ fetch' = [fetch EXCEPT ![v] = NoFetch]
     /\ UNCHANGED <<db, conn, batch, pos, sp, early, on, event, items, missed>>

\* Mutant: the page waits for one of its requests.
RenderEarly(v) ==
  /\ at[v] = "fetching"
  /\ \E r \in Request : fetch[v][r].state \in {"none", "done"}
  /\ Rendered(v)

Render(v) ==
  /\ at[v] = "fetching"
  /\ \A r \in Request : fetch[v][r].state \in {"none", "done"}
  /\ Rendered(v)

\* The store of the browser is made of the page; componentDidMount asks for
\* the items if there are none.
Boot(v) ==
  /\ at[v] = "page"
  /\ IF items[v] = 0
     THEN /\ at' = [at EXCEPT ![v] = "asking"]
          /\ fetch' = [fetch EXCEPT ![v][1] = Asked]
     ELSE at' = [at EXCEPT ![v] = "live"] /\ UNCHANGED fetch
  /\ UNCHANGED <<db, conn, batch, pos, sp, dates, early,
                 on, event, items, range, missed>>

\* A link of the timeline, of which there is one for each item of the store.
Click(v, e) ==
  /\ at[v] = "live" /\ Found(e, items[v])
  /\ event' = [event EXCEPT ![v] = e]
  /\ at' = [at EXCEPT ![v] = IF Shows(e, items[v]) THEN "live" ELSE "broken"]
  /\ UNCHANGED <<db, conn, batch, pos, sp, dates, early,
                 on, fetch, items, range, missed>>

-----------------------------------------------------------------------------
ServerStep(s) ==
  \/ Start(s) \/ Connect(s) \/ Count(s) \/ InsertMany(s) \/ Initialized(s)
  \/ Dies(s)

MongoStep ==
  \/ MongoStarts \/ CreateUsers \/ Shutdown \/ MongoDies
  \/ \E s \in Server : Insert(s) \/ GivesUp(s)

VisitStep(v) ==
  \/ \E e \in Path : Get(v, e)
  \/ \E e \in Path \ {NoEvent} : Click(v, e)
  \/ \E r \in Request : Find(v, r) \/ FindFails(v, r) \/ Receive(v, r)
  \/ Render(v) \/ Boot(v)

Next ==
  \/ \E s \in Server : ServerStep(s)
  \/ MongoStep
  \/ \E v \in Visit : VisitStep(v)

\* A server, mongod and its script go on as long as they run; who starts,
\* who stops and who asks for a page is up to others.
Fairness ==
  /\ \A s \in Server :
       /\ WF_vars(Connect(s)) /\ WF_vars(Count(s)) /\ WF_vars(InsertMany(s))
       /\ WF_vars(Initialized(s)) /\ WF_vars(Insert(s)) /\ WF_vars(GivesUp(s))
  /\ WF_vars(CreateUsers) /\ WF_vars(Shutdown)
  /\ \A v \in Visit :
       /\ \A r \in Request : /\ WF_vars(Find(v, r) \/ FindFails(v, r))
                             /\ WF_vars(Receive(v, r))
       /\ WF_vars(Render(v)) /\ WF_vars(Boot(v))

Spec == Init /\ [][Next]_vars /\ Fairness

-----------------------------------------------------------------------------
TypeOK ==
  /\ mongo \in {"off", "fresh", "primer", "up"} /\ primed \in BOOLEAN
  /\ docs \in 0..N /\ deaths \in 0..MaxDeaths
  /\ conn \in [Server -> {"none", "open", "closed"}]
  /\ batch \in [Server -> {"none", "running", "done", "duplicate", "lost"}]
  /\ pos \in [Server -> 0..N]
  /\ sp \in [Server -> {"off", "connect", "hung", "count", "seed", "inserting",
                        "listen", "failed", "dead"}]
  /\ dates \in [Server -> {Range[k] : k \in 1..N} \union {NoRange}]
  /\ at \in [Visit -> {"none", "fetching", "page", "text", "lost", "asking",
                       "live", "broken"}]
  /\ on \in [Visit -> Server \union {NoServer}]
  /\ event \in [Visit -> Ids(N) \union {NoEvent}]
  /\ fetch \in [Visit -> [Request -> [state : {"none", "sent", "answered", "done"},
                                     items : 0..N]]]
  /\ items \in [Visit -> 0..N]
  /\ range \in [Visit -> {Range[k] : k \in 1..N} \union {NoRange}]
  /\ early \subseteq Server /\ missed \subseteq Visit

\* A server that listens before the whole seed is there did not seed: one
\* before it did, and died before it was through (initializationTasks.js:25
\* counts the documents and looks no further).  A server never serves a part
\* of its own seed.
OwnSeedIsWhole ==
  \A s \in early :
    /\ batch[s] = "none"
    /\ \E t \in Server : sp[t] = "dead" /\ batch[t] # "none"

\* A page of a server that found the seed whole, none of whose requests
\* failed, is a page and not the text of an error; it shows every item, over
\* dates that range over them all, and so do the pages clicked through to,
\* in whatever order the two requests of an event's page were answered and
\* whichever page the server took its dates from
\* (timelineContainer.js:122-138 and 199-207, timeLineReducer.js:12).
PageIsWhole ==
  \A v \in Visit : on[v] \notin early /\ v \notin missed =>
    /\ at[v] \notin {"text", "broken", "asking"}
    /\ at[v] \in {"page", "live"} => items[v] = N /\ range[v] = Range[N]

\* The first server, with mongod up and left alone, gets to listen and the
\* seed is whole then (server.js:39-49, initializationTasks.js:13-36): what a
\* server waits for at its start always comes, or there is a reason.
FirstServerListens ==
  \A s \in Server :
    sp[s] = "connect" ~>
      \/ sp[s] = "listen" /\ docs = N
      \/ mongo # "up" \/ deaths > 0 \/ \E t \in Server : sp[t] = "dead"

\* A seed that was begun gets whole, whoever dies, unless mongod stops
\* (insertMany is one command, initializationTasks.js:31).
SeedCompletes ==
  docs > 0 ~> docs = N \/ \E s \in Server : batch[s] = "lost"

\* Who asks for a page gets an answer, whatever happens to mongod, unless the
\* server dies (timelineRoutes.js:36-38, timelineApi.js:14-16,
\* wildcardRoute.js:73): no request waits for a connection that nobody opens.
VisitEnds ==
  \A v \in Visit : at[v] = "fetching" ~> at[v] # "fetching"
=============================================================================
