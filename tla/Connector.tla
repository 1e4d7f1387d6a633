------------------------------ MODULE Connector ------------------------------
(***************************************************************************)
(* The hierarchy every part of a process is built from:                    *)
(* runtime/core/source/connector.ts.  A connector connects after what it   *)
(* depends on and disconnects before it, and one that several depend on is *)
(* closed once none of them is connected.                                  *)
(*                                                                         *)
(* All of it runs in one process: everything between two awaits is one     *)
(* action.  `open` and `close` of a connector take any time, may fail, and *)
(* may never end.                                                          *)
(* Besides the tree the process is built with, connectors are looked up and*)
(* connected while it runs (runtime/boot/src/context.js, Local.ts of       *)
(* cadence), which may end after the process began to shut down.           *)
(***************************************************************************)
EXTENDS Naturals, FiniteSets

CONSTANTS Nodes,      \* connectors
          Root,       \* the workload, which is connected and disconnected first
          Static,     \* <<n, m>>: n depends on m as it is constructed
          Late,       \* <<n, m>>: n takes m on while it runs
          MayFail,    \* the connectors whose open may fail
          MayStick,   \* the connectors whose close may fail, or never end
          Connects    \* bound: connections of one connector

ASSUME ConnectorAssumption ==
         /\ Root \in Nodes
         /\ Static \subseteq Nodes \X Nodes
         /\ Late \subseteq Nodes \X Nodes
         /\ MayFail \subseteq Nodes
         /\ MayStick \subseteq Nodes
         /\ Connects \in Nat \ {0}

Connections == 1 .. Connects
Disconnections == 1 .. Connects + 1

VARIABLES
  dependencies,  \* dependencies[n]: what n depends on by now
  opening,       \* opening[n][k]: where the k-th connection of n is
  needs,         \* needs[n][k]: the connections of others it waits for
  connecting,    \* connecting[n]: the connection `#connecting` is of, 0 for none
  connected,     \* connected[n]
  closing,       \* closing[n][j]: where the j-th disconnection of n is
  awaited,       \* awaited[n][j]: the disconnections of others it waits for
  disconnecting, \* disconnecting[n]: the one `#disconnecting` is of, 0 for none
  asked,         \* <<c, n>>: disconnection c has asked n to disconnect, which n is
                 \* about to consider
  discarded,     \* discarded[n]
  sought,        \* <<n, m>> of Late: m is connected on behalf of n, to be taken on
  shutdown       \* whether the process was told to shut down

ups == <<opening, needs, connecting>>
downs == <<closing, awaited, disconnecting>>
connectorVars == <<dependencies, ups, connected, downs, asked, discarded, sought, shutdown>>

Nobody == <<"nobody", 0>>

Dependants(n) == {c \in Nodes : n \in dependencies[c]}

-----------------------------------------------------------------------------
(* Connecting *)

\* The connectors a connect() of n starts: n, and what it depends on, as far as
\* nothing on the way is connecting already.
Reached(n) ==
  {x \in Nodes : \A S \in SUBSET Nodes :
     (n \in S /\ \A a \in S : {d \in dependencies[a] : connecting[d] = 0} \subseteq S) => x \in S}

\* The number of the next connection, or disconnection, of one that has had some.
Number(past) == Cardinality({k \in DOMAIN past : past[k] # "none"}) + 1

\* connect: `#disconnecting` is forgotten and the work starts; one that connects
\* already is joined.
Connect(n) ==
  LET start == IF connecting[n] = 0 THEN Reached(n) ELSE {}
      current(d) == IF d \in start THEN Number(opening[d]) ELSE connecting[d]
  IN  /\ \A x \in start : Number(opening[x]) <= Connects
      /\ opening' = [x \in Nodes |->
                       IF x \in start THEN [opening[x] EXCEPT ![Number(opening[x])] = "deps"] ELSE opening[x]]
      /\ needs' = [x \in Nodes |->
                     IF x \in start
                       THEN [needs[x] EXCEPT ![current(x)] =
                               {<<d, current(d)>> : d \in dependencies[x]}]
                       ELSE needs[x]]
      /\ connecting' = [x \in Nodes |-> IF x \in start THEN current(x) ELSE connecting[x]]
      /\ disconnecting' = [x \in Nodes |-> IF x \in start THEN 0 ELSE disconnecting[x]]
      /\ UNCHANGED <<closing, awaited>>

\* What it depends on is up, and open() starts.
Dependable(n, k) ==
  /\ opening[n][k] = "deps"
  /\ \A need \in needs[n][k] : opening[need[1]][need[2]] = "up"
  /\ opening' = [opening EXCEPT ![n][k] = "open"]
  /\ UNCHANGED <<dependencies, needs, connecting, connected, downs, asked, discarded, sought,
                 shutdown>>

-----------------------------------------------------------------------------
(* Disconnecting *)

\* Whether something that depends on n is connected.
Linked(n) == \E c \in Dependants(n) : connected[c]

Leaving(n) == disconnecting[n] # 0

\* Disconnections of connectors begin, each at the stage given.
Starts(ns, stage) ==
  LET j(x) == Number(closing[x])
  IN  /\ \A x \in ns : j(x) \in Disconnections
      /\ closing' = [x \in Nodes |-> IF x \in ns THEN [closing[x] EXCEPT ![j(x)] = stage]
                                                 ELSE closing[x]]
      /\ disconnecting' = [x \in Nodes |-> IF x \in ns THEN j(x) ELSE disconnecting[x]]

\* One that has nothing to close, or has closed, is not connected and does not
\* connect, and goes on to what it depends on.
Gone(ns) ==
  /\ connected' = [x \in Nodes |-> connected[x] /\ x \notin ns]
  /\ connecting' = [x \in Nodes |-> IF x \in ns THEN 0 ELSE connecting[x]]

\* disconnect of n that nothing waits for, up to its first await.  One that has
\* not finished connecting has nothing to close, and begins, or is refused, at once.
Disconnect(n) ==
  IF connected[n]
    THEN /\ asked' = asked \cup {<<Nobody, n>>}
         /\ UNCHANGED <<connected, connecting, closing, disconnecting>>
    ELSE LET begins == IF Leaving(n) \/ Linked(n) THEN {} ELSE {n}
         IN  /\ Starts(begins, "walking")
             /\ Gone(begins)
             /\ UNCHANGED asked

\* It waits for the disconnection there was before.
WaitsBefore(c, n, j) == awaited' = IF c = Nobody THEN awaited
                                   ELSE [awaited EXCEPT ![c[1]][c[2]] = @ \cup {<<n, disconnecting[n]>>}]

\* What c waits for once n has considered disconnecting, if it does.
Awaits(c, n, j) == awaited' = IF c = Nobody THEN awaited
                             ELSE [awaited EXCEPT ![c[1]][c[2]] = @ \cup {<<n, j>>}]

\* `connected` is taken back when the closing starts.
ConsiderEarly(c, n) ==
  /\ <<c, n>> \in asked
  /\ asked' = asked \ {<<c, n>>}
  /\ IF ~Leaving(n) /\ Linked(n)
       THEN UNCHANGED <<connected, downs>>
       ELSE /\ Starts(IF Leaving(n) THEN {} ELSE {n}, "closing")
            /\ Awaits(c, n, IF Leaving(n) THEN disconnecting[n] ELSE Number(closing[n]))
            /\ connected' = [connected EXCEPT ![n] = FALSE]
  /\ UNCHANGED <<dependencies, ups, discarded, sought, shutdown>>

\* disconnect of one that was connected, past its first await: it is joined, or
\* refused, or begins with close().
Consider(c, n) ==
  /\ <<c, n>> \in asked
  /\ asked' = asked \ {<<c, n>>}
  /\ IF ~Leaving(n) /\ Linked(n)
       THEN UNCHANGED downs
       ELSE /\ Starts(IF Leaving(n) THEN {} ELSE {n}, "closing")
            /\ Awaits(c, n, IF Leaving(n) THEN disconnecting[n] ELSE Number(closing[n]))
  /\ UNCHANGED <<dependencies, ups, connected, discarded, sought, shutdown>>

\* close() is done, whatever connected meanwhile.
Closed(n, j) ==
  /\ closing[n][j] = "closing"
  /\ closing' = [closing EXCEPT ![n][j] = "walking"]
  /\ Gone({n})
  /\ UNCHANGED <<dependencies, opening, needs, awaited, disconnecting, asked, discarded, sought,
                 shutdown>>

\* close() raises: `connected` stays, and so does `#disconnecting`.
CloseFailed(n, j) ==
  /\ n \in MayStick
  /\ closing[n][j] = "closing"
  /\ closing' = [closing EXCEPT ![n][j] = "raised"]
  /\ UNCHANGED <<dependencies, ups, connected, awaited, disconnecting, asked, discarded, sought,
                 shutdown>>

\* All that n depends on is asked to disconnect.
Walk(n, j) ==
  LET up == {d \in dependencies[n] : connected[d]}
      begins == {d \in dependencies[n] \ up : ~Leaving(d) /\ ~Linked(d)}
      joins == {d \in dependencies[n] \ up : Leaving(d)}
      number(x) == Number(closing[x])
  IN  /\ closing[n][j] = "walking"
      /\ asked' = asked \cup {<<<<n, j>>, d>> : d \in up}
      /\ \A x \in begins : number(x) \in Disconnections
      /\ closing' = [x \in Nodes |-> IF x = n THEN [closing[n] EXCEPT ![j] = "waiting"]
                                     ELSE IF x \in begins
                                            THEN [closing[x] EXCEPT ![number(x)] = "walking"]
                                     ELSE closing[x]]
      /\ disconnecting' = [x \in Nodes |-> IF x \in begins THEN number(x) ELSE disconnecting[x]]
      /\ awaited' = [awaited EXCEPT ![n][j] = {<<d, number(d)>> : d \in begins}
                                                \cup {<<d, disconnecting[d]>> : d \in joins}]
      /\ Gone(begins)
      /\ UNCHANGED <<dependencies, opening, needs, discarded, sought, shutdown>>

\* What it waits for has disconnected, and n is disposed of.
Dispose(n, j) ==
  /\ closing[n][j] = "waiting"
  /\ \A d \in Nodes : <<<<n, j>>, d>> \notin asked
  /\ \A one \in awaited[n][j] : closing[one[1]][one[2]] = "done"
  /\ closing' = [closing EXCEPT ![n][j] = "done"]
  /\ UNCHANGED <<dependencies, ups, connected, awaited, disconnecting, asked, discarded, sought,
                 shutdown>>

\* Some of it failed, which is raised.
WaitFailed(n, j) ==
  /\ closing[n][j] = "waiting"
  /\ \E one \in awaited[n][j] : closing[one[1]][one[2]] \in {"raised", "failed"}
  /\ closing' = [closing EXCEPT ![n][j] = "failed"]
  /\ UNCHANGED <<dependencies, ups, connected, awaited, disconnecting, asked, discarded, sought,
                 shutdown>>

-----------------------------------------------------------------------------
(* A connection landing *)

\* Whatever disconnected meanwhile, it is connected.
OpenedAnyway(n, k) ==
  /\ opening[n][k] = "open"
  /\ opening' = [opening EXCEPT ![n][k] = "up"]
  /\ connected' = [connected EXCEPT ![n] = TRUE]
  /\ asked' = IF discarded[n] THEN asked \cup {<<Nobody, n>>} ELSE asked
  /\ discarded' = [discarded EXCEPT ![n] = FALSE]
  /\ UNCHANGED <<dependencies, needs, connecting, downs, sought, shutdown>>

\* open() is done: n is connected, unless it was disconnected meanwhile; one that
\* was discarded is disconnected now.
Opened(n, k) ==
  LET up == connected[n] \/ connecting[n] = k
  IN  /\ opening[n][k] = "open"
      /\ opening' = [opening EXCEPT ![n][k] = "up"]
      /\ discarded' = [discarded EXCEPT ![n] = FALSE]
      /\ IF discarded[n] /\ ~up
           THEN Disconnect(n)
           ELSE /\ connected' = [connected EXCEPT ![n] = up]
                /\ asked' = IF discarded[n] THEN asked \cup {<<Nobody, n>>} ELSE asked
                /\ UNCHANGED <<connecting, closing, disconnecting>>
      /\ UNCHANGED <<dependencies, needs, awaited, sought, shutdown>>

\* open() raises, or the connection of something n depends on did: what it has
\* connected is disconnected, whoever else depends on n.
OpenFailed(n, k) ==
  LET begins == IF Leaving(n) THEN {} ELSE {n}
  IN  /\ \/ opening[n][k] = "open" /\ n \in MayFail
         \/ opening[n][k] = "deps" /\ \E need \in needs[n][k] : opening[need[1]][need[2]] = "failed"
      /\ opening' = [opening EXCEPT ![n][k] = "failed"]
      /\ Starts(begins, "walking")
      /\ Gone(begins)
      /\ UNCHANGED <<dependencies, needs, awaited, asked, discarded, sought, shutdown>>

-----------------------------------------------------------------------------
(* The process *)

\* The workload takes on what it runs inside its own open (workload.js), part by part;
\* here it is built with it, and opens once all of it is open.
Boot ==
  /\ opening[Root][1] = "none"
  /\ Connect(Root)
  /\ UNCHANGED <<dependencies, connected, asked, discarded, sought, shutdown>>

ShutDown ==
  /\ ~shutdown
  /\ opening[Root][1] # "none"
  /\ shutdown' = TRUE
  /\ Disconnect(Root)
  /\ UNCHANGED <<dependencies, opening, needs, awaited, discarded, sought>>

\* The end of depends(m) of n, where m is connected, and #discard: one that n
\* takes on after it began to disconnect is disconnected.
Discard(n, m) ==
  IF Leaving(n) /\ connecting[m] # 0
    THEN /\ Disconnect(m)
         /\ UNCHANGED discarded
    ELSE /\ discarded' = [discarded EXCEPT ![m] = @ \/ Leaving(n)]
         /\ UNCHANGED <<asked, connected, connecting, closing, disconnecting>>

\* A lookup on behalf of n, which was up when it began, finds m.
Finds(n, m) ==
  /\ <<n, m>> \in Late \ sought
  /\ m \notin dependencies[n]
  /\ \E k \in Connections : opening[n][k] = "up"
  /\ opening[m][1] = "none"

\* What it found is taken on, and then connected: locate of Local.ts, reach of
\* Halt.ts.  One n takes on after it began to disconnect is disconnected as it lands.
TakeOn(n, m) ==
  /\ Finds(n, m)
  /\ dependencies' = [dependencies EXCEPT ![n] = @ \cup {m}]
  /\ discarded' = [discarded EXCEPT ![m] = Leaving(n)]
  /\ Connect(m)
  /\ UNCHANGED <<connected, asked, sought, shutdown>>

\* What it found is connected first: discover of context.js.
Seek(n, m) ==
  /\ Finds(n, m)
  /\ sought' = sought \cup {<<n, m>>}
  /\ Connect(m)
  /\ UNCHANGED <<dependencies, connected, asked, discarded, shutdown>>

\* And taken on once it is connected: Context.#connect.
Hold(n, m) ==
  /\ <<n, m>> \in sought
  /\ m \notin dependencies[n]
  /\ opening[m][1] = "up"
  /\ dependencies' = [dependencies EXCEPT ![n] = @ \cup {m}]
  /\ Discard(n, m)
  /\ UNCHANGED <<opening, needs, awaited, sought, shutdown>>

-----------------------------------------------------------------------------
ConnectorInit ==
  /\ dependencies = [n \in Nodes |-> {m \in Nodes : <<n, m>> \in Static}]
  /\ opening = [n \in Nodes |-> [k \in Connections |-> "none"]]
  /\ needs = [n \in Nodes |-> [k \in Connections |-> {}]]
  /\ connecting = [n \in Nodes |-> 0]
  /\ connected = [n \in Nodes |-> FALSE]
  /\ closing = [n \in Nodes |-> [j \in Disconnections |-> "none"]]
  /\ awaited = [n \in Nodes |-> [j \in Disconnections |-> {}]]
  /\ disconnecting = [n \in Nodes |-> 0]
  /\ asked = {}
  /\ discarded = [n \in Nodes |-> FALSE]
  /\ sought = {}
  /\ shutdown = FALSE

Step(n) == \/ \E k \in Connections : Dependable(n, k) \/ Opened(n, k) \/ OpenFailed(n, k)
           \/ \E one \in asked : one[2] = n /\ Consider(one[1], n)
           \/ \E j \in Disconnections : \/ Closed(n, j)
                                \/ CloseFailed(n, j)
                                \/ Walk(n, j)
                                \/ Dispose(n, j)
                                \/ WaitFailed(n, j)

ConnectorNext ==
  \/ Boot
  \/ ShutDown
  \/ \E n \in Nodes : Step(n)
  \/ \E pair \in Late : \/ TakeOn(pair[1], pair[2])
                        \/ Seek(pair[1], pair[2])
                        \/ Hold(pair[1], pair[2])

ConnectorSpec == ConnectorInit /\ [][ConnectorNext]_connectorVars

\* What goes on of its own accord.
Settling(n) ==
  \/ \E k \in Connections : \/ Dependable(n, k)
                            \/ opening[n][k] = "deps" /\ OpenFailed(n, k)
  \/ \E one \in asked : one[2] = n /\ Consider(one[1], n)
  \/ \E j \in Disconnections : \/ n \notin MayStick /\ Closed(n, j)
                               \/ Walk(n, j)
                               \/ Dispose(n, j)
                               \/ WaitFailed(n, j)

\* Promises that settled are read, and close() ends where it may not stick.  Nothing says
\* that open() ends, or a lookup: "a connection that may never settle" (disconnect).
ConnectorFairness ==
  /\ \A n \in Nodes : WF_connectorVars(Settling(n))
  /\ \A pair \in Late : WF_connectorVars(Hold(pair[1], pair[2]))

ConnectorFairSpec == ConnectorSpec /\ ConnectorFairness

-----------------------------------------------------------------------------
(* What is checked *)

DisconnectionStages == {"none", "closing", "raised", "walking", "waiting", "done", "failed"}

\* The types of the state: connector.ts.
ConnectorOK ==
  /\ dependencies \in [Nodes -> SUBSET Nodes]
  /\ opening \in [Nodes -> [Connections -> {"none", "deps", "open", "up", "failed"}]]
  /\ needs \in [Nodes -> [Connections -> SUBSET (Nodes \X Connections)]]
  /\ connecting \in [Nodes -> {0} \cup Connections]
  /\ connected \in [Nodes -> BOOLEAN]
  /\ closing \in [Nodes -> [Disconnections -> DisconnectionStages]]
  /\ awaited \in [Nodes -> [Disconnections -> SUBSET (Nodes \X Disconnections)]]
  /\ disconnecting \in [Nodes -> {0} \cup Disconnections]
  /\ asked \subseteq ((Nodes \X Disconnections) \cup {Nobody}) \X Nodes
  /\ discarded \in [Nodes -> BOOLEAN]
  /\ sought \subseteq Late
  /\ shutdown \in BOOLEAN

\* open() of n is done and close() is not: it is used, and uses what it is built over.
InUse(n) == connected[n] \/ \E j \in Disconnections : closing[n][j] = "closing"

\* close() of a connector begins only once nothing that depends on it is in use: the
\* first of several dependants to close does not take down what the others are
\* using (disconnect: `connected` is taken back after close()).
LastOut ==
  [][\A n \in Nodes, j \in Disconnections : closing[n][j] # "closing" /\ closing'[n][j] = "closing"
       => \A c \in Dependants(n) : ~InUse(c)]_connectorVars

\* A close() of the connector itself raised or has not ended, or a connection has not
\* ended that nobody has disconnected.
Sticks(n) ==
  \/ n \in MayStick /\ \E j \in Disconnections : closing[n][j] \in {"closing", "raised"}
  \/ connecting[n] # 0 /\ opening[n][connecting[n]] \in {"deps", "open"}

\* What that leaves connected: that connector, and what it is over. What it was closed
\* with, and all that is over it, is not among them.
Stuck ==
  {n \in Nodes : \E S \in SUBSET Nodes :
     n \in S /\ \A d \in S : Sticks(d) \/ Dependants(d) \cap S # {}}

AllDown == \A n \in Nodes : connected[n] => n \in Stuck

\* Once the process is told to shut down, everything in it is disconnected in the
\* end and stays so, whatever was still connecting, being looked up or taken on by
\* then, except a connector whose close() raised or does not end, or which was looked up
\* and whose open() does not end, and what that one is over (connect, disconnect,
\* #discard and #drop).  What the tree was built with has its disconnection begin at once
\* where an open() does not end.
TornDown == shutdown ~> []AllDown
==============================================================================
