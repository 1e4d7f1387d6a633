------------------------------ MODULE Realtime -------------------------------
(***************************************************************************)
(* The streams a gateway serves of one key:                                *)
(* extensions/exposition/source/directives/realtime/Hub.ts and Stream.ts,  *)
(* over the Redis stream and channel of the key that                       *)
(* extensions/exposition/source/realtime/redis.ts and Destination.ts write.*)
(*                                                                         *)
(* A routed event is kept in the stream and published on the channel at    *)
(* once.  A gateway with readers of the key subscribes to the channel on a *)
(* connection of its own, where Redis answers in order; it reads the stream*)
(* on another, for a reader that comes back with a token, and for all of   *)
(* them after the first connection was lost.  Ids of the stream are        *)
(* numbers, and 0 stands for none.                                         *)
(***************************************************************************)
EXTENDS Naturals, Sequences, FiniteSetsExt

CONSTANTS Gateways,   \* the replicas of the gateway
          Clients,    \* who reads the key
          MAXLEN,     \* entries the stream is trimmed to, or somewhat above
          Events,     \* bound: events routed to the key
          Opens,      \* bound: streams opened
          Faults      \* bound: subscribing connections lost, and gateways that end

ASSUME RealtimeAssumption ==
         /\ MAXLEN \in Nat \ {0}
         /\ {Events, Opens, Faults} \subseteq Nat
         /\ Gateways # {}

VARIABLES
  top,        \* the id given last
  kept,       \* the entries of the stream, which exists while it has any
  routed,     \* the ids of events, as against those of markers
  link,       \* link[g]: the subscribing connection of g, and what is on its way in it
  entry,      \* entry[g]: what g knows of the key while it has readers
  recovery,   \* recovery[g]: the recoveries begun at g, one for each time it came back
  reader,     \* reader[c]: the stream c has open, or is opening
  client,     \* client[c]: what c took from its streams, and the token it kept
  count,      \* streams opened, and faults, so far
  overtaken,  \* history: who was given an event while a recovery was under way, or
              \* whose recovery failed
  dead,       \* gateways that were refused the channel of the key, and kept the refusal
  missed      \* readers whose recovery failed

refusals == <<dead, missed>>

realtimeVars == <<top, kept, routed, link, entry, recovery, reader, client, count, overtaken,
                  refusals>>

Connected == [up |-> TRUE, carries |-> FALSE, asks |-> <<>>, brings |-> <<>>]

Unread == [subscribed |-> FALSE, last |-> 0]

Away == [at |-> "away", gateway |-> CHOOSE g \in Gateways : TRUE, marker |-> 0,
         found |-> <<>>, held |-> <<>>, cursor |-> 0, sent |-> <<>>]

Newcomer == [token |-> 0, since |-> 0, has |-> {}]

\* `streams` of the key at g; the key has an entry while there are any.
Readers(g) == {c \in Clients : reader[c].at # "away" /\ reader[c].gateway = g}

\* What is asked of the subscribing connection, which Redis echoes as the answer, and
\* what it brings beside: `n` is the recovery that asks, or the id of the event.
Subscribe(n) == [what |-> "subscribe", n |-> n]
Unsubscribe == [what |-> "unsubscribe", n |-> 0]
Message(id) == [what |-> "event", n |-> id]

\* Some numbers, in order.
InOrder(S) == [i \in 1 .. Cardinality(S) |->
                 CHOOSE x \in S : Cardinality({y \in S : y < x}) = i - 1]

\* The events of the stream after an id, in order: read.
Found(after) == InOrder({id \in kept \cap routed : id > after})

\* XADD: an entry is added, and the oldest are taken out, whole pages of them at a time,
\* so that MAXLEN or somewhat more are left.
Added(id) ==
  LET all == kept \cup {id}
      latest == {{x \in all : x >= first} : first \in all}
  IN  {all} \cup {left \in latest : Cardinality(left) >= MAXLEN}

-----------------------------------------------------------------------------
EventOf(id) == [event |-> TRUE, id |-> id]
TokenOf(id) == [event |-> FALSE, id |-> id]

\* An event is sent, and its token after it, unless it was given already: Stream.write.
Write(r, id) ==
  IF id <= r.cursor
  THEN r
  ELSE [r EXCEPT !.cursor = id, !.sent = @ \o <<EventOf(id), TokenOf(id)>>]

\* Events are sent in turn.
Writes(r, ids) ==
  LET after[i \in 0 .. Len(ids)] == IF i = 0 THEN r ELSE Write(after[i - 1], ids[i])
  IN  after[Len(ids)]

\* Mutant: what comes while the replay is in flight is dropped.
DeliverOpen(r, ids) == IF r.at = "open" THEN Writes(r, ids) ELSE r

\* Events are written in turn, or held while the replay is in flight: Stream.deliver.
DeliverTo(r, ids) == IF r.at = "open" THEN Writes(r, ids) ELSE [r EXCEPT !.held = @ \o ids]

\* What the replay found is sent, then what was held, then where the key was when nothing
\* was found: the end of open, and Stream.ready.
Ready(r, cursor, found) ==
  LET open == [r EXCEPT !.at = "open", !.cursor = cursor, !.found = <<>>, !.held = <<>>]
      given == Writes(open, found \o r.held)
  IN  IF found = <<>> THEN [given EXCEPT !.sent = Append(@, TokenOf(r.marker))] ELSE given

\* Events reach the readers of g in turn: broadcast.
Broadcast(g, ids) ==
  /\ entry' = IF ids = <<>> THEN entry ELSE [entry EXCEPT ![g].last = ids[Len(ids)]]
  /\ reader' = [c \in Clients |-> IF c \in Readers(g)
                                  THEN DeliverTo(reader[c], ids)
                                  ELSE reader[c]]

\* The connection of g is asked something.
Asking(g, ask) == [link EXCEPT ![g].asks = Append(@, ask)]

-----------------------------------------------------------------------------
\* A component writes an event to the stream, if it exists, and to the channel: APPEND.
Route ==
  /\ kept # {}
  /\ Cardinality(routed) < Events
  /\ top' = top + 1
  /\ kept' \in Added(top')
  /\ routed' = routed \cup {top'}
  /\ link' = [g \in Gateways |-> IF link[g].up /\ link[g].carries
                                 THEN [link[g] EXCEPT !.brings = Append(@, Message(top'))]
                                 ELSE link[g]]
  /\ UNCHANGED <<entry, recovery, reader, client, count, overtaken, refusals>>

\* c opens a stream at g, with the token it kept; the first reader of the key subscribes.
\* Where that was refused once, it is refused again.
Enter(c, g) ==
  /\ reader[c].at = "away"
  /\ g \notin dead
  /\ count.opens < Opens
  /\ count' = [count EXCEPT !.opens = @ + 1]
  /\ reader' = [reader EXCEPT ![c] = [Away EXCEPT !.at = "entering", !.gateway = g]]
  /\ IF Readers(g) = {}
     THEN entry' = [entry EXCEPT ![g] = Unread] /\ link' = Asking(g, Subscribe(0))
     ELSE UNCHANGED <<entry, link>>
  /\ UNCHANGED <<top, kept, routed, recovery, client, overtaken, refusals>>

\* Redis adds a marker for it, once the channel carries the key.
Mark(c) ==
  /\ reader[c].at = "entering"
  /\ entry[reader[c].gateway].subscribed
  /\ top' = top + 1
  /\ kept' \in Added(top')
  /\ reader' = [reader EXCEPT ![c].at = "marked", ![c].marker = top']
  /\ UNCHANGED <<routed, link, entry, recovery, client, count, overtaken, refusals>>

\* The id of the marker is back, in the order markers were added on that connection: a
\* reader without a token is given what comes after it.
Marked(c) ==
  LET r == reader[c]
  IN  /\ r.at = "marked"
      /\ \A other \in Readers(r.gateway) :
           reader[other].at = "marked" => r.marker <= reader[other].marker
      /\ entry' = [entry EXCEPT ![r.gateway].last = IF @ = 0 THEN r.marker ELSE @]
      /\ IF client[c].token = 0
         THEN /\ reader' = [reader EXCEPT ![c] = Ready(r, r.marker, <<>>)]
              /\ client' = [client EXCEPT ![c] = [Newcomer EXCEPT !.since = r.marker]]
         ELSE reader' = [reader EXCEPT ![c].at = "reading"] /\ UNCHANGED client
      /\ UNCHANGED <<top, kept, routed, link, recovery, count, overtaken, refusals>>

\* Redis reads what the stream has since the token: XREAD.
Replay(c) ==
  /\ reader[c].at = "reading"
  /\ reader' = [reader EXCEPT ![c].at = "found", ![c].found = Found(client[c].token)]
  /\ UNCHANGED <<top, kept, routed, link, entry, recovery, client, count, overtaken, refusals>>

\* It is back, and the stream is open.
Replayed(c) ==
  /\ reader[c].at = "found"
  /\ reader' = [reader EXCEPT ![c] = Ready(@, client[c].token, @.found)]
  /\ UNCHANGED <<top, kept, routed, link, entry, recovery, client, count, overtaken, refusals>>

\* What c has once it took the first n of what it was sent.
Took(c, n) ==
  LET sent == reader[c].sent
      events == {i \in 1 .. n : sent[i].event}
      tokens == (1 .. n) \ events
  IN  [client[c] EXCEPT !.has = @ \cup {sent[i].id : i \in events},
                        !.token = IF tokens = {} THEN @ ELSE sent[Max(tokens)].id]

\* Where c may be in what it was sent: an event of which the token was not taken is sent
\* again, so it comes to the same as none.
Cuts(c) == {0} \cup {n \in 1 .. Len(reader[c].sent) : ~reader[c].sent[n].event}

\* A recovery before it has read anything, or after.
Recovery(at) == [at |-> at, after |-> 0, found |-> <<>>]

\* What a recovery read is for the readers there were.
Dropped(recoveries) ==
  [n \in DOMAIN recoveries |-> IF recoveries[n].at \in {"reading", "found"}
                               THEN Recovery("done")
                               ELSE recoveries[n]]

\* The stream of c closes, wherever c is in taking what it was sent; the last reader of
\* the key unsubscribes.
Leave(c) ==
  LET g == reader[c].gateway
  IN  /\ reader[c].at = "open"
      /\ \E n \in Cuts(c) : client' = [client EXCEPT ![c] = Took(c, n)]
      /\ reader' = [reader EXCEPT ![c] = Away]
      /\ IF Readers(g) = {c}
         THEN /\ entry' = [entry EXCEPT ![g] = Unread]
              /\ link' = Asking(g, Unsubscribe)
              /\ recovery' = [recovery EXCEPT ![g] = Dropped(@)]
         ELSE UNCHANGED <<entry, link, recovery>>
      /\ missed' = missed \ {c}
      /\ UNCHANGED <<top, kept, routed, count, overtaken, dead>>

\* The gateway closes, or crashes, and is started again with nothing: close.
End(g) ==
  /\ Readers(g) # {} \/ g \in dead
  /\ count.faults < Faults
  /\ count' = [count EXCEPT !.faults = @ + 1]
  /\ \E n \in [Readers(g) -> 0 .. 2 * Events + 1] :
       /\ \A c \in Readers(g) : n[c] \in Cuts(c)
       /\ client' = [c \in Clients |-> IF c \in Readers(g) THEN Took(c, n[c]) ELSE client[c]]
  /\ reader' = [c \in Clients |-> IF c \in Readers(g) THEN Away ELSE reader[c]]
  /\ entry' = [entry EXCEPT ![g] = Unread]
  /\ link' = [link EXCEPT ![g] = Connected]
  /\ recovery' = [recovery EXCEPT ![g] = <<>>]
  /\ dead' = dead \ {g}
  /\ missed' = missed \ Readers(g)
  /\ UNCHANGED <<top, kept, routed, overtaken>>

\* A stream is gone after a while that no gateway renews it, as nobody reads it or as
\* the renewals fail.
Expire ==
  /\ kept # {}
  /\ kept' = {}
  /\ UNCHANGED <<top, routed, link, entry, recovery, reader, client, count, overtaken, refusals>>

-----------------------------------------------------------------------------
\* Redis takes up the next thing it is asked on the subscribing connection.
Serve(g) ==
  LET ask == Head(link[g].asks)
  IN  /\ link[g].up
      /\ link[g].asks # <<>>
      /\ link' = [link EXCEPT ![g].asks = Tail(@), ![g].brings = Append(@, ask),
                              ![g].carries = (ask.what = "subscribe")]
      /\ UNCHANGED <<top, kept, routed, entry, recovery, reader, client, count, overtaken, refusals>>

\* A recovery of g is under way.
UnderWay(g) == \E n \in DOMAIN recovery[g] : recovery[g][n].at # "done"

\* The gateway hears the next thing it brings: an event, or that it subscribed.
Hear(g) ==
  LET one == Head(link[g].brings)
  IN  /\ link[g].up
      /\ link[g].brings # <<>>
      /\ link' = [link EXCEPT ![g].brings = Tail(@)]
      /\ \/ /\ one.what = "event"
            /\ IF Readers(g) = {} THEN UNCHANGED <<entry, reader>> ELSE Broadcast(g, <<one.n>>)
            /\ overtaken' = IF UnderWay(g) THEN overtaken \cup Readers(g) ELSE overtaken
            /\ UNCHANGED recovery
         \/ /\ one = Subscribe(0)
            /\ entry' = [entry EXCEPT ![g].subscribed = TRUE]
            /\ UNCHANGED <<recovery, reader, overtaken>>
         \/ /\ one.what = "subscribe" /\ one.n # 0
            /\ recovery' = [recovery EXCEPT ![g][one.n].at = "next"]
            /\ UNCHANGED <<entry, reader, overtaken>>
         \/ one = Unsubscribe /\ UNCHANGED <<entry, recovery, reader, overtaken>>
      /\ UNCHANGED <<top, kept, routed, client, count, refusals>>

\* What was asked and not heard of.
Unheard(brings) ==
  LET answers == InOrder({i \in DOMAIN brings : brings[i].what # "event"})
  IN  [k \in DOMAIN answers |-> brings[answers[k]]]

\* The connection is lost with what is in it; what was asked and not heard of is asked
\* again.
Lose(g) ==
  /\ link[g].up
  /\ link[g].carries \/ link[g].asks # <<>>
  /\ count.faults < Faults
  /\ count' = [count EXCEPT !.faults = @ + 1]
  /\ link' = [link EXCEPT ![g].up = FALSE, ![g].brings = <<>>,
                          ![g].asks = Unheard(link[g].brings) \o @]
  /\ UNCHANGED <<top, kept, routed, entry, recovery, reader, client, overtaken, refusals>>

\* Redis is away for so long that the client gives up what it was asked: recoveries go on
\* without the channel, and who waits for it is refused.  The key stays at the gateway
\* then, for readers that are not there, so what it does for them is left out.
Refuse(g) ==
  LET waiting == IF \E i \in DOMAIN link[g].asks : link[g].asks[i] = Subscribe(0)
                 THEN Readers(g)
                 ELSE {}
  IN  /\ ~link[g].up
      /\ link[g].asks # <<>>
      /\ link' = [link EXCEPT ![g].asks = <<>>, ![g].brings = <<>>]
      /\ recovery' = [recovery EXCEPT ![g] =
                        [n \in DOMAIN @ |-> IF @[n].at = "asking" THEN Recovery("next") ELSE @[n]]]
      /\ reader' = [c \in Clients |-> IF c \in waiting THEN Away ELSE reader[c]]
      /\ entry' = IF waiting = {} THEN entry ELSE [entry EXCEPT ![g] = Unread]
      /\ dead' = IF waiting = {} THEN dead ELSE dead \cup {g}
      /\ missed' = missed \ waiting
      /\ UNCHANGED <<top, kept, routed, client, count, overtaken>>

\* Mutant: the client is back, and nobody reads what was written meanwhile.
ReturnOnly(g) ==
  /\ ~link[g].up
  /\ link' = [link EXCEPT ![g].up = TRUE]
  /\ UNCHANGED <<top, kept, routed, entry, recovery, reader, client, count, overtaken, refusals>>

\* It is back, subscribed again or not; a recovery of the key subscribes in any case.
Return(g) ==
  LET n == Len(recovery[g]) + 1
      read == Readers(g) # {}
  IN  /\ ~link[g].up
      /\ \E again \in {FALSE, link[g].carries} :
           link' = [link EXCEPT ![g].up = TRUE, ![g].carries = again,
                                ![g].asks = IF read THEN Append(@, Subscribe(n)) ELSE @]
      /\ recovery' = IF read
                     THEN [recovery EXCEPT ![g] = Append(@, Recovery("asking"))]
                     ELSE recovery
      /\ UNCHANGED <<top, kept, routed, entry, reader, client, count, overtaken, refusals>>

\* The recovery asks for what was written since the last event delivered at g.
RecoverFrom(g, n) ==
  /\ recovery[g][n].at = "next"
  /\ recovery' = [recovery EXCEPT ![g][n] =
                    IF Readers(g) = {} THEN Recovery("done")
                    ELSE [Recovery("reading") EXCEPT !.after = entry[g].last]]
  /\ UNCHANGED <<top, kept, routed, link, entry, reader, client, count, overtaken, refusals>>

\* Redis reads it: XREAD.
RecoverRead(g, n) ==
  /\ recovery[g][n].at = "reading"
  /\ recovery' = [recovery EXCEPT ![g][n].at = "found",
                                  ![g][n].found = Found(recovery[g][n].after)]
  /\ UNCHANGED <<top, kept, routed, link, entry, reader, client, count, overtaken, refusals>>

\* It is back, and reaches the readers.
Recovered(g, n) ==
  /\ recovery[g][n].at = "found"
  /\ recovery' = [recovery EXCEPT ![g][n] = Recovery("done")]
  /\ Broadcast(g, recovery[g][n].found)
  /\ UNCHANGED <<top, kept, routed, link, client, count, overtaken, refusals>>

\* The read is refused, which is logged, and is not made again.
Miss(g, n) ==
  /\ recovery[g][n].at = "reading"
  /\ recovery' = [recovery EXCEPT ![g][n] = Recovery("done")]
  /\ overtaken' = overtaken \cup Readers(g)
  /\ missed' = missed \cup Readers(g)
  /\ UNCHANGED <<top, kept, routed, link, entry, reader, client, count, dead>>

-----------------------------------------------------------------------------
RealtimeInit ==
  /\ top = 0
  /\ kept = {}
  /\ routed = {}
  /\ link = [g \in Gateways |-> Connected]
  /\ entry = [g \in Gateways |-> Unread]
  /\ recovery = [g \in Gateways |-> <<>>]
  /\ reader = [c \in Clients |-> Away]
  /\ client = [c \in Clients |-> Newcomer]
  /\ count = [opens |-> 0, faults |-> 0]
  /\ overtaken = {}
  /\ dead = {}
  /\ missed = {}

\* What Redis, and the gateway with what Redis answered, does for a stream to open.
Opening(c) == Mark(c) \/ Marked(c) \/ Replay(c) \/ Replayed(c)

\* What Redis and g do for the subscribing connection to bring what it should.
Carrying(g) ==
  \/ Serve(g)
  \/ Hear(g)
  \/ Return(g)
  \/ \E n \in DOMAIN recovery[g] : RecoverFrom(g, n) \/ RecoverRead(g, n) \/ Recovered(g, n)

RealtimeNext ==
  \/ Route
  \/ Expire
  \/ \E c \in Clients : Opening(c) \/ Leave(c) \/ \E g \in Gateways : Enter(c, g)
  \/ \E g \in Gateways : Carrying(g) \/ Lose(g) \/ Refuse(g) \/ End(g)
  \/ \E g \in Gateways : \E n \in DOMAIN recovery[g] : Miss(g, n)

RealtimeSpec == RealtimeInit /\ [][RealtimeNext]_realtimeVars

\* Redis answers what it is asked, or the client refuses it (Refuse, Miss), a connection
\* that was lost is made again, and a gateway handles what comes.
RealtimeFairness ==
  /\ \A c \in Clients : WF_realtimeVars(Opening(c))
  /\ \A g \in Gateways : WF_realtimeVars(Carrying(g))

RealtimeFairSpec == RealtimeSpec /\ RealtimeFairness

-----------------------------------------------------------------------------
\* A client that keeps the last token it took has every event up to it that the stream
\* still has, since it first opened one; none from before; and it is sent them in order,
\* none of them twice in a stream.
Whole(c) ==
  /\ \A n \in 0 .. Len(reader[c].sent) :
       LET took == Took(c, n)
       IN  /\ \A id \in kept \cap routed :
                took.since < id /\ id <= took.token => id \in took.has
           /\ \A id \in took.has : id > took.since
  /\ \A i, j \in DOMAIN reader[c].sent :
       LET one == reader[c].sent[i] other == reader[c].sent[j]
       IN  i < j /\ one.event /\ other.event => one.id < other.id

\* That holds through replays, events held meanwhile, connections lost, gateways that end
\* and tokens that were not taken, of everyone who was given nothing in the middle of a
\* recovery, and whose recoveries did not fail.
NoneSkipped == \A c \in Clients \ overtaken : Whole(c)

\* It holds of everyone ("An event reaches every open stream of its key").
EveryOpenStream == \A c \in Clients : Whole(c)

\* Every stream that is asked for opens, unless its gateway was refused the channel, and
\* is past every event the stream of the key has, unless it closes first or the read of a
\* recovery was refused while it was open.
CatchesUp ==
  \A c \in Clients :
    []<>(\/ reader[c].at = "away"
         \/ /\ reader[c].at = "open"
            /\ c \in missed \/ \A id \in kept \cap routed : id <= reader[c].cursor)
==============================================================================
