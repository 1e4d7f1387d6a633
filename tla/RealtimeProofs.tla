--------------------------- MODULE RealtimeProofs ----------------------------
(***************************************************************************)
(* A client of realtime streams that keeps the last token it took has      *)
(* every event up to it, for every number of gateways, clients, events and *)
(* connections lost.                                                       *)
(*                                                                         *)
(* The argument follows an event of the stream that a reader is behind: it *)
(* is in the subscribing connection of its gateway, or in what a recovery  *)
(* read, or a recovery is yet to read it, and what comes to a reader comes *)
(* with nothing left out before it.                                        *)
(***************************************************************************)
EXTENDS MCRegions, ConvergenceProofs, FiniteSetTheorems, WellFoundedInduction, TLAPS

(* The events the stream has. *)
Stored == kept \cap routed

(* Where a reader is once it was given a marker, and what a recovery is yet to read. *)
Placed == {"marked", "reading", "found", "open"}
Owing == {"asking", "next", "reading"}

Asks == [what : {"subscribe"}, n : Nat] \cup {Unsubscribe}
Items == Asks \cup [what : {"event"}, n : Nat]
Links == [up : BOOLEAN, carries : BOOLEAN, asks : Seq(Asks), brings : Seq(Items)]
Entries == [subscribed : BOOLEAN, last : Nat]
Recoveries == [at : Owing \cup {"found", "done"}, after : Nat, found : Seq(Nat)]
Sendings == [event : BOOLEAN, id : Nat]
Streams == [at : Placed \cup {"away", "entering"}, gateway : Gateways, marker : Nat,
            found : Seq(Nat), held : Seq(Nat), cursor : Nat, sent : Seq(Sendings)]
Takers == [token : Nat, since : Nat, has : SUBSET Nat]

Typed ==
  /\ top \in Nat
  /\ kept \subseteq 1 .. top
  /\ routed \subseteq 1 .. top
  /\ link \in [Gateways -> Links]
  /\ entry \in [Gateways -> Entries]
  /\ recovery \in [Gateways -> Seq(Recoveries)]
  /\ reader \in [Clients -> Streams]
  /\ client \in [Clients -> Takers]
  /\ overtaken \subseteq Clients

(* Ids of events given so far. *)
Dates(ids, t) == \A i \in DOMAIN ids : 1 <= ids[i] /\ ids[i] <= t

(* Nothing is ahead of the stream: not what a connection brings, *)
LinkDated(k, t) ==
  \A i \in DOMAIN k.brings : k.brings[i].what = "event" => 1 <= k.brings[i].n /\ k.brings[i].n <= t

(* not what a recovery read, or reads from, *)
RecoveryDated(x, t) == x.after <= t /\ Dates(x.found, t)

(* not a reader, *)
ReaderDated(r, t) ==
  /\ r.marker <= t /\ r.cursor <= t
  /\ r.at \in Placed => r.marker >= 1
  /\ r.at # "open" => r.sent = <<>>
  /\ Dates(r.held, t) /\ Dates(r.found, t)
  /\ \A i \in DOMAIN r.sent : r.sent[i].id <= t

Dated ==
  /\ \A g \in Gateways : /\ LinkDated(link[g], top)
                         /\ entry[g].last <= top
                         /\ \A n \in DOMAIN recovery[g] : RecoveryDated(recovery[g][n], top)
  /\ \A c \in Clients : ReaderDated(reader[c], top) /\ client[c].token <= top

-----------------------------------------------------------------------------
(* Events come by a connection in order. *)
InTurn(k) ==
  \A i, j \in DOMAIN k.brings :
    i < j /\ k.brings[i].what = "event" /\ k.brings[j].what = "event" => k.brings[i].n < k.brings[j].n

(* Two things asked one before the other: no recovery subscribes twice, nor the key, which *)
(* is not unsubscribed once it was asked for. *)
Apart(one, other) ==
  /\ one.what = "subscribe" => one # other
  /\ one = Subscribe(0) => other # Unsubscribe

AllApart(k) ==
  /\ \A i, j \in DOMAIN k.brings : i < j => Apart(k.brings[i], k.brings[j])
  /\ \A i, j \in DOMAIN k.asks : i < j => Apart(k.asks[i], k.asks[j])
  /\ \A i \in DOMAIN k.brings, j \in DOMAIN k.asks : Apart(k.brings[i], k.asks[j])

(* What is asked and not heard of. *)
Pending(k, one) == (\E i \in DOMAIN k.brings : k.brings[i] = one) \/ (\E i \in DOMAIN k.asks : k.asks[i] = one)

(* The connection of a gateway, what it knows of the key and its recoveries: *)
Linked(k, e, x, read) ==
  /\ InTurn(k)
  /\ AllApart(k)
  /\ e.subscribed => ~Pending(k, Subscribe(0)) /\ ~Pending(k, Unsubscribe)
  /\ ~read => ~e.subscribed /\ ~Pending(k, Subscribe(0))
  /\ \A n \in Nat \ {0} : Pending(k, Subscribe(n)) => n \in DOMAIN x /\ x[n].at = "asking"
  /\ k.up /\ (e.subscribed \/ \E i \in DOMAIN k.brings : k.brings[i] = Subscribe(0))
       => k.carries \/ \E i \in DOMAIN k.asks : k.asks[i].what = "subscribe" /\ k.asks[i].n # 0

AllLinked == \A g \in Gateways : Linked(link[g], entry[g], recovery[g], Readers(g) # {})

(* A reader with a marker has the channel, *)
Served(r, e) ==
  /\ r.at \in Placed => e.subscribed
  /\ e.last = 0 => r.at \in {"away", "entering", "marked"}

AllServed == \A c \in Clients : reader[c].at # "away" => Served(reader[c], entry[reader[c].gateway])

-----------------------------------------------------------------------------
(* What a client took. *)
TakerFit(k, E) ==
  /\ \A id \in E : k.since < id /\ id <= k.token => id \in k.has
  /\ \A id \in k.has : id > k.since
  /\ k.token # 0 => k.since <= k.token

(* What an open stream sent: it is after where the client began, *)
After(r, k) ==
  /\ r.cursor >= k.since
  /\ \A i \in DOMAIN r.sent : r.sent[i].event => k.since < r.sent[i].id /\ r.sent[i].id <= r.cursor
  /\ \A i \in DOMAIN r.sent : ~r.sent[i].event => k.since <= r.sent[i].id

(* a token is sent after every event up to it, *)
Covered(r, k, E) ==
  \A n \in DOMAIN r.sent : ~r.sent[n].event =>
    \A id \in E : k.since < id /\ id <= r.sent[n].id =>
      id \in k.has \/ \E i \in DOMAIN r.sent : i < n /\ r.sent[i] = EventOf(id)

(* every event up to the cursor was sent, or had before, *)
Given(r, k, E) ==
  \A id \in E : k.since < id /\ id <= r.cursor => id \in k.has \/ \E i \in DOMAIN r.sent : r.sent[i] = EventOf(id)

(* and they were sent in order. *)
Rising(r) ==
  \A i, j \in DOMAIN r.sent : i < j /\ r.sent[i].event /\ r.sent[j].event => r.sent[i].id < r.sent[j].id

SentFit(r, k, E) == After(r, k) /\ Covered(r, k, E) /\ Given(r, k, E) /\ Rising(r)

(* Events come with none left out before them, after a position. *)
Gapless(ids, after, E) ==
  \A j \in DOMAIN ids : \A id \in E : after < id /\ id < ids[j] => \E i \in DOMAIN ids : i < j /\ ids[i] = id

ReaderFit(r, k, E) ==
  /\ r.at = "open" => SentFit(r, k, E)
  /\ r.at \in {"marked", "reading", "found"} => Gapless(r.held, r.marker, E) /\ k.token <= r.marker
  /\ r.at \in {"reading", "found"} => k.token # 0
  /\ r.at = "found" => /\ Gapless(r.found, k.token, E)
                       /\ \A id \in E : k.token < id /\ id <= r.marker => \E i \in DOMAIN r.found : r.found[i] = id

(* A reader was not given an event and does not hold it. *)
Behind(r, id) == IF r.at = "open" THEN id > r.cursor ELSE id > r.marker /\ \A i \in DOMAIN r.held : r.held[i] # id

(* What a recovery reads, or read, has what a reader is behind. *)
RecoveryFit(r, x, E) ==
  /\ x.at = "reading" => \A id \in E : Behind(r, id) => id > x.after
  /\ x.at = "found" => \A j \in DOMAIN x.found : \A id \in E :
                         Behind(r, id) /\ id < x.found[j] => \E i \in DOMAIN x.found : i < j /\ x.found[i] = id

(* An event a reader is behind is on its way, unless a recovery is yet to read it. *)
NoneOwes(x) == \A n \in DOMAIN x : x[n].at \notin Owing

OnItsWay(k, x, id) ==
  \/ \E i \in DOMAIN k.brings : k.brings[i] = Message(id)
  \/ \E n \in DOMAIN x : x[n].at = "found" /\ \E i \in DOMAIN x[n].found : x[n].found[i] = id

Carried(r, k, x, E) == k.up /\ NoneOwes(x) => \A id \in E : Behind(r, id) => OnItsWay(k, x, id)

(* The last event delivered at a gateway is before it. *)
PastLast(r, e, E) == \A id \in E : Behind(r, id) => id > e.last

Reached(r, k, e, x, E) ==
  /\ PastLast(r, e, E)
  /\ \A n \in DOMAIN x : RecoveryFit(r, x[n], E)
  /\ Carried(r, k, x, E)

Fit(c) ==
  LET r == reader[c] g == r.gateway
  IN  /\ TakerFit(client[c], Stored)
      /\ ReaderFit(r, client[c], Stored)
      /\ r.at \in Placed => Reached(r, link[g], entry[g], recovery[g], Stored)

AllFit == \A c \in Clients \ overtaken : Fit(c)

RealtimeInv == Typed /\ Dated /\ AllLinked /\ AllServed /\ AllFit

-----------------------------------------------------------------------------
(* Some numbers, in order.                                                 *)

(* Some numbers have a least one. *)
LEMMA LeastOf == ASSUME NEW S \in SUBSET Nat, S # {} PROVE \E n \in S : \A m \in S : n <= m
<1>1. IsWellFoundedOn({ss \in Nat \X Nat : ss[1] < ss[2]}, Nat)
  BY NatLessThanWellFounded, Zenon DEF OpToRel
<1>2. PICK n \in S : \A m \in S : <<m, n>> \notin {ss \in Nat \X Nat : ss[1] < ss[2]}
  BY <1>1, WFMin, Zenon
<1>3. ASSUME NEW m \in S, m < n PROVE FALSE
  <2>1. <<m, n>> \in Nat \X Nat /\ <<m, n>>[1] < <<m, n>>[2]
    BY <1>3
  <2>2. QED
    BY <1>2, <2>1, Zenon
<1>4. QED
  BY <1>3

(* How many of some numbers come before one. *)
PlaceIn(S, x) == Cardinality({y \in S : y < x})

(* A rank of a member is a number below how many there are. *)
LEMMA RankBound ==
  ASSUME NEW S \in SUBSET Nat, IsFiniteSet(S), NEW x \in S
  PROVE  PlaceIn(S, x) \in Nat /\ PlaceIn(S, x) < Cardinality(S)
<1>1. PICK less : less = {y \in S : y < x}
  OBVIOUS
<1>2. less \subseteq S /\ x \notin less
  BY <1>1
<1>3. IsFiniteSet(less) /\ Cardinality(less) <= Cardinality(S) /\ Cardinality(less) # Cardinality(S)
  BY <1>2, FS_Subset
<1>4. Cardinality(less) \in Nat /\ Cardinality(S) \in Nat
  BY <1>3, FS_CardinalityType
<1>5. QED
  BY <1>1, <1>3, <1>4 DEF PlaceIn

(* It grows with the member. *)
LEMMA RankGrows ==
  ASSUME NEW S \in SUBSET Nat, IsFiniteSet(S), NEW x \in S, NEW y \in S, x < y
  PROVE  PlaceIn(S, x) < PlaceIn(S, y)
<1>1. PICK less : less = {z \in S : z < x}
  OBVIOUS
<1>2. PICK more : more = {z \in S : z < y}
  OBVIOUS
<1>3. \A z \in S : z \in Nat
  OBVIOUS
<1>4. less \subseteq more /\ x \in more /\ x \notin less /\ more \subseteq S
  <2>1. \A z \in S : z < x => z < y
    BY <1>3
  <2>2. ~(x < x)
    BY <1>3
  <2>3. QED
    BY <1>1, <1>2, <2>1, <2>2
<1>5. IsFiniteSet(more)
  BY <1>4, FS_Subset
<1>6. Cardinality(less) <= Cardinality(more) /\ Cardinality(less) # Cardinality(more) /\ IsFiniteSet(less)
  BY <1>4, <1>5, FS_Subset
<1>7. Cardinality(less) \in Nat /\ Cardinality(more) \in Nat
  BY <1>5, <1>6, FS_CardinalityType
<1>8. QED
  BY <1>1, <1>2, <1>6, <1>7 DEF PlaceIn

(* The least of the numbers above some of them has as many below it. *)
LEMMA NextRank ==
  ASSUME NEW S \in SUBSET Nat, IsFiniteSet(S), NEW B \in SUBSET S, B # S,
         \A x \in B, y \in S : y <= x => y \in B
  PROVE  \E x \in S : PlaceIn(S, x) = Cardinality(B)
<1>1. PICK left : left = S \ B
  OBVIOUS
<1>2. left \in SUBSET Nat /\ left # {}
  BY <1>1
<1>3. PICK x \in left : \A y \in left : x <= y
  BY <1>2, LeastOf
<1>4. {y \in S : y < x} = B
  <2>1. \A z \in S : z \in Nat
    OBVIOUS
  <2>2. ASSUME NEW y \in S, y < x PROVE y \in B
    BY <1>1, <1>3, <2>1, <2>2
  <2>3. ASSUME NEW y \in B PROVE y < x
    BY <1>1, <1>3, <2>1
  <2>4. QED
    BY <2>2, <2>3
<1>5. QED
  BY <1>1, <1>3, <1>4 DEF PlaceIn

(* No rank is left out. *)
LEMMA EachRank ==
  ASSUME NEW S \in SUBSET Nat, IsFiniteSet(S), NEW r \in Nat, r < Cardinality(S)
  PROVE  \E x \in S : PlaceIn(S, x) = r
<1>1. SUFFICES ASSUME ~\E x \in S : PlaceIn(S, x) = r PROVE FALSE
  OBVIOUS
<1>2. PICK none : none = {n \in Nat : n < Cardinality(S) /\ ~\E x \in S : PlaceIn(S, x) = n}
  OBVIOUS
<1>3. none \in SUBSET Nat /\ none # {}
  BY <1>1, <1>2
<1>4. PICK n \in none : \A m \in none : n <= m
  BY <1>3, LeastOf
<1>5. Cardinality(S) \in Nat
  BY FS_CardinalityType
<1>6. n \in Nat /\ n < Cardinality(S) /\ ~\E x \in S : PlaceIn(S, x) = n
  BY <1>2, <1>4
<1>7. CASE n = 0
  <2>1. Cardinality({}) = 0
    BY FS_EmptySet
  <2>2. {} # S
    BY <1>6, <1>7, <2>1
  <2>3. \E x \in S : PlaceIn(S, x) = Cardinality({})
    BY <2>2, NextRank
  <2>4. QED
    BY <1>6, <1>7, <2>1, <2>3
<1>8. CASE n # 0
  <2>1. n - 1 \in Nat /\ n - 1 < Cardinality(S) /\ ~(n <= n - 1)
    BY <1>5, <1>6, <1>8
  <2>2. n - 1 \notin none
    BY <1>4, <2>1
  <2>3. PICK x \in S : PlaceIn(S, x) = n - 1
    BY <1>2, <2>1, <2>2
  <2>4. PICK less : less = {y \in S : y < x}
    OBVIOUS
  <2>5. PICK upto : upto = less \cup {x}
    OBVIOUS
  <2>6. less \subseteq S /\ x \notin less /\ upto \subseteq S
    BY <2>4, <2>5
  <2>7. IsFiniteSet(less)
    BY <2>6, FS_Subset
  <2>8. Cardinality(upto) = Cardinality(less) + 1
    BY <2>5, <2>6, <2>7, FS_AddElement
  <2>9. Cardinality(upto) = n
    BY <1>6, <2>3, <2>4, <2>8 DEF PlaceIn
  <2>10. upto # S
    BY <1>6, <2>9
  <2>11. \A a \in upto, y \in S : y <= a => y \in upto
    BY <2>4, <2>5
  <2>12. \E y \in S : PlaceIn(S, y) = Cardinality(upto)
    BY <2>6, <2>10, <2>11, NextRank
  <2>13. QED
    BY <1>6, <2>9, <2>12
<1>9. QED
  BY <1>7, <1>8

(* InOrder gives each of some numbers once, the smaller before the larger. *)
LEMMA OrderGiven ==
  ASSUME NEW S \in SUBSET Nat, IsFiniteSet(S)
  PROVE  /\ InOrder(S) \in Seq(S)
         /\ \A i, j \in DOMAIN InOrder(S) : i < j => InOrder(S)[i] < InOrder(S)[j]
         /\ \A x \in S : \E i \in DOMAIN InOrder(S) : InOrder(S)[i] = x
<1>1. PICK size : size = Cardinality(S)
  OBVIOUS
<1>2. size \in Nat
  BY <1>1, FS_CardinalityType
<1>3. PICK s : s = InOrder(S)
  OBVIOUS
<1>4. s = [i \in 1 .. size |-> CHOOSE x \in S : PlaceIn(S, x) = i - 1]
  BY <1>1, <1>3 DEF InOrder, PlaceIn
<1>5. ASSUME NEW i \in 1 .. size PROVE s[i] \in S /\ PlaceIn(S, s[i]) = i - 1
  <2>1. i - 1 \in Nat /\ i - 1 < Cardinality(S)
    BY <1>1, <1>2
  <2>2. \E x \in S : PlaceIn(S, x) = i - 1
    BY <2>1, EachRank
  <2>3. s[i] = CHOOSE x \in S : PlaceIn(S, x) = i - 1
    BY <1>4
  <2>4. QED
    BY <2>2, <2>3, Zenon
<1>6. s \in Seq(S) /\ DOMAIN s = 1 .. size
  <2>1. s = [i \in 1 .. size |-> s[i]]
    BY <1>4
  <2>2. s \in [1 .. size -> S]
    BY <1>5, <2>1
  <2>3. QED
    BY <1>2, <2>2
<1>7. ASSUME NEW i \in 1 .. size, NEW j \in 1 .. size, i < j PROVE s[i] < s[j]
  <2>1. s[i] \in S /\ s[j] \in S /\ PlaceIn(S, s[i]) = i - 1 /\ PlaceIn(S, s[j]) = j - 1
    BY <1>5
  <2>2. s[i] \in Nat /\ s[j] \in Nat
    BY <2>1
  <2>3. CASE s[j] < s[i]
    <3>1. PlaceIn(S, s[j]) < PlaceIn(S, s[i])
      BY <2>1, <2>3, RankGrows
    <3>2. QED
      BY <1>2, <1>7, <2>1, <3>1
  <2>4. s[i] # s[j]
    BY <1>2, <1>7, <2>1
  <2>5. QED
    BY <2>2, <2>3, <2>4
<1>8. ASSUME NEW x \in S PROVE \E i \in 1 .. size : s[i] = x
  <2>1. PlaceIn(S, x) \in Nat /\ PlaceIn(S, x) < size
    BY <1>1, RankBound
  <2>2. PICK i \in 1 .. size : i - 1 = PlaceIn(S, x)
    BY <1>2, <2>1
  <2>3. s[i] \in S /\ PlaceIn(S, s[i]) = PlaceIn(S, x)
    BY <1>5, <2>2
  <2>4. ASSUME s[i] < x PROVE FALSE
    <3>1. PlaceIn(S, s[i]) < PlaceIn(S, x)
      BY <2>3, <2>4, RankGrows
    <3>2. QED
      BY <2>1, <2>3, <3>1
  <2>5. ASSUME x < s[i] PROVE FALSE
    <3>1. PlaceIn(S, x) < PlaceIn(S, s[i])
      BY <2>3, <2>5, RankGrows
    <3>2. QED
      BY <2>1, <2>3, <3>1
  <2>6. s[i] \in Nat /\ x \in Nat
    BY <2>3
  <2>7. QED
    BY <2>4, <2>5, <2>6
<1>9. QED
  BY <1>3, <1>6, <1>7, <1>8

-----------------------------------------------------------------------------
(* Events sent in turn.                                                    *)

(* The states of a stream as the first n of some events are sent. *)
Steps(r, ids, n, f) == f = [i \in 0 .. n |-> IF i = 0 THEN r ELSE Write(f[i - 1], ids[i])]

(* There are such states, *)
LEMMA SomeSteps == ASSUME NEW r, NEW ids \in Seq(Nat), NEW n \in Nat PROVE \E f : Steps(r, ids, n, f)
<1>1. SUFFICES ASSUME ~\E f : Steps(r, ids, n, f) PROVE FALSE
  OBVIOUS
<1>2. PICK none : none = {m \in Nat : ~\E f : Steps(r, ids, m, f)}
  OBVIOUS
<1>3. none \in SUBSET Nat /\ none # {}
  BY <1>1, <1>2
<1>4. PICK m \in none : \A l \in none : m <= l
  BY <1>3, LeastOf
<1>5. m \in Nat /\ ~\E f : Steps(r, ids, m, f)
  BY <1>2, <1>4
<1>6. CASE m = 0
  <2>1. PICK f : f = [i \in 0 .. 0 |-> r]
    OBVIOUS
  <2>2. [i \in 0 .. 0 |-> IF i = 0 THEN r ELSE Write(f[i - 1], ids[i])] = [i \in 0 .. 0 |-> r]
    OBVIOUS
  <2>3. Steps(r, ids, 0, f)
    BY <2>1, <2>2 DEF Steps
  <2>4. QED
    BY <1>5, <1>6, <2>3
<1>7. CASE m # 0
  <2>1. m - 1 \in Nat /\ ~(m <= m - 1)
    BY <1>5, <1>7
  <2>2. PICK f : Steps(r, ids, m - 1, f)
    BY <1>2, <1>4, <2>1
  <2>3. PICK h : h = [i \in 0 .. m |-> IF i = m THEN Write(f[m - 1], ids[m]) ELSE f[i]]
    OBVIOUS
  <2>4. ASSUME NEW i \in 0 .. m
        PROVE  h[i] = IF i = 0 THEN r ELSE Write(h[i - 1], ids[i])
    <3>1. CASE i = m
      <4>1. m - 1 \in 0 .. m /\ m - 1 # m
        BY <1>5, <1>7
      <4>2. h[m - 1] = f[m - 1] /\ h[m] = Write(f[m - 1], ids[m])
        BY <1>5, <2>3, <4>1
      <4>3. QED
        BY <1>7, <3>1, <4>2
    <3>2. CASE i # m
      <4>1. i \in 0 .. (m - 1)
        BY <1>5, <3>2
      <4>2. f[i] = IF i = 0 THEN r ELSE Write(f[i - 1], ids[i])
        BY <2>2, <4>1, Zenon DEF Steps
      <4>3. h[i] = f[i]
        BY <2>3, <3>2
      <4>4. i # 0 => i - 1 \in 0 .. m /\ i - 1 # m
        BY <1>5
      <4>5. i # 0 => h[i - 1] = f[i - 1]
        BY <2>3, <4>4
      <4>6. QED
        BY <4>2, <4>3, <4>5
    <3>3. QED
      BY <3>1, <3>2
  <2>5. h = [i \in 0 .. m |-> h[i]]
    BY <2>3
  <2>6. Steps(r, ids, m, h)
    BY <2>4, <2>5, Zenon DEF Steps
  <2>7. QED
    BY <1>5, <2>6
<1>8. QED
  BY <1>6, <1>7

(* and the last of them is what Writes comes to. *)
LastStep(r, ids, f) ==
  /\ Writes(r, ids) = f[Len(ids)]
  /\ f[0] = r
  /\ \A i \in 1 .. Len(ids) : f[i] = Write(f[i - 1], ids[i])

(* Writes takes the steps it should. *)
LEMMA WritesSteps ==
  ASSUME NEW r, NEW ids \in Seq(Nat)
  PROVE  \E f : LastStep(r, ids, f)
<1>1. PICK n \in Nat : n = Len(ids)
  OBVIOUS
<1>2. \E f : Steps(r, ids, n, f)
  BY SomeSteps
<1>3. PICK f : f = CHOOSE h : h = [i \in 0 .. n |-> IF i = 0 THEN r ELSE Write(h[i - 1], ids[i])]
  OBVIOUS
<1>4. f = [i \in 0 .. n |-> IF i = 0 THEN r ELSE Write(f[i - 1], ids[i])]
  BY <1>2, <1>3, Zenon DEF Steps
<1>5. Writes(r, ids) = f[n]
  BY <1>1, <1>3, Zenon DEF Writes
<1>6. f[0] = r
  <2>1. 0 \in 0 .. n
    OBVIOUS
  <2>2. f[0] = IF 0 = 0 THEN r ELSE Write(f[0 - 1], ids[0])
    BY <1>4, <2>1, Zenon
  <2>3. QED
    BY <2>2
<1>7. ASSUME NEW i \in 1 .. n PROVE f[i] = Write(f[i - 1], ids[i])
  <2>1. i \in 0 .. n /\ i # 0
    OBVIOUS
  <2>2. f[i] = IF i = 0 THEN r ELSE Write(f[i - 1], ids[i])
    BY <1>4, <2>1, Zenon
  <2>3. QED
    BY <2>1, <2>2
<1>8. LastStep(r, ids, f)
  BY <1>1, <1>5, <1>6, <1>7 DEF LastStep
<1>9. QED
  BY <1>8

(* A stream that was given events: it is as it was but for what it sent and its cursor, *)
(* which is past them. *)
Wrote(r, w, t) ==
  /\ w \in Streams
  /\ w.at = r.at /\ w.gateway = r.gateway /\ w.marker = r.marker
  /\ w.found = r.found /\ w.held = r.held
  /\ w.cursor >= r.cursor /\ w.cursor <= t
  /\ \A i \in DOMAIN w.sent : w.sent[i].id <= t

(* A stream that may be given events. *)
Writable(r, t) == r \in Streams /\ r.cursor <= t /\ \A i \in DOMAIN r.sent : r.sent[i].id <= t

(* An event adds itself and its token to what was sent, and changes nothing else. *)
LEMMA WriteWrote ==
  ASSUME NEW t \in Nat, NEW r, Writable(r, t), NEW id \in Nat, id <= t
  PROVE  Wrote(r, Write(r, id), t) /\ id <= Write(r, id).cursor
<1>1. r \in Streams /\ r.cursor <= t /\ \A i \in DOMAIN r.sent : r.sent[i].id <= t
  BY DEF Writable
<1>2. CASE id <= r.cursor
  BY <1>1, <1>2 DEF Wrote, Write, Streams
<1>3. CASE ~(id <= r.cursor)
  <2>1. PICK s : s = r.sent \o <<EventOf(id), TokenOf(id)>>
    OBVIOUS
  <2>2. r.sent \in Seq(Sendings) /\ EventOf(id) \in Sendings /\ TokenOf(id) \in Sendings
    BY <1>1 DEF Streams, Sendings, EventOf, TokenOf
  <2>3. s \in Seq(Sendings)
    BY <2>1, <2>2
  <2>4. ASSUME NEW i \in DOMAIN s PROVE s[i].id <= t
    BY <1>1, <2>1, <2>2 DEF EventOf, TokenOf
  <2>5. Write(r, id) = [r EXCEPT !.cursor = id, !.sent = s]
    BY <1>3, <2>1 DEF Write
  <2>6. PICK w : w = Write(r, id)
    OBVIOUS
  <2>7. w \in Streams /\ w.cursor = id /\ w.sent = s
    BY <1>1, <2>3, <2>5, <2>6 DEF Streams
  <2>8. w.at = r.at /\ w.gateway = r.gateway /\ w.marker = r.marker /\ w.found = r.found /\ w.held = r.held
    BY <1>1, <2>5, <2>6 DEF Streams
  <2>9. r.cursor \in Nat
    BY <1>1 DEF Streams
  <2>10. QED
    BY <1>3, <2>4, <2>6, <2>7, <2>8, <2>9 DEF Wrote
<1>4. QED
  BY <1>2, <1>3

(* When nothing of the stream is left out before it, what was sent still fits. *)
LEMMA WriteFit ==
  ASSUME NEW t \in Nat, NEW r, Writable(r, t), NEW k \in Takers, NEW E \in SUBSET Nat,
         NEW id \in Nat, SentFit(r, k, E), \A e \in E : ~(r.cursor < e /\ e < id)
  PROVE  SentFit(Write(r, id), k, E)
<1>1. CASE id <= r.cursor
  BY <1>1 DEF Write
<1>2. CASE ~(id <= r.cursor)
  <2>1. PICK s : s = r.sent \o <<EventOf(id), TokenOf(id)>>
    OBVIOUS
  <2>2. r.sent \in Seq(Sendings) /\ r.cursor \in Nat
    BY DEF Writable, Streams
  <2>3. PICK n \in Nat : n = Len(r.sent) /\ DOMAIN r.sent = 1 .. n
    BY <2>2
  <2>4. /\ DOMAIN s = 1 .. (n + 2)
        /\ \A i \in 1 .. n : s[i] = r.sent[i]
        /\ s[n + 1] = EventOf(id) /\ s[n + 2] = TokenOf(id)
    BY <2>1, <2>2, <2>3
  <2>5. PICK w : w = Write(r, id)
    OBVIOUS
  <2>6. w.sent = s /\ w.cursor = id
    BY <1>2, <2>1, <2>5 DEF Write, Writable, Streams
  <2>7. s[n + 1].event /\ s[n + 1].id = id /\ ~s[n + 2].event /\ s[n + 2].id = id
    BY <2>4 DEF EventOf, TokenOf
  <2>8. \A i \in 1 .. n : r.sent[i] \in Sendings /\ r.sent[i].id \in Nat
    <3>1. \A i \in 1 .. n : r.sent[i] \in Sendings
      BY <2>2, <2>3
    <3>2. QED
      BY <3>1 DEF Sendings
  <2>9. k.since \in Nat /\ \A e \in E : e \in Nat
    BY DEF Takers
  <2>10. /\ r.cursor >= k.since
         /\ \A i \in 1 .. n : s[i].event => k.since < s[i].id /\ s[i].id <= r.cursor
         /\ \A i \in 1 .. n : ~s[i].event => k.since <= s[i].id
    BY <2>3, <2>4 DEF SentFit, After
  <2>11. \A m \in 1 .. n : ~s[m].event =>
           \A e \in E : k.since < e /\ e <= s[m].id =>
             e \in k.has \/ \E i \in 1 .. n : i < m /\ s[i] = EventOf(e)
    <3>1. ASSUME NEW m \in 1 .. n, ~s[m].event, NEW e \in E, k.since < e, e <= s[m].id, e \notin k.has
          PROVE  \E i \in 1 .. n : i < m /\ s[i] = EventOf(e)
      <4>1. s[m] = r.sent[m] /\ m \in DOMAIN r.sent
        BY <2>3, <2>4
      <4>2. PICK i \in DOMAIN r.sent : i < m /\ r.sent[i] = EventOf(e)
        BY <3>1, <4>1 DEF SentFit, Covered
      <4>3. QED
        BY <2>3, <2>4, <4>2
    <3>2. QED
      BY <3>1
  <2>12. \A e \in E : k.since < e /\ e <= r.cursor => e \in k.has \/ \E i \in 1 .. n : s[i] = EventOf(e)
    <3>1. ASSUME NEW e \in E, k.since < e, e <= r.cursor, e \notin k.has
          PROVE  \E i \in 1 .. n : s[i] = EventOf(e)
      <4>1. PICK i \in DOMAIN r.sent : r.sent[i] = EventOf(e)
        BY <3>1 DEF SentFit, Given
      <4>2. QED
        BY <2>3, <2>4, <4>1
    <3>2. QED
      BY <3>1
  <2>13. \A i, j \in 1 .. n : i < j /\ s[i].event /\ s[j].event => s[i].id < s[j].id
    BY <2>3, <2>4 DEF SentFit, Rising
  <2>14. \A i \in 1 .. (n + 2) : i \in 1 .. n \/ i = n + 1 \/ i = n + 2
    OBVIOUS
  <2>15. \A i \in 1 .. n : i \in 1 .. (n + 2) /\ i < n + 1 /\ i < n + 2
    OBVIOUS
  <2>16. \A i \in 1 .. n : s[i].id \in Nat
    BY <2>4, <2>8
  <2>17. ASSUME NEW e \in E, k.since < e, e <= id
         PROVE  e \in k.has \/ \E i \in 1 .. (n + 2) : i < n + 2 /\ s[i] = EventOf(e)
    <3>1. CASE e <= r.cursor
      BY <2>12, <2>15, <2>17, <3>1
    <3>2. CASE ~(e <= r.cursor)
      <4>1. e = id
        BY <2>2, <2>9, <2>17, <3>2
      <4>2. n + 1 \in 1 .. (n + 2) /\ n + 1 < n + 2
        OBVIOUS
      <4>3. QED
        BY <2>4, <4>1, <4>2
    <3>3. QED
      BY <3>1, <3>2
  <2>18. w.cursor >= k.since
    BY <1>2, <2>2, <2>6, <2>9, <2>10
  <2>19. /\ \A i \in 1 .. (n + 2) : s[i].event => k.since < s[i].id /\ s[i].id <= id
         /\ \A i \in 1 .. (n + 2) : ~s[i].event => k.since <= s[i].id
    <3>1. \A i \in 1 .. n : s[i].event => k.since < s[i].id /\ s[i].id <= id
      BY <1>2, <2>2, <2>10, <2>16
    <3>2. k.since < id
      BY <1>2, <2>2, <2>9, <2>10
    <3>3. QED
      BY <2>7, <2>9, <2>10, <2>14, <3>1, <3>2
  <2>20. ASSUME NEW m \in 1 .. (n + 2), ~s[m].event, NEW e \in E, k.since < e, e <= s[m].id
         PROVE  e \in k.has \/ \E i \in 1 .. (n + 2) : i < m /\ s[i] = EventOf(e)
    <3>1. CASE m \in 1 .. n
      BY <2>11, <2>15, <2>20, <3>1
    <3>2. CASE m = n + 2
      BY <2>7, <2>17, <2>20, <3>2
    <3>3. QED
      BY <2>7, <2>14, <2>20, <3>1, <3>2
  <2>21. ASSUME NEW i \in 1 .. (n + 2), NEW j \in 1 .. (n + 2), i < j, s[i].event, s[j].event
         PROVE  s[i].id < s[j].id
    <3>1. CASE j \in 1 .. n
      BY <2>13, <2>21, <3>1
    <3>2. CASE j = n + 1
      <4>1. i \in 1 .. n
        BY <2>21, <3>2
      <4>2. s[i].id <= r.cursor
        BY <2>10, <2>21, <4>1
      <4>3. QED
        BY <1>2, <2>2, <2>7, <2>16, <3>2, <4>1, <4>2
    <3>3. QED
      BY <2>7, <2>14, <2>21, <3>1, <3>2
  <2>22. \A e \in E : k.since < e /\ e <= id => e \in k.has \/ \E i \in 1 .. (n + 2) : s[i] = EventOf(e)
    BY <2>17
  <2>23. SentFit(w, k, E)
    <3>1. After(w, k)
      BY <2>4, <2>6, <2>18, <2>19 DEF After
    <3>2. Covered(w, k, E)
      BY <2>4, <2>6, <2>20 DEF Covered
    <3>3. Given(w, k, E)
      BY <2>4, <2>6, <2>22 DEF Given
    <3>4. Rising(w)
      BY <2>4, <2>6, <2>21 DEF Rising
    <3>5. QED
      BY <3>1, <3>2, <3>3, <3>4 DEF SentFit
  <2>24. QED
    BY <2>5, <2>23
<1>3. QED
  BY <1>1, <1>2

(* So it is for several events. *)
LEMMA WritesWrote ==
  ASSUME NEW t \in Nat, NEW r, Writable(r, t), NEW ids \in Seq(Nat), Dates(ids, t)
  PROVE  Wrote(r, Writes(r, ids), t) /\ \A i \in DOMAIN ids : ids[i] <= Writes(r, ids).cursor
<1>1. PICK f : LastStep(r, ids, f)
  BY WritesSteps
<1>2. /\ Writes(r, ids) = f[Len(ids)]
      /\ f[0] = r
      /\ \A i \in 1 .. Len(ids) : f[i] = Write(f[i - 1], ids[i])
  BY <1>1 DEF LastStep
<1>3. PICK n \in Nat : n = Len(ids) /\ DOMAIN ids = 1 .. n
  OBVIOUS
<1>4. PICK bad : bad = {m \in 0 .. n : ~(Wrote(r, f[m], t) /\ \A i \in 1 .. m : ids[i] <= f[m].cursor)}
  OBVIOUS
<1>5. ASSUME bad # {} PROVE FALSE
  <2>1. bad \in SUBSET Nat
    BY <1>4
  <2>2. PICK m \in bad : \A l \in bad : m <= l
    BY <1>5, <2>1, LeastOf
  <2>3. m \in 0 .. n /\ ~(Wrote(r, f[m], t) /\ \A i \in 1 .. m : ids[i] <= f[m].cursor)
    BY <1>4, <2>2
  <2>4. Wrote(r, f[0], t)
    BY <1>2 DEF Wrote, Writable, Streams
  <2>5. m # 0
    BY <2>3, <2>4
  <2>6. m - 1 \in 0 .. n /\ ~(m <= m - 1) /\ m \in 1 .. n
    BY <2>3, <2>5
  <2>7. Wrote(r, f[m - 1], t) /\ \A i \in 1 .. (m - 1) : ids[i] <= f[m - 1].cursor
    BY <1>4, <2>2, <2>6
  <2>8. Writable(f[m - 1], t)
    BY <2>7 DEF Wrote, Writable
  <2>9. ids[m] \in Nat /\ ids[m] <= t
    BY <1>3, <2>6 DEF Dates
  <2>10. PICK w : w = f[m]
    OBVIOUS
  <2>11. w = Write(f[m - 1], ids[m])
    BY <1>2, <1>3, <2>6, <2>10
  <2>12. Wrote(f[m - 1], w, t) /\ ids[m] <= w.cursor
    BY <2>8, <2>9, <2>11, WriteWrote
  <2>13. r.cursor \in Nat /\ f[m - 1].cursor \in Nat /\ w.cursor \in Nat
    BY <2>7, <2>12 DEF Wrote, Streams, Writable
  <2>14. Wrote(r, w, t)
    BY <2>7, <2>12, <2>13 DEF Wrote
  <2>15. ASSUME NEW i \in 1 .. m PROVE ids[i] <= w.cursor
    <3>1. CASE i = m
      BY <2>12, <3>1
    <3>2. CASE i # m
      <4>1. i \in 1 .. (m - 1) /\ i \in 1 .. n
        BY <2>6, <3>2
      <4>2. ids[i] \in Nat
        BY <1>3, <4>1
      <4>3. ids[i] <= f[m - 1].cursor /\ f[m - 1].cursor <= w.cursor
        BY <2>7, <2>12, <2>13, <4>1 DEF Wrote
      <4>4. QED
        BY <2>13, <4>2, <4>3
    <3>3. QED
      BY <3>1, <3>2
  <2>16. QED
    BY <2>3, <2>10, <2>14, <2>15
<1>6. n \in 0 .. n
  OBVIOUS
<1>7. QED
  BY <1>2, <1>3, <1>4, <1>5, <1>6

(* Events with nothing left out before them leave what was sent fit. *)
LEMMA WritesFit ==
  ASSUME NEW t \in Nat, NEW r, Writable(r, t), NEW k \in Takers, NEW E \in SUBSET Nat,
         NEW ids \in Seq(Nat), Dates(ids, t), SentFit(r, k, E), Gapless(ids, r.cursor, E)
  PROVE  SentFit(Writes(r, ids), k, E)
<1>1. PICK f : LastStep(r, ids, f)
  BY WritesSteps
<1>2. /\ Writes(r, ids) = f[Len(ids)]
      /\ f[0] = r
      /\ \A i \in 1 .. Len(ids) : f[i] = Write(f[i - 1], ids[i])
  BY <1>1 DEF LastStep
<1>3. PICK n \in Nat : n = Len(ids) /\ DOMAIN ids = 1 .. n
  OBVIOUS
<1>4. PICK bad : bad = {m \in 0 .. n : ~(/\ Wrote(r, f[m], t) /\ \A i \in 1 .. m : ids[i] <= f[m].cursor
                                        /\ SentFit(f[m], k, E))}
  OBVIOUS
<1>5. ASSUME bad # {} PROVE FALSE
  <2>1. bad \in SUBSET Nat
    BY <1>4
  <2>2. PICK m \in bad : \A l \in bad : m <= l
    BY <1>5, <2>1, LeastOf
  <2>3. m \in 0 .. n /\ ~(/\ Wrote(r, f[m], t) /\ \A i \in 1 .. m : ids[i] <= f[m].cursor
                          /\ SentFit(f[m], k, E))
    BY <1>4, <2>2
  <2>4. Wrote(r, f[0], t) /\ SentFit(f[0], k, E)
    BY <1>2 DEF Wrote, Writable, Streams
  <2>5. m # 0
    BY <2>3, <2>4
  <2>6. m - 1 \in 0 .. n /\ ~(m <= m - 1) /\ m \in 1 .. n
    BY <2>3, <2>5
  <2>7. Wrote(r, f[m - 1], t) /\ (\A i \in 1 .. (m - 1) : ids[i] <= f[m - 1].cursor) /\ SentFit(f[m - 1], k, E)
    BY <1>4, <2>2, <2>6
  <2>8. PICK v : v = f[m - 1]
    OBVIOUS
  <2>9. Writable(v, t) /\ v.cursor \in Nat /\ r.cursor \in Nat /\ v.cursor >= r.cursor
    BY <2>7, <2>8 DEF Wrote, Writable, Streams
  <2>10. ids[m] \in Nat /\ ids[m] <= t
    BY <1>3, <2>6 DEF Dates
  <2>11. PICK w : w = f[m]
    OBVIOUS
  <2>12. w = Write(v, ids[m])
    BY <1>2, <1>3, <2>6, <2>8, <2>11
  <2>13. Wrote(v, w, t) /\ ids[m] <= w.cursor
    BY <2>9, <2>10, <2>12, WriteWrote
  <2>14. w.cursor \in Nat
    BY <2>13 DEF Wrote, Streams
  <2>15. Wrote(r, w, t)
    BY <2>7, <2>8, <2>9, <2>13, <2>14 DEF Wrote
  <2>16. ASSUME NEW i \in 1 .. m PROVE ids[i] <= w.cursor
    <3>1. CASE i = m
      BY <2>13, <3>1
    <3>2. CASE i # m
      <4>1. i \in 1 .. (m - 1) /\ i \in 1 .. n
        BY <2>6, <3>2
      <4>2. ids[i] \in Nat
        BY <1>3, <4>1
      <4>3. ids[i] <= v.cursor /\ v.cursor <= w.cursor
        BY <2>7, <2>8, <2>9, <2>13, <2>14, <4>1 DEF Wrote
      <4>4. QED
        BY <2>9, <2>14, <4>2, <4>3
    <3>3. QED
      BY <3>1, <3>2
  <2>17. ASSUME NEW e \in E, v.cursor < e, e < ids[m] PROVE FALSE
    <3>1. r.cursor < e
      BY <2>9, <2>17
    <3>2. PICK i \in DOMAIN ids : i < m /\ ids[i] = e
      BY <1>3, <2>6, <2>17, <3>1 DEF Gapless
    <3>3. i \in 1 .. (m - 1)
      BY <1>3, <2>6, <3>2
    <3>4. QED
      BY <2>7, <2>8, <2>9, <2>17, <3>2, <3>3
  <2>18. SentFit(w, k, E)
    BY <2>7, <2>8, <2>9, <2>10, <2>12, <2>17, WriteFit
  <2>19. QED
    BY <2>3, <2>11, <2>15, <2>16, <2>18
<1>6. n \in 0 .. n
  OBVIOUS
<1>7. QED
  BY <1>2, <1>3, <1>4, <1>5, <1>6

(* A token may follow once every event up to it was sent. *)
LEMMA TokenFit ==
  ASSUME NEW r \in Streams, NEW k \in Takers, NEW E, NEW id \in Nat, SentFit(r, k, E), k.since <= id,
         \A e \in E : k.since < e /\ e <= id => e \in k.has
  PROVE  SentFit([r EXCEPT !.sent = Append(@, TokenOf(id))], k, E)
<1>1. PICK s : s = Append(r.sent, TokenOf(id))
  OBVIOUS
<1>2. PICK w : w = [r EXCEPT !.sent = Append(@, TokenOf(id))]
  OBVIOUS
<1>3. w.sent = s /\ w.cursor = r.cursor /\ r.sent \in Seq(Sendings)
  BY <1>1, <1>2 DEF Streams
<1>4. PICK n \in Nat : n = Len(r.sent) /\ DOMAIN r.sent = 1 .. n
  BY <1>3
<1>5. /\ DOMAIN s = 1 .. (n + 1)
      /\ \A i \in 1 .. n : s[i] = r.sent[i] /\ i \in 1 .. (n + 1)
      /\ s[n + 1] = TokenOf(id)
  BY <1>1, <1>3, <1>4
<1>6. ~s[n + 1].event /\ s[n + 1].id = id
  BY <1>5 DEF TokenOf
<1>7. \A i \in 1 .. (n + 1) : i \in 1 .. n \/ i = n + 1
  OBVIOUS
<1>8. After(w, k)
  BY <1>3, <1>4, <1>5, <1>6, <1>7 DEF After, SentFit
<1>9. Covered(w, k, E)
  <2>1. SUFFICES ASSUME NEW m \in 1 .. (n + 1), ~s[m].event, NEW e \in E, k.since < e, e <= s[m].id, e \notin k.has
                 PROVE  \E i \in 1 .. (n + 1) : i < m /\ s[i] = EventOf(e)
    BY <1>3, <1>5 DEF Covered
  <2>2. m \in 1 .. n
    BY <1>6, <1>7, <2>1
  <2>3. PICK i \in DOMAIN r.sent : i < m /\ r.sent[i] = EventOf(e)
    BY <1>4, <1>5, <2>1, <2>2 DEF Covered, SentFit
  <2>4. QED
    BY <1>4, <1>5, <2>3
<1>10. Given(w, k, E)
  <2>1. SUFFICES ASSUME NEW e \in E, k.since < e, e <= r.cursor, e \notin k.has
                 PROVE  \E i \in 1 .. (n + 1) : s[i] = EventOf(e)
    BY <1>3, <1>5 DEF Given
  <2>2. PICK i \in DOMAIN r.sent : r.sent[i] = EventOf(e)
    BY <2>1 DEF Given, SentFit
  <2>3. QED
    BY <1>4, <1>5, <2>2
<1>11. Rising(w)
  BY <1>3, <1>4, <1>5, <1>6, <1>7 DEF Rising, SentFit
<1>12. QED
  BY <1>2, <1>8, <1>9, <1>10, <1>11 DEF SentFit

(* Nothing is left out of two runs of events when nothing is between them. *)
LEMMA GaplessTogether ==
  ASSUME NEW ids \in Seq(Nat), NEW more \in Seq(Nat), NEW a \in Nat, NEW m \in Nat, NEW E \in SUBSET Nat,
         Gapless(ids, a, E), Gapless(more, m, E),
         \A id \in E : a < id /\ id <= m => \E i \in DOMAIN ids : ids[i] = id
  PROVE  Gapless(ids \o more, a, E)
<1>1. PICK s : s = ids \o more
  OBVIOUS
<1>2. PICK n \in Nat : n = Len(ids) /\ DOMAIN ids = 1 .. n
  OBVIOUS
<1>3. PICK l \in Nat : l = Len(more) /\ DOMAIN more = 1 .. l
  OBVIOUS
<1>4. /\ DOMAIN s = 1 .. (n + l)
      /\ \A i \in 1 .. n : s[i] = ids[i] /\ i \in 1 .. (n + l)
      /\ \A i \in 1 .. l : s[n + i] = more[i] /\ n + i \in 1 .. (n + l)
  BY <1>1, <1>2, <1>3
<1>5. SUFFICES Gapless(s, a, E)
  BY <1>1
<1>6. SUFFICES ASSUME NEW j \in DOMAIN s, NEW id \in E, a < id, id < s[j]
               PROVE  \E i \in DOMAIN s : i < j /\ s[i] = id
  BY Zenon DEF Gapless
<1>7. CASE j \in 1 .. n
  <2>1. PICK i \in DOMAIN ids : i < j /\ ids[i] = id
    BY <1>2, <1>4, <1>6, <1>7 DEF Gapless
  <2>2. QED
    BY <1>2, <1>4, <2>1
<1>8. CASE j \notin 1 .. n
  <2>1. j \in Nat /\ n < j /\ j <= n + l
    BY <1>4, <1>6, <1>8
  <2>2. PICK h \in 1 .. l : j = n + h
    <3>1. j - n \in 1 .. l /\ j = n + (j - n)
      BY <2>1
    <3>2. QED
      BY <3>1
  <2>3. CASE id <= m
    <3>1. PICK i \in DOMAIN ids : ids[i] = id
      BY <1>6, <2>3
    <3>2. i < j /\ i \in 1 .. n
      BY <1>2, <2>1, <3>1
    <3>3. i \in DOMAIN s /\ s[i] = id
      BY <1>4, <3>1, <3>2
    <3>4. QED
      BY <3>2, <3>3
  <2>4. CASE ~(id <= m)
    <3>1. m < id /\ id < more[h]
      BY <1>4, <1>6, <2>2, <2>4
    <3>2. PICK i \in DOMAIN more : i < h /\ more[i] = id
      BY <1>3, <3>1 DEF Gapless
    <3>3. n + i < j /\ s[n + i] = id /\ n + i \in 1 .. (n + l)
      BY <1>3, <1>4, <2>2, <3>2
    <3>4. QED
      BY <1>4, <3>3
  <2>5. QED
    BY <2>3, <2>4
<1>9. QED
  BY <1>7, <1>8

(* What is read of the stream is every event of it after a position, in order. *)
LEMMA FoundAll ==
  ASSUME Typed, NEW after \in Nat
  PROVE  /\ Found(after) \in Seq(Nat)
         /\ Dates(Found(after), top)
         /\ \A i \in DOMAIN Found(after) : Found(after)[i] \in Stored /\ Found(after)[i] > after
         /\ \A id \in Stored : id > after => \E i \in DOMAIN Found(after) : Found(after)[i] = id
         /\ \A i, j \in DOMAIN Found(after) : i < j => Found(after)[i] < Found(after)[j]
<1>1. PICK S : S = {id \in kept \cap routed : id > after}
  OBVIOUS
<1>2. S \subseteq 1 .. top /\ top \in Nat
  BY <1>1 DEF Typed
<1>3. IsFiniteSet(1 .. top)
  BY <1>2, FS_Interval
<1>4. S \in SUBSET Nat /\ IsFiniteSet(S)
  <2>1. S \in SUBSET Nat
    BY <1>2
  <2>2. IsFiniteSet(S)
    BY <1>2, <1>3, FS_Subset
  <2>3. QED
    BY <2>1, <2>2
<1>5. PICK s : s = InOrder(S)
  OBVIOUS
<1>6. Found(after) = s
  BY <1>1, <1>5 DEF Found
<1>7. /\ s \in Seq(S)
      /\ \A i, j \in DOMAIN s : i < j => s[i] < s[j]
      /\ \A x \in S : \E i \in DOMAIN s : s[i] = x
  BY <1>4, <1>5, OrderGiven
<1>8. \A i \in DOMAIN s : s[i] \in S
  BY <1>7
<1>9. s \in Seq(Nat)
  <2>1. \A i \in 1 .. Len(s) : s[i] \in Nat
    <3>1. DOMAIN s = 1 .. Len(s)
      BY <1>7
    <3>2. \A x \in S : x \in Nat
      BY <1>4
    <3>3. QED
      BY <1>8, <3>1, <3>2
  <2>2. QED
    BY <1>7, <2>1
<1>10. Dates(s, top)
  <2>1. \A x \in S : 1 <= x /\ x <= top
    BY <1>2
  <2>2. QED
    BY <1>8, <2>1 DEF Dates
<1>11. \A i \in DOMAIN s : s[i] \in Stored /\ s[i] > after
  BY <1>1, <1>8 DEF Stored
<1>12. \A id \in Stored : id > after => \E i \in DOMAIN s : s[i] = id
  BY <1>1, <1>7 DEF Stored
<1>13. QED
  BY <1>6, <1>7, <1>9, <1>10, <1>11, <1>12

(* So nothing is left out of it after any position from there on. *)
LEMMA FoundGapless ==
  ASSUME Typed, NEW after \in Nat, NEW j \in DOMAIN Found(after), NEW id \in Stored, id > after, id < Found(after)[j]
  PROVE  \E i \in DOMAIN Found(after) : i < j /\ Found(after)[i] = id
<1>1. PICK s : s = Found(after)
  OBVIOUS
<1>2. /\ s \in Seq(Nat)
      /\ \A e \in Stored : e > after => \E i \in DOMAIN s : s[i] = e
      /\ \A i, l \in DOMAIN s : i < l => s[i] < s[l]
  BY <1>1, FoundAll
<1>3. PICK i \in DOMAIN s : s[i] = id
  BY <1>2
<1>4. i \in Nat /\ j \in Nat /\ s[i] \in Nat /\ s[j] \in Nat
  BY <1>1, <1>2, <1>3
<1>5. ~(j < i) /\ i # j
  BY <1>1, <1>2, <1>3, <1>4
<1>6. QED
  BY <1>1, <1>3, <1>4, <1>5

-----------------------------------------------------------------------------
(* Streams that open.                                                      *)

(* A stream that opened at a position, with what was found and what it held given. *)
Readied(r, w, cursor, found, t) ==
  /\ w \in Streams
  /\ w.at = "open" /\ w.gateway = r.gateway /\ w.marker = r.marker
  /\ w.cursor >= cursor
  /\ \A i \in DOMAIN found : found[i] <= w.cursor
  /\ \A i \in DOMAIN r.held : r.held[i] <= w.cursor
  /\ ReaderDated(w, t)

(* The stream as it opens, before anything is given. *)
Opened(r, cursor) == [r EXCEPT !.at = "open", !.cursor = cursor, !.found = <<>>, !.held = <<>>]

(* Some events and others: *)
Joint(ids, more, s) ==
  /\ s \in Seq(Nat)
  /\ \A i \in DOMAIN ids : \E j \in DOMAIN s : s[j] = ids[i]
  /\ \A i \in DOMAIN more : \E j \in DOMAIN s : s[j] = more[i]
  /\ \A j \in DOMAIN s : (\E i \in DOMAIN ids : s[j] = ids[i]) \/ \E i \in DOMAIN more : s[j] = more[i]

(* a run of events before another has those of both. *)
LEMMA Together ==
  ASSUME NEW ids \in Seq(Nat), NEW more \in Seq(Nat)
  PROVE  Joint(ids, more, ids \o more)
<1>1. PICK s : s = ids \o more
  OBVIOUS
<1>2. PICK n \in Nat : n = Len(ids) /\ DOMAIN ids = 1 .. n
  OBVIOUS
<1>3. PICK l \in Nat : l = Len(more) /\ DOMAIN more = 1 .. l
  OBVIOUS
<1>4. /\ s \in Seq(Nat)
      /\ DOMAIN s = 1 .. (n + l)
      /\ \A i \in 1 .. n : s[i] = ids[i] /\ i \in 1 .. (n + l)
      /\ \A i \in 1 .. l : s[n + i] = more[i] /\ n + i \in 1 .. (n + l)
  BY <1>1, <1>2, <1>3
<1>5. ASSUME NEW j \in DOMAIN s
      PROVE  (\E i \in DOMAIN ids : s[j] = ids[i]) \/ \E i \in DOMAIN more : s[j] = more[i]
  <2>1. CASE j \in 1 .. n
    BY <1>2, <1>4, <2>1
  <2>2. CASE j \notin 1 .. n
    <3>1. j \in Nat /\ n < j /\ j <= n + l
      BY <1>4, <2>2
    <3>2. PICK i \in 1 .. l : j = n + i
      <4>1. j - n \in 1 .. l /\ j = n + (j - n)
        BY <3>1
      <4>2. QED
        BY <4>1
    <3>3. QED
      BY <1>3, <1>4, <3>2
  <2>3. QED
    BY <2>1, <2>2
<1>6. /\ \A i \in DOMAIN ids : \E j \in DOMAIN s : s[j] = ids[i]
      /\ \A i \in DOMAIN more : \E j \in DOMAIN s : s[j] = more[i]
  BY <1>2, <1>3, <1>4
<1>7. Joint(ids, more, s)
  BY <1>4, <1>5, <1>6 DEF Joint
<1>8. QED
  BY <1>1, <1>7

(* A stream as it opens sent nothing yet. *)
LEMMA AsItOpens ==
  ASSUME NEW t, NEW r \in Streams, r.at # "open", ReaderDated(r, t), NEW cursor \in Nat
  PROVE  /\ Opened(r, cursor) \in Streams
         /\ Opened(r, cursor).at = "open" /\ Opened(r, cursor).gateway = r.gateway
         /\ Opened(r, cursor).marker = r.marker /\ Opened(r, cursor).found = <<>>
         /\ Opened(r, cursor).held = <<>> /\ Opened(r, cursor).cursor = cursor
         /\ Opened(r, cursor).sent = <<>>
<1>1. <<>> \in Seq(Nat) /\ r.sent = <<>>
  BY DEF ReaderDated
<1>2. QED
  BY <1>1 DEF Opened, Streams, Placed

(* Ready opens a stream past all it is given. *)
LEMMA ReadyTyped ==
  ASSUME NEW t \in Nat, NEW r \in Streams, r.at # "open", r.at \in Placed, ReaderDated(r, t), NEW cursor \in Nat,
         cursor <= t, NEW found \in Seq(Nat), Dates(found, t)
  PROVE  Readied(r, Ready(r, cursor, found), cursor, found, t)
<1>1. PICK o : o = Opened(r, cursor)
  OBVIOUS
<1>2. /\ o \in Streams /\ o.at = "open" /\ o.gateway = r.gateway /\ o.marker = r.marker
      /\ o.found = <<>> /\ o.held = <<>> /\ o.cursor = cursor /\ o.sent = <<>>
  BY <1>1, AsItOpens
<1>3. Writable(o, t)
  BY <1>2 DEF Writable
<1>4. PICK ids : ids = found \o r.held
  OBVIOUS
<1>5. r.held \in Seq(Nat) /\ Dates(r.held, t)
  BY DEF Streams, ReaderDated
<1>6. Joint(found, r.held, ids)
  BY <1>4, <1>5, Together
<1>7. ids \in Seq(Nat) /\ Dates(ids, t)
  BY <1>5, <1>6 DEF Joint, Dates
<1>8. PICK w : w = Writes(o, ids)
  OBVIOUS
<1>9. Wrote(o, w, t) /\ \A i \in DOMAIN ids : ids[i] <= w.cursor
  BY <1>3, <1>7, <1>8, WritesWrote
<1>10. /\ \A i \in DOMAIN found : found[i] <= w.cursor
      /\ \A i \in DOMAIN r.held : r.held[i] <= w.cursor
  <2>1. /\ \A i \in DOMAIN found : \E j \in DOMAIN ids : ids[j] = found[i]
        /\ \A i \in DOMAIN r.held : \E j \in DOMAIN ids : ids[j] = r.held[i]
    BY <1>6 DEF Joint
  <2>2. ASSUME NEW i \in DOMAIN found PROVE found[i] <= w.cursor
    BY <1>9, <2>1
  <2>3. ASSUME NEW i \in DOMAIN r.held PROVE r.held[i] <= w.cursor
    BY <1>9, <2>1
  <2>4. QED
    BY <2>2, <2>3
<1>11. r.marker \in Nat /\ r.marker <= t /\ r.marker >= 1
  BY DEF Streams, ReaderDated
<1>12. Readied(r, w, cursor, found, t)
  <2>1. w \in Streams /\ w.at = "open" /\ w.gateway = r.gateway /\ w.marker = r.marker /\ w.cursor >= cursor
    BY <1>2, <1>9 DEF Wrote
  <2>2. w.found = <<>> /\ w.held = <<>> /\ w.cursor <= t /\ \A i \in DOMAIN w.sent : w.sent[i].id <= t
    BY <1>2, <1>9 DEF Wrote
  <2>3. ReaderDated(w, t)
    BY <1>11, <2>1, <2>2 DEF ReaderDated, Dates
  <2>4. QED
    BY <1>10, <2>1, <2>3 DEF Readied
<1>13. CASE found # <<>>
  <2>1. Ready(r, cursor, found) = w
    BY <1>1, <1>4, <1>8, <1>13 DEF Ready, Opened
  <2>2. QED
    BY <1>12, <2>1
<1>14. CASE found = <<>>
  <2>1. PICK v : v = [w EXCEPT !.sent = Append(@, TokenOf(r.marker))]
    OBVIOUS
  <2>2. Ready(r, cursor, found) = v
    BY <1>1, <1>4, <1>8, <1>14, <2>1 DEF Ready, Opened
  <2>3. w \in Streams
    BY <1>12 DEF Readied
  <2>4. w.sent \in Seq(Sendings) /\ TokenOf(r.marker) \in Sendings /\ TokenOf(r.marker).id = r.marker
    BY <1>11, <2>3 DEF Streams, Sendings, TokenOf
  <2>5. PICK s : s = Append(w.sent, TokenOf(r.marker))
    OBVIOUS
  <2>6. s \in Seq(Sendings)
    BY <2>4, <2>5
  <2>7. \A i \in DOMAIN w.sent : w.sent[i].id <= t
    BY <1>12 DEF Readied, ReaderDated
  <2>8. \A i \in DOMAIN s : s[i].id <= t
    BY <1>11, <2>4, <2>5, <2>7
  <2>9. v \in Streams /\ v.sent = s
    BY <2>1, <2>3, <2>5, <2>6 DEF Streams
  <2>10. /\ v.at = w.at /\ v.gateway = w.gateway /\ v.marker = w.marker /\ v.cursor = w.cursor
         /\ v.held = w.held /\ v.found = w.found
    BY <2>1, <2>3 DEF Streams
  <2>11. ReaderDated(v, t)
    BY <1>12, <2>8, <2>9, <2>10 DEF ReaderDated, Readied
  <2>12. Readied(r, v, cursor, found, t)
    BY <1>12, <2>9, <2>10, <2>11 DEF Readied
  <2>13. QED
    BY <2>2, <2>12
<1>15. QED
  BY <1>13, <1>14

(* What it sends fits when nothing is left out of what it is given, and of what comes *)
(* before that the client has everything. *)
LEMMA ReadyFit ==
  ASSUME NEW t \in Nat, NEW r \in Streams, r.at # "open", r.at \in Placed, ReaderDated(r, t), NEW cursor \in Nat,
         cursor <= t, NEW found \in Seq(Nat), Dates(found, t), NEW k \in Takers, NEW E \in SUBSET Nat,
         Gapless(found \o r.held, cursor, E), cursor >= k.since,
         \A id \in E : k.since < id /\ id <= cursor => id \in k.has,
         found = <<>> => k.since <= r.marker /\ \A id \in E : k.since < id /\ id <= r.marker => id \in k.has
  PROVE  SentFit(Ready(r, cursor, found), k, E)
<1>1. PICK o : o = Opened(r, cursor)
  OBVIOUS
<1>2. o \in Streams /\ o.cursor = cursor /\ o.sent = <<>>
  BY <1>1, AsItOpens
<1>3. Writable(o, t)
  BY <1>2 DEF Writable
<1>4. PICK ids : ids = found \o r.held
  OBVIOUS
<1>5. r.held \in Seq(Nat) /\ Dates(r.held, t)
  BY DEF Streams, ReaderDated
<1>6. Joint(found, r.held, ids)
  BY <1>4, <1>5, Together
<1>7. ids \in Seq(Nat) /\ Dates(ids, t)
  BY <1>5, <1>6 DEF Joint, Dates
<1>8. PICK w : w = Writes(o, ids)
  OBVIOUS
<1>9. SentFit(o, k, E)
  <2>1. DOMAIN o.sent = {}
    BY <1>2
  <2>2. After(o, k) /\ Covered(o, k, E) /\ Rising(o)
    BY <1>2, <2>1 DEF After, Covered, Rising
  <2>3. Given(o, k, E)
    BY <1>2 DEF Given
  <2>4. QED
    BY <2>2, <2>3 DEF SentFit
<1>10. SentFit(w, k, E)
  BY <1>2, <1>3, <1>4, <1>8, <1>9, <1>7, WritesFit
<1>11. w \in Streams /\ w.sent \in Seq(Sendings)
  BY <1>3, <1>8, <1>7, WritesWrote DEF Wrote, Streams
<1>12. r.marker \in Nat
  BY DEF Streams
<1>13. CASE found # <<>>
  BY <1>1, <1>4, <1>8, <1>10, <1>13 DEF Ready, Opened
<1>14. CASE found = <<>>
  <2>1. Ready(r, cursor, found) = [w EXCEPT !.sent = Append(@, TokenOf(r.marker))]
    BY <1>1, <1>4, <1>8, <1>14 DEF Ready, Opened
  <2>2. SentFit([w EXCEPT !.sent = Append(@, TokenOf(r.marker))], k, E)
    BY <1>10, <1>11, <1>12, <1>14, TokenFit
  <2>3. QED
    BY <2>1, <2>2
<1>15. QED
  BY <1>13, <1>14

-----------------------------------------------------------------------------
(* What holds of the events the stream has holds when some are gone, and when some are *)
(* new and after everything.                                                           *)

Newer(E, F, t) == \A id \in F : id \in Nat /\ (id \in E \/ id > t)

(* What a client took still fits, *)
LEMMA TakerLasts ==
  ASSUME NEW t \in Nat, NEW k \in Takers, k.token <= t, NEW E, NEW F, Newer(E, F, t), TakerFit(k, E)
  PROVE  TakerFit(k, F)
<1>1. k.token \in Nat
  BY DEF Takers
<1>2. QED
  BY <1>1 DEF TakerFit, Newer

(* nothing is left out of some events that was not, *)
LEMMA GaplessLasts ==
  ASSUME NEW t \in Nat, NEW ids \in Seq(Nat), Dates(ids, t), NEW a, NEW E, NEW F, Newer(E, F, t), Gapless(ids, a, E)
  PROVE  Gapless(ids, a, F)
<1>1. SUFFICES ASSUME NEW j \in DOMAIN ids, NEW id \in F, a < id, id < ids[j]
               PROVE  \E i \in DOMAIN ids : i < j /\ ids[i] = id
  BY Zenon DEF Gapless
<1>2. ids[j] \in Nat /\ ids[j] <= t /\ id \in Nat
  BY <1>1 DEF Dates, Newer
<1>3. id \in E
  BY <1>1, <1>2 DEF Newer
<1>4. QED
  BY <1>1, <1>3 DEF Gapless

(* and so does what a reader was given and holds. *)
LEMMA ReaderLasts ==
  ASSUME NEW t \in Nat, NEW r \in Streams, ReaderDated(r, t), NEW k \in Takers, k.token <= t,
         NEW E, NEW F, Newer(E, F, t), ReaderFit(r, k, E)
  PROVE  ReaderFit(r, k, F)
<1>1. r.cursor \in Nat /\ r.marker \in Nat /\ r.found \in Seq(Nat) /\ r.held \in Seq(Nat) /\ r.sent \in Seq(Sendings)
  BY DEF Streams
<1>2. r.cursor <= t /\ r.marker <= t /\ Dates(r.held, t) /\ Dates(r.found, t) /\ \A i \in DOMAIN r.sent : r.sent[i].id <= t
  BY DEF ReaderDated
<1>3. ASSUME r.at = "open" PROVE SentFit(r, k, F)
  <2>1. SentFit(r, k, E)
    BY <1>3 DEF ReaderFit
  <2>2. Given(r, k, F)
    <3>1. \A id \in F : id <= r.cursor => id \in E
      BY <1>1, <1>2 DEF Newer
    <3>2. QED
      BY <2>1, <3>1 DEF SentFit, Given
  <2>3. Covered(r, k, F)
    <3>1. SUFFICES ASSUME NEW n \in DOMAIN r.sent, ~r.sent[n].event, NEW id \in F, k.since < id, id <= r.sent[n].id
                   PROVE  id \in k.has \/ \E i \in DOMAIN r.sent : i < n /\ r.sent[i] = EventOf(id)
      BY DEF Covered
    <3>2. r.sent[n] \in Sendings
      BY <1>1
    <3>3. r.sent[n].id \in Nat /\ r.sent[n].id <= t /\ id \in Nat
      BY <1>2, <3>2 DEF Sendings, Newer
    <3>4. id \in E
      BY <3>1, <3>3 DEF Newer
    <3>5. QED
      BY <2>1, <3>1, <3>4 DEF SentFit, Covered
  <2>4. QED
    BY <2>1, <2>2, <2>3 DEF SentFit
<1>4. ASSUME r.at \in {"marked", "reading", "found"} PROVE Gapless(r.held, r.marker, F) /\ k.token <= r.marker
  <2>1. Gapless(r.held, r.marker, E) /\ k.token <= r.marker
    BY <1>4 DEF ReaderFit
  <2>2. Gapless(r.held, r.marker, F)
    BY <1>1, <1>2, <2>1, GaplessLasts
  <2>3. QED
    BY <2>1, <2>2
<1>5. ASSUME r.at = "found"
      PROVE  /\ Gapless(r.found, k.token, F)
             /\ \A id \in F : k.token < id /\ id <= r.marker => \E i \in DOMAIN r.found : r.found[i] = id
  <2>1. /\ Gapless(r.found, k.token, E)
        /\ \A id \in E : k.token < id /\ id <= r.marker => \E i \in DOMAIN r.found : r.found[i] = id
    BY <1>5 DEF ReaderFit
  <2>2. Gapless(r.found, k.token, F)
    BY <1>1, <1>2, <2>1, GaplessLasts
  <2>3. \A id \in F : id <= r.marker => id \in E
    BY <1>1, <1>2 DEF Newer
  <2>4. QED
    BY <2>1, <2>2, <2>3
<1>6. r.at \in {"reading", "found"} => k.token # 0
  BY DEF ReaderFit
<1>7. QED
  BY <1>3, <1>4, <1>5, <1>6 DEF ReaderFit

(* What the last event and the recoveries of a gateway leave to a reader is there still. *)
LEMMA RecoveryLasts ==
  ASSUME NEW t \in Nat, NEW r, NEW x \in Recoveries, RecoveryDated(x, t), NEW E, NEW F, Newer(E, F, t), RecoveryFit(r, x, E)
  PROVE  RecoveryFit(r, x, F)
<1>1. x.after \in Nat /\ x.after <= t /\ x.found \in Seq(Nat) /\ Dates(x.found, t)
  BY DEF Recoveries, RecoveryDated
<1>2. ASSUME x.at = "reading", NEW id \in F, Behind(r, id) PROVE id > x.after
  <2>1. id \in Nat /\ (id \in E \/ id > t)
    BY DEF Newer
  <2>2. id \in E => id > x.after
    BY <1>2 DEF RecoveryFit
  <2>3. QED
    BY <1>1, <2>1, <2>2
<1>3. ASSUME x.at = "found", NEW j \in DOMAIN x.found, NEW id \in F, Behind(r, id), id < x.found[j]
      PROVE  \E i \in DOMAIN x.found : i < j /\ x.found[i] = id
  <2>1. x.found[j] \in Nat /\ x.found[j] <= t
    BY <1>1 DEF Dates
  <2>2. id \in E
    BY <1>3, <2>1 DEF Newer
  <2>3. QED
    BY <1>3, <2>2 DEF RecoveryFit
<1>4. QED
  BY <1>2, <1>3 DEF RecoveryFit

(* A reader that is behind less than another misses no more. *)
Closer(r, w, E) == \A id \in E : Behind(w, id) => Behind(r, id)

(* What a recovery leaves to it is there, *)
LEMMA RecoveryCloser ==
  ASSUME NEW r, NEW w, NEW x, NEW E, Closer(r, w, E), RecoveryFit(r, x, E)
  PROVE  RecoveryFit(w, x, E)
BY DEF Closer, RecoveryFit

(* and so is all the rest. *)
LEMMA ReachedCloser ==
  ASSUME NEW r, NEW w, NEW k, NEW e, NEW x, NEW E, Closer(r, w, E), Reached(r, k, e, x, E)
  PROVE  Reached(w, k, e, x, E)
<1>1. PastLast(w, e, E) /\ Carried(w, k, x, E)
  BY DEF Closer, Reached, PastLast, Carried
<1>2. \A n \in DOMAIN x : RecoveryFit(w, x[n], E)
  BY RecoveryCloser DEF Reached
<1>3. QED
  BY <1>1, <1>2 DEF Reached

-----------------------------------------------------------------------------
(* Events that are delivered.                                              *)

(* They come with none left out of those a reader is behind. *)
Following(r, ids, E) ==
  \A j \in DOMAIN ids : \A id \in E : Behind(r, id) /\ id < ids[j] => \E i \in DOMAIN ids : i < j /\ ids[i] = id

(* A reader that events were delivered to is where it was, and is behind none of them. *)
Handed(r, w, ids, t) ==
  /\ w \in Streams
  /\ w.at = r.at /\ w.gateway = r.gateway /\ w.marker = r.marker
  /\ ReaderDated(w, t)
  /\ \A id \in Nat : Behind(w, id) => Behind(r, id) /\ \A i \in DOMAIN ids : ids[i] # id

(* Delivery changes nothing else. *)
LEMMA DeliverHands ==
  ASSUME NEW t \in Nat, NEW r \in Streams, ReaderDated(r, t), NEW ids \in Seq(Nat), Dates(ids, t)
  PROVE  Handed(r, DeliverTo(r, ids), ids, t)
<1>1. PICK w : w = DeliverTo(r, ids)
  OBVIOUS
<1>2. CASE r.at = "open"
  <2>1. w = Writes(r, ids)
    BY <1>1, <1>2 DEF DeliverTo
  <2>2. Writable(r, t)
    BY DEF Writable, ReaderDated
  <2>3. Wrote(r, w, t) /\ \A i \in DOMAIN ids : ids[i] <= w.cursor
    BY <2>1, <2>2, WritesWrote
  <2>4. /\ w \in Streams
        /\ w.at = r.at /\ w.gateway = r.gateway /\ w.marker = r.marker /\ w.held = r.held /\ w.found = r.found
        /\ w.cursor >= r.cursor /\ w.cursor <= t
        /\ \A i \in DOMAIN w.sent : w.sent[i].id <= t
    BY <2>3 DEF Wrote
  <2>5. ReaderDated(w, t)
    BY <1>2, <2>4 DEF ReaderDated
  <2>6. w.cursor \in Nat /\ r.cursor \in Nat
    BY <2>4 DEF Streams
  <2>7. ASSUME NEW id \in Nat, Behind(w, id) PROVE Behind(r, id) /\ \A i \in DOMAIN ids : ids[i] # id
    <3>1. id > w.cursor
      BY <1>2, <2>4, <2>7 DEF Behind
    <3>2. \A i \in DOMAIN ids : ids[i] \in Nat
      OBVIOUS
    <3>3. QED
      BY <1>2, <2>3, <2>4, <2>6, <3>1, <3>2 DEF Behind
  <2>8. QED
    BY <1>1, <2>4, <2>5, <2>7 DEF Handed
<1>3. CASE r.at # "open"
  <2>1. PICK held : held = r.held \o ids
    OBVIOUS
  <2>2. w = [r EXCEPT !.held = held]
    BY <1>1, <1>3, <2>1 DEF DeliverTo
  <2>3. r.held \in Seq(Nat) /\ Dates(r.held, t)
    BY DEF Streams, ReaderDated
  <2>4. Joint(r.held, ids, held)
    BY <2>1, <2>3, Together
  <2>5. held \in Seq(Nat) /\ Dates(held, t)
    BY <2>3, <2>4 DEF Joint, Dates
  <2>6. /\ w \in Streams /\ w.held = held
        /\ w.at = r.at /\ w.gateway = r.gateway /\ w.marker = r.marker /\ w.found = r.found
        /\ w.cursor = r.cursor /\ w.sent = r.sent
    BY <2>2, <2>5 DEF Streams
  <2>7. ReaderDated(w, t)
    BY <2>5, <2>6 DEF ReaderDated
  <2>8. ASSUME NEW id \in Nat, Behind(w, id) PROVE Behind(r, id) /\ \A i \in DOMAIN ids : ids[i] # id
    <3>1. id > r.marker /\ \A i \in DOMAIN held : held[i] # id
      BY <1>3, <2>6, <2>8 DEF Behind
    <3>2. \A i \in DOMAIN r.held : r.held[i] # id
      BY <2>4, <3>1 DEF Joint
    <3>3. \A i \in DOMAIN ids : ids[i] # id
      BY <2>4, <3>1 DEF Joint
    <3>4. QED
      BY <1>3, <3>1, <3>2, <3>3 DEF Behind
  <2>9. QED
    BY <1>1, <2>6, <2>7, <2>8 DEF Handed
<1>4. QED
  BY <1>2, <1>3

(* What the reader was given, and holds, fits when none was left out. *)
LEMMA DeliverFit ==
  ASSUME NEW t \in Nat, NEW r \in Streams, ReaderDated(r, t), NEW ids \in Seq(Nat), Dates(ids, t),
         NEW k \in Takers, NEW E \in SUBSET Nat, ReaderFit(r, k, E), r.at \in Placed => Following(r, ids, E)
  PROVE  ReaderFit(DeliverTo(r, ids), k, E)
<1>1. PICK w : w = DeliverTo(r, ids)
  OBVIOUS
<1>2. w.at = r.at
  BY <1>1, DeliverHands DEF Handed
<1>3. CASE r.at = "open"
  <2>1. Gapless(ids, r.cursor, E)
    BY <1>3 DEF Following, Behind, Gapless, Placed
  <2>2. Writable(r, t) /\ SentFit(r, k, E)
    BY <1>3 DEF Writable, ReaderDated, ReaderFit
  <2>3. SentFit(w, k, E)
    BY <1>1, <1>3, <2>1, <2>2, WritesFit DEF DeliverTo
  <2>4. QED
    BY <1>1, <1>2, <1>3, <2>3 DEF ReaderFit
<1>4. CASE r.at # "open"
  <2>1. PICK held : held = r.held \o ids
    OBVIOUS
  <2>2. w = [r EXCEPT !.held = held]
    BY <1>1, <1>4, <2>1 DEF DeliverTo
  <2>3. w.held = held /\ w.marker = r.marker /\ w.found = r.found /\ r.held \in Seq(Nat)
    BY <2>2 DEF Streams
  <2>4. ASSUME r.at \in {"marked", "reading", "found"} PROVE Gapless(held, r.marker, E)
    <3>1. Gapless(r.held, r.marker, E) /\ Following(r, ids, E)
      BY <2>4 DEF ReaderFit, Placed
    <3>2. PICK n \in Nat : n = Len(r.held) /\ DOMAIN r.held = 1 .. n
      <4>1. Len(r.held) \in Nat /\ DOMAIN r.held = 1 .. Len(r.held)
        BY <2>3
      <4>2. QED
        BY <4>1
    <3>3. PICK l \in Nat : l = Len(ids) /\ DOMAIN ids = 1 .. l
      OBVIOUS
    <3>4. /\ DOMAIN held = 1 .. (n + l)
          /\ \A i \in 1 .. n : held[i] = r.held[i] /\ i \in 1 .. (n + l)
          /\ \A i \in 1 .. l : held[n + i] = ids[i] /\ n + i \in 1 .. (n + l)
      BY <2>1, <2>3, <3>2, <3>3
    <3>5. SUFFICES ASSUME NEW j \in DOMAIN held, NEW id \in E, r.marker < id, id < held[j]
                   PROVE  \E i \in DOMAIN held : i < j /\ held[i] = id
      BY Zenon DEF Gapless
    <3>6. CASE j \in 1 .. n
      <4>1. PICK i \in DOMAIN r.held : i < j /\ r.held[i] = id
        BY <3>1, <3>2, <3>4, <3>5, <3>6 DEF Gapless
      <4>2. QED
        BY <3>2, <3>4, <4>1
    <3>7. CASE j \notin 1 .. n
      <4>1. j \in Nat /\ n < j /\ j <= n + l
        BY <3>4, <3>7
      <4>2. PICK h \in 1 .. l : j = n + h
        <5>1. j - n \in 1 .. l /\ j = n + (j - n)
          BY <4>1
        <5>2. QED
          BY <5>1
      <4>3. CASE \E i \in DOMAIN r.held : r.held[i] = id
        <5>1. PICK i \in 1 .. n : r.held[i] = id
          BY <3>2, <4>3
        <5>2. i < j
          BY <4>1, <5>1
        <5>3. i \in DOMAIN held /\ held[i] = id
          BY <3>4, <5>1
        <5>4. QED
          BY <5>2, <5>3
      <4>4. CASE ~\E i \in DOMAIN r.held : r.held[i] = id
        <5>1. Behind(r, id)
          BY <1>4, <3>5, <4>4 DEF Behind
        <5>2. id < ids[h]
          BY <3>4, <3>5, <4>2
        <5>3. PICK i \in DOMAIN ids : i < h /\ ids[i] = id
          BY <3>1, <3>3, <4>2, <5>1, <5>2 DEF Following
        <5>4. n + i < j /\ held[n + i] = id /\ n + i \in DOMAIN held
          BY <3>3, <3>4, <4>2, <5>3
        <5>5. QED
          BY <5>4
      <4>5. QED
        BY <4>3, <4>4
    <3>8. QED
      BY <3>6, <3>7
  <2>5. QED
    BY <1>1, <1>2, <1>4, <2>3, <2>4 DEF ReaderFit
<1>5. QED
  BY <1>3, <1>4

-----------------------------------------------------------------------------
(* What is asked on a connection, and what comes by it.                    *)

(* What a connection brings grows by one thing: *)
Brings(k, l, one) ==
  /\ l \in Links
  /\ DOMAIN k.brings = 1 .. Len(k.brings) /\ DOMAIN l.brings = 1 .. (Len(k.brings) + 1)
  /\ \A i \in DOMAIN k.brings : l.brings[i] = k.brings[i]
  /\ l.brings[Len(k.brings) + 1] = one

(* and what it is asked by one. *)
Asked(k, l, one) ==
  /\ l \in Links
  /\ DOMAIN k.asks = 1 .. Len(k.asks) /\ DOMAIN l.asks = 1 .. (Len(k.asks) + 1)
  /\ \A i \in DOMAIN k.asks : l.asks[i] = k.asks[i]
  /\ l.asks[Len(k.asks) + 1] = one
  /\ l.brings = k.brings

(* An event that comes after all others leaves a connection in order. *)
LEMMA LinkedEvent ==
  ASSUME NEW t \in Nat, NEW k \in Links, LinkDated(k, t), NEW e, NEW x, NEW read, Linked(k, e, x, read),
         NEW l, Brings(k, l, Message(t + 1)), l.up = k.up, l.carries = k.carries, l.asks = k.asks
  PROVE  Linked(l, e, x, read) /\ LinkDated(l, t + 1)
<1>1. PICK n \in Nat : n = Len(k.brings) /\ DOMAIN k.brings = 1 .. n
  BY DEF Links
<1>2. /\ DOMAIN l.brings = 1 .. (n + 1)
      /\ \A i \in 1 .. n : l.brings[i] = k.brings[i] /\ i \in 1 .. (n + 1)
      /\ l.brings[n + 1] = Message(t + 1)
  BY <1>1 DEF Brings
<1>3. \A i \in 1 .. (n + 1) : i \in 1 .. n \/ i = n + 1
  OBVIOUS
<1>4. l.brings[n + 1].what = "event" /\ l.brings[n + 1].n = t + 1
  BY <1>2 DEF Message
<1>5. \A i \in 1 .. n : k.brings[i] \in Items
  BY <1>1 DEF Links
<1>6. \A i \in 1 .. n : k.brings[i].n \in Nat
  BY <1>5 DEF Items, Asks, Unsubscribe
<1>7. \A i \in 1 .. n : k.brings[i].what = "event" => 1 <= k.brings[i].n /\ k.brings[i].n <= t
  BY <1>1 DEF LinkDated
<1>8. LinkDated(l, t + 1)
  <2>1. ASSUME NEW i \in 1 .. (n + 1), l.brings[i].what = "event" PROVE 1 <= l.brings[i].n /\ l.brings[i].n <= t + 1
    BY <1>2, <1>3, <1>4, <1>6, <1>7, <2>1
  <2>2. QED
    BY <1>2, <2>1 DEF LinkDated
<1>9. InTurn(l)
  <2>1. InTurn(k)
    BY DEF Linked
  <2>2. ASSUME NEW i \in 1 .. (n + 1), NEW j \in 1 .. (n + 1), i < j, l.brings[i].what = "event", l.brings[j].what = "event"
        PROVE  l.brings[i].n < l.brings[j].n
    <3>1. CASE j \in 1 .. n
      <4>1. i \in 1 .. n
        BY <2>2, <3>1
      <4>2. QED
        BY <1>1, <1>2, <2>1, <2>2, <3>1, <4>1 DEF InTurn
    <3>2. CASE j = n + 1
      <4>1. i \in 1 .. n
        BY <2>2, <3>2
      <4>2. l.brings[i].n <= t /\ l.brings[i].n \in Nat
        BY <1>2, <1>6, <1>7, <2>2, <4>1
      <4>3. QED
        BY <1>4, <3>2, <4>2
    <3>3. QED
      BY <1>3, <3>1, <3>2
  <2>3. QED
    BY <1>2, <2>2 DEF InTurn
<1>10. \A y : Apart(y, Message(t + 1))
  BY DEF Apart, Message, Subscribe, Unsubscribe
<1>11. \A y : Apart(Message(t + 1), y)
  BY DEF Apart, Message, Subscribe, Unsubscribe
<1>12. AllApart(l)
  <2>1. AllApart(k)
    BY DEF Linked
  <2>2. ASSUME NEW i \in 1 .. (n + 1), NEW j \in 1 .. (n + 1), i < j PROVE Apart(l.brings[i], l.brings[j])
    <3>1. CASE j \in 1 .. n
      <4>1. i \in 1 .. n
        BY <2>2, <3>1
      <4>2. QED
        BY <1>1, <1>2, <2>1, <2>2, <3>1, <4>1 DEF AllApart
    <3>2. QED
      BY <1>2, <1>3, <1>10, <3>1
  <2>3. ASSUME NEW i \in 1 .. (n + 1), NEW j \in DOMAIN l.asks PROVE Apart(l.brings[i], l.asks[j])
    BY <1>1, <1>2, <1>3, <1>11, <2>1 DEF AllApart
  <2>4. \A i, j \in DOMAIN l.asks : i < j => Apart(l.asks[i], l.asks[j])
    BY <2>1 DEF AllApart
  <2>5. QED
    BY <1>2, <2>2, <2>3, <2>4 DEF AllApart
<1>13. ASSUME NEW one, one.what # "event", Pending(l, one) PROVE Pending(k, one)
  BY <1>1, <1>2, <1>3, <1>4, <1>13 DEF Pending
<1>14. \A m : Pending(l, Subscribe(m)) => Pending(k, Subscribe(m))
  <2>1. \A m : Subscribe(m).what # "event"
    BY DEF Subscribe
  <2>2. QED
    BY <1>13, <2>1
<1>15. Pending(l, Unsubscribe) => Pending(k, Unsubscribe)
  BY <1>13 DEF Unsubscribe
<1>16. (\E i \in DOMAIN l.brings : l.brings[i] = Subscribe(0)) => \E i \in DOMAIN k.brings : k.brings[i] = Subscribe(0)
  <2>1. Message(t + 1) # Subscribe(0)
    BY DEF Message, Subscribe
  <2>2. QED
    BY <1>1, <1>2, <1>3, <2>1
<1>17. Linked(l, e, x, read)
  BY <1>9, <1>12, <1>14, <1>15, <1>16 DEF Linked
<1>18. QED
  BY <1>8, <1>17

(* Something more is asked, apart from what is pending. *)
LEMMA AskedParts ==
  ASSUME NEW k \in Links, NEW l, NEW one, Asked(k, l, one), InTurn(k), AllApart(k),
         \A y : Pending(k, y) => Apart(y, one)
  PROVE  /\ InTurn(l)
         /\ AllApart(l)
         /\ \A y : Pending(l, y) => Pending(k, y) \/ y = one
<1>1. PICK n \in Nat : n = Len(k.asks) /\ DOMAIN k.asks = 1 .. n
  BY DEF Links
<1>2. /\ DOMAIN l.asks = 1 .. (n + 1)
      /\ \A i \in 1 .. n : l.asks[i] = k.asks[i]
      /\ l.asks[n + 1] = one
      /\ l.brings = k.brings
  BY <1>1 DEF Asked
<1>3. \A i \in 1 .. (n + 1) : i \in 1 .. n \/ i = n + 1
  OBVIOUS
<1>4. InTurn(l)
  BY <1>2 DEF InTurn
<1>5. AllApart(l)
  <2>1. ASSUME NEW i \in 1 .. (n + 1), NEW j \in 1 .. (n + 1), i < j PROVE Apart(l.asks[i], l.asks[j])
    <3>1. i \in 1 .. n
      BY <2>1
    <3>2. CASE j \in 1 .. n
      BY <1>1, <1>2, <2>1, <3>1, <3>2 DEF AllApart
    <3>3. CASE j = n + 1
      <4>1. Pending(k, k.asks[i])
        BY <1>1, <3>1 DEF Pending
      <4>2. QED
        BY <1>2, <3>1, <3>3, <4>1
    <3>4. QED
      BY <1>3, <3>2, <3>3
  <2>2. ASSUME NEW i \in DOMAIN l.brings, NEW j \in 1 .. (n + 1) PROVE Apart(l.brings[i], l.asks[j])
    <3>1. CASE j \in 1 .. n
      BY <1>1, <1>2, <3>1 DEF AllApart
    <3>2. CASE j = n + 1
      <4>1. Pending(k, k.brings[i])
        BY <1>2 DEF Pending
      <4>2. QED
        BY <1>2, <3>2, <4>1
    <3>3. QED
      BY <1>3, <3>1, <3>2
  <2>3. QED
    BY <1>2, <2>1, <2>2 DEF AllApart
<1>6. ASSUME NEW y, Pending(l, y), y # one PROVE Pending(k, y)
  BY <1>1, <1>2, <1>3, <1>6 DEF Pending
<1>7. QED
  BY <1>4, <1>5, <1>6

(* Subscriptions are told apart by who asks. *)
LEMMA SubscribesApart ==
  /\ \A m, n : Subscribe(m) = Subscribe(n) => m = n
  /\ \A m : Subscribe(m) # Unsubscribe /\ Subscribe(m).what = "subscribe" /\ Subscribe(m).n = m
  /\ Unsubscribe.what = "unsubscribe"
  /\ \A m, id : Message(id) # Subscribe(m) /\ Message(id) # Unsubscribe /\ Message(id).what = "event"
BY DEF Subscribe, Unsubscribe, Message

(* The first reader of the key subscribes. *)
LEMMA LinkedFirst ==
  ASSUME NEW k \in Links, NEW l, NEW e, NEW x, Linked(k, e, x, FALSE), Asked(k, l, Subscribe(0)),
         l.up = k.up, l.carries = k.carries
  PROVE  Linked(l, Unread, x, TRUE)
<1>1. ~Pending(k, Subscribe(0)) /\ InTurn(k) /\ AllApart(k)
  BY DEF Linked
<1>2. \A y : Pending(k, y) => Apart(y, Subscribe(0))
  BY <1>1, SubscribesApart DEF Apart
<1>3. InTurn(l) /\ AllApart(l) /\ \A y : Pending(l, y) => Pending(k, y) \/ y = Subscribe(0)
  BY <1>1, <1>2, AskedParts
<1>4. ~Unread.subscribed
  BY DEF Unread
<1>5. \A n \in Nat \ {0} : Pending(l, Subscribe(n)) => n \in DOMAIN x /\ x[n].at = "asking"
  <2>1. ASSUME NEW n \in Nat \ {0}, Pending(l, Subscribe(n)) PROVE Pending(k, Subscribe(n))
    BY <1>3, <2>1, SubscribesApart
  <2>2. QED
    BY <2>1 DEF Linked
<1>6. ~\E i \in DOMAIN l.brings : l.brings[i] = Subscribe(0)
  BY <1>1 DEF Asked, Pending
<1>7. QED
  BY <1>3, <1>4, <1>5, <1>6 DEF Linked

(* The last one unsubscribes. *)
LEMMA LinkedLast ==
  ASSUME NEW k \in Links, NEW l, NEW e, e.subscribed, NEW x, Linked(k, e, x, TRUE), Asked(k, l, Unsubscribe),
         l.up = k.up, l.carries = k.carries
  PROVE  Linked(l, Unread, Dropped(x), FALSE)
<1>1. ~Pending(k, Subscribe(0)) /\ InTurn(k) /\ AllApart(k)
  BY DEF Linked
<1>2. \A y : Pending(k, y) => Apart(y, Unsubscribe)
  BY <1>1, SubscribesApart DEF Apart
<1>3. InTurn(l) /\ AllApart(l) /\ \A y : Pending(l, y) => Pending(k, y) \/ y = Unsubscribe
  BY <1>1, <1>2, AskedParts
<1>4. ~Unread.subscribed
  BY DEF Unread
<1>5. \A n : Pending(l, Subscribe(n)) => Pending(k, Subscribe(n))
  BY <1>3, SubscribesApart
<1>6. \A n \in Nat \ {0} : Pending(l, Subscribe(n)) => n \in DOMAIN Dropped(x) /\ Dropped(x)[n].at = "asking"
  BY <1>5 DEF Linked, Dropped
<1>7. ~\E i \in DOMAIN l.brings : l.brings[i] = Subscribe(0)
  BY <1>1 DEF Asked, Pending
<1>8. QED
  BY <1>1, <1>3, <1>4, <1>5, <1>6, <1>7 DEF Linked

(* A recovery subscribes once the connection is back. *)
LEMMA LinkedBack ==
  ASSUME NEW k \in Links, NEW l, NEW e, NEW x \in Seq(Recoveries), Linked(k, e, x, TRUE),
         Asked(k, l, Subscribe(Len(x) + 1))
  PROVE  Linked(l, e, Append(x, Recovery("asking")), TRUE)
<1>1. PICK n \in Nat \ {0} : n = Len(x) + 1
  OBVIOUS
<1>2. InTurn(k) /\ AllApart(k)
  BY DEF Linked
<1>3. n \notin DOMAIN x
  BY <1>1
<1>4. ~Pending(k, Subscribe(n))
  BY <1>3 DEF Linked
<1>5. \A y : Pending(k, y) => Apart(y, Subscribe(n))
  BY <1>4, SubscribesApart DEF Apart
<1>6. InTurn(l) /\ AllApart(l) /\ \A y : Pending(l, y) => Pending(k, y) \/ y = Subscribe(n)
  BY <1>1, <1>2, <1>5, AskedParts
<1>7. PICK z : z = Append(x, Recovery("asking"))
  OBVIOUS
<1>8. n \in DOMAIN z /\ z[n].at = "asking" /\ \A m \in DOMAIN x : m \in DOMAIN z /\ z[m] = x[m]
  BY <1>1, <1>7 DEF Recovery
<1>9. ASSUME NEW m \in Nat \ {0}, Pending(l, Subscribe(m)) PROVE m \in DOMAIN z /\ z[m].at = "asking"
  <2>1. Pending(k, Subscribe(m)) \/ m = n
    BY <1>6, <1>9, SubscribesApart
  <2>2. Pending(k, Subscribe(m)) => m \in DOMAIN x /\ x[m].at = "asking"
    BY DEF Linked
  <2>3. QED
    BY <1>8, <2>1, <2>2
<1>10. e.subscribed => ~Pending(l, Subscribe(0)) /\ ~Pending(l, Unsubscribe)
  BY <1>1, <1>6, SubscribesApart DEF Linked
<1>11. \E i \in DOMAIN l.asks : l.asks[i].what = "subscribe" /\ l.asks[i].n # 0
  <2>1. PICK i \in DOMAIN l.asks : l.asks[i] = Subscribe(n)
    BY <1>1 DEF Asked, Links
  <2>2. QED
    BY <1>1, <2>1, SubscribesApart
<1>12. Linked(l, e, z, TRUE)
  BY <1>6, <1>9, <1>10, <1>11 DEF Linked
<1>13. QED
  BY <1>7, <1>12

(* Redis answers what it is asked, and carries the channel or not. *)
LEMMA LinkedServe ==
  ASSUME NEW t, NEW k \in Links, LinkDated(k, t), k.asks # <<>>, NEW l \in Links, NEW e, NEW x, NEW read, Linked(k, e, x, read),
         l.up = k.up, l.asks = Tail(k.asks), l.brings = Append(k.brings, Head(k.asks)),
         l.carries = (Head(k.asks).what = "subscribe")
  PROVE  Linked(l, e, x, read) /\ LinkDated(l, t)
<1>1. PICK n \in Nat : n = Len(k.brings) /\ DOMAIN k.brings = 1 .. n
  BY DEF Links
<1>2. PICK m \in Nat : m + 1 = Len(k.asks) /\ DOMAIN k.asks = 1 .. (m + 1)
  <2>1. k.asks \in Seq(Asks)
    BY DEF Links
  <2>2. Len(k.asks) \in Nat \ {0} /\ DOMAIN k.asks = 1 .. Len(k.asks)
    BY <2>1
  <2>3. Len(k.asks) - 1 \in Nat /\ (Len(k.asks) - 1) + 1 = Len(k.asks)
    BY <2>2
  <2>4. QED
    BY <2>2, <2>3
<1>3. PICK one : one = k.asks[1]
  OBVIOUS
<1>4. one \in Asks /\ 1 \in 1 .. (m + 1)
  BY <1>2, <1>3 DEF Links
<1>5. /\ DOMAIN l.brings = 1 .. (n + 1)
      /\ \A i \in 1 .. n : l.brings[i] = k.brings[i]
      /\ l.brings[n + 1] = one
  BY <1>1, <1>2, <1>3, <1>4 DEF Links
<1>6. DOMAIN l.asks = 1 .. m /\ \A i \in 1 .. m : l.asks[i] = k.asks[i + 1] /\ i + 1 \in 1 .. (m + 1) /\ 1 < i + 1
  BY <1>2 DEF Links
<1>7. \A i \in 1 .. (n + 1) : i \in 1 .. n \/ i = n + 1
  OBVIOUS
<1>8. one.what # "event" /\ (one = Unsubscribe \/ one.what = "subscribe")
  <2>1. CASE one = Unsubscribe
    BY <2>1 DEF Unsubscribe
  <2>2. CASE one \in [what : {"subscribe"}, n : Nat]
    BY <2>2
  <2>3. QED
    BY <1>4, <2>1, <2>2 DEF Asks
<1>9. LinkDated(l, t)
  BY <1>1, <1>5, <1>7, <1>8 DEF LinkDated
<1>10. InTurn(l)
  <2>1. InTurn(k)
    BY DEF Linked
  <2>2. QED
    BY <1>1, <1>5, <1>7, <1>8, <2>1 DEF InTurn
<1>11. AllApart(l)
  <2>1. AllApart(k)
    BY DEF Linked
  <2>2. ASSUME NEW i \in 1 .. (n + 1), NEW j \in 1 .. (n + 1), i < j PROVE Apart(l.brings[i], l.brings[j])
    <3>1. i \in 1 .. n
      BY <2>2
    <3>2. CASE j \in 1 .. n
      BY <1>1, <1>5, <2>1, <2>2, <3>1, <3>2 DEF AllApart
    <3>3. CASE j = n + 1
      BY <1>1, <1>2, <1>3, <1>4, <1>5, <2>1, <3>1, <3>3 DEF AllApart
    <3>4. QED
      BY <1>7, <3>2, <3>3
  <2>3. ASSUME NEW i \in 1 .. m, NEW j \in 1 .. m, i < j PROVE Apart(l.asks[i], l.asks[j])
    <3>1. i + 1 < j + 1 /\ i + 1 \in DOMAIN k.asks /\ j + 1 \in DOMAIN k.asks
      BY <1>2, <1>6, <2>3
    <3>2. Apart(k.asks[i + 1], k.asks[j + 1])
      BY <2>1, <3>1 DEF AllApart
    <3>3. QED
      BY <1>6, <3>2
  <2>4. ASSUME NEW i \in 1 .. (n + 1), NEW j \in 1 .. m PROVE Apart(l.brings[i], l.asks[j])
    <3>1. j + 1 \in DOMAIN k.asks /\ 1 \in DOMAIN k.asks /\ 1 < j + 1 /\ l.asks[j] = k.asks[j + 1]
      BY <1>2, <1>4, <1>6
    <3>2. CASE i \in 1 .. n
      <4>1. Apart(k.brings[i], k.asks[j + 1])
        BY <1>1, <2>1, <3>1, <3>2 DEF AllApart
      <4>2. QED
        BY <1>5, <3>1, <3>2, <4>1
    <3>3. CASE i = n + 1
      <4>1. Apart(k.asks[1], k.asks[j + 1])
        BY <2>1, <3>1 DEF AllApart
      <4>2. QED
        BY <1>3, <1>5, <3>1, <3>3, <4>1
    <3>4. QED
      BY <1>7, <3>2, <3>3
  <2>5. QED
    BY <1>5, <1>6, <2>2, <2>3, <2>4 DEF AllApart
<1>12. ASSUME NEW y, Pending(l, y) PROVE Pending(k, y)
  <2>1. CASE \E i \in DOMAIN l.brings : l.brings[i] = y
    BY <1>1, <1>2, <1>3, <1>4, <1>5, <1>7, <2>1 DEF Pending
  <2>2. CASE \E i \in DOMAIN l.asks : l.asks[i] = y
    BY <1>2, <1>6, <2>2 DEF Pending
  <2>3. QED
    BY <1>12, <2>1, <2>2 DEF Pending
<1>13. ASSUME l.up, e.subscribed \/ \E i \in DOMAIN l.brings : l.brings[i] = Subscribe(0), ~l.carries
       PROVE  \E i \in DOMAIN l.asks : l.asks[i].what = "subscribe" /\ l.asks[i].n # 0
  <2>1. one = Unsubscribe
    BY <1>2, <1>3, <1>8, <1>13 DEF Links
  <2>2. Pending(k, Unsubscribe)
    BY <1>2, <1>3, <1>4, <2>1 DEF Pending
  <2>3. ~e.subscribed
    BY <2>2 DEF Linked
  <2>4. PICK i \in 1 .. (n + 1) : l.brings[i] = Subscribe(0)
    BY <1>5, <1>13, <2>3
  <2>5. i \in 1 .. n
    BY <1>5, <1>7, <2>1, <2>4, SubscribesApart
  <2>6. Apart(k.brings[i], k.asks[1])
    BY <1>1, <1>2, <1>4, <2>5 DEF Linked, AllApart
  <2>7. FALSE
    BY <1>3, <1>5, <2>1, <2>4, <2>5, <2>6 DEF Apart
  <2>8. QED
    BY <2>7
<1>14. Linked(l, e, x, read)
  BY <1>10, <1>11, <1>12, <1>13 DEF Linked
<1>15. QED
  BY <1>9, <1>14

(* What a gateway hears was first of what its connection brought: *)
Heard(k, l, t) ==
  /\ LinkDated(l, t) /\ InTurn(l) /\ AllApart(l)
  /\ Pending(k, Head(k.brings)) /\ Head(k.brings) \in Items
  /\ \E i \in DOMAIN k.brings : k.brings[i] = Head(k.brings)
  /\ \A y : Pending(l, y) => Pending(k, y) /\ Apart(Head(k.brings), y)
  /\ \A i \in DOMAIN l.brings : \E j \in DOMAIN k.brings : k.brings[j] = l.brings[i]
  /\ \A i \in DOMAIN k.brings : k.brings[i] = Head(k.brings) \/ \E j \in DOMAIN l.brings : l.brings[j] = k.brings[i]
  /\ \A i \in DOMAIN l.brings : Head(k.brings).what = "event" /\ l.brings[i].what = "event"
                                  => Head(k.brings).n < l.brings[i].n

(* the rest comes after it. *)
LEMMA HeardParts ==
  ASSUME NEW t, NEW k \in Links, LinkDated(k, t), k.brings # <<>>, NEW l \in Links,
         InTurn(k), AllApart(k), l.asks = k.asks, l.brings = Tail(k.brings)
  PROVE  Heard(k, l, t)
<1>1. PICK m \in Nat : m + 1 = Len(k.brings) /\ DOMAIN k.brings = 1 .. (m + 1)
  <2>1. k.brings \in Seq(Items)
    BY DEF Links
  <2>2. Len(k.brings) \in Nat \ {0} /\ DOMAIN k.brings = 1 .. Len(k.brings)
    BY <2>1
  <2>3. Len(k.brings) - 1 \in Nat /\ (Len(k.brings) - 1) + 1 = Len(k.brings)
    BY <2>2
  <2>4. QED
    BY <2>2, <2>3
<1>2. PICK one : one = Head(k.brings)
  OBVIOUS
<1>3. one = k.brings[1] /\ 1 \in 1 .. (m + 1) /\ one \in Items
  BY <1>1, <1>2 DEF Links
<1>4. /\ DOMAIN l.brings = 1 .. m
      /\ \A i \in 1 .. m : l.brings[i] = k.brings[i + 1] /\ i + 1 \in 1 .. (m + 1) /\ 1 < i + 1
  BY <1>1 DEF Links
<1>5. LinkDated(l, t)
  BY <1>1, <1>4 DEF LinkDated
<1>6. \A i, j \in 1 .. m : i < j => i + 1 < j + 1
  OBVIOUS
<1>7. InTurn(l)
  <2>1. ASSUME NEW i \in 1 .. m, NEW j \in 1 .. m, i < j, l.brings[i].what = "event", l.brings[j].what = "event"
        PROVE  l.brings[i].n < l.brings[j].n
    <3>1. i + 1 < j + 1 /\ i + 1 \in DOMAIN k.brings /\ j + 1 \in DOMAIN k.brings
      BY <1>1, <1>4, <1>6, <2>1
    <3>2. QED
      BY <1>4, <2>1, <3>1 DEF InTurn
  <2>2. QED
    BY <1>4, <2>1 DEF InTurn
<1>8. AllApart(l)
  <2>1. ASSUME NEW i \in 1 .. m, NEW j \in 1 .. m, i < j PROVE Apart(l.brings[i], l.brings[j])
    <3>1. i + 1 < j + 1 /\ i + 1 \in DOMAIN k.brings /\ j + 1 \in DOMAIN k.brings
      BY <1>1, <1>4, <1>6, <2>1
    <3>2. Apart(k.brings[i + 1], k.brings[j + 1])
      BY <3>1 DEF AllApart
    <3>3. QED
      BY <1>4, <3>2
  <2>2. ASSUME NEW i \in 1 .. m, NEW j \in DOMAIN l.asks PROVE Apart(l.brings[i], l.asks[j])
    BY <1>1, <1>4 DEF AllApart
  <2>3. QED
    BY <1>4, <2>1, <2>2 DEF AllApart
<1>9. ASSUME NEW y, Pending(l, y) PROVE Pending(k, y) /\ Apart(one, y)
  <2>1. CASE \E i \in DOMAIN l.brings : l.brings[i] = y
    <3>1. PICK i \in 1 .. m : l.brings[i] = y
      BY <1>4, <2>1
    <3>2. i + 1 \in DOMAIN k.brings /\ k.brings[i + 1] = y /\ 1 \in DOMAIN k.brings /\ 1 < i + 1
      BY <1>1, <1>3, <1>4, <3>1
    <3>3. Apart(k.brings[1], k.brings[i + 1])
      BY <3>2 DEF AllApart
    <3>4. QED
      BY <1>3, <3>2, <3>3 DEF Pending
  <2>2. CASE \E i \in DOMAIN l.asks : l.asks[i] = y
    <3>1. PICK i \in DOMAIN k.asks : k.asks[i] = y
      BY <2>2
    <3>2. Apart(k.brings[1], k.asks[i])
      BY <1>1, <1>3 DEF AllApart
    <3>3. QED
      BY <1>3, <3>1, <3>2 DEF Pending
  <2>3. QED
    BY <1>9, <2>1, <2>2 DEF Pending
<1>10. \E i \in DOMAIN k.brings : k.brings[i] = one
  BY <1>1, <1>3
<1>11. Pending(k, one)
  BY <1>10 DEF Pending
<1>12. \A i \in DOMAIN l.brings : \E j \in DOMAIN k.brings : k.brings[j] = l.brings[i]
  BY <1>1, <1>4
<1>13. ASSUME NEW i \in DOMAIN k.brings, k.brings[i] # one PROVE \E j \in DOMAIN l.brings : l.brings[j] = k.brings[i]
  <2>1. i # 1
    BY <1>3, <1>13
  <2>2. i - 1 \in 1 .. m /\ (i - 1) + 1 = i
    BY <1>1, <2>1
  <2>3. QED
    BY <1>4, <2>2
<1>14. ASSUME NEW i \in DOMAIN l.brings, one.what = "event", l.brings[i].what = "event" PROVE one.n < l.brings[i].n
  BY <1>1, <1>3, <1>4, <1>14 DEF InTurn
<1>15. QED
  BY <1>2, <1>3, <1>5, <1>7, <1>8, <1>9, <1>10, <1>11, <1>12, <1>13, <1>14 DEF Heard

(* It hears an event, or that it unsubscribed. *)
LEMMA LinkedHear ==
  ASSUME NEW t, NEW k \in Links, LinkDated(k, t), k.brings # <<>>, NEW l \in Links, NEW e, NEW f, NEW x, NEW read,
         Linked(k, e, x, read), l.up = k.up, l.carries = k.carries, l.asks = k.asks, l.brings = Tail(k.brings),
         f.subscribed = e.subscribed
  PROVE  Linked(l, f, x, read) /\ LinkDated(l, t)
<1>1. InTurn(k) /\ AllApart(k)
  BY DEF Linked
<1>2. /\ LinkDated(l, t) /\ InTurn(l) /\ AllApart(l)
      /\ \A y : Pending(l, y) => Pending(k, y)
      /\ \A i \in DOMAIN l.brings : \E j \in DOMAIN k.brings : k.brings[j] = l.brings[i]
  <2>1. Heard(k, l, t)
    BY <1>1, HeardParts
  <2>2. QED
    BY <2>1 DEF Heard
<1>3. (\E i \in DOMAIN l.brings : l.brings[i] = Subscribe(0)) => \E i \in DOMAIN k.brings : k.brings[i] = Subscribe(0)
  BY <1>2
<1>4. QED
  BY <1>2, <1>3 DEF Linked

(* It hears that the key is subscribed to. *)
LEMMA LinkedSubscribed ==
  ASSUME NEW t, NEW k \in Links, LinkDated(k, t), k.brings # <<>>, NEW l \in Links, NEW e, NEW f, NEW x, NEW read,
         Linked(k, e, x, read), l.up = k.up, l.carries = k.carries, l.asks = k.asks, l.brings = Tail(k.brings),
         Head(k.brings) = Subscribe(0)
  PROVE  Linked(l, f, x, read) /\ LinkDated(l, t)
<1>1. InTurn(k) /\ AllApart(k)
  BY DEF Linked
<1>2. /\ LinkDated(l, t) /\ InTurn(l) /\ AllApart(l) /\ Pending(k, Subscribe(0))
      /\ \A y : Pending(l, y) => Pending(k, y) /\ Apart(Subscribe(0), y)
      /\ \E i \in DOMAIN k.brings : k.brings[i] = Subscribe(0)
  <2>1. Heard(k, l, t)
    BY <1>1, HeardParts
  <2>2. QED
    BY <2>1 DEF Heard
<1>3. ~Pending(l, Subscribe(0)) /\ ~Pending(l, Unsubscribe)
  BY <1>2, SubscribesApart DEF Apart
<1>4. read
  BY <1>2 DEF Linked
<1>5. QED
  BY <1>2, <1>3, <1>4 DEF Linked

(* It hears that a recovery subscribed. *)
LEMMA LinkedNext ==
  ASSUME NEW t, NEW k \in Links, LinkDated(k, t), k.brings # <<>>, NEW l \in Links, NEW e, NEW x, NEW z, NEW read,
         Linked(k, e, x, read), l.up = k.up, l.carries = k.carries, l.asks = k.asks, l.brings = Tail(k.brings),
         NEW n \in Nat, Head(k.brings) = Subscribe(n), DOMAIN z = DOMAIN x, \A m \in DOMAIN x : m # n => z[m] = x[m]
  PROVE  Linked(l, e, z, read) /\ LinkDated(l, t)
<1>1. InTurn(k) /\ AllApart(k)
  BY DEF Linked
<1>2. /\ LinkDated(l, t) /\ InTurn(l) /\ AllApart(l) /\ Pending(k, Subscribe(n))
      /\ \A y : Pending(l, y) => Pending(k, y) /\ Apart(Subscribe(n), y)
      /\ \A i \in DOMAIN l.brings : \E j \in DOMAIN k.brings : k.brings[j] = l.brings[i]
  <2>1. Heard(k, l, t)
    BY <1>1, HeardParts
  <2>2. QED
    BY <2>1 DEF Heard
<1>3. ASSUME NEW m \in Nat \ {0}, Pending(l, Subscribe(m)) PROVE m \in DOMAIN z /\ z[m].at = "asking"
  <2>1. Pending(k, Subscribe(m)) /\ m # n
    BY <1>2, <1>3, SubscribesApart DEF Apart
  <2>2. m \in DOMAIN x /\ x[m].at = "asking"
    BY <2>1 DEF Linked
  <2>3. QED
    BY <2>1, <2>2
<1>4. (\E i \in DOMAIN l.brings : l.brings[i] = Subscribe(0)) => \E i \in DOMAIN k.brings : k.brings[i] = Subscribe(0)
  BY <1>2
<1>5. QED
  BY <1>2, <1>3, <1>4 DEF Linked

(* A part of what a connection brought, in order: *)
PartOf(u, brings) ==
  /\ u \in Seq(Asks)
  /\ \A i \in DOMAIN u : \E a \in DOMAIN brings : u[i] = brings[a]
  /\ \A i, j \in DOMAIN u : i < j => \E a, b \in DOMAIN brings : a < b /\ u[i] = brings[a] /\ u[j] = brings[b]

(* what was asked and not heard of is one. *)
LEMMA UnheardOf == ASSUME NEW brings \in Seq(Items) PROVE PartOf(Unheard(brings), brings)
<1>1. PICK S : S = {i \in DOMAIN brings : brings[i].what # "event"}
  OBVIOUS
<1>2. PICK p : p = InOrder(S)
  OBVIOUS
<1>3. PICK u : u = [k \in DOMAIN p |-> brings[p[k]]]
  OBVIOUS
<1>4. Unheard(brings) = u
  BY <1>1, <1>2, <1>3 DEF Unheard
<1>5. S \subseteq 1 .. Len(brings) /\ Len(brings) \in Nat
  BY <1>1
<1>6. IsFiniteSet(1 .. Len(brings))
  BY <1>5, FS_Interval
<1>7. IsFiniteSet(S)
  BY <1>5, <1>6, FS_Subset
<1>8. S \in SUBSET Nat
  BY <1>5
<1>9. p \in Seq(S) /\ \A i, j \in DOMAIN p : i < j => p[i] < p[j]
  BY <1>2, <1>7, <1>8, OrderGiven
<1>10. PICK n \in Nat : n = Len(p) /\ DOMAIN p = 1 .. n
  BY <1>9
<1>11. \A i \in 1 .. n : p[i] \in S
  BY <1>9, <1>10
<1>12. DOMAIN u = 1 .. n /\ \A i \in 1 .. n : u[i] = brings[p[i]] /\ p[i] \in DOMAIN brings /\ brings[p[i]].what # "event"
  BY <1>1, <1>3, <1>10, <1>11
<1>13. \A y \in Items : y.what # "event" => y \in Asks
  BY DEF Items
<1>14. \A i \in DOMAIN brings : brings[i] \in Items
  OBVIOUS
<1>15. \A i \in 1 .. n : u[i] \in Asks
  BY <1>12, <1>13, <1>14
<1>16. u \in Seq(Asks)
  <2>1. u = [i \in 1 .. n |-> u[i]]
    BY <1>3, <1>10
  <2>2. u \in [1 .. n -> Asks]
    BY <1>15, <2>1
  <2>3. QED
    BY <1>10, <2>2
<1>17. \A i \in DOMAIN u : \E a \in DOMAIN brings : u[i] = brings[a]
  BY <1>12
<1>18. \A i, j \in DOMAIN u : i < j => \E a, b \in DOMAIN brings : a < b /\ u[i] = brings[a] /\ u[j] = brings[b]
  BY <1>9, <1>10, <1>12
<1>19. QED
  BY <1>4, <1>16, <1>17, <1>18 DEF PartOf

(* A connection that is lost is asked again what was not heard of. *)
LEMMA LinkedLose ==
  ASSUME NEW t, NEW k \in Links, NEW l \in Links, NEW e, NEW x, NEW read, Linked(k, e, x, read),
         ~l.up, l.brings = <<>>, l.asks = Unheard(k.brings) \o k.asks
  PROVE  Linked(l, e, x, read) /\ LinkDated(l, t)
<1>1. PICK u : u = Unheard(k.brings)
  OBVIOUS
<1>2. k.brings \in Seq(Items) /\ k.asks \in Seq(Asks) /\ DOMAIN l.brings = {}
  BY DEF Links
<1>3. /\ u \in Seq(Asks)
      /\ \A i \in DOMAIN u : \E a \in DOMAIN k.brings : u[i] = k.brings[a]
      /\ \A i, j \in DOMAIN u : i < j => \E a, b \in DOMAIN k.brings : a < b /\ u[i] = k.brings[a] /\ u[j] = k.brings[b]
  <2>1. PartOf(u, k.brings)
    BY <1>1, <1>2, UnheardOf
  <2>2. QED
    BY <2>1 DEF PartOf
<1>4. PICK n \in Nat : n = Len(u) /\ DOMAIN u = 1 .. n
  BY <1>3
<1>5. PICK m \in Nat : m = Len(k.asks) /\ DOMAIN k.asks = 1 .. m
  BY <1>2
<1>6. /\ DOMAIN l.asks = 1 .. (n + m)
      /\ \A i \in 1 .. n : l.asks[i] = u[i]
      /\ \A i \in 1 .. (n + m) : i \notin 1 .. n => l.asks[i] = k.asks[i - n] /\ i - n \in 1 .. m
  <2>1. PICK w : w = u \o k.asks
    OBVIOUS
  <2>2. DOMAIN w = 1 .. (n + m) /\ \A i \in 1 .. n : w[i] = u[i]
    BY <1>2, <1>3, <1>4, <1>5, <2>1
  <2>3. ASSUME NEW i \in 1 .. (n + m), i \notin 1 .. n PROVE w[i] = k.asks[i - n] /\ i - n \in 1 .. m
    BY <1>2, <1>3, <1>4, <1>5, <2>1, <2>3
  <2>4. l.asks = w
    BY <1>1, <2>1
  <2>5. QED
    BY <2>2, <2>3, <2>4
<1>7. AllApart(k)
  BY DEF Linked
<1>8. ASSUME NEW i \in 1 .. (n + m), NEW j \in 1 .. (n + m), i < j PROVE Apart(l.asks[i], l.asks[j])
  <2>1. CASE j \in 1 .. n
    <3>1. i \in 1 .. n
      BY <1>8, <2>1
    <3>2. PICK a, b \in DOMAIN k.brings : a < b /\ u[i] = k.brings[a] /\ u[j] = k.brings[b]
      BY <1>3, <1>4, <1>8, <2>1, <3>1
    <3>3. Apart(k.brings[a], k.brings[b])
      BY <1>7, <3>2 DEF AllApart
    <3>4. QED
      BY <1>6, <2>1, <3>1, <3>2, <3>3
  <2>2. CASE j \notin 1 .. n /\ i \in 1 .. n
    <3>1. PICK a \in DOMAIN k.brings : u[i] = k.brings[a]
      BY <1>3, <1>4, <2>2
    <3>2. j - n \in DOMAIN k.asks /\ l.asks[j] = k.asks[j - n]
      BY <1>5, <1>6, <2>2
    <3>3. Apart(k.brings[a], k.asks[j - n])
      BY <1>7, <3>2 DEF AllApart
    <3>4. QED
      BY <1>6, <2>2, <3>1, <3>2, <3>3
  <2>3. CASE j \notin 1 .. n /\ i \notin 1 .. n
    <3>1. /\ j - n \in DOMAIN k.asks /\ l.asks[j] = k.asks[j - n]
          /\ i - n \in DOMAIN k.asks /\ l.asks[i] = k.asks[i - n]
      BY <1>5, <1>6, <2>3
    <3>2. i - n < j - n
      BY <1>8
    <3>3. Apart(k.asks[i - n], k.asks[j - n])
      BY <1>7, <3>1, <3>2 DEF AllApart
    <3>4. QED
      BY <3>1, <3>3
  <2>4. QED
    BY <2>1, <2>2, <2>3
<1>9. AllApart(l)
  BY <1>2, <1>6, <1>8 DEF AllApart
<1>10. InTurn(l) /\ LinkDated(l, t)
  BY <1>2 DEF InTurn, LinkDated
<1>11. ASSUME NEW y, Pending(l, y) PROVE Pending(k, y)
  <2>1. PICK i \in 1 .. (n + m) : l.asks[i] = y
    BY <1>2, <1>6, <1>11 DEF Pending
  <2>2. CASE i \in 1 .. n
    BY <1>3, <1>4, <1>6, <2>1, <2>2 DEF Pending
  <2>3. CASE i \notin 1 .. n
    <3>1. i - n \in DOMAIN k.asks /\ k.asks[i - n] = y
      BY <1>5, <1>6, <2>1, <2>3
    <3>2. QED
      BY <3>1 DEF Pending
  <2>4. QED
    BY <2>2, <2>3
<1>12. QED
  BY <1>9, <1>10, <1>11 DEF Linked

-----------------------------------------------------------------------------
(* Each step keeps the invariant.                                          *)

(* What there is of each gateway and client. *)
LEMMA Lookup ==
  ASSUME Typed
  PROVE  /\ \A g \in Gateways : link[g] \in Links /\ entry[g] \in Entries /\ recovery[g] \in Seq(Recoveries)
         /\ \A c \in Clients : reader[c] \in Streams /\ client[c] \in Takers /\ reader[c].gateway \in Gateways
<1>1. \A g \in Gateways : link[g] \in Links /\ entry[g] \in Entries /\ recovery[g] \in Seq(Recoveries)
  BY DEF Typed
<1>2. \A c \in Clients : reader[c] \in Streams /\ client[c] \in Takers
  BY DEF Typed
<1>3. QED
  BY <1>1, <1>2 DEF Streams

(* Ids bounded by the last one given are bounded by the next. *)
LEMMA DatedOn ==
  ASSUME NEW t \in Nat, NEW u \in Nat, t <= u
  PROVE  /\ \A k \in Links : LinkDated(k, t) => LinkDated(k, u)
         /\ \A x \in Recoveries : RecoveryDated(x, t) => RecoveryDated(x, u)
         /\ \A r \in Streams : ReaderDated(r, t) => ReaderDated(r, u)
<1>1. \A ids \in Seq(Nat) : Dates(ids, t) => Dates(ids, u)
  <2>1. SUFFICES ASSUME NEW ids \in Seq(Nat), Dates(ids, t), NEW i \in DOMAIN ids PROVE 1 <= ids[i] /\ ids[i] <= u
    BY DEF Dates
  <2>2. ids[i] \in Nat /\ 1 <= ids[i] /\ ids[i] <= t
    BY <2>1 DEF Dates
  <2>3. QED
    BY <2>2
<1>2. ASSUME NEW k \in Links, LinkDated(k, t) PROVE LinkDated(k, u)
  <2>1. SUFFICES ASSUME NEW i \in DOMAIN k.brings, k.brings[i].what = "event" PROVE 1 <= k.brings[i].n /\ k.brings[i].n <= u
    BY DEF LinkDated
  <2>2. k.brings[i] \in Items
    BY DEF Links
  <2>3. k.brings[i].n \in Nat
    BY <2>2 DEF Items, Asks, Unsubscribe
  <2>4. 1 <= k.brings[i].n /\ k.brings[i].n <= t
    BY <1>2, <2>1 DEF LinkDated
  <2>5. QED
    BY <2>3, <2>4
<1>3. ASSUME NEW x \in Recoveries, RecoveryDated(x, t) PROVE RecoveryDated(x, u)
  BY <1>1, <1>3 DEF RecoveryDated, Recoveries
<1>4. ASSUME NEW r \in Streams, ReaderDated(r, t) PROVE ReaderDated(r, u)
  <2>1. r.marker \in Nat /\ r.cursor \in Nat /\ r.held \in Seq(Nat) /\ r.found \in Seq(Nat) /\ r.sent \in Seq(Sendings)
    BY DEF Streams
  <2>2. \A i \in DOMAIN r.sent : r.sent[i].id <= u
    <3>1. SUFFICES ASSUME NEW i \in DOMAIN r.sent PROVE r.sent[i].id <= u
      OBVIOUS
    <3>2. r.sent[i] \in Sendings
      BY <2>1
    <3>3. r.sent[i].id \in Nat /\ r.sent[i].id <= t
      BY <1>4, <3>2 DEF Sendings, ReaderDated
    <3>4. QED
      BY <3>3
  <2>3. QED
    BY <1>1, <1>4, <2>1, <2>2 DEF ReaderDated
<1>5. QED
  BY <1>2, <1>3, <1>4

(* What is added to the stream is new, and what else it has it had. *)
LEMMA AddedNew ==
  ASSUME Typed, NEW id \in Nat, kept' \in Added(id)
  PROVE  kept' \subseteq kept \cup {id}
BY DEF Added

(* Whoever is as they were still fits what the stream has, but for what is on its way. *)
LEMMA FitLasts ==
  ASSUME Typed, Dated, NEW F, Newer(Stored, F, top), NEW c \in Clients, Fit(c)
  PROVE  /\ TakerFit(client[c], F)
         /\ ReaderFit(reader[c], client[c], F)
         /\ reader[c].at \in Placed => /\ PastLast(reader[c], entry[reader[c].gateway], F)
                                       /\ \A n \in DOMAIN recovery[reader[c].gateway] :
                                            RecoveryFit(reader[c], recovery[reader[c].gateway][n], F)
<1>1. PICK r : r = reader[c]
  OBVIOUS
<1>2. PICK k : k = client[c]
  OBVIOUS
<1>3. PICK g : g = r.gateway
  OBVIOUS
<1>4. r \in Streams /\ k \in Takers /\ g \in Gateways /\ recovery[g] \in Seq(Recoveries) /\ entry[g] \in Entries /\ top \in Nat
  BY <1>1, <1>2, <1>3, Lookup DEF Typed
<1>5. ReaderDated(r, top) /\ k.token <= top /\ entry[g].last <= top /\ \A n \in DOMAIN recovery[g] : RecoveryDated(recovery[g][n], top)
  BY <1>1, <1>2, <1>4 DEF Dated
<1>6. /\ TakerFit(k, Stored) /\ ReaderFit(r, k, Stored)
      /\ r.at \in Placed => Reached(r, link[g], entry[g], recovery[g], Stored)
  BY <1>1, <1>2, <1>3 DEF Fit
<1>7. TakerFit(k, F)
  BY <1>4, <1>5, <1>6, TakerLasts
<1>8. ReaderFit(r, k, F)
  BY <1>4, <1>5, <1>6, ReaderLasts
<1>9. ASSUME r.at \in Placed PROVE PastLast(r, entry[g], F)
  <2>1. PastLast(r, entry[g], Stored)
    BY <1>6, <1>9 DEF Reached
  <2>2. entry[g].last \in Nat
    BY <1>4 DEF Entries
  <2>3. QED
    BY <1>4, <1>5, <2>1, <2>2 DEF PastLast, Newer
<1>10. ASSUME r.at \in Placed, NEW n \in DOMAIN recovery[g] PROVE RecoveryFit(r, recovery[g][n], F)
  <2>1. RecoveryFit(r, recovery[g][n], Stored)
    BY <1>6, <1>10 DEF Reached
  <2>2. recovery[g][n] \in Recoveries /\ RecoveryDated(recovery[g][n], top)
    BY <1>4, <1>5, <1>10
  <2>3. QED
    BY <1>4, <2>1, <2>2, RecoveryLasts
<1>11. QED
  BY <1>1, <1>2, <1>3, <1>7, <1>8, <1>9, <1>10

(* A gateway with readers whose recoveries have read carries the channel. *)
LEMMA CarriesWhenQuiet ==
  ASSUME NEW k \in Links, NEW e, NEW x, Linked(k, e, x, TRUE), e.subscribed, k.up, NoneOwes(x)
  PROVE  k.carries
<1>1. SUFFICES ASSUME ~k.carries PROVE FALSE
  BY DEF Links
<1>2. PICK i \in DOMAIN k.asks : k.asks[i].what = "subscribe" /\ k.asks[i].n # 0
  BY <1>1 DEF Linked
<1>3. k.asks[i] \in Asks
  BY DEF Links
<1>4. k.asks[i] \in [what : {"subscribe"}, n : Nat]
  BY <1>2, <1>3 DEF Asks, Unsubscribe
<1>5. PICK n \in Nat \ {0} : k.asks[i] = Subscribe(n)
  BY <1>2, <1>4 DEF Subscribe
<1>6. n \in DOMAIN x /\ x[n].at = "asking"
  BY <1>5 DEF Linked, Pending
<1>7. QED
  BY <1>6 DEF NoneOwes, Owing

(* An event that is routed is after all others, and a connection that carries the channel *)
(* brings it last. *)
LEMMA RouteKeeps == ASSUME RealtimeInv, Route PROVE RealtimeInv'
<1>1. Typed /\ Dated /\ AllLinked /\ AllServed /\ AllFit
  BY DEF RealtimeInv
<1>2. top \in Nat /\ top' = top + 1
  BY <1>1 DEF Route, Typed
<1>3. UNCHANGED <<entry, recovery, reader, client, overtaken>>
  BY DEF Route
<1>4. kept' \subseteq kept \cup {top'} /\ routed' = routed \cup {top'}
  BY <1>1, <1>2, AddedNew DEF Route
<1>5. \A g \in Gateways : link'[g] = IF link[g].up /\ link[g].carries
                                     THEN [link[g] EXCEPT !.brings = Append(@, Message(top'))]
                                     ELSE link[g]
  BY DEF Route
<1>6. ASSUME NEW g \in Gateways, link[g].up, link[g].carries
      PROVE  /\ Brings(link[g], link'[g], Message(top + 1))
             /\ link'[g].up = link[g].up /\ link'[g].carries = link[g].carries /\ link'[g].asks = link[g].asks
  <2>1. PICK b : b = Append(link[g].brings, Message(top + 1))
    OBVIOUS
  <2>2. link[g] \in Links /\ link[g].brings \in Seq(Items)
    BY <1>1, Lookup DEF Links
  <2>3. Message(top + 1) \in Items
    BY <1>2 DEF Message, Items
  <2>4. b \in Seq(Items)
    BY <2>1, <2>2, <2>3
  <2>5. link'[g] = [link[g] EXCEPT !.brings = b]
    BY <1>2, <1>5, <1>6, <2>1
  <2>6. /\ link'[g] \in Links /\ link'[g].brings = b
        /\ link'[g].up = link[g].up /\ link'[g].carries = link[g].carries /\ link'[g].asks = link[g].asks
    BY <2>2, <2>4, <2>5 DEF Links
  <2>7. /\ DOMAIN link[g].brings = 1 .. Len(link[g].brings) /\ DOMAIN b = 1 .. (Len(link[g].brings) + 1)
        /\ \A i \in DOMAIN link[g].brings : b[i] = link[g].brings[i]
        /\ b[Len(link[g].brings) + 1] = Message(top + 1)
    BY <2>1, <2>2, <2>3
  <2>8. QED
    BY <2>6, <2>7 DEF Brings
<1>7. \A g \in Gateways : link'[g] \in Links
  BY <1>1, <1>5, <1>6, Lookup DEF Brings
<1>8. Typed'
  <2>1. link' \in [Gateways -> Links]
    <3>1. link' = [g \in Gateways |-> link'[g]]
      BY DEF Route
    <3>2. QED
      BY <1>7, <3>1
  <2>2. kept' \subseteq 1 .. top' /\ routed' \subseteq 1 .. top'
    BY <1>1, <1>2, <1>4 DEF Typed
  <2>3. QED
    BY <1>1, <1>2, <1>3, <2>1, <2>2 DEF Typed
<1>9. \A g \in Gateways : Linked(link[g], entry[g], recovery[g], Readers(g) # {}) /\ LinkDated(link[g], top)
  BY <1>1 DEF AllLinked, Dated
<1>10. ASSUME NEW g \in Gateways
       PROVE  Linked(link'[g], entry[g], recovery[g], Readers(g) # {}) /\ LinkDated(link'[g], top + 1)
  <2>1. CASE link[g].up /\ link[g].carries
    BY <1>1, <1>2, <1>6, <1>9, <2>1, LinkedEvent, Lookup
  <2>2. CASE ~(link[g].up /\ link[g].carries)
    <3>1. link'[g] = link[g] /\ link[g] \in Links
      BY <1>1, <1>5, <2>2, Lookup
    <3>2. top + 1 \in Nat /\ top <= top + 1
      BY <1>2
    <3>3. QED
      BY <1>2, <1>9, <3>1, <3>2, DatedOn
  <2>3. QED
    BY <2>1, <2>2
<1>11. AllLinked'
  <2>1. \A g : Readers(g)' = Readers(g)
    BY <1>3 DEF Readers
  <2>2. QED
    BY <1>3, <1>10, <2>1 DEF AllLinked
<1>12. AllServed'
  BY <1>1, <1>3 DEF AllServed
<1>13. Dated'
  <2>1. top + 1 \in Nat /\ top <= top + 1
    BY <1>2
  <2>2. ASSUME NEW g \in Gateways
        PROVE  entry[g].last <= top + 1 /\ \A n \in DOMAIN recovery[g] : RecoveryDated(recovery[g][n], top + 1)
    <3>1. entry[g] \in Entries /\ recovery[g] \in Seq(Recoveries) /\ entry[g].last <= top
      BY <1>1, Lookup DEF Dated
    <3>2. entry[g].last \in Nat
      BY <3>1 DEF Entries
    <3>3. \A n \in DOMAIN recovery[g] : recovery[g][n] \in Recoveries /\ RecoveryDated(recovery[g][n], top)
      BY <1>1, <3>1 DEF Dated
    <3>4. QED
      BY <1>2, <2>1, <3>1, <3>2, <3>3, DatedOn
  <2>3. ASSUME NEW c \in Clients PROVE ReaderDated(reader[c], top + 1) /\ client[c].token <= top + 1
    <3>1. reader[c] \in Streams /\ client[c].token \in Nat /\ client[c].token <= top /\ ReaderDated(reader[c], top)
      BY <1>1, Lookup DEF Dated, Takers
    <3>2. QED
      BY <1>2, <2>1, <3>1, DatedOn
  <2>4. QED
    BY <1>2, <1>3, <1>10, <2>2, <2>3 DEF Dated
<1>14. ASSUME NEW c \in Clients \ overtaken PROVE Fit(c)'
  <2>1. Fit(c)
    BY <1>1 DEF AllFit
  <2>2. PICK F : F = Stored'
    OBVIOUS
  <2>3. F \subseteq Stored \cup {top + 1}
    BY <1>1, <1>2, <1>4, <2>2 DEF Stored, Typed
  <2>4. Newer(Stored, F, top)
    BY <1>1, <1>2, <2>3 DEF Newer, Stored, Typed
  <2>5. PICK r : r = reader[c]
    OBVIOUS
  <2>6. PICK g \in Gateways : g = r.gateway
    BY <1>1, <2>5, Lookup
  <2>7. /\ TakerFit(client[c], F)
        /\ ReaderFit(r, client[c], F)
        /\ r.at \in Placed => PastLast(r, entry[g], F) /\ \A n \in DOMAIN recovery[g] : RecoveryFit(r, recovery[g][n], F)
    BY <1>1, <2>1, <2>4, <2>5, <2>6, FitLasts
  <2>8. ASSUME r.at \in Placed, link'[g].up, NoneOwes(recovery[g]), NEW id \in F, Behind(r, id) PROVE OnItsWay(link'[g], recovery[g], id)
    <3>1. link[g].up
      BY <1>5, <1>6, <2>8
    <3>2. c \in Readers(g) /\ Served(r, entry[g])
      <4>1. r.at # "away"
        BY <2>8 DEF Placed
      <4>2. QED
        BY <1>1, <2>5, <2>6, <4>1 DEF Readers, AllServed
    <3>3. entry[g].subscribed
      BY <2>8, <3>2 DEF Served
    <3>4. Linked(link[g], entry[g], recovery[g], TRUE)
      BY <1>9, <3>2
    <3>5. link[g].carries
      BY <1>1, <2>8, <3>1, <3>3, <3>4, CarriesWhenQuiet, Lookup
    <3>6. Brings(link[g], link'[g], Message(top + 1))
      BY <1>6, <3>1, <3>5
    <3>7. PICK n \in Nat : n = Len(link[g].brings)
      BY <1>1, Lookup DEF Links
    <3>8. /\ DOMAIN link[g].brings = 1 .. n /\ DOMAIN link'[g].brings = 1 .. (n + 1)
          /\ \A i \in 1 .. n : link'[g].brings[i] = link[g].brings[i] /\ i \in 1 .. (n + 1)
          /\ link'[g].brings[n + 1] = Message(top + 1)
      BY <3>6, <3>7 DEF Brings
    <3>9. CASE id = top + 1
      <4>1. n + 1 \in DOMAIN link'[g].brings
        BY <3>8
      <4>2. QED
        BY <3>8, <3>9, <4>1 DEF OnItsWay
    <3>10. CASE id \in Stored
      <4>1. Carried(r, link[g], recovery[g], Stored)
        BY <2>1, <2>5, <2>6, <2>8 DEF Fit, Reached
      <4>2. OnItsWay(link[g], recovery[g], id)
        BY <2>8, <3>1, <3>10, <4>1 DEF Carried
      <4>3. QED
        BY <3>8, <4>2 DEF OnItsWay
    <3>11. QED
      BY <2>3, <3>9, <3>10
  <2>9. r.at \in Placed => Reached(r, link'[g], entry[g], recovery[g], F)
    BY <2>7, <2>8 DEF Reached, Carried
  <2>10. reader'[c] = r /\ client'[c] = client[c] /\ entry'[g] = entry[g] /\ recovery'[g] = recovery[g]
    BY <1>3, <2>5
  <2>11. QED
    BY <2>2, <2>6, <2>7, <2>9, <2>10 DEF Fit
<1>15. AllFit'
  BY <1>3, <1>14 DEF AllFit
<1>16. QED
  BY <1>8, <1>11, <1>12, <1>13, <1>15 DEF RealtimeInv

(* The events of the stream have ids given so far. *)
LEMMA StoredIds == ASSUME Typed PROVE \A id \in Stored : id \in Nat /\ 1 <= id /\ id <= top
<1>1. Stored \subseteq 1 .. top /\ top \in Nat
  BY DEF Typed, Stored
<1>2. QED
  BY <1>1

(* Whoever a step leaves alone is as fit as they were, *)
LEMMA FitStays ==
  ASSUME Typed, Dated, NEW c \in Clients, Fit(c), Stored' \subseteq Stored,
         reader'[c] = reader[c], client'[c] = client[c],
         reader[c].at \in Placed => /\ link'[reader[c].gateway] = link[reader[c].gateway]
                                    /\ entry'[reader[c].gateway] = entry[reader[c].gateway]
                                    /\ recovery'[reader[c].gateway] = recovery[reader[c].gateway]
  PROVE  Fit(c)'
<1>1. PICK F : F = Stored'
  OBVIOUS
<1>2. Newer(Stored, F, top)
  BY <1>1, StoredIds DEF Newer
<1>3. PICK r : r = reader[c]
  OBVIOUS
<1>4. PICK g : g = r.gateway
  OBVIOUS
<1>5. /\ TakerFit(client[c], F)
      /\ ReaderFit(r, client[c], F)
      /\ r.at \in Placed => PastLast(r, entry[g], F) /\ \A n \in DOMAIN recovery[g] : RecoveryFit(r, recovery[g][n], F)
  BY <1>2, <1>3, <1>4, FitLasts
<1>6. r.at \in Placed => Carried(r, link[g], recovery[g], F)
  BY <1>1, <1>3, <1>4 DEF Fit, Reached, Carried
<1>7. r.at \in Placed => Reached(r, link'[g], entry'[g], recovery'[g], F)
  BY <1>3, <1>4, <1>5, <1>6 DEF Reached
<1>8. QED
  BY <1>1, <1>3, <1>4, <1>5, <1>7 DEF Fit

(* and so is whoever has no marker, by what they took. *)
LEMMA FitApart ==
  ASSUME NEW c, TakerFit(client'[c], Stored'), reader'[c].at \in {"away", "entering"}
  PROVE  Fit(c)'
BY DEF Fit, ReaderFit, Placed

(* A stream that is gone leaves nothing to miss. *)
LEMMA ExpireKeeps == ASSUME RealtimeInv, Expire PROVE RealtimeInv'
<1>1. Typed /\ Dated /\ AllLinked /\ AllServed /\ AllFit
  BY DEF RealtimeInv
<1>2. UNCHANGED <<top, routed, link, entry, recovery, reader, client, overtaken>> /\ kept' = {}
  BY DEF Expire
<1>3. Typed'
  BY <1>1, <1>2 DEF Typed
<1>4. Dated'
  BY <1>1, <1>2 DEF Dated
<1>5. \A g : Readers(g)' = Readers(g)
  BY <1>2 DEF Readers
<1>6. AllLinked'
  BY <1>1, <1>2, <1>5 DEF AllLinked
<1>7. AllServed'
  BY <1>1, <1>2 DEF AllServed
<1>8. ASSUME NEW c \in Clients \ overtaken PROVE Fit(c)'
  <2>1. Stored' \subseteq Stored
    BY <1>2 DEF Stored
  <2>2. Fit(c)
    BY <1>1 DEF AllFit
  <2>3. QED
    BY <1>1, <1>2, <2>1, <2>2, FitStays
<1>9. AllFit'
  BY <1>2, <1>8 DEF AllFit
<1>10. QED
  BY <1>3, <1>4, <1>6, <1>7, <1>9 DEF RealtimeInv

(* Asking adds to what a connection is asked. *)
LEMMA AskingAsks ==
  ASSUME Typed, NEW g \in Gateways, NEW one \in Asks
  PROVE  /\ Asking(g, one) \in [Gateways -> Links]
         /\ Asked(link[g], Asking(g, one)[g], one)
         /\ Asking(g, one)[g].up = link[g].up /\ Asking(g, one)[g].carries = link[g].carries
         /\ \A h \in Gateways : h # g => Asking(g, one)[h] = link[h]
<1>1. PICK a : a = Append(link[g].asks, one)
  OBVIOUS
<1>2. link \in [Gateways -> Links] /\ link[g] \in Links /\ link[g].asks \in Seq(Asks)
  BY Lookup DEF Links, Typed
<1>3. a \in Seq(Asks)
  BY <1>1, <1>2
<1>4. PICK l : l = [link[g] EXCEPT !.asks = a]
  OBVIOUS
<1>5. Asking(g, one) = [link EXCEPT ![g] = l]
  BY <1>1, <1>4 DEF Asking
<1>6. l \in Links /\ l.asks = a /\ l.brings = link[g].brings /\ l.up = link[g].up /\ l.carries = link[g].carries
  BY <1>2, <1>3, <1>4 DEF Links
<1>7. /\ DOMAIN link[g].asks = 1 .. Len(link[g].asks) /\ DOMAIN a = 1 .. (Len(link[g].asks) + 1)
      /\ \A i \in DOMAIN link[g].asks : a[i] = link[g].asks[i]
      /\ a[Len(link[g].asks) + 1] = one
  BY <1>1, <1>2
<1>8. Asked(link[g], l, one)
  BY <1>6, <1>7 DEF Asked
<1>9. QED
  BY <1>2, <1>5, <1>6, <1>8

(* What is asked brings nothing. *)
LEMMA AskedDated ==
  ASSUME NEW t, NEW k, NEW l, NEW one, Asked(k, l, one), LinkDated(k, t) PROVE LinkDated(l, t)
BY DEF Asked, LinkDated

(* A reader that enters has nothing yet, and the first one asks for the channel. *)
LEMMA EnterKeeps == ASSUME RealtimeInv, NEW c \in Clients, NEW g \in Gateways, Enter(c, g) PROVE RealtimeInv'
<1>1. Typed /\ Dated /\ AllLinked /\ AllServed /\ AllFit
  BY DEF RealtimeInv
<1>2. UNCHANGED <<top, kept, routed, recovery, client, overtaken>> /\ reader[c].at = "away"
  BY DEF Enter
<1>3. PICK r : r = [Away EXCEPT !.at = "entering", !.gateway = g]
  OBVIOUS
<1>4. reader' = [reader EXCEPT ![c] = r]
  BY <1>3 DEF Enter
<1>5. /\ r \in Streams /\ r.at = "entering" /\ r.gateway = g
      /\ r.marker = 0 /\ r.cursor = 0 /\ r.held = <<>> /\ r.found = <<>> /\ r.sent = <<>>
  <2>1. r = [at |-> "entering", gateway |-> g, marker |-> 0, found |-> <<>>, held |-> <<>>, cursor |-> 0, sent |-> <<>>]
    BY <1>3 DEF Away
  <2>2. <<>> \in Seq(Nat) /\ <<>> \in Seq(Sendings)
    OBVIOUS
  <2>3. QED
    BY <2>1, <2>2 DEF Streams
<1>6. reader'[c] = r /\ \A d \in Clients : d # c => reader'[d] = reader[d]
  BY <1>1, <1>4 DEF Typed
<1>7. reader' \in [Clients -> Streams]
  BY <1>1, <1>4, <1>5 DEF Typed
<1>8. ReaderDated(r, top)
  BY <1>1, <1>5 DEF ReaderDated, Placed, Dates, Typed
<1>9. Readers(g)' # {} /\ \A h \in Gateways : h # g => Readers(h)' = Readers(h)
  BY <1>2, <1>5, <1>6 DEF Readers
<1>10. Stored' \subseteq Stored
  BY <1>2 DEF Stored
<1>11. \A d \in Clients \ overtaken : Fit(d)
  BY <1>1 DEF AllFit
<1>12. ASSUME c \notin overtaken PROVE Fit(c)'
  <2>1. TakerFit(client'[c], Stored')
    BY <1>2, <1>11, <1>12 DEF Fit, Stored
  <2>2. QED
    BY <1>5, <1>6, <2>1, FitApart
<1>13. CASE Readers(g) = {}
  <2>1. entry' = [entry EXCEPT ![g] = Unread] /\ link' = Asking(g, Subscribe(0))
    BY <1>13 DEF Enter
  <2>2. Subscribe(0) \in Asks
    BY DEF Subscribe, Asks
  <2>3. /\ link' \in [Gateways -> Links]
        /\ Asked(link[g], link'[g], Subscribe(0))
        /\ link'[g].up = link[g].up /\ link'[g].carries = link[g].carries
        /\ \A h \in Gateways : h # g => link'[h] = link[h]
    BY <1>1, <2>1, <2>2, AskingAsks
  <2>4. Unread \in Entries /\ Unread.last = 0
    BY DEF Unread, Entries
  <2>5. entry' \in [Gateways -> Entries] /\ entry'[g] = Unread /\ \A h \in Gateways : h # g => entry'[h] = entry[h]
    BY <1>1, <2>1, <2>4 DEF Typed
  <2>6. Typed'
    BY <1>1, <1>2, <1>7, <2>3, <2>5 DEF Typed
  <2>7. Dated'
    <3>1. LinkDated(link'[g], top)
      BY <1>1, <2>3, AskedDated DEF Dated
    <3>2. 0 <= top
      BY <1>1 DEF Typed
    <3>3. QED
      BY <1>1, <1>2, <1>6, <1>8, <2>3, <2>4, <2>5, <3>1, <3>2 DEF Dated
  <2>8. AllLinked'
    <3>1. Linked(link[g], entry[g], recovery[g], FALSE)
      BY <1>1, <1>13 DEF AllLinked
    <3>2. Linked(link'[g], Unread, recovery[g], TRUE)
      BY <1>1, <2>3, <3>1, LinkedFirst, Lookup
    <3>3. ASSUME NEW h \in Gateways PROVE Linked(link[h], entry[h], recovery[h], Readers(h) # {})'
      <4>1. CASE h = g
        BY <1>2, <1>9, <2>5, <3>2, <4>1
      <4>2. CASE h # g
        <5>1. Linked(link[h], entry[h], recovery[h], Readers(h) # {})
          BY <1>1 DEF AllLinked
        <5>2. QED
          BY <1>2, <1>9, <2>3, <2>5, <4>2, <5>1
      <4>3. QED
        BY <4>1, <4>2
    <3>4. QED
      BY <3>3 DEF AllLinked
  <2>9. \A d \in Clients : reader[d].at # "away" => reader[d].gateway # g
    BY <1>13 DEF Readers
  <2>10. AllServed'
    <3>1. ASSUME NEW d \in Clients, reader'[d].at # "away" PROVE Served(reader[d], entry[reader[d].gateway])'
      <4>1. CASE d = c
        BY <1>5, <1>6, <4>1 DEF Served, Placed
      <4>2. CASE d # c
        <5>1. reader'[d] = reader[d] /\ reader[d].gateway # g /\ reader[d].gateway \in Gateways
          BY <1>1, <1>6, <2>9, <3>1, <4>2, Lookup
        <5>2. Served(reader[d], entry[reader[d].gateway])
          BY <1>1, <3>1, <5>1 DEF AllServed
        <5>3. entry'[reader[d].gateway] = entry[reader[d].gateway]
          BY <2>5, <5>1
        <5>4. QED
          BY <5>1, <5>2, <5>3
      <4>3. QED
        BY <4>1, <4>2
    <3>2. QED
      BY <3>1 DEF AllServed
  <2>11. ASSUME NEW d \in Clients \ overtaken PROVE Fit(d)'
    <3>1. CASE d = c
      BY <1>12, <3>1
    <3>2. CASE d # c
      <4>1. reader'[d] = reader[d] /\ client'[d] = client[d]
        BY <1>2, <1>6, <3>2
      <4>2. ASSUME reader[d].at \in Placed PROVE reader[d].gateway # g /\ reader[d].gateway \in Gateways
        BY <1>1, <2>9, <4>2, Lookup DEF Placed
      <4>3. QED
        BY <1>1, <1>2, <1>10, <1>11, <2>3, <2>5, <4>1, <4>2, FitStays
    <3>3. QED
      BY <3>1, <3>2
  <2>12. AllFit'
    BY <1>2, <2>11 DEF AllFit
  <2>13. QED
    BY <2>6, <2>7, <2>8, <2>10, <2>12 DEF RealtimeInv
<1>14. CASE Readers(g) # {}
  <2>1. UNCHANGED <<entry, link>>
    BY <1>14 DEF Enter
  <2>2. Typed'
    BY <1>1, <1>2, <1>7, <2>1 DEF Typed
  <2>3. Dated'
    BY <1>1, <1>2, <1>6, <1>8, <2>1 DEF Dated
  <2>4. AllLinked'
    <3>1. \A h \in Gateways : (Readers(h)' # {}) = (Readers(h) # {})
      BY <1>9, <1>14
    <3>2. QED
      BY <1>1, <1>2, <2>1, <3>1 DEF AllLinked
  <2>5. AllServed'
    <3>1. ASSUME NEW d \in Clients, reader'[d].at # "away" PROVE Served(reader[d], entry[reader[d].gateway])'
      <4>1. CASE d = c
        BY <1>5, <1>6, <4>1 DEF Served, Placed
      <4>2. CASE d # c
        BY <1>1, <1>6, <2>1, <3>1, <4>2 DEF AllServed
      <4>3. QED
        BY <4>1, <4>2
    <3>2. QED
      BY <3>1 DEF AllServed
  <2>6. ASSUME NEW d \in Clients \ overtaken PROVE Fit(d)'
    <3>1. CASE d = c
      BY <1>12, <3>1
    <3>2. CASE d # c
      BY <1>1, <1>2, <1>6, <1>10, <1>11, <2>1, <3>2, FitStays
    <3>3. QED
      BY <3>1, <3>2
  <2>7. AllFit'
    BY <1>2, <2>6 DEF AllFit
  <2>8. QED
    BY <2>2, <2>3, <2>4, <2>5, <2>7 DEF RealtimeInv
<1>15. QED
  BY <1>13, <1>14

(* Nothing is ahead of the stream when one more id is given. *)
LEMMA DatedNext ==
  ASSUME Typed, Dated
  PROVE  /\ \A g \in Gateways : /\ LinkDated(link[g], top + 1)
                                /\ entry[g].last <= top + 1
                                /\ \A n \in DOMAIN recovery[g] : RecoveryDated(recovery[g][n], top + 1)
         /\ \A c \in Clients : ReaderDated(reader[c], top + 1) /\ client[c].token <= top + 1
<1>1. top \in Nat /\ top + 1 \in Nat /\ top <= top + 1
  BY DEF Typed
<1>2. ASSUME NEW g \in Gateways
      PROVE  /\ LinkDated(link[g], top + 1)
             /\ entry[g].last <= top + 1 /\ \A n \in DOMAIN recovery[g] : RecoveryDated(recovery[g][n], top + 1)
  <2>1. entry[g] \in Entries /\ recovery[g] \in Seq(Recoveries) /\ entry[g].last <= top /\ link[g] \in Links /\ LinkDated(link[g], top)
    BY Lookup DEF Dated
  <2>2. entry[g].last \in Nat
    BY <2>1 DEF Entries
  <2>3. \A n \in DOMAIN recovery[g] : recovery[g][n] \in Recoveries /\ RecoveryDated(recovery[g][n], top)
    BY <2>1 DEF Dated
  <2>4. entry[g].last <= top + 1
    BY <1>1, <2>1, <2>2
  <2>5. /\ \A k \in Links : LinkDated(k, top) => LinkDated(k, top + 1)
        /\ \A x \in Recoveries : RecoveryDated(x, top) => RecoveryDated(x, top + 1)
    BY <1>1, DatedOn
  <2>6. LinkDated(link[g], top + 1)
    BY <2>1, <2>5
  <2>7. \A n \in DOMAIN recovery[g] : RecoveryDated(recovery[g][n], top + 1)
    BY <2>3, <2>5
  <2>8. QED
    BY <2>4, <2>6, <2>7
<1>3. ASSUME NEW c \in Clients PROVE ReaderDated(reader[c], top + 1) /\ client[c].token <= top + 1
  <2>1. reader[c] \in Streams /\ client[c].token \in Nat /\ client[c].token <= top /\ ReaderDated(reader[c], top)
    BY Lookup DEF Dated, Takers
  <2>2. QED
    BY <1>1, <2>1, DatedOn
<1>4. QED
  BY <1>2, <1>3

(* A reader that changes where it is, at the gateway where it is. *)
LEMMA OneReader ==
  ASSUME Typed, NEW c \in Clients, NEW w \in Streams, reader' = [reader EXCEPT ![c] = w],
         reader[c].at # "away", w.at # "away", w.gateway = reader[c].gateway
  PROVE  /\ reader' \in [Clients -> Streams]
         /\ reader'[c] = w /\ \A d \in Clients : d # c => reader'[d] = reader[d]
         /\ \A g : Readers(g)' = Readers(g)
<1>1. reader \in [Clients -> Streams]
  BY DEF Typed
<1>2. reader'[c] = w /\ \A d \in Clients : d # c => reader'[d] = reader[d]
  BY <1>1
<1>3. reader' \in [Clients -> Streams]
  BY <1>1
<1>4. \A g : Readers(g)' = Readers(g)
  BY <1>2 DEF Readers
<1>5. QED
  BY <1>2, <1>3, <1>4

(* A gateway is linked as it was while its readers, and whether it subscribed, stay. *)
LEMMA LinkedStays ==
  ASSUME AllLinked, UNCHANGED <<link, recovery>>, \A g \in Gateways : Readers(g)' = Readers(g),
         \A g \in Gateways : entry'[g].subscribed = entry[g].subscribed
  PROVE  AllLinked'
<1>1. ASSUME NEW g \in Gateways PROVE Linked(link[g], entry[g], recovery[g], Readers(g) # {})'
  <2>1. Linked(link[g], entry[g], recovery[g], Readers(g) # {})
    BY DEF AllLinked
  <2>2. Linked(link[g], entry'[g], recovery[g], Readers(g) # {})
    BY <2>1 DEF Linked
  <2>3. QED
    BY <2>2
<1>2. QED
  BY <1>1 DEF AllLinked

(* A marker is after every event, so a reader is behind none as it is given one. *)
LEMMA MarkKeeps == ASSUME RealtimeInv, NEW c \in Clients, Mark(c) PROVE RealtimeInv'
<1>1. Typed /\ Dated /\ AllLinked /\ AllServed /\ AllFit
  BY DEF RealtimeInv
<1>2. top \in Nat /\ top' = top + 1
  BY <1>1 DEF Mark, Typed
<1>3. UNCHANGED <<routed, link, entry, recovery, client, overtaken>>
  BY DEF Mark
<1>4. kept' \subseteq kept \cup {top + 1}
  BY <1>1, <1>2, AddedNew DEF Mark
<1>5. PICK r : r = reader[c]
  OBVIOUS
<1>6. r \in Streams /\ r.at = "entering" /\ r.gateway \in Gateways /\ entry[r.gateway].subscribed
  BY <1>1, <1>5, Lookup DEF Mark
<1>7. PICK w : w = [r EXCEPT !.at = "marked", !.marker = top + 1]
  OBVIOUS
<1>8. /\ w \in Streams /\ w.at = "marked" /\ w.marker = top + 1 /\ w.gateway = r.gateway
      /\ w.held = r.held /\ w.found = r.found /\ w.cursor = r.cursor /\ w.sent = r.sent
  <2>1. "marked" \in Placed \cup {"away", "entering"} /\ top + 1 \in Nat
    BY <1>2 DEF Placed
  <2>2. QED
    BY <1>6, <1>7, <2>1 DEF Streams
<1>9. reader' = [reader EXCEPT ![c] = w]
  BY <1>1, <1>2, <1>5, <1>7 DEF Mark, Typed
<1>10. /\ reader' \in [Clients -> Streams]
       /\ reader'[c] = w /\ \A d \in Clients : d # c => reader'[d] = reader[d]
       /\ \A g : Readers(g)' = Readers(g)
  BY <1>1, <1>5, <1>6, <1>8, <1>9, OneReader
<1>11. Typed'
  <2>1. kept' \subseteq 1 .. top' /\ routed' \subseteq 1 .. top'
    BY <1>1, <1>2, <1>3, <1>4 DEF Typed
  <2>2. QED
    BY <1>1, <1>2, <1>3, <1>10, <2>1 DEF Typed
<1>12. Dated'
  <2>1. ReaderDated(r, top + 1)
    BY <1>1, <1>5, DatedNext
  <2>2. ReaderDated(w, top + 1)
    BY <1>2, <1>6, <1>8, <2>1 DEF ReaderDated
  <2>3. QED
    BY <1>1, <1>2, <1>3, <1>10, <2>2, DatedNext DEF Dated
<1>13. AllLinked'
  BY <1>1, <1>3, <1>10, LinkedStays
<1>14. AllServed'
  <2>1. ASSUME NEW d \in Clients, reader'[d].at # "away" PROVE Served(reader[d], entry[reader[d].gateway])'
    <3>1. CASE d = c
      BY <1>3, <1>6, <1>8, <1>10, <3>1 DEF Served
    <3>2. CASE d # c
      BY <1>1, <1>3, <1>10, <2>1, <3>2 DEF AllServed
    <3>3. QED
      BY <3>1, <3>2
  <2>2. QED
    BY <2>1 DEF AllServed
<1>15. Stored' \subseteq Stored
  <2>1. top + 1 \notin routed
    BY <1>1, <1>2 DEF Typed
  <2>2. QED
    BY <1>3, <1>4, <2>1 DEF Stored
<1>16. ASSUME NEW d \in Clients \ overtaken PROVE Fit(d)'
  <2>1. Fit(d)
    BY <1>1 DEF AllFit
  <2>2. CASE d # c
    BY <1>1, <1>3, <1>10, <1>15, <2>1, <2>2, FitStays
  <2>3. CASE d = c
    <3>1. PICK F : F = Stored'
      OBVIOUS
    <3>2. \A id \in F : id \in Nat /\ id <= top /\ id \in Stored
      BY <1>1, <1>15, <3>1, StoredIds
    <3>3. TakerFit(client[c], F)
      BY <2>1, <2>3, <3>2 DEF Fit, TakerFit
    <3>4. ASSUME NEW id \in F, Behind(w, id) PROVE FALSE
      BY <1>2, <1>8, <3>2, <3>4 DEF Behind
    <3>5. Reached(w, link[w.gateway], entry[w.gateway], recovery[w.gateway], F)
      BY <3>4 DEF Reached, PastLast, Carried, RecoveryFit
    <3>6. Gapless(w.held, w.marker, F)
      BY <1>2, <1>8, <3>2 DEF Gapless
    <3>7. client[c].token <= w.marker
      BY <1>1, <1>8, DatedNext
    <3>8. ReaderFit(w, client[c], F)
      BY <1>8, <3>6, <3>7 DEF ReaderFit
    <3>9. QED
      BY <1>3, <1>10, <2>3, <3>1, <3>3, <3>5, <3>8 DEF Fit
  <2>4. QED
    BY <2>2, <2>3
<1>17. AllFit'
  BY <1>3, <1>16 DEF AllFit
<1>18. QED
  BY <1>11, <1>12, <1>13, <1>14, <1>17 DEF RealtimeInv

(* A reader that moves on from what it was given a marker for, and is behind no more. *)
LEMMA ReaderMoves ==
  ASSUME RealtimeInv, NEW c \in Clients, NEW w \in Streams, reader' = [reader EXCEPT ![c] = w],
         reader[c].at \in {"reading", "found"}, w.at \in Placed, w.gateway = reader[c].gateway, ReaderDated(w, top),
         UNCHANGED <<top, kept, routed, link, entry, recovery, client, overtaken>>,
         c \notin overtaken => ReaderFit(w, client[c], Stored) /\ Closer(reader[c], w, Stored)
  PROVE  RealtimeInv'
<1>1. Typed /\ Dated /\ AllLinked /\ AllServed /\ AllFit
  BY DEF RealtimeInv
<1>2. PICK r : r = reader[c]
  OBVIOUS
<1>3. r.at \in Placed /\ r.at # "away" /\ w.at # "away"
  BY <1>2 DEF Placed
<1>4. /\ reader' \in [Clients -> Streams]
      /\ reader'[c] = w /\ \A d \in Clients : d # c => reader'[d] = reader[d]
      /\ \A g : Readers(g)' = Readers(g)
  BY <1>1, <1>2, <1>3, OneReader
<1>5. Typed'
  BY <1>1, <1>4 DEF Typed
<1>6. Dated'
  BY <1>1, <1>4 DEF Dated
<1>7. AllLinked'
  BY <1>1, <1>4, LinkedStays
<1>8. Stored' = Stored
  BY DEF Stored
<1>9. AllServed'
  <2>1. ASSUME NEW d \in Clients, reader'[d].at # "away" PROVE Served(reader[d], entry[reader[d].gateway])'
    <3>1. CASE d = c
      <4>1. Served(r, entry[r.gateway])
        BY <1>1, <1>2, <1>3 DEF AllServed
      <4>2. entry[r.gateway].subscribed /\ entry[r.gateway].last # 0
        BY <1>2, <1>3, <4>1 DEF Served
      <4>3. QED
        BY <1>2, <1>4, <3>1, <4>2 DEF Served
    <3>2. CASE d # c
      BY <1>1, <1>4, <2>1, <3>2 DEF AllServed
    <3>3. QED
      BY <3>1, <3>2
  <2>2. QED
    BY <2>1 DEF AllServed
<1>10. ASSUME NEW d \in Clients \ overtaken PROVE Fit(d)'
  <2>1. Fit(d)
    BY <1>1 DEF AllFit
  <2>2. CASE d # c
    BY <1>1, <1>4, <1>8, <2>1, <2>2, FitStays
  <2>3. CASE d = c
    <3>1. PICK g : g = r.gateway
      OBVIOUS
    <3>2. Reached(r, link[g], entry[g], recovery[g], Stored) /\ TakerFit(client[c], Stored)
      BY <1>2, <1>3, <2>1, <2>3, <3>1 DEF Fit
    <3>3. Reached(w, link[g], entry[g], recovery[g], Stored)
      BY <1>2, <2>3, <3>2, ReachedCloser
    <3>4. QED
      BY <1>2, <1>4, <1>8, <2>3, <3>1, <3>2, <3>3 DEF Fit
  <2>4. QED
    BY <2>2, <2>3
<1>11. AllFit'
  BY <1>10 DEF AllFit
<1>12. QED
  BY <1>5, <1>6, <1>7, <1>9, <1>11 DEF RealtimeInv

(* What is replayed is all the stream has since the token. *)
LEMMA ReplayKeeps == ASSUME RealtimeInv, NEW c \in Clients, Replay(c) PROVE RealtimeInv'
<1>1. Typed /\ Dated /\ AllLinked /\ AllServed /\ AllFit
  BY DEF RealtimeInv
<1>2. PICK r : r = reader[c]
  OBVIOUS
<1>3. PICK k : k = client[c]
  OBVIOUS
<1>4. r \in Streams /\ r.at = "reading" /\ k.token \in Nat
  BY <1>1, <1>2, <1>3, Lookup DEF Replay, Takers
<1>5. PICK found : found = Found(k.token)
  OBVIOUS
<1>6. /\ found \in Seq(Nat) /\ Dates(found, top)
      /\ \A id \in Stored : id > k.token => \E i \in DOMAIN found : found[i] = id
  BY <1>1, <1>4, <1>5, FoundAll
<1>7. PICK w : w = [r EXCEPT !.at = "found", !.found = found]
  OBVIOUS
<1>8. "found" \in Placed \cup {"away", "entering"}
  BY DEF Placed
<1>9. /\ w \in Streams /\ w.at = "found" /\ w.found = found /\ w.gateway = r.gateway /\ w.marker = r.marker
      /\ w.held = r.held /\ w.cursor = r.cursor /\ w.sent = r.sent
  BY <1>4, <1>6, <1>7, <1>8 DEF Streams
<1>10. reader' = [reader EXCEPT ![c] = w]
  BY <1>1, <1>2, <1>3, <1>5, <1>7 DEF Replay, Typed
<1>11. ReaderDated(w, top)
  <2>1. ReaderDated(r, top)
    BY <1>1, <1>2 DEF Dated
  <2>2. QED
    BY <1>4, <1>6, <1>9, <2>1 DEF ReaderDated, Placed
<1>12. ASSUME c \notin overtaken PROVE ReaderFit(w, k, Stored)
  <2>1. ReaderFit(r, k, Stored)
    BY <1>1, <1>2, <1>3, <1>12 DEF AllFit, Fit
  <2>2. Gapless(r.held, r.marker, Stored) /\ k.token <= r.marker /\ k.token # 0
    BY <1>4, <2>1 DEF ReaderFit
  <2>3. Gapless(found, k.token, Stored)
    <3>1. \A id \in Stored : id \in Nat
      BY <1>1, StoredIds
    <3>2. ASSUME NEW j \in DOMAIN found, NEW id \in Stored, k.token < id, id < found[j]
          PROVE  \E i \in DOMAIN found : i < j /\ found[i] = id
      <4>1. id > k.token
        BY <1>4, <3>1, <3>2
      <4>2. QED
        BY <1>1, <1>4, <1>5, <3>2, <4>1, FoundGapless
    <3>3. QED
      BY <3>2 DEF Gapless
  <2>4. \A id \in Stored : k.token < id /\ id <= r.marker => \E i \in DOMAIN found : found[i] = id
    BY <1>1, <1>4, <1>6, StoredIds
  <2>5. QED
    BY <1>9, <2>2, <2>3, <2>4 DEF ReaderFit
<1>13. Closer(r, w, Stored)
  BY <1>4, <1>9 DEF Closer, Behind
<1>14. UNCHANGED <<top, kept, routed, link, entry, recovery, client, overtaken>>
  BY DEF Replay
<1>15. w.at \in Placed
  BY <1>9 DEF Placed
<1>16. QED
  BY <1>2, <1>3, <1>4, <1>9, <1>10, <1>11, <1>12, <1>13, <1>14, <1>15, ReaderMoves

(* It is given with nothing left out between it and what was held. *)
LEMMA ReplayedKeeps == ASSUME RealtimeInv, NEW c \in Clients, Replayed(c) PROVE RealtimeInv'
<1>1. Typed /\ Dated /\ AllLinked /\ AllServed /\ AllFit
  BY DEF RealtimeInv
<1>2. PICK r : r = reader[c]
  OBVIOUS
<1>3. PICK k : k = client[c]
  OBVIOUS
<1>4. /\ r \in Streams /\ r.at = "found" /\ k \in Takers /\ k.token \in Nat /\ k.since \in Nat
      /\ r.found \in Seq(Nat) /\ r.held \in Seq(Nat) /\ r.marker \in Nat
  BY <1>1, <1>2, <1>3, Lookup DEF Replayed, Takers, Streams
<1>5. top \in Nat /\ ReaderDated(r, top) /\ k.token <= top /\ Dates(r.found, top) /\ r.at \in Placed /\ r.at # "open"
  BY <1>1, <1>2, <1>3, <1>4 DEF Typed, Dated, ReaderDated, Placed
<1>6. PICK w : w = Ready(r, k.token, r.found)
  OBVIOUS
<1>7. Readied(r, w, k.token, r.found, top)
  BY <1>4, <1>5, <1>6, ReadyTyped
<1>8. /\ w \in Streams /\ w.at = "open" /\ w.gateway = r.gateway /\ w.cursor >= k.token
      /\ \A i \in DOMAIN r.found : r.found[i] <= w.cursor
      /\ \A i \in DOMAIN r.held : r.held[i] <= w.cursor
      /\ ReaderDated(w, top)
  BY <1>7 DEF Readied
<1>9. reader' = [reader EXCEPT ![c] = w]
  BY <1>1, <1>2, <1>3, <1>6 DEF Replayed, Typed
<1>10. \A id \in Stored : id \in Nat
  BY <1>1, StoredIds
<1>11. ASSUME c \notin overtaken PROVE ReaderFit(w, k, Stored) /\ Closer(r, w, Stored)
  <2>1. ReaderFit(r, k, Stored) /\ TakerFit(k, Stored)
    BY <1>1, <1>2, <1>3, <1>11 DEF AllFit, Fit
  <2>2. /\ Gapless(r.held, r.marker, Stored) /\ k.token <= r.marker /\ k.token # 0
        /\ Gapless(r.found, k.token, Stored)
        /\ \A id \in Stored : k.token < id /\ id <= r.marker => \E i \in DOMAIN r.found : r.found[i] = id
    BY <1>4, <2>1 DEF ReaderFit
  <2>3. k.since <= k.token /\ \A id \in Stored : k.since < id /\ id <= k.token => id \in k.has
    BY <2>1, <2>2 DEF TakerFit
  <2>4. Gapless(r.found \o r.held, k.token, Stored)
    <3>1. Stored \in SUBSET Nat
      BY <1>10
    <3>2. QED
      BY <1>4, <2>2, <3>1, GaplessTogether
  <2>5. ASSUME r.found = <<>>
        PROVE  k.since <= r.marker /\ \A id \in Stored : k.since < id /\ id <= r.marker => id \in k.has
    <3>1. k.since <= r.marker
      BY <1>4, <2>2, <2>3
    <3>2. ASSUME NEW id \in Stored, k.since < id, id <= r.marker PROVE id \in k.has
      <4>1. ~(k.token < id)
        BY <2>2, <2>5, <3>2
      <4>2. id <= k.token
        BY <1>4, <1>10, <4>1
      <4>3. QED
        BY <2>3, <3>2, <4>2
    <3>3. QED
      BY <3>1, <3>2
  <2>6. SentFit(w, k, Stored)
    <3>1. Stored \in SUBSET Nat /\ k.token >= k.since
      BY <1>4, <1>10, <2>3
    <3>2. QED
      BY <1>4, <1>5, <1>6, <2>3, <2>4, <2>5, <3>1, ReadyFit
  <2>7. ReaderFit(w, k, Stored)
    BY <1>8, <2>6 DEF ReaderFit
  <2>8. ASSUME NEW id \in Stored, Behind(w, id) PROVE Behind(r, id)
    <3>1. id \in Nat /\ id > w.cursor /\ w.cursor \in Nat
      BY <1>8, <1>10, <2>8 DEF Behind, Streams
    <3>2. \A i \in DOMAIN r.held : r.held[i] # id
      BY <1>4, <1>8, <3>1
    <3>3. \A i \in DOMAIN r.found : r.found[i] # id
      BY <1>4, <1>8, <3>1
    <3>4. k.token < id
      BY <1>4, <1>8, <3>1
    <3>5. ~(id <= r.marker)
      BY <2>2, <3>3, <3>4
    <3>6. QED
      BY <1>4, <3>1, <3>2, <3>5 DEF Behind
  <2>9. QED
    BY <2>7, <2>8 DEF Closer
<1>12. UNCHANGED <<top, kept, routed, link, entry, recovery, client, overtaken>>
  BY DEF Replayed
<1>13. w.at \in Placed
  BY <1>8 DEF Placed
<1>14. QED
  BY <1>2, <1>3, <1>4, <1>8, <1>9, <1>11, <1>12, <1>13, ReaderMoves

(* The first marker that is back is where the gateway is; a reader without a token begins *)
(* at its own. *)
LEMMA MarkedKeeps == ASSUME RealtimeInv, NEW c \in Clients, Marked(c) PROVE RealtimeInv'
<1>1. Typed /\ Dated /\ AllLinked /\ AllServed /\ AllFit
  BY DEF RealtimeInv
<1>2. PICK r : r = reader[c]
  OBVIOUS
<1>3. PICK k : k = client[c]
  OBVIOUS
<1>4. PICK g : g = r.gateway
  OBVIOUS
<1>5. /\ r \in Streams /\ r.at = "marked" /\ k \in Takers /\ k.token \in Nat /\ k.since \in Nat /\ g \in Gateways
      /\ r.held \in Seq(Nat) /\ r.marker \in Nat /\ entry[g] \in Entries
  BY <1>1, <1>2, <1>3, <1>4, Lookup DEF Marked, Takers, Streams
<1>6. top \in Nat /\ ReaderDated(r, top) /\ r.at \in Placed /\ r.at # "open" /\ r.marker >= 1 /\ r.marker <= top
  BY <1>1, <1>2, <1>5 DEF Typed, Dated, ReaderDated, Placed
<1>7. UNCHANGED <<top, kept, routed, link, recovery, overtaken>>
  BY DEF Marked
<1>8. PICK e : e = [entry[g] EXCEPT !.last = IF @ = 0 THEN r.marker ELSE @]
  OBVIOUS
<1>9. /\ e \in Entries /\ e.subscribed = entry[g].subscribed
      /\ e.last = IF entry[g].last = 0 THEN r.marker ELSE entry[g].last
  BY <1>5, <1>8 DEF Entries
<1>10. entry' = [entry EXCEPT ![g] = e]
  BY <1>1, <1>2, <1>4, <1>8 DEF Marked, Typed
<1>11. entry' \in [Gateways -> Entries] /\ entry'[g] = e /\ \A h \in Gateways : h # g => entry'[h] = entry[h]
  BY <1>1, <1>5, <1>9, <1>10 DEF Typed
<1>12. e.last # 0 /\ e.last <= top
  BY <1>1, <1>5, <1>6, <1>9 DEF Dated
<1>13. PICK first : first = (k.token = 0)
  OBVIOUS
<1>14. PICK w : w = IF first THEN Ready(r, r.marker, <<>>) ELSE [r EXCEPT !.at = "reading"]
  OBVIOUS
<1>15. PICK q : q = IF first THEN [Newcomer EXCEPT !.since = r.marker] ELSE k
  OBVIOUS
<1>16. reader' = [reader EXCEPT ![c] = w] /\ client' = [client EXCEPT ![c] = q]
  BY <1>1, <1>2, <1>3, <1>13, <1>14, <1>15 DEF Marked, Typed
<1>17. /\ q \in Takers /\ q.token <= top
       /\ first => q.token = 0 /\ q.since = r.marker /\ q.has = {}
  BY <1>1, <1>3, <1>5, <1>6, <1>15 DEF Takers, Newcomer, Dated
<1>18. <<>> \in Seq(Nat) /\ Dates(<<>>, top) /\ <<>> \o r.held = r.held
  BY <1>5 DEF Dates
<1>19. \A id \in Stored : id \in Nat
  BY <1>1, StoredIds
<1>20. w \in Streams /\ w.gateway = r.gateway /\ ReaderDated(w, top) /\ w.at \in {"reading", "open"} /\ Closer(r, w, Stored)
  <2>1. CASE first
    <3>1. Readied(r, w, r.marker, <<>>, top)
      BY <1>5, <1>6, <1>14, <1>18, <2>1, ReadyTyped
    <3>2. /\ w \in Streams /\ w.at = "open" /\ w.gateway = r.gateway /\ w.cursor >= r.marker
          /\ \A i \in DOMAIN r.held : r.held[i] <= w.cursor
          /\ ReaderDated(w, top)
      BY <3>1 DEF Readied
    <3>3. ASSUME NEW id \in Stored, Behind(w, id) PROVE Behind(r, id)
      <4>1. id \in Nat /\ id > w.cursor /\ w.cursor \in Nat
        BY <1>19, <3>2, <3>3 DEF Behind, Streams
      <4>2. \A i \in DOMAIN r.held : r.held[i] # id
        BY <1>5, <3>2, <4>1
      <4>3. id > r.marker
        BY <1>5, <3>2, <4>1
      <4>4. QED
        BY <1>6, <4>2, <4>3 DEF Behind
    <3>4. QED
      BY <3>2, <3>3 DEF Closer
  <2>2. CASE ~first
    <3>1. "reading" \in Placed \cup {"away", "entering"}
      BY DEF Placed
    <3>2. /\ w \in Streams /\ w.at = "reading" /\ w.gateway = r.gateway /\ w.marker = r.marker
          /\ w.held = r.held /\ w.found = r.found /\ w.cursor = r.cursor /\ w.sent = r.sent
      BY <1>5, <1>14, <2>2, <3>1 DEF Streams
    <3>3. ReaderDated(w, top)
      BY <1>6, <3>2 DEF ReaderDated
    <3>4. Closer(r, w, Stored)
      BY <1>6, <3>2 DEF Closer, Behind
    <3>5. QED
      BY <3>2, <3>3, <3>4
  <2>3. QED
    BY <2>1, <2>2
<1>21. r.at # "away" /\ w.at # "away" /\ w.at \in Placed
  BY <1>5, <1>20 DEF Placed
<1>22. /\ reader' \in [Clients -> Streams]
       /\ reader'[c] = w /\ \A d \in Clients : d # c => reader'[d] = reader[d]
       /\ \A h : Readers(h)' = Readers(h)
  BY <1>1, <1>2, <1>16, <1>20, <1>21, OneReader
<1>23. client' \in [Clients -> Takers] /\ client'[c] = q /\ \A d \in Clients : d # c => client'[d] = client[d]
  BY <1>1, <1>16, <1>17 DEF Typed
<1>24. Typed'
  BY <1>1, <1>7, <1>11, <1>22, <1>23 DEF Typed
<1>25. Dated'
  BY <1>1, <1>7, <1>11, <1>12, <1>17, <1>20, <1>22, <1>23 DEF Dated
<1>26. AllLinked'
  <2>1. \A h \in Gateways : entry'[h].subscribed = entry[h].subscribed
    BY <1>9, <1>11
  <2>2. QED
    BY <1>1, <1>7, <1>22, <2>1, LinkedStays
<1>27. \A d \in Clients : reader[d].at # "away" => Served(reader[d], entry[reader[d].gateway])
  BY <1>1 DEF AllServed
<1>28. Served(r, entry[g])
  BY <1>2, <1>4, <1>21, <1>27
<1>29. e.subscribed
  BY <1>6, <1>9, <1>28 DEF Served
<1>30. AllServed'
  <2>1. ASSUME NEW d \in Clients, reader'[d].at # "away" PROVE Served(reader[d], entry[reader[d].gateway])'
    <3>1. CASE d = c
      BY <1>4, <1>11, <1>12, <1>20, <1>22, <1>29, <3>1 DEF Served
    <3>2. CASE d # c
      <4>1. reader'[d] = reader[d] /\ Served(reader[d], entry[reader[d].gateway]) /\ reader[d].gateway \in Gateways
        BY <1>1, <1>22, <1>27, <2>1, <3>2, Lookup
      <4>2. CASE reader[d].gateway = g
        BY <1>11, <1>12, <1>29, <4>1, <4>2 DEF Served
      <4>3. CASE reader[d].gateway # g
        BY <1>11, <4>1, <4>3
      <4>4. QED
        BY <4>2, <4>3
    <3>3. QED
      BY <3>1, <3>2
  <2>2. QED
    BY <2>1 DEF AllServed
<1>31. Stored' = Stored
  BY <1>7 DEF Stored
<1>32. ASSUME NEW d \in Clients \ overtaken, reader[d].at \in Placed, reader[d].gateway = g
       PROVE  Reached(reader[d], link[g], e, recovery[g], Stored)
  <2>1. Reached(reader[d], link[g], entry[g], recovery[g], Stored)
    BY <1>1, <1>32 DEF AllFit, Fit
  <2>2. PastLast(reader[d], e, Stored)
    <3>1. CASE entry[g].last # 0
      BY <1>9, <2>1, <3>1 DEF Reached, PastLast
    <3>2. CASE entry[g].last = 0
      <4>1. reader[d].at # "away"
        BY <1>32 DEF Placed
      <4>2. reader[d].at = "marked"
        BY <1>27, <1>32, <3>2, <4>1 DEF Served, Placed
      <4>3. d \in Readers(g)
        BY <1>32, <4>1 DEF Readers
      <4>4. r.marker <= reader[d].marker
        BY <1>2, <1>4, <4>2, <4>3 DEF Marked
      <4>5. reader[d].marker \in Nat
        BY <1>1, Lookup DEF Streams
      <4>6. \A id \in Stored : Behind(reader[d], id) => id > reader[d].marker
        BY <4>2 DEF Behind
      <4>7. QED
        BY <1>5, <1>9, <1>19, <3>2, <4>4, <4>5, <4>6 DEF PastLast
    <3>3. QED
      BY <3>1, <3>2
  <2>3. QED
    BY <2>1, <2>2 DEF Reached
<1>33. ASSUME NEW d \in Clients \ overtaken PROVE Fit(d)'
  <2>1. Fit(d)
    BY <1>1 DEF AllFit
  <2>2. CASE d # c /\ (reader[d].at \in Placed => reader[d].gateway # g)
    <3>1. reader[d].gateway \in Gateways
      BY <1>1, Lookup
    <3>2. QED
      BY <1>1, <1>7, <1>11, <1>22, <1>23, <1>31, <2>1, <2>2, <3>1, FitStays
  <2>3. CASE d # c /\ reader[d].at \in Placed /\ reader[d].gateway = g
    <3>1. Reached(reader[d], link[g], e, recovery[g], Stored)
      BY <1>32, <2>3
    <3>2. TakerFit(client[d], Stored) /\ ReaderFit(reader[d], client[d], Stored)
      BY <2>1 DEF Fit
    <3>3. QED
      BY <1>7, <1>11, <1>22, <1>23, <1>31, <2>3, <3>1, <3>2 DEF Fit
  <2>4. CASE d = c
    <3>1. Reached(r, link[g], e, recovery[g], Stored)
      BY <1>2, <1>4, <1>6, <1>32, <2>4
    <3>2. Reached(w, link[g], e, recovery[g], Stored)
      BY <1>20, <3>1, ReachedCloser
    <3>3. TakerFit(k, Stored) /\ ReaderFit(r, k, Stored)
      BY <1>2, <1>3, <2>1, <2>4 DEF Fit
    <3>4. Gapless(r.held, r.marker, Stored) /\ k.token <= r.marker
      BY <1>5, <3>3 DEF ReaderFit
    <3>5. TakerFit(q, Stored) /\ ReaderFit(w, q, Stored)
      <4>1. CASE first
        <5>1. q.token = 0 /\ q.since = r.marker /\ q.has = {} /\ q \in Takers
          BY <1>17, <4>1
        <5>2. \A id \in Stored : ~(r.marker < id /\ id <= r.marker) /\ ~(id <= 0)
          BY <1>1, <1>5, <1>19, StoredIds
        <5>3. TakerFit(q, Stored)
          BY <5>1, <5>2 DEF TakerFit
        <5>4. Stored \in SUBSET Nat /\ r.marker >= q.since /\ q.since <= r.marker
          BY <1>5, <1>19, <5>1
        <5>5. Gapless(<<>> \o r.held, r.marker, Stored)
          BY <1>18, <3>4
        <5>6. SentFit(Ready(r, r.marker, <<>>), q, Stored)
          BY <1>5, <1>6, <1>18, <5>1, <5>2, <5>4, <5>5, ReadyFit
        <5>7. w = Ready(r, r.marker, <<>>)
          BY <1>14, <4>1
        <5>8. w.at = "open"
          BY <1>5, <1>6, <1>18, <5>7, ReadyTyped DEF Readied
        <5>9. QED
          BY <5>3, <5>6, <5>7, <5>8 DEF ReaderFit
      <4>2. CASE ~first
        <5>1. q = k /\ k.token # 0
          BY <1>13, <1>15, <4>2
        <5>2. w.at = "reading" /\ w.marker = r.marker /\ w.held = r.held
          BY <1>5, <1>14, <4>2 DEF Streams
        <5>3. QED
          BY <3>3, <3>4, <5>1, <5>2 DEF ReaderFit
      <4>3. QED
        BY <4>1, <4>2
    <3>6. w.gateway = g
      BY <1>4, <1>20
    <3>7. QED
      BY <1>7, <1>11, <1>22, <1>23, <1>31, <2>4, <3>2, <3>5, <3>6 DEF Fit
  <2>5. QED
    BY <2>2, <2>3, <2>4
<1>34. AllFit'
  BY <1>7, <1>33 DEF AllFit
<1>35. QED
  BY <1>24, <1>25, <1>26, <1>30, <1>34 DEF RealtimeInv

(* A step of the connection of a gateway, or of its recoveries, that gives nobody anything: *)
Moves(g, l, e, x) ==
  /\ link' = [link EXCEPT ![g] = l]
  /\ entry' = [entry EXCEPT ![g] = e]
  /\ recovery' = [recovery EXCEPT ![g] = x]
  /\ UNCHANGED <<top, kept, routed, reader, client, overtaken>>

(* what is left is linked, and leaves to each reader what it should. *)
Left(g, l, e, x) ==
  /\ LinkDated(l, top)
  /\ \A n \in DOMAIN x : RecoveryDated(x[n], top)
  /\ Linked(l, e, x, Readers(g) # {})
  /\ e.last = entry[g].last /\ (entry[g].subscribed => e.subscribed)

LeftTo(r, l, x) ==
  Carried(r, l, x, Stored) /\ \A n \in DOMAIN x : RecoveryFit(r, x[n], Stored)

(* Such a step keeps the invariant. *)
LEMMA GatewayMoves ==
  ASSUME RealtimeInv, NEW g \in Gateways, NEW l \in Links, NEW e \in Entries, NEW x \in Seq(Recoveries),
         Moves(g, l, e, x), Left(g, l, e, x),
         \A d \in Clients \ overtaken : reader[d].at \in Placed /\ reader[d].gateway = g => LeftTo(reader[d], l, x)
  PROVE  RealtimeInv'
<1>1. Typed /\ Dated /\ AllLinked /\ AllServed /\ AllFit
  BY DEF RealtimeInv
<1>2. UNCHANGED <<top, kept, routed, reader, client, overtaken>>
  BY DEF Moves
<1>3. /\ LinkDated(l, top) /\ (\A n \in DOMAIN x : RecoveryDated(x[n], top)) /\ Linked(l, e, x, Readers(g) # {})
       /\ e.last = entry[g].last /\ (entry[g].subscribed => e.subscribed)
  BY DEF Left
<1>4. /\ link \in [Gateways -> Links] /\ entry \in [Gateways -> Entries]
      /\ recovery \in [Gateways -> Seq(Recoveries)]
  BY <1>1 DEF Typed
<1>5. /\ link' \in [Gateways -> Links] /\ link'[g] = l /\ \A h \in Gateways : h # g => link'[h] = link[h]
      /\ entry' \in [Gateways -> Entries] /\ entry'[g] = e /\ \A h \in Gateways : h # g => entry'[h] = entry[h]
  BY <1>4 DEF Moves
<1>6. /\ recovery' \in [Gateways -> Seq(Recoveries)]
      /\ recovery'[g] = x /\ \A h \in Gateways : h # g => recovery'[h] = recovery[h]
  BY <1>4 DEF Moves
<1>7. Typed'
  BY <1>1, <1>5, <1>6, <1>2 DEF Typed
<1>8. Dated'
  <2>1. ASSUME NEW h \in Gateways
        PROVE  /\ LinkDated(link'[h], top) /\ entry'[h].last <= top
               /\ \A n \in DOMAIN recovery'[h] : RecoveryDated(recovery'[h][n], top)
    <3>1. CASE h = g
      BY <1>1, <1>5, <1>6, <1>3, <3>1 DEF Dated
    <3>2. CASE h # g
      BY <1>1, <1>5, <1>6, <3>2 DEF Dated
    <3>3. QED
      BY <3>1, <3>2
  <2>2. QED
    BY <1>1, <1>2, <2>1 DEF Dated
<1>9. \A h : Readers(h)' = Readers(h)
  BY <1>2 DEF Readers
<1>10. AllLinked'
  <2>1. ASSUME NEW h \in Gateways PROVE Linked(link[h], entry[h], recovery[h], Readers(h) # {})'
    <3>1. CASE h = g
      BY <1>5, <1>6, <1>9, <1>3, <3>1
    <3>2. CASE h # g
      <4>1. Linked(link[h], entry[h], recovery[h], Readers(h) # {})
        BY <1>1 DEF AllLinked
      <4>2. QED
        BY <1>5, <1>6, <1>9, <3>2, <4>1
    <3>3. QED
      BY <3>1, <3>2
  <2>2. QED
    BY <2>1 DEF AllLinked
<1>11. AllServed'
  <2>1. ASSUME NEW d \in Clients, reader[d].at # "away" PROVE Served(reader[d], entry'[reader[d].gateway])
    <3>1. Served(reader[d], entry[reader[d].gateway]) /\ reader[d].gateway \in Gateways
      BY <1>1, <2>1, Lookup DEF AllServed
    <3>2. CASE reader[d].gateway = g
      BY <1>5, <1>3, <3>1, <3>2 DEF Served
    <3>3. CASE reader[d].gateway # g
      BY <1>5, <3>1, <3>3
    <3>4. QED
      BY <3>2, <3>3
  <2>2. QED
    BY <1>2, <2>1 DEF AllServed
<1>12. Stored' = Stored
  BY <1>2 DEF Stored
<1>13. ASSUME NEW d \in Clients \ overtaken PROVE Fit(d)'
  <2>1. Fit(d) /\ reader[d].gateway \in Gateways
    BY <1>1, Lookup DEF AllFit
  <2>2. CASE reader[d].at \in Placed => reader[d].gateway # g
    BY <1>1, <1>5, <1>6, <1>12, <1>2, <2>1, <2>2, FitStays
  <2>3. CASE reader[d].at \in Placed /\ reader[d].gateway = g
    <3>1. TakerFit(client[d], Stored) /\ ReaderFit(reader[d], client[d], Stored) /\ PastLast(reader[d], entry[g], Stored)
      BY <2>1, <2>3 DEF Fit, Reached
    <3>2. PastLast(reader[d], e, Stored)
      BY <1>3, <3>1 DEF PastLast
    <3>3. Reached(reader[d], l, e, x, Stored)
      BY <2>3, <3>2 DEF Reached, LeftTo
    <3>4. QED
      BY <1>5, <1>6, <1>12, <1>2, <2>3, <3>1, <3>3 DEF Fit
  <2>4. QED
    BY <2>2, <2>3
<1>14. AllFit'
  BY <1>13, <1>2 DEF AllFit
<1>15. QED
  BY <1>7, <1>8, <1>10, <1>11, <1>14 DEF RealtimeInv

(* What is known of a gateway. *)
LEMMA AtGateway ==
  ASSUME RealtimeInv, NEW g \in Gateways
  PROVE  /\ link[g] \in Links /\ entry[g] \in Entries /\ recovery[g] \in Seq(Recoveries) /\ top \in Nat
         /\ LinkDated(link[g], top) /\ \A n \in DOMAIN recovery[g] : RecoveryDated(recovery[g][n], top)
         /\ Linked(link[g], entry[g], recovery[g], Readers(g) # {})
         /\ \A d \in Clients \ overtaken : reader[d].at \in Placed /\ reader[d].gateway = g =>
              Reached(reader[d], link[g], entry[g], recovery[g], Stored)
<1>1. Typed /\ Dated /\ AllLinked /\ AllFit
  BY DEF RealtimeInv
<1>2. link[g] \in Links /\ entry[g] \in Entries /\ recovery[g] \in Seq(Recoveries) /\ top \in Nat
  BY <1>1, Lookup DEF Typed
<1>3. LinkDated(link[g], top) /\ \A n \in DOMAIN recovery[g] : RecoveryDated(recovery[g][n], top)
  BY <1>1 DEF Dated
<1>4. Linked(link[g], entry[g], recovery[g], Readers(g) # {})
  BY <1>1 DEF AllLinked
<1>5. \A d \in Clients \ overtaken : reader[d].at \in Placed /\ reader[d].gateway = g =>
        Reached(reader[d], link[g], entry[g], recovery[g], Stored)
  BY <1>1 DEF AllFit, Fit
<1>6. QED
  BY <1>2, <1>3, <1>4, <1>5

(* An answer comes after what the connection brings already. *)
LEMMA ServeKeeps == ASSUME RealtimeInv, NEW g \in Gateways, Serve(g) PROVE RealtimeInv'
<1>1. PICK k : k = link[g]
  OBVIOUS
<1>2. /\ k \in Links /\ entry[g] \in Entries /\ recovery[g] \in Seq(Recoveries) /\ LinkDated(k, top)
      /\ \A n \in DOMAIN recovery[g] : RecoveryDated(recovery[g][n], top)
      /\ Linked(k, entry[g], recovery[g], Readers(g) # {})
      /\ \A d \in Clients \ overtaken : reader[d].at \in Placed /\ reader[d].gateway = g =>
           Reached(reader[d], k, entry[g], recovery[g], Stored)
  BY <1>1, AtGateway
<1>3. PICK ask : ask = Head(k.asks)
  OBVIOUS
<1>4. k.asks # <<>> /\ k.asks \in Seq(Asks) /\ k.brings \in Seq(Items)
  BY <1>1, <1>2 DEF Serve, Links
<1>5. ask \in Asks /\ Tail(k.asks) \in Seq(Asks)
  BY <1>3, <1>4
<1>6. ask \in Items
  BY <1>5 DEF Items
<1>7. PICK b : b = Append(k.brings, ask)
  OBVIOUS
<1>8. b \in Seq(Items) /\ \A i \in DOMAIN k.brings : i \in DOMAIN b /\ b[i] = k.brings[i]
  BY <1>4, <1>6, <1>7
<1>9. PICK l : l = [k EXCEPT !.asks = Tail(@), !.brings = b, !.carries = (ask.what = "subscribe")]
  OBVIOUS
<1>10. /\ l \in Links /\ l.up = k.up /\ l.asks = Tail(k.asks) /\ l.brings = b
       /\ l.carries = (ask.what = "subscribe")
  BY <1>2, <1>5, <1>8, <1>9 DEF Links
<1>11. link' = [link EXCEPT ![g] = l]
  BY <1>1, <1>3, <1>7, <1>9 DEF Serve
<1>12. UNCHANGED <<top, kept, routed, entry, recovery, reader, client, overtaken>>
  BY DEF Serve
<1>13. Linked(l, entry[g], recovery[g], Readers(g) # {}) /\ LinkDated(l, top)
  BY <1>2, <1>3, <1>4, <1>7, <1>10, LinkedServe
<1>14. ASSUME NEW d \in Clients \ overtaken, reader[d].at \in Placed, reader[d].gateway = g
       PROVE  LeftTo(reader[d], l, recovery[g])
  <2>1. Reached(reader[d], k, entry[g], recovery[g], Stored)
    BY <1>2, <1>14
  <2>2. \A id : OnItsWay(k, recovery[g], id) => OnItsWay(l, recovery[g], id)
    BY <1>8, <1>10 DEF OnItsWay
  <2>3. Carried(reader[d], l, recovery[g], Stored)
    BY <1>10, <2>1, <2>2 DEF Reached, Carried
  <2>4. QED
    BY <2>1, <2>3 DEF Reached, LeftTo
<1>15. entry' = [entry EXCEPT ![g] = entry[g]] /\ recovery' = [recovery EXCEPT ![g] = recovery[g]]
  BY <1>12 DEF RealtimeInv, Typed
<1>16. Moves(g, l, entry[g], recovery[g])
  BY <1>11, <1>12, <1>15 DEF Moves
<1>17. Left(g, l, entry[g], recovery[g])
  BY <1>2, <1>13 DEF Left
<1>18. QED
  BY <1>2, <1>10, <1>14, <1>16, <1>17, GatewayMoves

(* A connection that is lost brings nothing. *)
LEMMA LoseKeeps == ASSUME RealtimeInv, NEW g \in Gateways, Lose(g) PROVE RealtimeInv'
<1>1. PICK k : k = link[g]
  OBVIOUS
<1>2. /\ k \in Links /\ entry[g] \in Entries /\ recovery[g] \in Seq(Recoveries) /\ LinkDated(k, top)
      /\ \A n \in DOMAIN recovery[g] : RecoveryDated(recovery[g][n], top)
      /\ Linked(k, entry[g], recovery[g], Readers(g) # {})
      /\ \A d \in Clients \ overtaken : reader[d].at \in Placed /\ reader[d].gateway = g =>
           Reached(reader[d], k, entry[g], recovery[g], Stored)
  BY <1>1, AtGateway
<1>3. k.asks \in Seq(Asks) /\ k.brings \in Seq(Items)
  BY <1>2 DEF Links
<1>4. PICK u : u = Unheard(k.brings)
  OBVIOUS
<1>5. u \in Seq(Asks)
  BY <1>3, <1>4, UnheardOf DEF PartOf
<1>6. PICK a : a = u \o k.asks
  OBVIOUS
<1>7. a \in Seq(Asks) /\ <<>> \in Seq(Items)
  BY <1>3, <1>5, <1>6
<1>8. PICK l : l = [k EXCEPT !.up = FALSE, !.brings = <<>>, !.asks = a]
  OBVIOUS
<1>9. l \in Links /\ ~l.up /\ l.brings = <<>> /\ l.asks = a
  BY <1>2, <1>7, <1>8 DEF Links
<1>10. link' = [link EXCEPT ![g] = l]
  BY <1>1, <1>4, <1>6, <1>8 DEF Lose
<1>11. UNCHANGED <<top, kept, routed, entry, recovery, reader, client, overtaken>>
  BY DEF Lose
<1>12. Linked(l, entry[g], recovery[g], Readers(g) # {}) /\ LinkDated(l, top)
  BY <1>2, <1>4, <1>6, <1>9, LinkedLose
<1>13. ASSUME NEW d \in Clients \ overtaken, reader[d].at \in Placed, reader[d].gateway = g
       PROVE  LeftTo(reader[d], l, recovery[g])
  BY <1>2, <1>9, <1>13 DEF Carried, Reached, LeftTo
<1>14. entry' = [entry EXCEPT ![g] = entry[g]] /\ recovery' = [recovery EXCEPT ![g] = recovery[g]]
  BY <1>11 DEF RealtimeInv, Typed
<1>15. Moves(g, l, entry[g], recovery[g])
  BY <1>10, <1>11, <1>14 DEF Moves
<1>16. Left(g, l, entry[g], recovery[g])
  BY <1>2, <1>12 DEF Left
<1>17. QED
  BY <1>2, <1>9, <1>13, <1>15, <1>16, GatewayMoves

(* It is back, and a recovery is yet to read, when there is somebody to read for. *)
LEMMA ReturnKeeps == ASSUME RealtimeInv, NEW g \in Gateways, Return(g) PROVE RealtimeInv'
<1>1. PICK k : k = link[g]
  OBVIOUS
<1>2. PICK y : y = recovery[g]
  OBVIOUS
<1>3. /\ k \in Links /\ entry[g] \in Entries /\ y \in Seq(Recoveries) /\ LinkDated(k, top)
      /\ \A n \in DOMAIN y : RecoveryDated(y[n], top)
      /\ Linked(k, entry[g], y, Readers(g) # {})
      /\ \A d \in Clients \ overtaken : reader[d].at \in Placed /\ reader[d].gateway = g =>
           Reached(reader[d], k, entry[g], y, Stored)
  BY <1>1, <1>2, AtGateway
<1>4. link \in [Gateways -> Links] /\ recovery \in [Gateways -> Seq(Recoveries)] /\ entry \in [Gateways -> Entries] /\ top \in Nat
  BY DEF RealtimeInv, Typed
<1>5. k.asks \in Seq(Asks) /\ k.brings \in Seq(Items) /\ k.carries \in BOOLEAN
  BY <1>3 DEF Links
<1>6. UNCHANGED <<top, kept, routed, entry, reader, client, overtaken>>
  BY DEF Return
<1>7. entry' = [entry EXCEPT ![g] = entry[g]]
  BY <1>4, <1>6
<1>8. CASE Readers(g) # {}
  <2>1. PICK ask : ask = Subscribe(Len(y) + 1)
    OBVIOUS
  <2>2. ask \in Asks
    BY <1>3, <2>1 DEF Asks, Subscribe
  <2>3. PICK again \in {FALSE, k.carries} :
          link' = [link EXCEPT ![g].up = TRUE, ![g].carries = again, ![g].asks = Append(@, ask)]
    BY <1>1, <1>2, <1>8, <2>1 DEF Return
  <2>4. PICK a : a = Append(k.asks, ask)
    OBVIOUS
  <2>5. a \in Seq(Asks) /\ DOMAIN k.asks = 1 .. Len(k.asks) /\ DOMAIN a = 1 .. (Len(k.asks) + 1)
    BY <1>5, <2>2, <2>4
  <2>6. (\A i \in DOMAIN k.asks : a[i] = k.asks[i]) /\ a[Len(k.asks) + 1] = ask
    BY <1>5, <2>2, <2>4
  <2>7. PICK l : l = [k EXCEPT !.up = TRUE, !.carries = again, !.asks = a]
    OBVIOUS
  <2>8. again \in BOOLEAN
    BY <1>5, <2>3
  <2>9. l \in Links /\ l.up /\ l.carries = again /\ l.asks = a /\ l.brings = k.brings
    BY <1>3, <2>5, <2>7, <2>8 DEF Links
  <2>10. link' = [link EXCEPT ![g] = l]
    BY <1>1, <1>4, <2>3, <2>4, <2>7
  <2>11. Asked(k, l, ask)
    BY <2>5, <2>6, <2>9 DEF Asked
  <2>12. PICK x : x = Append(y, Recovery("asking"))
    OBVIOUS
  <2>13. recovery' = [recovery EXCEPT ![g] = x]
    BY <1>2, <1>4, <1>8, <2>12 DEF Return
  <2>14. Recovery("asking") \in Recoveries /\ Recovery("asking").at = "asking" /\ RecoveryDated(Recovery("asking"), top)
    BY <1>4 DEF Recovery, Recoveries, Owing, RecoveryDated, Dates
  <2>15. /\ x \in Seq(Recoveries) /\ Len(y) + 1 \in DOMAIN x /\ x[Len(y) + 1] = Recovery("asking")
         /\ \A n \in DOMAIN x : n # Len(y) + 1 => n \in DOMAIN y /\ x[n] = y[n]
    BY <1>3, <2>12, <2>14
  <2>16. Linked(l, entry[g], x, TRUE)
    BY <1>3, <1>8, <2>1, <2>11, <2>12, LinkedBack
  <2>17. LinkDated(l, top)
    BY <1>3, <2>11, AskedDated
  <2>18. \A n \in DOMAIN x : RecoveryDated(x[n], top)
    BY <1>3, <2>14, <2>15
  <2>19. ~NoneOwes(x)
    BY <2>14, <2>15 DEF NoneOwes, Owing
  <2>20. ASSUME NEW d \in Clients \ overtaken, reader[d].at \in Placed, reader[d].gateway = g
         PROVE  LeftTo(reader[d], l, x)
    <3>1. \A n \in DOMAIN y : RecoveryFit(reader[d], y[n], Stored)
      BY <1>3, <2>20 DEF Reached
    <3>2. RecoveryFit(reader[d], Recovery("asking"), Stored)
      BY <2>14 DEF RecoveryFit
    <3>3. \A n \in DOMAIN x : RecoveryFit(reader[d], x[n], Stored)
      BY <2>15, <3>1, <3>2
    <3>4. QED
      BY <2>19, <3>3 DEF LeftTo, Carried
  <2>21. Moves(g, l, entry[g], x)
    BY <1>6, <1>7, <2>10, <2>13 DEF Moves
  <2>22. Left(g, l, entry[g], x)
    BY <1>8, <2>16, <2>17, <2>18 DEF Left
  <2>23. QED
    BY <1>3, <2>9, <2>15, <2>20, <2>21, <2>22, GatewayMoves
<1>9. CASE Readers(g) = {}
  <2>1. PICK again \in {FALSE, k.carries} :
          link' = [link EXCEPT ![g].up = TRUE, ![g].carries = again, ![g].asks = @]
    BY <1>1, <1>2, <1>9 DEF Return
  <2>2. PICK l : l = [k EXCEPT !.up = TRUE, !.carries = again]
    OBVIOUS
  <2>3. again \in BOOLEAN
    BY <1>5, <2>1
  <2>4. l \in Links /\ l.up /\ l.carries = again /\ l.asks = k.asks /\ l.brings = k.brings
    BY <1>3, <2>2, <2>3 DEF Links
  <2>5. link' = [link EXCEPT ![g] = l]
    BY <1>1, <1>3, <1>4, <2>1, <2>2 DEF Links
  <2>6. recovery' = [recovery EXCEPT ![g] = y]
    BY <1>2, <1>4, <1>9 DEF Return
  <2>7. LinkDated(l, top)
    BY <1>3, <2>4 DEF LinkDated
  <2>8. ~entry[g].subscribed /\ ~Pending(k, Subscribe(0))
    BY <1>3, <1>9 DEF Linked
  <2>9. ~\E i \in DOMAIN k.brings : k.brings[i] = Subscribe(0)
    BY <2>8 DEF Pending
  <2>10. InTurn(l) /\ AllApart(l) /\ \A one : Pending(l, one) <=> Pending(k, one)
    BY <1>3, <2>4 DEF Linked, InTurn, AllApart, Pending
  <2>11. \A n \in Nat \ {0} : Pending(l, Subscribe(n)) => n \in DOMAIN y /\ y[n].at = "asking"
    BY <1>3, <2>10 DEF Linked
  <2>12. Linked(l, entry[g], y, FALSE)
    BY <2>4, <2>8, <2>9, <2>10, <2>11 DEF Linked
  <2>13. ASSUME NEW d \in Clients \ overtaken, reader[d].at \in Placed, reader[d].gateway = g
         PROVE  FALSE
    <3>1. reader[d].at # "away"
      BY <2>13 DEF Placed
    <3>2. QED
      BY <1>9, <2>13, <3>1 DEF Readers
  <2>14. Moves(g, l, entry[g], y)
    BY <1>6, <1>7, <2>5, <2>6 DEF Moves
  <2>15. Left(g, l, entry[g], y)
    BY <1>3, <1>9, <2>7, <2>12 DEF Left
  <2>16. QED
    BY <1>3, <2>4, <2>13, <2>14, <2>15, GatewayMoves
<1>10. QED
  BY <1>8, <1>9

(* A recovery that goes on, *)
LEMMA OneRecovery ==
  ASSUME NEW y \in Seq(Recoveries), NEW n \in DOMAIN y, NEW z \in Recoveries
  PROVE  /\ [y EXCEPT ![n] = z] \in Seq(Recoveries) /\ DOMAIN [y EXCEPT ![n] = z] = DOMAIN y
         /\ [y EXCEPT ![n] = z][n] = z /\ \A m \in DOMAIN y : m # n => [y EXCEPT ![n] = z][m] = y[m]
OBVIOUS

(* one that has subscribed, has nothing pending. *)
LEMMA LinkedRecovers ==
  ASSUME NEW k, NEW e, NEW y, NEW x, NEW read, NEW n, Linked(k, e, y, read), y[n].at # "asking",
         DOMAIN x = DOMAIN y, \A m \in DOMAIN y : m # n => x[m] = y[m]
  PROVE  Linked(k, e, x, read)
<1>1. \A m \in Nat \ {0} : Pending(k, Subscribe(m)) => m \in DOMAIN x /\ x[m].at = "asking"
  BY DEF Linked
<1>2. QED
  BY <1>1 DEF Linked

(* It is yet to read what a reader is behind, or has read it. *)
Reads(r, z) ==
  \/ z.at \in Owing
  \/ z.at = "found" /\ \A id \in Stored : Behind(r, id) => \E i \in DOMAIN z.found : z.found[i] = id

(* A step of one recovery that gives nobody anything keeps the invariant. *)
LEMMA RecoveryMoves ==
  ASSUME RealtimeInv, NEW g \in Gateways, NEW n \in DOMAIN recovery[g], NEW z \in Recoveries,
         recovery' = [recovery EXCEPT ![g] = [recovery[g] EXCEPT ![n] = z]], RecoveryDated(z, top),
         UNCHANGED <<top, kept, routed, link, entry, reader, client, overtaken>>,
         recovery[g][n].at \in Owing \ {"asking"},
         \A d \in Clients \ overtaken : reader[d].at \in Placed /\ reader[d].gateway = g =>
           /\ RecoveryFit(reader[d], z, Stored)
           /\ Reads(reader[d], z)
  PROVE  RealtimeInv'
<1>1. PICK k : k = link[g]
  OBVIOUS
<1>2. PICK y : y = recovery[g]
  OBVIOUS
<1>3. /\ k \in Links /\ entry[g] \in Entries /\ y \in Seq(Recoveries) /\ LinkDated(k, top)
      /\ \A m \in DOMAIN y : RecoveryDated(y[m], top)
      /\ Linked(k, entry[g], y, Readers(g) # {})
      /\ \A d \in Clients \ overtaken : reader[d].at \in Placed /\ reader[d].gateway = g =>
           Reached(reader[d], k, entry[g], y, Stored)
  BY <1>1, <1>2, AtGateway
<1>4. link \in [Gateways -> Links] /\ entry \in [Gateways -> Entries]
  BY DEF RealtimeInv, Typed
<1>5. PICK x : x = [y EXCEPT ![n] = z]
  OBVIOUS
<1>6. x \in Seq(Recoveries) /\ DOMAIN x = DOMAIN y /\ x[n] = z /\ \A m \in DOMAIN y : m # n => x[m] = y[m]
  BY <1>2, <1>3, <1>5, OneRecovery
<1>7. Linked(k, entry[g], x, Readers(g) # {})
  BY <1>2, <1>3, <1>6, LinkedRecovers
<1>8. \A m \in DOMAIN x : RecoveryDated(x[m], top)
  BY <1>3, <1>6
<1>9. ASSUME NEW d \in Clients \ overtaken, reader[d].at \in Placed, reader[d].gateway = g
      PROVE  LeftTo(reader[d], k, x)
  <2>1. /\ RecoveryFit(reader[d], z, Stored)
        /\ Reads(reader[d], z)
    BY <1>9
  <2>2. \A m \in DOMAIN x : RecoveryFit(reader[d], x[m], Stored)
    BY <1>3, <1>6, <1>9, <2>1 DEF Reached
  <2>3. Carried(reader[d], k, x, Stored)
    <3>1. CASE z.at \in Owing
      BY <1>2, <1>6, <3>1 DEF Carried, NoneOwes
    <3>2. CASE z.at = "found" /\ \A id \in Stored : Behind(reader[d], id) => \E i \in DOMAIN z.found : z.found[i] = id
      <4>1. \A id \in Stored : Behind(reader[d], id) => OnItsWay(k, x, id)
        BY <1>2, <1>6, <3>2 DEF OnItsWay
      <4>2. QED
        BY <4>1 DEF Carried
    <3>3. QED
      BY <2>1, <3>1, <3>2 DEF Reads
  <2>4. QED
    BY <2>2, <2>3 DEF LeftTo
<1>10. link' = [link EXCEPT ![g] = k] /\ entry' = [entry EXCEPT ![g] = entry[g]]
  BY <1>1, <1>4
<1>11. Moves(g, k, entry[g], x)
  BY <1>2, <1>5, <1>10 DEF Moves
<1>12. Left(g, k, entry[g], x)
  BY <1>3, <1>7, <1>8 DEF Left
<1>13. QED
  BY <1>3, <1>6, <1>9, <1>11, <1>12, GatewayMoves

(* A recovery that nobody reads for comes to nothing; one that reads begins at the last *)
(* event of the gateway, which nobody is behind. *)
LEMMA RecoverFromKeeps ==
  ASSUME RealtimeInv, NEW g \in Gateways, NEW n \in DOMAIN recovery[g], RecoverFrom(g, n) PROVE RealtimeInv'
<1>1. PICK z : z = IF Readers(g) = {} THEN Recovery("done") ELSE [Recovery("reading") EXCEPT !.after = entry[g].last]
  OBVIOUS
<1>2. entry[g] \in Entries /\ entry[g].last \in Nat /\ entry[g].last <= top /\ top \in Nat
  BY Lookup DEF RealtimeInv, Typed, Dated, Entries
<1>3. /\ z \in Recoveries /\ z.found = <<>> /\ z.after <= top
      /\ z.at = IF Readers(g) = {} THEN "done" ELSE "reading"
      /\ Readers(g) # {} => z.after = entry[g].last
  <2>1. CASE Readers(g) = {}
    <3>1. z = [at |-> "done", after |-> 0, found |-> <<>>] /\ <<>> \in Seq(Nat)
      BY <1>1, <2>1 DEF Recovery
    <3>2. QED
      BY <1>2, <2>1, <3>1 DEF Recoveries
  <2>2. CASE Readers(g) # {}
    <3>1. z = [at |-> "reading", after |-> entry[g].last, found |-> <<>>] /\ <<>> \in Seq(Nat)
      BY <1>1, <2>2 DEF Recovery
    <3>2. "reading" \in Owing
      BY DEF Owing
    <3>3. QED
      BY <1>2, <2>2, <3>1, <3>2 DEF Recoveries
  <2>3. QED
    BY <2>1, <2>2
<1>4. RecoveryDated(z, top)
  BY <1>3 DEF RecoveryDated, Dates
<1>5. recovery' = [recovery EXCEPT ![g] = [recovery[g] EXCEPT ![n] = z]]
  BY <1>1 DEF RecoverFrom, RealtimeInv, Typed
<1>6. ASSUME NEW d \in Clients \ overtaken, reader[d].at \in Placed, reader[d].gateway = g
      PROVE  /\ RecoveryFit(reader[d], z, Stored)
             /\ Reads(reader[d], z)
  <2>1. reader[d].at # "away"
    BY <1>6 DEF Placed
  <2>2. Readers(g) # {}
    BY <1>6, <2>1 DEF Readers
  <2>3. PastLast(reader[d], entry[g], Stored)
    BY <1>6, AtGateway DEF Reached
  <2>4. z.at = "reading" /\ z.after = entry[g].last
    BY <1>3, <2>2
  <2>5. RecoveryFit(reader[d], z, Stored)
    BY <2>3, <2>4 DEF PastLast, RecoveryFit
  <2>6. z.at \in Owing
    BY <2>4 DEF Owing
  <2>7. QED
    BY <2>5, <2>6 DEF Reads
<1>7. recovery[g][n].at \in Owing \ {"asking"}
  BY DEF RecoverFrom, Owing
<1>8. UNCHANGED <<top, kept, routed, link, entry, reader, client, overtaken>>
  BY DEF RecoverFrom
<1>9. QED
  BY <1>3, <1>4, <1>5, <1>6, <1>7, <1>8, RecoveryMoves

(* What it reads is all a reader is behind. *)
LEMMA RecoverReadKeeps ==
  ASSUME RealtimeInv, NEW g \in Gateways, NEW n \in DOMAIN recovery[g], RecoverRead(g, n) PROVE RealtimeInv'
<1>1. PICK y : y = recovery[g][n]
  OBVIOUS
<1>2. y \in Recoveries /\ y.after \in Nat /\ RecoveryDated(y, top) /\ y.at = "reading" /\ Typed
  <2>1. recovery[g] \in Seq(Recoveries) /\ RecoveryDated(recovery[g][n], top)
    BY AtGateway
  <2>2. y \in Recoveries
    BY <1>1, <2>1
  <2>3. QED
    BY <1>1, <2>1, <2>2 DEF RecoverRead, Recoveries, RealtimeInv
<1>3. PICK f : f = Found(y.after)
  OBVIOUS
<1>4. /\ f \in Seq(Nat) /\ Dates(f, top)
      /\ \A id \in Stored : id > y.after => \E i \in DOMAIN f : f[i] = id
  BY <1>2, <1>3, FoundAll
<1>5. \A j \in DOMAIN f : \A id \in Stored : id > y.after /\ id < f[j] => \E i \in DOMAIN f : i < j /\ f[i] = id
  BY <1>2, <1>3, FoundGapless
<1>6. PICK z : z = [y EXCEPT !.at = "found", !.found = f]
  OBVIOUS
<1>7. z \in Recoveries /\ z.at = "found" /\ z.found = f /\ z.after = y.after
  BY <1>2, <1>4, <1>6 DEF Recoveries
<1>8. RecoveryDated(z, top)
  BY <1>2, <1>4, <1>7 DEF RecoveryDated
<1>9. recovery' = [recovery EXCEPT ![g] = [recovery[g] EXCEPT ![n] = z]]
  BY <1>1, <1>2, <1>3, <1>6 DEF RecoverRead, Typed
<1>10. ASSUME NEW d \in Clients \ overtaken, reader[d].at \in Placed, reader[d].gateway = g
       PROVE  RecoveryFit(reader[d], z, Stored) /\ Reads(reader[d], z)
  <2>1. RecoveryFit(reader[d], y, Stored)
    BY <1>1, <1>10, AtGateway DEF Reached
  <2>2. \A id \in Stored : Behind(reader[d], id) => id > y.after
    BY <1>2, <2>1 DEF RecoveryFit
  <2>3. RecoveryFit(reader[d], z, Stored)
    BY <1>5, <1>7, <2>2 DEF RecoveryFit
  <2>4. QED
    BY <1>4, <1>7, <2>2, <2>3 DEF Reads
<1>11. recovery[g][n].at \in Owing \ {"asking"}
  BY <1>1, <1>2 DEF Owing
<1>12. UNCHANGED <<top, kept, routed, link, entry, reader, client, overtaken>>
  BY DEF RecoverRead
<1>13. QED
  BY <1>7, <1>8, <1>9, <1>10, <1>11, <1>12, RecoveryMoves

(* Events that a gateway delivers: *)
Delivers(g, l, x, ids) ==
  /\ link' = [link EXCEPT ![g] = l]
  /\ recovery' = [recovery EXCEPT ![g] = x]
  /\ Broadcast(g, ids)
  /\ UNCHANGED <<top, kept, routed, client>>

(* they come to each reader in turn, and leave the rest of what it is behind on its way. *)
GivesTo(r, l, x, ids) ==
  /\ Following(r, ids, Stored)
  /\ \A n \in DOMAIN x : RecoveryFit(r, x[n], Stored)
  /\ l.up /\ NoneOwes(x) => \A id \in Stored : Behind(r, id) => OnItsWay(l, x, id) \/ \E i \in DOMAIN ids : ids[i] = id

(* Then they are given to each reader as they should be. *)
LEMMA GatewayDelivers ==
  ASSUME RealtimeInv, NEW g \in Gateways, NEW l \in Links, NEW x \in Seq(Recoveries), NEW ids \in Seq(Nat), Dates(ids, top),
         Delivers(g, l, x, ids), LinkDated(l, top), \A n \in DOMAIN x : RecoveryDated(x[n], top),
         \A f \in Entries : f.subscribed = entry[g].subscribed => Linked(l, f, x, Readers(g) # {}),
         overtaken \subseteq overtaken', overtaken' \subseteq Clients,
         \A d \in Clients \ overtaken' : reader[d].at \in Placed /\ reader[d].gateway = g => GivesTo(reader[d], l, x, ids)
  PROVE  RealtimeInv'
<1>1. Typed /\ Dated /\ AllLinked /\ AllServed /\ AllFit /\ top \in Nat
  BY DEF RealtimeInv, Typed
<1>2. UNCHANGED <<top, kept, routed, client>>
  BY DEF Delivers
<1>3. /\ link \in [Gateways -> Links] /\ entry \in [Gateways -> Entries]
      /\ recovery \in [Gateways -> Seq(Recoveries)] /\ reader \in [Clients -> Streams]
  BY <1>1 DEF Typed
<1>4. /\ link' \in [Gateways -> Links] /\ link'[g] = l /\ \A h \in Gateways : h # g => link'[h] = link[h]
  BY <1>3 DEF Delivers
<1>5. /\ recovery' \in [Gateways -> Seq(Recoveries)]
      /\ recovery'[g] = x /\ \A h \in Gateways : h # g => recovery'[h] = recovery[h]
  BY <1>3 DEF Delivers
<1>6. PICK e : e = IF ids = <<>> THEN entry[g] ELSE [entry[g] EXCEPT !.last = ids[Len(ids)]]
  OBVIOUS
<1>7. ids # <<>> => Len(ids) \in DOMAIN ids /\ ids[Len(ids)] \in Nat /\ ids[Len(ids)] >= 1 /\ ids[Len(ids)] <= top
  <2>1. SUFFICES ASSUME ids # <<>>
                 PROVE  Len(ids) \in DOMAIN ids /\ ids[Len(ids)] \in Nat /\ ids[Len(ids)] >= 1 /\ ids[Len(ids)] <= top
    OBVIOUS
  <2>2. Len(ids) \in DOMAIN ids /\ ids[Len(ids)] \in Nat
    BY <2>1
  <2>3. QED
    BY <2>2 DEF Dates
<1>8. /\ e \in Entries /\ e.subscribed = entry[g].subscribed /\ e.last \in Nat
      /\ e.last = IF ids = <<>> THEN entry[g].last ELSE ids[Len(ids)]
  <2>1. entry[g] \in Entries
    BY <1>3
  <2>2. QED
    BY <1>6, <1>7, <2>1 DEF Entries
<1>9. e.last <= top /\ (e.last = 0 => entry[g].last = 0)
  BY <1>1, <1>7, <1>8 DEF Dated
<1>10. entry' = [entry EXCEPT ![g] = e]
  BY <1>3, <1>6 DEF Delivers, Broadcast
<1>11. entry' \in [Gateways -> Entries] /\ entry'[g] = e /\ \A h \in Gateways : h # g => entry'[h] = entry[h]
  BY <1>3, <1>8, <1>10
<1>12. ASSUME NEW d \in Clients
       PROVE  /\ reader'[d] = IF d \in Readers(g) THEN DeliverTo(reader[d], ids) ELSE reader[d]
              /\ reader'[d] \in Streams /\ reader'[d].at = reader[d].at /\ reader'[d].gateway = reader[d].gateway
              /\ ReaderDated(reader'[d], top)
  <2>1. reader[d] \in Streams /\ ReaderDated(reader[d], top)
    BY <1>1, <1>3 DEF Dated
  <2>2. reader'[d] = IF d \in Readers(g) THEN DeliverTo(reader[d], ids) ELSE reader[d]
    BY DEF Delivers, Broadcast
  <2>3. Handed(reader[d], DeliverTo(reader[d], ids), ids, top)
    BY <1>1, <2>1, DeliverHands
  <2>4. QED
    BY <2>1, <2>2, <2>3 DEF Handed
<1>13. reader' \in [Clients -> Streams]
  <2>1. reader' = [c \in Clients |-> reader'[c]]
    BY DEF Delivers, Broadcast
  <2>2. QED
    BY <1>12, <2>1
<1>14. \A h : Readers(h)' = Readers(h)
  BY <1>12 DEF Readers
<1>15. Typed'
  BY <1>1, <1>2, <1>4, <1>5, <1>11, <1>13 DEF Typed
<1>16. Dated'
  <2>1. ASSUME NEW h \in Gateways
        PROVE  /\ LinkDated(link'[h], top) /\ entry'[h].last <= top
               /\ \A n \in DOMAIN recovery'[h] : RecoveryDated(recovery'[h][n], top)
    <3>1. CASE h = g
      BY <1>4, <1>5, <1>9, <1>11, <3>1
    <3>2. CASE h # g
      BY <1>1, <1>4, <1>5, <1>11, <3>2 DEF Dated
    <3>3. QED
      BY <3>1, <3>2
  <2>2. \A c \in Clients : ReaderDated(reader'[c], top) /\ client[c].token <= top
    BY <1>1, <1>12 DEF Dated
  <2>3. QED
    BY <1>2, <2>1, <2>2 DEF Dated
<1>17. AllLinked'
  <2>1. ASSUME NEW h \in Gateways PROVE Linked(link[h], entry[h], recovery[h], Readers(h) # {})'
    <3>1. CASE h = g
      <4>1. Linked(l, e, x, Readers(g) # {})
        BY <1>8
      <4>2. QED
        BY <1>4, <1>5, <1>11, <1>14, <3>1, <4>1
    <3>2. CASE h # g
      <4>1. Linked(link[h], entry[h], recovery[h], Readers(h) # {})
        BY <1>1 DEF AllLinked
      <4>2. QED
        BY <1>4, <1>5, <1>11, <1>14, <3>2, <4>1
    <3>3. QED
      BY <3>1, <3>2
  <2>2. QED
    BY <2>1 DEF AllLinked
<1>18. AllServed'
  <2>1. ASSUME NEW d \in Clients, reader'[d].at # "away" PROVE Served(reader'[d], entry'[reader'[d].gateway])
    <3>1. /\ Served(reader[d], entry[reader[d].gateway]) /\ reader[d].gateway \in Gateways
          /\ reader'[d].at = reader[d].at /\ reader'[d].gateway = reader[d].gateway
      BY <1>1, <1>12, <2>1, Lookup DEF AllServed
    <3>2. CASE reader[d].gateway = g
      BY <1>8, <1>9, <1>11, <3>1, <3>2 DEF Served
    <3>3. CASE reader[d].gateway # g
      BY <1>11, <3>1, <3>3 DEF Served
    <3>4. QED
      BY <3>2, <3>3
  <2>2. QED
    BY <2>1 DEF AllServed
<1>19. Stored' = Stored /\ \A id \in Stored : id \in Nat
  BY <1>1, <1>2, StoredIds DEF Stored
<1>20. ASSUME NEW d \in Clients \ overtaken' PROVE Fit(d)'
  <2>1. Fit(d) /\ reader[d].gateway \in Gateways /\ d \in Clients
    BY <1>1, Lookup DEF AllFit
  <2>2. PICK r : r = reader[d]
    OBVIOUS
  <2>3. CASE d \notin Readers(g)
    <3>1. reader'[d] = reader[d]
      BY <1>12, <2>3
    <3>2. reader[d].at \in Placed => reader[d].gateway # g
      BY <2>1, <2>3 DEF Readers, Placed
    <3>3. QED
      BY <1>1, <1>2, <1>4, <1>5, <1>11, <1>19, <2>1, <3>1, <3>2, FitStays
  <2>4. CASE d \in Readers(g) /\ reader[d].at \notin Placed
    <3>1. reader'[d].at \in {"away", "entering"}
      BY <1>3, <1>12, <2>1, <2>4 DEF Streams
    <3>2. TakerFit(client'[d], Stored')
      BY <1>2, <1>19, <2>1 DEF Fit
    <3>3. QED
      BY <3>1, <3>2, FitApart
  <2>5. CASE d \in Readers(g) /\ reader[d].at \in Placed
    <3>1. PICK w : w = DeliverTo(r, ids)
      OBVIOUS
    <3>2. /\ reader'[d] = w /\ r.gateway = g /\ r.at \in Placed /\ r \in Streams /\ client[d] \in Takers
          /\ ReaderDated(r, top) /\ GivesTo(r, l, x, ids)
      BY <1>1, <1>3, <1>12, <2>1, <2>2, <2>5, <3>1, Lookup DEF Readers, Dated
    <3>3. Handed(r, w, ids, top)
      BY <1>1, <3>1, <3>2, DeliverHands
    <3>4. /\ TakerFit(client[d], Stored) /\ ReaderFit(r, client[d], Stored) /\ PastLast(r, entry[g], Stored)
      BY <2>1, <2>2, <3>2 DEF Fit, Reached
    <3>5. Following(r, ids, Stored) /\ \A n \in DOMAIN x : RecoveryFit(r, x[n], Stored)
      BY <3>2 DEF GivesTo
    <3>6. ReaderFit(w, client[d], Stored)
      <4>1. Stored \in SUBSET Nat
        BY <1>19
      <4>2. QED
        BY <1>1, <3>1, <3>2, <3>4, <3>5, <4>1, DeliverFit
    <3>7. /\ w.at \in Placed /\ w.gateway = g
          /\ \A id \in Stored : Behind(w, id) => Behind(r, id) /\ \A i \in DOMAIN ids : ids[i] # id
      BY <1>19, <3>2, <3>3 DEF Handed
    <3>8. PastLast(w, e, Stored)
      <4>1. CASE ids = <<>>
        BY <1>8, <3>4, <3>7, <4>1 DEF PastLast
      <4>2. CASE ids # <<>>
        <5>1. ASSUME NEW id \in Stored, Behind(w, id) PROVE id > e.last
          <6>1. Behind(r, id) /\ (\A i \in DOMAIN ids : ids[i] # id) /\ id \in Nat
            BY <1>19, <3>7, <5>1
          <6>2. e.last = ids[Len(ids)] /\ Len(ids) \in DOMAIN ids
            BY <1>7, <1>8, <4>2
          <6>3. ~(id < ids[Len(ids)])
            BY <3>5, <6>1, <6>2 DEF Following
          <6>4. QED
            BY <1>8, <6>1, <6>2, <6>3
        <5>2. QED
          BY <5>1 DEF PastLast
      <4>3. QED
        BY <4>1, <4>2
    <3>9. \A n \in DOMAIN x : RecoveryFit(w, x[n], Stored)
      <4>1. Closer(r, w, Stored)
        BY <3>7 DEF Closer
      <4>2. QED
        BY <3>5, <4>1, RecoveryCloser
    <3>10. Carried(w, l, x, Stored)
      BY <3>2, <3>7 DEF GivesTo, Carried
    <3>11. Reached(w, l, e, x, Stored)
      BY <3>8, <3>9, <3>10 DEF Reached
    <3>12. QED
      BY <1>2, <1>4, <1>5, <1>11, <1>19, <3>2, <3>4, <3>6, <3>7, <3>11 DEF Fit
  <2>6. QED
    BY <2>3, <2>4, <2>5
<1>21. AllFit'
  BY <1>20 DEF AllFit
<1>22. QED
  BY <1>15, <1>16, <1>17, <1>18, <1>21 DEF RealtimeInv

(* What a recovery read is given in turn. *)
LEMMA RecoveredKeeps ==
  ASSUME RealtimeInv, NEW g \in Gateways, NEW n \in DOMAIN recovery[g], Recovered(g, n) PROVE RealtimeInv'
<1>1. PICK k : k = link[g]
  OBVIOUS
<1>2. PICK y : y = recovery[g]
  OBVIOUS
<1>3. /\ k \in Links /\ entry[g] \in Entries /\ y \in Seq(Recoveries) /\ LinkDated(k, top)
      /\ \A m \in DOMAIN y : RecoveryDated(y[m], top)
      /\ Linked(k, entry[g], y, Readers(g) # {})
      /\ \A d \in Clients \ overtaken : reader[d].at \in Placed /\ reader[d].gateway = g =>
           Reached(reader[d], k, entry[g], y, Stored)
  BY <1>1, <1>2, AtGateway
<1>4. link \in [Gateways -> Links] /\ overtaken \subseteq Clients
  BY DEF RealtimeInv, Typed
<1>5. PICK ids : ids = y[n].found
  OBVIOUS
<1>6. y[n].at = "found" /\ y[n] \in Recoveries /\ RecoveryDated(y[n], top)
  BY <1>2, <1>3 DEF Recovered
<1>7. ids \in Seq(Nat) /\ Dates(ids, top)
  BY <1>5, <1>6 DEF Recoveries, RecoveryDated
<1>8. PICK x : x = [y EXCEPT ![n] = Recovery("done")]
  OBVIOUS
<1>9. Recovery("done") \in Recoveries /\ Recovery("done").at = "done"
  <2>1. <<>> \in Seq(Nat) /\ Recovery("done") = [at |-> "done", after |-> 0, found |-> <<>>]
    BY DEF Recovery
  <2>2. [at |-> "done", after |-> 0, found |-> <<>>] \in Recoveries
    BY <2>1 DEF Recoveries
  <2>3. QED
    BY <2>1, <2>2
<1>10. x \in Seq(Recoveries) /\ DOMAIN x = DOMAIN y /\ x[n] = Recovery("done") /\ \A m \in DOMAIN y : m # n => x[m] = y[m]
  BY <1>2, <1>3, <1>8, <1>9, OneRecovery
<1>11. recovery' = [recovery EXCEPT ![g] = x] /\ link' = [link EXCEPT ![g] = k]
  BY <1>1, <1>2, <1>4, <1>8 DEF Recovered, RealtimeInv, Typed
<1>12. UNCHANGED <<top, kept, routed, client, overtaken>>
  BY DEF Recovered
<1>13. Broadcast(g, ids)
  BY <1>2, <1>5 DEF Recovered
<1>14. Delivers(g, k, x, ids)
  BY <1>11, <1>12, <1>13 DEF Delivers
<1>15. RecoveryDated(Recovery("done"), top)
  BY DEF Recovery, RecoveryDated, Dates, RealtimeInv, Typed
<1>16. \A m \in DOMAIN x : RecoveryDated(x[m], top)
  BY <1>3, <1>10, <1>15
<1>17. ASSUME NEW f \in Entries, f.subscribed = entry[g].subscribed PROVE Linked(k, f, x, Readers(g) # {})
  <2>1. y[n].at # "asking"
    BY <1>6
  <2>2. Linked(k, entry[g], x, Readers(g) # {})
    BY <1>3, <1>10, <2>1, LinkedRecovers
  <2>3. QED
    BY <1>17, <2>2 DEF Linked
<1>18. ASSUME NEW d \in Clients \ overtaken', reader[d].at \in Placed, reader[d].gateway = g
       PROVE  GivesTo(reader[d], k, x, ids)
  <2>1. d \in Clients \ overtaken
    BY <1>12, <1>18
  <2>2. Reached(reader[d], k, entry[g], y, Stored)
    BY <1>3, <1>18, <2>1
  <2>3. Following(reader[d], ids, Stored)
    BY <1>2, <1>5, <1>6, <2>2 DEF Reached, RecoveryFit, Following
  <2>4. RecoveryFit(reader[d], Recovery("done"), Stored)
    BY <1>9 DEF RecoveryFit
  <2>5. \A m \in DOMAIN x : RecoveryFit(reader[d], x[m], Stored)
    BY <1>10, <2>2, <2>4 DEF Reached
  <2>6. ASSUME k.up, NoneOwes(x), NEW id \in Stored, Behind(reader[d], id)
        PROVE  OnItsWay(k, x, id) \/ \E i \in DOMAIN ids : ids[i] = id
    <3>1. NoneOwes(y)
      BY <1>6, <1>10, <2>6 DEF NoneOwes, Owing
    <3>2. OnItsWay(k, y, id)
      BY <2>2, <2>6, <3>1 DEF Reached, Carried
    <3>3. CASE \E i \in DOMAIN k.brings : k.brings[i] = Message(id)
      BY <3>3 DEF OnItsWay
    <3>4. CASE \E m \in DOMAIN y : y[m].at = "found" /\ \E i \in DOMAIN y[m].found : y[m].found[i] = id
      <4>1. PICK m \in DOMAIN y : y[m].at = "found" /\ \E i \in DOMAIN y[m].found : y[m].found[i] = id
        BY <3>4
      <4>2. CASE m = n
        BY <1>5, <4>1, <4>2
      <4>3. CASE m # n
        BY <1>10, <4>1, <4>3 DEF OnItsWay
      <4>4. QED
        BY <4>2, <4>3
    <3>5. QED
      BY <3>2, <3>3, <3>4 DEF OnItsWay
  <2>7. QED
    BY <2>3, <2>5, <2>6 DEF GivesTo
<1>19. overtaken \subseteq overtaken' /\ overtaken' \subseteq Clients
  BY <1>4, <1>12
<1>20. QED
  BY <1>3, <1>7, <1>10, <1>14, <1>16, <1>17, <1>18, <1>19, GatewayDelivers

(* What comes by the connection is heard in turn. *)
LEMMA HearKeeps == ASSUME RealtimeInv, NEW g \in Gateways, Hear(g) PROVE RealtimeInv'
<1>1. PICK k : k = link[g]
  OBVIOUS
<1>2. PICK y : y = recovery[g]
  OBVIOUS
<1>3. /\ k \in Links /\ entry[g] \in Entries /\ y \in Seq(Recoveries) /\ LinkDated(k, top) /\ top \in Nat
      /\ \A m \in DOMAIN y : RecoveryDated(y[m], top)
      /\ Linked(k, entry[g], y, Readers(g) # {})
      /\ \A d \in Clients \ overtaken : reader[d].at \in Placed /\ reader[d].gateway = g =>
           Reached(reader[d], k, entry[g], y, Stored)
  BY <1>1, <1>2, AtGateway
<1>4. /\ link \in [Gateways -> Links] /\ overtaken \subseteq Clients /\ entry \in [Gateways -> Entries]
      /\ recovery \in [Gateways -> Seq(Recoveries)]
  BY DEF RealtimeInv, Typed
<1>5. k.up /\ k.brings # <<>> /\ k.brings \in Seq(Items)
  BY <1>1, <1>3 DEF Hear, Links
<1>6. PICK b : b = Tail(k.brings)
  OBVIOUS
<1>7. PICK l : l = [k EXCEPT !.brings = b]
  OBVIOUS
<1>8. l \in Links /\ l.up = k.up /\ l.carries = k.carries /\ l.asks = k.asks /\ l.brings = Tail(k.brings)
  <2>1. b \in Seq(Items)
    BY <1>5, <1>6
  <2>2. QED
    BY <1>3, <1>6, <1>7, <2>1 DEF Links
<1>9. link' = [link EXCEPT ![g] = l]
  BY <1>1, <1>4, <1>6, <1>7 DEF Hear
<1>10. PICK one : one = Head(k.brings)
  OBVIOUS
<1>11. InTurn(k) /\ AllApart(k)
  BY <1>3 DEF Linked
<1>12. Heard(k, l, top)
  BY <1>3, <1>5, <1>8, <1>11, HeardParts
<1>13. /\ Pending(k, one) /\ one \in Items /\ \E i \in DOMAIN k.brings : k.brings[i] = one
       /\ \A i \in DOMAIN k.brings : k.brings[i] = one \/ \E j \in DOMAIN l.brings : l.brings[j] = k.brings[i]
       /\ \A i \in DOMAIN l.brings : one.what = "event" /\ l.brings[i].what = "event" => one.n < l.brings[i].n
       /\ LinkDated(l, top)
  BY <1>10, <1>12 DEF Heard
<1>14. UNCHANGED <<top, kept, routed, client>>
  BY DEF Hear
<1>15. entry' = entry => entry' = [entry EXCEPT ![g] = entry[g]]
  BY <1>4
<1>16. recovery' = recovery => recovery' = [recovery EXCEPT ![g] = y]
  BY <1>2, <1>4
<1>17. one.what \in {"event", "subscribe", "unsubscribe"} /\ (one.what = "subscribe" => one.n \in Nat)
  BY <1>13 DEF Items, Asks, Unsubscribe
<1>18. one.what = "event" => one.n \in Nat /\ 1 <= one.n /\ one.n <= top /\ one = Message(one.n)
  <2>1. SUFFICES ASSUME one.what = "event" PROVE one.n \in Nat /\ 1 <= one.n /\ one.n <= top /\ one = Message(one.n)
    OBVIOUS
  <2>2. one \in [what : {"event"}, n : Nat]
    BY <1>13, <2>1 DEF Items, Asks, Unsubscribe
  <2>3. 1 <= one.n /\ one.n <= top
    BY <1>3, <1>13, <2>1 DEF LinkDated
  <2>4. QED
    BY <2>2, <2>3 DEF Message
<1>19. ASSUME NEW i \in DOMAIN k.brings, NEW id, k.brings[i] = Message(id)
       PROVE  one = Message(id) \/ \E j \in DOMAIN l.brings : l.brings[j] = Message(id)
  BY <1>13, <1>19
<1>20. ASSUME one.what # "event", NEW id, OnItsWay(k, y, id) PROVE OnItsWay(l, y, id)
  <2>1. one # Message(id)
    BY <1>20 DEF Message
  <2>2. QED
    BY <1>19, <1>20, <2>1 DEF OnItsWay
<1>21. CASE one.what = "event"
  <2>1. /\ IF Readers(g) = {} THEN UNCHANGED <<entry, reader>> ELSE Broadcast(g, <<one.n>>)
        /\ overtaken' = IF UnderWay(g) THEN overtaken \cup Readers(g) ELSE overtaken
        /\ UNCHANGED recovery
    BY <1>1, <1>10, <1>21 DEF Hear, Subscribe, Unsubscribe
  <2>2. ASSUME NEW f \in Entries, f.subscribed = entry[g].subscribed PROVE Linked(l, f, y, Readers(g) # {})
    BY <1>3, <1>5, <1>8, <2>2, LinkedHear
  <2>3. CASE Readers(g) = {}
    <3>1. UNCHANGED <<entry, reader>> /\ overtaken' = overtaken
      BY <2>1, <2>3
    <3>2. Moves(g, l, entry[g], y)
      BY <1>9, <1>14, <1>15, <1>16, <2>1, <3>1 DEF Moves
    <3>3. Left(g, l, entry[g], y)
      BY <1>3, <1>13, <2>2 DEF Left
    <3>4. ASSUME NEW d \in Clients \ overtaken, reader[d].at \in Placed, reader[d].gateway = g
          PROVE  FALSE
      BY <2>3, <3>4 DEF Readers, Placed
    <3>5. QED
      BY <1>3, <1>8, <3>2, <3>3, <3>4, GatewayMoves
  <2>4. CASE Readers(g) # {}
    <3>1. PICK ids : ids = <<one.n>>
      OBVIOUS
    <3>2. ids \in Seq(Nat) /\ DOMAIN ids = {1} /\ ids[1] = one.n
      BY <1>18, <1>21, <3>1
    <3>3. Dates(ids, top)
      BY <1>18, <1>21, <3>2 DEF Dates
    <3>4. Delivers(g, l, y, ids)
      BY <1>9, <1>14, <1>16, <2>1, <2>4, <3>1 DEF Delivers
    <3>5. overtaken \subseteq overtaken' /\ overtaken' \subseteq Clients
      BY <1>4, <2>1 DEF Readers
    <3>6. ASSUME NEW d \in Clients \ overtaken', reader[d].at \in Placed, reader[d].gateway = g
          PROVE  GivesTo(reader[d], l, y, ids)
      <4>1. d \in Readers(g)
        BY <3>6 DEF Readers, Placed
      <4>2. ~UnderWay(g) /\ d \in Clients \ overtaken
        BY <2>1, <3>5, <3>6, <4>1
      <4>3. \A n \in DOMAIN y : y[n].at = "done"
        BY <1>2, <4>2 DEF UnderWay
      <4>4. Reached(reader[d], k, entry[g], y, Stored)
        BY <1>3, <3>6, <4>2
      <4>5. NoneOwes(y)
        BY <4>3 DEF NoneOwes, Owing
      <4>6. ASSUME NEW id \in Stored, Behind(reader[d], id)
            PROVE  id = one.n \/ (OnItsWay(l, y, id) /\ one.n < id)
        <5>1. OnItsWay(k, y, id)
          BY <1>5, <4>4, <4>5, <4>6 DEF Reached, Carried
        <5>2. \E i \in DOMAIN k.brings : k.brings[i] = Message(id)
          BY <4>3, <5>1 DEF OnItsWay
        <5>3. one = Message(id) \/ \E j \in DOMAIN l.brings : l.brings[j] = Message(id)
          BY <1>19, <5>2
        <5>4. CASE one = Message(id)
          BY <5>4 DEF Message
        <5>5. CASE \E j \in DOMAIN l.brings : l.brings[j] = Message(id)
          <6>1. PICK j \in DOMAIN l.brings : l.brings[j] = Message(id)
            BY <5>5
          <6>2. Message(id).what = "event" /\ Message(id).n = id
            BY DEF Message
          <6>3. one.n < id
            BY <1>13, <1>21, <6>1, <6>2
          <6>4. QED
            BY <6>1, <6>3 DEF OnItsWay
        <5>6. QED
          BY <5>3, <5>4, <5>5
      <4>7. \A id \in Stored : id \in Nat
        BY StoredIds DEF RealtimeInv
      <4>8. Following(reader[d], ids, Stored)
        BY <1>18, <1>21, <3>2, <4>6, <4>7 DEF Following
      <4>9. \A id \in Stored : Behind(reader[d], id) => OnItsWay(l, y, id) \/ \E i \in DOMAIN ids : ids[i] = id
        BY <3>2, <4>6
      <4>10. QED
        BY <4>4, <4>8, <4>9 DEF GivesTo, Reached
    <3>7. QED
      BY <1>3, <1>8, <1>13, <2>2, <3>2, <3>3, <3>4, <3>5, <3>6, GatewayDelivers
  <2>5. QED
    BY <2>3, <2>4
<1>22. CASE one = Subscribe(0)
  <2>1. one.what = "subscribe" /\ one.n = 0
    BY <1>22 DEF Subscribe
  <2>2. entry' = [entry EXCEPT ![g].subscribed = TRUE] /\ UNCHANGED <<recovery, reader, overtaken>>
    BY <1>1, <1>10, <2>1 DEF Hear, Unsubscribe
  <2>3. PICK e : e = [entry[g] EXCEPT !.subscribed = TRUE]
    OBVIOUS
  <2>4. e \in Entries /\ e.subscribed /\ e.last = entry[g].last
    BY <1>3, <2>3 DEF Entries
  <2>5. entry' = [entry EXCEPT ![g] = e]
    BY <1>4, <2>2, <2>3
  <2>6. Moves(g, l, e, y)
    BY <1>9, <1>14, <1>16, <2>2, <2>5 DEF Moves
  <2>7. Linked(l, e, y, Readers(g) # {})
    BY <1>3, <1>5, <1>8, <1>10, <1>22, LinkedSubscribed
  <2>8. Left(g, l, e, y)
    BY <1>3, <1>13, <2>4, <2>7 DEF Left
  <2>9. ASSUME NEW d \in Clients \ overtaken, reader[d].at \in Placed, reader[d].gateway = g
        PROVE  LeftTo(reader[d], l, y)
    <3>1. Reached(reader[d], k, entry[g], y, Stored)
      BY <1>3, <2>9
    <3>2. QED
      BY <1>8, <1>20, <2>1, <3>1 DEF Reached, Carried, LeftTo
  <2>10. QED
    BY <1>3, <1>8, <2>4, <2>6, <2>8, <2>9, GatewayMoves
<1>23. CASE one.what = "subscribe" /\ one.n # 0
  <2>1. PICK n : n = one.n
    OBVIOUS
  <2>2. n \in Nat \ {0} /\ one = Subscribe(n)
    BY <1>13, <1>17, <1>23, <2>1 DEF Items, Asks, Subscribe, Unsubscribe
  <2>3. n \in DOMAIN y /\ y[n].at = "asking" /\ y[n] \in Recoveries
    BY <1>3, <1>13, <2>2 DEF Linked
  <2>4. recovery' = [recovery EXCEPT ![g][n].at = "next"] /\ UNCHANGED <<entry, reader, overtaken>>
    BY <1>1, <1>10, <1>23, <2>1 DEF Hear, Subscribe, Unsubscribe
  <2>5. PICK z : z = [y[n] EXCEPT !.at = "next"]
    OBVIOUS
  <2>6. z \in Recoveries /\ z.at = "next" /\ z.after = y[n].after /\ z.found = y[n].found
    <3>1. "next" \in Owing
      BY DEF Owing
    <3>2. QED
      BY <2>3, <2>5, <3>1 DEF Recoveries
  <2>7. PICK x : x = [y EXCEPT ![n] = z]
    OBVIOUS
  <2>8. x \in Seq(Recoveries) /\ DOMAIN x = DOMAIN y /\ x[n] = z /\ \A m \in DOMAIN y : m # n => x[m] = y[m]
    BY <1>3, <2>3, <2>6, <2>7, OneRecovery
  <2>9. recovery' = [recovery EXCEPT ![g] = x]
    BY <1>2, <1>4, <2>4, <2>5, <2>7
  <2>10. Moves(g, l, entry[g], x)
    BY <1>9, <1>14, <1>15, <2>4, <2>9 DEF Moves
  <2>11. Linked(l, entry[g], x, Readers(g) # {})
    <3>1. n \in Nat /\ Head(k.brings) = Subscribe(n)
      BY <1>10, <2>2
    <3>2. PICK read : read = (Readers(g) # {})
      OBVIOUS
    <3>3. Linked(k, entry[g], y, read) /\ LinkDated(k, top)
      BY <1>3, <3>2
    <3>4. Linked(l, entry[g], x, read) /\ LinkDated(l, top)
      BY <1>3, <1>5, <1>8, <2>8, <3>1, <3>3, LinkedNext, ZenonT(60)
    <3>5. QED
      BY <3>2, <3>4
  <2>12. RecoveryDated(z, top)
    BY <1>3, <2>3, <2>6 DEF RecoveryDated
  <2>13. \A m \in DOMAIN x : RecoveryDated(x[m], top)
    BY <1>3, <2>8, <2>12
  <2>14. Left(g, l, entry[g], x)
    BY <1>3, <1>13, <2>11, <2>13 DEF Left
  <2>15. ~NoneOwes(x)
    BY <2>3, <2>6, <2>8 DEF NoneOwes, Owing
  <2>16. ASSUME NEW d \in Clients \ overtaken, reader[d].at \in Placed, reader[d].gateway = g
         PROVE  LeftTo(reader[d], l, x)
    <3>1. \A m \in DOMAIN y : RecoveryFit(reader[d], y[m], Stored)
      BY <1>3, <2>16 DEF Reached
    <3>2. RecoveryFit(reader[d], z, Stored)
      BY <2>6 DEF RecoveryFit
    <3>3. \A m \in DOMAIN x : RecoveryFit(reader[d], x[m], Stored)
      BY <2>8, <3>1, <3>2
    <3>4. QED
      BY <2>15, <3>3 DEF LeftTo, Carried
  <2>17. QED
    BY <1>3, <1>8, <2>8, <2>10, <2>14, <2>16, GatewayMoves
<1>24. CASE one = Unsubscribe
  <2>1. one.what = "unsubscribe"
    BY <1>24 DEF Unsubscribe
  <2>2. UNCHANGED <<entry, recovery, reader, overtaken>>
    BY <1>1, <1>10, <2>1 DEF Hear, Subscribe
  <2>3. Moves(g, l, entry[g], y)
    BY <1>9, <1>14, <1>15, <1>16, <2>2 DEF Moves
  <2>4. Linked(l, entry[g], y, Readers(g) # {})
    BY <1>3, <1>5, <1>8, LinkedHear
  <2>5. Left(g, l, entry[g], y)
    BY <1>3, <1>13, <2>4 DEF Left
  <2>6. ASSUME NEW d \in Clients \ overtaken, reader[d].at \in Placed, reader[d].gateway = g
        PROVE  LeftTo(reader[d], l, y)
    <3>1. Reached(reader[d], k, entry[g], y, Stored)
      BY <1>3, <2>6
    <3>2. QED
      BY <1>8, <1>20, <2>1, <3>1 DEF Reached, Carried, LeftTo
  <2>7. QED
    BY <1>3, <1>8, <2>3, <2>5, <2>6, GatewayMoves
<1>25. QED
  BY <1>1, <1>10, <1>21, <1>22, <1>23, <1>24 DEF Hear

-----------------------------------------------------------------------------
(* Streams that close.                                                     *)

(* Some of the first numbers have a largest one. *)
LEMMA LargestOf == ASSUME NEW n \in Nat, NEW S \in SUBSET (1 .. n), S # {} PROVE Max(S) \in S
<1>1. \A s \in S : s \in Nat /\ s <= n
  OBVIOUS
<1>2. PICK left : left = {m \in Nat : \E s \in S : m = n - s}
  OBVIOUS
<1>3. left \in SUBSET Nat /\ left # {}
  <2>1. PICK s \in S : TRUE
    OBVIOUS
  <2>2. n - s \in Nat
    BY <1>1
  <2>3. QED
    BY <1>2, <2>2
<1>4. PICK m \in left : \A o \in left : m <= o
  BY <1>3, LeastOf
<1>5. PICK s \in S : m = n - s
  BY <1>2, <1>4
<1>6. ASSUME NEW o \in S PROVE s >= o
  <2>1. n - o \in Nat
    BY <1>1
  <2>2. n - o \in left
    BY <1>2, <2>1
  <2>3. m <= n - o
    BY <1>4, <2>2
  <2>4. QED
    BY <1>1, <1>5, <2>3
<1>7. QED
  BY <1>5, <1>6 DEF Max

(* What a client has once it took the first of what it was sent: *)
Taken(k, s, n, w) ==
  /\ w \in Takers /\ w.since = k.since
  /\ \A id : id \in w.has => id \in k.has \/ \E i \in 1 .. n : s[i].event /\ s[i].id = id
  /\ \A id \in k.has : id \in w.has
  /\ \A i \in 1 .. n : s[i].event => s[i].id \in w.has
  /\ w.token = k.token \/ \E m \in 1 .. n : ~s[m].event /\ w.token = s[m].id

(* the events among them, and one of the tokens. *)
LEMMA TookTaken ==
  ASSUME Typed, NEW c \in Clients, NEW n \in 0 .. Len(reader[c].sent)
  PROVE  Taken(client[c], reader[c].sent, n, Took(c, n))
<1>1. PICK k : k = client[c]
  OBVIOUS
<1>2. PICK s : s = reader[c].sent
  OBVIOUS
<1>3. k \in Takers /\ s \in Seq(Sendings) /\ n \in Nat /\ n <= Len(s)
  BY <1>1, <1>2, Lookup DEF Streams
<1>4. \A i \in 1 .. n : i \in DOMAIN s /\ s[i] \in Sendings /\ s[i].id \in Nat
  <2>1. \A i \in 1 .. n : i \in DOMAIN s
    BY <1>3
  <2>2. \A i \in DOMAIN s : s[i] \in Sendings
    BY <1>3
  <2>3. QED
    BY <2>1, <2>2 DEF Sendings
<1>5. PICK events : events = {i \in 1 .. n : s[i].event}
  OBVIOUS
<1>6. PICK tokens : tokens = (1 .. n) \ events
  OBVIOUS
<1>7. PICK has : has = k.has \cup {s[i].id : i \in events}
  OBVIOUS
<1>8. PICK token : token = IF tokens = {} THEN k.token ELSE s[Max(tokens)].id
  OBVIOUS
<1>9. Took(c, n) = [k EXCEPT !.has = has, !.token = token]
  BY <1>1, <1>2, <1>5, <1>6, <1>7, <1>8 DEF Took
<1>10. token = k.token \/ \E m \in 1 .. n : ~s[m].event /\ token = s[m].id
  <2>1. CASE tokens = {}
    BY <1>8, <2>1
  <2>2. CASE tokens # {}
    <3>1. tokens \in SUBSET (1 .. n)
      BY <1>6
    <3>2. Max(tokens) \in tokens
      BY <1>3, <2>2, <3>1, LargestOf
    <3>3. token = s[Max(tokens)].id
      BY <1>8, <2>2
    <3>4. Max(tokens) \in 1 .. n /\ ~s[Max(tokens)].event
      BY <1>5, <1>6, <3>2
    <3>5. QED
      BY <3>3, <3>4
  <2>3. QED
    BY <2>1, <2>2
<1>11. k.token \in Nat /\ k.has \in SUBSET Nat
  BY <1>3 DEF Takers
<1>12. token \in Nat
  BY <1>4, <1>10, <1>11
<1>13. has \in SUBSET Nat
  BY <1>4, <1>5, <1>7, <1>11
<1>14. /\ Took(c, n) \in Takers /\ Took(c, n).since = k.since /\ Took(c, n).has = has /\ Took(c, n).token = token
  BY <1>3, <1>9, <1>12, <1>13 DEF Takers
<1>15. /\ \A id : id \in has => id \in k.has \/ \E i \in 1 .. n : s[i].event /\ s[i].id = id
       /\ \A id \in k.has : id \in has
       /\ \A i \in 1 .. n : s[i].event => s[i].id \in has
  BY <1>5, <1>7
<1>16. QED
  BY <1>1, <1>2, <1>10, <1>14, <1>15 DEF Taken

(* It is not ahead of the stream, *)
LEMMA TookDated ==
  ASSUME RealtimeInv, NEW c \in Clients, NEW n \in 0 .. Len(reader[c].sent)
  PROVE  Took(c, n) \in Takers /\ Took(c, n).token <= top
<1>1. Typed /\ client[c].token <= top /\ ReaderDated(reader[c], top)
  BY DEF RealtimeInv, Dated
<1>2. Taken(client[c], reader[c].sent, n, Took(c, n))
  BY <1>1, TookTaken
<1>3. reader[c].sent \in Seq(Sendings)
  BY <1>1, Lookup DEF Streams
<1>4. \A m \in 1 .. n : m \in DOMAIN reader[c].sent
  BY <1>3
<1>5. \A m \in 1 .. n : reader[c].sent[m].id <= top
  BY <1>1, <1>4 DEF ReaderDated
<1>6. QED
  BY <1>1, <1>2, <1>5 DEF Taken

(* and it fits. *)
LEMMA TookFit ==
  ASSUME RealtimeInv, NEW c \in Clients \ overtaken, NEW n \in 0 .. Len(reader[c].sent)
  PROVE  TakerFit(Took(c, n), Stored)
<1>1. PICK k : k = client[c]
  OBVIOUS
<1>2. PICK s : s = reader[c].sent
  OBVIOUS
<1>3. PICK w : w = Took(c, n)
  OBVIOUS
<1>4. Typed /\ Taken(k, s, n, w)
  BY <1>1, <1>2, <1>3, TookTaken DEF RealtimeInv
<1>5. TakerFit(k, Stored) /\ ReaderFit(reader[c], k, Stored)
  BY <1>1 DEF RealtimeInv, AllFit, Fit
<1>6. s \in Seq(Sendings) /\ n \in Nat /\ n <= Len(s) /\ k \in Takers /\ k.since \in Nat /\ k.token \in Nat
  BY <1>1, <1>2, <1>4, Lookup DEF Streams, Takers
<1>7. \A i \in 1 .. n : i \in DOMAIN s
  BY <1>6
<1>8. ASSUME NEW i \in 1 .. n PROVE After(reader[c], k) /\ Covered(reader[c], k, Stored)
  <2>1. s # <<>>
    BY <1>7
  <2>2. reader[c].at = "open"
    BY <1>2, <2>1 DEF RealtimeInv, Dated, ReaderDated
  <2>3. QED
    BY <1>5, <2>2 DEF ReaderFit, SentFit
<1>9. ASSUME NEW id \in Stored, w.since < id, id <= w.token PROVE id \in w.has
  <2>1. k.since < id
    BY <1>4, <1>9 DEF Taken
  <2>2. CASE w.token = k.token
    BY <1>4, <1>5, <1>9, <2>1, <2>2 DEF Taken, TakerFit
  <2>3. CASE \E m \in 1 .. n : ~s[m].event /\ w.token = s[m].id
    <3>1. PICK m \in 1 .. n : ~s[m].event /\ w.token = s[m].id
      BY <2>3
    <3>2. id \in k.has \/ \E i \in DOMAIN s : i < m /\ s[i] = EventOf(id)
      BY <1>2, <1>7, <1>8, <1>9, <2>1, <3>1 DEF Covered
    <3>3. CASE id \in k.has
      BY <1>4, <3>3 DEF Taken
    <3>4. CASE \E i \in DOMAIN s : i < m /\ s[i] = EventOf(id)
      <4>1. PICK i \in DOMAIN s : i < m /\ s[i] = EventOf(id)
        BY <3>4
      <4>2. i \in 1 .. n
        BY <1>6, <3>1, <4>1
      <4>3. s[i].event /\ s[i].id = id
        BY <4>1 DEF EventOf
      <4>4. QED
        BY <1>4, <4>2, <4>3 DEF Taken
    <3>5. QED
      BY <3>2, <3>3, <3>4
  <2>4. QED
    BY <1>4, <2>2, <2>3 DEF Taken
<1>10. ASSUME NEW id \in w.has PROVE id > w.since
  <2>1. CASE id \in k.has
    BY <1>4, <1>5, <2>1 DEF Taken, TakerFit
  <2>2. CASE \E i \in 1 .. n : s[i].event /\ s[i].id = id
    <3>1. PICK i \in 1 .. n : s[i].event /\ s[i].id = id
      BY <2>2
    <3>2. k.since < s[i].id
      BY <1>2, <1>7, <1>8, <3>1 DEF After
    <3>3. w.since = k.since
      BY <1>4 DEF Taken
    <3>4. QED
      BY <3>1, <3>2, <3>3
  <2>3. QED
    BY <1>4, <1>10, <2>1, <2>2 DEF Taken
<1>11. w.token # 0 => w.since <= w.token
  <2>1. CASE w.token = k.token
    BY <1>4, <1>5, <2>1 DEF Taken, TakerFit
  <2>2. CASE \E m \in 1 .. n : ~s[m].event /\ w.token = s[m].id
    BY <1>2, <1>4, <1>7, <1>8, <2>2 DEF After, Taken
  <2>3. QED
    BY <1>4, <2>1, <2>2 DEF Taken
<1>12. QED
  BY <1>3, <1>9, <1>10, <1>11 DEF TakerFit

(* Nobody who is away is anywhere. *)
LEMMA AwayFits == Away \in Streams /\ Away.at = "away" /\ \A t \in Nat : ReaderDated(Away, t)
<1>1. PICK h : h = CHOOSE g \in Gateways : TRUE
  OBVIOUS
<1>2. h \in Gateways
  BY <1>1, RealtimeAssumption
<1>3. Away = [at |-> "away", gateway |-> h, marker |-> 0, found |-> <<>>, held |-> <<>>, cursor |-> 0, sent |-> <<>>]
  BY <1>1 DEF Away
<1>4. <<>> \in Seq(Nat) /\ <<>> \in Seq(Sendings)
  OBVIOUS
<1>5. Away \in Streams
  BY <1>2, <1>3, <1>4 DEF Streams
<1>6. QED
  BY <1>3, <1>5 DEF ReaderDated, Dates, Placed

(* Some readers of a gateway close, each with what they took: *)
Goes(g, G, l, e, x) ==
  /\ reader' = [c \in Clients |-> IF c \in G THEN Away ELSE reader[c]]
  /\ client' = [c \in Clients |-> client'[c]]
  /\ \A c \in Clients \ G : client'[c] = client[c]
  /\ \A c \in G : \E n \in 0 .. Len(reader[c].sent) : client'[c] = Took(c, n)
  /\ link' = [link EXCEPT ![g] = l]
  /\ entry' = [entry EXCEPT ![g] = e]
  /\ recovery' = [recovery EXCEPT ![g] = x]
  /\ UNCHANGED <<top, kept, routed, overtaken>>

(* all of them, or the gateway stays as it is. *)
LEMMA ReadersGo ==
  ASSUME RealtimeInv, NEW g \in Gateways, NEW G \in SUBSET Readers(g), NEW l \in Links, NEW e \in Entries, NEW x \in Seq(Recoveries),
         Goes(g, G, l, e, x), LinkDated(l, top), \A n \in DOMAIN x : RecoveryDated(x[n], top), e.last <= top,
         Linked(l, e, x, Readers(g) # G),
         G = Readers(g) \/ (l = link[g] /\ e = entry[g] /\ x = recovery[g])
  PROVE  RealtimeInv'
<1>1. Typed /\ Dated /\ AllLinked /\ AllServed /\ AllFit /\ top \in Nat
  BY DEF RealtimeInv, Typed
<1>2. UNCHANGED <<top, kept, routed, overtaken>>
  BY DEF Goes
<1>3. /\ link \in [Gateways -> Links] /\ entry \in [Gateways -> Entries]
      /\ recovery \in [Gateways -> Seq(Recoveries)] /\ reader \in [Clients -> Streams]
      /\ client \in [Clients -> Takers]
  BY <1>1 DEF Typed
<1>4. /\ link' \in [Gateways -> Links] /\ link'[g] = l /\ \A h \in Gateways : h # g => link'[h] = link[h]
  BY <1>3 DEF Goes
<1>5. /\ entry' \in [Gateways -> Entries] /\ entry'[g] = e /\ \A h \in Gateways : h # g => entry'[h] = entry[h]
  BY <1>3 DEF Goes
<1>6. /\ recovery' \in [Gateways -> Seq(Recoveries)]
      /\ recovery'[g] = x /\ \A h \in Gateways : h # g => recovery'[h] = recovery[h]
  BY <1>3 DEF Goes
<1>7. G \subseteq Clients /\ \A c \in G : reader[c].at # "away" /\ reader[c].gateway = g
  BY DEF Readers
<1>8. \A c \in Clients : reader'[c] = IF c \in G THEN Away ELSE reader[c]
  BY DEF Goes
<1>9. reader' \in [Clients -> Streams]
  BY <1>3, AwayFits DEF Goes
<1>10. ASSUME NEW c \in Clients PROVE client'[c] \in Takers /\ client'[c].token <= top
  <2>1. CASE c \in G
    <3>1. PICK n \in 0 .. Len(reader[c].sent) : client'[c] = Took(c, n)
      BY <2>1 DEF Goes
    <3>2. QED
      BY <3>1, TookDated
  <2>2. CASE c \notin G
    <3>1. client'[c] = client[c]
      BY <2>2 DEF Goes
    <3>2. QED
      BY <1>1, <1>3, <3>1 DEF Dated
  <2>3. QED
    BY <2>1, <2>2
<1>11. client' \in [Clients -> Takers]
  <2>1. client' = [c \in Clients |-> client'[c]]
    BY DEF Goes
  <2>2. QED
    BY <1>10, <2>1
<1>12. Typed'
  BY <1>1, <1>2, <1>4, <1>5, <1>6, <1>9, <1>11 DEF Typed
<1>13. Dated'
  <2>1. ASSUME NEW h \in Gateways
        PROVE  /\ LinkDated(link'[h], top) /\ entry'[h].last <= top
               /\ \A n \in DOMAIN recovery'[h] : RecoveryDated(recovery'[h][n], top)
    <3>1. CASE h = g
      BY <1>4, <1>5, <1>6, <3>1
    <3>2. CASE h # g
      BY <1>1, <1>4, <1>5, <1>6, <3>2 DEF Dated
    <3>3. QED
      BY <3>1, <3>2
  <2>2. \A c \in Clients : ReaderDated(reader'[c], top) /\ client'[c].token <= top
    BY <1>1, <1>8, <1>10, AwayFits DEF Dated
  <2>3. QED
    BY <1>2, <2>1, <2>2 DEF Dated
<1>14. \A h : Readers(h)' = Readers(h) \ G
  BY <1>7, <1>8, AwayFits DEF Readers
<1>15. \A h : h # g => Readers(h)' = Readers(h)
  BY <1>7, <1>14 DEF Readers
<1>16. AllLinked'
  <2>1. ASSUME NEW h \in Gateways PROVE Linked(link[h], entry[h], recovery[h], Readers(h) # {})'
    <3>1. CASE h = g
      <4>1. (Readers(g)' # {}) = (Readers(g) # G)
        BY <1>14
      <4>2. QED
        BY <1>4, <1>5, <1>6, <3>1, <4>1
    <3>2. CASE h # g
      <4>1. Linked(link[h], entry[h], recovery[h], Readers(h) # {})
        BY <1>1 DEF AllLinked
      <4>2. QED
        BY <1>4, <1>5, <1>6, <1>15, <3>2, <4>1
    <3>3. QED
      BY <3>1, <3>2
  <2>2. QED
    BY <2>1 DEF AllLinked
<1>17. ASSUME NEW d \in Clients \ G, reader[d].at # "away"
       PROVE  /\ reader[d].gateway \in Gateways
              /\ link'[reader[d].gateway] = link[reader[d].gateway]
              /\ entry'[reader[d].gateway] = entry[reader[d].gateway]
              /\ recovery'[reader[d].gateway] = recovery[reader[d].gateway]
  <2>1. reader[d].gateway \in Gateways
    BY <1>1, Lookup
  <2>2. CASE reader[d].gateway # g
    BY <1>4, <1>5, <1>6, <2>1, <2>2
  <2>3. CASE reader[d].gateway = g
    <3>1. d \in Readers(g)
      BY <1>17, <2>3 DEF Readers
    <3>2. l = link[g] /\ e = entry[g] /\ x = recovery[g]
      BY <1>17, <3>1
    <3>3. QED
      BY <1>4, <1>5, <1>6, <2>1, <2>3, <3>2
  <2>4. QED
    BY <2>2, <2>3
<1>18. AllServed'
  <2>1. ASSUME NEW d \in Clients, reader'[d].at # "away" PROVE Served(reader'[d], entry'[reader'[d].gateway])
    <3>1. d \notin G /\ reader'[d] = reader[d]
      BY <1>8, <2>1, AwayFits
    <3>2. Served(reader[d], entry[reader[d].gateway])
      BY <1>1, <2>1, <3>1 DEF AllServed
    <3>3. QED
      BY <1>17, <2>1, <3>1, <3>2
  <2>2. QED
    BY <2>1 DEF AllServed
<1>19. Stored' = Stored
  BY <1>2 DEF Stored
<1>20. ASSUME NEW d \in Clients \ overtaken PROVE Fit(d)'
  <2>1. CASE d \in G
    <3>1. PICK n \in 0 .. Len(reader[d].sent) : client'[d] = Took(d, n)
      BY <2>1 DEF Goes
    <3>2. TakerFit(client'[d], Stored')
      BY <1>19, <3>1, TookFit
    <3>3. reader'[d].at \in {"away", "entering"}
      BY <1>8, <2>1, AwayFits
    <3>4. QED
      BY <3>2, <3>3, FitApart
  <2>2. CASE d \notin G
    <3>1. reader'[d] = reader[d] /\ client'[d] = client[d] /\ Fit(d)
      BY <1>1, <1>8, <2>2 DEF Goes, AllFit
    <3>2. reader[d].at \in Placed => reader[d].at # "away"
      BY DEF Placed
    <3>3. QED
      BY <1>1, <1>17, <1>19, <2>2, <3>1, <3>2, FitStays
  <2>3. QED
    BY <2>1, <2>2
<1>21. AllFit'
  BY <1>2, <1>20 DEF AllFit
<1>22. QED
  BY <1>12, <1>13, <1>16, <1>18, <1>21 DEF RealtimeInv

(* A gateway that nobody reads at knows nothing of the key. *)
LEMMA UnreadTyped == Unread \in Entries /\ Unread.last = 0 /\ ~Unread.subscribed
BY DEF Unread, Entries

(* The recoveries that read for somebody are done, and the others go on. *)
LEMMA DroppedTyped ==
  ASSUME NEW t \in Nat, NEW y \in Seq(Recoveries), \A n \in DOMAIN y : RecoveryDated(y[n], t)
  PROVE  Dropped(y) \in Seq(Recoveries) /\ \A n \in DOMAIN Dropped(y) : RecoveryDated(Dropped(y)[n], t)
<1>1. Recovery("done") \in Recoveries /\ RecoveryDated(Recovery("done"), t)
  <2>1. <<>> \in Seq(Nat) /\ Recovery("done") = [at |-> "done", after |-> 0, found |-> <<>>]
    BY DEF Recovery
  <2>2. [at |-> "done", after |-> 0, found |-> <<>>] \in Recoveries
    BY <2>1 DEF Recoveries
  <2>3. QED
    BY <2>1, <2>2 DEF RecoveryDated, Dates
<1>2. PICK x : x = Dropped(y)
  OBVIOUS
<1>3. /\ x = [n \in DOMAIN y |-> IF y[n].at \in {"reading", "found"} THEN Recovery("done") ELSE y[n]]
      /\ DOMAIN y = 1 .. Len(y) /\ Len(y) \in Nat
  BY <1>2 DEF Dropped
<1>4. \A n \in DOMAIN y : y[n] \in Recoveries
  OBVIOUS
<1>5. \A n \in 1 .. Len(y) : x[n] \in Recoveries /\ RecoveryDated(x[n], t)
  BY <1>1, <1>3, <1>4
<1>6. x \in Seq(Recoveries)
  BY <1>3, <1>5
<1>7. QED
  BY <1>2, <1>3, <1>5, <1>6

(* The last reader of the key leaves nothing behind at the gateway. *)
LEMMA LeaveKeeps == ASSUME RealtimeInv, NEW c \in Clients, Leave(c) PROVE RealtimeInv'
<1>1. Typed /\ Dated /\ AllLinked /\ AllServed
  BY DEF RealtimeInv
<1>2. PICK g : g = reader[c].gateway
  OBVIOUS
<1>3. g \in Gateways /\ reader[c].at = "open" /\ c \in Readers(g)
  BY <1>1, <1>2, Lookup DEF Leave, Readers
<1>4. PICK k : k = link[g]
  OBVIOUS
<1>5. PICK y : y = recovery[g]
  OBVIOUS
<1>6. /\ k \in Links /\ entry[g] \in Entries /\ y \in Seq(Recoveries) /\ LinkDated(k, top) /\ top \in Nat
      /\ \A m \in DOMAIN y : RecoveryDated(y[m], top)
      /\ Linked(k, entry[g], y, Readers(g) # {})
  BY <1>3, <1>4, <1>5, AtGateway
<1>7. entry[g].subscribed /\ entry[g].last <= top
  <2>1. Served(reader[c], entry[g])
    BY <1>1, <1>2, <1>3 DEF AllServed
  <2>2. QED
    BY <1>1, <1>3, <2>1 DEF Served, Placed, Dated
<1>8. PICK n \in 0 .. Len(reader[c].sent) : client' = [client EXCEPT ![c] = Took(c, n)]
  <2>1. PICK n \in Cuts(c) : client' = [client EXCEPT ![c] = Took(c, n)]
    BY DEF Leave
  <2>2. reader[c].sent \in Seq(Sendings)
    BY <1>1, Lookup DEF Streams
  <2>3. n \in 0 .. Len(reader[c].sent)
    BY <2>1, <2>2 DEF Cuts
  <2>4. QED
    BY <2>1, <2>3
<1>9. client \in [Clients -> Takers] /\ reader \in [Clients -> Streams]
  BY <1>1 DEF Typed
<1>10. client'[c] = Took(c, n) /\ \A d \in Clients \ {c} : client'[d] = client[d]
  BY <1>8, <1>9
<1>11. client' = [d \in Clients |-> client'[d]]
  BY <1>8, <1>9
<1>12. reader' = [d \in Clients |-> IF d \in {c} THEN Away ELSE reader[d]]
  BY <1>9 DEF Leave
<1>13. UNCHANGED <<top, kept, routed, overtaken>>
  BY DEF Leave
<1>14. {c} \in SUBSET Readers(g)
  BY <1>3
<1>15. CASE Readers(g) = {c}
  <2>1. PICK l : l = Asking(g, Unsubscribe)[g]
    OBVIOUS
  <2>2. Unsubscribe \in Asks
    BY DEF Asks
  <2>3. /\ Asking(g, Unsubscribe) \in [Gateways -> Links] /\ Asked(k, l, Unsubscribe)
        /\ l.up = k.up /\ l.carries = k.carries
    BY <1>1, <1>3, <1>4, <2>1, <2>2, AskingAsks
  <2>4. l \in Links
    BY <1>3, <2>1, <2>3
  <2>5. link' = Asking(g, Unsubscribe) /\ entry' = [entry EXCEPT ![g] = Unread] /\ recovery' = [recovery EXCEPT ![g] = Dropped(y)]
    BY <1>2, <1>5, <1>15 DEF Leave
  <2>6. link' = [link EXCEPT ![g] = l]
    BY <1>1, <1>3, <2>1, <2>5 DEF Asking, Typed
  <2>7. Goes(g, {c}, l, Unread, Dropped(y))
    BY <1>10, <1>11, <1>12, <1>13, <2>5, <2>6 DEF Goes
  <2>8. Linked(k, entry[g], y, TRUE)
    BY <1>6, <1>15
  <2>9. Linked(l, Unread, Dropped(y), FALSE)
    BY <1>6, <1>7, <2>3, <2>8, LinkedLast
  <2>10. LinkDated(l, top)
    BY <1>6, <2>3, AskedDated
  <2>11. Dropped(y) \in Seq(Recoveries) /\ \A m \in DOMAIN Dropped(y) : RecoveryDated(Dropped(y)[m], top)
    BY <1>6, DroppedTyped
  <2>12. Unread \in Entries /\ Unread.last <= top
    BY <1>6, UnreadTyped
  <2>13. Linked(l, Unread, Dropped(y), Readers(g) # {c})
    BY <1>15, <2>9
  <2>14. QED
    BY <1>3, <1>14, <1>15, <2>4, <2>7, <2>10, <2>11, <2>12, <2>13, ReadersGo
<1>16. CASE Readers(g) # {c}
  <2>1. UNCHANGED <<entry, link, recovery>>
    BY <1>2, <1>16 DEF Leave
  <2>2. link' = [link EXCEPT ![g] = k] /\ entry' = [entry EXCEPT ![g] = entry[g]] /\ recovery' = [recovery EXCEPT ![g] = y]
    BY <1>1, <1>4, <1>5, <2>1 DEF Typed
  <2>3. Goes(g, {c}, k, entry[g], y)
    BY <1>10, <1>11, <1>12, <1>13, <2>2 DEF Goes
  <2>4. Linked(k, entry[g], y, Readers(g) # {c})
    <3>1. Readers(g) # {}
      BY <1>3
    <3>2. QED
      BY <1>6, <1>16, <3>1
  <2>5. QED
    BY <1>3, <1>4, <1>5, <1>6, <1>7, <1>14, <2>3, <2>4, ReadersGo
<1>17. QED
  BY <1>15, <1>16

(* A gateway that is started again has nothing. *)
LEMMA ConnectedAnew ==
  /\ Connected \in Links /\ \A t : LinkDated(Connected, t)
  /\ Linked(Connected, Unread, <<>>, FALSE)
<1>1. <<>> \in Seq(Asks) /\ <<>> \in Seq(Items) /\ DOMAIN <<>> = {}
  OBVIOUS
<1>2. Connected.asks = <<>> /\ Connected.brings = <<>> /\ Connected \in Links
  BY <1>1 DEF Connected, Links
<1>3. \A t : LinkDated(Connected, t)
  BY <1>1, <1>2 DEF LinkDated
<1>4. \A one : ~Pending(Connected, one)
  BY <1>1, <1>2 DEF Pending
<1>5. InTurn(Connected) /\ AllApart(Connected)
  BY <1>1, <1>2 DEF InTurn, AllApart
<1>6. Linked(Connected, Unread, <<>>, FALSE)
  BY <1>1, <1>2, <1>4, <1>5, UnreadTyped DEF Linked
<1>7. QED
  BY <1>2, <1>3, <1>6

(* Its readers have what they took. *)
LEMMA EndKeeps == ASSUME RealtimeInv, NEW g \in Gateways, End(g) PROVE RealtimeInv'
<1>1. Typed /\ top \in Nat
  BY DEF RealtimeInv, Typed
<1>2. PICK n \in [Readers(g) -> 0 .. 2 * Events + 1] :
        /\ \A c \in Readers(g) : n[c] \in Cuts(c)
        /\ client' = [c \in Clients |-> IF c \in Readers(g) THEN Took(c, n[c]) ELSE client[c]]
  BY DEF End
<1>3. ASSUME NEW c \in Readers(g) PROVE \E m \in 0 .. Len(reader[c].sent) : client'[c] = Took(c, m)
  <2>1. c \in Clients
    BY DEF Readers
  <2>2. reader[c].sent \in Seq(Sendings)
    BY <1>1, <2>1, Lookup DEF Streams
  <2>3. n[c] \in Cuts(c)
    BY <1>2
  <2>4. n[c] \in 0 .. Len(reader[c].sent)
    BY <2>2, <2>3 DEF Cuts
  <2>5. client'[c] = Took(c, n[c])
    BY <1>2, <2>1
  <2>6. QED
    BY <2>4, <2>5
<1>4. client' = [c \in Clients |-> client'[c]] /\ \A c \in Clients \ Readers(g) : client'[c] = client[c]
  BY <1>2
<1>5. /\ reader' = [c \in Clients |-> IF c \in Readers(g) THEN Away ELSE reader[c]]
      /\ link' = [link EXCEPT ![g] = Connected] /\ entry' = [entry EXCEPT ![g] = Unread]
      /\ recovery' = [recovery EXCEPT ![g] = <<>>] /\ UNCHANGED <<top, kept, routed, overtaken>>
  BY DEF End
<1>6. Goes(g, Readers(g), Connected, Unread, <<>>)
  BY <1>3, <1>4, <1>5 DEF Goes
<1>7. <<>> \in Seq(Recoveries) /\ \A m \in DOMAIN <<>> : RecoveryDated(<<>>[m], top)
  OBVIOUS
<1>8. Unread \in Entries /\ Unread.last <= top
  BY <1>1, UnreadTyped
<1>9. Linked(Connected, Unread, <<>>, Readers(g) # Readers(g))
  BY ConnectedAnew
<1>10. Connected \in Links /\ LinkDated(Connected, top)
  BY ConnectedAnew
<1>11. Readers(g) \in SUBSET Readers(g)
  OBVIOUS
<1>12. QED
  BY <1>6, <1>7, <1>8, <1>9, <1>10, <1>11, ReadersGo

(* What was asked is given up: *)
GivesUp(k, l, y, x) ==
  /\ ~k.up
  /\ l = [k EXCEPT !.asks = <<>>, !.brings = <<>>]
  /\ x = [n \in DOMAIN y |-> IF y[n].at = "asking" THEN Recovery("next") ELSE y[n]]

(* nothing is pending, and recoveries go on without it. *)
LEMMA GivenUp ==
  ASSUME NEW t, NEW k \in Links, NEW e, NEW y \in Seq(Recoveries), NEW read, Linked(k, e, y, read),
         \A n \in DOMAIN y : RecoveryDated(y[n], t), t \in Nat, NEW l, NEW x, GivesUp(k, l, y, x)
  PROVE  /\ l \in Links /\ ~l.up /\ LinkDated(l, t)
         /\ x \in Seq(Recoveries) /\ DOMAIN x = DOMAIN y
         /\ \A n \in DOMAIN x : RecoveryDated(x[n], t) /\ (x[n] = y[n] \/ x[n] = Recovery("next"))
         /\ Linked(l, e, x, read)
         /\ Linked(l, Unread, x, FALSE)
<1>1. <<>> \in Seq(Asks) /\ <<>> \in Seq(Items) /\ <<>> \in Seq(Nat) /\ DOMAIN <<>> = {}
  OBVIOUS
<1>2. l \in Links /\ ~l.up /\ l.asks = <<>> /\ l.brings = <<>>
  BY <1>1 DEF Links, GivesUp
<1>3. LinkDated(l, t) /\ InTurn(l) /\ AllApart(l)
  BY <1>1, <1>2 DEF LinkDated, InTurn, AllApart
<1>4. \A one : ~Pending(l, one)
  BY <1>1, <1>2 DEF Pending
<1>5. Recovery("next") \in Recoveries /\ RecoveryDated(Recovery("next"), t)
  <2>1. Recovery("next") = [at |-> "next", after |-> 0, found |-> <<>>] /\ "next" \in Owing
    BY DEF Recovery, Owing
  <2>2. [at |-> "next", after |-> 0, found |-> <<>>] \in Recoveries
    BY <1>1, <2>1 DEF Recoveries
  <2>3. QED
    BY <2>1, <2>2 DEF RecoveryDated, Dates
<1>6. DOMAIN y = 1 .. Len(y) /\ Len(y) \in Nat /\ \A n \in DOMAIN y : y[n] \in Recoveries
  OBVIOUS
<1>7. \A n \in 1 .. Len(y) : x[n] \in Recoveries /\ RecoveryDated(x[n], t) /\ (x[n] = y[n] \/ x[n] = Recovery("next"))
  BY <1>5, <1>6 DEF GivesUp
<1>8. x \in Seq(Recoveries) /\ DOMAIN x = DOMAIN y
  BY <1>6, <1>7 DEF GivesUp
<1>9. Linked(l, e, x, read)
  BY <1>2, <1>3, <1>4 DEF Linked
<1>10. Linked(l, Unread, x, FALSE)
  BY <1>2, <1>3, <1>4, UnreadTyped DEF Linked
<1>11. QED
  BY <1>2, <1>3, <1>6, <1>7, <1>8, <1>9, <1>10

(* Who took nothing has what they had. *)
LEMMA TookNone == ASSUME Typed, NEW c \in Clients PROVE Took(c, 0) = client[c]
<1>1. client[c] \in Takers
  BY Lookup
<1>2. 1 .. 0 = {}
  OBVIOUS
<1>3. Took(c, 0) = [client[c] EXCEPT !.has = @ \cup {}, !.token = @]
  BY <1>2 DEF Took
<1>4. QED
  BY <1>1, <1>3 DEF Takers

(* Who waits for the channel is refused, and nobody else is left without what they are    *)
(* behind: the connection is not back yet.                                                *)
LEMMA RefuseKeeps == ASSUME RealtimeInv, NEW g \in Gateways, Refuse(g) PROVE RealtimeInv'
<1>1. PICK k : k = link[g]
  OBVIOUS
<1>2. PICK y : y = recovery[g]
  OBVIOUS
<1>3. /\ k \in Links /\ entry[g] \in Entries /\ y \in Seq(Recoveries) /\ LinkDated(k, top) /\ top \in Nat
      /\ \A n \in DOMAIN y : RecoveryDated(y[n], top)
      /\ Linked(k, entry[g], y, Readers(g) # {})
      /\ \A d \in Clients \ overtaken : reader[d].at \in Placed /\ reader[d].gateway = g =>
           Reached(reader[d], k, entry[g], y, Stored)
  BY <1>1, <1>2, AtGateway
<1>4. /\ Typed /\ link \in [Gateways -> Links] /\ recovery \in [Gateways -> Seq(Recoveries)]
      /\ entry \in [Gateways -> Entries] /\ reader \in [Clients -> Streams] /\ client \in [Clients -> Takers]
  BY DEF RealtimeInv, Typed
<1>5. PICK l : l = [k EXCEPT !.asks = <<>>, !.brings = <<>>]
  OBVIOUS
<1>6. PICK x : x = [n \in DOMAIN y |-> IF y[n].at = "asking" THEN Recovery("next") ELSE y[n]]
  OBVIOUS
<1>7. /\ ~k.up /\ UNCHANGED <<top, kept, routed, client, overtaken>>
      /\ recovery' = [recovery EXCEPT ![g] = x]
  BY <1>1, <1>2, <1>6 DEF Refuse
<1>8. link' = [link EXCEPT ![g] = l]
  BY <1>1, <1>4, <1>5 DEF Refuse
<1>9. /\ l \in Links /\ ~l.up /\ LinkDated(l, top)
      /\ x \in Seq(Recoveries) /\ DOMAIN x = DOMAIN y
      /\ \A n \in DOMAIN x : RecoveryDated(x[n], top) /\ (x[n] = y[n] \/ x[n] = Recovery("next"))
      /\ Linked(l, entry[g], x, Readers(g) # {})
      /\ Linked(l, Unread, x, FALSE)
  <2>1. PICK read : read = (Readers(g) # {})
    OBVIOUS
  <2>2. PICK t : t = top
    OBVIOUS
  <2>3. PICK e : e = entry[g]
    OBVIOUS
  <2>4. t \in Nat /\ Linked(k, e, y, read) /\ \A n \in DOMAIN y : RecoveryDated(y[n], t)
    BY <1>3, <2>1, <2>2, <2>3
  <2>5. GivesUp(k, l, y, x)
    BY <1>5, <1>6, <1>7 DEF GivesUp
  <2>6. /\ l \in Links /\ ~l.up /\ LinkDated(l, t)
        /\ x \in Seq(Recoveries) /\ DOMAIN x = DOMAIN y
        /\ \A n \in DOMAIN x : RecoveryDated(x[n], t) /\ (x[n] = y[n] \/ x[n] = Recovery("next"))
        /\ Linked(l, e, x, read)
        /\ Linked(l, Unread, x, FALSE)
    BY <1>3, <2>4, <2>5, GivenUp
  <2>7. QED
    BY <2>1, <2>2, <2>3, <2>6
<1>10. PICK waiting : waiting = IF \E i \in DOMAIN link[g].asks : link[g].asks[i] = Subscribe(0) THEN Readers(g) ELSE {}
  OBVIOUS
<1>11. /\ reader' = [c \in Clients |-> IF c \in waiting THEN Away ELSE reader[c]]
       /\ entry' = IF waiting = {} THEN entry ELSE [entry EXCEPT ![g] = Unread]
  BY <1>10 DEF Refuse
<1>12. CASE waiting = {}
  <2>1. reader' = reader /\ entry' = [entry EXCEPT ![g] = entry[g]]
    BY <1>4, <1>11, <1>12
  <2>2. Moves(g, l, entry[g], x)
    BY <1>7, <1>8, <2>1 DEF Moves
  <2>3. Left(g, l, entry[g], x)
    BY <1>9 DEF Left
  <2>4. ASSUME NEW d \in Clients \ overtaken, reader[d].at \in Placed, reader[d].gateway = g
        PROVE  LeftTo(reader[d], l, x)
    <3>1. \A n \in DOMAIN y : RecoveryFit(reader[d], y[n], Stored)
      BY <1>3, <2>4 DEF Reached
    <3>2. RecoveryFit(reader[d], Recovery("next"), Stored)
      BY DEF RecoveryFit, Recovery
    <3>3. \A n \in DOMAIN x : RecoveryFit(reader[d], x[n], Stored)
      BY <1>9, <3>1, <3>2
    <3>4. QED
      BY <1>9, <3>3 DEF LeftTo, Carried
  <2>5. QED
    BY <1>3, <1>9, <2>2, <2>3, <2>4, GatewayMoves
<1>13. CASE waiting # {}
  <2>1. waiting = Readers(g) /\ entry' = [entry EXCEPT ![g] = Unread]
    BY <1>10, <1>11, <1>13
  <2>2. reader' = [c \in Clients |-> IF c \in Readers(g) THEN Away ELSE reader[c]]
    BY <1>11, <2>1
  <2>3. ASSUME NEW c \in Readers(g) PROVE \E n \in 0 .. Len(reader[c].sent) : client'[c] = Took(c, n)
    <3>1. c \in Clients
      BY DEF Readers
    <3>2. reader[c].sent \in Seq(Sendings)
      BY <1>4, <3>1 DEF Streams
    <3>3. 0 \in 0 .. Len(reader[c].sent)
      BY <3>2
    <3>4. client'[c] = Took(c, 0)
      BY <1>4, <1>7, <3>1, TookNone
    <3>5. QED
      BY <3>3, <3>4
  <2>4. client' = [c \in Clients |-> client'[c]] /\ \A c \in Clients \ Readers(g) : client'[c] = client[c]
    BY <1>4, <1>7
  <2>5. Goes(g, Readers(g), l, Unread, x)
    BY <1>7, <1>8, <2>1, <2>2, <2>3, <2>4 DEF Goes
  <2>6. Unread \in Entries /\ Unread.last <= top
    BY <1>3, UnreadTyped
  <2>7. Linked(l, Unread, x, Readers(g) # Readers(g)) /\ Readers(g) \in SUBSET Readers(g)
    BY <1>9
  <2>8. \A n \in DOMAIN x : RecoveryDated(x[n], top)
    BY <1>9
  <2>9. QED
    BY <1>9, <2>5, <2>6, <2>7, <2>8, ReadersGo
<1>14. QED
  BY <1>12, <1>13

(* A recovery that fails leaves its readers behind, and nobody else. *)
LEMMA MissKeeps ==
  ASSUME RealtimeInv, NEW g \in Gateways, NEW n \in DOMAIN recovery[g], Miss(g, n) PROVE RealtimeInv'
<1>1. Typed /\ Dated /\ AllLinked /\ AllServed /\ AllFit
  BY DEF RealtimeInv
<1>2. PICK y : y = recovery[g]
  OBVIOUS
<1>3. /\ y \in Seq(Recoveries) /\ top \in Nat /\ \A m \in DOMAIN y : RecoveryDated(y[m], top)
      /\ Linked(link[g], entry[g], y, Readers(g) # {})
  BY <1>2, AtGateway
<1>4. /\ UNCHANGED <<top, kept, routed, link, entry, reader, client>> /\ y[n].at = "reading"
      /\ overtaken' = overtaken \cup Readers(g)
  BY <1>2 DEF Miss
<1>5. Recovery("done") \in Recoveries /\ RecoveryDated(Recovery("done"), top)
  <2>1. <<>> \in Seq(Nat) /\ Recovery("done") = [at |-> "done", after |-> 0, found |-> <<>>]
    BY DEF Recovery
  <2>2. [at |-> "done", after |-> 0, found |-> <<>>] \in Recoveries
    BY <2>1 DEF Recoveries
  <2>3. QED
    BY <1>3, <2>1, <2>2 DEF RecoveryDated, Dates
<1>6. PICK x : x = [y EXCEPT ![n] = Recovery("done")]
  OBVIOUS
<1>7. x \in Seq(Recoveries) /\ DOMAIN x = DOMAIN y /\ x[n] = Recovery("done") /\ \A m \in DOMAIN y : m # n => x[m] = y[m]
  BY <1>2, <1>3, <1>5, <1>6, OneRecovery
<1>8. recovery' = [recovery EXCEPT ![g] = x] /\ recovery \in [Gateways -> Seq(Recoveries)]
  BY <1>1, <1>2, <1>6 DEF Miss, Typed
<1>9. recovery' \in [Gateways -> Seq(Recoveries)] /\ recovery'[g] = x /\ \A h \in Gateways : h # g => recovery'[h] = recovery[h]
  BY <1>7, <1>8
<1>10. Typed'
  <2>1. overtaken' \subseteq Clients
    BY <1>1, <1>4 DEF Typed, Readers
  <2>2. QED
    BY <1>1, <1>4, <1>9, <2>1 DEF Typed
<1>11. Dated'
  <2>1. ASSUME NEW h \in Gateways PROVE \A m \in DOMAIN recovery'[h] : RecoveryDated(recovery'[h][m], top)
    <3>1. CASE h = g
      BY <1>3, <1>5, <1>7, <1>9, <3>1
    <3>2. CASE h # g
      BY <1>1, <1>9, <3>2 DEF Dated
    <3>3. QED
      BY <3>1, <3>2
  <2>2. QED
    BY <1>1, <1>4, <2>1 DEF Dated
<1>12. \A h : Readers(h)' = Readers(h)
  BY <1>4 DEF Readers
<1>13. AllLinked'
  <2>1. ASSUME NEW h \in Gateways PROVE Linked(link[h], entry[h], recovery[h], Readers(h) # {})'
    <3>1. CASE h = g
      <4>1. y[n].at # "asking"
        BY <1>4
      <4>2. Linked(link[g], entry[g], x, Readers(g) # {})
        BY <1>3, <1>7, <4>1, LinkedRecovers
      <4>3. QED
        BY <1>4, <1>9, <1>12, <3>1, <4>2
    <3>2. CASE h # g
      <4>1. Linked(link[h], entry[h], recovery[h], Readers(h) # {})
        BY <1>1 DEF AllLinked
      <4>2. QED
        BY <1>4, <1>9, <1>12, <3>2, <4>1
    <3>3. QED
      BY <3>1, <3>2
  <2>2. QED
    BY <2>1 DEF AllLinked
<1>14. AllServed'
  BY <1>1, <1>4 DEF AllServed
<1>15. ASSUME NEW d \in Clients \ overtaken' PROVE Fit(d)'
  <2>1. Fit(d) /\ d \notin Readers(g) /\ reader[d].gateway \in Gateways
    BY <1>1, <1>4, <1>15, Lookup DEF AllFit
  <2>2. reader[d].at \in Placed => reader[d].gateway # g
    BY <1>15, <2>1 DEF Readers, Placed
  <2>3. Stored' \subseteq Stored
    BY <1>4 DEF Stored
  <2>4. QED
    BY <1>1, <1>4, <1>9, <2>1, <2>2, <2>3, FitStays
<1>16. AllFit'
  BY <1>15 DEF AllFit
<1>17. QED
  BY <1>10, <1>11, <1>13, <1>14, <1>16 DEF RealtimeInv

-----------------------------------------------------------------------------
(* It holds at first. *)
LEMMA InitHolds == ASSUME RealtimeInit PROVE RealtimeInv
<1>1. /\ top = 0 /\ kept = {} /\ routed = {} /\ overtaken = {}
      /\ link = [g \in Gateways |-> Connected] /\ entry = [g \in Gateways |-> Unread]
      /\ recovery = [g \in Gateways |-> <<>>] /\ reader = [c \in Clients |-> Away]
      /\ client = [c \in Clients |-> Newcomer]
  BY DEF RealtimeInit
<1>2. Newcomer \in Takers /\ Newcomer.token = 0 /\ Newcomer.has = {}
  BY DEF Newcomer, Takers
<1>3. <<>> \in Seq(Recoveries) /\ DOMAIN <<>> = {}
  OBVIOUS
<1>4. Typed
  BY <1>1, <1>2, <1>3, AwayFits, UnreadTyped, ConnectedAnew DEF Typed
<1>5. Dated
  BY <1>1, <1>2, <1>3, AwayFits, UnreadTyped, ConnectedAnew DEF Dated
<1>6. \A g : Readers(g) = {}
  BY <1>1, AwayFits DEF Readers
<1>7. AllLinked
  BY <1>1, <1>6, ConnectedAnew DEF AllLinked
<1>8. AllServed
  BY <1>1, AwayFits DEF AllServed
<1>9. Stored = {}
  BY <1>1 DEF Stored
<1>10. AllFit
  <2>1. ASSUME NEW c \in Clients PROVE Fit(c)
    <3>1. reader[c].at = "away" /\ client[c] = Newcomer
      BY <1>1, AwayFits
    <3>2. TakerFit(client[c], Stored)
      BY <1>2, <1>9, <3>1 DEF TakerFit
    <3>3. QED
      BY <3>1, <3>2 DEF Fit, ReaderFit, Placed
  <2>2. QED
    BY <2>1 DEF AllFit
<1>11. QED
  BY <1>4, <1>5, <1>7, <1>8, <1>10 DEF RealtimeInv

(* Every step keeps it. *)
LEMMA StepKeeps == ASSUME RealtimeInv, [RealtimeNext]_realtimeVars PROVE RealtimeInv'
<1>1. ASSUME UNCHANGED realtimeVars PROVE RealtimeInv'
  BY <1>1 DEF realtimeVars, RealtimeInv, Typed, Dated, AllLinked, AllServed, AllFit, Fit, Stored, Readers
<1>2. ASSUME NEW c \in Clients, Opening(c) PROVE RealtimeInv'
  BY <1>2, MarkKeeps, MarkedKeeps, ReplayKeeps, ReplayedKeeps DEF Opening
<1>3. ASSUME NEW g \in Gateways, Carrying(g) PROVE RealtimeInv'
  <2>1. CASE \E n \in DOMAIN recovery[g] : RecoverFrom(g, n) \/ RecoverRead(g, n) \/ Recovered(g, n)
    BY <2>1, RecoverFromKeeps, RecoverReadKeeps, RecoveredKeeps
  <2>2. QED
    BY <1>3, <2>1, ServeKeeps, HearKeeps, ReturnKeeps DEF Carrying
<1>4. ASSUME NEW c \in Clients, Opening(c) \/ Leave(c) \/ \E g \in Gateways : Enter(c, g) PROVE RealtimeInv'
  BY <1>2, <1>4, LeaveKeeps, EnterKeeps
<1>5. ASSUME NEW g \in Gateways, Carrying(g) \/ Lose(g) \/ Refuse(g) \/ End(g) PROVE RealtimeInv'
  BY <1>3, <1>5, LoseKeeps, RefuseKeeps, EndKeeps
<1>6. ASSUME NEW g \in Gateways, NEW n \in DOMAIN recovery[g], Miss(g, n) PROVE RealtimeInv'
  BY <1>6, MissKeeps
<1>7. QED
  BY <1>1, <1>4, <1>5, <1>6, RouteKeeps, ExpireKeeps DEF RealtimeNext

(* The events a reader is behind are on their way in every state of the streams, those    *)
(* before them with them: what the connections, the recoveries and the readers of Hub and *)
(* Stream know of each other.                                                             *)
THEOREM RealtimeInvariance == RealtimeSpec => []RealtimeInv
<1>1. RealtimeInit => RealtimeInv
  BY InitHolds
<1>2. RealtimeInv /\ [RealtimeNext]_realtimeVars => RealtimeInv'
  BY StepKeeps
<1>3. QED
  BY <1>1, <1>2, PTL DEF RealtimeSpec

(* Then whoever was given nothing in the middle of a recovery, of those that did not fail, *)
(* misses nothing. *)
LEMMA InvSkipsNone == ASSUME RealtimeInv PROVE NoneSkipped
<1>1. SUFFICES ASSUME NEW c \in Clients \ overtaken PROVE Whole(c)
  BY DEF NoneSkipped
<1>2. ASSUME NEW n \in 0 .. Len(reader[c].sent)
      PROVE  /\ \A id \in kept \cap routed : Took(c, n).since < id /\ id <= Took(c, n).token => id \in Took(c, n).has
             /\ \A id \in Took(c, n).has : id > Took(c, n).since
  BY <1>2, TookFit DEF TakerFit, Stored
<1>3. ASSUME NEW i \in DOMAIN reader[c].sent, NEW j \in DOMAIN reader[c].sent,
             i < j, reader[c].sent[i].event, reader[c].sent[j].event
      PROVE  reader[c].sent[i].id < reader[c].sent[j].id
  <2>1. reader[c].at = "open"
    <3>1. reader[c].at # "open" => reader[c].sent = <<>>
      BY DEF RealtimeInv, Dated, ReaderDated
    <3>2. DOMAIN <<>> = {}
      OBVIOUS
    <3>3. QED
      BY <1>3, <3>1, <3>2
  <2>2. Rising(reader[c])
    BY <2>1 DEF RealtimeInv, AllFit, Fit, ReaderFit, SentFit
  <2>3. QED
    BY <1>3, <2>2 DEF Rising
<1>4. QED
  BY <1>2, <1>3 DEF Whole

(* A client that keeps the last token it took has every event up to it that the stream    *)
(* still has, through replays, events held meanwhile, connections lost, gateways that end *)
(* and tokens that were not taken, unless it was given an event in the middle of a        *)
(* recovery, or one failed: Hub.ts and Stream.ts, for every number of gateways, clients   *)
(* and faults.                                                                            *)
THEOREM NothingIsSkipped == RealtimeSpec => []NoneSkipped
BY RealtimeInvariance, InvSkipsNone, PTL

-----------------------------------------------------------------------------
(* With the regions.                                                       *)

(* The records and the streams of a key run as they do alone. *)
LEMMA EitherAlone == RegionsSpec => Spec /\ RealtimeSpec
<1>1. RegionsInit => Init /\ RealtimeInit
  BY DEF RegionsInit
<1>2. [RegionsNext]_regionsVars => [Next]_vars /\ [RealtimeNext]_realtimeVars
  BY DEF RegionsNext, regionsVars
<1>3. QED
  BY <1>1, <1>2, PTL DEF RegionsSpec, Spec, RealtimeSpec

(* What becomes of a write: the regions agree whatever the order in which its records     *)
(* come (convergence.js), and the readers of its events miss none (Hub.ts, Stream.ts).    *)
THEOREM RegionsAndReaders == RegionsSpec => [](OrderFree /\ Decided /\ Converged /\ NoneSkipped)
BY EitherAlone, OrderIsImmaterial, TiesAreDecided, RegionsConverge, NothingIsSkipped, PTL
==============================================================================
