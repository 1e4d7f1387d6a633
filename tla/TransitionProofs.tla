-------------------------- MODULE TransitionProofs --------------------------
(***************************************************************************)
(* What Transition guarantees for every set of calls and handlers, however *)
(* often calls arrive, are retried and expire.                             *)
(***************************************************************************)
EXTENDS Transition, TLAPS

(* What holds of the stored data, and of the handlers beside it. *)
StoreInv ==
  /\ NoLostUpdate
  /\ EventImages
  /\ OnceExact
  /\ Noted
  /\ Conditional
  /\ Tombstone
  /\ RemovedStaysRemoved

HandlerInv == Fresh /\ Filling /\ ReplyIsTrue

IInv == TransitionOK /\ StoreInv /\ HandlerInv

(* The condition under which a call may write over what is stored. *)
Writable(c) ==
  /\ ~Made(c)
  /\ Expected[c] \in {Unconditional, record.version}
  /\ record.deleted => c \in Revives \cup Assigns

-----------------------------------------------------------------------------
(* A prefix of a sequence is that of the sequence with an element added.   *)
LEMMA Prefixes ==
  ASSUME NEW S, NEW s \in Seq(S), NEW e \in S, NEW n \in 0..Len(s)
  PROVE  SubSeq(Append(s, e), 1, n) = SubSeq(s, 1, n)
<1>1. Append(s, e) \in Seq(S) /\ Len(Append(s, e)) = Len(s) + 1
  OBVIOUS
<1>2. SubSeq(s, 1, n) \in Seq(S) /\ SubSeq(Append(s, e), 1, n) \in Seq(S)
  BY <1>1
<1>3. Len(SubSeq(s, 1, n)) = n /\ Len(SubSeq(Append(s, e), 1, n)) = n
  BY <1>1
<1>4. \A i \in 1..n : SubSeq(Append(s, e), 1, n)[i] = SubSeq(s, 1, n)[i]
  BY <1>1
<1>5. QED
  BY <1>2, <1>3, <1>4

(* A sequence is all of itself. *)
LEMMA Whole ==
  ASSUME NEW S, NEW s \in Seq(S)
  PROVE  SubSeq(s, 1, Len(s)) = s
OBVIOUS

-----------------------------------------------------------------------------
(* A write that is allowed keeps what holds of the stored data: one lemma  *)
(* for each part.                                                          *)
LEMMA WrittenTypes ==
  ASSUME TransitionOK, NEW h \in Handlers, serving[h] \in Invocation,
         NEW value \in Seq(Calls), Written(h, value)
  PROVE  /\ record' \in [version : Nat, value : Seq(Calls), deleted : BOOLEAN]
         /\ inbox' \in [Calls -> Nat]
         /\ rows' \in Seq(Images)
         /\ log' \in Seq(Calls)
         /\ made' \in [Calls -> Nat]
         /\ again' \subseteq Nat
<1> DEFINE c == serving[h].call
<1>1. c \in Calls /\ serving[h].images \in Images
  BY DEF Invocation
<1>2. record.version + 1 \in Nat /\ Append(value, c) \in Seq(Calls)
  BY <1>1 DEF TransitionOK
<1>3. record' \in [version : Nat, value : Seq(Calls), deleted : BOOLEAN]
  BY <1>2 DEF Written
<1>4. inbox' \in [Calls -> Nat]
  BY <1>2 DEF Written, TransitionOK
<1>5. rows' \in Seq(Images)
  <2>1. Filled(h, value) \in Images
    BY <1>1, <1>2 DEF Filled, Image, Images
  <2>2. rows \in Seq(Images) /\ rows' = Append(rows, Filled(h, value))
    BY DEF TransitionOK, Written
  <2>3. QED
    BY <2>1, <2>2
<1>6. log' \in Seq(Calls) /\ made' \in [Calls -> Nat]
  <2>1. log' = Append(log, c) /\ made' = [made EXCEPT ![c] = @ + 1]
    BY DEF Written
  <2>2. log \in Seq(Calls) /\ made \in [Calls -> Nat]
    BY DEF TransitionOK
  <2>3. QED
    BY <1>1, <2>1, <2>2
<1>7. again' \subseteq Nat
  BY <1>2 DEF Written, TransitionOK
<1>8. QED
  BY <1>3, <1>4, <1>5, <1>6, <1>7

(* A write adds one entry to the log, of its call. *)
LEMMA WrittenLog ==
  ASSUME TransitionOK, NEW h \in Handlers, serving[h].call \in Calls, NEW value,
         Written(h, value)
  PROVE  /\ Len(log') = Len(log) + 1
         /\ log'[Len(log')] = serving[h].call
         /\ \A v \in 1..Len(log) : log'[v] = log[v] /\ log[v] \in Calls
<1>1. PICK c \in Calls : c = serving[h].call
  OBVIOUS
<1>2. log \in Seq(Calls) /\ log' = Append(log, c)
  BY <1>1 DEF TransitionOK, Written
<1>3. Len(log') = Len(log) + 1 /\ log'[Len(log')] = c
  BY <1>2
<1>4. \A v \in 1..Len(log) : log'[v] = log[v] /\ log[v] \in Calls
  BY <1>2
<1>5. QED
  BY <1>1, <1>3, <1>4

(* What was true of images once is true of them as the log grows. *)
LEMMA ImagesLast ==
  ASSUME NEW c, NEW images, NEW d \in Calls, log \in Seq(Calls), log' = Append(log, d),
         NEW u \in 1..(Len(log) + 1), Imaged(images, c, u)
  PROVE  images = Image(c, SubSeq(log', 1, u - 1)) /\ u \in 1..(Len(log') + 1)
<1>1. Len(log) \in Nat /\ Len(log') = Len(log) + 1
  OBVIOUS
<1>2. u - 1 \in 0..Len(log)
  BY <1>1
<1>3. SubSeq(log', 1, u - 1) = SubSeq(log, 1, u - 1)
  BY <1>2, Prefixes
<1>4. images = Image(c, SubSeq(log, 1, u - 1))
  BY DEF Imaged
<1>5. images = Image(c, SubSeq(log', 1, u - 1))
  BY <1>3, <1>4, Zenon
<1>6. u \in 1..(Len(log') + 1)
  BY <1>1
<1>7. QED
  BY <1>5, <1>6, Zenon

(* A write adds a row, with the images of its own or with those a run of   *)
(* its transaction left.                                                   *)
LEMMA WrittenImages ==
  ASSUME TransitionOK, NoLostUpdate, EventImages, NEW h \in Handlers,
         serving[h] \in Invocation, Held(serving[h]), Written(h, record.value)
  PROVE  EventImages'
<1> DEFINE c == serving[h].call
           Told(v, u) == /\ rows'[v] = Image(log'[v], SubSeq(log', 1, u - 1))
                         /\ v \notin again' => u = v
<1>1. c \in Calls /\ log \in Seq(Calls) /\ log' = Append(log, c)
  BY DEF TransitionOK, Written, Invocation
<1>2. Len(log) \in Nat /\ Len(log') = Len(log) + 1 /\ log'[Len(log')] = c
  BY <1>1
<1>3. record.version = Len(log) /\ record.value = log
  BY DEF NoLostUpdate
<1>4. rows \in Seq(Images) /\ Len(rows) = Len(log) /\ rows' = Append(rows, Filled(h, log))
  BY <1>3 DEF TransitionOK, EventImages, Written
<1>5. Len(rows') = Len(log') /\ rows'[Len(log')] = Filled(h, log)
  BY <1>2, <1>4
<1>6. ASSUME NEW v \in 1..Len(log)
      PROVE  \E u \in 1..v : Told(v, u)
  <2>1. PICK u \in 1..v : Imaged(rows[v], log[v], u) /\ (v \notin again => u = v)
    BY DEF EventImages
  <2>2. rows'[v] = rows[v] /\ log'[v] = log[v]
    BY <1>1, <1>4
  <2>3. u \in 1..(Len(log) + 1)
    BY <1>2
  <2>4. rows[v] = Image(log[v], SubSeq(log', 1, u - 1))
    BY <1>1, <2>1, <2>3, ImagesLast
  <2>5. v \notin again' => v \notin again
    BY DEF Written
  <2>6. Told(v, u)
    BY <2>1, <2>2, <2>4, <2>5
  <2>7. QED
    BY <2>6
<1>7. ASSUME NEW v, v = Len(log')
      PROVE  \E u \in 1..v : Told(v, u)
  <2>1. CASE serving[h].images = Blank
    <3>1. rows'[v] = Image(c, log)
      BY <1>5, <1>7, <2>1 DEF Filled
    <3>2. v - 1 = Len(log) /\ Len(log) \in 0..Len(log) /\ v \in 1..v
      BY <1>2, <1>7
    <3>3. SubSeq(log', 1, v - 1) = log
      <4>1. SubSeq(log', 1, Len(log)) = SubSeq(log, 1, Len(log))
        BY <1>1, <3>2, Prefixes
      <4>2. QED
        BY <1>1, <3>2, <4>1, Whole
    <3>4. Told(v, v)
      BY <1>2, <1>7, <3>1, <3>3
    <3>5. QED
      BY <3>2, <3>4
  <2>2. CASE serving[h].images # Blank
    <3>1. v \in again'
      BY <1>2, <1>3, <1>7, <2>2 DEF Written
    <3>2. serving[h].pc # "idle"
      BY DEF Invocation, Steps
    <3>3. PICK u \in 1..(Len(log) + 1) : Imaged(serving[h].images, c, u)
      BY <2>2, <3>2 DEF Held
    <3>4. serving[h].images = Image(c, SubSeq(log', 1, u - 1))
      BY <1>1, <3>3, ImagesLast
    <3>5. rows'[v] = serving[h].images
      BY <1>5, <1>7, <2>2 DEF Filled
    <3>6. Told(v, u) /\ u \in 1..v
      BY <1>2, <1>7, <3>1, <3>4, <3>5
    <3>7. QED
      BY <3>6
  <2>3. QED
    BY <2>1, <2>2
<1>8. \A v \in 1..Len(log') : \E u \in 1..v : Told(v, u)
  BY <1>2, <1>6, <1>7
<1>9. QED
  BY <1>5, <1>8 DEF EventImages, Imaged

(* A write that was allowed keeps what is said of the stored records. *)
LEMMA WrittenStored ==
  ASSUME TransitionOK, StoreInv, NEW h \in Handlers, NEW c \in Calls, c = serving[h].call,
         serving[h] \in Invocation, Held(serving[h]), Writable(c), Written(h, record.value),
         UNCHANGED expired
  PROVE  StoreInv'
<1> USE CallsAssumption
<1>0. /\ Len(log) \in Nat
      /\ Len(log') = Len(log) + 1
      /\ log'[Len(log')] = c
      /\ \A v \in 1..Len(log) : log'[v] = log[v] /\ log[v] \in Calls
  <2>1. log \in Seq(Calls) /\ log' = Append(log, c)
    BY DEF TransitionOK, Written
  <2>2. QED
    BY <2>1
<1>1. NoLostUpdate'
  BY <1>0 DEF StoreInv, NoLostUpdate, Written
<1>2. EventImages'
  BY WrittenImages DEF StoreInv
<1>3. OnceExact'
  <2> SUFFICES ASSUME NEW d \in Once
               PROVE  made'[d] = expired[d] + (IF inbox'[d] # 0 THEN 1 ELSE 0)
    BY DEF OnceExact
  <2>1. d \in Calls /\ made[d] = expired[d] + (IF inbox[d] # 0 THEN 1 ELSE 0)
    BY DEF StoreInv, OnceExact
  <2>2. CASE d = c
    <3>1. inbox[d] = 0
      BY <2>2 DEF Writable, Made
    <3>2. inbox'[d] = record.version + 1 /\ record.version \in Nat
      BY <2>1, <2>2 DEF Written, TransitionOK
    <3>3. made'[d] = made[d] + 1 /\ expired[d] \in Nat
      BY <2>1, <2>2 DEF Written, TransitionOK
    <3>4. QED
      BY <2>1, <3>1, <3>2, <3>3
  <2>3. CASE d # c
    BY <2>1, <2>3 DEF Written, TransitionOK
  <2>4. QED
    BY <2>2, <2>3
<1>4. Noted'
  <2> SUFFICES ASSUME NEW d \in Calls, inbox'[d] # 0
               PROVE  inbox'[d] \in 1..Len(log') /\ log'[inbox'[d]] = d
    BY DEF Noted
  <2>1. CASE d = c /\ c \in Once
    <3>1. inbox'[d] = Len(log')
      BY <2>1, <1>0 DEF Written, TransitionOK, StoreInv, NoLostUpdate
    <3>2. QED
      BY <3>1, <2>1, <1>0
  <2>2. CASE ~(d = c /\ c \in Once)
    <3>1. inbox'[d] = inbox[d]
      BY <2>2 DEF Written, TransitionOK
    <3>2. QED
      BY <3>1, <1>0 DEF StoreInv, Noted
  <2>3. QED
    BY <2>1, <2>2
<1>5. Conditional'
  <2> SUFFICES ASSUME NEW v \in 1..Len(log')
               PROVE  Expected[log'[v]] \in {Unconditional, v - 1}
    BY DEF Conditional
  <2>1. CASE v = Len(log')
    BY <2>1, <1>0 DEF Writable, StoreInv, NoLostUpdate
  <2>2. CASE v \in 1..Len(log)
    BY <2>2, <1>0 DEF StoreInv, Conditional
  <2>3. QED
    BY <2>1, <2>2, <1>0
<1>6. Tombstone'
  <2>1. record'.deleted = (c \in Removes)
    BY DEF Written
  <2>2. Len(log') > 0
    BY <1>0
  <2>3. QED
    BY <1>0, <2>1, <2>2, Zenon DEF Tombstone
<1>7. RemovedStaysRemoved'
  <2> SUFFICES ASSUME NEW v \in 1..(Len(log') - 1), log'[v] \in Removes
               PROVE  log'[v + 1] \in Revives \cup Assigns
    BY DEF RemovedStaysRemoved
  <2>1. CASE v = Len(log)
    BY <2>1, <1>0 DEF Writable, StoreInv, Tombstone
  <2>2. CASE v \in 1..(Len(log) - 1)
    BY <2>2, <1>0 DEF StoreInv, RemovedStaysRemoved
  <2>3. QED
    BY <2>1, <2>2, <1>0
<1>8. QED
  BY <1>1, <1>2, <1>3, <1>4, <1>5, <1>6, <1>7 DEF StoreInv

(* A step that writes nothing keeps what is said of the stored records. *)
LEMMA UnwrittenStored ==
  ASSUME StoreInv, UNCHANGED stored, UNCHANGED expired
  PROVE  StoreInv'
<1> USE DEF stored
<1>1. NoLostUpdate' /\ EventImages' /\ OnceExact'
  BY DEF StoreInv, NoLostUpdate, EventImages, Imaged, OnceExact
<1>2. Noted' /\ Conditional' /\ Tombstone' /\ RemovedStaysRemoved'
  BY DEF StoreInv, Noted, Conditional, Tombstone, RemovedStaysRemoved
<1>3. QED
  BY <1>1, <1>2 DEF StoreInv

-----------------------------------------------------------------------------
(* A step of one handler leaves the others sound: what they have read is   *)
(* either still current or older than what is stored now.                  *)
Grown == \E h \in Handlers, value \in Seq(Calls) :
           serving[h].call \in Calls /\ Written(h, value)

Changed == UNCHANGED stored \/ Grown

(* A write makes the copy of another invocation stale by its version, never wrong at it. *)
LEMMA OthersStaySound ==
  ASSUME TransitionOK, Changed, NEW s \in Invocation \cup {Free}, Sound(s)
  PROVE  Sound(s)'
<1>1. CASE UNCHANGED stored
  BY <1>1 DEF stored, Sound
<1>2. CASE Grown
  <2>1. PICK h \in Handlers, value \in Seq(Calls) :
          serving[h].call \in Calls /\ Written(h, value)
    BY <1>2 DEF Grown
  <2>2. record'.version = record.version + 1 /\ record.version \in Nat
    BY <2>1 DEF Written, TransitionOK
  <2>3. CASE s = Free
    BY <2>3 DEF Sound, Free
  <2>4. CASE s \in Invocation
    BY <2>2, <2>4 DEF Sound, Invocation
  <2>5. QED
    BY <2>3, <2>4
<1>3. QED
  BY <1>1, <1>2 DEF Changed

(* What another invocation left in its row stays what it was. *)
LEMMA OthersStayHeld ==
  ASSUME TransitionOK, Changed, NEW s, Held(s)
  PROVE  Held(s)'
<1>1. CASE UNCHANGED stored
  BY <1>1 DEF stored, Held, Imaged
<1>2. CASE Grown
  <2> SUFFICES ASSUME s.pc # "idle", s.images # Blank
               PROVE  /\ s.pc \in {"assign", "made"}
                      /\ \E u \in 1..(Len(log') + 1) :
                           s.images = Image(s.call, SubSeq(log', 1, u - 1))
    BY DEF Held, Imaged
  <2>1. PICK h \in Handlers, value \in Seq(Calls) :
          serving[h].call \in Calls /\ Written(h, value)
    BY <1>2 DEF Grown
  <2>2. log \in Seq(Calls) /\ log' = Append(log, serving[h].call)
    BY <2>1 DEF TransitionOK, Written
  <2>3. PICK u \in 1..(Len(log) + 1) : Imaged(s.images, s.call, u)
    BY DEF Held
  <2>4. s.images = Image(s.call, SubSeq(log', 1, u - 1)) /\ u \in 1..(Len(log') + 1)
    BY <2>1, <2>2, <2>3, ImagesLast
  <2>5. QED
    BY <2>4 DEF Held
<1>3. QED
  BY <1>1, <1>2 DEF Changed

(* One invocation moves on and the others keep their copies. *)
LEMMA MovesOn ==
  ASSUME TransitionOK, Fresh, Filling, Changed, NEW h \in Handlers,
         NEW s \in Invocation \cup {Free},
         serving' = [serving EXCEPT ![h] = s], Sound(s)', Held(s)'
  PROVE  serving' \in [Handlers -> Invocation \cup {Free}] /\ Fresh' /\ Filling'
<1>1. serving' \in [Handlers -> Invocation \cup {Free}]
  BY DEF TransitionOK
<1>2. ASSUME NEW k \in Handlers PROVE Sound(serving[k])'
  <2>1. CASE k = h
    <3>1. serving'[k] = s
      BY <2>1 DEF TransitionOK
    <3>2. QED
      BY <3>1 DEF Sound
  <2>2. CASE k # h
    <3>1. serving'[k] = serving[k] /\ serving[k] \in Invocation \cup {Free}
      BY <2>2 DEF TransitionOK
    <3> DEFINE t == serving[k]
    <3>2. t \in Invocation \cup {Free} /\ Sound(t)
      BY <3>1 DEF Fresh
    <3>4. QED
      BY <3>1, <3>2, OthersStaySound DEF Sound
  <2>3. QED
    BY <2>1, <2>2
<1>3. ASSUME NEW k \in Handlers PROVE Held(serving[k])'
  <2>1. CASE k = h
    <3>1. serving'[k] = s
      BY <2>1 DEF TransitionOK
    <3>2. QED
      BY <3>1 DEF Held, Imaged
  <2>2. CASE k # h
    <3>1. serving'[k] = serving[k]
      BY <2>2 DEF TransitionOK
    <3>2. PICK t : t = serving[k]
      OBVIOUS
    <3>3. Held(t)
      BY <3>2 DEF Filling
    <3>4. Held(t)'
      BY <3>3, OthersStayHeld
    <3>5. QED
      BY <3>1, <3>2, <3>4 DEF Held, Imaged
  <2>3. QED
    BY <2>1, <2>2
<1>4. QED
  BY <1>1, <1>2, <1>3 DEF Fresh, Filling

(* An idle handler holds nothing to be wrong about. *)
LEMMA IdleSound == Free \in Invocation \cup {Free} /\ Sound(Free)' /\ Held(Free)'
BY DEF Free, Sound, Held

(* Replies stay true as the log grows. *)
LEMMA RepliesStayTrue ==
  ASSUME TransitionOK, Changed, ReplyIsTrue, UNCHANGED answer
  PROVE  ReplyIsTrue'
<1>1. CASE UNCHANGED stored
  BY <1>1 DEF stored, ReplyIsTrue
<1>2. CASE Grown
  <2>1. PICK h \in Handlers, value \in Seq(Calls) :
          serving[h].call \in Calls /\ Written(h, value)
    BY <1>2 DEF Grown
  <2>2. log \in Seq(Calls) /\ log' = Append(log, serving[h].call)
    BY <2>1 DEF TransitionOK, Written
  <2>3. QED
    BY <2>1, <2>2 DEF ReplyIsTrue
<1>3. QED
  BY <1>1, <1>2 DEF Changed

(* A handler that answers is idle, and the answer is what it says. *)
LEMMA Answering ==
  ASSUME TransitionOK, Fresh, Filling, Changed, NEW h \in Handlers, serving[h] # Free,
         NEW kind \in {"reply", "nothing", "refused", "failed"}, NEW at \in Nat,
         Answers(h, kind, at),
         kind = "reply" => at \in 1..Len(log') /\ log'[at] = serving[h].call
  PROVE  /\ serving' \in [Handlers -> Invocation \cup {Free}]
         /\ answer' \in Answer \cup {Silence}
         /\ HandlerInv'
<1>1. serving' \in [Handlers -> Invocation \cup {Free}] /\ Fresh' /\ Filling'
  BY MovesOn, IdleSound DEF Answers
<1>2. serving[h] \in Invocation
  BY DEF TransitionOK
<1>3. answer' = [call |-> serving[h].call, kind |-> kind, at |-> at]
  BY DEF Answers
<1>4. answer' \in Answer
  BY <1>2, <1>3 DEF Answer, Invocation
<1>5. ReplyIsTrue'
  BY <1>3 DEF ReplyIsTrue
<1>6. QED
  BY <1>1, <1>4, <1>5 DEF HandlerInv

(* A handler that goes on has said nothing. *)
LEMMA GoingOn ==
  ASSUME TransitionOK, HandlerInv, Changed, NEW h \in Handlers, NEW s \in Invocation,
         serving' = [serving EXCEPT ![h] = s], Sound(s)', Held(s)', UNCHANGED answer
  PROVE  /\ serving' \in [Handlers -> Invocation \cup {Free}]
         /\ answer' \in Answer \cup {Silence}
         /\ HandlerInv'
<1>1. serving' \in [Handlers -> Invocation \cup {Free}] /\ Fresh' /\ Filling'
  BY MovesOn DEF HandlerInv
<1>2. ReplyIsTrue'
  BY RepliesStayTrue DEF HandlerInv
<1>3. QED
  BY <1>1, <1>2 DEF HandlerInv, TransitionOK

-----------------------------------------------------------------------------
(* What is common to the steps of a handler: they leave the counters of    *)
(* arrivals and expiries alone, and either write what may be written or    *)
(* nothing.                                                                *)
Kept == UNCHANGED <<arrivals, expired>>

(* A write keeps the invariant but for the invocation that makes it. *)
LEMMA WrittenKept ==
  ASSUME IInv, NEW h \in Handlers, serving[h] \in Invocation, Writable(serving[h].call),
         Written(h, record.value), Kept
  PROVE  /\ Changed /\ StoreInv'
         /\ serving' \in [Handlers -> Invocation \cup {Free}]
              /\ answer' \in Answer \cup {Silence} => TransitionOK'
<1>1. record.value \in Seq(Calls)
  BY DEF IInv, TransitionOK
<1>2. Changed
  BY <1>1 DEF Changed, Grown, Invocation
<1>3. StoreInv'
  <2>1. serving[h].call \in Calls /\ Held(serving[h])
    BY DEF IInv, HandlerInv, Filling, Invocation
  <2>2. QED
    BY <2>1, WrittenStored DEF IInv, Kept
<1>4. ASSUME serving' \in [Handlers -> Invocation \cup {Free}],
             answer' \in Answer \cup {Silence}
      PROVE  TransitionOK'
  BY <1>1, <1>4, WrittenTypes DEF IInv, TransitionOK, Kept
<1>5. QED
  BY <1>2, <1>3, <1>4

(* A step that writes nothing keeps the invariant but for its invocation. *)
LEMMA UnwrittenKept ==
  ASSUME IInv, UNCHANGED stored, Kept
  PROVE  /\ Changed /\ StoreInv'
         /\ serving' \in [Handlers -> Invocation \cup {Free}]
              /\ answer' \in Answer \cup {Silence} => TransitionOK'
<1>1. StoreInv'
  BY UnwrittenStored DEF IInv, Kept
<1>2. ASSUME serving' \in [Handlers -> Invocation \cup {Free}],
             answer' \in Answer \cup {Silence}
      PROVE  TransitionOK'
  BY <1>2 DEF IInv, TransitionOK, Kept, stored
<1>3. QED
  BY <1>1, <1>2 DEF Changed

-----------------------------------------------------------------------------
(* One lemma for each action. *)
LEMMA ArriveStep ==
  ASSUME IInv, NEW h \in Handlers, NEW c \in Calls, Arrive(h, c)
  PROVE  IInv'
<1> DEFINE s == [pc |-> IF c \in Once THEN "recall" ELSE Process(c), call |-> c,
                 version |-> 0, value |-> <<>>, attempt |-> 0, tries |-> 0,
                 images |-> Blank]
<1>1. s \in Invocation
  <2>1. Blank \in Images
    BY DEF Blank, Images
  <2>2. QED
    BY <2>1 DEF Invocation, Process, Steps
<1>2. Sound(s)' /\ Held(s)'
  BY DEF Sound, Process, Held
<1>3. UNCHANGED stored /\ UNCHANGED <<expired, answer>>
  BY DEF Arrive, stored
<1>4. serving' = [serving EXCEPT ![h] = s]
  BY DEF Arrive
<1>5. arrivals' \in [Calls -> Nat]
  BY DEF Arrive, IInv, TransitionOK
<1> HIDE DEF s
<1>6. Changed
  BY <1>3 DEF Changed
<1>7. serving' \in [Handlers -> Invocation \cup {Free}] /\ HandlerInv'
  BY <1>1, <1>2, <1>3, <1>4, <1>6, GoingOn DEF IInv
<1>8. StoreInv'
  BY <1>3, UnwrittenStored DEF IInv
<1>9. TransitionOK'
  BY <1>3, <1>5, <1>7 DEF IInv, TransitionOK, stored
<1>10. QED
  BY <1>7, <1>8, <1>9 DEF IInv

(* A handler in a known step is in the course of an invocation. *)
LEMMA Invoked ==
  ASSUME TransitionOK, NEW h \in Handlers, NEW pc \in Steps, At(h, pc)
  PROVE  /\ serving[h] # Free /\ serving[h] \in Invocation /\ serving[h].call \in Calls
         /\ serving[h].version \in Nat /\ serving[h].value \in Seq(Calls)
<1>1. serving[h] # Free
  BY DEF At, Free, Steps
<1>2. serving[h] \in Invocation
  BY <1>1 DEF TransitionOK
<1>3. QED
  BY <1>1, <1>2 DEF Invocation

(* Steps that write nothing. *)
LEMMA AnswersOnly ==
  ASSUME IInv, NEW h \in Handlers, serving[h] # Free, UNCHANGED stored, Kept,
         NEW kind \in {"reply", "nothing", "refused", "failed"}, NEW at \in Nat,
         Answers(h, kind, at),
         kind = "reply" => at \in 1..Len(log) /\ log[at] = serving[h].call
  PROVE  IInv'
<1>1. log' = log
  BY DEF stored
<1>2. Changed /\ StoreInv'
  BY UnwrittenKept
<1>3. /\ serving' \in [Handlers -> Invocation \cup {Free}]
      /\ answer' \in Answer \cup {Silence}
      /\ HandlerInv'
  BY <1>1, <1>2, Answering DEF IInv, HandlerInv
<1>4. QED
  BY <1>2, <1>3, UnwrittenKept DEF IInv

(* A step that only moves an invocation on keeps the invariant. *)
LEMMA GoesOnly ==
  ASSUME IInv, NEW h \in Handlers, UNCHANGED stored, Kept, UNCHANGED answer,
         NEW s \in Invocation, serving' = [serving EXCEPT ![h] = s], Sound(s)', Held(s)'
  PROVE  IInv'
<1>1. Changed /\ StoreInv'
  BY UnwrittenKept
<1>2. /\ serving' \in [Handlers -> Invocation \cup {Free}]
      /\ answer' \in Answer \cup {Silence}
      /\ HandlerInv'
  BY <1>1, GoingOn DEF IInv
<1>3. QED
  BY <1>1, <1>2, UnwrittenKept DEF IInv

(* The first look at the inbox keeps the invariant. *)
LEMMA RecallStep ==
  ASSUME IInv, NEW h \in Handlers, Recall(h)
  PROVE  IInv'
<1> DEFINE c == serving[h].call
<1>1. serving[h] # Free /\ serving[h] \in Invocation /\ c \in Calls
  BY Invoked DEF IInv, Recall, Steps
<1>2. UNCHANGED stored /\ Kept
  BY DEF Recall, stored, Kept
<1>3. CASE inbox[c] # 0
  <2>1. Answers(h, "reply", inbox[c])
    BY <1>3 DEF Recall
  <2>2. inbox[c] \in Nat /\ inbox[c] \in 1..Len(log) /\ log[inbox[c]] = c
    BY <1>1, <1>3 DEF IInv, StoreInv, Noted, TransitionOK
  <2>3. QED
    BY <1>1, <1>2, <2>1, <2>2, AnswersOnly
<1>4. CASE inbox[c] = 0
  <2>1. [serving[h] EXCEPT !.pc = Process(c)] \in Invocation
    BY <1>1 DEF Invocation, Process, Steps
  <2>2. PICK s \in Invocation : s = [serving[h] EXCEPT !.pc = Process(c)]
    BY <2>1
  <2>3. s.pc = Process(c) /\ s.call = c
    BY <1>1, <2>2 DEF Invocation
  <2>4. serving' = [serving EXCEPT ![h] = s] /\ UNCHANGED answer
    BY <1>4, <2>2 DEF Recall, Goto
  <2>5. s.pc \in {"assign", "acquire"} /\ (s.pc = "assign" <=> s.call \in Assigns)
    BY <2>3 DEF Process
  <2>6. Sound(s)'
    BY <2>5 DEF Sound
  <2>7. s.images = Blank
    <3>1. s.images = serving[h].images /\ serving[h].pc = "recall"
      BY <1>1, <2>2 DEF Invocation, Recall, At
    <3>2. QED
      BY <3>1 DEF IInv, HandlerInv, Filling, Held
  <2>8. QED
    BY <1>2, <2>6, <2>7, <2>4, GoesOnly DEF Held
<1>5. QED
  BY <1>3, <1>4

(* Reading the record makes a copy that is current. *)
LEMMA AcquireStep ==
  ASSUME IInv, NEW h \in Handlers, Acquire(h)
  PROVE  IInv'
<1> DEFINE c == serving[h].call
<1>1. serving[h] # Free /\ serving[h] \in Invocation /\ c \in Calls
  BY Invoked DEF IInv, Acquire, Steps
<1>2. UNCHANGED stored /\ Kept
  BY DEF Acquire, stored, Kept
<1>3. CASE Answers(h, "refused", 0) \/ Answers(h, "nothing", 0)
  BY <1>1, <1>2, <1>3, AnswersOnly
<1>4. ASSUME Acquirable(c),
             serving' = [serving EXCEPT ![h] = [@ EXCEPT !.pc = "store",
               !.version = record.version, !.value = record.value]],
             UNCHANGED answer
      PROVE  IInv'
  <2> DEFINE read == [serving[h] EXCEPT !.pc = "store", !.version = record.version,
                                        !.value = record.value]
  <2>1. record.version \in Nat /\ record.value \in Seq(Calls) /\ record' = record
    BY <1>2 DEF IInv, TransitionOK, stored
  <2>2. read \in Invocation
    BY <1>1, <2>1 DEF Invocation, Steps
  <2>3. PICK s \in Invocation : s = read
    BY <2>2
  <2>4. serving' = [serving EXCEPT ![h] = s]
    BY <1>4, <2>3
  <2>5. s.pc = "store" /\ s.call = c /\ s.version = record.version /\ s.value = record.value
    BY <1>1, <2>3 DEF Invocation
  <2>6. c \notin Assigns
    BY DEF IInv, HandlerInv, Fresh, Sound, Acquire, At
  <2>7. record.version = 0 => ~record.deleted
    BY DEF IInv, StoreInv, NoLostUpdate, Tombstone
  <2>8. Expected[c] \in {Unconditional, record.version} /\ (record.deleted => c \in Revives)
    BY <1>4, <2>7 DEF Acquirable
  <2>9. Sound(s)'
    BY <2>1, <2>5, <2>6, <2>8 DEF Sound
  <2>10. s.images = Blank
    <3>1. s.images = serving[h].images /\ serving[h].pc = "acquire"
      BY <1>1, <2>3 DEF Invocation, Acquire, At
    <3>2. QED
      BY <3>1 DEF IInv, HandlerInv, Filling, Held
  <2>11. QED
    BY <1>2, <1>4, <2>4, <2>9, <2>10, GoesOnly DEF Held
<1>5. QED
  BY <1>3, <1>4 DEF Acquire

(* A handler about to store, or to assign, where nothing has moved, may    *)
(* write what it holds.                                                    *)
LEMMA StoreWritable ==
  ASSUME IInv, NEW h \in Handlers, At(h, "store"), ~Made(serving[h].call), Swaps(h)
  PROVE  Writable(serving[h].call) /\ serving[h].value = record.value
BY DEF IInv, HandlerInv, Fresh, Sound, At, Swaps, Writable

(* An assignment that finds its conditions met may write. *)
LEMMA AssignWritable ==
  ASSUME IInv, NEW h \in Handlers, At(h, "assign"), ~Made(serving[h].call),
         Matches(serving[h].call)
  PROVE  Writable(serving[h].call)
BY DEF IInv, HandlerInv, Fresh, Sound, At, Matches, Writable

(* A step that writes and answers, with the reply of that write or as a    *)
(* failure.                                                                *)
LEMMA WritesAndAnswers ==
  ASSUME IInv, NEW h \in Handlers, serving[h] # Free, Writable(serving[h].call),
         Written(h, record.value), Kept,
         Answers(h, "reply", record.version + 1) \/ Answers(h, "failed", 0)
  PROVE  IInv'
<1> DEFINE c == serving[h].call
<1>1. c \in Calls /\ serving[h] \in Invocation
  BY DEF IInv, TransitionOK, Invocation
<1>2. Changed /\ StoreInv'
  BY <1>1, WrittenKept
<1>3. record.version + 1 = Len(log') /\ log'[Len(log')] = c /\ Len(log') \in Nat \ {0}
  BY <1>1, WrittenLog DEF IInv, StoreInv, NoLostUpdate, TransitionOK
<1>4. /\ serving' \in [Handlers -> Invocation \cup {Free}]
      /\ answer' \in Answer \cup {Silence}
      /\ HandlerInv'
  <2>1. CASE Answers(h, "reply", record.version + 1)
    BY <1>2, <1>3, <2>1, Answering DEF IInv, HandlerInv
  <2>2. CASE Answers(h, "failed", 0)
    BY <1>2, <2>2, Answering DEF IInv, HandlerInv
  <2>3. QED
    BY <2>1, <2>2
<1>5. TransitionOK'
  BY <1>1, <1>4, WrittenKept
<1>6. QED
  BY <1>2, <1>4, <1>5 DEF IInv

(* The duplicate of a call that was made goes to recall it. *)
LEMMA GoesMade ==
  ASSUME IInv, NEW h \in Handlers, serving[h] \in Invocation, UNCHANGED stored, Kept,
         Goto(h, "made")
  PROVE  IInv'
<1>1. [serving[h] EXCEPT !.pc = "made"] \in Invocation
  BY DEF Invocation, Steps
<1>2. PICK s \in Invocation : s = [serving[h] EXCEPT !.pc = "made"]
  BY <1>1
<1>3. serving' = [serving EXCEPT ![h] = s] /\ UNCHANGED answer
  BY <1>2 DEF Goto
<1>4. Sound(s)'
  BY <1>2 DEF Sound, Invocation
<1>5. Held(s)'
  <2>1. s.pc = "made" /\ s.call = serving[h].call /\ s.images = serving[h].images
    BY <1>2 DEF Invocation
  <2>2. serving[h].pc # "idle"
    BY DEF Invocation, Steps
  <2>3. Held(s)
    BY <2>1, <2>2 DEF IInv, HandlerInv, Filling, Held
  <2>4. QED
    BY <2>3, UnwrittenKept, OthersStayHeld DEF IInv
<1>6. QED
  BY <1>3, <1>4, <1>5, GoesOnly

(* A store that meets its version, and one that does not, keep the invariant. *)
LEMMA StoreStep ==
  ASSUME IInv, NEW h \in Handlers, Store(h)
  PROVE  IInv'
<1>1. At(h, "store") /\ Kept
  BY DEF Store, Kept
<1>2. /\ serving[h] # Free /\ serving[h] \in Invocation /\ serving[h].call \in Calls
      /\ serving[h].version \in Nat
  BY <1>1, Invoked DEF IInv, Steps
<1>3. CASE Goto(h, "made") /\ UNCHANGED stored
  BY <1>1, <1>2, <1>3, GoesMade
<1>4. CASE Lost(h)
  <2>1. UNCHANGED stored
    BY <1>4 DEF Lost
  <2>2. CASE Answers(h, "failed", 0)
    BY <1>1, <1>2, <2>1, <2>2, AnswersOnly
  <2>3. CASE serving[h].call \in Retried /\ serving[h].attempt < Retries
    <3> DEFINE next == [serving[h] EXCEPT !.pc = "acquire", !.attempt = @ + 1, !.tries = 0]
    <3>1. next \in Invocation
      <4>1. serving[h].attempt + 1 \in Nat /\ 0 \in Nat /\ "acquire" \in Steps
        BY <1>2 DEF Invocation, Steps
      <4>2. QED
        BY <1>2, <4>1 DEF Invocation
    <3>2. PICK s \in Invocation : s = next
      BY <3>1
    <3>3. serving' = [serving EXCEPT ![h] = s] /\ UNCHANGED answer
      BY <1>4, <2>3, <3>2 DEF Lost, Again
    <3>4. s.pc = "acquire" /\ s.call = serving[h].call
      BY <1>2, <3>2 DEF Invocation
    <3>5. Sound(s)'
      BY <2>3, <3>4, CallsAssumption DEF Sound
    <3>6. s.images = Blank
      <4>1. s.images = serving[h].images /\ serving[h].pc = "store"
        BY <1>1, <1>2, <3>2 DEF Invocation, At
      <4>2. QED
        BY <4>1 DEF IInv, HandlerInv, Filling, Held
    <3>7. QED
      BY <1>1, <2>1, <3>3, <3>5, <3>6, GoesOnly DEF Held
  <2>4. QED
    BY <1>4, <2>2, <2>3 DEF Lost, Again
<1>5. ASSUME ~Made(serving[h].call), Swaps(h), Written(h, serving[h].value),
             Answers(h, "reply", serving[h].version + 1)
      PROVE  IInv'
  <2>1. Writable(serving[h].call) /\ serving[h].value = record.value
    BY <1>1, <1>5, StoreWritable
  <2>2. Answers(h, "reply", record.version + 1)
    BY <1>5 DEF Swaps
  <2>3. QED
    BY <1>1, <1>2, <1>5, <2>1, <2>2, WritesAndAnswers
<1>6. QED
  BY <1>3, <1>4, <1>5 DEF Store

(* An assignment keeps the invariant. *)
LEMMA AssignStep ==
  ASSUME IInv, NEW h \in Handlers, Assign(h)
  PROVE  IInv'
<1>1. At(h, "assign") /\ Kept
  BY DEF Assign, Kept
<1>2. serving[h] # Free /\ serving[h] \in Invocation /\ serving[h].call \in Calls
  BY <1>1, Invoked DEF IInv, Steps
<1>3. CASE (Answers(h, "refused", 0) \/ Answers(h, "nothing", 0)) /\ UNCHANGED stored
  BY <1>1, <1>2, <1>3, AnswersOnly
<1>4. CASE Goto(h, "made") /\ UNCHANGED stored
  BY <1>1, <1>2, <1>4, GoesMade
<1>5. ASSUME Matches(serving[h].call), ~Made(serving[h].call),
             Written(h, record.value),
             Answers(h, "reply", record.version + 1)
      PROVE  IInv'
  <2>1. Writable(serving[h].call)
    BY <1>1, <1>5, AssignWritable
  <2>2. QED
    BY <1>1, <1>2, <1>5, <2>1, WritesAndAnswers
<1>6. QED
  BY <1>3, <1>4, <1>5 DEF Assign

(* A run of an assignment that is rolled back leaves images of a write     *)
(* over what is stored now, or the ones it found.                          *)
LEMMA RerunStep ==
  ASSUME IInv, NEW h \in Handlers, Rerun(h)
  PROVE  IInv'
<1> DEFINE filled == Filled(h, record.value)
           next == [serving[h] EXCEPT !.images = filled]
<1>1. At(h, "assign") /\ Kept /\ UNCHANGED stored /\ UNCHANGED answer
  BY DEF Rerun, Kept, stored
<1>2. serving[h] # Free /\ serving[h] \in Invocation /\ serving[h].call \in Calls
  BY <1>1, Invoked DEF IInv, Steps
<1>3. record.value = log /\ log \in Seq(Calls)
  BY DEF IInv, StoreInv, NoLostUpdate, TransitionOK
<1>4. filled \in Images
  BY <1>2, <1>3 DEF Filled, Image, Images, Invocation
<1>5. next \in Invocation
  BY <1>2, <1>4 DEF Invocation
<1>6. PICK s \in Invocation : s = next
  BY <1>5
<1>7. serving' = [serving EXCEPT ![h] = s]
  BY <1>6 DEF Rerun
<1>8. /\ s.pc = "assign" /\ s.call = serving[h].call /\ s.images = filled
      /\ s.version = serving[h].version /\ s.value = serving[h].value
  BY <1>1, <1>2, <1>6 DEF Invocation, At
<1>9. Sound(s)
  BY <1>1, <1>8 DEF IInv, HandlerInv, Fresh, Sound, At
<1>10. Held(s)
  <2>1. CASE serving[h].images = Blank
    <3>1. filled = Image(serving[h].call, log)
      BY <1>3, <2>1 DEF Filled
    <3>2. Len(log) + 1 \in 1..(Len(log) + 1) /\ (Len(log) + 1) - 1 = Len(log)
      BY <1>3
    <3>3. SubSeq(log, 1, Len(log)) = log
      BY <1>3, Whole
    <3>4. Imaged(filled, serving[h].call, Len(log) + 1)
      BY <3>1, <3>2, <3>3 DEF Imaged
    <3>5. QED
      BY <1>8, <3>2, <3>4 DEF Held
  <2>2. CASE serving[h].images # Blank
    <3>1. filled = serving[h].images
      BY <2>2 DEF Filled
    <3>2. serving[h].pc = "assign" /\ Held(serving[h])
      BY <1>1 DEF IInv, HandlerInv, Filling, At
    <3>3. QED
      BY <1>8, <3>1, <3>2 DEF Held
  <2>3. QED
    BY <2>1, <2>2
<1>11. Sound(s)' /\ Held(s)'
  BY <1>1, <1>9, <1>10, UnwrittenKept, OthersStaySound, OthersStayHeld DEF IInv
<1>12. QED
  BY <1>1, <1>7, <1>11, GoesOnly

(* A duplicate answered from the inbox is answered with a write of its call. *)
LEMMA RecallMadeStep ==
  ASSUME IInv, NEW h \in Handlers, RecallMade(h)
  PROVE  IInv'
<1> DEFINE c == serving[h].call
<1>1. serving[h] # Free /\ serving[h] \in Invocation /\ c \in Calls
  BY Invoked DEF IInv, RecallMade, Steps
<1>2. UNCHANGED stored /\ Kept
  BY DEF RecallMade, stored, Kept
<1>3. CASE inbox[c] # 0
  <2>1. Answers(h, "reply", inbox[c])
    BY <1>3 DEF RecallMade
  <2>2. inbox[c] \in Nat /\ inbox[c] \in 1..Len(log) /\ log[inbox[c]] = c
    BY <1>1, <1>3 DEF IInv, StoreInv, Noted, TransitionOK
  <2>3. QED
    BY <1>1, <1>2, <2>1, <2>2, AnswersOnly
<1>4. CASE inbox[c] = 0
  <2>1. Answers(h, "failed", 0)
    BY <1>4 DEF RecallMade
  <2>2. QED
    BY <1>1, <1>2, <2>1, AnswersOnly
<1>5. QED
  BY <1>3, <1>4

(* A connection refused during a store keeps the invariant. *)
LEMMA RefusedStep ==
  ASSUME IInv, NEW h \in Handlers, Refused(h)
  PROVE  IInv'
<1>1. At(h, "store") /\ Kept
  BY DEF Refused, Kept
<1>2. serving[h] # Free /\ serving[h] \in Invocation /\ serving[h].call \in Calls
  BY <1>1, Invoked DEF IInv, Steps
<1>3. \/ UNCHANGED stored
      \/ Writable(serving[h].call) /\ Written(h, record.value)
  <2>1. CASE Swaps(h) /\ ~Made(serving[h].call) /\ Written(h, serving[h].value)
    BY <1>1, <2>1, StoreWritable
  <2>2. QED
    BY <2>1 DEF Refused, Undecided
<1>4. CASE Answers(h, "failed", 0)
  BY <1>1, <1>2, <1>3, <1>4, AnswersOnly, WritesAndAnswers
<1>5. CASE serving[h].tries < LastAttempt
  <2> DEFINE next == [serving[h] EXCEPT !.tries = @ + 1]
  <2>1. next \in Invocation
    BY <1>2 DEF Invocation
  <2>2. PICK s \in Invocation : s = next
    BY <2>1
  <2>3. serving' = [serving EXCEPT ![h] = s] /\ UNCHANGED answer
    BY <1>5, <2>2 DEF Refused
  <2>4. s.pc = serving[h].pc /\ s.call = serving[h].call
        /\ s.version = serving[h].version /\ s.value = serving[h].value
        /\ s.images = serving[h].images
    BY <1>2, <2>2 DEF Invocation
  <2>5. Sound(s) /\ Held(s)
    BY <2>4 DEF IInv, HandlerInv, Fresh, Filling, Sound, Held
  <2>6. Changed /\ StoreInv'
    BY <1>1, <1>2, <1>3, UnwrittenKept, WrittenKept
  <2>7. Sound(s)' /\ Held(s)'
    BY <2>5, <2>6, OthersStaySound, OthersStayHeld DEF IInv
  <2>8. /\ serving' \in [Handlers -> Invocation \cup {Free}]
        /\ answer' \in Answer \cup {Silence}
        /\ HandlerInv'
    BY <2>3, <2>6, <2>7, GoingOn DEF IInv
  <2>9. TransitionOK'
    BY <1>1, <1>2, <1>3, <2>8, UnwrittenKept, WrittenKept
  <2>10. QED
    BY <2>6, <2>8, <2>9 DEF IInv
<1>6. QED
  BY <1>4, <1>5 DEF Refused

(* A failure keeps the invariant. *)
LEMMA FailStep ==
  ASSUME IInv, NEW h \in Handlers, Raise(h)
  PROVE  IInv'
<1>1. serving[h] # Free /\ Kept /\ Answers(h, "failed", 0)
  BY DEF Raise, Kept
<1>2. CASE UNCHANGED stored
  BY <1>1, <1>2, AnswersOnly
<1>3. ASSUME At(h, "store"), Swaps(h), ~Made(serving[h].call),
             Written(h, serving[h].value)
      PROVE  IInv'
  BY <1>1, <1>3, StoreWritable, WritesAndAnswers
<1>4. ASSUME At(h, "assign"), Matches(serving[h].call), ~Made(serving[h].call),
             Written(h, record.value)
      PROVE  IInv'
  BY <1>1, <1>4, AssignWritable, WritesAndAnswers
<1>5. QED
  BY <1>2, <1>3, <1>4 DEF Raise, Undecided

(* A crash keeps the invariant. *)
LEMMA CrashStep ==
  ASSUME IInv, NEW h \in Handlers, Die(h)
  PROVE  IInv'
<1>1. UNCHANGED stored /\ Kept /\ UNCHANGED answer
  BY DEF Die, stored, Kept
<1>2. Changed /\ StoreInv'
  BY <1>1, UnwrittenKept
<1>3. serving' \in [Handlers -> Invocation \cup {Free}] /\ Fresh' /\ Filling'
  BY <1>2, MovesOn, IdleSound DEF Die, IInv, HandlerInv
<1>4. ReplyIsTrue'
  BY <1>1, <1>2, RepliesStayTrue DEF IInv, HandlerInv
<1>5. TransitionOK'
  BY <1>1, <1>3, UnwrittenKept DEF IInv, TransitionOK
<1>6. QED
  BY <1>2, <1>3, <1>4, <1>5 DEF IInv, HandlerInv

(* The expiry of an inbox entry keeps the invariant. *)
LEMMA ExpireStep ==
  ASSUME IInv, NEW c \in Calls, Expire(c)
  PROVE  IInv'
<1>1. UNCHANGED <<record, rows, serving, arrivals, answer, log, made, again>>
  BY DEF Expire
<1>2. /\ inbox[c] # 0 /\ inbox' = [inbox EXCEPT ![c] = 0]
      /\ expired' = [expired EXCEPT ![c] = @ + 1]
  BY DEF Expire
<1>3. TransitionOK'
  BY <1>1, <1>2 DEF IInv, TransitionOK
<1>4. NoLostUpdate' /\ EventImages' /\ Conditional' /\ Tombstone' /\ RemovedStaysRemoved'
  BY <1>1 DEF IInv, StoreInv, NoLostUpdate, EventImages, Imaged, Conditional,
              Tombstone, RemovedStaysRemoved
<1>5. Noted'
  BY <1>1, <1>2 DEF IInv, StoreInv, Noted, TransitionOK
<1>6. OnceExact'
  <2> SUFFICES ASSUME NEW d \in Once
               PROVE  made'[d] = expired'[d] + (IF inbox'[d] # 0 THEN 1 ELSE 0)
    BY DEF OnceExact
  <2>1. /\ d \in Calls /\ expired[d] \in Nat
        /\ made[d] = expired[d] + (IF inbox[d] # 0 THEN 1 ELSE 0)
    BY CallsAssumption DEF IInv, StoreInv, OnceExact, TransitionOK
  <2>2. CASE d = c
    <3>1. inbox'[d] = 0 /\ expired'[d] = expired[d] + 1
      BY <1>2, <2>1, <2>2 DEF IInv, TransitionOK
    <3>2. QED
      BY <1>1, <1>2, <2>1, <2>2, <3>1
  <2>3. CASE d # c
    <3>1. inbox'[d] = inbox[d] /\ expired'[d] = expired[d]
      BY <1>2, <2>1, <2>3 DEF IInv, TransitionOK
    <3>2. QED
      BY <1>1, <2>1, <3>1
  <2>4. QED
    BY <2>2, <2>3
<1>7. HandlerInv'
  BY <1>1 DEF IInv, HandlerInv, Fresh, Filling, Sound, Held, Imaged, ReplyIsTrue
<1>8. QED
  BY <1>3, <1>4, <1>5, <1>6, <1>7 DEF IInv, StoreInv

(* The invariant holds at the start. *)
LEMMA Initially == TransitionInit => IInv
<1> SUFFICES ASSUME TransitionInit PROVE IInv
  OBVIOUS
<1>1. TransitionOK
  BY DEF TransitionInit, TransitionOK
<1>2. NoLostUpdate /\ OnceExact /\ Noted /\ Conditional /\ Tombstone /\ RemovedStaysRemoved
  BY CallsAssumption DEF TransitionInit, NoLostUpdate, OnceExact, Noted, Conditional, Tombstone,
                         RemovedStaysRemoved
<1>3. EventImages
  BY DEF TransitionInit, EventImages
<1>4. HandlerInv
  BY DEF TransitionInit, HandlerInv, Fresh, Filling, Sound, Held, ReplyIsTrue, Free, Silence
<1>5. QED
  BY <1>1, <1>2, <1>3, <1>4 DEF IInv, StoreInv

-----------------------------------------------------------------------------
(* The invariant is kept by every step of every handler. *)
THEOREM Invariance == TransitionSpec => []IInv
<1>1. IInv /\ [TransitionNext]_transitionVars => IInv'
  <2> SUFFICES ASSUME IInv, [TransitionNext]_transitionVars PROVE IInv'
    OBVIOUS
  <2>1. CASE UNCHANGED transitionVars
    <3>1. UNCHANGED stored /\ Kept /\ UNCHANGED <<serving, answer>>
      BY <2>1 DEF transitionVars, stored, Kept
    <3>2. StoreInv'
      BY <3>1, UnwrittenKept
    <3>3. HandlerInv'
      BY <3>1 DEF IInv, HandlerInv, Fresh, Filling, Sound, Held, Imaged, ReplyIsTrue, stored
    <3>4. TransitionOK'
      BY <3>1, UnwrittenKept DEF IInv, TransitionOK
    <3>5. QED
      BY <3>2, <3>3, <3>4 DEF IInv
  <2>2. CASE TransitionNext
    BY <2>2, ArriveStep, RecallStep, AcquireStep, StoreStep, AssignStep, RerunStep,
       RecallMadeStep, RefusedStep, FailStep, CrashStep, ExpireStep DEF TransitionNext, Step
  <2>3. QED
    BY <2>1, <2>2
<1>2. QED
  BY <1>1, Initially, PTL DEF TransitionSpec

(* No committed write is lost, however handlers interleave: the compare    *)
(* and swap on VERSION suffices for every number of handlers and calls.    *)
THEOREM UpdatesAreKept == TransitionSpec => []NoLostUpdate
<1>1. IInv => NoLostUpdate
  BY DEF IInv, StoreInv
<1>2. QED
  BY <1>1, Invariance, PTL

(* There is a row for each committed write and for nothing else, and a row *)
(* tells of its own call over a state the record had: the one before its   *)
(* write, wherever the write's transaction was run once.                   *)
THEOREM RowsAreWrites == TransitionSpec => []EventImages
<1>1. IInv => EventImages
  BY DEF IInv, StoreInv
<1>2. QED
  BY <1>1, Invariance, PTL

(* A call declared `once` writes once for every time its record is kept:   *)
(* through duplicates in flight, retries and commits of unknown outcome.   *)
THEOREM OnceIsOnce == TransitionSpec => []OnceExact
<1>1. IInv => OnceExact
  BY DEF IInv, StoreInv
<1>2. QED
  BY <1>1, Invariance, PTL

(* A reply tells of a write the call made. *)
THEOREM RepliesAreTrue == TransitionSpec => []ReplyIsTrue
<1>1. IInv => ReplyIsTrue
  BY DEF IInv, HandlerInv
<1>2. QED
  BY <1>1, Invariance, PTL

(* A call conditional on a version writes over that version alone, and a   *)
(* removed record is written only by a transition that may revive it or by *)
(* an assignment, the one that removes included.                           *)
THEOREM ConditionsHold == TransitionSpec => []Permitted
<1>1. IInv => Permitted
  BY DEF IInv, StoreInv, Permitted
<1>2. QED
  BY <1>1, Invariance, PTL
=============================================================================
