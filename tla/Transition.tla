----------------------------- MODULE Transition -----------------------------
(***************************************************************************)
(* Calls that write one record: runtime/core transition.ts, assignment.ts, *)
(* operation.ts (once) and state.ts over storages.mongodb storage.js and   *)
(* inbox.js.                                                               *)
(*                                                                         *)
(* Handlers serve calls concurrently.  A transition reads the record, runs *)
(* its algorithm over what it read and stores the outcome by a compare and *)
(* swap on VERSION; an assignment changes the stored record in one update. *)
(* A call of an operation declared `once` is recorded in the inbox, and    *)
(* its outbox row is inserted, in the transaction that writes the record.  *)
(* A call may arrive any number of times: a redelivery, a retransmission.  *)
(*                                                                         *)
(* The value of a record is the sequence of the writes it reflects: what   *)
(* an algorithm makes of the state it was given, and nothing else, decides *)
(* what is stored.                                                         *)
(*                                                                         *)
(* The driver may run the function of a transaction again.  That of a      *)
(* transition stores what the caller built, the same each time; that of an *)
(* assignment fills its row in, and what the first run filled in stays.    *)
(***************************************************************************)
EXTENDS Naturals, Sequences, FiniteSets

CONSTANTS
  Calls,        \* identities of calls, each the call of one operation
  Handlers,     \* invocations that may be in progress at a time
  Once,         \* calls of operations declared `once`
  Retried,      \* calls of transitions declared `concurrency: retry`
  Assigns,      \* calls of assignments; the others are transitions
  Removes,      \* calls that set DELETED, `terminate` an assignment of them
  Revives,      \* transitions with `query.options.deleted`
  Refusing,     \* calls whose algorithm may return an error or DISCARD
  Expected,     \* the `query.version` of a call, or Unconditional
  Associated,   \* whether the entity is associated
  Retries,      \* RETRY.retries of transition.ts
  LastAttempt,  \* LAST_ATTEMPT of storage.js
  MaxArrivals,  \* bound: times each call arrives
  MaxExpired    \* bound: times the record of a call expires

Unconditional == 0

ASSUME CallsAssumption ==
  /\ Once \subseteq Calls /\ Retried \subseteq Calls /\ Refusing \subseteq Calls
  /\ Assigns \subseteq Calls /\ Removes \subseteq Calls /\ Revives \subseteq Calls
  /\ Assigns \cap (Retried \cup Revives) = {}
  /\ Expected \in [Calls -> Nat]
  /\ Associated \in BOOLEAN

ASSUME BoundsAssumption ==
  /\ Retries \in Nat /\ LastAttempt \in Nat
  /\ MaxArrivals \in [Calls -> Nat] /\ MaxExpired \in Nat

VARIABLES
  record,    \* the stored record; version 0 where there is none
  inbox,     \* the version a recorded call answered, or 0
  rows,      \* outbox rows, in the order of their commits: what each tells of its write
  serving,   \* what each handler is doing
  arrivals,  \* how many times a call has arrived
  expired,   \* how many times the record of a call has expired
  answer,    \* the last answer given to a caller
  log,       \* history: the calls that wrote, in the order of their writes
  made,      \* history: how many times a call wrote
  again      \* history: the writes whose transaction was run more than once

stored == <<record, inbox, rows, log, made, again>>
transitionVars == <<record, inbox, rows, serving, arrivals, expired, answer, log, made, again>>

Free == [pc |-> "idle"]

Steps == {"recall", "acquire", "store", "assign", "made"}

(* The images of an event: the state before a write and the state after it. *)
Images == [origin : Seq(Calls), state : Seq(Calls)]

Blank == [origin |-> <<>>, state |-> <<>>]

Invocation ==
  [pc : Steps, call : Calls, version : Nat, value : Seq(Calls),
   attempt : Nat, tries : Nat, images : Images]

Answer == [call : Calls, kind : {"reply", "nothing", "refused", "failed"}, at : Nat]

Silence == [kind |-> "none"]

-----------------------------------------------------------------------------
At(h, pc) == serving[h].pc = pc

(* The caller of h is answered, and h is free. *)
Answers(h, kind, at) ==
  /\ answer' = [call |-> serving[h].call, kind |-> kind, at |-> at]
  /\ serving' = [serving EXCEPT ![h] = Free]

Goto(h, pc) ==
  /\ serving' = [serving EXCEPT ![h].pc = pc]
  /\ UNCHANGED answer

(* Where an operation begins to process a call: an assignment acquires     *)
(* nothing that is stored.                                                 *)
Process(c) == IF c \in Assigns THEN "assign" ELSE "acquire"

\* mutant: a tombstone is acquired like any record
AcquirableTombstone(c) ==
  IF record.version = 0
  THEN Associated /\ Expected[c] = Unconditional
  ELSE Expected[c] \in {Unconditional, record.version}

(* What storage.get finds for the query of c, and whether the operation    *)
(* accepts it: a version in the query is a criterion of the read, a        *)
(* tombstone is acquired only where it was asked for, and an absence is a  *)
(* blank only for an associated entity looked up by its identity alone.    *)
Acquirable(c) ==
  IF record.version = 0
  THEN Associated /\ Expected[c] = Unconditional
  ELSE /\ Expected[c] \in {Unconditional, record.version}
       /\ record.deleted => c \in Revives

(* The criteria of an assignment's update.  They name no DELETED, whether  *)
(* the assignment removes or not, so a tombstone matches: one that removes *)
(* removes it again, any other revives it.                                 *)
Matches(c) == record.version # 0 /\ Expected[c] \in {Unconditional, record.version}

\* mutant: the replacement does not carry the version
SwapsAnything(h) == record.version # 0 \/ serving[h].version = 0

(* The compare and swap of `set`, and the insert of `add` for the first    *)
(* version, which fails on the key of a record that exists.                *)
Swaps(h) == record.version = serving[h].version

\* mutant: the inbox has no unique key
MadeUnseen(c) == FALSE

(* The key of the inbox is taken: the call has been made. *)
Made(c) == c \in Once /\ inbox[c] # 0

(* The images of a write of c over value. *)
Image(c, value) == [origin |-> value, state |-> Append(value, c)]

(* The images in the row of h where it writes over value: its own, unless  *)
(* a run of its transaction that was rolled back has filled the row in.    *)
Filled(h, value) ==
  IF serving[h].images = Blank THEN Image(serving[h].call, value) ELSE serving[h].images

(* Everything that one transaction of h commits for a write over value.    *)
Written(h, value) ==
  LET c == serving[h].call IN
  /\ record' = [version |-> record.version + 1,
                value   |-> Append(value, c),
                deleted |-> c \in Removes]
  /\ rows' = Append(rows, Filled(h, value))
  /\ inbox' = IF c \in Once THEN [inbox EXCEPT ![c] = record.version + 1] ELSE inbox
  /\ log' = Append(log, c)
  /\ made' = [made EXCEPT ![c] = @ + 1]
  /\ again' = IF serving[h].images = Blank THEN again ELSE again \cup {record.version + 1}

(* A lost swap: the transition is run again, after a pause, up to the      *)
(* limit; otherwise StateConcurrencyException or RetryError is raised.     *)
Again(h) ==
  LET s == serving[h] IN
  IF s.call \in Retried /\ s.attempt < Retries
  THEN /\ serving' = [serving EXCEPT ![h] =
                        [s EXCEPT !.pc = "acquire", !.attempt = @ + 1, !.tries = 0]]
       /\ UNCHANGED answer
  ELSE Answers(h, "failed", 0)

\* mutant: the row of a lost swap is left behind
LostWithRow(h) ==
  /\ Again(h)
  /\ rows' = Append(rows, Image(serving[h].call, serving[h].value))
  /\ UNCHANGED <<record, inbox, log, made, again>>

(* The transaction of a lost swap is aborted, the row and the record of    *)
(* the call with it.                                                       *)
Lost(h) == Again(h) /\ UNCHANGED stored

-----------------------------------------------------------------------------
(* A call arrives at a handler.  One of an operation declared `once` is    *)
(* looked up in the inbox before anything else.                            *)
Arrive(h, c) ==
  /\ serving[h] = Free
  /\ arrivals[c] < MaxArrivals[c]
  /\ arrivals' = [arrivals EXCEPT ![c] = @ + 1]
  /\ serving' = [serving EXCEPT ![h] =
       [pc |-> IF c \in Once THEN "recall" ELSE Process(c), call |-> c,
        version |-> 0, value |-> <<>>, attempt |-> 0, tries |-> 0,
        images |-> Blank]]
  /\ UNCHANGED <<record, inbox, rows, expired, answer, log, made, again>>

(* A call that has been made is answered with the reply recorded for it.   *)
Recall(h) ==
  LET c == serving[h].call IN
  /\ At(h, "recall")
  /\ IF inbox[c] # 0 THEN Answers(h, "reply", inbox[c]) ELSE Goto(h, Process(c))
  /\ UNCHANGED <<record, inbox, rows, arrivals, expired, log, made, again>>

(* A transition reads the record and runs its algorithm over what it read. *)
(* StateNotFoundException or StatePreconditionException where there is     *)
(* none to run over; nothing is written where the algorithm returned an    *)
(* error or discarded the state.                                           *)
Acquire(h) ==
  LET c == serving[h].call IN
  /\ At(h, "acquire")
  /\ \/ /\ ~Acquirable(c)
        /\ Answers(h, "refused", 0)
     \/ /\ Acquirable(c)
        /\ c \in Refusing
        /\ Answers(h, "nothing", 0)
     \/ /\ Acquirable(c)
        /\ serving' = [serving EXCEPT ![h] =
             [@ EXCEPT !.pc = "store", !.version = record.version, !.value = record.value]]
        /\ UNCHANGED answer
  /\ UNCHANGED <<record, inbox, rows, arrivals, expired, log, made, again>>

(* The transaction of a transition: the record of the call first, then the *)
(* swap, then the row.                                                     *)
Store(h) ==
  LET s == serving[h] IN
  /\ At(h, "store")
  /\ \/ /\ Made(s.call)
        /\ Goto(h, "made")
        /\ UNCHANGED stored
     \/ /\ ~Made(s.call) /\ ~Swaps(h)
        /\ Lost(h)
     \/ /\ ~Made(s.call) /\ Swaps(h)
        /\ Written(h, s.value)
        /\ Answers(h, "reply", s.version + 1)
  /\ UNCHANGED <<arrivals, expired>>

(* The transaction of an assignment whose algorithm returned no error: the *)
(* update first, so that one that matches nothing is refused before the    *)
(* inbox is asked.                                                         *)
Assign(h) ==
  LET c == serving[h].call IN
  /\ At(h, "assign")
  /\ \/ /\ c \in Refusing /\ serving[h].images = Blank
        /\ Answers(h, "nothing", 0)
        /\ UNCHANGED stored
     \/ /\ ~Matches(c)
        /\ Answers(h, "refused", 0)
        /\ UNCHANGED stored
     \/ /\ Matches(c) /\ Made(c)
        /\ Goto(h, "made")
        /\ UNCHANGED stored
     \/ /\ Matches(c) /\ ~Made(c)
        /\ Written(h, record.value)
        /\ Answers(h, "reply", record.version + 1)
  /\ UNCHANGED <<arrivals, expired>>

(* A run of an assignment's transaction is rolled back after the update    *)
(* was made in it, and the driver runs it again: what it filled in the row *)
(* with is left there.                                                     *)
Rerun(h) ==
  /\ At(h, "assign")
  /\ Matches(serving[h].call)
  /\ serving' = [serving EXCEPT ![h].images = Filled(h, record.value)]
  /\ UNCHANGED <<record, inbox, rows, arrivals, expired, answer, log, made, again>>

\* mutant: the duplicate that lost is answered with what its own run made
AnswersItself(h) ==
  LET s == serving[h] IN
  /\ At(h, "made")
  /\ Answers(h, "reply", s.version + 1)
  /\ UNCHANGED <<record, inbox, rows, arrivals, expired, log, made, again>>

(* A call that lost to its duplicate is answered with the reply of the     *)
(* other, or fails where the record of that has expired since.             *)
RecallMade(h) ==
  LET c == serving[h].call IN
  /\ At(h, "made")
  /\ IF inbox[c] # 0 THEN Answers(h, "reply", inbox[c]) ELSE Answers(h, "failed", 0)
  /\ UNCHANGED <<record, inbox, rows, arrivals, expired, log, made, again>>

(* A transaction ends without an answer, and has or has not committed.     *)
Undecided(h, possible, value) ==
  \/ possible /\ ~Made(serving[h].call) /\ Written(h, value)
  \/ UNCHANGED stored

\* mutant: the count of attempts starts again
RefusedForever(h) ==
  LET s == serving[h] IN
  /\ At(h, "store")
  /\ Undecided(h, Swaps(h), s.value)
  /\ serving' = [serving EXCEPT ![h].tries = IF @ < LastAttempt THEN @ + 1 ELSE 0]
  /\ UNCHANGED <<answer, arrivals, expired>>

(* The connection is refused during a transition's transaction: the store  *)
(* is attempted again with the same entity, up to the limit.               *)
Refused(h) ==
  LET s == serving[h] IN
  /\ At(h, "store")
  /\ Undecided(h, Swaps(h), s.value)
  /\ IF s.tries < LastAttempt
     THEN /\ serving' = [serving EXCEPT ![h].tries = @ + 1]
          /\ UNCHANGED answer
     ELSE Answers(h, "failed", 0)
  /\ UNCHANGED <<arrivals, expired>>

(* Any other error of the driver is raised: of a transaction, which may    *)
(* have been committed, or of a read.                                      *)
Raise(h) ==
  LET s == serving[h] IN
  /\ serving[h] # Free
  /\ CASE At(h, "store") -> Undecided(h, Swaps(h), s.value)
       [] At(h, "assign") -> Undecided(h, Matches(s.call), record.value)
       [] OTHER -> UNCHANGED stored
  /\ Answers(h, "failed", 0)
  /\ UNCHANGED <<arrivals, expired>>

(* The process of a handler ends.  Its call is answered nowhere. *)
Die(h) ==
  /\ serving[h] # Free
  /\ serving' = [serving EXCEPT ![h] = Free]
  /\ UNCHANGED <<record, inbox, rows, arrivals, expired, answer, log, made, again>>

(* The TTL index removes the record of a call. *)
Expire(c) ==
  /\ inbox[c] # 0
  /\ expired[c] < MaxExpired
  /\ inbox' = [inbox EXCEPT ![c] = 0]
  /\ expired' = [expired EXCEPT ![c] = @ + 1]
  /\ UNCHANGED <<record, rows, serving, arrivals, answer, log, made, again>>

TransitionInit ==
  /\ record = [version |-> 0, value |-> <<>>, deleted |-> FALSE]
  /\ inbox = [c \in Calls |-> 0]
  /\ rows = <<>>
  /\ serving = [h \in Handlers |-> Free]
  /\ arrivals = [c \in Calls |-> 0]
  /\ expired = [c \in Calls |-> 0]
  /\ answer = Silence
  /\ log = <<>>
  /\ made = [c \in Calls |-> 0]
  /\ again = {}

Step(h) ==
  \/ Recall(h) \/ Acquire(h) \/ Store(h) \/ Assign(h) \/ Rerun(h) \/ RecallMade(h)
  \/ Refused(h) \/ Raise(h)

TransitionNext ==
  \/ \E h \in Handlers : Step(h) \/ Die(h) \/ \E c \in Calls : Arrive(h, c)
  \/ \E c \in Calls : Expire(c)

TransitionSpec == TransitionInit /\ [][TransitionNext]_transitionVars

(* A process runs on: what a handler has begun it goes on with. *)
TransitionFairness == \A h \in Handlers : WF_transitionVars(Step(h))

-----------------------------------------------------------------------------
(* The variables have their types. *)
TransitionOK ==
  /\ record \in [version : Nat, value : Seq(Calls), deleted : BOOLEAN]
  /\ inbox \in [Calls -> Nat]
  /\ rows \in Seq(Images)
  /\ serving \in [Handlers -> Invocation \cup {Free}]
  /\ arrivals \in [Calls -> Nat]
  /\ expired \in [Calls -> Nat]
  /\ answer \in Answer \cup {Silence}
  /\ log \in Seq(Calls)
  /\ made \in [Calls -> Nat]
  /\ again \subseteq Nat

-----------------------------------------------------------------------------
(* What makes the properties below inductive. *)

(* An invocation about to store holds a version that was current and,      *)
(* while it still is, the value of it, read under the conditions of its    *)
(* call.                                                                   *)
Sound(s) ==
  /\ s.pc = "assign" => s.call \in Assigns
  /\ s.pc = "acquire" => s.call \notin Assigns
  /\ s.pc = "store" =>
       /\ s.call \notin Assigns
       /\ s.version <= record.version
       /\ s.version = record.version =>
            /\ s.value = record.value
            /\ Expected[s.call] \in {Unconditional, s.version}
            /\ record.deleted => s.call \in Revives

(* The images are those of a write of c over a state the record has had,   *)
(* the first u - 1 writes of it.                                           *)
Imaged(images, c, u) == images = Image(c, SubSeq(log, 1, u - 1))

(* What an invocation holds for its row is that, whatever was written since. *)
Held(s) ==
  s.pc # "idle" /\ s.images # Blank =>
    /\ s.pc \in {"assign", "made"}
    /\ \E u \in 1..(Len(log) + 1) : Imaged(s.images, s.call, u)

Fresh == \A h \in Handlers : Sound(serving[h])

Filling == \A h \in Handlers : Held(serving[h])

(* A call is recorded at a write it made. *)
Noted ==
  \A c \in Calls : inbox[c] # 0 => inbox[c] \in 1..Len(log) /\ log[inbox[c]] = c

(* The record is a tombstone after a removal, and only then. *)
Tombstone == record.deleted <=> Len(log) > 0 /\ log[Len(log)] \in Removes

-----------------------------------------------------------------------------
(* No write is lost: the record reflects every write that was committed,   *)
(* in their order, whatever the handlers had read when they stored.        *)
NoLostUpdate == record.value = log /\ record.version = Len(log)

(* The outbox holds one row for each committed write and none for a write  *)
(* that was aborted.  A row tells of the call that made its write, over a  *)
(* state the record had: the state the write before it left, so that the   *)
(* events of a record form one chain, unless the write's transaction was   *)
(* run more than once, and then maybe an earlier one.                      *)
EventImages ==
  /\ Len(rows) = Len(log)
  /\ \A v \in 1..Len(log) :
       \E u \in 1..v : Imaged(rows[v], log[v], u) /\ (v \notin again => u = v)

(* The images of an event are the write's own, however often its           *)
(* transaction was run: a run that was rolled back leaves nothing behind.  *)
OwnImages == \A v \in 1..Len(log) : Imaged(rows[v], log[v], v)

(* A call of an operation declared `once` changes state once, however      *)
(* often it arrives, is stored again after a commit whose outcome was not  *)
(* heard, or runs beside its duplicates; again only after its record       *)
(* expired.                                                                *)
OnceExact ==
  \A c \in Once : made[c] = expired[c] + (IF inbox[c] # 0 THEN 1 ELSE 0)

(* A caller that is given a reply is given that of a write its call made,  *)
(* even where the handler that answers made none.                          *)
ReplyIsTrue ==
  answer.kind = "reply" => answer.at \in 1..Len(log) /\ log[answer.at] = answer.call

(* A call that names a version writes over that version and no other. *)
Conditional ==
  \A v \in 1..Len(log) : Expected[log[v]] \in {Unconditional, v - 1}

(* What was removed is written again only by what may revive it. *)
RemovedStaysRemoved ==
  \A v \in 1..(Len(log) - 1) : log[v] \in Removes => log[v + 1] \in Revives \cup Assigns

(* What a write finds is what its call allows: the version it names, and  *)
(* no tombstone it may not revive, whatever its retries were made over.    *)
Permitted == Conditional /\ RemovedStaysRemoved

(* A call that is served comes to an end: neither a record others keep     *)
(* changing nor a storage that refuses connections holds it for ever.      *)
Ends == \A h \in Handlers : serving[h] # Free ~> serving[h] = Free
=============================================================================
