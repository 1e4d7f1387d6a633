------------------------------- MODULE Journal -------------------------------
(***************************************************************************)
(* A run that resumes: extensions/continuity/source/Run.ts and Factory.ts  *)
(* over the component continuity.journal, which keeps the answer of every  *)
(* step of a run under a key derived from what the step asked.             *)
(*                                                                         *)
(* A run is a task or an event: it is delivered until an attempt of it ends*)
(* well, and may be delivered to two processes at once.  An attempt runs   *)
(* the operation from the top.  What the operation asks is given, in order;*)
(* a value answers at once and is written without waiting, a step answers  *)
(* later and is written before it is given.                                *)
(*                                                                         *)
(* All of it is within the window of the run: a record expires with it,    *)
(* and a run attempted after that starts from the beginning.               *)
(***************************************************************************)
EXTENDS Naturals, Sequences, FiniteSets

CONSTANTS Copies,     \* where attempts of the run are made
          Program,    \* what the operation asks: [kind, member, uses], where `uses`
                      \* is the earlier ask the answer of which it asks with, or 0
          Answers,    \* what may be answered
          Place,      \* Place[k]: where the record of key k is in the order of ids
          PAGE,       \* records one read brings back
          Attempts,   \* bound: attempts of the run
          Absent

Asks == 1 .. Len(Program)

\* A key: the member, what it is asked with, and how many times the attempt asked
\* exactly that before.
Keys == {Program[i].member : i \in Asks} \X (Answers \cup {Absent}) \X (0 .. Len(Program) - 1)

ASSUME JournalAssumption ==
         /\ Len(Program) \in Nat
         /\ \A i \in Asks : /\ Program[i].kind \in {"value", "step"}
                            /\ Program[i].uses \in 0 .. i - 1
                            /\ \A j \in Asks : Program[i].member = Program[j].member
                                               => Program[i].kind = Program[j].kind
         /\ Absent \notin Answers
         /\ PAGE \in Nat \ {0}
         /\ Attempts \in Nat

\* Records have ids of their own.
ASSUME PlaceAssumption ==
         /\ Place \in [Keys -> Nat]
         /\ \A k, j \in Keys : Place[k] = Place[j] => k = j

VARIABLES
  journal,   \* journal[k]: the answer kept under k, or Absent
  sent,      \* <<k, answer, n>>: writes of attempt n on their way to the journal
  attempt,   \* attempt[c]: the attempt made at c
  memory,    \* memory[c][k]: `steps` of the attempt at c
  writing,   \* writing[c]: the values taken at c that are not known to be kept
  owed,      \* whether the run is still to be delivered
  begun,     \* attempts so far
  held,      \* history: held[c], what was kept when the attempt at c began
  made,      \* history: <<i, k>>, step i was made under key k
  overlapped, \* history: whether two attempts were ever made at once
  strayed    \* history: whether a write was ever on its way when an attempt began

journalVars == <<journal, sent, attempt, memory, writing, owed, begun, held, made, overlapped, strayed>>
histories == <<held, made, overlapped, strayed>>

Nothing == [k \in Keys |-> Absent]

Resting == [at |-> "rest", no |-> 0, page |-> 0, given |-> <<>>, answer |-> Absent]

Under(c) == attempt[c].at # "rest"

\* What the operation at c asks next.
Turn(c) == Len(attempt[c].given) + 1
Asked(c) == Program[Turn(c)]

Ended(c) == Len(attempt[c].given) = Len(Program)

\* What ask i of an attempt is asked with.
With(given, i) == IF Program[i].uses = 0 THEN Absent ELSE given[Program[i].uses]

\* The key of ask i of an attempt, by what it was given before it: Run.key.
KeyOf(given, i) ==
  LET same == {j \in 1 .. i - 1 : /\ Program[j].member = Program[i].member
                                  /\ With(given, j) = With(given, i)}
  IN  <<Program[i].member, With(given, i), Cardinality(same)>>

\* The key of what is asked next.
Key(c) == KeyOf(attempt[c].given, Turn(c))

\* The operation at c is given an answer, and goes on.
Given(c, answer) == [attempt[c] EXCEPT !.at = "ask", !.given = Append(@, answer), !.answer = Absent]

-----------------------------------------------------------------------------
\* The attempt begins with nothing, and reads what the run has kept.
Deliver(c) ==
  /\ owed
  /\ ~Under(c)
  /\ begun < Attempts
  /\ begun' = begun + 1
  /\ attempt' = [attempt EXCEPT ![c] = [Resting EXCEPT !.at = "recall", !.no = begun']]
  /\ memory' = [memory EXCEPT ![c] = Nothing]
  /\ writing' = [writing EXCEPT ![c] = {}]
  /\ held' = [held EXCEPT ![c] = {k \in Keys : journal[k] # Absent}]
  /\ overlapped' = (overlapped \/ \E other \in Copies : Under(other))
  /\ strayed' = (strayed \/ sent # {})
  /\ UNCHANGED <<journal, sent, owed, made>>

\* What is kept, in the order of ids, from the place given on.
Page(omit) ==
  {k \in Keys : /\ journal[k] # Absent
                /\ Cardinality({j \in Keys : journal[j] # Absent /\ Place[j] < Place[k]})
                     \in omit .. omit + PAGE - 1}

\* Mutant: one read is taken for all there is.
RecallOnce(c) ==
  /\ attempt[c].at = "recall"
  /\ memory' = [memory EXCEPT ![c] = [k \in Keys |-> IF k \in Page(0) THEN journal[k] ELSE @[k]]]
  /\ attempt' = [attempt EXCEPT ![c].at = "ask"]
  /\ UNCHANGED <<journal, sent, writing, owed, begun, histories>>

\* One page of it: Journal.recall.
Recall(c) ==
  LET page == Page(attempt[c].page)
      last == Cardinality(page) < PAGE
  IN  /\ attempt[c].at = "recall"
      /\ memory' = [memory EXCEPT ![c] = [k \in Keys |-> IF k \in page THEN journal[k] ELSE @[k]]]
      /\ attempt' = [attempt EXCEPT ![c].at = IF last THEN "ask" ELSE @,
                                    ![c].page = IF last THEN 0 ELSE @ + PAGE]
      /\ UNCHANGED <<journal, sent, writing, owed, begun, histories>>

\* What was kept is given back.
GiveBack(c) ==
  /\ attempt[c].at = "ask"
  /\ ~Ended(c)
  /\ memory[c][Key(c)] # Absent
  /\ attempt' = [attempt EXCEPT ![c] = Given(c, memory[c][Key(c)])]
  /\ UNCHANGED <<journal, sent, memory, writing, owed, begun, histories>>

\* Run.value: taken, given, and written without waiting.
Value(c, answer) ==
  /\ attempt[c].at = "ask"
  /\ ~Ended(c)
  /\ Asked(c).kind = "value"
  /\ memory[c][Key(c)] = Absent
  /\ memory' = [memory EXCEPT ![c][Key(c)] = answer]
  /\ attempt' = [attempt EXCEPT ![c] = Given(c, answer)]
  /\ writing' = [writing EXCEPT ![c] = @ \cup {Key(c)}]
  /\ sent' = sent \cup {<<Key(c), answer, attempt[c].no>>}
  /\ UNCHANGED <<journal, owed, begun, histories>>

\* Mutant: a step is made without waiting for what is being written.
MakeAtOnce(c, answer) ==
  /\ attempt[c].at = "ask"
  /\ ~Ended(c)
  /\ Asked(c).kind = "step"
  /\ memory[c][Key(c)] = Absent
  /\ made' = made \cup {<<Turn(c), Key(c)>>}
  /\ attempt' = [attempt EXCEPT ![c].at = "record", ![c].answer = answer]
  /\ UNCHANGED <<journal, sent, memory, writing, owed, begun, held, overlapped, strayed>>

\* Run.step: what is being written is kept first, and the step is made.
Make(c, answer) ==
  /\ attempt[c].at = "ask"
  /\ ~Ended(c)
  /\ Asked(c).kind = "step"
  /\ memory[c][Key(c)] = Absent
  /\ writing[c] = {}
  /\ made' = made \cup {<<Turn(c), Key(c)>>}
  /\ attempt' = [attempt EXCEPT ![c].at = "record", ![c].answer = answer]
  /\ UNCHANGED <<journal, sent, memory, writing, owed, begun, held, overlapped, strayed>>

\* The transition of continuity.journal: an answer is kept unless there is one.
Keep(k, answer) == [journal EXCEPT ![k] = IF @ = Absent THEN answer ELSE @]

\* Mutant: the operation is given what its own attempt was answered.
RecordOwn(c) ==
  /\ attempt[c].at = "record"
  /\ journal' = Keep(Key(c), attempt[c].answer)
  /\ memory' = [memory EXCEPT ![c][Key(c)] = attempt[c].answer]
  /\ attempt' = [attempt EXCEPT ![c] = Given(c, attempt[c].answer)]
  /\ UNCHANGED <<sent, writing, owed, begun, histories>>

\* It is kept, and what is kept is given.
Record(c) ==
  /\ attempt[c].at = "record"
  /\ journal' = Keep(Key(c), attempt[c].answer)
  /\ memory' = [memory EXCEPT ![c][Key(c)] = journal'[Key(c)]]
  /\ attempt' = [attempt EXCEPT ![c] = Given(c, journal'[Key(c)])]
  /\ UNCHANGED <<sent, writing, owed, begun, histories>>

\* A value reaches the journal, whether or not the attempt that took it is still made.
Reaches(write) ==
  /\ write \in sent
  /\ sent' = sent \ {write}
  /\ journal' = Keep(write[1], write[2])
  /\ UNCHANGED <<attempt, memory, writing, owed, begun, histories>>

\* The answer to a write arrives.
Landed(c, k) ==
  /\ Under(c)
  /\ k \in writing[c]
  /\ \A write \in sent : <<write[1], write[3]>> # <<k, attempt[c].no>>
  /\ writing' = [writing EXCEPT ![c] = @ \ {k}]
  /\ UNCHANGED <<journal, sent, attempt, memory, owed, begun, histories>>

\* An attempt is over, and what it held is gone.
Over(c) ==
  /\ attempt' = [attempt EXCEPT ![c] = Resting]
  /\ memory' = [memory EXCEPT ![c] = Nothing]
  /\ writing' = [writing EXCEPT ![c] = {}]

\* A step raises, a write fails, or the process dies: what a step answered may have
\* been kept by then, what was sent may still arrive, or be lost.
Raises(c) ==
  /\ Under(c)
  /\ Over(c)
  /\ \/ UNCHANGED journal
     \/ attempt[c].at = "record" /\ journal' = Keep(Key(c), attempt[c].answer)
  /\ \/ UNCHANGED sent
     \/ sent' = {write \in sent : write[3] # attempt[c].no}
  /\ UNCHANGED <<owed, begun, histories>>

\* The operation has ended and what it took is kept: the delivery is settled, or the
\* settling of it is lost.
Finish(c) ==
  /\ attempt[c].at = "ask"
  /\ Ended(c)
  /\ writing[c] = {}
  /\ Over(c)
  /\ owed' \in {owed, FALSE}
  /\ UNCHANGED <<journal, sent, begun, histories>>

JournalInit ==
  /\ journal = Nothing
  /\ sent = {}
  /\ attempt = [c \in Copies |-> Resting]
  /\ memory = [c \in Copies |-> Nothing]
  /\ writing = [c \in Copies |-> {}]
  /\ owed = TRUE
  /\ begun = 0
  /\ held = [c \in Copies |-> {}]
  /\ made = {}
  /\ overlapped = FALSE
  /\ strayed = FALSE

JournalNext ==
  \/ \E c \in Copies : \/ Deliver(c)
                       \/ Recall(c)
                       \/ GiveBack(c)
                       \/ \E answer \in Answers : Value(c, answer) \/ Make(c, answer)
                       \/ Record(c)
                       \/ \E k \in writing[c] : Landed(c, k)
                       \/ Raises(c)
                       \/ Finish(c)
  \/ \E write \in sent : Reaches(write)

JournalSpec == JournalInit /\ [][JournalNext]_journalVars

-----------------------------------------------------------------------------
\* The types of the state: Run.ts.
JournalOK ==
  /\ journal \in [Keys -> Answers \cup {Absent}]
  /\ sent \subseteq Keys \X Answers \X (1 .. Attempts)
  /\ attempt \in [Copies -> [at : {"rest", "recall", "ask", "record"}, no : 0 .. Attempts, page : Nat,
                             given : Seq(Answers), answer : Answers \cup {Absent}]]
  /\ memory \in [Copies -> [Keys -> Answers \cup {Absent}]]
  /\ writing \in [Copies -> SUBSET Keys]
  /\ owed \in BOOLEAN
  /\ begun \in 0 .. Attempts
  /\ held \in [Copies -> SUBSET Keys]
  /\ made \subseteq Asks \X Keys
  /\ overlapped \in BOOLEAN
  /\ strayed \in BOOLEAN

OfSteps == {k \in Keys : \E i \in Asks : Program[i].member = k[1] /\ Program[i].kind = "step"}

\* Two copies of a run agree: what an attempt was given for a step is what is kept, and
\* so what every other attempt of the run is given, whichever of them made it first,
\* and however often it was made (Run.step).
CopiesAgree ==
  \A c \in Copies, k \in OfSteps : memory[c][k] # Absent => memory[c][k] = journal[k]

\* What answered is not asked again: no attempt makes a step the answer of which was
\* kept when the attempt began, however many pages it was read in and whatever was
\* written between them (Journal.recall).
NotAskedAgain ==
  \A c \in Copies : attempt[c].at = "record" => Key(c) \notin held[c]

\* Two keys of one step: what it was asked with differs, or what was asked before it.
Twice == \E step, other \in made : step[1] = other[1] /\ step[2] # other[2]

\* Attempts made one after another make each step under one identity, whatever raised
\* and wherever a process died, if none began while a write of an
\* earlier one was on its way (Run.step, Run.value).
OneIdentity == ~overlapped /\ ~strayed => ~Twice
==============================================================================
