--------------------------- MODULE JournalProofs -----------------------------
(***************************************************************************)
(* Journal for any copies, program, answers, page and number of attempts.  *)
(***************************************************************************)
EXTENDS Journal, FiniteSetTheorems, WellFoundedInduction, TLAPS

AnswersOrNot == Answers \cup {Absent}

AttemptRecords ==
  [at : {"rest", "recall", "ask", "record"}, no : 0 .. Attempts, page : Nat,
   given : Seq(Answers), answer : AnswersOrNot]

(* An attempt is given no more than the operation asks. *)
Within ==
  \A c \in Copies : /\ Len(attempt[c].given) <= Len(Program)
                    /\ attempt[c].at = "record" => /\ Len(attempt[c].given) < Len(Program)
                                                   /\ attempt[c].answer \in Answers

(* Attempts that are under way have numbers of their own. *)
Numbered ==
  \A c \in Copies : Under(c) =>
    /\ attempt[c].no \in 1 .. begun
    /\ \A d \in Copies : Under(d) /\ attempt[c].no = attempt[d].no => c = d

(* What is being written is on its way, or something is kept for it. *)
OnItsWay ==
  \A c \in Copies : Under(c) => \A k \in writing[c] :
    journal[k] # Absent \/ \E answer : <<k, answer, attempt[c].no>> \in sent

(* What an attempt holds for a value is kept, or is being written, and     *)
(* nothing is being written while a step is made.                          *)
Noted ==
  \A c \in Copies : Under(c) =>
    /\ \A k \in Keys \ OfSteps : memory[c][k] # Absent => journal[k] # Absent \/ k \in writing[c]
    /\ attempt[c].at = "record" => writing[c] = {}

(* A step is made with nothing a later attempt could not be given: by then *)
(* something is kept for every value its attempt has taken (Run.settle).   *)
KeptBeforeUsed ==
  \A c \in Copies : attempt[c].at = "record" =>
    \A k \in Keys \ OfSteps : memory[c][k] # Absent => journal[k] # Absent

(* The inductive invariant. *)
IInv == JournalOK /\ Within /\ Numbered /\ OnItsWay /\ Noted /\ CopiesAgree

-----------------------------------------------------------------------------
(* The invariant holds at the start. *)
LEMMA Initially == JournalInit => IInv
<1> SUFFICES ASSUME JournalInit PROVE IInv
  OBVIOUS
<1> USE JournalAssumption
<1>1. Resting \in AttemptRecords /\ Resting.at = "rest" /\ Resting.given = <<>>
  BY DEF Resting, AttemptRecords, AnswersOrNot
<1>2. \A c \in Copies : attempt[c] = Resting
  BY DEF JournalInit
<1>3. JournalOK
  <2>1. Nothing \in [Keys -> AnswersOrNot]
    BY DEF Nothing, AnswersOrNot
  <2>2. /\ journal \in [Keys -> AnswersOrNot]
        /\ attempt \in [Copies -> AttemptRecords]
        /\ memory \in [Copies -> [Keys -> AnswersOrNot]]
    BY <1>1, <2>1 DEF JournalInit
  <2>3. /\ sent \subseteq Keys \X Answers \X (1 .. Attempts)
        /\ begun \in 0 .. Attempts
        /\ held \in [Copies -> SUBSET Keys] /\ writing \in [Copies -> SUBSET Keys]
        /\ made \subseteq Asks \X Keys
    BY DEF JournalInit
  <2>4. owed \in BOOLEAN /\ overlapped \in BOOLEAN /\ strayed \in BOOLEAN
    BY DEF JournalInit
  <2>5. QED
    BY <2>2, <2>3, <2>4 DEF JournalOK, AttemptRecords, AnswersOrNot
<1>4. Within /\ Numbered /\ OnItsWay /\ Noted
  BY <1>1, <1>2 DEF Within, Numbered, OnItsWay, Noted, Under
<1>5. CopiesAgree
  BY DEF JournalInit, CopiesAgree, Nothing, OfSteps
<1>6. QED
  BY <1>3, <1>4, <1>5 DEF IInv

(* The types of the state, by the names they have here. *)
LEMMA Types ==
  ASSUME IInv
  PROVE  /\ journal \in [Keys -> AnswersOrNot]
         /\ attempt \in [Copies -> AttemptRecords]
         /\ memory \in [Copies -> [Keys -> AnswersOrNot]]
         /\ writing \in [Copies -> SUBSET Keys]
         /\ sent \subseteq Keys \X Answers \X (1 .. Attempts)
BY DEF IInv, JournalOK, AttemptRecords, AnswersOrNot

(* As many numbers as are counted. *)
LEMMA Counted == ASSUME NEW n \in Nat PROVE IsFiniteSet(1 .. n) /\ Cardinality(1 .. n) = n
<1>1. 1 \in Int /\ n \in Int
  OBVIOUS
<1>2. IsFiniteSet(1 .. n) /\ Cardinality(1 .. n) = IF 1 > n THEN 0 ELSE n - 1 + 1
  BY <1>1, FS_Interval, Zenon
<1>3. QED
  BY <1>2

(* An ask has a key, of a step exactly where a step is asked. *)
LEMMA KeyOfType ==
  ASSUME NEW given \in Seq(Answers), NEW i \in Asks, i <= Len(given) + 1
  PROVE  /\ KeyOf(given, i) \in Keys
         /\ KeyOf(given, i)[1] = Program[i].member
         /\ Program[i].kind = "value" => KeyOf(given, i) \notin OfSteps
<1> USE JournalAssumption
<1>1. i \in 1 .. Len(Program) /\ Len(given) \in Nat
  BY DEF Asks
<1>2. With(given, i) \in AnswersOrNot
  <2>1. Program[i].uses \in 0 .. Len(given)
    BY <1>1
  <2>2. QED
    BY <2>1 DEF With, AnswersOrNot
<1>3. PICK same : same = {j \in 1 .. i - 1 : /\ Program[j].member = Program[i].member
                                             /\ With(given, j) = With(given, i)}
  OBVIOUS
<1>4. Cardinality(same) \in 0 .. Len(Program) - 1
  <2>1. PICK n \in Nat : n = i - 1
    BY <1>1
  <2>2. IsFiniteSet(1 .. n) /\ Cardinality(1 .. n) = n
    BY Counted
  <2>3. same \subseteq 1 .. n
    BY <1>3, <2>1
  <2>4. IsFiniteSet(same) /\ Cardinality(same) <= n
    BY <2>2, <2>3, FS_Subset
  <2>5. Cardinality(same) \in Nat
    BY <2>4, FS_CardinalityType
  <2>6. QED
    BY <1>1, <2>1, <2>4, <2>5
<1>5. KeyOf(given, i) = <<Program[i].member, With(given, i), Cardinality(same)>>
  BY <1>3 DEF KeyOf
<1>6. KeyOf(given, i) \in Keys
  BY <1>2, <1>4, <1>5 DEF Keys, AnswersOrNot
<1>7. KeyOf(given, i)[1] = Program[i].member
  BY <1>5
<1>8. ASSUME Program[i].kind = "value" PROVE KeyOf(given, i) \notin OfSteps
  BY <1>7, <1>8 DEF OfSteps
<1>9. QED
  BY <1>6, <1>7, <1>8

(* What is asked next has a key. *)
LEMMA KeyType ==
  ASSUME IInv, NEW c \in Copies, Len(attempt[c].given) < Len(Program)
  PROVE  /\ Key(c) \in Keys /\ Turn(c) \in Asks
         /\ Asked(c).kind = "value" => Key(c) \notin OfSteps
<1>1. PICK given \in Seq(Answers) : given = attempt[c].given
  BY Types DEF AttemptRecords
<1>2. Turn(c) \in Asks /\ Turn(c) <= Len(given) + 1
  BY <1>1, JournalAssumption DEF Asks, Turn
<1>3. QED
  BY <1>1, <1>2, KeyOfType DEF Key, Asked

(* An answer is kept unless there is one. *)
LEMMA KeepStep ==
  ASSUME IInv, NEW k \in Keys, NEW answer \in AnswersOrNot, journal' = Keep(k, answer)
  PROVE  /\ journal' \in [Keys -> AnswersOrNot]
         /\ \A j \in Keys : journal[j] # Absent => journal'[j] = journal[j]
         /\ answer # Absent => journal'[k] # Absent
BY Types DEF Keep

(* A step of one copy: what it has to keep so that the others do not care. *)
LEMMA CopyStep ==
  ASSUME IInv, NEW c \in Copies, NEW a \in AttemptRecords, NEW mem \in [Keys -> AnswersOrNot],
         NEW wr \in SUBSET Keys,
         attempt' = [attempt EXCEPT ![c] = a], memory' = [memory EXCEPT ![c] = mem],
         writing' = [writing EXCEPT ![c] = wr],
         journal' \in [Keys -> AnswersOrNot],
         \A j \in Keys : journal[j] # Absent => journal'[j] = journal[j],
         sent' \subseteq Keys \X Answers \X (1 .. Attempts),
         \A w \in sent : w \in sent' \/ (Under(c) /\ w[3] = attempt[c].no),
         owed' \in BOOLEAN, begun' \in 0 .. Attempts, begun <= begun',
         held' \in [Copies -> SUBSET Keys], made' \subseteq Asks \X Keys,
         overlapped' \in BOOLEAN, strayed' \in BOOLEAN,
         Len(a.given) <= Len(Program),
         a.at = "record" => Len(a.given) < Len(Program) /\ a.answer \in Answers /\ wr = {},
         a.at # "rest" => \/ Under(c) /\ a.no = attempt[c].no
                          \/ begun' = begun + 1 /\ a.no = begun',
         a.at # "rest" => \A k \in wr : journal'[k] # Absent \/ \E answer : <<k, answer, a.no>> \in sent',
         a.at # "rest" => \A k \in Keys \ OfSteps : mem[k] # Absent => journal'[k] # Absent \/ k \in wr,
         \A k \in OfSteps : mem[k] # Absent => mem[k] = journal'[k]
  PROVE  IInv'
<1> USE JournalAssumption
<1>1. /\ attempt' \in [Copies -> AttemptRecords] /\ attempt'[c] = a
      /\ \A d \in Copies \ {c} : attempt'[d] = attempt[d]
  BY Types
<1>2. /\ memory' \in [Copies -> [Keys -> AnswersOrNot]] /\ memory'[c] = mem
      /\ \A d \in Copies \ {c} : memory'[d] = memory[d]
  BY Types
<1>3. /\ writing' \in [Copies -> SUBSET Keys] /\ writing'[c] = wr
      /\ \A d \in Copies \ {c} : writing'[d] = writing[d]
  BY Types
<1>4. JournalOK'
  BY <1>1, <1>2, <1>3 DEF JournalOK, AttemptRecords, AnswersOrNot
<1>5. Within'
  BY <1>1 DEF Within, IInv
<1>6. Numbered'
  <2>1. begun \in Nat /\ begun' \in Nat
    BY DEF IInv, JournalOK
  <2>2. ASSUME NEW d \in Copies, Under(d) PROVE attempt[d].no \in Nat /\ attempt[d].no <= begun /\ attempt[d].no >= 1
    BY <2>1, <2>2 DEF IInv, Numbered
  <2>3. ASSUME NEW d \in Copies, Under(d)' PROVE attempt'[d].no \in 1 .. begun'
    BY <1>1, <2>1, <2>2, <2>3 DEF Under
  <2>4. ASSUME NEW d \in Copies, NEW e \in Copies, Under(d)', Under(e)', attempt'[d].no = attempt'[e].no PROVE d = e
    <3>1. CASE d # c /\ e # c
      BY <1>1, <2>4, <3>1 DEF IInv, Numbered, Under
    <3>2. CASE d = c /\ e # c
      BY <1>1, <2>1, <2>2, <2>4, <3>2 DEF IInv, Numbered, Under
    <3>3. CASE d # c /\ e = c
      BY <1>1, <2>1, <2>2, <2>4, <3>3 DEF IInv, Numbered, Under
    <3>4. QED
      BY <3>1, <3>2, <3>3
  <2>5. QED
    BY <2>3, <2>4 DEF Numbered
<1>7. OnItsWay'
  <2> SUFFICES ASSUME NEW d \in Copies, Under(d)', NEW k \in writing'[d]
               PROVE  journal'[k] # Absent \/ \E answer : <<k, answer, attempt'[d].no>> \in sent'
    BY DEF OnItsWay
  <2>1. CASE d = c
    BY <1>1, <1>3, <2>1 DEF Under
  <2>2. CASE d # c
    <3>1. Under(d) /\ k \in writing[d] /\ attempt'[d] = attempt[d] /\ k \in Keys
      BY <1>1, <1>3, <2>2, Types DEF Under
    <3>2. CASE journal[k] # Absent
      BY <3>1, <3>2
    <3>3. CASE journal[k] = Absent
      <4>1. PICK answer : <<k, answer, attempt[d].no>> \in sent
        BY <3>1, <3>3 DEF IInv, OnItsWay
      <4>2. ~(Under(c) /\ attempt[d].no = attempt[c].no)
        BY <2>2, <3>1 DEF IInv, Numbered
      <4>3. <<k, answer, attempt[d].no>> \in sent'
        BY <4>1, <4>2
      <4>4. QED
        BY <3>1, <4>3
    <3>4. QED
      BY <3>2, <3>3
  <2>3. QED
    BY <2>1, <2>2
<1>8. Noted'
  <2> SUFFICES ASSUME NEW d \in Copies, Under(d)'
               PROVE  /\ \A k \in Keys \ OfSteps : memory'[d][k] # Absent => journal'[k] # Absent \/ k \in writing'[d]
                      /\ attempt'[d].at = "record" => writing'[d] = {}
    BY DEF Noted
  <2>1. CASE d = c
    BY <1>1, <1>2, <1>3, <2>1 DEF Under
  <2>2. CASE d # c
    BY <1>1, <1>2, <1>3, <2>2 DEF Under, IInv, Noted
  <2>3. QED
    BY <2>1, <2>2
<1>9. CopiesAgree'
  <2>1. OfSteps \subseteq Keys
    BY DEF OfSteps
  <2>2. QED
    BY <1>2, <2>1 DEF CopiesAgree, IInv
<1>10. QED
  BY <1>4, <1>5, <1>6, <1>7, <1>8, <1>9 DEF IInv

(* An operation that is given an answer goes on. *)
LEMMA GivenType ==
  ASSUME IInv, NEW c \in Copies, NEW answer \in Answers, Len(attempt[c].given) < Len(Program)
  PROVE  /\ Given(c, answer) \in AttemptRecords
         /\ Given(c, answer).at = "ask" /\ Given(c, answer).no = attempt[c].no
         /\ Len(Given(c, answer).given) <= Len(Program)
<1> USE JournalAssumption
<1>1. PICK a \in AttemptRecords : a = attempt[c]
  BY Types
<1>2. a.given \in Seq(Answers)
  BY DEF AttemptRecords
<1>3. PICK given \in Seq(Answers) : given = Append(a.given, answer) /\ Len(given) = Len(a.given) + 1
  <2>1. Append(a.given, answer) \in Seq(Answers)
    BY <1>2
  <2>2. Len(Append(a.given, answer)) = Len(a.given) + 1
    BY <1>2
  <2>3. QED
    BY <2>1, <2>2
<1>4. PICK b : b = [a EXCEPT !.at = "ask", !.given = given, !.answer = Absent]
  OBVIOUS
<1>5. b \in AttemptRecords /\ b.at = "ask" /\ b.no = a.no /\ b.given = given
  BY <1>3, <1>4 DEF AttemptRecords, AnswersOrNot
<1>6. Given(c, answer) = b
  BY <1>1, <1>3, <1>4 DEF Given
<1>7. Len(a.given) \in Nat
  BY <1>2
<1>8. QED
  BY <1>1, <1>3, <1>5, <1>6, <1>7

(* What the histories are, where a step leaves them alone. *)
LEMMA HistoryTypes ==
  ASSUME IInv
  PROVE  /\ owed \in BOOLEAN /\ begun \in 0 .. Attempts /\ begun \in Nat
         /\ held \in [Copies -> SUBSET Keys] /\ made \subseteq Asks \X Keys
         /\ overlapped \in BOOLEAN /\ strayed \in BOOLEAN
BY JournalAssumption DEF IInv, JournalOK

(* A step of one copy that leaves the journal, what is sent and the rest   *)
(* alone, and what the attempt holds too.                                  *)
LEMMA OwnStep ==
  ASSUME IInv, NEW c \in Copies, NEW a \in AttemptRecords, attempt' = [attempt EXCEPT ![c] = a],
         Under(c), a.no = attempt[c].no, a.at # "rest", Len(a.given) <= Len(Program),
         a.at = "record" => Len(a.given) < Len(Program) /\ a.answer \in Answers /\ writing[c] = {},
         made' \subseteq Asks \X Keys,
         UNCHANGED <<journal, sent, memory, writing, owed, begun, held, overlapped, strayed>>
  PROVE  IInv'
<1>1. PICK mem \in [Keys -> AnswersOrNot] : mem = memory[c]
  BY Types
<1>2. PICK wr \in SUBSET Keys : wr = writing[c]
  BY Types
<1>3. memory' = [memory EXCEPT ![c] = mem] /\ writing' = [writing EXCEPT ![c] = wr]
  BY <1>1, <1>2, Types
<1>4. /\ \A k \in wr : journal'[k] # Absent \/ \E answer : <<k, answer, a.no>> \in sent'
      /\ \A k \in Keys \ OfSteps : mem[k] # Absent => journal'[k] # Absent \/ k \in wr
      /\ \A k \in OfSteps : mem[k] # Absent => mem[k] = journal'[k]
  BY <1>1, <1>2 DEF IInv, OnItsWay, Noted, CopiesAgree
<1>5. /\ journal' \in [Keys -> AnswersOrNot] /\ \A j \in Keys : journal[j] # Absent => journal'[j] = journal[j]
      /\ sent' \subseteq Keys \X Answers \X (1 .. Attempts)
      /\ \A w \in sent : w \in sent' \/ (Under(c) /\ w[3] = attempt[c].no)
  BY Types
<1>6. /\ owed' \in BOOLEAN /\ begun' \in 0 .. Attempts /\ begun <= begun'
      /\ held' \in [Copies -> SUBSET Keys] /\ overlapped' \in BOOLEAN /\ strayed' \in BOOLEAN
  BY HistoryTypes
<1>7. /\ a.at = "record" => Len(a.given) < Len(Program) /\ a.answer \in Answers /\ wr = {}
      /\ a.at # "rest" => \/ Under(c) /\ a.no = attempt[c].no
                          \/ begun' = begun + 1 /\ a.no = begun'
  BY <1>2
<1>8. QED
  BY <1>3, <1>4, <1>5, <1>6, <1>7, CopyStep

(* What was kept is given back. *)
LEMMA GiveBackStep == ASSUME IInv, NEW c \in Copies, GiveBack(c) PROVE IInv'
<1> USE JournalAssumption
<1>1. attempt[c] \in AttemptRecords /\ Len(attempt[c].given) \in Nat
  BY Types DEF AttemptRecords
<1>2. Len(attempt[c].given) < Len(Program)
  BY <1>1 DEF GiveBack, Ended, IInv, Within
<1>3. PICK k \in Keys : k = Key(c)
  BY <1>2, KeyType
<1>4. PICK answer \in Answers : answer = memory[c][k]
  BY <1>3, Types DEF GiveBack, AnswersOrNot
<1>5. PICK a \in AttemptRecords : a = Given(c, answer)
  BY <1>2, GivenType
<1>6. a.at = "ask" /\ a.no = attempt[c].no /\ Len(a.given) <= Len(Program)
  BY <1>2, <1>5, GivenType
<1>7. /\ attempt' = [attempt EXCEPT ![c] = a] /\ Under(c)
      /\ UNCHANGED <<journal, sent, memory, writing, owed, begun, held, made, overlapped, strayed>>
  BY <1>3, <1>4, <1>5 DEF GiveBack, histories, Under
<1>8. made' \subseteq Asks \X Keys
  BY <1>7, HistoryTypes
<1>9. QED
  BY <1>6, <1>7, <1>8, OwnStep

(* A step is made. *)
LEMMA MakeStep == ASSUME IInv, NEW c \in Copies, NEW answer \in Answers, Make(c, answer) PROVE IInv'
<1> USE JournalAssumption
<1>1. PICK b \in AttemptRecords : b = attempt[c] /\ Len(b.given) \in Nat
  BY Types DEF AttemptRecords
<1>2. Len(b.given) < Len(Program)
  BY <1>1 DEF Make, Ended, IInv, Within
<1>3. PICK a : a = [b EXCEPT !.at = "record", !.answer = answer]
  OBVIOUS
<1>4. a \in AttemptRecords /\ a.at = "record" /\ a.no = b.no /\ a.given = b.given /\ a.answer = answer
  BY <1>3 DEF AttemptRecords, AnswersOrNot
<1>5. /\ attempt' = [attempt EXCEPT ![c] = a] /\ Under(c) /\ writing[c] = {} /\ made' = made \cup {<<Turn(c), Key(c)>>}
      /\ UNCHANGED <<journal, sent, memory, writing, owed, begun, held, overlapped, strayed>>
  BY <1>1, <1>3, Types DEF Make, Under
<1>6. made' \subseteq Asks \X Keys
  BY <1>1, <1>2, <1>5, KeyType, HistoryTypes
<1>7. /\ a.no = attempt[c].no /\ a.at # "rest" /\ Len(a.given) <= Len(Program)
      /\ a.at = "record" => Len(a.given) < Len(Program) /\ a.answer \in Answers /\ writing[c] = {}
  BY <1>1, <1>2, <1>4, <1>5
<1>8. QED
  BY <1>4, <1>5, <1>6, <1>7, OwnStep

(* An attempt begins. *)
LEMMA DeliverStep == ASSUME IInv, NEW c \in Copies, Deliver(c) PROVE IInv'
<1> USE JournalAssumption
<1>1. begun' = begun + 1 /\ begun' \in 1 .. Attempts /\ begun' \in Nat
  BY HistoryTypes DEF Deliver
<1>2. PICK n \in 1 .. Attempts : n = begun'
  BY <1>1
<1>3. PICK r \in AttemptRecords : r = Resting /\ r.given = <<>>
  <2>1. Resting \in AttemptRecords /\ Resting.given = <<>>
    BY DEF Resting, AttemptRecords, AnswersOrNot
  <2>2. QED
    BY <2>1
<1>4. PICK a \in AttemptRecords : /\ a = [r EXCEPT !.at = "recall", !.no = n]
                                  /\ a.at = "recall" /\ a.no = begun' /\ Len(a.given) <= Len(Program)
  <2>1. PICK a : a = [r EXCEPT !.at = "recall", !.no = n]
    OBVIOUS
  <2>2. a \in AttemptRecords /\ a.at = "recall" /\ a.no = n /\ a.given = r.given
    <3>1. n \in 0 .. Attempts
      BY <1>2
    <3>2. QED
      BY <2>1, <3>1 DEF AttemptRecords
  <2>3. Len(a.given) <= Len(Program)
    BY <1>3, <2>2
  <2>4. QED
    BY <1>2, <2>1, <2>2, <2>3
<1>5. attempt' = [attempt EXCEPT ![c] = a]
  BY <1>2, <1>3, <1>4 DEF Deliver
<1>6. PICK mem \in [Keys -> AnswersOrNot] : mem = Nothing /\ \A k \in Keys : mem[k] = Absent
  <2>1. Nothing \in [Keys -> AnswersOrNot] /\ \A k \in Keys : Nothing[k] = Absent
    BY DEF Nothing, AnswersOrNot
  <2>2. QED
    BY <2>1
<1>7. PICK wr \in SUBSET Keys : wr = {}
  OBVIOUS
<1>8. /\ memory' = [memory EXCEPT ![c] = mem] /\ writing' = [writing EXCEPT ![c] = wr]
      /\ UNCHANGED <<journal, sent, owed, made>>
  BY <1>6, <1>7 DEF Deliver
<1>9. held' \in [Copies -> SUBSET Keys]
  BY HistoryTypes DEF Deliver
<1>10. overlapped' \in BOOLEAN /\ strayed' \in BOOLEAN
  BY DEF Deliver
<1>11. /\ journal' \in [Keys -> AnswersOrNot] /\ \A j \in Keys : journal[j] # Absent => journal'[j] = journal[j]
       /\ sent' \subseteq Keys \X Answers \X (1 .. Attempts) /\ \A w \in sent : w \in sent'
  BY <1>8, Types
<1>12. /\ owed' \in BOOLEAN /\ begun' \in 0 .. Attempts /\ begun <= begun' /\ made' \subseteq Asks \X Keys
  BY <1>1, <1>8, HistoryTypes
<1>13. \A k \in OfSteps : mem[k] = Absent
  BY <1>6 DEF OfSteps
<1>14. QED
  BY <1>1, <1>4, <1>5, <1>6, <1>7, <1>8, <1>9, <1>10, <1>11, <1>12, <1>13, CopyStep

(* A page is read: what it brings is what is kept. *)
LEMMA RecallStep == ASSUME IInv, NEW c \in Copies, Recall(c) PROVE IInv'
<1> USE JournalAssumption
<1>1. PICK b \in AttemptRecords : b = attempt[c] /\ b.page \in Nat
  BY Types DEF AttemptRecords
<1>2. PICK page : page = Page(attempt[c].page)
  OBVIOUS
<1>3. PICK mem : mem = [k \in Keys |-> IF k \in page THEN journal[k] ELSE memory[c][k]]
  OBVIOUS
<1>4. mem \in [Keys -> AnswersOrNot] /\ memory' = [memory EXCEPT ![c] = mem]
  BY <1>2, <1>3, Types DEF Recall
<1>5. \E a \in AttemptRecords : /\ attempt' = [attempt EXCEPT ![c] = a]
                                /\ a.at # "rest" /\ a.at # "record" /\ a.no = b.no /\ a.given = b.given
  <2>1. PICK at \in {"ask", "recall"} : at = IF Cardinality(page) < PAGE THEN "ask" ELSE b.at
    BY <1>1 DEF Recall
  <2>2. PICK n \in Nat : n = IF Cardinality(page) < PAGE THEN 0 ELSE b.page + PAGE
    BY <1>1
  <2>3. PICK a : a = [b EXCEPT !.at = at, !.page = n]
    OBVIOUS
  <2>4. a \in AttemptRecords /\ a.at = at /\ a.no = b.no /\ a.given = b.given
    BY <2>3 DEF AttemptRecords
  <2>5. attempt' = [attempt EXCEPT ![c] = a]
    BY <1>1, <1>2, <2>1, <2>2, <2>3, Types DEF Recall
  <2>6. QED
    BY <2>4, <2>5
<1>6. PICK a \in AttemptRecords : /\ attempt' = [attempt EXCEPT ![c] = a]
                                  /\ a.at # "rest" /\ a.at # "record" /\ a.no = b.no /\ a.given = b.given
  BY <1>5
<1>7. PICK wr \in SUBSET Keys : wr = writing[c] /\ writing' = [writing EXCEPT ![c] = wr]
  BY Types DEF Recall
<1>8. UNCHANGED <<journal, sent, owed, begun, held, made, overlapped, strayed>> /\ Under(c)
  BY DEF Recall, histories, Under
<1>9. /\ \A k \in wr : journal'[k] # Absent \/ \E answer : <<k, answer, a.no>> \in sent'
      /\ \A k \in Keys \ OfSteps : mem[k] # Absent => journal'[k] # Absent \/ k \in wr
  BY <1>1, <1>3, <1>6, <1>7, <1>8 DEF IInv, OnItsWay, Noted
<1>10. \A k \in OfSteps : mem[k] # Absent => mem[k] = journal'[k]
  <2>1. OfSteps \subseteq Keys
    BY DEF OfSteps
  <2>2. QED
    BY <1>3, <1>8, <2>1 DEF IInv, CopiesAgree
<1>11. /\ journal' \in [Keys -> AnswersOrNot] /\ \A j \in Keys : journal[j] # Absent => journal'[j] = journal[j]
       /\ sent' \subseteq Keys \X Answers \X (1 .. Attempts) /\ \A w \in sent : w \in sent'
  BY <1>8, Types
<1>12. /\ owed' \in BOOLEAN /\ begun' \in 0 .. Attempts /\ begun <= begun' /\ made' \subseteq Asks \X Keys
       /\ held' \in [Copies -> SUBSET Keys] /\ overlapped' \in BOOLEAN /\ strayed' \in BOOLEAN
  BY <1>8, HistoryTypes
<1>13. Len(a.given) <= Len(Program)
  BY <1>1, <1>6 DEF IInv, Within
<1>14. QED
  BY <1>1, <1>4, <1>6, <1>7, <1>8, <1>9, <1>10, <1>11, <1>12, <1>13, CopyStep

(* A value is taken: it is being written, and on its way. *)
LEMMA ValueStep == ASSUME IInv, NEW c \in Copies, NEW answer \in Answers, Value(c, answer) PROVE IInv'
<1> USE JournalAssumption
<1>1. attempt[c] \in AttemptRecords /\ Len(attempt[c].given) \in Nat
  BY Types DEF AttemptRecords
<1>2. Len(attempt[c].given) < Len(Program)
  BY <1>1 DEF Value, Ended, IInv, Within
<1>3. PICK k \in Keys \ OfSteps : k = Key(c)
  BY <1>2, KeyType DEF Value
<1>4. PICK a \in AttemptRecords : a = Given(c, answer)
  BY <1>2, GivenType
<1>5. a.at = "ask" /\ a.no = attempt[c].no /\ Len(a.given) <= Len(Program)
  BY <1>2, <1>4, GivenType
<1>6. PICK mem : mem = [memory[c] EXCEPT ![k] = answer]
  OBVIOUS
<1>7. PICK wr : wr = writing[c] \cup {k}
  OBVIOUS
<1>8. /\ mem \in [Keys -> AnswersOrNot] /\ mem[k] = answer
      /\ \A j \in Keys \ {k} : mem[j] = memory[c][j]
  BY <1>3, <1>6, Types DEF AnswersOrNot
<1>9. wr \in SUBSET Keys
  BY <1>3, <1>7, Types
<1>10. /\ attempt' = [attempt EXCEPT ![c] = a] /\ Under(c)
       /\ memory' = [memory EXCEPT ![c] = mem] /\ writing' = [writing EXCEPT ![c] = wr]
       /\ sent' = sent \cup {<<k, answer, attempt[c].no>>}
       /\ UNCHANGED <<journal, owed, begun, held, made, overlapped, strayed>>
  BY <1>3, <1>4, <1>6, <1>7, Types DEF Value, histories, Under
<1>11. attempt[c].no \in 1 .. Attempts
  BY <1>1, <1>10, HistoryTypes DEF IInv, Numbered, AttemptRecords
<1>12. /\ sent' \subseteq Keys \X Answers \X (1 .. Attempts) /\ \A w \in sent : w \in sent'
  BY <1>3, <1>10, <1>11, Types
<1>13. \A j \in wr : journal'[j] # Absent \/ \E other : <<j, other, a.no>> \in sent'
  BY <1>5, <1>7, <1>10 DEF IInv, OnItsWay
<1>14. \A j \in Keys \ OfSteps : mem[j] # Absent => journal'[j] # Absent \/ j \in wr
  BY <1>7, <1>8, <1>10 DEF IInv, Noted
<1>15. \A j \in OfSteps : mem[j] # Absent => mem[j] = journal'[j]
  <2>1. OfSteps \subseteq Keys \ {k}
    BY <1>3 DEF OfSteps
  <2>2. QED
    BY <1>8, <1>10, <2>1 DEF IInv, CopiesAgree
<1>16. /\ journal' \in [Keys -> AnswersOrNot] /\ \A j \in Keys : journal[j] # Absent => journal'[j] = journal[j]
  BY <1>10, Types
<1>17. /\ owed' \in BOOLEAN /\ begun' \in 0 .. Attempts /\ begun <= begun' /\ made' \subseteq Asks \X Keys
       /\ held' \in [Copies -> SUBSET Keys] /\ overlapped' \in BOOLEAN /\ strayed' \in BOOLEAN
  BY <1>10, HistoryTypes
<1>18. QED
  BY <1>5, <1>8, <1>9, <1>10, <1>12, <1>13, <1>14, <1>15, <1>16, <1>17, CopyStep

(* What is kept is given. *)
LEMMA RecordStep == ASSUME IInv, NEW c \in Copies, Record(c) PROVE IInv'
<1> USE JournalAssumption
<1>1. /\ Len(attempt[c].given) < Len(Program) /\ attempt[c].answer \in Answers /\ Under(c)
      /\ writing[c] = {}
  BY DEF Record, IInv, Within, Noted, Under
<1>2. PICK k \in Keys : k = Key(c)
  BY <1>1, KeyType
<1>3. PICK own \in Answers : own = attempt[c].answer /\ own \in AnswersOrNot /\ own # Absent
  BY <1>1 DEF AnswersOrNot
<1>4. journal' = Keep(k, own)
  BY <1>2, <1>3 DEF Record
<1>5. /\ journal' \in [Keys -> AnswersOrNot]
      /\ \A j \in Keys : journal[j] # Absent => journal'[j] = journal[j]
      /\ journal'[k] # Absent
  BY <1>2, <1>3, <1>4, KeepStep
<1>6. PICK answer \in Answers : answer = journal'[k]
  BY <1>5 DEF AnswersOrNot
<1>7. PICK a \in AttemptRecords : a = Given(c, answer)
  BY <1>1, GivenType
<1>8. a.at = "ask" /\ a.no = attempt[c].no /\ Len(a.given) <= Len(Program)
  BY <1>1, <1>7, GivenType
<1>9. PICK mem : mem = [memory[c] EXCEPT ![k] = answer]
  OBVIOUS
<1>10. /\ mem \in [Keys -> AnswersOrNot] /\ mem[k] = journal'[k]
       /\ \A j \in Keys \ {k} : mem[j] = memory[c][j]
  BY <1>2, <1>6, <1>9, Types DEF AnswersOrNot
<1>11. PICK wr \in SUBSET Keys : wr = {} /\ writing' = [writing EXCEPT ![c] = wr]
  BY <1>1, Types DEF Record
<1>12. /\ attempt' = [attempt EXCEPT ![c] = a] /\ memory' = [memory EXCEPT ![c] = mem]
       /\ UNCHANGED <<sent, owed, begun, held, made, overlapped, strayed>>
  BY <1>2, <1>6, <1>7, <1>9, Types DEF Record, histories
<1>13. /\ sent' \subseteq Keys \X Answers \X (1 .. Attempts) /\ \A w \in sent : w \in sent'
  BY <1>12, Types
<1>14. \A j \in Keys \ OfSteps : mem[j] # Absent => journal'[j] # Absent \/ j \in wr
  BY <1>1, <1>5, <1>10 DEF IInv, Noted
<1>15. \A j \in OfSteps : mem[j] # Absent => mem[j] = journal'[j]
  <2>1. OfSteps \subseteq Keys
    BY DEF OfSteps
  <2>2. QED
    BY <1>5, <1>10, <2>1 DEF IInv, CopiesAgree
<1>16. /\ owed' \in BOOLEAN /\ begun' \in 0 .. Attempts /\ begun <= begun' /\ made' \subseteq Asks \X Keys
       /\ held' \in [Copies -> SUBSET Keys] /\ overlapped' \in BOOLEAN /\ strayed' \in BOOLEAN
  BY <1>12, HistoryTypes
<1>17. /\ a.at = "record" => Len(a.given) < Len(Program) /\ a.answer \in Answers /\ wr = {}
       /\ a.at # "rest" => \/ Under(c) /\ a.no = attempt[c].no
                           \/ begun' = begun + 1 /\ a.no = begun'
       /\ \A k1 \in wr : journal'[k1] # Absent \/ \E other : <<k1, other, a.no>> \in sent'
       /\ writing' = [writing EXCEPT ![c] = wr]
  BY <1>1, <1>8, <1>11
<1>18. \A w \in sent : w \in sent' \/ (Under(c) /\ w[3] = attempt[c].no)
  BY <1>13
<1>19. QED
  BY <1>5, <1>8, <1>10, <1>12, <1>13, <1>14, <1>15, <1>16, <1>17, <1>18, CopyStep

(* The answer to a write arrives: what was written is kept by then. *)
LEMMA LandedStep == ASSUME IInv, NEW c \in Copies, NEW k \in writing[c], Landed(c, k) PROVE IInv'
<1> USE JournalAssumption
<1>1. PICK a \in AttemptRecords : a = attempt[c] /\ attempt' = [attempt EXCEPT ![c] = a]
  BY Types DEF Landed
<1>2. PICK mem \in [Keys -> AnswersOrNot] : mem = memory[c] /\ memory' = [memory EXCEPT ![c] = mem]
  BY Types DEF Landed
<1>3. PICK wr \in SUBSET Keys : wr = writing[c] \ {k} /\ writing' = [writing EXCEPT ![c] = wr]
  BY Types DEF Landed
<1>4. Under(c) /\ UNCHANGED <<journal, sent, owed, begun, held, made, overlapped, strayed>>
  BY DEF Landed, histories
<1>5. journal[k] # Absent
  <2>1. \A answer : <<k, answer, attempt[c].no>> \notin sent
    BY DEF Landed
  <2>2. QED
    BY <1>4, <2>1 DEF IInv, OnItsWay
<1>6. /\ \A j \in wr : journal'[j] # Absent \/ \E answer : <<j, answer, a.no>> \in sent'
      /\ \A j \in Keys \ OfSteps : mem[j] # Absent => journal'[j] # Absent \/ j \in wr
      /\ \A j \in OfSteps : mem[j] # Absent => mem[j] = journal'[j]
  BY <1>1, <1>2, <1>3, <1>4, <1>5 DEF IInv, OnItsWay, Noted, CopiesAgree
<1>7. /\ journal' \in [Keys -> AnswersOrNot] /\ \A j \in Keys : journal[j] # Absent => journal'[j] = journal[j]
      /\ sent' \subseteq Keys \X Answers \X (1 .. Attempts) /\ \A w \in sent : w \in sent'
  BY <1>4, Types
<1>8. /\ owed' \in BOOLEAN /\ begun' \in 0 .. Attempts /\ begun <= begun' /\ made' \subseteq Asks \X Keys
      /\ held' \in [Copies -> SUBSET Keys] /\ overlapped' \in BOOLEAN /\ strayed' \in BOOLEAN
  BY <1>4, HistoryTypes
<1>9. /\ Len(a.given) <= Len(Program)
      /\ a.at = "record" => Len(a.given) < Len(Program) /\ a.answer \in Answers /\ wr = {}
  BY <1>1, <1>3, <1>4 DEF IInv, Within, Noted
<1>10. a.at # "rest" => \/ Under(c) /\ a.no = attempt[c].no
                        \/ begun' = begun + 1 /\ a.no = begun'
  BY <1>1, <1>4
<1>11. QED
  <2>1. \A w \in sent : w \in sent' \/ (Under(c) /\ w[3] = attempt[c].no)
    BY <1>7
  <2>2. attempt' = [attempt EXCEPT ![c] = a] /\ memory' = [memory EXCEPT ![c] = mem]
        /\ writing' = [writing EXCEPT ![c] = wr]
    BY <1>1, <1>2, <1>3
  <2>3. QED
    BY <1>6, <1>7, <1>8, <1>9, <1>10, <2>1, <2>2, CopyStep

(* An attempt is over, and has kept, or lost, something of its own. *)
LEMMA OverStep ==
  ASSUME IInv, NEW c \in Copies, Over(c), journal' \in [Keys -> AnswersOrNot],
         \A j \in Keys : journal[j] # Absent => journal'[j] = journal[j],
         sent' \subseteq sent, \A w \in sent : w \in sent' \/ (Under(c) /\ w[3] = attempt[c].no),
         owed' \in BOOLEAN, UNCHANGED <<begun, held, made, overlapped, strayed>>
  PROVE  IInv'
<1> USE JournalAssumption
<1>1. PICK a \in AttemptRecords : a = Resting /\ a.at = "rest" /\ a.given = <<>>
  <2>1. Resting \in AttemptRecords /\ Resting.at = "rest" /\ Resting.given = <<>>
    BY DEF Resting, AttemptRecords, AnswersOrNot
  <2>2. QED
    BY <2>1
<1>2. PICK mem \in [Keys -> AnswersOrNot] : mem = Nothing /\ \A k \in Keys : mem[k] = Absent
  <2>1. Nothing \in [Keys -> AnswersOrNot] /\ \A k \in Keys : Nothing[k] = Absent
    BY DEF Nothing, AnswersOrNot
  <2>2. QED
    BY <2>1
<1>3. PICK wr \in SUBSET Keys : wr = {}
  OBVIOUS
<1>4. /\ attempt' = [attempt EXCEPT ![c] = a] /\ memory' = [memory EXCEPT ![c] = mem]
      /\ writing' = [writing EXCEPT ![c] = wr]
  BY <1>1, <1>2, <1>3 DEF Over
<1>5. /\ begun' \in 0 .. Attempts /\ begun <= begun' /\ made' \subseteq Asks \X Keys
      /\ held' \in [Copies -> SUBSET Keys] /\ overlapped' \in BOOLEAN /\ strayed' \in BOOLEAN
  BY HistoryTypes
<1>6. sent' \subseteq Keys \X Answers \X (1 .. Attempts)
  BY Types
<1>7. \A k \in OfSteps : mem[k] = Absent
  BY <1>2 DEF OfSteps
<1>8. Len(a.given) <= Len(Program)
  BY <1>1
<1>9. /\ a.at = "record" => Len(a.given) < Len(Program) /\ a.answer \in Answers /\ wr = {}
      /\ a.at # "rest" => \/ Under(c) /\ a.no = attempt[c].no
                          \/ begun' = begun + 1 /\ a.no = begun'
      /\ a.at # "rest" => \A k \in wr : journal'[k] # Absent \/ \E answer : <<k, answer, a.no>> \in sent'
      /\ a.at # "rest" => \A k \in Keys \ OfSteps : mem[k] # Absent => journal'[k] # Absent \/ k \in wr
      /\ \A k \in OfSteps : mem[k] # Absent => mem[k] = journal'[k]
  BY <1>1, <1>7
<1>10. QED
  BY <1>4, <1>5, <1>6, <1>8, <1>9, CopyStep

(* An attempt raises, or its process dies. *)
LEMMA RaisesStep == ASSUME IInv, NEW c \in Copies, Raises(c) PROVE IInv'
<1>1. Under(c) /\ Over(c) /\ UNCHANGED <<owed, begun, held, made, overlapped, strayed>>
  BY DEF Raises, histories
<1>2. sent' \subseteq sent /\ \A w \in sent : w \in sent' \/ w[3] = attempt[c].no
  BY DEF Raises
<1>3. /\ journal' \in [Keys -> AnswersOrNot]
      /\ \A j \in Keys : journal[j] # Absent => journal'[j] = journal[j]
  <2>1. CASE UNCHANGED journal
    BY <2>1, Types
  <2>2. CASE attempt[c].at = "record" /\ journal' = Keep(Key(c), attempt[c].answer)
    <3>1. Key(c) \in Keys /\ attempt[c].answer \in AnswersOrNot
      BY <2>2, KeyType DEF IInv, Within, AnswersOrNot
    <3>2. QED
      BY <2>2, <3>1, KeepStep
  <2>3. QED
    BY <2>1, <2>2 DEF Raises
<1>4. owed' \in BOOLEAN
  BY <1>1, HistoryTypes
<1>5. QED
  BY <1>1, <1>2, <1>3, <1>4, OverStep

(* The operation has ended. *)
LEMMA FinishStep == ASSUME IInv, NEW c \in Copies, Finish(c) PROVE IInv'
<1>1. Over(c) /\ owed' \in {owed, FALSE} /\ UNCHANGED <<journal, sent, begun, held, made, overlapped, strayed>>
  BY DEF Finish, histories
<1>2. owed' \in BOOLEAN
  BY <1>1, HistoryTypes
<1>3. journal' \in [Keys -> AnswersOrNot] /\ \A j \in Keys : journal[j] # Absent => journal'[j] = journal[j]
  BY <1>1, Types
<1>4. QED
  BY <1>1, <1>2, <1>3, OverStep

(* A value reaches the journal. *)
LEMMA ReachesStep == ASSUME IInv, NEW write \in sent, Reaches(write) PROVE IInv'
<1> USE JournalAssumption
<1>1. write[1] \in Keys /\ write[2] \in AnswersOrNot /\ write[2] # Absent
  BY Types DEF AnswersOrNot
<1>2. /\ sent' = sent \ {write} /\ journal' = Keep(write[1], write[2])
      /\ UNCHANGED <<attempt, memory, writing, owed, begun, held, made, overlapped, strayed>>
  BY DEF Reaches, histories
<1>3. /\ journal' \in [Keys -> AnswersOrNot]
      /\ \A j \in Keys : journal[j] # Absent => journal'[j] = journal[j]
      /\ journal'[write[1]] # Absent
  BY <1>1, <1>2, KeepStep
<1>4. JournalOK'
  BY <1>2, <1>3 DEF IInv, JournalOK, AnswersOrNot
<1>5. Within' /\ Numbered'
  BY <1>2 DEF IInv, Within, Numbered, Under
<1>6. OnItsWay'
  <2> SUFFICES ASSUME NEW d \in Copies, Under(d), NEW k \in writing[d]
               PROVE  journal'[k] # Absent \/ \E answer : <<k, answer, attempt[d].no>> \in sent'
    BY <1>2 DEF OnItsWay, Under
  <2>1. k \in Keys
    BY Types
  <2>2. CASE journal[k] # Absent
    BY <1>3, <2>1, <2>2
  <2>3. CASE journal[k] = Absent
    <3>1. PICK answer : <<k, answer, attempt[d].no>> \in sent
      BY <2>3 DEF IInv, OnItsWay
    <3>2. CASE <<k, answer, attempt[d].no>> = write
      BY <1>3, <3>2
    <3>3. CASE <<k, answer, attempt[d].no>> # write
      BY <1>2, <3>1, <3>3
    <3>4. QED
      BY <3>2, <3>3
  <2>4. QED
    BY <2>2, <2>3
<1>7. Noted'
  BY <1>2, <1>3 DEF IInv, Noted, Under
<1>8. CopiesAgree'
  <2>1. OfSteps \subseteq Keys
    BY DEF OfSteps
  <2>2. QED
    BY <1>2, <1>3, <2>1 DEF IInv, CopiesAgree
<1>9. QED
  BY <1>4, <1>5, <1>6, <1>7, <1>8 DEF IInv

-----------------------------------------------------------------------------
(* The invariant, for any copies, program, page and number of attempts. *)
THEOREM Invariance == JournalSpec => []IInv
<1>1. IInv /\ [JournalNext]_journalVars => IInv'
  <2> SUFFICES ASSUME IInv, [JournalNext]_journalVars PROVE IInv'
    OBVIOUS
  <2>1. CASE JournalNext
    BY <2>1, DeliverStep, RecallStep, GiveBackStep, ValueStep, MakeStep, RecordStep, LandedStep,
       RaisesStep, FinishStep, ReachesStep
       DEF JournalNext
  <2>2. CASE UNCHANGED journalVars
    BY <2>2 DEF journalVars, IInv, JournalOK, Within, Numbered, OnItsWay, Noted, CopiesAgree, Under
  <2>3. QED
    BY <2>1, <2>2
<1>2. QED
  BY <1>1, Initially, PTL DEF JournalSpec

(* The types of the state of a run. *)
THEOREM Typed == JournalSpec => []JournalOK
<1>1. IInv => JournalOK
  BY DEF IInv
<1>2. QED
  BY <1>1, Invariance, PTL

(* Every copy of a run is given for a step what is kept for it, however    *)
(* many attempts make it, side by side or one after another: Run.step.     *)
THEOREM Agreement == JournalSpec => []CopiesAgree
<1>1. IInv => CopiesAgree
  BY DEF IInv
<1>2. QED
  BY <1>1, Invariance, PTL

(* No step is made before every value its attempt has taken is kept, or    *)
(* another one is kept in the place of it: Run.settle.                     *)
THEOREM Settled == JournalSpec => []KeptBeforeUsed
<1>1. IInv => KeptBeforeUsed
  BY DEF IInv, Noted, KeptBeforeUsed, Under
<1>2. QED
  BY <1>1, Invariance, PTL

-----------------------------------------------------------------------------
(* What is kept is read whole, however many pages it takes.                *)

Kept == {k \in Keys : journal[k] # Absent}

(* How many of some records come before the one of k. *)
RankIn(S, k) == Cardinality({j \in S : Place[j] < Place[k]})

(* Some numbers have a least one. *)
LEMMA LeastOf == ASSUME NEW S \in SUBSET Nat, S # {} PROVE \E n \in S : \A m \in S : n <= m
<1>1. IsWellFoundedOn({ss \in Nat \X Nat : ss[1] < ss[2]}, Nat)
  BY NatLessThanWellFounded, Zenon DEF OpToRel
<1>2. PICK n \in S : \A m \in S : <<m, n>> \notin {ss \in Nat \X Nat : ss[1] < ss[2]}
  BY <1>1, WFMin, Zenon
<1>3. ASSUME NEW m \in S, m < n PROVE FALSE
  <2>1. <<m, n>> \in Nat \X Nat /\ <<m, n>>[1] < <<m, n>>[2]
    BY <1>3
  <2>2. QED
    BY <1>2, <2>1, Zenon
<1>4. QED
  BY <1>3

(* Some records have a first one. *)
LEMMA FirstOf ==
  ASSUME NEW S \in SUBSET Keys, S # {}
  PROVE  \E k \in S : \A j \in S : Place[k] <= Place[j]
<1>1. PICK places : places = {Place[k] : k \in S}
  OBVIOUS
<1>2. places \in SUBSET Nat /\ places # {}
  BY <1>1, PlaceAssumption
<1>3. PICK n \in places : \A m \in places : n <= m
  BY <1>2, LeastOf
<1>4. QED
  BY <1>1, <1>3

(* Of some records before one there is a last. *)
LEMMA LastOf ==
  ASSUME NEW S \in SUBSET Keys, S # {}, NEW b \in Nat, \A k \in S : Place[k] <= b
  PROVE  \E k \in S : \A j \in S : Place[j] <= Place[k]
<1>1. PICK gaps : gaps = {b - Place[k] : k \in S}
  OBVIOUS
<1>2. \A k \in S : Place[k] \in Nat
  BY PlaceAssumption
<1>3. gaps \in SUBSET Nat /\ gaps # {}
  BY <1>1, <1>2
<1>4. PICK n \in gaps : \A m \in gaps : n <= m
  BY <1>3, LeastOf
<1>5. PICK k \in S : n = b - Place[k]
  BY <1>1, <1>4
<1>6. ASSUME NEW j \in S PROVE Place[j] <= Place[k]
  <2>1. b - Place[j] \in gaps
    BY <1>1
  <2>2. b - Place[k] <= b - Place[j]
    BY <1>4, <1>5, <2>1
  <2>3. QED
    BY <1>2, <2>2
<1>7. QED
  BY <1>6

(* A rank is a number, and grows with what is kept. *)
LEMMA Ranked ==
  ASSUME NEW T \in SUBSET Keys, IsFiniteSet(T), NEW S \in SUBSET T, NEW k \in Keys
  PROVE  RankIn(S, k) \in Nat /\ RankIn(T, k) \in Nat /\ RankIn(S, k) <= RankIn(T, k)
<1>1. PICK before : before = {j \in T : Place[j] < Place[k]}
  OBVIOUS
<1>2. PICK less : less = {j \in S : Place[j] < Place[k]}
  OBVIOUS
<1>3. before \subseteq T /\ less \subseteq before
  BY <1>1, <1>2
<1>4. IsFiniteSet(before)
  BY <1>3, FS_Subset
<1>5. IsFiniteSet(less) /\ Cardinality(less) <= Cardinality(before)
  BY <1>3, <1>4, FS_Subset
<1>6. Cardinality(before) \in Nat /\ Cardinality(less) \in Nat
  BY <1>4, <1>5, FS_CardinalityType
<1>7. QED
  BY <1>1, <1>2, <1>5, <1>6 DEF RankIn

(* No rank is left out: there is a record of every one up to that of k. *)
LEMMA EachRank ==
  ASSUME NEW S \in SUBSET Keys, IsFiniteSet(S), NEW k \in S, NEW r \in Nat, r <= RankIn(S, k)
  PROVE  \E j \in S : RankIn(S, j) = r
<1>1. \A j \in S : RankIn(S, j) \in Nat /\ Place[j] \in Nat
  BY Ranked, PlaceAssumption
<1>2. PICK above : above = {j \in S : RankIn(S, j) >= r}
  OBVIOUS
<1>3. above \in SUBSET Keys /\ above # {}
  BY <1>1, <1>2
<1>4. PICK j \in above : \A i \in above : Place[j] <= Place[i]
  BY <1>3, FirstOf
<1>5. j \in S /\ RankIn(S, j) >= r
  BY <1>2, <1>4
<1>6. ASSUME RankIn(S, j) > r PROVE FALSE
  <2>1. PICK before : before = {i \in S : Place[i] < Place[j]}
    OBVIOUS
  <2>2. before \subseteq S /\ before \in SUBSET Keys
    BY <2>1
  <2>3. IsFiniteSet(before) /\ Cardinality(before) = RankIn(S, j)
    BY <2>1, <2>2, FS_Subset DEF RankIn
  <2>4. before # {}
    <3>1. CASE before = {}
      <4>1. Cardinality(before) = 0
        BY <3>1, FS_EmptySet
      <4>2. QED
        BY <1>6, <2>3, <4>1
    <3>2. QED
      BY <3>1
  <2>5. \A i \in before : Place[i] <= Place[j] /\ Place[i] \in Nat
    BY <1>1, <1>5, <2>1, <2>2
  <2>6. PICK i \in before : \A o \in before : Place[o] <= Place[i]
    BY <1>1, <1>5, <2>2, <2>4, <2>5, LastOf
  <2>7. PICK less : less = {o \in S : Place[o] < Place[i]}
    OBVIOUS
  <2>8. i \in S /\ Place[i] < Place[j] /\ RankIn(S, i) = Cardinality(less)
    BY <2>1, <2>6, <2>7 DEF RankIn
  <2>9. less = before \ {i}
    <3>1. ASSUME NEW o \in less PROVE o \in before \ {i}
      BY <1>1, <1>5, <2>1, <2>7, <2>8, <3>1
    <3>2. ASSUME NEW o \in before \ {i} PROVE o \in less
      <4>1. o \in S /\ o \in Keys /\ i \in Keys /\ o # i
        BY <2>2, <2>8
      <4>2. Place[o] <= Place[i] /\ Place[o] # Place[i]
        BY <2>6, <4>1, PlaceAssumption
      <4>3. QED
        BY <1>1, <2>7, <2>8, <4>1, <4>2
    <3>3. QED
      BY <3>1, <3>2
  <2>10. Cardinality(less) = Cardinality(before) - 1
    BY <2>3, <2>9, FS_RemoveElement
  <2>11. RankIn(S, i) >= r
    BY <1>1, <1>5, <1>6, <2>3, <2>8, <2>10
  <2>12. i \in above
    BY <1>2, <2>8, <2>11
  <2>13. QED
    BY <1>1, <1>4, <1>5, <2>8, <2>12
<1>7. QED
  BY <1>1, <1>5, <1>6

(* A page there is more after is full. *)
LEMMA FullPage ==
  ASSUME NEW S \in SUBSET Keys, IsFiniteSet(S), NEW k \in S, NEW omit \in Nat,
         RankIn(S, k) >= omit + PAGE
  PROVE  Cardinality({j \in S : RankIn(S, j) \in omit .. omit + PAGE - 1}) >= PAGE
<1>1. PAGE \in Nat /\ PAGE > 0
  BY JournalAssumption
<1>2. PICK page : page = {j \in S : RankIn(S, j) \in omit .. omit + PAGE - 1}
  OBVIOUS
<1>3. PICK ranks : ranks = omit .. omit + PAGE - 1
  OBVIOUS
<1>4. RankIn(S, k) \in Nat
  BY Ranked
<1>5. IsFiniteSet(page)
  <2>1. page \subseteq S
    BY <1>2
  <2>2. QED
    BY <2>1, FS_Subset
<1>6. Cardinality(ranks) = PAGE
  <2>1. PICK last \in Int : last = omit + PAGE - 1
    BY <1>1
  <2>2. omit \in Int
    OBVIOUS
  <2>3. Cardinality(omit .. last) = IF omit > last THEN 0 ELSE last - omit + 1
    BY <2>1, <2>2, FS_Interval, Zenon
  <2>4. QED
    BY <1>1, <1>3, <2>1, <2>3
<1>7. PICK f : f = [j \in page |-> RankIn(S, j)]
  OBVIOUS
<1>8. f \in [page -> ranks]
  BY <1>2, <1>3, <1>7
<1>9. ASSUME NEW r \in ranks PROVE \E j \in page : f[j] = r
  <2>1. r \in Nat /\ r <= RankIn(S, k)
    BY <1>1, <1>3, <1>4
  <2>2. PICK j \in S : RankIn(S, j) = r
    BY <2>1, EachRank
  <2>3. QED
    BY <1>2, <1>3, <1>7, <2>2
<1>10. f \in Surjection(page, ranks)
  BY <1>8, <1>9 DEF Surjection
<1>11. Cardinality(ranks) <= Cardinality(page)
  BY <1>5, <1>10, FS_Surjection
<1>12. Cardinality(page) \in Nat
  BY <1>5, FS_CardinalityType
<1>13. QED
  BY <1>1, <1>2, <1>6, <1>11, <1>12

(* What one read brings back: the records of its ranks. *)
LEMMA PageIs ==
  ASSUME NEW omit
  PROVE  Page(omit) = {k \in Kept : RankIn(Kept, k) \in omit .. omit + PAGE - 1}
<1>1. ASSUME NEW k \in Keys
      PROVE  {j \in Keys : journal[j] # Absent /\ Place[j] < Place[k]} = {j \in Kept : Place[j] < Place[k]}
  BY DEF Kept
<1>2. QED
  BY <1>1 DEF Page, Kept, RankIn

(* The attempt at c holds, or is still to read, all that was kept when it  *)
(* began, and makes no step it holds an answer of.                         *)
Recalls(c) ==
  Under(c) =>
    /\ held[c] \subseteq Kept
    /\ attempt[c].at = "recall" =>
         /\ attempt[c].given = <<>>
         /\ \A k \in held[c] : memory[c][k] # Absent \/ RankIn(Kept, k) >= attempt[c].page
    /\ attempt[c].at # "recall" => \A k \in held[c] : memory[c][k] # Absent
    /\ attempt[c].at = "record" => memory[c][Key(c)] = Absent

RecallInv == IInv /\ IsFiniteSet(Kept) /\ \A c \in Copies : Recalls(c)

(* Nothing that is kept is taken back. *)
Grows == \A k \in Keys : journal[k] # Absent => journal'[k] = journal[k]

(* Keeping one answer more. *)
LEMMA KeptStep ==
  ASSUME RecallInv, NEW k \in Keys, NEW answer \in AnswersOrNot, journal' = Keep(k, answer)
  PROVE  Grows /\ IsFiniteSet(Kept')
<1>1. Grows
  BY KeepStep DEF Grows, RecallInv
<1>2. PICK more : more = Kept'
  OBVIOUS
<1>3. more \subseteq Kept \cup {k}
  BY <1>2, Types DEF Kept, Keep, RecallInv
<1>4. IsFiniteSet(Kept \cup {k})
  BY FS_AddElement DEF RecallInv
<1>5. IsFiniteSet(more)
  BY <1>3, <1>4, FS_Subset
<1>6. QED
  BY <1>1, <1>2, <1>5

(* What grows has what it had, at places no earlier. *)
LEMMA Later ==
  ASSUME RecallInv, Grows, IsFiniteSet(Kept'), NEW k \in Keys
  PROVE  /\ Kept \subseteq Kept'
         /\ RankIn(Kept, k) \in Nat /\ RankIn(Kept', k) \in Nat
         /\ RankIn(Kept, k) <= RankIn(Kept', k)
<1>1. PICK now \in SUBSET Keys : now = Kept
  BY DEF Kept
<1>2. PICK then \in SUBSET Keys : then = Kept'
  BY DEF Kept
<1>3. now \subseteq then
  BY <1>1, <1>2 DEF Kept, Grows
<1>4. IsFiniteSet(then)
  BY <1>2
<1>5. RankIn(now, k) \in Nat /\ RankIn(then, k) \in Nat /\ RankIn(now, k) <= RankIn(then, k)
  BY <1>3, <1>4, Ranked
<1>6. QED
  BY <1>1, <1>2, <1>3, <1>5

(* An attempt that is left alone. *)
LEMMA LeftRecalls ==
  ASSUME RecallInv, Grows, IsFiniteSet(Kept'), NEW d \in Copies,
         attempt'[d] = attempt[d], memory'[d] = memory[d], held'[d] = held[d]
  PROVE  Recalls(d)'
<1>1. Recalls(d)
  BY DEF RecallInv
<1>2. SUFFICES ASSUME Under(d) PROVE Recalls(d)'
  BY DEF Recalls, Under
<1>3. held[d] \subseteq Keys
  BY HistoryTypes DEF RecallInv
<1>4. held[d] \subseteq Kept'
  BY <1>1, <1>2, <1>3, Later DEF Recalls
<1>5. attempt[d].page \in Nat
  BY Types DEF RecallInv, AttemptRecords
<1>6. ASSUME attempt[d].at = "recall", NEW k \in held[d]
      PROVE  memory[d][k] # Absent \/ RankIn(Kept', k) >= attempt[d].page
  <2>1. /\ RankIn(Kept, k) \in Nat /\ RankIn(Kept', k) \in Nat
        /\ RankIn(Kept, k) <= RankIn(Kept', k)
    BY <1>3, <1>6, Later
  <2>2. memory[d][k] # Absent \/ RankIn(Kept, k) >= attempt[d].page
    BY <1>1, <1>2, <1>6 DEF Recalls
  <2>3. QED
    BY <1>5, <2>1, <2>2
<1>7. Key(d)' = Key(d)
  BY DEF Key, Turn
<1>8. QED
  BY <1>1, <1>2, <1>4, <1>6, <1>7 DEF Recalls, Under

(* A step of one copy. *)
LEMMA CopyRecalls ==
  ASSUME RecallInv, IInv', Grows, IsFiniteSet(Kept'), NEW c \in Copies, NEW a, NEW mem, NEW h,
         attempt' = [attempt EXCEPT ![c] = a], memory' = [memory EXCEPT ![c] = mem],
         held' = [held EXCEPT ![c] = h], Recalls(c)'
  PROVE  RecallInv'
<1>1. ASSUME NEW d \in Copies, d # c PROVE Recalls(d)'
  <2>1. attempt'[d] = attempt[d] /\ memory'[d] = memory[d] /\ held'[d] = held[d]
    BY <1>1, Types, HistoryTypes DEF RecallInv
  <2>2. QED
    BY <2>1, LeftRecalls
<1>2. QED
  BY <1>1 DEF RecallInv

(* A step that leaves the journal alone. *)
LEMMA SameKept ==
  ASSUME RecallInv, UNCHANGED journal
  PROVE  Grows /\ Kept' = Kept /\ IsFiniteSet(Kept')
BY DEF RecallInv, Grows, Kept

(* An attempt begins: all that is kept is still to be read. *)
LEMMA DeliverRecalls == ASSUME RecallInv, NEW c \in Copies, Deliver(c) PROVE RecallInv'
<1>1. IInv' /\ IInv
  BY DeliverStep DEF RecallInv
<1>2. Grows /\ Kept' = Kept /\ IsFiniteSet(Kept')
  BY SameKept DEF Deliver
<1>3. PICK a : a = [Resting EXCEPT !.at = "recall", !.no = begun']
  OBVIOUS
<1>4. a.at = "recall" /\ a.given = <<>> /\ a.page = 0
  BY <1>3 DEF Resting
<1>5. /\ attempt' = [attempt EXCEPT ![c] = a] /\ memory' = [memory EXCEPT ![c] = Nothing]
      /\ held' = [held EXCEPT ![c] = Kept]
  BY <1>3 DEF Deliver, Kept
<1>6. attempt'[c] = a /\ held'[c] = Kept
  BY <1>1, <1>5, Types, HistoryTypes
<1>7. ASSUME NEW k \in Kept PROVE RankIn(Kept, k) >= 0
  <2>1. k \in Keys
    BY DEF Kept
  <2>2. RankIn(Kept, k) \in Nat
    BY <1>2, <2>1, Later
  <2>3. QED
    BY <2>2
<1>8. Recalls(c)'
  BY <1>2, <1>4, <1>6, <1>7 DEF Recalls
<1>9. QED
  BY <1>1, <1>2, <1>5, <1>8, CopyRecalls

(* A page is read: what is not read by then comes after it, and nothing    *)
(* does if it was not full.                                                *)
LEMMA RecallRecalls == ASSUME RecallInv, NEW c \in Copies, Recall(c) PROVE RecallInv'
<1> USE JournalAssumption
<1>1. IInv' /\ IInv
  BY RecallStep DEF RecallInv
<1>2. Grows /\ Kept' = Kept /\ IsFiniteSet(Kept') /\ IsFiniteSet(Kept)
  BY SameKept DEF Recall, RecallInv
<1>3. PICK omit \in Nat : omit = attempt[c].page
  BY <1>1, Types DEF AttemptRecords
<1>4. PICK page : page = Page(omit)
  OBVIOUS
<1>5. PICK last : last = (Cardinality(page) < PAGE)
  OBVIOUS
<1>6. PICK a \in AttemptRecords : a = attempt[c]
  BY <1>1, Types
<1>7. PICK mem : mem = [k \in Keys |-> IF k \in page THEN journal[k] ELSE memory[c][k]]
  OBVIOUS
<1>8. PICK b : b = [a EXCEPT !.at = IF last THEN "ask" ELSE @, !.page = IF last THEN 0 ELSE @ + PAGE]
  OBVIOUS
<1>9. /\ a.at = "recall" /\ Under(c)
      /\ memory' = [memory EXCEPT ![c] = mem] /\ held' = [held EXCEPT ![c] = held[c]]
  BY <1>1, <1>3, <1>4, <1>6, <1>7, HistoryTypes DEF Recall, Under, histories
<1>10. attempt' = [attempt EXCEPT ![c] = b]
  BY <1>3, <1>4, <1>5, <1>6, <1>8 DEF Recall
<1>11. /\ b.given = a.given
       /\ last => b.at = "ask"
       /\ ~last => b.at = "recall" /\ b.page = omit + PAGE
  BY <1>3, <1>6, <1>8, <1>9 DEF AttemptRecords
<1>12. attempt'[c] = b /\ memory'[c] = mem /\ held'[c] = held[c]
  BY <1>1, <1>9, <1>10, Types, HistoryTypes
<1>13. held[c] \subseteq Kept /\ a.given = <<>>
  BY <1>6, <1>9 DEF RecallInv, Recalls
<1>14. page = {k \in Kept : RankIn(Kept, k) \in omit .. omit + PAGE - 1}
  BY <1>4, PageIs
<1>15. ASSUME NEW k \in held[c], mem[k] = Absent PROVE ~last /\ RankIn(Kept, k) >= omit + PAGE
  <2>1. k \in Kept /\ k \in Keys /\ journal[k] # Absent
    BY <1>13, <1>15 DEF Kept
  <2>2. k \notin page /\ memory[c][k] = Absent
    BY <1>7, <1>15, <2>1
  <2>3. RankIn(Kept, k) \in Nat
    BY <1>2, <2>1, Later
  <2>4. RankIn(Kept, k) >= omit
    BY <1>3, <1>6, <1>9, <2>2 DEF RecallInv, Recalls
  <2>5. RankIn(Kept, k) >= omit + PAGE
    BY <1>14, <2>1, <2>2, <2>3, <2>4
  <2>6. PICK S \in SUBSET Keys : S = Kept
    BY DEF Kept
  <2>7. Cardinality({j \in S : RankIn(S, j) \in omit .. omit + PAGE - 1}) >= PAGE
    BY <1>2, <2>1, <2>5, <2>6, FullPage
  <2>8. Cardinality(page) >= PAGE /\ IsFiniteSet(page)
    <3>1. page \subseteq Kept
      BY <1>14
    <3>2. QED
      BY <1>2, <1>14, <2>6, <2>7, <3>1, FS_Subset
  <2>9. Cardinality(page) \in Nat
    BY <2>8, FS_CardinalityType
  <2>10. ~(Cardinality(page) < PAGE)
    BY <2>8, <2>9
  <2>11. ~last
    BY <1>5, <2>10, Zenon
  <2>12. QED
    BY <2>5, <2>11
<1>16. Recalls(c)'
  <2>1. CASE last
    BY <1>2, <1>11, <1>12, <1>13, <1>15, <2>1 DEF Recalls
  <2>2. CASE ~last
    BY <1>2, <1>11, <1>12, <1>13, <1>15, <2>2 DEF Recalls
  <2>3. QED
    BY <2>1, <2>2
<1>17. QED
  BY <1>1, <1>2, <1>9, <1>10, <1>16, CopyRecalls

(* A step of an attempt that has recalled, and forgets nothing. *)
LEMMA HasRecalled ==
  ASSUME RecallInv, IInv', Grows, IsFiniteSet(Kept'), NEW c \in Copies, NEW a, NEW mem,
         Under(c), attempt[c].at # "recall", a.at # "recall",
         attempt' = [attempt EXCEPT ![c] = a], memory' = [memory EXCEPT ![c] = mem],
         \A k \in Keys : memory[c][k] # Absent => mem[k] # Absent,
         a.at = "record" => a.given = attempt[c].given /\ mem[Key(c)] = Absent, UNCHANGED held
  PROVE  RecallInv'
<1>1. held[c] \subseteq Keys /\ held' = [held EXCEPT ![c] = held[c]] /\ held'[c] = held[c]
  BY HistoryTypes DEF RecallInv
<1>2. attempt'[c] = a /\ memory'[c] = mem
  BY Types DEF RecallInv
<1>3. Recalls(c)
  BY DEF RecallInv
<1>4. held[c] \subseteq Kept'
  BY <1>1, <1>3, Later DEF Recalls
<1>5. a.at = "record" => Key(c)' = Key(c)
  BY <1>2 DEF Key, Turn
<1>6. Recalls(c)'
  BY <1>1, <1>2, <1>3, <1>4, <1>5 DEF Recalls
<1>7. QED
  BY <1>1, <1>6, CopyRecalls

(* What was kept is given back. *)
LEMMA GiveBackRecalls == ASSUME RecallInv, NEW c \in Copies, GiveBack(c) PROVE RecallInv'
<1>1. IInv' /\ IInv
  BY GiveBackStep DEF RecallInv
<1>2. Grows /\ IsFiniteSet(Kept')
  BY SameKept DEF GiveBack
<1>3. PICK a : a = Given(c, memory[c][Key(c)])
  OBVIOUS
<1>4. a.at = "ask"
  BY <1>1, <1>3, Types DEF Given, AttemptRecords
<1>5. PICK mem : mem = memory[c]
  OBVIOUS
<1>6. attempt' = [attempt EXCEPT ![c] = a] /\ memory' = [memory EXCEPT ![c] = mem]
  BY <1>1, <1>3, <1>5, Types DEF GiveBack
<1>7. Under(c) /\ attempt[c].at = "ask" /\ UNCHANGED held
  BY DEF GiveBack, Under, histories
<1>8. QED
  BY <1>1, <1>2, <1>4, <1>5, <1>6, <1>7, HasRecalled

(* A value is taken. *)
LEMMA ValueRecalls == ASSUME RecallInv, NEW c \in Copies, NEW answer \in Answers, Value(c, answer) PROVE RecallInv'
<1> USE JournalAssumption
<1>1. IInv' /\ IInv
  BY ValueStep DEF RecallInv
<1>2. Grows /\ IsFiniteSet(Kept')
  BY SameKept DEF Value
<1>3. PICK a : a = Given(c, answer)
  OBVIOUS
<1>4. a.at = "ask"
  BY <1>1, <1>3, Types DEF Given, AttemptRecords
<1>5. PICK mem : mem = [memory[c] EXCEPT ![Key(c)] = answer]
  OBVIOUS
<1>6. attempt' = [attempt EXCEPT ![c] = a] /\ memory' = [memory EXCEPT ![c] = mem]
  BY <1>1, <1>3, <1>5, Types DEF Value
<1>7. Under(c) /\ attempt[c].at = "ask" /\ UNCHANGED held
  BY DEF Value, Under, histories
<1>8. \A k \in Keys : memory[c][k] # Absent => mem[k] # Absent
  BY <1>1, <1>5, Types
<1>9. QED
  BY <1>1, <1>2, <1>4, <1>6, <1>7, <1>8, HasRecalled

(* A step is made that nothing is held for. *)
LEMMA MakeRecalls == ASSUME RecallInv, NEW c \in Copies, NEW answer \in Answers, Make(c, answer) PROVE RecallInv'
<1>1. IInv' /\ IInv
  BY MakeStep DEF RecallInv
<1>2. Grows /\ IsFiniteSet(Kept')
  BY SameKept DEF Make
<1>3. PICK a : a = [attempt[c] EXCEPT !.at = "record", !.answer = answer]
  OBVIOUS
<1>4. a.at = "record" /\ a.given = attempt[c].given
  BY <1>1, <1>3, Types DEF AttemptRecords
<1>5. PICK mem : mem = memory[c]
  OBVIOUS
<1>6. attempt' = [attempt EXCEPT ![c] = a] /\ memory' = [memory EXCEPT ![c] = mem]
  BY <1>1, <1>3, <1>5, Types DEF Make
<1>7. Under(c) /\ attempt[c].at = "ask" /\ UNCHANGED held /\ mem[Key(c)] = Absent
  BY <1>5 DEF Make, Under
<1>8. QED
  BY <1>1, <1>2, <1>4, <1>5, <1>6, <1>7, HasRecalled

(* A step that is made: what it is kept under, and what is kept of it. *)
LEMMA Recording ==
  ASSUME IInv, NEW c \in Copies, attempt[c].at = "record"
  PROVE  Key(c) \in Keys /\ attempt[c].answer \in Answers /\ attempt[c].answer \in AnswersOrNot
<1>1. Len(attempt[c].given) < Len(Program) /\ attempt[c].answer \in Answers
  BY DEF IInv, Within
<1>2. QED
  BY <1>1, KeyType DEF AnswersOrNot

(* What it answered is kept. *)
LEMMA RecordRecalls == ASSUME RecallInv, NEW c \in Copies, Record(c) PROVE RecallInv'
<1> USE JournalAssumption
<1>1. IInv' /\ IInv
  BY RecordStep DEF RecallInv
<1>2. Key(c) \in Keys /\ attempt[c].answer \in Answers /\ attempt[c].answer \in AnswersOrNot
  BY <1>1, Recording DEF Record
<1>3. Grows /\ IsFiniteSet(Kept')
  BY <1>2, KeptStep DEF Record
<1>4. journal'[Key(c)] # Absent
  BY <1>1, <1>2, KeepStep DEF Record
<1>5. PICK a : a = Given(c, journal'[Key(c)])
  OBVIOUS
<1>6. a.at = "ask"
  BY <1>1, <1>5, Types DEF Given, AttemptRecords
<1>7. PICK mem : mem = [memory[c] EXCEPT ![Key(c)] = journal'[Key(c)]]
  OBVIOUS
<1>8. attempt' = [attempt EXCEPT ![c] = a] /\ memory' = [memory EXCEPT ![c] = mem]
  BY <1>1, <1>5, <1>7, Types DEF Record
<1>9. Under(c) /\ attempt[c].at = "record" /\ UNCHANGED held
  BY DEF Record, Under, histories
<1>10. \A k \in Keys : memory[c][k] # Absent => mem[k] # Absent
  BY <1>1, <1>4, <1>7, Types
<1>11. QED
  BY <1>1, <1>3, <1>6, <1>8, <1>9, <1>10, HasRecalled

(* A step that no attempt makes. *)
LEMMA NoneRecalls ==
  ASSUME RecallInv, IInv', Grows, IsFiniteSet(Kept'), UNCHANGED <<attempt, memory, held>>
  PROVE  RecallInv'
<1>1. \A d \in Copies : Recalls(d)'
  BY LeftRecalls
<1>2. QED
  BY <1>1 DEF RecallInv

(* An attempt is over: nothing is asked of it. *)
LEMMA OverRecalls ==
  ASSUME RecallInv, IInv', Grows, IsFiniteSet(Kept'), NEW c \in Copies, Over(c), UNCHANGED held
  PROVE  RecallInv'
<1>1. attempt' = [attempt EXCEPT ![c] = Resting] /\ memory' = [memory EXCEPT ![c] = Nothing]
  BY DEF Over
<1>2. held' = [held EXCEPT ![c] = held[c]]
  BY HistoryTypes DEF RecallInv
<1>3. attempt'[c].at = "rest"
  BY <1>1, Types DEF Resting, RecallInv
<1>4. Recalls(c)'
  BY <1>3 DEF Recalls, Under
<1>5. QED
  BY <1>1, <1>2, <1>4, CopyRecalls

(* An attempt raises. *)
LEMMA RaisesRecalls == ASSUME RecallInv, NEW c \in Copies, Raises(c) PROVE RecallInv'
<1>1. IInv' /\ IInv
  BY RaisesStep DEF RecallInv
<1>2. Grows /\ IsFiniteSet(Kept')
  <2>1. CASE UNCHANGED journal
    BY <2>1, SameKept
  <2>2. CASE attempt[c].at = "record" /\ journal' = Keep(Key(c), attempt[c].answer)
    BY <1>1, <2>2, Recording, KeptStep
  <2>3. QED
    BY <2>1, <2>2 DEF Raises
<1>3. Over(c) /\ UNCHANGED held
  BY DEF Raises, histories
<1>4. QED
  BY <1>1, <1>2, <1>3, OverRecalls

(* The operation has ended. *)
LEMMA FinishRecalls == ASSUME RecallInv, NEW c \in Copies, Finish(c) PROVE RecallInv'
<1>1. IInv'
  BY FinishStep DEF RecallInv
<1>2. Over(c) /\ UNCHANGED held /\ Grows /\ IsFiniteSet(Kept')
  BY SameKept DEF Finish, histories
<1>3. QED
  BY <1>1, <1>2, OverRecalls

(* A value reaches the journal. *)
LEMMA ReachesRecalls == ASSUME RecallInv, NEW write \in sent, Reaches(write) PROVE RecallInv'
<1>1. IInv' /\ IInv
  BY ReachesStep DEF RecallInv
<1>2. write[1] \in Keys /\ write[2] \in AnswersOrNot
  BY <1>1, Types DEF AnswersOrNot
<1>3. Grows /\ IsFiniteSet(Kept')
  BY <1>2, KeptStep DEF Reaches
<1>4. QED
  BY <1>1, <1>3, NoneRecalls DEF Reaches, histories

(* What was kept when an attempt began is held by it once it has recalled. *)
THEOREM RecallInvariance == JournalSpec => []RecallInv
<1>1. JournalInit => RecallInv
  <2> SUFFICES ASSUME JournalInit PROVE RecallInv
    OBVIOUS
  <2>1. IInv
    BY Initially
  <2>2. Kept = {}
    BY DEF JournalInit, Kept, Nothing
  <2>3. \A c \in Copies : ~Under(c)
    BY DEF JournalInit, Under, Resting
  <2>4. QED
    BY <2>1, <2>2, <2>3, FS_EmptySet DEF RecallInv, Recalls
<1>2. RecallInv /\ [JournalNext]_journalVars => RecallInv'
  <2> SUFFICES ASSUME RecallInv, [JournalNext]_journalVars PROVE RecallInv'
    OBVIOUS
  <2>1. CASE JournalNext
    <3>1. ASSUME NEW c \in Copies, NEW k \in writing[c], Landed(c, k) PROVE RecallInv'
      <4>1. IInv'
        BY <3>1, LandedStep DEF RecallInv
      <4>2. QED
        BY <3>1, <4>1, SameKept, NoneRecalls DEF Landed, histories
    <3>2. QED
      BY <2>1, <3>1, DeliverRecalls, RecallRecalls, GiveBackRecalls, ValueRecalls, MakeRecalls,
         RecordRecalls, RaisesRecalls, FinishRecalls, ReachesRecalls
         DEF JournalNext
  <2>2. CASE UNCHANGED journalVars
    <3>1. IInv'
      BY <2>2 DEF journalVars, RecallInv, IInv, JournalOK, Within, Numbered, OnItsWay, Noted,
                  CopiesAgree, Under
    <3>2. QED
      BY <2>2, <3>1, SameKept, NoneRecalls DEF journalVars
  <2>3. QED
    BY <2>1, <2>2
<1>3. QED
  BY <1>1, <1>2, PTL DEF JournalSpec

(* No attempt makes a step again the answer of which was kept when the     *)
(* attempt began, however many pages there are to read and whatever is     *)
(* written between two of them: Journal.recall.                            *)
THEOREM AskedOnce == JournalSpec => []NotAskedAgain
<1>1. RecallInv => NotAskedAgain
  BY DEF RecallInv, Recalls, NotAskedAgain, Under
<1>2. QED
  BY <1>1, RecallInvariance, PTL

-----------------------------------------------------------------------------
(* Attempts made one after another ask the same.                           *)

(* The key of an ask depends on what was given before it, and on no more. *)
LEMMA KeyOfPrefix ==
  ASSUME NEW g \in Seq(Answers), NEW h \in Seq(Answers), NEW i \in Asks,
         i <= Len(g) + 1, i <= Len(h) + 1, \A j \in 1 .. i - 1 : g[j] = h[j]
  PROVE  KeyOf(g, i) = KeyOf(h, i)
<1>1. i \in Nat /\ i >= 1 /\ i <= Len(Program) /\ Len(Program) \in Nat
  BY JournalAssumption DEF Asks
<1>2. ASSUME NEW j \in 1 .. i PROVE With(g, j) = With(h, j)
  <2>1. j \in Asks
    BY <1>1, <1>2 DEF Asks
  <2>2. Program[j].uses \in 0 .. j - 1
    BY <2>1, JournalAssumption
  <2>3. Program[j].uses = 0 \/ Program[j].uses \in 1 .. i - 1
    BY <1>1, <1>2, <2>2
  <2>4. QED
    BY <2>3 DEF With
<1>3. With(g, i) = With(h, i) /\ \A j \in 1 .. i - 1 : With(g, j) = With(h, j)
  BY <1>1, <1>2
<1>4. {j \in 1 .. i - 1 : Program[j].member = Program[i].member /\ With(g, j) = With(g, i)}
        = {j \in 1 .. i - 1 : Program[j].member = Program[i].member /\ With(h, j) = With(h, i)}
  BY <1>3
<1>5. QED
  BY <1>3, <1>4 DEF KeyOf

(* What the attempt at c was given is what it holds. *)
Remembers(c) ==
  \A i \in 1 .. Len(attempt[c].given) :
    memory[c][KeyOf(attempt[c].given, i)] = attempt[c].given[i]

(* All of these answers are kept, each as an attempt that was given them   *)
(* in this order would ask for it.                                         *)
KeptAll(g) == \A i \in 1 .. Len(g) : journal[KeyOf(g, i)] = g[i]

(* A step that was made was come to by answers that are kept. *)
Reached(step) ==
  \E g \in Seq(Answers) : /\ Len(g) = step[1] - 1
                          /\ KeptAll(g)
                          /\ step[2] = KeyOf(g, step[1])

Alone == \A c, d \in Copies : Under(c) /\ Under(d) => c = d

(* All there is of the run is of the attempt at c, or was kept before it. *)
Own(c) ==
  Under(c) =>
    /\ \A w \in sent : memory[c][w[1]] = w[2]
    /\ \A k \in Kept : k \in held[c] \/ memory[c][k] # Absent
    /\ \A k \in Kept : memory[c][k] # Absent => memory[c][k] = journal[k]
    /\ attempt[c].at = "recall" => sent = {}

Single == Alone /\ (\A c \in Copies : Own(c)) /\ \A step \in made : Reached(step)

RunInv ==
  /\ RecallInv
  /\ \A c \in Copies : Remembers(c)
  /\ ~overlapped /\ ~strayed => Single

(* Answers that are kept determine what is asked: a step come to twice has *)
(* one key.                                                                *)
LEMMA OneWay ==
  ASSUME NEW n \in Asks, NEW g \in Seq(Answers), NEW h \in Seq(Answers),
         Len(g) = n - 1, Len(h) = n - 1, KeptAll(g), KeptAll(h)
  PROVE  KeyOf(g, n) = KeyOf(h, n)
<1>1. n \in Nat /\ n >= 1 /\ n <= Len(Program) /\ Len(Program) \in Nat
  BY JournalAssumption DEF Asks
<1>2. ASSUME NEW j \in 1 .. n - 1, g[j] # h[j] PROVE FALSE
  <2>1. PICK apart : apart = {i \in 1 .. n - 1 : g[i] # h[i]}
    OBVIOUS
  <2>2. apart \in SUBSET Nat /\ apart # {}
    BY <1>2, <2>1
  <2>3. PICK i \in apart : \A m \in apart : i <= m
    BY <2>2, LeastOf
  <2>4. i \in 1 .. n - 1 /\ g[i] # h[i] /\ i \in Asks /\ i \in Nat
    BY <1>1, <2>1, <2>3 DEF Asks
  <2>5. \A m \in 1 .. i - 1 : g[m] = h[m]
    BY <1>1, <2>1, <2>3, <2>4
  <2>6. KeyOf(g, i) = KeyOf(h, i)
    BY <1>1, <2>4, <2>5, KeyOfPrefix
  <2>7. journal[KeyOf(g, i)] = g[i] /\ journal[KeyOf(h, i)] = h[i]
    BY <2>4 DEF KeptAll
  <2>8. QED
    BY <2>4, <2>6, <2>7
<1>3. QED
  BY <1>1, <1>2, KeyOfPrefix

(* What was come to by kept answers still is, when more is kept. *)
LEMMA StillReached ==
  ASSUME IInv, Grows, NEW step \in Asks \X Keys, Reached(step)
  PROVE  Reached(step)'
<1>1. PICK g \in Seq(Answers) : Len(g) = step[1] - 1 /\ KeptAll(g) /\ step[2] = KeyOf(g, step[1])
  BY DEF Reached
<1>2. step[1] \in Asks /\ Asks \subseteq Nat
  BY DEF Asks
<1>3. ASSUME NEW i \in 1 .. Len(g) PROVE journal'[KeyOf(g, i)] = g[i]
  <2>1. i \in Asks /\ i <= Len(g) + 1
    BY <1>1, <1>2, <1>3, JournalAssumption DEF Asks
  <2>2. KeyOf(g, i) \in Keys
    BY <2>1, KeyOfType
  <2>3. journal[KeyOf(g, i)] = g[i] /\ g[i] # Absent
    BY <1>1, <1>3, JournalAssumption DEF KeptAll
  <2>4. QED
    BY <2>2, <2>3 DEF Grows
<1>4. KeptAll(g)'
  BY <1>3 DEF KeptAll
<1>5. QED
  BY <1>1, <1>4 DEF Reached

(* An attempt is given one answer more, and holds it. *)
LEMMA GivenRemembers ==
  ASSUME IInv, NEW c \in Copies, Remembers(c), Len(attempt[c].given) < Len(Program),
         NEW answer \in Answers, NEW mem,
         \A k \in Keys : memory[c][k] # Absent => mem[k] = memory[c][k], mem[Key(c)] = answer,
         attempt'[c].given = Append(attempt[c].given, answer), memory'[c] = mem
  PROVE  Remembers(c)'
<1>1. PICK g \in Seq(Answers) : g = attempt[c].given
  BY Types DEF AttemptRecords
<1>2. PICK h \in Seq(Answers) : h = Append(g, answer)
  <2>1. Append(g, answer) \in Seq(Answers)
    OBVIOUS
  <2>2. QED
    BY <2>1
<1>3. /\ Len(h) = Len(g) + 1 /\ Len(g) \in Nat /\ Len(g) < Len(Program) /\ Len(Program) \in Nat
      /\ \A j \in 1 .. Len(g) : h[j] = g[j]
      /\ h[Len(g) + 1] = answer
  BY <1>1, <1>2, JournalAssumption
<1>4. ASSUME NEW i \in 1 .. Len(h) PROVE mem[KeyOf(h, i)] = h[i]
  <2>1. i \in Asks /\ i <= Len(g) + 1 /\ i <= Len(h) + 1 /\ \A j \in 1 .. i - 1 : g[j] = h[j]
    BY <1>3, <1>4 DEF Asks
  <2>2. KeyOf(h, i) = KeyOf(g, i) /\ KeyOf(g, i) \in Keys
    BY <2>1, KeyOfPrefix, KeyOfType
  <2>3. CASE i \in 1 .. Len(g)
    <3>1. memory[c][KeyOf(g, i)] = g[i]
      BY <1>1, <2>3 DEF Remembers
    <3>2. g[i] # Absent /\ h[i] = g[i]
      BY <1>3, <2>3, JournalAssumption
    <3>3. QED
      BY <2>2, <3>1, <3>2
  <2>4. CASE i = Len(g) + 1
    <3>1. KeyOf(g, i) = Key(c)
      BY <1>1, <2>4 DEF Key, Turn
    <3>2. QED
      BY <1>3, <2>2, <2>4, <3>1
  <2>5. QED
    BY <1>3, <1>4, <2>3, <2>4
<1>5. attempt'[c].given = h
  BY <1>1, <1>2
<1>6. QED
  BY <1>4, <1>5 DEF Remembers

(* An attempt that is left alone. *)
LEMMA LeftRemembers ==
  ASSUME NEW d, Remembers(d), attempt'[d] = attempt[d], memory'[d] = memory[d]
  PROVE  Remembers(d)'
BY DEF Remembers

(* An attempt that was given nothing. *)
LEMMA NothingGiven ==
  ASSUME NEW d, attempt'[d].given = <<>>
  PROVE  Remembers(d)'
BY DEF Remembers

(* A step of one copy, and what it has to keep. *)
LEMMA CopyRuns ==
  ASSUME RunInv, RecallInv', NEW c \in Copies, NEW a, NEW mem,
         attempt' = [attempt EXCEPT ![c] = a], memory' = [memory EXCEPT ![c] = mem],
         Remembers(c)', ~overlapped' /\ ~strayed' => Single'
  PROVE  RunInv'
<1>1. ASSUME NEW d \in Copies, d # c PROVE Remembers(d)'
  <2>1. attempt'[d] = attempt[d] /\ memory'[d] = memory[d]
    BY <1>1, Types DEF RunInv, RecallInv
  <2>2. Remembers(d)
    BY DEF RunInv
  <2>3. QED
    BY <2>1, <2>2, LeftRemembers
<1>2. QED
  BY <1>1 DEF RunInv

(* The only attempt there is makes a step. *)
LEMMA SingleStep ==
  ASSUME IInv, Single, Grows, NEW c \in Copies, Under(c), NEW a, attempt' = [attempt EXCEPT ![c] = a],
         Own(c)', made' \subseteq Asks \X Keys, \A step \in made' : step \in made \/ Reached(step)
  PROVE  Single'
<1>1. ASSUME NEW d \in Copies, d # c PROVE ~Under(d) /\ ~Under(d)'
  BY <1>1, Types DEF Single, Alone, Under
<1>2. Alone'
  BY <1>1 DEF Alone
<1>3. \A d \in Copies : Own(d)'
  BY <1>1 DEF Own
<1>4. ASSUME NEW step \in made' PROVE Reached(step)'
  BY <1>4, StillReached DEF Single
<1>5. QED
  BY <1>2, <1>3, <1>4 DEF Single

(* What is kept is held, once the only attempt there is has recalled. *)
LEMMA Knows ==
  ASSUME RecallInv, Single, NEW c \in Copies, Under(c), attempt[c].at # "recall", NEW k \in Kept
  PROVE  memory[c][k] # Absent /\ memory[c][k] = journal[k]
BY DEF RecallInv, Recalls, Single, Own

(* An attempt begins. *)
LEMMA DeliverRuns == ASSUME RunInv, NEW c \in Copies, Deliver(c) PROVE RunInv'
<1>1. RecallInv' /\ IInv /\ RecallInv
  BY DeliverRecalls DEF RunInv, RecallInv
<1>2. PICK a : a = [Resting EXCEPT !.at = "recall", !.no = begun']
  OBVIOUS
<1>3. a.given = <<>> /\ a.at = "recall"
  BY <1>2 DEF Resting
<1>4. attempt' = [attempt EXCEPT ![c] = a] /\ memory' = [memory EXCEPT ![c] = Nothing]
  BY <1>2 DEF Deliver
<1>5. attempt'[c] = a /\ memory'[c] = Nothing /\ held'[c] = Kept
  BY <1>1, <1>4, Types, HistoryTypes DEF Deliver, Kept
<1>6. Remembers(c)'
  BY <1>3, <1>5, NothingGiven
<1>7. ASSUME ~overlapped', ~strayed' PROVE Single'
  <2>1. sent = {} /\ sent' = {} /\ (\A d \in Copies : ~Under(d)) /\ Single
    BY <1>7 DEF Deliver, RunInv
  <2>2. Kept' = Kept /\ Grows /\ made' = made
    BY <1>1, SameKept DEF Deliver
  <2>3. ASSUME NEW d \in Copies, d # c PROVE ~Under(d)'
    BY <1>1, <1>4, <2>1, <2>3, Types DEF Under
  <2>4. Alone'
    BY <2>3 DEF Alone
  <2>5. \A k \in Keys : Nothing[k] = Absent
    BY DEF Nothing
  <2>6. Own(c)'
    BY <1>5, <2>1, <2>2, <2>5 DEF Own, Kept
  <2>7. \A d \in Copies : Own(d)'
    BY <2>3, <2>6 DEF Own
  <2>8. \A step \in made' : Reached(step)'
    BY <1>1, <2>1, <2>2, StillReached, HistoryTypes DEF Single
  <2>9. QED
    BY <2>4, <2>7, <2>8 DEF Single
<1>8. QED
  BY <1>1, <1>4, <1>6, <1>7, CopyRuns

(* A page is read: what is held after it is what is kept. *)
LEMMA RecallRuns == ASSUME RunInv, NEW c \in Copies, Recall(c) PROVE RunInv'
<1>1. RecallInv' /\ IInv /\ RecallInv
  BY RecallRecalls DEF RunInv, RecallInv
<1>2. Grows /\ Kept' = Kept
  BY <1>1, SameKept DEF Recall
<1>3. PICK page : page = Page(attempt[c].page)
  OBVIOUS
<1>4. PICK mem : mem = [k \in Keys |-> IF k \in page THEN journal[k] ELSE memory[c][k]]
  OBVIOUS
<1>5. PICK a : a = [attempt[c] EXCEPT !.at = IF Cardinality(page) < PAGE THEN "ask" ELSE @,
                                      !.page = IF Cardinality(page) < PAGE THEN 0 ELSE @ + PAGE]
  OBVIOUS
<1>6. attempt' = [attempt EXCEPT ![c] = a]
  BY <1>3, <1>5 DEF Recall
<1>7. memory' = [memory EXCEPT ![c] = mem]
  BY <1>1, <1>3, <1>4, Types DEF Recall
<1>8. attempt[c].at = "recall" /\ Under(c) /\ UNCHANGED <<journal, sent, held, made, overlapped, strayed>>
  BY DEF Recall, Under, histories
<1>9. attempt'[c] = a /\ memory'[c] = mem
  BY <1>1, <1>6, <1>7, Types
<1>10. attempt[c].given = <<>>
  BY <1>1, <1>8 DEF RecallInv, Recalls
<1>11. a.given = <<>>
  <2>1. PICK b \in AttemptRecords : b = attempt[c]
    BY <1>1, Types
  <2>2. a.given = b.given
    BY <1>5, <2>1 DEF AttemptRecords
  <2>3. QED
    BY <1>10, <2>1, <2>2
<1>12. Remembers(c)'
  BY <1>9, <1>11, NothingGiven
<1>13. ASSUME ~overlapped', ~strayed' PROVE Single'
  <2>1. Single
    BY <1>8, <1>13 DEF RunInv
  <2>2. sent = {} /\ sent' = {}
    BY <1>8, <2>1 DEF Single, Own
  <2>3. ASSUME NEW k \in Kept PROVE /\ k \in held[c] \/ mem[k] # Absent
                                    /\ mem[k] # Absent => mem[k] = journal[k]
    <3>1. k \in Keys /\ journal[k] # Absent
      BY <2>3 DEF Kept
    <3>2. /\ k \in held[c] \/ memory[c][k] # Absent
          /\ memory[c][k] # Absent => memory[c][k] = journal[k]
      BY <1>8, <2>1, <2>3 DEF Single, Own
    <3>3. QED
      BY <1>4, <3>1, <3>2
  <2>4. Own(c)'
    <3>1. held' = held /\ journal' = journal
      BY <1>8
    <3>2. \A k \in Kept' : k \in held'[c] \/ memory'[c][k] # Absent
      <4>1. \A k \in Kept : k \in held[c] \/ mem[k] # Absent
        BY <2>3
      <4>2. QED
        BY <1>2, <1>9, <3>1, <4>1, Zenon
    <3>3. \A k \in Kept' : memory'[c][k] # Absent => memory'[c][k] = journal'[k]
      BY <1>2, <1>9, <2>3, <3>1
    <3>4. QED
      BY <2>2, <3>2, <3>3 DEF Own
  <2>5. made' \subseteq Asks \X Keys
    BY <1>1, <1>8, HistoryTypes
  <2>6. QED
    BY <1>1, <1>2, <1>6, <1>8, <2>1, <2>4, <2>5, SingleStep
<1>14. QED
  BY <1>1, <1>6, <1>7, <1>12, <1>13, CopyRuns

(* Two ways to go on with what is given: what the step of the only attempt *)
(* there is has to keep.                                                   *)
LEMMA OwnStill ==
  ASSUME RecallInv, Single, NEW c \in Copies, Under(c), attempt[c].at # "recall", attempt'[c].at # "recall",
         NEW mem, memory'[c] = mem, UNCHANGED held,
         \A w \in sent' : mem[w[1]] = w[2],
         \A k \in Kept' : mem[k] # Absent /\ mem[k] = journal'[k]
  PROVE  Own(c)'
BY DEF Own

(* What was kept is given back. *)
LEMMA GiveBackRuns == ASSUME RunInv, NEW c \in Copies, GiveBack(c) PROVE RunInv'
<1> USE JournalAssumption
<1>1. RecallInv' /\ IInv /\ RecallInv /\ Remembers(c)
  BY GiveBackRecalls DEF RunInv, RecallInv
<1>2. Grows /\ Kept' = Kept
  BY <1>1, SameKept DEF GiveBack
<1>3. attempt[c] \in AttemptRecords /\ Len(attempt[c].given) \in Nat
  BY <1>1, Types DEF AttemptRecords
<1>4. Len(attempt[c].given) < Len(Program)
  BY <1>1, <1>3 DEF GiveBack, Ended, IInv, Within
<1>5. PICK k \in Keys : k = Key(c)
  BY <1>1, <1>4, KeyType
<1>6. PICK answer \in Answers : answer = memory[c][k]
  BY <1>1, <1>5, Types DEF GiveBack, AnswersOrNot
<1>7. PICK a : a = Given(c, answer)
  OBVIOUS
<1>8. a.at = "ask" /\ a.given = Append(attempt[c].given, answer)
  BY <1>3, <1>7 DEF Given, AttemptRecords
<1>9. PICK mem : mem = memory[c]
  OBVIOUS
<1>10. /\ attempt' = [attempt EXCEPT ![c] = a] /\ memory' = [memory EXCEPT ![c] = mem]
       /\ attempt'[c] = a /\ memory'[c] = mem
  BY <1>1, <1>5, <1>6, <1>7, <1>9, Types DEF GiveBack
<1>11. /\ attempt[c].at = "ask" /\ Under(c)
       /\ journal' = journal /\ sent' = sent /\ held' = held /\ made' = made
       /\ overlapped' = overlapped /\ strayed' = strayed
  BY DEF GiveBack, Under, histories
<1>12. Remembers(c)'
  BY <1>1, <1>4, <1>5, <1>6, <1>8, <1>9, <1>10, GivenRemembers
<1>13. ASSUME ~overlapped', ~strayed' PROVE Single'
  <2>1. Single
    BY <1>11, <1>13 DEF RunInv
  <2>2. \A w \in sent' : mem[w[1]] = w[2]
    BY <1>9, <1>11, <2>1 DEF Single, Own
  <2>3. \A j \in Kept' : mem[j] # Absent /\ mem[j] = journal'[j]
    BY <1>1, <1>2, <1>9, <1>11, <2>1, Knows
  <2>4. Own(c)'
    BY <1>1, <1>8, <1>10, <1>11, <2>1, <2>2, <2>3, OwnStill
  <2>5. QED
    BY <1>1, <1>2, <1>10, <1>11, <2>1, <2>4, SingleStep, HistoryTypes
<1>14. QED
  BY <1>1, <1>10, <1>12, <1>13, CopyRuns

(* A value is taken: nothing is kept for it. *)
LEMMA ValueRuns == ASSUME RunInv, NEW c \in Copies, NEW answer \in Answers, Value(c, answer) PROVE RunInv'
<1> USE JournalAssumption
<1>1. RecallInv' /\ IInv /\ RecallInv /\ Remembers(c)
  BY ValueRecalls DEF RunInv, RecallInv
<1>2. Grows /\ Kept' = Kept
  BY <1>1, SameKept DEF Value
<1>3. attempt[c] \in AttemptRecords /\ Len(attempt[c].given) \in Nat
  BY <1>1, Types DEF AttemptRecords
<1>4. Len(attempt[c].given) < Len(Program)
  BY <1>1, <1>3 DEF Value, Ended, IInv, Within
<1>5. PICK k \in Keys : k = Key(c)
  BY <1>1, <1>4, KeyType
<1>6. PICK a : a = Given(c, answer)
  OBVIOUS
<1>7. a.at = "ask" /\ a.given = Append(attempt[c].given, answer)
  BY <1>3, <1>6 DEF Given, AttemptRecords
<1>8. PICK mem : mem = [memory[c] EXCEPT ![k] = answer]
  OBVIOUS
<1>9. /\ attempt' = [attempt EXCEPT ![c] = a] /\ memory' = [memory EXCEPT ![c] = mem]
      /\ attempt'[c] = a /\ memory'[c] = mem
  BY <1>1, <1>5, <1>6, <1>8, Types DEF Value
<1>10. /\ attempt[c].at = "ask" /\ Under(c) /\ memory[c][k] = Absent
       /\ journal' = journal /\ held' = held /\ made' = made
       /\ overlapped' = overlapped /\ strayed' = strayed
  BY <1>5 DEF Value, Under, histories
<1>11. sent' = sent \cup {<<k, answer, attempt[c].no>>}
  BY <1>5 DEF Value
<1>12. mem[k] = answer /\ \A j \in Keys : j # k => mem[j] = memory[c][j]
  BY <1>1, <1>8, Types
<1>13. Remembers(c)'
  BY <1>1, <1>4, <1>5, <1>7, <1>9, <1>10, <1>12, GivenRemembers
<1>14. ASSUME ~overlapped', ~strayed' PROVE Single'
  <2>1. Single
    BY <1>10, <1>14 DEF RunInv
  <2>2. ASSUME NEW w \in sent PROVE mem[w[1]] = w[2]
    <3>1. w[1] \in Keys /\ w[2] \in Answers
      BY <1>1, <2>2, Types
    <3>2. memory[c][w[1]] = w[2]
      BY <1>10, <2>1, <2>2 DEF Single, Own
    <3>3. QED
      BY <1>10, <1>12, <3>1, <3>2
  <2>3. \A w \in sent' : mem[w[1]] = w[2]
    BY <1>11, <1>12, <2>2
  <2>4. ASSUME NEW j \in Kept' PROVE mem[j] # Absent /\ mem[j] = journal'[j]
    <3>1. j \in Keys /\ memory[c][j] # Absent /\ memory[c][j] = journal[j]
      BY <1>1, <1>2, <1>10, <2>1, <2>4, Knows DEF Kept
    <3>2. QED
      BY <1>10, <1>12, <3>1
  <2>5. Own(c)'
    BY <1>1, <1>7, <1>9, <1>10, <2>1, <2>3, <2>4, OwnStill
  <2>6. QED
    BY <1>1, <1>2, <1>9, <1>10, <2>1, <2>5, SingleStep, HistoryTypes
<1>15. QED
  BY <1>1, <1>9, <1>13, <1>14, CopyRuns

(* A step is made: all its attempt was given is kept by then. *)
LEMMA MakeRuns == ASSUME RunInv, NEW c \in Copies, NEW answer \in Answers, Make(c, answer) PROVE RunInv'
<1> USE JournalAssumption
<1>1. RecallInv' /\ IInv /\ RecallInv /\ Remembers(c)
  BY MakeRecalls DEF RunInv, RecallInv
<1>2. Grows /\ Kept' = Kept
  BY <1>1, SameKept DEF Make
<1>3. attempt[c] \in AttemptRecords /\ Len(attempt[c].given) \in Nat
  BY <1>1, Types DEF AttemptRecords
<1>4. Len(attempt[c].given) < Len(Program)
  BY <1>1, <1>3 DEF Make, Ended, IInv, Within
<1>5. Key(c) \in Keys /\ Turn(c) \in Asks
  BY <1>1, <1>4, KeyType
<1>6. PICK a : a = [attempt[c] EXCEPT !.at = "record", !.answer = answer]
  OBVIOUS
<1>7. a.at = "record" /\ a.given = attempt[c].given
  BY <1>3, <1>6 DEF AttemptRecords
<1>8. PICK mem : mem = memory[c]
  OBVIOUS
<1>9. /\ attempt' = [attempt EXCEPT ![c] = a] /\ memory' = [memory EXCEPT ![c] = mem]
      /\ attempt'[c] = a /\ memory'[c] = mem
  BY <1>1, <1>6, <1>8, Types DEF Make
<1>10. /\ attempt[c].at = "ask" /\ Under(c) /\ writing[c] = {}
       /\ journal' = journal /\ sent' = sent /\ held' = held
       /\ overlapped' = overlapped /\ strayed' = strayed
       /\ made' = made \cup {<<Turn(c), Key(c)>>}
  BY DEF Make, Under
<1>11. Remembers(c)'
  BY <1>1, <1>7, <1>8, <1>9 DEF Remembers
<1>12. ASSUME ~overlapped', ~strayed' PROVE Single'
  <2>1. Single
    BY <1>10, <1>12 DEF RunInv
  <2>2. \A w \in sent' : mem[w[1]] = w[2]
    BY <1>8, <1>10, <2>1 DEF Single, Own
  <2>3. \A j \in Kept' : mem[j] # Absent /\ mem[j] = journal'[j]
    BY <1>1, <1>2, <1>8, <1>10, <2>1, Knows
  <2>4. Own(c)'
    BY <1>1, <1>7, <1>9, <1>10, <2>1, <2>2, <2>3, OwnStill
  <2>5. PICK g \in Seq(Answers) : g = attempt[c].given
    BY <1>3 DEF AttemptRecords
  <2>6. ASSUME NEW i \in 1 .. Len(g) PROVE journal[KeyOf(g, i)] = g[i]
    <3>1. i \in Asks /\ i <= Len(g) + 1 /\ g[i] # Absent
      BY <1>4, <2>5, <2>6 DEF Asks
    <3>2. PICK k \in Keys : k = KeyOf(g, i)
      BY <3>1, KeyOfType
    <3>3. memory[c][k] = g[i]
      BY <1>1, <2>5, <2>6, <3>2 DEF Remembers
    <3>4. CASE k \in OfSteps
      BY <1>1, <3>1, <3>2, <3>3, <3>4 DEF IInv, CopiesAgree
    <3>5. CASE k \notin OfSteps
      <4>1. journal[k] # Absent
        BY <1>1, <1>10, <3>1, <3>3, <3>5 DEF IInv, Noted
      <4>2. k \in Kept
        BY <4>1 DEF Kept
      <4>3. memory[c][k] = journal[k]
        BY <1>1, <1>10, <2>1, <4>2, Knows
      <4>4. QED
        BY <3>2, <3>3, <4>3
    <3>6. QED
      BY <3>4, <3>5
  <2>7. KeptAll(g)
    BY <2>6 DEF KeptAll
  <2>8. Reached(<<Turn(c), Key(c)>>)
    <3>1. Len(g) = Turn(c) - 1 /\ Key(c) = KeyOf(g, Turn(c))
      BY <1>3, <2>5 DEF Turn, Key
    <3>2. QED
      BY <2>7, <3>1 DEF Reached
  <2>9. made' \subseteq Asks \X Keys /\ \A step \in made' : step \in made \/ Reached(step)
    BY <1>1, <1>5, <1>10, <2>8, HistoryTypes
  <2>10. QED
    BY <1>1, <1>2, <1>9, <1>10, <2>1, <2>4, <2>9, SingleStep
<1>13. QED
  BY <1>1, <1>9, <1>11, <1>12, CopyRuns

(* What it answered is kept, and nothing was. *)
LEMMA RecordRuns == ASSUME RunInv, NEW c \in Copies, Record(c) PROVE RunInv'
<1> USE JournalAssumption
<1>1. RecallInv' /\ IInv /\ RecallInv /\ Remembers(c)
  BY RecordRecalls DEF RunInv, RecallInv
<1>2. PICK k \in Keys : k = Key(c)
  BY <1>1, Recording DEF Record
<1>3. attempt[c].answer \in Answers /\ attempt[c].answer \in AnswersOrNot /\ journal' = Keep(k, attempt[c].answer)
  BY <1>1, <1>2, Recording DEF Record
<1>4. /\ Grows /\ journal'[k] \in Answers
      /\ \A j \in Keys : j # k => journal'[j] = journal[j]
  <2>1. journal \in [Keys -> AnswersOrNot]
    BY <1>1, Types
  <2>2. journal'[k] \in Answers /\ \A j \in Keys : j # k => journal'[j] = journal[j]
    BY <1>3, <2>1 DEF Keep, AnswersOrNot
  <2>3. QED
    BY <1>1, <1>3, <2>2, KeptStep
<1>5. attempt[c] \in AttemptRecords /\ Len(attempt[c].given) < Len(Program)
  BY <1>1, Types DEF Record, IInv, Within
<1>6. PICK answer \in Answers : answer = journal'[k]
  BY <1>4
<1>7. PICK a : a = Given(c, answer)
  OBVIOUS
<1>8. a.at = "ask" /\ a.given = Append(attempt[c].given, answer)
  BY <1>5, <1>7 DEF Given, AttemptRecords
<1>9. PICK mem : mem = [memory[c] EXCEPT ![k] = answer]
  OBVIOUS
<1>10. /\ attempt' = [attempt EXCEPT ![c] = a] /\ memory' = [memory EXCEPT ![c] = mem]
       /\ attempt'[c] = a /\ memory'[c] = mem
  BY <1>1, <1>2, <1>6, <1>7, <1>9, Types DEF Record
<1>11. /\ attempt[c].at = "record" /\ Under(c)
       /\ sent' = sent /\ held' = held /\ made' = made
       /\ overlapped' = overlapped /\ strayed' = strayed
  BY DEF Record, Under, histories
<1>12. memory[c][k] = Absent
  BY <1>1, <1>2, <1>11 DEF RecallInv, Recalls
<1>13. mem[k] = answer /\ \A j \in Keys : j # k => mem[j] = memory[c][j]
  BY <1>1, <1>9, Types
<1>14. Remembers(c)'
  BY <1>1, <1>2, <1>5, <1>8, <1>10, <1>12, <1>13, GivenRemembers
<1>15. ASSUME ~overlapped', ~strayed' PROVE Single'
  <2>1. Single
    BY <1>11, <1>15 DEF RunInv
  <2>2. ASSUME NEW w \in sent PROVE mem[w[1]] = w[2]
    <3>1. w[1] \in Keys /\ w[2] \in Answers
      BY <1>1, <2>2, Types
    <3>2. memory[c][w[1]] = w[2]
      BY <1>11, <2>1, <2>2 DEF Single, Own
    <3>3. QED
      BY <1>12, <1>13, <3>1, <3>2
  <2>3. ASSUME NEW j \in Kept' PROVE mem[j] # Absent /\ mem[j] = journal'[j]
    <3>1. j \in Keys /\ journal'[j] # Absent
      BY <2>3 DEF Kept
    <3>2. CASE j = k
      BY <1>6, <1>13, <3>2
    <3>3. CASE j # k
      <4>1. j \in Kept /\ journal'[j] = journal[j]
        BY <1>4, <3>1, <3>3 DEF Kept
      <4>2. memory[c][j] # Absent /\ memory[c][j] = journal[j]
        BY <1>1, <1>11, <2>1, <4>1, Knows
      <4>3. QED
        BY <1>13, <3>1, <3>3, <4>1, <4>2
    <3>4. QED
      BY <3>2, <3>3
  <2>4. Own(c)'
    BY <1>1, <1>8, <1>10, <1>11, <2>1, <2>2, <2>3, OwnStill
  <2>5. QED
    BY <1>1, <1>4, <1>10, <1>11, <2>1, <2>4, SingleStep, HistoryTypes
<1>16. QED
  BY <1>1, <1>10, <1>14, <1>15, CopyRuns

(* An attempt is over. *)
LEMMA OverRuns ==
  ASSUME RunInv, RecallInv', Grows, NEW c \in Copies, Under(c), Over(c),
         UNCHANGED <<held, made, overlapped, strayed>>
  PROVE  RunInv'
<1>1. IInv /\ attempt' = [attempt EXCEPT ![c] = Resting] /\ memory' = [memory EXCEPT ![c] = Nothing]
  BY DEF Over, RunInv, RecallInv
<1>2. attempt'[c].at = "rest" /\ attempt'[c].given = <<>>
  BY <1>1, Types DEF Resting
<1>3. Remembers(c)'
  BY <1>2, NothingGiven
<1>4. ASSUME ~overlapped', ~strayed' PROVE Single'
  <2>1. Single
    BY <1>4 DEF RunInv
  <2>2. Own(c)'
    BY <1>2 DEF Own, Under
  <2>3. made' \subseteq Asks \X Keys /\ made' = made
    BY <1>1, HistoryTypes
  <2>4. QED
    BY <1>1, <2>1, <2>2, <2>3, SingleStep
<1>5. QED
  BY <1>1, <1>3, <1>4, CopyRuns

(* An attempt raises, or its process dies. *)
LEMMA RaisesRuns == ASSUME RunInv, NEW c \in Copies, Raises(c) PROVE RunInv'
<1>1. RecallInv' /\ IInv /\ RecallInv
  BY RaisesRecalls DEF RunInv, RecallInv
<1>2. Grows
  <2>1. CASE UNCHANGED journal
    BY <1>1, <2>1, SameKept
  <2>2. CASE attempt[c].at = "record" /\ journal' = Keep(Key(c), attempt[c].answer)
    BY <1>1, <2>2, Recording, KeptStep
  <2>3. QED
    BY <2>1, <2>2 DEF Raises
<1>3. Under(c) /\ Over(c) /\ UNCHANGED <<held, made, overlapped, strayed>>
  BY DEF Raises, histories
<1>4. QED
  BY <1>1, <1>2, <1>3, OverRuns

(* The operation has ended. *)
LEMMA FinishRuns == ASSUME RunInv, NEW c \in Copies, Finish(c) PROVE RunInv'
<1>1. RecallInv' /\ RecallInv
  BY FinishRecalls DEF RunInv
<1>2. Under(c) /\ Over(c) /\ UNCHANGED <<held, made, overlapped, strayed>>
  BY DEF Finish, histories, Under
<1>3. Grows
  BY <1>1, SameKept DEF Finish
<1>4. QED
  BY <1>1, <1>2, <1>3, OverRuns

(* A value reaches the journal: the only attempt there is holds it. *)
LEMMA ReachesRuns == ASSUME RunInv, NEW write \in sent, Reaches(write) PROVE RunInv'
<1> USE JournalAssumption
<1>1. RecallInv' /\ IInv /\ RecallInv
  BY ReachesRecalls DEF RunInv, RecallInv
<1>2. PICK k \in Keys : k = write[1]
  BY <1>1, Types
<1>3. write[2] \in Answers /\ write[2] \in AnswersOrNot /\ journal' = Keep(k, write[2])
  BY <1>1, <1>2, Types DEF Reaches, AnswersOrNot
<1>4. /\ Grows
      /\ journal[k] = Absent => journal'[k] = write[2]
      /\ \A j \in Keys : j # k => journal'[j] = journal[j]
  <2>1. journal \in [Keys -> AnswersOrNot]
    BY <1>1, Types
  <2>2. /\ journal[k] = Absent => journal'[k] = write[2]
        /\ \A j \in Keys : j # k => journal'[j] = journal[j]
    BY <1>3, <2>1 DEF Keep
  <2>3. QED
    BY <1>1, <1>3, <2>2, KeptStep
<1>5. /\ attempt' = attempt /\ memory' = memory /\ held' = held /\ made' = made
      /\ overlapped' = overlapped /\ strayed' = strayed /\ sent' = sent \ {write}
  BY DEF Reaches, histories
<1>6. \A d \in Copies : Remembers(d)'
  BY <1>5, LeftRemembers DEF RunInv
<1>7. ASSUME ~overlapped', ~strayed' PROVE Single'
  <2>1. Single
    BY <1>5, <1>7 DEF RunInv
  <2>2. Alone'
    BY <1>5, <2>1 DEF Single, Alone, Under
  <2>3. ASSUME NEW d \in Copies, Under(d) PROVE Own(d)'
    <3>1. /\ attempt[d].at # "recall"
          /\ \A w \in sent : memory[d][w[1]] = w[2]
          /\ memory[d][k] = write[2]
      BY <1>2, <2>1, <2>3 DEF Single, Own
    <3>2. ASSUME NEW j \in Kept' PROVE memory[d][j] # Absent /\ memory[d][j] = journal'[j]
      <4>1. j \in Keys /\ journal'[j] # Absent
        BY <3>2 DEF Kept
      <4>2. CASE j \in Kept
        <5>1. memory[d][j] # Absent /\ memory[d][j] = journal[j]
          BY <1>1, <2>1, <2>3, <3>1, <4>2, Knows
        <5>2. QED
          BY <1>4, <4>1, <5>1 DEF Grows
      <4>3. CASE j \notin Kept
        BY <1>3, <1>4, <3>1, <4>1, <4>3 DEF Kept
      <4>4. QED
        BY <4>2, <4>3
    <3>3. \A w \in sent' : memory[d][w[1]] = w[2]
      BY <1>5, <3>1
    <3>4. QED
      BY <1>5, <3>1, <3>2, <3>3 DEF Own
  <2>4. \A d \in Copies : Own(d)'
    BY <1>5, <2>3 DEF Own, Under
  <2>5. \A step \in made' : Reached(step)'
    BY <1>1, <1>4, <1>5, <2>1, StillReached, HistoryTypes DEF Single
  <2>6. QED
    BY <2>2, <2>4, <2>5 DEF Single
<1>8. QED
  BY <1>1, <1>6, <1>7 DEF RunInv

(* A step that touches none of it. *)
LEMMA NoneRuns ==
  ASSUME RunInv, RecallInv',
         UNCHANGED <<journal, sent, attempt, memory, held, made, overlapped, strayed>>
  PROVE  RunInv'
<1>1. \A d \in Copies : Remembers(d)'
  BY LeftRemembers DEF RunInv
<1>2. Kept' = Kept /\ Grows /\ RecallInv /\ IInv
  BY SameKept DEF RunInv, RecallInv
<1>3. ASSUME Single PROVE Single'
  <2>1. Alone' /\ \A d \in Copies : Own(d)'
    BY <1>2, <1>3 DEF Single, Alone, Own, Under
  <2>2. \A step \in made' : Reached(step)'
    BY <1>2, <1>3, StillReached, HistoryTypes DEF Single
  <2>3. QED
    BY <2>1, <2>2 DEF Single
<1>4. QED
  BY <1>1, <1>3 DEF RunInv

(* What an attempt was given it holds, and the attempts that were made one *)
(* after another, with nothing on its way between them, are as one.        *)
THEOREM RunInvariance == JournalSpec => []RunInv
<1>1. JournalInit /\ RecallInv => RunInv
  <2> SUFFICES ASSUME JournalInit, RecallInv PROVE RunInv
    OBVIOUS
  <2>1. \A c \in Copies : ~Under(c) /\ attempt[c].given = <<>>
    BY DEF JournalInit, Under, Resting
  <2>2. \A c \in Copies : Remembers(c)
    BY <2>1 DEF Remembers
  <2>3. Single
    BY <2>1 DEF Single, Alone, Own, JournalInit
  <2>4. QED
    BY <2>2, <2>3 DEF RunInv
<1>2. RunInv /\ RecallInv' /\ [JournalNext]_journalVars => RunInv'
  <2> SUFFICES ASSUME RunInv, RecallInv', [JournalNext]_journalVars PROVE RunInv'
    OBVIOUS
  <2>1. CASE JournalNext
    <3>1. ASSUME NEW c \in Copies, NEW k \in writing[c], Landed(c, k) PROVE RunInv'
      BY <3>1, NoneRuns DEF Landed, histories
    <3>2. QED
      BY <2>1, <3>1, DeliverRuns, RecallRuns, GiveBackRuns, ValueRuns, MakeRuns,
         RecordRuns, RaisesRuns, FinishRuns, ReachesRuns
         DEF JournalNext
  <2>2. CASE UNCHANGED journalVars
    BY <2>2, NoneRuns DEF journalVars
  <2>3. QED
    BY <2>1, <2>2
<1>3. QED
  BY <1>1, <1>2, RecallInvariance, PTL DEF JournalSpec

(* A step is made under one identity by all the attempts of a run, where   *)
(* they are made one after another and none begins while a write of an     *)
(* earlier one is on its way: Run.step, Run.value.                         *)
THEOREM SameStep == JournalSpec => []OneIdentity
<1>1. ASSUME RunInv, ~overlapped, ~strayed, NEW x \in made, NEW y \in made, x[1] = y[1] PROVE x[2] = y[2]
  <2>1. IInv /\ Single
    BY <1>1 DEF RunInv, RecallInv
  <2>2. x[1] \in Asks /\ y[1] \in Asks
    BY <2>1, HistoryTypes
  <2>3. PICK g \in Seq(Answers) : Len(g) = x[1] - 1 /\ KeptAll(g) /\ x[2] = KeyOf(g, x[1])
    BY <2>1 DEF Single, Reached
  <2>4. PICK h \in Seq(Answers) : Len(h) = y[1] - 1 /\ KeptAll(h) /\ y[2] = KeyOf(h, y[1])
    BY <2>1 DEF Single, Reached
  <2>5. KeyOf(g, x[1]) = KeyOf(h, x[1])
    BY <1>1, <2>2, <2>3, <2>4, OneWay
  <2>6. QED
    BY <1>1, <2>3, <2>4, <2>5
<1>2. RunInv => OneIdentity
  BY <1>1 DEF OneIdentity, Twice
<1>3. QED
  BY <1>2, RunInvariance, PTL
=============================================================================
