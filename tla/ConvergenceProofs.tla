------------------------- MODULE ConvergenceProofs --------------------------
(***************************************************************************)
(* Convergence for any number of regions, writes, repetitions and orders   *)
(* of arrival, as long as every write is published as its region made it,  *)
(* whichever kind of operation makes it.                                   *)
(***************************************************************************)
EXTENDS Convergence, TLAPS

(* What a region knows was written, and what it wrote it knows. *)
OwnKnown ==
  /\ \A r \in Regions : rows[r] \subseteq written /\ queue[r] \subseteq written
                        /\ known[r] \subseteq written
  /\ \A m \in written : \E r \in Regions : m.region = Rank[r] /\ m \in known[r]
  /\ \A m \in written : m.version > 0

(* What a region has been offered: it knows it, or has it queued or parked. *)
Offered(q) == known[q] \cup queue[q] \cup parked[q]

(* A written record was offered to a region, or is in a row of another. *)
Spread ==
  \A m \in written, q \in Regions :
    m \in Offered(q) \/ \E r \in Regions \ {q} : m \in rows[r]

(* OrderFree and Decided, of a history in which every write was stamped. *)
Ordered ==
  \A r \in Regions : /\ stored[r] \in known[r] \cup {Absent}
                     /\ \A m \in known[r] : ~Beats(m, stored[r])

Tieless == \A m, n \in written : m.version = n.version /\ m.region = n.region => m = n

IInv == TypeOK /\ OwnKnown /\ Spread /\ Ordered /\ Tieless

(* The inductive invariant: all of that until a write is not stamped. *)
SInv == TypeOK /\ (Stamped => IInv)

-----------------------------------------------------------------------------
(* The rule of the storage is the order of records. *)
LEMMA Rule ==
  ASSUME NEW m \in Record, NEW s \in Record
  PROVE  Supersedes(m, s) <=> Beats(m, s)
BY DEF Supersedes, Beats, Record

(* A missing record is a record. *)
LEMMA AbsentRecord == Absent \in Record
BY DEF Absent, Record, FIRST

(* What a record does not beat, nothing it beats beats. *)
LEMMA Transitive ==
  ASSUME NEW a \in Record, NEW b \in Record, NEW c \in Record, Beats(b, c), ~Beats(a, c)
  PROVE  ~Beats(a, b)
BY DEF Beats, Record

(* No record beats itself. *)
LEMMA Irreflexive == \A a \in Record : ~Beats(a, a)
BY DEF Beats, Record

(* A stamped write keeps the invariant: its version is new to its region. *)
LEMMA CommitStep ==
  ASSUME IInv, NEW r \in Regions, NEW m \in Record, m.version = stored[r].version + 1,
         m.region = Rank[r], Commit(r, m, m)
  PROVE  IInv'
<1> USE RanksAssumption
<1>0. stored[r] \in Record /\ stored[r].version \in Nat
  BY DEF IInv, TypeOK, Record
<1>2. m \in Record /\ m.version = stored[r].version + 1 /\ m.region = Rank[r]
  OBVIOUS
<1>4. /\ stored' = [stored EXCEPT ![r] = m]
      /\ rows' = [rows EXCEPT ![r] = @ \cup {m}]
      /\ known' = [known EXCEPT ![r] = @ \cup {m}]
      /\ written' = written \cup {m}
      /\ queue' = queue /\ parked' = parked
  BY DEF Commit
<1>5. TypeOK'
  BY <1>2, <1>4 DEF IInv, TypeOK
<1>6. OwnKnown'
  <2>1. \A q \in Regions : rows'[q] \subseteq written' /\ queue'[q] \subseteq written'
                           /\ known'[q] \subseteq written'
    BY <1>4 DEF IInv, TypeOK, OwnKnown
  <2>2. ASSUME NEW n \in written' PROVE \E q \in Regions : n.region = Rank[q] /\ n \in known'[q]
    <3>1. CASE n = m
      BY <3>1, <1>2, <1>4 DEF IInv, TypeOK
    <3>2. CASE n \in written
      <4>1. PICK q \in Regions : n.region = Rank[q] /\ n \in known[q]
        BY <3>2 DEF IInv, OwnKnown
      <4>2. n \in known'[q]
        BY <4>1, <1>4 DEF IInv, TypeOK
      <4>3. QED
        BY <4>1, <4>2
    <3>3. QED
      BY <3>1, <3>2, <1>4
  <2>3. \A n \in written' : n.version > 0
    BY <1>0, <1>2, <1>4 DEF IInv, OwnKnown
  <2>4. QED
    BY <2>1, <2>2, <2>3 DEF OwnKnown
<1>7. Spread'
  <2> SUFFICES ASSUME NEW n \in written', NEW q \in Regions
               PROVE  n \in Offered(q)' \/ \E s \in Regions \ {q} : n \in rows'[s]
    BY DEF Spread
  <2>1. CASE n = m
    BY <2>1, <1>4 DEF IInv, TypeOK, Offered
  <2>2. CASE n \in written
    <3>1. n \in Offered(q) \/ \E s \in Regions \ {q} : n \in rows[s]
      BY <2>2 DEF IInv, Spread
    <3>2. Offered(q) \subseteq Offered(q)' /\ \A s \in Regions : rows[s] \subseteq rows'[s]
      BY <1>4 DEF IInv, TypeOK, Offered
    <3>3. QED
      BY <3>1, <3>2, <1>4
  <2>3. QED
    BY <2>1, <2>2, <1>4
<1>8. \A n \in known[r] : n.version <= stored[r].version /\ ~Beats(n, m)
  BY <1>0, <1>2 DEF IInv, TypeOK, Ordered, Beats, Record
<1>9. Ordered'
  <2> SUFFICES ASSUME NEW q \in Regions
               PROVE  /\ stored'[q] \in known'[q] \cup {Absent}
                      /\ \A n \in known'[q] : ~Beats(n, stored'[q])
    BY DEF Ordered
  <2>1. CASE q = r
    <3>1. stored'[q] = m /\ known'[q] = known[r] \cup {m}
      BY <2>1, <1>4 DEF IInv, TypeOK
    <3>2. QED
      BY <3>1, <1>2, <1>8, Irreflexive
  <2>2. CASE q # r
    <3>1. stored'[q] = stored[q] /\ known'[q] = known[q]
      BY <2>2, <1>4 DEF IInv, TypeOK
    <3>2. QED
      BY <3>1 DEF IInv, Ordered
  <2>3. QED
    BY <2>1, <2>2
<1>10. Tieless'
  <2>1. ASSUME NEW n \in written, n.version = m.version, n.region = m.region PROVE FALSE
    <3>1. PICK q \in Regions : n.region = Rank[q] /\ n \in known[q]
      BY DEF IInv, OwnKnown
    <3>2. q = r
      BY <2>1, <3>1, <1>2
    <3>3. QED
      BY <3>1, <3>2, <2>1, <1>0, <1>2, <1>8
  <2>2. QED
    BY <2>1, <1>4 DEF IInv, Tieless
<1>11. QED
  BY <1>5, <1>6, <1>7, <1>9, <1>10 DEF IInv

(* A publication keeps the invariant: what leaves a row is on its way. *)
LEMMA SendStep ==
  ASSUME IInv, NEW r \in Regions, NEW m \in rows[r], NEW settled \in BOOLEAN,
         Send(r, m, settled)
  PROVE  IInv'
<1>1. /\ queue' = [q \in Regions |-> IF q = r THEN queue[q] ELSE queue[q] \cup {m}]
      /\ rows' = IF settled THEN [rows EXCEPT ![r] = @ \ {m}] ELSE rows
      /\ UNCHANGED <<stored, parked, known, written>>
  BY DEF Send
<1>2. m \in Record /\ m \in written
  BY DEF IInv, TypeOK, OwnKnown
<1>3. \A q \in Regions : rows'[q] \subseteq rows[q] /\ rows'[q] \in SUBSET Record
  BY <1>1 DEF IInv, TypeOK
<1>4. TypeOK'
  <2>1. queue' \in [Regions -> SUBSET Record]
    BY <1>1, <1>2 DEF IInv, TypeOK
  <2>2. rows' \in [Regions -> SUBSET Record]
    BY <1>1 DEF IInv, TypeOK
  <2>3. QED
    BY <1>1, <2>1, <2>2 DEF IInv, TypeOK
<1>5. OwnKnown'
  BY <1>1, <1>2, <1>3 DEF IInv, OwnKnown
<1>6. Spread'
  <2> SUFFICES ASSUME NEW n \in written, NEW q \in Regions
               PROVE  n \in Offered(q)' \/ \E s \in Regions \ {q} : n \in rows'[s]
    BY <1>1 DEF Spread
  <2>1. CASE n \in Offered(q)
    BY <2>1, <1>1 DEF Offered
  <2>2. ASSUME NEW s \in Regions \ {q}, n \in rows[s]
        PROVE  n \in queue'[q] \/ n \in rows'[s]
    <3>1. CASE s = r /\ n = m
      BY <3>1, <1>1
    <3>2. CASE ~(s = r /\ n = m)
      BY <2>2, <3>2, <1>1 DEF IInv, TypeOK
    <3>3. QED
      BY <3>1, <3>2
  <2>3. QED
    BY <2>1, <2>2 DEF IInv, Spread, Offered
<1>7. Ordered' /\ Tieless'
  BY <1>1 DEF IInv, Ordered, Tieless
<1>8. QED
  BY <1>4, <1>5, <1>6, <1>7 DEF IInv

(* An arrival keeps the invariant: it stores the greater of two records. *)
LEMMA AcceptStep ==
  ASSUME IInv, NEW r \in Regions, NEW m \in queue[r], NEW ok \in BOOLEAN, Accept(r, m, ok)
  PROVE  IInv'
<1>1. /\ stored' = [stored EXCEPT ![r] = IF Supersedes(m, @) THEN m ELSE @]
      /\ queue' = IF ok THEN [queue EXCEPT ![r] = @ \ {m}] ELSE queue
      /\ known' = [known EXCEPT ![r] = @ \cup {m}]
      /\ UNCHANGED <<rows, parked, written>>
  BY DEF Accept
<1>2. m \in Record /\ m \in written /\ stored[r] \in Record
  BY DEF IInv, TypeOK, OwnKnown
<1>3. /\ \A q \in Regions : known[q] \subseteq known'[q]
      /\ known'[r] = known[r] \cup {m}
      /\ \A q \in Regions \ {r} : known'[q] = known[q] /\ stored'[q] = stored[q]
                                  /\ queue'[q] = queue[q]
  BY <1>1 DEF IInv, TypeOK
<1>4. stored'[r] = IF Supersedes(m, stored[r]) THEN m ELSE stored[r]
  BY <1>1 DEF IInv, TypeOK
<1>5. queue'[r] \subseteq queue[r] /\ queue[r] \subseteq queue'[r] \cup {m}
  BY <1>1 DEF IInv, TypeOK
<1>6. TypeOK'
  <2>1. stored' \in [Regions -> Record] /\ known' \in [Regions -> SUBSET Record]
    BY <1>1, <1>2 DEF IInv, TypeOK
  <2>2. queue' \in [Regions -> SUBSET Record]
    BY <1>1 DEF IInv, TypeOK
  <2>3. QED
    BY <1>1, <2>1, <2>2 DEF IInv, TypeOK
<1>7. OwnKnown'
  <2>1. \A q \in Regions : rows'[q] \subseteq written' /\ queue'[q] \subseteq written'
                           /\ known'[q] \subseteq written'
    BY <1>1, <1>2, <1>3, <1>5 DEF IInv, OwnKnown
  <2>2. \A n \in written' : (\E q \in Regions : n.region = Rank[q] /\ n \in known'[q])
                            /\ n.version > 0
    BY <1>1, <1>3 DEF IInv, OwnKnown
  <2>3. QED
    BY <2>1, <2>2 DEF OwnKnown
<1>8. Spread'
  <2> SUFFICES ASSUME NEW n \in written, NEW q \in Regions
               PROVE  n \in Offered(q)' \/ \E s \in Regions \ {q} : n \in rows[s]
    BY <1>1 DEF Spread
  <2>1. n \in Offered(q) \/ \E s \in Regions \ {q} : n \in rows[s]
    BY DEF IInv, Spread
  <2>2. Offered(q) \subseteq Offered(q)'
    BY <1>1, <1>3, <1>5 DEF Offered
  <2>3. QED
    BY <2>1, <2>2
<1>9. Ordered'
  <2> SUFFICES ASSUME NEW q \in Regions
               PROVE  /\ stored'[q] \in known'[q] \cup {Absent}
                      /\ \A n \in known'[q] : ~Beats(n, stored'[q])
    BY DEF Ordered
  <2>0. /\ stored[q] \in known[q] \cup {Absent} /\ known[q] \subseteq Record
        /\ \A n \in known[q] : ~Beats(n, stored[q])
    BY DEF IInv, Ordered, TypeOK
  <2>1. CASE q # r
    BY <2>0, <2>1, <1>3
  <2>2. CASE q = r /\ Supersedes(m, stored[r])
    <3>1. Beats(m, stored[r])
      BY <2>2, <1>2, Rule
    <3>2. \A n \in known[r] : ~Beats(n, m)
      BY <2>0, <2>2, <3>1, <1>2, Transitive
    <3>3. QED
      BY <2>2, <3>2, <1>2, <1>3, <1>4, Irreflexive
  <2>3. CASE q = r /\ ~Supersedes(m, stored[r])
    <3>1. ~Beats(m, stored[r])
      BY <2>3, <1>2, Rule
    <3>2. QED
      BY <2>0, <2>3, <3>1, <1>3, <1>4
  <2>4. QED
    BY <2>1, <2>2, <2>3
<1>10. Tieless'
  BY <1>1 DEF IInv, Tieless
<1>11. QED
  BY <1>6, <1>7, <1>8, <1>9, <1>10 DEF IInv

(* Parking keeps the invariant: what was queued is parked. *)
LEMMA ParkStep ==
  ASSUME IInv, NEW r \in Regions, NEW m \in queue[r], Park(r, m)
  PROVE  IInv'
<1>1. /\ queue' = [queue EXCEPT ![r] = @ \ {m}]
      /\ parked' = [parked EXCEPT ![r] = @ \cup {m}]
      /\ UNCHANGED <<stored, rows, known, written>>
  BY DEF Park
<1>2. m \in Record
  BY DEF IInv, TypeOK
<1>3. \A q \in Regions : queue'[q] \subseteq queue[q]
  BY <1>1 DEF IInv, TypeOK
<1>4. \A q \in Regions : queue[q] \cup parked[q] \subseteq queue'[q] \cup parked'[q]
  BY <1>1 DEF IInv, TypeOK
<1>5. TypeOK'
  BY <1>1, <1>2 DEF IInv, TypeOK
<1>6. OwnKnown'
  BY <1>1, <1>3 DEF IInv, OwnKnown
<1>7. Spread'
  <2>1. \A q \in Regions : Offered(q) \subseteq Offered(q)'
    BY <1>1, <1>4 DEF Offered
  <2>2. QED
    BY <1>1, <2>1 DEF IInv, Spread
<1>8. Ordered' /\ Tieless'
  BY <1>1 DEF IInv, Ordered, Tieless
<1>9. QED
  BY <1>5, <1>6, <1>7, <1>8 DEF IInv

(* The invariant holds at the start. *)
LEMMA Initially == Init => IInv
<1> SUFFICES ASSUME Init PROVE IInv
  OBVIOUS
<1>1. TypeOK
  BY AbsentRecord DEF Init, TypeOK
<1>2. OwnKnown /\ Spread /\ Ordered /\ Tieless
  BY DEF Init, OwnKnown, Spread, Ordered, Tieless
<1>3. QED
  BY <1>1, <1>2 DEF IInv

(* Regions that have taken everything that was written hold one record.    *)
LEMMA QuietIsEqual == IInv /\ Quiet => Same
<1> SUFFICES ASSUME IInv, Quiet, NEW r \in Regions, NEW q \in Regions
             PROVE  stored[r] = stored[q]
  BY DEF Same
<1>1. ASSUME NEW p \in Regions PROVE known[p] = written
  <2>1. \A m \in written : m \in known[p]
    BY DEF IInv, Spread, Quiet, NoneMissing, Offered
  <2>2. QED
    BY <2>1 DEF IInv, OwnKnown
<1>2. /\ stored[r] \in written \cup {Absent} /\ stored[q] \in written \cup {Absent}
      /\ \A m \in written : ~Beats(m, stored[r]) /\ ~Beats(m, stored[q])
  BY <1>1 DEF IInv, Ordered
<1>3. stored[r] \in Record /\ stored[q] \in Record
  BY DEF IInv, TypeOK
<1>4. \A m \in written : m.version > 0 /\ Absent.version = 0 /\ m \in Record
  BY DEF IInv, OwnKnown, Absent, TypeOK
<1>5. CASE stored[r] = Absent
  BY <1>2, <1>3, <1>4, <1>5 DEF Beats, Record
<1>6. CASE stored[q] = Absent
  BY <1>2, <1>3, <1>4, <1>6 DEF Beats, Record
<1>7. CASE stored[r] \in written /\ stored[q] \in written
  <2>1. ~Beats(stored[r], stored[q]) /\ ~Beats(stored[q], stored[r])
    BY <1>2, <1>7
  <2>2. stored[r].version = stored[q].version /\ stored[r].region = stored[q].region
    BY <2>1, <1>3 DEF Beats, Record
  <2>3. QED
    BY <2>2, <1>7 DEF IInv, Tieless
<1>8. QED
  BY <1>2, <1>5, <1>6, <1>7

-----------------------------------------------------------------------------
(* A write of any kind leaves records. *)
LEMMA CommitTyped ==
  ASSUME TypeOK, NEW r \in Regions, NEW record \in Record, NEW state \in Record,
         Commit(r, record, state)
  PROVE  TypeOK'
BY DEF Commit, TypeOK

(* An assignment makes a record of the version after, of a value of its own. *)
LEMMA AssignmentRecord ==
  ASSUME TypeOK, NEW r \in Regions, NEW deleted \in BOOLEAN, Assignment(r, deleted)
  PROVE  \E m \in Record : /\ m.version = stored[r].version + 1
                            /\ m.value = <<r, stored[r].version + 1>>
                            /\ Commit(r, m, m)
<1>0. stored[r] \in Record /\ stored[r].version \in Nat
  BY DEF TypeOK, Record
<1>1. PICK m : m = [stored[r] EXCEPT !.version = stored[r].version + 1, !.deleted = deleted,
                                     !.value = <<r, stored[r].version + 1>>]
  OBVIOUS
<1>2. PICK version \in Nat : version = stored[r].version + 1
  BY <1>0
<1>3. PICK value \in Regions \X Nat : value = <<r, version>>
  BY <1>2
<1>4. PICK s \in Record : s = stored[r]
  BY <1>0
<1>5. m = [s EXCEPT !.version = version, !.deleted = deleted, !.value = value]
  BY <1>1, <1>2, <1>3, <1>4
<1>6. m \in Record /\ m.version = version /\ m.value = value
  <2>1. PICK V : V = (Regions \X Nat) \cup {<<>>}
    OBVIOUS
  <2>2. s \in [version : Nat, region : Nat, deleted : BOOLEAN, value : V] /\ value \in V
    BY <2>1 DEF Record
  <2>3. /\ m \in [version : Nat, region : Nat, deleted : BOOLEAN, value : V]
        /\ m.version = version
        /\ m.value = value
    BY <1>5, <2>2
  <2>4. QED
    BY <2>1, <2>3 DEF Record
<1>7. Commit(r, m, m)
  BY <1>1 DEF Assignment
<1>8. QED
  BY <1>2, <1>3, <1>6, <1>7

(* Every step of any kind leaves records. *)
LEMMA RecordsTyped ==
  ASSUME TypeOK, [Next]_vars
  PROVE  TypeOK'
<1>1. CASE UNCHANGED vars
  BY <1>1 DEF vars, TypeOK
<1>2. ASSUME NEW r \in Regions, NEW deleted \in BOOLEAN, Transition(r, deleted)
      PROVE  TypeOK'
  <2>1. stored[r].version \in Nat /\ Rank[r] \in Nat
    BY RanksAssumption DEF TypeOK, Record
  <2>2. PICK m : m = [version |-> stored[r].version + 1, region |-> Rank[r],
                      deleted |-> deleted, value |-> <<r, stored[r].version + 1>>]
    OBVIOUS
  <2>3. m \in Record
    BY <2>1, <2>2 DEF Record
  <2>4. Commit(r, m, m)
    BY <1>2, <2>2 DEF Transition
  <2>5. QED
    BY <2>3, <2>4, CommitTyped
<1>3. ASSUME NEW r \in Regions, NEW deleted \in BOOLEAN, Assignment(r, deleted)
      PROVE  TypeOK'
  <2>1. PICK m \in Record : Commit(r, m, m)
    BY <1>3, AssignmentRecord
  <2>2. QED
    BY <2>1, CommitTyped
<1>4. ASSUME NEW r \in Regions, MassStore(r)
      PROVE  TypeOK'
  <2>1. stored[r].version \in Nat /\ Rank[r] \in Nat
    BY RanksAssumption DEF TypeOK, Record
  <2>2. PICK m : m = [version |-> stored[r].version + 1, region |-> Rank[r],
                      deleted |-> FALSE, value |-> <<r, stored[r].version + 1>>]
    OBVIOUS
  <2>3. PICK n : n = [m EXCEPT !.version = 1]
    OBVIOUS
  <2>4. m \in Record
    BY <2>1, <2>2 DEF Record
  <2>5. n \in Record
    BY <2>3, <2>4 DEF Record
  <2>6. Commit(r, m, n)
    BY <1>4, <2>2, <2>3 DEF MassStore
  <2>7. QED
    BY <2>4, <2>5, <2>6, CommitTyped
<1>5. ASSUME NEW r \in Regions, NEW m \in rows[r], NEW settled \in BOOLEAN, Send(r, m, settled)
      PROVE  TypeOK'
  <2>1. m \in Record
    BY DEF TypeOK
  <2>2. QED
    BY <1>5, <2>1 DEF Send, TypeOK
<1>6. ASSUME NEW r \in Regions, NEW m \in queue[r], NEW ok \in BOOLEAN, Accept(r, m, ok)
      PROVE  TypeOK'
  <2>1. m \in Record /\ stored \in [Regions -> Record]
    BY DEF TypeOK
  <2>2. stored' = [stored EXCEPT ![r] = IF Supersedes(m, stored[r]) THEN m ELSE stored[r]]
    BY <1>6 DEF Accept
  <2>3. stored' \in [Regions -> Record]
    BY <2>1, <2>2
  <2>4. QED
    BY <1>6, <2>1, <2>3 DEF Accept, TypeOK
<1>7. ASSUME NEW r \in Regions, NEW m \in queue[r], Park(r, m)
      PROVE  TypeOK'
  <2>1. m \in Record
    BY DEF TypeOK
  <2>2. QED
    BY <1>7, <2>1 DEF Park, TypeOK
<1>8. QED
  BY <1>1, <1>2, <1>3, <1>4, <1>5, <1>6, <1>7 DEF Next

-----------------------------------------------------------------------------
(* A write is stamped by what follows it, and then it keeps the invariant. *)
LEMMA WriteStep ==
  ASSUME IInv, Stamped', NEW r \in Regions,
         \/ \E deleted \in BOOLEAN : Transition(r, deleted) \/ Assignment(r, deleted)
         \/ MassStore(r)
  PROVE  IInv'
<1>0. TypeOK /\ stored[r] \in Record /\ stored[r].version \in Nat /\ Rank[r] \in Nat
  BY RanksAssumption DEF IInv, TypeOK, Record
<1>1. ASSUME NEW deleted \in BOOLEAN, Transition(r, deleted)
      PROVE  IInv'
  <2>1. PICK m : m = [version |-> stored[r].version + 1, region |-> Rank[r],
                      deleted |-> deleted, value |-> <<r, stored[r].version + 1>>]
    OBVIOUS
  <2>2. m \in Record /\ m.version = stored[r].version + 1 /\ m.region = Rank[r]
    BY <1>0, <2>1 DEF Record
  <2>3. Commit(r, m, m)
    BY <1>1, <2>1 DEF Transition
  <2>4. QED
    BY <2>2, <2>3, CommitStep
<1>2. ASSUME NEW deleted \in BOOLEAN, Assignment(r, deleted)
      PROVE  IInv'
  <2>1. PICK m \in Record : /\ m.version = stored[r].version + 1
                            /\ m.value = <<r, stored[r].version + 1>>
                            /\ Commit(r, m, m)
    BY <1>0, <1>2, AssignmentRecord
  <2>2. m \in written'
    BY <2>1 DEF Commit
  <2>3. m.region = Rank[r]
    BY <2>1, <2>2 DEF Stamped
  <2>4. QED
    BY <2>1, <2>3, CommitStep
<1>3. ASSUME MassStore(r)
      PROVE  FALSE
  <2>1. PICK m : m = [version |-> stored[r].version + 1, region |-> Rank[r],
                      deleted |-> FALSE, value |-> <<r, stored[r].version + 1>>]
    OBVIOUS
  <2>2. PICK n : n = [m EXCEPT !.version = 1]
    OBVIOUS
  <2>3. n.version = 1 /\ n.value = <<r, stored[r].version + 1>>
    BY <2>1, <2>2
  <2>4. n \in written' /\ stored[r].deleted
    BY <1>3, <2>1, <2>2 DEF MassStore, Commit
  <2>5. stored[r].version = 0
    BY <1>0, <2>3, <2>4 DEF Stamped
  <2>6. stored[r] # Absent
    BY <2>4 DEF Absent
  <2>7. stored[r] \in written
    BY <2>6 DEF IInv, Ordered, OwnKnown
  <2>8. QED
    BY <2>5, <2>7 DEF IInv, OwnKnown
<1>4. QED
  BY <1>1, <1>2, <1>3

(* What was stamped before a step that leaves every write stamped. *)
LEMMA StampedBefore ==
  ASSUME TypeOK, [Next]_vars, Stamped'
  PROVE  Stamped
<1>1. written \subseteq written'
  BY DEF Next, vars, Transition, Assignment, MassStore, Send, Accept, Park, Commit
<1>2. QED
  BY <1>1 DEF Stamped

(* The invariant, for operations of every kind. *)
THEOREM Invariance == Spec => []SInv
<1>1. Init => SInv
  BY Initially DEF SInv, IInv
<1>2. SInv /\ [Next]_vars => SInv'
  <2> SUFFICES ASSUME SInv, [Next]_vars PROVE SInv'
    OBVIOUS
  <2>1. TypeOK'
    BY RecordsTyped DEF SInv
  <2>2. ASSUME Stamped' PROVE IInv'
    <3>1. IInv
      BY <2>2, StampedBefore DEF SInv
    <3>2. CASE UNCHANGED vars
      BY <3>1, <3>2 DEF vars, IInv, TypeOK, OwnKnown, Spread, Offered, Ordered,
                          Tieless
    <3>3. CASE Next
      BY <2>2, <3>1, <3>3, WriteStep, SendStep, AcceptStep, ParkStep DEF Next
    <3>4. QED
      BY <3>2, <3>3
  <2>3. QED
    BY <2>1, <2>2 DEF SInv
<1>3. QED
  BY <1>1, <1>2, PTL DEF Spec

(* Every region ends with the same record, whatever order records arrive   *)
(* in and however often they repeat, as long as every write was published  *)
(* as its region made it, and none was parked before it converged: for any *)
(* regions, writes and kinds of them.                                      *)
THEOREM RegionsConverge == Spec => []Converged
<1>1. SInv => Converged
  BY QuietIsEqual DEF SInv, Converged
<1>2. QED
  BY <1>1, Invariance, PTL

(* What a region stores is the greatest of the records that reached it. *)
THEOREM OrderIsImmaterial == Spec => []OrderFree
<1>1. SInv => OrderFree
  BY DEF SInv, IInv, OrderFree, Ordered
<1>2. QED
  BY <1>1, Invariance, PTL

(* No two written records tie. *)
THEOREM TiesAreDecided == Spec => []Decided
<1>1. SInv => Decided
  BY DEF SInv, IInv, Decided, Tieless
<1>2. QED
  BY <1>1, Invariance, PTL
=============================================================================
