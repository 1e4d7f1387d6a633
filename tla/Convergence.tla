---------------------------- MODULE Convergence -----------------------------
(***************************************************************************)
(* One record in several regions: extensions/convergence over the outbox   *)
(* and storages.mongodb converge.                                          *)
(*                                                                         *)
(* Each region writes its own copy.  The row of a write carries the record *)
(* as it was written to every other region, at least once and in no order, *)
(* and there it replaces what it supersedes: a lower VERSION, or the same  *)
(* VERSION of a REGION with a greater rank.  A delivery that fails is made *)
(* again until the attempts of the channel run out, and is then parked.    *)
(*                                                                         *)
(* A write is atomic here: Transition shows that what it commits is one    *)
(* version after what is stored.  The value of a record names the write:   *)
(* where it was made, and the version it made there.                       *)
(***************************************************************************)
EXTENDS Integers, FiniteSets

CONSTANTS
  Regions,     \* deployments of the context
  Rank,        \* the `priority` each is declared with
  Ops,         \* the operations the component has, of Kinds
  MaxWrites    \* bound: records written

Kinds == {"transition", "assignment", "set"}

ASSUME RanksAssumption ==
  /\ Rank \in [Regions -> Nat]
  /\ \A r, q \in Regions : Rank[r] = Rank[q] => r = q

ASSUME OpsAssumption == Ops \subseteq Kinds /\ MaxWrites \in Nat

VARIABLES
  stored,   \* the record in each region
  rows,     \* records in outbox rows of each region, not yet settled
  queue,    \* records delivered to each region, not yet acknowledged
  parked,   \* records whose attempts ran out in each region, kept for a person
  known,    \* history: the records a region has written or been offered
  written   \* history: the records that were written anywhere

vars == <<stored, rows, queue, parked, known, written>>

FIRST == 0

Record == [version : Nat, region : Nat, deleted : BOOLEAN, value : (Regions \X Nat) \cup {<<>>}]

(* What a missing record reads as: version 0, of the first region. *)
Absent == [version |-> 0, region |-> FIRST, deleted |-> FALSE, value |-> <<>>]

-----------------------------------------------------------------------------
\* mutant: ties are not resolved
SupersedesNewer(m, s) == s.version < m.version

(* Whether m replaces s. *)
Supersedes(m, s) ==
  s.version < m.version \/ (s.version = m.version /\ s.region > m.region)

(* Region r stores one record and commits a row with another, which is the *)
(* same wherever the write knew the version it was making.                 *)
Commit(r, record, state) ==
  /\ stored' = [stored EXCEPT ![r] = record]
  /\ rows' = [rows EXCEPT ![r] = @ \cup {state}]
  /\ known' = [known EXCEPT ![r] = @ \cup {state}]
  /\ written' = written \cup {state}
  /\ UNCHANGED <<queue, parked>>

\* mutant: what is revived keeps the version it was removed at
TransitionRevived(r, deleted) ==
  LET version == stored[r].version + IF stored[r].deleted THEN 0 ELSE 1
      record == [version |-> version, region |-> Rank[r], deleted |-> deleted,
                 value |-> <<r, version>>]
  IN
  /\ "transition" \in Ops
  /\ deleted => stored[r].version # 0
  /\ Cardinality(written) < MaxWrites
  /\ Commit(r, record, record)

(* A transition, which may remove the record or revive it. The entity is   *)
(* stamped with the next version and with the region that writes it.       *)
Transition(r, deleted) ==
  LET version == stored[r].version + 1
      record == [version |-> version, region |-> Rank[r], deleted |-> deleted,
                 value |-> <<r, version>>]
  IN
  /\ "transition" \in Ops
  /\ deleted => stored[r].version # 0
  /\ Cardinality(written) < MaxWrites
  /\ Commit(r, record, record)

(* An assignment, which may remove the record and revives it otherwise: the *)
(* changeset is stamped with the time alone, so the record keeps the region *)
(* of the write before.                                                    *)
Assignment(r, deleted) ==
  LET version == stored[r].version + 1
      record == [stored[r] EXCEPT !.version = version, !.deleted = deleted,
                                  !.value = <<r, version>>]
  IN
  /\ "assignment" \in Ops
  /\ stored[r].version # 0
  /\ Cardinality(written) < MaxWrites
  /\ Commit(r, record, record)

(* A transition over a set that did not find the record, because it is a   *)
(* tombstone: it revives it at the version after, and its row holds the    *)
(* first version of a blank.                                               *)
MassStore(r) ==
  LET version == stored[r].version + 1
      record == [version |-> version, region |-> Rank[r], deleted |-> FALSE,
                 value |-> <<r, version>>]
  IN
  /\ "set" \in Ops
  /\ stored[r].deleted
  /\ Cardinality(written) < MaxWrites
  /\ Commit(r, record, [record EXCEPT !.version = 1])

\* mutant: the row is settled as it is handed over, and not once it has landed
SendUnconfirmed(r, m, settled) ==
  /\ m \in rows[r]
  /\ \/ UNCHANGED queue
     \/ queue' = [q \in Regions |-> IF q = r THEN queue[q] ELSE queue[q] \cup {m}]
  /\ rows' = [rows EXCEPT ![r] = @ \ {m}]
  /\ UNCHANGED <<stored, parked, known, written>>

(* The outbox of r publishes a row, and settles it or does not live to.    *)
Send(r, m, settled) ==
  /\ m \in rows[r]
  /\ queue' = [q \in Regions |-> IF q = r THEN queue[q] ELSE queue[q] \cup {m}]
  /\ rows' = IF settled THEN [rows EXCEPT ![r] = @ \ {m}] ELSE rows
  /\ UNCHANGED <<stored, parked, known, written>>

\* mutant: a delivery that fails is acknowledged, before it is converged
AcceptAcknowledged(r, m, ok) ==
  /\ m \in queue[r]
  /\ stored' = [stored EXCEPT ![r] = IF ok /\ Supersedes(m, @) THEN m ELSE @]
  /\ queue' = [queue EXCEPT ![r] = @ \ {m}]
  /\ known' = [known EXCEPT ![r] = @ \cup {m}]
  /\ UNCHANGED <<rows, parked, written>>

(* Region r takes a record: what it supersedes is replaced, in one update. *)
(* The delivery fails where something after that does, and is repeated; one *)
(* that fails before it changes nothing.                                   *)
Accept(r, m, ok) ==
  /\ m \in queue[r]
  /\ stored' = [stored EXCEPT ![r] = IF Supersedes(m, @) THEN m ELSE @]
  /\ queue' = IF ok THEN [queue EXCEPT ![r] = @ \ {m}] ELSE queue
  /\ known' = [known EXCEPT ![r] = @ \cup {m}]
  /\ UNCHANGED <<rows, parked, written>>

(* The attempts at a record ran out, whether it was converged by one of    *)
(* them or by none.                                                        *)
Park(r, m) ==
  /\ m \in queue[r]
  /\ queue' = [queue EXCEPT ![r] = @ \ {m}]
  /\ parked' = [parked EXCEPT ![r] = @ \cup {m}]
  /\ UNCHANGED <<stored, rows, known, written>>

Init ==
  /\ stored = [r \in Regions |-> Absent]
  /\ rows = [r \in Regions |-> {}]
  /\ queue = [r \in Regions |-> {}]
  /\ parked = [r \in Regions |-> {}]
  /\ known = [r \in Regions |-> {}]
  /\ written = {}

Next ==
  \E r \in Regions :
    \/ \E deleted \in BOOLEAN : Transition(r, deleted) \/ Assignment(r, deleted)
    \/ MassStore(r)
    \/ \E m \in rows[r], settled \in BOOLEAN : Send(r, m, settled)
    \/ \E m \in queue[r], ok \in BOOLEAN : Accept(r, m, ok)
    \/ \E m \in queue[r] : Park(r, m)

Spec == Init /\ [][Next]_vars

(* The end of a delivery: it is acknowledged, or its attempts run out. *)
Deliver(r) == \E m \in queue[r] : Accept(r, m, TRUE) \/ Park(r, m)

(* The outbox publishes until it settles (Outbox: Recovery), and what was  *)
(* delivered comes to an end.                                              *)
FairSpec ==
  /\ Spec
  /\ \A r \in Regions :
       /\ WF_vars(\E m \in rows[r] : Send(r, m, TRUE))
       /\ WF_vars(Deliver(r))

-----------------------------------------------------------------------------
(* The variables have their types. *)
TypeOK ==
  /\ stored \in [Regions -> Record]
  /\ rows \in [Regions -> SUBSET Record]
  /\ queue \in [Regions -> SUBSET Record]
  /\ parked \in [Regions -> SUBSET Record]
  /\ known \in [Regions -> SUBSET Record]
  /\ written \subseteq Record

(* The order of records: by version, then by the rank of their regions. *)
Beats(m, n) == m.version > n.version \/ (m.version = n.version /\ m.region < n.region)

(* Every write so far was published as its region made it: with the rank   *)
(* of the region and the version it stored. A transition always is, an     *)
(* assignment where its own region wrote last, a revival by massStore      *)
(* never.                                                                  *)
Stamped == \A m \in written : m.region = Rank[m.value[1]] /\ m.version = m.value[2]

(* What a region stores is decided by the set of records that reached it   *)
(* and not by their order or their repetition: none of them beats it.      *)
OrderFree ==
  Stamped => \A r \in Regions : /\ stored[r] \in known[r] \cup {Absent}
                                /\ \A m \in known[r] : ~Beats(m, stored[r])

(* Two records of the same version and region are one record: the rule of  *)
(* converge leaves no tie it cannot resolve.                               *)
Decided ==
  Stamped => \A m, n \in written : m.version = n.version /\ m.region = n.region => m = n

(* What was parked had been converged before: a record that never was is   *)
(* missing from its region until a person puts it back.                    *)
NoneMissing == \A r \in Regions : parked[r] \subseteq known[r]

(* Nothing is on its way. *)
Quiet == NoneMissing /\ \A r \in Regions : rows[r] = {} /\ queue[r] = {}

Same == \A r, q \in Regions : stored[r] = stored[q]

(* Once everything written has been taken everywhere, every region holds   *)
(* the same record, also where a delivery was parked for what it carried   *)
(* beside a record that had converged (converge, Storage.accept).          *)
Converged == Stamped /\ Quiet => Same

(* The readme of convergence says so of every write, however it was made.  *)
ConvergedWhateverMade == Quiet => Same

(* The regions end with the same record, and for good, unless a region     *)
(* parked a record it never converged (Destination.emit, Storage.accept).  *)
Converges == <>[](Stamped /\ NoneMissing => Same)
=============================================================================
