----------------------------- MODULE Migrations ------------------------------
(***************************************************************************)
(* The migrations of a component, applied by its replicas as they start:   *)
(* connectors/storages.mongodb/src/migrations.js.                          *)
(*                                                                         *)
(* The row of a migration is the lock of it: who inserts it applies it, and*)
(* the others wait for it to be done, or take the claim of one that has not*)
(* said it is alive for LEASE.  Nothing in the code removes a row.         *)
(*                                                                         *)
(* Time is counted in ticks since the heartbeat of each row.  A replica may*)
(* be slow: any number of ticks may pass between two of its steps, and     *)
(* between two of its heartbeats.  The age of a heartbeat is the same to   *)
(* all: that the clock of who reads it may be ahead of the owner's by more *)
(* than the LEASE, so that a claim kept fresh is taken for stale, is left  *)
(* out.                                                                    *)
(***************************************************************************)
EXTENDS Naturals, FiniteSets

CONSTANTS Replicas,   \* processes of the component
          List,       \* the migrations are 1 .. List, in the order declared
          Steps,      \* steps of each of them
          LEASE,      \* ticks a claim outlives its heartbeat
          MaxCrashes  \* bound: replicas that crash, or fail a step

ASSUME MigrationsAssumption ==
         /\ List \in Nat \ {0}
         /\ Steps \in Nat \ {0}
         /\ LEASE \in Nat
         /\ MaxCrashes \in Nat

Declared == 1 .. List

VARIABLES
  rows,      \* rows[m]: the `state` of its row, or "none"
  age,       \* age[m]: ticks since its heartbeat, up to one more than LEASE
  replica,   \* replica[p]: where p is, in which migration, at which step of it
  current,   \* current[p]: whether the heartbeat p read is the one the row has
  applied,   \* history: applied[m], the steps of m that were applied, by anyone
  lapsed,    \* history: replicas the claim of which ran out while they were running
  crashes    \* replicas that crashed so far

migrationVars == <<rows, age, replica, current, applied, lapsed, crashes>>

Starting == [at |-> "claim", migration |-> 1, step |-> 0]

Runs(p, m) == replica[p].at = "run" /\ replica[p].migration = m

Goes(p, at) == replica' = [replica EXCEPT ![p].at = at]

\* The heartbeat of m is set, to a value nobody has read.
Beaten(m) ==
  /\ age' = [age EXCEPT ![m] = 0]
  /\ current' = [p \in Replicas |-> current[p] /\ replica[p].migration # m]

\* The steps of the migration are begun, from the first.
Begun(p) == replica' = [replica EXCEPT ![p].at = "run", ![p].step = 0]

-----------------------------------------------------------------------------
\* #claim: the row is inserted, or it is there.
Claim(p) ==
  LET m == replica[p].migration
  IN  /\ replica[p].at = "claim"
      /\ IF rows[m] = "none"
           THEN /\ rows' = [rows EXCEPT ![m] = "running"]
                /\ Beaten(m)
                /\ Begun(p)
           ELSE /\ Goes(p, "read")
                /\ UNCHANGED <<rows, age, current>>
      /\ UNCHANGED <<applied, lapsed, crashes>>

\* The next migration of the list, or the component starts.
Onward(p) ==
  replica' = [replica EXCEPT ![p] =
                IF @.migration = List THEN [@ EXCEPT !.at = "serving", !.step = 0]
                ELSE [at |-> "claim", migration |-> @.migration + 1, step |-> 0]]

\* Mutant: a claim is never found stale.
NeverStale(m) == FALSE

Stale(m) == age[m] > LEASE

\* The row is read: done, stale, or to be waited for.
Read(p) ==
  LET m == replica[p].migration
  IN  /\ replica[p].at = "read"
      /\ CASE rows[m] = "done" -> Onward(p) /\ UNCHANGED current
           [] rows[m] = "running" /\ Stale(m) -> /\ Goes(p, "steal")
                                                 /\ current' = [current EXCEPT ![p] = TRUE]
           [] OTHER -> Goes(p, "claim") /\ UNCHANGED current
      /\ UNCHANGED <<rows, age, applied, lapsed, crashes>>

\* Mutant: the heartbeat that was read is not part of the criteria.
Takes(p) == rows[replica[p].migration] = "running"

\* The criteria of #steal: the claim is as it was read.
Unchanged(p) == rows[replica[p].migration] = "running" /\ current[p]

\* #steal: the claim is taken over.
Steal(p) ==
  LET m == replica[p].migration
  IN  /\ replica[p].at = "steal"
      /\ IF Unchanged(p)
           THEN Beaten(m) /\ Begun(p)
           ELSE /\ Goes(p, "claim")
                /\ UNCHANGED <<age, current>>
      /\ UNCHANGED <<rows, applied, lapsed, crashes>>

\* The next step of the migration is applied.
ApplyStep(p) ==
  LET at == replica[p]
  IN  /\ at.at = "run"
      /\ at.step < Steps
      /\ applied' = [applied EXCEPT ![at.migration] = @ \cup {at.step + 1}]
      /\ replica' = [replica EXCEPT ![p].step = @ + 1]
      /\ UNCHANGED <<rows, age, current, lapsed, crashes>>

\* Mutant: the row is marked before the last step is applied.
DoneEarly(p) ==
  /\ replica[p].at = "run"
  /\ replica[p].step + 1 >= Steps
  /\ rows' = [rows EXCEPT ![replica[p].migration] = "done"]
  /\ Onward(p)
  /\ lapsed' = lapsed \ {p}
  /\ UNCHANGED <<age, current, applied, crashes>>

\* All of them are, and the row is marked, whoever owns it.
MarkDone(p) ==
  /\ replica[p].at = "run"
  /\ replica[p].step = Steps
  /\ rows' = [rows EXCEPT ![replica[p].migration] = "done"]
  /\ Onward(p)
  /\ lapsed' = lapsed \ {p}
  /\ UNCHANGED <<age, current, applied, crashes>>

\* The timer of #run sets the heartbeat of the row, whoever owns it.
Beat(p) ==
  /\ replica[p].at = "run"
  /\ Beaten(replica[p].migration)
  /\ UNCHANGED <<rows, replica, applied, lapsed, crashes>>

\* A step fails, and the component does not start, or the process crashes; it is
\* started again.
CrashStarting(p) ==
  /\ replica[p].at # "serving"
  /\ crashes < MaxCrashes
  /\ crashes' = crashes + 1
  /\ replica' = [replica EXCEPT ![p] = Starting]
  /\ current' = [current EXCEPT ![p] = FALSE]
  /\ lapsed' = lapsed \ {p}
  /\ UNCHANGED <<rows, age, applied>>

\* Time passes for claims that are held.
Tick ==
  /\ age' = [m \in Declared |-> IF rows[m] = "running" /\ age[m] <= LEASE THEN age[m] + 1 ELSE age[m]]
  /\ lapsed' = lapsed \cup {p \in Replicas : \E m \in Declared : Runs(p, m) /\ age'[m] > LEASE}
  /\ UNCHANGED <<rows, replica, current, applied, crashes>>

MigrationsInit ==
  /\ rows = [m \in Declared |-> "none"]
  /\ age = [m \in Declared |-> 0]
  /\ replica = [p \in Replicas |-> Starting]
  /\ current = [p \in Replicas |-> FALSE]
  /\ applied = [m \in Declared |-> {}]
  /\ lapsed = {}
  /\ crashes = 0

Applies(p) == Claim(p) \/ Read(p) \/ Steal(p) \/ ApplyStep(p) \/ MarkDone(p)

MigrationsNext == \/ \E p \in Replicas : Applies(p) \/ Beat(p) \/ CrashStarting(p)
                  \/ Tick

MigrationsSpec == MigrationsInit /\ [][MigrationsNext]_migrationVars

\* A replica that runs goes on, and time passes.  Nothing says that a heartbeat is set.
MigrationsFairness ==
  /\ \A p \in Replicas : WF_migrationVars(Applies(p))
  /\ WF_migrationVars(Tick)

-----------------------------------------------------------------------------
\* The types of the state: migrations.js.
MigrationsOK ==
  /\ rows \in [Declared -> {"none", "running", "done"}]
  /\ age \in [Declared -> 0 .. LEASE + 1]
  /\ replica \in [Replicas -> [at : {"claim", "read", "steal", "run", "serving"},
                               migration : Declared, step : 0 .. Steps]]
  /\ current \in [Replicas -> BOOLEAN]
  /\ applied \in [Declared -> SUBSET (1 .. Steps)]
  /\ lapsed \subseteq Replicas
  /\ crashes \in 0 .. MaxCrashes

\* A migration is begun, and the component serves, only after every earlier migration
\* was applied to its last step, whoever applied it, took it over or crashed over it
\* (run: a later one is written against what an earlier one leaves behind).
AfterTheOneBefore ==
  \A p \in Replicas : \A m \in Declared :
    m < replica[p].migration \/ replica[p].at = "serving"
      => rows[m] = "done" /\ applied[m] = 1 .. Steps

\* No two replicas run one migration at once, unless the claim of one ran out under it:
\* of all that find a claim stale one takes it, and none where its owner was heard of
\* since (#claim and #steal).
OneRunner ==
  \A m \in Declared : \A p, q \in Replicas \ lapsed : Runs(p, m) /\ Runs(q, m) => p = q

\* A replica that waits for another serves in the end: a claim whose owner crashed is taken
\* over, whoever else waits, crashes or keeps setting the heartbeat of a row it has lost.
EveryoneServes == \A p \in Replicas : replica[p].at = "read" ~> replica[p].at = "serving"
==============================================================================
