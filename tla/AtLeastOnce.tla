----------------------------- MODULE AtLeastOnce -----------------------------
(***************************************************************************)
(* What a transactional outbox promises of an item, a state change paired  *)
(* with a place it is to be sent to: once recorded it is never lost, it is *)
(* written off only after it landed, and nothing lands that was not        *)
(* recorded.  How often it lands is left open.                             *)
(***************************************************************************)
CONSTANT Items
VARIABLES recorded, landed, settled

Init == recorded = {} /\ landed = {} /\ settled = {}

\* A state change commits, with all it is to be sent to.
Record == \E new \in SUBSET (Items \ recorded) :
            /\ recorded' = recorded \cup new
            /\ UNCHANGED <<landed, settled>>

Land == \E item \in recorded : /\ landed' = landed \cup {item}
                               /\ UNCHANGED <<recorded, settled>>

\* Items that landed are written off, in batches.
Settle == \E done \in SUBSET (recorded \cap landed) :
            /\ settled' = settled \cup done
            /\ UNCHANGED <<recorded, landed>>

Next == Record \/ Land \/ Settle

Spec == Init /\ [][Next]_<<recorded, landed, settled>>

=============================================================================
