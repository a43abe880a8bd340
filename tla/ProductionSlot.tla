--------------------------- MODULE ProductionSlot ---------------------------
(***************************************************************************)
(* What the database lifecycle manager promises of its production slot    *)
(* (spec sections 3 and 4.1), with no lock, thread or slot field in       *)
(* sight: the slot names one snapshot or none; snapshot directories are   *)
(* extracted, and may be damaged by an extraction that fails part way;    *)
(* the slot only ever changes by one atomic replace, to a snapshot whose  *)
(* directory is fully extracted at that moment, and is never unset again. *)
(*                                                                         *)
(* GovulnersWrapper implements it (GovulnersWrapper!ImplementsProduction-  *)
(* Slot, proved in GovulnersWrapperProofs).                                *)
(***************************************************************************)
CONSTANTS
    Snap,     \* the snapshots <<checksum, version>>
    NoSnap    \* the value of an unset slot

VARIABLES
    slot,     \* the snapshot production queries and scans are pointed at
    ready     \* the snapshots whose directory is completely extracted

avars == <<slot, ready>>

ATypeOK ==
    /\ slot \in Snap \cup {NoSnap}
    /\ ready \subseteq Snap

AInit ==
    /\ slot = NoSnap
    /\ ready = {}

(* A snapshot directory is extracted completely.                          *)
Extract(s) ==
    /\ ready' = ready \cup {s}
    /\ UNCHANGED slot

(* An extraction into the directory fails part way.                       *)
Damage(s) ==
    /\ ready' = ready \ {s}
    /\ UNCHANGED slot

(* The slot is pointed at a completely extracted snapshot, in one step.   *)
Promote(s) ==
    /\ s \in ready
    /\ slot' = s
    /\ UNCHANGED ready

ANext == \E s \in Snap : Extract(s) \/ Damage(s) \/ Promote(s)

ASpec == AInit /\ [][ANext]_avars

=============================================================================
