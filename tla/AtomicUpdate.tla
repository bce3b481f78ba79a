---------------------------- MODULE AtomicUpdate ----------------------------
(***************************************************************************)
(* What OfficeJobStore promises of one job to the code that calls it: an   *)
(* update of the job is all or nothing.  A proposed update is accepted or  *)
(* rejected as a whole, at once or, after a crash, by the recovery.  The   *)
(* promise ends where the store says it does: when it has put evidence of  *)
(* an unresolved transaction in quarantine.                                *)
(***************************************************************************)
CONSTANT Value      \* what a job can be: a manifest whose files are in place

VARIABLES val,      \* the job, as a singleton; empty when it is corrupt
          prop,     \* the update under way, empty when there is none
          degraded  \* evidence of a transaction is in quarantine

avars == <<val, prop, degraded>>

Jobs == {{v} : v \in Value}

Init == val \in Jobs /\ prop = {} /\ degraded = FALSE

\* write_bytes: a new version is prepared next to the one in place.
Propose ==
  /\ ~ degraded /\ prop = {}
  /\ prop' \in Jobs
  /\ UNCHANGED <<val, degraded>>

\* The new version takes the place of the old one, entirely ...
Accept ==
  /\ ~ degraded /\ prop # {}
  /\ val' = prop /\ prop' = {}
  /\ UNCHANGED degraded

\* ... or not at all.
Reject ==
  /\ ~ degraded /\ prop # {}
  /\ prop' = {}
  /\ UNCHANGED <<val, degraded>>

\* complete and fail: a change of the manifest only.
Rewrite ==
  /\ ~ degraded /\ prop = {}
  /\ val' \in Jobs
  /\ UNCHANGED <<prop, degraded>>

\* An entry appears in the recovery quarantine; nothing is promised after.
Degrade == ~ degraded /\ degraded' = TRUE /\ UNCHANGED <<val, prop>>
Degraded == degraded /\ degraded' = TRUE

Next == Propose \/ Accept \/ Reject \/ Rewrite \/ Degrade \/ Degraded

Spec == Init /\ [][Next]_avars
=============================================================================
