--------------------------- MODULE MCOwnerDeletion ---------------------------
(***************************************************************************)
(* Two instances of OwnerDeletion: the one of the constants, and one where *)
(* crashes are all that goes wrong.  A behaviour is one of either.         *)
(***************************************************************************)
EXTENDS OwnerDeletion

VARIABLE part    \* the instance that the behaviour is of

Crashes == INSTANCE OwnerDeletion WITH Failing <- FALSE, StaleReads <- FALSE

MCInit == OwnerInit /\ part \in {"faults", "crashes"}

MCNext ==
  \/ part = "faults" /\ OwnerNext /\ UNCHANGED part
  \/ part = "crashes" /\ Crashes!OwnerNext /\ UNCHANGED part

MCSpec == MCInit /\ [][MCNext]_<<ownerVars, part>>

-----------------------------------------------------------------------------
\* Crashes at any step of a deletion, purge, quarantine or restoration leave no
\* owner identity without a job, a tombstone or a quarantined payload that leads
\* to its removal (_prepare_owner_identity_cleanup_tombstone, recover).
CrashLeavesNoOrphan == part = "crashes" => NoOrphanIdentity
=============================================================================
