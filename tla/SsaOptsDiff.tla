---------------------------- MODULE SsaOptsDiff -----------------------------
(***************************************************************************)
(* The subnet options in a difference                                      *)
(* (ssa_db_diff_compare_subnet_opts): one record with the values that      *)
(* changed and a change_mask that names them.  The record lies in memory   *)
(* that ssa_db_create took from malloc and nobody cleared.                 *)
(***************************************************************************)
CONSTANTS Fields, \* subnet_prefix, sm_state, lmc, subnet_timeout, allow_both_pkeys
          Vals,   \* values of a field
          Zero    \* the value calloc gives the options of an empty version

VARIABLES
    previous, current, \* the options in p_previous_db and p_current_db
    initialized,       \* p_previous_db->initialized
    change_mask,       \* the fields whose bits are set in the record
    values,            \* the fields of the record
    set_count,         \* records in the data set of the difference
    dirty,             \* p_ssa_db_diff->dirty: the difference is worth pushing
    pc                 \* ssa_db_compare compares the options first

Opts == [Fields -> Vals]

(* p_current_db has been extracted; the record is whatever malloc gave.    *)
Init ==
    /\ initialized \in BOOLEAN
    /\ previous \in IF initialized THEN Opts ELSE {[f \in Fields |-> Zero]}
    /\ current \in Opts
    /\ change_mask \in SUBSET Fields
    /\ values \in Opts
    /\ set_count = 0
    /\ dirty = FALSE
    /\ pc = "compare"

(* Mutant: the values are compared at the first comparison, too.           *)
MutReported == {f \in Fields : previous[f] # current[f]}

(* Without a previous version everything is reported.                      *)
Reported == {f \in Fields : initialized => previous[f] # current[f]}

CompareOpts ==
    /\ pc = "compare"
    /\ change_mask' = change_mask \cup Reported
    /\ values' = [f \in Fields |-> IF f \in Reported THEN current[f] ELSE values[f]]
    /\ dirty' = (Reported # {})
    /\ set_count' = IF Reported # {} THEN 1 ELSE 0
    /\ pc' = "tables"
    /\ UNCHANGED <<previous, current, initialized>>
-----------------------------------------------------------------------------
(* The options of a consumer that had the previous version (or none) and   *)
(* takes the marked fields of the record, if there is one.                 *)
Updated ==
    [f \in Fields |-> IF set_count = 1 /\ f \in change_mask THEN values[f]
                      ELSE previous[f]]

(* No change of an option is lost.  The first difference marks them all,   *)
(* also those whose value is zero as in an empty version; later ones have  *)
(* a record, and are dirty, only if an option changed.                     *)
ChangesReported ==
    pc # "compare" =>
        /\ \A f \in Fields : previous[f] # current[f] =>
              set_count = 1 /\ f \in change_mask /\ values[f] = current[f]
        /\ ~initialized => set_count = 1 /\ change_mask = Fields
        /\ set_count = 1 => dirty
        /\ initialized /\ previous = current => set_count = 0

(* "change_mask bits point to the changed data fields" (ssa_smdb.h:137):   *)
(* a consumer that follows them has the current options.                   *)
MaskMatchesChanges == pc # "compare" => Updated = current
=============================================================================
