-------------------------- MODULE PluginLifecycle ---------------------------
(***************************************************************************)
(* What the plugin holds from construct() to destroy(): each step of       *)
(* construct() may fail, and in the rounds of the worker the memory of the *)
(* next dump and of the difference (SsaDb) may be missing.  What a round   *)
(* does with its tables is in the other modules; here a version is its     *)
(* number, in the order they were made, or NULL.                           *)
(***************************************************************************)
EXTENDS SsaDb

CONSTANT MaxRounds \* bound: SUBNET_UP messages handled

NULL == 0

VARIABLES
    pc,          \* the next step of construct(), "running" between two
                 \* messages, a step of a round, or an end: "failed"
                 \* (construct() returned NULL), "crashed", "destroyed"
    held,        \* ssa, log, ssa_db, lft_db, sockets, thread, diff
    versions,    \* versions that are allocated
    made,        \* versions made so far
    previous, current, dump, \* p_previous_db, p_current_db, p_dump_db
    initialized, \* versions an extraction has completed
    rounds,
    failed       \* history: an allocation, or a call, failed

lifeVars == <<pc, held, versions, made, previous, current, dump, initialized, rounds, failed>>
pointers == <<previous, current, dump>>
-----------------------------------------------------------------------------
Init ==
    /\ DbInit
    /\ pc = "ssa"
    /\ held = {} /\ versions = {} /\ made = 0
    /\ previous = NULL /\ current = NULL /\ dump = NULL
    /\ initialized = {}
    /\ rounds = 0
    /\ failed = FALSE

(* The steps of construct(): what each acquires, and the step behind it.   *)
Acquires == [ssa |-> "log", log |-> "ssa_db", ssa_db |-> "lft_db", lft_db |-> "previous",
             previous |-> "current", current |-> "dump", dump |-> "sockets",
             sockets |-> "thread", thread |-> "running"]

VersionSteps == {"previous", "current", "dump"}

(* What a step that fails releases before construct() returns NULL.        *)
(* Mutant: the sockets stay open without a thread.                         *)
MutReleases(step) ==
    CASE step = "log"    -> {"ssa"}
      [] step \in {"ssa_db", "lft_db"} -> {"log", "ssa", "ssa_db"}
      [] step \in {"sockets", "thread"} -> {"lft_db", "ssa_db"}
      [] OTHER -> {}

Releases(step) ==
    CASE step = "log"    -> {"ssa"}
      [] step \in {"ssa_db", "lft_db"} -> {"log", "ssa", "ssa_db"}
      [] step = "sockets" -> {"lft_db", "ssa_db"}
      [] step = "thread"  -> {"lft_db", "ssa_db", "sockets"}
      [] OTHER -> {}

(* A failing step deletes the versions made before it; the other pointers  *)
(* are NULL then.                                                          *)
ConstructStep ==
    /\ pc \in DOMAIN Acquires \ VersionSteps
    /\ \/ /\ held' = held \cup {pc}
          /\ pc' = Acquires[pc]
          /\ UNCHANGED <<versions, failed>>
       \/ /\ held' = held \ Releases(pc)
          /\ versions' = versions \ {previous, current, dump}
          /\ pc' = "failed" /\ failed' = TRUE
    /\ UNCHANGED <<dbVars, made, pointers, initialized, rounds>>

(* ssa_db_extract_init                                                     *)
ConstructVersion ==
    /\ pc \in VersionSteps
    /\ \/ /\ made' = made + 1
          /\ versions' = versions \cup {made'}
          /\ previous' = IF pc = "previous" THEN made' ELSE previous
          /\ current' = IF pc = "current" THEN made' ELSE current
          /\ dump' = IF pc = "dump" THEN made' ELSE dump
          /\ pc' = Acquires[pc]
          /\ UNCHANGED failed
       \/ /\ versions' = versions \ {previous, current, dump}
          /\ pc' = "failed" /\ failed' = TRUE
          /\ UNCHANGED <<made, pointers>>
    /\ UNCHANGED <<dbVars, held, initialized, rounds>>
-----------------------------------------------------------------------------
Crash == pc' = "crashed" /\ UNCHANGED <<dbVars, held, versions, made, pointers, initialized, rounds>>

(* ssa_db_extract fills the dump; without one, or without the memory for   *)
(* a table or a record of it, it writes through NULL.                      *)
Extract ==
    /\ pc = "running"
    /\ rounds < MaxRounds
    /\ dump # NULL
    /\ rounds' = rounds + 1
    /\ initialized' = initialized \cup {dump}
    /\ pc' = "update"
    /\ UNCHANGED <<dbVars, held, versions, made, pointers, failed>>

ExtractCrashes ==
    /\ pc = "running"
    /\ rounds < MaxRounds
    /\ failed' = (failed \/ dump # NULL)
    /\ Crash

(* The next dump, or NULL.                                                 *)
NewDump(others) ==
    \/ /\ made' = made + 1
       /\ versions' = others \cup {made'}
       /\ dump' = made'
       /\ UNCHANGED failed
    \/ /\ versions' = others
       /\ dump' = NULL /\ failed' = TRUE
       /\ UNCHANGED made

(* Mutant: the previous version is deleted in any case, and replaced by a  *)
(* current one that is initialized.                                        *)
MutUpdate ==
    /\ pc = "update"
    /\ previous' = IF current \in initialized THEN current ELSE previous
    /\ current' = dump
    /\ NewDump(versions \ {previous})
    /\ pc' = "compare"
    /\ UNCHANGED <<dbVars, held, initialized, rounds>>

(* Mutant: the dump becomes the current version and no new one is made.    *)
MutUpdateNoDump ==
    /\ pc = "update"
    /\ previous' = IF current \in initialized THEN current ELSE previous
    /\ current' = dump
    /\ dump' = NULL
    /\ versions' = IF current \in initialized THEN versions \ {previous} ELSE versions
    /\ pc' = "compare"
    /\ UNCHANGED <<dbVars, held, made, initialized, rounds, failed>>

(* ssa_db_update, whose pointers are not NULL here: an extraction that     *)
(* found no dump did not return.                                           *)
Update ==
    /\ pc = "update"
    /\ previous' = IF current \in initialized THEN current ELSE previous
    /\ current' = dump
    /\ NewDump(IF current \in initialized THEN versions \ {previous} ELSE versions)
    /\ pc' = "compare"
    /\ UNCHANGED <<dbVars, held, initialized, rounds>>

(* ssa_db_compare returns NULL if a version or the difference is missing.  *)
NoCompare ==
    /\ pc = "compare"
    /\ failed' = (failed \/ dump # NULL)
    /\ pc' = "running"
    /\ UNCHANGED <<dbVars, held, versions, made, pointers, initialized, rounds>>

Compare ==
    /\ pc = "compare"
    /\ dump # NULL
    /\ held' = held \cup {"diff"}
    /\ StartCreate
    /\ pc' = "create"
    /\ UNCHANGED <<memory, schemaVars>>
    /\ UNCHANGED <<versions, made, pointers, initialized, rounds, failed>>

(* ssa_db_smdb_init, and later ssa_db_smdb_destroy.                        *)
SmdbStep ==
    /\ pc \in {"create", "destroy_diff"}
    /\ DbStep
    /\ failed' = (failed \/ AllocFails)
    /\ UNCHANGED <<pc, held, versions, made, pointers, initialized, rounds>>

(* ssa_db_diff_init does not look at p_smdb, nor the comparison at the     *)
(* records of its maps.                                                    *)
CompareCrashes ==
    /\ pc = "create"
    /\ db_pc \in {"none", "ready"}
    /\ failed' = TRUE
    /\ Crash

(* The difference is written, and, pushed or not, destroyed.               *)
DestroyDiff ==
    /\ pc = "create"
    /\ db_pc = "ready"
    /\ StartDestroy
    /\ pc' = "destroy_diff"
    /\ UNCHANGED <<memory, schemaVars>>
    /\ UNCHANGED <<held, versions, made, pointers, initialized, rounds, failed>>

DiffDestroyed ==
    /\ pc = "destroy_diff"
    /\ db_pc = "none"
    /\ held' = held \ {"diff"}
    /\ pc' = "running"
    /\ UNCHANGED <<dbVars, versions, made, pointers, initialized, rounds, failed>>

(* Mutant: the dump is forgotten.                                          *)
MutDestroy ==
    /\ pc = "running"
    /\ held' = {}
    /\ versions' = versions \ {previous, current}
    /\ pc' = "destroyed"
    /\ UNCHANGED <<dbVars, made, pointers, initialized, rounds, failed>>

(* destroy(): the thread is joined, the sockets are closed, and            *)
(* ssa_database_delete deletes the versions the pointers still name.       *)
Destroy ==
    /\ pc = "running"
    /\ held' = {}
    /\ versions' = versions \ {previous, current, dump}
    /\ pc' = "destroyed"
    /\ UNCHANGED <<dbVars, made, pointers, initialized, rounds, failed>>

Ended == pc \in {"failed", "crashed", "destroyed"} /\ UNCHANGED <<lifeVars, dbVars>>

Next ==
    \/ ConstructStep \/ ConstructVersion
    \/ Extract \/ ExtractCrashes \/ Update
    \/ NoCompare \/ Compare \/ SmdbStep \/ CompareCrashes
    \/ DestroyDiff \/ DiffDestroyed
    \/ Destroy \/ Ended

Spec == Init /\ [][Next]_<<lifeVars, dbVars>>
-----------------------------------------------------------------------------
InRounds == pc \in {"running", "update", "compare", "create", "destroy_diff"}

(* While the worker runs, its three pointers name three different versions *)
(* that are allocated; only the dump may be missing.                       *)
VersionsLive ==
    InRounds =>
      /\ {previous, current} \subseteq versions /\ previous # current
      /\ dump # NULL => dump \in versions \ {previous, current}

(* Of all versions only one can be lost, the second construct() makes: it  *)
(* never was initialized and the first update overwrites its pointer.      *)
(* Behind destroy() there is nothing else left, of a round there is        *)
(* nothing left between two messages.                                      *)
OnlyFirstVersionLost ==
    /\ pc \in DOMAIN Acquires \/ InRounds => versions \subseteq {previous, current, dump, 2}
    /\ pc = "running" => "diff" \notin held /\ memory = {}
    /\ pc = "destroyed" => held = {} /\ memory = {} /\ versions \subseteq {2}

(* A failed construct() leaves no thread, no socket and no version; the    *)
(* log is closed only if the database could not be made.                   *)
FailedConstruct ==
    pc = "failed" => versions = {} /\ held \cap {"sockets", "thread"} = {}

(* Without a failed allocation or call no pointer the rounds use is NULL.  *)
CrashNeedsFailure ==
    /\ pc = "crashed" => failed
    /\ InRounds /\ dump = NULL => failed
=============================================================================
