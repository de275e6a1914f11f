---------------------------- MODULE SsaPipeline -----------------------------
(***************************************************************************)
(* The run-time core of the plugin: OpenSM's threads call report(), which  *)
(* queues LFT change records on lft_rec_list and control messages on a     *)
(* socket; the worker thread (ssa_db_run) reads the messages, dumps the    *)
(* subnet under the OpenSM lock, rotates the SMDB versions and compares    *)
(* the last two.                                                           *)
(*                                                                         *)
(* An SMDB table record is a key with a value, an LFT record is a key (one *)
(* linear block or the LFT top of one switch) with a value.  Allocation is *)
(* taken to succeed.                                                       *)
(***************************************************************************)
EXTENDS Integers, Sequences

CONSTANTS Reporters,    \* OpenSM's threads that call report()
          Keys,         \* keys of the guid-to-lid, node, link and port tables
          ExactKeys,    \* those of guid-to-lid and node, compared field by field
          Vals,         \* the values of a record
          Opts,         \* the values of the subnet options
          Blocks,       \* keys of the LFT block records
          Tops,         \* keys of the LFT top records
          LftSize,      \* what the full dump stores as the top of a switch
          LftVals,      \* values of an LFT block or of an LFT top
          None,         \* no record
          QueueCap,     \* control messages the socket buffer holds
          ReportLocked, \* LFT events are reported with the OpenSM lock held
          MaxChanges, MaxLftChanges, MaxUps \* bounds on what OpenSM does

LftKeys == Blocks \cup Tops

ASSUME ConstAssumption ==
    /\ ExactKeys \subseteq Keys
    /\ Blocks \cap Tops = {}
    /\ None \notin Vals
    /\ None \notin LftVals
    /\ LftSize \notin LftVals
    /\ LftSize # None
    /\ QueueCap \in Nat \ {0}
    /\ ReportLocked \in BOOLEAN
    /\ MaxChanges \in Nat
    /\ MaxLftChanges \in Nat
    /\ MaxUps \in Nat
    /\ "free" \notin Reporters
    /\ "worker" \notin Reporters

VARIABLES
    fabric,         \* osm_subn: what an extraction would read now
    sw_lft,         \* the linear forwarding tables of the switches, as OpenSM has them
    initError,      \* subn.subnet_initialization_error
    osm_lock,       \* p_osm->lock: "free", "worker" (shared) or its exclusive holder
    rep,            \* per reporter: where it is in report() and the record it carries
    lft_rec_list,   \* ssa_db->lft_rec_list
    ctrl,           \* messages written to fd[0] and not yet read from fd[1]
    wpc,            \* where the worker is
    prevDb, curDb, dumpDb,  \* ssa_db->p_previous_db, p_current_db, p_dump_db
    db_lft,         \* ssa_db->p_lft_db: ep_db_lft_{block,top}_tbl
    dump_lft,       \* ssa_db->p_lft_db: ep_dump_lft_{block,top}_tbl
    first,          \* first_time_subnet_up
    dpc,            \* where OpenSM is in destroy()
    replica,        \* ghost: the tables of a consumer that applied every pushed diff
    replica_lft,    \* ghost: the LFT records of that consumer
    fabricAhead,    \* ghost: the fabric changed since the last SUBNET_UP
    lftAhead,       \* ghost: LFT keys not covered by the last SUBNET_UP
    changes, lftChanges, ups  \* counted against the bounds

envVars   == <<fabric, sw_lft, initError>>
chanVars  == <<lft_rec_list, ctrl>>
dbVars    == <<prevDb, curDb, dumpDb, db_lft, dump_lft, first>>
ghostVars == <<replica, replica_lft>>
aheadVars == <<fabricAhead, lftAhead>>
bounds    == <<changes, lftChanges, ups>>
vars == <<envVars, osm_lock, rep, chanVars, wpc, dbVars, dpc, ghostVars,
          aheadVars, bounds>>

-----------------------------------------------------------------------------
Tables == [Keys -> Vals \cup {None}]
NoRecs == [k \in Keys |-> None]
Fabrics == [opts : Opts, recs : Tables]

(* struct ssa_db_extract: "opts" means something once it is initialized.   *)
Dbs == [initialized : BOOLEAN, opts : Opts \cup {None}, recs : Tables]
EmptyDb == [initialized |-> FALSE, opts |-> None, recs |-> NoRecs]

LftTables == [LftKeys -> LftVals \cup {LftSize, None}]
NoLft == [k \in LftKeys |-> None]
LftRecs == [key : LftKeys, val : LftVals]

Msgs == {"START_EXTRACT", "LFT_CHANGE", "EXIT"}
Calls == [pc : {"idle", "copy", "insert", "lft_write", "up_write"},
          key : LftKeys \cup {None}, val : LftVals \cup {None}]
Idle == [pc |-> "idle", key |-> None, val |-> None]

TypeOK ==
    /\ fabric \in Fabrics
    /\ sw_lft \in [LftKeys -> LftVals \cup {None}]
    /\ initError \in BOOLEAN
    /\ osm_lock \in {"free", "worker"} \cup Reporters
    /\ rep \in [Reporters -> Calls]
    /\ lft_rec_list \in Seq(LftRecs)
    /\ ctrl \in Seq(Msgs)
    /\ wpc \in {"poll", "acquire", "extract", "drain", "release", "update",
                "compare", "lft", "exited"}
    /\ prevDb \in Dbs /\ curDb \in Dbs /\ dumpDb \in Dbs
    /\ db_lft \in LftTables
    /\ dump_lft \in LftTables
    /\ first \in BOOLEAN
    /\ dpc \in {"running", "exit", "join", "done"}
    /\ replica \in Tables
    /\ replica_lft \in LftTables
    /\ fabricAhead \in BOOLEAN
    /\ lftAhead \subseteq LftKeys
    /\ changes \in 0..MaxChanges
    /\ lftChanges \in 0..MaxLftChanges
    /\ ups \in 0..MaxUps

(* After construct(): three empty SMDB versions, an empty LFT database and *)
(* the worker in poll().  OpenSM may know some forwarding tables already.  *)
Init ==
    /\ fabric \in Fabrics
    /\ sw_lft \in [LftKeys -> LftVals \cup {None}]
    /\ initError = FALSE
    /\ osm_lock = "free"
    /\ rep = [r \in Reporters |-> Idle]
    /\ lft_rec_list = <<>>
    /\ ctrl = <<>>
    /\ wpc = "poll"
    /\ prevDb = EmptyDb /\ curDb = EmptyDb /\ dumpDb = EmptyDb
    /\ db_lft = NoLft /\ dump_lft = NoLft
    /\ first = TRUE
    /\ dpc = "running"
    /\ replica = NoRecs /\ replica_lft = NoLft
    /\ fabricAhead = TRUE
    /\ lftAhead = LftKeys
    /\ changes = 0 /\ lftChanges = 0 /\ ups = 0

-----------------------------------------------------------------------------
(* OpenSM.                                                                 *)

(* A sweep changes one record or the options, under the exclusive lock.    *)
FabricChange ==
    /\ dpc = "running"
    /\ changes < MaxChanges
    /\ osm_lock = "free"
    /\ \/ \E k \in Keys, v \in Vals \cup {None} :
            fabric' = [fabric EXCEPT !.recs[k] = v]
       \/ \E o \in Opts : fabric' = [fabric EXCEPT !.opts = o]
    /\ initError' \in BOOLEAN
    /\ fabricAhead' = TRUE
    /\ changes' = changes + 1
    /\ UNCHANGED <<sw_lft, osm_lock, rep, chanVars, wpc, dbVars, dpc, ghostVars,
                   lftAhead, lftChanges, ups>>

(* Keys of the LFT records on their way into lft_rec_list.                 *)
InFlight == {rep[r].key : r \in {q \in Reporters : rep[q].pc \in {"copy", "insert"}}}

(* OpenSM stores a new block or top, under the exclusive lock, and calls   *)
(* report(OSM_EVENT_ID_LFT_CHANGE).  It has one event per key in flight: a *)
(* switch answers the next Set of a block after the previous one.          *)
LftChange(r) ==
    /\ dpc = "running"
    /\ lftChanges < MaxLftChanges
    /\ rep[r].pc = "idle"
    /\ osm_lock = "free"
    /\ \E k \in LftKeys \ InFlight, v \in LftVals :
         /\ sw_lft' = [sw_lft EXCEPT ![k] = v]
         /\ rep' = [rep EXCEPT ![r] = [pc |-> "copy", key |-> k,
                                       val |-> IF k \in Tops THEN v ELSE None]]
         /\ lftAhead' = lftAhead \cup {k}
    /\ osm_lock' = IF ReportLocked THEN r ELSE "free"
    /\ lftChanges' = lftChanges + 1
    /\ UNCHANGED <<fabric, initError, chanVars, wpc, dbVars, dpc, ghostVars,
                   fabricAhead, changes, ups>>

(* report(OSM_EVENT_ID_SUBNET_UP), ignored after an initialization error.  *)
(* It covers what OpenSM has reported so far.                              *)
SubnetUp(r) ==
    /\ dpc = "running"
    /\ ups < MaxUps
    /\ rep[r].pc = "idle"
    /\ ups' = ups + 1
    /\ IF initError
         THEN UNCHANGED <<rep, aheadVars>>
         ELSE /\ rep' = [rep EXCEPT ![r].pc = "up_write"]
              /\ fabricAhead' = FALSE
              /\ lftAhead' = InFlight
    /\ UNCHANGED <<envVars, osm_lock, chanVars, wpc, dbVars, dpc, ghostVars,
                   changes, lftChanges>>

(* Mutant: destroy() does not wait for the threads inside report().        *)
MutDestroyEarly ==
    /\ dpc = "running"
    /\ dpc' = "exit"
    /\ UNCHANGED <<envVars, osm_lock, rep, chanVars, wpc, dbVars, ghostVars,
                   aheadVars, bounds>>

(* destroy() is called once no other thread is in the plugin.              *)
Destroy ==
    /\ dpc = "running"
    /\ \A r \in Reporters : rep[r].pc = "idle"
    /\ dpc' = "exit"
    /\ UNCHANGED <<envVars, osm_lock, rep, chanVars, wpc, dbVars, ghostVars,
                   aheadVars, bounds>>

-----------------------------------------------------------------------------
(* report(), after the event is dispatched.                                *)

(* A block is read from the switch, a top comes with the event.            *)
ReportCopy(r) ==
    /\ rep[r].pc = "copy"
    /\ rep' = [rep EXCEPT ![r].pc = "insert",
                          ![r].val = IF rep[r].key \in Tops
                                       THEN rep[r].val ELSE sw_lft[rep[r].key]]
    /\ UNCHANGED <<envVars, osm_lock, chanVars, wpc, dbVars, dpc, ghostVars,
                   aheadVars, bounds>>

ReportInsert(r) ==
    /\ rep[r].pc = "insert"
    /\ lft_rec_list' = Append(lft_rec_list, [key |-> rep[r].key, val |-> rep[r].val])
    /\ rep' = [rep EXCEPT ![r] = [Idle EXCEPT !.pc = "lft_write"]]
    /\ UNCHANGED <<envVars, osm_lock, ctrl, wpc, dbVars, dpc, ghostVars,
                   aheadVars, bounds>>

(* write(fd[0]) blocks while the socket buffer is full.                    *)
CtrlWrite(msg) ==
    /\ Len(ctrl) < QueueCap
    /\ ctrl' = Append(ctrl, msg)

ReportWrite(r) ==
    /\ rep[r].pc \in {"lft_write", "up_write"}
    /\ CtrlWrite(IF rep[r].pc = "lft_write" THEN "LFT_CHANGE" ELSE "START_EXTRACT")
    /\ rep' = [rep EXCEPT ![r] = Idle]
    /\ osm_lock' = IF osm_lock = r THEN "free" ELSE osm_lock
    /\ UNCHANGED <<envVars, lft_rec_list, wpc, dbVars, dpc, ghostVars,
                   aheadVars, bounds>>

-----------------------------------------------------------------------------
(* destroy().                                                              *)

DestroyWrite ==
    /\ dpc = "exit"
    /\ CtrlWrite("EXIT")
    /\ dpc' = "join"
    /\ UNCHANGED <<envVars, osm_lock, rep, lft_rec_list, wpc, dbVars, ghostVars,
                   aheadVars, bounds>>

(* pthread_join, then the descriptors and the database go.                 *)
DestroyJoin ==
    /\ dpc = "join"
    /\ wpc = "exited"
    /\ dpc' = "done"
    /\ UNCHANGED <<envVars, osm_lock, rep, chanVars, wpc, dbVars, ghostVars,
                   aheadVars, bounds>>

-----------------------------------------------------------------------------
(* ssa_db_run().                                                           *)

(* Mutant: an LFT_CHANGE message is looked at and left in the socket.      *)
MutReadPeeks ==
    /\ wpc = "poll"
    /\ ctrl # <<>>
    /\ ctrl' = IF Head(ctrl) = "LFT_CHANGE" THEN ctrl ELSE Tail(ctrl)
    /\ wpc' = CASE Head(ctrl) = "START_EXTRACT" -> "acquire"
                [] Head(ctrl) = "LFT_CHANGE"    -> "lft"
                [] Head(ctrl) = "EXIT"          -> "exited"
    /\ UNCHANGED <<envVars, osm_lock, rep, lft_rec_list, dbVars, dpc, ghostVars,
                   aheadVars, bounds>>

WorkerRead ==
    /\ wpc = "poll"
    /\ ctrl # <<>>
    /\ ctrl' = Tail(ctrl)
    /\ wpc' = CASE Head(ctrl) = "START_EXTRACT" -> "acquire"
                [] Head(ctrl) = "LFT_CHANGE"    -> "lft"
                [] Head(ctrl) = "EXIT"          -> "exited"
    /\ UNCHANGED <<envVars, osm_lock, rep, lft_rec_list, dbVars, dpc, ghostVars,
                   aheadVars, bounds>>

(* Mutant: the extraction does not wait for the OpenSM lock.               *)
MutAcquireNoWait ==
    /\ wpc = "acquire"
    /\ osm_lock' = "worker"
    /\ wpc' = "extract"
    /\ UNCHANGED <<envVars, rep, chanVars, dbVars, dpc, ghostVars, aheadVars, bounds>>

WorkerAcquire ==
    /\ wpc = "acquire"
    /\ osm_lock = "free"
    /\ osm_lock' = "worker"
    /\ wpc' = "extract"
    /\ UNCHANGED <<envVars, rep, chanVars, dbVars, dpc, ghostVars, aheadVars, bounds>>

(* The full LFT dump: every block, and the table size where the LFT change *)
(* records have the top.                                                   *)
FullLft == [k \in LftKeys |-> IF k \in Tops THEN LftSize ELSE sw_lft[k]]

(* Mutant: like the LFTs, the tables are only read the first time.         *)
MutExtractOnce ==
    /\ wpc = "extract"
    /\ dumpDb' = [initialized |-> TRUE, opts |-> fabric.opts,
                  recs |-> IF first THEN fabric.recs ELSE curDb.recs]
    /\ db_lft' = IF first THEN FullLft ELSE db_lft
    /\ wpc' = "drain"
    /\ UNCHANGED <<envVars, osm_lock, rep, chanVars, prevDb, curDb, dump_lft,
                   first, dpc, ghostVars, aheadVars, bounds>>

(* ssa_db_extract fills the dump version; the LFTs only the first time.    *)
WorkerExtract ==
    /\ wpc = "extract"
    /\ dumpDb' = [initialized |-> TRUE, opts |-> fabric.opts, recs |-> fabric.recs]
    /\ db_lft' = IF first THEN FullLft ELSE db_lft
    /\ wpc' = "drain"
    /\ UNCHANGED <<envVars, osm_lock, rep, chanVars, prevDb, curDb, dump_lft,
                   first, dpc, ghostVars, aheadVars, bounds>>

(* The records of a key in a list, the last of them and its value.         *)
HasKey(list, k) == \E i \in 1..Len(list) : list[i].key = k

IsLast(list, i, k) ==
    /\ i \in 1..Len(list)
    /\ list[i].key = k
    /\ \A j \in 1..Len(list) : j > i => list[j].key # k

LastVal(list, k) == list[CHOOSE i \in 1..Len(list) : IsLast(list, i, k)].val

(* Mutant: a record whose key is in the dump already is dropped, as        *)
(* cl_qmap_insert alone would have it.                                     *)
MutLftHandleKeepsOld ==
    /\ dump_lft' = [k \in LftKeys |-> IF HasKey(lft_rec_list, k) /\ dump_lft[k] = None
                                        THEN LastVal(lft_rec_list, k) ELSE dump_lft[k]]
    /\ lft_rec_list' = <<>>

(* ssa_db_lft_handle empties the list into the LFT dump; of the records of *)
(* one key the last one stays.                                             *)
LftHandle ==
    /\ dump_lft' = [k \in LftKeys |-> IF HasKey(lft_rec_list, k)
                                        THEN LastVal(lft_rec_list, k) ELSE dump_lft[k]]
    /\ lft_rec_list' = <<>>

WorkerDrain ==
    /\ wpc \in {"drain", "lft"}
    /\ LftHandle
    /\ wpc' = IF wpc = "drain" THEN "release" ELSE "poll"
    /\ UNCHANGED <<envVars, osm_lock, rep, ctrl, prevDb, curDb, dumpDb, db_lft,
                   first, dpc, ghostVars, aheadVars, bounds>>

(* Mutant: the lock is kept until the thread ends.                         *)
MutReleaseKeepsLock ==
    /\ wpc = "release"
    /\ wpc' = "update"
    /\ UNCHANGED <<envVars, osm_lock, rep, chanVars, dbVars, dpc, ghostVars, aheadVars, bounds>>

WorkerRelease ==
    /\ wpc = "release"
    /\ osm_lock' = "free"
    /\ wpc' = "update"
    /\ UNCHANGED <<envVars, rep, chanVars, dbVars, dpc, ghostVars, aheadVars, bounds>>

(* Mutant: the current version is replaced before it becomes the previous. *)
MutUpdateSwapped ==
    /\ wpc = "update"
    /\ prevDb' = IF curDb.initialized THEN dumpDb ELSE prevDb
    /\ curDb' = dumpDb
    /\ dumpDb' = EmptyDb
    /\ wpc' = "compare"
    /\ UNCHANGED <<envVars, osm_lock, rep, chanVars, db_lft, dump_lft, first, dpc,
                   ghostVars, aheadVars, bounds>>

(* Mutant: no fresh dump version is allocated.                             *)
MutUpdateNoDump ==
    /\ wpc = "update"
    /\ prevDb' = IF curDb.initialized THEN curDb ELSE prevDb
    /\ curDb' = dumpDb
    /\ dumpDb' = None
    /\ wpc' = "compare"
    /\ UNCHANGED <<envVars, osm_lock, rep, chanVars, db_lft, dump_lft, first, dpc,
                   ghostVars, aheadVars, bounds>>

(* ssa_db_update.                                                          *)
WorkerUpdate ==
    /\ wpc = "update"
    /\ prevDb' = IF curDb.initialized THEN curDb ELSE prevDb
    /\ curDb' = dumpDb
    /\ dumpDb' = EmptyDb
    /\ wpc' = "compare"
    /\ UNCHANGED <<envVars, osm_lock, rep, chanVars, db_lft, dump_lft, first, dpc,
                   ghostVars, aheadVars, bounds>>

(* ssa_db_diff_compare_subnet_tables.  "misread" are the link and port     *)
(* records of both versions that ssa_db_link_cmp and ssa_db_port_cmp call  *)
(* different: they look at other records than the two they are given.      *)
Differs(k, misread) ==
    IF k \in ExactKeys THEN prevDb.recs[k] # curDb.recs[k] ELSE k \in misread

Removed(misread) ==
    {k \in Keys : prevDb.recs[k] # None /\ (curDb.recs[k] = None \/ Differs(k, misread))}

Added(misread) ==
    {k \in Keys : curDb.recs[k] # None /\ (prevDb.recs[k] = None \/ Differs(k, misread))}

OptsDirty == ~prevDb.initialized \/ prevDb.opts # curDb.opts

TablesDirty(misread) == Removed(misread) \cup Added(misread) # {}

Dirty(misread) == OptsDirty \/ TablesDirty(misread)

(* Mutant: a record the destination has already is not overwritten.        *)
MutQmapCopyKeepsOld(dest, src) ==
    [k \in LftKeys |-> IF dest[k] = None THEN src[k] ELSE dest[k]]

(* ep_lft_block_qmap_copy, ep_lft_top_qmap_copy.                           *)
QmapCopy(dest, src) == [k \in LftKeys |-> IF src[k] # None THEN src[k] ELSE dest[k]]

(* Mutant: the removals are not part of the difference.                    *)
MutApplyNoRemovals(misread) ==
    [k \in Keys |-> IF k \in Added(misread) THEN curDb.recs[k] ELSE replica[k]]

(* The consumer removes first and adds then.                               *)
ApplyDiff(misread) ==
    [k \in Keys |-> IF k \in Added(misread) THEN curDb.recs[k]
                    ELSE IF k \in Removed(misread) THEN None
                    ELSE replica[k]]

(* ssa_db_compare; what it returns is pushed, if it returns a difference.  *)
WorkerCompare ==
    /\ wpc = "compare"
    /\ IF first
         THEN UNCHANGED <<db_lft, dump_lft>>
         ELSE /\ db_lft' = QmapCopy(db_lft, dump_lft)
              /\ dump_lft' = NoLft
    /\ \E misread \in SUBSET (Keys \ ExactKeys) :
         IF Dirty(misread)
           THEN /\ replica' = ApplyDiff(misread)
                /\ replica_lft' = QmapCopy(replica_lft, IF first THEN db_lft ELSE dump_lft)
           ELSE UNCHANGED ghostVars
    /\ first' = FALSE
    /\ wpc' = "poll"
    /\ UNCHANGED <<envVars, osm_lock, rep, chanVars, prevDb, curDb, dumpDb, dpc,
                   aheadVars, bounds>>

-----------------------------------------------------------------------------
(* The plugin is gone.                                                     *)
Terminated == dpc = "done" /\ UNCHANGED vars

OpenSM == FabricChange \/ Destroy \/ \E r \in Reporters : LftChange(r) \/ SubnetUp(r)

(* Mutant: report() writes the message before it inserts the record.       *)
MutReportWritesFirst(r) ==
    \/ /\ rep[r].pc = "copy"
       /\ CtrlWrite("LFT_CHANGE")
       /\ rep' = [rep EXCEPT ![r].pc = "insert",
                             ![r].val = IF rep[r].key \in Tops
                                          THEN rep[r].val ELSE sw_lft[rep[r].key]]
       /\ UNCHANGED <<envVars, osm_lock, lft_rec_list, wpc, dbVars, dpc, ghostVars,
                      aheadVars, bounds>>
    \/ /\ rep[r].pc = "insert"
       /\ lft_rec_list' = Append(lft_rec_list, [key |-> rep[r].key, val |-> rep[r].val])
       /\ rep' = [rep EXCEPT ![r] = Idle]
       /\ UNCHANGED <<envVars, osm_lock, ctrl, wpc, dbVars, dpc, ghostVars,
                      aheadVars, bounds>>
    \/ rep[r].pc = "up_write" /\ ReportWrite(r)

(* report() after it is entered.                                           *)
Report(r) == ReportCopy(r) \/ ReportInsert(r) \/ ReportWrite(r)
Worker == \/ WorkerRead \/ WorkerAcquire \/ WorkerExtract \/ WorkerDrain
          \/ WorkerRelease \/ WorkerUpdate \/ WorkerCompare
Destroying == DestroyWrite \/ DestroyJoin

Next == OpenSM \/ (\E r \in Reporters : Report(r)) \/ Worker \/ Destroying \/ Terminated

(* Every thread inside the plugin keeps running; OpenSM owes nothing.      *)
Fairness == /\ WF_vars(Worker)
            /\ WF_vars(Destroying)
            /\ \A r \in Reporters : WF_vars(Report(r))

Spec == Init /\ [][Next]_vars
FairSpec == Spec /\ Fairness
-----------------------------------------------------------------------------
(* Safety.                                                                 *)

ReporterAt(pcs) == \E r \in Reporters : rep[r].pc \in pcs
Queued(msgs) == \E i \in 1..Len(ctrl) : ctrl[i] \in msgs

(* No lost wakeup.  A record on lft_rec_list is always followed by its     *)
(* drain: a message that makes the worker drain is in the socket, or about *)
(* to be written, or has been read (report() inserts before it writes).    *)
NoLostWakeup ==
    lft_rec_list # <<>> =>
        \/ ReporterAt({"lft_write"})
        \/ Queued({"LFT_CHANGE", "START_EXTRACT"})
        \/ wpc \in {"acquire", "extract", "drain", "lft"}

(* The LFT database holds what the switches had at the full dump.          *)
LftLoaded == ~first \/ wpc \in {"drain", "release", "update", "compare"}

(* LFT changes are never lost, overtaken or undone by an older record: the *)
(* newest record the plugin has of an LFT key (waiting in the list, else   *)
(* in the dump, else in the database) is what the switch has, unless the   *)
(* change is still on its way into the list.  A top from the full dump is  *)
(* the table size.                                                         *)
Newest(k) == IF HasKey(lft_rec_list, k) THEN LastVal(lft_rec_list, k)
             ELSE IF dump_lft[k] # None THEN dump_lft[k]
             ELSE db_lft[k]

Coherent(k) == \/ Newest(k) = sw_lft[k]
               \/ Newest(k) = LftSize /\ k \in Tops
               \/ Newest(k) = None /\ ~LftLoaded

LftCoherent == \A k \in LftKeys \ InFlight : Coherent(k)

(* The chain of differences never loses or repeats a step: a consumer that *)
(* applied every pushed difference, removals first, has the records of the *)
(* last compared SMDB version; of links and ports only which keys there    *)
(* are (their values may be stale: see ssa_db_link_cmp, ssa_db_port_cmp).  *)
SameTables(tbl1, tbl2) ==
    /\ \A k \in ExactKeys : tbl1[k] = tbl2[k]
    /\ \A k \in Keys : tbl1[k] = None <=> tbl2[k] = None

TablesInSync ==
    SameTables(replica, IF wpc = "compare" THEN prevDb.recs ELSE curDb.recs)

(* What is settled is fresh: once the worker has dealt with every message, *)
(* the consumer has the subnet of the last SUBNET_UP and the LFT database  *)
(* every change reported before it.  (A change reported while SUBNET_UP is *)
(* reported by another thread may miss the extraction: lftAhead has it.)   *)
DbFresh(k) == db_lft[k] = sw_lft[k] \/ (db_lft[k] = LftSize /\ k \in Tops)

Settled == wpc = "poll" /\ ctrl = <<>> /\ ~ReporterAt({"up_write"})

SettledFresh ==
    Settled =>
        /\ ~fabricAhead => SameTables(replica, fabric.recs)
        /\ \A k \in LftKeys \ lftAhead : DbFresh(k)

(* destroy() leaves no record behind: when the worker has exited, nothing  *)
(* is unread in the socket and no LFT record is left in the list, which    *)
(* ssa_database_delete does not free.                                      *)
CleanExit == wpc = "exited" => ctrl = <<>> /\ lft_rec_list = <<>>

(* With ReportLocked an extraction misses no LFT change: while the worker  *)
(* has the OpenSM lock, what is in the list, the dump or the database is   *)
(* what the switches have, for every key.                                  *)
LockedExtractionComplete ==
    (ReportLocked /\ wpc \in {"extract", "drain", "release"}) =>
        /\ osm_lock = "worker"
        /\ \A k \in LftKeys : Coherent(k)

(* The consumer also follows the forwarding tables: "for LFT records there *)
(* is only single map for changed blocks that need to be set" when the     *)
(* SMDB is updated from a difference (ssa_comparison.c:697-701).           *)
LftReplicaInSync ==
    wpc = "poll" => \A k \in LftKeys : replica_lft[k] = db_lft[k]

(* Deadlock.  A thread inside the plugin can go on unless it waits for the *)
(* socket to have room, or a message, for the OpenSM lock, or for the      *)
(* worker to exit.                                                         *)
ReporterCan(r) ==
    \/ rep[r].pc \in {"copy", "insert"}
    \/ rep[r].pc \in {"lft_write", "up_write"} /\ Len(ctrl) < QueueCap

WorkerCan ==
    \/ wpc = "poll" /\ ctrl # <<>>
    \/ wpc = "acquire" /\ osm_lock = "free"
    \/ wpc \in {"extract", "drain", "lft", "release", "update", "compare"}

DestroyCan ==
    \/ dpc = "exit" /\ Len(ctrl) < QueueCap
    \/ dpc = "join" /\ wpc = "exited"

(* There is something to do: a thread has not left report() or destroy(),  *)
(* or the worker has a message.                                            *)
Busy ==
    \/ \E r \in Reporters : rep[r].pc # "idle"
    \/ dpc \in {"exit", "join"}
    \/ ctrl # <<>>
    \/ wpc \notin {"poll", "exited"}

(* A reporter with the OpenSM lock waits for the worker to read a message, *)
(* and the worker for the lock.                                            *)
CrossWait ==
    /\ ReportLocked
    /\ wpc = "acquire"
    /\ \E r \in Reporters : osm_lock = r /\ rep[r].pc = "lft_write"
    /\ Len(ctrl) = QueueCap

(* The threads never wait for each other in a circle but in that one way,  *)
(* which takes a lock held in report(), and two messages more than the     *)
(* socket holds: the one that was read and the one that waits.             *)
NeverStuck ==
    Busy =>
        \/ \E r \in Reporters : ReporterCan(r)
        \/ WorkerCan
        \/ DestroyCan
        \/ CrossWait /\ MaxLftChanges + MaxUps >= QueueCap + 2

-----------------------------------------------------------------------------
(* Liveness.                                                               *)

(* Every SUBNET_UP reaches the consumer, or the subnet changes meanwhile.  *)
UpConverges == ~fabricAhead ~> (fabricAhead \/ SameTables(replica, fabric.recs))

(* Every LFT change covered by a SUBNET_UP reaches the LFT database.       *)
LftConverges ==
    \A k \in LftKeys : k \notin lftAhead ~> (k \in lftAhead \/ DbFresh(k))

(* report() always returns to OpenSM, however full the socket is.          *)
ReportReturns == \A r \in Reporters : rep[r].pc # "idle" ~> rep[r].pc = "idle"

(* destroy() always completes: the worker reads EXIT behind all the rest.  *)
DestroyCompletes == dpc = "exit" ~> dpc = "done"

-----------------------------------------------------------------------------
(* The consumer's copy moves from one snapshot of the subnet to a later    *)
(* one, whatever is reported while the worker extracts.                    *)
Exact(recs) == [k \in ExactKeys |-> recs[k]]

Mirror == INSTANCE SubnetMirror WITH
    States  <- [ExactKeys -> Vals \cup {None}],
    Nothing <- Exact(NoRecs),
    subnet  <- Exact(fabric.recs),
    held    <- CASE wpc \in {"drain", "release", "update"} -> <<Exact(dumpDb.recs)>>
                 [] wpc = "compare" -> <<Exact(curDb.recs)>>
                 [] OTHER -> <<>>,
    mirror  <- Exact(replica)

ImplementsMirror == Mirror!Spec
=============================================================================
