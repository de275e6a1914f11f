# Verification of the SSA plugin for OpenSM (ibssa)

The repository is a plugin of the InfiniBand subnet manager OpenSM.  It follows the
subnet (SMDB: the SM data base) and pushes what changed to the consumers of the subnet
administration.  This directory holds TLA+ specifications of the plugin, the TLC
configurations that check them on small instances, and proofs checked by TLAPS of the
properties that matter most, for every value of the constants.

## 1. The system

| Component | Code | State | Operations |
|---|---|---|---|
| OpenSM event callbacks | `ssa_plugin.c` `report` | the record it carries | LFT_CHANGE: allocate and copy a record, insert it in the list under its mutex, write `SSA_DB_LFT_CHANGE`; SUBNET_UP: write `SSA_DB_START_EXTRACT` unless OpenSM had an initialization error; other events only log |
| Control socket and LFT record list | `ssa_plugin.c`, `ssa_extract.c` | `fd[0]`/`fd[1]`, `ssa_db->lft_rec_list` | blocking `write`, `poll`/`read`, insert at tail, drain |
| Worker thread | `ssa_extract.c` `ssa_db_run` | where it is in its loop | START_EXTRACT: lock, extract, drain, unlock, update, compare; LFT_CHANGE: drain; EXIT: leave |
| SMDB versions | `ssa_extract.c` `ssa_db_update`, `ssa_database.c` | `p_previous_db`, `p_current_db`, `p_dump_db` | rotate |
| Extraction | `ssa_extract.c` `ssa_db_extract`, `ssa_smdb.c` | the dump version | subnet options, guid-to-lid, node, link, port and pkey tables, the LFTs the first time |
| LFT tables | `ssa_extract.c`, `ssa_comparison.c` | `ep_db_lft_*`, `ep_dump_lft_*` (maps from key to offset, arrays) | first full dump, drain of the list into the dump, merge of the dump into the database |
| Comparison | `ssa_comparison.c` `ssa_db_compare` | the difference it builds | compare options, walk every pair of tables, collect changed LFT records |
| Start and stop | `ssa_plugin.c` `construct`, `destroy` | the socket pair, the thread | create and free |
| Generic SSA database | `ssa_db.c` | a tree of allocated blocks: definitions, data tables, field tables | `ssa_db_create`, `ssa_db_init`, `ssa_db_destroy` |
| SMDB schema | `ssa_smdb.c`, `ssa_smdb.h` | constant tables, definitions and field layouts | `ssa_db_smdb_init` |
| Logging, validation, build | several | none | printing, building |

How they interact: OpenSM's threads call `report()`; records travel on the mutex
protected list, messages on the socket, and each record is inserted **before** its
message is written.  The worker reads messages one by one.  On START_EXTRACT it takes
OpenSM's lock (shared), fills the dump version, empties the list into the LFT dump,
releases the lock, and only then rotates the versions and compares the last two, while
the subnet may change again and further messages queue up.  The result of the
comparison is the difference a consumer applies: removals, then additions.

What is hard about it: threads that report LFT changes race with each other and with
the extraction; a change is visible in OpenSM before its record is in the list; the
record's block is read from the switch and not from the event; three versions and two
sets of LFT tables are rotated by one thread with the lock released half way;
`write()` blocks OpenSM when the socket is full; `destroy()` must leave nothing behind;
and the tables are arrays with separate offset maps whose capacities are computed in
several places.  `PROJECT.json` lists the hazards, each at its line.

What makes each component correct:

* list and socket: no record without a drain to come; `report()` returns; nothing left
  at exit; no circle of threads that wait (`NoLostWakeup`, `ReportReturns`, `CleanExit`,
  `DestroyCompletes`, `NeverStuck`);
* LFT tables: the newest record of a key wins, whatever the order of messages
  (`LftCoherent`, `LftConverges`);
* versions and comparison: the chain of differences reproduces the tables
  (`TablesInSync`, `SettledFresh`, `UpConverges`, `ImplementsMirror`,
  `ImplementsPortMirror`);
* arrays: every record goes to an allocated place, and two keys never share one
  (`WithinCapacity`, `NoSharedSlot`, `FitsDifference`, `ArraysFit`, `PkeyCopiesInBounds`);
* extraction and differences: each port, link and GUID is found by its key with its own
  record and its own pkeys (`PortsFound`), a difference says exactly what changed
  (`DiffExact`, `PushedIffChanged`, `ChangesReported`, `PortConsumerCatchesUp`);
* memory: an allocation chain is undone completely and in a legal order
  (`AllOrNothing`, `FreesAreLive`), pointers name live versions (`VersionsLive`), a
  failed start leaves nothing running (`FailedConstruct`);
* schema: no step of `ssa_db_init` writes where there is no room, and the fields it copies
  describe the records (`SchemaFits`, `FieldsDescribeRecords`).

## 2. Modules and plan

| | Module | Models | State of it |
|---|---|---|---|
| A | `SubnetMirror` | what the plugin promises to a consumer (abstract) | done |
| A | `SsaPipeline` | callbacks, list, socket, worker, versions, comparison, `destroy` | done, checked, proved |
| B | `LftStore` | what the LFT tables promise: stores of records by key (abstract) | done |
| B | `SsaLftTable` | offsets, growth and reuse of the LFT arrays | done, checked, safety proved |
| C | `SsaDiff` | the walk over two versions of a table and what it writes | done, checked, proved |
| C | `SsaOptsDiff` | the subnet options in a difference | done, checked, proved within `SsaCompare` |
| C | `SsaCompare` | options and walks one after the other, up to what `ssa_db_compare` returns | done, checked, proved |
| D | `SsaExtract` | the pass over the ports: keys, offsets, pkeys, array sizes | done, checked, proved |
| D | `SsaPorts` | the port table through extraction, update and comparison, with the pkey bytes | done, checked, proved |
| E | `SsaDb` | `ssa_db_create` with every failing allocation, `ssa_db_init` field by field, `ssa_db_destroy` | done, checked, proved |
| F | `SsaSmdb` | the schema of the SMDB as values for `SsaDb` | done, checked |
| F | `PluginLifecycle` | `construct`, the versions and differences of the rounds, `destroy`, with failing steps; extends `SsaDb` | done, checked, safety proved |

`SsaPipelineProofs`, `SsaLftTableProofs`, `SsaLftStoreProofs`, `SsaDiffProofs`,
`SsaCompareProofs`, `SsaExtractProofs` (lemmas of one pass), `SsaPortsProofs` and
`PluginLifecycleProofs` (with those of `SsaDb`) hold the theorems; `MCSsaPipeline`,
`MCSsaLftTable`, `MCSsaCompare`, `MCSsaPorts` and `MCPluginLifecycle` only give names to the
values that the `.cfg` files use.  No module has a `RECURSIVE` operator.

How they fit together.  `SsaPipeline` is the whole: it has the *contents* of every table,
so one step of it is a whole function of the worker.  `SsaLftTable` opens the LFT tables of
`SsaPipeline` up (`db_lft`, `dump_lft` are its offset maps composed with its arrays, one
record per step).  `SsaDiff` opens the sets `Removed` and `Added` of `SsaPipeline` up (one
key per step); `SsaPipeline` in turn takes from it that a compare function of links or
ports may answer anything for a key of both versions, and the right thing for a key of
one.  `SsaCompare` extends `SsaDiff` and instantiates `SsaOptsDiff`: the steps of
`ssa_db_compare` in their order, with the flags that decide whether a difference is pushed;
this is `Dirty` of `SsaPipeline`.  `SsaPorts` extends `SsaExtract`: the one table whose records
refer to another array.  `PluginLifecycle` extends `SsaDb`, and gets its schema from `SsaSmdb`.
What `SsaPipeline` takes from the modules below it holds by construction of the
definitions, not by a checked refinement; the checked and proved refinements are
`SsaPipeline` to `SubnetMirror`, `SsaPorts` to `SubnetMirror` (whose subnets are there the sets
of port keys, so that one promise is kept at both levels) and `SsaLftTable` to `LftStore`.

Nothing of the plan is left but what stays with TLC (end of section 5): the liveness
properties.

## 3. How the modules correspond to the code

`PROJECT.json` maps every definition to its lines; this section says what was abstracted.

### SsaPipeline

| In the model | In the code |
|---|---|
| `fabric`, `sw_lft`, `initError` | `osm_subn_t`: node/port/guid tables and options, the switches' linear forwarding tables, `subnet_initialization_error` (external) |
| `osm_lock` | `p_osm->lock`, `CL_PLOCK_ACQUIRE`/`RELEASE` in `ssa_db_run`; OpenSM's exclusive holders |
| `rep[r]` | one call of `report()`: `copy` (allocate and fill the record), `insert` (list mutex held), `lft_write`/`up_write` (`write(fd[0])`) |
| `lft_rec_list`, `ctrl` | the list, the socket pair with room for `QueueCap` messages |
| `wpc` | where `ssa_db_run` is: `poll`, then for START_EXTRACT `acquire`, `extract`, `drain`, `release`, `update`, `compare`; for LFT_CHANGE `lft` |
| `prevDb`, `curDb`, `dumpDb` | the three versions; a record is a key with a value |
| `db_lft`, `dump_lft`, `first` | contents of `ep_db_lft_*`, `ep_dump_lft_*`; `first_time_subnet_up` |
| `dpc` | `destroy()`: write EXIT, `pthread_join`, free |
| `replica`, `replica_lft` | ghosts: a consumer that applies each difference that `ssa_db_compare` returns |
| `fabricAhead`, `lftAhead` | ghosts: what changed since the last SUBNET_UP was reported |

`ssa_db_lft_handle` is one step, because it holds the list mutex throughout, and
`ssa_db_extract`, `ssa_db_update` and `ssa_db_compare` are one step each, because only the
worker touches what they write and the extraction holds OpenSM's lock.  Everything else
may happen between any two of these steps.  A top record of the full dump holds the table
size (`LftSize`), one of an LFT change the top itself: the code stores two different
things there, and the properties name the difference instead of hiding it.

Links and ports: `ssa_db_link_cmp` and `ssa_db_port_cmp` look at other records than the
two they are asked about (section 6), so `WorkerCompare` lets their answer for a key of
both versions be any, and the properties say of link and port records only which keys
there are.

### SsaLftTable

An array is its capacity (`cap`) and the records written, by offset (`tbl`); a map gives
offsets by key.  `Enter` is `cl_qmap_insert` with the `memcpy` (a key that is present keeps
its place), `Realloc` is `malloc`/`realloc` (what is beyond the capacity is gone),
`ClearMap` is `cl_qmap_clear`.  The loops over a map (`CollectRecord`, `MergeRecord`) take one
record per step in key order; the full dump takes any order, since it follows node GUIDs.
The worker's other steps are left out: they do not touch these tables.  Block and top
tables run through twin functions; a top table is the instance `MaxLidBlocks = 1`.

### SsaDiff, SsaOptsDiff and SsaCompare

`SsaDiff` is `ssa_db_diff_table_cmp_v2` with the `insert` and `cmp` functions it is given.
`todoOld` and `todoNew` are what the two iterators have still to visit.  `aligned` says that the
compare function is that of guid-to-lid or of node; otherwise it is that of link, with
the offsets the code really uses and, beyond the array, any answer.  A version's array may be
in any order, because it is in GUID order and the map in key order; guid-to-lid and
node tables are in key order.

`SsaOptsDiff` has one step, `ssa_db_diff_compare_subnet_opts`, over every pair of options.
The record starts as anything at all, since `ssa_db_create` takes it from `malloc`.

`SsaCompare` runs the options and then one walk for each of `Tables`.  A table's versions are
chosen when its walk begins (nothing ties the tables of a version together in the code, and
without a previous version the old one is empty) and forgotten when it ends, which keeps the
state small.  `tables_dirty` is the `uint8_t` into which the answers are shifted.
`must` and `may` are histories: whether a part that was walked has something to report, and
whether it can report something.

### SsaExtract and SsaPorts

`subnet` is what OpenSM has found.  A step is one port of `port_guid_tbl`, in GUID order, with
its GUID record (`VisitPort`; `port` is the one visited), or one of its physical ports with all
that is written for it (`SwitchPort` for those of a switch from 0 on, `HostPort` for the one of
a host; `physps` are those still to come).  The sizes of the arrays are sums over the subnet;
a sum is written as the number of places it counts (`MaxPorts`, `MaxPkeys`).
`base` and `cur` are `pkey_base_offset` and `pkey_cur_offset`.  Three details decide the
properties and are kept: a map keeps the record it has when a key comes twice (invalid LIDs
are only logged at `ssa_extract.c:360`), while the array's offset advances; a host without a
remote port leaves the body at line 454 before its pkeys are closed (`CloseIf`), so that they
count for the next port again; and offsets count pkeys while sizes count bytes, in a `uint16_t`
(`SizeOf`, `CountOf`).  `SubnetsAssumption` says what OpenSM's tables are: finitely many ports, LIDs of
16 bits, a switch with a port 0 and its other ports below `physp_tbl_size`, which is at most
`num_ports` (OpenSM makes both one more than the number of external ports), a host with the
one port of its GUID.  The arrays are sized by `num_ports` and filled by `physp_tbl_size`: if
the latter were larger, `ArraysFit` could be violated.

`WithAdded` and `WithRemoved` are `ssa_db_port_insert` with and without a pkey array, and
`Answers` is `ssa_db_port_cmp`: misplaced offsets (423-424), then `memcmp` of the addresses of two
local pointers (437-438), whose result can be anything if the record has pkeys.  Pkeys in
`SsaPorts` are kept as bytes by index, so that half of a pkey can be seen.  The `mirror` of
`ImplementsPortMirror` is what a consumer has that applies each difference when its walk is
done; a version is `held` from `ssa_db_update` to there.  The node table
is written like the GUID table and left out; the LFTs are in `SsaLftTable`.

### SsaDb, SsaSmdb and PluginLifecycle

A block of memory is its pointer's name, with the index of the table in the two arrays of
pointers.  `After` is the order in which `ssa_db_create` allocates, `Goto` the label `err8` to `err1`
that a failed allocation jumps to, `FreedAfter` what the labels and `ssa_db_destroy` free next.
Each block is a step of its own, so that a double free or a pointer read from a freed block
is a violation.  `malloc(0)` is taken to return a pointer; the number of tables is natural
(`LenAssumption`).  `ssa_db_init` takes
one step for each definition (`InsertDef`), one for the counts of the field datasets from
`dataset_tbl` (`InitDatasets`; the argument `field_dataset_tbl` is not used), then the nested
loop: each definition of a table of fields (`p_tbl_def`, `NextDef`) runs over all of `field_tbl`
(`p_field_def`, `InsertField`) and copies those with its table's id (`IsFieldOf`) to the table it
refers to.  `ssa_db_init` checks nothing, so what it needs of its arguments is an assumption,
`SchemaAssumption`: room for the definitions; for each table of fixed-size records, and no
other, one definition of its fields, with room for them; and in `field_tbl` these fields follow
each other from bit 0 and end less than 8 bytes before the record does.  TLC evaluates it on
the tables of `ssa_smdb.c`.

`SsaSmdb` has the numbers of `ssa_smdb.c` and `ssa_smdb.h`: ids, record counts, sizes and offsets
of fields, `sizeof` of the records.  Names and the version fields are left out.

In `PluginLifecycle` `Acquires` and `Releases` are the steps of `construct()` and what each failing
one undoes, `NewDump` is the next version, which may be missing, and a version is the
number of its making.  `ExtractCrashes` and `CompareCrashes` stand for every write through a pointer
that a failed allocation left `NULL`: the extraction and the comparison go on with it.

## 4. The runs

Every run finishes in about a minute with four workers.

| Run | Properties | Asks |
|---|---|---|
| `fabric` | `TypeOK`, `TablesInSync`, `SettledFresh`, `ImplementsMirror` | Do the pushed differences keep a consumer in step with whole snapshots, while the subnet changes and SUBNET_UPs queue up? 3 changes (of one exactly compared key, one link, or the options), 3 SUBNET_UPs, a socket of one message; 357,780 states |
| `lft` | `NoLostWakeup`, `LftCoherent`, `SettledFresh`, `CleanExit` | Is an LFT change ever lost, overtaken or left behind? 2 threads, 4 changes of one block and one top, 2 SUBNET_UPs; 536,482 states |
| `live` | `NeverStuck`, `UpConverges`, `LftConverges`, `ReportReturns`, `DestroyCompletes` | Does all that was reported arrive, do `report()` and `destroy()` return, and can all of them wait for each other? Socket of one message, so writers block; 151,452 states |
| `locked` | `NeverStuck`, `LockedExtractionComplete` | If OpenSM reports under its lock, into a socket of three messages when there are four events, does an extraction miss anything, and does a thread wait for ever? 94,001 states |
| `lft_push` | `LftReplicaInSync` (violated) | Do LFT changes reach the consumer? (section 6) |
| `lft_tables` | `TypeOK`, `WithinCapacity`, `NoSharedSlot`, `ImplementsLftStore` | One switch of up to three blocks, two values, arrays growing by two records, 3 changes, 3 extractions: is a record written outside its array or over another, and do arrays and maps behave as plain stores? 1,108,796 states |
| `compare` | `DiffExact`, `RecordsIntact`, `ConsumerCatchesUp`, `FitsDifference`, `DirtyIffRecords`, `ChangesReported`, `PushedIffChanged` | Every pair of versions of an exactly compared table of three keys and of a link table in every array order, one after the other, behind every change of an option: is each difference what its table needs, and is the whole returned exactly when something changed? 351,176 states |
| `diff_link_exact` | `DiffExactForAll` (violated) | Is a link's difference exact? (section 6) |
| `opts_mask` | `MaskMatchesChanges` (violated) | Does `change_mask` name the changed fields? (section 6) |
| `ports` | `ArraysFit`, `PortsFound`, `PkeyCopiesInBounds`, `SlicesTile`, `PortConsumerCatchesUp`, `ImplementsPortMirror` | All 195 subnets of up to two hosts and a switch (no, one or two pkeys, valid and invalid LIDs, with and without a link), each followed by each: is everything found by its key, within its array, and in the difference, and does a consumer have the ports of one subnet and then of the other? 546,757 states |
| `port_pkeys` | `PkeysArrive` (violated) | Does an added port bring its own pkeys? (section 6) |
| `heap` | `AllOrNothing`, `FreesAreLive`, `SchemaFits`, `FieldsDescribeRecords`, `VersionsLive`, `OnlyFirstVersionLost`, `FailedConstruct`, `CrashNeedsFailure` | The whole SMDB schema, three rounds, any step of `construct()` and any allocation failing: is memory undone, freed and pointed at as it should be, and does each step of `ssa_db_init` fit? 1,598 states |

Why the bounds are enough.

* Two reporting threads and one worker are all the kinds of thread there are; a third
  reporter adds no new pair of steps.  Four LFT changes are enough for two records of a
  key in one drain, one before and one after a drain, and one after a merge.
* Three SUBNET_UPs give a first comparison, a second one (where `first` changes what is
  copied and cleared) and a third, after all three versions have rotated once.
* A socket of one message makes every writer block; a larger one adds no step.  The one of
  three in `locked` is the smallest that its four events cannot block (next section).  In `live`
  `LftConverges` and `UpConverges` are checked with one value in the tables, as they speak of
  one key at a time.
* `BlockSize` 2 stands for 1024: the growth happens at multiples of it, and the runs
  cross several of them, also after a clear.  `LidsPerPort = 1` is the tightest case.
* Three keys give every order of two walks: smaller, equal, larger, either side exhausted.
  Two tables are one of each family of compare functions and one shift of the flag; that four
  tables do not lose a bit is proved.
* Two hosts around a switch in GUID order have every predecessor of a slice: none, a host, a
  switch, and a host that leaves its pkeys open.  Two versions are one comparison with
  nothing and one with something; a third is a second one again.
* `heap` has the real schema, so its only bound is the number of rounds: the first update
  loses a version, the second deletes one, the third repeats the second.

`MaxChanges`, `MaxLftChanges`, `MaxUps`, `MaxExtracts`, `MaxVersions` and `MaxRounds` bound what OpenSM
does and nothing the plugin does; `MaxLidBlocks` and `QueueCap` are sizes.  Symmetry is declared for values
and reporters in the larger of the runs without liveness properties, never in `live`.

Deadlock is checked in every run; where a system ends it stutters in a step of its own
(`Terminated`, `Finished`, `Returned`, `Ended`).

### Fairness

`FairSpec` has weak fairness of the worker, of `destroy()` once called, and of each
`report()` once entered: threads that the operating system runs.  OpenSM owes nothing.
Weak fairness is enough at the lock and the socket because the environment takes finitely
many steps within the bounds, so that neither is contended for ever; with unboundedly
many writers, delivery would rest on the fairness of `write()` and of the lock.

### What the environment is assumed to do

* An LFT key has one event in flight: OpenSM sends the next Set of a block only after the
  answer to the previous one.  Without it two threads could insert two records of a key in
  the wrong order, and nothing in the plugin could tell.
* `destroy()` is called when no thread is inside `report()`.
* Whether OpenSM reports LFT changes with its lock held is not in this repository, so both
  are modelled (`ReportLocked`).  With the lock held and a socket that can fill, a reporter may
  wait for the worker to read while the worker waits for the lock (`CrossWait`).  `NeverStuck`
  says that this is the only circle, and that it takes two events more than the socket
  holds: the message the worker has read and the one being written.  That is tight: with a
  socket of two messages the four events of `locked` do deadlock.  The kernel's buffer holds
  hundreds of messages, and the code neither counts them nor makes the descriptor
  non-blocking.
* Allocation succeeds (but in `PluginLifecycle`, which is about nothing else), writes to the
  socket are whole messages.
* LIDs of switches are distinct, and no switch has a larger table than the LIDs of the
  subnet require: OpenSM derives both from the largest LID.

## 5. What is proved

TLAPS checks these for every value of the constants that satisfies the modules'
assumptions: any number of threads, keys, values, switches, records, any socket and block
size, any number of changes.

| Theorem | States | In the run |
|---|---|---|
| `TypeCorrect` | `TypeOK` of `SsaPipeline` | `fabric` |
| `NeverLostWakeup`, `AlwaysCleanExit` | `NoLostWakeup`, `CleanExit` | `lft` |
| `AlwaysGoesOn` | `NeverStuck` | `live`, `locked` |
| `AlwaysLftCoherent` | `LftCoherent` | `lft` |
| `LockedExtraction` | `LockedExtractionComplete` | `locked` |
| `AlwaysTablesInSync` | `TablesInSync` | `fabric` |
| `AlwaysSettledFresh` | `SettledFresh` | `fabric`, `lft` |
| `RefinesMirror` | `SsaPipeline` implements `SubnetMirror` | `fabric` |
| `TablesTypeCorrect`, `NeverBeyondArray`, `NeverSharedSlot` | `TypeOK`, `WithinCapacity`, `NoSharedSlot` of `SsaLftTable` | `lft_tables` |
| `RefinesLftStore` | `SsaLftTable` implements `LftStore` | `lft_tables` |
| `DiffTypeCorrect` | `TypeOK` of `SsaDiff` | |
| `DifferenceIsExact` | `DiffExact` | `compare` |
| `RecordsStayIntact`, `ConsumersCatchUp` | `RecordsIntact`, `ConsumerCatchesUp` | `compare` |
| `DifferenceFits`, `DirtyMeansRecords` | `FitsDifference`, `DirtyIffRecords` | `compare` |
| `EveryWalkExact` | these five of every walk within `SsaCompare` | `compare` |
| `OptionsReported`, `ChangesArePushed` | `ChangesReported`, `PushedIffChanged` | `compare` |
| `VersionsStayLive`, `CrashesNeedFailure`, `ConstructUnwinds` | `VersionsLive`, `CrashNeedsFailure`, `FailedConstruct` | `heap` |
| `OnlyOneVersionLost` | `OnlyFirstVersionLost` | `heap` |
| `DatabaseAllOrNothing`, `DatabaseFreesAreLive` | `AllOrNothing`, `FreesAreLive` | `heap` |
| `SchemaAlwaysFits`, `FieldsAlwaysDescribe` | `SchemaFits`, `FieldsDescribeRecords` | `heap` |
| `ExtractionFits`, `ExtractionFinds` | `ArraysFit`, `PortsFound` | `ports` |
| `DifferenceTiled`, `CopiesStayInBounds` | `SlicesTile`, `PkeyCopiesInBounds` | `ports` |
| `PortConsumerConverges` | `PortConsumerCatchesUp` | `ports` |
| `RefinesPortMirror` | `SsaPorts` implements `SubnetMirror` | `ports` |

The theorems of `SsaDiff` speak of one walk (its `Spec`), the same properties of a whole
comparison are `EveryWalkExact`.  Of the constants of `SsaCompare` it is assumed that there
are at most four tables, as in the code, and at least one option; of `SsaPorts`
`SubnetsAssumption`; of `SsaDb` `LenAssumption` and, for its schema, `SchemaAssumption` (section 3).

The inductive invariants, and why each is needed:

* `TypeInv` (`SsaPipeline`): a record's value has a type only if its reporter carries the
  value the switch has (`RepInv`), which another event of that key would spoil
  (`RepUnique`); and the drain takes the *last* record of a key, so one must exist
  (`ListInv`; the proof cannot use induction over the list, so it is carried along).
* `WakeInv` = `ExitInv` /\ `NoLostWakeup` /\ `CleanExit`.  EXIT is the last message ever written, so when
  it is read the socket is empty, and by `NoLostWakeup` so is the list.
* `StuckInv` = `CountInv` /\ `HolderInv` /\ `JoinInv`.  `CountInv` counts: calls of `report()` under way, messages
  in the socket and the one the worker handles are together no more than the events there
  were, EXIT included; hence the bound in `NeverStuck`.  `HolderInv`: a reporter holds the lock on its
  way to the socket only, so it is there that `CrossWait` has it.  `JoinInv`: `destroy()` waits for a
  worker that has EXIT to read or is gone.
* `LftInv` = `LockInv` /\ `LftCoherent`.  Who holds the lock follows from where the worker and the
  reporters are; `LockedExtractionComplete` is a corollary.
* `SyncInv` = `DbInv` /\ `TablesInSync`.  An uninitialized version is an empty one, so the first
  comparison adds everything to a consumer that has nothing.
* `FreshInv`: a SUBNET_UP that covers a change is queued, being handled, or has brought it.
  `SettledFresh` is the case with nothing left to handle.
* `RefinesMirror` uses `TypeInv` and `SyncInv`; one step of `SsaPipeline` is one step of
  `SubnetMirror` or none: `WorkerExtract` is `Snapshot`, `WorkerCompare` is `Publish`.
* `TableInv` (`SsaLftTable`): every table fits, *and so does what a loop has still to enter*:
  count plus remaining keys stay within the capacity (`FullDumpFits`, `CollectFits`,
  `MergeFits`).  The dump's capacity is a multiple of the block size, which is why growing
  only at multiples is enough.
* `WalkInv` (`SsaDiff`): `Ordered` says that what one side has passed lies below what the
  other has yet to visit; hence a key of both versions is met on both sides at once
  (lemma `MetTogether`), and each key gets one record per map (`OneRecordEach`), which bounds
  the array.

* `Copied` (`SsaLftStoreProofs`) with `TableInv`: the loops of a comparison have copied each record
  they have passed, so that the dump may be cleared behind them.  The other steps of
  `RefinesLftStore` follow from what `Enter`, `Realloc`, `Grown` and `ClearMap` do to the contents of
  a table, for which `NoSharedSlot` is needed.
* `CompareInv` (`SsaCompare`): every walk starts in an initial state of `SsaDiff`, hence `WalkInv`;
  `FlagInv` says that between walks the flag is up if something behind it had to be
  reported; and `BitsFit`, that with at most four tables no bit leaves the eight.
* `LifeInv` (`PluginLifecycle`): version numbers grow, so a new version is none of the live
  ones; `ConstructInv` says which versions each step of `construct()` has behind it; an
  update starts with a dump.

* `DbInv` (`SsaDb`): memory is always the set of blocks that `ssa_db_create` allocates before some
  place, an index of a pointer (`Before`).  An allocation moves the place one on, a free one
  back, and the label of a failed allocation frees what is next before it (`BeforeFreed`), so
  that `AllOrNothing` holds at either end and `FreesAreLive` on the way.  Neither is inductive:
  each says nothing of the memory half way.
* `SchemaInv` (`SsaDb`): behind any step of the nested loop, the fields of a definition are laid
  out like the places of `field_tbl` that have been looked at for it (`Looked`): as many of them,
  each beginning where the one before ends, the last ending where the last place does (`Laid`).
  It speaks of sets of places and not of the sequence a fold would give, so that it needs no
  induction; `SchemaAssumption` turns the complete set into both properties.
* `LostInv` (`PluginLifecycle`): the versions that were made and not freed are those the pointers name
  and the second one; and the database of a difference is in `DbInv`, for which a round must
  begin with none.
* `PassInv` (`SsaExtract`): the arrays are as long as what the pass has seen is large.  `PassCounts` says so with
  cardinalities of subsets of what `MaxPorts` and `MaxPkeys` count, hence `ArraysFit`; there
  `base + cur` is the number of pkeys seen.  `PassCarry` says that only a host without a link
  leaves `cur` to the next port.  `PassFound` says that a key's record is that of the first
  physical port with that key, and that its pkeys end where its own end (`Marks`); it is
  needed at every step for `PortsFound` to hold at the last.  `Apart`: with every host linked, no
  two records share pkeys.
* `PortsInv` (`SsaPorts`): both versions are tables a whole pass has left (`GoodTable`).  `RecordsOf`
  and `Walked` are `PortConsumerCatchesUp` for the keys the walk has passed.  `SlicesOf` ties the pkey
  array's length to `ref_tbl_offset`, without which a new slice could overlap the last.
  `SourcesOf` says that, with no shared pkeys, the difference holds as many bytes as the
  current version's records mark: that is why its array has room for them.

* `VersionInv` (`SsaPorts`), with `PortsInv`: a version is extracted only when the walk before it is
  done, and the one being compared has the keys of all ports of its subnet.  In
  `RefinesPortMirror`, `NextVersion` is `Change`, `Update` is `Snapshot`, the last step of a walk is
  `Publish`, and every other step, an update with nothing to walk included, changes nothing.

Only model-checked are the liveness properties `UpConverges`, `LftConverges`, `ReportReturns` and
`DestroyCompletes`: temporal reasoning under fairness is outside what the prover supports.
`NeverStuck` is their proved counterpart without fairness: a thread can always take a step.  Its
`ReporterCan`, `WorkerCan` and `DestroyCan` say in so many words when the actions of a thread are
enabled, because `ENABLED` is out of the prover's reach too.

## 6. Where the code and its words part

Each is the counterexample of one run.

* **LFT changes that come alone are not delivered** (`lft_push`).  `ssa_db_compare` copies the
  changed LFT records into the difference, merges them into the database and clears the
  dump, but only options and tables make the difference dirty; a clean one is destroyed at
  `ssa_comparison.c:1326`.  The comment at lines 697-701 describes how a consumer takes LFT
  records from the difference.
* **Links and ports are compared with the wrong records** (`diff_link_exact`).
  `ssa_db_link_cmp` and `ssa_db_port_cmp` add both offsets to the old pointer
  (`ssa_comparison.c:505-506`, `423-424`).  Records that did not change are reported, and
  others that did are not; which keys exist stays right (`ConsumerCatchesUp`).
* **`change_mask` starts from uninitialized memory** (`opts_mask`).  Bits are or-ed into a record
  that `ssa_db_create` allocated and nothing cleared (`ssa_comparison.c:137`).
* **An added port brings other pkeys** (`port_pkeys`).  `ssa_db_port_insert` takes the
  record's `pkey_tbl_offset`, which counts pkeys, for bytes (`ssa_comparison.c:378-390`,
  `ssa_extract.c:396`, `408`).  The copies stay within their arrays (`PkeyCopiesInBounds`).

Seen while modelling, and without a run of their own:

* A host without a remote port leaves its pkeys open (`ssa_extract.c:454`).  The next slice has
  them once more, and the slices of a difference may then need more than its pkey array, so
  `PkeyCopiesInBounds` is conditional (`HostsLinked`).
* The first `ssa_db_update` overwrites the pointer of the current version `construct()` made
  without deleting it (`OnlyFirstVersionLost` says that no other is lost).
* A failing `construct()` leaves memory behind: after a failed version the database, the LFT
  database, the log and the context; after a failed socket pair or thread the log and the context.
* What `ssa_db_smdb_init` returns and most record allocations are not looked at
  (`CrashNeedsFailure`: it takes a failure to get there).
* Removed port records keep the pkey offsets of the version they come from, while their
  pkeys are not in the difference.
* The field "description" of a node has the field id of `is_enhanced_sp0` (`ssa_smdb.c:109`).

## 7. What is not modelled

* The extraction of the node table: it is written like the GUID table, one record for each node.
* Restarting the plugin in one process (`first_time_subnet_up` would stay cleared), which only
  OpenSM decides on.
* `ssa_write_log`, `ssa_db_validate`, `ssa_db_validate_lft`, `ssa_db_diff_dump`: they print.
* Byte order, and the names, field ids and versions in the schema: no property speaks of them.
* Error returns of `poll()`, `read()` and `write()`, and a message of an unknown type: the loop
  logs them at most, and goes on.
* Switches that leave: no event of `report()` tells the LFT tables.
