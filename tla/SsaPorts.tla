------------------------------ MODULE SsaPorts ------------------------------
(***************************************************************************)
(* The port table through several versions: extraction (SsaExtract),       *)
(* ssa_db_update, and the walk that compares it with the version before    *)
(* (ssa_db_diff_var_size_table_cmp).  A port record marks its pkeys in a   *)
(* second array, by an offset and a size; an added record takes its pkeys  *)
(* along into the difference's pkey array, a removed one does not.         *)
(*                                                                         *)
(* A pkey is two bytes, and the difference's pkey array is one of bytes:   *)
(* an offset of an extracted record counts pkeys, one of the difference    *)
(* bytes.                                                                  *)
(***************************************************************************)
EXTENDS SsaExtract

CONSTANT MaxVersions \* bound: versions extracted

VARIABLES
    phase,              \* "extract", "compare"
    versions,           \* number of the version
    previous, current,  \* the two versions: ports, pkeys, and the subnet
    todoOld, todoNew,   \* keys the walk has still to visit
    diff                \* removed, added: offset by key; recs; pkeys: bytes
                        \* by index; offset: ref_tbl_offset; dirty

portVars == <<extractVars, phase, versions, previous, current, todoOld, todoNew, diff>>
-----------------------------------------------------------------------------
EmptyVersion == [ports |-> EmptyTable, pkeys |-> <<>>, net |-> <<>>]

EmptyDiff ==
    [removed |-> <<>>, added |-> <<>>, recs |-> <<>>,
     pkeys |-> <<>>, offset |-> 0, dirty |-> FALSE]

Init ==
    /\ subnet \in Subnets
    /\ todo = DOMAIN subnet /\ port = 0 /\ physps = {}
    /\ guidTbl = EmptyTable /\ portTbl = EmptyTable /\ linkTbl = EmptyTable
    /\ pkeyTbl = <<>>
    /\ base = 0 /\ cur = 0
    /\ phase = "extract" /\ versions = 1
    /\ previous = EmptyVersion /\ current = EmptyVersion
    /\ todoOld = {} /\ todoNew = {}
    /\ diff = EmptyDiff

ExtractPort ==
    /\ phase = "extract"
    /\ \/ \E g \in todo : VisitPort(g)
       \/ \E i \in physps : SwitchPort(i) \/ HostPort(i)
    /\ UNCHANGED <<phase, versions, previous, current, todoOld, todoNew, diff>>

(* Mutant: the first version stays the previous one.                       *)
MutUpdate ==
    /\ phase = "extract"
    /\ Extracted
    /\ UNCHANGED previous
    /\ current' = [ports |-> portTbl, pkeys |-> pkeyTbl, net |-> subnet]
    /\ todoOld' = DOMAIN previous'.ports.map
    /\ todoNew' = DOMAIN current'.ports.map
    /\ diff' = EmptyDiff
    /\ phase' = "compare"
    /\ UNCHANGED <<extractVars, versions>>

(* ssa_db_update, and the start of the comparison.                         *)
Update ==
    /\ phase = "extract"
    /\ Extracted
    /\ previous' = current
    /\ current' = [ports |-> portTbl, pkeys |-> pkeyTbl, net |-> subnet]
    /\ todoOld' = DOMAIN previous'.ports.map
    /\ todoNew' = DOMAIN current'.ports.map
    /\ diff' = EmptyDiff
    /\ phase' = "compare"
    /\ UNCHANGED <<extractVars, versions>>
-----------------------------------------------------------------------------
(* ssa_db_port_insert without a pkey array: the record is copied as it is. *)
WithRemoved(d, k) ==
    [d EXCEPT !.removed = MapWith(@, k, Len(d.recs)),
              !.recs = Append(@, Rec(previous.ports, k)),
              !.dirty = TRUE]

(* The bytes of a pkey array.                                              *)
Byte(pkeys, b) == <<pkeys[b \div 2], b % 2>>

(* The bytes from source to source + size - 1 of the current pkeys.        *)
Bytes(source, size) == [b \in 1..size |-> Byte(current.pkeys, source + b - 1)]

(* Mutant: ref_tbl_offset advances by pkeys instead of bytes.              *)
MutWithAdded(d, k) ==
    LET rec == Rec(current.ports, k)
    IN  [d EXCEPT !.added = MapWith(@, k, Len(d.recs)),
                  !.recs = Append(@, [rec EXCEPT !.off = IF rec.size = 0 THEN @ ELSE d.offset]),
                  !.pkeys = WriteAt(@, d.offset, Bytes(rec.off, rec.size)),
                  !.offset = @ + rec.size \div 2,
                  !.dirty = TRUE]

(* ssa_db_port_insert with one: the offset of the extracted record, which  *)
(* counts pkeys, is where the copy starts in bytes; a record without pkeys *)
(* keeps the offset it had.                                                *)
WithAdded(d, k) ==
    LET rec == Rec(current.ports, k)
    IN  [d EXCEPT !.added = MapWith(@, k, Len(d.recs)),
                  !.recs = Append(@, [rec EXCEPT !.off = IF rec.size = 0 THEN @ ELSE d.offset]),
                  !.pkeys = WriteAt(@, d.offset, Bytes(rec.off, rec.size)),
                  !.offset = @ + rec.size,
                  !.dirty = TRUE]

(* ssa_db_port_cmp: the old record is looked for behind both offsets, the  *)
(* new one at the head of its array; then the bytes of two local pointers  *)
(* are compared, as many as the record has bytes of pkeys.                 *)
Answers(k) ==
    LET i == previous.ports.map[k] + current.ports.map[k]
    IN  IF i >= Len(previous.ports.recs) THEN BOOLEAN
        ELSE LET o == previous.ports.recs[i + 1]
                 n == current.ports.recs[1]
             IN  IF <<o.size, o.lid, o.attrs>> # <<n.size, n.lid, n.attrs>> THEN {TRUE}
                 ELSE IF o.size = 0 THEN {FALSE} ELSE BOOLEAN

IsHead(k, keys) == k \in keys /\ \A j \in keys : k <= j

OldOnly(k) ==
    /\ phase = "compare"
    /\ IsHead(k, todoOld) /\ \A j \in todoNew : k < j
    /\ todoOld' = todoOld \ {k}
    /\ diff' = WithRemoved(diff, k)
    /\ UNCHANGED <<extractVars, phase, versions, previous, current, todoNew>>

NewOnly(k) ==
    /\ phase = "compare"
    /\ IsHead(k, todoNew) /\ \A j \in todoOld : k < j
    /\ todoNew' = todoNew \ {k}
    /\ diff' = WithAdded(diff, k)
    /\ UNCHANGED <<extractVars, phase, versions, previous, current, todoOld>>

(* Mutant: only the removed half of a change is written.                   *)
MutBothVersions(k) ==
    /\ phase = "compare"
    /\ IsHead(k, todoOld) /\ IsHead(k, todoNew)
    /\ todoOld' = todoOld \ {k} /\ todoNew' = todoNew \ {k}
    /\ \E differ \in Answers(k) :
         diff' = IF differ THEN WithRemoved(diff, k) ELSE diff
    /\ UNCHANGED <<extractVars, phase, versions, previous, current>>

BothVersions(k) ==
    /\ phase = "compare"
    /\ IsHead(k, todoOld) /\ IsHead(k, todoNew)
    /\ todoOld' = todoOld \ {k} /\ todoNew' = todoNew \ {k}
    /\ \E differ \in Answers(k) :
         diff' = IF differ THEN WithAdded(WithRemoved(diff, k), k) ELSE diff
    /\ UNCHANGED <<extractVars, phase, versions, previous, current>>

Compared == phase = "compare" /\ todoOld = {} /\ todoNew = {}

(* The next dump, of a subnet that may be another one; bound: MaxVersions. *)
NextVersion ==
    /\ Compared
    /\ versions < MaxVersions
    /\ versions' = versions + 1
    /\ phase' = "extract"
    /\ \E net \in Subnets : StartExtract(net)
    /\ UNCHANGED <<previous, current, todoOld, todoNew, diff>>

Finished == Compared /\ versions = MaxVersions /\ UNCHANGED portVars

Next ==
    \/ ExtractPort \/ Update \/ NextVersion \/ Finished
    \/ \E k \in todoOld : OldOnly(k) \/ BothVersions(k)
    \/ \E k \in todoNew : NewOnly(k)

Spec == Init /\ [][Next]_portVars
-----------------------------------------------------------------------------
(* Every pkey copy stays within its arrays, with the source offset taken   *)
(* for bytes and a destination that has room for the current pkeys alone,  *)
(* if no host is without a link.                                           *)
PkeyCopiesInBounds ==
    /\ \A k \in DOMAIN current.ports.map :
         LET rec == Rec(current.ports, k)
         IN  rec.size > 0 => rec.off + rec.size <= 2 * MaxPkeys(current.net)
    /\ HostsLinked(current.net) => DOMAIN diff.pkeys \subseteq 0 .. 2 * MaxPkeys(current.net) - 1

Slice(rec) == rec.off .. rec.off + rec.size - 1

AddedRec(k) == diff.recs[diff.added[k] + 1]

(* The pkeys of the added records tile the pkey array of the difference:   *)
(* no byte is in two slices, and none in no slice.                         *)
SlicesTile ==
    /\ UNION {Slice(AddedRec(k)) : k \in DOMAIN diff.added} = 0 .. diff.offset - 1
    /\ \A k, j \in DOMAIN diff.added :
         k # j => Slice(AddedRec(k)) \cap Slice(AddedRec(j)) = {}

(* A consumer that has the ports of the previous version, takes the        *)
(* removed ones away and then adds the added ones has the keys of the      *)
(* current version, and what it added are the current records; what it     *)
(* took away were the previous ones.  Records of one key in one version    *)
(* included.                                                               *)
PortConsumerCatchesUp ==
    Compared =>
      /\ (DOMAIN previous.ports.map \ DOMAIN diff.removed) \cup DOMAIN diff.added
           = DOMAIN current.ports.map
      /\ \A k \in DOMAIN diff.added :
           [AddedRec(k) EXCEPT !.off = Rec(current.ports, k).off] = Rec(current.ports, k)
      /\ \A k \in DOMAIN diff.removed :
           diff.recs[diff.removed[k] + 1] = Rec(previous.ports, k)
      /\ diff.dirty <=> diff.recs # <<>>

(* The fixed-size record of an added port marks the start of its pkeys, as *)
(* ssa_db.h asks of paired datasets: the bytes from there on are those of  *)
(* the pkeys its extracted record marks.                                   *)
PkeysArrive ==
    Compared =>
      \A k \in DOMAIN diff.added :
        [b \in 1 .. AddedRec(k).size |-> diff.pkeys[AddedRec(k).off + b - 1]]
          = Bytes(2 * Rec(current.ports, k).off, AddedRec(k).size)
-----------------------------------------------------------------------------
(* The keys of the ports of a subnet.                                      *)
NetKeys(net) == UNION {KeysOf(net[g], net[g].ports) : g \in DOMAIN net}

KeySets == {NetKeys(net) : net \in Subnets}

Walking == phase = "compare" /\ ~Compared

(* A version is held from ssa_db_update to the end of the walk, which is   *)
(* where the difference is whole and the consumer can apply it.            *)
Mirror == INSTANCE SubnetMirror WITH
    States  <- KeySets,
    Nothing <- {},
    subnet  <- NetKeys(subnet),
    held    <- IF Walking THEN <<NetKeys(current.net)>> ELSE <<>>,
    mirror  <- IF Walking THEN DOMAIN previous.ports.map
               ELSE (DOMAIN previous.ports.map \ DOMAIN diff.removed) \cup DOMAIN diff.added

(* Through any sequence of dumps of a changing subnet, the ports of a      *)
(* consumer that applies each difference are those of one subnet that was  *)
(* dumped, then those of a later one: no difference is relative to another *)
(* version than the one the consumer has.                                  *)
ImplementsPortMirror == Mirror!Spec
=============================================================================
