----------------------------- MODULE SsaExtract -----------------------------
(***************************************************************************)
(* The port loop of ssa_db_extract: one pass over the ports of the subnet, *)
(* in the order of their GUIDs, fills the GUID, port, link and pkey tables *)
(* of the dump.  The arrays are allocated before the pass from counts of   *)
(* the subnet; a map finds a record by its key, and keeps the record it    *)
(* has when two ports come with the same key (two invalid LIDs are only    *)
(* logged).  A step is one port of the subnet, or one physical port of it. *)
(*                                                                         *)
(* A subnet maps a GUID, a natural number, to its port: lid, num, pkeys,   *)
(* and of its node sw (a switch, whose port is 0), ports (the physical     *)
(* ports that exist; a host's is num alone), size (physp_tbl_size), for a  *)
(* switch num_ports (what its osm_switch_t says), linked (those with a     *)
(* remote port) and attrs (neighbor_mtu, rate and vl_enforce of a physical *)
(* port as a value).  The node and LFT tables are in SsaPipeline and       *)
(* SsaLftTable.                                                            *)
(***************************************************************************)
EXTENDS Integers, Sequences, FiniteSets

CONSTANT Subnets \* the subnets OpenSM may have found

IsPort(n) ==
    /\ n.lid \in Nat /\ n.lid < 65536 /\ n.sw \in BOOLEAN /\ n.size \in Nat
    /\ n.pkeys \in Seq(Nat)
    /\ IF n.sw THEN /\ 0 \in n.ports /\ n.ports \subseteq 0 .. n.size - 1
                    /\ n.num_ports \in Nat /\ n.size <= n.num_ports
               ELSE n.ports = {n.num} /\ n.num \in Nat

ASSUME SubnetsAssumption ==
    \A net \in Subnets :
      IsFiniteSet(DOMAIN net) /\ DOMAIN net \subseteq Nat /\ \A g \in DOMAIN net : IsPort(net[g])

VARIABLES
    subnet,     \* p_subn->port_guid_tbl
    todo,       \* GUIDs the pass has still to visit
    port,       \* p_port: the GUID that is visited
    physps,     \* its physical ports that are still to be visited
    guidTbl, portTbl, linkTbl, \* a table: offsets by key, and the array
    pkeyTbl,    \* p_pkey_tbl: the entries written, by index
    base, cur   \* pkey_base_offset, pkey_cur_offset

tables == <<guidTbl, portTbl, linkTbl, pkeyTbl>>
extractVars == <<subnet, todo, port, physps, tables, base, cur>>
-----------------------------------------------------------------------------
EmptyTable == [map |-> <<>>, recs |-> <<>>]

(* ep_rec_gen_key                                                          *)
Key(lid, num) == lid + 65536 * num

(* cl_qmap_insert returns the item it already has for a key.               *)
MapWith(map, k, offset) ==
    [j \in DOMAIN map \cup {k} |-> IF j \in DOMAIN map THEN map[j] ELSE offset]

(* The record is in the array all the same.                                *)
Insert(t, k, rec) ==
    [map |-> MapWith(t.map, k, Len(t.recs)), recs |-> Append(t.recs, rec)]

Rec(t, k) == t.recs[t.map[k] + 1]

(* s, copied to an array from index i on.                                  *)
WriteAt(array, i, s) ==
    [j \in DOMAIN array \cup i .. i + Len(s) - 1 |->
       IF j \in i .. i + Len(s) - 1 THEN s[j - i + 1] ELSE array[j]]

(* The ports of the switches.                                              *)
PhysPlaces(net) == UNION {{g} \X (0 .. net[g].num_ports - 1) : g \in {h \in DOMAIN net : net[h].sw}}

(* The pkeys of the ports, each with its index.                            *)
PkeyPlaces(net) == UNION {{g} \X (1 .. Len(net[g].pkeys)) : g \in DOMAIN net}

(* The sizes of the arrays, which are sums over the subnet.  Mutant: the   *)
(* external ports are forgotten.                                           *)
MutMaxPorts(net) == Cardinality(DOMAIN net)

MaxPorts(net) == Cardinality(DOMAIN net) + Cardinality(PhysPlaces(net))

MaxPkeys(net) == Cardinality(PkeyPlaces(net))
-----------------------------------------------------------------------------
StartExtract(net) ==
    /\ subnet' = net
    /\ todo' = DOMAIN net
    /\ port' = 0 /\ physps' = {}
    /\ guidTbl' = EmptyTable /\ portTbl' = EmptyTable /\ linkTbl' = EmptyTable
    /\ pkeyTbl' = <<>>
    /\ base' = 0 /\ cur' = 0

(* A port is visited: its record in the GUID table.                        *)
VisitPort(g) ==
    /\ physps = {}
    /\ g \in todo /\ \A h \in todo : g <= h
    /\ todo' = todo \ {g}
    /\ port' = g
    /\ physps' = subnet[g].ports
    /\ guidTbl' = Insert(guidTbl, g, [guid |-> g, lid |-> subnet[g].lid, is_switch |-> subnet[g].sw])
    /\ UNCHANGED <<subnet, portTbl, linkTbl, pkeyTbl, base, cur>>

(* The pkeys of a node go with one of its port records.                    *)
PkeyPort(n) == IF n.sw THEN 0 ELSE n.num

Pkeys(n, i) == IF i = PkeyPort(n) THEN n.pkeys ELSE <<>>

(* pkey_cur_offset behind the pkeys of physical port i.                    *)
Count(n, i) == cur + Len(Pkeys(n, i))

(* pkey_tbl_size is a uint16_t in bytes, of two for a pkey.                *)
SizeOf(count) == (2 * count) % 65536
CountOf(size) == size \div 2

PortRec(n, i) ==
    [lid  |-> n.lid, num |-> i, attrs |-> n.attrs[i],
     off  |-> IF i = PkeyPort(n) THEN base ELSE 0,
     size |-> IF i = PkeyPort(n) THEN SizeOf(Count(n, i)) ELSE 0]

LinkRec(n, i) == [from_lid |-> n.lid, from_port_num |-> IF n.sw THEN i ELSE 0]

(* What physical port i adds to the tables, its pkeys after the last ones. *)
AddRecords(n, i) ==
    /\ i \in physps /\ \A j \in physps : i <= j
    /\ physps' = physps \ {i}
    /\ pkeyTbl' = WriteAt(pkeyTbl, base + cur, Pkeys(n, i))
    /\ portTbl' = Insert(portTbl, Key(n.lid, i), PortRec(n, i))
    /\ linkTbl' = IF i \in n.linked THEN Insert(linkTbl, Key(n.lid, i), LinkRec(n, i)) ELSE linkTbl
    /\ UNCHANGED <<subnet, todo, port, guidTbl>>

(* The pkeys of a port are closed, or count for the next one too.          *)
CloseIf(closed, count) ==
    IF closed THEN base' = base + count /\ cur' = 0
              ELSE base' = base /\ cur' = count

(* Mutant: the count of pkeys is not reset behind a switch.                *)
MutSwitchPort(i) ==
    /\ subnet[port].sw
    /\ AddRecords(subnet[port], i)
    /\ base' = IF physps' = {} THEN base + Count(subnet[port], i) ELSE base
    /\ cur' = Count(subnet[port], i)

SwitchPort(i) ==
    /\ subnet[port].sw
    /\ AddRecords(subnet[port], i)
    /\ CloseIf(physps' = {}, Count(subnet[port], i))

(* A host without a remote port leaves the body of the loop before its     *)
(* pkeys are closed.                                                       *)
HostPort(i) ==
    /\ ~subnet[port].sw
    /\ AddRecords(subnet[port], i)
    /\ CloseIf(i \in subnet[port].linked, Count(subnet[port], i))
-----------------------------------------------------------------------------
Extracted == todo = {} /\ physps = {}

HostsLinked(net) == \A g \in DOMAIN net : net[g].sw \/ net[g].num \in net[g].linked

(* The pass never writes behind the arrays, which are sized before it from *)
(* other counts: of the nodes' tables and of each port's pkeys.            *)
ArraysFit ==
    /\ Len(guidTbl.recs) <= Cardinality(DOMAIN subnet)
    /\ Len(portTbl.recs) <= MaxPorts(subnet)
    /\ Len(linkTbl.recs) <= MaxPorts(subnet)
    /\ DOMAIN pkeyTbl \subseteq 0 .. MaxPkeys(subnet) - 1

KeysOf(n, nums) == {Key(n.lid, i) : i \in nums}

(* g is the first port with a physical port of key k.                      *)
FirstWith(k, g) ==
    /\ k \in KeysOf(subnet[g], subnet[g].ports)
    /\ \A h \in DOMAIN subnet : h < g => k \notin KeysOf(subnet[h], subnet[h].ports)

(* No pkey_tbl_size wraps around: a port's pkeys, and those that may count *)
(* for it too, are fewer than 2^15.                                        *)
SizesFit(net) ==
    \/ MaxPkeys(net) < 32768
    \/ HostsLinked(net) /\ \A g \in DOMAIN net : Len(net[g].pkeys) < 32768

(* The record of key k is n's own, and the pkeys it marks, all of them     *)
(* written, end with n's: they are exactly those, unless a host without a  *)
(* link came before it.                                                    *)
OwnRecord(k, n) ==
    LET rec == Rec(portTbl, k)
        own == Pkeys(n, rec.num)
        count == CountOf(rec.size)
        end == rec.off + count
    IN  /\ rec.num \in n.ports /\ Key(rec.lid, rec.num) = k /\ rec.attrs = n.attrs[rec.num]
        /\ rec.off .. end - 1 \subseteq DOMAIN pkeyTbl
        /\ SizesFit(subnet) =>
             /\ Len(own) <= count
             /\ \A j \in 1 .. Len(own) : pkeyTbl[end - Len(own) + j - 1] = own[j]
             /\ HostsLinked(subnet) => count = Len(own)

(* After the pass each port of the subnet, and each linked port, is found  *)
(* by its key; of ports with one key it is the first.                      *)
PortsFound ==
    Extracted =>
      /\ DOMAIN portTbl.map = UNION {KeysOf(subnet[g], subnet[g].ports) : g \in DOMAIN subnet}
      /\ DOMAIN linkTbl.map =
           UNION {KeysOf(subnet[g], subnet[g].ports \cap subnet[g].linked) : g \in DOMAIN subnet}
      /\ \A k \in DOMAIN portTbl.map, g \in DOMAIN subnet :
           FirstWith(k, g) => OwnRecord(k, subnet[g])
=============================================================================
