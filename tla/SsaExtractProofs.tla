-------------------------- MODULE SsaExtractProofs --------------------------
(***************************************************************************)
(* Proofs about SsaExtract: the pass over the ports of any finite subnet   *)
(* fills its arrays within their sizes, finds every port by its key, and   *)
(* gives each its own pkeys.  SsaPortsProofs goes on from here.            *)
(***************************************************************************)
EXTENDS SsaExtract, FiniteSetTheorems, FunctionTheorems, SequenceTheorems, TLAPS

(***************************************************************************)
(* Tables: a map and an array.                                             *)
(***************************************************************************)

(* Each key has an offset in the array.                                    *)
Table(t, Recs) ==
    /\ t.recs \in Seq(Recs)
    /\ \A k \in DOMAIN t.map : t.map[k] \in 0 .. Len(t.recs) - 1

LEMMA EmptyIsTable ==
    ASSUME NEW Recs
    PROVE  Table(EmptyTable, Recs) /\ DOMAIN EmptyTable.map = {} /\ Len(EmptyTable.recs) = 0
BY DEF Table, EmptyTable

LEMMA TableRec ==
    ASSUME NEW Recs, NEW t, Table(t, Recs), NEW k \in DOMAIN t.map
    PROVE  Rec(t, k) \in Recs
<1>1. t.map[k] + 1 \in 1 .. Len(t.recs) BY DEF Table
<1> QED BY <1>1 DEF Table, Rec

(* A record of a key that is there stays the same; one of a new key is     *)
(* found by it.                                                            *)
LEMMA InsertTable ==
    ASSUME NEW Recs, NEW t, Table(t, Recs), NEW k, NEW rec \in Recs
    PROVE  LET u == Insert(t, k, rec)
           IN  /\ Table(u, Recs)
               /\ DOMAIN u.map = DOMAIN t.map \cup {k}
               /\ Len(u.recs) = Len(t.recs) + 1
               /\ \A j \in DOMAIN t.map : Rec(u, j) = Rec(t, j)
               /\ k \notin DOMAIN t.map => Rec(u, k) = rec
<1> DEFINE u == Insert(t, k, rec)
<1>1. t.recs \in Seq(Recs) /\ Len(t.recs) \in Nat BY DEF Table
<1>2. u.recs = Append(t.recs, rec) BY DEF Insert
<1>3. /\ u.recs \in Seq(Recs) /\ Len(u.recs) = Len(t.recs) + 1
      /\ \A i \in 1 .. Len(t.recs) : u.recs[i] = t.recs[i]
      /\ u.recs[Len(t.recs) + 1] = rec
  BY <1>1, <1>2
<1>4. u.map = [j \in DOMAIN t.map \cup {k} |-> IF j \in DOMAIN t.map THEN t.map[j] ELSE Len(t.recs)]
  BY DEF Insert, MapWith
<1>5. /\ DOMAIN u.map = DOMAIN t.map \cup {k}
      /\ \A j \in DOMAIN t.map : u.map[j] = t.map[j]
      /\ k \notin DOMAIN t.map => u.map[k] = Len(t.recs)
  BY <1>4
<1> HIDE DEF u
<1>6. \A j \in DOMAIN t.map : t.map[j] \in 0 .. Len(t.recs) - 1 BY DEF Table
<1>7. \A j \in DOMAIN u.map : u.map[j] \in 0 .. Len(u.recs) - 1
  BY <1>1, <1>3, <1>5, <1>6
<1>8. Table(u, Recs) BY <1>3, <1>7 DEF Table
<1>9. \A j \in DOMAIN t.map : Rec(u, j) = Rec(t, j)
  <2> TAKE j \in DOMAIN t.map
  <2>1. t.map[j] + 1 \in 1 .. Len(t.recs) BY <1>1, <1>6
  <2> QED BY <1>3, <1>5, <2>1 DEF Rec
<1>10. k \notin DOMAIN t.map => Rec(u, k) = rec BY <1>3, <1>5 DEF Rec
<1> QED BY <1>3, <1>5, <1>8, <1>9, <1>10 DEF u

(* What is written behind the end of an array leaves the rest alone.       *)
LEMMA WriteBehind ==
    ASSUME NEW array, NEW e \in Nat, DOMAIN array = 0 .. e - 1, NEW s, Len(s) \in Nat
    PROVE  LET w == WriteAt(array, e, s)
           IN  /\ DOMAIN w = 0 .. e + Len(s) - 1
               /\ \A j \in 0 .. e - 1 : w[j] = array[j]
               /\ \A j \in 1 .. Len(s) : w[e + j - 1] = s[j]
<1> DEFINE w == WriteAt(array, e, s)
<1>1. w = [j \in (0 .. e - 1) \cup e .. e + Len(s) - 1 |->
             IF j \in e .. e + Len(s) - 1 THEN s[j - e + 1] ELSE array[j]]
  BY DEF WriteAt
<1>2. (0 .. e - 1) \cup e .. e + Len(s) - 1 = 0 .. e + Len(s) - 1 OBVIOUS
<1>3. \A j \in 0 .. e - 1 : w[j] = array[j] BY <1>1
<1>4. \A j \in 1 .. Len(s) : w[e + j - 1] = s[j]
  <2> TAKE j \in 1 .. Len(s)
  <2>1. e + j - 1 \in e .. e + Len(s) - 1 /\ (e + j - 1) - e + 1 = j OBVIOUS
  <2> QED BY <1>1, <2>1
<1> QED BY <1>1, <1>2, <1>3, <1>4

-----------------------------------------------------------------------------
(***************************************************************************)
(* Counts.  A subnet is finite, so the places of its ports and pkeys are.  *)
(***************************************************************************)

LEMMA FiniteUnion ==
    ASSUME NEW D, IsFiniteSet(D), NEW f, DOMAIN f = D, \A d \in D : IsFiniteSet(f[d])
    PROVE  IsFiniteSet(UNION {f[d] : d \in D})
<1> DEFINE T == {f[d] : d \in D}
           h == [d \in D |-> f[d]]
<1>1. h \in [D -> T] OBVIOUS
<1>2. \A t \in T : \E d \in D : h[d] = t OBVIOUS
<1>3. h \in Surjection(D, T) BY <1>1, <1>2, Fun_IsSurj, Zenon
<1>4. IsFiniteSet(T) BY <1>3, FS_Surjection, Zenon
<1>5. \A t \in T : IsFiniteSet(t) OBVIOUS
<1> QED BY <1>4, <1>5, FS_UNION

LEMMA NetFacts ==
    ASSUME NEW net \in Subnets
    PROVE  /\ IsFiniteSet(DOMAIN net) /\ DOMAIN net \subseteq Nat
           /\ \A g \in DOMAIN net : IsPort(net[g])
BY SubnetsAssumption

LEMMA PortFacts ==
    ASSUME NEW n, IsPort(n)
    PROVE  /\ n.lid \in Nat /\ n.lid < 65536 /\ n.sw \in BOOLEAN /\ n.size \in Nat
           /\ n.pkeys \in Seq(Nat) /\ Len(n.pkeys) \in Nat
           /\ n.ports \subseteq Nat /\ PkeyPort(n) \in n.ports
           /\ n.sw => n.num_ports \in Nat /\ n.ports \subseteq 0 .. n.num_ports - 1
           /\ ~n.sw => n.ports = {n.num}
<1>1. /\ n.lid \in Nat /\ n.lid < 65536 /\ n.sw \in BOOLEAN /\ n.size \in Nat
      /\ n.pkeys \in Seq(Nat)
  BY DEF IsPort
<1>2. Len(n.pkeys) \in Nat BY <1>1, LenProperties
<1>3. CASE n.sw
  <2>1. 0 \in n.ports /\ n.ports \subseteq 0 .. n.size - 1 BY <1>3 DEF IsPort
  <2>a. n.num_ports \in Nat /\ n.size <= n.num_ports BY <1>3 DEF IsPort
  <2>b. n.ports \subseteq 0 .. n.num_ports - 1 BY <1>1, <2>1, <2>a
  <2>2. n.ports \subseteq Nat BY <1>1, <2>1
  <2>3. PkeyPort(n) = 0 BY <1>3 DEF PkeyPort
  <2> QED BY <1>1, <1>2, <1>3, <2>1, <2>2, <2>3, <2>a, <2>b
<1>4. CASE ~n.sw
  <2>1. n.ports = {n.num} /\ n.num \in Nat BY <1>4 DEF IsPort
  <2>2. PkeyPort(n) = n.num BY <1>4 DEF PkeyPort
  <2> QED BY <1>1, <1>2, <1>4, <2>1, <2>2
<1> QED BY <1>1, <1>3, <1>4

LEMMA NetPort ==
    ASSUME NEW net \in Subnets, NEW g \in DOMAIN net
    PROVE  /\ IsPort(net[g])
           /\ Len(net[g].pkeys) \in Nat
           /\ net[g].sw => /\ net[g].num_ports \in Nat
                           /\ net[g].ports \subseteq 0 .. net[g].num_ports - 1
           /\ ~net[g].sw => net[g].ports = {net[g].num}
<1> DEFINE n == net[g]
<1>1. IsPort(n) BY NetFacts
<1> HIDE DEF n
<1>2. /\ Len(n.pkeys) \in Nat
      /\ n.sw => n.num_ports \in Nat /\ n.ports \subseteq 0 .. n.num_ports - 1
      /\ ~n.sw => n.ports = {n.num}
  BY <1>1, PortFacts
<1> QED BY <1>1, <1>2 DEF n

(* The physical ports of a subnet, each with the GUID of its port.         *)
Physps(net) == UNION {{g} \X net[g].ports : g \in DOMAIN net}

LEMMA PhyspForm ==
    ASSUME NEW net, NEW p
    PROVE  p \in Physps(net) <=> /\ p = <<p[1], p[2]>>
                                 /\ p[1] \in DOMAIN net /\ p[2] \in net[p[1]].ports
BY DEF Physps

LEMMA PlacesFinite ==
    ASSUME NEW net \in Subnets
    PROVE  IsFiniteSet(PhysPlaces(net)) /\ IsFiniteSet(PkeyPlaces(net))
<1>1. IsFiniteSet(PhysPlaces(net))
  <2> DEFINE D == {h \in DOMAIN net : net[h].sw}
             f == [g \in D |-> {g} \X (0 .. net[g].num_ports - 1)]
  <2>1. IsFiniteSet(D) BY NetFacts, FS_Subset
  <2>2. ASSUME NEW g \in D PROVE IsFiniteSet(f[g])
    <3>1. IsFiniteSet({g}) BY FS_Singleton
    <3>2. net[g].num_ports \in Nat BY NetPort
    <3>3. IsFiniteSet(0 .. net[g].num_ports - 1) BY <3>2, FS_Interval
    <3> QED BY <3>1, <3>3, FS_Product
  <2>3. DOMAIN f = D OBVIOUS
  <2>4. PhysPlaces(net) = UNION {f[g] : g \in D} BY DEF PhysPlaces
  <2> HIDE DEF f, D
  <2> QED BY <2>1, <2>2, <2>3, <2>4, FiniteUnion
<1>2. IsFiniteSet(PkeyPlaces(net))
  <2> DEFINE D == DOMAIN net
             f == [g \in D |-> {g} \X (1 .. Len(net[g].pkeys))]
  <2>1. IsFiniteSet(D) BY NetFacts
  <2>2. ASSUME NEW g \in D PROVE IsFiniteSet(f[g])
    <3>1. IsFiniteSet({g}) BY FS_Singleton
    <3>2. Len(net[g].pkeys) \in Nat BY NetPort
    <3>3. IsFiniteSet(1 .. Len(net[g].pkeys)) BY <3>2, FS_Interval
    <3> QED BY <3>1, <3>3, FS_Product
  <2>3. DOMAIN f = D OBVIOUS
  <2>4. PkeyPlaces(net) = UNION {f[g] : g \in D} BY DEF PkeyPlaces
  <2> HIDE DEF f, D
  <2> QED BY <2>1, <2>2, <2>3, <2>4, FiniteUnion
<1> QED BY <1>1, <1>2

(* The physical ports of the switches are among those their num_ports      *)
(* counts, a host has one for its GUID.                                    *)
LEMMA PhyspsCounted ==
    ASSUME NEW net \in Subnets
    PROVE  /\ IsFiniteSet(Physps(net)) /\ Cardinality(Physps(net)) <= MaxPorts(net)
           /\ MaxPorts(net) \in Nat /\ MaxPkeys(net) \in Nat
<1> DEFINE S == {p \in Physps(net) : net[p[1]].sw}
           H == {p \in Physps(net) : ~net[p[1]].sw}
           f == [p \in H |-> p[1]]
<1>1. S \subseteq PhysPlaces(net)
  <2>1. ASSUME NEW p \in S PROVE p \in PhysPlaces(net)
    <3>1. p = <<p[1], p[2]>> /\ p[1] \in DOMAIN net /\ p[2] \in net[p[1]].ports /\ net[p[1]].sw
      BY PhyspForm
    <3>2. p[2] \in 0 .. net[p[1]].num_ports - 1 BY <3>1, NetPort
    <3> QED BY <3>1, <3>2 DEF PhysPlaces
  <2> QED BY <2>1
<1>2. IsFiniteSet(S) /\ Cardinality(S) <= Cardinality(PhysPlaces(net))
  BY <1>1, PlacesFinite, FS_Subset
<1>3. f \in [H -> DOMAIN net] BY PhyspForm
<1>4. \A p, q \in H : f[p] = f[q] => p = q
  <2>1. ASSUME NEW p \in H PROVE p = <<p[1], net[p[1]].num>>
    BY PhyspForm, NetPort
  <2> QED BY <2>1
<1>5. f \in Injection(H, DOMAIN net) BY <1>3, <1>4, Fun_IsInj
<1> HIDE DEF f
<1>6. IsFiniteSet(H) /\ Cardinality(H) <= Cardinality(DOMAIN net)
  BY <1>5, NetFacts, FS_Injection
<1>7. Physps(net) = S \cup H /\ S \cap H = {} OBVIOUS
<1> HIDE DEF S, H
<1>8. /\ Cardinality(S) \in Nat /\ Cardinality(H) \in Nat
      /\ Cardinality(DOMAIN net) \in Nat /\ Cardinality(PhysPlaces(net)) \in Nat
      /\ Cardinality(PkeyPlaces(net)) \in Nat
  BY <1>2, <1>6, NetFacts, PlacesFinite, FS_CardinalityType
<1>9. IsFiniteSet(S \cup H) /\ Cardinality(S \cup H) = Cardinality(S) + Cardinality(H)
  <2>1. /\ IsFiniteSet(S \cup H)
        /\ Cardinality(S \cup H) = Cardinality(S) + Cardinality(H) - Cardinality(S \cap H)
    BY <1>2, <1>6, FS_Union, Zenon
  <2>2. Cardinality(S \cap H) = 0 BY <1>7, FS_EmptySet
  <2> QED BY <1>8, <2>1, <2>2
<1> QED BY <1>2, <1>6, <1>7, <1>8, <1>9 DEF MaxPorts, MaxPkeys

-----------------------------------------------------------------------------
(***************************************************************************)
(* The inductive invariant of the pass.  What it has seen, as a set of     *)
(* physical ports, determines the length of each array, the keys of each   *)
(* map and how many pkeys there are.                                       *)
(***************************************************************************)

Done == DOMAIN subnet \ todo

Seen == {p \in Physps(subnet) : p[1] \in Done /\ (p[1] = port => p[2] \notin physps)}

PkeysSeen == {q \in PkeyPlaces(subnet) : <<q[1], PkeyPort(subnet[q[1]])>> \in Seen}

KeyOf(net, p) == Key(net[p[1]].lid, p[2])

Attrs ==
    UNION {UNION {{net[g].attrs[i] : i \in net[g].ports} : g \in DOMAIN net} : net \in Subnets}

PortRecs == [lid : Nat, num : Nat, attrs : Attrs, off : Nat, size : Nat]
GuidRecs == [guid : Nat, lid : Nat, is_switch : BOOLEAN]
LinkRecs == [from_lid : Nat, from_port_num : Nat]

(* The ports come in the order of their GUIDs.                             *)
PassOrder ==
    /\ subnet \in Subnets /\ todo \subseteq DOMAIN subnet
    /\ \A g \in Done, h \in todo : g < h
    /\ physps # {} => /\ port \in Done /\ physps \subseteq subnet[port].ports
                      /\ \A g \in Done : g <= port

PassCounts ==
    /\ Table(guidTbl, GuidRecs) /\ Len(guidTbl.recs) = Cardinality(Done)
    /\ Table(portTbl, PortRecs) /\ Len(portTbl.recs) = Cardinality(Seen)
    /\ Table(linkTbl, LinkRecs) /\ Len(linkTbl.recs) <= Cardinality(Seen)
    /\ base \in Nat /\ cur \in Nat /\ base + cur = Cardinality(PkeysSeen)
    /\ DOMAIN pkeyTbl = 0 .. base + cur - 1

(* Only a host without a link leaves its pkeys to the next port.           *)
PassCarry ==
    HostsLinked(subnet) /\ cur # 0 => physps # {} /\ PkeyPort(subnet[port]) \notin physps

(* The record is that of physical port p, and the c pkeys it marks, all    *)
(* below end, end with its own.                                            *)
Marks(rec, net, p, pkeys, end) ==
    LET n == net[p[1]]
    IN  /\ rec.lid = n.lid /\ rec.num = p[2] /\ rec.attrs = n.attrs[p[2]]
        /\ p[2] # PkeyPort(n) => rec.off = 0 /\ rec.size = 0
        /\ p[2] = PkeyPort(n) =>
             \E c \in Nat :
               /\ Len(n.pkeys) <= c /\ rec.size = SizeOf(c)
               /\ rec.off + c <= end
               /\ HostsLinked(net) => c = Len(n.pkeys)
               /\ \A j \in 1 .. Len(n.pkeys) :
                    pkeys[rec.off + c - Len(n.pkeys) + j - 1] = n.pkeys[j]

(* p is the first physical port of key k among those seen.                 *)
FirstSeen(k, net, p, seen) ==
    KeyOf(net, p) = k /\ \A q \in seen : q[1] < p[1] => KeyOf(net, q) # k

(* The slices of two records, in bytes, have no byte in common.            *)
Apart(t) ==
    \A k, j \in DOMAIN t.map :
      LET a == Rec(t, k)
          b == Rec(t, j)
      IN  k # j /\ a.size > 0 /\ b.size > 0 =>
            2 * a.off + a.size <= 2 * b.off \/ 2 * b.off + b.size <= 2 * a.off

PassFound ==
    /\ DOMAIN portTbl.map = {KeyOf(subnet, p) : p \in Seen}
    /\ DOMAIN linkTbl.map =
         {KeyOf(subnet, p) : p \in {q \in Seen : q[2] \in subnet[q[1]].linked}}
    /\ \A k \in DOMAIN portTbl.map :
         \E p \in Seen : /\ FirstSeen(k, subnet, p, Seen)
                         /\ Marks(Rec(portTbl, k), subnet, p, pkeyTbl, base + cur)

PassInv ==
    /\ PassOrder /\ PassCounts /\ PassCarry /\ PassFound
    /\ HostsLinked(subnet) => Apart(portTbl)

-----------------------------------------------------------------------------
LEMMA SeenFinite ==
    ASSUME subnet \in Subnets
    PROVE  /\ IsFiniteSet(Done) /\ IsFiniteSet(Seen) /\ IsFiniteSet(PkeysSeen)
           /\ Cardinality(Done) \in Nat /\ Cardinality(Seen) \in Nat
           /\ Cardinality(PkeysSeen) \in Nat
           /\ Cardinality(Done) <= Cardinality(DOMAIN subnet)
           /\ Cardinality(Seen) <= MaxPorts(subnet)
           /\ Cardinality(PkeysSeen) <= MaxPkeys(subnet)
<1>1. IsFiniteSet(DOMAIN subnet) /\ Done \subseteq DOMAIN subnet BY NetFacts DEF Done
<1>2. IsFiniteSet(Physps(subnet)) /\ Seen \subseteq Physps(subnet) BY PhyspsCounted DEF Seen
<1>3. IsFiniteSet(PkeyPlaces(subnet)) /\ PkeysSeen \subseteq PkeyPlaces(subnet)
  BY PlacesFinite DEF PkeysSeen
<1>4. /\ IsFiniteSet(Done) /\ Cardinality(Done) <= Cardinality(DOMAIN subnet)
      /\ IsFiniteSet(Seen) /\ Cardinality(Seen) <= Cardinality(Physps(subnet))
      /\ IsFiniteSet(PkeysSeen) /\ Cardinality(PkeysSeen) <= Cardinality(PkeyPlaces(subnet))
  BY <1>1, <1>2, <1>3, FS_Subset
<1>5. Cardinality(Physps(subnet)) <= MaxPorts(subnet) BY PhyspsCounted
<1>6. /\ Cardinality(Done) \in Nat /\ Cardinality(Seen) \in Nat
      /\ Cardinality(PkeysSeen) \in Nat /\ Cardinality(Physps(subnet)) \in Nat
      /\ MaxPorts(subnet) \in Nat
  BY <1>2, <1>4, FS_CardinalityType, PhyspsCounted
<1> QED BY <1>4, <1>5, <1>6 DEF MaxPkeys

LEMMA SeenForm ==
    ASSUME NEW p
    PROVE  p \in Seen <=> /\ p = <<p[1], p[2]>>
                          /\ p[1] \in Done /\ p[2] \in subnet[p[1]].ports
                          /\ p[1] = port => p[2] \notin physps
BY PhyspForm DEF Seen, Done

(* A new port has not been seen yet.                                       *)
LEMMA SeenVisit ==
    ASSUME PassOrder, NEW g \in todo, VisitPort(g)
    PROVE  Done' = Done \cup {g} /\ g \notin Done /\ Seen' = Seen /\ PkeysSeen' = PkeysSeen
<1>1. /\ physps = {} /\ todo' = todo \ {g} /\ port' = g /\ physps' = subnet[g].ports
      /\ subnet' = subnet /\ g \in DOMAIN subnet
  BY DEF VisitPort, PassOrder
<1>2. Done' = Done \cup {g} /\ g \notin Done BY <1>1 DEF Done
<1>3. ASSUME NEW p PROVE p \in Seen' <=> p \in Seen
  <2>1. p \in Seen' <=> /\ p \in Physps(subnet)
                        /\ p[1] \in Done \cup {g} /\ (p[1] = g => p[2] \notin subnet[g].ports)
    BY <1>1, <1>2 DEF Seen
  <2>2. p \in Seen <=> p \in Physps(subnet) /\ p[1] \in Done BY <1>1 DEF Seen
  <2>3. p \in Physps(subnet) /\ p[1] = g => p[2] \in subnet[g].ports BY PhyspForm
  <2> QED BY <1>2, <2>1, <2>2, <2>3
<1>4. Seen' = Seen BY <1>3
<1> QED BY <1>1, <1>2, <1>4 DEF PkeysSeen

(* One physical port more, and its pkeys.                                  *)
LEMMA SeenPhysp ==
    ASSUME PassOrder, NEW i \in physps, physps' = physps \ {i},
           UNCHANGED <<subnet, todo, port>>
    PROVE  /\ port \in Done /\ i \in subnet[port].ports /\ Done' = Done
           /\ Seen' = Seen \cup {<<port, i>>} /\ <<port, i>> \notin Seen
           /\ PkeysSeen' = IF i = PkeyPort(subnet[port])
                             THEN PkeysSeen \cup {port} \X (1 .. Len(subnet[port].pkeys))
                             ELSE PkeysSeen
           /\ i = PkeyPort(subnet[port]) =>
                PkeysSeen \cap ({port} \X (1 .. Len(subnet[port].pkeys))) = {}
<1>1. port \in Done /\ i \in subnet[port].ports /\ Done' = Done /\ port \in DOMAIN subnet
  BY DEF PassOrder, Done
<1>2. <<port, i>> \notin Seen BY SeenForm
<1>3. ASSUME NEW p PROVE p \in Seen' <=> p \in Seen \/ p = <<port, i>>
  <2>1. p \in Seen' <=> /\ p \in Physps(subnet)
                        /\ p[1] \in Done /\ (p[1] = port => p[2] \notin physps \ {i})
    BY <1>1 DEF Seen
  <2>2. p \in Seen <=> /\ p \in Physps(subnet)
                       /\ p[1] \in Done /\ (p[1] = port => p[2] \notin physps)
    BY DEF Seen
  <2>3. <<port, i>> \in Physps(subnet) BY <1>1, PhyspForm
  <2>4. p \in Physps(subnet) => p = <<p[1], p[2]>> BY PhyspForm
  <2> QED BY <1>1, <2>1, <2>2, <2>3, <2>4
<1>4. Seen' = Seen \cup {<<port, i>>} BY <1>3
<1> DEFINE own == {port} \X (1 .. Len(subnet[port].pkeys))
<1>5. own \subseteq PkeyPlaces(subnet) BY <1>1 DEF PkeyPlaces
<1>6. \A q \in PkeyPlaces(subnet) : q[1] = port => q \in own BY DEF PkeyPlaces
<1>7. ASSUME NEW q \in PkeyPlaces(subnet)
      PROVE  q \in PkeysSeen' <=> q \in PkeysSeen \/ (i = PkeyPort(subnet[port]) /\ q \in own)
  <2>1. q \in PkeysSeen' <=> <<q[1], PkeyPort(subnet[q[1]])>> \in Seen \cup {<<port, i>>}
    BY <1>4 DEF PkeysSeen
  <2>2. q \in own => q[1] = port OBVIOUS
  <2>3. q[1] = port <=> q \in own BY <1>6, <2>2
  <2> QED BY <2>1, <2>3 DEF PkeysSeen
<1>8. PkeysSeen' \subseteq PkeyPlaces(subnet) /\ PkeysSeen \subseteq PkeyPlaces(subnet)
  BY DEF PkeysSeen
<1>9. i = PkeyPort(subnet[port]) => PkeysSeen \cap own = {}
  BY <1>2 DEF PkeysSeen
<1>10. PkeysSeen' = IF i = PkeyPort(subnet[port]) THEN PkeysSeen \cup own ELSE PkeysSeen
  <2>1. CASE i = PkeyPort(subnet[port])
    <3> HIDE DEF own
    <3> QED BY <1>5, <1>7, <1>8, <2>1
  <2>2. CASE i # PkeyPort(subnet[port])
    <3> HIDE DEF own
    <3> QED BY <1>7, <1>8, <2>2
  <2> QED BY <2>1, <2>2
<1> QED BY <1>1, <1>2, <1>4, <1>9, <1>10

LEMMA PkeysCounted ==
    ASSUME PassOrder, NEW i \in physps, physps' = physps \ {i},
           UNCHANGED <<subnet, todo, port>>
    PROVE  Cardinality(PkeysSeen') = Cardinality(PkeysSeen) + Len(Pkeys(subnet[port], i))
<1> DEFINE own == {port} \X (1 .. Len(subnet[port].pkeys))
<1>1. subnet \in Subnets /\ port \in DOMAIN subnet BY SeenPhysp DEF PassOrder, Done
<1>2. Len(subnet[port].pkeys) \in Nat BY <1>1, NetPort
<1>3. IsFiniteSet(own) /\ Cardinality(own) = Len(subnet[port].pkeys)
  <2>1. IsFiniteSet({port}) /\ Cardinality({port}) = 1 BY FS_Singleton
  <2>2. /\ IsFiniteSet(1 .. Len(subnet[port].pkeys))
        /\ Cardinality(1 .. Len(subnet[port].pkeys)) = Len(subnet[port].pkeys)
    <3> DEFINE n == Len(subnet[port].pkeys)
    <3> HIDE DEF n
    <3>1. n \in Nat BY <1>2 DEF n
    <3>2. IsFiniteSet(1..n) /\ Cardinality(1..n) = IF 1 > n THEN 0 ELSE n - 1 + 1
      BY <3>1, FS_Interval
    <3>3. IsFiniteSet(1..n) /\ Cardinality(1..n) = n BY <3>1, <3>2
    <3> QED BY <3>3 DEF n
  <2>3. /\ IsFiniteSet(own)
        /\ Cardinality(own) = Cardinality({port}) * Cardinality(1 .. Len(subnet[port].pkeys))
    BY <2>1, <2>2, FS_Product
  <2> QED BY <1>2, <2>1, <2>2, <2>3
<1>4. IsFiniteSet(PkeysSeen) /\ Cardinality(PkeysSeen) \in Nat BY <1>1, SeenFinite
<1>5. CASE i = PkeyPort(subnet[port])
  <2>1. PkeysSeen' = PkeysSeen \cup own /\ PkeysSeen \cap own = {} BY <1>5, SeenPhysp
  <2>2. Pkeys(subnet[port], i) = subnet[port].pkeys BY <1>5 DEF Pkeys
  <2> HIDE DEF own
  <2>3. Cardinality(PkeysSeen \cup own)
          = Cardinality(PkeysSeen) + Cardinality(own) - Cardinality(PkeysSeen \cap own)
    BY <1>3, <1>4, FS_Union
  <2>4. Cardinality(PkeysSeen \cap own) = 0 BY <2>1, FS_EmptySet
  <2> QED BY <1>2, <1>3, <1>4, <2>1, <2>2, <2>3, <2>4
<1>6. CASE i # PkeyPort(subnet[port])
  <2>1. PkeysSeen' = PkeysSeen BY <1>6, SeenPhysp
  <2>2. Len(Pkeys(subnet[port], i)) = 0 BY <1>6 DEF Pkeys
  <2> QED BY <1>4, <2>1, <2>2
<1> QED BY <1>5, <1>6

-----------------------------------------------------------------------------
(***************************************************************************)
(* The steps keep the invariant.                                           *)
(***************************************************************************)

FreshPass ==
    /\ subnet \in Subnets /\ todo = DOMAIN subnet /\ physps = {}
    /\ guidTbl = EmptyTable /\ portTbl = EmptyTable /\ linkTbl = EmptyTable
    /\ pkeyTbl = <<>> /\ base = 0 /\ cur = 0

LEMMA PassFresh == FreshPass => PassInv
<1> SUFFICES ASSUME FreshPass PROVE PassInv OBVIOUS
<1>0. /\ subnet \in Subnets /\ todo = DOMAIN subnet /\ physps = {}
      /\ guidTbl = EmptyTable /\ portTbl = EmptyTable /\ linkTbl = EmptyTable
      /\ pkeyTbl = <<>> /\ base = 0 /\ cur = 0
  BY DEF FreshPass
<1>1. Done = {} BY <1>0 DEF Done
<1>2. Seen = {} BY <1>1 DEF Seen
<1>3. PkeysSeen = {} BY <1>2 DEF PkeysSeen
<1>4. PassOrder BY <1>0, <1>1 DEF PassOrder
<1>5. PassCounts
  <2>1. Cardinality({}) = 0 BY FS_EmptySet
  <2>2. DOMAIN pkeyTbl = 0 .. base + cur - 1 BY <1>0
  <2> QED BY <1>0, <1>1, <1>2, <1>3, <2>1, <2>2, EmptyIsTable DEF PassCounts
<1>6. DOMAIN portTbl.map = {} /\ DOMAIN linkTbl.map = {}
  BY <1>0 DEF EmptyTable
<1>7. PassFound BY <1>2, <1>6 DEF PassFound
<1> QED BY <1>0, <1>4, <1>5, <1>6, <1>7 DEF PassInv, PassCarry, Apart

LEMMA PassStart == FreshPass' => PassInv'
BY PassFresh, PTL

LEMMA PassVisit ==
    ASSUME PassInv, NEW g \in todo, VisitPort(g)
    PROVE  PassInv'
<1>0. /\ physps = {} /\ todo' = todo \ {g} /\ port' = g /\ physps' = subnet[g].ports
      /\ (\A h \in todo : g <= h)
      /\ guidTbl' = Insert(guidTbl, g,
           [guid |-> g, lid |-> subnet[g].lid, is_switch |-> subnet[g].sw])
      /\ UNCHANGED <<subnet, portTbl, linkTbl, pkeyTbl, base, cur>>
  BY DEF VisitPort
<1>i. PassOrder /\ PassCounts /\ PassCarry /\ PassFound BY DEF PassInv
<1>1. Done' = Done \cup {g} /\ g \notin Done /\ Seen' = Seen /\ PkeysSeen' = PkeysSeen
  BY <1>i, SeenVisit
<1>2. subnet \in Subnets /\ g \in DOMAIN subnet /\ DOMAIN subnet \subseteq Nat /\ Done \subseteq Nat
      /\ todo \subseteq Nat
  BY <1>i, NetFacts DEF PassOrder, Done
<1>3. PassOrder'
  <2>1. \A f \in Done : f < g BY <1>i DEF PassOrder
  <2>2. \A f \in Done', h \in todo' : f < h
    <3>1. \A h \in todo' : h \in todo /\ g <= h /\ h # g BY <1>0
    <3> QED BY <1>i, <1>1, <1>2, <3>1 DEF PassOrder
  <2>3. \A f \in Done' : f <= port' BY <1>0, <1>1, <1>2, <2>1
  <2> QED BY <1>0, <1>1, <1>2, <1>i, <2>2, <2>3 DEF PassOrder
<1>4. PassCounts'
  <2> DEFINE rec == [guid |-> g, lid |-> subnet[g].lid, is_switch |-> subnet[g].sw]
  <2>1. rec \in GuidRecs
    <3>1. IsPort(subnet[g]) BY <1>2, NetPort
    <3>2. subnet[g].lid \in Nat /\ subnet[g].sw \in BOOLEAN BY <3>1, PortFacts
    <3> QED BY <1>2, <3>2 DEF GuidRecs
  <2> HIDE DEF rec
  <2>2. Table(guidTbl', GuidRecs) /\ Len(guidTbl'.recs) = Len(guidTbl.recs) + 1
    BY <1>0, <1>i, <2>1, InsertTable DEF PassCounts, rec
  <2>3. IsFiniteSet(Done) /\ Cardinality(Done) \in Nat BY <1>2, SeenFinite
  <2>4. Cardinality(Done') = Cardinality(Done) + 1 BY <1>1, <2>3, FS_AddElement
  <2> QED BY <1>0, <1>1, <1>i, <2>2, <2>4 DEF PassCounts
<1>5. PassCarry' BY <1>0, <1>i DEF PassCarry
<1>6. PassFound' BY <1>0, <1>1, <1>i DEF PassFound
<1>7. (HostsLinked(subnet) => Apart(portTbl))' BY <1>0 DEF PassInv
<1> QED BY <1>3, <1>4, <1>5, <1>6, <1>7 DEF PassInv

(* What a record marks stays where it is when pkeys are written behind it. *)
LEMMA MarksStay ==
    ASSUME NEW net \in Subnets, NEW p, p[1] \in DOMAIN net, NEW rec, rec.off \in Nat,
           NEW pkeys, NEW end \in Nat, Marks(rec, net, p, pkeys, end),
           NEW written, NEW later \in Nat, end <= later,
           \A j \in 0 .. end - 1 : written[j] = pkeys[j]
    PROVE  Marks(rec, net, p, written, later)
<1> DEFINE n == net[p[1]]
           len == Len(n.pkeys)
<1>1. len \in Nat BY NetPort
<1>2. CASE p[2] # PkeyPort(n) BY <1>2 DEF Marks
<1>3. CASE p[2] = PkeyPort(n)
  <2>1. PICK c \in Nat :
          /\ len <= c /\ rec.size = SizeOf(c) /\ rec.off + c <= end
          /\ HostsLinked(net) => c = len
          /\ \A j \in 1 .. len : pkeys[rec.off + c - len + j - 1] = n.pkeys[j]
    BY <1>3 DEF Marks
  <2>2. len <= c /\ rec.off + c <= end BY <2>1, Zenon
  <2> HIDE DEF n, len
  <2>3. rec.off + c <= later BY <2>2
  <2>4. ASSUME NEW j \in 1 .. len PROVE written[rec.off + c - len + j - 1] = n.pkeys[j]
    <3>1. rec.off + c - len + j - 1 \in 0 .. end - 1 BY <1>1, <2>2
    <3>2. pkeys[rec.off + c - len + j - 1] = n.pkeys[j] BY <2>1, Zenon
    <3> QED BY <3>1, <3>2, Zenon
  <2>5. rec.lid = n.lid /\ rec.num = p[2] /\ rec.attrs = n.attrs[p[2]] BY DEF Marks, n
  <2>6. rec.size = SizeOf(c) /\ (HostsLinked(net) => c = len) BY <2>1, Zenon
  <2> QED BY <1>3, <2>2, <2>3, <2>4, <2>5, <2>6, Zenon DEF Marks, n, len
<1> QED BY <1>2, <1>3

(* In bytes a record ends where its pkeys do, or before it.                *)
LEMMA MarksBound ==
    ASSUME NEW net, NEW p, NEW rec, rec.off \in Nat, NEW pkeys, NEW end \in Nat,
           Marks(rec, net, p, pkeys, end)
    PROVE  rec.size \in Nat /\ 2 * rec.off + rec.size <= 2 * end
<1> DEFINE n == net[p[1]]
<1>1. CASE p[2] # PkeyPort(n)
  <2>1. rec.off = 0 /\ rec.size = 0 BY <1>1 DEF Marks
  <2> QED BY <2>1
<1>2. CASE p[2] = PkeyPort(n)
  <2>1. PICK c \in Nat : rec.size = SizeOf(c) /\ rec.off + c <= end
    BY <1>2 DEF Marks
  <2>2. SizeOf(c) \in Nat /\ SizeOf(c) <= 2 * c BY DEF SizeOf
  <2> QED BY <2>1, <2>2
<1> QED BY <1>1, <1>2

(* A physical port of the subnet: its key and its record.                  *)
LEMMA PortRecType ==
    ASSUME subnet \in Subnets, port \in DOMAIN subnet, NEW i \in subnet[port].ports,
           base \in Nat, cur \in Nat
    PROVE  LET n == subnet[port]
           IN  /\ Len(Pkeys(n, i)) \in Nat /\ Count(n, i) \in Nat
               /\ PortRec(n, i) \in PortRecs /\ LinkRec(n, i) \in LinkRecs
<1> DEFINE n == subnet[port]
<1>1. IsPort(n) BY NetPort
<1>2. i \in Nat /\ n.lid \in Nat /\ Len(n.pkeys) \in Nat
  <2> HIDE DEF n
  <2>1. n.lid \in Nat /\ Len(n.pkeys) \in Nat /\ n.ports \subseteq Nat BY <1>1, PortFacts
  <2> QED BY <2>1 DEF n
<1>3. Len(Pkeys(n, i)) \in Nat
  <2>1. CASE i = PkeyPort(n) BY <1>2, <2>1 DEF Pkeys
  <2>2. CASE i # PkeyPort(n)
    <3>1. Pkeys(n, i) = <<>> BY <2>2 DEF Pkeys
    <3> QED BY <3>1
  <2> QED BY <2>1, <2>2
<1>4. Count(n, i) \in Nat BY <1>3 DEF Count
<1>5. n.attrs[i] \in Attrs BY DEF Attrs
<1>6. SizeOf(Count(n, i)) \in Nat BY <1>4 DEF SizeOf
<1>7. PortRec(n, i) \in PortRecs
  <2> HIDE DEF n
  <2>1. CASE i = PkeyPort(n) BY <1>2, <1>5, <1>6, <2>1 DEF PortRec, PortRecs
  <2>2. CASE i # PkeyPort(n) BY <1>2, <1>5, <2>2 DEF PortRec, PortRecs
  <2> QED BY <2>1, <2>2
<1>8. LinkRec(n, i) \in LinkRecs
  <2> HIDE DEF n
  <2> QED BY <1>2 DEF LinkRec, LinkRecs
<1> QED BY <1>3, <1>4, <1>7, <1>8

(* The record of a physical port marks the pkeys that are written with it. *)
LEMMA OwnMarks ==
    ASSUME subnet \in Subnets, port \in DOMAIN subnet, NEW i \in subnet[port].ports,
           base \in Nat, cur \in Nat,
           HostsLinked(subnet) /\ i = PkeyPort(subnet[port]) => cur = 0,
           NEW written,
           \A j \in 1 .. Len(Pkeys(subnet[port], i)) :
             written[base + cur + j - 1] = Pkeys(subnet[port], i)[j]
    PROVE  Marks(PortRec(subnet[port], i), subnet, <<port, i>>, written,
                 base + Count(subnet[port], i))
<1> DEFINE n == subnet[port]
           rec == PortRec(n, i)
           c == Count(n, i)
           end == base + c
<1>1. Len(n.pkeys) \in Nat BY NetPort
<1>2. /\ rec.lid = n.lid /\ rec.num = i /\ rec.attrs = n.attrs[i]
      /\ rec.off = IF i = PkeyPort(n) THEN base ELSE 0
      /\ rec.size = IF i = PkeyPort(n) THEN SizeOf(c) ELSE 0
  BY DEF PortRec
<1>3. <<port, i>>[1] = port /\ <<port, i>>[2] = i OBVIOUS
<1> HIDE DEF n, rec
<1>4. CASE i # PkeyPort(n)
  <2>1. rec.off = 0 /\ rec.size = 0 BY <1>2, <1>4
  <2> HIDE DEF c, end
  <2>2. Marks(rec, subnet, <<port, i>>, written, end)
    BY <1>2, <1>3, <1>4, <2>1, Zenon DEF Marks, n
  <2> QED BY <2>2 DEF rec, n, c, end
<1>5. CASE i = PkeyPort(n)
  <2>1. Pkeys(n, i) = n.pkeys BY <1>5 DEF Pkeys
  <2>2. c = cur + Len(n.pkeys) BY <2>1 DEF Count
  <2>3. c \in Nat /\ Len(n.pkeys) <= c BY <1>1, <2>2
  <2>4. HostsLinked(subnet) => c = Len(n.pkeys) BY <1>1, <1>5, <2>2 DEF n
  <2>5. \A j \in 1 .. Len(n.pkeys) : written[rec.off + c - Len(n.pkeys) + j - 1] = n.pkeys[j]
    <3> TAKE j \in 1 .. Len(n.pkeys)
    <3>1. rec.off + c - Len(n.pkeys) + j - 1 = base + cur + j - 1 BY <1>1, <1>2, <1>5, <2>2
    <3> QED BY <2>1, <3>1 DEF n
  <2>6. rec.off + c <= end /\ rec.size = SizeOf(c) BY <1>2, <1>5, <2>3
  <2> HIDE DEF c, end
  <2>7. Marks(rec, subnet, <<port, i>>, written, end)
    BY <1>2, <1>3, <1>5, <2>3, <2>4, <2>5, <2>6, Zenon DEF Marks, n
  <2> QED BY <2>7 DEF rec, n, c, end
<1> QED BY <1>4, <1>5 DEF n, rec

(* The offsets behind a physical port: its pkeys, if it has any, are       *)
(* closed or left to the next port.                                        *)
Carry(i) ==
    /\ base' \in Nat /\ cur' \in Nat /\ base' + cur' = base + Count(subnet[port], i)
    /\ HostsLinked(subnet) /\ cur' # 0 =>
         physps' # {} /\ PkeyPort(subnet[port]) \notin physps'

LEMMA PassPhysp ==
    ASSUME PassInv, NEW i \in physps, AddRecords(subnet[port], i), Carry(i)
    PROVE  PassInv'
<1> DEFINE n == subnet[port]
           rec == PortRec(n, i)
           key == Key(n.lid, i)
           p == <<port, i>>
           end == base + cur
<1>n. PICK b \in Nat, c \in Nat : base' = b /\ cur' = c BY Zenon DEF Carry
<1> DEFINE later == b + c
<1>0. /\ physps' = physps \ {i} /\ (\A j \in physps : i <= j)
      /\ pkeyTbl' = WriteAt(pkeyTbl, base + cur, Pkeys(n, i))
      /\ portTbl' = Insert(portTbl, key, rec)
      /\ linkTbl' = IF i \in n.linked THEN Insert(linkTbl, key, LinkRec(n, i)) ELSE linkTbl
      /\ UNCHANGED <<subnet, todo, port, guidTbl>>
  BY DEF AddRecords
<1>i. PassOrder /\ PassCounts /\ PassCarry /\ PassFound BY DEF PassInv
<1>1. /\ port \in Done /\ i \in n.ports /\ Done' = Done /\ Seen' = Seen \cup {p} /\ p \notin Seen
  BY <1>0, <1>i, SeenPhysp
<1>2. /\ subnet \in Subnets /\ port \in DOMAIN subnet /\ DOMAIN subnet \subseteq Nat
      /\ Done \subseteq Nat
  BY <1>1, <1>i, NetFacts DEF PassOrder, Done
<1>3. /\ Table(guidTbl, GuidRecs) /\ Table(portTbl, PortRecs) /\ Table(linkTbl, LinkRecs)
      /\ base \in Nat /\ cur \in Nat /\ end \in Nat /\ DOMAIN pkeyTbl = 0 .. end - 1
  BY <1>i DEF PassCounts
<1>4. /\ Len(Pkeys(n, i)) \in Nat /\ Count(n, i) \in Nat
      /\ rec \in PortRecs /\ LinkRec(n, i) \in LinkRecs
  BY <1>1, <1>2, <1>3, PortRecType
<1>5. /\ Table(portTbl', PortRecs) /\ DOMAIN portTbl'.map = DOMAIN portTbl.map \cup {key}
      /\ Len(portTbl'.recs) = Len(portTbl.recs) + 1
      /\ \A k \in DOMAIN portTbl.map : Rec(portTbl', k) = Rec(portTbl, k)
      /\ key \notin DOMAIN portTbl.map => Rec(portTbl', key) = rec
  <2> HIDE DEF n, rec, key
  <2> QED BY <1>0, <1>3, <1>4, InsertTable
<1>6. /\ Table(linkTbl', LinkRecs)
      /\ DOMAIN linkTbl'.map = DOMAIN linkTbl.map \cup (IF i \in n.linked THEN {key} ELSE {})
      /\ Len(linkTbl'.recs) \in {Len(linkTbl.recs), Len(linkTbl.recs) + 1}
  <2> HIDE DEF n, rec, key
  <2>1. CASE i \in n.linked
    <3>1. linkTbl' = Insert(linkTbl, key, LinkRec(n, i)) BY <1>0, <2>1
    <3> QED BY <1>3, <1>4, <2>1, <3>1, InsertTable
  <2>2. CASE i \notin n.linked BY <1>0, <1>3, <2>2
  <2> QED BY <2>1, <2>2
<1>7. /\ DOMAIN pkeyTbl' = 0 .. later - 1
      /\ \A j \in 0 .. end - 1 : pkeyTbl'[j] = pkeyTbl[j]
      /\ \A j \in 1 .. Len(Pkeys(n, i)) : pkeyTbl'[end + j - 1] = Pkeys(n, i)[j]
      /\ later = end + Len(Pkeys(n, i)) /\ end <= later /\ later = base + Count(n, i)
  <2>1. later = end + Len(Pkeys(n, i))
    <3>1. later = base + Count(n, i) BY <1>n, Zenon DEF Carry
    <3>2. Count(n, i) = cur + Len(Pkeys(n, i)) BY DEF Count
    <3> HIDE DEF n
    <3> QED BY <1>3, <1>4, <3>1, <3>2
  <2>2. pkeyTbl' = WriteAt(pkeyTbl, end, Pkeys(n, i)) BY <1>0
  <2>3. /\ DOMAIN pkeyTbl' = 0 .. end + Len(Pkeys(n, i)) - 1
        /\ \A j \in 0 .. end - 1 : pkeyTbl'[j] = pkeyTbl[j]
        /\ \A j \in 1 .. Len(Pkeys(n, i)) : pkeyTbl'[end + j - 1] = Pkeys(n, i)[j]
    <3> DEFINE s == Pkeys(n, i)
    <3>1. end \in Nat /\ DOMAIN pkeyTbl = 0 .. end - 1 /\ Len(s) \in Nat BY <1>3, <1>4
    <3> HIDE DEF end, s
    <3> QED BY <2>2, <3>1, WriteBehind DEF s
  <2>4. end <= later
    <3>1. end \in Nat /\ Len(Pkeys(n, i)) \in Nat BY <1>3, <1>4
    <3> QED BY <2>1, <3>1
  <2>5. later = base + Count(n, i) BY <1>n, Zenon DEF Carry
  <2> HIDE DEF n, end, later
  <2>6. DOMAIN pkeyTbl' = 0 .. later - 1
    <3>1. end \in Nat /\ Len(Pkeys(n, i)) \in Nat BY <1>3, <1>4
    <3> QED BY <2>1, <2>3, <3>1
  <2> QED BY <2>1, <2>3, <2>4, <2>5, <2>6, Zenon
<1>8. PassOrder'
  <2>1. Done' = Done BY <1>1
  <2> QED BY <1>0, <1>i, <2>1 DEF PassOrder
<1>9. PassCounts'
  <2>1. Cardinality(Seen') = Cardinality(Seen) + 1 /\ Cardinality(Seen) \in Nat
    <3>1. IsFiniteSet(Seen) /\ Cardinality(Seen) \in Nat BY <1>2, SeenFinite
    <3> HIDE DEF p
    <3> QED BY <1>1, <3>1, FS_AddElement
  <2>2. Cardinality(PkeysSeen') = Cardinality(PkeysSeen) + Len(Pkeys(n, i))
    BY <1>0, <1>i, PkeysCounted
  <2>3. later = Cardinality(PkeysSeen') BY <1>7, <1>i, <2>2 DEF PassCounts
  <2>4. Len(portTbl'.recs) = Cardinality(Seen') BY <1>5, <1>i, <2>1 DEF PassCounts
  <2>5. Len(linkTbl'.recs) <= Cardinality(Seen')
    <3>1. Len(linkTbl.recs) <= Cardinality(Seen) /\ Len(linkTbl.recs) \in Nat
      BY <1>3, <1>i DEF PassCounts, Table
    <3> QED BY <1>6, <2>1, <3>1
  <2>6. Table(guidTbl', GuidRecs) /\ Len(guidTbl'.recs) = Cardinality(Done')
    BY <1>0, <1>1, <1>i DEF PassCounts
  <2> QED BY <1>5, <1>6, <1>7, <1>n, <2>3, <2>4, <2>5, <2>6 DEF PassCounts
<1>10. PassCarry' BY <1>0 DEF PassCarry, Carry
<1>11. HostsLinked(subnet) /\ i = PkeyPort(n) => cur = 0 BY <1>i DEF PassCarry
<1>12. Marks(rec, subnet, p, pkeyTbl', later)
  <2>1. /\ subnet \in Subnets /\ port \in DOMAIN subnet /\ i \in subnet[port].ports
        /\ base \in Nat /\ cur \in Nat
    BY <1>1, <1>2, <1>3
  <2>2. \A j \in 1 .. Len(Pkeys(subnet[port], i)) :
          pkeyTbl'[base + cur + j - 1] = Pkeys(subnet[port], i)[j]
    BY <1>7
  <2>3. Marks(rec, subnet, p, pkeyTbl', base + Count(n, i)) BY <1>11, <2>1, <2>2, OwnMarks
  <2> HIDE DEF rec, p, n, later
  <2> QED BY <1>7, <2>3
<1>13. ASSUME NEW k \in DOMAIN portTbl.map
       PROVE  \E q \in Seen' : /\ FirstSeen(k, subnet, q, Seen')
                               /\ Marks(Rec(portTbl', k), subnet, q, pkeyTbl', later)
  <2>1. PICK q \in Seen : /\ FirstSeen(k, subnet, q, Seen)
                          /\ Marks(Rec(portTbl, k), subnet, q, pkeyTbl, end)
    BY <1>i DEF PassFound
  <2>2. q[1] \in Done /\ q[1] \in DOMAIN subnet BY SeenForm DEF Done
  <2>3. FirstSeen(k, subnet, q, Seen')
    <3>1. q[1] <= port /\ p[1] = port BY <1>i, <2>2 DEF PassOrder
    <3>2. ~(p[1] < q[1]) BY <1>1, <1>2, <2>2, <3>1
    <3> HIDE DEF p
    <3> QED BY <1>1, <2>1, <3>2 DEF FirstSeen
  <2>4. Rec(portTbl, k).off \in Nat
    <3>1. Rec(portTbl, k) \in PortRecs BY <1>3, TableRec
    <3> QED BY <3>1 DEF PortRecs
  <2>5. later \in Nat BY <1>n
  <2>6. Marks(Rec(portTbl, k), subnet, q, pkeyTbl', later)
    <3> DEFINE r == Rec(portTbl, k)
    <3> HIDE DEF r, later, end
    <3>1. r.off \in Nat /\ later \in Nat /\ Marks(r, subnet, q, pkeyTbl, end) /\ end <= later
      BY <1>7, <2>1, <2>4, <2>5 DEF r, later
    <3>2. Marks(r, subnet, q, pkeyTbl', later) BY <1>2, <1>3, <1>7, <2>2, <3>1, MarksStay
    <3> QED BY <3>2 DEF r, later
  <2>7. q \in Seen' BY <1>1
  <2> QED BY <1>5, <2>3, <2>6, <2>7
<1>14. ASSUME key \notin DOMAIN portTbl.map
       PROVE  FirstSeen(key, subnet, p, Seen')
  <2>1. \A q \in Seen : KeyOf(subnet, q) # key BY <1>14, <1>i DEF PassFound
  <2>2. KeyOf(subnet, p) = key BY DEF KeyOf
  <2>3. ~(p[1] < p[1]) BY <1>1, <1>2
  <2> HIDE DEF p, key
  <2> QED BY <1>1, <2>1, <2>2, <2>3 DEF FirstSeen
<1>15. PassFound'
  <2>1. DOMAIN portTbl'.map = {KeyOf(subnet, q) : q \in Seen'}
    <3>1. KeyOf(subnet, p) = key BY DEF KeyOf
    <3> HIDE DEF p, key
    <3> QED BY <1>1, <1>5, <1>i, <3>1 DEF PassFound
  <2>2. DOMAIN linkTbl'.map
          = {KeyOf(subnet, q) : q \in {r \in Seen' : r[2] \in subnet[r[1]].linked}}
    <3>1. KeyOf(subnet, p) = key BY DEF KeyOf
    <3>2. p[2] \in subnet[p[1]].linked <=> i \in n.linked OBVIOUS
    <3> HIDE DEF p, key, n
    <3>3. DOMAIN linkTbl.map
            = {KeyOf(subnet, q) : q \in {r \in Seen : r[2] \in subnet[r[1]].linked}}
      BY <1>i DEF PassFound
    <3> QED BY <1>1, <1>6, <3>1, <3>2, <3>3
  <2>3. \A k \in DOMAIN portTbl'.map :
          \E q \in Seen' : /\ FirstSeen(k, subnet, q, Seen')
                           /\ Marks(Rec(portTbl', k), subnet, q, pkeyTbl', later)
    <3> TAKE k \in DOMAIN portTbl'.map
    <3>1. CASE k \in DOMAIN portTbl.map BY <1>13, <3>1
    <3>2. CASE k \notin DOMAIN portTbl.map
      <4>1. k = key BY <1>5, <3>2
      <4>2. p \in Seen' BY <1>1
      <4> HIDE DEF p, key, rec
      <4> QED BY <1>5, <1>12, <1>14, <3>2, <4>1, <4>2
    <3> QED BY <3>1, <3>2
  <2>4. later = base' + cur' BY <1>n, Zenon
  <2> HIDE DEF later
  <2>5. \A k \in DOMAIN portTbl'.map :
          \E q \in Seen' : /\ FirstSeen(k, subnet, q, Seen')
                           /\ Marks(Rec(portTbl', k), subnet, q, pkeyTbl', base' + cur')
    BY <2>3, <2>4, Zenon
  <2> QED BY <1>0, <2>1, <2>2, <2>5, Zenon DEF PassFound
<1>16. HostsLinked(subnet) => Apart(portTbl')
  <2> SUFFICES ASSUME HostsLinked(subnet) PROVE Apart(portTbl') OBVIOUS
  <2>0. Apart(portTbl) BY DEF PassInv
  <2>1. ASSUME NEW k \in DOMAIN portTbl.map
        PROVE  /\ Rec(portTbl, k).size \in Nat /\ Rec(portTbl, k).off \in Nat
               /\ 2 * Rec(portTbl, k).off + Rec(portTbl, k).size <= 2 * end
    <3>1. PICK q \in Seen : Marks(Rec(portTbl, k), subnet, q, pkeyTbl, end)
      BY <1>i DEF PassFound
    <3>2. Rec(portTbl, k).off \in Nat
      <4>1. Rec(portTbl, k) \in PortRecs BY <1>3, TableRec
      <4> QED BY <4>1 DEF PortRecs
    <3> HIDE DEF end
    <3> QED BY <1>3, <3>1, <3>2, MarksBound
  <2>2. rec.size > 0 => rec.off = end
    <3>1. i # PkeyPort(n) => rec.size = 0 BY DEF PortRec
    <3>2. i = PkeyPort(n) => rec.off = base BY DEF PortRec
    <3> HIDE DEF rec
    <3> QED BY <1>3, <1>11, <3>1, <3>2
  <2>3. rec.size \in Nat /\ rec.off \in Nat BY <1>4 DEF PortRecs
  <2> SUFFICES ASSUME NEW k \in DOMAIN portTbl'.map, NEW j \in DOMAIN portTbl'.map, k # j,
                      Rec(portTbl', k).size > 0, Rec(portTbl', j).size > 0
               PROVE  \/ 2 * Rec(portTbl', k).off + Rec(portTbl', k).size
                           <= 2 * Rec(portTbl', j).off
                      \/ 2 * Rec(portTbl', j).off + Rec(portTbl', j).size
                           <= 2 * Rec(portTbl', k).off
    BY DEF Apart
  <2> HIDE DEF rec, key, end
  <2>4. CASE k \in DOMAIN portTbl.map /\ j \in DOMAIN portTbl.map
    BY <1>5, <2>0, <2>4 DEF Apart
  <2>5. CASE k \in DOMAIN portTbl.map /\ j \notin DOMAIN portTbl.map
    <3>1. j = key /\ Rec(portTbl', j) = rec BY <1>5, <2>5
    <3>2. Rec(portTbl', k) = Rec(portTbl, k) BY <1>5, <2>5
    <3> QED BY <1>3, <2>1, <2>2, <2>3, <2>5, <3>1, <3>2
  <2>6. CASE k \notin DOMAIN portTbl.map /\ j \in DOMAIN portTbl.map
    <3>1. k = key /\ Rec(portTbl', k) = rec BY <1>5, <2>6
    <3>2. Rec(portTbl', j) = Rec(portTbl, j) BY <1>5, <2>6
    <3> QED BY <1>3, <2>1, <2>2, <2>3, <2>6, <3>1, <3>2
  <2>7. k \in DOMAIN portTbl.map \/ j \in DOMAIN portTbl.map BY <1>5
  <2> QED BY <2>4, <2>5, <2>6, <2>7
<1> QED BY <1>0, <1>8, <1>9, <1>10, <1>15, <1>16 DEF PassInv

LEMMA PhyspFacts ==
    ASSUME PassInv, NEW i \in physps
    PROVE  /\ subnet \in Subnets /\ port \in DOMAIN subnet /\ i \in subnet[port].ports
           /\ physps \subseteq subnet[port].ports /\ subnet[port].ports \subseteq Nat
           /\ base \in Nat /\ cur \in Nat /\ Count(subnet[port], i) \in Nat
<1>1. /\ subnet \in Subnets /\ port \in DOMAIN subnet
      /\ physps \subseteq subnet[port].ports /\ base \in Nat /\ cur \in Nat
  BY DEF PassInv, PassOrder, PassCounts, Done
<1>2. Count(subnet[port], i) \in Nat BY <1>1, PortRecType
<1>3. subnet[port].ports \subseteq Nat
  <2> DEFINE n == subnet[port]
  <2>1. IsPort(n) BY <1>1, NetPort
  <2> HIDE DEF n
  <2>2. n.ports \subseteq Nat BY <2>1, PortFacts
  <2> QED BY <2>2 DEF n
<1> QED BY <1>1, <1>2, <1>3

(* The pkeys of a switch go with port 0, which is its first.               *)
LEMMA PassSwitchPort ==
    ASSUME PassInv, NEW i \in physps, SwitchPort(i)
    PROVE  PassInv'
<1>1. AddRecords(subnet[port], i) BY DEF SwitchPort
<1>2. Carry(i)
  <2> DEFINE c == Count(subnet[port], i)
  <2>1. c \in Nat /\ base \in Nat BY PhyspFacts
  <2>2. PkeyPort(subnet[port]) = 0 BY DEF SwitchPort, PkeyPort
  <2>3. 0 \notin physps'
    <3>1. physps' = physps \ {i} /\ \A j \in physps : i <= j BY <1>1 DEF AddRecords
    <3>2. physps \subseteq Nat BY PhyspFacts
    <3> QED BY <3>1, <3>2
  <2>4. CASE physps' = {}
    <3>1. base' = base + c /\ cur' = 0 BY <2>4 DEF SwitchPort, CloseIf
    <3> HIDE DEF c
    <3> QED BY <2>1, <3>1 DEF Carry, c
  <2>5. CASE physps' # {}
    <3>1. base' = base /\ cur' = c BY <2>5 DEF SwitchPort, CloseIf
    <3> HIDE DEF c
    <3> QED BY <2>1, <2>2, <2>3, <2>5, <3>1 DEF Carry, c
  <2> QED BY <2>4, <2>5
<1> QED BY <1>1, <1>2, PassPhysp

LEMMA PassHostPort ==
    ASSUME PassInv, NEW i \in physps, HostPort(i)
    PROVE  PassInv'
<1>1. AddRecords(subnet[port], i) BY DEF HostPort
<1>2. Carry(i)
  <2> DEFINE c == Count(subnet[port], i)
  <2>1. c \in Nat /\ base \in Nat /\ subnet \in Subnets /\ port \in DOMAIN subnet
    BY PhyspFacts
  <2>2. ~subnet[port].sw BY DEF HostPort
  <2>3. i = subnet[port].num BY <2>1, <2>2, PhyspFacts, NetPort
  <2>4. CASE i \in subnet[port].linked
    <3>1. base' = base + c /\ cur' = 0 BY <2>4 DEF HostPort, CloseIf
    <3> HIDE DEF c
    <3> QED BY <2>1, <3>1 DEF Carry, c
  <2>5. CASE i \notin subnet[port].linked
    <3>1. base' = base /\ cur' = c BY <2>5 DEF HostPort, CloseIf
    <3>2. ~HostsLinked(subnet) BY <2>1, <2>2, <2>3, <2>5 DEF HostsLinked
    <3> HIDE DEF c
    <3> QED BY <2>1, <3>1, <3>2 DEF Carry, c
  <2> QED BY <2>4, <2>5
<1> QED BY <1>1, <1>2, PassPhysp

LEMMA PassUnchanged == PassInv /\ UNCHANGED extractVars => PassInv'
<1> SUFFICES ASSUME PassInv, UNCHANGED extractVars PROVE PassInv' OBVIOUS
<1>1. UNCHANGED <<subnet, todo, port, physps, guidTbl, portTbl, linkTbl, pkeyTbl, base, cur>>
  BY DEF extractVars, tables
<1>2. Done' = Done BY <1>1 DEF Done
<1>3. Seen' = Seen BY <1>1, <1>2 DEF Seen
<1>4. PkeysSeen' = PkeysSeen BY <1>1, <1>3 DEF PkeysSeen
<1>5. PassOrder' BY <1>1, <1>2 DEF PassInv, PassOrder
<1>6. PassCounts' BY <1>1, <1>2, <1>3, <1>4 DEF PassInv, PassCounts
<1>7. PassCarry' BY <1>1 DEF PassInv, PassCarry
<1>8. PassFound' BY <1>1, <1>3 DEF PassInv, PassFound
<1> QED BY <1>1, <1>5, <1>6, <1>7, <1>8 DEF PassInv

-----------------------------------------------------------------------------
(***************************************************************************)
(* What the invariant says of the arrays, and of a pass that has ended.    *)
(***************************************************************************)

LEMMA PassFits == PassInv => ArraysFit
<1> SUFFICES ASSUME PassInv PROVE ArraysFit OBVIOUS
<1>1. /\ Len(guidTbl.recs) = Cardinality(Done) /\ Len(portTbl.recs) = Cardinality(Seen)
      /\ Len(linkTbl.recs) <= Cardinality(Seen) /\ Len(linkTbl.recs) \in Nat
      /\ base \in Nat /\ cur \in Nat /\ base + cur = Cardinality(PkeysSeen)
      /\ DOMAIN pkeyTbl = 0 .. base + cur - 1
  BY DEF PassInv, PassCounts, Table
<1>2. subnet \in Subnets BY DEF PassInv, PassOrder
<1>3. /\ Cardinality(Done) <= Cardinality(DOMAIN subnet)
      /\ Cardinality(Seen) <= MaxPorts(subnet)
      /\ Cardinality(PkeysSeen) <= MaxPkeys(subnet)
      /\ Cardinality(Seen) \in Nat /\ Cardinality(PkeysSeen) \in Nat
      /\ MaxPorts(subnet) \in Nat /\ MaxPkeys(subnet) \in Nat
  BY <1>2, SeenFinite, PhyspsCounted
<1>4. Len(linkTbl.recs) <= MaxPorts(subnet) BY <1>1, <1>3
<1>5. DOMAIN pkeyTbl \subseteq 0 .. MaxPkeys(subnet) - 1 BY <1>1, <1>3
<1> QED BY <1>1, <1>3, <1>4, <1>5 DEF ArraysFit

LEMMA AllSeen == PassInv /\ Extracted => Done = DOMAIN subnet /\ Seen = Physps(subnet)
BY PhyspForm DEF Extracted, Done, Seen

LEMMA CountOfBound ==
    ASSUME NEW s \in Nat
    PROVE  CountOf(s) \in Nat /\ 2 * CountOf(s) <= s
BY DEF CountOf

LEMMA CountOfSize ==
    ASSUME NEW c \in Nat, c < 32768
    PROVE  CountOf(SizeOf(c)) = c
<1>1. SizeOf(c) = 2 * c BY DEF SizeOf
<1>2. CountOf(2 * c) = c BY DEF CountOf
<1> QED BY <1>1, <1>2

LEMMA PhyspKey ==
    ASSUME NEW net, NEW p \in Physps(net), NEW S, p[2] \in S
    PROVE  p[1] \in DOMAIN net /\ KeyOf(net, p) \in KeysOf(net[p[1]], S)
BY PhyspForm DEF KeyOf, KeysOf

LEMMA KeyPhysp ==
    ASSUME NEW net, NEW g \in DOMAIN net, NEW S, S \subseteq net[g].ports,
           NEW k \in KeysOf(net[g], S)
    PROVE  \E p \in Physps(net) : p[1] = g /\ p[2] \in S /\ KeyOf(net, p) = k
<1>1. PICK i \in S : k = Key(net[g].lid, i) BY DEF KeysOf
<1>2. <<g, i>> \in Physps(net) BY DEF Physps
<1>3. KeyOf(net, <<g, i>>) = k BY <1>1 DEF KeyOf
<1> QED BY <1>2, <1>3

(* Of the physical ports with one key the table has the record of the one  *)
(* that was seen first.                                                    *)
LEMMA FirstIsOwn ==
    ASSUME PassInv, Extracted, NEW k \in DOMAIN portTbl.map, NEW g \in DOMAIN subnet,
           FirstWith(k, g)
    PROVE  \E p \in Physps(subnet) : /\ p[1] = g /\ KeyOf(subnet, p) = k
                                     /\ Marks(Rec(portTbl, k), subnet, p, pkeyTbl, base + cur)
<1>1. PICK p \in Seen : /\ FirstSeen(k, subnet, p, Seen)
                        /\ Marks(Rec(portTbl, k), subnet, p, pkeyTbl, base + cur)
  BY DEF PassInv, PassFound
<1>2. Seen = Physps(subnet) /\ DOMAIN subnet \subseteq Nat
  BY AllSeen, NetFacts DEF PassInv, PassOrder
<1>3. p[1] \in DOMAIN subnet /\ p[2] \in subnet[p[1]].ports BY <1>2, PhyspForm
<1>4. ~(p[1] < g)
  <2>1. k \in KeysOf(subnet[p[1]], subnet[p[1]].ports)
    BY <1>1, <1>3 DEF FirstSeen, KeyOf, KeysOf
  <2> QED BY <1>3, <2>1 DEF FirstWith
<1>5. ~(g < p[1])
  <2>1. PICK i \in subnet[g].ports : k = Key(subnet[g].lid, i) BY DEF FirstWith, KeysOf
  <2>2. <<g, i>> \in Seen /\ KeyOf(subnet, <<g, i>>) = k
    BY <1>2, <2>1 DEF Physps, KeyOf
  <2> QED BY <1>1, <2>2 DEF FirstSeen
<1>6. p[1] = g BY <1>2, <1>3, <1>4, <1>5
<1> QED BY <1>1, <1>2, <1>6 DEF FirstSeen

LEMMA MarksOwn ==
    ASSUME subnet \in Subnets, NEW k, NEW p \in Physps(subnet), KeyOf(subnet, p) = k,
           Rec(portTbl, k).off \in Nat, base \in Nat, cur \in Nat, 
           DOMAIN pkeyTbl = 0 .. base + cur - 1, base + cur <= MaxPkeys(subnet),
           Marks(Rec(portTbl, k), subnet, p, pkeyTbl, base + cur)
    PROVE  OwnRecord(k, subnet[p[1]])
<1> DEFINE rec == Rec(portTbl, k)
           n == subnet[p[1]]
           own == Pkeys(n, rec.num)
           count == CountOf(rec.size)
           end == base + cur
<1>1. p[1] \in DOMAIN subnet /\ p[2] \in n.ports BY PhyspForm
<1>2. Len(n.pkeys) \in Nat /\ MaxPkeys(subnet) \in Nat BY <1>1, NetPort, PhyspsCounted
<1>3. rec.lid = n.lid /\ rec.num = p[2] /\ rec.attrs = n.attrs[p[2]] BY DEF Marks
<1>4. rec.num \in n.ports /\ Key(rec.lid, rec.num) = k /\ rec.attrs = n.attrs[rec.num]
  BY <1>1, <1>3 DEF KeyOf
<1>n. end \in Nat /\ end <= MaxPkeys(subnet) /\ rec.off \in Nat OBVIOUS
<1> HIDE DEF rec, end
<1>5. rec.size \in Nat /\ 2 * rec.off + rec.size <= 2 * end
  BY <1>n, MarksBound DEF rec, end
<1>6. count \in Nat /\ 2 * count <= rec.size BY <1>5, CountOfBound
<1>7. rec.off .. (rec.off + count) - 1 \subseteq DOMAIN pkeyTbl
  <2> HIDE DEF count
  <2>1. rec.off + count <= end BY <1>n, <1>5, <1>6
  <2>2. DOMAIN pkeyTbl = 0 .. end - 1 BY DEF end
  <2> QED BY <1>n, <1>6, <2>1, <2>2
<1>8. ASSUME SizesFit(subnet)
      PROVE  /\ Len(own) <= count
             /\ \A j \in 1 .. Len(own) : pkeyTbl[(rec.off + count) - Len(own) + j - 1] = own[j]
             /\ HostsLinked(subnet) => count = Len(own)
  <2>1. CASE p[2] # PkeyPort(n)
    <3>1. rec.size = 0 BY <2>1 DEF Marks, rec
    <3>2. count = 0 BY <1>6, <3>1
    <3>3. own = <<>> BY <1>3, <2>1 DEF Pkeys
    <3> HIDE DEF own, count
    <3>4. Len(own) = 0 BY <3>3
    <3>5. 1 .. Len(own) = {} BY <3>4
    <3> QED BY <3>2, <3>4, <3>5
  <2>2. CASE p[2] = PkeyPort(n)
    <3>1. PICK c \in Nat :
            /\ Len(n.pkeys) <= c /\ rec.size = SizeOf(c) /\ rec.off + c <= end
            /\ HostsLinked(subnet) => c = Len(n.pkeys)
            /\ \A j \in 1 .. Len(n.pkeys) :
                 pkeyTbl[rec.off + c - Len(n.pkeys) + j - 1] = n.pkeys[j]
      BY <2>2 DEF Marks, rec, end
    <3>2. own = n.pkeys BY <1>3, <2>2 DEF Pkeys
    <3>3. c < 32768
      <4>1. CASE MaxPkeys(subnet) < 32768
        <5>1. rec.off + c <= end BY <3>1, Zenon
        <5> QED BY <1>2, <1>n, <4>1, <5>1
      <4>2. CASE HostsLinked(subnet) /\ \A g \in DOMAIN subnet : Len(subnet[g].pkeys) < 32768
        <5>1. Len(n.pkeys) < 32768 BY <1>1, <4>2
        <5>2. HostsLinked(subnet) BY <4>2
        <5>3. c = Len(n.pkeys) BY <3>1, <5>2, Zenon
        <5> QED BY <5>1, <5>3
      <4> QED BY <1>8, <4>1, <4>2 DEF SizesFit
    <3>4. count = c
      <4>1. rec.size = SizeOf(c) BY <3>1, Zenon
      <4> QED BY <3>3, <4>1, CountOfSize
    <3> HIDE DEF own, count, n
    <3>5. ASSUME NEW j \in 1 .. Len(own)
          PROVE  pkeyTbl[(rec.off + count) - Len(own) + j - 1] = own[j]
      <4>1. (rec.off + c) - Len(n.pkeys) + j - 1 = rec.off + c - Len(n.pkeys) + j - 1
        BY <1>2, <1>n, <3>2
      <4>2. pkeyTbl[rec.off + c - Len(n.pkeys) + j - 1] = n.pkeys[j] BY <3>1, <3>2, Zenon
      <4> QED BY <3>2, <3>4, <4>1, <4>2, Zenon
    <3> QED BY <3>1, <3>2, <3>4, <3>5, Zenon
  <2> QED BY <2>1, <2>2
<1> HIDE DEF own, count, n
<1>9. OwnRecord(k, n) BY <1>4, <1>7, <1>8, Zenon DEF OwnRecord, rec, own, count
<1> QED BY <1>9 DEF n

LEMMA PassFinds == PassInv => PortsFound
<1> SUFFICES ASSUME PassInv, Extracted
             PROVE  /\ DOMAIN portTbl.map
                         = UNION {KeysOf(subnet[g], subnet[g].ports) : g \in DOMAIN subnet}
                    /\ DOMAIN linkTbl.map
                         = UNION {KeysOf(subnet[g], subnet[g].ports \cap subnet[g].linked) :
                                    g \in DOMAIN subnet}
                    /\ \A k \in DOMAIN portTbl.map, g \in DOMAIN subnet :
                         FirstWith(k, g) => OwnRecord(k, subnet[g])
  BY DEF PortsFound
<1>1. Seen = Physps(subnet) /\ subnet \in Subnets BY AllSeen DEF PassInv, PassOrder
<1>2. DOMAIN portTbl.map = UNION {KeysOf(subnet[g], subnet[g].ports) : g \in DOMAIN subnet}
  <2> DEFINE keys == UNION {KeysOf(subnet[g], subnet[g].ports) : g \in DOMAIN subnet}
  <2>1. ASSUME NEW k \in DOMAIN portTbl.map PROVE k \in keys
    <3>1. PICK p \in Physps(subnet) : k = KeyOf(subnet, p)
      BY <1>1 DEF PassInv, PassFound
    <3>2. p[1] \in DOMAIN subnet /\ p[2] \in subnet[p[1]].ports BY PhyspForm
    <3>3. k \in KeysOf(subnet[p[1]], subnet[p[1]].ports)
      BY <3>1, <3>2, PhyspKey
    <3> QED BY <3>2, <3>3
  <2>2. ASSUME NEW g \in DOMAIN subnet, NEW k \in KeysOf(subnet[g], subnet[g].ports)
        PROVE  k \in DOMAIN portTbl.map
    <3>1. PICK p \in Physps(subnet) :
            p[1] = g /\ p[2] \in subnet[g].ports /\ KeyOf(subnet, p) = k
      BY KeyPhysp
    <3> QED BY <1>1, <3>1 DEF PassInv, PassFound
  <2>3. DOMAIN portTbl.map \subseteq keys BY <2>1
  <2>4. keys \subseteq DOMAIN portTbl.map BY <2>2
  <2> QED BY <2>3, <2>4
<1>3. DOMAIN linkTbl.map
        = UNION {KeysOf(subnet[g], subnet[g].ports \cap subnet[g].linked) : g \in DOMAIN subnet}
  <2> DEFINE keys == UNION {KeysOf(subnet[g], subnet[g].ports \cap subnet[g].linked) : g \in DOMAIN subnet}
  <2>1. ASSUME NEW k \in DOMAIN linkTbl.map PROVE k \in keys
    <3>1. PICK p \in Physps(subnet) : p[2] \in subnet[p[1]].linked /\ k = KeyOf(subnet, p)
      BY <1>1 DEF PassInv, PassFound
    <3>2. p[1] \in DOMAIN subnet /\ p[2] \in subnet[p[1]].ports BY PhyspForm
    <3>3. k \in KeysOf(subnet[p[1]], subnet[p[1]].ports \cap subnet[p[1]].linked)
      BY <3>1, <3>2, PhyspKey
    <3> QED BY <3>2, <3>3
  <2>2. ASSUME NEW g \in DOMAIN subnet, NEW k \in KeysOf(subnet[g], subnet[g].ports \cap subnet[g].linked)
        PROVE  k \in DOMAIN linkTbl.map
    <3>1. PICK p \in Physps(subnet) :
            p[1] = g /\ p[2] \in subnet[g].ports \cap subnet[g].linked /\ KeyOf(subnet, p) = k
      BY KeyPhysp
    <3> QED BY <1>1, <3>1 DEF PassInv, PassFound
  <2>3. DOMAIN linkTbl.map \subseteq keys BY <2>1
  <2>4. keys \subseteq DOMAIN linkTbl.map BY <2>2
  <2> QED BY <2>3, <2>4
<1>4. ASSUME NEW k \in DOMAIN portTbl.map, NEW g \in DOMAIN subnet, FirstWith(k, g)
      PROVE  OwnRecord(k, subnet[g])
  <2>1. PICK p \in Physps(subnet) :
          /\ p[1] = g /\ KeyOf(subnet, p) = k
          /\ Marks(Rec(portTbl, k), subnet, p, pkeyTbl, base + cur)
    BY <1>4, FirstIsOwn
  <2>2. /\ base \in Nat /\ cur \in Nat /\ DOMAIN pkeyTbl = 0 .. base + cur - 1
        /\ base + cur = Cardinality(PkeysSeen) /\ Table(portTbl, PortRecs)
    BY DEF PassInv, PassCounts
  <2>3. base + cur <= MaxPkeys(subnet) BY <1>1, <2>2, SeenFinite
  <2>4. Rec(portTbl, k) \in PortRecs BY <2>2, TableRec
  <2>5. Rec(portTbl, k).off \in Nat BY <2>4 DEF PortRecs
  <2> QED BY <1>1, <2>1, <2>2, <2>3, <2>5, MarksOwn
<1> QED BY <1>2, <1>3, <1>4

-----------------------------------------------------------------------------
(***************************************************************************)
(* What a version keeps of a pass.                                         *)
(***************************************************************************)

GoodTable(net, t) ==
    /\ Table(t, PortRecs) /\ MaxPkeys(net) \in Nat
    /\ \A k \in DOMAIN t.map : 2 * Rec(t, k).off + Rec(t, k).size <= 2 * MaxPkeys(net)
    /\ HostsLinked(net) => Apart(t)

LEMMA PassVersion == PassInv => GoodTable(subnet, portTbl)
<1> SUFFICES ASSUME PassInv PROVE GoodTable(subnet, portTbl) OBVIOUS
<1>1. /\ Table(portTbl, PortRecs) /\ base \in Nat /\ cur \in Nat
      /\ base + cur = Cardinality(PkeysSeen) /\ subnet \in Subnets
  BY DEF PassInv, PassCounts, PassOrder
<1>2. base + cur <= MaxPkeys(subnet) /\ MaxPkeys(subnet) \in Nat
  BY <1>1, SeenFinite, PhyspsCounted
<1>3. ASSUME NEW k \in DOMAIN portTbl.map
      PROVE  2 * Rec(portTbl, k).off + Rec(portTbl, k).size <= 2 * MaxPkeys(subnet)
  <2>1. PICK p \in Seen : Marks(Rec(portTbl, k), subnet, p, pkeyTbl, base + cur)
    BY DEF PassInv, PassFound
  <2>2. Rec(portTbl, k) \in PortRecs BY <1>1, TableRec
  <2>3. Rec(portTbl, k).off \in Nat /\ Rec(portTbl, k).size \in Nat
    BY <2>2 DEF PortRecs
  <2>4. base + cur \in Nat BY <1>1
  <2>5. 2 * Rec(portTbl, k).off + Rec(portTbl, k).size <= 2 * (base + cur)
    BY <2>1, <2>3, <2>4, MarksBound
  <2> QED BY <1>1, <1>2, <2>3, <2>5
<1> QED BY <1>1, <1>2, <1>3 DEF GoodTable, PassInv
=============================================================================
