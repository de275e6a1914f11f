-------------------------- MODULE SsaCompareProofs ---------------------------
(***************************************************************************)
(* Proofs about SsaCompare, for any options, any finite set of keys and    *)
(* any sequence of at most four tables.                                    *)
(***************************************************************************)
EXTENDS SsaCompare, SsaDiffProofs

(***************************************************************************)
(* The inductive invariant.  Every walk starts from an initial state of    *)
(* SsaDiff and keeps its invariant (WalkInv).  Between two walks the flag  *)
(* is up if one of the parts behind it had something to report, because no *)
(* bit was shifted out of tables_dirty: BitsFit.                           *)
(***************************************************************************)

Ended == IF pc = "walk" THEN walked - 1 ELSE walked

BitsFit ==
    /\ tables_dirty \in Nat
    /\ Ended = 0 => tables_dirty < 1
    /\ Ended = 1 => tables_dirty < 2
    /\ Ended = 2 => tables_dirty < 4
    /\ Ended = 3 => tables_dirty < 8

Flagged == diff_dirty \/ tables_dirty # 0

CompareTypes ==
    /\ pc \in {"compare", "tables", "walk", "done"}
    /\ walked \in 0 .. Len(Tables)
    /\ pc = "walk" => walked >= 1
    /\ diff_dirty \in BOOLEAN /\ pushed \in BOOLEAN
    /\ must \in BOOLEAN /\ may \in BOOLEAN

FlagInv ==
    /\ pc = "compare" => ~Flagged /\ ~must
    /\ pc \in {"tables", "walk"} => (must => Flagged) /\ (Flagged => may)

(* ssa_db_diff_compare_subnet_opts finds a record without a count.         *)
OptsInv ==
    /\ change_mask \subseteq Fields
    /\ pc = "compare" => set_count = 0

CompareInv ==
    /\ WalkInv
    /\ CompareTypes /\ BitsFit /\ FlagInv
    /\ PushedIffChanged
    /\ OptsInv /\ ChangesReported

-----------------------------------------------------------------------------
LEMMA TablesLen == Len(Tables) \in 0..4
<1>1. Tables \in Seq({"guid_to_lid", "node", "link"}) BY CompareAssumption
<1>2. Len(Tables) \in Nat BY <1>1, LenProperties
<1>3. PICK n \in Nat : n = Len(Tables) BY <1>2, Zenon
<1>4. n <= 4
  <2>1. Len(Tables) <= 4 BY CompareAssumption, Zenon
  <2> QED BY <2>1, <1>3, Zenon
<1>5. n \in 0..4 BY <1>3, <1>4
<1> QED BY <1>3, <1>5, Zenon

(* The empty version is a version of every table.                          *)
LEMMA EmptyIsVersion == EmptyVersion \in Versions /\ Mapped(EmptyVersion.map) = {}
<1>1. Mapped(EmptyVersion.map) = {} BY DEF Mapped, EmptyVersion
<1>2. Cardinality(Keys) \in Nat BY FS_CardinalityType, DiffAssumption
<1>3. EmptyVersion.map \in [Keys -> -1 .. Cardinality(Keys) - 1]
  BY <1>2 DEF EmptyVersion, NoOffset
<1>4. EmptyVersion.recs \in UNION {[1..n -> Recs] : n \in 0..Cardinality(Keys)}
  <2>1. EmptyVersion.recs = << >> /\ << >> \in [1..0 -> Recs] BY DEF EmptyVersion
  <2> QED BY <2>1, <1>2
<1>5. IsVersion(EmptyVersion)
  <2>1. Len(EmptyVersion.recs) = 0 BY DEF EmptyVersion
  <2>2. Cardinality({}) = 0 BY FS_EmptySet
  <2> QED BY <1>1, <2>1, <2>2 DEF IsVersion
<1>6. EmptyVersion \in [map  : [Keys -> -1 .. Cardinality(Keys) - 1],
                        recs : UNION {[1..n -> Recs] : n \in 0..Cardinality(Keys)}]
  <2>1. EmptyVersion = [map |-> EmptyVersion.map, recs |-> EmptyVersion.recs]
    BY DEF EmptyVersion
  <2> QED BY <1>3, <1>4, <2>1
<1> QED BY <1>1, <1>5, <1>6 DEF Versions

(* A walk is started in an initial state of SsaDiff.                       *)
LEMMA StartsWalk ==
    ASSUME NEW o \in Versions, NEW n \in Versions, StartWith(o, n), aligned' \in BOOLEAN
    PROVE  Init'
BY DEF StartWith, Init, EmptyVersion

LEMMA InitKept == Init' => WalkInv'
BY WalkInit, PTL

(* What the flag of a finished walk says of its table.                     *)
LEMMA FlagOfWalk ==
    ASSUME WalkInv, Done
    PROVE  (MustReport => dirty) /\ (dirty => MayReport)
<1>1. todoOld = {} /\ todoNew = {} BY DEF Done
<1>2. /\ Mapped(removed) \subseteq OldKeys /\ Mapped(added) \subseteq NewKeys
      /\ OldKeys \ NewKeys \subseteq Mapped(removed)
      /\ NewKeys \ OldKeys \subseteq Mapped(added)
  BY <1>1 DEF WalkInv, VisitedOnly, OneVersion
<1>3. \A k \in OldKeys \cap NewKeys :
        /\ k \in Mapped(removed) <=> k \in Mapped(added)
        /\ aligned => (k \in Mapped(removed) <=> k \in Changed)
  BY <1>1 DEF WalkInv, TwoVersions
<1>4. dirty <=> Mapped(removed) \cup Mapped(added) # {} BY DEF WalkInv, DirtyIffRecords
<1>5. ASSUME MustReport PROVE dirty
  <2>1. CASE OldKeys # NewKeys BY <2>1, <1>2, <1>4
  <2>2. CASE aligned /\ Changed # {}
    <3>1. PICK k \in Changed : TRUE BY <2>2
    <3>2. k \in OldKeys \cap NewKeys BY DEF Changed
    <3> QED BY <2>2, <3>1, <3>2, <1>3, <1>4
  <2> QED BY <1>5, <2>1, <2>2 DEF MustReport
<1>6. ASSUME dirty PROVE MayReport
  <2>1. PICK k : k \in Mapped(removed) \cup Mapped(added) BY <1>4, <1>6
  <2>2. CASE k \in OldKeys \cap NewKeys
    <3>1. CASE aligned BY <3>1, <2>1, <2>2, <1>3 DEF MayReport, MustReport
    <3>2. CASE ~aligned BY <3>2, <2>2 DEF MayReport
    <3> QED BY <3>1, <3>2
  <2>3. CASE k \notin OldKeys \cap NewKeys
    BY <2>1, <2>3, <1>2 DEF MayReport, MustReport
  <2> QED BY <2>2, <2>3
<1> QED BY <1>5, <1>6

-----------------------------------------------------------------------------
LEMMA CompareInvInit == CompareInit => CompareInv
<1> SUFFICES ASSUME CompareInit PROVE CompareInv OBVIOUS
<1> USE DEF CompareInit, Opts!Init
<1>1. Init BY EmptyIsVersion DEF Init, EmptyVersion
<1>2. WalkInv BY <1>1, WalkInit
<1>3. CompareTypes
  <2>1. walked = 0 /\ pc = "compare" /\ ~diff_dirty /\ ~pushed /\ ~must /\ ~may
    OBVIOUS
  <2>2. diff_dirty \in BOOLEAN /\ pushed \in BOOLEAN /\ must \in BOOLEAN /\ may \in BOOLEAN
    OBVIOUS
  <2> HIDE DEF CompareInit, Opts!Init
  <2> QED BY <2>1, <2>2, TablesLen DEF CompareTypes
<1>4. BitsFit BY DEF BitsFit, Ended
<1>5. FlagInv BY DEF FlagInv, Flagged
<1>6. PushedIffChanged BY DEF PushedIffChanged
<1>7. OptsInv BY DEF OptsInv, Opts!Opts
<1>8. ChangesReported BY DEF ChangesReported, Opts!ChangesReported
<1> QED BY <1>2, <1>3, <1>4, <1>5, <1>6, <1>7, <1>8 DEF CompareInv

(* Neither the tables nor the return touch what the options left behind.   *)
LEMMA OptsKept ==
    ASSUME CompareInv, UNCHANGED opts, pc # "compare", pc' # "compare",
           diff_dirty => diff_dirty'
    PROVE  OptsInv' /\ ChangesReported'
<1>1. OptsInv' BY DEF CompareInv, OptsInv, opts
<1>2. ChangesReported'
  BY DEF CompareInv, ChangesReported, Opts!ChangesReported, opts
<1> QED BY <1>1, <1>2

LEMMA CompareInvOpts == CompareInv /\ CompareOpts => CompareInv'
<1> SUFFICES ASSUME CompareInv, CompareOpts PROVE CompareInv' OBVIOUS
<1>1. /\ pc = "compare" /\ pc' = "tables" /\ UNCHANGED <<vars, walked, tables_dirty, pushed>>
      /\ UNCHANGED <<previous, current, initialized>>
      /\ change_mask' = change_mask \cup Opts!Reported
      /\ values' = [f \in Fields |-> IF f \in Opts!Reported THEN current[f] ELSE values[f]]
      /\ diff_dirty' = (Opts!Reported # {})
      /\ set_count' = IF Opts!Reported # {} THEN 1 ELSE 0
      /\ must' = (Opts!Reported # {}) /\ may' = (Opts!Reported # {})
  BY DEF CompareOpts, Opts!CompareOpts
<1>2. WalkInv'
  <2>1. [Next]_vars BY <1>1
  <2> QED BY <2>1, WalkStep DEF CompareInv
<1>3. CompareTypes' BY <1>1 DEF CompareInv, CompareTypes
<1>4. BitsFit' BY <1>1 DEF CompareInv, BitsFit, Ended
<1>5. FlagInv'
  <2>1. tables_dirty = 0
    BY <1>1 DEF CompareInv, FlagInv, Flagged
  <2> QED BY <2>1, <1>1 DEF FlagInv, Flagged
<1>6. PushedIffChanged' BY <1>1 DEF PushedIffChanged
<1>7. Opts!Reported \subseteq Fields BY DEF Opts!Reported
<1>8. OptsInv' BY <1>1, <1>7 DEF CompareInv, OptsInv
<1>9. ChangesReported'
  <2>1. \A f \in Fields : previous[f] # current[f] => f \in Opts!Reported
    BY DEF Opts!Reported
  <2>2. ~initialized => Opts!Reported = Fields BY DEF Opts!Reported
  <2>3. initialized /\ previous = current => Opts!Reported = {} BY DEF Opts!Reported
  <2>4. change_mask \subseteq Fields BY DEF CompareInv, OptsInv
  <2>5. \A f \in Opts!Reported : values'[f] = current[f] BY <1>1, <1>7
  <2>6. \A f \in Fields : previous[f] # current[f] =>
          set_count' = 1 /\ f \in change_mask' /\ values'[f] = current[f]
    BY <1>1, <2>1, <2>5
  <2>7. ~initialized => set_count' = 1 /\ change_mask' = Fields
    <3>1. Fields # {} BY CompareAssumption
    <3> QED BY <1>1, <2>2, <2>4, <3>1
  <2>8. set_count' = 1 => diff_dirty'
    <3>1. CASE Opts!Reported = {} BY <1>1, <3>1
    <3>2. CASE Opts!Reported # {}
      <4>1. diff_dirty' BY <1>1, <3>2, Zenon
      <4> QED BY <4>1
    <3> QED BY <3>1, <3>2
  <2>9. initialized /\ previous = current => set_count' = 0 BY <1>1, <2>3
  <2> QED BY <1>1, <2>6, <2>7, <2>8, <2>9 DEF ChangesReported, Opts!ChangesReported
<1> QED BY <1>2, <1>3, <1>4, <1>5, <1>6, <1>8, <1>9 DEF CompareInv

(* What a step needs to show of the walk: a walk begins or goes on.        *)
LEMMA CompareInvBegin == CompareInv /\ BeginWalk => CompareInv'
<1> SUFFICES ASSUME CompareInv, BeginWalk PROVE CompareInv' OBVIOUS
<1>1. /\ pc = "tables" /\ pc' = "walk" /\ walked < Len(Tables) /\ walked' = walked + 1
      /\ UNCHANGED <<opts, diff_dirty, tables_dirty, pushed, must, may>>
  BY DEF BeginWalk
<1>2. WalkInv'
  <2>1. PICK o \in Versions, n \in Versions : StartWith(o, n) BY DEF BeginWalk, InKeyOrder
  <2>2. aligned' \in BOOLEAN BY DEF BeginWalk
  <2> QED BY <2>1, <2>2, StartsWalk, InitKept
<1>3. CompareTypes' BY <1>1, TablesLen DEF CompareInv, CompareTypes
<1>4. BitsFit'
  <2>1. Ended' = Ended BY <1>1, TablesLen DEF Ended, CompareInv, CompareTypes
  <2> QED BY <1>1, <2>1 DEF CompareInv, BitsFit
<1>5. FlagInv' BY <1>1 DEF CompareInv, FlagInv, Flagged
<1>6. PushedIffChanged' BY <1>1 DEF PushedIffChanged
<1>7. OptsInv' /\ ChangesReported' BY <1>1, OptsKept
<1> QED BY <1>2, <1>3, <1>4, <1>5, <1>6, <1>7 DEF CompareInv

LEMMA CompareInvWalk == ASSUME NEW k \in Keys PROVE CompareInv /\ WalkOn(k) => CompareInv'
<1> SUFFICES ASSUME CompareInv, WalkOn(k) PROVE CompareInv' OBVIOUS
<1>1. /\ pc = "walk" /\ pc' = "walk"
      /\ UNCHANGED <<opts, diff_dirty, walked, tables_dirty, pushed, must, may>>
  BY DEF WalkOn
<1>2. WalkInv'
  <2>1. Next BY DEF WalkOn, Next
  <2> QED BY <2>1, WalkStep DEF CompareInv
<1>3. CompareTypes' BY <1>1 DEF CompareInv, CompareTypes
<1>4. BitsFit' BY <1>1 DEF CompareInv, BitsFit, Ended
<1>5. FlagInv' BY <1>1 DEF CompareInv, FlagInv, Flagged
<1>6. PushedIffChanged' BY <1>1 DEF PushedIffChanged
<1>7. OptsInv' /\ ChangesReported' BY <1>1, OptsKept
<1> QED BY <1>2, <1>3, <1>4, <1>5, <1>6, <1>7 DEF CompareInv

(* No bit is lost: before the last shift there are at most three.          *)
LEMMA CompareInvEnd == CompareInv /\ EndWalk => CompareInv'
<1> SUFFICES ASSUME CompareInv, EndWalk PROVE CompareInv' OBVIOUS
<1>1. /\ pc = "walk" /\ Done /\ pc' = "tables"
      /\ must' = (must \/ MustReport) /\ may' = (may \/ MayReport)
      /\ StartWith(EmptyVersion, EmptyVersion)
      /\ UNCHANGED <<aligned, opts, diff_dirty, walked, pushed>>
  BY DEF EndWalk
<1> DEFINE bit == IF dirty THEN 1 ELSE 0
<1>2. /\ tables_dirty' = (2 * tables_dirty + bit) % 256
      /\ bit \in 0..1 /\ (dirty <=> bit = 1)
  BY DEF EndWalk
<1>3. WalkInv'
  <2>1. aligned' \in BOOLEAN BY <1>1 DEF CompareInv, WalkInv, TypeOK
  <2> QED BY <1>1, <2>1, EmptyIsVersion, StartsWalk, InitKept
<1>4. CompareTypes' BY <1>1 DEF CompareInv, CompareTypes, MustReport, MayReport
<1>5. /\ Ended \in 0..3 /\ Ended' = Ended + 1
      /\ tables_dirty \in 0..7
  <2>1. Ended = walked - 1 /\ Ended' = walked BY <1>1 DEF Ended
  <2>2. walked \in 1..4
    <3>1. PICK n \in 0..4 : n = Len(Tables) BY TablesLen, Zenon
    <3>2. walked \in 0..n BY <3>1, Zenon DEF CompareInv, CompareTypes
    <3>3. walked >= 1 BY <1>1, Zenon DEF CompareInv, CompareTypes
    <3> QED BY <3>2, <3>3
  <2>3. Ended \in 0..3 /\ Ended' = Ended + 1 BY <2>1, <2>2
  <2>4. tables_dirty \in 0..7 BY <2>3 DEF CompareInv, BitsFit
  <2> QED BY <2>3, <2>4
<1> HIDE DEF bit
<1>6. tables_dirty' = 2 * tables_dirty + bit BY <1>2, <1>5
<1>7. BitsFit' BY <1>2, <1>5, <1>6 DEF CompareInv, BitsFit
<1>8. tables_dirty' # 0 <=> tables_dirty # 0 \/ dirty BY <1>2, <1>5, <1>6
<1>9. FlagInv'
  <2>1. (must => Flagged) /\ (Flagged => may) BY <1>1 DEF CompareInv, FlagInv
  <2>2. Flagged' <=> Flagged \/ dirty BY <1>1, <1>8 DEF Flagged
  <2>3. (MustReport => dirty) /\ (dirty => MayReport)
    BY <1>1, FlagOfWalk DEF CompareInv
  <2> QED BY <1>1, <2>1, <2>2, <2>3 DEF FlagInv
<1>10. PushedIffChanged' BY <1>1 DEF PushedIffChanged
<1>11. OptsInv' /\ ChangesReported' BY <1>1, OptsKept
<1> QED BY <1>3, <1>4, <1>7, <1>9, <1>10, <1>11 DEF CompareInv

LEMMA CompareInvReturn == CompareInv /\ ReturnDiff => CompareInv'
<1> SUFFICES ASSUME CompareInv, ReturnDiff PROVE CompareInv' OBVIOUS
<1>1. /\ pc = "tables" /\ pc' = "done"
      /\ diff_dirty' = Flagged /\ pushed' = Flagged
      /\ UNCHANGED <<vars, opts, walked, tables_dirty, must, may>>
  BY DEF ReturnDiff, Flagged
<1>2. WalkInv'
  <2>1. [Next]_vars BY <1>1
  <2> QED BY <2>1, WalkStep DEF CompareInv
<1>3. CompareTypes' BY <1>1 DEF CompareInv, CompareTypes, Flagged
<1>4. BitsFit' BY <1>1 DEF CompareInv, BitsFit, Ended
<1>5. FlagInv' BY <1>1 DEF FlagInv
<1>6. PushedIffChanged' BY <1>1 DEF CompareInv, FlagInv, PushedIffChanged
<1>7. diff_dirty => diff_dirty' BY <1>1 DEF Flagged
<1>8. OptsInv' /\ ChangesReported' BY <1>1, <1>7, OptsKept
<1> QED BY <1>2, <1>3, <1>4, <1>5, <1>6, <1>8 DEF CompareInv

LEMMA CompareInvStep == CompareInv /\ [CompareNext]_compareVars => CompareInv'
<1>1. CompareInv /\ UNCHANGED compareVars => CompareInv'
  <2> SUFFICES ASSUME CompareInv, UNCHANGED compareVars PROVE CompareInv' OBVIOUS
  <2>1. UNCHANGED <<vars, opts, diff_dirty, pc, walked, tables_dirty, pushed, must, may>>
    BY DEF compareVars
  <2>2. WalkInv' BY <2>1, WalkStep DEF CompareInv
  <2>3. CompareTypes' /\ BitsFit' /\ FlagInv'
    BY <2>1 DEF CompareInv, CompareTypes, BitsFit, Ended, FlagInv, Flagged
  <2>4. PushedIffChanged' BY <2>1 DEF CompareInv, PushedIffChanged
  <2>5. OptsInv' /\ ChangesReported'
    BY <2>1 DEF CompareInv, OptsInv, ChangesReported, Opts!ChangesReported, opts
  <2> QED BY <2>2, <2>3, <2>4, <2>5 DEF CompareInv
<1> QED BY <1>1, CompareInvOpts, CompareInvBegin, CompareInvWalk, CompareInvEnd, CompareInvReturn
      DEF CompareNext, Returned

-----------------------------------------------------------------------------
THEOREM CompareInvariant == CompareSpec => []CompareInv
<1> QED BY CompareInvInit, CompareInvStep, PTL DEF CompareSpec

(* ssa_db_compare returns a difference whenever an option, a key or an     *)
(* exactly compared record changed, and none if there is no change: the    *)
(* answers of the tables do not overwrite or shift out each other.         *)
THEOREM ChangesArePushed == CompareSpec => []PushedIffChanged
<1>1. CompareInv => PushedIffChanged BY DEF CompareInv
<1> QED BY <1>1, CompareInvariant, PTL

(* ssa_db_diff_compare_subnet_opts loses no change of an option, and the   *)
(* first difference has them all.                                          *)
THEOREM OptionsReported == CompareSpec => []ChangesReported
<1>1. CompareInv => ChangesReported BY DEF CompareInv
<1> QED BY <1>1, CompareInvariant, PTL

(* Within a comparison every walk over a table has what SsaDiffProofs      *)
(* proves of one alone: what SsaCompare adds around it disturbs nothing.   *)
THEOREM EveryWalkExact ==
    CompareSpec => [](DiffExact /\ RecordsIntact /\ ConsumerCatchesUp
                        /\ FitsDifference /\ DirtyIffRecords)
<1>1. CompareInv => DiffExact /\ RecordsIntact /\ ConsumerCatchesUp
                      /\ FitsDifference /\ DirtyIffRecords
  BY WalkExact, WalkCatchesUp, WalkFits DEF CompareInv, WalkInv
<1> QED BY <1>1, CompareInvariant, PTL
=============================================================================
