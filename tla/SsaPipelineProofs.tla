------------------------- MODULE SsaPipelineProofs --------------------------
(***************************************************************************)
(* Proofs about SsaPipeline, for any set of reporters, keys and values and *)
(* any socket capacity.                                                    *)
(***************************************************************************)
EXTENDS SsaPipeline, FiniteSetTheorems, TLAPS

-----------------------------------------------------------------------------
(* Lists of LFT records.                                                   *)

(* The last record of a key is unique, so LastVal is its value.            *)
LEMMA LastValIsLast ==
    ASSUME NEW list \in Seq(LftRecs), NEW k, NEW i, IsLast(list, i, k)
    PROVE  /\ LastVal(list, k) = list[i].val
           /\ HasKey(list, k)
           /\ LastVal(list, k) \in LftVals
<1> DEFINE c == CHOOSE j \in 1..Len(list) : IsLast(list, j, k)
<1>1. i \in 1..Len(list) BY DEF IsLast
<1>2. c \in 1..Len(list) /\ IsLast(list, c, k) BY <1>1
<1>3. c = i
  <2>1. ~(i > c) BY <1>1, <1>2 DEF IsLast
  <2>2. ~(c > i) BY <1>1, <1>2 DEF IsLast
  <2> QED BY <2>1, <2>2, <1>1, <1>2
<1>4. list[i] \in LftRecs BY <1>1
<1> QED BY <1>1, <1>3, <1>4 DEF LastVal, HasKey, IsLast, LftRecs

(* A record appended becomes the last one of its key and leaves the last   *)
(* one of every other key.                                                 *)
LEMMA AppendLast ==
    ASSUME NEW list \in Seq(LftRecs), NEW rec \in LftRecs
    PROVE  /\ IsLast(Append(list, rec), Len(list) + 1, rec.key)
           /\ \A k : k # rec.key =>
                /\ HasKey(Append(list, rec), k) <=> HasKey(list, k)
                /\ \A i : IsLast(Append(list, rec), i, k) <=> IsLast(list, i, k)
<1> DEFINE new == Append(list, rec)
<1>1. /\ Len(new) = Len(list) + 1
      /\ Len(list) \in Nat
      /\ new[Len(list) + 1] = rec
      /\ \A i \in 1..Len(list) : new[i] = list[i]
  OBVIOUS
<1> HIDE DEF new
<1>2. IsLast(new, Len(list) + 1, rec.key) BY <1>1 DEF IsLast
<1>3. ASSUME NEW k, k # rec.key
      PROVE  /\ HasKey(new, k) <=> HasKey(list, k)
             /\ \A i : IsLast(new, i, k) <=> IsLast(list, i, k)
  <2>1. HasKey(new, k) => HasKey(list, k) BY <1>1, <1>3 DEF HasKey
  <2>2. HasKey(list, k) => HasKey(new, k) BY <1>1 DEF HasKey
  <2>3. ASSUME NEW i, IsLast(new, i, k) PROVE IsLast(list, i, k)
    BY <2>3, <1>1, <1>3 DEF IsLast
  <2>4. ASSUME NEW i, IsLast(list, i, k) PROVE IsLast(new, i, k)
    BY <2>4, <1>1, <1>3 DEF IsLast
  <2> QED BY <2>1, <2>2, <2>3, <2>4
<1> QED BY <1>2, <1>3 DEF new

-----------------------------------------------------------------------------
(* Type correctness needs to know that a reporter carries a real record,   *)
(* which it has because no other event of its key is in flight, and that   *)
(* the list is one in which last records exist.                            *)

RepInv ==
    \A r \in Reporters :
        rep[r].pc \in {"copy", "insert"} =>
            /\ rep[r].key \in LftKeys
            /\ sw_lft[rep[r].key] \in LftVals
            /\ (rep[r].pc = "insert" \/ rep[r].key \in Tops) => rep[r].val = sw_lft[rep[r].key]

RepUnique ==
    \A r, q \in Reporters :
        (/\ rep[r].pc \in {"copy", "insert"}
         /\ rep[q].pc \in {"copy", "insert"}
         /\ r # q) => rep[r].key # rep[q].key

ListInv == \A k \in LftKeys :
    HasKey(lft_rec_list, k) => \E i : IsLast(lft_rec_list, i, k)

TypeInv == TypeOK /\ RepInv /\ RepUnique /\ ListInv

LEMMA TypeInit == Init => TypeInv
<1> SUFFICES ASSUME Init PROVE TypeInv OBVIOUS
<1> USE ConstAssumption
<1>1. TypeOK
  <2>1. EmptyDb \in Dbs /\ NoRecs \in Tables BY DEF EmptyDb, Dbs, NoRecs, Tables
  <2>2. NoLft \in LftTables BY DEF NoLft, LftTables
  <2>3. rep \in [Reporters -> Calls] BY DEF Init, Idle, Calls
  <2>4. lft_rec_list \in Seq(LftRecs) /\ ctrl \in Seq(Msgs) BY DEF Init
  <2>5. 0 \in 0..MaxChanges /\ 0 \in 0..MaxLftChanges /\ 0 \in 0..MaxUps OBVIOUS
  <2> QED BY <2>1, <2>2, <2>3, <2>4, <2>5 DEF Init, TypeOK
<1>2. RepInv /\ RepUnique BY DEF Init, RepInv, RepUnique, Idle
<1>3. ListInv BY DEF Init, ListInv, HasKey
<1> QED BY <1>1, <1>2, <1>3 DEF TypeInv

(* What an action leaves alone keeps its type.                             *)
LEMMA TypeStep == TypeInv /\ [Next]_vars => TypeInv'
<1> SUFFICES ASSUME TypeInv, [Next]_vars PROVE TypeInv' OBVIOUS
<1> USE ConstAssumption
<1> USE DEF TypeInv, envVars, chanVars, dbVars, ghostVars, aheadVars, bounds
<1>1. CASE FabricChange
  <2>1. fabric' \in Fabrics
    <3>1. CASE \E k \in Keys, v \in Vals \cup {None} : fabric' = [fabric EXCEPT !.recs[k] = v]
      <4>1. PICK k \in Keys, v \in Vals \cup {None} : fabric' = [fabric EXCEPT !.recs[k] = v]
        BY <3>1
      <4>2. [fabric.recs EXCEPT ![k] = v] \in Tables BY DEF TypeOK, Fabrics, Tables
      <4> QED BY <4>1, <4>2 DEF TypeOK, Fabrics
    <3>2. CASE \E o \in Opts : fabric' = [fabric EXCEPT !.opts = o]
      BY <3>2 DEF TypeOK, Fabrics
    <3> QED BY <1>1, <3>1, <3>2 DEF FabricChange
  <2>2. TypeOK' BY <1>1, <2>1 DEF FabricChange, TypeOK
  <2> QED BY <1>1, <2>2 DEF FabricChange, RepInv, RepUnique, ListInv
<1>2. ASSUME NEW r \in Reporters, LftChange(r) PROVE TypeInv'
  <2>1. PICK k \in LftKeys \ InFlight, v \in LftVals :
          /\ sw_lft' = [sw_lft EXCEPT ![k] = v]
          /\ rep' = [rep EXCEPT ![r] = [pc |-> "copy", key |-> k,
                                        val |-> IF k \in Tops THEN v ELSE None]]
          /\ lftAhead' = lftAhead \cup {k}
    BY <1>2 DEF LftChange
  <2>2. TypeOK' BY <1>2, <2>1 DEF LftChange, TypeOK, Calls
  <2>3. \A q \in Reporters : rep[q].pc \in {"copy", "insert"} => rep[q].key # k
    BY <2>1 DEF InFlight
  <2>4. RepInv' BY <2>1, <2>3 DEF RepInv, TypeOK
  <2>5. RepUnique' BY <2>1, <2>3 DEF RepUnique, TypeOK
  <2>6. ListInv' BY <1>2 DEF LftChange, ListInv
  <2> QED BY <2>2, <2>4, <2>5, <2>6
<1>3. ASSUME NEW r \in Reporters, SubnetUp(r) PROVE TypeInv'
  <2>1. InFlight \subseteq LftKeys BY DEF InFlight, RepInv
  <2>2. rep' = rep \/ rep' = [rep EXCEPT ![r].pc = "up_write"] BY <1>3 DEF SubnetUp
  <2>3. rep' \in [Reporters -> Calls]
    <3>1. rep \in [Reporters -> Calls] BY DEF TypeOK
    <3>2. [rep[r] EXCEPT !.pc = "up_write"] \in Calls BY <3>1 DEF Calls
    <3> QED BY <2>2, <3>1, <3>2
  <2>4. lftAhead' \subseteq LftKeys /\ fabricAhead' \in BOOLEAN
    BY <1>3, <2>1 DEF SubnetUp, TypeOK
  <2>5. ups' \in 0..MaxUps BY <1>3 DEF SubnetUp, TypeOK
  <2>6. TypeOK' BY <1>3, <2>3, <2>4, <2>5 DEF SubnetUp, TypeOK
  <2>7. \A q \in Reporters : rep'[q].pc \in {"copy", "insert"} => rep'[q] = rep[q]
    BY <2>2 DEF TypeOK, Calls
  <2>8. RepInv' /\ RepUnique' BY <1>3, <2>7 DEF SubnetUp, RepInv, RepUnique
  <2> QED BY <1>3, <2>6, <2>8 DEF SubnetUp, ListInv
<1>4. CASE Destroy
  BY <1>4 DEF Destroy, TypeOK, RepInv, RepUnique, ListInv
<1>5. ASSUME NEW r \in Reporters, ReportCopy(r) PROVE TypeInv'
  <2>1. rep[r].pc = "copy" /\ rep[r].key \in LftKeys BY <1>5 DEF ReportCopy, RepInv
  <2>2. sw_lft[rep[r].key] \in LftVals BY <2>1 DEF RepInv
  <2>3. TypeOK'
    <3> DEFINE val == IF rep[r].key \in Tops THEN rep[r].val ELSE sw_lft[rep[r].key]
    <3>1. val \in LftVals BY <2>1, <2>2 DEF RepInv
    <3>2. rep' = [rep EXCEPT ![r].pc = "insert", ![r].val = val] BY <1>5 DEF ReportCopy
    <3> HIDE DEF val
    <3>3. rep' \in [Reporters -> Calls]
      <4>1. rep \in [Reporters -> Calls] BY DEF TypeOK
      <4>2. [rep[r] EXCEPT !.pc = "insert", !.val = val] \in Calls BY <3>1, <4>1 DEF Calls
      <4> QED BY <3>2, <4>1, <4>2
    <3> QED BY <1>5, <3>3 DEF ReportCopy, TypeOK
  <2>4. RepInv' BY <1>5, <2>1, <2>2 DEF ReportCopy, RepInv, TypeOK
  <2>5. RepUnique' BY <1>5, <2>1 DEF ReportCopy, RepUnique, TypeOK
  <2> QED BY <1>5, <2>3, <2>4, <2>5 DEF ReportCopy, ListInv
<1>6. ASSUME NEW r \in Reporters, ReportInsert(r) PROVE TypeInv'
  <2> DEFINE rec == [key |-> rep[r].key, val |-> rep[r].val]
  <2>1. rec \in LftRecs BY <1>6 DEF ReportInsert, RepInv, LftRecs
  <2>2. lft_rec_list' = Append(lft_rec_list, rec) BY <1>6 DEF ReportInsert
  <2>3. TypeOK' BY <1>6, <2>1, <2>2 DEF ReportInsert, TypeOK, Idle, Calls
  <2>4. RepInv' /\ RepUnique' BY <1>6 DEF ReportInsert, RepInv, RepUnique, TypeOK, Idle
  <2>5. ListInv'
    <3> SUFFICES ASSUME NEW k \in LftKeys, HasKey(lft_rec_list', k)
                 PROVE  \E i : IsLast(lft_rec_list', i, k)
      BY DEF ListInv
    <3>1. lft_rec_list \in Seq(LftRecs) BY DEF TypeOK
    <3>2. CASE k = rec.key BY <2>1, <2>2, <3>1, <3>2, AppendLast
    <3>3. CASE k # rec.key BY <2>1, <2>2, <3>1, <3>3, AppendLast DEF ListInv
    <3> QED BY <3>2, <3>3
  <2> QED BY <2>3, <2>4, <2>5
<1>7. ASSUME NEW r \in Reporters, ReportWrite(r) PROVE TypeInv'
  <2>1. TypeOK' BY <1>7 DEF ReportWrite, CtrlWrite, TypeOK, Idle, Calls, Msgs
  <2>2. RepInv' /\ RepUnique' BY <1>7 DEF ReportWrite, RepInv, RepUnique, TypeOK, Idle
  <2> QED BY <1>7, <2>1, <2>2 DEF ReportWrite, ListInv
<1>8. CASE DestroyWrite
  BY <1>8 DEF DestroyWrite, CtrlWrite, TypeOK, Msgs, RepInv, RepUnique, ListInv
<1>9. CASE DestroyJoin
  BY <1>9 DEF DestroyJoin, TypeOK, RepInv, RepUnique, ListInv
<1>10. CASE WorkerRead
  <2>1. /\ Head(ctrl) \in Msgs
        /\ Tail(ctrl) \in Seq(Msgs)
    BY <1>10 DEF WorkerRead, TypeOK
  <2>2. wpc' \in {"acquire", "lft", "exited"} BY <1>10, <2>1 DEF WorkerRead, Msgs
  <2>3. TypeOK' BY <1>10, <2>1, <2>2 DEF WorkerRead, TypeOK
  <2> QED BY <1>10, <2>3 DEF WorkerRead, RepInv, RepUnique, ListInv
<1>11. CASE WorkerAcquire
  BY <1>11 DEF WorkerAcquire, TypeOK, RepInv, RepUnique, ListInv
<1>12. CASE WorkerExtract
  <2>1. dumpDb' \in Dbs BY <1>12 DEF WorkerExtract, TypeOK, Fabrics, Dbs
  <2>2. FullLft \in LftTables BY DEF FullLft, TypeOK, LftTables
  <2>3. db_lft' \in LftTables BY <1>12, <2>2 DEF WorkerExtract, TypeOK
  <2>4. TypeOK' BY <1>12, <2>1, <2>3 DEF WorkerExtract, TypeOK
  <2> QED BY <1>12, <2>4 DEF WorkerExtract, RepInv, RepUnique, ListInv
<1>13. CASE WorkerDrain
  <2>1. lft_rec_list \in Seq(LftRecs) BY DEF TypeOK
  <2>2. ASSUME NEW k \in LftKeys, HasKey(lft_rec_list, k)
        PROVE  LastVal(lft_rec_list, k) \in LftVals
    BY <2>1, <2>2, LastValIsLast DEF ListInv
  <2>3. dump_lft' \in LftTables
    BY <1>13, <2>2 DEF WorkerDrain, LftHandle, TypeOK, LftTables
  <2>4. TypeOK' BY <1>13, <2>3 DEF WorkerDrain, LftHandle, TypeOK
  <2>5. ListInv' BY <1>13 DEF WorkerDrain, LftHandle, ListInv, HasKey
  <2> QED BY <1>13, <2>4, <2>5 DEF WorkerDrain, RepInv, RepUnique
<1>14. CASE WorkerRelease
  BY <1>14 DEF WorkerRelease, TypeOK, RepInv, RepUnique, ListInv
<1>15. CASE WorkerUpdate
  <2>1. EmptyDb \in Dbs BY DEF EmptyDb, Dbs, NoRecs, Tables
  <2>2. TypeOK' BY <1>15, <2>1 DEF WorkerUpdate, TypeOK
  <2> QED BY <1>15, <2>2 DEF WorkerUpdate, RepInv, RepUnique, ListInv
<1>16. CASE WorkerCompare
  <2>1. NoLft \in LftTables BY DEF NoLft, LftTables
  <2>2. ASSUME NEW d \in LftTables, NEW c \in LftTables PROVE QmapCopy(d, c) \in LftTables
    BY DEF QmapCopy, LftTables
  <2>3. db_lft' \in LftTables /\ dump_lft' \in LftTables
    BY <1>16, <2>1, <2>2 DEF WorkerCompare, TypeOK
  <2>4. ASSUME NEW m PROVE ApplyDiff(m) \in Tables BY DEF ApplyDiff, TypeOK, Dbs, Tables
  <2>5. replica' \in Tables /\ replica_lft' \in LftTables
    BY <1>16, <2>2, <2>4 DEF WorkerCompare, TypeOK
  <2>6. TypeOK' BY <1>16, <2>3, <2>5 DEF WorkerCompare, TypeOK
  <2> QED BY <1>16, <2>6 DEF WorkerCompare, RepInv, RepUnique, ListInv
<1>17. CASE UNCHANGED vars
  BY <1>17 DEF vars, TypeOK, RepInv, RepUnique, ListInv
<1> QED
  BY <1>1, <1>2, <1>3, <1>4, <1>5, <1>6, <1>7, <1>8, <1>9, <1>10, <1>11, <1>12, <1>13,
     <1>14, <1>15, <1>16, <1>17
  DEF Next, OpenSM, Report, Worker, Destroying, Terminated

(* Every variable keeps its type.                                          *)
THEOREM TypeCorrect == Spec => []TypeOK
<1>1. Spec => []TypeInv BY TypeInit, TypeStep, PTL DEF Spec
<1>2. TypeInv => TypeOK BY DEF TypeInv
<1> QED BY <1>1, <1>2, PTL

-----------------------------------------------------------------------------
(* Messages, wakeups and the end of the worker.                            *)

(* OpenSM calls destroy() alone, so EXIT is the last message ever written. *)
ExitInv ==
    /\ dpc # "running" => \A r \in Reporters : rep[r].pc = "idle"
    /\ dpc \in {"running", "exit"} => wpc # "exited" /\ ~Queued({"EXIT"})
    /\ \A i \in 1..Len(ctrl) : ctrl[i] = "EXIT" => i = Len(ctrl)

WakeInv == ExitInv /\ NoLostWakeup /\ CleanExit

(* What appending a message to the socket does.                            *)
LEMMA AppendMsg ==
    ASSUME TypeOK, NEW m \in Msgs, CtrlWrite(m)
    PROVE  /\ Len(ctrl') = Len(ctrl) + 1
           /\ ctrl'[Len(ctrl) + 1] = m
           /\ \A i \in 1..Len(ctrl) : ctrl'[i] = ctrl[i]
           /\ \A ms : Queued(ms)' <=> Queued(ms) \/ m \in ms
<1>1. ctrl \in Seq(Msgs) /\ ctrl' = Append(ctrl, m) BY DEF TypeOK, CtrlWrite
<1>2. /\ Len(ctrl') = Len(ctrl) + 1
      /\ Len(ctrl) \in Nat
      /\ ctrl'[Len(ctrl) + 1] = m
      /\ \A i \in 1..Len(ctrl) : ctrl'[i] = ctrl[i]
  BY <1>1
<1>3. ASSUME NEW ms PROVE Queued(ms)' <=> Queued(ms) \/ m \in ms
  BY <1>2 DEF Queued
<1> QED BY <1>2, <1>3

(* What taking the first message from the socket does.                     *)
LEMMA TakeMsg ==
    ASSUME TypeOK, ctrl # <<>>, ctrl' = Tail(ctrl)
    PROVE  /\ Head(ctrl) = ctrl[1]
           /\ Len(ctrl) \in Nat \ {0}
           /\ Len(ctrl') = Len(ctrl) - 1
           /\ \A i \in 1..Len(ctrl') : ctrl'[i] = ctrl[i + 1]
           /\ \A ms : Queued(ms) <=> Queued(ms)' \/ Head(ctrl) \in ms
<1>1. ctrl \in Seq(Msgs) BY DEF TypeOK
<1>2. /\ Head(ctrl) = ctrl[1]
      /\ Len(ctrl) \in Nat \ {0}
      /\ Len(ctrl') = Len(ctrl) - 1
      /\ \A i \in 1..Len(ctrl') : ctrl'[i] = ctrl[i + 1]
  BY <1>1
<1>3. ASSUME NEW ms PROVE Queued(ms) <=> Queued(ms)' \/ Head(ctrl) \in ms
  <2>1. ASSUME NEW i \in 1..Len(ctrl), ctrl[i] \in ms, i # 1
        PROVE  i - 1 \in 1..Len(ctrl') /\ ctrl'[i - 1] \in ms
    BY <2>1, <1>2
  <2>2. ASSUME NEW i \in 1..Len(ctrl'), ctrl'[i] \in ms
        PROVE  i + 1 \in 1..Len(ctrl) /\ ctrl[i + 1] \in ms
    BY <2>2, <1>2
  <2>3. 1 \in 1..Len(ctrl) BY <1>2
  <2>4. Queued(ms) => Queued(ms)' \/ Head(ctrl) \in ms BY <1>2, <2>1 DEF Queued
  <2>5. Queued(ms)' => Queued(ms) BY <2>2 DEF Queued
  <2>6. Head(ctrl) \in ms => Queued(ms) BY <1>2, <2>3 DEF Queued
  <2> QED BY <2>4, <2>5, <2>6
<1> QED BY <1>2, <1>3

LEMMA WakeStep == TypeInv /\ WakeInv /\ [Next]_vars => WakeInv'
<1> SUFFICES ASSUME TypeInv, WakeInv, [Next]_vars PROVE WakeInv' OBVIOUS
<1> USE DEF WakeInv, ExitInv, NoLostWakeup, CleanExit, ReporterAt,
            envVars, chanVars, dbVars, ghostVars, aheadVars, bounds
<1>t. TypeOK BY DEF TypeInv
<1>1. CASE FabricChange BY <1>1 DEF FabricChange, Queued
<1>2. ASSUME NEW r \in Reporters, LftChange(r) PROVE WakeInv'
  <2>1. \A q \in Reporters : rep[q].pc = "lft_write" => rep'[q] = rep[q]
    BY <1>2, <1>t DEF LftChange, TypeOK
  <2> QED BY <1>2, <2>1 DEF LftChange, Queued
<1>3. ASSUME NEW r \in Reporters, SubnetUp(r) PROVE WakeInv'
  <2>1. \A q \in Reporters : rep[q].pc = "lft_write" => rep'[q] = rep[q]
    BY <1>3, <1>t DEF SubnetUp, TypeOK
  <2> QED BY <1>3, <2>1 DEF SubnetUp, Queued
<1>4. CASE Destroy BY <1>4 DEF Destroy, Queued
<1>5. ASSUME NEW r \in Reporters, ReportCopy(r) PROVE WakeInv'
  <2>1. \A q \in Reporters : rep[q].pc = "lft_write" => rep'[q] = rep[q]
    BY <1>5, <1>t DEF ReportCopy, TypeOK
  <2> QED BY <1>5, <2>1 DEF ReportCopy, Queued
<1>6. ASSUME NEW r \in Reporters, ReportInsert(r) PROVE WakeInv'
  <2>1. rep'[r].pc = "lft_write" BY <1>6, <1>t DEF ReportInsert, TypeOK, Idle
  <2> QED BY <1>6, <2>1 DEF ReportInsert, Queued
<1>7. ASSUME NEW r \in Reporters, ReportWrite(r) PROVE WakeInv'
  <2> DEFINE m == IF rep[r].pc = "lft_write" THEN "LFT_CHANGE" ELSE "START_EXTRACT"
  <2>1. m \in Msgs /\ m # "EXIT" /\ CtrlWrite(m) BY <1>7 DEF ReportWrite, Msgs
  <2>2. /\ Len(ctrl') = Len(ctrl) + 1
        /\ ctrl'[Len(ctrl) + 1] = m
        /\ \A i \in 1..Len(ctrl) : ctrl'[i] = ctrl[i]
        /\ \A ms : Queued(ms)' <=> Queued(ms) \/ m \in ms
    BY <2>1, <1>t, AppendMsg
  <2> HIDE DEF m
  <2>3. dpc = "running" /\ wpc' = wpc /\ dpc' = dpc /\ wpc # "exited"
    BY <1>7 DEF ReportWrite
  <2>4. Queued({"LFT_CHANGE", "START_EXTRACT"})' BY <2>2 DEF m
  <2>5. ~Queued({"EXIT"})' BY <2>1, <2>2, <2>3
  <2>6. \A i \in 1..Len(ctrl') : ctrl'[i] = "EXIT" => i = Len(ctrl') BY <2>5 DEF Queued
  <2> QED BY <2>3, <2>4, <2>5, <2>6
<1>8. CASE DestroyWrite
  <2>1. /\ Len(ctrl') = Len(ctrl) + 1
        /\ Len(ctrl) \in Nat
        /\ \A i \in 1..Len(ctrl) : ctrl'[i] = ctrl[i]
        /\ \A ms : Queued(ms)' <=> Queued(ms) \/ "EXIT" \in ms
    BY <1>8, <1>t, AppendMsg DEF DestroyWrite, Msgs, TypeOK
  <2>2. \A i \in 1..Len(ctrl') : ctrl'[i] = "EXIT" => i = Len(ctrl')
    <3>1. ~Queued({"EXIT"}) BY <1>8 DEF DestroyWrite
    <3> QED BY <2>1, <3>1 DEF Queued
  <2>3. dpc = "exit" /\ dpc' = "join" /\ wpc # "exited" /\ wpc' = wpc
        /\ rep' = rep /\ lft_rec_list' = lft_rec_list
    BY <1>8 DEF DestroyWrite
  <2> QED BY <2>1, <2>2, <2>3
<1>9. CASE DestroyJoin BY <1>9 DEF DestroyJoin, Queued
<1>10. CASE WorkerRead
  <2>1. /\ Head(ctrl) = ctrl[1]
        /\ Len(ctrl) \in Nat \ {0}
        /\ Len(ctrl') = Len(ctrl) - 1
        /\ \A i \in 1..Len(ctrl') : ctrl'[i] = ctrl[i + 1]
        /\ \A ms : Queued(ms) <=> Queued(ms)' \/ Head(ctrl) \in ms
    BY <1>10, <1>t, TakeMsg DEF WorkerRead
  <2>2. Head(ctrl) \in Msgs BY <1>10, <1>t DEF WorkerRead, TypeOK
  <2>3. /\ rep' = rep /\ dpc' = dpc /\ lft_rec_list' = lft_rec_list /\ wpc = "poll"
        /\ Head(ctrl) = "START_EXTRACT" => wpc' = "acquire"
        /\ Head(ctrl) = "LFT_CHANGE" => wpc' = "lft"
        /\ Head(ctrl) = "EXIT" => wpc' = "exited"
    BY <1>10 DEF WorkerRead
  <2>4. \A i \in 1..Len(ctrl') : ctrl'[i] = "EXIT" => i = Len(ctrl') BY <2>1
  <2>5. NoLostWakeup' BY <2>1, <2>2, <2>3 DEF Msgs
  <2>6. CASE Head(ctrl) = "EXIT"
    <3>1. Len(ctrl) = 1 BY <2>1, <2>6
    <3>2. ctrl' = <<>> BY <1>10, <1>t, <3>1 DEF WorkerRead, TypeOK
    <3>3. ~Queued({"LFT_CHANGE", "START_EXTRACT"}) BY <2>1, <2>6, <3>1 DEF Queued
    <3>4. Queued({"EXIT"}) BY <2>1, <2>6, <3>1 DEF Queued
    <3>5. dpc \notin {"running", "exit"} BY <3>4
    <3>6. lft_rec_list = <<>> BY <2>3, <3>3, <3>5
    <3>7. ~Queued({"EXIT"})' BY <3>2 DEF Queued
    <3> QED BY <2>3, <2>4, <2>5, <3>2, <3>5, <3>6, <3>7
  <2>7. CASE Head(ctrl) # "EXIT"
    <3>1. wpc' # "exited" BY <2>2, <2>3, <2>7 DEF Msgs
    <3>2. Queued({"EXIT"})' => Queued({"EXIT"}) BY <2>1
    <3> QED BY <2>3, <2>4, <2>5, <3>1, <3>2
  <2> QED BY <2>6, <2>7
<1>11. CASE WorkerAcquire BY <1>11 DEF WorkerAcquire, Queued
<1>12. CASE WorkerExtract BY <1>12 DEF WorkerExtract, Queued
<1>13. CASE WorkerDrain BY <1>13 DEF WorkerDrain, LftHandle, Queued
<1>14. CASE WorkerRelease BY <1>14 DEF WorkerRelease, Queued
<1>15. CASE WorkerUpdate BY <1>15 DEF WorkerUpdate, Queued
<1>16. CASE WorkerCompare BY <1>16 DEF WorkerCompare, Queued
<1>17. CASE UNCHANGED vars BY <1>17 DEF vars, Queued
<1> QED
  BY <1>1, <1>2, <1>3, <1>4, <1>5, <1>6, <1>7, <1>8, <1>9, <1>10, <1>11, <1>12, <1>13,
     <1>14, <1>15, <1>16, <1>17
  DEF Next, OpenSM, Report, Worker, Destroying, Terminated

LEMMA WakeAlways == Spec => [](TypeInv /\ WakeInv)
<1>1. Init => TypeInv /\ WakeInv
  BY TypeInit DEF Init, WakeInv, ExitInv, NoLostWakeup, CleanExit, Queued, Idle
<1>2. TypeInv /\ WakeInv /\ [Next]_vars => (TypeInv /\ WakeInv)'
  BY TypeStep, WakeStep
<1> QED BY <1>1, <1>2, PTL DEF Spec

(* A record in the list always has its drain to come.                      *)
THEOREM NeverLostWakeup == Spec => []NoLostWakeup
<1>1. WakeInv => NoLostWakeup BY DEF WakeInv
<1> QED BY <1>1, WakeAlways, PTL

(* The worker leaves no message and no record behind.                      *)
THEOREM AlwaysCleanExit == Spec => []CleanExit
<1>1. WakeInv => CleanExit BY DEF WakeInv
<1> QED BY <1>1, WakeAlways, PTL

-----------------------------------------------------------------------------
(* LFT records.                                                            *)

(* Who has the OpenSM lock: the worker from the extraction to the release, *)
(* or, when events are reported under it, the reporter of an LFT change.   *)
LockInv ==
    /\ osm_lock = "worker" <=> wpc \in {"extract", "drain", "release"}
    /\ \A r \in Reporters :
         (ReportLocked /\ rep[r].pc \in {"copy", "insert", "lft_write"}) => osm_lock = r

LftInv == LockInv /\ LftCoherent

(* An action that leaves the records and the switches alone, and puts no   *)
(* key among those not in flight, keeps LftCoherent.                       *)
LEMMA CoherentFrame ==
    ASSUME LftCoherent,
           UNCHANGED <<lft_rec_list, dump_lft, db_lft, sw_lft>>,
           LftLoaded' => LftLoaded,
           InFlight \subseteq InFlight'
    PROVE  LftCoherent'
BY DEF LftCoherent, Coherent, Newest

LEMMA LockStep == TypeInv /\ LockInv /\ [Next]_vars => LockInv'
<1> SUFFICES ASSUME TypeInv, LockInv, [Next]_vars PROVE LockInv' OBVIOUS
<1> USE ConstAssumption
<1> USE DEF LockInv, envVars, chanVars, dbVars, ghostVars, aheadVars, bounds
<1>t. TypeOK BY DEF TypeInv
<1>1. CASE FabricChange BY <1>1 DEF FabricChange
<1>2. ASSUME NEW r \in Reporters, LftChange(r) PROVE LockInv'
  <2>1. /\ osm_lock = "free" /\ wpc' = wpc
        /\ osm_lock' = IF ReportLocked THEN r ELSE "free"
        /\ rep'[r].pc = "copy"
        /\ \A q \in Reporters \ {r} : rep'[q] = rep[q]
    BY <1>2, <1>t DEF LftChange, TypeOK
  <2> QED BY <2>1
<1>3. ASSUME NEW r \in Reporters, SubnetUp(r) PROVE LockInv'
  <2>1. \A q \in Reporters : rep'[q].pc \in {"copy", "insert", "lft_write"} => rep'[q] = rep[q]
    BY <1>3, <1>t DEF SubnetUp, TypeOK, Calls
  <2> QED BY <1>3, <2>1 DEF SubnetUp
<1>4. CASE Destroy BY <1>4 DEF Destroy
<1>5. ASSUME NEW r \in Reporters, ReportCopy(r) PROVE LockInv'
  <2>1. /\ rep[r].pc = "copy" /\ \A q \in Reporters \ {r} : rep'[q] = rep[q]
    BY <1>5, <1>t DEF ReportCopy, TypeOK
  <2> QED BY <1>5, <2>1 DEF ReportCopy
<1>6. ASSUME NEW r \in Reporters, ReportInsert(r) PROVE LockInv'
  <2>1. /\ rep[r].pc = "insert" /\ \A q \in Reporters \ {r} : rep'[q] = rep[q]
    BY <1>6, <1>t DEF ReportInsert, TypeOK
  <2> QED BY <1>6, <2>1 DEF ReportInsert
<1>7. ASSUME NEW r \in Reporters, ReportWrite(r) PROVE LockInv'
  <2>1. rep'[r].pc = "idle" /\ \A q \in Reporters \ {r} : rep'[q] = rep[q]
    BY <1>7, <1>t DEF ReportWrite, TypeOK, Idle
  <2>2. wpc' = wpc /\ osm_lock' = IF osm_lock = r THEN "free" ELSE osm_lock
    BY <1>7 DEF ReportWrite
  <2> QED BY <2>1, <2>2
<1>8. CASE DestroyWrite BY <1>8 DEF DestroyWrite
<1>9. CASE DestroyJoin BY <1>9 DEF DestroyJoin
<1>10. CASE WorkerRead
  <2>1. Head(ctrl) \in Msgs BY <1>10, <1>t DEF WorkerRead, TypeOK
  <2>2. wpc' \in {"acquire", "lft", "exited"} BY <1>10, <2>1 DEF WorkerRead, Msgs
  <2> QED BY <1>10, <2>2 DEF WorkerRead
<1>11. CASE WorkerAcquire BY <1>11 DEF WorkerAcquire
<1>12. CASE WorkerExtract BY <1>12 DEF WorkerExtract
<1>13. CASE WorkerDrain BY <1>13 DEF WorkerDrain
<1>14. CASE WorkerRelease BY <1>14 DEF WorkerRelease
<1>15. CASE WorkerUpdate BY <1>15 DEF WorkerUpdate
<1>16. CASE WorkerCompare BY <1>16 DEF WorkerCompare
<1>17. CASE UNCHANGED vars BY <1>17 DEF vars
<1> QED
  BY <1>1, <1>2, <1>3, <1>4, <1>5, <1>6, <1>7, <1>8, <1>9, <1>10, <1>11, <1>12, <1>13,
     <1>14, <1>15, <1>16, <1>17
  DEF Next, OpenSM, Report, Worker, Destroying, Terminated

LEMMA CoherentStep == TypeInv /\ LftCoherent /\ [Next]_vars => LftCoherent'
<1> SUFFICES ASSUME TypeInv, LftCoherent, [Next]_vars PROVE LftCoherent' OBVIOUS
<1> USE ConstAssumption
<1> USE DEF envVars, chanVars, dbVars, ghostVars, aheadVars, bounds
<1>t. TypeOK BY DEF TypeInv
<1>1. CASE FabricChange BY <1>1, CoherentFrame DEF FabricChange, InFlight, LftLoaded
<1>2. ASSUME NEW r \in Reporters, LftChange(r) PROVE LftCoherent'
  <2>1. PICK k \in LftKeys \ InFlight, v \in LftVals :
          /\ sw_lft' = [sw_lft EXCEPT ![k] = v]
          /\ rep' = [rep EXCEPT ![r] = [pc |-> "copy", key |-> k,
                                        val |-> IF k \in Tops THEN v ELSE None]]
    BY <1>2 DEF LftChange
  <2>2. InFlight' = InFlight \cup {k}
    <3>1. rep'[r].pc = "copy" /\ rep'[r].key = k /\ rep[r].pc = "idle"
      BY <1>2, <2>1, <1>t DEF LftChange, TypeOK
    <3>2. \A q \in Reporters \ {r} : rep'[q] = rep[q] BY <2>1, <1>t DEF TypeOK
    <3> QED BY <3>1, <3>2 DEF InFlight
  <2>3. \A j \in LftKeys : j # k => sw_lft'[j] = sw_lft[j] BY <2>1, <1>t DEF TypeOK
  <2>4. UNCHANGED <<lft_rec_list, dump_lft, db_lft, wpc, first>> BY <1>2 DEF LftChange
  <2> QED BY <2>2, <2>3, <2>4 DEF LftCoherent, Coherent, Newest, LftLoaded
<1>3. ASSUME NEW r \in Reporters, SubnetUp(r) PROVE LftCoherent'
  <2>1. \A q \in Reporters : rep[q].pc \in {"copy", "insert"} => rep'[q] = rep[q]
    BY <1>3, <1>t DEF SubnetUp, TypeOK
  <2>2. InFlight \subseteq InFlight' BY <2>1 DEF InFlight
  <2> QED BY <1>3, <2>2, CoherentFrame DEF SubnetUp, LftLoaded
<1>4. CASE Destroy BY <1>4, CoherentFrame DEF Destroy, InFlight, LftLoaded
<1>5. ASSUME NEW r \in Reporters, ReportCopy(r) PROVE LftCoherent'
  <2>1. /\ rep'[r].pc = "insert" /\ rep'[r].key = rep[r].key
        /\ \A q \in Reporters \ {r} : rep'[q] = rep[q]
    BY <1>5, <1>t DEF ReportCopy, TypeOK, Calls
  <2>2. InFlight \subseteq InFlight' BY <2>1 DEF InFlight
  <2> QED BY <1>5, <2>2, CoherentFrame DEF ReportCopy, LftLoaded
<1>6. ASSUME NEW r \in Reporters, ReportInsert(r) PROVE LftCoherent'
  <2> DEFINE rec == [key |-> rep[r].key, val |-> rep[r].val]
             new == Append(lft_rec_list, rec)
  <2>1. /\ rec \in LftRecs
        /\ rec.key = rep[r].key
        /\ rec.val = sw_lft[rep[r].key]
    BY <1>6 DEF ReportInsert, TypeInv, RepInv, LftRecs
  <2>2. lft_rec_list' = new /\ UNCHANGED <<dump_lft, db_lft, sw_lft, wpc, first>>
    BY <1>6 DEF ReportInsert
  <2>3. \A q \in Reporters \ {r} : rep'[q] = rep[q] BY <1>6, <1>t DEF ReportInsert, TypeOK
  <2>4. InFlight \subseteq InFlight' \cup {rec.key} BY <2>1, <2>3 DEF InFlight
  <2>5. lft_rec_list \in Seq(LftRecs) BY <1>t DEF TypeOK
  <2>6. new \in Seq(LftRecs) BY <2>1, <2>5
  <2>7. new[Len(lft_rec_list) + 1] = rec BY <2>1, <2>5
  <2>8. IsLast(new, Len(lft_rec_list) + 1, rec.key) BY <2>1, <2>5, AppendLast
  <2> HIDE DEF new, rec
  <2>9. HasKey(new, rec.key) /\ LastVal(new, rec.key) = rec.val
    BY <2>6, <2>7, <2>8, LastValIsLast
  <2>10. ASSUME NEW k, k = rec.key PROVE Coherent(k)'
    BY <2>1, <2>2, <2>9, <2>10 DEF Coherent, Newest
  <2>11. ASSUME NEW k \in LftKeys, k \notin InFlight', k # rec.key PROVE Coherent(k)'
    <3>1. Coherent(k) BY <2>4, <2>11 DEF LftCoherent
    <3>2. HasKey(new, k) <=> HasKey(lft_rec_list, k)
      BY <2>1, <2>5, <2>11, AppendLast DEF new
    <3>3. HasKey(new, k) => LastVal(new, k) = LastVal(lft_rec_list, k)
      <4> SUFFICES ASSUME HasKey(lft_rec_list, k)
                   PROVE  LastVal(new, k) = LastVal(lft_rec_list, k)
        BY <3>2
      <4>1. PICK i : IsLast(lft_rec_list, i, k) BY DEF TypeInv, ListInv
      <4>2. IsLast(new, i, k) BY <4>1, <2>1, <2>5, <2>11, AppendLast DEF new
      <4>3. new[i] = lft_rec_list[i] BY <4>1, <2>1, <2>5 DEF new, IsLast
      <4> QED BY <4>1, <4>2, <4>3, <2>5, <2>6, LastValIsLast
    <3>4. Newest(k)' = Newest(k) BY <2>2, <3>2, <3>3 DEF Newest
    <3> QED BY <2>2, <3>1, <3>4 DEF Coherent, LftLoaded
  <2> QED BY <2>10, <2>11 DEF LftCoherent
<1>7. ASSUME NEW r \in Reporters, ReportWrite(r) PROVE LftCoherent'
  <2>1. \A q \in Reporters : rep[q].pc \in {"copy", "insert"} => rep'[q] = rep[q]
    BY <1>7, <1>t DEF ReportWrite, TypeOK
  <2>2. InFlight \subseteq InFlight' BY <2>1 DEF InFlight
  <2> QED BY <1>7, <2>2, CoherentFrame DEF ReportWrite, LftLoaded
<1>8. CASE DestroyWrite BY <1>8, CoherentFrame DEF DestroyWrite, InFlight, LftLoaded
<1>9. CASE DestroyJoin BY <1>9, CoherentFrame DEF DestroyJoin, InFlight, LftLoaded
<1>10. CASE WorkerRead
  <2>1. Head(ctrl) \in Msgs BY <1>10, <1>t DEF WorkerRead, TypeOK
  <2>2. wpc' \in {"acquire", "lft", "exited"} BY <1>10, <2>1 DEF WorkerRead, Msgs
  <2> QED BY <1>10, <2>2, CoherentFrame DEF WorkerRead, InFlight, LftLoaded
<1>11. CASE WorkerAcquire BY <1>11, CoherentFrame DEF WorkerAcquire, InFlight, LftLoaded
<1>12. CASE WorkerExtract
  <2>1. /\ UNCHANGED <<lft_rec_list, dump_lft, sw_lft, rep, first>>
        /\ db_lft' = IF first THEN FullLft ELSE db_lft
        /\ wpc = "extract" /\ wpc' = "drain"
    BY <1>12 DEF WorkerExtract
  <2> SUFFICES ASSUME NEW k \in LftKeys \ InFlight PROVE Coherent(k)'
    BY <2>1 DEF LftCoherent, InFlight
  <2>2. Coherent(k) BY DEF LftCoherent
  <2>3. CASE ~first BY <2>1, <2>2, <2>3 DEF Coherent, Newest, LftLoaded
  <2>4. CASE first
    <3>1. CASE HasKey(lft_rec_list, k)
      <4>1. LastVal(lft_rec_list, k) \in LftVals
        BY <3>1, <1>t, LastValIsLast DEF TypeInv, ListInv, TypeOK
      <4> QED BY <2>1, <2>2, <3>1, <4>1 DEF Coherent, Newest
    <3>2. CASE ~HasKey(lft_rec_list, k) /\ dump_lft[k] # None
      BY <2>1, <2>2, <3>2 DEF Coherent, Newest
    <3>3. CASE ~HasKey(lft_rec_list, k) /\ dump_lft[k] = None
      <4>1. Newest(k)' = FullLft[k] BY <2>1, <2>4, <3>3 DEF Newest
      <4> QED BY <2>1, <4>1 DEF FullLft, Coherent
    <3> QED BY <3>1, <3>2, <3>3
  <2> QED BY <2>3, <2>4
<1>13. CASE WorkerDrain
  <2>1. /\ dump_lft' = [k \in LftKeys |-> IF HasKey(lft_rec_list, k)
                                          THEN LastVal(lft_rec_list, k) ELSE dump_lft[k]]
        /\ lft_rec_list' = <<>>
        /\ UNCHANGED <<db_lft, sw_lft, rep, first>>
        /\ wpc \in {"drain", "lft"}
        /\ wpc' = IF wpc = "drain" THEN "release" ELSE "poll"
    BY <1>13 DEF WorkerDrain, LftHandle
  <2> SUFFICES ASSUME NEW k \in LftKeys \ InFlight PROVE Coherent(k)'
    BY <2>1 DEF LftCoherent, InFlight
  <2>2. Coherent(k) BY DEF LftCoherent
  <2>3. HasKey(lft_rec_list, k) => LastVal(lft_rec_list, k) \in LftVals
    BY <1>t, LastValIsLast DEF TypeInv, ListInv, TypeOK
  <2>4. ~HasKey(lft_rec_list', k) BY <2>1 DEF HasKey
  <2>5. Newest(k)' = Newest(k) BY <2>1, <2>3, <2>4 DEF Newest
  <2> QED BY <2>1, <2>2, <2>5 DEF Coherent, LftLoaded
<1>14. CASE WorkerRelease BY <1>14, CoherentFrame DEF WorkerRelease, InFlight, LftLoaded
<1>15. CASE WorkerUpdate BY <1>15, CoherentFrame DEF WorkerUpdate, InFlight, LftLoaded
<1>16. CASE WorkerCompare
  <2>1. /\ UNCHANGED <<lft_rec_list, sw_lft, rep>>
        /\ first => UNCHANGED <<db_lft, dump_lft>>
        /\ ~first => db_lft' = QmapCopy(db_lft, dump_lft) /\ dump_lft' = NoLft
        /\ wpc = "compare"
    BY <1>16, <1>t DEF WorkerCompare, TypeOK
  <2> SUFFICES ASSUME NEW k \in LftKeys \ InFlight PROVE Coherent(k)'
    BY <2>1 DEF LftCoherent, InFlight
  <2>2. Coherent(k) /\ LftLoaded BY <2>1 DEF LftCoherent, LftLoaded
  <2>3. Newest(k)' = Newest(k) BY <2>1, <1>t DEF Newest, QmapCopy, NoLft, TypeOK
  <2> QED BY <2>1, <2>2, <2>3 DEF Coherent
<1>17. CASE UNCHANGED vars BY <1>17, CoherentFrame DEF vars, InFlight, LftLoaded
<1> QED
  BY <1>1, <1>2, <1>3, <1>4, <1>5, <1>6, <1>7, <1>8, <1>9, <1>10, <1>11, <1>12, <1>13,
     <1>14, <1>15, <1>16, <1>17
  DEF Next, OpenSM, Report, Worker, Destroying, Terminated

LEMMA LftAlways == Spec => [](TypeInv /\ LftInv)
<1>1. Init => TypeInv /\ LftInv
  <2> SUFFICES ASSUME Init PROVE LftInv BY TypeInit
  <2>1. LockInv BY DEF Init, LockInv, Idle
  <2>2. \A k \in LftKeys : Newest(k) = None
    BY DEF Init, Newest, HasKey, NoLft
  <2> QED BY <2>1, <2>2 DEF Init, LftInv, LftCoherent, Coherent, LftLoaded
<1>2. TypeInv /\ LftInv /\ [Next]_vars => (TypeInv /\ LftInv)'
  BY TypeStep, LockStep, CoherentStep DEF LftInv
<1> QED BY <1>1, <1>2, PTL DEF Spec

(* No LFT change is lost, overtaken or undone.                             *)
THEOREM AlwaysLftCoherent == Spec => []LftCoherent
<1>1. LftInv => LftCoherent BY DEF LftInv
<1> QED BY <1>1, LftAlways, PTL

(* When events are reported under the OpenSM lock, the extraction misses   *)
(* none of them.                                                           *)
THEOREM LockedExtraction == Spec => []LockedExtractionComplete
<1>1. TypeInv /\ LftInv => LockedExtractionComplete
  <2> SUFFICES ASSUME TypeInv, LockInv, LftCoherent, ReportLocked,
                      wpc \in {"extract", "drain", "release"}
               PROVE  osm_lock = "worker" /\ \A k \in LftKeys : Coherent(k)
    BY DEF LftInv, LockedExtractionComplete
  <2>1. osm_lock = "worker" BY DEF LockInv
  <2>2. InFlight = {} BY <2>1, ConstAssumption DEF LockInv, InFlight
  <2> QED BY <2>1, <2>2 DEF LftCoherent
<1> QED BY <1>1, LftAlways, PTL

-----------------------------------------------------------------------------
(* Deadlock.  Each accepted event is a thread in report(), then a message  *)
(* in the socket, then what the worker is at: together they are no more    *)
(* than the events there have been, and EXIT.                              *)

Pending == {r \in Reporters : rep[r].pc # "idle"}

Taken == IF wpc = "poll" THEN 0 ELSE 1
Exits == IF dpc \in {"join", "done"} THEN 1 ELSE 0

CountInv ==
    /\ IsFiniteSet(Pending)
    /\ Len(ctrl) <= QueueCap
    /\ Cardinality(Pending) + Len(ctrl) + Taken <= lftChanges + ups + Exits

(* A reporter has the lock on its way to the socket only, and destroy()    *)
(* waits for a worker that will read EXIT, or has.                         *)
HolderInv ==
    \A r \in Reporters :
        osm_lock = r => ReportLocked /\ rep[r].pc \in {"copy", "insert", "lft_write"}

JoinInv == dpc = "join" => Queued({"EXIT"}) \/ wpc = "exited"

StuckInv == CountInv /\ HolderInv /\ JoinInv

LEMMA PendingSteps ==
    ASSUME TypeOK, IsFiniteSet(Pending), NEW r \in Reporters, NEW c \in Calls,
           rep' = [rep EXCEPT ![r] = c]
    PROVE  /\ IsFiniteSet(Pending') /\ Cardinality(Pending) \in Nat
           /\ rep[r].pc = "idle" => Cardinality(Pending') <= Cardinality(Pending) + 1
           /\ rep[r].pc # "idle" /\ c.pc # "idle" => Pending' = Pending
           /\ rep[r].pc # "idle" /\ c.pc = "idle" =>
                Cardinality(Pending') = Cardinality(Pending) - 1
<1>1. /\ rep' \in [Reporters -> Calls] /\ rep'[r] = c
      /\ \A q \in Reporters \ {r} : rep'[q] = rep[q]
  BY DEF TypeOK
<1>2. c.pc # "idle" => Pending' = Pending \cup {r} BY <1>1 DEF Pending
<1>3. c.pc = "idle" => Pending' = Pending \ {r} BY <1>1 DEF Pending
<1>4. rep[r].pc = "idle" <=> r \notin Pending BY DEF Pending
<1>5. Cardinality(Pending) \in Nat BY FS_CardinalityType
<1>6. /\ IsFiniteSet(Pending \cup {r})
      /\ Cardinality(Pending \cup {r})
           = IF r \in Pending THEN Cardinality(Pending) ELSE Cardinality(Pending) + 1
  BY FS_AddElement
<1>7. /\ IsFiniteSet(Pending \ {r})
      /\ Cardinality(Pending \ {r})
           = IF r \in Pending THEN Cardinality(Pending) - 1 ELSE Cardinality(Pending)
  BY FS_RemoveElement
<1>8. r \in Pending => Pending \cup {r} = Pending OBVIOUS
<1>9. CASE c.pc # "idle"
  <2>1. Pending' = Pending \cup {r} BY <1>2, <1>9
  <2>2. IsFiniteSet(Pending') /\ Cardinality(Pending') <= Cardinality(Pending) + 1
    BY <1>5, <1>6, <2>1
  <2>3. rep[r].pc # "idle" => Pending' = Pending BY <1>4, <1>8, <2>1
  <2> QED BY <1>5, <1>9, <2>2, <2>3
<1>10. CASE c.pc = "idle"
  <2>1. Pending' = Pending \ {r} BY <1>3, <1>10
  <2>2. IsFiniteSet(Pending') /\ Cardinality(Pending') <= Cardinality(Pending) + 1
    BY <1>5, <1>7, <2>1
  <2>3. rep[r].pc # "idle" => Cardinality(Pending') = Cardinality(Pending) - 1
    BY <1>4, <1>7, <2>1
  <2> QED BY <1>5, <1>10, <2>2, <2>3
<1> QED BY <1>9, <1>10

(* The numbers CountInv adds up.                                           *)
LEMMA CountTypes ==
    ASSUME TypeOK, CountInv
    PROVE  /\ Cardinality(Pending) \in Nat /\ Len(ctrl) \in Nat
           /\ lftChanges \in Nat /\ ups \in Nat
           /\ Taken \in {0, 1} /\ Exits \in {0, 1} /\ QueueCap \in Nat
<1>1. Cardinality(Pending) \in Nat BY FS_CardinalityType DEF CountInv
<1> QED BY <1>1, ConstAssumption DEF TypeOK, Taken, Exits

(* What leaves the reporters and the socket alone, and takes no message.   *)
LEMMA CountFrame ==
    ASSUME TypeOK, CountInv, UNCHANGED <<rep, ctrl, lftChanges, ups>>,
           Exits' = Exits, wpc' = wpc \/ wpc # "poll"
    PROVE  CountInv'
<1>1. Pending' = Pending BY DEF Pending
<1>2. Taken' \in {0, 1} /\ Taken' <= Taken BY DEF Taken
<1>3. Cardinality(Pending) + Len(ctrl) + Taken' <= lftChanges + ups + Exits
  BY <1>2, CountTypes DEF CountInv
<1> QED BY <1>1, <1>3 DEF CountInv

LEMMA CountStep == TypeInv /\ CountInv /\ [Next]_vars => CountInv'
<1> SUFFICES ASSUME TypeInv, CountInv, [Next]_vars PROVE CountInv' OBVIOUS
<1> USE DEF envVars, chanVars, dbVars, ghostVars, aheadVars, bounds
<1>t. TypeOK BY DEF TypeInv
<1>n. /\ Cardinality(Pending) \in Nat /\ Len(ctrl) \in Nat
      /\ lftChanges \in Nat /\ ups \in Nat
      /\ Taken \in {0, 1} /\ Exits \in {0, 1} /\ QueueCap \in Nat
      /\ IsFiniteSet(Pending) /\ Len(ctrl) <= QueueCap
      /\ Cardinality(Pending) + Len(ctrl) + Taken <= lftChanges + ups + Exits
  BY <1>t, CountTypes DEF CountInv
(* One event more, whose thread may have entered report().                 *)
<1>e. ASSUME IsFiniteSet(Pending'), Cardinality(Pending') \in Nat,
             Cardinality(Pending') <= Cardinality(Pending) + 1,
             UNCHANGED <<ctrl, wpc, dpc>>,
             lftChanges' + ups' = lftChanges + ups + 1
      PROVE  CountInv'
  <2>1. Taken' = Taken /\ Exits' = Exits BY <1>e DEF Taken, Exits
  <2>2. Cardinality(Pending') + Len(ctrl') + Taken' <= lftChanges' + ups' + Exits'
    BY <1>e, <1>n, <2>1
  <2> QED BY <1>e, <1>n, <2>2 DEF CountInv
<1>1. CASE FabricChange
  BY <1>1, <1>t, CountFrame DEF FabricChange, Exits
<1>2. ASSUME NEW r \in Reporters, LftChange(r) PROVE CountInv'
  <2>1. PICK k \in LftKeys \ InFlight, v \in LftVals :
          rep' = [rep EXCEPT ![r] = [pc |-> "copy", key |-> k,
                                     val |-> IF k \in Tops THEN v ELSE None]]
    BY <1>2 DEF LftChange
  <2> DEFINE c == [pc |-> "copy", key |-> k, val |-> IF k \in Tops THEN v ELSE None]
  <2>2. c \in Calls /\ rep[r].pc = "idle" BY <1>2 DEF Calls, LftChange
  <2>3. rep' = [rep EXCEPT ![r] = c] BY <2>1
  <2> HIDE DEF c
  <2>4. IsFiniteSet(Pending') /\ Cardinality(Pending') <= Cardinality(Pending) + 1
    BY <1>t, <1>n, <2>2, <2>3, PendingSteps
  <2>5. Cardinality(Pending') \in Nat BY <2>4, FS_CardinalityType
  <2>6. UNCHANGED <<ctrl, wpc, dpc, ups>> /\ lftChanges' = lftChanges + 1
    BY <1>2 DEF LftChange
  <2>7. lftChanges' + ups' = lftChanges + ups + 1 BY <2>6, <1>n
  <2> QED BY <1>e, <2>4, <2>5, <2>6, <2>7
<1>3. ASSUME NEW r \in Reporters, SubnetUp(r) PROVE CountInv'
  <2>1. UNCHANGED <<ctrl, wpc, dpc, lftChanges>> /\ ups' = ups + 1
    BY <1>3 DEF SubnetUp
  <2>2. lftChanges' + ups' = lftChanges + ups + 1 BY <2>1, <1>n
  <2>3. CASE rep' = rep
    <3>1. Pending' = Pending BY <2>3 DEF Pending
    <3> QED BY <1>e, <1>n, <2>1, <2>2, <3>1
  <2>4. CASE rep' = [rep EXCEPT ![r].pc = "up_write"]
    <3> DEFINE c == [rep[r] EXCEPT !.pc = "up_write"]
    <3>1. c \in Calls BY <1>t DEF TypeOK, Calls
    <3>2. rep' = [rep EXCEPT ![r] = c] /\ rep[r].pc = "idle" BY <1>3, <2>4 DEF SubnetUp
    <3> HIDE DEF c
    <3>3. IsFiniteSet(Pending') /\ Cardinality(Pending') <= Cardinality(Pending) + 1
      BY <1>t, <1>n, <3>1, <3>2, PendingSteps
    <3>4. Cardinality(Pending') \in Nat BY <3>3, FS_CardinalityType
    <3> QED BY <1>e, <2>1, <2>2, <3>3, <3>4
  <2> QED BY <1>3, <2>3, <2>4 DEF SubnetUp
<1>4. CASE Destroy
  BY <1>4, <1>t, CountFrame DEF Destroy, Exits
(* A reporter goes on inside report().                                     *)
<1>c. ASSUME UNCHANGED <<ctrl, wpc, dpc, lftChanges, ups>>,
             \A q \in Reporters : rep'[q].pc = "idle" <=> rep[q].pc = "idle"
      PROVE  CountInv'
  <2>1. Pending' = Pending BY <1>c DEF Pending
  <2> QED BY <1>c, <2>1 DEF CountInv, Taken, Exits
<1>5. ASSUME NEW r \in Reporters, ReportCopy(r) PROVE CountInv'
  <2>1. \A q \in Reporters : rep'[q].pc = "idle" <=> rep[q].pc = "idle"
    BY <1>5, <1>t DEF ReportCopy, TypeOK, Calls
  <2> QED BY <1>5, <1>c, <2>1 DEF ReportCopy
<1>6. ASSUME NEW r \in Reporters, ReportInsert(r) PROVE CountInv'
  <2>1. \A q \in Reporters : rep'[q].pc = "idle" <=> rep[q].pc = "idle"
    BY <1>6, <1>t DEF ReportInsert, TypeOK, Calls, Idle
  <2> QED BY <1>6, <1>c, <2>1 DEF ReportInsert
<1>7. ASSUME NEW r \in Reporters, ReportWrite(r) PROVE CountInv'
  <2>1. /\ rep[r].pc # "idle" /\ rep' = [rep EXCEPT ![r] = Idle]
        /\ Len(ctrl) < QueueCap /\ \E m : ctrl' = Append(ctrl, m)
        /\ UNCHANGED <<wpc, dpc, lftChanges, ups>>
    BY <1>7 DEF ReportWrite, CtrlWrite
  <2>2. Idle \in Calls /\ Idle.pc = "idle" BY DEF Idle, Calls
  <2>3. IsFiniteSet(Pending') /\ Cardinality(Pending') = Cardinality(Pending) - 1
    BY <1>t, <1>n, <2>1, <2>2, PendingSteps
  <2>4. Len(ctrl') = Len(ctrl) + 1 BY <1>t, <2>1 DEF TypeOK
  <2>5. Taken' = Taken /\ Exits' = Exits BY <2>1 DEF Taken, Exits
  <2> QED BY <1>n, <2>1, <2>3, <2>4, <2>5 DEF CountInv
<1>8. CASE DestroyWrite
  <2>1. /\ dpc = "exit" /\ dpc' = "join" /\ UNCHANGED <<rep, wpc, lftChanges, ups>>
        /\ Len(ctrl) < QueueCap /\ ctrl' = Append(ctrl, "EXIT")
    BY <1>8 DEF DestroyWrite, CtrlWrite
  <2>2. Pending' = Pending BY <2>1 DEF Pending
  <2>3. Len(ctrl') = Len(ctrl) + 1 BY <1>t, <2>1 DEF TypeOK
  <2>4. Taken' = Taken /\ Exits = 0 /\ Exits' = 1 BY <2>1 DEF Taken, Exits
  <2> QED BY <1>n, <2>1, <2>2, <2>3, <2>4 DEF CountInv
<1>9. CASE DestroyJoin
  BY <1>9, <1>t, CountFrame DEF DestroyJoin, Exits
<1>10. CASE WorkerRead
  <2>1. wpc = "poll" /\ UNCHANGED <<rep, dpc, lftChanges, ups>> BY <1>10 DEF WorkerRead
  <2>2. Len(ctrl') = Len(ctrl) - 1 /\ Len(ctrl') \in Nat
    BY <1>10, <1>t, TakeMsg DEF WorkerRead
  <2>3. Pending' = Pending BY <2>1 DEF Pending
  <2>4. Taken = 0 /\ Taken' \in {0, 1} /\ Exits' = Exits BY <2>1 DEF Taken, Exits
  <2> QED BY <1>n, <2>1, <2>2, <2>3, <2>4 DEF CountInv
<1>11. CASE WorkerAcquire \/ WorkerExtract \/ WorkerDrain
  BY <1>11, <1>t, CountFrame DEF WorkerAcquire, WorkerExtract, WorkerDrain, LftHandle, Exits
<1>12. CASE WorkerRelease \/ WorkerUpdate \/ WorkerCompare
  BY <1>12, <1>t, CountFrame DEF WorkerRelease, WorkerUpdate, WorkerCompare, Exits
<1>13. CASE UNCHANGED vars
  BY <1>13, <1>t, CountFrame DEF vars, Exits
<1> QED
  BY <1>1, <1>2, <1>3, <1>4, <1>5, <1>6, <1>7, <1>8, <1>9, <1>10, <1>11, <1>12, <1>13
  DEF Next, OpenSM, Report, Worker, Destroying, Terminated

LEMMA HolderStep == TypeInv /\ HolderInv /\ [Next]_vars => HolderInv'
<1> SUFFICES ASSUME TypeInv, HolderInv, [Next]_vars PROVE HolderInv' OBVIOUS
<1> USE ConstAssumption
<1> USE DEF HolderInv, envVars, chanVars, dbVars, ghostVars, aheadVars, bounds
<1>t. TypeOK BY DEF TypeInv
<1>1. CASE FabricChange \/ Destroy \/ DestroyWrite \/ DestroyJoin
  BY <1>1 DEF FabricChange, Destroy, DestroyWrite, DestroyJoin
<1>2. ASSUME NEW r \in Reporters, LftChange(r) PROVE HolderInv'
  <2>1. /\ osm_lock = "free" /\ osm_lock' = IF ReportLocked THEN r ELSE "free"
        /\ rep'[r].pc = "copy"
    BY <1>2, <1>t DEF LftChange, TypeOK
  <2> QED BY <2>1
<1>3. ASSUME NEW r \in Reporters, SubnetUp(r) PROVE HolderInv'
  <2>1. rep[r].pc = "idle" /\ osm_lock' = osm_lock /\ \A q \in Reporters \ {r} : rep'[q] = rep[q]
    BY <1>3, <1>t DEF SubnetUp, TypeOK
  <2> QED BY <2>1
<1>4. ASSUME NEW r \in Reporters, ReportCopy(r) \/ ReportInsert(r) PROVE HolderInv'
  <2>1. /\ rep'[r].pc \in {"insert", "lft_write"} /\ osm_lock' = osm_lock
        /\ \A q \in Reporters \ {r} : rep'[q] = rep[q]
    BY <1>4, <1>t DEF ReportCopy, ReportInsert, TypeOK, Idle, Calls
  <2> QED BY <2>1
<1>5. ASSUME NEW r \in Reporters, ReportWrite(r) PROVE HolderInv'
  <2>1. /\ osm_lock' = IF osm_lock = r THEN "free" ELSE osm_lock
        /\ \A q \in Reporters \ {r} : rep'[q] = rep[q]
    BY <1>5, <1>t DEF ReportWrite, TypeOK
  <2> QED BY <2>1
<1>6. CASE WorkerAcquire \/ WorkerRelease BY <1>6 DEF WorkerAcquire, WorkerRelease
<1>7. CASE WorkerRead \/ WorkerExtract \/ WorkerDrain \/ WorkerUpdate \/ WorkerCompare
  BY <1>7 DEF WorkerRead, WorkerExtract, WorkerDrain, WorkerUpdate, WorkerCompare
<1>8. CASE UNCHANGED vars BY <1>8 DEF vars
<1> QED BY <1>1, <1>2, <1>3, <1>4, <1>5, <1>6, <1>7, <1>8
  DEF Next, OpenSM, Report, Worker, Destroying, Terminated

LEMMA JoinStep == TypeInv /\ WakeInv /\ JoinInv /\ [Next]_vars => JoinInv'
<1> SUFFICES ASSUME TypeInv, WakeInv, JoinInv, [Next]_vars PROVE JoinInv' OBVIOUS
<1> USE DEF JoinInv, envVars, chanVars, dbVars, ghostVars, aheadVars, bounds
<1>t. TypeOK BY DEF TypeInv
<1>1. CASE UNCHANGED <<ctrl, wpc>> /\ (dpc' = dpc \/ dpc' # "join") BY <1>1 DEF Queued
<1>2. CASE FabricChange \/ Destroy \/ DestroyJoin
  BY <1>1, <1>2 DEF FabricChange, Destroy, DestroyJoin
<1>3. ASSUME NEW r \in Reporters,
             LftChange(r) \/ SubnetUp(r) \/ ReportCopy(r) \/ ReportInsert(r)
      PROVE  JoinInv'
  BY <1>1, <1>3 DEF LftChange, SubnetUp, ReportCopy, ReportInsert
<1>4. ASSUME NEW r \in Reporters, ReportWrite(r) PROVE JoinInv'
  <2>1. dpc = "running" /\ dpc' = dpc BY <1>4 DEF ReportWrite, WakeInv, ExitInv
  <2> QED BY <2>1
<1>5. CASE DestroyWrite
  <2>1. Queued({"EXIT"})' BY <1>5, <1>t, AppendMsg DEF DestroyWrite, Msgs
  <2> QED BY <2>1
<1>6. CASE WorkerRead
  <2>1. Queued({"EXIT"}) <=> Queued({"EXIT"})' \/ Head(ctrl) \in {"EXIT"}
    BY <1>6, <1>t, TakeMsg DEF WorkerRead
  <2>2. Head(ctrl) = "EXIT" => wpc' = "exited" BY <1>6 DEF WorkerRead
  <2>3. wpc # "exited" /\ dpc' = dpc BY <1>6 DEF WorkerRead
  <2> QED BY <2>1, <2>2, <2>3
<1>7. CASE WorkerAcquire \/ WorkerExtract \/ WorkerDrain
  BY <1>7 DEF WorkerAcquire, WorkerExtract, WorkerDrain, Queued
<1>8. CASE WorkerRelease \/ WorkerUpdate \/ WorkerCompare
  BY <1>8 DEF WorkerRelease, WorkerUpdate, WorkerCompare, Queued
<1>9. CASE UNCHANGED vars BY <1>1, <1>9 DEF vars
<1> QED BY <1>2, <1>3, <1>4, <1>5, <1>6, <1>7, <1>8, <1>9
  DEF Next, OpenSM, Report, Worker, Destroying, Terminated

LEMMA StuckAlways == Spec => [](TypeInv /\ WakeInv /\ LftInv /\ StuckInv)
<1>1. Init => StuckInv
  <2> SUFFICES ASSUME Init PROVE StuckInv OBVIOUS
  <2>1. Pending = {} /\ Taken = 0 /\ Exits = 0 /\ Len(ctrl) = 0 /\ lftChanges = 0 /\ ups = 0
    BY DEF Init, Pending, Idle, Taken, Exits
  <2>2. IsFiniteSet(Pending) /\ Cardinality(Pending) = 0 BY <2>1, FS_EmptySet
  <2>3. CountInv BY <2>1, <2>2, ConstAssumption DEF CountInv
  <2>4. HolderInv BY ConstAssumption DEF Init, HolderInv
  <2> QED BY <2>3, <2>4 DEF Init, StuckInv, JoinInv
<1>2. TypeInv /\ WakeInv /\ StuckInv /\ [Next]_vars => StuckInv'
  BY CountStep, HolderStep, JoinStep DEF StuckInv
<1> QED BY <1>1, <1>2, WakeAlways, LftAlways, PTL DEF Spec

(* The threads of the plugin never wait for each other, but for a reporter *)
(* that holds the OpenSM lock while the socket is full and the worker      *)
(* wants the lock; and that takes two messages more than the socket holds. *)
THEOREM AlwaysGoesOn == Spec => []NeverStuck
<1>1. TypeInv /\ WakeInv /\ LftInv /\ StuckInv => NeverStuck
  <2> SUFFICES ASSUME TypeInv, WakeInv, LockInv, StuckInv, Busy,
                      \A r \in Reporters : ~ReporterCan(r), ~WorkerCan, ~DestroyCan
               PROVE  CrossWait /\ MaxLftChanges + MaxUps >= QueueCap + 2
    BY DEF NeverStuck, LftInv
  <2>t. TypeOK BY DEF TypeInv
  <2>n. /\ Len(ctrl) \in Nat /\ QueueCap \in Nat \ {0}
        /\ rep \in [Reporters -> Calls] /\ Len(<<>>) = 0
    BY <2>t, ConstAssumption DEF TypeOK
  <2>1. \A r \in Reporters :
          /\ rep[r].pc \in {"idle", "lft_write", "up_write"}
          /\ rep[r].pc # "idle" => ~(Len(ctrl) < QueueCap)
    BY <2>n DEF ReporterCan, Calls
  <2>2. \/ wpc = "poll" /\ ctrl = <<>>
        \/ wpc = "acquire" /\ osm_lock # "free"
        \/ wpc = "exited"
    BY <2>t DEF WorkerCan, TypeOK
  <2>3. CASE ctrl = <<>> /\ wpc # "acquire"
    <3>1. Len(ctrl) < QueueCap BY <2>3, <2>n
    <3>2. \A r \in Reporters : rep[r].pc = "idle" BY <2>1, <3>1
    <3>3. dpc = "join" BY <2>2, <2>3, <3>1, <3>2 DEF Busy, DestroyCan
    <3>4. ~Queued({"EXIT"}) BY <2>3 DEF Queued
    <3> QED BY <3>3, <3>4 DEF StuckInv, JoinInv, DestroyCan
  <2>4. CASE wpc = "acquire" /\ osm_lock # "free"
    <3>1. osm_lock # "worker" BY <2>4 DEF LockInv
    <3>2. PICK r \in Reporters : osm_lock = r BY <2>4, <2>t, <3>1 DEF TypeOK
    <3>3. ReportLocked /\ rep[r].pc = "lft_write" BY <2>1, <3>2 DEF StuckInv, HolderInv
    <3>4. Len(ctrl) = QueueCap BY <2>1, <2>n, <3>3 DEF StuckInv, CountInv
    <3>5. dpc = "running" /\ Exits = 0 BY <3>3 DEF WakeInv, ExitInv, Exits
    <3>6. Taken = 1 BY <2>4 DEF Taken
    <3>7. Cardinality(Pending) >= 1
      <4>1. IsFiniteSet(Pending) /\ r \in Pending BY <3>3 DEF StuckInv, CountInv, Pending
      <4>2. Cardinality(Pending) # 0 BY <4>1, FS_EmptySet
      <4> QED BY <4>1, <4>2, FS_CardinalityType
    <3>8. /\ Cardinality(Pending) \in Nat /\ lftChanges \in Nat /\ ups \in Nat
          /\ lftChanges <= MaxLftChanges /\ ups <= MaxUps
          /\ MaxLftChanges \in Nat /\ MaxUps \in Nat
      BY <2>t, CountTypes, ConstAssumption DEF StuckInv, TypeOK
    <3>9. Cardinality(Pending) + Len(ctrl) + Taken <= lftChanges + ups + Exits
      BY DEF StuckInv, CountInv
    <3>10. MaxLftChanges + MaxUps >= QueueCap + 2
      BY <2>n, <3>4, <3>5, <3>6, <3>7, <3>8, <3>9
    <3> QED BY <2>4, <3>2, <3>3, <3>4, <3>10 DEF CrossWait
  <2>5. wpc = "exited" => ctrl = <<>> BY DEF WakeInv, CleanExit
  <2> QED BY <2>2, <2>3, <2>4, <2>5
<1> QED BY <1>1, StuckAlways, PTL

-----------------------------------------------------------------------------
(* SMDB versions and the consumer's copy.                                  *)

(* Before the first ssa_db_update the previous and the current version are *)
(* both empty, and what ssa_db_update makes current has been extracted.    *)
DbInv ==
    /\ ~curDb.initialized => curDb = EmptyDb /\ prevDb = EmptyDb
    /\ wpc \in {"drain", "release", "update"} => dumpDb.initialized

SyncInv == DbInv /\ TablesInSync

(* ApplyDiff takes a consumer from the previous to the current version.    *)
LEMMA ApplyDiffCorrect ==
    ASSUME TypeOK, NEW m \in SUBSET (Keys \ ExactKeys), SameTables(replica, prevDb.recs)
    PROVE  /\ SameTables(ApplyDiff(m), curDb.recs)
           /\ ~Dirty(m) => SameTables(replica, curDb.recs)
<1> USE ConstAssumption DEF SameTables, Removed, Added, Differs
<1>1. ASSUME NEW k \in ExactKeys PROVE ApplyDiff(m)[k] = curDb.recs[k]
  <2>1. k \in Keys OBVIOUS
  <2>2. replica[k] = prevDb.recs[k] OBVIOUS
  <2> QED BY <2>1, <2>2 DEF ApplyDiff
<1>2. ASSUME NEW k \in Keys PROVE ApplyDiff(m)[k] = None <=> curDb.recs[k] = None
  <2>1. replica[k] = None <=> prevDb.recs[k] = None OBVIOUS
  <2> QED BY <2>1 DEF ApplyDiff
<1>3. ASSUME ~Dirty(m) PROVE SameTables(replica, curDb.recs)
  <2>1. \A k \in Keys : k \notin Removed(m) /\ k \notin Added(m) BY <1>3 DEF Dirty, TablesDirty
  <2> QED BY <2>1
<1> QED BY <1>1, <1>2, <1>3

LEMMA SyncStep == TypeInv /\ SyncInv /\ [Next]_vars => SyncInv'
<1> SUFFICES ASSUME TypeInv, SyncInv, [Next]_vars PROVE SyncInv' OBVIOUS
<1> USE DEF SyncInv, DbInv, TablesInSync,
            envVars, chanVars, dbVars, ghostVars, aheadVars, bounds
<1>t. TypeOK BY DEF TypeInv
<1>1. CASE FabricChange BY <1>1 DEF FabricChange, SameTables
<1>2. ASSUME NEW r \in Reporters, LftChange(r) PROVE SyncInv'
  BY <1>2 DEF LftChange, SameTables
<1>3. ASSUME NEW r \in Reporters, SubnetUp(r) PROVE SyncInv'
  BY <1>3 DEF SubnetUp, SameTables
<1>4. CASE Destroy BY <1>4 DEF Destroy, SameTables
<1>5. ASSUME NEW r \in Reporters, Report(r) PROVE SyncInv'
  BY <1>5 DEF Report, ReportCopy, ReportInsert, ReportWrite, SameTables
<1>8. CASE DestroyWrite BY <1>8 DEF DestroyWrite, SameTables
<1>9. CASE DestroyJoin BY <1>9 DEF DestroyJoin, SameTables
<1>10. CASE WorkerRead
  <2>1. Head(ctrl) \in Msgs BY <1>10, <1>t DEF WorkerRead, TypeOK
  <2>2. wpc = "poll" /\ wpc' \in {"acquire", "lft", "exited"}
    BY <1>10, <2>1 DEF WorkerRead, Msgs
  <2> QED BY <1>10, <2>2 DEF WorkerRead, SameTables
<1>11. CASE WorkerAcquire BY <1>11 DEF WorkerAcquire, SameTables
<1>12. CASE WorkerExtract BY <1>12 DEF WorkerExtract, SameTables
<1>13. CASE WorkerDrain BY <1>13 DEF WorkerDrain, SameTables
<1>14. CASE WorkerRelease BY <1>14 DEF WorkerRelease, SameTables
<1>15. CASE WorkerUpdate
  <2>1. /\ prevDb' = IF curDb.initialized THEN curDb ELSE prevDb
        /\ curDb' = dumpDb /\ dumpDb.initialized
        /\ wpc = "update" /\ wpc' = "compare" /\ replica' = replica
    BY <1>15 DEF WorkerUpdate
  <2>2. prevDb'.recs = curDb.recs BY <2>1
  <2>3. SameTables(replica, curDb.recs) BY <2>1
  <2> QED BY <2>1, <2>2, <2>3 DEF SameTables
<1>16. CASE WorkerCompare
  <2>1. UNCHANGED <<prevDb, curDb, dumpDb>> /\ wpc = "compare" /\ wpc' = "poll"
    BY <1>16 DEF WorkerCompare
  <2>2. PICK m \in SUBSET (Keys \ ExactKeys) :
          replica' = IF Dirty(m) THEN ApplyDiff(m) ELSE replica
    BY <1>16 DEF WorkerCompare
  <2>3. SameTables(replica, prevDb.recs) BY <2>1
  <2>4. SameTables(replica', curDb.recs)
    <3>1. /\ SameTables(ApplyDiff(m), curDb.recs)
          /\ ~Dirty(m) => SameTables(replica, curDb.recs)
      BY <2>3, <1>t, ApplyDiffCorrect
    <3>2. CASE Dirty(m) BY <3>1, <3>2, <2>2
    <3>3. CASE ~Dirty(m) BY <3>1, <3>3, <2>2
    <3> QED BY <3>2, <3>3
  <2> QED BY <2>1, <2>4 DEF SameTables
<1>17. CASE UNCHANGED vars BY <1>17 DEF vars, SameTables
<1> QED
  BY <1>1, <1>2, <1>3, <1>4, <1>5, <1>8, <1>9, <1>10, <1>11, <1>12, <1>13,
     <1>14, <1>15, <1>16, <1>17
  DEF Next, OpenSM, Worker, Destroying, Terminated

LEMMA SyncInit == Init => SyncInv
<1> SUFFICES ASSUME Init PROVE SyncInv OBVIOUS
<1>1. curDb = EmptyDb /\ prevDb = EmptyDb /\ wpc = "poll" /\ replica = NoRecs BY DEF Init
<1>2. EmptyDb.recs = NoRecs BY DEF EmptyDb
<1> QED BY <1>1, <1>2 DEF SyncInv, DbInv, TablesInSync, SameTables

LEMMA SyncAlways == Spec => [](TypeInv /\ SyncInv)
<1>1. TypeInv /\ SyncInv /\ [Next]_vars => (TypeInv /\ SyncInv)' BY TypeStep, SyncStep
<1> QED BY <1>1, TypeInit, SyncInit, PTL DEF Spec

(* The chain of differences keeps the consumer in step.                    *)
THEOREM AlwaysTablesInSync == Spec => []TablesInSync
<1>1. SyncInv => TablesInSync BY DEF SyncInv
<1> QED BY <1>1, SyncAlways, PTL

-----------------------------------------------------------------------------
(* Freshness: what a SUBNET_UP covers is on its way until it has arrived.  *)

(* The extraction of the last SUBNET_UP is still to come.                  *)
UpPending == \/ ReporterAt({"up_write"})
             \/ Queued({"START_EXTRACT"})
             \/ wpc \in {"acquire", "extract"}

FabricFresh == IF wpc \in {"drain", "release", "update"}
                 THEN dumpDb.recs = fabric.recs
                 ELSE curDb.recs = fabric.recs

LftFresh(k) == IF wpc \in {"drain", "release", "update", "compare"}
                 THEN /\ wpc # "drain" => ~HasKey(lft_rec_list, k)
                      /\ first => DbFresh(k)
                 ELSE DbFresh(k)

FreshInv ==
    /\ InFlight \subseteq lftAhead
    /\ ~fabricAhead => UpPending \/ FabricFresh
    /\ \A k \in LftKeys \ lftAhead : UpPending \/ LftFresh(k)

(* A step that leaves the data alone keeps FreshInv.                       *)
LEMMA FreshFrame ==
    ASSUME FreshInv,
           UNCHANGED <<fabric, sw_lft, lft_rec_list, curDb, dumpDb, db_lft, first,
                       fabricAhead, lftAhead>>,
           wpc \notin {"drain", "release", "update", "compare"},
           wpc' \notin {"drain", "release", "update", "compare"},
           InFlight' \subseteq lftAhead,
           UpPending => UpPending'
    PROVE  FreshInv'
BY DEF FreshInv, FabricFresh, LftFresh, DbFresh

(* So does a step that leaves the worker alone too.                        *)
LEMMA FreshStill ==
    ASSUME FreshInv,
           UNCHANGED <<fabric, sw_lft, lft_rec_list, curDb, dumpDb, db_lft, first,
                       fabricAhead, lftAhead, wpc>>,
           InFlight' \subseteq InFlight,
           UpPending => UpPending'
    PROVE  FreshInv'
BY DEF FreshInv, FabricFresh, LftFresh, DbFresh

LEMMA FreshStep == TypeInv /\ LftInv /\ FreshInv /\ [Next]_vars => FreshInv'
<1> SUFFICES ASSUME TypeInv, LftInv, FreshInv, [Next]_vars PROVE FreshInv' OBVIOUS
<1> USE ConstAssumption
<1> USE DEF envVars, chanVars, dbVars, ghostVars, aheadVars, bounds
<1>t. TypeOK BY DEF TypeInv
<1>1. CASE FabricChange
  <2>1. /\ fabricAhead' = TRUE
        /\ UNCHANGED <<rep, lftAhead, sw_lft, lft_rec_list, db_lft, first, wpc, ctrl>>
    BY <1>1 DEF FabricChange
  <2> QED BY <2>1 DEF FreshInv, UpPending, ReporterAt, Queued, InFlight, LftFresh, DbFresh
<1>2. ASSUME NEW r \in Reporters, LftChange(r) PROVE FreshInv'
  <2>1. PICK k \in LftKeys \ InFlight, v \in LftVals :
          /\ sw_lft' = [sw_lft EXCEPT ![k] = v]
          /\ rep' = [rep EXCEPT ![r] = [pc |-> "copy", key |-> k,
                                        val |-> IF k \in Tops THEN v ELSE None]]
          /\ lftAhead' = lftAhead \cup {k}
    BY <1>2 DEF LftChange
  <2>2. /\ rep[r].pc = "idle" /\ rep'[r].key = k
        /\ \A q \in Reporters \ {r} : rep'[q] = rep[q]
    BY <1>2, <2>1, <1>t DEF LftChange, TypeOK
  <2>3. InFlight' \subseteq lftAhead' BY <2>1, <2>2 DEF InFlight, FreshInv
  <2>4. \A j \in LftKeys : j # k => sw_lft'[j] = sw_lft[j] BY <2>1, <1>t DEF TypeOK
  <2>5. UNCHANGED <<fabric, fabricAhead, lft_rec_list, curDb, dumpDb, db_lft, first, wpc, ctrl>>
    BY <1>2 DEF LftChange
  <2>6. UpPending => UpPending' BY <2>2, <2>5 DEF UpPending, ReporterAt, Queued
  <2>7. \A j \in LftKeys : j # k => (LftFresh(j)' <=> LftFresh(j))
    BY <2>4, <2>5 DEF LftFresh, DbFresh
  <2> QED BY <2>1, <2>3, <2>5, <2>6, <2>7 DEF FreshInv, FabricFresh
<1>3. ASSUME NEW r \in Reporters, SubnetUp(r) PROVE FreshInv'
  <2>1. CASE initError
    <3>1. UNCHANGED <<rep, ctrl>> BY <1>3, <2>1 DEF SubnetUp
    <3> QED BY <1>3, <2>1, <3>1, FreshStill
        DEF SubnetUp, UpPending, ReporterAt, Queued, InFlight
  <2>2. CASE ~initError
    <3>1. /\ rep' = [rep EXCEPT ![r].pc = "up_write"]
          /\ rep[r].pc = "idle"
          /\ lftAhead' = InFlight
      BY <1>3, <2>2 DEF SubnetUp
    <3>2. rep'[r].pc = "up_write" /\ \A q \in Reporters \ {r} : rep'[q] = rep[q]
      BY <3>1, <1>t DEF TypeOK, Calls
    <3>3. InFlight' = InFlight BY <3>1, <3>2 DEF InFlight
    <3>4. UpPending' BY <3>2 DEF UpPending, ReporterAt
    <3> QED BY <3>1, <3>3, <3>4 DEF FreshInv
  <2> QED BY <2>1, <2>2
<1>4. CASE Destroy
  BY <1>4, FreshStill DEF Destroy, UpPending, ReporterAt, Queued, InFlight
<1>5. ASSUME NEW r \in Reporters, ReportCopy(r) PROVE FreshInv'
  <2>1. /\ rep[r].pc = "copy" /\ rep'[r].key = rep[r].key
        /\ \A q \in Reporters \ {r} : rep'[q] = rep[q]
    BY <1>5, <1>t DEF ReportCopy, TypeOK, Calls
  <2>2. InFlight' \subseteq InFlight BY <2>1 DEF InFlight
  <2>3. UpPending => UpPending' BY <1>5, <2>1 DEF ReportCopy, UpPending, ReporterAt, Queued
  <2> QED BY <1>5, <2>2, <2>3, FreshStill DEF ReportCopy
<1>6. ASSUME NEW r \in Reporters, ReportInsert(r) PROVE FreshInv'
  <2> DEFINE rec == [key |-> rep[r].key, val |-> rep[r].val]
  <2>1. /\ rep[r].pc = "insert" /\ rep'[r].pc = "lft_write"
        /\ \A q \in Reporters \ {r} : rep'[q] = rep[q]
    BY <1>6, <1>t DEF ReportInsert, TypeOK, Idle
  <2>2. InFlight' \subseteq InFlight /\ rec.key \in InFlight BY <2>1 DEF InFlight
  <2>3. /\ UNCHANGED <<ctrl, wpc, fabric, fabricAhead, sw_lft, curDb, dumpDb, db_lft, first, lftAhead>>
        /\ lft_rec_list' = Append(lft_rec_list, rec)
    BY <1>6 DEF ReportInsert
  <2>4. UpPending => UpPending' BY <2>1, <2>3 DEF UpPending, ReporterAt, Queued
  <2>5. rec \in LftRecs /\ lft_rec_list \in Seq(LftRecs)
    BY <2>1, <1>t DEF TypeInv, RepInv, LftRecs, TypeOK
  <2>6. \A k \in LftKeys \ lftAhead : HasKey(lft_rec_list', k) <=> HasKey(lft_rec_list, k)
    BY <2>2, <2>3, <2>5, AppendLast DEF FreshInv
  <2> HIDE DEF rec
  <2>7. \A k \in LftKeys \ lftAhead : LftFresh(k) => LftFresh(k)'
    BY <2>3, <2>6 DEF LftFresh, DbFresh
  <2> QED BY <2>2, <2>3, <2>4, <2>7 DEF FreshInv, FabricFresh
<1>7. ASSUME NEW r \in Reporters, ReportWrite(r) PROVE FreshInv'
  <2> DEFINE m == IF rep[r].pc = "lft_write" THEN "LFT_CHANGE" ELSE "START_EXTRACT"
  <2>1. m \in Msgs /\ CtrlWrite(m) BY <1>7 DEF ReportWrite, Msgs
  <2>2. \A ms : Queued(ms)' <=> Queued(ms) \/ m \in ms BY <2>1, <1>t, AppendMsg
  <2>3. /\ rep[r].pc \in {"lft_write", "up_write"} /\ rep'[r].pc = "idle"
        /\ \A q \in Reporters \ {r} : rep'[q] = rep[q]
    BY <1>7, <1>t DEF ReportWrite, TypeOK, Idle
  <2>4. InFlight' \subseteq InFlight BY <2>3 DEF InFlight
  <2>5. UpPending => UpPending'
    <3>1. CASE rep[r].pc = "up_write" BY <3>1, <2>2 DEF UpPending
    <3>2. CASE rep[r].pc # "up_write"
      BY <3>2, <1>7, <2>2, <2>3 DEF ReportWrite, UpPending, ReporterAt
    <3> QED BY <3>1, <3>2
  <2> QED BY <1>7, <2>4, <2>5, FreshStill DEF ReportWrite
<1>8. CASE DestroyWrite
  <2>1. \A ms : Queued(ms) => Queued(ms)'
    BY <1>8, <1>t, AppendMsg DEF DestroyWrite, Msgs
  <2> QED BY <1>8, <2>1, FreshStill DEF DestroyWrite, UpPending, ReporterAt, InFlight
<1>9. CASE DestroyJoin
  BY <1>9, FreshStill DEF DestroyJoin, UpPending, ReporterAt, Queued, InFlight
<1>10. CASE WorkerRead
  <2>1. Head(ctrl) \in Msgs BY <1>10, <1>t DEF WorkerRead, TypeOK
  <2>2. /\ wpc = "poll" /\ wpc' \in {"acquire", "lft", "exited"}
        /\ Head(ctrl) = "START_EXTRACT" => wpc' = "acquire"
    BY <1>10, <2>1 DEF WorkerRead, Msgs
  <2>3. \A ms : Queued(ms) <=> Queued(ms)' \/ Head(ctrl) \in ms
    BY <1>10, <1>t, TakeMsg DEF WorkerRead
  <2>4. UpPending => UpPending'
    BY <1>10, <2>2, <2>3 DEF WorkerRead, UpPending, ReporterAt
  <2>5. InFlight' \subseteq lftAhead BY <1>10 DEF WorkerRead, InFlight, FreshInv
  <2> QED BY <1>10, <2>2, <2>4, <2>5, FreshFrame DEF WorkerRead
<1>11. CASE WorkerAcquire
  <2>1. UpPending' BY <1>11 DEF WorkerAcquire, UpPending
  <2>2. InFlight' \subseteq lftAhead BY <1>11 DEF WorkerAcquire, InFlight, FreshInv
  <2> QED BY <1>11, <2>1, <2>2, FreshFrame DEF WorkerAcquire
<1>12. CASE WorkerExtract
  <2>1. /\ UNCHANGED <<fabric, sw_lft, lftAhead, rep, first>>
        /\ wpc' = "drain"
        /\ dumpDb'.recs = fabric.recs
        /\ first => db_lft' = FullLft
    BY <1>12 DEF WorkerExtract
  <2>2. FabricFresh' BY <2>1 DEF FabricFresh
  <2>3. \A k \in LftKeys : LftFresh(k)' BY <2>1 DEF LftFresh, DbFresh, FullLft
  <2> QED BY <2>1, <2>2, <2>3 DEF FreshInv, InFlight
<1>13. CASE WorkerDrain
  <2>1. /\ UNCHANGED <<fabric, sw_lft, lftAhead, fabricAhead, rep, ctrl, first, db_lft, curDb, dumpDb>>
        /\ lft_rec_list' = <<>>
        /\ wpc = "drain" => wpc' = "release"
        /\ wpc # "drain" => wpc = "lft" /\ wpc' = "poll"
    BY <1>13 DEF WorkerDrain, LftHandle
  <2>2. \A k : ~HasKey(lft_rec_list', k) BY <2>1 DEF HasKey
  <2>3. UpPending => UpPending' BY <2>1 DEF UpPending, ReporterAt, Queued
  <2>4. FabricFresh => FabricFresh' BY <2>1 DEF FabricFresh
  <2>5. \A k \in LftKeys : LftFresh(k) => LftFresh(k)' BY <2>1, <2>2 DEF LftFresh, DbFresh
  <2> QED BY <2>1, <2>3, <2>4, <2>5 DEF FreshInv, InFlight
<1>14. CASE WorkerRelease
  <2>1. /\ UNCHANGED <<fabric, sw_lft, lftAhead, fabricAhead, rep, ctrl, first, db_lft, curDb,
                       dumpDb, lft_rec_list>>
        /\ wpc = "release" /\ wpc' = "update"
    BY <1>14 DEF WorkerRelease
  <2> QED BY <2>1 DEF FreshInv, InFlight, UpPending, ReporterAt, Queued, FabricFresh,
                      LftFresh, DbFresh
<1>15. CASE WorkerUpdate
  <2>1. /\ UNCHANGED <<fabric, sw_lft, lftAhead, fabricAhead, rep, ctrl, first, db_lft, lft_rec_list>>
        /\ curDb' = dumpDb
        /\ wpc = "update" /\ wpc' = "compare"
    BY <1>15 DEF WorkerUpdate
  <2> QED BY <2>1 DEF FreshInv, InFlight, UpPending, ReporterAt, Queued, FabricFresh,
                      LftFresh, DbFresh
<1>16. CASE WorkerCompare
  <2>1. /\ UNCHANGED <<fabric, sw_lft, lftAhead, fabricAhead, rep, ctrl, curDb, lft_rec_list>>
        /\ first => db_lft' = db_lft
        /\ ~first => db_lft' = QmapCopy(db_lft, dump_lft)
        /\ wpc = "compare" /\ wpc' = "poll"
    BY <1>16 DEF WorkerCompare
  <2>2. UpPending => UpPending' BY <2>1 DEF UpPending, ReporterAt, Queued
  <2>3. FabricFresh => FabricFresh' BY <2>1 DEF FabricFresh
  <2>4. ASSUME NEW k \in LftKeys \ lftAhead, LftFresh(k) PROVE LftFresh(k)'
    <3>1. ~HasKey(lft_rec_list, k) /\ (first => DbFresh(k)) BY <2>1, <2>4 DEF LftFresh
    <3>2. Coherent(k) /\ LftLoaded BY <2>1 DEF LftInv, LftCoherent, FreshInv, LftLoaded
    <3>3. CASE first BY <2>1, <3>1, <3>3 DEF LftFresh, DbFresh
    <3>4. CASE ~first
      <4>1. db_lft'[k] = Newest(k) BY <2>1, <3>1, <3>4 DEF Newest, QmapCopy
      <4> QED BY <2>1, <3>2, <4>1 DEF LftFresh, DbFresh, Coherent
    <3> QED BY <3>3, <3>4
  <2> QED BY <2>1, <2>2, <2>3, <2>4 DEF FreshInv, InFlight
<1>17. CASE UNCHANGED vars
  BY <1>17, FreshStill DEF vars, UpPending, ReporterAt, Queued, InFlight
<1> QED
  BY <1>1, <1>2, <1>3, <1>4, <1>5, <1>6, <1>7, <1>8, <1>9, <1>10, <1>11, <1>12, <1>13,
     <1>14, <1>15, <1>16, <1>17
  DEF Next, OpenSM, Report, Worker, Destroying, Terminated

(* Once the worker has caught up, everything a SUBNET_UP covered has       *)
(* arrived: in the consumer's tables and in the LFT database.              *)
THEOREM AlwaysSettledFresh == Spec => []SettledFresh
<1>1. Init => FreshInv
  BY DEF Init, FreshInv, InFlight, Idle
<1>2. TypeInv /\ LftInv /\ TypeInv' /\ LftInv' /\ FreshInv /\ [Next]_vars => FreshInv'
  BY FreshStep
<1>3. SyncInv /\ FreshInv => SettledFresh
  <2> SUFFICES ASSUME TablesInSync, FreshInv, Settled
               PROVE  /\ ~fabricAhead => SameTables(replica, fabric.recs)
                      /\ \A k \in LftKeys \ lftAhead : DbFresh(k)
    BY DEF SyncInv, SettledFresh
  <2>1. ~UpPending BY DEF Settled, UpPending, Queued
  <2>2. SameTables(replica, curDb.recs) BY DEF Settled, TablesInSync
  <2> QED BY <2>1, <2>2 DEF Settled, FreshInv, FabricFresh, LftFresh
<1>4. Spec => []FreshInv BY <1>1, <1>2, LftAlways, PTL DEF Spec
<1> QED BY <1>3, <1>4, SyncAlways, PTL

-----------------------------------------------------------------------------
(* Refinement: every step of the plugin is a step of SubnetMirror on the   *)
(* exactly compared keys, or changes nothing there.                        *)

MirrorHeld == CASE wpc \in {"drain", "release", "update"} -> <<Exact(dumpDb.recs)>>
                [] wpc = "compare" -> <<Exact(curDb.recs)>>
                [] OTHER -> <<>>

LEMMA MirrorStep ==
    ASSUME TypeInv, TypeInv', SyncInv, SyncInv', [Next]_vars
    PROVE  [Mirror!Next]_(Mirror!vars)
<1> USE ConstAssumption
<1> USE DEF envVars, chanVars, dbVars, ghostVars, aheadVars, bounds
<1>t. TypeOK /\ TypeOK' BY DEF TypeInv
<1> DEFINE Still == UNCHANGED <<Exact(fabric.recs), MirrorHeld, Exact(replica)>>
<1>s. Still => [Mirror!Next]_(Mirror!vars)
  BY DEF MirrorHeld, Mirror!vars
<1>1. CASE FabricChange
  <2>1. UNCHANGED <<wpc, dumpDb, curDb, replica>> BY <1>1 DEF FabricChange
  <2>2. Exact(fabric.recs)' \in [ExactKeys -> Vals \cup {None}]
    BY <1>t DEF TypeOK, Fabrics, Tables, Exact
  <2> QED BY <2>1, <2>2 DEF Exact, Mirror!Next, Mirror!Change
<1>2. ASSUME NEW r \in Reporters, LftChange(r) \/ SubnetUp(r) \/ Report(r)
      PROVE  Still
  BY <1>2 DEF LftChange, SubnetUp, Report, ReportCopy, ReportInsert, ReportWrite, MirrorHeld, Exact
<1>3. CASE Destroy \/ Destroying
  BY <1>3, <1>s DEF Destroy, Destroying, DestroyWrite, DestroyJoin, MirrorHeld, Exact
<1>10. CASE WorkerRead
  <2>1. Head(ctrl) \in Msgs BY <1>10, <1>t DEF WorkerRead, TypeOK
  <2>2. wpc = "poll" /\ wpc' \in {"acquire", "lft", "exited"}
    BY <1>10, <2>1 DEF WorkerRead, Msgs
  <2> QED BY <1>10, <2>2, <1>s DEF WorkerRead, MirrorHeld, Exact
<1>11. CASE WorkerAcquire BY <1>11, <1>s DEF WorkerAcquire, MirrorHeld, Exact
<1>12. CASE WorkerExtract
  <2>1. /\ wpc = "extract" /\ wpc' = "drain" /\ dumpDb'.recs = fabric.recs
        /\ UNCHANGED <<fabric, replica>>
    BY <1>12 DEF WorkerExtract
  <2> QED BY <2>1 DEF Exact, Mirror!Next, Mirror!Snapshot
<1>13. CASE WorkerDrain BY <1>13, <1>s DEF WorkerDrain, MirrorHeld, Exact
<1>14. CASE WorkerRelease BY <1>14, <1>s DEF WorkerRelease, MirrorHeld, Exact
<1>15. CASE WorkerUpdate BY <1>15, <1>s DEF WorkerUpdate, MirrorHeld, Exact
<1>16. CASE WorkerCompare
  <2>1. wpc = "compare" /\ wpc' = "poll" /\ UNCHANGED <<fabric, curDb>>
    BY <1>16 DEF WorkerCompare
  <2>2. SameTables(replica', curDb'.recs) BY <2>1 DEF SyncInv, TablesInSync
  <2>3. Exact(replica)' = Exact(curDb.recs) BY <2>1, <2>2 DEF SameTables, Exact
  <2> QED BY <2>1, <2>3 DEF Exact, Mirror!Next, Mirror!Publish
<1>17. CASE UNCHANGED vars BY <1>17, <1>s DEF vars, MirrorHeld, Exact
<1> QED
  BY <1>1, <1>2, <1>3, <1>10, <1>11, <1>12, <1>13, <1>14, <1>15, <1>16, <1>17, <1>s
  DEF Next, OpenSM, Worker, Terminated

(* The consumer only ever sees whole snapshots of the subnet, in order.    *)
THEOREM RefinesMirror == Spec => ImplementsMirror
<1>1. Init => Mirror!Init
  <2> SUFFICES ASSUME Init PROVE Mirror!Init OBVIOUS
  <2>1. fabric.recs \in Tables /\ replica = NoRecs /\ wpc = "poll" BY DEF Init, Fabrics
  <2>2. Exact(fabric.recs) \in [ExactKeys -> Vals \cup {None}]
    BY <2>1, ConstAssumption DEF Exact, Tables
  <2> QED BY <2>1, <2>2 DEF Mirror!Init
<1>2. TypeInv /\ SyncInv /\ (TypeInv /\ SyncInv)' /\ [Next]_vars => [Mirror!Next]_(Mirror!vars)
  BY MirrorStep
<1> QED BY <1>1, <1>2, SyncAlways, PTL DEF Spec, ImplementsMirror, Mirror!Spec
=============================================================================
