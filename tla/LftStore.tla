------------------------------ MODULE LftStore ------------------------------
(***************************************************************************)
(* What the LFT tables promise, with arrays and offsets left out: three    *)
(* stores of records by key.  Changes are collected in a dump, a change    *)
(* overwrites an older one of its key, and a change only leaves the dump   *)
(* when both the database and the difference of the round have it.         *)
(***************************************************************************)
EXTENDS Sequences

CONSTANTS Keys, Vals, None

VARIABLES pending, \* the changes reported, oldest first
          db,      \* the forwarding tables as the database has them
          dump,    \* the changes not merged yet
          diff     \* the records of the latest difference

vars == <<pending, db, dump, diff>>

Empty == [k \in Keys |-> None]

Init == pending = <<>> /\ db = Empty /\ dump = Empty /\ diff = Empty

(* A record of the first full dump.                                        *)
Fill(k, v) == /\ db[k] = None
              /\ db' = [db EXCEPT ![k] = v]
              /\ UNCHANGED <<pending, dump, diff>>

Report(k, v) == /\ pending' = Append(pending, [key |-> k, val |-> v])
                /\ UNCHANGED <<db, dump, diff>>

(* The oldest change is never dropped, it overwrites what the dump has.    *)
Change == /\ pending # <<>>
          /\ pending' = Tail(pending)
          /\ dump' = [dump EXCEPT ![Head(pending).key] = Head(pending).val]
          /\ UNCHANGED <<db, diff>>

(* A new difference, which gets records of the database or of the dump.    *)
NewDiff == diff' = Empty /\ UNCHANGED <<pending, db, dump>>

Collect(k) == /\ \E store \in {db, dump} :
                   store[k] # None /\ diff' = [diff EXCEPT ![k] = store[k]]
              /\ UNCHANGED <<pending, db, dump>>

(* A change reaches the database.                                          *)
Merge(k) == /\ dump[k] # None
            /\ db' = [db EXCEPT ![k] = dump[k]]
            /\ UNCHANGED <<pending, dump, diff>>

Clear == /\ \A k \in Keys : dump[k] # None => db[k] = dump[k] /\ diff[k] = dump[k]
         /\ dump' = Empty
         /\ UNCHANGED <<pending, db, diff>>

Next == \/ \E k \in Keys, v \in Vals : Fill(k, v) \/ Report(k, v)
        \/ Change \/ NewDiff
        \/ \E k \in Keys : Collect(k) \/ Merge(k)
        \/ Clear

Spec == Init /\ [][Next]_vars
=============================================================================
