---------------------------- MODULE SubnetMirror ----------------------------
(***************************************************************************)
(* What the extraction half of the plugin promises to whoever consumes the *)
(* SMDB differences, with every mechanism left out: the consumer's copy of *)
(* the subnet moves from one state the subnet really was in to a later     *)
(* one.  It may skip states, it never mixes two of them and it never goes  *)
(* back.                                                                   *)
(***************************************************************************)
CONSTANTS States,   \* the states a subnet may be in
          Nothing   \* the consumer's copy before the first snapshot

VARIABLES subnet,   \* the state of the subnet now
          held,     \* the snapshots taken and not published yet, oldest first
          mirror    \* the consumer's copy

vars == <<subnet, held, mirror>>

Init == /\ subnet \in States
        /\ held = <<>>
        /\ mirror = Nothing

(* The subnet moves on, whatever the plugin is doing.                      *)
Change == /\ subnet' \in States
          /\ UNCHANGED <<held, mirror>>

(* One consistent snapshot of the whole subnet; only one at a time.        *)
Snapshot == /\ held = <<>>
            /\ held' = <<subnet>>
            /\ UNCHANGED <<subnet, mirror>>

(* The consumer's copy becomes the snapshot.                               *)
Publish == /\ held # <<>>
           /\ mirror' = held[1]
           /\ held' = <<>>
           /\ UNCHANGED subnet

Next == Change \/ Snapshot \/ Publish

Spec == Init /\ [][Next]_vars
=============================================================================
