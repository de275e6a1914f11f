----------------------------- MODULE MCSsaPorts -----------------------------
(* Small instances of SsaPorts for TLC: the GUIDs 1 and 3 are hosts or     *)
(* absent, 2 is a switch or absent.                                        *)
EXTENDS SsaPorts, TLC

(* Port 1 of a host; LID 0 is an invalid LID.                              *)
Host(lid, pkeys, linked, rate) ==
    [sw |-> FALSE, lid |-> lid, num |-> 1, size |-> 2, ports |-> {1},
     linked |-> linked, pkeys |-> pkeys, attrs |-> [i \in {1} |-> rate]]

(* A switch with the ports 0 and 1, linked by port 1.                      *)
Switch(lid, pkeys, linked) ==
    [sw |-> TRUE, lid |-> lid, num |-> 0, size |-> 2, num_ports |-> 2, ports |-> {0, 1},
     linked |-> linked, pkeys |-> pkeys, attrs |-> [i \in {0, 1} |-> i]]

MCHosts(g) ==
    {Host(0, <<10 * g>>, {1}, 1)} \cup
    {Host(g, pkeys, {1}, 1) : pkeys \in {<<>>, <<10 * g>>, <<10 * g, 10 * g + 1>>}} \cup
    {Host(g, <<10 * g>>, {1}, 2), Host(g, <<10 * g>>, {}, 1)}

MCSwitches == {Switch(2, <<20>>, {1}), Switch(0, <<>>, {1}), Switch(2, <<20>>, {})}

Optional(g, options) == {<<>>} \cup {g :> n : n \in options}

MCSubnets ==
    {h @@ s @@ i : h \in Optional(1, MCHosts(1)), s \in Optional(2, MCSwitches),
                   i \in Optional(3, MCHosts(3))} \ {<<>>}
=============================================================================
