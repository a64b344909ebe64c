--------------------------- MODULE MCNetworkCheck ----------------------------
(***************************************************************************)
(* Three machines; "n1" is found in "n10", and the third one has its       *)
(* domain in the inventory but not in servers.csv.                         *)
(***************************************************************************)
EXTENDS NetworkCheck, SequencesExt

MCHosts == {"n1", "n10", "c.dc"}
MCColumns == {"vlan1", "vlan2"}
MCShort == [n \in {"n1", "n10", "c", "c.dc"} |-> IF n = "c.dc" THEN "c" ELSE n]
MCFoundIn == [n \in {"n1", "n10", "c", "c.dc"} |->
    CASE n = "n1" -> {"n1", "n10"} [] n = "c" -> {"c", "c.dc"} [] OTHER -> {n}]
MCMtu == [h \in Hosts |-> IF h = "n1" THEN 9000 ELSE 1500]

Row1(h, pxe, a) == [hostname |-> h, pxe |-> pxe, vlans |-> [v \in {"vlan1"} |-> a]]
Row2(h, pxe, a, b) == [hostname |-> h, pxe |-> pxe,
                       vlans |-> [v \in {"vlan1", "vlan2"} |-> IF v = "vlan1" THEN a ELSE b]]

MCSites == {
    <<Row1("n10", "p10", "a10")>>,
    <<Row2("n1", "p1", "a1", "b1"), Row2("n10", "p10", "a10", ""), Row2("c", "pc", "ac", "bc")>>,
    <<Row1("n1", "q1", "a10"), Row1("n10", "p10", "a1"), Row1("c", "pc", "ac")>> }
MCOthers == { <<>>, <<Row1("n10", "p10", "x10")>> }

Link(up, loss, best, avg, max, mtu) ==
    [up |-> up, loss |-> loss, min |-> best, avg |-> avg, max |-> max, mtu |-> mtu]
Fast == Link(TRUE, 0, 1, 1, 2, 1500)
Net(h, g, bad) == [l \in Hosts \X Hosts |-> IF l = <<h, g>> THEN bad ELSE Fast]
MCNets == { Net("n1", "n1", Fast), Net("n1", "n10", Link(FALSE, 0, 0, 0, 0, 1500)),
            Net("c.dc", "n1", Link(TRUE, 1, 1, 1, 2, 1500)),
            Net("n10", "c.dc", Link(TRUE, 0, 1, 4, 9, 1500)) }

\* The variables as the plugin combines them, row by row.
Combined(h, v, fs) ==
    FoldLeft(LAMBDA value, row : IF Short[row.hostname] = Short[h] /\ v \in DOMAIN row.vlans
                                 THEN row.vlans[v] ELSE value,
             Undefined, FlattenSeq(fs))
ASSUME VarAgrees ==
    \A s \in Sites, o \in OtherFiles, h \in Hosts, v \in Columns :
        \A fs \in {<<s, o>>, <<o, s>>} : Var(h, v, fs) = Combined(h, v, fs)
=============================================================================
