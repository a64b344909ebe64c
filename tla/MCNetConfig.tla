---------------------------- MODULE MCNetConfig -----------------------------
(***************************************************************************)
(* Two wired interfaces, a bond, a bridge, a PF and a VF of it.  The PF is *)
(* in a bridge before the bond, in a bridge after it, or on its own.       *)
(***************************************************************************)
EXTENDS NetConfig

Object(t, n, r, ms) == [type |-> t, name |-> n, rev |-> r, members |-> ms]
Pxe(r) == Object("interface", "pxe", r, <<>>)
Eth == Object("interface", "eth", 1, <<>>)
Pf == Object("sriov_pf", "pf", 1, <<>>)
Vf == Object("sriov_vf", "vf", 1, <<>>)
Bond == Object("linux_bond", "bond", 1, <<Eth>>)
PfFirst == Object("ovs_bridge", "br", 1, <<Pf, Bond>>)
PfLast == Object("ovs_bridge", "br", 1, <<Bond, Pf>>)

PfBond == Object("linux_bond", "bond", 2, <<Pf>>)
Nested == Object("ovs_bridge", "br", 2, <<Eth, PfBond, Pxe(1)>>)
NestedFirst == Object("ovs_bridge", "br", 3, <<PfBond, Bond>>)

MCObjects == {Pxe(1), Pxe(2), Eth, Pf, Vf, Bond, PfFirst, PfLast, PfBond, Nested, NestedFirst}
MCConfigs == {<<Pxe(1), PfFirst>>, <<Pxe(2), PfLast, Vf>>, <<Pf, Pxe(2), Vf>>,
              <<Pxe(2), Bond>>, <<PfFirst, Vf>>, <<Vf, Bond, Bond>>}
MCInvalid == {<<Vf, Bond, Bond>>}
MCPfOf == [v \in {"vf"} |-> "pf"]

\* check_configure_sriov as it is written, member by member.
check[o \in Objects] ==
    FoldLeft(LAMBDA found, m : IF m.type = "sriov_pf" THEN TRUE
                               ELSE IF m.members # <<>> THEN check[m] ELSE found,
             FALSE, o.members)
ASSUME CheckAgrees == check_configure_sriov = check
=============================================================================
