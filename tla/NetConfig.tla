------------------------------ MODULE NetConfig -----------------------------
(***************************************************************************)
(* The network of one host: the ansible module uos_net_config writes the   *)
(* ifcfg files of network_config with os-net-config, twice when there are  *)
(* SR-IOV devices, and network.yml then restarts the network service.      *)
(*                                                                         *)
(* os-net-config rewrites, and restarts the interface of, each file that   *)
(* differs from the one it would write, first line included.  The module   *)
(* keeps a first line of its own in the files, so it puts os-net-config's  *)
(* back before a run and its own after it.                                 *)
(***************************************************************************)
EXTENDS Naturals, FiniteSets, SequencesExt

CONSTANTS Objects,    \* records: type, name, rev, members (objects, in order)
          Configs,    \* the values network_config takes: sequences of objects
          Invalid,    \* those that are no list, or os-net-config's validator refuses
          PfOf,       \* the PF each VF belongs to
          HandMade,   \* interfaces the installer wrote a file for
          MaxEdits,   \* bound: edits of network_config
          MaxFaults,  \* bound: runs that raise or are killed
          None

Members == [o \in Objects |-> Range(o.members)]

\* What is reached from o by the steps of next.
Reached(next, o) ==
    {p \in Objects : \A S \in SUBSET Objects :
        o \in S /\ (\A q \in S : next[q] \subseteq S) => p \in S}

\* An object and all below it.
Tree == [o \in Objects |-> Reached(Members, o)]
All(os) == UNION {Tree[o] : o \in os}
Names == {o.name : o \in Objects} \cup HandMade
Cut == 0  \* what is left in a file its rewriting did not finish

\* A PF has no members, and two files do not have one name.
ASSUME NetConfigAssumption ==
    /\ \A o \in Objects : o.rev \in Nat \ {Cut} /\ Range(o.members) \subseteq Objects
    /\ \A o \in Objects : o.type = "sriov_pf" => o.members = <<>>
    /\ \A c \in Configs : Range(c) \subseteq Objects
    /\ Invalid \subseteq Configs /\ MaxEdits \in Nat /\ MaxFaults \in Nat
    /\ \A c \in Configs \ Invalid :
          \A o, p \in All(Range(c)) : o.name = p.name => o = p
    /\ None \notin Nat \cup [rev : Nat, mark : {"osc", "uosc", "none"}]

VARIABLES config,
          files,    \* ifcfg file of each name: rev, first line; or None
          running,  \* rev each interface runs with, or None if down
          vfs,      \* PFs whose VFs exist
          added,    \* objects the provider has been given
          changed,  \* interfaces apply is restarting
          cleanup, rc, phase, exit, edits, faults

host == <<files, running, vfs>>
vars == <<config, host, added, changed, cleanup, rc, phase, exit, edits, faults>>

File(rev, mark) == [rev |-> rev, mark |-> mark]

TypeOK ==
    /\ config \in Configs /\ vfs \subseteq Names /\ changed \subseteq Names
    /\ files \in [Names -> [rev : Nat, mark : {"osc", "uosc", "none"}] \cup {None}]
    /\ running \in [Names -> Nat \cup {None}]
    /\ added \subseteq Objects /\ cleanup \in BOOLEAN /\ rc \in {0, 1}
    /\ phase \in {"idle", "in", "first", "pf_up", "pfs", "second", "up", "out", "restart"}
    /\ (phase = "idle" => changed = {} /\ added = {}) /\ (phase = "pf_up" => added # {})
    /\ exit \in {"none", "ok", "failed"} /\ edits \in 0..MaxEdits /\ faults \in 0..MaxFaults

Init ==
    /\ config \in Configs /\ vfs = {} /\ added = {} /\ changed = {}
    /\ files = [n \in Names |-> IF n \in HandMade THEN File(1, "none") ELSE None]
    /\ running = [n \in Names |-> IF n \in HandMade THEN 1 ELSE None]
    /\ cleanup = FALSE /\ rc = 0 /\ phase = "idle" /\ exit = "none" /\ edits = 0 /\ faults = 0

(***************************************************************************)
(* The module                                                              *)
(***************************************************************************)
\* Mutant: the provider keeps the objects of the run before.
EndKeeps(how) ==
    phase' = "idle" /\ exit' = how /\ added' = added /\ changed' = {} /\ rc' = 0

End(how) ==
    phase' = "idle" /\ exit' = how /\ added' = {} /\ changed' = {} /\ rc' = 0

Start(c) ==
    /\ phase = "idle" /\ phase' = "in" /\ cleanup' = c /\ exit' = "none"
    /\ UNCHANGED <<config, host, added, changed, rc, edits, faults>>

Marked(m) == {n \in Names : files[n] # None /\ files[n].mark = m}

\* replace_osc_string, one file at a time, in the order glob returns.
replace_osc_string(src, dest) ==
    /\ \E n \in Marked(src) : files' = [files EXCEPT ![n].mark = dest]
    /\ UNCHANGED <<config, running, vfs, added, changed, cleanup, rc, phase, exit, edits, faults>>

MarkIn == phase = "in" /\ replace_osc_string("uosc", "osc")
MarkOut == phase = "out" /\ replace_osc_string("osc", "uosc")

\* Mutant: apply is called whether or not the files have os-net-config's line.
NotReplaced == TRUE

\* The first loop of main is over.
Replaced == Marked("uosc") = {}

\* The last member that has members of its own, if any: what is found there
\* overwrites what was found before it.
LastHolder ==
    [o \in Objects |->
        {o.members[i] : i \in {j \in DOMAIN o.members : o.members[j].members # <<>> /\
            \A k \in DOMAIN o.members : k > j => o.members[k].members = <<>>}}]

\* A PF comes after it.
PfAtEnd(o) ==
    \E i \in DOMAIN o.members : o.members[i].type = "sriov_pf" /\
        \A k \in DOMAIN o.members : k > i => o.members[k].members = <<>>

\* The recursion, down the last members: TRUE where it ends at a PF.
check_configure_sriov == [o \in Objects |-> \E p \in Reached(LastHolder, o) : PfAtEnd(p)]

\* object_from_json raises SriovVfNotFoundException.
VfNotFound(o) == \E v \in Tree[o] : v.type = "sriov_vf" /\ PfOf[v.name] \notin vfs

\* The objects of the first parse: there are some iff configure_sriov.
WithPf == {o \in Range(config) : o.type = "sriov_pf" \/ check_configure_sriov[o]}
FirstObjects == {o \in WithPf : ~VfNotFound(o)}

\* provider.apply up to the point where the interfaces are down and the files
\* written; cleanup takes down and removes what the provider was not given.
Apply(os, next) ==
    LET new == {o.name : o \in All(os)}
        differs == {o.name : o \in {p \in All(os) : files[p.name] # File(p.rev, "osc")}}
        dropped == IF cleanup THEN {n \in Names \ new : files[n] # None} ELSE {}
    IN /\ files' = [n \in Names |->
                      IF n \in differs
                      THEN File((CHOOSE o \in All(os) : o.name = n).rev, "osc")
                      ELSE IF n \in dropped THEN None ELSE files[n]]
       /\ running' = [n \in Names |-> IF n \in differs \cup dropped THEN None ELSE running[n]]
       /\ added' = os /\ changed' = differs /\ phase' = next
       /\ UNCHANGED <<config, vfs, cleanup, rc, exit, edits, faults>>

\* exit_on_validation_errors: apply returns 1, and main goes on.
Refuse ==
    /\ phase = "in" /\ Replaced /\ config \in Invalid /\ phase' = "out" /\ rc' = 1
    /\ UNCHANGED <<config, host, added, changed, cleanup, exit, edits, faults>>

Parse ==
    /\ phase = "in" /\ Replaced /\ config \notin Invalid
    /\ phase' = IF FirstObjects = {} THEN "second" ELSE "first"
    /\ UNCHANGED <<config, host, added, changed, cleanup, rc, exit, edits, faults>>

FirstApply == phase = "first" /\ Apply(FirstObjects, "pf_up")

\* The interfaces apply took down come up again.
Up ==
    /\ phase \in {"pf_up", "up"} /\ phase' = IF phase = "up" THEN "out" ELSE "pfs"
    /\ running' = [n \in Names |-> IF n \in changed THEN files[n].rev ELSE running[n]]
    /\ changed' = {} /\ UNCHANGED <<config, files, vfs, added, cleanup, rc, exit, edits, faults>>

\* Mutant: numvfs is left to the next boot.
PfsLater ==
    /\ phase = "pfs" /\ phase' = "second"
    /\ UNCHANGED <<config, host, added, changed, cleanup, rc, exit, edits, faults>>

configure_sriov_pfs ==
    /\ phase = "pfs" /\ phase' = "second"
    /\ vfs' = vfs \cup {o.name : o \in {p \in All(added) : p.type = "sriov_pf"}}
    /\ UNCHANGED <<config, files, running, added, changed, cleanup, rc, exit, edits, faults>>

Others == {o \in Range(config) : o.type # "sriov_pf"}

\* Mutant: a VF that is not there is passed over in the second parse too.
SecondApplyAnyway ==
    /\ phase = "second" /\ Apply(added \cup {o \in Others : ~VfNotFound(o)}, "up")

SecondApply ==
    /\ phase = "second" /\ ~\E o \in Range(config) : VfNotFound(o)
    /\ Apply(added \cup Others, "up")

\* A VF that is not there: the exception is raised, the first lines stay.
Raise ==
    /\ phase = "second" /\ \E o \in Range(config) : VfNotFound(o) /\ End("failed")
    /\ UNCHANGED <<config, host, cleanup, edits, faults>>

\* rc 1 is a failed task.
Exit ==
    /\ phase = "out" /\ Marked("osc") = {}
    /\ IF rc = 1 THEN End("failed")
       ELSE phase' = "restart" /\ UNCHANGED <<added, changed, rc, exit>>
    /\ UNCHANGED <<config, host, cleanup, edits, faults>>

\* Restart network service: every interface that has a whole file.
RestartNetwork ==
    /\ phase = "restart" /\ End("ok")
    /\ running' = [n \in Names |-> IF files[n] = None \/ files[n] = File(Cut, "none") THEN None
                                   ELSE files[n].rev]
    /\ UNCHANGED <<config, files, vfs, cleanup, edits, faults>>

(***************************************************************************)
(* What happens to it                                                      *)
(***************************************************************************)
\* An exception, or the module is killed: in the middle of a rewriting, the
\* file it had opened is cut.
Fails ==
    /\ phase # "idle" /\ faults < MaxFaults /\ faults' = faults + 1 /\ End("failed")
    /\ \/ UNCHANGED files
       \/ /\ phase \in {"in", "out"}
          /\ \E n \in Names : files[n] # None /\ files' = [files EXCEPT ![n] = File(Cut, "none")]
    /\ UNCHANGED <<config, running, vfs, cleanup, edits>>

EditConfig ==
    /\ phase = "idle" /\ edits < MaxEdits /\ edits' = edits + 1
    /\ config' \in Configs \ {config} /\ exit' = "none"
    /\ UNCHANGED <<host, added, changed, cleanup, rc, phase, faults>>

Play ==
    \/ MarkIn \/ Refuse \/ Parse \/ FirstApply \/ Up \/ configure_sriov_pfs
    \/ SecondApply \/ Raise \/ MarkOut \/ Exit \/ RestartNetwork

Next == Play \/ Fails \/ EditConfig \/ \E c \in BOOLEAN : Start(c)

Spec == Init /\ [][Next]_vars

\* A play goes on, and the operator repeats it.
FairSpec == Spec /\ WF_vars(Play) /\ WF_vars(\E c \in BOOLEAN : Start(c))

(***************************************************************************)
(* Properties                                                              *)
(***************************************************************************)
Wanted == All(Range(config))
Pfs == {o.name : o \in {p \in Wanted : p.type = "sriov_pf"}}
InForce == \A o \in Wanted : running[o.name] = o.rev

\* A run that succeeds leaves every interface of network_config running as
\* configured, under the module's own first line, and with cleanup no other:
\* whatever earlier runs were cut in the middle of.
SuccessMeansRunning ==
    exit = "ok" =>
        /\ InForce /\ \A o \in Wanted : files[o.name] = File(o.rev, "uosc")
        /\ cleanup => \A n \in Names \ {o.name : o \in Wanted} : running[n] = None

\* The module takes no interface down whose file holds what is wanted, also
\* after a run that was cut between its two replacements of the first line.
\* Not so with cleanup and a PF: the first apply knows the PFs only.
UntouchedKeptUp ==
    [][phase \notin {"idle", "restart"} /\ ~(cleanup /\ Pfs # {}) =>
         \A o \in Wanted :
            files[o.name] \in {File(o.rev, "osc"), File(o.rev, "uosc")} /\ running[o.name] # None
                => running'[o.name] = running[o.name]]_vars

\* Repeating the play brings the network of a valid network_config up for good,
\* VFs included, if the first parse finds the PF of each.
Found == {o.name : o \in {p \in All(WithPf) : p.type = "sriov_pf"}}
Unusable ==
    \/ config \in Invalid
    \/ \E o \in Wanted : o.type = "sriov_vf" /\ PfOf[o.name] \notin vfs \cup Found
NetworkConverges == <>[](InForce \/ Unusable \/ (cleanup /\ Pfs # {}))

\* A run that succeeds has configured every PF of network_config
\* (uos_net_config.py:290, "if SriovPFs exists then PF devices needs to be
\* configured so that the VF devices are created").
SuccessMeansVfs == exit = "ok" => Pfs \subseteq vfs
=============================================================================
