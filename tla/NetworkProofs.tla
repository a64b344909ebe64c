---------------------------- MODULE NetworkProofs ----------------------------
(***************************************************************************)
(* Proofs about the two halves of playbooks/network.yml: NetConfig, for    *)
(* any network_configs, whatever their objects hold, and any number of     *)
(* edits and of runs cut short; and NetworkCheck, for any machines, files, *)
(* columns and networks.                                                   *)
(***************************************************************************)
EXTENDS NetConfig, NetworkCheck, TLAPS, WellFoundedInduction

(***************************************************************************)
(* Objects and what is below them                                          *)
(***************************************************************************)
LEMMA ReachedFacts ==
    ASSUME NEW next, NEW o \in Objects, \A q \in Objects : next[q] \subseteq Objects
    PROVE  /\ o \in Reached(next, o) /\ Reached(next, o) \subseteq Objects
           /\ \A p \in Reached(next, o) : next[p] \subseteq Reached(next, o)
           /\ \A S \in SUBSET Objects :
                 o \in S /\ (\A q \in S : next[q] \subseteq S) => Reached(next, o) \subseteq S
<1>1. o \in Reached(next, o) /\ Reached(next, o) \subseteq Objects
  BY DEF Reached
<1>2. ASSUME NEW p \in Reached(next, o), NEW q \in next[p] PROVE q \in Reached(next, o)
  <2>1. p \in Objects /\ q \in Objects
    BY DEF Reached
  <2>2. ASSUME NEW S \in SUBSET Objects, o \in S, \A r \in S : next[r] \subseteq S
        PROVE  q \in S
    BY <2>2 DEF Reached
  <2> QED BY <2>1, <2>2 DEF Reached
<1>3. ASSUME NEW S \in SUBSET Objects, o \in S, \A q \in S : next[q] \subseteq S
      PROVE  Reached(next, o) \subseteq S
  BY <1>3 DEF Reached
<1> QED BY <1>1, <1>2, <1>3

LEMMA TreeFacts ==
    ASSUME NEW o \in Objects
    PROVE  /\ o \in Tree[o] /\ Tree[o] \subseteq Objects
           /\ \A p \in Tree[o] : Range(p.members) \subseteq Tree[o]
           /\ o.members = <<>> => Tree[o] = {o}
<1>1. \A q \in Objects : Members[q] = Range(q.members) /\ Members[q] \subseteq Objects
  BY NetConfigAssumption DEF Members
<1>2. Tree[o] = Reached(Members, o)
  BY DEF Tree
<1>3. /\ o \in Tree[o] /\ Tree[o] \subseteq Objects
      /\ \A p \in Tree[o] : Members[p] \subseteq Tree[o]
      /\ \A S \in SUBSET Objects :
            o \in S /\ (\A q \in S : Members[q] \subseteq S) => Tree[o] \subseteq S
  BY <1>1, <1>2, ReachedFacts
<1>4. ASSUME o.members = <<>> PROVE Tree[o] = {o}
  <2>1. Members[o] = {}
    BY <1>1, <1>4 DEF Range
  <2> QED BY <1>3, <2>1
<1> QED BY <1>1, <1>3, <1>4

\* A PF that check_configure_sriov finds is there.
LEMMA CheckSound ==
    ASSUME NEW o \in Objects, check_configure_sriov[o]
    PROVE  \E p \in Tree[o] : p.type = "sriov_pf"
<1>1. \A q \in Objects : LastHolder[q] \subseteq Range(q.members) /\ Range(q.members) \subseteq Objects
  BY NetConfigAssumption DEF LastHolder, Range
<1>2. PICK p \in Reached(LastHolder, o) : PfAtEnd(p)
  BY DEF check_configure_sriov
<1>3. Reached(LastHolder, o) \subseteq Tree[o]
  <2>1. \A q \in Objects : LastHolder[q] \subseteq Objects
    BY <1>1
  <2>2. /\ Tree[o] \in SUBSET Objects /\ o \in Tree[o]
        /\ \A q \in Tree[o] : LastHolder[q] \subseteq Tree[o]
    BY <1>1, TreeFacts
  <2> QED BY <2>1, <2>2, ReachedFacts
<1>4. \E m \in Range(p.members) : m.type = "sriov_pf"
  BY <1>2 DEF PfAtEnd, Range
<1> QED BY <1>2, <1>3, <1>4, TreeFacts

\* The objects of a network_config.
LEMMA ConfigFacts ==
    ASSUME config \in Configs
    PROVE  /\ Range(config) \subseteq Objects /\ Wanted \subseteq Objects
           /\ \A os : os \subseteq Range(config) => All(os) \subseteq Wanted
           /\ config \notin Invalid => \A o, p \in Wanted : o.name = p.name => o = p
           /\ \A o \in Objects : o.name \in Names /\ o.rev \in Nat /\ o.rev # Cut
<1>1. Range(config) \subseteq Objects /\ \A o \in Objects : o.rev \in Nat /\ o.rev # Cut
  BY NetConfigAssumption
<1>2. Wanted \subseteq Objects
  BY <1>1, TreeFacts DEF Wanted, All
<1>3. config \notin Invalid => \A o, p \in Wanted : o.name = p.name => o = p
  BY NetConfigAssumption DEF Wanted
<1> QED BY <1>1, <1>2, <1>3 DEF Wanted, All, Names

\* A PF at the top of a network_config is always in the first parse.
LEMMA PfsFirst ==
    ASSUME config \in Configs, NEW o \in Range(config), o.type = "sriov_pf"
    PROVE  o \in FirstObjects
<1>1. o \in Objects /\ o.members = <<>>
  BY NetConfigAssumption
<1>2. Tree[o] = {o}
  BY <1>1, TreeFacts
<1> QED BY <1>2 DEF FirstObjects, WithPf, VfNotFound

\* There is a first parse only for the sake of a PF.
LEMMA FirstHasPf ==
    ASSUME config \in Configs, FirstObjects # {}
    PROVE  Pfs # {}
<1>1. PICK o \in Range(config) : o.type = "sriov_pf" \/ check_configure_sriov[o]
  BY DEF FirstObjects, WithPf
<1>2. o \in Objects
  BY ConfigFacts
<1>3. \E p \in Tree[o] : p.type = "sriov_pf"
  BY <1>1, <1>2, CheckSound, TreeFacts
<1> QED BY <1>3 DEF Pfs, Wanted, All

(***************************************************************************)
(* The inductive invariant of NetConfig                                    *)
(***************************************************************************)
FileRecord == [rev : Nat, mark : {"osc", "uosc", "none"}]

LEMMA FileFacts ==
    /\ None \notin FileRecord /\ None \notin Nat
    /\ \A r \in Nat, m \in {"osc", "uosc", "none"} : File(r, m) \in FileRecord
    /\ \A r, m : File(r, m).rev = r /\ File(r, m).mark = m
<1>1. None \notin FileRecord /\ None \notin Nat
  BY NetConfigAssumption DEF FileRecord
<1> QED BY <1>1 DEF File, FileRecord

\* The files of network_config are written, and with cleanup there are no
\* others.
Written(marks) ==
    /\ \A o \in Wanted : \E m \in marks : files[o.name] = File(o.rev, m)
    /\ cleanup => \A n \in Names \ {o.name : o \in Wanted} : files[n] = None

\* What the run has achieved at each of its steps.
RunInv ==
    /\ phase \in {"first", "pf_up", "pfs", "second", "up"} =>
          Marked("uosc") = {} /\ config \notin Invalid
    /\ phase = "first" => FirstObjects # {}
    /\ phase \in {"in", "pf_up", "pfs", "second"} => added \subseteq Range(config)
    /\ phase \in {"first", "pf_up", "pfs"} => Pfs # {}
    /\ phase \in {"pf_up", "pfs", "second"} =>
          \A o \in Range(config) : o.type = "sriov_pf" => o \in added
    /\ phase = "up" => Written({"osc"})
    /\ phase = "out" /\ rc # 1 => Written({"osc", "uosc"})
    /\ phase = "restart" => Written({"uosc"})
    /\ exit = "ok" => phase = "idle"

\* What apply is restarting is down and has a file.
ChangedInv == \A n \in changed : files[n] # None /\ running[n] = None

IInv == TypeOK /\ RunInv /\ ChangedInv /\ SuccessMeansRunning

\* What a step may do to the interfaces that are as they should be.
KeptUp ==
    phase \notin {"idle", "restart"} /\ ~(cleanup /\ Pfs # {}) =>
        \A o \in Wanted :
            files[o.name] \in {File(o.rev, "osc"), File(o.rev, "uosc")} /\ running[o.name] # None
                => running'[o.name] = running[o.name]

LEMMA InitIInv == Init => IInv
<1> SUFFICES ASSUME Init PROVE IInv
  OBVIOUS
<1>1. TypeOK
  <2>1. files \in [Names -> [rev : Nat, mark : {"osc", "uosc", "none"}] \cup {None}]
    <3>1. File(1, "none") \in FileRecord
      BY FileFacts
    <3> QED BY <3>1 DEF Init, FileRecord
  <2>2. edits \in 0..MaxEdits /\ faults \in 0..MaxFaults
    BY NetConfigAssumption DEF Init
  <2> QED BY <2>1, <2>2 DEF Init, TypeOK
<1> QED BY <1>1 DEF Init, IInv, RunInv, ChangedInv, SuccessMeansRunning

\* A run ends without success.
LEMMA EndIInv ==
    ASSUME IInv, End("failed"), UNCHANGED <<config, running, vfs, cleanup>>,
           files' \in [Names -> FileRecord \cup {None}],
           edits' \in 0..MaxEdits, faults' \in 0..MaxFaults
    PROVE  IInv' /\ KeptUp
<1>1. TypeOK'
  BY DEF IInv, TypeOK, End, FileRecord
<1> QED BY <1>1 DEF IInv, RunInv, ChangedInv, SuccessMeansRunning, End, KeptUp

\* The replacement of the first line in one file.
LEMMA MarkFacts ==
    ASSUME TypeOK, NEW src, NEW dest \in {"osc", "uosc"}, replace_osc_string(src, dest)
    PROVE  /\ TypeOK' /\ UNCHANGED <<config, running, added, changed, cleanup, rc, phase, exit, vfs>>
           /\ \A n \in Names :
                 \/ files'[n] = files[n]
                 \/ files[n] # None /\ files'[n] = File(files[n].rev, dest)
<1>1. PICK n \in Names : /\ files[n] # None
                         /\ files' = [files EXCEPT ![n].mark = dest]
  BY DEF replace_osc_string, Marked
<1>2. files[n] \in FileRecord
  BY <1>1 DEF TypeOK, FileRecord
<1> DEFINE f == [files[n] EXCEPT !.mark = dest]
<1>3. f \in FileRecord /\ f = File(files[n].rev, dest)
  BY <1>2 DEF FileRecord, File
<1>4. files' = [files EXCEPT ![n] = f]
  BY <1>1
<1> HIDE DEF f
<1>5. files' \in [Names -> FileRecord \cup {None}]
  BY <1>3, <1>4 DEF TypeOK, FileRecord
<1>6. /\ files'[n] = f /\ \A k \in Names : k # n => files'[k] = files[k]
  BY <1>4 DEF TypeOK
<1>7. TypeOK'
  BY <1>5 DEF replace_osc_string, TypeOK, FileRecord
<1> QED BY <1>1, <1>3, <1>6, <1>7 DEF replace_osc_string

\* What apply does to the files and interfaces, if it is given objects of a
\* valid network_config.
LEMMA ApplyFacts ==
    ASSUME TypeOK, config \notin Invalid, Marked("uosc") = {},
           NEW os, os \subseteq Range(config), NEW next, Apply(os, next)
    PROVE  /\ files' \in [Names -> FileRecord \cup {None}]
           /\ running' \in [Names -> Nat \cup {None}]
           /\ changed' \subseteq Names
           /\ \A n \in changed' : files'[n] # None /\ running'[n] = None
           /\ added' = os /\ phase' = next
           /\ UNCHANGED <<config, vfs, cleanup, rc, exit, edits, faults>>
           /\ \A o \in All(os) : files'[o.name] = File(o.rev, "osc")
           /\ Marked("uosc")' = {}
           /\ cleanup => \A n \in Names \ {o.name : o \in All(os)} : files'[n] = None
           /\ (cleanup /\ Pfs = {} => os = Range(config)) => KeptUp
<1> DEFINE new == {o.name : o \in All(os)}
           differs == {o.name : o \in {p \in All(os) : files[p.name] # File(p.rev, "osc")}}
           dropped == IF cleanup THEN {n \in Names \ new : files[n] # None} ELSE {}
           of(n) == CHOOSE o \in All(os) : o.name = n
<1>1. /\ files' = [n \in Names |-> IF n \in differs THEN File(of(n).rev, "osc")
                                  ELSE IF n \in dropped THEN None ELSE files[n]]
      /\ running' = [n \in Names |-> IF n \in differs \cup dropped THEN None ELSE running[n]]
      /\ added' = os /\ changed' = differs /\ phase' = next
      /\ UNCHANGED <<config, vfs, cleanup, rc, exit, edits, faults>>
  BY DEF Apply
<1>2. /\ All(os) \subseteq Wanted /\ Wanted \subseteq Objects
      /\ \A o, p \in Wanted : o.name = p.name => o = p
      /\ \A o \in Objects : o.name \in Names /\ o.rev \in Nat
  BY ConfigFacts DEF TypeOK
<1>3. new \subseteq Names /\ differs \subseteq new /\ dropped \subseteq Names \ new
  BY <1>2
<1>4. \A o \in All(os) : of(o.name) = o
  BY <1>2
<1>5. \A n \in differs : \E o \in All(os) : n = o.name /\ files[n] # File(o.rev, "osc")
  OBVIOUS
<1>6. \A o \in All(os) : o.name \in new /\ (o.name \notin differs => files[o.name] = File(o.rev, "osc"))
  OBVIOUS
<1>7. \A n \in dropped : cleanup /\ n \in Names \ new
  OBVIOUS
<1>8. cleanup => \A n \in Names \ new : n \in dropped \/ files[n] = None
  OBVIOUS
<1>9. \A r \in Nat : File(r, "osc") \in FileRecord /\ File(r, "osc") # None
                     /\ File(r, "osc").mark = "osc"
  BY FileFacts
<1>10. cleanup /\ os = Range(config) => \A o \in Wanted : o.name \in new
  BY DEF Wanted
<1>11. {o.name : o \in All(os)} = new
  OBVIOUS
<1> HIDE DEF new, differs, dropped, of
<1>12. \A n \in differs : File(of(n).rev, "osc") \in FileRecord
  BY <1>2, <1>4, <1>5, <1>9
<1>13. files' \in [Names -> FileRecord \cup {None}]
  BY <1>1, <1>12 DEF TypeOK, FileRecord
<1>14. running' \in [Names -> Nat \cup {None}]
  BY <1>1 DEF TypeOK
<1>15. \A n \in changed' : files'[n] # None /\ running'[n] = None
  BY <1>1, <1>2, <1>3, <1>4, <1>5, <1>9
<1>16. \A o \in All(os) : files'[o.name] = File(o.rev, "osc")
  BY <1>1, <1>2, <1>3, <1>4, <1>6
<1>17. Marked("uosc")' = {}
  <2>1. ASSUME NEW n \in Names, files'[n] # None, files'[n].mark = "uosc" PROVE FALSE
    <3>1. CASE n \in differs
      BY <1>1, <1>2, <1>4, <1>5, <1>9, <2>1, <3>1
    <3>2. CASE n \notin differs
      BY <1>1, <2>1, <3>2 DEF Marked
    <3> QED BY <3>1, <3>2
  <2> QED BY <2>1 DEF Marked
<1>18. cleanup => \A n \in Names \ new : files'[n] = None
  BY <1>1, <1>3, <1>8
<1>19. ASSUME cleanup /\ Pfs = {} => os = Range(config) PROVE KeptUp
  <2> SUFFICES ASSUME ~(cleanup /\ Pfs # {}), NEW o \in Wanted,
                      files[o.name] \in {File(o.rev, "osc"), File(o.rev, "uosc")}
               PROVE  running'[o.name] = running[o.name]
    BY DEF KeptUp
  <2>1. o.name \in Names /\ o.rev \in Nat
    BY <1>2
  <2>2. files[o.name] = File(o.rev, "osc")
    <3>1. File(o.rev, "uosc") # None /\ File(o.rev, "uosc").mark = "uosc"
      BY <2>1, FileFacts
    <3> QED BY <2>1, <3>1 DEF Marked
  <2>3. o.name \notin differs
    BY <1>2, <1>5, <2>2
  <2>4. o.name \notin dropped
    BY <1>7, <1>10, <1>19
  <2> QED BY <1>1, <2>1, <2>3, <2>4
<1> QED BY <1>1, <1>3, <1>11, <1>13, <1>14, <1>15, <1>16, <1>17, <1>18, <1>19

(***************************************************************************)
(* The actions of NetConfig                                                *)
(***************************************************************************)
\* What network_config wants does not depend on the rest of the state.
LEMMA SameConfig ==
    ASSUME UNCHANGED config
    PROVE  Wanted' = Wanted /\ Pfs' = Pfs
BY DEF Wanted, Pfs

\* A step of a run that has not succeeded.
LEMMA NotOver ==
    ASSUME IInv, phase # "idle" \/ exit # "ok", UNCHANGED exit
    PROVE  exit' # "ok" /\ SuccessMeansRunning'
BY DEF IInv, RunInv, SuccessMeansRunning

\* Steps that leave the interfaces alone.
LEMMA Quiet == ASSUME UNCHANGED running PROVE KeptUp
BY DEF KeptUp

LEMMA StartStep ==
    ASSUME IInv, NEW c \in BOOLEAN, Start(c)
    PROVE  IInv' /\ KeptUp
<1>1. TypeOK'
  BY DEF IInv, TypeOK, Start, host
<1>2. RunInv' /\ ChangedInv' /\ SuccessMeansRunning'
  BY DEF IInv, TypeOK, RunInv, ChangedInv, SuccessMeansRunning, Start, host
<1> QED BY <1>1, <1>2 DEF IInv, KeptUp, Start

LEMMA MarkInStep ==
    ASSUME IInv, MarkIn
    PROVE  IInv' /\ KeptUp
<1>1. /\ TypeOK' /\ UNCHANGED <<config, running, added, changed, cleanup, rc, phase, exit, vfs>>
      /\ phase = "in" /\ \A n \in Names : files[n] # None => files'[n] # None
  <2>1. TypeOK /\ replace_osc_string("uosc", "osc") /\ phase = "in"
    BY DEF IInv, MarkIn
  <2>2. \A n \in Names : files[n] # None => File(files[n].rev, "osc") # None
    BY <2>1, FileFacts DEF TypeOK, FileRecord
  <2> QED BY <2>1, <2>2, MarkFacts
<1>2. exit' # "ok" /\ SuccessMeansRunning'
  BY <1>1, NotOver
<1>3. RunInv'
  BY <1>1, <1>2 DEF IInv, RunInv
<1>4. ChangedInv'
  BY <1>1 DEF IInv, TypeOK, ChangedInv
<1> QED BY <1>1, <1>2, <1>3, <1>4, Quiet DEF IInv

LEMMA MarkOutStep ==
    ASSUME IInv, MarkOut
    PROVE  IInv' /\ KeptUp
<1>1. /\ TypeOK' /\ UNCHANGED <<config, running, added, changed, cleanup, rc, phase, exit, vfs>>
      /\ phase = "out"
      /\ \A n \in Names : \/ files'[n] = files[n]
                          \/ files[n] # None /\ files'[n] = File(files[n].rev, "uosc")
  BY MarkFacts DEF IInv, MarkOut
<1>2. \A n \in Names : files[n] # None => files'[n] # None
  BY <1>1, FileFacts DEF IInv, TypeOK, FileRecord
<1>3. exit' # "ok" /\ SuccessMeansRunning'
  BY <1>1, NotOver
<1>4. RunInv'
  <2>1. Wanted' = Wanted
    BY <1>1, SameConfig
  <2>2. ASSUME Written({"osc", "uosc"}) PROVE Written({"osc", "uosc"})'
    <3>1. ASSUME NEW o \in Wanted
          PROVE  \E m \in {"osc", "uosc"} : files'[o.name] = File(o.rev, m)
      <4>1. o.name \in Names /\ o.rev \in Nat
        BY ConfigFacts DEF IInv, TypeOK
      <4>2. files[o.name].rev = o.rev
        BY <2>2, FileFacts DEF Written
      <4> QED BY <1>1, <2>2, <4>1, <4>2 DEF Written
    <3>2. ASSUME cleanup, NEW n \in Names \ {o.name : o \in Wanted}
          PROVE  files'[n] = None
      BY <1>1, <2>2, <3>2 DEF Written
    <3> QED BY <1>1, <2>1, <3>1, <3>2 DEF Written
  <2> QED BY <1>1, <1>3, <2>2 DEF IInv, RunInv
<1>5. ChangedInv'
  BY <1>1, <1>2 DEF IInv, TypeOK, ChangedInv
<1> QED BY <1>1, <1>3, <1>4, <1>5, Quiet DEF IInv

LEMMA RefuseStep ==
    ASSUME IInv, Refuse
    PROVE  IInv' /\ KeptUp
<1>1. TypeOK'
  BY DEF IInv, TypeOK, Refuse, host
<1>2. RunInv' /\ ChangedInv' /\ SuccessMeansRunning'
  BY DEF IInv, RunInv, ChangedInv, SuccessMeansRunning, Refuse, host
<1> QED BY <1>1, <1>2, Quiet DEF IInv, Refuse, host

LEMMA ParseStep ==
    ASSUME IInv, Parse
    PROVE  IInv' /\ KeptUp
<1>1. TypeOK'
  BY DEF IInv, TypeOK, Parse, host
<1>2. /\ phase = "in" /\ Marked("uosc")' = {} /\ config' \notin Invalid
      /\ phase' = IF FirstObjects = {} THEN "second" ELSE "first"
      /\ UNCHANGED <<config, files, running, vfs, added, changed, cleanup, rc, exit>>
  BY DEF Parse, Replaced, Marked, host
<1>3. exit' # "ok" /\ SuccessMeansRunning'
  BY <1>2, NotOver
<1>4. RunInv'
  <2>1. FirstObjects' = FirstObjects /\ Pfs' = Pfs
    BY <1>2, SameConfig DEF FirstObjects, WithPf, VfNotFound
  <2>2. CASE FirstObjects = {}
    BY <1>2, <1>3, <2>2, PfsFirst DEF IInv, TypeOK, RunInv
  <2>3. CASE FirstObjects # {}
    BY <1>2, <1>3, <2>1, <2>3, FirstHasPf DEF IInv, TypeOK, RunInv
  <2> QED BY <2>2, <2>3
<1>5. ChangedInv'
  BY <1>2 DEF IInv, ChangedInv
<1> QED BY <1>1, <1>2, <1>3, <1>4, <1>5, Quiet DEF IInv

LEMMA FirstApplyStep ==
    ASSUME IInv, FirstApply
    PROVE  IInv' /\ KeptUp
<1>1. /\ phase = "first" /\ TypeOK /\ config \notin Invalid /\ Marked("uosc") = {}
      /\ FirstObjects # {} /\ FirstObjects \subseteq Range(config) /\ Pfs # {}
      /\ Apply(FirstObjects, "pf_up")
  BY DEF IInv, RunInv, FirstApply, FirstObjects, WithPf
<1>2. /\ files' \in [Names -> FileRecord \cup {None}] /\ running' \in [Names -> Nat \cup {None}]
      /\ changed' \subseteq Names /\ ChangedInv' /\ Marked("uosc")' = {} /\ KeptUp
      /\ added' = FirstObjects /\ phase' = "pf_up"
      /\ UNCHANGED <<config, vfs, cleanup, rc, exit, edits, faults>>
  BY <1>1, ApplyFacts DEF ChangedInv
<1>3. TypeOK'
  BY <1>1, <1>2, ConfigFacts DEF TypeOK, FileRecord
<1>4. exit' # "ok" /\ SuccessMeansRunning'
  BY <1>1, <1>2, NotOver
<1>5. RunInv'
  <2>1. Pfs' # {}
    BY <1>1, <1>2, SameConfig
  <2>2. \A o \in Range(config) : o.type = "sriov_pf" => o \in added'
    BY <1>1, <1>2, PfsFirst DEF TypeOK
  <2> QED BY <1>1, <1>2, <1>4, <2>1, <2>2 DEF RunInv
<1> QED BY <1>2, <1>3, <1>4, <1>5 DEF IInv

LEMMA UpStep ==
    ASSUME IInv, Up
    PROVE  IInv' /\ KeptUp
<1>1. /\ phase \in {"pf_up", "up"} /\ phase' = IF phase = "up" THEN "out" ELSE "pfs"
      /\ running' = [n \in Names |-> IF n \in changed THEN files[n].rev ELSE running[n]]
      /\ changed' = {} /\ UNCHANGED <<config, files, vfs, added, cleanup, rc, exit, edits, faults>>
  BY DEF Up
<1>2. \A n \in changed : files[n].rev \in Nat
  BY FileFacts DEF IInv, TypeOK, ChangedInv, FileRecord
<1>3. TypeOK'
  <2>1. running' \in [Names -> Nat \cup {None}]
    BY <1>1, <1>2 DEF IInv, TypeOK
  <2> QED BY <1>1, <2>1 DEF IInv, TypeOK
<1>4. exit' # "ok" /\ SuccessMeansRunning'
  BY <1>1, NotOver
<1>5. RunInv'
  <2>1. Wanted' = Wanted /\ Pfs' = Pfs /\ Marked("uosc")' = Marked("uosc")
    BY <1>1, SameConfig DEF Marked
  <2>2. CASE phase = "up"
    <3>1. Written({"osc", "uosc"})'
      BY <1>1, <2>1, <2>2 DEF IInv, RunInv, Written
    <3> QED BY <1>1, <1>4, <2>2, <3>1 DEF RunInv
  <2>3. CASE phase = "pf_up"
    BY <1>1, <1>4, <2>1, <2>3 DEF IInv, RunInv
  <2> QED BY <1>1, <2>2, <2>3
<1>6. ChangedInv' /\ KeptUp
  <2>1. \A o \in Wanted : o.name \in Names
    BY ConfigFacts DEF IInv, TypeOK
  <2> QED BY <1>1, <2>1 DEF IInv, ChangedInv, KeptUp
<1> QED BY <1>3, <1>4, <1>5, <1>6 DEF IInv

LEMMA SriovStep ==
    ASSUME IInv, configure_sriov_pfs
    PROVE  IInv' /\ KeptUp
<1>1. /\ phase = "pfs" /\ phase' = "second"
      /\ UNCHANGED <<config, files, running, added, changed, cleanup, rc, exit, edits, faults>>
      /\ vfs' = vfs \cup {o.name : o \in {p \in All(added) : p.type = "sriov_pf"}}
  BY DEF configure_sriov_pfs
<1>2. vfs' \subseteq Names
  <2>1. All(added) \subseteq Wanted /\ \A o \in Wanted : o.name \in Names
    BY <1>1, ConfigFacts DEF IInv, TypeOK, RunInv
  <2> QED BY <1>1, <2>1 DEF IInv, TypeOK
<1>3. TypeOK'
  BY <1>1, <1>2 DEF IInv, TypeOK
<1>4. exit' # "ok" /\ SuccessMeansRunning'
  BY <1>1, NotOver
<1>5. RunInv' /\ ChangedInv'
  <2>1. Marked("uosc")' = Marked("uosc")
    BY <1>1 DEF Marked
  <2> QED BY <1>1, <1>4, <2>1 DEF IInv, RunInv, ChangedInv
<1> QED BY <1>1, <1>3, <1>4, <1>5, Quiet DEF IInv

LEMMA SecondApplyStep ==
    ASSUME IInv, SecondApply
    PROVE  IInv' /\ KeptUp
<1>1. /\ phase = "second" /\ TypeOK /\ config \notin Invalid /\ Marked("uosc") = {}
      /\ added \cup Others = Range(config) /\ Apply(added \cup Others, "up")
  BY DEF IInv, RunInv, SecondApply, Others
<1>2. /\ files' \in [Names -> FileRecord \cup {None}] /\ running' \in [Names -> Nat \cup {None}]
      /\ changed' \subseteq Names /\ ChangedInv' /\ Marked("uosc")' = {} /\ KeptUp
      /\ added' = Range(config) /\ phase' = "up"
      /\ UNCHANGED <<config, vfs, cleanup, rc, exit, edits, faults>>
      /\ \A o \in All(Range(config)) : files'[o.name] = File(o.rev, "osc")
      /\ cleanup => \A n \in Names \ {o.name : o \in All(Range(config))} : files'[n] = None
  BY <1>1, ApplyFacts DEF ChangedInv
<1>3. TypeOK'
  BY <1>1, <1>2, ConfigFacts DEF TypeOK, FileRecord
<1>4. exit' # "ok" /\ SuccessMeansRunning'
  BY <1>1, <1>2, NotOver
<1>5. RunInv'
  <2>1. Wanted' = Wanted
    BY <1>2, SameConfig
  <2>2. Written({"osc"})'
    BY <1>2, <2>1 DEF Written, Wanted
  <2> QED BY <1>1, <1>2, <1>4, <2>2 DEF RunInv
<1> QED BY <1>2, <1>3, <1>4, <1>5 DEF IInv

LEMMA RaiseStep ==
    ASSUME IInv, Raise
    PROVE  IInv' /\ KeptUp
<1>1. /\ End("failed") /\ UNCHANGED <<config, running, vfs, cleanup>>
      /\ files' \in [Names -> FileRecord \cup {None}]
      /\ edits' \in 0..MaxEdits /\ faults' \in 0..MaxFaults
  BY DEF IInv, TypeOK, Raise, host, FileRecord
<1> QED BY <1>1, EndIInv

LEMMA ExitStep ==
    ASSUME IInv, Exit
    PROVE  IInv' /\ KeptUp
<1>1. /\ phase = "out" /\ Marked("osc") = {}
      /\ UNCHANGED <<config, files, running, vfs, cleanup, edits, faults>>
  BY DEF Exit, host
<1>2. CASE rc = 1
  <2>1. End("failed")
    BY <1>2 DEF Exit
  <2> QED BY <1>1, <2>1, EndIInv DEF IInv, TypeOK, FileRecord
<1>3. CASE rc # 1
  <2>1. phase' = "restart" /\ UNCHANGED <<added, changed, rc, exit>>
    BY <1>3 DEF Exit
  <2>2. TypeOK'
    BY <1>1, <2>1 DEF IInv, TypeOK
  <2>3. exit' # "ok" /\ SuccessMeansRunning'
    BY <1>1, <2>1, NotOver
  <2>4. RunInv'
    <3>1. Wanted' = Wanted
      BY <1>1, SameConfig
    <3>2. ASSUME NEW o \in Wanted PROVE files[o.name] = File(o.rev, "uosc")
      <4>1. o.name \in Names /\ o.rev \in Nat
        BY ConfigFacts DEF IInv, TypeOK
      <4>2. File(o.rev, "osc") # None /\ File(o.rev, "osc").mark = "osc"
        BY <4>1, FileFacts
      <4>3. files[o.name] # File(o.rev, "osc")
        BY <1>1, <4>1, <4>2 DEF Marked
      <4> QED BY <1>1, <1>3, <4>3 DEF IInv, RunInv, Written
    <3>3. Written({"uosc"})'
      BY <1>1, <1>3, <3>1, <3>2 DEF IInv, RunInv, Written
    <3> QED BY <2>1, <2>3, <3>3 DEF RunInv
  <2> QED BY <1>1, <2>1, <2>2, <2>3, <2>4, Quiet DEF IInv, ChangedInv
<1> QED BY <1>2, <1>3

LEMMA RestartStep ==
    ASSUME IInv, RestartNetwork
    PROVE  IInv' /\ KeptUp
<1> DEFINE up(n) == IF files[n] = None \/ files[n] = File(Cut, "none") THEN None
                    ELSE files[n].rev
<1>1. /\ phase = "restart" /\ End("ok") /\ running' = [n \in Names |-> up(n)]
      /\ UNCHANGED <<config, files, vfs, cleanup, edits, faults>>
  BY DEF RestartNetwork
<1>2. \A n \in Names : up(n) \in Nat \cup {None}
  BY FileFacts DEF IInv, TypeOK, FileRecord
<1>3. Wanted' = Wanted
  BY <1>1, SameConfig
<1>4. ASSUME NEW o \in Wanted
      PROVE  o.name \in Names /\ files[o.name] = File(o.rev, "uosc") /\ up(o.name) = o.rev
  <2>1. o.name \in Names /\ o.rev \in Nat /\ o.rev # Cut
    BY ConfigFacts DEF IInv, TypeOK
  <2>2. files[o.name] = File(o.rev, "uosc")
    BY <1>1 DEF IInv, RunInv, Written
  <2>3. /\ File(o.rev, "uosc") # None /\ File(o.rev, "uosc").rev = o.rev
        /\ File(o.rev, "uosc").mark # File(Cut, "none").mark
    BY <2>1, FileFacts
  <2> QED BY <2>1, <2>2, <2>3
<1>5. cleanup => \A n \in Names \ {o.name : o \in Wanted} : up(n) = None
  BY <1>1 DEF IInv, RunInv, Written
<1> HIDE DEF up
<1>6. TypeOK'
  BY <1>1, <1>2 DEF IInv, TypeOK, End
<1>7. SuccessMeansRunning'
  <2>1. \A o \in Wanted : running'[o.name] = o.rev /\ files'[o.name] = File(o.rev, "uosc")
    BY <1>1, <1>4
  <2>2. cleanup' => \A n \in Names \ {o.name : o \in Wanted} : running'[n] = None
    BY <1>1, <1>5
  <2> QED BY <1>3, <2>1, <2>2 DEF SuccessMeansRunning, InForce
<1>8. RunInv' /\ ChangedInv' /\ KeptUp
  BY <1>1 DEF RunInv, ChangedInv, KeptUp, End
<1> QED BY <1>6, <1>7, <1>8 DEF IInv

LEMMA FailsStep ==
    ASSUME IInv, Fails
    PROVE  IInv' /\ KeptUp
<1>1. End("failed") /\ UNCHANGED <<config, running, vfs, cleanup, edits>>
  BY DEF Fails
<1>2. files' \in [Names -> FileRecord \cup {None}]
  <2>1. files \in [Names -> FileRecord \cup {None}]
    BY DEF IInv, TypeOK, FileRecord
  <2>2. File(Cut, "none") \in FileRecord
    BY FileFacts DEF Cut
  <2> QED BY <2>1, <2>2 DEF Fails
<1>3. edits' \in 0..MaxEdits /\ faults' \in 0..MaxFaults
  BY NetConfigAssumption DEF IInv, TypeOK, Fails
<1> QED BY <1>1, <1>2, <1>3, EndIInv

LEMMA EditStep ==
    ASSUME IInv, EditConfig
    PROVE  IInv' /\ KeptUp
<1>1. TypeOK'
  BY NetConfigAssumption DEF IInv, TypeOK, EditConfig, host
<1> QED BY <1>1 DEF IInv, TypeOK, RunInv, ChangedInv, SuccessMeansRunning, EditConfig, host, KeptUp

LEMMA NextStep ==
    ASSUME IInv, [Next]_vars
    PROVE  IInv' /\ [KeptUp]_vars
<1>1. ASSUME UNCHANGED vars PROVE IInv'
  BY <1>1 DEF vars, host, IInv, TypeOK, RunInv, ChangedInv, SuccessMeansRunning, InForce,
              Written, Wanted, Pfs, Marked, FirstObjects, WithPf, VfNotFound
<1>2. ASSUME Next PROVE IInv' /\ KeptUp
  BY <1>2, MarkInStep, RefuseStep, ParseStep, FirstApplyStep, UpStep, SriovStep,
     SecondApplyStep, RaiseStep, MarkOutStep, ExitStep, RestartStep, FailsStep, EditStep,
     StartStep DEF Next, Play
<1> QED BY <1>1, <1>2

LEMMA Invariance == Spec => []IInv
<1>1. IInv /\ [Next]_vars => IInv'
  BY NextStep
<1> QED BY InitIInv, <1>1, PTL DEF Spec

(***************************************************************************)
(* Results about NetConfig                                                 *)
(***************************************************************************)
\* uos_net_config: whatever a run finds and wherever it is cut, the files,
\* interfaces and the provider's objects are what they should be.
THEOREM NetTypeOK == Spec => []TypeOK
BY Invariance, PTL DEF IInv

\* uos_net_config and the restart of the network service: a run that succeeds
\* leaves every interface of any network_config running as configured, and
\* with cleanup no other, whatever earlier runs were cut in the middle of.
THEOREM NetSuccessMeansRunning == Spec => []SuccessMeansRunning
BY Invariance, PTL DEF IInv

\* uos_net_config: no step takes an interface down whose file holds what is
\* wanted, except the first of two applies with cleanup.
THEOREM NetUntouchedKeptUp == Spec => UntouchedKeptUp
<1>1. IInv /\ [Next]_vars => [KeptUp]_vars
  BY NextStep
<1>2. Spec => [][KeptUp]_vars
  BY Invariance, <1>1, PTL DEF Spec
<1> QED BY <1>2 DEF UntouchedKeptUp, KeptUp

(***************************************************************************)
(* The rows of a host                                                      *)
(***************************************************************************)
Less == {p \in Nat \X Nat : p[1] < p[2]}

LEMMA LessWellFounded == IsWellFoundedOn(Less, Nat)
BY NatLessThanWellFounded DEF OpToRel, Less

LEMMA Least ==
    ASSUME NEW S, S \subseteq Nat, S # {}
    PROVE  \E m \in S : \A k \in S : m <= k
<1>1. PICK m \in S : \A k \in S : <<k, m>> \notin Less
  BY LessWellFounded, WFMin
<1>2. ASSUME NEW k \in S PROVE m <= k
  <2>1. m \in Nat /\ k \in Nat /\ <<k, m>> \notin Less
    BY <1>1
  <2>2. ~(k < m)
    BY <2>1 DEF Less
  <2> QED BY <2>1, <2>2
<1> QED BY <1>2

LEMMA Greatest ==
    ASSUME NEW n \in Nat, NEW S, S \subseteq 1..n, S # {}
    PROVE  \E m \in S : \A k \in S : k <= m
<1> DEFINE T == {n - k : k \in S}
<1>1. T \subseteq Nat /\ T # {}
  <2>1. \A k \in 1..n : n - k \in Nat
    OBVIOUS
  <2> QED BY <2>1
<1>2. PICK t \in T : \A u \in T : t <= u
  <2> HIDE DEF T
  <2> QED BY <1>1, Least
<1>3. PICK m \in S : t = n - m
  OBVIOUS
<1>4. ASSUME NEW k \in S PROVE k <= m
  <2>1. n - k \in T /\ k \in 1..n /\ m \in 1..n
    OBVIOUS
  <2>2. n - m <= n - k
    BY <1>2, <1>3, <2>1
  <2> QED BY <2>1, <2>2
<1> QED BY <1>4

\* Files of rows.
Lists(fs) == DOMAIN fs = 1..2 /\ \A k \in 1..2 : \E n \in Nat : DOMAIN fs[k] = 1..n

\* Of some rows one is the last.
LEMMA LastPlace ==
    ASSUME NEW fs, Lists(fs), NEW S, S \subseteq Places(fs), S # {}
    PROVE  \E p \in S : \A q \in S : ~Before(p, q)
<1>1. \A p \in S : p[1] \in 1..2 /\ p[2] \in DOMAIN fs[p[1]] /\ p = <<p[1], p[2]>>
  BY DEF Places, Lists
<1> DEFINE K == {p[1] : p \in S}
<1>2. PICK k \in K : \A j \in K : j <= k
  <2>1. K \subseteq 1..2 /\ K # {} /\ 2 \in Nat
    BY <1>1
  <2> HIDE DEF K
  <2> QED BY <2>1, Greatest
<1> DEFINE I == {p[2] : p \in {q \in S : q[1] = k}}
<1>3. k \in 1..2 /\ I # {}
  BY <1>1, <1>2
<1>4. PICK n \in Nat : DOMAIN fs[k] = 1..n
  BY <1>3 DEF Lists
<1>5. I \subseteq 1..n
  BY <1>1, <1>4
<1>6. PICK i \in I : \A j \in I : j <= i
  <2> HIDE DEF I
  <2> QED BY <1>3, <1>5, Greatest
<1>7. PICK p \in S : p[1] = k /\ p[2] = i
  BY <1>6
<1>8. ASSUME NEW q \in S PROVE ~Before(p, q)
  <2>1. q[1] <= k /\ q[1] \in 1..2
    BY <1>1, <1>2
  <2>2. q[1] = k => q[2] <= i /\ q[2] \in 1..n
    BY <1>1, <1>4, <1>6
  <2>3. i \in 1..n
    BY <1>5, <1>6
  <2> QED BY <1>3, <1>7, <2>1, <2>2, <2>3 DEF Before
<1> QED BY <1>8

\* What the plugin returns is the cell of a row of the host.
LEMMA VarFacts ==
    ASSUME NEW fs, Lists(fs), NEW h, NEW v, Var(h, v, fs) # Undefined
    PROVE  \E p \in RowsOf(h, fs) :
              v \in DOMAIN RowAt(fs, p).vlans /\ Var(h, v, fs) = RowAt(fs, p).vlans[v]
<1> DEFINE with == {p \in RowsOf(h, fs) : v \in DOMAIN RowAt(fs, p).vlans}
           last == CHOOSE p \in with : \A q \in with : ~Before(p, q)
<1>1. with # {} /\ Var(h, v, fs) = RowAt(fs, last).vlans[v]
  BY DEF Var
<1>2. with \subseteq Places(fs)
  BY DEF RowsOf
<1>3. last \in with
  <2> HIDE DEF with
  <2> QED BY <1>1, <1>2, LastPlace
<1> QED BY <1>1, <1>3

\* A cell of the only row of a host is its variable.
LEMMA OnlyRow ==
    ASSUME NEW fs, Lists(fs), NEW h, NEW v, NEW p, RowsOf(h, fs) = {p}, v \in DOMAIN RowAt(fs, p).vlans
    PROVE  Var(h, v, fs) = RowAt(fs, p).vlans[v]
<1> DEFINE with == {q \in RowsOf(h, fs) : v \in DOMAIN RowAt(fs, q).vlans}
           last == CHOOSE q \in with : \A r \in with : ~Before(q, r)
<1>1. with = {p}
  OBVIOUS
<1>2. Var(h, v, fs) = RowAt(fs, last).vlans[v]
  BY <1>1 DEF Var
<1>3. last \in with
  <2>1. with # {} /\ with \subseteq Places(fs)
    BY <1>1 DEF RowsOf
  <2> HIDE DEF with
  <2> QED BY <2>1, LastPlace
<1> QED BY <1>1, <1>2, <1>3

\* The rows that may be read.
LEMMA RowFacts ==
    ASSUME NEW s \in Sites \cup OtherFiles
    PROVE  /\ Len(s) \in Nat /\ DOMAIN s = 1..Len(s)
           /\ \A i \in DOMAIN s : /\ s[i] \in Rows /\ s[i].hostname \in DOMAIN Short
                                 /\ s[i].vlans \in [DOMAIN s[i].vlans -> Addresses]
                                 /\ DOMAIN s[i].vlans \subseteq Columns
<1>1. s \in Seq(Rows)
  BY NetworkCheckAssumption
<1> QED BY <1>1, NetworkCheckAssumption

Listings == {<<csv, other>>, <<other, csv>>}

LEMMA ListingsFacts ==
    ASSUME csv \in Sites, other \in OtherFiles, found \in Listings
    PROVE  /\ Lists(found)
           /\ \A h, v : Var(h, v, found) # Undefined => Var(h, v, found) \in Addresses
<1>1. \A k \in 1..2 : found[k] \in Sites \cup OtherFiles
  BY DEF Listings
<1>2. DOMAIN found = 1..2
  BY DEF Listings
<1>3. Lists(found)
  BY <1>1, <1>2, RowFacts DEF Lists
<1>4. ASSUME NEW h, NEW v, Var(h, v, found) # Undefined PROVE Var(h, v, found) \in Addresses
  <2>1. PICK p \in RowsOf(h, found) :
           v \in DOMAIN RowAt(found, p).vlans /\ Var(h, v, found) = RowAt(found, p).vlans[v]
    BY <1>3, <1>4, VarFacts
  <2>2. p[1] \in 1..2 /\ p[2] \in DOMAIN found[p[1]]
    BY <1>2, <2>1 DEF RowsOf, Places
  <2>3. RowAt(found, p).vlans \in [DOMAIN RowAt(found, p).vlans -> Addresses]
    BY <1>1, <2>2, RowFacts DEF RowAt
  <2> QED BY <2>1, <2>3
<1> QED BY <1>3, <1>4

\* What genhost writes are names and addresses of rows.
LEMMA HostsFacts ==
    ASSUME CheckTypeOK, genhost
    PROVE  lines' \in [DOMAIN lines' -> {r.pxe : r \in Rows}] /\ DOMAIN lines' \subseteq DOMAIN Short
<1> DEFINE first(n) == CHOOSE i \in DOMAIN csv :
               csv[i].hostname = n /\ \A j \in DOMAIN csv : csv[j].hostname = n => i <= j
           D == DOMAIN lines \cup Missing(csv, lines)
           line(n) == IF n \in DOMAIN lines THEN lines[n] ELSE csv[first(n)].pxe
<1>1. lines' = [n \in D |-> line(n)]
  BY DEF genhost, parse_hosts
<1>2. DOMAIN csv \subseteq Nat /\ \A i \in DOMAIN csv : csv[i] \in Rows /\ csv[i].hostname \in DOMAIN Short
  BY RowFacts DEF CheckTypeOK
<1>3. ASSUME NEW n \in Missing(csv, lines) PROVE n \in DOMAIN Short /\ first(n) \in DOMAIN csv
  <2> DEFINE S == {i \in DOMAIN csv : csv[i].hostname = n}
  <2>1. S \subseteq Nat /\ S # {} /\ n \in DOMAIN Short
    BY <1>2 DEF Missing
  <2>2. \E i \in S : \A j \in S : i <= j
    <3> HIDE DEF S
    <3> QED BY <2>1, Least
  <2> QED BY <2>1, <2>2
<1> HIDE DEF first
<1>4. \A n \in D : line(n) \in {r.pxe : r \in Rows}
  BY <1>2, <1>3 DEF CheckTypeOK
<1>5. D \subseteq DOMAIN Short
  BY <1>3 DEF CheckTypeOK
<1> HIDE DEF D, line
<1> QED BY <1>1, <1>4, <1>5

(***************************************************************************)
(* The inductive invariant of NetworkCheck, and its actions                *)
(***************************************************************************)
\* Where a play is: the files it read are those on disk, and what it found
\* holds of the hosts that have not failed.
CheckInv ==
    /\ stage = "idle" => found = <<>>
    /\ stage # "idle" => outcome = "none" /\ found \in Listings
    /\ stage = "configure" => done = [h \in Hosts |-> {}]
    /\ stage = "check" => \A h \in Hosts \ failed : \A item \in done[h] :
          Skipped(h, item) \/ Answers(h, item)

CheckIInv == CheckTypeOK /\ CheckInv /\ SuccessMeansChecked

LEMMA CheckInitIInv == CheckInit => CheckIInv
<1> SUFFICES ASSUME CheckInit PROVE CheckIInv
  OBVIOUS
<1>1. CheckTypeOK
  BY NetworkCheckAssumption DEF CheckInit, CheckTypeOK, Addresses
<1> QED BY <1>1 DEF CheckInit, CheckIInv, CheckInv, SuccessMeansChecked

\* Only the files, the network and the addresses decide.
LEMMA SameFiles ==
    ASSUME SuccessMeansChecked, UNCHANGED <<csv, other, net, address, outcome>>
    PROVE  SuccessMeansChecked'
BY DEF SuccessMeansChecked, OneRow, Mine, Row, Good

LEMMA GenhostStep == ASSUME CheckIInv, genhost PROVE CheckIInv'
<1>1. CheckTypeOK'
  BY HostsFacts DEF CheckIInv, CheckTypeOK, genhost, given
<1>2. CheckInv' /\ SuccessMeansChecked'
  BY SameFiles DEF CheckIInv, CheckInv, genhost, given, Listings
<1> QED BY <1>1, <1>2 DEF CheckIInv

LEMMA StartPlayStep == ASSUME CheckIInv, StartPlay PROVE CheckIInv'
<1>1. CheckTypeOK'
  BY DEF CheckIInv, CheckTypeOK, StartPlay, given
<1> QED BY <1>1 DEF CheckIInv, CheckInv, SuccessMeansChecked, StartPlay, given, Listings

LEMMA ConfigureStep == ASSUME CheckIInv, Configure PROVE CheckIInv'
<1> DEFINE lost == {h \in Hosts : ~Connects(h)}
           cell(h, v) == IF h \notin lost /\ Var(h, v, found) # Undefined
                         THEN Var(h, v, found) ELSE address[h][v]
<1>1. /\ stage = "configure" /\ stage' = "check" /\ failed' = lost /\ lost \subseteq Hosts
      /\ address' = [h \in Hosts |-> [v \in Columns |-> cell(h, v)]]
      /\ UNCHANGED <<csv, other, net, changes, lines, found, done, outcome>>
  BY DEF Configure, given
<1>2. \A h \in Hosts, v \in Columns : cell(h, v) \in Addresses
  BY <1>1, ListingsFacts DEF CheckIInv, CheckInv, CheckTypeOK
<1> HIDE DEF cell, lost
<1>3. CheckTypeOK'
  BY <1>1, <1>2 DEF CheckIInv, CheckTypeOK
<1>4. CheckInv' /\ SuccessMeansChecked'
  BY <1>1 DEF CheckIInv, CheckInv, SuccessMeansChecked, Listings
<1> QED BY <1>3, <1>4 DEF CheckIInv

LEMMA PingStep == ASSUME CheckIInv, NEW h \in Hosts, PingNext(h) PROVE CheckIInv'
<1> DEFINE item == CHOOSE i \in Items \ done[h] : TRUE
           reached == Skipped(h, item) \/ Connects(h)
<1>1. /\ stage = "check" /\ Items \ done[h] # {}
      /\ done' = [done EXCEPT ![h] = IF reached THEN @ \cup {item} ELSE Items]
      /\ failed' = IF Skipped(h, item) \/ (reached /\ Answers(h, item)) THEN failed
                   ELSE failed \cup {h}
      /\ UNCHANGED <<csv, other, net, changes, lines, address, found, stage, outcome>>
  BY DEF PingNext, Running, given
<1>2. item \in Items /\ Items \subseteq [vlan : Columns, to : Hosts]
  BY <1>1 DEF Items, vlans
<1>3. CheckTypeOK'
  BY <1>1, <1>2 DEF CheckIInv, CheckTypeOK
<1>4. CheckInv'
  <2>1. ASSUME NEW g \in Hosts \ failed', NEW i \in done'[g]
        PROVE  Skipped(g, i) \/ Answers(g, i)
    <3>1. g \notin failed
      BY <1>1, <2>1
    <3>2. CASE g # h
      BY <1>1, <3>1, <3>2, <2>1 DEF CheckIInv, CheckTypeOK, CheckInv
    <3>3. CASE g = h
      <4>1. Skipped(h, item) \/ (reached /\ Answers(h, item))
        BY <1>1, <3>3, <2>1
      <4>2. done'[h] = done[h] \cup {item}
        BY <1>1, <4>1 DEF CheckIInv, CheckTypeOK
      <4> HIDE DEF item
      <4> QED BY <1>1, <3>1, <3>3, <4>1, <4>2, <2>1 DEF CheckIInv, CheckInv
    <3> QED BY <3>2, <3>3
  <2>2. \A g, i : Skipped(g, i)' = Skipped(g, i) /\ Answers(g, i)' = Answers(g, i)
    BY <1>1 DEF Skipped, Answers
  <2> QED BY <1>1, <2>1, <2>2 DEF CheckIInv, CheckInv, Listings
<1>5. SuccessMeansChecked'
  BY <1>1, SameFiles DEF CheckIInv
<1> QED BY <1>3, <1>4, <1>5 DEF CheckIInv

\* A machine with one row has its columns as its variables.
LEMMA OneRowVar ==
    ASSUME CheckTypeOK, found \in Listings, NEW h \in Hosts, OneRow(h), NEW v,
           Address(Row(h), v) # Blank
    PROVE  /\ Var(h, v, found) = Address(Row(h), v)
           /\ v \in DOMAIN Row(h).vlans /\ \E i \in DOMAIN csv : Row(h) = csv[i]
<1>1. PICK i \in Mine(h) : Mine(h) = {i}
  BY DEF OneRow
<1>2. Row(h) = csv[i] /\ i \in DOMAIN csv
  BY <1>1 DEF Row, Mine
<1>3. v \in DOMAIN Row(h).vlans /\ Address(Row(h), v) = csv[i].vlans[v]
  BY <1>2 DEF Address
<1>4. \A j \in DOMAIN other : Short[other[j].hostname] # Short[h]
  <2>1. \A j \in DOMAIN other : <<1, j>> \in Places(<<other>>) /\ RowAt(<<other>>, <<1, j>>) = other[j]
    BY DEF Places, RowAt
  <2> QED BY <2>1 DEF OneRow, RowsOf
<1>5. PICK k \in 1..2 : /\ found[k] = csv /\ found[3 - k] = other /\ DOMAIN found = 1..2
  BY DEF Listings
<1>6. RowsOf(h, found) = {<<k, i>>}
  <2>1. ASSUME NEW p \in RowsOf(h, found) PROVE p = <<k, i>>
    <3>1. p[1] \in 1..2 /\ p[2] \in DOMAIN found[p[1]] /\ p = <<p[1], p[2]>>
          /\ Short[found[p[1]][p[2]].hostname] = Short[h]
      BY <1>5 DEF RowsOf, Places, RowAt
    <3>2. p[1] = k
      BY <1>4, <1>5, <3>1
    <3>3. p[2] \in Mine(h)
      BY <1>5, <3>1, <3>2 DEF Mine
    <3> QED BY <1>1, <3>1, <3>2, <3>3
  <2>2. <<k, i>> \in RowsOf(h, found)
    BY <1>1, <1>2, <1>5 DEF RowsOf, Places, RowAt, Mine
  <2> QED BY <2>1, <2>2
<1>7. RowAt(found, <<k, i>>) = csv[i]
  BY <1>5 DEF RowAt
<1>8. Lists(found)
  BY ListingsFacts DEF CheckTypeOK
<1>9. Var(h, v, found) = csv[i].vlans[v]
  BY <1>2, <1>3, <1>6, <1>7, <1>8, OnlyRow
<1> QED BY <1>2, <1>3, <1>9

\* What ustack_ping lets pass.
LEMMA PingFacts ==
    ASSUME CheckTypeOK, NEW h \in Hosts, NEW g \in Hosts, ustack_ping(net[<<h, g>>], MinMtu(h, g))
    PROVE  Good(h, g)
<1> DEFINE link == net[<<h, g>>]
<1>1. link.up \in BOOLEAN /\ {link.min, link.loss, link.mtu} \subseteq Nat /\ Mtu[h] \in Nat /\ Mtu[g] \in Nat
  BY NetworkCheckAssumption DEF CheckTypeOK
<1>2. link.up /\ MinMtu(h, g) <= link.mtu /\ link.loss <= 0 /\ link.min <= 2
  BY DEF ustack_ping, Limit
<1> HIDE DEF link
<1>3. Mtu[h] <= link.mtu \/ Mtu[g] <= link.mtu
  BY <1>2 DEF MinMtu
<1>4. link.loss = 0
  BY <1>1, <1>2
<1> QED BY <1>2, <1>3, <1>4 DEF Good, link

LEMMA FinishStep == ASSUME CheckIInv, Finish PROVE CheckIInv'
<1>1. /\ stage = "check" /\ SecondRow /\ stage' = "idle" /\ found' = <<>>
      /\ outcome' = IF failed = {} THEN "ok" ELSE "failed"
      /\ UNCHANGED <<csv, other, net, changes, lines, address, done, failed>>
  BY DEF Finish, Quit, given
<1>2. CheckTypeOK'
  BY <1>1 DEF CheckIInv, CheckTypeOK
<1>3. SuccessMeansChecked'
  <2> SUFFICES ASSUME failed = {}, NEW h \in Hosts, NEW g \in Hosts, OneRow(h), OneRow(g),
                      NEW v \in Columns, h # g,
                      Address(Row(h), v) # Blank, Address(Row(g), v) # Blank,
                      \A x \in Hosts \ {g} : address[x][v] # Address(Row(g), v)
               PROVE  Good(h, g) /\ address[g][v] = Address(Row(g), v)
    BY <1>1 DEF SuccessMeansChecked, OneRow, Mine, Row, Good
  <2> DEFINE item == [vlan |-> v, to |-> g]
  <2>1. CheckTypeOK /\ found \in Listings
    BY <1>1 DEF CheckIInv, CheckInv
  <2>2. /\ Var(h, v, found) = Address(Row(h), v) /\ Var(g, v, found) = Address(Row(g), v)
        /\ Var(h, v, found) \in Addresses /\ Var(g, v, found) \in Addresses
    <3>1. /\ Var(h, v, found) = Address(Row(h), v) /\ Var(g, v, found) = Address(Row(g), v)
          /\ v \in DOMAIN Row(h).vlans /\ \E i \in DOMAIN csv : Row(h) = csv[i]
          /\ v \in DOMAIN Row(g).vlans /\ \E i \in DOMAIN csv : Row(g) = csv[i]
      BY <2>1, OneRowVar
    <3>2. \A i \in DOMAIN csv : csv[i].vlans \in [DOMAIN csv[i].vlans -> Addresses]
      BY <2>1, RowFacts DEF CheckTypeOK
    <3> QED BY <3>1, <3>2 DEF Address
  <2>3. item \in Items
    <3>1. PICK i \in DOMAIN csv : v \in DOMAIN csv[i].vlans
      BY <2>1, OneRowVar
    <3>2. 2 \in DOMAIN csv
      BY <1>1, <2>1, RowFacts DEF CheckTypeOK, SecondRow
    <3>3. v \in DOMAIN csv[2].vlans
      BY <2>1, <3>1, <3>2, NetworkCheckAssumption DEF CheckTypeOK
    <3> QED BY <3>3 DEF Items, vlans
  <2>4. item \in done[h]
    <3>1. ~Running(h)
      BY DEF Finish
    <3> QED BY <2>3, <3>1 DEF Running
  <2>5. ~Skipped(h, item)
    BY <2>2, NetworkCheckAssumption DEF Skipped
  <2>6. Answers(h, item)
    BY <1>1, <2>4, <2>5 DEF CheckIInv, CheckInv
  <2>7. PICK x \in Hosts : /\ address[x][v] = Var(g, v, found)
                           /\ ustack_ping(net[<<h, x>>], MinMtu(h, g))
    BY <2>6 DEF Answers
  <2>8. x = g
    BY <2>2, <2>7
  <2> QED BY <2>1, <2>2, <2>7, <2>8, PingFacts
<1> QED BY <1>1, <1>2, <1>3 DEF CheckIInv, CheckInv

LEMMA NoSecondRowStep == ASSUME CheckIInv, NoSecondRow PROVE CheckIInv'
<1>1. CheckTypeOK'
  BY DEF CheckIInv, CheckTypeOK, NoSecondRow, Quit, given
<1> QED BY <1>1 DEF CheckIInv, CheckInv, SuccessMeansChecked, NoSecondRow, Quit, given

LEMMA ChangeStep == ASSUME CheckIInv, Change PROVE CheckIInv'
<1>1. /\ stage = "idle" /\ stage' = "idle" /\ outcome' = "none" /\ found = <<>>
      /\ csv' \in Sites /\ other' \in OtherFiles /\ net' \in Nets /\ changes' \in 0..MaxChanges
      /\ UNCHANGED <<lines, address, found, done, failed>>
  BY NetworkCheckAssumption DEF CheckIInv, CheckInv, CheckTypeOK, Change
<1>2. CheckTypeOK'
  BY <1>1 DEF CheckIInv, CheckTypeOK
<1> QED BY <1>1, <1>2 DEF CheckIInv, CheckInv, SuccessMeansChecked

LEMMA CheckNextStep == CheckIInv /\ [CheckNext]_checkvars => CheckIInv'
<1> SUFFICES ASSUME CheckIInv, [CheckNext]_checkvars PROVE CheckIInv'
  OBVIOUS
<1>1. CASE UNCHANGED checkvars
  <2>1. CheckTypeOK' /\ SuccessMeansChecked'
    BY <1>1, SameFiles DEF checkvars, given, CheckIInv, CheckTypeOK
  <2>2. CheckInv'
    BY <1>1 DEF checkvars, given, CheckIInv, CheckInv, Listings, Skipped, Answers
  <2> QED BY <2>1, <2>2 DEF CheckIInv
<1> QED BY <1>1, GenhostStep, StartPlayStep, ConfigureStep, PingStep, FinishStep, NoSecondRowStep,
           ChangeStep DEF CheckNext, NetworkPlay

LEMMA CheckInvariance == CheckSpec => []CheckIInv
BY CheckInitIInv, CheckNextStep, PTL DEF CheckSpec

(***************************************************************************)
(* Results about NetworkCheck                                              *)
(***************************************************************************)
\* genhost, the variables plugin and the check: whatever the files hold, a
\* variable is a cell of a row, and an interface has one for its address.
THEOREM CheckTyped == CheckSpec => []CheckTypeOK
BY CheckInvariance, PTL DEF CheckIInv

\* A network check that succeeds has measured the link between any two
\* machines of one row each with addresses of their own, for any group, files,
\* columns and links, and in whatever order the files were listed.
THEOREM CheckMeasured == CheckSpec => []SuccessMeansChecked
BY CheckInvariance, PTL DEF CheckIInv
=============================================================================
