------------------------ MODULE LoggingUpgradeProofs -------------------------
(***************************************************************************)
(* Proofs about LoggingUpgrade, for any set of hosts, with or without      *)
(* ElasticSearch, and any number of failures.                              *)
(***************************************************************************)
EXTENDS LoggingUpgrade, TLAPS

Kinds == {"none", "history", "fresh"}

\* How far an upgrade is with the hosts that are still in the play.
MoveInv ==
    /\ task # "idle" => exit = "none"
    /\ task = "idle" => left = {}
    /\ act # "upgrade" => task \in {"idle", "restart"}
    /\ act = "upgrade" /\ task = "move" =>
          \A h \in play \ left : ~HasHistory(h, "elasticsearch")
    /\ act = "upgrade" /\ task = "restart" =>
          \A h \in play : ~HasHistory(h, "elasticsearch")
    /\ task = "restart" => play \ left \subseteq os
    /\ \A h \in Hosts : ~HasHistory(h, "logging_opensearch")

\* HistoryServed where the container mounts the volume the upgrade fills.
Served == Mounted = "opensearch" => HistoryServed

IInv == TypeOK /\ MoveInv /\ Served

\* What mv and the start of a server make of the volumes of a host.
LEMMA VolumeFacts ==
    ASSUME TypeOK, NEW h \in Hosts
    PROVE  LET moved == [nodes EXCEPT ![h]["opensearch"] = nodes[h]["elasticsearch"],
                                      ![h]["elasticsearch"] = "none"]
               fresh == [nodes EXCEPT ![h][Mounted] = "fresh"]
           IN  /\ moved \in [Hosts -> [Volumes -> Kinds]]
               /\ moved[h]["opensearch"] = nodes[h]["elasticsearch"]
               /\ moved[h]["elasticsearch"] = "none"
               /\ moved[h]["logging_opensearch"] = nodes[h]["logging_opensearch"]
               /\ \A g \in Hosts \ {h} : moved[g] = nodes[g]
               /\ fresh \in [Hosts -> [Volumes -> Kinds]]
               /\ fresh[h][Mounted] = "fresh"
               /\ \A v \in Volumes \ {Mounted} : fresh[h][v] = nodes[h][v]
               /\ \A g \in Hosts \ {h} : fresh[g] = nodes[g]
<1> USE LoggingAssumption
<1>1. nodes \in [Hosts -> [Volumes -> Kinds]] /\ nodes[h] \in [Volumes -> Kinds]
  BY DEF TypeOK, Kinds
<1>2. "opensearch" \in Volumes /\ "elasticsearch" \in Volumes /\ "logging_opensearch" \in Volumes
  BY DEF Volumes
<1> DEFINE one == [nodes[h] EXCEPT !["opensearch"] = nodes[h]["elasticsearch"]]
           two == [one EXCEPT !["elasticsearch"] = "none"]
           three == [nodes[h] EXCEPT ![Mounted] = "fresh"]
<1>3. /\ two \in [Volumes -> Kinds] /\ two["opensearch"] = nodes[h]["elasticsearch"]
      /\ two["elasticsearch"] = "none"
      /\ two["logging_opensearch"] = nodes[h]["logging_opensearch"]
  BY <1>1, <1>2 DEF Kinds
<1>4. /\ three \in [Volumes -> Kinds] /\ three[Mounted] = "fresh"
      /\ \A v \in Volumes \ {Mounted} : three[v] = nodes[h][v]
  BY <1>1 DEF Kinds
<1>5. [nodes EXCEPT ![h]["opensearch"] = nodes[h]["elasticsearch"],
                    ![h]["elasticsearch"] = "none"] = [nodes EXCEPT ![h] = two]
  BY <1>1
<1>6. [nodes EXCEPT ![h][Mounted] = "fresh"] = [nodes EXCEPT ![h] = three]
  OBVIOUS
<1> HIDE DEF two, three
<1> QED BY <1>1, <1>3, <1>4, <1>5, <1>6

LEMMA InitIInv == Init => IInv
<1> SUFFICES ASSUME Init PROVE IInv
  OBVIOUS
<1>1. /\ nodes \in [Hosts -> [Volumes -> Kinds]]
      /\ \A h \in Hosts : nodes[h]["logging_opensearch"] = "none"
  <2>1. \A h \in Hosts : Volume(h) \in [Volumes -> Kinds]
    BY DEF Volume, Kinds
  <2>2. \A h \in Hosts : Volume(h)["logging_opensearch"] = "none"
    BY DEF Volume, Volumes
  <2> QED BY <2>1, <2>2 DEF Init
<1>2. faults \in 0..MaxFaults
  BY LoggingAssumption DEF Init
<1> QED
  BY <1>1, <1>2 DEF Init, IInv, TypeOK, Kinds, MoveInv, Served, HistoryServed, HasHistory

\* The play: what becomes of it when it ends, goes on, or loses a host.
LEMMA CloseFacts ==
    ASSUME TypeOK, MoveInv, UNCHANGED <<site, faults>> \/ Fault,
           Close("failed") \/ \E h \in left : Leave(h)
    PROVE  IInv'
<1> USE DEF site
<1>1. UNCHANGED <<es, os, nodes>> /\ faults' \in 0..MaxFaults
  BY LoggingAssumption DEF Fault, TypeOK
<1>2. CASE Close("failed")
  BY <1>1, <1>2 DEF Close, IInv, TypeOK, MoveInv, Served, HistoryServed, HasHistory
<1>3. ASSUME NEW h \in left, Leave(h), ~Close("failed") PROVE IInv'
  <2>1. play' = play \ {h} /\ left' = left \ {h} /\ UNCHANGED <<act, task, exit>>
    BY <1>3 DEF Leave
  <2>2. TypeOK'
    BY <1>1, <2>1 DEF TypeOK
  <2>3. MoveInv'
    BY <1>1, <2>1 DEF MoveInv, HasHistory
  <2>4. exit' = "none"
    BY <1>3, <2>1 DEF MoveInv
  <2> QED BY <2>2, <2>3, <2>4 DEF IInv, Served, HistoryServed
<1> QED BY <1>2, <1>3

\* Every task keeps what the play is known to have done.
LEMMA NextIInv == IInv /\ [Next]_vars => IInv'
<1> SUFFICES ASSUME IInv, [Next]_vars PROVE IInv'
  OBVIOUS
<1> USE DEF site
<1>1. TypeOK /\ MoveInv /\ Served
  BY DEF IInv
<1>2. CASE UNCHANGED vars
  BY <1>1, <1>2 DEF vars, IInv, TypeOK, MoveInv, Served, HistoryServed, HasHistory
<1>3. ASSUME NEW a \in {"upgrade", "deploy"}, NEW hs \in SUBSET Hosts, Start(a, hs)
      PROVE  IInv'
  <2>1. faults' \in 0..MaxFaults
    BY <1>1, <1>3, LoggingAssumption DEF Start, TypeOK
  <2>2. TypeOK'
    BY <1>1, <1>3, <2>1 DEF Start, TypeOK
  <2>3. MoveInv'
    BY <1>1, <1>3 DEF Start, MoveInv, HasHistory
  <2> QED BY <1>3, <2>2, <2>3 DEF Start, IInv, Served, HistoryServed
<1>4. CASE Quiesce
  <2>1. CASE Close("failed")
    BY <1>1, <1>4, <2>1, CloseFacts DEF Quiesce
  <2>2. CASE Begin("stop")
    BY <1>1, <1>4, <2>2
    DEF Quiesce, Begin, IInv, TypeOK, MoveInv, Served, HistoryServed, HasHistory
  <2> QED BY <1>4, <2>1, <2>2 DEF Quiesce
<1>5. ASSUME NEW h \in Hosts, Stop(h) PROVE IInv'
  BY <1>1, <1>5
  DEF Stop, Done, IInv, TypeOK, MoveInv, Served, HistoryServed, HasHistory
<1>6. ASSUME NEW h \in Hosts, Move(h) PROVE IInv'
  <2>1. task = "move" /\ h \in left /\ UNCHANGED <<es, os, faults>>
    BY <1>6 DEF Move
  <2>2. CASE nodes[h]["elasticsearch"] # "none" /\ nodes[h]["opensearch"] # "none"
    BY <1>1, <1>6, <2>1, <2>2, CloseFacts DEF Move
  <2>3. CASE nodes[h]["elasticsearch"] = "none"
    BY <1>1, <1>6, <2>3
    DEF Move, Done, IInv, TypeOK, MoveInv, Served, HistoryServed, HasHistory
  <2>4. CASE nodes[h]["elasticsearch"] # "none" /\ nodes[h]["opensearch"] = "none"
    <3>1. /\ nodes' = [nodes EXCEPT ![h]["opensearch"] = nodes[h]["elasticsearch"],
                                    ![h]["elasticsearch"] = "none"]
          /\ left' = left \ {h} /\ UNCHANGED <<act, task, play, exit>>
      BY <1>6, <2>4 DEF Move, Done
    <3>2. /\ nodes' \in [Hosts -> [Volumes -> Kinds]]
          /\ nodes'[h]["opensearch"] = nodes[h]["elasticsearch"]
          /\ nodes'[h]["elasticsearch"] = "none"
          /\ nodes'[h]["logging_opensearch"] = nodes[h]["logging_opensearch"]
          /\ \A g \in Hosts \ {h} : nodes'[g] = nodes[g]
      BY <1>1, <3>1, VolumeFacts
    <3>3. nodes'[h][Mounted] # "none" \/ nodes[h][Mounted] = "none"
      BY <2>4, <3>2, LoggingAssumption DEF Volumes
    <3>4. TypeOK'
      BY <1>1, <2>1, <3>1, <3>2, <3>3 DEF TypeOK, Kinds
    <3>5. MoveInv'
      <4>1. \A g \in Hosts : HasHistory(g, "elasticsearch")' => HasHistory(g, "elasticsearch")
        BY <3>2 DEF HasHistory
      <4>2. \A g \in Hosts : ~HasHistory(g, "logging_opensearch")'
        BY <1>1, <3>2 DEF MoveInv, HasHistory
      <4>3. ~HasHistory(h, "elasticsearch")'
        BY <3>2 DEF HasHistory
      <4>4. play \subseteq Hosts
        BY <1>1 DEF TypeOK
      <4> QED BY <1>1, <2>1, <3>1, <4>1, <4>2, <4>3, <4>4 DEF MoveInv
    <3>6. exit' = "none"
      BY <1>1, <2>1, <3>1 DEF MoveInv
    <3> QED BY <3>4, <3>5, <3>6 DEF IInv, Served, HistoryServed
  <2> QED BY <2>2, <2>3, <2>4
<1>7. ASSUME NEW h \in Hosts, Restart(h) PROVE IInv'
  <2>1. /\ task = "restart" /\ h \in left /\ left' = left \ {h}
        /\ UNCHANGED <<act, task, play, exit, faults, es>> /\ os' = os \cup {h}
    BY <1>7 DEF Restart, Done
  <2>2. /\ nodes' \in [Hosts -> [Volumes -> Kinds]]
        /\ nodes'[h][Mounted] # "none"
        /\ \A g \in Hosts : \A v \in Volumes :
             nodes'[g][v] = nodes[g][v] \/ nodes'[g][v] = "fresh"
        /\ \A g \in Hosts \ {h} : nodes'[g] = nodes[g]
    <3>1. CASE nodes[h][Mounted] = "none"
      <4>1. nodes' = [nodes EXCEPT ![h][Mounted] = "fresh"]
        BY <1>7, <3>1 DEF Restart
      <4>2. /\ nodes' \in [Hosts -> [Volumes -> Kinds]]
            /\ nodes'[h][Mounted] = "fresh"
            /\ \A v \in Volumes \ {Mounted} : nodes'[h][v] = nodes[h][v]
            /\ \A g \in Hosts \ {h} : nodes'[g] = nodes[g]
        BY <1>1, <4>1, VolumeFacts
      <4>3. ASSUME NEW g \in Hosts, NEW v \in Volumes
            PROVE  nodes'[g][v] = nodes[g][v] \/ nodes'[g][v] = "fresh"
        BY <4>2
      <4> QED BY <4>2, <4>3
    <3>2. CASE nodes[h][Mounted] # "none"
      BY <1>1, <1>7, <3>2 DEF Restart, TypeOK, Kinds
    <3> QED BY <3>1, <3>2
  <2>3. \A g \in Hosts : \A v \in Volumes : HasHistory(g, v)' => HasHistory(g, v)
    BY <2>2 DEF HasHistory
  <2>4. TypeOK'
    BY <1>1, <2>1, <2>2 DEF TypeOK, Kinds
  <2>5. MoveInv'
    <3>1. play \subseteq Hosts
      BY <1>1 DEF TypeOK
    <3> QED BY <1>1, <2>1, <2>3, <3>1 DEF MoveInv, Volumes
  <2> QED BY <1>1, <2>1, <2>4, <2>5 DEF IInv, MoveInv, Served, HistoryServed
<1>8. CASE Advance
  <2>1. left = {} /\ UNCHANGED <<es, os, nodes, faults, act, play>>
    BY <1>8 DEF Advance, Close, Begin
  <2>2. CASE task = "restart"
    <3>1. task' = "idle" /\ left' = {} /\ exit' = IF play = Hosts THEN "ok" ELSE "failed"
      BY <1>8, <2>2 DEF Advance, Close
    <3>2. TypeOK'
      BY <1>1, <2>1, <3>1 DEF TypeOK
    <3>3. MoveInv'
      BY <1>1, <2>1, <3>1 DEF MoveInv, HasHistory
    <3>4. Served'
      <4> SUFFICES ASSUME Mounted = "opensearch", play = Hosts, act = "upgrade",
                          NEW h \in Hosts, NEW v \in Volumes, HasHistory(h, v)
                   PROVE  v = Mounted /\ h \in os
        BY <2>1, <3>1 DEF Served, HistoryServed, HasHistory
      <4> QED BY <1>1, <2>1, <2>2 DEF MoveInv, Volumes
    <3> QED BY <3>2, <3>3, <3>4 DEF IInv
  <2>3. CASE task \in {"stop", "move"}
    <3>1. /\ task' = IF task = "stop" THEN "move" ELSE "restart"
          /\ left' = play /\ UNCHANGED exit
      BY <1>8, <2>3 DEF Advance, Begin
    <3>2. TypeOK'
      BY <1>1, <2>1, <2>3, <3>1 DEF TypeOK
    <3>3. MoveInv'
      BY <1>1, <2>1, <2>3, <3>1 DEF MoveInv, HasHistory
    <3> QED BY <1>1, <2>3, <3>1, <3>2, <3>3 DEF IInv, MoveInv, Served, HistoryServed
  <2> QED BY <1>8, <2>2, <2>3 DEF Advance
<1>9. CASE EndPlay
  BY <1>1, <1>9, CloseFacts DEF EndPlay
<1>10. ASSUME NEW h \in Hosts, DropHost(h) PROVE IInv'
  BY <1>1, <1>10, CloseFacts DEF DropHost
<1> QED BY <1>2, <1>3, <1>4, <1>5, <1>6, <1>7, <1>8, <1>9, <1>10 DEF Next, Play

\* The invariant holds in every reachable state.
LEMMA LoggingIInv == Spec => []IInv
<1> QED BY InitIInv, NextIInv, PTL DEF Spec

\* The volumes hold directories upgrade.yml can meet, and a host that runs
\* OpenSearch has one where the container mounts it.
THEOREM LoggingTypeOK == Spec => []TypeOK
<1>1. IInv => TypeOK
  BY DEF IInv
<1> QED BY <1>1, LoggingIInv, PTL

\* Where the container mounts the volume upgrade.yml fills, an upgrade that
\* succeeded on all hosts serves every index, whatever plays failed, were
\* limited, or deployed OpenSearch before it.
THEOREM LoggingHistoryServed ==
    ASSUME Mounted = "opensearch" PROVE Spec => []HistoryServed
<1>1. IInv => HistoryServed
  BY DEF IInv, Served
<1> QED BY <1>1, LoggingIInv, PTL

\* An upgrade starts OpenSearch only where nothing is left in ElasticSearch's
\* volume: the hosts still in the play are those whose mv succeeded.
THEOREM LoggingMovedFirst == Spec => MovedBeforeStarted
<1>1. IInv /\ [Next]_vars => [act = "upgrade" =>
         \A h \in os' \ os : ~HasHistory(h, "elasticsearch")]_vars
  <2> SUFFICES ASSUME IInv, Next, act = "upgrade", NEW h \in os' \ os
               PROVE  ~HasHistory(h, "elasticsearch")
    OBVIOUS
  <2>1. CASE \E g \in Hosts : Restart(g)
    <3>1. PICK g \in Hosts : Restart(g)
      BY <2>1
    <3>2. h = g /\ task = "restart" /\ g \in left
      BY <3>1 DEF Restart
    <3> QED BY <3>2 DEF IInv, MoveInv, TypeOK
  <2>2. CASE ~\E g \in Hosts : Restart(g)
    <3>1. \/ \E a \in {"upgrade", "deploy"}, hs \in SUBSET Hosts : Start(a, hs)
          \/ Quiesce \/ Advance \/ EndPlay
          \/ \E g \in Hosts : Stop(g) \/ Move(g) \/ DropHost(g)
      BY <2>2 DEF Next, Play
    <3>2. os' = os
      BY <3>1 DEF Start, Quiesce, Advance, Stop, Move, EndPlay, DropHost, Fault, site
    <3> QED BY <3>2
  <2> QED BY <2>1, <2>2
<1> QED BY <1>1, LoggingIInv, PTL DEF Spec, MovedBeforeStarted
=============================================================================
