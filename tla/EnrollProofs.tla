---------------------------- MODULE EnrollProofs ----------------------------
(***************************************************************************)
(* Proofs about Enroll, for any number of nodes, hostnames and BMCs, any   *)
(* pool size and any number of edits, failed calls and crashes.            *)
(***************************************************************************)
EXTENDS Enroll, WellFoundedInduction, TLAPS

\* A non-empty set of indices has a largest one.
LEMMA LargestIndex ==
    ASSUME NEW n \in Nat, NEW S \in SUBSET (1..n), S # {}
    PROVE  \E i \in S : \A j \in S : j <= i
<1> DEFINE T == {n - i : i \in S}
<1> DEFINE R == OpToRel(<, Nat)
<1>1. IsWellFoundedOn(R, Nat)
  BY NatLessThanWellFounded
<1>2. T \subseteq Nat /\ T # {}
  <2>1. \A i \in S : n - i \in Nat
    OBVIOUS
  <2> QED BY <2>1
<1> HIDE DEF R, T
<1>3. PICK x \in T : \A y \in T : ~(<<y, x>> \in R)
  BY <1>1, <1>2, WFMin
<1>4. PICK i \in S : x = n - i
  BY DEF T
<1>5. ASSUME NEW j \in S PROVE j <= i
  <2>1. n - j \in T /\ n - j \in Nat /\ x \in Nat
    BY <1>2 DEF T
  <2>2. ~(n - j < x)
    BY <1>3, <2>1 DEF R, OpToRel
  <2> QED BY <1>4, <2>2
<1> QED BY <1>5

\* What load_csv() stores for a hostname is a row of the file with that
\* hostname.
LEMMA HostnameIpmi ==
    ASSUME NEW c \in CSVs, NEW h \in DOMAIN hostname_ipmi(c)
    PROVE  /\ h \in Hostnames
           /\ hostname_ipmi(c)[h] \in Row
           /\ \E i \in DOMAIN c : c[i].hostname = h /\ hostname_ipmi(c)[h] = c[i]
<1> USE EnrollAssumption
<1>1. c \in Seq(Row) /\ DOMAIN c = 1..Len(c) /\ Len(c) \in Nat
  OBVIOUS
<1>2. \A i \in DOMAIN c : c[i] \in Row
  BY <1>1
<1> DEFINE S == {i \in DOMAIN c : c[i].hostname = h}
<1>3. S # {} /\ S \in SUBSET (1..Len(c))
  BY <1>1 DEF hostname_ipmi
<1>4. \E i \in S : \A j \in S : j <= i
  BY <1>1, <1>3, LargestIndex
<1>5. \E i \in DOMAIN c : /\ c[i].hostname = h
                          /\ \A j \in DOMAIN c : c[j].hostname = h => j <= i
  BY <1>4
<1> DEFINE k == CHOOSE i \in DOMAIN c :
                  /\ c[i].hostname = h
                  /\ \A j \in DOMAIN c : c[j].hostname = h => j <= i
<1>6. k \in DOMAIN c /\ c[k].hostname = h
  BY <1>5
<1>7. hostname_ipmi(c)[h] = c[k]
  BY DEF hostname_ipmi
<1> HIDE DEF k
<1> QED BY <1>2, <1>6, <1>7 DEF Row

\* What load_csv() stores for a BMC is the hostname of a row of that BMC.
LEMMA IpmiHostname ==
    ASSUME NEW c \in CSVs, NEW x \in DOMAIN ipmi_hostname(c)
    PROVE  /\ ipmi_hostname(c)[x] \in Hostnames
           /\ \E i \in DOMAIN c : c[i].uri = x /\ ipmi_hostname(c)[x] = c[i].hostname
<1> USE EnrollAssumption
<1>1. c \in Seq(Row) /\ DOMAIN c = 1..Len(c) /\ Len(c) \in Nat
  OBVIOUS
<1>2. \A i \in DOMAIN c : c[i] \in Row
  BY <1>1
<1> DEFINE S == {i \in DOMAIN c : c[i].uri = x}
<1>3. S # {} /\ S \in SUBSET (1..Len(c))
  BY <1>1 DEF ipmi_hostname
<1>4. \E i \in S : \A j \in S : j <= i
  BY <1>1, <1>3, LargestIndex
<1>5. \E i \in DOMAIN c : /\ c[i].uri = x
                          /\ \A j \in DOMAIN c : c[j].uri = x => j <= i
  BY <1>4
<1> DEFINE k == CHOOSE i \in DOMAIN c :
                  /\ c[i].uri = x
                  /\ \A j \in DOMAIN c : c[j].uri = x => j <= i
<1>6. k \in DOMAIN c /\ c[k].uri = x
  BY <1>5
<1>7. ipmi_hostname(c)[x] = c[k].hostname
  BY DEF ipmi_hostname
<1> HIDE DEF k
<1> QED BY <1>2, <1>6, <1>7 DEF Row

\* If no BMC occurs twice, the two dicts agree on the BMC of every hostname.
LEMMA DictsAgree ==
    ASSUME NEW c \in CSVs, UniqueUris(c), NEW h \in DOMAIN hostname_ipmi(c)
    PROVE  /\ hostname_ipmi(c)[h].uri \in DOMAIN ipmi_hostname(c)
           /\ ipmi_hostname(c)[hostname_ipmi(c)[h].uri] = h
<1>1. PICK i \in DOMAIN c : c[i].hostname = h /\ hostname_ipmi(c)[h] = c[i]
  BY HostnameIpmi
<1>2. c[i].uri \in DOMAIN ipmi_hostname(c)
  BY DEF ipmi_hostname
<1>3. PICK j \in DOMAIN c : c[j].uri = c[i].uri /\ ipmi_hostname(c)[c[i].uri] = c[j].hostname
  BY <1>2, IpmiHostname
<1>4. i = j
  BY <1>3 DEF UniqueUris
<1> QED BY <1>1, <1>2, <1>3, <1>4

(***************************************************************************)
(* The inductive invariant.                                                *)
(***************************************************************************)
\* A queued node exists, a queued hostname is in the file that was read, and
\* node_id only points to nodes that no task of this run will delete.
JobsOK ==
    /\ \A u \in Uuids : job[u] = "queued" => u \in Present
    /\ \A h \in Hostnames : job[h] \in {"queued", "extra"} =>
          phase = "create" /\ h \in DOMAIN hostname_ipmi(rows)
    /\ \A h \in Hostnames : job[h] = "extra" => node_id[h] # None
    /\ \A h \in Hostnames : node_id[h] # None => node_id[h] \in Present
    /\ phase = "update" =>
          \A h \in Hostnames : node_id[h] # None => job[node_id[h]] # "queued"

\* Outside a run nothing is remembered.
IdleOK == phase = "idle" => job = NoJobs /\ node_id = [h \in Hostnames |-> None]

TypeInv == TypeOK /\ JobsOK /\ IdleOK

LEMMA InitTypeInv == Init => TypeInv
  BY EnrollAssumption DEF Init, TypeInv, TypeOK, JobsOK, IdleOK, NoJobs

\* One step preserves the type invariant: one case per action.
LEMMA NextTypeInv == TypeInv /\ [Next]_vars => TypeInv'
<1> SUFFICES ASSUME TypeInv, [Next]_vars PROVE TypeInv'
  OBVIOUS
<1> USE EnrollAssumption DEF TypeInv, TypeOK, JobsOK, IdleOK, Present
<1>rows. /\ \A h \in DOMAIN hostname_ipmi(rows) :
               h \in Hostnames /\ hostname_ipmi(rows)[h] \in Row
         /\ \A x \in DOMAIN ipmi_hostname(rows) : ipmi_hostname(rows)[x] \in Hostnames
  BY HostnameIpmi, IpmiHostname
<1>put. ASSUME NEW u \in Uuids, NEW r \in Node, ironic' = [ironic EXCEPT ![u] = r]
        PROVE  /\ ironic' \in [Uuids -> Node \cup {None}]
               /\ Present' = Present \cup {u}
  BY <1>put
<1>1. CASE UNCHANGED vars
  BY <1>1 DEF vars, proc
<1>2. CASE RefuseRun
  BY <1>2 DEF RefuseRun, End, NoJobs
<1>3. CASE StartRun
  BY <1>3 DEF StartRun, Queue
<1>4. CASE PoolRaised
  BY <1>4 DEF PoolRaised, End, NoJobs
<1>5. CASE UpdatesJoined
  BY <1>5, <1>rows DEF UpdatesJoined, Queue
<1>6. CASE CreatesJoined
  BY <1>6 DEF CreatesJoined, Queue
<1>7. CASE FinishRun
  BY <1>7 DEF FinishRun, End, NoJobs
<1>8. CASE Crash
  BY <1>8 DEF Crash, End, NoJobs
<1>9. CASE EditCsv
  BY <1>9 DEF EditCsv, proc
<1>10. ASSUME NEW u \in Uuids, Keep(u) PROVE TypeInv'
  <2>1. Wanted(u) \in Hostnames
    BY <1>10, <1>rows DEF Keep, Known, Wanted
  <2> QED BY <1>10, <2>1 DEF Keep, Go, NoJobs
<1>11. ASSUME NEW u \in Uuids, Rename(u) PROVE TypeInv'
  <2>1. Wanted(u) \in Hostnames /\ Lower[Wanted(u)] \in Hostnames
    BY <1>11, <1>rows DEF Rename, Known, Wanted
  <2>2. ironic[u] \in Node
    BY <1>11 DEF Rename, Go
  <2>3. [ironic[u] EXCEPT !.name = Lower[Wanted(u)]] \in Node
    BY <2>1, <2>2 DEF Node
  <2>4. /\ ironic' \in [Uuids -> Node \cup {None}] /\ Present' = Present
        /\ node_id' = node_id \/ node_id' = [node_id EXCEPT ![Wanted(u)] = u]
    <3>1. CASE Refused(u)
      BY <3>1 DEF Refused
    <3>2. CASE ~Refused(u)
      <4> DEFINE r == [ironic[u] EXCEPT !.name = Lower[Wanted(u)]]
      <4>1. ironic' = [ironic EXCEPT ![u] = r] /\ r \in Node
        BY <1>11, <2>3, <3>2 DEF Rename
      <4>2. node_id' = [node_id EXCEPT ![Wanted(u)] = u]
        BY <1>11, <3>2 DEF Rename
      <4> HIDE DEF r
      <4>3. u \in Present
        BY <1>11 DEF Rename, Go
      <4> QED BY <4>1, <4>2, <4>3, <1>put
    <3> QED BY <3>1, <3>2
  <2>5. /\ faults' \in 0..MaxFaults
        /\ \E r \in {"done", "raised"} : job' = [job EXCEPT ![u] = r]
    BY <1>11 DEF Rename, Answer, Refused
  <2>6. TypeOK'
    BY <1>11, <2>1, <2>4, <2>5 DEF Rename, Go
  <2>7. JobsOK'
    <3> HIDE DEF Present
    <3>1. phase = "update" /\ phase' = "update" /\ u \in Present
      BY <1>11 DEF Rename, Go
    <3>2. PICK r \in {"done", "raised"} : job' = [job EXCEPT ![u] = r]
      BY <2>5
    <3>3. \A h \in Hostnames : job'[h] = job[h]
      BY <3>2
    <3>4. \A h \in Hostnames : node_id'[h] \in {node_id[h], u}
      BY <2>1, <2>4
    <3>5. \A v \in Uuids : job'[v] = "queued" => job[v] = "queued" /\ v # u
      BY <3>2
    <3> QED BY <2>4, <3>1, <3>3, <3>4, <3>5
  <2> QED BY <1>11, <2>6, <2>7 DEF Rename, Go
<1>12. ASSUME NEW u \in Uuids, Delete(u) PROVE TypeInv'
  <2>1. CASE Refused(u)
    BY <1>12, <2>1 DEF Delete, Go, Refused, NoJobs
  <2>2. CASE ~Refused(u)
    <3>1. /\ phase = "update" /\ phase' = "update" /\ job[u] = "queued"
          /\ rows' = rows /\ node_id' = node_id
          /\ ironic' = [ironic EXCEPT ![u] = None]
          /\ faults' \in 0..MaxFaults
          /\ \E r \in {"done", "raised"} : job' = [job EXCEPT ![u] = r]
      BY <1>12, <2>2 DEF Delete, Go, Answer
    <3>2. TypeOK'
      BY <1>12, <2>2, <3>1 DEF Delete, Go
    <3>3. Present' = Present \ {u}
      BY <3>1
    <3>4. \A h \in Hostnames : job'[h] = job[h] /\ node_id[h] # u
      BY <3>1
    <3>5. \A v \in Uuids : v # u => job'[v] = job[v]
      BY <3>1
    <3>6. job'[u] # "queued"
      BY <3>1
    <3>7. JobsOK'
      <4> HIDE DEF Present
      <4> QED BY <3>1, <3>3, <3>4, <3>5, <3>6
    <3> QED BY <3>1, <3>2, <3>7
  <2> QED BY <2>1, <2>2
<1>13. ASSUME NEW u \in Uuids, Manage(u) PROVE TypeInv'
  <2>1. ironic[u] \in Node
    BY <1>13 DEF Manage, Go
  <2>2. [ironic[u] EXCEPT !.state = "verifying"] \in Node
    BY <2>1 DEF Node, ProvisionState
  <2>3. ironic' \in [Uuids -> Node \cup {None}] /\ Present' = Present
    <3> DEFINE r == [ironic[u] EXCEPT !.state = "verifying"]
    <3>1. ironic' = [ironic EXCEPT ![u] = r] /\ r \in Node
      BY <1>13, <2>2 DEF Manage
    <3> HIDE DEF r
    <3>2. u \in Present
      BY <1>13 DEF Manage, Go
    <3> QED BY <3>1, <3>2, <1>put
  <2>4. /\ faults' \in 0..MaxFaults
        /\ \E r \in {"done", "raised"} : job' = [job EXCEPT ![u] = r]
    BY <1>13 DEF Manage, Answer
  <2>5. TypeOK'
    BY <1>13, <2>3, <2>4 DEF Manage, Go
  <2>6. JobsOK'
    <3> HIDE DEF Present
    <3> QED BY <1>13, <2>3, <2>4 DEF Manage, Go
  <2> QED BY <1>13, <2>5, <2>6 DEF Manage, Go
<1>14. ASSUME NEW h \in Hostnames, Create(h) PROVE TypeInv'
  <2>1. hostname_ipmi(rows)[h] \in Row
    BY <1>14, <1>rows DEF Create, Go
  <2>2. [name |-> h, uri |-> hostname_ipmi(rows)[h].uri,
         extra |-> None, state |-> "enroll"] \in Node
    BY <2>1 DEF Node, Row, ProvisionState
  <2>3. CASE Refused(h)
    BY <1>14, <2>3 DEF Create, Go, Refused, NoJobs
  <2>4. CASE ~Refused(h)
    <3>1. PICK u \in Uuids \ Present :
             /\ ironic' = [ironic EXCEPT ![u] =
                   [name |-> h, uri |-> hostname_ipmi(rows)[h].uri,
                    extra |-> None, state |-> "enroll"]]
             /\ node_id' = [node_id EXCEPT ![h] = u]
      BY <1>14, <2>4 DEF Create
    <3>2. ironic' \in [Uuids -> Node \cup {None}] /\ Present' = Present \cup {u}
      BY <3>1, <2>2, <1>put
    <3>3. Answer(h, "extra")
      BY <1>14, <2>4 DEF Create
    <3> HIDE DEF Present
    <3> QED BY <1>14, <3>1, <3>2, <3>3 DEF Create, Go, Answer, NoJobs
  <2> QED BY <2>3, <2>4
<1>15. ASSUME NEW h \in Hostnames, Patch(h) PROVE TypeInv'
  <2>1. hostname_ipmi(rows)[h] \in Row
    BY <1>15, <1>rows DEF Patch, Go
  <2>2. node_id[h] \in Uuids /\ ironic[node_id[h]] \in Node
    BY <1>15 DEF Patch, Go
  <2>3. [ironic[node_id[h]] EXCEPT !.uri = hostname_ipmi(rows)[h].uri] \in Node
    BY <2>1, <2>2 DEF Node, Row
  <2>4. ironic' \in [Uuids -> Node \cup {None}] /\ Present' = Present
    <3> DEFINE r == [ironic[node_id[h]] EXCEPT !.uri = hostname_ipmi(rows)[h].uri]
    <3>1. ironic' = [ironic EXCEPT ![node_id[h]] = r] /\ r \in Node
      BY <1>15, <2>3 DEF Patch
    <3> HIDE DEF r
    <3>2. node_id[h] \in Present
      BY <1>15 DEF Patch
    <3> QED BY <2>2, <3>1, <3>2, <1>put
  <2> HIDE DEF Present
  <2> QED BY <1>15, <2>4 DEF Patch, Go, Answer, NoJobs
<1>16. ASSUME NEW h \in Hostnames, AddExtra(h) PROVE TypeInv'
  <2>1. hostname_ipmi(rows)[h] \in Row
    BY <1>16, <1>rows DEF AddExtra
  <2>2. node_id[h] \in Uuids /\ ironic[node_id[h]] \in Node
    BY <1>16 DEF AddExtra
  <2>3. [ironic[node_id[h]] EXCEPT !.extra = hostname_ipmi(rows)[h]] \in Node
    BY <2>1, <2>2 DEF Node
  <2>4. ironic' \in [Uuids -> Node \cup {None}] /\ Present' = Present
    <3> DEFINE r == [ironic[node_id[h]] EXCEPT !.extra = hostname_ipmi(rows)[h]]
    <3>1. ironic' = [ironic EXCEPT ![node_id[h]] = r] /\ r \in Node
      BY <1>16, <2>3 DEF AddExtra
    <3> HIDE DEF r
    <3>2. node_id[h] \in Present
      BY <1>16, <2>2 DEF AddExtra
    <3> QED BY <2>2, <3>1, <3>2, <1>put
  <2> HIDE DEF Present
  <2> QED BY <1>16, <2>4 DEF AddExtra, Answer, NoJobs
<1>17. ASSUME NEW j \in Uuids \cup Hostnames, CallFails(j) PROVE TypeInv'
  BY <1>17 DEF CallFails, NoJobs
<1>18. ASSUME NEW u \in Uuids, NEW from, NEW to \in ProvisionState,
              Moves(u, from, to), faults' \in 0..MaxFaults
       PROVE  TypeInv'
  <2>1. ironic[u] \in Node
    BY <1>18 DEF Moves
  <2>2. [ironic[u] EXCEPT !.state = to] \in Node
    BY <2>1 DEF Node
  <2> QED BY <1>18, <2>1, <2>2 DEF Moves, proc
<1>19. CASE Conductor
  BY <1>18, <1>19 DEF Conductor, Verified, Deployed, Undeployed, NotVerified, ProvisionState
<1> QED
  BY <1>1, <1>2, <1>3, <1>4, <1>5, <1>6, <1>7, <1>8, <1>9, <1>10, <1>11, <1>12,
     <1>13, <1>14, <1>15, <1>16, <1>17, <1>19
  DEF Next, Program, NodeTask, HostTask

\* Every reachable state satisfies the type invariant and what it rests on:
\* the jobs and the remembered nodes stay consistent with ironic.
LEMMA EnrollTypeInv == Spec => []TypeInv
<1>1. Init => TypeInv
  BY InitTypeInv
<1>2. TypeInv /\ [Next]_vars => TypeInv'
  BY NextTypeInv
<1> QED BY <1>1, <1>2, PTL DEF Spec

\* Type correctness: the tables and jobs keep the shape enroll.py relies on,
\* so no task looks up a node this run deleted or a hostname it did not read.
THEOREM EnrollTypeOK == Spec => []TypeOK
<1>1. TypeInv => TypeOK
  BY DEF TypeInv
<1> QED BY <1>1, EnrollTypeInv, PTL

(***************************************************************************)
(* What the calls of the two pools do, field by field.                     *)
(***************************************************************************)
\* A step that changes no name, BMC or extra of a node.
Alike ==
    /\ Present' = Present
    /\ \A u \in Present : /\ ironic'[u].name = ironic[u].name
                          /\ ironic'[u].uri = ironic[u].uri
                          /\ ironic'[u].extra = ironic[u].extra

\* A task that has been at a node ends, one way or the other.
Ends(j, next) == job'[j] \in {next, "raised"} /\ \A k \in DOMAIN job : k # j => job'[k] = job[k]

\* The dictionaries name the same hostnames, which are the file's.
LEMMA RowsFacts ==
    ASSUME TypeInv
    PROVE  /\ \A h \in DOMAIN hostname_ipmi(rows) :
                 /\ h \in Hostnames /\ hostname_ipmi(rows)[h] \in Row
                 /\ hostname_ipmi(rows)[h].hostname = h
           /\ \A u \in Uuids : Known(u) =>
                 Wanted(u) \in Hostnames /\ Wanted(u) \in DOMAIN hostname_ipmi(rows)
<1>1. rows \in CSVs
  BY DEF TypeInv, TypeOK
<1>2. ASSUME NEW h \in DOMAIN hostname_ipmi(rows)
      PROVE  /\ h \in Hostnames /\ hostname_ipmi(rows)[h] \in Row
             /\ hostname_ipmi(rows)[h].hostname = h
  BY <1>1, <1>2, HostnameIpmi
<1>3. ASSUME NEW u \in Uuids, Known(u)
      PROVE  Wanted(u) \in Hostnames /\ Wanted(u) \in DOMAIN hostname_ipmi(rows)
  <2>1. ironic[u].uri \in DOMAIN ipmi_hostname(rows)
    BY <1>3 DEF Known
  <2>2. /\ Wanted(u) \in Hostnames
        /\ \E i \in DOMAIN rows : Wanted(u) = rows[i].hostname
    BY <1>1, <2>1, IpmiHostname DEF Wanted
  <2>3. DOMAIN hostname_ipmi(rows) = {rows[i].hostname : i \in DOMAIN rows}
    BY DEF hostname_ipmi
  <2> QED BY <2>2, <2>3
<1> QED BY <1>2, <1>3

\* One field of a node is overwritten.
LEMMA PutFacts ==
    ASSUME TypeInv, NEW u \in Present, NEW r \in Node, ironic' = [ironic EXCEPT ![u] = r]
    PROVE  /\ Present' = Present /\ u \in Uuids /\ ironic[u] \in Node
           /\ ironic'[u] = r /\ \A v \in Present : v # u => ironic'[v] = ironic[v]
<1>1. ironic \in [Uuids -> Node \cup {None}] /\ u \in Uuids /\ ironic[u] \in Node /\ r # None
  BY EnrollAssumption DEF TypeInv, TypeOK, Present
<1> QED BY <1>1 DEF Present

LEMMA AnswerFacts ==
    ASSUME TypeInv, NEW j \in DOMAIN job, NEW next, Answer(j, next)
    PROVE  Ends(j, next)
BY DEF TypeInv, TypeOK, Answer, Ends

LEMMA KeepFacts ==
    ASSUME TypeInv, NEW u \in Uuids, Keep(u)
    PROVE  /\ phase = "update" /\ UNCHANGED <<ironic, csv, phase, rows, exit>>
           /\ u \in Present /\ Known(u) /\ Wanted(u) \in Hostnames /\ job[u] = "queued"
           /\ ironic[u].name = Lower[Wanted(u)] /\ Ends(u, "done")
           /\ node_id' = [node_id EXCEPT ![Wanted(u)] = u]
<1>1. Wanted(u) \in Hostnames /\ u \in DOMAIN job
  BY RowsFacts DEF Keep, TypeInv, TypeOK
<1> QED BY <1>1 DEF Keep, Go, TypeInv, TypeOK, JobsOK, Ends

LEMMA RenameFacts ==
    ASSUME TypeInv, NEW u \in Uuids, Rename(u), ~Refused(u)
    PROVE  /\ phase = "update" /\ UNCHANGED <<csv, phase, rows, exit>>
           /\ u \in Present /\ Known(u) /\ Wanted(u) \in Hostnames /\ job[u] = "queued"
           /\ \A v \in Present : ironic[v].name # Lower[Wanted(u)]
           /\ Present' = Present /\ \A v \in Present : v # u => ironic'[v] = ironic[v]
           /\ ironic'[u].name = Lower[Wanted(u)] /\ ironic'[u].uri = ironic[u].uri
           /\ Ends(u, "done") /\ node_id' = [node_id EXCEPT ![Wanted(u)] = u]
<1>1. Wanted(u) \in Hostnames /\ u \in DOMAIN job /\ u \in Present /\ job[u] = "queued"
  BY RowsFacts DEF Rename, Go, TypeInv, TypeOK, JobsOK
<1> DEFINE r == [ironic[u] EXCEPT !.name = Lower[Wanted(u)]]
<1>2. ironic[u] \in Node /\ Lower[Wanted(u)] \in Hostnames
  BY <1>1, EnrollAssumption DEF TypeInv, TypeOK, Present
<1>3. r \in Node /\ r.name = Lower[Wanted(u)] /\ r.uri = ironic[u].uri
  BY <1>2 DEF Node
<1>4. ironic' = [ironic EXCEPT ![u] = r]
  BY DEF Rename
<1> HIDE DEF r
<1>5. /\ Present' = Present /\ ironic'[u] = r
      /\ \A v \in Present : v # u => ironic'[v] = ironic[v]
  BY <1>1, <1>3, <1>4, PutFacts
<1>6. Ends(u, "done")
  BY <1>1, AnswerFacts DEF Rename
<1>7. /\ phase = "update" /\ UNCHANGED <<csv, phase, rows, exit>> /\ Known(u)
      /\ \A v \in Present : ironic[v].name # Lower[Wanted(u)]
      /\ node_id' = [node_id EXCEPT ![Wanted(u)] = u]
  BY DEF Rename, Go, NameTaken
<1> QED BY <1>1, <1>3, <1>5, <1>6, <1>7

LEMMA DeleteFacts ==
    ASSUME TypeInv, NEW u \in Uuids, Delete(u), ~Refused(u)
    PROVE  /\ phase = "update" /\ UNCHANGED <<csv, phase, rows, exit, node_id>>
           /\ u \in Present /\ ~Known(u) /\ job[u] = "queued"
           /\ Present' = Present \ {u} /\ \A v \in Present' : ironic'[v] = ironic[v]
           /\ Ends(u, "done") /\ \A h \in Hostnames : node_id[h] # u
<1>1. u \in DOMAIN job /\ u \in Present /\ job[u] = "queued" /\ phase = "update"
      /\ u # None
  BY EnrollAssumption DEF Delete, Go, TypeInv, TypeOK, JobsOK
<1>2. ironic' = [ironic EXCEPT ![u] = None] /\ ironic \in [Uuids -> Node \cup {None}]
  BY DEF Delete, TypeInv, TypeOK
<1>3. Present' = Present \ {u} /\ \A v \in Present' : ironic'[v] = ironic[v]
  BY <1>2 DEF Present
<1>4. Ends(u, "done") /\ \A h \in Hostnames : node_id[h] # u
  BY <1>1, AnswerFacts DEF Delete, TypeInv, JobsOK
<1>5. UNCHANGED <<csv, phase, rows, exit, node_id>> /\ ~Known(u)
  BY DEF Delete, Go
<1> QED BY <1>1, <1>3, <1>4, <1>5

LEMMA CreateFacts ==
    ASSUME TypeInv, NEW h \in Hostnames, Create(h), ~Refused(h)
    PROVE  /\ phase = "create" /\ UNCHANGED <<csv, phase, rows, exit>>
           /\ node_id[h] = None /\ h \in DOMAIN hostname_ipmi(rows)
           /\ \A v \in Present : ironic[v].name # h
           /\ Ends(h, "extra")
           /\ \E u \in Uuids \ Present :
                 /\ Present' = Present \cup {u}
                 /\ \A v \in Present : ironic'[v] = ironic[v]
                 /\ ironic'[u].name = h /\ ironic'[u].uri = hostname_ipmi(rows)[h].uri
                 /\ node_id' = [node_id EXCEPT ![h] = u]
<1>1. /\ phase = "create" /\ UNCHANGED <<csv, phase, rows, exit>>
      /\ node_id[h] = None /\ h \in DOMAIN hostname_ipmi(rows)
      /\ \A v \in Present : ironic[v].name # h
  BY DEF Create, Go, TypeInv, JobsOK, NameTaken
<1>2. h \in DOMAIN job /\ Answer(h, "extra")
  BY DEF Create, TypeInv, TypeOK
<1> DEFINE r == [name |-> h, uri |-> hostname_ipmi(rows)[h].uri, extra |-> None,
                 state |-> "enroll"]
<1>3. PICK u \in Uuids \ Present :
         ironic' = [ironic EXCEPT ![u] = r] /\ node_id' = [node_id EXCEPT ![h] = u]
  BY DEF Create
<1>4. r \in Node /\ r.name = h /\ r.uri = hostname_ipmi(rows)[h].uri
  BY <1>1, RowsFacts DEF Node, Row, ProvisionState
<1> HIDE DEF r
<1>5. ironic'[u] = r /\ Present' = Present \cup {u} /\ \A v \in Present : ironic'[v] = ironic[v]
  BY <1>3, <1>4, EnrollAssumption DEF TypeInv, TypeOK, Present
<1> QED BY <1>1, <1>2, <1>3, <1>4, <1>5, AnswerFacts

LEMMA PatchFacts ==
    ASSUME TypeInv, NEW h \in Hostnames, Patch(h)
    PROVE  /\ phase = "create" /\ UNCHANGED <<csv, phase, rows, exit, node_id>>
           /\ node_id[h] \in Present /\ h \in DOMAIN hostname_ipmi(rows)
           /\ Present' = Present
           /\ \A v \in Present : v # node_id[h] => ironic'[v] = ironic[v]
           /\ ironic'[node_id[h]].name = ironic[node_id[h]].name
           /\ ironic'[node_id[h]].uri = hostname_ipmi(rows)[h].uri
           /\ Ends(h, "extra")
<1>1. /\ phase = "create" /\ UNCHANGED <<csv, phase, rows, exit, node_id>>
      /\ node_id[h] \in Present /\ h \in DOMAIN hostname_ipmi(rows)
      /\ h \in DOMAIN job /\ Answer(h, "extra")
  BY DEF Patch, Go, TypeInv, TypeOK, JobsOK
<1> DEFINE u == node_id[h]
           r == [ironic[u] EXCEPT !.uri = hostname_ipmi(rows)[h].uri]
<1>2. hostname_ipmi(rows)[h].uri \in Uris /\ ironic[u] \in Node
  BY <1>1, RowsFacts DEF Row, TypeInv, TypeOK, Present
<1>3. r \in Node /\ r.name = ironic[u].name /\ r.uri = hostname_ipmi(rows)[h].uri
  BY <1>2 DEF Node
<1>4. ironic' = [ironic EXCEPT ![u] = r] /\ u \in Present
  BY <1>1 DEF Patch
<1> HIDE DEF r, u
<1>5. /\ Present' = Present /\ ironic'[u] = r
      /\ \A v \in Present : v # u => ironic'[v] = ironic[v]
  BY <1>3, <1>4, PutFacts
<1> QED BY <1>1, <1>3, <1>5, AnswerFacts DEF u

LEMMA AddExtraFacts ==
    ASSUME TypeInv, NEW h \in Hostnames, AddExtra(h)
    PROVE  /\ phase = "create" /\ UNCHANGED <<csv, phase, rows, exit, node_id>>
           /\ node_id[h] \in Present /\ h \in DOMAIN hostname_ipmi(rows) /\ job[h] = "extra"
           /\ Present' = Present
           /\ \A v \in Present : v # node_id[h] => ironic'[v] = ironic[v]
           /\ ironic'[node_id[h]].name = ironic[node_id[h]].name
           /\ ironic'[node_id[h]].uri = ironic[node_id[h]].uri
           /\ ironic'[node_id[h]].extra = hostname_ipmi(rows)[h]
           /\ Ends(h, "done")
<1>1. /\ phase = "create" /\ UNCHANGED <<csv, phase, rows, exit, node_id>>
      /\ node_id[h] \in Present /\ h \in DOMAIN hostname_ipmi(rows) /\ job[h] = "extra"
      /\ h \in DOMAIN job /\ Answer(h, "done")
  BY DEF AddExtra, TypeInv, TypeOK, JobsOK
<1> DEFINE u == node_id[h]
           r == [ironic[u] EXCEPT !.extra = hostname_ipmi(rows)[h]]
<1>2. hostname_ipmi(rows)[h] \in Row /\ ironic[u] \in Node
  BY <1>1, RowsFacts DEF TypeInv, TypeOK, Present
<1>3. /\ r \in Node /\ r.name = ironic[u].name /\ r.uri = ironic[u].uri
      /\ r.extra = hostname_ipmi(rows)[h]
  BY <1>2 DEF Node
<1>4. ironic' = [ironic EXCEPT ![u] = r] /\ u \in Present
  BY <1>1 DEF AddExtra
<1> HIDE DEF r, u
<1>5. /\ Present' = Present /\ ironic'[u] = r
      /\ \A v \in Present : v # u => ironic'[v] = ironic[v]
  BY <1>3, <1>4, PutFacts
<1> QED BY <1>1, <1>3, <1>5, AnswerFacts DEF u

\* The conductor and the manage loop change nothing but states.
LEMMA StateFacts ==
    ASSUME TypeInv, NEW u \in Present, NEW to \in ProvisionState,
           ironic' = [ironic EXCEPT ![u].state = to]
    PROVE  Alike
<1> DEFINE r == [ironic[u] EXCEPT !.state = to]
<1>1. ironic[u] \in Node
  BY DEF TypeInv, TypeOK, Present
<1>2. /\ r \in Node /\ r.uri = ironic[u].uri /\ r.name = ironic[u].name
      /\ r.extra = ironic[u].extra
  BY <1>1 DEF Node
<1>3. ironic' = [ironic EXCEPT ![u] = r]
  OBVIOUS
<1> HIDE DEF r
<1>4. /\ Present' = Present /\ ironic'[u] = r
      /\ \A v \in Present : v # u => ironic'[v] = ironic[v]
  BY <1>2, <1>3, PutFacts
<1> QED BY <1>2, <1>4 DEF Alike

LEMMA ManageFacts ==
    ASSUME TypeInv, NEW u \in Uuids, Manage(u)
    PROVE  /\ phase = "manage" /\ Alike /\ UNCHANGED <<csv, phase, rows, exit, node_id>>
<1>1. /\ phase = "manage" /\ u \in Present /\ "verifying" \in ProvisionState
      /\ ironic' = [ironic EXCEPT ![u].state = "verifying"]
      /\ UNCHANGED <<csv, phase, rows, exit, node_id>>
  BY DEF Manage, Go, TypeInv, JobsOK, ProvisionState
<1> QED BY <1>1, StateFacts

LEMMA ConductorFacts ==
    ASSUME TypeInv, Conductor
    PROVE  Alike /\ UNCHANGED <<csv, proc>>
<1>1. PICK u \in Uuids, to \in ProvisionState : \E from \in ProvisionState : Moves(u, from, to)
  BY DEF Conductor, Verified, Deployed, Undeployed, NotVerified, ProvisionState
<1>2. u \in Present /\ ironic' = [ironic EXCEPT ![u].state = to] /\ UNCHANGED <<csv, proc>>
  BY <1>1 DEF Moves, Present
<1> QED BY <1>2, StateFacts

LEMMA RefusedFacts ==
    ASSUME TypeInv, NEW j \in DOMAIN job, Refused(j)
    PROVE  UNCHANGED <<ironic, node_id>> /\ Ends(j, "raised")
BY DEF Refused, TypeInv, TypeOK, Ends

LEMMA CallFailsFacts ==
    ASSUME TypeInv, NEW j \in Uuids \cup Hostnames, CallFails(j)
    PROVE  UNCHANGED <<ironic, csv, phase, rows, exit, node_id>> /\ Ends(j, "raised")
BY DEF CallFails, TypeInv, TypeOK, Ends

\* Every step is one of these.
Quits ==
    \E status \in {"ok", "failed", "crashed"} :
        End(status) /\ UNCHANGED <<ironic, csv>> /\ (status = "ok" => phase = "manage")

Idles(j) == UNCHANGED <<ironic, csv, phase, rows, exit, node_id>> /\ Ends(j, "raised")

LEMMA Steps ==
    ASSUME TypeInv, [Next]_vars
    PROVE  \/ Quits \/ StartRun \/ UpdatesJoined \/ CreatesJoined \/ EditCsv
           \/ \E j \in Uuids \cup Hostnames : Idles(j)
           \/ \E u \in Uuids : \/ Keep(u) \/ (Rename(u) /\ ~Refused(u))
                               \/ (Delete(u) /\ ~Refused(u)) \/ Manage(u)
           \/ \E h \in Hostnames : (Create(h) /\ ~Refused(h)) \/ Patch(h) \/ AddExtra(h)
           \/ Conductor
           \/ UNCHANGED vars
<1>1. CASE RefuseRun \/ PoolRaised \/ Crash \/ FinishRun
  BY <1>1 DEF RefuseRun, PoolRaised, Crash, FinishRun, Quits
<1>2. ASSUME NEW j \in Uuids \cup Hostnames, CallFails(j) PROVE Idles(j)
  BY <1>2, CallFailsFacts DEF Idles
<1>3. ASSUME NEW j \in Uuids \cup Hostnames, Refused(j),
             Rename(j) \/ Delete(j) \/ Create(j)
      PROVE  Idles(j)
  <2>1. j \in DOMAIN job /\ UNCHANGED <<csv, phase, rows, exit>>
    BY <1>3 DEF Rename, Delete, Create, Go, TypeInv, TypeOK
  <2> QED BY <1>3, <2>1, RefusedFacts DEF Idles
<1> QED BY <1>1, <1>2, <1>3 DEF Next, Program, NodeTask, HostTask

(***************************************************************************)
(* One ironic node per BMC.                                                *)
(***************************************************************************)
\* ironic never gives a name twice.
UniqueNames == \A u, v \in Present : ironic[u].name = ironic[v].name => u = v

\* In the first pool, a node whose task is done carries the name of its BMC
\* and is the one remembered for that hostname.
UpdateOK ==
    phase = "update" => \A u \in Present :
        /\ job[u] # "idle"
        /\ job[u] = "done" => /\ Known(u)
                              /\ ironic[u].name = Lower[Wanted(u)]
                              /\ node_id[Wanted(u)] = u

\* In the second pool, only the node remembered for a hostname may have the
\* BMC of that hostname.
CreateOK ==
    phase = "create" => \A h \in DOMAIN hostname_ipmi(rows) : \A u \in Present :
        ironic[u].uri = hostname_ipmi(rows)[h].uri => node_id[h] = u

NamesInv == UniqueNames /\ UpdateOK
BmcInv == CreateOK /\ NoDuplicateBmc

\* A step within a phase that changes no name and no BMC, and ends no task.
LEMMA AlikeInv ==
    ASSUME NamesInv, UNCHANGED <<phase, rows, node_id>>, Alike,
           \A u \in Uuids : job'[u] = job[u] \/ job'[u] = "raised" \/ phase # "update"
    PROVE  NamesInv' /\ (BmcInv => BmcInv')
<1> USE DEF NamesInv, BmcInv, UniqueNames, UpdateOK, CreateOK, NoDuplicateBmc, Alike,
            Known, Wanted
<1>1. \A u \in Present : u \in Uuids
  BY DEF Present
<1> QED BY <1>1

LEMMA NextNamesInv == TypeInv /\ NamesInv /\ [Next]_vars => NamesInv'
<1> SUFFICES ASSUME TypeInv, NamesInv, [Next]_vars PROVE NamesInv'
  OBVIOUS
<1> USE DEF NamesInv
<1>typ. /\ job \in [Uuids \cup Hostnames -> {"idle", "queued", "extra", "done", "raised"}]
        /\ node_id \in [Hostnames -> Uuids \cup {None}]
        /\ \A u \in Present : u \in Uuids
  BY DEF TypeInv, TypeOK, Present
<1>1. CASE Quits \/ StartRun \/ UpdatesJoined \/ CreatesJoined
  <2>1. ironic' = ironic /\ (phase' = "update" => \A u \in Present : job'[u] = "queued")
    BY <1>1, <1>typ DEF Quits, End, StartRun, UpdatesJoined, CreatesJoined, Queue
  <2> QED BY <2>1 DEF UniqueNames, UpdateOK, Present
<1>2. CASE EditCsv \/ Conductor \/ UNCHANGED vars
  <2>1. UNCHANGED <<phase, rows, node_id, job>> /\ Alike
    BY <1>2, ConductorFacts DEF EditCsv, vars, proc, Alike, Present
  <2> QED BY <2>1, AlikeInv
<1>3. ASSUME NEW j \in Uuids \cup Hostnames, Idles(j) PROVE NamesInv'
  BY <1>3, <1>typ, AlikeInv DEF Idles, Ends, Alike, Present
<1>4. ASSUME NEW u \in Uuids, Manage(u) PROVE NamesInv'
  BY <1>4, ManageFacts, AlikeInv
<1>5. ASSUME NEW u \in Uuids, Keep(u) \/ (Rename(u) /\ ~Refused(u)) PROVE NamesInv'
  <2>1. /\ phase = "update" /\ UNCHANGED <<phase, rows>> /\ u \in Present /\ Known(u)
        /\ Wanted(u) \in Hostnames /\ Present' = Present
        /\ \A v \in Present : v # u => ironic'[v] = ironic[v]
        /\ ironic'[u].name = Lower[Wanted(u)] /\ ironic'[u].uri = ironic[u].uri
        /\ \A v \in Present : v # u => ironic[v].name # Lower[Wanted(u)]
        /\ Ends(u, "done") /\ node_id' = [node_id EXCEPT ![Wanted(u)] = u]
    <3>1. CASE Keep(u)
      BY <3>1, KeepFacts DEF UniqueNames, Present
    <3>2. CASE Rename(u) /\ ~Refused(u)
      BY <3>2, RenameFacts
    <3> QED BY <1>5, <3>1, <3>2
  <2>2. UniqueNames'
    BY <2>1 DEF UniqueNames
  <2>3. ASSUME NEW v \in Present, v # u
        PROVE  /\ job'[v] = job[v] /\ Known(v)' = Known(v) /\ Wanted(v)' = Wanted(v)
               /\ job[v] = "done" => node_id'[Wanted(v)] = v
    <3>1. job'[v] = job[v] /\ Known(v)' = Known(v) /\ Wanted(v)' = Wanted(v)
      BY <2>1, <2>3, <1>typ DEF Ends, Known, Wanted
    <3>2. ASSUME job[v] = "done" PROVE node_id'[Wanted(v)] = v
      <4>1. node_id[Wanted(v)] = v /\ Wanted(v) # Wanted(u) /\ Wanted(v) \in Hostnames
        BY <2>1, <2>3, <3>2, RowsFacts, <1>typ DEF UpdateOK
      <4> QED BY <2>1, <4>1, <1>typ
    <3> QED BY <3>1, <3>2
  <2>4. job'[u] \in {"done", "raised"} /\ Known(u)' /\ Wanted(u)' = Wanted(u)
        /\ node_id'[Wanted(u)] = u
    BY <2>1, <1>typ DEF Ends, Known, Wanted
  <2>5. UpdateOK'
    BY <2>1, <2>3, <2>4 DEF UpdateOK
  <2> QED BY <2>2, <2>5
<1>6. ASSUME NEW u \in Uuids, Delete(u), ~Refused(u) PROVE NamesInv'
  <2>1. /\ phase = "update" /\ UNCHANGED <<phase, rows, node_id>> /\ Present' = Present \ {u}
        /\ \A v \in Present' : ironic'[v] = ironic[v]
        /\ \A v \in Present' : job'[v] = job[v]
    BY <1>6, <1>typ, DeleteFacts DEF Ends
  <2> QED BY <2>1 DEF UniqueNames, UpdateOK, Known, Wanted
<1>7. ASSUME NEW h \in Hostnames, (Create(h) /\ ~Refused(h)) \/ Patch(h) \/ AddExtra(h)
      PROVE  NamesInv'
  <2>1. phase' = "create"
    BY <1>7, CreateFacts, PatchFacts, AddExtraFacts
  <2>2. UniqueNames'
    <3>1. CASE Create(h) /\ ~Refused(h)
      BY <3>1, CreateFacts DEF UniqueNames
    <3>2. CASE Patch(h) \/ AddExtra(h)
      BY <3>2, PatchFacts, AddExtraFacts DEF UniqueNames
    <3> QED BY <1>7, <3>1, <3>2
  <2> QED BY <2>1, <2>2 DEF UpdateOK
<1> QED BY <1>1, <1>2, <1>3, <1>4, <1>5, <1>6, <1>7, Steps

\* One step preserves the BMC invariant if no BMC occurs twice in a file.
LEMMA NextBmcInv ==
    ASSUME \A c \in CSVs : UniqueUris(c)
    PROVE  TypeInv /\ NamesInv /\ BmcInv /\ [Next]_vars => BmcInv'
<1> SUFFICES ASSUME TypeInv, NamesInv, BmcInv, [Next]_vars PROVE BmcInv'
  OBVIOUS
<1> USE DEF BmcInv
<1>typ. /\ job \in [Uuids \cup Hostnames -> {"idle", "queued", "extra", "done", "raised"}]
        /\ node_id \in [Hostnames -> Uuids \cup {None}]
        /\ \A u \in Present : u \in Uuids
  BY DEF TypeInv, TypeOK, Present
<1>dict. \A h \in DOMAIN hostname_ipmi(rows) :
            /\ h \in Hostnames
            /\ hostname_ipmi(rows)[h].uri \in DOMAIN ipmi_hostname(rows)
            /\ ipmi_hostname(rows)[hostname_ipmi(rows)[h].uri] = h
  BY HostnameIpmi, DictsAgree DEF TypeInv, TypeOK
<1>1. CASE Quits \/ StartRun \/ CreatesJoined
  <2>1. ironic' = ironic /\ phase' # "create"
    BY <1>1 DEF Quits, End, StartRun, CreatesJoined
  <2> QED BY <2>1 DEF CreateOK, NoDuplicateBmc, Present
<1>2. CASE UpdatesJoined
  <2>1. /\ phase = "update" /\ Joined
        /\ UNCHANGED <<ironic, rows, node_id>>
    BY <1>2 DEF UpdatesJoined
  <2>2. ASSUME NEW h \in DOMAIN hostname_ipmi(rows), NEW u \in Present,
               ironic[u].uri = hostname_ipmi(rows)[h].uri
        PROVE  node_id[h] = u
    <3>1. job[u] = "done"
      BY <2>1, <1>typ DEF Joined, NamesInv, UpdateOK
    <3>2. Wanted(u) = h
      BY <2>2, <1>dict DEF Wanted
    <3> QED BY <2>1, <3>1, <3>2 DEF NamesInv, UpdateOK
  <2>3. CreateOK'
    BY <2>1, <2>2 DEF CreateOK, Present
  <2> QED BY <2>1, <2>3 DEF NoDuplicateBmc, Present
<1>3. CASE EditCsv \/ Conductor \/ UNCHANGED vars
  <2>1. UNCHANGED <<phase, rows, node_id, job>> /\ Alike
    BY <1>3, ConductorFacts DEF EditCsv, vars, proc, Alike, Present
  <2> QED BY <2>1, AlikeInv
<1>4. ASSUME NEW j \in Uuids \cup Hostnames, Idles(j) PROVE BmcInv'
  BY <1>4, <1>typ, AlikeInv DEF Idles, Ends, Alike, Present
<1>5. ASSUME NEW u \in Uuids,
             Keep(u) \/ (Rename(u) /\ ~Refused(u)) \/ (Delete(u) /\ ~Refused(u)) \/ Manage(u)
      PROVE  BmcInv'
  <2>1. /\ phase' # "create" /\ Present' \subseteq Present
        /\ \A v \in Present' : ironic'[v].uri = ironic[v].uri
    <3>1. CASE Keep(u)
      BY <3>1, KeepFacts DEF Present
    <3>2. CASE Rename(u) /\ ~Refused(u)
      BY <3>2, RenameFacts
    <3>3. CASE Delete(u) /\ ~Refused(u)
      BY <3>3, DeleteFacts
    <3>4. CASE Manage(u)
      BY <3>4, ManageFacts DEF Alike
    <3> QED BY <1>5, <3>1, <3>2, <3>3, <3>4
  <2> QED BY <2>1 DEF CreateOK, NoDuplicateBmc
<1>6. ASSUME NEW h \in Hostnames, Create(h), ~Refused(h) PROVE BmcInv'
  <2>1. /\ phase = "create" /\ UNCHANGED <<phase, rows>> /\ node_id[h] = None
        /\ h \in DOMAIN hostname_ipmi(rows)
    BY <1>6, CreateFacts
  <2>2. PICK u \in Uuids \ Present :
           /\ Present' = Present \cup {u}
           /\ \A v \in Present : ironic'[v] = ironic[v]
           /\ ironic'[u].uri = hostname_ipmi(rows)[h].uri
           /\ node_id' = [node_id EXCEPT ![h] = u]
    BY <1>6, CreateFacts
  <2>3. node_id'[h] = u /\ \A g \in Hostnames : g # h => node_id'[g] = node_id[g]
    BY <2>2, <1>typ
  <2>4. \A v \in Present : v # None
    BY <1>typ, EnrollAssumption
  <2>5. \A v \in Present : ironic[v].uri # hostname_ipmi(rows)[h].uri
    BY <2>1, <2>4 DEF CreateOK
  <2>6. NoDuplicateBmc'
    BY <2>2, <2>5 DEF NoDuplicateBmc
  <2>7. ASSUME NEW g \in DOMAIN hostname_ipmi(rows), NEW v \in Present',
               ironic'[v].uri = hostname_ipmi(rows)[g].uri
        PROVE  node_id'[g] = v
    <3>1. CASE v = u
      BY <2>1, <2>2, <2>3, <2>7, <3>1, <1>dict
    <3>2. CASE v # u
      BY <2>1, <2>2, <2>3, <2>5, <2>7, <3>2, <1>dict DEF CreateOK
    <3> QED BY <3>1, <3>2
  <2>8. CreateOK'
    BY <2>1, <2>7 DEF CreateOK
  <2> QED BY <2>6, <2>8
<1>7. ASSUME NEW h \in Hostnames, Patch(h) PROVE BmcInv'
  <2> DEFINE u == node_id[h]
  <2>1. /\ phase = "create" /\ UNCHANGED <<phase, rows, node_id>>
        /\ h \in DOMAIN hostname_ipmi(rows) /\ u \in Present /\ Present' = Present
        /\ \A v \in Present : v # u => ironic'[v] = ironic[v]
        /\ ironic'[u].uri = hostname_ipmi(rows)[h].uri
    BY <1>7, PatchFacts
  <2> HIDE DEF u
  <2>2. \A v \in Present : ironic[v].uri = hostname_ipmi(rows)[h].uri => v = u
    BY <2>1 DEF CreateOK, u
  <2>3. NoDuplicateBmc'
    BY <2>1, <2>2 DEF NoDuplicateBmc
  <2>4. ASSUME NEW g \in DOMAIN hostname_ipmi(rows), NEW v \in Present',
               ironic'[v].uri = hostname_ipmi(rows)[g].uri
        PROVE  node_id'[g] = v
    <3>1. CASE v = u
      <4>1. g = h
        BY <2>1, <2>4, <3>1, <1>dict
      <4> QED BY <2>1, <3>1, <4>1 DEF u
    <3>2. CASE v # u
      BY <2>1, <2>4, <3>2 DEF CreateOK
    <3> QED BY <3>1, <3>2
  <2>5. CreateOK'
    BY <2>1, <2>4 DEF CreateOK
  <2> QED BY <2>3, <2>5
<1>8. ASSUME NEW h \in Hostnames, AddExtra(h) PROVE BmcInv'
  <2>1. /\ UNCHANGED <<phase, rows, node_id>> /\ Present' = Present
        /\ \A v \in Present : ironic'[v].uri = ironic[v].uri
    BY <1>8, AddExtraFacts
  <2> QED BY <2>1 DEF CreateOK, NoDuplicateBmc
<1> QED BY <1>1, <1>2, <1>3, <1>4, <1>5, <1>6, <1>7, <1>8, Steps

LEMMA EnrollNamesInv == Spec => [](TypeInv /\ NamesInv)
<1>1. Init => TypeInv /\ NamesInv
  BY InitTypeInv DEF Init, NamesInv, UniqueNames, UpdateOK, Present
<1>2. TypeInv /\ NamesInv /\ [Next]_vars => (TypeInv /\ NamesInv)'
  BY NextTypeInv, NextNamesInv
<1> QED BY <1>1, <1>2, PTL DEF Spec

\* However often servers.csv is edited and enroll.py is repeated, interrupted
\* or loses an answer, two ironic nodes never drive the same BMC, provided no
\* version of the file names a BMC twice.
THEOREM EnrollNoDuplicateBmc ==
    ASSUME \A c \in CSVs : UniqueUris(c)
    PROVE  Spec => []NoDuplicateBmc
<1>1. Init => BmcInv
  BY DEF Init, BmcInv, CreateOK, NoDuplicateBmc, Present
<1>2. TypeInv /\ NamesInv /\ BmcInv /\ [Next]_vars => BmcInv'
  BY NextBmcInv
<1>3. BmcInv => NoDuplicateBmc
  BY DEF BmcInv
<1> QED BY <1>1, <1>2, <1>3, EnrollNamesInv, PTL DEF Spec

(***************************************************************************)
(* A machine of the file keeps its node.                                   *)
(***************************************************************************)
\* The file is not edited during a run, so a run works on the file there is.
ReadOK == phase # "idle" => rows = csv

LEMMA NextReadOK == TypeInv /\ ReadOK /\ [Next]_vars => ReadOK'
<1> SUFFICES ASSUME TypeInv, ReadOK, [Next]_vars PROVE ReadOK'
  OBVIOUS
<1>1. CASE Quits \/ StartRun \/ UpdatesJoined \/ CreatesJoined \/ EditCsv \/ UNCHANGED vars
  BY <1>1 DEF ReadOK, Quits, End, StartRun, UpdatesJoined, CreatesJoined, EditCsv, vars, proc
<1>2. CASE ~(Quits \/ StartRun \/ UpdatesJoined \/ CreatesJoined \/ EditCsv \/ UNCHANGED vars)
  <2>1. UNCHANGED <<csv, phase, rows>>
    BY <1>2, Steps, KeepFacts, RenameFacts, DeleteFacts, ManageFacts, CreateFacts, PatchFacts,
       AddExtraFacts, ConductorFacts DEF Idles, proc
  <2> QED BY <2>1 DEF ReadOK
<1> QED BY <1>1, <1>2

\* However servers.csv is edited and enroll.py is repeated, a node is deleted
\* only when its BMC is not in the file: BMCs that occur twice included.
THEOREM EnrollKnownNodeSurvives == Spec => KnownNodeSurvives
<1> DEFINE Survives == \A u \in Present :
              (\E i \in DOMAIN csv : csv[i].uri = ironic[u].uri) => u \in Present'
<1>1. TypeInv /\ ReadOK /\ [Next]_vars => [Survives]_vars
  <2> SUFFICES ASSUME TypeInv, ReadOK, Next PROVE Survives
    OBVIOUS
  <2>1. ASSUME NEW u \in Uuids, Delete(u), ~Refused(u) PROVE Survives
    <3>1. rows = csv /\ Present' = Present \ {u} /\ ~Known(u)
      BY <2>1, DeleteFacts DEF ReadOK
    <3>2. \A i \in DOMAIN csv : csv[i].uri # ironic[u].uri
      BY <3>1 DEF Known, ipmi_hostname
    <3> QED BY <3>1, <3>2
  <2>2. CASE ~\E u \in Uuids : Delete(u) /\ ~Refused(u)
    <3>1. Present \subseteq Present'
      <4>1. CASE Quits \/ StartRun \/ UpdatesJoined \/ CreatesJoined \/ EditCsv \/ UNCHANGED vars
                 \/ \E j \in Uuids \cup Hostnames : Idles(j)
        BY <4>1 DEF Quits, StartRun, UpdatesJoined, CreatesJoined, EditCsv, vars, Idles, Present
      <4>2. ASSUME NEW u \in Uuids, Keep(u) PROVE Present' = Present
        BY <4>2, KeepFacts DEF Present
      <4>3. ASSUME NEW h \in Hostnames, Create(h), ~Refused(h) PROVE Present \subseteq Present'
        BY <4>3, CreateFacts
      <4> QED
        BY <2>2, <4>1, <4>2, <4>3, Steps, RenameFacts, ManageFacts, PatchFacts, AddExtraFacts,
           ConductorFacts DEF Alike
    <3> QED BY <3>1
  <2> QED BY <2>1, <2>2
<1>2. Init => ReadOK
  BY DEF Init, ReadOK
<1>3. TypeInv /\ ReadOK /\ [Next]_vars => ReadOK'
  BY NextReadOK
<1> QED BY <1>1, <1>2, <1>3, EnrollTypeInv, PTL DEF Spec, KnownNodeSurvives

(***************************************************************************)
(* Success means that ironic equals the file.                              *)
(***************************************************************************)
\* The first pool remembers for a hostname a node that has its BMC and name.
UpdateMemory ==
    phase = "update" => \A h \in Hostnames : node_id[h] # None =>
        /\ Known(node_id[h]) /\ Wanted(node_id[h]) = h
        /\ ironic[node_id[h]].name = Lower[h]

\* In the second pool every node is remembered for one hostname of the file,
\* has its name, and gets its BMC and its row as the task of the hostname goes
\* on; every hostname of the file has a task.
CreateMemory ==
    phase = "create" =>
        /\ \A u \in Present : \E h \in DOMAIN hostname_ipmi(rows) : node_id[h] = u
        /\ \A h \in DOMAIN hostname_ipmi(rows) : job[h] # "idle"
        /\ \A h, g \in Hostnames : node_id[h] # None /\ node_id[g] = node_id[h] => g = h
        /\ \A h \in Hostnames : node_id[h] # None => ironic[node_id[h]].name \in {h, Lower[h]}
        /\ \A h \in Hostnames : job[h] \in {"extra", "done"} =>
              /\ node_id[h] # None
              /\ ironic[node_id[h]].uri = hostname_ipmi(rows)[h].uri
              /\ job[h] = "done" => ironic[node_id[h]].extra = hostname_ipmi(rows)[h]

\* ironic holds the hosts that were read.
Enrolled ==
    /\ {ironic[u].extra : u \in Present} =
          {hostname_ipmi(rows)[h] : h \in DOMAIN hostname_ipmi(rows)}
    /\ \A u \in Present :
          /\ ironic[u].uri = ironic[u].extra.uri
          /\ ironic[u].name \in {ironic[u].extra.hostname, Lower[ironic[u].extra.hostname]}

SuccessOK == phase = "manage" \/ (phase = "idle" /\ exit = "ok") => Enrolled

MemoryInv == UpdateMemory /\ CreateMemory /\ SuccessOK

\* The memory only speaks of the phases of the two pools.
LEMMA AlikeMemory ==
    ASSUME TypeInv, MemoryInv, UNCHANGED <<phase, rows, node_id, exit>>, Alike,
           \A h \in Hostnames : job'[h] = job[h] \/ job'[h] = "raised"
    PROVE  MemoryInv'
<1>1. \A h \in Hostnames : node_id[h] # None => node_id[h] \in Present
  BY DEF TypeInv, JobsOK
<1>2. UpdateMemory'
  BY <1>1 DEF MemoryInv, UpdateMemory, Alike, Known, Wanted
<1>3. CreateMemory'
  <2> SUFFICES ASSUME phase = "create" PROVE CreateMemory'
    BY DEF CreateMemory
  <2>1. \A h \in DOMAIN hostname_ipmi(rows) : h \in Hostnames
    BY RowsFacts
  <2> QED BY <1>1, <2>1 DEF MemoryInv, CreateMemory, Alike
<1>4. SuccessOK'
  <2>1. {ironic'[u].extra : u \in Present} = {ironic[u].extra : u \in Present}
    BY DEF Alike
  <2> QED BY <2>1 DEF MemoryInv, SuccessOK, Enrolled, Alike
<1> QED BY <1>2, <1>3, <1>4 DEF MemoryInv

\* The first pool ends with every node remembered.
LEMMA MemoryHandedOn ==
    ASSUME TypeInv, NamesInv, MemoryInv, UpdatesJoined
    PROVE  CreateMemory'
<1>1. /\ phase = "update" /\ Joined /\ UNCHANGED <<ironic, rows, node_id>>
      /\ job' = Queue(DOMAIN hostname_ipmi(rows)) /\ Present' = Present
  BY DEF UpdatesJoined, Present
<1>2. \A h \in Hostnames : job'[h] = IF h \in DOMAIN hostname_ipmi(rows) THEN "queued" ELSE "idle"
  BY <1>1 DEF Queue
<1>3. ASSUME NEW u \in Present
      PROVE  \E h \in DOMAIN hostname_ipmi(rows) : node_id[h] = u
  <2>1. u \in Uuids /\ job[u] = "done"
    BY <1>1, <1>3 DEF Joined, NamesInv, UpdateOK, Present, TypeInv, TypeOK
  <2>2. Known(u) /\ node_id[Wanted(u)] = u
    BY <1>1, <1>3, <2>1 DEF NamesInv, UpdateOK
  <2> QED BY <2>1, <2>2, RowsFacts
<1>4. \A h \in DOMAIN hostname_ipmi(rows) : job'[h] # "idle"
  BY <1>2, RowsFacts
<1>5. ASSUME NEW h \in Hostnames, NEW g \in Hostnames, node_id[h] # None,
             node_id[g] = node_id[h]
      PROVE  g = h
  <2>1. Wanted(node_id[h]) = h /\ Wanted(node_id[g]) = g
    BY <1>1, <1>5 DEF MemoryInv, UpdateMemory
  <2> QED BY <1>5, <2>1
<1>6. \A h \in Hostnames : node_id[h] # None => ironic[node_id[h]].name = Lower[h]
  BY <1>1 DEF MemoryInv, UpdateMemory
<1> QED BY <1>1, <1>2, <1>3, <1>4, <1>5, <1>6 DEF CreateMemory

\* The second pool ends with every node as its row says.
LEMMA MemoryEnrolled ==
    ASSUME TypeInv, MemoryInv, phase = "create", Joined
    PROVE  Enrolled
<1> DEFINE hosts == hostname_ipmi(rows)
<1>1. ASSUME NEW h \in DOMAIN hosts
      PROVE  /\ node_id[h] \in Present /\ hosts[h].hostname = h
             /\ ironic[node_id[h]].name \in {h, Lower[h]}
             /\ ironic[node_id[h]].uri = hosts[h].uri
             /\ ironic[node_id[h]].extra = hosts[h]
  <2>1. h \in Hostnames /\ hosts[h].hostname = h
    BY RowsFacts
  <2>2. job[h] = "done"
    BY <2>1 DEF Joined, MemoryInv, CreateMemory, TypeInv, TypeOK
  <2>3. node_id[h] # None
    BY <2>1, <2>2 DEF MemoryInv, CreateMemory
  <2> QED BY <2>1, <2>2, <2>3 DEF MemoryInv, CreateMemory, TypeInv, JobsOK
<1>2. \A u \in Present : \E h \in DOMAIN hosts : node_id[h] = u
  BY DEF MemoryInv, CreateMemory
<1> HIDE DEF hosts
<1>3. {ironic[u].extra : u \in Present} = {hosts[h] : h \in DOMAIN hosts}
  <2>1. \A u \in Present : \E h \in DOMAIN hosts : ironic[u].extra = hosts[h]
    BY <1>1, <1>2
  <2>2. \A h \in DOMAIN hosts : node_id[h] \in Present /\ ironic[node_id[h]].extra = hosts[h]
    BY <1>1
  <2> QED BY <2>1, <2>2
<1>4. ASSUME NEW u \in Present
      PROVE  /\ ironic[u].uri = ironic[u].extra.uri
             /\ ironic[u].name \in {ironic[u].extra.hostname, Lower[ironic[u].extra.hostname]}
  BY <1>1, <1>2
<1> QED BY <1>3, <1>4 DEF Enrolled, hosts

\* What a task of the second pool does to its own node disturbs no other.
LEMMA HostMemory ==
    ASSUME TypeInv, MemoryInv, NEW h \in Hostnames,
           (Create(h) /\ ~Refused(h)) \/ Patch(h) \/ AddExtra(h)
    PROVE  MemoryInv'
<1> DEFINE hosts == hostname_ipmi(rows)
<1>typ. /\ job \in [Uuids \cup Hostnames -> {"idle", "queued", "extra", "done", "raised"}]
        /\ node_id \in [Hostnames -> Uuids \cup {None}]
        /\ \A g \in DOMAIN hosts : g \in Hostnames
        /\ \A g \in Hostnames : node_id[g] # None => node_id[g] \in Present
        /\ \A u \in Present : u \in Uuids /\ u # None
  BY RowsFacts, EnrollAssumption DEF TypeInv, TypeOK, JobsOK, Present
<1>1. /\ phase = "create" /\ UNCHANGED <<phase, rows>> /\ h \in DOMAIN hosts
      /\ \/ Ends(h, "extra")
         \/ Ends(h, "done") /\ ironic'[node_id'[h]].extra = hosts[h]
  BY CreateFacts, PatchFacts, AddExtraFacts
<1>2. PICK u \in Uuids :
         /\ node_id' = [node_id EXCEPT ![h] = u] /\ node_id[h] \in {None, u}
         /\ Present' = Present \cup {u}
         /\ \A v \in Present : v # u => ironic'[v] = ironic[v]
         /\ ironic'[u].name \in {h, Lower[h]} /\ ironic'[u].uri = hosts[h].uri
         /\ \A g \in Hostnames : node_id[g] = u => g = h
  <2>1. CASE Create(h) /\ ~Refused(h)
    <3>1. PICK u \in Uuids \ Present :
             /\ Present' = Present \cup {u}
             /\ \A v \in Present : ironic'[v] = ironic[v]
             /\ ironic'[u].name = h /\ ironic'[u].uri = hosts[h].uri
             /\ node_id' = [node_id EXCEPT ![h] = u]
      BY <2>1, CreateFacts
    <3>2. \A g \in Hostnames : node_id[g] # u
      BY <3>1, <1>typ, EnrollAssumption
    <3>3. node_id[h] = None
      BY <2>1, CreateFacts
    <3> QED BY <3>1, <3>2, <3>3
  <2>2. CASE Patch(h) \/ AddExtra(h)
    <3>1. /\ node_id[h] \in Present /\ node_id' = node_id /\ Present' = Present
          /\ \A v \in Present : v # node_id[h] => ironic'[v] = ironic[v]
          /\ ironic'[node_id[h]].name = ironic[node_id[h]].name
          /\ ironic'[node_id[h]].uri = hosts[h].uri
      BY <2>2, PatchFacts, AddExtraFacts DEF AddExtra, MemoryInv, CreateMemory
    <3>2. node_id' = [node_id EXCEPT ![h] = node_id[h]] /\ node_id[h] \in Uuids
      BY <3>1, <1>typ
    <3>3. /\ ironic[node_id[h]].name \in {h, Lower[h]}
          /\ \A g \in Hostnames : node_id[g] = node_id[h] => g = h
      BY <1>1, <3>1, <1>typ DEF MemoryInv, CreateMemory
    <3> QED BY <3>1, <3>2, <3>3
  <2> QED BY <2>1, <2>2
<1>3. /\ node_id'[h] = u /\ u # None
      /\ \A g \in Hostnames : g # h => node_id'[g] = node_id[g] /\ node_id[g] # u
  BY <1>2, <1>typ, EnrollAssumption
<1>4. \A g \in Hostnames : g # h => job'[g] = job[g]
  BY <1>1, <1>typ DEF Ends
<1>5. job'[h] \in {"extra", "done", "raised"}
      /\ (job'[h] = "done" => ironic'[node_id'[h]].extra = hosts[h])
  BY <1>1 DEF Ends
<1>6. CreateMemory'
  <2>1. hostname_ipmi(rows)' = hosts
    BY <1>1 DEF hostname_ipmi
  <2> HIDE DEF hosts
  <2>2. \A v \in Present' : \E g \in DOMAIN hosts : node_id'[g] = v
    <3>1. ASSUME NEW v \in Present, v # u PROVE \E g \in DOMAIN hosts : node_id'[g] = v
      <4>1. PICK g \in DOMAIN hosts : node_id[g] = v
        BY <1>1 DEF MemoryInv, CreateMemory, hosts
      <4> QED BY <4>1, <3>1, <1>2, <1>3, <1>typ
    <3> QED BY <3>1, <1>1, <1>2, <1>3
  <2>3. \A g \in DOMAIN hosts : job'[g] # "idle"
    BY <1>1, <1>4, <1>5, <1>typ DEF MemoryInv, CreateMemory, hosts
  <2>4. ASSUME NEW g \in Hostnames, NEW k \in Hostnames, node_id'[g] # None,
               node_id'[k] = node_id'[g]
        PROVE  k = g
    <3>1. CASE g = h \/ k = h
      BY <2>4, <3>1, <1>3
    <3>2. CASE g # h /\ k # h
      BY <1>1, <2>4, <3>2, <1>3 DEF MemoryInv, CreateMemory
    <3> QED BY <3>1, <3>2
  <2>5. ASSUME NEW g \in Hostnames, g # h, node_id[g] # None
        PROVE  ironic'[node_id'[g]] = ironic[node_id[g]]
    BY <2>5, <1>2, <1>3, <1>typ
  <2>6. \A g \in Hostnames : node_id'[g] # None => ironic'[node_id'[g]].name \in {g, Lower[g]}
    BY <1>1, <1>2, <1>3, <2>5 DEF MemoryInv, CreateMemory
  <2>7. ASSUME NEW g \in Hostnames, job'[g] \in {"extra", "done"}
        PROVE  /\ node_id'[g] # None /\ ironic'[node_id'[g]].uri = hosts[g].uri
               /\ job'[g] = "done" => ironic'[node_id'[g]].extra = hosts[g]
    <3>1. CASE g = h
      BY <3>1, <1>2, <1>3, <1>5
    <3>2. CASE g # h
      BY <1>1, <3>2, <2>7, <1>3, <1>4, <2>5 DEF MemoryInv, CreateMemory, hosts
    <3> QED BY <3>1, <3>2
  <2> QED BY <2>1, <2>2, <2>3, <2>4, <2>6, <2>7 DEF CreateMemory
<1> QED BY <1>1, <1>6 DEF MemoryInv, UpdateMemory, SuccessOK

LEMMA NextMemoryInv == TypeInv /\ NamesInv /\ MemoryInv /\ [Next]_vars => MemoryInv'
<1> SUFFICES ASSUME TypeInv, NamesInv, MemoryInv, [Next]_vars PROVE MemoryInv'
  OBVIOUS
<1>typ. /\ job \in [Uuids \cup Hostnames -> {"idle", "queued", "extra", "done", "raised"}]
        /\ node_id \in [Hostnames -> Uuids \cup {None}]
        /\ \A h \in Hostnames : node_id[h] # None => node_id[h] \in Present
        /\ \A u \in Present : u \in Uuids /\ u # None
        /\ Uuids \cap Hostnames = {}
  BY EnrollAssumption DEF TypeInv, TypeOK, JobsOK, Present
<1>1. CASE Quits
  <2>1. PICK status \in {"ok", "failed", "crashed"} :
           End(status) /\ ironic' = ironic /\ (status = "ok" => phase = "manage")
    BY <1>1 DEF Quits
  <2>2. phase' = "idle" /\ exit' = status /\ rows' = rows /\ Present' = Present
    BY <2>1 DEF End, Present
  <2>3. Enrolled' = Enrolled
    BY <2>1, <2>2 DEF Enrolled
  <2> QED BY <2>1, <2>2, <2>3 DEF MemoryInv, UpdateMemory, CreateMemory, SuccessOK
<1>2. CASE StartRun
  <2>1. phase' = "update" /\ \A h \in Hostnames : node_id'[h] = None
    BY <1>2 DEF StartRun, TypeInv, IdleOK
  <2> QED BY <2>1 DEF MemoryInv, UpdateMemory, CreateMemory, SuccessOK
<1>3. CASE UpdatesJoined
  BY <1>3, MemoryHandedOn DEF UpdatesJoined, MemoryInv, UpdateMemory, SuccessOK
<1>4. CASE CreatesJoined
  <2>1. phase = "create" /\ Joined /\ phase' = "manage" /\ UNCHANGED <<ironic, rows>>
    BY <1>4 DEF CreatesJoined
  <2>2. Enrolled /\ Enrolled' = Enrolled
    BY <2>1, MemoryEnrolled DEF Enrolled, Present
  <2> QED BY <2>1, <2>2 DEF MemoryInv, UpdateMemory, CreateMemory, SuccessOK
<1>5. CASE EditCsv \/ Conductor \/ UNCHANGED vars
  <2>1. UNCHANGED <<phase, rows, node_id, job, exit>> /\ Alike
    BY <1>5, ConductorFacts DEF EditCsv, vars, proc, Alike, Present
  <2> QED BY <2>1, AlikeMemory
<1>6. ASSUME NEW j \in Uuids \cup Hostnames, Idles(j) PROVE MemoryInv'
  <2>1. \A h \in Hostnames : job'[h] = job[h] \/ job'[h] = "raised"
    BY <1>6, <1>typ DEF Idles, Ends
  <2>2. Alike /\ UNCHANGED <<phase, rows, node_id, exit>>
    BY <1>6 DEF Idles, Alike, Present
  <2> QED BY <2>1, <2>2, AlikeMemory
<1>7. ASSUME NEW u \in Uuids, Manage(u) PROVE MemoryInv'
  <2>1. phase = "manage" /\ Alike /\ UNCHANGED <<phase, rows, node_id, exit>>
    BY <1>7, ManageFacts
  <2>2. Enrolled'
    <3>1. {ironic'[v].extra : v \in Present} = {ironic[v].extra : v \in Present}
      BY <2>1 DEF Alike
    <3> QED BY <2>1, <3>1 DEF MemoryInv, SuccessOK, Enrolled, Alike
  <2> QED BY <2>1, <2>2 DEF MemoryInv, UpdateMemory, CreateMemory, SuccessOK
<1>8. ASSUME NEW u \in Uuids, Keep(u) \/ (Rename(u) /\ ~Refused(u)) PROVE MemoryInv'
  <2>1. /\ phase = "update" /\ UNCHANGED <<phase, rows>> /\ u \in Present /\ Known(u)
        /\ Wanted(u) \in Hostnames
        /\ \A v \in Present : v # u => ironic'[v] = ironic[v]
        /\ ironic'[u].name = Lower[Wanted(u)] /\ ironic'[u].uri = ironic[u].uri
        /\ node_id' = [node_id EXCEPT ![Wanted(u)] = u]
    BY <1>8, KeepFacts, RenameFacts
  <2>2. Known(u)' /\ Wanted(u)' = Wanted(u)
    BY <2>1 DEF Known, Wanted
  <2>3. ASSUME NEW h \in Hostnames, node_id'[h] # None
        PROVE  /\ node_id'[h] \in Present /\ ironic'[node_id'[h]].name = Lower[h]
               /\ ironic'[node_id'[h]].uri = ironic[node_id'[h]].uri
               /\ Known(node_id'[h]) /\ Wanted(node_id'[h]) = h
    <3>1. CASE h = Wanted(u)
      BY <2>1, <3>1, <1>typ
    <3>2. CASE h # Wanted(u)
      <4>1. node_id'[h] = node_id[h] /\ node_id[h] \in Present
        BY <2>1, <2>3, <3>2, <1>typ
      <4>2. Known(node_id[h]) /\ Wanted(node_id[h]) = h /\ ironic[node_id[h]].name = Lower[h]
        BY <2>1, <2>3, <4>1 DEF MemoryInv, UpdateMemory
      <4>3. node_id[h] # u
        BY <3>2, <4>2
      <4> QED BY <2>1, <4>1, <4>2, <4>3
    <3> QED BY <3>1, <3>2
  <2>4. UpdateMemory'
    BY <2>1, <2>3 DEF UpdateMemory, Known, Wanted
  <2> QED BY <2>1, <2>4 DEF MemoryInv, CreateMemory, SuccessOK
<1>9. ASSUME NEW u \in Uuids, Delete(u), ~Refused(u) PROVE MemoryInv'
  <2>1. /\ phase = "update" /\ UNCHANGED <<phase, rows, node_id>> /\ Present' = Present \ {u}
        /\ \A v \in Present' : ironic'[v] = ironic[v]
        /\ \A h \in Hostnames : node_id[h] # u
    BY <1>9, DeleteFacts
  <2>2. \A h \in Hostnames : node_id[h] # None => ironic'[node_id[h]] = ironic[node_id[h]]
    BY <2>1, <1>typ
  <2> QED
    BY <2>1, <2>2 DEF MemoryInv, UpdateMemory, CreateMemory, SuccessOK, Known, Wanted
<1>10. ASSUME NEW h \in Hostnames, (Create(h) /\ ~Refused(h)) \/ Patch(h) \/ AddExtra(h)
       PROVE  MemoryInv'
  BY <1>10, HostMemory
<1> QED BY <1>1, <1>2, <1>3, <1>4, <1>5, <1>6, <1>7, <1>8, <1>9, <1>10, Steps

\* A run that exits 0 leaves in ironic exactly the hosts of the file it read,
\* whatever earlier runs left behind, also when the file names a BMC or a
\* hostname twice.
THEOREM EnrollEnrolledOnSuccess == Spec => []EnrolledOnSuccess
<1>1. Init => MemoryInv
  BY DEF Init, MemoryInv, UpdateMemory, CreateMemory, SuccessOK
<1>2. TypeInv /\ NamesInv /\ MemoryInv /\ [Next]_vars => MemoryInv'
  BY NextMemoryInv
<1>3. MemoryInv => EnrolledOnSuccess
  BY DEF MemoryInv, SuccessOK, Enrolled, EnrolledOnSuccess
<1> QED BY <1>1, <1>2, <1>3, EnrollNamesInv, PTL DEF Spec
=============================================================================
