------------------------------- MODULE Enroll -------------------------------
(***************************************************************************)
(* `maine-ansible bifrost-enroll`: roles/bifrost/files/enroll.py makes the *)
(* ironic of the bifrost container agree with servers.csv.  A run reads    *)
(* the file, lists the nodes, keeps, renames or deletes each of them in a  *)
(* thread pool, creates or patches one node per hostname in a second pool, *)
(* and asks ironic to manage every node that is still in `enroll`.         *)
(*                                                                         *)
(* The unit of interleaving is one call of the ironic API.  A call may be  *)
(* refused (name taken, state forbids it), fail without effect, or take    *)
(* effect and lose its answer; the process may die between two calls.      *)
(***************************************************************************)
EXTENDS Naturals, Sequences, FiniteSets

CONSTANTS Uuids,        \* identities ironic may give to a node
          Hostnames,    \* the column `hostname` of servers.csv
          Uris,         \* "ipmi_address:ipmi_port" of a BMC
          Lower,        \* str.lower() on Hostnames
          CSVs,         \* the contents the operator may give servers.csv
          CpuCounts,    \* multiprocessing.cpu_count() of the container
          MaxEdits,     \* bound: edits of servers.csv
          MaxFaults,    \* bound: failed calls, lost answers and crashes
          None

Row == [hostname : Hostnames, uri : Uris]

\* "active" stands for every state in which a node holds a deployed system.
ProvisionState == {"enroll", "verifying", "manageable", "active"}
Deletable == {"enroll", "manageable"}

Node == [name : Hostnames, uri : Uris, extra : Row \cup {None},
         state : ProvisionState]

ASSUME EnrollAssumption ==
    /\ Lower \in [Hostnames -> Hostnames]
    /\ \A h \in Hostnames : Lower[Lower[h]] = Lower[h]
    /\ CSVs \subseteq Seq(Row)
    /\ CpuCounts \subseteq Nat \ {0}
    /\ MaxEdits \in Nat /\ MaxFaults \in Nat
    /\ Uuids \cap Hostnames = {}
    /\ None \notin Uuids \cup Hostnames \cup Row \cup Node

VARIABLES ironic,   \* node table of the ironic API: uuid -> record or None
          csv,      \* /etc/bifrost/servers.csv
          phase,    \* where main() is; "idle" when no run is going on
          rows,     \* what load_csv() read
          workers,  \* size of the thread pools
          job,      \* pc of the pool task of a node or of a hostname
          node_id,  \* node_hostname_in_ironic, then create_node's node_id
          exit,     \* how the last run ended
          edits, faults

proc == <<phase, rows, workers, job, node_id, exit>>
vars == <<ironic, csv, proc, edits, faults>>

Present == {u \in Uuids : ironic[u] # None}

\* The dicts load_csv() fills: a later row of the same key wins.
hostname_ipmi(c) ==
    [h \in {c[i].hostname : i \in DOMAIN c} |->
        c[CHOOSE i \in DOMAIN c :
            /\ c[i].hostname = h
            /\ \A j \in DOMAIN c : c[j].hostname = h => j <= i]]

ipmi_hostname(c) ==
    [x \in {c[i].uri : i \in DOMAIN c} |->
        c[CHOOSE i \in DOMAIN c :
            /\ c[i].uri = x
            /\ \A j \in DOMAIN c : c[j].uri = x => j <= i].hostname]

TypeOK ==
    /\ ironic \in [Uuids -> Node \cup {None}]
    /\ csv \in CSVs /\ rows \in CSVs
    /\ phase \in {"idle", "update", "create", "manage"}
    /\ workers \in Nat
    /\ job \in [Uuids \cup Hostnames ->
                  {"idle", "queued", "extra", "done", "raised"}]
    /\ node_id \in [Hostnames -> Uuids \cup {None}]
    /\ exit \in {"none", "ok", "failed", "crashed"}
    /\ edits \in 0..MaxEdits /\ faults \in 0..MaxFaults

NoJobs == [j \in Uuids \cup Hostnames |-> "idle"]

\* The jobs of a pool: one queued task for every member of S.
Queue(S) == [j \in Uuids \cup Hostnames |-> IF j \in S THEN "queued" ELSE "idle"]

Init ==
    /\ ironic = [u \in Uuids |-> None]
    /\ csv \in CSVs /\ rows = csv
    /\ phase = "idle" /\ workers = 0 /\ exit = "none"
    /\ job = NoJobs
    /\ node_id = [h \in Hostnames |-> None]
    /\ edits = 0 /\ faults = 0

(***************************************************************************)
(* main()                                                                  *)
(***************************************************************************)
End(status) ==
    /\ phase' = "idle" /\ exit' = status
    /\ job' = NoJobs
    /\ node_id' = [h \in Hostnames |-> None]
    /\ UNCHANGED <<rows, workers>>

\* An empty file ends in exit(1); with one CPU ThreadPool(0) is a ValueError.
RefuseRun ==
    /\ phase = "idle"
    /\ csv = <<>> \/ \E cpus \in CpuCounts : cpus \div 2 = 0
    /\ End("failed")
    /\ UNCHANGED <<ironic, csv, edits, faults>>

StartRun ==
    /\ phase = "idle" /\ csv # <<>>
    /\ \E cpus \in CpuCounts : cpus \div 2 > 0 /\ workers' = cpus \div 2
    /\ phase' = "update" /\ rows' = csv
    /\ job' = Queue(Present)
    /\ UNCHANGED <<ironic, csv, node_id, exit, edits, faults>>

\* A pool reports the first exception of a task, maybe before the others
\* ran, and main() does not catch it.
PoolRaised ==
    /\ \E j \in DOMAIN job : job[j] = "raised"
    /\ End("failed")
    /\ UNCHANGED <<ironic, csv, edits, faults>>

Joined == \A j \in DOMAIN job : job[j] \in {"idle", "done"}

UpdatesJoined ==
    /\ phase = "update" /\ Joined
    /\ phase' = "create"
    /\ job' = Queue(DOMAIN hostname_ipmi(rows))
    /\ UNCHANGED <<ironic, csv, rows, workers, node_id, exit, edits, faults>>

CreatesJoined ==
    /\ phase = "create" /\ Joined
    /\ phase' = "manage"
    /\ job' = Queue({u \in Present : ironic[u].state = "enroll"})
    /\ UNCHANGED <<ironic, csv, rows, workers, node_id, exit, edits, faults>>

FinishRun ==
    /\ phase = "manage" /\ Joined
    /\ End(IF \E u \in Present : ironic[u].state = "enroll" THEN "failed" ELSE "ok")
    /\ UNCHANGED <<ironic, csv, edits, faults>>

(***************************************************************************)
(* The tasks: queued, then one step per API call that changes something.   *)
(***************************************************************************)
Go(j, p) ==
    /\ phase = p /\ job[j] = "queued"
    /\ Cardinality({k \in DOMAIN job : job[k] = "extra"}) < workers
    /\ UNCHANGED <<csv, phase, rows, workers, exit, edits>>

\* The call of task j was carried out: it sees the answer or an exception.
Answer(j, next) ==
    \/ job' = [job EXCEPT ![j] = next] /\ UNCHANGED faults
    \/ /\ faults < MaxFaults /\ faults' = faults + 1
       /\ job' = [job EXCEPT ![j] = "raised"]

Refused(j) == /\ job' = [job EXCEPT ![j] = "raised"]
              /\ UNCHANGED <<ironic, node_id, faults>>

Wanted(u) == ipmi_hostname(rows)[ironic[u].uri]
Known(u) == ironic[u].uri \in DOMAIN ipmi_hostname(rows)
NameTaken(h) == \E v \in Present : ironic[v].name = h

\* Mutant: the uuid of a node that needs no new name is not remembered.
KeepForgets(u) ==
    /\ Go(u, "update") /\ Known(u)
    /\ ironic[u].name = Lower[Wanted(u)]
    /\ job' = [job EXCEPT ![u] = "done"]
    /\ UNCHANGED <<ironic, node_id, faults>>

Keep(u) ==
    /\ Go(u, "update") /\ Known(u)
    /\ ironic[u].name = Lower[Wanted(u)]
    /\ job' = [job EXCEPT ![u] = "done"]
    /\ node_id' = [node_id EXCEPT ![Wanted(u)] = u]
    /\ UNCHANGED <<ironic, faults>>

\* Mutant: the patch sends the hostname as typed, not in lower case.
RenameAsTyped(u) ==
    /\ Go(u, "update") /\ Known(u)
    /\ ironic[u].name # Lower[Wanted(u)]
    /\ \/ NameTaken(Wanted(u)) /\ Refused(u)
       \/ /\ ~NameTaken(Wanted(u))
          /\ ironic' = [ironic EXCEPT ![u].name = Wanted(u)]
          /\ node_id' = [node_id EXCEPT ![Wanted(u)] = u]
          /\ Answer(u, "done")

Rename(u) ==
    /\ Go(u, "update") /\ Known(u)
    /\ ironic[u].name # Lower[Wanted(u)]
    /\ \/ NameTaken(Lower[Wanted(u)]) /\ Refused(u)
       \/ /\ ~NameTaken(Lower[Wanted(u)])
          /\ ironic' = [ironic EXCEPT ![u].name = Lower[Wanted(u)]]
          /\ node_id' = [node_id EXCEPT ![Wanted(u)] = u]
          /\ Answer(u, "done")

\* Mutant: a node is looked up by its name instead of by its BMC.
DeleteByName(u) ==
    /\ Go(u, "update")
    /\ \A h \in DOMAIN hostname_ipmi(rows) : ironic[u].name # Lower[h]
    /\ ironic[u].state \in Deletable
    /\ ironic' = [ironic EXCEPT ![u] = None]
    /\ Answer(u, "done") /\ UNCHANGED node_id

Delete(u) ==
    /\ Go(u, "update") /\ ~Known(u)
    /\ \/ ironic[u].state \notin Deletable /\ Refused(u)
       \/ /\ ironic[u].state \in Deletable
          /\ ironic' = [ironic EXCEPT ![u] = None]
          /\ Answer(u, "done") /\ UNCHANGED node_id

Create(h) ==
    /\ Go(h, "create") /\ node_id[h] = None
    /\ \/ NameTaken(h) /\ Refused(h)
       \/ /\ ~NameTaken(h)
          /\ \E u \in Uuids \ Present :
                /\ ironic' = [ironic EXCEPT ![u] =
                      [name |-> h, uri |-> hostname_ipmi(rows)[h].uri,
                       extra |-> None, state |-> "enroll"]]
                /\ node_id' = [node_id EXCEPT ![h] = u]
          /\ Answer(h, "extra")

\* Mutant: only a node that was just created gets its extra.
PatchOnly(h) ==
    /\ Go(h, "create") /\ node_id[h] # None
    /\ ironic' = [ironic EXCEPT ![node_id[h]].uri = hostname_ipmi(rows)[h].uri]
    /\ Answer(h, "done") /\ UNCHANGED node_id

Patch(h) ==
    /\ Go(h, "create") /\ node_id[h] # None
    /\ ironic' = [ironic EXCEPT ![node_id[h]].uri = hostname_ipmi(rows)[h].uri]
    /\ Answer(h, "extra") /\ UNCHANGED node_id

AddExtra(h) ==
    /\ phase = "create" /\ job[h] = "extra"
    /\ ironic' = [ironic EXCEPT ![node_id[h]].extra = hostname_ipmi(rows)[h]]
    /\ Answer(h, "done")
    /\ UNCHANGED <<csv, phase, rows, workers, node_id, exit, edits>>

\* Mutant: the verb is stored instead of the state it leads to.
ManageVerb(u) ==
    /\ Go(u, "manage")
    /\ ironic' = [ironic EXCEPT ![u].state = "manage"]
    /\ Answer(u, "done") /\ UNCHANGED node_id

Manage(u) ==
    /\ Go(u, "manage")
    /\ ironic' = [ironic EXCEPT ![u].state = "verifying"]
    /\ Answer(u, "done") /\ UNCHANGED node_id

\* A call of a task or of the manage loop fails without effect.
CallFails(j) ==
    /\ job[j] \in {"queued", "extra"} /\ faults < MaxFaults
    /\ job' = [job EXCEPT ![j] = "raised"] /\ faults' = faults + 1
    /\ UNCHANGED <<ironic, csv, phase, rows, workers, node_id, exit, edits>>

Crash ==
    /\ phase # "idle" /\ faults < MaxFaults /\ faults' = faults + 1
    /\ End("crashed")
    /\ UNCHANGED <<ironic, csv, edits>>

(***************************************************************************)
(* The environment: the operator's editor and ironic's conductor.          *)
(***************************************************************************)
EditCsv ==
    /\ phase = "idle" /\ edits < MaxEdits /\ edits' = edits + 1
    /\ csv' \in CSVs \ {csv}
    /\ UNCHANGED <<ironic, proc, faults>>

Moves(u, from, to) ==
    /\ ironic[u] # None /\ ironic[u].state = from
    /\ ironic' = [ironic EXCEPT ![u].state = to]
    /\ UNCHANGED <<csv, proc, edits>>

Verified(u) == Moves(u, "verifying", "manageable") /\ UNCHANGED faults
Deployed(u) == Moves(u, "manageable", "active") /\ UNCHANGED faults
Undeployed(u) == Moves(u, "active", "manageable") /\ UNCHANGED faults
NotVerified(u) ==
    /\ faults < MaxFaults /\ faults' = faults + 1
    /\ Moves(u, "verifying", "enroll")

NodeTask(u) == Keep(u) \/ Rename(u) \/ Delete(u) \/ Manage(u)
HostTask(h) == Create(h) \/ Patch(h) \/ AddExtra(h)

Program ==
    \/ RefuseRun \/ StartRun \/ PoolRaised
    \/ UpdatesJoined \/ CreatesJoined \/ FinishRun
    \/ \E u \in Uuids : NodeTask(u)
    \/ \E h \in Hostnames : HostTask(h)

Conductor == \E u \in Uuids : Verified(u) \/ Deployed(u) \/ Undeployed(u) \/ NotVerified(u)

Next ==
    \/ Program \/ Conductor \/ EditCsv \/ Crash
    \/ \E j \in Uuids \cup Hostnames : CallFails(j)

Spec == Init /\ [][Next]_vars

\* The operator repeats a run that failed, a run takes its next call, and the
\* conductor ends every verification; faults and edits are never obliged.
FairSpec == Spec /\ WF_vars(Program) /\ WF_vars(\E u \in Uuids : Verified(u))

(***************************************************************************)
(* Properties                                                              *)
(***************************************************************************)
UniqueUris(c) == \A i, j \in DOMAIN c : c[i].uri = c[j].uri => i = j

\* Two ironic nodes never drive the same BMC, whatever was edited, failed,
\* crashed or lost its answer before (enroll.py:97-103, 113, 204: a node is
\* created only if the listing of this run had none for that BMC).
NoDuplicateBmc ==
    \A u, v \in Present : ironic[u].uri = ironic[v].uri => u = v

\* A run that exits 0 leaves in ironic exactly the hosts of the file it read,
\* each with its name, its BMC and the columns that generate_servers.py and
\* the dynamic inventory read from `extra` (enroll.py:106-163, 198-204), also
\* when earlier runs died between creating a node and filling its `extra`.
EnrolledOnSuccess ==
    (phase = "idle" /\ exit = "ok") =>
        LET hosts == hostname_ipmi(rows) IN
        /\ {ironic[u].extra : u \in Present} = {hosts[h] : h \in DOMAIN hosts}
        /\ \A u \in Present :
              /\ ironic[u].uri = ironic[u].extra.uri
              /\ ironic[u].name \in {ironic[u].extra.hostname,
                                      Lower[ironic[u].extra.hostname]}

\* A node whose BMC stays in servers.csv keeps its uuid, hence its inspection
\* data and its deployment, however its hostname is edited and however many
\* runs are repeated (enroll.py:97-103: only an unknown BMC is deleted).
KnownNodeSurvives ==
    [][\A u \in Present :
          (\E i \in DOMAIN csv : csv[i].uri = ironic[u].uri) => u \in Present']_vars

UniqueHostnames(c) == \A i, j \in DOMAIN c : c[i].hostname = c[j].hostname => i = j

\* What repeating the command may never put right: a deployed node is missing
\* from the file; or a node of the file needs a name that another node still
\* has, one the file renames (two hosts exchange names, or one takes the name
\* another gives up) or one whose BMC has left the file: the refused rename can
\* end every run before the other node is renamed or deleted.
Stuck(c) ==
    LET hosts == ipmi_hostname(c) IN
    \E u \in Present :
        \/ ironic[u].state = "active" /\ ironic[u].uri \notin DOMAIN hosts
        \/ /\ ironic[u].uri \in DOMAIN hosts
           /\ \E v \in Present \ {u} : ironic[v].name = Lower[hosts[ironic[u].uri]]

\* Repeating the command converges: once the file is left alone and nothing
\* is stuck, runs that leave ironic equal to the file keep happening
\* (enroll.py:166-204 starts over from what ironic holds).  The command
\* refuses an empty file (enroll.py:84-87), and of two rows with one hostname
\* it enrols the last (enroll.py:79-80), which may ask for a name a kept node
\* holds.
EnrollConverges ==
    \A c \in {d \in CSVs : d # <<>> /\ UniqueHostnames(d)} :
        <>[](csv = c /\ ~Stuck(c)) => []<>(phase = "idle" /\ exit = "ok" /\ rows = c)
=============================================================================
