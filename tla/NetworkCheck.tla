---------------------------- MODULE NetworkCheck -----------------------------
(***************************************************************************)
(* playbooks/network.yml on the machines of servers.csv: maine-genhost has *)
(* made their names known, a play gives their interfaces the addresses the *)
(* variables plugin finds (NetConfig models how), and the role             *)
(* network-check has every host ping every other one on every vlan with    *)
(* ustack_ping, at the same time.  The check may be run alone, by its tag. *)
(***************************************************************************)
EXTENDS ServersCsv, Sequences

CONSTANTS Hosts,      \* groups['baremetal']
          Dns,        \* hosts whose name is resolved without /etc/hosts
          Sites,      \* what servers.csv may hold: sequences of rows
          OtherFiles, \* what another file of csv_vars may hold
          Columns,    \* the vlan columns a file may have
          Mtu,        \* service_mtu of each host
          Nets,       \* functions from <<host, host>> to a link
          MaxChanges  \* bound: edits of the files, changes of the network

Rows == UNION {Range(s) : s \in Sites \cup OtherFiles}
Addresses == {Blank} \cup UNION {Range(r.vlans) : r \in Rows}
Limit == [avg |-> 2, max |-> 5, loss |-> 0]  \* ping_allowed_*, in tenths of ms

\* The rows of a file have the columns of its first line.
ASSUME NetworkCheckAssumption ==
    /\ Hosts \subseteq DOMAIN Short /\ \A r \in Rows : r.hostname \in DOMAIN Short
    /\ \A r \in Rows : /\ DOMAIN r.vlans \subseteq Columns
                      /\ r.vlans \in [DOMAIN r.vlans -> Addresses]
    /\ Sites \cup OtherFiles \subseteq Seq(Rows)
    /\ \A s \in Sites : \A i, j \in DOMAIN s : DOMAIN s[i].vlans = DOMAIN s[j].vlans
    /\ Undefined \notin Addresses /\ Mtu \in [Hosts -> Nat] /\ MaxChanges \in Nat
    /\ \A n \in Nets, l \in Hosts \X Hosts :
          /\ n[l].up \in BOOLEAN
          /\ {n[l].min, n[l].avg, n[l].max, n[l].loss, n[l].mtu} \subseteq Nat
          /\ n[l].min <= n[l].avg /\ n[l].avg <= n[l].max

VARIABLES csv, other, \* servers.csv; the other file of csv_vars
          lines,      \* the names genhost wrote to /etc/hosts, with their addresses
          net,        \* the links
          address,    \* what each host's interface of each vlan has
          found,      \* FOUND of the running play
          done,       \* items of the loop each host has done
          failed,     \* hosts with a failed task
          stage, outcome, changes

given == <<csv, other, net, changes>>
checkvars == <<given, lines, address, found, done, failed, stage, outcome>>

\* The columns are taken from the second row, csv_data.list.1; then the loop
\* is over vlans | product(groups['baremetal']).
SecondRow == Len(csv) >= 2
vlans == {v \in Columns : v \in DOMAIN csv[2].vlans}
Items == [vlan : vlans, to : Hosts]

CheckTypeOK ==
    /\ csv \in Sites /\ other \in OtherFiles /\ net \in Nets /\ changes \in 0..MaxChanges
    /\ lines \in [DOMAIN lines -> {r.pxe : r \in Rows}] /\ DOMAIN lines \subseteq DOMAIN Short
    /\ address \in [Hosts -> [Columns -> Addresses]]
    /\ found \in {<<>>, <<csv, other>>, <<other, csv>>}
    /\ done \in [Hosts -> SUBSET [vlan : Columns, to : Hosts]] /\ failed \subseteq Hosts
    /\ stage \in {"idle", "configure", "check"} /\ outcome \in {"none", "ok", "failed"}

CheckInit ==
    /\ csv \in Sites /\ other \in OtherFiles /\ net \in Nets
    /\ lines = <<>> /\ address = [h \in Hosts |-> [v \in Columns |-> Blank]]
    /\ found = <<>> /\ done = [h \in Hosts |-> {}] /\ failed = {}
    /\ stage = "idle" /\ outcome = "none" /\ changes = 0

genhost ==
    /\ stage = "idle" /\ lines' = parse_hosts(csv, lines)
    /\ UNCHANGED <<given, address, found, done, failed, stage, outcome>>

\* A host answers on the address it was installed with, its row's.
Connects(h) ==
    \/ h \in Dns
    \/ h \in DOMAIN lines /\ \A i \in DOMAIN csv : csv[i].hostname = h => csv[i].pxe = lines[h]

\* glob lists the files of csv_vars in any order, once for the whole run.
StartPlay ==
    /\ stage = "idle" /\ stage' \in {"configure", "check"} /\ outcome' = "none"
    /\ found' \in {<<csv, other>>, <<other, csv>>}
    /\ done' = [h \in Hosts |-> {}] /\ failed' = {}
    /\ UNCHANGED <<given, lines, address>>

\* Mutant: a host without the variable is configured too.
ConfigureAll ==
    LET lost == {h \in Hosts : ~Connects(h)} IN
    /\ stage = "configure" /\ stage' = "check" /\ failed' = lost
    /\ address' = [h \in Hosts |-> [v \in Columns |->
                     IF h \notin lost THEN Var(h, v, found) ELSE address[h][v]]]
    /\ UNCHANGED <<given, lines, found, done, outcome>>

\* The play of the network, on a site whose network_config leaves out the
\* vlans a host has no variable for; a host it cannot reach is out of the next.
Configure ==
    LET lost == {h \in Hosts : ~Connects(h)} IN
    /\ stage = "configure" /\ stage' = "check" /\ failed' = lost
    /\ address' = [h \in Hosts |-> [v \in Columns |->
                     IF h \notin lost /\ Var(h, v, found) # Undefined
                     THEN Var(h, v, found) ELSE address[h][v]]]
    /\ UNCHANGED <<given, lines, found, done, outcome>>

Quit(how) == stage' = "idle" /\ outcome' = how /\ found' = <<>>

\* Every host fails on the undefined row.
NoSecondRow ==
    /\ stage = "check" /\ ~SecondRow /\ Quit("failed")
    /\ UNCHANGED <<given, lines, address, done, failed>>

\* Mutant: what run_ping returns when ping fails is taken for a measurement.
PingUnchecked(link, mtu) ==
    LET exit_code == IF link.up /\ mtu <= link.mtu THEN 0 ELSE 1
        lat == IF exit_code = 1 THEN 0 ELSE link.min
    IN (exit_code = 1 \/ link.loss <= Limit.loss) /\ lat <= Limit.avg /\ lat <= Limit.max

\* ping -M do: a packet the path cannot carry whole is an error.  The minimum
\* stands for the average and the maximum, too.
ustack_ping(link, mtu) ==
    LET exit_code == IF link.up /\ mtu <= link.mtu THEN 0 ELSE 1
    IN exit_code = 0 /\ link.loss <= Limit.loss /\ link.min <= Limit.avg /\ link.min <= Limit.max

\* Mutant: the larger of the two MTUs.
MaxMtu(h, g) == IF Mtu[h] < Mtu[g] THEN Mtu[g] ELSE Mtu[h]

MinMtu(h, g) == IF Mtu[h] < Mtu[g] THEN Mtu[h] ELSE Mtu[g]

\* A host that the play of the network lost has not begun the loop.
Running(h) == Items \ done[h] # {} /\ (done[h] = {} => h \notin failed)

Skipped(h, item) ==
    \/ h = item.to
    \/ \E x \in {h, item.to} : Var(x, item.vlan, found) \in {Undefined, Blank}

\* Whoever has the address answers.
Answers(h, item) ==
    /\ address[h][item.vlan] # Blank
    /\ \E g \in Hosts : /\ address[g][item.vlan] = Var(item.to, item.vlan, found)
                       /\ ustack_ping(net[<<h, g>>], MinMtu(h, item.to))

\* The loop goes on after an item that failed, not after the host is lost.  Its
\* order is fixed, and nothing that is asked changes meanwhile.
PingNext(h) ==
    LET item == CHOOSE i \in Items \ done[h] : TRUE
        reached == Skipped(h, item) \/ Connects(h)
    IN /\ stage = "check" /\ SecondRow /\ Running(h)
       /\ done' = [done EXCEPT ![h] = IF reached THEN @ \cup {item} ELSE Items]
       /\ failed' = IF Skipped(h, item) \/ (reached /\ Answers(h, item)) THEN failed
                    ELSE failed \cup {h}
       /\ UNCHANGED <<given, lines, address, found, stage, outcome>>

Finish ==
    /\ stage = "check" /\ SecondRow /\ \A h \in Hosts : ~Running(h)
    /\ Quit(IF failed = {} THEN "ok" ELSE "failed")
    /\ UNCHANGED <<given, lines, address, done, failed>>

\* The operator edits a file, or the network changes.
Change ==
    /\ stage = "idle" /\ changes < MaxChanges /\ changes' = changes + 1 /\ outcome' = "none"
    /\ \/ csv' \in Sites \ {csv} /\ UNCHANGED <<other, net>>
       \/ other' \in OtherFiles \ {other} /\ UNCHANGED <<csv, net>>
       \/ net' \in Nets \ {net} /\ UNCHANGED <<csv, other>>
    /\ UNCHANGED <<lines, address, found, done, failed, stage>>

NetworkPlay == Configure \/ NoSecondRow \/ Finish \/ \E h \in Hosts : PingNext(h)
CheckNext == genhost \/ StartPlay \/ NetworkPlay \/ Change
CheckSpec == CheckInit /\ [][CheckNext]_checkvars

\* The operator repeats genhost and the whole play; a play goes on.
CheckFairSpec ==
    /\ CheckSpec /\ WF_checkvars(NetworkPlay)
    /\ SF_checkvars(genhost) /\ SF_checkvars(StartPlay /\ stage' = "configure")

(***************************************************************************)
(* Properties                                                              *)
(***************************************************************************)
Mine(h) == {i \in DOMAIN csv : Short[csv[i].hostname] = Short[h]}
OneRow(h) == (\E i \in Mine(h) : Mine(h) = {i}) /\ RowsOf(h, <<other>>) = {}
Row(h) == csv[CHOOSE i \in Mine(h) : TRUE]
Good(h, g) ==
    LET link == net[<<h, g>>]
    IN link.up /\ link.loss = 0 /\ link.min <= 2 /\ (Mtu[h] <= link.mtu \/ Mtu[g] <= link.mtu)

\* A network check that succeeds has found the link between any two machines
\* that have one row each, and addresses no other has, up, without loss, fast
\* at its best and wide enough for the smaller MTU: no machine is passed over,
\* however its inventory name is written (network-check/tasks/main.yml:21-37,
\* ustack_ping.py:76-172).  At its best only: the average and the maximum of
\* ping are never looked at.
SuccessMeansChecked ==
    outcome = "ok" =>
        \A h, g \in {x \in Hosts : OneRow(x)} : \A v \in Columns :
            LET a == Address(Row(g), v) IN
            /\ h # g /\ Blank \notin {Address(Row(h), v), a}
            /\ \A x \in Hosts \ {g} : address[x][v] # a
            => Good(h, g) /\ address[g][v] = a

\* What stands in the way of a host for good: two rows or none, a line of
\* /etc/hosts with its address of before, or another name that contains its
\* own and came first (genhost.py:55 never adds or replaces it then).
Blocked(h) ==
    \/ ~OneRow(h)
    \/ /\ h \notin Dns
       /\ \/ Row(h).hostname # h
          \/ h \in DOMAIN lines /\ lines[h] # Row(h).pxe
          \/ h \notin DOMAIN lines /\ DOMAIN lines \cap FoundIn[h] # {}

\* Repeating genhost and the play ends with checks that succeed, once the file
\* has a second row, no host is blocked, no two share an address, and every
\* link is good.
CheckConverges ==
    <>[](/\ SecondRow /\ \A h \in Hosts : ~Blocked(h)
         /\ \A h, g \in Hosts : h # g =>
               /\ Good(h, g)
               /\ \A v \in Columns : Address(Row(h), v) \notin {Address(Row(g), v)} \ {Blank})
    => []<>(outcome = "ok")
=============================================================================
