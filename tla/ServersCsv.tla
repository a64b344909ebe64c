------------------------------ MODULE ServersCsv -----------------------------
(***************************************************************************)
(* The readers of servers.csv that keep no state of their own: the         *)
(* variables plugin uos_net_vars, which gives an ansible host the columns  *)
(* of its rows, and maine-genhost, which adds hosts to /etc/hosts.  A row  *)
(* is a hostname, a pxe address, and an address per vlan column; the       *)
(* address Blank is an empty cell.                                         *)
(***************************************************************************)
EXTENDS Naturals, Functions

CONSTANTS Short,   \* name.split('.')[0], on names of hosts
          FoundIn, \* FoundIn[a]: the names in which re.search finds a
          Blank

\* A column the row's file does not have is not in DOMAIN row.vlans.
Address(row, v) == IF v \in DOMAIN row.vlans THEN row.vlans[v] ELSE Blank

\* `found` is the cached list of files, each a sequence of rows: row p[2] of
\* file p[1].
RowAt(found, p) == found[p[1]][p[2]]
Places(found) == UNION {{k} \X DOMAIN found[k] : k \in DOMAIN found}
Before(p, q) == p[1] < q[1] \/ (p[1] = q[1] /\ p[2] < q[2])

\* Where the rows are that get_vars combines for host h.
RowsOf(h, found) == {p \in Places(found) : Short[RowAt(found, p).hostname] = Short[h]}

Undefined == "undefined"

\* combine_vars: a later row wins, with an empty cell too.
Var(h, v, found) ==
    LET with == {p \in RowsOf(h, found) : v \in DOMAIN RowAt(found, p).vlans}
        last == CHOOSE p \in with : \A q \in with : ~Before(p, q)
    IN IF with = {} THEN Undefined ELSE RowAt(found, last).vlans[v]

\* The names parse_hosts adds: each is searched in the file as it was before,
\* as a pattern that may match inside another name.
Missing(rows, lines) ==
    {n \in {rows[i].hostname : i \in DOMAIN rows} : FoundIn[n] \cap DOMAIN lines = {}}

\* The first line of a name is the one that resolves it.
parse_hosts(rows, lines) ==
    LET first(n) == CHOOSE i \in DOMAIN rows :
            rows[i].hostname = n /\ \A j \in DOMAIN rows : rows[j].hostname = n => i <= j
    IN [n \in DOMAIN lines \cup Missing(rows, lines) |->
            IF n \in DOMAIN lines THEN lines[n] ELSE rows[first(n)].pxe]
=============================================================================
