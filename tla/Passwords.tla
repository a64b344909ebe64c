------------------------------ MODULE Passwords ------------------------------
(***************************************************************************)
(* passwords.yml: maine-genpwd fills it in place (`maine-ansible genpwds`),*)
(* and the upgrade script moves it to /tmp, has maine-genpwd fill a copy   *)
(* of the new release's template, and has kolla-mergepwd join both into a  *)
(* new passwords.yml.  A process that is killed while it writes leaves a   *)
(* prefix of the file; it may be killed anywhere.  SiteFiles runs this     *)
(* module's actions beside those of MergeInventory.                        *)
(***************************************************************************)
EXTENDS Naturals, SequencesExt

CONSTANTS Keys,      \* sequence: the order in which yaml.safe_dump writes them
          Pairs,     \* ssh_keys and self_certs: a value has two parts
          Blank,     \* blank_keys
          Typings,   \* sets of parts, <<k, i>>, the operator may type in
          Shipped,   \* the keys in the template of each release
          MaxKills   \* bound: processes that are killed, of any command

Releases == DOMAIN Shipped

ASSUME PasswordsAssumption ==
    /\ Pairs \subseteq Range(Keys) /\ Blank \subseteq Range(Keys) \ Pairs
    /\ 1 \in Releases /\ \A r \in Releases : Shipped[r] \subseteq Range(Keys)
    /\ MaxKills \in Nat

\* A file: the values of its keys, and what was killed while it wrote the
\* file, or a file this one was made from.  None: there is no file.
File(ps, torn) == [keys |-> ps, torn |-> torn]
Empty == <<>>
None == File(Empty, "none")

Unset == 0
Given == 1     \* a value the operator typed
Cut == 2       \* what is left of a value whose writing was cut
Values == 0..9 \* bound: 3 and up are generated, and six are about when one is needed

Parts(k) == IF k \in Pairs THEN 1..2 ELSE {1}

Template(r) == File([k \in Shipped[r] |-> [i \in Parts(k) |-> Unset]], "no")

VARIABLES release,    \* of the installed package
          site,       \* /etc/maine/passwords.yml, or None
          old, new,   \* the script's files in /tmp, or None
          passwords,  \* in the memory of the process that runs
          pc,         \* what runs, and where it is
          used,       \* the values the services were deployed with
          kills

vars == <<release, site, old, new, passwords, pc, used, kills>>

IsFile(f) ==
    /\ f \in [keys : {f.keys}, torn : {"no", "genpwd", "mergepwd"}]
    /\ DOMAIN f.keys \subseteq Range(Keys)
    /\ f.keys \in [DOMAIN f.keys -> [{1} -> Values] \cup [1..2 -> Values]]
    /\ \A k \in DOMAIN f.keys : DOMAIN f.keys[k] = Parts(k)

PasswordsTypeOK ==
    /\ release \in Releases /\ kills \in 0..MaxKills
    /\ \A f \in {site, old, new, passwords} \ {None} : IsFile(f)
    /\ pc \in {"idle", "read", "write", "cp", "read_new", "write_new",
               "merge", "final", "upgrade"}
    /\ \A k \in Range(Keys) : used[k] \in [Parts(k) -> Values]

\* The first release is installed; the operator may have typed some values.
PasswordsInit ==
    /\ release = 1 /\ old = None /\ new = None /\ passwords = None
    /\ \E typed \in Typings :
          site = File([k \in Shipped[1] |->
                         [i \in Parts(k) |-> IF <<k, i>> \in typed THEN Given ELSE Unset]], "no")
    /\ pc = "idle" /\ kills = 0
    /\ used = [k \in Range(Keys) |-> [i \in Parts(k) |-> Unset]]

(***************************************************************************)
(* maine-genpwd                                                            *)
(***************************************************************************)
\* A generated value is never one that is about already.
Held(k) ==
    Range(used[k]) \cup
    UNION {Range(f.keys[k]) : f \in {g \in {site, old, new} \ {None} : k \in DOMAIN g.keys}}
Fresh(k) == CHOOSE v \in Values : v > Cut /\ v \notin Held(k)

\* Mutant: a pair is made anew as soon as one part is missing.
AnyPartMissing(f) ==
    File([k \in DOMAIN f.keys |->
            IF k \notin Blank /\ \E i \in Parts(k) : f.keys[k][i] = Unset
            THEN [i \in Parts(k) |-> Fresh(k)] ELSE f.keys[k]], f.torn)

\* A pair is made only when both parts are missing.
Filled(f) ==
    File([k \in DOMAIN f.keys |->
            IF k \notin Blank /\ \A i \in Parts(k) : f.keys[k][i] = Unset
            THEN [i \in Parts(k) |-> Fresh(k)] ELSE f.keys[k]], f.torn)

Quit == pc' = "idle" /\ passwords' = None

Genpwds ==
    /\ pc = "idle" /\ pc' = "read"
    /\ UNCHANGED <<release, site, old, new, passwords, used, kills>>

\* No file, or one without a key (`None.items()`), is an error.  Otherwise the
\* file is read and opened to be written, which truncates it.
ReadSite ==
    /\ pc = "read"
    /\ IF site = None \/ site.keys = Empty
       THEN Quit /\ UNCHANGED site
       ELSE /\ passwords' = Filled(site) /\ site' = File(Empty, site.torn)
            /\ pc' = "write"
    /\ UNCHANGED <<release, old, new, used, kills>>

WriteSite ==
    /\ pc = "write" /\ site' = passwords /\ Quit
    /\ UNCHANGED <<release, old, new, used, kills>>

(***************************************************************************)
(* The upgrade script                                                      *)
(***************************************************************************)
\* Mutant: the file is removed, as the script does with the inventory.
MoveRemoves ==
    /\ pc = "idle" /\ site # None /\ pc' = "cp" /\ site' = None
    /\ UNCHANGED <<release, old, new, passwords, used, kills>>

Move ==
    /\ pc = "idle" /\ site # None /\ pc' = "cp" /\ old' = site /\ site' = None
    /\ UNCHANGED <<release, new, passwords, used, kills>>

\* There is nothing to move: errexit.
MoveFails ==
    /\ pc = "idle" /\ site = None /\ Quit
    /\ UNCHANGED <<release, site, old, new, used, kills>>

Copy ==
    /\ pc = "cp" /\ pc' = "read_new" /\ new' = Template(release)
    /\ UNCHANGED <<release, site, old, passwords, used, kills>>

ReadNew ==
    /\ pc = "read_new" /\ pc' = "write_new"
    /\ passwords' = Filled(new) /\ new' = File(Empty, "no")
    /\ UNCHANGED <<release, site, old, used, kills>>

WriteNew ==
    /\ pc = "write_new" /\ pc' = "merge" /\ new' = passwords /\ passwords' = None
    /\ UNCHANGED <<release, site, old, used, kills>>

\* Mutant: the new file's values win.
MergedNewFirst ==
    File([k \in DOMAIN new.keys \cup DOMAIN old.keys |->
            IF k \in DOMAIN new.keys THEN new.keys[k] ELSE old.keys[k]], old.torn)

\* A key of the old file keeps its value, also an unset one.
Merged ==
    File([k \in DOMAIN new.keys \cup DOMAIN old.keys |->
            IF k \in DOMAIN old.keys THEN old.keys[k] ELSE new.keys[k]], old.torn)

Merge ==
    /\ pc = "merge"
    /\ IF old.keys = Empty THEN Quit /\ UNCHANGED site
       ELSE /\ passwords' = Merged /\ site' = File(Empty, old.torn)
            /\ pc' = "final"
    /\ UNCHANGED <<release, old, new, used, kills>>

Final ==
    /\ pc = "final" /\ pc' = "upgrade" /\ site' = passwords /\ passwords' = None
    /\ UNCHANGED <<release, old, new, used, kills>>

\* The roles give the services what the file holds.
Give == used' = [k \in Range(Keys) |-> IF k \in DOMAIN site.keys THEN site.keys[k] ELSE used[k]]

Upgrade ==
    /\ pc = "upgrade" /\ Give /\ Quit
    /\ UNCHANGED <<release, site, old, new, kills>>

\* `maine-ansible deploy`.
Deploy ==
    /\ pc = "idle" /\ site # None /\ Give
    /\ UNCHANGED <<release, site, old, new, passwords, pc, kills>>

(***************************************************************************)
(* What happens to it                                                      *)
(***************************************************************************)
\* The first n keys of f, the last of them with its first parts and maybe a
\* piece, c, of the next.
FirstKeys(f, n, i, c) ==
    [k \in {Keys[j] : j \in 1..n} \cap DOMAIN f.keys |->
       IF k # Keys[n] THEN f.keys[k]
       ELSE [j \in Parts(k) |-> IF j < i THEN f.keys[k][j]
                                ELSE IF j = i /\ f.keys[k][j] # Unset THEN c ELSE Unset]]

\* What can be left of f.
TornFrom(f, by) ==
    {File(Empty, by)} \cup
    {File(FirstKeys(f, n, i, c), by) : n \in DOMAIN Keys, i \in 1..3, c \in {Unset, Cut}}

Kill ==
    /\ pc # "idle" /\ kills < MaxKills /\ kills' = kills + 1 /\ Quit
    /\ CASE pc = "write" -> site' \in TornFrom(passwords, "genpwd")
         [] pc = "final" -> site' \in TornFrom(passwords, "mergepwd")
         [] OTHER -> UNCHANGED site
    /\ UNCHANGED <<release, old, new, used>>

Script == Move \/ MoveFails \/ Copy \/ ReadNew \/ WriteNew \/ Merge \/ Final \/ Upgrade
PasswordsNext == Genpwds \/ ReadSite \/ WriteSite \/ Script \/ Deploy \/ Kill

(***************************************************************************)
(* Properties                                                              *)
(***************************************************************************)
IsSet(v) == \E i \in DOMAIN v : v[i] # Unset
Has(f, k) == f # None /\ k \in DOMAIN f.keys /\ f.keys[k] = used[k]

\* A service never gets another password than the one it was deployed with,
\* by however many generations and upgrades, unless a kill tore the file
\* (genpwd.py:151-186 fills what is unset and nothing else; Jenkinsfile:225).
UsedKept ==
    [][(site # None /\ site.torn = "no") =>
          \A k \in Range(Keys) : IsSet(used[k]) => used'[k] = used[k]]_vars

\* Wherever a command is killed, every password in use is in passwords.yml,
\* in the script's copy, or in the memory of the process that rewrites the
\* file: but not once genpwd was killed while it rewrote the one copy
\* (genpwd.py:189), or the script was repeated after its merge was
\* (Jenkinsfile:222 moves the torn file over the good one).
PasswordsHeld ==
    \A k \in Range(Keys) : IsSet(used[k]) =>
        \/ Has(site, k) \/ Has(old, k)
        \/ pc = "write" /\ Has(passwords, k)
        \/ \E f \in {site} \ {None} : f.torn = "genpwd"
        \/ \E f \in {old} \ {None} : f.torn # "no"
=============================================================================
