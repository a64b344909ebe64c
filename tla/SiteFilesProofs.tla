--------------------------- MODULE SiteFilesProofs ---------------------------
(***************************************************************************)
(* Proofs about SiteFiles: the passwords and the inventory of a site, for  *)
(* any keys, releases and blocks, and any number of kills.                 *)
(***************************************************************************)
EXTENDS SiteFiles, TLAPS

(***************************************************************************)
(* The passwords                                                           *)
(***************************************************************************)
Piece == [{1} -> Values] \cup [1..2 -> Values]
Tear == {"no", "genpwd", "mergepwd"}

\* Which files there are at each step of a process, and what they come from.
PlaceOK ==
    /\ pc \in {"write", "final"} =>
          site # None /\ site.keys = Empty /\ passwords # None /\ passwords.torn = site.torn
    /\ pc \in {"cp", "read_new", "write_new", "merge"} => site = None
    /\ pc \in {"cp", "read_new", "write_new", "merge", "final"} => old # None
    /\ pc \in {"read_new", "merge"} => new # None
    /\ pc = "write_new" => passwords # None
    /\ pc = "final" => old.torn = site.torn
    /\ pc = "upgrade" => site # None

\* A whole file with the values in use.
Current(f) ==
    f.torn = "no" =>
        \A k \in Range(Keys) : IsSet(used[k]) => k \in DOMAIN f.keys /\ f.keys[k] = used[k]

\* Whole files have the values in use, as long as a process works on them.
CurrentOK ==
    /\ pc \notin {"write", "final"} => Current(site)
    /\ pc \in {"cp", "read_new", "write_new", "merge", "final"} => Current(old)
    /\ pc \in {"write", "final"} => Current(passwords)

PInv == PasswordsTypeOK /\ PlaceOK /\ CurrentOK /\ PasswordsHeld

\* What one step may do to the values in use.
KeepsUsed ==
    (site # None /\ site.torn = "no") =>
        \A k \in Range(Keys) : IsSet(used[k]) => used'[k] = used[k]

LEMMA PartsFacts == \A k : Parts(k) = {1} \/ Parts(k) = 1..2
BY DEF Parts

\* What a file holds for a key.
LEMMA FileFacts ==
    ASSUME NEW f, IsFile(f)
    PROVE  /\ f # None /\ f.torn \in Tear
           /\ f.keys \in [DOMAIN f.keys -> Piece] /\ DOMAIN f.keys \subseteq Range(Keys)
           /\ \A k \in DOMAIN f.keys : f.keys[k] \in [Parts(k) -> Values]
<1>1. f.torn \in Tear /\ None.torn = "none" /\ "none" \notin Tear
  BY DEF IsFile, None, File, Tear
<1>2. ASSUME NEW k \in DOMAIN f.keys PROVE f.keys[k] \in [Parts(k) -> Values]
  BY PartsFacts DEF IsFile
<1> QED BY <1>1, <1>2 DEF IsFile, Piece

\* What makes a file.
LEMMA MakeFile ==
    ASSUME NEW S, S \subseteq Range(Keys), NEW ks, ks \in [S -> Piece],
           NEW t, t \in Tear,
           \A k \in S : ks[k] \in [Parts(k) -> Values]
    PROVE  IsFile(File(ks, t)) /\ File(ks, t).torn = t /\ File(ks, t).keys = ks
<1> DEFINE f == File(ks, t)
<1>1. f.keys = ks /\ f.torn = t /\ f = [keys |-> ks, torn |-> t]
  BY DEF File
<1>2. DOMAIN ks = S /\ \A k \in S : DOMAIN ks[k] = Parts(k)
  OBVIOUS
<1>3. f \in [keys : {f.keys}, torn : {"no", "genpwd", "mergepwd"}]
  BY <1>1 DEF Tear
<1> HIDE DEF f
<1>4. IsFile(f)
  BY <1>1, <1>2, <1>3 DEF IsFile, Piece
<1> QED BY <1>1, <1>4 DEF f

LEMMA EmptyFile ==
    ASSUME NEW t, t \in Tear
    PROVE  IsFile(File(Empty, t)) /\ File(Empty, t).torn = t /\ File(Empty, t).keys = Empty
<1>1. Empty = [k \in {} |-> k]
  BY DEF Empty
<1>2. DOMAIN Empty = {}
  BY DEF Empty
<1> QED BY <1>1, <1>2 DEF IsFile, File, Tear

\* Six values are not all of the generated ones.
LEMMA Pigeons ==
    ASSUME NEW a \in Values, NEW b \in Values, NEW c \in Values,
           NEW d \in Values, NEW e \in Values, NEW g \in Values
    PROVE  \E v \in Values : v > Cut /\ v \notin {a, b, c, d, e, g}
BY DEF Values, Cut

LEMMA RangeFacts ==
    ASSUME NEW k, NEW v \in [Parts(k) -> Values]
    PROVE  \E a, b \in Values : Range(v) \subseteq {a, b}
<1>1. CASE Parts(k) = {1}
  <2>1. Range(v) \subseteq {v[1], v[1]} /\ v[1] \in Values
    BY <1>1 DEF Range
  <2> QED BY <2>1
<1>2. CASE Parts(k) = 1..2
  <2>1. Range(v) \subseteq {v[1], v[2]} /\ v[1] \in Values /\ v[2] \in Values
    BY <1>2 DEF Range
  <2> QED BY <2>1
<1> QED BY <1>1, <1>2, PartsFacts

\* What a file that is about has of a key are two values at most.
LEMMA HeldIn ==
    ASSUME NEW f, f # None => IsFile(f), NEW k
    PROVE  \E a, b \in Values :
             f # None /\ k \in DOMAIN f.keys => Range(f.keys[k]) \subseteq {a, b}
<1>1. CASE f # None /\ k \in DOMAIN f.keys
  BY <1>1, FileFacts, RangeFacts
<1>2. CASE ~(f # None /\ k \in DOMAIN f.keys)
  BY <1>2 DEF Values
<1> QED BY <1>1, <1>2

\* There is a value to generate for a key that is not set in f, if f is the
\* site's file, or the site has none.
LEMMA FreshFacts ==
    ASSUME PasswordsTypeOK, NEW f, IsFile(f), f = site \/ (site = None /\ f = new),
           NEW k \in DOMAIN f.keys, \A i \in Parts(k) : f.keys[k][i] = Unset
    PROVE  Fresh(k) \in Values
<1>1. k \in Range(Keys) /\ Range(f.keys[k]) \subseteq {Unset}
  BY FileFacts DEF Range
<1>2. PICK a, b \in Values :
         old # None /\ k \in DOMAIN old.keys => Range(old.keys[k]) \subseteq {a, b}
  BY HeldIn DEF PasswordsTypeOK
<1>3. PICK c, d \in Values :
         f = site /\ new # None /\ k \in DOMAIN new.keys => Range(new.keys[k]) \subseteq {c, d}
  BY HeldIn DEF PasswordsTypeOK
<1>4. PICK e, g \in Values : Range(used[k]) \subseteq {e, g}
  BY <1>1, RangeFacts DEF PasswordsTypeOK
<1>5. Held(k) \subseteq {Unset, a, b, c, d, e, g}
  <2>1. ASSUME NEW h \in {site, old, new} \ {None}, k \in DOMAIN h.keys
        PROVE  Range(h.keys[k]) \subseteq {Unset, a, b, c, d, e, g}
    BY <1>1, <1>2, <1>3, <2>1
  <2> QED BY <1>4, <2>1 DEF Held
<1>6. PICK v \in Values : v > Cut /\ v \notin {a, b, c, d, e, g}
  BY Pigeons
<1>7. v # Unset
  BY <1>6 DEF Values, Cut, Unset
<1>8. v \notin Held(k)
  BY <1>5, <1>6, <1>7
<1> QED BY <1>6, <1>8 DEF Fresh

\* maine-genpwd keeps what is set.
LEMMA FilledFacts ==
    ASSUME PasswordsTypeOK, NEW f, IsFile(f), f = site \/ (site = None /\ f = new)
    PROVE  /\ IsFile(Filled(f)) /\ Filled(f).torn = f.torn
           /\ DOMAIN Filled(f).keys = DOMAIN f.keys
           /\ \A k \in DOMAIN f.keys : IsSet(f.keys[k]) => Filled(f).keys[k] = f.keys[k]
<1> DEFINE ks == [k \in DOMAIN f.keys |->
                   IF k \notin Blank /\ \A i \in Parts(k) : f.keys[k][i] = Unset
                   THEN [i \in Parts(k) |-> Fresh(k)] ELSE f.keys[k]]
<1>1. ASSUME NEW k \in DOMAIN f.keys
      PROVE  ks[k] \in [Parts(k) -> Values] /\ (IsSet(f.keys[k]) => ks[k] = f.keys[k])
  <2>1. f.keys[k] \in [Parts(k) -> Values]
    BY FileFacts
  <2>2. CASE k \notin Blank /\ \A i \in Parts(k) : f.keys[k][i] = Unset
    <3>1. Fresh(k) \in Values
      BY <2>2, FreshFacts
    <3> QED BY <2>1, <2>2, <3>1 DEF IsSet
  <2>3. CASE ~(k \notin Blank /\ \A i \in Parts(k) : f.keys[k][i] = Unset)
    BY <2>1, <2>3
  <2> QED BY <2>2, <2>3
<1>2. DOMAIN ks = DOMAIN f.keys
  OBVIOUS
<1>3. ks \in [DOMAIN f.keys -> Piece]
  <2>1. ASSUME NEW k \in DOMAIN f.keys PROVE ks[k] \in Piece
    <3> HIDE DEF ks
    <3> QED BY <1>1, PartsFacts DEF Piece
  <2> QED BY <2>1
<1>4. Filled(f) = File(ks, f.torn)
  BY DEF Filled
<1> HIDE DEF ks
<1>5. DOMAIN f.keys \subseteq Range(Keys) /\ f.torn \in Tear
  BY FileFacts
<1>6. IsFile(File(ks, f.torn)) /\ File(ks, f.torn).torn = f.torn /\ File(ks, f.torn).keys = ks
  <2> DEFINE S == DOMAIN f.keys
  <2>1. S \subseteq Range(Keys) /\ ks \in [S -> Piece] /\ f.torn \in Tear
    BY <1>3, <1>5
  <2>2. \A k \in S : ks[k] \in [Parts(k) -> Values]
    BY <1>1
  <2> HIDE DEF S
  <2> QED BY <2>1, <2>2, MakeFile
<1> QED BY <1>1, <1>2, <1>4, <1>6

\* kolla-mergepwd keeps what the old file has.
LEMMA MergedFacts ==
    ASSUME IsFile(old), IsFile(new)
    PROVE  /\ IsFile(Merged) /\ Merged.torn = old.torn
           /\ \A k \in DOMAIN old.keys :
                k \in DOMAIN Merged.keys /\ Merged.keys[k] = old.keys[k]
<1> DEFINE S == DOMAIN new.keys \cup DOMAIN old.keys
           ks == [k \in S |-> IF k \in DOMAIN old.keys THEN old.keys[k] ELSE new.keys[k]]
<1>1. \A k \in S : ks[k] \in [Parts(k) -> Values] /\ ks[k] \in Piece
  BY FileFacts
<1>2. \A k \in DOMAIN old.keys : k \in DOMAIN ks /\ ks[k] = old.keys[k]
  OBVIOUS
<1>3. ks \in [S -> Piece] /\ S \subseteq Range(Keys) /\ old.torn \in Tear
  BY <1>1, FileFacts
<1>6. \A k \in S : ks[k] \in [Parts(k) -> Values]
  BY <1>1
<1>4. Merged = File(ks, old.torn)
  BY DEF Merged
<1> HIDE DEF ks, S
<1>5. IsFile(File(ks, old.torn)) /\ File(ks, old.torn).torn = old.torn
      /\ File(ks, old.torn).keys = ks
  BY <1>3, <1>6, MakeFile
<1> QED BY <1>2, <1>4, <1>5

\* What a kill leaves of a file is a file.
LEMMA TornFacts ==
    ASSUME NEW f, IsFile(f), NEW by, by \in Tear, NEW g \in TornFrom(f, by)
    PROVE  IsFile(g) /\ g.torn = by
<1>2. CASE g = File(Empty, by)
  BY <1>2, EmptyFile
<1>3. ASSUME NEW n \in DOMAIN Keys, NEW i \in 1..3, NEW c \in {Unset, Cut},
             g = File(FirstKeys(f, n, i, c), by)
      PROVE  IsFile(g) /\ g.torn = by
  <2> DEFINE S == {Keys[j] : j \in 1..n} \cap DOMAIN f.keys
             ks == FirstKeys(f, n, i, c)
  <2>1. c \in Values /\ Unset \in Values
    BY DEF Values, Unset, Cut
  <2>2. \A k \in S : ks[k] \in [Parts(k) -> Values]
    BY <2>1, FileFacts DEF FirstKeys
  <2>3. ks \in [S -> Piece]
    <3>1. ks = [k \in S |-> ks[k]]
      BY DEF FirstKeys
    <3>2. \A k \in S : ks[k] \in Piece
      BY <2>2, PartsFacts DEF Piece
    <3> HIDE DEF ks, S
    <3> QED BY <3>1, <3>2
  <2>4. S \subseteq Range(Keys)
    BY FileFacts
  <2> HIDE DEF ks, S
  <2>5. IsFile(File(ks, by)) /\ File(ks, by).torn = by
    <3>1. \A k \in S : ks[k] \in [Parts(k) -> Values]
      BY <2>2
    <3>2. S \subseteq Range(Keys) /\ ks \in [S -> Piece]
      BY <2>3, <2>4
    <3> QED BY <3>1, <3>2, MakeFile
  <2> QED BY <1>3, <2>5 DEF ks
<1>4. \/ g = File(Empty, by)
      \/ \E n \in DOMAIN Keys, i \in 1..3, c \in {Unset, Cut} : g = File(FirstKeys(f, n, i, c), by)
  BY DEF TornFrom
<1> QED BY <1>2, <1>3, <1>4

(***************************************************************************)
(* The invariant of the passwords                                          *)
(***************************************************************************)
LEMMA PasswordsInitInv == PasswordsInit => PInv
<1> SUFFICES ASSUME PasswordsInit PROVE PInv
  OBVIOUS
<1>1. PICK typed \in Typings :
        site = File([k \in Shipped[1] |->
                       [i \in Parts(k) |-> IF <<k, i>> \in typed THEN Given ELSE Unset]], "no")
  BY DEF PasswordsInit
<1> DEFINE S == Shipped[1]
           ks == [k \in S |->
                    [i \in Parts(k) |-> IF <<k, i>> \in typed THEN Given ELSE Unset]]
<1>2. Given \in Values /\ Unset \in Values
  BY DEF Values, Given, Unset
<1>3. \A k \in S : ks[k] \in [Parts(k) -> Values]
  BY <1>2
<1>4. ks \in [S -> Piece]
  <2>1. ASSUME NEW k \in S PROVE ks[k] \in Piece
    <3> HIDE DEF ks
    <3> QED BY <1>3, PartsFacts DEF Piece
  <2> QED BY <2>1
<1>5. S \subseteq Range(Keys) /\ "no" \in Tear
  BY PasswordsAssumption DEF Tear
<1>6. IsFile(site)
  <2> HIDE DEF ks, S
  <2>1. IsFile(File(ks, "no"))
    BY <1>3, <1>4, <1>5, MakeFile
  <2> QED BY <1>1, <2>1 DEF ks, S
<1>7. \A k \in Range(Keys) : used[k] \in [Parts(k) -> Values] /\ ~IsSet(used[k])
  BY <1>2 DEF PasswordsInit, IsSet
<1>8. PasswordsTypeOK
  <2>1. kills \in 0..MaxKills /\ release \in Releases
    BY PasswordsAssumption DEF PasswordsInit
  <2>2. \A f \in {site, old, new, passwords} \ {None} : IsFile(f)
    BY <1>6 DEF PasswordsInit
  <2> QED BY <1>7, <2>1, <2>2 DEF PasswordsInit, PasswordsTypeOK
<1>9. PlaceOK
  BY DEF PasswordsInit, PlaceOK
<1>10. CurrentOK /\ PasswordsHeld
  BY <1>7 DEF PasswordsInit, CurrentOK, Current, PasswordsHeld
<1> QED BY <1>8, <1>9, <1>10 DEF PInv

\* A step that changes neither a file nor a process nor what is in use.
LEMMA PasswordsFrame ==
    ASSUME PInv, UNCHANGED <<site, old, new, passwords, pc, used, kills>>, release' \in Releases
    PROVE  PInv' /\ KeepsUsed
<1>1. PasswordsTypeOK'
  BY DEF PInv, PasswordsTypeOK, IsFile
<1> QED BY <1>1 DEF PInv, PlaceOK, CurrentOK, Current, PasswordsHeld, Has, IsSet, KeepsUsed

\* What PasswordsTypeOK says of a file that is there.
LEMMA ThereIsFile ==
    ASSUME PasswordsTypeOK
    PROVE  /\ site # None => IsFile(site)
           /\ old # None => IsFile(old)
           /\ new # None => IsFile(new)
           /\ passwords # None => IsFile(passwords)
BY DEF PasswordsTypeOK

\* maine-genpwd.
LEMMA GenpwdStep ==
    ASSUME PInv, Genpwds \/ ReadSite \/ WriteSite
    PROVE  PInv' /\ KeepsUsed
<1>1. KeepsUsed
  BY DEF Genpwds, ReadSite, WriteSite, KeepsUsed
<1>2. CASE Genpwds
  <2>1. PasswordsTypeOK'
    BY <1>2 DEF PInv, Genpwds, PasswordsTypeOK, IsFile
  <2> QED BY <1>1, <1>2, <2>1 DEF PInv, Genpwds, PlaceOK, CurrentOK, Current, PasswordsHeld, Has, IsSet
<1>3. CASE ReadSite /\ (site = None \/ site.keys = Empty)
  <2>1. pc = "read" /\ pc' = "idle" /\ passwords' = None
        /\ UNCHANGED <<site, release, old, new, used, kills>>
    BY <1>3 DEF ReadSite, Quit
  <2>2. PasswordsTypeOK'
    BY <2>1 DEF PInv, PasswordsTypeOK, IsFile
  <2> QED BY <1>1, <2>1, <2>2 DEF PInv, PlaceOK, CurrentOK, Current, PasswordsHeld, Has, IsSet
<1>4. CASE ReadSite /\ ~(site = None \/ site.keys = Empty)
  <2>1. /\ pc = "read" /\ pc' = "write" /\ site # None
        /\ passwords' = Filled(site) /\ site' = File(Empty, site.torn)
        /\ UNCHANGED <<release, old, new, used, kills>>
    BY <1>4 DEF ReadSite
  <2>2. IsFile(site)
    BY <2>1, ThereIsFile DEF PInv
  <2>3. /\ IsFile(passwords') /\ passwords'.torn = site.torn
        /\ DOMAIN passwords'.keys = DOMAIN site.keys
        /\ \A k \in DOMAIN site.keys : IsSet(site.keys[k]) => passwords'.keys[k] = site.keys[k]
    BY <2>1, <2>2, FilledFacts DEF PInv
  <2>4. IsFile(site') /\ site'.torn = site.torn /\ site'.keys = Empty
    BY <2>1, <2>2, EmptyFile, FileFacts
  <2>5. PasswordsTypeOK'
    BY <2>1, <2>3, <2>4 DEF PInv, PasswordsTypeOK, IsFile
  <2>6. site' # None /\ passwords' # None
    BY <2>3, <2>4, FileFacts
  <2>7. PlaceOK'
    BY <2>1, <2>3, <2>4, <2>6 DEF PlaceOK
  <2>8. CurrentOK'
    BY <2>1, <2>3 DEF PInv, CurrentOK, Current, IsSet
  <2>9. PasswordsHeld'
    <3>1. \A k \in Range(Keys) : IsSet(used[k]) /\ Has(site, k) => Has(passwords, k)'
      BY <2>1, <2>3, <2>6 DEF Has
    <3> QED BY <2>1, <2>4, <2>6, <3>1 DEF PInv, PasswordsHeld, Has
  <2> QED BY <1>1, <2>5, <2>7, <2>8, <2>9 DEF PInv
<1>5. CASE WriteSite
  <2>1. /\ pc = "write" /\ pc' = "idle" /\ passwords' = None /\ site' = passwords
        /\ UNCHANGED <<release, old, new, used, kills>>
    BY <1>5 DEF WriteSite, Quit
  <2>2. site # None /\ site.keys = Empty /\ passwords # None /\ passwords.torn = site.torn
    BY <2>1 DEF PInv, PlaceOK
  <2>3. PasswordsTypeOK'
    BY <2>1, <2>2, ThereIsFile DEF PInv, PasswordsTypeOK, IsFile
  <2>4. PlaceOK' /\ CurrentOK'
    BY <2>1 DEF PInv, PlaceOK, CurrentOK, Current, IsSet
  <2>5. PasswordsHeld'
    <3>1. \A k : ~Has(site, k)
      BY <2>2 DEF Has, Empty
    <3> QED BY <2>1, <2>2, <3>1 DEF PInv, PasswordsHeld, Has
  <2> QED BY <1>1, <2>3, <2>4, <2>5 DEF PInv
<1> QED BY <1>2, <1>3, <1>4, <1>5

\* The files of a release are files.
LEMMA TemplateFacts ==
    ASSUME NEW r \in Releases
    PROVE  IsFile(Template(r)) /\ Template(r).torn = "no"
<1> DEFINE S == Shipped[r]
           ks == [k \in S |-> [i \in Parts(k) |-> Unset]]
<1>1. \A k \in S : ks[k] \in [Parts(k) -> Values]
  BY DEF Values, Unset
<1>2. ks \in [S -> Piece]
  <2>1. ASSUME NEW k \in S PROVE ks[k] \in Piece
    <3> HIDE DEF ks
    <3> QED BY <1>1, PartsFacts DEF Piece
  <2> QED BY <2>1
<1>3. S \subseteq Range(Keys) /\ Template(r) = File(ks, "no")
  BY PasswordsAssumption DEF Template
<1>4. "no" \in Tear
  BY DEF Tear
<1>5. Template(r).torn = "no"
  BY DEF Template, File
<1> HIDE DEF ks, S
<1>6. IsFile(File(ks, "no"))
  BY <1>1, <1>2, <1>3, <1>4, MakeFile
<1> QED BY <1>3, <1>5, <1>6

\* The upgrade script up to the merge.
LEMMA MoveStep ==
    ASSUME PInv, Move \/ MoveFails \/ Copy \/ ReadNew \/ WriteNew
    PROVE  PInv' /\ KeepsUsed
<1>1. KeepsUsed
  BY DEF Move, MoveFails, Copy, ReadNew, WriteNew, KeepsUsed
<1>2. CASE Move
  <2>1. /\ pc = "idle" /\ pc' = "cp" /\ site # None /\ old' = site /\ site' = None
        /\ UNCHANGED <<release, new, passwords, used, kills>>
    BY <1>2 DEF Move
  <2>2. IsFile(site)
    BY <2>1, ThereIsFile DEF PInv
  <2>3. PasswordsTypeOK'
    BY <2>1, <2>2 DEF PInv, PasswordsTypeOK, IsFile
  <2>4. PlaceOK'
    BY <2>1 DEF PInv, PlaceOK
  <2>5. Current(site) /\ None.torn # "no"
    BY <2>1 DEF PInv, CurrentOK, None, File
  <2>6. CurrentOK'
    BY <2>1, <2>5 DEF CurrentOK, Current, IsSet
  <2>7. PasswordsHeld'
    BY <2>1, <2>5 DEF PasswordsHeld, Current, Has, IsSet
  <2> QED BY <1>1, <2>3, <2>4, <2>6, <2>7 DEF PInv
<1>3. CASE MoveFails
  <2>1. PasswordsTypeOK'
    BY <1>3 DEF PInv, MoveFails, Quit, PasswordsTypeOK, IsFile
  <2> QED BY <1>1, <1>3, <2>1
          DEF PInv, MoveFails, Quit, PlaceOK, CurrentOK, Current, PasswordsHeld, Has, IsSet
<1>4. CASE Copy
  <2>1. /\ pc = "cp" /\ pc' = "read_new" /\ new' = Template(release)
        /\ UNCHANGED <<release, site, old, passwords, used, kills>>
    BY <1>4 DEF Copy
  <2>2. IsFile(new') /\ new' # None
    BY <2>1, TemplateFacts, FileFacts DEF PInv, PasswordsTypeOK
  <2>3. PasswordsTypeOK'
    BY <2>1, <2>2 DEF PInv, PasswordsTypeOK, IsFile
  <2> QED BY <1>1, <2>1, <2>2, <2>3
          DEF PInv, PlaceOK, CurrentOK, Current, PasswordsHeld, Has, IsSet
<1>5. CASE ReadNew
  <2>1. /\ pc = "read_new" /\ pc' = "write_new"
        /\ passwords' = Filled(new) /\ new' = File(Empty, "no")
        /\ UNCHANGED <<release, site, old, used, kills>>
    BY <1>5 DEF ReadNew
  <2>2. site = None /\ new # None /\ IsFile(new)
    BY <2>1, ThereIsFile DEF PInv, PlaceOK
  <2>3. IsFile(passwords') /\ passwords' # None
    BY <2>1, <2>2, FilledFacts, FileFacts DEF PInv
  <2>4. IsFile(new')
    BY <2>1, EmptyFile DEF Tear
  <2>5. PasswordsTypeOK'
    BY <2>1, <2>3, <2>4 DEF PInv, PasswordsTypeOK, IsFile
  <2> QED BY <1>1, <2>1, <2>3, <2>5
          DEF PInv, PlaceOK, CurrentOK, Current, PasswordsHeld, Has, IsSet
<1>6. CASE WriteNew
  <2>1. /\ pc = "write_new" /\ pc' = "merge" /\ new' = passwords /\ passwords' = None
        /\ UNCHANGED <<release, site, old, used, kills>>
    BY <1>6 DEF WriteNew
  <2>2. PasswordsTypeOK'
    BY <2>1 DEF PInv, PasswordsTypeOK, IsFile
  <2> QED BY <1>1, <2>1, <2>2
          DEF PInv, PlaceOK, CurrentOK, Current, PasswordsHeld, Has, IsSet
<1> QED BY <1>2, <1>3, <1>4, <1>5, <1>6

\* kolla-mergepwd.
LEMMA MergeStepInv ==
    ASSUME PInv, Merge \/ Final
    PROVE  PInv' /\ KeepsUsed
<1>1. KeepsUsed
  BY DEF Merge, Final, KeepsUsed
<1>2. CASE Merge /\ old.keys = Empty
  <2>1. pc = "merge" /\ pc' = "idle" /\ passwords' = None
        /\ UNCHANGED <<release, site, old, new, used, kills>>
    BY <1>2 DEF Merge, Quit
  <2>2. PasswordsTypeOK'
    BY <2>1 DEF PInv, PasswordsTypeOK, IsFile
  <2> QED BY <1>1, <2>1, <2>2
          DEF PInv, PlaceOK, CurrentOK, Current, PasswordsHeld, Has, IsSet
<1>3. CASE Merge /\ old.keys # Empty
  <2>1. /\ pc = "merge" /\ pc' = "final"
        /\ passwords' = Merged /\ site' = File(Empty, old.torn)
        /\ UNCHANGED <<release, old, new, used, kills>>
    BY <1>3 DEF Merge
  <2>2. site = None /\ old # None /\ IsFile(old) /\ IsFile(new)
    BY <2>1, ThereIsFile DEF PInv, PlaceOK
  <2>3. /\ IsFile(passwords') /\ passwords'.torn = old.torn
        /\ \A k \in DOMAIN old.keys :
             k \in DOMAIN passwords'.keys /\ passwords'.keys[k] = old.keys[k]
    BY <2>1, <2>2, MergedFacts
  <2>4. IsFile(site') /\ site'.torn = old.torn /\ site'.keys = Empty
    BY <2>1, <2>2, EmptyFile, FileFacts
  <2>5. site' # None /\ passwords' # None
    BY <2>3, <2>4, FileFacts
  <2>6. PasswordsTypeOK'
    BY <2>1, <2>3, <2>4 DEF PInv, PasswordsTypeOK, IsFile
  <2>7. PlaceOK'
    BY <2>1, <2>2, <2>3, <2>4, <2>5 DEF PlaceOK
  <2>8. CurrentOK'
    BY <2>1, <2>3 DEF PInv, CurrentOK, Current, IsSet
  <2>9. PasswordsHeld'
    BY <2>1, <2>2 DEF PInv, PasswordsHeld, Has, IsSet
  <2> QED BY <1>1, <2>6, <2>7, <2>8, <2>9 DEF PInv
<1>4. CASE Final
  <2>1. /\ pc = "final" /\ pc' = "upgrade" /\ site' = passwords /\ passwords' = None
        /\ UNCHANGED <<release, old, new, used, kills>>
    BY <1>4 DEF Final
  <2>2. site.keys = Empty /\ passwords # None /\ passwords.torn = site.torn
    BY <2>1 DEF PInv, PlaceOK
  <2>3. PasswordsTypeOK'
    BY <2>1 DEF PInv, PasswordsTypeOK, IsFile
  <2>4. PlaceOK' /\ CurrentOK'
    BY <2>1, <2>2 DEF PInv, PlaceOK, CurrentOK, Current, IsSet
  <2>5. PasswordsHeld'
    <3>1. \A k : ~Has(site, k)
      BY <2>2 DEF Has, Empty
    <3> QED BY <2>1, <2>2, <3>1 DEF PInv, PasswordsHeld, Has
  <2> QED BY <1>1, <2>3, <2>4, <2>5 DEF PInv
<1> QED BY <1>2, <1>3, <1>4

\* The services get what the file holds.
LEMMA GiveStep ==
    ASSUME PInv, Upgrade \/ Deploy
    PROVE  PInv' /\ KeepsUsed
<1>1. /\ pc \in {"idle", "upgrade"} /\ pc' = "idle" /\ site # None /\ Give
      /\ passwords' \in {passwords, None} /\ UNCHANGED <<release, site, old, new, kills>>
  BY DEF Upgrade, Deploy, Quit, PInv, PlaceOK
<1>2. IsFile(site) /\ Current(site)
  BY <1>1, ThereIsFile DEF PInv, CurrentOK
<1>3. \A k \in Range(Keys) :
         used'[k] = IF k \in DOMAIN site.keys THEN site.keys[k] ELSE used[k]
  BY <1>1 DEF Give
<1>4. KeepsUsed
  BY <1>2, <1>3 DEF KeepsUsed, Current
<1>5. PasswordsTypeOK'
  <2>1. \A k \in Range(Keys) : used'[k] \in [Parts(k) -> Values]
    BY <1>2, <1>3, FileFacts DEF PInv, PasswordsTypeOK
  <2> QED BY <1>1, <2>1 DEF PInv, PasswordsTypeOK, IsFile
<1>6. PlaceOK'
  BY <1>1 DEF PlaceOK
<1>7. CurrentOK'
  BY <1>1, <1>2, <1>3 DEF CurrentOK, Current, IsSet
<1>8. PasswordsHeld'
  <2> SUFFICES ASSUME NEW k \in Range(Keys), IsSet(used'[k])
               PROVE  \/ Has(site, k)' \/ Has(old, k)'
                      \/ \E f \in {site} \ {None} : f.torn = "genpwd"
                      \/ \E f \in {old} \ {None} : f.torn # "no"
    BY <1>1 DEF PasswordsHeld, IsSet
  <2>1. CASE k \in DOMAIN site.keys
    BY <1>1, <1>3, <2>1 DEF Has
  <2>2. CASE k \notin DOMAIN site.keys
    BY <1>1, <1>3, <2>2 DEF PInv, PasswordsHeld, Has
  <2> QED BY <2>1, <2>2
<1> QED BY <1>4, <1>5, <1>6, <1>7, <1>8 DEF PInv

LEMMA KillStep ==
    ASSUME PInv, Kill
    PROVE  PInv' /\ KeepsUsed
<1>1. /\ pc # "idle" /\ kills < MaxKills /\ kills' = kills + 1 /\ pc' = "idle" /\ passwords' = None
      /\ UNCHANGED <<release, old, new, used>>
  BY DEF Kill, Quit
<1>2. kills' \in 0..MaxKills
  BY <1>1, PasswordsAssumption DEF PInv, PasswordsTypeOK
<1>3. KeepsUsed
  BY <1>1 DEF KeepsUsed
<1>4. CASE pc \notin {"write", "final"}
  <2>1. UNCHANGED site
    BY <1>1, <1>4 DEF Kill
  <2>2. PasswordsTypeOK'
    BY <1>1, <1>2, <2>1 DEF PInv, PasswordsTypeOK, IsFile
  <2> QED BY <1>1, <1>3, <1>4, <2>1, <2>2
          DEF PInv, PlaceOK, CurrentOK, Current, PasswordsHeld, Has, IsSet
<1>5. ASSUME NEW by, by \in Tear, by # "no", site' \in TornFrom(passwords, by),
             pc \in {"write", "final"}, pc = "write" => by = "genpwd"
      PROVE  PInv' /\ KeepsUsed
  <2>1. passwords # None /\ passwords.torn = site.torn /\ site.keys = Empty
    BY <1>5 DEF PInv, PlaceOK
  <2>2. IsFile(site') /\ site'.torn = by /\ site' # None
    BY <1>5, <2>1, TornFacts, ThereIsFile, FileFacts DEF PInv
  <2>3. PasswordsTypeOK'
    BY <1>1, <1>2, <2>2 DEF PInv, PasswordsTypeOK, IsFile
  <2>4. PlaceOK' /\ CurrentOK'
    BY <1>1, <1>5, <2>2 DEF PlaceOK, CurrentOK, Current
  <2>5. PasswordsHeld'
    <3>1. \A k : ~Has(site, k)
      BY <2>1 DEF Has, Empty
    <3>2. CASE pc = "write"
      BY <1>5, <2>2, <3>2 DEF PasswordsHeld
    <3>3. CASE pc = "final"
      <4>1. old # None /\ old.torn = site.torn
        BY <3>3 DEF PInv, PlaceOK
      <4> QED BY <1>1, <3>1, <3>3, <4>1 DEF PInv, PasswordsHeld, Has, IsSet
    <3> QED BY <1>5, <3>2, <3>3
  <2> QED BY <1>3, <2>3, <2>4, <2>5 DEF PInv
<1>6. CASE pc = "write"
  <2>1. site' \in TornFrom(passwords, "genpwd") /\ "genpwd" \in Tear
    BY <1>6 DEF Kill, Tear
  <2> QED BY <1>5, <1>6, <2>1
<1>7. CASE pc = "final"
  <2>1. site' \in TornFrom(passwords, "mergepwd") /\ "mergepwd" \in Tear
    BY <1>7 DEF Kill, Tear
  <2> QED BY <1>5, <1>7, <2>1
<1> QED BY <1>4, <1>6, <1>7

LEMMA PasswordsStep ==
    ASSUME PInv, PasswordsNext
    PROVE  PInv' /\ KeepsUsed
BY GenpwdStep, MoveStep, MergeStepInv, GiveStep, KillStep DEF PasswordsNext, Script

(***************************************************************************)
(* The inventory                                                           *)
(***************************************************************************)
\* What the new release's inventory is of, when it is whole.
NewestThere == rpmnew.block # NoBlock => rpmnew.rest = newest

\* Where the operator's block and the release's text are at each step.
MergePlaceOK ==
    /\ at \in {"idle", "read", "new_open"} =>
          hosts.block = block \/ (torn /\ hosts = Nothing)
    /\ at \in {"idle", "read"} =>
          hosts.rest = newest \/ rpmnew.rest = newest \/ lost = newest
    /\ at = "read" => oi = hosts /\ ni = rpmnew
    /\ at \in {"new_open", "old_open", "bak"} =>
          oi.block = block /\ oi.block # NoBlock /\ ni.rest = newest
    /\ at = "bak" => hosts.block = block /\ hosts.rest = newest

MInv == MergeTypeOK /\ NewestThere /\ MergePlaceOK

LEMMA MergeInitInv == MergeInit => MInv
<1> SUFFICES ASSUME MergeInit PROVE MInv
  OBVIOUS
<1>1. 1 \in ReleaseNos
  BY PasswordsAssumption, SiteAssumption
<1>2. /\ hosts = [block |-> block, rest |-> 1] /\ hosts \in Texts
      /\ Nothing \in Texts /\ Nothing.block = NoBlock
  BY <1>1 DEF MergeInit, Texts, Nothing
<1>3. MergeTypeOK
  BY <1>1, <1>2 DEF MergeInit, MergeTypeOK
<1>4. NewestThere /\ MergePlaceOK
  BY <1>2 DEF MergeInit, NewestThere, MergePlaceOK
<1> QED BY <1>3, <1>4 DEF MInv

LEMMA MergeInvStep ==
    ASSUME MInv, MergeNext
    PROVE  MInv'
<1>1. Nothing \in Texts /\ Nothing.block = NoBlock
  BY DEF Nothing, Texts
<1>2. {hosts, rpmnew, oi, ni} \subseteq Texts
  BY DEF MInv, MergeTypeOK
<1>3. CASE Read
  <2>1. MergeTypeOK'
    BY <1>2, <1>3 DEF MInv, MergeTypeOK, Read
  <2> QED BY <1>3, <2>1 DEF MInv, Read, NewestThere, MergePlaceOK
<1>4. CASE Stop
  <2>1. MergeTypeOK'
    BY <1>1, <1>4 DEF MInv, MergeTypeOK, Stop, Leave
  <2> QED BY <1>4, <2>1 DEF MInv, Stop, Leave, NewestThere, MergePlaceOK
<1>5. CASE OpenNew
  <2>1. MergeTypeOK'
    BY <1>1, <1>5 DEF MInv, MergeTypeOK, OpenNew
  <2> QED BY <1>1, <1>5, <2>1 DEF MInv, OpenNew, NewestThere, MergePlaceOK
<1>6. CASE OpenOld
  <2>1. MergeTypeOK'
    BY <1>1, <1>6 DEF MInv, MergeTypeOK, OpenOld
  <2> QED BY <1>6, <2>1 DEF MInv, OpenOld, NewestThere, MergePlaceOK
<1>7. CASE WriteOld
  <2>1. content \in Texts /\ content.block = oi.block /\ content.rest = ni.rest
    BY <1>2 DEF content, Texts
  <2>2. MergeTypeOK'
    BY <1>7, <2>1 DEF MInv, MergeTypeOK, WriteOld
  <2> QED BY <1>7, <2>1, <2>2 DEF MInv, WriteOld, NewestThere, MergePlaceOK
<1>8. CASE WriteBak
  <2>1. MergeTypeOK'
    BY <1>1, <1>8 DEF MInv, MergeTypeOK, WriteBak, Leave
  <2> QED BY <1>8, <2>1 DEF MInv, WriteBak, Leave, NewestThere, MergePlaceOK
<1>9. CASE EditBlock
  <2>1. hosts' \in Texts /\ hosts'.block = block' /\ hosts'.rest = hosts.rest
    BY <1>2, <1>9 DEF EditBlock, Texts
  <2>2. MergeTypeOK'
    BY <1>9, <2>1 DEF MInv, MergeTypeOK, EditBlock
  <2> QED BY <1>9, <2>1, <2>2 DEF MInv, EditBlock, NewestThere, MergePlaceOK
<1>10. CASE MergeKill
  <2>1. mergeKills \in Nat /\ mergeKills' = mergeKills + 1 /\ mergeKills' \in Nat
        /\ at' = "idle"
    BY <1>10 DEF MInv, MergeTypeOK, MergeKill, Leave
  <2>2. hosts' \in Texts
    BY <1>1, <1>2, <1>10 DEF MergeKill, Texts
  <2>3. MergeTypeOK'
    BY <1>1, <1>10, <2>1, <2>2 DEF MInv, MergeTypeOK, MergeKill, Leave
  <2>4. CASE at = "old_open"
    BY <1>10, <2>1, <2>3, <2>4 DEF MInv, MergeKill, NewestThere, MergePlaceOK
  <2>5. CASE at # "old_open"
    BY <1>10, <2>1, <2>3, <2>5 DEF MInv, MergeTypeOK, MergeKill, NewestThere, MergePlaceOK
  <2> QED BY <2>4, <2>5
<1> QED BY <1>3, <1>4, <1>5, <1>6, <1>7, <1>8, <1>9, <1>10 DEF MergeNext, MergeStep

(***************************************************************************)
(* Both together                                                           *)
(***************************************************************************)
LEMMA SiteStep ==
    ASSUME PInv, MInv, [Next]_sitevars
    PROVE  PInv' /\ MInv' /\ (KeepsUsed \/ UNCHANGED vars)
<1>1. CASE PasswordCommand
  <2>1. MInv'
    BY <1>1 DEF PasswordCommand, mvars, MInv, MergeTypeOK, NewestThere, MergePlaceOK
  <2> QED BY <1>1, <2>1, PasswordsStep DEF PasswordCommand
<1>2. CASE InventoryCommand \/ UNCHANGED sitevars
  <2>1. UNCHANGED vars /\ release' \in Releases
    BY <1>2 DEF InventoryCommand, sitevars, vars, PInv, PasswordsTypeOK
  <2>2. PInv'
    BY <2>1, PasswordsFrame DEF vars
  <2>3. MInv'
    BY <1>2, MergeInvStep
    DEF InventoryCommand, sitevars, mvars, MInv, MergeTypeOK, NewestThere, MergePlaceOK
  <2> QED BY <2>1, <2>2, <2>3
<1>3. CASE UpdatePackage
  <2>1. PInv' /\ KeepsUsed
    BY <1>3, PasswordsFrame DEF UpdatePackage
  <2>2. MInv'
    <3>1. PICK r \in ReleaseNos : r = release' /\ PutRpmnew(r)
      BY <1>3, SiteAssumption DEF UpdatePackage
    <3>2. rpmnew' \in Texts /\ rpmnew'.rest = newest' /\ newest' = r
      BY <3>1 DEF PutRpmnew, Texts, MInv, MergeTypeOK
    <3>3. MergeTypeOK'
      BY <3>1, <3>2 DEF PutRpmnew, MInv, MergeTypeOK
    <3> QED BY <3>1, <3>2, <3>3 DEF PutRpmnew, MInv, NewestThere, MergePlaceOK
  <2> QED BY <2>1, <2>2
<1> QED BY <1>1, <1>2, <1>3 DEF Next

LEMMA SiteInv == Spec => [](PInv /\ MInv)
<1>1. Init => PInv /\ MInv
  BY PasswordsInitInv, MergeInitInv DEF Init
<1>2. PInv /\ MInv /\ [Next]_sitevars => (PInv /\ MInv)'
  BY SiteStep
<1> QED BY <1>1, <1>2, PTL DEF Spec

\* Every file is one of this site's keys with well-formed values, and there is
\* always a value to generate, for any keys, releases and kills.
THEOREM SiteTypeOK == Spec => []TypeOK
<1>1. PInv /\ MInv => TypeOK
  BY DEF PInv, MInv, TypeOK
<1> QED BY <1>1, SiteInv, PTL

\* Wherever genpwd and the upgrade script are killed, and however often, every
\* password in use is in a file or in memory, with the two exceptions that
\* PasswordsHeld names.
THEOREM SitePasswordsHeld == Spec => []PasswordsHeld
<1>1. PInv => PasswordsHeld
  BY DEF PInv
<1> QED BY <1>1, SiteInv, PTL

\* A service keeps the password it was deployed with as long as the file is
\* whole.
THEOREM SiteUsedKept == Spec => UsedKept
<1>1. PInv /\ MInv /\ [Next]_sitevars =>
        [(site # None /\ site.torn = "no") =>
            \A k \in Range(Keys) : IsSet(used[k]) => used'[k] = used[k]]_vars
  BY SiteStep DEF KeepsUsed
<1> QED BY <1>1, SiteInv, PTL DEF Spec, UsedKept

\* The merged inventory has the operator's block, but for a file a kill emptied
\* while it was open, and the release's text is in it or in the package's file,
\* but when a merge of this release was killed after the truncation.
THEOREM SiteInventoryMerged == Spec => []InventoryMerged
<1>1. MInv => InventoryMerged
  BY DEF MInv, MergePlaceOK, InventoryMerged
<1> QED BY <1>1, SiteInv, PTL
=============================================================================
