---------------------------- MODULE StoresProofs ----------------------------
(***************************************************************************)
(* Theorems about what is stored.                                          *)
(*                                                                         *)
(* Packages (NcpkgDb), for every catalogue and every policy: whatever is   *)
(* installed, upgraded and removed in whatever order, the database is one  *)
(* Db::check accepts, every package has what it needs, the disk holds what *)
(* the database says, and every plan can be carried out.                   *)
(*                                                                         *)
(* Volumes (NcfsRefs, the instance V), for every number of blocks,         *)
(* positions, contents and subvolumes: every block is counted exactly, and *)
(* subvolumes do not see each other's writes.                              *)
(*                                                                         *)
(* Files (NcfsFiles, the instance F of MCStores), for every size of a      *)
(* window, every bound on dirty bytes and every set of writes: a file      *)
(* reads as it was written.                                                *)
(***************************************************************************)
EXTENDS MCStores, Sequences, FiniteSetTheorems, TLAPS

----------------------------------------------------------------------------
(* The invariant.                                                          *)

\* An entry of the table of libraries.
Book(b) ==
    b = [copy |-> b.copy, provided_by |-> b.provided_by, required_by |-> b.required_by,
         ref_count |-> b.ref_count]

Shape ==
    /\ libraries = [l \in DOMAIN libraries |-> libraries[l]]
    /\ \A l \in DOMAIN libraries : Book(libraries[l])
    /\ None \notin DOMAIN packages

\* No two packages own the same file.
Apart ==
    \A i, k \in DOMAIN packages :
        i # k => FilesOf(i, packages[i]) \cap FilesOf(k, packages[k]) = {}

\* Whoever uses a shared copy is among its users, and knows its version.
Registered ==
    \A i \in DOMAIN packages : \A l : UsesShared(packages[i], l) =>
        /\ l \in DOMAIN libraries /\ i \in libraries[l].required_by
        /\ packages[i].uses[l].ver = libraries[l].copy.ver

\* The users of a shared copy use it, and they are counted.
Counted ==
    \A l \in DOMAIN libraries :
        /\ libraries[l].required_by # {}
        /\ libraries[l].ref_count = Cardinality(libraries[l].required_by)
        /\ \A i \in libraries[l].required_by :
                i \in DOMAIN packages /\ UsesShared(packages[i], l)

\* A provider is one of the users: so removing it finds the library among those
\* it uses, and its name goes from the table.
Provided ==
    \A l \in DOMAIN libraries :
        libraries[l].provided_by \in libraries[l].required_by \cup {None}

Inv == Shape /\ Apart /\ Registered /\ Counted /\ Provided /\ NeedsMet /\ DiskMatches

----------------------------------------------------------------------------
(* Files.                                                                  *)

\* No package owns the path of a shared library.
LEMMA LibsApart == \A id, p, l : LibPath(l) \notin FilesOf(id, p)
  BY DEF LibPath, FilesOf

\* Distinct libraries have distinct paths.
LEMMA LibPathOne == \A l, m : (LibPath(l) = LibPath(m) => l = m) /\ LibPath(l)[2] = l
  BY DEF LibPath

\* A package told of a new version owns the files it owned.
LEMMA ToldFiles ==
    ASSUME NEW pkg, NEW libs, NEW p, NEW id
    PROVE  /\ FilesOf(id, Told(pkg, libs, p)) = FilesOf(id, p)
           /\ Told(pkg, libs, p).ver = p.ver /\ Told(pkg, libs, p).hosts = p.hosts
           /\ \A l : UsesShared(Told(pkg, libs, p), l) <=> UsesShared(p, l)
           /\ DOMAIN Told(pkg, libs, p).uses = DOMAIN p.uses
  <1> DEFINE t == Told(pkg, libs, p)
  <1>1. t.ver = p.ver /\ t.kind = p.kind /\ t.hosts = p.hosts /\ t.cmds = p.cmds
        /\ DOMAIN t.uses = DOMAIN p.uses
    BY DEF Told
  <1>2. \A l \in DOMAIN p.uses : t.uses[l].global = p.uses[l].global
    BY DEF Told
  <1> HIDE DEF t
  <1>3. \A l : UsesShared(t, l) <=> UsesShared(p, l)
    BY <1>1, <1>2 DEF UsesShared
  <1>4. {l \in DOMAIN t.uses : ~t.uses[l].global} = {l \in DOMAIN p.uses : ~p.uses[l].global}
    BY <1>1, <1>2
  <1>5. FilesOf(id, t) = FilesOf(id, p)
    BY <1>1, <1>4 DEF FilesOf
  <1> QED
    BY <1>1, <1>3, <1>5 DEF t

\* What the invariant says is what Db::check looks at.
LEMMA InvChecks == Inv => DbCheck
  <1> SUFFICES ASSUME Inv PROVE DbCheck
    OBVIOUS
  <1> DEFINE users(l) == {i \in DOMAIN packages : UsesShared(packages[i], l)}
  <1>1. \A l \in DOMAIN libraries : users(l) = libraries[l].required_by
    BY DEF Inv, Registered, Counted
  <1>2. \A l \in DOMAIN libraries :
            libraries[l].provided_by \in DOMAIN packages \cup {None}
    BY DEF Inv, Provided, Counted
  <1>3. {l \in DOMAIN libraries : users(l) # {}} = DOMAIN libraries
    BY <1>1 DEF Inv, Counted
  <1>4. RebuildRefs = libraries
    <2>1. RebuildRefs = [l \in DOMAIN libraries |->
            [libraries[l] EXCEPT !.required_by = users(l), !.ref_count = Cardinality(users(l)),
                                 !.provided_by = IF @ \in DOMAIN packages THEN @ ELSE None]]
      BY <1>3 DEF RebuildRefs
    <2>2. ASSUME NEW l \in DOMAIN libraries
          PROVE  [libraries[l] EXCEPT !.required_by = users(l), !.ref_count = Cardinality(users(l)),
                                 !.provided_by = IF @ \in DOMAIN packages THEN @ ELSE None]
                 = libraries[l]
      <3>1. Book(libraries[l]) /\ libraries[l].ref_count = Cardinality(libraries[l].required_by)
        BY DEF Inv, Shape, Counted
      <3>2. users(l) = libraries[l].required_by
            /\ (libraries[l].provided_by \notin DOMAIN packages => libraries[l].provided_by = None)
        BY <1>1, <1>2
      <3> HIDE DEF users
      <3> QED
        BY <3>1, <3>2 DEF Book
    <2> HIDE DEF users
    <2> QED
      BY <2>1, <2>2 DEF Inv, Shape
  <1>5. \A i, k \in DOMAIN packages :
            i # k => FilesOf(i, packages[i]) \cap FilesOf(k, packages[k]) = {}
    BY DEF Inv, Apart
  <1> QED
    BY <1>2, <1>4, <1>5, LibsApart DEF DbCheck, Inv, Registered, Counted

\* An empty database is a good one.
LEMMA InvInit == Init => Inv
  BY DEF Init, Inv, Shape, Apart, Registered, Counted, Provided, NeedsMet, DiskMatches

----------------------------------------------------------------------------
(* Planning.                                                               *)

\* Releasing a package's references takes it off the users of every library.
LEMMA ReleasedIs ==
    ASSUME Inv, NEW id
    PROVE  /\ DOMAIN Released(id) = DOMAIN libraries
           /\ \A l \in DOMAIN libraries :
                /\ Released(id)[l].copy = libraries[l].copy
                /\ Released(id)[l].provided_by = libraries[l].provided_by
                /\ Released(id)[l].required_by = libraries[l].required_by \ {id}
                /\ Book(Released(id)[l])
                /\ ~(id \in DOMAIN packages /\ UsesShared(packages[id], l)) =>
                        Released(id)[l] = libraries[l]
  <1>1. DOMAIN Released(id) = DOMAIN libraries
    BY DEF Released
  <1> SUFFICES ASSUME NEW l \in DOMAIN libraries
               PROVE  /\ Released(id)[l].copy = libraries[l].copy
                      /\ Released(id)[l].provided_by = libraries[l].provided_by
                      /\ Released(id)[l].required_by = libraries[l].required_by \ {id}
                      /\ Book(Released(id)[l])
                      /\ ~(id \in DOMAIN packages /\ UsesShared(packages[id], l)) =>
                              Released(id)[l] = libraries[l]
    BY <1>1
  <1>2. Book(libraries[l])
    BY DEF Inv, Shape
  <1>3. CASE id \in DOMAIN packages /\ UsesShared(packages[id], l)
    <2>1. Released(id)[l] = [libraries[l] EXCEPT !.required_by = libraries[l].required_by \ {id}]
      BY <1>3 DEF Released
    <2> QED
      BY <1>2, <1>3, <2>1 DEF Book
  <1>4. CASE ~(id \in DOMAIN packages /\ UsesShared(packages[id], l))
    <2>1. Released(id)[l] = libraries[l]
      BY <1>4 DEF Released
    <2>2. id \notin libraries[l].required_by
      BY <1>4 DEF Inv, Counted
    <2> QED
      BY <1>2, <2>1, <2>2
  <1> QED
    BY <1>3, <1>4

\* What each way of getting a library means: the version the package gets is
\* one it accepts, and a shared copy is replaced only if its users accept that.
LEMMA ChoiceIs ==
    ASSUME NEW pkg \in Catalogue, NEW libs, NEW l \in DOMAIN pkg.uses,
           Choice(pkg, l, libs) \notin {"missing", "conflict"}
    PROVE  /\ Choice(pkg, l, libs) \in {"global", "share", "private"}
           /\ Choice(pkg, l, libs) = "global" =>
                /\ pkg.uses[l].ship.ver \in pkg.uses[l].req
                /\ l \in DOMAIN libs => \A d \in libs[l].required_by :
                        pkg.uses[l].ship.ver \in packages[d].uses[l].req
           /\ Choice(pkg, l, libs) = "share" =>
                l \in DOMAIN libs /\ libs[l].copy.ver \in pkg.uses[l].req
           /\ Choice(pkg, l, libs) = "private" =>
                pkg.uses[l].ship.ver \in pkg.uses[l].req
  <1>1. pkg.uses[l].ship # None => pkg.uses[l].ship.ver \in pkg.uses[l].req
    BY ManifestsConsistent
  <1> QED
    BY <1>1 DEF Choice, Upgrades

\* The packages after an install: the new record, and the others told.
LEMMA InstallPackages ==
    ASSUME NEW pkg \in Catalogue, NEW libs,
           \A l \in DOMAIN pkg.uses : Choice(pkg, l, libs) \notin {"missing", "conflict"}
    PROVE  /\ DOMAIN NewPackages(pkg, libs) = DOMAIN packages \cup {pkg.id}
           /\ NewPackages(pkg, libs)[pkg.id] = Record(pkg, libs)
           /\ \A d \in DOMAIN packages \ {pkg.id} :
                NewPackages(pkg, libs)[d] = Told(pkg, libs, packages[d])
           /\ \A l : UsesShared(Record(pkg, libs), l) <=>
                l \in Chosen(pkg, libs, "global") \cup Chosen(pkg, libs, "share")
           /\ \A l \in DOMAIN pkg.uses :
                Record(pkg, libs).uses[l].ver \in Record(pkg, libs).uses[l].req
  <1> DEFINE np == NewPackages(pkg, libs)
             rec == Record(pkg, libs)
             fresh == Chosen(pkg, libs, "global")
             shared == Chosen(pkg, libs, "share")
  <1>1. /\ DOMAIN np = DOMAIN packages \cup {pkg.id} /\ np[pkg.id] = rec
        /\ \A d \in DOMAIN packages \ {pkg.id} : np[d] = Told(pkg, libs, packages[d])
    BY DEF NewPackages
  <1>2. DOMAIN rec.uses = DOMAIN pkg.uses
    BY DEF Record
  <1>3. \A l \in DOMAIN pkg.uses :
            /\ rec.uses[l].req = pkg.uses[l].req
            /\ rec.uses[l].global <=> Choice(pkg, l, libs) # "private"
            /\ rec.uses[l].ver = IF Choice(pkg, l, libs) = "share" THEN libs[l].copy.ver
                                 ELSE pkg.uses[l].ship.ver
    BY DEF Record
  <1>4. \A l \in DOMAIN pkg.uses : Choice(pkg, l, libs) \in {"global", "share", "private"}
    BY ChoiceIs
  <1> HIDE DEF rec, np
  <1>5. \A l : UsesShared(rec, l) <=> l \in fresh \cup shared
    BY <1>2, <1>3, <1>4 DEF UsesShared, Chosen
  <1>6. \A l \in DOMAIN pkg.uses : rec.uses[l].ver \in rec.uses[l].req
    BY <1>3, <1>4, ChoiceIs
  <1> QED
    BY <1>1, <1>5, <1>6 DEF rec, np

\* The libraries after an install: those somebody uses.
LEMMA InstallLibraries ==
    ASSUME NEW pkg, NEW libs
    PROVE  LET nl == NewLibraries(pkg, libs)
               fresh == Chosen(pkg, libs, "global")
           IN  /\ nl = [l \in DOMAIN nl |-> nl[l]]
               /\ \A l : l \in DOMAIN nl <=>
                        l \in DOMAIN libs \cup fresh /\ Users(pkg, libs, l) # {}
               /\ \A l \in DOMAIN nl :
                    /\ Book(nl[l])
                    /\ nl[l].copy = IF l \in fresh THEN pkg.uses[l].ship ELSE libs[l].copy
                    /\ nl[l].provided_by = Provider(pkg, libs, l)
                    /\ nl[l].required_by = Users(pkg, libs, l)
                    /\ nl[l].ref_count = Cardinality(Users(pkg, libs, l))
  BY DEF NewLibraries, Kept, Book

\* The users of a library after the install of pkg.
LEMMA UsersAre ==
    ASSUME NEW pkg, NEW libs, NEW l, NEW i
    PROVE  i \in Users(pkg, libs, l) <=>
                \/ l \in DOMAIN libs /\ i \in libs[l].required_by
                \/ /\ i = pkg.id
                   /\ l \in Chosen(pkg, libs, "global") \cup Chosen(pkg, libs, "share")
  BY DEF Users

\* The parts of a plan.
LEMMA PlanIs ==
    ASSUME NEW pkg, NEW force
    PROVE  LET libs == Released(pkg.id)
               fresh == Chosen(pkg, libs, "global")
               own == FilesOf(pkg.id, Record(pkg, libs))
               pn == PlanInstall(pkg, force)
               nl == NewLibraries(pkg, libs)
           IN  /\ pn.pk = NewPackages(pkg, libs) /\ pn.lib = nl
               /\ DOMAIN pn.pl = own \cup {LibPath(l) : l \in fresh}
               /\ \A p \in own : pn.pl[p] = <<pkg.id, pkg.ver>>
               /\ \A l \in fresh : pn.pl[LibPath(l)] = pkg.uses[l].ship
               /\ \A p : p \in pn.aside <=>
                    \/ pkg.id \in DOMAIN packages /\ p \in FilesOf(pkg.id, packages[pkg.id])
                    \/ \E l \in DOMAIN libs : p = LibPath(l) /\ (l \in fresh \/ l \notin DOMAIN nl)
               /\ pn.clash = (DOMAIN pn.pl \ pn.aside) \cap DOMAIN disk
               /\ pn.bk = pn.aside \cup (IF force THEN pn.clash ELSE {})
  <1> DEFINE libs == Released(pkg.id)
             fresh == Chosen(pkg, libs, "global")
             own == FilesOf(pkg.id, Record(pkg, libs))
             nl == NewLibraries(pkg, libs)
             pn == PlanInstall(pkg, force)
  <1>1. /\ pn.pk = NewPackages(pkg, libs) /\ pn.lib = nl
        /\ pn.pl = [p \in own \cup {LibPath(l) : l \in fresh} |->
                        IF p \in own THEN <<pkg.id, pkg.ver>> ELSE pkg.uses[p[2]].ship]
        /\ pn.aside = (IF pkg.id \in DOMAIN packages THEN FilesOf(pkg.id, packages[pkg.id]) ELSE {})
                 \cup {LibPath(l) : l \in (fresh \cap DOMAIN libs) \cup (DOMAIN libs \ DOMAIN nl)}
        /\ pn.clash = (DOMAIN pn.pl \ pn.aside) \cap DOMAIN disk
        /\ pn.bk = pn.aside \cup (IF force THEN pn.clash ELSE {})
    BY DEF PlanInstall
  <1> HIDE DEF libs, fresh, own, nl, pn
  <1>2. \A l \in fresh : LibPath(l) \notin own /\ LibPath(l)[2] = l
    BY LibsApart, LibPathOne DEF own
  <1>3. DOMAIN pn.pl = own \cup {LibPath(l) : l \in fresh} /\ \A p \in own : pn.pl[p] = <<pkg.id, pkg.ver>>
    BY <1>1
  <1>4. \A l \in fresh : pn.pl[LibPath(l)] = pkg.uses[l].ship
    BY <1>1, <1>2
  <1>5. \A p : p \in pn.aside <=>
            \/ pkg.id \in DOMAIN packages /\ p \in FilesOf(pkg.id, packages[pkg.id])
            \/ \E l \in DOMAIN libs : p = LibPath(l) /\ (l \in fresh \/ l \notin DOMAIN nl)
    BY <1>1
  <1> QED
    BY <1>1, <1>3, <1>4, <1>5 DEF libs, fresh, own, nl, pn

\* An install keeps the invariant.
LEMMA Installed ==
    ASSUME Inv, NEW pkg \in Catalogue, NEW force \in BOOLEAN, NEW again \in BOOLEAN,
           Install(pkg, force, again)
    PROVE  Inv'
  <1> DEFINE id == pkg.id
             libs == Released(id)
             fresh == Chosen(pkg, libs, "global")
             shared == Chosen(pkg, libs, "share")
             rec == Record(pkg, libs)
             nl == NewLibraries(pkg, libs)
             own == FilesOf(id, rec)
             pn == PlanInstall(pkg, force)
             others == DOMAIN packages \ {id}
  <1>1. /\ packages' = NewPackages(pkg, libs) /\ libraries' = nl
        /\ disk' = [p \in DOMAIN pn.pl \cup (DOMAIN disk \ pn.bk) |->
                        IF p \in DOMAIN pn.pl THEN pn.pl[p] ELSE disk[p]]
    BY PlanIs DEF Install, Execute
  <1>2. /\ \A l \in DOMAIN pkg.uses : Choice(pkg, l, libs) \notin {"missing", "conflict"}
        /\ NoConflict(pkg, pn, force) /\ pkg.hosts \subseteq Builtin \cup others
    BY DEF Install, Installable, HostsKnown, Others, Without, Restrict
  <1>3. /\ DOMAIN libs = DOMAIN libraries
        /\ \A l \in DOMAIN libraries :
                /\ libs[l].copy = libraries[l].copy
                /\ libs[l].provided_by = libraries[l].provided_by
                /\ libs[l].required_by = libraries[l].required_by \ {id}
    BY ReleasedIs
  <1>4. /\ DOMAIN packages' = DOMAIN packages \cup {id} /\ packages'[id] = rec
        /\ \A d \in others : packages'[d] = Told(pkg, libs, packages[d])
        /\ rec.ver = pkg.ver /\ rec.hosts = pkg.hosts /\ DOMAIN rec.uses = DOMAIN pkg.uses
        /\ \A l : UsesShared(rec, l) <=> l \in fresh \cup shared
        /\ \A l \in fresh : rec.uses[l].ver = pkg.uses[l].ship.ver
        /\ \A l \in shared : rec.uses[l].ver = libs[l].copy.ver
        /\ \A l \in DOMAIN pkg.uses : rec.uses[l].ver \in rec.uses[l].req
    <2> DEFINE np == NewPackages(pkg, libs)
    <2> HIDE DEF libs
    <2>0. \A l \in DOMAIN pkg.uses : Choice(pkg, l, libs) \notin {"missing", "conflict"}
      BY <1>2
    <2>1. /\ DOMAIN np = DOMAIN packages \cup {pkg.id} /\ np[pkg.id] = rec
          /\ \A d \in DOMAIN packages \ {pkg.id} : np[d] = Told(pkg, libs, packages[d])
      BY <2>0, InstallPackages, Zenon
    <2>2. rec.ver = pkg.ver /\ rec.hosts = pkg.hosts /\ DOMAIN rec.uses = DOMAIN pkg.uses
      BY DEF Record
    <2>3. \A l : UsesShared(rec, l) <=> l \in fresh \cup shared
      BY <2>0, InstallPackages, Zenon
    <2>4. \A l \in fresh : rec.uses[l].ver = pkg.uses[l].ship.ver
      BY DEF Record, Chosen
    <2>5. \A l \in shared : rec.uses[l].ver = libs[l].copy.ver
      BY DEF Record, Chosen
    <2>6. \A l \in DOMAIN pkg.uses : rec.uses[l].ver \in rec.uses[l].req
      BY <2>0, InstallPackages, Zenon
    <2> HIDE DEF np, rec, fresh, shared
    <2> QED
      BY <1>1, <2>1, <2>2, <2>3, <2>4, <2>5, <2>6 DEF np
  <1>5. /\ nl = [l \in DOMAIN nl |-> nl[l]]
        /\ \A l : l \in DOMAIN nl <=> l \in DOMAIN libs \cup fresh /\ Users(pkg, libs, l) # {}
        /\ \A l \in DOMAIN nl :
                /\ Book(nl[l])
                /\ nl[l].copy = IF l \in fresh THEN pkg.uses[l].ship ELSE libs[l].copy
                /\ nl[l].provided_by = Provider(pkg, libs, l)
                /\ nl[l].required_by = Users(pkg, libs, l)
                /\ nl[l].ref_count = Cardinality(Users(pkg, libs, l))
    BY InstallLibraries
  <1>6. /\ DOMAIN pn.pl = own \cup {LibPath(l) : l \in fresh}
        /\ \A p \in own : pn.pl[p] = <<id, pkg.ver>>
        /\ \A l \in fresh : pn.pl[LibPath(l)] = pkg.uses[l].ship
        /\ \A p : p \in pn.aside <=>
                \/ id \in DOMAIN packages /\ p \in FilesOf(id, packages[id])
                \/ \E l \in DOMAIN libs : p = LibPath(l) /\ (l \in fresh \/ l \notin DOMAIN nl)
        /\ pn.clash = (DOMAIN pn.pl \ pn.aside) \cap DOMAIN disk
        /\ pn.bk = pn.aside \cup (IF force THEN pn.clash ELSE {})
    BY PlanIs
  <1>7. /\ shared \subseteq DOMAIN libs /\ fresh \cap shared = {}
        /\ fresh \cup shared \subseteq DOMAIN pkg.uses
        /\ \A l \in fresh \cap DOMAIN libs : \A d \in libs[l].required_by :
                pkg.uses[l].ship.ver \in packages[d].uses[l].req
    BY <1>2, ChoiceIs DEF Chosen
  <1>8. id # None
    BY ManifestsConsistent
  <1>9. \A l, i : i \in Users(pkg, libs, l) <=>
            \/ l \in DOMAIN libs /\ i \in libs[l].required_by
            \/ i = id /\ l \in fresh \cup shared
    BY UsersAre
  <1>10. \A p \in DOMAIN pn.pl \ pn.aside : \A d \in others : p \notin FilesOf(d, packages[d])
    BY <1>2 DEF NoConflict, Others, Without, Restrict
  <1> HIDE DEF id, libs, fresh, shared, rec, nl, own, pn
  <1>11. \A d \in others : /\ FilesOf(d, packages'[d]) = FilesOf(d, packages[d])
                           /\ packages'[d].ver = packages[d].ver
                           /\ packages'[d].hosts = packages[d].hosts
                           /\ \A l : UsesShared(packages'[d], l) <=> UsesShared(packages[d], l)
                           /\ DOMAIN packages'[d].uses = DOMAIN packages[d].uses
    BY <1>4, ToldFiles
  <1>12. Shape'
    BY <1>1, <1>4, <1>5, <1>8 DEF Inv, Shape, Book
  <1>13. \A d \in others : FilesOf(d, packages[d]) \cap (DOMAIN pn.pl \cup pn.bk) = {}
    <2> SUFFICES ASSUME NEW d \in others, NEW p \in FilesOf(d, packages[d])
                 PROVE  p \notin DOMAIN pn.pl /\ p \notin pn.bk
      OBVIOUS
    <2>1. p \notin pn.aside
      BY <1>6, LibsApart DEF Inv, Apart
    <2>2. p \notin DOMAIN pn.pl
      BY <1>10, <2>1
    <2> QED
      BY <1>6, <2>1, <2>2
  <1>14. Apart'
    <2>1. \A d \in others : own \cap FilesOf(d, packages[d]) = {}
      BY <1>6, <1>13
    <2>2. FilesOf(id, packages'[id]) = own
      BY <1>4 DEF own
    <2>3. \A i, k \in others : i # k => FilesOf(i, packages[i]) \cap FilesOf(k, packages[k]) = {}
      BY DEF Inv, Apart
    <2>4. ASSUME NEW i \in DOMAIN packages', NEW k \in DOMAIN packages', i # k
          PROVE  FilesOf(i, packages'[i]) \cap FilesOf(k, packages'[k]) = {}
      <3>1. CASE i = id
        BY <1>4, <1>11, <2>1, <2>2, <2>4, <3>1
      <3>2. CASE k = id
        BY <1>4, <1>11, <2>1, <2>2, <2>4, <3>2
      <3>3. CASE i # id /\ k # id
        BY <1>4, <1>11, <2>3, <2>4, <3>3
      <3> QED
        BY <3>1, <3>2, <3>3
    <2> QED
      BY <2>4 DEF Apart, FilesOf
  <1>15. Registered'
    <2>1. ASSUME NEW i \in DOMAIN packages', NEW l, UsesShared(packages'[i], l)
          PROVE  /\ l \in DOMAIN nl /\ i \in nl[l].required_by
                 /\ packages'[i].uses[l].ver = nl[l].copy.ver
      <3>1. CASE i = id
        <4>1. l \in fresh \cup shared /\ i \in Users(pkg, libs, l)
          BY <1>4, <1>9, <2>1, <3>1
        <4>2. l \in DOMAIN nl
          BY <1>5, <1>7, <4>1
        <4> QED
          BY <1>4, <1>5, <1>7, <3>1, <4>1, <4>2
      <3>2. CASE i # id
        <4>1. i \in others /\ UsesShared(packages[i], l)
          BY <1>4, <1>11, <2>1, <3>2
        <4>2. /\ l \in DOMAIN libraries /\ i \in libraries[l].required_by
              /\ packages[i].uses[l].ver = libraries[l].copy.ver
          BY <4>1 DEF Inv, Registered
        <4>3. i \in Users(pkg, libs, l)
          BY <1>3, <1>9, <3>2, <4>2
        <4>4. l \in DOMAIN nl /\ i \in nl[l].required_by
          BY <1>3, <1>5, <4>2, <4>3
        <4>5. packages'[i].uses[l].ver = IF l \in fresh THEN pkg.uses[l].ship.ver
                                         ELSE packages[i].uses[l].ver
          BY <1>4, <4>1 DEF Told, UsesShared, fresh
        <4> QED
          BY <1>3, <1>5, <4>2, <4>4, <4>5
      <3> QED
        BY <3>1, <3>2
    <2> QED
      BY <1>1, <2>1 DEF Registered, UsesShared
  <1>16. Counted'
    <2>1. ASSUME NEW l \in DOMAIN nl, NEW i \in nl[l].required_by
          PROVE  i \in DOMAIN packages' /\ UsesShared(packages'[i], l)
      <3>1. CASE i = id
        <4>1. l \in fresh \cup shared
          BY <1>3, <1>5, <1>9, <2>1, <3>1
        <4> QED
          BY <1>4, <3>1, <4>1
      <3>2. CASE i # id
        <4>1. l \in DOMAIN libraries /\ i \in libraries[l].required_by
          BY <1>3, <1>5, <1>9, <2>1, <3>2
        <4>2. i \in others /\ UsesShared(packages[i], l)
          BY <3>2, <4>1 DEF Inv, Counted
        <4> QED
          BY <1>4, <1>11, <4>2
      <3> QED
        BY <3>1, <3>2
    <2> QED
      BY <1>1, <1>5, <2>1 DEF Counted, UsesShared
  <1>17. Provided'
    <2>1. ASSUME NEW l \in DOMAIN nl, nl[l].provided_by # None
          PROVE  nl[l].provided_by \in Users(pkg, libs, l)
      <3> DEFINE by == nl[l].provided_by
      <3>1. \/ by = id /\ by \in Users(pkg, libs, l)
            \/ by # id /\ l \notin fresh /\ by = libs[l].provided_by
        BY <1>5, <2>1 DEF Provider, id, fresh
      <3>2. CASE by # id /\ l \notin fresh /\ by = libs[l].provided_by
        <4>1. l \in DOMAIN libraries /\ by = libraries[l].provided_by
          BY <1>3, <1>5, <3>2
        <4>2. by \in libraries[l].required_by
          BY <2>1, <4>1 DEF Inv, Provided
        <4> QED
          BY <1>3, <1>9, <3>2, <4>1, <4>2
      <3> QED
        BY <3>1, <3>2
    <2> QED
      BY <1>1, <1>5, <2>1 DEF Provided
  <1>18. NeedsMet'
    <2>1. \A l \in DOMAIN rec.uses : rec.uses[l].ver \in rec.uses[l].req
      BY <1>4
    <2>2. ASSUME NEW d \in others, NEW l \in DOMAIN packages'[d].uses
          PROVE  packages'[d].uses[l].ver \in packages'[d].uses[l].req
      <3>1. /\ l \in DOMAIN packages[d].uses
            /\ packages'[d].uses[l].req = packages[d].uses[l].req
            /\ packages'[d].uses[l].ver = IF l \in fresh /\ packages[d].uses[l].global
                        THEN pkg.uses[l].ship.ver ELSE packages[d].uses[l].ver
        BY <1>4, <1>11 DEF Told, fresh
      <3>2. packages[d].uses[l].ver \in packages[d].uses[l].req
        BY <3>1 DEF Inv, NeedsMet
      <3>3. CASE l \in fresh /\ packages[d].uses[l].global
        <4>1. l \in DOMAIN libraries /\ d \in libraries[l].required_by
          BY <3>1, <3>3 DEF Inv, Registered, UsesShared
        <4>2. l \in DOMAIN libs /\ d \in libs[l].required_by
          BY <1>3, <4>1
        <4> QED
          BY <1>7, <3>1, <3>3, <4>2
      <3> QED
        BY <3>1, <3>2, <3>3
    <2>3. \A i \in DOMAIN packages' : packages'[i].hosts \subseteq Builtin \cup DOMAIN packages'
      BY <1>2, <1>4, <1>11 DEF Inv, NeedsMet
    <2> QED
      BY <1>4, <2>1, <2>2, <2>3 DEF NeedsMet
  <1>19. DiskMatches'
    <2>1. FilesOf(id, packages'[id]) = own /\ packages'[id].ver = pkg.ver
      BY <1>4 DEF own
    <2>2. \A p \in own : p \in DOMAIN disk' /\ disk'[p] = <<id, pkg.ver>>
      BY <1>1, <1>6
    <2>3. ASSUME NEW d \in others, NEW p \in FilesOf(d, packages[d])
          PROVE  p \in DOMAIN disk' /\ disk'[p] = <<d, packages[d].ver>>
      <3>1. p \in DOMAIN disk /\ disk[p] = <<d, packages[d].ver>>
        BY DEF Inv, DiskMatches
      <3>2. p \notin DOMAIN pn.pl /\ p \notin pn.bk
        BY <1>13
      <3> QED
        BY <1>1, <3>1, <3>2
    <2>4. ASSUME NEW l \in DOMAIN nl
          PROVE  LibPath(l) \in DOMAIN disk' /\ disk'[LibPath(l)] = nl[l].copy
      <3>1. CASE l \in fresh
        BY <1>1, <1>5, <1>6, <3>1
      <3>2. CASE l \notin fresh
        <4>1. l \in DOMAIN libraries /\ nl[l].copy = libraries[l].copy
          BY <1>3, <1>5, <3>2
        <4>2. LibPath(l) \in DOMAIN disk /\ disk[LibPath(l)] = libraries[l].copy
          BY <4>1 DEF Inv, DiskMatches
        <4>3. LibPath(l) \notin DOMAIN pn.pl
          BY <1>6, <3>2, LibsApart, LibPathOne DEF own
        <4>4. LibPath(l) \notin pn.aside
          BY <1>6, <3>2, LibsApart, LibPathOne
        <4>5. LibPath(l) \notin pn.bk
          BY <1>6, <4>3, <4>4
        <4> QED
          BY <1>1, <4>1, <4>2, <4>3, <4>5
      <3> QED
        BY <3>1, <3>2
    <2>5. ASSUME NEW p \in DOMAIN disk'
          PROVE  \/ p \in Stray
                 \/ \E l \in DOMAIN nl : p = LibPath(l)
                 \/ p \in own \/ \E d \in others : p \in FilesOf(d, packages[d])
      <3>1. CASE p \in DOMAIN pn.pl
        <4>1. fresh \subseteq DOMAIN nl
          BY <1>5, <1>9
        <4> QED
          BY <1>6, <3>1, <4>1
      <3>2. CASE p \notin DOMAIN pn.pl
        <4>1. p \in DOMAIN disk /\ p \notin pn.bk
          BY <1>1, <3>2
        <4>2. p \notin pn.aside
          BY <1>6, <4>1
        <4>3. \/ p \in Stray
              \/ \E l \in DOMAIN libraries : p = LibPath(l)
              \/ \E d \in DOMAIN packages : p \in FilesOf(d, packages[d])
          BY <4>1 DEF Inv, DiskMatches
        <4>4. ASSUME NEW l \in DOMAIN libraries, p = LibPath(l)
              PROVE  l \in DOMAIN nl
          BY <1>3, <1>6, <4>2, <4>4
        <4>5. ASSUME NEW d \in DOMAIN packages, p \in FilesOf(d, packages[d])
              PROVE  d \in others
          BY <1>6, <4>2, <4>5
        <4> QED
          BY <4>3, <4>4, <4>5
      <3> QED
        BY <3>1, <3>2
    <2>6. \A i \in DOMAIN packages' : \A p \in FilesOf(i, packages'[i]) :
            p \in DOMAIN disk' /\ disk'[p] = <<i, packages'[i].ver>>
      BY <1>4, <1>11, <2>1, <2>2, <2>3
    <2>7. \A p \in DOMAIN disk' :
            \/ p \in Stray
            \/ \E l \in DOMAIN nl : p = LibPath(l)
            \/ \E i \in DOMAIN packages' : p \in FilesOf(i, packages'[i])
      BY <1>4, <1>11, <2>1, <2>5
    <2> QED
      BY <1>1, <2>4, <2>6, <2>7 DEF DiskMatches, FilesOf, LibPath
  <1> QED
    BY <1>12, <1>14, <1>15, <1>16, <1>17, <1>18, <1>19 DEF Inv

\* The parts of a plan that removes a package.
LEMMA RemovalIs ==
    ASSUME Inv, NEW id \in DOMAIN packages
    PROVE  LET pn == PlanRemove(id)
               used(l) == UsesShared(packages[id], l)
               gone(l) == used(l) /\ libraries[l].required_by \subseteq {id}
           IN  /\ pn.pk = [d \in DOMAIN packages \ {id} |-> packages[d]]
               /\ pn.lib = [l \in DOMAIN pn.lib |-> pn.lib[l]]
               /\ \A l : l \in DOMAIN pn.lib <=> l \in DOMAIN libraries /\ ~gone(l)
               /\ \A l \in DOMAIN pn.lib :
                    /\ Book(pn.lib[l]) /\ pn.lib[l].copy = libraries[l].copy
                    /\ ~used(l) => pn.lib[l] = libraries[l]
                    /\ used(l) =>
                        /\ pn.lib[l].required_by = libraries[l].required_by \ {id}
                        /\ pn.lib[l].ref_count = Cardinality(pn.lib[l].required_by)
                        /\ pn.lib[l].provided_by =
                            IF libraries[l].provided_by = id THEN None ELSE libraries[l].provided_by
               /\ \A p : p \in pn.bk <=>
                    \/ p \in FilesOf(id, packages[id])
                    \/ \E l \in DOMAIN libraries : gone(l) /\ p = LibPath(l)
               /\ DOMAIN pn.pl = {}
  <1> DEFINE pn == PlanRemove(id)
             libs == Released(id)
             used == {l \in DOMAIN packages[id].uses : UsesShared(packages[id], l)}
             gone == {l \in used : libs[l].required_by = {}}
  <1>1. /\ pn.pk = Others(id)
        /\ pn.lib = [l \in DOMAIN libs \ gone |->
                    IF l \in used
                    THEN [libs[l] EXCEPT !.ref_count = Cardinality(libs[l].required_by),
                                         !.provided_by = IF @ = id THEN None ELSE @]
                    ELSE libs[l]]
        /\ pn.bk = FilesOf(id, packages[id]) \cup {LibPath(l) : l \in gone}
        /\ pn.pl = [p \in {} |-> None]
    BY DEF PlanRemove
  <1>2. /\ DOMAIN libs = DOMAIN libraries
        /\ \A l \in DOMAIN libraries :
                /\ libs[l].copy = libraries[l].copy
                /\ libs[l].provided_by = libraries[l].provided_by
                /\ libs[l].required_by = libraries[l].required_by \ {id}
                /\ Book(libs[l])
                /\ ~UsesShared(packages[id], l) => libs[l] = libraries[l]
    BY ReleasedIs
  <1>3. \A l : l \in used <=> UsesShared(packages[id], l)
    BY DEF UsesShared
  <1>4. used \subseteq DOMAIN libraries
    BY <1>3 DEF Inv, Registered
  <1>5. \A l : l \in gone <=> l \in DOMAIN libraries /\ UsesShared(packages[id], l)
                               /\ libraries[l].required_by \subseteq {id}
    BY <1>2, <1>3, <1>4
  <1> HIDE DEF libs, used, gone, pn
  <1>6. pn.pk = [d \in DOMAIN packages \ {id} |-> packages[d]]
    BY <1>1 DEF Others, Without, Restrict
  <1>7. /\ pn.lib = [l \in DOMAIN pn.lib |-> pn.lib[l]]
        /\ DOMAIN pn.lib = DOMAIN libraries \ gone
    BY <1>1, <1>2
  <1>8. ASSUME NEW l \in DOMAIN pn.lib
        PROVE  /\ Book(pn.lib[l]) /\ pn.lib[l].copy = libraries[l].copy
               /\ l \notin used => pn.lib[l] = libraries[l]
               /\ l \in used =>
                    /\ pn.lib[l].required_by = libraries[l].required_by \ {id}
                    /\ pn.lib[l].ref_count = Cardinality(pn.lib[l].required_by)
                    /\ pn.lib[l].provided_by =
                            IF libraries[l].provided_by = id THEN None ELSE libraries[l].provided_by
    <2>1. CASE l \in used
      <3>1. pn.lib[l] = [libs[l] EXCEPT !.ref_count = Cardinality(libs[l].required_by),
                                        !.provided_by = IF @ = id THEN None ELSE @]
        BY <1>1, <1>7, <2>1
      <3> QED
        BY <1>2, <1>7, <2>1, <3>1 DEF Book
    <2>2. CASE l \notin used
      BY <1>1, <1>2, <1>3, <1>7, <2>2
    <2> QED
      BY <2>1, <2>2
  <1>9. \A p : p \in pn.bk <=>
            \/ p \in FilesOf(id, packages[id]) \/ \E l \in gone : p = LibPath(l)
    BY <1>1
  <1>10. DOMAIN pn.pl = {}
    BY <1>1
  <1> QED
    BY <1>3, <1>5, <1>6, <1>7, <1>8, <1>9, <1>10 DEF pn

\* A removal keeps the invariant.
LEMMA Removed ==
    ASSUME Inv, NEW id \in DOMAIN packages, Remove(id)
    PROVE  Inv'
  <1> DEFINE pn == PlanRemove(id)
             others == DOMAIN packages \ {id}
             used(l) == UsesShared(packages[id], l)
             gone(l) == used(l) /\ libraries[l].required_by \subseteq {id}
  <1>1. /\ pn.pk = [d \in others |-> packages[d]]
        /\ pn.lib = [l \in DOMAIN pn.lib |-> pn.lib[l]]
        /\ \A l : l \in DOMAIN pn.lib <=> l \in DOMAIN libraries /\ ~gone(l)
        /\ \A p : p \in pn.bk <=>
                \/ p \in FilesOf(id, packages[id])
                \/ \E l \in DOMAIN libraries : gone(l) /\ p = LibPath(l)
        /\ DOMAIN pn.pl = {}
    BY RemovalIs
  <1>2. \A l \in DOMAIN pn.lib :
            /\ Book(pn.lib[l]) /\ pn.lib[l].copy = libraries[l].copy
            /\ ~used(l) => pn.lib[l] = libraries[l]
            /\ used(l) =>
                /\ pn.lib[l].required_by = libraries[l].required_by \ {id}
                /\ pn.lib[l].ref_count = Cardinality(pn.lib[l].required_by)
                /\ pn.lib[l].provided_by =
                        IF libraries[l].provided_by = id THEN None ELSE libraries[l].provided_by
    BY RemovalIs
  <1>3. /\ packages' = pn.pk /\ libraries' = pn.lib
        /\ disk' = [p \in DOMAIN pn.pl \cup (DOMAIN disk \ pn.bk) |->
                        IF p \in DOMAIN pn.pl THEN pn.pl[p] ELSE disk[p]]
        /\ \A d \in others : id \notin packages[d].hosts
    BY DEF Remove, Execute, NoDependents
  <1> HIDE DEF pn, used, gone
  <1>4. /\ DOMAIN packages' = others /\ \A d \in others : packages'[d] = packages[d]
        /\ DOMAIN disk' = DOMAIN disk \ pn.bk /\ \A p \in DOMAIN disk' : disk'[p] = disk[p]
    BY <1>1, <1>3
  <1>5. \A l \in DOMAIN libraries : ~used(l) => id \notin libraries[l].required_by
    BY DEF Inv, Counted, used
  <1>6. \A l \in DOMAIN pn.lib :
            /\ l \in DOMAIN libraries
            /\ pn.lib[l].required_by = libraries[l].required_by \ {id}
            /\ pn.lib[l].required_by # {}
            /\ pn.lib[l].ref_count = Cardinality(pn.lib[l].required_by)
    BY <1>1, <1>2, <1>5 DEF Inv, Counted, gone
  <1>7. Shape'
    <2>1. libraries' = [l \in DOMAIN libraries' |-> libraries'[l]]
      BY <1>1, <1>3
    <2>2. \A l \in DOMAIN libraries' : Book(libraries'[l])
      BY <1>2, <1>3
    <2>3. None \notin DOMAIN packages'
      BY <1>4 DEF Inv, Shape
    <2> QED
      BY <2>1, <2>2, <2>3 DEF Shape, Book
  <1>8. Apart'
    <2>1. ASSUME NEW i \in DOMAIN packages', NEW k \in DOMAIN packages', i # k
          PROVE  FilesOf(i, packages'[i]) \cap FilesOf(k, packages'[k]) = {}
      BY <1>4, <2>1 DEF Inv, Apart
    <2> QED
      BY <2>1 DEF Apart, FilesOf
  <1>9. Registered'
    <2>1. ASSUME NEW i \in DOMAIN packages', NEW l, UsesShared(packages'[i], l)
          PROVE  /\ l \in DOMAIN pn.lib /\ i \in pn.lib[l].required_by
                 /\ packages'[i].uses[l].ver = pn.lib[l].copy.ver
      <3>1. /\ l \in DOMAIN libraries /\ i \in libraries[l].required_by /\ i # id
            /\ packages[i].uses[l].ver = libraries[l].copy.ver
        BY <1>4, <2>1 DEF Inv, Registered
      <3>2. l \in DOMAIN pn.lib
        BY <1>1, <3>1 DEF gone
      <3> QED
        BY <1>2, <1>4, <1>6, <3>1, <3>2
    <2> QED
      BY <1>3, <2>1 DEF Registered, UsesShared
  <1>10. Counted'
    <2>1. ASSUME NEW l \in DOMAIN pn.lib, NEW i \in pn.lib[l].required_by
          PROVE  i \in DOMAIN packages' /\ UsesShared(packages'[i], l)
      <3>1. l \in DOMAIN libraries /\ i \in libraries[l].required_by /\ i # id
        BY <1>6
      <3>2. i \in DOMAIN packages /\ UsesShared(packages[i], l)
        BY <3>1 DEF Inv, Counted
      <3> QED
        BY <1>4, <3>1, <3>2
    <2> QED
      BY <1>3, <1>6, <2>1 DEF Counted, UsesShared
  <1>11. Provided'
    <2>1. ASSUME NEW l \in DOMAIN pn.lib
          PROVE  pn.lib[l].provided_by \in pn.lib[l].required_by \cup {None}
      <3>1. libraries[l].provided_by \in libraries[l].required_by \cup {None}
        BY <1>6 DEF Inv, Provided
      <3> QED
        BY <1>2, <1>6, <3>1
    <2> QED
      BY <1>3, <2>1 DEF Provided
  <1>12. NeedsMet'
    BY <1>3, <1>4 DEF Inv, NeedsMet
  <1>13. DiskMatches'
    <2>1. ASSUME NEW i \in DOMAIN packages', NEW p \in FilesOf(i, packages'[i])
          PROVE  p \in DOMAIN disk' /\ disk'[p] = <<i, packages'[i].ver>>
      <3>1. i \in others /\ packages'[i] = packages[i]
        BY <1>4
      <3>2. p \in DOMAIN disk /\ disk[p] = <<i, packages[i].ver>>
        BY <3>1 DEF Inv, DiskMatches
      <3>3. p \notin pn.bk
        BY <1>1, <3>1, LibsApart DEF Inv, Apart
      <3> QED
        BY <1>4, <3>1, <3>2, <3>3
    <2>2. ASSUME NEW l \in DOMAIN pn.lib
          PROVE  LibPath(l) \in DOMAIN disk' /\ disk'[LibPath(l)] = pn.lib[l].copy
      <3>1. LibPath(l) \in DOMAIN disk /\ disk[LibPath(l)] = libraries[l].copy
        BY <1>6 DEF Inv, DiskMatches
      <3>2. LibPath(l) \notin pn.bk
        BY <1>1, LibsApart, LibPathOne
      <3> QED
        BY <1>2, <1>4, <3>1, <3>2
    <2>3. ASSUME NEW p \in DOMAIN disk'
          PROVE  \/ p \in Stray
                 \/ \E l \in DOMAIN pn.lib : p = LibPath(l)
                 \/ \E i \in DOMAIN packages' : p \in FilesOf(i, packages'[i])
      <3>1. p \in DOMAIN disk /\ p \notin pn.bk
        BY <1>4
      <3>2. \/ p \in Stray
            \/ \E l \in DOMAIN libraries : p = LibPath(l)
            \/ \E d \in DOMAIN packages : p \in FilesOf(d, packages[d])
        BY <3>1 DEF Inv, DiskMatches
      <3>3. \A l \in DOMAIN libraries : p = LibPath(l) => l \in DOMAIN pn.lib
        BY <1>1, <3>1
      <3>4. \A d \in DOMAIN packages : p \in FilesOf(d, packages[d]) => d \in others
        BY <1>1, <3>1
      <3> QED
        BY <1>4, <3>2, <3>3, <3>4
    <2> QED
      BY <1>3, <2>1, <2>2, <2>3 DEF DiskMatches, FilesOf, LibPath
  <1> QED
    BY <1>7, <1>8, <1>9, <1>10, <1>11, <1>12, <1>13 DEF Inv

\* No operation breaks the invariant.
LEMMA InvKept == ASSUME Inv, [Next]_vars PROVE Inv'
  <1>1. CASE \E pkg \in Catalogue, force, again \in BOOLEAN : Install(pkg, force, again)
    BY <1>1, Installed
  <1>2. CASE \E id \in DOMAIN packages : Remove(id)
    BY <1>2, Removed
  <1>3. CASE UNCHANGED vars
    BY <1>3 DEF vars, Inv, Shape, Book, Apart, Registered, Counted, Provided, NeedsMet,
                DiskMatches, UsesShared, FilesOf, LibPath
  <1> QED
    BY <1>1, <1>2, <1>3 DEF Next

\* Nor does anything that happens to the volume or its files.
LEMMA InvAlways == MCSpec => []Inv
  <1>1. MCInit => Inv
    BY InvInit DEF MCInit
  <1>2. Inv /\ [MCNext]_<<store, vars, volumeVars, fileVars>> => Inv'
    <2>1. [MCNext]_<<store, vars, volumeVars, fileVars>> => [Next]_vars
      BY DEF MCNext, PackageStep, VolumeStep, FileStep
    <2> QED
      BY <2>1, InvKept
  <1> QED
    BY <1>1, <1>2, PTL DEF MCSpec

----------------------------------------------------------------------------
(* The theorems.                                                           *)

\* Whatever is installed, upgraded and removed, the new database passes
\* Db::check: no operation ends in the planner's internal error, and the users
\* kept incrementally are those Db::rebuild_refs would count.
THEOREM DbAlwaysChecks == MCSpec => []DbCheck
  BY InvAlways, InvChecks, PTL

\* Every package keeps what it was installed for: an accepted version of each
\* library, through every replacement of a shared copy, and its plugins' hosts.
THEOREM NeedsAlwaysMet == MCSpec => []NeedsMet
  <1>1. Inv => NeedsMet
    BY DEF Inv
  <1> QED
    BY <1>1, InvAlways, PTL

\* The disk never holds a file the database forgot, and never lacks one or
\* holds another package's version of one that it records.
THEOREM DiskAlwaysMatches == MCSpec => []DiskMatches
  <1>1. Inv => DiskMatches
    BY DEF Inv
  <1> QED
    BY <1>1, InvAlways, PTL

\* Every plan meets the precondition of the transaction that carries it out.
THEOREM PlansAlwaysExecutable == MCSpec => []EveryPlanExecutable
  <1>1. Inv => PlansExecutable
    <2> SUFFICES ASSUME Inv PROVE PlansExecutable
      OBVIOUS
    <2>1. ASSUME NEW pkg \in Catalogue, NEW force \in BOOLEAN, Installable(pkg, force, TRUE)
          PROVE  LET pn == PlanInstall(pkg, force) IN
                 pn.bk \subseteq DOMAIN disk /\ DOMAIN pn.pl \cap (DOMAIN disk \ pn.bk) = {}
      <3> DEFINE pn == PlanInstall(pkg, force)
                 libs == Released(pkg.id)
      <3>1. \A p : p \in pn.aside =>
                \/ pkg.id \in DOMAIN packages /\ p \in FilesOf(pkg.id, packages[pkg.id])
                \/ \E l \in DOMAIN libs : p = LibPath(l)
        BY PlanIs
      <3>2. /\ pn.clash = (DOMAIN pn.pl \ pn.aside) \cap DOMAIN disk
            /\ pn.bk = pn.aside \cup (IF force THEN pn.clash ELSE {})
        BY PlanIs
      <3>3. pn.clash = {} \/ force
        BY <2>1 DEF Installable, NoConflict
      <3>4. DOMAIN libs = DOMAIN libraries
        BY ReleasedIs
      <3> HIDE DEF pn, libs
      <3>5. pn.aside \subseteq DOMAIN disk
        BY <3>1, <3>4 DEF Inv, DiskMatches
      <3> QED
        BY <3>2, <3>3, <3>5 DEF pn
    <2>2. ASSUME NEW id \in DOMAIN packages
          PROVE  PlanRemove(id).bk \subseteq DOMAIN disk
      <3> DEFINE gone(l) == UsesShared(packages[id], l) /\ libraries[l].required_by \subseteq {id}
      <3>1. \A p : p \in PlanRemove(id).bk <=>
                \/ p \in FilesOf(id, packages[id])
                \/ \E l \in DOMAIN libraries : gone(l) /\ p = LibPath(l)
        BY RemovalIs
      <3> HIDE DEF gone
      <3> QED
        BY <3>1 DEF Inv, DiskMatches
    <2> QED
      BY <2>1, <2>2 DEF PlansExecutable
  <1>2. Inv => EveryPlanExecutable
    BY <1>1 DEF EveryPlanExecutable
  <1> QED
    BY <1>2, InvAlways, PTL

----------------------------------------------------------------------------
(* The bytes of files.  The invariant is one of whole windows: each, as it *)
(* is held in its buffer or else in the tree, matches its file byte by     *)
(* byte and is zero past the end of the file; so a file that grows over    *)
(* the rest of a window finds zeros there.  The same is kept of what the   *)
(* last commit made durable, for the next mount.                           *)

\* The bytes of a window.
Buf == {s \in Seq(Nat) : Len(s) <= WINDOW}

StartOf(key) == key[2] * WINDOW

\* Every byte of a window reads as the byte of the file that is there, and as
\* zero past its end.
Matches(buf, key, bytes) == \A k \in 1 .. WINDOW : F!At(buf, k) = F!At(bytes, StartOf(key) + k)

\* The bytes a window has, buffered or in the tree.
Held(ext, buffered, key) == IF key \in DOMAIN buffered THEN buffered[key] ELSE ext[key]

\* The files there are, and their lengths.
Sized(sizes, bytes) ==
    /\ DOMAIN sizes \subseteq Inos /\ DOMAIN bytes = DOMAIN sizes
    /\ \A i \in DOMAIN sizes :
            bytes[i] \in Seq(Nat) /\ sizes[i] = Len(bytes[i]) /\ sizes[i] <= MaxSize

\* Only windows of files there are get buffered.
Buffers(buffered, sizes) ==
    /\ DOMAIN buffered \subseteq F!Keys
    /\ \A key \in DOMAIN buffered : buffered[key] \in Buf /\ key[1] \in DOMAIN sizes

\* Every window that is not gone matches its file, to its end and past the
\* end of the file.
Reads(sizes, ext, buffered, bytes, gone) ==
    \A key \in F!Keys : key[1] \in DOMAIN sizes /\ key \notin gone =>
        Matches(Held(ext, buffered, key), key, bytes[key[1]])

\* The window kept from the last look is that of the tree.
LastTrue == last.key \in F!Keys => last.bytes = extents[last.key]

\* What a mount would find is what was given up to the last commit.
SyncedTrue ==
    /\ Sized(durable.size, synced.truth)
    /\ durable.extents \in [F!Keys -> Buf]
    /\ Reads(durable.size, durable.extents, F!NoWindows, synced.truth, synced.lost)

FilesInv ==
    /\ Sized(size, truth) /\ extents \in [F!Keys -> Buf] /\ Buffers(windows, size)
    /\ Reads(size, extents, windows, truth, lost)
    /\ dirty_bytes = F!Grown(windows)
    /\ LastTrue /\ SyncedTrue

----------------------------------------------------------------------------
LEMMA KeyType ==
    ASSUME F!FilesConstants, NEW key \in F!Keys
    PROVE  /\ key = <<key[1], key[2]>> /\ key[1] \in Inos /\ key[2] \in Nat
           /\ StartOf(key) \in Nat /\ key # << >>
  <1>1. key \in Inos \X (0 .. (MaxSize - 1) \div WINDOW)
    BY DEF F!Keys
  <1>2. key = <<key[1], key[2]>> /\ key[1] \in Inos /\ key[2] \in Nat
    BY <1>1
  <1>3. key[2] * WINDOW \in Nat
    BY <1>2 DEF F!FilesConstants
  <1>4. key # << >>
    BY <1>1
  <1> QED
    BY <1>2, <1>3, <1>4 DEF StartOf

LEMMA DivBounds ==
    ASSUME F!FilesConstants, NEW a \in Nat
    PROVE  /\ a \div WINDOW \in Nat
           /\ (a \div WINDOW) * WINDOW <= a /\ a < (a \div WINDOW) * WINDOW + WINDOW
           /\ a % WINDOW = a - (a \div WINDOW) * WINDOW
           /\ (a \div WINDOW) * WINDOW \in Nat
  BY DEF F!FilesConstants

LEMMA MulStep ==
    ASSUME F!FilesConstants, NEW v \in Nat, NEW u \in Nat, v < u
    PROVE  v * WINDOW + WINDOW <= u * WINDOW /\ v * WINDOW \in Nat /\ u * WINDOW \in Nat
  <1>1. \A d, m \in Nat : d * m \in Nat
    OBVIOUS
  <1>2. (u - v - 1) * WINDOW \in Nat
    BY <1>1 DEF F!FilesConstants
  <1>3. (u - v - 1) * WINDOW = u * WINDOW - v * WINDOW - WINDOW
    BY DEF F!FilesConstants
  <1> QED
    BY <1>1, <1>2, <1>3 DEF F!FilesConstants

LEMMA CutIs ==
    ASSUME NEW s \in Seq(Nat), NEW n \in Nat
    PROVE  /\ F!Cut(s, n) \in Seq(Nat) /\ Len(F!Cut(s, n)) <= Len(s)
           /\ Len(F!Cut(s, n)) = IF n < Len(s) THEN n ELSE Len(s)
           /\ \A k \in Nat \ {0} : F!At(F!Cut(s, n), k) = IF k <= n THEN F!At(s, k) ELSE 0
  <1>1. CASE n < Len(s)
    <2>1. SubSeq(s, 1, n) \in Seq(Nat) /\ Len(SubSeq(s, 1, n)) = n
          /\ \A k \in 1 .. n : SubSeq(s, 1, n)[k] = s[k]
      BY <1>1
    <2> QED
      BY <1>1, <2>1 DEF F!Cut, F!At
  <1>2. CASE ~(n < Len(s))
    BY <1>2 DEF F!Cut, F!At
  <1> QED
    BY <1>1, <1>2

LEMMA AtType == ASSUME NEW s \in Seq(Nat), NEW k PROVE F!At(s, k) \in Nat
  BY DEF F!At

LEMMA WrittenIs ==
    ASSUME F!FilesConstants, NEW key \in F!Keys, F!window_content(key) \in Buf, NEW offset \in Nat,
           NEW data \in Seq(Nat)
    PROVE  LET new == F!Written(key, offset, data)
           IN  /\ new \in Buf
               /\ \A k \in 1 .. WINDOW : F!At(new, k) =
                    IF StartOf(key) + k - offset \in DOMAIN data
                    THEN data[StartOf(key) + k - offset] ELSE F!At(F!window_content(key), k)
  <1> DEFINE old == F!window_content(key)
             start == StartOf(key)
             end == IF offset + Len(data) < start + WINDOW THEN offset + Len(data) - start ELSE WINDOW
             m == IF end > Len(old) THEN end ELSE Len(old)
             new == F!Written(key, offset, data)
  <1>1. start \in Nat
    BY KeyType
  <1>2. new = [k \in 1 .. m |-> IF start + k - offset \in DOMAIN data
                                THEN data[start + k - offset] ELSE F!At(old, k)]
    BY DEF F!Written, StartOf
  <1>3. old \in Seq(Nat) /\ Len(old) <= WINDOW /\ Len(old) \in Nat /\ WINDOW \in Nat
    BY DEF Buf, F!FilesConstants
  <1> HIDE DEF old, start, new
  <1>4. m \in Nat /\ m <= WINDOW /\ Len(old) <= m
        /\ \A k \in 1 .. WINDOW : start + k - offset \in DOMAIN data => k <= m
    BY <1>1, <1>3
  <1> HIDE DEF m
  <1>5. \A k \in 1 .. m : (IF start + k - offset \in DOMAIN data
                                THEN data[start + k - offset] ELSE F!At(old, k)) \in Nat
    BY <1>3, AtType
  <1>6. new \in Seq(Nat) /\ Len(new) = m /\ DOMAIN new = 1 .. m
    BY <1>2, <1>4, <1>5
  <1>7. ASSUME NEW k \in 1 .. WINDOW
        PROVE  F!At(new, k) = IF start + k - offset \in DOMAIN data
                                THEN data[start + k - offset] ELSE F!At(old, k)
    <2>1. CASE k <= m
      BY <1>2, <1>6, <1>4, <2>1 DEF F!At
    <2>2. CASE ~(k <= m)
      BY <1>3, <1>4, <1>6, <2>2 DEF F!At
    <2> QED
      BY <2>1, <2>2
  <1> QED
    BY <1>4, <1>6, <1>7 DEF Buf, old, start, new

LEMMA PatchedIs ==
    ASSUME NEW bytes \in Seq(Nat), NEW offset \in Nat, NEW data \in Seq(Nat)
    PROVE  LET new == F!Patched(bytes, offset, data)
           IN  /\ new \in Seq(Nat)
               /\ Len(new) = IF offset + Len(data) > Len(bytes) THEN offset + Len(data) ELSE Len(bytes)
               /\ \A k \in Nat \ {0} : F!At(new, k) =
                    IF k - offset \in DOMAIN data THEN data[k - offset] ELSE F!At(bytes, k)
  <1> DEFINE m == IF offset + Len(data) > Len(bytes) THEN offset + Len(data) ELSE Len(bytes)
             new == F!Patched(bytes, offset, data)
  <1>1. new = [k \in 1 .. m |-> IF k - offset \in DOMAIN data THEN data[k - offset] ELSE F!At(bytes, k)]
    BY DEF F!Patched
  <1>2. m \in Nat /\ Len(bytes) <= m /\ offset + Len(data) <= m
    OBVIOUS
  <1>3. m = IF offset + Len(data) > Len(bytes) THEN offset + Len(data) ELSE Len(bytes)
    OBVIOUS
  <1> HIDE DEF m, new
  <1>4. \A k \in 1 .. m : (IF k - offset \in DOMAIN data THEN data[k - offset] ELSE F!At(bytes, k)) \in Nat
    BY AtType
  <1>5. new \in Seq(Nat) /\ Len(new) = m /\ DOMAIN new = 1 .. m
    BY <1>1, <1>2, <1>4
  <1>6. ASSUME NEW k \in Nat \ {0}
        PROVE  F!At(new, k) = IF k - offset \in DOMAIN data THEN data[k - offset] ELSE F!At(bytes, k)
    <2>1. CASE k <= m
      BY <1>1, <1>5, <2>1 DEF F!At
    <2>2. CASE ~(k <= m)
      BY <1>2, <1>5, <2>2 DEF F!At
    <2> QED
      BY <2>1, <2>2
  <1> QED
    BY <1>3, <1>5, <1>6 DEF new

LEMMA StoredIs ==
    ASSUME F!FilesConstants, NEW sizes, NEW buffered, NEW key \in F!Keys,
           buffered[key] \in Buf, sizes[key[1]] \in Nat
    PROVE  /\ F!Stored(sizes, buffered, key) \in Buf
           /\ \A bytes \in Seq(Nat) :
                Len(bytes) = sizes[key[1]] /\ Matches(buffered[key], key, bytes)
                => Matches(F!Stored(sizes, buffered, key), key, bytes)
  <1> DEFINE n == IF sizes[key[1]] > StartOf(key) THEN sizes[key[1]] - StartOf(key) ELSE 0
             buf == F!Cut(buffered[key], n)
             new == F!Stored(sizes, buffered, key)
  <1>1. StartOf(key) \in Nat /\ n \in Nat
    BY KeyType
  <1>2. new = IF F!IsZero(buf) THEN << >> ELSE buf
    BY DEF F!Stored, StartOf
  <1>3. buffered[key] \in Seq(Nat) /\ Len(buffered[key]) <= WINDOW /\ WINDOW \in Nat
    BY DEF Buf, F!FilesConstants
  <1>4. /\ buf \in Seq(Nat) /\ Len(buf) <= Len(buffered[key])
        /\ \A k \in Nat \ {0} : F!At(buf, k) = IF k <= n THEN F!At(buffered[key], k) ELSE 0
    BY <1>1, <1>3, CutIs
  <1>5. n = IF sizes[key[1]] > StartOf(key) THEN sizes[key[1]] - StartOf(key) ELSE 0
    OBVIOUS
  <1> HIDE DEF new, buf, n
  <1>6. new \in Buf
    BY <1>2, <1>3, <1>4 DEF Buf
  <1>7. \A k \in Nat \ {0} : F!At(new, k) = F!At(buf, k)
    BY <1>2 DEF F!At, F!IsZero
  <1>8. ASSUME NEW bytes \in Seq(Nat), Len(bytes) = sizes[key[1]],
               Matches(buffered[key], key, bytes)
        PROVE  Matches(new, key, bytes)
    <2> SUFFICES ASSUME NEW k \in 1 .. WINDOW PROVE F!At(new, k) = F!At(bytes, StartOf(key) + k)
      BY DEF Matches
    <2>1. F!At(buffered[key], k) = F!At(bytes, StartOf(key) + k)
      BY <1>8 DEF Matches
    <2>2. F!At(new, k) = IF k <= n THEN F!At(buffered[key], k) ELSE 0
      BY <1>3, <1>4, <1>7
    <2>3. ~(k <= n) => F!At(bytes, StartOf(key) + k) = 0
      BY <1>1, <1>3, <1>5, <1>8 DEF F!At
    <2> QED
      BY <2>1, <2>2, <2>3
  <1> QED
    BY <1>6, <1>8 DEF new

\* The operators the instance takes from the library are the library's.
LEMMA FilesCardinality == \A S : F!Cardinality(S) = Cardinality(S)
  BY DEF F!Cardinality, Cardinality

LEMMA FilesFinite == \A S : F!IsFiniteSet(S) <=> IsFiniteSet(S)
  BY DEF F!IsFiniteSet, IsFiniteSet

LEMMA CellsIs ==
    ASSUME NEW f PROVE \A c : c \in F!Cells(f) <=>
            \E key \in DOMAIN f : \E k \in DOMAIN f[key] : c = <<key, k>>
  BY DEF F!Cells

LEMMA CellsFinite ==
    ASSUME F!FilesConstants, NEW f, NEW sizes, Buffers(f, sizes)
    PROVE  IsFiniteSet(F!Cells(f))
  <1>1. IsFiniteSet(Inos) /\ WINDOW \in Nat \ {0} /\ MaxSize \in Nat \ {0}
    BY FilesFinite DEF F!FilesConstants
  <1>2. (MaxSize - 1) \div WINDOW \in Int
    BY <1>1
  <1>3. IsFiniteSet(0 .. (MaxSize - 1) \div WINDOW) /\ IsFiniteSet(1 .. WINDOW)
    BY <1>1, <1>2, FS_Interval
  <1>4. IsFiniteSet(F!Keys)
    BY <1>1, <1>3, FS_Product DEF F!Keys
  <1>5. IsFiniteSet(F!Keys \X (1 .. WINDOW))
    BY <1>3, <1>4, FS_Product
  <1>6. F!Cells(f) \subseteq F!Keys \X (1 .. WINDOW)
    <2> SUFFICES ASSUME NEW c \in F!Cells(f) PROVE c \in F!Keys \X (1 .. WINDOW)
      OBVIOUS
    <2>1. PICK key \in DOMAIN f : \E k \in DOMAIN f[key] : c = <<key, k>>
      BY CellsIs
    <2>2. PICK k \in DOMAIN f[key] : c = <<key, k>>
      BY <2>1
    <2>3. key \in F!Keys /\ f[key] \in Seq(Nat) /\ Len(f[key]) <= WINDOW
      BY DEF Buffers, Buf
    <2>4. k \in 1 .. WINDOW
      BY <1>1, <2>3
    <2> QED
      BY <2>2, <2>3, <2>4
  <1> QED
    BY <1>5, <1>6, FS_Subset

\* The bytes of some of the buffers and of the others are those of all.
LEMMA GrownSplit ==
    ASSUME F!FilesConstants, NEW f, NEW sizes, Buffers(f, sizes), NEW A \in SUBSET DOMAIN f
    PROVE  /\ F!Grown(f) = F!Grown(F!Restrict(f, A)) + F!Grown(F!Restrict(f, DOMAIN f \ A))
           /\ F!Grown(F!Restrict(f, A)) \in Nat
           /\ F!Grown(F!Restrict(f, DOMAIN f \ A)) \in Nat
           /\ F!Grown(f) \in Nat
  <1> DEFINE g == F!Restrict(f, A)
             h == F!Restrict(f, DOMAIN f \ A)
  <1>1. DOMAIN g = A /\ (\A key \in A : g[key] = f[key])
        /\ DOMAIN h = DOMAIN f \ A /\ (\A key \in DOMAIN f \ A : h[key] = f[key])
    BY DEF F!Restrict
  <1> HIDE DEF g, h
  <1>2. F!Cells(f) = F!Cells(g) \cup F!Cells(h)
    BY <1>1, CellsIs
  <1>3. F!Cells(g) \cap F!Cells(h) = {}
    BY <1>1, CellsIs
  <1>4. Buffers(g, sizes) /\ Buffers(h, sizes)
    BY <1>1 DEF Buffers
  <1>5. IsFiniteSet(F!Cells(f)) /\ IsFiniteSet(F!Cells(g)) /\ IsFiniteSet(F!Cells(h))
    BY <1>4, CellsFinite
  <1>6. Cardinality(F!Cells(f)) = Cardinality(F!Cells(g)) + Cardinality(F!Cells(h)) - Cardinality({})
    BY <1>2, <1>3, <1>5, FS_Union
  <1>7. Cardinality({}) = 0
    BY FS_EmptySet
  <1>8. Cardinality(F!Cells(g)) \in Nat /\ Cardinality(F!Cells(h)) \in Nat
    BY <1>5, FS_CardinalityType
  <1>9. \A b : F!Grown(b) = Cardinality(F!Cells(b))
    BY FilesCardinality DEF F!Grown
  <1> QED
    BY <1>6, <1>7, <1>8, <1>9 DEF g, h

LEMMA OverBuffers ==
    ASSUME NEW f, NEW g, NEW sizes, Buffers(f, sizes), Buffers(g, sizes)
    PROVE  Buffers(F!Over(f, g), sizes)
  BY DEF F!Over, Buffers

\* Buffers laid over others: the bytes they replace no longer count.
LEMMA OverGrown ==
    ASSUME F!FilesConstants, NEW f, NEW g, NEW sizes, Buffers(f, sizes), Buffers(g, sizes),
           f = [key \in DOMAIN f |-> f[key]]
    PROVE  /\ F!Grown(F!Over(f, g)) = F!Grown(g) - F!Grown(F!Restrict(g, DOMAIN f \cap DOMAIN g)) + F!Grown(f)
           /\ F!Restrict(F!Over(f, g), DOMAIN f) = f
           /\ F!Grown(F!Restrict(g, DOMAIN f \cap DOMAIN g)) \in Nat /\ F!Grown(f) \in Nat
           /\ F!Grown(g) \in Nat
  <1> DEFINE h == F!Over(f, g)
             A == DOMAIN f
             B == DOMAIN f \cap DOMAIN g
  <1>1. DOMAIN h = DOMAIN f \cup DOMAIN g
        /\ \A x \in DOMAIN f \cup DOMAIN g : h[x] = IF x \in DOMAIN f THEN f[x] ELSE g[x]
    BY DEF F!Over
  <1>2. F!Restrict(h, A) = f
    BY <1>1 DEF F!Restrict
  <1>3. F!Restrict(h, DOMAIN h \ A) = F!Restrict(g, DOMAIN g \ B)
    <2> HIDE DEF h
    <2>1. DOMAIN h \ A = DOMAIN g \ B
      BY <1>1
    <2>2. \A x \in DOMAIN g \ B : h[x] = g[x]
      BY <1>1
    <2> QED
      BY <2>1, <2>2 DEF F!Restrict
  <1>4. Buffers(h, sizes)
    BY OverBuffers
  <1> HIDE DEF h
  <1>5. A \in SUBSET DOMAIN h /\ B \in SUBSET DOMAIN g
    BY <1>1
  <1> HIDE DEF A, B
  <1>6. F!Grown(h) = F!Grown(F!Restrict(h, A)) + F!Grown(F!Restrict(h, DOMAIN h \ A))
        /\ F!Grown(F!Restrict(h, A)) \in Nat /\ F!Grown(F!Restrict(h, DOMAIN h \ A)) \in Nat
    BY <1>4, <1>5, GrownSplit
  <1>7. F!Grown(g) = F!Grown(F!Restrict(g, B)) + F!Grown(F!Restrict(g, DOMAIN g \ B))
        /\ F!Grown(F!Restrict(g, B)) \in Nat /\ F!Grown(F!Restrict(g, DOMAIN g \ B)) \in Nat
        /\ F!Grown(g) \in Nat
    BY <1>5, GrownSplit
  <1> QED
    BY <1>2, <1>3, <1>6, <1>7 DEF h, A, B

\* Storing buffered windows: those that are stored match, the others of those
\* buffered are gone.
LEMMA FlushedIs ==
    ASSUME F!FilesConstants, NEW sizes, NEW bytes, NEW buffered, NEW gone,
           Sized(sizes, bytes), Buffers(buffered, sizes), extents \in [F!Keys -> Buf],
           Reads(sizes, extents, buffered, bytes, gone), NEW upto \in SUBSET DOMAIN buffered,
           NEW more, DOMAIN buffered \ upto \subseteq more
    PROVE  LET ext == F!Flushed(sizes, buffered, upto)
           IN  /\ ext \in [F!Keys -> Buf]
               /\ Reads(sizes, ext, F!NoWindows, bytes, gone \cup more)
  <1> DEFINE ext == F!Flushed(sizes, buffered, upto)
  <1>1. ext = [key \in F!Keys |-> IF key \in upto THEN F!Stored(sizes, buffered, key) ELSE extents[key]]
    BY DEF F!Flushed
  <1> HIDE DEF ext
  <1>2. ASSUME NEW key \in upto
        PROVE  /\ key \in F!Keys /\ buffered[key] \in Buf /\ sizes[key[1]] \in Nat
               /\ key[1] \in DOMAIN sizes /\ bytes[key[1]] \in Seq(Nat)
               /\ Len(bytes[key[1]]) = sizes[key[1]]
    BY DEF Buffers, Sized
  <1>3. ASSUME NEW key \in upto PROVE F!Stored(sizes, buffered, key) \in Buf
    BY <1>2, StoredIs
  <1>4. ext \in [F!Keys -> Buf]
    BY <1>1, <1>3
  <1>5. ASSUME NEW key \in F!Keys, key[1] \in DOMAIN sizes, key \notin gone, key \notin more
        PROVE  Matches(ext[key], key, bytes[key[1]])
    <2>1. Matches(Held(extents, buffered, key), key, bytes[key[1]])
      BY <1>5 DEF Reads
    <2>2. CASE key \in upto
      <3>1. Matches(buffered[key], key, bytes[key[1]])
        BY <2>1, <2>2 DEF Held
      <3>2. Matches(F!Stored(sizes, buffered, key), key, bytes[key[1]])
        BY <1>2, <2>2, <3>1, StoredIs
      <3> QED
        BY <1>1, <2>2, <3>2
    <2>3. CASE key \notin upto
      BY <1>1, <1>5, <2>1, <2>3 DEF Held
    <2> QED
      BY <2>2, <2>3
  <1>6. ASSUME NEW key PROVE Held(ext, F!NoWindows, key) = ext[key]
    BY DEF Held, F!NoWindows
  <1>7. Reads(sizes, ext, F!NoWindows, bytes, gone \cup more)
    BY <1>5, <1>6 DEF Reads
  <1> QED
    BY <1>4, <1>7 DEF ext

LEMMA DivMono ==
    ASSUME F!FilesConstants, NEW a \in Nat, NEW b \in Nat, a <= b
    PROVE  a \div WINDOW <= b \div WINDOW
  <1> DEFINE u == a \div WINDOW
             v == b \div WINDOW
  <1>1. u \in Nat /\ v \in Nat /\ u * WINDOW <= a /\ b < v * WINDOW + WINDOW
    BY DivBounds
  <1> SUFFICES ASSUME v < u PROVE FALSE
    BY <1>1
  <1> HIDE DEF u, v
  <1>2. v * WINDOW + WINDOW <= u * WINDOW /\ v * WINDOW \in Nat /\ u * WINDOW \in Nat
    BY <1>1, MulStep
  <1> DEFINE x == u * WINDOW
             y == v * WINDOW
  <1>3. y + WINDOW <= x /\ x \in Nat /\ y \in Nat /\ x <= a /\ b < y + WINDOW /\ WINDOW \in Nat
    BY <1>1, <1>2 DEF F!FilesConstants
  <1> HIDE DEF x, y
  <1> QED
    BY <1>3

\* A byte of a file is in a window it has.
LEMMA KeyOf ==
    ASSUME F!FilesConstants, NEW i \in Inos, NEW a \in Nat, a < MaxSize
    PROVE  <<i, a \div WINDOW>> \in F!Keys
  <1>1. MaxSize - 1 \in Nat /\ a <= MaxSize - 1
    BY DEF F!FilesConstants
  <1>2. a \div WINDOW <= (MaxSize - 1) \div WINDOW /\ a \div WINDOW \in Nat
        /\ (MaxSize - 1) \div WINDOW \in Nat
    BY <1>1, DivMono, DivBounds
  <1>3. a \div WINDOW \in 0 .. (MaxSize - 1) \div WINDOW
    BY <1>2
  <1> QED
    BY <1>3 DEF F!Keys

\* A window the range does not fall on has no byte of it.
LEMMA UntouchedIs ==
    ASSUME F!FilesConstants, NEW key \in F!Keys, NEW offset \in Nat, NEW n \in Nat \ {0},
           key[2] \notin (offset \div WINDOW) .. ((offset + n - 1) \div WINDOW)
    PROVE  \A k \in 1 .. WINDOW : StartOf(key) + k - offset \notin 1 .. n
  <1> DEFINE u == offset \div WINDOW
             v == (offset + n - 1) \div WINDOW
             w1 == key[2]
             start == StartOf(key)
  <1>0. WINDOW \in Nat \ {0} /\ offset + n - 1 \in Nat
    BY DEF F!FilesConstants
  <1>1. u \in Nat /\ u * WINDOW <= offset /\ u * WINDOW \in Nat
    BY DivBounds
  <1>2. v \in Nat /\ offset + n - 1 < v * WINDOW + WINDOW /\ v * WINDOW \in Nat
    BY <1>0, DivBounds
  <1>3. w1 \in Nat /\ start \in Nat /\ start = w1 * WINDOW
    BY KeyType DEF StartOf
  <1>4. w1 < u \/ v < w1
    BY <1>1, <1>2, <1>3
  <1> HIDE DEF u, v, w1, start
  <1>5. CASE w1 < u
    <2>1. start + WINDOW <= u * WINDOW
      BY <1>1, <1>3, <1>5, MulStep
    <2> DEFINE x == u * WINDOW
    <2>2. start + WINDOW <= x /\ x \in Nat /\ x <= offset
      BY <1>1, <2>1
    <2> HIDE DEF x
    <2> QED
      BY <1>0, <1>3, <2>2 DEF start
  <1>6. CASE v < w1
    <2>1. v * WINDOW + WINDOW <= start
      BY <1>2, <1>3, <1>6, MulStep
    <2> DEFINE y == v * WINDOW
    <2>2. y + WINDOW <= start /\ y \in Nat /\ offset + n - 1 < y + WINDOW
      BY <1>2, <2>1
    <2> HIDE DEF y
    <2> QED
      BY <1>0, <1>3, <2>2 DEF start
  <1> QED
    BY <1>4, <1>5, <1>6

\* What is seen of a window is what it holds.
LEMMA ContentIs ==
    ASSUME LastTrue, NEW key \in F!Keys
    PROVE  F!window_content(key) = Held(extents, windows, key)
  BY DEF LastTrue, F!window_content, Held

LEMMA HeldType ==
    ASSUME FilesInv, NEW key \in F!Keys
    PROVE  Held(extents, windows, key) \in Buf
  BY DEF FilesInv, Held, Buffers

LEMMA NoLastIs == ASSUME F!FilesConstants PROVE F!NoLast.key \notin F!Keys
  <1>1. F!NoLast.key = << >>
    BY DEF F!NoLast
  <1> QED
    BY <1>1, KeyType

\* No buffers: nothing is dirty.
LEMMA NoneDirty ==
    ASSUME NEW sizes PROVE Buffers(F!NoWindows, sizes) /\ F!Grown(F!NoWindows) = 0
  <1>1. DOMAIN F!NoWindows = {}
    BY DEF F!NoWindows
  <1>2. F!Cells(F!NoWindows) = {}
    BY <1>1, CellsIs
  <1>3. Cardinality({}) = 0
    BY FS_EmptySet
  <1> QED
    BY <1>1, <1>2, <1>3, FilesCardinality DEF F!Grown, Buffers

\* Writing, before it flushes.
LEMMA WriteBuffers ==
    ASSUME F!FilesConstants, FilesInv, NEW i \in DOMAIN size, NEW offset \in Nat, NEW data \in Writes,
           offset + Len(data) <= MaxSize
    PROVE  LET keys == F!Touched(i, offset, Len(data))
               fresh == [key \in keys |-> F!Written(key, offset, data)]
               buffered == F!Over(fresh, windows)
               end == offset + Len(data)
               sizes == [size EXCEPT ![i] = IF end > size[i] THEN end ELSE size[i]]
               bytes == [truth EXCEPT ![i] = F!Patched(truth[i], offset, data)]
           IN  /\ Sized(sizes, bytes) /\ Buffers(fresh, sizes) /\ Buffers(windows, sizes)
               /\ Reads(sizes, extents, buffered, bytes, lost)
  <1> DEFINE keys == F!Touched(i, offset, Len(data))
             fresh == [key \in keys |-> F!Written(key, offset, data)]
             buffered == F!Over(fresh, windows)
             end == offset + Len(data)
             sizes == [size EXCEPT ![i] = IF end > size[i] THEN end ELSE size[i]]
             new == F!Patched(truth[i], offset, data)
             bytes == [truth EXCEPT ![i] = new]
             n == Len(data)
  <1>1. data \in Seq(Nat) /\ n \in Nat \ {0} /\ WINDOW \in Nat \ {0} /\ MaxSize \in Nat
    BY DEF F!FilesConstants
  <1>2. /\ Sized(size, truth) /\ Buffers(windows, size) /\ i \in Inos
        /\ Reads(size, extents, windows, truth, lost) /\ LastTrue
        /\ truth[i] \in Seq(Nat) /\ size[i] = Len(truth[i]) /\ size[i] <= MaxSize
        /\ DOMAIN truth = DOMAIN size
    BY DEF FilesInv, Sized
  <1>3. /\ new \in Seq(Nat) /\ Len(new) = IF end > size[i] THEN end ELSE size[i]
        /\ \A k \in Nat \ {0} : F!At(new, k) =
                IF k - offset \in DOMAIN data THEN data[k - offset] ELSE F!At(truth[i], k)
    BY <1>1, <1>2, PatchedIs
  <1>4. keys \subseteq F!Keys /\ \A key \in keys : key[1] = i
    <2> SUFFICES ASSUME NEW key \in keys PROVE key \in F!Keys /\ key[1] = i
      OBVIOUS
    <2>0. offset + n - 1 \in Nat /\ offset + n - 1 < MaxSize
      BY <1>1
    <2>1. key[1] = i /\ key = <<i, key[2]>>
          /\ key[2] \in (offset \div WINDOW) .. ((offset + n - 1) \div WINDOW)
      BY DEF F!Touched
    <2>2. <<i, (offset + n - 1) \div WINDOW>> \in F!Keys
      BY <1>2, <2>0, KeyOf
    <2>3. (offset + n - 1) \div WINDOW \in 0 .. (MaxSize - 1) \div WINDOW
      BY <2>2 DEF F!Keys
    <2>4. offset \div WINDOW \in Nat
      BY DivBounds
    <2>5. (MaxSize - 1) \div WINDOW \in Int
      BY <1>1
    <2>6. key[2] \in 0 .. (MaxSize - 1) \div WINDOW
      <3> DEFINE p == offset \div WINDOW
                 q == (offset + n - 1) \div WINDOW
                 r == (MaxSize - 1) \div WINDOW
      <3>1. key[2] \in p .. q /\ q \in 0 .. r /\ p \in Nat /\ r \in Int
        BY <2>1, <2>3, <2>4, <2>5
      <3> HIDE DEF p, q, r
      <3> SUFFICES key[2] \in 0 .. r
        BY DEF r
      <3> QED
        BY <3>1
    <2> QED
      BY <1>2, <2>1, <2>6 DEF F!Keys
  <1>5. \A key \in F!Keys : F!window_content(key) = Held(extents, windows, key)
                           /\ F!window_content(key) \in Buf
    BY <1>2, ContentIs, HeldType
  <1>6. DOMAIN sizes = DOMAIN size /\ DOMAIN bytes = DOMAIN size
        /\ sizes[i] = (IF end > size[i] THEN end ELSE size[i]) /\ bytes[i] = new
        /\ \A j \in DOMAIN size : j # i => sizes[j] = size[j] /\ bytes[j] = truth[j]
    BY <1>2
  <1> HIDE DEF keys, sizes, bytes, new
  <1>7. Sized(sizes, bytes)
    <2> SUFFICES ASSUME NEW j \in DOMAIN size
                 PROVE  bytes[j] \in Seq(Nat) /\ sizes[j] = Len(bytes[j]) /\ sizes[j] <= MaxSize
      BY <1>2, <1>6 DEF Sized
    <2>1. CASE j = i
      BY <1>1, <1>2, <1>3, <1>6, <2>1
    <2>2. CASE j # i
      BY <1>2, <1>6, <2>2 DEF Sized
    <2> QED
      BY <2>1, <2>2
  <1>8. \A key \in keys : fresh[key] = F!Written(key, offset, data) /\ fresh[key] \in Buf
    BY <1>1, <1>4, <1>5, WrittenIs
  <1>9. DOMAIN fresh = keys
    OBVIOUS
  <1> HIDE DEF fresh
  <1>10. Buffers(fresh, sizes)
    BY <1>4, <1>6, <1>8, <1>9 DEF Buffers
  <1>11. Buffers(windows, sizes)
    BY <1>2, <1>6 DEF Buffers
  <1>12. ASSUME NEW key \in F!Keys, key[1] \in DOMAIN sizes, key \notin lost
         PROVE  Matches(Held(extents, buffered, key), key, bytes[key[1]])
    <2>1. Matches(Held(extents, windows, key), key, truth[key[1]])
      BY <1>2, <1>6, <1>12 DEF Reads
    <2>2. CASE key[1] # i
      <3>1. key \notin keys
        BY <1>4, <2>2
      <3>2. Held(extents, buffered, key) = Held(extents, windows, key)
        BY <1>9, <3>1 DEF Held, F!Over
      <3> QED
        BY <1>6, <1>12, <2>1, <2>2, <3>2
    <2>3. StartOf(key) \in Nat
      BY KeyType
    <2>4. CASE key \in keys
      <3>1. Held(extents, buffered, key) = F!Written(key, offset, data) /\ key[1] = i
        BY <1>4, <1>8, <1>9, <2>4 DEF Held, F!Over
      <3>0. \A x \in 1 .. WINDOW : F!At(F!Written(key, offset, data), x) =
                IF StartOf(key) + x - offset \in DOMAIN data
                THEN data[StartOf(key) + x - offset] ELSE F!At(F!window_content(key), x)
        <4>1. F!window_content(key) \in Buf
          BY <1>5
        <4>2. data \in Seq(Nat)
          BY <1>1
        <4> QED
          BY <4>1, <4>2, WrittenIs
      <3> SUFFICES ASSUME NEW k \in 1 .. WINDOW
                   PROVE  F!At(F!Written(key, offset, data), k) = F!At(new, StartOf(key) + k)
        BY <1>6, <3>1 DEF Matches
      <3>2. F!At(F!Written(key, offset, data), k) =
                IF StartOf(key) + k - offset \in DOMAIN data
                THEN data[StartOf(key) + k - offset] ELSE F!At(F!window_content(key), k)
        BY <3>0
      <3>3. F!At(F!window_content(key), k) = F!At(truth[i], StartOf(key) + k)
        BY <1>5, <2>1, <3>1 DEF Matches
      <3>4. StartOf(key) + k \in Nat \ {0}
        BY <1>1, <2>3
      <3>5. F!At(new, StartOf(key) + k) =
                IF StartOf(key) + k - offset \in DOMAIN data
                THEN data[StartOf(key) + k - offset] ELSE F!At(truth[i], StartOf(key) + k)
        <4> DEFINE p == StartOf(key) + k
        <4>1. p \in Nat \ {0}
          BY <3>4
        <4> HIDE DEF p
        <4>2. F!At(new, p) = IF p - offset \in DOMAIN data THEN data[p - offset] ELSE F!At(truth[i], p)
          BY <1>3, <4>1
        <4>3. p = StartOf(key) + k /\ p - offset = StartOf(key) + k - offset
          BY <1>1, <2>3 DEF p
        <4> QED
          BY <4>2, <4>3
      <3> QED
        BY <3>2, <3>3, <3>5
    <2>5. CASE key[1] = i /\ key \notin keys
      <3>1. Held(extents, buffered, key) = Held(extents, windows, key)
        BY <1>9, <2>5 DEF Held, F!Over
      <3>2. key[2] \notin (offset \div WINDOW) .. ((offset + n - 1) \div WINDOW)
        <4>1. key = <<i, key[2]>>
          BY <2>5, KeyType
        <4> QED
          BY <2>5, <4>1 DEF F!Touched, keys
      <3>3. \A k \in 1 .. WINDOW : StartOf(key) + k - offset \notin 1 .. n
        BY <1>1, <3>2, UntouchedIs
      <3>4. ASSUME NEW k \in 1 .. WINDOW
            PROVE  F!At(new, StartOf(key) + k) = F!At(truth[i], StartOf(key) + k)
        <4>1. StartOf(key) + k \in Nat \ {0}
          BY <1>1, <2>3
        <4>2. DOMAIN data = 1 .. n
          BY <1>1
        <4>3. F!At(new, StartOf(key) + k) =
                IF StartOf(key) + k - offset \in DOMAIN data
                THEN data[StartOf(key) + k - offset] ELSE F!At(truth[i], StartOf(key) + k)
          <5> DEFINE p == StartOf(key) + k
          <5>1. p \in Nat \ {0}
            BY <4>1
          <5> HIDE DEF p
          <5>2. F!At(new, p) = IF p - offset \in DOMAIN data THEN data[p - offset] ELSE F!At(truth[i], p)
            BY <1>3, <5>1
          <5>3. p = StartOf(key) + k /\ p - offset = StartOf(key) + k - offset
            BY <1>1, <2>3 DEF p
          <5> QED
            BY <5>2, <5>3
        <4>4. StartOf(key) + k - offset \notin DOMAIN data
          BY <3>3, <4>2
        <4> QED
          BY <4>3, <4>4, Zenon
      <3> QED
        BY <1>6, <2>1, <2>5, <3>1, <3>4 DEF Matches
    <2> QED
      BY <2>2, <2>4, <2>5
  <1>13. Reads(sizes, extents, buffered, bytes, lost)
    BY <1>12 DEF Reads
  <1> QED
    BY <1>7, <1>10, <1>11, <1>13 DEF keys, sizes, bytes, new, fresh

LEMMA PrefixIs ==
    ASSUME NEW buffered, NEW upto \in F!Prefixes(buffered)
    PROVE  upto \in SUBSET DOMAIN buffered
  BY DEF F!Prefixes

LEMMA WriteKeeps ==
    ASSUME F!FilesConstants, FilesInv, NEW i \in DOMAIN size, NEW offset \in 0 .. MaxSize - 1,
           NEW data \in Writes, offset + Len(data) <= MaxSize, F!Write(i, offset, data)
    PROVE  FilesInv'
  <1> DEFINE keys == F!Touched(i, offset, Len(data))
             fresh == [key \in keys |-> F!Written(key, offset, data)]
             buffered == F!Over(fresh, windows)
             before == F!Grown(F!Restrict(windows, keys \cap DOMAIN windows))
             dirty == dirty_bytes + F!Grown(F!Restrict(buffered, keys)) - before
             end == offset + Len(data)
             sizes == [size EXCEPT ![i] = IF end > size[i] THEN end ELSE size[i]]
             bytes == [truth EXCEPT ![i] = F!Patched(truth[i], offset, data)]
  <1>0. offset \in Nat
    OBVIOUS
  <1>1. /\ size' = sizes /\ truth' = bytes /\ last' = F!NoLast /\ UNCHANGED <<durable, synced>>
        /\ \/ windows' = buffered /\ dirty_bytes' = dirty /\ UNCHANGED <<extents, lost>>
           \/ /\ F!Emptied
              /\ \/ extents' = F!Flushed(sizes, buffered, DOMAIN buffered) /\ lost' = lost
                 \/ \E upto \in F!Prefixes(buffered) :
                        /\ extents' = F!Flushed(sizes, buffered, upto)
                        /\ lost' = lost \cup (DOMAIN buffered \ upto)
    BY DEF F!Write
  <1>2. /\ Sized(sizes, bytes) /\ Buffers(fresh, sizes) /\ Buffers(windows, sizes)
        /\ Reads(sizes, extents, buffered, bytes, lost)
    BY <1>0, WriteBuffers
  <1>3. Buffers(buffered, sizes)
    BY <1>2, OverBuffers
  <1>4. extents \in [F!Keys -> Buf] /\ dirty_bytes = F!Grown(windows) /\ SyncedTrue
    BY DEF FilesInv
  <1>5. fresh = [key \in DOMAIN fresh |-> fresh[key]] /\ DOMAIN fresh = keys
    OBVIOUS
  <1>6. dirty = F!Grown(buffered)
    <2> HIDE DEF fresh, keys
    <2>1. /\ F!Grown(buffered) = F!Grown(windows) - before + F!Grown(fresh)
          /\ F!Restrict(buffered, keys) = fresh
          /\ before \in Nat /\ F!Grown(fresh) \in Nat /\ F!Grown(windows) \in Nat
      BY <1>2, <1>5, OverGrown
    <2> HIDE DEF before, buffered
    <2> QED
      BY <1>4, <2>1
  <1>7. LastTrue'
    BY <1>1, NoLastIs DEF LastTrue
  <1>8. SyncedTrue'
    BY <1>1, <1>4 DEF SyncedTrue
  <1> HIDE DEF fresh, keys, sizes, bytes, buffered, dirty
  <1>9. CASE windows' = buffered /\ dirty_bytes' = dirty /\ UNCHANGED <<extents, lost>>
    BY <1>1, <1>2, <1>3, <1>4, <1>6, <1>7, <1>8, <1>9 DEF FilesInv
  <1>10. ASSUME F!Emptied, NEW upto \in SUBSET DOMAIN buffered, NEW more,
                DOMAIN buffered \ upto \subseteq more,
                extents' = F!Flushed(sizes, buffered, upto), lost' = lost \cup more
         PROVE  FilesInv'
    <2>1. extents' \in [F!Keys -> Buf] /\ Reads(sizes, extents', F!NoWindows, bytes, lost')
      BY <1>2, <1>3, <1>4, <1>10, FlushedIs
    <2>2. windows' = F!NoWindows /\ dirty_bytes' = 0
      BY <1>10 DEF F!Emptied
    <2>3. Buffers(F!NoWindows, sizes) /\ F!Grown(F!NoWindows) = 0
      BY NoneDirty
    <2> QED
      BY <1>1, <1>2, <1>7, <1>8, <2>1, <2>2, <2>3 DEF FilesInv
  <1>11. CASE F!Emptied /\ extents' = F!Flushed(sizes, buffered, DOMAIN buffered) /\ lost' = lost
    <2>1. lost' = lost \cup {}
      BY <1>11
    <2> QED
      BY <1>10, <1>11, <2>1
  <1>12. CASE F!Emptied /\ \E upto \in F!Prefixes(buffered) :
                        /\ extents' = F!Flushed(sizes, buffered, upto)
                        /\ lost' = lost \cup (DOMAIN buffered \ upto)
    BY <1>10, <1>12, PrefixIs
  <1> QED
    BY <1>1, <1>9, <1>11, <1>12

LEMMA ReadKeeps ==
    ASSUME F!FilesConstants, FilesInv, NEW key \in F!Keys, F!Read(key)
    PROVE  FilesInv'
  <1>1. UNCHANGED <<size, extents, windows, dirty_bytes, durable, truth, lost, synced>>
        /\ last' = F!Looked(key)
    BY DEF F!Read
  <1>2. last' = last \/ (key \notin DOMAIN windows
                         /\ last' = [key |-> key, bytes |-> F!window_content(key)])
    BY <1>1 DEF F!Looked
  <1>3. F!window_content(key) = Held(extents, windows, key)
    BY ContentIs DEF FilesInv
  <1>4. LastTrue'
    BY <1>1, <1>2, <1>3 DEF LastTrue, Held, FilesInv
  <1> QED
    BY <1>1, <1>4 DEF FilesInv, SyncedTrue

LEMMA LengthenKeeps ==
    ASSUME F!FilesConstants, FilesInv, NEW i \in DOMAIN size, NEW n \in 0 .. MaxSize,
           F!Lengthen(i, n)
    PROVE  FilesInv'
  <1> DEFINE new == [k \in 1 .. n |-> F!At(truth[i], k)]
  <1>1. /\ size' = [size EXCEPT ![i] = n] /\ truth' = [truth EXCEPT ![i] = new]
        /\ last' = F!NoLast /\ n >= size[i]
        /\ UNCHANGED <<extents, windows, dirty_bytes, durable, lost, synced>>
    BY DEF F!Lengthen
  <1>2. /\ Sized(size, truth) /\ DOMAIN truth = DOMAIN size /\ truth[i] \in Seq(Nat)
        /\ size[i] = Len(truth[i]) /\ n \in Nat /\ n <= MaxSize
    BY DEF FilesInv, Sized, F!FilesConstants
  <1>3. \A k \in 1 .. n : F!At(truth[i], k) \in Nat
    BY <1>2, AtType
  <1>4. new \in Seq(Nat) /\ Len(new) = n /\ DOMAIN new = 1 .. n
    BY <1>2, <1>3
  <1>5. \A k \in Nat \ {0} : F!At(new, k) = F!At(truth[i], k)
    BY <1>1, <1>2, <1>4 DEF F!At
  <1> HIDE DEF new
  <1>6. /\ DOMAIN size' = DOMAIN size /\ DOMAIN truth' = DOMAIN size
        /\ size'[i] = n /\ truth'[i] = new
        /\ \A j \in DOMAIN size : j # i => size'[j] = size[j] /\ truth'[j] = truth[j]
    BY <1>1, <1>2
  <1>7. Sized(size', truth')
    BY <1>2, <1>4, <1>6 DEF Sized
  <1>8. Reads(size', extents, windows, truth', lost)
    <2> SUFFICES ASSUME NEW key \in F!Keys, key[1] \in DOMAIN size, key \notin lost
                 PROVE  Matches(Held(extents, windows, key), key, truth'[key[1]])
      BY <1>6 DEF Reads
    <2>1. Matches(Held(extents, windows, key), key, truth[key[1]])
      BY DEF FilesInv, Reads
    <2>2. StartOf(key) \in Nat /\ WINDOW \in Nat
      BY KeyType DEF F!FilesConstants
    <2>3. \A k \in 1 .. WINDOW : StartOf(key) + k \in Nat \ {0}
      BY <2>2
    <2> QED
      BY <1>5, <1>6, <2>1, <2>3 DEF Matches
  <1>9. Buffers(windows, size')
    BY <1>6 DEF FilesInv, Buffers
  <1>10. LastTrue'
    BY <1>1, NoLastIs DEF LastTrue
  <1> QED
    BY <1>1, <1>7, <1>8, <1>9, <1>10 DEF FilesInv, SyncedTrue

\* Where the windows past the end of a file begin.
LEMMA CeilIs ==
    ASSUME F!FilesConstants, NEW n \in Nat, NEW v \in Nat
    PROVE  LET f == (n + WINDOW - 1) \div WINDOW
               q == n \div WINDOW
           IN  /\ f \in Nat
               /\ v >= f => n <= v * WINDOW
               /\ v < f /\ (n % WINDOW = 0 \/ v # q) => v * WINDOW + WINDOW <= n
               /\ v < f => v * WINDOW < n
               /\ v = q /\ n % WINDOW # 0 => v < f
  <1> DEFINE f == (n + WINDOW - 1) \div WINDOW
             q == n \div WINDOW
             r == n % WINDOW
             fw == f * WINDOW
             qw == q * WINDOW
             vw == v * WINDOW
  <1>0. WINDOW \in Nat \ {0} /\ n + WINDOW - 1 \in Nat
    BY DEF F!FilesConstants
  <1>1. f \in Nat /\ fw \in Nat /\ fw <= n + WINDOW - 1 /\ n + WINDOW - 1 < fw + WINDOW
    BY <1>0, DivBounds
  <1>2. q \in Nat /\ qw \in Nat /\ qw <= n /\ n < qw + WINDOW /\ r = n - qw
    BY DivBounds
  <1>3. vw \in Nat
    BY <1>0
  <1> HIDE DEF f, q, r
  <1>4. /\ v < f => vw + WINDOW <= fw
        /\ f < v => fw + WINDOW <= vw
        /\ v < q => vw + WINDOW <= qw
        /\ q < v => qw + WINDOW <= vw
    BY <1>1, <1>2, MulStep
  <1>5. (v = f => vw = fw) /\ (v = q => vw = qw)
    OBVIOUS
  <1> HIDE DEF fw, qw, vw
  <1>6. v >= f => n <= vw
    BY <1>0, <1>1, <1>3, <1>4, <1>5
  <1>7. v < f => vw < n
    BY <1>0, <1>1, <1>3, <1>4
  <1>8. v < f /\ (r = 0 \/ v # q) => vw + WINDOW <= n
    BY <1>0, <1>2, <1>3, <1>4, <1>5, <1>7
  <1>9. v = q /\ r # 0 => v < f
    BY <1>1, <1>2, <1>5, <1>6
  <1> QED
    BY <1>1, <1>6, <1>7, <1>8, <1>9 DEF f, q, r, vw

LEMMA ShortenKeeps ==
    ASSUME F!FilesConstants, FilesInv, NEW i \in DOMAIN size, NEW n \in 0 .. MaxSize,
           F!Shorten(i, n)
    PROVE  FilesInv'
  <1> DEFINE first_gone == (n + WINDOW - 1) \div WINDOW
             gone == F!Dropped(i, first_gone)
             kept == F!Restrict(windows, DOMAIN windows \ gone)
             part == F!Partial(i, n)
             new == F!Cut(truth[i], n)
             q == n \div WINDOW
             edge == <<i, q>>
  <1>1. /\ n < size[i] /\ size' = [size EXCEPT ![i] = n] /\ truth' = [truth EXCEPT ![i] = new]
        /\ extents' = [key \in F!Keys |->
                IF key[1] = i /\ key[2] >= first_gone THEN << >> ELSE extents[key]]
        /\ windows' = F!Over(part, kept)
        /\ dirty_bytes' = dirty_bytes - F!Grown(F!Restrict(windows, gone)) + F!Grown(part)
                          - F!Grown(F!Restrict(kept, DOMAIN part \cap DOMAIN kept))
        /\ last' = IF \E key \in DOMAIN part : key \notin DOMAIN windows /\ extents[key] # << >>
                   THEN [key |-> edge, bytes |-> extents[edge]]
                   ELSE F!NoLast
        /\ lost' = {key \in lost : key[1] # i \/ key[2] < first_gone}
        /\ UNCHANGED <<durable, synced>>
    BY DEF F!Shorten
  <1>2. /\ Sized(size, truth) /\ DOMAIN truth = DOMAIN size /\ truth[i] \in Seq(Nat)
        /\ size[i] = Len(truth[i]) /\ size[i] <= MaxSize /\ n \in Nat /\ n <= MaxSize /\ i \in Inos
        /\ WINDOW \in Nat \ {0} /\ MaxSize \in Nat
    BY DEF FilesInv, Sized, F!FilesConstants
  <1>3. /\ extents \in [F!Keys -> Buf] /\ Buffers(windows, size)
        /\ Reads(size, extents, windows, truth, lost)
        /\ dirty_bytes = F!Grown(windows) /\ SyncedTrue
    BY DEF FilesInv
  <1>4. /\ new \in Seq(Nat) /\ Len(new) = n
        /\ \A k \in Nat \ {0} : F!At(new, k) = IF k <= n THEN F!At(truth[i], k) ELSE 0
    <2>1. n < Len(truth[i])
      BY <1>1, <1>2
    <2> QED
      BY <1>2, <2>1, CutIs
  <1>5. edge \in F!Keys /\ edge[1] = i /\ edge[2] = q /\ q \in Nat /\ n % WINDOW = n - q * WINDOW
        /\ n % WINDOW \in Nat
    <2>1. n < MaxSize
      BY <1>1, <1>2
    <2>2. edge \in F!Keys /\ edge[1] = i /\ edge[2] = q
      BY <1>2, <2>1, KeyOf
    <2>3. q \in Nat /\ n % WINDOW = n - q * WINDOW
      BY <1>2, DivBounds
    <2>4. n % WINDOW \in Nat
      BY <1>2
    <2> QED
      BY <2>2, <2>3, <2>4
  <1>6. /\ DOMAIN part = IF n % WINDOW = 0 THEN {} ELSE {edge}
        /\ \A key \in DOMAIN part : part[key] = F!Cut(Held(extents, windows, key), n % WINDOW)
        /\ part = [key \in DOMAIN part |-> part[key]]
    BY DEF F!Partial, Held
  <1>7. gone = {key \in DOMAIN windows : key[1] = i /\ key[2] >= first_gone}
    BY DEF F!Dropped
  <1>8. first_gone \in Nat
    BY <1>2, CeilIs
  <1> HIDE DEF part, new, gone, first_gone, edge
  <1>9. DOMAIN kept = DOMAIN windows \ gone /\ \A key \in DOMAIN kept : kept[key] = windows[key]
    BY DEF F!Restrict
  <1> HIDE DEF kept
  <1>10. /\ DOMAIN size' = DOMAIN size /\ DOMAIN truth' = DOMAIN size
         /\ size'[i] = n /\ truth'[i] = new
         /\ \A j \in DOMAIN size : j # i => size'[j] = size[j] /\ truth'[j] = truth[j]
    BY <1>1, <1>2
  <1>11. Sized(size', truth')
    BY <1>2, <1>4, <1>10 DEF Sized
  <1>12. extents' \in [F!Keys -> Buf]
    <2>1. << >> \in Buf
      BY <1>2 DEF Buf
    <2> QED
      BY <1>1, <1>3, <2>1
  <1>13. Buffers(part, size')
    <2> SUFFICES ASSUME NEW key \in DOMAIN part
                 PROVE  key = edge /\ part[key] \in Buf
      BY <1>5, <1>10 DEF Buffers
    <2>1. key = edge
      BY <1>6
    <2>2. Held(extents, windows, key) \in Buf
      BY <1>5, <2>1, HeldType
    <2>3. Held(extents, windows, key) \in Seq(Nat) /\ Len(Held(extents, windows, key)) <= WINDOW
      BY <2>2 DEF Buf
    <2>4. part[key] \in Seq(Nat) /\ Len(part[key]) <= Len(Held(extents, windows, key))
      BY <1>5, <1>6, <2>3, CutIs
    <2> QED
      BY <1>2, <2>1, <2>3, <2>4 DEF Buf
  <1>14. Buffers(kept, size')
    BY <1>3, <1>9, <1>10 DEF Buffers
  <1>15. Buffers(windows', size')
    BY <1>1, <1>13, <1>14, OverBuffers
  <1>16. dirty_bytes' = F!Grown(windows')
    <2>1. gone \in SUBSET DOMAIN windows
      BY <1>7
    <2>2. /\ F!Grown(windows) = F!Grown(F!Restrict(windows, gone)) + F!Grown(kept)
          /\ F!Grown(F!Restrict(windows, gone)) \in Nat /\ F!Grown(kept) \in Nat
      BY <1>3, <2>1, GrownSplit DEF kept
    <2>3. /\ F!Grown(F!Over(part, kept)) = F!Grown(kept)
                - F!Grown(F!Restrict(kept, DOMAIN part \cap DOMAIN kept)) + F!Grown(part)
          /\ F!Grown(F!Restrict(kept, DOMAIN part \cap DOMAIN kept)) \in Nat
          /\ F!Grown(part) \in Nat
      BY <1>6, <1>13, <1>14, OverGrown
    <2> QED
      BY <1>1, <1>3, <2>2, <2>3
  <1>17. ASSUME NEW key \in F!Keys, key[1] \in DOMAIN size, key \notin lost'
         PROVE  Matches(Held(extents', windows', key), key, truth'[key[1]])
    <2>0. key = <<key[1], key[2]>> /\ key[2] \in Nat /\ StartOf(key) \in Nat
          /\ StartOf(key) = key[2] * WINDOW
      BY KeyType DEF StartOf
    <2>1. /\ DOMAIN windows' = DOMAIN part \cup DOMAIN kept
          /\ \A x \in DOMAIN windows' : windows'[x] = IF x \in DOMAIN part THEN part[x] ELSE kept[x]
      BY <1>1 DEF F!Over
    <2>2. extents'[key] = IF key[1] = i /\ key[2] >= first_gone THEN << >> ELSE extents[key]
      BY <1>1
    <2>3. key \in DOMAIN part <=> n % WINDOW # 0 /\ key = edge
      BY <1>6
    <2>4. key \in DOMAIN kept <=> key \in DOMAIN windows /\ ~(key[1] = i /\ key[2] >= first_gone)
      BY <1>7, <1>9
    <2>5. CASE key[1] = i /\ key[2] >= first_gone
      <3>1. key \notin DOMAIN part
        <4>1. n % WINDOW # 0 => q < first_gone
          BY <1>2, <1>5, CeilIs DEF first_gone
        <4> QED
          BY <1>5, <1>8, <2>0, <2>3, <2>5, <4>1
      <3>2. Held(extents', windows', key) = << >>
        BY <2>1, <2>2, <2>4, <2>5, <3>1 DEF Held
      <3>3. n <= StartOf(key)
        BY <1>2, <2>0, <2>5, CeilIs DEF first_gone
      <3> SUFFICES ASSUME NEW k \in 1 .. WINDOW PROVE F!At(<< >>, k) = F!At(new, StartOf(key) + k)
        BY <1>10, <2>5, <3>2 DEF Matches
      <3>4. F!At(<< >>, k) = 0
        BY DEF F!At
      <3>5. StartOf(key) + k \in Nat \ {0} /\ ~(StartOf(key) + k <= n)
        BY <1>2, <2>0, <3>3
      <3> QED
        BY <1>4, <3>4, <3>5
    <2>6. CASE ~(key[1] = i /\ key[2] >= first_gone)
      <3>1. key \notin lost
        BY <1>1, <1>8, <1>17, <2>0, <2>6
      <3>2. Matches(Held(extents, windows, key), key, truth[key[1]])
        BY <1>3, <1>17, <3>1 DEF Reads
      <3>3. CASE key \in DOMAIN part
        <4>1. key = edge /\ n % WINDOW # 0 /\ key[1] = i /\ key[2] = q
          BY <1>5, <2>3, <3>3
        <4>2. Held(extents', windows', key) = F!Cut(Held(extents, windows, key), n % WINDOW)
          BY <1>6, <2>1, <3>3 DEF Held
        <4>3. Held(extents, windows, key) \in Seq(Nat)
          BY HeldType DEF Buf
        <4>4. n % WINDOW = n - StartOf(key)
          BY <1>5, <2>0, <4>1
        <4> SUFFICES ASSUME NEW k \in 1 .. WINDOW
                     PROVE  F!At(F!Cut(Held(extents, windows, key), n % WINDOW), k)
                            = F!At(new, StartOf(key) + k)
          BY <1>10, <4>1, <4>2 DEF Matches
        <4>5. k \in Nat \ {0} /\ StartOf(key) + k \in Nat \ {0}
          BY <1>2, <2>0
        <4>6. F!At(F!Cut(Held(extents, windows, key), n % WINDOW), k)
              = IF k <= n % WINDOW THEN F!At(Held(extents, windows, key), k) ELSE 0
          BY <1>5, <4>3, <4>5, CutIs
        <4>7. k <= n % WINDOW <=> StartOf(key) + k <= n
          BY <1>2, <2>0, <4>4, <4>5
        <4>8. F!At(Held(extents, windows, key), k) = F!At(truth[i], StartOf(key) + k)
          BY <3>2, <4>1 DEF Matches
        <4>9. F!At(new, StartOf(key) + k) =
                IF StartOf(key) + k <= n THEN F!At(truth[i], StartOf(key) + k) ELSE 0
          BY <1>4, <4>5
        <4> QED
          BY <4>6, <4>7, <4>8, <4>9
      <3>4. CASE key \notin DOMAIN part
        <4>1. Held(extents', windows', key) = Held(extents, windows, key)
          BY <1>9, <2>1, <2>2, <2>4, <2>6, <3>4 DEF Held
        <4>2. CASE key[1] # i
          BY <1>10, <1>17, <3>2, <4>1, <4>2
        <4>3. CASE key[1] = i
          <5>1. n % WINDOW = 0 \/ key[2] # q
            BY <2>0, <2>3, <3>4, <4>3 DEF edge
          <5>2. StartOf(key) + WINDOW <= n
            BY <1>2, <1>8, <2>0, <2>6, <4>3, <5>1, CeilIs DEF first_gone
          <5>3. ASSUME NEW k \in 1 .. WINDOW
                PROVE  F!At(new, StartOf(key) + k) = F!At(truth[i], StartOf(key) + k)
            <6>1. StartOf(key) + k \in Nat \ {0} /\ StartOf(key) + k <= n
              BY <1>2, <2>0, <5>2
            <6> QED
              BY <1>4, <6>1
          <5> QED
            BY <1>10, <3>2, <4>1, <4>3, <5>3 DEF Matches
        <4> QED
          BY <4>2, <4>3
      <3> QED
        BY <3>3, <3>4
    <2> QED
      BY <2>5, <2>6
  <1>18. Reads(size', extents', windows', truth', lost')
    BY <1>10, <1>17 DEF Reads
  <1>19. LastTrue'
    <2>1. CASE last' = F!NoLast
      BY <2>1, NoLastIs DEF LastTrue
    <2>2. CASE last' # F!NoLast
      <3>1. last' = [key |-> edge, bytes |-> extents[edge]] /\ n % WINDOW # 0
        BY <1>1, <1>6, <2>2
      <3>2. q < first_gone
        BY <1>2, <1>5, <3>1, CeilIs DEF first_gone
      <3>3. extents'[edge] = extents[edge]
        BY <1>1, <1>5, <1>8, <3>2
      <3> QED
        BY <3>1, <3>3 DEF LastTrue
    <2> QED
      BY <2>1, <2>2
  <1>20. SyncedTrue'
    BY <1>1, <1>3 DEF SyncedTrue
  <1> QED
    BY <1>11, <1>12, <1>15, <1>16, <1>18, <1>19, <1>20 DEF FilesInv

LEMMA DestroyKeeps ==
    ASSUME F!FilesConstants, FilesInv, NEW i \in DOMAIN size, F!Destroy(i)
    PROVE  FilesInv'
  <1> DEFINE gone == F!Dropped(i, 0)
  <1>1. /\ size' = F!Restrict(size, DOMAIN size \ {i})
        /\ truth' = F!Restrict(truth, DOMAIN truth \ {i})
        /\ extents' = [key \in F!Keys |-> IF key[1] = i THEN << >> ELSE extents[key]]
        /\ windows' = F!Restrict(windows, DOMAIN windows \ gone)
        /\ dirty_bytes' = dirty_bytes - F!Grown(F!Restrict(windows, gone))
        /\ last' = F!NoLast /\ lost' = {key \in lost : key[1] # i}
        /\ UNCHANGED <<durable, synced>>
    BY DEF F!Destroy
  <1>2. /\ Sized(size, truth) /\ extents \in [F!Keys -> Buf] /\ Buffers(windows, size)
        /\ Reads(size, extents, windows, truth, lost)
        /\ dirty_bytes = F!Grown(windows) /\ SyncedTrue
    BY DEF FilesInv
  <1>3. gone \in SUBSET DOMAIN windows
        /\ \A key \in F!Keys : key \in gone <=> key \in DOMAIN windows /\ key[1] = i
    <2>1. \A key \in F!Keys : key[2] \in Nat
      BY KeyType
    <2> QED
      BY <2>1 DEF F!Dropped
  <1> HIDE DEF gone
  <1>4. /\ DOMAIN size' = DOMAIN size \ {i} /\ DOMAIN truth' = DOMAIN size \ {i}
        /\ \A j \in DOMAIN size \ {i} : size'[j] = size[j] /\ truth'[j] = truth[j]
    BY <1>1, <1>2 DEF F!Restrict, Sized
  <1>5. /\ DOMAIN windows' = DOMAIN windows \ gone
        /\ \A key \in DOMAIN windows' : windows'[key] = windows[key]
    BY <1>1 DEF F!Restrict
  <1>6. Sized(size', truth')
    BY <1>2, <1>4 DEF Sized
  <1>7. extents' \in [F!Keys -> Buf]
    <2>1. << >> \in Buf
      BY DEF Buf, F!FilesConstants
    <2> QED
      BY <1>1, <1>2, <2>1
  <1>8. Buffers(windows', size')
    BY <1>2, <1>3, <1>4, <1>5 DEF Buffers
  <1>9. Reads(size', extents', windows', truth', lost')
    <2> SUFFICES ASSUME NEW key \in F!Keys, key[1] \in DOMAIN size', key \notin lost'
                 PROVE  Matches(Held(extents', windows', key), key, truth'[key[1]])
      BY DEF Reads
    <2>1. key[1] \in DOMAIN size /\ key[1] # i /\ key \notin lost
      BY <1>1, <1>4
    <2>2. Held(extents', windows', key) = Held(extents, windows, key)
      BY <1>1, <1>3, <1>5, <2>1 DEF Held
    <2> QED
      BY <1>2, <1>4, <2>1, <2>2 DEF Reads
  <1>10. dirty_bytes' = F!Grown(windows')
    <2>1. /\ F!Grown(windows) = F!Grown(F!Restrict(windows, gone)) + F!Grown(windows')
          /\ F!Grown(F!Restrict(windows, gone)) \in Nat /\ F!Grown(windows') \in Nat
      BY <1>1, <1>2, <1>3, GrownSplit
    <2> QED
      BY <1>1, <1>2, <2>1
  <1>11. LastTrue'
    BY <1>1, NoLastIs DEF LastTrue
  <1>12. SyncedTrue'
    BY <1>1, <1>2 DEF SyncedTrue
  <1> QED
    BY <1>6, <1>7, <1>8, <1>9, <1>10, <1>11, <1>12 DEF FilesInv

LEMMA CommitKeeps ==
    ASSUME F!FilesConstants, FilesInv, F!Commit
    PROVE  FilesInv'
  <1>1. /\ Sized(size, truth) /\ extents \in [F!Keys -> Buf] /\ Buffers(windows, size)
        /\ Reads(size, extents, windows, truth, lost) /\ LastTrue /\ SyncedTrue
    BY DEF FilesInv
  <1>2. /\ windows' = F!NoWindows /\ dirty_bytes' = 0 /\ UNCHANGED <<size, truth>>
        /\ last' = IF DOMAIN windows = {} THEN last ELSE F!NoLast
    BY DEF F!Commit, F!Emptied
  <1>3. PICK upto, more :
            /\ upto \in SUBSET DOMAIN windows /\ DOMAIN windows \ upto \subseteq more
            /\ extents' = F!Flushed(size, windows, upto) /\ lost' = lost \cup more
            /\ \/ UNCHANGED <<durable, synced>>
               \/ /\ durable' = [size |-> size, extents |-> extents']
                  /\ synced' = [truth |-> truth, lost |-> lost] /\ more = {}
    <2>1. CASE extents' = F!Flushed(size, windows, DOMAIN windows) /\ lost' = lost
               /\ \/ UNCHANGED <<durable, synced>>
                  \/ /\ durable' = [size |-> size, extents |-> extents']
                     /\ synced' = [truth |-> truth, lost |-> lost]
      <3>1. lost' = lost \cup {}
        BY <2>1
      <3> WITNESS DOMAIN windows, {}
      <3> QED
        BY <2>1, <3>1
    <2>2. CASE \E upto \in F!Prefixes(windows) :
            /\ extents' = F!Flushed(size, windows, upto)
            /\ lost' = lost \cup (DOMAIN windows \ upto) /\ UNCHANGED <<durable, synced>>
      <3>1. PICK upto \in F!Prefixes(windows) :
            /\ extents' = F!Flushed(size, windows, upto)
            /\ lost' = lost \cup (DOMAIN windows \ upto) /\ UNCHANGED <<durable, synced>>
        BY <2>2
      <3>2. upto \in SUBSET DOMAIN windows
        BY PrefixIs
      <3> WITNESS upto, DOMAIN windows \ upto
      <3> QED
        BY <3>1, <3>2
    <2> QED
      BY <2>1, <2>2 DEF F!Commit
  <1>4. extents' \in [F!Keys -> Buf] /\ Reads(size, extents', F!NoWindows, truth, lost')
    BY <1>1, <1>3, FlushedIs
  <1>5. Buffers(F!NoWindows, size) /\ F!Grown(F!NoWindows) = 0
    BY NoneDirty
  <1>6. LastTrue'
    <2>1. CASE DOMAIN windows = {}
      <3>1. \A key \in F!Keys : extents'[key] = extents[key]
        BY <1>3, <2>1 DEF F!Flushed
      <3> QED
        BY <1>1, <1>2, <2>1, <3>1 DEF LastTrue
    <2>2. CASE DOMAIN windows # {}
      BY <1>2, <2>2, NoLastIs DEF LastTrue
    <2> QED
      BY <2>1, <2>2
  <1>7. SyncedTrue'
    <2>1. CASE UNCHANGED <<durable, synced>>
      BY <1>1, <2>1 DEF SyncedTrue
    <2>2. CASE /\ durable' = [size |-> size, extents |-> extents']
               /\ synced' = [truth |-> truth, lost |-> lost] /\ lost' = lost
      BY <1>1, <1>4, <2>2 DEF SyncedTrue
    <2>3. \A rest : rest = {} /\ lost' = lost \cup rest => lost' = lost
      OBVIOUS
    <2> QED
      BY <1>3, <2>1, <2>2, <2>3
  <1> QED
    BY <1>1, <1>2, <1>4, <1>5, <1>6, <1>7 DEF FilesInv

LEMMA ReopenKeeps ==
    ASSUME F!FilesConstants, FilesInv, F!Reopen
    PROVE  FilesInv'
  <1>1. /\ size' = durable.size /\ extents' = durable.extents /\ windows' = F!NoWindows
        /\ dirty_bytes' = 0 /\ last' = F!NoLast /\ truth' = synced.truth /\ lost' = synced.lost
        /\ UNCHANGED <<durable, synced>>
    BY DEF F!Reopen, F!Emptied
  <1>2. SyncedTrue
    BY DEF FilesInv
  <1>3. Buffers(F!NoWindows, size') /\ F!Grown(F!NoWindows) = 0
    BY NoneDirty
  <1>4. LastTrue' /\ SyncedTrue'
    BY <1>1, <1>2, NoLastIs DEF LastTrue, SyncedTrue
  <1> QED
    BY <1>1, <1>2, <1>3, <1>4 DEF FilesInv, SyncedTrue

LEMMA FilesStart == ASSUME F!FilesConstants, F!Init PROVE FilesInv
  <1>1. /\ size = [i \in Inos |-> 0] /\ extents = [key \in F!Keys |-> << >>]
        /\ windows = F!NoWindows /\ dirty_bytes = 0 /\ last = F!NoLast
        /\ durable.size = size /\ durable.extents = extents
        /\ truth = [i \in Inos |-> << >>] /\ lost = {}
        /\ synced.truth = truth /\ synced.lost = lost
    BY DEF F!Init
  <1>2. Sized(size, truth)
    BY <1>1 DEF Sized, F!FilesConstants
  <1>3. << >> \in Buf
    BY DEF Buf, F!FilesConstants
  <1>4. Reads(size, extents, F!NoWindows, truth, lost)
    BY <1>1 DEF Reads, Held, F!NoWindows, Matches, F!At
  <1>5. Buffers(F!NoWindows, size) /\ F!Grown(F!NoWindows) = 0
    BY NoneDirty
  <1>6. LastTrue
    BY <1>1, NoLastIs DEF LastTrue
  <1> QED
    BY <1>1, <1>2, <1>3, <1>4, <1>5, <1>6 DEF FilesInv, SyncedTrue

\* The files' steps keep the invariant.
LEMMA FilesKept == ASSUME F!FilesConstants, FilesInv, F!Next PROVE FilesInv'
  <1>1. ASSUME NEW i \in DOMAIN size, NEW offset \in 0 .. MaxSize - 1, NEW data \in Writes,
               offset + Len(data) <= MaxSize, F!Write(i, offset, data)
        PROVE  FilesInv'
    BY <1>1, WriteKeeps
  <1>2. ASSUME NEW i \in DOMAIN size, NEW n \in 0 .. MaxSize, F!Lengthen(i, n) PROVE FilesInv'
    BY <1>2, LengthenKeeps
  <1>3. ASSUME NEW i \in DOMAIN size, NEW n \in 0 .. MaxSize, F!Shorten(i, n) PROVE FilesInv'
    BY <1>3, ShortenKeeps
  <1>4. ASSUME NEW i \in DOMAIN size, F!Destroy(i) PROVE FilesInv'
    BY <1>4, DestroyKeeps
  <1>5. ASSUME NEW key \in F!Keys, F!Read(key) PROVE FilesInv'
    BY <1>5, ReadKeeps
  <1>6. CASE F!Commit
    BY <1>6, CommitKeeps
  <1>7. CASE F!Reopen
    BY <1>7, ReopenKeeps
  <1> QED
    BY <1>1, <1>2, <1>3, <1>4, <1>5, <1>6, <1>7 DEF F!Next

\* Each byte of a file is in the window that matches it.
LEMMA FilesRead == ASSUME F!FilesConstants, FilesInv PROVE F!FilesTrue
  <1>1. /\ Sized(size, truth) /\ Reads(size, extents, windows, truth, lost) /\ LastTrue
        /\ dirty_bytes = F!Grown(windows)
    BY DEF FilesInv
  <1>2. WINDOW \in Nat \ {0} /\ MaxSize \in Nat
    BY DEF F!FilesConstants
  <1>3. ASSUME NEW i \in DOMAIN size, NEW k \in 1 .. size[i], <<i, (k - 1) \div WINDOW>> \notin lost
        PROVE  F!At(F!window_content(<<i, (k - 1) \div WINDOW>>), ((k - 1) % WINDOW) + 1) = truth[i][k]
    <2> DEFINE key == <<i, (k - 1) \div WINDOW>>
               m == ((k - 1) % WINDOW) + 1
    <2>1. /\ i \in Inos /\ truth[i] \in Seq(Nat) /\ size[i] = Len(truth[i]) /\ size[i] <= MaxSize
          /\ size[i] \in Nat
      BY <1>1 DEF Sized
    <2>2. k - 1 \in Nat /\ k - 1 < MaxSize
      BY <1>2, <2>1
    <2>3. key \in F!Keys
      BY <2>1, <2>2, KeyOf
    <2>4. /\ (k - 1) \div WINDOW \in Nat /\ ((k - 1) \div WINDOW) * WINDOW \in Nat
          /\ (k - 1) % WINDOW = k - 1 - ((k - 1) \div WINDOW) * WINDOW
      BY <2>2, DivBounds
    <2>5. (k - 1) % WINDOW \in 0 .. WINDOW - 1
      BY <1>2, <2>2
    <2>6. StartOf(key) = ((k - 1) \div WINDOW) * WINDOW /\ key[1] = i
      BY DEF StartOf
    <2> HIDE DEF key
    <2>7. m \in 1 .. WINDOW /\ StartOf(key) + m = k
      BY <1>2, <2>1, <2>4, <2>5, <2>6
    <2> HIDE DEF m
    <2>8. F!window_content(key) = Held(extents, windows, key)
      BY <1>1, <2>3, ContentIs
    <2>9. key \notin lost
      BY <1>3 DEF key
    <2>10. Matches(Held(extents, windows, key), key, truth[i])
      BY <1>1, <2>3, <2>6, <2>9 DEF Reads
    <2>11. F!At(F!window_content(key), m) = F!At(truth[i], k)
      BY <2>7, <2>8, <2>10 DEF Matches
    <2>12. F!At(truth[i], k) = truth[i][k]
      BY <2>1 DEF F!At
    <2> QED
      BY <2>11, <2>12 DEF key, m
  <1>4. DOMAIN truth = DOMAIN size /\ \A i \in DOMAIN size : size[i] = Len(truth[i])
    BY <1>1 DEF Sized
  <1> QED
    BY <1>1, <1>3, <1>4 DEF F!FilesTrue

\* Every byte of a file reads as it was last written, whatever the window, the
\* buffers, the writes and the sizes, through flushes, commits and mounts.
THEOREM FilesAlwaysTrue == MCSpec => []FilesTrue
  <1> USE StoresConstants
  <1>1. MCInit => FilesInv
    BY FilesStart DEF MCInit
  <1>2. FilesInv /\ [MCNext]_<<store, vars, volumeVars, fileVars>> => FilesInv'
    <2> SUFFICES ASSUME FilesInv, [MCNext]_<<store, vars, volumeVars, fileVars>> PROVE FilesInv'
      OBVIOUS
    <2>1. CASE FileStep
      BY <2>1, FilesKept DEF FileStep
    <2>2. CASE UNCHANGED fileVars
      BY <2>2 DEF fileVars, FilesInv, LastTrue, SyncedTrue
    <2> QED
      BY <2>1, <2>2 DEF MCNext, PackageStep, VolumeStep
  <1>3. FilesInv => FilesTrue
    BY FilesRead DEF FilesTrue
  <1> QED
    BY <1>1, <1>2, <1>3, PTL DEF MCSpec

-----------------------------------------------------------------------------
(* The volume (NcfsRefs).  The trees are made of blocks that hold what the *)
(* pointers at them are for; a block is pointed at from one place of each  *)
(* root at most.                                                           *)

Links == ({"disk"} \X Blocks) \cup ({"mem"} \X (Blocks \cup {None}))
Roots == ({"disk"} \X Blocks) \cup ({"mem"} \X [Pos -> Links])

Extent(x, e) == e # None => x.disk[e] \in {"data"} \X Data

Typed(x) ==
    /\ DOMAIN x.disk = Blocks
    /\ DOMAIN x.root \subseteq Ids \cup {1}
    /\ \A sv \in DOMAIN x.root : x.root[sv] \in Roots
    /\ \A r \in V!Nodes(x) : x.disk[r] \in {"node"} \X [Pos -> Blocks]

Shaped(x) ==
    /\ Typed(x)
    /\ x.rt \in {<<"mem", None>>} \cup ({"disk"} \X Blocks)
    /\ x.rt[1] = "disk" => x.disk[x.rt[2]] = <<"roots", None>>
    /\ \A r \in V!Nodes(x) : \A p, q \in Pos : x.disk[r][2][p] = x.disk[r][2][q] => p = q
    /\ \A sv \in V!MemRoots(x) : \A p, q \in Pos :
          x.root[sv][2][p][1] = "disk" /\ x.root[sv][2][p] = x.root[sv][2][q] => p = q
    /\ \A l \in V!Leaves(x) :
          x.disk[l] \in {"leaf"} \X (Blocks \cup {None}) /\ Extent(x, x.disk[l][2])
    /\ \A sp \in V!MemLeaves(x) : Extent(x, x.root[sp[1]][2][sp[2]][2])

\* The tables of the writer.
Tables(x) ==
    /\ x.refs \in [Blocks -> Nat]
    /\ x.free \subseteq Blocks /\ x.fresh \subseteq Blocks /\ x.pinned \subseteq Blocks
    /\ x.dedup \in [Data -> Blocks \cup {None}]
    /\ x.free \cap x.pinned = {} /\ x.fresh \cap (x.free \cup x.pinned) = {}
    /\ \A b \in Blocks : x.refs[b] = 0 <=> b \in x.free \cup x.pinned
    /\ \A d \in Data : x.dedup[d] # None =>
          x.refs[x.dedup[d]] > 0 /\ x.disk[x.dedup[d]] = <<"data", d>>

\* What failed writes left counted is no part of a tree.
Leaky(x) ==
    /\ x.leaked \in [Blocks -> Nat]
    /\ \A b \in Blocks : x.leaked[b] > 0 => x.disk[b][1] = "data"

\* Every pointer is counted, what failed writes left counted, and k once more:
\* an extent that is stored and that no leaf has yet.
Extra(x, k, b) == x.leaked[b] + (IF b = k THEN 1 ELSE 0)

Exact(x, k) ==
    \A b \in Blocks : x.refs[b] = V!Count(V!Pointers(x), b) + Extra(x, k, b)

WriterFields ==
    {"disk", "refs", "leaked", "free", "fresh", "pinned", "dedup", "root", "ro", "rt", "default"}

Sound(x, k) ==
    /\ DOMAIN x = WriterFields
    /\ Shaped(x) /\ Tables(x) /\ Leaky(x) /\ Exact(x, k)
    /\ k \in Blocks \cup {None} /\ Extent(x, k)

\* The blocks that may be written.
Spare(x) == x.free \cup x.fresh

\* The last commit, to which s leads, is all there, and none of it may be
\* written.
SavedSound(s, x) ==
    /\ DOMAIN s = {"root", "ro", "rt", "default"}
    /\ Shaped(V!Mounted(s, x.disk))
    /\ \A e \in V!Pointers(V!Mounted(s, x.disk)) : e[4] \notin Spare(x)

\* No tree is made of blocks taken since the last commit.
Unmarked(x) == \A e \in V!Pointers(x) : e[4] \notin x.fresh

\* What the writer x and the superblock's s are at every moment.
VolumeSound(x, s) ==
    /\ Sound(x, None) /\ SavedSound(s, x)
    /\ ~V!Dirty(x) => Unmarked(x)

VolumeInv == VolumeSound(w, saved)

-----------------------------------------------------------------------------
(* Counting pointers.                                                      *)

\* The operators the instance takes from the library are the library's.
LEMMA VolumeFinite ==
    /\ \A S : V!Cardinality(S) = Cardinality(S)
    /\ \A S : V!IsFiniteSet(S) <=> IsFiniteSet(S)
  <1>1. \A S : V!Cardinality(S) = Cardinality(S)
    BY DEF V!Cardinality, Cardinality
  <1>2. \A S : V!IsFiniteSet(S) <=> IsFiniteSet(S)
    BY DEF V!IsFiniteSet, IsFiniteSet
  <1> QED
    BY <1>1, <1>2

\* The library's cardinality, for the instance's.
LEMMA CountIs == \A E, b : V!Count(E, b) = Cardinality({e \in E : e[4] = b})
  BY VolumeFinite DEF V!Count

\* A count is a number, 0 when no pointer is at the block.
LEMMA CountNat ==
    ASSUME NEW E, IsFiniteSet(E), NEW b
    PROVE  V!Count(E, b) \in Nat /\ (V!Count(E, b) = 0 <=> \A e \in E : e[4] # b)
  <1> DEFINE T == {e \in E : e[4] = b}
  <1>1. IsFiniteSet(T)
    BY FS_Subset
  <1> QED
    BY <1>1, FS_CardinalityType, FS_EmptySet, CountIs

\* Counts of disjoint sets of pointers add up.
LEMMA CountUnion ==
    ASSUME NEW E, IsFiniteSet(E), NEW G, IsFiniteSet(G), E \cap G = {}, NEW b
    PROVE  V!Count(E \cup G, b) = V!Count(E, b) + V!Count(G, b)
  <1> DEFINE S == {e \in E : e[4] = b}
             T == {e \in G : e[4] = b}
  <1>1. IsFiniteSet(S) /\ IsFiniteSet(T)
    BY FS_Subset
  <1>2. S \cap T = {} /\ {e \in E \cup G : e[4] = b} = S \cup T
    OBVIOUS
  <1>3. Cardinality(S \cup T) = Cardinality(S) + Cardinality(T) - Cardinality(S \cap T)
    BY <1>1, FS_Union
  <1>4. Cardinality(S) \in Nat /\ Cardinality(T) \in Nat
    BY <1>1, FS_CardinalityType
  <1> QED
    BY <1>2, <1>3, <1>4, FS_EmptySet, CountIs

\* One pointer.
LEMMA CountOne ==
    ASSUME NEW e, NEW b
    PROVE  IsFiniteSet({e}) /\ V!Count({e}, b) = IF e[4] = b THEN 1 ELSE 0
  <1>1. CASE e[4] = b
    <2>1. {f \in {e} : f[4] = b} = {e}
      BY <1>1
    <2> QED
      BY <1>1, <2>1, FS_Singleton, CountIs
  <1>2. CASE e[4] # b
    <2>1. {f \in {e} : f[4] = b} = {}
      BY <1>2
    <2> QED
      BY <1>2, <2>1, FS_Singleton, FS_EmptySet, CountIs
  <1> QED
    BY <1>1, <1>2

\* The pointers E, which are named by the elements of I.
LEMMA CountImage ==
    ASSUME NEW I, IsFiniteSet(I), NEW E, NEW m \in [I -> E],
           \A i, j \in I : m[i] = m[j] => i = j, \A e \in E : \E i \in I : m[i] = e,
           NEW b, NEW S \in SUBSET I, \A i \in I : i \in S <=> m[i][4] = b
    PROVE  IsFiniteSet(E) /\ V!Count(E, b) = Cardinality(S)
  <1> DEFINE T == {e \in E : e[4] = b}
             g == [i \in S |-> m[i]]
  <1>1. IsFiniteSet(S)
    BY FS_Subset
  <1>2. m \in Bijection(I, E)
    BY DEF Bijection, Injection, Surjection, IsInjective
  <1>3. g \in Bijection(S, T)
    <2>1. g \in [S -> T]
      OBVIOUS
    <2>2. \A x, y \in S : g[x] = g[y] => x = y
      OBVIOUS
    <2>3. \A t \in T : \E x \in S : g[x] = t
      OBVIOUS
    <2> QED
      BY <2>1, <2>2, <2>3 DEF Bijection, Injection, Surjection, IsInjective
  <1>4. IsFiniteSet(E)
    BY <1>2, FS_Bijection DEF ExistsBijection
  <1>5. Cardinality(T) = Cardinality(S)
    BY <1>1, <1>3, FS_Bijection DEF ExistsBijection
  <1>6. V!Count(E, b) = Cardinality(T)
    BY CountIs
  <1> QED
    BY <1>4, <1>5, <1>6

\* The places from which a block is pointed at.
RootHits(x, b) == {sv \in V!DiskRoots(x) : x.root[sv][2] = b}
NodeHits(x, b) == {rp \in V!Nodes(x) \X Pos : x.disk[rp[1]][2][rp[2]] = b}
MemHits(x, b) == {sp \in V!MemRoots(x) \X Pos : x.root[sp[1]][2][sp[2]][2] = b}
LeafHits(x, b) == {l \in V!Leaves(x) : x.disk[l][2] = b}

Hits(x, b) ==
    (IF x.rt[2] = b THEN 1 ELSE 0) + Cardinality(RootHits(x, b)) + Cardinality(NodeHits(x, b))
    + Cardinality(MemHits(x, b)) + Cardinality(LeafHits(x, b))

\* The constants are finite sets.
LEMMA ConstantsFinite ==
    ASSUME V!VolumeConstants
    PROVE  IsFiniteSet(Blocks) /\ IsFiniteSet(Pos) /\ IsFiniteSet(Ids \cup {1})
  BY VolumeFinite, FS_AddElement DEF V!VolumeConstants

\* Trees that are well made have the types of trees.
LEMMA ShapedTyped == \A x : Shaped(x) => Typed(x)
  BY DEF Shaped

\* A root is on disk or in memory; the nodes are the blocks of those on disk.
LEMMA NodesAre ==
    ASSUME NEW x, Typed(x)
    PROVE  /\ V!DiskRoots(x) \cap V!MemRoots(x) = {}
           /\ V!DiskRoots(x) \cup V!MemRoots(x) = DOMAIN x.root
           /\ V!Nodes(x) \subseteq Blocks
           /\ \A r : r \in V!Nodes(x) <=> \E sv \in DOMAIN x.root : x.root[sv] = <<"disk", r>>
           /\ \A sv \in V!DiskRoots(x) : x.root[sv] = <<"disk", x.root[sv][2]>> /\ x.root[sv][2] \in Blocks
           /\ \A sv \in V!MemRoots(x) :
                 x.root[sv] = <<"mem", x.root[sv][2]>> /\ x.root[sv][2] \in [Pos -> Links]
  BY DEF Typed, Roots, V!DiskRoots, V!MemRoots, V!Nodes

\* The parts of a link.
LEMMA LinkIs ==
    ASSUME NEW c \in Links
    PROVE  /\ c = <<c[1], c[2]>> /\ c[1] \in {"disk", "mem"} /\ c[2] \in Blocks \cup {None}
           /\ c[1] = "disk" => c[2] \in Blocks
  BY DEF Links

\* A leaf is one of a root on disk, or of one in memory that has not copied it.
LEMMA LeavesAre ==
    ASSUME NEW x, Typed(x)
    PROVE  /\ V!Leaves(x) \subseteq Blocks
           /\ \A l : l \in V!Leaves(x) <=>
                 \/ \E r \in V!Nodes(x) : \E p \in Pos : l = x.disk[r][2][p]
                 \/ \E sv \in V!MemRoots(x) : \E p \in Pos : x.root[sv][2][p] = <<"disk", l>>
  <1>1. \A l : l \in V!Leaves(x) <=>
                 \/ \E r \in V!Nodes(x) : \E p \in Pos : l = x.disk[r][2][p]
                 \/ \E sv \in V!MemRoots(x) : \E p \in Pos :
                        x.root[sv][2][p][1] # "mem" /\ l = x.root[sv][2][p][2]
    <2> DEFINE A == {x.disk[rp[1]][2][rp[2]] : rp \in V!Nodes(x) \X Pos}
               M == (V!MemRoots(x) \X Pos) \ V!MemLeaves(x)
               B == {x.root[sp[1]][2][sp[2]][2] : sp \in M}
    <2>1. \A l : l \in A <=> \E r \in V!Nodes(x) : \E p \in Pos : l = x.disk[r][2][p]
      <3>1. ASSUME NEW l, l \in A PROVE \E r \in V!Nodes(x) : \E p \in Pos : l = x.disk[r][2][p]
        BY <3>1
      <3>2. ASSUME NEW r \in V!Nodes(x), NEW p \in Pos PROVE x.disk[r][2][p] \in A
        <4>1. <<r, p>> \in V!Nodes(x) \X Pos
          OBVIOUS
        <4> QED
          BY <4>1
      <3> QED
        BY <3>1, <3>2
    <2>2. \A sp : sp \in M <=> \E sv \in V!MemRoots(x) : \E p \in Pos :
                                  sp = <<sv, p>> /\ x.root[sv][2][p][1] # "mem"
      BY DEF V!MemLeaves
    <2>3. ASSUME NEW l, l \in B
          PROVE  \E sv \in V!MemRoots(x) : \E p \in Pos :
                        x.root[sv][2][p][1] # "mem" /\ l = x.root[sv][2][p][2]
      <3>1. PICK sp \in M : l = x.root[sp[1]][2][sp[2]][2]
        BY <2>3
      <3> QED
        BY <2>2, <3>1
    <2>4. ASSUME NEW l, NEW sv \in V!MemRoots(x), NEW p \in Pos,
                 x.root[sv][2][p][1] # "mem", l = x.root[sv][2][p][2]
          PROVE  l \in B
      <3>1. <<sv, p>> \in M
        BY <2>2, <2>4
      <3>2. x.root[<<sv, p>>[1]][2][<<sv, p>>[2]][2] = l
        BY <2>4
      <3> QED
        BY <3>1, <3>2
    <2>5. V!Leaves(x) = A \cup B
      BY DEF V!Leaves
    <2> HIDE DEF A, B, M
    <2> QED
      BY <2>1, <2>3, <2>4, <2>5
  <1>2. \A sv \in V!MemRoots(x) : \A p \in Pos : \A l :
            x.root[sv][2][p][1] # "mem" /\ l = x.root[sv][2][p][2]
              <=> x.root[sv][2][p] = <<"disk", l>>
    <2> SUFFICES ASSUME NEW sv \in V!MemRoots(x), NEW p \in Pos, NEW l
                 PROVE  x.root[sv][2][p][1] # "mem" /\ l = x.root[sv][2][p][2]
                          <=> x.root[sv][2][p] = <<"disk", l>>
      OBVIOUS
    <2>1. x.root[sv][2][p] \in Links
      BY NodesAre
    <2> QED
      BY <2>1, LinkIs
  <1>3. \A sv \in V!MemRoots(x) : \A p \in Pos : \A l :
            x.root[sv][2][p] = <<"disk", l>> => l \in Blocks
    <2> SUFFICES ASSUME NEW sv \in V!MemRoots(x), NEW p \in Pos, NEW l,
                        x.root[sv][2][p] = <<"disk", l>>
                 PROVE  l \in Blocks
      OBVIOUS
    <2>1. x.root[sv][2][p] \in Links
      BY NodesAre
    <2> QED
      BY <2>1, LinkIs
  <1>4. \A r \in V!Nodes(x) : \A p \in Pos : x.disk[r][2][p] \in Blocks
    BY DEF Typed
  <1>5. \A l : l \in V!Leaves(x) <=>
                 \/ \E r \in V!Nodes(x) : \E p \in Pos : l = x.disk[r][2][p]
                 \/ \E sv \in V!MemRoots(x) : \E p \in Pos : x.root[sv][2][p] = <<"disk", l>>
    BY <1>1, <1>2
  <1> QED
    BY <1>3, <1>4, <1>5

\* There are finitely many pointers of each kind.
LEMMA HitsFinite ==
    ASSUME V!VolumeConstants, NEW x, Typed(x)
    PROVE  /\ IsFiniteSet(V!DiskRoots(x)) /\ IsFiniteSet(V!MemRoots(x))
           /\ IsFiniteSet(V!Nodes(x)) /\ IsFiniteSet(V!Leaves(x))
           /\ \A b : /\ IsFiniteSet(RootHits(x, b)) /\ Cardinality(RootHits(x, b)) \in Nat
                     /\ IsFiniteSet(NodeHits(x, b)) /\ Cardinality(NodeHits(x, b)) \in Nat
                     /\ IsFiniteSet(MemHits(x, b)) /\ Cardinality(MemHits(x, b)) \in Nat
                     /\ IsFiniteSet(LeafHits(x, b)) /\ Cardinality(LeafHits(x, b)) \in Nat
  <1>1. IsFiniteSet(V!DiskRoots(x)) /\ IsFiniteSet(V!MemRoots(x))
    <2>1. V!DiskRoots(x) \subseteq Ids \cup {1} /\ V!MemRoots(x) \subseteq Ids \cup {1}
      BY DEF Typed, V!DiskRoots, V!MemRoots
    <2> QED
      BY <2>1, ConstantsFinite, FS_Subset
  <1>2. IsFiniteSet(V!Nodes(x)) /\ IsFiniteSet(V!Leaves(x))
    BY NodesAre, LeavesAre, ConstantsFinite, FS_Subset
  <1>3. IsFiniteSet(V!Nodes(x) \X Pos) /\ IsFiniteSet(V!MemRoots(x) \X Pos)
    BY <1>1, <1>2, ConstantsFinite, FS_Product
  <1>4. ASSUME NEW b
        PROVE  /\ IsFiniteSet(RootHits(x, b)) /\ IsFiniteSet(NodeHits(x, b))
               /\ IsFiniteSet(MemHits(x, b)) /\ IsFiniteSet(LeafHits(x, b))
    <2>1. IsFiniteSet(RootHits(x, b)) /\ IsFiniteSet(LeafHits(x, b))
      BY <1>1, <1>2, FS_Subset DEF RootHits, LeafHits
    <2>2. IsFiniteSet(NodeHits(x, b)) /\ IsFiniteSet(MemHits(x, b))
      BY <1>3, FS_Subset DEF NodeHits, MemHits
    <2> QED
      BY <2>1, <2>2
  <1> QED
    BY <1>1, <1>2, <1>4, FS_CardinalityType

\* What a root on disk points at is a leaf.
LEMMA LeafOfNode ==
    ASSUME NEW x, Typed(x), NEW r \in V!Nodes(x), NEW p \in Pos
    PROVE  x.disk[r][2][p] \in V!Leaves(x)
  BY LeavesAre

\* So is what the copy of one points at.
LEMMA LeafOfCopy ==
    ASSUME NEW x, Typed(x), NEW sv \in V!MemRoots(x), NEW p \in Pos, NEW l,
           x.root[sv][2][p] = <<"disk", l>>
    PROVE  l \in V!Leaves(x)
  BY LeavesAre

\* A leaf is pointed at by a root.
LEMMA LeafFrom ==
    ASSUME NEW x, Typed(x), NEW l \in V!Leaves(x)
    PROVE  \/ \E r \in V!Nodes(x) : \E p \in Pos : l = x.disk[r][2][p]
           \/ \E sv \in V!MemRoots(x) : \E p \in Pos : x.root[sv][2][p] = <<"disk", l>>
  BY LeavesAre

\* Sets of pairs.
LEMMA SamePairs ==
    ASSUME NEW S, NEW T, NEW A, A \subseteq S \X T, NEW B, B \subseteq S \X T,
           \A s \in S : \A t \in T : <<s, t>> \in A <=> <<s, t>> \in B
    PROVE  A = B
  <1>1. ASSUME NEW e PROVE e \in A <=> e \in B
    <2>1. CASE e \in S \X T
      <3>1. PICK s \in S, t \in T : e = <<s, t>>
        BY <2>1
      <3> QED
        BY <3>1
    <2>2. CASE e \notin S \X T
      BY <2>2
    <2> QED
      BY <2>1, <2>2
  <1> QED
    BY <1>1

\* A set without one of its elements.
LEMMA OneLess ==
    ASSUME NEW S, IsFiniteSet(S), NEW e \in S, NEW T, T = S \ {e}
    PROVE  Cardinality(T) = Cardinality(S) - 1
  BY FS_RemoveElement

\* A set with one more.
LEMMA OneMoreIs ==
    ASSUME NEW S, IsFiniteSet(S), NEW e, e \notin S, NEW T, T = S \cup {e}
    PROVE  Cardinality(T) = Cardinality(S) + 1
  BY FS_AddElement

\* The count of a block is the sum over the places.
LEMMA CountSum ==
    ASSUME V!VolumeConstants, NEW x, Typed(x), NEW b
    PROVE  IsFiniteSet(V!Pointers(x)) /\ V!Count(V!Pointers(x), b) = Hits(x, b)
  <1> DEFINE P1 == {<<"roots", 0, 0, x.rt[2]>>}
             I2 == V!DiskRoots(x)
             m2 == [sv \in I2 |-> <<"root", sv, 0, x.root[sv][2]>>]
             P2 == {m2[i] : i \in I2}
             I3 == V!Nodes(x) \X Pos
             m3 == [rp \in I3 |-> <<"node", rp[1], rp[2], x.disk[rp[1]][2][rp[2]]>>]
             P3 == {m3[i] : i \in I3}
             I4 == V!MemRoots(x) \X Pos
             m4 == [sp \in I4 |-> <<"mem", sp[1], sp[2], x.root[sp[1]][2][sp[2]][2]>>]
             P4 == {m4[i] : i \in I4}
             I5 == V!Leaves(x)
             m5 == [l \in I5 |-> <<"leaf", l, 0, x.disk[l][2]>>]
             P5 == {m5[i] : i \in I5}
  <1>1. IsFiniteSet(I2) /\ IsFiniteSet(I3) /\ IsFiniteSet(I4) /\ IsFiniteSet(I5)
    BY HitsFinite, ConstantsFinite, FS_Product
  <1>2. IsFiniteSet(P2) /\ V!Count(P2, b) = Cardinality(RootHits(x, b))
    <2>1. PICK I, E, m, S : I = I2 /\ E = P2 /\ m = m2 /\ S = RootHits(x, b)
      OBVIOUS
    <2>2. IsFiniteSet(I)
      BY <1>1, <2>1
    <2>3. m \in [I -> E]
      BY <2>1
    <2>4. \A i, j \in I : m[i] = m[j] => i = j
      BY <2>1
    <2>5. \A e \in E : \E i \in I : m[i] = e
      BY <2>1
    <2>6. S \in SUBSET I /\ \A i \in I : i \in S <=> m[i][4] = b
      BY <2>1 DEF RootHits
    <2>7. IsFiniteSet(E) /\ V!Count(E, b) = Cardinality(S)
      BY <2>2, <2>3, <2>4, <2>5, <2>6, CountImage
    <2> QED
      BY <2>1, <2>7
  <1>3. IsFiniteSet(P3) /\ V!Count(P3, b) = Cardinality(NodeHits(x, b))
    <2>1. PICK I, E, m, S : I = I3 /\ E = P3 /\ m = m3 /\ S = NodeHits(x, b)
      OBVIOUS
    <2>2. IsFiniteSet(I)
      BY <1>1, <2>1
    <2>3. m \in [I -> E]
      BY <2>1
    <2>4. \A i, j \in I : m[i] = m[j] => i = j
      BY <2>1
    <2>5. \A e \in E : \E i \in I : m[i] = e
      BY <2>1
    <2>6. S \in SUBSET I /\ \A i \in I : i \in S <=> m[i][4] = b
      BY <2>1 DEF NodeHits
    <2>7. IsFiniteSet(E) /\ V!Count(E, b) = Cardinality(S)
      BY <2>2, <2>3, <2>4, <2>5, <2>6, CountImage
    <2> QED
      BY <2>1, <2>7
  <1>4. IsFiniteSet(P4) /\ V!Count(P4, b) = Cardinality(MemHits(x, b))
    <2>1. PICK I, E, m, S : I = I4 /\ E = P4 /\ m = m4 /\ S = MemHits(x, b)
      OBVIOUS
    <2>2. IsFiniteSet(I)
      BY <1>1, <2>1
    <2>3. m \in [I -> E]
      BY <2>1
    <2>4. \A i, j \in I : m[i] = m[j] => i = j
      BY <2>1
    <2>5. \A e \in E : \E i \in I : m[i] = e
      BY <2>1
    <2>6. S \in SUBSET I /\ \A i \in I : i \in S <=> m[i][4] = b
      BY <2>1 DEF MemHits
    <2>7. IsFiniteSet(E) /\ V!Count(E, b) = Cardinality(S)
      BY <2>2, <2>3, <2>4, <2>5, <2>6, CountImage
    <2> QED
      BY <2>1, <2>7
  <1>5. IsFiniteSet(P5) /\ V!Count(P5, b) = Cardinality(LeafHits(x, b))
    <2>1. PICK I, E, m, S : I = I5 /\ E = P5 /\ m = m5 /\ S = LeafHits(x, b)
      OBVIOUS
    <2>2. IsFiniteSet(I)
      BY <1>1, <2>1
    <2>3. m \in [I -> E]
      BY <2>1
    <2>4. \A i, j \in I : m[i] = m[j] => i = j
      BY <2>1
    <2>5. \A e \in E : \E i \in I : m[i] = e
      BY <2>1
    <2>6. S \in SUBSET I /\ \A i \in I : i \in S <=> m[i][4] = b
      BY <2>1 DEF LeafHits
    <2>7. IsFiniteSet(E) /\ V!Count(E, b) = Cardinality(S)
      BY <2>2, <2>3, <2>4, <2>5, <2>6, CountImage
    <2> QED
      BY <2>1, <2>7
  <1>6. IsFiniteSet(P1) /\ V!Count(P1, b) = IF x.rt[2] = b THEN 1 ELSE 0
    <2>1. <<"roots", 0, 0, x.rt[2]>>[4] = x.rt[2]
      OBVIOUS
    <2> QED
      BY <2>1, CountOne
  <1>7. /\ \A e \in P1 : e[1] = "roots"
        /\ \A e \in P2 : e[1] = "root"
        /\ \A e \in P3 : e[1] = "node"
        /\ \A e \in P4 : e[1] = "mem"
        /\ \A e \in P5 : e[1] = "leaf"
    OBVIOUS
  <1>8. V!Pointers(x) = (((P1 \cup P2) \cup P3) \cup P4) \cup P5
    <2>1. P2 = {<<"root", sv, 0, x.root[sv][2]>> : sv \in V!DiskRoots(x)}
      OBVIOUS
    <2>2. P3 = {<<"node", rp[1], rp[2], x.disk[rp[1]][2][rp[2]]>> : rp \in V!Nodes(x) \X Pos}
      OBVIOUS
    <2>3. P4 = {<<"mem", sp[1], sp[2], x.root[sp[1]][2][sp[2]][2]>> : sp \in V!MemRoots(x) \X Pos}
      OBVIOUS
    <2>4. P5 = {<<"leaf", l, 0, x.disk[l][2]>> : l \in V!Leaves(x)}
      OBVIOUS
    <2> QED
      BY <2>1, <2>2, <2>3, <2>4 DEF V!Pointers
  <1> HIDE DEF P1, P2, P3, P4, P5
  <1>9. IsFiniteSet(P1 \cup P2) /\ V!Count(P1 \cup P2, b) = V!Count(P1, b) + V!Count(P2, b)
    <2>1. P1 \cap P2 = {}
      BY <1>7
    <2>2. IsFiniteSet(P1 \cup P2)
      BY <1>2, <1>6, FS_Union
    <2> QED
      BY <1>2, <1>6, <2>1, <2>2, CountUnion
  <1>10. /\ IsFiniteSet((P1 \cup P2) \cup P3)
         /\ V!Count((P1 \cup P2) \cup P3, b) = V!Count(P1 \cup P2, b) + V!Count(P3, b)
    <2>1. (P1 \cup P2) \cap P3 = {}
      BY <1>7
    <2>2. IsFiniteSet((P1 \cup P2) \cup P3)
      BY <1>3, <1>9, FS_Union
    <2> QED
      BY <1>3, <1>9, <2>1, <2>2, CountUnion
  <1>11. /\ IsFiniteSet(((P1 \cup P2) \cup P3) \cup P4)
         /\ V!Count(((P1 \cup P2) \cup P3) \cup P4, b) = V!Count((P1 \cup P2) \cup P3, b) + V!Count(P4, b)
    <2>1. ((P1 \cup P2) \cup P3) \cap P4 = {}
      BY <1>7
    <2>2. IsFiniteSet(((P1 \cup P2) \cup P3) \cup P4)
      BY <1>4, <1>10, FS_Union
    <2> QED
      BY <1>4, <1>10, <2>1, <2>2, CountUnion
  <1>12. /\ IsFiniteSet((((P1 \cup P2) \cup P3) \cup P4) \cup P5)
         /\ V!Count((((P1 \cup P2) \cup P3) \cup P4) \cup P5, b)
              = V!Count(((P1 \cup P2) \cup P3) \cup P4, b) + V!Count(P5, b)
    <2>1. (((P1 \cup P2) \cup P3) \cup P4) \cap P5 = {}
      BY <1>7
    <2>2. IsFiniteSet((((P1 \cup P2) \cup P3) \cup P4) \cup P5)
      BY <1>5, <1>11, FS_Union
    <2> QED
      BY <1>5, <1>11, <2>1, <2>2, CountUnion
  <1> QED
    BY <1>2, <1>3, <1>4, <1>5, <1>6, <1>8, <1>9, <1>10, <1>11, <1>12 DEF Hits

-----------------------------------------------------------------------------
(* The tables.                                                             *)

\* The trees of y are those of x.
SameTrees(x, y) == y.disk = x.disk /\ y.root = x.root /\ y.rt = x.rt

\* The rest of the writer.
SameRest(x, y) == y.ro = x.ro /\ y.default = x.default /\ y.leaked = x.leaked

\* What a release sets.
LEMMA ReleaseIs ==
    ASSUME NEW x, DOMAIN x = WriterFields, NEW n
    PROVE  LET y == V!Release(x, n)
               dead == {b \in Blocks : n[b] > 0 /\ x.refs[b] - n[b] = 0}
           IN  /\ DOMAIN y = WriterFields /\ SameTrees(x, y) /\ SameRest(x, y)
               /\ y.refs = [b \in Blocks |-> x.refs[b] - n[b]]
               /\ y.dedup = [d \in Data |-> IF x.dedup[d] \in dead THEN None ELSE x.dedup[d]]
               /\ y.free = x.free \cup (dead \cap x.fresh)
               /\ y.pinned = x.pinned \cup (dead \ x.fresh)
               /\ y.fresh = x.fresh \ dead
  <1> DEFINE left == [b \in Blocks |-> x.refs[b] - n[b]]
             dead == {b \in Blocks : n[b] > 0 /\ left[b] = 0}
             y == [x EXCEPT !.refs = left,
                            !.dedup = [d \in Data |-> IF @[d] \in dead THEN None ELSE @[d]],
                            !.free = @ \cup (dead \cap x.fresh),
                            !.pinned = @ \cup (dead \ x.fresh),
                            !.fresh = @ \ dead]
  <1>1. V!Release(x, n) = y
    BY DEF V!Release
  <1>2. dead = {b \in Blocks : n[b] > 0 /\ x.refs[b] - n[b] = 0}
    OBVIOUS
  <1>3. DOMAIN y = WriterFields
    OBVIOUS
  <1>4. y.disk = x.disk /\ y.root = x.root /\ y.rt = x.rt /\ y.ro = x.ro /\ y.default = x.default
        /\ y.leaked = x.leaked
    BY DEF WriterFields
  <1>5. /\ y.refs = left
        /\ y.dedup = [d \in Data |-> IF x.dedup[d] \in dead THEN None ELSE x.dedup[d]]
        /\ y.free = x.free \cup (dead \cap x.fresh)
        /\ y.pinned = x.pinned \cup (dead \ x.fresh)
        /\ y.fresh = x.fresh \ dead
    BY DEF WriterFields
  <1> HIDE DEF y, dead
  <1> QED
    BY <1>1, <1>2, <1>3, <1>4, <1>5 DEF SameTrees, SameRest

\* References that are there are given up.
LEMMA ReleaseTables ==
    ASSUME NEW x, DOMAIN x = WriterFields, Tables(x), None \notin Blocks,
           NEW n \in [Blocks -> Nat], \A b \in Blocks : n[b] <= x.refs[b]
    PROVE  LET y == V!Release(x, n)
           IN  /\ DOMAIN y = WriterFields /\ SameTrees(x, y) /\ SameRest(x, y)
               /\ Tables(y) /\ \A b \in Blocks : y.refs[b] = x.refs[b] - n[b]
               /\ Spare(y) \subseteq Spare(x) /\ x.free \subseteq y.free
  <1> DEFINE dead == {b \in Blocks : n[b] > 0 /\ x.refs[b] - n[b] = 0}
  <1>1. PICK y : y = V!Release(x, n)
    OBVIOUS
  <1>2. /\ DOMAIN y = WriterFields /\ SameTrees(x, y) /\ SameRest(x, y)
        /\ y.refs = [b \in Blocks |-> x.refs[b] - n[b]]
        /\ y.dedup = [d \in Data |-> IF x.dedup[d] \in dead THEN None ELSE x.dedup[d]]
        /\ y.free = x.free \cup (dead \cap x.fresh)
        /\ y.pinned = x.pinned \cup (dead \ x.fresh)
        /\ y.fresh = x.fresh \ dead
    BY <1>1, ReleaseIs
  <1>3. /\ x.refs \in [Blocks -> Nat]
        /\ x.free \subseteq Blocks /\ x.fresh \subseteq Blocks /\ x.pinned \subseteq Blocks
        /\ x.dedup \in [Data -> Blocks \cup {None}]
        /\ x.free \cap x.pinned = {} /\ x.fresh \cap (x.free \cup x.pinned) = {}
        /\ \A b \in Blocks : x.refs[b] = 0 <=> b \in x.free \cup x.pinned
    BY DEF Tables
  <1>4. \A b \in dead : x.refs[b] > 0 /\ b \notin x.free \cup x.pinned /\ y.refs[b] = 0
    BY <1>2, <1>3
  <1>5. \A b \in Blocks \ dead : x.refs[b] = 0 <=> y.refs[b] = 0
    BY <1>2, <1>3
  <1>6. \A b \in Blocks : y.refs[b] = x.refs[b] - n[b] /\ y.refs[b] \in Nat
    BY <1>2, <1>3
  <1>7. y.dedup \in [Data -> Blocks \cup {None}]
    BY <1>2, <1>3
  <1>8. \A d \in Data : y.dedup[d] # None =>
            y.refs[y.dedup[d]] > 0 /\ y.disk[y.dedup[d]] = <<"data", d>>
    <2> SUFFICES ASSUME NEW d \in Data, y.dedup[d] # None
                 PROVE  y.refs[y.dedup[d]] > 0 /\ y.disk[y.dedup[d]] = <<"data", d>>
      OBVIOUS
    <2>1. y.dedup[d] = x.dedup[d] /\ x.dedup[d] \notin dead /\ x.dedup[d] \in Blocks
      BY <1>2, <1>3
    <2>2. x.refs[x.dedup[d]] > 0 /\ x.disk[x.dedup[d]] = <<"data", d>>
      BY <2>1 DEF Tables
    <2>3. y.refs[x.dedup[d]] # 0 /\ y.refs[x.dedup[d]] \in Nat
      BY <1>5, <1>6, <2>1, <2>2
    <2> QED
      BY <1>2, <2>1, <2>2, <2>3 DEF SameTrees
  <1>9. /\ y.free \subseteq Blocks /\ y.fresh \subseteq Blocks /\ y.pinned \subseteq Blocks
        /\ y.free \cap y.pinned = {} /\ y.fresh \cap (y.free \cup y.pinned) = {}
        /\ Spare(y) \subseteq Spare(x) /\ x.free \subseteq y.free
    BY <1>2, <1>3, <1>4 DEF Spare
  <1>10. \A b \in Blocks : y.refs[b] = 0 <=> b \in y.free \cup y.pinned
    <2> SUFFICES ASSUME NEW b \in Blocks PROVE y.refs[b] = 0 <=> b \in y.free \cup y.pinned
      OBVIOUS
    <2>1. y.free \cup y.pinned = (x.free \cup x.pinned) \cup dead
      BY <1>2
    <2> QED
      BY <1>3, <1>4, <1>5, <2>1
  <1>11. y.refs \in [Blocks -> Nat]
    BY <1>2, <1>6
  <1>12. Tables(y)
    BY <1>7, <1>8, <1>9, <1>10, <1>11 DEF Tables
  <1> HIDE DEF dead
  <1> QED
    BY <1>1, <1>2, <1>6, <1>9, <1>12

\* One reference to a block that has one.
LEMMA DecrefTables ==
    ASSUME NEW x, DOMAIN x = WriterFields, Tables(x), None \notin Blocks, NEW c \in Blocks,
           x.refs[c] > 0
    PROVE  LET y == V!Decref(x, c)
           IN  /\ DOMAIN y = WriterFields /\ SameTrees(x, y) /\ SameRest(x, y)
               /\ Tables(y) /\ Spare(y) \subseteq Spare(x) /\ x.free \subseteq y.free
               /\ \A b \in Blocks : y.refs[b] = x.refs[b] - (IF b = c THEN 1 ELSE 0)
  <1>1. PICK n : n = [b \in Blocks |-> IF b = c THEN 1 ELSE 0]
    OBVIOUS
  <1>2. n \in [Blocks -> Nat] /\ \A b \in Blocks : n[b] = IF b = c THEN 1 ELSE 0
    BY <1>1
  <1>3. \A b \in Blocks : n[b] <= x.refs[b]
    BY <1>2 DEF Tables
  <1>4. V!Decref(x, c) = V!Release(x, n)
    BY <1>1 DEF V!Decref
  <1> QED
    BY <1>2, <1>3, <1>4, ReleaseTables

\* More references to blocks that have some.
LEMMA RaiseTables ==
    ASSUME NEW x, DOMAIN x = WriterFields, Tables(x), NEW R \in [Blocks -> Nat],
           \A b \in Blocks : R[b] = 0 <=> x.refs[b] = 0
    PROVE  LET y == [x EXCEPT !.refs = R]
           IN  /\ DOMAIN y = WriterFields /\ SameTrees(x, y) /\ SameRest(x, y)
               /\ Tables(y) /\ y.refs = R /\ Spare(y) = Spare(x)
  <1>1. PICK y : y = [x EXCEPT !.refs = R]
    OBVIOUS
  <1>2. /\ DOMAIN y = WriterFields /\ SameTrees(x, y) /\ SameRest(x, y) /\ y.refs = R
        /\ y.free = x.free /\ y.fresh = x.fresh /\ y.pinned = x.pinned /\ y.dedup = x.dedup
    BY <1>1 DEF WriterFields, SameTrees, SameRest
  <1>3. Tables(y)
    <2>1. \A d \in Data : x.dedup[d] # None => x.dedup[d] \in Blocks
      BY DEF Tables
    <2>2. \A d \in Data : y.dedup[d] # None =>
             y.refs[y.dedup[d]] > 0 /\ y.disk[y.dedup[d]] = <<"data", d>>
      <3> SUFFICES ASSUME NEW d \in Data, y.dedup[d] # None
                   PROVE  y.refs[y.dedup[d]] > 0 /\ y.disk[y.dedup[d]] = <<"data", d>>
        OBVIOUS
      <3>1. x.dedup[d] \in Blocks /\ x.refs[x.dedup[d]] > 0 /\ x.disk[x.dedup[d]] = <<"data", d>>
        BY <1>2, <2>1 DEF Tables
      <3>2. R[x.dedup[d]] # 0 /\ R[x.dedup[d]] \in Nat
        BY <3>1
      <3> QED
        BY <1>2, <3>1, <3>2 DEF SameTrees
    <2> QED
      BY <1>2, <2>2 DEF Tables
  <1> QED
    BY <1>1, <1>2, <1>3 DEF Spare

-----------------------------------------------------------------------------
(* The trees.                                                              *)

\* All that is said of the trees is said of roots and blocks.
LEMMA TreesOnly ==
    ASSUME NEW x, NEW y, SameTrees(x, y)
    PROVE  /\ Shaped(x) => Shaped(y)
           /\ V!DiskRoots(y) = V!DiskRoots(x) /\ V!MemRoots(y) = V!MemRoots(x)
           /\ V!Nodes(y) = V!Nodes(x) /\ V!MemLeaves(y) = V!MemLeaves(x)
           /\ V!Leaves(y) = V!Leaves(x)
           /\ \A b : Hits(y, b) = Hits(x, b)
           /\ V!Files(y) = V!Files(x)
  <1>1. y.disk = x.disk /\ y.root = x.root /\ y.rt = x.rt
    BY DEF SameTrees
  <1>2. V!DiskRoots(y) = V!DiskRoots(x) /\ V!MemRoots(y) = V!MemRoots(x)
    BY <1>1 DEF V!DiskRoots, V!MemRoots
  <1>3. V!Nodes(y) = V!Nodes(x) /\ V!MemLeaves(y) = V!MemLeaves(x)
    BY <1>1, <1>2 DEF V!Nodes, V!MemLeaves
  <1>4. V!Leaves(y) = V!Leaves(x)
    BY <1>1, <1>2, <1>3 DEF V!Leaves
  <1>5. Shaped(x) => Shaped(y)
    <2>1. \A e : Extent(y, e) <=> Extent(x, e)
      BY <1>1 DEF Extent
    <2> QED
      BY <1>1, <1>2, <1>3, <1>4, <2>1 DEF Shaped, Typed
  <1>6. \A b : Hits(y, b) = Hits(x, b)
    BY <1>1, <1>2, <1>3, <1>4 DEF Hits, RootHits, NodeHits, MemHits, LeafHits
  <1>7. V!Files(y) = V!Files(x)
    BY <1>1 DEF V!Files
  <1> QED
    BY <1>2, <1>3, <1>4, <1>5, <1>6, <1>7

\* What a block is for can be told from what it holds.
LEMMA TagsTell ==
    ASSUME NEW x, Shaped(x)
    PROVE  /\ \A r \in V!Nodes(x) : x.disk[r][1] = "node"
           /\ \A l \in V!Leaves(x) : x.disk[l][1] = "leaf"
           /\ \A l \in V!Leaves(x) : x.disk[l][2] # None => x.disk[x.disk[l][2]][1] = "data"
           /\ \A sv \in V!MemRoots(x) : \A p \in Pos :
                LET c == x.root[sv][2][p]
                IN  /\ c[1] = "disk" => c[2] \in V!Leaves(x)
                    /\ c[1] = "mem" /\ c[2] # None => x.disk[c[2]][1] = "data"
           /\ x.rt[2] # None => x.rt[1] = "disk" /\ x.disk[x.rt[2]][1] = "roots"
  <1>1. \A r \in V!Nodes(x) : x.disk[r][1] = "node"
    BY DEF Shaped, Typed
  <1>2. /\ \A l \in V!Leaves(x) : x.disk[l][1] = "leaf"
        /\ \A l \in V!Leaves(x) : x.disk[l][2] # None => x.disk[x.disk[l][2]][1] = "data"
    BY DEF Shaped, Extent
  <1>3. ASSUME NEW sv \in V!MemRoots(x), NEW p \in Pos
        PROVE  LET c == x.root[sv][2][p]
                IN  /\ c[1] = "disk" => c[2] \in V!Leaves(x)
                    /\ c[1] = "mem" /\ c[2] # None => x.disk[c[2]][1] = "data"
    <2>1. x.root[sv][2][p] \in Links
      BY NodesAre, ShapedTyped
    <2>2. x.root[sv][2][p][1] = "disk" => x.root[sv][2][p][2] \in V!Leaves(x)
      BY <2>1, LinkIs, LeavesAre, ShapedTyped
    <2>3. x.root[sv][2][p][1] = "mem" => <<sv, p>> \in V!MemLeaves(x)
      BY DEF V!MemLeaves
    <2>4. x.root[sv][2][p][1] = "mem" => Extent(x, x.root[sv][2][p][2])
      BY <2>3 DEF Shaped
    <2> QED
      BY <2>2, <2>4 DEF Extent
  <1>4. x.rt[2] # None => x.rt[1] = "disk" /\ x.disk[x.rt[2]][1] = "roots"
    BY DEF Shaped
  <1> QED
    BY <1>1, <1>2, <1>3, <1>4

\* A root is pointed at by subvolumes only.
LEMMA HitsOfNode ==
    ASSUME V!VolumeConstants, NEW x, Shaped(x), NEW b \in Blocks, x.disk[b][1] = "node"
    PROVE  Hits(x, b) = Cardinality(RootHits(x, b))
  <1>1. b # None
    BY DEF V!VolumeConstants
  <1>2. NodeHits(x, b) = {}
    <2>1. \A r \in V!Nodes(x) : \A p \in Pos : x.disk[r][2][p] \in V!Leaves(x)
      BY LeavesAre, ShapedTyped
    <2> QED
      BY <2>1, TagsTell DEF NodeHits
  <1>3. MemHits(x, b) = {}
    <2>1. ASSUME NEW sv \in V!MemRoots(x), NEW p \in Pos PROVE x.root[sv][2][p][2] # b
      <3>1. x.root[sv][2][p] \in Links
        BY NodesAre, ShapedTyped
      <3>2. x.root[sv][2][p][1] \in {"disk", "mem"}
        BY <3>1, LinkIs
      <3> QED
        BY <1>1, <3>2, TagsTell
    <2> QED
      BY <2>1 DEF MemHits
  <1>4. LeafHits(x, b) = {}
    BY <1>1, TagsTell DEF LeafHits
  <1>5. x.rt[2] # b
    BY <1>1, TagsTell
  <1>6. Cardinality(RootHits(x, b)) \in Nat
    BY HitsFinite, ShapedTyped
  <1> QED
    BY <1>2, <1>3, <1>4, <1>5, <1>6, FS_EmptySet DEF Hits

\* A leaf is pointed at by roots only.
LEMMA HitsOfLeaf ==
    ASSUME V!VolumeConstants, NEW x, Shaped(x), NEW b \in Blocks, x.disk[b][1] = "leaf"
    PROVE  /\ Hits(x, b) = Cardinality(NodeHits(x, b)) + Cardinality(MemHits(x, b))
           /\ \A sv \in V!MemRoots(x) : \A p \in Pos :
                 x.root[sv][2][p][2] = b => x.root[sv][2][p] = <<"disk", b>>
  <1>1. b # None
    BY DEF V!VolumeConstants
  <1>2. RootHits(x, b) = {}
    BY TagsTell DEF RootHits, V!Nodes
  <1>3. LeafHits(x, b) = {}
    BY <1>1, TagsTell DEF LeafHits
  <1>4. x.rt[2] # b
    BY <1>1, TagsTell
  <1>5. ASSUME NEW sv \in V!MemRoots(x), NEW p \in Pos, x.root[sv][2][p][2] = b
        PROVE  x.root[sv][2][p] = <<"disk", b>>
    <2>1. x.root[sv][2][p] \in Links
      BY NodesAre, ShapedTyped
    <2> QED
      BY <1>1, <1>5, <2>1, LinkIs, TagsTell
  <1>6. Cardinality(NodeHits(x, b)) \in Nat /\ Cardinality(MemHits(x, b)) \in Nat
    BY HitsFinite, ShapedTyped
  <1> QED
    BY <1>2, <1>3, <1>4, <1>5, <1>6, FS_EmptySet DEF Hits

-----------------------------------------------------------------------------
(* The files: what position p of subvolume sv holds.                       *)

Where(x, sv, p) ==
    IF x.root[sv][1] = "mem"
    THEN IF x.root[sv][2][p][1] = "mem" THEN x.root[sv][2][p][2]
         ELSE x.disk[x.root[sv][2][p][2]][2]
    ELSE x.disk[x.disk[x.root[sv][2]][2][p]][2]

Holds(x, sv, p) == V!Bytes(x.disk, Where(x, sv, p))

\* The files as the volume's specification reads them.
LEMMA FilesAre ==
    ASSUME NEW x
    PROVE  V!Files(x) = [sv \in DOMAIN x.root |-> [p \in Pos |-> Holds(x, sv, p)]]
  <1>1. ASSUME NEW sv \in DOMAIN x.root, NEW p \in Pos
        PROVE  LET r == x.root[sv]
                   c == IF r[1] = "mem" THEN r[2][p] ELSE <<"disk", x.disk[r[2]][2][p]>>
               IN  V!Bytes(x.disk, IF c[1] = "mem" THEN c[2] ELSE x.disk[c[2]][2]) = Holds(x, sv, p)
    <2>1. CASE x.root[sv][1] = "mem"
      BY <2>1 DEF Holds, Where
    <2>2. CASE x.root[sv][1] # "mem"
      BY <2>2 DEF Holds, Where
    <2> QED
      BY <2>1, <2>2
  <1> QED
    BY <1>1 DEF V!Files

\* Two writers read the same files.
SameFiles(x, y) ==
    /\ DOMAIN y.root = DOMAIN x.root
    /\ \A sv \in DOMAIN x.root : \A p \in Pos : Holds(y, sv, p) = Holds(x, sv, p)

\* Which are equal as functions.
LEMMA SameFilesAre == ASSUME NEW x, NEW y, SameFiles(x, y) PROVE V!Files(y) = V!Files(x)
  <1>1. DOMAIN y.root = DOMAIN x.root
        /\ \A sv \in DOMAIN x.root : \A p \in Pos : Holds(y, sv, p) = Holds(x, sv, p)
    BY DEF SameFiles
  <1>2. /\ V!Files(x) = [sv \in DOMAIN x.root |-> [p \in Pos |-> Holds(x, sv, p)]]
        /\ V!Files(y) = [sv \in DOMAIN y.root |-> [p \in Pos |-> Holds(y, sv, p)]]
    BY FilesAre
  <1>3. \A sv \in DOMAIN x.root : [p \in Pos |-> Holds(y, sv, p)] = [p \in Pos |-> Holds(x, sv, p)]
    BY <1>1
  <1> QED
    BY <1>1, <1>2, <1>3

\* Steps that do not change what is read.
LEMMA SameFilesTwice ==
    ASSUME NEW x, NEW y, NEW z, SameFiles(x, y), SameFiles(y, z) PROVE SameFiles(x, z)
  BY DEF SameFiles

\* The trees are what is read.
LEMMA SameTreesRead == ASSUME NEW x, NEW y, SameTrees(x, y) PROVE SameFiles(x, y)
  BY DEF SameTrees, SameFiles, Holds, Where

\* Where the extent of a position is found: in a leaf on disk, under a root on
\* disk or one in memory, or in a leaf in memory.
LEMMA HoldsIs ==
    ASSUME NEW x, NEW sv, NEW p
    PROVE  /\ \A r : x.root[sv] = <<"disk", r>> =>
                    Holds(x, sv, p) = V!Bytes(x.disk, x.disk[x.disk[r][2][p]][2])
           /\ \A l : x.root[sv][1] = "mem" /\ x.root[sv][2][p] = <<"disk", l>> =>
                    Holds(x, sv, p) = V!Bytes(x.disk, x.disk[l][2])
           /\ \A e : x.root[sv][1] = "mem" /\ x.root[sv][2][p] = <<"mem", e>> =>
                    Holds(x, sv, p) = V!Bytes(x.disk, e)
  <1>1. ASSUME NEW r, x.root[sv] = <<"disk", r>>
        PROVE  Holds(x, sv, p) = V!Bytes(x.disk, x.disk[x.disk[r][2][p]][2])
    <2>1. x.root[sv][1] # "mem" /\ x.root[sv][2] = r
      BY <1>1
    <2> QED
      BY <2>1 DEF Holds, Where
  <1>2. ASSUME NEW l, x.root[sv][1] = "mem", x.root[sv][2][p] = <<"disk", l>>
        PROVE  Holds(x, sv, p) = V!Bytes(x.disk, x.disk[l][2])
    <2>1. x.root[sv][2][p][1] # "mem" /\ x.root[sv][2][p][2] = l
      BY <1>2
    <2> QED
      BY <1>2, <2>1 DEF Holds, Where
  <1>3. ASSUME NEW e, x.root[sv][1] = "mem", x.root[sv][2][p] = <<"mem", e>>
        PROVE  Holds(x, sv, p) = V!Bytes(x.disk, e)
    <2>1. x.root[sv][2][p][1] = "mem" /\ x.root[sv][2][p][2] = e
      BY <1>3
    <2> QED
      BY <1>3, <2>1 DEF Holds, Where
  <1> QED
    BY <1>1, <1>2, <1>3

\* Every position is in one of these places.
LEMMA PlacesAre ==
    ASSUME NEW x, Typed(x), NEW sv \in DOMAIN x.root, NEW p \in Pos
    PROVE  \/ \E r \in V!Nodes(x) : x.root[sv] = <<"disk", r>> /\ x.disk[r][2][p] \in V!Leaves(x)
           \/ /\ sv \in V!MemRoots(x) /\ x.root[sv][1] = "mem"
              /\ \/ \E l \in V!Leaves(x) : x.root[sv][2][p] = <<"disk", l>>
                 \/ \E e \in Blocks \cup {None} : x.root[sv][2][p] = <<"mem", e>>
  <1>1. CASE sv \in V!DiskRoots(x)
    <2>1. PICK r : r = x.root[sv][2]
      OBVIOUS
    <2>2. x.root[sv] = <<"disk", r>>
      BY <1>1, <2>1, NodesAre
    <2>3. r \in V!Nodes(x)
      BY <2>2, NodesAre
    <2> QED
      BY <2>2, <2>3, LeafOfNode
  <1>2. CASE sv \in V!MemRoots(x)
    <2>1. x.root[sv][1] = "mem" /\ x.root[sv][2] \in [Pos -> Links]
      BY <1>2, NodesAre DEF V!MemRoots
    <2>2. PICK c : c = x.root[sv][2][p]
      OBVIOUS
    <2>3. c \in Links
      BY <2>1, <2>2
    <2>4. PICK t, b : c = <<t, b>> /\ t \in {"disk", "mem"} /\ b \in Blocks \cup {None}
      BY <2>3, LinkIs
    <2>5. CASE t = "disk"
      <3>1. x.root[sv][2][p] = <<"disk", b>>
        BY <2>2, <2>4, <2>5
      <3> QED
        BY <1>2, <2>1, <3>1, LeafOfCopy
    <2>6. CASE t = "mem"
      BY <1>2, <2>1, <2>2, <2>4, <2>6
    <2> QED
      BY <2>4, <2>5, <2>6
  <1> QED
    BY <1>1, <1>2, NodesAre

\* The same root in the same blocks.
LEMMA HoldsSame ==
    ASSUME NEW x, NEW y, y.disk = x.disk, NEW sv, y.root[sv] = x.root[sv], NEW p
    PROVE  Holds(y, sv, p) = Holds(x, sv, p)
  BY DEF Holds, Where

\* The same roots in the same blocks.
SameRoots(x, y) == y.disk = x.disk /\ y.root = x.root

LEMMA HoldsAll ==
    ASSUME NEW x, NEW y, SameRoots(x, y)
    PROVE  SameFiles(x, y) /\ \A sv, p : Holds(y, sv, p) = Holds(x, sv, p)
  BY DEF SameRoots, SameFiles, Holds, Where

\* Only position p of sv is read differently, as c.
FileBecomes(x, y, sv, p, c) ==
    /\ DOMAIN y.root = DOMAIN x.root /\ Holds(y, sv, p) = c
    /\ \A u \in DOMAIN x.root : \A q \in Pos :
          u # sv \/ q # p => Holds(y, u, q) = Holds(x, u, q)

\* As it is by a writer that reads what y does, and after one that reads what x does.
LEMMA FileBecomesThen ==
    ASSUME NEW x, NEW y, NEW z, NEW sv \in DOMAIN x.root, NEW p \in Pos, NEW c
    PROVE  /\ SameFiles(x, y) /\ FileBecomes(y, z, sv, p, c) => FileBecomes(x, z, sv, p, c)
           /\ FileBecomes(x, y, sv, p, c) /\ SameFiles(y, z) => FileBecomes(x, z, sv, p, c)
           /\ FileBecomes(x, y, sv, p, c) /\ Holds(x, sv, p) = c => SameFiles(x, y)
  BY DEF SameFiles, FileBecomes

\* The trees of y are those of x, but for the root of subvolume sv.
RootBecomes(x, y, sv, c) ==
    y.disk = x.disk /\ y.rt = x.rt /\ y.root = [x.root EXCEPT ![sv] = c]

\* One root changes.
LEMMA RootBecomesIs ==
    ASSUME NEW x, NEW sv \in DOMAIN x.root, NEW c, NEW y, RootBecomes(x, y, sv, c)
    PROVE  /\ y.disk = x.disk /\ y.rt = x.rt
           /\ DOMAIN y.root = DOMAIN x.root /\ y.root[sv] = c
           /\ \A u \in DOMAIN x.root : u # sv => y.root[u] = x.root[u]
  BY DEF RootBecomes

\* f is a copy of the node in block r, which points at the same leaves.
CopyOf(x, r, f) == f = [p \in Pos |-> <<"disk", x.disk[r][2][p]>>]

\* It is read as the node was.
LEMMA CopyReads ==
    ASSUME NEW x, NEW sv \in DOMAIN x.root, NEW r, x.root[sv] = <<"disk", r>>,
           NEW f, CopyOf(x, r, f), NEW y, RootBecomes(x, y, sv, <<"mem", f>>)
    PROVE  SameFiles(x, y)
  <1>1. /\ y.disk = x.disk /\ DOMAIN y.root = DOMAIN x.root /\ y.root[sv] = <<"mem", f>>
        /\ \A u \in DOMAIN x.root : u # sv => y.root[u] = x.root[u]
    BY RootBecomesIs
  <1>2. ASSUME NEW p \in Pos PROVE Holds(y, sv, p) = Holds(x, sv, p)
    <2>1. PICK l : l = x.disk[r][2][p]
      OBVIOUS
    <2>2. Holds(x, sv, p) = V!Bytes(x.disk, x.disk[l][2])
      BY <2>1, HoldsIs
    <2>3. f[p] = <<"disk", l>>
      BY <2>1 DEF CopyOf
    <2>4. y.root[sv][1] = "mem" /\ y.root[sv][2][p] = <<"disk", l>>
      BY <1>1, <2>3
    <2>5. Holds(y, sv, p) = V!Bytes(y.disk, y.disk[l][2])
      BY <2>4, HoldsIs
    <2> QED
      BY <1>1, <2>2, <2>5
  <1>3. ASSUME NEW u \in DOMAIN x.root, NEW p \in Pos, u # sv
        PROVE  Holds(y, u, p) = Holds(x, u, p)
    BY <1>1, <1>3, HoldsSame
  <1> QED
    BY <1>1, <1>2, <1>3 DEF SameFiles

\* A subvolume's root r is copied into memory.
LEMMA CopyRoot ==
    ASSUME V!VolumeConstants, NEW x, Shaped(x), NEW sv \in DOMAIN x.root, NEW r,
           x.root[sv] = <<"disk", r>>,
           NEW f, CopyOf(x, r, f),
           NEW y, RootBecomes(x, y, sv, <<"mem", f>>)
    PROVE  /\ Shaped(y) /\ r \in Blocks /\ sv \in RootHits(x, r)
           /\ \A p \in Pos : x.disk[r][2][p] \in Blocks
           /\ \A b \in Blocks :
                 Hits(y, b) = Hits(x, b) - (IF b = r THEN 1 ELSE 0)
                              + (IF RootHits(x, r) # {sv} /\ \E p \in Pos : x.disk[r][2][p] = b
                                 THEN 1 ELSE 0)
  <1>1. /\ sv \in V!DiskRoots(x) /\ sv \notin V!MemRoots(x) /\ r \in V!Nodes(x) /\ r \in Blocks
        /\ sv \in RootHits(x, r)
    BY NodesAre, ShapedTyped DEF V!DiskRoots, RootHits
  <1>2. DOMAIN y.root = DOMAIN x.root /\ y.root[sv] = <<"mem", f>>
    BY RootBecomesIs
  <1>3. \A u \in DOMAIN x.root : u # sv => y.root[u] = x.root[u]
    BY RootBecomesIs
  <1>0. y.disk = x.disk /\ y.rt = x.rt
    BY RootBecomesIs
  <1>4. /\ V!DiskRoots(y) = V!DiskRoots(x) \ {sv}
        /\ V!MemRoots(y) = V!MemRoots(x) \cup {sv}
    BY <1>1, <1>2, <1>3 DEF V!DiskRoots, V!MemRoots
  <1>5. /\ x.disk[r] \in {"node"} \X [Pos -> Blocks]
        /\ \A p, q \in Pos : x.disk[r][2][p] = x.disk[r][2][q] => p = q
    BY <1>1 DEF Shaped, Typed
  <1>6. /\ f \in [Pos -> Links]
        /\ \A p \in Pos : f[p] = <<"disk", x.disk[r][2][p]>> /\ x.disk[r][2][p] \in Blocks
    BY <1>5 DEF Links, CopyOf
  <1>7. V!Nodes(y) = IF RootHits(x, r) = {sv} THEN V!Nodes(x) \ {r} ELSE V!Nodes(x)
    <2>1. ASSUME NEW b PROVE b \in V!Nodes(y) <=> \E u \in V!DiskRoots(x) : u # sv /\ x.root[u][2] = b
      <3>1. \A u \in V!DiskRoots(y) : u \in V!DiskRoots(x) /\ u # sv /\ y.root[u] = x.root[u]
        BY <1>3, <1>4 DEF V!DiskRoots
      <3>2. \A u \in V!DiskRoots(x) : u # sv => u \in V!DiskRoots(y) /\ y.root[u] = x.root[u]
        BY <1>3, <1>4 DEF V!DiskRoots
      <3> QED
        BY <3>1, <3>2 DEF V!Nodes
    <2>2. ASSUME NEW b, b # r PROVE b \in V!Nodes(y) <=> b \in V!Nodes(x)
      <3>1. x.root[sv][2] # b
        BY <2>2
      <3> QED
        BY <2>1, <3>1 DEF V!Nodes
    <2>3. r \in V!Nodes(y) <=> RootHits(x, r) # {sv}
      BY <1>1, <2>1 DEF RootHits
    <2>4. CASE RootHits(x, r) = {sv}
      BY <2>2, <2>3, <2>4
    <2>5. CASE RootHits(x, r) # {sv}
      <3>1. r \in V!Nodes(y)
        BY <2>3, <2>5
      <3>2. \A b : b \in V!Nodes(y) <=> b \in V!Nodes(x)
        BY <1>1, <2>2, <3>1
      <3> QED
        BY <2>5, <3>2
    <2> QED
      BY <2>4, <2>5
  <1>8. Typed(y)
    <2>1. \A u \in DOMAIN y.root : y.root[u] \in Roots
      <3>1. <<"mem", f>> \in Roots
        BY <1>6 DEF Roots
      <3>2. \A u \in DOMAIN x.root : x.root[u] \in Roots
        BY ShapedTyped DEF Typed
      <3> QED
        BY <1>2, <1>3, <3>1, <3>2
    <2>2. \A b \in V!Nodes(y) : y.disk[b] \in {"node"} \X [Pos -> Blocks]
      BY <1>0, <1>7 DEF Shaped, Typed
    <2> QED
      BY <1>0, <1>2, <2>1, <2>2, ShapedTyped DEF Typed
  <1>9. V!Leaves(y) = V!Leaves(x)
    <2>1. ASSUME NEW l, l \in V!Leaves(x) PROVE l \in V!Leaves(y)
      <3>1. CASE \E a \in V!Nodes(x) : \E p \in Pos : l = x.disk[a][2][p]
        <4>1. PICK a \in V!Nodes(x), p \in Pos : l = x.disk[a][2][p]
          BY <3>1
        <4>2. CASE a = r
          <5>1. sv \in V!MemRoots(y) /\ y.root[sv][2][p] = <<"disk", l>>
            BY <1>2, <1>4, <1>6, <4>1, <4>2
          <5> QED
            BY <1>8, <5>1, LeafOfCopy
        <4>3. CASE a # r
          BY <1>0, <1>7, <1>8, <4>1, <4>3, LeafOfNode
        <4> QED
          BY <4>2, <4>3
      <3>2. CASE \E u \in V!MemRoots(x) : \E p \in Pos : x.root[u][2][p] = <<"disk", l>>
        <4>1. PICK u \in V!MemRoots(x), p \in Pos : x.root[u][2][p] = <<"disk", l>>
          BY <3>2
        <4>2. u \in V!MemRoots(y) /\ y.root[u] = x.root[u]
          BY <1>1, <1>3, <1>4 DEF V!MemRoots
        <4> QED
          <5>1. y.root[u][2][p] = <<"disk", l>>
            BY <4>1, <4>2
          <5> QED
            BY <1>8, <4>2, <5>1, LeafOfCopy
      <3> QED
        <4>1. \/ \E a \in V!Nodes(x) : \E p \in Pos : l = x.disk[a][2][p]
              \/ \E u \in V!MemRoots(x) : \E p \in Pos : x.root[u][2][p] = <<"disk", l>>
          BY <2>1, LeafFrom, ShapedTyped
        <4> QED
          BY <3>1, <3>2, <4>1
    <2>2. ASSUME NEW l, l \in V!Leaves(y) PROVE l \in V!Leaves(x)
      <3>1. CASE \E a \in V!Nodes(y) : \E p \in Pos : l = y.disk[a][2][p]
        BY <1>0, <1>7, <3>1, LeafOfNode, ShapedTyped
      <3>2. CASE \E u \in V!MemRoots(y) : \E p \in Pos : y.root[u][2][p] = <<"disk", l>>
        <4>1. PICK u \in V!MemRoots(y), p \in Pos : y.root[u][2][p] = <<"disk", l>>
          BY <3>2
        <4>2. CASE u = sv
          BY <1>1, <1>2, <1>6, <4>1, <4>2, LeafOfNode, ShapedTyped
        <4>3. CASE u # sv
          <5>1. u \in V!MemRoots(x) /\ y.root[u] = x.root[u]
            BY <1>3, <1>4, <4>3 DEF V!MemRoots
          <5> QED
            BY <4>1, <5>1, LeafOfCopy, ShapedTyped
        <4> QED
          BY <4>2, <4>3
      <3> QED
        <4>1. \/ \E a \in V!Nodes(y) : \E p \in Pos : l = y.disk[a][2][p]
              \/ \E u \in V!MemRoots(y) : \E p \in Pos : y.root[u][2][p] = <<"disk", l>>
          BY <1>8, <2>2, LeafFrom
        <4> QED
          BY <3>1, <3>2, <4>1
    <2> QED
      BY <2>1, <2>2
  <1>10. V!MemLeaves(y) = V!MemLeaves(x)
    <2>1. ASSUME NEW u \in V!MemRoots(y), NEW p \in Pos
          PROVE  <<u, p>> \in V!MemLeaves(y) <=> <<u, p>> \in V!MemLeaves(x)
      <3>1. CASE u = sv
        BY <1>1, <1>2, <1>6, <3>1 DEF V!MemLeaves
      <3>2. CASE u # sv
        <4>1. u \in V!MemRoots(x) /\ y.root[u] = x.root[u]
          BY <1>3, <1>4, <3>2 DEF V!MemRoots
        <4> QED
          BY <4>1 DEF V!MemLeaves
      <3> QED
        BY <3>1, <3>2
    <2>2. V!MemLeaves(y) \subseteq V!MemRoots(y) \X Pos /\ V!MemLeaves(x) \subseteq V!MemRoots(y) \X Pos
      BY <1>4 DEF V!MemLeaves
    <2> QED
      <3>1. PICK A, B, S : A = V!MemLeaves(y) /\ B = V!MemLeaves(x) /\ S = V!MemRoots(y)
        OBVIOUS
      <3>2. A \subseteq S \X Pos /\ B \subseteq S \X Pos
        BY <2>2, <3>1
      <3>3. \A u \in S : \A p \in Pos : <<u, p>> \in A <=> <<u, p>> \in B
        BY <2>1, <3>1
      <3>4. A = B
        BY <3>2, <3>3, SamePairs
      <3> QED
        BY <3>1, <3>4
  <1>11. Shaped(y)
    <2>1. \A e : Extent(y, e) <=> Extent(x, e)
      BY <1>0 DEF Extent
    <2>2. \A u \in V!MemRoots(y) : \A p, q \in Pos :
              y.root[u][2][p][1] = "disk" /\ y.root[u][2][p] = y.root[u][2][q] => p = q
      <3> SUFFICES ASSUME NEW u \in V!MemRoots(y), NEW p \in Pos, NEW q \in Pos,
                          y.root[u][2][p][1] = "disk", y.root[u][2][p] = y.root[u][2][q]
                   PROVE  p = q
        OBVIOUS
      <3>1. CASE u = sv
        BY <1>2, <1>5, <1>6, <3>1
      <3>2. CASE u # sv
        <4>1. u \in V!MemRoots(x) /\ y.root[u] = x.root[u]
          BY <1>3, <1>4, <3>2 DEF V!MemRoots
        <4> QED
          BY <4>1 DEF Shaped
      <3> QED
        BY <3>1, <3>2
    <2>3. \A sp \in V!MemLeaves(y) : Extent(y, y.root[sp[1]][2][sp[2]][2])
      <3> SUFFICES ASSUME NEW sp \in V!MemLeaves(x) PROVE Extent(x, y.root[sp[1]][2][sp[2]][2])
        BY <1>10, <2>1
      <3>1. sp[1] \in V!MemRoots(x) /\ Extent(x, x.root[sp[1]][2][sp[2]][2])
        BY DEF Shaped, V!MemLeaves
      <3>2. y.root[sp[1]] = x.root[sp[1]]
        BY <1>1, <1>3, <3>1 DEF V!MemRoots
      <3> QED
        BY <3>1, <3>2
    <2>4. \A b \in V!Nodes(y) : \A p, q \in Pos : y.disk[b][2][p] = y.disk[b][2][q] => p = q
      BY <1>0, <1>7 DEF Shaped
    <2>5. \A l \in V!Leaves(y) :
             y.disk[l] \in {"leaf"} \X (Blocks \cup {None}) /\ Extent(y, y.disk[l][2])
      BY <1>0, <1>9, <2>1 DEF Shaped
    <2> QED
      BY <1>0, <1>8, <2>2, <2>3, <2>4, <2>5 DEF Shaped
  <1>12. ASSUME NEW b \in Blocks
         PROVE  Hits(y, b) = Hits(x, b) - (IF b = r THEN 1 ELSE 0)
                              + (IF RootHits(x, r) # {sv} /\ \E p \in Pos : x.disk[r][2][p] = b
                                 THEN 1 ELSE 0)
    <2> DEFINE alone == RootHits(x, r) = {sv}
               child == \E p \in Pos : x.disk[r][2][p] = b
               kid == CHOOSE p \in Pos : x.disk[r][2][p] = b
    <2>1. child => kid \in Pos /\ \A p \in Pos : x.disk[r][2][p] = b <=> p = kid
      BY <1>5
    <2> HIDE DEF kid
    <2>2. Cardinality(RootHits(y, b)) = Cardinality(RootHits(x, b)) - (IF b = r THEN 1 ELSE 0)
      <3>1. RootHits(y, b) = RootHits(x, b) \ {sv}
        BY <1>3, <1>4 DEF RootHits, V!DiskRoots
      <3>2. sv \in RootHits(x, b) <=> b = r
        BY <1>1 DEF RootHits
      <3>3. IsFiniteSet(RootHits(x, b)) /\ Cardinality(RootHits(x, b)) \in Nat
        BY HitsFinite, ShapedTyped
      <3>4. CASE b = r
        BY <3>1, <3>2, <3>3, <3>4, OneLess
      <3>5. CASE b # r
        <4>1. RootHits(y, b) = RootHits(x, b)
          BY <3>1, <3>2, <3>5
        <4> QED
          BY <3>3, <3>5, <4>1
      <3> QED
        BY <3>4, <3>5
    <2>3. Cardinality(MemHits(y, b)) = Cardinality(MemHits(x, b)) + (IF child THEN 1 ELSE 0)
      <3>1. ASSUME NEW u \in V!MemRoots(y), NEW p \in Pos
            PROVE  <<u, p>> \in MemHits(y, b) <=>
                      <<u, p>> \in MemHits(x, b) \/ (u = sv /\ x.disk[r][2][p] = b)
        <4>1. CASE u = sv
          BY <1>1, <1>2, <1>6, <4>1 DEF MemHits
        <4>2. CASE u # sv
          <5>1. u \in V!MemRoots(x) /\ y.root[u] = x.root[u]
            BY <1>3, <1>4, <4>2 DEF V!MemRoots
          <5> QED
            BY <4>2, <5>1 DEF MemHits
        <4> QED
          BY <4>1, <4>2
      <3>2. MemHits(y, b) \subseteq V!MemRoots(y) \X Pos /\ MemHits(x, b) \subseteq V!MemRoots(y) \X Pos
        BY <1>4 DEF MemHits
      <3>3. sv \in V!MemRoots(y) /\ <<sv, kid>> \notin MemHits(x, b)
        BY <1>1, <1>4 DEF MemHits
      <3>4. CASE child
        <4>1. MemHits(y, b) = MemHits(x, b) \cup {<<sv, kid>>}
          BY <2>1, <3>1, <3>2, <3>3, <3>4
        <4> QED
          BY <3>3, <3>4, <4>1, OneMoreIs, HitsFinite, ShapedTyped
      <3>5. CASE ~child
        <4>1. MemHits(y, b) = MemHits(x, b)
          <5>1. \A u \in V!MemRoots(y) : \A p \in Pos :
                    <<u, p>> \in MemHits(y, b) <=> <<u, p>> \in MemHits(x, b)
            BY <3>1, <3>5
          <5> QED
            <6>1. PICK A, B, S : A = MemHits(y, b) /\ B = MemHits(x, b) /\ S = V!MemRoots(y)
              OBVIOUS
            <6>2. A \subseteq S \X Pos /\ B \subseteq S \X Pos
              BY <3>2, <6>1
            <6>3. \A u \in S : \A p \in Pos : <<u, p>> \in A <=> <<u, p>> \in B
              BY <5>1, <6>1
            <6>4. A = B
              BY <6>2, <6>3, SamePairs
            <6> QED
              BY <6>1, <6>4
        <4> QED
          BY <3>5, <4>1, HitsFinite, ShapedTyped
      <3> QED
        BY <3>4, <3>5
    <2>4. LeafHits(y, b) = LeafHits(x, b)
      BY <1>0, <1>9 DEF LeafHits
    <2>5. Cardinality(NodeHits(y, b)) =
             Cardinality(NodeHits(x, b)) - (IF alone /\ child THEN 1 ELSE 0)
      <3>1. CASE ~alone
        <4>1. NodeHits(y, b) = NodeHits(x, b)
          BY <1>0, <1>7, <3>1 DEF NodeHits
        <4> QED
          BY <3>1, <4>1, HitsFinite, ShapedTyped
      <3>2. CASE alone /\ ~child
        <4>1. NodeHits(y, b) = NodeHits(x, b)
          BY <1>0, <1>7, <3>2 DEF NodeHits
        <4> QED
          BY <3>2, <4>1, HitsFinite, ShapedTyped
      <3>3. CASE alone /\ child
        <4>1. NodeHits(y, b) = NodeHits(x, b) \ {<<r, kid>>}
          BY <1>0, <1>7, <2>1, <3>3 DEF NodeHits
        <4>2. <<r, kid>> \in NodeHits(x, b)
          BY <1>1, <2>1, <3>3 DEF NodeHits
        <4> QED
          BY <3>3, <4>1, <4>2, OneLess, HitsFinite, ShapedTyped
      <3> QED
        BY <3>1, <3>2, <3>3
    <2>6. /\ Cardinality(RootHits(x, b)) \in Nat /\ Cardinality(NodeHits(x, b)) \in Nat
          /\ Cardinality(MemHits(x, b)) \in Nat /\ Cardinality(LeafHits(x, b)) \in Nat
      BY HitsFinite, ShapedTyped
    <2> DEFINE own == IF b = r THEN 1 ELSE 0
               more == IF ~alone /\ child THEN 1 ELSE 0
               all4 == IF child THEN 1 ELSE 0
               less == IF alone /\ child THEN 1 ELSE 0
               top == IF x.rt[2] = b THEN 1 ELSE 0
    <2> HIDE DEF child, alone
    <2>7. own \in Int /\ more \in Int /\ less \in Int /\ top \in Int /\ all4 = more + less
      OBVIOUS
    <2>8. /\ Cardinality(RootHits(y, b)) = Cardinality(RootHits(x, b)) - own
          /\ Cardinality(MemHits(y, b)) = Cardinality(MemHits(x, b)) + all4
          /\ Cardinality(NodeHits(y, b)) = Cardinality(NodeHits(x, b)) - less
      BY <2>2, <2>3, <2>5
    <2>9. /\ Hits(x, b) = top + Cardinality(RootHits(x, b)) + Cardinality(NodeHits(x, b))
                            + Cardinality(MemHits(x, b)) + Cardinality(LeafHits(x, b))
          /\ Hits(y, b) = top + Cardinality(RootHits(y, b)) + Cardinality(NodeHits(y, b))
                            + Cardinality(MemHits(y, b)) + Cardinality(LeafHits(y, b))
      BY <1>0 DEF Hits
    <2> HIDE DEF own, more, all4, less, top
    <2>10. Hits(y, b) = Hits(x, b) - own + more
      BY <2>4, <2>6, <2>7, <2>8, <2>9
    <2> QED
      BY <2>10 DEF own, more, child, alone
  <1> QED
    BY <1>1, <1>6, <1>11, <1>12

-----------------------------------------------------------------------------
(* Pointers come and go.                                                   *)

\* There are finitely many pointers.
LEMMA PointersFinite ==
    ASSUME V!VolumeConstants, NEW x, Typed(x)
    PROVE  IsFiniteSet(V!Pointers(x))
  BY CountSum

\* The count after pointers go and others come.
LEMMA CountMoved ==
    ASSUME NEW E, IsFiniteSet(E), NEW gone, gone \subseteq E,
           NEW came, IsFiniteSet(came), came \cap (E \ gone) = {},
           NEW G, G = (E \ gone) \cup came, NEW b
    PROVE  V!Count(G, b) = V!Count(E, b) - V!Count(gone, b) + V!Count(came, b)
  <1>1. PICK stay : stay = E \ gone
    OBVIOUS
  <1>2. IsFiniteSet(stay) /\ IsFiniteSet(gone)
    BY <1>1, FS_Subset
  <1>3. V!Count(E, b) = V!Count(stay, b) + V!Count(gone, b)
    <2>1. stay \cap gone = {} /\ E = stay \cup gone
      BY <1>1
    <2> QED
      BY <1>2, <2>1, CountUnion
  <1>4. V!Count(G, b) = V!Count(stay, b) + V!Count(came, b)
    <2>1. stay \cap came = {} /\ G = stay \cup came
      BY <1>1
    <2> QED
      BY <1>2, <2>1, CountUnion
  <1>5. V!Count(stay, b) \in Nat /\ V!Count(gone, b) \in Nat /\ V!Count(came, b) \in Nat
    BY <1>2, CountNat
  <1> QED
    BY <1>3, <1>4, <1>5

\* The pointers, by where they are.
LEMMA PointersAre ==
    ASSUME NEW x, NEW e
    PROVE  e \in V!Pointers(x) <=>
             \/ e = <<"roots", 0, 0, x.rt[2]>>
             \/ \E sv \in V!DiskRoots(x) : e = <<"root", sv, 0, x.root[sv][2]>>
             \/ \E r \in V!Nodes(x) : \E p \in Pos : e = <<"node", r, p, x.disk[r][2][p]>>
             \/ \E sv \in V!MemRoots(x) : \E p \in Pos : e = <<"mem", sv, p, x.root[sv][2][p][2]>>
             \/ \E l \in V!Leaves(x) : e = <<"leaf", l, 0, x.disk[l][2]>>
  <1> DEFINE P2 == {<<"root", sv, 0, x.root[sv][2]>> : sv \in V!DiskRoots(x)}
             P3 == {<<"node", rp[1], rp[2], x.disk[rp[1]][2][rp[2]]>> : rp \in V!Nodes(x) \X Pos}
             P4 == {<<"mem", sp[1], sp[2], x.root[sp[1]][2][sp[2]][2]>> : sp \in V!MemRoots(x) \X Pos}
             P5 == {<<"leaf", l, 0, x.disk[l][2]>> : l \in V!Leaves(x)}
  <1>1. e \in P2 <=> \E sv \in V!DiskRoots(x) : e = <<"root", sv, 0, x.root[sv][2]>>
    OBVIOUS
  <1>2. e \in P3 <=> \E r \in V!Nodes(x) : \E p \in Pos : e = <<"node", r, p, x.disk[r][2][p]>>
    <2>1. ASSUME e \in P3
          PROVE  \E r \in V!Nodes(x) : \E p \in Pos : e = <<"node", r, p, x.disk[r][2][p]>>
      BY <2>1
    <2>2. ASSUME NEW r \in V!Nodes(x), NEW p \in Pos, e = <<"node", r, p, x.disk[r][2][p]>>
          PROVE  e \in P3
      <3>1. PICK rp \in V!Nodes(x) \X Pos : rp = <<r, p>>
        OBVIOUS
      <3>2. e = <<"node", rp[1], rp[2], x.disk[rp[1]][2][rp[2]]>>
        BY <2>2, <3>1
      <3> QED
        BY <3>2
    <2> QED
      BY <2>1, <2>2
  <1>3. e \in P4 <=> \E sv \in V!MemRoots(x) : \E p \in Pos : e = <<"mem", sv, p, x.root[sv][2][p][2]>>
    <2>1. ASSUME e \in P4
          PROVE  \E sv \in V!MemRoots(x) : \E p \in Pos : e = <<"mem", sv, p, x.root[sv][2][p][2]>>
      BY <2>1
    <2>2. ASSUME NEW sv \in V!MemRoots(x), NEW p \in Pos, e = <<"mem", sv, p, x.root[sv][2][p][2]>>
          PROVE  e \in P4
      <3>1. PICK sp \in V!MemRoots(x) \X Pos : sp = <<sv, p>>
        OBVIOUS
      <3>2. e = <<"mem", sp[1], sp[2], x.root[sp[1]][2][sp[2]][2]>>
        BY <2>2, <3>1
      <3> QED
        BY <3>2
    <2> QED
      BY <2>1, <2>2
  <1>4. e \in P5 <=> \E l \in V!Leaves(x) : e = <<"leaf", l, 0, x.disk[l][2]>>
    OBVIOUS
  <1>5. V!Pointers(x) = (((({<<"roots", 0, 0, x.rt[2]>>} \cup P2) \cup P3) \cup P4) \cup P5)
    BY DEF V!Pointers
  <1> HIDE DEF P2, P3, P4, P5
  <1> QED
    BY <1>1, <1>2, <1>3, <1>4, <1>5

\* What is counted without a pointer.
LEMMA SoundLeaks ==
    ASSUME V!VolumeConstants, NEW x, NEW k, Sound(x, k)
    PROVE  /\ Leaky(x) /\ \A b \in Blocks : x.leaked[b] \in Nat /\ Extra(x, k, b) \in Nat
           /\ \A b \in Blocks : x.disk[b][1] # "data" => Extra(x, k, b) = 0
  <1>1. Leaky(x) /\ \A b \in Blocks : x.leaked[b] \in Nat
    BY DEF Sound, Leaky
  <1>2. \A b \in Blocks : x.disk[b][1] # "data" => x.leaked[b] = 0
    BY <1>1 DEF Leaky
  <1>3. ASSUME NEW b \in Blocks, x.disk[b][1] # "data" PROVE b # k
    <2>1. Extent(x, k) /\ None \notin Blocks
      BY DEF Sound, V!VolumeConstants
    <2> QED
      BY <1>3, <2>1 DEF Extent
  <1> QED
    BY <1>1, <1>2, <1>3 DEF Extra

\* It stays where the blocks stay.
LEMMA LeaksStay ==
    ASSUME NEW x, Leaky(x), NEW y, y.leaked = x.leaked,
           \A b \in Blocks : x.leaked[b] > 0 => y.disk[b] = x.disk[b]
    PROVE  Leaky(y) /\ \A k, b : Extra(y, k, b) = Extra(x, k, b)
  <1>1. Leaky(y)
    <2>1. y.leaked \in [Blocks -> Nat]
      BY DEF Leaky
    <2>2. \A b \in Blocks : y.leaked[b] > 0 => y.disk[b][1] = "data"
      BY DEF Leaky
    <2> QED
      BY <2>1, <2>2 DEF Leaky
  <1> QED
    BY <1>1 DEF Extra

\* A block that is pointed at is counted.
LEMMA Pointed ==
    ASSUME V!VolumeConstants, NEW x, NEW k, Sound(x, k), NEW e \in V!Pointers(x), e[4] \in Blocks
    PROVE  x.refs[e[4]] > 0
  <1>1. IsFiniteSet(V!Pointers(x))
    BY PointersFinite, ShapedTyped DEF Sound
  <1>2. V!Count(V!Pointers(x), e[4]) \in Nat /\ V!Count(V!Pointers(x), e[4]) # 0
    BY <1>1, CountNat
  <1>3. x.refs[e[4]] = V!Count(V!Pointers(x), e[4]) + Extra(x, k, e[4])
    BY DEF Sound, Exact
  <1>4. Extra(x, k, e[4]) \in Nat
    BY SoundLeaks
  <1> QED
    BY <1>2, <1>3, <1>4

-----------------------------------------------------------------------------
(* Copying into memory.                                                    *)

\* The blocks are as they were, no more may be written, and the subvolumes
\* are the same.
Keeps(x, y) ==
    /\ y.disk = x.disk /\ SameRest(x, y) /\ Spare(y) \subseteq Spare(x)
    /\ DOMAIN y.root = DOMAIN x.root

\* Two steps that write no block.
LEMMA KeepsTwice == ASSUME NEW x, NEW y, NEW z, Keeps(x, y), Keeps(y, z) PROVE Keeps(x, z)
  BY DEF Keeps, SameRest

\* A set with one element.
LEMMA AloneIs ==
    ASSUME NEW S, IsFiniteSet(S), NEW e \in S
    PROVE  Cardinality(S) \in Nat /\ (Cardinality(S) > 1 <=> S # {e})
  <1>1. PICK T : T = S \ {e}
    OBVIOUS
  <1>2. IsFiniteSet(T) /\ Cardinality(T) = Cardinality(S) - 1
    BY <1>1, OneLess, FS_Subset
  <1>3. Cardinality(T) = 0 <=> T = {}
    BY <1>2, FS_EmptySet
  <1>4. Cardinality(S) \in Nat /\ Cardinality(T) \in Nat
    BY <1>2, FS_CardinalityType
  <1>5. T = {} <=> S = {e}
    BY <1>1
  <1> QED
    BY <1>2, <1>3, <1>4, <1>5

\* What a copy on write does to the tables.
LEMMA CowTables ==
    ASSUME NEW x, DOMAIN x = WriterFields, Tables(x), None \notin Blocks, NEW c \in Blocks,
           x.refs[c] > 0, NEW S, \A b \in Blocks : b \in S => x.refs[b] > 0
    PROVE  LET y == V!Cow(x, c, S)
           IN  /\ DOMAIN y = WriterFields /\ SameTrees(x, y) /\ SameRest(x, y)
               /\ Tables(y) /\ Spare(y) \subseteq Spare(x)
               /\ \A b \in Blocks : y.refs[b] = x.refs[b] - (IF b = c THEN 1 ELSE 0)
                                        + (IF x.refs[c] > 1 /\ b \in S THEN 1 ELSE 0)
  <1>0. x.refs \in [Blocks -> Nat]
    BY DEF Tables
  <1>1. PICK R : R = [b \in Blocks |-> x.refs[b] + (IF x.refs[c] > 1 /\ b \in S THEN 1 ELSE 0)]
    OBVIOUS
  <1>2. R \in [Blocks -> Nat] /\ (\A b \in Blocks : R[b] = 0 <=> x.refs[b] = 0) /\ R[c] > 0
        /\ \A b \in Blocks : R[b] = x.refs[b] + (IF x.refs[c] > 1 /\ b \in S THEN 1 ELSE 0)
    BY <1>0, <1>1
  <1>3. PICK z : z = IF x.refs[c] > 1 THEN V!IncrefAll(x, S) ELSE x
    OBVIOUS
  <1>4. /\ DOMAIN z = WriterFields /\ SameTrees(x, z) /\ SameRest(x, z)
        /\ Tables(z) /\ z.refs = R /\ Spare(z) = Spare(x)
    <2>1. CASE x.refs[c] > 1
      <3>1. R = [b \in Blocks |-> IF b \in S THEN x.refs[b] + 1 ELSE x.refs[b]]
        BY <1>0, <1>1, <2>1
      <3>2. z = [x EXCEPT !.refs = R]
        BY <1>3, <2>1, <3>1 DEF V!IncrefAll
      <3> QED
        BY <1>2, <3>2, RaiseTables
    <2>2. CASE ~(x.refs[c] > 1)
      <3>1. R = x.refs
        BY <1>0, <1>1, <2>2
      <3>2. z = x
        BY <1>3, <2>2
      <3> QED
        BY <3>1, <3>2 DEF SameTrees, SameRest
    <2> QED
      BY <2>1, <2>2
  <1>5. V!Cow(x, c, S) = V!Decref(z, c)
    BY <1>3 DEF V!Cow
  <1>6. PICK y : y = V!Decref(z, c)
    OBVIOUS
  <1>7. /\ DOMAIN y = WriterFields /\ SameTrees(z, y) /\ SameRest(z, y)
        /\ Tables(y) /\ Spare(y) \subseteq Spare(z)
        /\ \A b \in Blocks : y.refs[b] = z.refs[b] - (IF b = c THEN 1 ELSE 0)
    BY <1>2, <1>4, <1>6, DecrefTables
  <1>8. SameTrees(x, y) /\ SameRest(x, y) /\ Spare(y) \subseteq Spare(x)
    BY <1>4, <1>7 DEF SameTrees, SameRest
  <1>9. \A b \in Blocks : y.refs[b] = x.refs[b] - (IF b = c THEN 1 ELSE 0)
                                        + (IF x.refs[c] > 1 /\ b \in S THEN 1 ELSE 0)
    BY <1>0, <1>2, <1>4, <1>7
  <1> QED
    BY <1>5, <1>6, <1>7, <1>8, <1>9

\* A root is set.
LEMMA SetRoot ==
    ASSUME NEW x, DOMAIN x = WriterFields, Tables(x), NEW sv \in DOMAIN x.root, NEW c,
           NEW y, y = [x EXCEPT !.root[sv] = c]
    PROVE  /\ DOMAIN y = WriterFields /\ RootBecomes(x, y, sv, c) /\ SameRest(x, y)
           /\ Tables(y) /\ y.refs = x.refs /\ Spare(y) = Spare(x)
           /\ y.disk = x.disk /\ DOMAIN y.root = DOMAIN x.root
  <1>1. DOMAIN y = WriterFields
    OBVIOUS
  <1>2. /\ y.disk = x.disk /\ y.refs = x.refs /\ y.free = x.free /\ y.fresh = x.fresh
        /\ y.pinned = x.pinned /\ y.dedup = x.dedup /\ y.ro = x.ro /\ y.rt = x.rt
        /\ y.default = x.default /\ y.leaked = x.leaked
    BY DEF WriterFields
  <1>3. y.root = [x.root EXCEPT ![sv] = c]
    BY DEF WriterFields
  <1>4. Tables(y)
    BY <1>2 DEF Tables
  <1> QED
    BY <1>1, <1>2, <1>3, <1>4 DEF RootBecomes, SameRest, Spare

\* Its trees and its tables, and the counts in both.
LEMMA SoundFrom ==
    ASSUME V!VolumeConstants, NEW x, NEW k, DOMAIN x = WriterFields, Shaped(x), Tables(x),
           Leaky(x), k \in Blocks \cup {None}, Extent(x, k),
           \A b \in Blocks : x.refs[b] = Hits(x, b) + Extra(x, k, b)
    PROVE  Sound(x, k)
  <1>1. \A b : V!Count(V!Pointers(x), b) = Hits(x, b)
    BY CountSum, ShapedTyped
  <1> QED
    BY <1>1 DEF Sound, Exact

\* What a sound writer is, in pointers of each kind.
LEMMA SoundHits ==
    ASSUME V!VolumeConstants, NEW x, NEW k, Sound(x, k)
    PROVE  /\ DOMAIN x = WriterFields /\ Shaped(x) /\ Typed(x) /\ Tables(x)
           /\ k \in Blocks \cup {None} /\ Extent(x, k) /\ None \notin Blocks
           /\ \A b \in Blocks : /\ x.refs[b] \in Nat /\ Hits(x, b) \in Nat
                                /\ x.refs[b] = Hits(x, b) + Extra(x, k, b)
  <1>1. Shaped(x) /\ Typed(x)
    BY ShapedTyped DEF Sound
  <1>2. \A b : V!Count(V!Pointers(x), b) = Hits(x, b) /\ Hits(x, b) \in Nat
    BY <1>1, CountSum, PointersFinite, CountNat
  <1>3. \A b \in Blocks : x.refs[b] = Hits(x, b) + Extra(x, k, b)
    BY <1>2 DEF Sound, Exact
  <1>4. \A b \in Blocks : x.refs[b] \in Nat
    BY DEF Sound, Tables
  <1> QED
    BY <1>1, <1>2, <1>3, <1>4 DEF Sound, V!VolumeConstants

\* A root copied into memory.
LEMMA MemRootSound ==
    ASSUME V!VolumeConstants, NEW x, NEW k, Sound(x, k), NEW sv \in DOMAIN x.root,
           NEW y, y = V!MemRoot(x, sv)
    PROVE  Sound(y, k) /\ Keeps(x, y) /\ y.root[sv][1] = "mem" /\ SameFiles(x, y)
  <1>1. /\ DOMAIN x = WriterFields /\ Shaped(x) /\ Typed(x) /\ Tables(x)
        /\ k \in Blocks \cup {None} /\ Extent(x, k) /\ None \notin Blocks
        /\ \A b \in Blocks : /\ x.refs[b] \in Nat /\ Hits(x, b) \in Nat
                             /\ x.refs[b] = Hits(x, b) + Extra(x, k, b)
    BY SoundHits
  <1>2. CASE x.root[sv][1] = "mem"
    <2>1. y = x
      BY <1>2 DEF V!MemRoot
    <2> QED
      BY <1>2, <2>1 DEF Keeps, SameRest, SameFiles
  <1>3. CASE x.root[sv][1] # "mem"
    <2>1. PICK r : r = x.root[sv][2]
      OBVIOUS
    <2>2. x.root[sv] = <<"disk", r>> /\ sv \in V!DiskRoots(x) /\ r \in V!Nodes(x) /\ r \in Blocks
      BY <1>1, <1>3, <2>1, NodesAre DEF V!MemRoots, V!Nodes
    <2>3. x.disk[r] \in {"node"} \X [Pos -> Blocks]
      BY <1>1, <2>2 DEF Typed
    <2>4. PICK f : f = [p \in Pos |-> <<"disk", x.disk[r][2][p]>>]
      OBVIOUS
    <2>41. CopyOf(x, r, f)
      BY <2>4 DEF CopyOf
    <2>5. PICK S : S = V!Range(x.disk[r][2])
      OBVIOUS
    <2>6. \A b : b \in S <=> \E p \in Pos : x.disk[r][2][p] = b
      BY <2>3, <2>5 DEF V!Range
    <2>7. x.refs[r] > 0
      <3>1. <<"root", sv, 0, r>> \in V!Pointers(x)
        BY <2>1, <2>2, PointersAre
      <3> QED
        BY <2>2, <3>1, Pointed
    <2>8. \A b \in Blocks : b \in S => x.refs[b] > 0
      <3> SUFFICES ASSUME NEW p \in Pos PROVE x.refs[x.disk[r][2][p]] > 0
        BY <2>6
      <3>1. <<"node", r, p, x.disk[r][2][p]>> \in V!Pointers(x)
        BY <2>2, PointersAre
      <3>2. x.disk[r][2][p] \in Blocks
        BY <2>3
      <3> QED
        BY <3>1, <3>2, Pointed
    <2>9. PICK z : z = V!Cow(x, r, S)
      OBVIOUS
    <2>10. /\ DOMAIN z = WriterFields /\ SameTrees(x, z) /\ SameRest(x, z)
           /\ Tables(z) /\ Spare(z) \subseteq Spare(x)
           /\ \A b \in Blocks : z.refs[b] = x.refs[b] - (IF b = r THEN 1 ELSE 0)
                                        + (IF x.refs[r] > 1 /\ b \in S THEN 1 ELSE 0)
      BY <1>1, <2>2, <2>7, <2>8, <2>9, CowTables
    <2>11. y = [z EXCEPT !.root[sv] = <<"mem", f>>]
      BY <1>3, <2>1, <2>4, <2>5, <2>9 DEF V!MemRoot
    <2>12. sv \in DOMAIN z.root /\ z.root = x.root /\ z.disk = x.disk /\ z.rt = x.rt
      BY <2>10 DEF SameTrees
    <2>13. /\ DOMAIN y = WriterFields /\ RootBecomes(z, y, sv, <<"mem", f>>) /\ SameRest(z, y)
           /\ Tables(y) /\ y.refs = z.refs /\ Spare(y) = Spare(z)
           /\ y.disk = z.disk /\ DOMAIN y.root = DOMAIN z.root
      BY <2>10, <2>11, <2>12, SetRoot
    <2>14. RootBecomes(x, y, sv, <<"mem", f>>)
      BY <2>12, <2>13 DEF RootBecomes
    <2>15. /\ Shaped(y) /\ r \in Blocks /\ sv \in RootHits(x, r)
           /\ \A p \in Pos : x.disk[r][2][p] \in Blocks
           /\ \A b \in Blocks :
                 Hits(y, b) = Hits(x, b) - (IF b = r THEN 1 ELSE 0)
                              + (IF RootHits(x, r) # {sv} /\ \E p \in Pos : x.disk[r][2][p] = b
                                 THEN 1 ELSE 0)
      <3>1. Shaped(x)
        BY <1>1
      <3>2. x.root[sv] = <<"disk", r>>
        BY <2>2
      <3> QED
        BY <3>1, <3>2, <2>41, <2>14, CopyRoot
    <2>16. x.refs[r] > 1 <=> RootHits(x, r) # {sv}
      <3>1. x.disk[r][1] = "node"
        BY <2>3
      <3>2. Extra(x, k, r) = 0
        BY <2>2, <3>1, SoundLeaks
      <3>3. x.refs[r] = Cardinality(RootHits(x, r))
        BY <1>1, <2>2, <3>1, <3>2, HitsOfNode
      <3>4. IsFiniteSet(RootHits(x, r))
        BY <1>1, HitsFinite
      <3> QED
        BY <2>15, <3>3, <3>4, AloneIs
    <2>23. Leaky(y) /\ \A b : Extra(y, k, b) = Extra(x, k, b)
      <3>1. y.leaked = x.leaked /\ y.disk = x.disk
        BY <2>10, <2>12, <2>13 DEF SameRest
      <3> QED
        BY <3>1, SoundLeaks, LeaksStay
    <2>17. ASSUME NEW b \in Blocks PROVE y.refs[b] = Hits(y, b) + Extra(y, k, b)
      <3> DEFINE own == IF b = r THEN 1 ELSE 0
                 extra == Extra(x, k, b)
                 more == IF x.refs[r] > 1 /\ b \in S THEN 1 ELSE 0
      <3>1. own \in Nat /\ extra \in Nat /\ more \in Nat
        BY SoundLeaks
      <3>2. Hits(y, b) = Hits(x, b) - own + more
        BY <2>6, <2>15, <2>16
      <3>3. y.refs[b] = x.refs[b] - own + more
        BY <2>10, <2>13
      <3>4. x.refs[b] = Hits(x, b) + extra /\ Hits(x, b) \in Nat
        BY <1>1
      <3> HIDE DEF own, extra, more
      <3>5. y.refs[b] = Hits(y, b) + extra
        BY <3>1, <3>2, <3>3, <3>4
      <3> QED
        BY <2>23, <3>5 DEF extra
    <2>18. Extent(y, k)
      BY <1>1, <2>12, <2>13 DEF Extent
    <2>19. Sound(y, k)
      BY <1>1, <2>13, <2>15, <2>17, <2>18, <2>23, SoundFrom
    <2>20. y.root[sv][1] = "mem"
      BY <2>14, RootBecomesIs
    <2>21. SameFiles(x, y)
      BY <2>2, <2>41, <2>14, CopyReads
    <2>22. Keeps(x, y)
      BY <2>10, <2>12, <2>13 DEF Keeps, SameRest
    <2> QED
      BY <2>19, <2>20, <2>21, <2>22
  <1> QED
    BY <1>2, <1>3

-----------------------------------------------------------------------------
(* An item of a leaf in memory.                                            *)

\* The trees of y are those of x, but for position p of subvolume sv, which
\* is in memory and holds extent e.
ItemBecomes(x, y, sv, p, e) ==
    RootBecomes(x, y, sv, <<"mem", [x.root[sv][2] EXCEPT ![p] = <<"mem", e>>]>>)

\* One item of a root in memory changes.
LEMMA ItemBecomesIs ==
    ASSUME NEW x, Typed(x), NEW sv \in V!MemRoots(x), NEW p \in Pos,
           NEW e \in Blocks \cup {None}, NEW y, ItemBecomes(x, y, sv, p, e)
    PROVE  /\ y.disk = x.disk /\ y.rt = x.rt
           /\ DOMAIN y.root = DOMAIN x.root
           /\ y.root[sv][1] = "mem" /\ y.root[sv] \in Roots
           /\ y.root[sv][2][p] = <<"mem", e>>
           /\ \A q \in Pos : q # p => y.root[sv][2][q] = x.root[sv][2][q]
           /\ \A u \in DOMAIN x.root : u # sv => y.root[u] = x.root[u]
  <1>1. sv \in DOMAIN x.root /\ x.root[sv][2] \in [Pos -> Links]
    BY NodesAre DEF V!MemRoots
  <1>2. PICK f : f = [x.root[sv][2] EXCEPT ![p] = <<"mem", e>>]
    OBVIOUS
  <1>3. /\ f \in [Pos -> Links] /\ f[p] = <<"mem", e>>
        /\ \A q \in Pos : q # p => f[q] = x.root[sv][2][q]
    <2>1. <<"mem", e>> \in Links
      BY DEF Links
    <2> QED
      BY <1>1, <1>2, <2>1
  <1>4. RootBecomes(x, y, sv, <<"mem", f>>)
    BY <1>2 DEF ItemBecomes
  <1>5. /\ y.disk = x.disk /\ y.rt = x.rt
        /\ DOMAIN y.root = DOMAIN x.root /\ y.root[sv] = <<"mem", f>>
        /\ \A u \in DOMAIN x.root : u # sv => y.root[u] = x.root[u]
    BY <1>1, <1>4, RootBecomesIs
  <1>6. <<"mem", f>> \in Roots
    BY <1>3 DEF Roots
  <1> QED
    BY <1>3, <1>5, <1>6

\* That item alone is read differently.
LEMMA ItemReads ==
    ASSUME NEW x, Typed(x), NEW sv \in V!MemRoots(x), NEW p \in Pos,
           NEW e \in Blocks \cup {None}, NEW y, ItemBecomes(x, y, sv, p, e)
    PROVE  FileBecomes(x, y, sv, p, V!Bytes(x.disk, e))
  <1>1. /\ y.disk = x.disk /\ DOMAIN y.root = DOMAIN x.root
        /\ y.root[sv][1] = "mem" /\ y.root[sv][2][p] = <<"mem", e>>
        /\ \A q \in Pos : q # p => y.root[sv][2][q] = x.root[sv][2][q]
        /\ \A u \in DOMAIN x.root : u # sv => y.root[u] = x.root[u]
    BY ItemBecomesIs
  <1>2. Holds(y, sv, p) = V!Bytes(x.disk, e)
    BY <1>1, HoldsIs
  <1>3. ASSUME NEW q \in Pos, q # p PROVE Holds(y, sv, q) = Holds(x, sv, q)
    <2>1. x.root[sv][1] = "mem" /\ y.root[sv][2][q] = x.root[sv][2][q]
      BY <1>1, <1>3 DEF V!MemRoots
    <2>2. PICK c, d : c = x.root[sv][2][q] /\ d = x.disk
      OBVIOUS
    <2>3. /\ x.root[sv][1] = "mem" /\ x.root[sv][2][q] = c /\ x.disk = d
          /\ y.root[sv][1] = "mem" /\ y.root[sv][2][q] = c /\ y.disk = d
      BY <1>1, <2>1, <2>2
    <2> QED
      BY <2>3 DEF Holds, Where
  <1>4. ASSUME NEW u \in DOMAIN x.root, NEW q \in Pos, u # sv
        PROVE  Holds(y, u, q) = Holds(x, u, q)
    BY <1>1, <1>4, HoldsSame
  <1> QED
    BY <1>1, <1>2, <1>3, <1>4 DEF FileBecomes

\* Where a leaf that position p of sv points at is pointed at from only there.
OnlyFrom(x, l, sv, p) == NodeHits(x, l) = {} /\ MemHits(x, l) = {<<sv, p>>}

\* It moves the references of one position, and of a leaf that goes.
LEMMA SetItem ==
    ASSUME V!VolumeConstants, NEW x, Shaped(x), NEW sv \in V!MemRoots(x), NEW p \in Pos,
           NEW e \in Blocks \cup {None}, Extent(x, e), NEW c, c = x.root[sv][2][p],
           NEW y, ItemBecomes(x, y, sv, p, e)
    PROVE  /\ Shaped(y) /\ sv \in V!MemRoots(y)
           /\ \A b \in Blocks :
                Hits(y, b) = Hits(x, b) - (IF b = c[2] THEN 1 ELSE 0) + (IF b = e THEN 1 ELSE 0)
                  - (IF c[1] = "disk" /\ OnlyFrom(x, c[2], sv, p) /\ x.disk[c[2]][2] = b
                     THEN 1 ELSE 0)
  <1>1. Typed(x) /\ sv \in DOMAIN x.root
    BY ShapedTyped DEF V!MemRoots
  <1>2. y.disk = x.disk /\ y.rt = x.rt /\ DOMAIN y.root = DOMAIN x.root
    BY <1>1, ItemBecomesIs
  <1>3. y.root[sv][1] = "mem" /\ y.root[sv] \in Roots
    BY <1>1, ItemBecomesIs
  <1>4. y.root[sv][2][p] = <<"mem", e>>
    BY <1>1, ItemBecomesIs
  <1>5. \A q \in Pos : q # p => y.root[sv][2][q] = x.root[sv][2][q]
    BY <1>1, ItemBecomesIs
  <1>6. \A u \in DOMAIN x.root : u # sv => y.root[u] = x.root[u]
    BY <1>1, ItemBecomesIs
  <1>7. V!DiskRoots(y) = V!DiskRoots(x) /\ V!MemRoots(y) = V!MemRoots(x)
    BY <1>1, <1>2, <1>3, <1>6 DEF V!DiskRoots, V!MemRoots
  <1>8. \A u \in V!DiskRoots(x) : y.root[u] = x.root[u]
    BY <1>6 DEF V!DiskRoots, V!MemRoots
  <1>9. V!Nodes(y) = V!Nodes(x)
    BY <1>7, <1>8 DEF V!Nodes
  <1>10. \A u \in V!MemRoots(x) : \A q \in Pos :
            <<u, q>> # <<sv, p>> => y.root[u][2][q] = x.root[u][2][q]
    BY <1>5, <1>6 DEF V!MemRoots
  <1>11. \A u \in V!MemRoots(x) : \A q \in Pos : x.root[u][2][q] \in Links
    BY <1>1, NodesAre
  <1>12. c \in Links /\ <<"mem", e>> \in Links
    BY <1>11 DEF Links
  <1>13. Typed(y)
    <2>1. \A u \in DOMAIN y.root : y.root[u] \in Roots
      BY <1>1, <1>2, <1>3, <1>6 DEF Typed
    <2> QED
      BY <1>1, <1>2, <1>9, <2>1 DEF Typed
  <1>14. ASSUME NEW l
         PROVE  l \in V!Leaves(y) <=>
                   l \in V!Leaves(x) /\ ~(c[1] = "disk" /\ OnlyFrom(x, c[2], sv, p) /\ l = c[2])
    <2>1. l \in V!Leaves(y) <=>
             \/ \E r \in V!Nodes(x) : \E q \in Pos : l = x.disk[r][2][q]
             \/ \E u \in V!MemRoots(x) : \E q \in Pos :
                   <<u, q>> # <<sv, p>> /\ x.root[u][2][q] = <<"disk", l>>
      <3>1. l \in V!Leaves(y) <=>
             \/ \E r \in V!Nodes(x) : \E q \in Pos : l = x.disk[r][2][q]
             \/ \E u \in V!MemRoots(x) : \E q \in Pos : y.root[u][2][q] = <<"disk", l>>
        <4>1. l \in V!Leaves(y) <=>
               \/ \E r \in V!Nodes(y) : \E q \in Pos : l = y.disk[r][2][q]
               \/ \E u \in V!MemRoots(y) : \E q \in Pos : y.root[u][2][q] = <<"disk", l>>
          BY <1>13, LeavesAre
        <4> QED
          BY <1>2, <1>7, <1>9, <4>1
      <3>2. <<"mem", e>> # <<"disk", l>>
        OBVIOUS
      <3> QED
        BY <1>4, <1>10, <3>1, <3>2
    <2>2. l \in V!Leaves(x) <=>
             \/ \E r \in V!Nodes(x) : \E q \in Pos : l = x.disk[r][2][q]
             \/ \E u \in V!MemRoots(x) : \E q \in Pos : x.root[u][2][q] = <<"disk", l>>
      BY <1>1, LeavesAre
    <2>3. CASE c # <<"disk", l>>
      <3>1. ~(c[1] = "disk" /\ l = c[2])
        BY <1>12, <2>3, LinkIs
      <3> QED
        BY <2>1, <2>2, <2>3, <3>1
    <2>4. CASE c = <<"disk", l>>
      <3>1. c[1] = "disk" /\ c[2] = l
        BY <2>4
      <3>2. l \in V!Leaves(x) /\ l \in Blocks
        <4>1. x.root[sv][2][p] = <<"disk", l>>
          BY <2>4
        <4>2. l \in V!Leaves(x)
          BY <1>1, <4>1, LeafOfCopy
        <4> QED
          BY <1>1, <4>2, LeavesAre
      <3>3. x.disk[l][1] = "leaf"
        BY <3>2, TagsTell
      <3>4. \A u \in V!MemRoots(x) : \A q \in Pos :
               x.root[u][2][q][2] = l <=> x.root[u][2][q] = <<"disk", l>>
        BY <3>2, <3>3, HitsOfLeaf
      <3>5. \A u \in V!MemRoots(x) : \A q \in Pos :
               <<u, q>> \in MemHits(x, l) <=> x.root[u][2][q] = <<"disk", l>>
        BY <3>4 DEF MemHits
      <3>6. <<sv, p>> \in MemHits(x, l)
        BY <2>4, <3>5
      <3>7. MemHits(x, l) = {<<sv, p>>} <=>
              \A u \in V!MemRoots(x) : \A q \in Pos :
                 <<u, q>> # <<sv, p>> => x.root[u][2][q] # <<"disk", l>>
        <4>1. ASSUME MemHits(x, l) = {<<sv, p>>}, NEW u \in V!MemRoots(x), NEW q \in Pos,
                     <<u, q>> # <<sv, p>>
              PROVE  x.root[u][2][q] # <<"disk", l>>
          BY <3>5, <4>1
        <4>2. ASSUME \A u \in V!MemRoots(x) : \A q \in Pos :
                        <<u, q>> # <<sv, p>> => x.root[u][2][q] # <<"disk", l>>,
                     NEW m \in MemHits(x, l)
              PROVE  m = <<sv, p>>
          <5>1. PICK u \in V!MemRoots(x), q \in Pos : m = <<u, q>>
            BY DEF MemHits
          <5> QED
            BY <3>5, <4>2, <5>1
        <4> QED
          BY <3>6, <4>1, <4>2
      <3>8. NodeHits(x, l) = {} <=> \A r \in V!Nodes(x) : \A q \in Pos : l # x.disk[r][2][q]
        <4>1. ASSUME NodeHits(x, l) = {}, NEW r \in V!Nodes(x), NEW q \in Pos
              PROVE  l # x.disk[r][2][q]
          <5>1. <<r, q>> \notin NodeHits(x, l)
            BY <4>1
          <5> QED
            BY <5>1 DEF NodeHits
        <4>2. ASSUME \A r \in V!Nodes(x) : \A q \in Pos : l # x.disk[r][2][q]
              PROVE  NodeHits(x, l) = {}
          BY <4>2 DEF NodeHits
        <4> QED
          BY <4>1, <4>2
      <3>9. OnlyFrom(x, l, sv, p) <=> l \notin V!Leaves(y)
        BY <2>1, <3>7, <3>8 DEF OnlyFrom
      <3> QED
        BY <3>1, <3>2, <3>9
    <2> QED
      BY <2>3, <2>4
  <1>15. Shaped(y)
    <2>1. \A a : Extent(y, a) <=> Extent(x, a)
      BY <1>2 DEF Extent
    <2>2. \A u \in V!MemRoots(y) : \A q, s \in Pos :
             y.root[u][2][q][1] = "disk" /\ y.root[u][2][q] = y.root[u][2][s] => q = s
      <3> SUFFICES ASSUME NEW u \in V!MemRoots(x), NEW q \in Pos, NEW s \in Pos,
                          y.root[u][2][q][1] = "disk", y.root[u][2][q] = y.root[u][2][s]
                   PROVE  q = s
        BY <1>7
      <3>1. <<u, q>> # <<sv, p>> /\ <<u, s>> # <<sv, p>>
        BY <1>4
      <3>2. y.root[u][2][q] = x.root[u][2][q] /\ y.root[u][2][s] = x.root[u][2][s]
        BY <1>10, <3>1
      <3>3. x.root[u][2][q][1] = "disk" /\ x.root[u][2][q] = x.root[u][2][s]
        BY <3>2
      <3>4. \A v \in V!MemRoots(x) : \A a, b \in Pos :
               x.root[v][2][a][1] = "disk" /\ x.root[v][2][a] = x.root[v][2][b] => a = b
        BY DEF Shaped
      <3> QED
        BY <3>3, <3>4
    <2>3. \A sp \in V!MemLeaves(y) : Extent(y, y.root[sp[1]][2][sp[2]][2])
      <3> SUFFICES ASSUME NEW sp \in V!MemLeaves(y)
                   PROVE  Extent(x, y.root[sp[1]][2][sp[2]][2])
        BY <2>1
      <3>1. PICK u \in V!MemRoots(x), q \in Pos : sp = <<u, q>> /\ y.root[u][2][q][1] = "mem"
        BY <1>7 DEF V!MemLeaves
      <3>2. CASE <<u, q>> = <<sv, p>>
        BY <1>4, <3>1, <3>2
      <3>3. CASE <<u, q>> # <<sv, p>>
        <4>1. y.root[u][2][q] = x.root[u][2][q]
          BY <1>10, <3>3
        <4>2. <<u, q>> \in V!MemLeaves(x)
          BY <3>1, <4>1 DEF V!MemLeaves
        <4>3. Extent(x, x.root[<<u, q>>[1]][2][<<u, q>>[2]][2])
          BY <4>2 DEF Shaped
        <4> QED
          BY <3>1, <4>1, <4>3
      <3> QED
        BY <3>2, <3>3
    <2>4. \A r \in V!Nodes(y) : \A q, s \in Pos : y.disk[r][2][q] = y.disk[r][2][s] => q = s
      BY <1>2, <1>9 DEF Shaped
    <2>5. \A l \in V!Leaves(y) :
             y.disk[l] \in {"leaf"} \X (Blocks \cup {None}) /\ Extent(y, y.disk[l][2])
      BY <1>2, <1>14, <2>1 DEF Shaped
    <2>6. /\ y.rt \in {<<"mem", None>>} \cup ({"disk"} \X Blocks)
          /\ y.rt[1] = "disk" => y.disk[y.rt[2]] = <<"roots", None>>
      BY <1>2 DEF Shaped
    <2> QED
      BY <1>13, <2>2, <2>3, <2>4, <2>5, <2>6 DEF Shaped
  <1>16. ASSUME NEW b \in Blocks
         PROVE  Hits(y, b) = Hits(x, b) - (IF b = c[2] THEN 1 ELSE 0) + (IF b = e THEN 1 ELSE 0)
                  - (IF c[1] = "disk" /\ OnlyFrom(x, c[2], sv, p) /\ x.disk[c[2]][2] = b
                     THEN 1 ELSE 0)
    <2> DEFINE was == IF b = c[2] THEN 1 ELSE 0
               is == IF b = e THEN 1 ELSE 0
               leaf == IF c[1] = "disk" /\ OnlyFrom(x, c[2], sv, p) /\ x.disk[c[2]][2] = b
                       THEN 1 ELSE 0
               top == IF x.rt[2] = b THEN 1 ELSE 0
    <2>1. RootHits(y, b) = RootHits(x, b) /\ NodeHits(y, b) = NodeHits(x, b)
      BY <1>2, <1>7, <1>8, <1>9 DEF RootHits, NodeHits
    <2>2. Cardinality(MemHits(y, b)) = Cardinality(MemHits(x, b)) - was + is
      <3>1. PICK S, T, t, other : /\ S = MemHits(x, b) /\ T = MemHits(y, b)
                                  /\ t = <<sv, p>> /\ other = S \ {t}
        OBVIOUS
      <3>2. t \in S <=> b = c[2]
        BY <3>1 DEF MemHits
      <3>3. t \in T <=> b = e
        BY <1>4, <1>7, <3>1 DEF MemHits
      <3>4. ASSUME NEW m, m # t PROVE m \in T <=> m \in S
        <4>1. CASE m \in V!MemRoots(x) \X Pos
          <5>1. PICK u \in V!MemRoots(x), q \in Pos : m = <<u, q>>
            BY <4>1
          <5>2. y.root[u][2][q] = x.root[u][2][q]
            BY <1>10, <3>1, <3>4, <5>1
          <5> QED
            BY <1>7, <3>1, <5>1, <5>2 DEF MemHits
        <4>2. CASE m \notin V!MemRoots(x) \X Pos
          BY <1>7, <3>1, <4>2 DEF MemHits
        <4> QED
          BY <4>1, <4>2
      <3>5. IsFiniteSet(S) /\ Cardinality(S) \in Nat
        BY <1>1, <3>1, HitsFinite
      <3>6. IsFiniteSet(other) /\ t \notin other
        BY <3>1, <3>5, FS_Subset
      <3>7. Cardinality(other) = Cardinality(S) - was
        <4>1. CASE t \in S
          BY <3>1, <3>2, <3>5, <4>1, OneLess
        <4>2. CASE t \notin S
          <5>1. other = S
            BY <3>1, <4>2
          <5> QED
            BY <3>2, <3>5, <4>2, <5>1
        <4> QED
          BY <4>1, <4>2
      <3>8. Cardinality(T) = Cardinality(other) + is
        <4>1. CASE t \in T
          <5>1. T = other \cup {t}
            BY <3>1, <3>4, <4>1
          <5> QED
            BY <3>3, <3>6, <4>1, <5>1, OneMoreIs
        <4>2. CASE t \notin T
          <5>1. T = other
            BY <3>1, <3>4, <4>2
          <5> QED
            BY <3>3, <3>6, <4>2, <5>1, FS_CardinalityType
        <4> QED
          BY <4>1, <4>2
      <3> HIDE DEF was, is
      <3> QED
        BY <3>1, <3>7, <3>8
    <2>3. Cardinality(LeafHits(y, b)) = Cardinality(LeafHits(x, b)) - leaf
      <3>1. IsFiniteSet(LeafHits(x, b)) /\ Cardinality(LeafHits(x, b)) \in Nat
        BY <1>1, HitsFinite
      <3>2. CASE leaf = 1
        <4>1. c[1] = "disk" /\ OnlyFrom(x, c[2], sv, p) /\ x.disk[c[2]][2] = b
          BY <3>2
        <4>2. c[2] \in V!Leaves(x)
          BY TagsTell, <4>1
        <4>3. c[2] \in LeafHits(x, b)
          BY <4>1, <4>2 DEF LeafHits
        <4>4. LeafHits(y, b) = LeafHits(x, b) \ {c[2]}
          BY <1>2, <1>14, <4>1 DEF LeafHits
        <4> QED
          BY <3>1, <3>2, <4>3, <4>4, OneLess
      <3>3. CASE leaf # 1
        <4>1. leaf = 0 /\ ~(c[1] = "disk" /\ OnlyFrom(x, c[2], sv, p) /\ x.disk[c[2]][2] = b)
          BY <3>3
        <4>2. \A l : l \in LeafHits(y, b) <=> l \in LeafHits(x, b)
          BY <1>2, <1>14, <4>1 DEF LeafHits
        <4>3. LeafHits(y, b) = LeafHits(x, b)
          BY <4>2
        <4> QED
          BY <3>1, <4>1, <4>3
      <3> QED
        BY <3>2, <3>3
    <2>4. /\ Cardinality(RootHits(x, b)) \in Nat /\ Cardinality(NodeHits(x, b)) \in Nat
          /\ Cardinality(MemHits(x, b)) \in Nat /\ Cardinality(LeafHits(x, b)) \in Nat
      BY <1>1, HitsFinite
    <2>5. /\ Hits(x, b) = top + Cardinality(RootHits(x, b)) + Cardinality(NodeHits(x, b))
                            + Cardinality(MemHits(x, b)) + Cardinality(LeafHits(x, b))
          /\ Hits(y, b) = top + Cardinality(RootHits(x, b)) + Cardinality(NodeHits(x, b))
                            + Cardinality(MemHits(y, b)) + Cardinality(LeafHits(y, b))
      BY <1>2, <2>1 DEF Hits
    <2>6. was \in Nat /\ is \in Nat /\ leaf \in Nat /\ top \in Nat
      OBVIOUS
    <2> HIDE DEF was, is, leaf, top
    <2>7. Hits(y, b) = Hits(x, b) - was + is - leaf
      BY <2>2, <2>3, <2>4, <2>5, <2>6
    <2> QED
      BY <2>7 DEF was, is, leaf
  <1>17. sv \in V!MemRoots(y)
    BY <1>7
  <1> QED
    BY <1>15, <1>16, <1>17

\* An item set in memory: nothing else of the writer changes.
LEMMA ItemSet ==
    ASSUME NEW x, DOMAIN x = WriterFields, Tables(x), NEW sv \in DOMAIN x.root, NEW p, NEW e, NEW y,
           y = [x EXCEPT !.root[sv] = <<"mem", [@[2] EXCEPT ![p] = <<"mem", e>>]>>]
    PROVE  /\ DOMAIN y = WriterFields /\ ItemBecomes(x, y, sv, p, e) /\ SameRest(x, y)
           /\ Tables(y) /\ y.refs = x.refs /\ Spare(y) = Spare(x)
           /\ y.disk = x.disk /\ DOMAIN y.root = DOMAIN x.root
  <1>1. PICK c : c = <<"mem", [x.root[sv][2] EXCEPT ![p] = <<"mem", e>>]>>
    OBVIOUS
  <1>2. y = [x EXCEPT !.root[sv] = c]
    BY <1>1 DEF WriterFields
  <1>3. /\ DOMAIN y = WriterFields /\ RootBecomes(x, y, sv, c) /\ SameRest(x, y)
        /\ Tables(y) /\ y.refs = x.refs /\ Spare(y) = Spare(x)
        /\ y.disk = x.disk /\ DOMAIN y.root = DOMAIN x.root
    BY <1>2, SetRoot
  <1>4. ItemBecomes(x, y, sv, p, e)
    BY <1>1, <1>3 DEF ItemBecomes
  <1> QED
    BY <1>3, <1>4

\* A leaf copied into memory.
LEMMA MemChildSound ==
    ASSUME V!VolumeConstants, NEW x, NEW k, Sound(x, k), NEW sv \in V!MemRoots(x), NEW p \in Pos,
           NEW y, y = V!MemChild(x, sv, p)
    PROVE  /\ Sound(y, k) /\ Keeps(x, y) /\ sv \in V!MemRoots(y)
           /\ y.root[sv][2][p][1] = "mem" /\ SameFiles(x, y)
  <1>1. /\ DOMAIN x = WriterFields /\ Shaped(x) /\ Typed(x) /\ Tables(x)
        /\ k \in Blocks \cup {None} /\ Extent(x, k) /\ None \notin Blocks
        /\ \A b \in Blocks : /\ x.refs[b] \in Nat /\ Hits(x, b) \in Nat
                             /\ x.refs[b] = Hits(x, b) + Extra(x, k, b)
    BY SoundHits
  <1>2. CASE x.root[sv][2][p][1] = "mem"
    <2>1. y = x
      BY <1>2 DEF V!MemChild
    <2> QED
      BY <1>2, <2>1 DEF Keeps, SameRest, SameFiles
  <1>3. CASE x.root[sv][2][p][1] # "mem"
    <2>1. PICK c, l, e : c = x.root[sv][2][p] /\ l = c[2] /\ e = x.disk[l][2]
      OBVIOUS
    <2>2. c[1] = "disk" /\ x.root[sv][2][p][2] = l /\ l \in V!Leaves(x)
      <3>1. x.root[sv][2][p] \in Links
        BY <1>1, NodesAre
      <3>2. x.root[sv][2][p][1] = "disk"
        BY <1>3, <3>1, LinkIs
      <3> QED
        BY <1>1, <2>1, <3>2, TagsTell
    <2>3. l \in Blocks /\ e \in Blocks \cup {None} /\ Extent(x, e) /\ x.disk[l][1] = "leaf"
      BY <1>1, <2>1, <2>2, LeavesAre DEF Shaped
    <2>4. x.refs[l] > 0
      <3>1. <<"mem", sv, p, x.root[sv][2][p][2]>> \in V!Pointers(x)
        BY PointersAre
      <3>2. <<"mem", sv, p, l>> \in V!Pointers(x)
        BY <2>2, <3>1
      <3> QED
        BY <2>3, <3>2, Pointed
    <2>5. \A b \in Blocks : b \in {e} => x.refs[b] > 0
      <3> SUFFICES ASSUME e \in Blocks PROVE x.refs[e] > 0
        OBVIOUS
      <3>1. <<"leaf", l, 0, e>> \in V!Pointers(x)
        BY <2>1, <2>2, PointersAre
      <3> QED
        BY <3>1, Pointed
    <2>6. PICK z : z = V!Cow(x, l, {e})
      OBVIOUS
    <2>7. /\ DOMAIN z = WriterFields /\ SameTrees(x, z) /\ SameRest(x, z)
          /\ Tables(z) /\ Spare(z) \subseteq Spare(x)
          /\ \A b \in Blocks : z.refs[b] = x.refs[b] - (IF b = l THEN 1 ELSE 0)
                                        + (IF x.refs[l] > 1 /\ b \in {e} THEN 1 ELSE 0)
      BY <1>1, <2>3, <2>4, <2>5, <2>6, CowTables
    <2>8. y = [z EXCEPT !.root[sv] = <<"mem", [@[2] EXCEPT ![p] = <<"mem", e>>]>>]
      BY <1>3, <2>1, <2>6 DEF V!MemChild
    <2>9. sv \in DOMAIN z.root /\ z.root = x.root /\ z.disk = x.disk /\ z.rt = x.rt
      BY <2>7 DEF SameTrees, V!MemRoots
    <2>10. /\ DOMAIN y = WriterFields /\ ItemBecomes(z, y, sv, p, e) /\ SameRest(z, y)
           /\ Tables(y) /\ y.refs = z.refs /\ Spare(y) = Spare(z)
           /\ y.disk = z.disk /\ DOMAIN y.root = DOMAIN z.root
      BY <2>7, <2>8, <2>9, ItemSet
    <2>11. ItemBecomes(x, y, sv, p, e)
      BY <2>9, <2>10 DEF ItemBecomes, RootBecomes
    <2>12. /\ Shaped(y) /\ sv \in V!MemRoots(y)
           /\ \A b \in Blocks :
                Hits(y, b) = Hits(x, b) - (IF b = c[2] THEN 1 ELSE 0) + (IF b = e THEN 1 ELSE 0)
                  - (IF c[1] = "disk" /\ OnlyFrom(x, c[2], sv, p) /\ x.disk[c[2]][2] = b
                     THEN 1 ELSE 0)
      <3>1. Shaped(x)
        BY <1>1
      <3>2. c = x.root[sv][2][p]
        BY <2>1
      <3>3. e \in Blocks \cup {None} /\ Extent(x, e)
        BY <2>3
      <3> QED
        BY <2>11, <3>1, <3>2, <3>3, SetItem
    <2>13. x.refs[l] > 1 <=> ~OnlyFrom(x, l, sv, p)
      <3>1. Extra(x, k, l) = 0
        BY <2>3, SoundLeaks
      <3>2. x.refs[l] = Cardinality(NodeHits(x, l)) + Cardinality(MemHits(x, l))
        BY <1>1, <2>3, <3>1, HitsOfLeaf
      <3>3. <<sv, p>> \in MemHits(x, l)
        BY <2>2 DEF MemHits
      <3>4. IsFiniteSet(MemHits(x, l)) /\ IsFiniteSet(NodeHits(x, l))
        BY <1>1, HitsFinite
      <3>5. /\ Cardinality(MemHits(x, l)) \in Nat
            /\ Cardinality(MemHits(x, l)) > 1 <=> MemHits(x, l) # {<<sv, p>>}
        <4>1. PICK S, m : S = MemHits(x, l) /\ m = <<sv, p>>
          OBVIOUS
        <4>2. m \in S /\ IsFiniteSet(S)
          BY <3>3, <3>4, <4>1
        <4> QED
          BY <4>1, <4>2, AloneIs
      <3>6. Cardinality(MemHits(x, l)) > 0
        BY <3>3, <3>4, <3>5, FS_EmptySet
      <3>7. Cardinality(NodeHits(x, l)) \in Nat /\ (Cardinality(NodeHits(x, l)) = 0 <=> NodeHits(x, l) = {})
        BY <3>4, FS_EmptySet, FS_CardinalityType
      <3> QED
        BY <3>2, <3>5, <3>6, <3>7 DEF OnlyFrom
    <2>20. Leaky(y) /\ \A b : Extra(y, k, b) = Extra(x, k, b)
      <3>1. y.leaked = x.leaked /\ y.disk = x.disk
        BY <2>7, <2>9, <2>10 DEF SameRest
      <3> QED
        BY <3>1, SoundLeaks, LeaksStay
    <2>14. ASSUME NEW b \in Blocks PROVE y.refs[b] = Hits(y, b) + Extra(y, k, b)
      <3> DEFINE own == IF b = l THEN 1 ELSE 0
                 extra == Extra(x, k, b)
                 is == IF b = e THEN 1 ELSE 0
                 leaf == IF OnlyFrom(x, l, sv, p) /\ e = b THEN 1 ELSE 0
                 more == IF x.refs[l] > 1 /\ b \in {e} THEN 1 ELSE 0
      <3>1. own \in Nat /\ extra \in Nat /\ is \in Nat /\ leaf \in Nat /\ more = is - leaf
        BY <2>13, SoundLeaks
      <3>2. Hits(y, b) = Hits(x, b) - own + is - leaf
        BY <2>1, <2>2, <2>12
      <3>3. y.refs[b] = x.refs[b] - own + more
        BY <2>7, <2>10
      <3>4. x.refs[b] = Hits(x, b) + extra /\ Hits(x, b) \in Nat
        BY <1>1
      <3> HIDE DEF own, extra, is, leaf, more
      <3>5. y.refs[b] = Hits(y, b) + extra
        BY <3>1, <3>2, <3>3, <3>4
      <3> QED
        BY <2>20, <3>5 DEF extra
    <2>15. Extent(y, k)
      BY <1>1, <2>9, <2>10 DEF Extent
    <2>16. Sound(y, k)
      BY <1>1, <2>10, <2>12, <2>14, <2>15, <2>20, SoundFrom
    <2>17. y.root[sv][2][p][1] = "mem"
      <3>1. y.root[sv][2][p] = <<"mem", e>>
        BY <1>1, <2>3, <2>11, ItemBecomesIs
      <3> QED
        BY <3>1
    <2>18. Keeps(x, y)
      BY <2>7, <2>9, <2>10 DEF Keeps, SameRest
    <2>19. SameFiles(x, y)
      <3>1. FileBecomes(x, y, sv, p, V!Bytes(x.disk, e))
        BY <1>1, <2>3, <2>11, ItemReads
      <3>2. x.root[sv][1] = "mem" /\ sv \in DOMAIN x.root
        BY DEF V!MemRoots
      <3>3. x.root[sv][2][p] = <<"disk", l>>
        <4>1. x.root[sv][2][p] \in Links
          BY <1>1, NodesAre
        <4> QED
          BY <2>1, <2>2, <4>1, LinkIs
      <3>4. Holds(x, sv, p) = V!Bytes(x.disk, e)
        <4>1. Holds(x, sv, p) = V!Bytes(x.disk, x.disk[l][2])
          BY <3>2, <3>3, HoldsIs
        <4>2. e = x.disk[l][2]
          BY <2>1
        <4> QED
          BY <4>1, <4>2
      <3> QED
        BY <3>1, <3>2, <3>4, FileBecomesThen
    <2> QED
      BY <2>12, <2>16, <2>17, <2>18, <2>19
  <1> QED
    BY <1>2, <1>3

\* An extent that no leaf has any more is given up.
LEMMA DecrefSound ==
    ASSUME V!VolumeConstants, NEW x, NEW k \in Blocks, Sound(x, k), NEW y, y = V!Decref(x, k)
    PROVE  Sound(y, None) /\ Keeps(x, y) /\ SameTrees(x, y)
  <1>1. /\ DOMAIN x = WriterFields /\ Shaped(x) /\ Typed(x) /\ Tables(x)
        /\ Extent(x, k) /\ None \notin Blocks
        /\ \A b \in Blocks : /\ x.refs[b] \in Nat /\ Hits(x, b) \in Nat
                             /\ x.refs[b] = Hits(x, b) + Extra(x, k, b)
    BY SoundHits
  <1>2. x.refs[k] > 0
    BY <1>1, SoundLeaks DEF Extra
  <1>3. /\ DOMAIN y = WriterFields /\ SameTrees(x, y) /\ SameRest(x, y)
        /\ Tables(y) /\ Spare(y) \subseteq Spare(x)
        /\ \A b \in Blocks : y.refs[b] = x.refs[b] - (IF b = k THEN 1 ELSE 0)
    BY <1>1, <1>2, DecrefTables
  <1>4. Shaped(y) /\ \A b : Hits(y, b) = Hits(x, b)
    BY <1>1, <1>3, TreesOnly
  <1>7. Leaky(y) /\ y.leaked = x.leaked
    BY <1>3, SoundLeaks, LeaksStay DEF SameTrees, SameRest
  <1>5. \A b \in Blocks : y.refs[b] = Hits(y, b) + Extra(y, None, b)
    <2> SUFFICES ASSUME NEW b \in Blocks PROVE y.refs[b] = Hits(y, b) + Extra(y, None, b)
      OBVIOUS
    <2>1. /\ y.refs[b] = x.refs[b] - (IF b = k THEN 1 ELSE 0)
          /\ x.refs[b] = Hits(x, b) + x.leaked[b] + (IF b = k THEN 1 ELSE 0)
          /\ Extra(y, None, b) = x.leaked[b]
      BY <1>1, <1>3, <1>7, SoundLeaks DEF Extra
    <2>2. x.leaked[b] \in Nat /\ Hits(x, b) \in Nat /\ Hits(y, b) = Hits(x, b)
      BY <1>1, <1>4, SoundLeaks
    <2> QED
      BY <2>1, <2>2
  <1>6. Extent(y, None)
    BY DEF Extent
  <1> QED
    BY <1>3, <1>4, <1>5, <1>6, <1>7, SoundFrom DEF Keeps, SameTrees

\* The stored extent, if any, takes the place of the one that was there.
LEMMA ReplaceSound ==
    ASSUME V!VolumeConstants, NEW x, NEW k, Sound(x, k), NEW sv \in DOMAIN x.root, NEW p \in Pos,
           NEW y, y = V!Replace(x, sv, p, k)
    PROVE  /\ Sound(y, None) /\ Keeps(x, y) /\ sv \in V!MemRoots(y)
           /\ FileBecomes(x, y, sv, p, V!Bytes(x.disk, k))
  <1>1. PICK v : v = V!MemRoot(x, sv)
    OBVIOUS
  <1>2. Sound(v, k) /\ Keeps(x, v) /\ v.root[sv][1] = "mem" /\ SameFiles(x, v)
    BY <1>1, MemRootSound
  <1>3. sv \in V!MemRoots(v)
    BY <1>2 DEF Keeps, V!MemRoots
  <1>4. PICK u : u = V!MemChild(v, sv, p)
    OBVIOUS
  <1>5. /\ Sound(u, k) /\ Keeps(v, u) /\ sv \in V!MemRoots(u) /\ u.root[sv][2][p][1] = "mem"
        /\ SameFiles(v, u)
    BY <1>2, <1>3, <1>4, MemChildSound
  <1>6. PICK old : old = u.root[sv][2][p][2]
    OBVIOUS
  <1>7. PICK z : z = [u EXCEPT !.root[sv] = <<"mem", [@[2] EXCEPT ![p] = <<"mem", k>>]>>]
    OBVIOUS
  <1>8. y = IF old = None THEN z ELSE V!Decref(z, old)
    BY <1>1, <1>4, <1>6, <1>7 DEF V!Replace
  <1>9. /\ DOMAIN u = WriterFields /\ Shaped(u) /\ Typed(u) /\ Tables(u)
        /\ k \in Blocks \cup {None} /\ Extent(u, k) /\ None \notin Blocks
        /\ \A b \in Blocks : /\ u.refs[b] \in Nat /\ Hits(u, b) \in Nat
                             /\ u.refs[b] = Hits(u, b) + Extra(u, k, b)
    BY <1>5, SoundHits
  <1>10. sv \in DOMAIN u.root
    BY <1>5 DEF V!MemRoots
  <1>11. /\ DOMAIN z = WriterFields /\ ItemBecomes(u, z, sv, p, k) /\ SameRest(u, z)
         /\ Tables(z) /\ z.refs = u.refs /\ Spare(z) = Spare(u)
         /\ z.disk = u.disk /\ DOMAIN z.root = DOMAIN u.root
    <2>1. DOMAIN u = WriterFields /\ Tables(u)
      BY <1>9
    <2> QED
      BY <1>7, <1>10, <2>1, ItemSet
  <1>12. PICK c : c = u.root[sv][2][p]
    OBVIOUS
  <1>13. /\ Shaped(z) /\ sv \in V!MemRoots(z)
         /\ \A b \in Blocks :
                Hits(z, b) = Hits(u, b) - (IF b = c[2] THEN 1 ELSE 0) + (IF b = k THEN 1 ELSE 0)
                  - (IF c[1] = "disk" /\ OnlyFrom(u, c[2], sv, p) /\ u.disk[c[2]][2] = b
                     THEN 1 ELSE 0)
    <2>1. Shaped(u) /\ Extent(u, k) /\ k \in Blocks \cup {None} /\ sv \in V!MemRoots(u)
      BY <1>5, <1>9
    <2>2. ItemBecomes(u, z, sv, p, k)
      BY <1>11
    <2> QED
      BY <1>12, <2>1, <2>2, SetItem
  <1>14. c[1] = "mem" /\ c[2] = old
    BY <1>5, <1>6, <1>12
  <1>22. Leaky(u) /\ Leaky(z) /\ z.leaked = u.leaked
    <2>1. Leaky(u) /\ z.leaked = u.leaked /\ z.disk = u.disk
      BY <1>5, <1>11, SoundLeaks DEF SameRest
    <2> QED
      BY <2>1, LeaksStay
  <1>15. ASSUME NEW b \in Blocks PROVE z.refs[b] = Hits(z, b) + Extra(z, old, b)
    <2> DEFINE was == IF b = old THEN 1 ELSE 0
               is == IF b = k THEN 1 ELSE 0
               leak == u.leaked[b]
    <2>1. was \in Nat /\ is \in Nat /\ leak \in Nat
      BY <1>22 DEF Leaky
    <2>2. Hits(z, b) = Hits(u, b) - was + is
      <3>1. Hits(z, b) = Hits(u, b) - was + is - 0
        BY <1>13, <1>14
      <3>2. Hits(u, b) \in Nat
        BY <1>9
      <3> HIDE DEF was, is
      <3> QED
        BY <2>1, <3>1, <3>2
    <2>3. z.refs[b] = Hits(u, b) + (leak + is) /\ Hits(u, b) \in Nat
      BY <1>9, <1>11 DEF Extra
    <2>5. Extra(z, old, b) = leak + was
      BY <1>22 DEF Extra
    <2> HIDE DEF was, is, leak
    <2>4. z.refs[b] = Hits(z, b) + (leak + was)
      BY <2>1, <2>2, <2>3
    <2> QED
      BY <2>4, <2>5
  <1>16. old \in Blocks \cup {None} /\ Extent(z, old)
    <2>1. u.root[sv][2][p] \in Links
      BY <1>5, <1>9, NodesAre
    <2>2. <<sv, p>> \in V!MemLeaves(u)
      BY <1>5 DEF V!MemLeaves
    <2>3. Extent(u, u.root[<<sv, p>>[1]][2][<<sv, p>>[2]][2])
      BY <1>9, <2>2 DEF Shaped
    <2>4. Extent(u, old)
      BY <1>6, <2>3
    <2> QED
      BY <1>6, <1>11, <2>1, <2>4, LinkIs DEF Extent
  <1>17. Sound(z, old)
    BY <1>11, <1>13, <1>15, <1>16, <1>22, SoundFrom
  <1>18. Keeps(x, z)
    <2>1. Keeps(u, z)
      BY <1>11 DEF Keeps
    <2> QED
      BY <1>2, <1>5, <2>1, KeepsTwice
  <1>21. FileBecomes(x, z, sv, p, V!Bytes(x.disk, k))
    <2>1. FileBecomes(u, z, sv, p, V!Bytes(u.disk, k))
      BY <1>5, <1>9, <1>11, ItemReads
    <2>2. u.disk = x.disk
      BY <1>2, <1>5 DEF Keeps
    <2>3. SameFiles(x, u)
      BY <1>2, <1>5, SameFilesTwice
    <2> QED
      BY <2>1, <2>2, <2>3, FileBecomesThen
  <1>19. CASE old = None
    BY <1>8, <1>13, <1>17, <1>18, <1>19, <1>21
  <1>20. CASE old # None
    <2>1. old \in Blocks /\ y = V!Decref(z, old)
      BY <1>8, <1>16, <1>20
    <2>2. Sound(y, None) /\ Keeps(z, y) /\ SameTrees(z, y)
      BY <1>17, <2>1, DecrefSound
    <2>3. sv \in V!MemRoots(y)
      BY <1>13, <2>2, TreesOnly
    <2>4. FileBecomes(x, y, sv, p, V!Bytes(x.disk, k))
      <3>1. SameFiles(z, y)
        BY <2>2, SameTreesRead
      <3> QED
        BY <1>21, <3>1, FileBecomesThen
    <2> QED
      BY <1>18, <2>2, <2>3, <2>4, KeepsTwice
  <1> QED
    BY <1>19, <1>20

-----------------------------------------------------------------------------
(* Writing blocks that nothing points at.                                  *)

\* The same roots, and the blocks that are pointed at hold what they did.
SameUsed(x, y) ==
    /\ y.root = x.root /\ y.rt = x.rt /\ DOMAIN y.disk = DOMAIN x.disk
    /\ \A e \in V!Pointers(x) : e[4] \in Blocks => y.disk[e[4]] = x.disk[e[4]]

\* Everything the trees are made of is pointed at.
LEMMA AllPointed ==
    ASSUME NEW x, Shaped(x)
    PROVE  /\ \A r \in V!Nodes(x) : r \in Blocks /\ \E e \in V!Pointers(x) : e[4] = r
           /\ \A l \in V!Leaves(x) : l \in Blocks /\ \E e \in V!Pointers(x) : e[4] = l
           /\ \A l \in V!Leaves(x) : \E e \in V!Pointers(x) : e[4] = x.disk[l][2]
           /\ \A sv \in V!MemRoots(x) : \A p \in Pos : \E e \in V!Pointers(x) : e[4] = x.root[sv][2][p][2]
           /\ \E e \in V!Pointers(x) : e[4] = x.rt[2]
  <1>1. Typed(x)
    BY ShapedTyped
  <1>2. ASSUME NEW r \in V!Nodes(x) PROVE r \in Blocks /\ \E e \in V!Pointers(x) : e[4] = r
    <2>1. PICK sv \in V!DiskRoots(x) : x.root[sv][2] = r
      BY DEF V!Nodes
    <2>2. <<"root", sv, 0, x.root[sv][2]>> \in V!Pointers(x)
      BY PointersAre
    <2>3. <<"root", sv, 0, x.root[sv][2]>>[4] = r
      BY <2>1
    <2> QED
      BY <1>1, <2>2, <2>3, NodesAre
  <1>3. ASSUME NEW sv \in V!MemRoots(x), NEW p \in Pos
        PROVE  \E e \in V!Pointers(x) : e[4] = x.root[sv][2][p][2]
    <2>1. <<"mem", sv, p, x.root[sv][2][p][2]>> \in V!Pointers(x)
      BY PointersAre
    <2> QED
      BY <2>1
  <1>4. ASSUME NEW l \in V!Leaves(x) PROVE l \in Blocks /\ \E e \in V!Pointers(x) : e[4] = l
    <2>1. l \in Blocks
      BY <1>1, LeavesAre
    <2>2. CASE \E r \in V!Nodes(x) : \E p \in Pos : l = x.disk[r][2][p]
      <3>1. PICK r \in V!Nodes(x), p \in Pos : l = x.disk[r][2][p]
        BY <2>2
      <3>2. <<"node", r, p, x.disk[r][2][p]>> \in V!Pointers(x)
        BY PointersAre
      <3> QED
        BY <2>1, <3>1, <3>2
    <2>3. CASE \E sv \in V!MemRoots(x) : \E p \in Pos : x.root[sv][2][p] = <<"disk", l>>
      BY <1>3, <2>1, <2>3
    <2> QED
      BY <1>1, <2>2, <2>3, LeafFrom
  <1>5. ASSUME NEW l \in V!Leaves(x) PROVE \E e \in V!Pointers(x) : e[4] = x.disk[l][2]
    <2>1. <<"leaf", l, 0, x.disk[l][2]>> \in V!Pointers(x)
      BY PointersAre
    <2> QED
      BY <2>1
  <1>6. \E e \in V!Pointers(x) : e[4] = x.rt[2]
    <2>1. <<"roots", 0, 0, x.rt[2]>> \in V!Pointers(x)
      BY PointersAre
    <2> QED
      BY <2>1
  <1> QED
    BY <1>2, <1>3, <1>4, <1>5, <1>6

\* Blocks nobody points at may change without changing a tree.
LEMMA UsedOnly ==
    ASSUME V!VolumeConstants, NEW x, Shaped(x), NEW y, SameUsed(x, y)
    PROVE  /\ Shaped(y) /\ V!Pointers(y) = V!Pointers(x)
           /\ V!DiskRoots(y) = V!DiskRoots(x) /\ V!MemRoots(y) = V!MemRoots(x)
           /\ \A b : Hits(y, b) = Hits(x, b)
  <1>1. y.root = x.root /\ y.rt = x.rt /\ DOMAIN y.disk = DOMAIN x.disk
    BY DEF SameUsed
  <1>2. Typed(x) /\ None \notin Blocks
    BY ShapedTyped DEF V!VolumeConstants
  <1>3. V!DiskRoots(y) = V!DiskRoots(x) /\ V!MemRoots(y) = V!MemRoots(x)
    BY <1>1 DEF V!DiskRoots, V!MemRoots
  <1>4. V!Nodes(y) = V!Nodes(x) /\ V!MemLeaves(y) = V!MemLeaves(x)
    BY <1>1, <1>3 DEF V!Nodes, V!MemLeaves
  <1>5. \A r \in V!Nodes(x) : y.disk[r] = x.disk[r]
    BY AllPointed DEF SameUsed
  <1>6. \A l \in V!Leaves(x) : y.disk[l] = x.disk[l]
    BY AllPointed DEF SameUsed
  <1>7. ASSUME NEW l \in V!Leaves(x), x.disk[l][2] \in Blocks
        PROVE  y.disk[x.disk[l][2]] = x.disk[x.disk[l][2]]
    BY <1>7, AllPointed DEF SameUsed
  <1>8. ASSUME NEW sv \in V!MemRoots(x), NEW p \in Pos, x.root[sv][2][p][2] \in Blocks
        PROVE  y.disk[x.root[sv][2][p][2]] = x.disk[x.root[sv][2][p][2]]
    BY <1>8, AllPointed DEF SameUsed
  <1>9. x.rt[2] \in Blocks => y.disk[x.rt[2]] = x.disk[x.rt[2]]
    BY AllPointed DEF SameUsed
  <1>10. Typed(y)
    BY <1>1, <1>2, <1>4, <1>5 DEF Typed
  <1>11. V!Leaves(y) = V!Leaves(x)
    <2>1. ASSUME NEW l PROVE l \in V!Leaves(y) <=> l \in V!Leaves(x)
      <3>1. l \in V!Leaves(y) <=>
             \/ \E r \in V!Nodes(y) : \E p \in Pos : l = y.disk[r][2][p]
             \/ \E sv \in V!MemRoots(y) : \E p \in Pos : y.root[sv][2][p] = <<"disk", l>>
        BY <1>10, LeavesAre
      <3>2. l \in V!Leaves(x) <=>
             \/ \E r \in V!Nodes(x) : \E p \in Pos : l = x.disk[r][2][p]
             \/ \E sv \in V!MemRoots(x) : \E p \in Pos : x.root[sv][2][p] = <<"disk", l>>
        BY <1>2, LeavesAre
      <3> QED
        BY <1>1, <1>3, <1>4, <1>5, <3>1, <3>2
    <2> QED
      BY <2>1
  <1>12. V!Pointers(y) = V!Pointers(x)
    <2>1. ASSUME NEW e PROVE e \in V!Pointers(y) <=> e \in V!Pointers(x)
      <3>1. (\E sv \in V!DiskRoots(y) : e = <<"root", sv, 0, y.root[sv][2]>>)
             <=> \E sv \in V!DiskRoots(x) : e = <<"root", sv, 0, x.root[sv][2]>>
        BY <1>1, <1>3
      <3>2. (\E r \in V!Nodes(y) : \E p \in Pos : e = <<"node", r, p, y.disk[r][2][p]>>)
             <=> \E r \in V!Nodes(x) : \E p \in Pos : e = <<"node", r, p, x.disk[r][2][p]>>
        BY <1>4, <1>5
      <3>3. (\E sv \in V!MemRoots(y) : \E p \in Pos : e = <<"mem", sv, p, y.root[sv][2][p][2]>>)
             <=> \E sv \in V!MemRoots(x) : \E p \in Pos : e = <<"mem", sv, p, x.root[sv][2][p][2]>>
        BY <1>1, <1>3
      <3>4. (\E l \in V!Leaves(y) : e = <<"leaf", l, 0, y.disk[l][2]>>)
             <=> \E l \in V!Leaves(x) : e = <<"leaf", l, 0, x.disk[l][2]>>
        BY <1>6, <1>11
      <3> QED
        BY <1>1, <3>1, <3>2, <3>3, <3>4, PointersAre
    <2> QED
      BY <2>1
  <1>13. Shaped(y)
    <2>1. /\ y.rt \in {<<"mem", None>>} \cup ({"disk"} \X Blocks)
          /\ y.rt[1] = "disk" => y.disk[y.rt[2]] = <<"roots", None>>
      <3>1. /\ x.rt \in {<<"mem", None>>} \cup ({"disk"} \X Blocks)
            /\ x.rt[1] = "disk" => x.disk[x.rt[2]] = <<"roots", None>>
        BY DEF Shaped
      <3>2. x.rt[1] = "disk" => x.rt[2] \in Blocks
        BY <3>1
      <3> QED
        BY <1>1, <1>9, <3>1, <3>2
    <2>2. \A r \in V!Nodes(y) : \A p, q \in Pos : y.disk[r][2][p] = y.disk[r][2][q] => p = q
      BY <1>4, <1>5 DEF Shaped
    <2>3. \A sv \in V!MemRoots(y) : \A p, q \in Pos :
             y.root[sv][2][p][1] = "disk" /\ y.root[sv][2][p] = y.root[sv][2][q] => p = q
      BY <1>1, <1>3 DEF Shaped
    <2>4. \A l \in V!Leaves(y) :
             y.disk[l] \in {"leaf"} \X (Blocks \cup {None}) /\ Extent(y, y.disk[l][2])
      <3> SUFFICES ASSUME NEW l \in V!Leaves(x)
                   PROVE  x.disk[l] \in {"leaf"} \X (Blocks \cup {None}) /\ Extent(y, x.disk[l][2])
        BY <1>6, <1>11
      <3>1. x.disk[l] \in {"leaf"} \X (Blocks \cup {None}) /\ Extent(x, x.disk[l][2])
        BY DEF Shaped
      <3> QED
        BY <1>7, <3>1 DEF Extent
    <2>5. \A sp \in V!MemLeaves(y) : Extent(y, y.root[sp[1]][2][sp[2]][2])
      <3> SUFFICES ASSUME NEW sp \in V!MemLeaves(x) PROVE Extent(y, x.root[sp[1]][2][sp[2]][2])
        BY <1>1, <1>4
      <3>1. PICK sv \in V!MemRoots(x), p \in Pos : sp = <<sv, p>>
        BY DEF V!MemLeaves
      <3>2. Extent(x, x.root[sp[1]][2][sp[2]][2])
        BY DEF Shaped
      <3>3. x.root[sv][2][p] \in Links
        BY <1>2, NodesAre
      <3>4. x.root[sv][2][p][2] \in Blocks \cup {None}
        BY <3>3, LinkIs
      <3> QED
        BY <1>8, <3>1, <3>2, <3>4 DEF Extent
    <2> QED
      BY <1>10, <2>1, <2>2, <2>3, <2>4, <2>5 DEF Shaped
  <1>14. \A b : Hits(y, b) = Hits(x, b)
    BY <1>2, <1>10, <1>12, CountSum
  <1> QED
    BY <1>3, <1>12, <1>13, <1>14

\* What is read is pointed at.
LEMMA UsedReads ==
    ASSUME V!VolumeConstants, NEW x, Shaped(x), NEW y, SameUsed(x, y)
    PROVE  SameFiles(x, y)
  <1>1. /\ Typed(x) /\ None \notin Blocks /\ y.root = x.root
        /\ \A e \in V!Pointers(x) : e[4] \in Blocks => y.disk[e[4]] = x.disk[e[4]]
    BY ShapedTyped DEF V!VolumeConstants, SameUsed
  <1>2. /\ \A r \in V!Nodes(x) : y.disk[r] = x.disk[r]
        /\ \A l \in V!Leaves(x) : y.disk[l] = x.disk[l]
        /\ \A l \in V!Leaves(x) : x.disk[l][2] \in Blocks => y.disk[x.disk[l][2]] = x.disk[x.disk[l][2]]
        /\ \A sv \in V!MemRoots(x) : \A p \in Pos :
              x.root[sv][2][p][2] \in Blocks =>
                 y.disk[x.root[sv][2][p][2]] = x.disk[x.root[sv][2][p][2]]
    BY <1>1, AllPointed
  <1>3. \A l \in V!Leaves(x) : x.disk[l][2] \in Blocks \cup {None}
    BY DEF Shaped
  <1>4. ASSUME NEW sv \in DOMAIN x.root, NEW p \in Pos
        PROVE  Holds(y, sv, p) = Holds(x, sv, p)
    <2>1. ASSUME NEW r \in V!Nodes(x), x.root[sv] = <<"disk", r>>, x.disk[r][2][p] \in V!Leaves(x)
          PROVE  Holds(y, sv, p) = Holds(x, sv, p)
      <3>1. PICK l : l = x.disk[r][2][p]
        OBVIOUS
      <3>2. PICK e : e = x.disk[l][2]
        OBVIOUS
      <3>3. y.disk[r][2][p] = l /\ y.disk[l][2] = e /\ e \in Blocks \cup {None}
        BY <1>2, <1>3, <2>1, <3>1, <3>2
      <3>4. Holds(x, sv, p) = V!Bytes(x.disk, e) /\ Holds(y, sv, p) = V!Bytes(y.disk, e)
        BY <1>1, <2>1, <3>1, <3>2, <3>3, HoldsIs
      <3>5. e \in Blocks => y.disk[e] = x.disk[e]
        BY <1>2, <2>1, <3>1, <3>2
      <3> QED
        BY <3>3, <3>4, <3>5 DEF V!Bytes
    <2>2. ASSUME x.root[sv][1] = "mem", NEW l \in V!Leaves(x), x.root[sv][2][p] = <<"disk", l>>
          PROVE  Holds(y, sv, p) = Holds(x, sv, p)
      <3>1. PICK e : e = x.disk[l][2]
        OBVIOUS
      <3>2. y.disk[l][2] = e /\ e \in Blocks \cup {None}
        BY <1>2, <1>3, <3>1
      <3>3. Holds(x, sv, p) = V!Bytes(x.disk, e) /\ Holds(y, sv, p) = V!Bytes(y.disk, e)
        BY <1>1, <2>2, <3>1, <3>2, HoldsIs
      <3>4. e \in Blocks => y.disk[e] = x.disk[e]
        BY <1>2, <3>1
      <3> QED
        BY <3>2, <3>3, <3>4 DEF V!Bytes
    <2>3. ASSUME sv \in V!MemRoots(x), x.root[sv][1] = "mem", NEW e \in Blocks \cup {None},
                 x.root[sv][2][p] = <<"mem", e>>
          PROVE  Holds(y, sv, p) = Holds(x, sv, p)
      <3>1. Holds(x, sv, p) = V!Bytes(x.disk, e) /\ Holds(y, sv, p) = V!Bytes(y.disk, e)
        BY <1>1, <2>3, HoldsIs
      <3>2. x.root[sv][2][p][2] = e
        BY <2>3
      <3>3. e \in Blocks => y.disk[e] = x.disk[e]
        BY <1>2, <2>3, <3>2
      <3> QED
        BY <3>1, <3>3 DEF V!Bytes
    <2> QED
      BY <1>1, <2>1, <2>2, <2>3, PlacesAre
  <1>5. DOMAIN y.root = DOMAIN x.root
    BY <1>1
  <1> QED
    BY <1>4, <1>5 DEF SameFiles

\* Only blocks that may be are written, and no more may be written.
Within(x, y) ==
    /\ DOMAIN y.disk = DOMAIN x.disk /\ Spare(y) \subseteq Spare(x)
    /\ \A b \in Blocks : b \notin Spare(x) => y.disk[b] = x.disk[b]

\* Copying into memory writes no block.
LEMMA KeepsWithin == ASSUME NEW x, NEW y, Keeps(x, y) PROVE Within(x, y)
  BY DEF Keeps, Within

\* Two steps that write spare blocks only.
LEMMA WithinTwice == ASSUME NEW x, NEW y, NEW z, Within(x, y), Within(y, z) PROVE Within(x, z)
  BY DEF Within

\* What is committed stays.
LEMMA SavedKept ==
    ASSUME V!VolumeConstants, NEW s, NEW x, NEW y, SavedSound(s, x), Within(x, y)
    PROVE  SavedSound(s, y) /\ SameFiles(V!Mounted(s, x.disk), V!Mounted(s, y.disk))
  <1>1. PICK u, v : u = V!Mounted(s, x.disk) /\ v = V!Mounted(s, y.disk)
    OBVIOUS
  <1>2. v.root = u.root /\ v.rt = u.rt /\ u.disk = x.disk /\ v.disk = y.disk
    BY <1>1 DEF V!Mounted
  <1>3. Shaped(u) /\ \A e \in V!Pointers(u) : e[4] \notin Spare(x)
    BY <1>1 DEF SavedSound
  <1>4. SameUsed(u, v)
    BY <1>2, <1>3 DEF SameUsed, Within
  <1>5. Shaped(v) /\ V!Pointers(v) = V!Pointers(u)
    BY <1>3, <1>4, UsedOnly
  <1>6. SameFiles(V!Mounted(s, x.disk), V!Mounted(s, y.disk))
    BY <1>1, <1>3, <1>4, UsedReads
  <1>7. SavedSound(s, y)
    BY <1>1, <1>3, <1>5 DEF SavedSound, Within
  <1> QED
    BY <1>6, <1>7

\* The trees stay where they are.
Resting(x, y) == y.root = x.root /\ y.rt = x.rt /\ (Unmarked(x) => Unmarked(y))

\* And then a clean volume stays clean.
LEMMA RestingClean ==
    ASSUME NEW x, NEW y, Resting(x, y), ~V!Dirty(x) => Unmarked(x)
    PROVE  DOMAIN y.root = DOMAIN x.root /\ (~V!Dirty(y) => Unmarked(y))
  <1>1. y.root = x.root /\ y.rt = x.rt /\ (Unmarked(x) => Unmarked(y))
    BY DEF Resting
  <1>2. V!Dirty(y) <=> V!Dirty(x)
    BY <1>1 DEF V!Dirty, V!MemRoots
  <1> QED
    BY <1>1, <1>2

\* An extent is shared.
LEMMA HitSound ==
    ASSUME V!VolumeConstants, NEW x, Sound(x, None), NEW d \in Data, NEW b, b = x.dedup[d],
           b # None, NEW y, y = V!Incref(x, b)
    PROVE  /\ Sound(y, b) /\ Within(x, y) /\ Resting(x, y)
           /\ SameFiles(x, y) /\ V!Bytes(y.disk, b) = d
  <1>1. /\ DOMAIN x = WriterFields /\ Shaped(x) /\ Typed(x) /\ Tables(x) /\ None \notin Blocks
        /\ \A c \in Blocks : /\ x.refs[c] \in Nat /\ Hits(x, c) \in Nat
                             /\ x.refs[c] = Hits(x, c) + Extra(x, None, c)
    BY SoundHits
  <1>2. b \in Blocks /\ x.refs[b] > 0 /\ x.disk[b] = <<"data", d>>
    BY <1>1 DEF Tables
  <1>3. PICK R : R = [x.refs EXCEPT ![b] = @ + 1]
    OBVIOUS
  <1>4. /\ R \in [Blocks -> Nat]
        /\ \A c \in Blocks : R[c] = x.refs[c] + (IF c = b THEN 1 ELSE 0)
    BY <1>1, <1>2, <1>3 DEF Tables
  <1>5. \A c \in Blocks : R[c] = 0 <=> x.refs[c] = 0
    BY <1>1, <1>2, <1>4
  <1>6. y = [x EXCEPT !.refs = R]
    BY <1>1, <1>3 DEF V!Incref, WriterFields
  <1>7. /\ DOMAIN y = WriterFields /\ SameTrees(x, y) /\ SameRest(x, y)
        /\ Tables(y) /\ y.refs = R /\ Spare(y) = Spare(x)
    <2>1. DOMAIN x = WriterFields /\ Tables(x)
      BY <1>1
    <2> QED
      BY <1>4, <1>5, <1>6, <2>1, RaiseTables
  <1>8. Shaped(y) /\ \A c : Hits(y, c) = Hits(x, c)
    BY <1>1, <1>7, TreesOnly
  <1>9. Extent(y, b)
    BY <1>2, <1>7 DEF Extent, SameTrees
  <1>15. Leaky(y) /\ y.leaked = x.leaked
    BY <1>7, SoundLeaks, LeaksStay DEF SameTrees, SameRest
  <1>10. \A c \in Blocks : y.refs[c] = Hits(y, c) + Extra(y, b, c)
    <2> SUFFICES ASSUME NEW c \in Blocks PROVE y.refs[c] = Hits(y, c) + Extra(y, b, c)
      OBVIOUS
    <2>1. /\ y.refs[c] = x.refs[c] + (IF c = b THEN 1 ELSE 0)
          /\ x.refs[c] = Hits(x, c) + x.leaked[c]
          /\ Extra(y, b, c) = x.leaked[c] + (IF c = b THEN 1 ELSE 0)
      BY <1>1, <1>4, <1>7, <1>15, SoundLeaks DEF Extra
    <2>2. x.leaked[c] \in Nat /\ Hits(x, c) \in Nat /\ Hits(y, c) = Hits(x, c)
      BY <1>1, <1>8, SoundLeaks
    <2> QED
      BY <2>1, <2>2
  <1>11. Sound(y, b)
    BY <1>2, <1>7, <1>8, <1>9, <1>10, <1>15, SoundFrom
  <1>12. SameFiles(x, y)
    BY <1>7, SameTreesRead
  <1>13. V!Bytes(y.disk, b) = d
    BY <1>2, <1>7 DEF V!Bytes, SameTrees
  <1>14. Within(x, y)
    BY <1>7 DEF Within, SameTrees
  <1>16. Resting(x, y)
    <2>1. y.root = x.root /\ y.rt = x.rt /\ y.fresh = x.fresh
      BY <1>6, <1>1, <1>7 DEF SameTrees, WriterFields
    <2>2. SameUsed(x, y)
      BY <1>7 DEF SameTrees, SameUsed
    <2>3. V!Pointers(y) = V!Pointers(x)
      BY <1>1, <2>2, UsedOnly
    <2> QED
      BY <2>1, <2>3 DEF Resting, Unmarked
  <1> QED
    BY <1>11, <1>12, <1>13, <1>14, <1>16

Stores(x, y, b, d) ==
    y = [V!Alloc(x, b, <<"data", d>>) EXCEPT !.dedup[d] = IF @ = None THEN b ELSE @]

\* What a new extent changes.
Stored(x, y, b, d) ==
    /\ DOMAIN y = WriterFields /\ SameRest(x, y) /\ y.root = x.root /\ y.rt = x.rt
    /\ y.free = x.free \ {b} /\ y.fresh = x.fresh \cup {b} /\ y.pinned = x.pinned
    /\ y.refs \in [Blocks -> Nat] /\ y.refs[b] = 1
    /\ \A c \in Blocks : c # b => y.refs[c] = x.refs[c]
    /\ DOMAIN y.disk = Blocks /\ y.disk[b] = <<"data", d>>
    /\ \A c \in Blocks : c # b => y.disk[c] = x.disk[c]
    /\ y.dedup \in [Data -> Blocks \cup {None}]
    /\ y.dedup[d] = IF x.dedup[d] = None THEN b ELSE x.dedup[d]
    /\ \A a \in Data : a # d => y.dedup[a] = x.dedup[a]

\* What storing an extent sets.
LEMMA StoreIs ==
    ASSUME NEW x, DOMAIN x = WriterFields, Tables(x), DOMAIN x.disk = Blocks,
           NEW d \in Data, NEW b \in Blocks, NEW y, Stores(x, y, b, d)
    PROVE  Stored(x, y, b, d)
  <1>1. PICK z : z = V!Alloc(x, b, <<"data", d>>)
    OBVIOUS
  <1>2. /\ DOMAIN z = WriterFields /\ z.root = x.root /\ z.rt = x.rt /\ z.ro = x.ro
        /\ z.default = x.default /\ z.leaked = x.leaked /\ z.dedup = x.dedup /\ z.pinned = x.pinned
        /\ z.free = x.free \ {b} /\ z.fresh = x.fresh \cup {b}
        /\ z.refs = [x.refs EXCEPT ![b] = 1] /\ z.disk = [x.disk EXCEPT ![b] = <<"data", d>>]
    BY <1>1 DEF V!Alloc, WriterFields
  <1>3. y = [z EXCEPT !.dedup[d] = IF @ = None THEN b ELSE @]
    BY <1>1 DEF Stores
  <1>4. /\ DOMAIN y = WriterFields /\ y.root = z.root /\ y.rt = z.rt /\ y.ro = z.ro
        /\ y.default = z.default /\ y.leaked = z.leaked /\ y.pinned = z.pinned /\ y.free = z.free /\ y.fresh = z.fresh
        /\ y.refs = z.refs /\ y.disk = z.disk
        /\ y.dedup = [z.dedup EXCEPT ![d] = IF @ = None THEN b ELSE @]
    BY <1>2, <1>3 DEF WriterFields
  <1>5. x.refs \in [Blocks -> Nat] /\ x.dedup \in [Data -> Blocks \cup {None}]
    BY DEF Tables
  <1>6. /\ y.refs \in [Blocks -> Nat] /\ y.refs[b] = 1
        /\ \A c \in Blocks : c # b => y.refs[c] = x.refs[c]
    BY <1>2, <1>4, <1>5
  <1>7. /\ y.dedup \in [Data -> Blocks \cup {None}]
        /\ y.dedup[d] = IF x.dedup[d] = None THEN b ELSE x.dedup[d]
        /\ \A a \in Data : a # d => y.dedup[a] = x.dedup[a]
    BY <1>2, <1>4, <1>5
  <1>8. /\ DOMAIN y.disk = Blocks /\ y.disk[b] = <<"data", d>>
        /\ \A c \in Blocks : c # b => y.disk[c] = x.disk[c]
    BY <1>2, <1>4
  <1> QED
    BY <1>2, <1>4, <1>6, <1>7, <1>8 DEF Stored, SameRest

\* An extent in a block of its own.
LEMMA StoreSound ==
    ASSUME V!VolumeConstants, NEW x, Sound(x, None), NEW d \in Data, NEW b \in x.free, NEW y,
           Stores(x, y, b, d)
    PROVE  /\ Sound(y, b) /\ Within(x, y) /\ Resting(x, y)
           /\ SameFiles(x, y) /\ V!Bytes(y.disk, b) = d
  <1>1. /\ DOMAIN x = WriterFields /\ Shaped(x) /\ Typed(x) /\ Tables(x) /\ None \notin Blocks
        /\ \A c \in Blocks : /\ x.refs[c] \in Nat /\ Hits(x, c) \in Nat
                             /\ x.refs[c] = Hits(x, c) + Extra(x, None, c)
    BY SoundHits
  <1>2. b \in Blocks /\ x.refs[b] = 0 /\ b \notin x.pinned /\ b \notin x.fresh
    BY <1>1 DEF Tables
  <1>3. Stored(x, y, b, d)
    <2>1. DOMAIN x = WriterFields /\ Tables(x) /\ DOMAIN x.disk = Blocks
      BY <1>1 DEF Typed
    <2> QED
      BY <1>2, <2>1, StoreIs
  <1>4. SameUsed(x, y)
    <2>1. \A e \in V!Pointers(x) : e[4] \in Blocks => e[4] # b
      BY <1>1, <1>2, Pointed
    <2> QED
      BY <1>1, <1>3, <2>1 DEF SameUsed, Stored, Typed
  <1>5. Shaped(y) /\ \A c : Hits(y, c) = Hits(x, c)
    BY <1>1, <1>4, UsedOnly
  <1>6. Tables(y)
    <2>1. y.refs \in [Blocks -> Nat] /\ y.dedup \in [Data -> Blocks \cup {None}]
      BY <1>3 DEF Stored
    <2>2. /\ y.free \subseteq Blocks /\ y.fresh \subseteq Blocks /\ y.pinned \subseteq Blocks
          /\ y.free \cap y.pinned = {} /\ y.fresh \cap (y.free \cup y.pinned) = {}
      BY <1>1, <1>2, <1>3 DEF Tables, Stored
    <2>3. \A c \in Blocks : y.refs[c] = 0 <=> c \in y.free \cup y.pinned
      <3> SUFFICES ASSUME NEW c \in Blocks PROVE y.refs[c] = 0 <=> c \in y.free \cup y.pinned
        OBVIOUS
      <3>1. x.refs[c] = 0 <=> c \in x.free \cup x.pinned
        BY <1>1 DEF Tables
      <3>2. CASE c = b
        BY <1>2, <1>3, <3>2 DEF Stored
      <3>3. CASE c # b
        BY <1>3, <3>1, <3>3 DEF Stored
      <3> QED
        BY <3>2, <3>3
    <2>4. ASSUME NEW a \in Data, y.dedup[a] # None
          PROVE  y.refs[y.dedup[a]] > 0 /\ y.disk[y.dedup[a]] = <<"data", a>>
      <3>1. CASE a = d /\ x.dedup[d] = None
        BY <1>3, <3>1 DEF Stored
      <3>2. CASE ~(a = d /\ x.dedup[d] = None)
        <4>1. y.dedup[a] = x.dedup[a]
          BY <1>3, <3>2 DEF Stored
        <4>2. /\ x.dedup[a] \in Blocks /\ x.refs[x.dedup[a]] > 0
              /\ x.disk[x.dedup[a]] = <<"data", a>>
          BY <1>1, <2>4, <4>1 DEF Tables
        <4>3. x.dedup[a] # b
          BY <1>2, <4>2
        <4> QED
          BY <1>3, <4>1, <4>2, <4>3 DEF Stored
      <3> QED
        BY <3>1, <3>2
    <2> QED
      BY <2>1, <2>2, <2>3, <2>4 DEF Tables
  <1>7. Extent(y, b)
    BY <1>3 DEF Extent, Stored
  <1>14. x.leaked[b] = 0
    BY <1>1, <1>2, SoundLeaks DEF Extra
  <1>15. Leaky(y) /\ y.leaked = x.leaked
    <2>1. y.leaked = x.leaked
      BY <1>3 DEF Stored, SameRest
    <2>2. \A c \in Blocks : x.leaked[c] > 0 => y.disk[c] = x.disk[c]
      BY <1>3, <1>14 DEF Stored
    <2> QED
      BY <2>1, <2>2, SoundLeaks, LeaksStay
  <1>8. \A c \in Blocks : y.refs[c] = Hits(y, c) + Extra(y, b, c)
    <2> SUFFICES ASSUME NEW c \in Blocks
                 PROVE  y.refs[c] = Hits(x, c) + x.leaked[c] + (IF c = b THEN 1 ELSE 0)
      <3>1. \A c \in Blocks : x.leaked[c] \in Nat /\ Hits(x, c) \in Nat
        BY <1>1, SoundLeaks
      <3> QED
        BY <1>5, <1>15, <3>1 DEF Extra
    <2>1. x.refs[c] = Hits(x, c) + x.leaked[c] /\ Hits(x, c) \in Nat /\ x.leaked[c] \in Nat
      BY <1>1, SoundLeaks DEF Extra
    <2> QED
      BY <1>2, <1>3, <1>14, <2>1 DEF Stored
  <1>9. DOMAIN y = WriterFields /\ b \in Blocks \cup {None}
    BY <1>2, <1>3 DEF Stored
  <1>10. Sound(y, b)
    BY <1>5, <1>6, <1>7, <1>8, <1>9, <1>15, SoundFrom
  <1>11. Within(x, y)
    BY <1>1, <1>3 DEF Within, Stored, Spare, Typed
  <1>12. SameFiles(x, y)
    BY <1>1, <1>4, UsedReads
  <1>13. V!Bytes(y.disk, b) = d
    <2>1. y.disk[b] = <<"data", d>> /\ b # None
      BY <1>1, <1>2, <1>3 DEF Stored
    <2> QED
      BY <2>1 DEF V!Bytes
  <1>16. Resting(x, y)
    <2>1. V!Pointers(y) = V!Pointers(x)
      BY <1>1, <1>4, UsedOnly
    <2>2. \A e \in V!Pointers(x) : e[4] # b
      BY <1>2, Pointed, SoundHits
    <2>3. y.root = x.root /\ y.rt = x.rt /\ y.fresh = x.fresh \cup {b}
      BY <1>3 DEF Stored
    <2> QED
      BY <2>1, <2>2, <2>3 DEF Resting, Unmarked
  <1> QED
    BY <1>10, <1>11, <1>12, <1>13, <1>16

-----------------------------------------------------------------------------
(* The tree of subvolumes.                                                 *)

\* The tree of subvolumes copied into memory.
LEMMA TouchRootsSound ==
    ASSUME V!VolumeConstants, NEW x, Sound(x, None), NEW y, y = V!TouchRoots(x)
    PROVE  /\ Sound(y, None) /\ Keeps(x, y) /\ y.root = x.root /\ y.rt = <<"mem", None>>
           /\ x.free \subseteq y.free
  <1>1. /\ DOMAIN x = WriterFields /\ Shaped(x) /\ Typed(x) /\ Tables(x) /\ None \notin Blocks
        /\ \A c \in Blocks : /\ x.refs[c] \in Nat /\ Hits(x, c) \in Nat
                             /\ x.refs[c] = Hits(x, c) + Extra(x, None, c)
    BY SoundHits
  <1>2. x.rt \in {<<"mem", None>>} \cup ({"disk"} \X Blocks)
    BY <1>1 DEF Shaped
  <1>3. CASE x.rt[1] = "mem"
    <2>1. y = x /\ x.rt = <<"mem", None>>
      BY <1>2, <1>3 DEF V!TouchRoots
    <2> QED
      BY <2>1 DEF Keeps, SameRest
  <1>4. CASE x.rt[1] # "mem"
    <2>1. PICK r : r = x.rt[2]
      OBVIOUS
    <2>2. r \in Blocks /\ x.rt[1] = "disk"
      BY <1>2, <1>4, <2>1
    <2>3. x.refs[r] > 0
      <3>1. <<"roots", 0, 0, r>> \in V!Pointers(x)
        BY <2>1, PointersAre
      <3> QED
        BY <2>2, <3>1, Pointed
    <2>4. PICK z : z = V!Decref(x, r)
      OBVIOUS
    <2>5. /\ DOMAIN z = WriterFields /\ SameTrees(x, z) /\ SameRest(x, z)
          /\ Tables(z) /\ Spare(z) \subseteq Spare(x) /\ x.free \subseteq z.free
          /\ \A b \in Blocks : z.refs[b] = x.refs[b] - (IF b = r THEN 1 ELSE 0)
      BY <1>1, <2>2, <2>3, <2>4, DecrefTables
    <2>6. y = [z EXCEPT !.rt = <<"mem", None>>]
      BY <1>4, <2>1, <2>4 DEF V!TouchRoots
    <2>7. /\ DOMAIN y = WriterFields /\ y.rt = <<"mem", None>> /\ y.root = z.root
          /\ y.disk = z.disk /\ SameRest(z, y) /\ y.refs = z.refs /\ y.dedup = z.dedup
          /\ y.free = z.free /\ y.fresh = z.fresh /\ y.pinned = z.pinned
      BY <2>5, <2>6 DEF WriterFields, SameRest
    <2>8. y.root = x.root /\ y.disk = x.disk
      BY <2>5, <2>7 DEF SameTrees
    <2>9. V!DiskRoots(y) = V!DiskRoots(x) /\ V!MemRoots(y) = V!MemRoots(x)
      BY <2>8 DEF V!DiskRoots, V!MemRoots
    <2>10. V!Nodes(y) = V!Nodes(x) /\ V!MemLeaves(y) = V!MemLeaves(x)
      BY <2>8, <2>9 DEF V!Nodes, V!MemLeaves
    <2>11. V!Leaves(y) = V!Leaves(x)
      BY <2>8, <2>9, <2>10 DEF V!Leaves
    <2>12. Shaped(y)
      <3>1. \A e : Extent(y, e) <=> Extent(x, e)
        BY <2>8 DEF Extent
      <3>2. Typed(y)
        BY <1>1, <2>8, <2>10 DEF Typed
      <3>3. y.rt[1] # "disk" /\ y.rt \in {<<"mem", None>>}
        BY <2>7
      <3> QED
        BY <1>1, <2>8, <2>9, <2>10, <2>11, <3>1, <3>2, <3>3 DEF Shaped
    <2>13. ASSUME NEW b \in Blocks PROVE Hits(y, b) = Hits(x, b) - (IF b = r THEN 1 ELSE 0)
      <3>1. /\ RootHits(y, b) = RootHits(x, b) /\ NodeHits(y, b) = NodeHits(x, b)
            /\ MemHits(y, b) = MemHits(x, b) /\ LeafHits(y, b) = LeafHits(x, b)
        BY <2>8, <2>9, <2>10, <2>11 DEF RootHits, NodeHits, MemHits, LeafHits
      <3>2. /\ Cardinality(RootHits(x, b)) \in Nat /\ Cardinality(NodeHits(x, b)) \in Nat
            /\ Cardinality(MemHits(x, b)) \in Nat /\ Cardinality(LeafHits(x, b)) \in Nat
        BY <1>1, HitsFinite
      <3>3. y.rt[2] # b
        BY <1>1, <2>7
      <3> QED
        BY <2>1, <3>1, <3>2, <3>3 DEF Hits
    <2>14. Tables(y)
      BY <2>5, <2>7 DEF Tables
    <2>18. Leaky(y) /\ \A b : Extra(y, None, b) = Extra(x, None, b)
      <3>1. y.leaked = x.leaked
        BY <2>5, <2>7 DEF SameRest
      <3> QED
        BY <2>8, <3>1, SoundLeaks, LeaksStay
    <2>15. \A b \in Blocks : y.refs[b] = Hits(y, b) + Extra(y, None, b)
      <3> SUFFICES ASSUME NEW b \in Blocks PROVE y.refs[b] = Hits(y, b) + Extra(x, None, b)
        BY <2>18
      <3>1. x.refs[b] = Hits(x, b) + Extra(x, None, b) /\ Hits(x, b) \in Nat /\ Extra(x, None, b) \in Nat
        BY <1>1, SoundLeaks
      <3>2. y.refs[b] = x.refs[b] - (IF b = r THEN 1 ELSE 0)
        BY <2>5, <2>7
      <3> QED
        BY <2>13, <3>1, <3>2
    <2>16. Extent(y, None)
      BY DEF Extent
    <2>17. Sound(y, None)
      BY <2>7, <2>12, <2>14, <2>15, <2>16, <2>18, SoundFrom
    <2> QED
      BY <2>5, <2>7, <2>8, <2>17 DEF Keeps, SameRest, Spare
  <1> QED
    BY <1>3, <1>4

-----------------------------------------------------------------------------
(* A commit gives every node in memory a free block of its own.            *)

\* A set that lacks an element is smaller.
LEMMA FewerThan ==
    ASSUME NEW S, IsFiniteSet(S), NEW T, T \subseteq S, NEW e \in S, e \notin T
    PROVE  IsFiniteSet(T) /\ Cardinality(T) \in Nat /\ Cardinality(S) \in Nat
           /\ Cardinality(T) < Cardinality(S)
  <1>1. IsFiniteSet(T) /\ Cardinality(T) <= Cardinality(S) /\ Cardinality(S) # Cardinality(T)
    BY FS_Subset
  <1> QED
    BY <1>1, FS_CardinalityType

\* Every number below the size of a set is the rank of one of its elements.
LEMMA RankOfOne ==
    ASSUME NEW S, S \subseteq Nat, IsFiniteSet(S), NEW i \in Nat, i < Cardinality(S)
    PROVE  \E b \in S : Cardinality({c \in S : c < b}) = i
  <1>1. Cardinality(S) \in Nat
    BY FS_CardinalityType
  <1>2. PICK n \in Nat : n = Cardinality(S)
    BY <1>1
  <1>3. PICK T : T = 0 .. (n - 1)
    OBVIOUS
  <1>4. IsFiniteSet(T) /\ Cardinality(T) = n
    <2>1. 0 \in Int /\ n - 1 \in Int /\ ~(0 > n - 1)
      BY <1>2
    <2>2. IsFiniteSet(0 .. (n - 1)) /\ Cardinality(0 .. (n - 1)) = (n - 1) - 0 + 1
      BY <2>1, FS_Interval
    <2> QED
      BY <1>3, <2>2
  <1>5. PICK f : f = [b \in S |-> Cardinality({c \in S : c < b})]
    OBVIOUS
  <1>6. f \in [S -> T]
    <2>1. ASSUME NEW b \in S PROVE Cardinality({c \in S : c < b}) \in T
      <3>1. PICK U : U = {c \in S : c < b}
        OBVIOUS
      <3>2. U \subseteq S /\ b \notin U
        BY <3>1
      <3>3. Cardinality(U) \in Nat /\ Cardinality(U) < n
        BY <1>2, <3>2, FewerThan
      <3> QED
        BY <1>3, <3>1, <3>3
    <2> QED
      BY <1>5, <2>1
  <1>7. \A a, b \in S : a < b => f[a] < f[b]
    <2> SUFFICES ASSUME NEW a \in S, NEW b \in S, a < b PROVE f[a] < f[b]
      OBVIOUS
    <2>1. PICK A, B : A = {c \in S : c < a} /\ B = {c \in S : c < b}
      OBVIOUS
    <2>0. (\A c \in S : c < a => c < b) /\ ~(a < a)
      <3>1. a \in Nat /\ b \in Nat /\ \A c \in S : c \in Nat
        OBVIOUS
      <3> QED
        BY <3>1
    <2>2. A \subseteq B /\ a \in B /\ a \notin A /\ B \subseteq S
      BY <2>0, <2>1
    <2>3. IsFiniteSet(B)
      BY <2>2, FS_Subset
    <2>4. Cardinality(A) < Cardinality(B)
      BY <2>2, <2>3, FewerThan
    <2> QED
      BY <1>5, <2>1, <2>4
  <1>8. \A a, b \in S : f[a] = f[b] => a = b
    <2>1. \A a \in S : f[a] \in Nat /\ a \in Nat
      BY <1>3, <1>6
    <2> QED
      BY <1>7, <2>1
  <1>9. f \in Injection(S, T)
    BY <1>6, <1>8 DEF Injection, IsInjective
  <1>10. f \in Surjection(S, T)
    BY <1>2, <1>4, <1>9, FS_Injection
  <1>11. i \in T
    BY <1>2, <1>3
  <1>12. PICK b \in S : f[b] = i
    BY <1>10, <1>11 DEF Surjection
  <1> QED
    BY <1>5, <1>12

\* at gives the nodes N different blocks of S.
Placed(at, N, S) == at \in [N -> S] /\ \A m, n \in N : at[m] = at[n] => m = n

\* Different nodes get different blocks.
LEMMA PlaceIs ==
    ASSUME NEW S, S \subseteq Nat, IsFiniteSet(S), NEW N, N \subseteq Nat \X Nat, IsFiniteSet(N),
           Cardinality(N) <= Cardinality(S), NEW at, at = V!Place(N, S)
    PROVE  Placed(at, N, S)
  <1>1. PICK f : f = [n \in N |-> Cardinality({m \in N : V!Precedes(m, n)})]
    OBVIOUS
  <1>2. \A m, n \in N : ~V!Precedes(m, m) /\ (m # n => V!Precedes(m, n) \/ V!Precedes(n, m))
    <2> SUFFICES ASSUME NEW m \in N, NEW n \in N
                 PROVE  ~V!Precedes(m, m) /\ (m # n => V!Precedes(m, n) \/ V!Precedes(n, m))
      OBVIOUS
    <2>1. /\ m = <<m[1], m[2]>> /\ m[1] \in Nat /\ m[2] \in Nat
          /\ n = <<n[1], n[2]>> /\ n[1] \in Nat /\ n[2] \in Nat
      OBVIOUS
    <2> QED
      BY <2>1 DEF V!Precedes
  <1>3. \A l, m, n \in N : V!Precedes(l, m) /\ V!Precedes(m, n) => V!Precedes(l, n)
    <2> SUFFICES ASSUME NEW l \in N, NEW m \in N, NEW n \in N, V!Precedes(l, m), V!Precedes(m, n)
                 PROVE  V!Precedes(l, n)
      OBVIOUS
    <2>1. l[1] \in Nat /\ l[2] \in Nat /\ m[1] \in Nat /\ m[2] \in Nat /\ n[1] \in Nat /\ n[2] \in Nat
      OBVIOUS
    <2> QED
      BY <2>1 DEF V!Precedes
  <1>4. \A n \in N : f[n] \in Nat /\ f[n] < Cardinality(S)
    <2> SUFFICES ASSUME NEW n \in N PROVE f[n] \in Nat /\ f[n] < Cardinality(S)
      OBVIOUS
    <2>1. PICK A : A = {m \in N : V!Precedes(m, n)}
      OBVIOUS
    <2>2. A \subseteq N /\ n \notin A
      BY <1>2, <2>1
    <2>3. Cardinality(A) \in Nat /\ Cardinality(A) < Cardinality(N) /\ Cardinality(N) \in Nat
      BY <2>2, FewerThan
    <2>4. Cardinality(S) \in Nat
      BY FS_CardinalityType
    <2> QED
      BY <1>1, <2>1, <2>3, <2>4
  <1>5. \A m, n \in N : V!Precedes(m, n) => f[m] < f[n]
    <2> SUFFICES ASSUME NEW m \in N, NEW n \in N, V!Precedes(m, n) PROVE f[m] < f[n]
      OBVIOUS
    <2>1. PICK A, B : A = {l \in N : V!Precedes(l, m)} /\ B = {l \in N : V!Precedes(l, n)}
      OBVIOUS
    <2>2. A \subseteq B /\ m \in B /\ m \notin A /\ B \subseteq N
      BY <1>2, <1>3, <2>1
    <2>3. IsFiniteSet(B)
      BY <2>2, FS_Subset
    <2>4. Cardinality(A) < Cardinality(B)
      BY <2>2, <2>3, FewerThan
    <2> QED
      BY <1>1, <2>1, <2>4
  <1>6. \A m, n \in N : f[m] = f[n] => m = n
    BY <1>2, <1>4, <1>5
  <1>7. PICK g : g = [b \in S |-> Cardinality({c \in S : c < b})]
    OBVIOUS
  <1>8. at = [n \in N |-> CHOOSE b \in S :
                V!Cardinality({c \in S : c < b}) = V!Cardinality({m \in N : V!Precedes(m, n)})]
    BY DEF V!Place
  <1>9. \A n \in N : at[n] \in S /\ g[at[n]] = f[n]
    <2> SUFFICES ASSUME NEW n \in N PROVE at[n] \in S /\ g[at[n]] = f[n]
      OBVIOUS
    <2>1. PICK A : A = {m \in N : V!Precedes(m, n)}
      OBVIOUS
    <2>2. f[n] = Cardinality(A) /\ V!Cardinality(A) = Cardinality(A)
      BY <1>1, <2>1, VolumeFinite
    <2>3. \E b \in S : V!Cardinality({c \in S : c < b}) = V!Cardinality(A)
      <3>1. f[n] \in Nat /\ f[n] < Cardinality(S)
        BY <1>4
      <3>2. PICK b \in S : Cardinality({c \in S : c < b}) = f[n]
        BY <3>1, RankOfOne
      <3>3. PICK B : B = {c \in S : c < b}
        OBVIOUS
      <3>4. V!Cardinality(B) = V!Cardinality(A)
        BY <2>2, <3>2, <3>3, VolumeFinite
      <3> QED
        BY <3>3, <3>4
    <2>4. at[n] = CHOOSE b \in S : V!Cardinality({c \in S : c < b}) = V!Cardinality(A)
      BY <1>8, <2>1
    <2>5. at[n] \in S /\ V!Cardinality({c \in S : c < at[n]}) = V!Cardinality(A)
      BY <2>3, <2>4
    <2>6. g[at[n]] = Cardinality({c \in S : c < at[n]})
      BY <1>7, <2>5
    <2> QED
      BY <2>2, <2>5, <2>6, VolumeFinite
  <1>10. at \in [N -> S]
    BY <1>8, <1>9
  <1>11. \A m, n \in N : at[m] = at[n] => m = n
    BY <1>6, <1>9
  <1> QED
    BY <1>10, <1>11 DEF Placed

\* The blocks S, to which nothing points, have room for the tree of subvolumes
\* (T), the roots in memory (A) and the leaves in memory (L).
Layout(x, S, T, A, L) ==
    /\ S \subseteq Blocks /\ \A e \in V!Pointers(x) : e[4] \notin S
    /\ T \in S /\ A \in [V!MemRoots(x) -> S] /\ L \in [V!MemLeaves(x) -> S]
    /\ \A u, v \in V!MemRoots(x) : A[u] = A[v] => u = v
    /\ \A m, n \in V!MemLeaves(x) : L[m] = L[n] => m = n
    /\ \A u \in V!MemRoots(x) : A[u] # T /\ \A m \in V!MemLeaves(x) : A[u] # L[m]
    /\ \A m \in V!MemLeaves(x) : L[m] # T

Unused(x, T, A, L, b) ==
    b # T /\ (\A u \in V!MemRoots(x) : A[u] # b) /\ \A m \in V!MemLeaves(x) : L[m] # b

\* The leaf at position p of the root of sv, once it is written.
Kid(x, L, sv, p) ==
    IF <<sv, p>> \in V!MemLeaves(x) THEN L[<<sv, p>>] ELSE x.root[sv][2][p][2]

\* y is x when they are written there.
Written(x, y, T, A, L) ==
    /\ DOMAIN y.root = DOMAIN x.root
    /\ \A sv \in V!MemRoots(x) : y.root[sv] = <<"disk", A[sv]>>
    /\ \A sv \in V!DiskRoots(x) : y.root[sv] = x.root[sv]
    /\ y.rt = <<"disk", T>>
    /\ DOMAIN y.disk = Blocks /\ y.disk[T] = <<"roots", None>>
    /\ \A sv \in V!MemRoots(x) : y.disk[A[sv]] = <<"node", [p \in Pos |-> Kid(x, L, sv, p)]>>
    /\ \A sv \in V!MemRoots(x) : \A p \in Pos : <<sv, p>> \in V!MemLeaves(x) =>
          y.disk[L[<<sv, p>>]] = <<"leaf", x.root[sv][2][p][2]>>
    /\ \A b \in Blocks : Unused(x, T, A, L, b) => y.disk[b] = x.disk[b]

Commits(x, y, S, T, A, L) ==
    /\ Shaped(x) /\ x.rt = <<"mem", None>>
    /\ Layout(x, S, T, A, L) /\ Written(x, y, T, A, L)

\* The leaves in memory, by subvolume and position.
LEMMA MemLeavesAre ==
    ASSUME NEW x, Typed(x)
    PROVE  /\ \A sv \in V!MemRoots(x) : \A p \in Pos :
                 <<sv, p>> \in V!MemLeaves(x) <=> x.root[sv][2][p][1] = "mem"
           /\ \A m \in V!MemLeaves(x) : \E sv \in V!MemRoots(x) : \E p \in Pos : m = <<sv, p>>
  BY DEF V!MemLeaves

\* What was pointed at is as it was.
LEMMA WrittenKeeps ==
    ASSUME NEW x, NEW y, NEW S, NEW T, NEW A, NEW L, Commits(x, y, S, T, A, L)
    PROVE  /\ \A b \in Blocks : b \notin S => y.disk[b] = x.disk[b]
           /\ \A r \in V!Nodes(x) : r \in Blocks /\ r \notin S /\ y.disk[r] = x.disk[r]
           /\ \A l \in V!Leaves(x) : l \in Blocks /\ l \notin S /\ y.disk[l] = x.disk[l]
           /\ \A l \in V!Leaves(x) : x.disk[l][2] \notin S
           /\ \A sv \in V!MemRoots(x) : \A p \in Pos : x.root[sv][2][p][2] \notin S
  <1>1. Shaped(x) /\ Layout(x, S, T, A, L) /\ Written(x, y, T, A, L)
    BY DEF Commits
  <1>2. ASSUME NEW b \in Blocks, b \notin S PROVE y.disk[b] = x.disk[b]
    <2>1. Unused(x, T, A, L, b)
      BY <1>1, <1>2 DEF Unused, Layout
    <2> QED
      BY <1>1, <2>1 DEF Written
  <1>3. \A r \in V!Nodes(x) : r \in Blocks /\ r \notin S
    BY <1>1, AllPointed DEF Layout
  <1>4. \A l \in V!Leaves(x) : l \in Blocks /\ l \notin S /\ x.disk[l][2] \notin S
    BY <1>1, AllPointed DEF Layout
  <1>5. \A sv \in V!MemRoots(x) : \A p \in Pos : x.root[sv][2][p][2] \notin S
    BY <1>1, AllPointed DEF Layout
  <1> QED
    BY <1>2, <1>3, <1>4, <1>5

\* A root that is written has the leaves that are written and those it had.
LEMMA KidIs ==
    ASSUME NEW x, NEW y, NEW S, NEW T, NEW A, NEW L, Commits(x, y, S, T, A, L),
           NEW sv \in V!MemRoots(x), NEW p \in Pos
    PROVE  /\ Kid(x, L, sv, p) \in Blocks
           /\ x.root[sv][2][p][1] \in {"mem", "disk"}
           /\ x.root[sv][2][p][1] = "mem" =>
                /\ <<sv, p>> \in V!MemLeaves(x) /\ Kid(x, L, sv, p) = L[<<sv, p>>]
                /\ L[<<sv, p>>] \in S
  <1>1. Shaped(x) /\ Typed(x) /\ Layout(x, S, T, A, L) /\ Written(x, y, T, A, L)
    BY ShapedTyped DEF Commits
  <1>3. \A q \in Pos : x.root[sv][2][q] \in Links
    BY <1>1, NodesAre
  <1>4. \A q \in Pos : x.root[sv][2][q][1] \in {"mem", "disk"}
                       /\ (x.root[sv][2][q][1] = "disk" => x.root[sv][2][q][2] \in Blocks)
    BY <1>3, LinkIs
  <1>5. \A m \in V!MemLeaves(x) : L[m] \in S /\ L[m] \in Blocks
    BY <1>1 DEF Layout
  <1>6. \A q \in Pos : <<sv, q>> \in V!MemLeaves(x) <=> x.root[sv][2][q][1] = "mem"
    BY <1>1, MemLeavesAre
  <1>7. \A q \in Pos : Kid(x, L, sv, q) \in Blocks
    BY <1>4, <1>5, <1>6 DEF Kid
  <1>8. x.root[sv][2][p][1] = "mem" =>
            /\ <<sv, p>> \in V!MemLeaves(x) /\ Kid(x, L, sv, p) = L[<<sv, p>>]
            /\ L[<<sv, p>>] \in S
    BY <1>5, <1>6 DEF Kid
  <1> QED
    BY <1>4, <1>7, <1>8

\* A link that is not in memory is at a block.
LEMMA LinkOnDisk ==
    ASSUME NEW x, Typed(x), NEW sv \in V!MemRoots(x), NEW p \in Pos, x.root[sv][2][p][1] # "mem"
    PROVE  \E l \in Blocks : x.root[sv][2][p] = <<"disk", l>>
  <1>1. x.root[sv][2][p] \in Links
    BY NodesAre
  <1> QED
    BY <1>1 DEF Links

\* A leaf that is on disk already stays where it is.
LEMMA KidKept ==
    ASSUME NEW x, Shaped(x), NEW L, NEW sv \in V!MemRoots(x), NEW p \in Pos,
           NEW l, x.root[sv][2][p] = <<"disk", l>>
    PROVE  /\ <<sv, p>> \notin V!MemLeaves(x) /\ Kid(x, L, sv, p) = l
           /\ l \in V!Leaves(x)
  <1>1. l \in V!Leaves(x)
    BY LeafOfCopy, ShapedTyped
  <1>2. <<sv, p>> \notin V!MemLeaves(x)
    BY MemLeavesAre, ShapedTyped
  <1> QED
    BY <1>1, <1>2 DEF Kid

\* The block of a root that was in memory.
LEMMA RootWritten ==
    ASSUME NEW x, NEW y, NEW S, NEW T, NEW A, NEW L, Commits(x, y, S, T, A, L),
           NEW sv \in V!MemRoots(x)
    PROVE  /\ A[sv] \in S /\ A[sv] \in Blocks
           /\ y.disk[A[sv]] \in {"node"} \X [Pos -> Blocks]
           /\ \A p \in Pos : y.disk[A[sv]][2][p] = Kid(x, L, sv, p)
  <1>1. A[sv] \in S /\ A[sv] \in Blocks
    BY DEF Commits, Layout
  <1>2. \A q \in Pos : Kid(x, L, sv, q) \in Blocks
    BY KidIs
  <1>3. PICK f : f = [q \in Pos |-> Kid(x, L, sv, q)]
    OBVIOUS
  <1>4. f \in [Pos -> Blocks] /\ \A p \in Pos : f[p] = Kid(x, L, sv, p)
    BY <1>2, <1>3
  <1>5. y.disk[A[sv]] = <<"node", f>>
    BY <1>3 DEF Commits, Written
  <1> QED
    BY <1>1, <1>4, <1>5

\* After a commit every root is on disk.
LEMMA CommitTyped ==
    ASSUME NEW x, NEW y, NEW S, NEW T, NEW A, NEW L, Commits(x, y, S, T, A, L)
    PROVE  /\ Typed(y) /\ V!MemRoots(y) = {} /\ V!DiskRoots(y) = DOMAIN x.root
           /\ V!MemLeaves(y) = {}
           /\ \A r : r \in V!Nodes(y) <=> r \in V!Nodes(x) \/ \E sv \in V!MemRoots(x) : r = A[sv]
  <1>1. Shaped(x) /\ Typed(x) /\ Layout(x, S, T, A, L) /\ Written(x, y, T, A, L)
    BY ShapedTyped DEF Commits
  <1>2. DOMAIN y.root = DOMAIN x.root /\ DOMAIN y.disk = Blocks
    BY <1>1 DEF Written
  <1>3. \A sv \in V!MemRoots(x) : y.root[sv] = <<"disk", A[sv]>> /\ A[sv] \in Blocks
    BY <1>1 DEF Written, Layout
  <1>4. \A sv \in V!DiskRoots(x) : y.root[sv] = x.root[sv]
    BY <1>1 DEF Written
  <1>5. /\ V!DiskRoots(x) \cup V!MemRoots(x) = DOMAIN x.root
        /\ \A sv \in V!DiskRoots(x) : x.root[sv] = <<"disk", x.root[sv][2]>> /\ x.root[sv][2] \in Blocks
    BY <1>1, NodesAre
  <1>6. \A sv \in DOMAIN y.root : y.root[sv][1] = "disk" /\ y.root[sv] \in {"disk"} \X Blocks
    <2> SUFFICES ASSUME NEW sv \in DOMAIN x.root
                 PROVE  y.root[sv][1] = "disk" /\ y.root[sv] \in {"disk"} \X Blocks
      BY <1>2
    <2>1. CASE sv \in V!MemRoots(x)
      BY <1>3, <2>1
    <2>2. CASE sv \in V!DiskRoots(x)
      <3>1. PICK b \in Blocks : x.root[sv] = <<"disk", b>>
        BY <1>5, <2>2
      <3> QED
        BY <1>4, <2>2, <3>1
    <2> QED
      BY <1>5, <2>1, <2>2
  <1>7. V!MemRoots(y) = {} /\ V!DiskRoots(y) = DOMAIN x.root
    BY <1>2, <1>6 DEF V!MemRoots, V!DiskRoots
  <1>8. V!MemLeaves(y) = {}
    BY <1>7 DEF V!MemLeaves
  <1>9. ASSUME NEW r
        PROVE  r \in V!Nodes(y) <=> r \in V!Nodes(x) \/ \E sv \in V!MemRoots(x) : r = A[sv]
    <2>1. r \in V!Nodes(y) <=> \E sv \in DOMAIN x.root : y.root[sv][2] = r
      BY <1>7 DEF V!Nodes
    <2>2. r \in V!Nodes(x) <=> \E sv \in V!DiskRoots(x) : x.root[sv][2] = r
      BY DEF V!Nodes
    <2> QED
      BY <1>3, <1>4, <1>5, <2>1, <2>2
  <1>10. \A r \in V!Nodes(y) : y.disk[r] \in {"node"} \X [Pos -> Blocks]
    <2> SUFFICES ASSUME NEW r \in V!Nodes(y) PROVE y.disk[r] \in {"node"} \X [Pos -> Blocks]
      OBVIOUS
    <2>1. CASE r \in V!Nodes(x)
      BY <1>1, <2>1, WrittenKeeps DEF Typed
    <2>2. CASE \E sv \in V!MemRoots(x) : r = A[sv]
      <3>1. PICK sv \in V!MemRoots(x) : r = A[sv]
        BY <2>2
      <3> QED
        BY <3>1, RootWritten
    <2> QED
      BY <1>9, <2>1, <2>2
  <1>11. Typed(y)
    <2>1. \A sv \in DOMAIN y.root : y.root[sv] \in Roots
      BY <1>6 DEF Roots
    <2> QED
      BY <1>1, <1>2, <1>10, <2>1 DEF Typed
  <1> QED
    BY <1>7, <1>8, <1>9, <1>11

\* The leaves after a commit: those there were and those written.
LEMMA CommitLeaves ==
    ASSUME NEW x, NEW y, NEW S, NEW T, NEW A, NEW L, Commits(x, y, S, T, A, L), NEW l
    PROVE  l \in V!Leaves(y) <=> l \in V!Leaves(x) \/ \E m \in V!MemLeaves(x) : l = L[m]
  <1>1. Shaped(x) /\ Typed(x)
    BY ShapedTyped DEF Commits
  <1>2. /\ Typed(y) /\ V!MemRoots(y) = {}
        /\ \A r : r \in V!Nodes(y) <=> r \in V!Nodes(x) \/ \E sv \in V!MemRoots(x) : r = A[sv]
    BY CommitTyped
  <1>3. \A r \in V!Nodes(x) : y.disk[r] = x.disk[r]
    BY WrittenKeeps
  <1>4. l \in V!Leaves(y) <=> \E r \in V!Nodes(y) : \E p \in Pos : l = y.disk[r][2][p]
    BY <1>2, LeavesAre
  <1>5. ASSUME l \in V!Leaves(y) PROVE l \in V!Leaves(x) \/ \E m \in V!MemLeaves(x) : l = L[m]
    <2>1. PICK r \in V!Nodes(y), p \in Pos : l = y.disk[r][2][p]
      BY <1>4, <1>5
    <2>2. CASE r \in V!Nodes(x)
      BY <1>1, <1>3, <2>1, <2>2, LeafOfNode
    <2>3. CASE r \notin V!Nodes(x)
      <3>1. PICK sv \in V!MemRoots(x) : r = A[sv]
        BY <1>2, <2>3
      <3>2. l = Kid(x, L, sv, p)
        BY <2>1, <3>1, RootWritten
      <3>3. x.root[sv][2][p][1] \in {"mem", "disk"}
        BY KidIs
      <3>4. CASE x.root[sv][2][p][1] = "mem"
        <4>1. <<sv, p>> \in V!MemLeaves(x) /\ Kid(x, L, sv, p) = L[<<sv, p>>]
          BY <3>4, KidIs
        <4> QED
          BY <3>2, <4>1
      <3>5. CASE x.root[sv][2][p][1] = "disk"
        <4>1. PICK a : x.root[sv][2][p] = <<"disk", a>>
          BY <1>1, <3>5, LinkOnDisk
        <4>2. Kid(x, L, sv, p) = a /\ a \in V!Leaves(x)
          BY <1>1, <4>1, KidKept
        <4> QED
          BY <3>2, <4>2
      <3> QED
        BY <3>3, <3>4, <3>5
    <2> QED
      BY <2>2, <2>3
  <1>6. ASSUME NEW m \in V!MemLeaves(x), l = L[m] PROVE l \in V!Leaves(y)
    <2>1. PICK sv \in V!MemRoots(x), p \in Pos : m = <<sv, p>>
      BY <1>1, MemLeavesAre
    <2>2. x.root[sv][2][p][1] = "mem"
      BY <1>1, <2>1, MemLeavesAre
    <2>3. Kid(x, L, sv, p) = l /\ y.disk[A[sv]][2][p] = Kid(x, L, sv, p)
      BY <1>6, <2>1, <2>2, KidIs, RootWritten
    <2> QED
      BY <1>2, <1>4, <2>3
  <1>7. ASSUME l \in V!Leaves(x) PROVE l \in V!Leaves(y)
    <2>1. CASE \E r \in V!Nodes(x) : \E p \in Pos : l = x.disk[r][2][p]
      BY <1>2, <1>3, <1>4, <2>1
    <2>2. CASE \E sv \in V!MemRoots(x) : \E p \in Pos : x.root[sv][2][p] = <<"disk", l>>
      <3>1. PICK sv \in V!MemRoots(x), p \in Pos : x.root[sv][2][p] = <<"disk", l>>
        BY <2>2
      <3>2. x.root[sv][2][p][1] = "disk" /\ x.root[sv][2][p][2] = l
        BY <3>1
      <3>3. Kid(x, L, sv, p) = l /\ y.disk[A[sv]][2][p] = Kid(x, L, sv, p)
        <4>1. Kid(x, L, sv, p) = l
          BY <1>1, <3>1, KidKept
        <4>2. y.disk[A[sv]][2][p] = Kid(x, L, sv, p)
          BY RootWritten
        <4> QED
          BY <3>2, <4>1, <4>2
      <3> QED
        BY <1>2, <1>4, <3>3
    <2> QED
      BY <1>1, <1>7, <2>1, <2>2, LeafFrom
  <1> QED
    BY <1>5, <1>6, <1>7

\* The block of a leaf that was in memory.
LEMMA LeafWritten ==
    ASSUME NEW x, NEW y, NEW S, NEW T, NEW A, NEW L, Commits(x, y, S, T, A, L),
           NEW sv \in V!MemRoots(x), NEW p \in Pos, x.root[sv][2][p][1] = "mem",
           NEW e, e = x.root[sv][2][p][2]
    PROVE  /\ y.disk[L[<<sv, p>>]] = <<"leaf", e>> /\ e \in Blocks \cup {None} /\ e \notin S
           /\ Extent(x, e) /\ Extent(y, e)
  <1>1. Shaped(x) /\ Typed(x) /\ Written(x, y, T, A, L)
    BY ShapedTyped DEF Commits
  <1>2. <<sv, p>> \in V!MemLeaves(x)
    BY <1>1, MemLeavesAre
  <1>3. y.disk[L[<<sv, p>>]] = <<"leaf", e>>
    BY <1>1, <1>2 DEF Written
  <1>4. e \in Blocks \cup {None}
    <2>1. x.root[sv][2][p] \in Links
      BY <1>1, NodesAre
    <2> QED
      BY <2>1, LinkIs
  <1>5. e \notin S /\ \A b \in Blocks : b \notin S => y.disk[b] = x.disk[b]
    BY WrittenKeeps
  <1>6. Extent(x, e)
    <2>1. Extent(x, x.root[<<sv, p>>[1]][2][<<sv, p>>[2]][2])
      BY <1>1, <1>2 DEF Shaped
    <2> QED
      BY <2>1
  <1>7. Extent(y, e)
    BY <1>4, <1>5, <1>6 DEF Extent
  <1> QED
    BY <1>3, <1>4, <1>5, <1>6, <1>7

\* A commit changes nothing that is read.
LEMMA CommitReads ==
    ASSUME V!VolumeConstants, NEW x, NEW y, NEW S, NEW T, NEW A, NEW L, Commits(x, y, S, T, A, L)
    PROVE  SameFiles(x, y)
  <1>1. Shaped(x) /\ Typed(x) /\ None \notin Blocks /\ Written(x, y, T, A, L)
    BY ShapedTyped DEF V!VolumeConstants, Commits
  <1>2. /\ \A b \in Blocks : b \notin S => y.disk[b] = x.disk[b]
        /\ \A r \in V!Nodes(x) : y.disk[r] = x.disk[r]
        /\ \A l \in V!Leaves(x) : y.disk[l] = x.disk[l] /\ x.disk[l][2] \notin S
    BY WrittenKeeps
  <1>3. /\ DOMAIN y.root = DOMAIN x.root
        /\ \A sv \in V!MemRoots(x) : y.root[sv] = <<"disk", A[sv]>>
        /\ \A sv \in V!DiskRoots(x) : y.root[sv] = x.root[sv]
    BY <1>1 DEF Written
  <1>4. \A l \in V!Leaves(x) : x.disk[l][2] \in Blocks \cup {None}
    BY <1>1 DEF Shaped
  <1>5. \A e \in Blocks \cup {None} : e \notin S => V!Bytes(y.disk, e) = V!Bytes(x.disk, e)
    BY <1>2 DEF V!Bytes
  <1>6. ASSUME NEW sv \in DOMAIN x.root, NEW p \in Pos
        PROVE  Holds(y, sv, p) = Holds(x, sv, p)
    <2>1. ASSUME NEW r \in V!Nodes(x), x.root[sv] = <<"disk", r>>, x.disk[r][2][p] \in V!Leaves(x)
          PROVE  Holds(y, sv, p) = Holds(x, sv, p)
      <3>1. PICK l : l = x.disk[r][2][p]
        OBVIOUS
      <3>2. PICK e : e = x.disk[l][2]
        OBVIOUS
      <3>3. /\ y.disk[r][2][p] = l /\ y.disk[l][2] = e
            /\ e \in Blocks \cup {None} /\ e \notin S
        BY <1>2, <1>4, <2>1, <3>1, <3>2
      <3>4. y.root[sv] = <<"disk", r>>
        <4>1. sv \in V!DiskRoots(x)
          BY <2>1 DEF V!DiskRoots
        <4> QED
          BY <1>3, <2>1, <4>1
      <3>5. Holds(x, sv, p) = V!Bytes(x.disk, e)
        BY <2>1, <3>1, <3>2, HoldsIs
      <3>6. Holds(y, sv, p) = V!Bytes(y.disk, e)
        BY <3>3, <3>4, HoldsIs
      <3> QED
        BY <1>5, <3>3, <3>5, <3>6
    <2>2. ASSUME sv \in V!MemRoots(x), NEW k, k = Kid(x, L, sv, p)
          PROVE  Holds(y, sv, p) = V!Bytes(y.disk, y.disk[k][2])
      <3>1. PICK a : a = A[sv]
        OBVIOUS
      <3>2. y.root[sv] = <<"disk", a>> /\ y.disk[a][2][p] = k
        BY <1>3, <2>2, <3>1, RootWritten
      <3> QED
        BY <3>2, HoldsIs
    <2>3. ASSUME sv \in V!MemRoots(x), x.root[sv][1] = "mem",
                 NEW l \in V!Leaves(x), x.root[sv][2][p] = <<"disk", l>>
          PROVE  Holds(y, sv, p) = Holds(x, sv, p)
      <3>1. PICK e : e = x.disk[l][2]
        OBVIOUS
      <3>2. y.disk[l][2] = e /\ e \in Blocks \cup {None} /\ e \notin S
        BY <1>2, <1>4, <3>1
      <3>3. Holds(x, sv, p) = V!Bytes(x.disk, e)
        BY <2>3, <3>1, HoldsIs
      <3>4. l = Kid(x, L, sv, p)
        <4>1. sv \in V!MemRoots(x) /\ x.root[sv][2][p] = <<"disk", l>> /\ Shaped(x)
          BY <1>1, <2>3
        <4> QED
          BY <4>1, KidKept
      <3>5. Holds(y, sv, p) = V!Bytes(y.disk, e)
        BY <2>2, <2>3, <3>2, <3>4
      <3> QED
        BY <1>5, <3>2, <3>3, <3>5
    <2>4. ASSUME sv \in V!MemRoots(x), x.root[sv][1] = "mem",
                 NEW e \in Blocks \cup {None}, x.root[sv][2][p] = <<"mem", e>>
          PROVE  Holds(y, sv, p) = Holds(x, sv, p)
      <3>1. x.root[sv][2][p][1] = "mem" /\ x.root[sv][2][p][2] = e
        BY <2>4
      <3>2. PICK k : k = Kid(x, L, sv, p)
        OBVIOUS
      <3>3. k = L[<<sv, p>>]
        BY <2>4, <3>1, <3>2, KidIs
      <3>4. y.disk[k] = <<"leaf", e>> /\ e \notin S
        BY <2>4, <3>1, <3>3, LeafWritten
      <3>5. Holds(y, sv, p) = V!Bytes(y.disk, e)
        <4>1. y.disk[k][2] = e
          BY <3>4
        <4> QED
          BY <2>2, <2>4, <3>2, <4>1
      <3>6. Holds(x, sv, p) = V!Bytes(x.disk, e)
        BY <2>4, HoldsIs
      <3> QED
        BY <1>5, <3>4, <3>5, <3>6
    <2> QED
      BY <1>1, <2>1, <2>3, <2>4, PlacesAre
  <1> QED
    BY <1>3, <1>6 DEF SameFiles

\* The trees a commit writes are well made.
LEMMA CommitShaped ==
    ASSUME NEW x, NEW y, NEW S, NEW T, NEW A, NEW L, Commits(x, y, S, T, A, L)
    PROVE  Shaped(y)
  <1>1. Shaped(x) /\ Typed(x) /\ Layout(x, S, T, A, L) /\ Written(x, y, T, A, L)
    BY ShapedTyped DEF Commits
  <1>2. /\ Typed(y) /\ V!MemRoots(y) = {} /\ V!MemLeaves(y) = {}
        /\ \A r : r \in V!Nodes(y) <=> r \in V!Nodes(x) \/ \E sv \in V!MemRoots(x) : r = A[sv]
    BY CommitTyped
  <1>3. /\ y.rt \in {<<"mem", None>>} \cup ({"disk"} \X Blocks)
        /\ y.rt[1] = "disk" => y.disk[y.rt[2]] = <<"roots", None>>
    BY <1>1 DEF Layout, Written
  <1>4. ASSUME NEW r \in V!Nodes(y), NEW p \in Pos, NEW q \in Pos, y.disk[r][2][p] = y.disk[r][2][q]
        PROVE  p = q
    <2>1. CASE r \in V!Nodes(x)
      <3>1. y.disk[r] = x.disk[r]
        BY <2>1, WrittenKeeps
      <3> QED
        BY <1>1, <1>4, <2>1, <3>1 DEF Shaped
    <2>2. CASE r \notin V!Nodes(x)
      <3>1. PICK sv \in V!MemRoots(x) : r = A[sv]
        BY <1>2, <2>2
      <3>2. y.disk[A[sv]][2][p] = Kid(x, L, sv, p) /\ y.disk[A[sv]][2][q] = Kid(x, L, sv, q)
        BY RootWritten
      <3>3. Kid(x, L, sv, p) = Kid(x, L, sv, q)
        BY <1>4, <3>1, <3>2
      <3>4. ASSUME NEW s \in Pos, x.root[sv][2][s][1] = "mem"
            PROVE  <<sv, s>> \in V!MemLeaves(x) /\ Kid(x, L, sv, s) = L[<<sv, s>>] /\ L[<<sv, s>>] \in S
        BY <3>4, KidIs
      <3>5. ASSUME NEW s \in Pos, x.root[sv][2][s][1] # "mem"
            PROVE  x.root[sv][2][s] = <<"disk", Kid(x, L, sv, s)>> /\ Kid(x, L, sv, s) \notin S
        <4>1. PICK l \in Blocks : x.root[sv][2][s] = <<"disk", l>>
          BY <1>1, <3>5, LinkOnDisk
        <4>2. Kid(x, L, sv, s) = l /\ l \in V!Leaves(x)
          <5>1. <<sv, s>> \notin V!MemLeaves(x)
            BY <1>1, <3>5, MemLeavesAre
          <5>2. l \in V!Leaves(x)
            BY <1>1, <4>1, LeafOfCopy
          <5> QED
            BY <4>1, <5>1, <5>2 DEF Kid
        <4> QED
          BY <4>1, <4>2, WrittenKeeps
      <3>6. CASE x.root[sv][2][p][1] = "mem" /\ x.root[sv][2][q][1] = "mem"
        <4>1. L[<<sv, p>>] = L[<<sv, q>>] /\ <<sv, p>> \in V!MemLeaves(x) /\ <<sv, q>> \in V!MemLeaves(x)
          BY <3>3, <3>4, <3>6
        <4>2. <<sv, p>> = <<sv, q>>
          BY <1>1, <4>1 DEF Layout
        <4> QED
          BY <4>2
      <3>7. CASE x.root[sv][2][p][1] # "mem" /\ x.root[sv][2][q][1] # "mem"
        <4>1. x.root[sv][2][p] = x.root[sv][2][q] /\ x.root[sv][2][p][1] = "disk"
          BY <3>3, <3>5, <3>7
        <4> QED
          BY <1>1, <4>1 DEF Shaped
      <3>8. CASE ~((x.root[sv][2][p][1] = "mem") <=> (x.root[sv][2][q][1] = "mem"))
        BY <3>3, <3>4, <3>5, <3>8
      <3> QED
        BY <3>6, <3>7, <3>8
    <2> QED
      BY <2>1, <2>2
  <1>5. ASSUME NEW l \in V!Leaves(y)
        PROVE  y.disk[l] \in {"leaf"} \X (Blocks \cup {None}) /\ Extent(y, y.disk[l][2])
    <2>1. CASE l \in V!Leaves(x)
      <3>1. y.disk[l] = x.disk[l] /\ x.disk[l][2] \notin S /\ \A b \in Blocks : b \notin S => y.disk[b] = x.disk[b]
        BY <2>1, WrittenKeeps
      <3>2. x.disk[l] \in {"leaf"} \X (Blocks \cup {None}) /\ Extent(x, x.disk[l][2])
        BY <1>1, <2>1 DEF Shaped
      <3>3. x.disk[l][2] \in Blocks \cup {None}
        BY <3>2
      <3> QED
        BY <3>1, <3>2, <3>3 DEF Extent
    <2>2. CASE \E m \in V!MemLeaves(x) : l = L[m]
      <3>1. PICK m \in V!MemLeaves(x) : l = L[m]
        BY <2>2
      <3>2. PICK sv \in V!MemRoots(x), p \in Pos : m = <<sv, p>>
        BY <1>1, MemLeavesAre
      <3>3. x.root[sv][2][p][1] = "mem"
        BY <1>1, <3>2, MemLeavesAre
      <3>4. PICK e : e = x.root[sv][2][p][2]
        OBVIOUS
      <3>5. y.disk[L[<<sv, p>>]] = <<"leaf", e>> /\ e \in Blocks \cup {None} /\ Extent(y, e)
        BY <3>3, <3>4, LeafWritten
      <3> QED
        BY <3>1, <3>2, <3>5
    <2> QED
      BY <2>1, <2>2, CommitLeaves
  <1> QED
    BY <1>2, <1>3, <1>4, <1>5 DEF Shaped

\* A bijection keeps the size.
LEMMA SameSize ==
    ASSUME NEW S, IsFiniteSet(S), NEW T, NEW f \in [S -> T],
           \A i, j \in S : f[i] = f[j] => i = j, \A t \in T : \E i \in S : f[i] = t
    PROVE  IsFiniteSet(T) /\ Cardinality(T) = Cardinality(S)
  <1>1. f \in Bijection(S, T)
    BY DEF Bijection, Injection, Surjection, IsInjective
  <1> QED
    BY <1>1, FS_Bijection DEF ExistsBijection

\* Sizes of disjoint sets add up.
LEMMA ApartSize ==
    ASSUME NEW S, IsFiniteSet(S), NEW T, IsFiniteSet(T), S \cap T = {}, NEW U, U = S \cup T
    PROVE  Cardinality(U) = Cardinality(S) + Cardinality(T)
  <1>1. Cardinality(U) = Cardinality(S) + Cardinality(T) - Cardinality(S \cap T)
    BY FS_Union
  <1>2. Cardinality(S \cap T) = 0
    BY FS_EmptySet
  <1>3. Cardinality(S) \in Nat /\ Cardinality(T) \in Nat
    BY FS_CardinalityType
  <1> QED
    BY <1>1, <1>2, <1>3

\* A block that is not written has the pointers it had.
LEMMA CommitOld ==
    ASSUME V!VolumeConstants, NEW x, NEW y, NEW S, NEW T, NEW A, NEW L, Commits(x, y, S, T, A, L),
           NEW b \in Blocks, Unused(x, T, A, L, b)
    PROVE  Hits(y, b) = Hits(x, b)
  <1>1. Shaped(x) /\ Typed(x) /\ Layout(x, S, T, A, L) /\ Written(x, y, T, A, L) /\ b # None
    BY ShapedTyped DEF Commits, V!VolumeConstants
  <1>2. Typed(y) /\ V!MemRoots(y) = {} /\ V!DiskRoots(y) = DOMAIN x.root
    BY CommitTyped
  <1>3. \A r : r \in V!Nodes(y) <=> r \in V!Nodes(x) \/ \E sv \in V!MemRoots(x) : r = A[sv]
    BY CommitTyped
  <1>4. x.rt[2] # b /\ y.rt[2] # b
    BY <1>1 DEF Unused, Commits, Written
  <1>5. RootHits(y, b) = RootHits(x, b)
    <2>1. /\ V!DiskRoots(x) \cup V!MemRoots(x) = DOMAIN x.root
          /\ V!DiskRoots(x) \cap V!MemRoots(x) = {}
      BY <1>1, NodesAre
    <2>2. \A sv \in V!MemRoots(x) : y.root[sv][2] # b
      BY <1>1 DEF Written, Unused
    <2>3. \A sv \in V!DiskRoots(x) : y.root[sv] = x.root[sv]
      BY <1>1 DEF Written
    <2> QED
      BY <1>2, <2>1, <2>2, <2>3 DEF RootHits
  <1>6. MemHits(y, b) = {}
    BY <1>2 DEF MemHits
  <1>7. PICK D, M : /\ D = {m \in MemHits(x, b) : m \notin V!MemLeaves(x)}
                    /\ M = {m \in MemHits(x, b) : m \in V!MemLeaves(x)}
    OBVIOUS
  <1>8. IsFiniteSet(MemHits(x, b)) /\ IsFiniteSet(NodeHits(x, b)) /\ IsFiniteSet(LeafHits(x, b))
    BY <1>1, HitsFinite
  <1>9. IsFiniteSet(D) /\ IsFiniteSet(M) /\ D \cap M = {} /\ MemHits(x, b) = D \cup M
    BY <1>7, <1>8, FS_Subset
  <1>10. Cardinality(MemHits(x, b)) = Cardinality(D) + Cardinality(M)
    BY <1>9, ApartSize
  <1>11. \A m \in MemHits(x, b) : \E sv \in V!MemRoots(x) : \E p \in Pos : m = <<sv, p>>
    BY DEF MemHits
  <1>12. Cardinality(NodeHits(y, b)) = Cardinality(NodeHits(x, b)) + Cardinality(D)
    <2>1. PICK f, N : /\ f = [m \in D |-> <<A[m[1]], m[2]>>]
                      /\ N = {n \in NodeHits(y, b) : n \notin NodeHits(x, b)}
      OBVIOUS
    <2>2. \A r \in V!Nodes(x) : y.disk[r] = x.disk[r] /\ r \notin S
      BY WrittenKeeps
    <2>3. NodeHits(x, b) \subseteq NodeHits(y, b)
      BY <1>3, <2>2 DEF NodeHits
    <2>4. ASSUME NEW sv \in V!MemRoots(x), NEW p \in Pos
          PROVE  <<A[sv], p>> \in N <=> <<sv, p>> \in D
      <3>1. A[sv] \in S /\ A[sv] \notin V!Nodes(x) /\ A[sv] \in V!Nodes(y)
        BY <1>1, <1>3, <2>2 DEF Layout
      <3>2. y.disk[A[sv]][2][p] = Kid(x, L, sv, p)
        BY RootWritten
      <3>3. <<A[sv], p>> \in N <=> Kid(x, L, sv, p) = b
        BY <2>1, <3>1, <3>2 DEF NodeHits
      <3>4. CASE x.root[sv][2][p][1] = "mem"
        <4>1. <<sv, p>> \in V!MemLeaves(x) /\ Kid(x, L, sv, p) = L[<<sv, p>>]
          BY <3>4, KidIs
        <4>2. L[<<sv, p>>] # b
          BY <4>1 DEF Unused
        <4> QED
          BY <1>7, <3>3, <4>1, <4>2
      <3>5. CASE x.root[sv][2][p][1] # "mem"
        <4>1. PICK l \in Blocks : x.root[sv][2][p] = <<"disk", l>>
          BY <1>1, <3>5, LinkOnDisk
        <4>2. Kid(x, L, sv, p) = l /\ <<sv, p>> \notin V!MemLeaves(x)
          BY <1>1, <4>1, KidKept
        <4>3. <<sv, p>> \in MemHits(x, b) <=> l = b
          BY <4>1 DEF MemHits
        <4> QED
          BY <1>7, <3>3, <4>2, <4>3
      <3> QED
        BY <3>4, <3>5
    <2>5. ASSUME NEW n \in N PROVE \E sv \in V!MemRoots(x) : \E p \in Pos : n = <<A[sv], p>>
      <3>1. PICK r \in V!Nodes(y), p \in Pos : n = <<r, p>> /\ y.disk[r][2][p] = b
        BY <2>1 DEF NodeHits
      <3>2. r \notin V!Nodes(x)
        <4> SUFFICES ASSUME r \in V!Nodes(x) PROVE FALSE
          OBVIOUS
        <4>1. x.disk[r][2][p] = b
          BY <2>2, <3>1
        <4>2. <<r, p>> \in NodeHits(x, b)
          BY <4>1 DEF NodeHits
        <4> QED
          BY <2>1, <3>1, <4>2
      <3> QED
        BY <1>3, <3>1, <3>2
    <2>6. f \in [D -> N]
      <3>1. ASSUME NEW m \in D PROVE <<A[m[1]], m[2]>> \in N
        <4>1. PICK sv \in V!MemRoots(x), p \in Pos : m = <<sv, p>>
          BY <1>7, <1>11
        <4> QED
          BY <2>4, <4>1
      <3> QED
        BY <2>1, <3>1
    <2>7. \A i, j \in D : f[i] = f[j] => i = j
      <3> SUFFICES ASSUME NEW i \in D, NEW j \in D, f[i] = f[j] PROVE i = j
        OBVIOUS
      <3>1. PICK u \in V!MemRoots(x), p \in Pos : i = <<u, p>>
        BY <1>7, <1>11
      <3>2. PICK v \in V!MemRoots(x), q \in Pos : j = <<v, q>>
        BY <1>7, <1>11
      <3>3. <<A[u], p>> = <<A[v], q>>
        BY <2>1, <3>1, <3>2
      <3> QED
        BY <1>1, <3>1, <3>2, <3>3 DEF Layout
    <2>8. ASSUME NEW n \in N PROVE \E i \in D : f[i] = n
      <3>1. PICK sv \in V!MemRoots(x), p \in Pos : n = <<A[sv], p>>
        BY <2>5
      <3>2. <<sv, p>> \in D
        BY <2>4, <3>1
      <3>3. f[<<sv, p>>] = n
        BY <2>1, <3>1, <3>2
      <3> QED
        BY <3>2, <3>3
    <2>9. IsFiniteSet(N) /\ Cardinality(N) = Cardinality(D)
      BY <1>9, <2>6, <2>7, <2>8, SameSize
    <2>10. NodeHits(y, b) = NodeHits(x, b) \cup N /\ NodeHits(x, b) \cap N = {}
      BY <2>1, <2>3
    <2> QED
      BY <1>8, <2>9, <2>10, ApartSize
  <1>13. Cardinality(LeafHits(y, b)) = Cardinality(LeafHits(x, b)) + Cardinality(M)
    <2>1. PICK f, N : /\ f = [m \in M |-> L[m]]
                      /\ N = {n \in LeafHits(y, b) : n \notin LeafHits(x, b)}
      OBVIOUS
    <2>2. \A l \in V!Leaves(x) : y.disk[l] = x.disk[l] /\ l \notin S
      BY WrittenKeeps
    <2>3. \A l : l \in V!Leaves(y) <=> l \in V!Leaves(x) \/ \E m \in V!MemLeaves(x) : l = L[m]
      BY CommitLeaves
    <2>4. LeafHits(x, b) \subseteq LeafHits(y, b)
      BY <2>2, <2>3 DEF LeafHits
    <2>5. ASSUME NEW m \in V!MemLeaves(x) PROVE L[m] \in N <=> m \in M
      <3>1. PICK sv \in V!MemRoots(x), p \in Pos : m = <<sv, p>>
        BY <1>1, MemLeavesAre
      <3>2. x.root[sv][2][p][1] = "mem"
        BY <1>1, <3>1, MemLeavesAre
      <3>3. PICK e : e = x.root[sv][2][p][2]
        OBVIOUS
      <3>4. y.disk[L[m]] = <<"leaf", e>>
        BY <3>1, <3>2, <3>3, LeafWritten
      <3>5. L[m] \in S /\ L[m] \notin V!Leaves(x) /\ L[m] \in V!Leaves(y)
        BY <1>1, <2>2, <2>3 DEF Layout
      <3>6. L[m] \in N <=> e = b
        BY <2>1, <3>4, <3>5 DEF LeafHits
      <3>7. m \in M <=> e = b
        BY <1>7, <3>1, <3>3 DEF MemHits
      <3> QED
        BY <3>6, <3>7
    <2>6. ASSUME NEW n \in N PROVE \E m \in V!MemLeaves(x) : n = L[m]
      <3>1. n \in V!Leaves(y) /\ y.disk[n][2] = b /\ n \notin LeafHits(x, b)
        BY <2>1 DEF LeafHits
      <3>2. n \notin V!Leaves(x)
        BY <2>2, <3>1 DEF LeafHits
      <3> QED
        BY <2>3, <3>1, <3>2
    <2>7. M \subseteq V!MemLeaves(x)
      BY <1>7
    <2>8. f \in [M -> N]
      BY <2>1, <2>5, <2>7
    <2>9. \A i, j \in M : f[i] = f[j] => i = j
      BY <1>1, <2>1, <2>7 DEF Layout
    <2>10. ASSUME NEW n \in N PROVE \E i \in M : f[i] = n
      BY <2>1, <2>5, <2>6
    <2>11. IsFiniteSet(N) /\ Cardinality(N) = Cardinality(M)
      BY <1>9, <2>8, <2>9, <2>10, SameSize
    <2>12. LeafHits(y, b) = LeafHits(x, b) \cup N /\ LeafHits(x, b) \cap N = {}
      BY <2>1, <2>4
    <2> QED
      BY <1>8, <2>11, <2>12, ApartSize
  <1>14. /\ Cardinality(RootHits(x, b)) \in Nat /\ Cardinality(NodeHits(x, b)) \in Nat
         /\ Cardinality(MemHits(x, b)) \in Nat /\ Cardinality(LeafHits(x, b)) \in Nat
         /\ Cardinality(D) \in Nat /\ Cardinality(M) \in Nat
    BY <1>1, <1>9, HitsFinite, FS_CardinalityType
  <1>15. Cardinality(MemHits(y, b)) = 0
    BY <1>6, FS_EmptySet
  <1> QED
    BY <1>4, <1>5, <1>10, <1>12, <1>13, <1>14, <1>15 DEF Hits

\* A block that is written has one.
LEMMA CommitNew ==
    ASSUME V!VolumeConstants, NEW x, NEW y, NEW S, NEW T, NEW A, NEW L, Commits(x, y, S, T, A, L),
           NEW b \in S, ~Unused(x, T, A, L, b)
    PROVE  Hits(y, b) = 1
  <1>1. Shaped(x) /\ Typed(x) /\ Layout(x, S, T, A, L) /\ Written(x, y, T, A, L)
    BY ShapedTyped DEF Commits
  <1>2. Typed(y) /\ V!MemRoots(y) = {} /\ V!DiskRoots(y) = DOMAIN x.root
    BY CommitTyped
  <1>3. \A r : r \in V!Nodes(y) <=> r \in V!Nodes(x) \/ \E sv \in V!MemRoots(x) : r = A[sv]
    BY CommitTyped
  <1>4. y.rt[2] = T
    BY <1>1 DEF Written
  <1>5. ASSUME NEW sv PROVE sv \in RootHits(y, b) <=> sv \in V!MemRoots(x) /\ A[sv] = b
    <2>1. /\ V!DiskRoots(x) \cup V!MemRoots(x) = DOMAIN x.root
          /\ V!DiskRoots(x) \cap V!MemRoots(x) = {}
      BY <1>1, NodesAre
    <2>2. sv \in V!MemRoots(x) => y.root[sv][2] = A[sv]
      BY <1>1 DEF Written
    <2>3. sv \in V!DiskRoots(x) => y.root[sv][2] = x.root[sv][2] /\ x.root[sv][2] \in V!Nodes(x)
      BY <1>1 DEF Written, V!Nodes
    <2>4. \A r \in V!Nodes(x) : r \notin S
      BY WrittenKeeps
    <2> QED
      BY <1>2, <2>1, <2>2, <2>3, <2>4 DEF RootHits
  <1>6. ASSUME NEW n
        PROVE  n \in NodeHits(y, b) <=>
                 \E sv \in V!MemRoots(x) : \E p \in Pos :
                    n = <<A[sv], p>> /\ <<sv, p>> \in V!MemLeaves(x) /\ L[<<sv, p>>] = b
    <2>1. n \in NodeHits(y, b) <=>
             \E r \in V!Nodes(y) : \E p \in Pos : n = <<r, p>> /\ y.disk[r][2][p] = b
      BY DEF NodeHits
    <2>2. ASSUME NEW r \in V!Nodes(x), NEW p \in Pos PROVE y.disk[r][2][p] # b
      <3>1. y.disk[r] = x.disk[r]
        BY WrittenKeeps
      <3>2. x.disk[r][2][p] \in V!Leaves(x)
        BY <1>1, LeafOfNode
      <3>3. x.disk[r][2][p] \notin S
        BY <3>2, WrittenKeeps
      <3> QED
        BY <3>1, <3>3
    <2>3. ASSUME NEW sv \in V!MemRoots(x), NEW p \in Pos
          PROVE  y.disk[A[sv]][2][p] = b <=> <<sv, p>> \in V!MemLeaves(x) /\ L[<<sv, p>>] = b
      <3>1. y.disk[A[sv]][2][p] = Kid(x, L, sv, p)
        BY RootWritten
      <3>2. CASE x.root[sv][2][p][1] = "mem"
        <4>1. <<sv, p>> \in V!MemLeaves(x) /\ Kid(x, L, sv, p) = L[<<sv, p>>]
          BY <3>2, KidIs
        <4> QED
          BY <3>1, <4>1
      <3>3. CASE x.root[sv][2][p][1] # "mem"
        <4>1. <<sv, p>> \notin V!MemLeaves(x)
          BY <1>1, <3>3, MemLeavesAre
        <4>2. x.root[sv][2][p][2] \notin S
          BY WrittenKeeps
        <4> QED
          BY <3>1, <4>1, <4>2 DEF Kid
      <3> QED
        BY <3>2, <3>3
    <2>4. ASSUME n \in NodeHits(y, b)
          PROVE  \E sv \in V!MemRoots(x) : \E p \in Pos :
                    n = <<A[sv], p>> /\ <<sv, p>> \in V!MemLeaves(x) /\ L[<<sv, p>>] = b
      <3>1. PICK r \in V!Nodes(y), p \in Pos : n = <<r, p>> /\ y.disk[r][2][p] = b
        BY <2>1, <2>4
      <3>2. r \notin V!Nodes(x)
        BY <2>2, <3>1
      <3>3. PICK sv \in V!MemRoots(x) : r = A[sv]
        BY <1>3, <3>2
      <3> QED
        BY <2>3, <3>1, <3>3
    <2>5. ASSUME NEW sv \in V!MemRoots(x), NEW p \in Pos,
                 n = <<A[sv], p>>, <<sv, p>> \in V!MemLeaves(x), L[<<sv, p>>] = b
          PROVE  n \in NodeHits(y, b)
      <3>1. y.disk[A[sv]][2][p] = b
        BY <2>3, <2>5
      <3>2. A[sv] \in V!Nodes(y)
        BY <1>3
      <3> QED
        BY <2>1, <2>5, <3>1, <3>2
    <2> QED
      BY <2>4, <2>5
  <1>7. MemHits(y, b) = {}
    BY <1>2 DEF MemHits
  <1>8. LeafHits(y, b) = {}
    <2> SUFFICES ASSUME NEW l \in V!Leaves(y) PROVE y.disk[l][2] # b
      BY DEF LeafHits
    <2>1. CASE l \in V!Leaves(x)
      <3>1. y.disk[l] = x.disk[l] /\ x.disk[l][2] \notin S
        BY <2>1, WrittenKeeps
      <3> QED
        BY <3>1
    <2>2. CASE \E m \in V!MemLeaves(x) : l = L[m]
      <3>1. PICK m \in V!MemLeaves(x) : l = L[m]
        BY <2>2
      <3>2. PICK sv \in V!MemRoots(x), p \in Pos : m = <<sv, p>>
        BY <1>1, MemLeavesAre
      <3>3. x.root[sv][2][p][1] = "mem"
        BY <1>1, <3>2, MemLeavesAre
      <3>4. PICK e : e = x.root[sv][2][p][2]
        OBVIOUS
      <3>5. y.disk[L[<<sv, p>>]] = <<"leaf", e>> /\ e \notin S
        BY <3>3, <3>4, LeafWritten
      <3> QED
        BY <3>1, <3>2, <3>5
    <2> QED
      BY <2>1, <2>2, CommitLeaves
  <1>9. Cardinality(MemHits(y, b)) = 0 /\ Cardinality(LeafHits(y, b)) = 0
    BY <1>7, <1>8, FS_EmptySet
  <1>10. CASE b = T
    <2>1. RootHits(y, b) = {} /\ NodeHits(y, b) = {}
      BY <1>1, <1>5, <1>6, <1>10 DEF Layout
    <2> QED
      BY <1>4, <1>9, <1>10, <2>1, FS_EmptySet DEF Hits
  <1>11. CASE \E u \in V!MemRoots(x) : A[u] = b
    <2>1. PICK u \in V!MemRoots(x) : A[u] = b
      BY <1>11
    <2>2. b # T
      BY <1>1, <2>1 DEF Layout
    <2>3. \A sv : sv \in RootHits(y, b) <=> sv = u
      BY <1>1, <1>5, <2>1 DEF Layout
    <2>4. RootHits(y, b) = {u}
      BY <2>3
    <2>5. NodeHits(y, b) = {}
      BY <1>1, <1>6, <2>1 DEF Layout
    <2> QED
      <3>1. Cardinality(RootHits(y, b)) = 1 /\ Cardinality(NodeHits(y, b)) = 0
        BY <2>4, <2>5, FS_EmptySet, FS_Singleton
      <3> QED
        BY <1>4, <1>9, <2>2, <3>1 DEF Hits
  <1>12. CASE \E m \in V!MemLeaves(x) : L[m] = b
    <2>1. PICK m \in V!MemLeaves(x) : L[m] = b
      BY <1>12
    <2>2. PICK u \in V!MemRoots(x), q \in Pos : m = <<u, q>>
      BY <1>1, MemLeavesAre
    <2>3. b # T /\ RootHits(y, b) = {}
      BY <1>1, <1>5, <2>1 DEF Layout
    <2>4. PICK h : h = <<A[u], q>>
      OBVIOUS
    <2>5. h \in NodeHits(y, b)
      BY <1>6, <2>1, <2>2, <2>4
    <2>6. ASSUME NEW n \in NodeHits(y, b) PROVE n = h
      <3>1. PICK sv \in V!MemRoots(x), p \in Pos :
               n = <<A[sv], p>> /\ <<sv, p>> \in V!MemLeaves(x) /\ L[<<sv, p>>] = b
        BY <1>6
      <3>2. <<sv, p>> = <<u, q>>
        BY <1>1, <2>1, <2>2, <3>1 DEF Layout
      <3> QED
        BY <2>4, <3>1, <3>2
    <2>7. NodeHits(y, b) = {h}
      BY <2>5, <2>6
    <2> QED
      <3>1. Cardinality(RootHits(y, b)) = 0 /\ Cardinality(NodeHits(y, b)) = 1
        BY <2>3, <2>7, FS_EmptySet, FS_Singleton
      <3> QED
        BY <1>4, <1>9, <2>3, <3>1 DEF Hits
  <1> QED
    BY <1>10, <1>11, <1>12 DEF Unused

\* The nodes a commit writes have different names.
LEMMA MemNodesAre ==
    ASSUME V!VolumeConstants, NEW x, Typed(x)
    PROVE  /\ V!MemNodes(x) \subseteq Nat \X Nat /\ IsFiniteSet(V!MemNodes(x))
           /\ 0 \notin Pos /\ 0 \notin V!MemRoots(x)
           /\ <<0, 0>> \in V!MemNodes(x)
           /\ \A u \in V!MemRoots(x) : <<u, 0>> \in V!MemNodes(x)
           /\ \A m \in V!MemLeaves(x) : m \in V!MemNodes(x)
           /\ \A n \in V!MemNodes(x) : n # <<0, 0>> =>
                 (\E u \in V!MemRoots(x) : n = <<u, 0>>) \/ n \in V!MemLeaves(x)
  <1>1. V!MemRoots(x) \subseteq Nat \ {0} /\ Pos \subseteq Nat \ {0}
    <2>1. Pos \subseteq Nat \ {0} /\ Ids \subseteq Nat \ {0}
      BY DEF V!VolumeConstants
    <2>2. V!MemRoots(x) \subseteq Ids \cup {1}
      BY DEF Typed, V!MemRoots
    <2>3. 1 \in Nat \ {0}
      OBVIOUS
    <2>4. Ids \cup {1} \subseteq Nat \ {0}
      BY <2>1, <2>3, Zenon
    <2> QED
      BY <2>1, <2>2, <2>4, Zenon
  <1>2. V!MemLeaves(x) \subseteq V!MemRoots(x) \X Pos
    BY DEF V!MemLeaves
  <1>3. V!MemNodes(x) \subseteq Nat \X Nat
    <2>1. V!MemLeaves(x) \subseteq Nat \X Nat
      BY <1>1, <1>2
    <2>2. V!MemRoots(x) \X {0} \subseteq Nat \X Nat
      BY <1>1
    <2> QED
      BY <2>1, <2>2 DEF V!MemNodes
  <1>4. IsFiniteSet(V!MemNodes(x))
    <2>1. IsFiniteSet(V!MemRoots(x)) /\ IsFiniteSet(Pos)
      BY HitsFinite, ConstantsFinite
    <2>2. IsFiniteSet(V!MemRoots(x) \X Pos) /\ IsFiniteSet(V!MemRoots(x) \X {0})
      BY <2>1, FS_Product, FS_Singleton
    <2>3. IsFiniteSet(V!MemLeaves(x))
      BY <1>2, <2>2, FS_Subset
    <2>4. PICK B, C : B = V!MemRoots(x) \X {0} /\ C = V!MemLeaves(x)
      OBVIOUS
    <2>5. IsFiniteSet({<<0, 0>>} \cup B)
      BY <2>2, <2>4, FS_Singleton, FS_Union
    <2>6. IsFiniteSet(({<<0, 0>>} \cup B) \cup C)
      BY <2>3, <2>4, <2>5, FS_Union
    <2> QED
      BY <2>4, <2>6 DEF V!MemNodes
  <1>5. /\ <<0, 0>> \in V!MemNodes(x)
        /\ \A u \in V!MemRoots(x) : <<u, 0>> \in V!MemNodes(x)
        /\ \A m \in V!MemLeaves(x) : m \in V!MemNodes(x)
    BY DEF V!MemNodes
  <1>6. \A n \in V!MemNodes(x) : n # <<0, 0>> =>
             (\E u \in V!MemRoots(x) : n = <<u, 0>>) \/ n \in V!MemLeaves(x)
    BY DEF V!MemNodes
  <1> QED
    BY <1>1, <1>3, <1>4, <1>5, <1>6

\* Which blocks the nodes of x get.
LEMMA LayoutIs ==
    ASSUME V!VolumeConstants, NEW x, Typed(x), NEW S, S \subseteq Blocks,
           \A e \in V!Pointers(x) : e[4] \notin S,
           NEW at, Placed(at, V!MemNodes(x), S),
           NEW T, T = at[<<0, 0>>], NEW A, A = [u \in V!MemRoots(x) |-> at[<<u, 0>>]],
           NEW L, L = [m \in V!MemLeaves(x) |-> at[m]]
    PROVE  /\ Layout(x, S, T, A, L)
           /\ \A b : Unused(x, T, A, L, b) <=> \A n \in V!MemNodes(x) : at[n] # b
  <1> DEFINE N == V!MemNodes(x)
  <1>1. /\ 0 \notin Pos /\ 0 \notin V!MemRoots(x) /\ <<0, 0>> \in N
        /\ \A u \in V!MemRoots(x) : <<u, 0>> \in N
        /\ \A m \in V!MemLeaves(x) : m \in N
        /\ \A n \in N : n # <<0, 0>> =>
                 (\E u \in V!MemRoots(x) : n = <<u, 0>>) \/ n \in V!MemLeaves(x)
    BY MemNodesAre
  <1> HIDE DEF N
  <1>2. at \in [N -> S] /\ \A m, n \in N : at[m] = at[n] => m = n
    BY DEF Placed, N
  <1>3. \A m \in V!MemLeaves(x) : \E sv \in V!MemRoots(x) : \E p \in Pos : m = <<sv, p>>
    BY MemLeavesAre
  <1>4. \A u \in V!MemRoots(x) : A[u] = at[<<u, 0>>]
    OBVIOUS
  <1>5. \A m \in V!MemLeaves(x) : L[m] = at[m]
    OBVIOUS
  <1>6. T \in S /\ A \in [V!MemRoots(x) -> S] /\ L \in [V!MemLeaves(x) -> S]
    BY <1>1, <1>2
  <1>7. \A u, v \in V!MemRoots(x) : A[u] = A[v] => u = v
    <2> SUFFICES ASSUME NEW u \in V!MemRoots(x), NEW v \in V!MemRoots(x), A[u] = A[v] PROVE u = v
      OBVIOUS
    <2>1. <<u, 0>> = <<v, 0>>
      BY <1>1, <1>2, <1>4
    <2> QED
      BY <2>1
  <1>8. \A m, n \in V!MemLeaves(x) : L[m] = L[n] => m = n
    BY <1>1, <1>2, <1>5
  <1>9. \A m \in V!MemLeaves(x) : m # <<0, 0>> /\ \A u : m # <<u, 0>>
    BY <1>1, <1>3
  <1>10. \A u \in V!MemRoots(x) : A[u] # T
    <2> SUFFICES ASSUME NEW u \in V!MemRoots(x), A[u] = T PROVE FALSE
      OBVIOUS
    <2>1. <<u, 0>> = <<0, 0>>
      BY <1>1, <1>2, <1>4
    <2> QED
      BY <1>1, <2>1
  <1>11. \A u \in V!MemRoots(x) : \A m \in V!MemLeaves(x) : A[u] # L[m]
    BY <1>1, <1>2, <1>4, <1>5, <1>9
  <1>12. \A m \in V!MemLeaves(x) : L[m] # T
    BY <1>1, <1>2, <1>5, <1>9
  <1>13. Layout(x, S, T, A, L)
    BY <1>6, <1>7, <1>8, <1>10, <1>11, <1>12 DEF Layout
  <1>14. ASSUME NEW b PROVE Unused(x, T, A, L, b) <=> \A n \in N : at[n] # b
    <2>1. ASSUME Unused(x, T, A, L, b), NEW n \in N PROVE at[n] # b
      <3>1. CASE n = <<0, 0>>
        BY <2>1, <3>1 DEF Unused
      <3>2. CASE n # <<0, 0>>
        BY <1>1, <1>4, <1>5, <2>1, <3>2 DEF Unused
      <3> QED
        BY <3>1, <3>2
    <2>2. ASSUME \A n \in N : at[n] # b PROVE Unused(x, T, A, L, b)
      BY <1>1, <1>4, <1>5, <2>2 DEF Unused
    <2> QED
      BY <2>1, <2>2
  <1> QED
    BY <1>13, <1>14 DEF N

\* What a commit sets.
LEMMA CommittedIs ==
    ASSUME NEW x, V!Dirty(x), NEW y, y = V!TouchRoots(x), DOMAIN y = WriterFields,
           NEW at, at = V!Place(V!MemNodes(y), y.free), NEW U, U = V!Range(at),
           NEW z, z = V!Committed(x)
    PROVE  /\ DOMAIN z = WriterFields /\ SameRest(y, z) /\ z.dedup = y.dedup
           /\ z.disk = [b \in Blocks |->
                          IF b \in U THEN V!Content(y, at, CHOOSE n \in V!MemNodes(y) : at[n] = b)
                          ELSE y.disk[b]]
           /\ z.refs = [b \in Blocks |-> IF b \in U THEN 1 ELSE y.refs[b]]
           /\ z.free = (y.free \ U) \cup y.pinned /\ z.pinned = {} /\ z.fresh = {}
           /\ z.root = [sv \in DOMAIN y.root |->
                          IF sv \in V!MemRoots(y) THEN <<"disk", at[<<sv, 0>>]>> ELSE y.root[sv]]
           /\ z.rt = <<"disk", at[<<0, 0>>]>>
  <1>1. PICK v : v = [y EXCEPT
                !.disk = [b \in Blocks |->
                   IF b \in U THEN V!Content(y, at, CHOOSE n \in V!MemNodes(y) : at[n] = b) ELSE @[b]],
                !.refs = [b \in Blocks |-> IF b \in U THEN 1 ELSE @[b]],
                !.free = @ \ U,
                !.root = [sv \in DOMAIN y.root |->
                            IF sv \in V!MemRoots(y) THEN <<"disk", at[<<sv, 0>>]>> ELSE @[sv]],
                !.rt = <<"disk", at[<<0, 0>>]>>]
    OBVIOUS
  <1>2. z = V!Unpin(v)
    BY <1>1 DEF V!Committed
  <1>3. /\ DOMAIN v = WriterFields /\ v.ro = y.ro /\ v.default = y.default /\ v.leaked = y.leaked /\ v.dedup = y.dedup
        /\ v.pinned = y.pinned /\ v.fresh = y.fresh
    BY <1>1 DEF WriterFields
  <1>4. v.disk = [b \in Blocks |->
                    IF b \in U THEN V!Content(y, at, CHOOSE n \in V!MemNodes(y) : at[n] = b)
                    ELSE y.disk[b]]
    BY <1>1 DEF WriterFields
  <1>5. v.refs = [b \in Blocks |-> IF b \in U THEN 1 ELSE y.refs[b]] /\ v.free = y.free \ U
    BY <1>1 DEF WriterFields
  <1>6. /\ v.root = [sv \in DOMAIN y.root |->
                       IF sv \in V!MemRoots(y) THEN <<"disk", at[<<sv, 0>>]>> ELSE y.root[sv]]
        /\ v.rt = <<"disk", at[<<0, 0>>]>>
    BY <1>1 DEF WriterFields
  <1>7. /\ DOMAIN z = WriterFields /\ z.ro = v.ro /\ z.default = v.default /\ z.leaked = v.leaked /\ z.dedup = v.dedup
        /\ z.disk = v.disk /\ z.refs = v.refs /\ z.root = v.root /\ z.rt = v.rt
        /\ z.free = v.free \cup v.pinned /\ z.pinned = {} /\ z.fresh = {}
    BY <1>2, <1>3 DEF V!Unpin, WriterFields
  <1> QED
    BY <1>3, <1>4, <1>5, <1>6, <1>7 DEF SameRest

\* A commit leaves trees that are on disk, counted exactly.
LEMMA CommittedSound ==
    ASSUME V!VolumeConstants, NEW x, Sound(x, None), V!Dirty(x), V!Fits(x),
           NEW z, z = V!Committed(x)
    PROVE  /\ Sound(z, None) /\ z.fresh = {} /\ V!MemRoots(z) = {} /\ z.rt[1] = "disk"
           /\ DOMAIN z.root = DOMAIN x.root /\ SameRest(x, z) /\ SameFiles(x, z)
  <1>1. PICK y : y = V!TouchRoots(x)
    OBVIOUS
  <1>2. /\ Sound(y, None) /\ Keeps(x, y) /\ y.root = x.root /\ y.rt = <<"mem", None>>
        /\ x.free \subseteq y.free
    BY <1>1, TouchRootsSound
  <1>3. /\ DOMAIN y = WriterFields /\ Shaped(y) /\ Typed(y) /\ Tables(y) /\ None \notin Blocks
        /\ \A c \in Blocks : /\ y.refs[c] \in Nat /\ Hits(y, c) \in Nat
                             /\ y.refs[c] = Hits(y, c) + Extra(y, None, c)
    BY <1>2, SoundHits
  <1>4. PICK S : S = y.free
    OBVIOUS
  <1>5. S \subseteq Blocks /\ IsFiniteSet(S) /\ S \subseteq Nat
    <2>1. S \subseteq Blocks
      BY <1>3, <1>4 DEF Tables
    <2>2. Blocks \subseteq Nat
      BY DEF V!VolumeConstants
    <2> QED
      BY <2>1, <2>2, ConstantsFinite, FS_Subset
  <1>6. \A e \in V!Pointers(y) : e[4] \notin S
    <2> SUFFICES ASSUME NEW e \in V!Pointers(y), e[4] \in S PROVE FALSE
      OBVIOUS
    <2>1. e[4] \in Blocks
      BY <1>5
    <2>2. y.refs[e[4]] > 0
      BY <1>2, <2>1, Pointed
    <2>3. y.refs[e[4]] = 0
      BY <1>3, <1>4, <2>1 DEF Tables
    <2> QED
      BY <2>2, <2>3
  <1>7. PICK N : N = V!MemNodes(y)
    OBVIOUS
  <1>8. N \subseteq Nat \X Nat /\ IsFiniteSet(N)
    BY <1>3, <1>7, MemNodesAre
  <1>9. Cardinality(N) <= Cardinality(S)
    <2>1. N = V!MemNodes(x)
      BY <1>2, <1>7 DEF V!MemNodes, V!MemRoots, V!MemLeaves
    <2>2. Cardinality(N) <= Cardinality(x.free)
      BY <2>1, VolumeFinite DEF V!Fits
    <2>3. Cardinality(x.free) <= Cardinality(S) /\ IsFiniteSet(x.free)
      BY <1>2, <1>4, <1>5, FS_Subset
    <2>4. Cardinality(N) \in Nat /\ Cardinality(x.free) \in Nat /\ Cardinality(S) \in Nat
      BY <1>5, <1>8, <2>3, FS_CardinalityType
    <2> QED
      BY <2>2, <2>3, <2>4
  <1>10. PICK at : at = V!Place(N, S)
    OBVIOUS
  <1>11. Placed(at, N, S)
    BY <1>5, <1>8, <1>9, <1>10, PlaceIs
  <1>12. PICK T, A, L : /\ T = at[<<0, 0>>] /\ A = [u \in V!MemRoots(y) |-> at[<<u, 0>>]]
                        /\ L = [m \in V!MemLeaves(y) |-> at[m]]
    OBVIOUS
  <1>13. /\ Layout(y, S, T, A, L)
         /\ \A b : Unused(y, T, A, L, b) <=> \A n \in N : at[n] # b
    <2>1. T = at[<<0, 0>>]
      BY <1>12
    <2>2. A = [u \in V!MemRoots(y) |-> at[<<u, 0>>]]
      BY <1>12
    <2>3. L = [m \in V!MemLeaves(y) |-> at[m]]
      BY <1>12
    <2>4. Typed(y) /\ Placed(at, V!MemNodes(y), S) /\ S \subseteq Blocks
      BY <1>3, <1>5, <1>7, <1>11
    <2>5. /\ Layout(y, S, T, A, L)
          /\ \A b : Unused(y, T, A, L, b) <=> \A n \in V!MemNodes(y) : at[n] # b
      BY <1>6, <2>1, <2>2, <2>3, <2>4, LayoutIs
    <2> QED
      BY <1>7, <2>5
  <1>14. PICK U : U = V!Range(at)
    OBVIOUS
  <1>15. at \in [N -> S] /\ \A m, n \in N : at[m] = at[n] => m = n
    BY <1>11 DEF Placed
  <1>16. U \subseteq S /\ \A b : b \in U <=> \E n \in N : at[n] = b
    BY <1>14, <1>15 DEF V!Range
  <1>17. \A b : Unused(y, T, A, L, b) <=> b \notin U
    BY <1>13, <1>16
  <1>18. /\ DOMAIN z = WriterFields /\ SameRest(y, z) /\ z.dedup = y.dedup
         /\ z.disk = [b \in Blocks |->
                        IF b \in U THEN V!Content(y, at, CHOOSE n \in N : at[n] = b)
                        ELSE y.disk[b]]
         /\ z.refs = [b \in Blocks |-> IF b \in U THEN 1 ELSE y.refs[b]]
         /\ z.free = (S \ U) \cup y.pinned /\ z.pinned = {} /\ z.fresh = {}
         /\ z.root = [sv \in DOMAIN y.root |->
                        IF sv \in V!MemRoots(y) THEN <<"disk", at[<<sv, 0>>]>> ELSE y.root[sv]]
         /\ z.rt = <<"disk", at[<<0, 0>>]>>
    <2>1. DOMAIN y = WriterFields /\ at = V!Place(V!MemNodes(y), y.free)
      BY <1>3, <1>4, <1>7, <1>10
    <2> QED
      BY <1>1, <1>4, <1>7, <1>14, <2>1, CommittedIs
  <1>19. \A n \in N : z.disk[at[n]] = V!Content(y, at, n)
    <2> SUFFICES ASSUME NEW n \in N PROVE z.disk[at[n]] = V!Content(y, at, n)
      OBVIOUS
    <2>1. at[n] \in U /\ at[n] \in Blocks
      BY <1>5, <1>15, <1>16
    <2>2. (CHOOSE k \in N : at[k] = at[n]) = n
      BY <1>15
    <2> QED
      BY <1>18, <2>1, <2>2
  <1>20. \A b \in Blocks : b \notin U => z.disk[b] = y.disk[b] /\ z.refs[b] = y.refs[b]
    BY <1>18
  <1>21. \A b \in U : z.refs[b] = 1
    BY <1>5, <1>16, <1>18
  <1>22. /\ 0 \notin Pos /\ 0 \notin V!MemRoots(y) /\ <<0, 0>> \in N
         /\ \A u \in V!MemRoots(y) : <<u, 0>> \in N
         /\ \A m \in V!MemLeaves(y) : m \in N
    BY <1>3, <1>7, MemNodesAre
  <1>23. Written(y, z, T, A, L)
    <2>1. /\ DOMAIN z.root = DOMAIN y.root /\ z.rt = <<"disk", T>> /\ DOMAIN z.disk = Blocks
          /\ \A sv \in V!MemRoots(y) : z.root[sv] = <<"disk", A[sv]>>
          /\ \A sv \in V!DiskRoots(y) : z.root[sv] = y.root[sv]
      BY <1>12, <1>18 DEF V!MemRoots, V!DiskRoots
    <2>2. z.disk[T] = <<"roots", None>>
      <3>1. z.disk[at[<<0, 0>>]] = V!Content(y, at, <<0, 0>>)
        BY <1>19, <1>22
      <3>2. V!Content(y, at, <<0, 0>>) = <<"roots", None>>
        BY DEF V!Content
      <3> QED
        BY <1>12, <3>1, <3>2
    <2>3. ASSUME NEW sv \in V!MemRoots(y)
          PROVE  z.disk[A[sv]] = <<"node", [p \in Pos |-> Kid(y, L, sv, p)]>>
      <3>1. z.disk[at[<<sv, 0>>]] = V!Content(y, at, <<sv, 0>>)
        BY <1>19, <1>22
      <3>2. PICK f : f = [p \in Pos |-> IF <<sv, p>> \in V!MemLeaves(y) THEN at[<<sv, p>>]
                                        ELSE y.root[sv][2][p][2]]
        OBVIOUS
      <3>3. sv # 0
        BY <1>22
      <3>4. <<sv, 0>> # <<0, 0>>
        BY <3>3
      <3>5. V!Content(y, at, <<sv, 0>>) = <<"node", f>>
        BY <3>2, <3>4 DEF V!Content
      <3>6. ASSUME NEW p \in Pos PROVE f[p] = Kid(y, L, sv, p)
        <4>1. CASE <<sv, p>> \in V!MemLeaves(y)
          BY <1>12, <3>2, <4>1 DEF Kid
        <4>2. CASE <<sv, p>> \notin V!MemLeaves(y)
          BY <3>2, <4>2 DEF Kid
        <4> QED
          BY <4>1, <4>2
      <3>7. f = [p \in Pos |-> Kid(y, L, sv, p)]
        BY <3>2, <3>6
      <3>8. A[sv] = at[<<sv, 0>>]
        BY <1>12
      <3> QED
        BY <3>1, <3>5, <3>7, <3>8
    <2>4. ASSUME NEW sv \in V!MemRoots(y), NEW p \in Pos, <<sv, p>> \in V!MemLeaves(y)
          PROVE  z.disk[L[<<sv, p>>]] = <<"leaf", y.root[sv][2][p][2]>>
      <3>1. z.disk[at[<<sv, p>>]] = V!Content(y, at, <<sv, p>>)
        BY <1>19, <1>22, <2>4
      <3>2. p # 0
        BY <1>22
      <3>3. <<sv, p>> # <<0, 0>> /\ <<sv, p>>[2] # 0
        BY <3>2
      <3>4. V!Content(y, at, <<sv, p>>) = <<"leaf", y.root[sv][2][p][2]>>
        BY <3>3 DEF V!Content
      <3>5. L[<<sv, p>>] = at[<<sv, p>>]
        BY <1>12, <2>4
      <3> QED
        BY <3>1, <3>4, <3>5
    <2>5. \A b \in Blocks : Unused(y, T, A, L, b) => z.disk[b] = y.disk[b]
      BY <1>17, <1>20
    <2> QED
      BY <2>1, <2>2, <2>3, <2>4, <2>5 DEF Written
  <1>24. Commits(y, z, S, T, A, L)
    BY <1>2, <1>3, <1>13, <1>23 DEF Commits
  <1>25. Shaped(z) /\ V!MemRoots(z) = {}
    BY <1>24, CommitShaped, CommitTyped
  <1>31. \A b \in Blocks : /\ y.leaked[b] \in Nat /\ Extra(y, None, b) = y.leaked[b]
                           /\ b \in U => y.leaked[b] = 0
    <2> SUFFICES ASSUME NEW b \in Blocks
                 PROVE  /\ y.leaked[b] \in Nat /\ Extra(y, None, b) = y.leaked[b]
                        /\ b \in U => y.leaked[b] = 0
      OBVIOUS
    <2>1. y.leaked[b] \in Nat
      BY <1>2, SoundLeaks
    <2>2. Extra(y, None, b) = y.leaked[b]
      BY <1>3, <2>1 DEF Extra
    <2>3. b \in U => y.refs[b] = 0
      BY <1>3, <1>4, <1>16 DEF Tables
    <2>4. y.refs[b] = Hits(y, b) + y.leaked[b] /\ Hits(y, b) \in Nat
      BY <1>3, <2>2
    <2> QED
      BY <2>1, <2>2, <2>3, <2>4
  <1>32. Leaky(z) /\ \A b : Extra(z, None, b) = Extra(y, None, b)
    <2>1. z.leaked = y.leaked
      BY <1>18 DEF SameRest
    <2>2. \A b \in Blocks : y.leaked[b] > 0 => z.disk[b] = y.disk[b]
      BY <1>20, <1>31
    <2> QED
      BY <1>2, <2>1, <2>2, SoundLeaks, LeaksStay
  <1>26. ASSUME NEW b \in Blocks PROVE z.refs[b] = Hits(z, b) + Extra(z, None, b)
    <2>1. CASE b \in U
      <3>1. b \in S /\ ~Unused(y, T, A, L, b)
        BY <1>16, <1>17, <2>1
      <3>2. Hits(z, b) = 1
        BY <1>24, <3>1, CommitNew
      <3>3. Extra(z, None, b) = 0
        BY <1>31, <1>32, <2>1
      <3> QED
        BY <1>21, <2>1, <3>2, <3>3
    <2>2. CASE b \notin U
      <3>1. Unused(y, T, A, L, b)
        BY <1>17, <2>2
      <3>2. Hits(z, b) = Hits(y, b)
        BY <1>24, <3>1, CommitOld
      <3> QED
        BY <1>3, <1>20, <1>32, <2>2, <3>2
    <2> QED
      BY <2>1, <2>2
  <1>27. Tables(z)
    <2>1. z.refs \in [Blocks -> Nat]
      BY <1>3, <1>18
    <2>2. /\ z.free \subseteq Blocks /\ z.fresh \subseteq Blocks /\ z.pinned \subseteq Blocks
          /\ z.free \cap z.pinned = {} /\ z.fresh \cap (z.free \cup z.pinned) = {}
      BY <1>3, <1>5, <1>18 DEF Tables
    <2>3. ASSUME NEW b \in Blocks PROVE z.refs[b] = 0 <=> b \in z.free \cup z.pinned
      <3>1. y.refs[b] = 0 <=> b \in S \cup y.pinned
        BY <1>3, <1>4 DEF Tables
      <3>2. b \in U => b \notin y.pinned
        BY <1>3, <1>4, <1>16 DEF Tables
      <3> QED
        BY <1>18, <1>20, <1>21, <3>1, <3>2
    <2>4. ASSUME NEW d \in Data, z.dedup[d] # None
          PROVE  z.refs[z.dedup[d]] > 0 /\ z.disk[z.dedup[d]] = <<"data", d>>
      <3>1. PICK b : b = y.dedup[d]
        OBVIOUS
      <3>2. z.dedup[d] = b /\ b # None
        BY <1>18, <2>4, <3>1
      <3>3. b \in Blocks /\ y.refs[b] > 0 /\ y.disk[b] = <<"data", d>>
        BY <1>3, <3>1, <3>2 DEF Tables
      <3>4. b \notin S
        BY <1>3, <1>4, <3>3 DEF Tables
      <3>5. b \notin U
        BY <1>16, <3>4
      <3> QED
        BY <1>20, <3>2, <3>3, <3>5
    <2>5. z.dedup \in [Data -> Blocks \cup {None}]
      BY <1>3, <1>18 DEF Tables
    <2> QED
      BY <2>1, <2>2, <2>3, <2>4, <2>5 DEF Tables
  <1>28. Sound(z, None)
    <2>1. DOMAIN z = WriterFields /\ Extent(z, None)
      BY <1>18 DEF Extent
    <2> QED
      BY <1>25, <1>26, <1>27, <1>32, <2>1, SoundFrom
  <1>29. /\ z.fresh = {} /\ z.rt[1] = "disk" /\ DOMAIN z.root = DOMAIN x.root /\ SameRest(x, z)
    BY <1>2, <1>18 DEF Keeps, SameRest
  <1>30. SameFiles(x, z)
    <2>1. SameFiles(x, y)
      BY <1>2, HoldsSame DEF Keeps, SameFiles
    <2>2. SameFiles(y, z)
      BY <1>24, CommitReads
    <2> QED
      BY <2>1, <2>2, SameFilesTwice
  <1> QED
    BY <1>25, <1>28, <1>29, <1>30

-----------------------------------------------------------------------------
(* What a commit leaves: the superblock leads to the writer's own trees.   *)

SameTables(x, y) ==
    /\ y.refs = x.refs /\ y.free = x.free /\ y.fresh = x.fresh /\ y.pinned = x.pinned
    /\ y.dedup = x.dedup /\ y.leaked = x.leaked

\* A change of the description only.
LEMMA RestOnly ==
    ASSUME V!VolumeConstants, NEW x, Sound(x, None), NEW y, DOMAIN y = WriterFields,
           SameTrees(x, y), SameTables(x, y)
    PROVE  Sound(y, None) /\ Spare(y) = Spare(x) /\ Within(x, y)
  <1>1. /\ Shaped(x) /\ Tables(x)
        /\ \A b \in Blocks : x.refs[b] = Hits(x, b) + Extra(x, None, b)
    BY SoundHits
  <1>2. y.disk = x.disk
    BY DEF SameTrees
  <1>3. Tables(y)
    BY <1>1, <1>2 DEF Tables, SameTables
  <1>4. Shaped(y) /\ \A b : Hits(y, b) = Hits(x, b)
    BY <1>1, TreesOnly
  <1>8. Leaky(y) /\ \A b : Extra(y, None, b) = Extra(x, None, b)
    BY <1>2, SoundLeaks, LeaksStay DEF SameTables
  <1>5. \A b \in Blocks : y.refs[b] = Hits(y, b) + Extra(y, None, b)
    BY <1>1, <1>4, <1>8 DEF SameTables
  <1>6. Sound(y, None)
    BY <1>3, <1>4, <1>5, <1>8, SoundFrom DEF Extent
  <1>7. Spare(y) = Spare(x)
    BY DEF Spare, SameTables
  <1> QED
    BY <1>2, <1>6, <1>7 DEF Within

\* Nothing is in memory only.
OnDisk(x) == V!MemRoots(x) = {} /\ x.rt[1] = "disk"

\* A volume is on disk or dirty.
LEMMA OnDiskIs == ASSUME NEW x, Shaped(x) PROVE OnDisk(x) <=> ~V!Dirty(x)
  <1>1. x.rt[1] = "disk" <=> x.rt[1] # "mem"
    BY DEF Shaped
  <1> QED
    BY <1>1 DEF OnDisk, V!Dirty

\* Two writers that agree on every root.
Alike(x, y) ==
    /\ y.disk = x.disk /\ y.rt = x.rt /\ DOMAIN y.root = DOMAIN x.root
    /\ \A sv \in DOMAIN x.root : y.root[sv] = x.root[sv]

\* Writers that agree on every root have the same pointers.
LEMMA AlikeIs ==
    ASSUME NEW x, Shaped(x), V!MemRoots(x) = {}, NEW y, Alike(x, y)
    PROVE  Shaped(y) /\ V!Pointers(y) = V!Pointers(x)
  <1>1. /\ y.disk = x.disk /\ y.rt = x.rt /\ DOMAIN y.root = DOMAIN x.root
        /\ \A sv \in DOMAIN x.root : y.root[sv] = x.root[sv]
    BY DEF Alike
  <1>2. V!MemRoots(y) = {} /\ V!DiskRoots(y) = V!DiskRoots(x)
    BY <1>1 DEF V!MemRoots, V!DiskRoots
  <1>3. V!DiskRoots(x) \subseteq DOMAIN x.root
    BY DEF V!DiskRoots
  <1>4. V!Nodes(y) = V!Nodes(x)
    BY <1>1, <1>2, <1>3 DEF V!Nodes
  <1>5. V!MemLeaves(x) = {} /\ V!MemLeaves(y) = {}
    BY <1>2 DEF V!MemLeaves
  <1>6. Typed(y)
    BY <1>1, <1>4 DEF Shaped, Typed
  <1>7. V!Leaves(y) = V!Leaves(x)
    <2>1. Typed(x)
      BY ShapedTyped
    <2>2. ASSUME NEW l PROVE l \in V!Leaves(y) <=> l \in V!Leaves(x)
      BY <1>1, <1>2, <1>4, <1>6, <2>1, LeavesAre
    <2> QED
      BY <2>2
  <1>8. Shaped(y)
    <2>1. /\ y.rt \in {<<"mem", None>>} \cup ({"disk"} \X Blocks)
          /\ y.rt[1] = "disk" => y.disk[y.rt[2]] = <<"roots", None>>
      BY <1>1 DEF Shaped
    <2>2. \A r \in V!Nodes(y) : \A p, q \in Pos : y.disk[r][2][p] = y.disk[r][2][q] => p = q
      BY <1>1, <1>4 DEF Shaped
    <2>3. \A l \in V!Leaves(y) :
             y.disk[l] \in {"leaf"} \X (Blocks \cup {None}) /\ Extent(y, y.disk[l][2])
      BY <1>1, <1>7 DEF Shaped, Extent
    <2> QED
      BY <1>2, <1>5, <1>6, <2>1, <2>2, <2>3 DEF Shaped
  <1>9. ASSUME NEW e PROVE e \in V!Pointers(y) <=> e \in V!Pointers(x)
    <2>1. (\E sv \in V!DiskRoots(y) : e = <<"root", sv, 0, y.root[sv][2]>>)
          <=> \E sv \in V!DiskRoots(x) : e = <<"root", sv, 0, x.root[sv][2]>>
      BY <1>1, <1>2, <1>3
    <2> QED
      BY <1>1, <1>2, <1>4, <1>7, <2>1, PointersAre
  <1> QED
    BY <1>8, <1>9

\* The superblock just written leads to trees that are all there.
LEMMA SuperblockSound ==
    ASSUME V!VolumeConstants, NEW z, Sound(z, None), OnDisk(z), Unmarked(z),
           NEW s, s = V!Superblock(z)
    PROVE  SavedSound(s, z) /\ SameFiles(z, V!Mounted(s, z.disk))
  <1>1. DOMAIN z = WriterFields /\ Shaped(z) /\ Typed(z) /\ Tables(z) /\ None \notin Blocks
    BY SoundHits
  <1>2. /\ DOMAIN s = {"root", "ro", "rt", "default"}
        /\ s.root = [sv \in DOMAIN z.root |-> z.root[sv][2]] /\ s.rt = z.rt[2]
    BY DEF V!Superblock
  <1>3. PICK y : y = V!Mounted(s, z.disk)
    OBVIOUS
  <1>4. /\ y.disk = z.disk /\ y.rt = <<"disk", s.rt>>
        /\ y.root = [sv \in DOMAIN s.root |-> <<"disk", s.root[sv]>>]
    BY <1>3 DEF V!Mounted
  <1>5. y.rt = z.rt
    <2>1. z.rt \in {<<"mem", None>>} \cup ({"disk"} \X Blocks) /\ z.rt[1] = "disk"
      BY <1>1 DEF Shaped, OnDisk
    <2> QED
      BY <1>2, <1>4, <2>1
  <1>6. \A sv \in DOMAIN z.root : z.root[sv] = <<"disk", z.root[sv][2]>>
    BY <1>1, NodesAre DEF OnDisk
  <1>7. Alike(z, y)
    <2>1. DOMAIN s.root = DOMAIN z.root
      BY <1>2
    <2>2. DOMAIN y.root = DOMAIN z.root
      BY <1>4, <2>1
    <2>3. ASSUME NEW sv \in DOMAIN z.root PROVE y.root[sv] = z.root[sv]
      <3>1. PICK c : c = z.root[sv]
        OBVIOUS
      <3>2. PICK r : r = c[2]
        OBVIOUS
      <3>3. c = <<"disk", r>>
        BY <1>6, <3>1, <3>2
      <3>4. s.root[sv] = r
        BY <1>2, <3>1, <3>2
      <3>5. y.root[sv] = <<"disk", s.root[sv]>>
        BY <1>4, <2>1
      <3> QED
        BY <3>1, <3>3, <3>4, <3>5
    <2> QED
      BY <1>4, <1>5, <2>2, <2>3 DEF Alike
  <1>8. Shaped(y) /\ V!Pointers(y) = V!Pointers(z)
    BY <1>1, <1>7, AlikeIs DEF OnDisk
  <1>9. ASSUME NEW e \in V!Pointers(y) PROVE e[4] \notin Spare(z)
    <2>1. e[4] \in Blocks => z.refs[e[4]] > 0
      BY <1>8, Pointed
    <2>2. e[4] \notin z.fresh
      BY <1>8 DEF Unmarked
    <2> QED
      BY <1>1, <2>1, <2>2 DEF Spare, Tables
  <1>10. SameFiles(z, y)
    BY <1>7, HoldsSame DEF Alike, SameFiles
  <1>11. SavedSound(s, z)
    BY <1>2, <1>3, <1>8, <1>9 DEF SavedSound
  <1> QED
    BY <1>3, <1>10, <1>11

\* A commit, of a volume that has changed or not.
LEMMA CommitSound ==
    ASSUME V!VolumeConstants, NEW x, Sound(x, None), V!Fits(x), ~V!Dirty(x) => Unmarked(x),
           NEW z, z = V!Committed(x)
    PROVE  /\ Sound(z, None) /\ Unmarked(z) /\ OnDisk(z)
           /\ DOMAIN z.root = DOMAIN x.root /\ SavedSound(V!Superblock(z), z)
           /\ SameFiles(x, z) /\ SameFiles(z, V!Mounted(V!Superblock(z), z.disk))
  <1>1. CASE V!Dirty(x)
    <2>1. /\ Sound(z, None) /\ z.fresh = {} /\ V!MemRoots(z) = {} /\ z.rt[1] = "disk"
          /\ DOMAIN z.root = DOMAIN x.root /\ SameFiles(x, z)
      BY <1>1, CommittedSound
    <2>2. OnDisk(z) /\ Unmarked(z)
      BY <2>1 DEF OnDisk, Unmarked
    <2> QED
      BY <2>1, <2>2, SuperblockSound
  <1>2. CASE ~V!Dirty(x)
    <2>1. z = x
      BY <1>2 DEF V!Committed
    <2>2. OnDisk(z)
      BY <1>2, <2>1, OnDiskIs, SoundHits
    <2>3. SameFiles(x, z)
      BY <2>1 DEF SameFiles
    <2> QED
      BY <1>2, <2>1, <2>2, <2>3, SuperblockSound
  <1> QED
    BY <1>1, <1>2

-----------------------------------------------------------------------------
(* A snapshot: a second pointer to a root.                                 *)

RootAdded(x, y, id, c) ==
    /\ y.disk = x.disk /\ y.rt = x.rt /\ DOMAIN y.root = DOMAIN x.root \cup {id}
    /\ y.root[id] = c /\ \A sv \in DOMAIN x.root : y.root[sv] = x.root[sv]

\* A second pointer at a root is one more reference to it.
LEMMA AddRoot ==
    ASSUME V!VolumeConstants, NEW x, Shaped(x), V!MemRoots(x) = {}, NEW id \in Ids,
           id \notin DOMAIN x.root, NEW src \in DOMAIN x.root, NEW r, x.root[src] = <<"disk", r>>,
           NEW y, RootAdded(x, y, id, <<"disk", r>>)
    PROVE  /\ Shaped(y) /\ V!MemRoots(y) = {} /\ r \in Blocks
           /\ \A b \in Blocks : Hits(y, b) = Hits(x, b) + (IF b = r THEN 1 ELSE 0)
  <1>1. /\ y.disk = x.disk /\ y.rt = x.rt /\ DOMAIN y.root = DOMAIN x.root \cup {id}
        /\ y.root[id] = <<"disk", r>> /\ \A sv \in DOMAIN x.root : y.root[sv] = x.root[sv]
    BY DEF RootAdded
  <1>2. Typed(x) /\ r \in V!Nodes(x) /\ r \in Blocks
    BY ShapedTyped, NodesAre
  <1>3. V!MemRoots(y) = {} /\ V!DiskRoots(y) = V!DiskRoots(x) \cup {id}
    BY <1>1 DEF V!MemRoots, V!DiskRoots
  <1>4. V!DiskRoots(x) \subseteq DOMAIN x.root
    BY DEF V!DiskRoots
  <1>5. V!Nodes(y) = V!Nodes(x)
    <2>1. V!Nodes(y) = {y.root[sv][2] : sv \in V!DiskRoots(x)} \cup {y.root[id][2]}
      BY <1>3 DEF V!Nodes
    <2>2. {y.root[sv][2] : sv \in V!DiskRoots(x)} = V!Nodes(x)
      BY <1>1, <1>4 DEF V!Nodes
    <2> QED
      BY <1>1, <1>2, <2>1, <2>2
  <1>6. Typed(y)
    <2>1. \A sv \in DOMAIN y.root : y.root[sv] \in Roots
      BY <1>1, <1>2 DEF Typed, Roots
    <2> QED
      BY <1>1, <1>2, <1>5, <2>1 DEF Typed
  <1>7. V!MemLeaves(x) = {} /\ V!MemLeaves(y) = {}
    BY <1>3 DEF V!MemLeaves
  <1>8. V!Leaves(y) = V!Leaves(x)
    <2>1. ASSUME NEW l PROVE l \in V!Leaves(y) <=> l \in V!Leaves(x)
      BY <1>1, <1>2, <1>3, <1>5, <1>6, LeavesAre
    <2> QED
      BY <2>1
  <1>9. Shaped(y)
    <2>1. /\ y.rt \in {<<"mem", None>>} \cup ({"disk"} \X Blocks)
          /\ y.rt[1] = "disk" => y.disk[y.rt[2]] = <<"roots", None>>
      BY <1>1 DEF Shaped
    <2>2. \A q \in V!Nodes(y) : \A p1, p2 \in Pos : y.disk[q][2][p1] = y.disk[q][2][p2] => p1 = p2
      BY <1>1, <1>5 DEF Shaped
    <2>3. \A l \in V!Leaves(y) :
             y.disk[l] \in {"leaf"} \X (Blocks \cup {None}) /\ Extent(y, y.disk[l][2])
      BY <1>1, <1>8 DEF Shaped, Extent
    <2> QED
      BY <1>3, <1>6, <1>7, <2>1, <2>2, <2>3 DEF Shaped
  <1>10. ASSUME NEW b \in Blocks
         PROVE  Hits(y, b) = Hits(x, b) + (IF b = r THEN 1 ELSE 0)
    <2>1. NodeHits(y, b) = NodeHits(x, b) /\ LeafHits(y, b) = LeafHits(x, b)
      BY <1>1, <1>5, <1>8 DEF NodeHits, LeafHits
    <2>2. MemHits(y, b) = {} /\ MemHits(x, b) = {}
      BY <1>3 DEF MemHits
    <2>3. RootHits(y, b) = RootHits(x, b) \cup (IF b = r THEN {id} ELSE {})
      BY <1>1, <1>3, <1>4 DEF RootHits
    <2>4. IsFiniteSet(RootHits(x, b)) /\ id \notin RootHits(x, b)
      BY <1>2, <1>4, HitsFinite DEF RootHits
    <2>5. Cardinality(RootHits(y, b)) = Cardinality(RootHits(x, b)) + (IF b = r THEN 1 ELSE 0)
      <3>1. Cardinality(RootHits(x, b)) \in Nat
        BY <1>2, HitsFinite
      <3>2. CASE b = r
        <4>1. RootHits(y, b) = RootHits(x, b) \cup {id}
          BY <2>3, <3>2
        <4> QED
          BY <2>4, <3>2, <4>1, OneMoreIs
      <3>3. CASE b # r
        <4>1. RootHits(y, b) = RootHits(x, b)
          BY <2>3, <3>3
        <4> QED
          BY <3>1, <3>3, <4>1
      <3> QED
        BY <3>2, <3>3
    <2>6. /\ Cardinality(RootHits(x, b)) \in Nat /\ Cardinality(NodeHits(x, b)) \in Nat
          /\ Cardinality(MemHits(x, b)) \in Nat /\ Cardinality(LeafHits(x, b)) \in Nat
      BY <1>2, HitsFinite
    <2>7. MemHits(y, b) = MemHits(x, b) /\ y.rt = x.rt
      BY <1>1, <2>2
    <2> HIDE <1>1
    <2> QED
      BY <2>1, <2>5, <2>6, <2>7 DEF Hits
  <1> QED
    BY <1>2, <1>3, <1>9, <1>10

\* Everything is read as before, and id as src.
FilesAdded(x, y, src, id) ==
    /\ DOMAIN y.root = DOMAIN x.root \cup {id}
    /\ \A p \in Pos : Holds(y, id, p) = Holds(x, src, p)
    /\ \A u \in DOMAIN x.root : \A p \in Pos : Holds(y, u, p) = Holds(x, u, p)

\* The second pointer reads what the first does.
LEMMA AddReads ==
    ASSUME NEW x, NEW id, NEW src, NEW r, x.root[src] = <<"disk", r>>,
           NEW y, RootAdded(x, y, id, <<"disk", r>>)
    PROVE  FilesAdded(x, y, src, id)
  <1>1. /\ y.disk = x.disk /\ DOMAIN y.root = DOMAIN x.root \cup {id}
        /\ y.root[id] = <<"disk", r>> /\ \A sv \in DOMAIN x.root : y.root[sv] = x.root[sv]
    BY DEF RootAdded
  <1>2. ASSUME NEW p \in Pos PROVE Holds(y, id, p) = Holds(x, src, p)
    BY <1>1, HoldsIs
  <1>3. ASSUME NEW u \in DOMAIN x.root, NEW p \in Pos PROVE Holds(y, u, p) = Holds(x, u, p)
    BY <1>1, HoldsSame
  <1> QED
    BY <1>1, <1>2, <1>3 DEF FilesAdded

\* A change of the tables is not read.
LEMMA AddedThen ==
    ASSUME NEW x, NEW y, NEW z, NEW src, NEW id, FilesAdded(x, y, src, id), SameRoots(y, z)
    PROVE  FilesAdded(x, z, src, id)
  <1>1. z.root = y.root /\ \A sv, p : Holds(z, sv, p) = Holds(y, sv, p)
    BY HoldsAll DEF SameRoots
  <1> QED
    BY <1>1 DEF FilesAdded

\* A snapshot counts it.
LEMMA SharedSound ==
    ASSUME V!VolumeConstants, NEW x, Sound(x, None), V!MemRoots(x) = {}, NEW src \in DOMAIN x.root,
           NEW id \in Ids, id \notin DOMAIN x.root, NEW y, y = V!Shared(x, src, id)
    PROVE  Sound(y, None) /\ FilesAdded(x, y, src, id)
  <1>1. /\ DOMAIN x = WriterFields /\ Shaped(x) /\ Typed(x) /\ Tables(x) /\ None \notin Blocks
        /\ \A b \in Blocks : /\ x.refs[b] \in Nat /\ Hits(x, b) \in Nat
                             /\ x.refs[b] = Hits(x, b) + Extra(x, None, b)
    BY SoundHits
  <1>2. PICK r : r = x.root[src][2]
    OBVIOUS
  <1>3. x.root[src] = <<"disk", r>> /\ r \in Blocks
    BY <1>1, <1>2, NodesAre
  <1>4. PICK c : c = x.root[src]
    OBVIOUS
  <1>5. PICK v : v = V!Incref(x, r)
    OBVIOUS
  <1>6. x.refs[r] > 0
    <2>1. <<"root", src, 0, r>> \in V!Pointers(x)
      <3>1. src \in V!DiskRoots(x)
        BY <1>1, NodesAre
      <3> QED
        BY <1>2, <3>1, PointersAre
    <2> QED
      BY <1>3, <2>1, Pointed
  <1>7. PICK R : R = [x.refs EXCEPT ![r] = @ + 1]
    OBVIOUS
  <1>8. /\ R \in [Blocks -> Nat] /\ \A b \in Blocks : R[b] = x.refs[b] + (IF b = r THEN 1 ELSE 0)
        /\ \A b \in Blocks : R[b] = 0 <=> x.refs[b] = 0
    <2>1. x.refs \in [Blocks -> Nat]
      BY <1>1 DEF Tables
    <2> QED
      BY <1>3, <1>6, <1>7, <2>1
  <1>9. v = [x EXCEPT !.refs = R]
    BY <1>1, <1>5, <1>7 DEF V!Incref, WriterFields
  <1>10. DOMAIN v = WriterFields /\ SameTrees(x, v) /\ SameRest(x, v) /\ Tables(v) /\ v.refs = R
    BY <1>1, <1>8, <1>9, RaiseTables
  <1>11. PICK m : m = [sv \in DOMAIN x.root \cup {id} |-> IF sv = id THEN c ELSE x.root[sv]]
    OBVIOUS
  <1>12. y = [v EXCEPT !.root = m]
    BY <1>2, <1>4, <1>5, <1>10, <1>11 DEF V!Shared, SameTrees, WriterFields
  <1>13. /\ DOMAIN y = WriterFields /\ y.disk = v.disk /\ y.refs = v.refs /\ y.free = v.free
         /\ y.fresh = v.fresh /\ y.pinned = v.pinned /\ y.dedup = v.dedup /\ y.rt = v.rt
         /\ y.root = m
    BY <1>10, <1>12 DEF WriterFields
  <1>14. /\ DOMAIN m = DOMAIN v.root \cup {id} /\ m[id] = c
         /\ \A sv \in DOMAIN v.root : sv # id => m[sv] = v.root[sv]
    BY <1>10, <1>11 DEF SameTrees
  <1>15. RootAdded(x, y, id, <<"disk", r>>)
    BY <1>3, <1>4, <1>10, <1>13, <1>14 DEF RootAdded, SameTrees
  <1>16. Shaped(y) /\ \A b \in Blocks : Hits(y, b) = Hits(x, b) + (IF b = r THEN 1 ELSE 0)
    BY <1>1, <1>3, <1>15, AddRoot
  <1>17. Tables(y)
    BY <1>10, <1>13 DEF Tables
  <1>20. Leaky(y) /\ \A b : Extra(y, None, b) = Extra(x, None, b)
    <2>1. y.leaked = x.leaked
      BY <1>10, <1>12 DEF SameRest, WriterFields
    <2>2. y.disk = x.disk
      BY <1>10, <1>13 DEF SameTrees
    <2> QED
      BY <2>1, <2>2, SoundLeaks, LeaksStay
  <1>18. \A b \in Blocks : y.refs[b] = Hits(y, b) + Extra(y, None, b)
    <2> SUFFICES ASSUME NEW b \in Blocks PROVE y.refs[b] = Hits(y, b) + Extra(x, None, b)
      BY <1>20
    <2>1. y.refs[b] = x.refs[b] + (IF b = r THEN 1 ELSE 0)
      BY <1>8, <1>10, <1>13
    <2>2. x.refs[b] = Hits(x, b) + Extra(x, None, b) /\ Hits(x, b) \in Nat /\ Extra(x, None, b) \in Nat
      BY <1>1, SoundLeaks
    <2> QED
      BY <1>16, <2>1, <2>2
  <1>19. FilesAdded(x, y, src, id)
    BY <1>3, <1>15, AddReads
  <1> QED
    BY <1>13, <1>16, <1>17, <1>18, <1>19, <1>20, SoundFrom DEF Extent

-----------------------------------------------------------------------------
(* Mounting, and the first volume.                                         *)

\* A mount counts every pointer.
LEMMA ScanSound ==
    ASSUME V!VolumeConstants, NEW s, NEW D, NEW x, x = V!Mounted(s, D), Shaped(x),
           DOMAIN s = {"root", "ro", "rt", "default"}, NEW z, z = V!Scan(s, D)
    PROVE  Sound(z, None) /\ SavedSound(s, z) /\ z.fresh = {} /\ SameFiles(x, z)
  <1> DEFINE holding(d) == {b \in {D[l][2] : l \in V!Leaves(x)} \ {None} : D[b] = <<"data", d>>}
  <1>1. /\ DOMAIN z = WriterFields /\ z.disk = D
        /\ z.refs = [b \in Blocks |-> V!Count(V!Pointers(x), b)]
        /\ z.leaked = [b \in Blocks |-> 0]
        /\ z.free = {b \in Blocks : z.refs[b] = 0} /\ z.fresh = {} /\ z.pinned = {}
        /\ z.dedup = [d \in Data |-> IF holding(d) = {} THEN None
                                      ELSE CHOOSE b \in holding(d) : TRUE]
        /\ z.root = x.root /\ z.rt = x.rt
    BY DEF V!Scan, WriterFields
  <1>2. x.disk = D
    BY DEF V!Mounted
  <1>3. Typed(x) /\ None \notin Blocks
    BY ShapedTyped DEF V!VolumeConstants
  <1>4. IsFiniteSet(V!Pointers(x))
    BY <1>3, PointersFinite
  <1>5. \A b : V!Count(V!Pointers(x), b) \in Nat
               /\ (V!Count(V!Pointers(x), b) = 0 <=> \A e \in V!Pointers(x) : e[4] # b)
    BY <1>4, CountNat
  <1>6. \A b \in Blocks : z.refs[b] = V!Count(V!Pointers(x), b)
    BY <1>1
  <1>7. z.refs \in [Blocks -> Nat]
    BY <1>1, <1>5
  <1>8. SameTrees(x, z)
    BY <1>1, <1>2 DEF SameTrees
  <1>9. ASSUME NEW d \in Data, z.dedup[d] # None
        PROVE  /\ z.dedup[d] \in Blocks /\ z.refs[z.dedup[d]] > 0
               /\ z.disk[z.dedup[d]] = <<"data", d>>
    <2>1. PICK b : b = z.dedup[d]
      OBVIOUS
    <2>2. b \in holding(d)
      <3>1. b = IF holding(d) = {} THEN None ELSE CHOOSE c \in holding(d) : TRUE
        BY <1>1, <2>1
      <3>2. holding(d) # {}
        BY <1>9, <2>1, <3>1
      <3> HIDE DEF holding
      <3> QED
        BY <3>1, <3>2
    <2>3. PICK l \in V!Leaves(x) : b = D[l][2]
      BY <2>2
    <2>4. D[l][2] \in Blocks
      <3>1. b # None
        BY <1>9, <2>1
      <3>2. x.disk[l] \in {"leaf"} \X (Blocks \cup {None})
        BY DEF Shaped
      <3> QED
        BY <1>2, <2>3, <3>1, <3>2
    <2>5. \E e \in V!Pointers(x) : e[4] = b
      BY <1>2, <2>3, AllPointed
    <2>6. z.refs[b] > 0
      <3>1. V!Count(V!Pointers(x), b) # 0 /\ V!Count(V!Pointers(x), b) \in Nat
        BY <1>5, <2>5
      <3> QED
        BY <1>6, <2>3, <2>4, <3>1
    <2> QED
      BY <1>1, <2>1, <2>2, <2>3, <2>4, <2>6
  <1>10. z.dedup \in [Data -> Blocks \cup {None}]
    <2>1. \A d \in Data : z.dedup[d] \in Blocks \cup {None}
      BY <1>9
    <2>2. DOMAIN z.dedup = Data /\ z.dedup = [d \in Data |-> z.dedup[d]]
      <3> HIDE DEF holding
      <3> QED
        BY <1>1
    <2> QED
      BY <2>1, <2>2
  <1>11. Tables(z)
    <2>1. z.free \subseteq Blocks /\ z.fresh = {} /\ z.pinned = {}
          /\ \A b \in Blocks : z.refs[b] = 0 <=> b \in z.free
      BY <1>1
    <2> QED
      BY <1>7, <1>9, <1>10, <2>1 DEF Tables
  <1>12. Shaped(z) /\ \A b : Hits(z, b) = Hits(x, b)
    BY <1>8, TreesOnly
  <1>18. Leaky(z) /\ \A b \in Blocks : Extra(z, None, b) = 0
    <2>1. z.leaked \in [Blocks -> Nat] /\ \A b \in Blocks : z.leaked[b] = 0
      BY <1>1
    <2> QED
      BY <1>3, <2>1 DEF Leaky, Extra
  <1>13. \A b \in Blocks : z.refs[b] = Hits(z, b) + Extra(z, None, b)
    <2>1. ASSUME NEW b \in Blocks PROVE z.refs[b] = Hits(z, b) /\ z.refs[b] \in Nat
      BY <1>3, <1>6, <1>7, <1>12, CountSum
    <2> QED
      BY <1>18, <2>1
  <1>14. Sound(z, None)
    BY <1>1, <1>11, <1>12, <1>13, <1>18, SoundFrom DEF Extent
  <1>15. ASSUME NEW e \in V!Pointers(x) PROVE e[4] \notin Spare(z)
    <2>1. e[4] \in Blocks => z.refs[e[4]] # 0
      BY <1>5, <1>6
    <2> QED
      BY <1>1, <2>1 DEF Spare
  <1>16. SavedSound(s, z)
    BY <1>1, <1>15 DEF SavedSound
  <1>17. SameFiles(x, z)
    BY <1>8, SameTreesRead
  <1> QED
    BY <1>1, <1>14, <1>16, <1>17

\* The leaves of a new volume are blocks of their own.
LEMMA FirstLeafIs ==
    ASSUME V!VolumeConstants
    PROVE  /\ \A p \in Pos : V!FirstLeaf(p) \in Blocks /\ V!FirstLeaf(p) \in Nat /\ V!FirstLeaf(p) > 2
           /\ \A p, q \in Pos : V!FirstLeaf(p) = V!FirstLeaf(q) => p = q
  <1>1. Pos \subseteq Nat /\ IsFiniteSet(Pos)
    <2>1. Pos \subseteq Nat \ {0}
      BY DEF V!VolumeConstants
    <2> QED
      BY <2>1, ConstantsFinite
  <1> DEFINE U(p) == {q \in Pos : q <= p}
  <1>2. \A p \in Pos : p \in U(p) /\ IsFiniteSet(U(p)) /\ Cardinality(U(p)) \in Nat
    <2> SUFFICES ASSUME NEW p \in Pos
                 PROVE  p \in U(p) /\ IsFiniteSet(U(p)) /\ Cardinality(U(p)) \in Nat
      OBVIOUS
    <2>1. U(p) \subseteq Pos /\ p \in U(p)
      BY <1>1
    <2> QED
      BY <1>1, <2>1, FS_Subset, FS_CardinalityType
  <1>3. \A p \in Pos : V!FirstLeaf(p) = Cardinality(U(p)) + 2
    BY VolumeFinite DEF V!FirstLeaf
  <1>4. ASSUME NEW p \in Pos PROVE Cardinality(U(p)) > 0
    <2>1. U(p) # {}
      BY <1>2
    <2> QED
      BY <1>2, <2>1, FS_EmptySet
  <1>5. ASSUME NEW p \in Pos, NEW q \in Pos, p < q
        PROVE  Cardinality(U(p)) < Cardinality(U(q))
    <2>1. PICK S, T : S = U(q) /\ T = U(p)
      OBVIOUS
    <2>2. T \subseteq S /\ q \in S /\ q \notin T
      <3>1. p \in Nat /\ q \in Nat
        BY <1>1
      <3>2. \A r \in Nat : r <= p => r <= q
        BY <1>5, <3>1
      <3>3. q <= q /\ ~(q <= p)
        BY <1>5, <3>1
      <3> QED
        BY <1>1, <2>1, <3>2, <3>3
    <2>3. IsFiniteSet(S)
      BY <1>2, <2>1
    <2>4. Cardinality(T) < Cardinality(S)
      BY <2>2, <2>3, FewerThan
    <2> QED
      BY <2>1, <2>4
  <1>6. ASSUME NEW p \in Pos, NEW q \in Pos, V!FirstLeaf(p) = V!FirstLeaf(q) PROVE p = q
    <2>1. Cardinality(U(p)) = Cardinality(U(q)) /\ Cardinality(U(p)) \in Nat /\ Cardinality(U(q)) \in Nat
      <3> HIDE DEF U
      <3> QED
        BY <1>2, <1>3, <1>6
    <2>2. ~(p < q) /\ ~(q < p)
      <3> HIDE DEF U
      <3> QED
        BY <1>5, <2>1
    <2> QED
      BY <1>1, <2>2
  <1>7. ASSUME NEW p \in Pos PROVE V!FirstLeaf(p) \in Blocks
    BY DEF V!VolumeConstants
  <1>8. ASSUME NEW p \in Pos PROVE V!FirstLeaf(p) \in Nat /\ V!FirstLeaf(p) > 2
    <2>1. Cardinality(U(p)) \in Nat /\ Cardinality(U(p)) > 0
      BY <1>2, <1>4
    <2> HIDE DEF U
    <2> QED
      BY <1>3, <2>1
  <1> QED
    BY <1>6, <1>7, <1>8

\* The trees of a new volume are well made.
LEMMA FormattedShaped ==
    ASSUME V!VolumeConstants, NEW s, s.root = [sv \in {1} |-> 2], s.rt = 1,
           NEW x, x = V!Mounted(s, V!Formatted)
    PROVE  Shaped(x)
  <1>1. /\ x.disk = V!Formatted /\ x.rt = <<"disk", 1>> /\ DOMAIN x.root = {1}
        /\ x.root[1] = <<"disk", 2>>
    BY DEF V!Mounted
  <1>2. 1 \in Blocks /\ 2 \in Blocks /\ None \notin Blocks
    BY DEF V!VolumeConstants
  <1>3. PICK f : f = [p \in Pos |-> V!FirstLeaf(p)]
    OBVIOUS
  <1>4. /\ DOMAIN x.disk = Blocks /\ x.disk[1] = <<"roots", None>> /\ x.disk[2] = <<"node", f>>
        /\ \A b \in Blocks : b # 1 /\ b # 2 => x.disk[b] = <<"leaf", None>>
    <2>1. x.disk = [b \in Blocks |-> CASE b = 1 -> <<"roots", None>> [] b = 2 -> <<"node", f>>
                                        [] OTHER -> <<"leaf", None>>]
      BY <1>1, <1>3 DEF V!Formatted
    <2>2. DOMAIN x.disk = Blocks
      BY <2>1
    <2>3. ASSUME NEW b \in Blocks
          PROVE  x.disk[b] = CASE b = 1 -> <<"roots", None>> [] b = 2 -> <<"node", f>>
                               [] OTHER -> <<"leaf", None>>
      BY <2>1, Zenon
    <2>4. 1 # 2
      OBVIOUS
    <2> QED
      BY <1>2, <2>2, <2>3, <2>4
  <1>5. /\ f \in [Pos -> Blocks] /\ \A p \in Pos : f[p] \in Blocks /\ f[p] # 1 /\ f[p] # 2
        /\ \A p, q \in Pos : f[p] = f[q] => p = q
    BY <1>3, FirstLeafIs
  <1>6. V!DiskRoots(x) = {1} /\ V!MemRoots(x) = {}
    BY <1>1 DEF V!DiskRoots, V!MemRoots
  <1>7. V!Nodes(x) = {2}
    BY <1>1, <1>6 DEF V!Nodes
  <1>8. Typed(x)
    <2>1. x.root[1] \in Roots
      BY <1>1, <1>2 DEF Roots
    <2> QED
      BY <1>1, <1>4, <1>5, <1>7, <2>1 DEF Typed
  <1>9. ASSUME NEW l \in V!Leaves(x) PROVE x.disk[l] = <<"leaf", None>>
    <2>1. \E p \in Pos : l = x.disk[2][2][p]
      BY <1>6, <1>7, <1>8, LeafFrom
    <2> QED
      BY <1>4, <1>5, <2>1
  <1>10. V!MemLeaves(x) = {}
    BY <1>6 DEF V!MemLeaves
  <1>11. \A r \in V!Nodes(x) : \A p, q \in Pos : x.disk[r][2][p] = x.disk[r][2][q] => p = q
    BY <1>4, <1>5, <1>7
  <1>12. \A l \in V!Leaves(x) :
           x.disk[l] \in {"leaf"} \X (Blocks \cup {None}) /\ Extent(x, x.disk[l][2])
    BY <1>9 DEF Extent
  <1>13. x.rt \in {"disk"} \X Blocks /\ x.disk[x.rt[2]] = <<"roots", None>>
    BY <1>1, <1>2, <1>4
  <1> QED
    BY <1>6, <1>8, <1>10, <1>11, <1>12, <1>13 DEF Shaped

\* And they are empty.
LEMMA FormattedEmpty ==
    ASSUME V!VolumeConstants, NEW s, s.root = [sv \in {1} |-> 2], s.rt = 1,
           NEW x, x = V!Mounted(s, V!Formatted)
    PROVE  DOMAIN x.root = {1} /\ \A p \in Pos : Holds(x, 1, p) = None
  <1>1. x.disk = V!Formatted /\ DOMAIN x.root = {1} /\ x.root[1] = <<"disk", 2>>
    BY DEF V!Mounted
  <1>2. PICK f : f = [p \in Pos |-> V!FirstLeaf(p)]
    OBVIOUS
  <1>3. x.disk = [b \in Blocks |-> CASE b = 1 -> <<"roots", None>> [] b = 2 -> <<"node", f>>
                                      [] OTHER -> <<"leaf", None>>]
    BY <1>1, <1>2 DEF V!Formatted
  <1>4. ASSUME NEW p \in Pos PROVE Holds(x, 1, p) = None
    <2>1. PICK l : l = V!FirstLeaf(p)
      OBVIOUS
    <2>2. l \in Blocks /\ l # 1 /\ l # 2 /\ 2 \in Blocks
      BY <2>1, FirstLeafIs DEF V!VolumeConstants
    <2>3. x.disk[l] = <<"leaf", None>>
      BY <1>3, <2>2
    <2>4. x.disk[2] = <<"node", f>>
      <3>1. 2 # 1 /\ 2 \in Blocks
        BY <2>2
      <3> QED
        BY <1>3, <3>1
    <2>5. Holds(x, 1, p) = V!Bytes(x.disk, x.disk[x.disk[2][2][p]][2])
      BY <1>1, HoldsIs
    <2>6. x.disk[2][2][p] = l
      BY <1>2, <2>1, <2>4
    <2> QED
      BY <2>3, <2>5, <2>6 DEF V!Bytes
  <1> QED
    BY <1>1, <1>4

\* A new volume satisfies the invariant.
LEMMA VolumeStarts == ASSUME V!VolumeConstants, V!Init PROVE VolumeInv
  <1>1. /\ DOMAIN saved = {"root", "ro", "rt", "default"}
        /\ saved.root = [sv \in {1} |-> 2] /\ saved.rt = 1 /\ w = V!Scan(saved, V!Formatted)
    BY DEF V!Init
  <1>2. PICK x : x = V!Mounted(saved, V!Formatted)
    OBVIOUS
  <1>3. Shaped(x)
    BY <1>1, <1>2, FormattedShaped
  <1>4. Sound(w, None) /\ SavedSound(saved, w) /\ w.fresh = {}
    BY <1>1, <1>2, <1>3, ScanSound
  <1> QED
    BY <1>4 DEF VolumeInv, VolumeSound, Unmarked

-----------------------------------------------------------------------------
(* A subvolume deleted: what only its tree pointed at is let go.           *)

RootGone(x, y, id) ==
    /\ y.disk = x.disk /\ y.rt = x.rt /\ DOMAIN y.root = DOMAIN x.root \ {id}
    /\ \A sv \in DOMAIN y.root : y.root[sv] = x.root[sv]

\* The nodes and the leaves that stay.
Staying(x, y, id) ==
    /\ V!MemRoots(y) = {} /\ V!DiskRoots(y) = V!DiskRoots(x) \ {id}
    /\ V!Nodes(y) \subseteq V!Nodes(x) /\ V!Leaves(y) \subseteq V!Leaves(x)
    /\ \A q : q \in V!Nodes(y) <=> \E sv \in DOMAIN x.root : sv # id /\ x.root[sv] = <<"disk", q>>
    /\ \A l : l \in V!Leaves(y) <=> \E q \in V!Nodes(y) : \E p \in Pos : l = x.disk[q][2][p]

\* They are well made.
LEMMA FewerRoots ==
    ASSUME NEW x, Shaped(x), V!MemRoots(x) = {}, NEW id \in DOMAIN x.root,
           NEW y, RootGone(x, y, id)
    PROVE  Shaped(y) /\ Staying(x, y, id)
  <1>1. /\ y.disk = x.disk /\ y.rt = x.rt /\ DOMAIN y.root = DOMAIN x.root \ {id}
        /\ \A sv \in DOMAIN y.root : y.root[sv] = x.root[sv]
    BY DEF RootGone
  <1>2. Typed(x)
    BY ShapedTyped
  <1>3. V!MemRoots(y) = {} /\ V!DiskRoots(y) = V!DiskRoots(x) \ {id}
    BY <1>1 DEF V!MemRoots, V!DiskRoots
  <1>4. V!Nodes(y) \subseteq V!Nodes(x)
    <2>1. ASSUME NEW r \in V!Nodes(y) PROVE r \in V!Nodes(x)
      <3>1. PICK sv \in V!DiskRoots(y) : r = y.root[sv][2]
        BY DEF V!Nodes
      <3>2. sv \in V!DiskRoots(x) /\ sv \in DOMAIN y.root
        BY <1>3 DEF V!DiskRoots
      <3> QED
        BY <1>1, <3>1, <3>2 DEF V!Nodes
    <2> QED
      BY <2>1
  <1>5. Typed(y)
    BY <1>1, <1>2, <1>4 DEF Typed
  <1>6. \A r : r \in V!Nodes(y) <=> \E sv \in DOMAIN x.root : sv # id /\ x.root[sv] = <<"disk", r>>
    <2>1. \A r : r \in V!Nodes(y) <=> \E sv \in DOMAIN y.root : y.root[sv] = <<"disk", r>>
      BY <1>5, NodesAre
    <2> QED
      BY <1>1, <2>1
  <1>7. \A l : l \in V!Leaves(y) <=> \E r \in V!Nodes(y) : \E p \in Pos : l = x.disk[r][2][p]
    BY <1>1, <1>3, <1>5, LeavesAre
  <1>8. V!Leaves(y) \subseteq V!Leaves(x)
    BY <1>2, <1>4, <1>7, LeafOfNode
  <1>9. V!MemLeaves(y) = {}
    BY <1>3 DEF V!MemLeaves
  <1>10. Shaped(y)
    <2>1. /\ y.rt \in {<<"mem", None>>} \cup ({"disk"} \X Blocks)
          /\ y.rt[1] = "disk" => y.disk[y.rt[2]] = <<"roots", None>>
      BY <1>1 DEF Shaped
    <2>2. \A q \in V!Nodes(y) : \A p1, p2 \in Pos : y.disk[q][2][p1] = y.disk[q][2][p2] => p1 = p2
      BY <1>1, <1>4 DEF Shaped
    <2>3. \A l \in V!Leaves(y) :
             y.disk[l] \in {"leaf"} \X (Blocks \cup {None}) /\ Extent(y, y.disk[l][2])
      BY <1>1, <1>8 DEF Shaped, Extent
    <2> QED
      BY <1>3, <1>5, <1>9, <2>1, <2>2, <2>3 DEF Shaped
  <1> QED
    BY <1>3, <1>4, <1>6, <1>7, <1>8, <1>10 DEF Staying

\* A block of a tree is counted once if e is all that points at it.
LEMMA OnlyPointer ==
    ASSUME V!VolumeConstants, NEW x, Sound(x, None), NEW e \in V!Pointers(x), e[4] \in Blocks,
           x.disk[e[4]][1] # "data"
    PROVE  x.refs[e[4]] = 1 <=> \A f \in V!Pointers(x) : f[4] = e[4] => f = e
  <1>1. IsFiniteSet(V!Pointers(x))
    BY PointersFinite, SoundHits
  <1>2. PICK b : b = e[4]
    OBVIOUS
  <1>3. PICK S : S = {f \in V!Pointers(x) : f[4] = b}
    OBVIOUS
  <1>4. IsFiniteSet(S) /\ e \in S
    BY <1>1, <1>2, <1>3, FS_Subset
  <1>5. Cardinality(S) \in Nat /\ (Cardinality(S) > 1 <=> S # {e})
    BY <1>4, AloneIs
  <1>6. Cardinality(S) # 0
    BY <1>4, FS_EmptySet
  <1>7. x.refs[b] = Cardinality(S)
    <2>1. x.refs[b] = V!Count(V!Pointers(x), b) + Extra(x, None, b)
      BY <1>2 DEF Sound, Exact
    <2>2. V!Count(V!Pointers(x), b) = Cardinality(S)
      BY <1>3, CountIs
    <2>3. Extra(x, None, b) = 0
      BY <1>2, SoundLeaks
    <2> QED
      BY <1>5, <2>1, <2>2, <2>3
  <1>8. S = {e} <=> \A f \in V!Pointers(x) : f[4] = b => f = e
    BY <1>2, <1>3
  <1> QED
    BY <1>2, <1>5, <1>6, <1>7, <1>8

\* The pointers that go with the root of id, and what is left.
Below(x, r) ==
    {<<"node", r, p, x.disk[r][2][p]>> : p \in Pos}
    \cup {<<"leaf", l, 0, x.disk[l][2]>> : l \in {k \in V!Range(x.disk[r][2]) : x.refs[k] = 1}}
Going(x, r) == IF x.refs[r] = 1 THEN Below(x, r) ELSE {}

\* The pointers of a root and of the leaves nobody else points at.
LEMMA BelowIs ==
    ASSUME NEW x, NEW r, x.disk[r] \in {"node"} \X [Pos -> Blocks], NEW e
    PROVE  e \in Below(x, r) <=>
             \/ \E p \in Pos : e = <<"node", r, p, x.disk[r][2][p]>>
             \/ \E l : /\ \E p \in Pos : l = x.disk[r][2][p]
                       /\ x.refs[l] = 1 /\ e = <<"leaf", l, 0, x.disk[l][2]>>
  <1>1. PICK f : f = x.disk[r][2]
    OBVIOUS
  <1>2. f \in [Pos -> Blocks]
    BY <1>1
  <1>3. \A l : l \in V!Range(f) <=> \E p \in Pos : l = f[p]
    BY <1>2 DEF V!Range
  <1>4. PICK G : G = {k \in V!Range(f) : x.refs[k] = 1}
    OBVIOUS
  <1>5. Below(x, r) = {<<"node", r, p, f[p]>> : p \in Pos} \cup {<<"leaf", l, 0, x.disk[l][2]>> : l \in G}
    BY <1>1, <1>4 DEF Below
  <1>6. \A l : l \in G <=> x.refs[l] = 1 /\ \E p \in Pos : l = f[p]
    BY <1>3, <1>4
  <1> QED
    BY <1>1, <1>5, <1>6, Zenon

\* What the tables say of a tree is so: they are exact.
LEMMA GonePointers ==
    ASSUME V!VolumeConstants, NEW x, Sound(x, None), V!MemRoots(x) = {}, NEW id \in DOMAIN x.root,
           NEW r, x.root[id] = <<"disk", r>>, NEW y, RootGone(x, y, id)
    PROVE  /\ Going(x, r) \subseteq V!Pointers(x)
           /\ V!Pointers(y) = V!Pointers(x) \ (Going(x, r) \cup {<<"root", id, 0, r>>})
  <1>1. Shaped(x) /\ Typed(x)
    BY SoundHits
  <1>2. /\ y.disk = x.disk /\ y.rt = x.rt /\ DOMAIN y.root = DOMAIN x.root \ {id}
        /\ \A sv \in DOMAIN y.root : y.root[sv] = x.root[sv]
    BY DEF RootGone
  <1>3. /\ V!MemRoots(y) = {} /\ V!DiskRoots(y) = V!DiskRoots(x) \ {id}
        /\ V!Nodes(y) \subseteq V!Nodes(x) /\ V!Leaves(y) \subseteq V!Leaves(x)
        /\ \A q : q \in V!Nodes(y) <=> \E sv \in DOMAIN x.root : sv # id /\ x.root[sv] = <<"disk", q>>
        /\ \A l : l \in V!Leaves(y) <=> \E q \in V!Nodes(y) : \E p \in Pos : l = x.disk[q][2][p]
    <2>1. Staying(x, y, id)
      BY <1>1, FewerRoots
    <2> QED
      BY <2>1 DEF Staying
  <1>4. id \in V!DiskRoots(x) /\ r \in V!Nodes(x) /\ r \in Blocks
    BY <1>1, NodesAre
  <1>5. x.disk[r] \in {"node"} \X [Pos -> Blocks]
    BY <1>1, <1>4 DEF Typed
  <1>6. \A p \in Pos : x.disk[r][2][p] \in Blocks /\ x.disk[r][2][p] \in V!Leaves(x)
    BY <1>1, <1>4, <1>5, LeafOfNode
  <1>7. \A q \in V!Nodes(x) : q \in V!Nodes(y) \/ q = r
    <2>1. \A q : q \in V!Nodes(x) <=> \E sv \in DOMAIN x.root : x.root[sv] = <<"disk", q>>
      BY <1>1, NodesAre
    <2> QED
      BY <1>3, <2>1
  <1>8. r \notin V!Nodes(y) <=> x.refs[r] = 1
    <2>1. <<"root", id, 0, r>> \in V!Pointers(x)
      BY <1>4, PointersAre
    <2>2. x.refs[r] = 1 <=> \A f \in V!Pointers(x) : f[4] = r => f = <<"root", id, 0, r>>
      <3>1. x.disk[r][1] # "data"
        BY <1>5
      <3> QED
        BY <1>4, <2>1, <3>1, OnlyPointer
    <2>3. ASSUME r \in V!Nodes(y) PROVE \E f \in V!Pointers(x) : f[4] = r /\ f # <<"root", id, 0, r>>
      <3>1. PICK sv \in DOMAIN x.root : sv # id /\ x.root[sv] = <<"disk", r>>
        BY <1>3, <2>3
      <3>2. sv \in V!DiskRoots(x)
        BY <3>1 DEF V!DiskRoots
      <3>3. <<"root", sv, 0, r>> \in V!Pointers(x)
        BY <3>1, <3>2, PointersAre
      <3> QED
        BY <3>1, <3>3
    <2>4. ASSUME NEW f \in V!Pointers(x), f[4] = r, f # <<"root", id, 0, r>>
          PROVE  r \in V!Nodes(y)
      <3>1. x.disk[r][1] = "node" /\ r # None
        BY <1>4, <1>5 DEF V!VolumeConstants
      <3>2. x.rt[2] # r
        BY <1>1, <3>1, TagsTell
      <3>3. \A q \in V!Nodes(x) : \A p \in Pos : x.disk[q][2][p] # r
        BY <1>1, <3>1, LeafOfNode, TagsTell
      <3>4. \A l \in V!Leaves(x) : x.disk[l][2] # r
        BY <1>1, <3>1, TagsTell
      <3>5. PICK sv \in V!DiskRoots(x) : f = <<"root", sv, 0, x.root[sv][2]>>
        BY <2>4, <3>2, <3>3, <3>4, PointersAre
      <3>6. sv # id /\ sv \in DOMAIN x.root /\ x.root[sv] = <<"disk", r>>
        BY <1>1, <2>4, <3>5, NodesAre
      <3> QED
        BY <1>3, <3>6
    <2> QED
      BY <2>2, <2>3, <2>4
  <1>9. ASSUME x.refs[r] = 1, NEW p \in Pos
        PROVE  x.disk[r][2][p] \notin V!Leaves(y) <=> x.refs[x.disk[r][2][p]] = 1
    <2>1. PICK l : l = x.disk[r][2][p]
      OBVIOUS
    <2>2. l \in Blocks /\ l \in V!Leaves(x)
      BY <1>6, <2>1
    <2>3. PICK e : e = <<"node", r, p, l>>
      OBVIOUS
    <2>4. e \in V!Pointers(x) /\ e[4] = l
      BY <1>4, <2>1, <2>3, PointersAre
    <2>5. x.refs[l] = 1 <=> \A f \in V!Pointers(x) : f[4] = l => f = e
      <3>1. x.disk[l][1] = "leaf"
        BY <1>1, <2>2, TagsTell
      <3> QED
        BY <2>2, <2>4, <3>1, OnlyPointer
    <2>6. ASSUME l \in V!Leaves(y) PROVE \E f \in V!Pointers(x) : f[4] = l /\ f # e
      <3>1. PICK q \in V!Nodes(y) : \E o \in Pos : l = x.disk[q][2][o]
        BY <1>3, <2>6
      <3>2. PICK o \in Pos : l = x.disk[q][2][o]
        BY <3>1
      <3>3. q # r /\ q \in V!Nodes(x)
        BY <1>3, <1>8, <1>9
      <3>4. <<"node", q, o, l>> \in V!Pointers(x)
        BY <3>2, <3>3, PointersAre
      <3> QED
        BY <2>3, <3>3, <3>4
    <2>7. ASSUME NEW f \in V!Pointers(x), f[4] = l, f # e PROVE l \in V!Leaves(y)
      <3>1. x.disk[l][1] = "leaf" /\ l # None
        BY <1>1, <2>2, TagsTell DEF V!VolumeConstants
      <3>2. x.rt[2] # l
        BY <1>1, <3>1, TagsTell
      <3>3. \A sv \in V!DiskRoots(x) : x.root[sv][2] # l
        <4>1. \A q \in V!Nodes(x) : q # l
          BY <1>1, <3>1, TagsTell
        <4> QED
          BY <4>1 DEF V!Nodes
      <3>4. \A k \in V!Leaves(x) : x.disk[k][2] # l
        BY <1>1, <3>1, TagsTell
      <3>5. PICK q \in V!Nodes(x) : \E o \in Pos : f = <<"node", q, o, x.disk[q][2][o]>>
        BY <2>7, <3>2, <3>3, <3>4, PointersAre
      <3>6. PICK o \in Pos : f = <<"node", q, o, x.disk[q][2][o]>>
        BY <3>5
      <3>7. x.disk[q][2][o] = l
        BY <2>7, <3>6
      <3>8. q # r
        <4>1. ASSUME q = r PROVE FALSE
          <5>1. o = p
            BY <1>1, <1>4, <2>1, <3>7, <4>1 DEF Shaped
          <5> QED
            BY <2>3, <2>7, <3>6, <3>7, <4>1, <5>1
        <4> QED
          BY <4>1
      <3>9. q \in V!Nodes(y)
        BY <1>7, <3>8
      <3> QED
        BY <1>3, <3>7, <3>9
    <2> QED
      BY <2>1, <2>5, <2>6, <2>7
  <1>10. CASE x.refs[r] = 1
    <2>1. Going(x, r) = Below(x, r) /\ r \notin V!Nodes(y)
      BY <1>8, <1>10 DEF Going
    <2>2. \A e : e \in Below(x, r) <=>
             \/ \E p \in Pos : e = <<"node", r, p, x.disk[r][2][p]>>
             \/ \E l : /\ \E p \in Pos : l = x.disk[r][2][p]
                       /\ x.refs[l] = 1 /\ e = <<"leaf", l, 0, x.disk[l][2]>>
      BY <1>5, BelowIs
    <2>3. ASSUME NEW e \in Below(x, r) PROVE e \in V!Pointers(x)
      <3>1. CASE \E p \in Pos : e = <<"node", r, p, x.disk[r][2][p]>>
        BY <1>4, <3>1, PointersAre
      <3>2. CASE \E l : /\ \E p \in Pos : l = x.disk[r][2][p]
                        /\ x.refs[l] = 1 /\ e = <<"leaf", l, 0, x.disk[l][2]>>
        <4>1. \E l \in V!Leaves(x) : e = <<"leaf", l, 0, x.disk[l][2]>>
          BY <1>6, <3>2
        <4> QED
          BY <4>1, PointersAre
      <3> QED
        BY <2>2, <3>1, <3>2
    <2>4. ASSUME NEW l PROVE l \in V!Leaves(y) <=>
              l \in V!Leaves(x) /\ ~(x.refs[l] = 1 /\ \E p \in Pos : l = x.disk[r][2][p])
      <3>1. l \in V!Leaves(x) => l \in V!Leaves(y) \/ \E p \in Pos : l = x.disk[r][2][p]
        <4>1. ASSUME l \in V!Leaves(x)
              PROVE  \E q \in V!Nodes(x) : \E p \in Pos : l = x.disk[q][2][p]
          BY <1>1, <4>1, LeafFrom
        <4> QED
          BY <1>3, <1>7, <4>1
      <3> QED
        BY <1>3, <1>9, <1>10, <3>1
    <2>5. \A q : q \in V!Nodes(y) <=> q \in V!Nodes(x) /\ q # r
      BY <1>3, <1>7, <2>1
    <2>6. ASSUME NEW e
          PROVE  e \in V!Pointers(y) <=> e \in V!Pointers(x) /\ e \notin Below(x, r)
                                         /\ e # <<"root", id, 0, r>>
      <3>1. ASSUME e \in V!Pointers(y)
            PROVE  e \in V!Pointers(x) /\ e \notin Below(x, r) /\ e # <<"root", id, 0, r>>
        <4>1. CASE e = <<"roots", 0, 0, y.rt[2]>>
          BY <1>2, <2>2, <4>1, PointersAre
        <4>2. CASE \E sv \in V!DiskRoots(y) : e = <<"root", sv, 0, y.root[sv][2]>>
          <5>1. PICK sv \in V!DiskRoots(y) : e = <<"root", sv, 0, y.root[sv][2]>>
            BY <4>2
          <5>2. sv # id /\ sv \in V!DiskRoots(x) /\ y.root[sv] = x.root[sv]
            BY <1>2, <1>3 DEF V!DiskRoots
          <5> QED
            BY <2>2, <5>1, <5>2, PointersAre
        <4>3. CASE \E q \in V!Nodes(y) : \E p \in Pos : e = <<"node", q, p, y.disk[q][2][p]>>
          BY <1>2, <2>2, <2>5, <4>3, PointersAre
        <4>4. CASE \E l \in V!Leaves(y) : e = <<"leaf", l, 0, y.disk[l][2]>>
          BY <1>2, <2>2, <2>4, <4>4, PointersAre
        <4> QED
          BY <1>3, <3>1, <4>1, <4>2, <4>3, <4>4, PointersAre
      <3>2. ASSUME e \in V!Pointers(x), e \notin Below(x, r), e # <<"root", id, 0, r>>
            PROVE  e \in V!Pointers(y)
        <4>1. CASE e = <<"roots", 0, 0, x.rt[2]>>
          BY <1>2, <4>1, PointersAre
        <4>2. CASE \E sv \in V!DiskRoots(x) : e = <<"root", sv, 0, x.root[sv][2]>>
          <5>1. PICK sv \in V!DiskRoots(x) : e = <<"root", sv, 0, x.root[sv][2]>>
            BY <4>2
          <5>2. sv # id
            BY <3>2, <5>1
          <5>3. sv \in V!DiskRoots(y) /\ sv \in DOMAIN y.root
            BY <1>3, <5>2 DEF V!DiskRoots
          <5>4. y.root[sv] = x.root[sv]
            BY <1>2, <5>3
          <5> QED
            BY <5>1, <5>3, <5>4, PointersAre
        <4>3. CASE \E q \in V!Nodes(x) : \E p \in Pos : e = <<"node", q, p, x.disk[q][2][p]>>
          BY <1>2, <2>2, <2>5, <3>2, <4>3, PointersAre
        <4>4. CASE \E l \in V!Leaves(x) : e = <<"leaf", l, 0, x.disk[l][2]>>
          BY <1>2, <2>2, <2>4, <3>2, <4>4, PointersAre
        <4> QED
          BY <3>2, <4>1, <4>2, <4>3, <4>4, PointersAre
      <3> QED
        BY <3>1, <3>2
    <2> QED
      BY <2>1, <2>3, <2>6
  <1>11. CASE x.refs[r] # 1
    <2>1. Going(x, r) = {} /\ r \in V!Nodes(y)
      BY <1>8, <1>11 DEF Going
    <2>2. V!Nodes(y) = V!Nodes(x)
      BY <1>3, <1>7, <2>1
    <2>3. \A l : l \in V!Leaves(y) <=> l \in V!Leaves(x)
      <3>1. ASSUME NEW l \in V!Leaves(x)
            PROVE  \E q \in V!Nodes(x) : \E p \in Pos : l = x.disk[q][2][p]
        BY <1>1, LeafFrom
      <3> QED
        BY <1>3, <2>2, <3>1
    <2>4. ASSUME NEW e
          PROVE  e \in V!Pointers(y) <=> e \in V!Pointers(x) /\ e # <<"root", id, 0, r>>
      <3>1. (\E sv \in V!DiskRoots(y) : e = <<"root", sv, 0, y.root[sv][2]>>)
            <=> (\E sv \in V!DiskRoots(x) : e = <<"root", sv, 0, x.root[sv][2]>>)
                /\ e # <<"root", id, 0, r>>
        <4>1. \A sv \in V!DiskRoots(y) : y.root[sv] = x.root[sv]
          BY <1>2 DEF V!DiskRoots
        <4>2. x.root[id][2] = r
          OBVIOUS
        <4> QED
          BY <1>3, <4>1, <4>2
      <3> QED
        BY <1>2, <1>3, <2>2, <2>3, <3>1, PointersAre
    <2> QED
      BY <2>1, <2>4
  <1> QED
    BY <1>10, <1>11

\* Everything but id is read as before.
FilesGone(x, y, id) ==
    /\ DOMAIN y.root = DOMAIN x.root \ {id}
    /\ \A u \in DOMAIN y.root : \A p \in Pos : Holds(y, u, p) = Holds(x, u, p)

\* The roots that stay are read as they were, whatever is counted.
LEMMA GoneReads ==
    ASSUME NEW x, NEW y, NEW z, NEW id, RootGone(x, y, id), SameTrees(y, z)
    PROVE  FilesGone(x, z, id)
  <1>1. /\ z.disk = x.disk /\ DOMAIN z.root = DOMAIN x.root \ {id}
        /\ \A sv \in DOMAIN z.root : z.root[sv] = x.root[sv]
    BY DEF RootGone, SameTrees
  <1>2. ASSUME NEW u \in DOMAIN z.root, NEW p \in Pos PROVE Holds(z, u, p) = Holds(x, u, p)
    BY <1>1, HoldsSame
  <1> QED
    BY <1>1, <1>2 DEF FilesGone

\* Exactly the references of the pointers that go are released.
LEMMA DropTreeSound ==
    ASSUME V!VolumeConstants, NEW x, Sound(x, None), V!MemRoots(x) = {}, NEW id \in DOMAIN x.root,
           NEW r, x.root[id] = <<"disk", r>>, NEW y, DOMAIN y = WriterFields, SameTables(x, y),
           RootGone(x, y, id), x.rt[1] = "mem", NEW z, z = V!DropTree(y, r)
    PROVE  Sound(z, None) /\ V!Dirty(z) /\ FilesGone(x, z, id)
  <1>1. Shaped(x) /\ Typed(x) /\ Tables(x) /\ None \notin Blocks
    BY SoundHits
  <1>2. y.disk = x.disk /\ y.refs = x.refs
    BY DEF RootGone, SameTables
  <1>3. id \in V!DiskRoots(x) /\ r \in V!Nodes(x) /\ r \in Blocks
    BY <1>1, NodesAre
  <1>4. PICK E : E = V!Pointers(x)
    OBVIOUS
  <1>5. PICK G : G = Going(x, r)
    OBVIOUS
  <1>6. PICK a : a = <<"root", id, 0, r>>
    OBVIOUS
  <1>7. PICK c : c = <<"root", 0, 0, r>>
    OBVIOUS
  <1>8. PICK Lost : Lost = {c} \cup G
    OBVIOUS
  <1>9. z = V!Release(y, [b \in Blocks |-> V!Count(Lost, b)])
    <2>1. Lost = {<<"root", 0, 0, r>>}
                 \cup (IF y.refs[r] = 1
                       THEN {<<"node", r, p, y.disk[r][2][p]>> : p \in Pos}
                            \cup {<<"leaf", l, 0, y.disk[l][2]>> :
                                     l \in {k \in V!Range(y.disk[r][2]) : y.refs[k] = 1}}
                       ELSE {})
      BY <1>2, <1>5, <1>7, <1>8 DEF Going, Below
    <2> QED
      BY <2>1 DEF V!DropTree
  <1>10. IsFiniteSet(E)
    BY <1>1, <1>4, PointersFinite
  <1>11. G \subseteq E /\ a \in E
    BY <1>3, <1>4, <1>5, <1>6, GonePointers, PointersAre
  <1>12. V!Pointers(y) = E \ (G \cup {a})
    BY <1>4, <1>5, <1>6, GonePointers
  <1>13. a \notin G /\ c \notin G
    <2>1. x.disk[r] \in {"node"} \X [Pos -> Blocks]
      BY <1>1, <1>3 DEF Typed
    <2>2. \A e \in Below(x, r) : e[1] = "node" \/ e[1] = "leaf"
      BY <2>1, BelowIs
    <2>3. \A e \in G : e[1] # "root"
      BY <1>5, <2>2 DEF Going
    <2> QED
      BY <1>6, <1>7, <2>3
  <1>14. IsFiniteSet(G) /\ IsFiniteSet(G \cup {a}) /\ IsFiniteSet(Lost)
    <2>1. IsFiniteSet(G)
      BY <1>10, <1>11, FS_Subset
    <2> QED
      BY <1>8, <2>1, FS_AddElement
  <1>15. ASSUME NEW b \in Blocks
         PROVE  /\ V!Count(Lost, b) = V!Count(G \cup {a}, b) /\ V!Count(Lost, b) \in Nat
                /\ V!Count(V!Pointers(y), b) = V!Count(E, b) - V!Count(Lost, b)
                /\ V!Count(V!Pointers(y), b) \in Nat /\ V!Count(E, b) \in Nat
                /\ x.refs[b] = V!Count(E, b) + Extra(x, None, b) /\ Extra(x, None, b) \in Nat
    <2>1. /\ V!Count({c}, b) = IF r = b THEN 1 ELSE 0
          /\ V!Count({a}, b) = IF r = b THEN 1 ELSE 0
          /\ IsFiniteSet({a}) /\ IsFiniteSet({c})
      <3>1. a[4] = r /\ c[4] = r
        BY <1>6, <1>7
      <3> QED
        BY <3>1, CountOne
    <2>2. V!Count({c} \cup G, b) = V!Count({c}, b) + V!Count(G, b)
      <3>1. {c} \cap G = {}
        BY <1>13
      <3> QED
        BY <1>14, <2>1, <3>1, CountUnion
    <2>3. V!Count({a} \cup G, b) = V!Count({a}, b) + V!Count(G, b)
      <3>1. {a} \cap G = {}
        BY <1>13
      <3> QED
        BY <1>14, <2>1, <3>1, CountUnion
    <2>4. V!Count(Lost, b) = V!Count(G \cup {a}, b)
      <3>1. {a} \cup G = G \cup {a}
        OBVIOUS
      <3>2. V!Count(Lost, b) = V!Count({c}, b) + V!Count(G, b)
        BY <1>8, <2>2
      <3> QED
        BY <2>1, <2>3, <3>1, <3>2
    <2>5. PICK H : H = G \cup {a}
      OBVIOUS
    <2>6. V!Count(V!Pointers(y), b) = V!Count(E, b) - V!Count(H, b) + V!Count({}, b)
      <3>1. H \subseteq E /\ IsFiniteSet({}) /\ {} \cap (E \ H) = {}
            /\ V!Pointers(y) = (E \ H) \cup {}
        BY <1>11, <1>12, <2>5, FS_EmptySet
      <3> QED
        BY <1>10, <3>1, CountMoved
    <2>7. V!Count({}, b) = 0 /\ V!Count(H, b) \in Nat /\ V!Count(E, b) \in Nat
      BY <1>10, <1>14, <2>5, CountNat, FS_EmptySet
    <2>8. V!Count(V!Pointers(y), b) \in Nat
      <3>1. IsFiniteSet(V!Pointers(y))
        BY <1>10, <1>12, FS_Subset
      <3> QED
        BY <3>1, CountNat
    <2>9. x.refs[b] = V!Count(E, b) + Extra(x, None, b) /\ Extra(x, None, b) \in Nat
      <3>1. x.refs[b] = V!Count(V!Pointers(x), b) + Extra(x, None, b)
        BY DEF Sound, Exact
      <3> QED
        BY <1>4, <3>1, SoundLeaks
    <2> QED
      BY <2>4, <2>5, <2>6, <2>7, <2>8, <2>9
  <1>16. PICK n : n = [b \in Blocks |-> V!Count(Lost, b)]
    OBVIOUS
  <1>17. n \in [Blocks -> Nat] /\ \A b \in Blocks : n[b] = V!Count(Lost, b) /\ n[b] <= y.refs[b]
    BY <1>2, <1>15, <1>16
  <1>18. Tables(y)
    BY <1>1, <1>2 DEF Tables, SameTables
  <1>19. /\ DOMAIN z = WriterFields /\ SameTrees(y, z) /\ SameRest(y, z)
         /\ Tables(z) /\ \A b \in Blocks : z.refs[b] = y.refs[b] - n[b]
    BY <1>1, <1>9, <1>16, <1>17, <1>18, ReleaseTables
  <1>20. Shaped(y)
    BY <1>1, FewerRoots
  <1>21. Shaped(z) /\ \A b : Hits(z, b) = Hits(y, b)
    BY <1>19, <1>20, TreesOnly
  <1>25. Leaky(z) /\ \A b : Extra(z, None, b) = Extra(x, None, b)
    <2>1. z.leaked = x.leaked /\ z.disk = x.disk
      BY <1>2, <1>19 DEF SameTables, SameRest, SameTrees
    <2> QED
      BY <2>1, SoundLeaks, LeaksStay
  <1>22. \A b \in Blocks : z.refs[b] = Hits(z, b) + Extra(z, None, b)
    <2>1. ASSUME NEW b \in Blocks PROVE z.refs[b] = Hits(z, b) + Extra(z, None, b)
      <3>1. Typed(y)
        BY <1>20, ShapedTyped
      <3>2. V!Count(V!Pointers(y), b) = Hits(z, b)
        BY <1>21, <3>1, CountSum
      <3>3. z.refs[b] = V!Count(E, b) + Extra(x, None, b) - V!Count(Lost, b)
        BY <1>2, <1>15, <1>17, <1>19
      <3>4. z.refs[b] = Hits(z, b) + Extra(x, None, b)
        BY <1>15, <3>2, <3>3
      <3> QED
        BY <1>25, <3>4
    <2> QED
      BY <2>1
  <1>23. V!Dirty(z)
    BY <1>19 DEF SameTrees, RootGone, V!Dirty
  <1>24. FilesGone(x, z, id)
    BY <1>19, GoneReads
  <1> QED
    BY <1>19, <1>21, <1>22, <1>23, <1>24, <1>25, SoundFrom DEF Extent

\* What a deletion commits.
Deletes(x, y, id) ==
    y = [V!TouchRoots(x) EXCEPT !.root = V!Restrict(@, DOMAIN @ \ {id}), !.ro = @ \ {id}]

\* A deletion, from the copy of the tree of subvolumes on.
LEMMA DeleteSound ==
    ASSUME V!VolumeConstants, NEW x, Sound(x, None), V!MemRoots(x) = {}, NEW id \in DOMAIN x.root,
           NEW y, Deletes(x, y, id),
           NEW z, z = V!DropTree(y, x.root[id][2])
    PROVE  Sound(z, None) /\ V!Dirty(z) /\ FilesGone(x, z, id)
  <1>1. PICK u : u = V!TouchRoots(x)
    OBVIOUS
  <1>2. Sound(u, None) /\ u.root = x.root /\ u.rt = <<"mem", None>>
    BY <1>1, TouchRootsSound
  <1>3. DOMAIN u = WriterFields /\ Typed(u)
    BY <1>2, SoundHits
  <1>4. V!MemRoots(u) = {}
    BY <1>2 DEF V!MemRoots
  <1>5. PICK r : r = x.root[id][2]
    OBVIOUS
  <1>6. u.root[id] = <<"disk", r>>
    BY <1>2, <1>3, <1>4, <1>5, NodesAre
  <1>7. PICK m : m = V!Restrict(u.root, DOMAIN u.root \ {id})
    OBVIOUS
  <1>8. PICK o : o = u.ro \ {id}
    OBVIOUS
  <1>9. y = [u EXCEPT !.root = m, !.ro = o]
    BY <1>1, <1>3, <1>7, <1>8 DEF Deletes, WriterFields
  <1>10. /\ DOMAIN y = WriterFields /\ y.disk = u.disk /\ y.refs = u.refs /\ y.free = u.free
         /\ y.fresh = u.fresh /\ y.pinned = u.pinned /\ y.dedup = u.dedup /\ y.rt = u.rt
         /\ y.root = m /\ y.leaked = u.leaked
    BY <1>3, <1>9 DEF WriterFields
  <1>11. DOMAIN m = DOMAIN u.root \ {id} /\ \A sv \in DOMAIN m : m[sv] = u.root[sv]
    BY <1>7 DEF V!Restrict
  <1>12. RootGone(u, y, id) /\ SameTables(u, y)
    BY <1>10, <1>11 DEF RootGone, SameTables
  <1>13. z = V!DropTree(y, r) /\ id \in DOMAIN u.root /\ u.rt[1] = "mem"
    BY <1>2, <1>5
  <1>14. Sound(z, None) /\ V!Dirty(z) /\ FilesGone(u, z, id)
    BY <1>2, <1>4, <1>6, <1>10, <1>12, <1>13, DropTreeSound
  <1>15. FilesGone(x, z, id)
    <2>1. SameRoots(x, u)
      BY <1>1, TouchRootsSound DEF Keeps, SameRoots
    <2>2. \A sv, p : Holds(u, sv, p) = Holds(x, sv, p)
      BY <2>1, HoldsAll
    <2> QED
      BY <1>2, <1>14, <2>2 DEF FilesGone
  <1> QED
    BY <1>14, <1>15

-----------------------------------------------------------------------------
(* The steps of the volume keep its invariant.                             *)

\* Only the description of the volume is changed, its trees stay.
LEMMA RestChanged ==
    ASSUME V!VolumeConstants, NEW x, Sound(x, None), NEW y, DOMAIN y = WriterFields,
           SameTrees(x, y), SameTables(x, y), x.rt = <<"mem", None>>
    PROVE  Sound(y, None) /\ Spare(y) = Spare(x) /\ Within(x, y) /\ V!Dirty(y)
  <1>1. y.rt[1] = "mem"
    BY DEF SameTrees
  <1>2. V!Dirty(y)
    BY <1>1 DEF V!Dirty
  <1>3. Sound(y, None) /\ Spare(y) = Spare(x) /\ Within(x, y)
    BY RestOnly
  <1> QED
    BY <1>2, <1>3

\* A mount of what the superblock leads to finds what it would have found.
SameMount(s, x, y) == SameFiles(V!Mounted(s, x.disk), V!Mounted(s, y.disk))

\* The extent of a window: b, shared with an identical one or in a block of its own.
Extends(x, v, b, d) ==
    \/ b = x.dedup[d] /\ b # None /\ v = V!Incref(x, b)
    \/ b \in x.free /\ Stores(x, v, b, d)

\* What a write stores, as the writer does.
LEMMA WindowStored ==
    ASSUME NEW d, NEW share, V!Shares(d, share) \/ w.free # {},
           NEW b, b = V!Target(d, share), NEW v, v = V!Stored(d, share)
    PROVE  Extends(w, v, b, d)
  <1>2. CASE V!Shares(d, share)
    <2>1. b = w.dedup[d] /\ b # None
      BY <1>2 DEF V!Target, V!Shares
    <2>2. v = V!Incref(w, b)
      BY <1>2 DEF V!Stored
    <2> QED
      BY <2>1, <2>2 DEF Extends
  <1>3. CASE ~V!Shares(d, share)
    <2>1. b \in w.free
      BY <1>3 DEF V!Target
    <2>2. v = [V!Alloc(w, b, <<"data", d>>) EXCEPT !.dedup[d] = IF @ = None THEN b ELSE @]
      BY <1>3 DEF V!Stored
    <2> QED
      BY <2>1, <2>2 DEF Extends, Stores
  <1> QED
    BY <1>2, <1>3

\* It is counted once more than it is pointed at.
LEMMA ExtentSound ==
    ASSUME V!VolumeConstants, NEW x, Sound(x, None), NEW d \in Data, NEW b, NEW v,
           Extends(x, v, b, d)
    PROVE  /\ Sound(v, b) /\ Within(x, v) /\ Resting(x, v) /\ b \in Blocks
           /\ SameFiles(x, v) /\ V!Bytes(v.disk, b) = d
  <1>1. Tables(x)
    BY SoundHits
  <1>2. CASE b = x.dedup[d] /\ b # None /\ v = V!Incref(x, b)
    <2>1. b \in Blocks
      BY <1>1, <1>2 DEF Tables
    <2> QED
      BY <1>2, <2>1, HitSound
  <1>3. CASE b \in x.free /\ Stores(x, v, b, d)
    <2>1. b \in Blocks
      BY <1>1, <1>3 DEF Tables
    <2> QED
      BY <1>3, <2>1, StoreSound
  <1> QED
    BY <1>2, <1>3 DEF Extends

\* A window stored, or shared with an identical extent.
LEMMA WriteSound ==
    ASSUME V!VolumeConstants, NEW x, NEW s, VolumeSound(x, s), NEW sv \in DOMAIN x.root,
           NEW p \in Pos, NEW d \in Data, NEW b, NEW v, Extends(x, v, b, d),
           NEW y, y = V!Replace(v, sv, p, b)
    PROVE  VolumeSound(y, s) /\ FileBecomes(x, y, sv, p, d) /\ SameMount(s, x, y)
  <1>1. Sound(x, None) /\ SavedSound(s, x)
    BY DEF VolumeSound
  <1>2. /\ Sound(v, b) /\ Within(x, v) /\ DOMAIN v.root = DOMAIN x.root
        /\ SameFiles(x, v) /\ V!Bytes(v.disk, b) = d
    BY <1>1, ExtentSound DEF Resting
  <1>3. /\ Sound(y, None) /\ Keeps(v, y) /\ sv \in V!MemRoots(y)
        /\ FileBecomes(v, y, sv, p, d)
    BY <1>2, ReplaceSound
  <1>4. Within(x, y)
    BY <1>2, <1>3, KeepsWithin, WithinTwice
  <1>5. SavedSound(s, y) /\ SameMount(s, x, y)
    BY <1>1, <1>4, SavedKept DEF SameMount
  <1>6. V!Dirty(y)
    BY <1>3 DEF V!Dirty
  <1>7. FileBecomes(x, y, sv, p, d)
    BY <1>2, <1>3, FileBecomesThen
  <1> QED
    BY <1>3, <1>5, <1>6, <1>7 DEF VolumeSound

\* What a write that fails leaves to the writer: the files, and a volume that a
\* mount finds as before.
Fails(x, s, y) == VolumeSound(y, s) /\ SameFiles(x, y) /\ SameMount(s, x, y)

\* An extent that no leaf will have stays counted.
LEMMA LeakSound ==
    ASSUME V!VolumeConstants, NEW x, NEW b \in Blocks, Sound(x, b), NEW y, y = V!Leak(x, b)
    PROVE  Sound(y, None) /\ Within(x, y) /\ Resting(x, y) /\ SameFiles(x, y)
  <1>1. /\ DOMAIN x = WriterFields /\ Shaped(x) /\ Tables(x) /\ Extent(x, b) /\ None \notin Blocks
        /\ \A c \in Blocks : /\ x.refs[c] \in Nat /\ Hits(x, c) \in Nat
                             /\ x.refs[c] = Hits(x, c) + Extra(x, b, c)
    BY SoundHits
  <1>2. Leaky(x)
    BY SoundLeaks
  <1>3. PICK f : f = [x.leaked EXCEPT ![b] = @ + 1]
    OBVIOUS
  <1>4. y = [x EXCEPT !.leaked = f]
    BY <1>1, <1>3 DEF V!Leak, WriterFields
  <1>5. /\ DOMAIN y = WriterFields /\ SameTrees(x, y) /\ y.leaked = f /\ y.refs = x.refs
        /\ y.free = x.free /\ y.fresh = x.fresh /\ y.pinned = x.pinned /\ y.dedup = x.dedup
        /\ y.ro = x.ro /\ y.default = x.default
    BY <1>1, <1>4 DEF WriterFields, SameTrees
  <1>6. /\ f \in [Blocks -> Nat]
        /\ \A c \in Blocks : f[c] = x.leaked[c] + (IF c = b THEN 1 ELSE 0)
    BY <1>2, <1>3 DEF Leaky
  <1>7. y.disk = x.disk
    BY <1>5 DEF SameTrees
  <1>8. Leaky(y)
    <2>1. x.disk[b][1] = "data"
      BY <1>1 DEF Extent
    <2>2. \A c \in Blocks : x.leaked[c] \in Nat /\ (x.leaked[c] > 0 => x.disk[c][1] = "data")
      BY <1>2 DEF Leaky
    <2>3. ASSUME NEW c \in Blocks, y.leaked[c] > 0 PROVE y.disk[c][1] = "data"
      BY <1>5, <1>6, <1>7, <2>1, <2>2, <2>3
    <2> QED
      BY <1>5, <1>6, <2>3 DEF Leaky
  <1>9. Shaped(y) /\ \A c : Hits(y, c) = Hits(x, c)
    BY <1>1, <1>5, TreesOnly
  <1>10. Tables(y)
    BY <1>1, <1>5, <1>7 DEF Tables
  <1>11. \A c \in Blocks : y.refs[c] = Hits(y, c) + Extra(y, None, c)
    <2> SUFFICES ASSUME NEW c \in Blocks PROVE y.refs[c] = Hits(y, c) + Extra(y, None, c)
      OBVIOUS
    <2>1. Extra(y, None, c) = Extra(x, b, c)
      <3>1. x.leaked[c] \in Nat /\ c # None /\ y.leaked[c] = f[c]
        BY <1>1, <1>2, <1>5 DEF Leaky
      <3> QED
        BY <1>6, <3>1 DEF Extra
    <2> QED
      BY <1>1, <1>5, <1>9, <2>1
  <1>12. Sound(y, None)
    BY <1>5, <1>8, <1>9, <1>10, <1>11, SoundFrom DEF Extent
  <1>13. Resting(x, y)
    <2>1. SameUsed(x, y)
      BY <1>5 DEF SameTrees, SameUsed
    <2>2. V!Pointers(y) = V!Pointers(x)
      BY <1>1, <2>1, UsedOnly
    <2> QED
      BY <1>5, <2>2 DEF Resting, Unmarked, SameTrees
  <1>14. SameFiles(x, y)
    BY <1>5, SameTreesRead
  <1>15. Within(x, y)
    BY <1>5, <1>7 DEF Within, Spare
  <1> QED
    BY <1>12, <1>13, <1>14, <1>15

\* The device refuses the extent.
LEMMA RefusedSound ==
    ASSUME V!VolumeConstants, NEW x, NEW s, VolumeSound(x, s), NEW b \in x.free,
           NEW y, y = V!Leak(V!Alloc(x, b, <<"data", None>>), b)
    PROVE  Fails(x, s, y)
  <1>1. Sound(x, None) /\ SavedSound(s, x) /\ (~V!Dirty(x) => Unmarked(x))
    BY DEF VolumeSound
  <1>2. /\ DOMAIN x = WriterFields /\ Shaped(x) /\ Typed(x) /\ Tables(x) /\ None \notin Blocks
        /\ \A c \in Blocks : /\ x.refs[c] \in Nat /\ Hits(x, c) \in Nat
                             /\ x.refs[c] = Hits(x, c) + Extra(x, None, c)
    BY <1>1, SoundHits
  <1>3. Leaky(x)
    BY <1>1, SoundLeaks
  <1>4. /\ b \in Blocks /\ x.refs[b] = 0 /\ b \notin x.pinned /\ b \notin x.fresh
        /\ x.leaked[b] = 0
    <2>1. b \in Blocks /\ x.refs[b] = 0 /\ b \notin x.pinned /\ b \notin x.fresh
      BY <1>2 DEF Tables
    <2>2. x.leaked[b] \in Nat /\ Extra(x, None, b) = x.leaked[b]
      BY <1>2, <1>3, <2>1 DEF Leaky, Extra
    <2> QED
      BY <1>2, <2>1, <2>2
  <1>5. PICK z : z = V!Alloc(x, b, <<"data", None>>)
    OBVIOUS
  <1>6. /\ DOMAIN z = WriterFields /\ z.root = x.root /\ z.rt = x.rt /\ z.ro = x.ro
        /\ z.default = x.default /\ z.leaked = x.leaked /\ z.dedup = x.dedup
        /\ z.pinned = x.pinned /\ z.free = x.free \ {b} /\ z.fresh = x.fresh \cup {b}
        /\ z.refs = [x.refs EXCEPT ![b] = 1] /\ z.disk = [x.disk EXCEPT ![b] = <<"data", None>>]
    BY <1>2, <1>5 DEF V!Alloc, WriterFields
  <1>7. y = [z EXCEPT !.leaked = [z.leaked EXCEPT ![b] = @ + 1]]
    BY <1>5, <1>6 DEF V!Leak, WriterFields
  <1>8. /\ DOMAIN y = WriterFields /\ y.root = x.root /\ y.rt = x.rt /\ y.dedup = x.dedup
        /\ y.pinned = x.pinned /\ y.free = x.free \ {b} /\ y.fresh = x.fresh \cup {b}
        /\ y.refs = [x.refs EXCEPT ![b] = 1] /\ y.disk = [x.disk EXCEPT ![b] = <<"data", None>>]
        /\ y.leaked = [x.leaked EXCEPT ![b] = @ + 1]
    BY <1>6, <1>7 DEF WriterFields
  <1>9. /\ y.refs \in [Blocks -> Nat] /\ y.refs[b] = 1
        /\ \A c \in Blocks : c # b => y.refs[c] = x.refs[c]
    BY <1>2, <1>4, <1>8 DEF Tables
  <1>10. /\ DOMAIN y.disk = Blocks /\ y.disk[b] = <<"data", None>>
         /\ \A c \in Blocks : c # b => y.disk[c] = x.disk[c]
    BY <1>2, <1>4, <1>8 DEF Typed
  <1>11. /\ y.leaked \in [Blocks -> Nat] /\ y.leaked[b] = 1
         /\ \A c \in Blocks : c # b => y.leaked[c] = x.leaked[c]
    BY <1>3, <1>4, <1>8 DEF Leaky
  <1>12. \A e \in V!Pointers(x) : e[4] # b
    BY <1>1, <1>4, Pointed
  <1>13. SameUsed(x, y)
    BY <1>2, <1>8, <1>10, <1>12 DEF SameUsed, Typed
  <1>14. Shaped(y) /\ V!Pointers(y) = V!Pointers(x) /\ \A c : Hits(y, c) = Hits(x, c)
    BY <1>2, <1>13, UsedOnly
  <1>15. Leaky(y)
    <2>1. ASSUME NEW c \in Blocks, y.leaked[c] > 0 PROVE y.disk[c][1] = "data"
      <3>1. CASE c = b
        BY <1>10, <3>1
      <3>2. CASE c # b
        BY <1>3, <1>10, <1>11, <2>1, <3>2 DEF Leaky
      <3> QED
        BY <3>1, <3>2
    <2> QED
      BY <1>11, <2>1 DEF Leaky
  <1>16. ASSUME NEW c \in Blocks PROVE y.refs[c] = Hits(y, c) + Extra(y, None, c)
    <2>1. /\ x.refs[c] = Hits(x, c) + x.leaked[c] /\ Hits(x, c) \in Nat /\ x.leaked[c] \in Nat
          /\ Extra(y, None, c) = y.leaked[c] + 0
      BY <1>2, <1>3 DEF Extra, Leaky
    <2>2. CASE c = b
      BY <1>4, <1>9, <1>11, <1>14, <2>1, <2>2
    <2>3. CASE c # b
      BY <1>9, <1>11, <1>14, <2>1, <2>3
    <2> QED
      BY <2>2, <2>3
  <1>17. Tables(y)
    <2>1. /\ y.free \subseteq Blocks /\ y.fresh \subseteq Blocks /\ y.pinned \subseteq Blocks
          /\ y.free \cap y.pinned = {} /\ y.fresh \cap (y.free \cup y.pinned) = {}
          /\ y.dedup \in [Data -> Blocks \cup {None}]
      BY <1>2, <1>4, <1>8 DEF Tables
    <2>2. ASSUME NEW c \in Blocks PROVE y.refs[c] = 0 <=> c \in y.free \cup y.pinned
      <3>1. x.refs[c] = 0 <=> c \in x.free \cup x.pinned
        BY <1>2 DEF Tables
      <3>2. CASE c = b
        BY <1>4, <1>8, <1>9, <3>2
      <3>3. CASE c # b
        BY <1>8, <1>9, <3>1, <3>3
      <3> QED
        BY <3>2, <3>3
    <2>3. ASSUME NEW d \in Data, y.dedup[d] # None
          PROVE  y.refs[y.dedup[d]] > 0 /\ y.disk[y.dedup[d]] = <<"data", d>>
      <3>1. PICK c : c = x.dedup[d]
        OBVIOUS
      <3>2. c \in Blocks /\ x.refs[c] > 0 /\ x.disk[c] = <<"data", d>>
        BY <1>2, <1>8, <2>3, <3>1 DEF Tables
      <3>3. c # b
        BY <1>4, <3>2
      <3> QED
        BY <1>8, <1>9, <1>10, <3>1, <3>2, <3>3
    <2> QED
      BY <1>9, <2>1, <2>2, <2>3 DEF Tables
  <1>18. Sound(y, None)
    BY <1>8, <1>14, <1>15, <1>16, <1>17, SoundFrom DEF Extent
  <1>19. Within(x, y)
    BY <1>2, <1>8, <1>10 DEF Within, Spare, Typed
  <1>20. Resting(x, y)
    BY <1>8, <1>12, <1>14 DEF Resting, Unmarked
  <1>21. SameFiles(x, y)
    BY <1>2, <1>13, UsedReads
  <1>22. SavedSound(s, y) /\ SameMount(s, x, y)
    BY <1>1, <1>19, SavedKept DEF SameMount
  <1> QED
    BY <1>1, <1>18, <1>20, <1>21, <1>22, RestingClean DEF Fails, VolumeSound

\* The leaf that should get the extent cannot be read, or not even the root.
LEMMA UnlinkedSound ==
    ASSUME V!VolumeConstants, NEW x, NEW s, VolumeSound(x, s), NEW sv \in DOMAIN x.root,
           NEW d \in Data, NEW b, NEW v, Extends(x, v, b, d),
           NEW u, u = v \/ u = V!MemRoot(v, sv), NEW y, y = V!Leak(u, b)
    PROVE  Fails(x, s, y)
  <1>1. Sound(x, None) /\ SavedSound(s, x) /\ (~V!Dirty(x) => Unmarked(x))
    BY DEF VolumeSound
  <1>2. /\ Sound(v, b) /\ Within(x, v) /\ Resting(x, v) /\ b \in Blocks /\ SameFiles(x, v)
    BY <1>1, ExtentSound
  <1>3. DOMAIN v.root = DOMAIN x.root /\ (~V!Dirty(v) => Unmarked(v))
    BY <1>1, <1>2, RestingClean
  <1>4. Sound(u, b) /\ Keeps(v, u) /\ SameFiles(v, u) /\ (~V!Dirty(u) => Unmarked(u))
    <2>1. CASE u = v
      BY <1>2, <1>3, <2>1 DEF Keeps, SameRest, SameFiles
    <2>2. CASE u = V!MemRoot(v, sv)
      <3>1. Sound(u, b) /\ Keeps(v, u) /\ u.root[sv][1] = "mem" /\ SameFiles(v, u)
        BY <1>2, <1>3, <2>2, MemRootSound
      <3>2. sv \in V!MemRoots(u)
        BY <1>3, <3>1 DEF Keeps, V!MemRoots
      <3> QED
        BY <3>1, <3>2 DEF V!Dirty
    <2> QED
      BY <2>1, <2>2
  <1>5. Sound(y, None) /\ Within(u, y) /\ Resting(u, y) /\ SameFiles(u, y)
    BY <1>2, <1>4, LeakSound
  <1>6. ~V!Dirty(y) => Unmarked(y)
    BY <1>4, <1>5, RestingClean
  <1>7. SameFiles(x, y)
    BY <1>2, <1>4, <1>5, SameFilesTwice
  <1>8. Within(x, y)
    BY <1>2, <1>4, <1>5, KeepsWithin, WithinTwice
  <1>9. SavedSound(s, y) /\ SameMount(s, x, y)
    BY <1>1, <1>8, SavedKept DEF SameMount
  <1> QED
    BY <1>5, <1>6, <1>7, <1>9 DEF Fails, VolumeSound

\* A leaf cannot be read: at most the root is in memory.
LEMMA UnreadSound ==
    ASSUME V!VolumeConstants, NEW x, NEW s, VolumeSound(x, s), NEW sv \in DOMAIN x.root,
           NEW y, y = V!MemRoot(x, sv)
    PROVE  Fails(x, s, y)
  <1>1. Sound(x, None) /\ SavedSound(s, x)
    BY DEF VolumeSound
  <1>2. Sound(y, None) /\ Keeps(x, y) /\ y.root[sv][1] = "mem" /\ SameFiles(x, y)
    BY <1>1, MemRootSound
  <1>3. V!Dirty(y)
    BY <1>2 DEF Keeps, V!Dirty, V!MemRoots
  <1>4. SavedSound(s, y) /\ SameMount(s, x, y)
    BY <1>1, <1>2, KeepsWithin, SavedKept DEF SameMount
  <1> QED
    BY <1>2, <1>3, <1>4 DEF Fails, VolumeSound

\* A window dropped.
LEMMA DropSound ==
    ASSUME V!VolumeConstants, NEW x, NEW s, VolumeSound(x, s), NEW sv \in DOMAIN x.root,
           NEW p \in Pos, NEW y, y = V!Replace(x, sv, p, None)
    PROVE  VolumeSound(y, s) /\ FileBecomes(x, y, sv, p, None) /\ SameMount(s, x, y)
  <1>1. Sound(x, None) /\ SavedSound(s, x)
    BY DEF VolumeSound
  <1>2. /\ Sound(y, None) /\ Keeps(x, y) /\ sv \in V!MemRoots(y)
        /\ FileBecomes(x, y, sv, p, None)
    <2>1. V!Bytes(x.disk, None) = None
      BY DEF V!Bytes
    <2> QED
      BY <1>1, <2>1, ReplaceSound
  <1>3. SavedSound(s, y) /\ SameMount(s, x, y)
    BY <1>1, <1>2, KeepsWithin, SavedKept DEF SameMount
  <1>4. V!Dirty(y)
    BY <1>2 DEF V!Dirty
  <1> QED
    BY <1>2, <1>3, <1>4 DEF VolumeSound

\* Another default subvolume.
LEMMA DefaultSound ==
    ASSUME V!VolumeConstants, NEW x, NEW s, VolumeSound(x, s), NEW id,
           NEW y, y = [V!TouchRoots(x) EXCEPT !.default = id]
    PROVE  VolumeSound(y, s) /\ SameFiles(x, y) /\ SameMount(s, x, y)
  <1>1. Sound(x, None) /\ SavedSound(s, x)
    BY DEF VolumeSound
  <1>2. PICK u : u = V!TouchRoots(x)
    OBVIOUS
  <1>3. Sound(u, None) /\ Keeps(x, u) /\ u.root = x.root /\ u.rt = <<"mem", None>>
    BY <1>1, <1>2, TouchRootsSound
  <1>4. DOMAIN u = WriterFields
    BY <1>3, SoundHits
  <1>5. y = [u EXCEPT !.default = id]
    BY <1>2
  <1>6. DOMAIN y = WriterFields /\ SameTrees(u, y) /\ SameTables(u, y)
    BY <1>4, <1>5 DEF WriterFields, SameTrees, SameTables
  <1>7. Sound(y, None) /\ Within(u, y) /\ V!Dirty(y)
    BY <1>3, <1>6, RestChanged
  <1>8. SavedSound(s, y) /\ SameMount(s, x, y)
    BY <1>1, <1>3, <1>7, KeepsWithin, WithinTwice, SavedKept DEF SameMount
  <1>9. SameFiles(x, y)
    <2>1. SameRoots(x, y)
      BY <1>3, <1>6 DEF SameTrees, Keeps, SameRoots
    <2> QED
      BY <2>1, HoldsAll, Zenon
  <1> QED
    BY <1>7, <1>8, <1>9 DEF VolumeSound

\* What a snapshot commits.
LEMMA SnapshotSound ==
    ASSUME V!VolumeConstants, NEW x, Sound(x, None), V!MemRoots(x) = {}, NEW src \in DOMAIN x.root,
           NEW id \in Ids, id \notin DOMAIN x.root, NEW o,
           NEW u, u = V!TouchRoots(V!Shared(x, src, id)), NEW y, y = [u EXCEPT !.ro = o]
    PROVE  Sound(y, None) /\ V!Dirty(y) /\ FilesAdded(x, y, src, id)
  <1>1. PICK v : v = V!Shared(x, src, id)
    OBVIOUS
  <1>2. Sound(v, None) /\ FilesAdded(x, v, src, id)
    BY <1>1, SharedSound
  <1>3. Sound(u, None) /\ Keeps(v, u) /\ u.root = v.root /\ u.rt = <<"mem", None>>
    BY <1>1, <1>2, TouchRootsSound
  <1>4. DOMAIN u = WriterFields
    BY <1>3, SoundHits
  <1>5. DOMAIN y = WriterFields /\ SameTrees(u, y) /\ SameTables(u, y)
    BY <1>4 DEF WriterFields, SameTrees, SameTables
  <1>6. FilesAdded(x, y, src, id)
    <2>1. SameRoots(v, y)
      BY <1>3, <1>5 DEF SameTrees, Keeps, SameRoots
    <2> QED
      BY <1>2, <2>1, AddedThen, Zenon
  <1> QED
    BY <1>3, <1>5, <1>6, RestChanged

\* A mount would find what the writer x sees.
Settled(x, s) == SameFiles(x, V!Mounted(s, x.disk))

\* What a commit leaves, as the invariant says it.
LEMMA CommittedVolume ==
    ASSUME V!VolumeConstants, NEW x, Sound(x, None), V!Fits(x), ~V!Dirty(x) => Unmarked(x),
           NEW z, z = V!Committed(x), NEW s, s = V!Superblock(z)
    PROVE  VolumeSound(z, s) /\ SameFiles(x, z) /\ Settled(z, s)
  BY CommitSound DEF VolumeSound, Settled

\* The two commits of an operation, and the failure of either.
LEMMA FinishSound ==
    ASSUME V!VolumeConstants, VolumeSound(w, saved), NEW y,
           V!Fits(w) => Sound(y, None) /\ (~V!Dirty(y) => Unmarked(y)), V!Finish(w, y)
    PROVE  /\ VolumeSound(w', saved')
           /\ \/ V!Fits(w) /\ SameFiles(y, w') /\ Settled(w', saved')
              \/ SameFiles(w, w') /\ Settled(w', saved')
              \/ w' = w /\ saved' = saved
  <1>1. Sound(w, None) /\ (~V!Dirty(w) => Unmarked(w))
    BY DEF VolumeSound
  <1>2. CASE V!Fits(w) /\ V!Fits(y) /\ w' = V!Committed(y) /\ saved' = V!Superblock(w')
    BY <1>2, CommittedVolume
  <1>3. CASE V!Fits(w) /\ w' = V!Committed(w) /\ saved' = V!Superblock(w')
    BY <1>1, <1>3, CommittedVolume
  <1>4. CASE w' = w /\ saved' = saved
    BY <1>4
  <1> QED
    BY <1>2, <1>3, <1>4 DEF V!Finish

\* A mount, from what the superblock leads to.
LEMMA ReopenSound ==
    ASSUME V!VolumeConstants, NEW x, NEW s, VolumeSound(x, s), NEW y, y = V!Scan(s, x.disk)
    PROVE  VolumeSound(y, s) /\ SameFiles(V!Mounted(s, x.disk), y) /\ y.disk = x.disk
  <1>1. PICK u : u = V!Mounted(s, x.disk)
    OBVIOUS
  <1>2. Shaped(u) /\ DOMAIN s = {"root", "ro", "rt", "default"}
    BY <1>1 DEF VolumeSound, SavedSound
  <1>3. Sound(y, None) /\ SavedSound(s, y) /\ y.fresh = {} /\ SameFiles(u, y)
    BY <1>1, <1>2, ScanSound
  <1>4. y.disk = x.disk
    BY DEF V!Scan
  <1> QED
    BY <1>1, <1>3, <1>4 DEF VolumeSound, Unmarked

\* What an operation on the writer x and the superblock's s is to a reader: a
\* position is changed, nothing is, all is committed, a subvolume is added or
\* gone, or the writer's changes are lost.
VolumeReads(x, s, y, t) ==
    \/ /\ \E sv \in DOMAIN x.root, p \in Pos, c \in Data \cup {None} : FileBecomes(x, y, sv, p, c)
       /\ t = s /\ SameMount(s, x, y)
    \/ SameFiles(x, y) /\ t = s /\ SameMount(s, x, y)
    \/ SameFiles(x, y) /\ Settled(y, t)
    \/ /\ \E src \in DOMAIN x.root, id \in Ids \ DOMAIN x.root : FilesAdded(x, y, src, id)
       /\ Settled(y, t)
    \/ (\E id \in DOMAIN x.root : FilesGone(x, y, id)) /\ Settled(y, t)
    \/ SameFiles(V!Mounted(s, x.disk), y) /\ t = s /\ y.disk = x.disk

\* A writer reads what it does.
LEMMA SameItself == \A x, s : SameFiles(x, x) /\ SameMount(s, x, x)
  BY DEF SameFiles, SameMount

\* What is committed before and after does not change what is added or gone.
LEMMA AddedBetween ==
    ASSUME NEW x, NEW y, NEW z, NEW v, NEW src \in DOMAIN x.root, NEW id,
           SameFiles(x, y), FilesAdded(y, z, src, id), SameFiles(z, v)
    PROVE  FilesAdded(x, v, src, id)
  BY DEF SameFiles, FilesAdded

LEMMA GoneBetween ==
    ASSUME NEW x, NEW y, NEW z, NEW v, NEW id,
           SameFiles(x, y), FilesGone(y, z, id), SameFiles(z, v)
    PROVE  FilesGone(x, v, id)
  BY DEF SameFiles, FilesGone

\* Every operation keeps it, and is one of these to a reader.
LEMMA VolumeKept ==
    ASSUME V!VolumeConstants, VolumeSound(w, saved), V!Next
    PROVE  VolumeSound(w', saved') /\ VolumeReads(w, saved, w', saved')
  <1>1. ASSUME NEW sv \in DOMAIN w.root, NEW p \in Pos, NEW d \in Data,
               NEW share \in {"dedup", "alone"}, V!Write(sv, p, d, share)
        PROVE  VolumeSound(w', saved') /\ VolumeReads(w, saved, w', saved')
    <2>1. /\ w' = V!Replace(V!Stored(d, share), sv, p, V!Target(d, share)) /\ saved' = saved
          /\ V!Shares(d, share) \/ w.free # {}
      BY <1>1 DEF V!Write
    <2>2. PICK b, v : b = V!Target(d, share) /\ v = V!Stored(d, share)
      OBVIOUS
    <2>3. Extends(w, v, b, d) /\ w' = V!Replace(v, sv, p, b)
      BY <2>1, <2>2, WindowStored
    <2>4. VolumeSound(w', saved) /\ FileBecomes(w, w', sv, p, d) /\ SameMount(saved, w, w')
      BY <2>3, WriteSound
    <2> QED
      BY <2>1, <2>4 DEF VolumeReads
  <1>9. ASSUME NEW sv \in DOMAIN w.root, NEW d \in Data, NEW share \in {"dedup", "alone"},
               V!WriteFails(sv, d, share) \/ V!LinkFails(sv, d, share)
        PROVE  VolumeSound(w', saved') /\ VolumeReads(w, saved, w', saved')
    <2>1. PICK b : b = V!Target(d, share)
      OBVIOUS
    <2>2. saved' = saved
      BY <1>9 DEF V!WriteFails, V!LinkFails
    <2>3. CASE V!WriteFails(sv, d, share)
      <3>1. b \in w.free
        BY <2>1, <2>3 DEF V!WriteFails, V!Target
      <3>2. w' = V!Leak(V!Alloc(w, b, <<"data", None>>), b)
        BY <2>1, <2>3 DEF V!WriteFails
      <3>3. Fails(w, saved, w')
        BY <3>1, <3>2, RefusedSound
      <3> QED
        BY <2>2, <3>3 DEF Fails, VolumeReads
    <2>4. CASE V!LinkFails(sv, d, share)
      <3>1. V!Shares(d, share) \/ w.free # {}
        BY <2>4 DEF V!LinkFails
      <3>2. PICK v : v = V!Stored(d, share)
        OBVIOUS
      <3>3. PICK u : (u = v \/ u = V!MemRoot(v, sv)) /\ w' = V!Leak(u, b)
        BY <2>1, <2>4, <3>2 DEF V!LinkFails
      <3>4. Extends(w, v, b, d)
        BY <2>1, <3>1, <3>2, WindowStored
      <3>5. Fails(w, saved, w')
        BY <3>3, <3>4, UnlinkedSound
      <3> QED
        BY <2>2, <3>5 DEF Fails, VolumeReads
    <2> QED
      BY <1>9, <2>3, <2>4
  <1>10. ASSUME NEW sv \in DOMAIN w.root, V!ReadFails(sv)
         PROVE  VolumeSound(w', saved') /\ VolumeReads(w, saved, w', saved')
    <2>1. w' = V!MemRoot(w, sv) /\ saved' = saved
      BY <1>10 DEF V!ReadFails
    <2>2. Fails(w, saved, w')
      BY <2>1, UnreadSound
    <2> QED
      BY <2>1, <2>2 DEF Fails, VolumeReads
  <1>2. ASSUME NEW sv \in DOMAIN w.root, NEW p \in Pos, V!Drop(sv, p)
        PROVE  VolumeSound(w', saved') /\ VolumeReads(w, saved, w', saved')
    <2>1. w' = V!Replace(w, sv, p, None) /\ saved' = saved
      BY <1>2 DEF V!Drop
    <2>2. VolumeSound(w', saved) /\ FileBecomes(w, w', sv, p, None) /\ SameMount(saved, w, w')
      BY <2>1, DropSound
    <2> QED
      BY <2>1, <2>2 DEF VolumeReads
  <1>3. ASSUME V!Commit PROVE VolumeSound(w', saved') /\ VolumeReads(w, saved, w', saved')
    <2>1. V!Finish(w, w)
      BY <1>3 DEF V!Commit
    <2>2. VolumeSound(w', saved')
          /\ ((SameFiles(w, w') /\ Settled(w', saved')) \/ (w' = w /\ saved' = saved))
      BY <2>1, FinishSound DEF VolumeSound
    <2> QED
      BY <2>2, SameItself DEF VolumeReads
  <1>4. ASSUME V!Reopen PROVE VolumeSound(w', saved') /\ VolumeReads(w, saved, w', saved')
    <2>1. w' = V!Scan(saved, w.disk) /\ saved' = saved
      BY <1>4 DEF V!Reopen
    <2>2. VolumeSound(w', saved) /\ SameFiles(V!Mounted(saved, w.disk), w') /\ w'.disk = w.disk
      BY <2>1, ReopenSound
    <2> QED
      BY <2>1, <2>2 DEF VolumeReads
  <1> DEFINE z == V!Committed(w)
  <1>5. ASSUME V!Fits(w)
        PROVE  /\ Sound(z, None) /\ V!MemRoots(z) = {} /\ DOMAIN z.root = DOMAIN w.root
               /\ SameFiles(w, z)
    <2>1. Sound(w, None) /\ (~V!Dirty(w) => Unmarked(w))
      BY DEF VolumeSound
    <2> QED
      BY <1>5, <2>1, CommitSound DEF OnDisk
  <1>6. ASSUME NEW src \in DOMAIN w.root, NEW id \in Ids, NEW ro \in {"yes", "no"},
               V!Snapshot(src, id, ro)
        PROVE  VolumeSound(w', saved') /\ VolumeReads(w, saved, w', saved')
    <2>1. PICK u : u = V!TouchRoots(V!Shared(z, src, id))
      OBVIOUS
    <2>2. PICK o : o = IF ro = "yes" THEN u.ro \cup {id} ELSE u.ro
      OBVIOUS
    <2>3. PICK y : y = [u EXCEPT !.ro = o]
      OBVIOUS
    <2>4. id \notin DOMAIN w.root /\ V!Finish(w, y)
      BY <1>6, <2>1, <2>2, <2>3 DEF V!Snapshot
    <2>5. V!Fits(w) => Sound(y, None) /\ V!Dirty(y) /\ FilesAdded(z, y, src, id)
      BY <1>5, <2>1, <2>3, <2>4, SnapshotSound
    <2>6. /\ VolumeSound(w', saved')
          /\ \/ V!Fits(w) /\ SameFiles(y, w') /\ Settled(w', saved')
             \/ SameFiles(w, w') /\ Settled(w', saved')
             \/ w' = w /\ saved' = saved
      BY <2>4, <2>5, FinishSound
    <2>7. V!Fits(w) /\ SameFiles(y, w') => FilesAdded(w, w', src, id)
      BY <1>5, <2>5, AddedBetween
    <2> QED
      BY <2>4, <2>6, <2>7, SameItself DEF VolumeReads
  <1>7. ASSUME NEW id \in DOMAIN w.root, V!DeleteSubvol(id)
        PROVE  VolumeSound(w', saved') /\ VolumeReads(w, saved, w', saved')
    <2>1. PICK v : v = [V!TouchRoots(z) EXCEPT !.root = V!Restrict(@, DOMAIN @ \ {id}),
                                               !.ro = @ \ {id}]
      OBVIOUS
    <2>2. PICK y : y = V!DropTree(v, z.root[id][2])
      OBVIOUS
    <2>3. V!Finish(w, y)
      BY <1>7, <2>1, <2>2 DEF V!DeleteSubvol
    <2>4. Deletes(z, v, id)
      BY <2>1 DEF Deletes
    <2>5. V!Fits(w) => Sound(y, None) /\ V!Dirty(y) /\ FilesGone(z, y, id)
      BY <1>5, <2>2, <2>4, DeleteSound
    <2>6. /\ VolumeSound(w', saved')
          /\ \/ V!Fits(w) /\ SameFiles(y, w') /\ Settled(w', saved')
             \/ SameFiles(w, w') /\ Settled(w', saved')
             \/ w' = w /\ saved' = saved
      BY <2>3, <2>5, FinishSound
    <2>7. V!Fits(w) /\ SameFiles(y, w') => FilesGone(w, w', id)
      BY <1>5, <2>5, GoneBetween
    <2> QED
      BY <2>6, <2>7, SameItself DEF VolumeReads
  <1>8. ASSUME NEW id \in DOMAIN w.root, V!SetDefault(id)
        PROVE  VolumeSound(w', saved') /\ VolumeReads(w, saved, w', saved')
    <2>1. w' = [V!TouchRoots(w) EXCEPT !.default = id] /\ saved' = saved
      BY <1>8 DEF V!SetDefault
    <2>2. VolumeSound(w', saved) /\ SameFiles(w, w') /\ SameMount(saved, w, w')
      BY <2>1, DefaultSound
    <2> QED
      BY <2>1, <2>2 DEF VolumeReads
  <1> QED
    BY <1>1, <1>2, <1>3, <1>4, <1>6, <1>7, <1>8, <1>9, <1>10 DEF V!Next

\* And it says that the counts are exact.
LEMMA VolumeExact == ASSUME V!VolumeConstants, VolumeSound(w, saved) PROVE V!RefsExact
  <1>1. Tables(w) /\ Exact(w, None) /\ Typed(w) /\ None \notin Blocks
    BY SoundHits DEF VolumeSound, Sound
  <1>2. ASSUME NEW b \in Blocks PROVE w.refs[b] = V!Count(V!Pointers(w), b) + w.leaked[b]
    <2>1. w.refs[b] = V!Count(V!Pointers(w), b) + Extra(w, None, b)
      BY <1>1 DEF Exact
    <2>2. w.leaked[b] \in Nat /\ b # None
      BY <1>1, SoundLeaks DEF VolumeSound
    <2> QED
      BY <2>1, <2>2 DEF Extra
  <1>3. V!Counted
    BY <1>2 DEF V!Counted
  <1>4. V!IndexSound
    BY <1>1 DEF Tables, V!IndexSound
  <1> QED
    BY <1>1, <1>3, <1>4 DEF Tables, V!RefsExact

\* Every block's reference count is the number of pointers at it and of those a
\* failed write left counted since the mount, what is not counted is free or kept
\* for the last commit, and the dedup index only names blocks in use that hold what
\* it says: through writes, dropped windows, commits, snapshots, deletions and
\* mounts, writes the device refuses, nodes that cannot be read and commits that fail.
THEOREM RefsAlwaysExact == MCSpec => []RefsExact
  <1> USE StoresConstants
  <1>1. MCInit => VolumeInv
    BY VolumeStarts DEF MCInit
  <1>2. VolumeInv /\ [MCNext]_<<store, vars, volumeVars, fileVars>> => VolumeInv'
    <2> SUFFICES ASSUME VolumeSound(w, saved), [MCNext]_<<store, vars, volumeVars, fileVars>> PROVE  VolumeSound(w', saved')
      BY DEF VolumeInv
    <2>1. CASE VolumeStep
      BY <2>1, VolumeKept DEF VolumeStep
    <2>2. CASE UNCHANGED volumeVars
      BY <2>2 DEF volumeVars
    <2>3. UNCHANGED volumeVars \/ VolumeStep
      BY DEF MCNext, PackageStep, FileStep
    <2> QED
      BY <2>1, <2>2, <2>3
  <1>3. VolumeInv => RefsExact
    BY VolumeExact DEF RefsExact, VolumeInv
  <1> QED
    BY <1>1, <1>2, <1>3, PTL DEF MCSpec

-----------------------------------------------------------------------------
(* The volume keeps the promise of NcfsSubvols: its steps, as a reader     *)
(* sees them, are steps of that specification on functions.                *)

\* The steps on functions.
FileSet(n, m, sv, p, c) == m = [n EXCEPT ![sv][p] = c]
CopyAdded(n, m, src, id) ==
    m = [s \in DOMAIN n \cup {id} |-> IF s = id THEN n[src] ELSE n[s]]
OneGone(n, m, id) == m = [s \in DOMAIN n \ {id} |-> n[s]]

\* What a file becomes.
LEMMA BecomesAre ==
    ASSUME NEW x, NEW y, NEW sv \in DOMAIN x.root, NEW p \in Pos, NEW c,
           FileBecomes(x, y, sv, p, c)
    PROVE  FileSet(V!Files(x), V!Files(y), sv, p, c)
  <1>1. /\ DOMAIN y.root = DOMAIN x.root /\ Holds(y, sv, p) = c
        /\ \A u \in DOMAIN x.root : \A q \in Pos : u # sv \/ q # p => Holds(y, u, q) = Holds(x, u, q)
    BY DEF FileBecomes
  <1>2. PICK n, m : n = V!Files(x) /\ m = V!Files(y)
    OBVIOUS
  <1>3. /\ n = [u \in DOMAIN x.root |-> [q \in Pos |-> Holds(x, u, q)]]
        /\ m = [u \in DOMAIN x.root |-> [q \in Pos |-> Holds(y, u, q)]]
    BY <1>1, <1>2, FilesAre
  <1>4. ASSUME NEW u \in DOMAIN x.root PROVE m[u] = [n EXCEPT ![sv][p] = c][u]
    <2>1. m[u] = [q \in Pos |-> Holds(y, u, q)] /\ n[u] = [q \in Pos |-> Holds(x, u, q)]
      BY <1>3
    <2>2. CASE u = sv
      <3>1. [n EXCEPT ![sv][p] = c][u] = [n[sv] EXCEPT ![p] = c]
        BY <1>3, <2>2
      <3>2. [q \in Pos |-> Holds(y, u, q)] = [n[sv] EXCEPT ![p] = c]
        BY <1>1, <2>1, <2>2
      <3> QED
        BY <2>1, <3>1, <3>2
    <2>3. CASE u # sv
      <3>1. [n EXCEPT ![sv][p] = c][u] = n[u]
        BY <1>3, <2>3
      <3>2. \A q \in Pos : Holds(y, u, q) = Holds(x, u, q)
        BY <1>1, <2>3
      <3> QED
        BY <2>1, <3>1, <3>2
    <2> QED
      BY <2>2, <2>3
  <1>5. m = [n EXCEPT ![sv][p] = c]
    <2>1. PICK g : g = [n EXCEPT ![sv][p] = c]
      OBVIOUS
    <2>2. DOMAIN g = DOMAIN x.root /\ g = [u \in DOMAIN x.root |-> g[u]]
      BY <1>3, <2>1
    <2>3. m = [u \in DOMAIN x.root |-> m[u]]
      BY <1>3
    <2> QED
      BY <1>4, <2>1, <2>2, <2>3
  <1> QED
    BY <1>2, <1>5 DEF FileSet

\* What a snapshot adds.
LEMMA AddedAre ==
    ASSUME NEW x, NEW y, NEW src \in DOMAIN x.root, NEW id, id \notin DOMAIN x.root,
           FilesAdded(x, y, src, id)
    PROVE  CopyAdded(V!Files(x), V!Files(y), src, id)
  <1>1. /\ DOMAIN y.root = DOMAIN x.root \cup {id}
        /\ \A p \in Pos : Holds(y, id, p) = Holds(x, src, p)
        /\ \A u \in DOMAIN x.root : \A p \in Pos : Holds(y, u, p) = Holds(x, u, p)
    BY DEF FilesAdded
  <1>2. PICK n, m : n = V!Files(x) /\ m = V!Files(y)
    OBVIOUS
  <1>3. /\ n = [u \in DOMAIN x.root |-> [q \in Pos |-> Holds(x, u, q)]]
        /\ m = [u \in DOMAIN x.root \cup {id} |-> [q \in Pos |-> Holds(y, u, q)]]
    BY <1>1, <1>2, FilesAre
  <1>4. ASSUME NEW u \in DOMAIN x.root PROVE [q \in Pos |-> Holds(y, u, q)] = n[u]
    BY <1>1, <1>3
  <1>5. [q \in Pos |-> Holds(y, id, q)] = n[src]
    BY <1>1, <1>3
  <1>6. DOMAIN n = DOMAIN x.root
    BY <1>3
  <1>7. m = [u \in DOMAIN n \cup {id} |-> IF u = id THEN n[src] ELSE n[u]]
    BY <1>3, <1>4, <1>5, <1>6
  <1> QED
    BY <1>2, <1>7 DEF CopyAdded

\* What a deletion leaves.
LEMMA GoneAre ==
    ASSUME NEW x, NEW y, NEW id, FilesGone(x, y, id)
    PROVE  OneGone(V!Files(x), V!Files(y), id)
  <1>1. /\ DOMAIN y.root = DOMAIN x.root \ {id}
        /\ \A u \in DOMAIN y.root : \A p \in Pos : Holds(y, u, p) = Holds(x, u, p)
    BY DEF FilesGone
  <1>2. PICK n, m : n = V!Files(x) /\ m = V!Files(y)
    OBVIOUS
  <1>3. /\ n = [u \in DOMAIN x.root |-> [q \in Pos |-> Holds(x, u, q)]]
        /\ m = [u \in DOMAIN y.root |-> [q \in Pos |-> Holds(y, u, q)]]
    BY <1>1, <1>2, FilesAre
  <1>4. ASSUME NEW u \in DOMAIN y.root PROVE [q \in Pos |-> Holds(y, u, q)] = n[u]
    BY <1>1, <1>3
  <1>5. DOMAIN n = DOMAIN x.root
    BY <1>3
  <1>6. m = [u \in DOMAIN n \ {id} |-> n[u]]
    BY <1>1, <1>3, <1>4, <1>5
  <1> QED
    BY <1>2, <1>6 DEF OneGone

\* A step of the volume, as a step on what its readers see.
LEMMA VolumeReadsImplement ==
    ASSUME VolumeReads(w, saved, w', saved')
    PROVE  V!Subvols!Next \/ UNCHANGED V!Subvols!vars
  <1>1. PICK n, m : n = V!Files(w) /\ m = V!Files(w')
    OBVIOUS
  <1>2. PICK d, e : d = V!Files(V!Mounted(saved, w.disk)) /\ e = V!Files(V!Mounted(saved', w'.disk))
    OBVIOUS
  <1>3. V!Now = n /\ V!Now' = m /\ V!Durable = d /\ V!Durable' = e
    BY <1>1, <1>2 DEF V!Now, V!Durable
  <1>4. DOMAIN n = DOMAIN w.root
    <2>1. n = [u \in DOMAIN w.root |-> [q \in Pos |-> Holds(w, u, q)]]
      BY <1>1, FilesAre
    <2> QED
      BY <2>1
  <1>5. ASSUME NEW sv \in DOMAIN w.root, NEW p \in Pos, NEW c \in Data \cup {None},
               FileBecomes(w, w', sv, p, c), saved' = saved, SameMount(saved, w, w')
        PROVE  V!Subvols!Next
    <2>1. m = [n EXCEPT ![sv][p] = c]
      <3>1. FileSet(n, m, sv, p, c)
        BY <1>1, <1>5, BecomesAre
      <3> QED
        BY <3>1 DEF FileSet
    <2>2. e = d
      BY <1>2, <1>5, SameFilesAre DEF SameMount
    <2>3. V!Subvols!Write(sv, p, c)
      BY <1>3, <2>1, <2>2 DEF V!Subvols!Write
    <2> QED
      BY <1>3, <1>4, <2>3 DEF V!Subvols!Next
  <1>6. ASSUME SameFiles(w, w'), saved' = saved, SameMount(saved, w, w')
        PROVE  UNCHANGED V!Subvols!vars
    <2>1. m = n /\ e = d
      BY <1>1, <1>2, <1>6, SameFilesAre DEF SameMount
    <2> QED
      BY <1>3, <2>1 DEF V!Subvols!vars
  <1>7. Settled(w', saved') => e = m
    BY <1>1, <1>2, SameFilesAre DEF Settled
  <1>8. ASSUME SameFiles(w, w'), Settled(w', saved') PROVE V!Subvols!Next
    <2>1. m = n /\ e = m
      BY <1>1, <1>7, <1>8, SameFilesAre
    <2>2. V!Subvols!Commit
      BY <1>3, <2>1 DEF V!Subvols!Commit
    <2> QED
      BY <2>2 DEF V!Subvols!Next
  <1>9. ASSUME NEW src \in DOMAIN w.root, NEW id \in Ids \ DOMAIN w.root,
               FilesAdded(w, w', src, id), Settled(w', saved')
        PROVE  V!Subvols!Next
    <2>1. m = [u \in DOMAIN n \cup {id} |-> IF u = id THEN n[src] ELSE n[u]]
      <3>1. CopyAdded(n, m, src, id)
        BY <1>1, <1>9, AddedAre
      <3> QED
        BY <3>1 DEF CopyAdded
    <2>2. V!Subvols!Snapshot(src, id)
      BY <1>3, <1>4, <1>7, <1>9, <2>1 DEF V!Subvols!Snapshot
    <2> QED
      BY <1>3, <1>4, <2>2 DEF V!Subvols!Next
  <1>10. ASSUME NEW id \in DOMAIN w.root, FilesGone(w, w', id), Settled(w', saved')
         PROVE  V!Subvols!Next
    <2>1. m = [u \in DOMAIN n \ {id} |-> n[u]]
      <3>1. OneGone(n, m, id)
        BY <1>1, <1>10, GoneAre
      <3> QED
        BY <3>1 DEF OneGone
    <2>2. V!Subvols!Delete(id)
      BY <1>3, <1>7, <1>10, <2>1 DEF V!Subvols!Delete
    <2> QED
      BY <1>3, <1>4, <2>2 DEF V!Subvols!Next
  <1>11. ASSUME SameFiles(V!Mounted(saved, w.disk), w'), saved' = saved, w'.disk = w.disk
         PROVE  V!Subvols!Next
    <2>1. m = d /\ e = d
      BY <1>1, <1>2, <1>11, SameFilesAre
    <2>2. V!Subvols!Lose
      BY <1>3, <2>1 DEF V!Subvols!Lose
    <2> QED
      BY <2>2 DEF V!Subvols!Next
  <1> QED
    BY <1>5, <1>6, <1>8, <1>9, <1>10, <1>11 DEF VolumeReads

\* A new volume is one empty subvolume to a reader, and to a mount.
LEMMA VolumeReadsEmpty == ASSUME V!VolumeConstants, V!Init PROVE V!Subvols!Init
  <1>1. saved.root = [sv \in {1} |-> 2] /\ saved.rt = 1 /\ w = V!Scan(saved, V!Formatted)
        /\ DOMAIN saved = {"root", "ro", "rt", "default"}
    BY DEF V!Init
  <1>2. PICK x : x = V!Mounted(saved, V!Formatted)
    OBVIOUS
  <1>3. SameFiles(x, w)
    BY <1>1, <1>2, FormattedShaped, ScanSound
  <1>4. w.disk = V!Formatted
    BY <1>1 DEF V!Scan
  <1>5. PICK n : n = V!Files(x)
    OBVIOUS
  <1>6. V!Now = n /\ V!Durable = n
    BY <1>2, <1>3, <1>4, <1>5, SameFilesAre DEF V!Now, V!Durable
  <1>7. n = [s \in {1} |-> [p \in Pos |-> None]]
    <2>1. n = [u \in DOMAIN x.root |-> [q \in Pos |-> Holds(x, u, q)]]
      BY <1>5, FilesAre
    <2>2. DOMAIN x.root = {1} /\ \A p \in Pos : Holds(x, 1, p) = None
      BY <1>1, <1>2, FormattedEmpty
    <2>3. [q \in Pos |-> Holds(x, 1, q)] = [p \in Pos |-> None]
      BY <2>2
    <2> QED
      BY <2>1, <2>2, <2>3
  <1> QED
    BY <1>6, <1>7 DEF V!Subvols!Init

\* The subvolumes of a volume are as NcfsSubvols promises: a write to one is not
\* seen in another, a snapshot is a copy of its source's files at that moment and
\* stays one, a deletion takes no other subvolume's files, a failed or a lost
\* commit leaves what was committed before, and a mount finds exactly that, through
\* copies on write, blocks shared by deduplication and blocks used again.
THEOREM SubvolumesIsolated == MCSpec => Isolation
  <1> USE StoresConstants
  <1>1. MCInit => VolumeInv /\ V!Subvols!Init
    BY VolumeStarts, VolumeReadsEmpty DEF MCInit
  <1>2. VolumeInv /\ [MCNext]_<<store, vars, volumeVars, fileVars>>
        => VolumeInv' /\ [V!Subvols!Next]_(V!Subvols!vars)
    <2> SUFFICES ASSUME VolumeSound(w, saved), [MCNext]_<<store, vars, volumeVars, fileVars>>
                 PROVE  VolumeSound(w', saved') /\ [V!Subvols!Next]_(V!Subvols!vars)
      BY DEF VolumeInv
    <2>1. CASE VolumeStep
      <3>1. VolumeSound(w', saved') /\ VolumeReads(w, saved, w', saved')
        BY <2>1, VolumeKept DEF VolumeStep
      <3> QED
        BY <3>1, VolumeReadsImplement
    <2>2. CASE UNCHANGED volumeVars
      <3>1. w' = w /\ saved' = saved
        BY <2>2 DEF volumeVars
      <3>2. VolumeReads(w, saved, w', saved')
        BY <3>1, SameItself DEF VolumeReads
      <3> QED
        BY <3>1, <3>2, VolumeReadsImplement
    <2>3. UNCHANGED volumeVars \/ VolumeStep
      BY DEF MCNext, PackageStep, FileStep
    <2> QED
      BY <2>1, <2>2, <2>3
  <1> QED
    BY <1>1, <1>2, PTL DEF MCSpec, Isolation, V!Isolation, V!Subvols!Spec
=============================================================================
