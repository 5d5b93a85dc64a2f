------------------------------ MODULE NcpkgDb ------------------------------
(***************************************************************************)
(* The package database and the planner: which packages and shared         *)
(* libraries are installed, who uses which copy, and what an install, an   *)
(* upgrade or a removal does to the database and to the disk.  A planned   *)
(* transaction takes effect in one step: NcpkgTx says why it may.          *)
(*                                                                         *)
(* A version is a number, a requirement the set of versions it matches, a  *)
(* copy of a library its version and its bytes.                            *)
(***************************************************************************)
EXTENDS Naturals, FiniteSets, Functions

CONSTANTS
    Catalogue,        \* packages somebody may install
    Builtin,          \* ids of the built-in apps
    ReservedCommands, \* command names the shell owns
    Stray,            \* paths of files nobody owns
    RequireSignature, \* Policy::require_signature
    CommunityRing0,   \* Policy::community_ring0
    None

VARIABLES
    packages,  \* id -> [ver, kind, hosts, cmds, uses]
    libraries, \* name -> [copy, provided_by, required_by, ref_count]
    disk       \* path -> content

vars == <<packages, libraries, disk>>

\* What Meta::parse makes sure of: a shipped library satisfies the package's
\* own requirement for it, and a lib package shares what it ships.
ASSUME ManifestsConsistent ==
    \A pkg \in Catalogue :
        /\ pkg.id # None
        /\ \A l \in DOMAIN pkg.uses :
            LET u == pkg.uses[l] IN
            u.ship # None => u.ship.ver \in u.req /\ (pkg.kind = "lib" => u.share)

LibPath(l) == <<"lib", l>>

\* Every path package id owns when installed as record p.
FilesOf(id, p) ==
    {<<"meta", id>>} \cup (IF p.kind = "lib" THEN {} ELSE {<<"app", id>>})
    \cup {<<"bin", c>> : c \in p.cmds}
    \cup {<<"plugin", h, id>> : h \in p.hosts}
    \cup {<<"private", id, l>> : l \in {l \in DOMAIN p.uses : ~p.uses[l].global}}

\* The package of record p uses the shared copy of library l.
UsesShared(p, l) == l \in DOMAIN p.uses /\ p.uses[l].global

Without(f, S) == Restrict(f, DOMAIN f \ S)

Init ==
    /\ packages = [i \in {} |-> None] /\ libraries = [l \in {} |-> None]
    /\ disk = [p \in Stray |-> "stray"]

----------------------------------------------------------------------------
(* Planning an install.                                                    *)

\* The package fits this machine and its signatures allow it.
Admitted(pkg) ==
    /\ pkg.fits /\ pkg.id \notin Builtin
    /\ pkg.sig # "tampered"
    /\ ~(RequireSignature /\ pkg.sig = "unsigned")
    /\ pkg.ring = 0 => pkg.sig = "ring0" \/ CommunityRing0
    /\ pkg.cmds \cap ReservedCommands = {}

\* The same version needs --reinstall, an older one --allow-downgrade.
VersionAllowed(pkg, again) ==
    pkg.id \in DOMAIN packages => pkg.ver > packages[pkg.id].ver \/ again

\* The old version's references, dropped before the new version is planned.
Released(id) ==
    [l \in DOMAIN libraries |->
        IF id \in DOMAIN packages /\ UsesShared(packages[id], l)
        THEN [libraries[l] EXCEPT !.required_by = @ \ {id}]
        ELSE libraries[l]]

Others(id) == Without(packages, {id})

\* A plugin's host is built in or installed.
HostsKnown(pkg) == pkg.hosts \subseteq Builtin \cup DOMAIN Others(pkg.id)

\* The shipped copy replaces the global one: nobody uses that, or it is older
\* and all its users accept the new one.
MutUpgradesAlone(pkg, l, libs) ==
    LET u == pkg.uses[l]  g == libs[l] IN
    u.ship # None /\ u.share /\ u.ship # g.copy /\ u.ship.ver > g.copy.ver
Upgrades(pkg, l, libs) ==
    LET u == pkg.uses[l]  g == libs[l] IN
    /\ u.ship # None /\ u.share /\ u.ship.ver \in u.req /\ u.ship # g.copy
    /\ \/ g.required_by = {}
       \/ /\ u.ship.ver > g.copy.ver
          /\ \A d \in g.required_by : u.ship.ver \in packages[d].uses[l].req

\* What becomes of one library the package uses.
Choice(pkg, l, libs) ==
    LET u == pkg.uses[l] IN
    IF l \in DOMAIN libs
    THEN IF Upgrades(pkg, l, libs) THEN "global"
         ELSE IF libs[l].copy.ver \in u.req THEN "share"
         ELSE IF u.ship = None THEN "missing"
         ELSE IF pkg.kind = "lib" THEN "conflict" ELSE "private"
    ELSE IF u.ship = None THEN "missing"
         ELSE IF u.share THEN "global" ELSE "private"

\* The libraries the package gets by choice c, and the users of library l after.
Chosen(pkg, libs, c) == {l \in DOMAIN pkg.uses : Choice(pkg, l, libs) = c}
Users(pkg, libs, l) ==
    (IF l \in DOMAIN libs THEN libs[l].required_by ELSE {})
    \cup (IF l \in Chosen(pkg, libs, "global") \cup Chosen(pkg, libs, "share")
          THEN {pkg.id} ELSE {})

\* Libraries no package uses any more go.
Kept(pkg, libs) ==
    {l \in DOMAIN libs \cup Chosen(pkg, libs, "global") : Users(pkg, libs, l) # {}}

\* A provider that is gone, or no longer uses the library, is nobody.
Provider(pkg, libs, l) ==
    LET by == IF l \in Chosen(pkg, libs, "global") THEN pkg.id ELSE libs[l].provided_by
        stays == IF by = pkg.id THEN by \in Users(pkg, libs, l) ELSE by \in DOMAIN Others(pkg.id)
    IN  IF stays THEN by ELSE None

NewLibraries(pkg, libs) ==
    [l \in Kept(pkg, libs) |->
        [copy |-> IF l \in Chosen(pkg, libs, "global") THEN pkg.uses[l].ship ELSE libs[l].copy,
         provided_by |-> Provider(pkg, libs, l),
         required_by |-> Users(pkg, libs, l),
         ref_count |-> Cardinality(Users(pkg, libs, l))]]

\* Every user of a replaced copy records the new version.
MutTold(pkg, libs, p) == p
Told(pkg, libs, p) ==
    [ver |-> p.ver, kind |-> p.kind, hosts |-> p.hosts, cmds |-> p.cmds,
     uses |-> [l \in DOMAIN p.uses |->
        [req |-> p.uses[l].req, global |-> p.uses[l].global,
         ver |-> IF l \in Chosen(pkg, libs, "global") /\ p.uses[l].global
                 THEN pkg.uses[l].ship.ver ELSE p.uses[l].ver]]]

\* What the database records of the package itself.
Record(pkg, libs) ==
    [ver |-> pkg.ver, kind |-> pkg.kind, hosts |-> pkg.hosts, cmds |-> pkg.cmds,
     uses |-> [l \in DOMAIN pkg.uses |->
        [req |-> pkg.uses[l].req,
         global |-> Choice(pkg, l, libs) # "private",
         ver |-> IF Choice(pkg, l, libs) = "share" THEN libs[l].copy.ver
                 ELSE pkg.uses[l].ship.ver]]]

NewPackages(pkg, libs) ==
    [d \in DOMAIN packages \cup {pkg.id} |->
        IF d = pkg.id THEN Record(pkg, libs) ELSE Told(pkg, libs, packages[d])]

\* A plan: the new database, the paths moved aside, the contents placed.
PlanInstall(pkg, force) ==
    LET libs == Released(pkg.id)
        np == NewPackages(pkg, libs)
        nl == NewLibraries(pkg, libs)
        fresh == Chosen(pkg, libs, "global")
        own == FilesOf(pkg.id, Record(pkg, libs))
        aside == (IF pkg.id \in DOMAIN packages THEN FilesOf(pkg.id, packages[pkg.id]) ELSE {})
                 \cup {LibPath(l) : l \in (fresh \cap DOMAIN libs) \cup (DOMAIN libs \ DOMAIN nl)}
        placed == [p \in own \cup {LibPath(l) : l \in fresh} |->
                    IF p \in own THEN <<pkg.id, pkg.ver>> ELSE pkg.uses[p[2]].ship]
        clash == (DOMAIN placed \ aside) \cap DOMAIN disk
    IN  [pk |-> np, lib |-> nl, pl |-> placed,
         aside |-> aside, bk |-> aside \cup (IF force THEN clash ELSE {}), clash |-> clash]

\* Nothing lands on what another package owns, nor on a shared library, nor,
\* without --force, on what nobody owns.
MutStrayIgnored(pkg, pn, force) ==
    \A p \in DOMAIN pn.pl \ pn.aside :
        \A d \in DOMAIN Others(pkg.id) : p \notin FilesOf(d, packages[d])
NoConflict(pkg, pn, force) ==
    /\ \A p \in DOMAIN pn.pl \ pn.aside :
        \A d \in DOMAIN Others(pkg.id) : p \notin FilesOf(d, packages[d])
    /\ \A l \in DOMAIN libraries :
        LibPath(l) \in DOMAIN pn.pl \ pn.aside => pn.lib[l].provided_by = pkg.id
    /\ pn.clash = {} \/ force

Installable(pkg, force, again) ==
    /\ Admitted(pkg) /\ VersionAllowed(pkg, again) /\ HostsKnown(pkg)
    /\ \A l \in DOMAIN pkg.uses :
            Choice(pkg, l, Released(pkg.id)) \notin {"missing", "conflict"}
    /\ NoConflict(pkg, PlanInstall(pkg, force), force)

----------------------------------------------------------------------------
(* Planning a removal.                                                     *)

\* No other package's plugins extend this one.
NoDependents(id) == \A d \in DOMAIN packages \ {id} : id \notin packages[d].hosts

MutRemoveKeepsCopy(id) ==
    LET libs == Released(id)
        gone == {l \in DOMAIN libs : libs[l].required_by = {}}
    IN  [pk |-> Others(id),
         lib |-> [l \in DOMAIN libs \ gone |->
                    [libs[l] EXCEPT !.ref_count = Cardinality(libs[l].required_by),
                                    !.provided_by = IF @ = id THEN None ELSE @]],
         bk |-> FilesOf(id, packages[id]), pl |-> [p \in {} |-> None]]
PlanRemove(id) ==
    LET libs == Released(id)
        used == {l \in DOMAIN packages[id].uses : UsesShared(packages[id], l)}
        gone == {l \in used : libs[l].required_by = {}}
    IN  [pk |-> Others(id),
         lib |-> [l \in DOMAIN libs \ gone |->
                    IF l \in used
                    THEN [libs[l] EXCEPT !.ref_count = Cardinality(libs[l].required_by),
                                         !.provided_by = IF @ = id THEN None ELSE @]
                    ELSE libs[l]],
         bk |-> FilesOf(id, packages[id]) \cup {LibPath(l) : l \in gone},
         pl |-> [p \in {} |-> None]]

----------------------------------------------------------------------------

\* Manager::execute, as one step.
Execute(pn) ==
    /\ packages' = pn.pk /\ libraries' = pn.lib
    /\ disk' = [p \in DOMAIN pn.pl \cup (DOMAIN disk \ pn.bk) |->
                    IF p \in DOMAIN pn.pl THEN pn.pl[p] ELSE disk[p]]

Install(pkg, force, again) ==
    /\ Installable(pkg, force, again)
    /\ Execute(PlanInstall(pkg, force))

Remove(id) ==
    /\ id \in DOMAIN packages /\ NoDependents(id)
    /\ Execute(PlanRemove(id))

Next ==
    \/ \E pkg \in Catalogue, force, again \in BOOLEAN : Install(pkg, force, again)
    \/ \E id \in DOMAIN packages : Remove(id)

Spec == Init /\ [][Next]_vars

----------------------------------------------------------------------------
(* Properties.                                                             *)

\* Db::rebuild_refs, the repair for counts that drifted: recount every library
\* from what the packages say they use, and drop those nobody uses.
RebuildRefs ==
    LET users(l) == {i \in DOMAIN packages : UsesShared(packages[i], l)}
    IN  [l \in {l \in DOMAIN libraries : users(l) # {}} |->
            [libraries[l] EXCEPT !.required_by = users(l), !.ref_count = Cardinality(users(l)),
                                 !.provided_by = IF @ \in DOMAIN packages THEN @ ELSE None]]

\* Db::check accepts the database: a plan that failed it would be refused as an
\* internal error, so no sequence of operations may ever produce one.  The
\* users kept incrementally never drift from the recount.
DbCheck ==
    /\ \A i, k \in DOMAIN packages :
            i # k => FilesOf(i, packages[i]) \cap FilesOf(k, packages[k]) = {}
    /\ \A i \in DOMAIN packages : \A l \in DOMAIN packages[i].uses :
            UsesShared(packages[i], l) =>
                /\ l \in DOMAIN libraries
                /\ i \in libraries[l].required_by
                /\ packages[i].uses[l].ver = libraries[l].copy.ver
    /\ \A l \in DOMAIN libraries :
            LET b == libraries[l] IN
            /\ b.required_by # {} /\ b.ref_count = Cardinality(b.required_by)
            /\ \A i \in b.required_by : i \in DOMAIN packages /\ UsesShared(packages[i], l)
            /\ b.provided_by \in DOMAIN packages \cup {None}
            /\ \A i \in DOMAIN packages : LibPath(l) \notin FilesOf(i, packages[i])
    /\ RebuildRefs = libraries

\* Every package gets a version of every library it uses that it accepts, and
\* every plugin its host: at install time and through every later upgrade,
\* removal and change of the shared copies.
NeedsMet ==
    \A i \in DOMAIN packages :
        /\ \A l \in DOMAIN packages[i].uses :
                packages[i].uses[l].ver \in packages[i].uses[l].req
        /\ packages[i].hosts \subseteq Builtin \cup DOMAIN packages

\* The disk holds what the database records and nothing it forgot: the files of
\* each package at its version, the copy of each shared library, and files
\* that were there before and nobody owns.
DiskMatches ==
    /\ \A i \in DOMAIN packages : \A p \in FilesOf(i, packages[i]) :
            p \in DOMAIN disk /\ disk[p] = <<i, packages[i].ver>>
    /\ \A l \in DOMAIN libraries :
            LibPath(l) \in DOMAIN disk /\ disk[LibPath(l)] = libraries[l].copy
    /\ \A p \in DOMAIN disk :
            \/ p \in Stray
            \/ \E l \in DOMAIN libraries : p = LibPath(l)
            \/ \E i \in DOMAIN packages : p \in FilesOf(i, packages[i])

\* Every plan can be executed: what it moves aside exists and what it places
\* lands where nothing is left (the precondition of NcpkgTx).  What may be
\* installed may be installed again: no plan is left out.
PlansExecutable ==
    /\ \A pkg \in Catalogue, force \in BOOLEAN :
        Installable(pkg, force, TRUE) =>
            LET pn == PlanInstall(pkg, force) IN
            pn.bk \subseteq DOMAIN disk /\ DOMAIN pn.pl \cap (DOMAIN disk \ pn.bk) = {}
    /\ \A id \in DOMAIN packages : PlanRemove(id).bk \subseteq DOMAIN disk

\* "A global copy is never downgraded by an install or a removal."
NeverDowngraded ==
    [][\A l \in DOMAIN libraries \cap DOMAIN libraries' :
        libraries'[l].copy.ver >= libraries[l].copy.ver]_vars
=============================================================================
