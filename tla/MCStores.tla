------------------------------ MODULE MCStores ------------------------------
(***************************************************************************)
(* What is stored, on small instances: the packages in the database        *)
(* (NcpkgDb), the blocks of a volume (NcfsRefs) and the bytes of its files *)
(* (NcfsFiles).  A behaviour is one of the three; the others stay in their *)
(* first state.                                                            *)
(*                                                                         *)
(* Packages: five ids, libraries that are shared, private, replaced and    *)
(* shipped in conflicting versions; a plugin that extends another package; *)
(* one command two packages want; stray files.                             *)
(***************************************************************************)
EXTENDS NcpkgDb, TLC

CONSTANTS Blocks, Pos, Data, Ids, MaxOps, MaxLeaks,
    Inos, WINDOW, MAX_DIRTY, Writes, MaxSize, MaxFileOps

VARIABLES store, w, saved, failed, ops,
    size, extents, windows, dirty_bytes, last, refused, durable, truth, lost, synced, fileOps

Copy(v, bytes) == [ver |-> v, bytes |-> bytes]
Use(req, ship, share) == [req |-> req, ship |-> ship, share |-> share]
Pkg(id, v, kind, cmds, hosts, uses) ==
    [id |-> id, ver |-> v, kind |-> kind, cmds |-> cmds, hosts |-> hosts, uses |-> uses,
     fits |-> TRUE, sig |-> "signed", ring |-> 3]

MCCatalogue ==
    {Pkg("A", 1, "gui", {"c"}, {}, "L" :> Use({1, 2}, Copy(1, "x"), TRUE)),
     Pkg("A", 2, "gui", {"c"}, {}, "L" :> Use({2, 3}, Copy(2, "x"), TRUE)
                                   @@ "M" :> Use({1}, Copy(1, "x"), FALSE)),
     Pkg("B", 1, "gui", {}, {"A"}, "L" :> Use({1, 2, 3}, None, TRUE)),
     Pkg("B", 2, "cli", {"c"}, {}, "L" :> Use({1}, Copy(1, "y"), TRUE)),
     Pkg("C", 1, "lib", {}, {}, "L" :> Use({3}, Copy(3, "x"), TRUE)),
     Pkg("C", 2, "lib", {}, {}, "L" :> Use({2, 3}, Copy(2, "y"), TRUE)),
     Pkg("D", 1, "gui", {}, {"clock"}, "L" :> Use({2, 3}, Copy(3, "x"), TRUE)
                                       @@ "M" :> Use({1, 2}, Copy(2, "x"), TRUE)),
     Pkg("D", 2, "gui", {"d"}, {"A"}, "M" :> Use({1}, Copy(1, "y"), TRUE)),
     [Pkg("E", 1, "gui", {}, {}, << >>) EXCEPT !.sig = "unsigned", !.ring = 0]}

MCStray == {<<"bin", "c">>, <<"lib", "M">>}

MCBlocks == 1 .. 10

\* They tell apart a byte written and a zero.
MCWrites == {<<1>>, <<1, 1>>}

V == INSTANCE NcfsRefs

F == INSTANCE NcfsFiles WITH failed <- refused, ops <- fileOps, MaxOps <- MaxFileOps

ASSUME StoresConstants == V!VolumeConstants /\ F!FilesConstants

volumeVars == <<w, saved, failed, ops>>

fileVars == <<size, extents, windows, dirty_bytes, last, refused, durable, truth, lost,
              synced, fileOps>>

MCInit == store \in {"packages", "volume", "files"} /\ Init /\ V!Init /\ F!Init

PackageStep == store = "packages" /\ Next /\ UNCHANGED <<store, volumeVars, fileVars>>

VolumeStep == store = "volume" /\ V!Next /\ UNCHANGED <<store, vars, fileVars>>

FileStep == store = "files" /\ F!Next /\ UNCHANGED <<store, vars, volumeVars>>

MCNext == PackageStep \/ VolumeStep \/ FileStep

MCSpec == MCInit /\ [][MCNext]_<<store, vars, volumeVars, fileVars>>

-----------------------------------------------------------------------------
(* The properties of the parts that are named here.  Most of the time goes *)
(* into the planner, which the other parts do not touch.                   *)

\* Every plan can be executed (NcpkgDb).
EveryPlanExecutable == store = "packages" => PlansExecutable

\* Every block's count is the number of references to it (NcfsRefs).
RefsExact == store = "volume" => V!RefsExact

\* What one subvolume does is not seen in another (NcfsRefs).
Isolation == V!Isolation

\* Every byte of a file reads as it was last written (NcfsFiles).
FilesTrue == store = "files" => F!FilesTrue
=============================================================================
