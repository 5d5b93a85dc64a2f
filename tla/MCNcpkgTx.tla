------------------------------ MODULE MCNcpkgTx ------------------------------
(***************************************************************************)
(* Two paths and one directory the installer makes and removes.  Both      *)
(* files are in it (OneDir), or one is in a directory the installer keeps  *)
(* (OneKept).                                                              *)
(***************************************************************************)
EXTENDS NcpkgTx, TLC

CONSTANTS main, lib, app, a, b

MCPaths == {main, lib}
MCDirs == {app}
OneDir == (main :> app @@ lib :> app)
OneKept == (main :> app @@ lib :> None)
MCData == {a, b}
=============================================================================
