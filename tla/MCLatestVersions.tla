-------------------------- MODULE MCLatestVersions --------------------------
(***************************************************************************)
(* An instance of LatestVersions for TLC: histories shorter and longer     *)
(* than the vault's, pinned or not, also to a version there is not.        *)
(***************************************************************************)
EXTENDS LatestVersions

MCEntries ==
    {[ObjectName |-> "db", ObjectAlias |-> "", ObjectIndex |-> NoIndex,
      ObjectVersion |-> c[2], ObjectVersionHistory |-> c[1],
      ObjectType |-> "secret", ObjectFormat |-> "", ObjectEncoding |-> "",
      FilePermission |-> NoPermission] :
        c \in {<<2, NoVersion>>, <<2, 2>>, <<3, 9>>, <<9, LatestVersion>>}}
=============================================================================
