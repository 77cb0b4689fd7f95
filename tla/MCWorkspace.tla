---------------------------- MODULE MCWorkspace -----------------------------
(* Workspace on a committed file and one that is not, with every kind of entry. *)
EXTENDS Workspace, TLC

MCCommitted == [main |-> "v1", notes |-> None]
MCEntries ==
  {Missing, File("v1", "rw"), File("v2", "rw"), File("v2", "r"), Link("v2"), Directory, Locked("v1")}
Plain == {Missing, File("v1", "rw"), File("v2", "rw"), File("v3", "rw")}
\* A clean tree, and one with uncommitted work in both files.
MCTrees == {[main |-> File("v1", "rw"), notes |-> Missing], [main |-> File("v2", "rw"), notes |-> File("v1", "rw")]}
CleanTrees == {[main |-> File("v1", "rw"), notes |-> Missing]}
\* Successive versions of one committed file.
Versions == {File("v2", "rw"), File("v3", "rw")}
OneFile == {[main |-> File("v1", "rw")]}
ByName == <<"done", "explore", "fix", "implement", "review", "verify">>
=============================================================================
