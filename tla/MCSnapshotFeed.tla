--------------------------- MODULE MCSnapshotFeed ---------------------------
(***************************************************************************)
(* Instances of SnapshotFeed for TLC.                                      *)
(***************************************************************************)
EXTENDS SnapshotFeed, TLC

\* Two tables are enough to read one before and one after a commit.
MCOrder == <<"nodes", "sessions">>

MCSymmetry == Permutations(Nodes)

=============================================================================
