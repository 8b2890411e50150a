---------------------------- MODULE MCCommitLog ----------------------------
(* CommitLog on small instances. *)
EXTENDS CommitLog
=============================================================================
