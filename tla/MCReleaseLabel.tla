---------------------------- MODULE MCReleaseLabel ----------------------------
(***************************************************************************)
(* Three commits and three runs of release_label.py: enough for a release *)
(* on a commit, a second release on it or on a commit below, and a         *)
(* release on a new commit or a branch.                                    *)
(***************************************************************************)
EXTENDS ReleaseLabel

=============================================================================
