------------------------------ MODULE MCOggPage ------------------------------
(***************************************************************************)
(* The script of OggPage on the fixture files of OggFixtures (Files <-    *)
(* MCFiles in the cfg).                                                   *)
(***************************************************************************)
EXTENDS OggPage, OggFixtures

=============================================================================
