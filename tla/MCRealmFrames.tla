---------------------------- MODULE MCRealmFrames ----------------------------
(* A small instance of RealmFrames for TLC; the .cfg file gives the sets. *)
EXTENDS RealmFrames, TLC

(* Nothing tells the realms apart. *)
RealmSymmetry == Permutations(Realms)
=============================================================================
