------------------------------ MODULE MCKeeper ------------------------------
(* Small instances of GnovmKeeper for TLC; the .cfg files give the sets. *)
EXTENDS GnovmKeeper, TLC

(* The two transactions are interchangeable, as long as no liveness        *)
(* property is checked.                                                    *)
TxSymmetry == Permutations(Txs)
=============================================================================
