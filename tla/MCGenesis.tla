----------------------------- MODULE MCGenesis -----------------------------
(* Small instances of GnovmGenesis for TLC; the .cfg files give the sets. *)
EXTENDS GnovmGenesis, TLC

CONSTANT BadDomain  \* a chain domain that the VM refuses

(* The VM refuses one domain, whatever the collector. *)
MCValid == {p \in VmParams : p.chain_domain # BadDomain}

(* Nothing tells the other chain domains apart. *)
GenesisSymmetry == Permutations(Domains \ {BadDomain})
=============================================================================
