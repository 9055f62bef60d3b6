--------------------------- MODULE MCModuleStore ---------------------------
EXTENDS ModuleStore

(* Two sets of parameters that differ in every field; an address has two   *)
(* bytes, and the second collector has one.                                *)
MCParams(names, domain, deposit, price, collector) ==
    [sysnames_pkgpath |-> names, chain_domain |-> domain, default_deposit |-> deposit,
     storage_price |-> price, storage_fee_collector |-> collector]
MCParamSets == {MCParams("names1", "domain1", "deposit1", "price1", <<"a", "a">>),
                MCParams("names2", "domain2", "deposit2", "price2", <<"b">>)}
MCZero == <<"0", "0">>
MCModules == {<<"vm">>, <<"bank">>}
MCSubmodules == {<<"p">>, <<"gno.land/r/a">>, <<"">>}
MCBlobs == {<<"x", "y">>}
=============================================================================
