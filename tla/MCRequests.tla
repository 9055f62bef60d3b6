---------------------------- MODULE MCRequests ----------------------------
EXTENDS GnovmRequests

MCLoad == [p \in Packages |-> 2]
MCNeed == [e \in Exprs |-> IF e = "cheap" THEN 1 ELSE 3]
MCCost == [t \in MsgTypes |-> IF t \in {"Send", "UpdateParams"} THEN 1 ELSE 2]
MCForms == {<<>>, [malformed |-> ""], [args |-> <<"a">>],
            [expr |-> "cheap"], [expr |-> "dear", max_gas |-> 4],
            [expr |-> "cheap", max_gas |-> 3, pkg_path |-> "gno.land/r/other"],
            [expr |-> "bad", max_gas |-> 15],
            [args |-> <<"a", "b">>, pkg_path |-> "gno.land/r/other"]}
=============================================================================
