------------------------------- MODULE MCWire -------------------------------
(* The constants of the run of GnovmWire. *)
EXTENDS GnovmWire

MCKinds == DOMAIN Fields \ {"Coin"}
\* Nothing; a text that looks like an empty field 1; one whose length takes
\* two bytes; a number.
MCTexts == {<<>>, <<10, 0>>, [k \in 1..130 |-> 18], <<43, 53>>}
\* "0", "5" and "+5": the numbers that occur here.
MCNumberOf == [s \in {<<48>>, <<53>>, <<43, 53>>} |-> IF s = <<48>> THEN <<>> ELSE <<53>>]
MCUints == {0, 200, Uint64 - 1}
\* Tags of the fields 1 to 3, of a group, of its end; a small length; a byte
\* that announces another.
MCBytes == {0, 2, 10, 11, 12, 18, 26, 24, 130, 255}
=============================================================================
