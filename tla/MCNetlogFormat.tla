--------------------------- MODULE MCNetlogFormat ---------------------------
(* Small instances of the formatter: one journal string, the severities and *)
(* facilities at both ends of their ranges, one- and two-line messages.    *)
EXTENDS NetlogFormat

MCText == {"a"}
MCSingleLine == {<<"a">>}
MCMultiLine == {<<"a">>, <<"a", "\n", "a">>}
MCSeverities == {0, 7}
MCFacilities == {1, 23}
MCMaxSent == 2
====
