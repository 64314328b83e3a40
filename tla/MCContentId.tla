---------------------------- MODULE MCContentId ----------------------------
(***************************************************************************)
(* Regions for ContentId: three sectors of four bytes, values of up to two *)
(* digits.                                                                 *)
(***************************************************************************)
EXTENDS ContentId, Functions

\* Every way to write the line, before and after other lines.
Before == {<<>>, <<"banner", LF>>, <<"banner", CR, LF>>, <<"parent", "CID=", "f", LF>>, <<"blank">>}
Values == {<<>>, <<"0">>, <<"f">>, <<"0", "f">>, <<"f", "f">>, <<"f", "0", "f">>}
Ends == {<<>>, <<LF>>, <<CR, LF>>, <<"blank", LF>>, <<NUL>>}
After == {<<>>, <<"parent", "CID=", "f", LF>>, <<"extent", LF>>, <<"CID=", "0", LF>>,
          <<"parent", "CID=", "f", LF, "extent", LF>>, <<NUL, "extent">>}

Written == {b \o <<"CID=">> \o v \o e \o a : b \in Before, v \in Values, e \in Ends, a \in After}
           \cup {b \o a : b \in Before, a \in After}

Padding(t) == t \o [k \in 1 .. RegionBytes - Len(t) |-> NUL]
AllRegions == {Padding(t) : t \in {w \in Written : Len(w) <= RegionBytes}}

Bytes == UNION {Range(r) : r \in AllRegions}

SomeTrouble == {<<0, 0>>, <<1, 1>>, <<0, 2>>}
=============================================================================
