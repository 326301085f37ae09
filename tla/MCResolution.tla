---------------------------- MODULE MCResolution -----------------------------
(* Small instances of Resolution.  "wv" and "w.v." are spellings of one name. *)
(* "said" names a place; "record" is a hand-researched statement of the same  *)
(* report, its place unknown to the first district table; "wrong" is a        *)
(* rejected statement that names the place too.                               *)
EXTENDS Resolution

Texts == {"wv", "w.v.", "timure", "the river", "..."}
NormOf == [t \in Texts |-> IF t = "w.v." THEN "wv" ELSE t]
Statements == {"said", "record", "wrong"}
OneReport == [s \in Statements |-> "r1"]
Names == [s \in Statements |-> CASE s = "said" -> "w.v." [] s = "record" -> "wv" [] OTHER -> "..."]
Places == [s \in Statements |-> IF s = "record" THEN {"the river"} ELSE {"timure"}]
Record == [s \in {"record"} |-> "o1"]
RecordOfOther == [s \in {"record"} |-> "o2"]

(* Two organisations claim one name; the next release lists them in the      *)
(* other order.                                                              *)
Claimed == <<<<"wv", "o1">>, <<"w.v.", "o2">>, <<"...", "o1">>>>
Reordered == <<<<"w.v.", "o2">>, <<"wv", "o1">>>>
OrgFiles == <<Claimed, Reordered>>

Settlement == <<<<"timure", "d1">>>>
WithRiver == <<<<"timure", "d1">>, <<"the river", "d1">>>>
DistrictTables == <<Settlement, WithRiver>>
=============================================================================
