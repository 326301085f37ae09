---------------------------- MODULE MCOrgIngest ----------------------------
(***************************************************************************)
(* Instances of OrgIngest for TLC.  Two of three values share their hash:  *)
(* they differ in a column that _datum_row leaves out of it, and           *)
(* upsert_datum, too; but neither hash is ever the other's.                *)
(***************************************************************************)
EXTENDS OrgIngest, TLC

CONSTANTS pathA, pathB, v1, v1b, v2, entry, relief, cash, i1, i2, w1

MCHash == (v1 :> "h1") @@ (v1b :> "h1") @@ (v2 :> "h2")
MCWriterHash == (v1 :> "w1") @@ (v1b :> "w1") @@ (v2 :> "w2")

Of(a, b, c) == [data |-> (pathA :> a) @@ (pathB :> b), class |-> (entry :> c)]

(* Successive research files: one value is corrected, another withdrawn;   *)
(* or one statement is reclassified.                                       *)
Corrections ==
    {Of(v1, v1, relief), Of(v2, None, relief), Of(v2, v1, cash)}

(* A file in which only the classification of a statement has changed.     *)
NewClass == {Of(v1, v1, relief), Of(v1, v1, cash)}
=============================================================================
