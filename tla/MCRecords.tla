------------------------------ MODULE MCRecords ------------------------------
(* A small instance of Records: the presence mode (a figure with one value     *)
(* more than the others) and one register row; an organisation under a public  *)
(* second-level suffix, its subdomain, its neighbour under the same suffix,    *)
(* and the suffix itself.                                                      *)
EXTENDS Records

Nrcs == <<"nrcs", "org", "np">>
Hosts == {NoHost, Nrcs, <<"donation", "nrcs", "org", "np">>, <<"care", "org", "np">>, <<"org", "np">>}
Suffixes == {<<"org", "np">>}
TwoSites == {NoHost, Nrcs, <<"care", "org", "np">>}

(* Bound: a behaviour edits the data or the link.  Neither reads the other.    *)
DataOrLink ==
    \/ edits = 0
    \/ /\ website = NoHost /\ entry = NoEntry
       /\ {dataset.website, db.website, db.channel, web.website, web.channel} = {NoHost}
=============================================================================
