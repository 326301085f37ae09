------------------------------- MODULE MCBoard -------------------------------
(* A small instance of Board: two organisations of the same common name, one  *)
(* of which is also reported under it ("wv"), and a name that is nobody's.    *)
(* The second of the three statements has neither a date nor a place, the     *)
(* others are of the same day.                                                *)
EXTENDS Board

Names == [s \in {"s1", "s2", "s3"} |-> IF s = "s3" THEN "team" ELSE "wv"]
Owners == [n \in {"wv", "team"} |-> IF n = "wv" THEN "o1" ELSE None]
Places == [s \in {"s1", "s2", "s3"} |->
            CASE s = "s1" -> {"d1", "d2"} [] s = "s2" -> {} [] s = "s3" -> {"d2"}]
Grades == [s \in {"s1", "s2", "s3"} |-> IF s = "s1" THEN "self" ELSE "third"]
Days == [s \in {"s1", "s2", "s3"} |-> IF s = "s2" THEN 0 ELSE 1]
Types == [o \in {"o1", "o2"} |-> IF o = "o1" THEN "ngo" ELSE "unknown"]
Seats == [o \in {"o1", "o2"} |-> IF o = "o1" THEN "NP" ELSE None]
Ranks == [k \in {"o1", "o2", "wv", "team"} |-> IF k = "team" THEN 1 ELSE 2]
Found == [w \in {"vision"} |-> {"o1", "wv"}]

Everything == [BoardAsk EXCEPT !.limit = 1]
InDistrict == [Everything EXCEPT !.district = {"d2"}]
ApiAsks ==
    {[ask EXCEPT !.sort = sort] : ask \in {Everything, InDistrict}, sort \in {"latest", "name", "least_data"}}
    \cup {[Everything EXCEPT !.response = "no"], [InDistrict EXCEPT !.response = "no"],
          [Everything EXCEPT !.response = "yes"], [Everything EXCEPT !.verification = {"third"}],
          [Everything EXCEPT !.hq = "local"], [Everything EXCEPT !.hq = "international"],
          [Everything EXCEPT !.orgType = {"unknown"}], [Everything EXCEPT !.q = "vision"]}
    \cup {[ask EXCEPT !.list = "statements"] :
             ask \in {Everything, InDistrict, [Everything EXCEPT !.org = "o1"],
                      [Everything EXCEPT !.since = 1]}}

Circulating ==
    {[districts |-> {"d2", "gone"}, tab |-> "chronological"], [hasResponse |-> "1", hq |-> {"local"}],
     [sort |-> "amount", q |-> "vision"]}
=============================================================================
