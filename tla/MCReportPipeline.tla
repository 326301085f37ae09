-------------------------- MODULE MCReportPipeline ---------------------------
(* Small instances of ReportPipeline.  The page of a report may read "old"   *)
(* or "new"; only the old text contains the quotes.                          *)
EXTENDS ReportPipeline, TLC

NoForeign == {}

OldAndNew == {"old", "new"}
OnlyOld == {"old"}

GoneClaim == {"gone"}
QuotesOfGone == [c \in GoneClaim |-> {"old"}]

(* "counted" is "said" with an amount its quote does not contain.            *)
SaidAndCounted == {"said", "counted"}
QuotesOfSaid == [c \in SaidAndCounted |-> {"old"}]
Counted == {"counted"}
WithoutAmount == [c \in SaidAndCounted |-> "said"]
NoAmounts == {}
AsAnswered == [c \in GoneClaim |-> c]

OnePrompt == {"v3"}
TwoPrompts == {"v3", "v4"}
UnitCost == {1}
CheapOrDear == {1, 2}

Symmetry == Permutations(Fetchers) \cup Permutations(Extractors)
=============================================================================
