------------------------------- MODULE Evidence -------------------------------
(***************************************************************************)
(* What the pipeline promises to whoever checks a published statement      *)
(* against its source, with no runs, attempts, prompts' deploys or costs   *)
(* in it.  A report holds no text and then one text after another.  Claims *)
(* about it are stored together, all with the verdict of one text it has   *)
(* held; a claim that passes has no amount that its quote lacks.  A        *)
(* statement that has an organisation keeps one.  ReportPipeline is the    *)
(* detailed specification that implements it.                              *)
(***************************************************************************)
EXTENDS Naturals

CONSTANTS ReportId, Text, Claim, QuotedIn, Unsupported, Prompt

VARIABLES
    texts,    \* the texts a report has held
    status,   \* the verdict on a claim about a report
    prompt,   \* the prompt it was last found with
    matched   \* the statements whose organisation is known

evars == <<texts, status, prompt, matched>>

None == "none"
Row == ReportId \X Claim

EvidenceInit ==
    /\ texts = [r \in ReportId |-> {}]
    /\ status = [row \in Row |-> "absent"]
    /\ prompt = [row \in Row |-> None]
    /\ matched = {}

Verdict(c, t) == IF t \in QuotedIn[c] THEN "auto" ELSE "rejected_unverbatim"

Arrive ==
    /\ texts' \in [ReportId -> SUBSET Text]
    /\ \A r \in ReportId : texts[r] \subseteq texts'[r]
    /\ UNCHANGED <<status, prompt, matched>>

Publish(r, claims, t, v) ==
    /\ t \in texts[r]
    /\ \A c \in claims : t \in QuotedIn[c] => c \notin Unsupported
    /\ status' = [row \in Row |->
          IF row \in {r} \X claims THEN Verdict(row[2], t) ELSE status[row]]
    /\ prompt' = [row \in Row |-> IF row \in {r} \X claims THEN v ELSE prompt[row]]
    /\ UNCHANGED <<texts, matched>>

Attribute ==
    /\ matched \subseteq matched'
    /\ matched' \subseteq matched \cup {row \in Row : status[row] = "auto"}
    /\ UNCHANGED <<texts, status, prompt>>

EvidenceNext ==
    \/ Arrive
    \/ \E r \in ReportId, claims \in SUBSET Claim, t \in Text, v \in Prompt :
          Publish(r, claims, t, v)
    \/ Attribute

EvidenceSpec == EvidenceInit /\ [][EvidenceNext]_evars
=============================================================================
