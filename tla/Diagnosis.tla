----------------------------- MODULE Diagnosis -----------------------------
(***************************************************************************)
(* DiagnosisEngine (app/services/diagnoser.py) and the guard around the AI *)
(* provider (app/services/ai_diagnoser.py).                                *)
(*                                                                         *)
(* A failure is what the rules ask of it: the HTTP status, the groups of   *)
(* phrases that its texts contain, and whether its node is a webhook.      *)
(* Confidence and threshold are percentages.                               *)
(***************************************************************************)
EXTENDS Integers, Sequences

CONSTANTS
  None,
  AiEnabled,  \* AI_DIAGNOSIS_ENABLED, with a provider configured
  Threshold   \* AI_BASELINE_CONFIDENCE_THRESHOLD

ASSUME DiagnosisAssumption == AiEnabled \in BOOLEAN /\ Threshold \in 0..100

(* The groups of phrases are named after the class they speak for.          *)
Phrases == {"authentication", "rate_limit", "timeout", "network",
            "data_mapping", "webhook", "configuration"}

Classes == Phrases \cup {"unknown"}

Rule(matches, class, confidence, retrySafe) ==
  [matches |-> matches, class |-> class, confidence |-> confidence,
   retrySafe |-> retrySafe]

(* In the order of the code: status codes before texts.                     *)
Rules(f) == <<
  Rule(f.status \in {401, 403},        "authentication", 98, FALSE),
  Rule(f.status = 429,                 "rate_limit",     99, TRUE),
  Rule(f.status \in {408, 504},        "timeout",        97, TRUE),
  Rule("authentication" \in f.phrases, "authentication", 95, FALSE),
  Rule("rate_limit" \in f.phrases,     "rate_limit",     96, TRUE),
  Rule("timeout" \in f.phrases,        "timeout",        93, TRUE),
  Rule("network" \in f.phrases,        "network",        92, TRUE),
  Rule("data_mapping" \in f.phrases,   "data_mapping",   89, FALSE),
  Rule(f.webhookNode /\ (f.status = 404 \/ "webhook" \in f.phrases),
                                       "webhook",        92, FALSE),
  Rule("configuration" \in f.phrases,  "configuration",  87, FALSE),
  Rule(TRUE,                           "unknown",        35, FALSE) >>

FirstMatch(rules) ==
  CHOOSE i \in DOMAIN rules :
    rules[i].matches /\ \A j \in 1..(i - 1) : ~rules[j].matches

Diagnose(f) ==
  LET rule == Rules(f)[FirstMatch(Rules(f))] IN
    [class |-> rule.class, confidence |-> rule.confidence,
     retrySafe |-> rule.retrySafe, insight |-> None]

-----------------------------------------------------------------------------
ShouldCallAI(diagnosis) ==
  AiEnabled /\ (diagnosis.class = "unknown" \/ diagnosis.confidence < Threshold)

(* What a provider answers is a sequence of lines: a fence, prose, a line   *)
(* with a lone bracket, an object that breaks the schema ("extra"), or one  *)
(* that keeps it, named by its class.                                       *)
Objects == Classes \cup {"extra"}

(* _parse_json_object drops the first and the last line of a fenced answer  *)
(* of three lines or more.                                                  *)
Unfenced(reply) ==
  IF Len(reply) >= 3 /\ reply[1] = "fence" THEN SubSeq(reply, 2, Len(reply) - 1)
  ELSE reply

(* Mutant: the text up to the first closing bracket.                        *)
FirstBrackets(lines) ==
  LET opens  == {i \in DOMAIN lines : lines[i] \in Objects \cup {"{"}}
      closes == {i \in DOMAIN lines : lines[i] \in Objects \cup {"}"}}
  IN  {i \in opens \cap closes : /\ \A j \in opens : i <= j
                                /\ \A j \in closes : i <= j}

(* From the first opening to the last closing bracket there is JSON only if *)
(* both belong to one object: its line.                                     *)
Brackets(lines) ==
  LET opens  == {i \in DOMAIN lines : lines[i] \in Objects \cup {"{"}}
      closes == {i \in DOMAIN lines : lines[i] \in Objects \cup {"}"}}
  IN  {i \in opens \cap closes : /\ \A j \in opens : i <= j
                                /\ \A j \in closes : j <= i}

(* The class in the answer, or None: analyze raised.                        *)
Insight(reply) ==
  LET lines == Unfenced(reply)
      found == {lines[i] : i \in Brackets(lines)} \cap Classes
  IN  IF found = {} THEN None ELSE CHOOSE class \in found : TRUE

(* Mutant: the class the provider suggests replaces the diagnosis.          *)
TrustAdvice(f, reply) ==
  LET diagnosis == Diagnose(f) IN
    IF ShouldCallAI(diagnosis) /\ Insight(reply) # None
    THEN [diagnosis EXCEPT !.insight = Insight(reply), !.class = Insight(reply)]
    ELSE diagnosis

GuardedDiagnosis(f, reply) ==
  LET diagnosis == Diagnose(f) IN
    IF ShouldCallAI(diagnosis)
    THEN [diagnosis EXCEPT !.insight = Insight(reply)]
    ELSE diagnosis
=============================================================================
