----------------------------- MODULE QualityGate -----------------------------
(***************************************************************************)
(* What the organizer (src/teaming24/agent/core.py) makes of a result: the *)
(* policy of a class of tasks, the score of a round, and the gate that     *)
(* accepts a result or asks for another round.                             *)
(*                                                                         *)
(* A text is what the detectors of the code see in it:                     *)
(*   size       "empty", "short" (below every threshold) or "long"         *)
(*   plan       plan-like: announces work instead of showing it            *)
(*   givesUp    says that the task cannot be done                          *)
(*   unfinished contains a placeholder or the trace of a missing tool      *)
(*   concrete   at least two kinds of concrete evidence                    *)
(*   shows      the entries of the evidence schema that are not empty;     *)
(*              "numbers" are three or more, and fewer count as none       *)
(* and a prompt is [class, empirical, wantsPlan, wordy].  Scores and       *)
(* confidences are in hundredths.  An exception in the gate accepts the    *)
(* result; only a broken configuration raises one, and none is modelled.   *)
(***************************************************************************)
EXTENDS Naturals, Integers, FiniteSets

CONSTANTS Profile,       \* quality_benchmark_profile: "fast", "balanced" or "strict"
          GateEnabled,   \* quality_gate_enabled
          Confidences,   \* confidences an LLM may report
          HasVerifier    \* is there a second model that judges results?

ProfileAssumption == Profile \in {"fast", "balanced", "strict"}
ConfidencesAssumption == Confidences \subseteq 0 .. 100

Classes == {"empirical", "coding", "analysis", "general"}

Prompt == [class: Classes, empirical: BOOLEAN, wantsPlan: BOOLEAN, wordy: BOOLEAN]

Evidence == {"direct", "sources", "metrics", "artifacts", "commands", "numbers"}

Text ==
  {t \in [size: {"empty", "short", "long"}, plan: BOOLEAN, givesUp: BOOLEAN,
          unfinished: BOOLEAN, concrete: BOOLEAN, shows: SUBSET Evidence] :
     /\ t.size = "empty" => t.shows = {} /\ ~t.plan /\ ~t.givesUp
     /\ t.givesUp => t.size = "long"
     /\ "direct" \in t.shows => t.size = "long" /\ ~t.plan}

EmptyText ==
  [size |-> "empty", plan |-> FALSE, givesUp |-> FALSE, unfinished |-> FALSE,
   concrete |-> FALSE, shows |-> {}]

-----------------------------------------------------------------------------
(* _default_quality_policy with the overrides of the shipped configuration,  *)
(* and the number of rounds it allows.                                       *)

Between(lo, x, hi) == IF x < lo THEN lo ELSE IF x > hi THEN hi ELSE x

Baseline ==
  [empirical |-> [rounds |-> 4, evidence |-> 2, confidence |-> 68],
   coding    |-> [rounds |-> 3, evidence |-> 2, confidence |-> 62],
   analysis  |-> [rounds |-> 3, evidence |-> 1, confidence |-> 58],
   general   |-> [rounds |-> 2, evidence |-> 1, confidence |-> 55]]

Profiled(p) ==
  IF Profile = "fast"
  THEN [p EXCEPT !.rounds = Between(1, @ - 1, 8), !.confidence = Between(45, @ - 8, 95)]
  ELSE IF Profile = "strict"
  THEN [rounds |-> Between(1, p.rounds + 1, 8), evidence |-> p.evidence + 1,
        confidence |-> Between(0, p.confidence + 8, 95)]
  ELSE p

Policy(class) ==
  IF class = "empirical"
  THEN [Profiled(Baseline.empirical) EXCEPT !.confidence = 50, !.evidence = 0]
  ELSE Profiled(Baseline[class])

RoundsFor(prompt) == Between(1, Policy(prompt.class).rounds, 8)

-----------------------------------------------------------------------------
EvidenceScore(t) == Cardinality(t.shows)

\* The share of the length: a short text gets part of it, a long one all.
LengthShare(t) == IF t.size = "long" THEN 25 ELSE 5

\* _compute_round_quality_score
Score(prompt, t, trace) ==
  IF t.size = "empty" THEN 0
  ELSE Between(0, 10 + (IF t.plan THEN 0 ELSE 25) + LengthShare(t)
                  + Between(0, 5 * EvidenceScore(t), 30) + (IF trace THEN 10 ELSE 0)
                  - (IF prompt.empirical /\ "sources" \notin t.shows THEN 15 ELSE 0), 100)

-----------------------------------------------------------------------------
(* The checks before an LLM is asked.                                        *)

\* _evaluate_result_heuristics
LooksUnfinished(prompt, t) == t.unfinished \/ (t.size = "short" /\ prompt.wordy)

\* _check_execution_evidence
HasExecutionEvidence(prompt, t, trace) ==
  /\ t.plan => prompt.wantsPlan
  /\ prompt.empirical \/ prompt.class = "empirical" => t.concrete \/ (trace /\ t.size = "long")

\* _validate_evidence_schema
SchemaHolds(prompt, t, trace) ==
  LET relaxed == trace \/ EvidenceScore(t) >= 2 \/ "numbers" \in t.shows
  IN  /\ EvidenceScore(t) >= Policy(prompt.class).evidence
      /\ prompt.class = "empirical" =>
           /\ relaxed \/ {"direct", "sources"} \subseteq t.shows
           /\ {"metrics", "numbers"} \cap t.shows # {}
      /\ prompt.class = "coding" => {"artifacts", "commands"} \cap t.shows # {}

Rejected(prompt, t, trace) ==
  \/ LooksUnfinished(prompt, t)
  \/ ~HasExecutionEvidence(prompt, t, trace)
  \/ ~SchemaHolds(prompt, t, trace)

\* From the second round on no LLM is asked about a text that passed and shows
\* more than a plan (_should_short_circuit_quality_accept and what follows it).
\* The former's own conditions for a class only matter for texts that are too
\* short for the latter.
FastAccept(prompt, t, trace, round) ==
  /\ round >= 2
  /\ ~t.plan
  /\ t.size = "long" \/ (prompt.class = "empirical" /\ t.concrete /\ trace)

-----------------------------------------------------------------------------
(* The judgement of the LLMs.                                                *)

Weighed(answer) == IF answer THEN 1 ELSE 0

\* _compute_local_confidence
LocalConfidence(prompt, t, trace) ==
  Between(0, 15 + 20 * Weighed("direct" \in t.shows) + 15 * Weighed("sources" \in t.shows)
             + 15 * Weighed("metrics" \in t.shows) + 10 * Weighed("artifacts" \in t.shows)
             + 10 * Weighed("commands" \in t.shows) + 10 * Weighed(trace)
             + 10 * Weighed(t.size = "long") - 25 * Weighed(t.plan)
             - 10 * Weighed(prompt.class = "empirical" /\ ~trace), 100)

\* What a model may answer; without a readable answer the organizer's model is
\* taken for satisfied, and the verifier for absent.
Answers == [satisfied: BOOLEAN, confidence: Confidences]

NoAnswer == [satisfied |-> TRUE, confidence |-> 60]

Organizer == Answers \cup {NoAnswer, [satisfied |-> TRUE, confidence |-> 65]}

Combined(local, org, ver) == (35 * local + 35 * org.confidence + 30 * ver.confidence) \div 100

Judged(prompt, t, trace, round, org, ver) ==
  /\ org.satisfied
  /\ ver.satisfied
  /\ \/ round >= 2
     \/ Combined(LocalConfidence(prompt, t, trace), org, ver) >= Policy(prompt.class).confidence

\* With a verifier that answers, and with none.
Judgements(prompt, t, trace, round) ==
  {Judged(prompt, t, trace, round, o, v) :
     o \in Organizer, v \in IF HasVerifier THEN Answers ELSE {}}
  \cup {Judged(prompt, t, trace, round, o, o) : o \in Organizer}

\* _evaluate_result: the verdicts the gate may come to.
Verdicts(prompt, t, trace, round) ==
  IF ~GateEnabled THEN {TRUE}
  ELSE IF t.size = "empty" THEN {FALSE}
  ELSE IF t.givesUp THEN {TRUE}
  ELSE IF Rejected(prompt, t, trace) THEN {FALSE}
  ELSE IF FastAccept(prompt, t, trace, round) THEN {TRUE}
  ELSE Judgements(prompt, t, trace, round)
=============================================================================
