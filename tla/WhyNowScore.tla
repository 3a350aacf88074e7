----------------------------- MODULE WhyNowScore ------------------------------
(***************************************************************************)
(* why-now-scoring.ts, signal-utils.ts and buying-trigger-match.ts: the       *)
(* scores of a candidate on a day, from its signals.  A signal is its dedupe  *)
(* key: the kind, which About describes, and the day it occurred.  Scores      *)
(* are integers; what the code computes with fractions is scaled.            *)
(***************************************************************************)
EXTENDS IcpFit, FiniteSets, Functions

CONSTANTS
    Kinds,      \* what signals say: type, source, title and summary
    About,      \* [Kinds -> what the provider says of them]
    Keywords    \* SIGNAL_TYPE_TRIGGER_KEYWORDS: [types -> SUBSET Texts]

\* confidence and relevance in percent; age: days between occurrence and collection.
ASSUME ScoreAssumption ==
    /\ DOMAIN About = Kinds
    /\ \A k \in Kinds :
          /\ About[k].title \in Texts
          /\ {About[k].confidence, About[k].relevance} \subseteq 0 .. 100
          /\ About[k].age \in Nat
    /\ \A type \in DOMAIN Keywords : Keywords[type] \subseteq Texts

Of(s) == About[s.kind]

Age(s, today) == IF today > s.occurred THEN today - s.occurred ELSE 0
Decay(age) ==  \* in percent
    CASE age <= 7 -> 100 [] age \in 8 .. 30 -> 70 [] age \in 31 .. 90 -> 35
      [] age \in 91 .. 180 -> 15 [] age > 180 -> 5

Negative(s) == Of(s).category = "negative" \/ Of(s).type = "disqualifier_conflict"
AlwaysAdds(s) == 1  \* mutant: conflicts raise the scores
Polarity(s) == IF Negative(s) THEN -1 ELSE 1

\* signalMatchesBuyingTrigger: the text mentions a trigger, or a trigger a keyword of the type.
Aligned(s, triggers) ==
    \E t \in triggers :
        \/ <<Of(s).title, t>> \in Includes
        \/ Of(s).type \in DOMAIN Keywords /\ IncludesAny(t, Keywords[Of(s).type])

\* Math.round of x / scale.
Rounded(x, scale) == (2 * x + scale) \div (2 * scale)
Unclamped(x, scale) == Rounded(x, scale)  \* mutant
ClampScore(x, scale) == Between(0, Rounded(x, scale), 100)

\* What a signal adds to the intent, in 1/10000, and to the timing, in 1/1000000.
IntentDelta(brain, s) ==
    Polarity(s) * (30 + (IF Aligned(s, brain.buyingTriggers) THEN 28 ELSE 8))
        * Of(s).confidence * Of(s).relevance
TimingDelta(brain, today, s) ==
    Polarity(s) * (IF Aligned(s, brain.buyingTriggers) THEN 65 ELSE 40)
        * Decay(Age(s, today)) * Of(s).confidence * Of(s).relevance

IntentOf(brain, prospect, evidence) ==
    LET intent == 150000 + SumFunction([s \in evidence |-> IntentDelta(brain, s)])
    IN  ClampScore(IF Disqualified(brain, prospect) /\ intent > 400000 THEN 400000 ELSE intent,
                   10000)

TimingOf(brain, evidence, today) ==
    ClampScore(10000000 + SumFunction([s \in evidence |-> TimingDelta(brain, today, s)]), 1000000)

\* In percent.
ConfidenceOf(brain, prospect, evidence, today) ==
    LET n == Cardinality(evidence)
        conflicts == {s \in evidence : Negative(s)}
        positive == evidence \ conflicts
        aligned == {s \in positive : Aligned(s, brain.buyingTriggers)}
        base == 45 + Between(0, 8 * Cardinality(positive), 25) + Points(aligned # {}, 8)
                   - 15 * Cardinality(conflicts) - Points(Disqualified(brain, prospect), 10)
        confidences == SumFunction([s \in evidence |-> Of(s).confidence])
        freshness == SumFunction([s \in evidence |-> Decay(Age(s, today))])
    IN  IF n = 0 THEN IF FitScore(brain, prospect) >= 55 THEN 40 ELSE 30
        ELSE ClampScore(10 * n * base + 2 * confidences + freshness, 10 * n)

------------------------------------------------------------------------------
(* buildWhyNowExplanation: which two sentences it is made of, and the signal  *)
(* that the second one presents as aligned with the buying triggers.         *)
Opening(brain, prospect) ==
    LET fit == FitScore(brain, prospect)
    IN  IF Disqualified(brain, prospect) THEN "weak fit"
        ELSE IF fit >= 75 THEN "strong fit"
        ELSE IF fit >= 55 THEN "moderate fit" ELSE "limited fit"

\* The signals that findMany returns first, and among those not negative, if any.
Latest(evidence) == {s \in evidence : \A x \in evidence : x.occurred <= s.occurred}
Citable(evidence) ==
    LET others == {s \in evidence : Of(s).category # "negative"}
    IN  Latest(IF others = {} THEN evidence ELSE others)

Timely(brain, prospect, evidence, today) ==
    /\ evidence # {}
    /\ \E s \in evidence : ~Negative(s) /\ Aligned(s, brain.buyingTriggers)
    /\ TimingOf(brain, evidence, today) >= 55
    /\ ~(Disqualified(brain, prospect) /\ IntentOf(brain, prospect, evidence) >= 40)

Reason(brain, prospect, evidence, today) ==
    LET intent == IntentOf(brain, prospect, evidence)
    IN  IF evidence = {} THEN "no signal"
        ELSE IF Disqualified(brain, prospect) /\ intent >= 40 THEN "until fit improves"
        ELSE IF Timely(brain, prospect, evidence, today) THEN "timely now"
        ELSE IF TimingOf(brain, evidence, today) < 35 /\ intent >= 40 THEN "stale"
        ELSE IF intent < 30 THEN "sparse" ELSE "mixed"

Cited(brain, prospect, evidence, today) ==
    IF Timely(brain, prospect, evidence, today) THEN {CHOOSE s \in Citable(evidence) : TRUE} ELSE {}

Assessment(brain, prospect, evidence, today) ==
    LET fit == FitScore(brain, prospect)
        intent == IntentOf(brain, prospect, evidence)
        timing == TimingOf(brain, evidence, today)
    IN  [fit |-> fit, intent |-> intent, timing |-> timing,
         overall |-> ClampScore(40 * fit + 35 * intent + 25 * timing, 100),
         confidence |-> ConfidenceOf(brain, prospect, evidence, today),
         opening |-> Opening(brain, prospect),
         reason |-> Reason(brain, prospect, evidence, today),
         cites |-> Cited(brain, prospect, evidence, today)]
==============================================================================
