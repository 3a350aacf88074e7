------------------------------- MODULE IcpFit --------------------------------
(***************************************************************************)
(* fit-scoring.ts: how well a candidate fits the company brain's ideal       *)
(* customer profile.  A text is a model value, and what its normalized words *)
(* say of it is a relation.                                                  *)
(***************************************************************************)
EXTENDS Integers, Sequences, FiniteSets

CONSTANTS
    Texts,      \* field values, profile entries and rule values
    NoText,     \* null, or the empty text
    Includes,   \* pairs <<text, part>>: text.includes(part), both normalized
    NumberOf    \* [a subset of Texts -> Int]: texts that Number() takes for a number

ASSUME FitAssumption ==
    /\ NoText \notin Texts
    /\ Includes \subseteq Texts \X Texts /\ \A t \in Texts : <<t, t>> \in Includes
    /\ DOMAIN NumberOf \subseteq Texts /\ \A t \in DOMAIN NumberOf : NumberOf[t] \in Int

Fields == {"industry", "companySize", "geography", "description", "companyName"}
Candidate == [Fields -> Texts \union {NoText}]

FieldValue(prospect, field) ==
    CASE field \in Fields -> prospect[field]
      [] field = "employeeCount" -> prospect["companySize"]
      [] field = "location" -> prospect["geography"]
      [] field = "name" -> prospect["companyName"]
      [] OTHER -> NoText

IncludesAny(text, needles) == \E n \in needles : <<text, n>> \in Includes

\* in and not_in compare both ways, and no text is included in every text.
Near(text, v) == text = NoText \/ <<text, v>> \in Includes \/ <<v, text>> \in Includes

\* The empty text is the number 0, and what is no number compares as FALSE.
Numeric(t) == t = NoText \/ t \in DOMAIN NumberOf
AsNumber(t) == IF t = NoText THEN 0 ELSE NumberOf[t]

\* values: the array of in and not_in; of the others, the one value.
RuleMatches(operator, text, values) ==
    \/ operator = "exists" /\ text # NoText
    \/ operator = "in" /\ \E v \in values : Near(text, v)
    \/ operator = "not_in" /\ ~\E v \in values : Near(text, v)
    \/ operator = "eq" /\ text \in values
    \/ operator = "neq" /\ text \notin values
    \/ operator = "contains" /\ IncludesAny(text, values)
    \/ /\ operator = "gte"
       /\ \E v \in values : Numeric(text) /\ Numeric(v) /\ AsNumber(text) >= AsNumber(v)
    \/ /\ operator = "lte"
       /\ \E v \in values : Numeric(text) /\ Numeric(v) /\ AsNumber(text) <= AsNumber(v)

Matching(brain, prospect, polarity) ==
    {i \in DOMAIN brain.rules :
        /\ brain.rules[i].polarity = polarity
        /\ RuleMatches(brain.rules[i].operator,
                       FieldValue(prospect, brain.rules[i].field), brain.rules[i].values)}

\* The profile's disqualifiers that the candidate's texts mention, and its negative rules.
Mentioned(brain, prospect) ==
    {d \in brain.disqualifiers :
        \E f \in {"industry", "description", "companyName"} : IncludesAny(prospect[f], {d})}
Disqualified(brain, prospect) ==
    Mentioned(brain, prospect) # {} \/ Matching(brain, prospect, "negative") # {}

Points(holds, points) == IF holds THEN points ELSE 0
Between(low, x, high) == IF x < low THEN low ELSE IF x > high THEN high ELSE x

FitScore(brain, prospect) ==
    LET industry == IncludesAny(prospect["industry"], brain.industries)
    IN  Between(0,
            40 + Points(industry, 20)
               - Points(~industry /\ brain.industries # {}, 10)
               + Points(IncludesAny(prospect["companySize"], brain.companySize), 15)
               + Points(IncludesAny(prospect["geography"], brain.geography), 10)
               - 40 * Cardinality(Mentioned(brain, prospect))
               + 8 * Cardinality(Matching(brain, prospect, "positive"))
               - 25 * Cardinality(Matching(brain, prospect, "negative")),
            100)
==============================================================================
