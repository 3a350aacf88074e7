--------------------------- MODULE ResearchPackage ---------------------------
(***************************************************************************)
(* package-builder.ts and finding-utils.ts: from the findings of a provider  *)
(* to the research package of a run.  A finding is its dedupe key, which     *)
(* Info describes, and a view of a persisted finding adds its stale flag; a  *)
(* text made of a claim stands for the claim's key.                          *)
(***************************************************************************)
EXTENDS Integers, Sequences, FiniteSets

CONSTANTS
    Keys,        \* dedupe keys of findings
    Info,        \* [Keys -> what the provider says of the finding]
    MaxKey,      \* keyFindings: 8
    MaxFacts,    \* personalizationFacts: 5
    MaxPoints,   \* supportingPoints: 4
    MaxRisks,    \* the schema's bound on risks: 8
    MaxText      \* the schema's bound on a fact, a point or a risk: 400

Types == {"COMPANY_OVERVIEW", "BUSINESS_MODEL", "PRODUCT", "ICP_RELEVANCE", "LEADERSHIP",
          "HIRING", "FUNDING", "EXPANSION", "TECH_STACK", "CRM_CHANGE", "STRATEGIC_INITIATIVE",
          "PAIN_SIGNAL", "COMPETITOR", "RECENT_NEWS", "OBJECTION_CONTEXT", "OUTREACH_HOOK"}

\* confidence and relevance in percent; source: a URL that is http(s); proven: an excerpt or
\* a source, and the person named in the text; template: a phrase of
\* UNSUPPORTED_PERSONALIZATION_PATTERNS; backs: mentions series or salesforce.
ASSUME PackageAssumption ==
    /\ DOMAIN Info = Keys
    /\ \A k \in Keys :
          /\ Info[k].type \in Types
          /\ {Info[k].confidence, Info[k].relevance} \subseteq 0 .. 100
          /\ {Info[k].explicit, Info[k].source, Info[k].person, Info[k].proven,
              Info[k].template, Info[k].backs} \subseteq BOOLEAN
          /\ Info[k].length \in Nat
    /\ {MaxKey, MaxFacts, MaxPoints, MaxRisks, MaxText} \subseteq Nat

Views == [key : Keys, stale : BOOLEAN]
TypeOf(v) == Info[v.key].type
InViews(views) == {views[i] : i \in DOMAIN views}
SomeOf(views, types) == \E v \in InViews(views) : TypeOf(v) \in types
SomeStale(views) == \E v \in InViews(views) : v.stale

\* sanitizeProviderFindings throws before any finding is persisted.
Sanitizes(keys) == \A i \in DOMAIN keys : Info[keys[i]].proven

FirstOf(n, s) == IF Len(s) <= n THEN s ELSE SubSeq(s, 1, n)

\* The stable sort by confidence * relevance, greatest first.
Weight(v) == Info[v.key].confidence * Info[v.key].relevance
Sorted(views) ==
    LET before(i, j) == \/ Weight(views[i]) > Weight(views[j])
                        \/ Weight(views[i]) = Weight(views[j]) /\ i < j
        place(i) == 1 + Cardinality({j \in DOMAIN views : before(j, i)})
    IN  [p \in DOMAIN views |-> views[CHOOSE i \in DOMAIN views : place(i) = p]]

KeysOf(views) == [i \in DOMAIN views |-> views[i].key]

------------------------------------------------------------------------------
(* computeResearchConfidence: times 10000 and the number of findings, so that *)
(* it stays an integer; Confident compares it.                               *)
HasConflict(views) ==
    /\ SomeOf(views, {"OBJECTION_CONTEXT"})
    /\ SomeOf(views, {"CRM_CHANGE", "HIRING", "FUNDING"})

Total(views, Percent(_)) ==
    LET sum[i \in 0 .. Len(views)] == IF i = 0 THEN 0 ELSE sum[i - 1] + Percent(views[i])
    IN  sum[Len(views)]

LeastOf(x, y) == IF x < y THEN x ELSE y
Clamped(x, most) == IF x < 0 THEN 0 ELSE LeastOf(x, most)

Confidence(views) ==
    LET n == Len(views)
        sourced == Total(views, LAMBDA v : IF Info[v.key].source THEN 1 ELSE 0)
        penalty == (IF SomeStale(views) THEN 1200 ELSE 0)
                     + (IF HasConflict(views) THEN 1800 ELSE 0)
                     + (IF n < 2 THEN 1500 ELSE 0)
    IN  Clamped(n * (2500 + LeastOf(2500, 500 * sourced) - penalty)
                  + 35 * Total(views, LAMBDA v : Info[v.key].confidence)
                  + 20 * Total(views, LAMBDA v : Info[v.key].relevance), 10000 * n)

\* At least percent; without findings the confidence is 0.15.
Confident(views, percent) ==
    IF views = <<>> THEN 15 >= percent
    ELSE Confidence(views) >= 100 * percent * Len(views)

------------------------------------------------------------------------------
(* buildOutreachContext and buildResearchPackage, of sorted views.          *)
Objection(v) == TypeOf(v) = "OBJECTION_CONTEXT"
Personal == {v \in Views : ~v.stale /\ Info[v.key].explicit}
NoObjection == {v \in Views : ~Objection(v)}
Risky == {v \in Views : Objection(v) \/ v.stale}

\* views.filter: those of a kind, in their order.
Filtered(views, kind) ==
    LET kept[i \in 0 .. Len(views)] ==
            IF i = 0 THEN <<>>
            ELSE IF views[i] \in kind THEN Append(kept[i - 1], views[i]) ELSE kept[i - 1]
    IN  kept[Len(views)]

PersonalizationFacts(views) == FirstOf(MaxFacts, Filtered(views, Personal))
SupportingPoints(views) == FirstOf(MaxPoints, Filtered(views, NoObjection))
Risks(views) == Filtered(views, Risky)

DoNotClaim(views) ==
    {c \in {"funding", "crm", "named contact", "activity", "stale as recent", "certainty",
            "only the positive"} :
        \/ c = "funding" /\ ~SomeOf(views, {"FUNDING"})
        \/ c = "crm" /\ ~SomeOf(views, {"CRM_CHANGE"})
        \/ c = "named contact" /\ ~\E v \in InViews(views) : Info[v.key].person
        \/ c = "activity" /\ views = <<>>
        \/ c = "stale as recent" /\ SomeStale(views)
        \/ c = "certainty" /\ ~Confident(views, 45)
        \/ c = "only the positive" /\ HasConflict(views)}

\* The first of the sorted findings of some types, then of others, then any.
First(views, types) ==
    views[CHOOSE i \in DOMAIN views : /\ TypeOf(views[i]) \in types
                                      /\ \A j \in 1 .. i - 1 : TypeOf(views[j]) \notin types]
Angle(views) ==
    CASE SomeOf(views, {"OUTREACH_HOOK", "CRM_CHANGE"}) ->
            {First(views, {"OUTREACH_HOOK", "CRM_CHANGE"}).key}
      [] ~SomeOf(views, {"OUTREACH_HOOK", "CRM_CHANGE"}) /\ SomeOf(views, {"ICP_RELEVANCE"}) ->
            {First(views, {"ICP_RELEVANCE"}).key}
      [] ~SomeOf(views, {"OUTREACH_HOOK", "CRM_CHANGE", "ICP_RELEVANCE"}) ->
            IF views = <<>> THEN {} ELSE {views[1].key}

\* A template phrase is refused unless some claim backs it; researchPackageSchema refuses
\* more risks, and longer texts, than its bounds ("Stale evidence: " is 16 characters).
TooLong(v, prefix) == Info[v.key].length + prefix > MaxText
Refused(views) ==
    \/ \E v \in InViews(PersonalizationFacts(views)) :
          Info[v.key].template /\ ~\E x \in InViews(views) : Info[x.key].backs
    \/ Len(Risks(views)) > MaxRisks
    \/ \E v \in InViews(PersonalizationFacts(views)) \union InViews(SupportingPoints(views)) :
          TooLong(v, 0)
    \/ \E v \in InViews(Risks(views)) : TooLong(v, IF v.stale THEN 16 ELSE 0)

Package(views) ==
    [findingIds |-> KeysOf(views),
     keyFindings |-> KeysOf(FirstOf(MaxKey, views)),
     namedPeople |-> {v.key : v \in {x \in InViews(views) : Info[x.key].person}},
     risks |-> KeysOf(Risks(views)),
     primaryAngle |-> Angle(views),
     supportingPoints |-> KeysOf(SupportingPoints(views)),
     personalizationFacts |-> KeysOf(PersonalizationFacts(views)),
     doNotClaim |-> DoNotClaim(views)]
==============================================================================
