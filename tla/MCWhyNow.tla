------------------------------ MODULE MCWhyNow -------------------------------
(* Texts, a company brain, candidates and signals for TLC.                  *)
EXTENDS WhyNow

CONSTANTS software, consumer, small, eu, migrationTrigger, crm, migrationNews, hiringNews,
          freezeNews

MCTexts == {software, consumer, small, eu, migrationTrigger, crm, migrationNews, hiringNews,
            freezeNews}
MCIncludes == {<<t, t>> : t \in MCTexts} \union {<<migrationTrigger, crm>>}
MCNumberOf == [t \in {} |-> 0]

MCBrain ==
    [industries |-> {software}, companySize |-> {small}, geography |-> {eu},
     disqualifiers |-> {consumer}, buyingTriggers |-> {migrationTrigger},
     rules |-> <<[field |-> "employeeCount", operator |-> "in", values |-> {small},
                  polarity |-> "positive"]>>]

Profile(industry) ==
    [f \in Fields |-> CASE f = "industry" -> industry [] f = "companySize" -> small
                        [] f = "geography" -> eu [] OTHER -> NoText]
MCCandidates == {Profile(software), Profile(consumer)}

\* migration is aligned by its type; hiring is not, and newer; freeze is a conflict.
MCKinds == {"migration", "hiring", "freeze"}
Kind(type, category, title, confidence, relevance, age) ==
    [type |-> type, category |-> category, title |-> title, confidence |-> confidence,
     relevance |-> relevance, age |-> age]
MCAbout == [k \in MCKinds |->
    CASE k = "migration" -> Kind("crm_migration", "buying_trigger", migrationNews, 90, 95, 3)
      [] k = "hiring" -> Kind("hiring", "growth", hiringNews, 80, 85, 1)
      [] k = "freeze" -> Kind("disqualifier_conflict", "negative", freezeNews, 100, 80, 1)]
MCKeywords == [type \in {"crm_migration"} |-> {crm}]

\* The conflict comes first: to a candidate without signals, or to the migration that a
\* scoring collected.
MCBatches == {<<"freeze", "migration">>}
MCFixtures == {<<"migration">>, <<>>}
MCCiting == {<<"migration", "hiring">>}
==============================================================================
