----------------------------- MODULE MCResearch ------------------------------
(* Findings and provider results for TLC.                                   *)
EXTENDS Research

CONSTANTS hook, objection, rumour

\* hook uses a template phrase that only objection backs, and is too long for a risk once it
\* is stale; rumour has no provenance.
Finding(type, confidence, template, proven, length) ==
    [type |-> type, confidence |-> confidence, relevance |-> 80, explicit |-> TRUE,
     source |-> TRUE, person |-> FALSE, proven |-> proven, template |-> template,
     backs |-> ~template, length |-> length]

MCInfo == [k \in {hook, objection, rumour} |->
    CASE k = hook -> Finding("OUTREACH_HOOK", 90, TRUE, TRUE, 390)
      [] k = objection -> Finding("OBJECTION_CONTEXT", 70, FALSE, TRUE, 100)
      [] k = rumour -> Finding("RECENT_NEWS", 40, FALSE, FALSE, 100)]

MCResults == {<<objection, hook>>, <<rumour>>}
==============================================================================
