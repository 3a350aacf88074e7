------------------------- MODULE MCProspectDiscovery -------------------------
(* Prospects and CRM companies for TLC.                                     *)
EXTENDS ProspectDiscovery

CONSTANTS acme, bolt          \* prospects
CONSTANTS acmeIo, boltIo, boltCom  \* domains
CONSTANTS Acme, Bolt          \* names

MCProspects == {acme, bolt}

\* acme's web site is its domain; bolt is found under another domain than its web site's.
MCDomain == [p \in MCProspects |-> IF p = acme THEN acmeIo ELSE boltIo]
MCSite == [p \in MCProspects |-> IF p = acme THEN NoDomain ELSE boltCom]
MCName == [p \in MCProspects |-> IF p = acme THEN Acme ELSE Bolt]

AcmeFound == {<<acme>>}
BoltFound == {<<bolt>>}

\* An exact and a possible match of acme.
MCUserCompanies == {[name |-> Bolt, domain |-> acmeIo], [name |-> Acme, domain |-> boltCom]}
==============================================================================
