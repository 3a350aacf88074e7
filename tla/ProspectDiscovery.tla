-------------------------- MODULE ProspectDiscovery --------------------------
(***************************************************************************)
(* One discovery run of one tenant: its job, the candidates its attempts    *)
(* propose, the reviewers' decisions on them and the creation of companies  *)
(* in the Twenty CRM.  A candidate's position in cand is its id, a company's *)
(* position in crm its Twenty id.  Every await is a step of its own, except  *)
(* that the CRM searches of one lookup are one step.                        *)
(***************************************************************************)
EXTENDS Integers, Sequences, FiniteSets

CONSTANTS
    Admins,        \* concurrent HTTP requests
    Workers,       \* executions of executeDiscovery, one per process
    NoWorker,      \* the owner of a job nobody holds
    Prospects,     \* companies the provider may discover
    Domain,        \* [Prospects -> their domain or NoDomain], normalised
    Site,          \* [Prospects -> the domain of their websiteUrl or NoDomain]
    NoDomain,
    Name,          \* [Prospects -> company names as the CRM's search tells them apart]
    Results,       \* what the provider may return: sequences of prospects
    UserCompanies, \* companies the CRM's own users may add: [name, domain]
    MaxAttempts,   \* attempts of the queue's jobs: 3
    MaxStalled,    \* BullMQ's maxStalledCount: 1
    MaxMishaps     \* bound: faults, restarts, stalls and overlaps together

ASSUME DiscoveryAssumption ==
    /\ NoWorker \notin Workers /\ IsFiniteSet(Admins)
    /\ DOMAIN Domain = Prospects /\ DOMAIN Site = Prospects /\ DOMAIN Name = Prospects
    /\ Results \subseteq Seq(Prospects)
    /\ MaxAttempts \in Nat \ {0} /\ {MaxStalled, MaxMishaps} \subseteq Nat

VARIABLES
    run,      \* ProspectDiscoveryRun.status
    job,      \* BullMQ: state, attemptsMade, stalled, owner
    cand,     \* the ProspectCandidate rows, each with its create_company checkpoint
    crm,      \* the CRM's companies; row is the candidate one was created for, or 0
    req,      \* [Admins -> next statement and locals of the request]
    work,     \* [Workers -> next statement and locals of executeDiscovery]
    approved, \* history: candidates somebody approved
    mishaps   \* faults, restarts, stalls (a job taken again while its worker still runs),
              \* overlaps (decisions, and an addition, while a rival request is under way)

vars == <<run, job, cand, crm, req, work, approved, mishaps>>

Statuses == {"PROPOSED", "DUPLICATE", "APPROVED", "REJECTED", "CREATED", "FAILED"}
Matches == {"NEW", "EXACT_MATCH", "POSSIBLE_MATCH"}
Candidates == [prospect : Prospects, status : Statuses, dedupe : Matches,
               created : Nat, checkpoint : Nat]
InTry == {"call", "record", "created", "audit"}
Requests == [at : InTry \union {"idle", "enqueue", "approve", "reject", "checkpoint", "recover",
                                "lookup", "lookup_failed", "duplicate", "possible", "catch"},
             row : Nat, known : Nat, id : Nat]
Work == [at : {"idle", "start", "discover", "propose", "complete", "audit", "catch", "completed",
               "attempt_failed"},
         found : Seq(Prospects), hits : SUBSET Nat, sync : BOOLEAN]

NoRequest == [at |-> "idle", row |-> 0, known |-> 0, id |-> 0]
NoWork == [at |-> "idle", found |-> <<>>, hits |-> {}, sync |-> FALSE]

Mishaps(kind, n) ==
    /\ mishaps.faults + mishaps.restarts + mishaps.stalls + mishaps.overlaps + n <= MaxMishaps
    /\ mishaps' = [mishaps EXCEPT ![kind] = @ + n]
Mishap(kind) == Mishaps(kind, 1)

------------------------------------------------------------------------------
(* company-dedupe.ts                                                        *)

\* The row's domain: domain ?? websiteUrl.
RowDomain(p) == IF Domain[p] # NoDomain THEN Domain[p] ELSE Site[p]

\* What createCompany writes: primaryLinkUrl is websiteUrl || https://domain.
Company(p) == [name |-> Name[p], domain |-> IF Site[p] # NoDomain THEN Site[p] ELSE Domain[p]]

IsExact(p, x) ==
    IF RowDomain(p) # NoDomain THEN x.domain = RowDomain(p) ELSE x.name = Name[p]

\* dedupeCompanyAgainstCrm, given the ids of the companies the searches returned.
Dedupe(p, hits) ==
    IF \E i \in hits : IsExact(p, crm[i]) THEN "EXACT_MATCH"
    ELSE IF \E i \in hits : crm[i].name = Name[p] THEN "POSSIBLE_MATCH"
    ELSE "NEW"

\* Two prospects of which one, once created, is an exact match of the other.
Rivals(p, q) == p = q \/ IsExact(p, Company(q)) \/ IsExact(q, Company(p))

------------------------------------------------------------------------------
(* startDiscovery: the run row, its audit entry, then the job, or the       *)
(* execution within the request.                                            *)
Answer(a, to) == req' = [req EXCEPT ![a] = to]

CreateRun(a) ==
    /\ req[a].at = "idle"
    /\ run = "none"
    /\ run' = "queued"
    /\ Answer(a, [NoRequest EXCEPT !.at = "enqueue"])
    /\ UNCHANGED <<job, cand, crm, work, approved, mishaps>>

AddJob(a) ==
    /\ req[a].at = "enqueue"
    /\ job' = [job EXCEPT !.state = "waiting"]
    /\ Answer(a, NoRequest)
    /\ UNCHANGED <<run, cand, crm, work, approved, mishaps>>

RunSync(a, w) ==
    /\ req[a].at = "enqueue"
    /\ work[w].at = "idle"
    /\ work' = [work EXCEPT ![w] = [NoWork EXCEPT !.at = "start", !.sync = TRUE]]
    /\ Answer(a, NoRequest)
    /\ UNCHANGED <<run, job, cand, crm, approved, mishaps>>

------------------------------------------------------------------------------
(* BullMQ: a waiting job is taken; a job whose lock is lost is taken again. *)
Take(w) ==
    /\ work[w].at = "idle"
    /\ job.state = "waiting"
    /\ job' = [job EXCEPT !.state = "active", !.owner = w]
    /\ work' = [work EXCEPT ![w] = [NoWork EXCEPT !.at = "start"]]
    /\ UNCHANGED <<run, cand, crm, req, approved, mishaps>>

Holds(w) == work[w].at # "idle" /\ ~work[w].sync

Relinquish ==
    /\ job' = [job EXCEPT !.state = IF job.stalled < MaxStalled THEN "waiting" ELSE "failed",
                          !.stalled = @ + 1, !.owner = NoWorker]
    /\ UNCHANGED <<run, cand, crm, req, work, approved>>

Reclaim ==
    /\ job.state = "active" /\ \A w \in Workers : ~Holds(w)
    /\ Relinquish
    /\ UNCHANGED mishaps
Stall ==
    /\ job.state = "active" /\ Holds(job.owner)
    /\ Relinquish
    /\ Mishap("stalls")

\* The end of an attempt counts only for the worker that still owns the job.
Settle(w, at, settled) ==
    /\ work[w].at = at
    /\ job' = IF job.owner = w THEN settled ELSE job
    /\ work' = [work EXCEPT ![w] = NoWork]
    /\ UNCHANGED <<run, cand, crm, req, approved, mishaps>>

JobCompleted(w) ==
    Settle(w, "completed", [job EXCEPT !.state = "completed", !.owner = NoWorker])
AttemptFailed(w) ==
    Settle(w, "attempt_failed",
           [job EXCEPT !.state = IF job.attemptsMade + 1 < MaxAttempts THEN "waiting" ELSE "failed",
                       !.attemptsMade = @ + 1, !.owner = NoWorker])

------------------------------------------------------------------------------
(* executeDiscovery                                                         *)
Goes(w, at) == work' = [work EXCEPT ![w].at = at]

SetRun(w, at, status, to) ==
    /\ work[w].at = at
    /\ run' = status
    /\ Goes(w, to)
    /\ UNCHANGED <<job, cand, crm, req, approved, mishaps>>

StartProcessing(w) == SetRun(w, "start", "processing", "discover")

\* provider.discover and the searches, best-effort: a failed search returns nothing.
Discover(w) ==
    /\ work[w].at = "discover"
    /\ \E found \in Results, hits \in SUBSET DOMAIN crm :
          /\ IF hits = DOMAIN crm THEN UNCHANGED mishaps ELSE Mishap("faults")
          /\ work' = [work EXCEPT ![w].at = IF found = <<>> THEN "complete" ELSE "propose",
                                  ![w].found = found, ![w].hits = hits]
    /\ UNCHANGED <<run, job, cand, crm, req, approved>>

\* A row per discovered company, whatever rows an earlier attempt has left, and its
\* audit entry.
Propose(w) ==
    /\ work[w].at = "propose"
    /\ LET p == Head(work[w].found)
           match == Dedupe(p, work[w].hits)
       IN  /\ cand' = Append(cand, [prospect |-> p, dedupe |-> match, created |-> 0,
                                    checkpoint |-> 0,
                                    status |-> IF match = "EXACT_MATCH" THEN "DUPLICATE"
                                               ELSE "PROPOSED"])
           /\ work' = [work EXCEPT ![w].found = Tail(@),
                                   ![w].at = IF Len(work[w].found) = 1 THEN "complete" ELSE @]
    /\ UNCHANGED <<run, job, crm, req, approved, mishaps>>

Complete(w) == SetRun(w, "complete", "completed", "audit")

AuditRun(w) ==
    /\ work[w].at = "audit"
    /\ Goes(w, "completed")
    /\ UNCHANGED <<run, job, cand, crm, req, approved, mishaps>>

Swallow(w) == SetRun(w, "catch", "failed", "completed")  \* mutant: not rethrown
MarkRunFailed(w) == SetRun(w, "catch", "failed", "attempt_failed")

\* From within the try to its catch; from before it and from the catch to the caller.
DiscoveryThrows(w) ==
    /\ work[w].at \in {"start", "discover", "propose", "complete", "audit", "catch"}
    /\ Mishap("faults")
    /\ Goes(w, IF work[w].at \in {"start", "catch"} THEN "attempt_failed" ELSE "catch")
    /\ UNCHANGED <<run, job, cand, crm, req, approved>>

------------------------------------------------------------------------------
(* Decisions.  A request reads the row and checks it, then goes on with what *)
(* it read, and overlaps with every rival under way when it begins.         *)
Underway(p) == {a \in Admins : req[a].row # 0 /\ Rivals(p, cand[req[a].row].prospect)}

Begin(a, c, at) ==
    /\ req[a].at = "idle"
    /\ Answer(a, [NoRequest EXCEPT !.at = at, !.row = c, !.known = cand[c].created])
    /\ Mishaps("overlaps", Cardinality(Underway(cand[c].prospect)))
    /\ UNCHANGED <<run, job, cand, crm, work, approved>>

\* The pending statement of request a updates its candidate and the request goes on.
Update(a, at, row, to) ==
    /\ req[a].at = at
    /\ cand' = [cand EXCEPT ![req[a].row] = row]
    /\ Answer(a, to)
    /\ UNCHANGED <<run, job, crm, work, mishaps>>

Row(a) == cand[req[a].row]

ReviewableOrNot(c) ==  \* mutant: decided candidates too
    cand[c].status # "DUPLICATE" /\ cand[c].dedupe = "NEW"
Reviewable(c) ==
    cand[c].dedupe = "NEW" /\ cand[c].status \in {"PROPOSED", "FAILED"}

ApproveRead(a, c) == Reviewable(c) /\ Begin(a, c, "approve")
Approve(a) ==
    /\ Update(a, "approve", [Row(a) EXCEPT !.status = "APPROVED"], NoRequest)
    /\ approved' = approved \union {req[a].row}

RejectRead(a, c) == cand[c].status \notin {"CREATED", "REJECTED"} /\ Begin(a, c, "reject")
Reject(a) ==
    /\ Update(a, "reject", [Row(a) EXCEPT !.status = "REJECTED"], NoRequest)
    /\ UNCHANGED approved

------------------------------------------------------------------------------
(* createApprovedCandidate, for create and retry-create.                    *)
AnyUndecided(c) == cand[c].status \in {"PROPOSED", "APPROVED", "FAILED"}  \* mutant
Creatable(c) == cand[c].status \in {"APPROVED", "FAILED"}

CreateRead(a, c) == Creatable(c) /\ Begin(a, c, "checkpoint")

NothingKnown(a) == 0  \* mutant: the checkpoint is not consulted
KnownCompany(a) == IF Row(a).checkpoint # 0 THEN Row(a).checkpoint ELSE req[a].known

GetCompleted(a) ==
    /\ req[a].at = "checkpoint"
    /\ LET id == KnownCompany(a)
       IN  Answer(a, [req[a] EXCEPT !.at = IF id # 0 THEN "recover" ELSE "lookup", !.id = id])
    /\ UNCHANGED <<run, job, cand, crm, work, approved, mishaps>>

MarkCreated(a, at, to) ==
    /\ Update(a, at, [Row(a) EXCEPT !.status = "CREATED", !.created = req[a].id], to)
    /\ UNCHANGED approved

Recover(a) == MarkCreated(a, "recover", NoRequest)

LookupAnswered(a, hits) ==
    LET match == Dedupe(Row(a).prospect, hits)
    IN  Answer(a, [req[a] EXCEPT !.at = CASE match = "EXACT_MATCH" -> "duplicate"
                                          [] match = "POSSIBLE_MATCH" -> "possible"
                                          [] match = "NEW" -> "call"])

Lookup(a) ==
    /\ req[a].at = "lookup"
    /\ LookupAnswered(a, DOMAIN crm)
    /\ UNCHANGED <<run, job, cand, crm, work, approved, mishaps>>

FailOpen(a) == LookupAnswered(a, {})  \* mutant: as best-effort as at discovery
FailClosed(a) == Answer(a, [req[a] EXCEPT !.at = "lookup_failed"])
LookupFails(a) ==
    /\ req[a].at = "lookup"
    /\ Mishap("faults")
    /\ FailClosed(a)
    /\ UNCHANGED <<run, job, cand, crm, work, approved>>

MarkUnreachable(a) ==  \* mutant: a status of its own
    /\ Update(a, "lookup_failed", [Row(a) EXCEPT !.status = "UNREACHABLE"], NoRequest)
    /\ UNCHANGED approved
MarkLookupFailed(a) ==
    /\ Update(a, "lookup_failed", [Row(a) EXCEPT !.status = "FAILED"], NoRequest)
    /\ UNCHANGED approved

MarkDuplicate(a) ==
    /\ Update(a, "duplicate", [Row(a) EXCEPT !.status = "DUPLICATE", !.dedupe = "EXACT_MATCH"],
              NoRequest)
    /\ UNCHANGED approved

MarkPossible(a) ==
    /\ Update(a, "possible", [Row(a) EXCEPT !.dedupe = "POSSIBLE_MATCH"], NoRequest)
    /\ UNCHANGED approved

\* The mutation takes effect; its answer may be lost, and the new id with it.
CreateCompany(a) ==
    /\ req[a].at = "call"
    /\ LET p == Row(a).prospect
       IN  crm' = Append(crm, [name |-> Company(p).name, domain |-> Company(p).domain,
                               row |-> req[a].row])
    /\ \/ /\ Answer(a, [req[a] EXCEPT !.at = "record", !.id = Len(crm) + 1])
          /\ UNCHANGED mishaps
       \/ /\ Answer(a, [req[a] EXCEPT !.at = "catch"])
          /\ Mishap("faults")
    /\ UNCHANGED <<run, job, cand, work, approved>>

RecordSuccess(a) ==
    /\ Update(a, "record", [Row(a) EXCEPT !.checkpoint = req[a].id],
              [req[a] EXCEPT !.at = "created"])
    /\ UNCHANGED approved

MarkNewCreated(a) == MarkCreated(a, "created", [req[a] EXCEPT !.at = "audit"])

AuditCreated(a) ==
    /\ req[a].at = "audit"
    /\ Answer(a, NoRequest)
    /\ UNCHANGED <<run, job, cand, crm, work, approved, mishaps>>

MarkCreateFailed(a) ==
    /\ Update(a, "catch",
              [Row(a) EXCEPT !.status = "FAILED",
                             !.created = IF req[a].id # 0 THEN req[a].id ELSE req[a].known],
              NoRequest)
    /\ UNCHANGED approved

AssumeWritten(a) ==  \* mutant: a failed CRM call is taken for a written company
    Answer(a, [req[a] EXCEPT !.at = IF @ = "call" THEN "record" ELSE "catch"])
ToCatch(a) == Answer(a, [req[a] EXCEPT !.at = "catch"])

\* Another statement throws, without effect: from within the try to its catch, from
\* elsewhere to the caller.
RequestThrows(a) ==
    /\ req[a].at \notin {"idle", "lookup"}
    /\ Mishap("faults")
    /\ IF req[a].at \in InTry THEN ToCatch(a) ELSE Answer(a, NoRequest)
    /\ UNCHANGED <<run, job, cand, crm, work, approved>>

------------------------------------------------------------------------------
(* Around the service.                                                      *)

\* Postgres, Redis and with it the queue survive a restart of the processes.
Restart ==
    /\ Mishap("restarts")
    /\ req' = [a \in Admins |-> NoRequest]
    /\ work' = [w \in Workers |-> NoWork]
    /\ UNCHANGED <<run, job, cand, crm, approved>>

\* A user of the CRM adds a company, once: more would only be more of the same match.
UserAdds(x) ==
    /\ \A i \in DOMAIN crm : crm[i].row # 0
    /\ crm' = Append(crm, [name |-> x.name, domain |-> x.domain, row |-> 0])
    /\ IF \E a \in Admins : req[a].at = "call" /\ IsExact(Row(a).prospect, x)
       THEN Mishap("overlaps") ELSE UNCHANGED mishaps
    /\ UNCHANGED <<run, job, cand, req, work, approved>>

------------------------------------------------------------------------------
Init ==
    /\ run = "none"
    /\ job = [state |-> "none", attemptsMade |-> 0, stalled |-> 0, owner |-> NoWorker]
    /\ cand = <<>>
    /\ crm = <<>>
    /\ req = [a \in Admins |-> NoRequest]
    /\ work = [w \in Workers |-> NoWork]
    /\ approved = {}
    /\ mishaps = [faults |-> 0, restarts |-> 0, stalls |-> 0, overlaps |-> 0]

Decide(a) ==
    \/ \E c \in DOMAIN cand : ApproveRead(a, c) \/ RejectRead(a, c) \/ CreateRead(a, c)
    \/ Approve(a) \/ Reject(a)

Create(a) ==
    \/ GetCompleted(a) \/ Recover(a)
    \/ Lookup(a) \/ LookupFails(a)
    \/ MarkLookupFailed(a) \/ MarkDuplicate(a) \/ MarkPossible(a)
    \/ CreateCompany(a) \/ RecordSuccess(a) \/ MarkNewCreated(a) \/ AuditCreated(a)
    \/ MarkCreateFailed(a)

Start(a) == CreateRun(a) \/ AddJob(a) \/ \E w \in Workers : RunSync(a, w)

Execute(w) ==
    \/ StartProcessing(w) \/ Discover(w) \/ Propose(w) \/ Complete(w) \/ AuditRun(w)
    \/ MarkRunFailed(w) \/ DiscoveryThrows(w)
    \/ JobCompleted(w) \/ AttemptFailed(w)

Next ==
    \/ \E a \in Admins : Start(a) \/ Decide(a) \/ Create(a) \/ RequestThrows(a)
    \/ \E w \in Workers : Take(w) \/ Execute(w)
    \/ Reclaim \/ Stall
    \/ Restart
    \/ \E x \in UserCompanies : UserAdds(x)

\* A worker goes on with what it has begun, and BullMQ hands out the jobs that wait or
\* whose worker is gone.
Fairness ==
    /\ \A w \in Workers : WF_vars(Execute(w)) /\ WF_vars(Take(w))
    /\ WF_vars(Reclaim)

Spec == Init /\ [][Next]_vars /\ Fairness

------------------------------------------------------------------------------
\* Types.
TypeOK ==
    /\ run \in {"none", "queued", "processing", "completed", "failed"}
    /\ job \in [state : {"none", "waiting", "active", "completed", "failed"},
                attemptsMade : 0 .. MaxAttempts, stalled : 0 .. MaxStalled + 1,
                owner : Workers \union {NoWorker}]
    /\ cand \in Seq(Candidates)
    /\ \A i \in DOMAIN crm : crm[i].row \in 0 .. Len(cand)
    /\ req \in [Admins -> Requests]
    /\ work \in [Workers -> Work]
    /\ approved \subseteq DOMAIN cand
    /\ mishaps \in [faults : Nat, restarts : Nat, stalls : Nat, overlaps : Nat]

Made == {i \in DOMAIN crm : crm[i].row # 0}
MadeFor(i) == cand[crm[i].row].prospect

\* "Retries reuse checkpoint / createdTwentyCompanyId and do not create a second
\* company" (createApprovedCandidate): beside a company that is an exact match of the
\* candidate, or was created for the same prospect by this or another row, the platform
\* creates one only if requests overlapped, however often attempts were cut off, lost
\* their answer or could not reach the CRM.
NoSecondCompany ==
    \A j \in Made :
        Cardinality({i \in 1 .. j - 1 : \/ IsExact(MadeFor(j), crm[i])
                                        \/ i \in Made /\ MadeFor(i) = MadeFor(j)})
            <= mishaps.overlaps

\* The same sentence without the excuse.
CreatesAtMostOnce ==
    \A i, j \in Made : i # j => crm[i].row # crm[j].row

\* "Create only if APPROVED (or retry FAILED)": whatever failed in between, a company was
\* created only for a candidate somebody approved.
WrittenWasApproved == \A i \in Made : crm[i].row \in approved

\* A candidate is CREATED only with a company that was created for it, also when two
\* requests create it at once.
CreatedHasItsCompany ==
    \A c \in DOMAIN cand :
        cand[c].status = "CREATED" => cand[c].created \in Made /\ crm[cand[c].created].row = c

NoneCreatedFor(c) == \A i \in DOMAIN crm' : crm'[i].row = c => i \in DOMAIN crm

\* "Unapproved / rejected / exact duplicates cannot be written": while requests on a
\* prospect do not overlap, a rejection or an exact match is never taken back, and the
\* candidate never written.
DecisionStands ==
    [][mishaps'.overlaps = 0 =>
        \A c \in DOMAIN cand :
            cand[c].status \in {"REJECTED", "DUPLICATE"} =>
                cand'[c].status \in {cand[c].status, "REJECTED"} /\ NoneCreatedFor(c)]_vars

Known(row) == row.checkpoint # 0 \/ row.created # 0

\* "If we already created (or checkpointed) a company, do not require live CRM dedupe
\* reads and never call createCompany again": once the rows name the company they keep
\* naming one, no other is created and the candidate is not taken for a duplicate of it.
KnownCompanyIsReused ==
    [][mishaps'.overlaps = 0 =>
        \A c \in DOMAIN cand :
            Known(cand[c]) => /\ Known(cand'[c]) /\ NoneCreatedFor(c)
                              /\ cand'[c].status # "DUPLICATE"]_vars

\* A run whose job was queued ends up completed for good, unless its faults use up the
\* attempts or it loses its worker more often than BullMQ allows (or while it still runs).
Exhausted ==
    \/ mishaps.faults >= MaxAttempts
    \/ mishaps.restarts > MaxStalled
    \/ mishaps.stalls > 0
QueuedRunCompletes == job.state # "none" ~> [](run = "completed" \/ Exhausted)
==============================================================================
