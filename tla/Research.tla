------------------------------ MODULE Research -------------------------------
(***************************************************************************)
(* Research runs of one prospect candidate: their start by an administrator, *)
(* their execution by workers or within the request, the findings they share *)
(* and the package each leaves.  The candidate's approval, the agent's pause *)
(* switch and the company brain are other components' state, changed here by *)
(* their environment.  Every await that reads or writes what another step    *)
(* may change is a step of its own.                                          *)
(***************************************************************************)
EXTENDS ResearchPackage

CONSTANTS
    Admins,       \* concurrent HTTP requests
    Workers,      \* executions of executeResearch
    NoWorker,     \* the owner of a job nobody holds
    Results,      \* fixtures: the sequences of keys that the deterministic provider returns
    Ageing,       \* bound: sets of keys that may grow old together
    MaxRuns,      \* bound: runs
    MaxAttempts,  \* attempts of the queue's jobs: 3
    MaxStalled,   \* BullMQ's maxStalledCount: 1
    MaxTurns,     \* bound: changes of the environment
    MaxMishaps    \* bound: mishaps of all kinds together

ASSUME ResearchAssumption ==
    /\ NoWorker \notin Workers
    /\ Results \subseteq Seq(Keys) /\ Ageing \subseteq SUBSET Keys
    /\ MaxAttempts \in Nat \ {0} /\ {MaxRuns, MaxStalled, MaxTurns, MaxMishaps} \subseteq Nat

VARIABLES
    runs,       \* ProspectResearchRun rows with their BullMQ jobs; refused is history: an
                \* attempt found no ready brain, unproven findings or no valid package
    findings,   \* ProspectResearchFinding: a partial function from keys to stale flags
    candidate,  \* ProspectCandidate.status, as far as research tells it apart
    paused,     \* the switch of research_agent
    ready,      \* the company brain is ready and has a payload
    old,        \* keys of findings that are more than 180 days old by now
    req,        \* [Admins -> next statement and locals of startResearch]
    work,       \* [Workers -> next statement and locals of executeResearch]
    turns,      \* number of changes of the environment
    mishaps     \* faults (a statement throws), restarts (a worker dies)

vars == <<runs, findings, candidate, paused, ready, old, req, work, turns, mishaps>>
others == <<candidate, paused, ready, old, turns>>

Statuses == {"QUEUED", "PROCESSING", "COMPLETED", "FAILED", "BLOCKED"}
NoPackage == [findingIds |-> <<>>]  \* the column is null
NoRequest == [at |-> "idle", run |-> 0]
NoWork == [at |-> "idle", run |-> 0, sync |-> FALSE, todo |-> <<>>, views |-> <<>>, seen |-> {}]
Researchable == candidate = "approved"

Mishap(kind) ==
    /\ mishaps.faults + mishaps.restarts < MaxMishaps
    /\ mishaps' = [mishaps EXCEPT ![kind] = @ + 1]

Answer(a, to) == req' = [req EXCEPT ![a] = to]
Goes(w, at) == work' = [work EXCEPT ![w].at = at]
Row(w) == runs[work[w].run]

------------------------------------------------------------------------------
(* startResearch: a paused agent or an unapproved candidate refuses it.  The *)
(* two checks are one step with the row's creation, as execution repeats both. *)
Start(a) ==
    /\ req[a].at = "idle"
    /\ Len(runs) < MaxRuns
    /\ ~paused /\ Researchable
    /\ \E fixture \in Results :
          runs' = Append(runs, [status |-> "QUEUED", fixture |-> fixture, package |-> NoPackage,
                                refused |-> FALSE, state |-> "none", made |-> 0, stalled |-> 0,
                                owner |-> NoWorker])
    /\ Answer(a, [at |-> "add", run |-> Len(runs) + 1])
    /\ UNCHANGED <<findings, others, work, mishaps>>

AddJob(a) ==
    /\ req[a].at = "add"
    /\ runs' = [runs EXCEPT ![req[a].run].state = "waiting"]
    /\ Answer(a, NoRequest)
    /\ UNCHANGED <<findings, others, work, mishaps>>

\* What holds of the agent and of the candidate as an attempt begins, or comes to hold.
Permits == (IF paused THEN {} ELSE {"agent"}) \union (IF Researchable THEN {"candidate"} ELSE {})

\* Workers are interchangeable: it is always the same idle one that begins.
Begin(w, r, sync) ==
    /\ work[w].at = "idle" /\ w = CHOOSE x \in Workers : work[x].at = "idle"
    /\ work' = [work EXCEPT ![w] = [NoWork EXCEPT !.at = "paused", !.run = r, !.sync = sync,
                                                  !.seen = Permits]]

RunSync(a, w) ==
    /\ req[a].at = "add"
    /\ Begin(w, req[a].run, TRUE)
    /\ Answer(a, NoRequest)
    /\ UNCHANGED <<runs, findings, others, mishaps>>

\* A statement of the request throws: a run may be left without a job.
RequestThrows(a) ==
    /\ req[a].at # "idle"
    /\ Mishap("faults")
    /\ Answer(a, NoRequest)
    /\ UNCHANGED <<runs, findings, others, work>>

------------------------------------------------------------------------------
(* BullMQ: a waiting job is taken; a job whose worker died is taken again.   *)
Take(w, r) ==
    /\ runs[r].state = "waiting"
    /\ Begin(w, r, FALSE)
    /\ runs' = [runs EXCEPT ![r].state = "active", ![r].owner = w]
    /\ UNCHANGED <<findings, others, req, mishaps>>

Holds(w, r) == work[w].at # "idle" /\ work[w].run = r /\ ~work[w].sync

Reclaim(r) ==
    /\ runs[r].state = "active" /\ ~Holds(runs[r].owner, r)
    /\ runs' = [runs EXCEPT ![r].state = IF runs[r].stalled < MaxStalled THEN "waiting"
                                         ELSE "failed",
                            ![r].stalled = @ + 1, ![r].owner = NoWorker]
    /\ UNCHANGED <<findings, others, req, work, mishaps>>

Settle(w, row) ==
    /\ runs' = [runs EXCEPT ![work[w].run] = IF work[w].sync THEN @ ELSE [row EXCEPT !.owner = NoWorker]]
    /\ work' = [work EXCEPT ![w] = NoWork]
    /\ UNCHANGED <<findings, others, req, mishaps>>

JobCompleted(w) ==
    /\ work[w].at \in {"blocked", "completed"}
    /\ Settle(w, [Row(w) EXCEPT !.state = "completed"])

NoRetry(w) ==  \* mutant
    /\ work[w].at = "attempt_failed"
    /\ Settle(w, [Row(w) EXCEPT !.made = @ + 1, !.state = "failed"])
AttemptFailed(w) ==
    /\ work[w].at = "attempt_failed"
    /\ Settle(w, [Row(w) EXCEPT !.made = @ + 1,
                                !.state = IF Row(w).made + 1 < MaxAttempts THEN "waiting"
                                          ELSE "failed"])

WorkerDies(w) ==
    /\ work[w].at # "idle"
    /\ Mishap("restarts")
    /\ work' = [work EXCEPT ![w] = NoWork]
    /\ UNCHANGED <<runs, findings, others, req>>

------------------------------------------------------------------------------
(* executeResearch: the pause and the approval are checked again.           *)
CheckPaused(w) ==
    /\ work[w].at = "paused"
    /\ Goes(w, IF paused THEN "block" ELSE "candidate")
    /\ UNCHANGED <<runs, findings, others, req, mishaps>>

ApprovedAtStart(w) == TRUE  \* mutant: startResearch has checked it
StillApproved(w) == Researchable

CheckCandidate(w) ==
    /\ work[w].at = "candidate"
    /\ Goes(w, IF StillApproved(w) THEN "start" ELSE "block")
    /\ UNCHANGED <<runs, findings, others, req, mishaps>>

SetRun(w, at, row, to) ==
    /\ work[w].at = at
    /\ runs' = [runs EXCEPT ![work[w].run] = row]
    /\ Goes(w, to)
    /\ UNCHANGED <<findings, others, req, mishaps>>

Block(w) == SetRun(w, "block", [Row(w) EXCEPT !.status = "BLOCKED"], "blocked")
MarkRunning(w) ==  \* mutant: the status of a discovery run
    SetRun(w, "start", [Row(w) EXCEPT !.status = "RUNNING"], "collect")
MarkProcessing(w) == SetRun(w, "start", [Row(w) EXCEPT !.status = "PROCESSING"], "collect")

\* The audit entry, and in the try: the brain, the provider and sanitizeProviderFindings.
Collect(w) ==
    /\ work[w].at = "collect"
    /\ ready /\ Sanitizes(Row(w).fixture)
    /\ work' = [work EXCEPT
          ![w].at = IF Row(w).fixture = <<>> THEN "complete" ELSE "find",
          ![w].todo = [i \in DOMAIN Row(w).fixture |->
                          [key |-> Row(w).fixture[i], stale |-> Row(w).fixture[i] \in old]]]
    /\ UNCHANGED <<runs, findings, others, req, mishaps>>

Refuse(w) == SetRun(w, work[w].at, [Row(w) EXCEPT !.refused = TRUE], "catch")

CollectRefused(w) ==
    /\ work[w].at = "collect"
    /\ ~ready \/ ~Sanitizes(Row(w).fixture)
    /\ Refuse(w)

\* The first finding of todo has been seen to, as view; its audit entry is written.
NextFinding(w, view) ==
    work' = [work EXCEPT ![w].at = IF Len(work[w].todo) = 1 THEN "complete" ELSE "find",
                         ![w].todo = Tail(@),
                         ![w].views = Append(@, view)]

Known(w) == Head(work[w].todo).key \in DOMAIN findings

FindNotesAge(w) ==  \* mutant: judged anew
    /\ work[w].at = "find"
    /\ IF Known(w) THEN NextFinding(w, Head(work[w].todo)) ELSE Goes(w, "persist")
    /\ UNCHANGED <<runs, findings, others, req, mishaps>>

\* findUnique: a finding that exists is reused as it was persisted.
Find(w) ==
    /\ work[w].at = "find"
    /\ LET k == Head(work[w].todo).key
       IN  IF Known(w) THEN NextFinding(w, [key |-> k, stale |-> findings[k]])
           ELSE Goes(w, "persist")
    /\ UNCHANGED <<runs, findings, others, req, mishaps>>

\* create: the unique index refuses a key that another run has created since.
Persist(w) ==
    /\ work[w].at = "persist"
    /\ LET f == Head(work[w].todo)
       IN  IF Known(w) THEN UNCHANGED findings /\ Goes(w, "catch")
           ELSE /\ findings' = [k \in DOMAIN findings \union {f.key} |->
                                   IF k = f.key THEN f.stale ELSE findings[k]]
                /\ NextFinding(w, f)
    /\ UNCHANGED <<runs, others, req, mishaps>>

Complete(w) ==
    /\ work[w].at = "complete"
    /\ \E views \in {Sorted(work[w].views)} :
          /\ ~Refused(views)
          /\ SetRun(w, "complete",
                    [Row(w) EXCEPT !.status = "COMPLETED", !.package = Package(views)],
                    "completed")

PackageRefused(w) ==
    /\ work[w].at = "complete"
    /\ \E views \in {Sorted(work[w].views)} : Refused(views)
    /\ Refuse(w)

MarkFailed(w) ==
    SetRun(w, "catch", [Row(w) EXCEPT !.status = "FAILED", !.package = NoPackage],
           "attempt_failed")

\* A statement throws without effect: from within the try to its catch, and from before it
\* and from the catch to the caller.  At collect it may be the audit before the try.
ResearchThrows(w) ==
    /\ work[w].at \notin {"idle", "attempt_failed"}
    /\ Mishap("faults")
    /\ \/ /\ work[w].at \in {"collect", "find", "persist", "complete", "completed"}
          /\ Goes(w, "catch")
       \/ /\ work[w].at \in {"paused", "candidate", "block", "blocked", "start", "collect", "catch"}
          /\ Goes(w, "attempt_failed")
    /\ UNCHANGED <<runs, findings, others, req>>

------------------------------------------------------------------------------
(* The environment: a reviewer, the pause switch, the brain and time.        *)
Turn(c, p, b, o) ==
    /\ turns < MaxTurns
    /\ turns' = turns + 1
    /\ candidate' = c /\ paused' = p /\ ready' = b /\ old' = o
    /\ work' = [w \in Workers |-> IF work[w].at = "idle" THEN work[w]
                                  ELSE [work[w] EXCEPT !.seen = @ \union Permits']]
    /\ UNCHANGED <<runs, findings, req, mishaps>>

Decide == \E c \in {"approved", "rejected"} \ {candidate} : Turn(c, paused, ready, old)
Switch == Turn(candidate, ~paused, ready, old)
BrainTurns == Turn(candidate, paused, ~ready, old)
Age == \E keys \in Ageing : ~(keys \subseteq old) /\ Turn(candidate, paused, ready, old \union keys)

------------------------------------------------------------------------------
Init ==
    /\ runs = <<>>
    /\ findings = [k \in {} |-> FALSE]
    /\ candidate = "approved"
    /\ paused = FALSE
    /\ ready = TRUE
    /\ old = {}
    /\ req = [a \in Admins |-> NoRequest]
    /\ work = [w \in Workers |-> NoWork]
    /\ turns = 0
    /\ mishaps = [faults |-> 0, restarts |-> 0]

Execute(w) ==
    \/ CheckPaused(w) \/ CheckCandidate(w) \/ Block(w) \/ MarkProcessing(w)
    \/ Collect(w) \/ CollectRefused(w) \/ Find(w) \/ Persist(w)
    \/ Complete(w) \/ PackageRefused(w) \/ MarkFailed(w)
    \/ JobCompleted(w) \/ AttemptFailed(w)

GoOn(a) == AddJob(a) \/ \E w \in Workers : RunSync(a, w)

Next ==
    \/ \E a \in Admins : Start(a) \/ GoOn(a) \/ RequestThrows(a)
    \/ \E w \in Workers : Execute(w) \/ ResearchThrows(w) \/ WorkerDies(w)
    \/ \E r \in DOMAIN runs : Reclaim(r) \/ \E w \in Workers : Take(w, r)
    \/ Decide \/ Switch \/ BrainTurns \/ Age

\* A worker goes on with what it has begun, and BullMQ hands out the jobs that wait or
\* whose worker is gone.
Fairness ==
    /\ \A w \in Workers : WF_vars(Execute(w) \/ \E r \in DOMAIN runs : Take(w, r))
    /\ WF_vars(\E r \in DOMAIN runs : Reclaim(r))

Spec == Init /\ [][Next]_vars /\ Fairness

------------------------------------------------------------------------------
Packages == [findingIds : Seq(Keys), keyFindings : Seq(Keys), namedPeople : SUBSET Keys,
             risks : Seq(Keys), primaryAngle : SUBSET Keys, supportingPoints : Seq(Keys),
             personalizationFacts : Seq(Keys),
             doNotClaim : SUBSET {"funding", "crm", "named contact", "activity",
                                  "stale as recent", "certainty", "only the positive"}]
Rows == [status : Statuses, fixture : Results, package : Packages \union {NoPackage},
         refused : BOOLEAN, state : {"none", "waiting", "active", "completed", "failed"},
         made : 0 .. MaxAttempts, stalled : 0 .. MaxStalled + 1, owner : Workers \union {NoWorker}]
Work == [at : {"idle", "paused", "candidate", "block", "start", "collect", "find", "persist",
               "complete", "blocked", "completed", "catch", "attempt_failed"},
         run : Nat, sync : BOOLEAN, todo : Seq(Views), views : Seq(Views),
         seen : SUBSET {"agent", "candidate"}]

\* Types.
TypeOK ==
    /\ runs \in Seq(Rows)
    /\ DOMAIN findings \subseteq Keys /\ \A k \in DOMAIN findings : findings[k] \in BOOLEAN
    /\ candidate \in {"approved", "rejected"}
    /\ {paused, ready} \subseteq BOOLEAN
    /\ old \subseteq Keys
    /\ req \in [Admins -> [at : {"idle", "add"}, run : Nat]]
    /\ work \in [Workers -> Work]
    /\ turns \in Nat
    /\ mishaps \in [faults : Nat, restarts : Nat]

ElementsOf(s) == {s[i] : i \in DOMAIN s}

\* "Every factual finding needs excerpt and/or source metadata", "do not present stale
\* findings as recent": a package is made of persisted, proven findings, and it flags stale
\* ones exactly if some of them was persisted as stale.
RestsOnFindings(package) ==
    LET used == ElementsOf(package.findingIds)
    IN  /\ used \subseteq {k \in DOMAIN findings : Info[k].proven}
        /\ ElementsOf(package.keyFindings) \subseteq used
        /\ (\E k \in used : findings[k]) <=> "stale as recent" \in package.doNotClaim

\* "personalizationFacts must map to persisted findings": persisted as explicit and fresh.
HasFreshFacts(package) ==
    ElementsOf(package.personalizationFacts)
        \subseteq {k \in ElementsOf(package.findingIds) : ~findings[k] /\ Info[k].explicit}

\* So it is with every package, whatever runs shared, reused, retried or lost.
PackageIsGrounded ==
    \A r \in DOMAIN runs : runs[r].package # NoPackage =>
        RestsOnFindings(runs[r].package) /\ HasFreshFacts(runs[r].package)

Writes ==
    \/ DOMAIN findings' # DOMAIN findings
    \/ \E r \in DOMAIN runs : runs'[r].package \notin {runs[r].package, NoPackage}

\* "Approval is checked at enqueue and again when the worker executes" and "queued jobs
\* fail closed": an attempt writes findings or a package only if since it began the agent
\* was running at some moment and the candidate approved, whatever changed before it.
ResearchIsPermitted ==
    [][Writes => \A w \in Workers :
          work'[w] # work[w] => work[w].seen = {"agent", "candidate"}]_vars

\* A queued run ends completed or blocked for good, also when it collides with another run
\* that creates the same findings, unless it was refused, or faults and collisions use up
\* its attempts, or it loses its worker more often than BullMQ allows: once the bounds are
\* used up, every queued run has ended.
Exhausted ==
    \/ mishaps.faults + Cardinality({k \in Keys : Info[k].proven}) >= MaxAttempts
    \/ mishaps.restarts > MaxStalled
Ended(r) == runs[r].status \in {"COMPLETED", "BLOCKED"} \/ runs[r].refused \/ Exhausted
QueuedRunEnds == <>[](\A r \in DOMAIN runs : runs[r].state # "none" => Ended(r))
==============================================================================
