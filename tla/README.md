# A verification project for ZEX-Platform

TLA+ models of the parts of ZEX-Platform (`src/`, a NestJS service with
Postgres, Redis and BullMQ) where concurrency, retries and partial failures
decide whether the system does what it promises, the TLC configurations that
check them, and TLAPS proofs about the core. Paths below are relative to the
repository; `ai-sdr.service.ts:834` is a line of `src/src/ai-sdr/ai-sdr.service.ts`.

Contents: [inventory](#1-the-system), [plan](#2-plan), [modules](#3-the-modules),
[runs](#4-runs), [proofs](#5-proofs), [what is not modelled](#6-what-is-not-modelled).

## 1. The system

The platform automates sales work around the Twenty CRM. It is one Node
process (or several replicas of it) that serves HTTP and runs the queue
workers. **No service method uses a database transaction**: each Prisma call is
a statement of its own, each `await` lets every other request run, and an
exception or a restart leaves what was written so far. That is the common cause
of nearly every hazard below.

| component | state | operations | interacts with | hard because |
|---|---|---|---|---|
| **AI SDR** (`ai-sdr/`) | `SdrSequence`, `SdrDraft`, `SdrApproval`, `SdrMessage`, `SdrReply`, `SdrMeetingBooking`; the provider's in-process memo | createSequence, createDraft, approve, revoke, reject, send (direct or queued), CRM sync, ingestReply, confirmMeeting | agent control (pause), candidates, CRM client, checkpoints, e-mail provider, audit | approval, rejection, reply and send race; sends are retried; replies are redelivered; a restart forgets what was sent |
| **Agent control** (`agent-control/`) | `TenantAgentControl`, audit rows | pause, resume, undo; overview and list (reads) | every agent asks it before it works | undo is computed from audit rows written in a separate statement and read through a window |
| **Webhooks and enrich-and-score** (`webhooks/`, `jobs/`, `enrichment/`, `scoring/`) | Redis marks, `WebhookLog`, BullMQ jobs, `JobActionCheckpoint`, `EnrichedPerson`, `ScoreHistory` | receive; process (5 attempts) | CRM client, audit | redelivery, retries, stalled jobs, CRM writes that cannot be rolled back |
| **Prospect discovery** (`prospect-discovery/`) | `ProspectDiscoveryRun`, `ProspectCandidate`, checkpoints | start/execute discovery, approve, reject, create in CRM | CRM client, company brain, queue | duplicate companies, rejection racing creation, crash after creation |
| **Research agent** (`research-agent/`) | `ProspectResearchRun`, `ProspectResearchFinding` | start, execute, getLatest | candidates, brain, agent control, queue | two runs share findings, permission changes between request and execution, half-written runs |
| **Why now** (`why-now/`) | `ProspectSignal`, `ProspectScoreSnapshot` | ingest, score (now, queued or for a whole discovery run) | candidates, brain, queue | duplicate signals, retried scorings, boundaries of the scoring |
| **Company brain** (`company-brain/`) | `CompanyBrain` with payload and overrides, sources, analysis jobs | create, addSource, analyse, patch, personas, rules, messaging | queue, analyzer, URL fetch | human edits racing analysis, concurrent patches |
| **Action feed** (`action-feed/`) | none | reads | all of the above | - |
| **Tenants, connections, CRM client** (`tenants/`, `twenty/`) | tenants, encrypted credentials | create, configure, resolve | - | - |
| audit, health, crypto, guards, logging, deployment | audit rows | - | - | - |

What makes each component correct:

* *AI SDR.* Nothing is sent that nobody approved; an e-mail is not sent twice; a
  reply, a meeting or an unsubscribe stops the sequence for good and nothing is
  sent afterwards; what the rows say of a send and of its CRM note is true;
  rejected drafts stay rejected; every attempt is settled.
* *Agent control.* An undo takes back the latest turn of the switch, once, and
  never overwrites a newer one.
* *Webhooks.* An event is processed once and not lost; a success is reported
  only for complete work; retries do not repeat what is recorded.
* *Prospect discovery.* At most one CRM company per candidate; exact duplicates
  and rejected candidates are never created.
* *Company brain.* What people said of a field stands through any analyses; what
  nobody said is what the sources say; an analysis that was asked for ends.
* *Research.* A package is made of persisted, proven findings and says which are
  stale; nothing is written for a candidate or by an agent that was never
  permitted; a queued run ends.
* *Why now.* A snapshot rests on all evidence persisted when its scoring began;
  scores stay in range and fall with conflicts and with age; a queued scoring
  leaves a snapshot.

`PROJECT.json` lists every hazard at the line where it bites, with the
properties that cover it.

## 2. Plan

| order | modules | what | state |
|---|---|---|---|
| 1 | `AiSdr`, `OutreachContract`, `MCAiSdr`, `AiSdrProofs` | the approval-first outreach and its contract | checked; safety and the refinement proved |
| 2 | `AgentControl`, `ControlContract`, `MCAgentControl`, `AgentControlProofs` | pause, resume, undo and the contract of the switch | checked; safety and the refinement proved |
| 3 | `WebhookPipeline`, `MCWebhookPipeline`, `WebhookPipelineProofs` | webhook intake, queue, processor, checkpoints | checked; safety proved |
| 4 | `ProspectDiscovery`, `MCProspectDiscovery`, `ProspectDiscoveryProofs` | discovery runs, candidate decisions and CRM creation | checked; safety proved |
| 5 | `PayloadMerge`, `CompanyBrain`, `MCCompanyBrain`, `CompanyBrainProofs` | analyses against human edits; the merge of overrides | checked; safety proved |
| 6 | `ResearchPackage`, `Research`, `MCResearch`, `ResearchProofs` | research runs that share findings, and the package of each | checked; types, permission and grounding proved |
| 7 | `IcpFit`, `WhyNowScore`, `WhyNow`, `MCWhyNow`, `WhyNowProofs` | the scoring arithmetic, ingestion and snapshots | checked; types, coverage of the evidence and the order of scores proved |

A pure part (`PayloadMerge`, `ResearchPackage`, `IcpFit`, `WhyNowScore`) is a module
of operators that the module of its component extends; proofs are in modules of
their own, and `DataInduction` has the lemmas on recursion and sums they share.

Compositions. Components meet in a few rows that one writes and the other reads.
The reader's module holds the row and an action for what the writer does to it:
`AiSdr` has `paused` and `researchable`, `Research` has `candidate`, `paused` and
`ready`, `WhyNow` has `ready`. These environments may change the row at any
time, which allows every behaviour of the writer's module
(`AgentControl.control`, `ProspectDiscovery.cand`, `CompanyBrain.brain`), so what
is checked of the reader holds whatever the writer does (with TLC, as often as
`MaxTurns` or `MaxPauses` lets it), and a product of the modules would only restrict it.

What is left: a stalled worker that lives on in `CompanyBrain`, `Research` and
`WhyNow`, as `WebhookPipeline` and `ProspectDiscovery` have it, and lemmas on
`PayloadMerge` and `IcpFit` of their own.

## 3. The modules

Conventions. A request or job is a process with a program counter; a label names
the statement it runs next, and the operators are named after the code's methods
and statements. A check that fails without effect is part of the guard of the
first step. Reads that only guard are merged into the step that starts the
request, where no property could tell the difference; a read whose staleness
matters is a step of its own. A statement that throws does so before it takes
effect; one that takes effect and loses its answer is that statement followed by
a failure of the next. Definitions marked *mutant* are deliberately wrong
variants of the definition below them; nothing refers to them, they serve to
show that a property fails when the code is changed that way.

### AiSdr

One sequence (`SdrSequence`) and everything that belongs to it.

| model | code |
|---|---|
| `db.sequence`, `db.draft`, `db.approval`, `db.message`, ... | the status columns of the tables in `schema.prisma` |
| a draft `v \in Versions` | the row with `version = v`: `[sequenceId, version]` is unique and the content is never updated after creation, so the content hash and the idempotency key `send:tenant:draft:hash` are one per version |
| `world.sentByKey`, `world.outbox` | the provider's `Map` and the e-mails handed over |
| `world.notes`, `db.checkpoint` | CRM notes, and `JobActionCheckpoint` rows keyed by the message |
| `world.acked` | reply events answered with success |
| `Draft(p)`, `Decide(p)`, `Send(p)`, `Sync(p)`, `Inbound(p)` | createDraft; approve, revoke, reject; executeSend; syncCrmForMessage; ingestReply and confirmMeeting |
| `UnlessStopped` | `updateMany ... status: { notIn: STOP_STATUSES }`, which Postgres evaluates atomically |
| `Throw(p)` | an exception at the pending statement, sent to the inner catch (CRM sync), the outer catch (send) or the caller, by where the statement stands |
| `Restart` | the process ends: requests in flight and the provider's memo are gone, rows and queue stay |
| `AgentPauseOrResume`, `CandidateMoves` | what agent control and prospect discovery do to the rows read here |

A send may start at any time in any number: the synchronous API call, the
queued job, BullMQ's retry of a failed one and a stalled job taken twice are the
same `SendRequest`. The properties are stated with their code at the end of the
module. `OutreachContract` is the service without its tables: drafts are approved,
a worker commits to one, hands it over or abandons it, and once the sequence has
stopped nobody commits. `AiSdr` implements it under the mapping in `Contract`.

### AgentControl

`control` is the `TenantAgentControl` row of each agent, `timeline` the tenant's
control audit rows in the order the query sorts them, a row's index standing for
its id. `PauseOrResume` and `UndoAction` read and decide, `ReadCurrent` is undo's second
read, of the state it replaces, `Upsert` writes the
switch, `LogAction` the audit row. Requests interleave at these statements, and nothing in
the code keeps two requests to one agent apart, so their properties say what survives that.
`UndoKeepsNewerIntent` lets an undo overwrite a newer pause or resume only if that was recorded
after the undo had read the rows (`read`, history) or lies outside the window;
`NewerIntentIsSafe`, that it never turns back what a newer one turned, is violated, both ways. `Scan` is the loop of
`computeLatestEligibleControlActions` over the rows the window shows, a recursive
function that carries the latest row of each agent, and `LatestEligible` the
question undo asks of it. `ControlContract` is a switch
with a memory of one undoable turn and no audit rows. Its promise is to each agent apart:
it stands while that agent's requests do not overlap (`overlapped`, history) and the rows fit
the window (`Firm`), whatever requests to the other agent do, and is made anew, from the state
the switch is left in, once the requests that overlapped have ended.

### WebhookPipeline

`marks` are the Redis keys, `log[r]`, `job[r]` and `trail[r]` the webhookLog row
`r`, its BullMQ job and its checkpoints, score rows and success entry; `crm[r]`
is what the job's attempts have done to the CRM. The processor's four CRM writes
run the same three statements each, `GetCompleted`, `CallTwenty` and
`RecordSuccess`, so they are one loop over `Actions`, with `AfterStep` holding the
decision whether an opportunity is due. The score of an attempt is an arbitrary
choice: person, rules and time may differ between attempts. BullMQ is external
and modelled from how the code configures it: a failed attempt waits for
the next until `attempts`; an active job whose lock is lost (its process died, or
its worker was too slow) is taken again up to `maxStalledCount` times, and the
end of an attempt counts only for the worker that still owns the job.

### ProspectDiscovery

`run` and `job` are the status of one discovery run and its BullMQ job, `cand` the
candidates in the order they were inserted, each with its `create_company`
checkpoint, `crm` the companies of the Twenty CRM, `req` and `work` the admin
requests and the executions of `executeDiscovery`. A retried attempt inserts its
candidates again, so one prospect has several rows. `Discover` takes any result
the provider may give and, as discovery is best-effort, any part of the CRM;
`Lookup` before a creation is complete or fails. `CreateCompany` may lose its
answer: then the company exists and nobody knows its id. `Dedupe` is
`dedupeCompanyAgainstCrm` over domains and names: a name stands for one spelling,
because the CRM's search only returns companies that contain it, and a prospect has the
domain it is searched by and the web site `createCompany` writes, which may differ.
`Begin` counts every decision on a rival prospect that is under way when another
one starts as an overlap, so that the properties can say which failures they survive
and that overlapping requests are the exception. (One overlap per request that begins
would not do: two requests whose prospects are each a rival of a third's, but not of
each other, may both add a company the third then repeats.) `approved` is a history variable.

### CompanyBrain and PayloadMerge

A payload is, for each field, who wrote its text: nobody, the analyzer or a
person. A field is a scalar section or an item id of a list; `over` is
`userOverrides`: edited sections, edited and suppressed items, lists replaced as
a whole. `PayloadMerge` is `payload-merge.ts` on that: `Merge` is
`mergeGeneratedPayload` with `mergeList`, `Upserted`, `Removed` and `Patched` are
what the edit methods make of a text and its marks.

`CompanyBrain` runs them. Every edit is `ReadForEdit` and `WriteEdit`, every
analysis `ReadBrain`, `MarkProcessing`, `WriteBrain`, `CompleteRow`, `Audit`, with
`FailBrain` and `FailRow` for its catch: between a read and its write anything
may happen. `CreateJob`, `MarkAnalyzing`, `AddJob` or `RunSync` are
`enqueueOrRunAnalysis`. `asked` and `analysed` are history: what the latest edit
of each field wanted of it and the sources of the analysis written last.
`WriteEdit` counts as a mishap when the row was written since it was read or an
analysis is between its read and its write, so the properties can name the
overlaps they exclude; `RegenerationKeepsEdits` excludes none and is violated.
Left out: the order of a list and ids twice in one, the name, the web site, the
version number, the evidence map.

### Research and ResearchPackage

`runs` are the run rows with their BullMQ jobs, `findings` the rows of the
candidate's findings by dedupe key, each with the stale flag it was persisted
with. `executeResearch` is `CheckPaused`, `CheckCandidate`, `MarkProcessing`,
`Collect` (brain, provider, `sanitizeProviderFindings`), then `Find` and `Persist`
for each finding and `Complete`; `CollectRefused`, `PackageRefused` and
`ResearchThrows` lead to the catch, `MarkFailed`, which also undoes a COMPLETED
run. Two executions meet at `Persist`, where the unique index refuses the second.
`ResearchPackage` is `package-builder.ts` and `finding-utils.ts`: order, bounds,
which finding may become a fact, an angle, a risk or a warning, and which
packages the schema refuses. The provider is deterministic, as no other
is bound: a run has one fixture and each attempt gets the same. `Decide`,
`Switch`, `BrainTurns` and `Age` are the environment; `seen` remembers which
permissions held at some moment of an attempt. Texts copied from the brain and
from why-now into a package are left out.

### WhyNow, WhyNowScore and IcpFit

`signals` are the persisted dedupe keys (what is said and the day it occurred),
`snapshots` the append-only rows. `Ingest`, `ScoreNow` and `ScoreLater` are the
requests; `Find` and `Persist` are `ingestSignals`, within `executeScore` too, which
goes on with `Read` and `Create`. `scoreDiscoveryRun` repeats `scoreCandidate` for each
candidate and is not a step of its own. `WhyNowScore` is the whole assessment
over integers, fractions scaled (a confidence in percent, weights times 100), and
`IcpFit` the fit it starts from. `known` is history: the signals the execution had to
see. `Scores(c, s, d)` is the assessment of candidate `c` on the signals `s` at day `d`; the
table `Assessments` has TLC compute each once. Its sums are `SumFunction`, over `IntentDelta` and
`TimingDelta` of each signal.

`PriorityFollowsEvidence` compares the snapshots of a candidate. For conflicts it says of
intent, timing and overall what `docs/WHY_NOW_V1.md:44` says, whatever the evidence; of the
confidence only where there was evidence before. Without signals the confidence is a constant of
its own, 40 or 30 by the fit (`why-now-scoring.ts:154-168`), and the first signal replaces it by
the formula that starts from 45, so that a first conflict can raise it: `ConflictLowersConfidence`
leaves the exception out and is violated (`WhyNowConflict`).

## 4. Runs

All passing runs end with the whole state space explored. Constants are bounded
as small as the interesting cases allow; every bound is a constant with a comment.

| run | expects | shows |
|---|---|---|
| `AiSdrSend` | pass | Two requests among drafts, approvals, sends and CRM syncs of one draft, one exception anywhere, one restart, a candidate that stops being researchable. One e-mail per life of the process; notes and COMPLETED syncs are truthful. |
| `AiSdrStop` | pass | Two requests among drafts, approvals, revocations, sends, an admin reply, a meeting, a pause. Approval first, stops are final, caused and respected; refinement of `OutreachContract`. |
| `AiSdrLive` | pass | All purposes, a positive reply through the webhook, rejections. Replies stop the sequence, attempts settle. |
| `AiSdrReject` | violation | `RejectIsFinal`: approve reads, reject completes, approve writes. |
| `AgentControl` | pass | Two requests at once, two agents, up to six rows, of which undo reads three, one failed statement. An undo overwrites only what was recorded after its read or lies outside the window; refinement of `ControlContract`. |
| `WebhookPipeline` | pass | Two concurrent deliveries of an event, two workers, two attempts per job, any two mishaps among exceptions, restarts, jobs taken twice and expired marks. |
| `ProspectDiscovery` | pass | One run of two attempts, two concurrent admins, a company added by a CRM user, any two mishaps among exceptions, failed look-ups, lost answers, restarts, stalls and overlaps. What reaches the CRM was approved, reached it once, and is not forgotten; the run completes. |
| `ProspectTwice` | violation | `CreatesAtMostOnce`: create and retry-create of one candidate overlap; no failure is needed. |
| `CompanyBrain` | pass | Two requests (one creates, analyses and edits, the other adds a source and edits), a worker, two edits among upserts, removals and patches, two analyses of two attempts, one mishap. What people said stands, the rest is current, an analysis ends. |
| `BrainEditLost` | violation | `RegenerationKeepsEdits`: an analysis reads, an edit is written, the analysis writes. |
| `Research` | pass | Two runs of two workers that share findings, one turn of the environment, one mishap. Packages are grounded, their facts fresh, writes permitted, queued runs end. |
| `WhyNow` | pass | A queued scoring, two requests among ingestions and scorings, one of two candidates, a later day or a brain that turns, one mishap. Snapshots miss nothing, scores follow the evidence (the confidence of a first conflict excepted), the queued scoring leaves its snapshot. |

Further configurations show where a property of a passing run, or one a reader
may expect, ends. Each has a counterexample (`tlc -config X.cfg M`), but for
`AgentControlSerial`, which passes: one request at a time with a longer history inside the window.

| configuration | module | counterexample to |
|---|---|---|
| `AiSdrReplyLost` | `MCAiSdr` | `ReplyStopsSequence` with one exception between the reply row and the stop: the redelivery is taken for a duplicate. |
| `AiSdrSentLost` | `MCAiSdr` | `SentNeverFails`: the second of two sends, stopped by a reply, marks the delivered message FAILED. |
| `AgentControlWindow` | `MCAgentControl` | `NewerIntentIsSafe` when the history is longer than the window (2 of 4 rows, for 2000 of more), with one request at a time. |
| `AgentControlOverlap` | `MCAgentControl` | `NewerIntentIsSafe` inside the window with two requests to one agent: a pause recorded between the read and the write of an undo is undone with it. |
| `WebhookLost` | `MCWebhookPipeline` | `AnsweredIsQueued` with one exception between the mark and the job. |
| `WhyNowConflict` | `MCWhyNow` | `ConflictLowersConfidence`: one fresh conflict on no evidence raises the confidence from 40 to 60. |
| `WhyNowCites` | `MCWhyNow` | `CitedSignalIsAligned`: the explanation cites the newest signal that is not negative, whether it matches a buying trigger or not. |

Why the bounds suffice. The AI SDR races are between two requests on the same
draft or on draft and sequence: two processes and one version meet them all, and
a createDraft past `MaxVersion` still supersedes and revokes before it is
dropped. One exception and one restart reach every catch from every statement.
Five control actions (a request that has begun below the bound may add a sixth row) let an
agent go through pause, resume, undo and again with the other agent's rows in between, two
requests meet at any of their statements, and a window of three rows is outgrown while requests
are under way; `AgentControlSerial` has six actions within a window of six. In the pipeline two mishaps are enough
to cut an attempt off twice, or to let two rows exist and cut one. In discovery
two mishaps and two attempts give up to four rows of one prospect, a creation
whose answer is lost followed by a retry whose look-up fails, or an overlap with
either; one company added by a user is an exact or a possible match.
In the brain two items of one list and one scalar tell apart every branch of the
merge (edited, suppressed, both lists and items marked, untouched); two edits
and two analyses are needed for a deletion to be resurrected or a protected item
to be replaced. In research the three keys are a hook in a template phrase, the objection that
backs it and is a risk, and a rumour without provenance; two runs collide on each and one turn
of the environment falls before, between or after any two statements. In why-now
days 0 and 40 lie in different decay classes, and two requests and a job
ingest the same key from three sides.
The proofs of section 5 remove the bounds for every safety property.

`CHECK_DEADLOCK FALSE` is given where the model stops at a bound of its own (the
number of actions or deliveries), or where the program rests: a sequence that got
its only reply. Symmetry is over requests, workers and agents, which no property names,
and used with safety properties only.

Fairness (`FairSpec` of `AiSdr`). `WF(Step(p))`: the event loop resumes every
started request. `SF(ReplyRequest)`, `WF(ReplyDuplicate)`: the e-mail provider
redelivers an event until it is answered with success, and the service has a
free request for it again and again. Nothing is assumed of requests people make,
and nothing recovers a request after an exception: the code has no sweeper.
`ReplyStopsSequence` and `AttemptSettles` hold under it without exceptions;
`AiSdrReplyLost` shows that with one the first does not.

Fairness of `ProspectDiscovery`: a worker goes on with the execution it has begun
(an exception is going on too), an idle worker takes a waiting job, and BullMQ's
stalled check takes a job back whose worker is gone. Nothing is assumed of admins.
The two-attempt bound stands for three; `Exhausted` names what the retries do
not survive. `CompanyBrain`, `Research` and `WhyNow` assume the same: what has begun goes
on, a waiting job is taken and a job whose worker is gone comes back. Nothing
is assumed of requests that people make, nor of the environment.

## 5. Proofs

Eight modules hold proofs. Seven are about a component and follow the same
argument: an inductive invariant `Inv` (`Init => Inv`, `Inv /\ [Next]_vars => Inv'`,
`Inv` implies the property), one step per action, and lemmas that reduce an action to
the rows it writes. No bound is used: requests, workers, attempts, edits and mishaps are
arbitrary. Every invariant and every action property that a passing run checks is proved.

| module | theorem | property |
|---|---|---|
| `AiSdrProofs` | `TypeCorrect` | `[]TypeOK` |
| | `ApprovalFirst` | `[]OnlyApprovedIsSent` |
| | `AtMostOncePerLife` | `[]OneEmailPerProcessLife` |
| | `NotesAreTrue` | `[]NoteOnlyForSentEmail` |
| | `CompletionIsWhole` | `[]CompletedSyncIsWhole` |
| | `StopIsCaused` | `[]StopHasCause` |
| | `StopsAreFinal` | `StopIsFinal` |
| | `StopsSending` | `NoSendAfterStop` |
| | `Implementation` | `ImplementsContract` |
| `AgentControlProofs` | `Typing` | `[]TypeOK` |
| | `NewerIntentIsKept` | `UndoKeepsNewerIntent` |
| | `ContractImplemented` | `ImplementsContract` |
| `WebhookPipelineProofs` | `TypeCorrect` | `[]TypeOK` |
| | `OneRowPerEvent` | `[]OneLogPerEvent` |
| | `CheckpointsAreTrue` | `[]CheckpointIsTrue` |
| | `SuccessIsEarned` | `[]SuccessIsWhole` |
| | `DuplicatesArePaid` | `[]DuplicatesNeedACut` |
| `ProspectDiscoveryProofs` | `TypeCorrect` | `[]TypeOK` |
| | `ApprovalBeforeCreation` | `[]WrittenWasApproved` |
| | `CreatedIsTrue` | `[]CreatedHasItsCompany` |
| | `DecisionsStand` | `DecisionStands` |
| | `KnownCompanyStays` | `KnownCompanyIsReused` |
| | `SecondsAreOverlaps` | `[]NoSecondCompany` |
| `CompanyBrainProofs` | `TypeCorrect` | `[]TypeOK` |
| | `WordStands` | `[]HumanWordStands` |
| | `MarksSurvive` | `[]ProtectionSurvives` |
| | `ReadyIsCurrent` | `[]ReadyShowsSources` |
| | `WaitsForSomething` | `[]AnalyzingHasJob` |
| `ResearchProofs` | `Typing` | `[]TypeOK` |
| | `Permission` | `ResearchIsPermitted` |
| | `PackagesGrounded` | `[]PackageIsGrounded` |
| `WhyNowProofs` | `Typing` | `[]TypeOK` |
| | `SnapshotsMissNothing` | `[]SnapshotCoversEvidence` |
| | `EvidenceRules` | `[]PriorityFollowsEvidence` |

The assumptions are those the component modules name (`BoundsAssumption`,
`EventsAssumption`, `PurposesAssumption`, `RequestsAssumption`; `ControlAssumption`;
`PipelineAssumption`; `DiscoveryAssumption`; `FieldsAssumption`, `BrainAssumption`;
`PackageAssumption`, `ResearchAssumption`; `ScoreAssumption`, `WhyNowAssumption`); TLC
evaluates them in every run. They type the constants and say that what is counted or summed
is finite: concurrent admins in discovery, the rules and disqualifiers of a brain in why-now.
The modules about a component, but for `AgentControlProofs`, also state `Invariance`,
`Spec => []Inv`.

No theorem has a hypothesis of its own: where the code depends on requests that do not overlap
or on a history inside the window, the property itself says so, and the runs reach both sides of it.

### AiSdrProofs

The properties are not inductive alone: that a note stands on a sent e-mail
depends on where the request that wrote it has been. The invariant `Inv` adds to
the types

* `Sound`: the facts the rows keep about each other: an e-mail handed over has
  an approval on record, a provider id an e-mail, a checkpoint or note a provider
  id, a COMPLETED sync its checkpoints, a stop status its cause;
* `Once`: an outbox count of at most one per life, and room for one more
  unless the provider remembers the key;
* for each request, `Ready`, that what it works on fits its label (a version, a
  booking, an event), and `Earned`, what reaching the label has established (past
  the gate an approval exists, past the provider the e-mail is out, past
  the note the note exists, ...).

`Earned` only speaks of facts that other requests never take back, so a step of
one request cannot spoil another's (`EarnedKept`); and most steps write one row
through `Statement`, `Read`, `External` or `Begin`, so one lemma each
(`StatementPreserves`, ...) reduces a step to what it does to the rows. The step
lemmas then follow the structure of `Next`. The two action properties use the
invariant and the definition of each step.

The refinement: every step of `AiSdr` is a step of `OutreachContract` under the
mapping of `Contract`, or leaves the outreach as it is. `ApproveGrant` is Approve; the
last check before the provider, `SendLive`, is Commit, because `Earned` says that who got
there passed an approval; `SendProvider` is HandOver by `Once`; `ReplyStop` and
`MeetingComplete` are Stop; an exception, a refusal or a restart is Abandon. Three
lemmas dispose of the rest: steps that touch nothing the mapping reads, steps of
requests that carry no commitment, and moves between labels that map alike.

### AgentControlProofs

What undo asks is decided by a loop over the audit rows. `IsScan(f, rows, n)` says that `f` is
a run of that loop, `f[i]` the map after `i` rows; a run exists for any rows (`ScanExists`, by
the recursion of `DataInduction`), is the only one (`ScanUnique`), and is what the recursive
function in `Scan` is (`ScanOfTimeline`). So a row that is appended makes one step of the loop
(`ScanAppend`), and what it finds for an agent is the agent's last change among the rows read, or
nothing (`ScanIsLast`). `OnRecord` says of each request what it still knows of the rows, which are
only appended to: an undo's row is on record and was the last change of its agent among the rows of
its read. So every newer one is later than the read or outside the window, and
`NewerIntentIsKept` follows for any interleaving.

The contract speaks of agents whose requests do not overlap. `OverlapsAreNoted` and
`OverlappedAreBusy` say that `overlapped` holds the requests that met another, and only those under
way; while a request has met none and the rows fit the window, `UndoIsDue`, that the change it takes
back is still the one the loop finds, and `TurnIsDue`, that the switch is still as it read it.
A step of one agent's request leaves the other agent as it is (`StaysElsewhere`), and one
that ends an overlap leaves no turn of its agent half-way (`NonePending`), which is what the
contract asks where its promise is made anew.

### WebhookPipelineProofs

`Inv` is, beyond the types: a row that is queued exists (`Queued`); per row, what
its checkpoints, success entry and status say of the CRM is true (`RowOK`); per
worker, what its label has established (`Earned`); and, while no two workers have
had one job, who owns a job is the only one at it (`Alone`), without which the
links and statuses of two workers mix. `Counted` bounds the rows of an event
together with the requests that are about to write one by its marks, which needs a
lemma on cardinalities for each step of a delivery.

`DuplicatesNeedACut` bounds the notes and opportunities of a row by its interruptions.
`Paid` keeps accounts: before the checkpoint, the writes so far and those that workers who lost
the job may still do (`Stale`) are covered by cuts, restarts and overlaps, but for one the owner has
just done and not recorded; from the checkpoint on only those who had looked before it
(`Calling`) may add one. An overlap pays when it makes a worker stale, a cut or restart when it
takes the owner from its unrecorded write.

### ProspectDiscoveryProofs

`Typed`, `Sound` (what a candidate's status says of its approval, company and
checkpoint) and `Alone`: while no two requests on rival rows have overlapped, what
a request read of its candidate is still so when it writes. That is where the
code depends on requests coming one at a time, and the theorems say so.
`DecisionsStand` and `KnownCompanyStays` are action properties from the same invariant.

`SecondsAreOverlaps` counts as well. `Settled` says of each request on a row that its rivals
under way (`Rivaling`) are no more than the overlaps counted, and of one whose lookup found
nothing that the companies it would repeat (`Matching`) and the rivals that may still create
one (`Feeding`) together are no more, either. A creation moves a rival from the second set to the
first; what begins later pays for itself. The lookup finds nothing only if nothing matches,
because a company bears the name of its prospect (`NamedAfter`) and a name is at least a possible
match. `QuietSteps` shows that only four kinds of step count at all.

### CompanyBrainProofs

`Typed`; `Told`, that payload and marks agree with what was asked and that each
analysis about to write holds a text and marks that do, too, as long as no overlap
is counted; and `Coming`, that an analyzing brain has a row that is not settled.
Two lemmas carry it: `MergeEffect`, what a merge leaves of a field under its marks,
and `EditEffect`, that an edit's text and marks grant what it wants. They hold for any
fields, lists and marks.

### ResearchProofs

`Typed`, with the queue's counters (`Counted`); per worker, `Fits`: past a check of
`executeResearch` it has seen the permission that the check asks for, what it has left
to do is proven, and what it has seen to agrees with the rows, and `Held`: a worker
at a job owns it; per run, `Rests`: its package was made of views that agree with the
rows. Findings are only added (`Grown`), so whatever the other execution does, what one
has noted stays true. `Permission` adds that only `Persist` and `Complete` write.
`PackagesGrounded` needs that `Sorted` rearranges its views: `SortedRearranges`
shows by counting the views before each that no two share a place and none is left out.
The views a package lists are those of them that pass a test: `Filtered`, the loop of
`filter` as a recursive function, is shown to keep all and only these, whatever the
test. `Typing` adds the rows of the environment (`World`).

### WhyNowProofs

`Inv`: who holds a job and how often (`Held`, `Counted`), and `Sees`: what an execution has to
see is persisted and, once it is about to write its snapshot, among the signals it has
read. Signals are only added, and a snapshot is never changed once it is written.

`Scored` adds that every snapshot is the assessment of its signals at its day. `EvidenceRules`
is then about arithmetic: a later day on the same signals raises no timing, confidence or
overall score, and negative signals added on one day no intent, timing or overall score,
and no confidence where there were signals before (`WorseIsNotAbove`; the formula for no
signals is not the limit of the one for some, and without the condition the lemma is false). Each sum is that of any function from the
signals to numbers (`IntentIsSum`, `TimingIsSum`, `ConfidenceIsSum`), so `DataInduction` says how it
grows; decays do not rise with age (`Decays`, `ConfidenceAges`), an average does not rise by a
smaller term (`Averages`), and rounding and the caps keep the order.

### DataInduction

The library states induction with a predicate as a parameter, which no installed prover can
instantiate. Here it is stated of a set, the numbers or subsets of which something
holds (`SetInduction`, `SubsetInduction`), from the well-foundedness of the
natural numbers. From it follow that a recursion has a run of any length (`Recursion`), that a sum
over a finite set exists and does not depend on the order of its terms (`AddsExists`,
`AddsIsSum`), and how sums compare (`SumAtMost`, `SumAgrees`, `SumGrows`, `SumPositive`).

### Only model-checked

Liveness under fairness and `ENABLED` are out of the prover's reach:
`ReplyStopsSequence`, `AttemptSettles`, `QueuedRunCompletes`, `AnalyzingEnds`,
`QueuedRunEnds`, `ScoringLeavesSnapshot`. Everything else the passing runs check is proved as well.

## 6. What is not modelled

* Texts, hashes, signatures, encryption, logging, serialisation and the read
  models: conversions and reads that no property depends on.
* In `AiSdr`: the sequence's own `crmSyncStatus`, which nothing reads; the
  best-effort CRM note of a reply; audit rows, except that an entry is a step
  where its failure leads elsewhere than its neighbours'; the exceptions of
  `assertSendAllowed` on mismatching hashes, which cannot occur while contents
  are immutable; the link and its checkpoint are one step.
* In `AgentControl`: undo requests for rows that are not control actions, which are
  refused without effect; clocks: the rows are in the order in which they are written,
  while the query orders them by `createdAt`, which two servers or two rows of
  one millisecond (ordered by id) may set otherwise.
* In `WebhookPipeline`: other tenants, and notices whose fallback ids coincide (a
  hazard without a property: what Twenty sends is not part of the repository);
  `STAGING_DETERMINISTIC_ENRICHMENT`; the columns `jobId`, `error`, `attempts`.
* In `ProspectDiscovery`: `existingTwentyCompanyId`, `lastError`, fit and buyer roles,
  which no step reads; the limit of 20 hits of a CRM search; more than one run (runs
  share nothing but the CRM and the rows, and a retry's rows stand for another
  run's). A rejection that overlaps an approval or a creation is lost, as in
  `AiSdrReject`; `DecisionStands` therefore excludes overlaps.
* In `CompanyBrain`: what keeps BullMQ from taking a job at all (the `jobId` of
  `company-brain.service.ts:228` has a colon in it, as has `why-now.service.ts:142`; whether
  the library refuses it is not part of the repository).
* In `CompanyBrain`, `Research` and `WhyNow`: a stalled worker that lives on while its
  job is given to another. In `Research` and `WhyNow` two executions of different runs
  or requests meet in the same way.
* In `Research`: audit rows, but for the one before the try and those whose failure
  leads to the catch; people's names and texts (a text is the key of its finding); what
  is copied from the brain and why-now.
* In `WhyNow`: reasons and wording, but for which sentences an explanation has; a
  rule whose field is missing compares with the empty text, as in the code, but patterns
  and units in numbers are left to `NumberOf`; a fixture of another day has another
  dedupe key.
* The arithmetic of `scoring.engine.ts` (its outcome is an arbitrary choice in
  `WebhookPipeline`) and the enrichment providers.
* The buyer-role mapper, the action feed, the overview and lists: reads without effect.
* Tenants, connections, the CRM client, health, crypto, guards, deployment: configuration,
  wiring and I/O, with no state that two actors race for.
