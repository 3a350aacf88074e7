-------------------------------- MODULE WhyNow --------------------------------
(***************************************************************************)
(* Why-now scores of one candidate: signals that administrators ingest and   *)
(* that scoring collects, scoring within a request or by workers, and the    *)
(* append-only snapshots.  The readiness of the company brain and the day    *)
(* are the environment's.  Every await that reads or writes what another     *)
(* step may change is a step of its own.                                     *)
(***************************************************************************)
EXTENDS WhyNowScore, TLC

CONSTANTS
    Admins,       \* concurrent HTTP requests
    Workers,      \* executions of jobs
    NoWorker,     \* the owner of a job nobody holds
    Brain,        \* the profile, rules and buying triggers of the company brain
    Candidates,   \* the candidates one of which is scored
    Batches,      \* sequences of kinds that a request ingests
    Fixtures,     \* sequences of kinds that the deterministic provider returns
    Days,         \* bound: days on which something happens, from day 0
    MaxJobs,      \* bound: queued scorings
    MaxRequests,  \* bound: ingestions and scorings within a request
    MaxAttempts,  \* attempts of the queue's jobs: 3
    MaxStalled,   \* BullMQ's maxStalledCount: 1
    MaxTurns,     \* bound: changes of the environment
    MaxMishaps    \* bound: mishaps of all kinds together

ASSUME WhyNowAssumption ==
    /\ NoWorker \notin Workers /\ Admins \intersect Workers = {}
    /\ IsFiniteSet(Brain.disqualifiers) /\ IsFiniteSet(DOMAIN Brain.rules)
    /\ Candidates \subseteq Candidate
    /\ Batches \union Fixtures \subseteq Seq(Kinds)
    /\ 0 \in Days /\ Days \subseteq Nat
    /\ MaxAttempts \in Nat \ {0}
    /\ {MaxJobs, MaxRequests, MaxStalled, MaxTurns, MaxMishaps} \subseteq Nat

VARIABLES
    candidate,  \* the ProspectCandidate row
    signals,    \* ProspectSignal: the persisted dedupe keys
    snapshots,  \* ProspectScoreSnapshot, in the order of their creation; known is history:
                \* the signals its execution had to see
    jobs,       \* BullMQ's jobs; refused is history: an attempt found no ready brain
    work,       \* [Admins \union Workers -> next statement and locals]
    requests,   \* number of requests
    ready,      \* the company brain is ready and has a payload
    day,        \* today
    turns,      \* number of changes of the environment
    mishaps     \* faults (a statement throws), restarts (a worker dies)

vars == <<candidate, signals, snapshots, jobs, work, requests, ready, day, turns, mishaps>>
world == <<candidate, ready, day, turns>>

Procs == Admins \union Workers
NoWork == [at |-> "idle", job |-> 0, scores |-> FALSE, fixture |-> <<>>, todo |-> <<>>,
           known |-> {}, signals |-> {}]

Mishap(kind) ==
    /\ mishaps.faults + mishaps.restarts < MaxMishaps
    /\ mishaps' = [mishaps EXCEPT ![kind] = @ + 1]

Goes(p, at) == work' = [work EXCEPT ![p].at = at]

\* The keys of what is collected or sent on a day, and of all that may ever be.
DatedOn(k, d) == [kind |-> k, occurred |-> d - About[k].age]
Dated(kinds) == [i \in DOMAIN kinds |-> DatedOn(kinds[i], day)]
Signals == {DatedOn(k, d) : k \in Kinds, d \in Days}

\* The assessments as a table, whose rows TLC computes once.
Assessments ==
    {[of |-> <<c, s, d>>, scores |-> Assessment(Brain, c, s, d)] :
        c \in Candidates, s \in SUBSET Signals, d \in Days}
Scores(c, s, d) == (CHOOSE row \in Assessments : row.of = <<c, s, d>>).scores

------------------------------------------------------------------------------
(* Requests: signals to ingest, a scoring now and a scoring by the queue.    *)
Request(a, to) ==
    /\ work[a].at = "idle"
    /\ requests < MaxRequests
    /\ requests' = requests + 1
    /\ work' = [work EXCEPT ![a] = to]
    /\ UNCHANGED <<signals, snapshots, jobs, world, mishaps>>

Ingest(a) == \E batch \in Batches :
    Request(a, [NoWork EXCEPT !.at = IF batch = <<>> THEN "done" ELSE "find",
                              !.todo = Dated(batch)])

ScoreNow(a) == \E fixture \in Fixtures :
    Request(a, [NoWork EXCEPT !.at = "brain", !.scores = TRUE, !.fixture = fixture,
                              !.known = signals])

ScoreLater ==
    /\ Len(jobs) < MaxJobs
    /\ \E fixture \in Fixtures :
          jobs' = Append(jobs, [fixture |-> fixture, state |-> "waiting", made |-> 0,
                                stalled |-> 0, owner |-> NoWorker, refused |-> FALSE])
    /\ UNCHANGED <<signals, snapshots, work, requests, world, mishaps>>

------------------------------------------------------------------------------
(* BullMQ: a waiting job is taken; a job whose worker died is taken again.  *)
Take(w, j) ==
    /\ work[w].at = "idle" /\ jobs[j].state = "waiting"
    /\ jobs' = [jobs EXCEPT ![j].state = "active", ![j].owner = w]
    /\ work' = [work EXCEPT ![w] = [NoWork EXCEPT !.at = "brain", !.job = j, !.scores = TRUE,
                                                  !.fixture = jobs[j].fixture, !.known = signals]]
    /\ UNCHANGED <<signals, snapshots, requests, world, mishaps>>

Holds(w, j) == work[w].at # "idle" /\ work[w].job = j

Reclaim(j) ==
    /\ jobs[j].state = "active" /\ ~Holds(jobs[j].owner, j)
    /\ jobs' = [jobs EXCEPT ![j].state = IF jobs[j].stalled < MaxStalled THEN "waiting"
                                         ELSE "failed",
                            ![j].stalled = @ + 1, ![j].owner = NoWorker]
    /\ UNCHANGED <<signals, snapshots, work, requests, world, mishaps>>

Settle(p, job) ==
    /\ jobs' = IF work[p].job = 0 THEN jobs
               ELSE [jobs EXCEPT ![work[p].job] = [job EXCEPT !.owner = NoWorker]]
    /\ work' = [work EXCEPT ![p] = NoWork]
    /\ UNCHANGED <<signals, snapshots, requests, world, mishaps>>

JobOf(p) == jobs[work[p].job]

\* The audit entry is written; a request is answered, a job is completed.
Done(p) ==
    /\ work[p].at = "done"
    /\ Settle(p, [JobOf(p) EXCEPT !.state = "completed"])

AttemptFailed(p) ==
    /\ work[p].at = "failed"
    /\ Settle(p, [JobOf(p) EXCEPT !.made = @ + 1,
                                  !.state = IF JobOf(p).made + 1 < MaxAttempts THEN "waiting"
                                            ELSE "failed"])

WorkerDies(p) ==
    /\ work[p].at # "idle"
    /\ Mishap("restarts")
    /\ work' = [work EXCEPT ![p] = NoWork]
    /\ UNCHANGED <<signals, snapshots, jobs, requests, world>>

------------------------------------------------------------------------------
(* executeScore: the brain and the provider's signals of today.             *)
Start(p) ==
    /\ work[p].at = "brain"
    /\ ready
    /\ work' = [work EXCEPT ![p].at = IF work[p].fixture = <<>> THEN "read" ELSE "find",
                            ![p].todo = Dated(work[p].fixture)]
    /\ UNCHANGED <<signals, snapshots, jobs, requests, world, mishaps>>

BrainNotReady(p) ==
    /\ work[p].at = "brain"
    /\ ~ready
    /\ Goes(p, "failed")
    /\ jobs' = IF work[p].job = 0 THEN jobs ELSE [jobs EXCEPT ![work[p].job].refused = TRUE]
    /\ UNCHANGED <<signals, snapshots, requests, world, mishaps>>

------------------------------------------------------------------------------
(* ingestSignals, by a request or within executeScore.                      *)
First(p) == Head(work[p].todo)

\* Its audit entry is written, too.
NextSignal(p) ==
    work' = [work EXCEPT ![p].todo = Tail(@),
                         ![p].known = @ \union {First(p)},
                         ![p].at = IF Len(work[p].todo) > 1 THEN "find"
                                   ELSE IF work[p].scores THEN "read" ELSE "done"]

Find(p) ==
    /\ work[p].at = "find"
    /\ IF First(p) \in signals THEN NextSignal(p) ELSE Goes(p, "persist")
    /\ UNCHANGED <<signals, snapshots, jobs, requests, world, mishaps>>

\* The unique index refuses a key that another ingestion has created since.
Persist(p) ==
    /\ work[p].at = "persist"
    /\ IF First(p) \in signals THEN UNCHANGED signals /\ Goes(p, "failed")
       ELSE signals' = signals \union {First(p)} /\ NextSignal(p)
    /\ UNCHANGED <<snapshots, jobs, requests, world, mishaps>>

------------------------------------------------------------------------------
(* executeScore: findMany, and the assessment with the snapshot's creation. *)
ReadNewest(p) ==  \* mutant: only the newest signal
    /\ work[p].at = "read"
    /\ work' = [work EXCEPT ![p].at = "create", ![p].signals = Latest(signals)]
    /\ UNCHANGED <<signals, snapshots, jobs, requests, world, mishaps>>
Read(p) ==
    /\ work[p].at = "read"
    /\ work' = [work EXCEPT ![p].at = "create", ![p].signals = signals]
    /\ UNCHANGED <<signals, snapshots, jobs, requests, world, mishaps>>

Snapshot(p) ==
    [job |-> work[p].job, signals |-> work[p].signals, known |-> work[p].known, day |-> day,
     scores |-> Scores(candidate, work[p].signals, day)]

KeepsOne(p) ==  \* mutant: an upsert per candidate
    /\ work[p].at = "create"
    /\ snapshots' = <<Snapshot(p)>>
    /\ Goes(p, "done")
    /\ UNCHANGED <<signals, jobs, requests, world, mishaps>>
Create(p) ==
    /\ work[p].at = "create"
    /\ snapshots' = Append(snapshots, Snapshot(p))
    /\ Goes(p, "done")
    /\ UNCHANGED <<signals, jobs, requests, world, mishaps>>

\* A statement throws without effect; the catch only writes an audit entry.
Throws(p) ==
    /\ work[p].at \notin {"idle", "failed"}
    /\ Mishap("faults")
    /\ Goes(p, "failed")
    /\ UNCHANGED <<signals, snapshots, jobs, requests, world>>

------------------------------------------------------------------------------
(* The environment.                                                         *)
Turn(b, d) ==
    /\ turns < MaxTurns
    /\ turns' = turns + 1
    /\ ready' = b /\ day' = d
    /\ UNCHANGED <<candidate, signals, snapshots, jobs, work, requests, mishaps>>

BrainTurns == Turn(~ready, day)
Later == \E d \in Days : d > day /\ Turn(ready, d)

------------------------------------------------------------------------------
Init ==
    /\ candidate \in Candidates
    /\ signals = {}
    /\ snapshots = <<>>
    /\ jobs = <<>>
    /\ work = [p \in Procs |-> NoWork]
    /\ requests = 0
    /\ ready = TRUE
    /\ day = 0
    /\ turns = 0
    /\ mishaps = [faults |-> 0, restarts |-> 0]

Execute(p) ==
    \/ Start(p) \/ BrainNotReady(p) \/ Find(p) \/ Persist(p) \/ Read(p) \/ Create(p)
    \/ Done(p) \/ AttemptFailed(p)

Next ==
    \/ \E a \in Admins : Ingest(a) \/ ScoreNow(a)
    \/ ScoreLater
    \/ \E p \in Procs : Execute(p) \/ Throws(p) \/ WorkerDies(p)
    \/ \E j \in DOMAIN jobs : Reclaim(j) \/ \E w \in Workers : Take(w, j)
    \/ BrainTurns \/ Later

\* A process goes on with what it has begun, and BullMQ hands out the jobs that wait or
\* whose worker is gone.
Fairness ==
    /\ \A a \in Admins : WF_vars(Execute(a))
    /\ \A w \in Workers : WF_vars(Execute(w) \/ \E j \in DOMAIN jobs : Take(w, j))
    /\ WF_vars(\E j \in DOMAIN jobs : Reclaim(j))

Spec == Init /\ [][Next]_vars /\ Fairness

------------------------------------------------------------------------------
Score == 0 .. 100
Snapshots == [job : 0 .. MaxJobs, signals : SUBSET Signals, known : SUBSET Signals, day : Days,
              scores : [fit : Score, intent : Score, timing : Score, overall : Score,
                        confidence : Score,
                        opening : {"weak fit", "strong fit", "moderate fit", "limited fit"},
                        reason : {"no signal", "until fit improves", "timely now", "stale",
                                  "sparse", "mixed"},
                        cites : SUBSET Signals]]
Jobs == [fixture : Fixtures, state : {"waiting", "active", "completed", "failed"},
         made : 0 .. MaxAttempts, stalled : 0 .. MaxStalled + 1,
         owner : Workers \union {NoWorker}, refused : BOOLEAN]
Work == [at : {"idle", "brain", "find", "persist", "read", "create", "done", "failed"},
         job : 0 .. MaxJobs, scores : BOOLEAN, fixture : Fixtures \union {<<>>},
         todo : Seq(Signals), known : SUBSET Signals, signals : SUBSET Signals]

\* Types.
TypeOK ==
    /\ candidate \in Candidates
    /\ signals \subseteq Signals
    /\ snapshots \in Seq(Snapshots)
    /\ jobs \in Seq(Jobs)
    /\ work \in [Procs -> Work]
    /\ requests \in Nat
    /\ ready \in BOOLEAN /\ day \in Days
    /\ turns \in Nat
    /\ mishaps \in [faults : Nat, restarts : Nat]

\* "Intent: built only from typed ProspectSignal records": a snapshot rests on persisted
\* signals, and on all that were persisted when its execution began or that it collected
\* itself, also when others ingest them, collide with it or make it retry.
SnapshotCoversEvidence ==
    \A i \in DOMAIN snapshots :
        /\ snapshots[i].known \subseteq snapshots[i].signals
        /\ snapshots[i].signals \subseteq signals

\* "Negative / conflict signals reduce intent and confidence" and "timing uses signal
\* occurredAt age": of two snapshots, the one of the same positive evidence on a later day
\* has no higher timing, confidence and overall, and the one with more conflicting evidence
\* on the same day has no higher intent, timing and overall, and no higher confidence if
\* there was evidence before.  Conflicts that are the first evidence at all are excepted
\* from the last: without signals the confidence is a constant of its own, 40 or 30, and
\* one fresh conflict can raise it to 60 (ConflictLowersConfidence).
NotAbove(low, high, scores) == \A s \in scores : low.scores[s] <= high.scores[s]
OnlyConflictsAdded(x, y) ==
    /\ x.signals \subseteq y.signals /\ x.day = y.day
    /\ \A s \in y.signals \ x.signals : Negative(s)
PriorityFollowsEvidence ==
    \A i, j \in DOMAIN snapshots :
        LET x == snapshots[i]
            y == snapshots[j]
        IN  /\ (x.signals = y.signals /\ ~(\E s \in x.signals : Negative(s)) /\ x.day <= y.day)
                 => NotAbove(y, x, {"timing", "confidence", "overall"})
            /\ OnlyConflictsAdded(x, y) =>
                  /\ NotAbove(y, x, {"intent", "timing", "overall"})
                  /\ x.signals # {} => NotAbove(y, x, {"confidence"})

\* Violated: "Negative / conflict signals reduce intent and confidence", for the first
\* evidence, too.
ConflictLowersConfidence ==
    \A i, j \in DOMAIN snapshots :
        OnlyConflictsAdded(snapshots[i], snapshots[j])
            => NotAbove(snapshots[j], snapshots[i], {"confidence"})

\* Snapshots are "append-only", and a queued scoring leaves one: every job comes to leave a
\* snapshot that stays and is completed, also when it collides with another ingestion, unless
\* the brain was not ready for it, or faults and collisions, one for each key, use up its
\* attempts, or its worker dies more often than BullMQ allows.
Exhausted(j) ==
    \/ mishaps.faults + Cardinality({s \in signals :
                            \E i \in DOMAIN jobs[j].fixture : s.kind = jobs[j].fixture[i]})
         >= MaxAttempts
    \/ mishaps.restarts > MaxStalled
ScoringLeavesSnapshot ==
    <>[](\A j \in DOMAIN jobs :
            \/ jobs[j].state = "completed" /\ \E i \in DOMAIN snapshots : snapshots[i].job = j
            \/ jobs[j].refused \/ Exhausted(j))

\* Violated: "aligned signals ... may appear in the Why-Now sentence as matching a Company
\* Brain buying trigger" and "does not invent facts absent from evidence".  The explanation
\* cites the newest signal that is not negative, aligned or not.
CitedSignalIsAligned ==
    \A i \in DOMAIN snapshots :
        \A s \in snapshots[i].scores.cites : Aligned(s, Brain.buyingTriggers)
==============================================================================
