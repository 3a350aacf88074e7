---------------------------- MODULE CompanyBrain -----------------------------
(***************************************************************************)
(* One company brain: its sources, its analyses by workers or within the     *)
(* request, and the human edits of its payload.  Every edit and analysis     *)
(* reads the whole row, computes, and writes its columns back; each read and *)
(* each write is a step of its own.  A row's audit entries are left out,     *)
(* except the one whose failure turns a finished analysis into a failed one. *)
(***************************************************************************)
EXTENDS PayloadMerge, Integers, Sequences, FiniteSets

CONSTANTS
    Admins,       \* concurrent HTTP requests
    Asks,         \* bound: [Admins -> the operations it asks for]
    Workers,      \* executions of runAnalysis
    NoWorker,     \* the owner of a job nobody holds
    Contents,     \* source texts, as their contentHash tells them apart
    Finds,        \* [Contents -> the items the analyzer generates from a text]
    Edits,        \* edits a client may make: [op, item, sections, retained]
    MaxEdits,     \* bound: edits
    MaxAnalyses,  \* bound: analysis jobs
    MaxAttempts,  \* attempts of the queue's jobs: 3
    MaxStalled,   \* BullMQ's maxStalledCount: 1
    MaxMishaps    \* bound: mishaps of all kinds together

ASSUME BrainAssumption ==
    /\ NoWorker \notin Workers
    /\ Asks \in [Admins -> SUBSET {"create", "source", "analysis", "edit"}]
    /\ Finds \in [Contents -> SUBSET Items]
    /\ \A e \in Edits :
          /\ e.op \in {"upsert", "remove", "patch"}
          /\ e.op \in {"upsert", "remove"} => e.item \in Items
          /\ e.op = "patch" => /\ e.sections \subseteq Scalars
                               /\ DOMAIN e.retained \subseteq Lists
                               /\ \A l \in DOMAIN e.retained :
                                     e.retained[l] \subseteq {i \in Items : ListOf[i] = l}
    /\ MaxAttempts \in Nat \ {0} /\ {MaxEdits, MaxAnalyses, MaxStalled, MaxMishaps} \subseteq Nat

VARIABLES
    brain,    \* CompanyBrain: status, text (payload), over (userOverrides)
    sources,  \* contentHash of its CompanyBrainSource rows, unique by index
    jobs,     \* CompanyBrainAnalysisJob rows with their BullMQ jobs
    req,      \* [Admins -> next statement and locals of the request]
    work,     \* [Workers -> next statement and locals of runAnalysis]
    asked,    \* history: what the latest edit of each field wanted of it
    analysed, \* history: the sources of the latest analysis written
    edits,    \* number of edits begun
    mishaps   \* faults, restarts; cuts (of a request that is to start an analysis, or of
              \* an analysis run within one); edits (written from overrides another edit has
              \* changed since); regens (written from a text an analysis has changed since,
              \* or while an analysis holds a text it is to merge)

vars == <<brain, sources, jobs, req, work, asked, analysed, edits, mishaps>>

Wishes == {"nothing", "keep", "drop"}
Rows == [status : {"queued", "processing", "completed", "failed"},
         state : {"none", "waiting", "active", "completed", "failed"},
         made : 0 .. MaxAttempts, stalled : 0 .. MaxStalled + 1, owner : Workers \union {NoWorker}]
Brains == [status : {"none", "draft", "analyzing", "ready", "failed"},
           text : Texts, over : Overrides]
NoEdit == [op |-> "none"]
Requests == [at : {"idle", "write", "sources", "job", "mark", "add"}, edit : Edits \union {NoEdit},
             text : Texts, over : Overrides, todo : SUBSET Contents, analyze : BOOLEAN, job : Nat]
Work == [at : {"idle", "start", "processing", "write", "row", "audit", "fail_brain", "fail_row",
               "completed", "attempt_failed"},
         job : Nat, sync : BOOLEAN, text : Texts, over : Overrides, sources : SUBSET Contents]

NoRequest == [at |-> "idle", edit |-> NoEdit, text |-> NoText, over |-> NoOverrides, todo |-> {},
              analyze |-> FALSE, job |-> 0]
NoWork == [at |-> "idle", job |-> 0, sync |-> FALSE, text |-> NoText, over |-> NoOverrides,
           sources |-> {}]

\* Room for kinds more mishaps, one of each.
Mishaps(kinds) ==
    /\ mishaps.faults + mishaps.restarts + mishaps.cuts + mishaps.edits + mishaps.regens
         + Cardinality(kinds) <= MaxMishaps
    /\ mishaps' = [k \in DOMAIN mishaps |-> IF k \in kinds THEN mishaps[k] + 1 ELSE mishaps[k]]

Answer(a, to) == req' = [req EXCEPT ![a] = to]
Goes(w, at) == work' = [work EXCEPT ![w].at = at]

------------------------------------------------------------------------------
(* create and addSource: rows are found by contentHash before they are       *)
(* created, and the unique index refuses the second of two creations.        *)
CreateBrain(a) ==
    /\ req[a].at = "idle"
    /\ brain.status = "none"
    /\ brain' = [brain EXCEPT !.status = "draft"]
    /\ \E todo \in SUBSET Contents, analyze \in BOOLEAN :
          Answer(a, [NoRequest EXCEPT !.at = IF todo # {} THEN "sources"
                                             ELSE IF analyze THEN "job" ELSE "idle",
                                      !.todo = todo, !.analyze = analyze])
    /\ UNCHANGED <<sources, jobs, work, asked, analysed, edits, mishaps>>

AskSource(a, c) ==
    /\ req[a].at = "idle"
    /\ brain.status # "none" /\ c \notin sources
    /\ Answer(a, [NoRequest EXCEPT !.at = "sources", !.todo = {c}])
    /\ UNCHANGED <<brain, sources, jobs, work, asked, analysed, edits, mishaps>>

AddSource(a) ==
    /\ req[a].at = "sources"
    /\ \E c \in req[a].todo :
          LET left == req[a].todo \ {c}
          IN  /\ sources' = sources \union {c}
              /\ Answer(a, [req[a] EXCEPT !.todo = left,
                                          !.at = IF left # {} THEN "sources"
                                                 ELSE IF req[a].analyze THEN "job" ELSE "idle"])
    /\ UNCHANGED <<brain, jobs, work, asked, analysed, edits, mishaps>>

------------------------------------------------------------------------------
(* enqueueOrRunAnalysis                                                     *)
AskAnalysis(a) ==
    /\ req[a].at = "idle"
    /\ brain.status # "none"
    /\ Len(jobs) < MaxAnalyses
    /\ Answer(a, [NoRequest EXCEPT !.at = "job"])
    /\ UNCHANGED <<brain, sources, jobs, work, asked, analysed, edits, mishaps>>

CreateJob(a) ==
    /\ req[a].at = "job"
    /\ Len(jobs) < MaxAnalyses
    /\ jobs' = Append(jobs, [status |-> "queued", state |-> "none", made |-> 0, stalled |-> 0,
                             owner |-> NoWorker])
    /\ Answer(a, [req[a] EXCEPT !.at = "mark", !.job = Len(jobs) + 1])
    /\ UNCHANGED <<brain, sources, work, asked, analysed, edits, mishaps>>

MarkAnalyzing(a) ==
    /\ req[a].at = "mark"
    /\ brain' = [brain EXCEPT !.status = "analyzing"]
    /\ Answer(a, [req[a] EXCEPT !.at = "add"])
    /\ UNCHANGED <<sources, jobs, work, asked, analysed, edits, mishaps>>

AddJob(a) ==
    /\ req[a].at = "add"
    /\ jobs' = [jobs EXCEPT ![req[a].job].state = "waiting"]
    /\ Answer(a, NoRequest)
    /\ UNCHANGED <<brain, sources, work, asked, analysed, edits, mishaps>>

RunSync(a, w) ==
    /\ req[a].at = "add"
    /\ work[w].at = "idle"
    /\ work' = [work EXCEPT ![w] = [NoWork EXCEPT !.at = "start", !.job = req[a].job,
                                                  !.sync = TRUE]]
    /\ Answer(a, NoRequest)
    /\ UNCHANGED <<brain, sources, jobs, asked, analysed, edits, mishaps>>

------------------------------------------------------------------------------
(* BullMQ: a waiting job is taken; a job whose worker died is taken again.   *)
Take(w, j) ==
    /\ work[w].at = "idle"
    /\ jobs[j].state = "waiting"
    /\ jobs' = [jobs EXCEPT ![j].state = "active", ![j].owner = w]
    /\ work' = [work EXCEPT ![w] = [NoWork EXCEPT !.at = "start", !.job = j]]
    /\ UNCHANGED <<brain, sources, req, asked, analysed, edits, mishaps>>

Holds(w, j) == work[w].at # "idle" /\ work[w].job = j /\ ~work[w].sync

Reclaim(j) ==
    /\ jobs[j].state = "active" /\ ~Holds(jobs[j].owner, j)
    /\ jobs' = [jobs EXCEPT ![j].state = IF jobs[j].stalled < MaxStalled
                                         THEN "waiting" ELSE "failed",
                            ![j].stalled = @ + 1, ![j].owner = NoWorker]
    /\ UNCHANGED <<brain, sources, req, work, asked, analysed, edits, mishaps>>

Settle(w, at, made, state) ==
    /\ work[w].at = at
    /\ jobs' = IF work[w].sync THEN jobs
               ELSE [jobs EXCEPT ![work[w].job].state = state, ![work[w].job].made = made,
                                 ![work[w].job].owner = NoWorker]
    /\ work' = [work EXCEPT ![w] = NoWork]
    /\ UNCHANGED <<brain, sources, req, asked, analysed, edits, mishaps>>

JobCompleted(w) == Settle(w, "completed", jobs[work[w].job].made, "completed")
GivesUp(w) == Settle(w, "attempt_failed", jobs[work[w].job].made, "failed")  \* mutant
AttemptFailed(w) ==
    LET made == jobs[work[w].job].made + 1
    IN  Settle(w, "attempt_failed", made, IF made < MaxAttempts THEN "waiting" ELSE "failed")

WorkerDies(w) ==
    /\ work[w].at # "idle"
    /\ Mishaps({IF work[w].sync THEN "cuts" ELSE "restarts"})
    /\ work' = [work EXCEPT ![w] = NoWork]
    /\ UNCHANGED <<brain, sources, jobs, req, asked, analysed, edits>>

------------------------------------------------------------------------------
(* runAnalysis                                                              *)
ReadBrain(w) ==
    /\ work[w].at = "start"
    /\ work' = [work EXCEPT ![w].at = "processing", ![w].text = brain.text,
                            ![w].over = brain.over, ![w].sources = sources]
    /\ UNCHANGED <<brain, sources, jobs, req, asked, analysed, edits, mishaps>>

SetRow(w, at, status, to) ==
    /\ work[w].at = at
    /\ jobs' = [jobs EXCEPT ![work[w].job].status = status]
    /\ Goes(w, to)
    /\ UNCHANGED <<brain, sources, req, asked, analysed, edits, mishaps>>

MarkProcessing(w) == SetRow(w, "processing", "processing", "write")

\* The analyzer's answer, from the sources that were read.
Generated(found) ==
    [f \in Fields |->
        IF f \in Scalars \/ \E c \in found : f \in Finds[c] THEN "ai" ELSE "none"]

\* status, payload and generatedPayload; the overrides are left as they are by now.
Merged(w) == Merge(work[w].text, Generated(work[w].sources), work[w].over)
WriteOverridesToo(w) ==  \* mutant: the overrides as they were read
    [status |-> "ready", text |-> Merged(w), over |-> work[w].over]
WriteMerged(w) == [brain EXCEPT !.status = "ready", !.text = Merged(w)]

WriteBrain(w) ==
    /\ work[w].at = "write"
    /\ brain' = WriteMerged(w)
    /\ analysed' = work[w].sources
    /\ work' = [work EXCEPT ![w] = [NoWork EXCEPT !.at = "row", !.job = work[w].job,
                                                  !.sync = work[w].sync]]
    /\ UNCHANGED <<sources, jobs, req, asked, edits, mishaps>>

CompleteRow(w) == SetRow(w, "row", "completed", "audit")

Audit(w) ==
    /\ work[w].at = "audit"
    /\ Goes(w, "completed")
    /\ UNCHANGED <<brain, sources, jobs, req, asked, analysed, edits, mishaps>>

\* A statement throws without effect: within the try to its catch, elsewhere to the caller.
AnalysisThrows(w) ==
    /\ work[w].at \notin {"idle", "completed", "attempt_failed"}
    /\ Mishaps({IF work[w].sync THEN "cuts" ELSE "faults"})
    /\ Goes(w, IF work[w].at \in {"write", "row", "audit"} THEN "fail_brain" ELSE "attempt_failed")
    /\ UNCHANGED <<brain, sources, jobs, req, asked, analysed, edits>>

LeaveStatus(w) == brain  \* mutant: only the job row is marked
FailedBrain(w) == [brain EXCEPT !.status = "failed"]
FailBrain(w) ==
    /\ work[w].at = "fail_brain"
    /\ brain' = FailedBrain(w)
    /\ Goes(w, "fail_row")
    /\ UNCHANGED <<sources, jobs, req, asked, analysed, edits, mishaps>>

ErrorRow(w) == SetRow(w, "fail_row", "error", "attempt_failed")  \* mutant: another status
FailRow(w) == SetRow(w, "fail_row", "failed", "attempt_failed")

------------------------------------------------------------------------------
(* patchBrain, patchMessaging, upsertPersona, upsertQualificationRule and    *)
(* removePersona: read, compute, write payload and overrides.                *)
Apply(e, text, over) ==
    CASE e.op = "upsert" -> Upserted(text, over, e.item)
      [] e.op = "remove" -> Removed(text, over, e.item)
      [] e.op = "patch" -> Patched(text, over, e.sections, e.retained)

\* What the client wants of each field from now on.
Wants(e, text, f) ==
    CASE e.op = "upsert" /\ f = e.item -> "keep"
      [] e.op = "remove" /\ f = e.item -> "drop"
      [] e.op = "patch" /\ f \in e.sections -> "keep"
      [] e.op = "patch" /\ f \in Items /\ ListOf[f] \in DOMAIN e.retained ->
            IF f \in e.retained[ListOf[f]] THEN "keep"
            ELSE IF text[f] # "none" THEN "drop" ELSE asked[f]
      [] OTHER -> asked[f]

\* An item that is not there is not removed: 404.
ReadForEdit(a, e) ==
    /\ req[a].at = "idle"
    /\ brain.status # "none"
    /\ edits < MaxEdits
    /\ e.op = "remove" => brain.text[e.item] # "none"
    /\ Answer(a, [NoRequest EXCEPT !.at = "write", !.edit = e, !.text = brain.text,
                                   !.over = brain.over])
    /\ edits' = edits + 1
    /\ UNCHANGED <<brain, sources, jobs, work, asked, analysed, mishaps>>

\* The row was written since the edit read it, or is read by an analysis that will write.
Overtaken(a) == {k \in {"edits", "regens"} :
    \/ k = "edits" /\ req[a].over # brain.over
    \/ k = "regens" /\ req[a].over = brain.over /\ req[a].text # brain.text
    \/ k = "regens" /\ \E w \in Workers : work[w].at \in {"processing", "write"}}

WriteEdit(a) ==
    /\ req[a].at = "write"
    /\ LET to == Apply(req[a].edit, req[a].text, req[a].over)
       IN  brain' = [brain EXCEPT !.text = to.text, !.over = to.over]
    /\ asked' = [f \in Fields |-> Wants(req[a].edit, req[a].text, f)]
    /\ Mishaps(Overtaken(a))
    /\ Answer(a, NoRequest)
    /\ UNCHANGED <<sources, jobs, work, analysed, edits>>

\* A request ends before its next statement: a fault, a refused URL, a source that another
\* request has just created (the unique index refuses the second), or a restart.
RequestCut(a) ==
    /\ req[a].at # "idle"
    /\ Mishaps({IF req[a].at \in {"mark", "add"} THEN "cuts" ELSE "faults"})
    /\ Answer(a, NoRequest)
    /\ UNCHANGED <<brain, sources, jobs, work, asked, analysed, edits>>

------------------------------------------------------------------------------
Init ==
    /\ brain = [status |-> "none", text |-> NoText, over |-> NoOverrides]
    /\ sources = {}
    /\ jobs = <<>>
    /\ req = [a \in Admins |-> NoRequest]
    /\ work = [w \in Workers |-> NoWork]
    /\ asked = [f \in Fields |-> "nothing"]
    /\ analysed = {}
    /\ edits = 0
    /\ mishaps = [faults |-> 0, restarts |-> 0, cuts |-> 0, edits |-> 0, regens |-> 0]

Analyze(w) ==
    \/ ReadBrain(w) \/ MarkProcessing(w) \/ WriteBrain(w) \/ CompleteRow(w) \/ Audit(w)
    \/ AnalysisThrows(w) \/ FailBrain(w) \/ FailRow(w)
    \/ JobCompleted(w) \/ AttemptFailed(w)

Serve(a) ==
    \/ "create" \in Asks[a] /\ CreateBrain(a)
    \/ "source" \in Asks[a] /\ \E c \in Contents : AskSource(a, c)
    \/ "analysis" \in Asks[a] /\ AskAnalysis(a)
    \/ "edit" \in Asks[a] /\ \E e \in Edits : ReadForEdit(a, e)

GoOn(a) ==
    \/ AddSource(a) \/ CreateJob(a) \/ MarkAnalyzing(a)
    \/ AddJob(a) \/ \E w \in Workers : RunSync(a, w)
    \/ WriteEdit(a)

Next ==
    \/ \E a \in Admins : Serve(a) \/ GoOn(a) \/ RequestCut(a)
    \/ \E w \in Workers : Analyze(w) \/ WorkerDies(w)
    \/ \E j \in DOMAIN jobs : Reclaim(j) \/ \E w \in Workers : Take(w, j)

\* A request and a worker go on with what they have begun, and BullMQ hands out the jobs
\* that wait or whose worker is gone.
Fairness ==
    /\ \A a \in Admins : WF_vars(GoOn(a))
    /\ \A w \in Workers : WF_vars(Analyze(w)) /\ WF_vars(\E j \in DOMAIN jobs : Take(w, j))
    /\ WF_vars(\E j \in DOMAIN jobs : Reclaim(j))

Spec == Init /\ [][Next]_vars /\ Fairness

------------------------------------------------------------------------------
\* Types.
TypeOK ==
    /\ brain \in Brains
    /\ sources \subseteq Contents /\ analysed \subseteq Contents
    /\ jobs \in Seq(Rows)
    /\ req \in [Admins -> Requests]
    /\ work \in [Workers -> Work]
    /\ asked \in [Fields -> Wishes]
    /\ edits \in Nat
    /\ mishaps \in [faults : Nat, restarts : Nat, cuts : Nat, edits : Nat, regens : Nat]

Heard(f) ==
    /\ asked[f] = "keep" => brain.text[f] = "human"
    /\ asked[f] = "drop" => brain.text[f] = "none"

\* "Regeneration never silently overwrites protected human edits or resurrects suppressed
\* deletions": through any number of edits, analyses, retries and failures the payload
\* shows what people last said of each field, as long as no read-compute-write of the row
\* meets another one's.
HumanWordStands == mishaps.edits + mishaps.regens = 0 => \A f \in Fields : Heard(f)

Marked(f) ==
    /\ asked[f] = "keep" => \/ f \in brain.over.sections
                            \/ f \in KeepsCurrent(brain.over)
    /\ asked[f] = "drop" => Whole(f, brain.over) \/ f \in brain.over.suppressed \ brain.over.items

\* What protects a human edit and what keeps a deletion deleted is never lost to an
\* analysis, not even to one that meets the edit: only two edits can lose it.
ProtectionSurvives == mishaps.edits = 0 => \A f \in Fields : Marked(f)

\* What no edit has touched in a ready brain is what the latest analysis found, also after
\* edits of other fields, which write the whole payload back.
ReadyShowsSources ==
    mishaps.edits + mishaps.regens = 0 /\ brain.status = "ready" =>
        \A f \in Fields : asked[f] = "nothing" /\ (f \in Items => ~Whole(f, brain.over)) =>
            brain.text[f] = Generated(analysed)[f]

\* A brain is shown as analyzing only while an analysis is still to come: one whose row is
\* neither completed nor failed.
AnalyzingHasJob ==
    brain.status = "analyzing" =>
        \E j \in DOMAIN jobs : jobs[j].status \in {"queued", "processing"}

\* And it comes, unless the request that asked for it was cut off, faults use up the
\* attempts or the job loses its worker more often than BullMQ allows.
Exhausted ==
    \/ mishaps.cuts > 0
    \/ mishaps.faults >= MaxAttempts
    \/ mishaps.restarts > MaxStalled
AnalyzingEnds == brain.status = "analyzing" ~> brain.status # "analyzing" \/ Exhausted

\* docs/COMPANY_BRAIN_V1.md: "Regeneration never silently overwrites protected human edits or
\* resurrects suppressed deletions."
RegenerationKeepsEdits ==
    [][\A w \in Workers : WriteBrain(w) =>
          \A f \in Fields : Heard(f) => (Heard(f))']_vars
==============================================================================
