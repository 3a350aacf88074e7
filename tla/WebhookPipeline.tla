--------------------------- MODULE WebhookPipeline ---------------------------
(***************************************************************************)
(* From a change in the Twenty CRM to the automation's writes back to it:   *)
(* the webhook controller and its Redis marks, the BullMQ queue, and the    *)
(* enrich-and-score processor with its checkpoints.  All notices are about  *)
(* one person of one tenant.  A webhookLog row r is also the key of its job *)
(* and of its checkpoints.  An unsigned or stale request is refused without *)
(* effect and left out.  Every await is a step of its own.                  *)
(***************************************************************************)
EXTENDS Integers, FiniteSets

CONSTANTS
    Procs,         \* concurrent HTTP requests
    Workers,       \* queue workers, one per process
    NoWorker,      \* the owner of a job nobody holds
    Notices,       \* changes the CRM notifies
    NoNotice,      \* the notice of an idle request
    EventIds,      \* webhook nonces or their fallbacks
    EventId,       \* [Notices -> EventIds]
    MaxAttempts,   \* BULLMQ_ENRICH_ATTEMPTS: 5
    MaxStalled,    \* BullMQ's maxStalledCount: 1
    MaxDeliveries, \* bound: deliveries of a notice
    MaxLogs,       \* bound: webhookLog rows
    MaxMishaps     \* bound: faults, restarts, overlaps and expiries together

ASSUME PipelineAssumption ==
    /\ NoWorker \notin Workers /\ NoNotice \notin Notices
    /\ EventId \in [Notices -> EventIds]
    /\ MaxAttempts \in Nat \ {0} /\ MaxLogs \in Nat \ {0}
    /\ {MaxStalled, MaxDeliveries, MaxMishaps} \subseteq Nat

Logs == 1 .. MaxLogs

\* CRM_WRITE_ACTIONS of the processor, in the order it performs them.
Actions == <<"update_person", "create_note", "link_note_to_person", "create_opportunity">>
Required == {"update_person", "create_note", "link_note_to_person"}

VARIABLES
    marks,  \* Redis: event ids seen
    log,    \* webhookLog: [Logs -> notice and status]
    job,    \* BullMQ: [Logs -> state, attemptsMade, stalled, owner]
    trail,  \* per row: checkpoints, the note's externalId, score and audit rows
    crm,    \* per row: what its jobs wrote to the CRM
    enriched, \* the person has an EnrichedPerson row
    acked,  \* notices answered with 200
    sent,   \* [Notices -> deliveries so far]
    req,    \* [Procs -> next statement and locals of the request]
    work,   \* [Workers -> next statement and locals of the job]
    mishaps \* cuts between a CRM call and its checkpoint, other faults, restarts, overlaps
            \* (a job taken again while its worker still runs), expiries of a mark

vars == <<marks, log, job, trail, crm, enriched, acked, sent, req, work, mishaps>>
Tables == <<marks, log, job, trail, crm, enriched, acked, sent>>

LogRows == [notice : Notices \union {NoNotice},
            status : {"none", "queued", "processing", "success", "failed"}]
Jobs == [state : {"none", "waiting", "active", "completed", "failed"},
         attemptsMade : 0 .. MaxAttempts, stalled : 0 .. MaxStalled + 1,
         owner : Workers \union {NoWorker}]
Trails == [checkpoint : SUBSET {Actions[i] : i \in 1 .. 4}, noteId : Nat, scores : Nat,
           audited : BOOLEAN, opportunityCreated : BOOLEAN]
CrmRows == [updated : BOOLEAN, notes : Nat, linked : SUBSET Nat, opportunities : Nat]
Requests == [at : {"idle", "mark", "log", "add", "answer"}, notice : Notices \union {NoNotice},
             row : Nat]
InTry == {"enrich", "score", "check", "call", "record", "history", "audit", "success"}
Work == [at : {"idle", "start", "catch", "completed", "attempt_failed"} \union InTry,
         row : Nat, step : 1 .. 4, noteId : Nat, qualifies : BOOLEAN, opportunity : BOOLEAN]

Mishap(kind) ==
    /\ mishaps.cuts + mishaps.faults + mishaps.restarts + mishaps.overlaps + mishaps.expiries < MaxMishaps
    /\ mishaps' = [mishaps EXCEPT ![kind] = @ + 1]

NoRequest == [at |-> "idle", notice |-> NoNotice, row |-> 0]
NoWork == [at |-> "idle", row |-> 0, step |-> 1, noteId |-> 0, qualifies |-> FALSE,
           opportunity |-> FALSE]

------------------------------------------------------------------------------
(* The webhook controller: receive.                                         *)
Answer(p, to) ==
    /\ req' = [req EXCEPT ![p] = to]
    /\ UNCHANGED <<work, mishaps>>

Deliver(p, n) ==
    /\ req[p].at = "idle"
    /\ sent[n] < MaxDeliveries
    /\ sent' = [sent EXCEPT ![n] = @ + 1]
    /\ Answer(p, [NoRequest EXCEPT !.at = "mark", !.notice = n])
    /\ UNCHANGED <<marks, log, job, trail, crm, enriched, acked>>

MarkNothing(id) == marks  \* mutant: the event is not remembered
Mark(id) == marks \union {id}

\* SET NX: a marked event is answered as a duplicate.  The payload is looked at later:
\* the 400 of a person event without an id is a RequestThrows after the mark.
HasSeenOrMark(p) ==
    /\ req[p].at = "mark"
    /\ LET n == req[p].notice
       IN  IF EventId[n] \in marks
           THEN /\ acked' = acked \union {n}
                /\ Answer(p, NoRequest)
                /\ UNCHANGED marks
           ELSE /\ marks' = Mark(EventId[n])
                /\ Answer(p, [req[p] EXCEPT !.at = "log"])
                /\ UNCHANGED acked
    /\ UNCHANGED <<log, job, trail, crm, enriched, sent>>

\* Past MaxLogs the request is dropped.
CreateLog(p) ==
    /\ req[p].at = "log"
    /\ LET free == {r \in Logs : log[r].status = "none"}
       IN  IF free = {}
           THEN Answer(p, NoRequest) /\ UNCHANGED log
           ELSE LET r == CHOOSE r \in free : \A s \in free : r <= s
                IN  /\ log' = [log EXCEPT ![r] = [notice |-> req[p].notice, status |-> "queued"]]
                    /\ Answer(p, [req[p] EXCEPT !.at = "add", !.row = r])
    /\ UNCHANGED <<marks, job, trail, crm, enriched, acked, sent>>

AddJob(p) ==
    /\ req[p].at = "add"
    /\ job' = [job EXCEPT ![req[p].row].state = "waiting"]
    /\ Answer(p, [req[p] EXCEPT !.at = "answer"])
    /\ UNCHANGED <<marks, log, trail, crm, enriched, acked, sent>>

\* The job id is noted in the row, then the answer leaves.
AnswerWebhook(p) ==
    /\ req[p].at = "answer"
    /\ acked' = acked \union {req[p].notice}
    /\ Answer(p, NoRequest)
    /\ UNCHANGED <<marks, log, job, trail, crm, enriched, sent>>

------------------------------------------------------------------------------
(* BullMQ: a waiting job is taken; a job whose lock is lost is taken again, *)
(* because its process died or because its worker did not renew it in time. *)
Row(w) == work[w].row
Holds(w, r) == work[w].at # "idle" /\ Row(w) = r

Take(w, r) ==
    /\ work[w].at = "idle"
    /\ job[r].state = "waiting"
    /\ job' = [job EXCEPT ![r].state = "active", ![r].owner = w]
    /\ work' = [work EXCEPT ![w] = [NoWork EXCEPT !.at = "start", !.row = r]]
    /\ UNCHANGED <<marks, log, trail, crm, enriched, acked, sent, req, mishaps>>

Reclaim(r) ==
    /\ job[r].state = "active"
    /\ \/ /\ \A w \in Workers : ~Holds(w, r)
          /\ UNCHANGED mishaps
       \/ /\ Holds(job[r].owner, r)
          /\ Mishap("overlaps")
    /\ job' = [job EXCEPT ![r].state = IF job[r].stalled < MaxStalled THEN "waiting" ELSE "failed",
                          ![r].stalled = @ + 1,
                          ![r].owner = NoWorker]
    /\ UNCHANGED <<marks, log, trail, crm, enriched, acked, sent, req, work>>

\* The end of an attempt counts only for the worker that still owns the job.
Settle(w, at, settled) ==
    /\ work[w].at = at
    /\ job' = IF job[Row(w)].owner = w THEN [job EXCEPT ![Row(w)] = settled] ELSE job
    /\ work' = [work EXCEPT ![w] = NoWork]
    /\ UNCHANGED <<marks, log, trail, crm, enriched, acked, sent, req, mishaps>>

JobCompleted(w) ==
    Settle(w, "completed", [job[Row(w)] EXCEPT !.state = "completed", !.owner = NoWorker])

AttemptFailed(w) ==
    Settle(w, "attempt_failed",
           [job[Row(w)] EXCEPT
               !.state = IF @ = "active" /\ job[Row(w)].attemptsMade + 1 < MaxAttempts
                         THEN "waiting" ELSE "failed",
               !.attemptsMade = @ + 1,
               !.owner = NoWorker])

------------------------------------------------------------------------------
(* The processor.                                                           *)
Goes(w, at) == work' = [work EXCEPT ![w].at = at]

SetStatus(w, at, status, to) ==
    /\ work[w].at = at
    /\ log' = [log EXCEPT ![Row(w)].status = status]
    /\ Goes(w, to)
    /\ UNCHANGED <<marks, job, trail, crm, enriched, acked, sent, req, mishaps>>

\* Outside the try.
StartProcessing(w) == SetStatus(w, "start", "processing", "enrich")

\* getPerson, a read (with ALLOW_TWENTY_SNAPSHOT_FALLBACK a failed one goes on like
\* this too), then the providers' answer is stored, unless a recent one is.
EnrichPerson(w) ==
    /\ work[w].at = "enrich"
    /\ enriched' = TRUE
    /\ Goes(w, "score")
    /\ UNCHANGED <<marks, log, job, trail, crm, acked, sent, req, mishaps>>

\* Person, rules and time may have changed since an earlier attempt: any outcome of
\* score >= opportunityThreshold is possible in each.
Score(w) ==
    /\ work[w].at = "score"
    /\ \E qualifies \in BOOLEAN :
          work' = [work EXCEPT ![w].at = "check", ![w].qualifies = qualifies]
    /\ UNCHANGED <<Tables, req, mishaps>>

Action(w) == Actions[work[w].step]

\* Where the attempt goes after the CRM write of its step, done now or before.
AfterStep(local) ==
    IF local.step = 4 \/ (local.step = 3 /\ ~local.qualifies)
    THEN [local EXCEPT !.at = "history"]
    ELSE [local EXCEPT !.at = "check", !.step = @ + 1]

\* getCompleted: a recorded write is skipped, its result taken from the checkpoint.
NoteForgotten(w) == work[w].noteId  \* mutant: the recorded note is not read back
NoteKept(w) == trail[Row(w)].noteId
Skipped(w) ==
    [work[w] EXCEPT !.noteId = IF Action(w) = "create_note" THEN NoteKept(w) ELSE @,
                    !.opportunity = @ \/ Action(w) = "create_opportunity"]

CheckNothing(w) ==  \* mutant: every attempt writes everything
    /\ work[w].at = "check"
    /\ Goes(w, "call")
    /\ UNCHANGED <<Tables, req, mishaps>>
GetCompleted(w) ==
    /\ work[w].at = "check"
    /\ IF Action(w) \in trail[Row(w)].checkpoint
       THEN work' = [work EXCEPT ![w] = AfterStep(Skipped(w))]
       ELSE Goes(w, "call")
    /\ UNCHANGED <<Tables, req, mishaps>>

\* updatePerson, createNote, createNoteTarget, createOpportunity.  A call that takes
\* effect and loses its answer is this step followed by a Throw.
Written(w) ==
    LET c == crm[Row(w)]
    IN  CASE Action(w) = "update_person" -> [c EXCEPT !.updated = TRUE]
          [] Action(w) = "create_note" -> [c EXCEPT !.notes = @ + 1]
          [] Action(w) = "link_note_to_person" -> [c EXCEPT !.linked = @ \union {work[w].noteId}]
          [] Action(w) = "create_opportunity" -> [c EXCEPT !.opportunities = @ + 1]

CallTwenty(w) ==
    /\ work[w].at = "call"
    /\ crm' = [crm EXCEPT ![Row(w)] = Written(w)]
    /\ work' = [work EXCEPT ![w].at = "record",
                            ![w].noteId = IF Action(w) = "create_note" THEN crm'[Row(w)].notes ELSE @]
    /\ UNCHANGED <<marks, log, job, trail, enriched, acked, sent, req, mishaps>>

RecordSuccess(w) ==
    /\ work[w].at = "record"
    /\ trail' = [trail EXCEPT ![Row(w)].checkpoint = @ \union {Action(w)},
                              ![Row(w)].noteId = IF Action(w) = "create_note"
                                                 THEN work[w].noteId ELSE @]
    /\ work' = [work EXCEPT ![w] =
                   AfterStep([work[w] EXCEPT !.opportunity = @ \/ Action(w) = "create_opportunity"])]
    /\ UNCHANGED <<marks, log, job, crm, enriched, acked, sent, req, mishaps>>

SaveScore(w) ==
    /\ work[w].at = "history"
    /\ trail' = [trail EXCEPT ![Row(w)].scores = @ + 1]
    /\ Goes(w, "audit")
    /\ UNCHANGED <<marks, log, job, crm, enriched, acked, sent, req, mishaps>>

AuditSuccess(w) ==
    /\ work[w].at = "audit"
    /\ trail' = [trail EXCEPT ![Row(w)].audited = TRUE,
                              ![Row(w)].opportunityCreated = work[w].opportunity]
    /\ Goes(w, "success")
    /\ UNCHANGED <<marks, log, job, crm, enriched, acked, sent, req, mishaps>>

MarkDone(w) == SetStatus(w, "success", "completed", "completed")  \* mutant: BullMQ's word
MarkSuccess(w) == SetStatus(w, "success", "success", "completed")

Swallow(w) == SetStatus(w, "catch", "failed", "completed")  \* mutant: not rethrown
\* The catch: the row is failed and the error goes on to BullMQ.
MarkFailed(w) == SetStatus(w, "catch", "failed", "attempt_failed")

------------------------------------------------------------------------------
(* Failures.                                                                *)
RequestThrows(p) ==
    /\ req[p].at # "idle"
    /\ Mishap("faults")
    /\ req' = [req EXCEPT ![p] = NoRequest]
    /\ UNCHANGED <<Tables, work>>

Cut(w) == Mishap(IF work[w].at = "record" THEN "cuts" ELSE "faults")

WarnAndContinue(w) ==  \* mutant: a failed CRM write is skipped
    /\ work[w].at = "call"
    /\ Cut(w)
    /\ work' = [work EXCEPT ![w] = AfterStep(@)]
    /\ UNCHANGED <<Tables, req>>
RecordedAnyway(w) ==  \* mutant: a failed CRM write is recorded
    /\ work[w].at = "call"
    /\ Cut(w)
    /\ Goes(w, "record")
    /\ UNCHANGED <<Tables, req>>
\* Inside the try to its catch; before it and in it to BullMQ.
JobThrows(w) ==
    /\ work[w].at \in InTry \union {"start", "catch"}
    /\ Cut(w)
    /\ Goes(w, IF work[w].at \in InTry THEN "catch" ELSE "attempt_failed")
    /\ UNCHANGED <<Tables, req>>

\* Postgres, Redis and with it the queue survive a restart of the processes.
Restart ==
    /\ Mishap("restarts")
    /\ req' = [p \in Procs |-> NoRequest]
    /\ work' = [w \in Workers |-> NoWork]
    /\ UNCHANGED Tables

\* WEBHOOK_TTL_SECONDS after it was set a mark is gone.
Expire(id) ==
    /\ id \in marks
    /\ Mishap("expiries")
    /\ marks' = marks \ {id}
    /\ UNCHANGED <<log, job, trail, crm, enriched, acked, sent, req, work>>

------------------------------------------------------------------------------
Init ==
    /\ marks = {}
    /\ log = [r \in Logs |-> [notice |-> NoNotice, status |-> "none"]]
    /\ job = [r \in Logs |-> [state |-> "none", attemptsMade |-> 0, stalled |-> 0,
                              owner |-> NoWorker]]
    /\ trail = [r \in Logs |-> [checkpoint |-> {}, noteId |-> 0, scores |-> 0,
                                audited |-> FALSE, opportunityCreated |-> FALSE]]
    /\ crm = [r \in Logs |-> [updated |-> FALSE, notes |-> 0, linked |-> {}, opportunities |-> 0]]
    /\ enriched = FALSE
    /\ acked = {}
    /\ sent = [n \in Notices |-> 0]
    /\ req = [p \in Procs |-> NoRequest]
    /\ work = [w \in Workers |-> NoWork]
    /\ mishaps = [cuts |-> 0, faults |-> 0, restarts |-> 0, overlaps |-> 0, expiries |-> 0]

Receive(p) ==
    \/ \E n \in Notices : Deliver(p, n)
    \/ HasSeenOrMark(p) \/ CreateLog(p) \/ AddJob(p) \/ AnswerWebhook(p)
    \/ RequestThrows(p)

Process(w) ==
    \/ StartProcessing(w) \/ EnrichPerson(w) \/ Score(w)
    \/ GetCompleted(w) \/ CallTwenty(w) \/ RecordSuccess(w)
    \/ SaveScore(w) \/ AuditSuccess(w) \/ MarkSuccess(w) \/ MarkFailed(w)
    \/ JobThrows(w)

Queue ==
    \/ \E w \in Workers : JobCompleted(w) \/ AttemptFailed(w) \/ \E r \in Logs : Take(w, r)
    \/ \E r \in Logs : Reclaim(r)

Next ==
    \/ \E p \in Procs : Receive(p)
    \/ \E w \in Workers : Process(w)
    \/ Queue
    \/ Restart
    \/ \E id \in EventIds : Expire(id)

Spec == Init /\ [][Next]_vars

------------------------------------------------------------------------------
\* Types.
TypeOK ==
    /\ marks \subseteq EventIds
    /\ log \in [Logs -> LogRows]
    /\ job \in [Logs -> Jobs]
    /\ trail \in [Logs -> Trails]
    /\ crm \in [Logs -> CrmRows]
    /\ enriched \in BOOLEAN
    /\ acked \subseteq Notices
    /\ sent \in [Notices -> Nat]
    /\ req \in [Procs -> Requests]
    /\ work \in [Workers -> Work]
    /\ mishaps \in [cuts : Nat, faults : Nat, restarts : Nat, overlaps : Nat, expiries : Nat]

\* Concurrent deliveries of one event give it one webhookLog row, hence one job; only
\* the expiry of its mark lets a later delivery through.
OneLogPerEvent ==
    \A id \in EventIds :
        Cardinality({r \in Logs : log[r].status # "none" /\ EventId[log[r].notice] = id})
            <= 1 + mishaps.expiries

\* "Checkpoints are written only after confirmed Twenty response": what a checkpoint
\* claims is in the CRM, whichever attempts and workers wrote it.  "If Note exists but link
\* failed, retry reuses CREATE_NOTE.externalId": unless two workers ran the job at once, the
\* note on record is the one, and the only one, linked to the person.
CheckpointIsTrue ==
    \A r \in Logs :
        /\ "update_person" \in trail[r].checkpoint => crm[r].updated
        /\ "create_note" \in trail[r].checkpoint => trail[r].noteId \in 1 .. crm[r].notes
        /\ "link_note_to_person" \in trail[r].checkpoint =>
              /\ crm[r].linked \intersect 1 .. crm[r].notes # {}
              /\ mishaps.overlaps = 0 => crm[r].linked = {trail[r].noteId}
        /\ "create_opportunity" \in trail[r].checkpoint => crm[r].opportunities > 0

\* "success:true only after required CRM writes (and opportunity when required)
\* committed": across partial failures, retries and jobs taken twice, a success entry
\* stands on recorded writes and a success status on a success entry; and, unless two
\* workers ran it at once, a job BullMQ counts as completed on a success status.
SuccessIsWhole ==
    \A r \in Logs :
        /\ trail[r].audited => enriched /\ trail[r].scores > 0 /\ Required \subseteq trail[r].checkpoint
        /\ trail[r].opportunityCreated => "create_opportunity" \in trail[r].checkpoint
        /\ log[r].status = "success" => trail[r].audited
        /\ job[r].state = "completed" /\ mishaps.overlaps = 0 => log[r].status = "success"

\* "Already-checkpointed actions are not repeated": a note or an opportunity is written
\* again only if an attempt was cut off between the CRM call and its checkpoint, or two
\* workers ran the job at once; no other failure, at any later write, repeats it.
DuplicatesNeedACut ==
    \A r \in Logs :
        LET cuts == mishaps.cuts + mishaps.restarts + mishaps.overlaps
        IN  crm[r].notes <= 1 + cuts /\ crm[r].opportunities <= 1 + cuts

\* "Marks unseen IDs as processed": a notice answered with success, as a duplicate too,
\* has a job, or the request that marked its event is still under way.
AnsweredIsQueued ==
    \A n \in acked :
        \/ \E r \in Logs : job[r].state # "none" /\ EventId[log[r].notice] = EventId[n]
        \/ \E p \in Procs : req[p].at \in {"log", "add"} /\ EventId[req[p].notice] = EventId[n]
==============================================================================
