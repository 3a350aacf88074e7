-------------------------------- MODULE AiSdr --------------------------------
(***************************************************************************)
(* Approval-first outreach: one SdrSequence of src/ai-sdr/ai-sdr.service.ts *)
(* with its drafts, approvals, send attempts, replies and bookings.         *)
(*                                                                         *)
(* Every service method is an async function whose Prisma calls are         *)
(* separate statements (no transaction), so a request p in Procs is a small *)
(* state machine: pc[p] is the statement it will run next, loc[p] what it   *)
(* has read.  Statements of different requests interleave freely.  A draft  *)
(* is named by its version: [sequenceId, version] is unique and a draft's   *)
(* content, hence its contentHash, is never updated after creation, so the  *)
(* idempotency key send:tenant:draft:hash is also one per version.          *)
(***************************************************************************)
EXTENDS Integers, Sequences, FiniteSets

CONSTANTS
    Procs,           \* concurrent requests and queue workers
    Events,          \* inbound reply events (providerEventId)
    Classification,  \* [Events -> classification carried by the event]
    NoEvent,         \* the event of a request that is not a reply
    Requests,        \* the kinds of requests callers make
    Purposes,        \* the purposes of drafts in this instance
    HasTargetEmail,  \* the sequence was created with a targetEmail
    HasTargetPerson, \* the sequence was created with a targetPersonTwentyId
    MaxVersion,      \* bound: drafts of the sequence
    MaxBookings,     \* bound: meeting proposals of the sequence
    MaxFaults,       \* bound: statements that throw (database, CRM, network)
    MaxRestarts      \* bound: restarts of the Node process

RequestKinds == {"draft", "approve", "revoke", "reject", "send", "crm",
                 "reply", "admin_reply", "meeting", "pause", "candidate"}
DRAFT_PURPOSES == {"outreach", "follow_up", "reply", "meeting"}
Classes == {"POSITIVE", "NEGATIVE", "QUESTION", "NOT_NOW", "OOO", "UNSUBSCRIBE", "UNKNOWN"}

ASSUME BoundsAssumption ==
    /\ MaxVersion \in Nat \ {0}
    /\ MaxBookings \in Nat
    /\ MaxFaults \in Nat
    /\ MaxRestarts \in Nat
ASSUME EventsAssumption ==
    /\ NoEvent \notin Events
    /\ Classification \in [Events -> Classes]
ASSUME PurposesAssumption == {"reply", "meeting"} \subseteq Purposes /\ Purposes \subseteq DRAFT_PURPOSES
ASSUME RequestsAssumption ==
    /\ Requests \subseteq RequestKinds
    /\ HasTargetEmail \in BOOLEAN
    /\ HasTargetPerson \in BOOLEAN

Versions == 1 .. MaxVersion
STOP_STATUSES == {"REPLIED", "CANCELLED", "PAUSED", "COMPLETED", "FAILED"}

VARIABLES
    db,       \* the Postgres rows
    world,    \* what lives outside Postgres: provider memory, e-mails, CRM notes
    pc, loc,  \* next statement and locals of each request
    faults, restarts

vars == <<db, world, pc, loc, faults, restarts>>

Rows == [
    sequence   : {"DRAFTING", "AWAITING_APPROVAL", "APPROVED", "ACTIVE",
                  "REPLIED", "CANCELLED", "COMPLETED"},
    draft      : [Versions -> {"none", "AWAITING_APPROVAL", "APPROVED", "SUPERSEDED",
                               "SENT", "REJECTED"}],
    purpose    : [Versions -> Purposes \union {"none"}],
    approval   : [Versions -> {"none", "ACTIVE", "REVOKED"}],  \* ACTIVE if some row is
    message    : [Versions -> {"none", "QUEUED", "SENDING", "SENT", "FAILED"}],
    providerId : SUBSET Versions,   \* message rows holding a providerMessageId
    crm        : [Versions -> {"NONE", "PENDING", "COMPLETED", "FAILED"}],
    checkpoint : [Versions -> SUBSET {"CREATE_NOTE", "LINK_NOTE_TO_PERSON"}],
    reply      : SUBSET Events,     \* SdrReply rows
    booking    : Seq({"PROPOSED", "BOOKED"}),
    researchable : BOOLEAN,         \* the candidate is APPROVED or CREATED
    paused     : BOOLEAN]           \* AgentControl of ai_sdr

World == [
    sentByKey : SUBSET Versions,    \* the provider's in-process memo
    outbox    : [Versions -> Nat],  \* e-mails handed over, per draft
    notes     : [Versions -> Nat],  \* "e-mail sent" notes in the CRM, per draft
    acked     : SUBSET Events]      \* events answered with success

Work == [kind : {"none", "approve", "revoke", "reject", "send", "crm"} \union Purposes,
         v : Nat, e : Events \union {NoEvent}, prior : SUBSET Versions]

Job(kind, v, e) == [kind |-> kind, v |-> v, e |-> e, prior |-> {}]
NoWork == Job("none", 0, NoEvent)

------------------------------------------------------------------------------
(* Statements.  Ver(p), Event(p): the draft and the event p works on.       *)
Ver(p) == loc[p].v
Event(p) == loc[p].e

Resume(p, to) ==
    /\ pc' = [pc EXCEPT ![p] = to]
    /\ loc' = IF to = "idle" THEN [loc EXCEPT ![p] = NoWork] ELSE loc

\* A statement of p that writes rows and goes on at `to`; "idle" ends the request.
Statement(p, at, rows, to) ==
    /\ pc[p] = at
    /\ db' = rows
    /\ Resume(p, to)
    /\ UNCHANGED <<world, faults, restarts>>

Read(p, at, to) == Statement(p, at, db, to)

\* A call of p to something outside the database.
External(p, at, outside, to) ==
    /\ pc[p] = at
    /\ world' = outside
    /\ Resume(p, to)
    /\ UNCHANGED <<db, faults, restarts>>

\* A request whose first statement writes rows and goes on at `to`.
Begin(p, rows, to, work) ==
    /\ pc[p] = "idle"
    /\ db' = rows
    /\ pc' = [pc EXCEPT ![p] = to]
    /\ loc' = [loc EXCEPT ![p] = work]
    /\ UNCHANGED <<world, faults, restarts>>

Stopped == db.sequence \in STOP_STATUSES

AlwaysWrite(s) == s  \* mutant: an unconditional update
\* updateMany where status notIn STOP_STATUSES: one conditional statement.
UnlessStopped(s) == IF Stopped THEN db.sequence ELSE s

\* updateMany where status ACTIVE: REVOKED.
Revoke(v) == IF db.approval[v] = "ACTIVE" THEN "REVOKED" ELSE db.approval[v]

Existing == {v \in Versions : db.draft[v] # "none"}

------------------------------------------------------------------------------
(***************************************************************************)
(* createDraft.  The pause, sequence and purpose checks fail without effect *)
(* and are one step; then every write is a step.  Beyond MaxVersion or      *)
(* MaxBookings the request is dropped.                                      *)
(***************************************************************************)
MayDraft(kind) ==
    /\ ~db.paused
    /\ Stopped => db.sequence = "REPLIED"
    /\ db.sequence = "REPLIED" => kind # "outreach"

AfterGate(kind) == IF kind = "meeting" THEN "draft_booking" ELSE "draft_prior"

DraftRequest(p, kind) ==
    /\ "draft" \in Requests
    /\ MayDraft(kind)
    /\ Begin(p, db, AfterGate(kind), Job(kind, 0, NoEvent))

\* createDraft called by ingestReply: a failed check fails the whole ingest.
DraftForReply(p) ==
    Read(p, "draft_gate", IF MayDraft(loc[p].kind) THEN AfterGate(loc[p].kind) ELSE "idle")

DraftBooking(p) ==
    IF Len(db.booking) < MaxBookings
    THEN Statement(p, "draft_booking", [db EXCEPT !.booking = Append(@, "PROPOSED")], "draft_prior")
    ELSE Read(p, "draft_booking", "idle")

\* findMany: the drafts of the same purpose that are not settled.
DraftFindPrior(p) ==
    /\ pc[p] = "draft_prior"
    /\ pc' = [pc EXCEPT ![p] = "draft_supersede"]
    /\ loc' = [loc EXCEPT ![p].prior =
                 {v \in Versions : /\ db.draft[v] \in {"AWAITING_APPROVAL", "APPROVED"}
                                   /\ db.purpose[v] = loc[p].kind}]
    /\ UNCHANGED <<db, world, faults, restarts>>

DraftSupersede(p) ==
    /\ pc[p] = "draft_supersede"
    /\ pc' = [pc EXCEPT ![p] = "draft_revoke"]
    /\ \E v \in loc[p].prior :
          /\ db' = [db EXCEPT !.draft[v] = "SUPERSEDED"]
          /\ loc' = [loc EXCEPT ![p].v = v, ![p].prior = @ \ {v}]
    /\ UNCHANGED <<world, faults, restarts>>

DraftRevokePrior(p) ==
    Statement(p, "draft_revoke", [db EXCEPT !.approval[Ver(p)] = Revoke(Ver(p))], "draft_supersede")

\* The aggregate _max, plus one; a request past MaxVersion is dropped.
DraftVersion(p) ==
    /\ pc[p] = "draft_supersede"
    /\ loc[p].prior = {}
    /\ IF MaxVersion \in Existing
       THEN Resume(p, "idle")
       ELSE \E n \in Versions :
              /\ \A v \in Existing : v < n
              /\ n = 1 \/ n - 1 \in Existing
              /\ pc' = [pc EXCEPT ![p] = "draft_create"]
              /\ loc' = [loc EXCEPT ![p].v = n]
    /\ UNCHANGED <<db, world, faults, restarts>>

\* create fails on the unique [sequenceId, version] if the row appeared meanwhile.
DraftCreate(p) ==
    /\ pc[p] = "draft_create"
    /\ IF Ver(p) \in Existing
       THEN Read(p, "draft_create", "idle")
       ELSE Statement(p, "draft_create",
                      [db EXCEPT !.draft[Ver(p)] = "AWAITING_APPROVAL",
                                 !.purpose[Ver(p)] = loc[p].kind], "draft_sequence")

\* The last statement; inside ingestReply the method goes on after the call.
DraftSequence(p) ==
    /\ pc[p] = "draft_sequence"
    /\ db' = [db EXCEPT !.sequence = UnlessStopped("AWAITING_APPROVAL")]
    /\ IF Event(p) = NoEvent
       THEN Resume(p, "idle")
       ELSE IF loc[p].kind = "reply" /\ Classification[Event(p)] = "POSITIVE"
            THEN /\ pc' = [pc EXCEPT ![p] = "draft_gate"]
                 /\ loc' = [loc EXCEPT ![p] = Job("meeting", 0, Event(p))]
            ELSE Resume(p, "reply_ack")
    /\ UNCHANGED <<world, faults, restarts>>

------------------------------------------------------------------------------
(* approveDraft; revokeApproval, a 404 unless some approval is ACTIVE;      *)
(* rejectDraft, whose repetition is an answer without effect.               *)
ApproveRequest(p, v) ==
    /\ "approve" \in Requests
    /\ db.draft[v] \notin {"none", "SUPERSEDED", "REJECTED", "SENT"}
    /\ Begin(p, db, "approve_grant", Job("approve", v, NoEvent))

ApproveGrant(p) ==
    Statement(p, "approve_grant", [db EXCEPT !.approval[Ver(p)] = "ACTIVE"], "approve_draft")
ApproveDraft(p) ==
    Statement(p, "approve_draft", [db EXCEPT !.draft[Ver(p)] = "APPROVED"], "approve_sequence")
ApproveSequence(p) ==
    Statement(p, "approve_sequence", [db EXCEPT !.sequence = UnlessStopped("APPROVED")], "idle")

RevokeRequest(p, v) ==
    /\ "revoke" \in Requests
    /\ db.approval[v] = "ACTIVE"
    /\ Begin(p, [db EXCEPT !.approval[v] = "REVOKED"], "revoke_draft", Job("revoke", v, NoEvent))

RevokeDraft(p) ==
    Statement(p, "revoke_draft", [db EXCEPT !.draft[Ver(p)] = "AWAITING_APPROVAL"], "idle")

RejectRequest(p, v) ==
    /\ "reject" \in Requests
    /\ db.draft[v] \in {"AWAITING_APPROVAL", "APPROVED"}
    /\ Begin(p, db, "reject_revoke", Job("reject", v, NoEvent))

RejectRevoke(p) ==
    Statement(p, "reject_revoke", [db EXCEPT !.approval[Ver(p)] = Revoke(Ver(p))], "reject_draft")
RejectDraft(p) ==
    Statement(p, "reject_draft", [db EXCEPT !.draft[Ver(p)] = "REJECTED"], "idle")

------------------------------------------------------------------------------
(***************************************************************************)
(* executeSend, reached by the synchronous API call, by a queued job, by a  *)
(* BullMQ retry or by a stalled job taken twice: it may start at any time.  *)
(* Of the gate's reads, pause, draft and sequence are one step (a sequence  *)
(* that has not stopped later has not stopped now, so reading it early      *)
(* loses no passing behaviour); the approval and the candidate are read     *)
(* later, each in a step.  An audit entry is a statement of its own only    *)
(* where its failure is handled differently from that of its neighbours.    *)
(***************************************************************************)
SendRequest(p, v) ==
    /\ "send" \in Requests
    /\ ~db.paused
    /\ db.draft[v] \notin {"none", "SUPERSEDED", "REJECTED"}
    /\ ~Stopped
    /\ HasTargetEmail
    /\ Begin(p, db, "send_gate", Job("send", v, NoEvent))

NotRevoked(v) == db.approval[v] # "REVOKED"  \* mutant: no approval counts as one
HasActiveApproval(v) == db.approval[v] = "ACTIVE"

SendGate(p) ==
    Read(p, "send_gate", IF HasActiveApproval(Ver(p)) THEN "send_candidate" ELSE "idle")
SendCandidate(p) ==
    Read(p, "send_candidate", IF db.researchable THEN "send_find" ELSE "idle")

WasAttempted(v) == db.message[v] # "none"  \* mutant: any attempt counts as sent
IsSent(v) == db.message[v] = "SENT"

\* findUnique by the idempotency key: a SENT message is the answer.
SendFind(p) ==
    Read(p, "send_find", CASE IsSent(Ver(p)) -> "idle"
                           [] db.message[Ver(p)] = "none" -> "send_create"
                           [] OTHER -> "send_started")

\* create, outside the try: a second row for the key violates the unique index.
SendCreate(p) ==
    /\ pc[p] = "send_create"
    /\ IF db.message[Ver(p)] = "none"
       THEN Statement(p, "send_create", [db EXCEPT !.message[Ver(p)] = "QUEUED"], "send_started")
       ELSE Read(p, "send_create", "idle")

\* The audit entry between create and the try: its failure leaves the message as it is.
SendStarted(p) == Read(p, "send_started", "send_live")

SendLiveUnchecked(p) == Read(p, "send_live", "send_sending")  \* mutant: the gate is enough
\* The second read of the sequence, after the gate and before the provider.
SendLive(p) == Read(p, "send_live", IF Stopped THEN "send_blocked" ELSE "send_sending")

MarkUnlisted(v) ==  \* mutant: a crmSyncStatus the schema does not list
    [db EXCEPT !.message[v] = "FAILED", !.crm[v] = "SEND_FAILED"]
MarkFailed(v) == [db EXCEPT !.message[v] = "FAILED", !.crm[v] = "NONE"]

\* The stop branch writes FAILED and throws into the handler's own catch.
SendBlocked(p) == Statement(p, "send_blocked", MarkFailed(Ver(p)), "send_catch")

SendSending(p) ==
    Statement(p, "send_sending", [db EXCEPT !.message[Ver(p)] = "SENDING"], "send_provider")

\* sendEmail: a remembered key is answered from memory, otherwise the e-mail is
\* handed over and the key remembered.
HandOverAgain(v) == [world EXCEPT !.outbox[v] = @ + 1]  \* mutant: nothing remembered
HandOver(v) ==
    [world EXCEPT !.outbox[v] = IF v \in world.sentByKey THEN @ ELSE @ + 1,
                  !.sentByKey = @ \union {v}]

SendProvider(p) == External(p, "send_provider", HandOver(Ver(p)), "send_record")

\* The failure fixtures, which a remembered key never reaches.
SendRefused(p) ==
    Ver(p) \notin world.sentByKey /\ Read(p, "send_provider", "send_catch")

SendRecord(p) ==
    Statement(p, "send_record", [db EXCEPT !.message[Ver(p)] = "SENT", !.crm[Ver(p)] = "PENDING",
                                           !.providerId = @ \union {Ver(p)}], "send_draft")
SendDraft(p) ==
    Statement(p, "send_draft", [db EXCEPT !.draft[Ver(p)] = "SENT"], "send_activate")
SendActivate(p) ==
    Statement(p, "send_activate", [db EXCEPT !.sequence = UnlessStopped("ACTIVE")], "send_audit")

\* The audit entry sdr_sent: its failure goes to the outer catch, after the send.
SendAudit(p) == Read(p, "send_audit", "sync_begin")

\* The answer reads the message back, still inside the outer try.
SendAnswer(p) == Read(p, "send_answer", "idle")

SendCatchSilent(p) == Read(p, "send_catch", "idle")  \* mutant: the failure is not recorded
\* The outer catch: FAILED and no CRM state, whatever the message was.
SendCatch(p) == Statement(p, "send_catch", MarkFailed(Ver(p)), "idle")

------------------------------------------------------------------------------
(***************************************************************************)
(* syncCrmForMessage, called at the end of executeSend or alone (the        *)
(* crmSyncOnly request and its queue).  Inside executeSend a failure goes   *)
(* to the inner catch; alone it ends the request.                           *)
(***************************************************************************)
InsideSend(p) == loc[p].kind = "send"
SyncFails(p) == IF InsideSend(p) THEN "sync_catch" ELSE "idle"

CrmRequest(p, v) ==
    /\ "crm" \in Requests
    /\ IsSent(v)
    /\ Begin(p, db, "sync_begin", Job("crm", v, NoEvent))

SyncBegin(p) ==
    Read(p, "sync_begin", IF IsSent(Ver(p)) THEN "sync_note" ELSE SyncFails(p))

SyncNoteEndsSync(p) ==  \* mutant: a recorded note skips the link as well
    Read(p, "sync_note", IF "CREATE_NOTE" \in db.checkpoint[Ver(p)] THEN "sync_done" ELSE "sync_create")
\* getCompleted: the note is skipped if its checkpoint is recorded.
SyncNoteDone(p) ==
    Read(p, "sync_note", IF "CREATE_NOTE" \in db.checkpoint[Ver(p)] THEN "sync_link" ELSE "sync_create")
SyncCreateNote(p) ==
    External(p, "sync_create", [world EXCEPT !.notes[Ver(p)] = @ + 1], "sync_record")
SyncRecord(p) ==
    Statement(p, "sync_record", [db EXCEPT !.checkpoint[Ver(p)] = @ \union {"CREATE_NOTE"}],
              "sync_link")

\* createNoteTarget with its checkpoint, when the sequence has a target person.
SyncLink(p) ==
    Statement(p, "sync_link",
              [db EXCEPT !.checkpoint[Ver(p)] =
                  IF HasTargetPerson THEN @ \union {"LINK_NOTE_TO_PERSON"} ELSE @], "sync_done")
SyncDone(p) ==
    Statement(p, "sync_done", [db EXCEPT !.crm[Ver(p)] = "COMPLETED"], "sync_audit")
\* The sequence's own column and the audit entry, whose failure is a failed sync.
SyncAudit(p) == Read(p, "sync_audit", IF InsideSend(p) THEN "send_answer" ELSE "idle")

\* The inner catch of executeSend: only crmSyncStatus becomes FAILED.
SyncCatch(p) == Statement(p, "sync_catch", [db EXCEPT !.crm[Ver(p)] = "FAILED"], "send_answer")

------------------------------------------------------------------------------
(***************************************************************************)
(* ingestReply.  The signed webhook correlates through the providerMessageId *)
(* of a message; the admin path names the sequence.  A recorded event is    *)
(* answered as a duplicate at once.  The reply's own CRM note is best-effort *)
(* and read by nothing: it is not modelled.                                 *)
(***************************************************************************)
Correlated == "admin_reply" \in Requests \/ ("reply" \in Requests /\ db.providerId # {})

ReplyRequest(p, e) ==
    /\ Correlated
    /\ e \notin db.reply
    /\ Begin(p, db, "reply_create", Job("reply", 0, e))

ReplyDuplicate(e) ==
    /\ e \in db.reply \ world.acked
    /\ world' = [world EXCEPT !.acked = @ \union {e}]
    /\ UNCHANGED <<db, pc, loc, faults, restarts>>

\* create fails on the unique [tenantId, providerEventId] if another delivery won.
ReplyCreate(p) ==
    IF Event(p) \in db.reply
    THEN Read(p, "reply_create", "idle")
    ELSE Statement(p, "reply_create", [db EXCEPT !.reply = @ \union {Event(p)}], "reply_stop")

StopStatus(e) ==
    IF Classification[e] \in {"UNSUBSCRIBE", "NEGATIVE"} THEN "CANCELLED" ELSE "REPLIED"

ReplyStopsNegative(p) ==  \* mutant: only a negative reply stops the sequence
    Statement(p, "reply_stop",
              [db EXCEPT !.sequence = IF StopStatus(Event(p)) = "CANCELLED" THEN "CANCELLED" ELSE @],
              "reply_adapt")
\* Every classification stops the sequence, whatever its status was.
ReplyStop(p) ==
    Statement(p, "reply_stop", [db EXCEPT !.sequence = StopStatus(Event(p))], "reply_adapt")

ReplyAdapt(p) ==
    Read(p, "reply_adapt",
         IF Classification[Event(p)] \in {"POSITIVE", "QUESTION"} /\ ~db.paused
         THEN "draft_gate" ELSE "reply_ack")

ReplyAck(p) ==
    External(p, "reply_ack", [world EXCEPT !.acked = @ \union {Event(p)}], "idle")

------------------------------------------------------------------------------
(* confirmMeeting: the latest booking BOOKED, then the sequence COMPLETED.  *)
MeetingRequest(p) ==
    /\ "meeting" \in Requests
    /\ db.booking # <<>>
    /\ db.sequence # "CANCELLED"
    /\ Begin(p, db, "meeting_book", Job("meeting", Len(db.booking), NoEvent))

MeetingUnbooked(p) == Read(p, "meeting_book", "meeting_complete")  \* mutant: lost booking write
MeetingBook(p) ==
    Statement(p, "meeting_book", [db EXCEPT !.booking[Ver(p)] = "BOOKED"], "meeting_complete")
MeetingComplete(p) ==
    Statement(p, "meeting_complete", [db EXCEPT !.sequence = "COMPLETED"], "idle")

------------------------------------------------------------------------------
(* What the rest of the platform does to the rows this module reads.        *)
AgentPauseOrResume ==
    /\ "pause" \in Requests
    /\ db' = [db EXCEPT !.paused = ~@]
    /\ UNCHANGED <<world, pc, loc, faults, restarts>>

\* A failed or rejected creation takes the candidate out of RESEARCHABLE, approving
\* a FAILED candidate again puts it back.
CandidateMoves ==
    /\ "candidate" \in Requests
    /\ db' = [db EXCEPT !.researchable = ~@]
    /\ UNCHANGED <<world, pc, loc, faults, restarts>>

\* Statements whose exception the inner and the outer catch of executeSend handle.
InnerTry == {"sync_begin", "sync_note", "sync_create", "sync_record", "sync_link", "sync_done",
             "sync_audit"}
OuterTry == {"send_live", "send_blocked", "send_sending", "send_provider", "send_record",
             "send_draft", "send_activate", "send_audit", "sync_catch", "send_answer"}

\* The pending statement of a request throws.
Throw(p) ==
    /\ faults < MaxFaults
    /\ pc[p] # "idle"
    /\ faults' = faults + 1
    /\ Resume(p, CASE pc[p] \in OuterTry -> "send_catch"
                   [] pc[p] \in InnerTry -> SyncFails(p)
                   [] OTHER -> "idle")
    /\ UNCHANGED <<db, world, restarts>>

\* The process ends: every request in flight is gone and so is the provider's memo.
Restart ==
    /\ restarts < MaxRestarts
    /\ restarts' = restarts + 1
    /\ world' = [world EXCEPT !.sentByKey = {}]
    /\ pc' = [p \in Procs |-> "idle"]
    /\ loc' = [p \in Procs |-> NoWork]
    /\ UNCHANGED <<db, faults>>

------------------------------------------------------------------------------
\* The state createSequence leaves, its candidate APPROVED and researched.
Init ==
    /\ db = [sequence |-> "DRAFTING",
             draft |-> [v \in Versions |-> "none"],
             purpose |-> [v \in Versions |-> "none"],
             approval |-> [v \in Versions |-> "none"],
             message |-> [v \in Versions |-> "none"],
             providerId |-> {},
             crm |-> [v \in Versions |-> "NONE"],
             checkpoint |-> [v \in Versions |-> {}],
             reply |-> {},
             booking |-> <<>>,
             researchable |-> TRUE,
             paused |-> FALSE]
    /\ world = [sentByKey |-> {}, outbox |-> [v \in Versions |-> 0],
                notes |-> [v \in Versions |-> 0], acked |-> {}]
    /\ pc = [p \in Procs |-> "idle"]
    /\ loc = [p \in Procs |-> NoWork]
    /\ faults = 0
    /\ restarts = 0

Draft(p) ==
    \/ DraftForReply(p) \/ DraftBooking(p) \/ DraftFindPrior(p) \/ DraftSupersede(p)
    \/ DraftRevokePrior(p) \/ DraftVersion(p) \/ DraftCreate(p) \/ DraftSequence(p)

Decide(p) ==
    \/ ApproveGrant(p) \/ ApproveDraft(p) \/ ApproveSequence(p)
    \/ RevokeDraft(p) \/ RejectRevoke(p) \/ RejectDraft(p)

Send(p) ==
    \/ SendGate(p) \/ SendCandidate(p) \/ SendFind(p) \/ SendCreate(p) \/ SendStarted(p)
    \/ SendLive(p) \/ SendBlocked(p) \/ SendSending(p) \/ SendProvider(p) \/ SendRefused(p)
    \/ SendRecord(p) \/ SendDraft(p) \/ SendActivate(p) \/ SendAudit(p) \/ SendAnswer(p)
    \/ SendCatch(p)

Sync(p) ==
    \/ SyncBegin(p) \/ SyncNoteDone(p) \/ SyncCreateNote(p) \/ SyncRecord(p)
    \/ SyncLink(p) \/ SyncDone(p) \/ SyncAudit(p) \/ SyncCatch(p)

Inbound(p) ==
    \/ ReplyCreate(p) \/ ReplyStop(p) \/ ReplyAdapt(p) \/ ReplyAck(p)
    \/ MeetingBook(p) \/ MeetingComplete(p)

Step(p) == Draft(p) \/ Decide(p) \/ Send(p) \/ Sync(p) \/ Inbound(p)

Request(p) ==
    \/ \E kind \in Purposes : DraftRequest(p, kind)
    \/ \E v \in Versions :
          \/ ApproveRequest(p, v) \/ RevokeRequest(p, v) \/ RejectRequest(p, v)
          \/ SendRequest(p, v) \/ CrmRequest(p, v)
    \/ \E e \in Events : ReplyRequest(p, e)
    \/ MeetingRequest(p)

Next ==
    \/ \E p \in Procs : Request(p) \/ Step(p) \/ Throw(p)
    \/ \E e \in Events : ReplyDuplicate(e)
    \/ AgentPauseOrResume
    \/ CandidateMoves
    \/ Restart

Spec == Init /\ [][Next]_vars

\* The event loop runs every started request to its end, and the e-mail provider
\* redelivers an event until it is answered.
FairSpec ==
    /\ Spec
    /\ \A p \in Procs : WF_vars(Step(p))
    /\ \A e \in Events : SF_vars(\E p \in Procs : ReplyRequest(p, e))
    /\ \A e \in Events : WF_vars(ReplyDuplicate(e))

------------------------------------------------------------------------------
Labels ==
    {"idle", "draft_gate", "draft_booking", "draft_prior", "draft_supersede", "draft_revoke",
     "draft_create", "draft_sequence", "approve_grant", "approve_draft", "approve_sequence",
     "revoke_draft", "reject_revoke", "reject_draft", "send_gate", "send_candidate",
     "send_find", "send_create", "send_started", "send_catch", "reply_create", "reply_stop", "reply_adapt",
     "reply_ack", "meeting_book", "meeting_complete"} \union InnerTry \union OuterTry

\* Types.  PAUSED, FAILED (a sequence) and DRAFT (a draft), which the schema lists,
\* are never written by ai-sdr.service.ts and are not in Rows.
TypeOK ==
    /\ db \in Rows
    /\ world \in World
    /\ pc \in [Procs -> Labels]
    /\ loc \in [Procs -> Work]
    /\ faults \in Nat
    /\ restarts \in Nat

\* Requests between the live check of the sequence and the provider call.
Committed == {p \in Procs : pc[p] \in {"send_sending", "send_provider"}}

\* docs/AI_SDR_V1.md, core safety rule: an e-mail handed over belongs to a draft that
\* somebody approved explicitly, whatever was revoked, superseded or rejected since.
OnlyApprovedIsSent ==
    \A v \in Versions : world.outbox[v] > 0 => db.approval[v] # "none"

\* However many sends, retries and stalled jobs run at once, the e-mail of a draft
\* leaves at most once per life of the process: the key is the same for all of them
\* and the provider remembers it until a restart.
OneEmailPerProcessLife == \A v \in Versions : world.outbox[v] <= 1 + restarts

\* A note "e-mail sent" exists only for an e-mail that was handed over, also when
\* the send failed, was retried, or raced another send of the same draft.
NoteOnlyForSentEmail ==
    \A v \in Versions : world.notes[v] > 0 => world.outbox[v] > 0 /\ v \in db.providerId

\* crmSyncStatus COMPLETED is never claimed before the note, its checkpoint and the
\* link to the person exist, whichever of several syncs wrote it.
CompletedSyncIsWhole ==
    \A v \in Versions : db.crm[v] = "COMPLETED" =>
        /\ world.notes[v] > 0
        /\ "CREATE_NOTE" \in db.checkpoint[v]
        /\ HasTargetPerson => "LINK_NOTE_TO_PERSON" \in db.checkpoint[v]

\* A sequence is in a stop status only for a cause on record: a reply or a booking.
StopHasCause ==
    /\ db.sequence \in {"REPLIED", "CANCELLED"} =>
         \E e \in db.reply : db.sequence = StopStatus(e)
    /\ db.sequence = "COMPLETED" => \E i \in 1 .. Len(db.booking) : db.booking[i] = "BOOKED"

\* A stopped sequence is never reopened, by a late draft, approval or send either.
StopIsFinal == [][Stopped => Stopped']_vars

\* Once the sequence has stopped and the sends that had passed the live check are
\* over, no e-mail leaves and no request gets to the point of sending one.
NoSendAfterStop ==
    [][Stopped /\ Committed = {} => world'.outbox = world.outbox /\ Committed' = {}]_vars

\* "any genuine reply stops automated follow-ups": a recorded reply stops the sequence.
ReplyStopsSequence == \A e \in Events : e \in db.reply ~> Stopped

\* Every send attempt is settled: a message does not stay QUEUED or SENDING.
AttemptSettles ==
    \A v \in Versions :
        db.message[v] \in {"QUEUED", "SENDING"} ~> db.message[v] \in {"SENT", "FAILED"}

\* "Rejected drafts cannot be approved or sent."
RejectIsFinal ==
    [][\A v \in Versions : db.draft[v] = "REJECTED" => db'.draft[v] \notin {"APPROVED", "SENT"}]_vars

\* "Retry returns existing SENT message": a message whose e-mail the provider accepted
\* is never marked FAILED afterwards.
SentNeverFails == \A v \in db.providerId : db.message[v] # "FAILED"

\* The service, its tables and requests, implements the contract of OutreachContract.
Contract == INSTANCE OutreachContract WITH
    Drafts <- Versions,
    None <- 0,
    approved <- {v \in Versions : db.approval[v] # "none"},
    committed <- [p \in Procs |-> IF p \in Committed THEN loc[p].v ELSE 0],
    delivered <- {v \in Versions : world.outbox[v] > 0},
    stopped <- Stopped
ImplementsContract == Contract!Spec
==============================================================================
