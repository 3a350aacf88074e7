----------------------------- MODULE AiSdrProofs -----------------------------
(***************************************************************************)
(* Proofs about AiSdr for every number of requests, drafts, events, faults  *)
(* and restarts.  The inductive invariant Inv has three parts: types, what  *)
(* the rows and the outside world have to do with each other (Sound, Once), *)
(* and what a request has earned before each of its statements (Ready,      *)
(* Earned).  Everything a request earns is kept by every later statement of *)
(* any request (Keeps), so an action is proved by looking at its own rows   *)
(* and its own next statement only.                                         *)
(***************************************************************************)
EXTENDS AiSdr, SequenceTheorems, TLAPS

\* Statements that work on a draft, and statements of a reply.
DraftWork == {"draft_revoke", "draft_create", "draft_sequence", "approve_grant", "approve_draft",
              "approve_sequence", "revoke_draft", "reject_revoke", "reject_draft", "send_gate",
              "send_candidate", "send_find", "send_create", "send_started", "send_catch"}
             \union InnerTry \union OuterTry
Drafting == {"draft_gate", "draft_booking", "draft_prior", "draft_supersede", "draft_revoke",
             "draft_create", "draft_sequence"}
ReplyWork == {"reply_create", "reply_stop", "reply_adapt", "reply_ack"}
MeetingWork == {"meeting_book", "meeting_complete"}
CommitLabels == {"send_sending", "send_provider"}
GatedLabels == {"send_candidate", "send_find", "send_create", "send_started", "send_live"}
               \union CommitLabels

USE DEF InnerTry, OuterTry, DraftWork, Drafting, ReplyWork, MeetingWork, CommitLabels, GatedLabels

\* The locals that statement l uses hold a draft, an event or a booking.
Ready(r, l, work) ==
    /\ l \in DraftWork => work.v \in Versions
    /\ l \in ReplyWork => work.e \in Events
    /\ l \in Drafting \union ReplyWork => work.kind \in Purposes
    /\ l \in MeetingWork => work.v \in 1 .. Len(r.booking)

Whole(r, v) ==
    /\ "CREATE_NOTE" \in r.checkpoint[v]
    /\ HasTargetPerson => "LINK_NOTE_TO_PERSON" \in r.checkpoint[v]

\* What the rows r and the outside world w show when a request stands before l.
Earned(r, w, l, work) ==
    /\ l \in GatedLabels => r.approval[work.v] # "none"
    /\ l = "send_record" => w.outbox[work.v] > 0
    /\ l \in {"sync_note", "sync_create"} => work.v \in r.providerId
    /\ l = "sync_record" => w.notes[work.v] > 0
    /\ l = "sync_link" => "CREATE_NOTE" \in r.checkpoint[work.v]
    /\ l = "sync_done" => Whole(r, work.v)
    /\ l = "reply_stop" => work.e \in r.reply
    /\ l = "meeting_complete" => r.booking[work.v] = "BOOKED"

Caused(r) ==
    /\ r.sequence \in {"REPLIED", "CANCELLED"} => \E e \in r.reply : r.sequence = StopStatus(e)
    /\ r.sequence = "COMPLETED" => \E i \in 1 .. Len(r.booking) : r.booking[i] = "BOOKED"

Sound(r, w) ==
    /\ \A v \in Versions :
          /\ w.outbox[v] > 0 => r.approval[v] # "none"
          /\ v \in r.providerId => w.outbox[v] > 0
          /\ r.message[v] = "SENT" => v \in r.providerId
          /\ w.notes[v] > 0 => v \in r.providerId
          /\ "CREATE_NOTE" \in r.checkpoint[v] => w.notes[v] > 0
          /\ r.crm[v] = "COMPLETED" => Whole(r, v)
    /\ Caused(r)

\* A draft's e-mail left once per past life of the process, and once in this one
\* only if the provider still remembers it.
Once(w) ==
    \A v \in Versions :
        /\ w.outbox[v] <= restarts + (IF v \in w.sentByKey THEN 1 ELSE 0)
        /\ v \in w.sentByKey => w.outbox[v] > 0

Inv ==
    /\ TypeOK
    /\ Sound(db, world)
    /\ Once(world)
    /\ \A p \in Procs : Ready(db, pc[p], loc[p]) /\ Earned(db, world, pc[p], loc[p])

\* Nothing a request has earned is taken back when the rows become r and the world w.
Keeps(r, w) ==
    /\ \A v \in Versions :
          /\ db.approval[v] # "none" => r.approval[v] # "none"
          /\ db.checkpoint[v] \subseteq r.checkpoint[v]
          /\ w.outbox[v] >= world.outbox[v]
          /\ w.notes[v] >= world.notes[v]
    /\ db.providerId \subseteq r.providerId
    /\ db.reply \subseteq r.reply
    /\ Len(r.booking) >= Len(db.booking)
    /\ \A i \in 1 .. Len(db.booking) : db.booking[i] = "BOOKED" => r.booking[i] = "BOOKED"
    /\ Stopped => r.sequence \in STOP_STATUSES

\* In a stopped sequence only a request that had passed the live check can hand
\* over an e-mail, and no other one gets there.
Quiet(p, w, to) ==
    Stopped /\ pc[p] \notin CommitLabels => w.outbox = world.outbox /\ to \notin CommitLabels

StepOK ==
    /\ Inv'
    /\ Stopped => Stopped'
    /\ Stopped /\ Committed = {} => world'.outbox = world.outbox /\ Committed' = {}

------------------------------------------------------------------------------
(* A step of one request that satisfies the conditions above is StepOK.     *)
LEMMA EarnedKept ==
    ASSUME NEW r \in Rows, NEW w \in World, NEW l, NEW work \in Work,
           TypeOK, Keeps(r, w), Ready(db, l, work), Earned(db, world, l, work)
    PROVE  Ready(r, l, work) /\ Earned(r, w, l, work)
  <1>1. Ready(r, l, work)
    BY DEF Ready, Keeps, TypeOK, Rows
  <1>2. /\ l \in GatedLabels => r.approval[work.v] # "none"
        /\ l \in {"sync_note", "sync_create"} => work.v \in r.providerId
        /\ l = "sync_link" => "CREATE_NOTE" \in r.checkpoint[work.v]
        /\ l = "sync_done" => Whole(r, work.v)
        /\ l = "reply_stop" => work.e \in r.reply
    BY DEF Ready, Keeps, Earned, Whole
  <1>3. /\ l = "send_record" => w.outbox[work.v] > 0
        /\ l = "sync_record" => w.notes[work.v] > 0
    BY DEF Ready, Keeps, Earned, TypeOK, World
  <1>4. l = "meeting_complete" => r.booking[work.v] = "BOOKED"
    BY DEF Ready, Keeps, Earned
  <1> QED
    BY <1>1, <1>2, <1>3, <1>4 DEF Earned

LEMMA StepPreserves ==
    ASSUME Inv, NEW p \in Procs, NEW to \in Labels, NEW work \in Work,
           NEW r \in Rows, NEW w \in World,
           db' = r, world' = w, faults' \in Nat, restarts' = restarts,
           pc' = [pc EXCEPT ![p] = to], loc' = [loc EXCEPT ![p] = work],
           Keeps(r, w), Sound(r, w), Once(w), Quiet(p, w, to),
           Ready(r, to, work), Earned(r, w, to, work)
    PROVE  StepOK
  <1>1. TypeOK'
    BY DEF Inv, TypeOK
  <1>2. Sound(db, world)' /\ Once(world)'
    BY DEF Sound, Once, Caused, Whole, StopStatus
  <1>3. ASSUME NEW q \in Procs
        PROVE  Ready(db, pc[q], loc[q])' /\ Earned(db, world, pc[q], loc[q])'
    <2>1. CASE q = p
      <3>1. pc'[q] = to /\ loc'[q] = work
        BY <2>1 DEF Inv, TypeOK
      <3> QED
        BY <3>1 DEF Ready, Earned, Whole
    <2>2. CASE q # p
      <3>1. pc'[q] = pc[q] /\ loc'[q] = loc[q] /\ loc[q] \in Work
        BY <2>2 DEF Inv, TypeOK
      <3>2. Ready(r, pc[q], loc[q]) /\ Earned(r, w, pc[q], loc[q])
        BY <3>1, EarnedKept DEF Inv
      <3> QED
        BY <3>1, <3>2 DEF Ready, Earned, Whole
    <2> QED
      BY <2>1, <2>2
  <1>4. Stopped => Stopped'
    BY DEF Keeps, Stopped
  <1>5. Stopped /\ Committed = {} => world'.outbox = world.outbox /\ Committed' = {}
    BY DEF Quiet, Committed, Inv, TypeOK
  <1> QED
    BY <1>1, <1>2, <1>3, <1>4, <1>5 DEF Inv, StepOK

LEMMA NoWorkTyped == NoWork \in Work
  BY DEF NoWork, Job, Work

\* A request that ends needs nothing, one that goes on keeps its locals.
LEMMA ResumePreserves ==
    ASSUME Inv, NEW p \in Procs, NEW to \in Labels, NEW r \in Rows, NEW w \in World,
           db' = r, world' = w, faults' \in Nat, restarts' = restarts, Resume(p, to),
           Keeps(r, w), Sound(r, w), Once(w), Quiet(p, w, to),
           to # "idle" => Ready(r, to, loc[p]) /\ Earned(r, w, to, loc[p])
    PROVE  StepOK
  <1>1. CASE to = "idle"
    <2>1. Ready(r, to, NoWork) /\ Earned(r, w, to, NoWork)
      BY <1>1 DEF Ready, Earned
    <2> QED
      BY <1>1, <2>1, NoWorkTyped, StepPreserves DEF Resume
  <1>2. CASE to # "idle"
    <2>1. loc[p] \in Work /\ loc' = [loc EXCEPT ![p] = loc[p]]
      BY <1>2 DEF Resume, Inv, TypeOK
    <2> QED
      BY <1>2, <2>1, StepPreserves DEF Resume
  <1> QED
    BY <1>1, <1>2

LEMMA StatementPreserves ==
    ASSUME Inv, NEW p \in Procs, NEW at, NEW to \in Labels, NEW r \in Rows,
           Statement(p, at, r, to), Keeps(r, world), Sound(r, world),
           Stopped /\ at \notin CommitLabels => to \notin CommitLabels,
           to # "idle" => Ready(r, to, loc[p]) /\ Earned(r, world, to, loc[p])
    PROVE  StepOK
  <1>1. world \in World /\ faults' \in Nat /\ Once(world) /\ Quiet(p, world, to)
    BY DEF Inv, TypeOK, Statement, Quiet
  <1> QED
    BY <1>1, ResumePreserves DEF Statement

LEMMA ReadPreserves ==
    ASSUME Inv, NEW p \in Procs, NEW at, NEW to \in Labels, Read(p, at, to),
           Stopped /\ at \notin CommitLabels => to \notin CommitLabels,
           to # "idle" => Ready(db, to, loc[p]) /\ Earned(db, world, to, loc[p])
    PROVE  StepOK
  <1>1. db \in Rows /\ Keeps(db, world) /\ Sound(db, world)
    BY DEF Inv, TypeOK, Keeps, Stopped, Rows, World
  <1> QED
    BY <1>1, StatementPreserves DEF Read

LEMMA ExternalPreserves ==
    ASSUME Inv, NEW p \in Procs, NEW at, NEW to \in Labels, NEW w \in World,
           External(p, at, w, to), Keeps(db, w), Sound(db, w), Once(w), Quiet(p, w, to),
           to # "idle" => Ready(db, to, loc[p]) /\ Earned(db, w, to, loc[p])
    PROVE  StepOK
  <1>1. db \in Rows /\ faults' \in Nat
    BY DEF Inv, TypeOK, External
  <1> QED
    BY <1>1, ResumePreserves DEF External

LEMMA BeginPreserves ==
    ASSUME Inv, NEW p \in Procs, NEW to \in Labels, NEW r \in Rows, NEW work \in Work,
           Begin(p, r, to, work), Keeps(r, world), Sound(r, world), to \notin CommitLabels,
           Ready(r, to, work), Earned(r, world, to, work)
    PROVE  StepOK
  <1>1. world \in World /\ faults' \in Nat /\ Once(world) /\ Quiet(p, world, to)
    BY DEF Inv, TypeOK, Begin, Quiet
  <1> QED
    BY <1>1, StepPreserves DEF Begin

------------------------------------------------------------------------------
(* Rows that a statement may write whatever its request has earned.         *)
Harmless(r) == r \in Rows /\ Keeps(r, world) /\ Sound(r, world)

LEMMA Unchanged == Inv => Harmless(db)
  BY DEF Harmless, Inv, TypeOK, Keeps, Stopped, Rows, World

\* Rows are harmless if what the invariant reads of them is as it was, or weaker.
LEMMA RowsHarmless ==
    ASSUME Inv, NEW r \in Rows,
           r.checkpoint = db.checkpoint, r.providerId = db.providerId,
           r.reply = db.reply, r.booking = db.booking,
           \A v \in Versions : /\ db.approval[v] # "none" => r.approval[v] # "none"
                               /\ r.message[v] = "SENT" => db.message[v] = "SENT"
                               /\ r.crm[v] = "COMPLETED" => db.crm[v] = "COMPLETED",
           r.sequence = db.sequence \/ (~Stopped /\ r.sequence \notin STOP_STATUSES)
    PROVE  Harmless(r)
  <1>1. Keeps(r, world)
    BY DEF Keeps, Inv, TypeOK, Rows, World, Stopped
  <1>2. Caused(r)
    BY DEF Inv, Sound, Caused, STOP_STATUSES
  <1>3. Sound(r, world)
    BY <1>2 DEF Inv, Sound, Whole
  <1> QED
    BY <1>1, <1>3 DEF Harmless

LEMMA DraftWritten ==
    ASSUME Inv, NEW v, NEW s \in {"AWAITING_APPROVAL", "APPROVED", "SUPERSEDED", "SENT", "REJECTED"}
    PROVE  Harmless([db EXCEPT !.draft[v] = s])
  <1>1. [db EXCEPT !.draft[v] = s] \in Rows
    BY DEF Inv, TypeOK, Rows
  <1> QED
    BY <1>1, RowsHarmless DEF Inv, TypeOK, Rows

LEMMA DraftCreated ==
    ASSUME Inv, NEW v, NEW k \in Purposes
    PROVE  Harmless([db EXCEPT !.draft[v] = "AWAITING_APPROVAL", !.purpose[v] = k])
  <1>1. [db EXCEPT !.draft[v] = "AWAITING_APPROVAL", !.purpose[v] = k] \in Rows
    BY DEF Inv, TypeOK, Rows
  <1> QED
    BY <1>1, RowsHarmless DEF Inv, TypeOK, Rows

LEMMA SequenceWritten ==
    ASSUME Inv, NEW s \in {"AWAITING_APPROVAL", "APPROVED", "ACTIVE"}
    PROVE  Harmless([db EXCEPT !.sequence = UnlessStopped(s)])
  <1>1. [db EXCEPT !.sequence = UnlessStopped(s)] \in Rows
    BY DEF Inv, TypeOK, Rows, UnlessStopped
  <1> QED
    BY <1>1, RowsHarmless DEF Inv, TypeOK, Rows, UnlessStopped, STOP_STATUSES

LEMMA ApprovalWritten ==
    ASSUME Inv, NEW v \in Versions, NEW s \in {"none", "ACTIVE", "REVOKED"},
           s = "none" => db.approval[v] = "none"
    PROVE  Harmless([db EXCEPT !.approval[v] = s])
  <1>1. [db EXCEPT !.approval[v] = s] \in Rows
    BY DEF Inv, TypeOK, Rows
  <1> QED
    BY <1>1, RowsHarmless DEF Inv, TypeOK, Rows

LEMMA ApprovalRevoked ==
    ASSUME Inv, NEW v \in Versions
    PROVE  Harmless([db EXCEPT !.approval[v] = Revoke(v)])
  <1>1. /\ Revoke(v) \in {"none", "ACTIVE", "REVOKED"}
        /\ Revoke(v) = "none" => db.approval[v] = "none"
    BY DEF Revoke, Inv, TypeOK, Rows
  <1> QED
    BY <1>1, ApprovalWritten

LEMMA AttemptWritten ==
    ASSUME Inv, NEW v, NEW s \in {"QUEUED", "SENDING", "FAILED"}
    PROVE  Harmless([db EXCEPT !.message[v] = s])
  <1>1. [db EXCEPT !.message[v] = s] \in Rows
    BY DEF Inv, TypeOK, Rows
  <1> QED
    BY <1>1, RowsHarmless DEF Inv, TypeOK, Rows

LEMMA FailureWritten ==
    ASSUME Inv, NEW v
    PROVE  Harmless(MarkFailed(v))
  <1>1. MarkFailed(v) \in Rows
    BY DEF Inv, TypeOK, Rows, MarkFailed
  <1> QED
    BY <1>1, RowsHarmless DEF Inv, TypeOK, Rows, MarkFailed

LEMMA SyncFailureWritten ==
    ASSUME Inv, NEW v
    PROVE  Harmless([db EXCEPT !.crm[v] = "FAILED"])
  <1>1. [db EXCEPT !.crm[v] = "FAILED"] \in Rows
    BY DEF Inv, TypeOK, Rows
  <1> QED
    BY <1>1, RowsHarmless DEF Inv, TypeOK, Rows

------------------------------------------------------------------------------
(* Statements of a request that works on a draft.                           *)
EarnedLabels == GatedLabels \union
    {"send_record", "sync_note", "sync_create", "sync_record", "sync_link", "sync_done"}

LEMMA Working ==
    ASSUME Inv, NEW p \in Procs
    PROVE  /\ Ready(db, pc[p], loc[p])
           /\ Earned(db, world, pc[p], loc[p])
           /\ pc[p] \in DraftWork => Ver(p) \in Versions
  BY DEF Inv, Ready, Ver

\* The next statement is one for which nothing has to be earned.
LEMMA WriteAndGoOn ==
    ASSUME Inv, NEW p \in Procs, NEW at \in DraftWork, NEW r,
           NEW to \in (DraftWork \ (EarnedLabels \union Drafting)) \union {"idle"},
           Statement(p, at, r, to), Harmless(r)
    PROVE  StepOK
  <1>1. to \in Labels /\ to \notin CommitLabels
    BY DEF Labels, EarnedLabels
  <1>2. Ready(r, to, loc[p]) /\ Earned(r, world, to, loc[p])
    BY Working DEF Statement, Ready, Earned, EarnedLabels, Ver
  <1> QED
    BY <1>1, <1>2, StatementPreserves DEF Harmless

LEMMA DecideStep ==
    ASSUME Inv, NEW p \in Procs, Decide(p)
    PROVE  StepOK
  <1>0. pc[p] \in DraftWork => Ver(p) \in Versions
    BY Working
  <1>1. CASE ApproveGrant(p)
    <2>1. Harmless([db EXCEPT !.approval[Ver(p)] = "ACTIVE"])
      BY <1>0, <1>1, ApprovalWritten DEF ApproveGrant, Statement
    <2> QED
      BY <1>1, <2>1, WriteAndGoOn DEF ApproveGrant, EarnedLabels
  <1>2. CASE ApproveDraft(p)
    <2>1. Harmless([db EXCEPT !.draft[Ver(p)] = "APPROVED"])
      BY DraftWritten
    <2> QED
      BY <1>2, <2>1, WriteAndGoOn DEF ApproveDraft, EarnedLabels
  <1>3. CASE ApproveSequence(p)
    <2>1. Harmless([db EXCEPT !.sequence = UnlessStopped("APPROVED")])
      BY SequenceWritten
    <2> QED
      BY <1>3, <2>1, WriteAndGoOn DEF ApproveSequence, EarnedLabels
  <1>4. CASE RevokeDraft(p)
    <2>1. Harmless([db EXCEPT !.draft[Ver(p)] = "AWAITING_APPROVAL"])
      BY DraftWritten
    <2> QED
      BY <1>4, <2>1, WriteAndGoOn DEF RevokeDraft, EarnedLabels
  <1>5. CASE RejectRevoke(p)
    <2>1. Harmless([db EXCEPT !.approval[Ver(p)] = Revoke(Ver(p))])
      BY <1>0, <1>5, ApprovalRevoked DEF RejectRevoke, Statement
    <2> QED
      BY <1>5, <2>1, WriteAndGoOn DEF RejectRevoke, EarnedLabels
  <1>6. CASE RejectDraft(p)
    <2>1. Harmless([db EXCEPT !.draft[Ver(p)] = "REJECTED"])
      BY DraftWritten
    <2> QED
      BY <1>6, <2>1, WriteAndGoOn DEF RejectDraft, EarnedLabels
  <1> QED
    BY <1>1, <1>2, <1>3, <1>4, <1>5, <1>6 DEF Decide

------------------------------------------------------------------------------
(* Statements of createDraft.                                               *)
\* The next statement has earned nothing and the request has new locals.
LEMMA MoveOn ==
    ASSUME Inv, NEW p \in Procs, NEW r, Harmless(r), NEW work \in Work,
           NEW to \in Labels \ (EarnedLabels \union MeetingWork \union {"reply_stop"}),
           db' = r, pc' = [pc EXCEPT ![p] = to], loc' = [loc EXCEPT ![p] = work],
           UNCHANGED <<world, faults, restarts>>, Ready(r, to, work)
    PROVE  StepOK
  <1>1. world \in World /\ faults' \in Nat /\ Once(world) /\ Quiet(p, world, to)
    BY DEF Inv, TypeOK, Quiet, EarnedLabels
  <1>2. Earned(r, world, to, work)
    BY DEF Earned, EarnedLabels
  <1> QED
    BY <1>1, <1>2, StepPreserves DEF Harmless

\* The request ends or drops without having written anything.
LEMMA GiveUp ==
    ASSUME Inv, NEW p \in Procs, Resume(p, "idle"), UNCHANGED <<db, world, restarts>>,
           faults' \in Nat
    PROVE  StepOK
  <1>1. Harmless(db) /\ world \in World /\ Once(world) /\ Quiet(p, world, "idle")
    BY Unchanged DEF Inv, TypeOK, Quiet
  <1> QED
    BY <1>1, ResumePreserves DEF Harmless, Labels

LEMMA DraftStep ==
    ASSUME Inv, NEW p \in Procs, Draft(p)
    PROVE  StepOK
  <1>0. /\ loc[p] \in Work
        /\ Harmless(db)
        /\ pc[p] \in DraftWork => Ver(p) \in Versions
        /\ pc[p] \in Drafting => loc[p].kind \in Purposes
    BY Working, Unchanged DEF Inv, TypeOK, Ready
  <1>1. CASE DraftForReply(p)
    <2>1. PICK to \in {"idle", "draft_booking", "draft_prior"} : Read(p, "draft_gate", to)
      BY <1>1 DEF DraftForReply, AfterGate
    <2>2. to \in Labels /\ to \notin CommitLabels
      BY DEF Labels
    <2>3. Ready(db, to, loc[p]) /\ Earned(db, world, to, loc[p])
      BY <1>0, <2>1 DEF Ready, Earned, Read, Statement
    <2> QED
      BY <2>1, <2>2, <2>3, ReadPreserves
  <1>2. CASE DraftBooking(p)
    <2>1. CASE Read(p, "draft_booking", "idle")
      BY <2>1, GiveUp DEF Read, Statement, Inv, TypeOK
    <2>2. CASE Statement(p, "draft_booking", [db EXCEPT !.booking = Append(@, "PROPOSED")], "draft_prior")
      <3> DEFINE r == [db EXCEPT !.booking = Append(@, "PROPOSED")]
      <3>0. Append(db.booking, "PROPOSED") \in Seq({"PROPOSED", "BOOKED"})
        BY DEF Inv, TypeOK, Rows
      <3>1. r \in Rows
        BY <3>0 DEF Inv, TypeOK, Rows
      <3>2. /\ Len(r.booking) = Len(db.booking) + 1
            /\ \A i \in 1 .. Len(db.booking) : r.booking[i] = db.booking[i]
        BY DEF Inv, TypeOK, Rows
      <3>3. /\ r.approval = db.approval /\ r.checkpoint = db.checkpoint /\ r.crm = db.crm
            /\ r.providerId = db.providerId /\ r.reply = db.reply /\ r.message = db.message
            /\ r.sequence = db.sequence /\ Len(db.booking) \in Nat
        BY DEF Inv, TypeOK, Rows
      <3> HIDE DEF r
      <3>4. Keeps(r, world)
        BY <3>1, <3>2, <3>3 DEF Keeps, Inv, TypeOK, Rows, World, Stopped
      <3>5. Sound(r, world)
        BY <3>2, <3>3 DEF Inv, Sound, Whole, Caused
      <3>6. Ready(r, "draft_prior", loc[p]) /\ Earned(r, world, "draft_prior", loc[p])
        BY <1>0, <2>2 DEF Ready, Earned, Statement
      <3>7. Statement(p, "draft_booking", r, "draft_prior")
        BY <2>2 DEF r
      <3> QED
        BY <3>1, <3>4, <3>5, <3>6, <3>7, StatementPreserves DEF Labels
    <2> QED
      BY <1>2, <2>1, <2>2 DEF DraftBooking
  <1>3. CASE DraftFindPrior(p)
    <2>1. PICK prior \in SUBSET Versions :
             /\ pc' = [pc EXCEPT ![p] = "draft_supersede"]
             /\ loc' = [loc EXCEPT ![p] = [loc[p] EXCEPT !.prior = prior]]
             /\ UNCHANGED <<db, world, faults, restarts>>
      BY <1>3 DEF DraftFindPrior
    <2> DEFINE work == [loc[p] EXCEPT !.prior = prior]
    <2>2. work \in Work /\ work.kind = loc[p].kind
      BY <1>0 DEF Work
    <2>3. Ready(db, "draft_supersede", work)
      BY <1>0, <1>3, <2>2 DEF Ready, DraftFindPrior
    <2> QED
      BY <1>0, <2>1, <2>2, <2>3, MoveOn DEF Labels, EarnedLabels
  <1>4. CASE DraftSupersede(p)
    <2>1. PICK v \in loc[p].prior :
             /\ db' = [db EXCEPT !.draft[v] = "SUPERSEDED"]
             /\ loc' = [loc EXCEPT ![p].v = v, ![p].prior = @ \ {v}]
      BY <1>4 DEF DraftSupersede
    <2> DEFINE work == [loc[p] EXCEPT !.v = v, !.prior = @ \ {v}]
    <2>2. /\ work \in Work /\ work.v \in Versions /\ work.kind = loc[p].kind
          /\ loc' = [loc EXCEPT ![p] = work]
      BY <1>0, <2>1 DEF Work, Versions, Inv, TypeOK
    <2>3. Harmless([db EXCEPT !.draft[v] = "SUPERSEDED"])
      BY DraftWritten
    <2>4. Ready([db EXCEPT !.draft[v] = "SUPERSEDED"], "draft_revoke", work)
      BY <1>0, <1>4, <2>2 DEF Ready, DraftSupersede
    <2> QED
      BY <1>4, <2>1, <2>2, <2>3, <2>4, MoveOn DEF DraftSupersede, Labels, EarnedLabels
  <1>5. CASE DraftRevokePrior(p)
    <2>1. Harmless([db EXCEPT !.approval[Ver(p)] = Revoke(Ver(p))])
      BY <1>0, <1>5, ApprovalRevoked DEF DraftRevokePrior, Statement
    <2>2. Ready([db EXCEPT !.approval[Ver(p)] = Revoke(Ver(p))], "draft_supersede", loc[p])
      BY <1>0, <1>5 DEF Ready, DraftRevokePrior, Statement
    <2>3. Earned([db EXCEPT !.approval[Ver(p)] = Revoke(Ver(p))], world, "draft_supersede", loc[p])
      BY DEF Earned
    <2> QED
      BY <1>5, <2>1, <2>2, <2>3, StatementPreserves DEF DraftRevokePrior, Harmless, Labels
  <1>6. CASE DraftVersion(p)
    <2>1. CASE Resume(p, "idle")
      BY <1>6, <2>1, GiveUp DEF DraftVersion, Inv, TypeOK
    <2>2. CASE ~Resume(p, "idle")
      <3>1. PICK n \in Versions : /\ pc' = [pc EXCEPT ![p] = "draft_create"]
                                  /\ loc' = [loc EXCEPT ![p].v = n]
        BY <1>6, <2>2 DEF DraftVersion
      <3> DEFINE work == [loc[p] EXCEPT !.v = n]
      <3>2. /\ work \in Work /\ work.v \in Versions /\ work.kind = loc[p].kind
            /\ loc' = [loc EXCEPT ![p] = work]
        BY <1>0, <3>1 DEF Work, Versions, Inv, TypeOK
      <3>3. Ready(db, "draft_create", work)
        BY <1>0, <1>6, <3>2 DEF Ready, DraftVersion
      <3> QED
        BY <1>0, <1>6, <3>1, <3>2, <3>3, MoveOn DEF DraftVersion, Labels, EarnedLabels
    <2> QED
      BY <2>1, <2>2
  <1>7. CASE DraftCreate(p)
    <2>1. CASE Read(p, "draft_create", "idle")
      BY <2>1, GiveUp DEF Read, Statement, Inv, TypeOK
    <2>2. CASE ~Read(p, "draft_create", "idle")
      <3> DEFINE r == [db EXCEPT !.draft[Ver(p)] = "AWAITING_APPROVAL", !.purpose[Ver(p)] = loc[p].kind]
      <3>1. Statement(p, "draft_create", r, "draft_sequence") /\ loc[p].kind \in Purposes
        BY <1>0, <1>7, <2>2 DEF DraftCreate
      <3>2. Harmless(r)
        BY <3>1, DraftCreated
      <3> HIDE DEF r
      <3>3. Ready(r, "draft_sequence", loc[p]) /\ Earned(r, world, "draft_sequence", loc[p])
        BY <1>0, <3>1 DEF Ready, Earned, Statement, Ver
      <3> QED
        BY <3>1, <3>2, <3>3, StatementPreserves DEF Harmless, Labels
    <2> QED
      BY <2>1, <2>2
  <1>8. CASE DraftSequence(p)
    <2> DEFINE r == [db EXCEPT !.sequence = UnlessStopped("AWAITING_APPROVAL")]
    <2>1. Harmless(r)
      BY SequenceWritten
    <2>2. pc[p] = "draft_sequence" /\ db' = r /\ UNCHANGED <<world, faults, restarts>>
      BY <1>8 DEF DraftSequence
    <2> HIDE DEF r
    <2>3. CASE Resume(p, "idle")
      <3>1. Statement(p, "draft_sequence", r, "idle")
        BY <2>2, <2>3 DEF Statement
      <3> QED
        BY <2>1, <3>1, WriteAndGoOn
    <2>4. CASE Event(p) # NoEvent /\ Resume(p, "reply_ack")
      <3>1. Statement(p, "draft_sequence", r, "reply_ack") /\ loc[p].e \in Events
        BY <1>0, <2>2, <2>4 DEF Statement, Event, Work
      <3>2. Ready(r, "reply_ack", loc[p]) /\ Earned(r, world, "reply_ack", loc[p])
        BY <1>0, <2>2, <3>1 DEF Ready, Earned
      <3> QED
        BY <2>1, <3>1, <3>2, StatementPreserves DEF Harmless, Labels
    <2>5. CASE /\ pc' = [pc EXCEPT ![p] = "draft_gate"]
               /\ loc' = [loc EXCEPT ![p] = Job("meeting", 0, Event(p))]
      <3>1. Job("meeting", 0, Event(p)) \in Work
        BY <1>0, PurposesAssumption DEF Job, Event, Work
      <3>2. Ready(r, "draft_gate", Job("meeting", 0, Event(p)))
        BY PurposesAssumption DEF Ready, Job
      <3> QED
        BY <2>1, <2>2, <2>5, <3>1, <3>2, MoveOn DEF Labels, EarnedLabels
    <2> QED
      BY <1>8, <2>3, <2>4, <2>5 DEF DraftSequence
  <1> QED
    BY <1>1, <1>2, <1>3, <1>4, <1>5, <1>6, <1>7, <1>8 DEF Draft

------------------------------------------------------------------------------
(* Statements of executeSend.                                               *)
\* From the gate to the provider, the approval that was seen goes along.
LEMMA GatedGoOn ==
    ASSUME Inv, NEW p \in Procs, NEW at \in GatedLabels, NEW to \in GatedLabels, NEW r,
           Statement(p, at, r, to), Harmless(r),
           Stopped /\ at \notin CommitLabels => to \notin CommitLabels
    PROVE  StepOK
  <1>1. /\ Ver(p) \in Versions
        /\ db.approval[Ver(p)] # "none"
    BY Working DEF Statement, Earned, Ver
  <1>2. r.approval[Ver(p)] # "none"
    BY <1>1 DEF Harmless, Keeps
  <1>3. Ready(r, to, loc[p]) /\ Earned(r, world, to, loc[p])
    BY <1>1, <1>2 DEF Ready, Earned, Ver
  <1> QED
    BY <1>3, StatementPreserves DEF Harmless, Labels

LEMMA HandOverKeeps ==
    ASSUME Inv, NEW v \in Versions, db.approval[v] # "none"
    PROVE  /\ HandOver(v) \in World
           /\ HandOver(v).outbox[v] > 0
           /\ Keeps(db, HandOver(v)) /\ Sound(db, HandOver(v)) /\ Once(HandOver(v))
  <1> DEFINE w == HandOver(v)
             n == IF v \in world.sentByKey THEN world.outbox[v] ELSE world.outbox[v] + 1
  <1>1. /\ world.outbox \in [Versions -> Nat] /\ world.notes \in [Versions -> Nat]
        /\ restarts \in Nat /\ db \in Rows /\ world.sentByKey \subseteq Versions
        /\ n \in Nat
    BY DEF Inv, TypeOK, World
  <1>2. /\ w = [world EXCEPT !.outbox = [world.outbox EXCEPT ![v] = n],
                             !.sentByKey = world.sentByKey \union {v}]
        /\ world \in World
    BY DEF HandOver, Inv, TypeOK
  <1> HIDE DEF w, n
  <1>3. w \in World
    BY <1>1, <1>2 DEF World
  <1>4. /\ w.notes = world.notes
        /\ \A u \in Versions \ {v} : w.outbox[u] = world.outbox[u]
        /\ w.sentByKey = world.sentByKey \union {v}
        /\ w.outbox[v] = n
    BY <1>1, <1>2 DEF World
  <1>5. /\ \A u \in Versions : w.outbox[u] >= world.outbox[u]
        /\ w.outbox[v] > 0
    BY <1>1, <1>4 DEF n, Inv, Once
  <1>6. Keeps(db, w)
    BY <1>1, <1>4, <1>5 DEF Keeps, Stopped, Rows
  <1>7. Sound(db, w)
    <2>1. \A u \in Versions : /\ w.outbox[u] > 0 => db.approval[u] # "none"
                              /\ u \in db.providerId => w.outbox[u] > 0
      BY <1>1, <1>4, <1>5 DEF Inv, Sound
    <2> QED
      BY <1>4, <2>1 DEF Inv, Sound
  <1>8. Once(w)
    BY <1>1, <1>4, <1>5 DEF n, Inv, Once
  <1> QED
    BY <1>3, <1>5, <1>6, <1>7, <1>8 DEF w

LEMMA RecordWritten ==
    ASSUME Inv, NEW v \in Versions, world.outbox[v] > 0
    PROVE  Harmless([db EXCEPT !.message[v] = "SENT", !.crm[v] = "PENDING",
                               !.providerId = @ \union {v}])
  <1> DEFINE r == [db EXCEPT !.message[v] = "SENT", !.crm[v] = "PENDING",
                             !.providerId = @ \union {v}]
  <1>1. r \in Rows
    BY DEF Inv, TypeOK, Rows
  <1>2. /\ r.checkpoint = db.checkpoint /\ r.approval = db.approval
        /\ r.reply = db.reply /\ r.booking = db.booking /\ r.sequence = db.sequence
        /\ r.providerId = db.providerId \union {v}
        /\ \A u \in Versions \ {v} : r.message[u] = db.message[u] /\ r.crm[u] = db.crm[u]
        /\ r.crm[v] = "PENDING"
    BY DEF Inv, TypeOK, Rows
  <1> HIDE DEF r
  <1>3. Keeps(r, world)
    BY <1>1, <1>2 DEF Keeps, Inv, TypeOK, Rows, World, Stopped
  <1>4. Sound(r, world)
    BY <1>1, <1>2 DEF Inv, Sound, Whole, Caused
  <1>5. Harmless(r)
    BY <1>1, <1>3, <1>4 DEF Harmless
  <1> QED
    BY <1>5 DEF r

LEMMA SendStep ==
    ASSUME Inv, NEW p \in Procs, Send(p)
    PROVE  StepOK
  <1>0. /\ Harmless(db)
        /\ pc[p] \in DraftWork => Ver(p) \in Versions
        /\ pc[p] \in GatedLabels => db.approval[Ver(p)] # "none"
        /\ pc[p] = "send_record" => world.outbox[Ver(p)] > 0
    BY Working, Unchanged DEF Earned, Ver
  <1>1. CASE SendGate(p)
    <2>1. CASE Read(p, "send_gate", "idle")
      BY <1>0, <2>1, WriteAndGoOn DEF Read
    <2>2. CASE HasActiveApproval(Ver(p)) /\ Read(p, "send_gate", "send_candidate")
      <3>1. Ready(db, "send_candidate", loc[p]) /\ Earned(db, world, "send_candidate", loc[p])
        BY <1>0, <2>2 DEF Ready, Earned, Read, Statement, HasActiveApproval, Ver
      <3> QED
        BY <2>2, <3>1, ReadPreserves DEF Labels
    <2> QED
      BY <1>1, <2>1, <2>2 DEF SendGate
  <1>2. CASE SendCandidate(p)
    <2>1. CASE Read(p, "send_candidate", "idle")
      BY <1>0, <2>1, WriteAndGoOn DEF Read
    <2>2. CASE Read(p, "send_candidate", "send_find")
      BY <1>0, <2>2, GatedGoOn DEF Read
    <2> QED
      BY <1>2, <2>1, <2>2 DEF SendCandidate
  <1>3. CASE SendFind(p)
    <2>1. CASE Read(p, "send_find", "idle")
      BY <1>0, <2>1, WriteAndGoOn DEF Read
    <2>2. CASE Read(p, "send_find", "send_create")
      BY <1>0, <2>2, GatedGoOn DEF Read
    <2>3. CASE Read(p, "send_find", "send_started")
      BY <1>0, <2>3, GatedGoOn DEF Read
    <2> QED
      BY <1>3, <2>1, <2>2, <2>3 DEF SendFind
  <1>4. CASE SendCreate(p)
    <2>1. CASE Read(p, "send_create", "idle")
      BY <1>0, <2>1, WriteAndGoOn DEF Read
    <2>2. CASE Statement(p, "send_create", [db EXCEPT !.message[Ver(p)] = "QUEUED"], "send_started")
      <3>1. Harmless([db EXCEPT !.message[Ver(p)] = "QUEUED"])
        BY AttemptWritten
      <3> QED
        BY <2>2, <3>1, GatedGoOn
    <2> QED
      BY <1>4, <2>1, <2>2 DEF SendCreate
  <1>5. CASE SendLive(p)
    <2>1. CASE Read(p, "send_live", "send_blocked")
      BY <1>0, <2>1, WriteAndGoOn DEF Read, EarnedLabels
    <2>2. CASE ~Stopped /\ Read(p, "send_live", "send_sending")
      BY <1>0, <2>2, GatedGoOn DEF Read
    <2> QED
      BY <1>5, <2>1, <2>2 DEF SendLive
  <1>6. CASE SendBlocked(p)
    <2>1. Harmless(MarkFailed(Ver(p)))
      BY FailureWritten
    <2> QED
      BY <1>6, <2>1, WriteAndGoOn DEF SendBlocked, EarnedLabels
  <1>7. CASE SendSending(p)
    <2>1. Harmless([db EXCEPT !.message[Ver(p)] = "SENDING"])
      BY AttemptWritten
    <2> QED
      BY <1>7, <2>1, GatedGoOn DEF SendSending
  <1>8. CASE SendProvider(p)
    <2>1. pc[p] = "send_provider" /\ External(p, "send_provider", HandOver(Ver(p)), "send_record")
      BY <1>8 DEF SendProvider, External
    <2>2. /\ HandOver(Ver(p)) \in World
          /\ HandOver(Ver(p)).outbox[Ver(p)] > 0
          /\ Keeps(db, HandOver(Ver(p))) /\ Sound(db, HandOver(Ver(p))) /\ Once(HandOver(Ver(p)))
      BY <1>0, <2>1, HandOverKeeps
    <2>3. /\ Ready(db, "send_record", loc[p])
          /\ Earned(db, HandOver(Ver(p)), "send_record", loc[p])
          /\ Quiet(p, HandOver(Ver(p)), "send_record")
      BY <1>0, <2>1, <2>2 DEF Ready, Earned, Quiet, Ver
    <2> QED
      BY <2>1, <2>2, <2>3, ExternalPreserves DEF Labels
  <1>9. CASE SendRefused(p)
    BY <1>0, <1>9, WriteAndGoOn DEF SendRefused, Read, EarnedLabels
  <1>10. CASE SendRecord(p)
    <2>1. Harmless([db EXCEPT !.message[Ver(p)] = "SENT", !.crm[Ver(p)] = "PENDING",
                              !.providerId = @ \union {Ver(p)}])
      BY <1>0, <1>10, RecordWritten DEF SendRecord, Statement
    <2> QED
      BY <1>10, <2>1, WriteAndGoOn DEF SendRecord, EarnedLabels
  <1>11. CASE SendDraft(p)
    <2>1. Harmless([db EXCEPT !.draft[Ver(p)] = "SENT"])
      BY DraftWritten
    <2> QED
      BY <1>11, <2>1, WriteAndGoOn DEF SendDraft, EarnedLabels
  <1>12. CASE SendActivate(p)
    <2>1. Harmless([db EXCEPT !.sequence = UnlessStopped("ACTIVE")])
      BY SequenceWritten
    <2> QED
      BY <1>12, <2>1, WriteAndGoOn DEF SendActivate, EarnedLabels
  <1>13. CASE SendAnswer(p)
    BY <1>0, <1>13, WriteAndGoOn DEF SendAnswer, Read
  <1>14. CASE SendCatch(p)
    <2>1. Harmless(MarkFailed(Ver(p)))
      BY FailureWritten
    <2> QED
      BY <1>14, <2>1, WriteAndGoOn DEF SendCatch
  <1>15. CASE SendStarted(p)
    BY <1>0, <1>15, GatedGoOn DEF SendStarted, Read
  <1>16. CASE SendAudit(p)
    BY <1>0, <1>16, WriteAndGoOn DEF SendAudit, Read, EarnedLabels
  <1> QED
    BY <1>1, <1>2, <1>3, <1>4, <1>5, <1>6, <1>7, <1>8, <1>9, <1>10, <1>11, <1>12, <1>13, <1>14,
       <1>15, <1>16
       DEF Send

------------------------------------------------------------------------------
(* Statements of syncCrmForMessage.                                         *)
LEMMA CheckpointWritten ==
    ASSUME Inv, NEW v \in Versions, NEW new \in SUBSET {"CREATE_NOTE", "LINK_NOTE_TO_PERSON"},
           "CREATE_NOTE" \in new => world.notes[v] > 0
    PROVE  Harmless([db EXCEPT !.checkpoint[v] = @ \union new])
  <1> DEFINE r == [db EXCEPT !.checkpoint[v] = @ \union new]
  <1>1. r \in Rows
    BY DEF Inv, TypeOK, Rows
  <1>2. /\ r.approval = db.approval /\ r.providerId = db.providerId /\ r.crm = db.crm
        /\ r.reply = db.reply /\ r.booking = db.booking /\ r.sequence = db.sequence
        /\ r.message = db.message
        /\ \A u \in Versions : db.checkpoint[u] \subseteq r.checkpoint[u]
        /\ \A u \in Versions : r.checkpoint[u] = db.checkpoint[u] \/ (u = v /\ r.checkpoint[u] = db.checkpoint[u] \union new)
    BY DEF Inv, TypeOK, Rows
  <1> HIDE DEF r
  <1>3. Keeps(r, world)
    BY <1>1, <1>2 DEF Keeps, Inv, TypeOK, Rows, World, Stopped
  <1>4. Caused(r)
    BY <1>2 DEF Inv, Sound, Caused
  <1>5. Sound(r, world)
    BY <1>2, <1>4 DEF Inv, Sound, Whole
  <1>6. Harmless(r)
    BY <1>1, <1>3, <1>5 DEF Harmless
  <1> QED
    BY <1>6 DEF r

LEMMA CompletionWritten ==
    ASSUME Inv, NEW v \in Versions, Whole(db, v)
    PROVE  Harmless([db EXCEPT !.crm[v] = "COMPLETED"])
  <1> DEFINE r == [db EXCEPT !.crm[v] = "COMPLETED"]
  <1>1. r \in Rows
    BY DEF Inv, TypeOK, Rows
  <1>2. /\ r.approval = db.approval /\ r.providerId = db.providerId
        /\ r.reply = db.reply /\ r.booking = db.booking /\ r.sequence = db.sequence
        /\ r.message = db.message /\ r.checkpoint = db.checkpoint
        /\ \A u \in Versions \ {v} : r.crm[u] = db.crm[u]
    BY DEF Inv, TypeOK, Rows
  <1> HIDE DEF r
  <1>3. Keeps(r, world)
    BY <1>1, <1>2 DEF Keeps, Inv, TypeOK, Rows, World, Stopped
  <1>4. Caused(r)
    BY <1>2 DEF Inv, Sound, Caused
  <1>5. Sound(r, world)
    BY <1>2, <1>4 DEF Inv, Sound, Whole
  <1>6. Harmless(r)
    BY <1>1, <1>3, <1>5 DEF Harmless
  <1> QED
    BY <1>6 DEF r

LEMMA NoteKeeps ==
    ASSUME Inv, NEW v \in db.providerId
    PROVE  LET w == [world EXCEPT !.notes[v] = @ + 1]
           IN  w \in World /\ w.notes[v] > 0 /\ w.outbox = world.outbox
               /\ Keeps(db, w) /\ Sound(db, w) /\ Once(w)
  <1> DEFINE w == [world EXCEPT !.notes[v] = @ + 1]
  <1>1. /\ world.outbox \in [Versions -> Nat] /\ world.notes \in [Versions -> Nat]
        /\ db \in Rows /\ v \in Versions /\ world \in World
    BY DEF Inv, TypeOK, World, Rows
  <1>2. w \in World
    BY <1>1 DEF World
  <1>3. /\ w.outbox = world.outbox /\ w.sentByKey = world.sentByKey
        /\ \A u \in Versions \ {v} : w.notes[u] = world.notes[u]
        /\ w.notes[v] = world.notes[v] + 1
    BY <1>1 DEF World
  <1> HIDE DEF w
  <1>4. Keeps(db, w)
    <2>1. \A u \in Versions : w.notes[u] >= world.notes[u] /\ w.outbox[u] >= world.outbox[u]
      BY <1>1, <1>3
    <2> QED
      BY <1>1, <2>1 DEF Keeps, Stopped, Rows
  <1>5. Sound(db, w)
    <2>1. \A u \in Versions : /\ w.notes[u] > 0 => u \in db.providerId
                              /\ "CREATE_NOTE" \in db.checkpoint[u] => w.notes[u] > 0
      BY <1>1, <1>3 DEF Inv, Sound
    <2> QED
      BY <1>3, <2>1 DEF Inv, Sound
  <1>6. Once(w)
    BY <1>3 DEF Inv, Once
  <1>7. w.notes[v] > 0
    BY <1>1, <1>3
  <1> QED
    BY <1>2, <1>3, <1>4, <1>5, <1>6, <1>7 DEF w

LEMMA SyncStep ==
    ASSUME Inv, NEW p \in Procs, Sync(p)
    PROVE  StepOK
  <1>0. /\ Harmless(db)
        /\ pc[p] \in DraftWork => Ver(p) \in Versions
        /\ pc[p] \in {"sync_note", "sync_create"} => Ver(p) \in db.providerId
        /\ pc[p] = "sync_record" => world.notes[Ver(p)] > 0
        /\ pc[p] = "sync_link" => "CREATE_NOTE" \in db.checkpoint[Ver(p)]
        /\ pc[p] = "sync_done" => Whole(db, Ver(p))
    BY Working, Unchanged DEF Earned, Ver
  <1>1. CASE SyncBegin(p)
    <2>1. CASE Read(p, "sync_begin", "idle")
      BY <1>0, <2>1, WriteAndGoOn DEF Read
    <2>2. CASE Read(p, "sync_begin", "sync_catch")
      BY <1>0, <2>2, WriteAndGoOn DEF Read, EarnedLabels
    <2>3. CASE IsSent(Ver(p)) /\ Read(p, "sync_begin", "sync_note")
      <3>1. Ver(p) \in Versions /\ Ver(p) \in db.providerId
        BY <1>0, <2>3 DEF Read, Statement, IsSent, Inv, Sound
      <3>2. Ready(db, "sync_note", loc[p]) /\ Earned(db, world, "sync_note", loc[p])
        BY <3>1 DEF Ready, Earned, Ver
      <3> QED
        BY <2>3, <3>2, ReadPreserves DEF Labels
    <2> QED
      BY <1>1, <2>1, <2>2, <2>3 DEF SyncBegin, SyncFails
  <1>2. CASE SyncNoteDone(p)
    <2>1. CASE "CREATE_NOTE" \in db.checkpoint[Ver(p)] /\ Read(p, "sync_note", "sync_link")
      <3>1. Ready(db, "sync_link", loc[p]) /\ Earned(db, world, "sync_link", loc[p])
        BY <1>0, <2>1 DEF Ready, Earned, Ver, Read, Statement
      <3> QED
        BY <2>1, <3>1, ReadPreserves DEF Labels
    <2>2. CASE Read(p, "sync_note", "sync_create")
      <3>1. Ready(db, "sync_create", loc[p]) /\ Earned(db, world, "sync_create", loc[p])
        BY <1>0, <2>2 DEF Ready, Earned, Ver, Read, Statement
      <3> QED
        BY <2>2, <3>1, ReadPreserves DEF Labels
    <2> QED
      BY <1>2, <2>1, <2>2 DEF SyncNoteDone
  <1>3. CASE SyncCreateNote(p)
    <2> DEFINE w == [world EXCEPT !.notes[Ver(p)] = @ + 1]
    <2>1. pc[p] = "sync_create" /\ External(p, "sync_create", w, "sync_record")
      BY <1>3 DEF SyncCreateNote, External
    <2>2. w \in World /\ w.notes[Ver(p)] > 0 /\ w.outbox = world.outbox
          /\ Keeps(db, w) /\ Sound(db, w) /\ Once(w)
      BY <1>0, <2>1, NoteKeeps
    <2> HIDE DEF w
    <2>3. /\ Ready(db, "sync_record", loc[p]) /\ Earned(db, w, "sync_record", loc[p])
          /\ Quiet(p, w, "sync_record")
      BY <1>0, <2>1, <2>2 DEF Ready, Earned, Quiet, Ver
    <2> QED
      BY <2>1, <2>2, <2>3, ExternalPreserves DEF Labels
  <1>4. CASE SyncRecord(p)
    <2> DEFINE r == [db EXCEPT !.checkpoint[Ver(p)] = @ \union {"CREATE_NOTE"}]
    <2>1. pc[p] = "sync_record" /\ Statement(p, "sync_record", r, "sync_link")
      BY <1>4 DEF SyncRecord, Statement
    <2>2. Harmless(r)
      BY <1>0, <2>1, CheckpointWritten
    <2>3. "CREATE_NOTE" \in r.checkpoint[Ver(p)]
      BY <1>0, <2>1 DEF Inv, TypeOK, Rows
    <2> HIDE DEF r
    <2>4. Ready(r, "sync_link", loc[p]) /\ Earned(r, world, "sync_link", loc[p])
      BY <1>0, <2>1, <2>3 DEF Ready, Earned, Ver
    <2> QED
      BY <2>1, <2>2, <2>4, StatementPreserves DEF Harmless, Labels
  <1>5. CASE SyncLink(p)
    <2> DEFINE new == IF HasTargetPerson THEN {"LINK_NOTE_TO_PERSON"} ELSE {}
               r == [db EXCEPT !.checkpoint[Ver(p)] = @ \union new]
    <2>1. /\ pc[p] = "sync_link" /\ Ver(p) \in Versions
          /\ "CREATE_NOTE" \in db.checkpoint[Ver(p)]
      BY <1>0, <1>5 DEF SyncLink, Statement
    <2>2. Statement(p, "sync_link", r, "sync_done")
      <3>1. CASE HasTargetPerson
        BY <1>5, <3>1 DEF SyncLink
      <3>2. CASE ~HasTargetPerson
        <4>1. db.checkpoint[Ver(p)] \union {} = db.checkpoint[Ver(p)]
          OBVIOUS
        <4> QED
          BY <1>5, <3>2, <4>1 DEF SyncLink
      <3> QED
        BY <3>1, <3>2
    <2>3. Harmless(r)
      BY <2>1, CheckpointWritten
    <2>4. r.checkpoint[Ver(p)] = db.checkpoint[Ver(p)] \union new
      BY <2>1 DEF Inv, TypeOK, Rows
    <2> HIDE DEF r
    <2>5. Whole(r, Ver(p))
      BY <2>1, <2>4 DEF Whole
    <2>6. Ready(r, "sync_done", loc[p]) /\ Earned(r, world, "sync_done", loc[p])
      BY <2>1, <2>5 DEF Ready, Earned, Ver
    <2> QED
      BY <2>2, <2>3, <2>6, StatementPreserves DEF Harmless, Labels
  <1>6. CASE SyncDone(p)
    <2>1. Harmless([db EXCEPT !.crm[Ver(p)] = "COMPLETED"])
      BY <1>0, <1>6, CompletionWritten DEF SyncDone, Statement
    <2> QED
      BY <1>6, <2>1, WriteAndGoOn DEF SyncDone, EarnedLabels
  <1>7. CASE SyncCatch(p)
    <2>1. Harmless([db EXCEPT !.crm[Ver(p)] = "FAILED"])
      BY SyncFailureWritten
    <2> QED
      BY <1>7, <2>1, WriteAndGoOn DEF SyncCatch, EarnedLabels
  <1>8. CASE SyncAudit(p)
    BY <1>0, <1>8, WriteAndGoOn DEF SyncAudit, Read, EarnedLabels
  <1> QED
    BY <1>1, <1>2, <1>3, <1>4, <1>5, <1>6, <1>7, <1>8 DEF Sync

------------------------------------------------------------------------------
(* Statements of ingestReply and confirmMeeting.                            *)
LEMMA InboundStep ==
    ASSUME Inv, NEW p \in Procs, Inbound(p)
    PROVE  StepOK
  <1>0. /\ loc[p] \in Work /\ Harmless(db)
        /\ Ready(db, pc[p], loc[p]) /\ Earned(db, world, pc[p], loc[p])
        /\ pc[p] \in ReplyWork => Event(p) \in Events
    BY Working, Unchanged DEF Inv, TypeOK, Ready, Event
  <1>1. CASE ReplyCreate(p)
    <2>1. CASE Read(p, "reply_create", "idle")
      BY <2>1, GiveUp DEF Read, Statement, Inv, TypeOK
    <2>2. CASE Statement(p, "reply_create", [db EXCEPT !.reply = @ \union {Event(p)}], "reply_stop")
      <3> DEFINE r == [db EXCEPT !.reply = @ \union {Event(p)}]
      <3>1. pc[p] = "reply_create" /\ Event(p) \in Events
        BY <1>0, <2>2 DEF Statement
      <3>2. r \in Rows
        BY <3>1 DEF Inv, TypeOK, Rows
      <3>3. /\ r.approval = db.approval /\ r.providerId = db.providerId /\ r.crm = db.crm
            /\ r.booking = db.booking /\ r.sequence = db.sequence
            /\ r.message = db.message /\ r.checkpoint = db.checkpoint
            /\ r.reply = db.reply \union {Event(p)}
        BY DEF Inv, TypeOK, Rows
      <3>4. Statement(p, "reply_create", r, "reply_stop")
        BY <2>2
      <3> HIDE DEF r
      <3>5. Keeps(r, world)
        BY <3>2, <3>3 DEF Keeps, Inv, TypeOK, Rows, World, Stopped
      <3>6. Sound(r, world)
        BY <3>3 DEF Inv, Sound, Whole, Caused
      <3>7. Ready(r, "reply_stop", loc[p]) /\ Earned(r, world, "reply_stop", loc[p])
        BY <1>0, <3>1, <3>3 DEF Ready, Earned, Event
      <3> QED
        BY <3>2, <3>4, <3>5, <3>6, <3>7, StatementPreserves DEF Labels
    <2> QED
      BY <1>1, <2>1, <2>2 DEF ReplyCreate
  <1>2. CASE ReplyStop(p)
    <2> DEFINE r == [db EXCEPT !.sequence = StopStatus(Event(p))]
    <2>1. /\ pc[p] = "reply_stop" /\ Event(p) \in Events /\ Event(p) \in db.reply
          /\ Statement(p, "reply_stop", r, "reply_adapt")
      BY <1>0, <1>2 DEF ReplyStop, Statement, Earned, Event
    <2>2. r \in Rows
      BY DEF Inv, TypeOK, Rows, StopStatus
    <2>3. /\ r.approval = db.approval /\ r.providerId = db.providerId /\ r.crm = db.crm
          /\ r.booking = db.booking /\ r.sequence = StopStatus(Event(p))
          /\ r.message = db.message /\ r.checkpoint = db.checkpoint /\ r.reply = db.reply
          /\ r.sequence \in {"REPLIED", "CANCELLED"}
      BY DEF Inv, TypeOK, Rows, StopStatus
    <2> HIDE DEF r
    <2>4. Keeps(r, world)
      BY <2>2, <2>3 DEF Keeps, Inv, TypeOK, Rows, World, Stopped, STOP_STATUSES
    <2>5. Sound(r, world)
      BY <2>1, <2>3 DEF Inv, Sound, Whole, Caused
    <2>6. Ready(r, "reply_adapt", loc[p]) /\ Earned(r, world, "reply_adapt", loc[p])
      BY <1>0, <2>1 DEF Ready, Earned
    <2> QED
      BY <2>1, <2>2, <2>4, <2>5, <2>6, StatementPreserves DEF Labels
  <1>3. CASE ReplyAdapt(p)
    <2>1. PICK to \in {"draft_gate", "reply_ack"} : Read(p, "reply_adapt", to)
      BY <1>3 DEF ReplyAdapt
    <2>2. Ready(db, to, loc[p]) /\ Earned(db, world, to, loc[p])
      BY <1>0, <2>1 DEF Ready, Earned, Read, Statement
    <2> QED
      BY <2>1, <2>2, ReadPreserves DEF Labels
  <1>4. CASE ReplyAck(p)
    <2> DEFINE w == [world EXCEPT !.acked = @ \union {Event(p)}]
    <2>1. External(p, "reply_ack", w, "idle") /\ Event(p) \in Events
      BY <1>0, <1>4 DEF ReplyAck, External
    <2>2. /\ w \in World /\ w.outbox = world.outbox /\ w.notes = world.notes
          /\ w.sentByKey = world.sentByKey
      BY <2>1 DEF Inv, TypeOK, World
    <2> HIDE DEF w
    <2>3. Keeps(db, w) /\ Sound(db, w) /\ Once(w) /\ Quiet(p, w, "idle")
      BY <1>0, <2>2 DEF Harmless, Keeps, Sound, Once, Quiet, Inv
    <2> QED
      BY <2>1, <2>2, <2>3, ExternalPreserves DEF Labels
  <1>5. CASE MeetingBook(p)
    <2> DEFINE r == [db EXCEPT !.booking[Ver(p)] = "BOOKED"]
    <2>1. /\ pc[p] = "meeting_book" /\ Ver(p) \in 1 .. Len(db.booking)
          /\ Statement(p, "meeting_book", r, "meeting_complete")
      BY <1>0, <1>5 DEF MeetingBook, Statement, Ready, Ver
    <2>2. /\ db.booking \in Seq({"PROPOSED", "BOOKED"}) /\ db \in Rows
          /\ [db.booking EXCEPT ![Ver(p)] = "BOOKED"] \in Seq({"PROPOSED", "BOOKED"})
          /\ Len([db.booking EXCEPT ![Ver(p)] = "BOOKED"]) = Len(db.booking)
      BY <2>1 DEF Inv, TypeOK, Rows
    <2>3. r \in Rows
      BY <2>2 DEF Rows
    <2>4. /\ r.approval = db.approval /\ r.providerId = db.providerId /\ r.crm = db.crm
          /\ r.booking = [db.booking EXCEPT ![Ver(p)] = "BOOKED"] /\ r.sequence = db.sequence
          /\ r.message = db.message /\ r.checkpoint = db.checkpoint /\ r.reply = db.reply
      BY <2>2 DEF Rows
    <2>5. /\ Len(r.booking) = Len(db.booking) /\ Len(db.booking) \in Nat
          /\ r.booking[Ver(p)] = "BOOKED"
          /\ \A i \in 1 .. Len(db.booking) : r.booking[i] = db.booking[i] \/ r.booking[i] = "BOOKED"
      BY <2>1, <2>2, <2>4
    <2> HIDE DEF r
    <2>6. Keeps(r, world)
      BY <2>3, <2>4, <2>5 DEF Keeps, Inv, TypeOK, Rows, World, Stopped
    <2>7. Sound(r, world)
      BY <2>4, <2>5 DEF Inv, Sound, Whole, Caused
    <2>8. Ready(r, "meeting_complete", loc[p]) /\ Earned(r, world, "meeting_complete", loc[p])
      BY <2>1, <2>5 DEF Ready, Earned, Ver
    <2> QED
      BY <2>1, <2>3, <2>6, <2>7, <2>8, StatementPreserves DEF Labels
  <1>6. CASE MeetingComplete(p)
    <2> DEFINE r == [db EXCEPT !.sequence = "COMPLETED"]
    <2>1. /\ Ver(p) \in 1 .. Len(db.booking) /\ db.booking[Ver(p)] = "BOOKED"
          /\ Statement(p, "meeting_complete", r, "idle")
      BY <1>0, <1>6 DEF MeetingComplete, Statement, Ready, Earned, Ver
    <2>2. r \in Rows
      BY DEF Inv, TypeOK, Rows
    <2>3. /\ r.approval = db.approval /\ r.providerId = db.providerId /\ r.crm = db.crm
          /\ r.booking = db.booking /\ r.sequence = "COMPLETED"
          /\ r.message = db.message /\ r.checkpoint = db.checkpoint /\ r.reply = db.reply
      BY DEF Inv, TypeOK, Rows
    <2> HIDE DEF r
    <2>4. Keeps(r, world)
      BY <2>2, <2>3 DEF Keeps, Inv, TypeOK, Rows, World, Stopped, STOP_STATUSES
    <2>5. Sound(r, world)
      BY <2>1, <2>3 DEF Inv, Sound, Whole, Caused
    <2> QED
      BY <2>1, <2>2, <2>4, <2>5, StatementPreserves DEF Labels
  <1> QED
    BY <1>1, <1>2, <1>3, <1>4, <1>5, <1>6 DEF Inbound

------------------------------------------------------------------------------
(* Requests, faults, restarts and the rest of the platform.                 *)
LEMMA RequestStep ==
    ASSUME Inv, NEW p \in Procs, Request(p)
    PROVE  StepOK
  <1>0. Harmless(db)
    BY Unchanged
  <1>1. ASSUME NEW kind \in Purposes, DraftRequest(p, kind)
        PROVE  StepOK
    <2>1. PICK to \in {"draft_booking", "draft_prior"} : Begin(p, db, to, Job(kind, 0, NoEvent))
      BY <1>1 DEF DraftRequest, AfterGate
    <2>2. /\ Job(kind, 0, NoEvent) \in Work
          /\ Ready(db, to, Job(kind, 0, NoEvent)) /\ Earned(db, world, to, Job(kind, 0, NoEvent))
      BY DEF Job, Work, Ready, Earned
    <2> QED
      BY <1>0, <2>1, <2>2, BeginPreserves DEF Harmless, Labels
  <1>2. ASSUME NEW v \in Versions, NEW kind \in {"approve", "revoke", "reject", "send", "crm"},
               NEW to \in DraftWork \ (EarnedLabels \union Drafting), NEW r, Harmless(r),
               Begin(p, r, to, Job(kind, v, NoEvent))
        PROVE  StepOK
    <2>1. Job(kind, v, NoEvent) \in Work
      BY DEF Job, Work, Versions
    <2>2. /\ Ready(r, to, Job(kind, v, NoEvent)) /\ Earned(r, world, to, Job(kind, v, NoEvent))
          /\ to \in Labels /\ to \notin CommitLabels
      BY DEF Ready, Earned, Job, EarnedLabels, Labels
    <2> QED
      BY <1>2, <2>1, <2>2, BeginPreserves DEF Harmless
  <1>3. ASSUME NEW v \in Versions, ApproveRequest(p, v)
        PROVE  StepOK
    BY <1>0, <1>2, <1>3 DEF ApproveRequest, EarnedLabels
  <1>4. ASSUME NEW v \in Versions, RevokeRequest(p, v)
        PROVE  StepOK
    <2>1. Harmless([db EXCEPT !.approval[v] = "REVOKED"])
      BY ApprovalWritten
    <2> QED
      BY <1>2, <1>4, <2>1 DEF RevokeRequest, EarnedLabels
  <1>5. ASSUME NEW v \in Versions, RejectRequest(p, v)
        PROVE  StepOK
    BY <1>0, <1>2, <1>5 DEF RejectRequest, EarnedLabels
  <1>6. ASSUME NEW v \in Versions, SendRequest(p, v)
        PROVE  StepOK
    BY <1>0, <1>2, <1>6 DEF SendRequest, EarnedLabels
  <1>7. ASSUME NEW v \in Versions, CrmRequest(p, v)
        PROVE  StepOK
    BY <1>0, <1>2, <1>7 DEF CrmRequest, EarnedLabels
  <1>8. ASSUME NEW e \in Events, ReplyRequest(p, e)
        PROVE  StepOK
    <2>1. /\ Job("reply", 0, e) \in Work /\ Ready(db, "reply_create", Job("reply", 0, e))
          /\ Earned(db, world, "reply_create", Job("reply", 0, e))
      BY PurposesAssumption DEF Job, Work, Ready, Earned
    <2> QED
      BY <1>0, <1>8, <2>1, BeginPreserves DEF ReplyRequest, Harmless, Labels
  <1>9. ASSUME MeetingRequest(p)
        PROVE  StepOK
    <2>1. db.booking \in Seq({"PROPOSED", "BOOKED"}) /\ db.booking # <<>>
      BY <1>9 DEF MeetingRequest, Inv, TypeOK, Rows
    <2>2. Len(db.booking) \in Nat /\ Len(db.booking) \in 1 .. Len(db.booking)
      BY <2>1
    <2>3. /\ Job("meeting", Len(db.booking), NoEvent) \in Work
          /\ Ready(db, "meeting_book", Job("meeting", Len(db.booking), NoEvent))
          /\ Earned(db, world, "meeting_book", Job("meeting", Len(db.booking), NoEvent))
      BY <2>2, PurposesAssumption DEF Job, Work, Ready, Earned
    <2> QED
      BY <1>0, <1>9, <2>3, BeginPreserves DEF MeetingRequest, Harmless, Labels
  <1> QED
    BY <1>1, <1>3, <1>4, <1>5, <1>6, <1>7, <1>8, <1>9 DEF Request

\* Steps outside the requests that leave e-mails, notes and what was earned alone.
LEMMA OutsidePreserves ==
    ASSUME Inv, NEW r, NEW w \in World, Harmless(r),
           db' = r, world' = w, UNCHANGED <<pc, loc, faults, restarts>>,
           w.outbox = world.outbox, w.notes = world.notes, w.sentByKey = world.sentByKey
    PROVE  StepOK
  <1>1. Keeps(r, w) /\ Sound(r, w) /\ Once(w) /\ r \in Rows
    BY DEF Inv, Harmless, Keeps, Sound, Once
  <1>2. TypeOK'
    BY <1>1 DEF Inv, TypeOK
  <1>3. Sound(db, world)' /\ Once(world)'
    BY <1>1 DEF Sound, Once, Caused, Whole, StopStatus
  <1>4. ASSUME NEW q \in Procs
        PROVE  Ready(db, pc[q], loc[q])' /\ Earned(db, world, pc[q], loc[q])'
    <2>1. loc[q] \in Work /\ Ready(db, pc[q], loc[q]) /\ Earned(db, world, pc[q], loc[q]) /\ TypeOK
      BY DEF Inv, TypeOK
    <2>2. Ready(r, pc[q], loc[q]) /\ Earned(r, w, pc[q], loc[q])
      BY <1>1, <2>1, EarnedKept
    <2> QED
      BY <2>2 DEF Ready, Earned, Whole
  <1>5. (Stopped => Stopped') /\ Committed' = Committed
    BY <1>1 DEF Keeps, Stopped, Committed
  <1> QED
    BY <1>2, <1>3, <1>4, <1>5 DEF Inv, StepOK

LEMMA ThrowStep ==
    ASSUME Inv, NEW p \in Procs, Throw(p)
    PROVE  StepOK
  <1>1. faults' \in Nat /\ UNCHANGED <<db, world, restarts>>
    BY DEF Throw, Inv, TypeOK
  <1>2. CASE Resume(p, "idle")
    BY <1>1, <1>2, GiveUp
  <1>3. CASE ~Resume(p, "idle")
    <2>1. PICK to \in {"send_catch", "sync_catch"} : Resume(p, to) /\ pc[p] \in DraftWork
      BY <1>3 DEF Throw, SyncFails
    <2>2. Harmless(db) /\ Ready(db, to, loc[p]) /\ Earned(db, world, to, loc[p])
      BY <2>1, Unchanged, Working DEF Ready, Earned, Ver
    <2>3. world \in World /\ Once(world) /\ Quiet(p, world, to)
      BY DEF Inv, TypeOK, Quiet
    <2> QED
      BY <1>1, <2>1, <2>2, <2>3, ResumePreserves DEF Harmless, Labels
  <1> QED
    BY <1>2, <1>3

LEMMA RestartStep ==
    ASSUME Inv, Restart
    PROVE  StepOK
  <1>1. /\ world' \in World /\ world'.outbox = world.outbox /\ world'.notes = world.notes
        /\ world'.sentByKey = {} /\ restarts' = restarts + 1 /\ restarts \in Nat
        /\ UNCHANGED <<db, faults>>
    BY DEF Restart, Inv, TypeOK, World
  <1>2. \A q \in Procs : pc'[q] = "idle"
    BY DEF Restart
  <1>3. TypeOK'
    BY <1>1, NoWorkTyped DEF Restart, Inv, TypeOK, Labels
  <1>4. Sound(db, world)'
    BY <1>1 DEF Inv, Sound, Caused, Whole, StopStatus
  <1>5. Once(world)'
    BY <1>1 DEF Inv, Once, TypeOK, World
  <1>6. \A q \in Procs : Ready(db, pc[q], loc[q])' /\ Earned(db, world, pc[q], loc[q])'
    BY <1>2 DEF Ready, Earned
  <1>7. (Stopped => Stopped') /\ Committed' = {} /\ world'.outbox = world.outbox
    BY <1>1, <1>2 DEF Stopped, Committed
  <1> QED
    BY <1>3, <1>4, <1>5, <1>6, <1>7 DEF Inv, StepOK

------------------------------------------------------------------------------
(* The invariant and what follows from it.                                  *)
LEMMA InitInv == Init => Inv
  <1> SUFFICES ASSUME Init PROVE Inv
    OBVIOUS
  <1>1. db \in Rows
    BY EmptySeq DEF Init, Rows
  <1>2. TypeOK
    BY <1>1, NoWorkTyped DEF Init, TypeOK, World, Labels
  <1>3. Sound(db, world) /\ Once(world)
    BY DEF Init, Sound, Caused, Once
  <1>4. \A p \in Procs : Ready(db, pc[p], loc[p]) /\ Earned(db, world, pc[p], loc[p])
    BY DEF Init, Ready, Earned
  <1> QED
    BY <1>2, <1>3, <1>4 DEF Inv

LEMMA NextStep == Inv /\ [Next]_vars => StepOK
  <1> SUFFICES ASSUME Inv, [Next]_vars PROVE StepOK
    OBVIOUS
  <1>1. ASSUME NEW p \in Procs, Request(p) PROVE StepOK
    BY <1>1, RequestStep
  <1>2. ASSUME NEW p \in Procs, Step(p) PROVE StepOK
    BY <1>2, DraftStep, DecideStep, SendStep, SyncStep, InboundStep DEF Step
  <1>3. ASSUME NEW p \in Procs, Throw(p) PROVE StepOK
    BY <1>3, ThrowStep
  <1>4. ASSUME NEW e \in Events, ReplyDuplicate(e) PROVE StepOK
    <2> DEFINE w == [world EXCEPT !.acked = @ \union {e}]
    <2>1. /\ w \in World /\ w.outbox = world.outbox /\ w.notes = world.notes
          /\ w.sentByKey = world.sentByKey
      BY DEF Inv, TypeOK, World
    <2>2. world' = w /\ db' = db /\ UNCHANGED <<pc, loc, faults, restarts>>
      BY <1>4 DEF ReplyDuplicate
    <2> HIDE DEF w
    <2> QED
      BY <2>1, <2>2, Unchanged, OutsidePreserves
  <1>5. CASE AgentPauseOrResume
    <2>1. [db EXCEPT !.paused = ~@] \in Rows
      BY DEF Inv, TypeOK, Rows
    <2>2. Harmless([db EXCEPT !.paused = ~@])
      BY <2>1, RowsHarmless DEF Inv, TypeOK, Rows
    <2> QED
      BY <1>5, <2>2, OutsidePreserves DEF AgentPauseOrResume, Inv, TypeOK
  <1>6. CASE CandidateMoves
    <2>1. [db EXCEPT !.researchable = ~@] \in Rows
      BY DEF Inv, TypeOK, Rows
    <2>2. Harmless([db EXCEPT !.researchable = ~@])
      BY <2>1, RowsHarmless DEF Inv, TypeOK, Rows
    <2> QED
      BY <1>6, <2>2, OutsidePreserves DEF CandidateMoves, Inv, TypeOK
  <1>7. CASE Restart
    BY <1>7, RestartStep
  <1>8. CASE UNCHANGED vars
    <2>1. Harmless(db) /\ world \in World
      BY Unchanged DEF Inv, TypeOK
    <2> QED
      BY <1>8, <2>1, OutsidePreserves DEF vars
  <1> QED
    BY <1>1, <1>2, <1>3, <1>4, <1>5, <1>6, <1>7, <1>8 DEF Next

\* The strengthened invariant holds in every state of every behaviour.
THEOREM Invariance == Spec => []Inv
  <1>1. Inv /\ [Next]_vars => Inv'
    BY NextStep DEF StepOK
  <1> QED
    BY <1>1, InitInv, PTL DEF Spec

\* Every row, local and counter keeps its type: the statuses ai-sdr.service.ts
\* writes are the ones schema.prisma lists.
THEOREM TypeCorrect == Spec => []TypeOK
  <1>1. Inv => TypeOK
    BY DEF Inv
  <1> QED
    BY <1>1, Invariance, PTL

\* Approval first: no interleaving, retry or restart sends a draft nobody approved.
THEOREM ApprovalFirst == Spec => []OnlyApprovedIsSent
  <1>1. Inv => OnlyApprovedIsSent
    BY DEF Inv, Sound, OnlyApprovedIsSent
  <1> QED
    BY <1>1, Invariance, PTL

\* The provider's memo makes the key effective for any number of concurrent sends.
THEOREM AtMostOncePerLife == Spec => []OneEmailPerProcessLife
  <1>1. Inv => OneEmailPerProcessLife
    BY DEF Inv, Once, TypeOK, World, OneEmailPerProcessLife
  <1> QED
    BY <1>1, Invariance, PTL

\* The CRM never holds a note about an e-mail that was not sent.
THEOREM NotesAreTrue == Spec => []NoteOnlyForSentEmail
  <1>1. Inv => NoteOnlyForSentEmail
    BY DEF Inv, Sound, NoteOnlyForSentEmail
  <1> QED
    BY <1>1, Invariance, PTL

\* A CRM sync that is recorded as completed did all of its steps.
THEOREM CompletionIsWhole == Spec => []CompletedSyncIsWhole
  <1>1. Inv => CompletedSyncIsWhole
    BY DEF Inv, Sound, Whole, CompletedSyncIsWhole
  <1> QED
    BY <1>1, Invariance, PTL

\* A sequence stops only because of a reply on record or a booked meeting.
THEOREM StopIsCaused == Spec => []StopHasCause
  <1>1. Inv => StopHasCause
    BY DEF Inv, Sound, Caused, StopHasCause
  <1> QED
    BY <1>1, Invariance, PTL

\* No late write of a draft, an approval or a send reopens a stopped sequence.
THEOREM StopsAreFinal == Spec => StopIsFinal
  <1>1. Inv /\ [Next]_vars => [Stopped => Stopped']_vars
    BY NextStep DEF StepOK
  <1> QED
    BY <1>1, Invariance, PTL DEF Spec, StopIsFinal

\* After a stop only the sends that had passed the live check may still deliver.
THEOREM StopsSending == Spec => NoSendAfterStop
  <1>1. Inv /\ [Next]_vars =>
          [Stopped /\ Committed = {} => world'.outbox = world.outbox /\ Committed' = {}]_vars
    BY NextStep DEF StepOK
  <1> QED
    BY <1>1, Invariance, PTL DEF Spec, NoSendAfterStop
------------------------------------------------------------------------------
(***************************************************************************)
(* AiSdr implements OutreachContract, for every number of requests, drafts, *)
(* events, faults and restarts.  Most statements change nothing the         *)
(* contract sees (Silent); the others approve, commit, hand over, abandon   *)
(* or stop.  What they need besides their own guards is in the invariant:   *)
(* a request past the gate works on a draft somebody approved, and a key    *)
(* the provider remembers belongs to an e-mail that left.                   *)
(***************************************************************************)
\* Rows r show the contract what the rows of this state show it.
Alike(r) ==
    /\ \A v \in Versions : r.approval[v] = "none" <=> db.approval[v] = "none"
    /\ r.sequence \in STOP_STATUSES <=> Stopped

\* p alone moves, and stays clear of the labels between the live check and the provider.
Aside(p) ==
    /\ pc[p] \notin CommitLabels /\ pc'[p] \notin CommitLabels
    /\ \A q \in Procs \ {p} : pc'[q] = pc[q] /\ loc'[q] = loc[q]

Silent(p) == Aside(p) /\ Alike(db') /\ world'.outbox = world.outbox

ContractStep == Contract!Next \/ UNCHANGED Contract!vars

\* The contract's view of the requests is left alone if no committed one moves.
LEMMA SameCommitted ==
    ASSUME NEW p \in Procs, Aside(p)
    PROVE  [q \in Procs |-> IF q \in Committed THEN loc[q].v ELSE 0]' =
           [q \in Procs |-> IF q \in Committed THEN loc[q].v ELSE 0]
  BY DEF Aside, Committed

LEMMA SilentStutters ==
    ASSUME NEW p \in Procs, Silent(p)
    PROVE  UNCHANGED Contract!vars
  <1>1. {v \in Versions : db.approval[v] # "none"}' = {v \in Versions : db.approval[v] # "none"}
    BY DEF Silent, Alike
  <1>2. {v \in Versions : world.outbox[v] > 0}' = {v \in Versions : world.outbox[v] > 0}
    BY DEF Silent
  <1>3. Stopped' = Stopped
    BY DEF Silent, Alike, Stopped
  <1> QED
    BY <1>1, <1>2, <1>3, SameCommitted DEF Silent, Contract!vars

------------------------------------------------------------------------------
(* The forms of a step that are silent.                                     *)
LEMMA StatementSilent ==
    ASSUME Inv, NEW p \in Procs, NEW at, NEW to, NEW r,
           at \notin CommitLabels, to \notin CommitLabels,
           Statement(p, at, r, to), Alike(r)
    PROVE  Silent(p)
  BY NoWorkTyped DEF Inv, TypeOK, Statement, Resume, Silent, Aside, Alike

LEMMA ReadSilent ==
    ASSUME Inv, NEW p \in Procs, NEW at, NEW to,
           at \notin CommitLabels, to \notin CommitLabels, Read(p, at, to)
    PROVE  Silent(p)
  <1>1. Alike(db)
    BY DEF Alike, Stopped
  <1> QED
    BY <1>1, StatementSilent DEF Read

LEMMA BeginSilent ==
    ASSUME Inv, NEW p \in Procs, NEW r, NEW to, NEW work, to \notin CommitLabels,
           Begin(p, r, to, work), Alike(r)
    PROVE  Silent(p)
  BY DEF Inv, TypeOK, Begin, Silent, Aside, Alike

\* A call outside the database that leaves the e-mails alone.
LEMMA ExternalSilent ==
    ASSUME Inv, NEW p \in Procs, NEW at, NEW to, NEW w,
           at \notin CommitLabels, to \notin CommitLabels,
           External(p, at, w, to), w.outbox = world.outbox
    PROVE  Silent(p)
  <1>1. Alike(db)
    BY DEF Alike, Stopped
  <1> QED
    BY <1>1, NoWorkTyped DEF Inv, TypeOK, External, Resume, Silent, Aside, Alike

------------------------------------------------------------------------------
(* The rows that statements write and the contract does not see.            *)
LEMMA RowsAlike ==
    ASSUME Inv
    PROVE  /\ Alike(db)
           /\ \A v, s : Alike([db EXCEPT !.draft[v] = s])
           /\ \A v, s, k : Alike([db EXCEPT !.draft[v] = s, !.purpose[v] = k])
           /\ \A v, s : Alike([db EXCEPT !.message[v] = s])
           /\ \A v : Alike(MarkFailed(v))
           /\ \A v, s : Alike([db EXCEPT !.crm[v] = s])
           /\ \A v, s : Alike([db EXCEPT !.checkpoint[v] = s])
           /\ \A v, s, c, i : Alike([db EXCEPT !.message[v] = s, !.crm[v] = c, !.providerId = i])
           /\ \A b : Alike([db EXCEPT !.booking = b])
           /\ \A b : Alike([db EXCEPT !.reply = b])
  BY DEF Inv, TypeOK, Rows, Alike, Stopped, MarkFailed

LEMMA SequenceAlike ==
    ASSUME Inv, NEW s \in {"AWAITING_APPROVAL", "APPROVED", "ACTIVE"}
    PROVE  Alike([db EXCEPT !.sequence = UnlessStopped(s)])
  BY DEF Inv, TypeOK, Rows, Alike, Stopped, UnlessStopped, STOP_STATUSES

LEMMA RevokeAlike ==
    ASSUME Inv, NEW v \in Versions
    PROVE  Alike([db EXCEPT !.approval[v] = Revoke(v)])
  BY DEF Inv, TypeOK, Rows, Alike, Stopped, Revoke

------------------------------------------------------------------------------
(* The steps of the requests.                                               *)
LEMMA DraftSilent ==
    ASSUME Inv, NEW p \in Procs, Draft(p)
    PROVE  Silent(p)
  <1>0. /\ pc[p] \in DraftWork => Ver(p) \in Versions
        /\ loc[p] \in Work
    BY Working DEF Inv, TypeOK
  <1>1. CASE DraftForReply(p)
    <2>1. PICK to \in {"idle", "draft_booking", "draft_prior"} : Read(p, "draft_gate", to)
      BY <1>1 DEF DraftForReply, AfterGate
    <2> QED
      BY <2>1, ReadSilent
  <1>2. CASE DraftBooking(p)
    BY <1>2, ReadSilent, StatementSilent, RowsAlike DEF DraftBooking
  <1>3. CASE DraftFindPrior(p)
    BY <1>3, RowsAlike DEF DraftFindPrior, Inv, TypeOK, Silent, Aside
  <1>4. CASE DraftSupersede(p)
    <2>1. PICK v \in loc[p].prior :
             /\ db' = [db EXCEPT !.draft[v] = "SUPERSEDED"]
             /\ loc' = [loc EXCEPT ![p].v = v, ![p].prior = @ \ {v}]
      BY <1>4 DEF DraftSupersede
    <2>2. Alike(db')
      BY <2>1, RowsAlike
    <2> QED
      BY <1>4, <2>1, <2>2 DEF DraftSupersede, Inv, TypeOK, Silent, Aside
  <1>5. CASE DraftRevokePrior(p)
    BY <1>0, <1>5, RevokeAlike, StatementSilent DEF DraftRevokePrior, Statement
  <1>6. CASE DraftVersion(p)
    BY <1>6, RowsAlike DEF DraftVersion, Resume, Inv, TypeOK, Silent, Aside
  <1>7. CASE DraftCreate(p)
    BY <1>7, ReadSilent, StatementSilent, RowsAlike DEF DraftCreate
  <1>8. CASE DraftSequence(p)
    <2>1. Alike(db')
      BY <1>8, SequenceAlike DEF DraftSequence
    <2> QED
      BY <1>8, <2>1 DEF DraftSequence, Resume, Inv, TypeOK, Silent, Aside
  <1> QED
    BY <1>1, <1>2, <1>3, <1>4, <1>5, <1>6, <1>7, <1>8 DEF Draft

\* Granting an approval is the contract's Approve, the other decisions are silent.
LEMMA DecideImplements ==
    ASSUME Inv, NEW p \in Procs, Decide(p)
    PROVE  ContractStep
  <1>0. pc[p] \in DraftWork => Ver(p) \in Versions
    BY Working
  <1>1. CASE ApproveGrant(p)
    <2>1. Aside(p)
      BY <1>1 DEF ApproveGrant, Statement, Resume, Inv, TypeOK, Aside
    <2>2. PICK v \in Versions : v = Ver(p)
      BY <1>0, <1>1 DEF ApproveGrant, Statement
    <2>3. {u \in Versions : db.approval[u] # "none"}' =
          {u \in Versions : db.approval[u] # "none"} \union {v}
      BY <1>1, <2>2 DEF ApproveGrant, Statement, Inv, TypeOK, Rows
    <2>4. Stopped' = Stopped /\ world' = world
      BY <1>1 DEF ApproveGrant, Statement, Inv, TypeOK, Rows, Stopped
    <2>5. Contract!Approve(v)
      BY <2>1, <2>3, <2>4, SameCommitted DEF Contract!Approve
    <2> QED
      BY <2>5 DEF Contract!Next, ContractStep
  <1>2. ASSUME \/ ApproveDraft(p) \/ ApproveSequence(p) \/ RevokeDraft(p)
               \/ RejectRevoke(p) \/ RejectDraft(p)
        PROVE  Silent(p)
    <2>1. CASE ApproveDraft(p) \/ RevokeDraft(p) \/ RejectDraft(p)
      BY <2>1, RowsAlike, StatementSilent DEF ApproveDraft, RevokeDraft, RejectDraft
    <2>2. CASE ApproveSequence(p)
      BY <2>2, SequenceAlike, StatementSilent DEF ApproveSequence
    <2>3. CASE RejectRevoke(p)
      BY <1>0, <2>3, RevokeAlike, StatementSilent DEF RejectRevoke, Statement
    <2> QED
      BY <1>2, <2>1, <2>2, <2>3
  <1> QED
    BY <1>1, <1>2, SilentStutters DEF Decide, ContractStep

LEMMA SyncSilent ==
    ASSUME Inv, NEW p \in Procs, Sync(p)
    PROVE  Silent(p)
  <1>1. CASE SyncBegin(p) \/ SyncNoteDone(p) \/ SyncAudit(p)
    <2>1. PICK at \in InnerTry, to \in InnerTry \union {"idle", "sync_catch", "send_answer"} :
             Read(p, at, to)
      BY <1>1 DEF SyncBegin, SyncNoteDone, SyncAudit, SyncFails
    <2> QED
      BY <2>1, ReadSilent
  <1>2. CASE SyncCreateNote(p)
    <2>1. [world EXCEPT !.notes[Ver(p)] = @ + 1].outbox = world.outbox
      BY DEF Inv, TypeOK, World
    <2> QED
      BY <1>2, <2>1, ExternalSilent DEF SyncCreateNote
  <1>3. CASE SyncRecord(p)
    <2>1. Alike([db EXCEPT !.checkpoint[Ver(p)] = @ \union {"CREATE_NOTE"}])
      BY DEF Inv, TypeOK, Rows, Alike, Stopped
    <2> QED
      BY <1>3, <2>1, StatementSilent DEF SyncRecord
  <1>4. CASE SyncLink(p)
    <2> DEFINE r == [db EXCEPT !.checkpoint[Ver(p)] =
                        IF HasTargetPerson THEN @ \union {"LINK_NOTE_TO_PERSON"} ELSE @]
    <2>1. Alike(r)
      BY DEF Inv, TypeOK, Rows, Alike, Stopped
    <2>2. Statement(p, "sync_link", r, "sync_done")
      BY <1>4 DEF SyncLink
    <2> QED
      BY <2>1, <2>2, StatementSilent
  <1>5. CASE SyncDone(p) \/ SyncCatch(p)
    BY <1>5, RowsAlike, StatementSilent DEF SyncDone, SyncCatch
  <1> QED
    BY <1>1, <1>2, <1>3, <1>4, <1>5 DEF Sync

------------------------------------------------------------------------------
(* Sends.                                                                   *)
\* The second read of the sequence commits the request, or blocks it.
LEMMA LiveImplements ==
    ASSUME Inv, NEW p \in Procs, SendLive(p)
    PROVE  ContractStep
  <1>1. CASE Stopped
    BY <1>1, ReadSilent, SilentStutters DEF SendLive, ContractStep
  <1>2. CASE ~Stopped
    <2>1. /\ pc[p] = "send_live" /\ pc' = [pc EXCEPT ![p] = "send_sending"]
          /\ db' = db /\ world' = world /\ loc' = loc
      BY <1>2 DEF SendLive, Read, Statement, Resume
    <2>2. PICK v \in Versions : v = loc[p].v
      BY <2>1, Working DEF Ver
    <2>3. db.approval[v] # "none"
      BY <2>1, <2>2 DEF Inv, Earned, GatedLabels
    <2>4. p \notin Committed /\ Committed' = Committed \union {p}
      BY <2>1 DEF Committed, Inv, TypeOK
    <2>5. [q \in Procs |-> IF q \in Committed THEN loc[q].v ELSE 0]' =
          [[q \in Procs |-> IF q \in Committed THEN loc[q].v ELSE 0] EXCEPT ![p] = v]
      BY <2>1, <2>2, <2>4
    <2>6. Contract!Commit(p, v)
      BY <1>2, <2>1, <2>3, <2>4, <2>5 DEF Contract!Commit, Stopped
    <2> QED
      BY <2>6 DEF Contract!Next, ContractStep
  <1> QED
    BY <1>1, <1>2

\* The provider's call hands over what the request committed to, and a remembered
\* key is one whose e-mail left before.
LEMMA ProviderImplements ==
    ASSUME Inv, NEW p \in Procs, SendProvider(p)
    PROVE  ContractStep
  <1>1. /\ pc[p] = "send_provider" /\ pc' = [pc EXCEPT ![p] = "send_record"]
        /\ db' = db /\ world' = HandOver(Ver(p)) /\ loc' = loc
    BY DEF SendProvider, External, Resume
  <1>2. Ver(p) = loc[p].v /\ loc[p].v \in Versions /\ 0 \notin Versions
    BY <1>1, Working DEF Ver, Versions
  <1>3. p \in Committed /\ Committed' = Committed \ {p}
    BY <1>1 DEF Committed, Inv, TypeOK
  <1>4. [q \in Procs |-> IF q \in Committed THEN loc[q].v ELSE 0]' =
        [[q \in Procs |-> IF q \in Committed THEN loc[q].v ELSE 0] EXCEPT ![p] = 0]
    BY <1>1, <1>3
  <1>5. {v \in Versions : world.outbox[v] > 0}' =
        {v \in Versions : world.outbox[v] > 0} \union {loc[p].v}
    <2>1. \A v \in Versions : /\ world.outbox[v] \in Nat
                              /\ v \in world.sentByKey => world.outbox[v] > 0
      BY DEF Inv, TypeOK, World, Once
    <2>2. world'.outbox = [world.outbox EXCEPT ![loc[p].v] =
                              IF loc[p].v \in world.sentByKey THEN @ ELSE @ + 1]
      BY <1>1, <1>2 DEF HandOver, Inv, TypeOK, World
    <2>3. \A v \in Versions : world'.outbox[v] > 0 <=> world.outbox[v] > 0 \/ v = loc[p].v
      BY <1>2, <2>1, <2>2 DEF Inv, TypeOK, World
    <2> QED
      BY <1>2, <2>3
  <1>6. Contract!HandOver(p)
    BY <1>1, <1>2, <1>3, <1>4, <1>5 DEF Contract!HandOver, Stopped
  <1> QED
    BY <1>6 DEF Contract!Next, ContractStep

\* A request that leaves the commit labels without a hand-over abandons its send.
LEMMA LeavingAbandons ==
    ASSUME NEW gone \in SUBSET Procs, Committed' = Committed \ gone,
           \A q \in Procs \ gone : q \in Committed => loc'[q] = loc[q],
           db' = db, world'.outbox = world.outbox
    PROVE  ContractStep
  <1>1. [q \in Procs |-> IF q \in Committed THEN loc[q].v ELSE 0]' =
        [q \in Procs |-> IF q \in gone THEN 0 ELSE
           [r \in Procs |-> IF r \in Committed THEN loc[r].v ELSE 0][q]]
    OBVIOUS
  <1>2. Contract!Abandon(gone)
    BY <1>1 DEF Contract!Abandon, Stopped
  <1> QED
    BY <1>2 DEF Contract!Next, ContractStep

LEMMA SendImplements ==
    ASSUME Inv, NEW p \in Procs, Send(p)
    PROVE  ContractStep
  <1>0. pc[p] \in DraftWork => Ver(p) \in Versions
    BY Working
  <1>1. CASE \/ SendGate(p) \/ SendCandidate(p) \/ SendFind(p) \/ SendStarted(p)
             \/ SendAudit(p) \/ SendAnswer(p)
    <2>1. PICK at \in {"send_gate", "send_candidate", "send_find", "send_started", "send_audit",
                      "send_answer"},
               to \in {"idle", "send_candidate", "send_find", "send_create", "send_started",
                      "send_live", "sync_begin"} : Read(p, at, to)
      BY <1>1 DEF SendGate, SendCandidate, SendFind, SendStarted, SendAudit, SendAnswer
    <2> QED
      BY <2>1, ReadSilent, SilentStutters DEF ContractStep
  <1>2. CASE SendCreate(p)
    BY <1>2, ReadSilent, StatementSilent, RowsAlike, SilentStutters DEF SendCreate, ContractStep
  <1>3. CASE SendLive(p)
    BY <1>3, LiveImplements
  <1>4. CASE SendBlocked(p) \/ SendCatch(p) \/ SendDraft(p)
    BY <1>4, StatementSilent, RowsAlike, SilentStutters
    DEF SendBlocked, SendCatch, SendDraft, ContractStep
  <1>5. CASE SendSending(p)
    <2>1. /\ pc[p] = "send_sending" /\ pc' = [pc EXCEPT ![p] = "send_provider"]
          /\ world' = world /\ loc' = loc /\ Alike(db')
      BY <1>5, RowsAlike DEF SendSending, Statement, Resume
    <2>2. Committed' = Committed
      BY <2>1 DEF Committed, Inv, TypeOK
    <2>3. {v \in Versions : db.approval[v] # "none"}' = {v \in Versions : db.approval[v] # "none"}
      BY <2>1 DEF Alike
    <2>4. Stopped' = Stopped
      BY <2>1 DEF Alike, Stopped
    <2>5. UNCHANGED Contract!vars
      BY <2>1, <2>2, <2>3, <2>4 DEF Contract!vars
    <2> QED
      BY <2>5 DEF ContractStep
  <1>6. CASE SendProvider(p)
    BY <1>6, ProviderImplements
  <1>7. CASE SendRefused(p)
    <2>1. /\ pc' = [pc EXCEPT ![p] = "send_catch"] /\ db' = db /\ world' = world /\ loc' = loc
      BY <1>7 DEF SendRefused, Read, Statement, Resume
    <2>2. Committed' = Committed \ {p}
      BY <2>1 DEF Committed, Inv, TypeOK
    <2> QED
      BY <2>1, <2>2, LeavingAbandons
  <1>8. CASE SendRecord(p)
    <2>1. PICK ids : Statement(p, "send_record",
             [db EXCEPT !.message[Ver(p)] = "SENT", !.crm[Ver(p)] = "PENDING",
                        !.providerId = ids], "send_draft")
      BY <1>8 DEF SendRecord
    <2> QED
      BY <2>1, StatementSilent, RowsAlike, SilentStutters DEF ContractStep
  <1>9. CASE SendActivate(p)
    BY <1>9, StatementSilent, SequenceAlike, SilentStutters DEF SendActivate, ContractStep
  <1> QED
    BY <1>1, <1>2, <1>3, <1>4, <1>5, <1>6, <1>7, <1>8, <1>9 DEF Send

------------------------------------------------------------------------------
(* Replies, meetings and what starts or ends requests.                      *)
\* A statement that puts the sequence in a stop status is the contract's Stop.
LEMMA StopImplements ==
    ASSUME Inv, NEW p \in Procs, NEW at, NEW to, NEW s \in STOP_STATUSES,
           at \notin CommitLabels, to \notin CommitLabels,
           Statement(p, at, [db EXCEPT !.sequence = s], to)
    PROVE  ContractStep
  <1>1. Aside(p)
    BY NoWorkTyped DEF Inv, TypeOK, Statement, Resume, Aside
  <1>2. db'.approval = db.approval /\ Stopped' = TRUE /\ world' = world
    BY DEF Statement, Inv, TypeOK, Rows, Stopped
  <1>3. Contract!Stop
    BY <1>1, <1>2, SameCommitted DEF Contract!Stop
  <1> QED
    BY <1>3 DEF Contract!Next, ContractStep

LEMMA InboundImplements ==
    ASSUME Inv, NEW p \in Procs, Inbound(p)
    PROVE  ContractStep
  <1>1. CASE ReplyCreate(p)
    BY <1>1, ReadSilent, StatementSilent, RowsAlike, SilentStutters DEF ReplyCreate, ContractStep
  <1>2. CASE ReplyStop(p)
    <2>1. PICK s \in STOP_STATUSES :
             Statement(p, "reply_stop", [db EXCEPT !.sequence = s], "reply_adapt")
      BY <1>2 DEF ReplyStop, StopStatus, STOP_STATUSES
    <2> QED
      BY <2>1, StopImplements
  <1>3. CASE ReplyAdapt(p)
    <2>1. PICK to \in {"draft_gate", "reply_ack"} : Read(p, "reply_adapt", to)
      BY <1>3 DEF ReplyAdapt
    <2> QED
      BY <2>1, ReadSilent, SilentStutters DEF ContractStep
  <1>4. CASE ReplyAck(p)
    <2>1. [world EXCEPT !.acked = @ \union {Event(p)}].outbox = world.outbox
      BY DEF Inv, TypeOK, World
    <2> QED
      BY <1>4, <2>1, ExternalSilent, SilentStutters DEF ReplyAck, ContractStep
  <1>5. CASE MeetingBook(p)
    <2>1. Alike([db EXCEPT !.booking[Ver(p)] = "BOOKED"])
      BY DEF Inv, TypeOK, Rows, Alike, Stopped
    <2> QED
      BY <1>5, <2>1, StatementSilent, SilentStutters DEF MeetingBook, ContractStep
  <1>6. CASE MeetingComplete(p)
    BY <1>6, StopImplements DEF MeetingComplete, STOP_STATUSES
  <1> QED
    BY <1>1, <1>2, <1>3, <1>4, <1>5, <1>6 DEF Inbound

LEMMA RequestSilent ==
    ASSUME Inv, NEW p \in Procs, Request(p)
    PROVE  Silent(p)
  <1>0. Alike(db)
    BY RowsAlike
  <1>1. ASSUME NEW kind \in Purposes, DraftRequest(p, kind)
        PROVE  Silent(p)
    <2>1. PICK to \in {"draft_booking", "draft_prior"} : Begin(p, db, to, Job(kind, 0, NoEvent))
      BY <1>1 DEF DraftRequest, AfterGate
    <2> QED
      BY <1>0, <2>1, BeginSilent
  <1>2. ASSUME NEW v \in Versions,
               \/ ApproveRequest(p, v) \/ RejectRequest(p, v) \/ SendRequest(p, v)
               \/ CrmRequest(p, v)
        PROVE  Silent(p)
    BY <1>2, <1>0, BeginSilent DEF ApproveRequest, RejectRequest, SendRequest, CrmRequest
  <1>3. ASSUME NEW v \in Versions, RevokeRequest(p, v)
        PROVE  Silent(p)
    <2>1. Alike([db EXCEPT !.approval[v] = "REVOKED"])
      BY <1>3 DEF RevokeRequest, Inv, TypeOK, Rows, Alike, Stopped
    <2> QED
      BY <1>3, <2>1, BeginSilent DEF RevokeRequest
  <1>4. ASSUME NEW e \in Events, ReplyRequest(p, e)
        PROVE  Silent(p)
    BY <1>4, <1>0, BeginSilent DEF ReplyRequest
  <1>5. ASSUME MeetingRequest(p)
        PROVE  Silent(p)
    BY <1>5, <1>0, BeginSilent DEF MeetingRequest
  <1> QED
    BY <1>1, <1>2, <1>3, <1>4, <1>5 DEF Request

LEMMA ThrowImplements ==
    ASSUME Inv, NEW p \in Procs, Throw(p)
    PROVE  ContractStep
  <1>1. PICK to \in {"idle", "send_catch", "sync_catch"} : Resume(p, to)
    BY DEF Throw, SyncFails
  <1>2. /\ Committed' = Committed \ {p} /\ db' = db /\ world' = world
        /\ \A q \in Procs \ {p} : loc'[q] = loc[q]
    BY <1>1 DEF Throw, Resume, Committed, Inv, TypeOK
  <1> QED
    BY <1>2, LeavingAbandons

LEMMA RestartImplements ==
    ASSUME Inv, Restart
    PROVE  ContractStep
  <1>1. Committed' = Committed \ Procs /\ db' = db /\ world'.outbox = world.outbox
    BY DEF Restart, Committed, Inv, TypeOK, World
  <1> QED
    BY <1>1, LeavingAbandons

\* Steps that touch neither requests nor e-mails.
LEMMA BesideImplements ==
    ASSUME Alike(db'), world'.outbox = world.outbox, UNCHANGED <<pc, loc>>
    PROVE  ContractStep
  <1>1. {v \in Versions : db.approval[v] # "none"}' = {v \in Versions : db.approval[v] # "none"}
    BY DEF Alike
  <1>2. Stopped' = Stopped /\ Committed' = Committed
    BY DEF Alike, Stopped, Committed
  <1>3. UNCHANGED Contract!vars
    BY <1>1, <1>2 DEF Contract!vars
  <1> QED
    BY <1>3 DEF ContractStep

LEMMA NextImplements ==
    ASSUME Inv, [Next]_vars
    PROVE  ContractStep
  <1>1. ASSUME NEW p \in Procs, Request(p)
        PROVE  ContractStep
    BY <1>1, RequestSilent, SilentStutters DEF ContractStep
  <1>2. ASSUME NEW p \in Procs, Step(p)
        PROVE  ContractStep
    <2>1. Draft(p) \/ Sync(p) => Silent(p)
      BY DraftSilent, SyncSilent
    <2>2. Draft(p) \/ Sync(p) => ContractStep
      BY <2>1, SilentStutters DEF ContractStep
    <2> QED
      BY <1>2, <2>2, DecideImplements, SendImplements, InboundImplements DEF Step
  <1>3. ASSUME NEW p \in Procs, Throw(p)
        PROVE  ContractStep
    BY <1>3, ThrowImplements
  <1>4. ASSUME NEW e \in Events, ReplyDuplicate(e)
        PROVE  ContractStep
    <2>1. Alike(db') /\ world'.outbox = world.outbox
      BY <1>4, RowsAlike DEF ReplyDuplicate, Inv, TypeOK, World
    <2> QED
      BY <1>4, <2>1, BesideImplements DEF ReplyDuplicate
  <1>5. CASE AgentPauseOrResume \/ CandidateMoves
    <2>1. Alike(db') /\ world' = world /\ UNCHANGED <<pc, loc>>
      BY <1>5 DEF AgentPauseOrResume, CandidateMoves, Inv, TypeOK, Rows, Alike, Stopped
    <2> QED
      BY <2>1, BesideImplements
  <1>6. CASE Restart
    BY <1>6, RestartImplements
  <1>7. CASE UNCHANGED vars
    <2>1. Alike(db') /\ world' = world /\ UNCHANGED <<pc, loc>>
      BY <1>7, RowsAlike DEF vars
    <2> QED
      BY <2>1, BesideImplements
  <1> QED
    BY <1>1, <1>2, <1>3, <1>4, <1>5, <1>6, <1>7 DEF Next

LEMMA InitImplements == Init => Contract!Init
  <1> SUFFICES ASSUME Init PROVE Contract!Init
    OBVIOUS
  <1>1. Committed = {} /\ ~Stopped
    BY DEF Init, Committed, Stopped, STOP_STATUSES
  <1>2. /\ \A v \in Versions : db.approval[v] = "none"
        /\ \A v \in Versions : ~(world.outbox[v] > 0)
    BY DEF Init
  <1> QED
    BY <1>1, <1>2 DEF Contract!Init

\* The service implements the contract: nothing is committed to without an approval or
\* after a stop, and nothing delivered without a commitment, whatever interleaves.
THEOREM Implementation == Spec => ImplementsContract
  <1>1. Inv /\ [Next]_vars => [Contract!Next]_(Contract!vars)
    BY NextImplements DEF ContractStep
  <1> QED
    BY <1>1, Invariance, InitImplements, PTL DEF Spec, ImplementsContract, Contract!Spec
==============================================================================
