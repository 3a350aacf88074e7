------------------------ MODULE WebhookPipelineProofs ------------------------
(***************************************************************************)
(* Proofs about WebhookPipeline for every number of requests, workers,      *)
(* notices, rows, attempts and mishaps.  Inv says how rows, jobs, requests  *)
(* and workers belong together (Queued), what a row's checkpoints claim     *)
(* (RowOK), what a worker has reached (Earned), and what holds in addition  *)
(* as long as no two workers ran a job at once (Alone).  Two more are about *)
(* numbers: Counted, that each row of an event but one took an expiry, and  *)
(* AllPaid, that each write to the CRM but one took a cut, a restart or an  *)
(* overlap, or will have taken it when the workers that may repeat it do.   *)
(***************************************************************************)
EXTENDS WebhookPipeline, FiniteSetTheorems, TLAPS

Over == {"history", "audit", "success", "completed"}

\* Rows, their jobs, the request that adds a row's job and the workers that hold one.
Queued ==
    /\ \A r \in Logs :
          /\ log[r].status = "none" => job[r].state = "none"
          /\ job[r].state = "active" <=> job[r].owner # NoWorker
          /\ job[r].state \in {"none", "waiting", "active"} =>
                job[r].attemptsMade < MaxAttempts /\ job[r].stalled <= MaxStalled
    /\ \A p \in Procs :
          /\ req[p].at # "idle" => req[p].notice \in Notices
          /\ req[p].at = "add" => /\ req[p].row \in Logs
                                  /\ log[req[p].row].status # "none"
                                  /\ job[req[p].row].state = "none"
    /\ \A p, q \in Procs :
          req[p].at = "add" /\ req[q].at = "add" /\ p # q => req[p].row # req[q].row
    /\ \A w \in Workers :
          work[w].at # "idle" => Row(w) \in Logs /\ job[Row(w)].state # "none"

\* A row whose trail is t, whose status is s and which wrote c to the CRM.
RowOK(t, c, e, s) ==
    /\ "update_person" \in t.checkpoint => c.updated
    /\ "create_note" \in t.checkpoint => t.noteId \in 1 .. c.notes
    /\ "link_note_to_person" \in t.checkpoint => c.linked # {}
    /\ c.linked \subseteq 1 .. c.notes
    /\ "create_opportunity" \in t.checkpoint => c.opportunities > 0
    /\ t.audited => e /\ t.scores > 0 /\ Required \subseteq t.checkpoint
    /\ t.opportunityCreated => "create_opportunity" \in t.checkpoint
    /\ s = "success" => t.audited

\* A worker with locals l has recorded the steps it has passed and made the call it is
\* about to record.
Earned(l, t, c, e) ==
    /\ l.step > 1 => "update_person" \in t.checkpoint
    /\ l.step > 2 => "create_note" \in t.checkpoint /\ l.noteId \in 1 .. c.notes
    /\ l.step > 3 => "link_note_to_person" \in t.checkpoint
    /\ l.at \in Over => Required \subseteq t.checkpoint
    /\ l.at \in {"score", "check", "call", "record"} \union Over => e
    /\ l.at = "audit" => t.scores > 0
    /\ l.at \in {"success", "completed"} => t.audited
    /\ l.opportunity => "create_opportunity" \in t.checkpoint
    /\ l.at = "record" => /\ l.step = 1 => c.updated
                          /\ l.step = 2 => l.noteId \in 1 .. c.notes
                          /\ l.step = 3 => l.noteId \in c.linked
                          /\ l.step = 4 => c.opportunities > 0

\* And, as the only one with its row, works with the note on record and repeats nothing.
Single(l, t, s) ==
    /\ l.step > 2 => l.noteId = t.noteId
    /\ l.at \in {"call", "record"} => Actions[l.step] \notin t.checkpoint
    /\ l.at = "completed" => s = "success"

OneNote(t, c) == c.linked # {} => "create_note" \in t.checkpoint /\ c.linked = {t.noteId}

Alone ==
    /\ \A w \in Workers : work[w].at # "idle" =>
          /\ job[Row(w)].owner = w
          /\ Single(work[w], trail[Row(w)], log[Row(w)].status)
    /\ \A r \in Logs : /\ OneNote(trail[r], crm[r])
                       /\ job[r].state = "completed" => log[r].status = "success"

Inv ==
    /\ TypeOK
    /\ Queued
    /\ \A r \in Logs : RowOK(trail[r], crm[r], enriched, log[r].status)
    /\ \A w \in Workers :
          work[w].at # "idle" => Earned(work[w], trail[Row(w)], crm[Row(w)], enriched)
    /\ mishaps.overlaps = 0 => Alone

------------------------------------------------------------------------------
(* A step of one worker on its row.                                         *)
\* What the row and the CRM hold only grows.
Grows(t, c, e, t2, c2, e2) ==
    /\ t.checkpoint \subseteq t2.checkpoint
    /\ t.scores <= t2.scores
    /\ t.audited => t2.audited
    /\ c.updated => c2.updated
    /\ c.notes <= c2.notes
    /\ c.linked \subseteq c2.linked
    /\ c.opportunities <= c2.opportunities
    /\ e => e2

LEMMA EarnedKept ==
    ASSUME NEW l \in Work, NEW t \in Trails, NEW c \in CrmRows, NEW e \in BOOLEAN,
           NEW t2 \in Trails, NEW c2 \in CrmRows, NEW e2 \in BOOLEAN,
           Grows(t, c, e, t2, c2, e2), Earned(l, t, c, e)
    PROVE  Earned(l, t2, c2, e2)
  BY DEF Earned, Grows, Work, Trails, CrmRows

LEMMA RowKept ==
    ASSUME NEW t \in Trails, NEW c \in CrmRows, NEW e \in BOOLEAN, NEW e2 \in BOOLEAN, NEW s,
           e => e2, RowOK(t, c, e, s)
    PROVE  RowOK(t, c, e2, s)
  BY DEF RowOK

\* mishaps only grow, and an overlap is never forgotten.
MishapsGrow ==
    /\ mishaps' \in [cuts : Nat, faults : Nat, restarts : Nat, overlaps : Nat, expiries : Nat]
    /\ mishaps'.overlaps = 0 => mishaps.overlaps = 0

\* Worker w, which holds row r, goes on with locals l; the row's trail becomes t, its
\* status s, and what it wrote to the CRM c.
WorkerTo(w, r, l, t, c, s) ==
    /\ r = Row(w) /\ l.row = r /\ l.at # "idle"
    /\ work' = [work EXCEPT ![w] = l]
    /\ trail' = [trail EXCEPT ![r] = t]
    /\ crm' = [crm EXCEPT ![r] = c]
    /\ log' = [log EXCEPT ![r].status = s] \/ (log' = log /\ s = log[r].status)
    /\ enriched' \in BOOLEAN
    /\ UNCHANGED <<marks, job, acked, sent, req>>
    /\ MishapsGrow
    /\ Grows(trail[r], crm[r], enriched, t, c, enriched')

\* What makes that step keep the invariant.
WorkerMay(l, t, c, s) ==
    /\ RowOK(t, c, enriched', s)
    /\ Earned(l, t, c, enriched')
    /\ mishaps'.overlaps = 0 =>
          /\ Single(l, t, s)
          /\ OneNote(t, c)

Statuses == {"queued", "processing", "success", "failed"}

LEMMA WorkerPreserves ==
    ASSUME Inv, NEW w \in Workers, work[w].at # "idle",
           NEW r \in Logs, NEW l \in Work, NEW t \in Trails, NEW c \in CrmRows,
           NEW s \in Statuses, WorkerTo(w, r, l, t, c, s), WorkerMay(l, t, c, s)
    PROVE  Inv'
  <1> USE DEF WorkerTo, WorkerMay, Statuses
  <1>1. /\ \A v \in Workers : v # w => work'[v] = work[v]
        /\ work'[w] = l /\ trail'[r] = t /\ crm'[r] = c /\ log'[r].status = s
        /\ \A q \in Logs : q # r => trail'[q] = trail[q] /\ crm'[q] = crm[q] /\ log'[q] = log[q]
        /\ \A q \in Logs : log'[q].notice = log[q].notice
        /\ log' \in [Logs -> LogRows]
    <2>0. log \in [Logs -> LogRows] /\ work \in [Workers -> Work] /\ trail \in [Logs -> Trails] /\ crm \in [Logs -> CrmRows]
      BY DEF Inv, TypeOK
    <2>1. /\ \A v \in Workers : v # w => work'[v] = work[v]
          /\ work'[w] = l /\ trail'[r] = t /\ crm'[r] = c
          /\ \A q \in Logs : q # r => trail'[q] = trail[q] /\ crm'[q] = crm[q]
      BY <2>0
    <2>2. CASE log' = log /\ s = log[r].status
      BY <2>0, <2>1, <2>2
    <2>3. CASE log' = [log EXCEPT ![r].status = s]
      <3>1. log'[r] = [log[r] EXCEPT !.status = s] /\ \A q \in Logs : q # r => log'[q] = log[q]
        BY <2>0, <2>3
      <3>2. log[r] \in LogRows /\ log'[r] \in LogRows /\ log'[r].status = s /\ log'[r].notice = log[r].notice
        BY <2>0, <3>1 DEF LogRows
      <3>3. log' \in [Logs -> LogRows]
        BY <2>0, <2>3, <3>1, <3>2
      <3> QED
        BY <2>1, <3>1, <3>2, <3>3
    <2> QED
      BY <2>2, <2>3
  <1>2. TypeOK'
    BY <1>1 DEF Inv, TypeOK, MishapsGrow
  <1>3. \A q \in Logs : log'[q].status = "none" <=> log[q].status = "none"
    BY <1>1 DEF Inv, Queued
  <1>4. \A v \in Workers : work'[v].at = "idle" <=> work[v].at = "idle"
    BY <1>1
  <1>5. \A v \in Workers : work'[v].at # "idle" => Row(v)' = Row(v)
    BY <1>1 DEF Row
  <1>6. Queued'
    <2>1. \A q \in Logs :
             /\ log'[q].status = "none" => job[q].state = "none"
             /\ job[q].state = "active" <=> job[q].owner # NoWorker
             /\ job[q].state \in {"none", "waiting", "active"} =>
                   job[q].attemptsMade < MaxAttempts /\ job[q].stalled <= MaxStalled
      BY <1>3 DEF Inv, Queued
    <2>2. \A p \in Procs :
             /\ req[p].at # "idle" => req[p].notice \in Notices
             /\ req[p].at = "add" => /\ req[p].row \in Logs
                                     /\ log'[req[p].row].status # "none"
                                     /\ job[req[p].row].state = "none"
      BY <1>3 DEF Inv, Queued
    <2>3. \A v \in Workers :
             work'[v].at # "idle" => Row(v)' \in Logs /\ job[Row(v)'].state # "none"
      BY <1>4, <1>5 DEF Inv, Queued
    <2> QED
      BY <2>1, <2>2, <2>3 DEF Inv, Queued
  <1>7. ASSUME NEW q \in Logs
        PROVE  RowOK(trail[q], crm[q], enriched, log[q].status)'
    <2>1. CASE q = r
      BY <1>1, <2>1 DEF RowOK
    <2>2. CASE q # r
      <3>1. RowOK(trail[q], crm[q], enriched', log[q].status)
        BY RowKept DEF Inv, TypeOK, Grows
      <3> QED
        BY <1>1, <2>2, <3>1 DEF RowOK
    <2> QED
      BY <2>1, <2>2
  <1>8. ASSUME NEW v \in Workers, work'[v].at # "idle"
        PROVE  Earned(work[v], trail[Row(v)], crm[Row(v)], enriched)'
    <2>1. CASE v = w
      BY <1>1, <2>1 DEF Earned, Row
    <2>2. CASE v # w
      <3>1. /\ work[v] \in Work /\ Row(v) \in Logs /\ Row(v)' = Row(v) /\ work'[v] = work[v]
            /\ Earned(work[v], trail[Row(v)], crm[Row(v)], enriched)
        BY <1>1, <1>5, <1>8, <2>2 DEF Inv, Queued, TypeOK
      <3>2. Grows(trail[Row(v)], crm[Row(v)], enriched, trail'[Row(v)], crm'[Row(v)], enriched')
        BY <1>1, <3>1 DEF Grows, Inv, TypeOK, Trails, CrmRows
      <3>3. Earned(work[v], trail'[Row(v)], crm'[Row(v)], enriched')
        BY <1>2, <3>1, <3>2, EarnedKept DEF Inv, TypeOK
      <3> QED
        BY <3>1, <3>3 DEF Earned
    <2> QED
      BY <2>1, <2>2
  <1>9. ASSUME mishaps'.overlaps = 0
        PROVE  Alone'
    <2>0. Alone
      BY <1>9 DEF MishapsGrow, Inv
    <2>1. \A v \in Workers : v # w /\ work[v].at # "idle" => Row(v) # r
      BY <2>0 DEF Alone
    <2>2. ASSUME NEW v \in Workers, work'[v].at # "idle"
          PROVE  (job[Row(v)].owner = v /\ Single(work[v], trail[Row(v)], log[Row(v)].status))'
      <3>1. CASE v = w
        BY <1>1, <1>9, <2>0, <3>1 DEF Single, Row, Alone
      <3>2. CASE v # w
        <4>1. /\ Row(v)' = Row(v) /\ work'[v] = work[v] /\ Row(v) \in Logs /\ Row(v) # r
              /\ work[v].at # "idle"
          BY <1>1, <2>1, <2>2, <3>2 DEF Row, Inv, Queued
        <4> QED
          BY <1>1, <2>0, <4>1 DEF Single, Alone
      <3> QED
        BY <3>1, <3>2
    <2>3. ASSUME NEW q \in Logs
          PROVE  /\ OneNote(trail[q], crm[q])'
                 /\ job'[q].state = "completed" => log'[q].status = "success"
      <3>1. CASE q = r
        <4>1. OneNote(trail[q], crm[q])'
          BY <1>1, <1>9, <3>1 DEF OneNote
        <4>2. job[q].state # "completed"
          BY <2>0, <3>1, PipelineAssumption DEF Alone, Inv, Queued
        <4> QED
          BY <4>1, <4>2
      <3>2. CASE q # r
        <4>1. OneNote(trail[q], crm[q])'
          BY <1>1, <2>0, <3>2 DEF OneNote, Alone
        <4> QED
          BY <1>1, <2>0, <3>2, <4>1 DEF Alone
      <3> QED
        BY <3>1, <3>2
    <2> QED
      BY <2>2, <2>3 DEF Alone
  <1> QED
    BY <1>2, <1>6, <1>7, <1>8, <1>9 DEF Inv

\* What a busy worker and its row have to show.
LEMMA Here ==
    ASSUME Inv, NEW w \in Workers, work[w].at # "idle"
    PROVE  /\ Row(w) \in Logs /\ work[w] \in Work /\ work[w].row = Row(w)
           /\ trail[Row(w)] \in Trails /\ crm[Row(w)] \in CrmRows /\ enriched \in BOOLEAN
           /\ log[Row(w)].status \in {"queued", "processing", "success", "failed"}
           /\ mishaps \in [cuts : Nat, faults : Nat, restarts : Nat, overlaps : Nat, expiries : Nat]
           /\ RowOK(trail[Row(w)], crm[Row(w)], enriched, log[Row(w)].status)
           /\ Earned(work[w], trail[Row(w)], crm[Row(w)], enriched)
           /\ mishaps.overlaps = 0 =>
                 /\ Single(work[w], trail[Row(w)], log[Row(w)].status)
                 /\ OneNote(trail[Row(w)], crm[Row(w)])
  <1>1. /\ Row(w) \in Logs /\ work[w] \in Work /\ work[w].row = Row(w)
        /\ trail[Row(w)] \in Trails /\ crm[Row(w)] \in CrmRows /\ enriched \in BOOLEAN
        /\ mishaps \in [cuts : Nat, faults : Nat, restarts : Nat, overlaps : Nat, expiries : Nat]
    BY DEF Inv, Queued, TypeOK, Row
  <1>2. log[Row(w)].status \in {"queued", "processing", "success", "failed"}
    BY <1>1 DEF Inv, Queued, TypeOK, LogRows
  <1>3. /\ RowOK(trail[Row(w)], crm[Row(w)], enriched, log[Row(w)].status)
        /\ Earned(work[w], trail[Row(w)], crm[Row(w)], enriched)
    BY <1>1 DEF Inv
  <1>4. ASSUME mishaps.overlaps = 0
        PROVE  Single(work[w], trail[Row(w)], log[Row(w)].status)
               /\ OneNote(trail[Row(w)], crm[Row(w)])
    BY <1>1, <1>4 DEF Inv, Alone
  <1> QED
    BY <1>1, <1>2, <1>3, <1>4

\* A step that moves the worker and at most sets its row's status, or enriches the person.
LocalTo(w, l, s) ==
    /\ l.row = Row(w) /\ l.at # "idle"
    /\ work' = [work EXCEPT ![w] = l]
    /\ log' = [log EXCEPT ![Row(w)].status = s] \/ (log' = log /\ s = log[Row(w)].status)
    /\ enriched' \in BOOLEAN /\ (enriched => enriched')
    /\ UNCHANGED <<trail, crm, marks, job, acked, sent, req>>
    /\ MishapsGrow
    /\ s = "success" => trail[Row(w)].audited
    /\ Earned(l, trail[Row(w)], crm[Row(w)], enriched')
    /\ mishaps.overlaps = 0 => Single(l, trail[Row(w)], s)

LEMMA LocalPreserves ==
    ASSUME Inv, NEW w \in Workers, work[w].at # "idle",
           NEW l \in Work, NEW s \in Statuses, LocalTo(w, l, s)
    PROVE  Inv'
  <1>0. PICK r \in Logs : r = Row(w)
    BY Here
  <1>1. PICK t \in Trails, c \in CrmRows :
           t = trail[r] /\ c = crm[r] /\ RowOK(t, c, enriched, log[r].status)
    BY <1>0, Here
  <1>2. trail' = [trail EXCEPT ![r] = t] /\ crm' = [crm EXCEPT ![r] = c]
    BY <1>1 DEF Inv, TypeOK, LocalTo
  <1>3. Grows(trail[r], crm[r], enriched, t, c, enriched')
    BY <1>1 DEF Grows, Trails, CrmRows, LocalTo
  <1>4. RowOK(t, c, enriched', s) /\ Earned(l, t, c, enriched')
    BY <1>0, <1>1 DEF RowOK, LocalTo
  <1>5. ASSUME mishaps'.overlaps = 0
        PROVE  /\ Single(l, t, s)
               /\ OneNote(t, c)
    <2>1. mishaps.overlaps = 0
      BY <1>5 DEF MishapsGrow, LocalTo
    <2>2. OneNote(t, c)
      BY <1>0, <1>1, <2>1, Here
    <2>3. Single(l, t, s)
      BY <1>0, <1>1, <2>1 DEF LocalTo
    <2> QED
      BY <2>2, <2>3
  <1>6. WorkerMay(l, t, c, s)
    BY <1>4, <1>5 DEF WorkerMay
  <1>7. WorkerTo(w, r, l, t, c, s)
    BY <1>0, <1>2, <1>3 DEF WorkerTo, LocalTo
  <1> QED
    BY <1>6, <1>7, WorkerPreserves

\* No step of the processor itself counts as a mishap.
LEMMA SameMishaps ==
    ASSUME Inv, mishaps' = mishaps
    PROVE  MishapsGrow
  BY DEF Inv, TypeOK, MishapsGrow

\* Moving on by changing the label.
LEMMA GoesTo ==
    ASSUME Inv, NEW w \in Workers, work[w].at # "idle", NEW to, Goes(w, to),
           to \in InTry \union {"catch", "completed", "attempt_failed"}
    PROVE  \E l \in Work :
              /\ work' = [work EXCEPT ![w] = l] /\ l.at = to /\ l.row = Row(w)
              /\ l.step = work[w].step /\ l.noteId = work[w].noteId
              /\ l.qualifies = work[w].qualifies /\ l.opportunity = work[w].opportunity
  <1> DEFINE l == [work[w] EXCEPT !.at = to]
  <1>1. l \in Work /\ l.at = to /\ l.row = Row(w) /\ l.step = work[w].step
        /\ l.noteId = work[w].noteId /\ l.qualifies = work[w].qualifies
        /\ l.opportunity = work[w].opportunity
    BY Here DEF Work
  <1>2. work' = [work EXCEPT ![w] = l]
    BY Here DEF Goes, Inv, TypeOK
  <1> QED
    BY <1>1, <1>2

LEMMA StatusStep ==
    ASSUME Inv, NEW w \in Workers,
           StartProcessing(w) \/ MarkSuccess(w) \/ MarkFailed(w)
    PROVE  Inv'
  <1>1. CASE StartProcessing(w)
    <2>1. work[w].at = "start" /\ Goes(w, "enrich")
      BY <1>1 DEF StartProcessing, SetStatus
    <2>2. PICK l \in Work :
              /\ work' = [work EXCEPT ![w] = l] /\ l.at = "enrich" /\ l.row = Row(w)
              /\ l.step = work[w].step /\ l.noteId = work[w].noteId
              /\ l.opportunity = work[w].opportunity
      BY <2>1, GoesTo DEF InTry
    <2>3. Earned(l, trail[Row(w)], crm[Row(w)], enriched)
      BY <2>1, <2>2, Here DEF Earned, Over
    <2>4. mishaps.overlaps = 0 => Single(l, trail[Row(w)], "processing")
      BY <2>1, <2>2, Here DEF Single
    <2>5. MishapsGrow /\ enriched' \in BOOLEAN /\ enriched' = enriched
      BY <1>1, SameMishaps DEF StartProcessing, SetStatus, Inv, TypeOK
    <2>6. LocalTo(w, l, "processing")
      BY <1>1, <2>1, <2>2, <2>3, <2>4, <2>5 DEF StartProcessing, SetStatus, LocalTo
    <2> QED
      BY <2>1, <2>6, LocalPreserves DEF Statuses
  <1>2. CASE MarkSuccess(w)
    <2>1. work[w].at = "success" /\ Goes(w, "completed")
      BY <1>2 DEF MarkSuccess, SetStatus
    <2>2. PICK l \in Work :
              /\ work' = [work EXCEPT ![w] = l] /\ l.at = "completed" /\ l.row = Row(w)
              /\ l.step = work[w].step /\ l.noteId = work[w].noteId
              /\ l.opportunity = work[w].opportunity
      BY <2>1, GoesTo DEF InTry
    <2>3. Earned(l, trail[Row(w)], crm[Row(w)], enriched) /\ trail[Row(w)].audited
      BY <2>1, <2>2, Here DEF Earned, Over
    <2>4. mishaps.overlaps = 0 => Single(l, trail[Row(w)], "success")
      BY <2>1, <2>2, Here DEF Single
    <2>5. MishapsGrow /\ enriched' \in BOOLEAN /\ enriched' = enriched
      BY <1>2, SameMishaps DEF MarkSuccess, SetStatus, Inv, TypeOK
    <2>6. LocalTo(w, l, "success")
      BY <1>2, <2>1, <2>2, <2>3, <2>4, <2>5 DEF MarkSuccess, SetStatus, LocalTo
    <2> QED
      BY <2>1, <2>6, LocalPreserves DEF Statuses
  <1>3. CASE MarkFailed(w)
    <2>1. work[w].at = "catch" /\ Goes(w, "attempt_failed")
      BY <1>3 DEF MarkFailed, SetStatus
    <2>2. PICK l \in Work :
              /\ work' = [work EXCEPT ![w] = l] /\ l.at = "attempt_failed" /\ l.row = Row(w)
              /\ l.step = work[w].step /\ l.noteId = work[w].noteId
              /\ l.opportunity = work[w].opportunity
      BY <2>1, GoesTo DEF InTry
    <2>3. Earned(l, trail[Row(w)], crm[Row(w)], enriched)
      BY <2>1, <2>2, Here DEF Earned, Over
    <2>4. mishaps.overlaps = 0 => Single(l, trail[Row(w)], "failed")
      BY <2>1, <2>2, Here DEF Single
    <2>5. MishapsGrow /\ enriched' \in BOOLEAN /\ enriched' = enriched
      BY <1>3, SameMishaps DEF MarkFailed, SetStatus, Inv, TypeOK
    <2>6. LocalTo(w, l, "failed")
      BY <1>3, <2>1, <2>2, <2>3, <2>4, <2>5 DEF MarkFailed, SetStatus, LocalTo
    <2> QED
      BY <2>1, <2>6, LocalPreserves DEF Statuses
  <1> QED
    BY <1>1, <1>2, <1>3

LEMMA EnrichStep ==
    ASSUME Inv, NEW w \in Workers, EnrichPerson(w)
    PROVE  Inv'
  <1>1. work[w].at = "enrich" /\ Goes(w, "score") /\ enriched' = TRUE
    BY DEF EnrichPerson
  <1>2. PICK l \in Work :
            /\ work' = [work EXCEPT ![w] = l] /\ l.at = "score" /\ l.row = Row(w)
            /\ l.step = work[w].step /\ l.noteId = work[w].noteId
            /\ l.opportunity = work[w].opportunity
    BY <1>1, GoesTo DEF InTry
  <1>3. PICK s \in Statuses : s = log[Row(w)].status
    BY <1>1, Here DEF Statuses
  <1>4. Earned(l, trail[Row(w)], crm[Row(w)], enriched')
    BY <1>1, <1>2, Here DEF Earned, Over
  <1>5. mishaps.overlaps = 0 => Single(l, trail[Row(w)], s)
    BY <1>1, <1>2, <1>3, Here DEF Single
  <1>6. s = "success" => trail[Row(w)].audited
    BY <1>1, <1>3, Here DEF RowOK
  <1>7. LocalTo(w, l, s)
    BY <1>1, <1>2, <1>3, <1>4, <1>5, <1>6, SameMishaps DEF EnrichPerson, LocalTo
  <1> QED
    BY <1>1, <1>7, LocalPreserves

\* A step that only moves the worker; one that loses what it was about to record is a loss.
LEMMA MovePreserves ==
    ASSUME Inv, NEW w \in Workers, work[w].at # "idle",
           NEW l \in Work, l.row = Row(w), l.at # "idle", work' = [work EXCEPT ![w] = l],
           UNCHANGED <<Tables, req>>, MishapsGrow,
           Earned(l, trail[Row(w)], crm[Row(w)], enriched),
           mishaps.overlaps = 0 => Single(l, trail[Row(w)], log[Row(w)].status)
    PROVE  Inv'
  <1>1. PICK s \in Statuses : s = log[Row(w)].status
    BY Here DEF Statuses
  <1>2. s = "success" => trail[Row(w)].audited
    BY <1>1, Here DEF RowOK
  <1>3. enriched' \in BOOLEAN /\ enriched' = enriched
    BY Here DEF Tables
  <1>4. LocalTo(w, l, s)
    BY <1>1, <1>2, <1>3 DEF LocalTo, Tables
  <1> QED
    BY <1>4, LocalPreserves

LEMMA ScoreStep ==
    ASSUME Inv, NEW w \in Workers, Score(w)
    PROVE  Inv'
  <1>1. work[w].at = "score" /\ UNCHANGED <<Tables, req, mishaps>>
    BY DEF Score
  <1>2. PICK qualifies \in BOOLEAN :
            work' = [work EXCEPT ![w].at = "check", ![w].qualifies = qualifies]
    BY DEF Score
  <1> DEFINE l == [work[w] EXCEPT !.at = "check", !.qualifies = qualifies]
  <1>3. /\ l \in Work /\ l.at = "check" /\ l.row = Row(w) /\ l.step = work[w].step
        /\ l.noteId = work[w].noteId /\ l.opportunity = work[w].opportunity
    BY <1>1, Here DEF Work, InTry
  <1>4. work' = [work EXCEPT ![w] = l]
    BY <1>2 DEF Inv, TypeOK
  <1> HIDE DEF l
  <1>5. Earned(l, trail[Row(w)], crm[Row(w)], enriched)
    BY <1>1, <1>3, Here DEF Earned, Over
  <1>6. mishaps.overlaps = 0 => Single(l, trail[Row(w)], log[Row(w)].status)
    BY <1>1, <1>3, Here DEF Single
  <1> QED
    BY <1>1, <1>3, <1>4, <1>5, <1>6, SameMishaps, MovePreserves

\* After the write of step k a worker is at the next step, or past the last one.
LEMMA After ==
    ASSUME NEW l \in Work
    PROVE  /\ AfterStep(l) \in Work
           /\ AfterStep(l).row = l.row /\ AfterStep(l).noteId = l.noteId
           /\ AfterStep(l).opportunity = l.opportunity
           /\ \/ AfterStep(l).at = "check" /\ AfterStep(l).step = l.step + 1 /\ l.step < 4
              \/ AfterStep(l).at = "history" /\ AfterStep(l).step = l.step /\ l.step \in {3, 4}
  <1>1. CASE l.step = 4 \/ (l.step = 3 /\ ~l.qualifies)
    <2>1. AfterStep(l) = [l EXCEPT !.at = "history"]
      BY <1>1 DEF AfterStep
    <2> QED
      BY <1>1, <2>1 DEF Work, InTry
  <1>2. CASE ~(l.step = 4 \/ (l.step = 3 /\ ~l.qualifies))
    <2>1. AfterStep(l) = [l EXCEPT !.at = "check", !.step = l.step + 1]
      BY <1>2 DEF AfterStep, Work
    <2>2. l.step \in 1 .. 3 /\ l.step + 1 \in 1 .. 4
      BY <1>2 DEF Work
    <2>3. PICK n \in 1 .. 4 : n = l.step + 1
      BY <2>2
    <2>4. [l EXCEPT !.at = "check", !.step = n] \in Work
      BY DEF Work, InTry
    <2>5. AfterStep(l) = [l EXCEPT !.at = "check", !.step = n]
      BY <2>1, <2>3
    <2> QED
      BY <2>2, <2>3, <2>4, <2>5 DEF Work
  <1> QED
    BY <1>1, <1>2

LEMMA ActionCases ==
    ASSUME NEW l \in Work
    PROVE  \/ l.step = 1 /\ Actions[l.step] = "update_person"
           \/ l.step = 2 /\ Actions[l.step] = "create_note"
           \/ l.step = 3 /\ Actions[l.step] = "link_note_to_person"
           \/ l.step = 4 /\ Actions[l.step] = "create_opportunity"
  BY DEF Work, Actions

\* What a worker has earned of the writes before its step.
Before(l, t, c) ==
    /\ l.step > 1 => "update_person" \in t.checkpoint
    /\ l.step > 2 => "create_note" \in t.checkpoint /\ l.noteId \in 1 .. c.notes
    /\ l.step > 3 => "link_note_to_person" \in t.checkpoint

\* Once the write of its step is recorded, or was before, a worker may go on.
LEMMA AfterEarns ==
    ASSUME NEW l \in Work, NEW t \in Trails, NEW c \in CrmRows,
           Before(l, t, c), Actions[l.step] \in t.checkpoint,
           l.step = 2 => l.noteId \in 1 .. c.notes,
           l.opportunity => "create_opportunity" \in t.checkpoint
    PROVE  Earned(AfterStep(l), t, c, TRUE)
  <1>2. /\ l.step > 1 => "update_person" \in t.checkpoint
        /\ l.step > 2 => "create_note" \in t.checkpoint /\ l.noteId \in 1 .. c.notes
        /\ l.step > 3 => "link_note_to_person" \in t.checkpoint
    BY DEF Before
  <1>3. l.step \in 1 .. 4
    BY DEF Work
  <1>4. CASE AfterStep(l).at = "check" /\ AfterStep(l).step = l.step + 1 /\ l.step < 4
    <2>1. /\ l.step + 1 > 1 => "update_person" \in t.checkpoint
          /\ l.step + 1 > 2 => "create_note" \in t.checkpoint /\ l.noteId \in 1 .. c.notes
          /\ l.step + 1 > 3 => "link_note_to_person" \in t.checkpoint
      BY <1>2, <1>3, ActionCases
    <2> QED
      BY <1>2, <1>4, <2>1, After DEF Earned, Over
  <1>5. CASE AfterStep(l).at = "history" /\ AfterStep(l).step = l.step /\ l.step \in {3, 4}
    <2>1. Required \subseteq t.checkpoint
      BY <1>2, <1>3, <1>5, ActionCases DEF Required
    <2> QED
      BY <1>2, <1>5, <2>1, After DEF Earned, Over
  <1> QED
    BY <1>4, <1>5, After

LEMMA CheckStep ==
    ASSUME Inv, NEW w \in Workers, GetCompleted(w)
    PROVE  Inv'
  <1>1. work[w].at = "check" /\ UNCHANGED <<Tables, req, mishaps>> /\ MishapsGrow
    BY SameMishaps DEF GetCompleted
  <1>2. PICK t \in Trails, c \in CrmRows : t = trail[Row(w)] /\ c = crm[Row(w)]
    BY <1>1, Here
  <1>3. Before(work[w], t, c) /\ enriched = TRUE /\ RowOK(t, c, enriched, log[Row(w)].status)
    BY <1>1, <1>2, Here DEF Before, Earned
  <1>4. CASE Action(w) \in trail[Row(w)].checkpoint
    <2>1. work' = [work EXCEPT ![w] = AfterStep(Skipped(w))]
      BY <1>4 DEF GetCompleted
    <2>2. PICK k \in Work : k = Skipped(w)
      BY <1>1, <1>2, Here DEF Skipped, NoteKept, Work, Trails
    <2>3. /\ k.step = work[w].step /\ k.row = Row(w) /\ Actions[k.step] \in t.checkpoint
          /\ k.noteId = IF k.step = 2 THEN t.noteId ELSE work[w].noteId
          /\ k.opportunity = (work[w].opportunity \/ k.step = 4)
      BY <1>1, <1>2, <1>4, <2>2, Here, ActionCases DEF Skipped, NoteKept, Work, Action
    <2>4. /\ Before(k, t, c) /\ (k.step = 2 => k.noteId \in 1 .. c.notes)
          /\ k.opportunity => "create_opportunity" \in t.checkpoint
      <3>1. k.step = 4 => "create_opportunity" \in t.checkpoint
        BY <2>3, ActionCases
      <3>2. k.step = 2 => k.noteId \in 1 .. c.notes
        BY <1>3, <2>3, ActionCases DEF RowOK
      <3>3. Before(k, t, c)
        BY <1>3, <2>3 DEF Before
      <3>4. work[w].opportunity => "create_opportunity" \in t.checkpoint
        BY <1>1, <1>2, Here DEF Earned
      <3> QED
        BY <2>3, <3>1, <3>2, <3>3, <3>4
    <2>5. Earned(AfterStep(k), t, c, TRUE)
      BY <2>3, <2>4, AfterEarns
    <2>6. PICK l \in Work : l = AfterStep(k)
      BY After
    <2>7. l.row = Row(w) /\ l.at \in {"check", "history"} /\ l.noteId = k.noteId
      BY <2>3, <2>6, After
    <2>8. mishaps.overlaps = 0 => Single(l, t, log[Row(w)].status)
      <3>1. mishaps.overlaps = 0 /\ l.step > 2 => l.noteId = t.noteId
        BY <1>1, <1>2, <2>3, <2>6, <2>7, After, Here DEF Single, Work
      <3> QED
        BY <2>7, <3>1 DEF Single
    <2> QED
      BY <1>1, <1>2, <1>3, <2>1, <2>2, <2>5, <2>6, <2>7, <2>8, MovePreserves
  <1>5. CASE Action(w) \notin trail[Row(w)].checkpoint
    <2>1. PICK l \in Work :
              /\ work' = [work EXCEPT ![w] = l] /\ l.at = "call" /\ l.row = Row(w)
              /\ l.step = work[w].step /\ l.noteId = work[w].noteId
              /\ l.opportunity = work[w].opportunity
      BY <1>1, <1>5, GoesTo DEF GetCompleted, InTry
    <2>2. Earned(l, trail[Row(w)], crm[Row(w)], enriched)
      BY <1>1, <2>1, Here DEF Earned, Over
    <2>3. mishaps.overlaps = 0 => Single(l, trail[Row(w)], log[Row(w)].status)
      BY <1>1, <1>5, <2>1, Here DEF Single, Action
    <2> QED
      BY <1>1, <2>1, <2>2, <2>3, MovePreserves
  <1> QED
    BY <1>4, <1>5

LEMMA CallStep ==
    ASSUME Inv, NEW w \in Workers, CallTwenty(w)
    PROVE  Inv'
  <1>1. work[w].at = "call" /\ MishapsGrow /\ enriched' = enriched /\ log' = log
        /\ UNCHANGED <<marks, job, trail, acked, sent, req, mishaps>>
    BY SameMishaps DEF CallTwenty
  <1>2. PICK r \in Logs, t \in Trails, b \in CrmRows, s \in Statuses :
            r = Row(w) /\ t = trail[r] /\ b = crm[r] /\ s = log[r].status
    BY <1>1, Here DEF Statuses
  <1>3. /\ RowOK(t, b, enriched, s) /\ Earned(work[w], t, b, enriched)
        /\ mishaps.overlaps = 0 =>
              /\ Single(work[w], t, s) /\ OneNote(t, b)
    BY <1>1, <1>2, Here
  \* What the call of each step changes.
  <1>4. PICK c \in CrmRows :
           /\ c = Written(w)
           /\ work[w].step = 1 => /\ c.updated = TRUE /\ c.notes = b.notes
                                  /\ c.linked = b.linked /\ c.opportunities = b.opportunities
           /\ work[w].step = 2 => /\ c.updated = b.updated /\ c.notes = b.notes + 1
                                  /\ c.linked = b.linked /\ c.opportunities = b.opportunities
           /\ work[w].step = 3 => /\ c.updated = b.updated /\ c.notes = b.notes
                                  /\ c.linked = b.linked \union {work[w].noteId}
                                  /\ c.opportunities = b.opportunities
           /\ work[w].step = 4 => /\ c.updated = b.updated /\ c.notes = b.notes
                                  /\ c.linked = b.linked /\ c.opportunities = b.opportunities + 1
    <2>0. work[w] \in Work /\ work[w].noteId \in Nat
      BY <1>1, Here DEF Work
    <2>1. CASE work[w].step = 1
      <3>1. Written(w) = [b EXCEPT !.updated = TRUE]
        BY <1>2, <2>0, <2>1, ActionCases DEF Written, Action
      <3>2. [b EXCEPT !.updated = TRUE] \in CrmRows
        BY DEF CrmRows
      <3>3. [b EXCEPT !.updated = TRUE].updated = TRUE
        BY Zenon DEF CrmRows
      <3>4. /\ [b EXCEPT !.updated = TRUE].notes = b.notes
            /\ [b EXCEPT !.updated = TRUE].linked = b.linked
            /\ [b EXCEPT !.updated = TRUE].opportunities = b.opportunities
        BY DEF CrmRows
      <3>5. PICK c \in CrmRows :
               /\ c = Written(w) /\ c.updated = TRUE /\ c.notes = b.notes
               /\ c.linked = b.linked /\ c.opportunities = b.opportunities
        BY <3>1, <3>2, <3>3, <3>4, Zenon
      <3> QED
        BY <2>1, <3>5
    <2>2. CASE work[w].step = 2
      <3>1. Written(w) = [b EXCEPT !.notes = @ + 1]
        BY <1>2, <2>0, <2>2, ActionCases DEF Written, Action
      <3> QED
        BY <2>2, <3>1 DEF CrmRows
    <2>3. CASE work[w].step = 3
      <3>1. Written(w) = [b EXCEPT !.linked = @ \union {work[w].noteId}]
        BY <1>2, <2>0, <2>3, ActionCases DEF Written, Action
      <3> QED
        BY <2>0, <2>3, <3>1 DEF CrmRows
    <2>4. CASE work[w].step = 4
      <3>1. Written(w) = [b EXCEPT !.opportunities = @ + 1]
        BY <1>2, <2>0, <2>4, ActionCases DEF Written, Action
      <3> QED
        BY <2>4, <3>1 DEF CrmRows
    <2> QED
      BY <2>0, <2>1, <2>2, <2>3, <2>4, ActionCases
  <1>5. crm' = [crm EXCEPT ![r] = c] /\ crm'[r] = c
    BY <1>2, <1>4 DEF CallTwenty, Inv, TypeOK
  <1>6. PICK n \in Nat : n = IF work[w].step = 2 THEN c.notes ELSE work[w].noteId
    BY <1>1, Here DEF CrmRows, Work
  <1> DEFINE l == [work[w] EXCEPT !.at = "record", !.noteId = n]
  <1>7. work' = [work EXCEPT ![w] = l]
    <2>1. Action(w) = "create_note" <=> work[w].step = 2
      BY <1>1, Here, ActionCases DEF Action
    <2>2. n = IF Action(w) = "create_note" THEN crm'[Row(w)].notes ELSE work[w].noteId
      BY <1>2, <1>5, <1>6, <2>1
    <2>3. CASE work[w].step = 2
      <3>1. n = crm'[Row(w)].notes
        BY <2>1, <2>2, <2>3
      <3>2. work' = [work EXCEPT ![w].at = "record", ![w].noteId = n]
        BY <2>1, <2>3, <3>1 DEF CallTwenty
      <3> QED
        BY <3>2 DEF Inv, TypeOK
    <2>4. CASE work[w].step # 2
      <3>1. work' = [work EXCEPT ![w].at = "record", ![w].noteId = work[w].noteId]
        BY <2>1, <2>4 DEF CallTwenty
      <3> QED
        BY <1>6, <2>4, <3>1 DEF Inv, TypeOK
    <2> QED
      BY <2>3, <2>4
  <1>8. /\ l \in Work /\ l.at = "record" /\ l.step = work[w].step /\ l.row = r
        /\ l.noteId = n /\ l.opportunity = work[w].opportunity
    BY <1>1, <1>2, Here DEF Work, InTry
  <1> HIDE DEF l
  <1>10. Grows(t, b, enriched, t, c, enriched)
    BY <1>1, <1>4, Here, ActionCases DEF Grows, CrmRows, Trails
  <1>11. RowOK(t, c, enriched, s)
    <2>1. work[w].step \in 1 .. 4 /\ (work[w].step > 2 => work[w].noteId \in 1 .. b.notes)
      BY <1>1, <1>3, Here DEF Work, Earned
    <2>2. b.notes \in Nat /\ c.notes \in Nat /\ b.opportunities \in Nat /\ t.noteId \in Nat
      BY DEF CrmRows, Trails
    <2>3. c.linked \subseteq 1 .. c.notes /\ (b.linked # {} => c.linked # {})
      BY <1>3, <1>4, <2>1, <2>2 DEF RowOK
    <2> QED
      BY <1>3, <1>4, <1>10, <2>1, <2>2, <2>3 DEF RowOK, Grows
  <1>12. Earned(l, t, c, enriched)
    <2>1. Earned(work[w], t, c, enriched)
      BY <1>1, <1>2, <1>3, <1>10, EarnedKept, Here
    <2>2. /\ work[w].step = 2 => n \in 1 .. c.notes
          /\ work[w].step = 3 => n \in c.linked
          /\ work[w].step = 4 => c.opportunities > 0
          /\ work[w].step # 2 => n = work[w].noteId
      BY <1>6, <1>4 DEF CrmRows
    <2> QED
      BY <1>1, <1>8, <1>4, <2>1, <2>2 DEF Earned, Over
  <1>13. ASSUME mishaps.overlaps = 0
         PROVE  /\ Single(l, t, s) /\ OneNote(t, c)
    <2>1. b.notes \in Nat /\ b.opportunities \in Nat /\ work[w].step \in 1 .. 4
      BY <1>1, Here DEF CrmRows, Work
    <2>2. /\ work[w].step > 2 => work[w].noteId = t.noteId /\ "create_note" \in t.checkpoint
          /\ work[w].step = 2 => "create_note" \notin t.checkpoint
          /\ work[w].step = 4 => "create_opportunity" \notin t.checkpoint
          /\ Actions[work[w].step] \notin t.checkpoint
      <3>1. Actions[work[w].step] \notin t.checkpoint
        BY <1>1, <1>3, <1>13 DEF Single
      <3>2. work[w].step > 2 => work[w].noteId = t.noteId /\ "create_note" \in t.checkpoint
        BY <1>3, <1>13 DEF Single, Earned
      <3> QED
        BY <1>1, <3>1, <3>2, Here, ActionCases
    <2>3. Single(l, t, s)
      BY <1>6, <1>8, <2>1, <2>2 DEF Single
    <2>4. OneNote(t, c)
      BY <1>3, <1>4, <1>13, <2>1, <2>2 DEF OneNote
    <2> QED
      BY <1>3, <1>8, <1>4, <1>13, <2>1, <2>2, <2>3, <2>4
  <1>14. WorkerMay(l, t, c, s)
    BY <1>1, <1>8, <1>11, <1>12, <1>13 DEF WorkerMay
  <1>15. WorkerTo(w, r, l, t, c, s)
    <2>1. trail' = [trail EXCEPT ![r] = t]
      BY <1>1, <1>2 DEF Inv, TypeOK
    <2> QED
      BY <1>1, <1>2, <1>5, <1>7, <1>8, <1>10, <2>1, Here DEF WorkerTo
  <1> QED
    BY <1>1, <1>8, <1>14, <1>15, WorkerPreserves

LEMMA RecordStep ==
    ASSUME Inv, NEW w \in Workers, RecordSuccess(w)
    PROVE  Inv'
  <1>1. /\ work[w].at = "record" /\ MishapsGrow /\ enriched' = enriched /\ log' = log
        /\ UNCHANGED <<marks, job, crm, acked, sent, req, mishaps>>
    BY SameMishaps DEF RecordSuccess
  <1>2. PICK r \in Logs, b \in Trails, c \in CrmRows, s \in Statuses, k \in Work :
            /\ r = Row(w) /\ b = trail[r] /\ c = crm[r] /\ s = log[r].status /\ k = work[w]
            /\ k.row = r
    BY <1>1, Here DEF Statuses
  <1>3. /\ RowOK(b, c, enriched, s) /\ Earned(k, b, c, enriched) /\ Before(k, b, c)
        /\ enriched = TRUE
        /\ mishaps.overlaps = 0 =>
              /\ Single(k, b, s) /\ OneNote(b, c)
    BY <1>1, <1>2, Here DEF Earned, Before
  <1>4. PICK a \in {Actions[i] : i \in 1 .. 4} : a = Action(w) /\ a = Actions[k.step]
    BY <1>2 DEF Action, Work
  <1>5. PICK n \in Nat : n = IF a = "create_note" THEN k.noteId ELSE b.noteId
    BY DEF Work, Trails
  <1>6. PICK t \in Trails :
           /\ trail' = [trail EXCEPT ![r] = t]
           /\ t.checkpoint = b.checkpoint \union {a} /\ t.noteId = n
           /\ t.scores = b.scores /\ t.audited = b.audited
           /\ t.opportunityCreated = b.opportunityCreated
    <2> DEFINE t == [b EXCEPT !.checkpoint = @ \union {a}, !.noteId = n]
    <2>1. /\ t \in Trails /\ t.checkpoint = b.checkpoint \union {a} /\ t.noteId = n
          /\ t.scores = b.scores /\ t.audited = b.audited
          /\ t.opportunityCreated = b.opportunityCreated
      BY DEF Trails
    <2>2. trail' = [trail EXCEPT ![r].checkpoint = @ \union {a}, ![r].noteId = n]
      <3>1. CASE a = "create_note"
        BY <1>2, <1>4, <1>5, <3>1 DEF RecordSuccess
      <3>2. CASE a # "create_note"
        <4>1. trail' = [trail EXCEPT ![r].checkpoint = @ \union {a}, ![r].noteId = @]
          BY <1>2, <1>4, <3>2 DEF RecordSuccess
        <4> QED
          BY <1>2, <1>5, <3>2, <4>1 DEF Inv, TypeOK, Trails
      <3> QED
        BY <3>1, <3>2
    <2>3. trail' = [trail EXCEPT ![r] = t]
      BY <1>2, <2>2 DEF Inv, TypeOK
    <2> QED
      BY <2>1, <2>3
  <1>7. PICK m \in Work :
           /\ work' = [work EXCEPT ![w] = AfterStep(m)]
           /\ m.row = r /\ m.step = k.step /\ m.noteId = k.noteId
           /\ m.opportunity = (k.opportunity \/ a = "create_opportunity")
    <2> DEFINE m == [k EXCEPT !.opportunity = @ \/ a = "create_opportunity"]
    <2>1. /\ m \in Work /\ m.row = r /\ m.step = k.step /\ m.noteId = k.noteId
          /\ m.opportunity = (k.opportunity \/ a = "create_opportunity")
      BY <1>2 DEF Work
    <2>2. work' = [work EXCEPT ![w] = AfterStep(m)]
      <3>1. work' = [work EXCEPT ![w] = AfterStep([work[w] EXCEPT !.opportunity =
                                             @ \/ Action(w) = "create_opportunity"])]
        BY DEF RecordSuccess, Inv, TypeOK
      <3>2. m = [work[w] EXCEPT !.opportunity = @ \/ Action(w) = "create_opportunity"]
        BY <1>2, <1>4, Zenon
      <3> HIDE DEF m
      <3> QED
        BY <3>1, <3>2, Zenon
    <2> QED
      BY <2>1, <2>2
  <1>8. PICK l \in Work : l = AfterStep(m) /\ l.row = r /\ l.noteId = k.noteId
                         /\ l.at \in {"check", "history"} /\ l.step >= k.step
                         /\ (l.step > 2 => k.step >= 2)
    BY <1>7, After DEF Work
  <1>9. crm' = [crm EXCEPT ![r] = c]
    BY <1>1, <1>2 DEF Inv, TypeOK
  <1>10. Grows(b, c, enriched, t, c, enriched)
    BY <1>6 DEF Grows, CrmRows, Trails
  <1>11. RowOK(t, c, enriched, s)
    <2>1. /\ a = "update_person" => c.updated
          /\ a = "create_note" => k.noteId \in 1 .. c.notes
          /\ a = "link_note_to_person" => c.linked # {}
          /\ a = "create_opportunity" => c.opportunities > 0
      BY <1>1, <1>2, <1>3, <1>4, ActionCases DEF Earned
    <2>2. "create_note" \in t.checkpoint => t.noteId \in 1 .. c.notes
      BY <1>3, <1>5, <1>6, <2>1 DEF RowOK
    <2> QED
      BY <1>3, <1>6, <2>1, <2>2 DEF RowOK
  <1>12. Earned(l, t, c, enriched)
    <2>1. Before(m, t, c) /\ Actions[m.step] \in t.checkpoint
      BY <1>3, <1>4, <1>6, <1>7 DEF Before
    <2>2. m.step = 2 => m.noteId \in 1 .. c.notes
      BY <1>1, <1>2, <1>3, <1>7 DEF Earned
    <2>3. m.opportunity => "create_opportunity" \in t.checkpoint
      BY <1>3, <1>6, <1>7 DEF Earned
    <2> QED
      BY <1>3, <1>8, <2>1, <2>2, <2>3, AfterEarns
  <1>13. ASSUME mishaps.overlaps = 0
         PROVE  /\ Single(l, t, s) /\ OneNote(t, c)
    <2>1. a \notin b.checkpoint /\ (k.step > 2 => k.noteId = b.noteId)
      BY <1>1, <1>2, <1>3, <1>4, <1>13 DEF Single
    <2>2. (a = "create_note" <=> k.step = 2) /\ (a = "create_opportunity" <=> k.step = 4)
      BY <1>4, ActionCases
    <2>3. l.step > 2 => l.noteId = t.noteId
      BY <1>5, <1>6, <1>8, <2>1, <2>2 DEF Work
    <2>4. Single(l, t, s)
      BY <1>8, <2>3 DEF Single
    <2>5. OneNote(t, c)
      BY <1>3, <1>5, <1>6, <1>13, <2>1 DEF OneNote
    <2> QED
      BY <1>3, <1>6, <1>13, <2>2, <2>4, <2>5
  <1>14. WorkerMay(l, t, c, s)
    BY <1>1, <1>11, <1>12, <1>13 DEF WorkerMay
  <1>15. WorkerTo(w, r, l, t, c, s)
    BY <1>1, <1>2, <1>3, <1>6, <1>7, <1>8, <1>9, <1>10 DEF WorkerTo
  <1> QED
    BY <1>1, <1>14, <1>15, WorkerPreserves

\* The score entry and the success entry of a row whose required writes are recorded.
LEMMA TrailStep ==
    ASSUME Inv, NEW w \in Workers,
           SaveScore(w) \/ AuditSuccess(w)
    PROVE  Inv'
  <1>1. /\ work[w].at \in {"history", "audit"} /\ MishapsGrow /\ enriched' = enriched /\ log' = log
        /\ UNCHANGED <<marks, job, crm, acked, sent, req, mishaps>>
        /\ Goes(w, IF work[w].at = "history" THEN "audit" ELSE "success")
    BY SameMishaps DEF SaveScore, AuditSuccess
  <1>2. PICK r \in Logs, b \in Trails, c \in CrmRows, s \in Statuses, k \in Work :
            /\ r = Row(w) /\ b = trail[r] /\ c = crm[r] /\ s = log[r].status /\ k = work[w]
            /\ k.row = r
    BY <1>1, Here DEF Statuses
  <1>3. /\ RowOK(b, c, enriched, s) /\ Earned(k, b, c, enriched) /\ enriched = TRUE
        /\ Required \subseteq b.checkpoint
        /\ mishaps.overlaps = 0 =>
              /\ Single(k, b, s) /\ OneNote(b, c)
    BY <1>1, <1>2, Here DEF Earned, Over
  <1>4. PICK t \in Trails :
           /\ trail' = [trail EXCEPT ![r] = t]
           /\ t.checkpoint = b.checkpoint /\ t.noteId = b.noteId
           /\ k.at = "history" => /\ t.scores = b.scores + 1 /\ t.audited = b.audited
                                  /\ t.opportunityCreated = b.opportunityCreated
           /\ k.at = "audit" => /\ t.scores = b.scores /\ t.audited = TRUE
                                /\ t.opportunityCreated = k.opportunity
    <2>1. CASE SaveScore(w)
      <3> DEFINE t == [b EXCEPT !.scores = @ + 1]
      <3>1. /\ t \in Trails /\ t.checkpoint = b.checkpoint /\ t.noteId = b.noteId
            /\ t.scores = b.scores + 1 /\ t.audited = b.audited
            /\ t.opportunityCreated = b.opportunityCreated
        BY DEF Trails
      <3>2. trail' = [trail EXCEPT ![r] = t] /\ k.at = "history"
        BY <1>2, <2>1 DEF SaveScore, Inv, TypeOK
      <3> QED
        BY <3>1, <3>2
    <2>2. CASE AuditSuccess(w)
      <3>1. PICK o \in BOOLEAN : o = k.opportunity
        BY DEF Work
      <3>2. PICK t : t = [b EXCEPT !.audited = TRUE, !.opportunityCreated = o]
        OBVIOUS
      <3>3. t \in Trails /\ t.checkpoint = b.checkpoint /\ t.noteId = b.noteId /\ t.scores = b.scores
        BY <3>2 DEF Trails
      <3>4. t.audited = TRUE
        BY <3>2, Zenon DEF Trails
      <3>5. t.opportunityCreated = o
        BY <3>2, Zenon DEF Trails
      <3>6. trail' = [trail EXCEPT ![r].audited = TRUE, ![r].opportunityCreated = o]
        BY <1>2, <2>2, <3>1, Zenon DEF AuditSuccess
      <3>7. trail' = [trail EXCEPT ![r] = t]
        BY <1>2, <3>2, <3>6 DEF Inv, TypeOK
      <3>8. k.at = "audit"
        BY <1>2, <2>2 DEF AuditSuccess
      <3> QED
        BY <3>1, <3>3, <3>4, <3>5, <3>7, <3>8
    <2> QED
      BY <2>1, <2>2
  <1>5. PICK l \in Work :
            /\ work' = [work EXCEPT ![w] = l] /\ l.row = r
            /\ l.at = (IF k.at = "history" THEN "audit" ELSE "success")
            /\ l.step = k.step /\ l.noteId = k.noteId /\ l.opportunity = k.opportunity
    BY <1>1, <1>2, GoesTo DEF InTry
  <1>6. crm' = [crm EXCEPT ![r] = c] /\ b.scores \in Nat /\ k.at \in {"history", "audit"}
    BY <1>1, <1>2 DEF Inv, TypeOK, Trails
  <1>7. Grows(b, c, enriched, t, c, enriched)
    BY <1>4, <1>6 DEF Grows, CrmRows, Trails
  <1>8. RowOK(t, c, enriched, s)
    <2>1. t.audited => enriched /\ t.scores > 0 /\ Required \subseteq t.checkpoint
      <3>1. t.audited => t.scores > 0
        <4>1. CASE k.at = "history"
          BY <1>3, <1>4, <1>6, <4>1 DEF RowOK
        <4>2. CASE k.at = "audit"
          BY <1>3, <1>4, <4>2 DEF Earned
        <4> QED
          BY <1>6, <4>1, <4>2
      <3> QED
        BY <1>3, <1>4, <3>1
    <2>2. t.opportunityCreated => "create_opportunity" \in t.checkpoint
      BY <1>3, <1>4, <1>6 DEF RowOK, Earned
    <2>3. s = "success" => t.audited
      BY <1>3, <1>4, <1>6 DEF RowOK
    <2> QED
      BY <1>3, <1>4, <2>1, <2>2, <2>3 DEF RowOK
  <1>9. Earned(l, t, c, enriched)
    <2>1. Earned(k, t, c, enriched)
      BY <1>3, <1>7, EarnedKept
    <2>2. (l.at = "audit" => t.scores > 0) /\ (l.at = "success" => t.audited)
      BY <1>4, <1>5, <1>6
    <2> QED
      BY <1>3, <1>4, <1>5, <1>6, <2>1, <2>2 DEF Earned, Over
  <1>10. mishaps.overlaps = 0 => Single(l, t, s) /\ OneNote(t, c)
    BY <1>3, <1>4, <1>5, <1>6 DEF Single, OneNote
  <1>11. WorkerMay(l, t, c, s)
    BY <1>1, <1>3, <1>4, <1>8, <1>9, <1>10 DEF WorkerMay
  <1>12. WorkerTo(w, r, l, t, c, s)
    BY <1>1, <1>2, <1>3, <1>4, <1>5, <1>6, <1>7 DEF WorkerTo
  <1> QED
    BY <1>1, <1>11, <1>12, WorkerPreserves

LEMMA ThrowStep ==
    ASSUME Inv, NEW w \in Workers, JobThrows(w)
    PROVE  Inv'
  <1>1. /\ work[w].at \in InTry \union {"start", "catch"} /\ UNCHANGED <<Tables, req>>
        /\ Goes(w, IF work[w].at \in InTry THEN "catch" ELSE "attempt_failed")
    BY DEF JobThrows
  <1>2. work[w].at # "idle"
    BY <1>1 DEF InTry
  <1>3. PICK l \in Work :
            /\ work' = [work EXCEPT ![w] = l] /\ l.at \in {"catch", "attempt_failed"}
            /\ l.row = Row(w) /\ l.step = work[w].step /\ l.noteId = work[w].noteId
            /\ l.opportunity = work[w].opportunity
    BY <1>1, <1>2, GoesTo
  <1>4. MishapsGrow
    <2>1. CASE work[w].at = "record"
      <3>1. mishaps' = [mishaps EXCEPT !["cuts"] = @ + 1]
        BY <2>1 DEF JobThrows, Cut, Mishap
      <3> QED
        BY <3>1 DEF Inv, TypeOK, MishapsGrow
    <2>2. CASE work[w].at # "record"
      <3>1. mishaps' = [mishaps EXCEPT !["faults"] = @ + 1]
        BY <2>2 DEF JobThrows, Cut, Mishap
      <3> QED
        BY <2>2, <3>1 DEF Inv, TypeOK, MishapsGrow
    <2> QED
      BY <2>1, <2>2
  <1>5. Earned(l, trail[Row(w)], crm[Row(w)], enriched)
    BY <1>2, <1>3, Here DEF Earned, Over
  <1>6. mishaps.overlaps = 0 => Single(l, trail[Row(w)], log[Row(w)].status)
    BY <1>2, <1>3, Here DEF Single
  <1> QED
    BY <1>1, <1>2, <1>3, <1>4, <1>5, <1>6, MovePreserves

LEMMA ProcessStep ==
    ASSUME Inv, NEW w \in Workers, Process(w)
    PROVE  Inv'
  BY StatusStep, EnrichStep, ScoreStep, CheckStep, CallStep, RecordStep, TrailStep, ThrowStep
  DEF Process

------------------------------------------------------------------------------
(* Steps of the queue and restarts: jobs and workers change, rows do not.   *)
Idle(l) == l.at = "idle"
Starting(l) == l.at = "start" /\ l.step = 1 /\ ~l.opportunity

JobsTo ==
    /\ UNCHANGED <<log, trail, crm, enriched>>
    /\ TypeOK' /\ Queued' /\ MishapsGrow
    /\ \A v \in Workers : work'[v] = work[v] \/ Idle(work'[v]) \/ Starting(work'[v])
    /\ mishaps'.overlaps = 0 =>
          /\ \A v \in Workers : ~Idle(work'[v]) => job'[work'[v].row].owner = v
          /\ \A r \in Logs : job'[r].state = "completed" => log[r].status = "success"

LEMMA JobsPreserve ==
    ASSUME Inv, JobsTo
    PROVE  Inv'
  <1>1. \A r \in Logs : RowOK(trail[r], crm[r], enriched, log[r].status)'
    BY DEF JobsTo, Inv, RowOK
  <1>2. ASSUME NEW v \in Workers, work'[v].at # "idle"
        PROVE  Earned(work[v], trail[Row(v)], crm[Row(v)], enriched)'
    <2>1. CASE work'[v] = work[v]
      BY <1>2, <2>1 DEF JobsTo, Inv, Earned, Row
    <2>2. CASE Starting(work'[v])
      BY <2>2 DEF Earned, Starting, Over
    <2> QED
      BY <1>2, <2>1, <2>2 DEF JobsTo, Idle
  <1>3. ASSUME mishaps'.overlaps = 0
        PROVE  Alone'
    <2>1. Alone
      BY <1>3 DEF JobsTo, MishapsGrow, Inv
    <2>2. ASSUME NEW v \in Workers, work'[v].at # "idle"
          PROVE  (job[Row(v)].owner = v /\ Single(work[v], trail[Row(v)], log[Row(v)].status))'
      <3>1. job'[Row(v)'].owner = v
        BY <1>3, <2>2 DEF JobsTo, Idle, Row
      <3>2. CASE work'[v] = work[v]
        BY <2>1, <2>2, <3>1, <3>2 DEF JobsTo, Alone, Single, Row
      <3>3. CASE Starting(work'[v])
        BY <3>1, <3>3 DEF Single, Starting
      <3> QED
        BY <2>2, <3>2, <3>3 DEF JobsTo, Idle
    <2>3. ASSUME NEW r \in Logs
          PROVE  /\ OneNote(trail[r], crm[r])'
                 /\ job'[r].state = "completed" => log'[r].status = "success"
      <3>1. OneNote(trail[r], crm[r])'
        BY <2>1 DEF Alone, OneNote, JobsTo
      <3> QED
        BY <1>3, <3>1 DEF JobsTo
    <2> QED
      BY <2>2, <2>3 DEF Alone
  <1> QED
    BY <1>1, <1>2, <1>3 DEF Inv, JobsTo

LEMMA NoWorkTyped == NoWork \in Work /\ Idle(NoWork)
  BY DEF NoWork, Work, Idle

\* The job of row r becomes j.
LEMMA JobSet ==
    ASSUME Inv, NEW r \in Logs, NEW j \in Jobs, job' = [job EXCEPT ![r] = j]
    PROVE  job'[r] = j /\ (\A q \in Logs : q # r => job'[q] = job[q]) /\ job' \in [Logs -> Jobs]
  BY DEF Inv, TypeOK

LEMMA TakeStep ==
    ASSUME Inv, NEW w \in Workers, NEW r \in Logs, Take(w, r)
    PROVE  Inv'
  <1>1. /\ work[w].at = "idle" /\ job[r].state = "waiting"
        /\ UNCHANGED <<marks, log, trail, crm, enriched, acked, sent, req, mishaps>> /\ MishapsGrow
    BY SameMishaps DEF Take
  <1>2. PICK l \in Work : l = [NoWork EXCEPT !.at = "start", !.row = r]
    <2>1. r \in Nat
      BY PipelineAssumption DEF Logs
    <2> QED
      BY <2>1, NoWorkTyped DEF Work
  <1>3. Starting(l) /\ l.row = r /\ ~Idle(l) /\ l.at = "start"
    BY <1>2 DEF Starting, Idle, NoWork
  <1>4. work' = [work EXCEPT ![w] = l]
    BY <1>2 DEF Take
  <1>5. job[r] \in Jobs /\ job \in [Logs -> Jobs]
    BY DEF Inv, TypeOK
  <1>6. /\ job'[r].state = "active" /\ job'[r].owner = w
        /\ job'[r].attemptsMade = job[r].attemptsMade /\ job'[r].stalled = job[r].stalled
        /\ \A q \in Logs : q # r => job'[q] = job[q]
        /\ job' \in [Logs -> Jobs]
    <2>0. PICK b \in Jobs : b = job[r]
      BY <1>5
    <2>1. PICK j : j = [b EXCEPT !.state = "active", !.owner = w]
      OBVIOUS
    <2>4. /\ j \in Jobs /\ j.state = "active" /\ j.owner = w
          /\ j.attemptsMade = b.attemptsMade /\ j.stalled = b.stalled
      BY <2>1 DEF Jobs
    <2>2. job' = [job EXCEPT ![r] = j]
      <3>1. j = [b EXCEPT !.state = "active", !.owner = w]
        BY <2>1
      <3>2. job' = [job EXCEPT ![r].state = "active", ![r].owner = w]
        BY DEF Take
      <3> QED
        BY <1>5, <2>0, <3>1, <3>2
    <2>3. job'[r] = j /\ (\A q \in Logs : q # r => job'[q] = job[q]) /\ job' \in [Logs -> Jobs]
      BY <2>2, <2>4, JobSet
    <2> QED
      BY <2>0, <2>3, <2>4
  <1>7. work'[w] = l /\ (\A v \in Workers : v # w => work'[v] = work[v]) /\ work' \in [Workers -> Work]
    BY <1>4 DEF Inv, TypeOK
  <1>8. TypeOK'
    BY <1>1, <1>6, <1>7 DEF Inv, TypeOK
  <1>9. Queued'
    <2>1. \A q \in Logs :
             /\ log[q].status = "none" => job'[q].state = "none"
             /\ job'[q].state = "active" <=> job'[q].owner # NoWorker
             /\ job'[q].state \in {"none", "waiting", "active"} =>
                   job'[q].attemptsMade < MaxAttempts /\ job'[q].stalled <= MaxStalled
      BY <1>1, <1>6, PipelineAssumption DEF Inv, Queued
    <2>2. \A p \in Procs : req[p].at = "add" => job'[req[p].row].state = "none"
      BY <1>1, <1>6 DEF Inv, Queued
    <2>3. \A v \in Workers : work'[v].at # "idle" =>
             work'[v].row \in Logs /\ job'[work'[v].row].state # "none"
      BY <1>3, <1>6, <1>7 DEF Inv, Queued, Row
    <2> QED
      BY <1>1, <2>1, <2>2, <2>3 DEF Inv, Queued, Row
  <1>10. ASSUME mishaps'.overlaps = 0
         PROVE  /\ \A v \in Workers : ~Idle(work'[v]) => job'[work'[v].row].owner = v
                /\ \A q \in Logs : job'[q].state = "completed" => log[q].status = "success"
    <2>1. Alone
      BY <1>1, <1>10 DEF Inv
    <2>2. \A v \in Workers : ~Idle(work[v]) => work[v].row # r
      BY <1>1, <2>1, PipelineAssumption DEF Alone, Inv, Queued, Row, Idle
    <2>3. \A v \in Workers : ~Idle(work[v]) => work[v].row \in Logs /\ job[work[v].row].owner = v
      BY <2>1 DEF Alone, Inv, Queued, Row, Idle
    <2>4. \A v \in Workers : ~Idle(work'[v]) => job'[work'[v].row].owner = v
      BY <1>3, <1>6, <1>7, <2>2, <2>3
    <2> QED
      BY <1>6, <2>1, <2>4 DEF Alone
  <1>11. JobsTo
    BY <1>1, <1>3, <1>7, <1>8, <1>9, <1>10 DEF JobsTo
  <1> QED
    BY <1>11, JobsPreserve

LEMMA ReclaimStep ==
    ASSUME Inv, NEW r \in Logs, Reclaim(r)
    PROVE  Inv'
  <1>1. /\ job[r].state = "active" /\ UNCHANGED <<marks, log, trail, crm, enriched, acked, sent, req, work>>
    BY DEF Reclaim
  <1>2. MishapsGrow
    <2>1. CASE mishaps' = mishaps
      BY <2>1, SameMishaps
    <2>2. CASE Mishap("overlaps")
      <3>1. mishaps' = [mishaps EXCEPT !["overlaps"] = @ + 1]
        BY <2>2 DEF Mishap
      <3> QED
        BY <3>1 DEF Inv, TypeOK, MishapsGrow
    <2> QED
      BY <2>1, <2>2 DEF Reclaim
  <1>3. job[r] \in Jobs /\ job[r].stalled <= MaxStalled /\ job[r].attemptsMade < MaxAttempts
    BY <1>1 DEF Inv, TypeOK, Queued
  <1>4. PICK st \in {"waiting", "failed"}, n \in 0 .. MaxStalled + 1 :
           /\ n = job[r].stalled + 1 /\ (st = "waiting" => job[r].stalled < MaxStalled)
           /\ st = IF job[r].stalled < MaxStalled THEN "waiting" ELSE "failed"
    BY <1>3, PipelineAssumption DEF Jobs
  <1>5. PICK b \in Jobs : b = job[r]
    BY <1>3
  <1>51. PICK j : j = [b EXCEPT !.state = st, !.stalled = n, !.owner = NoWorker]
    OBVIOUS
  <1>52. /\ j \in Jobs /\ j.state = st /\ j.owner = NoWorker
         /\ j.attemptsMade = b.attemptsMade /\ j.stalled = n
    BY <1>51 DEF Jobs
  <1>6. /\ job'[r].state = st /\ job'[r].owner = NoWorker
        /\ job'[r].attemptsMade = job[r].attemptsMade /\ job'[r].stalled = n
        /\ \A q \in Logs : q # r => job'[q] = job[q]
        /\ job' \in [Logs -> Jobs]
    <2>1. job' = [job EXCEPT ![r].state = st, ![r].stalled = n, ![r].owner = NoWorker]
      BY <1>4 DEF Reclaim
    <2>2. job' = [job EXCEPT ![r] = j]
      <3>1. j = [b EXCEPT !.state = st, !.stalled = n, !.owner = NoWorker]
        BY <1>51
      <3>2. job \in [Logs -> Jobs]
        BY DEF Inv, TypeOK
      <3> QED
        BY <1>5, <2>1, <3>1, <3>2
    <2>3. job'[r] = j /\ (\A q \in Logs : q # r => job'[q] = job[q]) /\ job' \in [Logs -> Jobs]
      BY <1>52, <2>2, JobSet
    <2> QED
      BY <1>5, <1>52, <2>3
  <1>7. TypeOK'
    BY <1>1, <1>2, <1>6 DEF Inv, TypeOK, MishapsGrow
  <1>8. Queued'
    <2>1. \A q \in Logs :
             /\ log[q].status = "none" => job'[q].state = "none"
             /\ job'[q].state = "active" <=> job'[q].owner # NoWorker
             /\ job'[q].state \in {"none", "waiting", "active"} =>
                   job'[q].attemptsMade < MaxAttempts /\ job'[q].stalled <= MaxStalled
      BY <1>1, <1>3, <1>4, <1>6, PipelineAssumption DEF Inv, Queued, Jobs
    <2>2. \A p \in Procs : req[p].at = "add" => job'[req[p].row].state = "none"
      BY <1>1, <1>6 DEF Inv, Queued
    <2>3. \A v \in Workers : work[v].at # "idle" =>
             work[v].row \in Logs /\ job'[work[v].row].state # "none"
      BY <1>6 DEF Inv, Queued, Row
    <2> QED
      BY <1>1, <2>1, <2>2, <2>3 DEF Inv, Queued, Row
  <1>9. ASSUME mishaps'.overlaps = 0
        PROVE  /\ \A v \in Workers : ~Idle(work'[v]) => job'[work'[v].row].owner = v
               /\ \A q \in Logs : job'[q].state = "completed" => log[q].status = "success"
    <2>1. Alone
      BY <1>2, <1>9 DEF Inv, MishapsGrow
    <2>2. \A v \in Workers : ~Idle(work[v]) => work[v].row # r
      <3>1. CASE Mishap("overlaps")
        <4>1. mishaps' = [mishaps EXCEPT !["overlaps"] = @ + 1]
          BY <3>1 DEF Mishap
        <4> QED
          BY <1>9, <4>1 DEF Inv, TypeOK
      <3>2. CASE \A v \in Workers : ~Holds(v, r)
        BY <3>2 DEF Holds, Row, Idle
      <3> QED
        BY <3>1, <3>2 DEF Reclaim
    <2>3. \A v \in Workers : ~Idle(work[v]) => work[v].row \in Logs /\ job[work[v].row].owner = v
      BY <2>1 DEF Alone, Inv, Queued, Row, Idle
    <2>4. \A v \in Workers : ~Idle(work'[v]) => job'[work'[v].row].owner = v
      BY <1>1, <1>6, <2>2, <2>3
    <2> QED
      BY <1>6, <2>1, <2>4 DEF Alone
  <1>10. JobsTo
    BY <1>1, <1>2, <1>7, <1>8, <1>9 DEF JobsTo
  <1> QED
    BY <1>10, JobsPreserve

\* The end of an attempt: the worker is idle and, if it still owns the job, the job is j.
SettleTo(w, r, j) ==
    /\ r = Row(w)
    /\ work[w].at \in {"completed", "attempt_failed"}
    /\ job' = IF job[r].owner = w THEN [job EXCEPT ![r] = j] ELSE job
    /\ work' = [work EXCEPT ![w] = NoWork]
    /\ UNCHANGED <<marks, log, trail, crm, enriched, acked, sent, req, mishaps>>
    /\ job[r].owner = w =>
          /\ j \in Jobs /\ j.owner = NoWorker
          /\ j.state \in {"waiting", "completed", "failed"}
          /\ j.state = "waiting" => j.attemptsMade < MaxAttempts /\ j.stalled <= MaxStalled
          /\ j.state = "completed" => work[w].at = "completed"

LEMMA SettleStep ==
    ASSUME Inv, NEW w \in Workers, NEW r \in Logs, NEW j, SettleTo(w, r, j)
    PROVE  Inv'
  <1> USE DEF SettleTo
  <1>1. job[r].state # "none" /\ MishapsGrow
    BY SameMishaps DEF Inv, Queued
  <1>2. work'[w] = NoWork /\ (\A v \in Workers : v # w => work'[v] = work[v]) /\ work' \in [Workers -> Work]
    BY NoWorkTyped DEF Inv, TypeOK
  <1>3. /\ \A q \in Logs : q # r => job'[q] = job[q]
        /\ job' \in [Logs -> Jobs]
        /\ job[r].owner = w => job'[r] = j
        /\ job[r].owner # w => job'[r] = job[r]
    <2>1. CASE job[r].owner = w
      <3>1. job' = [job EXCEPT ![r] = j] /\ j \in Jobs
        BY <2>1
      <3> QED
        BY <2>1, <3>1, JobSet
    <2>2. CASE job[r].owner # w
      BY <2>2 DEF Inv, TypeOK
    <2> QED
      BY <2>1, <2>2
  <1>4. TypeOK'
    BY <1>2, <1>3 DEF Inv, TypeOK
  <1>5. Queued'
    <2>1. ASSUME NEW q \in Logs
          PROVE  /\ log[q].status = "none" => job'[q].state = "none"
                 /\ job'[q].state = "active" <=> job'[q].owner # NoWorker
                 /\ job'[q].state \in {"none", "waiting", "active"} =>
                       job'[q].attemptsMade < MaxAttempts /\ job'[q].stalled <= MaxStalled
      <3>1. CASE q = r /\ job[r].owner = w
        BY <1>1, <1>3, <3>1 DEF Inv, Queued
      <3>2. CASE ~(q = r /\ job[r].owner = w)
        BY <1>3, <3>2 DEF Inv, Queued
      <3> QED
        BY <3>1, <3>2
    <2>2. \A p \in Procs : req[p].at = "add" => job'[req[p].row].state = "none"
      BY <1>1, <1>3 DEF Inv, Queued
    <2>3. ASSUME NEW v \in Workers, work'[v].at # "idle"
          PROVE  work'[v].row \in Logs /\ job'[work'[v].row].state # "none"
      <3>1. v # w /\ work'[v] = work[v] /\ work[v].row \in Logs /\ job[work[v].row].state # "none"
        BY <1>2, <2>3, NoWorkTyped DEF Idle, Inv, Queued, Row
      <3>2. job'[r].state # "none"
        BY <1>1, <1>3
      <3> QED
        BY <1>3, <3>1, <3>2
    <2> QED
      BY <2>1, <2>2, <2>3 DEF Inv, Queued, Row
  <1>6. ASSUME mishaps'.overlaps = 0
        PROVE  /\ \A v \in Workers : ~Idle(work'[v]) => job'[work'[v].row].owner = v
               /\ \A q \in Logs : job'[q].state = "completed" => log[q].status = "success"
    <2>1. Alone
      BY <1>6 DEF Inv
    <2>2. job[r].owner = w /\ (work[w].at = "completed" => log[r].status = "success")
      BY <2>1 DEF Alone, Single
    <2>3. \A v \in Workers : v # w /\ ~Idle(work[v]) =>
             work[v].row \in Logs /\ work[v].row # r /\ job[work[v].row].owner = v
      BY <2>1, <2>2 DEF Alone, Idle, Inv, Queued, Row
    <2>4. \A v \in Workers : ~Idle(work'[v]) => job'[work'[v].row].owner = v
      BY <1>2, <1>3, <2>3, NoWorkTyped
    <2>5. \A q \in Logs : job'[q].state = "completed" => log[q].status = "success"
      BY <1>3, <2>1, <2>2 DEF Alone
    <2> QED
      BY <2>4, <2>5
  <1>7. \A v \in Workers : work'[v] = work[v] \/ Idle(work'[v])
    BY <1>2, NoWorkTyped
  <1>8. \A v \in Workers : work[v].at = "record" => work'[v] = work[v]
    BY <1>2
  <1>9. JobsTo
    BY <1>1, <1>4, <1>5, <1>6, <1>7, <1>8 DEF JobsTo
  <1> QED
    BY <1>9, JobsPreserve

LEMMA CompletedStep ==
    ASSUME Inv, NEW w \in Workers, JobCompleted(w)
    PROVE  Inv'
  <1>1. work[w].at = "completed"
    BY DEF JobCompleted, Settle
  <1>2. PICK r \in Logs : r = Row(w)
    BY <1>1 DEF Inv, Queued
  <1>3. PICK b \in Jobs : b = job[r]
    BY DEF Inv, TypeOK
  <1>4. PICK j : j = [b EXCEPT !.state = "completed", !.owner = NoWorker]
    OBVIOUS
  <1>5. j \in Jobs /\ j.owner = NoWorker /\ j.state = "completed"
    BY <1>4 DEF Jobs
  <1>6. job' = IF job[r].owner = w THEN [job EXCEPT ![r] = j] ELSE job
    <2>1. job' = IF job[Row(w)].owner = w
                 THEN [job EXCEPT ![Row(w)] = [job[Row(w)] EXCEPT !.state = "completed",
                                                                  !.owner = NoWorker]]
                 ELSE job
      BY DEF JobCompleted, Settle
    <2> QED
      BY <1>2, <1>3, <1>4, <2>1
  <1>7. /\ work' = [work EXCEPT ![w] = NoWork]
        /\ UNCHANGED <<marks, log, trail, crm, enriched, acked, sent, req, mishaps>>
    BY DEF JobCompleted, Settle
  <1>8. SettleTo(w, r, j)
    BY <1>1, <1>2, <1>5, <1>6, <1>7 DEF SettleTo
  <1> QED
    BY <1>8, SettleStep

LEMMA FailedStep ==
    ASSUME Inv, NEW w \in Workers, AttemptFailed(w)
    PROVE  Inv'
  <1>1. work[w].at = "attempt_failed"
    BY DEF AttemptFailed, Settle
  <1>2. PICK r \in Logs : r = Row(w)
    BY <1>1 DEF Inv, Queued
  <1>3. PICK b \in Jobs : b = job[r]
    BY DEF Inv, TypeOK
  <1>4. PICK st : st = IF b.state = "active" /\ b.attemptsMade + 1 < MaxAttempts
                       THEN "waiting" ELSE "failed"
    OBVIOUS
  <1>5. PICK j : j = [b EXCEPT !.state = st, !.attemptsMade = b.attemptsMade + 1, !.owner = NoWorker]
    OBVIOUS
  <1>6. job' = IF job[r].owner = w THEN [job EXCEPT ![r] = j] ELSE job
    BY <1>2, <1>3, <1>4, <1>5 DEF AttemptFailed, Settle
  <1>7. ASSUME job[r].owner = w
        PROVE  /\ j \in Jobs /\ j.owner = NoWorker
               /\ j.state \in {"waiting", "completed", "failed"}
               /\ j.state = "waiting" => j.attemptsMade < MaxAttempts /\ j.stalled <= MaxStalled
               /\ j.state = "completed" => work[w].at = "completed"
    <2>1. b.state = "active" /\ b.attemptsMade < MaxAttempts /\ b.stalled <= MaxStalled
      BY <1>3, <1>7, PipelineAssumption DEF Inv, Queued
    <2>2. b.attemptsMade \in Nat /\ MaxAttempts \in Nat /\ b.attemptsMade + 1 \in 0 .. MaxAttempts
      BY <2>1, PipelineAssumption DEF Jobs
    <2>3. st \in {"waiting", "failed"} /\ (st = "waiting" => b.attemptsMade + 1 < MaxAttempts)
      BY <1>4
    <2>4. /\ j \in Jobs /\ j.owner = NoWorker /\ j.state = st
          /\ j.attemptsMade = b.attemptsMade + 1 /\ j.stalled = b.stalled
      BY <1>5, <2>2, <2>3 DEF Jobs
    <2> QED
      BY <2>1, <2>3, <2>4
  <1>8. /\ work' = [work EXCEPT ![w] = NoWork]
        /\ UNCHANGED <<marks, log, trail, crm, enriched, acked, sent, req, mishaps>>
    BY DEF AttemptFailed, Settle
  <1>9. SettleTo(w, r, j)
    BY <1>1, <1>2, <1>6, <1>7, <1>8 DEF SettleTo
  <1> QED
    BY <1>9, SettleStep

LEMMA RestartStep ==
    ASSUME Inv, Restart
    PROVE  Inv'
  <1>1. mishaps' = [mishaps EXCEPT !["restarts"] = @ + 1]
    BY DEF Restart, Mishap
  <1>2. MishapsGrow
    BY <1>1 DEF Inv, TypeOK, MishapsGrow
  <1>3. /\ \A v \in Workers : Idle(work'[v])
        /\ work' \in [Workers -> Work] /\ UNCHANGED Tables
    BY NoWorkTyped DEF Restart
  <1>4. \A p \in Procs : req'[p] = NoRequest
    BY DEF Restart
  <1>5. req' \in [Procs -> Requests] /\ NoRequest.at = "idle"
    BY DEF Restart, NoRequest, Requests
  <1>6. TypeOK'
    BY <1>2, <1>3, <1>5 DEF Inv, TypeOK, Tables, MishapsGrow
  <1>7. Queued'
    BY <1>3, <1>4, <1>5 DEF Inv, Queued, Tables, Idle
  <1>8. mishaps'.overlaps = 0 =>
           \A q \in Logs : job'[q].state = "completed" => log[q].status = "success"
    BY <1>2, <1>3 DEF Inv, Alone, Tables, MishapsGrow
  <1>9. JobsTo
    BY <1>2, <1>3, <1>6, <1>7, <1>8 DEF JobsTo, Tables
  <1> QED
    BY <1>9, JobsPreserve

LEMMA QueueStep ==
    ASSUME Inv, Queue
    PROVE  Inv'
  BY TakeStep, ReclaimStep, CompletedStep, FailedStep DEF Queue

------------------------------------------------------------------------------
(* Steps of the requests.                                                   *)
LEMMA NoRequestTyped ==
    /\ NoRequest \in Requests /\ NoRequest.at = "idle"
    /\ \A n \in Notices : \E k \in Requests :
          k = [NoRequest EXCEPT !.at = "mark", !.notice = n] /\ k.at = "mark" /\ k.notice = n
  <1>1. NoRequest \in Requests /\ NoRequest.at = "idle"
    BY DEF NoRequest, Requests
  <1>2. ASSUME NEW n \in Notices
        PROVE  \E k \in Requests :
                  k = [NoRequest EXCEPT !.at = "mark", !.notice = n] /\ k.at = "mark" /\ k.notice = n
    <2>1. PICK k : k = [NoRequest EXCEPT !.at = "mark", !.notice = n]
      OBVIOUS
    <2>2. k \in Requests /\ k.at = "mark" /\ k.notice = n
      BY <2>1 DEF NoRequest, Requests
    <2> QED
      BY <2>1, <2>2
  <1> QED
    BY <1>1, <1>2

\* A request that goes on, without adding a job, to k.
LEMMA RequestGoes ==
    ASSUME Inv, NEW p \in Procs, NEW k \in Requests, req' = [req EXCEPT ![p] = k],
           k.at # "add", k.at # "idle" => k.notice \in Notices,
           UNCHANGED <<log, job, trail, crm, enriched, work>>, MishapsGrow,
           marks' \subseteq EventIds, acked' \subseteq Notices, sent' \in [Notices -> Nat]
    PROVE  Inv'
  <1>1. req'[p] = k /\ (\A q \in Procs : q # p => req'[q] = req[q]) /\ req' \in [Procs -> Requests]
    BY DEF Inv, TypeOK
  <1>2. TypeOK'
    BY <1>1 DEF Inv, TypeOK, MishapsGrow
  <1>3. Queued'
    BY <1>1 DEF Inv, Queued, Row
  <1>4. mishaps'.overlaps = 0 =>
           /\ \A v \in Workers : ~Idle(work'[v]) => job'[work'[v].row].owner = v
           /\ \A r \in Logs : job'[r].state = "completed" => log[r].status = "success"
    BY DEF Inv, Alone, MishapsGrow, Idle, Row
  <1>5. JobsTo
    BY <1>2, <1>3, <1>4 DEF JobsTo
  <1> QED
    BY <1>5, JobsPreserve

LEMMA DeliverStep ==
    ASSUME Inv, NEW p \in Procs, NEW n \in Notices, Deliver(p, n)
    PROVE  Inv'
  <1>1. PICK k \in Requests :
           k = [NoRequest EXCEPT !.at = "mark", !.notice = n] /\ k.at = "mark" /\ k.notice = n
    BY NoRequestTyped
  <1>2. req' = [req EXCEPT ![p] = k] /\ mishaps' = mishaps
    BY <1>1 DEF Deliver, Answer
  <1>3. sent' \in [Notices -> Nat] /\ marks' \subseteq EventIds /\ acked' \subseteq Notices
    BY DEF Deliver, Inv, TypeOK
  <1>4. UNCHANGED <<log, job, trail, crm, enriched, work>>
    BY DEF Deliver, Answer
  <1> QED
    BY <1>1, <1>2, <1>3, <1>4, SameMishaps, RequestGoes

LEMMA MarkStep ==
    ASSUME Inv, NEW p \in Procs, HasSeenOrMark(p)
    PROVE  Inv'
  <1>1. PICK b \in Requests : b = req[p] /\ b.at = "mark" /\ b.notice \in Notices
    BY DEF Inv, TypeOK, Queued, HasSeenOrMark
  <1>2. PICK k : k = [b EXCEPT !.at = "log"]
    OBVIOUS
  <1>3. k \in Requests /\ k.at = "log" /\ k.notice = b.notice
    BY <1>1, <1>2 DEF Requests
  <1>4. /\ UNCHANGED <<log, job, trail, crm, enriched, sent, work, mishaps>>
        /\ req' = [req EXCEPT ![p] = NoRequest] \/ req' = [req EXCEPT ![p] = k]
    BY <1>1, <1>2 DEF HasSeenOrMark, Answer
  <1>5. marks' \subseteq EventIds /\ acked' \subseteq Notices /\ sent' \in [Notices -> Nat]
    BY <1>1, PipelineAssumption DEF HasSeenOrMark, Mark, Inv, TypeOK
  <1>6. MishapsGrow
    BY <1>4, SameMishaps
  <1>7. CASE req' = [req EXCEPT ![p] = NoRequest]
    BY <1>4, <1>5, <1>6, <1>7, NoRequestTyped, RequestGoes
  <1>8. CASE req' = [req EXCEPT ![p] = k]
    BY <1>1, <1>3, <1>4, <1>5, <1>6, <1>8, RequestGoes
  <1> QED
    BY <1>4, <1>7, <1>8

LEMMA AnswerStep ==
    ASSUME Inv, NEW p \in Procs, AnswerWebhook(p)
    PROVE  Inv'
  <1>1. req[p].at = "answer" /\ req[p].notice \in Notices
    BY DEF Inv, Queued, AnswerWebhook
  <1>2. /\ UNCHANGED <<log, job, trail, crm, enriched, work, mishaps>>
        /\ req' = [req EXCEPT ![p] = NoRequest]
    BY DEF AnswerWebhook, Answer
  <1>3. marks' \subseteq EventIds /\ acked' \subseteq Notices /\ sent' \in [Notices -> Nat]
    BY <1>1 DEF AnswerWebhook, Inv, TypeOK
  <1> QED
    BY <1>2, <1>3, SameMishaps, NoRequestTyped, RequestGoes

LEMMA RequestThrowsStep ==
    ASSUME Inv, NEW p \in Procs, RequestThrows(p)
    PROVE  Inv'
  <1>1. mishaps' = [mishaps EXCEPT !["faults"] = @ + 1]
    BY DEF RequestThrows, Mishap
  <1>2. MishapsGrow
    BY <1>1 DEF Inv, TypeOK, MishapsGrow
  <1>3. /\ UNCHANGED <<log, job, trail, crm, enriched, work>>
        /\ req' = [req EXCEPT ![p] = NoRequest]
        /\ marks' \subseteq EventIds /\ acked' \subseteq Notices /\ sent' \in [Notices -> Nat]
    BY DEF RequestThrows, Tables, Inv, TypeOK
  <1> QED
    BY <1>2, <1>3, NoRequestTyped, RequestGoes

LEMMA AddStep ==
    ASSUME Inv, NEW p \in Procs, AddJob(p)
    PROVE  Inv'
  <1>1. PICK b \in Requests, r \in Logs :
           b = req[p] /\ b.at = "add" /\ b.notice \in Notices /\ r = b.row
           /\ log[r].status # "none" /\ job[r].state = "none"
    BY DEF Inv, TypeOK, Queued, AddJob
  <1>2. PICK k : k = [b EXCEPT !.at = "answer"]
    OBVIOUS
  <1>3. k \in Requests /\ k.at = "answer" /\ k.notice = b.notice
    BY <1>1, <1>2 DEF Requests
  <1>4. PICK c \in Jobs : c = job[r] /\ c.state = "none" /\ c.owner = NoWorker
    BY <1>1 DEF Inv, TypeOK, Queued
  <1>5. PICK j : j = [c EXCEPT !.state = "waiting"]
    OBVIOUS
  <1>6. /\ j \in Jobs /\ j.state = "waiting" /\ j.owner = NoWorker
        /\ j.attemptsMade = c.attemptsMade /\ j.stalled = c.stalled
    BY <1>4, <1>5 DEF Jobs
  <1>7. /\ job' = [job EXCEPT ![r] = j] /\ req' = [req EXCEPT ![p] = k]
        /\ UNCHANGED <<marks, log, trail, crm, enriched, acked, sent, work, mishaps>>
    <2>1. /\ job' = [job EXCEPT ![req[p].row].state = "waiting"]
          /\ req' = [req EXCEPT ![p] = [req[p] EXCEPT !.at = "answer"]]
          /\ UNCHANGED <<marks, log, trail, crm, enriched, acked, sent, work, mishaps>>
      BY DEF AddJob, Answer
    <2> QED
      BY <1>1, <1>2, <1>4, <1>5, <2>1
  <1>8. job'[r] = j /\ (\A q \in Logs : q # r => job'[q] = job[q]) /\ job' \in [Logs -> Jobs]
    BY <1>6, <1>7, JobSet
  <1>9. req'[p] = k /\ (\A q \in Procs : q # p => req'[q] = req[q]) /\ req' \in [Procs -> Requests]
    BY <1>3, <1>7 DEF Inv, TypeOK
  <1>10. MishapsGrow
    BY <1>7, SameMishaps
  <1>11. TypeOK'
    BY <1>7, <1>8, <1>9 DEF Inv, TypeOK
  <1>12. Queued'
    <2>1. ASSUME NEW q \in Logs
          PROVE  /\ log[q].status = "none" => job'[q].state = "none"
                 /\ job'[q].state = "active" <=> job'[q].owner # NoWorker
                 /\ job'[q].state \in {"none", "waiting", "active"} =>
                       job'[q].attemptsMade < MaxAttempts /\ job'[q].stalled <= MaxStalled
      <3>1. CASE q = r
        BY <1>1, <1>4, <1>6, <1>8, <3>1 DEF Inv, Queued
      <3>2. CASE q # r
        BY <1>8, <3>2 DEF Inv, Queued
      <3> QED
        BY <3>1, <3>2
    <2>2. ASSUME NEW q \in Procs, req'[q].at = "add"
          PROVE  q # p /\ req'[q] = req[q] /\ req[q].row # r /\ job'[req[q].row].state = "none"
      <3>1. q # p /\ req'[q] = req[q]
        BY <1>3, <1>9, <2>2
      <3>2. req[q].row # r /\ req[q].row \in Logs /\ job[req[q].row].state = "none"
        BY <1>1, <2>2, <3>1 DEF Inv, Queued
      <3> QED
        BY <1>8, <3>1, <3>2
    <2>3. \A q \in Procs : req'[q].at # "idle" => req'[q].notice \in Notices
      BY <1>1, <1>3, <1>9 DEF Inv, Queued
    <2>4. \A v \in Workers : work[v].at # "idle" =>
             work[v].row \in Logs /\ job'[work[v].row].state # "none"
      BY <1>6, <1>8 DEF Inv, Queued, Row
    <2> QED
      BY <1>7, <2>1, <2>2, <2>3, <2>4 DEF Inv, Queued, Row
  <1>13. ASSUME mishaps'.overlaps = 0
         PROVE  /\ \A v \in Workers : ~Idle(work'[v]) => job'[work'[v].row].owner = v
                /\ \A q \in Logs : job'[q].state = "completed" => log[q].status = "success"
    <2>1. Alone
      BY <1>7, <1>13 DEF Inv
    <2>2. \A v \in Workers : ~Idle(work[v]) =>
             work[v].row \in Logs /\ work[v].row # r /\ job[work[v].row].owner = v
      BY <1>1, <2>1 DEF Alone, Inv, Queued, Row, Idle
    <2> QED
      BY <1>6, <1>7, <1>8, <2>1, <2>2 DEF Alone
  <1>14. JobsTo
    BY <1>7, <1>10, <1>11, <1>12, <1>13 DEF JobsTo
  <1> QED
    BY <1>14, JobsPreserve


\* A set of rows has a first one.
LEMMA Least ==
    ASSUME NEW S \in SUBSET Nat, S # {}
    PROVE  \E m \in S : \A s \in S : m <= s
  <1>1. PICK m \in S : \A s \in S : ~(<<s, m>> \in OpToRel(<, Nat))
    BY NatLessThanWellFounded, WFMin, Zenon
  <1>2. \A s \in S : ~(s < m)
    BY <1>1 DEF OpToRel
  <1> QED
    BY <1>2

\* A free row becomes the row of a notice; it has no job and no worker yet.
LogTo(p, r, g, k) ==
    /\ log[r].status = "none"
    /\ req[p].at = "log"
    /\ g.status = "queued" /\ g.notice = req[p].notice
    /\ k.at = "add" /\ k.row = r /\ k.notice \in Notices
    /\ log' = [log EXCEPT ![r] = g]
    /\ req' = [req EXCEPT ![p] = k]
    /\ UNCHANGED <<marks, job, trail, crm, enriched, acked, sent, work, mishaps>>

LEMMA LogPreserves ==
    ASSUME Inv, NEW p \in Procs, NEW r \in Logs, NEW g \in LogRows, NEW k \in Requests,
           LogTo(p, r, g, k)
    PROVE  Inv'
  <1> USE DEF LogTo
  <1>1. log'[r] = g /\ (\A q \in Logs : q # r => log'[q] = log[q]) /\ log' \in [Logs -> LogRows]
    BY DEF Inv, TypeOK
  <1>2. req'[p] = k /\ (\A q \in Procs : q # p => req'[q] = req[q]) /\ req' \in [Procs -> Requests]
    BY DEF Inv, TypeOK
  <1>3. job[r].state = "none"
    BY DEF Inv, Queued
  <1>4. \A v \in Workers : work[v].at # "idle" => Row(v) \in Logs /\ Row(v) # r
    BY <1>3 DEF Inv, Queued
  <1>5. TypeOK'
    BY <1>1, <1>2 DEF Inv, TypeOK
  <1>6. Queued'
    <2>1. \A q \in Logs :
             /\ log'[q].status = "none" => job[q].state = "none"
             /\ job[q].state = "active" <=> job[q].owner # NoWorker
             /\ job[q].state \in {"none", "waiting", "active"} =>
                   job[q].attemptsMade < MaxAttempts /\ job[q].stalled <= MaxStalled
      BY <1>1, <1>3 DEF Inv, Queued
    <2>2. \A q \in Procs : q # p /\ req[q].at = "add" =>
             /\ req[q].row \in Logs /\ req[q].row # r /\ log[req[q].row].status # "none"
             /\ job[req[q].row].state = "none"
      BY DEF Inv, Queued
    <2>3. \A q \in Procs : /\ req'[q].at # "idle" => req'[q].notice \in Notices
                           /\ req'[q].at = "add" => /\ req'[q].row \in Logs
                                                    /\ log'[req'[q].row].status # "none"
                                                    /\ job[req'[q].row].state = "none"
      BY <1>1, <1>2, <1>3, <2>2 DEF Inv, Queued
    <2>4. \A q1, q2 \in Procs :
             req'[q1].at = "add" /\ req'[q2].at = "add" /\ q1 # q2 => req'[q1].row # req'[q2].row
      BY <1>2, <2>2 DEF Inv, Queued
    <2> QED
      BY <2>1, <2>3, <2>4 DEF Inv, Queued, Row
  <1>7. \A q \in Logs : RowOK(trail[q], crm[q], enriched, log'[q].status)
    BY <1>1 DEF Inv, RowOK
  <1>8. ASSUME mishaps'.overlaps = 0
        PROVE  Alone'
    <2>1. Alone
      BY <1>8 DEF Inv
    <2>2. \A v \in Workers : work[v].at # "idle" =>
             job[Row(v)].owner = v /\ Single(work[v], trail[Row(v)], log'[Row(v)].status)
      BY <1>1, <1>4, <2>1 DEF Alone
    <2>3. \A q \in Logs : job[q].state = "completed" => log'[q].status = "success"
      BY <1>1, <1>3, <2>1 DEF Alone
    <2>4. \A q \in Logs : OneNote(trail[q], crm[q])
      BY <2>1 DEF Alone
    <2> QED
      BY <2>2, <2>3, <2>4 DEF Alone, Row
  <1> QED
    BY <1>5, <1>6, <1>7, <1>8 DEF Inv, Row

LEMMA LogCases ==
    ASSUME Inv, NEW p \in Procs, CreateLog(p)
    PROVE  \/ /\ UNCHANGED <<marks, log, job, trail, crm, enriched, acked, sent, work, mishaps>>
              /\ req' = [req EXCEPT ![p] = NoRequest]
           \/ \E r \in Logs, g \in LogRows, k \in Requests : LogTo(p, r, g, k)
  <1>1. PICK b \in Requests : b = req[p] /\ b.at = "log" /\ b.notice \in Notices
    BY DEF Inv, TypeOK, Queued, CreateLog
  <1>2. PICK free : free = {r \in Logs : log[r].status = "none"}
    OBVIOUS
  <1>3. UNCHANGED <<marks, job, trail, crm, enriched, acked, sent, work, mishaps>>
    BY DEF CreateLog, Answer
  <1>4. CASE free = {}
    <2>1. log' = log /\ req' = [req EXCEPT ![p] = NoRequest]
      BY <1>2, <1>4 DEF CreateLog, Answer
    <2> QED
      BY <1>3, <2>1
  <1>5. CASE free # {}
    <2>1. PICK r : r = CHOOSE m \in free : \A s \in free : m <= s
      OBVIOUS
    <2>2. r \in free
      <3>1. free \subseteq Nat /\ MaxLogs \in Nat
        BY <1>2, PipelineAssumption DEF Logs
      <3>2. \E m \in free : \A s \in free : m <= s
        BY <1>5, <3>1, Least
      <3> QED
        BY <2>1, <3>2
    <2>3. r \in Logs /\ r \in Nat /\ log[r].status = "none"
      BY <1>2, <2>2, PipelineAssumption DEF Logs
    <2>4. PICK g : g = [notice |-> b.notice, status |-> "queued"]
      OBVIOUS
    <2>5. g \in LogRows /\ g.status = "queued" /\ g.notice = b.notice
      BY <1>1, <2>4 DEF LogRows
    <2>6. PICK k : k = [b EXCEPT !.at = "add", !.row = r]
      OBVIOUS
    <2>7. k \in Requests /\ k.at = "add" /\ k.row = r /\ k.notice = b.notice
      BY <1>1, <2>3, <2>6 DEF Requests
    <2>8. log' = [log EXCEPT ![r] = g] /\ req' = [req EXCEPT ![p] = k]
      BY <1>1, <1>2, <1>5, <2>1, <2>4, <2>6 DEF CreateLog, Answer
    <2>9. LogTo(p, r, g, k)
      BY <1>1, <1>3, <2>3, <2>5, <2>7, <2>8 DEF LogTo
    <2> QED
      BY <2>3, <2>5, <2>7, <2>9
  <1> QED
    BY <1>4, <1>5

LEMMA LogStep ==
    ASSUME Inv, NEW p \in Procs, CreateLog(p)
    PROVE  Inv'
  <1>1. CASE \E r \in Logs, g \in LogRows, k \in Requests : LogTo(p, r, g, k)
    BY <1>1, LogPreserves
  <1>2. CASE /\ UNCHANGED <<marks, log, job, trail, crm, enriched, acked, sent, work, mishaps>>
             /\ req' = [req EXCEPT ![p] = NoRequest]
    <2>1. marks' \subseteq EventIds /\ acked' \subseteq Notices /\ sent' \in [Notices -> Nat]
      BY <1>2 DEF Inv, TypeOK
    <2> QED
      BY <1>2, <2>1, SameMishaps, NoRequestTyped, RequestGoes
  <1> QED
    BY <1>1, <1>2, LogCases

LEMMA ReceiveStep ==
    ASSUME Inv, NEW p \in Procs, Receive(p)
    PROVE  Inv'
  BY DeliverStep, MarkStep, LogStep, AddStep, AnswerStep, RequestThrowsStep DEF Receive

------------------------------------------------------------------------------
(* All steps.                                                               *)
LEMMA Undisturbed ==
    ASSUME Inv, UNCHANGED <<log, job, trail, crm, enriched, acked, sent, req, work>>,
           MishapsGrow, marks' \subseteq EventIds
    PROVE  Inv'
  <1>1. TypeOK'
    BY DEF Inv, TypeOK, MishapsGrow
  <1>2. Queued'
    BY DEF Inv, Queued, Row
  <1>3. mishaps'.overlaps = 0 =>
           /\ \A v \in Workers : ~Idle(work'[v]) => job'[work'[v].row].owner = v
           /\ \A r \in Logs : job'[r].state = "completed" => log[r].status = "success"
    BY DEF Inv, Alone, MishapsGrow, Idle, Row
  <1>4. JobsTo
    BY <1>1, <1>2, <1>3 DEF JobsTo
  <1> QED
    BY <1>4, JobsPreserve

LEMMA ExpireStep ==
    ASSUME Inv, NEW id \in EventIds, Expire(id)
    PROVE  Inv'
  <1>1. mishaps' = [mishaps EXCEPT !["expiries"] = @ + 1]
    BY DEF Expire, Mishap
  <1>2. MishapsGrow
    BY <1>1 DEF Inv, TypeOK, MishapsGrow
  <1>3. UNCHANGED <<log, job, trail, crm, enriched, acked, sent, req, work>> /\ marks' \subseteq EventIds
    BY DEF Expire, Inv, TypeOK
  <1> QED
    BY <1>2, <1>3, Undisturbed

LEMMA InitInv ==
    ASSUME Init
    PROVE  Inv
  <1>1. \A w \in Workers : work[w] = NoWork /\ work[w].at = "idle"
    BY NoWorkTyped DEF Init, Idle
  <1>2. \A p \in Procs : req[p] = NoRequest /\ req[p].at = "idle"
    BY NoRequestTyped DEF Init
  <1>3. TypeOK
    <2>1. log \in [Logs -> LogRows] /\ trail \in [Logs -> Trails] /\ crm \in [Logs -> CrmRows]
      BY DEF Init, LogRows, Trails, CrmRows
    <2>2. job \in [Logs -> Jobs]
      BY PipelineAssumption DEF Init, Jobs
    <2>3. work \in [Workers -> Work] /\ req \in [Procs -> Requests]
      BY NoWorkTyped, NoRequestTyped DEF Init
    <2>4. mishaps \in [cuts : Nat, faults : Nat, restarts : Nat, overlaps : Nat, expiries : Nat]
      BY DEF Init
    <2> QED
      BY <2>1, <2>2, <2>3, <2>4 DEF Init, TypeOK
  <1>4. Queued
    BY <1>1, <1>2, PipelineAssumption DEF Init, Queued
  <1>5. \A r \in Logs : RowOK(trail[r], crm[r], enriched, log[r].status)
    BY DEF Init, RowOK
  <1>6. Alone
    BY <1>1 DEF Init, Alone, OneNote
  <1> QED
    BY <1>1, <1>3, <1>4, <1>5, <1>6 DEF Inv

LEMMA NextStep ==
    ASSUME Inv, [Next]_vars
    PROVE  Inv'
  <1>1. CASE Next
    BY <1>1, ReceiveStep, ProcessStep, QueueStep, RestartStep, ExpireStep DEF Next
  <1>2. CASE UNCHANGED vars
    <2>1. UNCHANGED <<log, job, trail, crm, enriched, acked, sent, req, work, marks, mishaps>>
      BY <1>2 DEF vars
    <2> QED
      BY <2>1, SameMishaps, Undisturbed DEF Inv, TypeOK
  <1> QED
    BY <1>1, <1>2

\* The invariant: rows, jobs, requests, workers and CRM belong together as described above.
THEOREM Invariance == Spec => []Inv
  <1>1. Init => Inv
    BY InitInv
  <1>2. Inv /\ [Next]_vars => Inv'
    BY NextStep
  <1> QED
    BY <1>1, <1>2, PTL DEF Spec

\* Every variable keeps its type (webhook.controller.ts, enrich-and-score.processor.ts).
THEOREM TypeCorrect == Spec => []TypeOK
  <1>1. Inv => TypeOK
    BY DEF Inv
  <1> QED
    BY <1>1, Invariance, PTL

\* What a checkpoint claims is in the CRM, whatever fails and however many workers run the
\* job; and with one worker at a time the recorded note is the one linked to the person.
THEOREM CheckpointsAreTrue == Spec => []CheckpointIsTrue
  <1>1. Inv => CheckpointIsTrue
    <2>1. ASSUME Inv, NEW r \in Logs
          PROVE  /\ "update_person" \in trail[r].checkpoint => crm[r].updated
                 /\ "create_note" \in trail[r].checkpoint => trail[r].noteId \in 1 .. crm[r].notes
                 /\ "link_note_to_person" \in trail[r].checkpoint =>
                       /\ crm[r].linked \intersect 1 .. crm[r].notes # {}
                       /\ mishaps.overlaps = 0 => crm[r].linked = {trail[r].noteId}
                 /\ "create_opportunity" \in trail[r].checkpoint => crm[r].opportunities > 0
      <3>1. RowOK(trail[r], crm[r], enriched, log[r].status)
        BY <2>1 DEF Inv
      <3>2. mishaps.overlaps = 0 => OneNote(trail[r], crm[r])
        BY <2>1 DEF Inv, Alone
      <3> QED
        BY <3>1, <3>2 DEF RowOK, OneNote
    <2> QED
      BY <2>1 DEF CheckpointIsTrue
  <1> QED
    BY <1>1, Invariance, PTL

\* A success entry stands on recorded writes and a success status on a success entry.
THEOREM SuccessIsEarned == Spec => []SuccessIsWhole
  <1>1. Inv => SuccessIsWhole
    BY DEF Inv, RowOK, Alone, SuccessIsWhole
  <1> QED
    BY <1>1, Invariance, PTL

------------------------------------------------------------------------------
(* The rows of one event.                                                   *)
Rows(id) == {r \in Logs : log[r].status # "none" /\ EventId[log[r].notice] = id}
Pending(id) == {p \in Procs : req[p].at = "log" /\ EventId[req[p].notice] = id}

\* A row, or a request about to write one, stands for the mark or for an expired one.
Counted(id) ==
    /\ IsFiniteSet(Pending(id))
    /\ Cardinality(Rows(id)) + Cardinality(Pending(id))
          <= mishaps.expiries + IF id \in marks THEN 1 ELSE 0

Expiries == mishaps.expiries \in Nat /\ mishaps'.expiries \in Nat /\ mishaps.expiries <= mishaps'.expiries

LEMMA FiniteRows ==
    ASSUME NEW id
    PROVE  IsFiniteSet(Rows(id)) /\ Cardinality(Rows(id)) \in Nat
  <1>1. IsFiniteSet(Logs)
    BY FS_Interval, PipelineAssumption DEF Logs
  <1>2. Rows(id) \in SUBSET Logs
    BY DEF Rows
  <1> QED
    BY <1>1, <1>2, FS_Subset, FS_CardinalityType

LEMMA CountKept ==
    ASSUME NEW id, Counted(id), Expiries, Rows(id)' = Rows(id), Pending(id)' \subseteq Pending(id),
           id \in marks => id \in marks'
    PROVE  Counted(id)'
  <1>1. PICK R, P, Q : R = Rows(id) /\ P = Pending(id) /\ Q = Pending(id)'
    OBVIOUS
  <1>2. /\ IsFiniteSet(P) /\ Cardinality(P) \in Nat /\ IsFiniteSet(Q) /\ Cardinality(Q) \in Nat
        /\ Cardinality(Q) <= Cardinality(P)
    BY <1>1, FS_Subset, FS_CardinalityType DEF Counted
  <1>3. Cardinality(R) \in Nat
    BY <1>1, FiniteRows
  <1> QED
    BY <1>1, <1>2, <1>3 DEF Counted, Expiries

LEMMA ExpiriesKept ==
    ASSUME Inv, mishaps' = mishaps
    PROVE  Expiries
  BY DEF Inv, TypeOK, Expiries

\* No row comes and no request goes to write one.
Calm ==
    /\ Expiries
    /\ marks' = marks
    /\ \A r \in Logs : /\ log'[r].status = "none" <=> log[r].status = "none"
                       /\ log'[r].notice = log[r].notice
    /\ \A p \in Procs : req'[p] = req[p] \/ req'[p].at # "log"

LEMMA CalmKeeps ==
    ASSUME NEW id, Counted(id), Calm
    PROVE  Counted(id)'
  <1>1. Rows(id)' = Rows(id)
    BY DEF Calm, Rows
  <1>2. Pending(id)' \subseteq Pending(id)
    BY DEF Calm, Pending
  <1> QED
    BY <1>1, <1>2, CountKept DEF Calm

LEMMA MarkCounts ==
    ASSUME Inv, NEW p \in Procs, HasSeenOrMark(p), NEW id, Counted(id)
    PROVE  Counted(id)'
  <1>1. /\ req[p].at = "mark" /\ req \in [Procs -> Requests] /\ Rows(id)' = Rows(id) /\ Expiries
        /\ mishaps' = mishaps
    BY ExpiriesKept DEF HasSeenOrMark, Answer, Inv, TypeOK, Rows
  <1>2. PICK i : i = EventId[req[p].notice]
    OBVIOUS
  <1>3. CASE i \in marks
    <2>1. marks' = marks /\ req' = [req EXCEPT ![p] = NoRequest]
      BY <1>2, <1>3 DEF HasSeenOrMark, Answer
    <2>2. Pending(id)' \subseteq Pending(id)
      BY <1>1, <2>1, NoRequestTyped DEF Pending
    <2> QED
      BY <1>1, <2>1, <2>2, CountKept
  <1>4. CASE i \notin marks
    <2>0. PICK b \in Requests : b = req[p]
      BY <1>1
    <2>1. PICK k : k = [b EXCEPT !.at = "log"]
      OBVIOUS
    <2>2. k.at = "log" /\ k.notice = b.notice
      BY <2>1 DEF Requests
    <2>3. marks' = marks \union {i} /\ req' = [req EXCEPT ![p] = k]
      BY <1>2, <1>4, <2>0, <2>1 DEF HasSeenOrMark, Answer, Mark
    <2>4. /\ req'[p] = k /\ \A q \in Procs : q # p => req'[q] = req[q]
          /\ p \notin Pending(id)
      BY <1>1, <2>3 DEF Pending
    <2>5. CASE i # id
      <3>1. Pending(id)' \subseteq Pending(id)
        BY <1>2, <2>0, <2>2, <2>4, <2>5 DEF Pending
      <3> QED
        BY <1>1, <2>3, <3>1, CountKept
    <2>6. CASE i = id
      <3>1. PICK R, P : R = Rows(id) /\ P = Pending(id)
        OBVIOUS
      <3>2. Pending(id)' = P \union {p}
        BY <1>2, <2>0, <2>2, <2>4, <2>6, <3>1 DEF Pending
      <3>3. IsFiniteSet(P) /\ IsFiniteSet(P \union {p}) /\ Cardinality(P \union {p}) = Cardinality(P) + 1
            /\ Cardinality(P) \in Nat
        BY <2>4, <3>1, FS_AddElement, FS_CardinalityType DEF Counted
      <3>4. Cardinality(R) \in Nat /\ Cardinality(R) + Cardinality(P) <= mishaps.expiries
        BY <1>1, <1>4, <2>6, <3>1, FiniteRows DEF Counted, Expiries
      <3> QED
        BY <1>1, <2>3, <2>6, <3>1, <3>2, <3>3, <3>4 DEF Counted, Expiries
    <2> QED
      BY <2>5, <2>6
  <1> QED
    BY <1>3, <1>4

LEMMA LogCounts ==
    ASSUME Inv, NEW p \in Procs, NEW r \in Logs, NEW g \in LogRows, NEW k \in Requests,
           LogTo(p, r, g, k), NEW id, Counted(id)
    PROVE  Counted(id)'
  <1>1. /\ log'[r] = g /\ \A q \in Logs : q # r => log'[q] = log[q]
        /\ req'[p] = k /\ \A q \in Procs : q # p => req'[q] = req[q]
        /\ log[r].status = "none" /\ g.status = "queued" /\ g.notice = req[p].notice
        /\ k.at = "add" /\ req[p].at = "log" /\ marks' = marks /\ mishaps' = mishaps /\ Expiries
    BY ExpiriesKept DEF LogTo, Inv, TypeOK
  <1>2. PICK R, P : R = Rows(id) /\ P = Pending(id)
    OBVIOUS
  <1>3. CASE EventId[g.notice] # id
    <2>1. Rows(id)' = Rows(id)
      BY <1>1, <1>3 DEF Rows
    <2>2. Pending(id)' \subseteq Pending(id)
      BY <1>1 DEF Pending
    <2> QED
      BY <1>1, <2>1, <2>2, CountKept
  <1>4. CASE EventId[g.notice] = id
    <2>1. Rows(id)' = R \union {r} /\ r \notin R
      BY <1>1, <1>2, <1>4 DEF Rows
    <2>2. Pending(id)' = P \ {p} /\ p \in P
      BY <1>1, <1>2, <1>4 DEF Pending
    <2>3. IsFiniteSet(R) /\ Cardinality(R) \in Nat /\ Cardinality(R \union {r}) = Cardinality(R) + 1
      BY <1>2, <2>1, FiniteRows, FS_AddElement
    <2>4. /\ IsFiniteSet(P) /\ Cardinality(P) \in Nat /\ IsFiniteSet(P \ {p})
          /\ Cardinality(P \ {p}) = Cardinality(P) - 1
      BY <1>2, <2>2, FS_RemoveElement, FS_CardinalityType DEF Counted
    <2> QED
      BY <1>1, <1>2, <2>1, <2>2, <2>3, <2>4 DEF Counted, Expiries
  <1> QED
    BY <1>3, <1>4

LEMMA ExpireCounts ==
    ASSUME Inv, NEW i \in EventIds, Expire(i), NEW id, Counted(id)
    PROVE  Counted(id)'
  <1>1. mishaps' = [mishaps EXCEPT !["expiries"] = @ + 1]
    BY DEF Expire, Mishap
  <1>2. mishaps.expiries \in Nat /\ mishaps'.expiries = mishaps.expiries + 1
    BY <1>1 DEF Inv, TypeOK
  <1>3. PICK R, P : R = Rows(id) /\ P = Pending(id)
    OBVIOUS
  <1>4. Rows(id)' = R /\ Pending(id)' = P /\ marks' = marks \ {i}
    BY <1>3 DEF Expire, Rows, Pending
  <1>5. Cardinality(R) \in Nat /\ Cardinality(P) \in Nat
    BY <1>3, FiniteRows, FS_CardinalityType DEF Counted
  <1> QED
    BY <1>2, <1>3, <1>4, <1>5 DEF Counted

\* Every other step is calm.
LEMMA FaultExpiries ==
    ASSUME Inv, NEW kind \in {"cuts", "faults", "restarts", "overlaps"}, Mishap(kind)
    PROVE  Expiries
  <1>1. mishaps' = [mishaps EXCEPT ![kind] = @ + 1]
    BY DEF Mishap
  <1> QED
    BY <1>1 DEF Inv, TypeOK, Expiries

LEMMA SetStatusCalm ==
    ASSUME Inv, NEW w \in Workers, StartProcessing(w) \/ MarkSuccess(w) \/ MarkFailed(w)
    PROVE  Calm
  <1>1. PICK r \in Logs, s \in {"processing", "success", "failed"} :
           r = Row(w) /\ log[r].status # "none" /\ log' = [log EXCEPT ![r].status = s]
    BY DEF StartProcessing, MarkSuccess, MarkFailed, SetStatus, Inv, Queued
  <1>2. log \in [Logs -> LogRows]
    BY DEF Inv, TypeOK
  <1>3. log'[r] = [log[r] EXCEPT !.status = s] /\ \A q \in Logs : q # r => log'[q] = log[q]
    BY <1>1, <1>2
  <1>4. log'[r].status = s /\ log'[r].notice = log[r].notice
    BY <1>2, <1>3 DEF LogRows
  <1>5. UNCHANGED <<marks, req, mishaps>>
    BY DEF StartProcessing, MarkSuccess, MarkFailed, SetStatus
  <1> QED
    BY <1>1, <1>3, <1>4, <1>5, ExpiriesKept DEF Calm

LEMMA ProcessCalm ==
    ASSUME Inv, NEW w \in Workers, Process(w)
    PROVE  Calm
  <1>1. CASE StartProcessing(w) \/ MarkSuccess(w) \/ MarkFailed(w)
    BY <1>1, SetStatusCalm
  <1>2. CASE JobThrows(w)
    <2>1. PICK kind \in {"cuts", "faults"} : Mishap(kind)
      BY <1>2 DEF JobThrows, Cut
    <2>2. UNCHANGED <<marks, log, req>>
      BY <1>2 DEF JobThrows, Tables
    <2> QED
      BY <2>1, <2>2, FaultExpiries DEF Calm
  <1>3. CASE \/ EnrichPerson(w) \/ Score(w) \/ GetCompleted(w) \/ CallTwenty(w) \/ RecordSuccess(w)
             \/ SaveScore(w) \/ AuditSuccess(w)
    <2>1. UNCHANGED <<marks, log, req, mishaps>>
      BY <1>3 DEF EnrichPerson, Score, GetCompleted, CallTwenty, RecordSuccess, SaveScore,
                  AuditSuccess, Tables
    <2> QED
      BY <2>1, ExpiriesKept DEF Calm
  <1> QED
    BY <1>1, <1>2, <1>3 DEF Process

LEMMA QueueCalm ==
    ASSUME Inv, Queue
    PROVE  Calm
  <1>1. UNCHANGED <<marks, log, req>>
    BY DEF Queue, JobCompleted, AttemptFailed, Settle, Take, Reclaim
  <1>2. mishaps' = mishaps \/ Mishap("overlaps")
    BY DEF Queue, JobCompleted, AttemptFailed, Settle, Take, Reclaim
  <1> QED
    BY <1>1, <1>2, ExpiriesKept, FaultExpiries DEF Calm

LEMMA RestartCalm ==
    ASSUME Inv, Restart
    PROVE  Calm
  BY FaultExpiries, NoRequestTyped DEF Restart, Tables, Calm

LEMMA ReceiveCounts ==
    ASSUME Inv, NEW p \in Procs, Receive(p), NEW id, Counted(id)
    PROVE  Counted(id)'
  <1>0. req \in [Procs -> Requests]
    BY DEF Inv, TypeOK
  <1>1. ASSUME NEW n \in Notices, Deliver(p, n)
        PROVE  Calm
    <2>1. PICK k \in Requests :
             k = [NoRequest EXCEPT !.at = "mark", !.notice = n] /\ k.at = "mark" /\ k.notice = n
      BY NoRequestTyped
    <2>2. req' = [req EXCEPT ![p] = k] /\ UNCHANGED <<marks, log, mishaps>>
      BY <1>1, <2>1 DEF Deliver, Answer
    <2> QED
      BY <1>0, <2>1, <2>2, ExpiriesKept DEF Calm
  <1>2. ASSUME AddJob(p)
        PROVE  Calm
    <2>1. PICK b \in Requests : b = req[p]
      BY <1>0
    <2>2. PICK k : k = [b EXCEPT !.at = "answer"]
      OBVIOUS
    <2>3. k.at = "answer"
      BY <2>1, <2>2 DEF Requests
    <2>4. req' = [req EXCEPT ![p] = k] /\ UNCHANGED <<marks, log, mishaps>>
      BY <1>2, <2>1, <2>2 DEF AddJob, Answer
    <2> QED
      BY <1>0, <2>3, <2>4, ExpiriesKept DEF Calm
  <1>3. ASSUME AnswerWebhook(p)
        PROVE  Calm
    <2>1. req' = [req EXCEPT ![p] = NoRequest] /\ UNCHANGED <<marks, log, mishaps>>
      BY <1>3 DEF AnswerWebhook, Answer
    <2> QED
      BY <1>0, <2>1, NoRequestTyped, ExpiriesKept DEF Calm
  <1>4. ASSUME RequestThrows(p)
        PROVE  Calm
    <2>1. req' = [req EXCEPT ![p] = NoRequest] /\ UNCHANGED <<marks, log>> /\ Mishap("faults")
      BY <1>4 DEF RequestThrows, Tables
    <2> QED
      BY <1>0, <2>1, NoRequestTyped, FaultExpiries DEF Calm
  <1>5. CASE CreateLog(p)
    <2>1. CASE \E r \in Logs, g \in LogRows, k \in Requests : LogTo(p, r, g, k)
      BY <2>1, LogCounts
    <2>2. CASE /\ UNCHANGED <<marks, log, job, trail, crm, enriched, acked, sent, work, mishaps>>
               /\ req' = [req EXCEPT ![p] = NoRequest]
      <3>1. Calm
        BY <1>0, <2>2, NoRequestTyped, ExpiriesKept DEF Calm
      <3> QED
        BY <3>1, CalmKeeps
    <2> QED
      BY <1>5, <2>1, <2>2, LogCases
  <1> QED
    BY <1>1, <1>2, <1>3, <1>4, <1>5, MarkCounts, CalmKeeps DEF Receive

LEMMA CountStep ==
    ASSUME Inv, [Next]_vars, NEW id, Counted(id)
    PROVE  Counted(id)'
  <1>1. CASE UNCHANGED vars
    <2>1. Calm
      BY <1>1, ExpiriesKept DEF vars, Calm
    <2> QED
      BY <2>1, CalmKeeps
  <1>2. CASE Next
    BY <1>2, ReceiveCounts, ProcessCalm, QueueCalm, RestartCalm, ExpireCounts, CalmKeeps DEF Next
  <1> QED
    BY <1>1, <1>2

\* An event has one row, however its deliveries race, unless its mark expired.
THEOREM OneRowPerEvent == Spec => []OneLogPerEvent
  <1> DEFINE AllCounted == \A id \in EventIds : Counted(id)
  <1>1. Init => AllCounted
    <2>1. ASSUME Init, NEW id \in EventIds
          PROVE  Counted(id)
      <3>1. Rows(id) = {}
        BY <2>1 DEF Init, Rows
      <3>2. Pending(id) = {}
        BY <2>1, NoRequestTyped DEF Init, Pending
      <3> QED
        BY <2>1, <3>1, <3>2, FS_EmptySet DEF Counted, Init
    <2> QED
      BY <2>1
  <1>2. Inv /\ AllCounted /\ [Next]_vars => AllCounted'
    BY CountStep
  <1>3. Inv /\ AllCounted => OneLogPerEvent
    <2>1. ASSUME Inv, NEW id \in EventIds, Counted(id)
          PROVE  Cardinality(Rows(id)) <= 1 + mishaps.expiries
      <3>1. Cardinality(Pending(id)) \in Nat /\ Cardinality(Rows(id)) \in Nat /\ mishaps.expiries \in Nat
        BY <2>1, FS_CardinalityType, FiniteRows DEF Counted, Inv, TypeOK
      <3> QED
        BY <2>1, <3>1 DEF Counted
    <2> QED
      BY <2>1 DEF OneLogPerEvent, Rows
  <1> HIDE DEF AllCounted
  <1> QED
    BY <1>1, <1>2, <1>3, Invariance, PTL DEF Spec

------------------------------------------------------------------------------
(* What was written twice.                                                  *)
\* The mishaps that may cost a write, the writes of action k for row r, and its checkpoint.
Cuts == mishaps.cuts + mishaps.restarts + mishaps.overlaps
Writes(r, k) == IF k = 2 THEN crm[r].notes ELSE crm[r].opportunities
Recorded(r, k) == Actions[k] \in trail[r].checkpoint

\* A worker with locals l may still come to write action k.
Unwritten(l, k) ==
    /\ l.at \in {"start", "enrich", "score", "check", "call", "record"}
    /\ l.step <= k /\ ~(l.step = k /\ l.at = "record")
\* A worker with locals l is at statement at of action k.
At(l, at, k) == l.at = at /\ l.step = k

\* Workers that run r's job though they lost it, and may write it.
Stale(r, k) == {w \in Workers : Holds(w, r) /\ job[r].owner # w /\ Unwritten(work[w], k)}
\* Workers about to write action k for r, and whether r's owner just did; workers with a job.
Calling(r, k) == {w \in Workers : Row(w) = r /\ At(work[w], "call", k)}
OwnerWrote(r, k) == \E w \in Workers : job[r].owner = w /\ Row(w) = r /\ At(work[w], "record", k)
Busy == {w \in Workers : work[w].at # "idle"}

\* Until action k is recorded, what was written, or may be by a worker that lost the job, was
\* cut off, is paid for by an overlap, or is the owner's, about to be recorded; then only those
\* that had looked before it was recorded write it.
Paid(r, k) ==
    IF Recorded(r, k)
    THEN Writes(r, k) + Cardinality(Calling(r, k)) <= 1 + Cuts
    ELSE Writes(r, k) + Cardinality(Stale(r, k)) <= Cuts + IF OwnerWrote(r, k) THEN 1 ELSE 0

AllPaid == IsFiniteSet(Busy) /\ \A r \in Logs, k \in {2, 4} : Paid(r, k)

LEMMA FiniteWorkers ==
    ASSUME IsFiniteSet(Busy), NEW r, NEW k
    PROVE  /\ IsFiniteSet(Stale(r, k)) /\ Cardinality(Stale(r, k)) \in Nat
           /\ IsFiniteSet(Calling(r, k)) /\ Cardinality(Calling(r, k)) \in Nat
  <1>1. Stale(r, k) \in SUBSET Busy /\ Calling(r, k) \in SUBSET Busy
    BY DEF Stale, Calling, Busy, Holds, At
  <1> QED
    BY <1>1, FS_Subset, FS_CardinalityType

LEMMA CountTypes ==
    ASSUME TypeOK, NEW r \in Logs, NEW k \in {2, 4}
    PROVE  Writes(r, k) \in Nat /\ Cuts \in Nat
  BY DEF TypeOK, CrmRows, Writes, Cuts

\* Nothing is written, and no worker comes to where it may write.
LEMMA StillPaid ==
    ASSUME TypeOK, TypeOK', NEW r \in Logs, NEW k \in {2, 4}, Paid(r, k),
           IsFiniteSet(Busy), IsFiniteSet(Busy)',
           Writes(r, k)' = Writes(r, k), Recorded(r, k)' <=> Recorded(r, k), Cuts <= Cuts',
           Recorded(r, k) => Calling(r, k)' \subseteq Calling(r, k),
           ~Recorded(r, k) => Stale(r, k)' \subseteq Stale(r, k),
           OwnerWrote(r, k) => OwnerWrote(r, k)' \/ Cuts < Cuts'
    PROVE  Paid(r, k)'
  <1>1. PICK S, T, C, D : S = Stale(r, k) /\ T = Stale(r, k)' /\ C = Calling(r, k) /\ D = Calling(r, k)'
    OBVIOUS
  <1>2. /\ IsFiniteSet(S) /\ Cardinality(S) \in Nat /\ IsFiniteSet(T) /\ Cardinality(T) \in Nat
        /\ IsFiniteSet(C) /\ Cardinality(C) \in Nat /\ IsFiniteSet(D) /\ Cardinality(D) \in Nat
    <2>1. /\ IsFiniteSet(Stale(r, k)) /\ Cardinality(Stale(r, k)) \in Nat
          /\ IsFiniteSet(Calling(r, k)) /\ Cardinality(Calling(r, k)) \in Nat
      BY FiniteWorkers
    <2>2. (/\ IsFiniteSet(Stale(r, k)) /\ Cardinality(Stale(r, k)) \in Nat
           /\ IsFiniteSet(Calling(r, k)) /\ Cardinality(Calling(r, k)) \in Nat)'
      BY FiniteWorkers, PTL
    <2> QED
      BY <1>1, <2>1, <2>2
  <1>3. Writes(r, k) \in Nat /\ Cuts \in Nat /\ Cuts' \in Nat
    BY CountTypes DEF TypeOK, Cuts
  <1>4. CASE Recorded(r, k)
    <2>1. D \in SUBSET C
      BY <1>1, <1>4
    <2>2. Cardinality(D) <= Cardinality(C)
      BY <1>2, <2>1, FS_Subset
    <2> QED
      BY <1>1, <1>2, <1>3, <1>4, <2>2 DEF Paid
  <1>5. CASE ~Recorded(r, k)
    <2>1. T \in SUBSET S
      BY <1>1, <1>5
    <2>2. Cardinality(T) <= Cardinality(S)
      BY <1>2, <2>1, FS_Subset
    <2>3. Writes(r, k) + Cardinality(S) <= Cuts + IF OwnerWrote(r, k) THEN 1 ELSE 0
      BY <1>1, <1>5 DEF Paid
    <2>4. Writes(r, k)' + Cardinality(T) <= Cuts' + IF OwnerWrote(r, k)' THEN 1 ELSE 0
      BY <1>2, <1>3, <2>2, <2>3
    <2> QED
      BY <1>1, <1>5, <2>4 DEF Paid
  <1> QED
    BY <1>4, <1>5

\* Worker w, at a row, goes on with locals l.
OneMoves(w, l) ==
    /\ work' = [work EXCEPT ![w] = l] /\ l.row = work[w].row
    /\ work[w].at # "idle"
    /\ job' = job

LEMMA BusyStays ==
    ASSUME TypeOK, IsFiniteSet(Busy), NEW w \in Workers, NEW l, OneMoves(w, l)
    PROVE  IsFiniteSet(Busy)'
  <1>1. Busy' \in SUBSET Busy
    BY DEF TypeOK, Busy, OneMoves
  <1> QED
    BY <1>1, FS_Subset

\* Where worker w moves to it may write no more than where it was.
LEMMA MovePaid ==
    ASSUME TypeOK, TypeOK', AllPaid, NEW w \in Workers, NEW l, OneMoves(w, l),
           NEW r \in Logs, NEW k \in {2, 4}, Writes(r, k)' = Writes(r, k),
           Recorded(r, k)' <=> Recorded(r, k), Cuts <= Cuts',
           Row(w) = r => /\ Recorded(r, k) /\ At(l, "call", k) => At(work[w], "call", k)
                         /\ ~Recorded(r, k) /\ Unwritten(l, k) => Unwritten(work[w], k)
                         /\ At(work[w], "record", k) => At(l, "record", k) \/ Cuts < Cuts'
    PROVE  Paid(r, k)'
  <1>1. /\ work \in [Workers -> Work] /\ work'[w] = l /\ work'[w].row = work[w].row
        /\ \A v \in Workers : v # w => work'[v] = work[v]
    BY DEF TypeOK, OneMoves
  <1>2. IsFiniteSet(Busy) /\ IsFiniteSet(Busy)' /\ Paid(r, k)
    BY BusyStays DEF AllPaid
  <1>3. ASSUME Recorded(r, k), NEW v \in Calling(r, k)' PROVE v \in Calling(r, k)
    BY <1>1, <1>3 DEF Calling, Row
  <1>4. ASSUME ~Recorded(r, k), NEW v \in Stale(r, k)' PROVE v \in Stale(r, k)
    <2>1. v \in Workers /\ work'[v].at # "idle" /\ work'[v].row = r /\ job[r].owner # v
          /\ Unwritten(work'[v], k)
      BY DEF Stale, Holds, Row, OneMoves
    <2>2. Holds(v, r)
      BY <1>1, <2>1 DEF Holds, Row, OneMoves
    <2>3. Unwritten(work[v], k)
      BY <1>1, <1>4, <2>1 DEF Row
    <2> QED
      BY <2>1, <2>2, <2>3 DEF Stale
  <1>5. OwnerWrote(r, k) => OwnerWrote(r, k)' \/ Cuts < Cuts'
    <2> SUFFICES ASSUME NEW v \in Workers, job[r].owner = v, Row(v) = r, At(work[v], "record", k),
                        ~(Cuts < Cuts')
                 PROVE  job'[r].owner = v /\ work'[v].row = r /\ At(work'[v], "record", k)
      BY DEF OwnerWrote, Row
    <2> QED
      BY <1>1 DEF OneMoves, Row
  <1> QED
    BY <1>2, <1>3, <1>4, <1>5, StillPaid

\* Action k of r is written by w.
LEMMA WritePaid ==
    ASSUME TypeOK, TypeOK', Queued, AllPaid, NEW w \in Workers, NEW l, OneMoves(w, l),
           NEW r \in Logs, NEW k \in {2, 4}, Row(w) = r, At(work[w], "call", k), At(l, "record", k),
           Writes(r, k)' = Writes(r, k) + 1, Recorded(r, k)' <=> Recorded(r, k), Cuts = Cuts'
    PROVE  Paid(r, k)'
  <1>1. /\ work \in [Workers -> Work] /\ work'[w] = l /\ work'[w].row = work[w].row
        /\ \A v \in Workers : v # w => work'[v] = work[v]
    BY DEF TypeOK, OneMoves
  <1>2. Writes(r, k) \in Nat /\ Cuts \in Nat
    BY CountTypes
  <1>3. /\ IsFiniteSet(Stale(r, k)) /\ Cardinality(Stale(r, k)) \in Nat
        /\ IsFiniteSet(Calling(r, k)) /\ Cardinality(Calling(r, k)) \in Nat
    BY FiniteWorkers DEF AllPaid
  <1>4. CASE Recorded(r, k)
    <2>1. w \in Calling(r, k) /\ Calling(r, k)' = Calling(r, k) \ {w}
      BY <1>1 DEF Calling, Row, At
    <2>2. Cardinality(Calling(r, k) \ {w}) = Cardinality(Calling(r, k)) - 1
      BY <1>3, <2>1, FS_RemoveElement
    <2>3. Writes(r, k) + Cardinality(Calling(r, k)) <= 1 + Cuts
      BY <1>4 DEF AllPaid, Paid
    <2>4. Writes(r, k)' + Cardinality(Calling(r, k)') <= 1 + Cuts'
      BY <1>2, <1>3, <2>1, <2>2, <2>3
    <2> QED
      BY <1>4, <2>4 DEF Paid
  <1>5. CASE ~Recorded(r, k) /\ job[r].owner # w
    <2>1. w \in Stale(r, k)
      BY <1>5 DEF Stale, Holds, At, Unwritten
    <2>2. Stale(r, k)' = Stale(r, k) \ {w}
      <3>1. ASSUME NEW v \in Workers PROVE v \in Stale(r, k)' <=> v \in Stale(r, k) /\ v # w
        BY <1>1 DEF Stale, Holds, At, Unwritten, OneMoves, Row
      <3> QED
        BY <3>1 DEF Stale
    <2>3. Cardinality(Stale(r, k) \ {w}) = Cardinality(Stale(r, k)) - 1
      BY <1>3, <2>1, FS_RemoveElement
    <2>4. OwnerWrote(r, k) => OwnerWrote(r, k)'
      BY <1>1 DEF OwnerWrote, At, Row, OneMoves
    <2>5. Writes(r, k) + Cardinality(Stale(r, k)) <= Cuts + IF OwnerWrote(r, k) THEN 1 ELSE 0
      BY <1>5 DEF AllPaid, Paid
    <2>6. Writes(r, k)' + Cardinality(Stale(r, k)') <= Cuts' + IF OwnerWrote(r, k)' THEN 1 ELSE 0
      BY <1>2, <1>3, <2>2, <2>3, <2>4, <2>5
    <2> QED
      BY <1>5, <2>6 DEF Paid
  <1>6. CASE ~Recorded(r, k) /\ job[r].owner = w
    <2>1. OwnerWrote(r, k)'
      BY <1>1, <1>6 DEF OwnerWrote, Row, OneMoves
    <2>2. ~OwnerWrote(r, k)
      BY <1>6 DEF OwnerWrote, At
    <2>3. Stale(r, k)' = Stale(r, k)
      <3>1. ASSUME NEW v \in Workers PROVE v \in Stale(r, k)' <=> v \in Stale(r, k)
        BY <1>1, <1>6 DEF Stale, Holds, At, Unwritten, OneMoves, Row
      <3> QED
        BY <3>1 DEF Stale
    <2>4. Writes(r, k) + Cardinality(Stale(r, k)) <= Cuts
      BY <1>2, <1>3, <1>6, <2>2 DEF AllPaid, Paid
    <2>5. Writes(r, k)' + Cardinality(Stale(r, k)') <= Cuts' + IF OwnerWrote(r, k)' THEN 1 ELSE 0
      BY <1>2, <1>3, <2>1, <2>3, <2>4
    <2> QED
      BY <1>6, <2>5 DEF Paid
  <1> QED
    BY <1>4, <1>5, <1>6

\* Action k of r is recorded by w.
LEMMA RecordPaid ==
    ASSUME TypeOK, TypeOK', AllPaid, NEW w \in Workers, NEW l, OneMoves(w, l),
           NEW r \in Logs, NEW k \in {2, 4}, Row(w) = r, At(work[w], "record", k), ~At(l, "call", k),
           Writes(r, k)' = Writes(r, k), Recorded(r, k)', Cuts = Cuts'
    PROVE  Paid(r, k)'
  <1>1. /\ work \in [Workers -> Work] /\ work'[w] = l /\ work'[w].row = work[w].row
        /\ \A v \in Workers : v # w => work'[v] = work[v]
    BY DEF TypeOK, OneMoves
  <1>2. Writes(r, k) \in Nat /\ Cuts \in Nat
    BY CountTypes
  <1>3. /\ IsFiniteSet(Stale(r, k)) /\ Cardinality(Stale(r, k)) \in Nat
        /\ IsFiniteSet(Calling(r, k)) /\ Cardinality(Calling(r, k)) \in Nat
    BY FiniteWorkers DEF AllPaid
  <1>4. Calling(r, k)' \in SUBSET Calling(r, k)
    BY <1>1 DEF Calling, Row, At
  <1>5. Cardinality(Calling(r, k)') <= Cardinality(Calling(r, k)) /\ Cardinality(Calling(r, k)') \in Nat
    <2>1. PICK C : C = Calling(r, k)'
      OBVIOUS
    <2>2. IsFiniteSet(C) /\ Cardinality(C) <= Cardinality(Calling(r, k)) /\ Cardinality(C) \in Nat
      BY <1>3, <1>4, <2>1, FS_Subset, FS_CardinalityType
    <2> QED
      BY <2>1, <2>2
  <1>6. Writes(r, k) + Cardinality(Calling(r, k)) <= 1 + Cuts
    <2>1. CASE Recorded(r, k)
      BY <2>1 DEF AllPaid, Paid
    <2>2. CASE ~Recorded(r, k)
      <3>1. PICK o : o = job[r].owner
        OBVIOUS
      <3>2. Writes(r, k) + Cardinality(Stale(r, k)) <= Cuts + IF OwnerWrote(r, k) THEN 1 ELSE 0
        BY <2>2 DEF AllPaid, Paid
      <3>3. ASSUME NEW v \in Calling(r, k), v # o PROVE v \in Stale(r, k)
        BY <3>1, <3>3 DEF Calling, Stale, Holds, At, Unwritten
      <3>4. CASE o \in Calling(r, k)
        <4>1. ~OwnerWrote(r, k)
          BY <3>1, <3>4 DEF OwnerWrote, Calling, At
        <4>2. Cardinality(Calling(r, k) \ {o}) = Cardinality(Calling(r, k)) - 1
          BY <1>3, <3>4, FS_RemoveElement
        <4>3. Calling(r, k) \ {o} \in SUBSET Stale(r, k)
          BY <3>3
        <4>4. Cardinality(Calling(r, k) \ {o}) <= Cardinality(Stale(r, k))
          BY <1>3, <4>3, FS_Subset
        <4> QED
          BY <1>2, <1>3, <3>2, <4>1, <4>2, <4>4
      <3>5. CASE o \notin Calling(r, k)
        <4>1. Calling(r, k) \in SUBSET Stale(r, k)
          BY <3>3, <3>5
        <4>2. Cardinality(Calling(r, k)) <= Cardinality(Stale(r, k))
          BY <1>3, <4>1, FS_Subset
        <4> QED
          BY <1>2, <1>3, <3>2, <4>2
      <3> QED
        BY <3>4, <3>5
    <2> QED
      BY <2>1, <2>2
  <1>7. Writes(r, k)' + Cardinality(Calling(r, k)') <= 1 + Cuts'
    BY <1>2, <1>3, <1>5, <1>6
  <1> QED
    BY <1>7 DEF Paid

\* A step of a worker that calls and records nothing.
LEMMA QuietPaid ==
    ASSUME TypeOK, TypeOK', AllPaid, NEW w \in Workers, NEW l, OneMoves(w, l), crm' = crm,
           \A r \in Logs : trail'[r].checkpoint = trail[r].checkpoint,
           l.at \notin {"call", "record"},
           \A k \in {2, 4} : Unwritten(l, k) => Unwritten(work[w], k),
           Cuts <= Cuts', work[w].at = "record" => Cuts < Cuts'
    PROVE  AllPaid'
  <1>1. ASSUME NEW r \in Logs, NEW k \in {2, 4} PROVE Paid(r, k)'
    <2>1. Writes(r, k)' = Writes(r, k) /\ (Recorded(r, k)' <=> Recorded(r, k))
      BY DEF Writes, Recorded
    <2>2. /\ ~At(l, "call", k) /\ (Unwritten(l, k) => Unwritten(work[w], k))
          /\ At(work[w], "record", k) => Cuts < Cuts'
      BY DEF At
    <2> QED
      BY <2>1, <2>2, MovePaid
  <1>2. IsFiniteSet(Busy)'
    BY BusyStays DEF AllPaid
  <1> QED
    BY <1>1, <1>2 DEF AllPaid

LEMMA SameCuts ==
    ASSUME TypeOK, mishaps' = mishaps
    PROVE  Cuts' = Cuts /\ Cuts <= Cuts'
  BY DEF Cuts, TypeOK

\* Worker w goes on in its attempt, at another label.
LEMMA GoesPaid ==
    ASSUME Inv, Inv', AllPaid, NEW w \in Workers, NEW l \in Work, work' = [work EXCEPT ![w] = l],
           l.row = work[w].row, work[w].at \notin {"idle", "call", "record"}, l.at \notin {"call", "record"},
           l.step = work[w].step \/ l.at \notin {"start", "enrich", "score", "check"},
           l.at \in {"start", "enrich", "score", "check"} =>
               work[w].at \in {"start", "enrich", "score", "check"},
           job' = job, crm' = crm, mishaps' = mishaps,
           \A r \in Logs : trail'[r].checkpoint = trail[r].checkpoint
    PROVE  AllPaid'
  <1>1. TypeOK /\ TypeOK' /\ OneMoves(w, l) /\ Cuts <= Cuts'
    BY SameCuts DEF Inv, OneMoves
  <1>2. \A k \in {2, 4} : Unwritten(l, k) => Unwritten(work[w], k)
    BY DEF Unwritten
  <1> QED
    BY <1>1, <1>2, QuietPaid

LEMMA StatusPaid ==
    ASSUME Inv, Inv', AllPaid, NEW w \in Workers,
           StartProcessing(w) \/ MarkSuccess(w) \/ MarkFailed(w) \/ EnrichPerson(w) \/ Score(w)
             \/ SaveScore(w) \/ AuditSuccess(w)
    PROVE  AllPaid'
  <1>1. work \in [Workers -> Work] /\ trail \in [Logs -> Trails]
    BY DEF Inv, TypeOK
  <1>2. job' = job /\ crm' = crm /\ mishaps' = mishaps
    BY DEF StartProcessing, MarkSuccess, MarkFailed, SetStatus, EnrichPerson, Score, SaveScore,
           AuditSuccess, Tables
  <1>3. CASE Score(w)
    <2>1. PICK q \in BOOLEAN : work' = [work EXCEPT ![w].at = "check", ![w].qualifies = q]
      BY <1>3 DEF Score
    <2>2. PICK l : l = [work[w] EXCEPT !.at = "check", !.qualifies = q]
      OBVIOUS
    <2>3. work' = [work EXCEPT ![w] = l] /\ l \in Work /\ l.row = work[w].row
          /\ l.step = work[w].step /\ l.at = "check"
      BY <1>1, <2>1, <2>2 DEF Work, InTry
    <2>4. work[w].at = "score" /\ trail' = trail
      BY <1>3 DEF Score, Tables
    <2> QED
      BY <1>2, <2>3, <2>4, GoesPaid
  <1>4. CASE StartProcessing(w) \/ EnrichPerson(w)
    <2>1. PICK to \in {"enrich", "score"} : Goes(w, to)
      BY <1>4 DEF StartProcessing, SetStatus, EnrichPerson
    <2>2. work[w].at \in {"start", "enrich"} /\ trail' = trail
      BY <1>4 DEF StartProcessing, SetStatus, EnrichPerson
    <2>3. PICK l \in Work :
              /\ work' = [work EXCEPT ![w] = l] /\ l.at = to /\ l.row = Row(w)
              /\ l.step = work[w].step
      BY <2>1, <2>2, GoesTo DEF InTry
    <2> QED
      BY <1>2, <2>2, <2>3, GoesPaid DEF Row
  <1>5. CASE MarkSuccess(w) \/ MarkFailed(w) \/ SaveScore(w) \/ AuditSuccess(w)
    <2>1. PICK to \in {"completed", "attempt_failed", "audit", "success"} : Goes(w, to)
      BY <1>5 DEF MarkSuccess, MarkFailed, SetStatus, SaveScore, AuditSuccess
    <2>2. work[w].at \in {"success", "catch", "history", "audit"}
      BY <1>5 DEF MarkSuccess, MarkFailed, SetStatus, SaveScore, AuditSuccess
    <2>3. PICK l \in Work :
              /\ work' = [work EXCEPT ![w] = l] /\ l.at = to /\ l.row = Row(w)
              /\ l.step = work[w].step
      BY <2>1, <2>2, GoesTo DEF InTry
    <2>4. \A r \in Logs : trail'[r].checkpoint = trail[r].checkpoint
      BY <1>1, <1>5 DEF MarkSuccess, MarkFailed, SetStatus, SaveScore, AuditSuccess, Trails
    <2> QED
      BY <1>2, <2>1, <2>2, <2>3, <2>4, GoesPaid DEF Row
  <1> QED
    BY <1>3, <1>4, <1>5

LEMMA ThrowPaid ==
    ASSUME Inv, Inv', AllPaid, NEW w \in Workers, JobThrows(w)
    PROVE  AllPaid'
  <1>1. work \in [Workers -> Work] /\ TypeOK /\ TypeOK'
    BY DEF Inv, TypeOK
  <1>2. PICK at \in {"catch", "attempt_failed"} : work' = [work EXCEPT ![w].at = at]
    BY DEF JobThrows, Goes
  <1>3. PICK l : l = [work[w] EXCEPT !.at = at]
    OBVIOUS
  <1>4. /\ OneMoves(w, l) /\ crm' = crm /\ trail' = trail /\ l.at \notin {"call", "record"}
        /\ l.at \in {"catch", "attempt_failed"}
    BY <1>1, <1>2, <1>3 DEF JobThrows, Tables, OneMoves, InTry, Work
  <1>5. \A k \in {2, 4} : Unwritten(l, k) => Unwritten(work[w], k)
    BY <1>4 DEF Unwritten
  <1>6. Cuts <= Cuts' /\ (work[w].at = "record" => Cuts < Cuts')
    BY <1>1 DEF JobThrows, Cut, Mishap, Cuts, TypeOK
  <1> QED
    BY <1>1, <1>4, <1>5, <1>6, QuietPaid

LEMMA CheckPaid ==
    ASSUME Inv, Inv', AllPaid, NEW w \in Workers, GetCompleted(w)
    PROVE  AllPaid'
  <1>1. /\ work \in [Workers -> Work] /\ TypeOK /\ TypeOK' /\ work[w] \in Work
        /\ work[w].at = "check" /\ crm' = crm /\ trail' = trail /\ mishaps' = mishaps /\ job' = job
    BY DEF Inv, TypeOK, GetCompleted, Tables
  <1>2. Row(w) \in Logs /\ Cuts <= Cuts'
    BY <1>1, SameCuts DEF Inv, Queued
  <1>3. PICK l : work' = [work EXCEPT ![w] = l] /\ l.row = work[w].row /\
           \/ /\ Action(w) \in trail[Row(w)].checkpoint
              /\ \/ l.at = "check" /\ l.step = work[w].step + 1
                 \/ l.at = "history"
           \/ /\ Action(w) \notin trail[Row(w)].checkpoint
              /\ l.at = "call" /\ l.step = work[w].step
    <2>1. CASE Action(w) \in trail[Row(w)].checkpoint
      <3>1. PICK x : x = Skipped(w)
        OBVIOUS
      <3>2. x \in Work /\ x.row = work[w].row /\ x.step = work[w].step
        <4>1. NoteKept(w) \in Nat
          BY <1>1, <1>2 DEF NoteKept, TypeOK, Trails
        <4>2. (work[w].opportunity \/ Action(w) = "create_opportunity") \in BOOLEAN
          OBVIOUS
        <4> QED
          BY <1>1, <3>1, <4>1, <4>2 DEF Skipped, Work
      <3>3. work' = [work EXCEPT ![w] = AfterStep(x)]
        BY <1>1, <2>1, <3>1 DEF GetCompleted
      <3>4. PICK l : l = AfterStep(x)
        OBVIOUS
      <3>5. l.row = work[w].row /\ ((l.at = "check" /\ l.step = work[w].step + 1) \/ l.at = "history")
        BY <3>2, <3>4, After
      <3>6. work' = [work EXCEPT ![w] = l]
        BY <3>3, <3>4
      <3> QED
        BY <2>1, <3>5, <3>6
    <2>2. CASE Action(w) \notin trail[Row(w)].checkpoint
      <3>1. PICK l : l = [work[w] EXCEPT !.at = "call"]
        OBVIOUS
      <3>2. work' = [work EXCEPT ![w] = l]
        BY <1>1, <2>2, <3>1 DEF GetCompleted, Goes
      <3>3. l.row = work[w].row /\ l.at = "call" /\ l.step = work[w].step
        BY <1>1, <3>1 DEF Work
      <3> QED
        BY <2>2, <3>2, <3>3
    <2> QED
      BY <2>1, <2>2
  <1>4. OneMoves(w, l)
    BY <1>1, <1>3 DEF OneMoves
  <1>5. ASSUME NEW r \in Logs, NEW k \in {2, 4} PROVE Paid(r, k)'
    <2>1. Writes(r, k)' = Writes(r, k) /\ (Recorded(r, k)' <=> Recorded(r, k))
      BY <1>1 DEF Writes, Recorded
    <2>2. work[w].step \in 1 .. 4 /\ Action(w) = Actions[work[w].step]
      BY <1>1 DEF Work, Action
    <2>3. ASSUME Row(w) = r, Recorded(r, k) PROVE ~At(l, "call", k)
      BY <1>3, <2>2, <2>3 DEF At, Recorded
    <2>4. ASSUME Row(w) = r, Unwritten(l, k) PROVE Unwritten(work[w], k)
      BY <1>1, <1>3, <2>2, <2>4 DEF Unwritten
    <2>5. ~At(work[w], "record", k)
      BY <1>1 DEF At
    <2> QED
      BY <1>1, <1>2, <1>4, <2>1, <2>3, <2>4, <2>5, MovePaid
  <1>6. IsFiniteSet(Busy)'
    BY <1>1, <1>4, BusyStays DEF AllPaid
  <1> QED
    BY <1>5, <1>6 DEF AllPaid

LEMMA CallPaid ==
    ASSUME Inv, Inv', AllPaid, NEW w \in Workers, CallTwenty(w)
    PROVE  AllPaid'
  <1>1. /\ work \in [Workers -> Work] /\ TypeOK /\ TypeOK' /\ work[w] \in Work /\ Queued
        /\ work[w].at = "call" /\ trail' = trail /\ mishaps' = mishaps /\ job' = job
        /\ crm \in [Logs -> CrmRows] /\ crm' = [crm EXCEPT ![Row(w)] = Written(w)]
    BY DEF Inv, TypeOK, CallTwenty
  <1>2. Row(w) \in Logs /\ Cuts <= Cuts' /\ Cuts = Cuts'
    BY <1>1, SameCuts DEF Queued
  <1>3. PICK l : /\ work' = [work EXCEPT ![w] = l] /\ l.row = work[w].row
                 /\ l.at = "record" /\ l.step = work[w].step
    <2>1. PICK note : work' = [work EXCEPT ![w].at = "record", ![w].noteId = note]
      BY DEF CallTwenty
    <2>2. PICK l : l = [work[w] EXCEPT !.at = "record", !.noteId = note]
      OBVIOUS
    <2>3. work' = [work EXCEPT ![w] = l]
      BY <1>1, <2>1, <2>2
    <2>4. l.row = work[w].row /\ l.at = "record" /\ l.step = work[w].step
      BY <1>1, <2>2 DEF Work
    <2> QED
      BY <2>3, <2>4
  <1>4. OneMoves(w, l)
    BY <1>1, <1>3 DEF OneMoves
  <1>5. /\ work[w].step = 1 => Written(w) = [crm[Row(w)] EXCEPT !.updated = TRUE]
        /\ work[w].step = 2 => Written(w) = [crm[Row(w)] EXCEPT !.notes = @ + 1]
        /\ work[w].step = 3 => Written(w) = [crm[Row(w)] EXCEPT !.linked = @ \union {work[w].noteId}]
        /\ work[w].step = 4 => Written(w) = [crm[Row(w)] EXCEPT !.opportunities = @ + 1]
    BY <1>1 DEF Written, Action, Actions
  <1>6. ASSUME NEW r \in Logs, NEW k \in {2, 4} PROVE Paid(r, k)'
    <2>1. Recorded(r, k)' <=> Recorded(r, k)
      BY <1>1 DEF Recorded
    <2>2. CASE r = Row(w) /\ k = work[w].step
      <3>1. Writes(r, k)' = Writes(r, k) + 1
        BY <1>1, <1>5, <2>2 DEF Writes, CrmRows
      <3>2. At(work[w], "call", k) /\ At(l, "record", k)
        BY <1>1, <1>3, <2>2 DEF At
      <3> QED
        BY <1>1, <1>2, <1>4, <2>1, <2>2, <3>1, <3>2, WritePaid
    <2>3. CASE ~(r = Row(w) /\ k = work[w].step)
      <3>1. work[w].step \in 1 .. 4
        BY <1>1 DEF Work
      <3>2. Writes(r, k)' = Writes(r, k)
        BY <1>1, <1>2, <1>5, <2>3, <3>1 DEF Writes, CrmRows
      <3>3. Row(w) = r => /\ ~At(l, "call", k) /\ ~At(work[w], "record", k)
                          /\ Unwritten(l, k) => Unwritten(work[w], k)
        BY <1>1, <1>3 DEF At, Unwritten
      <3> QED
        BY <1>1, <1>2, <1>4, <2>1, <3>2, <3>3, MovePaid
    <2> QED
      BY <2>2, <2>3
  <1>7. IsFiniteSet(Busy)'
    BY <1>1, <1>4, BusyStays DEF AllPaid
  <1> QED
    BY <1>6, <1>7 DEF AllPaid

LEMMA RecordedPaid ==
    ASSUME Inv, Inv', AllPaid, NEW w \in Workers, RecordSuccess(w)
    PROVE  AllPaid'
  <1>1. /\ work \in [Workers -> Work] /\ TypeOK /\ TypeOK' /\ work[w] \in Work
        /\ work[w].at = "record" /\ crm' = crm /\ mishaps' = mishaps /\ job' = job
        /\ trail \in [Logs -> Trails] /\ Queued
    BY DEF Inv, TypeOK, RecordSuccess
  <1>2. Row(w) \in Logs /\ Cuts <= Cuts' /\ Cuts = Cuts'
    BY <1>1, SameCuts DEF Queued
  <1>3. PICK l : /\ work' = [work EXCEPT ![w] = l] /\ l.row = work[w].row
                 /\ \/ l.at = "check" /\ l.step = work[w].step + 1
                    \/ l.at = "history"
    <2>1. PICK x : x = [work[w] EXCEPT !.opportunity = @ \/ Action(w) = "create_opportunity"]
      OBVIOUS
    <2>2. x \in Work /\ x.row = work[w].row /\ x.step = work[w].step
      <3>1. (work[w].opportunity \/ Action(w) = "create_opportunity") \in BOOLEAN
        OBVIOUS
      <3> QED
        BY <1>1, <2>1, <3>1 DEF Work
    <2>3. work' = [work EXCEPT ![w] = AfterStep(x)]
      BY <1>1, <2>1 DEF RecordSuccess
    <2>4. PICK l : l = AfterStep(x)
      OBVIOUS
    <2>5. l.row = work[w].row /\ ((l.at = "check" /\ l.step = work[w].step + 1) \/ l.at = "history")
      BY <2>2, <2>4, After
    <2>6. work' = [work EXCEPT ![w] = l]
      BY <2>3, <2>4
    <2> QED
      BY <2>5, <2>6
  <1>4. OneMoves(w, l)
    BY <1>1, <1>3 DEF OneMoves
  <1>5. /\ trail'[Row(w)].checkpoint = trail[Row(w)].checkpoint \union {Action(w)}
        /\ \A r \in Logs : r # Row(w) => trail'[r] = trail[r]
    BY <1>1, <1>2 DEF RecordSuccess, Trails
  <1>6. ASSUME NEW r \in Logs, NEW k \in {2, 4} PROVE Paid(r, k)'
    <2>1. Writes(r, k)' = Writes(r, k)
      BY <1>1 DEF Writes
    <2>2. ~At(l, "call", k) /\ work[w].step \in 1 .. 4 /\ Action(w) = Actions[work[w].step]
      BY <1>1, <1>3 DEF At, Work, Action
    <2>3. CASE r = Row(w) /\ k = work[w].step
      <3>1. Recorded(r, k)' /\ At(work[w], "record", k)
        BY <1>1, <1>5, <2>2, <2>3 DEF Recorded, At
      <3> QED
        BY <1>1, <1>2, <1>4, <2>1, <2>2, <2>3, <3>1, RecordPaid
    <2>4. CASE ~(r = Row(w) /\ k = work[w].step)
      <3>1. Recorded(r, k)' <=> Recorded(r, k)
        BY <1>1, <1>5, <2>2, <2>4 DEF Recorded, Actions
      <3>2. Row(w) = r => /\ ~At(work[w], "record", k)
                          /\ Unwritten(l, k) => Unwritten(work[w], k)
        BY <1>1, <1>3, <2>2, <2>4 DEF At, Unwritten
      <3> QED
        BY <1>1, <1>2, <1>4, <2>1, <2>2, <3>1, <3>2, MovePaid
    <2> QED
      BY <2>3, <2>4
  <1>7. IsFiniteSet(Busy)'
    BY <1>1, <1>4, BusyStays DEF AllPaid
  <1> QED
    BY <1>6, <1>7 DEF AllPaid

LEMMA ProcessPaid ==
    ASSUME Inv, Inv', AllPaid, NEW w \in Workers, Process(w)
    PROVE  AllPaid'
  BY StatusPaid, ThrowPaid, CheckPaid, CallPaid, RecordedPaid DEF Process

\* Nothing is written and no worker moves.
LEMMA IdlePaid ==
    ASSUME Inv, Inv', AllPaid, UNCHANGED <<work, crm, trail>>,
           \A r \in Logs : job'[r].owner = job[r].owner, Cuts <= Cuts'
    PROVE  AllPaid'
  <1>1. IsFiniteSet(Busy)' /\ TypeOK /\ TypeOK'
    BY DEF AllPaid, Busy, Inv
  <1>2. ASSUME NEW r \in Logs, NEW k \in {2, 4} PROVE Paid(r, k)'
    <2>1. Writes(r, k)' = Writes(r, k) /\ (Recorded(r, k)' <=> Recorded(r, k))
      BY DEF Writes, Recorded
    <2>2. /\ Calling(r, k)' \subseteq Calling(r, k) /\ Stale(r, k)' \subseteq Stale(r, k)
          /\ OwnerWrote(r, k) => OwnerWrote(r, k)'
      BY DEF Calling, Stale, OwnerWrote, Holds, Row
    <2> QED
      BY <1>1, <2>1, <2>2, StillPaid DEF AllPaid
  <1> QED
    BY <1>1, <1>2 DEF AllPaid

LEMMA ReceivePaid ==
    ASSUME Inv, Inv', AllPaid, NEW p \in Procs, Receive(p)
    PROVE  AllPaid'
  <1>1. CASE AddJob(p)
    <2>1. job \in [Logs -> Jobs] /\ job' = [job EXCEPT ![req[p].row].state = "waiting"]
      BY <1>1 DEF AddJob, Inv, TypeOK
    <2>2. \A r \in Logs : job'[r].owner = job[r].owner
      BY <2>1 DEF Jobs
    <2>3. UNCHANGED <<work, crm, trail, mishaps>>
      BY <1>1 DEF AddJob, Answer
    <2> QED
      BY <2>2, <2>3, IdlePaid, SameCuts DEF Inv
  <1>2. CASE HasSeenOrMark(p)
    <2>1. UNCHANGED <<crm, trail, job>>
      BY <1>2 DEF HasSeenOrMark
    <2>2. UNCHANGED <<work, mishaps>>
      <3>1. CASE EventId[req[p].notice] \in marks
        BY <1>2, <3>1 DEF HasSeenOrMark, Answer
      <3>2. CASE EventId[req[p].notice] \notin marks
        BY <1>2, <3>2 DEF HasSeenOrMark, Answer
      <3> QED
        BY <3>1, <3>2
    <2> QED
      BY <2>1, <2>2, IdlePaid, SameCuts DEF Inv
  <1>3. CASE CreateLog(p)
    <2>1. UNCHANGED <<work, crm, trail, job, mishaps>>
      BY <1>3 DEF CreateLog, Answer
    <2> QED
      BY <2>1, IdlePaid, SameCuts DEF Inv
  <1>4. CASE AnswerWebhook(p) \/ \E n \in Notices : Deliver(p, n)
    <2>1. UNCHANGED <<work, crm, trail, job, mishaps>>
      BY <1>4 DEF AnswerWebhook, Deliver, Answer
    <2> QED
      BY <2>1, IdlePaid, SameCuts DEF Inv
  <1>5. CASE RequestThrows(p)
    <2>1. UNCHANGED <<work, crm, trail, job>>
      BY <1>5 DEF RequestThrows, Tables
    <2>2. Cuts <= Cuts'
      BY <1>5 DEF RequestThrows, Mishap, Cuts, Inv, TypeOK
    <2> QED
      BY <2>1, <2>2, IdlePaid
  <1> QED
    BY <1>1, <1>2, <1>3, <1>4, <1>5 DEF Receive

LEMMA ExpirePaid ==
    ASSUME Inv, Inv', AllPaid, NEW id \in EventIds, Expire(id)
    PROVE  AllPaid'
  <1>1. Cuts <= Cuts'
    BY DEF Expire, Mishap, Cuts, Inv, TypeOK
  <1> QED
    BY <1>1, IdlePaid DEF Expire

LEMMA RestartPaid ==
    ASSUME Inv, Inv', AllPaid, Restart
    PROVE  AllPaid'
  <1>1. crm' = crm /\ trail' = trail /\ TypeOK /\ TypeOK' /\ work' = [w \in Workers |-> NoWork]
    BY DEF Restart, Tables, Inv
  <1>2. Cuts < Cuts' /\ Cuts <= Cuts'
    BY DEF Restart, Mishap, Cuts, Inv, TypeOK
  <1>3. \A w \in Workers : work'[w].at = "idle"
    BY <1>1 DEF NoWork
  <1>4. IsFiniteSet(Busy)'
    <2>1. Busy' = {}
      BY <1>3 DEF Busy
    <2> QED
      BY <2>1, FS_EmptySet
  <1>5. ASSUME NEW r \in Logs, NEW k \in {2, 4} PROVE Paid(r, k)'
    <2>1. Writes(r, k)' = Writes(r, k) /\ (Recorded(r, k)' <=> Recorded(r, k))
      BY <1>1 DEF Writes, Recorded
    <2>2. Calling(r, k)' \subseteq Calling(r, k) /\ Stale(r, k)' \subseteq Stale(r, k)
      BY <1>3 DEF Calling, Stale, Holds, At
    <2> QED
      BY <1>1, <1>2, <1>4, <2>1, <2>2, StillPaid DEF AllPaid
  <1> QED
    BY <1>4, <1>5 DEF AllPaid

LEMMA TakePaid ==
    ASSUME Inv, Inv', AllPaid, NEW w \in Workers, NEW r \in Logs, Take(w, r)
    PROVE  AllPaid'
  <1>1. /\ TypeOK /\ TypeOK' /\ crm' = crm /\ trail' = trail /\ mishaps' = mishaps
        /\ work \in [Workers -> Work] /\ job \in [Logs -> Jobs] /\ work[w].at = "idle"
        /\ work' = [work EXCEPT ![w] = [NoWork EXCEPT !.at = "start", !.row = r]]
    BY DEF Take, Inv, TypeOK
  <1>2. job[r].owner = NoWorker /\ NoWorker \notin Workers
    <2>1. job[r].state = "active" <=> job[r].owner # NoWorker
      BY DEF Inv, Queued
    <2> QED
      BY <2>1, PipelineAssumption DEF Take
  <1>3. /\ job'[r].owner = w /\ \A q \in Logs : q # r => job'[q] = job[q]
        /\ work'[w].at = "start" /\ work'[w].row = r
        /\ \A v \in Workers : v # w => work'[v] = work[v]
    BY <1>1 DEF Take, Jobs, NoWork
  <1>4. IsFiniteSet(Busy)'
    <2>1. Busy' = Busy \union {w}
      BY <1>1, <1>3 DEF Busy
    <2> QED
      BY <2>1, FS_AddElement DEF AllPaid
  <1>5. ASSUME NEW q \in Logs, NEW k \in {2, 4} PROVE Paid(q, k)'
    <2>1. Writes(q, k)' = Writes(q, k) /\ (Recorded(q, k)' <=> Recorded(q, k))
      BY <1>1 DEF Writes, Recorded
    <2>2. Calling(q, k)' \subseteq Calling(q, k)
      BY <1>3 DEF Calling, At, Row
    <2>3. Stale(q, k)' \subseteq Stale(q, k)
      BY <1>2, <1>3 DEF Stale, Holds, Row
    <2>4. OwnerWrote(q, k) => OwnerWrote(q, k)'
      BY <1>1, <1>2, <1>3 DEF OwnerWrote, At, Row
    <2>5. Cuts <= Cuts'
      BY <1>1, SameCuts
    <2> QED
      BY <1>1, <1>4, <2>1, <2>2, <2>3, <2>4, <2>5, StillPaid DEF AllPaid
  <1> QED
    BY <1>4, <1>5 DEF AllPaid

LEMMA SettlePaid ==
    ASSUME Inv, Inv', AllPaid, NEW w \in Workers, NEW at \in {"completed", "attempt_failed"},
           NEW settled, Settle(w, at, settled)
    PROVE  AllPaid'
  <1>1. /\ TypeOK /\ TypeOK' /\ crm' = crm /\ trail' = trail /\ mishaps' = mishaps
        /\ work \in [Workers -> Work] /\ job \in [Logs -> Jobs] /\ work[w].at = at
        /\ work' = [work EXCEPT ![w] = NoWork]
    BY DEF Settle, Inv, TypeOK
  <1>2. /\ work'[w].at = "idle" /\ \A v \in Workers : v # w => work'[v] = work[v]
        /\ \A q \in Logs : job'[q] = job[q] \/ job[q].owner = w
    BY <1>1 DEF Settle, NoWork
  <1>3. IsFiniteSet(Busy)'
    <2>1. Busy' \in SUBSET Busy
      BY <1>2 DEF Busy
    <2> QED
      BY <2>1, FS_Subset DEF AllPaid
  <1>4. ASSUME NEW q \in Logs, NEW k \in {2, 4} PROVE Paid(q, k)'
    <2>1. Writes(q, k)' = Writes(q, k) /\ (Recorded(q, k)' <=> Recorded(q, k))
      BY <1>1 DEF Writes, Recorded
    <2>2. Calling(q, k)' \subseteq Calling(q, k)
      BY <1>2 DEF Calling, At, Row
    <2>3. Stale(q, k)' \subseteq Stale(q, k)
      BY <1>2 DEF Stale, Holds, Row
    <2>4. OwnerWrote(q, k) => OwnerWrote(q, k)'
      BY <1>1, <1>2 DEF OwnerWrote, At, Row
    <2>5. Cuts <= Cuts'
      BY <1>1, SameCuts
    <2> QED
      BY <1>1, <1>3, <2>1, <2>2, <2>3, <2>4, <2>5, StillPaid DEF AllPaid
  <1> QED
    BY <1>3, <1>4 DEF AllPaid

\* The owner o of r's job loses it, which is an overlap if it still runs the job.
LEMMA ReclaimPaid ==
    ASSUME Inv, Inv', AllPaid, NEW r \in Logs, Reclaim(r)
    PROVE  AllPaid'
  <1>1. /\ TypeOK /\ TypeOK' /\ crm' = crm /\ trail' = trail /\ work' = work
        /\ work \in [Workers -> Work] /\ job \in [Logs -> Jobs] /\ job[r].state = "active"
    BY DEF Reclaim, Inv, TypeOK
  <1>2. job'[r].owner = NoWorker /\ \A q \in Logs : q # r => job'[q] = job[q]
    BY <1>1 DEF Reclaim, Jobs
  <1>3. PICK o : o = job[r].owner
    OBVIOUS
  <1>4. IsFiniteSet(Busy) /\ IsFiniteSet(Busy)'
    BY <1>1 DEF AllPaid, Busy
  <1>5. ASSUME NEW q \in Logs, NEW k \in {2, 4}
        PROVE  /\ Writes(q, k)' = Writes(q, k) /\ (Recorded(q, k)' <=> Recorded(q, k))
               /\ Calling(q, k)' = Calling(q, k)
               /\ q # r => Stale(q, k)' = Stale(q, k) /\ (OwnerWrote(q, k)' <=> OwnerWrote(q, k))
    BY <1>1, <1>2 DEF Writes, Recorded, Calling, Stale, OwnerWrote, Holds, Row
  <1>6. Cuts <= Cuts' /\ Cuts \in Nat
    BY DEF Reclaim, Mishap, Cuts, Inv, TypeOK
  <1>7. ASSUME NEW k \in {2, 4} PROVE Paid(r, k)'
    <2>1. CASE \A w \in Workers : ~Holds(w, r)
      <3>1. Stale(r, k)' \subseteq Stale(r, k) /\ ~OwnerWrote(r, k)
        BY <1>1, <2>1 DEF Stale, OwnerWrote, Holds, Row, At
      <3> QED
        BY <1>1, <1>4, <1>5, <1>6, <3>1, StillPaid DEF AllPaid
    <2>2. CASE Holds(o, r) /\ Mishap("overlaps")
      <3>1. Cuts' = Cuts + 1
        BY <2>2 DEF Mishap, Cuts, Inv, TypeOK
      <3>2. \A v \in Workers : v \in Stale(r, k)' => v \in Stale(r, k) \/ (v = o /\ Unwritten(work[v], k))
        BY <1>1, <1>3 DEF Stale, Holds, Row
      <3>3. CASE Unwritten(work[o], k) /\ ~Recorded(r, k)
        <4>1. ~OwnerWrote(r, k)
          BY <1>3, <3>3 DEF OwnerWrote, Unwritten, At
        <4>2. IsFiniteSet(Stale(r, k)) /\ Cardinality(Stale(r, k)) \in Nat /\ Writes(r, k) \in Nat
          BY <1>1, <1>4, FiniteWorkers, CountTypes
        <4>3. PICK S : S = Stale(r, k) \union {o}
          OBVIOUS
        <4>4. IsFiniteSet(S) /\ Cardinality(S) \in Nat /\ Cardinality(S) <= Cardinality(Stale(r, k)) + 1
          <5>1. /\ IsFiniteSet(S)
                /\ Cardinality(S) \in {Cardinality(Stale(r, k)), Cardinality(Stale(r, k)) + 1}
            BY <4>2, <4>3, FS_AddElement
          <5> QED
            BY <4>2, <5>1
        <4>5. PICK T : T = Stale(r, k)'
          OBVIOUS
        <4>6. T \in SUBSET S
          BY <3>2, <4>3, <4>5 DEF Stale
        <4>7. Cardinality(T) <= Cardinality(S) /\ Cardinality(T) \in Nat
          BY <4>4, <4>6, FS_Subset, FS_CardinalityType
        <4>8. Writes(r, k) + Cardinality(Stale(r, k)) <= Cuts
          BY <1>6, <3>3, <4>1, <4>2 DEF AllPaid, Paid
        <4>9. Writes(r, k)' + Cardinality(T) <= Cuts'
          BY <1>5, <1>6, <3>1, <4>2, <4>4, <4>7, <4>8
        <4>10. Writes(r, k)' + Cardinality(T) <= Cuts' + IF OwnerWrote(r, k)' THEN 1 ELSE 0
          BY <1>5, <1>6, <3>1, <4>2, <4>7, <4>9
        <4> QED
          BY <1>5, <3>3, <4>5, <4>10 DEF Paid
      <3>4. CASE ~(Unwritten(work[o], k) /\ ~Recorded(r, k))
        <4>1. ~Recorded(r, k) => Stale(r, k)' \subseteq Stale(r, k)
          BY <3>2, <3>4 DEF Stale
        <4>2. Cuts < Cuts'
          BY <1>6, <3>1
        <4> QED
          BY <1>1, <1>4, <1>5, <1>6, <4>1, <4>2, StillPaid DEF AllPaid
      <3> QED
        BY <3>3, <3>4
    <2> QED
      BY <1>3, <2>1, <2>2 DEF Reclaim
  <1>8. ASSUME NEW q \in Logs, q # r, NEW k \in {2, 4} PROVE Paid(q, k)'
    BY <1>1, <1>4, <1>5, <1>6, <1>8, StillPaid DEF AllPaid
  <1> QED
    BY <1>4, <1>7, <1>8 DEF AllPaid

LEMMA NextPaid == Inv /\ Inv' /\ AllPaid /\ [Next]_vars => AllPaid'
  <1> SUFFICES ASSUME Inv, Inv', AllPaid, [Next]_vars PROVE AllPaid'
    OBVIOUS
  <1>1. CASE Queue
    <2>1. ASSUME NEW w \in Workers, JobCompleted(w) \/ AttemptFailed(w) PROVE AllPaid'
      BY <2>1, SettlePaid DEF JobCompleted, AttemptFailed
    <2> QED
      BY <1>1, <2>1, TakePaid, ReclaimPaid DEF Queue
  <1>2. CASE UNCHANGED vars
    <2>1. UNCHANGED <<work, crm, trail, job, mishaps>>
      BY <1>2 DEF vars
    <2> QED
      BY <2>1, IdlePaid, SameCuts DEF Inv
  <1> QED
    BY <1>1, <1>2, ReceivePaid, ProcessPaid, RestartPaid, ExpirePaid DEF Next

LEMMA InitPaid == Init => AllPaid
  <1> SUFFICES ASSUME Init PROVE AllPaid
    OBVIOUS
  <1>1. \A w \in Workers : work[w].at = "idle"
    BY DEF Init, NoWork
  <1>2. IsFiniteSet(Busy)
    <2>1. Busy = {}
      BY <1>1 DEF Busy
    <2> QED
      BY <2>1, FS_EmptySet
  <1>3. ASSUME NEW r \in Logs, NEW k \in {2, 4} PROVE Paid(r, k)
    <2>1. Stale(r, k) = {} /\ Calling(r, k) = {}
      BY <1>1 DEF Stale, Calling, Holds, At
    <2>2. Cardinality(Stale(r, k)) = 0 /\ Cardinality(Calling(r, k)) = 0
      BY <2>1, FS_EmptySet
    <2>3. Writes(r, k) = 0 /\ Cuts = 0
      BY DEF Init, Writes, Cuts
    <2> QED
      BY <2>2, <2>3 DEF Paid
  <1> QED
    BY <1>2, <1>3 DEF AllPaid

\* "Already-checkpointed actions are not repeated": one note and one opportunity more for each
\* cut, restart and overlap is all that is ever written, however many workers run the job.
THEOREM DuplicatesArePaid == Spec => []DuplicatesNeedACut
  <1>1. Inv /\ AllPaid => DuplicatesNeedACut
    <2> SUFFICES ASSUME Inv, AllPaid, NEW r \in Logs
                 PROVE  crm[r].notes <= 1 + Cuts /\ crm[r].opportunities <= 1 + Cuts
      BY DEF DuplicatesNeedACut, Cuts
    <2>1. ASSUME NEW k \in {2, 4} PROVE Writes(r, k) <= 1 + Cuts
      <3>1. Writes(r, k) \in Nat /\ Cuts \in Nat
        BY CountTypes DEF Inv
      <3>2. Cardinality(Stale(r, k)) \in Nat /\ Cardinality(Calling(r, k)) \in Nat
        BY FiniteWorkers DEF AllPaid
      <3> QED
        BY <3>1, <3>2 DEF AllPaid, Paid
    <2>2. Writes(r, 2) <= 1 + Cuts /\ Writes(r, 4) <= 1 + Cuts
      BY <2>1
    <2> QED
      BY <2>2 DEF Writes
  <1> QED
    BY <1>1, InitPaid, NextPaid, Invariance, PTL DEF Spec
==============================================================================
