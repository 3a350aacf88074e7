------------------------- MODULE CompanyBrainProofs --------------------------
(***************************************************************************)
(* Proofs about CompanyBrain for every number of admins, workers, fields,   *)
(* sources, edits, analyses and mishaps.  The inductive invariant Inv has    *)
(* three parts: Typed, the types and who may be at which analysis job;       *)
(* Told, what the row says of the edits it has seen, and that a worker about *)
(* to write has read them all; and Coming, the analysis an analyzing brain   *)
(* waits for.                                                               *)
(***************************************************************************)
EXTENDS CompanyBrain, SequenceTheorems, TLAPS

Asking == {"mark", "add"}  \* the request has created its analysis job

RowShape(j) ==
    jobs[j].state # "failed" => jobs[j].made < MaxAttempts /\ jobs[j].stalled <= MaxStalled

RequestShape(q) ==
    /\ q.at = "write" => q.edit \in Edits
    /\ q.at \in Asking => /\ q.job \in DOMAIN jobs
                          /\ jobs[q.job].status = "queued" /\ jobs[q.job].state = "none"
                          /\ \A w \in Workers : work[w].at # "idle" => work[w].job # q.job

WorkerShape(w) ==
    work[w].at # "idle" =>
        /\ work[w].job \in DOMAIN jobs
        /\ jobs[work[w].job].state = IF work[w].sync THEN "none" ELSE "active"
        /\ ~work[w].sync => jobs[work[w].job].owner = w
        /\ \A v \in Workers : v # w /\ work[v].at # "idle" => work[v].job # work[w].job

Typed ==
    /\ TypeOK
    /\ \A j \in DOMAIN jobs : RowShape(j)
    /\ \A a \in Admins : RequestShape(req[a])
    /\ \A a, b \in Admins : a # b /\ req[a].at \in Asking /\ req[b].at \in Asking =>
           req[a].job # req[b].job
    /\ \A w \in Workers : WorkerShape(w)

\* text shows what was last said of field f.
Shows(text, f) ==
    /\ asked[f] = "keep" => text[f] = "human"
    /\ asked[f] = "drop" => text[f] = "none"

\* No mark on a field nobody said anything of.
Bare(f) ==
    asked[f] = "nothing" /\ (f \in Items => ~Whole(f, brain.over)) =>
        f \notin brain.over.sections \union brain.over.items \union brain.over.suppressed

About == {"processing", "write"}  \* the worker has read the row and will write it

Told ==
    /\ \A f \in Fields : asked[f] = "drop" => f \in Items
    /\ mishaps.edits = 0 => \A f \in Fields : Marked(f) /\ Bare(f)
    /\ mishaps.edits + mishaps.regens = 0 =>
          /\ \A f \in Fields : Heard(f)
          /\ \A w \in Workers : work[w].at \in About =>
                work[w].over = brain.over /\ \A f \in Fields : Shows(work[w].text, f)
    /\ ReadyShowsSources

\* The worker has not yet marked its row.
Underway == About \union {"idle", "start", "fail_brain", "attempt_failed"}

Open(j) ==
    /\ jobs[j].status \in {"queued", "processing"}
    /\ \A w \in Workers : work[w].job = j => work[w].at \in Underway

Coming == brain.status = "analyzing" => \E j \in DOMAIN jobs : Open(j)

Inv == Typed /\ Told /\ Coming

------------------------------------------------------------------------------
LEMMA Bounds == MaxStalled \in Nat /\ MaxAttempts \in Nat \ {0} /\ NoWorker \notin Workers
  BY BrainAssumption

LEMMA StartTypes ==
    /\ NoText \in Texts /\ NoOverrides \in Overrides
    /\ NoRequest \in Requests /\ NoRequest.at = "idle"
    /\ NoWork \in Work /\ NoWork.at = "idle" /\ NoWork.job = 0
  <1>1. NoText \in Texts /\ NoOverrides \in Overrides
    BY DEF NoText, Texts, Authors, NoOverrides, Overrides
  <1> QED
    BY <1>1 DEF NoRequest, Requests, NoWork, Work

LEMMA InitInv == Init => Inv
  <1> SUFFICES ASSUME Init PROVE Inv
    OBVIOUS
  <1>1. Typed
    BY StartTypes DEF Init, Typed, TypeOK, Brains, RowShape, RequestShape, WorkerShape, Asking, Rows,
       Wishes
  <1>2. Told
    BY StartTypes DEF Init, Told, Marked, Bare, Heard, Shows, About, NoOverrides, ReadyShowsSources,
       Fields
  <1>3. Coming
    BY DEF Init, Coming
  <1> QED
    BY <1>1, <1>2, <1>3 DEF Inv

------------------------------------------------------------------------------
(* What every step has in common.                                           *)

Counts == [faults : Nat, restarts : Nat, cuts : Nat, edits : Nat, regens : Nat]

\* Mishaps are only added.
Onward ==
    /\ mishaps' \in Counts
    /\ mishaps'.edits = 0 => mishaps.edits = 0
    /\ mishaps'.edits + mishaps'.regens = 0 => mishaps.edits + mishaps.regens = 0

LEMMA MishapTypes ==
    ASSUME Inv, NEW kinds, Mishaps(kinds)
    PROVE  /\ Onward
           /\ mishaps'.edits = 0 => "edits" \notin kinds
           /\ mishaps'.edits + mishaps'.regens = 0 => "edits" \notin kinds /\ "regens" \notin kinds
  <1>1. mishaps \in Counts
    BY DEF Inv, Typed, TypeOK, Counts
  <1>2. mishaps' = [faults |-> IF "faults" \in kinds THEN mishaps.faults + 1 ELSE mishaps.faults,
                    restarts |-> IF "restarts" \in kinds THEN mishaps.restarts + 1 ELSE mishaps.restarts,
                    cuts |-> IF "cuts" \in kinds THEN mishaps.cuts + 1 ELSE mishaps.cuts,
                    edits |-> IF "edits" \in kinds THEN mishaps.edits + 1 ELSE mishaps.edits,
                    regens |-> IF "regens" \in kinds THEN mishaps.regens + 1 ELSE mishaps.regens]
    BY <1>1 DEF Mishaps, Counts
  <1> QED
    BY <1>1, <1>2 DEF Onward, Counts

LEMMA SameMishaps ==
    ASSUME Inv, UNCHANGED mishaps
    PROVE  Onward
  BY DEF Inv, Typed, TypeOK, Onward, Counts

\* Text and overrides stay, and who is about to write it has read it.
LEMMA ToldStays ==
    ASSUME Inv, UNCHANGED <<asked, analysed>>, Onward,
           brain'.text = brain.text, brain'.over = brain.over,
           brain'.status = "ready" => brain.status = "ready",
           \A w \in Workers : work'[w].at \in About =>
              \/ work[w].at \in About /\ work'[w].over = work[w].over /\ work'[w].text = work[w].text
              \/ work'[w].over = brain.over /\ work'[w].text = brain.text
    PROVE  Told'
  BY DEF Inv, Told, Onward, Marked, Bare, Heard, Shows, ReadyShowsSources

\* A request goes on or ends.
LEMMA RequestTyped ==
    ASSUME Inv, NEW a \in Admins, NEW to \in Requests,
           req' = [req EXCEPT ![a] = to],
           to.at = "write" => to.edit \in Edits,
           to.at \in Asking => req[a].at \in Asking /\ to.job = req[a].job,
           UNCHANGED <<jobs, work>>,
           brain' \in Brains, sources' \subseteq Contents, UNCHANGED analysed,
           asked' \in [Fields -> Wishes], edits' \in Nat, Onward
    PROVE  Typed'
  <1>1. req \in [Admins -> Requests] /\ req' \in [Admins -> Requests]
    BY DEF Inv, Typed, TypeOK
  <1>2. TypeOK'
    BY <1>1 DEF Inv, Typed, TypeOK, Onward, Counts
  <1>3. \A b \in Admins : RequestShape(req[b])'
    BY <1>1 DEF Inv, Typed, RequestShape
  <1>4. \A b, d \in Admins : b # d /\ req'[b].at \in Asking /\ req'[d].at \in Asking =>
            req'[b].job # req'[d].job
    BY <1>1 DEF Inv, Typed
  <1> QED
    BY <1>2, <1>3, <1>4 DEF Inv, Typed, RowShape, WorkerShape

\* A worker goes on with its job, and may set its row's status.
LEMMA WorkerTyped ==
    ASSUME Inv, NEW w \in Workers, NEW to \in Work, work[w].at # "idle",
           work' = [work EXCEPT ![w] = to],
           to.job = work[w].job, to.sync = work[w].sync,
           NEW s \in {"queued", "processing", "completed", "failed"},
           jobs' = jobs \/ jobs' = [jobs EXCEPT ![work[w].job].status = s],
           brain' \in Brains, analysed' \subseteq Contents,
           UNCHANGED <<req, sources, asked, edits>>, Onward
    PROVE  Typed'
  <1> DEFINE j == work[w].job
  <1>1. /\ work \in [Workers -> Work] /\ work' \in [Workers -> Work] /\ jobs \in Seq(Rows)
        /\ j \in DOMAIN jobs /\ jobs[j] \in Rows
    BY DEF Inv, Typed, TypeOK, WorkerShape
  <1>2. /\ jobs' \in Seq(Rows) /\ DOMAIN jobs' = DOMAIN jobs
        /\ \A i \in DOMAIN jobs : /\ jobs'[i].state = jobs[i].state /\ jobs'[i].made = jobs[i].made
                                  /\ jobs'[i].stalled = jobs[i].stalled
                                  /\ jobs'[i].owner = jobs[i].owner
                                  /\ i # j => jobs'[i] = jobs[i]
    <2>1. CASE jobs' = jobs
      BY <1>1, <2>1
    <2>2. CASE jobs' = [jobs EXCEPT ![j].status = s]
      <3>1. PICK row \in Rows : /\ row = [jobs[j] EXCEPT !.status = s]
                                /\ row.state = jobs[j].state /\ row.made = jobs[j].made
                                /\ row.stalled = jobs[j].stalled /\ row.owner = jobs[j].owner
        <4>1. [jobs[j] EXCEPT !.status = s] \in Rows
          BY <1>1 DEF Rows
        <4> QED
          BY <1>1, <4>1 DEF Rows
      <3>2. jobs' = [jobs EXCEPT ![j] = row]
        BY <2>2, <3>1, Zenon
      <3> QED
        BY <1>1, <3>1, <3>2
    <2> QED
      BY <2>1, <2>2
  <1>3. TypeOK'
    BY <1>1, <1>2 DEF Inv, Typed, TypeOK, Onward, Counts
  <1>4. \A i \in DOMAIN jobs' : RowShape(i)'
    BY <1>2 DEF Inv, Typed, RowShape
  <1>5. \A a \in Admins : RequestShape(req[a])'
    <2>1. \A a \in Admins : req[a].at \in Asking => req[a].job # j
      BY DEF Inv, Typed, RequestShape
    <2> QED
      BY <1>1, <1>2, <2>1 DEF Inv, Typed, RequestShape
  <1>6. \A v \in Workers : WorkerShape(v)'
    BY <1>1, <1>2 DEF Inv, Typed, WorkerShape
  <1> QED
    BY <1>3, <1>4, <1>5, <1>6 DEF Inv, Typed

\* No analysis row is marked, and the brain does not begin to wait.
LEMMA ComingStays ==
    ASSUME Inv, brain'.status = "analyzing" => brain.status = "analyzing",
           \A j \in DOMAIN jobs : j \in DOMAIN jobs' /\ jobs'[j].status = jobs[j].status,
           \A w \in Workers : \/ work'[w].at \in Underway
                              \/ work'[w].job = work[w].job /\ work[w].at \notin Underway
    PROVE  Coming'
  BY DEF Inv, Coming, Open

------------------------------------------------------------------------------
(* Requests.                                                                *)

\* A request goes on or ends, and at most the brain's status changes.
LEMMA RequestStep ==
    ASSUME Inv, NEW a \in Admins, NEW to \in Requests,
           req' = [req EXCEPT ![a] = to],
           to.at = "write" => to.edit \in Edits,
           to.at \in Asking => req[a].at \in Asking /\ to.job = req[a].job,
           NEW s \in {"draft"}, brain' = brain \/ brain' = [brain EXCEPT !.status = s],
           UNCHANGED <<jobs, work, asked, analysed>>,
           sources' \subseteq Contents, edits' \in Nat, Onward
    PROVE  Inv'
  <1>1. /\ brain \in Brains /\ brain' \in Brains
        /\ brain'.text = brain.text /\ brain'.over = brain.over
        /\ brain'.status = brain.status \/ brain'.status = "draft"
    BY DEF Inv, Typed, TypeOK, Brains
  <1>2. Typed'
    <2>1. asked' \in [Fields -> Wishes]
      BY DEF Inv, Typed, TypeOK
    <2> QED
      BY <1>1, <2>1, RequestTyped
  <1>3. Told'
    BY <1>1, ToldStays
  <1>4. Coming'
    BY <1>1 DEF Inv, Coming, Open
  <1> QED
    BY <1>2, <1>3, <1>4 DEF Inv

LEMMA AskStep ==
    ASSUME Inv, NEW a \in Admins,
           \/ CreateBrain(a) \/ AskAnalysis(a) \/ AddSource(a)
           \/ \E c \in Contents : AskSource(a, c)
    PROVE  Inv'
  <1>0. /\ req[a] \in Requests /\ sources \subseteq Contents /\ edits \in Nat
        /\ NoRequest \in Requests
    BY StartTypes DEF Inv, Typed, TypeOK
  <1>1. CASE CreateBrain(a)
    <2>1. PICK todo \in SUBSET Contents, analyze \in BOOLEAN,
               at \in {"sources", "job", "idle"} :
              Answer(a, [NoRequest EXCEPT !.at = at, !.todo = todo, !.analyze = analyze])
      BY <1>1 DEF CreateBrain
    <2>2. PICK to \in Requests : /\ req' = [req EXCEPT ![a] = to]
                                 /\ to.at = at
      <3>1. [NoRequest EXCEPT !.at = at, !.todo = todo, !.analyze = analyze] \in Requests
        BY <1>0 DEF Requests
      <3> QED
        BY <1>0, <2>1, <3>1 DEF Answer, Requests
    <2> QED
      BY <1>0, <1>1, <2>2, SameMishaps, RequestStep DEF CreateBrain, Asking
  <1>2. CASE AskAnalysis(a)
    <2>1. PICK to \in Requests : /\ req' = [req EXCEPT ![a] = to]
                                 /\ to.at = "job"
      <3>1. [NoRequest EXCEPT !.at = "job"] \in Requests
        BY <1>0 DEF Requests
      <3> QED
        BY <1>0, <1>2, <3>1 DEF AskAnalysis, Answer, Requests
    <2> QED
      BY <1>0, <1>2, <2>1, SameMishaps, RequestStep DEF AskAnalysis, Asking
  <1>3. CASE AddSource(a)
    <2>1. PICK c \in req[a].todo, left \in SUBSET Contents, at \in {"sources", "job", "idle"} :
              /\ Answer(a, [req[a] EXCEPT !.todo = left, !.at = at])
              /\ sources' = sources \union {c}
      <3>1. PICK c \in req[a].todo :
               /\ sources' = sources \union {c}
               /\ Answer(a, [req[a] EXCEPT !.todo = req[a].todo \ {c},
                                           !.at = IF req[a].todo \ {c} # {} THEN "sources"
                                                 ELSE IF req[a].analyze THEN "job" ELSE "idle"])
        BY <1>3 DEF AddSource
      <3>2. req[a].todo \ {c} \in SUBSET Contents
        BY <1>0 DEF Requests
      <3> QED
        BY <3>1, <3>2
    <2>2. c \in Contents
      BY <1>0 DEF Requests
    <2>3. PICK to \in Requests : /\ req' = [req EXCEPT ![a] = to]
                                 /\ to.at = at
      <3>1. [req[a] EXCEPT !.todo = left, !.at = at] \in Requests
        BY <1>0 DEF Requests
      <3> QED
        BY <1>0, <2>1, <3>1 DEF Answer, Requests
    <2> QED
      BY <1>0, <1>3, <2>1, <2>2, <2>3, SameMishaps, RequestStep DEF AddSource, Asking
  <1>4. CASE \E c \in Contents : AskSource(a, c)
    <2>1. PICK c \in Contents : AskSource(a, c)
      BY <1>4
    <2>2. PICK to \in Requests : /\ req' = [req EXCEPT ![a] = to]
                                 /\ to.at = "sources"
      <3>1. [NoRequest EXCEPT !.at = "sources", !.todo = {c}] \in Requests
        BY <1>0 DEF Requests
      <3> QED
        BY <1>0, <2>1, <3>1 DEF AskSource, Answer, Requests
    <2> QED
      BY <1>0, <2>1, <2>2, SameMishaps, RequestStep DEF AskSource, Asking
  <1> QED
    BY <1>1, <1>2, <1>3, <1>4

\* A request is cut off, or reads the row it will edit.
LEMMA CutStep ==
    ASSUME Inv, NEW a \in Admins, RequestCut(a)
    PROVE  Inv'
  <1>1. sources' \subseteq Contents /\ edits' \in Nat /\ Onward
    <2>1. Onward
      BY MishapTypes DEF RequestCut
    <2> QED
      BY <2>1 DEF RequestCut, Inv, Typed, TypeOK
  <1> QED
    BY <1>1, StartTypes, RequestStep DEF RequestCut, Answer, Asking

LEMMA ReadForEditStep ==
    ASSUME Inv, NEW a \in Admins, NEW e \in Edits, ReadForEdit(a, e)
    PROVE  Inv'
  <1>1. NoRequest \in Requests /\ brain \in Brains /\ edits \in Nat /\ sources \subseteq Contents
    BY StartTypes DEF Inv, Typed, TypeOK
  <1>2. PICK to \in Requests : /\ req' = [req EXCEPT ![a] = to]
                               /\ to.at = "write" /\ to.edit = e
    <2>1. [NoRequest EXCEPT !.at = "write", !.edit = e, !.text = brain.text, !.over = brain.over]
             \in Requests
      BY <1>1 DEF Requests, Brains
    <2> QED
      BY <1>1, <2>1 DEF ReadForEdit, Answer, Requests
  <1>3. /\ UNCHANGED <<brain, sources, jobs, work, asked, analysed>> /\ Onward
        /\ sources' \subseteq Contents /\ edits' \in Nat /\ to.at \notin Asking
    BY <1>1, <1>2, SameMishaps DEF ReadForEdit, Asking
  <1> QED
    BY <1>2, <1>3, RequestStep

\* The row of a new analysis job.
LEMMA CreateJobStep ==
    ASSUME Inv, NEW a \in Admins, CreateJob(a)
    PROVE  Inv'
  <1>1. /\ req[a] \in Requests /\ req \in [Admins -> Requests] /\ jobs \in Seq(Rows)
        /\ req[a].at = "job" /\ Onward
        /\ UNCHANGED <<brain, sources, work, asked, analysed, edits, mishaps>>
    BY SameMishaps DEF CreateJob, Inv, Typed, TypeOK
  <1> DEFINE made == [status |-> "queued", state |-> "none", made |-> 0, stalled |-> 0,
                      owner |-> NoWorker]
  <1>2. made \in Rows /\ made.status = "queued" /\ made.state = "none" /\ made.made < MaxAttempts
        /\ made.stalled <= MaxStalled
    BY Bounds DEF Rows
  <1>3. jobs' = Append(jobs, made)
    BY DEF CreateJob
  <1> HIDE DEF made
  <1>4. /\ jobs' \in Seq(Rows) /\ DOMAIN jobs = 1 .. Len(jobs) /\ Len(jobs) \in Nat
        /\ DOMAIN jobs' = 1 .. Len(jobs) + 1
        /\ jobs'[Len(jobs) + 1] = made /\ \A j \in DOMAIN jobs : jobs'[j] = jobs[j]
    BY <1>1, <1>2, <1>3
  <1>5. PICK to \in Requests : /\ req' = [req EXCEPT ![a] = to]
                               /\ to.at = "mark" /\ to.job = Len(jobs) + 1
    <2>0. PICK id \in Nat : id = Len(jobs) + 1
      BY <1>4
    <2>1. [req[a] EXCEPT !.at = "mark", !.job = id] \in Requests
      BY <1>1 DEF Requests
    <2>2. req' = [req EXCEPT ![a] = [req[a] EXCEPT !.at = "mark", !.job = id]]
      BY <2>0 DEF CreateJob, Answer
    <2> QED
      BY <1>1, <2>0, <2>1, <2>2 DEF Requests
  <1>6. req' \in [Admins -> Requests] /\ \A b \in Admins : req'[b] = IF b = a THEN to ELSE req[b]
    BY <1>1, <1>5
  <1>7. Typed'
    <2>1. TypeOK'
      BY <1>1, <1>4, <1>6 DEF Inv, Typed, TypeOK, Onward, Counts
    <2>2. \A j \in DOMAIN jobs' : RowShape(j)'
      BY <1>2, <1>4 DEF Inv, Typed, RowShape
    <2>3. \A b \in Admins : RequestShape(req[b])'
      BY <1>1, <1>2, <1>4, <1>5, <1>6 DEF Inv, Typed, RequestShape, WorkerShape
    <2>4. \A b, d \in Admins : b # d /\ req'[b].at \in Asking /\ req'[d].at \in Asking =>
              req'[b].job # req'[d].job
      BY <1>4, <1>5, <1>6 DEF Inv, Typed, RequestShape
    <2>5. \A w \in Workers : WorkerShape(w)'
      BY <1>1, <1>4 DEF Inv, Typed, WorkerShape
    <2> QED
      BY <2>1, <2>2, <2>3, <2>4, <2>5 DEF Typed
  <1>8. Told'
    BY <1>1, ToldStays
  <1>9. Coming'
    BY <1>1, <1>4 DEF Inv, Coming, Open
  <1> QED
    BY <1>7, <1>8, <1>9 DEF Inv

\* The brain begins to wait for the request's job.
LEMMA MarkAnalyzingStep ==
    ASSUME Inv, NEW a \in Admins, MarkAnalyzing(a)
    PROVE  Inv'
  <1>1. /\ req[a] \in Requests /\ req[a].at \in Asking /\ brain \in Brains /\ Onward
        /\ UNCHANGED <<sources, jobs, work, asked, analysed, edits>>
        /\ asked \in [Fields -> Wishes] /\ edits \in Nat /\ sources \subseteq Contents
    BY SameMishaps DEF MarkAnalyzing, Inv, Typed, TypeOK, Asking
  <1>2. /\ brain' \in Brains /\ brain'.text = brain.text /\ brain'.over = brain.over
        /\ brain'.status = "analyzing"
    BY <1>1 DEF MarkAnalyzing, Brains
  <1>3. PICK to \in Requests : /\ req' = [req EXCEPT ![a] = to]
                               /\ to.at = "add" /\ to.job = req[a].job
    <2>1. [req[a] EXCEPT !.at = "add"] \in Requests
      BY <1>1 DEF Requests
    <2> QED
      BY <1>1, <2>1 DEF MarkAnalyzing, Answer, Requests
  <1>4. Typed'
    BY <1>1, <1>2, <1>3, RequestTyped
  <1>5. Told'
    BY <1>1, <1>2, ToldStays
  <1>6. Coming'
    <2>1. req[a].job \in DOMAIN jobs /\ Open(req[a].job)
      BY <1>1 DEF Inv, Typed, RequestShape, Open, Underway
    <2> QED
      BY <1>1, <2>1 DEF Coming, Open
  <1> QED
    BY <1>4, <1>5, <1>6 DEF Inv

\* One row of the jobs is written.
LEMMA RowWritten ==
    ASSUME Inv, NEW j \in DOMAIN jobs, NEW row \in Rows,
           jobs' = [i \in DOMAIN jobs |-> IF i = j THEN row ELSE jobs[i]]
    PROVE  /\ jobs' \in Seq(Rows) /\ DOMAIN jobs' = DOMAIN jobs /\ jobs'[j] = row
           /\ \A i \in DOMAIN jobs : i # j => jobs'[i] = jobs[i]
  <1>1. jobs \in Seq(Rows)
    BY DEF Inv, Typed, TypeOK
  <1>2. jobs' = [jobs EXCEPT ![j] = row]
    BY <1>1
  <1> QED
    BY <1>1, <1>2

LEMMA AddJobStep ==
    ASSUME Inv, NEW a \in Admins, AddJob(a)
    PROVE  Inv'
  <1> DEFINE j == req[a].job
  <1>1. /\ req[a] \in Requests /\ req \in [Admins -> Requests] /\ jobs \in Seq(Rows) /\ jobs[j] \in Rows
        /\ req[a].at \in Asking /\ j \in DOMAIN jobs /\ NoRequest \in Requests /\ Onward
        /\ jobs[j].status = "queued" /\ jobs[j].state = "none"
        /\ \A w \in Workers : work[w].at # "idle" => work[w].job # j
        /\ \A b \in Admins : b # a /\ req[b].at \in Asking => req[b].job # j
        /\ UNCHANGED <<brain, sources, work, asked, analysed, edits, mishaps>>
    BY SameMishaps, StartTypes DEF AddJob, Asking, Inv, Typed, TypeOK, RequestShape
  <1>2. PICK row \in Rows : /\ jobs' = [i \in DOMAIN jobs |-> IF i = j THEN row ELSE jobs[i]]
                            /\ row.status = "queued" /\ row.state = "waiting"
                            /\ row.made = jobs[j].made /\ row.stalled = jobs[j].stalled
    <2>1. [jobs[j] EXCEPT !.state = "waiting"] \in Rows
      BY <1>1 DEF Rows
    <2> QED
      BY <1>1, <2>1 DEF AddJob, Rows
  <1>3. /\ jobs' \in Seq(Rows) /\ DOMAIN jobs' = DOMAIN jobs /\ jobs'[j] = row
        /\ \A i \in DOMAIN jobs : i # j => jobs'[i] = jobs[i]
    BY <1>1, <1>2, RowWritten
  <1>4. req' \in [Admins -> Requests] /\ \A b \in Admins : req'[b] = IF b = a THEN NoRequest ELSE req[b]
    BY <1>1 DEF AddJob, Answer
  <1>5. Typed'
    <2>1. TypeOK'
      BY <1>1, <1>3, <1>4 DEF Inv, Typed, TypeOK, Onward, Counts
    <2>2. \A i \in DOMAIN jobs' : RowShape(i)'
      BY <1>1, <1>2, <1>3 DEF Inv, Typed, RowShape
    <2>3. \A b \in Admins : RequestShape(req[b])'
      BY <1>1, <1>3, <1>4, StartTypes DEF Inv, Typed, RequestShape, Asking
    <2>4. \A b, d \in Admins : b # d /\ req'[b].at \in Asking /\ req'[d].at \in Asking =>
              req'[b].job # req'[d].job
      BY <1>4, StartTypes DEF Inv, Typed, Asking
    <2>5. \A w \in Workers : WorkerShape(w)'
      BY <1>1, <1>3 DEF Inv, Typed, WorkerShape
    <2> QED
      BY <2>1, <2>2, <2>3, <2>4, <2>5 DEF Typed
  <1>6. Told'
    BY <1>1, ToldStays
  <1>7. Coming'
    BY <1>1, <1>2, <1>3 DEF Inv, Coming, Open
  <1> QED
    BY <1>5, <1>6, <1>7 DEF Inv

LEMMA RunSyncStep ==
    ASSUME Inv, NEW a \in Admins, NEW w \in Workers, RunSync(a, w)
    PROVE  Inv'
  <1> DEFINE j == req[a].job
  <1>1. /\ req[a] \in Requests /\ req \in [Admins -> Requests] /\ work \in [Workers -> Work]
        /\ req[a].at \in Asking /\ j \in DOMAIN jobs /\ NoRequest \in Requests /\ Onward
        /\ jobs[j].status = "queued" /\ jobs[j].state = "none" /\ work[w].at = "idle"
        /\ \A v \in Workers : work[v].at # "idle" => work[v].job # j
        /\ \A b \in Admins : b # a /\ req[b].at \in Asking => req[b].job # j
        /\ UNCHANGED <<brain, sources, jobs, asked, analysed, edits, mishaps>>
    BY SameMishaps, StartTypes DEF RunSync, Asking, Inv, Typed, TypeOK, RequestShape
  <1>2. PICK to \in Work : /\ work' = [work EXCEPT ![w] = to]
                           /\ to.at = "start" /\ to.job = j /\ to.sync = TRUE
    <2>1. [NoWork EXCEPT !.at = "start", !.job = j, !.sync = TRUE] \in Work
      BY <1>1, StartTypes DEF Work, Requests
    <2> QED
      BY <1>1, <2>1, StartTypes DEF RunSync, Work
  <1>3. /\ req' \in [Admins -> Requests] /\ \A b \in Admins : req'[b] = IF b = a THEN NoRequest ELSE req[b]
        /\ work' \in [Workers -> Work] /\ \A v \in Workers : work'[v] = IF v = w THEN to ELSE work[v]
    BY <1>1, <1>2 DEF RunSync, Answer
  <1>4. Typed'
    <2>1. TypeOK'
      BY <1>1, <1>3 DEF Inv, Typed, TypeOK, Onward, Counts
    <2>3. \A b \in Admins : RequestShape(req[b])'
      BY <1>1, <1>2, <1>3, StartTypes DEF Inv, Typed, RequestShape, Asking
    <2>4. \A b, d \in Admins : b # d /\ req'[b].at \in Asking /\ req'[d].at \in Asking =>
              req'[b].job # req'[d].job
      BY <1>3, StartTypes DEF Inv, Typed, Asking
    <2>5. \A v \in Workers : WorkerShape(v)'
      BY <1>1, <1>2, <1>3 DEF Inv, Typed, WorkerShape
    <2> QED
      BY <1>1, <2>1, <2>3, <2>4, <2>5 DEF Inv, Typed, RowShape
  <1>5. Told'
    BY <1>1, <1>2, <1>3, ToldStays DEF About
  <1>6. Coming'
    BY <1>1, <1>2, <1>3, ComingStays DEF Underway
  <1> QED
    BY <1>4, <1>5, <1>6 DEF Inv

------------------------------------------------------------------------------
(* Human edits.                                                             *)

Replaced(retained) == {i \in Items : ListOf[i] \in DOMAIN retained}
Kept(retained) == UNION {retained[l] : l \in DOMAIN retained}

\* The overrides an edit leaves, field by field.
LEMMA MarkEffects ==
    ASSUME NEW over \in Overrides
    PROVE  /\ \A i \in Items :
                /\ MarkItem(over, i) =
                     [sections |-> over.sections, items |-> over.items \union {i},
                      suppressed |-> over.suppressed \ {i}, whole |-> over.whole]
                /\ MarkSuppressed(over, i) =
                     [sections |-> over.sections, items |-> over.items \ {i},
                      suppressed |-> over.suppressed \union {i}, whole |-> over.whole]
           /\ \A sections, retained, previous :
                MarkWholeLists(MarkSections(over, sections), retained, previous) =
                    [sections |-> over.sections \union sections,
                     items |-> (over.items \ Replaced(retained)) \union Kept(retained),
                     suppressed |-> over.suppressed
                                      \union ((previous \intersect Replaced(retained)) \ Kept(retained)),
                     whole |-> over.whole \union DOMAIN retained]
  <1>0. ASSUME NEW items, NEW suppressed
        PROVE  /\ [over EXCEPT !.items = items, !.suppressed = suppressed] =
                     [sections |-> over.sections, items |-> items, suppressed |-> suppressed,
                      whole |-> over.whole]
               /\ [over EXCEPT !.suppressed = suppressed, !.items = items] =
                     [sections |-> over.sections, items |-> items, suppressed |-> suppressed,
                      whole |-> over.whole]
    <2>1. ASSUME NEW o, o = [over EXCEPT !.items = items, !.suppressed = suppressed]
          PROVE  o = [sections |-> over.sections, items |-> items, suppressed |-> suppressed,
                      whole |-> over.whole]
      BY <2>1 DEF Overrides
    <2>2. ASSUME NEW o, o = [over EXCEPT !.suppressed = suppressed, !.items = items]
          PROVE  o = [sections |-> over.sections, items |-> items, suppressed |-> suppressed,
                      whole |-> over.whole]
      BY <2>2 DEF Overrides
    <2> QED
      BY <2>1, <2>2, Zenon
  <1>1. \A i \in Items :
            MarkItem(over, i) = [sections |-> over.sections, items |-> over.items \union {i},
                                 suppressed |-> over.suppressed \ {i}, whole |-> over.whole]
    BY <1>0, Zenon DEF MarkItem
  <1>2. \A i \in Items :
            MarkSuppressed(over, i) =
                [sections |-> over.sections, items |-> over.items \ {i},
                 suppressed |-> over.suppressed \union {i}, whole |-> over.whole]
    BY <1>0, Zenon DEF MarkSuppressed
  <1>3. ASSUME NEW sections, NEW retained, NEW previous
        PROVE  MarkWholeLists(MarkSections(over, sections), retained, previous) =
                  [sections |-> over.sections \union sections,
                   items |-> (over.items \ Replaced(retained)) \union Kept(retained),
                   suppressed |-> over.suppressed
                                    \union ((previous \intersect Replaced(retained)) \ Kept(retained)),
                   whole |-> over.whole \union DOMAIN retained]
    <2>1. PICK m \in {MarkSections(over, sections)} :
              m = [sections |-> over.sections \union sections, items |-> over.items,
                   suppressed |-> over.suppressed, whole |-> over.whole]
      BY DEF Overrides, MarkSections
    <2>2. MarkWholeLists(m, retained, previous) =
              [m EXCEPT !.whole = m.whole \union DOMAIN retained,
                        !.items = (m.items \ Replaced(retained)) \union Kept(retained),
                        !.suppressed = m.suppressed
                            \union ((previous \intersect Replaced(retained)) \ Kept(retained))]
      BY Zenon DEF MarkWholeLists, Replaced, Kept
    <2> QED
      BY <2>1, <2>2
  <1> QED
    BY <1>1, <1>2, <1>3

\* What an edit leaves of field f: what the client wanted, text and marks.
SaysKeep(to, f) ==
    /\ to.text[f] = "human"
    /\ f \in to.over.sections \/ f \in KeepsCurrent(to.over)
SaysDrop(to, f) ==
    /\ f \in Items /\ to.text[f] = "none"
    /\ Whole(f, to.over) \/ f \in to.over.suppressed \ to.over.items
SaysAgain(to, f) ==  \* an id that was not in its list, and still is not in the list that is kept
    /\ f \in Items /\ to.text[f] = "none" /\ Whole(f, to.over)
SaysNothing(to, text, over, f) ==
    /\ to.text[f] = text[f]
    /\ f \in to.over.sections <=> f \in over.sections
    /\ f \in to.over.items <=> f \in over.items
    /\ f \in to.over.suppressed <=> f \in over.suppressed
    /\ f \in Items => (Whole(f, to.over) <=> Whole(f, over))

Effect(e, text, over, f) ==
    LET to == Apply(e, text, over)
        want == Wants(e, text, f)
    IN  \/ want = "keep" /\ SaysKeep(to, f)
        \/ want = "drop" /\ SaysDrop(to, f)
        \/ want = asked[f] /\ text[f] = "none" /\ SaysAgain(to, f)
        \/ want = asked[f] /\ SaysNothing(to, text, over, f)

LEMMA FieldKinds ==
    /\ Fields = Scalars \union Items /\ Scalars \intersect Items = {}
    /\ \A i \in Items : ListOf[i] \in Lists
  BY FieldsAssumption DEF Fields

LEMMA UpsertEffect ==
    ASSUME NEW e \in Edits, e.op = "upsert", NEW text \in Texts, NEW over \in Overrides
    PROVE  /\ Apply(e, text, over).text \in Texts /\ Apply(e, text, over).over \in Overrides
           /\ \A f \in Fields : Effect(e, text, over, f)
  <1> DEFINE i == e.item
             o == [sections |-> over.sections, items |-> over.items \union {i},
                   suppressed |-> over.suppressed \ {i}, whole |-> over.whole]
             t == [text EXCEPT ![i] = "human"]
  <1>1. i \in Items /\ i \in Fields
    BY BrainAssumption, FieldKinds
  <1>2. Apply(e, text, over) = [text |-> t, over |-> o]
    BY <1>1, MarkEffects DEF Apply, Upserted
  <1>3. t \in Texts /\ o \in Overrides
    BY <1>1 DEF Texts, Authors, Overrides
  <1>4. \A f \in Fields : t[f] = IF f = i THEN "human" ELSE text[f]
    BY <1>1 DEF Texts
  <1>5. \A f \in Fields : Wants(e, text, f) = IF f = i THEN "keep" ELSE asked[f]
    BY DEF Wants
  <1>6. ASSUME NEW f \in Fields PROVE Effect(e, text, over, f)
    <2>1. CASE f = i
      <3>1. f \in KeepsCurrent(o)
        BY <1>1, <2>1 DEF KeepsCurrent
      <3> QED
        BY <1>2, <1>4, <1>5, <2>1, <3>1 DEF Effect, SaysKeep
    <2>2. CASE f # i
      BY <1>2, <1>4, <1>5, <2>2 DEF Effect, SaysNothing, Whole
    <2> QED
      BY <2>1, <2>2
  <1> QED
    BY <1>2, <1>3, <1>6

LEMMA RemoveEffect ==
    ASSUME NEW e \in Edits, e.op = "remove", NEW text \in Texts, NEW over \in Overrides
    PROVE  /\ Apply(e, text, over).text \in Texts /\ Apply(e, text, over).over \in Overrides
           /\ \A f \in Fields : Effect(e, text, over, f)
  <1> DEFINE i == e.item
             o == [sections |-> over.sections, items |-> over.items \ {i},
                   suppressed |-> over.suppressed \union {i}, whole |-> over.whole]
             t == [text EXCEPT ![i] = "none"]
  <1>1. i \in Items /\ i \in Fields
    BY BrainAssumption, FieldKinds
  <1>2. Apply(e, text, over) = [text |-> t, over |-> o]
    BY <1>1, MarkEffects DEF Apply, Removed
  <1>3. t \in Texts /\ o \in Overrides
    BY <1>1 DEF Texts, Authors, Overrides
  <1>4. \A f \in Fields : t[f] = IF f = i THEN "none" ELSE text[f]
    BY <1>1 DEF Texts
  <1>5. \A f \in Fields : Wants(e, text, f) = IF f = i THEN "drop" ELSE asked[f]
    BY DEF Wants
  <1>6. ASSUME NEW f \in Fields PROVE Effect(e, text, over, f)
    <2>1. CASE f = i
      BY <1>1, <1>2, <1>4, <1>5, <2>1 DEF Effect, SaysDrop
    <2>2. CASE f # i
      BY <1>2, <1>4, <1>5, <2>2 DEF Effect, SaysNothing, Whole
    <2> QED
      BY <2>1, <2>2
  <1> QED
    BY <1>2, <1>3, <1>6

LEMMA PatchEffect ==
    ASSUME NEW e \in Edits, e.op = "patch", NEW text \in Texts, NEW over \in Overrides
    PROVE  /\ Apply(e, text, over).text \in Texts /\ Apply(e, text, over).over \in Overrides
           /\ \A f \in Fields : Effect(e, text, over, f)
  <1> DEFINE previous == {i \in Items : text[i] # "none"}
             o == [sections |-> over.sections \union e.sections,
                   items |-> (over.items \ Replaced(e.retained)) \union Kept(e.retained),
                   suppressed |-> over.suppressed
                       \union ((previous \intersect Replaced(e.retained)) \ Kept(e.retained)),
                   whole |-> over.whole \union DOMAIN e.retained]
             t == [f \in Fields |->
                     IF f \in e.sections THEN "human"
                     ELSE IF f \in Items /\ ListOf[f] \in DOMAIN e.retained
                          THEN (IF f \in e.retained[ListOf[f]] THEN "human" ELSE "none")
                          ELSE text[f]]
  <1>1. /\ e.sections \subseteq Scalars /\ DOMAIN e.retained \subseteq Lists
        /\ \A l \in DOMAIN e.retained : e.retained[l] \subseteq {i \in Items : ListOf[i] = l}
    BY BrainAssumption
  <1>2. Apply(e, text, over) = [text |-> t, over |-> o]
    BY MarkEffects DEF Apply, Patched
  <1>3. /\ Kept(e.retained) \subseteq Replaced(e.retained)
        /\ Replaced(e.retained) \subseteq Items
        /\ \A f \in Items : f \in Kept(e.retained) <=>
              ListOf[f] \in DOMAIN e.retained /\ f \in e.retained[ListOf[f]]
    BY <1>1 DEF Kept, Replaced
  <1>4. t \in Texts /\ o \in Overrides
    <2>1. t \in Texts
      BY DEF Texts, Authors
    <2>2. o \in Overrides
      BY <1>1, <1>3 DEF Overrides
    <2> QED
      BY <2>1, <2>2
  <1>5. ASSUME NEW f \in Fields PROVE Effect(e, text, over, f)
    <2> DEFINE to == Apply(e, text, over)
    <2>0. to.text[f] = t[f] /\ to.over = o
      BY <1>2
    <2>1. CASE f \in e.sections
      <3>1. Wants(e, text, f) = "keep"
        <4>1. f \notin Items
          BY <1>1, <2>1, FieldKinds
        <4> QED
          BY <2>1, <4>1 DEF Wants
      <3> QED
        BY <2>0, <2>1, <3>1 DEF Effect, SaysKeep
    <2>2. CASE f \in Items /\ ListOf[f] \in DOMAIN e.retained
      <3>0. f \notin e.sections /\ Whole(f, o)
        BY <1>1, <2>2, FieldKinds DEF Whole
      <3>1. CASE f \in e.retained[ListOf[f]]
        <4>1. Wants(e, text, f) = "keep"
          BY <2>2, <3>0, <3>1 DEF Wants
        <4>2. f \in KeepsCurrent(o)
          BY <2>2, <3>0 DEF KeepsCurrent
        <4> QED
          BY <2>0, <2>2, <3>0, <3>1, <4>1, <4>2 DEF Effect, SaysKeep
      <3>2. CASE f \notin e.retained[ListOf[f]]
        <4>1. Wants(e, text, f) = IF text[f] # "none" THEN "drop" ELSE asked[f]
          BY <2>2, <3>0, <3>2, Zenon DEF Wants
        <4>2. t[f] = "none"
          BY <2>2, <3>0, <3>2
        <4> QED
          BY <2>0, <2>2, <3>0, <4>1, <4>2 DEF Effect, SaysDrop, SaysAgain
      <3> QED
        BY <3>1, <3>2
    <2>3. CASE f \notin e.sections /\ ~(f \in Items /\ ListOf[f] \in DOMAIN e.retained)
      <3>1. Wants(e, text, f) = asked[f]
        BY <2>3 DEF Wants
      <3>2. t[f] = text[f]
        BY <2>3
      <3>3. f \notin Replaced(e.retained) /\ f \notin Kept(e.retained)
        BY <1>3, <2>3 DEF Replaced
      <3>4. SaysNothing([text |-> t, over |-> o], text, over, f)
        BY <2>3, <3>2, <3>3 DEF SaysNothing, Whole
      <3> QED
        BY <1>2, <3>1, <3>4 DEF Effect
    <2> QED
      BY <2>1, <2>2, <2>3
  <1> QED
    BY <1>2, <1>4, <1>5

\* The whole handler: what an edit leaves of every field.
LEMMA EditEffect ==
    ASSUME NEW e \in Edits, NEW text \in Texts, NEW over \in Overrides
    PROVE  /\ Apply(e, text, over).text \in Texts /\ Apply(e, text, over).over \in Overrides
           /\ \A f \in Fields : Effect(e, text, over, f)
  <1>1. e.op \in {"upsert", "remove", "patch"}
    BY BrainAssumption
  <1> QED
    BY <1>1, UpsertEffect, RemoveEffect, PatchEffect

LEMMA WriteEditStep ==
    ASSUME Inv, NEW a \in Admins, WriteEdit(a)
    PROVE  Inv'
  <1> DEFINE e == req[a].edit
  <1>1. /\ req[a] \in Requests /\ req[a].text \in Texts /\ req[a].over \in Overrides
        /\ e \in Edits /\ brain \in Brains /\ asked \in [Fields -> Wishes]
        /\ edits \in Nat /\ sources \subseteq Contents /\ NoRequest \in Requests
        /\ UNCHANGED <<sources, jobs, work, analysed, edits>>
    BY StartTypes DEF WriteEdit, Inv, Typed, TypeOK, RequestShape, Requests
  <1>2. Onward /\ Mishaps(Overtaken(a))
    BY MishapTypes DEF WriteEdit
  <1>3. PICK to : to = Apply(e, req[a].text, req[a].over)
    OBVIOUS
  <1>4. /\ to.text \in Texts /\ to.over \in Overrides
        /\ \A f \in Fields : Effect(e, req[a].text, req[a].over, f)
    BY <1>1, <1>3, EditEffect
  <1>5. /\ brain' \in Brains /\ brain'.text = to.text /\ brain'.over = to.over
        /\ brain'.status = brain.status
    BY <1>1, <1>3, <1>4 DEF WriteEdit, Brains
  <1>6. \A f \in Fields :
            \/ asked'[f] = "keep" /\ SaysKeep(to, f)
            \/ asked'[f] = "drop" /\ SaysDrop(to, f)
            \/ asked'[f] = asked[f] /\ req[a].text[f] = "none" /\ SaysAgain(to, f)
            \/ asked'[f] = asked[f] /\ SaysNothing(to, req[a].text, req[a].over, f)
    <2>1. \A f \in Fields : asked'[f] = Wants(e, req[a].text, f)
      BY DEF WriteEdit
    <2> QED
      BY <1>3, <1>4, <2>1 DEF Effect
  <1>7. Typed'
    <2>1. asked' \in [Fields -> Wishes]
      <3>1. \A f \in Fields : asked'[f] \in Wishes
        BY <1>1, <1>6 DEF Wishes
      <3> QED
        BY <3>1 DEF WriteEdit
    <2>2. NoRequest.at # "write" /\ NoRequest.at \notin Asking
      BY StartTypes DEF Asking
    <2> QED
      BY <1>1, <1>2, <1>5, <2>1, <2>2, RequestTyped DEF WriteEdit, Answer
  <1>8. Told'
    <2>1. \A f \in Fields : asked'[f] = "drop" => f \in Items
      BY <1>6 DEF SaysDrop, Inv, Told
    <2>2. ASSUME mishaps'.edits = 0, NEW f \in Fields PROVE Marked(f)' /\ Bare(f)'
      <3>1. req[a].over = brain.over
        BY <1>2, <2>2, MishapTypes DEF Overtaken
      <3>2. Marked(f) /\ Bare(f)
        BY <1>2, <2>2 DEF Onward, Inv, Told
      <3>3. CASE asked'[f] = "keep" /\ SaysKeep(to, f)
        BY <1>5, <3>3 DEF SaysKeep, Marked, Bare
      <3>4. CASE asked'[f] = "drop" /\ SaysDrop(to, f)
        BY <1>5, <3>4 DEF SaysDrop, Marked, Bare
      <3>5. CASE asked'[f] = asked[f] /\ SaysAgain(to, f)
        BY <1>5, <3>5 DEF SaysAgain, Marked, Bare, KeepsCurrent
      <3>6. CASE asked'[f] = asked[f] /\ SaysNothing(to, req[a].text, req[a].over, f)
        <4>1. f \in KeepsCurrent(brain.over) <=> f \in KeepsCurrent(to.over)
          BY <3>1, <3>6 DEF SaysNothing, KeepsCurrent
        <4>2. asked[f] = "drop" => f \in Items
          BY DEF Inv, Told
        <4> QED
          BY <1>5, <3>1, <3>2, <3>6, <4>1, <4>2 DEF SaysNothing, Marked, Bare
      <3> QED
        BY <1>6, <3>3, <3>4, <3>5, <3>6
    <2>3. ASSUME mishaps'.edits + mishaps'.regens = 0
          PROVE  /\ req[a].over = brain.over /\ req[a].text = brain.text
                 /\ \A w \in Workers : work'[w].at \notin About
                 /\ mishaps.edits + mishaps.regens = 0
      BY <1>1, <1>2, <2>3, MishapTypes DEF Overtaken, About, Onward
    <2>4. ASSUME mishaps'.edits + mishaps'.regens = 0, NEW f \in Fields PROVE Heard(f)'
      <3>1. Heard(f)
        BY <2>3, <2>4 DEF Inv, Told
      <3> QED
        BY <1>5, <1>6, <2>3, <2>4, <3>1 DEF Heard, SaysKeep, SaysDrop, SaysAgain, SaysNothing
    <2>5. ReadyShowsSources'
      <3> SUFFICES ASSUME mishaps'.edits + mishaps'.regens = 0, brain'.status = "ready",
                          NEW f \in Fields, asked'[f] = "nothing",
                          f \in Items => ~Whole(f, brain'.over)
                   PROVE  brain'.text[f] = Generated(analysed')[f]
        BY DEF ReadyShowsSources
      <3>1. SaysNothing(to, req[a].text, req[a].over, f) /\ asked[f] = "nothing"
        BY <1>5, <1>6 DEF SaysAgain
      <3>2. brain.text[f] = Generated(analysed)[f]
        BY <1>5, <2>3, <3>1 DEF SaysNothing, Inv, Told, ReadyShowsSources
      <3>3. Generated(analysed)' = Generated(analysed)
        BY <1>1 DEF Generated
      <3> QED
        BY <1>1, <1>5, <2>3, <3>1, <3>2, <3>3 DEF SaysNothing
    <2> QED
      BY <2>1, <2>2, <2>3, <2>4, <2>5 DEF Told
  <1>9. Coming'
    BY <1>1, <1>5 DEF Inv, Coming, Open
  <1> QED
    BY <1>7, <1>8, <1>9 DEF Inv

------------------------------------------------------------------------------
(* Workers.                                                                 *)

\* The queue gives a worker its job.
LEMMA TakeStep ==
    ASSUME Inv, NEW w \in Workers, NEW j \in DOMAIN jobs, Take(w, j)
    PROVE  Inv'
  <1>1. /\ jobs \in Seq(Rows) /\ jobs[j] \in Rows /\ work \in [Workers -> Work] /\ Onward
        /\ work[w].at = "idle" /\ jobs[j].state = "waiting" /\ j \in Nat
        /\ UNCHANGED <<brain, sources, req, asked, analysed, edits, mishaps>>
        /\ \A v \in Workers : work[v].at # "idle" => work[v].job # j
    BY SameMishaps DEF Take, Inv, Typed, TypeOK, WorkerShape
  <1>2. PICK row \in Rows : /\ jobs' = [i \in DOMAIN jobs |-> IF i = j THEN row ELSE jobs[i]]
                            /\ row.status = jobs[j].status /\ row.state = "active"
                            /\ row.made = jobs[j].made /\ row.stalled = jobs[j].stalled
                            /\ row.owner = w
    <2>1. /\ jobs'[j] = [status |-> jobs[j].status, state |-> "active", made |-> jobs[j].made,
                         stalled |-> jobs[j].stalled, owner |-> w]
          /\ jobs' = [i \in DOMAIN jobs |-> jobs'[i]]
          /\ \A i \in DOMAIN jobs : i # j => jobs'[i] = jobs[i]
      BY <1>1 DEF Take, Rows
    <2>2. jobs'[j] \in Rows
      BY <1>1, <2>1 DEF Rows
    <2> QED
      BY <2>1, <2>2
  <1>3. /\ jobs' \in Seq(Rows) /\ DOMAIN jobs' = DOMAIN jobs /\ jobs'[j] = row
        /\ \A i \in DOMAIN jobs : i # j => jobs'[i] = jobs[i]
    BY <1>2, RowWritten
  <1>4. PICK to \in Work : /\ work' = [work EXCEPT ![w] = to]
                           /\ to.at = "start" /\ to.job = j /\ to.sync = FALSE
    <2>1. [NoWork EXCEPT !.at = "start", !.job = j] \in Work
      BY <1>1, StartTypes DEF Work
    <2> QED
      BY <1>1, <2>1, StartTypes DEF Take, Work, NoWork
  <1>5. work' \in [Workers -> Work] /\ \A v \in Workers : work'[v] = IF v = w THEN to ELSE work[v]
    BY <1>1, <1>4
  <1>6. Typed'
    <2>1. TypeOK'
      BY <1>1, <1>3, <1>5 DEF Inv, Typed, TypeOK, Onward, Counts
    <2>2. \A i \in DOMAIN jobs' : RowShape(i)'
      BY <1>1, <1>2, <1>3 DEF Inv, Typed, RowShape
    <2>3. \A b \in Admins : RequestShape(req[b])'
      BY <1>1, <1>3, <1>4, <1>5 DEF Inv, Typed, RequestShape
    <2>4. \A v \in Workers : WorkerShape(v)'
      BY <1>1, <1>2, <1>3, <1>4, <1>5 DEF Inv, Typed, WorkerShape
    <2> QED
      BY <1>1, <2>1, <2>2, <2>3, <2>4 DEF Inv, Typed
  <1>7. Told'
    BY <1>1, <1>4, <1>5, ToldStays DEF About
  <1>8. Coming'
    <2>1. \A i \in DOMAIN jobs : i \in DOMAIN jobs' /\ jobs'[i].status = jobs[i].status
      BY <1>2, <1>3
    <2> QED
      BY <1>1, <1>4, <1>5, <2>1, ComingStays DEF Underway
  <1> QED
    BY <1>6, <1>7, <1>8 DEF Inv

\* The queue takes back the job of a worker that is gone.
LEMMA ReclaimStep ==
    ASSUME Inv, NEW j \in DOMAIN jobs, Reclaim(j)
    PROVE  Inv'
  <1>1. /\ jobs \in Seq(Rows) /\ jobs[j] \in Rows /\ Onward /\ jobs[j].state = "active"
        /\ UNCHANGED <<brain, sources, req, work, asked, analysed, edits, mishaps>>
        /\ jobs[j].made < MaxAttempts /\ jobs[j].stalled <= MaxStalled
        /\ \A v \in Workers : work[v].at # "idle" => work[v].job # j
    BY SameMishaps DEF Reclaim, Holds, Inv, Typed, TypeOK, WorkerShape, RowShape
  <1>2. PICK row \in Rows : /\ jobs' = [i \in DOMAIN jobs |-> IF i = j THEN row ELSE jobs[i]]
                            /\ row.status = jobs[j].status /\ row.state \in {"waiting", "failed"}
                            /\ row.made = jobs[j].made
                            /\ row.state = "waiting" => row.stalled <= MaxStalled
    <2> DEFINE state == IF jobs[j].stalled < MaxStalled THEN "waiting" ELSE "failed"
    <2>1. /\ jobs'[j] = [status |-> jobs[j].status, state |-> state, made |-> jobs[j].made,
                         stalled |-> jobs[j].stalled + 1, owner |-> NoWorker]
          /\ jobs' = [i \in DOMAIN jobs |-> jobs'[i]]
          /\ \A i \in DOMAIN jobs : i # j => jobs'[i] = jobs[i]
      BY <1>1 DEF Reclaim, Rows
    <2>2. /\ jobs[j].stalled \in Nat /\ jobs[j].stalled + 1 \in 0 .. MaxStalled + 1
          /\ state = "waiting" => jobs[j].stalled + 1 <= MaxStalled
      BY <1>1, Bounds DEF Rows
    <2>3. jobs'[j] \in Rows
      BY <1>1, <2>1, <2>2 DEF Rows
    <2> QED
      BY <2>1, <2>2, <2>3
  <1>3. /\ jobs' \in Seq(Rows) /\ DOMAIN jobs' = DOMAIN jobs /\ jobs'[j] = row
        /\ \A i \in DOMAIN jobs : i # j => jobs'[i] = jobs[i]
    BY <1>2, RowWritten
  <1>4. Typed'
    <2>1. TypeOK'
      BY <1>1, <1>3 DEF Inv, Typed, TypeOK, Onward, Counts
    <2>2. \A i \in DOMAIN jobs' : RowShape(i)'
      BY <1>1, <1>2, <1>3 DEF Inv, Typed, RowShape
    <2>3. \A b \in Admins : RequestShape(req[b])'
      BY <1>1, <1>3 DEF Inv, Typed, RequestShape
    <2>4. \A v \in Workers : WorkerShape(v)'
      BY <1>1, <1>3 DEF Inv, Typed, WorkerShape
    <2> QED
      BY <1>1, <2>1, <2>2, <2>3, <2>4 DEF Inv, Typed
  <1>5. Told'
    BY <1>1, ToldStays
  <1>6. Coming'
    <2>1. \A i \in DOMAIN jobs : i \in DOMAIN jobs' /\ jobs'[i].status = jobs[i].status
      BY <1>2, <1>3
    <2> QED
      BY <1>1, <2>1 DEF Inv, Coming, Open
  <1> QED
    BY <1>4, <1>5, <1>6 DEF Inv

\* A worker leaves its job, whose row it may give back to the queue.
LEMMA LeaveStep ==
    ASSUME Inv, NEW w \in Workers, work[w].at # "idle",
           work' = [work EXCEPT ![w] = NoWork],
           \/ jobs' = jobs
           \/ /\ ~work[w].sync
              /\ \E row \in Rows :
                    /\ jobs' = [i \in DOMAIN jobs |-> IF i = work[w].job THEN row ELSE jobs[i]]
                    /\ row.status = jobs[work[w].job].status
                    /\ row.state # "failed" => row.made < MaxAttempts /\ row.stalled <= MaxStalled,
           UNCHANGED <<brain, sources, req, asked, analysed, edits>>, Onward
    PROVE  Inv'
  <1> DEFINE j == work[w].job
  <1>1. /\ jobs \in Seq(Rows) /\ work \in [Workers -> Work] /\ j \in DOMAIN jobs
        /\ \A v \in Workers : v # w /\ work[v].at # "idle" => work[v].job # j
        /\ ~work[w].sync => \A a \in Admins : req[a].at \in Asking => req[a].job # j
    BY DEF Inv, Typed, TypeOK, WorkerShape, RequestShape
  <1>2. work' \in [Workers -> Work] /\ \A v \in Workers : work'[v] = IF v = w THEN NoWork ELSE work[v]
    BY <1>1, StartTypes
  <1>3. /\ jobs' \in Seq(Rows) /\ DOMAIN jobs' = DOMAIN jobs
        /\ \A i \in DOMAIN jobs : jobs'[i].status = jobs[i].status /\ RowShape(i)'
        /\ \A i \in DOMAIN jobs : i # j \/ work[w].sync => jobs'[i] = jobs[i]
    <2>1. CASE jobs' = jobs
      BY <1>1, <2>1 DEF Inv, Typed, RowShape
    <2>2. CASE jobs' # jobs
      <3>1. PICK row \in Rows :
                /\ jobs' = [i \in DOMAIN jobs |-> IF i = j THEN row ELSE jobs[i]]
                /\ row.status = jobs[j].status
                /\ row.state # "failed" => row.made < MaxAttempts /\ row.stalled <= MaxStalled
        BY <2>2
      <3>2. /\ jobs' \in Seq(Rows) /\ DOMAIN jobs' = DOMAIN jobs /\ jobs'[j] = row
            /\ \A i \in DOMAIN jobs : i # j => jobs'[i] = jobs[i]
        BY <1>1, <3>1, RowWritten
      <3> QED
        BY <1>1, <2>2, <3>1, <3>2 DEF Inv, Typed, RowShape
    <2> QED
      BY <2>1, <2>2
  <1>4. Typed'
    <2>1. TypeOK'
      BY <1>2, <1>3 DEF Inv, Typed, TypeOK, Onward, Counts
    <2>2. \A a \in Admins : RequestShape(req[a])'
      BY <1>1, <1>2, <1>3, StartTypes DEF Inv, Typed, RequestShape
    <2>3. \A v \in Workers : WorkerShape(v)'
      BY <1>1, <1>2, <1>3, StartTypes DEF Inv, Typed, WorkerShape
    <2> QED
      BY <1>3, <2>1, <2>2, <2>3 DEF Inv, Typed
  <1>5. Told'
    BY <1>2, StartTypes, ToldStays DEF About
  <1>6. Coming'
    <2>1. \A v \in Workers : \/ work'[v].at \in Underway
                             \/ work'[v].job = work[v].job /\ work[v].at \notin Underway
      BY <1>2, StartTypes DEF Underway
    <2>2. \A i \in DOMAIN jobs : i \in DOMAIN jobs' /\ jobs'[i].status = jobs[i].status
      BY <1>3
    <2>3. brain'.status = "analyzing" => brain.status = "analyzing"
      OBVIOUS
    <2> QED
      BY <2>1, <2>2, <2>3, ComingStays
  <1> QED
    BY <1>4, <1>5, <1>6 DEF Inv

LEMMA SettleStep ==
    ASSUME Inv, NEW w \in Workers, JobCompleted(w) \/ AttemptFailed(w) \/ WorkerDies(w)
    PROVE  Inv'
  <1> DEFINE j == work[w].job
  <1>1. CASE WorkerDies(w)
    <2>1. Onward
      BY <1>1, MishapTypes DEF WorkerDies
    <2> QED
      BY <1>1, <2>1, LeaveStep DEF WorkerDies
  <1>2. CASE JobCompleted(w) \/ AttemptFailed(w)
    <2>1. /\ work[w].at # "idle" /\ work' = [work EXCEPT ![w] = NoWork] /\ Onward
          /\ UNCHANGED <<brain, sources, req, asked, analysed, edits>>
          /\ work[w].sync => jobs' = jobs
      BY <1>2, SameMishaps DEF JobCompleted, AttemptFailed, Settle
    <2>2. CASE ~work[w].sync
      <3>1. /\ jobs \in Seq(Rows) /\ j \in DOMAIN jobs /\ jobs[j] \in Rows
            /\ jobs[j].made < MaxAttempts /\ jobs[j].stalled <= MaxStalled
        BY <2>1, <2>2 DEF Inv, Typed, TypeOK, WorkerShape, RowShape
      <3>2. PICK made \in 0 .. MaxAttempts, state \in {"completed", "waiting", "failed"} :
                /\ jobs' = [jobs EXCEPT ![j].state = state, ![j].made = made, ![j].owner = NoWorker]
                /\ state # "failed" => made < MaxAttempts
        <4>1. /\ jobs[j].made \in 0 .. MaxAttempts /\ jobs[j].made + 1 \in 0 .. MaxAttempts
          BY <3>1, Bounds DEF Rows
        <4>2. CASE JobCompleted(w)
          BY <2>2, <3>1, <4>1, <4>2 DEF JobCompleted, Settle
        <4>3. CASE AttemptFailed(w)
          BY <2>2, <3>1, <4>1, <4>3 DEF AttemptFailed, Settle
        <4> QED
          BY <1>2, <4>2, <4>3
      <3>3. /\ jobs'[j] = [status |-> jobs[j].status, state |-> state, made |-> made,
                           stalled |-> jobs[j].stalled, owner |-> NoWorker]
            /\ jobs' = [i \in DOMAIN jobs |-> jobs'[i]]
            /\ \A i \in DOMAIN jobs : i # j => jobs'[i] = jobs[i]
        BY <3>1, <3>2 DEF Rows
      <3>4. jobs'[j] \in Rows
        BY <3>1, <3>3 DEF Rows
      <3>5. PICK row \in Rows : row = jobs'[j]
        BY <3>4
      <3>6. jobs' = [i \in DOMAIN jobs |-> IF i = j THEN row ELSE jobs[i]]
        BY <3>3, <3>5
      <3>7. /\ row.status = jobs[j].status
            /\ row.state # "failed" => row.made < MaxAttempts /\ row.stalled <= MaxStalled
        BY <3>1, <3>2, <3>3, <3>5
      <3> QED
        BY <2>1, <2>2, <3>6, <3>7, LeaveStep
    <2> QED
      BY <2>1, <2>2, LeaveStep
  <1> QED
    BY <1>1, <1>2

\* A worker goes from one of its statements to another; a new label for its record.
LEMMA WorkLabel ==
    ASSUME Inv, NEW w \in Workers,
           NEW l \in {"write", "row", "audit", "fail_brain", "fail_row", "completed",
                      "attempt_failed"},
           Goes(w, l)
    PROVE  \E to \in Work : /\ work' = [work EXCEPT ![w] = to]
                            /\ to.at = l /\ to.job = work[w].job /\ to.sync = work[w].sync
                            /\ to.text = work[w].text /\ to.over = work[w].over
                            /\ to.sources = work[w].sources
  <1>1. work[w] \in Work /\ work \in [Workers -> Work]
    BY DEF Inv, Typed, TypeOK
  <1>2. [work[w] EXCEPT !.at = l] \in Work
    BY <1>1 DEF Work
  <1> QED
    BY <1>1, <1>2 DEF Goes, Work

\* Steps that write neither text nor overrides: rows marked, a failed brain, an audit entry.
LEMMA MarkStep ==
    ASSUME Inv, NEW w \in Workers,
           \/ MarkProcessing(w) \/ CompleteRow(w) \/ Audit(w) \/ AnalysisThrows(w)
           \/ FailBrain(w) \/ FailRow(w)
    PROVE  Inv'
  <1> DEFINE j == work[w].job
  <1>1. /\ work[w].at # "idle" /\ work \in [Workers -> Work] /\ brain \in Brains
        /\ analysed \subseteq Contents /\ j \in DOMAIN jobs /\ jobs \in Seq(Rows)
        /\ UNCHANGED <<req, sources, asked, analysed, edits>>
    BY DEF MarkProcessing, CompleteRow, Audit, AnalysisThrows, FailBrain, FailRow, SetRow,
       Inv, Typed, TypeOK, WorkerShape
  <1>2. Onward
    BY MishapTypes, SameMishaps
       DEF MarkProcessing, CompleteRow, Audit, AnalysisThrows, FailBrain, FailRow, SetRow
  <1>3. PICK l \in {"write", "row", "audit", "fail_brain", "fail_row", "completed",
                    "attempt_failed"} :
            /\ Goes(w, l)
            /\ l = "write" => MarkProcessing(w)
            /\ l = "audit" => CompleteRow(w)
            /\ l = "completed" => Audit(w)
            /\ l = "fail_row" => FailBrain(w)
            /\ l # "row"
    BY DEF MarkProcessing, CompleteRow, Audit, AnalysisThrows, FailBrain, FailRow, SetRow
  <1>4. PICK to \in Work : /\ work' = [work EXCEPT ![w] = to]
                           /\ to.at = l /\ to.job = j /\ to.sync = work[w].sync
                           /\ to.text = work[w].text /\ to.over = work[w].over
                           /\ to.sources = work[w].sources
    BY <1>3, WorkLabel
  <1>5. /\ brain' \in Brains /\ brain'.text = brain.text /\ brain'.over = brain.over
        /\ brain'.status = brain.status \/ (brain'.status = "failed" /\ jobs' = jobs)
        /\ brain' = brain \/ FailBrain(w)
    BY <1>1 DEF MarkProcessing, CompleteRow, Audit, AnalysisThrows, FailBrain, FailRow, SetRow,
       FailedBrain, Brains
  <1>6. PICK s \in {"queued", "processing", "completed", "failed"} :
            /\ jobs' = jobs \/ jobs' = [jobs EXCEPT ![j].status = s]
            /\ jobs' = jobs \/ s = "processing" \/ work[w].at \in {"row", "fail_row"}
    BY DEF MarkProcessing, CompleteRow, Audit, AnalysisThrows, FailBrain, FailRow, SetRow
  <1>7. Typed'
    BY <1>1, <1>2, <1>4, <1>5, <1>6, WorkerTyped
  <1>8. Told'
    <2>1. l \in About => work[w].at \in About
      BY <1>3 DEF MarkProcessing, SetRow, About
    <2> QED
      BY <1>1, <1>2, <1>4, <1>5, <2>1, ToldStays
  <1>9. Coming'
    <2>0. SUFFICES ASSUME brain'.status = "analyzing" PROVE \E i \in DOMAIN jobs' : Open(i)'
      BY DEF Coming
    <2>1. PICK i \in DOMAIN jobs : Open(i)
      BY <1>5, <2>0 DEF Inv, Coming
    <2>2. i = j => work[w].at \in Underway
      BY <2>1 DEF Open
    <2>3. i \in DOMAIN jobs' /\ jobs'[i].status \in {"queued", "processing"}
      <3>1. CASE jobs' = jobs
        BY <2>1, <3>1 DEF Open
      <3>2. CASE jobs' # jobs
        <4>1. jobs[j] \in Rows /\ jobs' = [jobs EXCEPT ![j].status = s]
          BY <1>1, <1>6, <3>2
        <4>2. jobs'[j].status = s /\ DOMAIN jobs' = DOMAIN jobs
              /\ \A k \in DOMAIN jobs : k # j => jobs'[k] = jobs[k]
          BY <1>1, <4>1 DEF Rows
        <4>3. i = j => s = "processing"
          BY <1>6, <2>2, <3>2 DEF Underway, About
        <4> QED
          BY <2>1, <4>2, <4>3 DEF Open
      <3> QED
        BY <3>1, <3>2
    <2>4. i = j => l \in Underway
      <3>1. ~FailBrain(w)
        BY <2>0 DEF FailBrain, FailedBrain, Inv, Typed, TypeOK, Brains
      <3> QED
        BY <1>3, <2>2, <3>1 DEF CompleteRow, Audit, SetRow, Underway, About
    <2> QED
      BY <1>1, <1>4, <2>1, <2>3, <2>4 DEF Open
  <1> QED
    BY <1>7, <1>8, <1>9 DEF Inv

LEMMA ReadBrainStep ==
    ASSUME Inv, NEW w \in Workers, ReadBrain(w)
    PROVE  Inv'
  <1>1. /\ work[w].at = "start" /\ work \in [Workers -> Work] /\ work[w] \in Work /\ Onward
        /\ brain \in Brains /\ analysed \subseteq Contents /\ sources \subseteq Contents
        /\ UNCHANGED <<brain, sources, jobs, req, asked, analysed, edits>>
    BY SameMishaps DEF ReadBrain, Inv, Typed, TypeOK
  <1>2. PICK to \in Work : /\ work' = [work EXCEPT ![w] = to]
                           /\ to.at = "processing" /\ to.job = work[w].job
                           /\ to.sync = work[w].sync
                           /\ to.text = brain.text /\ to.over = brain.over
    <2>1. /\ work'[w] = [at |-> "processing", job |-> work[w].job, sync |-> work[w].sync,
                         text |-> brain.text, over |-> brain.over, sources |-> sources]
          /\ work' = [v \in Workers |-> work'[v]]
          /\ \A v \in Workers : v # w => work'[v] = work[v]
      BY <1>1 DEF ReadBrain, Work
    <2>2. work'[w] \in Work
      BY <1>1, <2>1 DEF Work, Brains
    <2>3. PICK to \in Work : to = work'[w]
      BY <2>2
    <2>4. work' = [work EXCEPT ![w] = to]
      BY <1>1, <2>1, <2>3
    <2>5. /\ to.at = "processing" /\ to.job = work[w].job /\ to.sync = work[w].sync
          /\ to.text = brain.text /\ to.over = brain.over
      BY <2>1, <2>3
    <2> QED
      BY <2>4, <2>5, Zenon
  <1>3. Typed'
    <2>1. work[w].at # "idle" /\ "queued" \in {"queued", "processing", "completed", "failed"}
      BY <1>1
    <2> QED
      BY <1>1, <1>2, <2>1, WorkerTyped
  <1>4. Told'
    <2>1. \A v \in Workers : \/ v = w /\ work'[v].over = brain.over /\ work'[v].text = brain.text
                             \/ work'[v] = work[v]
      BY <1>1, <1>2
    <2> QED
      BY <1>1, <2>1, ToldStays
  <1>5. Coming'
    <2>1. \A v \in Workers : \/ work'[v].at \in Underway
                             \/ work'[v].job = work[v].job /\ work[v].at \notin Underway
      BY <1>1, <1>2 DEF Inv, Coming, Underway, About
    <2> QED
      BY <1>1, <2>1, ComingStays
  <1> QED
    BY <1>3, <1>4, <1>5 DEF Inv

\* mergeGeneratedPayload: a protected field keeps its text, a suppressed item stays away
\* and what is neither is generated anew.
LEMMA MergeEffect ==
    ASSUME NEW current \in Texts, NEW generated \in Texts, NEW over \in Overrides, NEW f \in Fields
    PROVE  /\ Merge(current, generated, over) \in Texts
           /\ f \in over.sections \/ f \in KeepsCurrent(over) =>
                 Merge(current, generated, over)[f] = current[f]
           /\ f \in Items /\ f \in over.suppressed \ over.items /\ ~Whole(f, over) =>
                 Merge(current, generated, over)[f] = "none"
           /\ /\ f \notin over.sections \union over.items \union over.suppressed
              /\ f \in Items => ~Whole(f, over)
              => Merge(current, generated, over)[f] = generated[f]
  <1> DEFINE taken == (Scalars \ over.sections) \union TakesGenerated(over)
             kept == over.sections \union KeepsCurrent(over)
             merged == Merge(current, generated, over)
  <1>1. over.sections \subseteq Scalars /\ over.items \subseteq Items
    BY DEF Overrides
  <1>2. ASSUME NEW g \in Fields
        PROVE  /\ g \in kept => g \notin taken
               /\ merged[g] = IF g \in kept THEN current[g]
                              ELSE IF g \in taken THEN generated[g] ELSE "none"
    <2>1. g \in kept => g \notin taken
      BY <1>1, FieldKinds DEF KeepsCurrent, TakesGenerated
    <2>2. merged[g] = CASE g \in kept -> current[g]
                        [] g \in taken -> generated[g]
                        [] OTHER -> "none"
      BY DEF Merge
    <2> HIDE DEF kept, taken, merged
    <2> QED
      BY <2>1, <2>2
  <1>3. merged \in Texts
    <2>1. merged = [g \in Fields |-> merged[g]]
      BY DEF Merge
    <2>2. \A g \in Fields : merged[g] \in Authors
      BY <1>2 DEF Texts, Authors
    <2> QED
      BY <2>1, <2>2 DEF Texts
  <1>4. f \in Items /\ f \in over.suppressed \ over.items /\ ~Whole(f, over) =>
            f \notin kept /\ f \notin taken
    BY <1>1, FieldKinds DEF KeepsCurrent, TakesGenerated
  <1>5. /\ f \notin over.sections \union over.items \union over.suppressed
        /\ f \in Items => ~Whole(f, over)
        => f \notin kept /\ f \in taken
    BY <1>1, FieldKinds DEF KeepsCurrent, TakesGenerated
  <1> QED
    BY <1>2, <1>3, <1>4, <1>5

LEMMA GeneratedTypes == \A found : Generated(found) \in Texts
  BY DEF Generated, Texts, Authors

LEMMA WriteBrainStep ==
    ASSUME Inv, NEW w \in Workers, WriteBrain(w)
    PROVE  Inv'
  <1>1. /\ work[w].at = "write" /\ work \in [Workers -> Work] /\ work[w] \in Work
        /\ work[w].text \in Texts /\ work[w].over \in Overrides /\ work[w].sources \subseteq Contents
        /\ brain \in Brains /\ analysed' = work[w].sources /\ Onward
        /\ UNCHANGED <<sources, jobs, req, asked, edits, mishaps>>
    BY SameMishaps DEF WriteBrain, Inv, Typed, TypeOK, Work
  <1>2. /\ Merged(w) \in Texts
        /\ \A f \in Fields :
              /\ f \in work[w].over.sections \/ f \in KeepsCurrent(work[w].over) =>
                    Merged(w)[f] = work[w].text[f]
              /\ f \in Items /\ f \in work[w].over.suppressed \ work[w].over.items
                   /\ ~Whole(f, work[w].over) => Merged(w)[f] = "none"
              /\ /\ f \notin work[w].over.sections \union work[w].over.items
                                \union work[w].over.suppressed
                 /\ f \in Items => ~Whole(f, work[w].over)
                 => Merged(w)[f] = Generated(work[w].sources)[f]
    <2>1. PICK generated \in Texts : generated = Generated(work[w].sources)
      BY GeneratedTypes
    <2>2. Merged(w) = Merge(work[w].text, generated, work[w].over)
      BY <2>1 DEF Merged
    <2>3. Merged(w) \in Texts
      BY <1>1, <2>2 DEF Merge, Texts, Authors
    <2>4. ASSUME NEW f \in Fields
          PROVE  /\ f \in work[w].over.sections \/ f \in KeepsCurrent(work[w].over) =>
                       Merged(w)[f] = work[w].text[f]
                 /\ f \in Items /\ f \in work[w].over.suppressed \ work[w].over.items
                      /\ ~Whole(f, work[w].over) => Merged(w)[f] = "none"
                 /\ /\ f \notin work[w].over.sections \union work[w].over.items
                                   \union work[w].over.suppressed
                    /\ f \in Items => ~Whole(f, work[w].over)
                    => Merged(w)[f] = Generated(work[w].sources)[f]
      <3>1. PICK current \in Texts, over \in Overrides :
                current = work[w].text /\ over = work[w].over
        BY <1>1
      <3>2. PICK merged : merged = Merge(current, generated, over)
        OBVIOUS
      <3>3. /\ f \in over.sections \/ f \in KeepsCurrent(over) => merged[f] = current[f]
            /\ f \in Items /\ f \in over.suppressed \ over.items /\ ~Whole(f, over) =>
                  merged[f] = "none"
            /\ /\ f \notin over.sections \union over.items \union over.suppressed
               /\ f \in Items => ~Whole(f, over)
               => merged[f] = generated[f]
        BY <3>2, MergeEffect
      <3>4. Merged(w) = merged
        BY <2>2, <3>1, <3>2
      <3> HIDE DEF Merged
      <3> QED
        BY <2>1, <3>1, <3>3, <3>4
    <2> QED
      BY <2>3, <2>4, Zenon
  <1>3. /\ brain' \in Brains /\ brain'.text = Merged(w) /\ brain'.over = brain.over
        /\ brain'.status = "ready"
    <2>1. brain' = [brain EXCEPT !.status = "ready", !.text = Merged(w)]
      BY DEF WriteBrain, WriteMerged
    <2> HIDE DEF Merged
    <2> QED
      BY <1>1, <1>2, <2>1 DEF Brains
  <1>4. PICK to \in Work : /\ work' = [work EXCEPT ![w] = to]
                           /\ to.at = "row" /\ to.job = work[w].job /\ to.sync = work[w].sync
    <2>1. [NoWork EXCEPT !.at = "row", !.job = work[w].job, !.sync = work[w].sync] \in Work
      BY <1>1, StartTypes DEF Work
    <2> QED
      BY <1>1, <2>1, StartTypes DEF WriteBrain, Work
  <1>5. Typed'
    <2>1. work[w].at # "idle" /\ analysed' \subseteq Contents
          /\ "queued" \in {"queued", "processing", "completed", "failed"}
      BY <1>1
    <2> QED
      BY <1>1, <1>3, <1>4, <2>1, WorkerTyped
  <1>6. Told'
    <2>1. mishaps'.edits = 0 => \A f \in Fields : Marked(f)' /\ Bare(f)'
      BY <1>1, <1>3 DEF Inv, Told, Marked, Bare
    <2>2. ASSUME mishaps'.edits + mishaps'.regens = 0
          PROVE  /\ work[w].over = brain.over
                 /\ \A f \in Fields : Shows(work[w].text, f) /\ Marked(f) /\ Bare(f)
                 /\ \A v \in Workers : v # w /\ work[v].at \in About =>
                       work[v].over = brain.over /\ \A f \in Fields : Shows(work[v].text, f)
      BY <1>1, <2>2 DEF Inv, Typed, TypeOK, Told, About
    <2>3. ASSUME mishaps'.edits + mishaps'.regens = 0, NEW f \in Fields PROVE Heard(f)'
      <3>1. CASE asked[f] = "keep"
        BY <1>1, <1>2, <1>3, <2>2, <2>3, <3>1 DEF Heard, Shows, Marked
      <3>2. CASE asked[f] = "drop"
        <4>1. f \in Items
          BY <3>2 DEF Inv, Told
        <4>2. CASE Whole(f, brain.over)
          <5>1. f \in KeepsCurrent(brain.over)
            BY <4>1, <4>2 DEF KeepsCurrent
          <5> QED
            BY <1>1, <1>2, <1>3, <2>2, <2>3, <3>2, <5>1 DEF Heard, Shows
        <4>3. CASE ~Whole(f, brain.over)
          BY <1>1, <1>2, <1>3, <2>2, <2>3, <3>2, <4>1, <4>3 DEF Heard, Marked
        <4> QED
          BY <4>2, <4>3
      <3>3. CASE asked[f] \notin {"keep", "drop"}
        BY <1>1, <3>3 DEF Heard
      <3> QED
        BY <3>1, <3>2, <3>3
    <2>4. ASSUME mishaps'.edits + mishaps'.regens = 0, NEW v \in Workers, work'[v].at \in About
          PROVE  work'[v].over = brain'.over /\ \A f \in Fields : Shows(work[v].text, f)'
      <3>1. v # w
        BY <1>1, <1>4, <2>4 DEF About
      <3>2. work'[v] = work[v]
        BY <1>1, <1>4, <3>1
      <3> QED
        BY <1>1, <1>3, <2>2, <2>4, <3>1, <3>2 DEF Shows
    <2>5. ReadyShowsSources'
      <3> SUFFICES ASSUME mishaps'.edits + mishaps'.regens = 0,
                          NEW f \in Fields, asked'[f] = "nothing",
                          f \in Items => ~Whole(f, brain'.over)
                   PROVE  brain'.text[f] = Generated(analysed')[f]
        BY DEF ReadyShowsSources
      <3>1. f \notin brain.over.sections \union brain.over.items \union brain.over.suppressed
        BY <1>1, <1>3, <2>2 DEF Bare
      <3> QED
        BY <1>1, <1>2, <1>3, <2>2, <3>1
    <2>6. \A f \in Fields : asked'[f] = "drop" => f \in Items
      BY <1>1 DEF Inv, Told
    <2> QED
      BY <2>1, <2>3, <2>4, <2>5, <2>6 DEF Told
  <1>7. Coming'
    BY <1>3 DEF Coming
  <1> QED
    BY <1>5, <1>6, <1>7 DEF Inv

------------------------------------------------------------------------------
LEMMA NextInv == Inv /\ [Next]_vars => Inv'
  <1> SUFFICES ASSUME Inv, [Next]_vars PROVE Inv'
    OBVIOUS
  <1>1. CASE UNCHANGED vars
    BY <1>1 DEF vars, Inv, Typed, TypeOK, RowShape, RequestShape, WorkerShape, Told, Marked, Bare,
       Heard, Shows, ReadyShowsSources, Coming, Open
  <1>2. CASE \E a \in Admins : Serve(a) \/ GoOn(a) \/ RequestCut(a)
    BY <1>2, AskStep, ReadForEditStep, CreateJobStep, MarkAnalyzingStep, AddJobStep, RunSyncStep,
       WriteEditStep, CutStep DEF Serve, GoOn
  <1>3. CASE \E w \in Workers : Analyze(w) \/ WorkerDies(w)
    BY <1>3, ReadBrainStep, WriteBrainStep, MarkStep, SettleStep DEF Analyze
  <1>4. CASE \E j \in DOMAIN jobs : Reclaim(j) \/ \E w \in Workers : Take(w, j)
    BY <1>4, ReclaimStep, TakeStep
  <1> QED
    BY <1>1, <1>2, <1>3, <1>4 DEF Next

\* The inductive invariant, for any number of admins, workers, fields, edits and mishaps.
THEOREM Invariance == Spec => []Inv
  BY InitInv, NextInv, PTL DEF Spec

\* Types, for every value of the constants.
THEOREM TypeCorrect == Spec => []TypeOK
  <1>1. Inv => TypeOK
    BY DEF Inv, Typed
  <1> QED
    BY <1>1, Invariance, PTL

\* payload-merge.ts and runAnalysis: what people last said of a field is what the payload
\* shows, through any number of regenerations, unless two read-compute-writes of the row met.
THEOREM WordStands == Spec => []HumanWordStands
  <1>1. Inv => HumanWordStands
    BY DEF Inv, Told, HumanWordStands
  <1> QED
    BY <1>1, Invariance, PTL

\* runAnalysis writes no overrides: whatever analyses meet whatever edits, only two edits of
\* one row can lose the protection of a field.
THEOREM MarksSurvive == Spec => []ProtectionSurvives
  <1>1. Inv => ProtectionSurvives
    BY DEF Inv, Told, ProtectionSurvives
  <1> QED
    BY <1>1, Invariance, PTL

\* mergeGeneratedPayload and the edits of other fields: a ready brain shows what its latest
\* analysis found wherever nobody edited.
THEOREM ReadyIsCurrent == Spec => []ReadyShowsSources
  <1>1. Inv => ReadyShowsSources
    BY DEF Inv, Told
  <1> QED
    BY <1>1, Invariance, PTL

\* enqueueOrRunAnalysis and runAnalysis's catch: an analyzing brain has an analysis row that
\* is neither completed nor failed.
THEOREM WaitsForSomething == Spec => []AnalyzingHasJob
  <1>1. Inv => AnalyzingHasJob
    BY DEF Inv, Coming, Open, AnalyzingHasJob
  <1> QED
    BY <1>1, Invariance, PTL
==============================================================================
