--------------------------- MODULE ResearchProofs ----------------------------
(***************************************************************************)
(* Proofs about Research for every number of requests, workers, runs,        *)
(* findings, turns of the environment and mishaps.  The inductive invariant   *)
(* Inv has the types, but for what a package is made of; per worker, Fits:    *)
(* what reaching its label has established of permissions and findings; and   *)
(* per run, Rests: that its package was made of findings that are persisted.  *)
(* Sorted is shown to rearrange, Filtered to keep in order, so a package says *)
(* nothing else; World has the types that Inv does without.                   *)
(***************************************************************************)
EXTENDS Research, SequenceTheorems, DataInduction

\* A package, of whatever findings it was made.
Made == {Package(Sorted(views)) : views \in Seq(Views)} \union {NoPackage}
Run == [status : Statuses, fixture : Results, package : Made,
        refused : BOOLEAN, state : {"none", "waiting", "active", "completed", "failed"},
        made : 0 .. MaxAttempts, stalled : 0 .. MaxStalled + 1, owner : Workers \union {NoWorker}]

\* Views of proven findings, as they are persisted.
Persisted(views) ==
    \A i \in DOMAIN views :
        /\ views[i].key \in DOMAIN findings /\ views[i].stale = findings[views[i].key]
        /\ Info[views[i].key].proven

Rests(row) ==
    row.package # NoPackage =>
        \E views \in Seq(Views) : row.package = Package(Sorted(views)) /\ Persisted(views)

Writing == {"start", "collect", "find", "persist", "complete"}  \* both checks are passed
Checked == Writing \union {"candidate"}                         \* the first one is

\* What worker x has seen and found.
Fits(x) ==
    /\ x.at # "idle" => x.run \in DOMAIN runs /\ Permits \subseteq x.seen
    /\ x.at \in Checked => "agent" \in x.seen
    /\ x.at \in Writing => "candidate" \in x.seen
    /\ x.at \in {"find", "persist"} => x.todo # <<>>
    /\ \A i \in DOMAIN x.todo : Info[x.todo[i].key].proven
    /\ Persisted(x.views)

\* A worker at a job owns it.
Held(w) ==
    work[w].at # "idle" /\ ~work[w].sync =>
        runs[work[w].run].state = "active" /\ runs[work[w].run].owner = w

Counted(row) == row.state # "failed" => row.made < MaxAttempts /\ row.stalled <= MaxStalled

Typed ==
    /\ runs \in Seq(Run)
    /\ DOMAIN findings \subseteq Keys /\ \A k \in DOMAIN findings : findings[k] \in BOOLEAN
    /\ old \subseteq Keys
    /\ req \in [Admins -> [at : {"idle", "add"}, run : Nat]]
    /\ \A a \in Admins : req[a].at = "add" =>
          req[a].run \in DOMAIN runs /\ runs[req[a].run].state = "none"
    /\ \A a, b \in Admins : a # b /\ req[a].at = "add" /\ req[b].at = "add" =>
          req[a].run # req[b].run
    /\ work \in [Workers -> Work]

Inv ==
    /\ Typed
    /\ \A w \in Workers : Fits(work[w]) /\ Held(w)
    /\ \A r \in DOMAIN runs : Rests(runs[r]) /\ Counted(runs[r])

------------------------------------------------------------------------------
LEMMA Bounds ==
    /\ MaxStalled \in Nat /\ MaxAttempts \in Nat \ {0} /\ NoWorker \notin Workers
    /\ Results \subseteq Seq(Keys) /\ Ageing \subseteq SUBSET Keys
  BY ResearchAssumption

LEMMA StartTypes ==
    /\ NoWork \in Work /\ NoWork.at = "idle" /\ NoWork.todo = <<>> /\ NoWork.views = <<>>
    /\ NoRequest \in [at : {"idle", "add"}, run : Nat] /\ NoRequest.at = "idle"
  BY DEF NoWork, Work, NoRequest

LEMMA IdleFits == Fits(NoWork)
  BY StartTypes DEF Fits, Persisted, Checked, Writing

LEMMA InitInv == Init => Inv
  <1> SUFFICES ASSUME Init PROVE Inv
    OBVIOUS
  <1>1. Typed
    BY StartTypes DEF Init, Typed
  <1>2. \A w \in Workers : Fits(work[w]) /\ Held(w)
    BY StartTypes, IdleFits DEF Init, Held
  <1>3. \A r \in DOMAIN runs : Rests(runs[r]) /\ Counted(runs[r])
    BY DEF Init
  <1> QED
    BY <1>1, <1>2, <1>3 DEF Inv

------------------------------------------------------------------------------
(* What the steps have in common.                                           *)

\* Findings are only added.
Grown ==
    /\ DOMAIN findings \subseteq DOMAIN findings' /\ DOMAIN findings' \subseteq Keys
    /\ \A k \in DOMAIN findings' : findings'[k] \in BOOLEAN
    /\ \A k \in DOMAIN findings : findings'[k] = findings[k]

LEMMA GrownKeeps ==
    ASSUME Grown
    PROVE  /\ \A views : Persisted(views) => Persisted(views)'
           /\ \A row : Rests(row) => Rests(row)'
  <1>1. ASSUME NEW views, Persisted(views) PROVE \A i \in DOMAIN views :
            /\ views[i].key \in DOMAIN findings' /\ views[i].stale = findings'[views[i].key]
            /\ Info[views[i].key].proven
    BY <1>1 DEF Persisted, Grown
  <1> QED
    BY <1>1 DEF Persisted, Rests

LEMMA SameFindings ==
    ASSUME Inv, UNCHANGED findings
    PROVE  Grown
  BY DEF Inv, Typed, Grown

LEMMA FitsKept ==
    ASSUME Grown, UNCHANGED others, DOMAIN runs \subseteq DOMAIN runs', NEW x, Fits(x)
    PROVE  (Fits(x))'
  <1>1. (Persisted(x.views))'
    BY GrownKeeps DEF Fits
  <1>2. Permits' = Permits
    BY DEF others, Permits, Researchable
  <1> QED
    BY <1>1, <1>2 DEF Fits

\* What a queue may read of a row.
Alike(row, was) ==
    /\ row.state = was.state /\ row.made = was.made
    /\ row.stalled = was.stalled /\ row.owner = was.owner

\* A worker goes on with its run, whose row becomes row.
LEMMA WorkerStep ==
    ASSUME Inv, NEW w \in Workers, NEW to \in Work, work[w].at # "idle",
           work' = [work EXCEPT ![w] = to],
           to.run = work[w].run, to.sync = work[w].sync, to.at # "idle", (Fits(to))',
           NEW row \in Run, runs' = [runs EXCEPT ![work[w].run] = row],
           Alike(row, runs[work[w].run]), (Rests(row))',
           Grown, UNCHANGED <<others, req>>
    PROVE  Inv'
  <1> DEFINE r == work[w].run
  <1>1. /\ work \in [Workers -> Work] /\ runs \in Seq(Run) /\ r \in DOMAIN runs
        /\ req \in [Admins -> [at : {"idle", "add"}, run : Nat]]
    BY DEF Inv, Typed, Fits
  <1>2. /\ runs' \in Seq(Run) /\ DOMAIN runs' = DOMAIN runs /\ runs'[r] = row
        /\ \A i \in DOMAIN runs : i # r => runs'[i] = runs[i]
    BY <1>1
  <1>3. /\ work' \in [Workers -> Work] /\ work'[w] = to
        /\ \A v \in Workers : v # w => work'[v] = work[v]
    BY <1>1
  <1>4. Typed'
    BY <1>1, <1>2, <1>3 DEF Inv, Typed, Grown, others, Alike
  <1>5. \A v \in Workers : (Fits(work[v]))'
    <2> SUFFICES ASSUME NEW v \in Workers, v # w PROVE (Fits(work[v]))'
      BY <1>3
    <2>1. PICK x : x = work[v]
      OBVIOUS
    <2>2. Fits(x) /\ work'[v] = x
      BY <1>3, <2>1 DEF Inv
    <2>3. (Fits(x))'
      BY <1>2, <2>2, FitsKept
    <2> QED
      BY <2>2, <2>3
  <1>6. \A v \in Workers : (Held(v))'
    BY <1>1, <1>2, <1>3 DEF Inv, Held, Alike
  <1>7. \A i \in DOMAIN runs' : (Rests(runs[i]))' /\ (Counted(runs[i]))'
    <2> SUFFICES ASSUME NEW i \in DOMAIN runs' PROVE (Rests(runs[i]))' /\ (Counted(runs[i]))'
      OBVIOUS
    <2>1. CASE i = r
      BY <1>1, <1>2, <2>1 DEF Inv, Counted, Alike
    <2>2. CASE i # r
      <3>1. PICK x : x = runs[i]
        OBVIOUS
      <3>2. Rests(x) /\ Counted(x) /\ runs'[i] = x
        BY <1>2, <2>2, <3>1 DEF Inv
      <3>3. (Rests(x))'
        BY <3>2, GrownKeeps
      <3> QED
        BY <3>2, <3>3 DEF Counted
    <2> QED
      BY <2>1, <2>2
  <1> QED
    BY <1>4, <1>5, <1>6, <1>7 DEF Inv

\* A worker goes on and leaves the rows.
LEMMA WorkerOnly ==
    ASSUME Inv, NEW w \in Workers, NEW to \in Work, work[w].at # "idle",
           work' = [work EXCEPT ![w] = to],
           to.run = work[w].run, to.sync = work[w].sync, to.at # "idle", (Fits(to))',
           UNCHANGED runs, Grown, UNCHANGED <<others, req>>
    PROVE  Inv'
  <1>1. PICK row : row = runs[work[w].run]
    OBVIOUS
  <1>2. work[w].run \in DOMAIN runs /\ runs \in Seq(Run)
    BY DEF Inv, Typed, Fits
  <1>3. row \in Run /\ Alike(row, runs[work[w].run]) /\ Rests(row)
    BY <1>1, <1>2 DEF Inv, Alike
  <1>4. runs' = [runs EXCEPT ![work[w].run] = row]
    BY <1>1, <1>2
  <1>5. (Rests(row))'
    BY <1>3, GrownKeeps
  <1> QED
    BY <1>3, <1>4, <1>5, WorkerStep

\* Run r becomes row, and whoever is at it through the queue owns it.
Leaves(v, r, row) ==
    \/ work'[v] = work[v] /\ (work[v].run # r \/ work[v].sync)
    \/ work'[v].at = "idle" \/ work'[v].sync
    \/ work'[v].run = r /\ row.state = "active" /\ row.owner = v

LEMMA QueueStep ==
    ASSUME Inv, NEW r \in DOMAIN runs, NEW row \in Run,
           runs' = [runs EXCEPT ![r] = row], Counted(row), row.package = runs[r].package,
           work' \in [Workers -> Work],
           \A v \in Workers : (Fits(work[v]))',
           \A v \in Workers : Leaves(v, r, row),
           req' \in [Admins -> [at : {"idle", "add"}, run : Nat]],
           \A b \in Admins : req'[b].at = "add" => req'[b] = req[b] /\ req[b].run # r,
           UNCHANGED <<findings, others>>
    PROVE  Inv'
  <1>1. runs \in Seq(Run)
    BY DEF Inv, Typed
  <1>2. /\ runs' \in Seq(Run) /\ DOMAIN runs' = DOMAIN runs /\ runs'[r] = row
        /\ \A i \in DOMAIN runs : i # r => runs'[i] = runs[i]
    BY <1>1
  <1>3. Typed'
    BY <1>1, <1>2 DEF Inv, Typed, others
  <1>4. \A v \in Workers : (Held(v))'
    BY <1>1, <1>2 DEF Inv, Held, Leaves, Fits
  <1>5. \A i \in DOMAIN runs' : (Rests(runs[i]))' /\ (Counted(runs[i]))'
    <2> SUFFICES ASSUME NEW i \in DOMAIN runs' PROVE (Rests(runs[i]))' /\ (Counted(runs[i]))'
      OBVIOUS
    <2>1. Grown
      BY SameFindings
    <2>2. PICK x : x = runs[i]
      OBVIOUS
    <2>3. Rests(x) /\ runs'[i].package = x.package
      BY <1>2, <2>2 DEF Inv
    <2>4. (Rests(x))'
      BY <2>1, <2>3, GrownKeeps
    <2>5. (Rests(runs[i]))'
      BY <2>3, <2>4 DEF Rests
    <2>6. (Counted(runs[i]))'
      BY <1>2 DEF Inv, Counted
    <2> QED
      BY <2>5, <2>6
  <1> QED
    BY <1>3, <1>4, <1>5 DEF Inv

------------------------------------------------------------------------------
(* Requests, the queue and the environment.                                 *)
LEMMA StartStep ==
    ASSUME Inv, NEW a \in Admins, Start(a)
    PROVE  Inv'
  <1>1. PICK fixture \in Results :
           runs' = Append(runs, [status |-> "QUEUED", fixture |-> fixture, package |-> NoPackage,
                                 refused |-> FALSE, state |-> "none", made |-> 0, stalled |-> 0,
                                 owner |-> NoWorker])
    BY DEF Start
  <1>2. PICK row \in Run : /\ runs' = Append(runs, row) /\ row.package = NoPackage
                           /\ row.made = 0 /\ row.stalled = 0 /\ row.state = "none"
    <2>1. [status |-> "QUEUED", fixture |-> fixture, package |-> NoPackage,
           refused |-> FALSE, state |-> "none", made |-> 0, stalled |-> 0,
           owner |-> NoWorker] \in Run
      BY Bounds DEF Run, Made, Statuses
    <2> QED
      BY <1>1, <2>1
  <1>3. /\ runs \in Seq(Run) /\ runs' \in Seq(Run) /\ Len(runs) + 1 \in DOMAIN runs'
        /\ Len(runs) + 1 \in Nat
        /\ \A i \in DOMAIN runs : i \in DOMAIN runs' /\ runs'[i] = runs[i]
        /\ \A i \in DOMAIN runs' : i \in DOMAIN runs \/ runs'[i] = row
    BY <1>2 DEF Inv, Typed
  <1>4. /\ UNCHANGED <<findings, others, work>>
        /\ req' = [req EXCEPT ![a] = [at |-> "add", run |-> Len(runs) + 1]]
    BY DEF Start, Answer
  <1>5. Typed'
    <2>1. /\ req \in [Admins -> [at : {"idle", "add"}, run : Nat]]
          /\ req' \in [Admins -> [at : {"idle", "add"}, run : Nat]]
          /\ req'[a].run = Len(runs) + 1 /\ \A b \in Admins : b # a => req'[b] = req[b]
      BY <1>3, <1>4 DEF Inv, Typed
    <2>2. runs'[Len(runs) + 1].state = "none" /\ Len(runs) + 1 \notin DOMAIN runs
      BY <1>2, <1>3
    <2>3. \A b \in Admins : req'[b].at = "add" =>
             req'[b].run \in DOMAIN runs' /\ runs'[req'[b].run].state = "none"
      BY <1>3, <2>1, <2>2 DEF Inv, Typed
    <2>4. \A b, c \in Admins : b # c /\ req'[b].at = "add" /\ req'[c].at = "add" =>
             req'[b].run # req'[c].run
      BY <2>1, <2>2 DEF Inv, Typed
    <2> QED
      BY <1>3, <1>4, <2>1, <2>3, <2>4 DEF Inv, Typed, others
  <1>6. Grown
    BY <1>4, SameFindings
  <1>7. \A w \in Workers : (Fits(work[w]))' /\ (Held(w))'
    <2> SUFFICES ASSUME NEW w \in Workers PROVE (Fits(work[w]))' /\ (Held(w))'
      OBVIOUS
    <2>1. PICK x : x = work[w]
      OBVIOUS
    <2>2. Fits(x) /\ work'[w] = x
      BY <1>4, <2>1 DEF Inv
    <2>3. DOMAIN runs \subseteq DOMAIN runs'
      BY <1>3
    <2>4. (Fits(x))'
      BY <1>4, <1>6, <2>2, <2>3, FitsKept
    <2>5. (Held(w))'
      BY <1>3, <1>4 DEF Inv, Held, Fits
    <2> QED
      BY <2>2, <2>4, <2>5
  <1>8. \A i \in DOMAIN runs' : (Rests(runs[i]))' /\ (Counted(runs[i]))'
    <2> SUFFICES ASSUME NEW i \in DOMAIN runs' PROVE (Rests(runs[i]))' /\ (Counted(runs[i]))'
      OBVIOUS
    <2>1. CASE i \in DOMAIN runs
      <3>1. PICK x : x = runs[i]
        OBVIOUS
      <3>2. Rests(x) /\ Counted(x) /\ runs'[i] = x
        BY <1>3, <2>1, <3>1 DEF Inv
      <3>3. (Rests(x))'
        BY <1>6, <3>2, GrownKeeps
      <3> QED
        BY <3>2, <3>3 DEF Counted
    <2>2. CASE runs'[i] = row
      BY <1>2, <2>2, Bounds DEF Rests, Counted
    <2> QED
      BY <1>3, <2>1, <2>2
  <1> QED
    BY <1>5, <1>7, <1>8 DEF Inv

LEMMA WorkStays ==
    ASSUME Inv, UNCHANGED <<findings, others, work>>, DOMAIN runs' = DOMAIN runs
    PROVE  \A v \in Workers : (Fits(work[v]))'
  <1> SUFFICES ASSUME NEW v \in Workers PROVE (Fits(work[v]))'
    OBVIOUS
  <1>1. PICK x : x = work[v]
    OBVIOUS
  <1>2. Fits(x) /\ work'[v] = x
    BY <1>1 DEF Inv
  <1>3. (Fits(x))'
    BY <1>2, SameFindings, FitsKept
  <1> QED
    BY <1>2, <1>3

LEMMA AddJobStep ==
    ASSUME Inv, NEW a \in Admins, AddJob(a)
    PROVE  Inv'
  <1>1. PICK r \in DOMAIN runs : r = req[a].run
    BY DEF Inv, Typed, AddJob
  <1>2. /\ runs \in Seq(Run) /\ runs[r] \in Run /\ Counted(runs[r]) /\ runs[r].state = "none"
        /\ req \in [Admins -> [at : {"idle", "add"}, run : Nat]] /\ work \in [Workers -> Work]
    BY <1>1 DEF Inv, Typed, AddJob
  <1>3. PICK row : row = [runs[r] EXCEPT !.state = "waiting"]
    OBVIOUS
  <1>4. /\ row \in Run /\ row.package = runs[r].package /\ row.state = "waiting"
        /\ row.made = runs[r].made /\ row.stalled = runs[r].stalled
    BY <1>2, <1>3 DEF Run
  <1>5. Counted(row) /\ runs' = [runs EXCEPT ![r] = row]
    BY <1>1, <1>2, <1>3, <1>4 DEF Counted, AddJob
  <1>6. req' = [req EXCEPT ![a] = NoRequest] /\ UNCHANGED <<findings, others, work>>
    BY DEF AddJob, Answer
  <1>7. /\ req' \in [Admins -> [at : {"idle", "add"}, run : Nat]]
        /\ \A b \in Admins : req'[b].at = "add" => req'[b] = req[b] /\ req[b].run # r
    BY <1>1, <1>2, <1>6, StartTypes DEF Inv, Typed, AddJob
  <1>8. DOMAIN runs' = DOMAIN runs /\ work' \in [Workers -> Work]
    BY <1>2, <1>5, <1>6
  <1>9. \A v \in Workers : (Fits(work[v]))'
    BY <1>6, <1>8, WorkStays
  <1>10. \A v \in Workers : Leaves(v, r, row)
    BY <1>2, <1>6 DEF Leaves, Inv, Held
  <1> QED
    BY <1>4, <1>5, <1>6, <1>7, <1>8, <1>9, <1>10, QueueStep

\* What an attempt begins with.
Fresh(w, r, sync) == [NoWork EXCEPT !.at = "paused", !.run = r, !.sync = sync, !.seen = Permits]

LEMMA FreshFits ==
    ASSUME Inv, NEW w, NEW r \in DOMAIN runs, NEW sync \in BOOLEAN
    PROVE  /\ Fresh(w, r, sync) \in Work /\ Fits(Fresh(w, r, sync))
           /\ Fresh(w, r, sync).at = "paused" /\ Fresh(w, r, sync).run = r
           /\ Fresh(w, r, sync).sync = sync
  <1>1. r \in Nat /\ Permits \in SUBSET {"agent", "candidate"}
    BY DEF Inv, Typed, Permits
  <1>2. PICK x : x = Fresh(w, r, sync)
    OBVIOUS
  <1>3. /\ x \in Work /\ x.at = "paused" /\ x.run = r /\ x.sync = sync /\ x.seen = Permits
        /\ x.todo = <<>> /\ x.views = <<>>
    BY <1>1, <1>2, StartTypes DEF Fresh, Work
  <1>4. Fits(x)
    BY <1>3 DEF Fits, Persisted, Checked, Writing
  <1> QED
    BY <1>2, <1>3, <1>4

LEMMA TakeStep ==
    ASSUME Inv, NEW w \in Workers, NEW r \in DOMAIN runs, Take(w, r)
    PROVE  Inv'
  <1>1. /\ runs \in Seq(Run) /\ runs[r] \in Run /\ Counted(runs[r]) /\ work \in [Workers -> Work]
        /\ req \in [Admins -> [at : {"idle", "add"}, run : Nat]] /\ runs[r].state = "waiting"
    BY DEF Inv, Typed, Take
  <1>2. PICK row : row = [runs[r] EXCEPT !.state = "active", !.owner = w]
    OBVIOUS
  <1>3. /\ row \in Run /\ row.package = runs[r].package /\ row.state = "active" /\ row.owner = w
        /\ row.made = runs[r].made /\ row.stalled = runs[r].stalled
    BY <1>1, <1>2 DEF Run
  <1>4. Counted(row) /\ runs' = [runs EXCEPT ![r] = row]
    BY <1>1, <1>2, <1>3 DEF Counted, Take
  <1>5. PICK to \in Work : /\ to = Fresh(w, r, FALSE) /\ Fits(to) /\ to.run = r
                           /\ to.at = "paused" /\ to.sync = FALSE
    BY FreshFits
  <1>6. work' = [work EXCEPT ![w] = to] /\ UNCHANGED <<findings, others, req>>
    BY <1>5 DEF Take, Begin, Fresh
  <1>7. /\ DOMAIN runs' = DOMAIN runs /\ work' \in [Workers -> Work] /\ work'[w] = to
        /\ \A v \in Workers : v # w => work'[v] = work[v]
    BY <1>1, <1>4, <1>6
  <1>8. \A v \in Workers : (Fits(work[v]))'
    <2> SUFFICES ASSUME NEW v \in Workers PROVE (Fits(work[v]))'
      OBVIOUS
    <2>1. PICK x : x = work'[v]
      OBVIOUS
    <2>2. Fits(x)
      BY <1>5, <1>7, <2>1 DEF Inv
    <2>3. (Fits(x))'
      BY <1>6, <1>7, <2>2, SameFindings, FitsKept
    <2> QED
      BY <2>1, <2>3
  <1>9. \A v \in Workers : Leaves(v, r, row)
    <2>1. \A v \in Workers : work[v].at # "idle" => work[v].run # r \/ work[v].sync
      BY <1>1 DEF Inv, Held
    <2>2. \A v \in Workers : v # w => Leaves(v, r, row)
      BY <1>7, <2>1 DEF Leaves
    <2> QED
      BY <1>3, <1>5, <1>7, <2>2 DEF Leaves
  <1>10. \A b \in Admins : req'[b].at = "add" => req'[b] = req[b] /\ req[b].run # r
    BY <1>1, <1>6 DEF Inv, Typed
  <1> QED
    BY <1>1, <1>3, <1>4, <1>6, <1>7, <1>8, <1>9, <1>10, QueueStep

\* The rows stay, and a worker begins within a request or ends.
LEMMA RowsStay ==
    ASSUME Inv, UNCHANGED <<runs, findings, others>>,
           NEW w \in Workers, NEW to \in Work, Fits(to), to.at = "idle" \/ to.sync,
           work' = work \/ work' = [work EXCEPT ![w] = to],
           req' \in [Admins -> [at : {"idle", "add"}, run : Nat]],
           \A b \in Admins : req'[b].at = "add" => req'[b] = req[b]
    PROVE  Inv'
  <1>1. /\ work \in [Workers -> Work] /\ work' \in [Workers -> Work]
        /\ \A v \in Workers : work'[v] = work[v] \/ work'[v] = to
    BY DEF Inv, Typed
  <1>2. Typed'
    BY <1>1 DEF Inv, Typed, others
  <1>3. \A v \in Workers : (Fits(work[v]))'
    <2> SUFFICES ASSUME NEW v \in Workers PROVE (Fits(work[v]))'
      OBVIOUS
    <2>1. PICK x : x = work'[v]
      OBVIOUS
    <2>2. Fits(x)
      BY <1>1, <2>1 DEF Inv
    <2>3. (Fits(x))'
      BY <2>2, SameFindings, FitsKept
    <2> QED
      BY <2>1, <2>3
  <1>4. \A v \in Workers : (Held(v))'
    BY <1>1 DEF Inv, Held
  <1>5. \A i \in DOMAIN runs' : (Rests(runs[i]))' /\ (Counted(runs[i]))'
    BY DEF Inv, Rests, Counted, Persisted
  <1> QED
    BY <1>2, <1>3, <1>4, <1>5 DEF Inv

LEMMA AnswerTypes ==
    ASSUME Inv, NEW a \in Admins, Answer(a, NoRequest)
    PROVE  /\ req' \in [Admins -> [at : {"idle", "add"}, run : Nat]]
           /\ \A b \in Admins : req'[b].at = "add" => req'[b] = req[b]
  <1>1. req \in [Admins -> [at : {"idle", "add"}, run : Nat]]
    BY DEF Inv, Typed
  <1> QED
    BY <1>1, StartTypes DEF Answer

LEMMA RunSyncStep ==
    ASSUME Inv, NEW a \in Admins, NEW w \in Workers, RunSync(a, w)
    PROVE  Inv'
  <1>1. PICK r \in DOMAIN runs : r = req[a].run
    BY DEF Inv, Typed, RunSync
  <1>2. PICK to \in Work : /\ to = Fresh(w, r, TRUE) /\ Fits(to) /\ to.sync
    BY FreshFits
  <1>3. work' = [work EXCEPT ![w] = to] /\ UNCHANGED <<runs, findings, others>>
    BY <1>1, <1>2 DEF RunSync, Begin, Fresh
  <1>4. /\ req' \in [Admins -> [at : {"idle", "add"}, run : Nat]]
        /\ \A b \in Admins : req'[b].at = "add" => req'[b] = req[b]
    BY AnswerTypes DEF RunSync
  <1> QED
    BY <1>2, <1>3, <1>4, RowsStay

LEMMA RequestThrowsStep ==
    ASSUME Inv, NEW a \in Admins, RequestThrows(a)
    PROVE  Inv'
  <1>1. CASE Workers = {}
    <2>1. /\ req' \in [Admins -> [at : {"idle", "add"}, run : Nat]]
          /\ \A b \in Admins : req'[b].at = "add" => req'[b] = req[b]
      BY AnswerTypes DEF RequestThrows
    <2>2. UNCHANGED <<runs, findings, others, work>>
      BY DEF RequestThrows
    <2>3. Typed'
      BY <2>1, <2>2 DEF Inv, Typed, others
    <2>4. \A i \in DOMAIN runs' : (Rests(runs[i]))' /\ (Counted(runs[i]))'
      BY <2>2 DEF Inv, Rests, Counted, Persisted
    <2> QED
      BY <1>1, <2>3, <2>4 DEF Inv
  <1>2. CASE Workers # {}
    <2>1. PICK w : w \in Workers
      BY <1>2
    <2>2. /\ req' \in [Admins -> [at : {"idle", "add"}, run : Nat]]
          /\ \A b \in Admins : req'[b].at = "add" => req'[b] = req[b]
      BY AnswerTypes DEF RequestThrows
    <2> QED
      BY <2>1, <2>2, StartTypes, IdleFits, RowsStay DEF RequestThrows
  <1> QED
    BY <1>1, <1>2

LEMMA EndStep ==
    ASSUME Inv, NEW w \in Workers, work' = [work EXCEPT ![w] = NoWork],
           UNCHANGED <<runs, findings, others, req>>
    PROVE  Inv'
  <1>1. /\ req' \in [Admins -> [at : {"idle", "add"}, run : Nat]]
        /\ \A b \in Admins : req'[b].at = "add" => req'[b] = req[b]
    BY DEF Inv, Typed
  <1> QED
    BY <1>1, StartTypes, IdleFits, RowsStay

LEMMA ReclaimStep ==
    ASSUME Inv, NEW r \in DOMAIN runs, Reclaim(r)
    PROVE  Inv'
  <1>1. /\ runs \in Seq(Run) /\ runs[r] \in Run /\ Counted(runs[r]) /\ work \in [Workers -> Work]
        /\ req \in [Admins -> [at : {"idle", "add"}, run : Nat]] /\ runs[r].state = "active"
    BY DEF Inv, Typed, Reclaim
  <1>2. PICK state \in {"waiting", "failed"} :
           state = IF runs[r].stalled < MaxStalled THEN "waiting" ELSE "failed"
    OBVIOUS
  <1>3. PICK row : row = [runs[r] EXCEPT !.state = state, !.stalled = runs[r].stalled + 1,
                                         !.owner = NoWorker]
    OBVIOUS
  <1>4. runs[r].stalled \in 0 .. MaxStalled /\ runs[r].stalled + 1 \in 0 .. MaxStalled + 1
    BY <1>1, Bounds DEF Counted, Run
  <1>5. /\ row \in Run /\ row.package = runs[r].package /\ row.state = state
        /\ row.made = runs[r].made /\ row.stalled = runs[r].stalled + 1
    BY <1>1, <1>3, <1>4 DEF Run
  <1>6. Counted(row)
    BY <1>1, <1>2, <1>4, <1>5, Bounds DEF Counted
  <1>7. runs' = [runs EXCEPT ![r] = row] /\ UNCHANGED <<findings, others, req, work>>
    BY <1>2, <1>3 DEF Reclaim
  <1>8. DOMAIN runs' = DOMAIN runs /\ work' \in [Workers -> Work]
    BY <1>1, <1>7
  <1>9. \A v \in Workers : (Fits(work[v]))'
    BY <1>7, <1>8, WorkStays
  <1>10. \A v \in Workers : Leaves(v, r, row)
    BY <1>7 DEF Leaves, Inv, Held, Reclaim, Holds
  <1>11. /\ req' \in [Admins -> [at : {"idle", "add"}, run : Nat]]
         /\ \A b \in Admins : req'[b].at = "add" => req'[b] = req[b] /\ req[b].run # r
    BY <1>1, <1>7 DEF Inv, Typed
  <1> QED
    BY <1>5, <1>6, <1>7, <1>8, <1>9, <1>10, <1>11, QueueStep

LEMMA SettleStep ==
    ASSUME Inv, NEW w \in Workers, work[w].at # "idle", NEW row, Settle(w, row),
           ~work[w].sync => /\ row \in Run /\ Counted(row)
                            /\ row.package = runs[work[w].run].package
    PROVE  Inv'
  <1>1. CASE work[w].sync
    <2>1. runs' = runs
      <3>1. work[w].run \in DOMAIN runs /\ runs \in Seq(Run)
        BY DEF Inv, Typed, Fits
      <3>2. runs' = [runs EXCEPT ![work[w].run] = runs[work[w].run]]
        BY <1>1 DEF Settle
      <3> QED
        BY <3>1, <3>2
    <2> QED
      BY <2>1, EndStep DEF Settle
  <1>2. CASE ~work[w].sync
    <2>1. PICK r \in DOMAIN runs : r = work[w].run
      BY DEF Inv, Fits
    <2>2. /\ runs \in Seq(Run) /\ work \in [Workers -> Work] /\ runs[r].state = "active"
          /\ runs[r].owner = w
          /\ req \in [Admins -> [at : {"idle", "add"}, run : Nat]]
      BY <1>2, <2>1 DEF Inv, Typed, Held
    <2>3. PICK x : x = [row EXCEPT !.owner = NoWorker]
      OBVIOUS
    <2>4. /\ x \in Run /\ x.package = runs[r].package /\ x.state = row.state
          /\ x.made = row.made /\ x.stalled = row.stalled
      BY <1>2, <2>1, <2>3 DEF Run
    <2>5. Counted(x)
      BY <1>2, <2>4 DEF Counted
    <2>6. /\ runs' = [runs EXCEPT ![r] = x] /\ work' = [work EXCEPT ![w] = NoWork]
          /\ UNCHANGED <<findings, others, req>>
      BY <1>2, <2>1, <2>3 DEF Settle
    <2>7. /\ DOMAIN runs' = DOMAIN runs /\ work' \in [Workers -> Work] /\ work'[w] = NoWork
          /\ \A v \in Workers : v # w => work'[v] = work[v]
      BY <2>2, <2>6, StartTypes
    <2>8. \A v \in Workers : (Fits(work[v]))'
      <3> SUFFICES ASSUME NEW v \in Workers PROVE (Fits(work[v]))'
        OBVIOUS
      <3>1. PICK y : y = work'[v]
        OBVIOUS
      <3>2. Fits(y)
        BY <2>7, <3>1, IdleFits DEF Inv
      <3>3. (Fits(y))'
        BY <2>6, <2>7, <3>2, SameFindings, FitsKept
      <3> QED
        BY <3>1, <3>3
    <2>9. \A v \in Workers : Leaves(v, r, x)
      <3>1. \A v \in Workers : v # w /\ work[v].at # "idle" => work[v].run # r \/ work[v].sync
        BY <2>2 DEF Inv, Held
      <3> QED
        BY <2>7, <3>1, StartTypes DEF Leaves
    <2>10. /\ req' \in [Admins -> [at : {"idle", "add"}, run : Nat]]
           /\ \A b \in Admins : req'[b].at = "add" => req'[b] = req[b] /\ req[b].run # r
      BY <2>2, <2>6 DEF Inv, Typed
    <2> QED
      BY <2>4, <2>5, <2>6, <2>7, <2>8, <2>9, <2>10, QueueStep
  <1> QED
    BY <1>1, <1>2

LEMMA SettledStep ==
    ASSUME Inv, NEW w \in Workers, JobCompleted(w) \/ AttemptFailed(w)
    PROVE  Inv'
  <1>1. /\ work[w].at # "idle" /\ Row(w) \in Run
        /\ ~work[w].sync => Row(w).made < MaxAttempts /\ Row(w).stalled <= MaxStalled
    BY DEF JobCompleted, AttemptFailed, Inv, Typed, Fits, Held, Counted, Row
  <1>2. CASE JobCompleted(w)
    <2>1. PICK row : row = [Row(w) EXCEPT !.state = "completed"]
      OBVIOUS
    <2>2. /\ row \in Run /\ row.package = runs[work[w].run].package
          /\ row.made = Row(w).made /\ row.stalled = Row(w).stalled
      BY <1>1, <2>1 DEF Run, Row
    <2> QED
      BY <1>1, <1>2, <2>1, <2>2, SettleStep DEF JobCompleted, Counted
  <1>3. CASE AttemptFailed(w)
    <2>1. CASE work[w].sync
      BY <1>1, <1>3, <2>1, SettleStep DEF AttemptFailed
    <2>2. CASE ~work[w].sync
      <3>1. PICK state \in {"waiting", "failed"} :
               state = IF Row(w).made + 1 < MaxAttempts THEN "waiting" ELSE "failed"
        OBVIOUS
      <3>2. PICK row : row = [Row(w) EXCEPT !.made = Row(w).made + 1, !.state = state]
        OBVIOUS
      <3>3. Row(w).made \in Nat /\ Row(w).made + 1 \in 0 .. MaxAttempts
        BY <1>1, <2>2, Bounds DEF Run
      <3>4. /\ row \in Run /\ row.package = runs[work[w].run].package
            /\ row.made = Row(w).made + 1 /\ row.stalled = Row(w).stalled /\ row.state = state
        BY <1>1, <3>2, <3>3 DEF Run, Row
      <3>5. Counted(row)
        BY <1>1, <2>2, <3>1, <3>3, <3>4 DEF Counted
      <3>6. Settle(w, row)
        BY <1>3, <3>1, <3>2 DEF AttemptFailed
      <3> QED
        BY <1>1, <3>4, <3>5, <3>6, SettleStep
    <2> QED
      BY <2>1, <2>2
  <1> QED
    BY <1>2, <1>3

\* The environment turns: what is permitted now has been seen.
LEMMA TurnStep ==
    ASSUME Inv, Decide \/ Switch \/ BrainTurns \/ Age
    PROVE  Inv'
  <1>1. PICK c, p, b, o : Turn(c, p, b, o) /\ o \subseteq Keys
    <2>1. old \subseteq Keys
      BY DEF Inv, Typed
    <2>2. CASE Decide
      BY <2>1, <2>2 DEF Decide
    <2>3. CASE Switch
      BY <2>1, <2>3 DEF Switch
    <2>4. CASE BrainTurns
      BY <2>1, <2>4 DEF BrainTurns
    <2>5. CASE Age
      BY <2>1, <2>5, Bounds DEF Age
    <2> QED
      BY <2>2, <2>3, <2>4, <2>5
  <1>2. UNCHANGED <<runs, findings, req>> /\ old' \subseteq Keys
    BY <1>1 DEF Turn
  <1>3. Permits' \subseteq {"agent", "candidate"}
    BY DEF Permits
  <1>4. ASSUME NEW w \in Workers
        PROVE  /\ work'[w] \in Work /\ (Fits(work[w]))'
               /\ work'[w].at = work[w].at /\ work'[w].run = work[w].run
               /\ work'[w].sync = work[w].sync
    <2>1. work[w] \in Work /\ Fits(work[w])
      BY DEF Inv, Typed
    <2>2. CASE work[w].at = "idle"
      <3>1. work'[w] = work[w]
        BY <1>1, <2>2 DEF Turn
      <3> QED
        BY <1>2, <2>1, <2>2, <3>1 DEF Fits, Persisted, Checked, Writing
    <2>3. CASE work[w].at # "idle"
      <3>1. PICK seen : seen = work[w].seen \union Permits'
        OBVIOUS
      <3>2. PICK to : to = [work[w] EXCEPT !.seen = seen]
        OBVIOUS
      <3>3. work'[w] = to
        BY <1>1, <2>3, <3>1, <3>2 DEF Turn
      <3>4. /\ to \in Work /\ to.at = work[w].at /\ to.run = work[w].run
            /\ to.sync = work[w].sync /\ to.todo = work[w].todo /\ to.views = work[w].views
            /\ to.seen = seen
        <4>1. seen \in SUBSET {"agent", "candidate"}
          BY <1>3, <2>1, <3>1 DEF Work
        <4> QED
          BY <2>1, <3>2, <4>1 DEF Work
      <3>5. (Fits(to))'
        BY <1>2, <2>1, <3>1, <3>4 DEF Fits, Persisted
      <3> QED
        BY <3>3, <3>4, <3>5
    <2> QED
      BY <2>2, <2>3
  <1>5. Typed'
    <2>1. work' \in [Workers -> Work]
      BY <1>1, <1>4 DEF Turn
    <2> QED
      BY <1>2, <2>1 DEF Inv, Typed
  <1>6. \A w \in Workers : (Held(w))'
    BY <1>2, <1>4 DEF Inv, Held
  <1>7. \A i \in DOMAIN runs' : (Rests(runs[i]))' /\ (Counted(runs[i]))'
    BY <1>2 DEF Inv, Rests, Counted, Persisted
  <1> QED
    BY <1>4, <1>5, <1>6, <1>7 DEF Inv

------------------------------------------------------------------------------
(* Execution.                                                               *)
Labels == {"idle", "paused", "candidate", "block", "start", "collect", "find", "persist",
           "complete", "blocked", "completed", "catch", "attempt_failed"}

\* A worker moves on to label at, if it has seen what the label asks for.
LEMMA Moves ==
    ASSUME Inv, NEW w \in Workers, work[w].at # "idle", NEW at \in Labels \ {"idle"},
           at \in Checked => "agent" \in work[w].seen,
           at \in Writing => "candidate" \in work[w].seen,
           at \in {"find", "persist"} => work[w].todo # <<>>
    PROVE  \E to \in Work :
              /\ to = [work[w] EXCEPT !.at = at] /\ Fits(to)
              /\ to.run = work[w].run /\ to.sync = work[w].sync /\ to.at = at
  <1>1. work[w] \in Work /\ Fits(work[w])
    BY DEF Inv, Typed
  <1>2. PICK to : to = [work[w] EXCEPT !.at = at]
    OBVIOUS
  <1>3. /\ to \in Work /\ to.run = work[w].run /\ to.sync = work[w].sync /\ to.at = at
        /\ to.todo = work[w].todo /\ to.views = work[w].views /\ to.seen = work[w].seen
    BY <1>1, <1>2 DEF Work, Labels
  <1>4. Fits(to)
    BY <1>1, <1>3 DEF Fits, Persisted
  <1> QED
    BY <1>2, <1>3, <1>4

\* It moves on and changes nothing else.
LEMMA GoesStep ==
    ASSUME Inv, NEW w \in Workers, work[w].at # "idle", NEW at \in Labels \ {"idle"},
           at \in Checked => "agent" \in work[w].seen,
           at \in Writing => "candidate" \in work[w].seen,
           at \in {"find", "persist"} => work[w].todo # <<>>,
           Goes(w, at), UNCHANGED <<runs, findings, others, req>>
    PROVE  Inv'
  <1>1. PICK to \in Work :
              /\ to = [work[w] EXCEPT !.at = at] /\ Fits(to)
              /\ to.run = work[w].run /\ to.sync = work[w].sync /\ to.at = at
    BY Moves
  <1>2. Grown
    BY SameFindings
  <1>3. (Fits(to))'
    BY <1>1, <1>2, FitsKept
  <1>4. work \in [Workers -> Work] /\ work' = [work EXCEPT ![w] = to]
    BY <1>1 DEF Inv, Typed, Goes
  <1> QED
    BY <1>1, <1>2, <1>3, <1>4, WorkerOnly

\* It moves on and writes its row.
LEMMA SetRunStep ==
    ASSUME Inv, NEW w \in Workers, NEW from, from # "idle", NEW at \in Labels \ {"idle"},
           at \in Checked => "agent" \in work[w].seen,
           at \in Writing => "candidate" \in work[w].seen,
           at \notin {"find", "persist"},
           NEW row \in Run, SetRun(w, from, row, at),
           Alike(row, Row(w)), Rests(row)
    PROVE  Inv'
  <1>1. work[w].at # "idle"
    BY DEF SetRun
  <1>2. PICK to \in Work :
              /\ to = [work[w] EXCEPT !.at = at] /\ Fits(to)
              /\ to.run = work[w].run /\ to.sync = work[w].sync /\ to.at = at
    BY <1>1, Moves
  <1>3. Grown /\ UNCHANGED <<findings, others, req>>
    BY SameFindings DEF SetRun
  <1>4. runs' = [runs EXCEPT ![work[w].run] = row] /\ work' = [work EXCEPT ![w] = to]
    BY <1>2 DEF SetRun, Goes
  <1>5. DOMAIN runs' = DOMAIN runs /\ Alike(row, runs[work[w].run])
    BY <1>4 DEF Row
  <1>6. (Fits(to))' /\ (Rests(row))'
    BY <1>2, <1>3, <1>5, FitsKept, GrownKeeps
  <1> QED
    BY <1>1, <1>2, <1>3, <1>4, <1>5, <1>6, WorkerStep

\* The checks: what holds now has been seen.
LEMMA CheckStep ==
    ASSUME Inv, NEW w \in Workers, CheckPaused(w) \/ CheckCandidate(w)
    PROVE  Inv'
  <1>1. Permits \subseteq work[w].seen /\ Fits(work[w])
    BY DEF CheckPaused, CheckCandidate, Inv, Fits
  <1>2. CASE CheckPaused(w)
    <2>1. CASE paused
      BY <1>2, <2>1, GoesStep DEF CheckPaused, Labels, Checked, Writing
    <2>2. CASE ~paused
      <3>1. "agent" \in work[w].seen
        BY <1>1, <2>2 DEF Permits
      <3> QED
        BY <1>2, <2>2, <3>1, GoesStep DEF CheckPaused, Labels, Checked, Writing
    <2> QED
      BY <2>1, <2>2
  <1>3. CASE CheckCandidate(w)
    <2>1. CASE Researchable
      <3>1. {"agent", "candidate"} \subseteq work[w].seen
        BY <1>1, <1>3, <2>1 DEF Permits, CheckCandidate, Fits, Checked
      <3> QED
        BY <1>3, <2>1, <3>1, GoesStep DEF CheckCandidate, StillApproved, Labels, Checked, Writing
    <2>2. CASE ~Researchable
      BY <1>3, <2>2, GoesStep DEF CheckCandidate, StillApproved, Labels, Checked, Writing
    <2> QED
      BY <2>1, <2>2
  <1> QED
    BY <1>2, <1>3

LEMMA RowOf ==
    ASSUME Inv, NEW w \in Workers, work[w].at # "idle"
    PROVE  /\ work[w].run \in DOMAIN runs /\ Row(w) = runs[work[w].run] /\ Row(w) \in Run
           /\ Rests(Row(w)) /\ Fits(work[w]) /\ work[w] \in Work
  BY DEF Inv, Typed, Fits, Row

\* Statuses and refusals are written into the row; a package is removed.
LEMMA StatusStep ==
    ASSUME Inv, NEW w \in Workers,
           Block(w) \/ MarkProcessing(w) \/ CollectRefused(w) \/ PackageRefused(w) \/ MarkFailed(w)
    PROVE  Inv'
  <1>1. work[w].at # "idle"
    BY DEF Block, MarkProcessing, CollectRefused, PackageRefused, MarkFailed, SetRun
  <1>2. CASE Block(w) \/ MarkProcessing(w)
    <2>1. PICK status \in Statuses, at \in {"blocked", "collect"}, from \in {"block", "start"} :
             /\ SetRun(w, from, [Row(w) EXCEPT !.status = status], at)
             /\ at = "collect" => from = "start"
      BY <1>2 DEF Block, MarkProcessing, Statuses
    <2>2. PICK row : row = [Row(w) EXCEPT !.status = status]
      OBVIOUS
    <2>3. row \in Run /\ Alike(row, Row(w)) /\ row.package = Row(w).package
      BY <1>1, <2>2, RowOf DEF Run, Alike
    <2>4. Rests(row)
      BY <1>1, <2>3, RowOf DEF Rests
    <2>5. at \in Checked \/ at \in Writing => {"agent", "candidate"} \subseteq work[w].seen
      BY <1>1, <2>1, RowOf DEF SetRun, Fits, Checked, Writing
    <2> QED
      BY <2>1, <2>2, <2>3, <2>4, <2>5, SetRunStep DEF Labels
  <1>3. CASE CollectRefused(w) \/ PackageRefused(w)
    <2>1. PICK from \in {"collect", "complete"} :
             SetRun(w, from, [Row(w) EXCEPT !.refused = TRUE], "catch")
      BY <1>3 DEF CollectRefused, PackageRefused, Refuse
    <2>2. PICK row : row = [Row(w) EXCEPT !.refused = TRUE]
      OBVIOUS
    <2>3. row \in Run /\ Alike(row, Row(w)) /\ row.package = Row(w).package
      BY <1>1, <2>2, RowOf DEF Run, Alike
    <2>4. Rests(row)
      BY <1>1, <2>3, RowOf DEF Rests
    <2> QED
      BY <2>1, <2>2, <2>3, <2>4, SetRunStep DEF Labels, Checked, Writing
  <1>4. CASE MarkFailed(w)
    <2>1. PICK row : row = [Row(w) EXCEPT !.status = "FAILED", !.package = NoPackage]
      OBVIOUS
    <2>2. row \in Run /\ Alike(row, Row(w)) /\ row.package = NoPackage
      BY <1>1, <2>1, RowOf DEF Run, Alike, Made, Statuses
    <2>3. Rests(row)
      BY <2>2 DEF Rests
    <2> QED
      BY <1>4, <2>1, <2>2, <2>3, SetRunStep DEF MarkFailed, Labels, Checked, Writing
  <1> QED
    BY <1>2, <1>3, <1>4

\* What the provider returned is proven.
LEMMA CollectStep ==
    ASSUME Inv, NEW w \in Workers, Collect(w)
    PROVE  Inv'
  <1>1. work[w].at = "collect"
    BY DEF Collect
  <1>2. PICK keys \in Seq(Keys) : keys = Row(w).fixture
    BY <1>1, RowOf, Bounds DEF Run
  <1>3. PICK todo : todo = [i \in DOMAIN keys |-> [key |-> keys[i], stale |-> keys[i] \in old]]
    OBVIOUS
  <1>4. PICK at \in {"complete", "find"} : at = IF keys = <<>> THEN "complete" ELSE "find"
    OBVIOUS
  <1>5. /\ todo \in Seq(Views) /\ (keys # <<>> => todo # <<>>)
        /\ \A i \in DOMAIN todo : todo[i].key = keys[i] /\ i \in DOMAIN keys
    <2>1. \A i \in DOMAIN keys : keys[i] \in Keys
      BY <1>2
    <2>2. \A i \in DOMAIN keys : [key |-> keys[i], stale |-> keys[i] \in old] \in Views
      BY <2>1 DEF Views
    <2>3. DOMAIN keys = 1 .. Len(keys) /\ Len(keys) \in Nat
      BY <1>2
    <2>4. todo \in Seq(Views) /\ Len(todo) = Len(keys)
      BY <1>3, <2>2, <2>3
    <2>5. keys # <<>> => Len(keys) # 0
      BY <1>2
    <2> QED
      BY <1>3, <2>4, <2>5
  <1>6. PICK to : to = [work[w] EXCEPT !.at = at, !.todo = todo]
    OBVIOUS
  <1>7. work[w] \in Work /\ Fits(work[w])
    BY <1>1, RowOf
  <1>8. /\ to \in Work /\ to.run = work[w].run /\ to.sync = work[w].sync /\ to.at = at
        /\ to.todo = todo /\ to.views = work[w].views /\ to.seen = work[w].seen
    BY <1>5, <1>6, <1>7 DEF Work
  <1>9. \A i \in DOMAIN todo : Info[todo[i].key].proven
    BY <1>2, <1>5 DEF Collect, Sanitizes
  <1>10. Fits(to)
    BY <1>1, <1>4, <1>5, <1>7, <1>8, <1>9 DEF Fits, Persisted, Checked, Writing
  <1>11. /\ work' = [work EXCEPT ![w] = to]
         /\ UNCHANGED <<runs, findings, others, req>>
    BY <1>2, <1>3, <1>4, <1>6 DEF Collect
  <1>12. Grown
    BY <1>11, SameFindings
  <1>13. (Fits(to))'
    BY <1>10, <1>11, <1>12, FitsKept
  <1> QED
    BY <1>1, <1>4, <1>8, <1>11, <1>12, <1>13, WorkerOnly

\* The rest of a sequence and a sequence with one element more.
LEMMA Rest ==
    ASSUME NEW S, NEW s \in Seq(S), s # <<>>
    PROVE  /\ Tail(s) \in Seq(S)
           /\ Len(s) # 1 => Tail(s) # <<>>
           /\ \A i \in DOMAIN Tail(s) : i + 1 \in DOMAIN s /\ Tail(s)[i] = s[i + 1]
  <1>1. /\ Tail(s) \in Seq(S) /\ Len(Tail(s)) = Len(s) - 1
        /\ \A i \in 1 .. Len(Tail(s)) : Tail(s)[i] = s[i + 1]
    BY HeadTailProperties
  <1>2. DOMAIN s = 1 .. Len(s) /\ DOMAIN Tail(s) = 1 .. Len(Tail(s)) /\ Len(s) \in Nat
    BY <1>1
  <1>3. Len(s) # 1 => Len(Tail(s)) # 0
    BY <1>1, <1>2
  <1>4. Len(<<>>) = 0
    OBVIOUS
  <1>5. Len(s) # 1 => Tail(s) # <<>>
    BY <1>3, <1>4
  <1>6. \A i \in DOMAIN Tail(s) : i + 1 \in DOMAIN s
    BY <1>1, <1>2
  <1> QED
    BY <1>1, <1>2, <1>5, <1>6

LEMMA OneMore ==
    ASSUME NEW S, NEW s \in Seq(S), NEW e \in S
    PROVE  /\ Append(s, e) \in Seq(S)
           /\ \A i \in DOMAIN Append(s, e) :
                 Append(s, e)[i] = e \/ (i \in DOMAIN s /\ Append(s, e)[i] = s[i])
  <1>1. PICK t \in Seq(S) : t = Append(s, e)
    BY AppendProperties
  <1>2. /\ Len(t) = Len(s) + 1 /\ t[Len(s) + 1] = e
        /\ \A i \in 1 .. Len(s) : t[i] = s[i]
    BY <1>1, AppendProperties
  <1>3. DOMAIN s = 1 .. Len(s) /\ DOMAIN t = 1 .. Len(t) /\ Len(s) \in Nat
    OBVIOUS
  <1>4. \A i \in DOMAIN t : i = Len(s) + 1 \/ i \in DOMAIN s
    BY <1>2, <1>3
  <1> QED
    BY <1>1, <1>2, <1>3, <1>4

\* A finding has been seen to, and its view is as it is persisted now.
LEMMA NextStep ==
    ASSUME Inv, NEW w \in Workers, work[w].at \in {"find", "persist"},
           NEW view \in Views, NextFinding(w, view),
           Grown, UNCHANGED <<runs, others, req>>,
           view.key \in DOMAIN findings', view.stale = findings'[view.key],
           Info[view.key].proven
    PROVE  Inv'
  <1>1. PICK x \in Work : x = work[w] /\ Fits(x) /\ x.at \in {"find", "persist"} /\ x.todo # <<>>
    BY RowOf DEF Fits
  <1>2. x.todo \in Seq(Views) /\ x.views \in Seq(Views)
    BY DEF Work
  <1>3. PICK todo \in Seq(Views) :
             /\ todo = Tail(x.todo) /\ (Len(x.todo) # 1 => todo # <<>>)
             /\ \A i \in DOMAIN todo : i + 1 \in DOMAIN x.todo /\ todo[i] = x.todo[i + 1]
    <2>1. /\ Tail(x.todo) \in Seq(Views) /\ (Len(x.todo) # 1 => Tail(x.todo) # <<>>)
          /\ \A i \in DOMAIN Tail(x.todo) :
                i + 1 \in DOMAIN x.todo /\ Tail(x.todo)[i] = x.todo[i + 1]
      BY <1>1, <1>2, Rest
    <2>2. PICK todo : todo = Tail(x.todo)
      OBVIOUS
    <2> QED
      BY <2>1, <2>2
  <1>4. PICK views \in Seq(Views) :
             /\ views = Append(x.views, view)
             /\ \A i \in DOMAIN views : \/ views[i] = view
                                        \/ i \in DOMAIN x.views /\ views[i] = x.views[i]
    <2>1. /\ Append(x.views, view) \in Seq(Views)
          /\ \A i \in DOMAIN Append(x.views, view) :
                \/ Append(x.views, view)[i] = view
                \/ i \in DOMAIN x.views /\ Append(x.views, view)[i] = x.views[i]
      BY <1>2, OneMore
    <2>2. PICK views : views = Append(x.views, view)
      OBVIOUS
    <2> QED
      BY <2>1, <2>2
  <1>5. PICK at \in {"complete", "find"} : at = IF Len(x.todo) = 1 THEN "complete" ELSE "find"
    OBVIOUS
  <1>6. PICK to : to = [x EXCEPT !.at = at, !.todo = todo, !.views = views]
    OBVIOUS
  <1>7. /\ to \in Work /\ to.run = x.run /\ to.sync = x.sync /\ to.at = at
        /\ to.todo = todo /\ to.views = views /\ to.seen = x.seen
    BY <1>6 DEF Work
  <1>8. work' = [work EXCEPT ![w] = to]
    BY <1>1, <1>3, <1>4, <1>5, <1>6 DEF NextFinding
  <1>9. (Persisted(views))'
    <2>1. PICK before : before = x.views /\ Persisted(before)
      BY <1>1 DEF Fits
    <2>2. (Persisted(before))'
      BY <2>1, GrownKeeps
    <2>3. \A i \in DOMAIN views : \/ views[i] = view
                                  \/ i \in DOMAIN before /\ views[i] = before[i]
      BY <1>4, <2>1
    <2> QED
      BY <2>2, <2>3 DEF Persisted
  <1>10. \A i \in DOMAIN todo : Info[todo[i].key].proven
    BY <1>1, <1>3 DEF Fits
  <1>11. (Fits(to))'
    <2>1. to.run \in DOMAIN runs' /\ Permits' = Permits /\ Permits \subseteq to.seen
      BY <1>1, <1>7 DEF Fits, others, Permits, Researchable
    <2>2. "agent" \in to.seen /\ "candidate" \in to.seen
      BY <1>1, <1>7 DEF Fits, Checked, Writing
    <2>3. to.at \in {"find", "persist"} => to.todo # <<>>
      BY <1>3, <1>5, <1>7
    <2> QED
      BY <1>7, <1>9, <1>10, <2>1, <2>2, <2>3 DEF Fits
  <1> QED
    BY <1>1, <1>5, <1>7, <1>8, <1>11, WorkerOnly

\* Its first finding is a view of a proven finding.
LEMMA HeadOf ==
    ASSUME Inv, NEW w \in Workers, work[w].at \in {"find", "persist"}
    PROVE  /\ Head(work[w].todo) \in Views /\ Head(work[w].todo).key \in Keys
           /\ Head(work[w].todo).stale \in BOOLEAN
           /\ Info[Head(work[w].todo).key].proven /\ work[w].todo # <<>>
  <1>1. work[w] \in Work /\ Fits(work[w])
    BY RowOf
  <1>2. work[w].todo \in Seq(Views) /\ work[w].todo # <<>>
    BY <1>1 DEF Work, Fits
  <1>3. 1 \in DOMAIN work[w].todo /\ Head(work[w].todo) = work[w].todo[1]
    BY <1>2
  <1>4. Head(work[w].todo) \in Views
    BY <1>2
  <1> QED
    BY <1>1, <1>2, <1>3, <1>4 DEF Fits, Views

\* A finding that exists is reused as it was persisted.
LEMMA FindStep ==
    ASSUME Inv, NEW w \in Workers, Find(w)
    PROVE  Inv'
  <1>1. work[w].at = "find" /\ UNCHANGED <<runs, findings, others, req>> /\ Grown
    BY SameFindings DEF Find
  <1>2. CASE Known(w)
    <2>1. PICK k \in Keys : k = Head(work[w].todo).key
      BY <1>1, HeadOf
    <2>2. k \in DOMAIN findings /\ findings[k] \in BOOLEAN /\ Info[k].proven
      BY <1>1, <1>2, <2>1, HeadOf DEF Known, Inv, Typed
    <2>3. PICK view : view = [key |-> k, stale |-> findings[k]]
      OBVIOUS
    <2>4. view \in Views /\ view.key = k /\ view.stale = findings[k]
      BY <2>2, <2>3 DEF Views
    <2>5. NextFinding(w, view)
      BY <1>2, <2>1, <2>3 DEF Find
    <2> QED
      BY <1>1, <2>2, <2>4, <2>5, NextStep
  <1>3. CASE ~Known(w)
    <2>1. Goes(w, "persist")
      BY <1>3 DEF Find
    <2>2. {"agent", "candidate"} \subseteq work[w].seen
      BY <1>1, RowOf DEF Fits, Checked, Writing
    <2> QED
      BY <1>1, <2>1, <2>2, HeadOf, GoesStep DEF Labels
  <1> QED
    BY <1>2, <1>3

\* A new finding grows the table; a known one is refused by its index.
LEMMA PersistStep ==
    ASSUME Inv, NEW w \in Workers, Persist(w)
    PROVE  Inv' /\ Grown
  <1>1. work[w].at = "persist" /\ UNCHANGED <<runs, others, req>>
    BY DEF Persist
  <1>2. CASE Known(w)
    <2>1. Goes(w, "catch") /\ UNCHANGED findings
      BY <1>2 DEF Persist
    <2> QED
      BY <1>1, <2>1, SameFindings, GoesStep DEF Labels, Checked, Writing
  <1>3. CASE ~Known(w)
    <2>1. PICK f \in Views : f = Head(work[w].todo)
      BY <1>1, HeadOf
    <2>2. f.key \in Keys /\ f.stale \in BOOLEAN /\ Info[f.key].proven
      BY <1>1, <2>1, HeadOf
    <2>3. /\ findings' = [k \in DOMAIN findings \union {f.key} |->
                             IF k = f.key THEN f.stale ELSE findings[k]]
          /\ NextFinding(w, f) /\ f.key \notin DOMAIN findings
      BY <1>3, <2>1 DEF Persist, Known
    <2>4. /\ DOMAIN findings \subseteq Keys
          /\ \A k \in DOMAIN findings : findings[k] \in BOOLEAN
      BY DEF Inv, Typed
    <2>5. Grown
      BY <2>2, <2>3, <2>4 DEF Grown
    <2>6. f.key \in DOMAIN findings' /\ f.stale = findings'[f.key]
      BY <2>3
    <2> QED
      BY <1>1, <2>2, <2>3, <2>5, <2>6, NextStep
  <1> QED
    BY <1>2, <1>3

\* The package is made of the findings that the worker has seen to.
LEMMA CompleteStep ==
    ASSUME Inv, NEW w \in Workers, Complete(w)
    PROVE  Inv'
  <1>1. work[w].at = "complete"
    BY DEF Complete, SetRun
  <1>2. PICK views \in Seq(Views) : views = work[w].views /\ Persisted(views)
    BY <1>1, RowOf DEF Work, Fits
  <1>3. PICK package \in Made : package = Package(Sorted(views))
    BY <1>2 DEF Made
  <1>4. PICK row : row = [Row(w) EXCEPT !.status = "COMPLETED", !.package = package]
    OBVIOUS
  <1>5. row \in Run /\ Alike(row, Row(w)) /\ row.package = package
    BY <1>1, <1>3, <1>4, RowOf DEF Run, Alike, Statuses
  <1>6. Rests(row)
    BY <1>2, <1>3, <1>5 DEF Rests
  <1>7. SetRun(w, "complete", row, "completed")
    BY <1>2, <1>3, <1>4 DEF Complete
  <1> QED
    BY <1>5, <1>6, <1>7, SetRunStep DEF Labels, Checked, Writing

LEMMA ThrowsStep ==
    ASSUME Inv, NEW w \in Workers, ResearchThrows(w)
    PROVE  Inv'
  <1>1. PICK at \in {"catch", "attempt_failed"} : Goes(w, at)
    BY DEF ResearchThrows
  <1>2. work[w].at # "idle" /\ UNCHANGED <<runs, findings, others, req>>
    BY DEF ResearchThrows
  <1> QED
    BY <1>1, <1>2, GoesStep DEF Labels, Checked, Writing

LEMMA DiesStep ==
    ASSUME Inv, NEW w \in Workers, WorkerDies(w)
    PROVE  Inv'
  BY EndStep DEF WorkerDies

------------------------------------------------------------------------------
LEMMA ExecuteStep ==
    ASSUME Inv, NEW w \in Workers, Execute(w)
    PROVE  Inv'
  BY CheckStep, StatusStep, CollectStep, FindStep, PersistStep, CompleteStep, SettledStep
     DEF Execute

LEMMA NextInv == Inv /\ [Next]_vars => Inv'
  <1> SUFFICES ASSUME Inv, [Next]_vars PROVE Inv'
    OBVIOUS
  <1>1. CASE \E a \in Admins : Start(a) \/ GoOn(a) \/ RequestThrows(a)
    BY <1>1, StartStep, AddJobStep, RunSyncStep, RequestThrowsStep DEF GoOn
  <1>2. CASE \E w \in Workers : Execute(w) \/ ResearchThrows(w) \/ WorkerDies(w)
    BY <1>2, ExecuteStep, ThrowsStep, DiesStep
  <1>3. CASE \E r \in DOMAIN runs : Reclaim(r) \/ \E w \in Workers : Take(w, r)
    BY <1>3, ReclaimStep, TakeStep
  <1>4. CASE Decide \/ Switch \/ BrainTurns \/ Age
    BY <1>4, TurnStep
  <1>5. CASE UNCHANGED vars
    BY <1>5 DEF vars, Inv, Typed, Fits, Held, Rests, Counted, Persisted, Permits, Researchable
  <1> QED
    BY <1>1, <1>2, <1>3, <1>4, <1>5 DEF Next

\* The inductive invariant: the types, what reaching a label of executeResearch has
\* established, who owns a queued job, and that packages rest on persisted, proven findings.
THEOREM Invariance == Spec => []Inv
  BY InitInv, NextInv, PTL DEF Spec

------------------------------------------------------------------------------
(* Only Persist and Complete write, behind both checks.                      *)
Quiet ==
    /\ UNCHANGED findings
    /\ \A r \in DOMAIN runs : runs'[r].package \in {runs[r].package, NoPackage}

LEMMA QuietRow ==
    ASSUME Inv, UNCHANGED findings, NEW r \in DOMAIN runs, NEW row,
           runs' = [runs EXCEPT ![r] = row], row.package \in {runs[r].package, NoPackage}
    PROVE  Quiet
  <1>1. runs \in Seq(Run)
    BY DEF Inv, Typed
  <1> QED
    BY <1>1 DEF Quiet

LEMMA RequestsQuiet ==
    ASSUME Inv, NEW a \in Admins, Start(a) \/ GoOn(a) \/ RequestThrows(a)
    PROVE  Quiet
  <1>1. CASE Start(a)
    <2>1. PICK row : runs' = Append(runs, row)
      BY <1>1 DEF Start
    <2>2. runs \in Seq(Run)
      BY DEF Inv, Typed
    <2>3. \A i \in DOMAIN runs : runs'[i] = runs[i]
      BY <2>1, <2>2
    <2> QED
      BY <1>1, <2>3 DEF Quiet, Start
  <1>2. CASE AddJob(a)
    <2>1. PICK r \in DOMAIN runs : r = req[a].run /\ runs[r] \in Run
      BY <1>2 DEF Inv, Typed, AddJob
    <2>2. PICK row : row = [runs[r] EXCEPT !.state = "waiting"]
      OBVIOUS
    <2>3. row.package = runs[r].package
      BY <2>1, <2>2 DEF Run
    <2> QED
      BY <1>2, <2>1, <2>2, <2>3, QuietRow DEF AddJob
  <1>3. CASE RequestThrows(a) \/ \E w \in Workers : RunSync(a, w)
    BY <1>3 DEF Quiet, RequestThrows, RunSync
  <1> QED
    BY <1>1, <1>2, <1>3 DEF GoOn

LEMMA QueueQuiet ==
    ASSUME Inv, NEW r \in DOMAIN runs, Reclaim(r) \/ \E w \in Workers : Take(w, r)
    PROVE  Quiet
  <1>1. runs[r] \in Run
    BY DEF Inv, Typed
  <1>2. PICK state, stalled, owner :
           /\ runs' = [runs EXCEPT ![r] = [runs[r] EXCEPT !.state = state, !.stalled = stalled,
                                                          !.owner = owner]]
           /\ UNCHANGED findings
    <2>1. CASE Reclaim(r)
      BY <2>1 DEF Reclaim
    <2>2. CASE \E w \in Workers : Take(w, r)
      <3>1. PICK w \in Workers : Take(w, r)
        BY <2>2
      <3>2. [runs[r] EXCEPT !.state = "active", !.owner = w]
               = [runs[r] EXCEPT !.state = "active", !.stalled = runs[r].stalled, !.owner = w]
        BY <1>1 DEF Run
      <3>3. /\ runs' = [runs EXCEPT ![r] = [runs[r] EXCEPT !.state = "active",
                                               !.stalled = runs[r].stalled, !.owner = w]]
            /\ UNCHANGED findings
        BY <3>1, <3>2 DEF Take
      <3> QED
        BY <3>3
    <2> QED
      BY <2>1, <2>2
  <1>3. PICK row : row = [runs[r] EXCEPT !.state = state, !.stalled = stalled, !.owner = owner]
    OBVIOUS
  <1>4. row.package = runs[r].package
    BY <1>1, <1>3 DEF Run
  <1> QED
    BY <1>2, <1>3, <1>4, QuietRow

LEMMA WorkersQuiet ==
    ASSUME Inv, NEW w \in Workers, Execute(w) \/ ResearchThrows(w) \/ WorkerDies(w)
    PROVE  Quiet \/ Persist(w) \/ Complete(w)
  <1>1. ASSUME UNCHANGED <<runs, findings>> PROVE Quiet
    BY <1>1 DEF Quiet
  <1>2. ASSUME NEW row, work[w].at # "idle", row.package \in {Row(w).package, NoPackage},
               runs' = [runs EXCEPT ![work[w].run] = row], UNCHANGED findings
        PROVE  Quiet
    <2>1. PICK r \in DOMAIN runs : r = work[w].run /\ Row(w) = runs[r]
      BY <1>2, RowOf
    <2>2. runs' = [runs EXCEPT ![r] = row] /\ row.package \in {runs[r].package, NoPackage}
      BY <1>2, <2>1
    <2> QED
      BY <1>2, <2>2, QuietRow
  <1>3. ASSUME NEW status, NEW refused, work[w].at # "idle",
               runs' = [runs EXCEPT ![work[w].run] =
                           [Row(w) EXCEPT !.status = status, !.refused = refused]],
               UNCHANGED findings
        PROVE  Quiet
    <2>1. PICK row : row = [Row(w) EXCEPT !.status = status, !.refused = refused]
      OBVIOUS
    <2>2. row.package \in {Row(w).package, NoPackage}
      BY <1>3, <2>1, RowOf DEF Run
    <2>3. runs' = [runs EXCEPT ![work[w].run] = row]
      BY <1>3, <2>1
    <2>4. work[w].at # "idle" /\ UNCHANGED findings
      BY <1>3
    <2> QED
      BY <1>2, <2>2, <2>3, <2>4
  <1>4. CASE CheckPaused(w) \/ CheckCandidate(w) \/ Collect(w) \/ Find(w) \/ ResearchThrows(w)
             \/ WorkerDies(w)
    BY <1>1, <1>4 DEF CheckPaused, CheckCandidate, Collect, Find, ResearchThrows, WorkerDies
  <1>5. CASE Block(w) \/ MarkProcessing(w)
    <2>1. PICK status : /\ runs' = [runs EXCEPT ![work[w].run] = [Row(w) EXCEPT !.status = status]]
                        /\ work[w].at # "idle" /\ UNCHANGED findings
      BY <1>5 DEF Block, MarkProcessing, SetRun
    <2>2. [Row(w) EXCEPT !.status = status]
             = [Row(w) EXCEPT !.status = status, !.refused = Row(w).refused]
      BY <2>1, RowOf DEF Run
    <2> QED
      BY <1>3, <2>1, <2>2
  <1>6. CASE CollectRefused(w) \/ PackageRefused(w)
    <2>1. /\ runs' = [runs EXCEPT ![work[w].run] = [Row(w) EXCEPT !.refused = TRUE]]
          /\ work[w].at # "idle" /\ UNCHANGED findings
      BY <1>6 DEF CollectRefused, PackageRefused, Refuse, SetRun
    <2>2. [Row(w) EXCEPT !.refused = TRUE]
             = [Row(w) EXCEPT !.status = Row(w).status, !.refused = TRUE]
      BY <2>1, RowOf DEF Run
    <2> QED
      BY <1>3, <2>1, <2>2
  <1>7. CASE MarkFailed(w)
    <2>1. PICK row : row = [Row(w) EXCEPT !.status = "FAILED", !.package = NoPackage]
      OBVIOUS
    <2>2. /\ runs' = [runs EXCEPT ![work[w].run] = row]
          /\ work[w].at # "idle" /\ UNCHANGED findings
      BY <1>7, <2>1 DEF MarkFailed, SetRun
    <2>3. row.package \in {Row(w).package, NoPackage}
      BY <2>1, <2>2, RowOf DEF Run
    <2> QED
      BY <1>2, <2>2, <2>3
  <1>8. CASE JobCompleted(w) \/ AttemptFailed(w)
    <2>1. PICK made, state : /\ Settle(w, [Row(w) EXCEPT !.made = made, !.state = state])
                             /\ work[w].at # "idle"
      <3>1. CASE JobCompleted(w)
        <4>1. [Row(w) EXCEPT !.state = "completed"]
                 = [Row(w) EXCEPT !.made = Row(w).made, !.state = "completed"]
          BY <3>1, RowOf DEF JobCompleted, Run
        <4> QED
          BY <3>1, <4>1 DEF JobCompleted
      <3>2. CASE AttemptFailed(w)
        BY <3>2 DEF AttemptFailed
      <3> QED
        BY <1>8, <3>1, <3>2
    <2>2. PICK row : row = IF work[w].sync THEN Row(w)
                           ELSE [Row(w) EXCEPT !.made = made, !.state = state, !.owner = NoWorker]
      OBVIOUS
    <2>3. row.package \in {Row(w).package, NoPackage}
      BY <2>1, <2>2, RowOf DEF Run
    <2>4. runs' = [runs EXCEPT ![work[w].run] = row] /\ UNCHANGED findings
      BY <2>1, <2>2 DEF Settle, Row
    <2> QED
      BY <1>2, <2>1, <2>3, <2>4
  <1> QED
    BY <1>4, <1>5, <1>6, <1>7, <1>8 DEF Execute

Permitted == \A w \in Workers : work'[w] # work[w] => work[w].seen = {"agent", "candidate"}

LEMMA WritersPermitted ==
    ASSUME Inv, NEW w \in Workers, Persist(w) \/ Complete(w)
    PROVE  Permitted
  <1>1. work[w].at \in {"persist", "complete"}
    BY DEF Persist, Complete, SetRun
  <1>2. work[w].seen = {"agent", "candidate"}
    BY <1>1, RowOf DEF Fits, Work, Checked, Writing
  <1>3. \A v \in Workers : v # w => work'[v] = work[v]
    BY DEF Persist, Complete, SetRun, Goes, NextFinding, Inv, Typed
  <1> QED
    BY <1>2, <1>3 DEF Permitted

\* "Approval is checked at enqueue and again when the worker executes", "queued jobs fail
\* closed": whatever is switched, decided, lost or retried while a run is under way, an attempt
\* writes findings or a package only if since it began the agent was running at some moment
\* and the candidate approved.
THEOREM Permission == Spec => ResearchIsPermitted
  <1>1. ASSUME Quiet PROVE ~Writes
    BY <1>1 DEF Quiet, Writes
  <1>2. ASSUME Inv, [Next]_vars PROVE [Writes => Permitted]_vars
    <2>1. CASE \E a \in Admins : Start(a) \/ GoOn(a) \/ RequestThrows(a)
      BY <1>1, <1>2, <2>1, RequestsQuiet
    <2>2. CASE \E w \in Workers : Execute(w) \/ ResearchThrows(w) \/ WorkerDies(w)
      BY <1>1, <1>2, <2>2, WorkersQuiet, WritersPermitted
    <2>3. CASE \E r \in DOMAIN runs : Reclaim(r) \/ \E w \in Workers : Take(w, r)
      BY <1>1, <1>2, <2>3, QueueQuiet
    <2>4. CASE Decide \/ Switch \/ BrainTurns \/ Age
      <3>1. UNCHANGED <<runs, findings>>
        BY <2>4 DEF Decide, Switch, BrainTurns, Age, Turn
      <3> QED
        BY <1>1, <3>1 DEF Quiet
    <2>5. CASE UNCHANGED vars
      BY <2>5
    <2> QED
      BY <1>2, <2>1, <2>2, <2>3, <2>4, <2>5 DEF Next
  <1> QED
    BY <1>2, Invariance, PTL DEF Spec, ResearchIsPermitted, Permitted

------------------------------------------------------------------------------
(* Sorted rearranges: the places of the findings are a permutation.          *)
Before(views, i, j) ==
    \/ Weight(views[i]) > Weight(views[j])
    \/ Weight(views[i]) = Weight(views[j]) /\ i < j
Earlier(views, i) == {j \in DOMAIN views : Before(views, j, i)}
Place(views, i) == 1 + Cardinality(Earlier(views, i))

LEMMA SortedIs ==
    ASSUME NEW views
    PROVE  Sorted(views) =
              [p \in DOMAIN views |-> views[CHOOSE i \in DOMAIN views : Place(views, i) = p]]
  BY DEF Sorted, Place, Earlier, Before

LEMMA Weights ==
    ASSUME NEW views \in Seq(Views)
    PROVE  \A i \in DOMAIN views : Weight(views[i]) \in Int
  <1> SUFFICES ASSUME NEW i \in DOMAIN views PROVE Weight(views[i]) \in Int
    OBVIOUS
  <1>1. views[i] \in Views
    OBVIOUS
  <1>2. views[i].key \in Keys
    BY <1>1 DEF Views
  <1>3. /\ Info[views[i].key].confidence \in 0 .. 100
        /\ Info[views[i].key].relevance \in 0 .. 100
    BY <1>2, PackageAssumption
  <1>4. \A x, y \in 0 .. 100 : x * y \in Int
    OBVIOUS
  <1> QED
    BY <1>3, <1>4 DEF Weight

LEMMA EarlierCounts ==
    ASSUME NEW views \in Seq(Views), NEW i \in DOMAIN views
    PROVE  /\ IsFiniteSet(Earlier(views, i)) /\ Cardinality(Earlier(views, i)) \in Nat
           /\ Place(views, i) \in 1 .. Len(views)
  <1>1. DOMAIN views = 1 .. Len(views) /\ Len(views) \in Nat
    OBVIOUS
  <1>2. IsFiniteSet(DOMAIN views) /\ Cardinality(DOMAIN views) = Len(views)
    <2>1. PICK n \in Nat : n = Len(views) /\ DOMAIN views = 1 .. n
      BY <1>1
    <2>2. IsFiniteSet(1 .. n) /\ Cardinality(1 .. n) = IF 1 > n THEN 0 ELSE n - 1 + 1
      BY FS_Interval
    <2>3. Cardinality(1 .. n) = n
      BY <2>2
    <2> QED
      BY <2>1, <2>2, <2>3
  <1>3. Earlier(views, i) \in SUBSET DOMAIN views /\ i \notin Earlier(views, i)
    BY Weights DEF Earlier, Before
  <1>4. /\ IsFiniteSet(Earlier(views, i)) /\ Cardinality(Earlier(views, i)) <= Len(views)
        /\ Cardinality(Earlier(views, i)) # Len(views)
    BY <1>2, <1>3, FS_Subset
  <1>5. Cardinality(Earlier(views, i)) \in Nat
    BY <1>4, FS_CardinalityType
  <1> QED
    BY <1>1, <1>4, <1>5 DEF Place

LEMMA EarlierPlace ==
    ASSUME NEW views \in Seq(Views), NEW i \in DOMAIN views, NEW j \in DOMAIN views,
           Before(views, i, j)
    PROVE  Place(views, i) < Place(views, j)
  <1>1. i \in Int /\ j \in Int /\ DOMAIN views \subseteq Int
    OBVIOUS
  <1>2. Earlier(views, i) \in SUBSET Earlier(views, j)
    BY <1>1, Weights DEF Earlier, Before
  <1>3. i \in Earlier(views, j) /\ i \notin Earlier(views, i)
    BY Weights DEF Earlier, Before
  <1>4. /\ Cardinality(Earlier(views, i)) <= Cardinality(Earlier(views, j))
        /\ Cardinality(Earlier(views, i)) # Cardinality(Earlier(views, j))
    BY <1>2, <1>3, EarlierCounts, FS_Subset
  <1> QED
    BY <1>4, EarlierCounts DEF Place

LEMMA EveryPlace ==
    ASSUME NEW views \in Seq(Views), NEW p \in DOMAIN views
    PROVE  \E i \in DOMAIN views : Place(views, i) = p
  <1>1. PICK f : f = [i \in DOMAIN views |-> Place(views, i)]
    OBVIOUS
  <1>2. DOMAIN views = 1 .. Len(views) /\ Len(views) \in Nat
    OBVIOUS
  <1>3. IsFiniteSet(DOMAIN views)
    BY <1>2, FS_Interval
  <1>4. f \in [DOMAIN views -> DOMAIN views]
    BY <1>1, <1>2, EarlierCounts
  <1>5. \A i, j \in DOMAIN views : i # j => f[i] # f[j]
    <2> SUFFICES ASSUME NEW i \in DOMAIN views, NEW j \in DOMAIN views, i # j
                 PROVE  f[i] # f[j]
      OBVIOUS
    <2>1. Before(views, i, j) \/ Before(views, j, i)
      BY <1>2, Weights DEF Before
    <2>2. Place(views, i) \in Int /\ Place(views, j) \in Int
      BY <1>2, EarlierCounts
    <2> QED
      BY <1>1, <2>1, <2>2, EarlierPlace
  <1>6. f \in Injection(DOMAIN views, DOMAIN views)
    BY <1>4, <1>5 DEF Injection, IsInjective
  <1>7. f \in Surjection(DOMAIN views, DOMAIN views)
    BY <1>3, <1>6, FS_Injection
  <1>8. \E i \in DOMAIN views : f[i] = p
    BY <1>7 DEF Surjection
  <1> QED
    BY <1>1, <1>8

LEMMA SortedRearranges ==
    ASSUME NEW views \in Seq(Views)
    PROVE  /\ Sorted(views) \in Seq(Views) /\ DOMAIN Sorted(views) = DOMAIN views
           /\ \A p \in DOMAIN views : \E i \in DOMAIN views : Sorted(views)[p] = views[i]
           /\ \A i \in DOMAIN views : \E p \in DOMAIN views : Sorted(views)[p] = views[i]
  <1>1. \A p \in DOMAIN views : \E i \in DOMAIN views :
           Place(views, i) = p /\ Sorted(views)[p] = views[i]
    BY SortedIs, EveryPlace
  <1>2. \A i \in DOMAIN views : Place(views, i) \in DOMAIN views
    BY EarlierCounts
  <1>3. \A i, j \in DOMAIN views : Place(views, i) = Place(views, j) => i = j
    <2> SUFFICES ASSUME NEW i \in DOMAIN views, NEW j \in DOMAIN views, i # j
                 PROVE  Place(views, i) # Place(views, j)
      OBVIOUS
    <2>1. Before(views, i, j) \/ Before(views, j, i)
      BY Weights DEF Before
    <2>2. Place(views, i) \in Int /\ Place(views, j) \in Int
      BY EarlierCounts
    <2> QED
      BY <2>1, <2>2, EarlierPlace
  <1>4. \A i \in DOMAIN views : Sorted(views)[Place(views, i)] = views[i]
    BY <1>1, <1>2, <1>3
  <1>5. /\ DOMAIN Sorted(views) = 1 .. Len(views) /\ Len(views) \in Nat
        /\ DOMAIN views = 1 .. Len(views)
    BY SortedIs
  <1>6. Sorted(views) = [p \in 1 .. Len(views) |-> Sorted(views)[p]]
    BY <1>5, SortedIs
  <1>7. \A p \in 1 .. Len(views) : Sorted(views)[p] \in Views
    BY <1>1, <1>5
  <1>8. Sorted(views) \in Seq(Views)
    BY <1>5, <1>6, <1>7
  <1> QED
    BY <1>1, <1>2, <1>4, <1>5, <1>8

------------------------------------------------------------------------------
(* What a package is made of.                                               *)

\* Filtered keeps elements of the sequence that are of the kind.
LEMMA FilteredKeeps ==
    ASSUME NEW views \in Seq(Views), NEW kind
    PROVE  /\ Filtered(views, kind) \in Seq(Views)
           /\ \A p \in DOMAIN Filtered(views, kind) :
                 /\ Filtered(views, kind)[p] \in kind
                 /\ \E i \in DOMAIN views : Filtered(views, kind)[p] = views[i]
  <1> DEFINE h == CHOOSE g : g = [i \in 0 .. Len(views) |->
                      IF i = 0 THEN <<>>
                      ELSE IF views[i] \in kind THEN Append(g[i - 1], views[i]) ELSE g[i - 1]]
             Kept == {v \in kind : \E i \in DOMAIN views : v = views[i]}
             Next1(i, t) == IF i \in 1 .. Len(views) /\ views[i] \in kind THEN Append(t, views[i]) ELSE t
  <1>1. Filtered(views, kind) = h[Len(views)]
    BY DEF Filtered
  <1>2. DOMAIN views = 1 .. Len(views) /\ Len(views) \in Nat
    OBVIOUS
  <1>3. PICK D : D = [i \in Nat |-> [t \in Seq(Kept) |-> Next1(i, t)]]
    OBVIOUS
  <1>4. D \in [Nat -> [Seq(Kept) -> Seq(Kept)]]
    <2>1. ASSUME NEW i \in Nat, NEW t \in Seq(Kept) PROVE Next1(i, t) \in Seq(Kept)
      <3>1. CASE i \in 1 .. Len(views) /\ views[i] \in kind
        <4>1. views[i] \in Kept
          BY <1>2, <3>1
        <4>2. Append(t, views[i]) \in Seq(Kept)
          BY <4>1
        <4> QED
          BY <3>1, <4>2
      <3>2. CASE ~(i \in 1 .. Len(views) /\ views[i] \in kind)
        BY <3>2
      <3> QED
        BY <3>1, <3>2
    <2> HIDE DEF Kept, Next1
    <2> QED
      BY <1>3, <2>1
  <1>5. <<>> \in Seq(Kept)
    OBVIOUS
  <1>6. PICK f : IsRun(f, Seq(Kept), <<>>, D, Len(views))
    <2> HIDE DEF Kept
    <2> QED
      BY <1>2, <1>4, <1>5, Recursion, Zenon
  <1>7. f = [i \in 0 .. Len(views) |->
                IF i = 0 THEN <<>>
                ELSE IF views[i] \in kind THEN Append(f[i - 1], views[i]) ELSE f[i - 1]]
    <2>1. f \in [0 .. Len(views) -> Seq(Kept)] /\ f[0] = <<>>
      BY <1>6 DEF IsRun
    <2>2. ASSUME NEW i \in 1 .. Len(views)
          PROVE  f[i] = IF views[i] \in kind THEN Append(f[i - 1], views[i]) ELSE f[i - 1]
      <3>1. i \in Nat /\ i - 1 \in 0 .. Len(views)
        BY <1>2
      <3>2. f[i - 1] \in Seq(Kept)
        <4> HIDE DEF Kept
        <4> QED
          BY <2>1, <3>1
      <3>3. f[i] = D[i][f[i - 1]]
        BY <1>6 DEF IsRun
      <3>4. D[i][f[i - 1]] = Next1(i, f[i - 1])
        <4> HIDE DEF Kept, Next1
        <4> QED
          BY <1>3, <3>1, <3>2
      <3> QED
        BY <3>3, <3>4
    <2>3. \A i \in 0 .. Len(views) : i = 0 \/ i \in 1 .. Len(views)
      BY <1>2
    <2> HIDE DEF Kept, Next1
    <2> QED
      BY <2>1, <2>2, <2>3
  <1>8. h = [i \in 0 .. Len(views) |->
                IF i = 0 THEN <<>>
                ELSE IF views[i] \in kind THEN Append(h[i - 1], views[i]) ELSE h[i - 1]]
    BY <1>7, Zenon
  <1> HIDE DEF h
  <1>9. \A i \in 0 .. Len(views) : h[i] = f[i]
    <2> DEFINE Same == {n \in Nat : n <= Len(views) => h[n] = f[n]}
    <2>1. 0 \in Same
      BY <1>7, <1>8
    <2>2. ASSUME NEW n \in Nat, n \in Same PROVE n + 1 \in Same
      <3> SUFFICES ASSUME n + 1 <= Len(views) PROVE h[n + 1] = f[n + 1]
        OBVIOUS
      <3>1. n + 1 \in 0 .. Len(views) /\ n + 1 # 0 /\ (n + 1) - 1 = n /\ h[n] = f[n]
        BY <1>2, <2>2
      <3>2. h[n + 1] = IF views[n + 1] \in kind THEN Append(h[n], views[n + 1]) ELSE h[n]
        BY <1>8, <3>1
      <3>3. f[n + 1] = IF views[n + 1] \in kind THEN Append(f[n], views[n + 1]) ELSE f[n]
        BY <1>7, <3>1
      <3> QED
        BY <3>1, <3>2, <3>3
    <2>3. Nat \subseteq Same
      <3> HIDE DEF Same
      <3> QED
        BY <2>1, <2>2, SetInduction
    <2> QED
      BY <1>2, <2>3
  <1>10. Filtered(views, kind) \in Seq(Kept)
    <2>1. Len(views) \in 0 .. Len(views)
      BY <1>2
    <2> HIDE DEF Kept
    <2> QED
      BY <1>1, <1>6, <1>9, <2>1 DEF IsRun
  <1>11. Kept \subseteq Views
    OBVIOUS
  <1> QED
    BY <1>10, <1>11

\* The first n of a sequence are elements of it, in their places.
LEMMA ShorterTypes ==
    ASSUME NEW S, NEW n \in Nat, NEW s \in Seq(S)
    PROVE  /\ FirstOf(n, s) \in Seq(S)
           /\ \A i \in DOMAIN FirstOf(n, s) : i \in DOMAIN s /\ FirstOf(n, s)[i] = s[i]
  <1>1. CASE Len(s) <= n
    BY <1>1 DEF FirstOf
  <1>2. CASE ~(Len(s) <= n)
    <2>1. FirstOf(n, s) = SubSeq(s, 1, n) /\ Len(s) \in Nat
      BY <1>2 DEF FirstOf
    <2>2. SubSeq(s, 1, n) = [i \in 1 .. n |-> s[i]] /\ \A i \in 1 .. n : i \in DOMAIN s
      BY <1>2, <2>1
    <2> QED
      BY <2>1, <2>2
  <1> QED
    BY <1>1, <1>2

LEMMA KeyTypes ==
    ASSUME NEW s \in Seq(Views)
    PROVE  KeysOf(s) \in Seq(Keys)
  <1>1. DOMAIN s = 1 .. Len(s) /\ Len(s) \in Nat
    OBVIOUS
  <1>2. \A i \in DOMAIN s : s[i] \in Views
    OBVIOUS
  <1>3. \A v \in Views : v.key \in Keys
    BY DEF Views
  <1> QED
    BY <1>1, <1>2, <1>3 DEF KeysOf

LEMMA FirstIs ==
    ASSUME NEW s \in Seq(Views), NEW types, SomeOf(s, types)
    PROVE  First(s, types) \in Views
  <1> DEFINE T == {i \in DOMAIN s : TypeOf(s[i]) \in types}
  <1>1. T # {} /\ T \subseteq Nat
    BY DEF SomeOf, InViews
  <1>2. PICK i \in T : \A j \in T : i <= j
    <2> HIDE DEF T
    <2> QED
      BY <1>1, LeastNatural
  <1>3. \A j \in 1 .. i - 1 : TypeOf(s[j]) \notin types
    <2> SUFFICES ASSUME NEW j \in 1 .. i - 1, TypeOf(s[j]) \in types PROVE FALSE
      OBVIOUS
    <2>1. j \in DOMAIN s /\ j < i
      BY <1>2
    <2> QED
      BY <1>2, <2>1
  <1>4. \E k \in DOMAIN s : /\ TypeOf(s[k]) \in types
                            /\ \A j \in 1 .. k - 1 : TypeOf(s[j]) \notin types
    BY <1>2, <1>3
  <1> HIDE DEF T
  <1>5. (CHOOSE k \in DOMAIN s : /\ TypeOf(s[k]) \in types
                                 /\ \A j \in 1 .. k - 1 : TypeOf(s[j]) \notin types) \in DOMAIN s
    BY <1>4, Zenon
  <1> QED
    BY <1>5 DEF First

LEMMA AngleTypes ==
    ASSUME NEW s \in Seq(Views)
    PROVE  Angle(s) \in SUBSET Keys
  <1>1. \A v \in Views : v.key \in Keys
    BY DEF Views
  <1>2. CASE SomeOf(s, {"OUTREACH_HOOK", "CRM_CHANGE"})
    BY <1>1, <1>2, FirstIs DEF Angle, SomeOf
  <1>3. CASE ~SomeOf(s, {"OUTREACH_HOOK", "CRM_CHANGE"}) /\ SomeOf(s, {"ICP_RELEVANCE"})
    BY <1>1, <1>3, FirstIs DEF Angle, SomeOf
  <1>4. CASE ~SomeOf(s, {"OUTREACH_HOOK", "CRM_CHANGE", "ICP_RELEVANCE"})
    <2>1. ~SomeOf(s, {"OUTREACH_HOOK", "CRM_CHANGE"}) /\ ~SomeOf(s, {"ICP_RELEVANCE"})
      BY <1>4 DEF SomeOf
    <2>2. Angle(s) = IF s = <<>> THEN {} ELSE {s[1].key}
      BY <1>4, <2>1 DEF Angle
    <2>3. s # <<>> => s[1] \in Views
      OBVIOUS
    <2> QED
      BY <1>1, <2>2, <2>3
  <1>5. SomeOf(s, {"OUTREACH_HOOK", "CRM_CHANGE", "ICP_RELEVANCE"}) =>
            SomeOf(s, {"OUTREACH_HOOK", "CRM_CHANGE"}) \/ SomeOf(s, {"ICP_RELEVANCE"})
    BY DEF SomeOf
  <1> QED
    BY <1>2, <1>3, <1>4, <1>5

\* A package, of whatever findings.
LEMMA PackageTypes ==
    ASSUME NEW s \in Seq(Views)
    PROVE  Package(s) \in Packages
  <1>1. KeysOf(s) \in Seq(Keys)
    BY KeyTypes
  <1>2. KeysOf(FirstOf(MaxKey, s)) \in Seq(Keys)
    BY PackageAssumption, ShorterTypes, KeyTypes
  <1>3. KeysOf(Risks(s)) \in Seq(Keys)
    BY FilteredKeeps, KeyTypes DEF Risks
  <1>4. KeysOf(SupportingPoints(s)) \in Seq(Keys)
    BY PackageAssumption, FilteredKeeps, ShorterTypes, KeyTypes DEF SupportingPoints
  <1>5. KeysOf(PersonalizationFacts(s)) \in Seq(Keys)
    BY PackageAssumption, FilteredKeeps, ShorterTypes, KeyTypes DEF PersonalizationFacts
  <1>6. {v.key : v \in {x \in InViews(s) : Info[x.key].person}} \in SUBSET Keys
    <2>1. \A v \in Views : v.key \in Keys
      BY DEF Views
    <2>2. InViews(s) \subseteq Views
      BY DEF InViews
    <2> QED
      BY <2>1, <2>2
  <1>7. DoNotClaim(s) \in SUBSET {"funding", "crm", "named contact", "activity",
                                  "stale as recent", "certainty", "only the positive"}
    BY DEF DoNotClaim
  <1>8. Angle(s) \in SUBSET Keys
    BY AngleTypes
  <1> QED
    BY <1>1, <1>2, <1>3, <1>4, <1>5, <1>6, <1>7, <1>8 DEF Package, Packages

\* What a package says of the findings that it was made of.
LEMMA PackageSays ==
    ASSUME Inv, NEW views \in Seq(Views), NEW package, package = Package(Sorted(views))
    PROVE  /\ ElementsOf(package.findingIds) = {views[i].key : i \in DOMAIN views}
           /\ ElementsOf(package.keyFindings) \subseteq ElementsOf(package.findingIds)
           /\ "stale as recent" \in package.doNotClaim <=> \E i \in DOMAIN views : views[i].stale
  <1>1. PICK sorted \in Seq(Views) :
           /\ sorted = Sorted(views) /\ DOMAIN sorted = DOMAIN views
           /\ \A p \in DOMAIN views : \E i \in DOMAIN views : sorted[p] = views[i]
           /\ \A i \in DOMAIN views : \E p \in DOMAIN views : sorted[p] = views[i]
    BY SortedRearranges
  <1>2. /\ package.findingIds = KeysOf(sorted) /\ package.doNotClaim = DoNotClaim(sorted)
        /\ package.keyFindings = KeysOf(FirstOf(MaxKey, sorted))
    BY <1>1 DEF Package
  <1>3. ElementsOf(package.findingIds) = {views[i].key : i \in DOMAIN views}
    <2>1. ElementsOf(package.findingIds) = {sorted[p].key : p \in DOMAIN sorted}
      BY <1>2 DEF ElementsOf, KeysOf
    <2>2. ASSUME NEW p \in DOMAIN sorted PROVE sorted[p].key \in {views[i].key : i \in DOMAIN views}
      BY <1>1
    <2>3. ASSUME NEW i \in DOMAIN views PROVE views[i].key \in {sorted[p].key : p \in DOMAIN sorted}
      <3>1. PICK p \in DOMAIN sorted : sorted[p] = views[i]
        BY <1>1
      <3>2. views[i].key = sorted[p].key
        BY <3>1
      <3> QED
        BY <3>2
    <2> QED
      BY <2>1, <2>2, <2>3
  <1>4. \A i \in DOMAIN FirstOf(MaxKey, sorted) :
           i \in DOMAIN sorted /\ FirstOf(MaxKey, sorted)[i] = sorted[i]
    BY PackageAssumption DEF FirstOf
  <1>5. ElementsOf(package.keyFindings) \subseteq ElementsOf(package.findingIds)
    BY <1>2, <1>4 DEF ElementsOf, KeysOf
  <1>6. "stale as recent" \in DoNotClaim(sorted) <=> SomeStale(sorted)
    BY DEF DoNotClaim
  <1>7. SomeStale(sorted) <=> \E i \in DOMAIN views : views[i].stale
    <2>1. SomeStale(sorted) <=> \E p \in DOMAIN sorted : sorted[p].stale
      BY DEF SomeStale, InViews
    <2>2. ASSUME NEW p \in DOMAIN sorted, sorted[p].stale
          PROVE  \E i \in DOMAIN views : views[i].stale
      <3>1. PICK i \in DOMAIN views : sorted[p] = views[i]
        BY <1>1
      <3> QED
        BY <2>2, <3>1
    <2>3. ASSUME NEW i \in DOMAIN views, views[i].stale
          PROVE  \E p \in DOMAIN sorted : sorted[p].stale
      <3>1. PICK p \in DOMAIN sorted : sorted[p] = views[i]
        BY <1>1
      <3> QED
        BY <2>3, <3>1
    <2> QED
      BY <2>1, <2>2, <2>3
  <1> QED
    BY <1>2, <1>3, <1>5, <1>6, <1>7

LEMMA FactsAre ==
    ASSUME NEW views \in Seq(Views), NEW package, package = Package(Sorted(views)),
           NEW k \in ElementsOf(package.personalizationFacts)
    PROVE  \E i \in DOMAIN views : views[i].key = k /\ ~views[i].stale /\ Info[k].explicit
  <1>1. PICK sorted \in Seq(Views) :
           /\ sorted = Sorted(views) /\ DOMAIN sorted = DOMAIN views
           /\ \A p \in DOMAIN views : \E i \in DOMAIN views : sorted[p] = views[i]
    BY SortedRearranges
  <1>2. package.personalizationFacts = KeysOf(FirstOf(MaxFacts, Filtered(sorted, Personal)))
    BY <1>1 DEF Package, PersonalizationFacts
  <1>3. Filtered(sorted, Personal) \in Seq(Views) /\ MaxFacts \in Nat
    BY FilteredKeeps, PackageAssumption
  <1>4. PICK p \in DOMAIN FirstOf(MaxFacts, Filtered(sorted, Personal)) :
           k = FirstOf(MaxFacts, Filtered(sorted, Personal))[p].key
    BY <1>2 DEF ElementsOf, KeysOf
  <1>5. p \in DOMAIN Filtered(sorted, Personal) /\ k = Filtered(sorted, Personal)[p].key
    BY <1>3, <1>4, ShorterTypes
  <1>6. PICK v : v = Filtered(sorted, Personal)[p]
    OBVIOUS
  <1>7. v \in Personal /\ \E q \in DOMAIN sorted : v = sorted[q]
    BY <1>5, <1>6, FilteredKeeps
  <1>8. \E i \in DOMAIN views : v = views[i]
    BY <1>1, <1>7
  <1> QED
    BY <1>5, <1>6, <1>7, <1>8 DEF Personal

\* Every package of every run, whatever runs shared, reused, retried or lost, is made of
\* persisted, proven findings ("every factual finding needs excerpt and/or source
\* metadata"), flags stale ones exactly if some was persisted as stale, and takes its
\* personalization facts from those persisted as explicit and fresh (buildResearchPackage).
THEOREM PackagesGrounded == Spec => []PackageIsGrounded
  <1>1. ASSUME Inv PROVE PackageIsGrounded
    <2> SUFFICES ASSUME NEW r \in DOMAIN runs, runs[r].package # NoPackage
                 PROVE  RestsOnFindings(runs[r].package) /\ HasFreshFacts(runs[r].package)
      BY DEF PackageIsGrounded
    <2>1. PICK package : package = runs[r].package
      OBVIOUS
    <2>2. PICK views \in Seq(Views) : package = Package(Sorted(views)) /\ Persisted(views)
      BY <1>1, <2>1 DEF Inv, Rests
    <2>3. /\ ElementsOf(package.findingIds) = {views[i].key : i \in DOMAIN views}
          /\ ElementsOf(package.keyFindings) \subseteq ElementsOf(package.findingIds)
          /\ "stale as recent" \in package.doNotClaim <=> \E i \in DOMAIN views : views[i].stale
      BY <1>1, <2>2, PackageSays
    <2>4. {views[i].key : i \in DOMAIN views} \subseteq {k \in DOMAIN findings : Info[k].proven}
      BY <2>2 DEF Persisted
    <2>5. (\E k \in {views[i].key : i \in DOMAIN views} : findings[k])
             <=> \E i \in DOMAIN views : views[i].stale
      BY <2>2 DEF Persisted
    <2>6. RestsOnFindings(package)
      BY <2>3, <2>4, <2>5 DEF RestsOnFindings
    <2>7. HasFreshFacts(package)
      <3> SUFFICES ASSUME NEW k \in ElementsOf(package.personalizationFacts)
                   PROVE  k \in ElementsOf(package.findingIds) /\ ~findings[k] /\ Info[k].explicit
        BY DEF HasFreshFacts
      <3>1. PICK i \in DOMAIN views : views[i].key = k /\ ~views[i].stale /\ Info[k].explicit
        BY <2>2, FactsAre
      <3>2. views[i].stale = findings[k]
        BY <2>2, <3>1 DEF Persisted
      <3> QED
        BY <2>3, <3>1, <3>2
    <2> QED
      BY <2>1, <2>6, <2>7
  <1> QED
    BY <1>1, Invariance, PTL

------------------------------------------------------------------------------
(* Types.                                                                   *)

\* Those that Inv does without.
World ==
    /\ candidate \in {"approved", "rejected"}
    /\ paused \in BOOLEAN /\ ready \in BOOLEAN
    /\ turns \in Nat
    /\ mishaps \in [faults : Nat, restarts : Nat]

\* How a step changes them.
Changes ==
    /\ candidate' \in {candidate, "approved", "rejected"}
    /\ paused' \in {paused, ~paused} /\ ready' \in {ready, ~ready}
    /\ turns' \in {turns, turns + 1}
    /\ mishaps' \in {mishaps, [mishaps EXCEPT !["faults"] = @ + 1],
                     [mishaps EXCEPT !["restarts"] = @ + 1]}

\* Every step changes them so.
LEMMA StepsChange == [Next]_vars => Changes
  <1> SUFFICES ASSUME [Next]_vars PROVE Changes
    OBVIOUS
  <1>1. ASSUME NEW a \in Admins, Start(a) \/ GoOn(a) \/ RequestThrows(a)
        PROVE  Changes
    <2>1. CASE Start(a) \/ AddJob(a)
      BY <2>1 DEF Start, AddJob, Changes, others
    <2>2. CASE \E w \in Workers : RunSync(a, w)
      BY <2>2 DEF RunSync, Changes, others
    <2>3. CASE RequestThrows(a)
      BY <2>3 DEF RequestThrows, Mishap, Changes, others
    <2> QED
      BY <1>1, <2>1, <2>2, <2>3 DEF GoOn
  <1>2. ASSUME NEW w \in Workers, Execute(w) \/ ResearchThrows(w) \/ WorkerDies(w)
        PROVE  Changes
    <2>1. CASE CheckPaused(w) \/ CheckCandidate(w) \/ Block(w) \/ MarkProcessing(w) \/ MarkFailed(w)
      BY <2>1 DEF CheckPaused, CheckCandidate, Block, MarkProcessing, MarkFailed, SetRun,
                  Changes, others
    <2>2. CASE Collect(w) \/ CollectRefused(w) \/ Find(w) \/ Persist(w)
      BY <2>2 DEF Collect, CollectRefused, Refuse, SetRun, Find, Persist, Changes, others
    <2>3. CASE Complete(w) \/ PackageRefused(w)
      BY <2>3 DEF Complete, PackageRefused, Refuse, SetRun, Changes, others
    <2>4. CASE JobCompleted(w) \/ AttemptFailed(w)
      BY <2>4 DEF JobCompleted, AttemptFailed, Settle, Changes, others
    <2>5. CASE ResearchThrows(w) \/ WorkerDies(w)
      BY <2>5 DEF ResearchThrows, WorkerDies, Mishap, Changes, others
    <2> QED
      BY <1>2, <2>1, <2>2, <2>3, <2>4, <2>5 DEF Execute
  <1>3. CASE \E r \in DOMAIN runs : Reclaim(r) \/ \E w \in Workers : Take(w, r)
    BY <1>3 DEF Reclaim, Take, Changes, others
  <1>4. CASE Decide \/ Switch \/ BrainTurns \/ Age
    BY <1>4 DEF Decide, Switch, BrainTurns, Age, Turn, Changes
  <1>5. CASE UNCHANGED vars
    BY <1>5 DEF vars, Changes
  <1> QED
    BY <1>1, <1>2, <1>3, <1>4, <1>5 DEF Next

LEMMA WorldStays == World /\ Changes => World'
  <1> SUFFICES ASSUME World, Changes PROVE World'
    OBVIOUS
  <1>1. candidate' \in {"approved", "rejected"} /\ turns' \in Nat
    BY DEF World, Changes
  <1>2. paused' \in BOOLEAN /\ ready' \in BOOLEAN
    BY Zenon DEF World, Changes
  <1>3. mishaps' \in [faults : Nat, restarts : Nat]
    BY DEF World, Changes
  <1> QED
    BY <1>1, <1>2, <1>3 DEF World

\* The types, of what a package holds, too.
THEOREM Typing == Spec => []TypeOK
  <1>1. Init => World
    <2> SUFFICES ASSUME Init PROVE World
      OBVIOUS
    <2>1. paused \in BOOLEAN /\ ready \in BOOLEAN
      BY Zenon DEF Init
    <2>2. candidate \in {"approved", "rejected"} /\ turns \in Nat
      BY DEF Init
    <2>3. mishaps \in [faults : Nat, restarts : Nat]
      BY DEF Init
    <2> QED
      BY <2>1, <2>2, <2>3 DEF World
  <1>2. World /\ [Next]_vars => World'
    BY StepsChange, WorldStays
  <1>3. Spec => []World
    BY <1>1, <1>2, PTL DEF Spec
  <1>4. Inv /\ World => TypeOK
    <2> SUFFICES ASSUME Inv, World PROVE TypeOK
      OBVIOUS
    <2>1. \A package \in Made : package \in Packages \union {NoPackage}
      <3> SUFFICES ASSUME NEW views \in Seq(Views) PROVE Package(Sorted(views)) \in Packages
        BY DEF Made
      <3>1. PICK sorted \in Seq(Views) : sorted = Sorted(views)
        BY SortedRearranges
      <3> QED
        BY <3>1, PackageTypes
    <2>2. \A row \in Run : row \in Rows
      BY <2>1 DEF Run, Rows
    <2>3. runs \in Seq(Rows)
      BY <2>2 DEF Inv, Typed
    <2>4. {paused, ready} \subseteq BOOLEAN
      BY Zenon DEF World
    <2> QED
      BY <2>3, <2>4 DEF Inv, Typed, World, TypeOK
  <1> QED
    BY <1>3, <1>4, Invariance, PTL
==============================================================================
