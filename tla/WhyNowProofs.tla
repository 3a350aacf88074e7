---------------------------- MODULE WhyNowProofs -----------------------------
(***************************************************************************)
(* Proofs about WhyNow for every number of requests, workers, jobs, signals,  *)
(* days and mishaps, and every brain, candidate and kind of signal.  The      *)
(* inductive invariant Inv adds to SnapshotCoversEvidence the types but for    *)
(* what the scores are (Typed), and that what an execution has to see is       *)
(* persisted and in what it read (Sees); Scored adds that the evidence is      *)
(* finite and that a snapshot's scores are those of its evidence.  The rest    *)
(* is arithmetic: the sums of the scores, of more or of older evidence.       *)
(***************************************************************************)
EXTENDS WhyNow, SequenceTheorems, DataInduction

\* A snapshot, its scores any that the table holds.
Assessed == {Scores(c, s, d) : c \in Candidates, s \in SUBSET Signals, d \in Days}
Shot == [job : 0 .. MaxJobs, signals : SUBSET Signals, known : SUBSET Signals, day : Days,
         scores : Assessed]

\* A process at a job is the one its worker took it for.
Held(p) ==
    work[p].job # 0 => /\ work[p].job \in DOMAIN jobs /\ work[p].at # "idle"
                       /\ jobs[work[p].job].state = "active" /\ jobs[work[p].job].owner = p

Counted(j) ==
    jobs[j].state # "failed" => jobs[j].made < MaxAttempts /\ jobs[j].stalled <= MaxStalled

\* What process p is at: signals left to see to, and what it has to see.
Sees(p) ==
    /\ work[p].at \in {"find", "persist"} => work[p].todo # <<>>
    /\ work[p].known \subseteq signals /\ work[p].signals \subseteq signals
    /\ work[p].at = "create" => work[p].known \subseteq work[p].signals

Typed ==
    /\ candidate \in Candidates /\ day \in Days
    /\ signals \subseteq Signals
    /\ snapshots \in Seq(Shot)
    /\ jobs \in Seq(Jobs) /\ Len(jobs) <= MaxJobs
    /\ work \in [Procs -> Work]
    /\ \A j \in DOMAIN jobs : Counted(j)
    /\ \A p \in Procs : Held(p)

Inv == Typed /\ (\A p \in Procs : Sees(p)) /\ SnapshotCoversEvidence

------------------------------------------------------------------------------
LEMMA Bounds ==
    /\ MaxStalled \in Nat /\ MaxAttempts \in Nat \ {0} /\ MaxJobs \in Nat
    /\ NoWorker \notin Workers /\ 0 \in Days
    /\ Batches \subseteq Seq(Kinds) /\ Fixtures \subseteq Seq(Kinds)
  BY WhyNowAssumption

LEMMA NoWorkTypes ==
    /\ NoWork \in Work /\ NoWork.at = "idle" /\ NoWork.job = 0
    /\ NoWork.known = {} /\ NoWork.signals = {}
  BY Bounds DEF NoWork, Work

LEMMA DatedTypes ==
    ASSUME NEW kinds \in Seq(Kinds), day \in Days
    PROVE  Dated(kinds) \in Seq(Signals) /\ (kinds # <<>> => Dated(kinds) # <<>>)
  <1>1. \A i \in 1 .. Len(kinds) : DatedOn(kinds[i], day) \in Signals
    BY DEF Signals
  <1>2. Dated(kinds) \in [1 .. Len(kinds) -> Signals]
    BY <1>1 DEF Dated
  <1>3. Dated(kinds) \in Seq(Signals) /\ Len(Dated(kinds)) = Len(kinds)
    BY <1>2
  <1> QED
    BY <1>3

LEMMA InitInv == Init => Inv
  <1> SUFFICES ASSUME Init PROVE Inv
    OBVIOUS
  <1>1. Typed
    BY NoWorkTypes, Bounds DEF Init, Typed, Counted, Held
  <1>2. \A p \in Procs : Sees(p)
    BY NoWorkTypes DEF Init, Sees
  <1>3. SnapshotCoversEvidence
    BY DEF Init, SnapshotCoversEvidence
  <1> QED
    BY <1>1, <1>2, <1>3 DEF Inv

------------------------------------------------------------------------------
(* What the steps have in common.                                           *)

\* A process goes on; signals are only added, and snapshots stay or are covered.
LEMMA GoesOn ==
    ASSUME Inv, NEW p \in Procs, NEW to \in Work,
           work' = [work EXCEPT ![p] = to],
           (to.job = work[p].job /\ to.at # "idle") \/ to.job = 0,
           to.at \in {"find", "persist"} => to.todo # <<>>,
           signals \subseteq signals', signals' \subseteq Signals,
           to.known \subseteq signals', to.signals \subseteq signals',
           to.at = "create" => to.known \subseteq to.signals,
           snapshots' \in Seq(Shot), SnapshotCoversEvidence',
           UNCHANGED <<jobs, candidate, day>>
    PROVE  Inv'
  <1>1. work \in [Procs -> Work] /\ work' \in [Procs -> Work]
    BY DEF Inv, Typed
  <1>2. \A q \in Procs : Held(q)'
    BY <1>1 DEF Inv, Typed, Held
  <1>3. \A q \in Procs : Sees(q)'
    BY <1>1 DEF Inv, Sees
  <1>4. Typed'
    BY <1>1, <1>2 DEF Inv, Typed, Counted
  <1> QED
    BY <1>3, <1>4 DEF Inv

LEMMA SnapshotsStay ==
    ASSUME Inv, UNCHANGED snapshots, signals \subseteq signals'
    PROVE  snapshots' \in Seq(Shot) /\ SnapshotCoversEvidence'
  BY DEF Inv, Typed, SnapshotCoversEvidence

\* Process q is not at job j, or owns it.
Leaves(q, j, row) ==
    \/ work'[q] = work[q] /\ work[q].job # j
    \/ work'[q].job = 0
    \/ work'[q].job = j /\ work'[q].at # "idle" /\ row.state = "active" /\ row.owner = q

\* Job j becomes row; no process is left at it but, perhaps, owner w.
LEMMA JobSet ==
    ASSUME Inv, NEW j \in DOMAIN jobs, NEW row \in Jobs,
           jobs' = [jobs EXCEPT ![j] = row],
           row.state # "failed" => row.made < MaxAttempts /\ row.stalled <= MaxStalled,
           work' \in [Procs -> Work],
           \A q \in Procs : (Sees(q))',
           \A q \in Procs : Leaves(q, j, row),
           UNCHANGED <<candidate, signals, snapshots, day>>
    PROVE  Inv'
  <1>1. jobs \in Seq(Jobs) /\ jobs' \in Seq(Jobs) /\ DOMAIN jobs' = DOMAIN jobs
        /\ Len(jobs') = Len(jobs) /\ jobs'[j] = row
        /\ \A i \in DOMAIN jobs : i # j => jobs'[i] = jobs[i]
    BY DEF Inv, Typed
  <1>2. \A i \in DOMAIN jobs' : Counted(i)'
    BY <1>1 DEF Inv, Typed, Counted
  <1>3. \A q \in Procs : Held(q)'
    BY <1>1 DEF Inv, Typed, Held, Leaves
  <1>4. \A q \in Procs : Sees(q)'
    OBVIOUS
  <1>5. snapshots' \in Seq(Shot) /\ SnapshotCoversEvidence'
    BY SnapshotsStay
  <1>6. Typed'
    BY <1>1, <1>2, <1>3, <1>5 DEF Inv, Typed
  <1> QED
    BY <1>4, <1>5, <1>6 DEF Inv

------------------------------------------------------------------------------
(* Requests and the queue.                                                  *)
LEMMA RequestStep ==
    ASSUME Inv, NEW a \in Admins, Ingest(a) \/ ScoreNow(a)
    PROVE  Inv'
  <1>1. a \in Procs /\ day \in Days /\ signals \subseteq Signals
    BY DEF Procs, Inv, Typed
  <1>2. CASE Ingest(a)
    <2>1. PICK batch \in Batches :
             Request(a, [NoWork EXCEPT !.at = IF batch = <<>> THEN "done" ELSE "find",
                                       !.todo = Dated(batch)])
      BY <1>2 DEF Ingest
    <2>2. Dated(batch) \in Seq(Signals) /\ (batch # <<>> => Dated(batch) # <<>>)
      BY <1>1, Bounds, DatedTypes
    <2>3. PICK to : to = [NoWork EXCEPT !.at = IF batch = <<>> THEN "done" ELSE "find",
                                        !.todo = Dated(batch)]
      OBVIOUS
    <2>4. Request(a, to)
      BY <2>1, <2>3
    <2>5. /\ to \in Work /\ to.job = 0 /\ to.known = {} /\ to.signals = {}
          /\ to.at \in {"done", "find"} /\ (to.at = "find" => to.todo # <<>>)
      BY <2>2, <2>3, NoWorkTypes DEF Work
    <2> QED
      BY <1>1, <2>4, <2>5, SnapshotsStay, GoesOn DEF Request, world
  <1>3. CASE ScoreNow(a)
    <2>1. PICK fixture \in Fixtures :
             Request(a, [NoWork EXCEPT !.at = "brain", !.scores = TRUE, !.fixture = fixture,
                                       !.known = signals])
      BY <1>3 DEF ScoreNow
    <2>2. PICK to : to = [NoWork EXCEPT !.at = "brain", !.scores = TRUE, !.fixture = fixture,
                                        !.known = signals]
      OBVIOUS
    <2>3. to \in Work /\ to.job = 0 /\ to.known = signals /\ to.signals = {} /\ to.at = "brain"
      BY <1>1, <2>2, NoWorkTypes DEF Work
    <2>4. Request(a, to)
      BY <2>1, <2>2
    <2> QED
      BY <1>1, <2>3, <2>4, SnapshotsStay, GoesOn DEF Request, world
  <1> QED
    BY <1>2, <1>3

LEMMA ScoreLaterStep ==
    ASSUME Inv, ScoreLater
    PROVE  Inv'
  <1>1. PICK fixture \in Fixtures :
           jobs' = Append(jobs, [fixture |-> fixture, state |-> "waiting", made |-> 0,
                                 stalled |-> 0, owner |-> NoWorker, refused |-> FALSE])
    BY DEF ScoreLater
  <1>2. PICK row \in Jobs : /\ jobs' = Append(jobs, row)
                            /\ row.made = 0 /\ row.stalled = 0
    <2>1. [fixture |-> fixture, state |-> "waiting", made |-> 0,
           stalled |-> 0, owner |-> NoWorker, refused |-> FALSE] \in Jobs
      BY Bounds DEF Jobs
    <2> QED
      BY <1>1, <2>1
  <1>3. /\ jobs \in Seq(Jobs) /\ jobs' \in Seq(Jobs) /\ Len(jobs') <= MaxJobs
        /\ \A i \in DOMAIN jobs : i \in DOMAIN jobs' /\ jobs'[i] = jobs[i]
        /\ \A i \in DOMAIN jobs' : i \in DOMAIN jobs \/ jobs'[i] = row
    BY <1>2, Bounds DEF Inv, Typed, ScoreLater
  <1>4. \A i \in DOMAIN jobs' : Counted(i)'
    BY <1>2, <1>3, Bounds DEF Inv, Typed, Counted
  <1>5. \A p \in Procs : Held(p)'
    BY <1>3 DEF Inv, Typed, Held, ScoreLater
  <1>6. \A p \in Procs : Sees(p)'
    BY DEF Inv, Sees, ScoreLater
  <1>7. snapshots' \in Seq(Shot) /\ SnapshotCoversEvidence'
    BY SnapshotsStay DEF ScoreLater
  <1>8. Typed'
    BY <1>3, <1>4, <1>5, <1>7 DEF Inv, Typed, ScoreLater, world
  <1> QED
    BY <1>6, <1>7, <1>8 DEF Inv

LEMMA TakeStep ==
    ASSUME Inv, NEW w \in Workers, NEW j \in DOMAIN jobs, Take(w, j)
    PROVE  Inv'
  <1>1. /\ w \in Procs /\ jobs \in Seq(Jobs) /\ jobs[j] \in Jobs /\ j \in 1 .. MaxJobs
        /\ work \in [Procs -> Work] /\ signals \subseteq Signals
    BY Bounds DEF Procs, Inv, Typed
  <1>2. PICK row : row = [jobs[j] EXCEPT !.state = "active", !.owner = w]
    OBVIOUS
  <1>3. /\ row \in Jobs /\ row.state = "active" /\ row.owner = w
        /\ row.made = jobs[j].made /\ row.stalled = jobs[j].stalled
    BY <1>1, <1>2 DEF Jobs
  <1>4. jobs' = [jobs EXCEPT ![j] = row]
    BY <1>2 DEF Take
  <1>5. row.state # "failed" => row.made < MaxAttempts /\ row.stalled <= MaxStalled
    BY <1>3 DEF Inv, Typed, Counted, Take
  <1>6. PICK to : to = [NoWork EXCEPT !.at = "brain", !.job = j, !.scores = TRUE,
                                      !.fixture = jobs[j].fixture, !.known = signals]
    OBVIOUS
  <1>7. to \in Work /\ to.at = "brain" /\ to.job = j /\ to.known = signals /\ to.signals = {}
    <2>1. jobs[j].fixture \in Fixtures /\ j \in 0 .. MaxJobs
      BY <1>1, Bounds DEF Jobs
    <2> QED
      BY <1>1, <1>6, <2>1, NoWorkTypes DEF Work
  <1>8. work' = [work EXCEPT ![w] = to] /\ work' \in [Procs -> Work]
    BY <1>1, <1>6, <1>7 DEF Take
  <1>9. \A q \in Procs : q # w => work'[q] = work[q] /\ work[q].job # j
    BY <1>1, <1>8 DEF Inv, Typed, Held, Take
  <1>10. \A q \in Procs : (Sees(q))'
    BY <1>1, <1>7, <1>8, <1>9 DEF Inv, Sees, Take
  <1>11. \A q \in Procs : Leaves(q, j, row)
    BY <1>1, <1>3, <1>7, <1>8, <1>9 DEF Leaves
  <1>12. UNCHANGED <<candidate, signals, snapshots, day>>
    BY DEF Take, world
  <1> QED
    BY <1>3, <1>4, <1>5, <1>8, <1>10, <1>11, <1>12, JobSet

LEMMA ReclaimStep ==
    ASSUME Inv, NEW j \in DOMAIN jobs, Reclaim(j)
    PROVE  Inv'
  <1>1. jobs \in Seq(Jobs) /\ jobs[j] \in Jobs /\ work \in [Procs -> Work]
    BY DEF Inv, Typed
  <1>2. PICK state \in {"waiting", "failed"} :
           state = IF jobs[j].stalled < MaxStalled THEN "waiting" ELSE "failed"
    OBVIOUS
  <1>3. PICK row : row = [jobs[j] EXCEPT !.state = state, !.stalled = jobs[j].stalled + 1,
                                         !.owner = NoWorker]
    OBVIOUS
  <1>4. jobs[j].stalled \in 0 .. MaxStalled /\ jobs[j].made < MaxAttempts
    BY <1>1 DEF Inv, Typed, Counted, Reclaim, Jobs
  <1>5. /\ row \in Jobs /\ row.state = state
        /\ row.made = jobs[j].made /\ row.stalled = jobs[j].stalled + 1
    <2>1. jobs[j].stalled + 1 \in 0 .. MaxStalled + 1
      BY <1>4, Bounds
    <2> QED
      BY <1>1, <1>3, <2>1 DEF Jobs
  <1>6. jobs' = [jobs EXCEPT ![j] = row]
    BY <1>1, <1>2, <1>3 DEF Reclaim
  <1>7. row.state # "failed" => row.made < MaxAttempts /\ row.stalled <= MaxStalled
    BY <1>2, <1>4, <1>5, Bounds
  <1>8. \A q \in Procs : Leaves(q, j, row)
    BY <1>1 DEF Inv, Typed, Held, Reclaim, Holds, Leaves
  <1>11. \A q \in Procs : (Sees(q))'
    BY DEF Inv, Sees, Reclaim
  <1>9. work' \in [Procs -> Work]
    BY <1>1 DEF Reclaim
  <1>10. UNCHANGED <<candidate, signals, snapshots, day>>
    BY DEF Reclaim, world
  <1> QED
    BY <1>5, <1>6, <1>7, <1>8, <1>9, <1>10, <1>11, JobSet

------------------------------------------------------------------------------
(* Processes.                                                               *)
LEMMA ProcessTypes ==
    ASSUME Inv, NEW p \in Procs
    PROVE  /\ work[p] \in Work /\ Sees(p) /\ Held(p)
           /\ work \in [Procs -> Work] /\ signals \subseteq Signals
  BY DEF Inv, Typed

\* Another label, nothing else.
LEMMA Relabelled ==
    ASSUME Inv, NEW p \in Procs, NEW at, Goes(p, at),
           at \in {"persist", "done", "failed"},
           at = "persist" => work[p].at = "find"
    PROVE  \E to \in Work :
              /\ work' = [work EXCEPT ![p] = to]
              /\ to.at = at /\ to.job = work[p].job /\ to.todo = work[p].todo
              /\ to.known = work[p].known /\ to.signals = work[p].signals
  <1>1. PICK to : to = [work[p] EXCEPT !.at = at]
    OBVIOUS
  <1>2. /\ to \in Work /\ to.at = at /\ to.job = work[p].job /\ to.todo = work[p].todo
        /\ to.known = work[p].known /\ to.signals = work[p].signals
    BY <1>1, ProcessTypes DEF Work
  <1>3. work' = [work EXCEPT ![p] = to]
    BY <1>1 DEF Goes
  <1> QED
    BY <1>2, <1>3

LEMMA RelabelStep ==
    ASSUME Inv, NEW p \in Procs, NEW at, Goes(p, at),
           at \in {"persist", "done", "failed"},
           at = "persist" => work[p].at = "find",
           UNCHANGED <<jobs, candidate, day, signals>>,
           snapshots' \in Seq(Shot), SnapshotCoversEvidence'
    PROVE  Inv'
  <1>1. PICK to \in Work :
           /\ work' = [work EXCEPT ![p] = to]
           /\ to.at = at /\ to.job = work[p].job /\ to.todo = work[p].todo
           /\ to.known = work[p].known /\ to.signals = work[p].signals
    BY Relabelled
  <1>2. /\ to.known \subseteq signals' /\ to.signals \subseteq signals' /\ signals' \subseteq Signals
        /\ to.at \in {"find", "persist"} => to.todo # <<>>
        /\ to.at # "create" /\ to.at # "idle"
    BY <1>1, ProcessTypes DEF Sees
  <1> QED
    BY <1>1, <1>2, GoesOn

\* The first signal of todo is persisted by now.
LEMMA NextSignalStep ==
    ASSUME Inv, NEW p \in Procs, work[p].at \in {"find", "persist"}, NextSignal(p),
           signals \subseteq signals', signals' \subseteq Signals, First(p) \in signals',
           UNCHANGED <<jobs, candidate, day, snapshots>>
    PROVE  Inv'
  <1>1. /\ work[p] \in Work /\ work[p].todo \in Seq(Signals) /\ work[p].todo # <<>>
        /\ work[p].known \subseteq signals /\ work[p].signals \subseteq signals
    BY ProcessTypes DEF Sees, Work
  <1>2. PICK at \in {"find", "read", "done"} :
           at = IF Len(work[p].todo) > 1 THEN "find"
                ELSE IF work[p].scores THEN "read" ELSE "done"
    OBVIOUS
  <1>3. PICK todo \in Seq(Signals) : todo = Tail(work[p].todo) /\ (at = "find" => todo # <<>>)
    <2>1. at = "find" => Len(work[p].todo) > 1
      BY <1>2
    <2>2. PICK todo \in Seq(Signals) : /\ todo = Tail(work[p].todo)
                                       /\ Len(todo) = Len(work[p].todo) - 1
      <3>1. /\ Tail(work[p].todo) \in Seq(Signals)
            /\ Len(Tail(work[p].todo)) = Len(work[p].todo) - 1
        BY <1>1
      <3> QED
        BY <3>1
    <2>3. at = "find" => Len(todo) # 0
      BY <1>1, <2>1, <2>2
    <2>4. Len(todo) # 0 => todo # <<>>
      OBVIOUS
    <2> QED
      BY <2>2, <2>3, <2>4
  <1>4. PICK known \in SUBSET Signals : known = work[p].known \union {First(p)}
    BY <1>1, ProcessTypes
  <1>5. PICK to : to = [work[p] EXCEPT !.todo = todo, !.known = known, !.at = at]
    OBVIOUS
  <1>6. /\ to \in Work /\ to.job = work[p].job /\ to.at = at /\ to.todo = todo
        /\ to.known = known /\ to.signals = work[p].signals
    BY <1>1, <1>5 DEF Work
  <1>7. work' = [work EXCEPT ![p] = to]
    BY <1>2, <1>3, <1>4, <1>5 DEF NextSignal
  <1>8. /\ to.known \subseteq signals' /\ to.signals \subseteq signals'
        /\ to.at \in {"find", "persist"} => to.todo # <<>>
        /\ to.at # "create" /\ to.at # "idle"
    BY <1>1, <1>3, <1>4, <1>6
  <1> QED
    BY <1>6, <1>7, <1>8, SnapshotsStay, GoesOn

LEMMA IngestStep ==
    ASSUME Inv, NEW p \in Procs, Find(p) \/ Persist(p)
    PROVE  Inv'
  <1>1. CASE Find(p) /\ First(p) \in signals
    BY <1>1, ProcessTypes, NextSignalStep DEF Find, world
  <1>2. CASE Find(p) /\ First(p) \notin signals
    BY <1>2, SnapshotsStay, RelabelStep DEF Find, world
  <1>3. CASE Persist(p) /\ First(p) \in signals
    BY <1>3, SnapshotsStay, RelabelStep DEF Persist, world
  <1>4. CASE Persist(p) /\ First(p) \notin signals
    <2>1. First(p) \in Signals
      <3>1. work[p].todo \in Seq(Signals) /\ work[p].todo # <<>>
        BY <1>4, ProcessTypes DEF Persist, Sees, Work
      <3> QED
        BY <3>1 DEF First
    <2>2. signals' = signals \union {First(p)} /\ NextSignal(p)
      BY <1>4 DEF Persist
    <2>3. signals \subseteq signals' /\ signals' \subseteq Signals /\ First(p) \in signals'
      BY <2>1, <2>2, ProcessTypes
    <2> QED
      BY <1>4, <2>2, <2>3, NextSignalStep DEF Persist, world
  <1> QED
    BY <1>1, <1>2, <1>3, <1>4

LEMMA StartStep ==
    ASSUME Inv, NEW p \in Procs, Start(p)
    PROVE  Inv'
  <1>1. /\ work[p] \in Work /\ work[p].fixture \in Seq(Kinds) /\ day \in Days
        /\ work[p].known \subseteq signals /\ work[p].signals \subseteq signals
    <2>1. work[p] \in Work /\ work[p].fixture \in Fixtures \union {<<>>}
      BY ProcessTypes DEF Work
    <2>2. <<>> \in Seq(Kinds) /\ Fixtures \subseteq Seq(Kinds)
      BY Bounds
    <2> QED
      BY <2>1, <2>2, ProcessTypes DEF Inv, Typed, Sees
  <1>2. PICK todo \in Seq(Signals) : /\ todo = Dated(work[p].fixture)
                                     /\ work[p].fixture # <<>> => todo # <<>>
    BY <1>1, DatedTypes
  <1>3. PICK at \in {"read", "find"} : /\ at = IF work[p].fixture = <<>> THEN "read" ELSE "find"
                                       /\ at = "find" => todo # <<>>
    BY <1>2
  <1>4. PICK to : to = [work[p] EXCEPT !.at = at, !.todo = todo]
    OBVIOUS
  <1>5. /\ to \in Work /\ to.job = work[p].job /\ to.at = at /\ to.todo = todo
        /\ to.known = work[p].known /\ to.signals = work[p].signals
    BY <1>1, <1>4 DEF Work
  <1>6. work' = [work EXCEPT ![p] = to] /\ UNCHANGED <<signals, snapshots, jobs, candidate, day>>
    BY <1>2, <1>3, <1>4 DEF Start, world
  <1>7. /\ to.known \subseteq signals' /\ to.signals \subseteq signals'
        /\ to.at \in {"find", "persist"} => to.todo # <<>>
        /\ to.at # "create" /\ to.at # "idle"
        /\ signals \subseteq signals' /\ signals' \subseteq Signals
    BY <1>1, <1>3, <1>5, <1>6, ProcessTypes
  <1> QED
    BY <1>5, <1>6, <1>7, SnapshotsStay, GoesOn

LEMMA ReadStep ==
    ASSUME Inv, NEW p \in Procs, Read(p)
    PROVE  Inv'
  <1>1. work[p] \in Work /\ work[p].known \subseteq signals /\ signals \in SUBSET Signals
    BY ProcessTypes DEF Sees
  <1>2. PICK to : to = [work[p] EXCEPT !.at = "create", !.signals = signals]
    OBVIOUS
  <1>3. /\ to \in Work /\ to.job = work[p].job /\ to.at = "create"
        /\ to.known = work[p].known /\ to.signals = signals
    BY <1>1, <1>2 DEF Work
  <1>4. work' = [work EXCEPT ![p] = to] /\ UNCHANGED <<signals, snapshots, jobs, candidate, day>>
    BY <1>2 DEF Read, world
  <1>5. /\ to.known \subseteq signals' /\ to.signals \subseteq signals'
        /\ to.at \notin {"find", "persist"} /\ to.known \subseteq to.signals /\ to.at # "idle"
        /\ signals \subseteq signals' /\ signals' \subseteq Signals
    BY <1>1, <1>3, <1>4
  <1> QED
    BY <1>3, <1>4, <1>5, SnapshotsStay, GoesOn

\* A snapshot holds what the execution read, which holds what it had to see.
LEMMA CreateStep ==
    ASSUME Inv, NEW p \in Procs, Create(p)
    PROVE  Inv'
  <1>1. PICK x : x = Snapshot(p)
    OBVIOUS
  <1>2. x \in Shot /\ x.known \subseteq x.signals /\ x.signals \subseteq signals
    <2>1. /\ work[p] \in Work /\ work[p].signals \subseteq Signals /\ candidate \in Candidates
          /\ day \in Days
          /\ work[p].known \subseteq work[p].signals /\ work[p].signals \subseteq signals
      BY ProcessTypes DEF Create, Sees, Inv, Typed
    <2>2. Scores(candidate, work[p].signals, day) \in Assessed
      BY <2>1 DEF Assessed
    <2>3. x = [job |-> work[p].job, signals |-> work[p].signals, known |-> work[p].known,
               day |-> day, scores |-> Scores(candidate, work[p].signals, day)]
      BY <1>1, Zenon DEF Snapshot
    <2> QED
      BY <2>1, <2>2, <2>3 DEF Shot, Work
  <1>3. /\ snapshots \in Seq(Shot) /\ snapshots' = Append(snapshots, x)
    BY <1>1 DEF Create, Inv, Typed
  <1>4. /\ snapshots' \in Seq(Shot)
        /\ \A i \in DOMAIN snapshots' : \/ (i \in DOMAIN snapshots /\ snapshots'[i] = snapshots[i])
                                         \/ snapshots'[i] = x
    BY <1>2, <1>3
  <1>5. UNCHANGED <<signals, jobs, candidate, day>> /\ Goes(p, "done")
    BY DEF Create, world
  <1>6. SnapshotCoversEvidence'
    BY <1>2, <1>4, <1>5 DEF Inv, SnapshotCoversEvidence
  <1> QED
    BY <1>4, <1>5, <1>6, RelabelStep

------------------------------------------------------------------------------
(* How an execution ends.                                                   *)
LEMMA EndStep ==
    ASSUME Inv, NEW p \in Procs, work' = [work EXCEPT ![p] = NoWork],
           UNCHANGED <<signals, snapshots, jobs, candidate, day>>
    PROVE  Inv'
  <1>1. /\ NoWork.at = "idle" /\ NoWork.job = 0 /\ NoWork.known \subseteq signals'
        /\ NoWork.signals \subseteq signals' /\ signals \subseteq signals' /\ signals' \subseteq Signals
    BY NoWorkTypes, ProcessTypes
  <1> QED
    BY <1>1, NoWorkTypes, SnapshotsStay, GoesOn

LEMMA SettleStep ==
    ASSUME Inv, NEW p \in Procs, NEW job, Settle(p, job), work[p].at # "idle",
           work[p].job # 0 => job \in Jobs,
           job.state # "failed" => job.made < MaxAttempts /\ job.stalled <= MaxStalled
    PROVE  Inv'
  <1>1. CASE work[p].job = 0
    BY <1>1, EndStep DEF Settle, world
  <1>2. CASE work[p].job # 0
    <2>1. PICK j \in DOMAIN jobs : j = work[p].job
      BY <1>2, ProcessTypes DEF Held
    <2>2. PICK row : row = [job EXCEPT !.owner = NoWorker]
      OBVIOUS
    <2>3. /\ row \in Jobs /\ row.state = job.state /\ row.made = job.made
          /\ row.stalled = job.stalled
      BY <1>2, <2>2 DEF Jobs
    <2>4. jobs' = [jobs EXCEPT ![j] = row] /\ work' = [work EXCEPT ![p] = NoWork]
      BY <1>2, <2>1, <2>2 DEF Settle
    <2>5. work' \in [Procs -> Work] /\ \A q \in Procs : q # p => work'[q] = work[q]
      BY <2>4, NoWorkTypes, ProcessTypes
    <2>6. \A q \in Procs : q # p => work[q].job # j
      BY <1>2, <2>1 DEF Inv, Typed, Held
    <2>7. work'[p] = NoWork
      BY <2>4, ProcessTypes
    <2>8. \A q \in Procs : Leaves(q, j, row)
      BY <2>5, <2>6, <2>7, NoWorkTypes DEF Leaves
    <2>9. UNCHANGED <<candidate, signals, snapshots, day>>
      BY DEF Settle, world
    <2>10. \A q \in Procs : (Sees(q))'
      BY <2>5, <2>7, <2>9, NoWorkTypes DEF Inv, Sees
    <2> QED
      BY <2>3, <2>4, <2>5, <2>8, <2>9, <2>10, JobSet
  <1> QED
    BY <1>1, <1>2

LEMMA SettledStep ==
    ASSUME Inv, NEW p \in Procs, Done(p) \/ AttemptFailed(p)
    PROVE  Inv'
  <1>1. work[p].job # 0 => /\ JobOf(p) \in Jobs /\ JobOf(p).made < MaxAttempts
                          /\ JobOf(p).stalled <= MaxStalled
    BY ProcessTypes DEF Held, JobOf, Inv, Typed, Counted
  <1>2. CASE work[p].job = 0
    BY <1>2, EndStep DEF Done, AttemptFailed, Settle, world
  <1>3. CASE work[p].job # 0 /\ Done(p)
    <2>1. PICK job : job = [JobOf(p) EXCEPT !.state = "completed"]
      OBVIOUS
    <2>2. job \in Jobs /\ job.made = JobOf(p).made /\ job.stalled = JobOf(p).stalled
      BY <1>1, <1>3, <2>1 DEF Jobs
    <2>3. Settle(p, job) /\ work[p].at # "idle"
      BY <1>3, <2>1 DEF Done
    <2> QED
      BY <1>1, <1>3, <2>2, <2>3, SettleStep
  <1>4. CASE work[p].job # 0 /\ AttemptFailed(p)
    <2>1. PICK state \in {"waiting", "failed"} :
             state = IF JobOf(p).made + 1 < MaxAttempts THEN "waiting" ELSE "failed"
      OBVIOUS
    <2>2. PICK job : job = [JobOf(p) EXCEPT !.made = JobOf(p).made + 1, !.state = state]
      OBVIOUS
    <2>3. JobOf(p).made \in Nat /\ JobOf(p).made + 1 \in 0 .. MaxAttempts
      BY <1>1, <1>4, Bounds DEF Jobs
    <2>4. /\ job \in Jobs /\ job.made = JobOf(p).made + 1 /\ job.stalled = JobOf(p).stalled
          /\ job.state = state
      BY <1>1, <1>4, <2>2, <2>3 DEF Jobs
    <2>5. Settle(p, job) /\ work[p].at # "idle"
      BY <1>4, <2>1, <2>2 DEF AttemptFailed
    <2>6. job.state # "failed" => job.made < MaxAttempts /\ job.stalled <= MaxStalled
      BY <1>1, <1>4, <2>1, <2>3, <2>4
    <2> QED
      BY <1>1, <1>4, <2>4, <2>5, <2>6, SettleStep
  <1> QED
    BY <1>2, <1>3, <1>4

LEMMA NotReadyStep ==
    ASSUME Inv, NEW p \in Procs, BrainNotReady(p)
    PROVE  Inv'
  <1>1. CASE work[p].job = 0
    BY <1>1, SnapshotsStay, RelabelStep DEF BrainNotReady, world
  <1>2. CASE work[p].job # 0
    <2>1. PICK j \in DOMAIN jobs : j = work[p].job
      BY <1>2, ProcessTypes DEF Held
    <2>2. /\ jobs[j] \in Jobs /\ jobs[j].state = "active" /\ jobs[j].owner = p
          /\ jobs[j].made < MaxAttempts /\ jobs[j].stalled <= MaxStalled
      BY <1>2, <2>1 DEF Inv, Typed, Held, Counted
    <2>3. PICK row : row = [jobs[j] EXCEPT !.refused = TRUE]
      OBVIOUS
    <2>4. /\ row \in Jobs /\ row.state = jobs[j].state /\ row.made = jobs[j].made
          /\ row.stalled = jobs[j].stalled /\ row.owner = jobs[j].owner
      <3>1. TRUE \in BOOLEAN
        OBVIOUS
      <3> QED
        BY <2>2, <2>3, <3>1 DEF Jobs
    <2>5. jobs' = [jobs EXCEPT ![j] = row]
      BY <1>2, <2>1, <2>3 DEF BrainNotReady
    <2>6. PICK to \in Work :
             /\ work' = [work EXCEPT ![p] = to]
             /\ to.at = "failed" /\ to.job = work[p].job
             /\ to.known = work[p].known /\ to.signals = work[p].signals
      BY Relabelled DEF BrainNotReady
    <2>7. /\ work' \in [Procs -> Work] /\ work'[p] = to
          /\ \A q \in Procs : q # p => work'[q] = work[q]
      BY <2>6, ProcessTypes
    <2>8. \A q \in Procs : q # p => work[q].job # j
      BY <1>2, <2>1 DEF Inv, Typed, Held
    <2>9. \A q \in Procs : Leaves(q, j, row)
      BY <2>1, <2>2, <2>4, <2>6, <2>7, <2>8 DEF Leaves
    <2>10. UNCHANGED <<candidate, signals, snapshots, day>>
      BY DEF BrainNotReady, world
    <2>11. \A q \in Procs : (Sees(q))'
      BY <2>6, <2>7, <2>10 DEF Inv, Sees
    <2> QED
      BY <2>2, <2>4, <2>5, <2>7, <2>9, <2>10, <2>11, JobSet
  <1> QED
    BY <1>1, <1>2

LEMMA TurnStep ==
    ASSUME Inv, BrainTurns \/ Later
    PROVE  Inv'
  <1>1. UNCHANGED <<candidate, signals, snapshots, jobs, work>> /\ day' \in Days
    BY DEF BrainTurns, Later, Turn, Inv, Typed
  <1>2. Typed'
    BY <1>1 DEF Inv, Typed, Counted, Held
  <1>3. (\A p \in Procs : (Sees(p))') /\ SnapshotCoversEvidence'
    BY <1>1 DEF Inv, Sees, SnapshotCoversEvidence
  <1> QED
    BY <1>2, <1>3 DEF Inv

------------------------------------------------------------------------------
LEMMA NextInv == Inv /\ [Next]_vars => Inv'
  <1> SUFFICES ASSUME Inv, [Next]_vars PROVE Inv'
    OBVIOUS
  <1>1. CASE \E a \in Admins : Ingest(a) \/ ScoreNow(a)
    BY <1>1, RequestStep
  <1>2. CASE ScoreLater
    BY <1>2, ScoreLaterStep
  <1>3. ASSUME NEW p \in Procs, Execute(p) \/ Throws(p) \/ WorkerDies(p)
        PROVE  Inv'
    <2>1. CASE Start(p) \/ BrainNotReady(p)
      BY <2>1, StartStep, NotReadyStep
    <2>2. CASE Find(p) \/ Persist(p)
      BY <2>2, IngestStep
    <2>3. CASE Read(p) \/ Create(p)
      BY <2>3, ReadStep, CreateStep
    <2>4. CASE Done(p) \/ AttemptFailed(p)
      BY <2>4, SettledStep
    <2>5. CASE Throws(p)
      BY <2>5, SnapshotsStay, RelabelStep DEF Throws, world
    <2>6. CASE WorkerDies(p)
      BY <2>6, EndStep DEF WorkerDies, world
    <2> QED
      BY <1>3, <2>1, <2>2, <2>3, <2>4, <2>5, <2>6 DEF Execute
  <1>4. CASE \E j \in DOMAIN jobs : Reclaim(j) \/ \E w \in Workers : Take(w, j)
    BY <1>4, ReclaimStep, TakeStep
  <1>5. CASE BrainTurns \/ Later
    BY <1>5, TurnStep
  <1>6. CASE UNCHANGED vars
    <2>1. Typed'
      BY <1>6 DEF vars, Inv, Typed, Counted, Held
    <2>2. (\A p \in Procs : (Sees(p))') /\ SnapshotCoversEvidence'
      BY <1>6 DEF vars, Inv, Sees, SnapshotCoversEvidence
    <2> QED
      BY <2>1, <2>2 DEF Inv
  <1> QED
    BY <1>1, <1>2, <1>3, <1>4, <1>5, <1>6 DEF Next

\* The inductive invariant holds for any number of requests, workers, jobs and signals.
THEOREM Invariance == Spec => []Inv
  BY InitInv, NextInv, PTL DEF Spec

\* A snapshot rests on persisted signals, and on all that were persisted when its execution
\* began or that it collected itself (executeScore), whoever else ingests, fails or retries.
THEOREM SnapshotsMissNothing == Spec => []SnapshotCoversEvidence
  <1>1. Inv => SnapshotCoversEvidence
    BY DEF Inv
  <1> QED
    BY <1>1, Invariance, PTL

------------------------------------------------------------------------------
(* What a signal adds to the scores.                                        *)

LEMMA SignalTypes ==
    ASSUME NEW s \in Signals
    PROVE  /\ s.kind \in Kinds /\ s.occurred \in Int
           /\ Of(s).confidence \in 0 .. 100 /\ Of(s).relevance \in 0 .. 100
  <1>1. PICK k \in Kinds, d \in Days : s = DatedOn(k, d)
    BY DEF Signals
  <1>2. s.kind = k /\ s.occurred = d - About[k].age
    BY <1>1 DEF DatedOn
  <1>3. d \in Int /\ About[k].age \in Int /\ About[k].confidence \in 0 .. 100
        /\ About[k].relevance \in 0 .. 100
    BY WhyNowAssumption, ScoreAssumption
  <1> QED BY <1>2, <1>3 DEF Of

LEMMA Products ==
    /\ \A x, y \in Int : x * y \in Int
    /\ \A x, y \in Int : x <= 0 /\ y >= 0 => x * y <= 0
    /\ \A x, y, z \in Int : x <= y /\ z >= 0 => x * z <= y * z
  <1>1. \A x, y \in Int : x * y \in Int
    OBVIOUS
  <1>2. \A x, y \in Int : x <= 0 /\ y >= 0 => x * y <= 0
    OBVIOUS
  <1>3. \A x, y, z \in Int : x <= y /\ z >= 0 => x * z <= y * z
    OBVIOUS
  <1> QED BY <1>1, <1>2, <1>3

LEMMA Decays ==
    /\ \A n \in Nat : Decay(n) \in 0 .. 100
    /\ \A m, n \in Nat : m <= n => Decay(n) <= Decay(m)
  <1>1. \A n \in Nat : Decay(n) = IF n <= 7 THEN 100 ELSE IF n <= 30 THEN 70
                                 ELSE IF n <= 90 THEN 35 ELSE IF n <= 180 THEN 15 ELSE 5
    <2> SUFFICES ASSUME NEW n \in Nat
                 PROVE  Decay(n) = IF n <= 7 THEN 100 ELSE IF n <= 30 THEN 70
                                   ELSE IF n <= 90 THEN 35 ELSE IF n <= 180 THEN 15 ELSE 5
      OBVIOUS
    <2>1. CASE n <= 7
      BY <2>1 DEF Decay
    <2>2. CASE n \in 8 .. 30
      BY <2>2 DEF Decay
    <2>3. CASE n \in 31 .. 90
      BY <2>3 DEF Decay
    <2>4. CASE n \in 91 .. 180
      BY <2>4 DEF Decay
    <2>5. CASE n > 180
      BY <2>5 DEF Decay
    <2> QED BY <2>1, <2>2, <2>3, <2>4, <2>5
  <1> QED BY <1>1

LEMMA Ages ==
    ASSUME NEW s \in Signals, NEW d \in Nat, NEW e \in Nat, d <= e
    PROVE  Age(s, d) \in Nat /\ Age(s, e) \in Nat /\ Age(s, d) <= Age(s, e)
BY SignalTypes DEF Age

LEMMA IntentDeltas ==
    ASSUME NEW brain, NEW s \in Signals
    PROVE  IntentDelta(brain, s) \in Int /\ (Negative(s) => IntentDelta(brain, s) <= 0)
  <1>1. PICK c \in 0 .. 100 : c = Of(s).confidence
    BY SignalTypes
  <1>2. PICK r \in 0 .. 100 : r = Of(s).relevance
    BY SignalTypes
  <1>3. PICK w \in Int : /\ w = Polarity(s) * (30 + (IF Aligned(s, brain.buyingTriggers) THEN 28 ELSE 8))
                         /\ Negative(s) => w <= 0
    BY DEF Polarity
  <1>4. w * c \in Int /\ (Negative(s) => w * c <= 0)
    BY <1>3, Products
  <1>5. (w * c) * r \in Int /\ (Negative(s) => (w * c) * r <= 0)
    BY <1>4, Products
  <1> QED BY <1>1, <1>2, <1>3, <1>5 DEF IntentDelta

LEMMA TimingDeltas ==
    ASSUME NEW brain, NEW s \in Signals, NEW d \in Nat, NEW e \in Nat, d <= e
    PROVE  /\ TimingDelta(brain, d, s) \in Int /\ TimingDelta(brain, e, s) \in Int
           /\ Negative(s) => TimingDelta(brain, d, s) <= 0
           /\ ~Negative(s) => TimingDelta(brain, e, s) <= TimingDelta(brain, d, s)
  <1>1. PICK c \in 0 .. 100 : c = Of(s).confidence
    BY SignalTypes
  <1>2. PICK r \in 0 .. 100 : r = Of(s).relevance
    BY SignalTypes
  <1>3. PICK w \in Int : /\ w = Polarity(s) * (IF Aligned(s, brain.buyingTriggers) THEN 65 ELSE 40)
                         /\ Negative(s) => w <= 0
                         /\ ~Negative(s) => w >= 0
    BY DEF Polarity
  <1>4. PICK m \in 0 .. 100 : m = Decay(Age(s, d))
    BY Ages, Decays
  <1>5. PICK n \in 0 .. 100 : n = Decay(Age(s, e)) /\ n <= m
    BY <1>4, Ages, Decays
  <1>6. /\ w * m \in Int /\ w * n \in Int
        /\ Negative(s) => w * m <= 0
        /\ ~Negative(s) => w * n <= w * m
    <2>1. w \in Int /\ m \in Int /\ n \in Int /\ m >= 0 /\ n <= m
      BY <1>5
    <2>2. w * m \in Int /\ w * n \in Int
      BY <2>1
    <2>3. w <= 0 => w * m <= 0
      BY <2>1, Products
    <2>4. w >= 0 => w * n <= w * m
      <3>1. w >= 0 => n * w <= m * w
        BY <2>1, Products
      <3>2. n * w = w * n /\ m * w = w * m
        BY <2>1
      <3> QED BY <3>1, <3>2
    <2> QED BY <1>3, <2>2, <2>3, <2>4
  <1>7. /\ (w * m) * c \in Int /\ (w * n) * c \in Int
        /\ Negative(s) => (w * m) * c <= 0
        /\ ~Negative(s) => (w * n) * c <= (w * m) * c
    BY <1>6, Products
  <1>8. /\ ((w * m) * c) * r \in Int /\ ((w * n) * c) * r \in Int
        /\ Negative(s) => ((w * m) * c) * r <= 0
        /\ ~Negative(s) => ((w * n) * c) * r <= ((w * m) * c) * r
    BY <1>7, Products
  <1>9. TimingDelta(brain, d, s) = ((w * m) * c) * r /\ TimingDelta(brain, e, s) = ((w * n) * c) * r
    BY <1>1, <1>2, <1>3, <1>4, <1>5 DEF TimingDelta
  <1> QED BY <1>8, <1>9

LEMMA Rounding ==
    ASSUME NEW x \in Int, NEW scale \in Nat \ {0}
    PROVE  ClampScore(x, scale) \in 0 .. 100
  <1>1. Rounded(x, scale) \in Int
    BY Quotient DEF Rounded
  <1> QED BY <1>1 DEF ClampScore, Between

LEMMA RoundingAtMost ==
    ASSUME NEW x \in Int, NEW y \in Int, NEW m \in Nat \ {0}, NEW n \in Nat \ {0},
           x * n <= y * m
    PROVE  ClampScore(x, m) <= ClampScore(y, n)
  <1>1. 2 * x + m \in Int /\ 2 * y + n \in Int /\ 2 * m \in Nat \ {0} /\ 2 * n \in Nat \ {0}
    OBVIOUS
  <1>2. (2 * x + m) * (2 * n) <= (2 * y + n) * (2 * m)
    <2>1. (2 * x + m) * (2 * n) = 4 * (x * n) + 2 * (m * n)
      OBVIOUS
    <2>2. (2 * y + n) * (2 * m) = 4 * (y * m) + 2 * (m * n)
      OBVIOUS
    <2>3. x * n \in Int /\ y * m \in Int /\ m * n \in Int
      OBVIOUS
    <2> QED BY <2>1, <2>2, <2>3
  <1>3. PICK q \in Int : q = Rounded(x, m)
    BY <1>1, Quotient DEF Rounded
  <1>4. PICK r \in Int : r = Rounded(y, n)
    BY <1>1, Quotient DEF Rounded
  <1>5. q <= r
    BY <1>1, <1>2, <1>3, <1>4, QuotientAtMost DEF Rounded
  <1> QED BY <1>3, <1>4, <1>5 DEF ClampScore, Between

------------------------------------------------------------------------------
LEMMA SumFunctionIsSum ==
    ASSUME NEW S, IsFiniteSet(S), NEW f \in [S -> Int]
    PROVE  \E g : IsSum(g, f, S) /\ SumFunction(f) = g[S]
  <1> DEFINE h == CHOOSE g : g = [s \in SUBSET S |->
                      IF s = {} THEN 0
                      ELSE f[CHOOSE x \in s : TRUE] + g[s \ {CHOOSE x \in s : TRUE}]]
  <1>1. SumFunction(f) = h[S]
    <2>1. DOMAIN f = S
      OBVIOUS
    <2> QED BY <2>1, Zenon DEF SumFunction, SumFunctionOnSet, FoldFunctionOnSet, MapThenFoldSet
  <1>2. PICK gg : Adds(gg, f, S)
    BY AddsExists
  <1>3. h = [s \in SUBSET S |->
                IF s = {} THEN 0 ELSE f[CHOOSE x \in s : TRUE] + h[s \ {CHOOSE x \in s : TRUE}]]
    BY <1>2, Zenon DEF Adds, Chosen
  <1> HIDE DEF h
  <1>4. Adds(h, f, S)
    BY <1>3, Zenon DEF Adds, Chosen
  <1> QED BY <1>1, <1>4, AddsIsSum

------------------------------------------------------------------------------
(* The scores are percentages.                                              *)
Evidence == {x \in SUBSET Signals : IsFiniteSet(x)}

LEMMA FitTypes ==
    ASSUME NEW c
    PROVE  FitScore(Brain, c) \in 0 .. 100
  <1>1. Cardinality(Mentioned(Brain, c)) \in Nat
    <2>1. IsFiniteSet(Mentioned(Brain, c))
      BY WhyNowAssumption, FS_Subset DEF Mentioned
    <2> QED BY <2>1, FS_CardinalityType
  <1>2. /\ Cardinality(Matching(Brain, c, "positive")) \in Nat
        /\ Cardinality(Matching(Brain, c, "negative")) \in Nat
    <2>1. /\ IsFiniteSet(Matching(Brain, c, "positive"))
          /\ IsFiniteSet(Matching(Brain, c, "negative"))
      BY WhyNowAssumption, FS_Subset DEF Matching
    <2> QED BY <2>1, FS_CardinalityType
  <1>3. \A holds, n : n \in Int => Points(holds, n) \in Int
    BY DEF Points
  <1>4. \A n \in Int : Between(0, n, 100) \in 0 .. 100
    BY DEF Between
  <1> QED BY <1>1, <1>2, <1>3, <1>4 DEF FitScore

\* The cap on the intent of a disqualified company, and the four sums over the evidence x.
Capped(c, x) == IF Disqualified(Brain, c) /\ x > 400000 THEN 400000 ELSE x
IntentSum(g, x) == IsSum(g, [s \in x |-> IntentDelta(Brain, s)], x)
TimingSum(g, x, d) == IsSum(g, [s \in x |-> TimingDelta(Brain, d, s)], x)
ConfidenceSum(g, x) == IsSum(g, [s \in x |-> Of(s).confidence], x)
FreshnessSum(g, x, d) == IsSum(g, [s \in x |-> Decay(Age(s, d))], x)

\* Intent and timing are sums of one term per signal, clamped.
LEMMA IntentIsSum ==
    ASSUME NEW x \in Evidence, NEW c
    PROVE  \E g : /\ IntentSum(g, x) /\ g[x] \in Int
                  /\ IntentOf(Brain, c, x) = ClampScore(Capped(c, 150000 + g[x]), 10000)
  <1>1. IsFiniteSet(x) /\ [s \in x |-> IntentDelta(Brain, s)] \in [x -> Int]
    BY IntentDeltas DEF Evidence
  <1>2. PICK g : /\ IsSum(g, [s \in x |-> IntentDelta(Brain, s)], x)
                 /\ SumFunction([s \in x |-> IntentDelta(Brain, s)]) = g[x]
    BY <1>1, SumFunctionIsSum
  <1>3. g[x] \in Int
    BY <1>2 DEF IsSum
  <1>4. IntentOf(Brain, c, x)
          = ClampScore(Capped(c, 150000 + SumFunction([s \in x |-> IntentDelta(Brain, s)])), 10000)
    BY SMT DEF IntentOf, Capped
  <1> QED BY <1>2, <1>3, <1>4, SMT DEF IntentSum

LEMMA TimingIsSum ==
    ASSUME NEW x \in Evidence, NEW d \in Nat
    PROVE  \E g : /\ TimingSum(g, x, d) /\ g[x] \in Int
                  /\ TimingOf(Brain, x, d) = ClampScore(10000000 + g[x], 1000000)
  <1>1. IsFiniteSet(x) /\ [s \in x |-> TimingDelta(Brain, d, s)] \in [x -> Int]
    BY TimingDeltas DEF Evidence
  <1>2. PICK g : /\ IsSum(g, [s \in x |-> TimingDelta(Brain, d, s)], x)
                 /\ SumFunction([s \in x |-> TimingDelta(Brain, d, s)]) = g[x]
    BY <1>1, SumFunctionIsSum
  <1>3. g[x] \in Int
    BY <1>2 DEF IsSum
  <1>4. TimingOf(Brain, x, d)
          = ClampScore(10000000 + SumFunction([s \in x |-> TimingDelta(Brain, d, s)]), 1000000)
    BY SMT DEF TimingOf
  <1> QED BY <1>2, <1>3, <1>4, SMT DEF TimingSum

\* The conflicting evidence, and the part of the confidence that does not depend on the day.
Conflicts(x) == {s \in x : Negative(s)}
Base(c, x) ==
    45 + Between(0, 8 * Cardinality(x \ Conflicts(x)), 25)
       + Points({s \in x \ Conflicts(x) : Aligned(s, Brain.buyingTriggers)} # {}, 8)
       - 15 * Cardinality(Conflicts(x)) - Points(Disqualified(Brain, c), 10)

LEMMA BaseTypes ==
    ASSUME NEW x \in Evidence, NEW c
    PROVE  Base(c, x) \in Int
  <1>1. IsFiniteSet(x \ Conflicts(x)) /\ IsFiniteSet(Conflicts(x))
    BY FS_Subset DEF Evidence, Conflicts
  <1>2. Cardinality(x \ Conflicts(x)) \in Nat /\ Cardinality(Conflicts(x)) \in Nat
    BY <1>1, FS_CardinalityType
  <1>3. \A holds, n : n \in Int => Points(holds, n) \in Int
    BY DEF Points
  <1>4. \A n \in Int : Between(0, n, 25) \in Int
    BY DEF Between
  <1> QED BY <1>2, <1>3, <1>4 DEF Base

LEMMA ConfidenceIsSum ==
    ASSUME NEW x \in Evidence, NEW c, NEW d \in Nat
    PROVE  \E g, h : /\ ConfidenceSum(g, x) /\ g[x] \in Int
                     /\ FreshnessSum(h, x, d) /\ h[x] \in Int
                     /\ x # {} => ConfidenceOf(Brain, c, x, d)
                                    = ClampScore(10 * Cardinality(x) * Base(c, x) + 2 * g[x] + h[x],
                                                 10 * Cardinality(x))
  <1>1. /\ IsFiniteSet(x) /\ [s \in x |-> Of(s).confidence] \in [x -> Int]
        /\ [s \in x |-> Decay(Age(s, d))] \in [x -> Int]
    <2>1. \A s \in x : s \in Signals
      BY DEF Evidence
    <2>2. \A s \in x : Of(s).confidence \in Int
      BY <2>1, SignalTypes
    <2>3. \A s \in x : Age(s, d) \in Nat
      BY <2>1, Ages
    <2>4. \A s \in x : Decay(Age(s, d)) \in Int
      BY <2>3, Decays
    <2> QED BY <2>2, <2>4 DEF Evidence
  <1>2. PICK g : /\ IsSum(g, [s \in x |-> Of(s).confidence], x)
                 /\ SumFunction([s \in x |-> Of(s).confidence]) = g[x]
    BY <1>1, SumFunctionIsSum
  <1>3. PICK h : /\ IsSum(h, [s \in x |-> Decay(Age(s, d))], x)
                 /\ SumFunction([s \in x |-> Decay(Age(s, d))]) = h[x]
    BY <1>1, SumFunctionIsSum
  <1>4. g[x] \in Int /\ h[x] \in Int
    BY <1>2, <1>3 DEF IsSum
  <1>5. x # {} => Cardinality(x) # 0
    BY <1>1, FS_EmptySet
  <1>6. x # {} => ConfidenceOf(Brain, c, x, d)
                   = ClampScore(10 * Cardinality(x) * Base(c, x) + 2 * g[x] + h[x],
                                10 * Cardinality(x))
    BY <1>2, <1>3, <1>5, Zenon DEF ConfidenceOf, Base, Conflicts
  <1> QED BY <1>2, <1>3, <1>4, <1>6, Zenon DEF ConfidenceSum, FreshnessSum

LEMMA PercentTypes ==
    ASSUME NEW x \in Evidence, NEW c, NEW d \in Nat
    PROVE  /\ IntentOf(Brain, c, x) \in 0 .. 100 /\ TimingOf(Brain, x, d) \in 0 .. 100
           /\ ConfidenceOf(Brain, c, x, d) \in 0 .. 100
  <1>1. IntentOf(Brain, c, x) \in 0 .. 100
    <2>1. PICK g : /\ g[x] \in Int
                   /\ IntentOf(Brain, c, x) = ClampScore(Capped(c, 150000 + g[x]), 10000)
      BY IntentIsSum, SMT
    <2>2. Capped(c, 150000 + g[x]) \in Int
      BY <2>1, SMT DEF Capped
    <2>3. ClampScore(Capped(c, 150000 + g[x]), 10000) \in 0 .. 100
      BY <2>2, Rounding, SMT
    <2> QED BY <2>1, <2>3
  <1>2. TimingOf(Brain, x, d) \in 0 .. 100
    <2>1. PICK g : g[x] \in Int /\ TimingOf(Brain, x, d) = ClampScore(10000000 + g[x], 1000000)
      BY TimingIsSum, SMT
    <2>2. 10000000 + g[x] \in Int /\ 1000000 \in Nat \ {0}
      BY <2>1, SMT
    <2> QED BY <2>1, <2>2, Rounding, SMT
  <1>3. CASE x = {}
    <2>1. Cardinality(x) = 0
      BY <1>3, FS_EmptySet
    <2>2. ConfidenceOf(Brain, c, x, d) = IF FitScore(Brain, c) >= 55 THEN 40 ELSE 30
      BY <2>1, Zenon DEF ConfidenceOf
    <2> QED BY <1>1, <1>2, <2>2
  <1>4. CASE x # {}
    <2>1. PICK g, h : /\ g[x] \in Int /\ h[x] \in Int
                      /\ ConfidenceOf(Brain, c, x, d)
                            = ClampScore(10 * Cardinality(x) * Base(c, x) + 2 * g[x] + h[x],
                                         10 * Cardinality(x))
      BY <1>4, ConfidenceIsSum
    <2>2. Cardinality(x) \in Nat \ {0}
      BY <1>4, FS_EmptySet, FS_CardinalityType DEF Evidence
    <2>3. PICK n \in Nat \ {0}, b \in Int : n = Cardinality(x) /\ b = Base(c, x)
      BY <2>2, BaseTypes
    <2>4. 10 * n * b + 2 * g[x] + h[x] \in Int /\ 10 * n \in Nat \ {0}
      BY <2>1, <2>3
    <2> QED BY <1>1, <1>2, <2>1, <2>3, <2>4, Rounding
  <1> QED BY <1>3, <1>4

------------------------------------------------------------------------------
(* Conflicting evidence lowers the intent and the timing, age the timing.    *)

\* y: the same evidence as x and conflicts.
Worsens(x, y) == x \subseteq y /\ \A s \in y \ x : Negative(s)

LEMMA IntentWorsens ==
    ASSUME NEW x \in Evidence, NEW y \in Evidence, Worsens(x, y), NEW c
    PROVE  IntentOf(Brain, c, y) <= IntentOf(Brain, c, x)
  <1>1. PICK g : /\ IntentSum(g, x) /\ g[x] \in Int
                 /\ IntentOf(Brain, c, x) = ClampScore(Capped(c, 150000 + g[x]), 10000)
    BY IntentIsSum, SMT
  <1>2. PICK h : /\ IntentSum(h, y) /\ h[y] \in Int
                 /\ IntentOf(Brain, c, y) = ClampScore(Capped(c, 150000 + h[y]), 10000)
    BY IntentIsSum, SMT
  <1>3. h[y] <= h[x] + 0 * Cardinality(y \ x)
    <2>1. \A s \in y \ x : [t \in y |-> IntentDelta(Brain, t)][s] <= 0
      BY IntentDeltas DEF Worsens, Evidence
    <2>2. [s \in y |-> IntentDelta(Brain, s)] \in [y -> Int]
      BY IntentDeltas DEF Evidence
    <2>3. IsFiniteSet(y) /\ x \in SUBSET y /\ 0 \in Int
      BY DEF Worsens, Evidence
    <2> QED BY <1>2, <2>1, <2>2, <2>3, SumGrows DEF IntentSum
  <1>4. h[x] \in Int /\ Cardinality(y \ x) \in Nat
    BY <1>2, FS_Subset, FS_CardinalityType DEF Worsens, Evidence, IntentSum, IsSum
  <1>5. h[x] = g[x]
    <2>1. /\ [s \in y |-> IntentDelta(Brain, s)] \in [y -> Int]
          /\ [s \in x |-> IntentDelta(Brain, s)] \in [x -> Int]
      BY IntentDeltas DEF Evidence
    <2>2. IsFiniteSet(y) /\ x \in SUBSET y
      BY DEF Worsens, Evidence
    <2>3. \A s \in x : [t \in x |-> IntentDelta(Brain, t)][s] = [t \in y |-> IntentDelta(Brain, t)][s]
      BY <2>2
    <2> QED BY <1>1, <1>2, <2>1, <2>2, <2>3, SumAgrees DEF IntentSum
  <1>6. Capped(c, 150000 + h[y]) <= Capped(c, 150000 + g[x])
        /\ Capped(c, 150000 + h[y]) \in Int /\ Capped(c, 150000 + g[x]) \in Int
    BY <1>1, <1>2, <1>3, <1>4, <1>5, SMT DEF Capped
  <1> QED BY <1>1, <1>2, <1>6, RoundingAtMost, SMT

LEMMA TimingWorsens ==
    ASSUME NEW x \in Evidence, NEW y \in Evidence, Worsens(x, y), NEW d \in Nat
    PROVE  TimingOf(Brain, y, d) <= TimingOf(Brain, x, d)
  <1>1. PICK g : /\ TimingSum(g, x, d) /\ g[x] \in Int
                 /\ TimingOf(Brain, x, d) = ClampScore(10000000 + g[x], 1000000)
    BY TimingIsSum, SMT
  <1>2. PICK h : /\ TimingSum(h, y, d) /\ h[y] \in Int
                 /\ TimingOf(Brain, y, d) = ClampScore(10000000 + h[y], 1000000)
    BY TimingIsSum, SMT
  <1> DEFINE f == [s \in x |-> TimingDelta(Brain, d, s)]
             e == [s \in y |-> TimingDelta(Brain, d, s)]
  <1>3. IsSum(g, f, x) /\ IsSum(h, e, y)
    BY <1>1, <1>2 DEF TimingSum
  <1>4. /\ f \in [x -> Int] /\ e \in [y -> Int] /\ IsFiniteSet(y) /\ x \in SUBSET y
        /\ \A s \in x : f[s] = e[s]
        /\ \A s \in y \ x : e[s] <= 0
    BY TimingDeltas DEF Worsens, Evidence
  <1>5. h[x] = g[x] /\ h[y] <= h[x] + 0 * Cardinality(y \ x)
    <2> HIDE DEF f, e
    <2>1. h[x] = g[x]
      BY <1>3, <1>4, SumAgrees
    <2>2. h[y] <= h[x] + 0 * Cardinality(y \ x)
      <3>1. 0 \in Int
        OBVIOUS
      <3> QED BY <1>3, <1>4, <3>1, SumGrows
    <2> QED BY <2>1, <2>2
  <1>6. Cardinality(y \ x) \in Nat
    BY <1>4, FS_Subset, FS_CardinalityType
  <1>7. h[y] <= g[x]
    BY <1>1, <1>2, <1>5, <1>6
  <1> QED BY <1>1, <1>2, <1>7, RoundingAtMost, SMT

LEMMA TimingAges ==
    ASSUME NEW x \in Evidence, \A s \in x : ~Negative(s), NEW d \in Nat, NEW n \in Nat, d <= n
    PROVE  TimingOf(Brain, x, n) <= TimingOf(Brain, x, d)
  <1>1. PICK g : /\ TimingSum(g, x, d) /\ g[x] \in Int
                 /\ TimingOf(Brain, x, d) = ClampScore(10000000 + g[x], 1000000)
    BY TimingIsSum, SMT
  <1>2. PICK h : /\ TimingSum(h, x, n) /\ h[x] \in Int
                 /\ TimingOf(Brain, x, n) = ClampScore(10000000 + h[x], 1000000)
    BY TimingIsSum, SMT
  <1> DEFINE f == [s \in x |-> TimingDelta(Brain, d, s)]
             e == [s \in x |-> TimingDelta(Brain, n, s)]
  <1>3. IsSum(g, f, x) /\ IsSum(h, e, x)
    BY <1>1, <1>2 DEF TimingSum
  <1>4. /\ f \in [x -> Int] /\ e \in [x -> Int] /\ IsFiniteSet(x) /\ x \in SUBSET x
        /\ \A s \in x : e[s] <= f[s]
    BY TimingDeltas DEF Evidence
  <1>5. h[x] <= g[x]
    <2> HIDE DEF f, e
    <2> QED BY <1>3, <1>4, SumAtMost
  <1> QED BY <1>1, <1>2, <1>5, RoundingAtMost, SMT

LEMMA Together ==
    ASSUME NEW S, NEW T, IsFiniteSet(S), IsFiniteSet(T), S \intersect T = {}
    PROVE  Cardinality(S \union T) = Cardinality(S) + Cardinality(T)
  <1>1. Cardinality({}) = 0 /\ Cardinality(S) \in Nat /\ Cardinality(T) \in Nat
    BY FS_EmptySet, FS_CardinalityType
  <1>2. Cardinality(S \union T) = Cardinality(S) + Cardinality(T) - Cardinality(S \intersect T)
    BY FS_Union
  <1>3. Cardinality(S \intersect T) = 0
    BY <1>1, Zenon
  <1> QED BY <1>1, <1>2, <1>3

\* The bases of the confidence: conflicts lower it, each by 15.
LEMMA BaseWorsens ==
    ASSUME NEW x \in Evidence, NEW y \in Evidence, Worsens(x, y), NEW c
    PROVE  /\ Base(c, y) = Base(c, x) - 15 * Cardinality(y \ x)
           /\ Cardinality(y) = Cardinality(x) + Cardinality(y \ x)
           /\ Cardinality(x) \in Nat /\ Cardinality(y \ x) \in Nat
  <1>1. IsFiniteSet(x) /\ IsFiniteSet(y) /\ IsFiniteSet(y \ x) /\ IsFiniteSet(Conflicts(x))
    BY FS_Subset DEF Evidence, Conflicts
  <1>2. y \ Conflicts(y) = x \ Conflicts(x)
    BY DEF Worsens, Conflicts
  <1>3. Conflicts(y) = Conflicts(x) \union (y \ x) /\ Conflicts(x) \intersect (y \ x) = {}
        /\ y = x \union (y \ x) /\ x \intersect (y \ x) = {}
    BY DEF Worsens, Conflicts
  <1>4. /\ Cardinality(x) \in Nat /\ Cardinality(y \ x) \in Nat /\ Cardinality(Conflicts(x)) \in Nat
    BY <1>1, FS_CardinalityType
  <1>5. /\ Cardinality(y) = Cardinality(x) + Cardinality(y \ x)
        /\ Cardinality(Conflicts(y)) = Cardinality(Conflicts(x)) + Cardinality(y \ x)
    <2>1. Cardinality(x \union (y \ x)) = Cardinality(x) + Cardinality(y \ x)
      BY <1>1, <1>3, Together
    <2>2. Cardinality(Conflicts(x) \union (y \ x)) = Cardinality(Conflicts(x)) + Cardinality(y \ x)
      BY <1>1, <1>3, Together
    <2>3. y = x \union (y \ x) /\ Conflicts(y) = Conflicts(x) \union (y \ x)
      BY <1>3
    <2> QED BY <2>1, <2>2, <2>3, Zenon
  <1>6. Cardinality(x \ Conflicts(x)) \in Nat
    BY <1>1, FS_Subset, FS_CardinalityType
  <1>7. PICK i \in Int : i = Between(0, 8 * Cardinality(x \ Conflicts(x)), 25)
    BY <1>6 DEF Between
  <1>8. PICK j \in Int : j = Points({s \in x \ Conflicts(x) : Aligned(s, Brain.buyingTriggers)} # {}, 8)
    BY DEF Points
  <1>9. PICK k \in Int : k = Points(Disqualified(Brain, c), 10)
    BY DEF Points
  <1>10. Base(c, x) = 45 + i + j - 15 * Cardinality(Conflicts(x)) - k
    BY <1>7, <1>8, <1>9, Zenon DEF Base
  <1>11. Base(c, y) = 45 + i + j - 15 * Cardinality(Conflicts(y)) - k
    BY <1>2, <1>7, <1>8, <1>9, Zenon DEF Base
  <1> QED BY <1>4, <1>5, <1>7, <1>8, <1>9, <1>10, <1>11

LEMMA Averages ==
    ASSUME NEW n \in Nat \ {0}, NEW m \in Nat, NEW b \in Int, NEW u \in Nat, NEW v \in Int,
           v <= u + 300 * m
    PROVE  (10 * (n + m) * (b - 15 * m) + v) * (10 * n) <= (10 * n * b + u) * (10 * (n + m))
  <1>1. PICK P \in Int : P = n * ((n + m) * b)
    OBVIOUS
  <1>2. PICK Q \in Nat : Q = n * m
    OBVIOUS
  <1>3. PICK R \in Int : R = Q * (n + m) /\ (m = 0 => R = 0 /\ Q = 0) /\ 2 * Q <= R
    <2>1. CASE m = 0
      <3>1. Q = 0
        BY <1>2, <2>1
      <3> QED BY <2>1, <3>1
    <2>2. CASE m # 0
      <3>1. n + m \in Nat /\ 2 <= n + m
        BY <2>2
      <3>2. 2 * Q <= (n + m) * Q
        BY <1>2, <3>1, Products
      <3>3. Q * (n + m) \in Int /\ Q * (n + m) = (n + m) * Q
        BY <1>2
      <3> QED BY <2>2, <3>2, <3>3
    <2> QED BY <2>1, <2>2
  <1>4. (10 * (n + m) * (b - 15 * m) + v) * (10 * n) = 100 * P - 1500 * R + 10 * (v * n)
    <2>1. 10 * (n + m) * (b - 15 * m) * (10 * n) = 100 * P - 1500 * R
      BY <1>1, <1>2, <1>3
    <2>2. v * (10 * n) = 10 * (v * n)
      OBVIOUS
    <2> QED BY <2>1, <2>2
  <1>5. (10 * n * b + u) * (10 * (n + m)) = 100 * P + 10 * (u * n) + 10 * (u * m)
    <2>1. 10 * n * b * (10 * (n + m)) = 100 * P
      BY <1>1
    <2>2. u * (10 * (n + m)) = 10 * (u * n) + 10 * (u * m)
      OBVIOUS
    <2> QED BY <2>1, <2>2
  <1>6. v * n <= u * n + 300 * Q
    <2>1. v * n <= (u + 300 * m) * n
      BY Products
    <2>2. (u + 300 * m) * n = u * n + 300 * Q
      BY <1>2
    <2> QED BY <2>1, <2>2
  <1>7. v * n \in Int /\ u * n \in Int /\ u * m \in Nat
    OBVIOUS
  <1> QED BY <1>3, <1>4, <1>5, <1>6, <1>7

\* Terms of the confidence, doubled confidence and freshness, of x and of x with conflicts.
LEMMA ConfidenceWorsens ==
    ASSUME NEW x \in Evidence, NEW y \in Evidence, x # {}, Worsens(x, y), NEW c, NEW d \in Nat
    PROVE  ConfidenceOf(Brain, c, y, d) <= ConfidenceOf(Brain, c, x, d)
  <1>1. PICK g, h : /\ ConfidenceSum(g, x) /\ g[x] \in Int
                    /\ FreshnessSum(h, x, d) /\ h[x] \in Int
                    /\ ConfidenceOf(Brain, c, x, d)
                          = ClampScore(10 * Cardinality(x) * Base(c, x) + 2 * g[x] + h[x],
                                       10 * Cardinality(x))
    BY ConfidenceIsSum
  <1>2. PICK k, l : /\ ConfidenceSum(k, y) /\ k[y] \in Int
                    /\ FreshnessSum(l, y, d) /\ l[y] \in Int
                    /\ ConfidenceOf(Brain, c, y, d)
                          = ClampScore(10 * Cardinality(y) * Base(c, y) + 2 * k[y] + l[y],
                                       10 * Cardinality(y))
    <2>1. y # {}
      BY DEF Worsens
    <2> QED BY <2>1, ConfidenceIsSum
  <1>3. PICK n \in Nat \ {0}, m \in Nat, b \in Int :
           /\ n = Cardinality(x) /\ m = Cardinality(y \ x) /\ n + m = Cardinality(y)
           /\ b = Base(c, x) /\ b - 15 * m = Base(c, y)
    <2>1. Cardinality(x) \in Nat \ {0}
      BY FS_EmptySet, FS_CardinalityType DEF Evidence
    <2> QED BY <2>1, BaseWorsens, BaseTypes
  <1>4. IsFiniteSet(x) /\ IsFiniteSet(y) /\ x \in SUBSET y /\ 100 \in Int
    BY DEF Worsens, Evidence
  <1>5. \A s \in y : Of(s).confidence \in 0 .. 100 /\ Decay(Age(s, d)) \in 0 .. 100
    <2>1. \A s \in y : s \in Signals
      BY DEF Evidence
    <2>2. \A s \in y : Age(s, d) \in Nat
      BY <2>1, Ages
    <2> QED BY <2>1, <2>2, SignalTypes, Decays
  <1>6. g[x] >= 0 /\ k[y] <= g[x] + 100 * m
    <2> DEFINE f == [s \in x |-> Of(s).confidence]
               e == [s \in y |-> Of(s).confidence]
    <2>1. IsSum(g, f, x) /\ IsSum(k, e, y)
      BY <1>1, <1>2 DEF ConfidenceSum
    <2>2. /\ f \in [x -> Int] /\ e \in [y -> Int]
          /\ \A s \in x : f[s] = e[s] /\ f[s] >= 0
          /\ \A s \in y \ x : e[s] <= 100
      BY <1>4, <1>5
    <2> HIDE DEF f, e
    <2>3. g[x] >= 0
      BY <1>4, <2>1, <2>2, SumPositive
    <2>4. k[x] = g[x]
      BY <1>4, <2>1, <2>2, SumAgrees
    <2>5. k[y] <= k[x] + 100 * Cardinality(y \ x)
      BY <1>4, <2>1, <2>2, SumGrows
    <2> QED BY <1>3, <2>3, <2>4, <2>5
  <1>7. h[x] >= 0 /\ l[y] <= h[x] + 100 * m
    <2> DEFINE f == [s \in x |-> Decay(Age(s, d))]
               e == [s \in y |-> Decay(Age(s, d))]
    <2>1. IsSum(h, f, x) /\ IsSum(l, e, y)
      BY <1>1, <1>2 DEF FreshnessSum
    <2>2. /\ f \in [x -> Int] /\ e \in [y -> Int]
          /\ \A s \in x : f[s] = e[s] /\ f[s] >= 0
          /\ \A s \in y \ x : e[s] <= 100
      BY <1>4, <1>5
    <2> HIDE DEF f, e
    <2>3. h[x] >= 0
      BY <1>4, <2>1, <2>2, SumPositive
    <2>4. l[x] = h[x]
      BY <1>4, <2>1, <2>2, SumAgrees
    <2>5. l[y] <= l[x] + 100 * Cardinality(y \ x)
      BY <1>4, <2>1, <2>2, SumGrows
    <2> QED BY <1>3, <2>3, <2>4, <2>5
  <1>8. PICK u \in Nat, v \in Int : u = 2 * g[x] + h[x] /\ v = 2 * k[y] + l[y] /\ v <= u + 300 * m
    BY <1>1, <1>2, <1>6, <1>7
  <1>9. (10 * (n + m) * (b - 15 * m) + v) * (10 * n) <= (10 * n * b + u) * (10 * (n + m))
    BY <1>3, <1>8, Averages
  <1>10. /\ 10 * (n + m) * (b - 15 * m) + v \in Int /\ 10 * n * b + u \in Int
         /\ 10 * n \in Nat \ {0} /\ 10 * (n + m) \in Nat \ {0}
    OBVIOUS
  <1>11. ClampScore(10 * (n + m) * (b - 15 * m) + v, 10 * (n + m)) <= ClampScore(10 * n * b + u, 10 * n)
    BY <1>9, <1>10, RoundingAtMost
  <1>12. /\ 10 * Cardinality(x) * Base(c, x) + 2 * g[x] + h[x] = 10 * n * b + u
         /\ 10 * Cardinality(y) * Base(c, y) + 2 * k[y] + l[y] = 10 * (n + m) * (b - 15 * m) + v
    <2>1. 10 * n * b \in Int /\ 10 * (n + m) * (b - 15 * m) \in Int
      BY <1>10
    <2> QED BY <1>1, <1>2, <1>3, <1>8, <2>1
  <1> QED BY <1>1, <1>2, <1>3, <1>11, <1>12

LEMMA ConfidenceAges ==
    ASSUME NEW x \in Evidence, NEW c, NEW d \in Nat, NEW n \in Nat, d <= n
    PROVE  ConfidenceOf(Brain, c, x, n) <= ConfidenceOf(Brain, c, x, d)
  <1>1. CASE x = {}
    <2>1. Cardinality(x) = 0
      BY <1>1, FS_EmptySet
    <2>2. \A t : ConfidenceOf(Brain, c, x, t) = IF FitScore(Brain, c) >= 55 THEN 40 ELSE 30
      BY <2>1, Zenon DEF ConfidenceOf
    <2>3. ConfidenceOf(Brain, c, x, n) = ConfidenceOf(Brain, c, x, d)
      BY <2>2, Zenon
    <2> QED BY <2>3, PercentTypes
  <1>2. CASE x # {}
    <2>1. PICK g, h : /\ ConfidenceSum(g, x) /\ g[x] \in Int
                      /\ FreshnessSum(h, x, d) /\ h[x] \in Int
                      /\ ConfidenceOf(Brain, c, x, d)
                            = ClampScore(10 * Cardinality(x) * Base(c, x) + 2 * g[x] + h[x],
                                         10 * Cardinality(x))
      BY <1>2, ConfidenceIsSum
    <2>2. PICK k, l : /\ ConfidenceSum(k, x) /\ k[x] \in Int
                      /\ FreshnessSum(l, x, n) /\ l[x] \in Int
                      /\ ConfidenceOf(Brain, c, x, n)
                            = ClampScore(10 * Cardinality(x) * Base(c, x) + 2 * k[x] + l[x],
                                         10 * Cardinality(x))
      BY <1>2, ConfidenceIsSum
    <2>3. PICK i \in Nat \ {0}, b \in Int : i = Cardinality(x) /\ b = Base(c, x)
      BY <1>2, BaseTypes, FS_EmptySet, FS_CardinalityType DEF Evidence
    <2>4. IsFiniteSet(x) /\ x \in SUBSET x /\ \A s \in x : s \in Signals
      BY DEF Evidence
    <2>5. k[x] = g[x]
      <3> DEFINE f == [s \in x |-> Of(s).confidence]
      <3>1. IsSum(g, f, x) /\ IsSum(k, f, x)
        BY <2>1, <2>2 DEF ConfidenceSum
      <3>2. f \in [x -> Int] /\ \A s \in x : f[s] = f[s]
        BY <2>4, SignalTypes
      <3> HIDE DEF f
      <3> QED BY <2>4, <3>1, <3>2, SumAgrees
    <2>6. l[x] <= h[x]
      <3> DEFINE f == [s \in x |-> Decay(Age(s, n))]
                 e == [s \in x |-> Decay(Age(s, d))]
      <3>1. IsSum(l, f, x) /\ IsSum(h, e, x)
        BY <2>1, <2>2 DEF FreshnessSum
      <3>2. \A s \in x : Age(s, d) \in Nat /\ Age(s, n) \in Nat /\ Age(s, d) <= Age(s, n)
        BY <2>4, Ages
      <3>3. \A s \in x : /\ Decay(Age(s, d)) \in Int /\ Decay(Age(s, n)) \in Int
                         /\ Decay(Age(s, n)) <= Decay(Age(s, d))
        BY <3>2, Decays
      <3>4. f \in [x -> Int] /\ e \in [x -> Int] /\ \A s \in x : f[s] <= e[s]
        BY <3>3
      <3> HIDE DEF f, e
      <3> QED BY <2>4, <3>1, <3>4, SumAtMost
    <2>7. PICK u \in Int, v \in Int : u = 2 * g[x] + h[x] /\ v = 2 * k[x] + l[x] /\ v <= u
      BY <2>1, <2>2, <2>5, <2>6
    <2>8. PICK w \in Int, z \in Int : w = 10 * i * b + u /\ z = 10 * i * b + v /\ z <= w
      <3>1. 10 * i * b \in Int
        OBVIOUS
      <3> QED BY <2>7, <3>1
    <2>9. 10 * i \in Nat \ {0} /\ z * (10 * i) <= w * (10 * i)
      <3>1. 10 * i \in Nat \ {0} /\ 10 * i \in Int /\ 10 * i >= 0
        OBVIOUS
      <3> QED BY <2>8, <3>1, Products
    <2>10. ClampScore(z, 10 * i) <= ClampScore(w, 10 * i)
      BY <2>9, RoundingAtMost
    <2>11. /\ 10 * Cardinality(x) * Base(c, x) + 2 * g[x] + h[x] = w
           /\ 10 * Cardinality(x) * Base(c, x) + 2 * k[x] + l[x] = z
      <3>1. 10 * i * b \in Int
        OBVIOUS
      <3> QED BY <2>1, <2>2, <2>3, <2>7, <2>8, <3>1
    <2> QED BY <2>1, <2>2, <2>3, <2>10, <2>11
  <1> QED BY <1>1, <1>2

------------------------------------------------------------------------------
(* Assessments.                                                             *)
Overall(c, x, d) ==
    ClampScore(40 * FitScore(Brain, c) + 35 * IntentOf(Brain, c, x) + 25 * TimingOf(Brain, x, d), 100)

LEMMA OverallFollows ==
    ASSUME NEW x \in Evidence, NEW y \in Evidence, NEW c, NEW d \in Nat, NEW n \in Nat,
           IntentOf(Brain, c, y) <= IntentOf(Brain, c, x),
           TimingOf(Brain, y, n) <= TimingOf(Brain, x, d)
    PROVE  /\ Overall(c, x, d) \in 0 .. 100 /\ Overall(c, y, n) \in 0 .. 100
           /\ Overall(c, y, n) <= Overall(c, x, d)
  <1>1. PICK f, i, j, s, t \in 0 .. 100 :
           /\ f = FitScore(Brain, c)
           /\ i = IntentOf(Brain, c, x) /\ j = IntentOf(Brain, c, y)
           /\ s = TimingOf(Brain, x, d) /\ t = TimingOf(Brain, y, n)
    BY FitTypes, PercentTypes
  <1>2. PICK u, v \in Int : /\ u = 40 * f + 35 * i + 25 * s /\ v = 40 * f + 35 * j + 25 * t
                           /\ v * 100 <= u * 100
    BY <1>1
  <1>3. /\ ClampScore(u, 100) \in 0 .. 100 /\ ClampScore(v, 100) \in 0 .. 100
        /\ ClampScore(v, 100) <= ClampScore(u, 100)
    <2>1. 100 \in Nat \ {0}
      OBVIOUS
    <2> QED BY <1>2, <2>1, Rounding, RoundingAtMost
  <1> QED BY <1>1, <1>2, <1>3 DEF Overall

LEMMA CitesTypes ==
    ASSUME NEW x \in Evidence, NEW c, NEW d
    PROVE  Cited(Brain, c, x, d) \subseteq Signals
  <1> DEFINE Good == {T \in SUBSET x : T = {} \/ Latest(T) # {}}
  <1>1. ASSUME NEW T \in SUBSET x, \A s \in T : T \ {s} \in Good PROVE T \in Good
    <2>1. \A s \in x : s.occurred \in Int
      BY SignalTypes DEF Evidence
    <2>2. CASE T = {}
      BY <2>2
    <2>3. CASE T # {}
      <3>1. PICK s : s \in T
        BY <2>3
      <3>2. CASE T \ {s} = {}
        <4>1. s \in Latest(T)
          BY <2>1, <3>1, <3>2 DEF Latest
        <4> QED BY <4>1
      <3>3. CASE T \ {s} # {}
        <4>1. PICK l : l \in Latest(T \ {s})
          BY <1>1, <3>1, <3>3
        <4>2. l \in T /\ \A r \in T \ {s} : r.occurred <= l.occurred
          BY <4>1 DEF Latest
        <4>3. l \in Latest(T) \/ s \in Latest(T)
          BY <2>1, <3>1, <4>2 DEF Latest
        <4> QED BY <4>3
      <3> QED BY <3>2, <3>3
    <2> QED BY <2>2, <2>3
  <1>2. \A T \in SUBSET x : T \in Good
    <2> HIDE DEF Good
    <2> QED BY <1>1, SubsetInduction DEF Evidence
  <1>3. x # {} => Citable(x) # {} /\ Citable(x) \subseteq x
    <2>1. \A T \in SUBSET x : T # {} => Latest(T) # {} /\ Latest(T) \subseteq x
      BY <1>2 DEF Latest
    <2> QED BY <2>1 DEF Citable
  <1>4. Timely(Brain, c, x, d) => (CHOOSE s \in Citable(x) : TRUE) \in x
    <2>1. Timely(Brain, c, x, d) => x # {}
      BY DEF Timely
    <2> QED BY <1>3, <2>1
  <1> QED BY <1>4 DEF Cited, Evidence

\* What the table of the assessments says.
LEMMA ScoresAre ==
    ASSUME NEW c \in Candidates, NEW x \in SUBSET Signals, NEW d \in Days
    PROVE  Scores(c, x, d) = Assessment(Brain, c, x, d)
  <1>1. \E row \in Assessments : row.of = <<c, x, d>>
    <2>1. [of |-> <<c, x, d>>, scores |-> Assessment(Brain, c, x, d)] \in Assessments
      <3> DEFINE A(cc, xx, dd) == Assessment(Brain, cc, xx, dd)
      <3>1. Assessments = {[of |-> <<cc, xx, dd>>, scores |-> A(cc, xx, dd)] :
                              cc \in Candidates, xx \in SUBSET Signals, dd \in Days}
        BY DEF Assessments
      <3> HIDE DEF A
      <3>2. [of |-> <<c, x, d>>, scores |-> A(c, x, d)] \in Assessments
        BY <3>1, SMT
      <3> QED BY <3>2 DEF A
    <2> QED BY <2>1
  <1>2. \A row \in Assessments : row.of = <<c, x, d>> => row.scores = Assessment(Brain, c, x, d)
    <2> SUFFICES ASSUME NEW row \in Assessments, row.of = <<c, x, d>>
                 PROVE  row.scores = Assessment(Brain, c, x, d)
      OBVIOUS
    <2>1. PICK cc \in Candidates, xx \in SUBSET Signals, dd \in Days :
             row = [of |-> <<cc, xx, dd>>, scores |-> Assessment(Brain, cc, xx, dd)]
      BY DEF Assessments
    <2>2. cc = c /\ xx = x /\ dd = d
      BY <2>1
    <2> QED BY <2>1, <2>2
  <1> QED BY <1>1, <1>2 DEF Scores

\* What assessWhyNow returns.
ScoreTypes ==
    [fit : Score, intent : Score, timing : Score, overall : Score, confidence : Score,
     opening : {"weak fit", "strong fit", "moderate fit", "limited fit"},
     reason : {"no signal", "until fit improves", "timely now", "stale", "sparse", "mixed"},
     cites : SUBSET Signals]

LEMMA AssessmentTypes ==
    ASSUME NEW x \in Evidence, NEW c, NEW d \in Nat
    PROVE  Assessment(Brain, c, x, d) \in ScoreTypes
  <1>1. /\ FitScore(Brain, c) \in Score /\ IntentOf(Brain, c, x) \in Score
        /\ TimingOf(Brain, x, d) \in Score /\ ConfidenceOf(Brain, c, x, d) \in Score
    BY FitTypes, PercentTypes DEF Score
  <1>2. ClampScore(40 * FitScore(Brain, c) + 35 * IntentOf(Brain, c, x) + 25 * TimingOf(Brain, x, d), 100)
          \in Score
    <2>1. Overall(c, x, d) \in 0 .. 100
      BY <1>1, OverallFollows DEF Score
    <2> QED BY <2>1 DEF Overall, Score
  <1>3. Opening(Brain, c) \in {"weak fit", "strong fit", "moderate fit", "limited fit"}
    BY DEF Opening
  <1>4. Reason(Brain, c, x, d)
          \in {"no signal", "until fit improves", "timely now", "stale", "sparse", "mixed"}
    BY DEF Reason
  <1>5. Cited(Brain, c, x, d) \in SUBSET Signals
    BY CitesTypes
  <1> QED BY <1>1, <1>2, <1>3, <1>4, <1>5 DEF Assessment, ScoreTypes

LEMMA SnapshotTypes ==
    ASSUME NEW x \in Evidence, NEW c \in Candidates, NEW d \in Days
    PROVE  Scores(c, x, d) \in ScoreTypes
  <1>1. d \in Nat /\ x \in SUBSET Signals
    BY WhyNowAssumption DEF Evidence
  <1> QED
    BY <1>1, ScoresAre, AssessmentTypes

------------------------------------------------------------------------------
(* The scores of the snapshots.                                             *)

\* What is left of the types, and what the scores of a snapshot are.
Scored ==
    /\ IsFiniteSet(signals)
    /\ \A i \in DOMAIN snapshots :
          snapshots[i].scores = Scores(candidate, snapshots[i].signals, snapshots[i].day)
    /\ requests \in Nat /\ turns \in Nat /\ ready \in BOOLEAN
    /\ mishaps \in [faults : Nat, restarts : Nat]

\* How a step changes what Scored is about.
Grow ==
    /\ candidate' = candidate
    /\ signals' = signals \/ \E s : signals' = signals \union {s}
    /\ snapshots' = snapshots \/ \E p \in Procs : snapshots' = Append(snapshots, Snapshot(p))
    /\ requests' \in {requests, requests + 1} /\ turns' \in {turns, turns + 1}
    /\ ready' = ready \/ ready' \in BOOLEAN
    /\ \/ mishaps' = mishaps
       \/ \E kind \in {"faults", "restarts"} : mishaps' = [mishaps EXCEPT ![kind] = @ + 1]

\* Every step changes it so.
LEMMA StepsGrow == [Next]_vars => Grow
  <1> SUFFICES ASSUME [Next]_vars PROVE Grow
    OBVIOUS
  <1>1. CASE \E a \in Admins : Ingest(a) \/ ScoreNow(a)
    BY <1>1 DEF Ingest, ScoreNow, Request, Grow, world
  <1>2. CASE ScoreLater
    BY <1>2 DEF ScoreLater, Grow, world
  <1>3. ASSUME NEW p \in Procs, Execute(p) \/ Throws(p) \/ WorkerDies(p)
        PROVE  Grow
    <2>1. CASE Start(p) \/ BrainNotReady(p) \/ Find(p) \/ Read(p)
      BY <2>1 DEF Start, BrainNotReady, Find, Read, Grow, world
    <2>2. CASE Persist(p)
      BY <2>2 DEF Persist, Grow, world
    <2>3. CASE Create(p)
      BY <2>3 DEF Create, Grow, world
    <2>4. CASE Done(p) \/ AttemptFailed(p)
      BY <2>4 DEF Done, AttemptFailed, Settle, Grow, world
    <2>5. CASE Throws(p) \/ WorkerDies(p)
      BY <2>5 DEF Throws, WorkerDies, Mishap, Grow, world
    <2> QED
      BY <1>3, <2>1, <2>2, <2>3, <2>4, <2>5 DEF Execute
  <1>4. CASE \E j \in DOMAIN jobs : Reclaim(j) \/ \E w \in Workers : Take(w, j)
    BY <1>4 DEF Reclaim, Take, Grow, world
  <1>5. CASE BrainTurns
    BY <1>5 DEF BrainTurns, Turn, Grow
  <1>6. CASE Later
    BY <1>6 DEF Later, Turn, Grow
  <1>7. CASE UNCHANGED vars
    BY <1>7 DEF vars, Grow
  <1> QED
    BY <1>1, <1>2, <1>3, <1>4, <1>5, <1>6, <1>7 DEF Next

LEMMA InitScored == Init => Scored
  <1> SUFFICES ASSUME Init PROVE Scored
    OBVIOUS
  <1>1. IsFiniteSet({}) /\ signals = {}
    BY FS_EmptySet DEF Init
  <1> QED
    BY <1>1 DEF Init, Scored

LEMMA NextScored == Inv /\ Scored /\ [Next]_vars => Scored'
  <1> SUFFICES ASSUME Inv, Scored, [Next]_vars PROVE Scored'
    OBVIOUS
  <1>1. Grow
    BY StepsGrow
  <1>2. IsFiniteSet(signals')
    <2>1. \A s : IsFiniteSet(signals \union {s})
      BY FS_AddElement DEF Scored
    <2>2. CASE signals' = signals
      BY <2>2 DEF Scored
    <2>3. CASE \E s : signals' = signals \union {s}
      <3>1. PICK s : signals' = signals \union {s}
        BY <2>3
      <3>2. IsFiniteSet(signals \union {s})
        BY <2>1
      <3> QED
        BY <3>1, <3>2
    <2> QED
      BY <1>1, <2>2, <2>3 DEF Grow
  <1>3. \A i \in DOMAIN snapshots' :
           snapshots'[i].scores = Scores(candidate', snapshots'[i].signals, snapshots'[i].day)
    <2>1. CASE snapshots' = snapshots
      BY <1>1, <2>1 DEF Grow, Scored
    <2>2. ASSUME NEW p \in Procs, snapshots' = Append(snapshots, Snapshot(p))
          PROVE  \A i \in DOMAIN snapshots' :
                    snapshots'[i].scores = Scores(candidate', snapshots'[i].signals, snapshots'[i].day)
      <3>1. PICK x : x = Snapshot(p)
        OBVIOUS
      <3>2. x.scores = Scores(candidate, x.signals, x.day)
        BY <3>1 DEF Snapshot
      <3>3. snapshots \in Seq(Shot)
        BY DEF Inv, Typed
      <3>4. \A i \in DOMAIN snapshots' : \/ (i \in DOMAIN snapshots /\ snapshots'[i] = snapshots[i])
                                         \/ snapshots'[i] = x
        BY <2>2, <3>1, <3>3
      <3> QED
        BY <1>1, <3>2, <3>4 DEF Grow, Scored
    <2> QED
      BY <1>1, <2>1, <2>2 DEF Grow
  <1>4. requests' \in Nat /\ turns' \in Nat
    BY <1>1 DEF Grow, Scored
  <1>5. ready' \in BOOLEAN
    BY <1>1, Zenon DEF Grow, Scored
  <1>6. mishaps' \in [faults : Nat, restarts : Nat]
    BY <1>1 DEF Grow, Scored
  <1> QED
    BY <1>2, <1>3, <1>4, <1>5, <1>6 DEF Scored

\* The scores of every snapshot are those of its signals on its day.
THEOREM Scoring == Spec => [](Inv /\ Scored)
  <1>1. Init => Inv /\ Scored
    BY InitInv, InitScored
  <1>2. (Inv /\ Scored) /\ [Next]_vars => (Inv /\ Scored)'
    BY NextInv, NextScored
  <1> QED
    BY <1>1, <1>2, PTL DEF Spec

\* The types, of the scores, too: each is a percentage, and what the explanation cites is a
\* signal.
THEOREM Typing == Spec => []TypeOK
  <1>1. Inv /\ Scored => TypeOK
    <2> SUFFICES ASSUME Inv, Scored PROVE TypeOK
      OBVIOUS
    <2>1. snapshots \in Seq(Shot) /\ candidate \in Candidates
      BY DEF Inv, Typed
    <2>2. ASSUME NEW i \in DOMAIN snapshots
          PROVE  snapshots[i] \in Snapshots
      <3>1. snapshots[i] \in Shot /\ snapshots[i].signals \subseteq signals
        BY <2>1 DEF Inv, SnapshotCoversEvidence
      <3>2. snapshots[i].signals \in Evidence /\ snapshots[i].day \in Days
        BY <3>1, FS_Subset DEF Evidence, Scored, Shot
      <3>3. snapshots[i].scores \in ScoreTypes
        BY <2>1, <3>2, SnapshotTypes DEF Scored
      <3> QED
        BY <3>1, <3>3 DEF Shot, Snapshots, ScoreTypes
    <2>3. snapshots \in Seq(Snapshots)
      BY <2>1, <2>2
    <2> QED
      BY <2>3 DEF Inv, Typed, Scored, TypeOK
  <1> QED
    BY <1>1, Scoring, PTL

\* The same positive evidence on a later day: no higher timing, confidence and overall.
LEMMA LaterIsNotAbove ==
    ASSUME NEW c, NEW x \in Evidence, \A s \in x : ~Negative(s), NEW d \in Nat, NEW n \in Nat, d <= n
    PROVE  NotAbove([scores |-> Assessment(Brain, c, x, n)], [scores |-> Assessment(Brain, c, x, d)],
                    {"timing", "confidence", "overall"})
  <1>1. /\ TimingOf(Brain, x, n) <= TimingOf(Brain, x, d)
        /\ ConfidenceOf(Brain, c, x, n) <= ConfidenceOf(Brain, c, x, d)
    BY TimingAges, ConfidenceAges
  <1>2. IntentOf(Brain, c, x) <= IntentOf(Brain, c, x)
    BY PercentTypes
  <1>3. Overall(c, x, n) <= Overall(c, x, d)
    BY <1>1, <1>2, OverallFollows
  <1> QED
    BY <1>1, <1>3 DEF NotAbove, Assessment, Overall

\* The same evidence and conflicts, on the same day: no score higher but the fit's, and the
\* confidence no higher where there was evidence before.
LEMMA WorseIsNotAbove ==
    ASSUME NEW c, NEW x \in Evidence, NEW y \in Evidence, Worsens(x, y), NEW d \in Nat
    PROVE  /\ NotAbove([scores |-> Assessment(Brain, c, y, d)], [scores |-> Assessment(Brain, c, x, d)],
                       {"intent", "timing", "overall"})
           /\ x # {} => NotAbove([scores |-> Assessment(Brain, c, y, d)],
                                 [scores |-> Assessment(Brain, c, x, d)], {"confidence"})
  <1>1. /\ IntentOf(Brain, c, y) <= IntentOf(Brain, c, x)
        /\ TimingOf(Brain, y, d) <= TimingOf(Brain, x, d)
    BY IntentWorsens, TimingWorsens
  <1>2. Overall(c, y, d) <= Overall(c, x, d)
    BY <1>1, OverallFollows
  <1>3. ASSUME x # {}
        PROVE  ConfidenceOf(Brain, c, y, d) <= ConfidenceOf(Brain, c, x, d)
    BY <1>3, ConfidenceWorsens
  <1> QED
    BY <1>1, <1>2, <1>3 DEF NotAbove, Assessment, Overall

\* Of the snapshots of a candidate, the one of the same positive evidence on a later day has no
\* higher timing, confidence and overall, and the one of more conflicts on the same day no
\* higher intent, timing and overall (assessWhyNow), whatever the evidence; no higher
\* confidence either, but only if there was evidence before: a first conflict on no evidence
\* can raise it (why-now-scoring.ts:154-168, ConflictLowersConfidence).
THEOREM EvidenceRules == Spec => []PriorityFollowsEvidence
  <1>1. Inv /\ Scored => PriorityFollowsEvidence
    <2> SUFFICES ASSUME Inv, Scored, NEW i \in DOMAIN snapshots, NEW j \in DOMAIN snapshots,
                        NEW x, x = snapshots[i], NEW y, y = snapshots[j]
                 PROVE  /\ (x.signals = y.signals /\ ~(\E s \in x.signals : Negative(s)) /\ x.day <= y.day)
                             => NotAbove(y, x, {"timing", "confidence", "overall"})
                        /\ OnlyConflictsAdded(x, y) =>
                              /\ NotAbove(y, x, {"intent", "timing", "overall"})
                              /\ x.signals # {} => NotAbove(y, x, {"confidence"})
      BY DEF PriorityFollowsEvidence
    <2>1. candidate \in Candidates /\ x \in Shot /\ y \in Shot /\ Days \subseteq Nat
          /\ x.signals \subseteq signals /\ y.signals \subseteq signals
      BY WhyNowAssumption DEF Inv, Typed, SnapshotCoversEvidence
    <2>2. /\ x.signals \in Evidence /\ x.day \in Days /\ x.day \in Nat
          /\ y.signals \in Evidence /\ y.day \in Days /\ y.day \in Nat
          /\ x.signals \in SUBSET Signals /\ y.signals \in SUBSET Signals
      BY <2>1, FS_Subset DEF Evidence, Scored, Shot
    <2>3. /\ x.scores = Assessment(Brain, candidate, x.signals, x.day)
          /\ y.scores = Assessment(Brain, candidate, y.signals, y.day)
      <3>1. /\ x.scores = Scores(candidate, x.signals, x.day)
            /\ y.scores = Scores(candidate, y.signals, y.day)
        BY DEF Scored
      <3> QED
        BY <2>1, <2>2, <3>1, ScoresAre
    <2>4. ASSUME x.signals = y.signals, ~(\E s \in x.signals : Negative(s)), x.day <= y.day
          PROVE  NotAbove(y, x, {"timing", "confidence", "overall"})
      <3>1. NotAbove([scores |-> Assessment(Brain, candidate, x.signals, y.day)],
                     [scores |-> Assessment(Brain, candidate, x.signals, x.day)],
                     {"timing", "confidence", "overall"})
        BY <2>2, <2>4, LaterIsNotAbove
      <3> QED
        BY <2>3, <2>4, <3>1 DEF NotAbove
    <2>5. ASSUME OnlyConflictsAdded(x, y)
          PROVE  /\ NotAbove(y, x, {"intent", "timing", "overall"})
                 /\ x.signals # {} => NotAbove(y, x, {"confidence"})
      <3>1. Worsens(x.signals, y.signals) /\ x.day = y.day
        BY <2>5 DEF OnlyConflictsAdded, Worsens
      <3>2. /\ NotAbove([scores |-> Assessment(Brain, candidate, y.signals, x.day)],
                        [scores |-> Assessment(Brain, candidate, x.signals, x.day)],
                        {"intent", "timing", "overall"})
            /\ x.signals # {} =>
                  NotAbove([scores |-> Assessment(Brain, candidate, y.signals, x.day)],
                           [scores |-> Assessment(Brain, candidate, x.signals, x.day)], {"confidence"})
        BY <2>2, <3>1, WorseIsNotAbove
      <3> QED
        BY <2>3, <3>1, <3>2 DEF NotAbove
    <2> QED
      BY <2>4, <2>5
  <1> QED
    BY <1>1, Scoring, PTL
==============================================================================
