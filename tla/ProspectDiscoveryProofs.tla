----------------------- MODULE ProspectDiscoveryProofs -----------------------
(***************************************************************************)
(* Proofs about ProspectDiscovery for every number of admins, workers,      *)
(* prospects and mishaps.  The inductive invariant Inv has three parts:     *)
(* Typed, the types and what the job, the run and the workers have to do     *)
(* with each other; Sound, what rows and requests know of approvals and of   *)
(* the CRM's companies; and Alone, which holds while no requests on rival    *)
(* prospects overlap and says that a row is as its only request left it.    *)
(* Counted, at the end, counts what overlapping requests add to the CRM.    *)
(***************************************************************************)
EXTENDS ProspectDiscovery, SequenceTheorems, FiniteSetTheorems, TLAPS

Looking == {"lookup", "lookup_failed", "duplicate", "possible", "call", "record"}
Named == {"recover", "record", "created", "audit"}  \* the request knows the company's id
Creating == Looking \union Named \union {"checkpoint", "catch"}
OnRow == Creating \union {"approve", "reject"}

Companies == [name : {Name[p] : p \in Prospects} \union {x.name : x \in UserCompanies},
              domain : {Domain[p] : p \in Prospects} \union {Site[p] : p \in Prospects}
                          \union {x.domain : x \in UserCompanies},
              row : Nat]

Empty(q) == q.row = 0 /\ q.known = 0 /\ q.id = 0

Jobs == [state : {"none", "waiting", "active", "completed", "failed"},
         attemptsMade : 0 .. MaxAttempts, stalled : 0 .. MaxStalled + 1,
         owner : Workers \union {NoWorker}]

JobShape ==
    /\ job.state # "failed" => job.attemptsMade < MaxAttempts /\ job.stalled <= MaxStalled
    /\ job.owner \in Workers => job.state = "active"
    /\ run = "none" => job.state = "none" /\ \A a \in Admins : req[a].at # "enqueue"
    /\ \A a, b \in Admins : req[a].at = "enqueue" /\ req[b].at = "enqueue" => a = b
    /\ \A a \in Admins : req[a].at = "enqueue" => job.state = "none"

Typed ==
    /\ TypeOK
    /\ crm \in Seq(Companies)
    /\ \A a \in Admins : IF req[a].at \in OnRow THEN req[a].row \in DOMAIN cand
                                                ELSE Empty(req[a])
    /\ \A w \in Workers : work[w].at = "propose" => work[w].found # <<>>
    /\ JobShape

\* id is no company, or one created for row c.
Owned(c, id) == id # 0 => id \in DOMAIN crm /\ crm[id].row = c

\* Row r of candidate c.
RowFits(c, r) ==
    /\ r.status \in {"APPROVED", "FAILED", "CREATED"} => c \in approved
    /\ Owned(c, r.created) /\ Owned(c, r.checkpoint)
    /\ r.status = "CREATED" => r.created # 0
RowSound(c) == RowFits(c, cand[c])

RequestSound(q) ==
    /\ q.at \in Creating => q.row \in approved
    /\ Owned(q.row, q.known) /\ Owned(q.row, q.id)
    /\ q.at \in Named => q.id # 0

Sound ==
    /\ \A c \in DOMAIN cand : RowSound(c)
    /\ \A a \in Admins : RequestSound(req[a])
    /\ WrittenWasApproved

\* What request q read of its row still holds.
Fresh(q) ==
    LET r == cand[q.row]
    IN  /\ q.at = "approve" => r.status \in {"PROPOSED", "FAILED"}
        /\ q.at \in Creating => r.status \in {"APPROVED", "FAILED", "CREATED"}
        /\ q.at = "checkpoint" => q.known = r.created
        /\ q.at \in Looking => ~Known(r) /\ q.known = 0
        /\ q.at = "catch" /\ Known(r) => q.id # 0

Alone ==
    mishaps.overlaps = 0 =>
        /\ \A a, b \in Admins : req[a].at \in OnRow /\ req[b].at \in OnRow /\ a # b =>
              req[a].row # req[b].row
        /\ \A a \in Admins : req[a].at \in OnRow => Fresh(req[a])

Inv == Typed /\ Sound /\ Alone

------------------------------------------------------------------------------
LEMMA InitInv == Init => Inv
  <1> SUFFICES ASSUME Init PROVE Inv
    OBVIOUS
  <1>1. Typed
    BY DiscoveryAssumption DEF Init, Typed, TypeOK, JobShape, NoRequest, NoWork, Requests, Work,
       InTry, Empty, OnRow, Creating, Looking, Named
  <1>2. Sound
    BY DEF Init, Sound, WrittenWasApproved, Made, RequestSound, Owned, NoRequest, Creating, Looking, Named
  <1>3. Alone
    BY DEF Init, Alone, NoRequest, Empty, OnRow, Creating, Looking, Named
  <1> QED
    BY <1>1, <1>2, <1>3 DEF Inv

------------------------------------------------------------------------------
(* Steps of a request.  Each names what its request and its row become.     *)

LEMMA MishapTypes ==
    ASSUME Inv, NEW kind \in {"faults", "restarts", "stalls", "overlaps"}, Mishap(kind)
    PROVE  /\ mishaps' \in [faults : Nat, restarts : Nat, stalls : Nat, overlaps : Nat]
           /\ mishaps'.overlaps = IF kind = "overlaps" THEN mishaps.overlaps + 1 ELSE mishaps.overlaps
  <1>1. mishaps' = [mishaps EXCEPT ![kind] = @ + 1]
    BY DEF Mishap, Mishaps
  <1> QED
    BY <1>1 DEF Inv, Typed, TypeOK

\* The mishaps of a step that may be one: overlaps are only added.
Onward == /\ mishaps' \in [faults : Nat, restarts : Nat, stalls : Nat, overlaps : Nat]
          /\ mishaps'.overlaps = 0 => mishaps.overlaps = 0
          /\ mishaps.overlaps <= mishaps'.overlaps

LEMMA MishapOnward ==
    ASSUME Inv, NEW kind \in {"faults", "restarts", "stalls", "overlaps"},
           Mishap(kind) \/ UNCHANGED mishaps
    PROVE  Onward
  BY MishapTypes DEF Onward, Inv, Typed, TypeOK

\* Beginning beside the rivals under way counts every one of them.
LEMMA OverlapsCounted ==
    ASSUME Inv, NEW p, Mishaps("overlaps", Cardinality(Underway(p)))
    PROVE  /\ IsFiniteSet(Underway(p)) /\ Cardinality(Underway(p)) \in Nat
           /\ mishaps'.overlaps = mishaps.overlaps + Cardinality(Underway(p))
           /\ Onward
           /\ mishaps'.overlaps = 0 => Underway(p) = {}
  <1>1. IsFiniteSet(Underway(p))
    BY DiscoveryAssumption, FS_Subset DEF Underway
  <1>2. PICK n : n = Cardinality(Underway(p))
    OBVIOUS
  <1>3. n \in Nat /\ (n = 0 => Underway(p) = {})
    BY <1>1, <1>2, FS_CardinalityType, FS_EmptySet
  <1>4. mishaps \in [faults : Nat, restarts : Nat, stalls : Nat, overlaps : Nat]
    BY DEF Inv, Typed, TypeOK
  <1>5. mishaps' = [mishaps EXCEPT !.overlaps = @ + n]
    BY <1>2 DEF Mishaps
  <1>6. mishaps'.overlaps = mishaps.overlaps + n /\ Onward /\ (mishaps'.overlaps = 0 => n = 0)
    BY <1>3, <1>4, <1>5 DEF Onward
  <1> QED
    BY <1>1, <1>2, <1>3, <1>6

\* A request on a row goes on or ends and writes its row, no company.
LEMMA RowStep ==
    ASSUME Inv, NEW a \in Admins, NEW row \in Candidates, NEW to \in Requests,
           req[a].at \in OnRow,
           req' = [req EXCEPT ![a] = to], cand' = [cand EXCEPT ![req[a].row] = row],
           to = NoRequest \/ (to.at \in OnRow /\ to.row = req[a].row),
           approved' = approved \/ approved' = approved \union {req[a].row},
           UNCHANGED <<run, job, crm, work>>, Onward,
           row.prospect = Row(a).prospect,
           \A c \in {req[a].row} : RowSound(c)', RequestSound(to)',
           mishaps.overlaps = 0 /\ to # NoRequest => Fresh(to)'
    PROVE  Inv'
  <1> DEFINE c == req[a].row
  <1>0. c \in DOMAIN cand /\ cand \in Seq(Candidates) /\ req \in [Admins -> Requests]
    BY DEF Inv, Typed, TypeOK
  <1>1. cand' \in Seq(Candidates) /\ Len(cand') = Len(cand) /\ DOMAIN cand' = DOMAIN cand
    BY <1>0
  <1>2. Typed'
    <2>1. TypeOK'
      BY <1>0, <1>1 DEF Inv, Typed, TypeOK, Onward
    <2>2. JobShape'
      BY <1>0 DEF Inv, Typed, JobShape, NoRequest, Empty, OnRow, Creating, Looking, Named
    <2> QED
      BY <1>0, <1>1, <2>1, <2>2 DEF Inv, Typed, NoRequest, Empty, OnRow, Creating, Looking, Named
  <1>3. Sound'
    <2>1. \A d \in DOMAIN cand' : RowSound(d)'
      BY <1>0, <1>1 DEF Inv, Sound, RowSound, RowFits, Owned
    <2>2. \A b \in Admins : RequestSound(req[b])'
      BY <1>0 DEF Inv, Sound, RequestSound, Owned
    <2> QED
      BY <2>1, <2>2 DEF Inv, Sound, WrittenWasApproved, Made
  <1>4. Alone'
    <2> SUFFICES ASSUME mishaps'.overlaps = 0 PROVE Alone'
      BY DEF Alone
    <2>0. mishaps.overlaps = 0
      BY DEF Onward
    <2>1. \A b, d \in Admins : req'[b].at \in OnRow /\ req'[d].at \in OnRow /\ b # d =>
             req'[b].row # req'[d].row
      BY <1>0, <2>0 DEF Inv, Alone, NoRequest, Empty, OnRow, Creating, Looking, Named
    <2>2. ASSUME NEW b \in Admins, req'[b].at \in OnRow PROVE Fresh(req[b])'
      <3>1. CASE b = a
        BY <1>0, <2>0, <2>2, <3>1 DEF NoRequest, Empty, OnRow, Creating, Looking, Named
      <3>2. CASE b # a
        <4>1. req'[b] = req[b] /\ cand'[req[b].row] = cand[req[b].row]
          BY <1>0, <2>0, <2>2, <3>2 DEF Inv, Alone
        <4> QED
          BY <1>0, <2>0, <2>2, <4>1 DEF Inv, Alone, Fresh
      <3> QED
        BY <3>1, <3>2
    <2> QED
      BY <2>1, <2>2 DEF Alone
  <1> QED
    BY <1>2, <1>3, <1>4 DEF Inv

\* A request on a row goes on or ends and writes nothing.
LEMMA ReadStep ==
    ASSUME Inv, NEW a \in Admins, NEW to \in Requests,
           req[a].at \in OnRow,
           req' = [req EXCEPT ![a] = to],
           to = NoRequest \/ (to.at \in OnRow /\ to.row = req[a].row),
           UNCHANGED <<run, job, cand, crm, work, approved>>, Onward,
           RequestSound(to),
           mishaps.overlaps = 0 /\ to # NoRequest => Fresh(to)
    PROVE  Inv'
  <1> DEFINE c == req[a].row
  <1>1. c \in DOMAIN cand /\ cand \in Seq(Candidates)
    BY DEF Inv, Typed, TypeOK
  <1>2. cand' = [cand EXCEPT ![c] = cand[c]] /\ cand[c] \in Candidates
    BY <1>1
  <1>3. (\A d \in {req[a].row} : RowSound(d)') /\ RequestSound(to)'
    BY <1>1 DEF Inv, Sound, RowSound, RowFits, RequestSound, Owned
  <1>4. mishaps.overlaps = 0 /\ to # NoRequest => Fresh(to)'
    BY DEF Fresh
  <1> QED
    BY <1>2, <1>3, <1>4, RowStep DEF Row

\* A request ends without having written anything.
LEMMA EndStep ==
    ASSUME Inv, NEW a \in Admins, req[a].at \in OnRow, Answer(a, NoRequest),
           UNCHANGED <<run, job, cand, crm, work, approved>>, Onward
    PROVE  Inv'
  <1>1. NoRequest \in Requests /\ RequestSound(NoRequest)
    BY DEF NoRequest, Requests, RequestSound, Owned, Creating, Looking, Named, InTry
  <1> QED
    BY <1>1, ReadStep DEF Answer

\* What the invariant says of a request that stands on a row.
LEMMA Standing ==
    ASSUME Inv, NEW a \in Admins, req[a].at \in OnRow
    PROVE  /\ req[a] \in Requests /\ req[a].row \in DOMAIN cand /\ req[a].row \in Nat \ {0}
           /\ cand \in Seq(Candidates) /\ Row(a) \in Candidates
           /\ RowSound(req[a].row) /\ RequestSound(req[a])
           /\ mishaps.overlaps = 0 => Fresh(req[a])
           /\ crm \in Seq(Companies)
  <1>1. req[a] \in Requests /\ req[a].row \in DOMAIN cand /\ cand \in Seq(Candidates)
    BY DEF Inv, Typed, TypeOK
  <1>2. req[a].row \in Nat \ {0} /\ Row(a) \in Candidates
    BY <1>1 DEF Row
  <1> QED
    BY <1>1, <1>2 DEF Inv, Typed, Sound, Alone

\* Update, seen through RowStep.
LEMMA UpdateStep ==
    ASSUME Inv, NEW a \in Admins, NEW at \in OnRow, NEW row \in Candidates, NEW to \in Requests,
           Update(a, at, row, to), row.prospect = Row(a).prospect,
           to = NoRequest \/ (to.at \in OnRow /\ to.row = req[a].row),
           approved' = approved \/ approved' = approved \union {req[a].row},
           \A c \in {req[a].row} : RowFits(c, row)', RequestSound(to)',
           mishaps.overlaps = 0 /\ to # NoRequest => Fresh(to)'
    PROVE  Inv'
  <1>1. Onward
    BY DEF Onward, Inv, Typed, TypeOK, Update
  <1>2. req[a].at \in OnRow /\ req[a].row \in DOMAIN cand
    BY Standing DEF Update
  <1>3. cand'[req[a].row] = row
    BY <1>2 DEF Update, Inv, Typed, TypeOK
  <1>4. \A c \in {req[a].row} : RowSound(c)'
    BY <1>3 DEF RowSound
  <1> QED
    BY <1>1, <1>2, <1>4, RowStep DEF Update, Answer

\* An update with which the request ends.
LEMMA LastUpdate ==
    ASSUME Inv, NEW a \in Admins, NEW at \in OnRow, NEW row \in Candidates,
           Update(a, at, row, NoRequest), row.prospect = Row(a).prospect,
           approved' = approved \/ approved' = approved \union {req[a].row},
           \A c \in {req[a].row} : RowFits(c, row)'
    PROVE  Inv'
  <1>1. NoRequest \in Requests /\ RequestSound(NoRequest)'
    BY DEF NoRequest, Requests, RequestSound, Owned, Creating, Looking, Named, InTry
  <1> QED
    BY <1>1, UpdateStep

\* The rows that updates write, field by field.
LEMMA StatusSet ==
    ASSUME NEW r \in Candidates, NEW s \in Statuses
    PROVE  \E row \in Candidates : /\ row = [r EXCEPT !.status = s]
                                   /\ row.status = s /\ row.prospect = r.prospect
                                   /\ row.created = r.created /\ row.checkpoint = r.checkpoint
  <1>1. [r EXCEPT !.status = s] \in Candidates
    BY DEF Candidates
  <1> QED
    BY <1>1 DEF Candidates

LEMMA MatchSet ==
    ASSUME NEW r \in Candidates, NEW s \in Statuses, NEW m \in Matches
    PROVE  /\ \E row \in Candidates : /\ row = [r EXCEPT !.status = s, !.dedupe = m]
                                      /\ row.status = s /\ row.prospect = r.prospect
                                      /\ row.created = r.created /\ row.checkpoint = r.checkpoint
           /\ \E row \in Candidates : /\ row = [r EXCEPT !.dedupe = m]
                                      /\ row.status = r.status /\ row.prospect = r.prospect
                                      /\ row.created = r.created /\ row.checkpoint = r.checkpoint
  <1>1. [r EXCEPT !.status = s, !.dedupe = m] \in Candidates /\ [r EXCEPT !.dedupe = m] \in Candidates
    BY DEF Candidates
  <1> QED
    BY <1>1 DEF Candidates

LEMMA CheckpointSet ==
    ASSUME NEW r \in Candidates, NEW i \in Nat
    PROVE  \E row \in Candidates : /\ row = [r EXCEPT !.checkpoint = i]
                                   /\ row.status = r.status /\ row.prospect = r.prospect
                                   /\ row.created = r.created /\ row.checkpoint = i
  <1>1. [r EXCEPT !.checkpoint = i] \in Candidates
    BY DEF Candidates
  <1> QED
    BY <1>1 DEF Candidates

LEMMA DecideStep ==
    ASSUME Inv, NEW a \in Admins, Approve(a) \/ Reject(a)
    PROVE  Inv'
  <1>0. req[a].at \in OnRow /\ "approve" \in OnRow /\ "reject" \in OnRow
    BY DEF Approve, Reject, Update, OnRow
  <1>1. Row(a) \in Candidates /\ RowFits(req[a].row, Row(a)) /\ crm' = crm
    BY <1>0, Standing DEF RowSound, Row, Approve, Reject, Update
  <1>2. CASE Approve(a)
    <2>1. PICK row \in Candidates : /\ row = [Row(a) EXCEPT !.status = "APPROVED"]
                                    /\ row.status = "APPROVED" /\ row.prospect = Row(a).prospect
                                    /\ row.created = Row(a).created
                                    /\ row.checkpoint = Row(a).checkpoint
      BY <1>1, StatusSet DEF Statuses
    <2>2. Update(a, "approve", row, NoRequest) /\ approved' = approved \union {req[a].row}
      BY <1>2, <2>1, Zenon DEF Approve
    <2>3. \A c \in {req[a].row} : RowFits(c, row)'
      BY <1>1, <2>1, <2>2 DEF RowFits, Owned
    <2> QED
      BY <1>0, <2>1, <2>2, <2>3, LastUpdate
  <1>3. CASE Reject(a)
    <2>1. PICK row \in Candidates : /\ row = [Row(a) EXCEPT !.status = "REJECTED"]
                                    /\ row.status = "REJECTED" /\ row.prospect = Row(a).prospect
                                    /\ row.created = Row(a).created
                                    /\ row.checkpoint = Row(a).checkpoint
      BY <1>1, StatusSet DEF Statuses
    <2>2. Update(a, "reject", row, NoRequest) /\ approved' = approved
      BY <1>3, <2>1, Zenon DEF Reject
    <2>3. \A c \in {req[a].row} : RowFits(c, row)'
      BY <1>1, <2>1, <2>2 DEF RowFits, Owned
    <2> QED
      BY <1>0, <2>1, <2>2, <2>3, LastUpdate
  <1> QED
    BY <1>2, <1>3

\* The requests that statements go on with.
LEMMA LabelSet ==
    ASSUME NEW q \in Requests, NEW l \in OnRow
    PROVE  \E to \in Requests : /\ to = [q EXCEPT !.at = l]
                                /\ to.at = l /\ to.row = q.row /\ to.known = q.known
                                /\ to.id = q.id
  <1>1. [q EXCEPT !.at = l] \in Requests
    BY DEF Requests, InTry, OnRow, Creating, Looking, Named
  <1> QED
    BY <1>1 DEF Requests

LEMMA GetCompletedStep ==
    ASSUME Inv, NEW a \in Admins, GetCompleted(a)
    PROVE  Inv'
  <1> DEFINE id == KnownCompany(a)
             l == IF id # 0 THEN "recover" ELSE "lookup"
  <1>1. req[a].at = "checkpoint" /\ req[a].at \in OnRow /\ req[a].at \in Creating
    BY DEF GetCompleted, OnRow, Creating
  <1>2. /\ req[a] \in Requests /\ Row(a) \in Candidates
        /\ RowFits(req[a].row, Row(a)) /\ RequestSound(req[a])
        /\ mishaps.overlaps = 0 => Fresh(req[a])
    BY <1>1, Standing DEF RowSound, Row
  <1>3. id \in Nat
    BY <1>2 DEF KnownCompany, Candidates, Requests
  <1>4. l \in OnRow
    BY DEF OnRow, Creating, Looking, Named
  <1>5. PICK to \in Requests : /\ to = [req[a] EXCEPT !.at = l, !.id = id]
                               /\ to.at = l /\ to.row = req[a].row /\ to.known = req[a].known
                               /\ to.id = id
    <2> HIDE DEF id, l
    <2>1. [req[a] EXCEPT !.at = l, !.id = id] \in Requests
      BY <1>2, <1>3, <1>4 DEF Requests, InTry, OnRow, Creating, Looking, Named
    <2> QED
      BY <1>2, <2>1 DEF Requests
  <1>6. req' = [req EXCEPT ![a] = to]
    BY <1>5, Zenon DEF GetCompleted, Answer
  <1>7. RequestSound(to)
    BY <1>1, <1>2, <1>5 DEF RequestSound, RowFits, Owned, KnownCompany, Row, Named, Creating, Looking
  <1>8. mishaps.overlaps = 0 => Fresh(to)
    BY <1>1, <1>2, <1>5 DEF Fresh, KnownCompany, Known, Row, Named, Creating, Looking
  <1>9. Onward
    BY DEF Onward, Inv, Typed, TypeOK, GetCompleted
  <1> QED
    BY <1>1, <1>4, <1>5, <1>6, <1>7, <1>8, <1>9, ReadStep DEF GetCompleted

\* A creation goes on to another of its statements and writes nothing.
LEMMA GoOnStep ==
    ASSUME Inv, NEW a \in Admins, req[a].at \in Creating, NEW l \in Creating,
           Answer(a, [req[a] EXCEPT !.at = l]),
           UNCHANGED <<run, job, cand, crm, work, approved>>, Onward,
           l \in Named => req[a].id # 0,
           l \in Looking => req[a].at \in Looking,
           l = "catch" => (req[a].at = "call" \/ req[a].at \in Named),
           l # "checkpoint"
    PROVE  Inv'
  <1>1. req[a].at \in OnRow /\ l \in OnRow
    BY DEF OnRow
  <1>2. /\ req[a] \in Requests /\ RequestSound(req[a])
        /\ mishaps.overlaps = 0 => Fresh(req[a])
    BY <1>1, Standing
  <1>3. PICK to \in Requests : /\ to = [req[a] EXCEPT !.at = l]
                               /\ to.at = l /\ to.row = req[a].row /\ to.known = req[a].known
                               /\ to.id = req[a].id
    BY <1>1, <1>2, LabelSet
  <1>4. req' = [req EXCEPT ![a] = to]
    BY <1>3, Zenon DEF Answer
  <1>5. RequestSound(to)
    BY <1>2, <1>3 DEF RequestSound, Owned
  <1>6. mishaps.overlaps = 0 => Fresh(to)
    BY <1>2, <1>3 DEF Fresh, RequestSound, Creating, Looking, Named
  <1> QED
    BY <1>1, <1>3, <1>4, <1>5, <1>6, ReadStep

LEMMA LookupStep ==
    ASSUME Inv, NEW a \in Admins, Lookup(a) \/ LookupFails(a)
    PROVE  Inv'
  <1>1. req[a].at = "lookup" /\ req[a].at \in Creating /\ req[a].at \in Looking
    BY DEF Lookup, LookupFails, Creating, Looking
  <1>2. PICK l \in {"lookup_failed", "duplicate", "possible", "call"} :
            Answer(a, [req[a] EXCEPT !.at = l])
    BY Zenon DEF Lookup, LookupFails, LookupAnswered, FailClosed, Dedupe
  <1>3. Onward
    BY MishapOnward DEF Lookup, LookupFails
  <1>4. l \in Creating /\ l \in Looking /\ l \notin Named /\ l # "catch" /\ l # "checkpoint"
    BY DEF Creating, Looking, Named
  <1>5. UNCHANGED <<run, job, cand, crm, work, approved>>
    BY DEF Lookup, LookupFails
  <1> QED
    BY <1>1, <1>2, <1>3, <1>4, <1>5, GoOnStep

\* The creation ends, having marked its row.
LEMMA MarkStep ==
    ASSUME Inv, NEW a \in Admins,
           \/ MarkLookupFailed(a) \/ MarkDuplicate(a) \/ MarkPossible(a) \/ MarkCreateFailed(a)
           \/ Recover(a)
    PROVE  Inv'
  <1> DEFINE id == IF req[a].id # 0 THEN req[a].id ELSE req[a].known
  <1>1. /\ req[a].at \in OnRow /\ req[a].at \in Creating
        /\ \A at \in {"lookup_failed", "duplicate", "possible", "catch", "recover"} : at \in OnRow
    BY DEF MarkLookupFailed, MarkDuplicate, MarkPossible, MarkCreateFailed, Recover, MarkCreated,
       Update, OnRow, Creating, Looking, Named
  <1>2. /\ req[a] \in Requests /\ Row(a) \in Candidates
        /\ RowFits(req[a].row, Row(a)) /\ RequestSound(req[a])
    BY <1>1, Standing DEF RowSound, Row
  <1>3. approved' = approved /\ crm' = crm
    BY DEF MarkLookupFailed, MarkDuplicate, MarkPossible, MarkCreateFailed, Recover, MarkCreated,
       Update
  <1>4. id \in Nat /\ req[a].id \in Nat
    BY <1>2 DEF Requests
  <1>5. CASE MarkLookupFailed(a)
    <2>1. PICK row \in Candidates : /\ row = [Row(a) EXCEPT !.status = "FAILED"]
                                    /\ row.status = "FAILED" /\ row.prospect = Row(a).prospect
                                    /\ row.created = Row(a).created
                                    /\ row.checkpoint = Row(a).checkpoint
      BY <1>2, StatusSet DEF Statuses
    <2>2. Update(a, "lookup_failed", row, NoRequest)
      BY <1>5, <2>1, Zenon DEF MarkLookupFailed
    <2>3. \A c \in {req[a].row} : RowFits(c, row)'
      BY <1>1, <1>2, <1>3, <2>1 DEF RowFits, RequestSound, Owned
    <2> QED
      BY <1>1, <1>3, <2>1, <2>2, <2>3, LastUpdate
  <1>6. CASE MarkDuplicate(a)
    <2>1. PICK row \in Candidates :
              /\ row = [Row(a) EXCEPT !.status = "DUPLICATE", !.dedupe = "EXACT_MATCH"]
              /\ row.status = "DUPLICATE" /\ row.prospect = Row(a).prospect
              /\ row.created = Row(a).created /\ row.checkpoint = Row(a).checkpoint
      BY <1>2, MatchSet DEF Statuses, Matches
    <2>2. Update(a, "duplicate", row, NoRequest)
      BY <1>6, <2>1, Zenon DEF MarkDuplicate
    <2>3. \A c \in {req[a].row} : RowFits(c, row)'
      BY <1>2, <1>3, <2>1 DEF RowFits, Owned
    <2> QED
      BY <1>1, <1>3, <2>1, <2>2, <2>3, LastUpdate
  <1>7. CASE MarkPossible(a)
    <2>1. PICK row \in Candidates :
              /\ row = [Row(a) EXCEPT !.dedupe = "POSSIBLE_MATCH"]
              /\ row.status = Row(a).status /\ row.prospect = Row(a).prospect
              /\ row.created = Row(a).created /\ row.checkpoint = Row(a).checkpoint
      BY <1>2, MatchSet DEF Candidates, Statuses, Matches
    <2>2. Update(a, "possible", row, NoRequest)
      BY <1>7, <2>1, Zenon DEF MarkPossible
    <2>3. \A c \in {req[a].row} : RowFits(c, row)'
      BY <1>2, <1>3, <2>1 DEF RowFits, Owned
    <2> QED
      BY <1>1, <1>3, <2>1, <2>2, <2>3, LastUpdate
  <1>8. CASE MarkCreateFailed(a)
    <2>0. [Row(a) EXCEPT !.status = "FAILED", !.created = id] \in Candidates
      BY <1>2, <1>4 DEF Candidates, Statuses
    <2>1. PICK row \in Candidates :
              /\ row = [Row(a) EXCEPT !.status = "FAILED", !.created = id]
              /\ row.status = "FAILED" /\ row.prospect = Row(a).prospect
              /\ row.created = id /\ row.checkpoint = Row(a).checkpoint
      BY <1>2, <2>0 DEF Candidates
    <2>2. Update(a, "catch", row, NoRequest)
      BY <1>8, <2>1, Zenon DEF MarkCreateFailed
    <2>3. \A c \in {req[a].row} : RowFits(c, row)'
      BY <1>1, <1>2, <1>3, <2>1 DEF RowFits, RequestSound, Owned
    <2> QED
      BY <1>1, <1>3, <2>1, <2>2, <2>3, LastUpdate
  <1>9. CASE Recover(a)
    <2>0. [Row(a) EXCEPT !.status = "CREATED", !.created = req[a].id] \in Candidates
      BY <1>2, <1>4 DEF Candidates, Statuses
    <2>1. PICK row \in Candidates :
              /\ row = [Row(a) EXCEPT !.status = "CREATED", !.created = req[a].id]
              /\ row.status = "CREATED" /\ row.prospect = Row(a).prospect
              /\ row.created = req[a].id /\ row.checkpoint = Row(a).checkpoint
      BY <1>2, <2>0 DEF Candidates
    <2>2. Update(a, "recover", row, NoRequest)
      BY <1>9, <2>1, Zenon DEF Recover, MarkCreated
    <2>3. req[a].id # 0
      BY <1>2, <1>9 DEF RequestSound, Recover, MarkCreated, Update, Named
    <2>4. \A c \in {req[a].row} : RowFits(c, row)'
      BY <1>1, <1>2, <1>3, <2>1, <2>3 DEF RowFits, RequestSound, Owned
    <2> QED
      BY <1>1, <1>3, <2>1, <2>2, <2>4, LastUpdate
  <1> QED
    BY <1>5, <1>6, <1>7, <1>8, <1>9

------------------------------------------------------------------------------
(* The creation itself.                                                     *)
LEMMA CrmGrows ==
    ASSUME Inv, NEW x \in Companies, x.row = 0 \/ x.row \in approved,
           crm' = Append(crm, x), UNCHANGED <<cand, approved>>
    PROVE  /\ crm' \in Seq(Companies)
           /\ \A i \in DOMAIN crm' : crm'[i].row \in 0 .. Len(cand)
           /\ \A c, id : Owned(c, id) => Owned(c, id)'
           /\ crm'[Len(crm) + 1] = x /\ Len(crm) + 1 \in DOMAIN crm'
           /\ WrittenWasApproved'
  <1>1. /\ crm \in Seq(Companies) /\ cand \in Seq(Candidates) /\ approved \subseteq DOMAIN cand
        /\ \A i \in DOMAIN crm : crm[i].row \in 0 .. Len(cand)
        /\ WrittenWasApproved
    BY DEF Inv, Typed, TypeOK, Sound
  <1>2. /\ crm' \in Seq(Companies) /\ DOMAIN crm' = 1 .. Len(crm) + 1 /\ DOMAIN crm = 1 .. Len(crm)
        /\ \A i \in DOMAIN crm : crm'[i] = crm[i]
        /\ crm'[Len(crm) + 1] = x /\ Len(crm) \in Nat
    BY <1>1
  <1>3. x.row \in 0 .. Len(cand)
    BY <1>1 DEF Companies
  <1> QED
    BY <1>1, <1>2, <1>3 DEF Owned, WrittenWasApproved, Made

LEMMA CreateCompanyStep ==
    ASSUME Inv, NEW a \in Admins, CreateCompany(a)
    PROVE  Inv'
  <1>1. /\ req[a].at = "call" /\ req[a].at \in OnRow /\ req[a].at \in Creating
        /\ req[a].at \in Looking
    BY DEF CreateCompany, OnRow, Creating, Looking
  <1>2. /\ req[a] \in Requests /\ Row(a) \in Candidates /\ req[a].row \in DOMAIN cand
        /\ req[a].row \in approved /\ RequestSound(req[a])
        /\ mishaps.overlaps = 0 => Fresh(req[a])
        /\ req \in [Admins -> Requests] /\ Len(crm) + 1 \in Nat \ {0}
    BY <1>1, Standing DEF RequestSound, Inv, Typed, TypeOK
  <1> DEFINE p == Row(a).prospect
             made == [name |-> Company(p).name, domain |-> Company(p).domain, row |-> req[a].row]
  <1>3. made \in Companies /\ made.row = req[a].row
    BY <1>2 DEF Companies, Company, Candidates, Requests
  <1>4. crm' = Append(crm, made) /\ UNCHANGED <<run, job, cand, work, approved>>
    BY DEF CreateCompany
  <1>5. Onward
    BY MishapOnward DEF CreateCompany
  <1>6. PICK to \in Requests :
            /\ req' = [req EXCEPT ![a] = to]
            /\ to.row = req[a].row /\ to.known = req[a].known
            /\ \/ to.at = "record" /\ to.id = Len(crm) + 1
               \/ to.at = "catch" /\ to.id = req[a].id
    <2>1. /\ [req[a] EXCEPT !.at = "record", !.id = Len(crm) + 1] \in Requests
          /\ [req[a] EXCEPT !.at = "catch"] \in Requests
      BY <1>2 DEF Requests, InTry
    <2> QED
      BY <1>2, <2>1 DEF CreateCompany, Answer, Requests
  <1> HIDE DEF made
  <1>7. /\ crm' \in Seq(Companies)
        /\ \A i \in DOMAIN crm' : crm'[i].row \in 0 .. Len(cand)
        /\ \A c, id : Owned(c, id) => Owned(c, id)'
        /\ crm'[Len(crm) + 1] = made /\ Len(crm) + 1 \in DOMAIN crm'
        /\ WrittenWasApproved'
    BY <1>2, <1>3, <1>4, CrmGrows
  <1>8. Typed'
    <2>1. TypeOK'
      BY <1>2, <1>4, <1>5, <1>6, <1>7 DEF Inv, Typed, TypeOK, Onward
    <2>2. JobShape'
      BY <1>2, <1>4, <1>6 DEF Inv, Typed, JobShape
    <2> QED
      BY <1>2, <1>4, <1>6, <1>7, <2>1, <2>2 DEF Inv, Typed, OnRow, Creating, Looking
  <1>9. Sound'
    <2>1. \A c \in DOMAIN cand' : RowSound(c)'
      BY <1>4, <1>7 DEF Inv, Sound, RowSound, RowFits
    <2>2. RequestSound(to)'
      <3>1. \A c \in {req[a].row} : Owned(c, to.known)' /\ Owned(c, to.id)'
        BY <1>2, <1>3, <1>6, <1>7 DEF RequestSound, Owned
      <3> QED
        BY <1>2, <1>4, <1>6, <3>1 DEF RequestSound, Named
    <2>3. \A b \in Admins : b # a => RequestSound(req[b])'
      BY <1>2, <1>4, <1>6, <1>7 DEF Inv, Sound, RequestSound
    <2>4. \A b \in Admins : RequestSound(req[b])'
      BY <1>2, <1>6, <2>2, <2>3
    <2> QED
      BY <1>7, <2>1, <2>4 DEF Sound
  <1>10. Alone'
    <2> SUFFICES ASSUME mishaps'.overlaps = 0 PROVE Alone'
      BY DEF Alone
    <2>1. \A b, d \in Admins : req'[b].at \in OnRow /\ req'[d].at \in OnRow /\ b # d =>
              req'[b].row # req'[d].row
      BY <1>1, <1>2, <1>5, <1>6 DEF Inv, Alone, Onward
    <2>2. \A b \in Admins : req'[b].at \in OnRow => Fresh(req[b])'
      BY <1>1, <1>2, <1>4, <1>5, <1>6 DEF Inv, Alone, Onward, Fresh, Creating, Looking
    <2> QED
      BY <2>1, <2>2 DEF Alone
  <1> QED
    BY <1>8, <1>9, <1>10 DEF Inv

\* Both record what is known of the new company and go on.
LEMMA RecordStep ==
    ASSUME Inv, NEW a \in Admins, RecordSuccess(a) \/ MarkNewCreated(a)
    PROVE  Inv'
  <1>1. /\ req[a].at \in OnRow /\ req[a].at \in Creating /\ req[a].at \in Named
        /\ "record" \in OnRow /\ "created" \in OnRow /\ "audit" \in OnRow
    BY DEF RecordSuccess, MarkNewCreated, MarkCreated, Update, OnRow, Creating, Looking, Named
  <1>2. /\ req[a] \in Requests /\ Row(a) \in Candidates /\ req[a].row \in DOMAIN cand
        /\ cand \in Seq(Candidates)
        /\ RowFits(req[a].row, Row(a)) /\ RequestSound(req[a]) /\ req[a].id \in Nat \ {0}
        /\ mishaps.overlaps = 0 => Fresh(req[a])
    <2>1. req[a].id # 0 /\ req[a] \in Requests
      BY <1>1, Standing DEF RequestSound
    <2> QED
      BY <1>1, <2>1, Standing DEF RowSound, Row, Requests
  <1>3. approved' = approved /\ crm' = crm /\ mishaps' = mishaps
    BY DEF RecordSuccess, MarkNewCreated, MarkCreated, Update
  <1>4. CASE RecordSuccess(a)
    <2>1. PICK row \in Candidates : /\ row = [Row(a) EXCEPT !.checkpoint = req[a].id]
                                    /\ row.status = Row(a).status /\ row.prospect = Row(a).prospect
                                    /\ row.created = Row(a).created /\ row.checkpoint = req[a].id
      BY <1>2, CheckpointSet
    <2>r. [req[a] EXCEPT !.at = "created"] \in Requests
      BY <1>2 DEF Requests, InTry
    <2>2. PICK to \in Requests : /\ to = [req[a] EXCEPT !.at = "created"]
                                 /\ to.at = "created" /\ to.row = req[a].row
                                 /\ to.known = req[a].known /\ to.id = req[a].id
      BY <1>2, <2>r DEF Requests
    <2>3. Update(a, "record", row, to)
      BY <1>4, <2>1, <2>2, Zenon DEF RecordSuccess
    <2>4. /\ \A c \in {req[a].row} : RowFits(c, row)'
          /\ RequestSound(to)'
      <3>1. \A c \in {req[a].row} : RowFits(c, row)'
        BY <1>1, <1>2, <1>3, <2>1 DEF RowFits, RequestSound, Owned
      <3>2. to.row \in approved' /\ to.id # 0
        BY <1>1, <1>2, <1>3, <2>2 DEF RequestSound
      <3>3. Owned(to.row, to.known)' /\ Owned(to.row, to.id)'
        BY <1>2, <1>3, <2>2 DEF RequestSound, Owned
      <3> QED
        BY <3>1, <3>2, <3>3 DEF RequestSound
    <2>5. mishaps.overlaps = 0 => Fresh(to)'
      <3>1. cand'[req[a].row] = row
        BY <1>2, <2>3 DEF Update
      <3> QED
        BY <1>1, <1>2, <2>1, <2>2, <3>1 DEF Fresh, Row, Creating, Looking, Named
    <2> QED
      BY <1>1, <1>3, <2>1, <2>2, <2>3, <2>4, <2>5, UpdateStep
  <1>5. CASE MarkNewCreated(a)
    <2>0. [Row(a) EXCEPT !.status = "CREATED", !.created = req[a].id] \in Candidates
      BY <1>2 DEF Candidates, Statuses
    <2>1. PICK row \in Candidates :
              /\ row = [Row(a) EXCEPT !.status = "CREATED", !.created = req[a].id]
              /\ row.status = "CREATED" /\ row.prospect = Row(a).prospect
              /\ row.created = req[a].id /\ row.checkpoint = Row(a).checkpoint
      BY <1>2, <2>0 DEF Candidates
    <2>r. [req[a] EXCEPT !.at = "audit"] \in Requests
      BY <1>2 DEF Requests, InTry
    <2>2. PICK to \in Requests : /\ to = [req[a] EXCEPT !.at = "audit"]
                                 /\ to.at = "audit" /\ to.row = req[a].row
                                 /\ to.known = req[a].known /\ to.id = req[a].id
      BY <1>2, <2>r DEF Requests
    <2>3. Update(a, "created", row, to)
      BY <1>5, <2>1, <2>2, Zenon DEF MarkNewCreated, MarkCreated
    <2>4. /\ \A c \in {req[a].row} : RowFits(c, row)'
          /\ RequestSound(to)'
      <3>1. \A c \in {req[a].row} : RowFits(c, row)'
        BY <1>1, <1>2, <1>3, <2>1 DEF RowFits, RequestSound, Owned
      <3>2. to.row \in approved' /\ to.id # 0
        BY <1>1, <1>2, <1>3, <2>2 DEF RequestSound
      <3>3. Owned(to.row, to.known)' /\ Owned(to.row, to.id)'
        BY <1>2, <1>3, <2>2 DEF RequestSound, Owned
      <3> QED
        BY <3>1, <3>2, <3>3 DEF RequestSound
    <2>5. mishaps.overlaps = 0 => Fresh(to)'
      <3>1. cand'[req[a].row] = row
        BY <1>2, <2>3 DEF Update
      <3> QED
        BY <1>1, <1>2, <2>1, <2>2, <3>1 DEF Fresh, Row, Creating, Looking, Named
    <2> QED
      BY <1>1, <1>3, <2>1, <2>2, <2>3, <2>4, <2>5, UpdateStep
  <1> QED
    BY <1>4, <1>5

LEMMA AuditCreatedStep ==
    ASSUME Inv, NEW a \in Admins, AuditCreated(a)
    PROVE  Inv'
  <1>1. req[a].at \in OnRow /\ Onward
    BY DEF AuditCreated, OnRow, Creating, Named, Onward, Inv, Typed, TypeOK
  <1> QED
    BY <1>1, EndStep DEF AuditCreated

LEMMA CreateStep ==
    ASSUME Inv, NEW a \in Admins, Create(a)
    PROVE  Inv'
  BY GetCompletedStep, LookupStep, MarkStep, CreateCompanyStep, RecordStep, AuditCreatedStep
     DEF Create

------------------------------------------------------------------------------
(* Steps that touch no row.                                                 *)

\* What the workers, the queue and the requests off the rows do.
LEMMA AsideStep ==
    ASSUME Inv, UNCHANGED <<cand, crm, approved>>, Onward,
           \A a \in Admins : req'[a] = req[a] \/ (req'[a].at \notin OnRow /\ Empty(req'[a])),
           Typed'
    PROVE  Inv'
  <1>1. Sound'
    BY DEF Inv, Sound, RowSound, RowFits, RequestSound, Owned, Empty, OnRow, Creating, Named,
       WrittenWasApproved, Made
  <1>2. Alone'
    BY DEF Inv, Alone, Fresh, Known, Onward
  <1> QED
    BY <1>1, <1>2 DEF Inv

\* A request begins on a row it has just read and checked.
LEMMA BeginStep ==
    ASSUME Inv, NEW a \in Admins, NEW c \in DOMAIN cand,
           ApproveRead(a, c) \/ RejectRead(a, c) \/ CreateRead(a, c)
    PROVE  Inv'
  <1>1. PICK at \in {"approve", "reject", "checkpoint"} :
            /\ Begin(a, c, at)
            /\ at = "approve" => cand[c].status \in {"PROPOSED", "FAILED"}
            /\ at = "checkpoint" => cand[c].status \in {"APPROVED", "FAILED"}
    BY DEF ApproveRead, RejectRead, CreateRead, Reviewable, Creatable
  <1>2. /\ cand \in Seq(Candidates) /\ cand[c] \in Candidates /\ req \in [Admins -> Requests]
        /\ c \in Nat \ {0}
    BY DEF Inv, Typed, TypeOK
  <1>3. PICK to \in Requests : /\ req' = [req EXCEPT ![a] = to]
                               /\ to.at = at /\ to.row = c /\ to.known = cand[c].created /\ to.id = 0
    <2>1. [NoRequest EXCEPT !.at = at, !.row = c, !.known = cand[c].created] \in Requests
      BY <1>1, <1>2 DEF NoRequest, Requests, Candidates
    <2> QED
      BY <1>1, <1>2, <2>1 DEF Begin, Answer, NoRequest, Requests
  <1>4. /\ UNCHANGED <<run, job, cand, crm, work, approved>> /\ req[a].at = "idle" /\ Onward
        /\ mishaps'.overlaps = 0 => Underway(cand[c].prospect) = {}
    BY <1>1, OverlapsCounted DEF Begin
  <1>5. Typed'
    <2>1. TypeOK'
      BY <1>2, <1>3, <1>4 DEF Inv, Typed, TypeOK, Onward
    <2>2. JobShape'
      BY <1>1, <1>2, <1>3, <1>4 DEF Inv, Typed, JobShape
    <2> QED
      BY <1>1, <1>2, <1>3, <1>4, <2>1, <2>2 DEF Inv, Typed, OnRow, Creating
  <1>6. Sound'
    <2>1. RequestSound(to)
      BY <1>1, <1>3 DEF Inv, Sound, RowSound, RowFits, RequestSound, Owned, Creating, Looking, Named
    <2>2. \A b \in Admins : RequestSound(req[b])'
      BY <1>2, <1>3, <1>4, <2>1 DEF Inv, Sound, RequestSound, Owned
    <2> QED
      BY <1>4, <2>2 DEF Inv, Sound, RowSound, RowFits, Owned, WrittenWasApproved, Made
  <1>7. Alone'
    <2> SUFFICES ASSUME mishaps'.overlaps = 0 PROVE Alone'
      BY DEF Alone
    <2>1. mishaps.overlaps = 0 /\ Underway(cand[c].prospect) = {}
      BY <1>4 DEF Onward
    <2>2. \A b \in Admins : req[b].at \in OnRow => req[b].row # c
      BY <1>2, <2>1 DEF Inv, Typed, Underway, Rivals
    <2>3. \A b, d \in Admins : req'[b].at \in OnRow /\ req'[d].at \in OnRow /\ b # d =>
              req'[b].row # req'[d].row
      BY <1>2, <1>3, <2>1, <2>2 DEF Inv, Alone
    <2>4. Fresh(to)
      BY <1>1, <1>3 DEF Fresh, Creating, Looking, Named
    <2>5. \A b \in Admins : req'[b].at \in OnRow => Fresh(req[b])'
      BY <1>2, <1>3, <1>4, <2>1, <2>4 DEF Inv, Alone, Fresh
    <2> QED
      BY <2>3, <2>5 DEF Alone
  <1> QED
    BY <1>5, <1>6, <1>7 DEF Inv

LEMMA RequestThrowsStep ==
    ASSUME Inv, NEW a \in Admins, RequestThrows(a)
    PROVE  Inv'
  <1>1. Onward /\ UNCHANGED <<run, job, cand, crm, work, approved>>
    BY MishapOnward DEF RequestThrows
  <1>2. CASE req[a].at \in InTry
    <2>1. /\ req[a].at \in Creating /\ "catch" \in Creating /\ "catch" \notin Named
          /\ "catch" \notin Looking /\ (req[a].at = "call" \/ req[a].at \in Named)
      BY <1>2 DEF InTry, Creating, Looking, Named
    <2>2. Answer(a, [req[a] EXCEPT !.at = "catch"])
      BY <1>2 DEF RequestThrows, ToCatch
    <2> QED
      BY <1>1, <2>1, <2>2, GoOnStep
  <1>3. CASE req[a].at \notin InTry
    <2>1. Answer(a, NoRequest)
      BY <1>3 DEF RequestThrows
    <2>2. CASE req[a].at \in OnRow
      BY <1>1, <2>1, <2>2, EndStep
    <2>3. CASE req[a].at \notin OnRow
      <3>1. req' = [req EXCEPT ![a] = NoRequest] /\ req \in [Admins -> Requests] /\ NoRequest \in Requests
        BY <2>1 DEF Answer, Inv, Typed, TypeOK, NoRequest, Requests
      <3>2. Typed'
        <4>1. TypeOK'
          BY <1>1, <3>1 DEF Inv, Typed, TypeOK, Onward
        <4>2. JobShape'
          BY <1>1, <3>1 DEF Inv, Typed, JobShape, NoRequest
        <4> QED
          BY <1>1, <3>1, <4>1, <4>2 DEF Inv, Typed, Empty, NoRequest, OnRow, Creating, Looking, Named
      <3>3. \A b \in Admins : req'[b] = req[b] \/ (req'[b].at \notin OnRow /\ Empty(req'[b]))
        BY <3>1 DEF Empty, NoRequest, OnRow, Creating, Looking, Named
      <3> QED
        BY <1>1, <3>2, <3>3, AsideStep
    <2> QED
      BY <2>2, <2>3
  <1> QED
    BY <1>2, <1>3

LEMMA WorkTypes ==
    /\ NoWork \in Work /\ NoWork.at # "propose"
    /\ [NoWork EXCEPT !.at = "start"] \in Work /\ [NoWork EXCEPT !.at = "start"].at # "propose"
    /\ /\ [NoWork EXCEPT !.at = "start", !.sync = TRUE] \in Work
       /\ [NoWork EXCEPT !.at = "start", !.sync = TRUE].at # "propose"
  <1>0. NoWork \in Work
    BY DEF NoWork, Work
  <1>1. /\ [NoWork EXCEPT !.at = "start"] \in Work
        /\ [NoWork EXCEPT !.at = "start", !.sync = TRUE] \in Work
    BY <1>0 DEF Work
  <1>2. /\ NoWork.at = "idle" /\ [NoWork EXCEPT !.at = "start"].at = "start"
        /\ [NoWork EXCEPT !.at = "start", !.sync = TRUE].at = "start"
    BY DEF NoWork
  <1> QED
    BY <1>0, <1>1, <1>2

LEMMA StartStep ==
    ASSUME Inv, NEW a \in Admins, Start(a)
    PROVE  Inv'
  <1>0. /\ req \in [Admins -> Requests] /\ work \in [Workers -> Work] /\ NoRequest \in Requests
        /\ [NoRequest EXCEPT !.at = "enqueue"] \in Requests
        /\ req[a].at \notin OnRow
        /\ NoRequest.at \notin OnRow /\ Empty(NoRequest)
    BY DEF Inv, Typed, TypeOK, Start, CreateRun, AddJob, RunSync, OnRow, Creating, Looking, Named,
       Empty, NoRequest, Requests
  <1>1. UNCHANGED <<cand, crm, approved>> /\ Onward
    BY DEF Start, CreateRun, AddJob, RunSync, Onward, Inv, Typed, TypeOK
  <1>2. PICK to \in {NoRequest, [NoRequest EXCEPT !.at = "enqueue"]} :
            /\ req' = [req EXCEPT ![a] = to]
            /\ to.at = "enqueue" => CreateRun(a)
    BY DEF Start, CreateRun, AddJob, RunSync, Answer, NoRequest
  <1>3. to \in Requests /\ to.at \notin OnRow /\ Empty(to) /\ to.at \in {"idle", "enqueue"}
    BY <1>0, <1>2 DEF OnRow, Creating, Looking, Named, Empty, NoRequest, Requests
  <1>4. Typed'
    <2>1. job' \in Jobs
      <3>1. job \in Jobs
        BY DEF Jobs, Inv, Typed, TypeOK
      <3>2. job' = job \/ job' = [job EXCEPT !.state = "waiting"]
        BY DEF Start, CreateRun, AddJob, RunSync
      <3> QED
        BY <3>1, <3>2 DEF Jobs
    <2>2. work' \in [Workers -> Work] /\ \A w \in Workers : work'[w].at = "propose" => work[w] = work'[w]
      BY <1>0, WorkTypes DEF Start, CreateRun, AddJob, RunSync
    <2>3. run' \in {"none", "queued", "processing", "completed", "failed"}
      BY DEF Start, CreateRun, AddJob, RunSync, Inv, Typed, TypeOK
    <2>4. TypeOK'
      BY <1>0, <1>1, <1>2, <1>3, <2>1, <2>2, <2>3 DEF Jobs, Inv, Typed, TypeOK, Onward
    <2>5. JobShape'
      <3>1. \A b \in Admins : req'[b].at = "enqueue" => 
             \/ b # a /\ req[b].at = "enqueue"
             \/ b = a /\ CreateRun(a)
        BY <1>0, <1>2, <1>3
      <3>2. CASE CreateRun(a)
        BY <3>1, <3>2, DiscoveryAssumption DEF CreateRun, Inv, Typed, JobShape
      <3>3. CASE ~CreateRun(a)
        <4>1. req[a].at = "enqueue" /\ run' = run
          BY <3>3 DEF Start, AddJob, RunSync
        <4>2. job.state = "none" /\ job.owner \notin Workers
          BY <4>1 DEF Inv, Typed, JobShape
        <4>3. job' = job \/ job' = [job EXCEPT !.state = "waiting"]
          BY <3>3 DEF Start, AddJob, RunSync
        <4>4. /\ job'.attemptsMade = job.attemptsMade /\ job'.stalled = job.stalled
              /\ job'.owner = job.owner /\ job'.state \in {"none", "waiting"}
          BY <4>2, <4>3 DEF Inv, Typed, TypeOK
        <4>5. \A b \in Admins : req'[b].at # "enqueue"
          BY <3>1, <3>3, <4>1 DEF Inv, Typed, JobShape
        <4> QED
          BY <4>1, <4>2, <4>4, <4>5 DEF Inv, Typed, JobShape
      <3> QED
        BY <3>2, <3>3
    <2> QED
      BY <1>0, <1>1, <1>2, <1>3, <2>2, <2>4, <2>5 DEF Inv, Typed
  <1>5. \A b \in Admins : req'[b] = req[b] \/ (req'[b].at \notin OnRow /\ Empty(req'[b]))
    BY <1>0, <1>2, <1>3
  <1> QED
    BY <1>1, <1>4, <1>5, AsideStep

------------------------------------------------------------------------------
(* Workers and their queue.                                                 *)
\* A worker goes on, and may set the run's status.
LEMMA WorkerGoes ==
    ASSUME Inv, NEW w \in Workers, NEW to \in Work,
           NEW run1 \in {"queued", "processing", "completed", "failed"} \union {run},
           to.at = "propose" => to.found # <<>>,
           work' = [work EXCEPT ![w] = to], run' = run1,
           UNCHANGED <<job, cand, crm, req, approved>>, Onward
    PROVE  Inv'
  <1>1. work \in [Workers -> Work] /\ \A v \in Workers : work[v].at = "propose" => work[v].found # <<>>
    BY DEF Inv, Typed, TypeOK
  <1>2. Typed'
    <2>1. TypeOK'
      BY <1>1 DEF Inv, Typed, TypeOK, Onward
    <2>2. JobShape'
      BY DEF Inv, Typed, JobShape
    <2> QED
      BY <1>1, <2>1, <2>2 DEF Inv, Typed, Empty
  <1> QED
    BY <1>2, AsideStep

\* A worker takes the job or gives it back, or the queue takes it from one.
LEMMA Bounds == MaxStalled \in Nat /\ MaxAttempts \in Nat \ {0} /\ NoWorker \notin Workers
  BY DiscoveryAssumption

LEMMA QueueStep ==
    ASSUME Inv,
           \/ \E w \in Workers : Take(w) \/ JobCompleted(w) \/ AttemptFailed(w)
           \/ Reclaim \/ Stall
    PROVE  Inv'
  <1>1. /\ job \in Jobs /\ work \in [Workers -> Work]
        /\ \A w \in Workers : work[w].at = "propose" => work[w].found # <<>>
        /\ JobShape
    BY DEF Inv, Typed, TypeOK, Jobs
  <1>2. UNCHANGED <<run, cand, crm, req, approved>>
    BY DEF Take, JobCompleted, AttemptFailed, Settle, Reclaim, Stall, Relinquish
  <1>3. Onward
    BY MishapOnward DEF Take, JobCompleted, AttemptFailed, Settle, Reclaim, Stall
  <1>4. work' \in [Workers -> Work] /\ \A w \in Workers : work'[w].at = "propose" => work'[w].found # <<>>
    <2>1. \/ work' = work
          \/ \E w \in Workers : work' = [work EXCEPT ![w] = NoWork]
          \/ \E w \in Workers : work' = [work EXCEPT ![w] = [NoWork EXCEPT !.at = "start"]]
      BY DEF Take, JobCompleted, AttemptFailed, Settle, Reclaim, Stall, Relinquish
    <2> QED
      BY <1>1, <2>1, WorkTypes
  <1>5. /\ job' \in Jobs
        /\ job'.state # "failed" => job'.attemptsMade < MaxAttempts /\ job'.stalled <= MaxStalled
        /\ job'.owner \in Workers => job'.state = "active"
        /\ job.state = "none" => job'.state = "none"
    <2>1. CASE \E w \in Workers : Take(w)
      BY <1>1, <2>1 DEF Take, JobShape, Jobs
    <2>2. CASE \E w \in Workers : JobCompleted(w)
      BY <1>1, <2>2, Bounds DEF JobCompleted, Settle, JobShape, Jobs
    <2>3. CASE \E w \in Workers : AttemptFailed(w)
      <3>1. PICK w \in Workers : AttemptFailed(w)
        BY <2>3
      <3>2. CASE job.owner # w
        BY <1>1, <3>1, <3>2 DEF AttemptFailed, Settle, JobShape
      <3>3. CASE job.owner = w
        <4>1. job.state = "active" /\ job.attemptsMade < MaxAttempts
          BY <1>1, <3>3 DEF JobShape
        <4>2. PICK s \in {"waiting", "failed"} :
                  /\ job' = [job EXCEPT !.state = s, !.attemptsMade = @ + 1, !.owner = NoWorker]
                  /\ s = "waiting" => job.attemptsMade + 1 < MaxAttempts
          BY <3>1, <3>3 DEF AttemptFailed, Settle
        <4>3. /\ job'.state = s /\ job'.attemptsMade = job.attemptsMade + 1
              /\ job'.stalled = job.stalled /\ job'.owner = NoWorker
          BY <1>1, <4>2 DEF Jobs
        <4>4. job' \in Jobs
          <5>1. job' = [state |-> s, attemptsMade |-> job.attemptsMade + 1,
                        stalled |-> job.stalled, owner |-> NoWorker]
            BY <1>1, <4>2 DEF Jobs
          <5>2. job.attemptsMade + 1 \in 0 .. MaxAttempts /\ job.stalled \in 0 .. MaxStalled + 1
            BY <1>1, <4>1, Bounds DEF Jobs
          <5> QED
            BY <5>1, <5>2 DEF Jobs
        <4> QED
          BY <1>1, <4>1, <4>2, <4>3, <4>4, Bounds DEF JobShape
      <3> QED
        BY <3>2, <3>3
    <2>4. CASE Reclaim \/ Stall
      <3>1. PICK s \in {"waiting", "failed"} :
                /\ job' = [job EXCEPT !.state = s, !.stalled = @ + 1, !.owner = NoWorker]
                /\ s = "waiting" => job.stalled < MaxStalled
                /\ job.state = "active"
        BY <2>4 DEF Reclaim, Stall, Relinquish
      <3>2. job.attemptsMade < MaxAttempts /\ job.stalled <= MaxStalled
        BY <1>1, <3>1 DEF JobShape
      <3>3. /\ job'.state = s /\ job'.attemptsMade = job.attemptsMade
            /\ job'.stalled = job.stalled + 1 /\ job'.owner = NoWorker
        BY <1>1, <3>1 DEF Jobs
      <3>4. job' \in Jobs
        <4>1. job' = [state |-> s, attemptsMade |-> job.attemptsMade,
                      stalled |-> job.stalled + 1, owner |-> NoWorker]
          BY <1>1, <3>1 DEF Jobs
        <4>2. job.attemptsMade \in 0 .. MaxAttempts /\ job.stalled + 1 \in 0 .. MaxStalled + 1
          BY <1>1, <3>2, Bounds DEF Jobs
        <4> QED
          BY <4>1, <4>2 DEF Jobs
      <3> QED
        BY <1>1, <3>1, <3>2, <3>3, <3>4, Bounds DEF Jobs
    <2> QED
      BY <2>1, <2>2, <2>3, <2>4
  <1>6. Typed'
    <2>1. TypeOK'
      BY <1>2, <1>3, <1>4, <1>5 DEF Inv, Typed, TypeOK, Onward, Jobs
    <2>2. JobShape'
      BY <1>2, <1>5 DEF Inv, Typed, JobShape
    <2> QED
      BY <1>2, <1>4, <2>1, <2>2 DEF Inv, Typed, Empty
  <1> QED
    BY <1>2, <1>3, <1>6, AsideStep

LEMMA ExecuteStep ==
    ASSUME Inv, NEW w \in Workers, Execute(w)
    PROVE  Inv'
  <1>0. /\ work \in [Workers -> Work] /\ work[w] \in Work
        /\ work[w].at = "propose" => work[w].found # <<>>
    BY DEF Inv, Typed, TypeOK
  <1>1. CASE StartProcessing(w) \/ Complete(w) \/ AuditRun(w) \/ MarkRunFailed(w) \/ DiscoveryThrows(w)
    <2>1. PICK l \in {"discover", "audit", "completed", "attempt_failed", "catch"} : Goes(w, l)
      BY <1>1 DEF StartProcessing, Complete, AuditRun, MarkRunFailed, DiscoveryThrows, SetRun
    <2>2. [work[w] EXCEPT !.at = l] \in Work
      BY <1>0 DEF Work
    <2>3. PICK to \in Work : /\ work' = [work EXCEPT ![w] = to]
                             /\ to.at = l
      BY <1>0, <2>1, <2>2 DEF Goes, Work
    <2>4. run' \in {"queued", "processing", "completed", "failed"} \union {run}
      BY <1>1 DEF StartProcessing, Complete, AuditRun, MarkRunFailed, DiscoveryThrows, SetRun
    <2>5. UNCHANGED <<job, cand, crm, req, approved>>
      BY <1>1 DEF StartProcessing, Complete, AuditRun, MarkRunFailed, DiscoveryThrows, SetRun
    <2>6. Onward
      BY <1>1, MishapOnward
         DEF StartProcessing, Complete, AuditRun, MarkRunFailed, DiscoveryThrows, SetRun
    <2> QED
      BY <2>1, <2>3, <2>4, <2>5, <2>6, WorkerGoes
  <1>2. CASE Discover(w)
    <2>1. PICK found \in Results, hits \in SUBSET DOMAIN crm :
              work' = [work EXCEPT ![w].at = IF found = <<>> THEN "complete" ELSE "propose",
                                   ![w].found = found, ![w].hits = hits]
      BY <1>2 DEF Discover
    <2>2. found \in Seq(Prospects) /\ hits \in SUBSET Nat
      BY DiscoveryAssumption DEF Inv, Typed
    <2>3. PICK to \in Work : /\ work' = [work EXCEPT ![w] = to]
                             /\ to.at = "propose" => to.found # <<>>
      <3> DEFINE l == IF found = <<>> THEN "complete" ELSE "propose"
      <3>1. [at |-> l, found |-> found, hits |-> hits, sync |-> work[w].sync] \in Work
        BY <1>0, <2>2 DEF Work
      <3>2. work' = [work EXCEPT ![w] = [at |-> l, found |-> found, hits |-> hits,
                                         sync |-> work[w].sync]]
        <4>1. work'[w] = [at |-> l, found |-> found, hits |-> hits, sync |-> work[w].sync]
          BY <1>0, <2>1 DEF Work
        <4>2. /\ work' = [v \in Workers |-> work'[v]]
              /\ \A v \in Workers : v # w => work'[v] = work[v]
          BY <1>0, <2>1
        <4> QED
          BY <1>0, <4>1, <4>2
      <3> QED
        BY <3>1, <3>2
    <2>4. Onward /\ UNCHANGED <<run, job, cand, crm, req, approved>>
      BY <1>2, MishapOnward DEF Discover
    <2> QED
      BY <2>3, <2>4, WorkerGoes
  <1>3. CASE Propose(w)
    <2> DEFINE p == Head(work[w].found)
               row == [prospect |-> p, dedupe |-> Dedupe(p, work[w].hits), created |-> 0,
                       checkpoint |-> 0,
                       status |-> IF Dedupe(p, work[w].hits) = "EXACT_MATCH" THEN "DUPLICATE"
                                  ELSE "PROPOSED"]
    <2>1. /\ work[w].found \in Seq(Prospects) /\ work[w].found # <<>>
          /\ p \in Prospects
          /\ UNCHANGED <<run, job, crm, req, approved, mishaps>>
      BY <1>0, <1>3 DEF Propose, Work
    <2>2. row \in Candidates /\ row.created = 0 /\ row.checkpoint = 0
          /\ row.status \in {"DUPLICATE", "PROPOSED"}
      BY <2>1 DEF Candidates, Dedupe, Statuses, Matches
    <2>3. cand' = Append(cand, row)
      BY <1>3 DEF Propose
    <2> HIDE DEF row
    <2>4. /\ cand \in Seq(Candidates) /\ cand' \in Seq(Candidates) /\ Len(cand') = Len(cand) + 1
          /\ Len(cand) \in Nat
          /\ \A c \in DOMAIN cand : c \in DOMAIN cand' /\ cand'[c] = cand[c]
          /\ cand'[Len(cand) + 1] = row /\ DOMAIN cand' = DOMAIN cand \union {Len(cand) + 1}
      BY <2>2, <2>3 DEF Inv, Typed, TypeOK
    <2>5. /\ work' \in [Workers -> Work]
          /\ \A v \in Workers : work'[v].at = "propose" => work'[v].found # <<>>
      <3> DEFINE l == IF Len(work[w].found) = 1 THEN "complete" ELSE "propose"
                 to == [at |-> l, found |-> Tail(work[w].found), hits |-> work[w].hits,
                        sync |-> work[w].sync]
      <3>1. work' = [work EXCEPT ![w] = to]
        <4>1. work'[w] = to
          BY <1>0, <1>3 DEF Propose, Work
        <4>2. /\ work' = [v \in Workers |-> work'[v]]
              /\ \A v \in Workers : v # w => work'[v] = work[v]
          BY <1>0, <1>3 DEF Propose
        <4> QED
          BY <1>0, <4>1, <4>2
      <3>2. to \in Work /\ (to.at = "propose" => to.found # <<>>)
        <4>1. Tail(work[w].found) \in Seq(Prospects) /\ Len(Tail(work[w].found)) = Len(work[w].found) - 1
          BY <2>1
        <4>2. l \in {"complete", "propose"} /\ (l = "propose" => Len(Tail(work[w].found)) # 0)
          BY <4>1
        <4>3. to \in Work
          BY <1>0, <4>1, <4>2 DEF Work
        <4>4. to.at = "propose" => Len(to.found) # 0
          BY <4>2
        <4> QED
          BY <4>3, <4>4
      <3> HIDE DEF to
      <3>3. \A v \in Workers : work[v].at = "propose" => work[v].found # <<>>
        BY DEF Inv, Typed
      <3> QED
        BY <1>0, <3>1, <3>2, <3>3
    <2>6. Typed'
      <3>1. TypeOK'
        BY <2>1, <2>4, <2>5 DEF Inv, Typed, TypeOK
      <3>2. JobShape'
        BY <2>1 DEF Inv, Typed, JobShape
      <3> QED
        BY <2>1, <2>4, <2>5, <3>1, <3>2 DEF Inv, Typed, Empty
    <2>7. Sound'
      <3>1. \A c \in DOMAIN cand' : RowSound(c)'
        BY <2>1, <2>2, <2>4 DEF Inv, Sound, RowSound, RowFits, Owned
      <3> QED
        BY <2>1, <3>1 DEF Inv, Sound, RequestSound, Owned, WrittenWasApproved, Made
    <2>8. Alone'
      BY <2>1, <2>4 DEF Inv, Typed, Alone, Fresh
    <2> QED
      BY <2>6, <2>7, <2>8 DEF Inv
  <1> QED
    BY <1>1, <1>2, <1>3, QueueStep DEF Execute

------------------------------------------------------------------------------
(* Around the service.                                                      *)
LEMMA RestartStep ==
    ASSUME Inv, Restart
    PROVE  Inv'
  <1>1. /\ UNCHANGED <<run, job, cand, crm, approved>> /\ Onward
        /\ req' = [a \in Admins |-> NoRequest] /\ work' = [w \in Workers |-> NoWork]
    BY MishapOnward DEF Restart
  <1>2. NoRequest \in Requests /\ NoRequest.at = "idle" /\ NoRequest.at \notin OnRow /\ Empty(NoRequest)
    BY DEF NoRequest, Requests, OnRow, Creating, Looking, Named, Empty
  <1>3. Typed'
    <2>1. TypeOK'
      BY <1>1, <1>2, WorkTypes DEF Inv, Typed, TypeOK, Onward
    <2>2. JobShape'
      BY <1>1, <1>2 DEF Inv, Typed, JobShape
    <2> QED
      BY <1>1, <1>2, <2>1, <2>2, WorkTypes DEF Inv, Typed
  <1> QED
    BY <1>1, <1>2, <1>3, AsideStep

LEMMA UserAddsStep ==
    ASSUME Inv, NEW x \in UserCompanies, UserAdds(x)
    PROVE  Inv'
  <1> DEFINE added == [name |-> x.name, domain |-> x.domain, row |-> 0]
  <1>1. added \in Companies /\ added.row = 0
    BY DEF Companies
  <1>2. crm' = Append(crm, added) /\ UNCHANGED <<run, job, cand, req, work, approved>> /\ Onward
    BY MishapOnward DEF UserAdds
  <1> HIDE DEF added
  <1>3. /\ crm' \in Seq(Companies)
        /\ \A i \in DOMAIN crm' : crm'[i].row \in 0 .. Len(cand)
        /\ \A c, id : Owned(c, id) => Owned(c, id)'
        /\ WrittenWasApproved'
    BY <1>1, <1>2, CrmGrows
  <1>4. Typed'
    <2>1. TypeOK'
      BY <1>2, <1>3 DEF Inv, Typed, TypeOK, Onward
    <2>2. JobShape'
      BY <1>2 DEF Inv, Typed, JobShape
    <2> QED
      BY <1>2, <1>3, <2>1, <2>2 DEF Inv, Typed, Empty
  <1>5. Sound'
    BY <1>2, <1>3 DEF Inv, Sound, RowSound, RowFits, RequestSound
  <1>6. Alone'
    BY <1>2 DEF Inv, Alone, Fresh, Known, Onward
  <1> QED
    BY <1>4, <1>5, <1>6 DEF Inv

------------------------------------------------------------------------------
LEMMA NextInv == Inv /\ [Next]_vars => Inv'
  <1> SUFFICES ASSUME Inv, [Next]_vars PROVE Inv'
    OBVIOUS
  <1>1. CASE UNCHANGED vars
    BY <1>1 DEF vars, Inv, Typed, TypeOK, JobShape, Sound, RowSound, RowFits, RequestSound, Owned,
       Empty, WrittenWasApproved, Made, Alone, Fresh, Known
  <1>2. CASE \E a \in Admins : Start(a) \/ Decide(a) \/ Create(a) \/ RequestThrows(a)
    BY <1>2, StartStep, BeginStep, DecideStep, CreateStep, RequestThrowsStep DEF Decide
  <1>3. CASE \E w \in Workers : Take(w) \/ Execute(w)
    BY <1>3, QueueStep, ExecuteStep
  <1>4. CASE Reclaim \/ Stall \/ Restart \/ (\E x \in UserCompanies : UserAdds(x))
    BY <1>4, QueueStep, RestartStep, UserAddsStep
  <1> QED
    BY <1>1, <1>2, <1>3, <1>4 DEF Next

\* The inductive invariant, for any number of admins, workers, prospects and mishaps.
THEOREM Invariance == Spec => []Inv
  BY InitInv, NextInv, PTL DEF Spec

\* Types, for every value of the constants.
THEOREM TypeCorrect == Spec => []TypeOK
  <1>1. Inv => TypeOK
    BY DEF Inv, Typed
  <1> QED
    BY <1>1, Invariance, PTL

\* createApprovedCandidate: whatever fails, restarts or overlaps, a company was created
\* only for a candidate somebody approved.
THEOREM ApprovalBeforeCreation == Spec => []WrittenWasApproved
  <1>1. Inv => WrittenWasApproved
    BY DEF Inv, Sound
  <1> QED
    BY <1>1, Invariance, PTL

\* createApprovedCandidate: a CREATED candidate names a company created for it.
THEOREM CreatedIsTrue == Spec => []CreatedHasItsCompany
  <1>1. Inv => CreatedHasItsCompany
    <2> SUFFICES ASSUME Inv, NEW c \in DOMAIN cand, cand[c].status = "CREATED"
                 PROVE  cand[c].created \in Made /\ crm[cand[c].created].row = c
      BY DEF CreatedHasItsCompany
    <2>1. RowSound(c) /\ c # 0
      BY DEF Inv, Typed, TypeOK, Sound
    <2> QED
      BY <2>1 DEF RowSound, RowFits, Owned, Made
  <1> QED
    BY <1>1, Invariance, PTL

------------------------------------------------------------------------------
(* What a step does to a row and to what is created for it, while rivals    *)
(* do not overlap.                                                          *)
Decided(row) == row.status \in {"REJECTED", "DUPLICATE"}

\* A row the CRM's company is known of is no duplicate.
Clean == mishaps.overlaps = 0 => \A c \in DOMAIN cand : Known(cand[c]) => cand[c].status # "DUPLICATE"

\* What becomes of row c.
Kept(c) ==
    /\ c \in DOMAIN cand'
    /\ Decided(cand[c]) => cand'[c].status \in {cand[c].status, "REJECTED"}
    /\ Known(cand[c]) => Known(cand'[c])
    /\ Known(cand'[c]) /\ cand'[c].status = "DUPLICATE" => cand'[c] = cand[c]

LEMMA WriteKeeps ==
    ASSUME Inv, mishaps.overlaps = 0, NEW a \in Admins,
           \/ Approve(a) \/ Reject(a) \/ Recover(a) \/ MarkLookupFailed(a) \/ MarkDuplicate(a)
           \/ MarkPossible(a) \/ RecordSuccess(a) \/ MarkNewCreated(a) \/ MarkCreateFailed(a)
    PROVE  /\ crm' = crm /\ mishaps' = mishaps /\ DOMAIN cand' = DOMAIN cand
           /\ \A c \in DOMAIN cand : Kept(c)
  <1> DEFINE r == req[a].row
  <1>1. crm' = crm /\ mishaps' = mishaps /\ req[a].at \in OnRow
    BY DEF Approve, Reject, Recover, MarkLookupFailed, MarkDuplicate, MarkPossible, RecordSuccess,
       MarkNewCreated, MarkCreateFailed, MarkCreated, Update, OnRow, Creating, Looking, Named
  <1>2. /\ r \in DOMAIN cand /\ cand \in Seq(Candidates) /\ cand[r] \in Candidates
        /\ Fresh(req[a]) /\ RequestSound(req[a])
    BY <1>1, Standing DEF Row
  <1>3. /\ DOMAIN cand' = DOMAIN cand
        /\ \A c \in DOMAIN cand : c # r => cand'[c] = cand[c]
    BY <1>2 DEF Approve, Reject, Recover, MarkLookupFailed, MarkDuplicate, MarkPossible,
       RecordSuccess, MarkNewCreated, MarkCreateFailed, MarkCreated, Update
  <1>4. Kept(r)
    <2>1. CASE Approve(a)
      <3>1. cand'[r] = [cand[r] EXCEPT !.status = "APPROVED"] /\ req[a].at = "approve"
        BY <1>2, <2>1 DEF Approve, Update, Row
      <3> QED
        BY <1>2, <1>3, <3>1 DEF Fresh, Kept, Known, Decided, Candidates
    <2>2. CASE Reject(a)
      <3>1. cand'[r] = [cand[r] EXCEPT !.status = "REJECTED"]
        BY <1>2, <2>2 DEF Reject, Update, Row
      <3> QED
        BY <1>2, <1>3, <3>1 DEF Kept, Known, Decided, Candidates
    <2>3. CASE Recover(a) \/ MarkNewCreated(a)
      <3>1. /\ cand'[r] = [cand[r] EXCEPT !.status = "CREATED", !.created = req[a].id]
            /\ req[a].at \in {"recover", "created"}
        BY <1>2, <2>3 DEF Recover, MarkNewCreated, MarkCreated, Update, Row
      <3>2. req[a].id # 0 /\ cand[r].status \in {"APPROVED", "FAILED", "CREATED"}
        BY <1>2, <3>1 DEF Fresh, RequestSound, Named, Creating
      <3> QED
        BY <1>2, <1>3, <3>1, <3>2 DEF Kept, Known, Decided, Candidates
    <2>4. CASE MarkLookupFailed(a)
      <3>1. cand'[r] = [cand[r] EXCEPT !.status = "FAILED"] /\ req[a].at = "lookup_failed"
        BY <1>2, <2>4 DEF MarkLookupFailed, Update, Row
      <3>2. cand[r].status \in {"APPROVED", "FAILED", "CREATED"}
        BY <1>2, <3>1 DEF Fresh, Creating, Looking
      <3> QED
        BY <1>2, <1>3, <3>1, <3>2 DEF Kept, Known, Decided, Candidates
    <2>5. CASE MarkDuplicate(a)
      <3>1. /\ cand'[r] = [cand[r] EXCEPT !.status = "DUPLICATE", !.dedupe = "EXACT_MATCH"]
            /\ req[a].at = "duplicate"
        BY <1>2, <2>5 DEF MarkDuplicate, Update, Row
      <3>2. cand[r].status \in {"APPROVED", "FAILED", "CREATED"} /\ ~Known(cand[r])
        BY <1>2, <3>1 DEF Fresh, Creating, Looking
      <3> QED
        BY <1>2, <1>3, <3>1, <3>2 DEF Kept, Known, Decided, Candidates
    <2>6. CASE MarkPossible(a)
      <3>1. cand'[r] = [cand[r] EXCEPT !.dedupe = "POSSIBLE_MATCH"] /\ req[a].at = "possible"
        BY <1>2, <2>6 DEF MarkPossible, Update, Row
      <3>2. cand[r].status \in {"APPROVED", "FAILED", "CREATED"}
        BY <1>2, <3>1 DEF Fresh, Creating, Looking
      <3> QED
        BY <1>2, <1>3, <3>1, <3>2 DEF Kept, Known, Decided, Candidates
    <2>7. CASE RecordSuccess(a)
      <3>1. cand'[r] = [cand[r] EXCEPT !.checkpoint = req[a].id] /\ req[a].at = "record"
        BY <1>2, <2>7 DEF RecordSuccess, Update, Row
      <3>2. req[a].id # 0 /\ cand[r].status \in {"APPROVED", "FAILED", "CREATED"}
        BY <1>2, <3>1 DEF Fresh, RequestSound, Named, Creating, Looking
      <3> QED
        BY <1>2, <1>3, <3>1, <3>2 DEF Kept, Known, Decided, Candidates
    <2>8. CASE MarkCreateFailed(a)
      <3> DEFINE id == IF req[a].id # 0 THEN req[a].id ELSE req[a].known
      <3>1. /\ cand'[r] = [cand[r] EXCEPT !.status = "FAILED", !.created = id]
            /\ req[a].at = "catch"
        BY <1>2, <2>8 DEF MarkCreateFailed, Update, Row
      <3>2. /\ cand[r].status \in {"APPROVED", "FAILED", "CREATED"}
            /\ Known(cand[r]) => id # 0
        BY <1>2, <3>1 DEF Fresh, Creating
      <3> HIDE DEF id
      <3> QED
        BY <1>2, <1>3, <3>1, <3>2 DEF Kept, Known, Decided, Candidates
    <2> QED
      BY <2>1, <2>2, <2>3, <2>4, <2>5, <2>6, <2>7, <2>8
  <1> QED
    BY <1>1, <1>3, <1>4 DEF Kept

\* A company is created for its request's row, of which none was known.
LEMMA CreateKeeps ==
    ASSUME Inv, mishaps.overlaps = 0, NEW a \in Admins, CreateCompany(a), NEW c \in DOMAIN cand
    PROVE  Known(cand[c]) \/ Decided(cand[c]) => NoneCreatedFor(c)
  <1>1. req[a].at = "call" /\ req[a].at \in Looking /\ req[a].at \in Creating /\ req[a].at \in OnRow
    BY DEF CreateCompany, Looking, Creating, OnRow
  <1>2. Fresh(req[a]) /\ crm \in Seq(Companies)
    BY <1>1, Standing
  <1>3. ~Known(cand[req[a].row]) /\ ~Decided(cand[req[a].row])
    BY <1>1, <1>2 DEF Fresh, Decided
  <1> DEFINE made == [name |-> Company(Row(a).prospect).name,
                      domain |-> Company(Row(a).prospect).domain, row |-> req[a].row]
  <1>4. crm' = Append(crm, made) /\ made.row = req[a].row
    BY DEF CreateCompany
  <1> HIDE DEF made
  <1>5. /\ DOMAIN crm' = 1 .. Len(crm) + 1 /\ DOMAIN crm = 1 .. Len(crm) /\ Len(crm) \in Nat
        /\ crm'[Len(crm) + 1] = made
    BY <1>2, <1>4
  <1> QED
    BY <1>3, <1>4, <1>5 DEF NoneCreatedFor

\* Steps that write no row that was there, and create nothing.
LEMMA OtherSteps ==
    ASSUME Inv, [Next]_vars, mishaps'.overlaps = 0
    PROVE  /\ mishaps.overlaps = 0
           /\ \/ \E a \in Admins :
                  \/ Approve(a) \/ Reject(a) \/ Recover(a) \/ MarkLookupFailed(a)
                  \/ MarkDuplicate(a) \/ MarkPossible(a) \/ RecordSuccess(a)
                  \/ MarkNewCreated(a) \/ MarkCreateFailed(a)
              \/ \E a \in Admins : CreateCompany(a) /\ cand' = cand
              \/ \E w \in Workers : Propose(w) /\ crm' = crm
              \/ \E x \in UserCompanies : UserAdds(x) /\ cand' = cand
              \/ cand' = cand /\ crm' = crm
  <1>1. CASE UNCHANGED vars
    BY <1>1 DEF vars
  <1>2. ASSUME NEW a \in Admins, Start(a) PROVE mishaps' = mishaps /\ cand' = cand /\ crm' = crm
    BY <1>2 DEF Start, CreateRun, AddJob, RunSync
  <1>3. ASSUME NEW a \in Admins, NEW c \in DOMAIN cand,
               ApproveRead(a, c) \/ RejectRead(a, c) \/ CreateRead(a, c)
        PROVE  Onward /\ cand' = cand /\ crm' = crm
    BY <1>3, OverlapsCounted DEF ApproveRead, RejectRead, CreateRead, Begin
  <1>4. ASSUME NEW a \in Admins, GetCompleted(a) \/ Lookup(a) \/ LookupFails(a) \/ AuditCreated(a)
                                  \/ RequestThrows(a)
        PROVE  Onward /\ cand' = cand /\ crm' = crm
    <2>1. Mishap("faults") \/ UNCHANGED mishaps
      BY <1>4 DEF GetCompleted, Lookup, LookupFails, AuditCreated, RequestThrows
    <2> QED
      BY <1>4, <2>1, MishapOnward DEF GetCompleted, Lookup, LookupFails, AuditCreated, RequestThrows
  <1>5. ASSUME NEW a \in Admins, CreateCompany(a) PROVE Onward /\ cand' = cand
    BY <1>5, MishapOnward DEF CreateCompany
  <1>6. ASSUME NEW a \in Admins,
               \/ Approve(a) \/ Reject(a) \/ Recover(a) \/ MarkLookupFailed(a)
               \/ MarkDuplicate(a) \/ MarkPossible(a) \/ RecordSuccess(a)
               \/ MarkNewCreated(a) \/ MarkCreateFailed(a)
        PROVE  mishaps' = mishaps
    BY <1>6 DEF Approve, Reject, Recover, MarkLookupFailed, MarkDuplicate, MarkPossible,
       RecordSuccess, MarkNewCreated, MarkCreateFailed, MarkCreated, Update
  <1>7. ASSUME NEW w \in Workers, Take(w) \/ (Execute(w) /\ ~Propose(w))
        PROVE  Onward /\ cand' = cand /\ crm' = crm
    <2>1. Mishap("faults") \/ UNCHANGED mishaps
      BY <1>7 DEF Take, Execute, StartProcessing, Discover, Complete, AuditRun, MarkRunFailed,
         DiscoveryThrows, JobCompleted, AttemptFailed, Settle, SetRun
    <2> QED
      BY <1>7, <2>1, MishapOnward DEF Take, Execute, StartProcessing, Discover, Complete, AuditRun,
         MarkRunFailed, DiscoveryThrows, JobCompleted, AttemptFailed, Settle, SetRun
  <1>8. ASSUME NEW w \in Workers, Propose(w) PROVE mishaps' = mishaps /\ crm' = crm
    BY <1>8 DEF Propose
  <1>9. ASSUME Reclaim \/ Stall \/ Restart PROVE Onward /\ cand' = cand /\ crm' = crm
    BY <1>9, MishapOnward DEF Reclaim, Stall, Relinquish, Restart
  <1>10. ASSUME NEW x \in UserCompanies, UserAdds(x) PROVE Onward /\ cand' = cand
    BY <1>10, MishapOnward DEF UserAdds
  <1>11. CASE \E a \in Admins : Start(a) \/ Decide(a) \/ Create(a) \/ RequestThrows(a)
    BY <1>2, <1>3, <1>4, <1>5, <1>6, <1>11 DEF Decide, Create, Onward
  <1>12. CASE \E w \in Workers : Take(w) \/ Execute(w)
    BY <1>7, <1>8, <1>12 DEF Onward
  <1> QED
    BY <1>1, <1>9, <1>10, <1>11, <1>12 DEF Next, Onward

\* Every step, seen from the rows there are.
LEMMA StepKeeps ==
    ASSUME Inv, [Next]_vars, mishaps'.overlaps = 0
    PROVE  /\ mishaps.overlaps = 0
           /\ \A c \in DOMAIN cand :
                /\ Kept(c)
                /\ Known(cand[c]) \/ Decided(cand[c]) => NoneCreatedFor(c)
           /\ \A c \in DOMAIN cand' : c \in DOMAIN cand \/ ~Known(cand'[c])
  <1>0. mishaps.overlaps = 0 /\ cand \in Seq(Candidates) /\ crm \in Seq(Companies)
    BY OtherSteps DEF Inv, Typed, TypeOK
  <1>1. CASE \E a \in Admins :
                \/ Approve(a) \/ Reject(a) \/ Recover(a) \/ MarkLookupFailed(a)
                \/ MarkDuplicate(a) \/ MarkPossible(a) \/ RecordSuccess(a)
                \/ MarkNewCreated(a) \/ MarkCreateFailed(a)
    BY <1>0, <1>1, WriteKeeps DEF NoneCreatedFor
  <1>2. CASE \E a \in Admins : CreateCompany(a) /\ cand' = cand
    BY <1>0, <1>2, CreateKeeps DEF Kept, Known
  <1>3. CASE \E w \in Workers : Propose(w) /\ crm' = crm
    <2>1. PICK w \in Workers : Propose(w)
      BY <1>3
    <2> DEFINE made == [prospect |-> Head(work[w].found),
                        dedupe |-> Dedupe(Head(work[w].found), work[w].hits),
                        created |-> 0, checkpoint |-> 0,
                        status |-> IF Dedupe(Head(work[w].found), work[w].hits) = "EXACT_MATCH"
                                   THEN "DUPLICATE" ELSE "PROPOSED"]
    <2>3. PICK row \in {made} : cand' = Append(cand, row)
      BY <2>1 DEF Propose
    <2>4. row.created = 0 /\ row.checkpoint = 0
      BY <2>3
    <2>5. /\ \A c \in DOMAIN cand : c \in DOMAIN cand' /\ cand'[c] = cand[c]
          /\ \A c \in DOMAIN cand' : c \in DOMAIN cand \/ cand'[c] = row
      <3>1. DOMAIN cand = 1 .. Len(cand) /\ Len(cand) \in Nat /\ DOMAIN cand' = 1 .. Len(cand) + 1
            /\ cand'[Len(cand) + 1] = row /\ \A c \in DOMAIN cand : cand'[c] = cand[c]
        BY <1>0, <2>3
      <3> QED
        BY <3>1
    <2> QED
      BY <1>0, <1>3, <2>4, <2>5 DEF Kept, Known, NoneCreatedFor
  <1>4. CASE \E x \in UserCompanies : UserAdds(x) /\ cand' = cand
    <2>1. PICK x \in UserCompanies : UserAdds(x)
      BY <1>4
    <2>2. PICK new \in {[name |-> x.name, domain |-> x.domain, row |-> 0]} : crm' = Append(crm, new)
      BY <2>1 DEF UserAdds
    <2>3. new.row = 0
      BY <2>2
    <2>4. \A i \in DOMAIN crm' : i \in DOMAIN crm \/ crm'[i] = new
      <3>1. DOMAIN crm = 1 .. Len(crm) /\ Len(crm) \in Nat /\ DOMAIN crm' = 1 .. Len(crm) + 1
            /\ crm'[Len(crm) + 1] = new
        BY <1>0, <2>2
      <3> QED
        BY <3>1
    <2>5. \A c \in DOMAIN cand : c # 0
      BY <1>0
    <2> QED
      BY <1>0, <1>4, <2>3, <2>4, <2>5 DEF Kept, Known, NoneCreatedFor
  <1>5. CASE cand' = cand /\ crm' = crm
    BY <1>0, <1>5 DEF Kept, Known, NoneCreatedFor
  <1> QED
    BY <1>1, <1>2, <1>3, <1>4, <1>5, OtherSteps

LEMMA CleanStep == Inv /\ Clean /\ [Next]_vars => Clean'
  <1> SUFFICES ASSUME Inv, Clean, [Next]_vars, mishaps'.overlaps = 0,
                      NEW c \in DOMAIN cand', Known(cand'[c])
               PROVE  cand'[c].status # "DUPLICATE"
    BY DEF Clean, Known
  <1>1. c \in DOMAIN cand /\ Kept(c) /\ mishaps.overlaps = 0
    BY StepKeeps
  <1> QED
    BY <1>1 DEF Kept, Clean, Known

\* requireReviewableCandidate, rejectCandidate and createApprovedCandidate's first check:
\* while requests on rival prospects do not overlap, no step takes back a rejection or an
\* exact match, nor creates a company for such a candidate.
THEOREM DecisionsStand == Spec => DecisionStands
  <1>1. Inv /\ [Next]_vars =>
          [mishaps'.overlaps = 0 =>
             \A c \in DOMAIN cand :
                cand[c].status \in {"REJECTED", "DUPLICATE"} =>
                    cand'[c].status \in {cand[c].status, "REJECTED"} /\ NoneCreatedFor(c)]_vars
    BY StepKeeps DEF Kept, Decided
  <1> QED
    BY <1>1, Invariance, PTL DEF Spec, DecisionStands

\* createApprovedCandidate: a company the rows know is never forgotten, never created
\* again, and never mistaken for somebody else's.
THEOREM KnownCompanyStays == Spec => KnownCompanyIsReused
  <1>1. Init => Clean
    BY DEF Init, Clean
  <1>2. Spec => []Clean
    BY <1>1, CleanStep, Invariance, PTL DEF Spec
  <1>3. Inv /\ Clean /\ Clean' /\ [Next]_vars =>
          [mishaps'.overlaps = 0 =>
             \A c \in DOMAIN cand :
                Known(cand[c]) => /\ Known(cand'[c]) /\ NoneCreatedFor(c)
                                  /\ cand'[c].status # "DUPLICATE"]_vars
    BY StepKeeps DEF Kept, Clean, Known
  <1> QED
    BY <1>2, <1>3, Invariance, PTL DEF Spec, KnownCompanyIsReused

------------------------------------------------------------------------------
(* What requests on rival prospects may still add to the CRM, counted.      *)
Asking == {"checkpoint", "lookup", "call"}  \* may still create a company
Prospect(a) == Row(a).prospect
Rivaling(a) == {b \in Admins \ {a} : req[b].row # 0 /\ Rivals(Prospect(a), Prospect(b))}
Feeding(a) == {b \in Rivaling(a) : req[b].at \in Asking}

\* The companies a new one for p would repeat.
Matching(p) == {i \in DOMAIN crm : IsExact(p, crm[i]) \/ (i \in Made /\ MadeFor(i) = p)}

\* Every rival of a request under way was counted when the later of the two began.  Once
\* its lookup has found nothing, what it would repeat has come from such rivals, or will.
Settled ==
    \A a \in Admins : req[a].row # 0 =>
        /\ Cardinality(Rivaling(a)) <= mishaps.overlaps
        /\ req[a].at = "call" =>
              Cardinality(Matching(Prospect(a))) + Cardinality(Feeding(a)) <= mishaps.overlaps

NamedAfter == \A i \in Made : crm[i].name = Name[MadeFor(i)]

Counted == Settled /\ NamedAfter /\ NoSecondCompany

\* What company j repeats.
Repeated(j) == {i \in 1 .. j - 1 : \/ IsExact(MadeFor(j), crm[i])
                                   \/ i \in Made /\ MadeFor(i) = MadeFor(j)}

LEMMA RepeatedCounts ==
    NoSecondCompany <=> \A j \in Made : Cardinality(Repeated(j)) <= mishaps.overlaps
  BY DEF NoSecondCompany, Repeated

LEMMA FiniteRepeated ==
    ASSUME Inv, NEW j \in Made
    PROVE  IsFiniteSet(Repeated(j)) /\ j \in 1 .. Len(crm) /\ j \in Nat
  <1>1. j \in 1 .. Len(crm) /\ Len(crm) \in Nat
    BY DEF Made, Inv, Typed
  <1>2. IsFiniteSet(1 .. j - 1)
    BY <1>1, FS_Interval
  <1>3. Repeated(j) \subseteq 1 .. j - 1
    BY DEF Repeated
  <1> QED
    BY <1>1, <1>2, <1>3, FS_Subset

LEMMA SubsetCount ==
    ASSUME NEW S, IsFiniteSet(S), NEW T, T \subseteq S
    PROVE  /\ IsFiniteSet(T) /\ Cardinality(S) \in Nat /\ Cardinality(T) \in Nat
           /\ Cardinality(T) <= Cardinality(S)
  BY FS_Subset, FS_CardinalityType

LEMMA GrowthCount ==
    ASSUME NEW S, IsFiniteSet(S), NEW x, NEW T, T \subseteq S \union {x}
    PROVE  /\ Cardinality(S) \in Nat /\ Cardinality(T) \in Nat
           /\ Cardinality(T) <= Cardinality(S) + 1
  <1>1. PICK n : n = Cardinality(S)
    OBVIOUS
  <1>2. n \in Nat
    BY <1>1, FS_CardinalityType
  <1>3. IsFiniteSet(S \union {x}) /\ Cardinality(S \union {x}) \in {n, n + 1}
    BY <1>1, FS_AddElement
  <1>4. /\ Cardinality(T) \in Nat /\ Cardinality(T) <= Cardinality(S \union {x})
    BY <1>3, SubsetCount
  <1> QED
    BY <1>1, <1>2, <1>3, <1>4

LEMMA LossCount ==
    ASSUME NEW S, IsFiniteSet(S), NEW x \in S, NEW T, T \subseteq S \ {x}
    PROVE  /\ Cardinality(S) \in Nat /\ Cardinality(T) \in Nat
           /\ Cardinality(T) + 1 <= Cardinality(S)
  <1>1. PICK n : n = Cardinality(S)
    OBVIOUS
  <1>2. n \in Nat
    BY <1>1, FS_CardinalityType
  <1>3. IsFiniteSet(S \ {x}) /\ Cardinality(S \ {x}) = n - 1
    BY <1>1, FS_RemoveElement
  <1>4. /\ Cardinality(T) \in Nat /\ Cardinality(T) <= Cardinality(S \ {x})
    BY <1>3, SubsetCount
  <1> QED
    BY <1>1, <1>2, <1>3, <1>4

LEMMA FiniteRivals ==
    ASSUME Inv, NEW a, NEW p
    PROVE  IsFiniteSet(Rivaling(a)) /\ IsFiniteSet(Feeding(a)) /\ IsFiniteSet(Matching(p))
  <1>1. IsFiniteSet(Rivaling(a)) /\ IsFiniteSet(Feeding(a))
    <2>1. Rivaling(a) \subseteq Admins /\ Feeding(a) \subseteq Admins
      BY DEF Rivaling, Feeding
    <2> QED
      BY <2>1, DiscoveryAssumption, FS_Subset
  <1>2. IsFiniteSet(Matching(p))
    <2>1. Matching(p) \subseteq 1 .. Len(crm) /\ Len(crm) \in Nat
      BY DEF Matching, Inv, Typed
    <2>2. IsFiniteSet(1 .. Len(crm))
      BY <2>1, FS_Interval
    <2> QED
      BY <2>1, <2>2, FS_Subset
  <1> QED
    BY <1>1, <1>2

LEMMA OnRowHasRow ==
    ASSUME Inv, NEW a \in Admins
    PROVE  /\ req[a].row # 0 <=> req[a].at \in OnRow
           /\ req[a].row # 0 => req[a].row \in DOMAIN cand /\ Prospect(a) \in Prospects
  <1>1. cand \in Seq(Candidates)
    BY DEF Inv, Typed, TypeOK
  <1>2. IF req[a].at \in OnRow THEN req[a].row \in DOMAIN cand ELSE req[a].row = 0
    BY DEF Inv, Typed, Empty
  <1>3. \A c \in DOMAIN cand : c # 0 /\ cand[c].prospect \in Prospects
    <2>1. \A c \in DOMAIN cand : c # 0 /\ cand[c] \in Candidates
      BY <1>1
    <2> QED
      BY <2>1 DEF Candidates
  <1> QED
    BY <1>2, <1>3 DEF Prospect, Row

------------------------------------------------------------------------------
\* What request b may do but begin or create: end, or go on with its row, and come to its
\* call only when the CRM holds nothing it would repeat.
Subsides(b) ==
    \/ req'[b].row = 0
    \/ /\ req'[b].row = req[b].row
       /\ req'[b].at \in Asking => req[b].at \in Asking
       /\ req'[b].at = "call" => req[b].at = "call" \/ Matching(Prospect(b)) = {}

ProspectsStay == \A c \in DOMAIN cand : c \in DOMAIN cand' /\ cand'[c].prospect = cand[c].prospect

Quiet ==
    /\ crm' = crm /\ mishaps.overlaps <= mishaps'.overlaps
    /\ ProspectsStay
    /\ \A b \in Admins : Subsides(b)

LEMMA OneSubsides ==
    ASSUME Inv, NEW a \in Admins, NEW to, req' = [req EXCEPT ![a] = to],
           \/ to.row = 0
           \/ /\ to.row = req[a].row
              /\ to.at \in Asking => req[a].at \in Asking
              /\ to.at = "call" => Matching(Prospect(a)) = {}
    PROVE  \A b \in Admins : Subsides(b)
  BY DEF Subsides, Inv, Typed, TypeOK

\* Nothing in the CRM matches, by domain or by name, a prospect the lookup calls new.
LEMMA NewMatchesNothing ==
    ASSUME Inv, NamedAfter, NEW p, Dedupe(p, DOMAIN crm) = "NEW"
    PROVE  Matching(p) = {}
  <1>1. /\ \A i \in DOMAIN crm : ~IsExact(p, crm[i])
        /\ \A i \in DOMAIN crm : crm[i].name # Name[p]
    BY DEF Dedupe
  <1> QED
    BY <1>1 DEF Matching, NamedAfter, Made

LEMMA WritesAreQuiet ==
    ASSUME Inv, NEW a \in Admins,
           \/ Approve(a) \/ Reject(a) \/ Recover(a) \/ MarkLookupFailed(a) \/ MarkDuplicate(a)
           \/ MarkPossible(a) \/ RecordSuccess(a) \/ MarkNewCreated(a) \/ MarkCreateFailed(a)
    PROVE  Quiet
  <1> DEFINE r == req[a].row
  <1>1. /\ req[a].at \in OnRow /\ crm' = crm /\ mishaps' = mishaps
    BY DEF Approve, Reject, Recover, MarkLookupFailed, MarkDuplicate, MarkPossible, RecordSuccess,
       MarkNewCreated, MarkCreateFailed, MarkCreated, Update, OnRow, Creating, Looking, Named
  <1>2. /\ r \in DOMAIN cand /\ cand \in Seq(Candidates) /\ cand[r] \in Candidates
        /\ req[a] \in Requests /\ mishaps.overlaps \in Nat
    BY <1>1 DEF Inv, Typed, TypeOK
  <1>3. ProspectsStay
    <2>1. PICK row : cand' = [cand EXCEPT ![r] = row] /\ row.prospect = cand[r].prospect
      <3>1. CASE Approve(a) \/ Reject(a) \/ MarkLookupFailed(a) \/ MarkPossible(a) \/ RecordSuccess(a)
        BY <1>2, <3>1 DEF Approve, Reject, MarkLookupFailed, MarkPossible, RecordSuccess, Update,
           Row, Candidates
      <3>2. CASE Recover(a) \/ MarkNewCreated(a)
        BY <1>2, <3>2 DEF Recover, MarkNewCreated, MarkCreated, Update, Row, Candidates
      <3>3. CASE MarkDuplicate(a)
        <4> DEFINE row == [cand[r] EXCEPT !.status = "DUPLICATE", !.dedupe = "EXACT_MATCH"]
        <4>1. cand' = [cand EXCEPT ![r] = row]
          BY <3>3 DEF MarkDuplicate, Update, Row
        <4>2. row.prospect = cand[r].prospect
          BY <1>2 DEF Candidates
        <4> HIDE DEF row
        <4> QED
          BY <4>1, <4>2
      <3>4. CASE MarkCreateFailed(a)
        BY <1>2, <3>4 DEF MarkCreateFailed, Update, Row, Candidates
      <3> QED
        BY <3>1, <3>2, <3>3, <3>4
    <2> QED
      BY <1>2, <2>1 DEF ProspectsStay
  <1>4. PICK to \in {NoRequest, [req[a] EXCEPT !.at = "created"], [req[a] EXCEPT !.at = "audit"]} :
            req' = [req EXCEPT ![a] = to]
    BY DEF Approve, Reject, Recover, MarkLookupFailed, MarkDuplicate, MarkPossible, RecordSuccess,
       MarkNewCreated, MarkCreateFailed, MarkCreated, Update, Answer
  <1>5. to.row = 0 \/ (to.row = req[a].row /\ to.at \in {"created", "audit"})
    BY <1>2, <1>4 DEF NoRequest, Requests
  <1>6. \A b \in Admins : Subsides(b)
    BY <1>4, <1>5, OneSubsides DEF Asking
  <1> QED
    BY <1>1, <1>2, <1>3, <1>6 DEF Quiet

LEMMA RequestsAreQuiet ==
    ASSUME Inv, NamedAfter, NEW a \in Admins,
           \/ Start(a) \/ GetCompleted(a) \/ Lookup(a) \/ LookupFails(a) \/ AuditCreated(a)
           \/ RequestThrows(a)
    PROVE  Quiet
  <1>1. cand' = cand /\ crm' = crm /\ mishaps.overlaps <= mishaps'.overlaps
    <2>1. Mishap("faults") \/ UNCHANGED mishaps
      BY DEF Start, CreateRun, AddJob, RunSync, GetCompleted, Lookup, LookupFails, AuditCreated,
         RequestThrows
    <2>2. Onward
      BY <2>1, MishapOnward
    <2> QED
      BY <2>2 DEF Onward, Start, CreateRun, AddJob, RunSync, GetCompleted, Lookup, LookupFails,
         AuditCreated, RequestThrows
  <1>2. req[a] \in Requests
    BY DEF Inv, Typed, TypeOK
  <1>3. CASE Start(a) \/ AuditCreated(a)
    <2>1. PICK to : req' = [req EXCEPT ![a] = to] /\ to.row = 0
      BY <1>3 DEF Start, CreateRun, AddJob, RunSync, AuditCreated, Answer, NoRequest
    <2> QED
      BY <1>1, <2>1, OneSubsides DEF Quiet, ProspectsStay
  <1>4. CASE GetCompleted(a)
    <2>1. PICK at \in {"recover", "lookup"}, id \in {KnownCompany(a)} :
              req' = [req EXCEPT ![a] = [req[a] EXCEPT !.at = at, !.id = id]]
      BY <1>4 DEF GetCompleted, Answer
    <2>2. PICK to : req' = [req EXCEPT ![a] = to] /\ to = [req[a] EXCEPT !.at = at, !.id = id]
      BY <2>1
    <2>3. to.row = req[a].row /\ to.at # "call" /\ req[a].at \in Asking
      BY <1>2, <1>4, <2>2 DEF GetCompleted, Asking, Requests
    <2> QED
      BY <1>1, <2>2, <2>3, OneSubsides DEF Quiet, ProspectsStay
  <1>5. CASE Lookup(a)
    <2> DEFINE match == Dedupe(Row(a).prospect, DOMAIN crm)
    <2>1. match \in Matches
      BY DEF Dedupe, Matches
    <2>2. PICK at : /\ req' = [req EXCEPT ![a] = [req[a] EXCEPT !.at = at]]
                    /\ at = CASE match = "EXACT_MATCH" -> "duplicate"
                              [] match = "POSSIBLE_MATCH" -> "possible"
                              [] match = "NEW" -> "call"
      BY <1>5 DEF Lookup, LookupAnswered, Answer
    <2>3. match = "NEW" => Matching(Prospect(a)) = {}
      BY NewMatchesNothing DEF Prospect
    <2> HIDE DEF match
    <2>4. at = "call" => match = "NEW"
      BY <2>1, <2>2 DEF Matches
    <2>5. PICK to : req' = [req EXCEPT ![a] = to] /\ to = [req[a] EXCEPT !.at = at]
      BY <2>2
    <2>6. to.row = req[a].row /\ to.at = at /\ req[a].at \in Asking
      BY <1>2, <1>5, <2>5 DEF Lookup, Asking, Requests
    <2> QED
      BY <1>1, <2>3, <2>4, <2>5, <2>6, OneSubsides DEF Quiet, ProspectsStay
  <1>6. CASE LookupFails(a) \/ RequestThrows(a)
    <2>1. PICK to \in {NoRequest, [req[a] EXCEPT !.at = "catch"], [req[a] EXCEPT !.at = "lookup_failed"]} :
              req' = [req EXCEPT ![a] = to]
      BY <1>6 DEF LookupFails, FailClosed, RequestThrows, ToCatch, Answer
    <2>2. to.row = 0 \/ (to.row = req[a].row /\ to.at \in {"catch", "lookup_failed"})
      BY <1>2, <2>1 DEF NoRequest, Requests
    <2> QED
      BY <1>1, <2>1, <2>2, OneSubsides DEF Quiet, ProspectsStay, Asking
  <1> QED
    BY <1>3, <1>4, <1>5, <1>6

LEMMA StillIsQuiet ==
    ASSUME Inv, Onward, crm' = crm, ProspectsStay,
           req' = req \/ req' = [a \in Admins |-> NoRequest]
    PROVE  Quiet
  <1>1. \A b \in Admins : Subsides(b)
    BY DEF Subsides, NoRequest
  <1> QED
    BY <1>1 DEF Quiet, Onward

\* Every step begins a request on a row, creates a company, adds one, or is quiet.
LEMMA QuietSteps ==
    ASSUME Inv, NamedAfter, [Next]_vars
    PROVE  \/ \E a \in Admins, c \in DOMAIN cand, at \in {"approve", "reject", "checkpoint"} :
                 Begin(a, c, at)
           \/ \E a \in Admins : CreateCompany(a)
           \/ \E x \in UserCompanies : UserAdds(x)
           \/ Quiet
  <1>1. CASE UNCHANGED vars
    BY <1>1, StillIsQuiet, MishapOnward DEF vars, ProspectsStay
  <1>2. CASE \E a \in Admins : Start(a) \/ Decide(a) \/ Create(a) \/ RequestThrows(a)
    <2>1. PICK a \in Admins : Start(a) \/ Decide(a) \/ Create(a) \/ RequestThrows(a)
      BY <1>2
    <2>2. CASE \E c \in DOMAIN cand : ApproveRead(a, c) \/ RejectRead(a, c) \/ CreateRead(a, c)
      BY <2>2 DEF ApproveRead, RejectRead, CreateRead
    <2>3. CASE CreateCompany(a)
      BY <2>3
    <2> QED
      BY <2>1, <2>2, <2>3, WritesAreQuiet, RequestsAreQuiet DEF Decide, Create
  <1>3. ASSUME NEW w \in Workers, Take(w) \/ (Execute(w) /\ ~Propose(w)) PROVE Quiet
    <2>1. Mishap("faults") \/ UNCHANGED mishaps
      BY <1>3 DEF Take, Execute, StartProcessing, Discover, Complete, AuditRun, MarkRunFailed,
         DiscoveryThrows, JobCompleted, AttemptFailed, Settle, SetRun
    <2>2. cand' = cand /\ crm' = crm /\ req' = req
      BY <1>3 DEF Take, Execute, StartProcessing, Discover, Complete, AuditRun, MarkRunFailed,
         DiscoveryThrows, JobCompleted, AttemptFailed, Settle, SetRun
    <2> QED
      BY <2>1, <2>2, StillIsQuiet, MishapOnward DEF ProspectsStay
  <1>4. ASSUME NEW w \in Workers, Propose(w) PROVE Quiet
    <2>1. PICK row : cand' = Append(cand, row)
      BY <1>4 DEF Propose
    <2>2. cand \in Seq(Candidates)
      BY DEF Inv, Typed, TypeOK
    <2>3. ProspectsStay
      <3>1. /\ DOMAIN cand = 1 .. Len(cand) /\ Len(cand) \in Nat /\ DOMAIN cand' = 1 .. Len(cand) + 1
            /\ \A c \in DOMAIN cand : cand'[c] = cand[c]
        BY <2>1, <2>2
      <3> QED
        BY <3>1 DEF ProspectsStay
    <2>4. crm' = crm /\ req' = req /\ UNCHANGED mishaps
      BY <1>4 DEF Propose
    <2> QED
      BY <2>3, <2>4, StillIsQuiet, MishapOnward
  <1>5. CASE Reclaim \/ Stall \/ Restart
    <2>1. Onward /\ cand' = cand /\ crm' = crm /\ (req' = req \/ req' = [a \in Admins |-> NoRequest])
      BY <1>5, MishapOnward DEF Reclaim, Stall, Relinquish, Restart
    <2> QED
      BY <2>1, StillIsQuiet DEF ProspectsStay
  <1> QED
    BY <1>1, <1>2, <1>3, <1>4, <1>5 DEF Next

------------------------------------------------------------------------------
(* What each of the four does to the count.                                 *)

\* Companies, and what they were created for, stay while the CRM only grows.
LEMMA MadeStays ==
    ASSUME Inv, ProspectsStay, NEW n \in Nat, n <= Len(crm),
           \A i \in 1 .. n : i \in DOMAIN crm' /\ crm'[i] = crm[i]
    PROVE  \A i \in 1 .. n : /\ i \in Made <=> i \in Made'
                             /\ i \in Made => MadeFor(i)' = MadeFor(i)
  <1> SUFFICES ASSUME NEW i \in 1 .. n
               PROVE  (i \in Made <=> i \in Made') /\ (i \in Made => MadeFor(i)' = MadeFor(i))
    OBVIOUS
  <1>1. /\ i \in DOMAIN crm /\ i \in DOMAIN crm' /\ crm'[i] = crm[i]
        /\ crm[i].row \in 0 .. Len(cand) /\ DOMAIN cand = 1 .. Len(cand) /\ Len(cand) \in Nat
    BY DEF Inv, Typed, TypeOK
  <1>2. crm[i].row # 0 => crm[i].row \in DOMAIN cand
    BY <1>1
  <1> QED
    BY <1>1, <1>2 DEF Made, MadeFor, ProspectsStay

\* So do their names and what they repeat.
LEMMA EarlierStay ==
    ASSUME Inv, Counted, ProspectsStay,
           \A i \in 1 .. Len(crm) : i \in DOMAIN crm' /\ crm'[i] = crm[i],
           mishaps.overlaps <= mishaps'.overlaps, mishaps'.overlaps \in Nat
    PROVE  /\ \A i \in DOMAIN crm : /\ i \in Made <=> i \in Made'
                                    /\ i \in Made => MadeFor(i)' = MadeFor(i)
           /\ \A j \in Made : /\ crm'[j].name = Name[MadeFor(j)']
                              /\ Cardinality(Repeated(j))' <= mishaps'.overlaps
  <1>1. DOMAIN crm = 1 .. Len(crm) /\ Len(crm) \in Nat
    BY DEF Inv, Typed
  <1>2. \A i \in DOMAIN crm : /\ i \in Made <=> i \in Made'
                              /\ i \in Made => MadeFor(i)' = MadeFor(i)
    BY <1>1, MadeStays
  <1>3. \A j \in Made : crm'[j].name = Name[MadeFor(j)']
    BY <1>1, <1>2 DEF Counted, NamedAfter, Made
  <1>4. ASSUME NEW j \in Made PROVE Cardinality(Repeated(j))' <= mishaps'.overlaps
    <2>1. j \in 1 .. Len(crm) /\ \A i \in 1 .. j - 1 : i \in DOMAIN crm
      BY <1>1, FiniteRepeated
    <2>2. Repeated(j)' = Repeated(j)
      BY <1>1, <1>2, <2>1 DEF Repeated
    <2>3. Cardinality(Repeated(j)) \in Nat /\ Cardinality(Repeated(j)) <= mishaps.overlaps
      BY FiniteRepeated, RepeatedCounts, FS_CardinalityType DEF Counted
    <2>4. PICK n : n = Cardinality(Repeated(j)) /\ n = Cardinality(Repeated(j))'
      BY <2>2
    <2> QED
      BY <2>3, <2>4 DEF Inv, Typed, TypeOK
  <1> QED
    BY <1>2, <1>3, <1>4

\* The invariant's last two parts, from what was made and, if there is one, what is.
LEMMA SecondsCounted ==
    ASSUME \A j \in Made' : /\ crm'[j].name = Name[MadeFor(j)']
                            /\ Cardinality(Repeated(j))' <= mishaps'.overlaps
    PROVE  NamedAfter' /\ NoSecondCompany'
  <1>1. (NoSecondCompany <=> \A j \in Made : Cardinality(Repeated(j)) <= mishaps.overlaps)'
    BY RepeatedCounts, PTL
  <1> QED
    BY <1>1 DEF NamedAfter

LEMMA QuietKeeps ==
    ASSUME Inv, Inv', Counted, Quiet
    PROVE  Counted'
  <1>1. DOMAIN crm = 1 .. Len(crm) /\ Len(crm) \in Nat /\ crm' = crm
    BY DEF Inv, Typed, Quiet
  <1>2. /\ Made' = Made
        /\ \A i \in Made : MadeFor(i)' = MadeFor(i)
        /\ NamedAfter' /\ NoSecondCompany'
    <2>1. mishaps'.overlaps \in Nat
      BY DEF Inv, Typed, TypeOK
    <2>2. /\ \A i \in DOMAIN crm : /\ i \in Made <=> i \in Made'
                                   /\ i \in Made => MadeFor(i)' = MadeFor(i)
          /\ \A j \in Made : /\ crm'[j].name = Name[MadeFor(j)']
                             /\ Cardinality(Repeated(j))' <= mishaps'.overlaps
      BY <1>1, <2>1, EarlierStay DEF Quiet
    <2>3. Made' = Made
      BY <1>1, <2>2 DEF Made
    <2> QED
      BY <2>2, <2>3, SecondsCounted DEF Made
  <1>3. \A p : Matching(p)' = Matching(p)
    BY <1>1, <1>2 DEF Matching
  <1>4. \A a \in Admins : req'[a].row # 0 =>
            /\ req[a].row # 0 /\ Prospect(a)' = Prospect(a)
            /\ req'[a].at = "call" => req[a].at = "call" \/ Matching(Prospect(a)) = {}
            /\ req'[a].at \in Asking => req[a].at \in Asking
    <2> SUFFICES ASSUME NEW a \in Admins, req'[a].row # 0
                 PROVE  /\ req[a].row # 0 /\ Prospect(a)' = Prospect(a)
                        /\ req'[a].at = "call" => req[a].at = "call" \/ Matching(Prospect(a)) = {}
                        /\ req'[a].at \in Asking => req[a].at \in Asking
      OBVIOUS
    <2>1. Subsides(a) /\ ProspectsStay
      BY DEF Quiet
    <2>2. req'[a].row = req[a].row /\ req[a].row \in DOMAIN cand
      BY <2>1, OnRowHasRow DEF Subsides
    <2> QED
      BY <2>1, <2>2 DEF Subsides, ProspectsStay, Prospect, Row
  <1>5. Settled'
    <2> SUFFICES ASSUME NEW a \in Admins, req'[a].row # 0
                 PROVE  /\ Cardinality(Rivaling(a))' <= mishaps'.overlaps
                        /\ req'[a].at = "call" =>
                              Cardinality(Matching(Prospect(a)))' + Cardinality(Feeding(a))'
                                  <= mishaps'.overlaps
      BY DEF Settled
    <2>1. /\ req[a].row # 0 /\ Prospect(a)' = Prospect(a)
          /\ req'[a].at = "call" => req[a].at = "call" \/ Matching(Prospect(a)) = {}
      BY <1>4
    <2>2. Rivaling(a)' \subseteq Rivaling(a)
      BY <1>4, <2>1 DEF Rivaling
    <2>3. Feeding(a)' \subseteq Feeding(a)
      BY <1>4, <2>2 DEF Feeding, Rivaling
    <2>4. Feeding(a) \subseteq Rivaling(a)
      BY DEF Feeding
    <2>5. Matching(Prospect(a))' = Matching(Prospect(a))
      BY <1>3, <2>1
    <2>6. PICK R, F, M, R2, F2 : /\ R = Rivaling(a) /\ F = Feeding(a) /\ M = Matching(Prospect(a))
                                 /\ R2 = Rivaling(a)' /\ F2 = Feeding(a)'
      OBVIOUS
    <2>7. IsFiniteSet(R) /\ IsFiniteSet(F) /\ IsFiniteSet(M)
      BY <2>6, FiniteRivals
    <2>8. /\ Cardinality(R) \in Nat /\ Cardinality(R2) \in Nat /\ Cardinality(R2) <= Cardinality(R)
          /\ Cardinality(F) \in Nat /\ Cardinality(F2) \in Nat /\ Cardinality(F2) <= Cardinality(F)
          /\ Cardinality(F) <= Cardinality(R) /\ Cardinality(M) \in Nat
          /\ M = {} => Cardinality(M) = 0
      <3>1. R2 \subseteq R /\ F2 \subseteq F /\ F \subseteq R
        BY <2>2, <2>3, <2>4, <2>6
      <3> QED
        BY <2>7, <3>1, SubsetCount, FS_EmptySet, FS_CardinalityType
    <2>9. /\ mishaps.overlaps \in Nat /\ mishaps'.overlaps \in Nat
          /\ mishaps.overlaps <= mishaps'.overlaps
      BY DEF Inv, Typed, TypeOK, Quiet
    <2>10. /\ Cardinality(R) <= mishaps.overlaps
           /\ req[a].at = "call" => Cardinality(M) + Cardinality(F) <= mishaps.overlaps
      BY <2>1, <2>6 DEF Counted, Settled
    <2>11. /\ Cardinality(R2) <= mishaps'.overlaps
           /\ req'[a].at = "call" => Cardinality(M) + Cardinality(F2) <= mishaps'.overlaps
      <3>1. Cardinality(R2) <= mishaps'.overlaps
        BY <2>8, <2>9, <2>10
      <3>2. CASE req[a].at = "call"
        BY <2>8, <2>9, <2>10, <3>1, <3>2
      <3>3. CASE M = {}
        BY <2>8, <2>9, <2>10, <3>1, <3>3
      <3> QED
        BY <2>1, <2>6, <3>1, <3>2, <3>3
    <2> QED
      BY <2>5, <2>6, <2>11
  <1> QED
    BY <1>2, <1>5 DEF Counted

\* A request that begins counts its rivals, and so pays for being one of theirs.
LEMMA BeginKeeps ==
    ASSUME Inv, Inv', Counted, NEW a \in Admins, NEW c \in DOMAIN cand,
           NEW at \in {"approve", "reject", "checkpoint"}, Begin(a, c, at)
    PROVE  Counted'
  <1> DEFINE p == cand[c].prospect
  <1>1. /\ crm' = crm /\ cand' = cand /\ req[a].at = "idle"
        /\ Mishaps("overlaps", Cardinality(Underway(p)))
        /\ DOMAIN crm = 1 .. Len(crm)
    BY DEF Begin, Inv, Typed
  <1>2. PICK u : u = Cardinality(Underway(p))
    OBVIOUS
  <1>3. /\ u \in Nat /\ mishaps'.overlaps = mishaps.overlaps + u /\ mishaps.overlaps \in Nat
        /\ u = 0 => Underway(p) = {}
    BY <1>1, <1>2, OverlapsCounted, FS_EmptySet DEF Inv, Typed, TypeOK
  <1>4. /\ req[a].row = 0 /\ req'[a].row = c /\ req'[a].at # "call"
        /\ \A b \in Admins \ {a} : req'[b] = req[b]
    <2>1. req \in [Admins -> Requests] /\ "idle" \notin OnRow
      BY DEF Inv, Typed, TypeOK, OnRow, Creating, Looking, Named
    <2> QED
      BY <1>1, <2>1, OnRowHasRow DEF Begin, Answer, NoRequest
  <1>5. /\ Made' = Made /\ \A i \in Made : MadeFor(i)' = MadeFor(i)
        /\ NamedAfter' /\ NoSecondCompany'
    <2>1. ProspectsStay
      BY <1>1 DEF ProspectsStay
    <2>2. Made' = Made
      BY <1>1 DEF Made
    <2> QED
      BY <1>1, <1>3, <2>1, <2>2, EarlierStay, SecondsCounted DEF Made
  <1>6. \A x : Matching(x)' = Matching(x)
    BY <1>1, <1>5 DEF Matching
  <1>7. /\ Prospect(a)' = p
        /\ \A b \in Admins \ {a} : Prospect(b)' = Prospect(b)
    BY <1>1, <1>4 DEF Prospect, Row
  <1>8. Settled'
    <2> SUFFICES ASSUME NEW b \in Admins, req'[b].row # 0
                 PROVE  /\ Cardinality(Rivaling(b))' <= mishaps'.overlaps
                        /\ req'[b].at = "call" =>
                              Cardinality(Matching(Prospect(b)))' + Cardinality(Feeding(b))'
                                  <= mishaps'.overlaps
      BY DEF Settled
    <2>1. CASE b = a
      <3>1. Rivaling(a)' \subseteq Underway(p)
        BY <1>4, <1>7 DEF Rivaling, Underway, Prospect, Row
      <3>2. PICK S, T : S = Underway(p) /\ T = Rivaling(a)'
        OBVIOUS
      <3>3. Cardinality(T) \in Nat /\ Cardinality(T) <= u
        BY <1>1, <1>2, <3>1, <3>2, OverlapsCounted, SubsetCount
      <3>4. Cardinality(T) <= mishaps'.overlaps
        BY <1>3, <3>3
      <3> QED
        BY <1>4, <2>1, <3>2, <3>4
    <2>2. CASE b # a
      <3>1. /\ req'[b] = req[b] /\ req[b].row # 0 /\ Prospect(b)' = Prospect(b)
            /\ Matching(Prospect(b))' = Matching(Prospect(b))
        BY <1>4, <1>6, <1>7, <2>2
      <3>2. /\ Rivaling(b)' \subseteq Rivaling(b) \union {a}
            /\ Feeding(b)' \subseteq Feeding(b) \union {a}
        BY <1>4, <1>7, <3>1 DEF Rivaling, Feeding
      <3>3. u = 0 => a \notin Rivaling(b)' /\ a \notin Feeding(b)'
        BY <1>3, <1>7, <3>1 DEF Rivaling, Feeding, Underway, Rivals, Prospect, Row
      <3>4. PICK R, F, M, R2, F2 : /\ R = Rivaling(b) /\ F = Feeding(b) /\ M = Matching(Prospect(b))
                                   /\ R2 = Rivaling(b)' /\ F2 = Feeding(b)'
        OBVIOUS
      <3>5. /\ Cardinality(R) \in Nat /\ Cardinality(F) \in Nat /\ Cardinality(M) \in Nat
            /\ Cardinality(R2) \in Nat /\ Cardinality(F2) \in Nat
            /\ Cardinality(R2) <= Cardinality(R) + u /\ Cardinality(F2) <= Cardinality(F) + u
        <4>1. IsFiniteSet(R) /\ IsFiniteSet(F) /\ IsFiniteSet(M)
          BY <3>4, FiniteRivals
        <4>2. CASE u = 0
          <5>1. R2 \subseteq R /\ F2 \subseteq F
            BY <3>2, <3>3, <3>4, <4>2
          <5> QED
            BY <4>1, <4>2, <5>1, SubsetCount, FS_CardinalityType
        <4>3. CASE u # 0
          <5>1. /\ Cardinality(R) \in Nat /\ Cardinality(F) \in Nat /\ Cardinality(M) \in Nat
                /\ Cardinality(R2) \in Nat /\ Cardinality(F2) \in Nat
                /\ Cardinality(R2) <= Cardinality(R) + 1 /\ Cardinality(F2) <= Cardinality(F) + 1
            BY <3>2, <3>4, <4>1, GrowthCount, FS_CardinalityType
          <5> QED
            BY <1>3, <4>3, <5>1
        <4> QED
          BY <4>2, <4>3
      <3>6. /\ Cardinality(R) <= mishaps.overlaps
            /\ req[b].at = "call" => Cardinality(M) + Cardinality(F) <= mishaps.overlaps
        BY <3>1, <3>4 DEF Counted, Settled
      <3>7. /\ Cardinality(R2) <= mishaps'.overlaps
            /\ req[b].at = "call" => Cardinality(M) + Cardinality(F2) <= mishaps'.overlaps
        BY <1>3, <3>5, <3>6
      <3> QED
        BY <3>1, <3>4, <3>7
    <2> QED
      BY <2>1, <2>2
  <1> QED
    BY <1>5, <1>8 DEF Counted

\* A company new in the CRM: what it was made for, and what it is to others.
LEMMA CrmAppend ==
    ASSUME Inv, Counted, NEW x, crm' = Append(crm, x), cand' = cand,
           mishaps.overlaps <= mishaps'.overlaps, mishaps'.overlaps \in Nat
    PROVE  /\ Len(crm) \in Nat /\ DOMAIN crm = 1 .. Len(crm) /\ DOMAIN crm' = 1 .. Len(crm) + 1
           /\ crm'[Len(crm) + 1] = x
           /\ \A i \in DOMAIN crm : crm'[i] = crm[i]
           /\ \A i \in DOMAIN crm : /\ i \in Made <=> i \in Made'
                                    /\ i \in Made => MadeFor(i)' = MadeFor(i)
           /\ \A j \in Made : /\ crm'[j].name = Name[MadeFor(j)']
                              /\ Cardinality(Repeated(j))' <= mishaps'.overlaps
           /\ \A p : Matching(p)' \subseteq Matching(p) \union {Len(crm) + 1}
           /\ \A p : Len(crm) + 1 \in Matching(p)' =>
                         IsExact(p, x) \/ (x.row # 0 /\ cand[x.row].prospect = p)
  <1>1. /\ Len(crm) \in Nat /\ DOMAIN crm = 1 .. Len(crm) /\ DOMAIN crm' = 1 .. Len(crm) + 1
        /\ crm'[Len(crm) + 1] = x
        /\ \A i \in DOMAIN crm : crm'[i] = crm[i]
    BY DEF Inv, Typed
  <1>2. /\ \A i \in DOMAIN crm : /\ i \in Made <=> i \in Made'
                                 /\ i \in Made => MadeFor(i)' = MadeFor(i)
        /\ \A j \in Made : /\ crm'[j].name = Name[MadeFor(j)']
                           /\ Cardinality(Repeated(j))' <= mishaps'.overlaps
    <2>1. ProspectsStay
      BY DEF ProspectsStay
    <2>2. \A i \in 1 .. Len(crm) : i \in DOMAIN crm' /\ crm'[i] = crm[i]
      BY <1>1
    <2> QED
      BY <2>1, <2>2, EarlierStay
  <1>3. \A p : Matching(p)' \subseteq Matching(p) \union {Len(crm) + 1}
    <2> SUFFICES ASSUME NEW p, NEW i \in Matching(p)', i # Len(crm) + 1 PROVE i \in Matching(p)
      OBVIOUS
    <2>1. i \in DOMAIN crm' /\ (IsExact(p, crm'[i]) \/ (i \in Made' /\ MadeFor(i)' = p))
      BY DEF Matching
    <2>2. i \in DOMAIN crm
      BY <1>1, <2>1
    <2> QED
      BY <1>1, <1>2, <2>1, <2>2 DEF Matching
  <1>4. \A p : Len(crm) + 1 \in Matching(p)' =>
                   IsExact(p, x) \/ (x.row # 0 /\ cand[x.row].prospect = p)
    BY <1>1 DEF Matching, Made, MadeFor
  <1> QED
    BY <1>1, <1>2, <1>3, <1>4

\* A user's company may be one more for the requests at their call: then it is counted.
LEMMA AdditionKeeps ==
    ASSUME Inv, Inv', Counted, NEW x \in UserCompanies, UserAdds(x)
    PROVE  Counted'
  <1>1. PICK new \in {[name |-> x.name, domain |-> x.domain, row |-> 0]} : crm' = Append(crm, new)
    BY DEF UserAdds
  <1>2. new.row = 0 /\ \A p : IsExact(p, new) => IsExact(p, x)
    BY <1>1 DEF IsExact
  <1>3. cand' = cand /\ req' = req
    BY DEF UserAdds
  <1>4. /\ mishaps.overlaps \in Nat /\ mishaps'.overlaps \in Nat
        /\ mishaps.overlaps <= mishaps'.overlaps
        /\ \A a \in Admins : req[a].at = "call" /\ IsExact(Prospect(a), x) =>
              mishaps'.overlaps = mishaps.overlaps + 1
    <2>1. mishaps.overlaps \in Nat
      BY DEF Inv, Typed, TypeOK
    <2>2. CASE \E a \in Admins : req[a].at = "call" /\ IsExact(Row(a).prospect, x)
      <3>1. mishaps'.overlaps = mishaps.overlaps + 1
        BY <2>2, MishapTypes DEF UserAdds
      <3> QED
        BY <2>1, <3>1
    <2>3. CASE ~ \E a \in Admins : req[a].at = "call" /\ IsExact(Row(a).prospect, x)
      BY <2>1, <2>3 DEF UserAdds, Prospect
    <2> QED
      BY <2>2, <2>3
  <1>5. /\ DOMAIN crm' = 1 .. Len(crm) + 1 /\ DOMAIN crm = 1 .. Len(crm) /\ Len(crm) \in Nat
        /\ crm'[Len(crm) + 1] = new
        /\ \A i \in DOMAIN crm : /\ i \in Made <=> i \in Made'
                                 /\ i \in Made => MadeFor(i)' = MadeFor(i)
        /\ \A j \in Made : /\ crm'[j].name = Name[MadeFor(j)']
                           /\ Cardinality(Repeated(j))' <= mishaps'.overlaps
        /\ \A p : Matching(p)' \subseteq Matching(p) \union {Len(crm) + 1}
        /\ \A p : Len(crm) + 1 \in Matching(p)' => IsExact(p, x)
    BY <1>1, <1>2, <1>3, <1>4, CrmAppend
  <1>6. NamedAfter' /\ NoSecondCompany'
    <2>1. Made' \subseteq Made
      <3>1. Len(crm) + 1 \notin Made'
        BY <1>2, <1>5 DEF Made
      <3>2. Made' \subseteq DOMAIN crm'
        BY DEF Made
      <3>3. \A i \in DOMAIN crm' : i \in DOMAIN crm \/ i = Len(crm) + 1
        BY <1>5
      <3> QED
        BY <1>5, <3>1, <3>2, <3>3
    <2> QED
      BY <1>5, <2>1, SecondsCounted
  <1>7. Settled'
    <2> SUFFICES ASSUME NEW a \in Admins, req[a].row # 0
                 PROVE  /\ Cardinality(Rivaling(a))' <= mishaps'.overlaps
                        /\ req[a].at = "call" =>
                              Cardinality(Matching(Prospect(a)))' + Cardinality(Feeding(a))'
                                  <= mishaps'.overlaps
      BY <1>3 DEF Settled
    <2>1. Prospect(a)' = Prospect(a) /\ Rivaling(a)' = Rivaling(a) /\ Feeding(a)' = Feeding(a)
      BY <1>3 DEF Prospect, Row, Rivaling, Feeding
    <2>2. PICK R, F, M, M2 : /\ R = Rivaling(a) /\ F = Feeding(a) /\ M = Matching(Prospect(a))
                             /\ M2 = Matching(Prospect(a))'
      OBVIOUS
    <2>3. /\ R = Rivaling(a)' /\ F = Feeding(a)'
      BY <2>1, <2>2
    <2>4. /\ Cardinality(R) \in Nat /\ Cardinality(F) \in Nat /\ Cardinality(M) \in Nat
          /\ IsFiniteSet(M)
      BY <2>2, FiniteRivals, FS_CardinalityType
    <2>5. /\ Cardinality(R) <= mishaps.overlaps
          /\ req[a].at = "call" => Cardinality(M) + Cardinality(F) <= mishaps.overlaps
      BY <2>2 DEF Counted, Settled
    <2>6. Cardinality(R) <= mishaps'.overlaps
      BY <1>4, <2>4, <2>5
    <2>7. ASSUME req[a].at = "call" PROVE Cardinality(M2) + Cardinality(F) <= mishaps'.overlaps
      <3>1. M2 \subseteq M \union {Len(crm) + 1} /\ (Len(crm) + 1 \in M2 => IsExact(Prospect(a), x))
        BY <1>5, <2>1, <2>2
      <3>2. CASE Len(crm) + 1 \in M2
        <4>1. mishaps'.overlaps = mishaps.overlaps + 1
          BY <1>4, <2>7, <3>1, <3>2
        <4>2. Cardinality(M2) \in Nat /\ Cardinality(M2) <= Cardinality(M) + 1
          BY <2>4, <3>1, GrowthCount
        <4> QED
          BY <1>4, <2>4, <2>5, <2>7, <4>1, <4>2
      <3>3. CASE Len(crm) + 1 \notin M2
        <4>1. Cardinality(M2) \in Nat /\ Cardinality(M2) <= Cardinality(M)
          BY <2>4, <3>1, <3>3, SubsetCount
        <4> QED
          BY <1>4, <2>4, <2>5, <2>7, <4>1
      <3> QED
        BY <3>2, <3>3
    <2> QED
      BY <2>2, <2>3, <2>6, <2>7
  <1> QED
    BY <1>6, <1>7 DEF Counted

\* A request that creates repeats at most what its rivals were counted for, and its rivals
\* at their call have one feeding them less.
LEMMA CreationKeeps ==
    ASSUME Inv, Inv', Counted, NEW a \in Admins, CreateCompany(a)
    PROVE  Counted'
  <1> DEFINE p == Prospect(a)
  <1>0. PICK n : n = Len(crm) + 1
    OBVIOUS
  <1>1. /\ req[a].at = "call" /\ req[a].row # 0 /\ cand' = cand
        /\ req[a] \in Requests /\ req \in [Admins -> Requests]
    <2>1. req[a].at = "call" /\ req[a].at \in OnRow
      BY DEF CreateCompany, OnRow, Creating, Looking
    <2> QED
      BY <2>1, OnRowHasRow DEF CreateCompany, Inv, Typed, TypeOK
  <1>2. PICK new \in {[name |-> Company(p).name, domain |-> Company(p).domain, row |-> req[a].row]} :
            crm' = Append(crm, new)
    BY DEF CreateCompany, Prospect
  <1>3. /\ new.row = req[a].row /\ new.name = Name[p]
        /\ \A q : IsExact(q, new) => IsExact(q, Company(p))
    BY <1>2 DEF IsExact, Company
  <1>4. /\ mishaps.overlaps \in Nat /\ mishaps'.overlaps \in Nat
        /\ mishaps.overlaps <= mishaps'.overlaps
    <2>1. Onward
      BY MishapOnward DEF CreateCompany
    <2> QED
      BY <2>1 DEF Onward, Inv, Typed, TypeOK
  <1>5. /\ Len(crm) \in Nat /\ DOMAIN crm = 1 .. Len(crm) /\ DOMAIN crm' = 1 .. n
        /\ crm'[n] = new
        /\ \A i \in DOMAIN crm : crm'[i] = crm[i]
        /\ \A i \in DOMAIN crm : /\ i \in Made <=> i \in Made'
                                 /\ i \in Made => MadeFor(i)' = MadeFor(i)
        /\ \A j \in Made : /\ crm'[j].name = Name[MadeFor(j)']
                           /\ Cardinality(Repeated(j))' <= mishaps'.overlaps
        /\ \A q : Matching(q)' \subseteq Matching(q) \union {n}
        /\ \A q : n \in Matching(q)' => IsExact(q, Company(p)) \/ p = q
    <2>1. cand[new.row].prospect = p
      BY <1>3 DEF Prospect, Row
    <2> QED
      BY <1>0, <1>1, <1>2, <1>3, <1>4, <2>1, CrmAppend
  <1>6. /\ req'[a].row = req[a].row /\ req'[a].at \in {"record", "catch"}
        /\ \A b \in Admins \ {a} : req'[b] = req[b]
        /\ \A b \in Admins : Prospect(b)' = Prospect(b)
    <2>1. PICK at \in {"record", "catch"}, id \in {Len(crm) + 1, req[a].id} :
              req' = [req EXCEPT ![a] = [req[a] EXCEPT !.at = at, !.id = id]]
      <3>1. CASE Answer(a, [req[a] EXCEPT !.at = "record", !.id = Len(crm) + 1])
        BY <3>1 DEF Answer
      <3>2. CASE Answer(a, [req[a] EXCEPT !.at = "catch"])
        <4>1. [req[a] EXCEPT !.at = "catch"] = [req[a] EXCEPT !.at = "catch", !.id = req[a].id]
          BY <1>1 DEF Requests
        <4> QED
          BY <3>2, <4>1 DEF Answer
      <3> QED
        BY <3>1, <3>2 DEF CreateCompany
    <2>2. PICK to : req' = [req EXCEPT ![a] = to] /\ to = [req[a] EXCEPT !.at = at, !.id = id]
      BY <2>1
    <2>3. to.row = req[a].row /\ to.at = at
      BY <1>1, <2>2 DEF Requests
    <2>4. /\ req'[a].row = req[a].row /\ req'[a].at \in {"record", "catch"}
          /\ \A b \in Admins \ {a} : req'[b] = req[b]
      BY <1>1, <2>2, <2>3
    <2> QED
      BY <1>1, <2>4 DEF Prospect, Row
  <1>7. NamedAfter' /\ NoSecondCompany'
    <2>1. MadeFor(n)' = p
      BY <1>1, <1>3, <1>5 DEF MadeFor, Prospect, Row
    <2>2. crm'[n].name = Name[MadeFor(n)']
      BY <1>3, <1>5, <2>1
    <2>3. Cardinality(Repeated(n))' <= mishaps'.overlaps
      <3>1. Repeated(n)' \subseteq Matching(p)
        <4> SUFFICES ASSUME NEW i \in Repeated(n)' PROVE i \in Matching(p)
          OBVIOUS
        <4>1. /\ i \in 1 .. n - 1
              /\ IsExact(MadeFor(n)', crm'[i]) \/ (i \in Made' /\ MadeFor(i)' = MadeFor(n)')
          BY DEF Repeated
        <4>2. i \in DOMAIN crm
          BY <1>0, <1>5, <4>1
        <4> QED
          BY <1>5, <2>1, <4>1, <4>2 DEF Matching
      <3>2. PICK S, M, F : S = Repeated(n)' /\ M = Matching(p) /\ F = Feeding(a)
        OBVIOUS
      <3>3. /\ Cardinality(S) \in Nat /\ Cardinality(S) <= Cardinality(M)
            /\ Cardinality(M) \in Nat /\ Cardinality(F) \in Nat
        BY <3>1, <3>2, FiniteRivals, SubsetCount, FS_CardinalityType
      <3>4. Cardinality(M) + Cardinality(F) <= mishaps.overlaps
        BY <1>1, <3>2 DEF Counted, Settled
      <3>5. Cardinality(S) <= mishaps'.overlaps
        BY <1>4, <3>3, <3>4
      <3> QED
        BY <3>2, <3>5
    <2>4. \A j \in Made' : j \in Made \/ j = n
      <3>1. \A j \in DOMAIN crm' : j \in DOMAIN crm \/ j = n
        BY <1>0, <1>5
      <3> QED
        BY <1>5, <3>1 DEF Made
    <2> QED
      BY <1>5, <2>2, <2>3, <2>4, SecondsCounted
  <1>8. Settled'
    <2> SUFFICES ASSUME NEW b \in Admins, req'[b].row # 0
                 PROVE  /\ Cardinality(Rivaling(b))' <= mishaps'.overlaps
                        /\ req'[b].at = "call" =>
                              Cardinality(Matching(Prospect(b)))' + Cardinality(Feeding(b))'
                                  <= mishaps'.overlaps
      BY DEF Settled
    <2>1. /\ req[b].row # 0 /\ Prospect(b)' = Prospect(b)
          /\ Rivaling(b)' = Rivaling(b) /\ Feeding(b)' \subseteq Feeding(b) \ {a}
      <3>1. \A d \in Admins : req'[d].row = req[d].row
        BY <1>6
      <3>2. "record" \notin Asking /\ "catch" \notin Asking
        BY DEF Asking
      <3>3. Rivaling(b)' = Rivaling(b)
        BY <1>6, <3>1 DEF Rivaling
      <3>4. Feeding(b)' \subseteq Feeding(b) \ {a}
        BY <1>6, <3>2, <3>3 DEF Feeding, Rivaling
      <3> QED
        BY <1>6, <3>1, <3>3, <3>4
    <2>2. PICK R, F, M, F2, M2 : /\ R = Rivaling(b) /\ F = Feeding(b) /\ M = Matching(Prospect(b))
                                 /\ F2 = Feeding(b)' /\ M2 = Matching(Prospect(b))'
      OBVIOUS
    <2>3. /\ Cardinality(R) \in Nat /\ Cardinality(F) \in Nat /\ Cardinality(M) \in Nat
          /\ IsFiniteSet(F) /\ IsFiniteSet(M) /\ R = Rivaling(b)'
      BY <2>1, <2>2, FiniteRivals, FS_CardinalityType
    <2>4. /\ Cardinality(R) <= mishaps.overlaps
          /\ req[b].at = "call" => Cardinality(M) + Cardinality(F) <= mishaps.overlaps
      BY <2>1, <2>2 DEF Counted, Settled
    <2>5. Cardinality(R) <= mishaps'.overlaps
      BY <1>4, <2>3, <2>4
    <2>6. ASSUME req'[b].at = "call" PROVE Cardinality(M2) + Cardinality(F2) <= mishaps'.overlaps
      <3>1. b # a /\ req[b].at = "call"
        BY <1>6, <2>6
      <3>2. M2 \subseteq M \union {n} /\ F2 \subseteq F \ {a}
        BY <1>5, <2>1, <2>2
      <3>3. CASE n \in M2
        <4>1. IsExact(Prospect(b), Company(p)) \/ p = Prospect(b)
          BY <1>5, <2>1, <2>2, <3>3
        <4>2. a \in F
          BY <1>1, <2>2, <3>1, <4>1 DEF Feeding, Rivaling, Rivals, Asking
        <4>3. /\ Cardinality(M2) \in Nat /\ Cardinality(M2) <= Cardinality(M) + 1
              /\ Cardinality(F2) \in Nat /\ Cardinality(F2) + 1 <= Cardinality(F)
          BY <2>3, <3>2, <4>2, GrowthCount, LossCount
        <4> QED
          BY <1>4, <2>3, <2>4, <3>1, <4>3
      <3>4. CASE n \notin M2
        <4>1. /\ Cardinality(M2) \in Nat /\ Cardinality(M2) <= Cardinality(M)
              /\ Cardinality(F2) \in Nat /\ Cardinality(F2) <= Cardinality(F)
          <5>1. M2 \subseteq M /\ F2 \subseteq F
            BY <3>2, <3>4
          <5> QED
            BY <2>3, <5>1, SubsetCount
        <4> QED
          BY <1>4, <2>3, <2>4, <3>1, <4>1
      <3> QED
        BY <3>3, <3>4
    <2> QED
      BY <2>2, <2>3, <2>5, <2>6
  <1> QED
    BY <1>7, <1>8 DEF Counted

LEMMA CountedStep == Inv /\ Inv' /\ Counted /\ [Next]_vars => Counted'
  BY QuietSteps, QuietKeeps, BeginKeeps, AdditionKeeps, CreationKeeps DEF Counted

\* createApprovedCandidate, "retries do not create a second company": however often an
\* attempt is cut off, loses its answer or finds the CRM down, what a company the platform
\* creates repeats is accounted for by requests that overlapped.
THEOREM SecondsAreOverlaps == Spec => []NoSecondCompany
  <1>1. Init => Counted
    BY DEF Init, Counted, Settled, NamedAfter, NoSecondCompany, Made, NoRequest
  <1>2. Spec => []Counted
    BY <1>1, CountedStep, Invariance, PTL DEF Spec
  <1>3. Counted => NoSecondCompany
    BY DEF Counted
  <1> QED
    BY <1>2, <1>3, PTL
==============================================================================
