------------------------- MODULE AgentControlProofs -------------------------
(***************************************************************************)
(* Theorems about AgentControl for every set of agents, any number of       *)
(* requests at once, every bound on the number of changes, every window and *)
(* every number of failed statements.  Four parts: what the loop over the   *)
(* audit rows computes, as a recursion that one more row extends by one     *)
(* step; the types, and what each request still knows of the rows it read;  *)
(* what requests that do not overlap know of the switch; the contract.      *)
(***************************************************************************)
EXTENDS AgentControl, DataInduction

------------------------------------------------------------------------------
(* The loop of computeLatestEligibleControlActions.                         *)
Latest == [Agents -> Nat]
Nothing == [a \in Agents |-> 0]
\* What row number i makes of the map built from the rows before it.
After(latest, row, i) ==
    [latest EXCEPT ![row.agent] =
        IF isControlMutationReversible(row) THEN i
        ELSE IF @ = row.undoOf THEN 0 ELSE @]

\* f[i] is the map after the first i rows.
IsScan(f, rows, n) ==
    /\ f \in [0 .. n -> Latest]
    /\ f[0] = Nothing
    /\ \A i \in 1 .. n : f[i] = After(f[i - 1], rows[i], i)

LEMMA AfterType ==
    ASSUME NEW latest \in Latest, NEW row \in Rows, NEW i \in Nat
    PROVE  After(latest, row, i) \in Latest
BY DEF After, Latest, Rows

\* The loop has a result after every number of rows.
LEMMA ScanExists ==
    ASSUME NEW rows \in Seq(Rows), NEW n \in 0 .. Len(rows)
    PROVE  \E f : IsScan(f, rows, n)
<1>1. PICK D : D = [i \in Nat |-> [l \in Latest |-> IF i \in 1 .. n THEN After(l, rows[i], i) ELSE l]]
  OBVIOUS
<1>2. D \in [Nat -> [Latest -> Latest]]
  BY <1>1, AfterType
<1>3. Nothing \in Latest
  BY DEF Nothing, Latest
<1>4. PICK f : IsRun(f, Latest, Nothing, D, n)
  <2>1. n \in Nat
    OBVIOUS
  <2> QED BY <1>2, <1>3, <2>1, Recursion, Zenon
<1>5. ASSUME NEW i \in 1 .. n PROVE f[i] = After(f[i - 1], rows[i], i)
  <2>1. i \in Nat /\ i - 1 \in 0 .. n
    OBVIOUS
  <2>2. f[i - 1] \in Latest
    BY <1>4, <2>1 DEF IsRun
  <2>3. D[i][f[i - 1]] = After(f[i - 1], rows[i], i)
    BY <1>1, <2>1, <2>2, Zenon
  <2> QED BY <1>4, <2>3 DEF IsRun
<1> QED BY <1>4, <1>5 DEF IsScan, IsRun

\* Rows that agree so far give the same map so far.
LEMMA ScanUnique ==
    \A rows, more, f, g : \A n \in Nat :
        /\ IsScan(f, rows, n) /\ IsScan(g, more, n)
        /\ \A i \in 1 .. n : rows[i] = more[i]
        => f[n] = g[n]
<1> SUFFICES ASSUME NEW rows, NEW more, NEW f, NEW g, NEW n \in Nat,
                    IsScan(f, rows, n), IsScan(g, more, n), \A i \in 1 .. n : rows[i] = more[i]
             PROVE  f[n] = g[n]
  OBVIOUS
<1> DEFINE Same == {m \in Nat : m <= n => f[m] = g[m]}
<1>1. 0 \in Same
  BY DEF IsScan
<1>2. ASSUME NEW m \in Nat, m \in Same PROVE m + 1 \in Same
  BY <1>2 DEF IsScan
<1>3. Nat \subseteq Same
  <2> HIDE DEF Same
  <2> QED BY <1>1, <1>2, SetInduction
<1> QED BY <1>3

\* The recursive function of Scan is such a run of the loop.
LEMMA ScanChosen ==
    ASSUME NEW rows \in Seq(Rows), NEW n \in 0 .. Len(rows), NEW f,
           f = CHOOSE g : g = [i \in 0 .. n |->
                    IF i = 0 THEN [a \in Agents |-> 0]
                    ELSE [g[i - 1] EXCEPT ![rows[i].agent] =
                            IF isControlMutationReversible(rows[i]) THEN i
                            ELSE IF @ = rows[i].undoOf THEN 0 ELSE @]]
    PROVE  IsScan(f, rows, n)
<1>1. PICK g : IsScan(g, rows, n)
  BY ScanExists
<1>2. \A i \in 1 .. n : i # 0 /\ i \in 0 .. n
  OBVIOUS
<1>3. g = [i \in 0 .. n |->
                    IF i = 0 THEN [a \in Agents |-> 0]
                    ELSE [g[i - 1] EXCEPT ![rows[i].agent] =
                            IF isControlMutationReversible(rows[i]) THEN i
                            ELSE IF @ = rows[i].undoOf THEN 0 ELSE @]]
  <2>1. \A i \in 0 .. n : i = 0 \/ i \in 1 .. n
    OBVIOUS
  <2> QED BY <1>1, <1>2, <2>1 DEF IsScan, Nothing, After
<1>4. f = [i \in 0 .. n |->
                    IF i = 0 THEN [a \in Agents |-> 0]
                    ELSE [f[i - 1] EXCEPT ![rows[i].agent] =
                            IF isControlMutationReversible(rows[i]) THEN i
                            ELSE IF @ = rows[i].undoOf THEN 0 ELSE @]]
  BY <1>3, Zenon
<1>5. f = [i \in 0 .. n |-> IF i = 0 THEN Nothing ELSE After(f[i - 1], rows[i], i)]
  BY <1>4, Zenon DEF Nothing, After
<1> DEFINE Typed == {m \in Nat : m <= n => f[m] \in Latest}
<1>6. f[0] = Nothing /\ Nothing \in Latest
  <2>1. 0 \in 0 .. n
    OBVIOUS
  <2>2. f[0] = Nothing
    BY <1>5, <2>1, Zenon
  <2> QED BY <2>2 DEF Nothing, Latest
<1>7. \A i \in 1 .. n : f[i] = After(f[i - 1], rows[i], i) /\ rows[i] \in Rows
  <2> SUFFICES ASSUME NEW i \in 1 .. n PROVE f[i] = After(f[i - 1], rows[i], i) /\ rows[i] \in Rows
    OBVIOUS
  <2>1. i \in 0 .. n /\ i # 0
    BY <1>2
  <2>2. f[i] = After(f[i - 1], rows[i], i)
    BY <1>5, <2>1, Zenon
  <2>3. rows[i] \in Rows
    OBVIOUS
  <2> QED BY <2>2, <2>3
<1>8. ASSUME NEW m \in Nat, m \in Typed PROVE m + 1 \in Typed
  <2>1. SUFFICES ASSUME m + 1 <= n PROVE f[m + 1] \in Latest
    OBVIOUS
  <2>2. f[m] \in Latest /\ m + 1 \in 1 .. n /\ (m + 1) - 1 = m
    BY <1>8, <2>1
  <2>3. f[m + 1] = After(f[m], rows[m + 1], m + 1) /\ rows[m + 1] \in Rows
    BY <1>7, <2>2
  <2>4. m + 1 \in Nat
    OBVIOUS
  <2>5. After(f[m], rows[m + 1], m + 1) \in Latest
    BY <2>2, <2>3, <2>4, AfterType
  <2> QED BY <2>3, <2>5
<1>9. Nat \subseteq Typed
  <2>1. 0 \in Typed
    BY <1>6
  <2> HIDE DEF Typed
  <2> QED BY <1>8, <2>1, SetInduction
<1>10. f \in [0 .. n -> Latest]
  <2>1. \A i \in 0 .. n : f[i] \in Latest
    BY <1>9
  <2>2. DOMAIN f = 0 .. n /\ f = [i \in 0 .. n |-> f[i]]
    BY <1>5, Zenon
  <2> QED BY <2>1, <2>2
<1> QED BY <1>6, <1>7, <1>10 DEF IsScan

\* Of the rows so far the map names each agent's last pause or resume, if it names a row.
IsLastChange(rows, a, i, n) ==
    /\ i \in 1 .. n
    /\ rows[i].agent = a
    /\ \A j \in i + 1 .. n : rows[j].agent = a => ~isControlMutationReversible(rows[j])

LEMMA ScanFindsLast ==
    \A rows, f, a : \A n \in Nat :
        IsScan(f, rows, n) /\ a \in Agents /\ f[n][a] # 0 => IsLastChange(rows, a, f[n][a], n)
<1> SUFFICES ASSUME NEW rows, NEW f, NEW a \in Agents, NEW n \in Nat, IsScan(f, rows, n)
             PROVE  f[n][a] # 0 => IsLastChange(rows, a, f[n][a], n)
  OBVIOUS
<1> DEFINE Found == {m \in Nat : m <= n => (f[m][a] # 0 => IsLastChange(rows, a, f[m][a], m))}
<1>1. 0 \in Found
  BY DEF IsScan, Nothing
<1>2. ASSUME NEW m \in Nat, m \in Found PROVE m + 1 \in Found
  <2>1. SUFFICES ASSUME m + 1 <= n, f[m + 1][a] # 0
                 PROVE  IsLastChange(rows, a, f[m + 1][a], m + 1)
    OBVIOUS
  <2>2. m \in 0 .. n /\ m + 1 \in 1 .. n /\ (m + 1) - 1 = m
    BY <2>1
  <2>3. f[m] \in Latest /\ f[m + 1] = After(f[m], rows[m + 1], m + 1)
    BY <2>2 DEF IsScan
  <2>4. f[m][a] # 0 => IsLastChange(rows, a, f[m][a], m)
    BY <1>2, <2>1
  <2>5. CASE rows[m + 1].agent = a /\ isControlMutationReversible(rows[m + 1])
    <3>1. f[m + 1][a] = m + 1
      BY <2>3, <2>5 DEF After, Latest
    <3> QED BY <2>5, <3>1 DEF IsLastChange
  <2>6. CASE rows[m + 1].agent # a \/ ~isControlMutationReversible(rows[m + 1])
    <3>1. f[m + 1][a] = f[m][a]
      BY <2>1, <2>3, <2>6 DEF After, Latest
    <3>2. IsLastChange(rows, a, f[m][a], m)
      BY <2>1, <2>4, <3>1
    <3>3. \A j \in f[m][a] + 1 .. m + 1 : j = m + 1 \/ j \in f[m][a] + 1 .. m
      BY <3>2 DEF IsLastChange
    <3> QED BY <2>6, <3>1, <3>2, <3>3 DEF IsLastChange
  <2> QED BY <2>5, <2>6
<1>3. Nat \subseteq Found
  <2> HIDE DEF Found
  <2> QED BY <1>1, <1>2, SetInduction
<1> QED BY <1>3

\* Scan is the map after the last row that is read.
RowsRead == IF Len(timeline) < Window THEN Len(timeline) ELSE Window
ScanIsRun ==
    timeline \in Seq(Rows) => \E f : IsScan(f, timeline, RowsRead) /\ Scan = f[RowsRead]

LEMMA ScanOfTimeline == ScanIsRun
<1> SUFFICES ASSUME timeline \in Seq(Rows)
             PROVE  \E f : IsScan(f, timeline, RowsRead) /\ Scan = f[RowsRead]
  BY DEF ScanIsRun
<1> DEFINE n == RowsRead
           f == CHOOSE g : g = [i \in 0 .. n |->
                    IF i = 0 THEN [a \in Agents |-> 0]
                    ELSE [g[i - 1] EXCEPT ![timeline[i].agent] =
                            IF isControlMutationReversible(timeline[i]) THEN i
                            ELSE IF @ = timeline[i].undoOf THEN 0 ELSE @]]
<1>1. n \in 0 .. Len(timeline)
  BY ControlAssumption DEF RowsRead
<1>2. IsScan(f, timeline, n)
  <2> HIDE DEF n
  <2> QED BY <1>1, ScanChosen, Zenon
<1>3. n = IF Len(timeline) < Window THEN Len(timeline) ELSE Window
  BY DEF RowsRead
<1>4. Scan = f[n]
  <2> HIDE DEF n
  <2> QED BY <1>3, Zenon DEF Scan, ScanRow
<1> QED BY <1>2, <1>4

LEMMA ScanOfTimelineNext == ScanIsRun'
BY ScanOfTimeline, PTL

LEMMA ScanType ==
    ASSUME timeline \in Seq(Rows)
    PROVE  Scan \in Latest
<1>1. PICK f : IsScan(f, timeline, RowsRead) /\ Scan = f[RowsRead]
  BY ScanOfTimeline DEF ScanIsRun
<1>2. RowsRead \in 0 .. RowsRead
  BY ControlAssumption DEF RowsRead
<1> QED BY <1>1, <1>2 DEF IsScan

LEMMA ScanIsLast ==
    ASSUME timeline \in Seq(Rows), NEW a \in Agents, Scan[a] # 0
    PROVE  IsLastChange(timeline, a, Scan[a], RowsRead)
<1>1. PICK f : IsScan(f, timeline, RowsRead) /\ Scan = f[RowsRead]
  BY ScanOfTimeline DEF ScanIsRun
<1>2. RowsRead \in Nat
  BY ControlAssumption DEF RowsRead
<1>3. PICK n : n = RowsRead
  OBVIOUS
<1>4. PICK t : t = timeline
  OBVIOUS
<1>5. n \in Nat /\ IsScan(f, t, n) /\ f[n][a] # 0
  BY <1>1, <1>2, <1>3, <1>4
<1>6. IsLastChange(t, a, f[n][a], n)
  BY <1>5, ScanFindsLast
<1> QED BY <1>1, <1>3, <1>4, <1>6

\* A new audit row changes the map by that row alone.
LEMMA ScanAppend ==
    ASSUME timeline \in Seq(Rows), Len(timeline) < Window, NEW row \in Rows,
           timeline' = Append(timeline, row)
    PROVE  Scan' = After(Scan, row, Len(timeline) + 1)
<1>1. Len(timeline) \in Nat /\ Window \in Nat /\ RowsRead = Len(timeline)
  BY ControlAssumption DEF RowsRead
<1>2. PICK f : IsScan(f, timeline, Len(timeline)) /\ Scan = f[Len(timeline)]
  BY <1>1, ScanOfTimeline DEF ScanIsRun
<1>3. timeline' \in Seq(Rows) /\ Len(timeline') = Len(timeline) + 1
  OBVIOUS
<1>4. PICK g : IsScan(g, timeline', Len(timeline')) /\ Scan' = g[Len(timeline')]
  <2>1. RowsRead' = Len(timeline')
    BY <1>1, <1>3 DEF RowsRead
  <2> QED BY <1>3, <2>1, ScanOfTimelineNext DEF ScanIsRun
<1>5. PICK h : h = [i \in 0 .. Len(timeline) |-> g[i]]
  OBVIOUS
<1>6. \A i \in 1 .. Len(timeline) : timeline[i] = timeline'[i]
  OBVIOUS
<1>7. IsScan(h, timeline', Len(timeline)) /\ h[Len(timeline)] = g[Len(timeline)]
  BY <1>1, <1>3, <1>4, <1>5 DEF IsScan
<1>8. f[Len(timeline)] = h[Len(timeline)]
  <2>1. PICK t : t = timeline
    OBVIOUS
  <2>2. PICK n : n = Len(timeline)
    OBVIOUS
  <2>3. PICK u : u = timeline'
    OBVIOUS
  <2>4. n \in Nat /\ IsScan(f, t, n) /\ IsScan(h, u, n) /\ \A i \in 1 .. n : t[i] = u[i]
    BY <1>1, <1>2, <1>6, <1>7, <2>1, <2>2, <2>3
  <2>5. f[n] = h[n]
    BY <2>4, ScanUnique
  <2> QED BY <2>2, <2>5
<1>9. g[Len(timeline) + 1] = After(g[Len(timeline)], timeline'[Len(timeline) + 1], Len(timeline) + 1)
  BY <1>1, <1>3, <1>4 DEF IsScan
<1>10. timeline'[Len(timeline) + 1] = row
  OBVIOUS
<1> QED BY <1>2, <1>3, <1>4, <1>7, <1>8, <1>9, <1>10
------------------------------------------------------------------------------
(* The types, and what each request still knows of the rows it read.         *)
LocalsOfEach == loc = [p \in Procs |-> loc[p]]

\* An undo on its way is of a row of its agent, and of the rows that it read it is the
\* agent's last pause or resume, whatever others record meanwhile.
OnRecord(p) ==
    pc[p] # "idle" =>
        /\ loc[p].undoOf <= Len(timeline)
        /\ loc[p].read <= Len(timeline)
        /\ pc[p] = "current" => loc[p].undoOf # 0
        /\ loc[p].undoOf # 0 => timeline[loc[p].undoOf].agent = loc[p].agent
        /\ \A j \in loc[p].undoOf + 1 .. loc[p].read :
              (j <= Window /\ timeline[j].agent = loc[p].agent)
                 => ~isControlMutationReversible(timeline[j])

TInv == TypeOK /\ LocalsOfEach /\ \A p \in Procs : OnRecord(p)

LEMMA TInvInit == Init => TInv
<1> SUFFICES ASSUME Init PROVE TInv
  OBVIOUS
<1>1. timeline = <<>> /\ Len(timeline) = 0
  BY DEF Init
<1>2. timeline \in Seq(Rows)
  BY <1>1
<1>3. control \in [Agents -> States] /\ faults \in Nat
  BY DEF Init, States
<1> QED BY <1>1, <1>2, <1>3 DEF Init, TInv, TypeOK, OnRecord, LocalsOfEach

\* What a request logs is an audit row.
LEMMA RowLogged ==
    ASSUME NEW p \in Procs, TInv, pc[p] = "log"
    PROVE  [agent |-> loc[p].agent, action |-> ActionOf(loc[p]), before |-> loc[p].before,
            undoOf |-> loc[p].undoOf] \in Rows
<1>1. loc[p] \in Works
  BY DEF TInv, TypeOK
<1>2. ActionOf(loc[p]) \in {"agent_control_paused", "agent_control_resumed", "agent_control_undo"}
  BY DEF ActionOf
<1> QED BY <1>1, <1>2 DEF Works, Rows

\* Rows are only added.
Grows ==
    /\ timeline' \in Seq(Rows)
    /\ Len(timeline) <= Len(timeline')
    /\ \A j \in 1 .. Len(timeline) : timeline'[j] = timeline[j]

\* A request goes on with what it read.
GoesOn(q) ==
    pc'[q] # "idle" =>
        /\ pc[q] # "idle"
        /\ pc'[q] = "current" => pc[q] = "current"
        /\ loc'[q].agent = loc[q].agent
        /\ loc'[q].undoOf = loc[q].undoOf
        /\ loc'[q].read = loc[q].read

LEMMA RecordStands ==
    ASSUME NEW q \in Procs, TInv, Grows, GoesOn(q)
    PROVE  OnRecord(q)'
<1> SUFFICES ASSUME pc'[q] # "idle" PROVE OnRecord(q)'
  BY DEF OnRecord
<1>1. loc[q] \in Works /\ timeline \in Seq(Rows) /\ OnRecord(q) /\ pc[q] # "idle"
  BY DEF GoesOn, TInv, TypeOK
<1>2. /\ loc[q].undoOf \in Nat /\ loc[q].read \in Nat
      /\ Len(timeline) \in Nat /\ Len(timeline') \in Nat
      /\ loc[q].undoOf <= Len(timeline) /\ loc[q].read <= Len(timeline)
  BY <1>1 DEF Works, OnRecord, Grows
<1>3. loc[q].undoOf # 0 => timeline'[loc[q].undoOf].agent = loc[q].agent
  <2> SUFFICES ASSUME loc[q].undoOf # 0 PROVE timeline'[loc[q].undoOf].agent = loc[q].agent
    OBVIOUS
  <2>1. loc[q].undoOf \in 1 .. Len(timeline)
    BY <1>2
  <2> QED BY <1>1, <2>1 DEF OnRecord, Grows
<1>4. ASSUME NEW j \in loc[q].undoOf + 1 .. loc[q].read, j <= Window,
             timeline'[j].agent = loc[q].agent
      PROVE  ~isControlMutationReversible(timeline'[j])
  <2>1. j \in 1 .. Len(timeline)
    BY <1>2
  <2>2. timeline'[j] = timeline[j]
    BY <2>1 DEF Grows
  <2> QED BY <1>1, <1>4, <2>2 DEF OnRecord
<1>5. loc[q].undoOf <= Len(timeline') /\ loc[q].read <= Len(timeline')
  BY <1>2 DEF Grows
<1> QED BY <1>1, <1>3, <1>4, <1>5 DEF OnRecord, GoesOn

LEMMA SameRowsGrow == TInv /\ timeline' = timeline => Grows
BY DEF Grows, TInv, TypeOK

\* A request that starts brings work of the right type.
LEMMA TInvStart ==
    ASSUME NEW p \in Procs, NEW at \in {"current", "upsert"}, NEW work \in Works, TInv,
           work.undoOf <= Len(timeline), work.read <= Len(timeline),
           at = "current" => work.undoOf # 0,
           work.undoOf # 0 => timeline[work.undoOf].agent = work.agent,
           \A j \in work.undoOf + 1 .. work.read :
              (j <= Window /\ timeline[j].agent = work.agent)
                 => ~isControlMutationReversible(timeline[j]),
           Start(p, at, work)
    PROVE  TInv'
<1>1. timeline' = timeline /\ control' = control /\ faults' = faults
  BY DEF Start
<1>2. pc' \in [Procs -> {"idle", "current", "upsert", "log"}]
  BY DEF Start, TInv, TypeOK
<1>3. overlapped' \subseteq Procs
  BY DEF Start, Busy, TInv, TypeOK
<1>4. ASSUME NEW q \in Procs
      PROVE  /\ IF pc'[q] = "idle" THEN loc'[q] = NoWork ELSE loc'[q] \in Works
             /\ OnRecord(q)'
  <2>1. CASE q = p
    <3>1. loc'[q] = work /\ pc'[q] = at
      BY <2>1 DEF Start, TInv, TypeOK, LocalsOfEach
    <3> QED BY <1>1, <3>1 DEF OnRecord
  <2>2. CASE q # p
    <3>1. loc'[q] = loc[q] /\ pc'[q] = pc[q]
      BY <2>2 DEF Start, TInv, TypeOK, LocalsOfEach
    <3>2. OnRecord(q)'
      BY <1>1, <3>1, SameRowsGrow, RecordStands DEF GoesOn
    <3> QED BY <3>1, <3>2 DEF TInv, TypeOK
  <2> QED BY <2>1, <2>2
<1>5. LocalsOfEach'
  BY DEF Start, TInv, LocalsOfEach
<1> QED BY <1>1, <1>2, <1>3, <1>4, <1>5 DEF TInv, TypeOK

\* A request that ends, and those that it leaves.
LEMMA TInvEnd ==
    ASSUME NEW p \in Procs, TInv, End(p), Grows
    PROVE  /\ pc' \in [Procs -> {"idle", "current", "upsert", "log"}]
           /\ \A q \in Procs : IF pc'[q] = "idle" THEN loc'[q] = NoWork ELSE loc'[q] \in Works
           /\ \A q \in Procs : OnRecord(q)'
           /\ overlapped' \subseteq Procs
           /\ LocalsOfEach'
<1>1. pc' \in [Procs -> {"idle", "current", "upsert", "log"}] /\ LocalsOfEach'
      /\ overlapped' \subseteq Procs
  BY DEF End, TInv, TypeOK, LocalsOfEach
<1>2. pc'[p] = "idle" /\ loc'[p] = NoWork
  BY DEF End, TInv, TypeOK, LocalsOfEach
<1>3. \A q \in Procs : q # p => pc'[q] = pc[q] /\ loc'[q] = loc[q]
  BY DEF End, TInv, TypeOK, LocalsOfEach
<1>4. \A q \in Procs : GoesOn(q)
  BY <1>2, <1>3 DEF GoesOn
<1>5. \A q \in Procs : IF pc'[q] = "idle" THEN loc'[q] = NoWork ELSE loc'[q] \in Works
  BY <1>2, <1>3 DEF TInv, TypeOK
<1> QED BY <1>1, <1>4, <1>5, RecordStands

\* The row that a request adds.
LEMMA RowAdded ==
    ASSUME NEW p \in Procs, TInv, LogAction(p)
    PROVE  \E row \in Rows :
              /\ row = [agent |-> loc[p].agent, action |-> ActionOf(loc[p]),
                        before |-> loc[p].before, undoOf |-> loc[p].undoOf]
              /\ timeline' = Append(timeline, row)
              /\ Len(timeline') = Len(timeline) + 1
              /\ timeline'[Len(timeline) + 1] = row
              /\ Grows
              /\ \A j \in 1 .. Len(timeline') : timeline'[j].undoOf < j
<1>1. PICK row : row = [agent |-> loc[p].agent, action |-> ActionOf(loc[p]),
                        before |-> loc[p].before, undoOf |-> loc[p].undoOf]
  OBVIOUS
<1>2. row \in Rows /\ pc[p] = "log" /\ timeline' = Append(timeline, row)
  BY <1>1, RowLogged DEF LogAction
<1>3. timeline \in Seq(Rows)
  BY DEF TInv, TypeOK
<1>4. Len(timeline') = Len(timeline) + 1 /\ timeline'[Len(timeline) + 1] = row
  BY <1>2, <1>3
<1>5. Grows
  BY <1>2, <1>3 DEF Grows
<1>6. row.undoOf <= Len(timeline)
  BY <1>1, <1>2 DEF TInv, OnRecord
<1>7. ASSUME NEW j \in 1 .. Len(timeline') PROVE timeline'[j].undoOf < j
  <2>1. CASE j \in 1 .. Len(timeline)
    <3>1. timeline'[j] = timeline[j]
      BY <1>5, <2>1 DEF Grows
    <3> QED BY <2>1, <3>1 DEF TInv, TypeOK
  <2>2. CASE j = Len(timeline) + 1
    <3>1. row.undoOf \in Nat /\ Len(timeline) \in Nat
      BY <1>2, <1>3 DEF Rows
    <3> QED BY <1>4, <1>6, <2>2, <3>1
  <2> QED BY <1>3, <1>4, <2>1, <2>2
<1> QED BY <1>1, <1>2, <1>4, <1>5, <1>7

\* What an undo reads.
LEMMA UndoReads ==
    ASSUME NEW p \in Procs, NEW i \in 1 .. Len(timeline), TInv, UndoAction(p, i)
    PROVE  /\ timeline[i] \in Rows /\ i \in Nat /\ i # 0 /\ Len(timeline) \in Nat
           /\ \A j \in i + 1 .. Len(timeline) :
                 (j <= Window /\ timeline[j].agent = timeline[i].agent)
                    => ~isControlMutationReversible(timeline[j])
<1>1. timeline \in Seq(Rows) /\ timeline[i] \in Rows /\ i \in Nat /\ i # 0 /\ Len(timeline) \in Nat
  BY DEF TInv, TypeOK
<1>2. PICK a \in Agents : a = timeline[i].agent
  BY <1>1 DEF Rows
<1>3. Scan[a] = i
  BY <1>2 DEF UndoAction, LatestEligible
<1>4. IsLastChange(timeline, a, i, RowsRead)
  BY <1>1, <1>3, ScanIsLast
<1>5. ASSUME NEW j \in i + 1 .. Len(timeline), j <= Window PROVE j \in i + 1 .. RowsRead
  BY <1>1, <1>5, ControlAssumption DEF RowsRead
<1> QED BY <1>1, <1>2, <1>4, <1>5 DEF IsLastChange

LEMMA TInvStep == TInv /\ [Next]_vars => TInv'
<1> SUFFICES ASSUME TInv, [Next]_vars PROVE TInv'
  OBVIOUS
<1>1. ASSUME NEW p \in Procs, NEW a \in Agents, NEW to \in States, PauseOrResume(p, a, to)
      PROVE  TInv'
  <2>1. PICK work : work = [agent |-> a, before |-> control[a], to |-> to, undoOf |-> 0, read |-> 0]
    OBVIOUS
  <2>2. work \in Works /\ work.undoOf = 0 /\ work.read = 0 /\ Len(timeline) \in Nat
    BY <2>1 DEF Works, TInv, TypeOK
  <2>3. Start(p, "upsert", work)
    BY <1>1, <2>1 DEF PauseOrResume
  <2>4. \A j \in work.undoOf + 1 .. work.read : FALSE
    BY <2>2
  <2> QED BY <2>2, <2>3, <2>4, TInvStart
<1>2. ASSUME NEW p \in Procs, NEW i \in 1 .. Len(timeline), UndoAction(p, i)
      PROVE  TInv'
  <2>1. PICK work : work = [agent |-> timeline[i].agent, before |-> timeline[i].before,
                            to |-> timeline[i].before, undoOf |-> i, read |-> Len(timeline)]
    OBVIOUS
  <2>2. timeline[i] \in Rows /\ i \in Nat /\ i # 0 /\ Len(timeline) \in Nat
    BY <1>2, UndoReads
  <2>3. work \in Works /\ work.undoOf = i /\ work.read = Len(timeline)
        /\ work.agent = timeline[i].agent
    BY <2>1, <2>2 DEF Works, Rows
  <2>4. Start(p, "current", work)
    BY <1>2, <2>1 DEF UndoAction
  <2>5. \A j \in work.undoOf + 1 .. work.read :
            (j <= Window /\ timeline[j].agent = work.agent)
               => ~isControlMutationReversible(timeline[j])
    BY <1>2, <2>3, UndoReads
  <2> QED BY <2>2, <2>3, <2>4, <2>5, TInvStart
<1>3. ASSUME NEW p \in Procs, ReadCurrent(p) PROVE TInv'
  <2>1. /\ control' = control /\ timeline' = timeline /\ faults' = faults
        /\ overlapped' = overlapped
    BY <1>3 DEF ReadCurrent
  <2>2. pc' \in [Procs -> {"idle", "current", "upsert", "log"}] /\ LocalsOfEach'
    BY <1>3 DEF ReadCurrent, TInv, TypeOK, LocalsOfEach
  <2>3. loc[p] \in Works /\ control[loc[p].agent] \in States
    BY <1>3 DEF ReadCurrent, TInv, TypeOK, Works
  <2>4. ASSUME NEW q \in Procs
        PROVE  /\ IF pc'[q] = "idle" THEN loc'[q] = NoWork ELSE loc'[q] \in Works
               /\ GoesOn(q)
    <3>1. CASE q = p
      <4>1. pc[q] = "current" /\ pc'[q] = "upsert"
        BY <1>3, <3>1 DEF ReadCurrent, TInv, TypeOK
      <4>2. loc'[q] = [loc[p] EXCEPT !.before = control[loc[p].agent]]
        BY <1>3, <3>1 DEF ReadCurrent, TInv, LocalsOfEach
      <4> QED BY <2>3, <3>1, <4>1, <4>2 DEF Works, GoesOn
    <3>2. CASE q # p
      <4>1. pc'[q] = pc[q] /\ loc'[q] = loc[q]
        BY <1>3, <3>2 DEF ReadCurrent, TInv, TypeOK, LocalsOfEach
      <4> QED BY <4>1 DEF TInv, TypeOK, GoesOn
    <3> QED BY <3>1, <3>2
  <2>5. \A q \in Procs : OnRecord(q)'
    BY <2>1, <2>4, SameRowsGrow, RecordStands
  <2> QED BY <2>1, <2>2, <2>4, <2>5 DEF TInv, TypeOK
<1>4. ASSUME NEW p \in Procs, Upsert(p) PROVE TInv'
  <2>1. /\ loc[p] \in Works /\ loc' = loc /\ timeline' = timeline /\ faults' = faults
        /\ overlapped' = overlapped
    BY <1>4 DEF Upsert, TInv, TypeOK
  <2>2. control' \in [Agents -> States]
    BY <1>4, <2>1 DEF Upsert, TInv, TypeOK, Works
  <2>3. pc' \in [Procs -> {"idle", "current", "upsert", "log"}]
    BY <1>4 DEF Upsert, TInv, TypeOK
  <2>4. \A q \in Procs : (pc'[q] = "idle" <=> pc[q] = "idle") /\ GoesOn(q)
    BY <1>4 DEF Upsert, TInv, TypeOK, GoesOn
  <2>5. \A q \in Procs : OnRecord(q)'
    BY <2>1, <2>4, SameRowsGrow, RecordStands
  <2> QED BY <2>1, <2>2, <2>3, <2>4, <2>5 DEF TInv, TypeOK, LocalsOfEach
<1>5. ASSUME NEW p \in Procs, LogAction(p) PROVE TInv'
  <2>1. Grows /\ \A j \in 1 .. Len(timeline') : timeline'[j].undoOf < j
    BY <1>5, RowAdded
  <2>2. End(p) /\ control' = control /\ faults' = faults
    BY <1>5 DEF LogAction
  <2>3. timeline' \in Seq(Rows)
    BY <2>1 DEF Grows
  <2> QED BY <2>1, <2>2, <2>3, TInvEnd DEF TInv, TypeOK
<1>6. ASSUME NEW p \in Procs, Throw(p) PROVE TInv'
  <2>1. control' = control /\ timeline' = timeline /\ faults' \in Nat /\ End(p)
    BY <1>6 DEF Throw, TInv, TypeOK
  <2>2. Grows
    BY <2>1, SameRowsGrow
  <2> QED BY <2>1, <2>2, TInvEnd DEF TInv, TypeOK
<1>7. CASE UNCHANGED vars
  <2>1. \A q \in Procs : OnRecord(q)'
    BY <1>7, SameRowsGrow, RecordStands DEF vars, GoesOn
  <2> QED BY <1>7, <2>1 DEF vars, TInv, TypeOK, LocalsOfEach
<1> QED BY <1>1, <1>2, <1>3, <1>4, <1>5, <1>6, <1>7 DEF Next, Request

\* The switch, the audit rows and the work of each request keep their types, and a row
\* undoes only a row before it (pauseAgent, resumeAgent, undoAction).
THEOREM Typing == Spec => []TypeOK
<1>1. Spec => []TInv
  BY TInvInit, TInvStep, PTL DEF Spec
<1>2. TInv => TypeOK
  BY DEF TInv
<1> QED BY <1>1, <1>2, PTL

\* Whatever requests run at once and however long the history is: an undo writes the switch
\* over a newer pause or resume of its agent only if that one was recorded after the undo
\* read the rows, or is a row that loadControlUndoContext never reads.
THEOREM NewerIntentIsKept == Spec => UndoKeepsNewerIntent
<1>1. Spec => []TInv
  BY TInvInit, TInvStep, PTL DEF Spec
<1>2. ASSUME TInv, NEW p \in Procs, pc[p] = "upsert", NEW j \in IntentAfter(p)
      PROVE  j > loc[p].read \/ j > Window
  <2>1. loc[p] \in Works /\ OnRecord(p) /\ Len(timeline) \in Nat /\ Window \in Nat
    BY <1>2, ControlAssumption DEF TInv, TypeOK
  <2>2. /\ j \in loc[p].undoOf + 1 .. Len(timeline)
        /\ timeline[j].agent = loc[p].agent
        /\ isControlMutationReversible(timeline[j])
    BY <1>2 DEF IntentAfter
  <2>3. loc[p].undoOf \in Nat /\ loc[p].read \in Nat
    BY <2>1 DEF Works
  <2>4. SUFFICES ASSUME ~(j > loc[p].read), ~(j > Window) PROVE FALSE
    OBVIOUS
  <2>5. j \in loc[p].undoOf + 1 .. loc[p].read /\ j <= Window
    BY <2>1, <2>2, <2>3, <2>4
  <2> QED BY <1>2, <2>1, <2>2, <2>5 DEF OnRecord
<1>3. TInv =>
        [\A p \in Procs : pc[p] = "upsert" /\ pc'[p] = "log" /\ loc[p].undoOf # 0 =>
         \A j \in IntentAfter(p) : j > loc[p].read \/ j > Window]_vars
  BY <1>2
<1> QED BY <1>1, <1>3, PTL DEF Spec, UndoKeepsNewerIntent
------------------------------------------------------------------------------
(* Requests that meet no other of their agent.                               *)
\* Requests of one agent that are on their way together have overlapped.
OverlapsAreNoted ==
    \A p, q \in Procs :
        (p # q /\ pc[p] # "idle" /\ pc[q] # "idle" /\ loc[p].agent = loc[q].agent)
           => p \in overlapped

OverlappedAreBusy == \A p \in overlapped : pc[p] # "idle"

\* While the window covers the rows, an undo that meets no other request is still that of
\* what the loop finds, not undone, and restores its state.
UndoIsDue(p) ==
    (pc[p] # "idle" /\ p \notin overlapped /\ loc[p].undoOf # 0 /\ Len(timeline) <= Window) =>
        /\ Scan[loc[p].agent] = loc[p].undoOf
        /\ ~Undone(loc[p].undoOf)
        /\ loc[p].to = timeline[loc[p].undoOf].before

\* A pause or resume that meets no other request starts from the state the switch has.
TurnIsDue(p) ==
    (pc[p] = "upsert" /\ p \notin overlapped /\ loc[p].undoOf = 0) =>
        /\ loc[p].before = control[loc[p].agent]
        /\ loc[p].to # loc[p].before

Inv ==
    /\ TInv
    /\ OverlapsAreNoted
    /\ OverlappedAreBusy
    /\ \A p \in Procs : UndoIsDue(p) /\ TurnIsDue(p)

LEMMA InvInit == Init => Inv
BY TInvInit DEF Init, Inv, OverlapsAreNoted, OverlappedAreBusy, UndoIsDue, TurnIsDue

\* What is computed from the audit rows changes with them only.
LEMMA UnchangedLog ==
    ASSUME timeline' = timeline
    PROVE  /\ Scan' = Scan
           /\ \A i : Undone(i)' <=> Undone(i)
           /\ \A a : Undoable(a)' = Undoable(a)
<1>1. Scan' = Scan
  BY DEF Scan, ScanRow
<1>2. \A i : Undone(i)' <=> Undone(i)
  BY DEF Seen, Undone
<1> QED BY <1>1, <1>2 DEF Undoable

\* A request that is only watched while another works.
Waits(q) == pc'[q] = pc[q] /\ loc'[q] = loc[q]

LEMMA InvStart ==
    ASSUME NEW p \in Procs, NEW at \in {"current", "upsert"}, NEW work \in Works,
           Inv, TInv', Start(p, at, work),
           work.undoOf # 0 =>
              /\ Scan[work.agent] = work.undoOf
              /\ ~Undone(work.undoOf)
              /\ work.to = timeline[work.undoOf].before,
           (at = "upsert" /\ work.undoOf = 0)
              => (work.before = control[work.agent] /\ work.to # work.before)
    PROVE  Inv'
<1>1. /\ timeline' = timeline /\ control' = control /\ Scan' = Scan
      /\ \A i : Undone(i)' <=> Undone(i)
  BY UnchangedLog DEF Start
<1>2. pc[p] = "idle" /\ pc'[p] = at /\ loc'[p] = work
  BY DEF Start, Inv, TInv, TypeOK, LocalsOfEach
<1>3. \A q \in Procs : q # p => Waits(q)
  BY DEF Start, Inv, TInv, TypeOK, LocalsOfEach, Waits
<1>4. overlapped \subseteq overlapped' /\ overlapped' \subseteq overlapped \union Busy(work.agent) \union {p}
  BY DEF Start
<1>5. OverlapsAreNoted'
  <2> SUFFICES ASSUME NEW q \in Procs, NEW r \in Procs, q # r, pc'[q] # "idle", pc'[r] # "idle",
                      loc'[q].agent = loc'[r].agent
               PROVE  q \in overlapped'
    BY DEF OverlapsAreNoted
  <2>1. CASE q # p /\ r # p
    <3>1. q \in overlapped
      BY <1>3, <2>1 DEF Waits, Inv, OverlapsAreNoted
    <3> QED BY <1>4, <3>1
  <2>2. CASE q = p
    <3>1. r \in Busy(work.agent)
      BY <1>2, <1>3, <2>2 DEF Waits, Busy
    <3> QED BY <2>2, <3>1 DEF Start
  <2>3. CASE r = p
    <3>1. q \in Busy(work.agent)
      BY <1>2, <1>3, <2>3 DEF Waits, Busy
    <3> QED BY <3>1 DEF Start
  <2> QED BY <2>1, <2>2, <2>3
<1>6. OverlappedAreBusy'
  <2> SUFFICES ASSUME NEW q \in overlapped' PROVE pc'[q] # "idle"
    BY DEF OverlappedAreBusy
  <2>1. q = p \/ (q \in Procs /\ pc[q] # "idle")
    BY <1>4 DEF Busy, Inv, OverlappedAreBusy, TInv, TypeOK
  <2> QED BY <1>2, <1>3, <2>1 DEF Waits
<1>7. ASSUME NEW q \in Procs PROVE UndoIsDue(q)' /\ TurnIsDue(q)'
  <2>1. CASE q = p
    BY <1>1, <1>2, <2>1 DEF UndoIsDue, TurnIsDue
  <2>2. CASE q # p
    <3>1. UndoIsDue(q) /\ TurnIsDue(q)
      BY DEF Inv
    <3> QED BY <1>1, <1>3, <1>4, <2>2, <3>1 DEF Waits, UndoIsDue, TurnIsDue
  <2> QED BY <2>1, <2>2
<1> QED BY <1>5, <1>6, <1>7 DEF Inv

\* Those that are left when a request ends.
LEMMA InvEnd ==
    ASSUME NEW p \in Procs, Inv, End(p)
    PROVE  /\ pc'[p] = "idle"
           /\ \A q \in Procs : q # p => Waits(q) /\ (q \in overlapped' <=> q \in overlapped)
           /\ OverlapsAreNoted'
           /\ OverlappedAreBusy'
<1>1. pc'[p] = "idle"
  BY DEF End, Inv, TInv, TypeOK
<1>2. \A q \in Procs : q # p => Waits(q) /\ (q \in overlapped' <=> q \in overlapped)
  BY DEF End, Inv, TInv, TypeOK, LocalsOfEach, Waits
<1>3. OverlapsAreNoted'
  BY <1>1, <1>2 DEF Waits, Inv, OverlapsAreNoted
<1>4. OverlappedAreBusy'
  BY <1>2 DEF Waits, End, Inv, OverlappedAreBusy, TInv, TypeOK
<1> QED BY <1>1, <1>2, <1>3, <1>4

\* A row of one agent leaves what is computed for another.
LEMMA LogElsewhere ==
    ASSUME NEW p \in Procs, Inv, LogAction(p), Len(timeline') <= Window,
           NEW a \in Agents, a # loc[p].agent
    PROVE  /\ Scan'[a] = Scan[a]
           /\ \A i \in 1 .. Len(timeline) :
                 timeline[i].agent = a => /\ timeline'[i] = timeline[i]
                                          /\ Undone(i)' <=> Undone(i)
<1>1. PICK row \in Rows :
              /\ row = [agent |-> loc[p].agent, action |-> ActionOf(loc[p]),
                        before |-> loc[p].before, undoOf |-> loc[p].undoOf]
              /\ timeline' = Append(timeline, row)
              /\ Len(timeline') = Len(timeline) + 1
              /\ timeline'[Len(timeline) + 1] = row
              /\ Grows
  BY RowAdded DEF Inv
<1>2. PICK n \in Nat : n = Len(timeline)
  BY DEF Inv, TInv, TypeOK
<1>3. timeline \in Seq(Rows) /\ Window \in Nat /\ n < Window
  BY <1>1, <1>2, ControlAssumption DEF Inv, TInv, TypeOK
<1>4. Scan' = After(Scan, row, n + 1) /\ Scan \in Latest
  BY <1>1, <1>2, <1>3, ScanAppend, ScanType
<1>5. row.agent = loc[p].agent /\ row.undoOf = loc[p].undoOf
  BY <1>1
<1>6. Scan'[a] = Scan[a]
  BY <1>4, <1>5 DEF After, Latest
<1>7. Seen = 1 .. n /\ Seen' = 1 .. n + 1
  BY <1>1, <1>2, <1>3 DEF Seen
<1>8. \A i : Undone(i)' <=> Undone(i) \/ row.undoOf = i
  BY <1>1, <1>2, <1>7 DEF Undone, Grows
<1>9. ASSUME NEW i \in 1 .. Len(timeline), timeline[i].agent = a PROVE row.undoOf # i
  <2>1. loc[p].undoOf # 0 => timeline[loc[p].undoOf].agent = loc[p].agent
    BY DEF LogAction, Inv, TInv, OnRecord
  <2>2. i # 0
    BY <1>2
  <2> QED BY <1>5, <1>9, <2>1, <2>2
<1> QED BY <1>1, <1>6, <1>8, <1>9 DEF Grows

LEMMA InvLog ==
    ASSUME NEW p \in Procs, Inv, TInv', LogAction(p)
    PROVE  Inv'
<1>1. End(p) /\ control' = control /\ pc[p] # "idle"
  BY DEF LogAction
<1>2. Grows /\ Len(timeline') = Len(timeline) + 1 /\ Len(timeline) \in Nat
  BY RowAdded DEF Inv, TInv, TypeOK
<1>3. ASSUME NEW q \in Procs PROVE UndoIsDue(q)' /\ TurnIsDue(q)'
  <2>1. CASE q = p
    BY <1>1, <2>1, InvEnd DEF UndoIsDue, TurnIsDue
  <2>2. CASE q # p
    <3>1. Waits(q) /\ (q \in overlapped' <=> q \in overlapped)
      BY <1>1, <2>2, InvEnd
    <3>2. TurnIsDue(q)'
      BY <1>1, <3>1 DEF Waits, Inv, TurnIsDue
    <3>3. UndoIsDue(q)'
      <4> SUFFICES ASSUME pc[q] # "idle", q \notin overlapped, loc[q].undoOf # 0,
                          Len(timeline') <= Window
                   PROVE  /\ Scan'[loc[q].agent] = loc[q].undoOf
                          /\ ~Undone(loc[q].undoOf)'
                          /\ loc[q].to = timeline'[loc[q].undoOf].before
        BY <3>1 DEF Waits, UndoIsDue
      <4>1. PICK a \in Agents : a = loc[q].agent
        BY DEF Inv, TInv, TypeOK, Works
      <4>2. a # loc[p].agent
        BY <1>1, <2>2, <4>1 DEF Inv, OverlapsAreNoted
      <4>3. Len(timeline) <= Window
        BY <1>2, ControlAssumption
      <4>4. /\ Scan[a] = loc[q].undoOf
            /\ ~Undone(loc[q].undoOf)
            /\ loc[q].to = timeline[loc[q].undoOf].before
        BY <4>1, <4>3 DEF Inv, UndoIsDue
      <4>5. loc[q].undoOf \in 1 .. Len(timeline) /\ timeline[loc[q].undoOf].agent = a
        BY <1>2, <4>1 DEF Inv, TInv, TypeOK, OnRecord, Works
      <4>6. PICK i \in 1 .. Len(timeline) : i = loc[q].undoOf
        BY <4>5
      <4>7. Scan'[a] = Scan[a] /\ timeline'[i] = timeline[i] /\ (Undone(i)' <=> Undone(i))
        BY <4>2, <4>5, <4>6, LogElsewhere
      <4>8. loc'[q].undoOf = i /\ ~Undone(i)'
        BY <3>1, <4>4, <4>6, <4>7 DEF Waits
      <4>9. ~Undone(loc[q].undoOf)'
        BY <4>8 DEF Undone
      <4> QED BY <4>1, <4>4, <4>6, <4>7, <4>9
    <3> QED BY <3>2, <3>3
  <2> QED BY <2>1, <2>2
<1> QED BY <1>1, <1>3, InvEnd DEF Inv

LEMMA InvStep == Inv /\ [Next]_vars => Inv'
<1> SUFFICES ASSUME Inv, [Next]_vars PROVE Inv'
  OBVIOUS
<1>0. TInv'
  BY TInvStep DEF Inv
<1>1. ASSUME NEW p \in Procs, NEW a \in Agents, NEW to \in States, PauseOrResume(p, a, to)
      PROVE  Inv'
  <2>1. PICK work : work = [agent |-> a, before |-> control[a], to |-> to, undoOf |-> 0, read |-> 0]
    OBVIOUS
  <2>2. work \in Works /\ work.undoOf = 0 /\ work.before = control[work.agent]
        /\ work.to # work.before
    BY <1>1, <2>1 DEF Works, Inv, TInv, TypeOK, PauseOrResume
  <2>3. Start(p, "upsert", work)
    BY <1>1, <2>1 DEF PauseOrResume
  <2> QED BY <1>0, <2>2, <2>3, InvStart
<1>2. ASSUME NEW p \in Procs, NEW i \in 1 .. Len(timeline), UndoAction(p, i)
      PROVE  Inv'
  <2>1. PICK work : work = [agent |-> timeline[i].agent, before |-> timeline[i].before,
                            to |-> timeline[i].before, undoOf |-> i, read |-> Len(timeline)]
    OBVIOUS
  <2>2. timeline[i] \in Rows /\ i \in Nat /\ i # 0 /\ Len(timeline) \in Nat
    BY <1>2, UndoReads DEF Inv
  <2>3. work \in Works
    BY <2>1, <2>2 DEF Works, Rows
  <2>4. Start(p, "current", work) /\ LatestEligible(timeline[i].agent, i)
    BY <1>2, <2>1 DEF UndoAction
  <2>5. /\ Scan[work.agent] = work.undoOf
        /\ ~Undone(work.undoOf)
        /\ work.to = timeline[work.undoOf].before
    BY <2>1, <2>4 DEF LatestEligible
  <2> QED BY <1>0, <2>3, <2>4, <2>5, InvStart
<1>3. ASSUME NEW p \in Procs, ReadCurrent(p) PROVE Inv'
  <2>1. /\ timeline' = timeline /\ control' = control /\ overlapped' = overlapped /\ Scan' = Scan
        /\ \A i : Undone(i)' <=> Undone(i)
    BY <1>3, UnchangedLog DEF ReadCurrent
  <2>2. pc[p] = "current" /\ pc'[p] = "upsert"
    BY <1>3 DEF ReadCurrent, Inv, TInv, TypeOK
  <2>3. loc[p] \in Works /\ loc[p].undoOf # 0
    BY <2>2 DEF Inv, TInv, TypeOK, OnRecord
  <2>4. loc'[p].agent = loc[p].agent /\ loc'[p].undoOf = loc[p].undoOf /\ loc'[p].to = loc[p].to
    <3>1. loc'[p] = [loc[p] EXCEPT !.before = control[loc[p].agent]]
      BY <1>3 DEF ReadCurrent, Inv, TInv, LocalsOfEach
    <3> QED BY <2>3, <3>1 DEF Works
  <2>5. \A q \in Procs : q # p => Waits(q)
    BY <1>3 DEF ReadCurrent, Inv, TInv, TypeOK, LocalsOfEach, Waits
  <2>6. OverlapsAreNoted'
    BY <2>1, <2>2, <2>4, <2>5 DEF Waits, Inv, OverlapsAreNoted
  <2>7. OverlappedAreBusy'
    BY <2>1, <2>2, <2>5 DEF Waits, Inv, OverlappedAreBusy, TInv, TypeOK
  <2>8. ASSUME NEW q \in Procs PROVE UndoIsDue(q)' /\ TurnIsDue(q)'
    <3>1. CASE q = p
      BY <2>1, <2>2, <2>3, <2>4, <3>1 DEF Inv, UndoIsDue, TurnIsDue
    <3>2. CASE q # p
      BY <2>1, <2>5, <3>2 DEF Waits, Inv, UndoIsDue, TurnIsDue
    <3> QED BY <3>1, <3>2
  <2> QED BY <1>0, <2>6, <2>7, <2>8 DEF Inv
<1>4. ASSUME NEW p \in Procs, Upsert(p) PROVE Inv'
  <2>1. /\ timeline' = timeline /\ loc' = loc /\ overlapped' = overlapped /\ Scan' = Scan
        /\ \A i : Undone(i)' <=> Undone(i)
    BY <1>4, UnchangedLog DEF Upsert
  <2>2. pc[p] = "upsert" /\ pc'[p] = "log" /\ \A q \in Procs : q # p => pc'[q] = pc[q]
    BY <1>4 DEF Upsert, Inv, TInv, TypeOK
  <2>3. OverlapsAreNoted'
    BY <2>1, <2>2 DEF Inv, OverlapsAreNoted
  <2>4. OverlappedAreBusy'
    BY <2>1, <2>2 DEF Inv, OverlappedAreBusy, TInv, TypeOK
  <2>5. \A q \in Procs : UndoIsDue(q)'
    BY <2>1, <2>2 DEF Inv, UndoIsDue
  <2>6. ASSUME NEW q \in Procs PROVE TurnIsDue(q)'
    <3> SUFFICES ASSUME pc'[q] = "upsert", q \notin overlapped, loc[q].undoOf = 0
                 PROVE  loc[q].before = control'[loc[q].agent] /\ loc[q].to # loc[q].before
      BY <2>1 DEF TurnIsDue
    <3>1. q # p /\ pc[q] = "upsert"
      BY <2>2
    <3>2. loc[q].agent # loc[p].agent
      BY <2>2, <3>1 DEF Inv, OverlapsAreNoted
    <3>3. loc[q].agent \in Agents
      BY <3>1 DEF Inv, TInv, TypeOK, Works
    <3>4. control'[loc[q].agent] = control[loc[q].agent]
      BY <1>4, <3>2, <3>3 DEF Upsert, Inv, TInv, TypeOK
    <3> QED BY <3>1, <3>4 DEF Inv, TurnIsDue
  <2> QED BY <1>0, <2>3, <2>4, <2>5, <2>6 DEF Inv
<1>5. ASSUME NEW p \in Procs, LogAction(p) PROVE Inv'
  BY <1>0, <1>5, InvLog
<1>6. ASSUME NEW p \in Procs, Throw(p) PROVE Inv'
  <2>1. /\ timeline' = timeline /\ control' = control /\ Scan' = Scan /\ End(p)
        /\ \A i : Undone(i)' <=> Undone(i)
    BY <1>6, UnchangedLog DEF Throw
  <2>2. ASSUME NEW q \in Procs PROVE UndoIsDue(q)' /\ TurnIsDue(q)'
    <3>1. CASE q = p
      BY <2>1, <3>1, InvEnd DEF UndoIsDue, TurnIsDue
    <3>2. CASE q # p
      <4>1. Waits(q) /\ (q \in overlapped' <=> q \in overlapped)
        BY <2>1, <3>2, InvEnd
      <4> QED BY <2>1, <4>1 DEF Waits, Inv, UndoIsDue, TurnIsDue
    <3> QED BY <3>1, <3>2
  <2> QED BY <1>0, <2>1, <2>2, InvEnd DEF Inv
<1>7. CASE UNCHANGED vars
  <2>1. /\ timeline' = timeline /\ Scan' = Scan /\ loc' = loc /\ pc' = pc /\ control' = control
        /\ overlapped' = overlapped /\ \A i : Undone(i)' <=> Undone(i)
    BY <1>7, UnchangedLog DEF vars
  <2> QED BY <1>0, <2>1 DEF Inv, OverlapsAreNoted, OverlappedAreBusy, UndoIsDue, TurnIsDue
<1> QED BY <1>1, <1>2, <1>3, <1>4, <1>5, <1>6, <1>7 DEF Next, Request
------------------------------------------------------------------------------
(* The contract.                                                            *)
AtLog(q, a) == pc[q] = "log" /\ loc[q].agent = a
\* What q makes undoable when it logs.
Tells(q) == IF loc[q].undoOf = 0 THEN loc[q].before ELSE "nothing"

\* While an agent's contract is firm at most one request has written its switch and not
\* logged it yet.
PendingIsTold ==
    Inv => \A a \in Agents : Firm(a) =>
              /\ \A q \in Procs : AtLog(q, a) => Pending(a) = Tells(q)
              /\ (\A q \in Procs : ~AtLog(q, a)) => Pending(a) = "none"

LEMMA PendingOfRequest == PendingIsTold
<1> SUFFICES ASSUME Inv, NEW a \in Agents, Firm(a)
             PROVE  /\ \A q \in Procs : AtLog(q, a) => Pending(a) = Tells(q)
                    /\ (\A q \in Procs : ~AtLog(q, a)) => Pending(a) = "none"
  BY DEF PendingIsTold
<1>1. ASSUME NEW q \in Procs, AtLog(q, a) PROVE Pending(a) = Tells(q)
  <2>1. ASSUME NEW r \in Procs, AtLog(r, a) PROVE r = q
    <3>1. r # q => r \in overlapped
      BY <1>1, <2>1 DEF AtLog, Inv, OverlapsAreNoted
    <3> QED BY <2>1, <3>1 DEF AtLog, Firm
  <2>2. PICK r \in Procs : r = CHOOSE x \in Procs : pc[x] = "log" /\ loc[x].agent = a
    BY <1>1 DEF AtLog
  <2>3. AtLog(r, a)
    BY <1>1, <2>2 DEF AtLog
  <2>4. r = q
    BY <2>1, <2>3
  <2> QED BY <1>1, <2>2, <2>4 DEF AtLog, Tells, Pending
<1>2. (\A q \in Procs : ~AtLog(q, a)) => Pending(a) = "none"
  BY DEF AtLog, Pending
<1> QED BY <1>1, <1>2

LEMMA PendingOfRequestNext == PendingIsTold'
BY PendingOfRequest, PTL

LEMMA ContractInit == Init => Contract!Init
<1> SUFFICES ASSUME Init PROVE Contract!Init
  OBVIOUS
<1>1. Inv /\ timeline \in Seq(Rows) /\ RowsRead = 0 /\ Len(timeline) <= Window
  BY InvInit, ControlAssumption DEF Init, Inv, TInv, TypeOK, RowsRead
<1>2. \A a \in Agents : Firm(a)
  BY <1>1 DEF Init, Firm
<1>3. ASSUME NEW a \in Agents PROVE Undoable(a) = "nothing"
  <2>1. Scan \in Latest
    BY <1>1, ScanType
  <2>2. Scan[a] = 0
    BY <1>1, ScanIsLast DEF IsLastChange
  <2> QED BY <2>2 DEF Undoable
<1>4. ASSUME NEW a \in Agents PROVE Pending(a) = "none"
  BY DEF Init, Pending
<1> QED BY <1>2, <1>3, <1>4 DEF Init, Contract!Init

LEMMA ContractTakes ==
    ASSUME faults' \in {faults, faults + 1},
           \A a \in Agents :
              Firm(a)' => IF Firm(a) THEN Contract!Promised(a) ELSE Contract!Anew(a)
    PROVE  Contract!Next
BY DEF Contract!Next

\* Only p moves, and nobody stops having overlapped but p.
OnlyMoves(p) ==
    /\ Grows
    /\ \A q \in Procs : q # p => Waits(q) /\ (q \in overlapped => q \in overlapped')

\* A contract is made firm again only by the end of a request of its agent.
LEMMA FirmBefore ==
    ASSUME NEW p \in Procs, Inv, OnlyMoves(p), NEW a \in Agents, Firm(a)',
           p \in overlapped => loc[p].agent # a
    PROVE  Firm(a)
<1>1. Len(timeline) <= Window
  BY ControlAssumption DEF OnlyMoves, Grows, Firm, Inv, TInv, TypeOK
<1>2. ASSUME NEW q \in overlapped PROVE loc[q].agent # a
  <2>1. q \in Procs
    BY DEF Inv, TInv, TypeOK
  <2>2. CASE q = p
    BY <1>2, <2>2
  <2>3. CASE q # p
    <3>1. q \in overlapped' /\ loc'[q] = loc[q]
      BY <2>1, <2>3 DEF OnlyMoves, Waits
    <3> QED BY <3>1 DEF Firm
  <2> QED BY <2>2, <2>3
<1> QED BY <1>1, <1>2 DEF Firm

\* Then no other of its requests is half-way.
LEMMA NonePending ==
    ASSUME NEW p \in Procs, Inv, Inv', OnlyMoves(p), pc[p] # "idle", pc'[p] = "idle",
           NEW a \in Agents, a = loc[p].agent, Firm(a)'
    PROVE  Pending(a)' = "none"
<1>1. ASSUME NEW q \in Procs, AtLog(q, a)' PROVE FALSE
  <2>1. q # p
    BY <1>1 DEF AtLog
  <2>2. pc'[q] = "log" /\ loc'[q].agent = a /\ pc[q] = "log" /\ loc[q].agent = a
    BY <1>1, <2>1 DEF AtLog, OnlyMoves, Waits
  <2>3. q \in overlapped
    BY <2>1, <2>2 DEF Inv, OverlapsAreNoted
  <2>4. q \in overlapped'
    BY <2>1, <2>3 DEF OnlyMoves
  <2> QED BY <2>2, <2>4 DEF Firm
<1> QED BY <1>1, PendingOfRequestNext DEF PendingIsTold

\* A step that an agent's contract does not see.
LEMMA StaysSame ==
    ASSUME NEW a \in Agents, Inv, Inv', Firm(a), Firm(a)',
           control'[a] = control[a], Undoable(a)' = Undoable(a),
           \A q \in Procs : /\ AtLog(q, a)' <=> AtLog(q, a)
                            /\ AtLog(q, a) => Tells(q)' = Tells(q)
    PROVE  Contract!Promised(a)
<1>1. Pending(a)' = Pending(a)
  <2>1. CASE \E q \in Procs : AtLog(q, a)
    <3>1. PICK q \in Procs : AtLog(q, a)
      BY <2>1
    <3>2. Pending(a) = Tells(q)
      BY <3>1, PendingOfRequest DEF PendingIsTold
    <3>3. AtLog(q, a)'
      BY <3>1
    <3>4. Pending(a)' = Tells(q)'
      BY <3>3, PendingOfRequestNext DEF PendingIsTold
    <3> QED BY <3>1, <3>2, <3>4
  <2>2. CASE ~\E q \in Procs : AtLog(q, a)
    <3>1. Pending(a) = "none"
      BY <2>2, PendingOfRequest DEF PendingIsTold
    <3>2. \A q \in Procs : ~AtLog(q, a)'
      BY <2>2
    <3>3. Pending(a)' = "none"
      BY <3>2, PendingOfRequestNext DEF PendingIsTold
    <3> QED BY <3>1, <3>3
  <2> QED BY <2>1, <2>2
<1>2. Contract!Same(a)
  BY <1>1 DEF Contract!Same
<1> QED BY <1>2 DEF Contract!Promised

\* What a step for one agent leaves of the promise to another.
LEMMA StaysElsewhere ==
    ASSUME NEW p \in Procs, Inv, Inv', OnlyMoves(p), pc[p] # "idle", NEW a \in Agents,
           a # loc[p].agent, pc'[p] = "idle" \/ loc'[p].agent = loc[p].agent,
           Firm(a)', control'[a] = control[a], Undoable(a)' = Undoable(a)
    PROVE  Firm(a) /\ Contract!Promised(a)
<1>1. Firm(a)
  BY FirmBefore
<1>2. ASSUME NEW q \in Procs
      PROVE  /\ AtLog(q, a)' <=> AtLog(q, a)
             /\ AtLog(q, a) => Tells(q)' = Tells(q)
  <2>1. CASE q = p
    BY <2>1 DEF AtLog
  <2>2. CASE q # p
    BY <2>2 DEF OnlyMoves, Waits, AtLog, Tells
  <2> QED BY <2>1, <2>2
<1> QED BY <1>1, <1>2, StaysSame

\* The contract sees nothing of a request before it writes.
LEMMA StepSilent ==
    ASSUME NEW p \in Procs, Inv, Inv', OnlyMoves(p),
           timeline' = timeline, control' = control, faults' = faults,
           pc[p] # "log", pc'[p] # "log",
           p \in overlapped => p \in overlapped' /\ loc'[p].agent = loc[p].agent
    PROVE  Contract!Next
<1>1. ASSUME NEW a \in Agents, Firm(a)' PROVE Firm(a) /\ Contract!Promised(a)
  <2>1. p \in overlapped => loc[p].agent # a
    BY <1>1 DEF Firm
  <2>2. Firm(a)
    BY <1>1, <2>1, FirmBefore
  <2>3. Undoable(a)' = Undoable(a) /\ control'[a] = control[a]
    BY UnchangedLog
  <2>4. ASSUME NEW q \in Procs
        PROVE  /\ AtLog(q, a)' <=> AtLog(q, a)
               /\ AtLog(q, a) => Tells(q)' = Tells(q)
    <3>1. CASE q = p
      BY <3>1 DEF AtLog
    <3>2. CASE q # p
      BY <3>2 DEF OnlyMoves, Waits, AtLog, Tells
    <3> QED BY <3>1, <3>2
  <2> QED BY <1>1, <2>2, <2>3, <2>4, StaysSame
<1> QED BY <1>1, ContractTakes

LEMMA StepStart ==
    ASSUME NEW p \in Procs, NEW at \in {"current", "upsert"}, NEW work, Inv, Inv', Start(p, at, work)
    PROVE  Contract!Next
<1>1. timeline' = timeline /\ control' = control /\ faults' = faults /\ pc[p] = "idle"
  BY DEF Start
<1>2. pc'[p] = at
  BY DEF Start, Inv, TInv, TypeOK
<1>3. p \notin overlapped
  BY <1>1 DEF Inv, OverlappedAreBusy
<1>4. OnlyMoves(p)
  BY <1>1, SameRowsGrow DEF Start, Inv, TInv, TypeOK, LocalsOfEach, Waits, OnlyMoves
<1> QED BY <1>1, <1>2, <1>3, <1>4, StepSilent

LEMMA StepReadCurrent ==
    ASSUME NEW p \in Procs, Inv, Inv', ReadCurrent(p)
    PROVE  Contract!Next
<1>1. /\ timeline' = timeline /\ control' = control /\ faults' = faults
      /\ overlapped' = overlapped /\ pc[p] = "current"
  BY DEF ReadCurrent
<1>2. pc'[p] = "upsert" /\ loc[p] \in Works
  BY <1>1 DEF ReadCurrent, Inv, TInv, TypeOK
<1>3. loc'[p].agent = loc[p].agent
  <2>1. loc'[p] = [loc[p] EXCEPT !.before = control[loc[p].agent]]
    BY DEF ReadCurrent, Inv, TInv, LocalsOfEach
  <2> QED BY <1>2, <2>1 DEF Works
<1>4. OnlyMoves(p)
  BY <1>1, SameRowsGrow DEF ReadCurrent, Inv, TInv, TypeOK, LocalsOfEach, Waits, OnlyMoves
<1> QED BY <1>1, <1>2, <1>3, <1>4, StepSilent

\* The write is the contract's turn or undo.
LEMMA StepUpsert ==
    ASSUME NEW p \in Procs, Inv, Inv', Upsert(p)
    PROVE  Contract!Next
<1>1. /\ pc[p] = "upsert" /\ loc' = loc /\ timeline' = timeline /\ faults' = faults
      /\ overlapped' = overlapped
  BY DEF Upsert
<1>2. pc'[p] = "log" /\ control \in [Agents -> States] /\ loc[p] \in Works
  BY <1>1 DEF Upsert, Inv, TInv, TypeOK
<1>3. PICK b \in Agents : b = loc[p].agent
  BY <1>2 DEF Works
<1>4. control' = [control EXCEPT ![b] = loc[p].to] /\ loc[p].to \in States
  BY <1>2, <1>3 DEF Upsert, Works
<1>5. OnlyMoves(p)
  BY <1>1, SameRowsGrow DEF Upsert, Inv, TInv, TypeOK, Waits, OnlyMoves
<1>6. ASSUME NEW a \in Agents, Firm(a)', a # b PROVE Firm(a) /\ Contract!Promised(a)
  <2>1. control'[a] = control[a] /\ Undoable(a)' = Undoable(a)
    BY <1>1, <1>2, <1>4, <1>6, UnchangedLog
  <2> QED BY <1>1, <1>3, <1>5, <1>6, <2>1, StaysElsewhere
<1>7. ASSUME Firm(b)' PROVE Firm(b) /\ Contract!Promised(b)
  <2>1. Firm(b) /\ p \notin overlapped
    BY <1>1, <1>3, <1>7 DEF Firm
  <2>2. AtLog(p, b)' /\ Tells(p)' = Tells(p)
    BY <1>1, <1>2, <1>3 DEF AtLog, Tells
  <2>3. Pending(b)' = Tells(p)
    <3>1. Pending(b)' = Tells(p)'
      BY <1>7, <2>2, PendingOfRequestNext DEF PendingIsTold
    <3> QED BY <2>2, <3>1
  <2>4. Undoable(b)' = Undoable(b) /\ control'[b] = loc[p].to
    BY <1>1, <1>2, <1>4, UnchangedLog
  <2>5. CASE loc[p].undoOf = 0
    <3>1. loc[p].before = control[b] /\ loc[p].to # control[b]
      BY <1>1, <1>3, <2>1, <2>5 DEF Inv, TurnIsDue
    <3>2. Contract!Turn(b, loc[p].to)
      BY <1>1, <2>3, <2>4, <2>5, <3>1 DEF Tells, Contract!Turn
    <3>3. loc[p].to = "PAUSED" \/ loc[p].to = "ACTIVE"
      BY <1>4 DEF States
    <3> QED BY <2>1, <3>2, <3>3 DEF Contract!Promised
  <2>6. CASE loc[p].undoOf # 0
    <3>1. /\ Scan[b] = loc[p].undoOf /\ ~Undone(loc[p].undoOf)
          /\ loc[p].to = timeline[loc[p].undoOf].before
      BY <1>1, <1>3, <2>1, <2>6 DEF Inv, UndoIsDue, Firm
    <3>2. Undoable(b) = loc[p].to
      BY <2>6, <3>1 DEF Undoable
    <3>3. loc[p].to # "nothing"
      BY <1>4 DEF States
    <3>4. Contract!Undo(b)
      BY <1>1, <2>3, <2>4, <2>6, <3>2, <3>3 DEF Tells, Contract!Undo
    <3> QED BY <2>1, <3>4 DEF Contract!Promised
  <2> QED BY <2>5, <2>6
<1>8. \A a \in Agents : Firm(a)' => Firm(a) /\ Contract!Promised(a)
  BY <1>6, <1>7
<1> QED BY <1>1, <1>8, ContractTakes

\* The audit row is the contract's record.
LEMMA Recorded ==
    ASSUME NEW p \in Procs, Inv, Inv', LogAction(p), NEW b \in Agents, b = loc[p].agent,
           Firm(b), Firm(b)'
    PROVE  Undoable(b)' = Tells(p)
<1>1. PICK row \in Rows :
              /\ row = [agent |-> loc[p].agent, action |-> ActionOf(loc[p]),
                        before |-> loc[p].before, undoOf |-> loc[p].undoOf]
              /\ timeline' = Append(timeline, row)
              /\ Len(timeline') = Len(timeline) + 1
              /\ timeline'[Len(timeline) + 1] = row
              /\ Grows
              /\ \A j \in 1 .. Len(timeline') : timeline'[j].undoOf < j
  BY RowAdded DEF Inv
<1>2. PICK n \in Nat : n = Len(timeline)
  BY DEF Inv, TInv, TypeOK
<1>3. timeline \in Seq(Rows) /\ Window \in Nat /\ n + 1 <= Window
  BY <1>1, <1>2, ControlAssumption DEF Inv, TInv, TypeOK, Firm
<1>4. Scan' = After(Scan, row, n + 1) /\ Scan \in Latest
  BY <1>1, <1>2, <1>3, ScanAppend, ScanType
<1>5. row.agent = b /\ row.undoOf = loc[p].undoOf /\ row.before = loc[p].before
      /\ row.action = ActionOf(loc[p])
  BY <1>1
<1>6. CASE loc[p].undoOf = 0
  <2>1. isControlMutationReversible(row)
    BY <1>5, <1>6 DEF isControlMutationReversible, ActionOf
  <2>2. Scan'[b] = n + 1
    BY <1>4, <1>5, <2>1 DEF After, Latest
  <2>3. ~Undone(n + 1)'
    <3>1. timeline' \in Seq(Rows) /\ Len(timeline') = n + 1
      BY <1>1, <1>2 DEF Grows
    <3>2. ASSUME NEW j \in 1 .. n + 1
          PROVE  timeline'[j].undoOf < j /\ timeline'[j].undoOf \in Nat
      <4>1. timeline'[j] \in Rows
        BY <3>1
      <4>2. timeline'[j].undoOf < j
        BY <1>1, <3>1
      <4> QED BY <4>1, <4>2 DEF Rows
    <3>3. \A j \in 1 .. n + 1 : timeline'[j].undoOf # n + 1
      BY <3>2
    <3>4. \A j \in Seen' : j \in 1 .. n + 1
      BY <3>1 DEF Seen
    <3>5. \A m : Undone(m)' <=> \E j \in Seen' : timeline'[j].undoOf = m
      BY DEF Undone
    <3> QED BY <3>3, <3>4, <3>5
  <2>4. Undoable(b)' = row.before
    <3>1. timeline'[n + 1] = row
      BY <1>1, <1>2
    <3> QED BY <2>2, <2>3, <3>1 DEF Undoable
  <2> QED BY <1>5, <1>6, <2>4 DEF Tells
<1>7. CASE loc[p].undoOf # 0
  <2>1. ~isControlMutationReversible(row)
    BY <1>5, <1>7 DEF isControlMutationReversible, ActionOf
  <2>2. pc[p] = "log" /\ p \notin overlapped
    BY DEF LogAction, Firm
  <2>3. Scan[b] = row.undoOf
    BY <1>5, <1>7, <2>2 DEF Inv, UndoIsDue, Firm
  <2>4. Scan'[b] = 0
    BY <1>4, <1>5, <2>1, <2>3 DEF After, Latest
  <2>5. Undoable(b)' = "nothing"
    BY <2>4 DEF Undoable
  <2> QED BY <1>7, <2>5 DEF Tells
<1> QED BY <1>6, <1>7

LEMMA StepLog ==
    ASSUME NEW p \in Procs, Inv, Inv', LogAction(p)
    PROVE  Contract!Next
<1>1. pc[p] = "log" /\ End(p) /\ control' = control /\ faults' = faults
  BY DEF LogAction
<1>2. pc'[p] = "idle" /\ OnlyMoves(p)
  BY <1>1, InvEnd, RowAdded DEF OnlyMoves, Inv
<1>3. PICK b \in Agents : b = loc[p].agent
  BY <1>1 DEF Inv, TInv, TypeOK, Works
<1>4. ASSUME NEW a \in Agents, Firm(a)', a # b PROVE Firm(a) /\ Contract!Promised(a)
  <2>1. /\ Scan'[a] = Scan[a]
        /\ \A i \in 1 .. Len(timeline) :
              timeline[i].agent = a => /\ timeline'[i] = timeline[i]
                                       /\ Undone(i)' <=> Undone(i)
    BY <1>3, <1>4, LogElsewhere DEF Firm
  <2>2. Scan[a] # 0 => Scan[a] \in 1 .. Len(timeline) /\ timeline[Scan[a]].agent = a
    <3> SUFFICES ASSUME Scan[a] # 0
                 PROVE  Scan[a] \in 1 .. Len(timeline) /\ timeline[Scan[a]].agent = a
      OBVIOUS
    <3>1. timeline \in Seq(Rows)
      BY DEF Inv, TInv, TypeOK
    <3>2. IsLastChange(timeline, a, Scan[a], RowsRead)
      BY <3>1, ScanIsLast
    <3> QED BY <3>1, <3>2, ControlAssumption DEF IsLastChange, RowsRead
  <2>3. PICK i : i = Scan[a]
    OBVIOUS
  <2>4. i # 0 => timeline'[i] = timeline[i] /\ (Undone(i)' <=> Undone(i))
    BY <2>1, <2>2, <2>3
  <2>5. Undoable(a) = IF i # 0 /\ ~Undone(i) THEN timeline[i].before ELSE "nothing"
    BY <2>3 DEF Undoable
  <2>6. Undoable(a)' = IF i # 0 /\ ~Undone(i)' THEN timeline'[i].before ELSE "nothing"
    BY <2>1, <2>3 DEF Undoable
  <2>7. Undoable(a)' = Undoable(a)
    BY <2>4, <2>5, <2>6
  <2> QED BY <1>1, <1>2, <1>3, <1>4, <2>7, StaysElsewhere
<1>5. ASSUME Firm(b)' PROVE IF Firm(b) THEN Contract!Promised(b) ELSE Contract!Anew(b)
  <2>1. Pending(b)' = "none"
    BY <1>1, <1>2, <1>3, <1>5, NonePending
  <2>2. CASE Firm(b)
    <3>1. Undoable(b)' = Tells(p)
      BY <1>3, <1>5, <2>2, Recorded
    <3>2. Pending(b) = Tells(p)
      BY <1>1, <1>3, <2>2, PendingOfRequest DEF PendingIsTold, AtLog
    <3>3. Tells(p) # "none"
      BY <1>1 DEF Tells, Inv, TInv, TypeOK, Works, States
    <3>4. Contract!Record(b)
      BY <1>1, <2>1, <3>1, <3>2, <3>3 DEF Contract!Record
    <3> QED BY <2>2, <3>4 DEF Contract!Promised
  <2>3. CASE ~Firm(b)
    BY <2>1, <2>3 DEF Contract!Anew
  <2> QED BY <2>2, <2>3
<1>6. \A a \in Agents : Firm(a)' => IF Firm(a) THEN Contract!Promised(a) ELSE Contract!Anew(a)
  BY <1>4, <1>5
<1> QED BY <1>1, <1>6, ContractTakes

\* A statement that throws loses the record, or nothing.
LEMMA StepThrow ==
    ASSUME NEW p \in Procs, Inv, Inv', Throw(p)
    PROVE  Contract!Next
<1>1. /\ pc[p] # "idle" /\ End(p) /\ control' = control /\ timeline' = timeline
      /\ faults' = faults + 1
  BY DEF Throw
<1>2. pc'[p] = "idle" /\ OnlyMoves(p)
  BY <1>1, InvEnd, SameRowsGrow DEF OnlyMoves, Inv
<1>3. PICK b \in Agents : b = loc[p].agent
  BY <1>1 DEF Inv, TInv, TypeOK, Works
<1>4. ASSUME NEW a \in Agents, Firm(a)', a # b PROVE Firm(a) /\ Contract!Promised(a)
  <2>1. Undoable(a)' = Undoable(a)
    BY <1>1, UnchangedLog
  <2> QED BY <1>1, <1>2, <1>3, <1>4, <2>1, StaysElsewhere
<1>5. ASSUME Firm(b)' PROVE IF Firm(b) THEN Contract!Promised(b) ELSE Contract!Anew(b)
  <2>1. Pending(b)' = "none"
    BY <1>1, <1>2, <1>3, <1>5, NonePending
  <2>2. Undoable(b)' = Undoable(b)
    BY <1>1, UnchangedLog
  <2>3. CASE Firm(b)
    <3>1. Contract!Lose(b)
      BY <1>1, <2>1, <2>2 DEF Contract!Lose
    <3> QED BY <2>3, <3>1 DEF Contract!Promised
  <2>4. CASE ~Firm(b)
    BY <2>1, <2>4 DEF Contract!Anew
  <2> QED BY <2>3, <2>4
<1>6. \A a \in Agents : Firm(a)' => IF Firm(a) THEN Contract!Promised(a) ELSE Contract!Anew(a)
  BY <1>4, <1>5
<1> QED BY <1>1, <1>6, ContractTakes

ContractStep == [Contract!Next]_(Contract!vars)

\* Whatever requests run at once, whatever statements fail and however long the history is,
\* the switch and its audit rows implement ControlContract: of an agent whose requests do
\* not overlap, a recorded turn is undone at most once and only while it is the last one.
THEOREM ContractImplemented == Spec => ImplementsContract
<1>1. Spec => []Inv
  BY InvInit, InvStep, PTL DEF Spec
<1>2. ASSUME Inv, Inv', [Next]_vars PROVE ContractStep
  <2>1. ASSUME NEW p \in Procs, Request(p) PROVE Contract!Next
    <3>1. \E at \in {"current", "upsert"} : \E work : Start(p, at, work)
      BY <2>1 DEF Request, PauseOrResume, UndoAction
    <3> QED BY <1>2, <3>1, StepStart
  <2>2. ASSUME NEW p \in Procs, ReadCurrent(p) PROVE Contract!Next
    BY <1>2, <2>2, StepReadCurrent
  <2>3. ASSUME NEW p \in Procs, Upsert(p) PROVE Contract!Next
    BY <1>2, <2>3, StepUpsert
  <2>4. ASSUME NEW p \in Procs, LogAction(p) PROVE Contract!Next
    BY <1>2, <2>4, StepLog
  <2>5. ASSUME NEW p \in Procs, Throw(p) PROVE Contract!Next
    BY <1>2, <2>5, StepThrow
  <2>6. CASE UNCHANGED vars
    <3>1. /\ timeline' = timeline /\ pc' = pc /\ loc' = loc /\ control' = control
          /\ faults' = faults /\ overlapped' = overlapped
      BY <2>6 DEF vars
    <3>2. [a \in Agents |-> Undoable(a)]' = [a \in Agents |-> Undoable(a)]
      BY <3>1, UnchangedLog
    <3>3. [a \in Agents |-> Pending(a)]' = [a \in Agents |-> Pending(a)]
      BY <3>1 DEF Pending
    <3>4. [a \in Agents |-> Firm(a)]' = [a \in Agents |-> Firm(a)]
      BY <3>1 DEF Firm
    <3> QED BY <3>1, <3>2, <3>3, <3>4 DEF ContractStep, Contract!vars
  <2> QED BY <1>2, <2>1, <2>2, <2>3, <2>4, <2>5, <2>6 DEF Next, ContractStep
<1> QED BY <1>1, <1>2, ContractInit, PTL DEF Spec, ImplementsContract, Contract!Spec, ContractStep
=============================================================================
