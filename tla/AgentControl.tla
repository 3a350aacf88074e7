----------------------------- MODULE AgentControl -----------------------------
(***************************************************************************)
(* The agents' pause switch: pauseAgent, resumeAgent and undoAction of      *)
(* src/agent-control/agent-control.service.ts.  The switch is one row per   *)
(* agent; what can be undone is not stored but computed from the audit rows *)
(* of the tenant, which every change adds in a statement of its own.  An    *)
(* audit row is named by its place in the timeline (createdAt, then id).    *)
(* Any number of requests run at once, and nothing keeps them apart.        *)
(***************************************************************************)
EXTENDS Integers, Sequences

CONSTANTS
    Procs,      \* concurrent requests
    Agents,     \* research_agent and ai_sdr
    Window,     \* rows loadControlUndoContext takes: 2000
    MaxActions, \* bound: changes in the life of a tenant
    MaxFaults   \* bound: audit or upsert statements that throw

ASSUME ControlAssumption ==
    Window \in Nat \ {0} /\ MaxActions \in Nat /\ MaxFaults \in Nat

States == {"ACTIVE", "PAUSED"}

VARIABLES
    control,   \* [Agents -> States]: the row, ACTIVE when there is none
    timeline,  \* audit rows of the tenant's control actions, oldest first
    pc, loc,   \* next statement and locals of each request
    overlapped, \* history: the requests that met another of their agent on their way
    faults

vars == <<control, timeline, pc, loc, overlapped, faults>>

\* read is history: the number of rows that there were when an undo read them.
Works == [agent : Agents, before : States, to : States, undoOf : Nat, read : Nat]
NoWork == "none"

\* An audit row: a pause, a resume, or the undo of row undoOf.
Rows == [agent : Agents, action : {"agent_control_paused", "agent_control_resumed",
                                   "agent_control_undo"},
         before : States, undoOf : Nat]

------------------------------------------------------------------------------
(* What may be undone.                                                      *)
isControlMutationReversible(row) ==
    row.action \in {"agent_control_paused", "agent_control_resumed"}

\* findMany oldest first, take Window.
Seen == {i \in 1 .. Len(timeline) : i <= Window}

Undone(i) == \E j \in Seen : timeline[j].undoOf = i

\* The loop of computeLatestEligibleControlActions, one row; 0 stands for null.
ScanRow(latest, i) ==
    LET row == timeline[i]
    IN  [latest EXCEPT ![row.agent] =
            IF isControlMutationReversible(row) THEN i
            ELSE IF @ = row.undoOf THEN 0 ELSE @]
Scan ==
    LET read == IF Len(timeline) < Window THEN Len(timeline) ELSE Window
        latest[i \in 0 .. read] ==
            IF i = 0 THEN [a \in Agents |-> 0] ELSE ScanRow(latest[i - 1], i)
    IN  latest[read]

AnySeen(a, i) ==  \* mutant: whatever was not undone may be undone
    i \in Seen /\ timeline[i].agent = a /\ isControlMutationReversible(timeline[i]) /\ ~Undone(i)

\* latestEligibleByAgent.get(a) = i, and undoneMap does not hold i.
LatestEligible(a, i) == Scan[a] = i /\ ~Undone(i)

------------------------------------------------------------------------------
(* pauseAgent, resumeAgent, undoAction: read, upsert the row, log the action. *)
Busy(a) == {p \in Procs : pc[p] # "idle" /\ loc[p].agent = a}

Start(p, at, work) ==
    /\ pc[p] = "idle"
    /\ pc' = [pc EXCEPT ![p] = at]
    /\ loc' = [loc EXCEPT ![p] = work]
    /\ overlapped' = IF Busy(work.agent) = {} THEN overlapped
                     ELSE overlapped \union Busy(work.agent) \union {p}
    /\ UNCHANGED <<control, timeline, faults>>

\* An agent already in the state asked for is an answer without effect.
PauseOrResume(p, a, to) ==
    /\ Len(timeline) < MaxActions
    /\ control[a] # to
    /\ Start(p, "upsert", [agent |-> a, before |-> control[a], to |-> to, undoOf |-> 0,
                           read |-> 0])

\* A repeated undo is an answer without effect, a superseded action a conflict (409).
UndoAction(p, i) ==
    /\ Len(timeline) < MaxActions
    /\ LatestEligible(timeline[i].agent, i)
    /\ Start(p, "current", [agent |-> timeline[i].agent, before |-> timeline[i].before,
                            to |-> timeline[i].before, undoOf |-> i, read |-> Len(timeline)])

\* An undo reads the state it replaces after the rows, for its audit row only.
ReadCurrent(p) ==
    /\ pc[p] = "current"
    /\ pc' = [pc EXCEPT ![p] = "upsert"]
    /\ loc' = [loc EXCEPT ![p].before = control[loc[p].agent]]
    /\ UNCHANGED <<control, timeline, overlapped, faults>>

UpsertUndone(p) ==  \* mutant: an undo is a state of its own
    /\ pc[p] = "upsert"
    /\ control' = [control EXCEPT ![loc[p].agent] = IF loc[p].undoOf # 0 THEN "UNDONE" ELSE loc[p].to]
    /\ pc' = [pc EXCEPT ![p] = "log"]
    /\ UNCHANGED <<timeline, loc, overlapped, faults>>
Upsert(p) ==
    /\ pc[p] = "upsert"
    /\ control' = [control EXCEPT ![loc[p].agent] = loc[p].to]
    /\ pc' = [pc EXCEPT ![p] = "log"]
    /\ UNCHANGED <<timeline, loc, overlapped, faults>>

ActionOf(work) ==
    IF work.undoOf # 0 THEN "agent_control_undo"
    ELSE IF work.to = "PAUSED" THEN "agent_control_paused" ELSE "agent_control_resumed"

End(p) ==
    /\ pc' = [pc EXCEPT ![p] = "idle"]
    /\ loc' = [loc EXCEPT ![p] = NoWork]
    /\ overlapped' = overlapped \ {p}

LogUntold(p) ==  \* mutant: the row does not tell what it undid
    /\ pc[p] = "log"
    /\ timeline' = Append(timeline, [agent |-> loc[p].agent, action |-> ActionOf(loc[p]),
                                     before |-> loc[p].before, undoOf |-> 0])
    /\ End(p)
    /\ UNCHANGED <<control, faults>>
LogAction(p) ==
    /\ pc[p] = "log"
    /\ timeline' = Append(timeline, [agent |-> loc[p].agent, action |-> ActionOf(loc[p]),
                                     before |-> loc[p].before, undoOf |-> loc[p].undoOf])
    /\ End(p)
    /\ UNCHANGED <<control, faults>>

\* The pending statement throws, or the process ends before it.
Throw(p) ==
    /\ faults < MaxFaults
    /\ pc[p] # "idle"
    /\ faults' = faults + 1
    /\ End(p)
    /\ UNCHANGED <<control, timeline>>

Init ==
    /\ control = [a \in Agents |-> "ACTIVE"]
    /\ timeline = <<>>
    /\ pc = [p \in Procs |-> "idle"]
    /\ loc = [p \in Procs |-> NoWork]
    /\ overlapped = {}
    /\ faults = 0

Request(p) ==
    \/ \E a \in Agents, to \in States : PauseOrResume(p, a, to)
    \/ \E i \in 1 .. Len(timeline) : UndoAction(p, i)

Next ==
    \E p \in Procs : Request(p) \/ ReadCurrent(p) \/ Upsert(p) \/ LogAction(p) \/ Throw(p)

Spec == Init /\ [][Next]_vars

------------------------------------------------------------------------------
\* Types; a row undoes a row before it.
TypeOK ==
    /\ control \in [Agents -> States]
    /\ timeline \in Seq(Rows)
    /\ \A i \in 1 .. Len(timeline) : timeline[i].undoOf < i
    /\ pc \in [Procs -> {"idle", "current", "upsert", "log"}]
    /\ \A p \in Procs : IF pc[p] = "idle" THEN loc[p] = NoWork ELSE loc[p] \in Works
    /\ overlapped \subseteq Procs
    /\ faults \in Nat

\* "Superseded historical control mutations ... must not overwrite newer user intent": an
\* undo writes the switch over a newer pause or resume of its agent only if that one was
\* recorded after the undo had read the rows, or lies outside the window that it reads.
\* Neither is prevented: no lock and no condition ties the write to the read.
IntentAfter(p) ==
    {j \in loc[p].undoOf + 1 .. Len(timeline) :
        timeline[j].agent = loc[p].agent /\ isControlMutationReversible(timeline[j])}
UndoKeepsNewerIntent ==
    [][\A p \in Procs : pc[p] = "upsert" /\ pc'[p] = "log" /\ loc[p].undoOf # 0 =>
         \A j \in IntentAfter(p) : j > loc[p].read \/ j > Window]_vars

\* Violated: without the two exceptions, an undo does not turn the switch back to where a
\* newer pause or resume of its agent had turned it from.
NewerIntentIsSafe ==
    [][\A p \in Procs : pc[p] = "upsert" /\ pc'[p] = "log" /\ loc[p].undoOf # 0 =>
         \A j \in IntentAfter(p) : timeline[j].before # loc[p].to]_vars

\* What an undo of agent a would restore.
Undoable(a) ==
    LET i == Scan[a]
    IN  IF i # 0 /\ ~Undone(i) THEN timeline[i].before ELSE "nothing"

\* What it will restore once the change that is not logged yet is.
Pending(a) ==
    IF \E p \in Procs : pc[p] = "log" /\ loc[p].agent = a
    THEN LET p == CHOOSE q \in Procs : pc[q] = "log" /\ loc[q].agent = a
         IN  IF loc[p].undoOf = 0 THEN loc[p].before ELSE "nothing"
    ELSE "none"

\* The contract of an agent stands while its requests come one after another and the rows
\* fit the window: what another agent's requests do does not touch it.
Firm(a) == Len(timeline) <= Window /\ \A p \in overlapped : loc[p].agent # a

\* The audit rows serve as the memory of one undoable turn of each agent's switch, through
\* statements that fail and requests to other agents, and do so again when the requests
\* of an agent that overlapped have ended.
Contract == INSTANCE ControlContract WITH
    state <- control,
    undoable <- [a \in Agents |-> Undoable(a)],
    pending <- [a \in Agents |-> Pending(a)],
    firm <- [a \in Agents |-> Firm(a)],
    lost <- faults
ImplementsContract == Contract!Spec
==============================================================================
