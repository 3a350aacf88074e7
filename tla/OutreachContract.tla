--------------------------- MODULE OutreachContract ---------------------------
(***************************************************************************)
(* What approval-first outreach promises, without its tables and requests:  *)
(* a draft can be sent only after it was approved, a request commits to     *)
(* sending only while the sequence has not stopped, and a stop is final.    *)
(* A request that committed before the stop may still hand its e-mail over. *)
(***************************************************************************)
CONSTANTS Procs, Drafts, None

VARIABLES
    approved,   \* drafts approved at some time
    committed,  \* [Procs -> the draft a request is about to hand over, or None]
    delivered,  \* drafts whose e-mail was handed over
    stopped

vars == <<approved, committed, delivered, stopped>>

Init ==
    /\ approved = {}
    /\ committed = [p \in Procs |-> None]
    /\ delivered = {}
    /\ stopped = FALSE

Approve(v) ==
    /\ approved' = approved \union {v}
    /\ UNCHANGED <<committed, delivered, stopped>>

Commit(p, v) ==
    /\ ~stopped
    /\ v \in approved
    /\ committed[p] = None
    /\ committed' = [committed EXCEPT ![p] = v]
    /\ UNCHANGED <<approved, delivered, stopped>>

HandOver(p) ==
    /\ committed[p] # None
    /\ delivered' = delivered \union {committed[p]}
    /\ committed' = [committed EXCEPT ![p] = None]
    /\ UNCHANGED <<approved, stopped>>

Abandon(gone) ==
    /\ committed' = [p \in Procs |-> IF p \in gone THEN None ELSE committed[p]]
    /\ UNCHANGED <<approved, delivered, stopped>>

Stop ==
    /\ stopped' = TRUE
    /\ UNCHANGED <<approved, committed, delivered>>

Next ==
    \/ \E v \in Drafts : Approve(v)
    \/ \E p \in Procs, v \in Drafts : Commit(p, v)
    \/ \E p \in Procs : HandOver(p)
    \/ \E gone \in SUBSET Procs : Abandon(gone)
    \/ Stop

Spec == Init /\ [][Next]_vars
==============================================================================
