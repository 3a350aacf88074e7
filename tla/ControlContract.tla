---------------------------- MODULE ControlContract ----------------------------
(***************************************************************************)
(* What the pause switch of an agent promises its operator, without audit   *)
(* rows: the switch can be turned; a turn that was recorded is the one an   *)
(* undo takes back, once, and only the last one can be.  The promise to an  *)
(* agent's operator is suspended while it is not firm and made anew, from   *)
(* whatever state the switch is left in, when it is firm again.             *)
(***************************************************************************)
EXTENDS Naturals

CONSTANTS Agents

VARIABLES
    state,     \* [Agents -> "ACTIVE" or "PAUSED"]
    undoable,  \* the state an undo would restore, "nothing" if there is none
    pending,   \* what undoable becomes once the turn is recorded, "none" if it is
    firm,      \* [Agents -> BOOLEAN]
    lost       \* requests that failed half-way

vars == <<state, undoable, pending, firm, lost>>

Init ==
    /\ state = [a \in Agents |-> "ACTIVE"]
    /\ undoable = [a \in Agents |-> "nothing"]
    /\ pending = [a \in Agents |-> "none"]
    /\ firm = [a \in Agents |-> TRUE]
    /\ lost = 0

Same(a) == state'[a] = state[a] /\ undoable'[a] = undoable[a] /\ pending'[a] = pending[a]

Turn(a, to) ==
    /\ state[a] # to
    /\ state'[a] = to
    /\ pending'[a] = state[a]
    /\ undoable'[a] = undoable[a] /\ lost' = lost

Undo(a) ==
    /\ undoable[a] # "nothing"
    /\ state'[a] = undoable[a]
    /\ pending'[a] = "nothing"
    /\ undoable'[a] = undoable[a] /\ lost' = lost

Record(a) ==
    /\ pending[a] # "none"
    /\ undoable'[a] = pending[a]
    /\ pending'[a] = "none"
    /\ state'[a] = state[a] /\ lost' = lost

\* A turn whose record is lost cannot be undone, and leaves the one before undoable.
Lose(a) ==
    /\ pending'[a] = "none"
    /\ lost' = lost + 1
    /\ state'[a] = state[a] /\ undoable'[a] = undoable[a]

Promised(a) ==
    \/ Same(a)
    \/ Turn(a, "PAUSED")
    \/ Turn(a, "ACTIVE")
    \/ Undo(a)
    \/ Record(a)
    \/ Lose(a)

\* No turn is half-way when the promise is made anew.
Anew(a) == pending'[a] = "none"

Next ==
    /\ \A a \in Agents : firm'[a] => IF firm[a] THEN Promised(a) ELSE Anew(a)
    /\ lost' \in {lost, lost + 1}

Spec == Init /\ [][Next]_vars
==============================================================================
