------------------------------- MODULE MCAiSdr -------------------------------
(* Instances of AiSdr for TLC. *)
EXTENDS AiSdr, TLC

CONSTANTS p1, p2, e1, e2

TwoProcs == {p1, p2}
OneEvent == {e1}
TwoEvents == {e1, e2}
PositiveReply == [e \in {e1} |-> "POSITIVE"]
PositiveThenUnsubscribe == [e \in {e1, e2} |-> IF e = e1 THEN "POSITIVE" ELSE "UNSUBSCRIBE"]

AllPurposes == DRAFT_PURPOSES
ThreePurposes == {"outreach", "reply", "meeting"}

SendAndSync == {"draft", "approve", "send", "crm", "candidate"}
SendAndStop == {"draft", "approve", "revoke", "send", "admin_reply", "meeting", "pause"}
SendAndReply == {"draft", "approve", "send", "reply", "reject"}
ApproveAndReject == {"draft", "approve", "reject"}
OnlyReplies == {"admin_reply"}
SendAndStopped == {"draft", "approve", "send", "admin_reply"}

Interchangeable == Permutations({p1, p2})
==============================================================================
