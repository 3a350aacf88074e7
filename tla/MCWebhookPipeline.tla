-------------------------- MODULE MCWebhookPipeline --------------------------
(* Instances of WebhookPipeline for TLC. *)
EXTENDS WebhookPipeline, TLC

CONSTANTS p1, p2, w1, w2, n1, id1

TwoRequests == {p1, p2}
TwoWorkers == {w1, w2}
OneNotice == {n1}
OneId == {id1}
IdOfOne == [n \in {n1} |-> id1]

Interchangeable == Permutations({p1, p2}) \union Permutations({w1, w2})
==============================================================================
