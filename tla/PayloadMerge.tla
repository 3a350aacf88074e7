---------------------------- MODULE PayloadMerge -----------------------------
(***************************************************************************)
(* payload-merge.ts: what a brain's payload becomes when it is regenerated,  *)
(* and how an edit marks what it touched.  A payload says of each field who  *)
(* wrote its text; a field is a scalar section (icp, messagingSummary) or an *)
(* id of one of the list sections.  The order of a list is left out.         *)
(***************************************************************************)
CONSTANTS
    Scalars,  \* icp, messagingSummary
    Lists,    \* personas, painPoints, competitors, qualificationRules
    Items,    \* ids of list items
    ListOf    \* [Items -> Lists]

ASSUME FieldsAssumption ==
    /\ Scalars \intersect Items = {}
    /\ ListOf \in [Items -> Lists]

Fields == Scalars \union Items
Authors == {"none", "ai", "human"}  \* none: an empty section, an id not in its list
Texts == [Fields -> Authors]

Overrides == [sections : SUBSET Scalars, items : SUBSET Items, suppressed : SUBSET Items,
              whole : SUBSET Lists]

NoText == [f \in Fields |-> "none"]
NoOverrides == [sections |-> {}, items |-> {}, suppressed |-> {}, whole |-> {}]

Whole(i, over) == ListOf[i] \in over.whole

------------------------------------------------------------------------------
(* mergeGeneratedPayload and mergeList.  Before the first analysis and edit  *)
(* there is neither a payload nor an override, and all of generated is taken. *)

\* Ids of the merged lists that keep the current item, and those that take the generated.
KeepsCurrent(over) == {i \in Items : Whole(i, over) \/ i \in over.items \ over.suppressed}
TakesSuppressed(over) == {i \in Items : ~Whole(i, over) /\ i \notin over.items}  \* mutant
TakesGenerated(over) ==
    {i \in Items : ~Whole(i, over) /\ i \notin over.items \union over.suppressed}

KeepEdited(current, generated, over) ==  \* mutant: an edited payload is not regenerated
    IF over = NoOverrides THEN generated ELSE current

Merge(current, generated, over) ==
    [f \in Fields |->
        CASE f \in over.sections \union KeepsCurrent(over) -> current[f]
          [] f \in (Scalars \ over.sections) \union TakesGenerated(over) -> generated[f]
          [] OTHER -> "none"]

------------------------------------------------------------------------------
(* What an edit marks.                                                      *)
MarkSections(over, sections) == [over EXCEPT !.sections = @ \union sections]

MarkItem(over, i) ==
    [over EXCEPT !.items = @ \union {i}, !.suppressed = @ \ {i}]

MarkSuppressed(over, i) ==
    [over EXCEPT !.suppressed = @ \union {i}, !.items = @ \ {i}]

\* Each list of retained is replaced: retained[l] are its new ids, previous the old ones
\* of all lists.  An id that was suppressed stays so even when it is retained.
MarkWholeLists(over, retained, previous) ==
    LET replaced == {i \in Items : ListOf[i] \in DOMAIN retained}
        kept == UNION {retained[l] : l \in DOMAIN retained}
    IN  [over EXCEPT !.whole = @ \union DOMAIN retained,
                     !.items = (@ \ replaced) \union kept,
                     !.suppressed = @ \union ((previous \intersect replaced) \ kept)]

------------------------------------------------------------------------------
(* The human edits of a brain, each a change of its text and its overrides. *)
NoLists == [l \in {} |-> {}]

\* dto.id or a new id: upsertPersona, upsertQualificationRule.
Upserted(text, over, i) ==
    [text |-> [text EXCEPT ![i] = "human"], over |-> MarkItem(over, i)]

Removed(text, over, i) ==
    [text |-> [text EXCEPT ![i] = "none"], over |-> MarkSuppressed(over, i)]

\* patchBrain and patchMessaging: sections are edited, lists are replaced.
Patched(text, over, sections, retained) ==
    [text |-> [f \in Fields |->
                  IF f \in sections THEN "human"
                  ELSE IF f \in Items /\ ListOf[f] \in DOMAIN retained
                       THEN (IF f \in retained[ListOf[f]] THEN "human" ELSE "none")
                       ELSE text[f]],
     over |-> MarkWholeLists(MarkSections(over, sections), retained,
                             {i \in Items : text[i] # "none"})]
==============================================================================
