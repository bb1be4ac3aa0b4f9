----------------------------- MODULE ScenePaging -----------------------------
(***************************************************************************)
(* How the direct Rhino gateway reads a scene (rhinomcp_transport.py): a   *)
(* loop of get_objects calls, each answered from the document as it is     *)
(* then.  scene_index and the reads around a transaction (_scene_unlocked) *)
(* end their loops by different rules.  RhinoGateway takes such a read as  *)
(* one step; this module looks inside it.                                  *)
(***************************************************************************)
EXTENDS Naturals, Sequences

CONSTANTS
    Ids,         \* objects that may ever exist
    Documents,   \* the documents a read may start with, sequences over Ids
    Cap,         \* most objects the plug-in puts in one response, 200
    PageSize,    \* page_size of scene_index
    MaxObjects,  \* max_objects of scene_index
    ReadLimit,   \* limit of the reads around a transaction, 1000
    GivesTotal,  \* responses carry total_matching or total_count
    MaxEdits     \* bound on edits by a person while the read goes on

ASSUME PagingAssumption ==
    /\ Documents \subseteq Seq(Ids)
    /\ Cap \in Nat \ {0} /\ PageSize \in Nat \ {0} /\ MaxObjects \in Nat \ {0}
    /\ ReadLimit \in Nat \ {0}
    /\ GivesTotal \in BOOLEAN
    /\ MaxEdits \in Nat

VARIABLES
    doc,        \* Rhino's object table
    reader,     \* which loop reads it
    pc,
    offset,     \* objects asked for so far
    objects,    \* objects received, in order
    truncated,  \* scene_index: the scene says that it is not whole
    start,      \* history: the document when the read began
    past,       \* history: objects that were in the document during the read
    edits       \* history: what was done to the document during the read

locals == <<reader, pc, offset, objects, truncated>>
vars == <<doc, locals, start, past, edits>>

Elements(s) == {s[i] : i \in DOMAIN s}
Least(m, n) == IF m < n THEN m ELSE n

Init ==
    /\ doc \in Documents
    /\ reader \in {"scene_index", "transaction"}
    /\ pc = "paging"
    /\ offset = 0
    /\ objects = <<>>
    /\ truncated = FALSE
    /\ start = doc
    /\ past = Elements(doc)
    /\ edits = <<>>

----------------------------------------------------------------------------
(* The loops *)

\* What the plug-in answers to get_objects.
Page(limit) == SubSeq(doc, offset + 1, Least(offset + Least(limit, Cap), Len(doc)))

Take_OffsetByLimit(batch) ==
    /\ objects' = objects \o batch
    /\ offset' = offset + PageSize

Take(batch) ==
    /\ objects' = objects \o batch
    /\ offset' = offset + Len(batch)

\* With a total the loop ends when it is reached, without one at a short page.
IndexEnds_OnShortPage(batch, limit) == Len(batch) < limit
IndexEnds_OnTotalOnly(batch, limit) == Len(batch) > 0 /\ offset + Len(batch) = Len(doc)
IndexEnds(batch, limit) ==
    \/ batch = <<>>
    \/ GivesTotal /\ offset + Len(batch) >= Len(doc)
    \/ ~GivesTotal /\ Len(batch) < limit

Full_AlsoAtEnd(batch, limit) == Len(objects) + Len(batch) >= MaxObjects
Full(batch, limit) == ~IndexEnds(batch, limit) /\ Len(objects) + Len(batch) >= MaxObjects

IndexPage ==
    /\ pc = "paging" /\ reader = "scene_index"
    /\ LET limit == Least(PageSize, MaxObjects - Len(objects))
           batch == Page(limit)
       IN /\ Take(batch)
          /\ truncated' = Full(batch, limit)
          /\ pc' = IF IndexEnds(batch, limit) \/ Full(batch, limit) THEN "returned" ELSE "paging"
    /\ UNCHANGED <<doc, reader, start, past, edits>>

TransactionEnds(batch) ==
    \/ Len(batch) < ReadLimit
    \/ GivesTotal /\ offset + Len(batch) >= Len(doc)

TransactionPage ==
    /\ pc = "paging" /\ reader = "transaction"
    /\ LET batch == Page(ReadLimit) IN
          /\ Take(batch)
          /\ pc' = IF TransactionEnds(batch) THEN "returned" ELSE "paging"
    /\ UNCHANGED <<doc, reader, truncated, start, past, edits>>

----------------------------------------------------------------------------
(* A person edits the document between two pages *)

Editable == pc = "paging" /\ Len(edits) < MaxEdits

\* A new object may come anywhere in the object table.
CreateObject(i, n) ==
    /\ Editable
    /\ i \notin past
    /\ doc' = SubSeq(doc, 1, n) \o <<i>> \o SubSeq(doc, n + 1, Len(doc))
    /\ past' = past \cup {i}
    /\ edits' = Append(edits, "create")
    /\ UNCHANGED <<locals, start>>

DeleteObject(n) ==
    /\ Editable
    /\ doc' = SubSeq(doc, 1, n - 1) \o SubSeq(doc, n + 1, Len(doc))
    /\ edits' = Append(edits, "delete")
    /\ UNCHANGED <<locals, start, past>>

Returned == pc = "returned" /\ UNCHANGED vars

Next ==
    \/ IndexPage
    \/ TransactionPage
    \/ \E i \in Ids, n \in 0..Len(doc) : CreateObject(i, n)
    \/ \E n \in DOMAIN doc : DeleteObject(n)
    \/ Returned

Spec == Init /\ [][Next]_vars

\* Every get_objects call is answered or ends the read with an exception.
FairSpec == Spec /\ WF_vars(IndexPage \/ TransactionPage)

----------------------------------------------------------------------------
(* Properties *)

TypeOK ==
    /\ doc \in Seq(Ids) /\ start \in Seq(Ids) /\ objects \in Seq(Ids)
    /\ reader \in {"scene_index", "transaction"}
    /\ pc \in {"paging", "returned"}
    /\ offset \in 0..Len(objects)
    /\ truncated \in BOOLEAN
    /\ past \subseteq Ids
    /\ edits \in Seq({"create", "delete"})

Undeleted == "delete" \notin Elements(edits)

\* Objects that were there from the beginning to the end of the read are in it.
IsWhole == Elements(start) \subseteq Elements(objects)

\* scene_index reads every object or says that it is truncated, whatever the
\* plug-in's cap and whatever is created meanwhile; a deletion may hide objects.
IndexIsWhole ==
    pc = "returned" /\ reader = "scene_index" /\ GivesTotal /\ Undeleted
    => truncated \/ IsWhole

\* An unedited document is read in order, each object once and none invented;
\* and truncated is said only of a scene with max_objects objects and more left.
ReadsInOrder ==
    /\ Elements(objects) \subseteq past
    /\ edits = <<>> => objects = SubSeq(doc, 1, Len(objects))
    /\ truncated /\ edits = <<>> /\ GivesTotal => Len(objects) = MaxObjects /\ Len(objects) < Len(doc)

\* Every read ends: a page brings objects or ends the loop.
ReadEnds == <>(pc = "returned")

\* rhinomcp_transport.py: a short page is not an end-of-results signal when the
\* server supplies a matching total.  The reads around a transaction read every
\* object of the document.
TransactionIsWhole ==
    pc = "returned" /\ reader = "transaction" /\ GivesTotal /\ Undeleted => IsWhole
=============================================================================
