--------------------------- MODULE SerialDocument ---------------------------
(***************************************************************************)
(* What a gateway promises about the document it serialises: batches       *)
(* happen one at a time and each at one moment.  A receipt names exactly   *)
(* the changes its own batch made at that moment, and a batch that named a *)
(* revision made them to that revision.  Unless somebody else writes to    *)
(* the document, readers are answered with, and exports write, what whole  *)
(* batches have left, and a new document is opened between two batches.    *)
(***************************************************************************)

CONSTANTS
    Batches, Visits, Readers,
    Start, Saved,   \* the document at first, and the one a visit opens
    Delta(_, _),    \* what two documents differ in
    Disturbed,      \* whether somebody else may write to the document
    None

VARIABLES
    document,  \* the document as the batches that ended have left it
    evidence,  \* batch -> the revision it named and the changes it reported
    silent,    \* batches and visits that ended without saying what they did
    current,   \* the visit that opened this document
    told,      \* reader -> the document it was answered with
    exported   \* the document in the exported file

vars == <<document, evidence, silent, current, told, exported>>

Init ==
    /\ document = Start
    /\ evidence = [b \in {} |-> None]
    /\ silent = {}
    /\ current = None
    /\ told = [r \in {} |-> None]
    /\ exported = None

Running(b) == b \in Batches \ (DOMAIN evidence \cup silent)

\* A batch happens and is reported; one that named a revision happens to that
\* revision or does nothing.
Report(b) ==
    /\ Running(b)
    /\ DOMAIN evidence' = DOMAIN evidence \cup {b}
    /\ \A d \in DOMAIN evidence : evidence'[d] = evidence[d]
    /\ evidence'[b].changes = Delta(document, document')
    /\ evidence'[b].revision \in {None, document} \/ document' = document
    /\ UNCHANGED <<silent, current, told, exported>>

\* A batch happens, in whole or in part, and nobody is told what it did.
EndSilently(b) ==
    /\ Running(b)
    /\ silent' = silent \cup {b}
    /\ UNCHANGED <<evidence, current, told, exported>>

Fail(v) ==
    /\ v \in Visits
    /\ silent' = silent \cup {v}
    /\ UNCHANGED <<document, evidence, current, told, exported>>

Open(v) ==
    /\ v \in Visits \ silent
    /\ current' = v
    /\ document' = Saved
    /\ UNCHANGED <<evidence, silent, told, exported>>

Export ==
    /\ exported' = document
    /\ UNCHANGED <<document, evidence, silent, current, told>>

\* A reader is answered with the document; but with any if the visit that
\* opened this one failed in its caller's eyes.
Answer(r) ==
    /\ r \in Readers \ DOMAIN told
    /\ DOMAIN told' = DOMAIN told \cup {r}
    /\ \A q \in DOMAIN told : told'[q] = told[q]
    /\ told'[r] = document \/ current \in silent \/ Disturbed
    /\ UNCHANGED <<document, evidence, silent, current, exported>>

\* Somebody else writes to the document, opens another or exports.
Disturb ==
    /\ Disturbed
    /\ UNCHANGED <<evidence, silent, told>>

Next ==
    \/ \E b \in Batches : Report(b) \/ EndSilently(b)
    \/ \E v \in Visits : Fail(v) \/ Open(v)
    \/ \E r \in Readers : Answer(r)
    \/ Export \/ Disturb

Spec == Init /\ [][Next]_vars
=============================================================================
