----------------------------- MODULE MCWorkflow -----------------------------
(* Instance of Workflow for TLC: what clients ask, with one key. *)
EXTENDS Workflow

CONSTANTS r1, r2, a, n

Ask(kind, key, dry, focus, tainted) ==
    [kind |-> kind, target |-> a, key |-> key, dry |-> dry, focus |-> focus, tainted |-> tainted]

Asked ==
    {Ask("create", "k", FALSE, Ids, FALSE), Ask("modify", "k", FALSE, Ids, FALSE),
     Ask("delete", "k", FALSE, Ids, FALSE), Ask("layer", "k", FALSE, Runs, TRUE),
     Ask("modify", "k", TRUE, Ids, FALSE),
     Ask("modify", None, FALSE, Ids, FALSE), Ask("inspect", None, FALSE, Ids, FALSE),
     Ask("invalid", None, FALSE, Ids, FALSE)}

First == [i \in Ids |-> IF i = a THEN 1 ELSE 0]
=============================================================================
