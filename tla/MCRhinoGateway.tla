--------------------------- MODULE MCRhinoGateway ---------------------------
(* Small instances of RhinoGateway for TLC. *)
EXTENDS RhinoGateway, TLC

CONSTANTS i0, i1, i2, i3, a0, a1, other

\* wall: a pre-existing object; post: created by the batch, then referred to.
Batches ==
    [post  |-> <<[op |-> "create", bind |-> a0, target |-> None]>>,
     label |-> <<[op |-> "create", bind |-> a0, target |-> None],
                 [op |-> "update", bind |-> a1, target |-> a0]>>,
     move  |-> <<[op |-> "transform", bind |-> a0, target |-> i0]>>,
     swap  |-> <<[op |-> "delete", bind |-> a0, target |-> i0],
                 [op |-> "derive", bind |-> a1, target |-> i1]>>,
     paint |-> <<[op |-> "update", bind |-> a0, target |-> i0],
                 [op |-> "create", bind |-> a1, target |-> None]>>,
     pair  |-> <<[op |-> "create", bind |-> a0, target |-> None],
                 [op |-> "update", bind |-> a1, target |-> i0]>>,
     odd   |-> <<[op |-> "derive", bind |-> a0, target |-> i0]>>]

MCCommands == [p \in Payloads |-> Batches[p]]

\* v1 exports, v2 opens the working document, v3 looks at the viewport.
CONSTANTS v1, v2, v3
Kinds == [v \in Visits |-> CASE v = v1 -> "export" [] v = v2 -> "open" [] OTHER -> "viewport"]
Saved == [i \in {i0} |-> 10]

\* One key for every call, or one call without a key.
OneKey == [c \in Calls |-> "k"]
OneKeyless == [c \in Calls |-> IF c = other THEN None ELSE "k"]

\* Calls of one key are interchangeable, and so are the ids Rhino has not used.
Symmetry == Permutations(Calls \ {other}) \cup Permutations(Queries) \cup Permutations(Ids \ InitialObjects)
=============================================================================
