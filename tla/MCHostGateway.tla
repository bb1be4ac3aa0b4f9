---------------------------- MODULE MCHostGateway ----------------------------
(* Small instances of HostGateway for TLC. *)
EXTENDS HostGateway, TLC

CONSTANTS png, apart

\* render edits the scene and writes an image.
Steps ==
    [render |-> <<"edit", png>>,
     paint  |-> <<"edit", "edit">>,
     move   |-> <<"edit">>]
MCScripts == [p \in Payloads |-> Steps[p]]

\* Every call under one key, or one call under a key of its own.
OneKey == [c \in Calls |-> IF c = apart THEN "other" ELSE "k"]

Symmetry == Permutations(Calls \ {apart}) \cup Permutations(Queries)
=============================================================================
