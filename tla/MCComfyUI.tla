------------------------------ MODULE MCComfyUI ------------------------------
(* Small instances of ComfyUI for TLC. *)
EXTENDS ComfyUI, TLC

CONSTANTS png, apart

\* Every payload goes to one output, or every payload to its own.
OneOutput == [p \in Payloads |-> png]
OwnOutput == [p \in Payloads |-> p]

\* Every call under one key, or one call under a key of its own.
OneKey == [c \in Calls |-> IF c = apart THEN "other" ELSE "k"]

Symmetry == Permutations(Calls \ {apart})
=============================================================================
