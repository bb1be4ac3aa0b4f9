-------------------------- MODULE IdempotentLedger --------------------------
(***************************************************************************)
(* What a gateway with idempotency keys promises its callers, whatever     *)
(* happens below it: every key gets at most one outcome, a call that was   *)
(* given an outcome was given the one of its key, and every other call was *)
(* told that it has none.                                                  *)
(***************************************************************************)

CONSTANTS Calls, Keys, KeyOf, Outcomes, None

VARIABLES
    ledger,  \* key -> the outcome it is bound to
    answer,  \* call -> the outcome it was given
    gone     \* calls that ended without an outcome of their key: an exception,
             \* or an answer that binds nothing

vars == <<ledger, answer, gone>>

Pending == Calls \ (DOMAIN answer \cup gone)

Extend(f, x, v) == [y \in DOMAIN f \cup {x} |-> IF y = x THEN v ELSE f[y]]

Init ==
    /\ ledger = [k \in {} |-> None]
    /\ answer = [c \in {} |-> None]
    /\ gone = {}

\* The first answer under a key binds the key; a call without a key binds nothing.
Settle(c, o) ==
    /\ c \in Pending
    /\ KeyOf[c] \notin DOMAIN ledger
    /\ ledger' = IF KeyOf[c] = None THEN ledger ELSE Extend(ledger, KeyOf[c], o)
    /\ answer' = Extend(answer, c, o)
    /\ UNCHANGED gone

\* Every later call of the key is answered from the ledger.
Repeat(c) ==
    /\ c \in Pending
    /\ KeyOf[c] \in DOMAIN ledger
    /\ answer' = Extend(answer, c, ledger[KeyOf[c]])
    /\ UNCHANGED <<ledger, gone>>

Leave(c) ==
    /\ c \in Pending
    /\ gone' = gone \cup {c}
    /\ UNCHANGED <<ledger, answer>>

Next == \E c \in Calls : (\E o \in Outcomes : Settle(c, o)) \/ Repeat(c) \/ Leave(c)

Spec == Init /\ [][Next]_vars
=============================================================================
