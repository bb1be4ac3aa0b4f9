--------------------------- MODULE WorkflowProofs ---------------------------
(***************************************************************************)
(* Proofs about the workflow for any number of runs, notes, requests,      *)
(* objects, keys and faults.                                               *)
(*                                                                         *)
(* A run whose window nobody disturbed still has the document it queried   *)
(* until its own batch changes it, so that a receipt replayed to it claims *)
(* changes its two scenes do not show.  A run writes its trace only with   *)
(* its outcome stored, and is told of it only after its trace.  The        *)
(* journal's last line is what the next append may destroy: the bound on   *)
(* lost traces holds with that loss counted in advance.                    *)
(***************************************************************************)
EXTENDS Workflow, FiniteSetTheorems, TLAPS

\* TypeOK in parts: the host, the runs, the files, and what a run has where.
HostTypes ==
    /\ doc \in Scenes /\ ledger \in [Keys -> Bound \cup {None}] /\ late \subseteq Runs
    /\ ran \subseteq Runs /\ disturbed \subseteq Runs
RunTypes ==
    /\ pc \in [Runs -> {"idle"} \cup Awaiting \cup Writing \cup Ended]
    /\ req \in [Runs -> Requests \cup {None}]
    /\ before \in [Runs -> Scenes \cup {None}]
    /\ receipt \in [Runs -> Receipts \cup {None}]
    /\ verdict \in [Runs -> {"not_run", "failed", "verified"}]
FileTypes ==
    /\ journal \in Seq(Runs \cup Notes \cup {"garbage"})
    /\ tail \in {"clean"} \cup EndsEarly
    /\ acked \subseteq Runs \cup Notes
    /\ faults \in 0..MaxFaults /\ damage \in 0..faults
    /\ tail = "whole" => journal # <<>>
Shape ==
    /\ \A r \in Runs : pc[r] # "idle" => req[r] # None
    /\ \A r \in Runs : pc[r] \in {"mutate", "answered", "verify"} =>
          req[r].key # None /\ Mutates(r) /\ before[r] # None
    /\ \A r \in Runs : pc[r] \in {"answered", "verify"} \cup Writing => receipt[r] # None
    /\ \A r \in late : req[r] # None

InWindow(r) ==
    pc[r] = "mutate" \/ (pc[r] \in {"answered", "verify"} /\ receipt[r].status = "completed")
Claims(r) == receipt[r].created \cup receipt[r].deleted \cup receipt[r].modified

\* The document is the one that was queried until the run or another changes it.
Windows ==
    \A r \in Runs :
        /\ InWindow(r) /\ r \notin disturbed /\ r \notin ran => doc = before[r]
        /\ pc[r] = "verify" => receipt[r].status = "completed"
        /\ verdict[r] = "verified" => pc[r] \in Writing \cup Ended /\ receipt[r] # None
        /\ verdict[r] = "verified" /\ Claims(r) # {} /\ r \notin disturbed => r \in ran

\* A run is at its trace only with its outcome in the memory.
Evidence ==
    /\ \A r \in Runs : pc[r] = "append" => OutcomeOf(r) \in memory
    /\ \A r \in Runs : r \in acked \cup Lines => pc[r] \in Ended /\ OutcomeOf(r) \in memory
    /\ \A r \in Runs : pc[r] = "done" /\ Mutates(r) => r \in acked

\* What the next append may cost, on top of what is lost already.
Lost == acked \ KnownIds
Pending == IF tail = "clean" THEN 0 ELSE IF tail = "torn" THEN 1 ELSE 2
Bounded == Decodes => Cardinality(Lost) + Pending <= 2 * damage

WorkflowInv ==
    /\ HostTypes /\ RunTypes /\ FileTypes /\ Shape
    /\ Windows /\ Evidence /\ RecordedOnce /\ Bounded

----------------------------------------------------------------------------
(* The invariant holds at the start. *)

\* Nothing was asked, stored or recorded yet.
LEMMA WorkflowInvInit == Init => WorkflowInv
<1> SUFFICES ASSUME Init PROVE WorkflowInv
  OBVIOUS
<1> USE WorkflowConstants, NoneIsNoRecord DEF Init
<1>1. HostTypes
  BY DEF HostTypes, Scenes
<1>2. RunTypes /\ Shape
  BY DEF RunTypes, Shape, Writing
<1>3. FileTypes
  BY DEF FileTypes
<1>4. Windows
  BY DEF Windows, InWindow
<1>5. Evidence /\ RecordedOnce
  BY DEF Evidence, RecordedOnce, Lines
<1>6. Bounded
  <2>1. Cardinality({}) = 0
    BY FS_EmptySet
  <2>2. Lost = {} /\ Pending = 0
    BY DEF Lost, Pending
  <2> QED BY <2>1, <2>2 DEF Bounded
<1> QED BY <1>1, <1>2, <1>3, <1>4, <1>5, <1>6 DEF WorkflowInv

----------------------------------------------------------------------------
(* Helpers: scenes, receipts and the journal. *)

\* The gateway's delta between two scenes is a receipt.
LEMMA DeltaTyped ==
  ASSUME NEW k \in Keys \cup {None}, NEW s \in Statuses, NEW d \in Scenes, NEW e \in Scenes
  PROVE  Delta(k, s, d, e) \in Receipts
  BY DEF Delta, Receipts, Scenes, Objects

\* What a batch makes of the document is a document.
LEMMA EffectsTyped ==
  ASSUME HostTypes, NEW r \in Runs, req[r] \in Requests
  PROVE  Effects(r, doc) \subseteq Scenes
<1>1. req[r].target \in Ids /\ r \in Ids
  BY WorkflowConstants DEF Request, Ids
<1> QED BY <1>1, WorkflowConstants DEF Effects, Scenes, HostTypes

\* The fields of a request.
LEMMA KeysOfRequests ==
  ASSUME NEW q \in Requests
  PROVE  /\ q.key \in Keys \cup {None} /\ q.target \in Existing
         /\ q.kind \in Kinds \cup {"inspect", "invalid"}
  BY WorkflowConstants DEF Request

\* What the gateway's table holds for a key.
LEMMA BoundTyped ==
  ASSUME NEW k \in Kinds, NEW t \in Existing, NEW rc \in Receipts
  PROVE  [kind |-> k, target |-> t, receipt |-> rc] \in Bound
  BY DEF Bound

\* Append adds one element, at the end.
LEMMA AppendedLines ==
  ASSUME NEW S, NEW s \in Seq(S), NEW x \in S
  PROVE  /\ Append(s, x) \in Seq(S) /\ Append(s, x) # <<>>
         /\ DOMAIN Append(s, x) = DOMAIN s \cup {Len(s) + 1}
         /\ \A i \in DOMAIN s : Append(s, x)[i] = s[i]
         /\ Append(s, x)[Len(s) + 1] = x
         /\ Len(s) + 1 \notin DOMAIN s
  OBVIOUS

\* A sequence without its last element.
LEMMA WithoutLast ==
  ASSUME NEW S, NEW s \in Seq(S), s # <<>>
  PROVE  /\ SubSeq(s, 1, Len(s) - 1) \in Seq(S)
         /\ DOMAIN SubSeq(s, 1, Len(s) - 1) = DOMAIN s \ {Len(s)}
         /\ \A i \in DOMAIN s \ {Len(s)} : SubSeq(s, 1, Len(s) - 1)[i] = s[i]
  OBVIOUS

Kept == IF tail = "whole" THEN SubSeq(journal, 1, Len(journal) - 1) ELSE journal
Line(t) == IF tail # "clean" THEN "garbage" ELSE t
Ends(end) == end = "clean" \/ (end = "whole" /\ tail = "clean")

\* Write without its LET: what it keeps, the line it ends in and the new tail.
LEMMA WriteInParts ==
  ASSUME FileTypes, NEW t \in Runs \cup Notes, NEW end \in {"clean"} \cup EndsEarly, Write(t, end)
  PROVE  /\ Kept \in Seq(Runs \cup Notes \cup {"garbage"})
         /\ DOMAIN Kept = IF tail = "whole" THEN DOMAIN journal \ {Len(journal)} ELSE DOMAIN journal
         /\ \A i \in DOMAIN Kept : Kept[i] = journal[i]
         /\ Line(t) \in Runs \cup Notes \cup {"garbage"}
         /\ journal' = IF Ends(end) THEN Append(Kept, Line(t)) ELSE Kept
         /\ tail' = IF end = "whole" /\ tail # "clean" THEN "torn" ELSE end
         /\ damage' = IF end = "clean" THEN damage ELSE damage + 1
<1> DEFINE Texts == Runs \cup Notes \cup {"garbage"}
<1>1. /\ Kept \in Seq(Texts)
      /\ DOMAIN Kept = IF tail = "whole" THEN DOMAIN journal \ {Len(journal)} ELSE DOMAIN journal
      /\ \A i \in DOMAIN Kept : Kept[i] = journal[i]
  <2>1. CASE tail = "whole"
    <3> HIDE DEF Texts
    <3>1. journal \in Seq(Texts) /\ journal # <<>>
      BY <2>1 DEF FileTypes, Texts
    <3> QED BY <2>1, <3>1, WithoutLast DEF Kept
  <2>2. CASE tail # "whole"
    BY <2>2 DEF Kept, FileTypes
  <2> QED BY <2>1, <2>2
<1>2. Line(t) \in Texts
  BY DEF Line
<1> QED BY <1>1, <1>2 DEF Write, Kept, Line, Ends

\* The lines of the journal after a write.
LEMMA WrittenLines ==
  ASSUME FileTypes, NEW t \in Runs \cup Notes, NEW end \in {"clean"} \cup EndsEarly, Write(t, end)
  PROVE  /\ journal' \in Seq(Runs \cup Notes \cup {"garbage"})
         /\ Ends(end) => /\ DOMAIN journal' = DOMAIN Kept \cup {Len(Kept) + 1}
                         /\ Len(Kept) + 1 \notin DOMAIN Kept
                         /\ journal'[Len(Kept) + 1] = Line(t)
                         /\ journal' # <<>>
         /\ ~Ends(end) => journal' = Kept
         /\ \A i \in DOMAIN Kept : i \in DOMAIN journal /\ i \in DOMAIN journal' /\ journal'[i] = journal[i]
<1> DEFINE Texts == Runs \cup Notes \cup {"garbage"}
<1>1. Kept \in Seq(Texts) /\ Line(t) \in Texts
  BY WriteInParts
<1> HIDE DEF Texts
<1>2. Append(Kept, Line(t)) \in Seq(Texts) /\ Append(Kept, Line(t)) # <<>>
      /\ DOMAIN Append(Kept, Line(t)) = DOMAIN Kept \cup {Len(Kept) + 1}
      /\ \A i \in DOMAIN Kept : Append(Kept, Line(t))[i] = Kept[i]
      /\ Append(Kept, Line(t))[Len(Kept) + 1] = Line(t)
      /\ Len(Kept) + 1 \notin DOMAIN Kept
  BY <1>1, AppendedLines
<1>3. journal' = IF Ends(end) THEN Append(Kept, Line(t)) ELSE Kept
  BY WriteInParts
<1>4. \A i \in DOMAIN Kept : i \in DOMAIN journal /\ Kept[i] = journal[i]
  BY WriteInParts
<1>5. journal' \in Seq(Texts)
  BY <1>1, <1>2, <1>3
<1>6. CASE Ends(end)
  BY <1>2, <1>3, <1>4, <1>5, <1>6 DEF Texts
<1>7. CASE ~Ends(end)
  BY <1>3, <1>4, <1>5, <1>7 DEF Texts
<1> QED BY <1>6, <1>7

\* A write adds its trace, or a line that reads as garbage.
LEMMA WriteAdds ==
  ASSUME FileTypes, NEW t \in Runs \cup Notes, NEW end \in {"clean"} \cup EndsEarly, Write(t, end)
  PROVE  Lines' \subseteq Lines \cup {t, "garbage"}
<1>1. \A i \in DOMAIN journal' : journal'[i] \in Lines \cup {t, "garbage"}
  BY WrittenLines DEF Lines, Line
<1> QED BY <1>1 DEF Lines

\* A write takes one line at most from those that read, and adds its own where the
\* last line had its newline.
LEMMA WriteLoses ==
  ASSUME FileTypes, NEW t \in Runs \cup Notes, NEW end \in {"clean"} \cup EndsEarly, Write(t, end)
  PROVE  /\ tail # "whole" => KnownIds \subseteq KnownIds'
         /\ \E g \in Runs \cup Notes \cup {"garbage"} : KnownIds \ {g} \subseteq KnownIds'
         /\ tail = "clean" /\ end \in {"clean", "whole"} => t \in KnownIds'
<1>1. \A i \in DOMAIN Kept : journal[i] \in Lines'
  BY WrittenLines DEF Lines
<1>2. tail # "whole" => Lines \subseteq Lines'
  BY <1>1, WriteInParts DEF Lines
<1>3. ASSUME tail = "whole"
      PROVE  \E g \in Runs \cup Notes \cup {"garbage"} : Lines \ {g} \subseteq Lines'
  <2>1. Len(journal) \in DOMAIN journal /\ journal[Len(journal)] \in Runs \cup Notes \cup {"garbage"}
    BY <1>3 DEF FileTypes
  <2>2. \A i \in DOMAIN journal : i = Len(journal) \/ journal[i] \in Lines'
    BY <1>1, <1>3, WriteInParts
  <2>3. Lines \ {journal[Len(journal)]} \subseteq Lines'
    BY <2>2 DEF Lines
  <2> QED BY <2>1, <2>3
<1>4. tail = "clean" /\ end \in {"clean", "whole"} => t \in Lines'
  BY WrittenLines DEF Lines, Line, Ends
<1>5. t # "garbage"
  BY WorkflowConstants
<1> QED BY <1>2, <1>3, <1>4, <1>5 DEF KnownIds

\* A write keeps the types of the files; an incomplete one is a fault.
LEMMA WriteTypes ==
  ASSUME FileTypes, NEW t \in Runs \cup Notes, NEW end \in {"clean"} \cup EndsEarly, Write(t, end),
         faults' \in 0..MaxFaults,
         faults' = faults + 1 \/ (end = "clean" /\ faults' = faults), acked' \subseteq Runs \cup Notes
  PROVE  FileTypes'
<1>1. tail' = "whole" => Ends(end)
  BY WriteInParts DEF Ends, EndsEarly
<1>2. tail' \in {"clean"} \cup EndsEarly
  BY WriteInParts DEF EndsEarly
<1>3. damage' \in 0..faults'
  BY WriteInParts, WorkflowConstants DEF FileTypes
<1> QED BY <1>1, <1>2, <1>3, WrittenLines DEF FileTypes

\* A trace that _known_ids did not find is not in the journal twice after a write.
LEMMA WriteOnce ==
  ASSUME FileTypes, RecordedOnce, NEW t \in Runs \cup Notes, t \notin KnownIds,
         NEW end \in {"clean"} \cup EndsEarly, Write(t, end)
  PROVE  RecordedOnce'
<1>1. \A i \in DOMAIN Kept : journal[i] # t
  BY WrittenLines, WorkflowConstants DEF KnownIds, Lines
<1>2. \A i, j \in DOMAIN journal' : journal'[i] = journal'[j] /\ journal'[i] # "garbage" => i = j
  <2> SUFFICES ASSUME NEW i \in DOMAIN journal', NEW j \in DOMAIN journal',
                      journal'[i] = journal'[j], journal'[i] # "garbage"
               PROVE  i = j
    OBVIOUS
  <2>1. CASE i \in DOMAIN Kept /\ j \in DOMAIN Kept
    BY <2>1, WrittenLines DEF RecordedOnce
  <2>2. CASE ~(i \in DOMAIN Kept /\ j \in DOMAIN Kept)
    BY <2>2, <1>1, WrittenLines DEF Line
  <2> QED BY <2>1, <2>2
<1> QED BY <1>2 DEF RecordedOnce

\* One element more is one more at most.
LEMMA OneMore ==
  ASSUME NEW S, IsFiniteSet(S), NEW x
  PROVE  /\ IsFiniteSet(S \cup {x}) /\ Cardinality(S) \in Nat /\ Cardinality(S \cup {x}) \in Nat
         /\ Cardinality(S \cup {x}) <= Cardinality(S) + 1
<1>1. Cardinality(S) \in Nat
  BY FS_CardinalityType
<1>2. CASE x \in S
  <2>1. S \cup {x} = S
    BY <1>2
  <2>2. IsFiniteSet(S \cup {x}) /\ Cardinality(S \cup {x}) = Cardinality(S)
    BY <2>1, Zenon
  <2> QED BY <1>1, <2>2
<1>3. CASE x \notin S
  <2>1. IsFiniteSet(S \cup {x}) /\ Cardinality(S \cup {x}) = Cardinality(S) + 1
    BY <1>3, FS_AddElement
  <2> QED BY <1>1, <2>1
<1> QED BY <1>2, <1>3

\* A write loses no more than its own damage and what was pending allow.
LEMMA WriteBounded ==
  ASSUME FileTypes, Bounded, NEW t \in Runs \cup Notes, tail # "cut",
         NEW end \in {"clean"} \cup EndsEarly, Write(t, end), acked' \subseteq acked \cup {t}
  PROVE  Bounded'
<1> SUFFICES ASSUME end # "cut" PROVE Cardinality(Lost') + Pending' <= 2 * damage'
  BY WriteInParts DEF Bounded, Decodes
<1>1. IsFiniteSet(Lost) /\ Cardinality(Lost) \in Nat
  BY WorkflowConstants, FS_Subset, FS_CardinalityType DEF Lost, FileTypes
<1>2. /\ IsFiniteSet(Lost \cup {t}) /\ Cardinality(Lost \cup {t}) <= Cardinality(Lost) + 1
      /\ Cardinality(Lost \cup {t}) \in Nat
  BY <1>1, OneMore
<1>3. Cardinality(Lost) + Pending <= 2 * damage /\ damage \in Nat
  BY WorkflowConstants DEF Bounded, Decodes, FileTypes
<1>4. CASE tail = "clean" /\ end \in {"clean", "whole"}
  <2>1. Lost' \subseteq Lost
    BY <1>4, WriteLoses DEF Lost
  <2>2. Cardinality(Lost') <= Cardinality(Lost) /\ Cardinality(Lost') \in Nat
    BY <1>1, <2>1, FS_Subset, FS_CardinalityType
  <2>3. Pending = 0 /\ Pending' = (IF end = "clean" THEN 0 ELSE 2)
        /\ damage' = (IF end = "clean" THEN damage ELSE damage + 1)
    BY <1>4, WriteInParts DEF Pending
  <2> QED BY <1>1, <1>3, <2>2, <2>3
<1>5. CASE tail # "whole" /\ ~(tail = "clean" /\ end \in {"clean", "whole"})
  <2>1. Lost' \subseteq Lost \cup {t}
    BY <1>5, WriteLoses DEF Lost
  <2>2. Cardinality(Lost') <= Cardinality(Lost) + 1 /\ Cardinality(Lost') \in Nat
    BY <1>1, <1>2, <2>1, FS_Subset, FS_CardinalityType
  <2>3. CASE end = "clean"
    <3>1. Pending = 1 /\ Pending' = 0 /\ damage' = damage
      BY <1>5, <2>3, WriteInParts DEF Pending, FileTypes, EndsEarly
    <3> QED BY <1>1, <1>3, <2>2, <3>1
  <2>4. CASE end # "clean"
    <3>1. Pending \in {0, 1} /\ Pending' = 1 /\ damage' = damage + 1
      BY <1>5, <2>4, WriteInParts DEF Pending, FileTypes, EndsEarly
    <3> QED BY <1>1, <1>3, <2>2, <3>1
  <2> QED BY <2>3, <2>4
<1>6. CASE tail = "whole"
  <2>1. PICK g : KnownIds \ {g} \subseteq KnownIds'
    BY WriteLoses
  <2>2. Lost' \subseteq Lost \cup {t} \cup {g}
    BY <2>1 DEF Lost
  <2>3. /\ IsFiniteSet(Lost \cup {t} \cup {g})
        /\ Cardinality(Lost \cup {t} \cup {g}) <= Cardinality(Lost) + 2
        /\ Cardinality(Lost \cup {t} \cup {g}) \in Nat
    <3>1. Cardinality(Lost \cup {t} \cup {g}) <= Cardinality(Lost \cup {t}) + 1
          /\ IsFiniteSet(Lost \cup {t} \cup {g}) /\ Cardinality(Lost \cup {t} \cup {g}) \in Nat
      BY <1>2, OneMore
    <3> QED BY <1>1, <1>2, <3>1
  <2>4. Cardinality(Lost') <= Cardinality(Lost) + 2 /\ Cardinality(Lost') \in Nat
    BY <1>1, <2>2, <2>3, FS_Subset, FS_CardinalityType
  <2>5. Pending = 2 /\ Pending' = (IF end = "clean" THEN 0 ELSE 1)
        /\ damage' = (IF end = "clean" THEN damage ELSE damage + 1)
    BY <1>6, WriteInParts DEF Pending, EndsEarly
  <2> QED BY <1>1, <1>3, <2>4, <2>5
<1> QED BY <1>4, <1>5, <1>6

\* append skips a trace it knows, or writes it, whole or short.
LEMMA RecordCases ==
  ASSUME FileTypes, Decodes, NEW t \in Runs \cup Notes, Record(t)
  PROVE  \/ t \in KnownIds /\ UNCHANGED <<journal, tail, acked, damage, faults>>
         \/ /\ t \notin KnownIds /\ tail # "cut" /\ acked' = acked \cup {t}
            /\ \E end \in {"clean"} \cup EndsEarly :
                  /\ Write(t, end)
                  /\ faults' \in 0..MaxFaults
                  /\ faults' = faults + 1 \/ (end = "clean" /\ faults' = faults)
<1>1. faults \in 0..MaxFaults /\ MaxFaults \in Nat
  BY WorkflowConstants DEF FileTypes
<1>2. tail # "cut"
  BY DEF Decodes
<1>3. CASE t \in KnownIds /\ UNCHANGED <<journal, tail, acked, damage, faults>>
  BY <1>3
<1>4. CASE t \notin KnownIds /\ acked' = acked \cup {t} /\ Write(t, "clean") /\ UNCHANGED faults
  <2>1. faults' \in 0..MaxFaults /\ faults' = faults
    BY <1>1, <1>4
  <2> QED BY <1>2, <1>4, <2>1
<1>5. CASE /\ t \notin KnownIds /\ acked' = acked \cup {t}
           /\ Fault /\ \E end \in EndsEarly : Write(t, end)
  <2>1. faults' \in 0..MaxFaults /\ faults' = faults + 1
    BY <1>1, <1>5 DEF Fault
  <2> QED BY <1>2, <1>5, <2>1
<1> QED BY <1>3, <1>4, <1>5 DEF Record

\* What append, in whatever outcome, does to the files.
LEMMA RecordKeeps ==
  ASSUME FileTypes, RecordedOnce, Bounded, Decodes, NEW t \in Runs \cup Notes, Record(t)
  PROVE  /\ FileTypes' /\ RecordedOnce' /\ Bounded'
         /\ Lines' \subseteq Lines \cup {t, "garbage"} /\ acked' \subseteq acked \cup {t}
         /\ t \in acked' \cup Lines
<1>1. CASE t \in KnownIds /\ UNCHANGED <<journal, tail, acked, damage, faults>>
  BY <1>1 DEF FileTypes, RecordedOnce, Bounded, Decodes, Lines, KnownIds, Lost, Pending
<1>2. CASE /\ t \notin KnownIds /\ tail # "cut" /\ acked' = acked \cup {t}
           /\ \E end \in {"clean"} \cup EndsEarly :
                 /\ Write(t, end)
                 /\ faults' \in 0..MaxFaults
                 /\ faults' = faults + 1 \/ (end = "clean" /\ faults' = faults)
  <2>1. PICK end \in {"clean"} \cup EndsEarly :
           /\ Write(t, end)
           /\ faults' \in 0..MaxFaults
           /\ faults' = faults + 1 \/ (end = "clean" /\ faults' = faults)
    BY <1>2
  <2>2. acked' \subseteq Runs \cup Notes
    BY <1>2 DEF FileTypes
  <2> QED BY <1>2, <2>1, <2>2, WriteTypes, WriteOnce, WriteBounded, WriteAdds
<1> QED BY <1>1, <1>2, RecordCases

\* What the end of the process does to the files, within an append or not.
LEMMA CrashWrites ==
  ASSUME WorkflowInv, Crash
  PROVE  /\ FileTypes' /\ RecordedOnce' /\ Bounded'
         /\ Lines' \subseteq Lines \cup {r \in Runs : pc[r] = "append"} \cup {"garbage"}
<1> USE DEF WorkflowInv
<1>1. /\ faults' \in 0..MaxFaults /\ faults' = faults + 1 /\ acked' = acked
      /\ acked' \subseteq Runs \cup Notes
  BY WorkflowConstants DEF Crash, Fault, FileTypes
<1>2. CASE UNCHANGED <<journal, tail, damage>>
  <2>1. damage \in 0..faults'
    BY <1>1, WorkflowConstants DEF FileTypes
  <2> QED BY <1>1, <1>2, <2>1 DEF FileTypes, RecordedOnce, Bounded, Decodes, Lines,
      KnownIds, Lost, Pending
<1>3. CASE \E r \in Runs, end \in EndsEarly :
             pc[r] = "append" /\ Decodes /\ r \notin KnownIds /\ Write(r, end)
  <2>1. PICK r \in Runs, end \in EndsEarly :
             pc[r] = "append" /\ Decodes /\ r \notin KnownIds /\ Write(r, end)
    BY <1>3
  <2>2. tail # "cut" /\ end \in {"clean"} \cup EndsEarly /\ r \in Runs \cup Notes
    BY <2>1 DEF Decodes
  <2> QED BY <1>1, <2>1, <2>2, WriteTypes, WriteOnce, WriteBounded, WriteAdds
<1> QED BY <1>2, <1>3 DEF Crash

\* A step of a run that has recorded nothing yet and does not do so now.
LEMMA EvidenceLocal ==
  ASSUME WorkflowInv, NEW r \in Runs, UNCHANGED <<journal, acked, memory>>, pc[r] \notin Ended,
         \A s \in Runs \ {r} : OutcomeOf(s)' = OutcomeOf(s) /\ (Mutates(s)' <=> Mutates(s)) /\ pc'[s] = pc[s],
         pc'[r] \notin {"append", "done"}
  PROVE  Evidence'
<1>1. Lines' = Lines
  BY DEF Lines
<1>2. r \notin acked \cup Lines
  BY DEF WorkflowInv, Evidence
<1> QED BY <1>1, <1>2 DEF WorkflowInv, Evidence

----------------------------------------------------------------------------
(* Every step keeps it: one lemma for each of its parts. *)

\* Types of the host, the runs and what a run has where.
LEMMA HostTypesStep ==
  ASSUME WorkflowInv, [Next]_vars
  PROVE  HostTypes'
<1> USE WorkflowConstants, NoneIsNoRecord DEF WorkflowInv, host, files, local
<1>0. CASE UNCHANGED vars
  BY <1>0 DEF vars, HostTypes, RunTypes
<1>1. ASSUME NEW r \in Runs, NEW q \in Requests, Start(r, q) PROVE HostTypes'
  BY <1>1 DEF Start, At, Goto, HostTypes, RunTypes
<1>2. ASSUME NEW r \in Runs, Queried(r) PROVE HostTypes'
  BY <1>2 DEF Queried, At, Goto, Mutates, HostTypes, RunTypes
<1>3. ASSUME NEW r \in Runs, Receive(r) PROVE HostTypes'
  BY <1>3 DEF Receive, At, Goto, HostTypes, RunTypes
<1>4. ASSUME NEW r \in Runs, Verify(r) PROVE HostTypes'
  BY <1>4 DEF Verify, At, Goto, HostTypes, RunTypes
<1>5. ASSUME NEW r \in Runs, Put(r) PROVE HostTypes'
  BY <1>5 DEF Put, Store, ToTrace, Goto, Fault, HostTypes, RunTypes
<1>6. ASSUME NEW r \in Runs, AppendTrace(r) PROVE HostTypes'
  BY <1>6 DEF AppendTrace, Goto, Fault, HostTypes, RunTypes
<1>7. ASSUME NEW r \in Runs, HostReplays(r) PROVE HostTypes'
  BY <1>7 DEF HostReplays, At, Answer, Goto, HostTypes, RunTypes
<1>8. ASSUME NEW r \in Runs, HostDeclines(r) PROVE HostTypes'
  <2>1. DEFINE rc == Idle(req[r].key, IF req[r].dry THEN "validated" ELSE "blocked")
  <2>2. req[r] \in Requests /\ Mutates(r) /\ doc \in Scenes /\ req[r].key \in Keys \cup {None}
    BY <1>8, KeysOfRequests DEF HostDeclines, Unbound, At, Bind, Answer, Goto, HostTypes,
        RunTypes, Shape
  <2>3. rc \in Receipts
    BY <2>2, DeltaTyped DEF Idle, Statuses
  <2>4. [kind |-> req[r].kind, target |-> req[r].target, receipt |-> rc] \in Bound
    BY <2>2, <2>3, BoundTyped, KeysOfRequests DEF Mutates
  <2> QED BY <1>8, <2>4 DEF HostDeclines, Bind, Answer, HostTypes
<1>9. ASSUME NEW r \in Runs, HostRuns(r) PROVE HostTypes'
  <2>1. req[r] \in Requests /\ Mutates(r) /\ doc \in Scenes /\ req[r].key \in Keys \cup {None}
    BY <1>9, KeysOfRequests DEF HostRuns, Accepts, Unbound, At, HostTypes, RunTypes, Shape
  <2>2. PICK e \in Effects(r, doc) \cup {doc} :
           LET rc == Delta(req[r].key, "completed", doc, e)
           IN doc' = e /\ Bind(r, rc) /\ Answer(r, rc)
    BY <1>9 DEF HostRuns
  <2>3. e \in Scenes
    BY <2>1, EffectsTyped
  <2> DEFINE rc == Delta(req[r].key, "completed", doc, e)
  <2>4. rc \in Receipts
    BY <2>1, <2>3, DeltaTyped DEF Statuses
  <2>5. [kind |-> req[r].kind, target |-> req[r].target, receipt |-> rc] \in Bound
    BY <2>1, <2>4, BoundTyped, KeysOfRequests DEF Mutates
  <2> QED BY <1>9, <2>2, <2>3, <2>5 DEF HostRuns, ChangedBy, Windowed, Bind, Answer,
      HostTypes
<1>10. ASSUME NEW r \in Runs, HostFails(r) PROVE HostTypes'
  <2>1. req[r] \in Requests /\ Mutates(r) /\ doc \in Scenes /\ req[r].key \in Keys \cup {None}
    BY <1>10, KeysOfRequests DEF HostFails, Accepts, Unbound, At, HostTypes, RunTypes, Shape
  <2>2. PICK e \in Effects(r, doc) \cup {doc} :
           LET rc == Delta(req[r].key, "failed", doc, e)
           IN doc' = e /\ Bind(r, rc) /\ Answer(r, rc)
    BY <1>10 DEF HostFails
  <2>3. e \in Scenes
    BY <2>1, EffectsTyped
  <2> DEFINE rc == Delta(req[r].key, "failed", doc, e)
  <2>4. rc \in Receipts
    BY <2>1, <2>3, DeltaTyped DEF Statuses
  <2>5. [kind |-> req[r].kind, target |-> req[r].target, receipt |-> rc] \in Bound
    BY <2>1, <2>4, BoundTyped, KeysOfRequests DEF Mutates
  <2> QED BY <1>10, <2>2, <2>3, <2>5 DEF HostFails, ChangedBy, Windowed, Bind, Answer,
      HostTypes
<1>11. ASSUME NEW r \in Runs, Expire(r) PROVE HostTypes'
  BY <1>11 DEF Expire, Lose, Goto, GivenUp, HostTypes, RunTypes
<1>12. ASSUME NEW r \in Runs, Cancel(r) PROVE HostTypes'
  BY <1>12 DEF Cancel, Goto, GivenUp, Fault, HostTypes, RunTypes
<1>13. ASSUME NEW r \in Runs, LateEffect(r) PROVE HostTypes'
  <2>1. req[r] \in Requests
    BY <1>13 DEF LateEffect, RunTypes, Shape
  <2>2. doc' \in Scenes
    BY <1>13, <2>1, EffectsTyped DEF LateEffect
  <2> QED BY <1>13, <2>2 DEF LateEffect, ChangedBy, Windowed, HostTypes
<1>14. ASSUME NEW n \in Notes, RecordNote(n) PROVE HostTypes'
  BY <1>14 DEF RecordNote, HostTypes, RunTypes
<1>15. ASSUME ForeignEdit PROVE HostTypes'
  <2>1. doc' \in Scenes
    BY <1>15 DEF ForeignEdit, HostTypes, Scenes, Objects
  <2> QED BY <1>15, <2>1 DEF ForeignEdit, ChangedBy, Windowed, HostTypes
<1>16. ASSUME Crash PROVE HostTypes'
  BY <1>16 DEF Crash, GivenUp, Fault, HostTypes, RunTypes
<1> QED
  BY <1>0, <1>1, <1>2, <1>3, <1>4, <1>5, <1>6, <1>7, <1>8, <1>9, <1>10, <1>11,
     <1>12, <1>13, <1>14, <1>15, <1>16 DEF Next, RunStep

\* The runs.
LEMMA RunTypesStep ==
  ASSUME WorkflowInv, [Next]_vars
  PROVE  RunTypes'
<1> USE WorkflowConstants, NoneIsNoRecord DEF WorkflowInv, host, files, local
<1>0. CASE UNCHANGED vars
  BY <1>0 DEF vars, RunTypes, Awaiting, Writing, Ended
<1>1. ASSUME NEW r \in Runs, NEW q \in Requests, Start(r, q) PROVE RunTypes'
  BY <1>1 DEF Start, At, Goto, RunTypes, Awaiting, Writing, Ended
<1>2. ASSUME NEW r \in Runs, Queried(r) PROVE RunTypes'
  BY <1>2 DEF Queried, At, Goto, Mutates, RunTypes, Awaiting, Writing, Ended, HostTypes
<1>3. ASSUME NEW r \in Runs, Receive(r) PROVE RunTypes'
  BY <1>3 DEF Receive, At, Goto, RunTypes, Awaiting, Writing, Ended
<1>4. ASSUME NEW r \in Runs, Verify(r) PROVE RunTypes'
  BY <1>4 DEF Verify, At, Goto, RunTypes, Awaiting, Writing, Ended
<1>5. ASSUME NEW r \in Runs, Put(r) PROVE RunTypes'
  BY <1>5 DEF Put, Store, ToTrace, Goto, Fault, RunTypes, Awaiting, Writing, Ended
<1>6. ASSUME NEW r \in Runs, AppendTrace(r) PROVE RunTypes'
  BY <1>6 DEF AppendTrace, Goto, Fault, RunTypes, Awaiting, Writing, Ended
<1>7. ASSUME NEW r \in Runs, HostReplays(r) PROVE RunTypes'
  <2>1. req[r] \in Requests /\ doc \in Scenes /\ req[r].key \in Keys /\ ledger[req[r].key] \in Bound
    BY <1>7, KeysOfRequests DEF HostReplays, At, Answer, Goto, HostTypes, RunTypes, Shape
  <2>2. Idle(req[r].key, "blocked") \in Receipts
    BY <2>1, DeltaTyped DEF Idle, Statuses
  <2>3. ledger[req[r].key].receipt \in Receipts
    BY <2>1 DEF Bound
  <2> QED BY <1>7, <2>2, <2>3 DEF HostReplays, At, Answer, Goto, RunTypes, Awaiting
<1>8. ASSUME NEW r \in Runs, HostDeclines(r) PROVE RunTypes'
  <2>1. req[r] \in Requests /\ doc \in Scenes /\ req[r].key \in Keys \cup {None}
    BY <1>8, KeysOfRequests DEF HostDeclines, Unbound, At, Bind, Answer, Goto, HostTypes,
        RunTypes, Shape
  <2>2. Idle(req[r].key, IF req[r].dry THEN "validated" ELSE "blocked") \in Receipts
    BY <2>1, DeltaTyped DEF Idle, Statuses
  <2> QED BY <1>8, <2>2 DEF HostDeclines, Unbound, At, Answer, Goto, RunTypes, Awaiting
<1>9. ASSUME NEW r \in Runs, HostRuns(r) PROVE RunTypes'
  <2>1. req[r] \in Requests /\ Mutates(r) /\ doc \in Scenes /\ req[r].key \in Keys \cup {None}
    BY <1>9, KeysOfRequests DEF HostRuns, Accepts, Unbound, At, HostTypes, RunTypes, Shape
  <2>2. PICK e \in Effects(r, doc) \cup {doc} :
           LET rc == Delta(req[r].key, "completed", doc, e)
           IN doc' = e /\ Bind(r, rc) /\ Answer(r, rc)
    BY <1>9 DEF HostRuns
  <2>3. e \in Scenes
    BY <2>1, EffectsTyped
  <2> DEFINE rc == Delta(req[r].key, "completed", doc, e)
  <2>4. rc \in Receipts
    BY <2>1, <2>3, DeltaTyped DEF Statuses
  <2> QED BY <1>9, <2>2, <2>4 DEF HostRuns, Accepts, Unbound, At, Answer, Goto, RunTypes,
      Awaiting
<1>10. ASSUME NEW r \in Runs, HostFails(r) PROVE RunTypes'
  <2>1. req[r] \in Requests /\ Mutates(r) /\ doc \in Scenes /\ req[r].key \in Keys \cup {None}
    BY <1>10, KeysOfRequests DEF HostFails, Accepts, Unbound, At, HostTypes, RunTypes, Shape
  <2>2. PICK e \in Effects(r, doc) \cup {doc} :
           LET rc == Delta(req[r].key, "failed", doc, e)
           IN doc' = e /\ Bind(r, rc) /\ Answer(r, rc)
    BY <1>10 DEF HostFails
  <2>3. e \in Scenes
    BY <2>1, EffectsTyped
  <2> DEFINE rc == Delta(req[r].key, "failed", doc, e)
  <2>4. rc \in Receipts
    BY <2>1, <2>3, DeltaTyped DEF Statuses
  <2> QED BY <1>10, <2>2, <2>4 DEF HostFails, Accepts, Unbound, At, Answer, Goto,
      RunTypes, Awaiting
<1>11. ASSUME NEW r \in Runs, Expire(r) PROVE RunTypes'
  <2>1. Idle(None, "unknown") \in Receipts
    BY DeltaTyped DEF Idle, Statuses, HostTypes
  <2> QED BY <1>11, <2>1 DEF Expire, Lose, Goto, GivenUp, RunTypes, Awaiting, Writing, Ended
<1>12. ASSUME NEW r \in Runs, Cancel(r) PROVE RunTypes'
  BY <1>12 DEF Cancel, Goto, GivenUp, Fault, RunTypes, Awaiting, Writing, Ended
<1>13. ASSUME NEW r \in Runs, LateEffect(r) PROVE RunTypes'
  BY <1>13 DEF LateEffect, ChangedBy, Windowed, RunTypes, Awaiting, Writing, Ended
<1>14. ASSUME NEW n \in Notes, RecordNote(n) PROVE RunTypes'
  BY <1>14 DEF RecordNote, RunTypes, Awaiting, Writing, Ended
<1>15. ASSUME ForeignEdit PROVE RunTypes'
  BY <1>15 DEF ForeignEdit, ChangedBy, Windowed, Fault, RunTypes, Awaiting, Writing, Ended
<1>16. ASSUME Crash PROVE RunTypes'
  BY <1>16 DEF Crash, GivenUp, Fault, RunTypes, Awaiting, Writing, Ended
<1> QED
  BY <1>0, <1>1, <1>2, <1>3, <1>4, <1>5, <1>6, <1>7, <1>8, <1>9, <1>10, <1>11,
     <1>12, <1>13, <1>14, <1>15, <1>16 DEF Next, RunStep

\* What a run has where.
LEMMA ShapeStep ==
  ASSUME WorkflowInv, [Next]_vars
  PROVE  Shape'
<1> USE WorkflowConstants, NoneIsNoRecord DEF WorkflowInv, host, files, local
<1>0. CASE UNCHANGED vars
  BY <1>0 DEF vars, RunTypes, HostTypes, Shape, Mutates, Awaiting, Writing, Ended
<1>1. ASSUME NEW r \in Runs, NEW q \in Requests, Start(r, q) PROVE Shape'
  BY <1>1 DEF Start, At, Goto, RunTypes, HostTypes, Shape, Mutates, Awaiting, Writing, Ended
<1>2. ASSUME NEW r \in Runs, Queried(r) PROVE Shape'
  BY <1>2 DEF Queried, At, Goto, Mutates, RunTypes, HostTypes, Shape, Awaiting, Writing,
      Ended
<1>3. ASSUME NEW r \in Runs, Receive(r) PROVE Shape'
  BY <1>3 DEF Receive, At, Goto, RunTypes, HostTypes, Shape, Mutates, Awaiting, Writing,
      Ended
<1>4. ASSUME NEW r \in Runs, Verify(r) PROVE Shape'
  BY <1>4 DEF Verify, At, Goto, RunTypes, HostTypes, Shape, Mutates, Awaiting, Writing,
      Ended
<1>5. ASSUME NEW r \in Runs, Put(r) PROVE Shape'
  BY <1>5 DEF Put, Store, ToTrace, Goto, Fault, RunTypes, HostTypes, Shape, Mutates,
      Awaiting, Writing, Ended
<1>6. ASSUME NEW r \in Runs, AppendTrace(r) PROVE Shape'
  BY <1>6 DEF AppendTrace, Goto, Fault, RunTypes, HostTypes, Shape, Mutates, Awaiting,
      Writing, Ended
<1>7. ASSUME NEW r \in Runs, HostReplays(r) PROVE Shape'
  <2>1. req[r].key \in Keys /\ ledger[req[r].key] \in Bound
    BY <1>7, KeysOfRequests DEF HostReplays, At, HostTypes, RunTypes, Shape
  <2>2. Idle(req[r].key, "blocked") # None /\ ledger[req[r].key].receipt # None
    BY <2>1, DeltaTyped DEF Idle, Statuses, HostTypes, Bound
  <2> QED BY <1>7, <2>2 DEF HostReplays, At, Answer, Goto, RunTypes, HostTypes, Shape,
      Mutates, Awaiting, Writing, Ended
<1>8. ASSUME NEW r \in Runs, HostDeclines(r) PROVE Shape'
  <2>1. Idle(req[r].key, IF req[r].dry THEN "validated" ELSE "blocked") # None
    BY <1>8, KeysOfRequests, DeltaTyped DEF HostDeclines, Unbound, At, Bind, Answer, Goto,
        RunTypes, HostTypes, Shape, Mutates, Awaiting, Writing, Ended, Idle, Statuses
  <2> QED BY <1>8, <2>1 DEF HostDeclines, Unbound, At, Bind, Answer, Goto, RunTypes,
      HostTypes, Shape, Mutates, Awaiting, Writing, Ended
<1>9. ASSUME NEW r \in Runs, HostRuns(r) PROVE Shape'
  <2>1. req[r] \in Requests /\ Mutates(r) /\ doc \in Scenes /\ req[r].key \in Keys \cup {None}
    BY <1>9, KeysOfRequests DEF HostRuns, Accepts, Unbound, At, HostTypes, RunTypes, Shape
  <2>2. PICK e \in Effects(r, doc) \cup {doc} :
           LET rc == Delta(req[r].key, "completed", doc, e)
           IN doc' = e /\ Bind(r, rc) /\ Answer(r, rc)
    BY <1>9 DEF HostRuns
  <2>3. e \in Scenes
    BY <2>1, EffectsTyped
  <2> DEFINE rc == Delta(req[r].key, "completed", doc, e)
  <2>4. rc \in Receipts
    BY <2>1, <2>3, DeltaTyped DEF Statuses
  <2> QED BY <1>9, <2>2, <2>4 DEF HostRuns, Accepts, Unbound, At, Bind, Answer, Goto,
      ChangedBy, Windowed, RunTypes, HostTypes, Shape, Mutates, Awaiting, Writing, Ended
<1>10. ASSUME NEW r \in Runs, HostFails(r) PROVE Shape'
  <2>1. req[r] \in Requests /\ Mutates(r) /\ doc \in Scenes /\ req[r].key \in Keys \cup {None}
    BY <1>10, KeysOfRequests DEF HostFails, Accepts, Unbound, At, HostTypes, RunTypes, Shape
  <2>2. PICK e \in Effects(r, doc) \cup {doc} :
           LET rc == Delta(req[r].key, "failed", doc, e)
           IN doc' = e /\ Bind(r, rc) /\ Answer(r, rc)
    BY <1>10 DEF HostFails
  <2>3. e \in Scenes
    BY <2>1, EffectsTyped
  <2> DEFINE rc == Delta(req[r].key, "failed", doc, e)
  <2>4. rc \in Receipts
    BY <2>1, <2>3, DeltaTyped DEF Statuses
  <2> QED BY <1>10, <2>2, <2>4 DEF HostFails, Accepts, Unbound, At, Bind, Answer, Goto,
      ChangedBy, Windowed, Fault, RunTypes, HostTypes, Shape, Mutates, Awaiting, Writing,
      Ended
<1>11. ASSUME NEW r \in Runs, Expire(r) PROVE Shape'
  <2>1. Idle(None, "unknown") # None
    BY DeltaTyped DEF Idle, Statuses, HostTypes
  <2> QED BY <1>11, <2>1 DEF Expire, Lose, Goto, GivenUp, RunTypes, HostTypes, Shape,
      Mutates, Awaiting, Writing, Ended
<1>12. ASSUME NEW r \in Runs, Cancel(r) PROVE Shape'
  BY <1>12 DEF Cancel, Goto, GivenUp, Fault, RunTypes, HostTypes, Shape, Mutates,
      Awaiting, Writing, Ended
<1>13. ASSUME NEW r \in Runs, LateEffect(r) PROVE Shape'
  BY <1>13 DEF LateEffect, ChangedBy, Windowed, RunTypes, HostTypes, Shape, Mutates,
      Awaiting, Writing, Ended
<1>14. ASSUME NEW n \in Notes, RecordNote(n) PROVE Shape'
  BY <1>14 DEF RecordNote, RunTypes, HostTypes, Shape, Mutates, Awaiting, Writing, Ended
<1>15. ASSUME ForeignEdit PROVE Shape'
  BY <1>15 DEF ForeignEdit, ChangedBy, Windowed, Fault, RunTypes, HostTypes, Shape,
      Mutates, Awaiting, Writing, Ended
<1>16. ASSUME Crash PROVE Shape'
  BY <1>16 DEF Crash, GivenUp, Fault, RunTypes, HostTypes, Shape, Mutates, Awaiting,
      Writing, Ended
<1> QED
  BY <1>0, <1>1, <1>2, <1>3, <1>4, <1>5, <1>6, <1>7, <1>8, <1>9, <1>10, <1>11,
     <1>12, <1>13, <1>14, <1>15, <1>16 DEF Next, RunStep

\* The windows: whoever changes the document disturbs every other open window, and a
\* receipt replayed over an unchanged document does not verify.
LEMMA WindowsStep ==
  ASSUME WorkflowInv, [Next]_vars
  PROVE  Windows'
<1> USE WorkflowConstants, NoneIsNoRecord DEF WorkflowInv, host, files, local
<1>0. CASE UNCHANGED vars
  BY <1>0 DEF vars, HostTypes, RunTypes, Shape, Windows, InWindow, Claims, Writing, Ended,
      Awaiting
<1>1. ASSUME NEW r \in Runs, NEW q \in Requests, Start(r, q) PROVE Windows'
  BY <1>1 DEF Start, At, Goto, HostTypes, RunTypes, Shape, Windows, InWindow, Claims,
      Writing, Ended, Awaiting
<1>2. ASSUME NEW r \in Runs, Queried(r) PROVE Windows'
  BY <1>2 DEF Queried, At, Goto, Mutates, HostTypes, RunTypes, Shape, Windows, InWindow,
      Claims, Writing, Ended, Awaiting
<1>3. ASSUME NEW r \in Runs, Receive(r) PROVE Windows'
  BY <1>3 DEF Receive, At, Goto, HostTypes, RunTypes, Shape, Windows, InWindow, Claims,
      Writing, Ended, Awaiting
<1>4. ASSUME NEW r \in Runs, Verify(r) PROVE Windows'
  <2>1. pc[r] = "verify" /\ receipt[r].status = "completed" /\ verdict[r] # "verified"
    BY <1>4 DEF Verify, At, Windows, Writing, Ended
  <2>2. InWindow(r)
    BY <2>1 DEF InWindow
  <2>3. CASE r \in disturbed \/ r \in ran
    BY <1>4, <2>1, <2>3 DEF Verify, At, Goto, HostTypes, RunTypes, Shape, Windows,
        InWindow, Claims, Writing, Ended, Awaiting
  <2>4. CASE r \notin disturbed /\ r \notin ran
    <3>1. doc = before[r]
      BY <2>2, <2>4 DEF Windows
    <3>2. Agrees(r, before[r], doc) => Claims(r) = {}
      BY <3>1, <2>1 DEF Agrees, Claims, Seen
    <3> HIDE DEF Claims
    <3>3. /\ verdict' = [verdict EXCEPT ![r] = verdict'[r]]
          /\ verdict'[r] = "verified" => Claims(r) = {}
          /\ UNCHANGED <<receipt, doc, before, ran, disturbed>>
          /\ pc' = [pc EXCEPT ![r] = "put"]
      BY <1>4, <3>2 DEF Verify, Goto, RunTypes
    <3>4. \A s \in Runs : Claims(s)' = Claims(s)
      BY <3>3 DEF Claims
    <3> QED BY <2>1, <3>3, <3>4 DEF RunTypes, Shape, Windows, InWindow, Writing, Ended
  <2> QED BY <2>3, <2>4
<1>5. ASSUME NEW r \in Runs, Put(r) PROVE Windows'
  BY <1>5 DEF Put, Store, ToTrace, Goto, Fault, HostTypes, RunTypes, Shape, Windows,
      InWindow, Claims, Writing, Ended, Awaiting
<1>6. ASSUME NEW r \in Runs, AppendTrace(r) PROVE Windows'
  BY <1>6 DEF AppendTrace, Goto, Fault, HostTypes, RunTypes, Shape, Windows, InWindow,
      Claims, Writing, Ended, Awaiting
<1>7. ASSUME NEW r \in Runs, HostReplays(r) PROVE Windows'
  BY <1>7 DEF HostReplays, At, Answer, Goto, HostTypes, RunTypes, Shape, Windows,
      InWindow, Claims, Writing, Ended, Awaiting
<1>8. ASSUME NEW r \in Runs, HostDeclines(r) PROVE Windows'
  BY <1>8 DEF HostDeclines, Unbound, At, Bind, Answer, Goto, HostTypes, RunTypes, Shape,
      Windows, InWindow, Claims, Writing, Ended, Awaiting
<1>9. ASSUME NEW r \in Runs, HostRuns(r) PROVE Windows'
  BY <1>9 DEF HostRuns, Accepts, Unbound, At, Bind, Answer, Goto, ChangedBy, Windowed,
      HostTypes, RunTypes, Shape, Windows, InWindow, Claims, Writing, Ended, Awaiting
<1>10. ASSUME NEW r \in Runs, HostFails(r) PROVE Windows'
  <2>1. PICK e \in Effects(r, doc) \cup {doc} :
           LET rc == Delta(req[r].key, "failed", doc, e)
           IN doc' = e /\ Bind(r, rc) /\ Answer(r, rc)
    BY <1>10 DEF HostFails
  <2> DEFINE rc == Delta(req[r].key, "failed", doc, e)
  <2>2. rc.status = "failed"
    BY DEF Delta
  <2>3. /\ receipt' = [receipt EXCEPT ![r] = rc] /\ pc' = [pc EXCEPT ![r] = "answered"]
        /\ UNCHANGED <<before, verdict, ran>> /\ pc[r] = "mutate"
        /\ disturbed' = disturbed \cup ({s \in Runs : pc[s] \in {"mutate", "answered", "verify"}} \ {r})
    BY <1>10, <2>1 DEF HostFails, Answer, Goto, Accepts, Unbound, At, ChangedBy, Windowed
  <2> HIDE DEF rc
  <2>4. verdict[r] # "verified"
    BY <2>3 DEF Windows, Writing, Ended
  <2>5. \A s \in Runs \ {r} : receipt'[s] = receipt[s] /\ pc'[s] = pc[s] /\ Claims(s)' = Claims(s)
    BY <2>3 DEF RunTypes, Claims
  <2>6. receipt'[r] = rc /\ pc'[r] = "answered" /\ ~InWindow(r)'
    BY <2>2, <2>3 DEF RunTypes, InWindow
  <2>7. \A s \in Runs \ {r} : InWindow(s)' => s \in disturbed'
    BY <2>3, <2>5 DEF InWindow
  <2>8. disturbed \subseteq disturbed'
    BY <2>3
  <2> QED BY <2>3, <2>4, <2>5, <2>6, <2>7, <2>8 DEF Windows, Writing, Ended
<1>11. ASSUME NEW r \in Runs, Expire(r) PROVE Windows'
  BY <1>11 DEF Expire, Lose, Goto, GivenUp, HostTypes, RunTypes, Shape, Windows, InWindow,
      Claims, Writing, Ended, Awaiting
<1>12. ASSUME NEW r \in Runs, Cancel(r) PROVE Windows'
  BY <1>12 DEF Cancel, Goto, GivenUp, Fault, HostTypes, RunTypes, Shape, Windows,
      InWindow, Claims, Writing, Ended, Awaiting
<1>13. ASSUME NEW r \in Runs, LateEffect(r) PROVE Windows'
  BY <1>13 DEF LateEffect, ChangedBy, Windowed, HostTypes, RunTypes, Shape, Windows,
      InWindow, Claims, Writing, Ended, Awaiting
<1>14. ASSUME NEW n \in Notes, RecordNote(n) PROVE Windows'
  BY <1>14 DEF RecordNote, HostTypes, RunTypes, Shape, Windows, InWindow, Claims, Writing,
      Ended, Awaiting
<1>15. ASSUME ForeignEdit PROVE Windows'
  BY <1>15 DEF ForeignEdit, ChangedBy, Windowed, Fault, HostTypes, RunTypes, Shape,
      Windows, InWindow, Claims, Writing, Ended, Awaiting
<1>16. ASSUME Crash PROVE Windows'
  BY <1>16 DEF Crash, GivenUp, Fault, HostTypes, RunTypes, Shape, Windows, InWindow,
      Claims, Writing, Ended, Awaiting
<1> QED
  BY <1>0, <1>1, <1>2, <1>3, <1>4, <1>5, <1>6, <1>7, <1>8, <1>9, <1>10, <1>11,
     <1>12, <1>13, <1>14, <1>15, <1>16 DEF Next, RunStep

\* The evidence: the outcome is stored before its trace is written.
LEMMA EvidenceStep ==
  ASSUME WorkflowInv, [Next]_vars
  PROVE  Evidence'
<1> USE WorkflowConstants, NoneIsNoRecord DEF WorkflowInv, host, files, local
<1>0. CASE UNCHANGED vars
  BY <1>0 DEF vars, RunTypes, Shape, Evidence, Lines, OutcomeOf, Mutates, Writing, Ended,
      Awaiting
<1>1. ASSUME NEW r \in Runs, NEW q \in Requests, Start(r, q) PROVE Evidence'
  <2>1. /\ UNCHANGED <<journal, acked, memory>>
        /\ pc[r] \notin Ended /\ pc'[r] \notin {"append", "done"}
    BY <1>1 DEF Start, At, Goto, RunTypes, Awaiting, Ended
  <2>2. \A s \in Runs \ {r} : /\ req'[s] = req[s] /\ receipt'[s] = receipt[s]
                               /\ verdict'[s] = verdict[s] /\ pc'[s] = pc[s]
    BY <1>1 DEF Start, At, Goto, RunTypes
  <2>3. \A s \in Runs \ {r} : OutcomeOf(s)' = OutcomeOf(s) /\ (Mutates(s)' <=> Mutates(s))
    BY <2>2 DEF OutcomeOf, Mutates
  <2> QED BY <2>1, <2>2, <2>3, EvidenceLocal
<1>2. ASSUME NEW r \in Runs, Queried(r) PROVE Evidence'
  BY <1>2 DEF Queried, At, Goto, Mutates, RunTypes, Shape, Evidence, Lines, OutcomeOf,
      Writing, Ended, Awaiting
<1>3. ASSUME NEW r \in Runs, Receive(r) PROVE Evidence'
  <2>1. /\ UNCHANGED <<journal, acked, memory>>
        /\ pc[r] \notin Ended /\ pc'[r] \notin {"append", "done"}
    BY <1>3 DEF Receive, At, Goto, RunTypes, Awaiting, Ended
  <2>2. \A s \in Runs \ {r} : /\ req'[s] = req[s] /\ receipt'[s] = receipt[s]
                               /\ verdict'[s] = verdict[s] /\ pc'[s] = pc[s]
    BY <1>3 DEF Receive, At, Goto, RunTypes
  <2>3. \A s \in Runs \ {r} : OutcomeOf(s)' = OutcomeOf(s) /\ (Mutates(s)' <=> Mutates(s))
    BY <2>2 DEF OutcomeOf, Mutates
  <2> QED BY <2>1, <2>2, <2>3, EvidenceLocal
<1>4. ASSUME NEW r \in Runs, Verify(r) PROVE Evidence'
  <2>1. /\ UNCHANGED <<journal, acked, memory>>
        /\ pc[r] \notin Ended /\ pc'[r] \notin {"append", "done"}
    BY <1>4 DEF Verify, At, Goto, RunTypes, Awaiting, Ended
  <2>2. \A s \in Runs \ {r} : /\ req'[s] = req[s] /\ receipt'[s] = receipt[s]
                               /\ verdict'[s] = verdict[s] /\ pc'[s] = pc[s]
    BY <1>4 DEF Verify, At, Goto, RunTypes
  <2>3. \A s \in Runs \ {r} : OutcomeOf(s)' = OutcomeOf(s) /\ (Mutates(s)' <=> Mutates(s))
    BY <2>2 DEF OutcomeOf, Mutates
  <2> QED BY <2>1, <2>2, <2>3, EvidenceLocal
<1>5. ASSUME NEW r \in Runs, Put(r) PROVE Evidence'
  BY <1>5 DEF Put, Store, ToTrace, Goto, Fault, RunTypes, Shape, Evidence, Lines,
      OutcomeOf, Mutates, Writing, Ended, Awaiting
<1>6. ASSUME NEW r \in Runs, AppendTrace(r) PROVE Evidence'
  <2>1. CASE Decodes /\ Record(r) /\ Goto(r, "done")
    <3>1. Lines' \subseteq Lines \cup {r, "garbage"} /\ acked' \subseteq acked \cup {r} /\ r \in acked' \cup Lines
      BY <2>1, RecordKeeps
    <3>2. OutcomeOf(r) \in memory /\ r \notin acked \cup Lines
      BY <1>6 DEF AppendTrace, Evidence, Ended, RunTypes
    <3>3. /\ memory' = memory /\ \A s \in Runs : OutcomeOf(s)' = OutcomeOf(s) /\ (Mutates(s)' <=> Mutates(s))
          /\ pc' = [pc EXCEPT ![r] = "done"]
      BY <1>6, <2>1 DEF AppendTrace, host, OutcomeOf, Mutates, Goto
    <3>4. "garbage" \notin Runs
      OBVIOUS
    <3>5. \A s \in Runs : s \in acked' \cup Lines' => s = r \/ s \in acked \cup Lines
      BY <3>1, <3>4
    <3>6. r \in acked'
      BY <3>1, <3>2
    <3>7. \A s \in Runs : pc'[s] = IF s = r THEN "done" ELSE pc[s]
      BY <3>3 DEF RunTypes
    <3>8. \A s \in Runs : s \in acked => s \in acked'
      BY <2>1 DEF Record
    <3> HIDE DEF WorkflowInv
    <3>9. Evidence
      BY DEF WorkflowInv
    <3> QED BY <3>2, <3>3, <3>5, <3>6, <3>7, <3>8, <3>9 DEF Evidence, Ended
  <2>2. CASE Goto(r, "raised") /\ UNCHANGED <<journal, tail, acked, damage>>
    BY <1>6, <2>2 DEF AppendTrace, Goto, RunTypes, Shape, Evidence, Lines, OutcomeOf,
        Mutates, Writing, Ended, Awaiting
  <2> QED BY <1>6, <2>1, <2>2 DEF AppendTrace
<1>7. ASSUME NEW r \in Runs, HostReplays(r) PROVE Evidence'
  <2>1. /\ UNCHANGED <<journal, acked, memory>>
        /\ pc[r] \notin Ended /\ pc'[r] \notin {"append", "done"}
    BY <1>7 DEF HostReplays, At, Answer, Goto, RunTypes, Awaiting, Ended
  <2>2. \A s \in Runs \ {r} : /\ req'[s] = req[s] /\ receipt'[s] = receipt[s]
                               /\ verdict'[s] = verdict[s] /\ pc'[s] = pc[s]
    BY <1>7 DEF HostReplays, At, Answer, Goto, RunTypes
  <2>3. \A s \in Runs \ {r} : OutcomeOf(s)' = OutcomeOf(s) /\ (Mutates(s)' <=> Mutates(s))
    BY <2>2 DEF OutcomeOf, Mutates
  <2> QED BY <2>1, <2>2, <2>3, EvidenceLocal
<1>8. ASSUME NEW r \in Runs, HostDeclines(r) PROVE Evidence'
  <2>1. /\ UNCHANGED <<journal, acked, memory>>
        /\ pc[r] \notin Ended /\ pc'[r] \notin {"append", "done"}
    BY <1>8 DEF HostDeclines, Unbound, At, Bind, Answer, Goto, RunTypes, Awaiting, Ended
  <2>2. \A s \in Runs \ {r} : /\ req'[s] = req[s] /\ receipt'[s] = receipt[s]
                               /\ verdict'[s] = verdict[s] /\ pc'[s] = pc[s]
    BY <1>8 DEF HostDeclines, Unbound, At, Bind, Answer, Goto, RunTypes
  <2>3. \A s \in Runs \ {r} : OutcomeOf(s)' = OutcomeOf(s) /\ (Mutates(s)' <=> Mutates(s))
    BY <2>2 DEF OutcomeOf, Mutates
  <2> QED BY <2>1, <2>2, <2>3, EvidenceLocal
<1>9. ASSUME NEW r \in Runs, HostRuns(r) PROVE Evidence'
  <2>1. /\ UNCHANGED <<journal, acked, memory>>
        /\ pc[r] \notin Ended /\ pc'[r] \notin {"append", "done"}
    BY <1>9 DEF HostRuns, Accepts, Unbound, At, Bind, Answer, Goto, ChangedBy, Windowed,
        RunTypes, Awaiting, Ended
  <2>2. \A s \in Runs \ {r} : /\ req'[s] = req[s] /\ receipt'[s] = receipt[s]
                               /\ verdict'[s] = verdict[s] /\ pc'[s] = pc[s]
    BY <1>9 DEF HostRuns, Accepts, Unbound, At, Bind, Answer, Goto, ChangedBy, Windowed,
        RunTypes
  <2>3. \A s \in Runs \ {r} : OutcomeOf(s)' = OutcomeOf(s) /\ (Mutates(s)' <=> Mutates(s))
    BY <2>2 DEF OutcomeOf, Mutates
  <2> QED BY <2>1, <2>2, <2>3, EvidenceLocal
<1>10. ASSUME NEW r \in Runs, HostFails(r) PROVE Evidence'
  <2>1. /\ UNCHANGED <<journal, acked, memory>>
        /\ pc[r] \notin Ended /\ pc'[r] \notin {"append", "done"}
    BY <1>10 DEF HostFails, Accepts, Unbound, At, Bind, Answer, Goto, ChangedBy, Windowed,
        Fault, RunTypes, Awaiting, Ended
  <2>2. \A s \in Runs \ {r} : /\ req'[s] = req[s] /\ receipt'[s] = receipt[s]
                               /\ verdict'[s] = verdict[s] /\ pc'[s] = pc[s]
    BY <1>10 DEF HostFails, Accepts, Unbound, At, Bind, Answer, Goto, ChangedBy, Windowed,
        Fault, RunTypes
  <2>3. \A s \in Runs \ {r} : OutcomeOf(s)' = OutcomeOf(s) /\ (Mutates(s)' <=> Mutates(s))
    BY <2>2 DEF OutcomeOf, Mutates
  <2> QED BY <2>1, <2>2, <2>3, EvidenceLocal
<1>11. ASSUME NEW r \in Runs, Expire(r) PROVE Evidence'
  <2>1. /\ UNCHANGED <<journal, acked, memory>>
        /\ pc[r] \notin Ended /\ pc'[r] \notin {"append", "done"}
    BY <1>11 DEF Expire, Lose, Goto, GivenUp, RunTypes, Awaiting, Ended
  <2>2. \A s \in Runs \ {r} : /\ req'[s] = req[s] /\ receipt'[s] = receipt[s]
                               /\ verdict'[s] = verdict[s] /\ pc'[s] = pc[s]
    BY <1>11 DEF Expire, Lose, Goto, GivenUp, RunTypes
  <2>3. \A s \in Runs \ {r} : OutcomeOf(s)' = OutcomeOf(s) /\ (Mutates(s)' <=> Mutates(s))
    BY <2>2 DEF OutcomeOf, Mutates
  <2> QED BY <2>1, <2>2, <2>3, EvidenceLocal
<1>12. ASSUME NEW r \in Runs, Cancel(r) PROVE Evidence'
  <2>1. /\ UNCHANGED <<journal, acked, memory>>
        /\ pc[r] \notin Ended /\ pc'[r] \notin {"append", "done"}
    BY <1>12 DEF Cancel, Goto, GivenUp, Fault, RunTypes, Awaiting, Ended
  <2>2. \A s \in Runs \ {r} : /\ req'[s] = req[s] /\ receipt'[s] = receipt[s]
                               /\ verdict'[s] = verdict[s] /\ pc'[s] = pc[s]
    BY <1>12 DEF Cancel, Goto, GivenUp, Fault, RunTypes
  <2>3. \A s \in Runs \ {r} : OutcomeOf(s)' = OutcomeOf(s) /\ (Mutates(s)' <=> Mutates(s))
    BY <2>2 DEF OutcomeOf, Mutates
  <2> QED BY <2>1, <2>2, <2>3, EvidenceLocal
<1>13. ASSUME NEW r \in Runs, LateEffect(r) PROVE Evidence'
  BY <1>13 DEF LateEffect, ChangedBy, Windowed, RunTypes, Shape, Evidence, Lines,
      OutcomeOf, Mutates, Writing, Ended, Awaiting
<1>14. ASSUME NEW n \in Notes, RecordNote(n) PROVE Evidence'
  <2>1. Lines' \subseteq Lines \cup {n, "garbage"} /\ acked' \subseteq acked \cup {n}
    BY <1>14, RecordKeeps DEF RecordNote
  <2>2. n \notin Runs /\ "garbage" \notin Runs
    OBVIOUS
  <2>3. UNCHANGED <<memory, local>> /\ \A s \in Runs : OutcomeOf(s)' = OutcomeOf(s) /\ (Mutates(s)' <=> Mutates(s))
    BY <1>14 DEF RecordNote, OutcomeOf, Mutates
  <2>4. acked \subseteq acked' /\ pc' = pc
    BY <1>14 DEF RecordNote, Record
  <2>5. \A s \in Runs : s \in acked' \cup Lines' => s \in acked \cup Lines
    BY <2>1, <2>2
  <2>6. memory' = memory /\ Evidence
    BY <2>3
  <2> HIDE DEF WorkflowInv
  <2> QED BY <2>3, <2>4, <2>5, <2>6 DEF Evidence
<1>15. ASSUME ForeignEdit PROVE Evidence'
  BY <1>15 DEF ForeignEdit, ChangedBy, Windowed, Fault, RunTypes, Shape, Evidence, Lines,
      OutcomeOf, Mutates, Writing, Ended, Awaiting
<1>16. ASSUME Crash PROVE Evidence'
  <2>1. Lines' \subseteq Lines \cup {r \in Runs : pc[r] = "append"} \cup {"garbage"}
    BY <1>16, CrashWrites
  <2>2. "garbage" \notin Runs
    OBVIOUS
  <2>3. /\ UNCHANGED <<memory, acked>> /\ \A s \in Runs : OutcomeOf(s)' = OutcomeOf(s) /\ (Mutates(s)' <=> Mutates(s))
        /\ pc' = [r \in Runs |-> IF pc[r] \in Awaiting \cup Writing THEN "dead" ELSE pc[r]]
    BY <1>16 DEF Crash, OutcomeOf, Mutates
  <2> QED BY <2>1, <2>2, <2>3 DEF Evidence, RunTypes, Awaiting, Writing, Ended
<1> QED
  BY <1>0, <1>1, <1>2, <1>3, <1>4, <1>5, <1>6, <1>7, <1>8, <1>9, <1>10, <1>11,
     <1>12, <1>13, <1>14, <1>15, <1>16 DEF Next, RunStep

\* The files: append decides what becomes of them.
LEMMA FilesStep ==
  ASSUME WorkflowInv, [Next]_vars
  PROVE  (FileTypes /\ RecordedOnce /\ Bounded)'
<1> USE WorkflowConstants, NoneIsNoRecord DEF WorkflowInv, host, files, local
<1>0. CASE UNCHANGED vars
  BY <1>0 DEF vars, FileTypes, RecordedOnce, Bounded, Decodes, Lines, KnownIds, Lost,
      Pending
<1>1. ASSUME NEW r \in Runs, NEW q \in Requests, Start(r, q) PROVE (FileTypes /\ RecordedOnce /\ Bounded)'
  BY <1>1 DEF Start, At, Goto, FileTypes, RecordedOnce, Bounded, Decodes, Lines, KnownIds,
      Lost, Pending
<1>2. ASSUME NEW r \in Runs, Queried(r) PROVE (FileTypes /\ RecordedOnce /\ Bounded)'
  BY <1>2 DEF Queried, At, Goto, Mutates, FileTypes, RecordedOnce, Bounded, Decodes,
      Lines, KnownIds, Lost, Pending
<1>3. ASSUME NEW r \in Runs, Receive(r) PROVE (FileTypes /\ RecordedOnce /\ Bounded)'
  BY <1>3 DEF Receive, At, Goto, FileTypes, RecordedOnce, Bounded, Decodes, Lines,
      KnownIds, Lost, Pending
<1>4. ASSUME NEW r \in Runs, Verify(r) PROVE (FileTypes /\ RecordedOnce /\ Bounded)'
  BY <1>4 DEF Verify, At, Goto, FileTypes, RecordedOnce, Bounded, Decodes, Lines,
      KnownIds, Lost, Pending
<1>5. ASSUME NEW r \in Runs, Put(r) PROVE (FileTypes /\ RecordedOnce /\ Bounded)'
  BY <1>5 DEF Put, Store, ToTrace, Goto, Fault, FileTypes, RecordedOnce, Bounded, Decodes,
      Lines, KnownIds, Lost, Pending
<1>6. ASSUME NEW r \in Runs, AppendTrace(r) PROVE (FileTypes /\ RecordedOnce /\ Bounded)'
  <2>1. CASE Decodes /\ Record(r)
    BY <2>1, RecordKeeps
  <2>2. CASE UNCHANGED <<journal, tail, acked, damage>> /\ (Fault \/ UNCHANGED faults)
    BY <2>2 DEF Fault, FileTypes, RecordedOnce, Bounded, Decodes, Lines, KnownIds, Lost,
        Pending
  <2> QED BY <1>6, <2>1, <2>2 DEF AppendTrace
<1>7. ASSUME NEW r \in Runs, HostReplays(r) PROVE (FileTypes /\ RecordedOnce /\ Bounded)'
  BY <1>7 DEF HostReplays, At, Answer, Goto, FileTypes, RecordedOnce, Bounded, Decodes,
      Lines, KnownIds, Lost, Pending
<1>8. ASSUME NEW r \in Runs, HostDeclines(r) PROVE (FileTypes /\ RecordedOnce /\ Bounded)'
  BY <1>8 DEF HostDeclines, Unbound, At, Bind, Answer, Goto, FileTypes, RecordedOnce,
      Bounded, Decodes, Lines, KnownIds, Lost, Pending
<1>9. ASSUME NEW r \in Runs, HostRuns(r) PROVE (FileTypes /\ RecordedOnce /\ Bounded)'
  BY <1>9 DEF HostRuns, Accepts, Unbound, At, Bind, Answer, Goto, ChangedBy, Windowed,
      FileTypes, RecordedOnce, Bounded, Decodes, Lines, KnownIds, Lost, Pending
<1>10. ASSUME NEW r \in Runs, HostFails(r) PROVE (FileTypes /\ RecordedOnce /\ Bounded)'
  BY <1>10 DEF HostFails, Accepts, Unbound, At, Bind, Answer, Goto, ChangedBy, Windowed,
      Fault, FileTypes, RecordedOnce, Bounded, Decodes, Lines, KnownIds, Lost, Pending
<1>11. ASSUME NEW r \in Runs, Expire(r) PROVE (FileTypes /\ RecordedOnce /\ Bounded)'
  BY <1>11 DEF Expire, Lose, Goto, GivenUp, FileTypes, RecordedOnce, Bounded, Decodes,
      Lines, KnownIds, Lost, Pending
<1>12. ASSUME NEW r \in Runs, Cancel(r) PROVE (FileTypes /\ RecordedOnce /\ Bounded)'
  BY <1>12 DEF Cancel, Goto, GivenUp, Fault, FileTypes, RecordedOnce, Bounded, Decodes,
      Lines, KnownIds, Lost, Pending
<1>13. ASSUME NEW r \in Runs, LateEffect(r) PROVE (FileTypes /\ RecordedOnce /\ Bounded)'
  BY <1>13 DEF LateEffect, ChangedBy, Windowed, FileTypes, RecordedOnce, Bounded, Decodes,
      Lines, KnownIds, Lost, Pending
<1>14. ASSUME NEW n \in Notes, RecordNote(n) PROVE (FileTypes /\ RecordedOnce /\ Bounded)'
  BY <1>14, RecordKeeps DEF RecordNote
<1>15. ASSUME ForeignEdit PROVE (FileTypes /\ RecordedOnce /\ Bounded)'
  BY <1>15 DEF ForeignEdit, ChangedBy, Windowed, Fault, FileTypes, RecordedOnce, Bounded,
      Decodes, Lines, KnownIds, Lost, Pending
<1>16. ASSUME Crash PROVE (FileTypes /\ RecordedOnce /\ Bounded)'
  BY <1>16, CrashWrites
<1> QED
  BY <1>0, <1>1, <1>2, <1>3, <1>4, <1>5, <1>6, <1>7, <1>8, <1>9, <1>10, <1>11,
     <1>12, <1>13, <1>14, <1>15, <1>16 DEF Next, RunStep
----------------------------------------------------------------------------
(* The theorems *)

\* All parts together.
LEMMA WorkflowInvStep == WorkflowInv /\ [Next]_vars => WorkflowInv'
<1> SUFFICES ASSUME WorkflowInv, [Next]_vars PROVE WorkflowInv'
  OBVIOUS
<1>1. HostTypes' /\ RunTypes' /\ Shape'
  BY HostTypesStep, RunTypesStep, ShapeStep
<1>2. FileTypes' /\ RecordedOnce' /\ Bounded'
  BY FilesStep
<1>3. Windows' /\ Evidence'
  BY WindowsStep, EvidenceStep
<1> QED BY <1>1, <1>2, <1>3 DEF WorkflowInv

\* The invariant holds in every reachable state.
LEMMA WorkflowInvariant == Spec => []WorkflowInv
  BY WorkflowInvInit, WorkflowInvStep, PTL DEF Spec

\* Every variable keeps its type, whatever runs, faults and crashes.
THEOREM WorkflowTypeCorrect == Spec => []TypeOK
<1>1. WorkflowInv => TypeOK
  BY DEF WorkflowInv, HostTypes, RunTypes, FileTypes, Shape, TypeOK
<1> QED BY <1>1, WorkflowInvariant, PTL

\* What verify_transaction verified, memory.py promotes and the exporter trains on was
\* done by the run itself, unless another changed the document in its window.
THEOREM WorkflowVerifiesWhatItDid == Spec => []VerifiedMeansDone
<1>1. WorkflowInv => VerifiedMeansDone
  BY DEF WorkflowInv, Windows, Claims, VerifiedMeansDone, Promoted, Examples, Accepted
<1> QED BY <1>1, WorkflowInvariant, PTL

\* _finish stores before it records and records before it tells.
THEOREM WorkflowKeepsEvidence == Spec => []EvidenceKept
<1>1. WorkflowInv => EvidenceKept
  BY DEF WorkflowInv, Evidence, EvidenceKept
<1> QED BY <1>1, WorkflowInvariant, PTL

\* No trace is recorded twice, and an incomplete write costs two traces at most.
THEOREM WorkflowJournalIsSound == Spec => []JournalIsSound
<1>1. ASSUME WorkflowInv PROVE JournalIsSound
  <2>1. ASSUME Decodes PROVE Cardinality(acked \ Readable) <= 2 * damage
    <3>1. acked \ Readable = Lost
      BY <2>1 DEF Readable, Lost, KnownIds
    <3>2. IsFiniteSet(Lost)
      BY <1>1, WorkflowConstants, FS_Subset DEF WorkflowInv, FileTypes, Lost
    <3>3. Cardinality(Lost) \in Nat /\ damage \in Nat /\ Pending \in Nat
      BY <1>1, <3>2, FS_CardinalityType, WorkflowConstants DEF WorkflowInv, FileTypes,
          Pending
    <3>4. Cardinality(Lost) + Pending <= 2 * damage
      BY <1>1, <2>1 DEF WorkflowInv, Bounded
    <3> QED BY <3>1, <3>3, <3>4
  <2> QED BY <1>1, <2>1 DEF WorkflowInv, JournalIsSound, DamageIsBounded
<1> QED BY <1>1, WorkflowInvariant, PTL
----------------------------------------------------------------------------
(* Why every run can end: what liveness rests on without fairness *)

\* The awaits and the writes a run has left at most.
StepsLeft(r) ==
    CASE pc[r] = "query" -> 6 [] pc[r] = "mutate" -> 5 [] pc[r] = "answered" -> 4
      [] pc[r] = "verify" -> 3 [] pc[r] = "put" -> 2 [] pc[r] = "append" -> 1
      [] OTHER -> 0

\* A run that has begun goes through its awaits and its two writes once, in
\* this order: each of its steps leaves it fewer, nobody else's more, and
\* neither a fault nor an end of the process makes it begin again.
EachStepIsNearer ==
    [][\A r \in Runs : pc[r] # "idle" =>
          /\ pc'[r] # "idle"
          /\ StepsLeft(r) \in Nat /\ StepsLeft(r)' \in Nat
          /\ StepsLeft(r)' <= StepsLeft(r)
          /\ RunStep(r) => StepsLeft(r)' < StepsLeft(r)]_vars

\* What a step of one run does to where the runs are.
LEMMA RunMoves ==
  ASSUME WorkflowInv, NEW r \in Runs, pc[r] # "idle", RunStep(r) \/ Cancel(r)
  PROVE  /\ pc'[r] # "idle" /\ StepsLeft(r)' < StepsLeft(r)
         /\ \A w \in Runs : w # r => pc'[w] = pc[w]
<1> USE DEF WorkflowInv, RunTypes, Goto, StepsLeft
<1>1. CASE Queried(r) \/ Receive(r) \/ Verify(r)
  BY <1>1 DEF Queried, Receive, Verify, At
<1>2. CASE HostReplays(r) \/ HostDeclines(r) \/ HostRuns(r) \/ HostFails(r)
  <2>1. pc[r] = "mutate" /\ pc' = [pc EXCEPT ![r] = "answered"]
    BY <1>2 DEF HostReplays, HostDeclines, HostRuns, HostFails, Accepts, Unbound, At, Answer
  <2> QED BY <2>1
<1>3. CASE Put(r) \/ AppendTrace(r)
  BY <1>3 DEF Put, AppendTrace, ToTrace
<1>4. CASE Expire(r)
  BY <1>4 DEF Expire, Lose
<1>5. CASE Cancel(r)
  BY <1>5 DEF Cancel, Awaiting
<1>6. \A q \in Requests : ~Start(r, q)
  BY DEF Start, At
<1> QED BY <1>1, <1>2, <1>3, <1>4, <1>5, <1>6 DEF RunStep

\* Together with the fairness of the loop and the deadlines this is why
\* EveryRunEnds holds.
THEOREM WorkflowStepsAreNearer == Spec => EachStepIsNearer
<1> DEFINE Nearer(r) == pc[r] # "idle" =>
              /\ pc'[r] # "idle"
              /\ StepsLeft(r) \in Nat /\ StepsLeft(r)' \in Nat
              /\ StepsLeft(r)' <= StepsLeft(r)
              /\ RunStep(r) => StepsLeft(r)' < StepsLeft(r)
<1>1. \A r \in Runs : StepsLeft(r) \in Nat /\ StepsLeft(r)' \in Nat
  BY DEF StepsLeft
<1>2. ASSUME WorkflowInv, Next, NEW r \in Runs, pc[r] # "idle" PROVE Nearer(r)
  <2> USE DEF WorkflowInv, RunTypes
  <2>1. CASE RunStep(r) \/ Cancel(r)
    BY <1>1, <1>2, <2>1, RunMoves
  <2>2. ASSUME ~RunStep(r), pc'[r] = pc[r] PROVE Nearer(r)
    BY <1>1, <2>2 DEF StepsLeft
  <2>3. ASSUME ~RunStep(r), NEW w \in Runs \ {r}, RunStep(w) \/ Cancel(w) PROVE Nearer(r)
    <3>1. CASE pc[w] # "idle"
      BY <1>2, <2>2, <2>3, <3>1, RunMoves
    <3>2. CASE pc[w] = "idle"
      <4>1. PICK q \in Requests : Start(w, q)
        BY <2>3, <3>2 DEF RunStep, Cancel, Awaiting, Queried, Receive, Verify, Put, AppendTrace, HostReplays,
             HostDeclines, HostRuns, HostFails, Accepts, Unbound, At, Expire
      <4> QED BY <1>2, <2>2, <2>3, <4>1 DEF Start, Goto
    <3> QED BY <3>1, <3>2
  <2>4. CASE ~RunStep(r) /\ \/ \E w \in Runs : LateEffect(w)
                            \/ \E n \in Notes : RecordNote(n)
                            \/ ForeignEdit
    BY <2>2, <2>4 DEF LateEffect, RecordNote, ForeignEdit, local
  <2>5. CASE ~RunStep(r) /\ Crash
    BY <1>1, <1>2, <2>5 DEF Crash, StepsLeft
  <2> QED BY <1>2, <2>1, <2>3, <2>4, <2>5 DEF Next
<1>3. WorkflowInv /\ [Next]_vars => [\A r \in Runs : Nearer(r)]_vars
  BY <1>2
<1> QED BY <1>3, WorkflowInvariant, PTL DEF Spec, EachStepIsNearer
=============================================================================
