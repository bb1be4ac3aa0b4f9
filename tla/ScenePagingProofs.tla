-------------------------- MODULE ScenePagingProofs --------------------------
(***************************************************************************)
(* Proofs about the paged reads of a scene, for any documents, caps, page  *)
(* sizes, limits and edits.                                                *)
(*                                                                         *)
(* The offset is the number of objects received.  Nothing that was in the  *)
(* document at the start is left behind it: an object moves towards the    *)
(* end when another is created before it, and only a deletion moves it     *)
(* back.  A page is empty only past the end, the cap being positive.       *)
(***************************************************************************)
EXTENDS ScenePaging, TLAPS

\* What a page is going to bring is still to come.
Ahead == {doc[i] : i \in {j \in DOMAIN doc : j > offset}}

Counts ==
    /\ offset = Len(objects)
    /\ pc = "paging" => ~truncated /\ (reader = "scene_index" => Len(objects) < MaxObjects)

Seen == Elements(doc) \cup Elements(objects) \subseteq past

Unedited ==
    edits = <<>> => /\ offset <= Len(doc)
                    /\ \A i \in DOMAIN objects : objects[i] = doc[i]

NothingBehind == Undeleted => Elements(start) \subseteq Elements(objects) \cup Ahead

TruncatedRight ==
    truncated /\ edits = <<>> /\ GivesTotal => Len(objects) = MaxObjects /\ Len(objects) < Len(doc)

PagingInv ==
    TypeOK /\ Counts /\ Seen /\ Unedited /\ NothingBehind /\ TruncatedRight /\ IndexIsWhole

----------------------------------------------------------------------------
(* Pages and edits *)

\* The objects of a page.
LEMMA PageIs ==
  ASSUME TypeOK, Counts, NEW limit \in Nat \ {0}
  PROVE  /\ Page(limit) \in Seq(Ids)
         /\ Len(Page(limit)) <= limit
         /\ Page(limit) = <<>> => Len(doc) <= offset
         /\ offset + Len(Page(limit)) <= Len(doc) \/ Page(limit) = <<>>
         /\ \A i \in DOMAIN Page(limit) : offset + i \in DOMAIN doc /\ Page(limit)[i] = doc[offset + i]
<1> DEFINE last == Least(offset + Least(limit, Cap), Len(doc))
<1>1. /\ offset \in Nat /\ last \in Nat /\ last <= Len(doc) /\ last <= offset + limit
      /\ last > offset \/ (Len(doc) <= offset /\ last = Len(doc))
  BY PagingAssumption DEF TypeOK, Counts, Least
<1>2. Page(limit) = SubSeq(doc, offset + 1, last)
  BY DEF Page
<1> HIDE DEF last
<1>3. doc \in Seq(Ids)
  BY DEF TypeOK
<1>4. CASE last > offset
  <2>1. /\ SubSeq(doc, offset + 1, last) \in Seq(Ids)
        /\ Len(SubSeq(doc, offset + 1, last)) = last - offset
        /\ \A i \in 1..(last - offset) : SubSeq(doc, offset + 1, last)[i] = doc[offset + i]
    BY <1>1, <1>3, <1>4
  <2>2. Page(limit) \in Seq(Ids) /\ Len(Page(limit)) = last - offset
    BY <1>2, <2>1
  <2>3. Page(limit) # <<>> /\ DOMAIN Page(limit) = 1..(last - offset)
    BY <1>1, <1>4, <2>2
  <2>4. \A i \in 1..(last - offset) : offset + i \in DOMAIN doc /\ Page(limit)[i] = doc[offset + i]
    BY <1>1, <1>2, <1>3, <1>4, <2>1
  <2> QED BY <1>1, <1>4, <2>2, <2>3, <2>4
<1>5. CASE ~(last > offset)
  <2>1. SubSeq(doc, offset + 1, last) = <<>>
    BY <1>1, <1>3, <1>5
  <2> QED BY <1>1, <1>2, <1>3, <1>5, <2>1
<1> QED BY <1>4, <1>5

\* What the received objects are after a page.
LEMMA Taken ==
  ASSUME TypeOK, Counts, NEW limit \in Nat \ {0}, Take(Page(limit))
  PROVE  /\ objects' \in Seq(Ids) /\ offset' = Len(objects')
         /\ offset' = offset + Len(Page(limit)) /\ Len(Page(limit)) \in Nat
         /\ DOMAIN objects \subseteq DOMAIN objects'
         /\ \A i \in DOMAIN objects : objects'[i] = objects[i]
         /\ \A i \in DOMAIN objects' \ DOMAIN objects : i \in DOMAIN doc /\ objects'[i] = doc[i]
         /\ \A i \in DOMAIN doc : i > offset /\ i <= offset' => i \in DOMAIN objects' /\ objects'[i] = doc[i]
<1> DEFINE batch == Page(limit)
<1>1. /\ batch \in Seq(Ids) /\ objects \in Seq(Ids) /\ doc \in Seq(Ids) /\ offset = Len(objects)
      /\ \A i \in DOMAIN batch : offset + i \in DOMAIN doc /\ batch[i] = doc[offset + i]
  BY PageIs DEF TypeOK, Counts
<1>2. objects' = objects \o batch /\ offset' = offset + Len(batch)
  BY DEF Take
<1> HIDE DEF batch
<1>3. /\ objects \o batch \in Seq(Ids) /\ Len(objects \o batch) = offset + Len(batch)
      /\ Len(batch) \in Nat /\ offset \in Nat
      /\ \A i \in 1..offset : (objects \o batch)[i] = objects[i]
      /\ \A i \in (offset + 1)..(offset + Len(batch)) : (objects \o batch)[i] = batch[i - offset]
  BY <1>1
<1>4. \A i \in (offset + 1)..(offset + Len(batch)) : i \in DOMAIN doc /\ objects'[i] = doc[i]
  <2> TAKE i \in (offset + 1)..(offset + Len(batch))
  <2>1. i - offset \in DOMAIN batch /\ offset + (i - offset) = i
    BY <1>1, <1>3
  <2> QED BY <1>1, <1>2, <1>3, <2>1
<1>5. DOMAIN objects' = 1..(offset + Len(batch)) /\ DOMAIN objects = 1..offset /\ DOMAIN doc \subseteq Nat
  BY <1>1, <1>2, <1>3
<1> QED BY <1>2, <1>3, <1>4, <1>5 DEF batch

\* A page taken keeps what the loop knows of the document, and once the offset
\* is at the end of the document everything has been read.
LEMMA TakeKeeps ==
  ASSUME PagingInv, NEW limit \in Nat \ {0}, Take(Page(limit)),
         UNCHANGED <<doc, start, past, edits>>
  PROVE  /\ Seen' /\ Unedited' /\ NothingBehind'
         /\ Undeleted /\ offset' >= Len(doc) => Elements(start) \subseteq Elements(objects')
<1> USE DEF PagingInv
<1>1. /\ doc \in Seq(Ids) /\ objects \in Seq(Ids) /\ objects' \in Seq(Ids)
      /\ offset = Len(objects) /\ offset' = Len(objects') /\ offset' \in Nat /\ offset \in Nat
  BY Taken DEF TypeOK, Counts
<1>2. Elements(objects) \subseteq Elements(objects') /\ Elements(objects') \subseteq Elements(objects) \cup Elements(doc)
  BY Taken DEF Elements
<1>3. \A i \in DOMAIN doc : i > offset => i > offset' \/ doc[i] \in Elements(objects')
  BY <1>1, Taken DEF Elements
<1>4. Ahead \subseteq Ahead' \cup Elements(objects')
  BY <1>3 DEF Ahead
<1>5. offset' >= Len(doc) => Ahead' = {}
  BY <1>1 DEF Ahead
<1>6. Elements(doc)' = Elements(doc) /\ Elements(start)' = Elements(start) /\ (Undeleted' <=> Undeleted)
  BY DEF Elements, Undeleted
<1>7. Seen'
  BY <1>2, <1>6 DEF Seen
<1>8. Undeleted => Elements(start) \subseteq Elements(objects') \cup Ahead'
  BY <1>2, <1>4 DEF NothingBehind
<1>9. NothingBehind'
  BY <1>6, <1>8 DEF NothingBehind, Elements
<1>10. Unedited'
  <2> SUFFICES ASSUME edits = <<>> PROVE offset' <= Len(doc) /\ \A i \in DOMAIN objects' : objects'[i] = doc[i]
    BY DEF Unedited
  <2>1. \A i \in DOMAIN objects' : objects'[i] = doc[i]
    BY Taken DEF Unedited
  <2>2. offset' <= Len(doc)
    <3>1. offset + Len(Page(limit)) <= Len(doc) \/ Page(limit) = <<>>
      BY PageIs
    <3>2. Page(limit) = <<>> => Len(Page(limit)) = 0
      OBVIOUS
    <3> QED BY <1>1, <3>1, <3>2, Taken DEF Unedited
  <2> QED BY <2>1, <2>2
<1> QED BY <1>5, <1>7, <1>8, <1>9, <1>10

----------------------------------------------------------------------------
(* The steps *)

\* A page of scene_index.
LEMMA IndexPageStep ==
  ASSUME PagingInv, IndexPage
  PROVE  PagingInv'
<1> USE PagingAssumption DEF PagingInv
<1> DEFINE limit == Least(PageSize, MaxObjects - Len(objects))
<1> DEFINE batch == Page(limit)
<1>1. /\ pc = "paging" /\ reader = "scene_index" /\ Take(Page(limit))
      /\ truncated' = Full(Page(limit), limit)
      /\ pc' = IF IndexEnds(Page(limit), limit) \/ Full(Page(limit), limit) THEN "returned" ELSE "paging"
      /\ UNCHANGED <<doc, reader, start, past, edits>>
  BY DEF IndexPage
<1>2. limit \in Nat \ {0} /\ limit <= MaxObjects - Len(objects) /\ Len(objects) \in Nat
  BY <1>1 DEF Counts, TypeOK, Least
<1> HIDE DEF limit
<1>3. /\ objects' \in Seq(Ids) /\ offset' = Len(objects') /\ offset' = offset + Len(batch)
      /\ Len(batch) \in Nat /\ Len(batch) <= limit /\ (batch = <<>> => Len(doc) <= offset)
      /\ offset = Len(objects) /\ offset' \in Nat
  BY <1>1, <1>2, Taken, PageIs DEF Counts
<1> HIDE DEF batch
<1>4. TypeOK'
  BY <1>1, <1>3 DEF TypeOK, Full, IndexEnds, batch
<1>5. Full(batch, limit) <=> ~IndexEnds(batch, limit) /\ offset' >= MaxObjects
  BY <1>3 DEF Full
<1>6. /\ truncated' = Full(batch, limit)
      /\ pc' = IF IndexEnds(batch, limit) \/ Full(batch, limit) THEN "returned" ELSE "paging"
  BY <1>1 DEF batch
<1>7. Counts'
  BY <1>1, <1>3, <1>5, <1>6 DEF Counts
<1>8. /\ Seen' /\ Unedited' /\ NothingBehind'
      /\ Undeleted /\ offset' >= Len(doc) => Elements(start) \subseteq Elements(objects')
  BY <1>1, <1>2, TakeKeeps
<1>9. ASSUME GivesTotal PROVE IndexEnds(batch, limit) <=> offset' >= Len(doc) \/ batch = <<>>
  BY <1>3, <1>9 DEF IndexEnds
<1>10. doc \in Seq(Ids) /\ Len(doc) \in Nat /\ MaxObjects \in Nat
  BY DEF TypeOK
<1>11. TruncatedRight'
  BY <1>1, <1>2, <1>3, <1>5, <1>6, <1>9, <1>10 DEF TruncatedRight
<1>12. IndexIsWhole'
  <2> SUFFICES ASSUME GivesTotal, Undeleted, ~truncated', pc' = "returned"
               PROVE  Elements(start) \subseteq Elements(objects')
    BY <1>1 DEF IndexIsWhole, IsWhole, Undeleted, Elements
  <2>1. offset' >= Len(doc)
    BY <1>3, <1>5, <1>6, <1>9, <1>10
  <2> QED BY <1>8, <2>1
<1> QED BY <1>4, <1>7, <1>8, <1>11, <1>12

\* A page of the reads around a transaction.
LEMMA TransactionPageStep ==
  ASSUME PagingInv, TransactionPage
  PROVE  PagingInv'
<1> USE PagingAssumption DEF PagingInv
<1>1. /\ pc = "paging" /\ reader = "transaction" /\ Take(Page(ReadLimit))
      /\ pc' \in {"paging", "returned"}
      /\ UNCHANGED <<doc, reader, truncated, start, past, edits>>
  BY DEF TransactionPage
<1>2. objects' \in Seq(Ids) /\ offset' = Len(objects') /\ offset' \in Nat
  BY <1>1, Taken
<1>3. TypeOK' /\ Counts'
  BY <1>1, <1>2 DEF TypeOK, Counts
<1>4. Seen' /\ Unedited' /\ NothingBehind'
  BY <1>1, TakeKeeps
<1>5. TruncatedRight' /\ IndexIsWhole'
  BY <1>1 DEF Counts, TruncatedRight, IndexIsWhole
<1> QED BY <1>3, <1>4, <1>5

\* Any edit ends the facts about an unedited document.
LEMMA EditStep ==
  ASSUME PagingInv, pc = "paging", UNCHANGED <<locals, start>>,
         NEW e \in {"create", "delete"}, edits' = Append(edits, e),
         doc' \in Seq(Ids), past' \subseteq Ids,
         Elements(doc') \cup past \subseteq past',
         e = "create" => Ahead \subseteq Ahead'
  PROVE  PagingInv'
<1> USE DEF PagingInv, locals
<1>1. /\ edits' \in Seq({"create", "delete"}) /\ edits' # <<>>
      /\ DOMAIN edits \subseteq DOMAIN edits' /\ Len(edits) + 1 \in DOMAIN edits'
      /\ edits'[Len(edits) + 1] = e /\ \A i \in DOMAIN edits : edits'[i] = edits[i]
  <2>1. edits \in Seq({"create", "delete"}) /\ e \in {"create", "delete"} /\ edits' = Append(edits, e)
    BY DEF TypeOK
  <2> HIDE DEF PagingInv
  <2> QED BY ONLY <2>1
<1>2. Undeleted' => Undeleted /\ e = "create"
  BY <1>1 DEF Undeleted, Elements
<1>3. Elements(objects)' = Elements(objects) /\ Elements(start)' = Elements(start)
  BY DEF Elements
<1>4. TypeOK' /\ Counts'
  BY <1>1 DEF TypeOK, Counts
<1>5. Seen'
  BY <1>3 DEF Seen, Elements
<1>6. Unedited' /\ TruncatedRight' /\ IndexIsWhole'
  BY <1>1 DEF Unedited, TruncatedRight, IndexIsWhole
<1>7. NothingBehind'
  BY <1>2, <1>3 DEF NothingBehind
<1> QED BY <1>4, <1>5, <1>6, <1>7

\* An object created after the first n of the document.
LEMMA Inserted ==
  ASSUME PagingInv, NEW x \in Ids, NEW n \in 0..Len(doc), CreateObject(x, n)
  PROVE  /\ doc' \in Seq(Ids) /\ Len(doc') = Len(doc) + 1
         /\ \A i \in 1..n : doc'[i] = doc[i]
         /\ doc'[n + 1] = x
         /\ \A i \in (n + 1)..Len(doc) : doc'[i + 1] = doc[i]
<1> DEFINE a == SubSeq(doc, 1, n)
<1> DEFINE b == SubSeq(doc, n + 1, Len(doc))
<1>0. doc \in Seq(Ids)
  BY DEF PagingInv, TypeOK
<1>1. /\ a \in Seq(Ids) /\ Len(a) = n /\ \A i \in 1..n : a[i] = doc[i]
      /\ n \in Nat /\ Len(doc) \in Nat /\ n <= Len(doc)
  BY <1>0
<1>2. b \in Seq(Ids) /\ Len(b) = Len(doc) - n /\ \A i \in 1..(Len(doc) - n) : b[i] = doc[n + i]
  BY <1>0, <1>1
<1> HIDE DEF a, b
<1>3. <<x>> \in Seq(Ids) /\ Len(<<x>>) = 1 /\ <<x>>[1] = x
  OBVIOUS
<1>4. /\ a \o <<x>> \in Seq(Ids) /\ Len(a \o <<x>>) = n + 1
      /\ \A i \in 1..n : (a \o <<x>>)[i] = doc[i]
      /\ (a \o <<x>>)[n + 1] = x
  BY <1>1, <1>3
<1> DEFINE c == a \o <<x>>
<1> HIDE DEF c
<1>5. c \in Seq(Ids) /\ Len(c) = n + 1 /\ (\A i \in 1..n : c[i] = doc[i]) /\ c[n + 1] = x
  BY <1>4 DEF c
<1>6. /\ c \o b \in Seq(Ids) /\ Len(c \o b) = Len(doc) + 1
      /\ \A i \in 1..(n + 1) : (c \o b)[i] = c[i]
      /\ \A i \in (n + 2)..(Len(doc) + 1) : (c \o b)[i] = b[i - (n + 1)]
  BY <1>1, <1>2, <1>5
<1>7. \A i \in (n + 1)..Len(doc) : (c \o b)[i + 1] = doc[i]
  <2> TAKE i \in (n + 1)..Len(doc)
  <2>1. i + 1 \in (n + 2)..(Len(doc) + 1) /\ (i + 1) - (n + 1) = i - n
        /\ i - n \in 1..(Len(doc) - n) /\ n + (i - n) = i
    BY <1>1
  <2>2. (c \o b)[i + 1] = b[i - n] /\ b[i - n] = doc[n + (i - n)]
    BY <1>2, <1>6, <2>1
  <2> QED BY <2>1, <2>2
<1>8. \A i \in 1..n : (c \o b)[i] = doc[i]
  BY <1>1, <1>5, <1>6
<1>9. (c \o b)[n + 1] = x
  BY <1>1, <1>5, <1>6
<1>10. doc' = c \o b
  BY DEF CreateObject, a, b, c
<1> QED BY <1>6, <1>7, <1>8, <1>9, <1>10

\* The document without its n-th object.
LEMMA Removed ==
  ASSUME NEW S, NEW s \in Seq(S), NEW n \in DOMAIN s
  PROVE  LET t == SubSeq(s, 1, n - 1) \o SubSeq(s, n + 1, Len(s)) IN
         t \in Seq(S) /\ Len(t) = Len(s) - 1 /\ \A i \in DOMAIN t : \E j \in DOMAIN s : t[i] = s[j]
<1> DEFINE a == SubSeq(s, 1, n - 1)
<1> DEFINE b == SubSeq(s, n + 1, Len(s))
<1>1. /\ a \in Seq(S) /\ Len(a) = n - 1 /\ \A i \in 1..(n - 1) : a[i] = s[i]
      /\ n \in Nat /\ Len(s) \in Nat /\ n <= Len(s) /\ n >= 1 /\ DOMAIN s = 1..Len(s)
  OBVIOUS
<1> HIDE DEF a
<1>2. /\ b \in Seq(S) /\ Len(b) = Len(s) - n /\ \A i \in 1..(Len(s) - n) : b[i] = s[n + i]
  <2>1. CASE n < Len(s)
    <3>1. n + 1 \in 1..Len(s) /\ Len(s) \in 1..Len(s) /\ n + 1 <= Len(s)
      BY <1>1, <2>1
    <3>2. b \in Seq(S) /\ Len(b) = Len(s) - (n + 1) + 1 /\ \A i \in 1..(Len(s) - (n + 1) + 1) : b[i] = s[(n + 1) + i - 1]
      BY <1>1, <3>1
    <3> HIDE DEF b
    <3>3. Len(s) - (n + 1) + 1 = Len(s) - n /\ \A i \in 1..(Len(s) - n) : (n + 1) + i - 1 = n + i
      BY <1>1
    <3> QED BY <3>2, <3>3
  <2>2. CASE n = Len(s)
    <3>1. b = <<>>
      BY <1>1, <2>2
    <3> QED BY <1>1, <2>2, <3>1
  <2> QED BY <1>1, <2>1, <2>2
<1> HIDE DEF a, b
<1>3. /\ a \o b \in Seq(S) /\ Len(a \o b) = Len(s) - 1
      /\ \A i \in 1..(n - 1) : (a \o b)[i] = a[i]
      /\ \A i \in n..(Len(s) - 1) : (a \o b)[i] = b[i - (n - 1)]
  <2>1. a \in Seq(S) /\ b \in Seq(S)
    BY <1>1, <1>2
  <2>2. a \o b \in Seq(S) /\ Len(a \o b) = Len(a) + Len(b)
    BY ONLY <2>1
  <2>3. Len(a) + Len(b) = Len(s) - 1 /\ n - 1 \in Nat
    BY <1>1, <1>2
  <2>4. \A i \in 1..Len(a) : (a \o b)[i] = a[i]
    BY <1>1, <1>2
  <2>5. \A i \in (Len(a) + 1)..(Len(a) + Len(b)) : (a \o b)[i] = b[i - Len(a)]
    BY <1>1, <1>2
  <2>6. Len(a) + 1 = n
    BY <1>1
  <2> QED BY <1>1, <2>2, <2>3, <2>4, <2>5, <2>6
<1>4. ASSUME NEW i \in DOMAIN (a \o b) PROVE \E j \in DOMAIN s : (a \o b)[i] = s[j]
  <2>1. i \in 1..(Len(s) - 1)
    BY <1>3
  <2>2. CASE i < n
    <3>1. i \in 1..(n - 1) /\ i \in DOMAIN s
      BY <1>1, <2>1, <2>2
    <3> QED BY <1>1, <1>3, <3>1
  <2>3. CASE ~(i < n)
    <3>1. i \in n..(Len(s) - 1) /\ i - (n - 1) \in 1..(Len(s) - n)
          /\ n + (i - (n - 1)) = i + 1 /\ i + 1 \in DOMAIN s
      BY <1>1, <2>1, <2>3
    <3> QED BY <1>2, <1>3, <3>1
  <2> QED BY <2>2, <2>3
<1> QED BY <1>3, <1>4 DEF a, b

\* A created object leaves the others on their side of the offset or moves
\* them towards the end.
LEMMA CreateStep ==
  ASSUME PagingInv, NEW i \in Ids, NEW n \in 0..Len(doc), CreateObject(i, n)
  PROVE  PagingInv'
<1>1. doc \in Seq(Ids) /\ past \subseteq Ids /\ Elements(doc) \subseteq past /\ offset \in Nat
  BY DEF PagingInv, TypeOK, Seen, Counts
<1>2. /\ doc' \in Seq(Ids) /\ Len(doc') = Len(doc) + 1 /\ doc'[n + 1] = i
      /\ \A k \in 1..n : doc'[k] = doc[k]
      /\ \A k \in (n + 1)..Len(doc) : doc'[k + 1] = doc[k]
  BY Inserted
<1>3. DOMAIN doc = 1..Len(doc) /\ DOMAIN doc' = 1..(Len(doc) + 1) /\ Len(doc) \in Nat /\ n \in Nat
  BY <1>1, <1>2
<1>4. \A k \in DOMAIN doc' : doc'[k] = i \/ \E j \in DOMAIN doc : doc'[k] = doc[j]
  <2> TAKE k \in DOMAIN doc'
  <2>1. k \in 1..n \/ k = n + 1 \/ (k - 1 \in (n + 1)..Len(doc) /\ (k - 1) + 1 = k)
    BY <1>3
  <2>2. k \in 1..n => k \in DOMAIN doc
    BY <1>3
  <2>3. k - 1 \in (n + 1)..Len(doc) => k - 1 \in DOMAIN doc
    BY <1>3
  <2> QED BY <1>2, <2>1, <2>2, <2>3
<1>5. Elements(doc') \subseteq Elements(doc) \cup {i}
  BY <1>4 DEF Elements
<1>6. offset' = offset /\ past' = past \cup {i} /\ UNCHANGED <<locals, start>>
      /\ edits' = Append(edits, "create") /\ pc = "paging"
  BY DEF CreateObject, Editable, locals
<1>7. \A j \in DOMAIN doc : j > offset => \E k \in DOMAIN doc' : k > offset /\ doc'[k] = doc[j]
  <2> SUFFICES ASSUME NEW j \in DOMAIN doc, j > offset
               PROVE  \E k \in DOMAIN doc' : k > offset /\ doc'[k] = doc[j]
    OBVIOUS
  <2>1. CASE j \in 1..n
    BY <1>1, <1>2, <1>3, <2>1
  <2>2. CASE j \in (n + 1)..Len(doc)
    <3>1. j + 1 \in DOMAIN doc' /\ j + 1 > offset
      BY <1>1, <1>3
    <3> QED BY <1>2, <2>2, <3>1
  <2> QED BY <1>3, <2>1, <2>2
<1>8. Ahead \subseteq Ahead'
  BY <1>6, <1>7 DEF Ahead
<1> QED BY <1>1, <1>2, <1>5, <1>6, <1>8, EditStep

\* A deletion adds nothing to the document.
LEMMA DeleteStep ==
  ASSUME PagingInv, NEW n \in DOMAIN doc, DeleteObject(n)
  PROVE  PagingInv'
<1>1. doc \in Seq(Ids) /\ past \subseteq Ids /\ Elements(doc) \subseteq past
  BY DEF PagingInv, TypeOK, Seen
<1> DEFINE t == SubSeq(doc, 1, n - 1) \o SubSeq(doc, n + 1, Len(doc))
<1>2. t \in Seq(Ids) /\ \A i \in DOMAIN t : \E j \in DOMAIN doc : t[i] = doc[j]
  BY <1>1, Removed
<1>3. doc' = t
  BY DEF DeleteObject
<1> HIDE DEF t
<1>4. doc' \in Seq(Ids) /\ \A i \in DOMAIN doc' : \E j \in DOMAIN doc : doc'[i] = doc[j]
  BY <1>3, <1>2
<1>5. Elements(doc') \subseteq Elements(doc)
  BY <1>4 DEF Elements
<1>6. past' = past /\ UNCHANGED <<locals, start>> /\ edits' = Append(edits, "delete") /\ pc = "paging"
  BY DEF DeleteObject, Editable
<1> QED BY <1>1, <1>4, <1>5, <1>6, EditStep

----------------------------------------------------------------------------
(* The theorems *)

\* The invariant holds at the start: nothing is behind offset 0.
LEMMA PagingInvInit == Init => PagingInv
<1> SUFFICES ASSUME Init PROVE PagingInv
  OBVIOUS
<1> USE PagingAssumption DEF Init
<1>1. doc \in Seq(Ids) /\ start = doc /\ offset = 0 /\ objects = <<>> /\ past = Elements(doc)
  OBVIOUS
<1>2. Elements(doc) \subseteq Ids /\ Elements(<<>>) = {} /\ Len(doc) \in Nat
  BY <1>1 DEF Elements
<1>3. /\ edits = <<>> /\ Len(objects) = 0 /\ pc = "paging" /\ truncated = FALSE
      /\ reader \in {"scene_index", "transaction"}
  BY <1>1
<1>4. edits \in Seq({"create", "delete"}) /\ objects \in Seq(Ids)
  BY <1>1, <1>3
<1>5. TypeOK
  <2>1. offset \in 0..Len(objects) /\ past \subseteq Ids
    BY <1>1, <1>2, <1>3
  <2>2. edits \in Seq({"create", "delete"})
    BY <1>4
  <2> QED BY ONLY <1>1, <1>3, <1>4, <2>1, <2>2 DEF TypeOK
<1>6. Counts /\ Seen /\ Unedited /\ TruncatedRight /\ IndexIsWhole
  BY <1>1, <1>2, <1>3 DEF Counts, Seen, Unedited, TruncatedRight, IndexIsWhole
<1>7. \A j \in DOMAIN doc : j > offset
  BY <1>1
<1>8. NothingBehind
  BY <1>1, <1>7 DEF NothingBehind, Ahead, Elements
<1> QED BY <1>5, <1>6, <1>8 DEF PagingInv

\* A step that changes nothing.
LEMMA PagingInvStutters == PagingInv /\ UNCHANGED vars => PagingInv'
<1> SUFFICES ASSUME PagingInv, UNCHANGED vars PROVE PagingInv'
  OBVIOUS
<1> USE DEF PagingInv, vars, locals
<1>1. /\ Elements(doc)' = Elements(doc) /\ Elements(objects)' = Elements(objects)
      /\ Elements(start)' = Elements(start) /\ Ahead' = Ahead /\ (Undeleted' <=> Undeleted)
  BY DEF Elements, Ahead, Undeleted
<1>2. TypeOK' /\ Counts' /\ Unedited' /\ TruncatedRight'
  BY DEF TypeOK, Counts, Unedited, TruncatedRight
<1>3. Seen' /\ NothingBehind' /\ IndexIsWhole'
  BY <1>1 DEF Seen, NothingBehind, IndexIsWhole, IsWhole
<1> QED BY <1>2, <1>3

\* The invariant holds in every reachable state.
LEMMA PagingInvariant == Spec => []PagingInv
<1>1. PagingInv /\ [Next]_vars => PagingInv'
  BY PagingInvStutters, IndexPageStep, TransactionPageStep, CreateStep, DeleteStep DEF Next, Returned
<1> QED BY <1>1, PagingInvInit, PTL DEF Spec

\* Every variable keeps its type, whatever the document, the cap and the edits.
THEOREM PagingTypeCorrect == Spec => []TypeOK
  BY PagingInvariant, PTL DEF PagingInv

\* scene_index drops no object that stays in the document unless it says that
\* its scene is truncated, whatever the plug-in's cap and whatever is created.
THEOREM PagingIndexIsWhole == Spec => []IndexIsWhole
  BY PagingInvariant, PTL DEF PagingInv

\* An unedited document is read in order, no object is invented, and truncated
\* is said of a document that has more than max_objects objects.
THEOREM PagingReadsInOrder == Spec => []ReadsInOrder
<1>1. ASSUME PagingInv PROVE ReadsInOrder
  <2>1. ASSUME edits = <<>> PROVE objects = SubSeq(doc, 1, Len(objects))
    <3>1. /\ objects \in Seq(Ids) /\ doc \in Seq(Ids) /\ Len(objects) <= Len(doc)
          /\ \A i \in DOMAIN objects : objects[i] = doc[i]
      BY <1>1, <2>1 DEF PagingInv, TypeOK, Counts, Unedited
    <3>2. /\ SubSeq(doc, 1, Len(objects)) \in Seq(Ids)
          /\ Len(SubSeq(doc, 1, Len(objects))) = Len(objects)
          /\ \A i \in 1..Len(objects) : SubSeq(doc, 1, Len(objects))[i] = doc[i]
      BY <3>1
    <3> QED BY <3>1, <3>2
  <2> QED BY <1>1, <2>1 DEF PagingInv, Seen, TruncatedRight, ReadsInOrder
<1> QED BY <1>1, PagingInvariant, PTL
----------------------------------------------------------------------------
(* What the reads around a transaction do read *)

\* A page is as long as the plug-in's cap and the limit allow, or reaches the
\* end of the document.
LEMMA PageReaches ==
  ASSUME TypeOK, Counts, NEW limit \in Nat \ {0}
  PROVE  /\ Len(Page(limit)) \in Nat /\ Len(Page(limit)) <= Least(limit, Cap)
         /\ Len(Page(limit)) < Least(limit, Cap) => Len(doc) <= offset + Len(Page(limit))
<1> DEFINE last == Least(offset + Least(limit, Cap), Len(doc))
<1>1. /\ offset \in Nat /\ last \in Nat /\ Least(limit, Cap) \in Nat
      /\ last <= offset + Least(limit, Cap)
      /\ last = Len(doc) \/ last = offset + Least(limit, Cap)
  BY PagingAssumption DEF TypeOK, Counts, Least
<1>2. Page(limit) = SubSeq(doc, offset + 1, last) /\ doc \in Seq(Ids) /\ last <= Len(doc)
  BY <1>1, PagingAssumption DEF Page, Least, TypeOK, Counts
<1> HIDE DEF last
<1>3. CASE last > offset
  <2>1. Len(Page(limit)) = last - offset
    BY <1>1, <1>2, <1>3
  <2> QED BY <1>1, <1>3, <2>1
<1>4. CASE ~(last > offset)
  <2>1. Page(limit) = <<>>
    BY <1>1, <1>2, <1>4
  <2>2. Len(Page(limit)) = 0
    BY <2>1
  <2> QED BY <1>1, <1>4, <2>2
<1> QED BY <1>3, <1>4

OnePage ==
    reader = "transaction" /\ Cap < ReadLimit =>
        IF pc = "paging" THEN offset = 0 ELSE Len(objects) = Least(Cap, Len(doc))

WithinCap ==
    ReadLimit <= Cap \/ Len(doc) <= Cap =>
        (pc = "returned" /\ reader = "transaction" /\ Undeleted => IsWhole)

LEMMA TransactionReads ==
  ASSUME PagingInv, OnePage, TransactionPage
  PROVE  OnePage' /\ WithinCap'
<1> USE PagingAssumption DEF PagingInv
<1> DEFINE batch == Page(ReadLimit)
<1>1. /\ pc = "paging" /\ reader = "transaction" /\ Take(Page(ReadLimit))
      /\ pc' = IF TransactionEnds(Page(ReadLimit)) THEN "returned" ELSE "paging"
      /\ UNCHANGED <<doc, reader, start, past, edits>>
  BY DEF TransactionPage
<1>2. /\ objects' \in Seq(Ids) /\ offset' = Len(objects') /\ offset' = offset + Len(batch)
      /\ offset \in Nat /\ Len(doc) \in Nat /\ Len(batch) \in Nat
      /\ Len(batch) <= Least(ReadLimit, Cap)
      /\ Len(batch) < Least(ReadLimit, Cap) => Len(doc) <= offset'
      /\ offset' <= Len(doc) \/ Len(batch) = 0
  <2>1. Len(<<>>) = 0
    OBVIOUS
  <2> QED BY <1>1, <2>1, Taken, PageIs, PageReaches DEF TypeOK, Counts
<1>3. Undeleted /\ offset' >= Len(doc) => Elements(start) \subseteq Elements(objects')
  BY <1>1, TakeKeeps
<1>4. TransactionEnds(batch) <=> Len(batch) < ReadLimit \/ (GivesTotal /\ offset' >= Len(doc))
  BY <1>2 DEF TransactionEnds
<1>5. pc' = IF TransactionEnds(batch) THEN "returned" ELSE "paging"
  BY <1>1
<1> HIDE DEF batch
<1>6. ASSUME Cap < ReadLimit
      PROVE  pc' = "returned" /\ Len(objects') = Least(Cap, Len(doc))
  <2>1. offset = 0 /\ Least(ReadLimit, Cap) = Cap
    BY <1>1, <1>6 DEF OnePage, Least
  <2> QED BY <1>2, <1>4, <1>5, <1>6, <2>1 DEF Least
<1>7. OnePage'
  BY <1>1, <1>6 DEF OnePage, Least
<1>8. ASSUME ReadLimit <= Cap \/ Len(doc) <= Cap, pc' = "returned"
      PROVE  offset' >= Len(doc)
  <2>1. CASE Cap < ReadLimit
    BY <1>2, <1>6, <1>8, <2>1 DEF Least
  <2>2. CASE ~(Cap < ReadLimit)
    <3>1. Least(ReadLimit, Cap) = ReadLimit
      BY <2>2 DEF Least
    <3> QED BY <1>2, <1>4, <1>5, <1>8, <3>1
  <2> QED BY <2>1, <2>2
<1>9. WithinCap'
  BY <1>1, <1>3, <1>8 DEF WithinCap, IsWhole, Undeleted, Elements
<1> QED BY <1>7, <1>9

LEMMA TransactionInvariant == Spec => [](PagingInv /\ OnePage /\ WithinCap)
<1>1. Init => OnePage /\ WithinCap
  BY DEF Init, OnePage, WithinCap
<1>2. ASSUME PagingInv, OnePage, WithinCap, [Next]_vars PROVE OnePage' /\ WithinCap'
  <2>1. CASE TransactionPage
    BY <1>2, <2>1, TransactionReads
  <2>2. CASE IndexPage
    BY <2>2 DEF IndexPage, OnePage, WithinCap
  <2>3. CASE (\E i \in Ids, n \in 0..Len(doc) : CreateObject(i, n)) \/ (\E n \in DOMAIN doc : DeleteObject(n))
    BY <1>2, <2>3 DEF CreateObject, DeleteObject, Editable, OnePage, WithinCap, locals
  <2>4. CASE UNCHANGED vars
    BY <1>2, <2>4 DEF vars, locals, OnePage, WithinCap, IsWhole, Undeleted, Elements
  <2> QED BY <1>2, <2>1, <2>2, <2>3, <2>4 DEF Next, Returned
<1> QED BY <1>1, <1>2, PagingInvariant, PTL DEF Spec

\* How far the reads around a transaction fall short of what the code's comment
\* promises: with a cap below the limit they are one page long, whatever total
\* the plug-in announces.
THEOREM PagingTransactionSeesOnePage ==
  Spec => [](pc = "returned" /\ reader = "transaction" /\ Cap < ReadLimit
             => Len(objects) = Least(Cap, Len(doc)))
<1>1. OnePage => (pc = "returned" /\ reader = "transaction" /\ Cap < ReadLimit
                  => Len(objects) = Least(Cap, Len(doc)))
  BY DEF OnePage
<1> QED BY <1>1, TransactionInvariant, PTL

\* And where they do keep it: a document of at most the plug-in's cap, or a cap
\* that is no smaller than the limit, is read whole, whatever is created meanwhile.
THEOREM PagingTransactionWithinCap ==
  Spec => [](ReadLimit <= Cap \/ Len(doc) <= Cap => TransactionIsWhole)
<1>1. WithinCap => (ReadLimit <= Cap \/ Len(doc) <= Cap => TransactionIsWhole)
  BY DEF WithinCap, TransactionIsWhole
<1> QED BY <1>1, TransactionInvariant, PTL
----------------------------------------------------------------------------
(* Why every read ends *)

\* scene_index never returns more objects than its caller asked for.
IndexWithinLimit == reader = "scene_index" => Len(objects) <= MaxObjects

\* A page that does not end the loop brings an object, and there are no more of
\* them than the document has and a person may still create.
PagesLeft ==
    LET most == Len(doc) + MaxEdits - Len(edits) IN
    IF pc = "returned" THEN 0 ELSE 1 + (IF offset <= most THEN most - offset ELSE 0)

\* Each page is nearer to the end of the read, and no edit puts it further away.
EachPageIsNearer ==
    [][/\ PagesLeft \in Nat /\ PagesLeft' \in Nat
       /\ PagesLeft' <= PagesLeft
       /\ IndexPage \/ TransactionPage => PagesLeft' < PagesLeft]_vars

\* The invariant that the measure needs beside PagingInv.
Measured == IndexWithinLimit /\ Len(edits) <= MaxEdits

\* A page that does not end the loop brings objects and stays in the document.
LEMMA PageAdvances ==
  ASSUME PagingInv, Measured, IndexPage \/ TransactionPage
  PROVE  /\ pc = "paging" /\ pc' \in {"paging", "returned"} /\ UNCHANGED <<doc, reader, edits>>
         /\ offset' \in Nat /\ offset' >= offset
         /\ pc' = "paging" => offset' > offset /\ offset' <= Len(doc)
         /\ IndexWithinLimit'
<1> USE PagingAssumption DEF PagingInv
<1>0. /\ doc \in Seq(Ids) /\ Len(doc) \in Nat /\ offset = Len(objects) /\ offset \in Nat
      /\ Len(<<>>) = 0
  BY DEF TypeOK, Counts
<1>1. ASSUME NEW limit \in Nat \ {0}, NEW batch, batch = Page(limit), Take(batch)
      PROVE  /\ batch \in Seq(Ids) /\ Len(batch) \in Nat /\ Len(batch) <= limit
             /\ offset' = Len(objects') /\ offset' = offset + Len(batch)
             /\ Len(batch) > 0 => offset' <= Len(doc)
             /\ batch # <<>> => Len(batch) > 0
  <2>1. /\ batch \in Seq(Ids) /\ Len(batch) <= limit
        /\ offset + Len(batch) <= Len(doc) \/ batch = <<>>
    BY <1>1, PageIs
  <2>2. offset' = Len(objects') /\ offset' = offset + Len(batch) /\ Len(batch) \in Nat
    BY <1>1, Taken
  <2>3. batch # <<>> => Len(batch) > 0
    <3> HIDE DEF PagingInv
    <3> QED BY ONLY <2>1
  <2> QED BY <1>0, <2>1, <2>2, <2>3
<1>2. CASE IndexPage
  <2> DEFINE limit == Least(PageSize, MaxObjects - Len(objects))
  <2>1. /\ pc = "paging" /\ reader = "scene_index" /\ Take(Page(limit))
        /\ pc' = IF IndexEnds(Page(limit), limit) \/ Full(Page(limit), limit) THEN "returned" ELSE "paging"
        /\ UNCHANGED <<doc, reader, start, past, edits>>
    BY <1>2 DEF IndexPage
  <2>2. limit \in Nat \ {0} /\ limit <= MaxObjects - Len(objects)
    BY <2>1, <1>0 DEF Counts, Least
  <2> HIDE DEF limit
  <2>3. IndexEnds(Page(limit), limit) \/ Page(limit) # <<>>
    BY DEF IndexEnds
  <2> QED BY <1>0, <1>1, <2>1, <2>2, <2>3 DEF IndexWithinLimit
<1>3. CASE TransactionPage
  <2>1. /\ pc = "paging" /\ reader = "transaction" /\ Take(Page(ReadLimit))
        /\ pc' = IF TransactionEnds(Page(ReadLimit)) THEN "returned" ELSE "paging"
        /\ UNCHANGED <<doc, reader, truncated, start, past, edits>>
    BY <1>3 DEF TransactionPage
  <2>2. pc' = "paging" => ~(Len(Page(ReadLimit)) < ReadLimit)
    BY <2>1 DEF TransactionEnds
  <2> QED BY <1>0, <1>1, <2>1, <2>2 DEF IndexWithinLimit
<1> QED BY <1>2, <1>3

\* An edit is one of those that were still to come.
LEMMA EditSpends ==
  ASSUME PagingInv, Measured,
         \/ \E i \in Ids, n \in 0..Len(doc) : CreateObject(i, n)
         \/ \E n \in DOMAIN doc : DeleteObject(n)
  PROVE  /\ pc = "paging" /\ UNCHANGED locals
         /\ Len(edits') = Len(edits) + 1 /\ Len(edits') <= MaxEdits
         /\ Len(doc') \in Nat /\ Len(doc') <= Len(doc) + 1
<1> USE PagingAssumption
<1>0. doc \in Seq(Ids) /\ edits \in Seq({"create", "delete"})
  BY DEF PagingInv, TypeOK
<1>1. ASSUME NEW e \in {"create", "delete"}, edits' = Append(edits, e), Len(edits) < MaxEdits
      PROVE  Len(edits') = Len(edits) + 1 /\ Len(edits') <= MaxEdits
  BY <1>0, <1>1
<1>2. ASSUME NEW i \in Ids, NEW n \in 0..Len(doc), CreateObject(i, n)
      PROVE  /\ pc = "paging" /\ UNCHANGED locals
             /\ Len(edits') = Len(edits) + 1 /\ Len(edits') <= MaxEdits
             /\ Len(doc') \in Nat /\ Len(doc') <= Len(doc) + 1
  <2>1. Len(doc') = Len(doc) + 1 /\ Len(doc) \in Nat
    BY <1>0, <1>2, Inserted
  <2>2. pc = "paging" /\ Len(edits) < MaxEdits /\ edits' = Append(edits, "create") /\ UNCHANGED locals
    BY <1>2 DEF CreateObject, Editable
  <2> QED BY <1>1, <2>1, <2>2
<1>3. ASSUME NEW n \in DOMAIN doc, DeleteObject(n)
      PROVE  /\ pc = "paging" /\ UNCHANGED locals
             /\ Len(edits') = Len(edits) + 1 /\ Len(edits') <= MaxEdits
             /\ Len(doc') \in Nat /\ Len(doc') <= Len(doc) + 1
  <2>1. /\ pc = "paging" /\ Len(edits) < MaxEdits /\ edits' = Append(edits, "delete") /\ UNCHANGED locals
        /\ doc' = SubSeq(doc, 1, n - 1) \o SubSeq(doc, n + 1, Len(doc))
    BY <1>3 DEF DeleteObject, Editable
  <2>2. doc' \in Seq(Ids) /\ Len(doc') = Len(doc) - 1
    BY <1>0, <2>1, Removed
  <2>3. Len(doc) \in Nat /\ Len(doc') \in Nat
    BY <1>0, <2>2
  <2> QED BY <1>1, <2>1, <2>2, <2>3
<1> QED BY <1>2, <1>3

LEMMA MeasuredInvariant == Spec => []Measured
<1>1. Init => Measured
  <2>1. Len(<<>>) = 0
    OBVIOUS
  <2> QED BY <2>1, PagingAssumption DEF Init, Measured, IndexWithinLimit
<1>2. ASSUME PagingInv, Measured, [Next]_vars PROVE Measured'
  <2>1. CASE IndexPage \/ TransactionPage
    BY <1>2, <2>1, PageAdvances DEF Measured
  <2>2. CASE \/ \E i \in Ids, n \in 0..Len(doc) : CreateObject(i, n)
             \/ \E n \in DOMAIN doc : DeleteObject(n)
    <3>1. UNCHANGED locals /\ Len(edits') <= MaxEdits
      BY <1>2, <2>2, EditSpends
    <3> QED BY <1>2, <3>1 DEF Measured, IndexWithinLimit, locals
  <2>3. CASE UNCHANGED vars
    BY <1>2, <2>3 DEF vars, locals, Measured, IndexWithinLimit
  <2> QED BY <1>2, <2>1, <2>2, <2>3 DEF Next, Returned
<1> QED BY <1>1, <1>2, PagingInvariant, PTL DEF Spec

\* scene_index stays within max_objects, whatever cap, page size and edits.
THEOREM PagingIndexWithinLimit == Spec => []IndexWithinLimit
  BY MeasuredInvariant, PTL DEF Measured

\* Together with the fairness of the loop this is why ReadEnds holds: no answer
\* of the plug-in, with a total or without one, keeps a loop running.
THEOREM PagingPagesAreNearer == Spec => EachPageIsNearer
<1> DEFINE Nearer == /\ PagesLeft \in Nat /\ PagesLeft' \in Nat
                     /\ PagesLeft' <= PagesLeft
                     /\ IndexPage \/ TransactionPage => PagesLeft' < PagesLeft
<1>1. ASSUME PagingInv, Measured, Next PROVE Nearer
  <2>0. /\ Len(doc) \in Nat /\ Len(edits) \in Nat /\ offset \in Nat /\ Len(edits) <= MaxEdits
        /\ MaxEdits \in Nat /\ pc \in {"paging", "returned"} /\ PagesLeft \in Nat
    BY <1>1, PagingAssumption DEF PagingInv, TypeOK, Counts, Measured, PagesLeft
  <2>1. CASE IndexPage \/ TransactionPage
    BY <1>1, <2>0, <2>1, PageAdvances DEF PagesLeft
  <2>2. CASE \/ \E i \in Ids, n \in 0..Len(doc) : CreateObject(i, n)
             \/ \E n \in DOMAIN doc : DeleteObject(n)
    <3>1. /\ pc = "paging" /\ UNCHANGED <<pc, offset>>
          /\ Len(edits') = Len(edits) + 1 /\ Len(edits') <= MaxEdits
          /\ Len(doc') \in Nat /\ Len(doc') <= Len(doc) + 1
      BY <1>1, <2>2, EditSpends DEF locals
    <3>2. PagesLeft' \in Nat /\ PagesLeft' <= PagesLeft
      BY <2>0, <3>1 DEF PagesLeft
    <3>3. ~IndexPage /\ ~TransactionPage
      <4>1. edits' # edits
        BY <2>0, <3>1
      <4> QED BY <4>1 DEF IndexPage, TransactionPage
    <3> QED BY <2>0, <3>2, <3>3
  <2>3. CASE Returned
    BY <2>0, <2>3 DEF Returned, vars, locals, PagesLeft, IndexPage, TransactionPage
  <2> QED BY <1>1, <2>1, <2>2, <2>3 DEF Next
<1>2. PagingInv /\ Measured /\ [Next]_vars => [Nearer]_vars
  BY <1>1
<1> QED BY <1>2, PagingInvariant, MeasuredInvariant, PTL DEF Spec, EachPageIsNearer
=============================================================================
