--------------------------- MODULE Exports_proofs ---------------------------
(***************************************************************************)
(* Proofs about Exports for every set of rows and every choice of page     *)
(* sizes, limits and formats: what a reader delivers is ordered and whole, *)
(* and so is the file of a completed job.                                  *)
(***************************************************************************)
EXTENDS Exports, FiniteSetTheorems, TLAPS

(* All that must be read up to the cursor has been, and nothing beyond.    *)
Covered ==
  /\ \A n \in DOMAIN out : out[n] <= after
  /\ \A s \in stable : s <= after => s \in Delivered

(* The page holds the next rows: what is not in it comes after it.         *)
PageNext ==
  /\ \A k \in rows : k > after
  /\ \A s \in stable \ rows : s > after => \A k \in rows : k < s

OnCourse == Covered /\ PageNext

AllRead == stable \subseteq Delivered

(* What the client keeps reaches its cursor; a response goes on from       *)
(* there.  It cannot come to an end at that cursor with rows beyond it.    *)
StreamInv ==
  /\ over => pc = "idle" /\ AllRead
  /\ \A n \in 1..kept : out[n] <= cursor
  /\ \A s \in stable : s <= cursor => \E n \in 1..kept : out[n] = s
  /\ (pc = "idle" \/ aborted) => Len(out) = kept
  /\ pc # "idle" /\ ~aborted =>
       /\ OnCourse /\ cursor <= after
       /\ after = cursor =>
            /\ pc # "drain"
            /\ pc = "loop" => remaining > 0
            /\ pc = "finish" => AllRead

ErrorInv ==
  /\ sent => pc = "idle" /\ AllRead
  /\ pc # "idle" /\ ~closed => OnCourse

(* The file before its end: every object with what stands before it.       *)
Objects(f, keys) ==
  /\ Len(f) = 2 * Len(keys)
  /\ \A n \in 1..Len(keys) :
       f[2 * n] = Row(keys[n]) /\ f[2 * n - 1] = IF n = 1 THEN Opening ELSE Comma

IsArray(f, keys) ==
  /\ Len(f) = 2 * Len(keys) + 1
  /\ f[1] = Opening /\ f[Len(f)] = Closing
  /\ \A n \in DOMAIN keys : f[2 * n] = Row(keys[n]) /\ (n > 1 => f[2 * n - 1] = Comma)

IsBegun(f, keys) ==
  CASE format = "ndjson" -> f = [n \in DOMAIN keys |-> Row(keys[n])]
    [] format = "json" -> Objects(f, keys)

(* Where a completed job can be.                                           *)
Resting == {"idle", "mark", "ack", "fail"}

JobInv ==
  /\ pc = "open" => out = <<>>
  /\ pc \in {"loop", "write"} => OnCourse
  /\ pc \in {"flush", "complete"} => AllRead
  /\ pc \in {"loop", "write", "flush"} => IsBegun(file, out) /\ (started <=> out # <<>>)
  /\ pc = "complete" => IsFramed(file, out)
  /\ status = "completed" => pc \in Resting /\ AllRead /\ IsFramed(file, out)
  /\ reading /\ ~rerun =>
       /\ pc \in Resting /\ IsFramed(file, out)
       /\ Len(copy) <= Len(file) /\ \A n \in DOMAIN copy : copy[n] = file[n]

Inv ==
  /\ kind = "stream" => StreamInv
  /\ kind = "errors" => ErrorInv
  /\ kind = "job" => JobInv
  /\ kind # "stream" => kept = 0
  /\ kind # "job" => status = "queued" /\ ~reading

IInv == TypeOK /\ Inv

-----------------------------------------------------------------------------
(* Sequences, and the files made of them.                                  *)
LEMMA AppendFacts ==
  ASSUME NEW S, NEW s \in Seq(S), NEW e \in S
  PROVE  /\ Append(s, e) \in Seq(S)
         /\ DOMAIN s = 1..Len(s) /\ DOMAIN Append(s, e) = 1..(Len(s) + 1)
         /\ Append(s, e)[Len(s) + 1] = e /\ Len(s) \in Nat
         /\ \A n \in DOMAIN s : Append(s, e)[n] = s[n] /\ s[n] \in S
  OBVIOUS

LEMMA JoinFacts ==
  ASSUME NEW S, NEW s \in Seq(S), NEW t \in Seq(S)
  PROVE  /\ (s \o t) \in Seq(S) /\ Len(s \o t) = Len(s) + Len(t)
         /\ \A n \in 1..Len(s) : (s \o t)[n] = s[n]
         /\ \A n \in 1..Len(t) : (s \o t)[Len(s) + n] = t[n]
         /\ Len(s) \in Nat /\ Len(t) \in Nat /\ DOMAIN s = 1..Len(s) /\ DOMAIN t = 1..Len(t)
  OBVIOUS

LEMMA SmallSequences ==
  ASSUME NEW T, NEW a \in T, NEW b \in T
  PROVE  /\ <<a, b>> \in Seq(T) /\ Len(<<a, b>>) = 2 /\ <<a, b>>[1] = a /\ <<a, b>>[2] = b
         /\ <<a>> \in Seq(T) /\ Len(<<a>>) = 1 /\ <<a>>[1] = a
  OBVIOUS

LEMMA EmptySequence ==
  ASSUME NEW S, NEW s \in Seq(S)
  PROVE  s = <<>> <=> Len(s) = 0
  OBVIOUS

LEMMA EmptyTyped == \A S : <<>> \in Seq(S)
  OBVIOUS

LEMMA Places ==
  ASSUME NEW m \in Nat
  PROVE  /\ 2 * (m + 1) = 2 * m + 2 /\ 2 * (m + 1) - 1 = 2 * m + 1 /\ 2 * m \in Nat
         /\ \A n \in 1..m : 2 * n \in 1..(2 * m) /\ 2 * n - 1 \in 1..(2 * m)
         /\ 2 * m = 0 <=> m = 0
  OBVIOUS

(* An object joins the others, and the array comes to its end.             *)
LEMMA ObjectsGrow ==
  ASSUME NEW S, NEW T, NEW f \in Seq(T), NEW keys \in Seq(S), NEW k \in S,
         NEW first \in T, Row(k) \in T, Objects(f, keys),
         first = IF keys = <<>> THEN Opening ELSE Comma
  PROVE  Objects(f \o <<first, Row(k)>>, Append(keys, k))
<1> DEFINE l == Len(keys)  g == f \o <<first, Row(k)>>  more == Append(keys, k)
<1>1. /\ l \in Nat /\ Len(more) = l + 1 /\ more[l + 1] = k
      /\ \A n \in 1..l : more[n] = keys[n]
      /\ keys = <<>> <=> l = 0
  <2>1. DOMAIN more = 1..(l + 1) /\ more \in Seq(S) /\ l \in Nat /\ more[l + 1] = k
    BY AppendFacts
  <2>2. \A n \in 1..l : more[n] = keys[n]
    BY AppendFacts
  <2>3. Len(more) = l + 1
    BY <2>1
  <2>4. keys = <<>> <=> l = 0
    BY EmptySequence
  <2> QED BY <2>1, <2>2, <2>3, <2>4
<1>2. Len(f) = 2 * l
  BY DEF Objects
<1>3. /\ <<first, Row(k)>> \in Seq(T) /\ Len(<<first, Row(k)>>) = 2
      /\ <<first, Row(k)>>[1] = first /\ <<first, Row(k)>>[2] = Row(k)
  BY SmallSequences
<1>4. /\ Len(g) = Len(f) + 2
      /\ \A n \in 1..Len(f) : g[n] = f[n]
      /\ g[Len(f) + 1] = first /\ g[Len(f) + 2] = Row(k)
  BY <1>3, JoinFacts
<1>5. \A n \in 1..l :
        f[2 * n] = Row(keys[n]) /\ f[2 * n - 1] = IF n = 1 THEN Opening ELSE Comma
  BY DEF Objects
<1> HIDE DEF g, more, l
<1>6. Len(g) = 2 * Len(more)
  BY <1>1, <1>2, <1>4, Places
<1>7. ASSUME NEW n \in 1..(l + 1)
      PROVE  /\ g[2 * n] = Row(more[n])
             /\ g[2 * n - 1] = IF n = 1 THEN Opening ELSE Comma
  <2>1. CASE n \in 1..l
    <3>1. 2 * n \in 1..Len(f) /\ 2 * n - 1 \in 1..Len(f)
      BY <1>1, <1>2, <2>1, Places
    <3> QED BY <1>1, <1>4, <1>5, <2>1, <3>1
  <2>2. CASE n = l + 1
    <3>1. 2 * n = Len(f) + 2 /\ 2 * n - 1 = Len(f) + 1
      BY <1>1, <1>2, <2>2, Places
    <3>2. n = 1 <=> keys = <<>>
      BY <1>1, <2>2
    <3>3. first = IF n = 1 THEN Opening ELSE Comma
      BY <3>2
    <3> QED BY <1>1, <1>4, <2>2, <3>1, <3>3
  <2> QED BY <1>1, <2>1, <2>2
<1>8. Objects(g, more)
  BY <1>1, <1>6, <1>7 DEF Objects
<1> QED BY <1>8 DEF g, more

LEMMA ObjectsEnd ==
  ASSUME NEW S, NEW T, NEW f \in Seq(T), NEW keys \in Seq(S), keys # <<>>,
         Closing \in T, Objects(f, keys)
  PROVE  IsArray(f \o <<Closing>>, keys)
<1> DEFINE l == Len(keys)  g == f \o <<Closing>>
<1>1. l \in Nat /\ l > 0 /\ DOMAIN keys = 1..l
  OBVIOUS
<1>2. Len(f) = 2 * l
  BY DEF Objects
<1>3. <<Closing>> \in Seq(T) /\ Len(<<Closing>>) = 1 /\ <<Closing>>[1] = Closing
  BY SmallSequences
<1>4. /\ Len(g) = Len(f) + 1
      /\ \A n \in 1..Len(f) : g[n] = f[n]
      /\ g[Len(f) + 1] = Closing
  BY <1>3, JoinFacts
<1>5. \A n \in 1..l :
        f[2 * n] = Row(keys[n]) /\ f[2 * n - 1] = IF n = 1 THEN Opening ELSE Comma
  BY DEF Objects
<1> HIDE DEF l, g
<1>6. ASSUME NEW n \in 1..l
      PROVE  /\ g[2 * n] = Row(keys[n])
             /\ g[2 * n - 1] = IF n = 1 THEN Opening ELSE Comma
  <2>1. 2 * n \in 1..Len(f) /\ 2 * n - 1 \in 1..Len(f)
    BY <1>1, <1>2, Places
  <2> QED BY <1>4, <1>5, <2>1
<1>7. g[1] = Opening
  <2>1. 1 \in 1..l /\ 2 * 1 - 1 = 1
    BY <1>1
  <2> QED BY <1>6, <2>1
<1>8. ASSUME NEW n \in 1..l, n > 1 PROVE g[2 * n - 1] = Comma
  <2>1. n # 1
    BY <1>1, <1>8
  <2> QED BY <1>6, <2>1
<1>9. Len(g) = 2 * Len(keys) + 1 /\ g[Len(g)] = Closing
  BY <1>2, <1>4 DEF l
<1>10. IsArray(g, keys)
  BY <1>1, <1>6, <1>7, <1>8, <1>9 DEF IsArray
<1> QED BY <1>10 DEF g

(* The lines of the other format.                                          *)
LEMMA LinesGrow ==
  ASSUME NEW S, NEW T, NEW keys \in Seq(S), NEW k \in S, \A j \in S : Row(j) \in T
  PROVE  [n \in DOMAIN keys |-> Row(keys[n])] \o <<Row(k)>>
           = [n \in DOMAIN Append(keys, k) |-> Row(Append(keys, k)[n])]
<1> DEFINE f == [n \in DOMAIN keys |-> Row(keys[n])]
           more == Append(keys, k)
           g == f \o <<Row(k)>>
           h == [n \in DOMAIN more |-> Row(more[n])]
<1>1. /\ DOMAIN keys = 1..Len(keys) /\ Len(keys) \in Nat
      /\ DOMAIN more = 1..(Len(keys) + 1) /\ more[Len(keys) + 1] = k
      /\ \A n \in 1..Len(keys) : more[n] = keys[n] /\ keys[n] \in S
  BY AppendFacts
<1>2. f \in Seq(T) /\ Len(f) = Len(keys)
  BY <1>1
<1>3. <<Row(k)>> \in Seq(T) /\ Len(<<Row(k)>>) = 1 /\ <<Row(k)>>[1] = Row(k)
  BY SmallSequences
<1>4. \A n \in 1..Len(keys) : f[n] = Row(keys[n])
  BY <1>1
<1>5. h \in Seq(T) /\ Len(h) = Len(keys) + 1
  BY <1>1
<1>6. \A n \in 1..(Len(keys) + 1) : h[n] = Row(more[n])
  BY <1>1
<1> HIDE DEF f, more, h
<1>7. /\ g \in Seq(T) /\ Len(g) = Len(keys) + 1
      /\ \A n \in 1..Len(keys) : g[n] = f[n]
      /\ g[Len(keys) + 1] = Row(k)
  BY <1>2, <1>3, JoinFacts
<1> HIDE DEF g
<1>8. \A n \in 1..(Len(keys) + 1) : g[n] = h[n]
  BY <1>1, <1>4, <1>6, <1>7
<1>9. g = h
  BY <1>1, <1>5, <1>7, <1>8
<1> QED BY <1>9 DEF f, g, h, more

USE KeysAssumption

-----------------------------------------------------------------------------
(* Pages.                                                                  *)
LEMMA PageFacts ==
  ASSUME PagesTypeOK, NEW limit \in Nat \ {0}, NEW page \in SUBSET table, IsPage(page, after, limit)
  PROVE  /\ Cardinality(page) \in 0..limit
         /\ page = {} => \A k \in table : k <= after
         /\ \A k \in page : k > after
         /\ \A k \in page, j \in table \ page : j > after => k < j
<1>1. table \subseteq Nat /\ after \in Nat /\ page \subseteq Keys
  BY DEF PagesTypeOK, Cursors
<1>2. IsFiniteSet(page)
  BY <1>1, FS_Subset
<1>3. Cardinality(page) \in Nat
  BY <1>2, FS_CardinalityType
<1>4. Cardinality(page) \in 0..limit
  BY <1>3 DEF IsPage
<1>5. page = {} => Beyond(after) = {}
  BY FS_EmptySet DEF IsPage
<1>6. page = {} => \A k \in table : k <= after
  BY <1>1, <1>5 DEF Beyond
<1>7. /\ \A k \in page : k > after
      /\ \A k \in page, j \in table \ page : j > after => k < j
  BY DEF IsPage, Beyond
<1> QED BY <1>4, <1>6, <1>7

LEMMA FetchKeeps ==
  ASSUME PagesTypeOK, NEW limit \in Nat \ {0}, FetchPage(limit)
  PROVE  /\ PagesTypeOK' /\ UNCHANGED <<table, stable, after, out>>
         /\ Cardinality(rows') \in 0..limit
         /\ Covered => OnCourse' /\ (rows' = {} => AllRead')
<1>1. /\ rows' \in SUBSET table /\ IsPage(rows', after, limit)
      /\ UNCHANGED <<table, stable, after, out>>
  BY DEF FetchPage, tableVars
<1>2. /\ Cardinality(rows') \in 0..limit
      /\ rows' = {} => \A k \in table : k <= after
      /\ \A k \in rows' : k > after
      /\ \A k \in rows', j \in table \ rows' : j > after => k < j
  BY <1>1, PageFacts
<1>3. PagesTypeOK'
  BY <1>1 DEF PagesTypeOK
<1>4. ASSUME Covered PROVE OnCourse' /\ (rows' = {} => AllRead')
  <2>1. Covered'
    BY <1>1, <1>4 DEF Covered, Delivered
  <2>2. PageNext'
    BY <1>1, <1>2 DEF PageNext, PagesTypeOK
  <2>3. rows' = {} => AllRead'
    BY <1>1, <1>2, <2>1 DEF Covered, AllRead, PagesTypeOK
  <2> QED BY <2>1, <2>2, <2>3 DEF OnCourse
<1> QED BY <1>1, <1>2, <1>3, <1>4

LEMMA TakeKeeps ==
  ASSUME PagesTypeOK, NEW k \in rows, TakeRow(k)
  PROVE  /\ k \in Keys /\ after' = k /\ after' \in Cursors /\ rows' \subseteq Keys
         /\ UNCHANGED <<table, stable>>
         /\ out' = out => PagesTypeOK'
         /\ out' = Append(out, k) => PagesTypeOK'
<1>1. /\ k \in Keys /\ after' = k /\ after' \in Cursors /\ rows' \subseteq Keys
      /\ UNCHANGED <<table, stable>>
  BY DEF TakeRow, PagesTypeOK, Cursors, tableVars
<1>2. out \in Seq(Keys) /\ Append(out, k) \in Seq(Keys)
  BY <1>1, AppendFacts DEF PagesTypeOK
<1> QED BY <1>1, <1>2 DEF PagesTypeOK

(* A row that is taken and written is the next one of the delivery.        *)
LEMMA DeliverKeeps ==
  ASSUME PagesTypeOK, OnCourse, NEW k \in rows, TakeRow(k), out' = Append(out, k)
  PROVE  /\ OnCourse' /\ k > after
         /\ \A j \in Delivered : j < k
         /\ \A s \in stable : s < k => s \in Delivered
<1>1. /\ out \in Seq(Keys) /\ k \in Nat /\ after \in Nat
      /\ rows \subseteq Nat /\ stable \subseteq Nat
      /\ k > after
  BY DEF PagesTypeOK, Cursors, OnCourse, PageNext
<1>2. /\ after' = k /\ rows' = rows \ {k} /\ stable' = stable
      /\ \A j \in rows : k <= j
  BY DEF TakeRow, IsNext, tableVars
<1>3. /\ DOMAIN out = 1..Len(out) /\ DOMAIN out' = 1..(Len(out) + 1) /\ out'[Len(out) + 1] = k
      /\ \A n \in DOMAIN out : out'[n] = out[n] /\ out[n] \in Nat
  <2>1. k \in Keys
    BY DEF PagesTypeOK
  <2>2. /\ DOMAIN out = 1..Len(out) /\ DOMAIN Append(out, k) = 1..(Len(out) + 1)
        /\ Append(out, k)[Len(out) + 1] = k
        /\ \A n \in DOMAIN out : Append(out, k)[n] = out[n] /\ out[n] \in Keys
    BY <1>1, <2>1, AppendFacts
  <2> QED BY <2>2
<1>4. \A j \in Delivered : j < k
  BY <1>1, <1>3 DEF Delivered, OnCourse, Covered
<1>5. \A s \in stable : s < k => s \in Delivered
  BY <1>1, <1>2 DEF OnCourse, Covered, PageNext
<1>6. Delivered' = Delivered \cup {k}
  BY <1>3 DEF Delivered
<1>7. Covered'
  <2>1. \A n \in DOMAIN out' : out'[n] <= after'
    BY <1>1, <1>2, <1>3 DEF OnCourse, Covered
  <2>2. \A s \in stable' : s <= after' => s \in Delivered'
    BY <1>1, <1>2, <1>5, <1>6
  <2> QED BY <2>1, <2>2 DEF Covered
<1>8. PageNext'
  BY <1>1, <1>2 DEF OnCourse, PageNext
<1> QED BY <1>1, <1>4, <1>5, <1>7, <1>8 DEF OnCourse

(* Rows that come and go leave all this as it is.                          *)
LEMMA WritesKeep ==
  ASSUME PagesTypeOK, stable' \subseteq stable, UNCHANGED <<after, rows, out>>
  PROVE  (OnCourse => OnCourse') /\ (AllRead => AllRead')
  BY DEF OnCourse, Covered, PageNext, AllRead, Delivered, PagesTypeOK

-----------------------------------------------------------------------------
(* The streaming export.                                                   *)
LEMMA ParsedLimit == \A raw \in RawLimits : parseExportLimit(raw) \in 1..LimitCap
  BY StreamAssumption DEF parseExportLimit

LEMMA WholeOfStream ==
  ASSUME kind = "stream", UNCHANGED kind
  PROVE  Whole = over /\ Whole' = over'
  BY DEF Whole

LEMMA KeptFacts ==
  ASSUME out \in Seq(Keys), kept \in 0..Len(out), out' = SubSeq(out, 1, kept)
  PROVE  /\ out' \in Seq(Keys) /\ Len(out') = kept /\ DOMAIN out' = 1..kept
         /\ \A n \in 1..kept : out'[n] = out[n] /\ out[n] \in Keys
         /\ kept \in Nat
  OBVIOUS

LEMMA RequestKeeps ==
  ASSUME TypeOK, StreamInv, kind = "stream", UNCHANGED kind, NEW raw \in RawLimits, Request(raw)
  PROVE  /\ PagesTypeOK' /\ StreamTypeOK' /\ pc' \in StreamPcs
         /\ StreamInv' /\ UNCHANGED <<table, stable, out, over>>
<1>1. /\ Len(out) = kept /\ out \in Seq(Keys) /\ ~over
      /\ after' = cursor /\ rows' = {} /\ remaining' \in 1..LimitCap
      /\ pc' = "loop" /\ ~aborted' /\ cursor \in Nat /\ stable \subseteq Nat
      /\ UNCHANGED <<table, stable, out, kept, cursor, over, broken>>
  BY ParsedLimit DEF Request, StreamInv, TypeOK, PagesTypeOK, StreamTypeOK, Cursors, tableVars
<1>2. PagesTypeOK' /\ StreamTypeOK' /\ pc' \in StreamPcs
  <2>1. PagesTypeOK'
    BY <1>1 DEF TypeOK, PagesTypeOK, StreamTypeOK
  <2>2. last' \in BOOLEAN /\ aborted' \in BOOLEAN /\ pc' \in StreamPcs
    BY DEF Request, StreamPcs
  <2>3. remaining' \in 0..LimitCap
    BY <1>1, StreamAssumption
  <2> QED BY <1>1, <2>1, <2>2, <2>3 DEF TypeOK, StreamTypeOK, Cursors
<1>3. OnCourse'
  <2>1. DOMAIN out' = 1..kept
    BY <1>1
  <2>2. Covered'
    BY <1>1, <2>1 DEF StreamInv, Covered, Delivered
  <2>3. PageNext'
    BY <1>1 DEF PageNext
  <2> QED BY <2>2, <2>3 DEF OnCourse
<1>4. StreamInv'
  BY <1>1, <1>3 DEF StreamInv
<1> QED BY <1>1, <1>2, <1>4

LEMMA FetchStreamKeeps ==
  ASSUME TypeOK, StreamInv, kind = "stream", UNCHANGED kind, FetchStreamPage
  PROVE  /\ PagesTypeOK' /\ StreamTypeOK' /\ pc' \in StreamPcs
         /\ StreamInv' /\ UNCHANGED <<table, stable, out, over>>
<1> DEFINE batchLimit == IF remaining < BatchSize THEN remaining ELSE BatchSize
<1>1. /\ PagesTypeOK /\ StreamTypeOK /\ pc = "loop" /\ remaining > 0 /\ remaining \in Nat
      /\ FetchPage(batchLimit) /\ batchLimit \in Nat \ {0} /\ batchLimit <= remaining
      /\ remaining' = remaining - Cardinality(rows') /\ last' \in BOOLEAN
      /\ pc' = IF rows' = {} THEN "finish" ELSE "write"
      /\ UNCHANGED <<aborted, kept, cursor, over, broken>>
  BY StreamAssumption DEF FetchStreamPage, TypeOK, StreamTypeOK
<1> HIDE DEF batchLimit
<1>2. /\ PagesTypeOK' /\ UNCHANGED <<table, stable, after, out>>
      /\ Cardinality(rows') \in 0..batchLimit
      /\ Covered => OnCourse' /\ (rows' = {} => AllRead')
  BY <1>1, FetchKeeps
<1>3. StreamTypeOK' /\ pc' \in StreamPcs
  BY <1>1, <1>2, StreamAssumption DEF StreamTypeOK, StreamPcs, Cursors
<1>4. StreamInv'
  BY <1>1, <1>2 DEF StreamInv, OnCourse, AllRead, Delivered
<1> QED BY <1>1, <1>2, <1>3, <1>4

LEMMA WriteStreamKeeps ==
  ASSUME TypeOK, StreamInv, kind = "stream", UNCHANGED kind, NEW k \in rows, WriteStreamRow(k)
  PROVE  /\ PagesTypeOK' /\ StreamTypeOK' /\ pc' \in StreamPcs /\ StreamInv'
         /\ (UNCHANGED <<table, stable, out, over>>) \/ Delivery!Deliver(k)
<1>1. /\ PagesTypeOK /\ StreamTypeOK /\ pc = "write" /\ ~over
      /\ pc' \in {"write", "finish", "loop", "drain"} /\ (aborted => pc' # "drain")
      /\ UNCHANGED <<remaining, last, aborted, kept, cursor, over, broken>>
      /\ TakeRow(k) /\ aborted \in BOOLEAN /\ kept \in 0..Len(out)
  BY DEF WriteStreamRow, AfterRow, TypeOK, StreamTypeOK, StreamInv
<1>2. /\ k \in Keys /\ after' = k /\ UNCHANGED <<table, stable>>
      /\ out' = out => PagesTypeOK'
      /\ out' = Append(out, k) => PagesTypeOK'
  BY <1>1, TakeKeeps
<1>3. CASE aborted
  <2>1. out' = out
    BY <1>3 DEF WriteStreamRow
  <2>2. StreamTypeOK' /\ pc' \in StreamPcs
    BY <1>1, <2>1 DEF StreamTypeOK, StreamPcs, Cursors
  <2>3. StreamInv'
    BY <1>1, <1>2, <1>3, <2>1 DEF StreamInv
  <2> QED BY <1>1, <1>2, <2>1, <2>2, <2>3
<1>4. CASE ~aborted
  <2>1. out' = Append(out, k)
    BY <1>4 DEF WriteStreamRow
  <2>2. /\ OnCourse' /\ k > after /\ cursor <= after
        /\ \A j \in Delivered : j < k
        /\ \A s \in stable : s < k => s \in Delivered
    BY <1>1, <1>4, <2>1, DeliverKeeps DEF StreamInv
  <2>3. /\ DOMAIN out' = 1..(Len(out) + 1) /\ Len(out') = Len(out) + 1 /\ Len(out) \in Nat
        /\ \A n \in 1..Len(out) : out'[n] = out[n]
    BY <1>2, <2>1, AppendFacts DEF PagesTypeOK, TypeOK
  <2>4. StreamTypeOK' /\ pc' \in StreamPcs
    BY <1>1, <2>3 DEF StreamTypeOK, StreamPcs, Cursors
  <2>5. after' # cursor'
    BY <1>1, <1>2, <2>2 DEF PagesTypeOK, StreamTypeOK, Cursors
  <2>6. cursor' <= after'
    BY <1>1, <1>2, <2>2 DEF PagesTypeOK, StreamTypeOK, Cursors
  <2>7. StreamInv'
    <3>1. /\ \A n \in 1..kept' : out'[n] <= cursor'
          /\ \A s \in stable' : s <= cursor' => \E n \in 1..kept' : out'[n] = s
      BY <1>1, <1>2, <2>3 DEF StreamInv
    <3> QED BY <1>1, <1>4, <2>2, <2>5, <2>6, <3>1 DEF StreamInv
  <2>8. Delivery!Deliver(k)
    BY <1>1, <1>2, <2>1, <2>2, WholeOfStream DEF Delivery!Deliver, Delivery!Delivered, Delivered
  <2> QED BY <1>2, <2>1, <2>4, <2>7, <2>8
<1> QED BY <1>1, <1>3, <1>4

LEMMA LoseKeeps ==
  ASSUME TypeOK, StreamInv, kind = "stream", UNCHANGED kind, pc # "idle", ~aborted, LoseResponse,
         pc' \in StreamPcs, aborted' \in BOOLEAN, pc' = "idle" \/ aborted',
         UNCHANGED <<tableVars, after, rows, remaining, last, kept, cursor, over>>
  PROVE  /\ PagesTypeOK' /\ StreamTypeOK' /\ StreamInv' /\ Delivery!Rewind(kept)
<1>1. /\ out' = SubSeq(out, 1, kept) /\ broken' = broken + 1 /\ broken < MaxBroken
      /\ PagesTypeOK /\ StreamTypeOK /\ ~over /\ kept \in 0..Len(out) /\ out \in Seq(Keys)
      /\ UNCHANGED <<table, stable>>
  BY DEF LoseResponse, TypeOK, PagesTypeOK, StreamTypeOK, StreamInv, tableVars
<1>2. /\ out' \in Seq(Keys) /\ Len(out') = kept /\ DOMAIN out' = 1..kept
      /\ \A n \in 1..kept : out'[n] = out[n] /\ out[n] \in Keys
      /\ kept \in Nat
  BY <1>1, KeptFacts
<1>3. PagesTypeOK'
  BY <1>1, <1>2 DEF PagesTypeOK
<1>4. StreamTypeOK'
  BY <1>1, <1>2, StreamAssumption DEF StreamTypeOK, Cursors
<1>5. StreamInv'
  BY <1>1, <1>2 DEF StreamInv
<1>6. Delivery!Rewind(kept)
  BY <1>1, WholeOfStream DEF Delivery!Rewind
<1> QED BY <1>3, <1>4, <1>5, <1>6

LEMMA EndResponseKeeps ==
  ASSUME TypeOK, StreamInv, kind = "stream", UNCHANGED kind, EndResponse
  PROVE  /\ PagesTypeOK' /\ StreamTypeOK' /\ pc' \in StreamPcs /\ StreamInv'
         /\ (UNCHANGED <<table, stable, out, over>>) \/ Delivery!Finish
<1>1. /\ pc = "finish" /\ pc' = "idle" /\ PagesTypeOK /\ StreamTypeOK /\ ~over
      /\ UNCHANGED <<table, stable, after, rows, out, remaining, last, aborted, broken>>
      /\ out \in Seq(Keys) /\ DOMAIN out = 1..Len(out) /\ after \in Cursors
  BY DEF EndResponse, TypeOK, PagesTypeOK, StreamInv, tableVars, pageVars
<1>2. PagesTypeOK' /\ pc' \in StreamPcs
  BY <1>1 DEF PagesTypeOK, StreamPcs
<1>3. CASE aborted
  <2>1. UNCHANGED <<kept, cursor, over>>
    BY <1>3 DEF EndResponse
  <2> QED BY <1>1, <1>2, <1>3, <2>1 DEF StreamInv, StreamTypeOK
<1>4. CASE ~aborted
  <2>1. kept' = Len(out) /\ OnCourse /\ (after = cursor => AllRead)
    BY <1>1, <1>4 DEF EndResponse, StreamInv
  <2>2. CASE after # cursor
    <3>1. cursor' = after /\ over' = over
      BY <1>4, <2>2 DEF EndResponse
    <3>2. StreamTypeOK'
      BY <1>1, <2>1, <3>1 DEF StreamTypeOK, Cursors
    <3>3. StreamInv'
      BY <1>1, <2>1, <3>1 DEF StreamInv, OnCourse, Covered, Delivered
    <3> QED BY <1>1, <1>2, <3>1, <3>2, <3>3
  <2>3. CASE after = cursor
    <3>1. over' = TRUE /\ cursor' = cursor
      BY <1>4, <2>3 DEF EndResponse
    <3>2. StreamTypeOK'
      BY <1>1, <2>1, <3>1 DEF StreamTypeOK, Cursors
    <3>4. StreamInv'
      BY <1>1, <2>1, <2>3, <3>1 DEF StreamInv, OnCourse, Covered, Delivered, AllRead
    <3>3. Delivery!Finish
      BY <1>1, <2>1, <2>3, <3>1, WholeOfStream
         DEF Delivery!Finish, Delivery!Delivered, AllRead, Delivered
    <3> QED BY <1>2, <3>2, <3>3, <3>4
  <2> QED BY <2>2, <2>3
<1> QED BY <1>3, <1>4

(* Every step of the streaming export.                                     *)
StreamDelivers ==
  \/ UNCHANGED <<table, stable, out, over>>
  \/ \E k \in Keys : Delivery!Deliver(k)
  \/ \E n \in 0..Len(out) : Delivery!Rewind(n)
  \/ Delivery!Finish

LEMMA StreamKeeps ==
  ASSUME TypeOK, StreamInv, kind = "stream", UNCHANGED kind, StreamNext
  PROVE  PagesTypeOK' /\ StreamTypeOK' /\ pc' \in StreamPcs /\ StreamInv' /\ StreamDelivers
<1>0. PagesTypeOK /\ StreamTypeOK /\ rows \subseteq Keys /\ kept \in 0..Len(out)
  BY DEF TypeOK, PagesTypeOK, StreamTypeOK
<1>1. ASSUME NEW raw \in RawLimits, Request(raw)
      PROVE  PagesTypeOK' /\ StreamTypeOK' /\ pc' \in StreamPcs /\ StreamInv' /\ StreamDelivers
  BY <1>1, RequestKeeps DEF StreamDelivers
<1>2. CASE FetchStreamPage
  BY <1>2, FetchStreamKeeps DEF StreamDelivers
<1>3. ASSUME NEW k \in rows, WriteStreamRow(k)
      PROVE  PagesTypeOK' /\ StreamTypeOK' /\ pc' \in StreamPcs /\ StreamInv' /\ StreamDelivers
  BY <1>0, <1>3, WriteStreamKeeps DEF StreamDelivers
<1>4. CASE EndResponse
  BY <1>4, EndResponseKeeps DEF StreamDelivers
<1>5. CASE StreamClosed
  <2>1. pc' \in StreamPcs
    BY <1>5 DEF StreamClosed, TypeOK
  <2> QED BY <1>0, <1>5, <2>1, LoseKeeps DEF StreamClosed, StreamDelivers
<1>6. CASE StreamFails
  <2>1. pc' \in StreamPcs /\ pc' = "idle" /\ pc = "loop"
    BY <1>6 DEF StreamFails, StreamPcs
  <2>2. CASE aborted
    <3>1. UNCHANGED <<out, broken, tableVars, after, rows, remaining, last, aborted, kept,
                      cursor, over>>
      BY <1>6, <2>2 DEF StreamFails
    <3> QED BY <1>0, <2>1, <2>2, <3>1
         DEF StreamInv, StreamTypeOK, PagesTypeOK, StreamDelivers, tableVars
  <2>3. CASE ~aborted
    <3>1. aborted' \in BOOLEAN
      BY <1>0, <1>6 DEF StreamFails, StreamTypeOK
    <3> QED BY <1>0, <1>6, <2>1, <2>3, <3>1, LoseKeeps DEF StreamFails, StreamDelivers
  <2> QED BY <2>2, <2>3
<1>7. CASE LimitReached \/ StreamDrained
  <2>1. /\ UNCHANGED <<table, stable, after, rows, out, streamVars>>
        /\ pc' \in StreamPcs \ {"drain"} /\ pc \in {"loop", "drain"}
        /\ pc' = "loop" \/ pc' = "write" \/ pc' = "finish"
        /\ pc = "loop" => pc' = "finish" /\ remaining = 0
        /\ pc = "drain" => ~aborted
    BY <1>7 DEF LimitReached, StreamDrained, AfterRow, tableVars, pageVars, StreamPcs
  <2>2. PagesTypeOK' /\ StreamTypeOK'
    BY <1>0, <2>1 DEF PagesTypeOK, StreamTypeOK, streamVars
  <2>3. OnCourse <=> OnCourse'
    BY <2>1 DEF OnCourse, Covered, PageNext, Delivered
  <2>4. StreamInv'
    BY <2>1, <2>3 DEF StreamInv, streamVars
  <2> QED BY <2>1, <2>2, <2>4 DEF StreamDelivers, streamVars
<1> QED BY <1>1, <1>2, <1>3, <1>4, <1>5, <1>6, <1>7 DEF StreamNext, HandleExport

-----------------------------------------------------------------------------
(* The error stream.                                                       *)
LEMMA WholeOfErrors ==
  ASSUME kind = "errors", UNCHANGED kind
  PROVE  Whole = sent /\ Whole' = sent'
  BY DEF Whole

LEMMA WriteErrorKeeps ==
  ASSUME TypeOK, ErrorInv, kind = "errors", UNCHANGED kind, NEW k \in rows, WriteError(k)
  PROVE  /\ PagesTypeOK' /\ ErrorTypeOK' /\ pc' \in ErrorPcs /\ ErrorInv'
         /\ (UNCHANGED <<table, stable, out, sent>>) \/ Delivery!Deliver(k)
<1>1. /\ PagesTypeOK /\ ErrorTypeOK /\ pc = "write" /\ ~sent
      /\ UNCHANGED <<closed, sent>> /\ TakeRow(k)
  BY DEF WriteError, errorVars, TypeOK, ErrorInv
<1>2. /\ k \in Keys /\ after' = k /\ UNCHANGED <<table, stable>>
      /\ out' = out => PagesTypeOK'
      /\ out' = Append(out, k) => PagesTypeOK'
  BY <1>1, TakeKeeps
<1>3. ErrorTypeOK' /\ pc' \in ErrorPcs
  BY <1>1 DEF WriteError, ErrorTypeOK, ErrorPcs
<1>4. CASE closed
  <2>1. out' = out
    BY <1>4 DEF WriteError
  <2> QED BY <1>1, <1>2, <1>3, <1>4, <2>1 DEF ErrorInv
<1>5. CASE ~closed
  <2>1. out' = Append(out, k)
    BY <1>5 DEF WriteError
  <2>2. /\ OnCourse'
        /\ \A j \in Delivered : j < k
        /\ \A s \in stable : s < k => s \in Delivered
    BY <1>1, <1>5, <2>1, DeliverKeeps DEF ErrorInv
  <2>3. Delivery!Deliver(k)
    BY <1>1, <1>2, <2>1, <2>2, WholeOfErrors DEF Delivery!Deliver, Delivery!Delivered, Delivered
  <2> QED BY <1>1, <1>2, <1>3, <2>1, <2>2, <2>3 DEF ErrorInv
<1> QED BY <1>4, <1>5

ErrorsDeliver ==
  \/ UNCHANGED <<table, stable, out, sent>>
  \/ \E k \in Keys : Delivery!Deliver(k)
  \/ Delivery!Finish
  \/ Delivery!Restart

LEMMA ErrorsKeep ==
  ASSUME TypeOK, ErrorInv, kind = "errors", UNCHANGED kind, ErrorNext
  PROVE  PagesTypeOK' /\ ErrorTypeOK' /\ pc' \in ErrorPcs /\ ErrorInv' /\ ErrorsDeliver
<1>0. PagesTypeOK /\ ErrorTypeOK /\ rows \subseteq Keys /\ pc \in ErrorPcs
  BY DEF TypeOK, PagesTypeOK
<1>1. CASE BeginErrors
  <2>1. /\ out' = <<>> /\ stable' = table /\ after' = 0 /\ rows' = {} /\ pc' = "loop"
        /\ ~sent /\ UNCHANGED <<table, closed, sent>>
    BY <1>1 DEF BeginErrors, ForgetHistory, FromTheStart, errorVars
  <2>2. PagesTypeOK' /\ ErrorTypeOK' /\ pc' \in ErrorPcs
    BY <1>0, <2>1 DEF PagesTypeOK, ErrorTypeOK, ErrorPcs, Cursors
  <2>3. OnCourse'
    BY <1>0, <2>1 DEF OnCourse, Covered, PageNext, Delivered, PagesTypeOK
  <2>4. Delivery!Restart
    BY <2>1, WholeOfErrors DEF Delivery!Restart
  <2> QED BY <2>1, <2>2, <2>3, <2>4 DEF ErrorInv, ErrorsDeliver
<1>2. CASE FetchErrors
  <2>1. FetchPage(ErrorPage) /\ ErrorPage \in Nat \ {0} /\ pc = "loop" /\ closed' = closed /\ ~sent
    BY <1>2, ErrorAssumption DEF FetchErrors, ErrorInv
  <2>2. /\ PagesTypeOK' /\ UNCHANGED <<table, stable, after, out>>
        /\ Covered => OnCourse' /\ (rows' = {} => AllRead')
    BY <1>0, <2>1, FetchKeeps
  <2>3. ErrorTypeOK' /\ pc' \in ErrorPcs
    BY <1>0, <1>2 DEF FetchErrors, ErrorTypeOK, ErrorPcs
  <2>4. CASE rows' = {} /\ ~closed
    <3>1. pc' = "idle" /\ sent' = TRUE
      BY <1>2, <2>4 DEF FetchErrors
    <3>2. AllRead /\ AllRead'
      BY <2>1, <2>2, <2>4 DEF ErrorInv, OnCourse, AllRead, Delivered
    <3>3. Delivery!Finish
      BY <2>1, <2>2, <3>1, <3>2, WholeOfErrors
         DEF Delivery!Finish, Delivery!Delivered, AllRead, Delivered
    <3> QED BY <2>2, <2>3, <3>1, <3>2, <3>3 DEF ErrorInv, ErrorsDeliver
  <2>5. CASE ~(rows' = {} /\ ~closed)
    <3>1. /\ ~sent' /\ sent' = sent
          /\ pc' = "idle" \/ (pc' = "write" /\ rows' # {})
      BY <1>0, <1>2, <2>1, <2>5 DEF FetchErrors, ErrorTypeOK
    <3> QED BY <2>1, <2>2, <2>3, <3>1 DEF ErrorInv, ErrorsDeliver, OnCourse
  <2> QED BY <2>4, <2>5
<1>3. ASSUME NEW k \in rows, WriteError(k)
      PROVE  PagesTypeOK' /\ ErrorTypeOK' /\ pc' \in ErrorPcs /\ ErrorInv' /\ ErrorsDeliver
  BY <1>0, <1>3, WriteErrorKeeps DEF ErrorsDeliver
<1>4. CASE FetchErrorsFails \/ ErrorsDrained \/ ErrorsClosed
  <2>1. /\ UNCHANGED <<table, stable, after, rows, out, sent>>
        /\ pc # "idle" /\ pc' \in ErrorPcs /\ closed' \in BOOLEAN
        /\ ~closed' => ~closed
    BY <1>0, <1>4 DEF FetchErrorsFails, ErrorsDrained, ErrorsClosed, tableVars, pageVars,
       errorVars, ErrorPcs, ErrorTypeOK
  <2>2. OnCourse <=> OnCourse'
    BY <2>1 DEF OnCourse, Covered, PageNext, Delivered
  <2> QED BY <1>0, <2>1, <2>2 DEF ErrorInv, ErrorTypeOK, PagesTypeOK, ErrorsDeliver
<1> QED BY <1>1, <1>2, <1>3, <1>4 DEF ErrorNext, HandleErrors

-----------------------------------------------------------------------------
(* The export job.                                                         *)
LEMMA WholeOfJob ==
  ASSUME kind = "job", UNCHANGED kind
  PROVE  Whole = (status = "completed") /\ Whole' = (status' = "completed")
  BY DEF Whole

LEMMA TokensTyped ==
  /\ \A k \in Keys : Row(k) \in Tokens
  /\ Opening \in Tokens /\ Comma \in Tokens /\ Closing \in Tokens
  BY DEF Tokens, Opening, Comma, Closing, Marks

(* A row joins the file with what stands before it.                        *)
LEMMA FileGrows ==
  ASSUME NEW f \in Seq(Tokens), NEW keys \in Seq(Keys), NEW k \in Keys,
         format \in Formats, IsBegun(f, keys), started <=> keys # <<>>
  PROVE  (f \o Chunk(k)) \in Seq(Tokens) /\ IsBegun(f \o Chunk(k), Append(keys, k))
<1>0. format \in {"json", "ndjson"}
  BY JobAssumption
<1>1. Row(k) \in Tokens /\ Opening \in Tokens /\ Comma \in Tokens
  BY TokensTyped
<1>2. CASE format = "ndjson"
  <2>1. f = [n \in DOMAIN keys |-> Row(keys[n])]
    BY <1>2 DEF IsBegun
  <2>2. Chunk(k) = <<Row(k)>>
    BY <1>2 DEF Chunk
  <2>3. \A j \in Keys : Row(j) \in Tokens
    BY TokensTyped
  <2>4. f \o <<Row(k)>> = [n \in DOMAIN Append(keys, k) |-> Row(Append(keys, k)[n])]
    BY <2>1, <2>3, LinesGrow
  <2>5. <<Row(k)>> \in Seq(Tokens)
    BY <1>1, SmallSequences
  <2>6. (f \o <<Row(k)>>) \in Seq(Tokens)
    BY <2>5, JoinFacts
  <2> QED BY <1>2, <2>2, <2>4, <2>6 DEF IsBegun
<1>3. CASE format = "json"
  <2> DEFINE first == IF keys = <<>> THEN Opening ELSE Comma
  <2>1. Chunk(k) = <<first, Row(k)>> /\ first \in Tokens
    BY <1>1, <1>3 DEF Chunk
  <2>2. Objects(f, keys)
    BY <1>3 DEF IsBegun
  <2>3. Objects(f \o <<first, Row(k)>>, Append(keys, k))
    BY <1>1, <2>1, <2>2, ObjectsGrow
  <2> HIDE DEF first
  <2>4. <<first, Row(k)>> \in Seq(Tokens)
    BY <1>1, <2>1, SmallSequences
  <2>5. (f \o <<first, Row(k)>>) \in Seq(Tokens)
    BY <2>4, JoinFacts
  <2> QED BY <1>3, <2>1, <2>3, <2>5 DEF IsBegun
<1> QED BY <1>0, <1>2, <1>3

(* The end of the file makes it whole.                                     *)
LEMMA FileEnds ==
  ASSUME NEW f \in Seq(Tokens), NEW keys \in Seq(Keys),
         format \in Formats, IsBegun(f, keys), started <=> keys # <<>>
  PROVE  (f \o Ending) \in Seq(Tokens) /\ IsFramed(f \o Ending, keys)
<1>0. format \in {"json", "ndjson"}
  BY JobAssumption
<1>1. Opening \in Tokens /\ Closing \in Tokens
  BY TokensTyped
<1>2. CASE format = "ndjson"
  <2>1. Ending = <<>>
    BY <1>2 DEF Ending
  <2>2. f \o <<>> = f
    OBVIOUS
  <2> QED BY <1>2, <2>1, <2>2 DEF IsBegun, IsFramed
<1>3. CASE format = "json"
  <2>1. Objects(f, keys)
    BY <1>3 DEF IsBegun
  <2>2. CASE keys = <<>>
    <3>1. Len(f) = 0
      BY <2>1, <2>2 DEF Objects
    <3>2. f = <<>>
      BY <3>1, EmptySequence
    <3>3. Ending = <<Opening, Closing>>
      BY <1>3, <2>2 DEF Ending
    <3>4. /\ <<Opening, Closing>> \in Seq(Tokens) /\ Len(<<Opening, Closing>>) = 2
          /\ <<Opening, Closing>>[1] = Opening /\ <<Opening, Closing>>[2] = Closing
      BY <1>1, SmallSequences
    <3>5. f \o Ending = <<Opening, Closing>>
      BY <3>2, <3>3, <3>4
    <3> QED BY <1>3, <2>2, <3>4, <3>5 DEF IsFramed
  <2>3. CASE keys # <<>>
    <3>1. Ending = <<Closing>>
      BY <1>3, <2>3 DEF Ending
    <3>2. <<Closing>> \in Seq(Tokens)
      BY <1>1, SmallSequences
    <3>3. (f \o <<Closing>>) \in Seq(Tokens)
      BY <3>2, JoinFacts
    <3>4. IsArray(f \o <<Closing>>, keys)
      BY <1>1, <2>1, <2>3, ObjectsEnd
    <3>5. IsFramed(f \o <<Closing>>, keys)
      BY <1>3, <2>3, <3>4 DEF IsArray, IsFramed
    <3> QED BY <3>1, <3>3, <3>5
  <2> QED BY <2>2, <2>3
<1> QED BY <1>0, <1>2, <1>3

JobDelivers ==
  \/ UNCHANGED <<table, stable, out>> /\ (status' = "completed" <=> status = "completed")
  \/ \E k \in Keys : Delivery!Deliver(k)
  \/ Delivery!Finish \/ Delivery!Retract \/ Delivery!Restart

(* What holds after a step of the job.                                     *)
JobGoal == PagesTypeOK' /\ JobTypeOK' /\ pc' \in JobPcs /\ JobInv' /\ JobDelivers

JobNow == TypeOK /\ JobInv /\ kind = "job" /\ UNCHANGED kind

LEMMA JobTyped ==
  ASSUME JobNow
  PROVE  PagesTypeOK /\ JobTypeOK /\ pc \in JobPcs /\ JobInv
  BY DEF JobNow, TypeOK

LEMMA MarkRunningKeeps == ASSUME JobNow, MarkRunning PROVE JobGoal
<1>0. PagesTypeOK /\ JobTypeOK /\ JobInv
  BY JobTyped
<1>1. /\ pc = "mark" /\ pc' = "open" /\ status' = "running" /\ out' = <<>> /\ stable' = table
      /\ rerun' = TRUE
      /\ UNCHANGED <<table, after, rows, format, file, started, runs, acked, reading, opened, copy>>
  BY DEF MarkRunning, ForgetHistory, fileVars, runVars
<1>2. PagesTypeOK' /\ JobTypeOK' /\ pc' \in JobPcs
  BY <1>0, <1>1 DEF PagesTypeOK, JobTypeOK, JobPcs, Statuses
<1>3. JobInv'
  BY <1>1 DEF JobInv
<1>4. Delivery!Restart
  BY <1>1, WholeOfJob DEF Delivery!Restart, JobNow
<1> QED BY <1>2, <1>3, <1>4 DEF JobGoal, JobDelivers

LEMMA OpenFileKeeps == ASSUME JobNow, OpenFile PROVE JobGoal
<1>0. PagesTypeOK /\ JobTypeOK /\ JobInv
  BY JobTyped
<1>1. /\ pc = "open" /\ pc' = "loop" /\ out = <<>> /\ after' = 0 /\ rows' = {}
      /\ file' = <<>> /\ started' = FALSE
      /\ UNCHANGED <<table, stable, out, format, status, runs, acked, reading, opened, copy, rerun>>
  BY <1>0 DEF OpenFile, FromTheStart, tableVars, runVars, downloadVars, JobInv
<1>2. PagesTypeOK' /\ JobTypeOK' /\ pc' \in JobPcs
  <2>1. PagesTypeOK'
    BY <1>0, <1>1 DEF PagesTypeOK, Cursors
  <2>2. file' \in Seq(Tokens) /\ started' \in BOOLEAN
    BY <1>1, EmptyTyped
  <2>3. JobTypeOK'
    BY <1>0, <1>1, <2>2 DEF JobTypeOK
  <2> QED BY <1>1, <2>1, <2>3 DEF JobPcs
<1>3. OnCourse'
  BY <1>0, <1>1 DEF OnCourse, Covered, PageNext, PagesTypeOK
<1>4. IsBegun(file, out)'
  <2>1. format \in {"json", "ndjson"}
    BY <1>0, JobAssumption DEF JobTypeOK
  <2>2. Len(<<>>) = 0 /\ 2 * 0 = 0
    OBVIOUS
  <2>3. Objects(<<>>, <<>>)
    BY <2>2 DEF Objects
  <2>4. <<>> = [n \in DOMAIN <<>> |-> Row(<<>>[n])]
    OBVIOUS
  <2> QED BY <1>1, <2>1, <2>3, <2>4 DEF IsBegun
<1>5. JobInv'
  BY <1>0, <1>1, <1>3, <1>4 DEF JobInv, Resting
<1> QED BY <1>1, <1>2, <1>5 DEF JobGoal, JobDelivers

LEMMA FetchFileKeeps == ASSUME JobNow, FetchFilePage PROVE JobGoal
<1>0. PagesTypeOK /\ JobTypeOK /\ JobInv
  BY JobTyped
<1>1. /\ FetchPage(FileBatch) /\ FileBatch \in Nat \ {0} /\ pc = "loop"
      /\ pc' = IF rows' = {} THEN "flush" ELSE "write"
      /\ UNCHANGED <<format, status, file, started, runs, acked, reading, opened, copy, rerun>>
  BY JobAssumption DEF FetchFilePage, jobVars, fileVars, runVars, downloadVars
<1>2. /\ PagesTypeOK' /\ UNCHANGED <<table, stable, after, out>>
      /\ Covered => OnCourse' /\ (rows' = {} => AllRead')
  BY <1>0, <1>1, FetchKeeps
<1>3. OnCourse' /\ (rows' = {} => AllRead')
  BY <1>0, <1>1, <1>2 DEF JobInv, OnCourse
<1>4. JobTypeOK' /\ pc' \in JobPcs
  BY <1>0, <1>1 DEF JobTypeOK, JobPcs
<1>5. IsBegun(file, out)' /\ (started' <=> out' # <<>>)
  BY <1>0, <1>1, <1>2 DEF JobInv, IsBegun
<1>6. JobInv'
  BY <1>0, <1>1, <1>3, <1>5 DEF JobInv, Resting
<1> QED BY <1>1, <1>2, <1>4, <1>6 DEF JobGoal, JobDelivers

LEMMA WriteFileKeeps == ASSUME JobNow, NEW k \in rows, WriteFileRow(k) PROVE JobGoal
<1>0. PagesTypeOK /\ JobTypeOK /\ JobInv
  BY JobTyped
<1>1. /\ pc = "write" /\ TakeRow(k) /\ out' = Append(out, k) /\ file' = file \o Chunk(k)
      /\ started' = TRUE /\ pc' = IF rows' = {} THEN "loop" ELSE "write"
      /\ UNCHANGED <<format, status, runs, acked, reading, opened, copy, rerun>>
  BY DEF WriteFileRow, runVars, downloadVars
<1>2. k \in Keys /\ UNCHANGED <<table, stable>> /\ PagesTypeOK'
  BY <1>0, <1>1, TakeKeeps
<1>3. /\ OnCourse'
      /\ \A j \in Delivered : j < k
      /\ \A s \in stable : s < k => s \in Delivered
  BY <1>0, <1>1, DeliverKeeps DEF JobInv
<1>4. file' \in Seq(Tokens) /\ IsBegun(file', out')
  <2>1. /\ file \in Seq(Tokens) /\ out \in Seq(Keys) /\ format \in Formats
        /\ IsBegun(file, out) /\ (started <=> out # <<>>)
    BY <1>0, <1>1 DEF PagesTypeOK, JobTypeOK, JobInv
  <2>2. (file \o Chunk(k)) \in Seq(Tokens) /\ IsBegun(file \o Chunk(k), Append(out, k))
    BY <1>2, <2>1, FileGrows
  <2> QED BY <1>1, <2>2
<1>5. IsBegun(file, out)'
  BY <1>1, <1>4 DEF IsBegun
<1>6. out' # <<>>
  <2>1. out \in Seq(Keys)
    BY <1>0 DEF PagesTypeOK
  <2> QED BY <1>1, <1>2, <2>1
<1>7. JobTypeOK' /\ pc' \in JobPcs
  BY <1>0, <1>1, <1>4 DEF JobTypeOK, JobPcs
<1>8. JobInv'
  BY <1>0, <1>1, <1>3, <1>5, <1>6 DEF JobInv, Resting
<1>9. Delivery!Deliver(k)
  BY <1>0, <1>1, <1>2, <1>3, WholeOfJob
     DEF Delivery!Deliver, Delivery!Delivered, Delivered, JobInv, Resting, JobNow
<1> QED BY <1>2, <1>7, <1>8, <1>9 DEF JobGoal, JobDelivers

LEMMA FlushKeeps == ASSUME JobNow, FlushFile PROVE JobGoal
<1>0. PagesTypeOK /\ JobTypeOK /\ JobInv
  BY JobTyped
<1>1. /\ pc = "flush" /\ pc' = "complete" /\ file' = file \o Ending
      /\ UNCHANGED <<table, stable, after, rows, out, format, status, started, runs, acked,
                     reading, opened, copy, rerun>>
  BY DEF FlushFile, tableVars, pageVars, runVars, downloadVars
<1>2. file' \in Seq(Tokens) /\ IsFramed(file', out)
  <2>1. /\ file \in Seq(Tokens) /\ out \in Seq(Keys) /\ format \in Formats
        /\ IsBegun(file, out) /\ (started <=> out # <<>>)
    BY <1>0, <1>1 DEF PagesTypeOK, JobTypeOK, JobInv
  <2>2. (file \o Ending) \in Seq(Tokens) /\ IsFramed(file \o Ending, out)
    BY <2>1, FileEnds
  <2> QED BY <1>1, <2>2
<1>3. IsFramed(file, out)'
  BY <1>1, <1>2 DEF IsFramed
<1>4. PagesTypeOK' /\ JobTypeOK' /\ pc' \in JobPcs
  BY <1>0, <1>1, <1>2 DEF PagesTypeOK, JobTypeOK, JobPcs
<1>5. AllRead'
  BY <1>0, <1>1 DEF JobInv, AllRead, Delivered
<1>6. JobInv'
  BY <1>0, <1>1, <1>3, <1>5 DEF JobInv, Resting
<1> QED BY <1>1, <1>4, <1>6 DEF JobGoal, JobDelivers

LEMMA MarkCompletedKeeps == ASSUME JobNow, MarkCompleted PROVE JobGoal
<1>0. PagesTypeOK /\ JobTypeOK /\ JobInv
  BY JobTyped
<1>1. /\ pc = "complete" /\ pc' \in {"ack", "fail"} /\ status' = "completed"
      /\ UNCHANGED <<table, stable, after, rows, out, format, file, started, runs, acked,
                     reading, opened, copy, rerun>>
  BY DEF MarkCompleted, tableVars, pageVars, fileVars, runVars, downloadVars
<1>2. PagesTypeOK' /\ JobTypeOK' /\ pc' \in JobPcs
  BY <1>0, <1>1 DEF PagesTypeOK, JobTypeOK, JobPcs, Statuses
<1>3. AllRead /\ AllRead' /\ IsFramed(file, out)'
  BY <1>0, <1>1 DEF JobInv, AllRead, Delivered, IsFramed
<1>4. JobInv'
  BY <1>0, <1>1, <1>3 DEF JobInv, Resting
<1>5. Delivery!Finish
  <2>1. status # "completed"
    BY <1>0, <1>1 DEF JobInv, Resting
  <2> QED BY <1>1, <1>3, <2>1, WholeOfJob
          DEF Delivery!Finish, Delivery!Delivered, AllRead, Delivered, JobNow
<1> QED BY <1>2, <1>4, <1>5 DEF JobGoal, JobDelivers

LEMMA MarkFailedKeeps == ASSUME JobNow, MarkExportFailed PROVE JobGoal
<1>0. PagesTypeOK /\ JobTypeOK /\ JobInv
  BY JobTyped
<1>1. /\ pc = "fail" /\ pc' = "idle" /\ status' \in {"failed", status}
      /\ UNCHANGED <<table, stable, after, rows, out, format, file, started, runs, acked,
                     reading, opened, copy, rerun>>
  BY DEF MarkExportFailed, tableVars, pageVars, fileVars, runVars, downloadVars
<1>2. PagesTypeOK' /\ JobTypeOK' /\ pc' \in JobPcs
  BY <1>0, <1>1 DEF PagesTypeOK, JobTypeOK, JobPcs, Statuses
<1>3. (AllRead <=> AllRead') /\ (IsFramed(file, out) <=> IsFramed(file, out)')
  BY <1>1 DEF AllRead, Delivered, IsFramed
<1>4. JobInv'
  BY <1>0, <1>1, <1>3 DEF JobInv, Resting
<1>5. JobDelivers
  BY <1>1, WholeOfJob DEF JobDelivers, Delivery!Retract, JobNow
<1> QED BY <1>2, <1>4, <1>5 DEF JobGoal

(* The steps that leave the file and the row's completion alone.           *)
LEMMA JobMoveKeeps ==
  ASSUME JobNow, pc' \in {"idle", "mark", "fail"},
         pc \in Resting => pc' \in Resting,
         UNCHANGED <<table, stable, after, rows, out, format, file, started, copy>>,
         status' = status, reading' = reading, opened' = opened, rerun' = rerun,
         runs' \in 0..MaxRuns, acked' \in BOOLEAN
  PROVE  JobGoal
<1>0. PagesTypeOK /\ JobTypeOK /\ JobInv
  BY JobTyped
<1>1. PagesTypeOK' /\ JobTypeOK' /\ pc' \in JobPcs
  BY <1>0 DEF PagesTypeOK, JobTypeOK, JobPcs
<1>2. (AllRead <=> AllRead') /\ (IsFramed(file, out) <=> IsFramed(file, out)')
  BY DEF AllRead, Delivered, IsFramed
<1>3. JobInv'
  BY <1>0, <1>2 DEF JobInv, Resting
<1> QED BY <1>1, <1>3 DEF JobGoal, JobDelivers

(* The sweep and the download leave the run alone.                         *)
LEMMA JobAsideKeeps ==
  ASSUME JobNow,
         UNCHANGED <<table, stable, pc, after, rows, out, format, file, started, runs, acked>>,
         status' \in Statuses, status' = "completed" <=> status = "completed",
         reading' \in BOOLEAN, opened' \in BOOLEAN, rerun' \in BOOLEAN,
         copy' \in Seq(Tokens),
         reading' /\ ~rerun' =>
           /\ (reading /\ ~rerun) \/ status = "completed"
           /\ Len(copy') <= Len(file) /\ \A n \in DOMAIN copy' : copy'[n] = file[n]
  PROVE  JobGoal
<1>0. PagesTypeOK /\ JobTypeOK /\ JobInv /\ pc \in JobPcs
  BY JobTyped
<1>1. PagesTypeOK' /\ JobTypeOK' /\ pc' \in JobPcs
  BY <1>0 DEF PagesTypeOK, JobTypeOK
<1>2. /\ AllRead <=> AllRead'
      /\ IsFramed(file, out) <=> IsFramed(file, out)'
      /\ IsBegun(file, out) <=> IsBegun(file, out)'
      /\ OnCourse <=> OnCourse'
  BY DEF AllRead, Delivered, IsFramed, IsBegun, OnCourse, Covered, PageNext
<1>3. JobInv'
  BY <1>0, <1>2 DEF JobInv
<1> QED BY <1>1, <1>3 DEF JobGoal, JobDelivers

LEMMA DownloadKeeps ==
  ASSUME JobNow,
         SweepExport \/ getExportDownload \/ OpenDownload \/ ReadChunk \/ EndDownload
  PROVE  JobGoal
<1>0. PagesTypeOK /\ JobTypeOK /\ JobInv
  BY JobTyped
<1>1. UNCHANGED <<table, stable, pc, after, rows, out, format, file, started, runs, acked>>
  BY DEF SweepExport, getExportDownload, OpenDownload, ReadChunk, EndDownload, tableVars,
     pageVars, fileVars, runVars
<1>2. file \in Seq(Tokens) /\ copy \in Seq(Tokens)
  BY <1>0 DEF JobTypeOK
<1>3. CASE SweepExport
  BY <1>0, <1>1, <1>3, JobAsideKeeps DEF SweepExport, downloadVars, JobTypeOK, Statuses, JobInv
<1>4. CASE getExportDownload
  <2>1. /\ status = "completed" /\ status' = status /\ reading' = TRUE /\ opened' = FALSE
        /\ copy' = <<>> /\ rerun' = FALSE
    BY <1>4 DEF getExportDownload
  <2>2. Len(copy') <= Len(file) /\ \A n \in DOMAIN copy' : copy'[n] = file[n]
    BY <1>2, <2>1
  <2>3. <<>> \in Seq(Tokens) /\ status \in Statuses
    BY <1>0 DEF JobTypeOK
  <2> QED BY <1>1, <2>1, <2>2, <2>3, JobAsideKeeps
<1>5. CASE ReadChunk
  <2>1. /\ Len(copy) < Len(file) /\ copy' = Append(copy, file[Len(copy) + 1])
        /\ status' = status /\ reading' = reading /\ rerun' = rerun /\ reading
        /\ opened' = opened
    BY <1>5 DEF ReadChunk
  <2>2. file[Len(copy) + 1] \in Tokens /\ Len(copy) \in Nat /\ Len(file) \in Nat
    BY <1>2, <2>1
  <2>3. /\ copy' \in Seq(Tokens) /\ DOMAIN copy = 1..Len(copy) /\ DOMAIN copy' = 1..(Len(copy) + 1)
        /\ copy'[Len(copy) + 1] = file[Len(copy) + 1]
        /\ \A n \in DOMAIN copy : copy'[n] = copy[n]
    BY <1>2, <2>1, <2>2, AppendFacts
  <2>4. Len(copy') = Len(copy) + 1
    BY <2>2, <2>3
  <2>5. ASSUME ~rerun
        PROVE  Len(copy') <= Len(file) /\ \A n \in DOMAIN copy' : copy'[n] = file[n]
    <3>1. \A n \in DOMAIN copy : copy[n] = file[n]
      BY <1>0, <2>1, <2>5 DEF JobInv
    <3> QED BY <2>1, <2>2, <2>3, <2>4, <3>1
  <2> QED BY <1>0, <1>1, <2>1, <2>3, <2>5, JobAsideKeeps DEF JobTypeOK
<1>6. CASE EndDownload
  <2>1. /\ status' = status /\ reading' = FALSE /\ opened' = FALSE /\ copy' = <<>>
        /\ rerun' = rerun
    BY <1>6 DEF EndDownload
  <2>2. <<>> \in Seq(Tokens) /\ status \in Statuses /\ rerun \in BOOLEAN
    BY <1>0 DEF JobTypeOK
  <2> QED BY <1>1, <2>1, <2>2, JobAsideKeeps
<1>7. CASE OpenDownload
  <2>1. status' = status /\ reading' = reading /\ opened' = TRUE /\ copy' = copy /\ rerun' = rerun
    BY <1>7 DEF OpenDownload
  <2>2. reading \in BOOLEAN /\ rerun \in BOOLEAN /\ status \in Statuses
    BY <1>0 DEF JobTypeOK
  <2>3. reading /\ ~rerun => Len(copy) <= Len(file) /\ \A n \in DOMAIN copy : copy[n] = file[n]
    BY <1>0 DEF JobInv
  <2> QED BY <1>1, <1>2, <2>1, <2>2, <2>3, JobAsideKeeps
<1> QED BY <1>3, <1>4, <1>5, <1>6, <1>7

LEMMA JobKeeps == ASSUME JobNow, JobNext PROVE JobGoal
<1>0. PagesTypeOK /\ JobTypeOK /\ JobInv
  BY JobTyped
<1>1. CASE RunExport \/ AckExport \/ StartFails \/ RunFails \/ CrashExport
  <2>1. /\ pc' \in {"idle", "mark", "fail"}
        /\ pc \in Resting => pc' \in Resting
        /\ UNCHANGED <<table, stable, after, rows, out, format, file, started, copy>>
        /\ status' = status /\ reading' = reading /\ opened' = opened /\ rerun' = rerun
    BY <1>1 DEF RunExport, AckExport, StartFails, RunFails, CrashExport, Resting, tableVars,
       pageVars, jobVars, fileVars, runVars, downloadVars
  <2>2. runs' \in 0..MaxRuns /\ acked' \in BOOLEAN
    <3>1. runs \in 0..MaxRuns /\ acked \in BOOLEAN /\ MaxRuns \in Nat
      BY <1>0, JobAssumption DEF JobTypeOK
    <3>2. CASE RunExport
      BY <3>1, <3>2 DEF RunExport
    <3>3. CASE AckExport
      BY <3>1, <3>3 DEF AckExport
    <3>4. CASE StartFails \/ RunFails \/ CrashExport
      BY <3>1, <3>4 DEF StartFails, RunFails, CrashExport, jobVars, runVars
    <3> QED BY <1>1, <3>2, <3>3, <3>4
  <2> QED BY <2>1, <2>2, JobMoveKeeps
<1>2. CASE \/ MarkRunning \/ OpenFile \/ FetchFilePage \/ FlushFile
           \/ MarkCompleted \/ MarkExportFailed
  BY <1>2, MarkRunningKeeps, OpenFileKeeps, FetchFileKeeps, FlushKeeps, MarkCompletedKeeps,
     MarkFailedKeeps
<1>3. ASSUME NEW k \in rows, WriteFileRow(k) PROVE JobGoal
  BY <1>3, WriteFileKeeps
<1>4. CASE SweepExport \/ getExportDownload \/ OpenDownload \/ ReadChunk \/ EndDownload
  BY <1>4, DownloadKeeps
<1> QED BY <1>1, <1>2, <1>3, <1>4 DEF JobNext, HandleExportJob

-----------------------------------------------------------------------------
(* The whole.                                                              *)
LEMMA Split ==
  ASSUME IInv
  PROVE  /\ PagesTypeOK /\ StreamTypeOK /\ ErrorTypeOK /\ JobTypeOK
         /\ kind \in {"stream", "errors", "job"} /\ kind \in Kinds
         /\ kind = "stream" => pc \in StreamPcs /\ StreamInv
         /\ kind = "errors" => pc \in ErrorPcs /\ ErrorInv
         /\ kind = "job" => pc \in JobPcs /\ JobInv
         /\ kind # "stream" => kept = 0
         /\ kind # "job" => status = "queued" /\ ~reading
<1>1. TypeOK /\ Inv
  BY DEF IInv
<1>2. PagesTypeOK /\ StreamTypeOK /\ ErrorTypeOK /\ JobTypeOK /\ kind \in Kinds
  BY <1>1 DEF TypeOK
<1>3. kind \in {"stream", "errors", "job"}
  BY <1>2, KindsAssumption
<1>4. /\ kind = "stream" => pc \in StreamPcs
      /\ kind = "errors" => pc \in ErrorPcs
      /\ kind = "job" => pc \in JobPcs
  BY <1>1 DEF TypeOK
<1> QED BY <1>1, <1>2, <1>3, <1>4 DEF Inv

LEMMA Join ==
  ASSUME PagesTypeOK, StreamTypeOK, ErrorTypeOK, JobTypeOK, kind \in Kinds,
         kind = "stream" => pc \in StreamPcs /\ StreamInv,
         kind = "errors" => pc \in ErrorPcs /\ ErrorInv,
         kind = "job" => pc \in JobPcs /\ JobInv,
         kind # "stream" => kept = 0,
         kind # "job" => status = "queued" /\ ~reading
  PROVE  IInv
<1>1. kind \in {"stream", "errors", "job"}
  BY KindsAssumption
<1>2. TypeOK
  BY <1>1 DEF TypeOK
<1>3. Inv
  BY DEF Inv
<1> QED BY <1>2, <1>3 DEF IInv

LEMMA JoinNext ==
  ASSUME PagesTypeOK', StreamTypeOK', ErrorTypeOK', JobTypeOK', kind' \in Kinds,
         kind' = "stream" => pc' \in StreamPcs /\ StreamInv',
         kind' = "errors" => pc' \in ErrorPcs /\ ErrorInv',
         kind' = "job" => pc' \in JobPcs /\ JobInv',
         kind' # "stream" => kept' = 0,
         kind' # "job" => status' = "queued" /\ ~reading'
  PROVE  IInv'
<1>1. kind' \in {"stream", "errors", "job"}
  BY KindsAssumption
<1>2. TypeOK'
  BY <1>1 DEF TypeOK
<1>3. Inv'
  BY DEF Inv
<1> QED BY <1>2, <1>3 DEF IInv

LEMMA InitIInv ==
  ASSUME Init PROVE IInv /\ Delivery!Init
<1>1. /\ kind \in Kinds /\ PagesInit /\ StreamInit /\ ErrorInit /\ JobInit
  BY DEF Init
<1>2. out = <<>> /\ Len(<<>>) = 0
  BY <1>1 DEF PagesInit
<1>3. PagesTypeOK
  BY <1>1, EmptyTyped DEF PagesInit, PagesTypeOK, Cursors
<1>4. StreamTypeOK
  <2>1. 0 \in 0..LimitCap /\ 0 \in 0..MaxBroken /\ 0 \in 0..Len(out)
    BY <1>2, StreamAssumption
  <2> QED BY <1>1, <2>1 DEF StreamInit, StreamTypeOK, Cursors
<1>5. ErrorTypeOK
  BY <1>1 DEF ErrorInit, ErrorTypeOK
<1>6. JobTypeOK
  <2>1. <<>> \in Seq(Tokens)
    BY EmptyTyped
  <2>2. format \in Formats /\ status \in Statuses /\ started \in BOOLEAN /\ acked \in BOOLEAN
        /\ reading \in BOOLEAN /\ opened \in BOOLEAN /\ rerun \in BOOLEAN
        /\ file = <<>> /\ copy = <<>>
    BY <1>1 DEF JobInit, Statuses
  <2>3. runs \in 0..MaxRuns
    BY <1>1, JobAssumption DEF JobInit
  <2> QED BY <2>1, <2>2, <2>3 DEF JobTypeOK
<1>7. /\ pc = "idle" /\ kept = 0 /\ over = FALSE /\ sent = FALSE
      /\ status = "queued" /\ ~reading /\ cursor = 0
  BY <1>1 DEF PagesInit, StreamInit, ErrorInit, JobInit
<1>8. StreamInv
  <2>1. stable \subseteq Nat \ {0}
    BY <1>3 DEF PagesTypeOK
  <2> QED BY <1>2, <1>7, <2>1 DEF StreamInv
<1>9. ErrorInv
  BY <1>7 DEF ErrorInv
<1>10. JobInv
  BY <1>7 DEF JobInv
<1>11. pc \in StreamPcs /\ pc \in ErrorPcs /\ pc \in JobPcs
  BY <1>7 DEF StreamPcs, ErrorPcs, JobPcs
<1>12. IInv
  BY <1>1, <1>3, <1>4, <1>5, <1>6, <1>7, <1>8, <1>9, <1>10, <1>11, Join
<1>13. kind \in {"stream", "errors", "job"}
  BY <1>1, KindsAssumption
<1>14. Whole = FALSE
  BY <1>7, <1>13 DEF Whole
<1>15. Delivery!Init
  BY <1>1, <1>14 DEF Delivery!Init, PagesInit
<1> QED BY <1>12, <1>15

(* What others write disturbs no reader.                                   *)
LEMMA OthersKeep ==
  ASSUME IInv, Others
  PROVE  IInv' /\ Delivery!Write
<1>1. /\ PagesTypeOK /\ StreamTypeOK /\ ErrorTypeOK /\ JobTypeOK /\ kind \in Kinds
      /\ kind = "stream" => pc \in StreamPcs /\ StreamInv
      /\ kind = "errors" => pc \in ErrorPcs /\ ErrorInv
      /\ kind = "job" => pc \in JobPcs /\ JobInv
      /\ kind # "stream" => kept = 0
      /\ kind # "job" => status = "queued" /\ ~reading
      /\ kind \in {"stream", "errors", "job"}
  BY Split
<1>2. /\ UNCHANGED <<kind, pc, after, rows, out>>
      /\ table' \subseteq Keys /\ stable' \subseteq table' /\ stable' = stable \cap table'
  BY <1>1 DEF Others, Enter, Leave, pageVars, PagesTypeOK
<1>3. /\ UNCHANGED <<remaining, last, aborted, kept, cursor, over, broken, closed, sent>>
      /\ UNCHANGED <<format, status, file, started, runs, acked, reading, opened, copy, rerun>>
  BY DEF Others, streamVars, errorVars, jobVars, fileVars, runVars, downloadVars
<1>4. PagesTypeOK' /\ StreamTypeOK' /\ ErrorTypeOK' /\ JobTypeOK'
  BY <1>1, <1>2, <1>3 DEF PagesTypeOK, StreamTypeOK, ErrorTypeOK, JobTypeOK
<1>5. (OnCourse => OnCourse') /\ (AllRead => AllRead') /\ stable' \subseteq stable
  BY <1>1, <1>2, WritesKeep
<1>6. (IsFramed(file, out) => IsFramed(file, out)') /\ (IsBegun(file, out) => IsBegun(file, out)')
  BY <1>2, <1>3 DEF IsFramed, IsBegun
<1>7. StreamInv => StreamInv'
  BY <1>2, <1>3, <1>5 DEF StreamInv
<1>8. ErrorInv => ErrorInv'
  BY <1>2, <1>3, <1>5 DEF ErrorInv
<1>9. JobInv => JobInv'
  BY <1>2, <1>3, <1>5, <1>6 DEF JobInv
<1>10. IInv'
  BY <1>1, <1>2, <1>3, <1>4, <1>7, <1>8, <1>9, JoinNext
<1>11. Whole' = Whole
  BY <1>2, <1>3 DEF Whole
<1>12. Delivery!Write
  BY <1>2, <1>11 DEF Delivery!Write
<1> QED BY <1>10, <1>12

(* A step keeps the invariant, and is one of the delivery or no step of it. *)
LEMMA StepIInv ==
  ASSUME IInv, [Next]_vars
  PROVE  IInv' /\ [Delivery!Next]_(Delivery!vars)
<1>1. /\ PagesTypeOK /\ StreamTypeOK /\ ErrorTypeOK /\ JobTypeOK /\ kind \in Kinds
      /\ kind = "stream" => pc \in StreamPcs /\ StreamInv
      /\ kind = "errors" => pc \in ErrorPcs /\ ErrorInv
      /\ kind = "job" => pc \in JobPcs /\ JobInv
      /\ kind # "stream" => kept = 0
      /\ kind # "job" => status = "queued" /\ ~reading
      /\ TypeOK
  BY Split DEF IInv
<1>2. CASE Others
  BY <1>2, OthersKeep DEF Delivery!Next
<1>3. CASE Stream
  <2>1. /\ kind = "stream" /\ UNCHANGED kind /\ StreamNext
        /\ UNCHANGED <<closed, sent>>
        /\ UNCHANGED <<format, status, file, started, runs, acked, reading, opened, copy, rerun>>
    BY <1>3 DEF Stream, errorVars, jobVars, fileVars, runVars, downloadVars
  <2>2. PagesTypeOK' /\ StreamTypeOK' /\ pc' \in StreamPcs /\ StreamInv' /\ StreamDelivers
    BY <1>1, <2>1, StreamKeeps
  <2>3. ErrorTypeOK' /\ JobTypeOK'
    BY <1>1, <2>1 DEF ErrorTypeOK, JobTypeOK
  <2>4. IInv'
    BY <1>1, <2>1, <2>2, <2>3, JoinNext
  <2>5. CASE UNCHANGED <<table, stable, out, over>>
    BY <2>1, <2>4, <2>5, WholeOfStream DEF Delivery!vars
  <2> QED BY <2>2, <2>4, <2>5 DEF StreamDelivers, Delivery!Next
<1>4. CASE Errors
  <2>1. /\ kind = "errors" /\ UNCHANGED kind /\ ErrorNext
        /\ UNCHANGED <<remaining, last, aborted, kept, cursor, over, broken>>
        /\ UNCHANGED <<format, status, file, started, runs, acked, reading, opened, copy, rerun>>
    BY <1>4 DEF Errors, streamVars, jobVars, fileVars, runVars, downloadVars
  <2>2. PagesTypeOK' /\ ErrorTypeOK' /\ pc' \in ErrorPcs /\ ErrorInv' /\ ErrorsDeliver
    BY <1>1, <2>1, ErrorsKeep
  <2>3. StreamTypeOK' /\ JobTypeOK'
    <3>1. kept' \in 0..Len(out')
      BY <1>1, <2>1, <2>2 DEF PagesTypeOK
    <3> QED BY <1>1, <2>1, <3>1 DEF StreamTypeOK, JobTypeOK, Cursors
  <2>4. IInv'
    BY <1>1, <2>1, <2>2, <2>3, JoinNext
  <2>5. CASE UNCHANGED <<table, stable, out, sent>>
    BY <2>1, <2>4, <2>5, WholeOfErrors DEF Delivery!vars
  <2> QED BY <2>2, <2>4, <2>5 DEF ErrorsDeliver, Delivery!Next
<1>5. CASE Job
  <2>1. /\ kind = "job" /\ UNCHANGED kind /\ JobNext
        /\ UNCHANGED <<remaining, last, aborted, kept, cursor, over, broken, closed, sent>>
    BY <1>5 DEF Job, streamVars, errorVars
  <2>2. JobNow
    BY <1>1, <2>1 DEF JobNow
  <2>3. JobGoal
    BY <2>1, <2>2, JobKeeps
  <2>4. PagesTypeOK' /\ JobTypeOK' /\ pc' \in JobPcs /\ JobInv' /\ JobDelivers
    BY <2>3 DEF JobGoal
  <2>5. StreamTypeOK' /\ ErrorTypeOK'
    <3>1. kept' \in 0..Len(out')
      BY <1>1, <2>1, <2>4 DEF PagesTypeOK
    <3> QED BY <1>1, <2>1, <3>1 DEF StreamTypeOK, ErrorTypeOK, Cursors
  <2>6. IInv'
    BY <1>1, <2>1, <2>4, <2>5, JoinNext
  <2>7. CASE UNCHANGED <<table, stable, out>> /\ (status' = "completed" <=> status = "completed")
    BY <2>1, <2>6, <2>7, WholeOfJob DEF Delivery!vars
  <2> QED BY <2>4, <2>6, <2>7 DEF JobDelivers, Delivery!Next
<1>6. CASE UNCHANGED vars
  <2>1. /\ UNCHANGED <<kind, table, stable, pc, after, rows, out>>
        /\ UNCHANGED <<remaining, last, aborted, kept, cursor, over, broken, closed, sent>>
        /\ UNCHANGED <<format, status, file, started, runs, acked, reading, opened, copy, rerun>>
    BY <1>6 DEF vars, tableVars, pageVars, streamVars, errorVars, jobVars, fileVars, runVars,
       downloadVars
  <2>2. PagesTypeOK' /\ StreamTypeOK' /\ ErrorTypeOK' /\ JobTypeOK'
    BY <1>1, <2>1 DEF PagesTypeOK, StreamTypeOK, ErrorTypeOK, JobTypeOK
  <2>3. (OnCourse => OnCourse') /\ (AllRead => AllRead')
    BY <1>1, <2>1, WritesKeep
  <2>4. (IsFramed(file, out) => IsFramed(file, out)') /\ (IsBegun(file, out) => IsBegun(file, out)')
    BY <2>1 DEF IsFramed, IsBegun
  <2>5. (StreamInv => StreamInv') /\ (ErrorInv => ErrorInv')
    BY <2>1, <2>3 DEF StreamInv, ErrorInv
  <2>6. JobInv => JobInv'
    BY <2>1, <2>3, <2>4 DEF JobInv
  <2>7. IInv'
    BY <1>1, <2>1, <2>2, <2>5, <2>6, JoinNext
  <2>8. UNCHANGED Delivery!vars
    BY <2>1 DEF Delivery!vars, Whole
  <2> QED BY <2>7, <2>8
<1> QED BY <1>2, <1>3, <1>4, <1>5, <1>6 DEF Next

LEMMA AlwaysIInv == Spec => []IInv
<1>1. Init => IInv
  BY InitIInv
<1>2. IInv /\ [Next]_vars => IInv'
  BY StepIInv
<1> QED BY <1>1, <1>2, PTL DEF Spec

(* Every variable keeps its type, whatever the limits clients ask for: what *)
(* a response has left to fetch never exceeds the cap of parseExportLimit. *)
THEOREM Typing == Spec => []TypeOK
<1>1. IInv => TypeOK
  BY DEF IInv
<1> QED BY <1>1, AlwaysIInv, PTL

(* A job that markJobCompleted has completed has its rows in one           *)
(* well-formed file, in order, however often runExportJob ran before.      *)
THEOREM FileOfCompletedJob == Spec => []CompletedFileIsWhole
<1>1. IInv => CompletedFileIsWhole
  <2> SUFFICES ASSUME IInv, status = "completed" PROVE IsFramed(file, out)
    BY DEF CompletedFileIsWhole
  <2>1. kind = "job" /\ JobInv
    BY Split
  <2> QED BY <2>1 DEF JobInv
<1> QED BY <1>1, AlwaysIInv, PTL

(* A download of a completed job that no other run overtakes reads a whole *)
(* file from its beginning.                                                *)
THEOREM WholeDownload == Spec => []DownloadIsWhole
<1>1. IInv => DownloadIsWhole
  <2> SUFFICES ASSUME IInv, reading, ~rerun
               PROVE  /\ IsFramed(file, out)
                      /\ Len(copy) <= Len(file) /\ \A n \in DOMAIN copy : copy[n] = file[n]
    BY DEF DownloadIsWhole
  <2>1. kind = "job" /\ JobInv
    BY Split
  <2> QED BY <2>1 DEF JobInv
<1> QED BY <1>1, AlwaysIInv, PTL

(* Streaming export, export job and error stream deliver what a reader of  *)
(* the table is promised: rows in order, none twice, none passed over that *)
(* was there all the time.                                                 *)
THEOREM Refinement == Spec => ImplementsDelivery
<1>1. Init => Delivery!Init
  BY InitIInv
<1>2. IInv /\ [Next]_vars => [Delivery!Next]_(Delivery!vars)
  BY StepIInv
<1> QED BY <1>1, <1>2, AlwaysIInv, PTL DEF Spec, ImplementsDelivery, Delivery!Spec
=============================================================================
