------------------------- MODULE HttpHandlerProofs --------------------------
(***************************************************************************)
(* Proofs about HttpHandler, for any calls and any listings: POST /upload  *)
(* and GET /files add nothing to the use case, so that its theorems carry  *)
(* over, and what GET /files shows stays true.                             *)
(***************************************************************************)
EXTENDS HttpHandler, UploadProofs, FiniteSetTheorems, SequenceTheorems

\* created_at: no row has two, every row has one.
OrderInv == \A i, j \in 1 .. Len(order) : order[i] = order[j] => i = j
StampInv == OrderInv /\ \A f \in Files : row[f] # None => f \in Stamped

\* A query that is pending or answered asks for the first rows, one at least.
QueryInv == \A l \in Lists :
    get[l] \in {"query", "rows", "200"} =>
        query[l].limit \in 1 .. MaxLimit /\ query[l].offset = 0

\* With either repository.
BaseInv == HTypeOK /\ StampInv /\ QueryInv

\* A goroutine works only under a handler that waits for it, and 201 is the
\* answer to a call that has succeeded.
WaitInv == \A f \in Files :
    /\ pc[f] \in Active => http[CallOf[f]] = "upload"
    /\ http[CallOf[f]] = "201" => call[CallOf[f]] = "ok"

\* What was answered 201 stays so.
KnownInv == \A l \in Lists : \A f \in known[l] : http[CallOf[f]] = "201"

\* The page of l, from the moment the statement has its snapshot.
Page(l) == /\ Len(page[l]) <= query[l].limit
           /\ \A i, j \in 1 .. Len(page[l]) : page[l][i] = page[l][j] => i = j
Shows(l) == \A f \in known[l] :
               \/ f \in Listed(l) /\ snap[l][f] = StatusCompleted
               \/ /\ Len(page[l]) = query[l].limit
                  /\ \A g \in Listed(l) : Newer(g, f)

PageInv == \A l \in Lists : get[l] \in {"rows", "200"} => Page(l)
ReadInv == \A l \in Lists :
    get[l] \in {"rows", "200"} /\ ~broken[l] /\ query[l].tags \subseteq RowTags => Shows(l)

\* With Postgres.
HInv == BaseInv /\ IInv /\ WaitInv /\ ListedStored /\ KnownInv /\ PageInv /\ ReadInv
-----------------------------------------------------------------------------
(* What ORDER BY, LIMIT and OFFSET select: ranks of a finite set of rows,  *)
(* each with a created_at of its own.                                      *)

\* The rows that have a created_at are finitely many.
LEMMA StampedFinite ==
    ASSUME NEW M, M \subseteq Stamped, order \in Seq(Files)
    PROVE  IsFiniteSet(M)
<1>1. order \in Surjection(1 .. Len(order), Stamped)
  BY DEF Stamped, Surjection
<1>2. IsFiniteSet(1 .. Len(order))
  BY FS_Interval
<1>3. IsFiniteSet(Stamped)
  BY <1>1, <1>2, FS_Surjection
<1> QED BY <1>3, FS_Subset

\* Newer is a strict total order on them.
LEMMA NewerOrders ==
    ASSUME order \in Seq(Files), OrderInv
    PROVE  /\ \A f : ~Newer(f, f)
           /\ \A f, g, h : Newer(f, g) /\ Newer(g, h) => Newer(f, h)
           /\ \A f, g \in Stamped : f = g \/ Newer(f, g) \/ Newer(g, f)
<1> USE DEF Newer
<1>0. Len(order) \in Nat
  OBVIOUS
<1>1. ASSUME NEW f, Newer(f, f) PROVE FALSE
  BY <1>0, <1>1 DEF OrderInv
<1>2. ASSUME NEW f, NEW g, NEW h, Newer(f, g), Newer(g, h) PROVE Newer(f, h)
  <2>1. PICK i, j \in 1 .. Len(order) : i < j /\ order[i] = f /\ order[j] = g
    BY <1>2
  <2>2. PICK a, b \in 1 .. Len(order) : a < b /\ order[a] = g /\ order[b] = h
    BY <1>2
  <2>3. a = j
    BY <2>1, <2>2 DEF OrderInv
  <2>4. i < b
    BY <1>0, <2>1, <2>2, <2>3
  <2> QED BY <2>1, <2>2, <2>4
<1>3. ASSUME NEW f \in Stamped, NEW g \in Stamped, f # g PROVE Newer(f, g) \/ Newer(g, f)
  <2>1. PICK i \in 1 .. Len(order) : order[i] = f
    BY <1>3 DEF Stamped
  <2>2. PICK j \in 1 .. Len(order) : order[j] = g
    BY <1>3 DEF Stamped
  <2>3. i < j \/ j < i
    BY <1>0, <1>3, <2>1, <2>2
  <2> QED BY <2>1, <2>2, <2>3
<1> QED BY <1>1, <1>2, <1>3

\* A newer row comes first.
LEMMA RankMonotone ==
    ASSUME order \in Seq(Files), OrderInv, NEW M, M \subseteq Stamped,
           NEW f \in M, NEW g \in M, Newer(f, g)
    PROVE  Rank(M, f) < Rank(M, g)
<1> DEFINE A == {h \in M : Newer(h, f)}
           B == {h \in M : Newer(h, g)}
<1>1. A \subseteq B /\ f \in B /\ f \notin A
  BY NewerOrders
<1>2. IsFiniteSet(A) /\ IsFiniteSet(B)
  BY StampedFinite
<1>3. A \in SUBSET B /\ A # B
  BY <1>1
<1>4. Cardinality(A) <= Cardinality(B) /\ Cardinality(A) # Cardinality(B)
  BY <1>2, <1>3, FS_Subset
<1>5. Cardinality(A) \in Nat /\ Cardinality(B) \in Nat
  BY <1>2, FS_CardinalityType
<1>6. Rank(M, f) = Cardinality(A) /\ Rank(M, g) = Cardinality(B)
  BY DEF Rank
<1> HIDE DEF A, B
<1> QED BY <1>4, <1>5, <1>6

\* The ranks of M are the numbers below its cardinality, one row each.
LEMMA Ranks ==
    ASSUME order \in Seq(Files), OrderInv, NEW M, M \subseteq Stamped
    PROVE  /\ Cardinality(M) \in Nat
           /\ \A f \in M : Rank(M, f) \in 0 .. Cardinality(M) - 1
           /\ \A f, g \in M : Rank(M, f) = Rank(M, g) => f = g
           /\ \A k \in 0 .. Cardinality(M) - 1 : \E f \in M : Rank(M, f) = k
<1> DEFINE n == Cardinality(M)
           rank == [f \in M |-> Rank(M, f)]
<1>1. IsFiniteSet(M) /\ n \in Nat
  BY StampedFinite, FS_CardinalityType
<1>2. ASSUME NEW f \in M PROVE Rank(M, f) \in 0 .. n - 1
  <2> DEFINE A == {g \in M : Newer(g, f)}
  <2>1. A \in SUBSET M /\ f \notin A
    BY NewerOrders
  <2>2. IsFiniteSet(A) /\ Cardinality(A) <= n /\ Cardinality(A) # n
    BY <1>1, <2>1, FS_Subset
  <2>3. Cardinality(A) \in Nat
    BY <2>2, FS_CardinalityType
  <2>4. Rank(M, f) = Cardinality(A)
    BY DEF Rank
  <2> HIDE DEF A, n
  <2> QED BY <1>1, <2>2, <2>3, <2>4
<1>3. ASSUME NEW f \in M, NEW g \in M, Rank(M, f) = Rank(M, g) PROVE f = g
  <2>1. Rank(M, f) \in Int /\ Rank(M, g) \in Int
    BY <1>1, <1>2
  <2>2. ~Newer(f, g) /\ ~Newer(g, f)
    BY <1>3, <2>1, RankMonotone
  <2> QED BY <2>2, NewerOrders
<1>4. rank \in Injection(M, 0 .. n - 1)
  BY <1>2, <1>3 DEF Injection, IsInjective
<1>5. IsFiniteSet(0 .. n - 1) /\ Cardinality(0 .. n - 1) = n
  <2> HIDE DEF n
  <2>1. 0 \in Int /\ n - 1 \in Int
    BY <1>1
  <2>2. IsFiniteSet(0 .. n - 1) /\ Cardinality(0 .. n - 1) = IF 0 > n - 1 THEN 0 ELSE (n - 1) - 0 + 1
    BY <2>1, FS_Interval
  <2> QED BY <1>1, <2>2
<1>6. rank \in Surjection(M, 0 .. n - 1)
  BY <1>4, <1>5, FS_Injection
<1>7. \A k \in 0 .. n - 1 : \E f \in M : Rank(M, f) = k
  BY <1>6 DEF Surjection
<1> QED BY <1>1, <1>2, <1>3, <1>7

\* The first page of M: no more rows than asked for, each once, and a row that
\* is not on it is older than all of a full page.
LEMMA FirstPage ==
    ASSUME order \in Seq(Files), OrderInv, NEW M, M \subseteq Stamped, NEW limit \in Nat
    PROVE  LET p == Window(M, limit, 0)
           IN  /\ p \in Seq(M) /\ Len(p) <= limit
               /\ \A i, j \in 1 .. Len(p) : p[i] = p[j] => i = j
               /\ \A f \in M : \/ \E i \in 1 .. Len(p) : p[i] = f
                               \/ /\ Len(p) = limit
                                  /\ \A i \in 1 .. Len(p) : Newer(p[i], f)
<1> DEFINE c == Cardinality(M)
           n == IF c < limit THEN c ELSE limit
           p == Window(M, limit, 0)
<1>1. c \in Nat
  BY Ranks
<1>2. c - 0 = c /\ n \in Nat /\ n <= limit /\ n <= c
  <2> HIDE DEF c
  <2> QED BY <1>1
<1>3. p = [i \in 1 .. n |-> CHOOSE f \in M : Rank(M, f) = 0 + i - 1]
  BY <1>2 DEF Window
<1>4. ASSUME NEW i \in 1 .. n PROVE p[i] \in M /\ Rank(M, p[i]) = i - 1
  <2>1. 0 + i - 1 = i - 1 /\ i - 1 \in 0 .. c - 1
    <3> HIDE DEF c
    <3> QED BY <1>1, <1>2
  <2>2. p[i] = CHOOSE f \in M : Rank(M, f) = i - 1
    BY <1>3, <2>1
  <2>3. \E f \in M : Rank(M, f) = i - 1
    BY <2>1, Ranks
  <2> QED BY <2>2, <2>3
<1> HIDE DEF p
<1>5. p \in [1 .. n -> M]
  BY <1>3, <1>4
<1>6. p \in Seq(M) /\ Len(p) = n
  BY <1>2, <1>5, LenProperties
<1>7. ASSUME NEW i \in 1 .. n, NEW j \in 1 .. n, p[i] = p[j] PROVE i = j
  <2>1. i - 1 = j - 1
    BY <1>4, <1>7
  <2> QED BY <1>2, <2>1
<1>8. ASSUME NEW f \in M, ~\E i \in 1 .. n : p[i] = f
      PROVE  n = limit /\ \A i \in 1 .. n : Newer(p[i], f)
  <2> DEFINE r == Rank(M, f)
  <2>1. r \in 0 .. c - 1
    BY Ranks
  <2>2. r >= n
    <3>1. CASE r < n
      <4>1. r + 1 \in 1 .. n /\ (r + 1) - 1 = r
        BY <1>1, <1>2, <2>1, <3>1
      <4>2. p[r + 1] \in M /\ Rank(M, p[r + 1]) = Rank(M, f)
        BY <1>4, <4>1
      <4>3. p[r + 1] = f
        BY <4>2, Ranks
      <4> QED BY <1>8, <4>1, <4>3
    <3> HIDE DEF r
    <3> QED BY <1>1, <1>2, <2>1, <3>1
  <2>3. n = limit
    <3> HIDE DEF r, c
    <3> QED BY <1>1, <2>1, <2>2
  <2>4. ASSUME NEW i \in 1 .. n PROVE Newer(p[i], f)
    <3>1. p[i] \in M /\ Rank(M, p[i]) = i - 1 /\ p[i] # f
      BY <1>4, <1>8
    <3>2. ~Newer(f, p[i])
      <4>1. ~(r < i - 1)
        <5> HIDE DEF r, c
        <5> QED BY <1>1, <1>2, <2>1, <2>2
      <4> QED BY <3>1, <4>1, RankMonotone
    <3> QED BY <3>1, <3>2, NewerOrders
  <2> QED BY <2>3, <2>4
<1> HIDE DEF n
<1>9. /\ p \in Seq(M) /\ Len(p) <= limit
      /\ \A i, j \in 1 .. Len(p) : p[i] = p[j] => i = j
      /\ \A f \in M : \/ \E i \in 1 .. Len(p) : p[i] = f
                      \/ Len(p) = limit /\ \A i \in 1 .. Len(p) : Newer(p[i], f)
  BY <1>2, <1>6, <1>7, <1>8
<1> QED BY <1>9, Zenon DEF p
-----------------------------------------------------------------------------
\* A step of the handlers is one of the use case, or none.
LEMMA HandlerStep == [HNext]_hvars => [Next]_vars
<1> SUFFICES ASSUME HNext PROVE [Next]_vars
  BY DEF hvars
<1>1. ASSUME NEW c \in Calls, UploadRejected(c) \/ UploadFile(c) \/ UploadAnswers(c)
      PROVE  [Next]_vars
  BY <1>1 DEF UploadRejected, UploadFile, UploadAnswers, Next
<1>2. ASSUME NEW l \in Lists, ListRejected(l) \/ ListFiles(l) \/ ListStep(l)
      PROVE  UNCHANGED vars
  BY <1>2 DEF ListRejected, ListFiles, ListStep, FindAll, ListFails, ListAnswers, RowsBreak
<1>3. CASE Interactor \/ \E f \in Files : StampRow(f)
  BY <1>3 DEF Interactor, StampRow, Next
<1>4. CASE HCrash \/ HQuiet
  BY <1>4 DEF HCrash, HQuiet, hvars, Next
<1> QED BY <1>1, <1>2, <1>3, <1>4 DEF HNext

\* Nothing removes or tears what is stored: there is no Delete, a bucket
\* replaces an object by a whole one, a directory only truncates.
LEMMA StoredStays ==
    ASSUME TypeOK, [Next]_vars, NEW n \in Names, Stored(n)
    PROVE  Stored(n)'
<1> USE Constants DEF Constant, TypeOK, StorageTypeOK, Stored, Put, storageVars, metaVars,
                      groupVars
<1>1. ASSUME NEW c \in Calls, Start(c) \/ CancelRequest(c) \/ WaitReturn(c)
      PROVE  Stored(n)'
  BY <1>1 DEF Start, CancelRequest, WaitReturn
<1>2. ASSUME NEW f \in Files, SaveOpen(f) \/ SaveOpenErr(f) \/ SaveWrite(f)
      PROVE  Stored(n)'
  BY <1>2 DEF SaveOpen, Open, SaveOpenErr, OpenFails, SaveWrite, WriteOver
<1>3. ASSUME NEW f \in Files, SaveOK(f) \/ SaveErr(f)
      PROVE  Stored(n)'
  BY <1>3 DEF SaveOK, SaveReturns, SaveErr, SaveFails
<1>4. ASSUME NEW f \in Files, \/ CreateOK(f) \/ CreateErr(f) \/ RollbackOK(f) \/ RollbackErr(f)
                              \/ CompleteOK(f) \/ CompleteErr(f) \/ Notify(f) \/ SettleRow(f)
      PROVE  Stored(n)'
  BY <1>4 DEF CreateOK, CreateErr, RollbackOK, RollbackErr, CompleteOK, CompleteErr, Notify,
              SettleRow
<1>5. ASSUME NEW f \in Files, FinalizeObject(f) PROVE Stored(n)'
  BY <1>5 DEF FinalizeObject, Finalize
<1>6. CASE Crash
  BY <1>6 DEF Crash, StorageCrash
<1>7. CASE UNCHANGED vars
  BY <1>7 DEF vars
<1> QED BY <1>1, <1>2, <1>3, <1>4, <1>5, <1>6, <1>7 DEF Next, Step, Quiet

\* Only Start sets a goroutine to work.
LEMMA OnlyStartActivates ==
    ASSUME TypeOK, NEW f \in Files,
           \/ \E c \in Calls : CancelRequest(c) \/ WaitReturn(c)
           \/ \E g \in Files : Step(g) \/ SettleRow(g) \/ FinalizeObject(g)
           \/ Crash
    PROVE  pc'[f] \in Active => pc[f] \in Active
<1> USE DEF TypeOK, Active, PC, groupVars, Goto, ReturnError
<1>1. ASSUME NEW g \in Files, Step(g) PROVE pc'[f] \in Active => pc[f] \in Active
  <2>1. pc[g] \in Active /\ \A h \in Files \ {g} : pc'[h] = pc[h]
    BY <1>1 DEF Step, CreateOK, CreateErr, SaveOpen, SaveOpenErr, SaveWrite, SaveOK, SaveErr,
                RollbackOK, RollbackErr, CompleteOK, CompleteErr, Notify
  <2> QED BY <2>1
<1>2. CASE \E c \in Calls : CancelRequest(c) \/ WaitReturn(c)
  BY <1>2 DEF CancelRequest, WaitReturn
<1>3. CASE \E g \in Files : SettleRow(g) \/ FinalizeObject(g)
  BY <1>3 DEF SettleRow, FinalizeObject
<1>4. CASE Crash
  BY <1>4 DEF Crash
<1> QED BY <1>1, <1>2, <1>3, <1>4
-----------------------------------------------------------------------------
(* created_at and the lists, step by step, with either repository.         *)

\* A new created_at is the newest and leaves the others in their order.
LEMMA PushStamp ==
    ASSUME order \in Seq(Files), OrderInv, NEW f \in Files, f \notin Stamped,
           order' = <<f>> \o order
    PROVE  /\ order' \in Seq(Files) /\ OrderInv'
           /\ Stamped' = Stamped \cup {f}
           /\ \A g, h : Newer(g, h) => Newer(g, h)'
<1>1. /\ Len(order) \in Nat /\ order' \in Seq(Files) /\ Len(order') = Len(order) + 1
      /\ order'[1] = f /\ \A i \in 1 .. Len(order) : order'[i + 1] = order[i]
  OBVIOUS
<1>2. ASSUME NEW k \in 1 .. Len(order')
      PROVE  k = 1 \/ (k - 1 \in 1 .. Len(order) /\ order'[k] = order[k - 1])
  <2>1. k = 1 \/ (k - 1 \in 1 .. Len(order) /\ (k - 1) + 1 = k)
    BY <1>1
  <2> QED BY <1>1, <2>1
<1>3. \A i \in 1 .. Len(order) : i + 1 \in 1 .. Len(order') /\ order'[i + 1] = order[i]
  BY <1>1
<1>4. 1 \in 1 .. Len(order')
  BY <1>1
<1>5. \A i \in 1 .. Len(order) : order[i] # f
  BY DEF Stamped
<1>6. OrderInv'
  <2> SUFFICES ASSUME NEW i \in 1 .. Len(order'), NEW j \in 1 .. Len(order'),
                      order'[i] = order'[j]
               PROVE  i = j
    BY DEF OrderInv
  <2>1. CASE i = 1 \/ j = 1
    BY <1>1, <1>2, <1>5, <2>1
  <2>2. CASE i # 1 /\ j # 1
    <3>1. i - 1 = j - 1
      BY <1>2, <2>2 DEF OrderInv
    <3> QED BY <1>1, <3>1
  <2> QED BY <2>1, <2>2
<1>7. Stamped' = Stamped \cup {f}
  <2>1. ASSUME NEW x \in Stamped' PROVE x \in Stamped \cup {f}
    <3>1. PICK k \in 1 .. Len(order') : order'[k] = x
      BY <2>1 DEF Stamped
    <3> QED BY <1>1, <1>2, <3>1 DEF Stamped
  <2>2. ASSUME NEW x \in Stamped PROVE x \in Stamped'
    <3>1. PICK k \in 1 .. Len(order) : order[k] = x
      BY <2>2 DEF Stamped
    <3> QED BY <1>3, <3>1 DEF Stamped
  <2>3. f \in Stamped'
    BY <1>1, <1>4 DEF Stamped
  <2> QED BY <2>1, <2>2, <2>3
<1>8. ASSUME NEW g, NEW h, Newer(g, h) PROVE Newer(g, h)'
  <2>1. PICK i, j \in 1 .. Len(order) : i < j /\ order[i] = g /\ order[j] = h
    BY <1>8 DEF Newer
  <2>2. i + 1 < j + 1
    BY <1>1, <2>1
  <2> QED BY <1>3, <2>1, <2>2 DEF Newer
<1> QED BY <1>1, <1>6, <1>7, <1>8

\* A step writes one row, or the map in memory is gone.
LEMMA OneRow ==
    ASSUME TypeOK, [Next]_vars
    PROVE  \/ \A h \in Files : row'[h] = row[h]
           \/ \E g \in Files : \A h \in Files : h # g => row'[h] = row[h]
           \/ \A h \in Files : row'[h] = None
<1> USE DEF TypeOK, MetadataTypeOK, metaVars
<1>1. ASSUME NEW f \in Files, Step(f)
      PROVE  \A h \in Files : h # f => row'[h] = row[h]
  BY <1>1 DEF Step, CreateOK, Create, CreateErr, SaveOpen, SaveOpenErr, SaveWrite, SaveOK,
              SaveErr, RollbackOK, RollbackErr, CompleteOK, CompleteErr, Notify,
              UpdateStatus, StatementFails
<1>2. ASSUME NEW f \in Files, SettleRow(f) \/ FinalizeObject(f)
      PROVE  \A h \in Files : h # f => row'[h] = row[h]
  BY <1>2 DEF SettleRow, Settle, FinalizeObject
<1>3. ASSUME NEW c \in Calls, Start(c) \/ CancelRequest(c) \/ WaitReturn(c)
      PROVE  row' = row
  BY <1>3 DEF Start, CancelRequest, WaitReturn
<1>4. CASE Crash
  BY <1>4 DEF Crash, MetadataCrash
<1>5. CASE UNCHANGED vars
  BY <1>5 DEF vars
<1> QED BY <1>1, <1>2, <1>3, <1>4, <1>5 DEF Next, Quiet

\* No row is without a created_at, and who is newer never changes.
LEMMA StampStep ==
    ASSUME HTypeOK, StampInv, [HNext]_hvars
    PROVE  /\ order' \in Seq(Files) /\ StampInv'
           /\ \A g, h : Newer(g, h) => Newer(g, h)'
<1>0. TypeOK /\ order \in Seq(Files) /\ OrderInv /\ [Next]_vars
  BY HandlerStep DEF HTypeOK, StampInv
<1>1. ASSUME order' = order, \A f \in Files : row'[f] # None => f \in Stamped
      PROVE  order' \in Seq(Files) /\ StampInv' /\ \A g, h : Newer(g, h) => Newer(g, h)'
  BY <1>0, <1>1 DEF StampInv, OrderInv, Stamped, Newer
<1>2. CASE Interactor
  <2> DEFINE new == {f \in Files : row'[f] # None} \ Stamped
  <2>1. order' = IF new = {} THEN order ELSE <<CHOOSE f \in new : TRUE>> \o order
    BY <1>2 DEF Interactor
  <2>2. CASE new = {}
    BY <1>1, <2>1, <2>2
  <2>3. CASE new # {}
    <3> DEFINE g == CHOOSE f \in new : TRUE
    <3>1. g \in new
      BY <2>3
    <3>2. \A f \in new : row[f] = None
      BY DEF StampInv
    <3>3. \A f \in new : f = g
      BY <1>0, <3>1, <3>2, OneRow
    <3>4. g \in Files /\ g \notin Stamped /\ order' = <<g>> \o order
      BY <2>1, <2>3, <3>1
    <3> HIDE DEF g
    <3>5. /\ order' \in Seq(Files) /\ OrderInv' /\ Stamped' = Stamped \cup {g}
          /\ \A x, h : Newer(x, h) => Newer(x, h)'
      BY <1>0, <3>4, PushStamp
    <3> QED BY <3>3, <3>5 DEF StampInv
  <2> QED BY <2>2, <2>3
<1>3. ASSUME NEW f \in Files, StampRow(f)
      PROVE  order' \in Seq(Files) /\ StampInv' /\ \A g, h : Newer(g, h) => Newer(g, h)'
  <2>1. f \notin Stamped /\ order' = <<f>> \o order /\ row' = row
    BY <1>3 DEF StampRow, vars, metaVars
  <2>2. /\ order' \in Seq(Files) /\ OrderInv' /\ Stamped' = Stamped \cup {f}
        /\ \A g, h : Newer(g, h) => Newer(g, h)'
    BY <1>0, <2>1, PushStamp
  <2> QED BY <2>1, <2>2 DEF StampInv
<1>4. CASE HCrash
  <2>1. order' = order /\ \A f \in Files : row'[f] # None => row[f] # None
    BY <1>4 DEF HCrash, Crash, MetadataCrash
  <2> QED BY <1>1, <2>1 DEF StampInv
<1>5. CASE order' = order /\ row' = row
  BY <1>1, <1>5 DEF StampInv
<1>6. ASSUME NEW c \in Calls, UploadRejected(c) \/ UploadFile(c) \/ UploadAnswers(c)
      PROVE  order' = order /\ row' = row
  BY <1>6 DEF UploadRejected, UploadFile, UploadAnswers, Start, vars, metaVars
<1>7. ASSUME NEW l \in Lists, ListRejected(l) \/ ListFiles(l) \/ ListStep(l)
      PROVE  order' = order /\ row' = row
  BY <1>7 DEF ListRejected, ListFiles, ListStep, FindAll, ListFails, ListAnswers, RowsBreak,
              vars, metaVars
<1>8. CASE UNCHANGED hvars
  BY <1>5, <1>8 DEF hvars, vars, metaVars
<1> QED BY <1>2, <1>3, <1>4, <1>5, <1>6, <1>7, <1>8 DEF HNext, HQuiet

\* The request of list l, as another step leaves it; it may die.
Kept(l) == /\ get'[l] \in {get[l], "lost"}
           /\ query'[l] = query[l] /\ known'[l] = known[l] /\ snap'[l] = snap[l]
           /\ page'[l] = page[l] /\ broken'[l] = broken[l]

\* Only its own steps change a list.
LEMMA ListMoves ==
    ASSUME HTypeOK, [HNext]_hvars, NEW l \in Lists
    PROVE  Kept(l) \/ ListRejected(l) \/ ListFiles(l) \/ ListStep(l)
<1> USE DEF HTypeOK, Kept, listVars
<1>1. ASSUME NEW c \in Calls, UploadRejected(c) \/ UploadFile(c) \/ UploadAnswers(c)
      PROVE  Kept(l)
  BY <1>1 DEF UploadRejected, UploadFile, UploadAnswers
<1>2. ASSUME NEW m \in Lists, m # l, ListRejected(m) \/ ListFiles(m) PROVE Kept(l)
  BY <1>2 DEF ListRejected, ListFiles
<1>3. ASSUME NEW m \in Lists, m # l, ListStep(m) PROVE Kept(l)
  BY <1>3 DEF ListStep, FindAll, ListFails, ListAnswers, RowsBreak
<1>4. CASE Interactor \/ \E f \in Files : StampRow(f)
  BY <1>4 DEF Interactor, StampRow
<1>5. CASE HCrash
  BY <1>5 DEF HCrash
<1>6. CASE UNCHANGED hvars
  BY <1>6 DEF hvars
<1> QED BY <1>1, <1>2, <1>3, <1>4, <1>5, <1>6 DEF HNext, HQuiet

\* What FindAll may return is a sequence of files.
LEMMA ResultType ==
    ASSUME BaseInv, NEW l \in Lists, get[l] = "query", NEW p \in Result(query[l])
    PROVE  p \in Seq(Files)
<1> USE DEF BaseInv
<1>1. order \in Seq(Files) /\ OrderInv
  BY DEF HTypeOK, StampInv
<1>2. \A tags : Matching(tags) \subseteq Stamped /\ Matching(tags) \subseteq Files
  BY DEF Matching, StampInv
<1>3. CASE DBType = "SQL"
  <2> DEFINE M == Matching(query[l].tags)
  <2>1. query[l].limit \in Nat /\ query[l].offset = 0
    BY HttpAssumption DEF QueryInv
  <2>2. p = Window(M, query[l].limit, 0)
    BY <1>3, <2>1 DEF Result
  <2> HIDE DEF M
  <2>3. M \subseteq Stamped /\ M \subseteq Files
    BY <1>2 DEF M
  <2>4. p \in Seq(M)
    BY <1>1, <2>1, <2>2, <2>3, FirstPage
  <2> QED BY <2>3, <2>4
<1>4. CASE DBType # "SQL"
  <2> DEFINE M == Matching({})
  <2>1. p \in [1 .. Cardinality(M) -> M]
    BY <1>4 DEF Result, Enumerations
  <2> HIDE DEF M
  <2>2. M \subseteq Stamped /\ M \subseteq Files
    BY <1>2 DEF M
  <2>3. Cardinality(M) \in Nat
    BY <1>1, <2>2, StampedFinite, FS_CardinalityType
  <2>4. p \in Seq(M)
    BY <2>1, <2>3
  <2> QED BY <2>2, <2>4
<1> QED BY <1>3, <1>4
-----------------------------------------------------------------------------
(* The invariants.                                                         *)

\* Init.
LEMMA BaseInit == HInit => BaseInv
<1> SUFFICES ASSUME HInit PROVE BaseInv
  OBVIOUS
<1>1. TypeOK /\ \A f \in Files : row[f] = None
  BY TypeInit DEF HInit, Init, MetadataInit
<1>2. HTypeOK
  BY <1>1 DEF HInit, HTypeOK, Queries, TransferStatus
<1>3. StampInv
  BY <1>1 DEF HInit, StampInv, OrderInv
<1>4. QueryInv
  BY DEF HInit, QueryInv
<1> QED BY <1>2, <1>3, <1>4 DEF BaseInv

\* The limits that leave the validation.
LEMMA ClampType == ASSUME NEW limit \in Int PROVE Clamp(limit) \in 1 .. MaxLimit
BY HttpAssumption DEF Clamp

\* Types, created_at and queries, with either repository.
LEMMA BaseStep == ASSUME BaseInv, [HNext]_hvars PROVE BaseInv'
<1> USE Constants DEF Constant, BaseInv
<1>1. TypeOK' /\ order' \in Seq(Files) /\ StampInv'
  BY HandlerStep, TypeNext, StampStep DEF HTypeOK
<1>2. ASSUME NEW l \in Lists, ListFiles(l)
      PROVE  /\ query' \in [Lists -> Queries]
             /\ query'[l].limit \in 1 .. MaxLimit /\ query'[l].offset = 0
  <2>1. PICK tags \in Filters, limit \in Limits \cup {DefaultLimit} :
           query' = [query EXCEPT ![l] = [tags |-> tags, limit |-> Clamp(limit), offset |-> 0]]
    BY <1>2 DEF ListFiles
  <2>2. limit \in Int /\ MaxLimit \in Nat
    BY HttpAssumption
  <2>3. Clamp(limit) \in 1 .. MaxLimit /\ Clamp(limit) \in Int
    BY <2>2, ClampType
  <2>4. [tags |-> tags, limit |-> Clamp(limit), offset |-> 0] \in Queries
    BY <2>3 DEF Queries
  <2> HIDE DEF BaseInv
  <2>5. query \in [Lists -> Queries]
    BY DEF BaseInv, HTypeOK
  <2> QED BY <2>1, <2>3, <2>4, <2>5
<1>3. QueryInv'
  <2> SUFFICES ASSUME NEW l \in Lists, get'[l] \in {"query", "rows", "200"}
               PROVE  query'[l].limit \in 1 .. MaxLimit /\ query'[l].offset = 0
    BY DEF QueryInv
  <2>1. CASE ListFiles(l)
    BY <1>2, <2>1
  <2>2. CASE ListRejected(l) \/ ListFails(l)
    BY <2>2 DEF ListRejected, ListFails, HTypeOK
  <2>3. CASE Kept(l) \/ FindAll(l) \/ ListAnswers(l) \/ RowsBreak(l)
    <3>1. query'[l] = query[l] /\ get[l] \in {"query", "rows", "200"}
      BY <2>3 DEF Kept, FindAll, ListAnswers, RowsBreak
    <3> QED BY <3>1 DEF QueryInv
  <2> QED BY <2>1, <2>2, <2>3, ListMoves DEF ListStep
<1>4. HTypeOK'
  <2> USE <1>1 DEF HTypeOK
  <2>1. ASSUME NEW c \in Calls, UploadRejected(c) \/ UploadFile(c) \/ UploadAnswers(c)
        PROVE  HTypeOK'
    BY <2>1 DEF UploadRejected, UploadFile, UploadAnswers, listVars
  <2>2. ASSUME NEW l \in Lists, ListFiles(l) PROVE HTypeOK'
    BY <1>2, <2>2 DEF ListFiles
  <2>3. ASSUME NEW l \in Lists, ListRejected(l) \/ ListFails(l) \/ ListAnswers(l)
        PROVE  HTypeOK'
    BY <2>3 DEF ListRejected, ListFails, ListAnswers
  <2>4. ASSUME NEW l \in Lists, FindAll(l) PROVE HTypeOK'
    <3>1. PICK p \in Result(query[l]) : page' = [page EXCEPT ![l] = p]
      BY <2>4 DEF FindAll
    <3>2. p \in Seq(Files)
      BY <2>4, ResultType DEF FindAll
    <3>3. page' \in [Lists -> Seq(Files)]
      BY <3>1, <3>2
    <3>4. snap' \in [Lists -> [Files -> TransferStatus \cup {None}]]
      BY <2>4 DEF FindAll, TypeOK, MetadataTypeOK
    <3> QED BY <2>4, <3>3, <3>4 DEF FindAll
  <2>5. ASSUME NEW l \in Lists, RowsBreak(l) PROVE HTypeOK'
    <3>1. PICK k \in 0 .. Len(page[l]) : page' = [page EXCEPT ![l] = SubSeq(page[l], 1, k)]
      BY <2>5 DEF RowsBreak
    <3>2. SubSeq(page[l], 1, k) \in Seq(Files)
      OBVIOUS
    <3>3. page' \in [Lists -> Seq(Files)]
      BY <3>1, <3>2
    <3> QED BY <2>5, <3>3 DEF RowsBreak
  <2>6. CASE Interactor \/ \E f \in Files : StampRow(f)
    BY <2>6 DEF Interactor, StampRow, listVars
  <2>7. CASE HCrash
    BY <2>7 DEF HCrash
  <2>8. CASE UNCHANGED hvars
    BY <2>8 DEF hvars, listVars
  <2> QED BY <2>1, <2>2, <2>3, <2>4, <2>5, <2>6, <2>7, <2>8 DEF HNext, ListStep, HQuiet
<1> QED BY <1>1, <1>3, <1>4

\* BaseInv is an invariant of the specification.
LEMMA BaseInvariant == HSpec => []BaseInv
<1>1. BaseInv /\ [HNext]_hvars => BaseInv'
  BY BaseStep
<1> QED BY BaseInit, <1>1, PTL DEF HSpec

\* An answer of UploadMultipleParallel is final.
LEMMA OkStays ==
    ASSUME TypeOK, [Next]_vars, NEW c \in Calls, call[c] = "ok"
    PROVE  call'[c] = "ok"
<1> USE DEF TypeOK, groupVars, Goto, ReturnError
<1>1. ASSUME NEW f \in Files, Step(f) PROVE call' = call
  BY <1>1 DEF Step, CreateOK, CreateErr, SaveOpen, SaveOpenErr, SaveWrite, SaveOK, SaveErr,
              RollbackOK, RollbackErr, CompleteOK, CompleteErr, Notify
<1>2. ASSUME NEW d \in Calls, Start(d) \/ CancelRequest(d) \/ WaitReturn(d)
      PROVE  call'[c] = "ok"
  BY <1>2 DEF Start, CancelRequest, WaitReturn
<1>3. CASE \E f \in Files : SettleRow(f) \/ FinalizeObject(f)
  BY <1>3 DEF SettleRow, FinalizeObject
<1>4. CASE Crash
  BY <1>4 DEF Crash
<1>5. CASE UNCHANGED vars
  BY <1>5 DEF vars
<1> QED BY <1>1, <1>2, <1>3, <1>4, <1>5 DEF Next, Quiet

\* 201 is the answer to a success, and final.
LEMMA CreatedStep ==
    ASSUME HTypeOK, [HNext]_hvars, NEW c \in Calls
    PROVE  /\ http[c] = "201" => http'[c] = "201"
           /\ http'[c] = "201" => http[c] = "201" \/ call[c] = "ok"
<1> USE DEF HTypeOK
<1>1. ASSUME NEW d \in Calls, UploadRejected(d) \/ UploadFile(d) \/ UploadAnswers(d)
      PROVE  /\ http[c] = "201" => http'[c] = "201"
             /\ http'[c] = "201" => http[c] = "201" \/ call[c] = "ok"
  BY <1>1 DEF UploadRejected, UploadFile, UploadAnswers
<1>2. ASSUME NEW l \in Lists, ListRejected(l) \/ ListFiles(l) \/ ListStep(l)
      PROVE  http' = http
  BY <1>2 DEF ListRejected, ListFiles, ListStep, FindAll, ListFails, ListAnswers, RowsBreak
<1>3. CASE Interactor \/ \E f \in Files : StampRow(f)
  BY <1>3 DEF Interactor, StampRow
<1>4. CASE HCrash
  BY <1>4 DEF HCrash
<1>5. CASE UNCHANGED hvars
  BY <1>5 DEF hvars
<1> QED BY <1>1, <1>2, <1>3, <1>4, <1>5 DEF HNext, HQuiet
-----------------------------------------------------------------------------
(* With Postgres: what a listing shows.                                    *)

\* A goroutine works under its handler, 201 follows success.
LEMMA WaitStep == ASSUME HTypeOK, CallInv, WaitInv, [HNext]_hvars PROVE WaitInv'
<1> USE Constants DEF Constant, HTypeOK
<1>0. [Next]_vars
  BY HandlerStep
<1>1. \A f \in Files : http'[CallOf[f]] = "201" => call'[CallOf[f]] = "ok"
  BY <1>0, CreatedStep, OkStays DEF WaitInv
<1>2. CASE \E c \in Calls : UploadRejected(c) \/ UploadAnswers(c)
  <2>1. PICK c \in Calls : UploadRejected(c) \/ UploadAnswers(c)
    BY <1>2
  <2>2. UNCHANGED pc /\ \A d \in Calls \ {c} : http'[d] = http[d]
    BY <2>1 DEF UploadRejected, UploadAnswers, vars
  <2>3. \A f \in Files : pc[f] \in Active => CallOf[f] # c
    BY <2>1 DEF UploadRejected, UploadAnswers, WaitInv, CallInv
  <2> QED BY <1>1, <2>2, <2>3 DEF WaitInv
<1>3. CASE \E c \in Calls : UploadFile(c)
  <2>1. PICK c \in Calls : UploadFile(c)
    BY <1>3
  <2>2. /\ http' = [http EXCEPT ![c] = "upload"]
        /\ pc' = [f \in Files |-> IF CallOf[f] = c THEN "create" ELSE pc[f]]
    BY <2>1 DEF UploadFile, Start
  <2> QED BY <1>1, <2>2 DEF WaitInv
<1>4. CASE Interactor
  <2>1. UNCHANGED http
    BY <1>4 DEF Interactor
  <2>2. \A f \in Files : pc'[f] \in Active => pc[f] \in Active
    BY <1>4, OnlyStartActivates DEF Interactor
  <2> QED BY <1>1, <2>1, <2>2 DEF WaitInv
<1>5. CASE HCrash
  <2>1. pc' = [f \in Files |-> IF pc[f] \in Active THEN "dead" ELSE pc[f]]
    BY <1>5 DEF HCrash, Crash
  <2>2. \A f \in Files : pc'[f] \notin Active
    BY <2>1 DEF Active
  <2> QED BY <1>1, <2>2 DEF WaitInv
<1>6. CASE UNCHANGED <<pc, http>>
  BY <1>1, <1>6 DEF WaitInv
<1>7. ASSUME NEW l \in Lists, ListRejected(l) \/ ListFiles(l) \/ ListStep(l)
      PROVE  UNCHANGED <<pc, http>>
  BY <1>7 DEF ListRejected, ListFiles, ListStep, FindAll, ListFails, ListAnswers, RowsBreak,
              vars
<1>8. CASE UNCHANGED hvars \/ \E f \in Files : StampRow(f)
  BY <1>6, <1>8 DEF StampRow, hvars, vars
<1> QED BY <1>2, <1>3, <1>4, <1>5, <1>6, <1>7, <1>8 DEF HNext, HQuiet

\* What a listing saw as completed is stored, and what it knew answered is.
LEMMA SnapStep ==
    ASSUME HTypeOK, StoreInv, ListedStored, KnownInv, [HNext]_hvars
    PROVE  ListedStored' /\ KnownInv'
<1> USE Constants DEF Constant, HTypeOK
<1>1. \A f \in Files : Stored(NameOf[f]) => Stored(NameOf[f])'
  BY HandlerStep, StoredStays
<1>2. \A f \in Files : http[CallOf[f]] = "201" => http'[CallOf[f]] = "201"
  BY CreatedStep
<1>3. ASSUME NEW l \in Lists
      PROVE  /\ \A f \in Files : snap'[l][f] = StatusCompleted => Stored(NameOf[f])'
             /\ \A f \in known'[l] : http'[CallOf[f]] = "201"
  <2>1. CASE FindAll(l)
    <3>1. snap'[l] = row /\ known'[l] = known[l]
      BY <2>1 DEF FindAll
    <3> QED BY <1>1, <1>2, <3>1 DEF StoreInv, KnownInv
  <2>2. CASE ListFiles(l)
    <3>1. /\ snap'[l] = snap[l]
          /\ known'[l] = {f \in Files : http[CallOf[f]] = "201"}
      BY <2>2 DEF ListFiles
    <3> QED BY <1>1, <1>2, <3>1 DEF ListedStored
  <2>3. CASE Kept(l) \/ ListRejected(l) \/ ListFails(l) \/ ListAnswers(l) \/ RowsBreak(l)
    <3>1. snap'[l] = snap[l] /\ known'[l] = known[l]
      BY <2>3 DEF Kept, ListRejected, ListFails, ListAnswers, RowsBreak
    <3> QED BY <1>1, <1>2, <3>1 DEF ListedStored, KnownInv
  <2> QED BY <2>1, <2>2, <2>3, ListMoves DEF ListStep
<1> QED BY <1>3 DEF ListedStored, KnownInv

\* FindAll on Postgres: the page is the first of the matching rows, and every
\* upload known to be answered is among those.
LEMMA FindAllShows ==
    ASSUME DBType = "SQL", HInv, NEW l \in Lists, FindAll(l)
    PROVE  /\ Page(l)'
           /\ query[l].tags \subseteq RowTags => Shows(l)'
<1> USE Constants DEF Constant, HInv, BaseInv
<1> DEFINE M == Matching(query[l].tags)
           p == Window(M, query[l].limit, 0)
<1>1. order \in Seq(Files) /\ OrderInv /\ M \subseteq Stamped
  BY DEF HTypeOK, StampInv, Matching
<1>2. get[l] = "query" /\ query[l].limit \in Nat /\ query[l].offset = 0
  BY HttpAssumption DEF FindAll, QueryInv
<1>3. /\ page'[l] = p /\ query' = query /\ order' = order
      /\ known' = known /\ snap'[l] = row
  BY <1>2 DEF FindAll, Result, HTypeOK
<1> HIDE DEF M
<1>4. /\ p \in Seq(M) /\ Len(p) <= query[l].limit
      /\ \A i, j \in 1 .. Len(p) : p[i] = p[j] => i = j
      /\ \A f \in M : \/ \E i \in 1 .. Len(p) : p[i] = f
                      \/ /\ Len(p) = query[l].limit
                         /\ \A i \in 1 .. Len(p) : Newer(p[i], f)
  BY <1>1, <1>2, FirstPage
<1> HIDE DEF p
<1>5. Page(l)'
  BY <1>3, <1>4 DEF Page
<1>6. ASSUME query[l].tags \subseteq RowTags, NEW f \in known[l]
      PROVE  f \in M /\ row[f] = StatusCompleted
  <2>1. f \in Files
    BY <1>6 DEF HTypeOK
  <2>2. row[f] = StatusCompleted
    BY <1>6, <2>1 DEF KnownInv, WaitInv, IInv, CallInv, RowInv
  <2> QED BY <1>6, <2>1, <2>2 DEF M, Matching, StatusCompleted, None
<1>7. ASSUME query[l].tags \subseteq RowTags PROVE Shows(l)'
  <2>1. ASSUME NEW f \in known[l]
        PROVE  \/ f \in Listed(l)' /\ snap'[l][f] = StatusCompleted
               \/ /\ Len(page'[l]) = query'[l].limit
                  /\ \A g \in Listed(l)' : Newer(g, f)'
    <3>1. f \in M /\ row[f] = StatusCompleted
      BY <1>6, <1>7
    <3>2. CASE \E i \in 1 .. Len(p) : p[i] = f
      BY <1>3, <3>1, <3>2 DEF Listed
    <3>3. CASE Len(p) = query[l].limit /\ \A i \in 1 .. Len(p) : Newer(p[i], f)
      <4>1. Len(page'[l]) = query'[l].limit
        BY <1>3, <3>3
      <4>2. \A g, h : Newer(g, h)' <=> Newer(g, h)
        BY <1>3 DEF Newer
      <4>3. ASSUME NEW g \in Listed(l)' PROVE Newer(g, f)'
        <5>1. PICK i \in 1 .. Len(p) : p[i] = g
          BY <1>3, <4>3 DEF Listed
        <5> QED BY <3>3, <4>2, <5>1
      <4> QED BY <4>1, <4>3
    <3> QED BY <1>4, <3>1, <3>2, <3>3
  <2> QED BY <1>3, <2>1 DEF Shows
<1> QED BY <1>5, <1>7

\* A page stays what FindAll selected; if the connection breaks, its beginning.
LEMMA PageStep == ASSUME DBType = "SQL", HInv, [HNext]_hvars PROVE PageInv' /\ ReadInv'
<1>0. HTypeOK /\ StampInv /\ PageInv /\ ReadInv
  BY DEF HInv, BaseInv
<1>1. \A g, h : Newer(g, h) => Newer(g, h)'
  BY <1>0, StampStep
<1>2. ASSUME NEW l \in Lists, get'[l] \in {"rows", "200"}
      PROVE  Page(l)' /\ (~broken'[l] /\ query'[l].tags \subseteq RowTags => Shows(l)')
  <2>1. CASE FindAll(l)
    <3>1. query' = query
      BY <2>1 DEF FindAll
    <3> QED BY <2>1, <3>1, FindAllShows
  <2>2. CASE ListRejected(l) \/ ListFiles(l) \/ ListFails(l)
    BY <1>0, <1>2, <2>2 DEF ListRejected, ListFiles, ListFails, HTypeOK
  <2>3. CASE Kept(l) \/ ListAnswers(l)
    <3>1. /\ query'[l] = query[l] /\ known'[l] = known[l] /\ snap'[l] = snap[l]
          /\ page'[l] = page[l] /\ broken'[l] = broken[l]
          /\ get[l] \in {"rows", "200"}
      BY <1>2, <2>3 DEF Kept, ListAnswers
    <3>2. Page(l)'
      BY <1>0, <3>1 DEF PageInv, Page
    <3>3. ASSUME ~broken[l], query[l].tags \subseteq RowTags PROVE Shows(l)'
      <4>1. Shows(l)
        BY <1>0, <3>1, <3>3 DEF ReadInv
      <4>2. Listed(l)' = Listed(l)
        BY <3>1 DEF Listed
      <4> QED BY <1>1, <3>1, <4>1, <4>2 DEF Shows
    <3> QED BY <3>1, <3>2, <3>3
  <2>4. CASE RowsBreak(l)
    <3>1. PICK k \in 0 .. Len(page[l]) : page' = [page EXCEPT ![l] = SubSeq(page[l], 1, k)]
      BY <2>4 DEF RowsBreak
    <3>2. page[l] \in Seq(Files) /\ page'[l] = SubSeq(page[l], 1, k)
      BY <1>0, <3>1 DEF HTypeOK
    <3>3. Len(page'[l]) = k /\ \A i \in 1 .. k : i \in 1 .. Len(page[l]) /\ page'[l][i] = page[l][i]
      BY <3>2
    <3>4. Page(l)
      BY <1>0, <2>4 DEF PageInv, RowsBreak
    <3>5. query[l].limit \in Int /\ query' = query
      BY <1>0, <2>4 DEF RowsBreak, HTypeOK, Queries
    <3>6. Len(page'[l]) <= query'[l].limit
      BY <3>2, <3>3, <3>4, <3>5 DEF Page
    <3>7. Page(l)'
      BY <3>3, <3>4, <3>6 DEF Page
    <3>8. broken'[l]
      BY <1>0, <2>4 DEF RowsBreak, HTypeOK
    <3> QED BY <3>7, <3>8
  <2> QED BY <1>0, <2>1, <2>2, <2>3, <2>4, ListMoves DEF ListStep
<1> QED BY <1>2 DEF PageInv, ReadInv

\* HInv holds when the server comes up, and after every step of it.
LEMMA HInvariant == ASSUME DBType = "SQL" PROVE HSpec => []HInv
<1>1. HInit => HInv
  <2> SUFFICES ASSUME HInit PROVE HInv
    OBVIOUS
  <2>1. BaseInv /\ IInv
    BY BaseInit, InvInit DEF HInit
  <2>2. WaitInv
    BY Constants DEF Constant, HInit, Init, WaitInv, Active
  <2>3. ListedStored /\ KnownInv /\ PageInv /\ ReadInv
    BY DEF HInit, ListedStored, KnownInv, PageInv, ReadInv, None, StatusCompleted
  <2> QED BY <2>1, <2>2, <2>3 DEF HInv
<1>2. ASSUME HInv, [HNext]_hvars PROVE HInv'
  <2>1. BaseInv' /\ IInv'
    BY <1>2, BaseStep, HandlerStep, InvNext DEF HInv
  <2>2. WaitInv' /\ ListedStored' /\ KnownInv'
    BY <1>2, WaitStep, SnapStep DEF HInv, BaseInv, IInv
  <2>3. PageInv' /\ ReadInv'
    BY <1>2, PageStep
  <2> QED BY <2>1, <2>2, <2>3 DEF HInv
<1> QED BY <1>1, <1>2, PTL DEF HSpec
-----------------------------------------------------------------------------
\* Every variable has its type, with either repository: what FindAll returns
\* is a sequence of files because the rows with a created_at are finitely many.
THEOREM HttpTypeCorrect == HSpec => []HTypeOK
<1>1. BaseInv => HTypeOK
  BY DEF BaseInv
<1> QED BY BaseInvariant, <1>1, PTL

\* The handlers only add to what the use case does: HSpec implements Upload's
\* specification, with either repository.
THEOREM HttpAddsNothing == HSpec => HttpImplementsUpload
<1>1. HInit => Init
  BY DEF HInit
<1> QED BY <1>1, HandlerStep, PTL DEF HSpec, HttpImplementsUpload, Spec

\* With Postgres they promise their clients what Transfer does.
THEOREM HttpRefinesTransfer == ASSUME DBType = "SQL" PROVE HSpec => ImplementsTransfer
BY HttpAddsNothing, Refinement, PTL DEF HttpImplementsUpload

\* What GET /files has shown as completed is stored, then and ever after.
THEOREM ListingsAreTrue == ASSUME DBType = "SQL" PROVE HSpec => []ListedStored
<1>1. HInv => ListedStored
  BY DEF HInv
<1> QED BY HInvariant, <1>1, PTL

\* UploadFile closes the form file after the last goroutine has read it.
THEOREM FormFileStaysOpen == ASSUME DBType = "SQL" PROVE HSpec => []ContentOpen
<1>1. HInv => ContentOpen
  BY DEF HInv, WaitInv, ContentOpen, Active, PC
<1> QED BY HInvariant, <1>1, PTL

\* Whatever limit a client sends, its page has at most MaxLimit rows, and none
\* twice.
THEOREM PagesAreBounded == ASSUME DBType = "SQL" PROVE HSpec => []PageBounded
<1>1. HInv => PageBounded
  BY DEF HInv, BaseInv, QueryInv, PageInv, Page, PageBounded
<1> QED BY HInvariant, <1>1, PTL

\* A client that was answered 201 finds its file in a later GET /files, or a
\* page full of newer ones, whatever other clients upload and list meanwhile.
THEOREM UploadsAreListed == ASSUME DBType = "SQL" PROVE HSpec => []ReadYourUploads
<1>1. HInv => ReadYourUploads
  BY DEF HInv, ReadInv, Shows, ReadYourUploads
<1> QED BY HInvariant, <1>1, PTL
=============================================================================
