------------------------ MODULE DatasetQueriesProofs ------------------------
(***************************************************************************)
(* Proofs about DatasetQueries: for every dataset, every number of actors  *)
(* and every bound, each variable has its type, the coverage that is shown *)
(* as fresh is that of the present content, the schema of a reviewed       *)
(* dataset has no variable without a role, but for those the review could  *)
(* not see, a file that the backfill has written counts as many and scans  *)
(* alike in both tiers, a download holds nothing outside of its scope, the *)
(* counts of the catalogue, of the selector, of the filters and of the     *)
(* quality scan agree with the content and with each other, and so do the  *)
(* charts of a content: each with its filter, and one with another.        *)
(***************************************************************************)
EXTENDS DatasetQueries, ContentProofs, FiniteSetTheorems, TLAPS

-----------------------------------------------------------------------------
(* The shape of an operation                                               *)

Counting == {"matching", "total", "files", "commit"}
RequestFields == {"filter", "version", "matching", "total", "quiet"}

\* An operation of another kind has no request.
HasShape(o) ==
    /\ "kind" \in DOMAIN o
    /\ o.kind \in Counting =>
         /\ DOMAIN o = {"kind", "request"}
         /\ DOMAIN o.request = RequestFields

Shape ==
    /\ DOMAIN op = Actors
    /\ DOMAIN request = Actors
    /\ \A a \in Actors : HasShape(op[a])
    /\ \A a \in Actors : request[a] # None => DOMAIN request[a] = RequestFields

\* op[a] = o for an operation that counts nothing.
LEMMA ShapeOther ==
    ASSUME Shape, NEW a \in Actors, NEW o, "kind" \in DOMAIN o, o.kind \notin Counting,
           SetOp(a, o), UNCHANGED request
    PROVE  Shape'
BY DEF Shape, HasShape, SetOp

LEMMA ShapeDisturbed ==
    ASSUME Shape, NEW a \in Actors, NEW o, "kind" \in DOMAIN o, o.kind \notin Counting,
           SetOpDisturbing(a, o), DisturbRequests
    PROVE  Shape'
<1>1. DOMAIN op' = Actors /\ DOMAIN request' = Actors
  BY DEF SetOpDisturbing, DisturbRequests
<1>2. ASSUME NEW b \in Actors PROVE HasShape(op[b])'
  <2>1. HasShape(op[b])
    BY DEF Shape
  <2>2. HasShape(Disturb(op[b]))
    BY <2>1 DEF Disturb, HasShape, Counting
  <2> QED
    BY <2>2 DEF SetOpDisturbing, HasShape
<1>3. ASSUME NEW b \in Actors, request'[b] # None PROVE DOMAIN request'[b] = RequestFields
  BY <1>3 DEF DisturbRequests, Shape
<1> QED
  BY <1>1, <1>2, <1>3 DEF Shape

LEMMA ShapeRemoved ==
    ASSUME Shape, NEW f, RemoveFile(f)
    PROVE  Shape'
<1>1. DOMAIN op' = Actors /\ DOMAIN request' = Actors
  BY DEF RemoveFile, DisturbRequests
<1>2. ASSUME NEW b \in Actors PROVE HasShape(op[b])'
  <2>1. HasShape(op[b])
    BY DEF Shape
  <2>2. HasShape(Disturb(op[b]))
    BY <2>1 DEF Disturb, HasShape, Counting
  <2> QED
    BY <2>2 DEF RemoveFile, HasShape
<1>3. ASSUME NEW b \in Actors, request'[b] # None PROVE DOMAIN request'[b] = RequestFields
  BY <1>3 DEF RemoveFile, DisturbRequests, Shape
<1> QED
  BY <1>1, <1>2, <1>3 DEF Shape

LEMMA ShapeInit == Init => Shape
<1> SUFFICES ASSUME Init PROVE Shape
  OBVIOUS
<1>1. op = [a \in Actors |-> Idle] /\ request = [a \in Actors |-> None]
  BY DEF Init
<1> QED
  BY <1>1 DEF Shape, HasShape, Idle, Counting

\* What a step makes of the operations.
LEMMA ShapeStep == Shape /\ [Next]_vars => Shape'
<1> SUFFICES ASSUME Shape, [Next]_vars PROVE Shape'
  OBVIOUS
<1> USE DEF Counting
<1>1. CASE UNCHANGED vars
  BY <1>1 DEF vars, Shape, HasShape
<1>2. ASSUME NEW f \in Files, Ingest(f) PROVE Shape'
  BY <1>2 DEF Ingest, Shape, HasShape
<1>3. ASSUME NEW a \in Actors, RequestLoad(a) PROVE Shape'
  BY <1>3 DEF RequestLoad, Begin, SetOp, Shape, HasShape, RequestFields
<1>4. ASSUME NEW a \in Actors, CountMatching(a) \/ CountTotal(a) \/ CountFiles(a) PROVE Shape'
  <2>1. PICK o : SetOp(a, o) /\ HasShape(o) /\ UNCHANGED request
    <3> HasShape(op[a]) /\ op[a].kind \in Counting
      BY <1>4 DEF Shape, CountMatching, CountTotal, CountFiles
    <3>1. ASSUME NEW x, NEW k \in Counting
          PROVE  HasShape([op[a] EXCEPT !.kind = k, !.request.matching = x])
      BY DEF HasShape, RequestFields
    <3>2. ASSUME NEW x, NEW k \in Counting
          PROVE  HasShape([op[a] EXCEPT !.kind = k, !.request.total = x])
      BY DEF HasShape, RequestFields
    <3>3. ASSUME NEW x, NEW y, NEW k \in Counting
          PROVE  HasShape([op[a] EXCEPT !.kind = k, !.request.matching = x, !.request.total = y])
      BY DEF HasShape, RequestFields
    <3>4. CASE CountMatching(a)
      BY <3>1, <3>4 DEF CountMatching
    <3>5. CASE CountTotal(a)
      BY <3>2, <3>5 DEF CountTotal
    <3>6. CASE CountFiles(a)
      BY <3>3, <3>6 DEF CountFiles
    <3> QED
      BY <1>4, <3>4, <3>5, <3>6
  <2> QED
    BY <2>1 DEF SetOp, Shape
<1>5. ASSUME NEW a \in Actors, RequestCommit(a) PROVE Shape'
  BY <1>5 DEF RequestCommit, SetOp, Shape, HasShape, Idle
<1>6. ASSUME NEW a \in Actors, BackfillStart(a) PROVE Shape'
  BY <1>6, ShapeOther DEF BackfillStart, Begin
<1>7. ASSUME NEW a \in Actors, BackfillCheck(a) PROVE Shape'
  <2>1. HasShape(op[a])
    BY DEF Shape
  <2>2. ASSUME NEW l, NEW s PROVE
          LET o == [op[a] EXCEPT !.left = l, !.todo = s] IN "kind" \in DOMAIN o /\ o.kind = "check"
    BY <1>7, <2>1 DEF BackfillCheck, HasShape
  <2>3. CASE op[a].left = {} /\ SetOp(a, [op[a] EXCEPT !.kind = "clear"])
    BY <1>7, <2>1, <2>3, ShapeOther DEF BackfillCheck, HasShape
  <2> QED
    BY <1>7, <2>2, <2>3, ShapeOther DEF BackfillCheck
<1>8. ASSUME NEW a \in Actors, BackfillClear(a) PROVE Shape'
  BY <1>8, ShapeDisturbed DEF BackfillClear
<1>9. ASSUME NEW a \in Actors, BackfillCopy(a) PROVE Shape'
  <2> DEFINE o == [op[a] EXCEPT !.row = @ + 1]
  <2>1. "kind" \in DOMAIN o /\ o.kind = "copy"
    BY <1>9 DEF BackfillCopy, Shape, HasShape
  <2>2. SetOpDisturbing(a, o) /\ DisturbRequests
    BY <1>9 DEF BackfillCopy
  <2> HIDE DEF o
  <2> QED
    BY <2>1, <2>2, ShapeDisturbed
<1>10. ASSUME NEW a \in Actors, BackfillNext(a) \/ BackfillDone(a) \/ Lost(a) PROVE Shape'
  BY <1>10, ShapeOther DEF BackfillNext, BackfillDone, Lost, Idle
<1>11. ASSUME NEW a \in Actors, ReviewCount(a) \/ ReviewCommit(a) PROVE Shape'
  BY <1>11, ShapeOther DEF ReviewCount, ReviewCommit, Begin, Idle
<1>12. ASSUME NEW a \in Actors, RolesLoad(a) \/ RolesCommit(a) PROVE Shape'
  BY <1>12, ShapeOther DEF RolesLoad, RolesCommit, Begin, Idle
<1>13. ASSUME NEW f \in Files, RemoveFile(f) PROVE Shape'
  BY <1>13, ShapeRemoved
<1> QED
  BY <1>1, <1>2, <1>3, <1>4, <1>5, <1>6, <1>7, <1>8, <1>9, <1>10, <1>11, <1>12, <1>13 DEF Next

\* No file of the older tier is ingested again.
NewFiles == ingested \cap Legacy = {}

LEMMA NewFilesInit == Init => NewFiles
BY DEF Init, NewFiles

LEMMA NewFilesStep == NewFiles /\ [Next]_vars => NewFiles'
<1> SUFFICES ASSUME NewFiles, [Next]_vars PROVE NewFiles'
  OBVIOUS
<1> USE DEF NewFiles, contentVars
<1>1. ASSUME NEW f \in Files, Ingest(f) \/ RemoveFile(f) PROVE NewFiles'
  BY <1>1 DEF Ingest, RemoveFile
<1>2. ASSUME NEW a \in Actors,
             \/ RequestLoad(a) \/ CountMatching(a) \/ CountTotal(a) \/ CountFiles(a) \/ RequestCommit(a)
             \/ BackfillStart(a) \/ BackfillCheck(a) \/ BackfillClear(a)
             \/ BackfillCopy(a) \/ BackfillNext(a) \/ BackfillDone(a)
             \/ ReviewCount(a) \/ ReviewCommit(a) \/ RolesLoad(a) \/ RolesCommit(a)
             \/ Lost(a)
      PROVE  UNCHANGED ingested
  BY <1>2 DEF RequestLoad, CountMatching, CountTotal, CountFiles, RequestCommit, BackfillStart, BackfillCheck,
       BackfillClear, BackfillCopy, BackfillNext, BackfillDone, ReviewCount, ReviewCommit, RolesLoad, RolesCommit, Lost
<1>3. CASE UNCHANGED vars
  BY <1>3 DEF vars
<1> QED
  BY <1>1, <1>2, <1>3 DEF Next
-----------------------------------------------------------------------------
(* The counts of a request                                                 *)

\* What an operation has counted when it comes to stage k is what there is, as
\* long as the version is the same and no row or file came or went without one.
Counted(k, r) ==
    /\ k \in {"total", "files"} => r.matching = Cardinality(RecordsMatching(records, r.filter))
    /\ k = "files" => r.total = Cardinality(records)
    /\ k = "commit" =>
         /\ r.matching = Cardinality(RecordsMatching(records, r.filter)) + MatchingIn(ingested, r.filter)
         /\ r.total = Cardinality(records) + TotalIn(ingested, r.filter)

CountedIfCurrent(k, r) ==
    /\ r.version \in Nat
    /\ r.version <= version
    /\ r.version = version /\ r.quiet => Counted(k, r)

\* The inductive strengthening of CoverageFresh: the counts are right at each
\* stage, and no version is of the future, so the next ingestion makes every one
\* of them old.
CoverageInv ==
    /\ version \in Nat
    /\ \A a \in Actors : op[a].kind \in Counting => CountedIfCurrent(op[a].kind, op[a].request)
    /\ \A a \in Actors : request[a] # None => CountedIfCurrent("commit", request[a])

LEMMA CoverageInit == Init => CoverageInv
<1> SUFFICES ASSUME Init PROVE CoverageInv
  OBVIOUS
<1>1. op = [a \in Actors |-> Idle] /\ request = [a \in Actors |-> None] /\ version = 1
  BY DEF Init
<1> QED
  BY <1>1 DEF CoverageInv, Idle, Counting

\* Steps that leave the content and the counts alone.
LEMMA CoverageSame ==
    ASSUME CoverageInv, UNCHANGED contentVars, UNCHANGED request,
           \A b \in Actors : op'[b].kind \in Counting => op'[b] = op[b]
    PROVE  CoverageInv'
<1>1. ASSUME NEW k, NEW r, CountedIfCurrent(k, r) PROVE CountedIfCurrent(k, r)'
  BY <1>1 DEF CountedIfCurrent, Counted, contentVars
<1> QED
  BY <1>1 DEF CoverageInv, contentVars

LEMMA CoverageOther ==
    ASSUME Shape, CoverageInv, UNCHANGED contentVars, UNCHANGED request,
           NEW a \in Actors, NEW o, o.kind \notin Counting, SetOp(a, o)
    PROVE  CoverageInv'
<1>1. \A b \in Actors : op'[b].kind \in Counting => op'[b] = op[b]
  BY DEF Shape, SetOp
<1> QED
  BY <1>1, CoverageSame

\* A step that changes the content and no version leaves no request current.
LEMMA CoverageDisturbed ==
    ASSUME Shape, CoverageInv, UNCHANGED version, DisturbRequests,
           \A b \in Actors : op'[b].kind \in Counting => op'[b] = Disturb(op[b])
    PROVE  CoverageInv'
<1>1. ASSUME NEW k, NEW l, NEW r, DOMAIN r = RequestFields, CountedIfCurrent(k, r)
      PROVE  CountedIfCurrent(l, [r EXCEPT !.quiet = FALSE])'
  <2> DEFINE s == [r EXCEPT !.quiet = FALSE]
  <2>1. s.version = r.version
    OBVIOUS
  <2>2. ~s.quiet
    BY <1>1 DEF RequestFields
  <2> HIDE DEF s
  <2> QED
    BY <1>1, <2>1, <2>2 DEF CountedIfCurrent
<1>2. ASSUME NEW b \in Actors, op'[b].kind \in Counting
      PROVE  CountedIfCurrent(op[b].kind, op[b].request)'
  <2>1. op'[b] = Disturb(op[b])
    BY <1>2
  <2>2. op[b].kind \in Counting
    BY <1>2, <2>1 DEF Disturb, Counting
  <2>3. op'[b] = [op[b] EXCEPT !.request.quiet = FALSE]
    BY <2>1, <2>2 DEF Disturb, Counting
  <2>4. PICK r : r = op[b].request
    OBVIOUS
  <2>5. op'[b].request = [r EXCEPT !.quiet = FALSE]
    BY <2>2, <2>3, <2>4 DEF Shape, HasShape
  <2>6. DOMAIN r = RequestFields /\ CountedIfCurrent(op[b].kind, r)
    BY <2>2, <2>4 DEF Shape, HasShape, CoverageInv
  <2>7. \A l : CountedIfCurrent(l, [r EXCEPT !.quiet = FALSE])'
    BY <1>1, <2>6
  <2> QED
    BY <2>5, <2>7 DEF CountedIfCurrent, Counted
<1>3. ASSUME NEW b \in Actors, request'[b] # None
      PROVE  CountedIfCurrent("commit", request[b])'
  <2>1. request[b] # None /\ request'[b] = [request[b] EXCEPT !.quiet = FALSE]
    BY <1>3 DEF DisturbRequests
  <2> QED
    BY <1>1, <2>1 DEF Shape, CoverageInv, CountedIfCurrent, Counted
<1> QED
  BY <1>2, <1>3 DEF CoverageInv

LEMMA CoverageWritten ==
    ASSUME Shape, CoverageInv, UNCHANGED version,
           NEW a \in Actors, NEW o, o.kind \notin Counting,
           SetOpDisturbing(a, o), DisturbRequests
    PROVE  CoverageInv'
<1>1. \A b \in Actors : op'[b].kind \in Counting => op'[b] = Disturb(op[b])
  BY DEF SetOpDisturbing
<1> QED
  BY <1>1, CoverageDisturbed

LEMMA CoverageStep == Shape /\ CoverageInv /\ [Next]_vars => CoverageInv'
<1> SUFFICES ASSUME Shape, CoverageInv, [Next]_vars PROVE CoverageInv'
  OBVIOUS
<1>1. CASE UNCHANGED vars
  BY <1>1, CoverageSame DEF vars
<1>2. ASSUME NEW f \in Files, Ingest(f) PROVE CoverageInv'
  <2>1. version' = version + 1 /\ UNCHANGED <<request, op>>
    BY <1>2 DEF Ingest
  <2>2. ASSUME NEW k, NEW r, CountedIfCurrent(k, r) PROVE CountedIfCurrent(k, r)'
    BY <2>1, <2>2 DEF CountedIfCurrent, CoverageInv
  <2> QED
    BY <2>1, <2>2 DEF CoverageInv
<1>3. ASSUME NEW a \in Actors, RequestLoad(a) PROVE CoverageInv'
  <2>1. PICK r : /\ SetOp(a, [kind |-> "matching", request |-> r])
                 /\ r.version = version
    BY <1>3 DEF RequestLoad, Begin
  <2>2. UNCHANGED contentVars /\ UNCHANGED request
    BY <1>3 DEF RequestLoad
  <2>3. CountedIfCurrent("matching", r)'
    BY <2>1, <2>2 DEF CountedIfCurrent, Counted, CoverageInv, contentVars
  <2>4. ASSUME NEW k, NEW s, CountedIfCurrent(k, s) PROVE CountedIfCurrent(k, s)'
    BY <2>2, <2>4 DEF CountedIfCurrent, Counted, contentVars
  <2>5. op' = [op EXCEPT ![a] = [kind |-> "matching", request |-> r]]
    BY <2>1 DEF SetOp
  <2> QED
    BY <2>2, <2>3, <2>4, <2>5 DEF CoverageInv, Shape, contentVars
<1>4. ASSUME NEW a \in Actors, CountMatching(a) \/ CountTotal(a) \/ CountFiles(a) PROVE CoverageInv'
  <2>1. PICK r : r = op[a].request
    OBVIOUS
  <2>2. UNCHANGED contentVars /\ UNCHANGED request
    BY <1>4 DEF CountMatching, CountTotal, CountFiles
  <2>3. op[a].kind \in Counting /\ DOMAIN op[a] = {"kind", "request"} /\ DOMAIN r = RequestFields
    BY <1>4, <2>1 DEF CountMatching, CountTotal, CountFiles, Shape, HasShape, Counting
  <2>4. CountedIfCurrent(op[a].kind, r)
    BY <2>1, <2>3 DEF CoverageInv
  <2>5. PICK k, s : /\ op' = [op EXCEPT ![a] = [op[a] EXCEPT !.kind = k, !.request = s]]
                    /\ CountedIfCurrent(k, s)
    <3>1. CASE CountMatching(a)
      <4> DEFINE s == [r EXCEPT !.matching = Cardinality(RecordsMatching(records, r.filter))]
      <4>1. op' = [op EXCEPT ![a] = [op[a] EXCEPT !.kind = "total", !.request = s]]
        BY <2>1, <2>3, <3>1 DEF CountMatching, SetOp
      <4>2. /\ s.version = r.version /\ s.quiet = r.quiet /\ s.filter = r.filter
            /\ s.matching = Cardinality(RecordsMatching(records, r.filter))
        BY <2>3 DEF RequestFields
      <4> HIDE DEF s
      <4>3. CountedIfCurrent("total", s)
        BY <2>4, <4>2 DEF CountedIfCurrent, Counted
      <4> QED
        BY <4>1, <4>3
    <3>2. CASE CountTotal(a)
      <4> DEFINE s == [r EXCEPT !.total = Cardinality(records)]
      <4>1. op' = [op EXCEPT ![a] = [op[a] EXCEPT !.kind = "files", !.request = s]]
        BY <2>1, <2>3, <3>2 DEF CountTotal, SetOp
      <4>2. /\ s.version = r.version /\ s.quiet = r.quiet /\ s.filter = r.filter
            /\ s.matching = r.matching /\ s.total = Cardinality(records)
        BY <2>3 DEF RequestFields
      <4>3. op[a].kind = "total"
        BY <3>2 DEF CountTotal
      <4> HIDE DEF s
      <4>4. CountedIfCurrent("files", s)
        BY <2>4, <4>2, <4>3 DEF CountedIfCurrent, Counted
      <4> QED
        BY <4>1, <4>4
    <3>3. CASE CountFiles(a)
      <4> DEFINE s == [r EXCEPT !.matching = @ + MatchingIn(ingested, r.filter),
                                !.total = @ + TotalIn(ingested, r.filter)]
      <4>1. op' = [op EXCEPT ![a] = [op[a] EXCEPT !.kind = "commit", !.request = s]]
        BY <2>1, <2>3, <3>3 DEF CountFiles, SetOp
      <4>2. /\ s.version = r.version /\ s.quiet = r.quiet /\ s.filter = r.filter
            /\ s.matching = r.matching + MatchingIn(ingested, r.filter)
            /\ s.total = r.total + TotalIn(ingested, r.filter)
        BY <2>3 DEF RequestFields
      <4>3. op[a].kind = "files"
        BY <3>3 DEF CountFiles
      <4> HIDE DEF s
      <4>4. CountedIfCurrent("commit", s)
        BY <2>4, <4>2, <4>3 DEF CountedIfCurrent, Counted
      <4> QED
        BY <4>1, <4>4
    <3> QED
      BY <1>4, <3>1, <3>2, <3>3
  <2>6. ASSUME NEW l, NEW q, CountedIfCurrent(l, q) PROVE CountedIfCurrent(l, q)'
    BY <2>2, <2>6 DEF CountedIfCurrent, Counted, contentVars
  <2>7. op'[a].kind = k /\ op'[a].request = s /\ \A b \in Actors \ {a} : op'[b] = op[b]
    BY <2>3, <2>5 DEF Shape
  <2> QED
    BY <2>2, <2>5, <2>6, <2>7 DEF CoverageInv, contentVars
<1>5. ASSUME NEW a \in Actors, RequestCommit(a) PROVE CoverageInv'
  <2>1. CountedIfCurrent("commit", op[a].request)
    BY <1>5 DEF RequestCommit, CoverageInv, Counting
  <2>2. PICK r : r = op[a].request
    OBVIOUS
  <2>3. UNCHANGED contentVars
    BY <1>5 DEF RequestCommit
  <2>4. ASSUME NEW l, NEW q, CountedIfCurrent(l, q) PROVE CountedIfCurrent(l, q)'
    BY <2>3, <2>4 DEF CountedIfCurrent, Counted, contentVars
  <2>5. request' = [request EXCEPT ![a] = r] /\ op' = [op EXCEPT ![a] = Idle]
    BY <1>5, <2>2 DEF RequestCommit, SetOp
  <2> QED
    BY <2>1, <2>2, <2>3, <2>4, <2>5 DEF CoverageInv, Shape, Idle, Counting, contentVars
<1>6. ASSUME NEW a \in Actors, BackfillStart(a) PROVE CoverageInv'
  BY <1>6, CoverageOther DEF BackfillStart, Begin, Counting
<1>7. ASSUME NEW a \in Actors, BackfillCheck(a) PROVE CoverageInv'
  <2>1. HasShape(op[a]) /\ op[a].kind = "check" /\ UNCHANGED contentVars /\ UNCHANGED request
    BY <1>7 DEF BackfillCheck, Shape
  <2>2. ASSUME NEW l, NEW s PROVE [op[a] EXCEPT !.left = l, !.todo = s].kind \notin Counting
    BY <2>1 DEF HasShape, Counting
  <2>3. CASE op[a].left = {} /\ SetOp(a, [op[a] EXCEPT !.kind = "clear"])
    <3>1. [op[a] EXCEPT !.kind = "clear"].kind \notin Counting
      BY <2>1 DEF HasShape, Counting
    <3> QED
      BY <2>1, <2>3, <3>1, CoverageOther
  <2> QED
    BY <1>7, <2>1, <2>2, <2>3, CoverageOther DEF BackfillCheck
<1>8. ASSUME NEW a \in Actors, BackfillClear(a) PROVE CoverageInv'
  BY <1>8, CoverageWritten DEF BackfillClear, Counting
<1>9. ASSUME NEW a \in Actors, BackfillCopy(a) PROVE CoverageInv'
  <2> DEFINE o == [op[a] EXCEPT !.row = @ + 1]
  <2>1. o.kind \notin Counting
    BY <1>9 DEF BackfillCopy, Shape, HasShape, Counting
  <2>2. SetOpDisturbing(a, o) /\ DisturbRequests /\ UNCHANGED version
    BY <1>9 DEF BackfillCopy
  <2> HIDE DEF o
  <2> QED
    BY <2>1, <2>2, CoverageWritten
<1>10. ASSUME NEW a \in Actors, BackfillNext(a) \/ BackfillDone(a) \/ Lost(a) PROVE CoverageInv'
  BY <1>10, CoverageOther DEF BackfillNext, BackfillDone, Lost, Idle, Counting
<1>11. ASSUME NEW a \in Actors, ReviewCount(a) \/ ReviewCommit(a) PROVE CoverageInv'
  BY <1>11, CoverageOther DEF ReviewCount, ReviewCommit, Begin, Idle, Counting
<1>12. ASSUME NEW a \in Actors, RolesLoad(a) \/ RolesCommit(a) PROVE CoverageInv'
  BY <1>12, CoverageOther DEF RolesLoad, RolesCommit, Begin, Idle, Counting
<1>13. ASSUME NEW f \in Files, RemoveFile(f) PROVE CoverageInv'
  BY <1>13, CoverageDisturbed DEF RemoveFile
<1> QED
  BY <1>1, <1>2, <1>3, <1>4, <1>5, <1>6, <1>7, <1>8, <1>9, <1>10, <1>11, <1>12, <1>13 DEF Next

LEMMA CoverageInvImplies == CoverageInv => CoverageFresh
BY DEF CoverageInv, CoverageFresh, ListRequestsForAdmin, ReadCoverageSnapshot,
       GetRequestCoverage, CountedIfCurrent, Counted

\* The coverage of a request that the queue does not call stale is that of the
\* present content, whatever was ingested while it was counted, unless rows were
\* backfilled or a file was removed meanwhile.
THEOREM CoverageFreshHolds == Spec => []CoverageFresh
<1>1. Init => Shape /\ CoverageInv
  BY ShapeInit, CoverageInit
<1>2. Shape /\ CoverageInv /\ [Next]_vars => (Shape /\ CoverageInv)'
  BY ShapeStep, CoverageStep
<1> QED
  BY <1>1, <1>2, CoverageInvImplies, PTL DEF Spec
-----------------------------------------------------------------------------
(* The registry of variables and its review                                *)

VariableFields == {"data_type", "is_dimension", "roles", "min", "max"}

IsRegistry(r) == \A v \in DOMAIN r : DOMAIN r[v] = VariableFields

RegistryShape == IsRegistry(registry)

KeepsRoles(new, old) ==
    /\ DOMAIN old \subseteq DOMAIN new
    /\ \A v \in DOMAIN old : new[v].roles = old[v].roles

RolesIn(r, S) == \A v \in DOMAIN r : r[v].roles \subseteq S

\* A file adds its variables and changes the role of no other.
LEMMA RegistryWritten ==
    ASSUME NEW old, NEW found, IsRegistry(old), IsRegistry(found)
    PROVE  /\ IsRegistry(WriteVariableRegistry(old, found))
           /\ KeepsRoles(WriteVariableRegistry(old, found), old)
           /\ \A S : RolesIn(old, S) /\ RolesIn(found, S) => RolesIn(WriteVariableRegistry(old, found), S)
<1> DEFINE new == WriteVariableRegistry(old, found)
<1>1. DOMAIN new = DOMAIN old \cup DOMAIN found
  BY DEF WriteVariableRegistry
<1>2. ASSUME NEW v \in DOMAIN old
      PROVE  DOMAIN new[v] = VariableFields /\ new[v].roles = old[v].roles
  <2>1. CASE v \notin DOMAIN found
    BY <2>1 DEF WriteVariableRegistry, IsRegistry
  <2>2. CASE v \in DOMAIN found
    <3>1. PICK lo, hi : new[v] = [old[v] EXCEPT !.min = lo, !.max = hi]
      BY <2>2 DEF WriteVariableRegistry, UpsertDatasetVariable
    <3> QED
      BY <3>1 DEF VariableFields, IsRegistry
  <2> QED
    BY <2>1, <2>2
<1>3. ASSUME NEW v \in DOMAIN found, v \notin DOMAIN old
      PROVE  DOMAIN new[v] = VariableFields /\ new[v].roles = found[v].roles
  BY <1>3 DEF WriteVariableRegistry, UpsertDatasetVariable, IsRegistry
<1> HIDE DEF new
<1>4. IsRegistry(new)
  BY <1>1, <1>2, <1>3 DEF IsRegistry
<1>5. KeepsRoles(new, old)
  BY <1>1, <1>2 DEF KeepsRoles
<1>6. ASSUME NEW S, RolesIn(old, S), RolesIn(found, S) PROVE RolesIn(new, S)
  BY <1>1, <1>2, <1>3, <1>6 DEF RolesIn
<1> QED
  BY <1>4, <1>5, <1>6 DEF new

\* What the parsers find is a function to variables, and none of them has a role.
LEMMA VariablesShape == \A f \in Files : IsRegistry(Variables[f]) /\ RolesIn(Variables[f], {})
<1> DEFINE Found(r) == IsRegistry(r) /\ RolesIn(r, {})
<1>1. ASSUME NEW type, NEW dim, NEW lo, NEW hi
      PROVE  DOMAIN Variable(type, dim, lo, hi) = VariableFields /\ Variable(type, dim, lo, hi).roles = {}
  BY DEF Variable, VariableFields
<1> DEFINE plain(S) == [x \in S |-> Variable("numeric", FALSE, None, None)]
<1>2. ASSUME NEW S PROVE Found(plain(S))
  BY <1>1 DEF IsRegistry, RolesIn
<1>3. ASSUME NEW named PROVE Found(DetectedCoordinates(named))
  BY <1>1 DEF IsRegistry, RolesIn, DetectedCoordinates
<1>4. ASSUME NEW table PROVE Found(DetectedVariables(table))
  BY <1>1 DEF IsRegistry, RolesIn, DetectedVariables
<1>5. ASSUME NEW p PROVE Found(Registered(p))
  <2>1. CASE p.kind = "raster"
    <3>1. Registered(p) = plain(ToSet(p.bands))
      BY <2>1 DEF Registered
    <3> HIDE DEF plain
    <3> QED
      BY <1>2, <3>1
  <2>2. CASE p.kind = "table"
    BY <1>3, <1>4, <2>2, RegistryWritten DEF Registered
  <2>3. CASE p.kind \notin {"raster", "table"}
    <3>1. PICK S : Registered(p) = WriteVariableRegistry(DetectedCoordinates(p.named), plain(S))
      BY <2>3 DEF Registered
    <3> HIDE DEF plain
    <3> QED
      BY <1>2, <1>3, <3>1, RegistryWritten
  <2> QED
    BY <2>1, <2>2, <2>3
<1>6. Found(<<>>)
  BY DEF IsRegistry, RolesIn
<1> QED
  BY <1>5, <1>6 DEF Variables

Assigned == \A v \in DOMAIN registry : registry[v].roles # {} \/ v \in exempt

\* The inductive strengthening of ReviewedIsAssigned: what a review has counted
\* still holds until it commits, and afterwards.
ReviewInv ==
    /\ RegistryShape
    /\ ReviewBegun => Assigned

LEMMA ReviewInit == Init => ReviewInv
<1> SUFFICES ASSUME Init PROVE ReviewInv
  OBVIOUS
<1>1. /\ op = [a \in Actors |-> Idle] /\ reviewed = FALSE
      /\ \E roles \in {{}, {"visualization_variable"}} :
            registry = [v \in DOMAIN RegistryOfOld |-> WithRoles(RegistryOfOld[v], roles)]
  BY DEF Init
<1>2. RegistryShape
  <2>1. ASSUME NEW v, NEW roles PROVE DOMAIN WithRoles(v, roles) = VariableFields
    BY DEF WithRoles, VariableFields
  <2> QED
    BY <1>1, <2>1 DEF RegistryShape, IsRegistry
<1> QED
  BY <1>1, <1>2 DEF ReviewInv, ReviewBegun, Idle

\* Steps that leave the schema alone and begin no review.
LEMMA ReviewSame ==
    ASSUME ReviewInv, UNCHANGED schemaVars,
           \A b \in Actors : op'[b].kind = "review" => op[b].kind = "review"
    PROVE  ReviewInv'
BY DEF ReviewInv, RegistryShape, ReviewBegun, Assigned, schemaVars

LEMMA ReviewOther ==
    ASSUME Shape, ReviewInv, UNCHANGED schemaVars,
           NEW a \in Actors, NEW o, o.kind # "review", SetOp(a, o)
    PROVE  ReviewInv'
<1>1. \A b \in Actors : op'[b].kind = "review" => op[b].kind = "review"
  BY DEF Shape, SetOp
<1> QED
  BY <1>1, ReviewSame

LEMMA ReviewDisturbed ==
    ASSUME Shape, ReviewInv, UNCHANGED schemaVars,
           NEW a \in Actors, NEW o, o.kind # "review", SetOpDisturbing(a, o)
    PROVE  ReviewInv'
<1>1. ASSUME NEW b \in Actors, op'[b].kind = "review" PROVE op[b].kind = "review"
  <2>1. b # a /\ op'[b] = Disturb(op[b])
    BY <1>1 DEF SetOpDisturbing
  <2> QED
    BY <1>1, <2>1 DEF Disturb, Shape, HasShape, Counting
<1> QED
  BY <1>1, ReviewSame

LEMMA ReviewRemoved ==
    ASSUME Shape, ReviewInv, NEW f, RemoveFile(f)
    PROVE  ReviewInv'
<1>1. ASSUME NEW b \in Actors, op'[b].kind = "review" PROVE op[b].kind = "review"
  <2>1. op'[b] = Disturb(op[b])
    BY DEF RemoveFile
  <2> QED
    BY <1>1, <2>1 DEF Disturb, Shape, HasShape, Counting
<1>2. UNCHANGED schemaVars
  BY DEF RemoveFile
<1> QED
  BY <1>1, <1>2, ReviewSame

LEMMA ReviewStep == Shape /\ ReviewInv /\ [Next]_vars => ReviewInv'
<1> SUFFICES ASSUME Shape, ReviewInv, [Next]_vars PROVE ReviewInv'
  OBVIOUS
<1>1. CASE UNCHANGED vars
  BY <1>1, ReviewSame DEF vars
<1>2. ASSUME NEW f \in Files, Ingest(f) PROVE ReviewInv'
  <2>1. PICK old, new : old = registry /\ new = WriteVariableRegistry(old, Variables[f])
    OBVIOUS
  <2>2. IsRegistry(new) /\ KeepsRoles(new, old)
    <3>1. IsRegistry(old) /\ IsRegistry(Variables[f])
      BY <2>1, VariablesShape DEF ReviewInv, RegistryShape
    <3> QED
      BY <2>1, <3>1, RegistryWritten
  <2>3. /\ registry' = new /\ UNCHANGED <<reviewed, op>>
        /\ exempt' = IF ReviewBegun THEN exempt \cup (DOMAIN new \ DOMAIN old) ELSE exempt
    BY <1>2, <2>1 DEF Ingest
  <2>4. ReviewBegun' = ReviewBegun
    BY <2>3 DEF ReviewBegun
  <2>5. ReviewBegun => Assigned'
    BY <2>1, <2>2, <2>3 DEF ReviewInv, Assigned, KeepsRoles
  <2>6. RegistryShape'
    BY <2>2, <2>3 DEF RegistryShape
  <2> QED
    BY <2>4, <2>5, <2>6 DEF ReviewInv
<1>3. ASSUME NEW a \in Actors, RequestLoad(a) \/ RequestCommit(a) \/ BackfillStart(a) PROVE ReviewInv'
  BY <1>3, ReviewOther DEF RequestLoad, RequestCommit, BackfillStart, Begin, Idle
<1>4. ASSUME NEW a \in Actors, CountMatching(a) \/ CountTotal(a) \/ CountFiles(a) PROVE ReviewInv'
  <2> HasShape(op[a]) /\ op[a].kind \in Counting /\ UNCHANGED schemaVars
    BY <1>4 DEF Shape, CountMatching, CountTotal, CountFiles, Counting
  <2>1. ASSUME NEW k \in Counting, NEW s PROVE [op[a] EXCEPT !.kind = k, !.request = s].kind # "review"
    BY DEF HasShape, Counting
  <2>2. CASE CountMatching(a)
    BY <2>1, <2>2, ReviewOther DEF CountMatching, Counting
  <2>3. CASE CountTotal(a)
    BY <2>1, <2>3, ReviewOther DEF CountTotal, Counting
  <2>4. CASE CountFiles(a)
    BY <2>1, <2>4, ReviewOther DEF CountFiles, Counting
  <2> QED
    BY <1>4, <2>2, <2>3, <2>4
<1>5. ASSUME NEW a \in Actors, BackfillCheck(a) PROVE ReviewInv'
  <2>1. HasShape(op[a]) /\ op[a].kind = "check" /\ UNCHANGED schemaVars
    BY <1>5 DEF BackfillCheck, Shape
  <2>2. ASSUME NEW l, NEW s PROVE [op[a] EXCEPT !.left = l, !.todo = s].kind # "review"
    BY <2>1 DEF HasShape
  <2>3. CASE op[a].left = {} /\ SetOp(a, [op[a] EXCEPT !.kind = "clear"])
    <3>1. [op[a] EXCEPT !.kind = "clear"].kind # "review"
      BY <2>1 DEF HasShape
    <3> QED
      BY <2>1, <2>3, <3>1, ReviewOther
  <2> QED
    BY <1>5, <2>1, <2>2, <2>3, ReviewOther DEF BackfillCheck
<1>6. ASSUME NEW a \in Actors, BackfillClear(a) PROVE ReviewInv'
  BY <1>6, ReviewDisturbed DEF BackfillClear
<1>7. ASSUME NEW a \in Actors, BackfillCopy(a) PROVE ReviewInv'
  <2> DEFINE o == [op[a] EXCEPT !.row = @ + 1]
  <2>1. o.kind # "review"
    BY <1>7 DEF BackfillCopy, Shape, HasShape
  <2>2. SetOpDisturbing(a, o) /\ UNCHANGED schemaVars
    BY <1>7 DEF BackfillCopy
  <2> HIDE DEF o
  <2> QED
    BY <2>1, <2>2, ReviewDisturbed
<1>8. ASSUME NEW a \in Actors, BackfillNext(a) \/ BackfillDone(a) \/ Lost(a) PROVE ReviewInv'
  BY <1>8, ReviewOther DEF BackfillNext, BackfillDone, Lost, Idle
<1>9. ASSUME NEW a \in Actors, ReviewCount(a) PROVE ReviewInv'
  BY <1>9 DEF ReviewCount, Unassigned, ReviewInv, RegistryShape, Assigned
<1>10. ASSUME NEW a \in Actors, ReviewCommit(a) PROVE ReviewInv'
  <2>1. ReviewBegun /\ UNCHANGED <<registry, exempt>>
    BY <1>10 DEF ReviewCommit, ReviewBegun
  <2> QED
    BY <2>1 DEF ReviewInv, RegistryShape, Assigned
<1>11. ASSUME NEW a \in Actors, RolesLoad(a) PROVE ReviewInv'
  BY <1>11, ReviewOther DEF RolesLoad, Begin
<1>12. ASSUME NEW a \in Actors, RolesCommit(a) PROVE ReviewInv'
  <2>1. PICK x, r, w : x = op[a].variable /\ r = op[a].roles /\ w = op[a].reviewed
    OBVIOUS
  <2>2. registry' = [registry EXCEPT ![x].roles = r] /\ op' = [op EXCEPT ![a] = Idle]
    BY <1>12, <2>1 DEF RolesCommit, SetOp
  <2>3. RegistryShape'
    BY <2>2 DEF ReviewInv, RegistryShape, IsRegistry
  <2>4. ASSUME ReviewBegun' PROVE Assigned'
    <3>1. ReviewBegun
      BY <1>12, <2>2, <2>4 DEF RolesCommit, ReviewBegun, Shape, Idle
    <3>2. exempt' = exempt \cup {x}
      <4>1. CASE reviewed'
        BY <1>12, <2>1, <3>1, <4>1 DEF RolesCommit, WithdrawsReview
      <4>2. CASE \E b \in Actors : op'[b].kind = "review"
        <5>1. \E b \in Actors : op[b].kind = "review"
          BY <2>2, <4>2 DEF Shape, Idle
        <5> QED
          BY <1>12, <2>1, <3>1, <5>1 DEF RolesCommit
      <4> QED
        BY <2>4, <4>1, <4>2 DEF ReviewBegun
    <3>3. DOMAIN registry' = DOMAIN registry /\ \A v \in DOMAIN registry \ {x} : registry'[v] = registry[v]
      BY <2>2
    <3> QED
      BY <3>1, <3>2, <3>3 DEF ReviewInv, Assigned
  <2> QED
    BY <2>3, <2>4 DEF ReviewInv
<1>13. ASSUME NEW f \in Files, RemoveFile(f) PROVE ReviewInv'
  BY <1>13, ReviewRemoved
<1> QED
  BY <1>1, <1>2, <1>3, <1>4, <1>5, <1>6, <1>7, <1>8, <1>9, <1>10, <1>11, <1>12, <1>13 DEF Next

\* A reviewed schema has no variable without a role but those that the review
\* could not see.
THEOREM ReviewedIsAssignedHolds == Spec => []ReviewedIsAssigned
<1>1. Init => Shape /\ ReviewInv
  BY ShapeInit, ReviewInit
<1>2. Shape /\ ReviewInv /\ [Next]_vars => (Shape /\ ReviewInv)'
  BY ShapeStep, ReviewStep
<1>3. ReviewInv => ReviewedIsAssigned
  BY DEF ReviewInv, ReviewBegun, Assigned, ReviewedIsAssigned
<1> QED
  BY <1>1, <1>2, <1>3, PTL DEF Spec

-----------------------------------------------------------------------------
(* The rows that the backfill writes                                       *)

Copying == {"check", "clear", "copy"}

\* The files of an operation of the script are tables of the older tier.
HasFiles(o) ==
    /\ o.kind \in {"check", "clear"} => DOMAIN o = {"kind", "left", "todo"} /\ o.todo \subseteq Tabular
    /\ o.kind = "copy" =>
         /\ DOMAIN o = {"kind", "todo", "file", "row"}
         /\ o.todo \subseteq Tabular
         /\ o.file \in Tabular
         /\ o.row \in Nat \ {0}

\* What a copy by a has written of f when it comes to row k.
Written(f, a, k) == {r \in RowsOf[f][a] : r.row < k}

\* One copy at a time has written the rows before its own, and nothing else is
\* there; one that has finished has written them all.
BackfillInv ==
    /\ finished \subseteq Tabular
    /\ \A a \in Actors : HasFiles(op[a])
    /\ \A f \in finished \ raced : \E id \in Actors : Rows(f) = RowsOf[f][id]
    /\ \A a \in Actors : op[a].kind = "copy" /\ op[a].file \notin raced =>
         /\ op[a].file \notin finished
         /\ Rows(op[a].file) = Written(op[a].file, a, op[a].row)
         /\ \A b \in Actors \ {a} : op[b].kind = "copy" => op[b].file # op[a].file

LEMMA TablesOfOld ==
    ASSUME NEW f \in Tabular
    PROVE  f \in Files /\ Parsed[f] # None /\ Parsed[f].kind = "table" /\ IsTable(Parsed[f].table)
BY DatasetQueriesAssumption DEF WellFormed, Tabular

LEMMA RowsOfFile ==
    ASSUME NEW f \in Tabular, NEW a \in Actors
    PROVE  \A r \in RowsOf[f][a] : r.file = f /\ r.row \in 1..Len(Parsed[f].table.rows)
<1> DEFINE t == Parsed[f].table
<1>1. RowsOf[f][a] = WriteDatasetRecords(t, f, a)
  BY DEF RowsOf
<1>2. DOMAIN t.rows = 1..Len(t.rows)
  BY TablesOfOld DEF IsTable
<1> HIDE DEF t
<1>3. \A i, v : RecordOf(t, f, i, v, a).file = f /\ RecordOf(t, f, i, v, a).row = i
  BY DEF RecordOf
<1>4. \A r \in WriteDatasetRecords(t, f, a) : \E i \in DOMAIN t.rows : \E v : r = RecordOf(t, f, i, v, a)
  BY DEF WriteDatasetRecords
<1> QED
  BY <1>1, <1>2, <1>3, <1>4 DEF t

\* A step that neither writes rows nor copies.
LEMMA BackfillKept ==
    ASSUME BackfillInv, UNCHANGED <<records, copyVars>>,
           \A b \in Actors : HasFiles(op'[b]) /\ (op'[b].kind = "copy" => op'[b] = op[b])
    PROVE  BackfillInv'
<1>1. \A f : Rows(f)' = Rows(f)
  BY DEF Rows
<1>2. \A b \in Actors : HasFiles(op[b])'
  BY DEF HasFiles
<1>3. ASSUME NEW a \in Actors, op'[a].kind = "copy", op'[a].file \notin raced'
      PROVE  /\ op'[a].file \notin finished'
             /\ Rows(op[a].file)' = Written(op[a].file, a, op[a].row)'
             /\ \A b \in Actors \ {a} : op'[b].kind = "copy" => op'[b].file # op'[a].file
  <2>1. op'[a] = op[a] /\ raced' = raced /\ finished' = finished
    BY <1>3 DEF copyVars
  <2>2. /\ op[a].file \notin finished
        /\ Rows(op[a].file) = Written(op[a].file, a, op[a].row)
        /\ \A b \in Actors \ {a} : op[b].kind = "copy" => op[b].file # op[a].file
    BY <1>3, <2>1 DEF BackfillInv
  <2>3. Rows(op[a].file)' = Rows(op[a].file) /\ Written(op[a].file, a, op[a].row)' = Written(op[a].file, a, op[a].row)
    BY <2>1 DEF Rows, Written
  <2> QED
    BY <2>1, <2>2, <2>3
<1>4. finished' \subseteq Tabular /\ \A f \in finished' \ raced' : \E id \in Actors : Rows(f)' = RowsOf[f][id]
  BY <1>1 DEF BackfillInv, copyVars
<1> QED
  BY <1>2, <1>3, <1>4 DEF BackfillInv

LEMMA BackfillOther ==
    ASSUME Shape, BackfillInv, UNCHANGED <<records, copyVars>>, NEW a \in Actors, NEW o,
           SetOp(a, o), HasFiles(o), o.kind # "copy"
    PROVE  BackfillInv'
<1>1. \A b \in Actors : HasFiles(op'[b]) /\ (op'[b].kind = "copy" => op'[b] = op[b])
  BY DEF SetOp, Shape, BackfillInv
<1> QED
  BY <1>1, BackfillKept
\* What Disturb makes of an operation of the script.
LEMMA DisturbCopy ==
    ASSUME NEW o, HasFiles(o), HasShape(o)
    PROVE  HasFiles(Disturb(o)) /\ Disturb(o).kind = o.kind /\ (o.kind = "copy" => Disturb(o) = o)
BY DEF Disturb, HasFiles, HasShape, Counting

LEMMA OthersAfter ==
    ASSUME Shape, BackfillInv, NEW a \in Actors, NEW o, SetOpDisturbing(a, o)
    PROVE  /\ op'[a] = o
           /\ \A b \in Actors \ {a} :
                /\ HasFiles(op'[b])
                /\ op'[b].kind = op[b].kind
                /\ op[b].kind = "copy" => op'[b] = op[b]
<1>1. \A b \in Actors : HasShape(op[b]) /\ HasFiles(op[b])
  BY DEF Shape, BackfillInv
<1> QED
  BY <1>1, DisturbCopy DEF SetOpDisturbing

LEMMA BackfillClears ==
    ASSUME Shape, BackfillInv, NEW a \in Actors, BackfillClear(a)
    PROVE  BackfillInv'
<1>1. PICK f \in op[a].todo :
        /\ records' = records \ Rows(f)
        /\ SetOpDisturbing(a, [kind |-> "copy", todo |-> op[a].todo \ {f}, file |-> f, row |-> 1])
        /\ raced' = IF CopiedByOther(a, f) THEN raced \cup {f} ELSE raced \ {f}
        /\ finished' = finished \ {f}
  BY DEF BackfillClear
<1>2. PICK o : o = [kind |-> "copy", todo |-> op[a].todo \ {f}, file |-> f, row |-> 1]
  OBVIOUS
<1>3. op[a].kind = "clear" /\ op[a].todo \subseteq Tabular /\ f \in Tabular
  BY DEF BackfillClear, BackfillInv, HasFiles
<1>4. HasFiles(o) /\ o.kind = "copy" /\ o.file = f /\ o.row = 1
  BY <1>2, <1>3 DEF HasFiles
<1>5. /\ op'[a] = o
      /\ \A b \in Actors \ {a} :
           HasFiles(op'[b]) /\ op'[b].kind = op[b].kind /\ (op[b].kind = "copy" => op'[b] = op[b])
  BY <1>1, <1>2, OthersAfter
<1>6. Rows(f)' = {}
  BY <1>1 DEF Rows
<1>7. \A g : g # f => Rows(g)' = Rows(g)
  BY <1>1 DEF Rows
<1>8. \A b \in Actors : HasFiles(op[b])'
  BY <1>4, <1>5 DEF HasFiles
<1>9. ASSUME NEW g \in finished' \ raced' PROVE \E id \in Actors : Rows(g)' = RowsOf[g][id]
  <2>1. g # f /\ g \in finished \ raced
    BY <1>1, <1>9
  <2> QED
    BY <1>7, <2>1 DEF BackfillInv
<1>10. ASSUME NEW b \in Actors, op'[b].kind = "copy", op'[b].file \notin raced', NEW g, g = op'[b].file
       PROVE  /\ g \notin finished'
              /\ Rows(g)' = Written(g, b, op'[b].row)
              /\ \A c \in Actors \ {b} : op'[c].kind = "copy" => op'[c].file # g
  <2>1. CASE b = a
    <3>1. g = f /\ ~CopiedByOther(a, f)
      BY <1>1, <1>4, <1>5, <1>10, <2>1
    <3>2. Written(f, a, 1) = {}
      BY <1>3, RowsOfFile DEF Written
    <3>3. \A c \in Actors \ {a} : op'[c].kind = "copy" => op'[c].file # f
      BY <1>5, <3>1 DEF CopiedByOther
    <3> QED
      BY <1>1, <1>4, <1>5, <1>6, <2>1, <3>1, <3>2, <3>3
  <2>2. CASE b # a
    <3>1. op[b] = op'[b] /\ op[b].kind = "copy"
      BY <1>5, <1>10, <2>2
    <3>2. g # f
      BY <1>1, <1>10, <2>2, <3>1 DEF CopiedByOther
    <3>3. g \notin raced
      BY <1>1, <1>10, <3>2
    <3>4. g \notin finished /\ Rows(g) = Written(g, b, op[b].row)
      BY <1>10, <3>1, <3>3 DEF BackfillInv
    <3>5. \A c \in Actors \ {b} : op[c].kind = "copy" => op[c].file # g
      BY <1>10, <3>1, <3>3 DEF BackfillInv
    <3>6. \A c \in Actors \ {b} : op'[c].kind = "copy" => op'[c].file # g
      BY <1>4, <1>5, <3>2, <3>5
    <3> QED
      BY <1>1, <1>7, <3>1, <3>2, <3>4, <3>6
  <2> QED
    BY <2>1, <2>2
<1>11. finished' \subseteq Tabular
  BY <1>1 DEF BackfillInv
<1> QED
  BY <1>8, <1>9, <1>10, <1>11 DEF BackfillInv, Written

LEMMA BackfillCopies ==
    ASSUME Shape, BackfillInv, NEW a \in Actors, BackfillCopy(a)
    PROVE  BackfillInv'
<1>1. PICK f, k : f = op[a].file /\ k = op[a].row
  OBVIOUS
<1>2. PICK o : o = [op[a] EXCEPT !.row = @ + 1]
  OBVIOUS
<1>3. /\ op[a].kind = "copy"
      /\ k <= Len(Parsed[f].table.rows)
      /\ records' = records \cup {r \in RowsOf[f][a] : r.row = k}
      /\ SetOpDisturbing(a, o)
      /\ raced' = raced /\ finished' = finished
  BY <1>1, <1>2 DEF BackfillCopy, copyVars
<1>4. HasFiles(op[a]) /\ f \in Tabular /\ k \in Nat \ {0}
  BY <1>1, <1>3 DEF BackfillInv, HasFiles
<1>5. HasFiles(o) /\ o.kind = "copy" /\ o.file = f /\ o.row = k + 1
  BY <1>1, <1>2, <1>3, <1>4 DEF HasFiles
<1>6. /\ op'[a] = o
      /\ \A b \in Actors \ {a} :
           HasFiles(op'[b]) /\ op'[b].kind = op[b].kind /\ (op[b].kind = "copy" => op'[b] = op[b])
  BY <1>3, OthersAfter
<1>7. \A r \in RowsOf[f][a] : r.file = f /\ r.row \in 1..Len(Parsed[f].table.rows)
  BY <1>4, RowsOfFile
<1>8. \A g : g # f => Rows(g)' = Rows(g)
  BY <1>3, <1>7 DEF Rows
<1>9. \A b \in Actors : HasFiles(op[b])'
  BY <1>5, <1>6 DEF HasFiles
<1>10. f \notin raced =>
         /\ f \notin finished
         /\ Rows(f)' = Written(f, a, k + 1)
         /\ \A b \in Actors \ {a} : op[b].kind = "copy" => op[b].file # f
  <2>1. f \notin raced =>
          /\ f \notin finished
          /\ Rows(f) = Written(f, a, k)
          /\ \A b \in Actors \ {a} : op[b].kind = "copy" => op[b].file # f
    BY <1>1, <1>3 DEF BackfillInv
  <2>2. Rows(f)' = Rows(f) \cup {r \in RowsOf[f][a] : r.row = k}
    BY <1>3, <1>7 DEF Rows
  <2>3. Len(Parsed[f].table.rows) \in Nat
    BY <1>4, TablesOfOld DEF IsTable
  <2>4. Written(f, a, k) \cup {r \in RowsOf[f][a] : r.row = k} = Written(f, a, k + 1)
    BY <1>4, <1>7, <2>3 DEF Written
  <2> QED
    BY <2>1, <2>2, <2>4
<1>11. ASSUME NEW g \in finished' \ raced' PROVE \E id \in Actors : Rows(g)' = RowsOf[g][id]
  <2>1. g # f /\ g \in finished \ raced
    BY <1>3, <1>10, <1>11
  <2> QED
    BY <1>8, <2>1 DEF BackfillInv
<1>12. ASSUME NEW b \in Actors, op'[b].kind = "copy", op'[b].file \notin raced', NEW g, g = op'[b].file
       PROVE  /\ g \notin finished'
              /\ Rows(g)' = Written(g, b, op'[b].row)
              /\ \A c \in Actors \ {b} : op'[c].kind = "copy" => op'[c].file # g
  <2>1. CASE b = a
    BY <1>3, <1>5, <1>6, <1>10, <1>12, <2>1
  <2>2. CASE b # a
    <3>1. op[b] = op'[b] /\ op[b].kind = "copy" /\ g \notin raced
      BY <1>3, <1>6, <1>12, <2>2
    <3>2. /\ g \notin finished
          /\ Rows(g) = Written(g, b, op[b].row)
          /\ \A c \in Actors \ {b} : op[c].kind = "copy" => op[c].file # g
      BY <1>12, <3>1 DEF BackfillInv
    <3>3. g # f
      BY <1>1, <1>3, <2>2, <3>2
    <3>4. \A c \in Actors \ {b} : op'[c].kind = "copy" => op'[c].file # g
      BY <1>5, <1>6, <3>2, <3>3
    <3> QED
      BY <1>3, <1>8, <3>1, <3>2, <3>3, <3>4
  <2> QED
    BY <2>1, <2>2
<1>13. finished' \subseteq Tabular
  BY <1>3 DEF BackfillInv
<1> QED
  BY <1>9, <1>11, <1>12, <1>13 DEF BackfillInv, Written

LEMMA BackfillGoesOn ==
    ASSUME Shape, BackfillInv, NEW a \in Actors, BackfillNext(a)
    PROVE  BackfillInv'
<1>1. PICK f, o : f = op[a].file /\ o = [kind |-> "clear", left |-> {}, todo |-> op[a].todo]
  OBVIOUS
<1>2. /\ op[a].kind = "copy"
      /\ op[a].row > Len(Parsed[f].table.rows)
      /\ SetOp(a, o)
      /\ finished' = finished \cup {f}
      /\ records' = records /\ raced' = raced
  BY <1>1 DEF BackfillNext, contentVars
<1>3. f \in Tabular /\ op[a].row \in Nat /\ op[a].todo \subseteq Tabular
  BY <1>1, <1>2 DEF BackfillInv, HasFiles
<1>4. HasFiles(o) /\ o.kind = "clear"
  BY <1>1, <1>3 DEF HasFiles
<1>5. op'[a] = o /\ \A b \in Actors \ {a} : op'[b] = op[b]
  BY <1>2 DEF SetOp, Shape
<1>6. \A b \in Actors : HasFiles(op[b])'
  BY <1>4, <1>5 DEF HasFiles, BackfillInv
<1>7. \A g : Rows(g)' = Rows(g)
  BY <1>2 DEF Rows
<1>8. f \notin raced => Rows(f) = RowsOf[f][a]
  <2>1. Len(Parsed[f].table.rows) \in Nat
    BY <1>3, TablesOfOld DEF IsTable
  <2>2. Written(f, a, op[a].row) = RowsOf[f][a]
    BY <1>2, <1>3, <2>1, RowsOfFile DEF Written
  <2> QED
    BY <1>1, <1>2, <2>2 DEF BackfillInv
<1>9. ASSUME NEW g \in finished' \ raced' PROVE \E id \in Actors : Rows(g)' = RowsOf[g][id]
  BY <1>2, <1>7, <1>8, <1>9 DEF BackfillInv
<1>10. ASSUME NEW b \in Actors, op'[b].kind = "copy", op'[b].file \notin raced', NEW g, g = op'[b].file
       PROVE  /\ g \notin finished'
              /\ Rows(g)' = Written(g, b, op'[b].row)
              /\ \A c \in Actors \ {b} : op'[c].kind = "copy" => op'[c].file # g
  <2>1. b # a /\ op[b] = op'[b] /\ op[b].kind = "copy" /\ g \notin raced
    BY <1>2, <1>4, <1>5, <1>10
  <2>2. /\ g \notin finished
        /\ Rows(g) = Written(g, b, op[b].row)
        /\ \A c \in Actors \ {b} : op[c].kind = "copy" => op[c].file # g
    BY <1>10, <2>1 DEF BackfillInv
  <2>3. g # f
    BY <1>1, <1>2, <2>1, <2>2
  <2>4. \A c \in Actors \ {b} : op'[c].kind = "copy" => op'[c].file # g
    BY <1>4, <1>5, <2>2
  <2> QED
    BY <1>2, <1>7, <2>1, <2>2, <2>3, <2>4
<1>11. finished' \subseteq Tabular
  BY <1>2, <1>3 DEF BackfillInv
<1> QED
  BY <1>6, <1>9, <1>10, <1>11 DEF BackfillInv, Written
LEMMA BackfillChecks ==
    ASSUME Shape, BackfillInv, NEW a \in Actors, BackfillCheck(a)
    PROVE  BackfillInv'
<1>1. op[a].kind = "check" /\ HasFiles(op[a]) /\ UNCHANGED <<records, copyVars>>
  BY DEF BackfillCheck, BackfillInv, contentVars
<1>3. HasFiles([op[a] EXCEPT !.kind = "clear"]) /\ [op[a] EXCEPT !.kind = "clear"].kind # "copy"
  BY <1>1 DEF HasFiles
<1>4. PICK o : SetOp(a, o) /\ HasFiles(o) /\ o.kind # "copy"
  <2>1. CASE SetOp(a, [op[a] EXCEPT !.kind = "clear"])
    BY <1>3, <2>1
  <2>2. CASE ~SetOp(a, [op[a] EXCEPT !.kind = "clear"])
    <3>1. PICK f \in op[a].left :
            SetOp(a, [op[a] EXCEPT !.left = @ \ {f},
                                   !.todo = @ \cup (IF f \in Tabular /\ records = {} THEN {f} ELSE {})])
      BY <2>2 DEF BackfillCheck
    <3>e. PICK e \in SUBSET Tabular : e = (IF f \in Tabular /\ records = {} THEN {f} ELSE {})
      OBVIOUS
    <3>2. PICK l, s : l = op[a].left \ {f} /\ s = op[a].todo \cup e
      OBVIOUS
    <3>3. PICK o : o = [op[a] EXCEPT !.left = l, !.todo = s]
      OBVIOUS
    <3>4. SetOp(a, o)
      BY <3>1, <3>e, <3>2, <3>3
    <3>5. s \subseteq Tabular
      BY <1>1, <3>2 DEF HasFiles
    <3>6. HasFiles(o) /\ o.kind # "copy"
      BY <1>1, <3>3, <3>5 DEF HasFiles
    <3> QED
      BY <3>4, <3>6
  <2> QED
    BY <2>1, <2>2
<1> QED
  BY <1>1, <1>4, BackfillOther

\* A file that was ingested has no rows to write.
LEMMA BackfillRemoved ==
    ASSUME Shape, NewFiles, BackfillInv, NEW f, RemoveFile(f)
    PROVE  BackfillInv'
<1>1. f \notin Legacy /\ records' = records \ Rows(f) /\ UNCHANGED copyVars
  BY DEF RemoveFile, NewFiles
<1>2. \A g \in Tabular : Rows(g)' = Rows(g)
  BY <1>1 DEF Rows, Tabular
<1>3. \A b \in Actors :
        HasFiles(op'[b]) /\ op'[b].kind = op[b].kind /\ (op[b].kind = "copy" => op'[b] = op[b])
  <2>1. \A b \in Actors : HasShape(op[b]) /\ HasFiles(op[b]) /\ op'[b] = Disturb(op[b])
    BY DEF RemoveFile, Shape, BackfillInv
  <2> QED
    BY <2>1, DisturbCopy
<1>4. \A b \in Actors : HasFiles(op[b])'
  BY <1>3 DEF HasFiles
<1>5. finished' \subseteq Tabular /\ \A g \in finished' \ raced' : \E id \in Actors : Rows(g)' = RowsOf[g][id]
  BY <1>1, <1>2 DEF BackfillInv, copyVars
<1>6. ASSUME NEW a \in Actors, op'[a].kind = "copy", op'[a].file \notin raced'
      PROVE  /\ op'[a].file \notin finished'
             /\ Rows(op[a].file)' = Written(op[a].file, a, op[a].row)'
             /\ \A b \in Actors \ {a} : op'[b].kind = "copy" => op'[b].file # op'[a].file
  <2>1. op'[a] = op[a] /\ op[a].kind = "copy" /\ raced' = raced /\ finished' = finished
    BY <1>1, <1>3, <1>6 DEF copyVars
  <2>2. /\ op[a].file \notin finished
        /\ Rows(op[a].file) = Written(op[a].file, a, op[a].row)
        /\ \A b \in Actors \ {a} : op[b].kind = "copy" => op[b].file # op[a].file
    BY <1>6, <2>1 DEF BackfillInv
  <2>3. op[a].file \in Tabular
    BY <2>1 DEF BackfillInv, HasFiles
  <2>4. PICK g \in Tabular : g = op[a].file /\ g = op'[a].file
    BY <2>1, <2>3
  <2>5. Rows(op[a].file)' = Rows(op[a].file) /\ Written(op[a].file, a, op[a].row)' = Written(op[a].file, a, op[a].row)
    <3>1. Rows(op[a].file)' = Rows(g)'
      BY <2>4 DEF Rows
    <3>2. Rows(g)' = Rows(g)
      BY <1>2
    <3>3. Written(op[a].file, a, op[a].row)' = Written(op[a].file, a, op[a].row)
      BY <2>1 DEF Written
    <3> QED
      BY <2>4, <3>1, <3>2, <3>3
  <2> QED
    BY <1>3, <2>1, <2>2, <2>5
<1> QED
  BY <1>4, <1>5, <1>6 DEF BackfillInv

\* An operation of a request.
Counts(o) == o.kind \in Counting

LEMMA BackfillInit == Init => BackfillInv
<1> SUFFICES ASSUME Init PROVE BackfillInv
  OBVIOUS
<1>1. op = [a \in Actors |-> Idle] /\ finished = {}
  BY DEF Init
<1> QED
  BY <1>1 DEF BackfillInv, HasFiles, Idle

LEMMA BackfillStep == Shape /\ NewFiles /\ BackfillInv /\ [Next]_vars => BackfillInv'
<1> SUFFICES ASSUME Shape, NewFiles, BackfillInv, [Next]_vars PROVE BackfillInv'
  OBVIOUS
<1> USE DEF contentVars
<1>1. CASE UNCHANGED vars \/ \E f \in Files : Ingest(f)
  <2>1. UNCHANGED <<records, copyVars, op>>
    BY <1>1 DEF vars, Ingest
  <2> QED
    BY <2>1, BackfillKept DEF BackfillInv
<1>2. ASSUME NEW a \in Actors, RequestLoad(a) PROVE BackfillInv'
  BY <1>2, BackfillOther DEF RequestLoad, Begin, HasFiles
<1>3. ASSUME NEW a \in Actors, CountMatching(a) \/ CountTotal(a) \/ CountFiles(a) PROVE BackfillInv'
  <2>1. UNCHANGED <<records, copyVars>> /\ op[a].kind \in Counting /\ HasShape(op[a])
    BY <1>3 DEF CountMatching, CountTotal, CountFiles, Shape, Counting
  <2>2. PICK o : SetOp(a, o) /\ Counts(o)
    <3> USE <2>1 DEF Counting
    <3>1. ASSUME NEW x, NEW k \in Counting
          PROVE  Counts([op[a] EXCEPT !.kind = k, !.request.matching = x])
      BY DEF HasShape, Counts
    <3>2. ASSUME NEW x, NEW k \in Counting
          PROVE  Counts([op[a] EXCEPT !.kind = k, !.request.total = x])
      BY DEF HasShape, Counts
    <3>3. ASSUME NEW x, NEW y, NEW k \in Counting
          PROVE  Counts([op[a] EXCEPT !.kind = k, !.request.matching = x, !.request.total = y])
      BY DEF HasShape, Counts
    <3>4. CASE CountMatching(a)
      BY <3>1, <3>4 DEF CountMatching
    <3>5. CASE CountTotal(a)
      BY <3>2, <3>5 DEF CountTotal
    <3>6. CASE CountFiles(a)
      BY <3>3, <3>6 DEF CountFiles
    <3> QED
      BY <1>3, <3>4, <3>5, <3>6
  <2>4. HasFiles(o) /\ o.kind # "copy"
    BY <2>2 DEF HasFiles, Counts, Counting
  <2> QED
    BY <2>1, <2>2, <2>4, BackfillOther
<1>4. ASSUME NEW a \in Actors, RequestCommit(a) \/ ReviewCount(a) \/ ReviewCommit(a) PROVE BackfillInv'
  BY <1>4, BackfillOther DEF RequestCommit, ReviewCount, ReviewCommit, Begin, Idle, HasFiles
<1>5. ASSUME NEW a \in Actors, BackfillStart(a) PROVE BackfillInv'
  <2>1. PICK o : o = [kind |-> "check", left |-> Legacy, todo |-> {}]
    OBVIOUS
  <2>2. HasFiles(o) /\ o.kind # "copy"
    BY <2>1 DEF HasFiles
  <2> QED
    BY <1>5, <2>1, <2>2, BackfillOther DEF BackfillStart, Begin
<1>6. ASSUME NEW a \in Actors, BackfillDone(a) \/ Lost(a) PROVE BackfillInv'
  BY <1>6, BackfillOther DEF BackfillDone, Lost, Idle, HasFiles
<1>7. ASSUME NEW a \in Actors, RolesLoad(a) \/ RolesCommit(a) PROVE BackfillInv'
  BY <1>7, BackfillOther DEF RolesLoad, RolesCommit, Begin, Idle, HasFiles
<1> QED
  BY <1>1, <1>2, <1>3, <1>4, <1>5, <1>6, <1>7,
     BackfillRemoved, BackfillChecks, BackfillClears, BackfillCopies, BackfillGoesOn DEF Next

\* What a copy has done so far, and when it has finished, for as long as no two copies
\* have met: the rows of a file are those one actor writes (backfill_parquet.py).
THEOREM BackfillCorrect == Spec => [](Shape /\ NewFiles /\ BackfillInv)
<1>1. Init => Shape /\ NewFiles /\ BackfillInv
  BY ShapeInit, NewFilesInit, BackfillInit
<1>2. Shape /\ NewFiles /\ BackfillInv /\ [Next]_vars => (Shape /\ NewFiles /\ BackfillInv)'
  BY ShapeStep, NewFilesStep, BackfillStep
<1> QED
  BY <1>1, <1>2, PTL DEF Spec
-----------------------------------------------------------------------------
(* A table and its rows                                                    *)

\* A coordinate's cell is that of the named column.
LEMMA CoordinateCell ==
    ASSUME NEW t, NEW f, SameInBothTiers(t, f), NEW i, NEW v, NEW role \in CoordColumns(t)
    PROVE  /\ role \in MeltedColumns(t)
           /\ t.named[role] # None
           /\ MeltedAs(t, i, v).cell[role] = t.rows[i][t.named[role]]
<1>1. role \in Roles /\ ResolveCoordCol(t, role) = t.named[role] /\ t.named[role] # None
  BY DEF CoordColumns, SameInBothTiers
<1>2. role \in MeltedColumns(t)
  BY DEF MeltedColumns
<1>3. role \in ViewColumns(t)
  BY <1>1, <1>2 DEF ViewColumns, SameInBothTiers
<1>4. ~RawTimeIsDatenum(t)
  BY DEF RawTimeIsDatenum, SameInBothTiers, Roles
<1>5. CoordinateAlias(t, t.rows[i], role) = t.rows[i][t.named[role]]
  BY <1>1, <1>4 DEF CoordinateAlias
<1> QED
  BY <1>1, <1>2, <1>3, <1>5 DEF MeltedAs

LEMMA RecordFields ==
    ASSUME NEW t, NEW file, NEW i, NEW v, NEW id, NEW r, r = RecordOf(t, file, i, v, id)
    PROVE  /\ r.row = i /\ r.parameter = v /\ r.value = t.rows[i][v]
           /\ r.time = ResolveRowTime(t, t.rows[i])
           /\ r.lat = IF HasLatLon(t, t.rows[i]) THEN t.rows[i][t.named["lat"]] ELSE None
           /\ r.lon = IF HasLatLon(t, t.rows[i]) THEN t.rows[i][t.named["lon"]] ELSE None
           /\ r.depth_m = IF t.named["depth_m"] = None THEN None ELSE t.rows[i][t.named["depth_m"]]
           /\ r.label["station"] = None
BY DEF RecordOf, Labels

LEMMA DatesAgree ==
    ASSUME NEW t, IsTable(t), NEW f \in Filter, SameInBothTiers(t, f),
           NEW i \in DOMAIN t.rows, NEW v, NEW m, m = MeltedAs(t, i, v)
    PROVE  ("time" \in MeltedColumns(t) =>
              /\ f.from # None => m.cell["time"] # None /\ m.cell["time"] >= f.from * TicksPerDay
              /\ f.to # None => m.cell["time"] # None /\ m.cell["time"] < (f.to + 1) * TicksPerDay)
           <=> Within(ResolveRowTime(t, t.rows[i]), f.from, f.to)
<1>1. CASE f.from = None /\ f.to = None
  BY <1>1 DEF Within, AtLeast, AtMost
<1>2. CASE ~(f.from = None /\ f.to = None)
  <2>1. "time" \in CoordColumns(t)
    BY <1>2 DEF SameInBothTiers, FilterColumns
  <2>2. PICK x : x = t.rows[i][t.named["time"]]
    OBVIOUS
  <2>3. "time" \in MeltedColumns(t) /\ t.named["time"] # None /\ m.cell["time"] = x
    BY <2>1, <2>2, CoordinateCell
  <2>4. x \in OrNone(Int)
    BY <2>2, <2>3 DEF IsTable, ResolveCoordCol
  <2>5. ResolveRowTime(t, t.rows[i]) = Day(x)
    BY <2>2, <2>3 DEF ResolveRowTime, SameInBothTiers
  <2>6. f.from \in OrNone(Int) /\ f.to \in OrNone(Int) /\ None \notin Int
    BY ObservationsAssumption DEF Filter
  <2>7. CASE x = None
    BY <2>3, <2>5, <2>7 DEF Day, Within, AtLeast, AtMost
  <2>8. CASE x \in Int
    <3>1. Day(x) = x \div TicksPerDay /\ Day(x) \in Int /\ Day(x) # None /\ x # None
      BY <2>6, <2>8, DayBounds DEF Day
    <3>2. f.from # None => (Day(x) >= f.from <=> x >= f.from * TicksPerDay)
      BY <2>6, <2>8, <3>1, DayBounds DEF OrNone
    <3>3. f.to # None => (Day(x) <= f.to <=> x < (f.to + 1) * TicksPerDay)
      BY <2>6, <2>8, <3>1, DayBounds DEF OrNone
    <3> HIDE <2>6, <2>8
    <3> QED
      BY <2>3, <2>5, <3>1, <3>2, <3>3 DEF Within, AtLeast, AtMost
  <2> QED
    BY <2>4, <2>7, <2>8 DEF OrNone
<1> QED
  BY <1>1, <1>2

LEMMA WhereAgrees ==
    ASSUME NEW t, IsTable(t), NEW f \in Filter, SameInBothTiers(t, f),
           NEW i \in DOMAIN t.rows, NEW v, NEW file, NEW id,
           NEW m, m = MeltedAs(t, i, v), NEW r, r = RecordOf(t, file, i, v, id)
    PROVE  BuildWhere(t, m, f) <=> RecordMatches(r, f)
<1>1. m.parameter = v /\ r.parameter = v
  BY RecordFields DEF MeltedAs
<1>2. \A c \in Labels : f.label[c] = None
  BY DEF SameInBothTiers, FilterColumns, CoordColumns, Labels, Roles
<1>3. ("time" \in MeltedColumns(t) =>
              /\ f.from # None => m.cell["time"] # None /\ m.cell["time"] >= f.from * TicksPerDay
              /\ f.to # None => m.cell["time"] # None /\ m.cell["time"] < (f.to + 1) * TicksPerDay)
           <=> Within(r.time, f.from, f.to)
  BY DatesAgree, RecordFields
<1>4. ("depth_m" \in MeltedColumns(t) => Within(m.cell["depth_m"], f.depthMin, f.depthMax))
        <=> Within(r.depth_m, f.depthMin, f.depthMax)
  <2>1. CASE f.depthMin = None /\ f.depthMax = None
    BY <2>1 DEF Within, AtLeast, AtMost
  <2>2. CASE ~(f.depthMin = None /\ f.depthMax = None)
    <3>1. "depth_m" \in CoordColumns(t)
      BY <2>2 DEF SameInBothTiers, FilterColumns
    <3> QED
      BY <3>1, CoordinateCell, RecordFields
  <2> QED
    BY <2>1, <2>2
<1>5. ({"lat", "lon"} \subseteq MeltedColumns(t) /\ HasBox(f) => InBox(f, m.cell["lat"], m.cell["lon"]))
        <=> (HasBox(f) => InBox(f, r.lat, r.lon))
  <2> SUFFICES ASSUME HasBox(f) PROVE <1>5!1 <=> <1>5!2
    OBVIOUS
  <2>1. "lat" \in CoordColumns(t) /\ "lon" \in CoordColumns(t)
    BY DEF SameInBothTiers, FilterColumns
  <2>2. HasLatLon(t, t.rows[i])
    BY <2>1 DEF SameInBothTiers
  <2>3. /\ "lat" \in MeltedColumns(t) /\ m.cell["lat"] = t.rows[i][t.named["lat"]]
        /\ "lon" \in MeltedColumns(t) /\ m.cell["lon"] = t.rows[i][t.named["lon"]]
    BY <2>1, CoordinateCell
  <2>4. r.lat = t.rows[i][t.named["lat"]] /\ r.lon = t.rows[i][t.named["lon"]]
    BY <2>2, RecordFields
  <2> QED
    BY <2>3, <2>4
<1> QED
  BY <1>1, <1>2, <1>3, <1>4, <1>5 DEF BuildWhere, RecordMatches

\* The record of an observation.
Rec(t, file, id, m) == RecordOf(t, file, m.row, m.parameter, id)

\* Observations and records correspond, one to one.
LEMMA Corresponds ==
    ASSUME NEW t, IsTable(t), NEW f, SameInBothTiers(t, f), NEW file, NEW id
    PROVE  /\ \A m \in BaseMelted(t) :
                /\ Rec(t, file, id, m) \in WriteDatasetRecords(t, file, id)
                /\ Rec(t, file, id, m).row = m.row
                /\ Rec(t, file, id, m).parameter = m.parameter
                /\ Rec(t, file, id, m).value = m.value
                /\ m.row \in DOMAIN t.rows
                /\ m.parameter \in VariableColumns(t)
                /\ m = MeltedAs(t, m.row, m.parameter)
                /\ m.value \in Int
           /\ \A r \in WriteDatasetRecords(t, file, id) : \E m \in BaseMelted(t) : r = Rec(t, file, id, m)
<1>1. VariableColumns(t) = RecordVariables(t) \cap t.numeric /\ HasDimensions(t)
  BY DEF SameInBothTiers
<1>2. \A i \in DOMAIN t.rows : ResolveRowTime(t, t.rows[i]) # None \/ HasLatLon(t, t.rows[i])
  BY DEF SameInBothTiers
<1>3. \A r : r \in WriteDatasetRecords(t, file, id) <=>
         \E i \in DOMAIN t.rows, v \in VariableColumns(t) :
             t.rows[i][v] # None /\ r = RecordOf(t, file, i, v, id)
  <2>1. PICK Q : Q = {q \in (DOMAIN t.rows) \X VariableColumns(t) :
                        /\ t.rows[q[1]][q[2]] # None
                        /\ ResolveRowTime(t, t.rows[q[1]]) # None \/ HasLatLon(t, t.rows[q[1]])}
    OBVIOUS
  <2>2. WriteDatasetRecords(t, file, id) = {RecordOf(t, file, p[1], p[2], id) : p \in Q}
    BY <1>1, <2>1 DEF WriteDatasetRecords
  <2>3. ASSUME NEW i \in DOMAIN t.rows, NEW v \in VariableColumns(t), t.rows[i][v] # None
        PROVE  RecordOf(t, file, i, v, id) \in WriteDatasetRecords(t, file, id)
    <3>q. PICK q : q = <<i, v>>
      OBVIOUS
    <3>1. q \in (DOMAIN t.rows) \X VariableColumns(t) /\ q[1] = i /\ q[2] = v
      BY <2>3, <3>q
    <3>2. q \in Q
      BY <1>2, <2>1, <2>3, <3>1
    <3> QED
      BY <2>2, <3>1, <3>2
  <2>4. ASSUME NEW r \in WriteDatasetRecords(t, file, id)
        PROVE  \E i \in DOMAIN t.rows, v \in VariableColumns(t) :
                   t.rows[i][v] # None /\ r = RecordOf(t, file, i, v, id)
    <3>1. PICK q \in Q : r = RecordOf(t, file, q[1], q[2], id)
      BY <2>2
    <3>2. q[1] \in DOMAIN t.rows /\ q[2] \in VariableColumns(t) /\ t.rows[q[1]][q[2]] # None
      BY <2>1
    <3> QED
      BY <3>1, <3>2
  <2> QED
    BY <2>3, <2>4
<1>4. ASSUME NEW m \in BaseMelted(t)
      PROVE  /\ Rec(t, file, id, m) \in WriteDatasetRecords(t, file, id)
             /\ Rec(t, file, id, m).row = m.row
             /\ Rec(t, file, id, m).parameter = m.parameter
             /\ Rec(t, file, id, m).value = m.value
             /\ m.row \in DOMAIN t.rows
             /\ m.parameter \in VariableColumns(t)
             /\ m = MeltedAs(t, m.row, m.parameter)
             /\ m.value \in Int
  <2>1. PICK i \in DOMAIN t.rows, v \in VariableColumns(t) : t.rows[i][v] # None /\ m = MeltedAs(t, i, v)
    BY MeltedIs
  <2>2. m.row = i /\ m.parameter = v /\ m.value = t.rows[i][v]
    BY <2>1 DEF MeltedAs
  <2>3. PICK r : r = RecordOf(t, file, i, v, id)
    OBVIOUS
  <2>4. Rec(t, file, id, m) = r
    BY <2>2, <2>3 DEF Rec
  <2>5. r.row = i /\ r.parameter = v /\ r.value = t.rows[i][v]
    BY <2>3, RecordFields
  <2>6. t.rows[i][v] \in Int
    BY <2>1 DEF VariableColumns, IsTable, OrNone
  <2> QED
    BY <1>3, <2>1, <2>2, <2>3, <2>4, <2>5, <2>6
<1>5. ASSUME NEW r \in WriteDatasetRecords(t, file, id)
      PROVE  \E m \in BaseMelted(t) : r = Rec(t, file, id, m)
  <2>1. PICK i \in DOMAIN t.rows, v \in VariableColumns(t) :
               t.rows[i][v] # None /\ r = RecordOf(t, file, i, v, id)
    BY <1>3
  <2>2. PICK m : m = MeltedAs(t, i, v)
    OBVIOUS
  <2>3. m \in BaseMelted(t)
    BY <2>1, <2>2, MeltedIs
  <2>4. m.row = i /\ m.parameter = v
    BY <2>2 DEF MeltedAs
  <2> QED
    BY <2>1, <2>3, <2>4 DEF Rec
<1> QED
  BY <1>4, <1>5

\* So do the selected ones.
LEMMA Matches ==
    ASSUME NEW t, IsTable(t), NEW f \in Filter, SameInBothTiers(t, f), NEW file, NEW id,
           NEW W, W = WriteDatasetRecords(t, file, id),
           NEW b, b = [m \in Matching(t, f) |-> Rec(t, file, id, m)]
    PROVE  b \in Bijection(Matching(t, f), RecordsMatching(W, f))
<1>1. \A m \in BaseMelted(t) : BuildWhere(t, m, f) <=> RecordMatches(Rec(t, file, id, m), f)
  BY Corresponds, WhereAgrees DEF Rec
<1>2. \A m \in Matching(t, f) : m \in BaseMelted(t) /\ b[m] \in RecordsMatching(W, f)
  BY <1>1, Corresponds DEF Matching, RecordsMatching
<1>3. \A m, n \in Matching(t, f) : b[m] = b[n] => m = n
  <2> SUFFICES ASSUME NEW m \in Matching(t, f), NEW n \in Matching(t, f), b[m] = b[n] PROVE m = n
    OBVIOUS
  <2>1. m \in BaseMelted(t) /\ n \in BaseMelted(t) /\ Rec(t, file, id, m) = Rec(t, file, id, n)
    BY <1>2
  <2>2. m.row = n.row /\ m.parameter = n.parameter
    BY <2>1, Corresponds
  <2> QED
    BY <2>1, <2>2, Corresponds
<1>4. \A r \in RecordsMatching(W, f) : \E m \in Matching(t, f) : b[m] = r
  BY <1>1, Corresponds DEF Matching, RecordsMatching
<1> QED
  BY <1>2, <1>3, <1>4 DEF Bijection, Injection, Surjection, IsInjective

LEMMA TierCounts ==
    ASSUME NEW t, IsTable(t), NEW f \in Filter, SameInBothTiers(t, f), NEW file, NEW id
    PROVE  Cardinality(RecordsMatching(WriteDatasetRecords(t, file, id), f)) = TableMatching(t, f)
<1>1. PICK b, W : b = [m \in Matching(t, f) |-> Rec(t, file, id, m)] /\ W = WriteDatasetRecords(t, file, id)
  OBVIOUS
<1>2. b \in Bijection(Matching(t, f), RecordsMatching(W, f))
  BY <1>1, Matches
<1>3. IsFiniteSet(Matching(t, f))
  <2>1. Matching(t, f) \subseteq BaseMelted(t)
    BY DEF Matching
  <2> QED
    BY <2>1, BaseMeltedFinite, FS_Subset
<1>4. Cardinality(RecordsMatching(W, f)) = Cardinality(Matching(t, f))
  BY <1>2, <1>3, FS_Bijection DEF ExistsBijection
<1> QED
  BY <1>1, <1>4 DEF TableMatching

\* S and T are the same values of the same parameters, by b.
SameValues(S, T, b) ==
    /\ b \in Bijection(S, T)
    /\ \A x \in S : b[x].parameter = x.parameter /\ b[x].value = x.value /\ x.value \in Int

LEMMA BijectionFacts ==
    ASSUME NEW S, NEW T, NEW b
    PROVE  b \in Bijection(S, T) <=>
             /\ b \in [S -> T]
             /\ \A x, y \in S : b[x] = b[y] => x = y
             /\ \A y \in T : \E x \in S : b[x] = y
BY DEF Bijection, Injection, Surjection, IsInjective

LEMMA SameValuesOf ==
    ASSUME NEW S, NEW T, NEW b, SameValues(S, T, b), NEW p,
           NEW P, P = {x \in S : x.parameter = p},
           NEW Q, Q = {x \in T : x.parameter = p},
           NEW c, c = [x \in P |-> b[x]]
    PROVE  SameValues(P, Q, c)
<1>2. /\ b \in [S -> T]
      /\ \A x, y \in S : b[x] = b[y] => x = y
      /\ \A y \in T : \E x \in S : b[x] = y
      /\ \A x \in S : b[x].parameter = x.parameter /\ b[x].value = x.value /\ x.value \in Int
  BY BijectionFacts DEF SameValues
<1>3. c \in [P -> Q]
  BY <1>2
<1>4. \A x, y \in P : c[x] = c[y] => x = y
  BY <1>2
<1>5. \A y \in Q : \E x \in P : c[x] = y
  BY <1>2
<1>6. \A x \in P : c[x].parameter = x.parameter /\ c[x].value = x.value /\ x.value \in Int
  BY <1>2
<1> QED
  BY <1>3, <1>4, <1>5, <1>6, BijectionFacts DEF SameValues

\* Whether a value is an outlier depends on the values alone.
LEMMA OutliersOfSame ==
    ASSUME NEW S, NEW T, NEW b, IsFiniteSet(S), SameValues(S, T, b), NEW x \in S
    PROVE  x \in Outliers(S) <=> b[x] \in Outliers(T)
<1>1. b \in Bijection(S, T) /\ b[x] \in T /\ b[x].value = x.value
  BY BijectionFacts DEF SameValues
<1>2. Cardinality(T) = Cardinality(S)
  BY <1>1, FS_Bijection DEF ExistsBijection
<1>3. SumFunction([y \in T |-> y.value]) = SumFunction([y \in S |-> y.value])
  <2>1. PICK f, g : f = [y \in S |-> y.value] /\ g = [y \in T |-> y.value]
    OBVIOUS
  <2>2. \A y \in S : f[y] \in Int /\ g[b[y]] = f[y]
    BY <2>1, BijectionFacts DEF SameValues
  <2>3. SumFunctionOnSet(f, S) = SumFunctionOnSet(g, T)
    BY <1>1, <2>2, SumRenamed
  <2> QED
    BY <2>1, <2>3 DEF SumFunction
<1>4. SumFunction([y \in T |-> y.value * y.value]) = SumFunction([y \in S |-> y.value * y.value])
  <2>1. PICK f, g : f = [y \in S |-> y.value * y.value] /\ g = [y \in T |-> y.value * y.value]
    OBVIOUS
  <2>2. \A y \in S : f[y] \in Int /\ g[b[y]] = f[y]
    BY <2>1, BijectionFacts DEF SameValues
  <2>3. SumFunctionOnSet(f, S) = SumFunctionOnSet(g, T)
    BY <1>1, <2>2, SumRenamed
  <2> QED
    BY <2>1, <2>3 DEF SumFunction
<1> QED
  BY <1>1, <1>2, <1>3, <1>4 DEF Outliers

LEMMA ByParameter ==
    ASSUME NEW S, NEW x, NEW P, P = {y \in S : y.parameter = x.parameter}
    PROVE  x \in OutliersByParameter(S) <=> x \in S /\ x \in Outliers(P)
<1>1. ASSUME x \in OutliersByParameter(S) PROVE x \in S /\ x \in Outliers(P)
  <2>1. PICK p \in {y.parameter : y \in S} : x \in Outliers({y \in S : y.parameter = p})
    BY <1>1 DEF OutliersByParameter
  <2>2. PICK Q : Q = {y \in S : y.parameter = p}
    OBVIOUS
  <2>3. x \in Q /\ x \in Outliers(Q)
    BY <2>1, <2>2 DEF Outliers
  <2>4. x \in S /\ x.parameter = p
    BY <2>2, <2>3
  <2>5. Q = P
    BY <2>2, <2>4
  <2> QED
    BY <2>3, <2>4, <2>5
<1>2. ASSUME x \in S, x \in Outliers(P) PROVE x \in OutliersByParameter(S)
  BY <1>2 DEF OutliersByParameter
<1> QED
  BY <1>1, <1>2

LEMMA OutliersAgree ==
    ASSUME NEW S, NEW T, NEW b, IsFiniteSet(S), SameValues(S, T, b)
    PROVE  Cardinality(OutliersByParameter(S)) = Cardinality(OutliersByParameter(T))
<1>1. /\ b \in [S -> T]
      /\ \A x, y \in S : b[x] = b[y] => x = y
      /\ \A y \in T : \E x \in S : b[x] = y
      /\ \A x \in S : b[x].parameter = x.parameter
  BY BijectionFacts DEF SameValues
<1>2. ASSUME NEW x \in S
      PROVE  x \in OutliersByParameter(S) <=> b[x] \in OutliersByParameter(T)
  <2>1. PICK p, P, Q, c : /\ p = x.parameter
                          /\ P = {y \in S : y.parameter = p}
                          /\ Q = {y \in T : y.parameter = p}
                          /\ c = [y \in P |-> b[y]]
    OBVIOUS
  <2>2. SameValues(P, Q, c)
    BY <2>1, SameValuesOf
  <2>3. x \in P /\ c[x] = b[x] /\ b[x] \in T /\ b[x].parameter = p
    BY <1>1, <2>1
  <2>4. IsFiniteSet(P)
    BY <2>1, FS_Subset
  <2>5. x \in Outliers(P) <=> b[x] \in Outliers(Q)
    BY <2>2, <2>3, <2>4, OutliersOfSame
  <2>6. x \in OutliersByParameter(S) <=> x \in Outliers(P)
    BY <2>1, ByParameter
  <2>7. b[x] \in OutliersByParameter(T) <=> b[x] \in Outliers(Q)
    BY <2>1, <2>3, ByParameter
  <2> QED
    BY <2>5, <2>6, <2>7
<1>3. PICK A, B, c : /\ A = OutliersByParameter(S)
                     /\ B = OutliersByParameter(T)
                     /\ c = [x \in A |-> b[x]]
  OBVIOUS
<1>4. A \subseteq S /\ B \subseteq T
  <2>1. \A x : x \in A => x \in S
    BY <1>3, ByParameter
  <2>2. \A x : x \in B => x \in T
    BY <1>3, ByParameter
  <2> QED
    BY <2>1, <2>2
<1>5. c \in Bijection(A, B)
  <2>1. c \in [A -> B]
    BY <1>2, <1>3, <1>4
  <2>2. \A x, y \in A : c[x] = c[y] => x = y
    BY <1>1, <1>3, <1>4
  <2>3. \A y \in B : \E x \in A : c[x] = y
    BY <1>1, <1>2, <1>3, <1>4
  <2> QED
    BY <2>1, <2>2, <2>3, BijectionFacts
<1>6. IsFiniteSet(A)
  BY <1>4, FS_Subset
<1> QED
  BY <1>3, <1>5, <1>6, FS_Bijection DEF ExistsBijection

LEMMA OutliersInRows ==
    ASSUME NEW t, IsTable(t), NEW f, SameInBothTiers(t, f), NEW file, NEW id
    PROVE  RecordOutliers(WriteDatasetRecords(t, file, id)) = TableOutliers(t)
<1>1. PICK S, T, b : /\ S = BaseMelted(t)
                     /\ T = WriteDatasetRecords(t, file, id)
                     /\ b = [m \in S |-> Rec(t, file, id, m)]
  OBVIOUS
<1>2. SameValues(S, T, b)
  <2>1. \A m \in S : b[m] \in T /\ b[m].parameter = m.parameter /\ b[m].value = m.value /\ m.value \in Int
    BY <1>1, Corresponds
  <2>2. \A m, n \in S : b[m] = b[n] => m = n
    <3> SUFFICES ASSUME NEW m \in S, NEW n \in S, b[m] = b[n] PROVE m = n
      OBVIOUS
    <3>1. Rec(t, file, id, m) = Rec(t, file, id, n)
      BY <1>1
    <3>2. m.row = n.row /\ m.parameter = n.parameter
      BY <1>1, <3>1, Corresponds
    <3> QED
      BY <1>1, <3>2, Corresponds
  <2>3. \A r \in T : \E m \in S : b[m] = r
    BY <1>1, Corresponds
  <2> QED
    BY <1>1, <2>1, <2>2, <2>3, BijectionFacts DEF SameValues
<1>3. IsFiniteSet(S)
  BY <1>1, BaseMeltedFinite
<1> QED
  BY <1>1, <1>2, <1>3, OutliersAgree DEF RecordOutliers, TableOutliers

\* Two observations of one time and station are written as two records of one
\* day and no station.
LEMMA DuplicatesInRows ==
    ASSUME NEW t, IsTable(t), NEW f, SameInBothTiers(t, f), NEW file, NEW id,
           NEW W, W = WriteDatasetRecords(t, file, id),
           TableHasDuplicates(t), \A r \in W : r.time # None
    PROVE  RecordsHaveDuplicates(W)
<1>1. PICK by : by = (CoordColumns(t) \cap {"time"}) \cup ({"station"} \cap t.columns)
  OBVIOUS
<1>2. PICK m, n \in BaseMelted(t) :
        m.row # n.row /\ m.parameter = n.parameter /\ [c \in by |-> m.cell[c]] = [c \in by |-> n.cell[c]]
  BY <1>1 DEF TableHasDuplicates
<1>3. PICK r, s : r = Rec(t, file, id, m) /\ s = Rec(t, file, id, n)
  OBVIOUS
<1>4. /\ r \in W /\ s \in W /\ r.row = m.row /\ s.row = n.row
      /\ r.parameter = m.parameter /\ s.parameter = n.parameter
      /\ m = MeltedAs(t, m.row, m.parameter) /\ n = MeltedAs(t, n.row, n.parameter)
  BY <1>2, <1>3, Corresponds
<1>5. /\ r.time = ResolveRowTime(t, t.rows[m.row]) /\ r.label["station"] = None
      /\ s.time = ResolveRowTime(t, t.rows[n.row]) /\ s.label["station"] = None
  BY <1>3, RecordFields DEF Rec
<1>6. r.time # None /\ t.named["time"] # None
  BY <1>4, <1>5 DEF ResolveRowTime
<1>7. "time" \in CoordColumns(t)
  BY <1>6 DEF CoordColumns, SameInBothTiers, Roles
<1>8. m.cell["time"] = t.rows[m.row][t.named["time"]] /\ n.cell["time"] = t.rows[n.row][t.named["time"]]
  BY <1>4, <1>7, CoordinateCell
<1>9. m.cell["time"] = n.cell["time"]
  <2>1. "time" \in by
    BY <1>1, <1>7
  <2>2. [c \in by |-> m.cell[c]]["time"] = [c \in by |-> n.cell[c]]["time"]
    BY <1>2
  <2> QED
    BY <2>1, <2>2
<1>10. r.time = s.time
  BY <1>5, <1>8, <1>9 DEF ResolveRowTime
<1>11. r # s
  BY <1>2, <1>4
<1> QED
  BY <1>2, <1>4, <1>5, <1>6, <1>10, <1>11 DEF RecordsHaveDuplicates

\* What the script writes of a file is what DuckDB reads of it.
LEMMA WrittenAgrees ==
    ASSUME NEW f \in Tabular, NEW id \in Actors, NEW R, R = RowsOf[f][id]
    PROVE  /\ \A filter \in Comparable[f] :
                Cardinality(RecordsMatching(R, filter)) = FileCounts[f][filter].matching
           /\ Comparable[f] # {} =>
                /\ RecordOutliers(R) = FileQuality[f].outliers
                /\ FileQuality[f].duplicates /\ (\A r \in R : r.time # None) => RecordsHaveDuplicates(R)
<1>1. PICK t : t = Parsed[f].table
  OBVIOUS
<1>2. f \in Files /\ Parsed[f] # None /\ Parsed[f].kind = "table" /\ IsTable(t)
  BY <1>1, TablesOfOld
<1>3. R = WriteDatasetRecords(t, f, id)
  BY <1>1 DEF RowsOf
<1>4. \A filter \in Comparable[f] : filter \in Filters /\ filter \in Filter /\ SameInBothTiers(t, filter)
  BY <1>1, DatasetQueriesAssumption DEF Comparable
<1>5. ASSUME NEW filter \in Comparable[f]
      PROVE  Cardinality(RecordsMatching(R, filter)) = FileCounts[f][filter].matching
  <2>1. filter \in Filters /\ filter \in Filter /\ SameInBothTiers(t, filter)
    BY <1>4
  <2>2. FileCounts[f][filter].matching = TableMatching(t, filter)
    BY <1>1, <1>2, <2>1 DEF FileCounts
  <2> QED
    BY <1>2, <1>3, <2>1, <2>2, TierCounts
<1>6. ASSUME NEW filter \in Comparable[f]
      PROVE  /\ RecordOutliers(R) = FileQuality[f].outliers
             /\ FileQuality[f].duplicates /\ (\A r \in R : r.time # None) => RecordsHaveDuplicates(R)
  <2>1. SameInBothTiers(t, filter)
    BY <1>4
  <2>2. FileQuality[f].outliers = TableOutliers(t) /\ FileQuality[f].duplicates = TableHasDuplicates(t)
    BY <1>1 DEF FileQuality
  <2>3. RecordOutliers(R) = TableOutliers(t)
    BY <1>2, <1>3, <2>1, OutliersInRows
  <2>4. TableHasDuplicates(t) /\ (\A r \in R : r.time # None) => RecordsHaveDuplicates(R)
    BY <1>2, <1>3, <2>1, DuplicatesInRows
  <2> QED
    BY <2>2, <2>3, <2>4
<1> QED
  BY <1>5, <1>6

\* A file that the backfill has finished, one script at a time and whatever was
\* killed before, counts, scans and filters alike in both tiers.
THEOREM TiersAgreeHolds == Spec => []TiersAgree
<1>1. BackfillInv => TiersAgree
  <2> SUFFICES ASSUME BackfillInv PROVE TiersAgree
    OBVIOUS
  <2>1. ASSUME NEW f \in finished \ raced
        PROVE  /\ \A filter \in Comparable[f] :
                    Cardinality(RecordsMatching(Rows(f), filter)) = FileCounts[f][filter].matching
               /\ Comparable[f] # {} =>
                    /\ RecordOutliers(Rows(f)) = FileQuality[f].outliers
                    /\ FileQuality[f].duplicates /\ (\A r \in Rows(f) : r.time # None)
                         => RecordsHaveDuplicates(Rows(f))
    <3>1. f \in Tabular
      BY DEF BackfillInv
    <3>2. PICK id \in Actors : Rows(f) = RowsOf[f][id]
      BY DEF BackfillInv
    <3> QED
      BY <3>1, <3>2, WrittenAgrees
  <2> QED
    BY <2>1 DEF TiersAgree
<1> QED
  BY <1>1, BackfillCorrect, PTL

-----------------------------------------------------------------------------
(* Types                                                                   *)

\* What a query counts in a file.
LEMMA FileCountsNat ==
    ASSUME NEW f \in Files, NEW filter \in Filters
    PROVE  FileCounts[f][filter].matching \in Nat /\ FileCounts[f][filter].total \in Nat
<1>1. PICK p : p = Parsed[f]
  OBVIOUS
<1>2. PICK c : c = FileCounts[f][filter]
  OBVIOUS
<1>3. p # None => /\ p.kind = "table" => IsTable(p.table)
                  /\ p.kind = "grid" => IsGrid(p.ds)
  BY <1>1, DatasetQueriesAssumption DEF WellFormed
<1>4. CASE p # None /\ p.kind = "table"
  <2>1. c = [matching |-> TableMatching(p.table, filter), total |-> TableTotal(p.table)]
    BY <1>1, <1>2, <1>4 DEF FileCounts
  <2> QED
    BY <1>2, <1>3, <1>4, <2>1, TableCounts
<1>5. CASE p # None /\ p.kind = "grid"
  <2>1. c = [matching |-> GridMatching(p.ds, p.variables, filter), total |-> GridTotal(p.ds, p.variables)]
    BY <1>1, <1>2, <1>5 DEF FileCounts
  <2> QED
    BY <1>2, <1>3, <1>5, <2>1, GridCounts
<1>6. CASE p = None \/ p.kind \notin {"table", "grid"}
  <2>1. CASE p = None
    <3>1. c = [matching |-> 0, total |-> 0]
      BY <1>1, <1>2, <2>1 DEF FileCounts
    <3> QED
      BY <1>2, <3>1
  <2>2. CASE p # None /\ p.kind \notin {"table", "grid"}
    <3>1. c = [matching |-> 0, total |-> 0]
      BY <1>1, <1>2, <2>2 DEF FileCounts
    <3> QED
      BY <1>2, <3>1
  <2> QED
    BY <1>6, <2>1, <2>2
<1> QED
  BY <1>4, <1>5, <1>6

\* What a counted request has.
HasCounts(o) ==
    /\ o.kind \in {"total", "files", "commit"} => o.request.matching \in Nat
    /\ o.kind \in {"files", "commit"} => o.request.total \in Nat

OperationOK(o) == o \in Operation /\ HasCounts(o)

LEMMA CountingIs ==
    ASSUME NEW o \in Operation, o.kind \in Counting
    PROVE  /\ o.request \in Request
           /\ o = [kind |-> o.kind, request |-> o.request]
BY DEF Operation, Counting, Idle

LEMMA CountingIsOperation ==
    ASSUME NEW k \in Counting, NEW r \in Request
    PROVE  [kind |-> k, request |-> r] \in Operation
BY DEF Operation, Counting

LEMMA RequestChanged ==
    ASSUME NEW r \in Request
    PROVE  /\ \A n \in OrNone(Nat) : [r EXCEPT !.matching = n] \in Request
           /\ \A n \in OrNone(Nat) : [r EXCEPT !.total = n] \in Request
           /\ \A m, n \in OrNone(Nat) : [r EXCEPT !.matching = m, !.total = n] \in Request
           /\ [r EXCEPT !.quiet = FALSE] \in Request
           /\ r.filter \in Criteria
BY DEF Request

LEMMA DisturbedOK ==
    ASSUME NEW o, OperationOK(o)
    PROVE  OperationOK(Disturb(o))
<1>1. CASE o.kind \in Counting
  <2>1. PICK k, r, q : k = o.kind /\ r = o.request /\ q = [r EXCEPT !.quiet = FALSE]
    OBVIOUS
  <2>2. r \in Request /\ o = [kind |-> k, request |-> r]
    BY <1>1, <2>1, CountingIs DEF OperationOK
  <2>3. q \in Request /\ q.matching = r.matching /\ q.total = r.total
    BY <2>1, <2>2, RequestChanged DEF Request
  <2>4. Disturb(o) = [kind |-> k, request |-> q]
    BY <1>1, <2>1, <2>2 DEF Disturb, Counting
  <2>5. PICK d : d = [kind |-> k, request |-> q]
    OBVIOUS
  <2>6. d \in Operation
    BY <1>1, <2>1, <2>3, <2>5, CountingIsOperation
  <2>7. HasCounts(d)
    <3>1. d.kind = o.kind /\ d.request.matching = o.request.matching /\ d.request.total = o.request.total
      BY <2>1, <2>3, <2>5
    <3> QED
      BY <3>1 DEF OperationOK, HasCounts
  <2> QED
    BY <2>4, <2>5, <2>6, <2>7 DEF OperationOK
<1>2. CASE o.kind \notin Counting
  BY <1>2 DEF Disturb, Counting
<1> QED
  BY <1>1, <1>2

-----------------------------------------------------------------------------


LEMMA RowsFinite ==
    ASSUME NEW f \in Tabular, NEW id \in Actors \cup {None}
    PROVE  IsFiniteSet(RowsOf[f][id]) /\ RowsOf[f][id] \subseteq PossibleRows
<1>1. PICK t, W : t = Parsed[f].table /\ W = RowsOf[f][id]
  OBVIOUS
<1>2. W = WriteDatasetRecords(t, f, id) /\ IsTable(t)
  BY <1>1, TablesOfOld DEF RowsOf
<1>3. W \subseteq PossibleRows
  BY <1>1 DEF PossibleRows
<1>4. PICK P, g : /\ P = (DOMAIN t.rows) \X (RecordVariables(t) \cap t.numeric)
                  /\ g = [p \in P |-> RecordOf(t, f, p[1], p[2], id)]
  OBVIOUS
<1>5. IsFiniteSet(P)
  <2>1. IsFiniteSet(DOMAIN t.rows)
    <3>1. DOMAIN t.rows = 1..Len(t.rows) /\ Len(t.rows) \in Int
      BY <1>2 DEF IsTable
    <3> QED
      BY <3>1, FS_Interval
  <2>2. IsFiniteSet(RecordVariables(t) \cap t.numeric)
    <3>1. RecordVariables(t) \cap t.numeric \subseteq t.columns /\ IsFiniteSet(t.columns)
      BY <1>2 DEF IsTable
    <3> QED
      BY <3>1, FS_Subset
  <2> QED
    BY <1>4, <2>1, <2>2, FS_Product
<1>6. IsFiniteSet({g[p] : p \in P})
  <2>1. PICK R : R = {g[p] : p \in P}
    OBVIOUS
  <2>2. g \in Surjection(P, R)
    BY <1>4, <2>1 DEF Surjection
  <2> QED
    BY <1>5, <2>1, <2>2, FS_Surjection
<1>7. W \subseteq {g[p] : p \in P}
  BY <1>2, <1>4 DEF WriteDatasetRecords
<1> QED
  BY <1>1, <1>3, <1>6, <1>7, FS_Subset

-----------------------------------------------------------------------------

ContentOK ==
    /\ ingested \subseteq Files \ Legacy
    /\ repeated \subseteq Files \ Legacy
    /\ version \in Nat
    /\ record_count \in Nat
    /\ records \subseteq PossibleRows
    /\ IsFiniteSet(ingested) /\ \A f \in ingested : Parsed[f] # None
    /\ IsFiniteSet(records)

\* A sum of what files declare, and that of one more.
LEMMA DeclaredOf ==
    ASSUME NEW S, IsFiniteSet(S), S \subseteq Files
    PROVE  /\ Declared(S) \in Nat
           /\ \A f \in Files \ S : Declared(S \cup {f}) = Declared(S) + ContentCount[f]
<1>1. PICK D : D = [f \in Files |-> ContentCount[f]]
  OBVIOUS
<1>2. \A f \in Files : D[f] \in Nat
  BY <1>1, DatasetQueriesAssumption
<1>3. ASSUME NEW T, IsFiniteSet(T), T \subseteq Files
      PROVE  Declared(T) = SumFunctionOnSet(D, T)
  <2>1. PICK g : g = [f \in T |-> ContentCount[f]]
    OBVIOUS
  <2>2. DOMAIN g = T /\ \A f \in T : g[f] \in Int /\ g[f] = D[f]
    BY <1>1, <1>2, <1>3, <2>1
  <2>3. /\ SumFunctionOnSet(g, T) <= SumFunctionOnSet(D, T) /\ SumFunctionOnSet(D, T) <= SumFunctionOnSet(g, T)
        /\ SumFunctionOnSet(g, T) \in Int /\ SumFunctionOnSet(D, T) \in Int
    BY <1>2, <1>3, <2>2, SumMonotone, SumInt
  <2> QED
    BY <2>1, <2>2, <2>3 DEF Declared, SumFunction
<1>4. Declared(S) \in Nat
  BY <1>2, <1>3, SumNat
<1>5. ASSUME NEW f \in Files \ S PROVE Declared(S \cup {f}) = Declared(S) + ContentCount[f]
  <2>1. IsFiniteSet(S \cup {f}) /\ S \cup {f} \subseteq Files
    BY FS_AddElement
  <2>2. PICK T : T = S \cup {f}
    OBVIOUS
  <2>3. SumFunctionOnSet(D, T) = D[f] + SumFunctionOnSet(D, T \ {f}) /\ T \ {f} = S
    BY <1>2, <2>1, <2>2, SumRemove
  <2>4. D[f] = ContentCount[f] /\ D[f] \in Nat
    BY <1>1, <1>2
  <2> QED
    BY <1>3, <1>4, <2>1, <2>2, <2>3, <2>4
<1> QED
  BY <1>4, <1>5

LEMMA ContentInit == Init => ContentOK
<1> SUFFICES ASSUME Init PROVE ContentOK
  OBVIOUS
<1>1. /\ ingested = {} /\ version = 1
      /\ records \in {{}, Seeded, UNION {RowsOf[f][None] : f \in Tabular}}
  BY DEF Init
<1>2. IsFiniteSet(Seeded) /\ Seeded \subseteq PossibleRows
  BY DatasetQueriesAssumption DEF PossibleRows
<1>3. PICK W, R : W = {RowsOf[f][None] : f \in Tabular} /\ R = UNION W
  OBVIOUS
<1>4. IsFiniteSet(W)
  <2>1. PICK g : g = [f \in Tabular |-> RowsOf[f][None]]
    OBVIOUS
  <2>2. g \in Surjection(Tabular, W)
    BY <1>3, <2>1 DEF Surjection
  <2>3. IsFiniteSet(Tabular)
    BY DatasetQueriesAssumption, FS_Subset DEF Tabular
  <2> QED
    BY <2>2, <2>3, FS_Surjection
<1>5. IsFiniteSet(R) /\ R \subseteq PossibleRows
  <2>1. \A w \in W : IsFiniteSet(w) /\ w \subseteq PossibleRows
    BY <1>3, RowsFinite
  <2> QED
    BY <1>3, <1>4, <2>1, FS_UNION
<1>6. repeated = {} /\ record_count \in Nat
  <2>1. /\ repeated = {} /\ record_count = Cardinality(Rows(None)) + Declared(Legacy)
        /\ Rows(None) \subseteq records
    BY DEF Init, Rows
  <2>2. IsFiniteSet(records)
    BY <1>1, <1>2, <1>3, <1>5, FS_EmptySet
  <2>3. Cardinality(Rows(None)) \in Nat
    BY <2>1, <2>2, FS_Subset, FS_CardinalityType
  <2>4. Declared(Legacy) \in Nat
    BY DatasetQueriesAssumption, DeclaredOf
  <2> QED
    BY <2>1, <2>3, <2>4
<1> QED
  BY <1>1, <1>2, <1>3, <1>5, <1>6, FS_EmptySet DEF ContentOK

LEMMA ContentStep == ContentOK /\ BackfillInv /\ [Next]_vars => ContentOK'
<1> SUFFICES ASSUME ContentOK, BackfillInv, [Next]_vars PROVE ContentOK'
  OBVIOUS
<1>1. CASE UNCHANGED contentVars
  BY <1>1 DEF contentVars, ContentOK
<1>2. ASSUME NEW f \in Files, Ingest(f) PROVE ContentOK'
  <2>1. /\ ingested' = ingested \cup {f} /\ version' = version + 1 /\ records' = records
        /\ f \notin Legacy /\ Parsed[f] # None
        /\ repeated' \subseteq repeated \cup ingested
        /\ record_count' = record_count + ContentCount[f]
    BY <1>2 DEF Ingest, Ingestible
  <2>2. IsFiniteSet(ingested \cup {f})
    BY FS_AddElement DEF ContentOK
  <2>3. ContentCount[f] \in Nat
    BY DatasetQueriesAssumption
  <2> QED
    BY <2>1, <2>2, <2>3 DEF ContentOK
<1>7. ASSUME NEW f \in Files, RemoveFile(f) PROVE ContentOK'
  <2>1. /\ ingested' \subseteq ingested /\ records' \subseteq records
        /\ repeated' = repeated \cup {f} /\ f \in ingested
        /\ UNCHANGED <<version, record_count>>
    BY <1>7 DEF RemoveFile
  <2>2. IsFiniteSet(ingested') /\ IsFiniteSet(records')
    BY <2>1, FS_Subset DEF ContentOK
  <2> QED
    BY <2>1, <2>2 DEF ContentOK
<1>3. ASSUME NEW a \in Actors, BackfillClear(a) PROVE ContentOK'
  <2>1. records' \subseteq records /\ UNCHANGED <<ingested, version, record_count, repeated>>
    BY <1>3 DEF BackfillClear
  <2> QED
    BY <2>1, FS_Subset DEF ContentOK
<1>4. ASSUME NEW a \in Actors, BackfillCopy(a) PROVE ContentOK'
  <2>1. PICK R : /\ R = RowsOf[op[a].file][a]
                 /\ records' \subseteq records \cup R
                 /\ UNCHANGED <<ingested, version, record_count, repeated>>
    BY <1>4 DEF BackfillCopy
  <2>2. IsFiniteSet(R) /\ R \subseteq PossibleRows
    BY <1>4, <2>1, RowsFinite DEF BackfillCopy, BackfillInv, HasFiles
  <2>3. IsFiniteSet(records \cup R)
    BY <2>2, FS_Union DEF ContentOK
  <2> QED
    BY <2>1, <2>2, <2>3, FS_Subset DEF ContentOK
<1>5. ASSUME NEW a \in Actors,
             \/ RequestLoad(a) \/ CountMatching(a) \/ CountTotal(a) \/ CountFiles(a) \/ RequestCommit(a)
             \/ BackfillStart(a) \/ BackfillCheck(a) \/ BackfillNext(a) \/ BackfillDone(a)
             \/ ReviewCount(a) \/ ReviewCommit(a) \/ RolesLoad(a) \/ RolesCommit(a) \/ Lost(a)
      PROVE  UNCHANGED contentVars
  BY <1>5 DEF RequestLoad, CountMatching, CountTotal, CountFiles, RequestCommit, BackfillStart,
              BackfillCheck, BackfillNext, BackfillDone, ReviewCount, ReviewCommit, RolesLoad,
              RolesCommit, Lost
<1>6. CASE UNCHANGED vars
  BY <1>1, <1>6 DEF vars
<1> QED
  BY <1>1, <1>2, <1>3, <1>4, <1>5, <1>6, <1>7 DEF Next

\* As long as no file was delivered again or taken away, record_count is what the
\* files declare, each once, and the rows that belong to none.
CountOK == repeated = {} => record_count = Cardinality(Rows(None)) + Declared(Legacy \cup ingested)

LEMMA CountInit == Init => CountOK
<1> SUFFICES ASSUME Init PROVE CountOK
  OBVIOUS
<1>1. ingested = {} /\ record_count = Cardinality(Rows(None)) + Declared(Legacy)
  BY DEF Init
<1> QED
  BY <1>1 DEF CountOK

LEMMA CountStep == ContentOK /\ BackfillInv /\ CountOK /\ [Next]_vars => CountOK'
<1> SUFFICES ASSUME ContentOK, BackfillInv, CountOK, [Next]_vars, repeated' = {}
             PROVE  record_count' = Cardinality(Rows(None)') + Declared(Legacy \cup ingested')
  BY DEF CountOK, Declared, Rows
<1>1. ASSUME UNCHANGED <<ingested, record_count, repeated>>, Rows(None)' = Rows(None)
      PROVE  record_count' = Cardinality(Rows(None)') + Declared(Legacy \cup ingested')
  BY <1>1 DEF CountOK
<1>2. ASSUME NEW f \in Files, Ingest(f)
      PROVE  record_count' = Cardinality(Rows(None)') + Declared(Legacy \cup ingested')
  <2>1. /\ f \notin Legacy /\ f \notin ingested /\ repeated = {}
        /\ ingested' = ingested \cup {f} /\ records' = records
        /\ record_count' = record_count + ContentCount[f]
    BY <1>2 DEF Ingest
  <2>2. PICK S : S = Legacy \cup ingested
    OBVIOUS
  <2>3. IsFiniteSet(S) /\ S \subseteq Files /\ f \in Files \ S /\ Legacy \cup ingested' = S \cup {f}
    BY <2>1, <2>2, DatasetQueriesAssumption, FS_Union DEF ContentOK
  <2>4. Declared(S \cup {f}) = Declared(S) + ContentCount[f] /\ Declared(S) \in Nat
    BY <2>3, DeclaredOf
  <2>5. PICK n \in Nat : n = Cardinality(Rows(None))
    BY FS_Subset, FS_CardinalityType DEF ContentOK, Rows
  <2>6. Rows(None)' = Rows(None)
    BY <2>1 DEF Rows
  <2>7. record_count = n + Declared(S)
    BY <2>1, <2>2, <2>5 DEF CountOK
  <2>8. ContentCount[f] \in Nat
    BY DatasetQueriesAssumption
  <2>9. Cardinality(Rows(None)') = n
    BY <2>5, <2>6
  <2>10. Declared(Legacy \cup ingested') = Declared(S) + ContentCount[f]
    BY <2>3, <2>4
  <2>11. record_count' = n + (Declared(S) + ContentCount[f])
    BY <2>1, <2>4, <2>7, <2>8
  <2> QED
    BY <2>9, <2>10, <2>11
<1>3. ASSUME NEW f \in Files, RemoveFile(f) PROVE FALSE
  BY <1>3 DEF RemoveFile
<1>4. Tabular \subseteq Files /\ None \notin Files
  BY DatasetQueriesAssumption DEF Tabular
<1>5. ASSUME NEW a \in Actors, BackfillClear(a)
      PROVE  record_count' = Cardinality(Rows(None)') + Declared(Legacy \cup ingested')
  <2>1. PICK f \in op[a].todo : records' = records \ Rows(f) /\ UNCHANGED <<ingested, record_count, repeated>>
    BY <1>5 DEF BackfillClear
  <2>2. f # None
    BY <1>4, <1>5 DEF BackfillClear, BackfillInv, HasFiles
  <2> QED
    BY <1>1, <2>1, <2>2 DEF Rows
<1>6. ASSUME NEW a \in Actors, BackfillCopy(a)
      PROVE  record_count' = Cardinality(Rows(None)') + Declared(Legacy \cup ingested')
  <2>1. PICK f : f = op[a].file
    OBVIOUS
  <2>2. f \in Tabular
    BY <1>6, <2>1 DEF BackfillCopy, BackfillInv, HasFiles
  <2>3. /\ records' = records \cup {r \in RowsOf[f][a] : r.row = op[a].row}
        /\ UNCHANGED <<ingested, record_count, repeated>>
    BY <1>6, <2>1 DEF BackfillCopy
  <2>4. \A r \in RowsOf[f][a] : r.file # None
    BY <1>4, <2>2, RowsOfFile
  <2> QED
    BY <1>1, <2>3, <2>4 DEF Rows
<1>7. ASSUME NEW a \in Actors,
             \/ RequestLoad(a) \/ CountMatching(a) \/ CountTotal(a) \/ CountFiles(a) \/ RequestCommit(a)
             \/ BackfillStart(a) \/ BackfillCheck(a) \/ BackfillNext(a) \/ BackfillDone(a)
             \/ ReviewCount(a) \/ ReviewCommit(a) \/ RolesLoad(a) \/ RolesCommit(a) \/ Lost(a)
      PROVE  UNCHANGED contentVars
  BY <1>7 DEF RequestLoad, CountMatching, CountTotal, CountFiles, RequestCommit, BackfillStart,
              BackfillCheck, BackfillNext, BackfillDone, ReviewCount, ReviewCommit, RolesLoad,
              RolesCommit, Lost
<1>8. CASE UNCHANGED contentVars
  BY <1>1, <1>8 DEF contentVars, Rows
<1>9. CASE UNCHANGED vars
  BY <1>8, <1>9 DEF vars
<1> QED
  BY <1>2, <1>3, <1>5, <1>6, <1>7, <1>8, <1>9 DEF Next

-----------------------------------------------------------------------------

SchemaOK ==
    /\ \A v \in DOMAIN registry : registry[v].roles \subseteq VariableRoles
    /\ reviewed \in BOOLEAN

OperationsOK ==
    /\ request \in [Actors -> OrNone(Request)]
    /\ op \in [Actors -> Operation]
    /\ \A a \in Actors : HasCounts(op[a])
    /\ begun \in 0..MaxOperations

LEMMA SchemaInit == Init => SchemaOK
<1> SUFFICES ASSUME Init PROVE SchemaOK
  OBVIOUS
<1>1. PICK roles \in {{}, {"visualization_variable"}} :
          registry = [v \in DOMAIN RegistryOfOld |-> WithRoles(RegistryOfOld[v], roles)]
  BY DEF Init
<1>2. reviewed = FALSE
  BY DEF Init
<1> QED
  BY <1>1, <1>2 DEF SchemaOK, WithRoles, VariableRoles

LEMMA SchemaStep == SchemaOK /\ RegistryShape /\ OperationsOK /\ [Next]_vars => SchemaOK'
<1> SUFFICES ASSUME SchemaOK, RegistryShape, OperationsOK, [Next]_vars PROVE SchemaOK'
  OBVIOUS
<1>1. CASE UNCHANGED <<registry, reviewed>>
  BY <1>1 DEF SchemaOK
<1>2. ASSUME NEW f \in Files, Ingest(f) PROVE SchemaOK'
  <2>1. PICK new : new = WriteVariableRegistry(registry, Variables[f])
    OBVIOUS
  <2>2. RolesIn(new, VariableRoles)
    <3>1. RolesIn(registry, VariableRoles) /\ RolesIn(Variables[f], VariableRoles)
      BY VariablesShape DEF SchemaOK, RolesIn
    <3> QED
      BY <2>1, <3>1, VariablesShape, RegistryWritten DEF RegistryShape
  <2>3. registry' = new /\ reviewed' = reviewed
    BY <1>2, <2>1 DEF Ingest
  <2> QED
    BY <2>2, <2>3 DEF SchemaOK, RolesIn
<1>3. ASSUME NEW a \in Actors, ReviewCommit(a) PROVE SchemaOK'
  BY <1>3 DEF ReviewCommit, SchemaOK
<1>4. ASSUME NEW a \in Actors, RolesCommit(a) PROVE SchemaOK'
  <2>1. PICK w, roles : /\ roles \subseteq VariableRoles
                        /\ registry' = [registry EXCEPT ![w].roles = roles]
                        /\ reviewed' \in BOOLEAN
    <3>1. op[a].roles \subseteq VariableRoles
      <4>1. op[a] \in Operation /\ op[a].kind = "roles"
        BY <1>4 DEF RolesCommit, OperationsOK
      <4> QED
        BY <4>1 DEF Operation, Idle
    <3>2. /\ registry' = [registry EXCEPT ![op[a].variable].roles = op[a].roles]
          /\ reviewed' \in BOOLEAN
      BY <1>4 DEF RolesCommit
    <3> QED
      BY <3>1, <3>2
  <2>2. ASSUME NEW v \in DOMAIN registry PROVE registry'[v].roles \subseteq VariableRoles
    BY <2>1 DEF SchemaOK, RegistryShape, IsRegistry, VariableFields
  <2> QED
    BY <2>1, <2>2 DEF SchemaOK
<1>5. ASSUME NEW a \in Actors,
             \/ RequestLoad(a) \/ CountMatching(a) \/ CountTotal(a) \/ CountFiles(a) \/ RequestCommit(a)
             \/ BackfillStart(a) \/ BackfillCheck(a) \/ BackfillClear(a) \/ BackfillCopy(a)
             \/ BackfillNext(a) \/ BackfillDone(a) \/ ReviewCount(a) \/ RolesLoad(a) \/ Lost(a)
      PROVE  UNCHANGED <<registry, reviewed>>
  BY <1>5 DEF RequestLoad, CountMatching, CountTotal, CountFiles, RequestCommit, BackfillStart,
              BackfillCheck, BackfillClear, BackfillCopy, BackfillNext, BackfillDone, ReviewCount,
              RolesLoad, Lost, schemaVars
<1>6. CASE UNCHANGED vars
  BY <1>1, <1>6 DEF vars, schemaVars
<1>7. ASSUME NEW f \in Files, RemoveFile(f) PROVE UNCHANGED <<registry, reviewed>>
  BY <1>7 DEF RemoveFile, schemaVars
<1> QED
  BY <1>1, <1>2, <1>3, <1>4, <1>5, <1>6, <1>7 DEF Next

-----------------------------------------------------------------------------

LEMMA OperationsInit == Init => OperationsOK
<1>1. Idle \in Operation /\ HasCounts(Idle)
  BY DEF Operation, Idle, HasCounts
<1> QED
  BY <1>1, DatasetQueriesAssumption DEF Init, OperationsOK, OrNone

LEMMA OperationsSet ==
    ASSUME OperationsOK, NEW a \in Actors, NEW o, OperationOK(o), SetOp(a, o), UNCHANGED request,
           begun' \in 0..MaxOperations
    PROVE  OperationsOK'
BY DEF OperationsOK, OperationOK, SetOp, HasCounts

LEMMA OperationsChanged ==
    ASSUME OperationsOK, NEW ops, op' = [b \in Actors |-> ops[b]],
           \A b \in Actors : ops[b] = Disturb(op[b]) \/ OperationOK(ops[b]),
           DisturbRequests, UNCHANGED begun
    PROVE  OperationsOK'
<1>1. ASSUME NEW b \in Actors PROVE OperationOK(op'[b])
  <2>1. OperationOK(Disturb(op[b]))
    BY DisturbedOK DEF OperationsOK, OperationOK
  <2> QED
    BY <2>1
<1>2. op' \in [Actors -> Operation] /\ \A b \in Actors : HasCounts(op'[b])
  BY <1>1 DEF OperationOK
<1>3. ASSUME NEW b \in Actors PROVE request'[b] \in OrNone(Request)
  BY RequestChanged DEF DisturbRequests, OperationsOK, OrNone
<1>4. request' \in [Actors -> OrNone(Request)]
  BY <1>3 DEF DisturbRequests
<1> QED
  BY <1>2, <1>4 DEF OperationsOK, HasCounts

LEMMA OperationsDisturbed ==
    ASSUME OperationsOK, NEW a \in Actors, NEW o, OperationOK(o), SetOpDisturbing(a, o), DisturbRequests,
           UNCHANGED begun
    PROVE  OperationsOK'
<1>1. PICK ops : ops = [b \in Actors |-> IF b = a THEN o ELSE Disturb(op[b])]
  OBVIOUS
<1>2. op' = [b \in Actors |-> ops[b]] /\ \A b \in Actors : ops[b] = Disturb(op[b]) \/ OperationOK(ops[b])
  BY <1>1 DEF SetOpDisturbing
<1> QED
  BY <1>2, OperationsChanged

\* What a step makes of a count.
LEMMA OperationsCount ==
    ASSUME ContentOK, OperationsOK, NEW a \in Actors,
           CountMatching(a) \/ CountTotal(a) \/ CountFiles(a)
    PROVE  \E o : OperationOK(o) /\ SetOp(a, o) /\ UNCHANGED <<request, begun>>
<1>1. PICK k, r : k = op[a].kind /\ r = op[a].request
  OBVIOUS
<1>2. /\ k \in {"matching", "total", "files"} /\ r \in Request
      /\ op[a] = [kind |-> k, request |-> r]
      /\ HasCounts(op[a])
  BY <1>1, CountingIs DEF OperationsOK, CountMatching, CountTotal, CountFiles, Counting
<1>3. UNCHANGED <<request, begun>>
  BY DEF CountMatching, CountTotal, CountFiles
<1>4. \A m : OperationOK([kind |-> m, request |-> r]) <=>
               [kind |-> m, request |-> r] \in Operation /\ HasCounts([kind |-> m, request |-> r])
  BY DEF OperationOK
<1>5. CASE CountMatching(a)
  <2>1. PICK n, q, o : /\ n = Cardinality(RecordsMatching(records, r.filter))
                       /\ q = [r EXCEPT !.matching = n]
                       /\ o = [kind |-> "total", request |-> q]
    OBVIOUS
  <2>2. n \in Nat
    BY <2>1, FS_Subset, FS_CardinalityType DEF RecordsMatching, ContentOK
  <2>3. q \in Request /\ q.matching = n
    BY <1>2, <2>1, <2>2, RequestChanged DEF OrNone, Request
  <2>4. o \in Operation /\ HasCounts(o)
    BY <2>1, <2>2, <2>3, CountingIsOperation DEF Counting, HasCounts
  <2>5. SetOp(a, o)
    <3>1. PICK p : p = op[a]
      OBVIOUS
    <3>2. SetOp(a, [p EXCEPT !.kind = "total",
                       !.request.matching = Cardinality(RecordsMatching(records, p.request.filter))])
      BY <1>5, <3>1 DEF CountMatching
    <3>3. p = [kind |-> k, request |-> r] /\ n = Cardinality(RecordsMatching(records, p.request.filter))
      BY <1>1, <1>2, <2>1, <3>1
    <3>4. o = [p EXCEPT !.kind = "total", !.request.matching = n]
      <4>1. PICK e : e = [p EXCEPT !.kind = "total", !.request.matching = n]
        OBVIOUS
      <4>2. DOMAIN e = {"kind", "request"} /\ e.kind = "total" /\ e.request = q /\ e = [x \in DOMAIN e |-> e[x]]
        BY <2>1, <3>3, <4>1
      <4>3. e = o
        BY <2>1, <4>2
      <4> QED
        BY <4>1, <4>3
    <3> QED
      BY <3>2, <3>3, <3>4 DEF SetOp
  <2> QED
    BY <1>3, <2>4, <2>5 DEF OperationOK
<1>6. CASE CountTotal(a)
  <2>1. PICK n, q, o : /\ n = Cardinality(records)
                       /\ q = [r EXCEPT !.total = n]
                       /\ o = [kind |-> "files", request |-> q]
    OBVIOUS
  <2>2. n \in Nat
    BY <2>1, FS_CardinalityType DEF ContentOK
  <2>3. q \in Request /\ q.total = n /\ q.matching = r.matching
    BY <1>2, <2>1, <2>2, RequestChanged DEF OrNone, Request
  <2>4. r.matching \in Nat
    BY <1>1, <1>2, <1>6 DEF CountTotal, HasCounts
  <2>5. o \in Operation /\ HasCounts(o)
    BY <2>1, <2>2, <2>3, <2>4, CountingIsOperation DEF Counting, HasCounts
  <2>6. SetOp(a, o)
    <3>1. PICK p : p = op[a]
      OBVIOUS
    <3>2. SetOp(a, [p EXCEPT !.kind = "files", !.request.total = n])
      BY <1>6, <2>1, <3>1 DEF CountTotal
    <3>3. p = [kind |-> k, request |-> r]
      BY <1>2, <3>1
    <3>4. o = [p EXCEPT !.kind = "files", !.request.total = n]
      <4>1. PICK e : e = [p EXCEPT !.kind = "files", !.request.total = n]
        OBVIOUS
      <4>2. DOMAIN e = {"kind", "request"} /\ e.kind = "files" /\ e.request = q /\ e = [x \in DOMAIN e |-> e[x]]
        BY <2>1, <3>3, <4>1
      <4>3. e = o
        BY <2>1, <4>2
      <4> QED
        BY <4>1, <4>3
    <3> QED
      BY <3>2, <3>4 DEF SetOp
  <2> QED
    BY <1>3, <2>5, <2>6 DEF OperationOK
<1>7. CASE CountFiles(a)
  <2>1. PICK n, m, q, o : /\ m = MatchingIn(ingested, r.filter) /\ n = TotalIn(ingested, r.filter)
                          /\ q = [r EXCEPT !.matching = r.matching + m, !.total = r.total + n]
                          /\ o = [kind |-> "commit", request |-> q]
    OBVIOUS
  <2>2. m \in Nat /\ n \in Nat
    <3>1. r.filter \in Filters
      BY <1>2, RequestChanged, DatasetQueriesAssumption
    <3>2. PICK s, t : /\ s = [f \in ingested |-> FileCounts[f][r.filter].matching]
                      /\ t = [f \in ingested |-> FileCounts[f][r.filter].total]
      OBVIOUS
    <3>3. \A f \in ingested : s[f] \in Nat /\ t[f] \in Nat
      BY <3>1, <3>2, FileCountsNat DEF ContentOK
    <3>4. m = SumFunctionOnSet(s, ingested) /\ n = SumFunctionOnSet(t, ingested)
      BY <2>1, <3>2 DEF MatchingIn, TotalIn, SumFunction
    <3> QED
      BY <3>3, <3>4, SumNat DEF ContentOK
  <2>3. r.matching \in Nat /\ r.total \in Nat
    BY <1>1, <1>2, <1>7 DEF CountFiles, HasCounts
  <2>4. q \in Request /\ q.matching \in Nat /\ q.total \in Nat
    <3>1. PICK x, y : x = r.matching + m /\ y = r.total + n /\ x \in Nat /\ y \in Nat
      BY <2>2, <2>3
    <3>2. q = [r EXCEPT !.matching = x, !.total = y]
      BY <2>1, <3>1
    <3>3. q \in Request
      BY <1>2, <3>1, <3>2, RequestChanged DEF OrNone
    <3>4. q.matching = x /\ q.total = y
      BY <1>2, <3>2 DEF Request
    <3> QED
      BY <3>1, <3>3, <3>4
  <2>5. o \in Operation /\ HasCounts(o)
    <3>1. o \in Operation
      BY <2>1, <2>4, CountingIsOperation DEF Counting
    <3>2. o.request = q
      BY <2>1
    <3> QED
      BY <2>4, <3>1, <3>2 DEF HasCounts
  <2>6. SetOp(a, o)
    <3>1. PICK p : p = op[a]
      OBVIOUS
    <3>2. SetOp(a, [p EXCEPT !.kind = "commit",
                       !.request.matching = @ + MatchingIn(ingested, p.request.filter),
                       !.request.total = @ + TotalIn(ingested, p.request.filter)])
      BY <1>7, <3>1 DEF CountFiles
    <3>3. p = [kind |-> k, request |-> r] /\ p.request = r
      BY <1>1, <1>2, <3>1
    <3>4. o = [p EXCEPT !.kind = "commit",
                  !.request.matching = @ + MatchingIn(ingested, p.request.filter),
                  !.request.total = @ + TotalIn(ingested, p.request.filter)]
      <4>1. PICK x, y : x = r.matching + m /\ y = r.total + n
        OBVIOUS
      <4>2. PICK e : e = [p EXCEPT !.kind = "commit", !.request.matching = x, !.request.total = y]
        OBVIOUS
      <4>3. q = [r EXCEPT !.matching = x, !.total = y]
        BY <2>1, <4>1
      <4>4. DOMAIN e = {"kind", "request"} /\ e.kind = "commit" /\ e.request = q /\ e = [z \in DOMAIN e |-> e[z]]
        BY <3>3, <4>2, <4>3
      <4>5. e = o
        BY <2>1, <4>4
      <4>6. /\ p.request.matching + MatchingIn(ingested, p.request.filter) = x
            /\ p.request.total + TotalIn(ingested, p.request.filter) = y
        BY <2>1, <3>3, <4>1
      <4> QED
        BY <4>2, <4>5, <4>6
    <3> QED
      BY <3>2, <3>4 DEF SetOp
  <2> QED
    BY <1>3, <2>5, <2>6 DEF OperationOK
<1> QED
  BY <1>5, <1>6, <1>7

LEMMA OperationsStep ==
    ContentOK /\ SchemaOK /\ OperationsOK /\ BackfillInv /\ [Next]_vars => OperationsOK'
<1> SUFFICES ASSUME ContentOK, SchemaOK, OperationsOK, BackfillInv, [Next]_vars PROVE OperationsOK'
  OBVIOUS
<1>1. CASE UNCHANGED <<request, op, begun>>
  BY <1>1 DEF OperationsOK, HasCounts
<1>2. ASSUME NEW a \in Actors, NEW o, OperationOK(o), Begin(a, o), UNCHANGED request PROVE OperationsOK'
  <2>1. SetOp(a, o) /\ begun' \in 0..MaxOperations
    BY <1>2, DatasetQueriesAssumption DEF Begin, OperationsOK
  <2> QED
    BY <1>2, <2>1, OperationsSet
<1>3. ASSUME NEW a \in Actors, NEW o, OperationOK(o), SetOp(a, o), UNCHANGED <<request, begun>>
      PROVE  OperationsOK'
  BY <1>3, OperationsSet DEF OperationsOK
<1>4. OperationOK(Idle)
  BY DEF OperationOK, Operation, Idle, HasCounts
<1>5. Tabular \subseteq Legacy
  BY DEF Tabular
<1>6. ASSUME NEW a \in Actors, RequestLoad(a) PROVE OperationsOK'
  <2>1. PICK f, o :
          /\ f \in Criteria
          /\ o = [kind |-> "matching",
                  request |-> [filter |-> f, version |-> version, matching |-> None,
                               total |-> None, quiet |-> TRUE]]
          /\ Begin(a, o) /\ UNCHANGED request
    BY <1>6 DEF RequestLoad
  <2>2. o \in Operation
    BY <2>1 DEF Operation, Request, ContentOK, OrNone
  <2>3. HasCounts(o)
    BY <2>1 DEF HasCounts
  <2> QED
    BY <1>2, <2>1, <2>2, <2>3 DEF OperationOK
<1>7. ASSUME NEW a \in Actors, CountMatching(a) \/ CountTotal(a) \/ CountFiles(a) PROVE OperationsOK'
  BY <1>3, <1>7, OperationsCount
<1>8. ASSUME NEW a \in Actors, RequestCommit(a) PROVE OperationsOK'
  <2>1. request' = [request EXCEPT ![a] = op[a].request] /\ SetOp(a, Idle) /\ UNCHANGED begun
    BY <1>8 DEF RequestCommit
  <2>2. op[a].request \in Request
    BY <1>8, CountingIs DEF RequestCommit, OperationsOK, Counting
  <2> QED
    BY <1>4, <2>1, <2>2 DEF OperationsOK, OperationOK, SetOp, HasCounts, OrNone
<1>9. ASSUME NEW a \in Actors, BackfillStart(a) PROVE OperationsOK'
  <2>1. PICK o : o = [kind |-> "check", left |-> Legacy, todo |-> {}] /\ Begin(a, o) /\ UNCHANGED request
    BY <1>9 DEF BackfillStart
  <2>2. OperationOK(o)
    BY <2>1 DEF OperationOK, Operation, HasCounts
  <2> QED
    BY <1>2, <2>1, <2>2
<1>10. ASSUME NEW a \in Actors, BackfillCheck(a) PROVE OperationsOK'
  <2>1. UNCHANGED <<request, begun>>
    BY <1>10 DEF BackfillCheck
  <2>2. PICK p : p = op[a]
    OBVIOUS
  <2>3. /\ p.kind = "check" /\ p.left \subseteq Legacy /\ p.todo \subseteq Legacy
        /\ p = [kind |-> "check", left |-> p.left, todo |-> p.todo]
    <3>1. p \in Operation /\ p.kind = "check"
      BY <1>10, <2>2 DEF BackfillCheck, OperationsOK
    <3> QED
      BY <3>1 DEF Operation, Idle
  <2>4. ASSUME NEW left \in SUBSET Legacy, NEW todo \in SUBSET Legacy, NEW k \in {"check", "clear"},
               SetOp(a, [kind |-> k, left |-> left, todo |-> todo])
        PROVE  OperationsOK'
    <3>1. OperationOK([kind |-> k, left |-> left, todo |-> todo])
      BY DEF OperationOK, Operation, HasCounts
    <3> QED
      BY <1>3, <2>1, <2>4, <3>1
  <2>5. CASE SetOp(a, [p EXCEPT !.kind = "clear"])
    <3>1. [p EXCEPT !.kind = "clear"] = [kind |-> "clear", left |-> p.left, todo |-> p.todo]
      BY <2>3
    <3> QED
      BY <2>3, <2>4, <2>5, <3>1 DEF SetOp
  <2>6. ASSUME NEW f \in p.left, NEW e, e \subseteq {f},
               SetOp(a, [p EXCEPT !.left = @ \ {f}, !.todo = @ \cup e])
        PROVE  OperationsOK'
    <3>1. PICK l, t : l = p.left \ {f} /\ t = p.todo \cup e
      OBVIOUS
    <3>2. l \in SUBSET Legacy /\ t \in SUBSET Legacy
      BY <2>3, <2>6, <3>1
    <3>3. [p EXCEPT !.left = l, !.todo = t] = [kind |-> "check", left |-> l, todo |-> t]
      <4>1. PICK o : o = [p EXCEPT !.left = l, !.todo = t]
        OBVIOUS
      <4>2. /\ DOMAIN o = {"kind", "left", "todo"} /\ o.kind = "check" /\ o.left = l /\ o.todo = t
            /\ o = [x \in DOMAIN o |-> o[x]]
        BY <2>3, <4>1
      <4>3. o = [kind |-> "check", left |-> l, todo |-> t]
        BY <4>2
      <4> QED
        BY <4>1, <4>3
    <3> QED
      BY <2>4, <2>6, <3>1, <3>2, <3>3 DEF SetOp
  <2>7. \/ \E f \in p.left : \E e \in SUBSET {f} : SetOp(a, [p EXCEPT !.left = @ \ {f}, !.todo = @ \cup e])
        \/ SetOp(a, [p EXCEPT !.kind = "clear"])
    <3>1. ASSUME NEW f PROVE (IF f \in Tabular /\ records = {} THEN {f} ELSE {}) \subseteq {f}
      OBVIOUS
    <3> QED
      BY <1>10, <2>2, <3>1 DEF BackfillCheck
  <2> QED
    BY <2>5, <2>6, <2>7
<1>11. ASSUME NEW a \in Actors, BackfillClear(a) PROVE OperationsOK'
  <2>1. PICK f, o :
          /\ f \in op[a].todo
          /\ o = [kind |-> "copy", todo |-> op[a].todo \ {f}, file |-> f, row |-> 1]
          /\ SetOpDisturbing(a, o) /\ DisturbRequests /\ UNCHANGED begun
    BY <1>11 DEF BackfillClear
  <2>2. op[a].todo \subseteq Legacy
    BY <1>5, <1>11 DEF BackfillClear, BackfillInv, HasFiles
  <2>3. OperationOK(o)
    BY <2>1, <2>2 DEF OperationOK, Operation, HasCounts
  <2> QED
    BY <2>1, <2>3, OperationsDisturbed
<1>12. ASSUME NEW a \in Actors, BackfillCopy(a) PROVE OperationsOK'
  <2>1. PICK p, o : p = op[a] /\ o = [p EXCEPT !.row = @ + 1]
    OBVIOUS
  <2>2. p \in [kind : {"copy"}, todo : SUBSET Legacy, file : Legacy, row : Nat]
    <3>1. p \in Operation /\ p.kind = "copy"
      BY <1>12, <2>1 DEF BackfillCopy, OperationsOK
    <3> QED
      BY <3>1 DEF Operation, Idle
  <2>3. o \in [kind : {"copy"}, todo : SUBSET Legacy, file : Legacy, row : Nat]
    BY <2>1, <2>2
  <2>4. OperationOK(o)
    BY <2>3 DEF OperationOK, Operation, HasCounts
  <2>5. SetOpDisturbing(a, o) /\ DisturbRequests /\ UNCHANGED begun
    BY <1>12, <2>1 DEF BackfillCopy, SetOpDisturbing
  <2> QED
    BY <2>4, <2>5, OperationsDisturbed
<1>13. ASSUME NEW a \in Actors, BackfillNext(a) PROVE OperationsOK'
  <2>1. PICK o : /\ o = [kind |-> "clear", left |-> {}, todo |-> op[a].todo]
                 /\ SetOp(a, o) /\ UNCHANGED <<request, begun>>
    BY <1>13 DEF BackfillNext
  <2>2. op[a].todo \subseteq Legacy
    BY <1>5, <1>13 DEF BackfillNext, BackfillInv, HasFiles
  <2>3. OperationOK(o)
    BY <2>1, <2>2 DEF OperationOK, Operation, HasCounts
  <2> QED
    BY <1>3, <2>1, <2>3
<1>14. ASSUME NEW a \in Actors, BackfillDone(a) \/ ReviewCommit(a) \/ RolesCommit(a) \/ Lost(a)
      PROVE  OperationsOK'
  BY <1>3, <1>4, <1>14 DEF BackfillDone, ReviewCommit, RolesCommit, Lost
<1>15. ASSUME NEW a \in Actors, ReviewCount(a) PROVE OperationsOK'
  <2>1. OperationOK([kind |-> "review"])
    BY DEF OperationOK, Operation, HasCounts
  <2> QED
    BY <1>2, <1>15, <2>1 DEF ReviewCount
<1>16. ASSUME NEW a \in Actors, RolesLoad(a) PROVE OperationsOK'
  <2>1. PICK v, roles, o :
          /\ v \in Parameters \cap DOMAIN registry /\ roles \in {{}, {"visualization_variable"}}
          /\ o = [kind |-> "roles", variable |-> v, roles |-> roles, reviewed |-> reviewed]
          /\ Begin(a, o) /\ UNCHANGED request
    BY <1>16 DEF RolesLoad
  <2>2. OperationOK(o)
    <3>1. v \in Columns /\ roles \in SUBSET VariableRoles /\ reviewed \in BOOLEAN
      BY <2>1, DatasetQueriesAssumption DEF VariableRoles, SchemaOK
    <3> QED
      BY <2>1, <3>1 DEF OperationOK, Operation, HasCounts
  <2> QED
    BY <1>2, <2>1, <2>2
<1>17. ASSUME NEW f \in Files, Ingest(f) PROVE UNCHANGED <<request, op, begun>>
  BY <1>17 DEF Ingest
<1>18. CASE UNCHANGED vars
  BY <1>1, <1>18 DEF vars
<1>19. ASSUME NEW f \in Files, RemoveFile(f) PROVE OperationsOK'
  <2>1. PICK ops : ops = [b \in Actors |-> Disturb(op[b])]
    OBVIOUS
  <2>2. /\ op' = [b \in Actors |-> ops[b]] /\ \A b \in Actors : ops[b] = Disturb(op[b])
        /\ DisturbRequests /\ UNCHANGED begun
    BY <1>19, <2>1 DEF RemoveFile
  <2> QED
    BY <2>2, OperationsChanged
<1> QED
  BY <1>1, <1>6, <1>7, <1>8, <1>9, <1>10, <1>11, <1>12, <1>13, <1>14, <1>15, <1>16, <1>17, <1>18, <1>19 DEF Next

RacedOK == raced \subseteq Legacy

LEMMA RacedStep == RacedOK /\ BackfillInv /\ [Next]_vars => RacedOK'
<1> SUFFICES ASSUME RacedOK, BackfillInv, [Next]_vars PROVE RacedOK'
  OBVIOUS
<1>1. CASE UNCHANGED raced
  BY <1>1 DEF RacedOK
<1>2. ASSUME NEW a \in Actors, BackfillClear(a) PROVE RacedOK'
  <2>1. PICK f \in op[a].todo : raced' \subseteq raced \cup {f}
    BY <1>2 DEF BackfillClear
  <2>2. op[a].todo \subseteq Legacy
    BY <1>2 DEF BackfillClear, BackfillInv, HasFiles, Tabular
  <2> QED
    BY <2>1, <2>2 DEF RacedOK
<1>3. ASSUME NEW a \in Actors,
             \/ RequestLoad(a) \/ CountMatching(a) \/ CountTotal(a) \/ CountFiles(a) \/ RequestCommit(a)
             \/ BackfillStart(a) \/ BackfillCheck(a) \/ BackfillCopy(a) \/ BackfillNext(a)
             \/ BackfillDone(a) \/ ReviewCount(a) \/ ReviewCommit(a) \/ RolesLoad(a) \/ RolesCommit(a)
             \/ Lost(a)
      PROVE  UNCHANGED raced
  BY <1>3 DEF RequestLoad, CountMatching, CountTotal, CountFiles, RequestCommit, BackfillStart,
              BackfillCheck, BackfillCopy, BackfillNext, BackfillDone, ReviewCount, ReviewCommit,
              RolesLoad, RolesCommit, Lost, copyVars
<1>4. ASSUME NEW f \in Files, Ingest(f) \/ RemoveFile(f) PROVE UNCHANGED raced
  BY <1>4 DEF Ingest, RemoveFile, copyVars
<1>5. CASE UNCHANGED vars
  BY <1>1, <1>5 DEF vars, copyVars
<1> QED
  BY <1>1, <1>2, <1>3, <1>4, <1>5 DEF Next

-----------------------------------------------------------------------------

TypesInv == ContentOK /\ CountOK /\ SchemaOK /\ OperationsOK /\ RacedOK

\* In every reachable state the content, the registry, the operations under way and the
\* copies have their types, and the invariant of the backfill holds.
THEOREM TypesCorrect == Spec => [](BackfillInv /\ TypesInv)
<1> DEFINE Inv == Shape /\ NewFiles /\ BackfillInv /\ ReviewInv /\ TypesInv
<1>1. Init => Inv
  <2>1. Init => RacedOK
    BY DEF Init, RacedOK
  <2> QED
    BY <2>1, ShapeInit, NewFilesInit, BackfillInit, ReviewInit, ContentInit, CountInit, SchemaInit, OperationsInit
       DEF TypesInv
<1>2. Inv /\ [Next]_vars => Inv'
  BY ShapeStep, NewFilesStep, BackfillStep, ReviewStep, ContentStep, CountStep, SchemaStep, OperationsStep, RacedStep
     DEF TypesInv, ReviewInv
<1>3. Inv => BackfillInv /\ TypesInv
  OBVIOUS
<1> QED
  BY <1>1, <1>2, <1>3, PTL DEF Spec

\* The type invariant: whatever the interleaving of requests, reviews, ingestions and
\* backfills (requests_service.py, backfill_parquet.py), each variable has its type.
THEOREM QueryTypesHold == Spec => []QueryTypeOK
<1>1. BackfillInv /\ TypesInv => QueryTypeOK
  BY DEF BackfillInv, TypesInv, ContentOK, SchemaOK, OperationsOK, RacedOK, QueryTypeOK, Tabular
<1> QED
  BY <1>1, TypesCorrect, PTL

-----------------------------------------------------------------------------
(* Downloads                                                               *)

\* The extractor's sources of a file are well formed.
LEMMA SourcesOf ==
    ASSUME NEW f \in Files, Parsed[f] # None, NEW x, x = FileOf(f)
    PROVE  /\ x.artifact = "table" => x.table = Parsed[f].table /\ IsTable(x.table)
           /\ x.artifact = "grid" => IsGrid(x.ds)
           /\ x.raw = "netcdf" => IsGrid(x.ds)
           /\ x.raw = "mat" => IsArrays(x.arrays)
<1>1. WellFormed(f)
  BY DatasetQueriesAssumption
<1>2. CASE IsNetcdf(f)
  BY <1>1, <1>2 DEF WellFormed, FileOf
<1>3. CASE ~IsNetcdf(f)
  <2>1. Raw[f].extension # "netcdf"
    BY <1>3 DEF IsNetcdf
  <2> QED
    BY <1>1, <1>3, <2>1 DEF WellFormed, FileOf
<1> QED
  BY <1>2, <1>3

\* Without the scope an extractor of the same file counts as much.
LEMMA FileDelivers ==
    ASSUME NEW f \in Files, Parsed[f] # None, NEW x, x = FileOf(f), NEW scope,
           NEW format \in {"csv", "netcdf", "mat"},
           x.artifact = "grid" => HasRows(x.ds),
           RecordCount(x, format, scope) # None
    PROVE  /\ RecordCount(x, format, scope) \in Nat
           /\ RecordCount(x, format, NoFilter) \in Nat
           /\ RecordCount(x, format, scope) <= RecordCount(x, format, NoFilter)
<1>1. CASE format = "csv" /\ x.artifact = "table"
  <2>1. ASSUME NEW s PROVE RecordCount(x, format, s) = Cardinality(ApplyScopeMask(x.table, s))
    BY <1>1 DEF RecordCount
  <2>2. PICK n \in Nat : DOMAIN x.table.rows = 1..n
    BY <1>1, SourcesOf DEF IsTable
  <2>3. /\ Cardinality(ApplyScopeMask(x.table, scope)) \in Nat
        /\ Cardinality(ApplyScopeMask(x.table, scope)) <= n
        /\ Cardinality(ApplyScopeMask(x.table, NoFilter)) = n
    BY <2>2, MaskCounts
  <2> QED
    BY <2>1, <2>2, <2>3
<1>2. CASE format = "csv" /\ x.artifact = "grid"
  <2>1. ASSUME NEW s
        PROVE  RecordCount(x, format, s) = Cardinality(ApplyScopeMask(MaterializeZarrToParquet(x.ds, s), s))
    BY <1>2 DEF RecordCount
  <2>2. IsGrid(x.ds) /\ HasRows(x.ds)
    BY <1>2, SourcesOf
  <2> QED
    BY <2>1, <2>2, GridDelivers
<1>3. CASE format = "netcdf" /\ x.raw = "netcdf"
  <2>1. ASSUME NEW s PROVE RecordCount(x, format, s) = NetcdfRecordCount(NetcdfFilter(x.ds, s))
    BY <1>3 DEF RecordCount
  <2>2. IsGrid(x.ds)
    BY <1>3, SourcesOf
  <2> QED
    BY <2>1, <2>2, NetcdfDelivers
<1>4. CASE format = "mat" /\ x.raw = "mat"
  <2>1. ASSUME NEW s PROVE RecordCount(x, format, s) = MatExtract(x.arrays, s).count
    BY <1>4 DEF RecordCount
  <2>2. IsArrays(x.arrays)
    BY <1>4, SourcesOf
  <2> QED
    BY <2>1, <2>2, MatDelivers
<1>5. /\ format \in {"csv", "parquet"} => x.artifact \in {"table", "grid"}
      /\ format = "netcdf" => x.raw = "netcdf"
      /\ format = "mat" => x.raw = "mat"
  BY DEF RecordCount
<1> QED
  BY <1>1, <1>2, <1>3, <1>4, <1>5

LEMMA FilesDeliver ==
    ASSUME NEW S, S \subseteq Files, IsFiniteSet(S), \A f \in S : Parsed[f] # None,
           NEW names, names = SetToSeq(S),
           NEW files, files = [i \in DOMAIN names |-> FileOf(names[i])],
           NEW scope, NEW format \in {"csv", "netcdf", "mat"}
    PROVE  CountWithin(files, format, scope)
<1>1. PICK D : D = DOMAIN names
  OBVIOUS
<1>2. IsFiniteSet(D) /\ \A i \in D : names[i] \in S
  <2>1. /\ names \in Seq(S) /\ D = 1..Cardinality(S)
    BY <1>1, SetToSeqIs
  <2>2. Cardinality(S) \in Nat
    BY FS_CardinalityType
  <2>3. IsFiniteSet(1..Cardinality(S))
    BY <2>2, FS_Interval
  <2>4. \A i \in DOMAIN names : names[i] \in S
    BY <2>1, InNames
  <2> QED
    BY <1>1, <2>1, <2>3, <2>4
<1>3. PICK some, all : /\ some = [i \in D |-> RecordCount(files[i], format, scope)]
                       /\ all = [i \in D |-> RecordCount(files[i], format, NoFilter)]
  OBVIOUS
<1>4. DOMAIN files = D
  BY <1>1
<1>5. PICK part, whole : part = RunExtraction(files, format, scope) /\ whole = RunExtraction(files, format, NoFilter)
  OBVIOUS
<1>6. SUFFICES ASSUME part # None, \A i \in D : files[i].artifact = "grid" => HasRows(files[i].ds)
               PROVE  part.count <= whole.count
  BY <1>4, <1>5 DEF CountWithin
<1>7. files # <<>> /\ None \notin ToSet(some) /\ part.count = SumFunctionOnSet(some, D)
  BY <1>3, <1>4, <1>5, <1>6 DEF RunExtraction, SumFunction
<1>8. ASSUME NEW i \in D PROVE some[i] \in Nat /\ all[i] \in Nat /\ some[i] <= all[i]
  <2>1. names[i] \in Files /\ Parsed[names[i]] # None /\ files[i] = FileOf(names[i])
    BY <1>1, <1>2
  <2>2. some[i] # None
    BY <1>3, <1>7 DEF ToSet
  <2>3. RecordCount(files[i], format, scope) # None
    BY <1>3, <2>2
  <2>4. files[i].artifact = "grid" => HasRows(files[i].ds)
    BY <1>6
  <2>5. /\ RecordCount(files[i], format, scope) \in Nat
        /\ RecordCount(files[i], format, NoFilter) \in Nat
        /\ RecordCount(files[i], format, scope) <= RecordCount(files[i], format, NoFilter)
    BY <2>1, <2>3, <2>4, FileDelivers
  <2> QED
    BY <1>3, <2>5
<1>9. whole.count = SumFunctionOnSet(all, D)
  <2>1. None \notin ToSet(all)
    BY <1>3, <1>8, ObservationsAssumption DEF ToSet
  <2> QED
    BY <1>3, <1>4, <1>5, <1>7, <2>1 DEF RunExtraction, SumFunction
<1>10. SumFunctionOnSet(some, D) <= SumFunctionOnSet(all, D)
  <2>1. \A i \in D : some[i] \in Int /\ all[i] \in Int /\ some[i] <= all[i]
    BY <1>8
  <2> QED
    BY <1>2, <2>1, SumMonotone
<1> QED
  BY <1>7, <1>9, <1>10

\* Whatever has been ingested, and in every state: a download has no row outside of
\* its scope, a narrower scope selects no more rows, and no scope adds any.
THEOREM WithinScopeHolds == Spec => []WithinScope
<1>1. TypesInv => WithinScope
  <2> SUFFICES ASSUME TypesInv PROVE WithinScope
    OBVIOUS
  <2>1. PICK S : S = ingested
    OBVIOUS
  <2>2. S \subseteq Files /\ IsFiniteSet(S) /\ \A f \in S : Parsed[f] # None
    BY <2>1 DEF TypesInv, ContentOK
  <2>3. ASSUME NEW f \in S, NEW scope \in Filters PROVE DeliveredWithin(f, scope)
    <3>1. WellFormed(f) /\ scope \in Filter
      BY <2>2, DatasetQueriesAssumption
    <3>2. ASSUME Parsed[f].kind = "table", NEW i \in ApplyScopeMask(Parsed[f].table, scope)
          PROVE  RowWithin(Parsed[f].table, i, scope)
      BY <3>1, <3>2, TableWithin DEF WellFormed
    <3>3. PICK rows : rows = MaterializeZarrToParquet(Parsed[f].ds, scope).rows
      OBVIOUS
    <3>4. ASSUME Parsed[f].kind = "grid", NEW i \in DOMAIN rows
          PROVE  GridRowWithin(Parsed[f].ds, rows[i], scope)
      <4>1. IsGrid(Parsed[f].ds)
        BY <3>1, <3>4 DEF WellFormed
      <4> QED
        BY <3>3, <3>4, <4>1, GridWithin
    <3> QED
      BY <3>2, <3>3, <3>4 DEF DeliveredWithin
  <2>4. ASSUME NEW f \in S, NEW scope \in Filters, NEW granted \in Filters
        PROVE  NarrowerIsLess(f, scope, granted)
    <3>1. WellFormed(f) /\ scope \in Filter /\ granted \in Filter /\ granted # None
      BY <2>2, DatasetQueriesAssumption
    <3> QED
      BY <3>1, TableNarrower DEF NarrowerIsLess, WellFormed
  <2>5. PICK names, files : names = SetToSeq(S) /\ files = [i \in DOMAIN names |-> FileOf(names[i])]
    OBVIOUS
  <2>6. ASSUME NEW scope \in Filters, NEW format \in {"csv", "netcdf", "mat"}
        PROVE  CountWithin(files, format, scope)
    BY <2>2, <2>5, FilesDeliver
  <2> QED
    BY <2>1, <2>3, <2>4, <2>5, <2>6 DEF WithinScope
<1> QED
  BY <1>1, TypesCorrect, PTL

-----------------------------------------------------------------------------
(* The counts of the catalogue and of the selector                         *)

\* A content of tables and grids that their parsers made.
GoodContent(d) ==
    /\ IsFiniteSet(d.records)
    /\ \A r \in d.records : r.label["quality_flag"] \in QualityFlags
    /\ IsFiniteSet(DOMAIN d.tables) /\ \A i \in DOMAIN d.tables : IsTable(d.tables[i])
    /\ IsFiniteSet(DOMAIN d.grids) /\ \A i \in DOMAIN d.grids : IsGrid(d.grids[i].ds)

TablesMatching(d, f) == [i \in DOMAIN d.tables |-> TableMatching(d.tables[i], f)]
TablesTotal(d) == [i \in DOMAIN d.tables |-> TableTotal(d.tables[i])]
GridsMatching(d, f) == [i \in DOMAIN d.grids |-> GridMatching(d.grids[i].ds, d.grids[i].variables, f)]
GridsTotal(d) == [i \in DOMAIN d.grids |-> GridTotal(d.grids[i].ds, d.grids[i].variables)]

LEMMA CountsAre ==
    ASSUME NEW d, NEW f
    PROVE  /\ MatchingCount(d, f) = Cardinality(RecordsMatching(d.records, f))
                                      + SumFunctionOnSet(TablesMatching(d, f), DOMAIN d.tables)
                                      + SumFunctionOnSet(GridsMatching(d, f), DOMAIN d.grids)
           /\ TotalCount(d) = Cardinality(d.records)
                                + SumFunctionOnSet(TablesTotal(d), DOMAIN d.tables)
                                + SumFunctionOnSet(GridsTotal(d), DOMAIN d.grids)
BY DEF MatchingCount, TotalCount, Sum, SumFunction, TablesMatching, GridsMatching, TablesTotal, GridsTotal

\* The terms of the sums are numbers.
LEMMA TermsNat ==
    ASSUME NEW d, GoodContent(d), NEW f
    PROVE  /\ Cardinality(RecordsMatching(d.records, f)) \in Nat /\ Cardinality(d.records) \in Nat
           /\ Cardinality(RecordsMatching(d.records, f)) <= Cardinality(d.records)
           /\ \A i \in DOMAIN d.tables : TablesMatching(d, f)[i] \in Nat /\ TablesTotal(d)[i] \in Nat
           /\ \A i \in DOMAIN d.grids : GridsMatching(d, f)[i] \in Nat /\ GridsTotal(d)[i] \in Nat
<1>1. RecordsMatching(d.records, f) \in SUBSET d.records
  BY DEF RecordsMatching
<1>2. IsFiniteSet(d.records)
  BY DEF GoodContent
<1>3. /\ Cardinality(RecordsMatching(d.records, f)) \in Nat /\ Cardinality(d.records) \in Nat
      /\ Cardinality(RecordsMatching(d.records, f)) <= Cardinality(d.records)
  BY <1>1, <1>2, FS_Subset, FS_CardinalityType
<1>4. \A i \in DOMAIN d.tables : TablesMatching(d, f)[i] \in Nat /\ TablesTotal(d)[i] \in Nat
  BY TableCounts DEF GoodContent, TablesMatching, TablesTotal
<1>5. \A i \in DOMAIN d.grids : GridsMatching(d, f)[i] \in Nat /\ GridsTotal(d)[i] \in Nat
  BY GridCounts DEF GoodContent, GridsMatching, GridsTotal
<1> QED
  BY <1>3, <1>4, <1>5

LEMMA CoverageBoundedHolds ==
    ASSUME NEW d, GoodContent(d), NEW p, NEW f
    PROVE  CoverageBounded(d, p, f)
<1>1. PICK c : c = [VizFilterToRecordsFilter(f) EXCEPT !.parameters = IF p = None THEN {} ELSE {p}]
  OBVIOUS
<1>2. Coverage(d, p, f).matching = MatchingCount(d, c) /\ Coverage(d, p, f).total = TotalCount(d)
  BY <1>1 DEF Coverage
<1>3. SUFFICES ASSUME \A g \in ToSet(d.grids), v \in UNION {DOMAIN h.ds.vars : h \in ToSet(d.grids)} :
                         v \in DOMAIN g.ds.vars /\ HasPlace(g.ds)
                             => Dims(g.ds.coords[LatName(g.ds)]) \cup Dims(g.ds.coords[LonName(g.ds)])
                                    \subseteq Dims(g.ds.vars[v])
               PROVE  MatchingCount(d, c) <= TotalCount(d)
  BY <1>2 DEF CoverageBounded
<1>4. PICK D, E, tm, tt, gm, gt :
        /\ D = DOMAIN d.tables /\ tm = TablesMatching(d, c) /\ tt = TablesTotal(d)
        /\ E = DOMAIN d.grids /\ gm = GridsMatching(d, c) /\ gt = GridsTotal(d)
  OBVIOUS
<1>5. \A i \in D : tm[i] \in Nat /\ tt[i] \in Nat /\ tm[i] <= tt[i]
  <2>1. \A i \in D : tm[i] = TableMatching(d.tables[i], c) /\ tt[i] = TableTotal(d.tables[i])
    BY <1>4 DEF TablesMatching, TablesTotal
  <2>2. \A i \in D : TableMatching(d.tables[i], c) <= TableTotal(d.tables[i])
    BY <1>4, TableBounded DEF GoodContent
  <2> QED
    BY <1>4, <2>1, <2>2, TermsNat
<1>6. \A i \in E : gm[i] \in Nat /\ gt[i] \in Nat /\ gm[i] <= gt[i]
  <2>1. ASSUME NEW i \in E PROVE gm[i] <= gt[i]
    <3>1. PICK ds, variables : ds = d.grids[i].ds /\ variables = d.grids[i].variables
      OBVIOUS
    <3>2. d.grids[i] \in ToSet(d.grids)
      BY <1>4 DEF ToSet
    <3>3. \A v \in DOMAIN ds.vars : AlongBox(ds, v)
      BY <1>3, <3>1, <3>2 DEF AlongBox
    <3>4. IsGrid(ds)
      BY <1>4, <3>1 DEF GoodContent
    <3>5. GridMatching(ds, variables, c) <= GridTotal(ds, variables)
      BY <3>3, <3>4, GridBounded
    <3> QED
      BY <1>4, <3>1, <3>5 DEF GridsMatching, GridsTotal
  <2> QED
    BY <1>4, <2>1, TermsNat
<1>7. SumFunctionOnSet(tm, D) <= SumFunctionOnSet(tt, D) /\ SumFunctionOnSet(tm, D) \in Nat /\ SumFunctionOnSet(tt, D) \in Nat
  <2>1. IsFiniteSet(D)
    BY <1>4 DEF GoodContent
  <2> QED
    BY <1>5, <2>1, SumMonotone, SumNat
<1>8. SumFunctionOnSet(gm, E) <= SumFunctionOnSet(gt, E) /\ SumFunctionOnSet(gm, E) \in Nat /\ SumFunctionOnSet(gt, E) \in Nat
  <2>1. IsFiniteSet(E)
    BY <1>4 DEF GoodContent
  <2> QED
    BY <1>6, <2>1, SumMonotone, SumNat
<1>9. PICK m, n \in Nat : m = Cardinality(RecordsMatching(d.records, c)) /\ n = Cardinality(d.records) /\ m <= n
  BY TermsNat
<1>10. /\ MatchingCount(d, c) = m + SumFunctionOnSet(tm, D) + SumFunctionOnSet(gm, E)
       /\ TotalCount(d) = n + SumFunctionOnSet(tt, D) + SumFunctionOnSet(gt, E)
  BY <1>4, <1>9, CountsAre
<1> QED
  BY <1>7, <1>8, <1>9, <1>10

LEMMA SelectorAgreesHolds ==
    ASSUME NEW d, NEW extents
    PROVE  SelectorAgrees(d, extents)
<1>1. PICK shown : shown = VisualizableDataset(registry, reviewed, extents, d.records)
  OBVIOUS
<1>2. SUFFICES ASSUME shown # None
               PROVE  /\ shown.variables = {p \in DOMAIN registry : IsVisualizationVariable(registry, p)}
                      /\ shown.extent = TemporalExtent(extents, d.records)
  BY <1>1 DEF SelectorAgrees
<1>3. PICK dated, starts, ends, days :
        /\ dated = {e \in extents : e[1] # None}
        /\ starts = {e[1] : e \in extents} \ {None}
        /\ ends = {e[2] : e \in dated} \ {None}
        /\ days = {r.time : r \in d.records} \ {None}
  OBVIOUS
<1>4. /\ shown.variables = {v \in DOMAIN registry :
                               "visualization_variable" \in registry[v].roles /\ ~registry[v].is_dimension}
      /\ shown.extent = IF starts # {} THEN <<Extent(starts)[1], Extent(ends)[2]>> ELSE Extent(days)
  BY <1>1, <1>2, <1>3 DEF VisualizableDataset
<1>5. starts = {e[1] : e \in dated}
  BY <1>3
<1>6. dated = {} <=> starts = {}
  BY <1>3
<1>7. TemporalExtent(extents, d.records)
        = IF dated # {} THEN <<Min(starts), IF ends = {} THEN None ELSE Max(ends)>> ELSE Extent(days)
  BY <1>3, <1>5 DEF TemporalExtent
<1>8. starts # {} => Extent(starts)[1] = Min(starts)
  BY DEF Extent
<1>9. Extent(ends)[2] = IF ends = {} THEN None ELSE Max(ends)
  BY DEF Extent
<1> QED
  BY <1>4, <1>6, <1>7, <1>8, <1>9 DEF IsVisualizationVariable

-----------------------------------------------------------------------------
(* The breakdown by quality                                                *)

LEMMA ThreeParts ==
    ASSUME NEW M, IsFiniteSet(M), NEW A, NEW B, NEW C, M = A \cup B \cup C,
           A \cap B = {}, A \cap C = {}, B \cap C = {}
    PROVE  /\ Cardinality(A) \in Nat /\ Cardinality(B) \in Nat /\ Cardinality(C) \in Nat
           /\ Cardinality(M) = Cardinality(A) + Cardinality(B) + Cardinality(C)
<1>1. IsFiniteSet(A) /\ IsFiniteSet(B) /\ IsFiniteSet(C)
  BY FS_Subset
<1>2. Cardinality(A) \in Nat /\ Cardinality(B) \in Nat /\ Cardinality(C) \in Nat
  BY <1>1, FS_CardinalityType
<1>3. PICK D : D = A \cup B
  OBVIOUS
<1>4. IsFiniteSet(D) /\ Cardinality(D) = Cardinality(A) + Cardinality(B)
  <2>1. IsFiniteSet(D) /\ Cardinality(D) = Cardinality(A) + Cardinality(B) - Cardinality(A \cap B)
    BY <1>1, <1>3, FS_Union
  <2>2. Cardinality(A \cap B) = 0
    BY FS_EmptySet
  <2> QED
    BY <1>2, <2>1, <2>2
<1>5. Cardinality(M) = Cardinality(D) + Cardinality(C)
  <2>1. D \cap C = {} /\ M = D \cup C
    BY <1>3
  <2>2. Cardinality(D \cup C) = Cardinality(D) + Cardinality(C) - Cardinality(D \cap C)
    BY <1>1, <1>4, FS_Union
  <2>3. Cardinality(D \cap C) = 0 /\ Cardinality(M) = Cardinality(D \cup C)
    BY <2>1, FS_EmptySet
  <2> QED
    BY <1>2, <1>4, <2>2, <2>3
<1> QED
  BY <1>2, <1>4, <1>5

\* An observation has the flag of its row.
LEMMA FlagOfObservation ==
    ASSUME NEW t, Flagged(t), "quality_flag" \in t.columns, NEW m \in BaseMelted(t)
    PROVE  m.cell["quality_flag"] \in QualityFlags
<1>1. PICK i \in DOMAIN t.rows, v \in VariableColumns(t) : m = MeltedAs(t, i, v)
  BY MeltedIs
<1>2. "quality_flag" \in ViewColumns(t) /\ t.rows[i]["quality_flag"] \in QualityFlags
  BY DEF Flagged, Binds
<1>3. CoordinateAlias(t, t.rows[i], "quality_flag") = t.rows[i]["quality_flag"]
  BY DEF CoordinateAlias, CoordColumns, Roles
<1>4. m.cell["quality_flag"] = CoordinateAlias(t, t.rows[i], "quality_flag")
  BY <1>1, <1>2 DEF MeltedAs
<1> QED
  BY <1>2, <1>3, <1>4

LEMMA TableFlags ==
    ASSUME NEW t, IsTable(t), Flagged(t), NEW f, NEW q, q = TableQuality(t, f)
    PROVE  /\ q["normal"] \in Nat /\ q["caution"] \in Nat /\ q["alert"] \in Nat
           /\ q["normal"] + q["caution"] + q["alert"] = TableMatching(t, f)
<1>1. TableMatching(t, f) \in Nat
  BY TableCounts
<1>2. CASE "quality_flag" \notin t.columns
  <2>1. q["normal"] = TableMatching(t, f) /\ q["caution"] = 0 /\ q["alert"] = 0
    BY <1>2 DEF TableQuality, QualityFlags
  <2> QED
    BY <1>1, <2>1
<1>3. CASE "quality_flag" \in t.columns
  <2>1. PICK M : M = Matching(t, f)
    OBVIOUS
  <2>2. IsFiniteSet(M) /\ \A m \in M : m.cell["quality_flag"] \in QualityFlags
    <3>1. M \subseteq BaseMelted(t)
      BY <2>1 DEF Matching
    <3> QED
      BY <1>3, <3>1, BaseMeltedFinite, FlagOfObservation, FS_Subset
  <2>3. PICK A, B, C : /\ A = {m \in M : m.cell["quality_flag"] = "normal"}
                       /\ B = {m \in M : m.cell["quality_flag"] = "caution"}
                       /\ C = {m \in M : m.cell["quality_flag"] = "alert"}
    OBVIOUS
  <2>4. q["normal"] = Cardinality(A) /\ q["caution"] = Cardinality(B) /\ q["alert"] = Cardinality(C)
    BY <1>3, <2>1, <2>3 DEF TableQuality, QualityFlags
  <2>5. M = A \cup B \cup C /\ A \cap B = {} /\ A \cap C = {} /\ B \cap C = {}
    BY <2>2, <2>3 DEF QualityFlags
  <2>6. TableMatching(t, f) = Cardinality(M)
    BY <2>1 DEF TableMatching
  <2> QED
    BY <2>2, <2>4, <2>5, <2>6, ThreeParts
<1> QED
  BY <1>2, <1>3

LEMMA RecordFlags ==
    ASSUME NEW R, IsFiniteSet(R), \A r \in R : r.label["quality_flag"] \in QualityFlags,
           NEW f, NEW q, q = RecordQuality(R, f)
    PROVE  /\ q["normal"] \in Nat /\ q["caution"] \in Nat /\ q["alert"] \in Nat
           /\ q["normal"] + q["caution"] + q["alert"] = Cardinality(RecordsMatching(R, f))
<1>1. PICK M : M = RecordsMatching(R, f)
  OBVIOUS
<1>2. IsFiniteSet(M) /\ M \subseteq R
  BY <1>1, FS_Subset DEF RecordsMatching
<1>3. PICK A, B, C : /\ A = {r \in M : r.label["quality_flag"] = "normal"}
                     /\ B = {r \in M : r.label["quality_flag"] = "caution"}
                     /\ C = {r \in M : r.label["quality_flag"] = "alert"}
  OBVIOUS
<1>4. q["normal"] = Cardinality(A) /\ q["caution"] = Cardinality(B) /\ q["alert"] = Cardinality(C)
  BY <1>1, <1>3 DEF RecordQuality, QualityFlags
<1>5. M = A \cup B \cup C /\ A \cap B = {} /\ A \cap C = {} /\ B \cap C = {}
  BY <1>2, <1>3 DEF QualityFlags
<1> QED
  BY <1>1, <1>2, <1>4, <1>5, ThreeParts

\* The sum over the three flags.
LEMMA SumOfFlags ==
    ASSUME NEW q, DOMAIN q = QualityFlags, \A flag \in QualityFlags : q[flag] \in Int
    PROVE  SumFunction(q) = q["normal"] + q["caution"] + q["alert"]
<1>1. PICK S, T, U : /\ S = {"normal", "caution", "alert"} /\ T = {"caution", "alert"} /\ U = {"alert"}
  OBVIOUS
<1>2. IsFiniteSet(S) /\ IsFiniteSet(T) /\ IsFiniteSet(U)
  <2>1. IsFiniteSet(U) /\ T = U \cup {"caution"} /\ S = T \cup {"normal"}
    BY <1>1, FS_Singleton
  <2> QED
    BY <2>1, FS_AddElement
<1>3. S \ {"normal"} = T /\ T \ {"caution"} = U /\ U \ {"alert"} = {}
  BY <1>1
<1>4. "normal" \in S /\ "caution" \in T /\ "alert" \in U /\ \A x \in S : q[x] \in Int
  BY <1>1 DEF QualityFlags
<1>5. /\ SumFunctionOnSet(q, S) = q["normal"] + SumFunctionOnSet(q, T)
      /\ SumFunctionOnSet(q, T) = q["caution"] + SumFunctionOnSet(q, U)
      /\ SumFunctionOnSet(q, U) = q["alert"] + SumFunctionOnSet(q, {})
  <2>1. (\A x \in T : q[x] \in Int) /\ (\A x \in U : q[x] \in Int)
    BY <1>1, <1>4
  <2> QED
    BY <1>2, <1>3, <1>4, <2>1, SumRemove
<1>6. SumFunction(q) = SumFunctionOnSet(q, S)
  BY <1>1 DEF SumFunction, QualityFlags
<1>7. q["normal"] \in Int /\ q["caution"] \in Int /\ q["alert"] \in Int
  BY <1>4, <1>1
<1> QED
  BY <1>5, <1>6, <1>7, SumEmpty

TablesOfFlag(d, f, flag) == [i \in DOMAIN d.tables |-> TableQuality(d.tables[i], f)[flag]]

LEMMA BreakdownIs ==
    ASSUME NEW d, NEW f, NEW q, q = QualityBreakdown(d, f), NEW r, r = RecordQuality(d.records, f)
    PROVE  /\ DOMAIN q = QualityFlags
           /\ q["normal"] = r["normal"] + SumFunctionOnSet(TablesOfFlag(d, f, "normal"), DOMAIN d.tables)
                              + SumFunctionOnSet(GridsMatching(d, f), DOMAIN d.grids)
           /\ q["caution"] = r["caution"] + SumFunctionOnSet(TablesOfFlag(d, f, "caution"), DOMAIN d.tables) + 0
           /\ q["alert"] = r["alert"] + SumFunctionOnSet(TablesOfFlag(d, f, "alert"), DOMAIN d.tables) + 0
BY DEF QualityBreakdown, QualityFlags, Sum, SumFunction, TablesOfFlag, GridsMatching

LEMMA BreakdownAgreesHolds ==
    ASSUME NEW d, GoodContent(d), NEW f
    PROVE  BreakdownAgrees(d, f)
<1>1. SUFFICES ASSUME \A i \in DOMAIN d.tables : Flagged(d.tables[i])
               PROVE  SumFunction(QualityBreakdown(d, f)) = MatchingCount(d, f)
  BY DEF BreakdownAgrees
<1>2. PICK q, r, D, n, c, a, b, m, gm :
        /\ q = QualityBreakdown(d, f) /\ r = RecordQuality(d.records, f) /\ D = DOMAIN d.tables
        /\ n = TablesOfFlag(d, f, "normal") /\ c = TablesOfFlag(d, f, "caution")
        /\ a = TablesOfFlag(d, f, "alert")
        /\ b = [i \in D |-> c[i] + a[i]]
        /\ m = TablesMatching(d, f)
        /\ gm = GridsMatching(d, f)
  OBVIOUS
<1>3. IsFiniteSet(D) /\ \A i \in D : /\ n[i] \in Nat /\ c[i] \in Nat /\ a[i] \in Nat
                                     /\ b[i] = c[i] + a[i] /\ m[i] = n[i] + b[i]
  <2>1. \A i \in D : /\ n[i] = TableQuality(d.tables[i], f)["normal"]
                     /\ c[i] = TableQuality(d.tables[i], f)["caution"]
                     /\ a[i] = TableQuality(d.tables[i], f)["alert"]
                     /\ m[i] = TableMatching(d.tables[i], f)
                     /\ b[i] = c[i] + a[i]
    BY <1>2 DEF TablesOfFlag, TablesMatching
  <2>2. \A i \in D : IsTable(d.tables[i]) /\ Flagged(d.tables[i])
    BY <1>1, <1>2 DEF GoodContent
  <2>3. IsFiniteSet(D)
    BY <1>2 DEF GoodContent
  <2> QED
    BY <2>1, <2>2, <2>3, TableFlags
<1>4. PICK sn, sc, sa, sb, sm \in Nat :
        /\ sn = SumFunctionOnSet(n, D) /\ sc = SumFunctionOnSet(c, D) /\ sa = SumFunctionOnSet(a, D)
        /\ sb = SumFunctionOnSet(b, D) /\ sm = SumFunctionOnSet(m, D)
  <2>1. \A i \in D : b[i] \in Nat /\ m[i] \in Nat
    BY <1>3
  <2> QED
    BY <1>3, <2>1, SumNat
<1>5. sb = sc + sa
  BY <1>3, <1>4, SumPlus
<1>6. sm = sn + sb
  <2>1. \A i \in D : n[i] \in Int /\ b[i] \in Int /\ m[i] = n[i] + b[i]
    BY <1>3
  <2> QED
    BY <1>3, <1>4, <2>1, SumPlus
<1>7. PICK g \in Nat : g = SumFunctionOnSet(gm, DOMAIN d.grids)
  BY <1>2, TermsNat, SumNat DEF GoodContent
<1>8. PICK rn, rc, ra \in Nat : /\ rn = r["normal"] /\ rc = r["caution"] /\ ra = r["alert"]
                                /\ rn + rc + ra = Cardinality(RecordsMatching(d.records, f))
  BY <1>2, RecordFlags DEF GoodContent
<1>9. DOMAIN q = QualityFlags /\ q["normal"] = rn + sn + g /\ q["caution"] = rc + sc /\ q["alert"] = ra + sa
  BY <1>2, <1>4, <1>7, <1>8, BreakdownIs
<1>10. SumFunction(q) = q["normal"] + q["caution"] + q["alert"]
  BY <1>9, SumOfFlags DEF QualityFlags
<1>11. MatchingCount(d, f) = Cardinality(RecordsMatching(d.records, f)) + sm + g
  BY <1>2, <1>4, <1>7, CountsAre
<1> QED
  BY <1>2, <1>5, <1>6, <1>8, <1>9, <1>10, <1>11

-----------------------------------------------------------------------------
(* The quality scan                                                        *)

\* A row is of the file's format and of normal quality, or seeded.
LEMMA FlagOfRecord ==
    ASSUME NEW r \in PossibleRows
    PROVE  r.label["quality_flag"] \in QualityFlags
<1>1. CASE r \in Seeded
  BY <1>1, DatasetQueriesAssumption
<1>2. ASSUME NEW f \in Tabular, NEW id \in Actors \cup {None}, r \in RowsOf[f][id]
      PROVE  r.label["quality_flag"] \in QualityFlags
  <2>1. PICK t : RowsOf[f][id] = WriteDatasetRecords(t, f, id)
    BY DEF RowsOf
  <2>2. PICK i, v : r = RecordOf(t, f, i, v, id)
    BY <1>2, <2>1 DEF WriteDatasetRecords
  <2>3. r.label["quality_flag"] = "normal"
    BY <2>2 DEF RecordOf, Labels
  <2> QED
    BY <2>3 DEF QualityFlags
<1> QED
  BY <1>1, <1>2 DEF PossibleRows

TablesIngested == {f \in ingested : Parsed[f].kind = "table"}

\* What the readers are shown, file by file.
LEMMA ContentIs ==
    ASSUME TypesInv, NEW d, d = Content
    PROVE  /\ GoodContent(d)
           /\ d.records = records
           /\ \E names \in Bijection(DOMAIN d.tables, TablesIngested) :
                \A i \in DOMAIN d.tables : d.tables[i] = Parsed[names[i]].table
<1>1. PICK ts, gs, T, G :
        /\ ts = Listed("table") /\ gs = Listed("grid")
        /\ T = TablesIngested /\ G = {f \in ingested : Parsed[f].kind = "grid"}
  OBVIOUS
<1>2. /\ IsFiniteSet(ingested) /\ ingested \subseteq Files /\ IsFiniteSet(records) /\ records \subseteq PossibleRows
      /\ \A f \in ingested : Parsed[f] # None /\ WellFormed(f)
  BY DatasetQueriesAssumption DEF TypesInv, ContentOK
<1>3. IsFiniteSet(T) /\ IsFiniteSet(G) /\ T \subseteq ingested /\ G \subseteq ingested
  BY <1>1, <1>2, FS_Subset DEF TablesIngested
<1>4. ts = SetToSeq(T) /\ gs = SetToSeq(G)
  BY <1>1 DEF Listed, TablesIngested
<1>5. d.records = records
  BY DEF Content
<1>6. d.tables = [i \in DOMAIN ts |-> Parsed[ts[i]].table]
  BY <1>1 DEF Content
<1>7. d.grids = [i \in DOMAIN gs |-> [ds |-> Parsed[gs[i]].ds, variables |-> Parsed[gs[i]].variables]]
  BY <1>1 DEF Content
<1>8. DOMAIN d.tables = DOMAIN ts /\ DOMAIN d.grids = DOMAIN gs
  BY <1>6, <1>7
<1>9. /\ ts \in Bijection(DOMAIN ts, T) /\ IsFiniteSet(DOMAIN ts)
      /\ gs \in Bijection(DOMAIN gs, G) /\ IsFiniteSet(DOMAIN gs)
  <2>1. ASSUME NEW S, IsFiniteSet(S), NEW s, s = SetToSeq(S)
        PROVE  s \in Bijection(DOMAIN s, S) /\ IsFiniteSet(DOMAIN s)
    <3>1. PICK n \in Nat : n = Cardinality(S)
      BY <2>1, FS_CardinalityType
    <3>2. DOMAIN s = 1..n /\ s \in Bijection(1..n, S)
      BY <2>1, <3>1, SetToSeqIs
    <3>3. IsFiniteSet(1..n)
      BY FS_Interval
    <3> QED
      BY <3>2, <3>3
  <2> QED
    BY <1>3, <1>4, <2>1
<1>10. (\A i \in DOMAIN ts : ts[i] \in T) /\ (\A i \in DOMAIN gs : gs[i] \in G)
  BY <1>9 DEF Bijection, Injection
<1>11. \A i \in DOMAIN d.tables : IsTable(d.tables[i])
  BY <1>1, <1>2, <1>3, <1>6, <1>8, <1>10 DEF WellFormed, TablesIngested
<1>12. \A i \in DOMAIN d.grids : IsGrid(d.grids[i].ds)
  <2>1. ASSUME NEW i \in DOMAIN gs PROVE IsGrid(d.grids[i].ds)
    <3>1. d.grids[i].ds = Parsed[gs[i]].ds
      BY <1>7
    <3>2. gs[i] \in ingested /\ Parsed[gs[i]].kind = "grid"
      BY <1>1, <1>10
    <3> QED
      BY <1>2, <3>1, <3>2 DEF WellFormed
  <2> QED
    BY <1>8, <2>1
<1>13. \A r \in d.records : r.label["quality_flag"] \in QualityFlags
  BY <1>2, <1>5, FlagOfRecord
<1>14. GoodContent(d)
  BY <1>2, <1>5, <1>8, <1>9, <1>11, <1>12, <1>13 DEF GoodContent
<1>15. ts \in Bijection(DOMAIN d.tables, T) /\ \A i \in DOMAIN d.tables : d.tables[i] = Parsed[ts[i]].table
  BY <1>6, <1>8, <1>9
<1> QED
  BY <1>1, <1>5, <1>14, <1>15

\* A sum of nothing.
LEMMA SumZero ==
    ASSUME NEW n, NEW S, IsFiniteSet(S), \A x \in S : n[x] = 0
    PROVE  SumFunctionOnSet(n, S) = 0
<1>1. \A x \in S : n[x] \in Int /\ n[x] = n[x] + n[x]
  OBVIOUS
<1>2. PICK k \in Int : k = SumFunctionOnSet(n, S)
  BY <1>1, SumInt
<1>3. SumFunctionOnSet(n, S) = SumFunctionOnSet(n, S) + SumFunctionOnSet(n, S)
  BY <1>1, SumPlus
<1>4. k = k + k
  BY <1>2, <1>3
<1>5. k = 0
  BY <1>4
<1> QED
  BY <1>2, <1>5

\* A scan counts each row, and each value of a table: as many as the files declare if
\* none has fewer than it declared, and then as many as record_count says.
LEMMA IncompleteHasReasonHolds ==
    ASSUME TypesInv, NEW d, d = Content
    PROVE  IncompleteHasReason(d)
<1>1. SUFFICES ASSUME repeated = {}, \A f \in Legacy \cup ingested : ~(FoundIn(f) < ContentCount[f])
               PROVE  "missing" \notin QcScan(d, record_count, {})
  BY DEF IncompleteHasReason
<1>2. PICK O, N, G, L, found, D, tt, declared :
        /\ O = Legacy /\ N = ingested /\ G = TablesIngested /\ L = O \cup N
        /\ found = [f \in L |-> FoundIn(f)]
        /\ D = DOMAIN d.tables /\ tt = TablesTotal(d)
        /\ declared = [f \in L |-> ContentCount[f]]
  OBVIOUS
<1>3. GoodContent(d) /\ d.records = records
  BY ContentIs
<1>4. PICK names \in Bijection(D, G) : \A i \in D : d.tables[i] = Parsed[names[i]].table
  BY <1>2, ContentIs
<1>5. /\ IsFiniteSet(O) /\ IsFiniteSet(N) /\ IsFiniteSet(G) /\ IsFiniteSet(L)
      /\ O \cap N = {} /\ G \subseteq N /\ L \subseteq Files
  <2>1. IsFiniteSet(O) /\ IsFiniteSet(N) /\ O \cap N = {} /\ L \subseteq Files /\ G \subseteq N
    BY <1>2, DatasetQueriesAssumption DEF TypesInv, ContentOK, TablesIngested
  <2> QED
    BY <1>2, <2>1, FS_Subset, FS_Union
<1>6. IsFiniteSet(records)
  BY DEF TypesInv, ContentOK
<1>7. \A f \in O : found[f] = Cardinality(Rows(f)) /\ found[f] \in Nat
  <2>1. \A f : Cardinality(Rows(f)) \in Nat
    BY <1>6, FS_Subset, FS_CardinalityType DEF Rows
  <2> QED
    BY <1>2, <2>1 DEF FoundIn
<1>8. \A f \in G : found[f] = TableTotal(Parsed[f].table)
  BY <1>2, <1>5 DEF FoundIn, TablesIngested
<1>9. \A f \in N \ G : found[f] = 0
  BY <1>2, <1>5 DEF FoundIn, TablesIngested
<1>10. \A i \in D : names[i] \in G /\ tt[i] = TableTotal(d.tables[i]) /\ tt[i] \in Nat /\ found[names[i]] = tt[i]
  <2>1. \A i \in D : names[i] \in G
    BY <1>4 DEF Bijection, Injection
  <2> QED
    BY <1>2, <1>3, <1>4, <1>8, <2>1, TableCounts DEF TablesTotal, GoodContent
<1>11. \A f \in L : found[f] \in Nat
  <2>1. \A f \in G : \E i \in D : names[i] = f
    BY <1>4 DEF Bijection, Surjection
  <2>2. \A f \in G : found[f] \in Nat
    BY <1>10, <2>1
  <2> QED
    BY <1>2, <1>7, <1>9, <2>2
<1>12. \A f \in L : declared[f] \in Nat /\ declared[f] <= found[f]
  BY <1>1, <1>2, <1>5, <1>11, DatasetQueriesAssumption
\* The files.
<1>13. Declared(L) <= SumFunctionOnSet(found, L) /\ Declared(L) \in Nat
  <2>1. Declared(L) = SumFunctionOnSet(declared, L)
    BY <1>2 DEF Declared, SumFunction
  <2>2. SumFunctionOnSet(declared, L) <= SumFunctionOnSet(found, L)
    BY <1>5, <1>11, <1>12, SumMonotone
  <2> QED
    BY <1>5, <2>1, <2>2, DeclaredOf
<1>14. SumFunctionOnSet(found, L) = SumFunctionOnSet(found, O) + SumFunctionOnSet(found, N)
  <2>1. L = O \cup N /\ \A f \in O \cup N : found[f] \in Int
    BY <1>2, <1>11
  <2>2. SumFunctionOnSet(found, O \cup N) = SumFunctionOnSet(found, O) + SumFunctionOnSet(found, N)
    BY <1>5, <2>1, SumUnion
  <2> QED
    BY <2>1, <2>2
<1>15. SumFunctionOnSet(found, N) = SumFunctionOnSet(tt, D) /\ SumFunctionOnSet(tt, D) \in Nat
  <2>1. IsFiniteSet(D)
    BY <1>2, <1>3 DEF GoodContent
  <2>2. SumFunctionOnSet(tt, D) = SumFunctionOnSet(found, G) /\ SumFunctionOnSet(tt, D) \in Nat
    BY <1>4, <1>10, <2>1, SumRenamed, SumNat
  <2>3. PICK Z : Z = N \ G
    OBVIOUS
  <2>6. N = G \cup Z /\ G \cap Z = {} /\ IsFiniteSet(Z)
    <3>1. Z \subseteq N /\ N = G \cup Z /\ G \cap Z = {}
      BY <1>5, <2>3
    <3> QED
      BY <1>5, <3>1, FS_Subset
  <2>4. SumFunctionOnSet(found, N) = SumFunctionOnSet(found, G) + SumFunctionOnSet(found, Z)
    <3>1. \A f \in G \cup Z : found[f] \in Int
      BY <1>2, <1>11, <2>6
    <3> QED
      BY <1>5, <2>6, <3>1, SumUnion
  <2>5. SumFunctionOnSet(found, Z) = 0
    BY <1>9, <2>3, <2>6, SumZero
  <2> QED
    BY <2>2, <2>4, <2>5
\* The rows.
<1>16. PICK n, k, m \in Nat :
         /\ n = Cardinality(records) /\ k = Cardinality(Rows(None)) /\ m = SumFunctionOnSet(found, O)
         /\ k + m <= n
  <2>1. PICK S, T : S = {r \in records : r.file \in O} /\ T = Rows(None)
    OBVIOUS
  <2>2. S \subseteq records /\ T \subseteq records /\ S \cap T = {}
    BY <1>2, <2>1, DatasetQueriesAssumption DEF Rows
  <2>3. IsFiniteSet(S) /\ IsFiniteSet(T) /\ IsFiniteSet(S \cup T)
    BY <1>6, <2>2, FS_Subset
  <2>4. Cardinality(S \cup T) = Cardinality(S) + Cardinality(T) - Cardinality(S \cap T) /\ Cardinality(S \cap T) = 0
    BY <2>2, <2>3, FS_Union, FS_EmptySet
  <2>5. Cardinality(S \cup T) <= Cardinality(records)
    BY <1>6, <2>2, FS_Subset
  <2>6. SumFunctionOnSet(found, O) <= Cardinality(S)
    <3>1. ASSUME NEW f \in O
          PROVE  \E part \in SUBSET records : found[f] = Cardinality(part) /\ \A r \in part : r.file = f
      <4>1. Rows(f) \in SUBSET records /\ \A r \in Rows(f) : r.file = f
        BY DEF Rows
      <4> QED
        BY <1>7, <3>1, <4>1
    <3> QED
      BY <1>5, <1>6, <2>1, <3>1, SumOfParts
  <2>7. SumFunctionOnSet(found, O) \in Nat
    BY <1>5, <1>7, SumNat
  <2>8. Cardinality(S) \in Nat /\ Cardinality(T) \in Nat /\ Cardinality(records) \in Nat
    BY <1>6, <2>3, FS_CardinalityType
  <2> QED
    BY <2>1, <2>4, <2>5, <2>6, <2>7, <2>8
<1>17. record_count = k + Declared(L)
  BY <1>1, <1>2, <1>16 DEF TypesInv, CountOK
<1>18. "missing" \in QcScan(d, record_count, {}) <=> 100 * (n + SumFunctionOnSet(tt, D)) < 95 * record_count
  BY <1>2, <1>3, <1>16 DEF QcScan, MissesValues, Sum, SumFunction, TablesTotal
<1>19. record_count <= n + SumFunctionOnSet(tt, D) /\ record_count \in Nat
  BY <1>13, <1>14, <1>15, <1>16, <1>17
<1> QED
  BY <1>15, <1>16, <1>18, <1>19

-----------------------------------------------------------------------------
(* The ranges of the variables                                             *)

LEMMA Widened ==
    ASSUME NEW a \in OrNone(Int), NEW b \in OrNone(Int), NEW lo, lo = WidenMin(a, b), NEW hi, hi = WidenMax(a, b)
    PROVE  /\ lo \in OrNone(Int) /\ hi \in OrNone(Int)
           /\ a = None /\ b = None => lo = None
           /\ a # None => lo \in Int /\ lo <= a /\ hi \in Int /\ a <= hi
           /\ b # None => lo \in Int /\ lo <= b /\ hi \in Int /\ b <= hi
<1>1. None \notin Int
  BY ObservationsAssumption
<1>2. CASE a = None \/ b = None
  BY <1>1, <1>2 DEF WidenMin, WidenMax, OrNone
<1>3. CASE a # None /\ b # None
  <2>1. a \in Int /\ b \in Int
    BY <1>3 DEF OrNone
  <2>2. lo \in {a, b} /\ lo <= a /\ lo <= b
    <3>1. lo = CHOOSE x \in {a, b} : \A y \in {a, b} : x <= y
      BY <1>3 DEF WidenMin, Min
    <3>2. \E x \in {a, b} : \A y \in {a, b} : x <= y
      BY <2>1
    <3> QED
      BY <3>1, <3>2
  <2>3. hi \in {a, b} /\ a <= hi /\ b <= hi
    <3>1. hi = CHOOSE x \in {a, b} : \A y \in {a, b} : x >= y
      BY <1>3 DEF WidenMax, Max
    <3>2. \E x \in {a, b} : \A y \in {a, b} : x >= y
      BY <2>1
    <3>3. \A y \in {a, b} : hi >= y
      BY <3>1, <3>2
    <3> QED
      BY <2>1, <3>1, <3>2, <3>3
  <2> QED
    BY <1>3, <2>1, <2>2, <2>3 DEF OrNone
<1> QED
  BY <1>2, <1>3

\* The range of a variable: of whole numbers, and none for an auxiliary column.
InRange(v, x) ==
    x.min \in OrNone(Int) /\ x.max \in OrNone(Int) /\ (v \in Bounds => x.min = None /\ x.max = None)

Ranged(r) == \A v \in DOMAIN r : DOMAIN r[v] = VariableFields /\ InRange(v, r[v])

\* The range x holds the range y.
Holds(x, y) ==
    /\ y.min # None => x.min \in Int /\ x.min <= y.min
    /\ y.max # None => x.max \in Int /\ y.max <= x.max

Covers(r, s) == DOMAIN s \subseteq DOMAIN r /\ \A v \in DOMAIN s : Holds(r[v], s[v])

LEMMA Reflexive == ASSUME NEW v, NEW x, InRange(v, x) PROVE Holds(x, x)
BY DEF InRange, Holds, OrNone

LEMMA CoversAll ==
    ASSUME NEW r, NEW s, NEW t, Ranged(t), Covers(r, s), Covers(s, t)
    PROVE  Covers(r, t)
<1>1. ASSUME NEW v \in DOMAIN t PROVE Holds(r[v], t[v])
  <2>1. Holds(r[v], s[v]) /\ Holds(s[v], t[v]) /\ InRange(v, t[v])
    BY DEF Covers, Ranged
  <2>2. PICK x, y, z : x = r[v] /\ y = s[v] /\ z = t[v]
    OBVIOUS
  <2>3. None \notin Int
    BY ObservationsAssumption
  <2>4. Holds(x, z)
    BY <2>1, <2>2, <2>3 DEF Holds, InRange, OrNone
  <2> QED
    BY <2>2, <2>4
<1> QED
  BY <1>1 DEF Covers

\* A file widens the ranges of the registry: they hold the old ones and the file's.
LEMMA RangeWritten ==
    ASSUME NEW old, NEW found, Ranged(old), Ranged(found),
           NEW new, new = WriteVariableRegistry(old, found)
    PROVE  Ranged(new) /\ Covers(new, old) /\ Covers(new, found)
<1>1. DOMAIN new = DOMAIN old \cup DOMAIN found
  BY DEF WriteVariableRegistry
<1>2. ASSUME NEW v \in DOMAIN old, v \notin DOMAIN found
      PROVE  DOMAIN new[v] = VariableFields /\ InRange(v, new[v]) /\ Holds(new[v], old[v])
  <2>1. new[v] = old[v]
    BY <1>2 DEF WriteVariableRegistry
  <2> QED
    BY <2>1, Reflexive DEF Ranged
<1>3. ASSUME NEW v \in DOMAIN found, v \notin DOMAIN old
      PROVE  DOMAIN new[v] = VariableFields /\ InRange(v, new[v]) /\ Holds(new[v], found[v])
  <2>1. new[v] = found[v]
    BY <1>3 DEF WriteVariableRegistry, UpsertDatasetVariable
  <2> QED
    BY <2>1, Reflexive DEF Ranged
<1>4. ASSUME NEW v \in DOMAIN found, v \in DOMAIN old
      PROVE  /\ DOMAIN new[v] = VariableFields /\ InRange(v, new[v])
             /\ Holds(new[v], old[v]) /\ Holds(new[v], found[v])
  <2>1. PICK x, y, z : x = old[v] /\ y = found[v] /\ z = new[v]
    OBVIOUS
  <2>2. /\ InRange(v, x) /\ InRange(v, y) /\ DOMAIN x = VariableFields
    BY <1>4, <2>1 DEF Ranged
  <2>3. PICK lo, hi : lo = WidenMin(x.min, y.min) /\ hi = WidenMax(x.max, y.max)
    OBVIOUS
  <2>4. z = [x EXCEPT !.min = lo, !.max = hi]
    BY <1>4, <2>1, <2>3 DEF WriteVariableRegistry, UpsertDatasetVariable
  <2>5. z.min = lo /\ z.max = hi /\ DOMAIN z = VariableFields
    BY <2>2, <2>4 DEF VariableFields
  <2>6. /\ lo \in OrNone(Int) /\ (x.min = None /\ y.min = None => lo = None)
        /\ (x.min # None => lo \in Int /\ lo <= x.min) /\ (y.min # None => lo \in Int /\ lo <= y.min)
    BY <2>2, <2>3, Widened DEF InRange
  <2>7. /\ hi \in OrNone(Int) /\ (x.max # None => hi \in Int /\ x.max <= hi)
        /\ (y.max # None => hi \in Int /\ y.max <= hi)
    BY <2>2, <2>3, Widened DEF InRange
  <2>8. x.max = None /\ y.max = None => hi = None
    BY <2>3 DEF WidenMax
  <2>9. InRange(v, z)
    BY <2>2, <2>5, <2>6, <2>7, <2>8 DEF InRange
  <2>10. Holds(z, x) /\ Holds(z, y)
    BY <2>5, <2>6, <2>7 DEF Holds
  <2> QED
    BY <2>1, <2>5, <2>9, <2>10
<1> QED
  BY <1>1, <1>2, <1>3, <1>4 DEF Ranged, Covers

\* What the statistics of a column's row groups say.
LEMMA NumericRange ==
    ASSUME NEW t, IsTable(t), NEW v \in t.numeric, NEW range, range = NumericRangeFromRowGroups(t, v)
    PROVE  /\ range[1] \in OrNone(Int) /\ range[2] \in OrNone(Int)
           /\ \A i \in DOMAIN t.rows :
                t.rows[i][v] # None =>
                   /\ range[1] # None /\ range[2] # None
                   /\ range[1] <= t.rows[i][v] /\ t.rows[i][v] <= range[2]
<1>1. PICK S : S = {t.rows[i][v] : i \in DOMAIN t.rows} \ {None}
  OBVIOUS
<1>2. S \subseteq Int
  BY <1>1 DEF IsTable, OrNone
<1>3. range = IF S = {} THEN <<None, None>> ELSE <<Min(S), Max(S)>>
  BY <1>1 DEF NumericRangeFromRowGroups
<1>4. CASE S = {}
  BY <1>1, <1>3, <1>4 DEF OrNone
<1>5. CASE S # {}
  <2>1. IsFiniteSet(S)
    <3>1. IsFiniteSet(DOMAIN t.rows)
      BY FS_Interval DEF IsTable
    <3>2. PICK D, T, g : D = DOMAIN t.rows /\ T = {g[i] : i \in D} /\ g = [i \in D |-> t.rows[i][v]]
      OBVIOUS
    <3>3. IsFiniteSet(T)
      BY <3>1, <3>2, ImageFinite
    <3>4. S \subseteq T
      BY <1>1, <3>2
    <3> QED
      BY <3>3, <3>4, FS_Subset
  <2>2. Max(S) \in S /\ \A j \in S : j <= Max(S)
    <3>1. \E k \in S : \A j \in S : k >= j
      BY <1>2, <1>5, <2>1, GreatestOf DEF HasGreatest
    <3>2. Max(S) \in S /\ \A j \in S : Max(S) >= j
      BY <3>1 DEF Max
    <3> QED
      BY <1>2, <3>2
  <2>3. Min(S) \in S /\ \A j \in S : Min(S) <= j
    <3>1. PICK N, g : N = {g[x] : x \in S} /\ g = [x \in S |-> 0 - x]
      OBVIOUS
    <3>2. IsFiniteSet(N) /\ N # {} /\ N \subseteq Int
      <4>1. IsFiniteSet(N)
        BY <2>1, <3>1, ImageFinite
      <4>2. \A x \in S : g[x] \in N /\ g[x] \in Int
        BY <1>2, <3>1
      <4>3. N # {} /\ N \subseteq Int
        BY <1>5, <3>1, <4>2
      <4> QED
        BY <4>1, <4>3
    <3>3. PICK k \in N : \A j \in N : j <= k
      BY <3>2, GreatestOf DEF HasGreatest
    <3>4. PICK x \in S : k = 0 - x
      BY <3>1, <3>3
    <3>5. \A j \in S : x <= j
      BY <1>2, <3>1, <3>3, <3>4
    <3> QED
      BY <3>4, <3>5 DEF Min
  <2>4. range[1] = Min(S) /\ range[2] = Max(S)
    BY <1>3, <1>5
  <2>5. None \notin Int
    BY ObservationsAssumption
  <2>6. range[1] \in S /\ range[2] \in S /\ \A j \in S : range[1] <= j /\ j <= range[2]
    BY <2>2, <2>3, <2>4
  <2> QED
    BY <1>1, <1>2, <2>5, <2>6 DEF OrNone
<1> QED
  BY <1>4, <1>5

LEMMA VariableInRange ==
    ASSUME NEW v, NEW type, NEW dimension, NEW lo \in OrNone(Int), NEW hi \in OrNone(Int),
           v \in Bounds => lo = None /\ hi = None
    PROVE  InRange(v, Variable(type, dimension, lo, hi)) /\ DOMAIN Variable(type, dimension, lo, hi) = VariableFields
BY DEF InRange, Variable, VariableFields

LEMMA DetectedRanged ==
    ASSUME NEW t, IsTable(t)
    PROVE  Ranged(DetectedVariables(t))
<1>1. PICK s : s = DetectedVariables(t)
  OBVIOUS
<1>2. DOMAIN s = RecordVariables(t)
  BY <1>1 DEF DetectedVariables
<1>3. ASSUME NEW v \in RecordVariables(t) PROVE DOMAIN s[v] = VariableFields /\ InRange(v, s[v])
  <2>1. v \notin Bounds
    BY DEF RecordVariables
  <2>2. CASE v \notin t.numeric
    <3>1. s[v] = Variable("categorical", FALSE, None, None)
      BY <1>1, <2>2 DEF DetectedVariables
    <3> QED
      BY <3>1, VariableInRange DEF OrNone
  <2>3. CASE v \in t.numeric
    <3>1. PICK range : range = NumericRangeFromRowGroups(t, v)
      OBVIOUS
    <3>2. PICK lo, hi : lo = range[1] /\ hi = range[2]
      OBVIOUS
    <3>3. s[v] = Variable("numeric", FALSE, lo, hi)
      BY <1>1, <2>3, <3>1, <3>2 DEF DetectedVariables
    <3>4. lo \in OrNone(Int) /\ hi \in OrNone(Int)
      BY <2>3, <3>1, <3>2, NumericRange
    <3>5. InRange(v, s[v]) /\ DOMAIN s[v] = VariableFields
      BY <2>1, <3>3, <3>4 DEF InRange, Variable, VariableFields
    <3> QED
      BY <3>5
  <2> QED
    BY <2>2, <2>3
<1> QED
  BY <1>1, <1>2, <1>3 DEF Ranged

\* What the parsers find has ranges, and those of a table's variables are kept.
LEMMA VariablesRanged ==
    ASSUME NEW f \in Files, Parsed[f] # None
    PROVE  /\ Ranged(Variables[f])
           /\ Parsed[f].kind = "table" => Covers(Variables[f], DetectedVariables(Parsed[f].table))
<1>1. PICK p : p = Parsed[f]
  OBVIOUS
<1>2. Variables[f] = Registered(p)
  BY <1>1 DEF Variables
<1>3. ASSUME NEW S, NEW s, s = [x \in S |-> Variable("numeric", FALSE, None, None)] PROVE Ranged(s)
  BY <1>3, VariableInRange DEF Ranged, OrNone
<1>4. ASSUME NEW named PROVE Ranged(DetectedCoordinates(named))
  BY VariableInRange DEF Ranged, DetectedCoordinates, OrNone
<1>5. CASE p.kind = "raster"
  BY <1>1, <1>2, <1>3, <1>5 DEF Registered
<1>6. CASE p.kind = "table"
  <2>1. PICK c, s : c = DetectedCoordinates(p.named) /\ s = DetectedVariables(p.table)
    OBVIOUS
  <2>2. IsTable(p.table)
    BY <1>1, <1>6, DatasetQueriesAssumption DEF WellFormed
  <2>3. Ranged(c) /\ Ranged(s)
    BY <1>4, <2>1, <2>2, DetectedRanged
  <2>4. Variables[f] = WriteVariableRegistry(c, s)
    BY <1>2, <1>6, <2>1 DEF Registered
  <2> QED
    BY <1>1, <2>1, <2>3, <2>4, RangeWritten
<1>7. CASE p.kind \notin {"raster", "table"}
  <2>1. PICK c, s : /\ c = DetectedCoordinates(p.named)
                    /\ s = [v \in ToSet(p.variables) |-> Variable("numeric", FALSE, None, None)]
    OBVIOUS
  <2>2. Variables[f] = WriteVariableRegistry(c, s)
    BY <1>2, <1>7, <2>1 DEF Registered
  <2>3. Ranged(c) /\ Ranged(s)
    BY <1>3, <1>4, <2>1
  <2> QED
    BY <1>1, <1>7, <2>2, <2>3, RangeWritten
<1> QED
  BY <1>5, <1>6, <1>7

-----------------------------------------------------------------------------
(* The registry of the older files                                         *)

\* The fold over the older files, as a function of their sets.
Reads(g, S) ==
    g = [s \in SUBSET S |->
            IF s = {} THEN <<>> ELSE WriteVariableRegistry(g[s \ {First(s)}], Variables[First(s)])]

LEMMA ReadsUnique ==
    ASSUME NEW S, NEW T, IsFiniteSet(S), NEW g, NEW h, Reads(g, S), Reads(h, T)
    PROVE  \A s \in SUBSET (S \cap T) : g[s] = h[s]
<1>0. PICK B : B = {s \in SUBSET (S \cap T) : g[s] # h[s]}
  OBVIOUS
<1> SUFFICES ASSUME B # {} PROVE FALSE
  BY <1>0
<1>1. PICK s \in B : \A u \in B : ~(u \subseteq s /\ u # s)
  <2>1. IsFiniteSet(S \cap T) /\ B \subseteq SUBSET (S \cap T)
    BY <1>0, FS_Subset
  <2> QED
    BY <2>1, MinimalSubset
<1>2. s \in SUBSET S /\ s \in SUBSET T /\ g[s] # h[s]
  BY <1>0, <1>1
<1>3. CASE s = {}
  BY <1>2, <1>3 DEF Reads
<1>4. CASE s # {}
  <2>1. PICK x, u : x = First(s) /\ u = s \ {x}
    OBVIOUS
  <2>2. x \in s
    BY <1>4, <2>1, FirstIn
  <2>3. u \in SUBSET (S \cap T) /\ u \subseteq s /\ u # s
    BY <1>2, <2>1, <2>2
  <2>4. g[u] = h[u]
    BY <1>0, <1>1, <2>3
  <2>5. g[s] = WriteVariableRegistry(g[u], Variables[x])
    BY <1>2, <1>4, <2>1 DEF Reads
  <2>6. h[s] = WriteVariableRegistry(h[u], Variables[x])
    BY <1>2, <1>4, <2>1 DEF Reads
  <2> QED
    BY <1>2, <2>4, <2>5, <2>6
<1> QED
  BY <1>3, <1>4

LEMMA ReadsExists ==
    ASSUME NEW S, IsFiniteSet(S)
    PROVE  \E g : Reads(g, S)
<1>0. PICK B : B = {T \in SUBSET S : ~\E g : Reads(g, T)}
  OBVIOUS
<1> SUFFICES ASSUME B # {} PROVE FALSE
  BY <1>0
<1>1. PICK T \in B : \A U \in B : ~(U \subseteq T /\ U # T)
  <2>1. B \subseteq SUBSET S
    BY <1>0
  <2> QED
    BY <2>1, MinimalSubset
<1>2. T \in SUBSET S /\ IsFiniteSet(T) /\ ~\E g : Reads(g, T)
  BY <1>0, <1>1, FS_Subset
<1> DEFINE G(u) == CHOOSE g : Reads(g, u)
<1>3. ASSUME NEW u \in SUBSET T, u # T PROVE Reads(G(u), u) /\ IsFiniteSet(u)
  <2>1. u \notin B /\ u \in SUBSET S
    BY <1>1, <1>2, <1>3
  <2> QED
    BY <1>0, <1>2, <2>1, FS_Subset
<1> DEFINE read(s) ==
               IF s = {} THEN <<>>
               ELSE WriteVariableRegistry(G(s \ {First(s)})[s \ {First(s)}], Variables[First(s)])
           h == [s \in SUBSET T |-> read(s)]
<1> HIDE DEF G
<1>4. ASSUME NEW s \in SUBSET T, s # {}, NEW u, u = s \ {First(s)}
      PROVE  h[u] = G(u)[u]
  <2>1. First(s) \in s /\ u \in SUBSET T /\ u # T
    BY <1>4, FirstIn
  <2>2. Reads(G(u), u)
    BY <1>3, <2>1
  <2>3. CASE u = {}
    BY <2>1, <2>2, <2>3 DEF Reads
  <2>4. CASE u # {}
    <3>1. PICK x, v : x = First(u) /\ v = u \ {x}
      OBVIOUS
    <3>2. x \in u /\ v \in SUBSET T /\ v # T /\ v \in SUBSET u
      BY <2>1, <2>4, <3>1, FirstIn
    <3>3. G(u)[u] = WriteVariableRegistry(G(u)[v], Variables[x])
      BY <2>2, <2>4, <3>1 DEF Reads
    <3>4. G(u)[v] = G(v)[v]
      <4>1. Reads(G(v), v) /\ IsFiniteSet(u) /\ v \in SUBSET (u \cap v)
        BY <1>3, <2>1, <3>2
      <4> QED
        BY <2>2, <4>1, ReadsUnique
    <3>5. h[u] = WriteVariableRegistry(G(v)[v], Variables[x])
      BY <2>1, <2>4, <3>1
    <3> QED
      BY <3>3, <3>4, <3>5
  <2> QED
    BY <2>3, <2>4
<1>5. \A s \in SUBSET T :
         h[s] = IF s = {} THEN <<>> ELSE WriteVariableRegistry(h[s \ {First(s)}], Variables[First(s)])
  BY <1>4
<1>6. Reads(h, T)
  <2>1. h = [s \in SUBSET T |-> h[s]]
    OBVIOUS
  <2> QED
    BY <1>5, <2>1 DEF Reads
<1> QED
  BY <1>2, <1>6

\* The registry of the older files holds the ranges of each.
LEMMA OldRanged ==
    /\ Ranged(RegistryOfOld)
    /\ \A f \in Legacy : Covers(RegistryOfOld, Variables[f])
<1> DEFINE g == CHOOSE g : Reads(g, Legacy)
<1>1. Reads(g, Legacy)
  BY ReadsExists, DatasetQueriesAssumption
<1>2. RegistryOfOld = g[Legacy]
  BY DEF RegistryOfOld, FoldSet, MapThenFoldSet, Reads, First
<1> HIDE DEF g
<1> DEFINE Good(s) == Ranged(g[s]) /\ \A f \in s : Covers(g[s], Variables[f])
<1>3. SUFFICES ASSUME NEW B, B = {s \in SUBSET Legacy : ~Good(s)}, B # {} PROVE FALSE
  BY <1>2
<1>4. PICK s \in B : \A u \in B : ~(u \subseteq s /\ u # s)
  <2>1. B \subseteq SUBSET Legacy
    BY <1>3
  <2> QED
    BY <1>3, <2>1, MinimalSubset, DatasetQueriesAssumption
<1>5. s \in SUBSET Legacy /\ ~Good(s)
  BY <1>3, <1>4
<1>6. CASE s = {}
  <2>1. g[s] = <<>>
    BY <1>1, <1>5, <1>6 DEF Reads
  <2>2. Ranged(<<>>)
    BY DEF Ranged
  <2> QED
    BY <1>5, <1>6, <2>1, <2>2
<1>7. CASE s # {}
  <2>1. PICK x, u : x = First(s) /\ u = s \ {x}
    OBVIOUS
  <2>2. x \in s /\ u \in SUBSET Legacy /\ u \subseteq s /\ u # s
    BY <1>5, <1>7, <2>1, FirstIn
  <2>3. Good(u)
    BY <1>3, <1>4, <2>2
  <2>4. PICK old, found, new : /\ old = g[u] /\ found = Variables[x] /\ new = g[s]
    OBVIOUS
  <2>5. new = WriteVariableRegistry(old, found)
    BY <1>1, <1>5, <1>7, <2>1, <2>4 DEF Reads
  <2>6. Ranged(old) /\ Ranged(found)
    BY <1>5, <2>2, <2>3, <2>4, VariablesRanged, DatasetQueriesAssumption
  <2>7. Ranged(new) /\ Covers(new, old) /\ Covers(new, found)
    BY <2>5, <2>6, RangeWritten
  <2>8. \A f \in u : Covers(new, Variables[f])
    <3>1. ASSUME NEW f \in u PROVE Covers(new, Variables[f])
      <4>1. Covers(old, Variables[f])
        BY <2>3, <2>4
      <4>2. Ranged(Variables[f])
        BY <2>2, VariablesRanged, DatasetQueriesAssumption
      <4> QED
        BY <2>7, <4>1, <4>2, CoversAll
    <3> QED
      BY <3>1
  <2>9. Good(s)
    BY <2>1, <2>2, <2>4, <2>7, <2>8
  <2> QED
    BY <1>5, <2>9
<1> QED
  BY <1>6, <1>7

-----------------------------------------------------------------------------
(* The registry at every moment                                            *)

\* The registry holds the ranges of every file of the dataset.
RangesInv == Ranged(registry) /\ \A f \in ingested \cup Legacy : Covers(registry, Variables[f])

LEMMA RangesInit == Init => RangesInv
<1> SUFFICES ASSUME Init PROVE RangesInv
  OBVIOUS
<1>1. PICK r, roles, old : r = registry /\ old = RegistryOfOld /\ r = [v \in DOMAIN old |-> WithRoles(old[v], roles)]
  BY DEF Init
<1>2. ASSUME NEW v \in DOMAIN old
      PROVE  /\ DOMAIN r[v] = VariableFields
             /\ r[v].min = old[v].min /\ r[v].max = old[v].max
  BY <1>1 DEF WithRoles, VariableFields
<1>3. DOMAIN r = DOMAIN old
  BY <1>1
<1>4. Ranged(old)
  BY <1>1, OldRanged
<1>5. Ranged(r)
  BY <1>2, <1>3, <1>4 DEF Ranged, InRange
<1>6. ASSUME NEW f \in Legacy PROVE Covers(r, Variables[f])
  <2>1. Covers(old, Variables[f])
    BY <1>1, OldRanged
  <2> QED
    BY <1>2, <1>3, <2>1 DEF Covers, Holds
<1>7. ingested = {}
  BY DEF Init
<1> QED
  BY <1>1, <1>5, <1>6, <1>7 DEF RangesInv

LEMMA RangesStep == RangesInv /\ TypesInv /\ [Next]_vars => RangesInv'
<1> SUFFICES ASSUME RangesInv, TypesInv, [Next]_vars PROVE RangesInv'
  OBVIOUS
<1>1. CASE UNCHANGED <<registry, ingested>>
  BY <1>1 DEF RangesInv
<1>2. ASSUME NEW f \in Files, Ingest(f) PROVE RangesInv'
  <2>1. PICK old, found, new, S : /\ old = registry /\ found = Variables[f] /\ S = ingested \cup Legacy
                                  /\ new = WriteVariableRegistry(old, found)
    OBVIOUS
  <2>2. registry' = new /\ ingested' \cup Legacy = S \cup {f} /\ Parsed[f] # None
    BY <1>2, <2>1 DEF Ingest, Ingestible
  <2>3. Ranged(old) /\ Ranged(found)
    BY <2>1, <2>2, VariablesRanged DEF RangesInv
  <2>4. Ranged(new) /\ Covers(new, old) /\ Covers(new, found)
    BY <2>1, <2>3, RangeWritten
  <2>5. ASSUME NEW g \in S PROVE Covers(new, Variables[g])
    <3>1. Covers(old, Variables[g])
      BY <2>1 DEF RangesInv
    <3>2. g \in Files /\ Parsed[g] # None
      BY <2>1, DatasetQueriesAssumption DEF TypesInv, ContentOK
    <3>3. Ranged(Variables[g])
      BY <3>2, VariablesRanged
    <3> QED
      BY <2>4, <3>1, <3>3, CoversAll
  <2> QED
    BY <2>1, <2>2, <2>4, <2>5 DEF RangesInv
<1>3. ASSUME NEW a \in Actors, RolesCommit(a) PROVE RangesInv'
  <2>1. PICK old, w, roles : old = registry /\ registry' = [old EXCEPT ![w].roles = roles]
    BY <1>3 DEF RolesCommit
  <2>2. PICK new : new = registry'
    OBVIOUS
  <2>3. DOMAIN new = DOMAIN old /\ Ranged(old)
    BY <2>1, <2>2 DEF RangesInv
  <2>4. ASSUME NEW v \in DOMAIN old
        PROVE  DOMAIN new[v] = VariableFields /\ new[v].min = old[v].min /\ new[v].max = old[v].max
    BY <2>1, <2>2, <2>3 DEF Ranged, VariableFields
  <2>5. Ranged(new)
    BY <2>3, <2>4 DEF Ranged, InRange
  <2>6. ASSUME NEW f \in ingested \cup Legacy PROVE Covers(new, Variables[f])
    BY <2>1, <2>3, <2>4 DEF RangesInv, Covers, Holds
  <2>7. ingested' = ingested
    BY <1>3 DEF RolesCommit, contentVars
  <2> QED
    BY <2>2, <2>5, <2>6, <2>7 DEF RangesInv
<1>4. ASSUME NEW a \in Actors,
             \/ RequestLoad(a) \/ CountMatching(a) \/ CountTotal(a) \/ CountFiles(a) \/ RequestCommit(a)
             \/ BackfillStart(a) \/ BackfillCheck(a) \/ BackfillClear(a) \/ BackfillCopy(a)
             \/ BackfillNext(a) \/ BackfillDone(a) \/ ReviewCount(a) \/ ReviewCommit(a) \/ RolesLoad(a) \/ Lost(a)
      PROVE  UNCHANGED <<registry, ingested>>
  BY <1>4 DEF RequestLoad, CountMatching, CountTotal, CountFiles, RequestCommit, BackfillStart,
              BackfillCheck, BackfillClear, BackfillCopy, BackfillNext, BackfillDone, ReviewCount, ReviewCommit,
              RolesLoad, Lost, schemaVars, contentVars
<1>5. CASE UNCHANGED vars
  BY <1>1, <1>5 DEF vars, schemaVars, contentVars
<1>6. ASSUME NEW f \in Files, RemoveFile(f) PROVE RangesInv'
  BY <1>6 DEF RemoveFile, schemaVars, RangesInv
<1> QED
  BY <1>1, <1>2, <1>3, <1>4, <1>5, <1>6 DEF Next

\* A value of a table's column lies in the range that the table was registered with.
LEMMA ColumnInRange ==
    ASSUME NEW f \in Files, Parsed[f] # None, Parsed[f].kind = "table",
           NEW t, t = Parsed[f].table, NEW r, Covers(r, Variables[f]),
           NEW v \in RecordVariables(t) \cap t.numeric, NEW i \in DOMAIN t.rows, t.rows[i][v] # None
    PROVE  v \in DOMAIN r /\ r[v].min <= t.rows[i][v] /\ t.rows[i][v] <= r[v].max
<1>1. IsTable(t)
  BY DatasetQueriesAssumption DEF WellFormed
<1>2. PICK s : s = DetectedVariables(t)
  OBVIOUS
<1>3. PICK range : range = NumericRangeFromRowGroups(t, v)
  OBVIOUS
<1>4. v \in DOMAIN s /\ s[v] = Variable("numeric", FALSE, range[1], range[2])
  BY <1>2, <1>3 DEF DetectedVariables
<1>5. s[v].min = range[1] /\ s[v].max = range[2]
  BY <1>4 DEF Variable
<1>6. PICK x, lo, hi : x = t.rows[i][v] /\ lo = range[1] /\ hi = range[2]
  OBVIOUS
<1>7. lo \in Int /\ hi \in Int /\ x \in Int /\ lo # None /\ hi # None /\ lo <= x /\ x <= hi
  <2>1. t.rows[i][v] \in OrNone(Int)
    BY <1>1 DEF IsTable
  <2> QED
    BY <1>1, <1>3, <1>6, <2>1, NumericRange DEF OrNone
<1>8. Covers(Variables[f], s) /\ Ranged(s)
  BY <1>1, <1>2, VariablesRanged, DetectedRanged
<1>9. Covers(r, s)
  BY <1>8, CoversAll
<1>10. PICK y, z : y = r[v] /\ z = s[v]
  OBVIOUS
<1>11. v \in DOMAIN r /\ Holds(y, z)
  BY <1>4, <1>9, <1>10 DEF Covers
<1>12. y.min \in Int /\ y.max \in Int /\ y.min <= lo /\ hi <= y.max
  BY <1>5, <1>6, <1>7, <1>10, <1>11 DEF Holds
<1>13. y.min <= x /\ x <= y.max
  BY <1>7, <1>12
<1> QED
  BY <1>6, <1>10, <1>11, <1>13

LEMMA RangesCoverHolds ==
    ASSUME RangesInv, TypesInv, NEW d, d = Content
    PROVE  RangesCover(d)
<1>1. SUFFICES ASSUME NEW schema, schema = DatasetSchemaForFilters(registry, reviewed), schema # None,
                      NEW x \in {r \in d.records : r.file # None} \cup UNION {BaseMelted(t) : t \in ToSet(d.tables)},
                      x.parameter \in DOMAIN schema, schema[x.parameter].min # None
               PROVE  schema[x.parameter].min <= x.value /\ x.value <= schema[x.parameter].max
  BY DEF RangesCover
<1>2. PICK p : p = x.parameter
  OBVIOUS
<1>3. p \in DOMAIN registry /\ schema[p] = registry[p]
  BY <1>1, <1>2 DEF DatasetSchemaForFilters
<1>4. PICK reg : reg = registry
  OBVIOUS
<1>5. ASSUME NEW f \in ingested \cup Legacy, Parsed[f].kind = "table", NEW t, t = Parsed[f].table,
             NEW i \in DOMAIN t.rows, NEW v \in t.numeric, v \in RecordVariables(t),
             t.rows[i][v] # None, v = p, x.value = t.rows[i][v]
      PROVE  reg[p].min <= x.value /\ x.value <= reg[p].max
  <2>1. f \in Files /\ Parsed[f] # None
    BY DatasetQueriesAssumption DEF TypesInv, ContentOK
  <2>2. Covers(reg, Variables[f])
    BY <1>4 DEF RangesInv
  <2> QED
    BY <1>5, <2>1, <2>2, ColumnInRange
<1>6. CASE x \in d.records /\ x.file # None
  <2>1. x \in PossibleRows
    BY <1>6 DEF Content, TypesInv, ContentOK
  <2>2. x \notin Seeded
    BY <1>6, DatasetQueriesAssumption
  <2>3. PICK f \in Tabular, id \in Actors \cup {None} : x \in RowsOf[f][id]
    BY <2>1, <2>2 DEF PossibleRows
  <2>4. PICK t : t = Parsed[f].table
    OBVIOUS
  <2>5. x \in WriteDatasetRecords(t, f, id)
    BY <2>3, <2>4 DEF RowsOf
  <2>6. PICK i \in DOMAIN t.rows, v \in RecordVariables(t) \cap t.numeric :
          t.rows[i][v] # None /\ x = RecordOf(t, f, i, v, id)
    BY <2>5 DEF WriteDatasetRecords
  <2>7. x.parameter = v /\ x.value = t.rows[i][v]
    BY <2>6 DEF RecordOf
  <2>8. f \in Legacy /\ Parsed[f].kind = "table"
    BY DEF Tabular
  <2> QED
    BY <1>2, <1>3, <1>4, <1>5, <2>4, <2>6, <2>7, <2>8
<1>7. CASE x \in UNION {BaseMelted(t) : t \in ToSet(d.tables)}
  <2>1. PICK names \in Bijection(DOMAIN d.tables, TablesIngested) :
               \A i \in DOMAIN d.tables : d.tables[i] = Parsed[names[i]].table
    BY ContentIs
  <2>2. PICK k \in DOMAIN d.tables : x \in BaseMelted(d.tables[k])
    BY <1>7 DEF ToSet
  <2>3. PICK f, t : f = names[k] /\ t = Parsed[f].table
    OBVIOUS
  <2>4. f \in ingested /\ Parsed[f].kind = "table" /\ x \in BaseMelted(t)
    BY <2>1, <2>2, <2>3 DEF TablesIngested, Bijection, Injection
  <2>5. PICK i \in DOMAIN t.rows, v \in VariableColumns(t) : t.rows[i][v] # None /\ x = MeltedAs(t, i, v)
    BY <2>4, MeltedIs
  <2>6. x.parameter = v /\ x.value = t.rows[i][v]
    BY <2>5 DEF MeltedAs
  <2>7. v \in t.numeric /\ v \notin CoordNames(t) /\ v \in t.variables
    BY DEF VariableColumns
  <2>8. v \notin Bounds
    <3>1. InRange(p, reg[p]) /\ reg[p].min # None
      BY <1>1, <1>2, <1>3, <1>4 DEF RangesInv, Ranged
    <3> QED
      BY <1>2, <2>6, <3>1 DEF InRange
  <2>9. \A role \in Roles : v # t.named[role]
    <3>1. ASSUME NEW role \in Roles, v = t.named[role] PROVE FALSE
      <4>1. v # None
        <5>1. IsTable(t)
          BY <2>3, <2>4, DatasetQueriesAssumption DEF TypesInv, ContentOK, WellFormed
        <5> QED
          BY <2>7, <5>1, ObservationsAssumption DEF IsTable
      <4>2. ResolveCoordCol(t, role) = v
        BY <3>1, <4>1 DEF ResolveCoordCol
      <4> QED
        BY <2>7, <4>1, <4>2 DEF CoordNames, CoordColumns
    <3> QED
      BY <3>1
  <2>10. v \in t.columns
    <3>1. IsTable(t)
      BY <2>3, <2>4, DatasetQueriesAssumption DEF TypesInv, ContentOK, WellFormed
    <3> QED
      BY <2>7, <3>1 DEF IsTable
  <2>11. v \in RecordVariables(t)
    BY <2>7, <2>8, <2>9, <2>10 DEF RecordVariables
  <2> QED
    BY <1>2, <1>3, <1>4, <1>5, <2>3, <2>4, <2>5, <2>6, <2>7, <2>11
<1> QED
  BY <1>1, <1>6, <1>7

\* The counts that the catalogue, the selector, the filters and the quality scan show of
\* a content agree.
LEMMA CountsOfContent ==
    ASSUME TypesInv, RangesInv
    PROVE  CountsAgree(Content, Extents)
<1>1. PICK d, extents : d = Content /\ extents = Extents
  OBVIOUS
<1>2. GoodContent(d)
  BY <1>1, ContentIs
<1>3. SelectorAgrees(d, extents)
  BY SelectorAgreesHolds
<1>4. RangesCover(d)
  BY <1>1, RangesCoverHolds
<1>5. IncompleteHasReason(d)
  BY <1>1, IncompleteHasReasonHolds
<1>6. ASSUME NEW f \in Filters
      PROVE  BreakdownAgrees(d, f) /\ \A p \in Parameters : CoverageBounded(d, p, f)
  BY <1>2, BreakdownAgreesHolds, CoverageBoundedHolds
<1>7. CountsAgree(d, extents)
  BY <1>3, <1>4, <1>5, <1>6 DEF CountsAgree
<1> QED
  BY <1>1, <1>7

\* The types and the ranges of the registry, at every moment.
LEMMA RangesCorrect == Spec => [](TypesInv /\ RangesInv)
<1>1. Init => RangesInv
  BY RangesInit
<1>2. TypesInv /\ RangesInv /\ [Next]_vars => RangesInv'
  BY RangesStep
<1>3. Spec => [](BackfillInv /\ TypesInv)
  BY TypesCorrect
<1> QED
  BY <1>1, <1>2, <1>3, PTL DEF Spec

\* The counts of the dataset, at every moment: the invariant of TypesCorrect and the
\* ranges of the registry imply each of them.
THEOREM CountsAgreeHold == Spec => []CountsAgree(Content, Extents)
<1>1. TypesInv /\ RangesInv => CountsAgree(Content, Extents)
  BY CountsOfContent
<1> QED
  BY <1>1, RangesCorrect, PTL

-----------------------------------------------------------------------------
(* A map, and the job that draws a large one                               *)

\* Whether a record is the latest of its station depends on what is chosen there.
LEMMA LatestOfStation ==
    ASSUME NEW A, NEW B, NEW all, NEW p, NEW r,
           \A q : q.label["station"] = r.label["station"] => (q \in A <=> q \in B)
    PROVE  r \in LatestAtStations(A, all, p) <=> r \in LatestAtStations(B, all, p)
<1> DEFINE AtStation(chosen) == {q \in {x \in chosen : x.label["station"] # None} :
                                    q.label["station"] = r.label["station"]}
<1> DEFINE Times(chosen) == {q.time : q \in AtStation(chosen)} \ {None}
<1>1. AtStation(A) = AtStation(B)
  OBVIOUS
<1>2. ASSUME NEW chosen
      PROVE  r \in LatestAtStations(chosen, all, p)
               <=> /\ r \in all /\ r.parameter = p /\ AtStation(chosen) # {}
                   /\ Times(chosen) # {} /\ r.time = Max(Times(chosen))
  <2>1. PICK stationed : stationed = {x \in chosen : x.label["station"] # None}
    OBVIOUS
  <2>2. r \in LatestAtStations(chosen, all, p)
          <=> /\ r \in all /\ r.parameter = p
              /\ \E q \in stationed : q.label["station"] = r.label["station"]
              /\ Times(chosen) # {} /\ r.time = Max(Times(chosen))
    BY <2>1 DEF LatestAtStations
  <2> HIDE DEF Times
  <2> QED
    BY <2>1, <2>2
<1> HIDE DEF Times
<1>3. Times(A) = Times(B)
  BY <1>1 DEF Times
<1> QED
  BY <1>1, <1>2, <1>3

\* By station and dates the job selects at a station what the request does, and what
\* other datasets have there.
LEMMA JobAgreesHolds ==
    ASSUME NEW d, NEW p, NEW f \in Filter
    PROVE  JobAgrees(d, p, f)
<1> DEFINE all == d.records \cup Others
           light == SpatialPoints(d, all, p, f, MaxPoints)
           answer == CreateSpatialRequest(d, all, p, f, MaxPoints)
           shared == {r.label["station"] : r \in ApplyVizFilters(Others, p, f)}
           Own(points) == {r \in points.records : r.label["station"] \notin shared}
           job == RunSpatialJob(d, all, p, f, MaxPoints)
           A == ApplyVizFilters(d.records, p, f)
           B == ApplyVizFilters(all, p, Kept(f))
<1>1. SUFFICES ASSUME FilterColumns(f) \subseteq {"station", "time"}, answer # None
               PROVE  answer.points.files = light.files /\ Own(answer.points) = Own(light)
  BY DEF JobAgrees
<1>2. B = A \cup ApplyVizFilters(Others, p, f)
  <2>1. B = ApplyVizFilters(all, p, f)
    BY <1>1, JobRecords
  <2>2. ApplyVizFilters(all, p, f) = A \cup ApplyVizFilters(Others, p, f)
    BY DEF ApplyVizFilters, RecordsMatching
  <2> QED
    BY <2>1, <2>2
<1>3. light.records = LatestAtStations(A, all, p) /\ light.files = FilePoints(d, p, f, MaxPoints)
  BY DEF SpatialPoints
<1>4. job.records = LatestAtStations(B, all, p) /\ job.files = FilePoints(d, p, f, MaxPoints)
  BY DEF RunSpatialJob, Kept
<1>5. answer = AnswerSpatialRequest(light, job)
  BY DEF CreateSpatialRequest
<1>6. \A r : r.label["station"] \notin shared => (r \in A <=> r \in B)
  BY <1>2
<1> HIDE DEF all, light, answer, shared, job, A, B
<1>7. answer.points \in {light, job}
  <2>1. answer \in {None, [status |-> "complete", points |-> light], [status |-> "queued", points |-> job]}
    BY <1>5 DEF AnswerSpatialRequest
  <2>2. CASE answer = [status |-> "complete", points |-> light]
    BY <2>2
  <2>3. CASE answer = [status |-> "queued", points |-> job]
    BY <2>3
  <2> QED
    BY <1>1, <2>1, <2>2, <2>3
<1>8. ASSUME NEW r, r.label["station"] \notin shared
      PROVE  r \in LatestAtStations(A, all, p) <=> r \in LatestAtStations(B, all, p)
  <2>1. \A q : q.label["station"] = r.label["station"] => (q \in A <=> q \in B)
    BY <1>6, <1>8
  <2> QED
    BY <2>1, LatestOfStation
<1>9. Own(job) = Own(light)
  BY <1>3, <1>4, <1>8
<1> QED
  BY <1>3, <1>4, <1>7, <1>9

-----------------------------------------------------------------------------
(* Pairs                                                                   *)

\* In every table a slot has one pair.
LEMMA PairsAgreeHolds ==
    ASSUME NEW d, NEW f
    PROVE  PairsAgree(d, f)
<1>1. SUFFICES ASSUME NEW i \in DOMAIN d.tables, NEW u \in Parameters, NEW s \in Parameters,
                      ~TableHasDuplicates(d.tables[i]),
                      NEW x \in TsPairs(d, u, s, f).tables[i], NEW y \in TsPairs(d, u, s, f).tables[i],
                      x.rows[1] = y.rows[1], x.time # None
               PROVE  x = y
  BY DEF PairsAgree
<1>2. TsPairs(d, u, s, f).tables[i] = TableTsPairs(d.tables[i], u, s, VizFilterToRecordsFilter(f))
  BY DEF TsPairs
<1> QED
  BY <1>1, <1>2, PairsOfTable

-----------------------------------------------------------------------------
(* Profiles                                                                *)

\* The profiles of the rows and of the tables obey the filter.
LEMMA ProfilesAgreeHolds ==
    ASSUME NEW d, \A i \in DOMAIN d.tables : IsTable(d.tables[i]), Dated(d), NEW p, NEW f \in Filter
    PROVE  ProfilesAgree(d, Profiles(d, p, f), f)
<1>1. PICK profiles, v : profiles = Profiles(d, p, f) /\ v = VizFilterToRecordsFilter(f)
  OBVIOUS
<1>2. SUFFICES ASSUME profiles # None, \A i \in DOMAIN d.tables : "time" \in CoordColumns(d.tables[i]),
                      NEW key \in DOMAIN profiles, NEW e \in profiles[key]
               PROVE  Within(key[2], f.from, f.to) /\ Within(e.depth_m, f.depthMin, f.depthMax)
  BY <1>1 DEF ProfilesAgree
<1>3. /\ v \in Filter
      /\ v.from = f.from /\ v.to = f.to /\ v.depthMin = f.depthMin /\ v.depthMax = f.depthMax
  BY <1>1, VizIs
<1>4. /\ e.key = key
      /\ \/ \E r \in RecordsMatching(d.records, v) :
              e.key = <<r.label["station"], r.time>> /\ e.depth_m = r.depth_m
         \/ \E i \in DOMAIN d.tables : \E profile \in TableProfiles(d.tables[i], p, v) :
              \E depth \in DOMAIN profile.points : e.key = profile.key /\ e.depth_m = depth
  BY <1>1, <1>2, ProfilesAre
<1>5. ASSUME NEW r \in RecordsMatching(d.records, v), e.key = <<r.label["station"], r.time>>, e.depth_m = r.depth_m
      PROVE  Within(key[2], f.from, f.to) /\ Within(e.depth_m, f.depthMin, f.depthMax)
  <2>1. RecordMatches(r, v)
    BY DEF RecordsMatching
  <2>2. Within(r.time, v.from, v.to) /\ Within(r.depth_m, v.depthMin, v.depthMax)
    BY <2>1 DEF RecordMatches
  <2> QED
    BY <1>3, <1>4, <1>5, <2>2
<1>6. ASSUME NEW i \in DOMAIN d.tables, NEW profile \in TableProfiles(d.tables[i], p, v),
             NEW depth \in DOMAIN profile.points, e.key = profile.key, e.depth_m = depth
      PROVE  Within(key[2], f.from, f.to) /\ Within(e.depth_m, f.depthMin, f.depthMax)
  <2>1. PICK t : t = d.tables[i]
    OBVIOUS
  <2>2. IsTable(t) /\ "time" \in CoordColumns(t) /\ Binds(t, CoordColumns(t))
    BY <1>2, <2>1 DEF Dated
  <2>3. profile \in TableProfiles(t, p, v)
    BY <2>1
  <2>4. Within(profile.key[2], v.from, v.to) /\ Within(depth, v.depthMin, v.depthMax)
    BY <1>3, <2>2, <2>3, ProfileWithin
  <2> QED
    BY <1>3, <1>4, <1>6, <2>4
<1> QED
  BY <1>4, <1>5, <1>6

-----------------------------------------------------------------------------
(* Boxes                                                                   *)

\* The boxes hold what the three tiers have, each value once.
LEMMA BoxesAgreeHolds ==
    ASSUME NEW d, NEW p, NEW f, IsFiniteSet(d.records),
           IsFiniteSet(RawOfTables(d, p, f)), IsFiniteSet(RawOfGrids(d, p, f))
    PROVE  BoxesAgree(d, BoxPlot(d, p, f), p, f)
<1>1. PICK boxes, U, names : boxes = BoxPlot(d, p, f) /\ U = Boxed(d, p, f) /\ names = DOMAIN boxes
  OBVIOUS
<1>2. /\ names = {BoxOf(u) : u \in U}
      /\ \A name \in names : boxes[name] = {u \in U : BoxOf(u) = name}
  <2>1. Sorts(boxes, U)
    BY <1>1, BoxesAre
  <2> QED
    BY <1>1, <2>1 DEF Sorts
<1>3. PICK A, B, C : /\ A = WithTag("record", Stationed(d, p, f))
                     /\ B = WithTag("table", RawOfTables(d, p, f))
                     /\ C = WithTag("grid", RawOfGrids(d, p, f))
  OBVIOUS
<1>4. IsFiniteSet(Stationed(d, p, f))
  <2>1. Stationed(d, p, f) \in SUBSET d.records
    BY DEF Stationed, ApplyVizFilters, RecordsMatching
  <2> QED
    BY <2>1, FS_Subset
<1>5. /\ IsFiniteSet(A) /\ Cardinality(A) = Cardinality(Stationed(d, p, f))
      /\ IsFiniteSet(B) /\ Cardinality(B) = Cardinality(RawOfTables(d, p, f))
      /\ IsFiniteSet(C) /\ Cardinality(C) = Cardinality(RawOfGrids(d, p, f))
  BY <1>3, <1>4, TaggedCount
<1>6. U = A \cup B \cup C
  BY <1>1, <1>3 DEF Boxed
<1>7. A \cap B = {} /\ A \cap C = {} /\ B \cap C = {}
  BY <1>3 DEF WithTag
<1>8. IsFiniteSet(U)
  <2>1. IsFiniteSet(A \cup B)
    BY <1>5, FS_Union
  <2> QED
    BY <1>5, <1>6, <2>1, FS_Union
<1>9. Cardinality(U) = Cardinality(A) + Cardinality(B) + Cardinality(C)
  <2>1. PICK D : D = A \cup B
    OBVIOUS
  <2>2. IsFiniteSet(D) /\ Cardinality(D) = Cardinality(A) + Cardinality(B) - Cardinality(A \cap B)
    BY <1>5, <2>1, FS_Union
  <2>3. Cardinality(A \cap B) = 0 /\ D \cap C = {} /\ U = D \cup C
    BY <1>6, <1>7, <2>1, FS_EmptySet
  <2>4. Cardinality(D \cup C) = Cardinality(D) + Cardinality(C) - Cardinality(D \cap C)
    BY <1>5, <2>2, FS_Union
  <2>5. Cardinality(D \cap C) = 0
    BY <2>3, FS_EmptySet
  <2>6. Cardinality(A) \in Nat /\ Cardinality(B) \in Nat /\ Cardinality(C) \in Nat /\ Cardinality(D) \in Nat
    BY <1>5, <2>2, FS_CardinalityType
  <2> QED
    BY <2>2, <2>3, <2>4, <2>5, <2>6
<1>10. PICK key, sizes : key = [u \in U |-> BoxOf(u)] /\ sizes = [name \in names |-> Cardinality(boxes[name])]
  OBVIOUS
<1>11. \A u \in U : key[u] \in names
  BY <1>2, <1>10
<1>12. IsFiniteSet(names)
  <2>1. names = {key[u] : u \in U}
    BY <1>2, <1>10
  <2>2. key \in Surjection(U, names)
    BY <1>10, <1>11, <2>1 DEF Surjection
  <2> QED
    BY <1>8, <2>2, FS_Surjection
<1>13. sizes = [name \in names |-> Cardinality({u \in U : key[u] = name})]
  <2>1. \A name \in names : boxes[name] = {u \in U : key[u] = name}
    BY <1>2, <1>10
  <2> QED
    BY <1>10, <2>1
<1>14. SumFunctionOnSet(sizes, names) = Cardinality(U)
  BY <1>8, <1>11, <1>12, <1>13, BoxesCount DEF SizesBy
<1>15. SizesOf(boxes) = SumFunctionOnSet(sizes, names)
  BY <1>1, <1>10, <1>12, SizesAre
<1>16. SizesOf(boxes) = Cardinality(Stationed(d, p, f)) + Cardinality(RawOfTables(d, p, f)) + Cardinality(RawOfGrids(d, p, f))
  BY <1>5, <1>9, <1>14, <1>15
<1> QED
  BY <1>1, <1>16 DEF BoxesAgree, SizesOf, Stationed

-----------------------------------------------------------------------------
(* The days that have a value                                              *)

\* A list of tables and one of grids, as their parsers made them, whose dates are set.
Charted(d) ==
    /\ \E n \in Nat : DOMAIN d.tables = 1..n
    /\ \E n \in Nat : DOMAIN d.grids = 1..n
    /\ \A i \in DOMAIN d.tables : IsTable(d.tables[i])
    /\ \A i \in DOMAIN d.grids : IsGrid(d.grids[i].ds)
    /\ Dated(d)

\* The buckets of a series are those of the days that have a value in some tier.
LEMMA SeriesDays ==
    ASSUME NEW d, Charted(d), NEW p, NEW f, NEW resolution \in Resolutions
    PROVE  DOMAIN Timeseries(d, p, f, resolution) = Buckets(resolution, Days(d, p, f))
<1>1. PICK v, R, T, G, list :
        /\ v = VizFilterToRecordsFilter(f)
        /\ R = ByCount(RecordSeries(d, p, f, resolution))
        /\ T = TableParts(d, p, f, resolution) /\ G = GridParts(d, p, f, resolution)
        /\ list = T \o G
  OBVIOUS
<1>2. PICK n \in Nat, m \in Nat : DOMAIN d.tables = 1..n /\ DOMAIN d.grids = 1..m
  BY DEF Charted
<1>3. IsList(T, n) /\ IsList(G, m)
  BY <1>1, <1>2 DEF IsList, TableParts, GridParts
<1>4. /\ IsList(list, n + m)
      /\ \A i \in 1..n : list[i] = T[i]
      /\ \A i \in 1..m : list[n + i] = G[i]
  <2>1. IsJoined(T \o G, T, n, G, m)
    BY <1>3, ConcatIs
  <2> QED
    BY <1>1, <2>1 DEF IsJoined
<1>5. DOMAIN MergedSeries(list) = UNION {DOMAIN list[i] : i \in 1..(n + m)}
  <2>1. DOMAIN list = 1..(n + m) /\ n + m \in Nat
    BY <1>4 DEF IsList
  <2> QED
    BY <2>1, FoldBuckets
<1>6. ASSUME NEW i \in 1..n PROVE DOMAIN list[i] = Buckets(resolution, TableDays(d.tables[i], p, v))
  <2>1. PICK t : t = d.tables[i]
    OBVIOUS
  <2>2. /\ IsTable(t) /\ Binds(t, CoordColumns(t))
        /\ "time" \in CoordColumns(t) => \A x \in BaseMelted(t) : x.cell["time"] # None
    BY <1>2, <2>1 DEF Charted, Dated
  <2>3. list[i] = ByCount(TableTimeseries(t, p, v, resolution))
    BY <1>1, <1>2, <1>4, <2>1 DEF TableParts
  <2>4. DOMAIN ByCount(TableTimeseries(t, p, v, resolution)) = Buckets(resolution, TableDays(t, p, v))
    BY <2>2, TableBuckets
  <2> QED
    BY <2>1, <2>3, <2>4
<1>7. ASSUME NEW i \in 1..m PROVE DOMAIN list[n + i] = Buckets(resolution, GridDays(d.grids[i].ds, p, v))
  <2>1. list[n + i] = AsOne(GridTimeseries(d.grids[i].ds, p, v, resolution))
    BY <1>1, <1>2, <1>4 DEF GridParts
  <2> QED
    BY <2>1, GridBuckets
<1>8. PICK A, B, C :
        /\ A = RecordDays(d.records, p, f)
        /\ B = UNION {TableDays(d.tables[i], p, v) : i \in 1..n}
        /\ C = UNION {GridDays(d.grids[i].ds, p, v) : i \in 1..m}
  OBVIOUS
<1>9. Days(d, p, f) = A \cup B \cup C
  BY <1>1, <1>2, <1>8 DEF Days
<1>10. DOMAIN MergedSeries(list) = Buckets(resolution, B) \cup Buckets(resolution, C)
  <2>1. PICK D : D = DOMAIN MergedSeries(list)
    OBVIOUS
  <2>2. ASSUME NEW b \in D PROVE b \in Buckets(resolution, B) \cup Buckets(resolution, C)
    <3>1. PICK i \in 1..(n + m) : b \in DOMAIN list[i]
      BY <1>5, <2>1
    <3>2. CASE i \in 1..n
      <4>1. b \in Buckets(resolution, TableDays(d.tables[i], p, v))
        BY <1>6, <3>1, <3>2
      <4> QED
        BY <1>8, <3>2, <4>1 DEF Buckets
    <3>3. CASE i \notin 1..n
      <4>1. PICK j \in 1..m : i = n + j
        <5>1. i - n \in 1..m /\ i = n + (i - n)
          BY <3>3
        <5> QED
          BY <5>1
      <4>2. b \in Buckets(resolution, GridDays(d.grids[j].ds, p, v))
        BY <1>7, <3>1, <4>1
      <4> QED
        BY <1>8, <4>2 DEF Buckets
    <3> QED
      BY <3>2, <3>3
  <2>3. ASSUME NEW b \in Buckets(resolution, B) PROVE b \in D
    <3>1. PICK i \in 1..n : b \in Buckets(resolution, TableDays(d.tables[i], p, v))
      BY <1>8, <2>3 DEF Buckets
    <3>2. b \in DOMAIN list[i] /\ i \in 1..(n + m)
      BY <1>6, <3>1
    <3> QED
      BY <1>5, <2>1, <3>2
  <2>4. ASSUME NEW b \in Buckets(resolution, C) PROVE b \in D
    <3>1. PICK i \in 1..m : b \in Buckets(resolution, GridDays(d.grids[i].ds, p, v))
      BY <1>8, <2>4 DEF Buckets
    <3>2. b \in DOMAIN list[n + i] /\ n + i \in 1..(n + m)
      BY <1>7, <3>1
    <3> QED
      BY <1>5, <2>1, <3>2
  <2> QED
    BY <2>1, <2>2, <2>3, <2>4
<1>11. DOMAIN R = Buckets(resolution, A)
  BY <1>1, <1>8, RecordBuckets
<1>12. Timeseries(d, p, f, resolution) = MergeWeighted(R, MergedSeries(list))
  BY <1>1, TimeseriesIs
<1>13. DOMAIN Timeseries(d, p, f, resolution) = Buckets(resolution, A) \cup (Buckets(resolution, B) \cup Buckets(resolution, C))
  BY <1>10, <1>11, <1>12 DEF MergeWeighted
<1> QED
  BY <1>9, <1>13 DEF Buckets

LEMMA DailyDays ==
    ASSUME NEW d, Charted(d), NEW p, NEW f
    PROVE  DOMAIN Timeseries(d, p, f, "daily") = Days(d, p, f)
<1>1. "daily" \in Resolutions
  BY DEF Resolutions
<1> QED
  BY <1>1, SeriesDays, DailyBuckets

\* A coarser series has the buckets of the days of the daily one.
LEMMA BucketsAgreeHolds ==
    ASSUME NEW d, Charted(d), NEW p, NEW f
    PROVE  BucketsAgree(d, p, f, Timeseries(d, p, f, "daily"))
<1>1. DOMAIN Timeseries(d, p, f, "daily") = Days(d, p, f)
  BY DailyDays
<1>2. ASSUME NEW resolution \in Resolutions
      PROVE  DOMAIN Timeseries(d, p, f, resolution) = {BucketOf(resolution, day) : day \in Days(d, p, f)}
  <2>1. DOMAIN Timeseries(d, p, f, resolution) = Buckets(resolution, Days(d, p, f))
    BY SeriesDays
  <2> QED
    BY <2>1 DEF Buckets
<1> QED
  BY <1>1, <1>2 DEF BucketsAgree

-----------------------------------------------------------------------------
(* Comparison                                                              *)

\* A comparison has the days of the daily series.
LEMMA ComparedDays ==
    ASSUME NEW d, Charted(d), NEW p, NEW f
    PROVE  DOMAIN SeriesByDate(d, p, f) = Days(d, p, f)
<1>1. PICK days, R, T, G :
        /\ days = RecordSeries(d, p, f, "daily")
        /\ R = DayValues(days)
        /\ T = TableValues({w \in RawOfTables(d, p, f) : w.time # None})
        /\ G = GridValues(RawOfGrids(d, p, f))
  OBVIOUS
<1>2. DOMAIN SeriesByDate(d, p, f) = TimesOf(R \cup T \cup G)
  BY <1>1 DEF SeriesByDate, SeriesOf, TimesOf, DayValue, TableValue, GridValue, DayValues, TableValues, GridValues
<1>3. PICK v : v = VizFilterToRecordsFilter(f)
  OBVIOUS
<1>4. TimesOf(R) = RecordDays(d.records, p, f)
  <2>1. TimesOf(R) = DOMAIN days
    BY <1>1, TimesOfValues
  <2>2. DOMAIN days = Buckets("daily", RecordDays(d.records, p, f))
    BY <1>1, RecordBuckets DEF ByCount
  <2> QED
    BY <2>1, <2>2, DailyBuckets
<1>5. TimesOf(T) = UNION {TableDays(d.tables[i], p, v) : i \in DOMAIN d.tables}
  <2>1. TimesOf(T) = TimesOf({z \in RawOfTables(d, p, f) : z.time # None})
    BY <1>1, TimesOfValues
  <2>2. ASSUME NEW w \in RawOfTables(d, p, f), w.time # None
        PROVE  \E i \in DOMAIN d.tables : w.time \in TableDays(d.tables[i], p, v)
    <3>1. PICK i \in DOMAIN d.tables : \E y \in TableRawValues(d.tables[i], p, v) : w.time = y.time
      BY <1>3 DEF RawOfTables
    <3>2. PICK m \in Of(d.tables[i], p, v) : w.time = Date(d.tables[i], m)
      BY <3>1 DEF TableRawValues
    <3>3. "time" \in CoordColumns(d.tables[i])
      BY <2>2, <3>2 DEF Date, Day, Coord
    <3> QED
      BY <3>2, <3>3 DEF TableDays
  <2>3. ASSUME NEW i \in DOMAIN d.tables, NEW day \in TableDays(d.tables[i], p, v)
        PROVE  \E w \in RawOfTables(d, p, f) : w.time # None /\ w.time = day
    <3>0. PICK t : t = d.tables[i]
      OBVIOUS
    <3>1. "time" \in CoordColumns(t)
      BY <3>0 DEF TableDays
    <3>2. PICK m \in Of(t, p, v) : day = Date(t, m)
      BY <3>0, <3>1 DEF TableDays
    <3>3. m \in BaseMelted(t)
      BY DEF Of, Matching
    <3>4. /\ IsTable(t) /\ Binds(t, CoordColumns(t)) /\ m.cell["time"] # None
      BY <3>0, <3>1, <3>3 DEF Charted, Dated
    <3>5. day # None
      BY <3>1, <3>2, <3>3, <3>4, TimeOfObservation
    <3>6. PICK y : y = [row |-> m.row, station |-> Station(t, m), time |-> Date(t, m), value |-> m.value]
      OBVIOUS
    <3>7. y \in TableRawValues(t, p, v)
      BY <3>6 DEF TableRawValues
    <3>8. PICK w : w = [table |-> i, row |-> y.row, station |-> y.station, time |-> y.time, value |-> y.value]
      OBVIOUS
    <3>9. w \in RawOfTables(d, p, f)
      BY <1>3, <3>0, <3>7, <3>8 DEF RawOfTables
    <3>10. w.time = day
      BY <3>2, <3>6, <3>8
    <3> QED
      BY <3>5, <3>9, <3>10
  <2>4. TimesOf(T) \subseteq UNION {TableDays(d.tables[i], p, v) : i \in DOMAIN d.tables}
    BY <2>1, <2>2 DEF TimesOf
  <2>5. UNION {TableDays(d.tables[i], p, v) : i \in DOMAIN d.tables} \subseteq TimesOf(T)
    BY <2>1, <2>3 DEF TimesOf
  <2> QED
    BY <2>4, <2>5
<1>6. TimesOf(G) = UNION {GridDays(d.grids[i].ds, p, v) : i \in DOMAIN d.grids}
  <2>1. TimesOf(G) = TimesOf(RawOfGrids(d, p, f))
    BY <1>1, TimesOfValues
  <2>2. ASSUME NEW w \in RawOfGrids(d, p, f)
        PROVE  \E i \in DOMAIN d.grids : w.time \in GridDays(d.grids[i].ds, p, v)
    BY <1>3 DEF RawOfGrids, GridDays
  <2>3. ASSUME NEW i \in DOMAIN d.grids, NEW day \in GridDays(d.grids[i].ds, p, v)
        PROVE  \E w \in RawOfGrids(d, p, f) : w.time = day
    <3>1. PICK y \in GridRawValues(d.grids[i].ds, p, v) : day = y.time
      BY DEF GridDays
    <3>2. PICK w : w = [grid |-> i, time |-> y.time, step |-> y.step, value |-> y.value]
      OBVIOUS
    <3>3. w \in RawOfGrids(d, p, f)
      BY <1>3, <3>1, <3>2 DEF RawOfGrids
    <3> QED
      BY <3>1, <3>2, <3>3
  <2>4. TimesOf(G) \subseteq UNION {GridDays(d.grids[i].ds, p, v) : i \in DOMAIN d.grids}
    BY <2>1, <2>2 DEF TimesOf
  <2>5. UNION {GridDays(d.grids[i].ds, p, v) : i \in DOMAIN d.grids} \subseteq TimesOf(G)
    BY <2>1, <2>3 DEF TimesOf
  <2> QED
    BY <2>4, <2>5
<1>7. TimesOf(R \cup T \cup G) = TimesOf(R) \cup TimesOf(T) \cup TimesOf(G)
  BY DEF TimesOf
<1>8. PICK A, U, W : /\ A = RecordDays(d.records, p, f)
                     /\ U = UNION {TableDays(d.tables[i], p, v) : i \in DOMAIN d.tables}
                     /\ W = UNION {GridDays(d.grids[i].ds, p, v) : i \in DOMAIN d.grids}
  OBVIOUS
<1>9. Days(d, p, f) = A \cup U \cup W
  BY <1>3, <1>8 DEF Days
<1>10. DOMAIN SeriesByDate(d, p, f) = A \cup U \cup W
  BY <1>2, <1>4, <1>5, <1>6, <1>7, <1>8
<1> QED
  BY <1>9, <1>10

\* Two parameters meet on the days that both daily series have.
LEMMA ComparisonAgreesHolds ==
    ASSUME NEW d, Charted(d), NEW f
    PROVE  ComparisonAgrees(d, f)
<1>1. PICK days, series, counts :
        /\ days = [p \in Parameters |-> DOMAIN Timeseries(d, p, f, "daily")]
        /\ series = [p \in Parameters |-> SeriesByDate(d, p, f)]
        /\ counts = PairCounts(series)
  OBVIOUS
<1>2. ASSUME NEW p \in Parameters PROVE days[p] = Days(d, p, f) /\ DOMAIN series[p] = Days(d, p, f)
  BY <1>1, DailyDays, ComparedDays
<1>3. ASSUME NEW p \in Parameters, NEW q \in Parameters
      PROVE  counts[<<p, q>>] = Cardinality(days[p] \cap days[q])
  <2>1. <<p, q>> \in (DOMAIN series) \X (DOMAIN series)
    BY <1>1
  <2>2. counts[<<p, q>>] = Cardinality(DOMAIN Scatter(series[p], series[q]))
    BY <1>1, <2>1 DEF PairCounts
  <2>3. DOMAIN Scatter(series[p], series[q]) = DOMAIN series[p] \cap DOMAIN series[q]
    BY DEF Scatter
  <2> QED
    BY <1>2, <2>2, <2>3
<1> QED
  BY <1>1, <1>3 DEF ComparisonAgrees

-----------------------------------------------------------------------------
(* The extent of the dates                                                 *)

LEMMA SpanIs ==
    ASSUME NEW S, IsFiniteSet(S), S \subseteq Int
    PROVE  Spanned(MinMax(S), S)
<1>1. CASE S = {}
  BY <1>1 DEF MinMax, Spanned
<1>2. CASE S # {}
  <2>1. Min(S) \in S /\ \A j \in S : Min(S) <= j
    BY <1>2, LeastIn
  <2>2. Max(S) \in S /\ \A j \in S : j <= Max(S)
    BY <1>2, LastIn
  <2>3. MinMax(S)[1] = Min(S) /\ MinMax(S)[2] = Max(S)
    BY <1>2 DEF MinMax
  <2>4. None \notin Int
    BY ObservationsAssumption
  <2>5. Min(S) \in Int /\ Max(S) \in Int
    BY <2>1, <2>2
  <2> QED
    BY <1>2, <2>1, <2>2, <2>3, <2>4, <2>5 DEF Spanned
<1> QED
  BY <1>1, <1>2

\* The days that a file is dated by.
ExtentDays(p) ==
    CASE p.kind = "table"                 -> {Day(Timestamp(p.table, x)) : x \in NamedCells(p.table, "time")}
      [] p.kind = "grid" /\ HasTime(p.ds) -> {Day(TimeAt(p.ds, k)) : k \in p.ds.index["time"]}
      [] OTHER                            -> {}

LEMMA ExtentIs ==
    ASSUME NEW p
    PROVE  FileExtent(p) = MinMax(ExtentDays(p))
<1>1. CASE p.kind = "table"
  BY <1>1 DEF FileExtent, ExtentDays, TableExtent
<1>2. CASE p.kind = "grid" /\ HasTime(p.ds)
  BY <1>2 DEF FileExtent, ExtentDays
<1>3. CASE p.kind # "table" /\ ~(p.kind = "grid" /\ HasTime(p.ds))
  <2>1. FileExtent(p) = <<None, None>>
    BY <1>3 DEF FileExtent
  <2>2. ExtentDays(p) = {}
    BY <1>3 DEF ExtentDays
  <2> QED
    BY <2>1, <2>2 DEF MinMax
<1> QED
  BY <1>1, <1>2, <1>3

\* The days of a table are finitely many.
LEMMA TableExtentDays ==
    ASSUME NEW t, IsTable(t), NEW S, S = {Day(Timestamp(t, x)) : x \in NamedCells(t, "time")}
    PROVE  IsFiniteSet(S) /\ S \subseteq Int
<1>1. CASE t.named["time"] = None
  BY <1>1, FS_EmptySet DEF NamedCells
<1>2. CASE t.named["time"] # None
  <2>1. PICK c : c = t.named["time"] /\ c = ResolveCoordCol(t, "time")
    BY <1>2 DEF ResolveCoordCol
  <2>2. PICK D, cells : D = DOMAIN t.rows /\ cells = {t.rows[i][c] : i \in D}
    OBVIOUS
  <2>3. IsFiniteSet(D)
    <3>1. D = 1..Len(t.rows) /\ Len(t.rows) \in Nat
      BY <2>2 DEF IsTable
    <3> QED
      BY <3>1, FS_Interval
  <2>4. IsFiniteSet(cells)
    <3>1. PICK g : g = [i \in D |-> t.rows[i][c]]
      OBVIOUS
    <3>2. cells = {g[i] : i \in D}
      BY <2>2, <3>1
    <3> QED
      BY <2>3, <3>2, ImageFinite
  <2>5. PICK named : named = NamedCells(t, "time")
    OBVIOUS
  <2>6. named = cells \ {None}
    BY <1>2, <2>1, <2>2, <2>5 DEF NamedCells
  <2>7. named \subseteq Int
    <3>1. \A i \in D : t.rows[i][c] \in OrNone(Int)
      BY <1>2, <2>1, <2>2 DEF IsTable
    <3> QED
      BY <2>2, <2>6, <3>1 DEF OrNone
  <2>8. IsFiniteSet(named)
    BY <2>4, <2>6, FS_Subset
  <2>9. ASSUME NEW x \in named PROVE Day(Timestamp(t, x)) \in Int
    <3>1. x \in Int /\ TicksPerDay \in Int /\ EpochDatenum \in Int
      BY <2>7, ObservationsAssumption, TablesAssumption
    <3>2. Timestamp(t, x) \in Int
      BY <3>1 DEF Timestamp
    <3> QED
      BY <3>2, DayIs
  <2>10. PICK g : g = [x \in named |-> Day(Timestamp(t, x))]
    OBVIOUS
  <2>11. S = {g[x] : x \in named}
    BY <2>5, <2>10
  <2>12. IsFiniteSet(S)
    BY <2>8, <2>11, ImageFinite
  <2>13. S \subseteq Int
    BY <2>5, <2>9
  <2> QED
    BY <2>12, <2>13
<1> QED
  BY <1>1, <1>2

LEMMA ExtentIsDays ==
    ASSUME NEW p, FormedAs(p)
    PROVE  IsFiniteSet(ExtentDays(p)) /\ ExtentDays(p) \subseteq Int
<1>1. CASE p.kind = "table"
  <2>1. ExtentDays(p) = {Day(Timestamp(p.table, x)) : x \in NamedCells(p.table, "time")}
    BY <1>1 DEF ExtentDays
  <2>2. IsTable(p.table)
    BY <1>1 DEF FormedAs
  <2> QED
    BY <2>1, <2>2, TableExtentDays
<1>2. CASE p.kind = "grid" /\ HasTime(p.ds)
  <2>1. ExtentDays(p) = {Day(TimeAt(p.ds, k)) : k \in p.ds.index["time"]}
    BY <1>2 DEF ExtentDays
  <2>2. IsGrid(p.ds) /\ HasNumbers(p.ds)
    BY <1>2 DEF FormedAs
  <2> QED
    BY <1>2, <2>1, <2>2, GridExtentDays
<1>3. CASE p.kind # "table" /\ ~(p.kind = "grid" /\ HasTime(p.ds))
  <2>1. ExtentDays(p) = {}
    BY <1>3 DEF ExtentDays
  <2> QED
    BY <2>1, FS_EmptySet
<1> QED
  BY <1>1, <1>2, <1>3

\* A file's extent has the days that it brings.
LEMMA ExtentSpans ==
    ASSUME NEW p, FormedAs(p)
    PROVE  Spanned(FileExtent(p), ExtentDays(p))
<1>1. IsFiniteSet(ExtentDays(p)) /\ ExtentDays(p) \subseteq Int
  BY ExtentIsDays
<1>2. PICK S, e : S = ExtentDays(p) /\ e = FileExtent(p) /\ e = MinMax(S)
  BY ExtentIs
<1>3. Spanned(MinMax(S), S)
  BY <1>1, <1>2, SpanIs
<1> QED
  BY <1>2, <1>3

\* The days of a table's observations are among those of its file, if its parser
\* has named the times.
LEMMA TableDaysNamed ==
    ASSUME NEW t, IsTable(t), Binds(t, CoordColumns(t)), ResolveCoordCol(t, "time") = t.named["time"],
           "time" \in CoordColumns(t) => \A m \in BaseMelted(t) : m.cell["time"] # None,
           NEW p, NEW v, NEW day \in TableDays(t, p, v)
    PROVE  day \in {Day(Timestamp(t, x)) : x \in NamedCells(t, "time")}
<1>1. "time" \in CoordColumns(t)
  BY DEF TableDays
<1>2. PICK m \in BaseMelted(t) : day = Date(t, m) /\ m.cell["time"] # None
  BY <1>1 DEF TableDays, Of, Matching
<1>3. PICK i \in DOMAIN t.rows, w \in VariableColumns(t) : m = MeltedAs(t, i, w)
  BY MeltedIs
<1>4. PICK c, x : c = t.named["time"] /\ x = t.rows[i][c]
  OBVIOUS
<1>5. c # None /\ "time" \in ViewColumns(t)
  BY <1>1, <1>4 DEF CoordColumns, Binds
<1>6. m.cell["time"] = CoordinateAlias(t, t.rows[i], "time")
  BY <1>3, <1>5 DEF MeltedAs
<1>7. m.cell["time"] = IF RawTimeIsDatenum(t) /\ x # None THEN (x - EpochDatenum) * TicksPerDay ELSE x
  BY <1>1, <1>4, <1>6 DEF CoordinateAlias
<1>8. x # None
  BY <1>2, <1>7
<1>9. x \in NamedCells(t, "time")
  BY <1>4, <1>5, <1>8 DEF NamedCells
<1>10. m.cell["time"] = Timestamp(t, x)
  BY <1>7, <1>8 DEF Timestamp
<1>11. day = Day(Timestamp(t, x))
  BY <1>1, <1>2, <1>10 DEF Date, Coord
<1> QED
  BY <1>9, <1>11

\* What the files of a dataset give to its content.
FilesOf(d, F, parsed, extents) ==
    /\ IsFiniteSet(F)
    /\ \A f \in F : FormedAs(parsed[f])
    /\ extents = {FileExtent(parsed[f]) : f \in F}
    /\ \A i \in DOMAIN d.tables : \E f \in F : parsed[f].kind = "table" /\ d.tables[i] = parsed[f].table
    /\ \A i \in DOMAIN d.grids : \E f \in F : parsed[f].kind = "grid" /\ d.grids[i].ds = parsed[f].ds

\* Every day that a file brings is in the extent that the file declares.
LEMMA FileDays ==
    ASSUME NEW d, Charted(d), NEW F, NEW parsed, NEW extents, FilesOf(d, F, parsed, extents),
           \A i \in DOMAIN d.tables : ResolveCoordCol(d.tables[i], "time") = d.tables[i].named["time"],
           NEW p, NEW f, NEW day \in Days(d, p, f)
    PROVE  \/ day \in RecordDays(d.records, p, f)
           \/ \E g \in F : day \in ExtentDays(parsed[g])
<1>1. PICK v : v = VizFilterToRecordsFilter(f)
  OBVIOUS
<1>2. CASE \E i \in DOMAIN d.tables : day \in TableDays(d.tables[i], p, v)
  <2>1. PICK i \in DOMAIN d.tables : day \in TableDays(d.tables[i], p, v)
    BY <1>2
  <2>2. PICK t : t = d.tables[i] /\ \E g \in F : parsed[g].kind = "table" /\ t = parsed[g].table
    BY DEF FilesOf
  <2>3. PICK g \in F : parsed[g].kind = "table" /\ t = parsed[g].table
    BY <2>2
  <2>4. /\ IsTable(t) /\ Binds(t, CoordColumns(t)) /\ ResolveCoordCol(t, "time") = t.named["time"]
        /\ "time" \in CoordColumns(t) => \A m \in BaseMelted(t) : m.cell["time"] # None
    BY <2>2 DEF Charted, Dated
  <2>5. day \in {Day(Timestamp(t, x)) : x \in NamedCells(t, "time")}
    BY <2>1, <2>2, <2>4, TableDaysNamed
  <2>6. day \in ExtentDays(parsed[g])
    BY <2>3, <2>5 DEF ExtentDays
  <2> QED
    BY <2>6
<1>3. CASE \E i \in DOMAIN d.grids : day \in GridDays(d.grids[i].ds, p, v)
  <2>1. PICK i \in DOMAIN d.grids : day \in GridDays(d.grids[i].ds, p, v)
    BY <1>3
  <2>2. PICK ds : ds = d.grids[i].ds /\ \E g \in F : parsed[g].kind = "grid" /\ ds = parsed[g].ds
    BY DEF FilesOf
  <2>3. PICK g \in F : parsed[g].kind = "grid" /\ ds = parsed[g].ds
    BY <2>2
  <2>4. IsGrid(ds)
    BY <2>2 DEF Charted
  <2>5. HasTime(ds) /\ day \in {Day(TimeAt(ds, k)) : k \in ds.index["time"]}
    BY <2>1, <2>2, <2>4, GridDaysOnAxis
  <2>6. day \in ExtentDays(parsed[g])
    BY <2>3, <2>5 DEF ExtentDays
  <2> QED
    BY <2>6
<1> QED
  BY <1>1, <1>2, <1>3 DEF Days

\* The extent of the dataset has the days of its files, or of its rows if no file is dated.
LEMMA ExtentCoversHolds ==
    ASSUME NEW d, Charted(d), NEW F, NEW parsed, NEW extents, FilesOf(d, F, parsed, extents),
           IsFiniteSet(d.records), \A r \in d.records : r.time \in OrNone(Int),
           NEW p, NEW f
    PROVE  ExtentCovers(d, extents, Timeseries(d, p, f, "daily"))
<1> SUFFICES ASSUME d.records = {} \/ (\A e \in extents : e[1] = None),
                    \A i \in DOMAIN d.tables : ResolveCoordCol(d.tables[i], "time") = d.tables[i].named["time"],
                    NEW day \in DOMAIN Timeseries(d, p, f, "daily")
             PROVE  /\ TemporalExtent(extents, d.records)[1] <= day
                    /\ day <= TemporalExtent(extents, d.records)[2]
  BY DEF ExtentCovers
<1>1. day \in Days(d, p, f)
  BY DailyDays
<1>2. None \notin Int
  BY ObservationsAssumption
<1>3. \A g \in F : Spanned(FileExtent(parsed[g]), ExtentDays(parsed[g]))
  BY ExtentSpans DEF FilesOf
<1>4. PICK dated : dated = {e \in extents : e[1] # None}
  OBVIOUS
<1>5. CASE dated = {}
  <2>1. ASSUME NEW g \in F PROVE ExtentDays(parsed[g]) = {}
    <3>1. FileExtent(parsed[g])[1] = None
      BY <1>4, <1>5 DEF FilesOf
    <3> QED
      BY <1>3, <3>1 DEF Spanned
  <2>2. day \in RecordDays(d.records, p, f)
    BY <1>1, <2>1, FileDays
  <2>3. PICK T, S : T = {r.time : r \in d.records} /\ S = T \ {None}
    OBVIOUS
  <2>4. day \in S
    BY <2>2, <2>3 DEF RecordDays, ApplyVizFilters, RecordsMatching
  <2>5. S \subseteq Int
    BY <2>3 DEF OrNone
  <2>6. IsFiniteSet(S)
    <3>1. PICK g : g = [r \in d.records |-> r.time]
      OBVIOUS
    <3>2. IsFiniteSet({g[r] : r \in d.records})
      BY ImageFinite
    <3>3. T = {g[r] : r \in d.records}
      BY <2>3, <3>1
    <3> QED
      BY <2>3, <3>2, <3>3, FS_Subset
  <2>7. TemporalExtent(extents, d.records) = <<Min(S), Max(S)>>
    BY <1>4, <1>5, <2>3, <2>4 DEF TemporalExtent, Extent
  <2>8. Min(S) <= day /\ day <= Max(S)
    BY <2>4, <2>5, <2>6, LeastIn, LastIn
  <2> QED
    BY <2>7, <2>8
<1>6. CASE dated # {}
  <2>1. d.records = {}
    BY <1>4, <1>6
  <2>2. day \notin RecordDays(d.records, p, f)
    BY <2>1 DEF RecordDays, ApplyVizFilters, RecordsMatching
  <2>3. PICK g \in F : day \in ExtentDays(parsed[g])
    BY <1>1, <2>2, FileDays
  <2>4. PICK e : e = FileExtent(parsed[g])
    OBVIOUS
  <2>5. e[1] \in Int /\ e[2] \in Int /\ e[1] <= day /\ day <= e[2]
    BY <1>3, <2>3, <2>4 DEF Spanned
  <2>6. e \in dated
    BY <1>2, <1>4, <2>4, <2>5 DEF FilesOf
  <2>7. ASSUME NEW x \in dated PROVE x[1] \in Int /\ x[2] \in Int
    <3>1. PICK h \in F : x = FileExtent(parsed[h]) /\ x[1] # None
      BY <1>4 DEF FilesOf
    <3>2. ExtentDays(parsed[h]) # {}
      BY <1>3, <3>1 DEF Spanned
    <3> QED
      BY <1>3, <3>1, <3>2 DEF Spanned
  <2>8. IsFiniteSet(dated)
    <3>1. PICK h : h = [g_ \in F |-> FileExtent(parsed[g_])]
      OBVIOUS
    <3>2. IsFiniteSet({h[g_] : g_ \in F})
      BY ImageFinite DEF FilesOf
    <3>3. extents = {h[g_] : g_ \in F}
      BY <3>1 DEF FilesOf
    <3> QED
      BY <1>4, <3>2, <3>3, FS_Subset
  <2>9. PICK A, B : A = {x[1] : x \in dated} /\ B = {x[2] : x \in dated}
    OBVIOUS
  <2>10. IsFiniteSet(A) /\ IsFiniteSet(B)
    <3>1. PICK a, b : a = [x \in dated |-> x[1]] /\ b = [x \in dated |-> x[2]]
      OBVIOUS
    <3>2. IsFiniteSet({a[x] : x \in dated}) /\ IsFiniteSet({b[x] : x \in dated})
      BY <2>8, ImageFinite
    <3>3. A = {a[x] : x \in dated} /\ B = {b[x] : x \in dated}
      BY <2>9, <3>1
    <3> QED
      BY <3>2, <3>3
  <2>11. A \subseteq Int /\ B \subseteq Int /\ e[1] \in A /\ e[2] \in B
    BY <2>6, <2>7, <2>9
  <2>12. Min(A) \in Int /\ Max(B) \in Int /\ Min(A) <= e[1] /\ e[2] <= Max(B)
    BY <2>10, <2>11, LeastIn, LastIn
  <2>13. B \ {None} = B /\ B # {}
    BY <1>2, <2>11
  <2>14. TemporalExtent(extents, d.records) = <<Min(A), Max(B)>>
    BY <1>4, <1>6, <2>9, <2>13 DEF TemporalExtent
  <2>15. day \in Int
    <3>1. ExtentDays(parsed[g]) \subseteq Int
      BY <2>3, ExtentIsDays DEF FilesOf
    <3> QED
      BY <2>3, <3>1
  <2>16. Min(A) <= day /\ day <= Max(B)
    BY <2>5, <2>12, <2>15
  <2> QED
    BY <2>14, <2>16
<1> QED
  BY <1>5, <1>6

-----------------------------------------------------------------------------
(* The values of the tables and of the grids are finitely many             *)

LEMMA RawOfTablesFinite ==
    ASSUME NEW d, Charted(d), NEW p, NEW f
    PROVE  IsFiniteSet(RawOfTables(d, p, f))
<1>1. PICK v, D : v = VizFilterToRecordsFilter(f) /\ D = DOMAIN d.tables
  OBVIOUS
<1>2. IsFiniteSet(D) /\ \A i \in D : IsTable(d.tables[i])
  <2>1. PICK n \in Nat : D = 1..n
    BY <1>1 DEF Charted
  <2> QED
    BY <1>1, <2>1, FS_Interval DEF Charted
<1>3. PICK V : V = [i \in D |-> {[table |-> i, row |-> x.row, station |-> x.station, time |-> x.time, value |-> x.value] :
                                   x \in TableRawValues(d.tables[i], p, v)}]
  OBVIOUS
<1>4. ASSUME NEW i \in D PROVE IsFiniteSet(V[i])
  <2>1. PICK R : R = TableRawValues(d.tables[i], p, v)
    OBVIOUS
  <2>2. IsFiniteSet(R)
    BY <1>2, <2>1, TableValuesFinite
  <2>3. PICK g : g = [x \in R |-> [table |-> i, row |-> x.row, station |-> x.station, time |-> x.time, value |-> x.value]]
    OBVIOUS
  <2>4. IsFiniteSet({g[x] : x \in R})
    BY <2>2, ImageFinite
  <2>5. V[i] = {g[x] : x \in R}
    BY <1>3, <2>1, <2>3
  <2> QED
    BY <2>4, <2>5
<1>5. PICK U : U = {V[i] : i \in D}
  OBVIOUS
<1>6. IsFiniteSet(U)
  <2>1. IsFiniteSet({V[i] : i \in D})
    BY <1>2, ImageFinite
  <2> QED
    BY <1>5, <2>1
<1>7. \A T \in U : IsFiniteSet(T)
  BY <1>4, <1>5
<1>8. IsFiniteSet(UNION U)
  BY <1>6, <1>7, FS_UNION
<1>9. RawOfTables(d, p, f) = UNION U
  BY <1>1, <1>3, <1>5 DEF RawOfTables
<1> QED
  BY <1>8, <1>9

LEMMA RawOfGridsFinite ==
    ASSUME NEW d, Charted(d), \A i \in DOMAIN d.grids : HasNumbers(d.grids[i].ds), NEW p, NEW f
    PROVE  IsFiniteSet(RawOfGrids(d, p, f))
<1>1. PICK v, D : v = VizFilterToRecordsFilter(f) /\ D = DOMAIN d.grids
  OBVIOUS
<1>2. IsFiniteSet(D) /\ \A i \in D : IsGrid(d.grids[i].ds) /\ HasNumbers(d.grids[i].ds)
  <2>1. PICK n \in Nat : D = 1..n
    BY <1>1 DEF Charted
  <2> QED
    BY <1>1, <2>1, FS_Interval DEF Charted
<1>3. PICK V : V = [i \in D |-> {[grid |-> i, time |-> x.time, step |-> x.step, value |-> x.value] :
                                   x \in GridRawValues(d.grids[i].ds, p, v)}]
  OBVIOUS
<1>4. ASSUME NEW i \in D PROVE IsFiniteSet(V[i])
  <2>1. PICK R : R = GridRawValues(d.grids[i].ds, p, v)
    OBVIOUS
  <2>2. IsFiniteSet(R)
    BY <1>2, <2>1, GridValuesAre DEF IsValues
  <2>3. PICK g : g = [x \in R |-> [grid |-> i, time |-> x.time, step |-> x.step, value |-> x.value]]
    OBVIOUS
  <2>4. IsFiniteSet({g[x] : x \in R})
    BY <2>2, ImageFinite
  <2>5. V[i] = {g[x] : x \in R}
    BY <1>3, <2>1, <2>3
  <2> QED
    BY <2>4, <2>5
<1>5. PICK U : U = {V[i] : i \in D}
  OBVIOUS
<1>6. IsFiniteSet(U)
  <2>1. IsFiniteSet({V[i] : i \in D})
    BY <1>2, ImageFinite
  <2> QED
    BY <1>5, <2>1
<1>7. \A T \in U : IsFiniteSet(T)
  BY <1>4, <1>5
<1>8. IsFiniteSet(UNION U)
  BY <1>6, <1>7, FS_UNION
<1>9. RawOfGrids(d, p, f) = UNION U
  BY <1>1, <1>3, <1>5 DEF RawOfGrids
<1> QED
  BY <1>8, <1>9

-----------------------------------------------------------------------------
(* Statistics                                                              *)

\* With one grid, the averages of the statistics are merged as those of the daily series.
LEMMA StatisticsAgreeHolds ==
    ASSUME NEW d, Charted(d), Numbered(d), \A n \in Nat : DOMAIN d.grids = 1..n => Len(d.grids) = n, NEW p, NEW f
    PROVE  StatisticsAgree(d, p, f, Timeseries(d, p, f, "daily"))
<1> SUFFICES ASSUME Len(d.grids) <= 1
             PROVE  SameSeries(StatisticsSeries(d, p, f), Timeseries(d, p, f, "daily"))
  BY DEF StatisticsAgree
<1>1. PICK v, R, T, G, none, daily, M, N :
        /\ v = VizFilterToRecordsFilter(f)
        /\ R = ByCount(RecordSeries(d, p, f, "daily"))
        /\ T = TableParts(d, p, f, "daily") /\ G = GridParts(d, p, f, "daily")
        /\ none = <<>>
        /\ daily = AsOne(DayMeans(RawOfGrids(d, p, f)))
        /\ M = MergedSeries(T \o none) /\ N = MergedSeries(T \o G)
  OBVIOUS
<1>2. PICK n \in Nat, m \in Nat : DOMAIN d.tables = 1..n /\ DOMAIN d.grids = 1..m
  BY DEF Charted
<1>3. IsList(T, n) /\ IsList(G, m) /\ IsList(none, 0)
  BY <1>1, <1>2, NoList DEF IsList, TableParts, GridParts
<1>4. PICK before, all : before = T \o none /\ all = T \o G
  OBVIOUS
<1>5. IsJoined(before, T, n, none, 0) /\ IsJoined(all, T, n, G, m)
  BY <1>3, <1>4, ConcatIs
<1>6. StatisticsSeries(d, p, f) = MergeWeighted(MergeWeighted(R, M), daily)
  <2>1. StatisticsSeries(d, p, f)
          = MergeWeighted(MergeWeighted(R, MergedTimeseries(d, p, f, "daily", FALSE)),
                          AsOne(SeriesOf(RawOfGrids(d, p, f), LAMBDA x : x.time, LAMBDA x : x.value)))
    BY <1>1 DEF StatisticsSeries
  <2>2. MergedTimeseries(d, p, f, "daily", FALSE) = M
    BY <1>1, TimeseriesIs
  <2> QED
    BY <1>1, <2>1, <2>2, DailyMeans
<1>7. Timeseries(d, p, f, "daily") = MergeWeighted(R, N)
  BY <1>1, TimeseriesIs
<1>8. IsSeries(R)
  BY <1>1, RecordMeans, CountedSeries DEF Numbered
<1>9. DOMAIN before = 1..n /\ before = [i \in 1..n |-> before[i]] /\ \A i \in 1..n : before[i] = T[i]
  <2>1. n + 0 = n
    BY <1>2
  <2> QED
    BY <1>5, <2>1 DEF IsJoined, IsList
<1>10. IsSeries(M)
  <2>1. ASSUME NEW i \in 1..n PROVE IsSeries(before[i])
    <3>1. before[i] = ByCount(TableTimeseries(d.tables[i], p, v, "daily"))
      BY <1>1, <1>2, <1>9 DEF TableParts
    <3>2. IsTable(d.tables[i])
      BY <1>2 DEF Charted
    <3>3. IsMeans(TableTimeseries(d.tables[i], p, v, "daily"))
      BY <3>2, TableMeans
    <3> QED
      BY <3>1, <3>3, CountedSeries
  <2>2. IsSeries(MergedSeries(before))
    BY <1>2, <1>9, <2>1, FoldSeries
  <2> QED
    BY <1>1, <1>4, <2>2
<1>11. m = 0 \/ m = 1
  <2>1. Len(d.grids) = m
    BY <1>2
  <2> QED
    BY <1>2, <2>1
<1>12. CASE m = 0
  <2>1. before = all
    <3>1. n + m = n
      BY <1>2, <1>12
    <3>2. all = [i \in 1..n |-> all[i]] /\ \A i \in 1..n : all[i] = T[i]
      BY <1>5, <3>1 DEF IsJoined, IsList
    <3> QED
      BY <1>9, <3>2
  <2>2. DOMAIN daily = {}
    <3>1. RawOfGrids(d, p, f) = {}
      BY <1>2, <1>12 DEF RawOfGrids
    <3> QED
      BY <1>1, <3>1 DEF AsOne, DayMeans, TimesOf
  <2>3. IsSeries(MergeWeighted(R, M))
    BY <1>8, <1>10, MergedIs
  <2>4. MergeWeighted(MergeWeighted(R, M), daily) = MergeWeighted(R, M)
    BY <2>2, <2>3, MergeEmpty
  <2> QED
    BY <1>1, <1>4, <1>6, <1>7, <2>1, <2>4, SeriesItself DEF SameAsItself
<1>13. CASE m = 1
  <2>1. PICK ds, values : ds = d.grids[1].ds /\ values = GridRawValues(ds, p, v)
    OBVIOUS
  <2>2. IsValues(values)
    <3>1. IsGrid(ds) /\ HasNumbers(ds)
      BY <1>2, <1>13, <2>1 DEF Charted, Numbered
    <3> QED
      BY <2>1, <3>1, GridValuesAre
  <2>3. daily = AsOne(DayMeans(values))
    <3>1. RawOfGrids(d, p, f) = WithGrid(1, values)
      BY <1>1, <1>2, <1>13, <2>1, RawOfOneGrid
    <3>2. \A x \in values : x = [time |-> x.time, step |-> x.step, value |-> x.value]
      BY <2>1, GridValuesRecords
    <3>3. DayMeans(WithGrid(1, values)) = DayMeans(values)
      BY <2>2, <3>2, MeansWithGrid
    <3> QED
      BY <1>1, <3>1, <3>3
  <2>4. G[1] = daily
    <3>1. G[1] = AsOne(GridTimeseries(ds, p, v, "daily"))
      BY <1>1, <1>2, <1>13, <2>1 DEF GridParts
    <3>2. GridTimeseries(ds, p, v, "daily") = BucketMeans(values, "daily")
      BY <2>1 DEF GridTimeseries
    <3> QED
      BY <2>3, <3>1, <3>2, DailyMeans
  <2>5. N = MergeWeighted(M, daily)
    <3>1. DOMAIN all = 1..(n + 1) /\ \A i \in 1..n : all[i] = before[i]
      BY <1>2, <1>5, <1>9, <1>13 DEF IsJoined, IsList
    <3>2. all[n + 1] = daily
      BY <1>5, <1>13, <2>4 DEF IsJoined
    <3>3. MergedSeries(all) = MergeWeighted(MergedSeries(before), all[n + 1])
      BY <1>2, <1>9, <3>1, FoldOneMore
    <3> QED
      BY <1>1, <1>4, <3>2, <3>3
  <2>6. IsSeries(daily)
    BY <2>2, <2>3, DayMeansSeries
  <2>7. MergeWeighted(MergeWeighted(R, M), daily) = MergeWeighted(R, MergeWeighted(M, daily))
    BY <1>8, <1>10, <2>6, MergeAssociates
  <2> QED
    BY <1>6, <1>7, <2>5, <2>7, SeriesItself DEF SameAsItself
<1> QED
  BY <1>11, <1>12, <1>13

-----------------------------------------------------------------------------
(* What a map reads of a grid                                              *)

\* A point of a map of the grid has a place of the box.
LEMMA GridPointInside ==
    ASSUME NEW ds, IsGrid(ds), NEW f, HasBox(f), NEW p, SideBySide(ds, p), NEW m,
           NEW S, S = GridPoints(ds, p, f, m), S # None, NEW point \in S
    PROVE  InBox(f, point.lat, point.lon)
<1>1. HasPlace(ds) /\ p \in DOMAIN ds.vars
  BY DEF GridPoints
<1>2. PICK g : g = Filtered(ds, f)
  OBVIOUS
<1>3. PICK lat, lon, masked, inside : BoxCut(g, ds, f, lat, lon, masked, inside)
  BY <1>1, <1>2, FilteredBoxCut
<1>4. /\ IsGrid(g) /\ lat = g.coords[LatName(ds)] /\ lon = g.coords[LonName(ds)]
      /\ lat.dims \in Seq(DOMAIN g.index) /\ lon.dims \in Seq(DOMAIN g.index)
      /\ ToSet(masked) = Dims(lat) \cup Dims(lon) /\ DOMAIN g.vars = DOMAIN ds.vars
      /\ DOMAIN g.index = DOMAIN ds.index
      /\ lat = ds.coords[LatName(ds)] /\ lon = ds.coords[LonName(ds)]
  BY <1>3 DEF BoxCut
<1>5. PICK array, timed, h, sizes, axes, values, lats, lons :
        /\ array = g.vars[p] /\ timed = ("time" \in Dims(array))
        /\ h = (IF timed THEN StepOf(g, LastStep(g)) ELSE g)
        /\ LET plane == SelectSeq(array.dims, LAMBDA d : d # "time")
           IN  sizes = [k \in DOMAIN plane |-> Cardinality(g.index[plane[k]])]
        /\ axes = (Len(lat.dims) = 1 /\ Len(lon.dims) = 1)
        /\ values = Flat(h, array) /\ lats = Flat(g, lat) /\ lons = Flat(g, lon)
  OBVIOUS
<1>6. /\ ~(timed /\ g.index["time"] = {})
      /\ S = SampledPoints(values, lats, lons, sizes, axes, m)
  <2>1. S = PointsOf(g, p, LatName(ds), LonName(ds), m)
    BY <1>1, <1>2 DEF GridPoints
  <2>2. ~(timed /\ g.index["time"] = {})
    BY <1>5, <2>1 DEF PointsOf
  <2> QED
    BY <1>4, <1>5, <2>1, <2>2 DEF PointsOf, StepOf
<1>7. CASE axes
  <2>1. /\ \A i \in 1..Len(lats) : LatIn(f, lats[i])
        /\ \A i \in 1..Len(lons) : LonIn(f, lons[i])
    BY <1>3, <1>5, <1>7, AxesInside
  <2>2. PICK i, j : i \in 1..Len(lats) /\ j \in 1..Len(lons) /\ point.lat = lats[i] /\ point.lon = lons[j]
    <3>1. CASE Len(sizes) = 2
      <4>1. PICK stride : S = PlanePoints(values, lats, lons, sizes[1], sizes[2], stride)
        BY <1>6, <1>7, <3>1 DEF SampledPoints
      <4>2. PICK i \in 1..Len(lats) : \E j \in 1..Len(lons) : point.lat = lats[i] /\ point.lon = lons[j]
        BY <4>1, PlaneShape
      <4> QED
        BY <4>2
    <3>2. CASE Len(sizes) # 2
      <4>1. PICK stride : S = LinePoints(values, lats, lons, stride)
        BY <1>6, <1>7, <3>2 DEF SampledPoints
      <4>2. PICK read : read = Sampled(Len(lats), stride) /\ read \subseteq 1..Len(lats)
        BY SampledIn
      <4>3. PICK T : T = {[lat |-> lats[i], lon |-> lons[i], value |-> values[i]] : i \in read}
        OBVIOUS
      <4>4. S = ValidPoints(T) /\ \A i \in read : ~(i > Len(lons))
        BY <4>1, <4>2, <4>3 DEF LinePoints
      <4>5. point \in T
        BY <4>4 DEF ValidPoints
      <4>6. PICK i \in read : point = [lat |-> lats[i], lon |-> lons[i], value |-> values[i]]
        BY <4>3, <4>5
      <4>7. i \in 1..Len(lats) /\ i \in 1..Len(lons)
        <5>1. Len(lons) \in Nat /\ Len(lats) \in Nat
          BY <1>4, <1>5, FlatIs
        <5> QED
          BY <4>2, <4>4, <4>6, <5>1
      <4> QED
        BY <4>6, <4>7
    <3> QED
      BY <3>1, <3>2
  <2> QED
    BY <2>1, <2>2 DEF LatIn, LonIn, InBox
<1>8. CASE ~axes
  <2>1. PICK L : L = lat.dims
    OBVIOUS
  <2>2. lat.dims = lon.dims /\ "time" \notin ToSet(L) /\ ds.vars[p].dims \in {L, <<"time">> \o L}
    BY <1>1, <1>4, <1>5, <1>8, <2>1 DEF SideBySide
  <2>3. ToSet(masked) = ToSet(L) /\ L \in Seq(DOMAIN g.index)
    BY <1>4, <2>1, <2>2 DEF Dims
  <2>4. ds.vars[p].dims \in Seq(DOMAIN g.index)
    BY <1>1, <1>4 DEF IsGrid
  <2>5. PICK stride : S = LinePoints(values, lats, lons, stride)
    BY <1>6, <1>8 DEF SampledPoints
  <2>6. CASE ds.vars[p].dims = L
    <3>1. ToSet(masked) \subseteq Dims(ds.vars[p])
      BY <2>3, <2>6 DEF Dims
    <3>2. array.dims = L
      BY <1>1, <1>3, <1>5, <2>6, <3>1, BoxKeepsDims
    <3>3. h = g
      BY <1>5, <2>2, <3>2 DEF Dims
    <3>4. Len(values) \in Nat /\ Len(lats) \in Nat /\ Len(lons) \in Nat
      BY <1>4, <1>5, <2>3, <3>2, <3>3, FlatIs
    <3>5. PICK i \in 1..Len(lats) : /\ i <= Len(lons) /\ i <= Len(values)
                                    /\ point.lat = lats[i] /\ point.lon = lons[i] /\ values[i] # None
      BY <2>5, <3>4, LineShape
    <3>6. i \in 1..Len(values)
      BY <3>4, <3>5
    <3>7. ReadAt(g, L, h, array, i) /\ i \in DOMAIN Ravel(g, L)
      BY <1>4, <1>5, <2>3, <3>2, <3>3, <3>6, ReadPlain
    <3>8. InBox(f, lats[i], lons[i])
      BY <1>1, <1>3, <1>5, <2>1, <2>2, <3>1, <3>5, <3>7, LineInside
    <3> QED
      BY <3>5, <3>8
  <2>7. CASE ds.vars[p].dims = <<"time">> \o L
    <3>1. PICK M : M = <<"time">> \o L
      OBVIOUS
    <3>2. "time" \in DOMAIN g.index
      <4>1. PICK n \in Nat : n = Len(L) /\ DOMAIN L = 1..n
        BY <2>3, InNames
      <4>2. M \in Seq(DOMAIN g.index)
        BY <2>4, <2>7, <3>1
      <4>3. M[1] = "time" /\ 1 \in DOMAIN M
        BY <4>1, <3>1, <2>3
      <4> QED
        BY <4>2, <4>3
    <3>3. ToSet(M) = {"time"} \cup ToSet(L)
      BY <2>3, <3>1, <3>2, StepDims
    <3>4. ToSet(masked) \subseteq Dims(ds.vars[p])
      BY <2>3, <2>7, <3>1, <3>3 DEF Dims
    <3>5. array.dims = <<"time">> \o L
      BY <1>1, <1>3, <1>5, <2>7, <3>4, BoxKeepsDims
    <3>6. timed /\ h = StepOf(g, LastStep(g)) /\ g.index["time"] # {}
      BY <1>5, <1>6, <3>1, <3>3, <3>5 DEF Dims
    <3>7. PICK k \in g.index["time"] : k = LastStep(g) /\ h = StepOf(g, k)
      BY <1>4, <3>2, <3>6, LastStepIn
    <3>8. IsGrid(h) /\ array.dims \in Seq(DOMAIN h.index) /\ array.dims \in Seq(DOMAIN g.index)
      <4>1. {k} \subseteq g.index["time"]
        OBVIOUS
      <4>2. GridCut(h, g)
        BY <1>4, <3>7, <4>1, SelectionCuts DEF StepOf
      <4> QED
        BY <2>4, <2>7, <3>5, <4>2 DEF GridCut
    <3>9. Len(values) \in Nat /\ Len(lats) \in Nat /\ Len(lons) \in Nat
      BY <1>4, <1>5, <3>8, FlatIs
    <3>10. PICK i \in 1..Len(lats) : /\ i <= Len(lons) /\ i <= Len(values)
                                     /\ point.lat = lats[i] /\ point.lon = lons[i] /\ values[i] # None
      BY <2>5, <3>9, LineShape
    <3>11. i \in 1..Len(Flat(h, array))
      BY <1>5, <3>9, <3>10
    <3>12. ReadAt(g, L, h, array, i) /\ i \in DOMAIN Ravel(g, L)
      BY <1>4, <2>2, <2>3, <3>2, <3>5, <3>7, <3>8, <3>11, ReadStep
    <3>13. InBox(f, lats[i], lons[i])
      BY <1>1, <1>3, <1>5, <2>1, <2>2, <3>4, <3>10, <3>12, LineInside
    <3> QED
      BY <3>10, <3>13
  <2> QED
    BY <2>2, <2>6, <2>7
<1> QED
  BY <1>7, <1>8

-----------------------------------------------------------------------------
(* Points and places                                                       *)

\* The points of tables and grids lie in the box.
LEMMA PointsAgreeHolds ==
    ASSUME NEW d, Charted(d), NEW p, NEW f \in Filter, NEW m
    PROVE  PointsAgree(d, FilePoints(d, p, f, m), p, f)
<1> SUFFICES ASSUME HasBox(f), \A i \in DOMAIN d.grids : SideBySide(d.grids[i].ds, p),
                    NEW points, points = FilePoints(d, p, f, m),
                    NEW found \in (ToSet(points.tables) \cup ToSet(points.grids)) \ {None}, NEW point \in found
             PROVE  InBox(f, point.lat, point.lon)
  BY DEF PointsAgree
<1>1. PICK v : v = VizFilterToRecordsFilter(f) /\ HasBox(v) /\ \A lat, lon : InBox(v, lat, lon) => InBox(f, lat, lon)
  BY VizBox DEF SameBox
<1>2. PICK tables, grids : /\ tables = [i \in DOMAIN d.tables |-> TablePoints(d.tables[i], p, v)]
                           /\ grids = [i \in DOMAIN d.grids |-> GridPoints(d.grids[i].ds, p, v, m)]
  OBVIOUS
<1>3. points = [tables |-> tables, grids |-> grids]
  BY <1>1, <1>2 DEF FilePoints
<1>4. CASE found \in ToSet(tables)
  <2>1. PICK i \in DOMAIN d.tables : found = TablePoints(d.tables[i], p, v)
    BY <1>2, <1>4 DEF ToSet
  <2>2. InBox(v, point.lat, point.lon)
    BY <1>1, <2>1, TablePointInside
  <2> QED
    BY <1>1, <2>2
<1>5. CASE found \in ToSet(grids)
  <2>1. PICK i \in DOMAIN d.grids : found = GridPoints(d.grids[i].ds, p, v, m)
    BY <1>2, <1>5 DEF ToSet
  <2>2. IsGrid(d.grids[i].ds) /\ SideBySide(d.grids[i].ds, p) /\ found # None
    BY DEF Charted
  <2>3. InBox(v, point.lat, point.lon)
    BY <1>1, <2>1, <2>2, GridPointInside
  <2> QED
    BY <1>1, <2>3
<1> QED
  BY <1>3, <1>4, <1>5

\* Averages by place are of points, or of rows and values, that lie in the box.
LEMMA PlacesAgreeHolds ==
    ASSUME NEW d, Charted(d), NEW p, NEW f \in Filter, NEW m
    PROVE  PlacesAgree(d, SeriesByPlace(d, p, f, m), FilePoints(d, p, f, m), p, f)
<1> SUFFICES ASSUME HasBox(f), NEW points, points = FilePoints(d, p, f, m), None \notin ToSet(points.grids),
                    \A i \in DOMAIN d.grids : SideBySide(d.grids[i].ds, p),
                    NEW place \in DOMAIN SeriesByPlace(d, p, f, m)
             PROVE  InBox(f, place[1], place[2])
  BY DEF PlacesAgree
<1>1. PICK v : v = VizFilterToRecordsFilter(f) /\ HasBox(v) /\ \A lat, lon : InBox(v, lat, lon) => InBox(f, lat, lon)
  BY VizBox DEF SameBox
<1>2. PICK records_, tables, grids, all :
        /\ records_ = {r \in ApplyVizFilters(d.records, p, f) : r.lat # None /\ r.lon # None}
        /\ tables = UNION {TaggedAs("table", i, TableRawValuesWithLocation(d.tables[i], p, v)) : i \in DOMAIN d.tables}
        /\ grids = UNION {TaggedAs("grid", i, GridPoints(d.grids[i].ds, p, v, m)) : i \in DOMAIN d.grids}
        /\ all = TaggedAs("record", 0, records_) \cup tables \cup grids
  OBVIOUS
<1>3. PICK s : s = MeansBy(all, LAMBDA x : x.at, LAMBDA x : x.value)
  OBVIOUS
<1>4. SeriesByPlace(d, p, f, m) = s
  BY <1>1, <1>2, <1>3 DEF SeriesByPlace, TaggedAs
<1>5. DOMAIN s = {x.at : x \in all}
  BY <1>3 DEF MeansBy
<1>6. PICK x \in all : place = x.at
  BY <1>4, <1>5
<1>7. CASE x \in TaggedAs("record", 0, records_)
  <2>1. PICK r \in records_ : x.at = <<r.lat, r.lon>>
    BY <1>7 DEF TaggedAs
  <2>2. InBox(v, r.lat, r.lon)
    BY <1>1, <1>2 DEF ApplyVizFilters, RecordsMatching, RecordMatches
  <2> QED
    BY <1>1, <1>6, <2>1, <2>2
<1>8. CASE x \in tables
  <2>1. PICK i \in DOMAIN d.tables : x \in TaggedAs("table", i, TableRawValuesWithLocation(d.tables[i], p, v))
    BY <1>2, <1>8
  <2>2. PICK r \in TableRawValuesWithLocation(d.tables[i], p, v) : x.at = <<r.lat, r.lon>>
    BY <2>1 DEF TaggedAs
  <2>3. InBox(v, r.lat, r.lon)
    BY <1>1, TableLocationInside
  <2> QED
    BY <1>1, <1>6, <2>2, <2>3
<1>9. CASE x \in grids
  <2>1. PICK i \in DOMAIN d.grids : x \in TaggedAs("grid", i, GridPoints(d.grids[i].ds, p, v, m))
    BY <1>2, <1>9
  <2>2. PICK r \in GridPoints(d.grids[i].ds, p, v, m) : x.at = <<r.lat, r.lon>>
    BY <2>1 DEF TaggedAs
  <2>3. GridPoints(d.grids[i].ds, p, v, m) # None
    <3>1. PICK list : list = [j \in DOMAIN d.grids |-> GridPoints(d.grids[j].ds, p, v, m)]
      OBVIOUS
    <3>2. points.grids = list
      BY <1>1, <3>1 DEF FilePoints
    <3>3. list[i] \in ToSet(list) /\ list[i] = GridPoints(d.grids[i].ds, p, v, m)
      BY <3>1 DEF ToSet
    <3> QED
      BY <3>2, <3>3
  <2>4. IsGrid(d.grids[i].ds) /\ SideBySide(d.grids[i].ds, p)
    BY DEF Charted
  <2>5. InBox(v, r.lat, r.lon)
    BY <1>1, <2>2, <2>3, <2>4, GridPointInside
  <2> QED
    BY <1>1, <1>6, <2>2, <2>5
<1> QED
  BY <1>2, <1>7, <1>8, <1>9

-----------------------------------------------------------------------------
(* Lists of lists                                                          *)

\* A preview without grids has what the counts of the catalogue promise.
LEMMA PreviewAgreesHolds ==
    ASSUME NEW d, Charted(d), IsFiniteSet(d.records), NEW f
    PROVE  PreviewAgrees(d, f)
<1> SUFFICES ASSUME d.grids = <<>>
             PROVE  Len(PreviewOf(d, f, PreviewLimit)) = Min({PreviewLimit, MatchingCount(d, f)})
  BY DEF PreviewAgrees
<1>1. PICK limit \in Nat : limit = PreviewLimit
  BY DatasetQueriesAssumption
<1>2. PICK n \in Nat : DOMAIN d.tables = 1..n
  BY DEF Charted
<1>3. PICK c, seqs, r, none :
        /\ c = TablesMatching(d, f)
        /\ seqs = [i \in DOMAIN d.tables |-> TablePreview(d.tables[i], f, limit)]
        /\ r = Cardinality(RecordsMatching(d.records, f))
        /\ none = [i \in DOMAIN d.grids |-> GridPreview(d.grids[i].ds, d.grids[i].variables, f, limit)]
  OBVIOUS
<1>4. r \in Nat /\ IsList(RecordPreview(d.records, f, limit), Lesser(limit, r))
  BY <1>3, RecordPreviewIs
<1>5. IsList(seqs, n)
  BY <1>2, <1>3 DEF IsList
<1>6. Limited(seqs, c, n, limit)
  <2>1. ASSUME NEW i \in 1..n PROVE c[i] \in Nat /\ IsList(seqs[i], Lesser(limit, c[i]))
    <3>1. IsTable(d.tables[i])
      BY <1>2 DEF Charted
    <3>2. /\ TableMatching(d.tables[i], f) \in Nat
          /\ IsList(TablePreview(d.tables[i], f, limit), Lesser(limit, TableMatching(d.tables[i], f)))
      BY <3>1, TablePreviewIs
    <3> QED
      BY <1>2, <1>3, <3>2 DEF TablesMatching
  <2> QED
    BY <2>1 DEF Limited
<1>7. PICK m \in Nat : IsList(FlattenSeq(seqs), m) /\ Lesser(limit, m) = Lesser(limit, SumFunctionOnSet(c, 1..n))
  BY <1>5, <1>6, FlattenRows DEF RowsUpTo
<1>8. FlattenSeq(none) = <<>>
  <2>1. none = <<>> /\ Len(none) = 0
    BY <1>3
  <2> QED
    BY <2>1 DEF FlattenSeq
<1>9. PICK all, l : /\ all = RecordPreview(d.records, f, limit) \o FlattenSeq(seqs) \o <<>>
                    /\ l = Lesser(limit, r) + m /\ IsList(all, l)
  <2>1. PICK s, t, k : /\ s = RecordPreview(d.records, f, limit) /\ t = s \o FlattenSeq(seqs)
                       /\ k = Lesser(limit, r) + m
    OBVIOUS
  <2>2. IsList(t, k)
    <3>1. IsJoined(s \o FlattenSeq(seqs), s, Lesser(limit, r), FlattenSeq(seqs), m)
      BY <1>4, <1>7, <2>1, ConcatIs
    <3> QED
      BY <2>1, <3>1 DEF IsJoined
  <2>3. IsList(t \o <<>>, k + 0)
    <3>1. IsJoined(t \o <<>>, t, k, <<>>, 0)
      BY <2>2, NoList, ConcatIs
    <3> QED
      BY <3>1 DEF IsJoined
  <2>4. k + 0 = k
    BY <1>4, <2>1 DEF Lesser
  <2>5. IsList(t \o <<>>, k)
    BY <2>3, <2>4
  <2> QED
    BY <2>1, <2>5
<1>10. PreviewOf(d, f, PreviewLimit) = FirstRows(all, limit)
  BY <1>1, <1>3, <1>8, <1>9 DEF PreviewOf
<1>11. PICK a \in Nat : a = SumFunctionOnSet(c, 1..n)
  <2>1. \A i \in 1..n : c[i] \in Nat
    BY <1>6 DEF Limited
  <2>2. IsFiniteSet(1..n)
    BY FS_Interval
  <2> QED
    BY <2>1, <2>2, SumNat
<1>12. MatchingCount(d, f) = r + a
  <2>1. DOMAIN d.grids = {}
    OBVIOUS
  <2>2. SumFunctionOnSet(GridsMatching(d, f), DOMAIN d.grids) = 0
    BY <2>1, SumEmpty
  <2>3. MatchingCount(d, f) = Cardinality(RecordsMatching(d.records, f))
                                + SumFunctionOnSet(TablesMatching(d, f), DOMAIN d.tables)
                                + SumFunctionOnSet(GridsMatching(d, f), DOMAIN d.grids)
    BY CountsAre
  <2> QED
    BY <1>2, <1>3, <1>4, <1>11, <2>2, <2>3
<1>13. Len(FirstRows(all, limit)) = Lesser(limit, l)
  <2>1. IsList(FirstRows(all, limit), Lesser(limit, l))
    BY <1>9, FirstRowsIs
  <2> QED
    BY <2>1 DEF IsList
<1>14. Min({PreviewLimit, MatchingCount(d, f)}) = Lesser(limit, r + a)
  <2>1. r + a \in Nat
    BY <1>4
  <2> QED
    BY <1>1, <1>12, <2>1, LesserIs
<1>15. Lesser(limit, l) = Lesser(limit, r + a)
  BY <1>4, <1>7, <1>9, <1>11 DEF Lesser
<1> QED
  BY <1>10, <1>13, <1>14, <1>15

-----------------------------------------------------------------------------
(* The charts of every content                                             *)

\* A row's time is a day, and its value a number.
LEMMA NumbersOfRecord ==
    ASSUME NEW r \in PossibleRows
    PROVE  r.time \in OrNone(Int) /\ r.value \in Int
<1>1. CASE r \in Seeded
  BY <1>1, DatasetQueriesAssumption
<1>2. ASSUME NEW f \in Tabular, NEW id \in Actors \cup {None}, r \in RowsOf[f][id]
      PROVE  r.time \in OrNone(Int) /\ r.value \in Int
  <2>1. PICK t : t = Parsed[f].table /\ RowsOf[f][id] = WriteDatasetRecords(t, f, id)
    BY DEF RowsOf
  <2>2. IsTable(t)
    BY <2>1, DatasetQueriesAssumption DEF Tabular, WellFormed
  <2>3. PICK i \in DOMAIN t.rows, v \in RecordVariables(t) \cap t.numeric :
          t.rows[i][v] # None /\ r = RecordOf(t, f, i, v, id)
    <3>1. r \in WriteDatasetRecords(t, f, id)
      BY <1>2, <2>1
    <3> QED
      BY <3>1 DEF WriteDatasetRecords
  <2>4. PICK row : row = t.rows[i]
    OBVIOUS
  <2>5. r.value = row[v] /\ r.time = ResolveRowTime(t, row)
    BY <2>3, <2>4 DEF RecordOf
  <2>6. row[v] \in Int
    BY <2>2, <2>3, <2>4 DEF IsTable, OrNone
  <2>7. ResolveRowTime(t, row) \in OrNone(Int)
    <3>1. CASE t.named["time"] = None \/ t.named["time"] \in t.numeric
      BY <3>1 DEF ResolveRowTime, OrNone
    <3>2. CASE t.named["time"] # None /\ t.named["time"] \notin t.numeric
      <4>1. PICK x : x = row[t.named["time"]]
        OBVIOUS
      <4>2. ResolveCoordCol(t, "time") = t.named["time"]
        BY <3>2 DEF ResolveCoordCol
      <4>3. x \in OrNone(Int)
        BY <2>2, <2>4, <3>2, <4>1, <4>2 DEF IsTable
      <4>4. CASE x = None
        BY <3>2, <4>1, <4>4 DEF ResolveRowTime, Day, OrNone
      <4>5. CASE x \in Int
        BY <3>2, <4>1, <4>5, DayIs DEF ResolveRowTime, OrNone
      <4> QED
        BY <4>3, <4>4, <4>5 DEF OrNone
    <3> QED
      BY <3>1, <3>2
  <2> QED
    BY <2>5, <2>6, <2>7
<1> QED
  BY <1>1, <1>2 DEF PossibleRows

\* A content as the charts need it, and the files that it is of.
Shown(d, extents) ==
    /\ Charted(d)
    /\ Numbered(d)
    /\ \A r \in d.records : r.time \in OrNone(Int)
    /\ \A n \in Nat : DOMAIN d.grids = 1..n => Len(d.grids) = n
    /\ \E F, parsed : FilesOf(d, F, parsed, extents)

\* What the readers are shown of a dataset whose times are set.
LEMMA ContentShown ==
    ASSUME TypesInv, NEW d, d = Content, NEW extents, extents = Extents, Dated(d)
    PROVE  Shown(d, extents)
<1>1. PICK ts, gs, T, G, F :
        /\ ts = Listed("table") /\ gs = Listed("grid") /\ F = ingested
        /\ T = {f \in F : Parsed[f].kind = "table"} /\ G = {f \in F : Parsed[f].kind = "grid"}
  OBVIOUS
<1>2. /\ IsFiniteSet(F) /\ IsFiniteSet(records) /\ records \subseteq PossibleRows
      /\ \A f \in F : Parsed[f] # None /\ WellFormed(f)
  BY <1>1, DatasetQueriesAssumption DEF TypesInv, ContentOK
<1>3. IsFiniteSet(T) /\ IsFiniteSet(G)
  BY <1>1, <1>2, FS_Subset
<1>4. ts = SetToSeq(T) /\ gs = SetToSeq(G)
  BY <1>1 DEF Listed
<1>5. GoodContent(d) /\ d.records = records
  BY ContentIs
<1>6. d.tables = [i \in DOMAIN ts |-> Parsed[ts[i]].table]
  BY <1>1 DEF Content
<1>7. d.grids = [i \in DOMAIN gs |-> [ds |-> Parsed[gs[i]].ds, variables |-> Parsed[gs[i]].variables]]
  BY <1>1 DEF Content
<1>8. PICK n, k \in Nat : DOMAIN ts = 1..n /\ DOMAIN gs = 1..k
  BY <1>3, <1>4, SetToSeqIs, FS_CardinalityType
<1>9. (\A i \in 1..n : ts[i] \in T) /\ (\A i \in 1..k : gs[i] \in G)
  <2>1. ASSUME NEW S, IsFiniteSet(S), NEW s, s = SetToSeq(S), NEW i \in DOMAIN s
        PROVE  s[i] \in S
    <3>1. s \in Bijection(1..Cardinality(S), S) /\ DOMAIN s = 1..Cardinality(S)
      BY <2>1, SetToSeqIs
    <3> QED
      BY <3>1 DEF Bijection, Injection
  <2> QED
    BY <1>3, <1>4, <1>8, <2>1
<1>10. DOMAIN d.tables = 1..n /\ DOMAIN d.grids = 1..k
  BY <1>6, <1>7, <1>8
<1>11. \A i \in 1..n : ts[i] \in F /\ Parsed[ts[i]].kind = "table" /\ d.tables[i] = Parsed[ts[i]].table
  BY <1>1, <1>6, <1>8, <1>9
<1>12. \A i \in 1..k : gs[i] \in F /\ Parsed[gs[i]].kind = "grid" /\ d.grids[i].ds = Parsed[gs[i]].ds
  BY <1>1, <1>7, <1>8, <1>9
<1>13. Charted(d)
  BY <1>5, <1>10 DEF Charted, GoodContent
<1>14. Numbered(d) /\ \A r \in d.records : r.time \in OrNone(Int)
  <2>1. \A r \in d.records : r.value \in Int /\ r.time \in OrNone(Int)
    BY <1>2, <1>5, NumbersOfRecord
  <2>2. \A i \in DOMAIN d.grids : HasNumbers(d.grids[i].ds)
    BY <1>2, <1>10, <1>12 DEF WellFormed
  <2> QED
    BY <1>2, <1>5, <2>1, <2>2 DEF Numbered
<1>15. ASSUME NEW m \in Nat, DOMAIN d.grids = 1..m PROVE Len(d.grids) = m
  <2>1. PICK grids, S : grids = d.grids /\ S = {grids[i] : i \in 1..m}
    OBVIOUS
  <2>2. grids \in Seq(S)
    <3>1. grids = [i \in 1..m |-> grids[i]]
      BY <1>7, <1>15, <2>1
    <3>2. grids \in [1..m -> S]
      BY <2>1, <3>1
    <3> QED
      BY <3>2
  <2>3. Len(grids) = m
    BY <1>15, <2>1, <2>2
  <2> QED
    BY <2>1, <2>3
<1>16. FilesOf(d, F, Parsed, extents)
  <2>1. \A f \in F : FormedAs(Parsed[f])
    BY <1>2 DEF WellFormed, FormedAs
  <2>2. extents = {FileExtent(Parsed[f]) : f \in F}
    BY <1>1 DEF Extents
  <2>3. \A i \in DOMAIN d.tables : \E f \in F : Parsed[f].kind = "table" /\ d.tables[i] = Parsed[f].table
    BY <1>10, <1>11
  <2>4. \A i \in DOMAIN d.grids : \E f \in F : Parsed[f].kind = "grid" /\ d.grids[i].ds = Parsed[f].ds
    BY <1>10, <1>12
  <2> QED
    BY <1>2, <2>1, <2>2, <2>3, <2>4 DEF FilesOf
<1> QED
  BY <1>13, <1>14, <1>15, <1>16 DEF Shown

\* The charts of one parameter.
LEMMA ParameterCharts ==
    ASSUME NEW d, NEW extents, Shown(d, extents), NEW p, NEW f \in Filter
    PROVE  ParameterChartsAgree(d, extents, p, f)
<1>1. /\ Charted(d) /\ Numbered(d) /\ Dated(d) /\ IsFiniteSet(d.records)
      /\ \A i \in DOMAIN d.tables : IsTable(d.tables[i])
      /\ \A i \in DOMAIN d.grids : HasNumbers(d.grids[i].ds)
  BY DEF Shown, Charted, Numbered
<1>2. JobAgrees(d, p, f)
  BY JobAgreesHolds
<1>3. PointsAgree(d, FilePoints(d, p, f, MaxPoints), p, f)
  BY <1>1, PointsAgreeHolds
<1>4. PlacesAgree(d, SeriesByPlace(d, p, f, MaxPoints), FilePoints(d, p, f, MaxPoints), p, f)
  BY <1>1, PlacesAgreeHolds
<1>5. BoxesAgree(d, BoxPlot(d, p, f), p, f)
  BY <1>1, BoxesAgreeHolds, RawOfTablesFinite, RawOfGridsFinite
<1>6. ProfilesAgree(d, Profiles(d, p, f), f)
  BY <1>1, ProfilesAgreeHolds
<1>7. PICK daily : daily = Timeseries(d, p, f, "daily")
  OBVIOUS
<1>8. StatisticsAgree(d, p, f, daily)
  BY <1>1, <1>7, StatisticsAgreeHolds DEF Shown
<1>9. BucketsAgree(d, p, f, daily)
  BY <1>1, <1>7, BucketsAgreeHolds
<1>10. ExtentCovers(d, extents, daily)
  <2>1. PICK F, parsed : FilesOf(d, F, parsed, extents)
    BY DEF Shown
  <2>2. \A r \in d.records : r.time \in OrNone(Int)
    BY DEF Shown
  <2> QED
    BY <1>1, <1>7, <2>1, <2>2, ExtentCoversHolds
<1> QED
  BY <1>2, <1>3, <1>4, <1>5, <1>6, <1>7, <1>8, <1>9, <1>10 DEF ParameterChartsAgree

\* In every state, charts agree with each other, with their filters and with the
\* counts: all that this needs of the state is that its rows and files are well-formed
\* and that the registry has their ranges.
LEMMA ContentAgreesHolds ==
    ASSUME TypesInv, RangesInv
    PROVE  ContentAgrees(Content, Extents)
<1>1. PICK d, extents : d = Content /\ extents = Extents
  OBVIOUS
<1>2. SUFFICES ASSUME Dated(d) PROVE ContentAgrees(d, extents)
  BY <1>1 DEF ContentAgrees
<1>3. Shown(d, extents)
  BY <1>1, <1>2, ContentShown
<1>4. CountsAgree(d, extents)
  BY <1>1, CountsOfContent
<1>5. ASSUME NEW f \in Filters
      PROVE  PairsAgree(d, f) /\ PreviewAgrees(d, f) /\ ComparisonAgrees(d, f)
  <2>1. Charted(d) /\ IsFiniteSet(d.records)
    BY <1>3 DEF Shown, Numbered
  <2> QED
    BY <2>1, PairsAgreeHolds, PreviewAgreesHolds, ComparisonAgreesHolds
<1>6. ASSUME NEW f \in Filters, NEW p \in Parameters
      PROVE  ParameterChartsAgree(d, extents, p, f)
  BY <1>3, ParameterCharts, DatasetQueriesAssumption
<1> QED
  BY <1>4, <1>5, <1>6 DEF ContentAgrees

\* The charts of a dataset, in every quiet state of every dataset: a chart shows no
\* point, day, depth or place outside of its filter, the statistics are those of the
\* daily series, the coarser series and the comparison have its days, the boxes hold
\* each value once, and the previews and the counts have what the queries match.
THEOREM ChartsAgreeHold == Spec => []ChartsAgree
<1>1. TypesInv /\ RangesInv => ChartsAgree
  BY ContentAgreesHolds DEF ChartsAgree
<1> QED
  BY <1>1, RangesCorrect, PTL
=============================================================================
