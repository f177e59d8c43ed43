---------------------------- MODULE SearchRunsProofs ----------------------------
(***************************************************************************)
(* What holds of SearchRuns for every number of runs, sources, finalizers, *)
(* attempts and faults.  First what a sum over a finite set is, then the   *)
(* inductive invariant, one lemma for each of its parts, then the theorems.*)
(***************************************************************************)
EXTENDS SearchRuns, FiniteSetTheorems, WellFoundedInduction, TLAPS

--------------------------------------------------------------------------------
(* SumFunction is a fold, a function defined by recursion over the subsets *)
(* of its domain.  The library's induction theorems take an operator as a  *)
(* parameter; the minimal element of a well-founded set does not, and the  *)
(* induction below is for a set of numbers.                                *)

(* Lemma: a nonempty set of numbers has a least one.                       *)
LEMMA LeastNumber ==
  ASSUME NEW T \in SUBSET Nat, NEW n \in T
  PROVE  \E k \in T : \A m \in T : k <= m
<1> DEFINE R == OpToRel(<, Nat)
<1>1. IsWellFoundedOn(R, Nat)
  BY NatLessThanWellFounded
<1>2. \A x, y \in Nat : x < y => <<x, y>> \in R
  BY DEF OpToRel
<1> HIDE DEF R
<1>3. PICK k \in T : \A m \in T : <<m, k>> \notin R
  BY <1>1, WFMin
<1>4. \A m \in T : ~(m < k)
  BY <1>2, <1>3
<1> QED BY <1>4

(* Lemma: induction over the numbers, for a set of them.                   *)
LEMMA NumberInduction ==
  ASSUME NEW G, 0 \in G, \A n \in Nat : n \in G => n + 1 \in G
  PROVE  Nat \subseteq G
<1> SUFFICES ASSUME NEW n \in Nat \ G PROVE FALSE
  OBVIOUS
<1>1. PICK k \in Nat \ G : \A m \in Nat \ G : k <= m
  BY LeastNumber
<1>2. k - 1 \in Nat /\ k - 1 \in G
  BY <1>1
<1>3. QED
  BY <1>1, <1>2

(* g[s] is the sum of f over s, for the sets s of D.                       *)
Pick(s) == CHOOSE x \in s : TRUE
Sums(f, g, D) == g = [s \in D |-> IF s = {} THEN 0 ELSE f[Pick(s)] + g[s \ {Pick(s)}]]
UpTo(S, n) == {s \in SUBSET S : Cardinality(s) <= n}

(* Lemma: SumFunction is defined by that recursion.                        *)
LEMMA SumByRecursion ==
  ASSUME NEW f
  PROVE  SumFunction(f) = (CHOOSE g : Sums(f, g, SUBSET DOMAIN f))[DOMAIN f]
  BY DEF SumFunction, SumFunctionOnSet, FoldFunctionOnSet, MapThenFoldSet, Sums, Pick

(* Lemma: and the recursion has a solution, built up over the cardinality. *)
LEMMA SumExists ==
  ASSUME NEW S, IsFiniteSet(S), NEW f
  PROVE  \E g : Sums(f, g, SUBSET S)
<1> DEFINE G == {n \in Nat : \E g : Sums(f, g, UpTo(S, n))}
<1>1. 0 \in G
  <2>1. \A s \in UpTo(S, 0) : s = {}
    BY FS_Subset, FS_CardinalityType, FS_EmptySet DEF UpTo
  <2>2. Sums(f, [s \in UpTo(S, 0) |-> 0], UpTo(S, 0))
    BY <2>1 DEF Sums
  <2>3. QED
    BY <2>2
<1>2. ASSUME NEW n \in G PROVE n + 1 \in G
  <2>1. PICK g : Sums(f, g, UpTo(S, n))
    OBVIOUS
  <2> DEFINE h == [s \in UpTo(S, n + 1) |-> IF s = {} THEN 0 ELSE f[Pick(s)] + g[s \ {Pick(s)}]]
  <2>2. ASSUME NEW s \in UpTo(S, n + 1), s # {}
        PROVE  s \ {Pick(s)} \in UpTo(S, n) /\ s \ {Pick(s)} \in UpTo(S, n + 1)
    <3>1. IsFiniteSet(s) /\ Pick(s) \in s
      BY <2>2, FS_Subset DEF UpTo, Pick
    <3>2. Cardinality(s \ {Pick(s)}) = Cardinality(s) - 1 /\ Cardinality(s) \in Nat
      BY <3>1, FS_RemoveElement, FS_CardinalityType
    <3>3. QED
      BY <3>2 DEF UpTo
  <2>3. ASSUME NEW s \in UpTo(S, n) PROVE s \in UpTo(S, n + 1) /\ g[s] = h[s]
    <3>1. Cardinality(s) \in Nat
      BY FS_Subset, FS_CardinalityType DEF UpTo
    <3>2. s \in UpTo(S, n + 1)
      BY <3>1 DEF UpTo
    <3>3. g[s] = IF s = {} THEN 0 ELSE f[Pick(s)] + g[s \ {Pick(s)}]
      BY <2>1 DEF Sums
    <3>4. QED
      BY <3>2, <3>3
  <2>4. h = [s \in UpTo(S, n + 1) |-> IF s = {} THEN 0 ELSE f[Pick(s)] + h[s \ {Pick(s)}]]
    <3>1. ASSUME NEW s \in UpTo(S, n + 1), s # {} PROVE g[s \ {Pick(s)}] = h[s \ {Pick(s)}]
      BY <2>2, <2>3, <3>1
    <3> HIDE DEF h
    <3>2. h = [s \in UpTo(S, n + 1) |-> IF s = {} THEN 0 ELSE f[Pick(s)] + g[s \ {Pick(s)}]]
      BY DEF h
    <3>3. QED
      BY <3>1, <3>2
  <2>5. Sums(f, h, UpTo(S, n + 1))
    BY <2>4 DEF Sums
  <2> HIDE DEF h
  <2>6. QED
    BY <2>5
<1>3. Cardinality(S) \in G
  <2> HIDE DEF G
  <2>1. Nat \subseteq G
    BY <1>1, <1>2, NumberInduction
  <2>2. QED
    BY <2>1, FS_CardinalityType
<1>4. UpTo(S, Cardinality(S)) = SUBSET S
  BY FS_Subset DEF UpTo
<1>5. QED
  BY <1>3, <1>4

(* Lemma: a sum of numbers up to M, one for each element of a finite set.  *)
LEMMA SumBounded ==
  ASSUME NEW S, IsFiniteSet(S), NEW M \in Nat, NEW f \in [S -> 0..M]
  PROVE  SumFunction(f) \in 0..(M * Cardinality(S))
<1> DEFINE g == CHOOSE h : Sums(f, h, SUBSET S)
           G == {n \in Nat : \A s \in UpTo(S, n) : g[s] \in 0..(M * Cardinality(s))}
<1>1. Sums(f, g, SUBSET S) /\ SumFunction(f) = g[S]
  BY SumExists, SumByRecursion
<1> HIDE DEF g
<1>2. 0 \in G
  <2>1. \A s \in UpTo(S, 0) : s = {} /\ Cardinality(s) = 0
    BY FS_Subset, FS_CardinalityType, FS_EmptySet DEF UpTo
  <2>2. \A s \in UpTo(S, 0) : g[s] = 0
    BY <1>1, <2>1 DEF Sums, UpTo
  <2>3. QED
    BY <2>1, <2>2
<1>3. ASSUME NEW n \in G PROVE n + 1 \in G
  <2> SUFFICES ASSUME NEW s \in UpTo(S, n + 1) PROVE g[s] \in 0..(M * Cardinality(s))
    OBVIOUS
  <2>1. CASE s = {}
    BY <1>1, <2>1, FS_EmptySet DEF Sums
  <2>2. CASE s # {}
    <3> DEFINE t == s \ {Pick(s)}
    <3>1. s \in SUBSET S /\ IsFiniteSet(s) /\ Pick(s) \in s /\ Cardinality(s) <= n + 1
      BY <2>2, FS_Subset DEF UpTo, Pick
    <3>2. Cardinality(t) = Cardinality(s) - 1 /\ Cardinality(s) \in Nat /\ Cardinality(t) \in Nat
      BY <3>1, FS_RemoveElement, FS_CardinalityType
    <3>3. g[t] \in 0..(M * Cardinality(t))
      BY <3>1, <3>2 DEF UpTo
    <3>4. g[s] = f[Pick(s)] + g[t] /\ f[Pick(s)] \in 0..M
      BY <1>1, <2>2, <3>1 DEF Sums
    <3>5. M * Cardinality(s) = M * Cardinality(t) + M /\ M * Cardinality(t) \in Nat
      BY <3>2
    <3> HIDE DEF t
    <3>6. QED
      BY <3>3, <3>4, <3>5
  <2>3. QED
    BY <2>1, <2>2
<1>4. Cardinality(S) \in G
  <2> HIDE DEF G
  <2>1. Nat \subseteq G
    BY <1>2, <1>3, NumberInduction
  <2>2. QED
    BY <2>1, FS_CardinalityType
<1>5. QED
  BY <1>1, <1>4, FS_CardinalityType DEF UpTo

--------------------------------------------------------------------------------
(* The inductive invariant.                                                *)

(* The statuses a finalizer derives.                                       *)
EndStatus == {"completed", "partial", "failed"}

(* A job of run r has been started, so all its children were created.      *)
Began(r) ==
  \/ finalizeQ[r] > 0
  \/ \E s \in Source : ingest[r][s].step # "none"
  \/ \E f \in Finalizers : fin[f].run = r
  \/ start.run = r /\ start.step \in {"fanOut", "done"}

Pending(r, s) == ingest[r][s].step \in {"waiting", "active", "reporting", "lost"}

JobsOK ==
  /\ start.step = "waiting" => start.run = NoRun /\ start.skip = {} /\ start.ready = {}
  /\ start.step \in {"creating", "fanOut", "done"} => start.run \in RunId
  /\ sweep.step = "next" => sweep.todo \subseteq stale
  /\ sweep.step \in {"fail", "finalize", "write"} => sweep.run \in stale /\ sweep.todo \subseteq stale
  /\ sweep.step = "write" => sweep.row.status \in EndStatus
  /\ \A f \in Finalizers : fin[f] # NoResult => fin[f].run \in RunId /\ fin[f].row.status \in EndStatus

FreshOK ==
  \A r \in RunId : parent[r] = Absent =>
    Children(r) = {} /\ ~Began(r) /\ start.run # r /\ r \notin stale

CreatingOK ==
  start.step = "creating" =>
    /\ ~Began(start.run)
    /\ start.todo \subseteq Registered /\ Children(start.run) = Registered \ start.todo
    /\ start.skip \subseteq Children(start.run) /\ start.ready \subseteq Children(start.run)
    /\ \A s, t \in start.skip : s = t

FanOutOK == start.step = "fanOut" => start.ready \subseteq Registered

CreatedOK ==
  \A r \in RunId :
    /\ Began(r) => Children(r) = Registered
    /\ \A s \in Source : ingest[r][s].step # "none" => s \in Registered

Complete(r) == Children(r) = Registered /\ WithStatus(r, "running") = {}

InTimeOK ==
  \A r \in RunId \ stale :
    /\ Ended(r) => Complete(r) /\ (r \notin rewritten => parent[r] = Derive(r))
    /\ \A f \in Finalizers : fin[f].run = r =>
         Complete(r) /\ (r \notin rewritten => fin[f].row = Derive(r))

(* A running child waits for the job of its source, which is still to be   *)
(* started or has not finished it.                                         *)
RunningOK ==
  \A r \in RunId, s \in Source :
    /\ ingest[r][s].step \in {"reporting", "done"} => child[r][s].status # "running"
    /\ start.run = r /\ start.step # "lost" /\ child[r][s].status = "running" =>
         \/ Pending(r, s)
         \/ start.step \in {"creating", "fanOut"} /\ s \in start.ready
         \/ start.step = "creating" /\ s \in start.skip

DueOK ==
  start.step = "done" /\ start.run \notin dropped =>
    LET r == start.run IN
      Ended(r) \/ finalizeQ[r] > 0 \/ (\E f \in Finalizers : fin[f].run = r)
        \/ \E s \in Source : Pending(r, s)

--------------------------------------------------------------------------------
(* Types.                                                                  *)

(* Lemma: a typed row that is there has a status of its own.               *)
LEMMA RowStatus ==
  ASSUME TypeOK, NEW r \in RunId
  PROVE  /\ parent[r] \in ParentRow
         /\ parent[r] # Absent => parent[r].status \in ParentStatus
         /\ Ended(r) => parent[r].status \in EndStatus
         /\ \A s \in Source : child[r][s] \in ChildRow /\ child[r][s].found \in 0..MaxFound
  BY BoundAssumption
     DEF TypeOK, ParentRow, ChildRow, Absent, ParentStatus, ChildStatus, EndStatus, Ended

(* Lemma: what a finalizer derives is a row of an ended run.               *)
LEMMA DeriveType ==
  ASSUME TypeOK, NEW r \in RunId
  PROVE  Derive(r) \in ParentRow /\ Derive(r).status \in EndStatus
<1> DEFINE found == [s \in Children(r) |-> child[r][s].found]
<1>1. IsFiniteSet(Children(r)) /\ Cardinality(Children(r)) <= Cardinality(Source)
  BY SourceAssumption, FS_Subset DEF Children
<1>2. found \in [Children(r) -> 0..MaxFound]
  BY RowStatus DEF Children
<1>3. SumFunction(found) \in 0..(MaxFound * Cardinality(Children(r)))
  BY <1>1, <1>2, SumBounded, BoundAssumption
<1>4. MaxFound * Cardinality(Children(r)) <= MaxFound * Cardinality(Source)
  <2>1. ASSUME NEW i \in Nat, NEW j \in Nat, i <= j, NEW k \in Nat PROVE k * i <= k * j
    BY <2>1
  <2>2. QED
    BY <1>1, <2>1, FS_CardinalityType, SourceAssumption, BoundAssumption
<1>5. FoundIn(r) \in Found
  <2>1. MaxFound * Cardinality(Children(r)) \in Nat /\ MaxFound * Cardinality(Source) \in Nat
    BY <1>1, FS_CardinalityType, SourceAssumption, BoundAssumption
  <2>2. QED
    BY <1>3, <1>4, <2>1 DEF FoundIn, Found
<1>6. StatusOf(r) \in EndStatus
  BY DEF StatusOf, EndStatus
<1>7. QED
  BY <1>5, <1>6 DEF Derive, ParentRow, ParentStatus, EndStatus

(* Lemma: what the end of the worker process leaves of its jobs.           *)
LEMMA CrashEffect ==
  ASSUME TypeOK, Crash
  PROVE  /\ ingest' \in [RunId -> [Source -> [step : IngestSteps, attempt : 0..IngestAttempts]]]
         /\ \A r \in RunId, s \in Source :
              \/ ingest'[r][s] = ingest[r][s]
              \/ IngestActive(r, s) /\ ingest'[r][s].step \in {"waiting", "lost"}
         /\ finalizeQ' \in [RunId -> Nat]
         /\ \A r \in RunId : finalizeQ'[r] > 0 =>
              finalizeQ[r] > 0 \/ \E f \in Finalizers : fin[f].run = r
         /\ \A r \in RunId : finalizeQ[r] > 0 => finalizeQ'[r] > 0
         /\ \A r \in RunId, f \in Finalizers : fin[f].run = r => finalizeQ'[r] > 0 \/ r \in dropped'
         /\ dropped \subseteq dropped'
         /\ \A r \in dropped' : r \in dropped \/ \E f \in Finalizers : fin[f] # NoResult /\ fin[f].run = r
         /\ fin' = [f \in Finalizers |-> NoResult] /\ sweep' = NoSweep
         /\ start' = start \/ start' = NewStart(start.attempt)
              \/ start' = [start EXCEPT !.step = "lost"]
         /\ faults' = faults + 1 /\ faults < MaxFaults
         /\ UNCHANGED <<tables, stale, rewritten>>
<1>1. PICK again \in SUBSET {run \in RunId \X Source : IngestActive(run[1], run[2])} :
        ingest' = [r \in RunId |-> [s \in Source |->
          CASE ~IngestActive(r, s) -> ingest[r][s]
            [] <<r, s>> \in again -> [ingest[r][s] EXCEPT !.step = "waiting"]
            [] OTHER -> [ingest[r][s] EXCEPT !.step = "lost"]]]
  BY DEF Crash
<1>2. ASSUME NEW r \in RunId, NEW s \in Source
      PROVE  /\ ingest'[r][s] \in [step : IngestSteps, attempt : 0..IngestAttempts]
             /\ \/ ingest'[r][s] = ingest[r][s]
                \/ IngestActive(r, s) /\ ingest'[r][s].step \in {"waiting", "lost"}
  <2>1. ingest[r][s] \in [step : IngestSteps, attempt : 0..IngestAttempts]
    BY DEF TypeOK
  <2>2. \A step \in {"waiting", "lost"} :
          /\ [ingest[r][s] EXCEPT !.step = step] \in [step : IngestSteps, attempt : 0..IngestAttempts]
          /\ [ingest[r][s] EXCEPT !.step = step].step = step
    BY <2>1 DEF IngestSteps
  <2>3. \/ ~IngestActive(r, s) /\ ingest'[r][s] = ingest[r][s]
        \/ IngestActive(r, s) /\ \E step \in {"waiting", "lost"} :
             ingest'[r][s] = [ingest[r][s] EXCEPT !.step = step]
    BY <1>1
  <2>4. QED
    BY <2>1, <2>2, <2>3
<1>3. ingest' \in [RunId -> [Source -> [step : IngestSteps, attempt : 0..IngestAttempts]]]
  BY <1>1, <1>2
<1>4. PICK finalizers \in SUBSET {f \in Finalizers : fin[f] # NoResult} :
        /\ finalizeQ' = [r \in RunId |-> finalizeQ[r] + Quantify(finalizers, LAMBDA f : fin[f].run = r)]
        /\ dropped' = dropped \cup {fin[f].run : f \in {g \in Finalizers : fin[g] # NoResult} \ finalizers}
  BY DEF Crash
<1>5. ASSUME NEW r \in RunId
      PROVE  /\ finalizeQ'[r] \in Nat
             /\ finalizeQ'[r] > 0 => finalizeQ[r] > 0 \/ \E f \in Finalizers : fin[f].run = r
             /\ finalizeQ[r] > 0 => finalizeQ'[r] > 0
             /\ \A f \in finalizers : fin[f].run = r => finalizeQ'[r] > 0
  <2> DEFINE waiting == {f \in finalizers : fin[f].run = r}
  <2>1. finalizeQ'[r] = finalizeQ[r] + Cardinality(waiting)
    BY <1>4 DEF Quantify
  <2>2. waiting \subseteq Finalizers
    BY <1>4
  <2>3. Cardinality(waiting) \in Nat
    BY <2>2, FinalizersAssumption, FS_Subset, FS_CardinalityType
  <2>4. waiting = {} => Cardinality(waiting) = 0
    BY FS_EmptySet
  <2>5. finalizeQ[r] \in Nat
    BY DEF TypeOK
  <2>6. waiting # {} => \E f \in Finalizers : fin[f].run = r
    BY <1>4
  <2>7. ASSUME NEW f \in finalizers, fin[f].run = r PROVE waiting # {}
    BY <2>7
  <2>8. waiting # {} => Cardinality(waiting) # 0
    BY <2>2, FinalizersAssumption, FS_Subset, FS_EmptySet
  <2> HIDE DEF waiting
  <2>9. QED
    BY <2>1, <2>3, <2>4, <2>5, <2>6, <2>7, <2>8
<1>6. finalizeQ' \in [RunId -> Nat]
  BY <1>4, <1>5
<1>7. \A r \in RunId, f \in Finalizers : fin[f].run = r => finalizeQ'[r] > 0 \/ r \in dropped'
  <2>1. ASSUME NEW r \in RunId, NEW f \in Finalizers, fin[f].run = r, f \notin finalizers
        PROVE  r \in dropped'
    <3>1. fin[f] # NoResult
      BY <2>1, RunAssumption DEF NoResult
    <3>2. QED
      BY <1>4, <2>1, <3>1
  <2>2. QED
    BY <1>5, <2>1
<1>8. /\ dropped \subseteq dropped'
      /\ \A r \in dropped' : r \in dropped \/ \E f \in Finalizers : fin[f] # NoResult /\ fin[f].run = r
  BY <1>4
<1>9. QED
  BY <1>2, <1>3, <1>5, <1>6, <1>7, <1>8 DEF Crash

StartRecord == [step : StartSteps, run : RunId \cup {NoRun}, todo : SUBSET Source,
                skip : SUBSET Source, ready : SUBSET Source, attempt : 1..StartAttempts]
IngestRecord == [step : IngestSteps, attempt : 0..IngestAttempts]

(* Lemma: an update of the search.run job keeps its type.                  *)
LEMMA StartTypes ==
  ASSUME TypeOK
  PROVE  /\ start \in StartRecord
         /\ \A step \in StartSteps : [start EXCEPT !.step = step] \in StartRecord
         /\ \A skip \in SUBSET Source : [start EXCEPT !.skip = skip] \in StartRecord
         /\ \A ready \in SUBSET Source, step \in StartSteps :
              [start EXCEPT !.ready = ready, !.step = step] \in StartRecord
         /\ \A n \in 1..StartAttempts : NewStart(n) \in StartRecord
<1>1. start \in StartRecord
  BY DEF TypeOK, StartRecord
<1>2. \A n \in 1..StartAttempts : NewStart(n) \in StartRecord
  BY DEF NewStart, StartRecord, StartSteps
<1>3. QED
  BY <1>1, <1>2 DEF StartRecord

(* Lemma: an update of one ingest.source job keeps the type of them all.   *)
LEMMA IngestTypes ==
  ASSUME TypeOK, NEW r \in RunId, NEW s \in Source
  PROVE  /\ \A step \in IngestSteps : [ingest[r][s] EXCEPT !.step = step] \in IngestRecord
         /\ \A job \in IngestRecord :
              IngestTo(r, s, job) => ingest' \in [RunId -> [Source -> IngestRecord]]
<1>1. ingest \in [RunId -> [Source -> IngestRecord]]
  BY DEF TypeOK, IngestRecord
<1>2. ASSUME NEW step \in IngestSteps
      PROVE  [ingest[r][s] EXCEPT !.step = step] \in IngestRecord
  BY <1>1 DEF IngestRecord
<1>3. ASSUME NEW job \in IngestRecord, IngestTo(r, s, job)
      PROVE  ingest' \in [RunId -> [Source -> IngestRecord]]
  BY <1>1, <1>3 DEF IngestTo
<1>4. QED
  BY <1>2, <1>3

(* Lemma: TypeOK is inductive, given that the sweep is at a run.           *)
LEMMA TypeInvariant == ASSUME TypeOK, JobsOK, [Next]_vars PROVE TypeOK'
<1> USE AttemptsAssumption, BoundAssumption DEF StartSteps, IngestSteps
<1>1. ASSUME NEW r \in RunId, createRun(r) PROVE TypeOK'
  <2>1. Running \in ParentRow
    BY FS_CardinalityType, SourceAssumption DEF Running, ParentRow, ParentStatus, Found
  <2>2. QED
    BY <1>1, <2>1, SourceAssumption DEF TypeOK, createRun, history
<1>2. ASSUME NEW s \in Source, createSourceRun(s) PROVE TypeOK'
  <2>1. Running \in ChildRow
    BY DEF Running, ChildRow, ChildStatus
  <2>2. child' \in [RunId -> [Source -> ChildRow]]
    BY <1>2, <2>1 DEF TypeOK, createSourceRun
  <2>3. start' \in StartRecord
    <3>1. /\ start.todo \ {s} \in SUBSET Source /\ start.ready \cup {s} \in SUBSET Source
          /\ {s} \in SUBSET Source /\ start \in StartRecord
      BY StartTypes DEF TypeOK
    <3>2. \/ start' = [start EXCEPT !.todo = start.todo \ {s}, !.ready = start.ready \cup {s}]
          \/ start' = [start EXCEPT !.todo = start.todo \ {s}, !.skip = {s}]
      BY <1>2 DEF createSourceRun
    <3>3. QED
      BY <3>1, <3>2 DEF StartRecord
  <2>4. QED
    BY <1>2, <2>2, <2>3 DEF TypeOK, createSourceRun, StartRecord, history
<1>3. ASSUME NEW s \in Source, skipSourceRun(s) PROVE TypeOK'
  <2>1. [status |-> "skipped", found |-> 0] \in ChildRow
    BY DEF ChildRow, ChildStatus
  <2>2. child' \in [RunId -> [Source -> ChildRow]]
    BY <1>3, <2>1 DEF TypeOK, skipSourceRun
  <2>3. start.run \in RunId
    BY <1>3 DEF skipSourceRun, JobsOK
  <2>4. QED
    BY <1>3, <2>2, <2>3 DEF TypeOK, skipSourceRun
<1>4. CASE StartFanOut
  <2>1. start' \in StartRecord
    BY <1>4, StartTypes DEF StartFanOut
  <2>2. finalizeQ' \in [RunId -> Nat]
    <3>1. /\ finalizeQ \in [RunId -> Nat] /\ start.run \in RunId
          /\ finalizeQ[start.run] + 1 \in Nat
      BY <1>4 DEF TypeOK, JobsOK, StartFanOut, AllCreated
    <3>2. \/ finalizeQ' = finalizeQ
          \/ finalizeQ' = [finalizeQ EXCEPT ![start.run] = finalizeQ[start.run] + 1]
      BY <1>4 DEF StartFanOut
    <3>3. QED
      BY <3>1, <3>2
  <2>3. QED
    BY <1>4, <2>1, <2>2 DEF TypeOK, StartFanOut, StartRecord, tables, history
<1>5. ASSUME NEW s \in Source, FanOut(s) PROVE TypeOK'
  <2>1. ingest' \in [RunId -> [Source -> IngestRecord]]
    <3>1. start.run \in RunId /\ [step |-> "waiting", attempt |-> 1] \in IngestRecord
      BY <1>5 DEF FanOut, JobsOK, IngestRecord
    <3>2. IngestTo(start.run, s, [step |-> "waiting", attempt |-> 1])
      BY <1>5 DEF FanOut, IngestTo
    <3>3. QED
      BY <3>1, <3>2, IngestTypes
  <2>2. start' \in StartRecord
    <3>1. start.ready \ {s} \in SUBSET Source
      BY DEF TypeOK
    <3>2. QED
      BY <1>5, <3>1, StartTypes DEF TypeOK, FanOut
  <2>3. QED
    BY <1>5, <2>1, <2>2 DEF TypeOK, FanOut, StartRecord, IngestRecord, tables, history
<1>6. CASE StartThrows
  <2>1. start.attempt < StartAttempts => start.attempt + 1 \in 1..StartAttempts
    BY DEF TypeOK
  <2>2. start' \in StartRecord
    BY <1>6, <2>1, StartTypes DEF StartThrows, AfterThrow
  <2>3. QED
    BY <1>6, <2>2 DEF TypeOK, StartThrows, StartRecord, tables, history
<1>7. ASSUME NEW r \in RunId, NEW s \in Source,
             \/ IngestStart(r, s) \/ EnqueueFinalize(r, s) \/ IngestThrows(r, s)
      PROVE  TypeOK'
  <2>1. ingest' \in [RunId -> [Source -> IngestRecord]]
    <3>1. IngestStart(r, s) \/ EnqueueFinalize(r, s)
            => \E step \in IngestSteps : IngestTo(r, s, [ingest[r][s] EXCEPT !.step = step])
      BY DEF IngestStart, EnqueueFinalize, IngestStep
    <3>2. ingest[r][s].attempt < IngestAttempts
            => [step |-> "waiting", attempt |-> ingest[r][s].attempt + 1] \in IngestRecord
      BY DEF TypeOK, IngestRecord
    <3>3. [step |-> "lost", attempt |-> IngestAttempts] \in IngestRecord
      BY DEF IngestRecord
    <3>4. IngestThrows(r, s) => \E job \in IngestRecord : IngestTo(r, s, job)
      BY <3>2, <3>3 DEF IngestThrows
    <3>5. QED
      BY <1>7, <3>1, <3>4, IngestTypes
  <2>2. finalizeQ' \in [RunId -> Nat]
    <3>1. finalizeQ' = finalizeQ \/ finalizeQ' = [finalizeQ EXCEPT ![r] = finalizeQ[r] + 1]
      BY <1>7 DEF IngestStart, EnqueueFinalize, IngestThrows
    <3>2. finalizeQ \in [RunId -> Nat] /\ finalizeQ[r] + 1 \in Nat
      BY DEF TypeOK
    <3>3. QED
      BY <3>1, <3>2
  <2>3. QED
    BY <1>7, <2>1, <2>2 DEF TypeOK, IngestRecord, IngestStart, EnqueueFinalize, IngestThrows, tables, history
<1>8. ASSUME NEW r \in RunId, NEW s \in Source, finishSourceRun(r, s) PROVE TypeOK'
  <2>1. PICK st \in {"completed", "failed"}, n \in 0..MaxFound :
          child' = [child EXCEPT ![r][s] = [status |-> st, found |-> n]]
    BY <1>8 DEF finishSourceRun
  <2>2. [status |-> st, found |-> n] \in ChildRow
    BY DEF ChildRow, ChildStatus
  <2>3. child' \in [RunId -> [Source -> ChildRow]]
    BY <2>1, <2>2 DEF TypeOK
  <2>4. ingest' \in [RunId -> [Source -> IngestRecord]]
    BY <1>8, IngestTypes DEF finishSourceRun, IngestStep
  <2>5. QED
    BY <1>8, <2>3, <2>4 DEF TypeOK, finishSourceRun, IngestRecord
<1>9. NoResult \in [run : RunId \cup {NoRun}, row : ParentRow]
  BY DEF NoResult, ParentRow
<1>10. ASSUME NEW f \in Finalizers, NEW r \in RunId, FinalizeRead(f, r) PROVE TypeOK'
  BY <1>9, <1>10, DeriveType DEF TypeOK, FinalizeRead, tables, history
<1>11. ASSUME NEW f \in Finalizers, FinalizeWrite(f) PROVE TypeOK'
  BY <1>9, <1>11 DEF TypeOK, FinalizeWrite, history
<1>12. ASSUME NEW f \in Finalizers, FinalizeThrows(f) PROVE TypeOK'
  <2>1. fin[f].run \in RunId
    BY <1>12 DEF FinalizeThrows, JobsOK
  <2>2. dropped' \subseteq RunId
    BY <1>12, <2>1 DEF FinalizeThrows, TypeOK
  <2>3. QED
    BY <1>9, <1>12, <2>2 DEF TypeOK, FinalizeThrows, tables
<1>13. NoSweep \in [step : {"idle", "next", "fail", "finalize", "write"},
                    run : RunId \cup {NoRun}, todo : SUBSET RunId, row : ParentRow]
  BY DEF NoSweep, ParentRow
<1>14. CASE listStaleRuns
  BY <1>13, <1>14 DEF TypeOK, listStaleRuns, StaleRuns, NoSweep, tables, history
<1>15. ASSUME NEW r \in RunId, ReconcileNext(r) PROVE TypeOK'
  BY <1>13, <1>15 DEF TypeOK, ReconcileNext, NoSweep, tables, history
<1>16. CASE failRunningSourceRuns
  <2>1. ASSUME NEW s \in ToFail(sweep.run), NEW r \in RunId
        PROVE  [child[r][s] EXCEPT !.status = "failed"] \in ChildRow \/ child[r][s] = Absent
    BY <2>1, RowStatus DEF ToFail, WithStatus, Children, ChildRow, ChildStatus
  <2>2. child' \in [RunId -> [Source -> ChildRow]]
    <3>1. ASSUME NEW s \in ToFail(sweep.run), sweep.run \in RunId
          PROVE  [child[sweep.run][s] EXCEPT !.status = "failed"] \in ChildRow
      BY <2>1, <3>1 DEF ToFail, WithStatus, Absent
    <3>2. sweep.run \in RunId
      BY <1>16 DEF failRunningSourceRuns, JobsOK, TypeOK
    <3>3. \A s \in Source : (IF s \in ToFail(sweep.run)
                               THEN [child[sweep.run][s] EXCEPT !.status = "failed"]
                               ELSE child[sweep.run][s]) \in ChildRow
      BY <3>1, <3>2 DEF TypeOK
    <3>4. QED
      BY <1>16, <3>2, <3>3 DEF TypeOK, failRunningSourceRuns
  <2>3. QED
    BY <1>16, <2>2 DEF TypeOK, failRunningSourceRuns, history
<1>17. SweepOn \in [step : {"idle", "next", "fail", "finalize", "write"},
                    run : RunId \cup {NoRun}, todo : SUBSET RunId, row : ParentRow]
  BY <1>13 DEF SweepOn, TypeOK, NoSweep
<1>18. CASE ReconcileRead
  <2>1. Derive(sweep.run) \in ParentRow
    BY <1>18, DeriveType DEF ReconcileRead, JobsOK, TypeOK
  <2>2. QED
    BY <1>17, <1>18, <2>1 DEF TypeOK, ReconcileRead, tables, history
<1>19. CASE ReconcileWrite
  BY <1>17, <1>19 DEF TypeOK, ReconcileWrite, history
<1>20. ASSUME NEW r \in RunId, TimeOut(r) PROVE TypeOK'
  BY <1>20 DEF TypeOK, TimeOut, tables, jobs
<1>21. CASE Crash
  <2>1. start' \in StartRecord
    <3>1. start.attempt \in 1..StartAttempts
      BY DEF TypeOK
    <3>2. QED
      BY <1>21, <3>1, CrashEffect, StartTypes
  <2>2. dropped' \subseteq RunId
    BY <1>21, CrashEffect DEF JobsOK, TypeOK
  <2>3. finalizeQ' \in [RunId -> Nat] /\ ingest' \in [RunId -> [Source -> IngestRecord]]
    BY <1>21, CrashEffect DEF IngestRecord
  <2>4. UNCHANGED <<tables, stale, rewritten>> /\ faults' = faults + 1 /\ faults < MaxFaults
        /\ fin' = [f \in Finalizers |-> NoResult] /\ sweep' = NoSweep
    BY <1>21, CrashEffect
  <2>5. QED
    BY <1>9, <1>13, <2>1, <2>2, <2>3, <2>4 DEF TypeOK, StartRecord, IngestRecord, tables
<1>22. CASE UNCHANGED vars
  BY <1>22 DEF TypeOK, vars, tables, jobs, history
<1>23. QED
  BY <1>1, <1>2, <1>3, <1>4, <1>5, <1>6, <1>7, <1>8, <1>10, <1>11, <1>12, <1>14, <1>15,
     <1>16, <1>18, <1>19, <1>20, <1>21, <1>22
     DEF Next, StartNext, IngestNext, FinalizeNext, SweepNext

--------------------------------------------------------------------------------
(* What a step can do to each of the tables.                               *)

ParentStep(r) ==
  \/ parent'[r] = parent[r]
  \/ createRun(r) /\ parent'[r] = Running
  \/ \E f \in Finalizers : FinalizeWrite(f) /\ fin[f].run = r /\ parent'[r] = fin[f].row
  \/ ReconcileWrite /\ sweep.run = r /\ parent'[r] = sweep.row

(* Lemma: a parent is written by createRun and by the two finalizers.      *)
LEMMA ParentEffect == ASSUME TypeOK, [Next]_vars, NEW r \in RunId PROVE ParentStep(r)
<1>1. ASSUME NEW q \in RunId, createRun(q) PROVE ParentStep(r)
  <2>1. parent' = [parent EXCEPT ![q] = Running]
    BY <1>1 DEF createRun
  <2>2. QED
    BY <1>1, <2>1 DEF ParentStep, TypeOK
<1>2. ASSUME NEW f \in Finalizers, FinalizeWrite(f) PROVE ParentStep(r)
  <2>1. parent' = [parent EXCEPT ![fin[f].run] = fin[f].row]
    BY <1>2 DEF FinalizeWrite
  <2>2. QED
    BY <1>2, <2>1 DEF ParentStep, TypeOK
<1>3. CASE ReconcileWrite
  <2>1. parent' = [parent EXCEPT ![sweep.run] = sweep.row]
    BY <1>3 DEF ReconcileWrite
  <2>2. QED
    BY <1>3, <2>1 DEF ParentStep, TypeOK
<1>4. CASE UNCHANGED parent
  BY <1>4 DEF ParentStep
<1>5. QED
  BY <1>1, <1>2, <1>3, <1>4
     DEF Next, StartNext, IngestNext, FinalizeNext, SweepNext, createSourceRun, skipSourceRun,
         StartFanOut, FanOut, StartThrows, IngestStart, finishSourceRun, EnqueueFinalize,
         IngestThrows, FinalizeRead, FinalizeThrows, listStaleRuns, ReconcileNext,
         failRunningSourceRuns, ReconcileRead, TimeOut, Crash, vars, tables

ChildStep(r, s) ==
  \/ child'[r][s] = child[r][s]
  \/ createSourceRun(s) /\ r = start.run /\ child'[r][s].status = "running"
  \/ skipSourceRun(s) /\ r = start.run /\ child'[r][s].status = "skipped"
  \/ finishSourceRun(r, s) /\ child'[r][s].status \in {"completed", "failed"}
  \/ /\ failRunningSourceRuns /\ r = sweep.run
     /\ child[r][s].status = "running" /\ child'[r][s].status = "failed"

(* Lemma: a child is written by the search.run job, by the job of its      *)
(* source and, while it is running, by the watchdog.                       *)
LEMMA ChildEffect ==
  ASSUME TypeOK, [Next]_vars, NEW r \in RunId, NEW s \in Source
  PROVE  ChildStep(r, s)
<1>1. child \in [RunId -> [Source -> ChildRow]]
  BY DEF TypeOK
<1>2. ASSUME NEW q \in Source, createSourceRun(q) PROVE ChildStep(r, s)
  <2>1. child' = [child EXCEPT ![start.run][q] = Running]
    BY <1>2 DEF createSourceRun
  <2>2. child'[r][s] = child[r][s] \/ (r = start.run /\ s = q /\ child'[r][s] = Running)
    BY <1>1, <2>1
  <2>3. Running.status = "running"
    BY DEF Running
  <2>4. QED
    BY <1>2, <2>2, <2>3 DEF ChildStep
<1>3. ASSUME NEW q \in Source, skipSourceRun(q) PROVE ChildStep(r, s)
  <2>1. child' = [child EXCEPT ![start.run][q] = [status |-> "skipped", found |-> 0]]
    BY <1>3 DEF skipSourceRun
  <2>2. child'[r][s] = child[r][s] \/ (r = start.run /\ s = q /\ child'[r][s].status = "skipped")
    BY <1>1, <2>1
  <2>3. QED
    BY <1>3, <2>2 DEF ChildStep
<1>4. ASSUME NEW p \in RunId, NEW q \in Source, finishSourceRun(p, q) PROVE ChildStep(r, s)
  <2>1. PICK st \in {"completed", "failed"}, n \in 0..MaxFound :
          child' = [child EXCEPT ![p][q] = [status |-> st, found |-> n]]
    BY <1>4 DEF finishSourceRun
  <2>2. child'[r][s] = child[r][s]
          \/ (r = p /\ s = q /\ child'[r][s].status \in {"completed", "failed"})
    BY <1>1, <2>1
  <2>3. QED
    BY <1>4, <2>2 DEF ChildStep
<1>5. CASE failRunningSourceRuns
  <2>1. CASE r # sweep.run \/ s \notin ToFail(r)
    BY <1>1, <1>5, <2>1 DEF failRunningSourceRuns, ChildStep
  <2>2. CASE r = sweep.run /\ s \in ToFail(r)
    <3>1. child'[r][s] = [child[r][s] EXCEPT !.status = "failed"]
      BY <1>1, <1>5, <2>2 DEF failRunningSourceRuns
    <3>2. child[r][s].status = "running" /\ child[r][s] \in ChildRow
      BY <1>1, <2>2 DEF ToFail, WithStatus
    <3>3. child'[r][s].status = "failed"
      BY <3>1, <3>2 DEF ChildRow, Absent
    <3>4. QED
      BY <1>5, <2>2, <3>2, <3>3 DEF ChildStep
  <2>3. QED
    BY <2>1, <2>2
<1>6. CASE UNCHANGED child
  BY <1>6 DEF ChildStep
<1>7. QED
  BY <1>2, <1>3, <1>4, <1>5, <1>6
     DEF Next, StartNext, IngestNext, FinalizeNext, SweepNext, createRun, StartFanOut, FanOut,
         StartThrows, IngestStart, EnqueueFinalize, IngestThrows, FinalizeRead, FinalizeWrite,
         FinalizeThrows, listStaleRuns, ReconcileNext, ReconcileRead, ReconcileWrite, TimeOut,
         Crash, vars, tables

IngestChange(r, s) ==
  \/ ingest'[r][s] = ingest[r][s]
  \/ FanOut(s) /\ r = start.run /\ ingest'[r][s].step = "waiting"
  \/ IngestStart(r, s) /\ ingest'[r][s].step = "active"
  \/ finishSourceRun(r, s) /\ ingest'[r][s].step = "reporting"
  \/ EnqueueFinalize(r, s) /\ ingest'[r][s].step = "done"
  \/ IngestActive(r, s) /\ ingest'[r][s].step \in {"waiting", "lost"}

(* Lemma: an ingest.source job is started by search.run and then goes its  *)
(* own way.                                                                *)
LEMMA IngestEffect ==
  ASSUME TypeOK, [Next]_vars, NEW r \in RunId, NEW s \in Source
  PROVE  IngestChange(r, s)
<1>1. ingest \in [RunId -> [Source -> IngestRecord]]
  BY DEF TypeOK, IngestRecord
<1>2. ASSUME NEW p, NEW q \in Source, NEW job, IngestTo(p, q, job)
      PROVE  ingest'[r][s] = ingest[r][s] \/ (r = p /\ s = q /\ ingest'[r][s] = job)
  BY <1>1, <1>2 DEF IngestTo
<1>3. ASSUME NEW q \in Source, FanOut(q) PROVE IngestChange(r, s)
  <2>1. \/ ingest'[r][s] = ingest[r][s]
        \/ r = start.run /\ s = q /\ ingest'[r][s] = [step |-> "waiting", attempt |-> 1]
    BY <1>1, <1>3 DEF FanOut
  <2>2. QED
    BY <1>3, <2>1 DEF IngestChange
<1>4. ASSUME NEW p \in RunId, NEW q \in Source, NEW step, IngestStep(p, q, step)
      PROVE  ingest'[r][s] = ingest[r][s] \/ (r = p /\ s = q /\ ingest'[r][s].step = step)
  <2>1. ingest'[r][s] = ingest[r][s]
          \/ (r = p /\ s = q /\ ingest'[r][s] = [ingest[p][q] EXCEPT !.step = step])
    BY <1>1, <1>4 DEF IngestStep, IngestTo
  <2>2. [ingest[p][q] EXCEPT !.step = step].step = step
    BY <1>1 DEF IngestRecord
  <2>3. QED
    BY <2>1, <2>2
<1>5. ASSUME NEW p \in RunId, NEW q \in Source, IngestStart(p, q) PROVE IngestChange(r, s)
  BY <1>4, <1>5 DEF IngestStart, IngestChange
<1>6. ASSUME NEW p \in RunId, NEW q \in Source, finishSourceRun(p, q) PROVE IngestChange(r, s)
  <2>1. IngestStep(p, q, "reporting")
    BY <1>6 DEF finishSourceRun
  <2>2. QED
    BY <1>4, <1>6, <2>1 DEF IngestChange
<1>7. ASSUME NEW p \in RunId, NEW q \in Source, EnqueueFinalize(p, q) PROVE IngestChange(r, s)
  <2>1. IngestStep(p, q, "done")
    BY <1>7 DEF EnqueueFinalize
  <2>2. QED
    BY <1>4, <1>7, <2>1 DEF IngestChange
<1>8. ASSUME NEW p \in RunId, NEW q \in Source, IngestThrows(p, q) PROVE IngestChange(r, s)
  <2>1. \/ ingest'[r][s] = ingest[r][s]
        \/ r = p /\ s = q /\ ingest'[r][s].step \in {"waiting", "lost"}
    BY <1>1, <1>8 DEF IngestThrows, IngestTo
  <2>2. QED
    BY <1>8, <2>1 DEF IngestThrows, IngestChange
<1>9. CASE Crash
  BY <1>9, CrashEffect DEF IngestChange
<1>10. CASE UNCHANGED ingest
  BY <1>10 DEF IngestChange
<1>11. QED
  BY <1>3, <1>5, <1>6, <1>7, <1>8, <1>9, <1>10
     DEF Next, StartNext, IngestNext, FinalizeNext, SweepNext, createRun, createSourceRun,
         skipSourceRun, StartFanOut, StartThrows, FinalizeRead, FinalizeWrite, FinalizeThrows,
         listStaleRuns, ReconcileNext, failRunningSourceRuns, ReconcileRead, ReconcileWrite,
         TimeOut, vars, jobs

QueueStep(r) ==
  \/ finalizeQ'[r] = finalizeQ[r]
  \/ StartFanOut /\ r = start.run /\ start'.step = "done" /\ finalizeQ'[r] = finalizeQ[r] + 1
  \/ \E s \in Source : EnqueueFinalize(r, s) /\ finalizeQ'[r] = finalizeQ[r] + 1
  \/ \E f \in Finalizers : FinalizeRead(f, r) /\ finalizeQ'[r] = finalizeQ[r] - 1
  \/ Crash

(* Lemma: who adds search.finalize jobs, and who takes them.               *)
LEMMA QueueEffect == ASSUME TypeOK, [Next]_vars, NEW r \in RunId PROVE QueueStep(r)
<1>1. finalizeQ \in [RunId -> Nat]
  BY DEF TypeOK
<1>2. CASE StartFanOut
  <2>1. \/ finalizeQ' = finalizeQ
        \/ /\ finalizeQ' = [finalizeQ EXCEPT ![start.run] = finalizeQ[start.run] + 1]
           /\ start' = [start EXCEPT !.step = "done"]
    BY <1>2 DEF StartFanOut
  <2>2. [start EXCEPT !.step = "done"].step = "done"
    BY StartTypes DEF StartRecord
  <2>3. QED
    BY <1>1, <1>2, <2>1, <2>2 DEF QueueStep
<1>3. ASSUME NEW p \in RunId, NEW s \in Source, EnqueueFinalize(p, s) PROVE QueueStep(r)
  <2>1. finalizeQ' = [finalizeQ EXCEPT ![p] = finalizeQ[p] + 1]
    BY <1>3 DEF EnqueueFinalize
  <2>2. QED
    BY <1>1, <1>3, <2>1 DEF QueueStep
<1>4. ASSUME NEW f \in Finalizers, NEW p \in RunId, FinalizeRead(f, p) PROVE QueueStep(r)
  <2>1. finalizeQ' = [finalizeQ EXCEPT ![p] = finalizeQ[p] - 1]
    BY <1>4 DEF FinalizeRead
  <2>2. QED
    BY <1>1, <1>4, <2>1 DEF QueueStep
<1>5. CASE Crash \/ UNCHANGED finalizeQ
  BY <1>5 DEF QueueStep
<1>6. QED
  BY <1>2, <1>3, <1>4, <1>5
     DEF Next, StartNext, IngestNext, FinalizeNext, SweepNext, createRun, createSourceRun,
         skipSourceRun, FanOut, StartThrows, IngestStart, finishSourceRun, IngestThrows,
         FinalizeWrite, FinalizeThrows, listStaleRuns, ReconcileNext, failRunningSourceRuns,
         ReconcileRead, ReconcileWrite, TimeOut, vars, jobs

FinStep(f) ==
  \/ fin'[f] = fin[f]
  \/ fin'[f] = NoResult /\ (FinalizeWrite(f) \/ FinalizeThrows(f) \/ Crash)
  \/ \E r \in RunId : /\ FinalizeRead(f, r) /\ AllTerminal(r)
                      /\ fin'[f] = [run |-> r, row |-> Derive(r)]

(* Lemma: a finalizer holds what it derived from children it found ended.  *)
LEMMA FinEffect == ASSUME TypeOK, [Next]_vars, NEW f \in Finalizers PROVE FinStep(f)
<1>1. ASSUME NEW g \in Finalizers, NEW r \in RunId, FinalizeRead(g, r) PROVE FinStep(f)
  BY <1>1 DEF FinalizeRead, FinStep, TypeOK
<1>2. ASSUME NEW g \in Finalizers, FinalizeWrite(g) \/ FinalizeThrows(g) PROVE FinStep(f)
  BY <1>2 DEF FinalizeWrite, FinalizeThrows, FinStep, TypeOK
<1>3. CASE Crash
  BY <1>3, CrashEffect DEF FinStep
<1>4. CASE UNCHANGED fin
  BY <1>4 DEF FinStep
<1>5. QED
  BY <1>1, <1>2, <1>3, <1>4
     DEF Next, StartNext, IngestNext, FinalizeNext, SweepNext, createRun, createSourceRun,
         skipSourceRun, StartFanOut, FanOut, StartThrows, IngestStart, finishSourceRun,
         EnqueueFinalize, IngestThrows, listStaleRuns, ReconcileNext, failRunningSourceRuns,
         ReconcileRead, ReconcileWrite, TimeOut, vars, jobs

SameStart == start'.run = start.run /\ start'.todo = start.todo

StartChange ==
  \/ start' = start
  \/ \E r \in RunId :
       /\ createRun(r) /\ start'.step = "creating" /\ start'.run = r
       /\ start'.todo = Registered /\ start'.skip = start.skip /\ start'.ready = start.ready
  \/ \E s \in Source :
       /\ createSourceRun(s) /\ start'.step = "creating" /\ start'.run = start.run
       /\ start'.todo = start.todo \ {s}
       /\ \/ start'.skip = {} /\ start'.ready = start.ready \cup {s}
          \/ start'.skip = {s} /\ start'.ready = start.ready
  \/ \E s \in Source :
       /\ skipSourceRun(s) /\ start'.step = "creating" /\ SameStart
       /\ start'.skip = {} /\ start'.ready = start.ready
  \/ /\ StartFanOut /\ SameStart /\ start'.ready = start.ready
     /\ start'.step = IF start.ready = {} THEN "done" ELSE "fanOut"
  \/ \E s \in Source :
       /\ FanOut(s) /\ SameStart /\ start'.ready = start.ready \ {s}
       /\ start'.step = IF start'.ready = {} THEN "done" ELSE "fanOut"
  \/ start'.step = "waiting" /\ start'.run = NoRun /\ start'.skip = {} /\ start'.ready = {}
  \/ start'.step = "lost" /\ SameStart

(* Lemma: the steps of the search.run job.                                 *)
LEMMA StartEffect == ASSUME TypeOK, [Next]_vars PROVE StartChange
<1>1. start \in StartRecord
  BY StartTypes
<1>2. ASSUME NEW r \in RunId, createRun(r) PROVE StartChange
  <2>1. start' = [start EXCEPT !.step = "creating", !.run = r, !.todo = Registered]
    BY <1>2 DEF createRun
  <2>2. /\ start'.step = "creating" /\ start'.run = r /\ start'.todo = Registered
        /\ start'.skip = start.skip /\ start'.ready = start.ready
    BY <1>1, <2>1 DEF StartRecord
  <2>3. QED
    BY <1>2, <2>2 DEF StartChange
<1>3. ASSUME NEW s \in Source, createSourceRun(s) PROVE StartChange
  <2>1. /\ start.step = "creating" /\ start.skip = {}
        /\ \/ start' = [start EXCEPT !.todo = start.todo \ {s}, !.ready = start.ready \cup {s}]
           \/ start' = [start EXCEPT !.todo = start.todo \ {s}, !.skip = {s}]
    BY <1>3 DEF createSourceRun
  <2>2. /\ start'.step = "creating" /\ start'.run = start.run /\ start'.todo = start.todo \ {s}
        /\ \/ start'.skip = {} /\ start'.ready = start.ready \cup {s}
           \/ start'.skip = {s} /\ start'.ready = start.ready
    BY <1>1, <2>1 DEF StartRecord
  <2>3. QED
    BY <1>3, <2>2 DEF StartChange
<1>4. ASSUME NEW s \in Source, skipSourceRun(s) PROVE StartChange
  <2>1. start.step = "creating" /\ start' = [start EXCEPT !.skip = {}]
    BY <1>4 DEF skipSourceRun
  <2>2. start'.step = "creating" /\ SameStart /\ start'.skip = {} /\ start'.ready = start.ready
    BY <1>1, <2>1 DEF StartRecord, SameStart
  <2>3. QED
    BY <1>4, <2>2 DEF StartChange
<1>5. CASE StartFanOut
  <2>1. IF start.ready = {} THEN start' = [start EXCEPT !.step = "done"]
                            ELSE start' = [start EXCEPT !.step = "fanOut"]
    BY <1>5 DEF StartFanOut
  <2>2. /\ SameStart /\ start'.ready = start.ready
        /\ start'.step = IF start.ready = {} THEN "done" ELSE "fanOut"
    BY <1>1, <2>1 DEF StartRecord, SameStart
  <2>3. QED
    BY <1>5, <2>2 DEF StartChange
<1>6. ASSUME NEW s \in Source, FanOut(s) PROVE StartChange
  <2> DEFINE left == start.ready \ {s}
  <2>1. /\ start.step = "fanOut"
        /\ start' = [start EXCEPT !.ready = left, !.step = IF left = {} THEN "done" ELSE start.step]
    BY <1>6 DEF FanOut
  <2>2. /\ SameStart /\ start'.ready = left
        /\ start'.step = IF left = {} THEN "done" ELSE "fanOut"
    BY <1>1, <2>1 DEF StartRecord, SameStart
  <2>3. QED
    BY <1>6, <2>2 DEF StartChange
<1>7. ASSUME NEW n, start' = NewStart(n) \/ start' = [start EXCEPT !.step = "lost"]
      PROVE  StartChange
  <2>1. \/ /\ start'.step = "waiting" /\ start'.run = NoRun
           /\ start'.skip = {} /\ start'.ready = {}
        \/ start'.step = "lost" /\ SameStart
    BY <1>1, <1>7 DEF StartRecord, SameStart, NewStart
  <2>2. QED
    BY <2>1 DEF StartChange
<1>8. CASE StartThrows
  BY <1>7, <1>8 DEF StartThrows, AfterThrow
<1>9. CASE Crash
  <2>1. \/ start' = start \/ start' = NewStart(start.attempt)
        \/ start' = [start EXCEPT !.step = "lost"]
    BY <1>9, CrashEffect
  <2>2. QED
    BY <1>7, <2>1 DEF StartChange
<1>10. CASE UNCHANGED start
  BY <1>10 DEF StartChange
<1>11. QED
  BY <1>2, <1>3, <1>4, <1>5, <1>6, <1>8, <1>9, <1>10
     DEF Next, StartNext, IngestNext, FinalizeNext, SweepNext, IngestStart, finishSourceRun,
         EnqueueFinalize, IngestThrows, FinalizeRead, FinalizeWrite, FinalizeThrows,
         listStaleRuns, ReconcileNext, failRunningSourceRuns, ReconcileRead, ReconcileWrite,
         TimeOut, vars, jobs

SweepChange ==
  \/ sweep' = sweep
  \/ sweep'.step = "idle"
  \/ sweep'.step = "next" /\ sweep'.todo = StaleRuns
  \/ sweep'.step = "next" /\ sweep'.todo = sweep.todo /\ sweep.step \in {"finalize", "write"}
  \/ /\ sweep.step = "next" /\ sweep'.step \in {"finalize", "fail"}
     /\ sweep'.run \in sweep.todo /\ sweep'.todo \subseteq sweep.todo
  \/ /\ sweep.step = "fail" /\ sweep'.step = "finalize"
     /\ sweep'.run = sweep.run /\ sweep'.todo = sweep.todo
  \/ /\ sweep.step = "finalize" /\ sweep'.step = "write" /\ sweep'.row = Derive(sweep.run)
     /\ sweep'.run = sweep.run /\ sweep'.todo = sweep.todo

(* Lemma: the steps of the watchdog's job.                                 *)
LEMMA SweepEffect == ASSUME TypeOK, [Next]_vars PROVE SweepChange
<1>1. sweep \in [step : {"idle", "next", "fail", "finalize", "write"},
                 run : RunId \cup {NoRun}, todo : SUBSET RunId, row : ParentRow]
  BY DEF TypeOK
<1>2. CASE listStaleRuns
  BY <1>2 DEF listStaleRuns, NoSweep, SweepChange
<1>3. ASSUME NEW r \in RunId, ReconcileNext(r) PROVE SweepChange
  <2>1. /\ sweep.step = "next" /\ r \in sweep.todo
        /\ sweep' = [NoSweep EXCEPT !.step = IF AllTerminal(r) THEN "finalize" ELSE "fail",
                                    !.run = r, !.todo = sweep.todo \ {r}]
    BY <1>3 DEF ReconcileNext
  <2>2. /\ sweep'.step \in {"finalize", "fail"} /\ sweep'.run = r
        /\ sweep'.todo = sweep.todo \ {r}
    BY <2>1 DEF NoSweep
  <2>3. QED
    BY <2>1, <2>2 DEF SweepChange
<1>4. CASE failRunningSourceRuns
  <2>1. sweep.step = "fail" /\ sweep' = [sweep EXCEPT !.step = "finalize"]
    BY <1>4 DEF failRunningSourceRuns
  <2>2. sweep'.step = "finalize" /\ sweep'.run = sweep.run /\ sweep'.todo = sweep.todo
    BY <1>1, <2>1
  <2>3. QED
    BY <2>1, <2>2 DEF SweepChange
<1>5. SweepOn.step = "idle" \/ (SweepOn.step = "next" /\ SweepOn.todo = sweep.todo)
  BY DEF SweepOn, NoSweep
<1>6. CASE ReconcileRead
  <2>1. /\ sweep.step = "finalize"
        /\ \/ sweep' = [sweep EXCEPT !.step = "write", !.row = Derive(sweep.run)]
           \/ sweep' = SweepOn
    BY <1>6 DEF ReconcileRead
  <2>2. \/ /\ sweep'.step = "write" /\ sweep'.row = Derive(sweep.run)
           /\ sweep'.run = sweep.run /\ sweep'.todo = sweep.todo
        \/ sweep'.step = "idle" \/ (sweep'.step = "next" /\ sweep'.todo = sweep.todo)
    BY <1>1, <1>5, <2>1
  <2>3. QED
    BY <2>1, <2>2 DEF SweepChange
<1>7. CASE ReconcileWrite
  BY <1>5, <1>7 DEF ReconcileWrite, SweepChange
<1>8. CASE Crash
  BY <1>8, CrashEffect DEF NoSweep, SweepChange
<1>9. CASE UNCHANGED sweep
  BY <1>9 DEF SweepChange
<1>10. QED
  BY <1>2, <1>3, <1>4, <1>6, <1>7, <1>8, <1>9
     DEF Next, StartNext, IngestNext, FinalizeNext, SweepNext, createRun, createSourceRun,
         skipSourceRun, StartFanOut, FanOut, StartThrows, IngestStart, finishSourceRun,
         EnqueueFinalize, IngestThrows, FinalizeRead, FinalizeWrite, FinalizeThrows,
         TimeOut, vars, jobs

(* Lemma: nothing is taken back from the history, and only a run that is   *)
(* there gets old.                                                         *)
LEMMA HistoryEffect ==
  ASSUME TypeOK, [Next]_vars
  PROVE  /\ stale \subseteq stale' /\ rewritten \subseteq rewritten' /\ dropped \subseteq dropped'
         /\ \A r \in RunId : r \in stale' => r \in stale \/ parent[r] # Absent
<1>1. CASE Crash
  BY <1>1, CrashEffect
<1>2. ASSUME ~Crash
      PROVE  /\ stale \subseteq stale' /\ rewritten \subseteq rewritten' /\ dropped \subseteq dropped'
             /\ \A r \in RunId : r \in stale' => r \in stale \/ parent[r] # Absent
  BY <1>2
     DEF Next, StartNext, IngestNext, FinalizeNext, SweepNext, createRun, createSourceRun,
         skipSourceRun, StartFanOut, FanOut, StartThrows, IngestStart, finishSourceRun,
         EnqueueFinalize, IngestThrows, FinalizeRead, FinalizeWrite, FinalizeThrows,
         listStaleRuns, ReconcileNext, failRunningSourceRuns, ReconcileRead, ReconcileWrite,
         TimeOut, vars, history
<1>3. QED
  BY <1>1, <1>2

--------------------------------------------------------------------------------
(* Each part of the invariant is inductive.                                *)

(* The parts that order the jobs of a run after its children.              *)
OrderOK == FreshOK /\ CreatingOK /\ FanOutOK /\ CreatedOK

(* Lemma: the jobs are at runs that exist.                                 *)
LEMMA JobsInvariant == ASSUME TypeOK, JobsOK, [Next]_vars PROVE JobsOK'
<1>1. /\ start'.step = "waiting" => start'.run = NoRun /\ start'.skip = {} /\ start'.ready = {}
      /\ start'.step \in {"creating", "fanOut", "done"} => start'.run \in RunId
  BY StartEffect
     DEF StartChange, SameStart, JobsOK, createSourceRun, skipSourceRun, StartFanOut,
         AllCreated, FanOut
<1>2. /\ sweep'.step = "next" => sweep'.todo \subseteq stale'
      /\ sweep'.step \in {"fail", "finalize", "write"}
           => sweep'.run \in stale' /\ sweep'.todo \subseteq stale'
  BY SweepEffect, HistoryEffect DEF SweepChange, JobsOK, StaleRuns
<1>3. sweep'.step = "write" => sweep'.row.status \in EndStatus
  <2>1. sweep.step = "finalize" => sweep.run \in RunId
    BY DEF JobsOK, TypeOK
  <2>2. sweep.step = "finalize" => Derive(sweep.run).status \in EndStatus
    BY <2>1, DeriveType
  <2>3. QED
    BY <2>2, SweepEffect DEF SweepChange, JobsOK
<1>4. ASSUME NEW f \in Finalizers, fin'[f] # NoResult
      PROVE  fin'[f].run \in RunId /\ fin'[f].row.status \in EndStatus
  <2>1. CASE fin'[f] = fin[f]
    BY <1>4, <2>1 DEF JobsOK
  <2>2. ASSUME NEW r \in RunId, fin'[f] = [run |-> r, row |-> Derive(r)]
        PROVE  fin'[f].run \in RunId /\ fin'[f].row.status \in EndStatus
    BY <2>2, DeriveType
  <2>3. QED
    BY <1>4, <2>1, <2>2, FinEffect DEF FinStep
<1>5. QED
  BY <1>1, <1>2, <1>3, <1>4 DEF JobsOK

(* Lemma: the first job of a run is started by StartFanOut.                *)
LEMMA BeganGrows ==
  ASSUME TypeOK, JobsOK, [Next]_vars, NEW r \in RunId, Began(r)'
  PROVE  Began(r) \/ (StartFanOut /\ r = start.run)
<1> SUFFICES ASSUME ~Began(r), ~(StartFanOut /\ r = start.run) PROVE FALSE
  OBVIOUS
<1>1. /\ finalizeQ[r] = 0 /\ \A s \in Source : ingest[r][s].step = "none"
      /\ \A f \in Finalizers : fin[f].run # r
      /\ start.run = r => start.step \notin {"fanOut", "done"}
  BY DEF Began, TypeOK
<1>2. finalizeQ'[r] = 0
  <2>1. TypeOK'
    BY TypeInvariant
  <2>2. finalizeQ'[r] \in Nat
    BY <2>1 DEF TypeOK
  <2>3. Crash => ~(finalizeQ'[r] > 0)
    BY <1>1, CrashEffect
  <2>4. ~Crash => finalizeQ'[r] = finalizeQ[r]
    BY <1>1, QueueEffect DEF QueueStep, EnqueueFinalize, FinalizeRead
  <2>5. QED
    BY <1>1, <2>2, <2>3, <2>4
<1>3. \A s \in Source : ingest'[r][s].step = "none"
  BY ZenonT(60), <1>1, IngestEffect
     DEF IngestChange, FanOut, IngestStart, finishSourceRun, EnqueueFinalize, IngestActive
<1>4. \A f \in Finalizers : fin'[f].run # r
  <2>1. NoResult.run # r
    BY RunAssumption DEF NoResult
  <2>2. ASSUME NEW f \in Finalizers, NEW q \in RunId,
               FinalizeRead(f, q), fin'[f] = [run |-> q, row |-> Derive(q)]
        PROVE  fin'[f].run # r
    <3>1. q # r
      BY <1>1, <2>2 DEF FinalizeRead
    <3>2. QED
      BY <2>2, <3>1
  <2>3. ASSUME NEW f \in Finalizers PROVE fin'[f].run # r
    <3>1. \/ fin'[f] = fin[f] \/ fin'[f] = NoResult
          \/ \E q \in RunId : FinalizeRead(f, q) /\ fin'[f] = [run |-> q, row |-> Derive(q)]
      BY FinEffect DEF FinStep
    <3>2. QED
      BY <1>1, <2>1, <2>2, <3>1
  <2>4. QED
    BY <2>3
<1>5. start'.run = r => start'.step \notin {"fanOut", "done"}
  BY <1>1, StartEffect, RunAssumption DEF StartChange, SameStart, FanOut
<1>6. QED
  BY <1>2, <1>3, <1>4, <1>5 DEF Began

(* Lemma: no child is taken away, and createSourceRun alone adds one.      *)
LEMMA ChildrenGrow ==
  ASSUME TypeOK, JobsOK, OrderOK, [Next]_vars, NEW r \in RunId
  PROVE  \/ Children(r)' = Children(r)
         \/ \E s \in Source : /\ createSourceRun(s) /\ r = start.run
                              /\ Children(r)' = Children(r) \cup {s}
<1>1. ASSUME NEW s \in Source, s \in Children(r) PROVE s \in Children(r)'
  BY <1>1, ChildEffect DEF ChildStep, Children
<1>2. ASSUME NEW s \in Source, s \in Children(r)', s \notin Children(r)
      PROVE  createSourceRun(s) /\ r = start.run
  <2>1. child[r][s].status = "absent" /\ child'[r][s].status # "absent"
    BY <1>2 DEF Children
  <2>2. ~skipSourceRun(s) \/ r # start.run
    BY <1>2 DEF skipSourceRun, OrderOK, CreatingOK
  <2>3. ~finishSourceRun(r, s)
    <3>1. SUFFICES ASSUME ingest[r][s].step = "active" PROVE FALSE
      BY DEF finishSourceRun
    <3>2. Began(r) /\ s \in Registered
      BY <3>1 DEF Began, OrderOK, CreatedOK
    <3>3. QED
      BY <1>2, <3>2 DEF OrderOK, CreatedOK
  <2>4. QED
    BY <2>1, <2>2, <2>3, ChildEffect DEF ChildStep
<1>3. ASSUME NEW s \in Source, createSourceRun(s), r = start.run
      PROVE  Children(r)' = Children(r) \cup {s}
  <2>1. child' = [child EXCEPT ![r][s] = Running]
    BY <1>3 DEF createSourceRun
  <2>2. s \in Children(r)' /\ \A q \in Source \ {s} : child'[r][q] = child[r][q]
    BY <2>1 DEF TypeOK, Running, Children
  <2>3. QED
    BY <1>1, <2>2 DEF Children
<1>4. CASE \E s \in Source : createSourceRun(s) /\ r = start.run
  BY <1>3, <1>4
<1>5. CASE ~\E s \in Source : createSourceRun(s) /\ r = start.run
  BY <1>1, <1>2, <1>5 DEF Children
<1>6. QED
  BY <1>4, <1>5

(* Lemma: nothing happens to a run before it is created.                   *)
LEMMA FreshInvariant == ASSUME TypeOK, JobsOK, OrderOK, [Next]_vars PROVE FreshOK'
<1> SUFFICES ASSUME NEW r \in RunId, parent'[r] = Absent
             PROVE  Children(r)' = {} /\ ~Began(r)' /\ start'.run # r /\ r \notin stale'
  BY DEF FreshOK
<1>1. parent[r] = Absent /\ ~createRun(r)
  <2>1. ~createRun(r)
    BY DEF createRun, Running, Absent, TypeOK
  <2>2. ASSUME NEW f \in Finalizers, FinalizeWrite(f) PROVE parent'[r] # fin[f].row
    BY <2>2 DEF FinalizeWrite, JobsOK, EndStatus, Absent
  <2>3. ReconcileWrite => parent'[r] # sweep.row
    BY DEF ReconcileWrite, JobsOK, EndStatus, Absent
  <2>4. QED
    BY <2>1, <2>2, <2>3, ParentEffect DEF ParentStep
<1>2. Children(r) = {} /\ ~Began(r) /\ start.run # r /\ r \notin stale
  BY <1>1 DEF OrderOK, FreshOK
<1>3. Children(r)' = {}
  BY <1>2, ChildrenGrow
<1>4. ~Began(r)'
  BY <1>2, BeganGrows
<1>5. start'.run # r
  BY <1>1, <1>2, StartEffect, RunAssumption DEF StartChange, SameStart
<1>6. r \notin stale'
  BY <1>1, <1>2, HistoryEffect
<1>7. QED
  BY <1>3, <1>4, <1>5, <1>6

(* Lemma: while the children of a run are created none of its jobs is      *)
(* started, and the sources without a child are those still to do.         *)

(* Lemma: while the children of a run are created none of its jobs is      *)
(* started, and the sources without a child are those still to do.         *)
LEMMA CreatingInvariant == ASSUME TypeOK, JobsOK, OrderOK, [Next]_vars PROVE CreatingOK'
<1> DEFINE Creating == /\ ~Began(start.run)
                       /\ start.todo \subseteq Registered
                       /\ Children(start.run) = Registered \ start.todo
                       /\ start.skip \subseteq Children(start.run)
                       /\ start.ready \subseteq Children(start.run)
                       /\ \A s, t \in start.skip : s = t
<1> SUFFICES ASSUME start'.step = "creating" PROVE Creating'
  BY DEF CreatingOK
<1>1. ASSUME NEW r \in RunId, createRun(r), start'.run = r, start'.todo = Registered,
             start'.skip = start.skip, start'.ready = start.ready
      PROVE  Creating'
  <2>1. parent[r] = Absent /\ start.step = "waiting" /\ child' = child
    BY <1>1 DEF createRun
  <2>2. Children(r) = {} /\ ~Began(r)
    BY <2>1 DEF OrderOK, FreshOK
  <2>3. Children(r)' = {}
    BY <2>1, <2>2 DEF Children
  <2>4. ~Began(r)'
    BY <2>1, <2>2, BeganGrows DEF StartFanOut, AllCreated
  <2>5. start'.skip = {} /\ start'.ready = {}
    BY <1>1, <2>1 DEF JobsOK
  <2>6. QED
    BY <1>1, <2>3, <2>4, <2>5
<1>2. ASSUME start.step = "creating", start'.run = start.run, ~StartFanOut
      PROVE  ~Began(start.run)' /\ Creating /\ start.run \in RunId
  BY <1>2, BeganGrows DEF OrderOK, CreatingOK, JobsOK
<1>3. ASSUME NEW s \in Source, createSourceRun(s), start'.run = start.run,
             start'.todo = start.todo \ {s},
             \/ start'.skip = {} /\ start'.ready = start.ready \cup {s}
             \/ start'.skip = {s} /\ start'.ready = start.ready
      PROVE  Creating'
  <2>1. /\ start.step = "creating" /\ s \in start.todo
        /\ child' = [child EXCEPT ![start.run][s] = Running]
    BY <1>3 DEF createSourceRun
  <2>2. ~StartFanOut
    BY <1>3 DEF createSourceRun, StartFanOut, AllCreated
  <2>3. ~Began(start.run)' /\ Creating /\ start.run \in RunId
    BY <1>2, <1>3, <2>1, <2>2
  <2>4. Children(start.run)' = Children(start.run) \cup {s}
    <3>1. s \in Children(start.run)'
      BY <1>3, <2>1, <2>3 DEF TypeOK, Children, Running
    <3>2. \A q \in Source \ {s} : child'[start.run][q] = child[start.run][q]
      BY <2>1, <2>3 DEF TypeOK
    <3>3. QED
      BY <1>3, <3>1, <3>2 DEF Children
  <2>5. Children(start.run)' = Registered \ start'.todo
    BY <1>3, <2>1, <2>3, <2>4
  <2>6. QED
    BY <1>3, <2>3, <2>4, <2>5
<1>4. ASSUME start.step = "creating", SameStart, ~StartFanOut, start'.skip \subseteq start.skip,
             start'.ready = start.ready, \A s \in Source : ~createSourceRun(s)
      PROVE  Creating'
  <2>1. ~Began(start.run)' /\ Creating /\ start.run \in RunId
    BY <1>2, <1>4 DEF SameStart
  <2>2. Children(start.run)' = Children(start.run)
    BY <1>4, <2>1, ChildrenGrow DEF SameStart, Children
  <2>3. QED
    BY <1>4, <2>1, <2>2 DEF SameStart
<1>5. CASE \E s \in Source : skipSourceRun(s) /\ SameStart /\ start'.skip = {} /\ start'.ready = start.ready
  BY <1>4, <1>5 DEF skipSourceRun, createSourceRun, StartFanOut, AllCreated
<1>6. CASE start' = start
  <2>1. ~StartFanOut
    BY <1>6, StartTypes DEF StartFanOut, AllCreated, StartRecord
  <2>2. ASSUME NEW s \in Source PROVE ~createSourceRun(s)
    BY ZenonT(60), <1>6, StartTypes DEF createSourceRun, StartRecord
  <2>3. QED
    BY <1>4, <1>6, <2>1, <2>2 DEF SameStart
<1> HIDE DEF Creating
<1>7. QED
  BY <1>1, <1>3, <1>5, <1>6, StartEffect DEF StartChange

(* Lemma: only sources with an adapter get a job.                          *)
LEMMA FanOutInvariant == ASSUME TypeOK, OrderOK, [Next]_vars PROVE FanOutOK'
<1> SUFFICES ASSUME start'.step = "fanOut" PROVE start'.ready \subseteq Registered
  BY DEF FanOutOK
<1>1. start.step = "creating" => start.ready \subseteq Registered
  BY DEF OrderOK, CreatingOK
<1>2. start.step = "fanOut" => start.ready \subseteq Registered
  BY DEF OrderOK, FanOutOK
<1>3. QED
  BY <1>1, <1>2, StartEffect DEF StartChange, StartFanOut, AllCreated, FanOut

(* Lemma: when a job of a run is started, all its children are there.      *)
LEMMA CreatedInvariant == ASSUME TypeOK, JobsOK, OrderOK, [Next]_vars PROVE CreatedOK'
<1>1. ASSUME NEW r \in RunId, Began(r)' PROVE Children(r)' = Registered
  <2>1. Children(r) = Registered
    <3>1. StartFanOut /\ r = start.run => Children(r) = Registered
      BY DEF StartFanOut, AllCreated, OrderOK, CreatingOK
    <3>2. QED
      BY <1>1, <3>1, BeganGrows DEF OrderOK, CreatedOK
  <2>2. ASSUME NEW s \in Source, createSourceRun(s), r = start.run PROVE FALSE
    BY <2>1, <2>2 DEF createSourceRun, OrderOK, CreatingOK
  <2>3. QED
    BY <2>1, <2>2, ChildrenGrow
<1>2. ASSUME NEW r \in RunId, NEW s \in Source, ingest'[r][s].step # "none"
      PROVE  s \in Registered
  <2>1. ingest[r][s].step # "none" => s \in Registered
    BY DEF OrderOK, CreatedOK
  <2>2. FanOut(s) => s \in Registered
    BY DEF FanOut, OrderOK, FanOutOK
  <2>3. QED
    BY <1>2, <2>1, <2>2, IngestEffect
       DEF IngestChange, IngestStart, finishSourceRun, EnqueueFinalize, IngestActive
<1>3. QED
  BY <1>1, <1>2 DEF CreatedOK

(* Lemma: a run whose children have all ended stays so, and what is        *)
(* derived from them stays what it is unless one is finished again.        *)
LEMMA CompleteStays ==
  ASSUME TypeOK, JobsOK, OrderOK, [Next]_vars, NEW r \in RunId, Complete(r)
  PROVE  Complete(r)' /\ (r \notin rewritten' => r \notin rewritten /\ Derive(r)' = Derive(r))
<1>1. ASSUME NEW s \in Source PROVE ~(createSourceRun(s) /\ r = start.run)
  BY DEF createSourceRun, OrderOK, CreatingOK, Complete
<1>2. Children(r)' = Children(r)
  BY <1>1, ChildrenGrow
<1>3. ASSUME NEW s \in Source PROVE child[r][s].status # "running"
  BY <1>3 DEF Complete, WithStatus, Children
<1>4. ASSUME NEW s \in Source PROVE child'[r][s].status # "running"
  BY <1>1, <1>3, ChildEffect DEF ChildStep
<1>5. Complete(r)'
  <2>1. Children(r)' \subseteq Source /\ Children(r)' = Registered
    BY <1>2 DEF Complete, Children
  <2>2. WithStatus(r, "running")' = {}
    BY <1>4, <2>1 DEF WithStatus
  <2>3. QED
    BY <2>1, <2>2 DEF Complete
<1>6. ASSUME r \notin rewritten', NEW s \in Source PROVE child'[r][s] = child[r][s]
  <2>1. ~(skipSourceRun(s) /\ r = start.run)
    BY <1>3, <1>6 DEF skipSourceRun, WithStatus
  <2>2. ~finishSourceRun(r, s)
    BY <1>3, <1>6 DEF finishSourceRun, WithStatus
  <2>3. QED
    BY <1>1, <1>3, <2>1, <2>2, ChildEffect DEF ChildStep
<1>7. ASSUME r \notin rewritten' PROVE Derive(r)' = Derive(r)
  <2>1. [s \in Children(r)' |-> child'[r][s].found] = [s \in Children(r) |-> child[r][s].found]
    BY <1>2, <1>6, <1>7 DEF Children
  <2>2. FoundIn(r)' = FoundIn(r)
    BY <2>1 DEF FoundIn
  <2>3. ASSUME NEW st PROVE WithStatus(r, st)' = WithStatus(r, st)
    BY <1>2, <1>6, <1>7 DEF WithStatus, Children
  <2>4. StatusOf(r)' = StatusOf(r)
    BY <1>2, <2>3 DEF StatusOf
  <2>5. QED
    BY <2>2, <2>4 DEF Derive
<1>8. QED
  BY <1>5, <1>7, HistoryEffect

(* Lemma: a run within its time is written, and read by a finalizer, only  *)
(* once it is complete.                                                    *)
LEMMA InTimeInvariant ==
  ASSUME TypeOK, JobsOK, OrderOK, InTimeOK, [Next]_vars
  PROVE  InTimeOK'
<1> DEFINE Settled(r, row) == Complete(r) /\ (r \notin rewritten => row = Derive(r))
<1> SUFFICES ASSUME NEW r \in RunId, r \notin stale'
             PROVE  /\ Ended(r)' => Settled(r, parent[r])'
                    /\ \A f \in Finalizers : fin'[f].run = r => Settled(r, fin[f].row)'
  BY DEF InTimeOK
<1>1. r \notin stale
  BY HistoryEffect
<1>2. ASSUME Complete(r) PROVE Complete(r)' /\ (r \notin rewritten' => r \notin rewritten /\ Derive(r)' = Derive(r))
  BY <1>2, CompleteStays
<1>3. ASSUME Ended(r)' PROVE Settled(r, parent[r])'
  <2>1. CASE parent'[r] = parent[r]
    <3>1. Ended(r)
      BY <1>3, <2>1 DEF Ended
    <3>2. Settled(r, parent[r])
      BY <1>1, <3>1 DEF InTimeOK
    <3>3. QED
      BY <1>2, <2>1, <3>2
  <2>2. ASSUME NEW f \in Finalizers, fin[f].run = r, parent'[r] = fin[f].row
        PROVE  Settled(r, parent[r])'
    <3>1. Settled(r, fin[f].row)
      BY <1>1, <2>2 DEF InTimeOK
    <3>2. QED
      BY <1>2, <2>2, <3>1
  <2>3. parent'[r] # Running
    BY <1>3 DEF Ended, Running
  <2>4. ~(ReconcileWrite /\ sweep.run = r)
    BY <1>1 DEF ReconcileWrite, JobsOK
  <2>5. QED
    BY <2>1, <2>2, <2>3, <2>4, ParentEffect DEF ParentStep
<1>4. ASSUME NEW f \in Finalizers, fin'[f].run = r PROVE Settled(r, fin[f].row)'
  <2>1. CASE fin'[f] = fin[f]
    <3>1. Settled(r, fin[f].row)
      BY <1>1, <1>4, <2>1 DEF InTimeOK
    <3>2. QED
      BY <1>2, <2>1, <3>1
  <2>2. fin'[f] # NoResult
    BY <1>4, RunAssumption DEF NoResult
  <2>3. ASSUME NEW q \in RunId, FinalizeRead(f, q), AllTerminal(q),
               fin'[f] = [run |-> q, row |-> Derive(q)]
        PROVE  Settled(r, fin[f].row)'
    <3>1. q = r /\ fin'[f].row = Derive(r)
      BY <1>4, <2>3
    <3>2. Began(r)
      BY <2>3, <3>1 DEF FinalizeRead, Began
    <3>3. Complete(r)
      BY <2>3, <3>1, <3>2 DEF Complete, AllTerminal, OrderOK, CreatedOK
    <3>4. QED
      BY <1>2, <3>1, <3>3
  <2>4. QED
    BY <2>1, <2>2, <2>3, FinEffect DEF FinStep
<1>5. QED
  BY <1>3, <1>4

(* Lemma: what a source run that is no longer pending has left.            *)
LEMMA PendingStays ==
  ASSUME TypeOK, [Next]_vars, NEW r \in RunId, NEW s \in Source, Pending(r, s)
  PROVE  Pending(r, s)' \/ EnqueueFinalize(r, s)
  BY IngestEffect DEF IngestChange, Pending

(* Lemma: a running child still has a job to end it, and one whose job has *)
(* ended is not running.                                                   *)
LEMMA RunningInvariant ==
  ASSUME TypeOK, JobsOK, OrderOK, RunningOK, [Next]_vars
  PROVE  RunningOK'
<1> SUFFICES ASSUME NEW r \in RunId, NEW s \in Source
             PROVE  /\ ingest'[r][s].step \in {"reporting", "done"} => child'[r][s].status # "running"
                    /\ start'.run = r /\ start'.step # "lost" /\ child'[r][s].status = "running" =>
                         \/ Pending(r, s)'
                         \/ start'.step \in {"creating", "fanOut"} /\ s \in start'.ready
                         \/ start'.step = "creating" /\ s \in start'.skip
  BY DEF RunningOK
<1>1. ASSUME ingest'[r][s].step \in {"reporting", "done"}, child'[r][s].status = "running"
      PROVE  FALSE
  <2>1. ~finishSourceRun(r, s)
    <3>1. SUFFICES ASSUME finishSourceRun(r, s) PROVE FALSE
      OBVIOUS
    <3>2. PICK st \in {"completed", "failed"}, n \in 0..MaxFound :
            child' = [child EXCEPT ![r][s] = [status |-> st, found |-> n]]
      BY <3>1 DEF finishSourceRun
    <3>3. child'[r][s] = [status |-> st, found |-> n]
      BY <3>2 DEF TypeOK
    <3>4. QED
      BY <1>1, <3>3
  <2>2. ingest[r][s].step \in {"reporting", "done"}
    BY <1>1, <2>1, IngestEffect DEF IngestChange, EnqueueFinalize
  <2>3. child[r][s].status # "running" /\ Began(r)
    BY <2>2 DEF RunningOK, Began
  <2>4. ~(createSourceRun(s) /\ r = start.run)
    BY <2>3 DEF createSourceRun, OrderOK, CreatingOK
  <2>5. QED
    BY <1>1, <2>3, <2>4, ChildEffect DEF ChildStep
<1>2. ASSUME start'.run = r, start'.step # "lost", child'[r][s].status = "running"
      PROVE  \/ Pending(r, s)'
             \/ start'.step \in {"creating", "fanOut"} /\ s \in start'.ready
             \/ start'.step = "creating" /\ s \in start'.skip
  <2>1. CASE createSourceRun(s) /\ r = start.run
    <3>1. /\ start.step = "creating"
          /\ \/ start' = [start EXCEPT !.todo = start.todo \ {s}, !.ready = start.ready \cup {s}]
             \/ start' = [start EXCEPT !.todo = start.todo \ {s}, !.skip = {s}]
      BY <2>1 DEF createSourceRun
    <3>2. QED
      BY <3>1, StartTypes DEF StartRecord
  <2>2. CASE child[r][s].status = "running"
    <3>1. s \in Children(r)
      BY <2>2 DEF Children
    <3>2. ~createRun(r)
      BY <3>1 DEF createRun, OrderOK, FreshOK
    <3>3. start.run = r /\ start.step # "lost"
      <4>1. start.run = r
        BY <1>2, <3>2, StartEffect, RunAssumption DEF StartChange, SameStart
      <4>2. start.step = "lost" => start' = start
        BY <1>2, <3>2, StartEffect, RunAssumption
           DEF StartChange, createRun, createSourceRun, skipSourceRun, StartFanOut, AllCreated, FanOut
      <4>3. QED
        BY <1>2, <4>1, <4>2
    <3>4. CASE Pending(r, s)
      BY <2>2, <3>4, PendingStays DEF EnqueueFinalize, RunningOK
    <3>5. CASE start.step \in {"creating", "fanOut"} /\ s \in start.ready
      <4>1. FanOut(s) => Pending(r, s)'
        <5>1. SUFFICES ASSUME FanOut(s) PROVE Pending(r, s)'
          OBVIOUS
        <5>2. ingest' = [ingest EXCEPT ![r][s] = [step |-> "waiting", attempt |-> 1]]
          BY <3>3, <5>1 DEF FanOut
        <5>3. ingest'[r][s].step = "waiting"
          BY <5>2 DEF TypeOK
        <5>4. QED
          BY <5>3 DEF Pending
      <4>2. ASSUME NEW q \in Source, q # s, FanOut(q), start'.ready = start.ready \ {q},
                   start'.step = IF start'.ready = {} THEN "done" ELSE "fanOut"
            PROVE  start'.step = "fanOut" /\ s \in start'.ready
        BY <3>5, <4>2
      <4>3. QED
        BY <1>2, <3>2, <3>3, <3>5, <4>1, <4>2, StartEffect, RunAssumption DEF StartChange
    <3>6. CASE start.step = "creating" /\ s \in start.skip
      <4>1. ASSUME NEW q \in Source, skipSourceRun(q) PROVE FALSE
        <5>1. q = s /\ child' = [child EXCEPT ![r][s] = [status |-> "skipped", found |-> 0]]
          BY <3>3, <3>6, <4>1 DEF skipSourceRun, OrderOK, CreatingOK
        <5>2. child'[r][s] = [status |-> "skipped", found |-> 0]
          BY <5>1 DEF TypeOK
        <5>3. QED
          BY <1>2, <5>2
      <4>2. QED
        BY <1>2, <3>2, <3>6, <4>1, StartEffect, RunAssumption
           DEF StartChange, createRun, createSourceRun, StartFanOut, AllCreated, FanOut
    <3>7. QED
      BY <2>2, <3>3, <3>4, <3>5, <3>6 DEF RunningOK
  <2>3. QED
    BY <1>2, <2>1, <2>2, ChildEffect DEF ChildStep
<1>3. QED
  BY <1>1, <1>2

(* Lemma: once a run has ended it does not run again.                      *)
LEMMA EndedStays ==
  ASSUME TypeOK, JobsOK, [Next]_vars, NEW r \in RunId
  PROVE  /\ Ended(r) => Ended(r)'
         /\ \A f \in Finalizers : fin[f].run = r /\ FinalizeWrite(f) => Ended(r)'
<1>1. ASSUME NEW f \in Finalizers, fin[f].run = r, FinalizeWrite(f)
      PROVE  Ended(r)'
  <2>1. parent'[r] = fin[f].row /\ fin[f].row.status \in EndStatus
    BY <1>1 DEF FinalizeWrite, TypeOK, JobsOK
  <2>2. QED
    BY <2>1 DEF Ended, EndStatus
<1>2. ASSUME ReconcileWrite, parent'[r] = sweep.row PROVE Ended(r)'
  BY <1>2 DEF ReconcileWrite, JobsOK, Ended, EndStatus
<1>3. ASSUME Ended(r) PROVE ~createRun(r)
  BY <1>3 DEF createRun, Ended, Absent
<1>4. ASSUME Ended(r), parent'[r] = parent[r] PROVE Ended(r)'
  BY <1>4 DEF Ended
<1>5. QED
  BY <1>1, <1>2, <1>3, <1>4, ParentEffect DEF ParentStep

(* Something is still to come for run r, or it has ended.                  *)
Due(r) ==
  \/ Ended(r) \/ finalizeQ[r] > 0 \/ \E f \in Finalizers : fin[f].run = r
  \/ \E s \in Source : Pending(r, s)

(* Lemma: unless one of its finalizers was dropped, a run whose jobs are   *)
(* all started has ended, is still to be finalized, or has an ingest job   *)
(* that is pending or was given up.                                        *)
LEMMA DueInvariant ==
  ASSUME TypeOK, JobsOK, OrderOK, RunningOK, DueOK, [Next]_vars
  PROVE  DueOK'
<1> SUFFICES ASSUME start'.step = "done", NEW r \in RunId, r = start'.run, r \notin dropped'
             PROVE  Due(r)'
  BY JobsInvariant DEF DueOK, Due, Ended, Pending, JobsOK
<1>1. /\ r \notin dropped
      /\ \A f \in Finalizers : fin[f].run = r => ~FinalizeThrows(f)
  BY HistoryEffect DEF FinalizeThrows
<1>2. ASSUME StartFanOut, start'.step = IF start.ready = {} THEN "done" ELSE "fanOut", SameStart
      PROVE  Due(r)'
  <2>1. finalizeQ' = [finalizeQ EXCEPT ![r] = finalizeQ[r] + 1]
    BY <1>2 DEF StartFanOut, SameStart
  <2>2. finalizeQ[r] \in Nat /\ finalizeQ'[r] = finalizeQ[r] + 1
    BY <2>1 DEF TypeOK
  <2>3. QED
    BY <2>2 DEF Due
<1>3. ASSUME NEW s \in Source, FanOut(s), SameStart PROVE Due(r)'
  <2>1. ingest' = [ingest EXCEPT ![r][s] = [step |-> "waiting", attempt |-> 1]]
    BY <1>3 DEF FanOut, SameStart
  <2>2. ingest'[r][s].step = "waiting"
    BY <2>1 DEF TypeOK
  <2>3. QED
    BY <2>2 DEF Due, Pending
<1>4. ASSUME start' = start PROVE Due(r)'
  <2>1. start.step = "done" /\ start.run = r
    BY <1>4
  <2>2. CASE Ended(r)
    BY <2>2, EndedStays DEF Due
  <2>3. CASE finalizeQ[r] > 0
    <3>1. ASSUME NEW f \in Finalizers, FinalizeRead(f, r) PROVE Due(r)'
      <4>1. CASE AllTerminal(r)
        <5>1. fin'[f] = [run |-> r, row |-> Derive(r)]
          BY <3>1, <4>1 DEF FinalizeRead, TypeOK
        <5>2. QED
          BY <5>1 DEF Due
      <4>2. CASE ~AllTerminal(r)
        <5>1. PICK s \in Source : child[r][s].status = "running"
          BY <4>2 DEF AllTerminal, WithStatus, Children
        <5>2. Pending(r, s)
          BY <2>1, <5>1 DEF RunningOK
        <5>3. Pending(r, s)'
          BY <3>1, <5>2 DEF FinalizeRead, Pending
        <5>4. QED
          BY <5>3 DEF Due
      <4>3. QED
        BY <4>1, <4>2
    <3>2. finalizeQ[r] \in Nat
      BY DEF TypeOK
    <3>3. (\A f \in Finalizers : ~FinalizeRead(f, r)) => finalizeQ'[r] > 0
      BY <2>3, <3>2, QueueEffect, CrashEffect DEF QueueStep
    <3>4. QED
      BY <3>1, <3>3 DEF Due
  <2>4. ASSUME NEW f \in Finalizers, fin[f].run = r PROVE Due(r)'
    <3>1. CASE FinalizeWrite(f)
      BY <2>4, <3>1, EndedStays DEF Due
    <3>2. CASE Crash
      BY <2>4, <3>2, CrashEffect DEF Due
    <3>3. CASE ~FinalizeWrite(f) /\ ~Crash
      <4>1. fin[f] # NoResult
        BY <2>4, RunAssumption DEF NoResult
      <4>2. fin'[f] = fin[f]
        BY <1>1, <2>4, <3>3, <4>1, FinEffect DEF FinStep, FinalizeRead
      <4>3. QED
        BY <2>4, <4>2 DEF Due
    <3>4. QED
      BY <3>1, <3>2, <3>3
  <2>5. ASSUME NEW s \in Source, Pending(r, s) PROVE Due(r)'
    <3>1. CASE EnqueueFinalize(r, s)
      <4>1. finalizeQ' = [finalizeQ EXCEPT ![r] = finalizeQ[r] + 1]
        BY <3>1 DEF EnqueueFinalize
      <4>2. finalizeQ[r] \in Nat /\ finalizeQ'[r] = finalizeQ[r] + 1
        BY <4>1 DEF TypeOK
      <4>3. QED
        BY <4>2 DEF Due
    <3>2. CASE Pending(r, s)'
      BY <3>2 DEF Due
    <3>3. QED
      BY <2>5, <3>1, <3>2, PendingStays
  <2>6. QED
    BY <1>1, <2>1, <2>2, <2>3, <2>4, <2>5 DEF DueOK
<1>5. QED
  BY <1>2, <1>3, <1>4, StartEffect DEF StartChange

--------------------------------------------------------------------------------
(* The theorems.                                                           *)

IInv ==
  /\ TypeOK /\ JobsOK /\ OrderOK
  /\ InTimeOK /\ RunningOK /\ DueOK

(* Lemma: the invariant holds at the start.                                *)
LEMMA InitInvariant == ASSUME Init PROVE IInv
<1> USE DEF Init
<1>1. TypeOK
  <2>1. Absent \in ParentRow /\ Absent \in ChildRow
    BY DEF ParentRow, ChildRow
  <2>2. start \in StartRecord /\ NoIngest \in IngestRecord
    BY AttemptsAssumption DEF NewStart, NoIngest, StartRecord, IngestRecord, StartSteps, IngestSteps
  <2>3. QED
    BY <2>1, <2>2, BoundAssumption
       DEF TypeOK, StartRecord, IngestRecord, NoResult, NoSweep
<1>2. \A r \in RunId : Children(r) = {} /\ ~Began(r) /\ ~Ended(r) /\ start.run # r
  BY RunAssumption DEF Children, Began, Ended, Absent, NoIngest, NoResult, NewStart
<1>3. JobsOK
  BY DEF JobsOK, NewStart, NoSweep
<1>4. OrderOK
  BY <1>2 DEF OrderOK, FreshOK, CreatingOK, FanOutOK, CreatedOK, NewStart, NoIngest
<1>5. InTimeOK
  BY <1>2, RunAssumption DEF InTimeOK, NoResult
<1>6. RunningOK /\ DueOK
  BY <1>2 DEF RunningOK, DueOK, NewStart, NoIngest, Absent
<1>7. QED
  BY <1>1, <1>3, <1>4, <1>5, <1>6 DEF IInv

(* Lemma: and every step keeps it.                                         *)
LEMMA StepInvariant == ASSUME IInv, [Next]_vars PROVE IInv'
<1>1. OrderOK'
  BY FreshInvariant, CreatingInvariant, FanOutInvariant, CreatedInvariant DEF IInv, OrderOK
<1>2. QED
  BY <1>1, TypeInvariant, JobsInvariant, InTimeInvariant, RunningInvariant, DueInvariant DEF IInv

(* Theorem: the inductive invariant of a search holds for any number of    *)
(* runs, sources, finalizers, attempts and faults.                         *)
THEOREM Inductive == Spec => []IInv
<1>1. Init => IInv
  BY InitInvariant
<1>2. IInv /\ [Next]_vars => IInv'
  BY StepInvariant
<1>3. QED
  BY <1>1, <1>2, PTL DEF Spec

(* Theorem: the rows and the jobs of a search are well typed; in           *)
(* particular the sum of the counters stays within its bound.              *)
THEOREM TypeCorrect == Spec => []TypeOK
<1>1. IInv => TypeOK
  BY DEF IInv
<1>2. QED
  BY <1>1, Inductive, PTL

(* Theorem: a run within its time is reported only when it has a child for *)
(* every source with an adapter and none of them is running.               *)
THEOREM ReportedInTime == Spec => []NotReportedEarly
<1>1. IInv => NotReportedEarly
  BY DEF IInv, InTimeOK, Complete, NotReportedEarly
<1>2. QED
  BY <1>1, Inductive, PTL

(* Theorem: status and counters of an ended run are those of its children, *)
(* as long as each child was finished once and within the time (S1).       *)
THEOREM ParentIsDerived == Spec => []ParentReportsChildren
<1>1. ASSUME IInv, NEW r \in RunId \ (stale \cup rewritten), Ended(r) PROVE Reports(r)
  <2>1. parent[r] = Derive(r)
    BY <1>1 DEF IInv, InTimeOK
  <2>2. parent[r].status = StatusOf(r) /\ parent[r].found = FoundIn(r)
    BY <2>1 DEF Derive
  <2>3. Children(r) = {} => WithStatus(r, "failed") = {} /\ WithStatus(r, "completed") = {}
    BY DEF WithStatus
  <2>4. QED
    BY <2>2, <2>3 DEF Reports, StatusOf
<1>2. IInv => ParentReportsChildren
  BY <1>1 DEF ParentReportsChildren
<1>3. QED
  BY <1>2, Inductive, PTL

(* Theorem: no wakeup is lost: as long as no job of a run was given up, a  *)
(* run that is still running has a finalizer that waits or runs, an ingest *)
(* job that will enqueue one, or a search.run that goes on.                *)
THEOREM NoWakeupIsLost == Spec => []NoLostFinalization
<1>1. ASSUME IInv, NEW r \in RunId, parent[r].status = "running", ~GivenUp(r)
      PROVE  FinalizationDue(r)
  <2>1. ~Ended(r)
    BY <1>1 DEF Ended
  <2>2. /\ start.run = r /\ start.step # "lost" /\ r \notin dropped
        /\ \A s \in Source : ingest[r][s].step # "lost"
    BY <1>1 DEF GivenUp
  <2>3. start.step \in {"creating", "fanOut", "done"}
    BY <1>1, <2>2, RunAssumption DEF IInv, TypeOK, JobsOK, StartSteps
  <2>4. CASE start.step = "done"
    <3>1. Due(r)
      BY <1>1, <2>2, <2>4 DEF IInv, DueOK, Due
    <3>2. QED
      BY <2>1, <2>2, <3>1 DEF Due, FinalizationDue, Pending
  <2>5. QED
    BY <2>2, <2>3, <2>4 DEF FinalizationDue
<1>2. IInv => NoLostFinalization
  BY <1>1 DEF NoLostFinalization
<1>3. QED
  BY <1>2, Inductive, PTL

(* Theorem: what a source run ended with is changed only by the job of its *)
(* source or by the search.run that skips it, never by the watchdog (S2).  *)
THEOREM OthersKeepTheOutcome == Spec => OnlyItsJobRewrites
<1> DEFINE Kept ==
      \A r \in RunId, s \in Source :
        child[r][s].status \notin {"absent", "running"} /\ child'[r][s] # child[r][s]
        => ingest[r][s].step = "active" \/ (start.run = r /\ s \in start.skip)
<1>1. ASSUME IInv, [Next]_vars, NEW r \in RunId, NEW s \in Source,
             child[r][s].status \notin {"absent", "running"}, child'[r][s] # child[r][s]
      PROVE  ingest[r][s].step = "active" \/ (start.run = r /\ s \in start.skip)
  <2>1. ~(createSourceRun(s) /\ r = start.run)
    BY <1>1 DEF createSourceRun, IInv, OrderOK, CreatingOK, Children
  <2>2. QED
    BY <1>1, <2>1, ChildEffect DEF IInv, ChildStep, skipSourceRun, finishSourceRun
<1>2. IInv /\ [Next]_vars => Kept
  BY <1>1
<1> HIDE DEF Kept
<1>3. Spec => [][Kept]_vars
  BY <1>2, Inductive, PTL DEF Spec
<1>4. QED
  BY <1>3 DEF Kept, OnlyItsJobRewrites
================================================================================
