---------------------------- MODULE JobIngestProofs ----------------------------
(***************************************************************************)
(* What holds of JobIngest for every number of offers, jobs, workers and   *)
(* decisions under way, every similarity and both thresholds.              *)
(***************************************************************************)
EXTENDS JobIngest, TLAPS

(* An ingestion that is past the lookup carries a valid offer; the job it  *)
(* joins, and the candidate it will ask about, exist.                      *)
IngestionOK(i) ==
  /\ i.step # "idle" => i.offer \in Offers /\ i.offer.valid
  /\ i.step \in {"join", "attach", "filter"} => i.job \in Jobs /\ Exists(i.job)
  /\ i.candidate # None =>
       /\ i.step # "idle"
       /\ i.candidate \in Jobs /\ Exists(i.candidate)
       /\ Block[i.candidate] = Block[i.offer.job]

(* A review is about two jobs that exist.                                  *)
ReviewOK(k) ==
  review[k] # NoReview =>
    /\ Exists(k)
    /\ review[k].candidate \in Jobs /\ Exists(review[k].candidate)
    /\ review[k].decision # "none"

DeciderOK(u) ==
  decider[u] # NotDeciding => decider[u].job \in Jobs /\ review[decider[u].job] # NoReview

Basis ==
  /\ TypeOK
  /\ \A w \in Workers : IngestionOK(worker[w])
  /\ \A k \in Jobs : ReviewOK(k)
  /\ \A u \in Users : DeciderOK(u)

(* Lemma: what an offer is made of is no null value.                       *)
LEMMA OfferFields ==
  ASSUME NEW o \in Offers
  PROVE  /\ o.listing \in Listings /\ o.url \in Urls /\ o.job \in Jobs
         /\ o.target \in Targets \cup {None} /\ o # None
         /\ o.eligible \in BOOLEAN /\ o.valid \in BOOLEAN
         /\ o.listing # None /\ o.job # None
  BY OfferAssumption, NullAssumption

(* Lemma: the job an exact level finds exists.                             *)
LEMMA ExactExists ==
  ASSUME TypeOK, NEW o \in Offers, NEW k \in Exact(o)
  PROVE  k \in Jobs /\ Exists(k)
<1>1. CASE JobsOfUrl(o.url) # {}
  <2>1. PICK l \in Listings : listing[l].job # None /\ k = listing[l].job
    BY <1>1 DEF Exact, JobsOfUrl
  <2>2. listing[l] # NoListing /\ k \in Jobs
    BY <2>1 DEF NoListing, TypeOK, ListingRow
  <2> QED BY <2>1, <2>2 DEF TypeOK, HasJob
<1>2. CASE JobsOfUrl(o.url) = {}
  BY <1>2, OfferFields DEF Exact
<1> QED BY <1>1, <1>2

(* Lemma: a job that gets a target keeps its status.                       *)
LEMMA Retargeted ==
  ASSUME NEW r \in JobRow, NEW t \in Targets \cup {None}
  PROVE  [r EXCEPT !.target = t] \in JobRow /\ [r EXCEPT !.target = t].status = r.status
  BY DEF JobRow

(* Lemma: of the statuses, a merge changes that of the created job only.   *)
LEMMA MergeRows ==
  ASSUME Basis, NEW u \in Users, decideReview(u), Merge(u), NEW k \in Jobs
  PROVE  /\ decider[u].job \in Jobs /\ review[decider[u].job] # NoReview
         /\ review[decider[u].job].candidate \in Jobs
         /\ job'[k] \in JobRow
         /\ k = decider[u].job => job'[k].status = "archived"
         /\ k # decider[u].job => job'[k].status = job[k].status
<1>1. /\ decider[u].job \in Jobs /\ review[decider[u].job] # NoReview
      /\ review[decider[u].job].candidate \in Jobs
  BY DEF Basis, DeciderOK, ReviewOK, decideReview
<1> DEFINE d == decider[u]
           w == review[d.job].candidate
           promoted == IF d.winner.target = None /\ d.loser.target # None
                       THEN d.loser.target ELSE job[w].target
           one == [job EXCEPT ![w].mergedFrom = d.winner.mergedFrom \cup d.moved]
           two == [one EXCEPT ![w].target = promoted]
<1>2. /\ d \in Deciding /\ job \in [Jobs -> JobRow] /\ d.job \in Jobs /\ w \in Jobs
  BY <1>1 DEF Basis, TypeOK
<1>3. d.winner \in JobRow /\ d.loser \in JobRow /\ d.moved \subseteq Listings
  BY <1>2 DEF Deciding
<1>4. promoted \in Targets \cup {None}
  BY <1>2, <1>3 DEF JobRow
<1>5. one \in [Jobs -> JobRow] /\ \A j \in Jobs : one[j].status = job[j].status
  BY <1>2, <1>3 DEF JobRow
<1> HIDE DEF one, promoted
<1>6. two \in [Jobs -> JobRow] /\ \A j \in Jobs : two[j].status = job[j].status
  <2> DEFINE row == [one[w] EXCEPT !.target = promoted]
  <2>0. w \in Jobs /\ one[w] \in JobRow
    BY <1>2, <1>5
  <2>1. row \in JobRow /\ row.status = one[w].status
    BY <1>4, <2>0, Retargeted
  <2>2. two = [one EXCEPT ![w] = row]
    OBVIOUS
  <2> HIDE DEF row, two
  <2> QED BY <1>2, <1>5, <2>1, <2>2
<1>7. job' = [two EXCEPT ![d.job].status = "archived"]
  BY DEF Merge, Loser, one, promoted
<1> HIDE DEF two
<1>8. job' = [two EXCEPT ![d.job] = [two[d.job] EXCEPT !.status = "archived"]]
  BY <1>7
<1>9. CASE k = d.job
  <2>1. job'[k] = [two[k] EXCEPT !.status = "archived"]
    BY <1>6, <1>8, <1>9
  <2>2. two[k] \in JobRow
    BY <1>6
  <2> QED BY <1>1, <1>9, <2>1, <2>2 DEF JobRow, JobStatus
<1>10. CASE k # d.job
  BY <1>1, <1>6, <1>8, <1>10
<1> QED BY <1>9, <1>10

(* Lemma: attaching a listing to a job changes no status.                  *)
LEMMA AttachRows ==
  ASSUME Basis, NEW w \in Workers, Attach(w)
  PROVE  /\ worker[w].job \in Jobs /\ Offer(w) \in Offers /\ Offer(w).valid
         /\ Exists(worker[w].job)
         /\ \A k \in Jobs : job'[k] \in JobRow /\ job'[k].status = job[k].status
<1> DEFINE j == worker[w].job
           seen == worker[w].seen
           promoted == IF Offer(w).target # None /\ seen.target = None
                       THEN Offer(w).target ELSE job[j].target
<1>1. /\ j \in Jobs /\ Exists(j) /\ Offer(w) \in Offers /\ Offer(w).valid
      /\ seen \in JobRow /\ job \in [Jobs -> JobRow]
  BY DEF Basis, TypeOK, IngestionOK, Ingestion, Attach, At, Offer
<1>2. promoted \in Targets \cup {None} /\ seen.mergedFrom \cup {Offer(w).listing} \subseteq Listings
  BY <1>1, OfferFields DEF JobRow
<1>3. job' = [job EXCEPT ![j] = [@ EXCEPT !.target = promoted,
                                 !.mergedFrom = seen.mergedFrom \cup {Offer(w).listing}]]
  BY DEF Attach
<1> HIDE DEF promoted, seen, j
<1>5. ASSUME NEW k \in Jobs PROVE job'[k] \in JobRow /\ job'[k].status = job[k].status
  <2> DEFINE row == [job[k] EXCEPT !.target = promoted,
                                   !.mergedFrom = seen.mergedFrom \cup {Offer(w).listing}]
  <2>1. row \in JobRow /\ row.status = job[k].status
    BY <1>1, <1>2 DEF JobRow
  <2> QED BY <1>1, <1>3, <2>1
<1> QED BY <1>1, <1>5 DEF j

(* Lemma: a job, once created, exists for good.                            *)
LEMMA JobsStay ==
  ASSUME Basis, [Next]_vars, NEW k \in Jobs, Exists(k)
  PROVE  Exists(k)'
<1> USE DEF Basis, TypeOK, HasJob, Exists
<1>1. ASSUME NEW w \in Workers, Attach(w) PROVE Exists(k)'
  BY <1>1, AttachRows
<1>2. ASSUME NEW w \in Workers, Create(w) PROVE Exists(k)'
  BY <1>2 DEF Create
<1>3. ASSUME NEW w \in Workers, markJobRejected(w) PROVE Exists(k)'
  BY <1>3 DEF markJobRejected, JobRow
<1>4. ASSUME NEW u \in Users, decideReview(u) PROVE Exists(k)'
  <2>1. CASE Merge(u)
    BY <1>4, <2>1, MergeRows
  <2> QED BY <1>4, <2>1 DEF decideReview
<1>5. CASE UNCHANGED job
  BY <1>5
<1> QED
  BY <1>1, <1>2, <1>3, <1>4, <1>5
  DEF Next, vars, tables, insertQuarantine, KnownListing, Lookup, Fuzzy, ReadJob, Conflict,
      Recover, Crash, ReadReview

(* Lemma: what a step of one worker has to establish about the workers.    *)
LEMMA WorkerStep ==
  ASSUME Basis, NEW w \in Workers, NEW i \in Ingestion, worker' = [worker EXCEPT ![w] = i],
         \A k \in Jobs : Exists(k) => Exists(k)',
         IngestionOK(i)'
  PROVE  worker' \in [Workers -> Ingestion] /\ \A v \in Workers : IngestionOK(worker[v])'
<1>1. worker' \in [Workers -> Ingestion]
  BY DEF Basis, TypeOK
<1>2. ASSUME NEW v \in Workers PROVE IngestionOK(worker[v])'
  <2>1. CASE v = w
    BY <2>1 DEF Basis, TypeOK, IngestionOK
  <2>2. CASE v # w
    <3>1. worker'[v] = worker[v] /\ IngestionOK(worker[v])
      BY <2>2 DEF Basis, TypeOK
    <3> QED BY <3>1 DEF IngestionOK
  <2> QED BY <2>1, <2>2
<1> QED BY <1>1, <1>2

(* Lemma: the record of a worker between two offers, and after the writes. *)
LEMMA NextIngestion ==
  /\ NoJob \in JobRow /\ Idle \in Ingestion /\ IngestionOK(Idle) /\ IngestionOK(Idle)'
  /\ \A o \in Offers, k \in Jobs \cup {None}, step \in Step :
       [Idle EXCEPT !.step = step, !.offer = o, !.job = k] \in Ingestion
  BY DEF NoJob, JobRow, JobStatus, Idle, Ingestion, Step, InTransaction, IngestionOK

(* The listings part of TypeOK after a step, and the workers after one     *)
(* that ends the transaction of w with a listing of job k.                 *)
Listed == listing' \in [Listings -> ListingRow] /\ \A l \in Listings : HasJob(l)'
Filtering(w, k) ==
  worker' \in [Workers -> Ingestion] /\ \A v \in Workers : IngestionOK(worker[v])'

(* Lemma: a listing added to a job that exists leaves the listings typed.  *)
LEMMA ListingStep ==
  ASSUME Basis, NEW w \in Workers, NEW k \in Jobs, AddListing(w, k),
         Offer(w) \in Offers, Offer(w).valid, Exists(k)',
         \A j \in Jobs : Exists(j) => Exists(j)'
  PROVE  Listed
<1>1. Offer(w).listing \in Listings /\ k # None
  BY OfferFields, NullAssumption
<1>2. listing' = [listing EXCEPT ![Offer(w).listing] = [offer |-> Offer(w), job |-> k]]
  BY DEF AddListing
<1>3. listing' \in [Listings -> ListingRow]
  BY <1>1, <1>2 DEF Basis, TypeOK, ListingRow
<1>4. ASSUME NEW l \in Listings PROVE HasJob(l)'
  <2>1. CASE l = Offer(w).listing
    BY <1>1, <1>2, <2>1 DEF Basis, TypeOK, HasJob, Exists
  <2>2. CASE l # Offer(w).listing
    <3>1. listing'[l] = listing[l] /\ HasJob(l) /\ listing[l] \in ListingRow
      BY <1>2, <2>2 DEF Basis, TypeOK
    <3> QED BY <3>1 DEF HasJob, Exists, ListingRow
  <2> QED BY <2>1, <2>2
<1> QED BY <1>3, <1>4 DEF Listed

(* Lemma: a worker whose writes are committed goes on to the filters.      *)
LEMMA FilterStep ==
  ASSUME Basis, NEW w \in Workers, NEW k \in Jobs, Proceed(w, Offer(w), "filter", k),
         Offer(w) \in Offers, Offer(w).valid, Exists(k)',
         \A j \in Jobs : Exists(j) => Exists(j)'
  PROVE  Filtering(w, k)
<1>1. PICK i \in Ingestion :
        i = [Idle EXCEPT !.step = "filter", !.offer = Offer(w), !.job = k]
  BY NextIngestion DEF Step
<1>2. IngestionOK(i)'
  BY <1>1 DEF IngestionOK, Idle
<1> QED BY <1>1, <1>2, WorkerStep DEF Proceed, Filtering

(* TypeOK: rows and processes keep their types, and a listing belongs to a *)
(* job that exists exactly when it was not quarantined.                    *)
THEOREM BasisHolds == Spec => []Basis
<1>1. Init => Basis
  BY NullAssumption, BoundAssumption
  DEF Init, Basis, TypeOK, JobRow, NoJob, JobStatus, ListingRow, NoListing, ReviewRow, NoReview,
      Ingestion, Idle, Step, Deciding, NotDeciding, Decision, IngestionOK, ReviewOK, DeciderOK, At, HasJob
<1>2. Basis /\ [Next]_vars => Basis'
  <2> SUFFICES ASSUME Basis, [Next]_vars PROVE Basis'
    OBVIOUS
  <2> USE DEF Basis
  <2>0. \A k \in Jobs : Exists(k) => Exists(k)'
    BY JobsStay
  <2>1. ASSUME NEW w \in Workers, NEW o \in Offers, insertQuarantine(w, o) PROVE Basis'
    BY <2>0, <2>1, OfferFields
    DEF TypeOK, HasJob, IngestionOK, ReviewOK, DeciderOK, At, Offer, Exists, insertQuarantine, Quarantined,
        ListingRow, NoListing
  <2>2. ASSUME NEW w \in Workers, NEW o \in Offers, KnownListing(w, o) PROVE Basis'
    BY <2>2, OfferFields
    DEF TypeOK, HasJob, IngestionOK, ReviewOK, DeciderOK, At, Offer, Exists, KnownListing, upsertTarget
  <2>3. ASSUME NEW w \in Workers, NEW o \in Offers, Lookup(w, o) PROVE Basis'
    <3>1. PICK k \in Jobs \cup {None}, step \in {"join", "fuzzy"} :
            Proceed(w, o, step, k) /\ (step = "join" => k \in Jobs /\ Exists(k))
      BY <2>3, ExactExists DEF Lookup
    <3> DEFINE i == [Idle EXCEPT !.step = step, !.offer = o, !.job = k]
    <3>2. i \in Ingestion
      BY NextIngestion DEF Step, InTransaction
    <3>3. IngestionOK(i)'
      BY <2>0, <2>3, <3>1 DEF IngestionOK, Idle, Lookup
    <3>4. worker' \in [Workers -> Ingestion] /\ \A v \in Workers : IngestionOK(worker[v])'
      BY <2>0, <3>1, <3>2, <3>3, WorkerStep DEF Proceed
    <3> QED
      BY <2>3, <3>4, OfferFields
      DEF TypeOK, HasJob, Lookup, upsertTarget, Exists, ReviewOK, DeciderOK
  <2>4. ASSUME NEW w \in Workers, Fuzzy(w) PROVE Basis'
    <3>0. worker[w] \in Ingestion /\ IngestionOK(worker[w]) /\ Offer(w) \in Offers
      BY <2>4 DEF TypeOK, IngestionOK, Fuzzy, At, Offer
    <3>1. PICK step \in {"join", "create"}, k \in Jobs, asked \in Jobs \cup {None} :
            /\ worker' = [worker EXCEPT ![w] =
                            [worker[w] EXCEPT !.step = step, !.job = k,
                                              !.candidate = asked, !.blocked = TRUE]]
            /\ step = "join" => Exists(k)
            /\ asked # None => Exists(asked) /\ Block[asked] = Block[Offer(w).job]
      <4> DEFINE GoTo(step, k, asked) ==
                   worker' = [worker EXCEPT ![w] =
                                [worker[w] EXCEPT !.step = step, !.job = k,
                                                  !.candidate = asked, !.blocked = TRUE]]
      <4>1. \A c \in MostAlike(Offer(w).job) :
              c \in Jobs /\ Exists(c) /\ Block[c] = Block[Offer(w).job]
        BY DEF MostAlike, Candidates, InCatalogue, Exists
      <4>2. \/ GoTo("create", Offer(w).job, None)
            \/ \E c \in MostAlike(Offer(w).job) :
                 GoTo("join", c, None) \/ GoTo("create", Offer(w).job, c)
        BY <2>4 DEF Fuzzy
      <4> HIDE DEF GoTo
      <4>3. \E step \in {"join", "create"}, k \in Jobs, asked \in Jobs \cup {None} :
              /\ GoTo(step, k, asked)
              /\ step = "join" => Exists(k)
              /\ asked # None => Exists(asked) /\ Block[asked] = Block[Offer(w).job]
        BY <3>0, <4>1, <4>2, OfferFields
      <4> QED BY <4>3 DEF GoTo
    <3>2. PICK i \in Ingestion : i = [worker[w] EXCEPT !.step = step, !.job = k,
                                                      !.candidate = asked, !.blocked = TRUE]
      BY <3>0 DEF Ingestion, Step, InTransaction
    <3>3. IngestionOK(i)'
      <4>1. /\ i.step = step /\ i.job = k /\ i.candidate = asked /\ i.offer = Offer(w)
            /\ Offer(w).valid
        BY <2>4, <3>0, <3>2 DEF Ingestion, Offer, IngestionOK, Fuzzy, At
      <4> QED BY <2>0, <3>0, <3>1, <4>1 DEF IngestionOK
    <3>4. worker' \in [Workers -> Ingestion] /\ \A v \in Workers : IngestionOK(worker[v])'
      BY <2>0, <3>1, <3>2, <3>3, WorkerStep
    <3>5. UNCHANGED <<job, listing, review, targets, decider, crashes>>
      BY <2>4 DEF Fuzzy, tables
    <3> QED BY <3>4, <3>5 DEF TypeOK, HasJob, Exists, ReviewOK, DeciderOK
  <2>5. ASSUME NEW w \in Workers, ReadJob(w) PROVE Basis'
    <3>1. /\ worker[w] \in Ingestion /\ IngestionOK(worker[w]) /\ worker[w].step = "join"
          /\ worker[w].job \in Jobs /\ job[worker[w].job] \in JobRow
      BY <2>5 DEF ReadJob, IngestionOK, At, TypeOK
    <3>2. PICK i \in Ingestion :
            i = [worker[w] EXCEPT !.step = "attach", !.seen = job[worker[w].job]]
      BY <3>1 DEF Ingestion, Step, InTransaction
    <3>3. IngestionOK(i)'
      <4>1. /\ i.step = "attach" /\ i.job = worker[w].job
            /\ i.candidate = worker[w].candidate /\ i.offer = worker[w].offer
        BY <3>1, <3>2 DEF Ingestion
      <4> QED BY <2>0, <3>1, <4>1 DEF IngestionOK
    <3>4. worker' \in [Workers -> Ingestion] /\ \A v \in Workers : IngestionOK(worker[v])'
      BY <2>0, <2>5, <3>2, <3>3, WorkerStep DEF ReadJob
    <3>5. UNCHANGED <<job, listing, review, targets, decider, crashes>>
      BY <2>5 DEF ReadJob, tables
    <3> QED BY <3>4, <3>5 DEF TypeOK, HasJob, Exists, ReviewOK, DeciderOK
  <2>6. ASSUME NEW w \in Workers, Conflict(w) PROVE Basis'
    <3>1. Offer(w) \in Offers /\ Offer(w).valid
      BY <2>6 DEF Conflict, IngestionOK, At, Offer
    <3>2. PICK i \in Ingestion :
            i = [Idle EXCEPT !.step = "recover", !.offer = Offer(w), !.job = None]
      BY <3>1, NextIngestion DEF Step
    <3>3. IngestionOK(i)'
      BY <3>1, <3>2 DEF IngestionOK, Idle
    <3>4. worker' \in [Workers -> Ingestion] /\ \A v \in Workers : IngestionOK(worker[v])'
      BY <2>0, <2>6, <3>2, <3>3, WorkerStep DEF Conflict, Proceed
    <3>5. UNCHANGED <<job, listing, review, targets, decider, crashes>>
      BY <2>6 DEF Conflict, tables
    <3> QED BY <3>4, <3>5 DEF TypeOK, HasJob, Exists, ReviewOK, DeciderOK
  <2>7. ASSUME NEW w \in Workers, Attach(w) PROVE Basis'
    <3>1. /\ worker[w].job \in Jobs /\ Offer(w) \in Offers /\ Offer(w).valid
          /\ Exists(worker[w].job)
      BY <2>7, AttachRows
    <3>2. job' \in [Jobs -> JobRow]
      <4>1. \A k \in Jobs : job'[k] \in JobRow
        BY <2>7, AttachRows
      <4>2. job' = [k \in Jobs |-> job'[k]]
        BY <2>7 DEF Attach, TypeOK
      <4> QED BY <4>1, <4>2
    <3>3. Filtering(w, worker[w].job)
      BY <2>0, <2>7, <3>1, FilterStep DEF Attach
    <3>4. Listed
      BY <2>0, <2>7, <3>1, ListingStep DEF Attach
    <3> QED
      BY <2>0, <2>7, <3>2, <3>3, <3>4
      DEF Filtering, Listed, TypeOK, ReviewOK, DeciderOK, Attach, Exists
  <2>8. ASSUME NEW w \in Workers, Create(w) PROVE Basis'
    <3>1. /\ worker[w] \in Ingestion /\ IngestionOK(worker[w]) /\ worker[w].step = "create"
          /\ Offer(w) \in Offers /\ Offer(w).valid
      BY <2>8 DEF Create, IngestionOK, At, Offer, TypeOK
    <3>0. PICK k \in Jobs : k = Offer(w).job
      BY <3>1, OfferFields
    <3> DEFINE new == [status |-> "active", target |-> Offer(w).target,
                       primary |-> Offer(w).listing, mergedFrom |-> {}]
    <3>2. new \in JobRow
      BY <3>1, OfferFields DEF JobRow, JobStatus
    <3>3. job' = [job EXCEPT ![k] = new]
      BY <2>8, <3>0 DEF Create
    <3>4. job' \in [Jobs -> JobRow] /\ Exists(k)'
      BY <3>2, <3>3 DEF TypeOK, Exists
    <3>5. Filtering(w, k)
      BY <2>0, <2>8, <3>1, <3>2, <3>4, <3>0, FilterStep DEF Create
    <3>6. Listed
      BY <2>0, <2>8, <3>1, <3>2, <3>4, <3>0, ListingStep DEF Create
    <3>7. PICK r \in ReviewRow :
            /\ review' = [review EXCEPT ![k] = r]
            /\ r # NoReview => /\ r.candidate \in Jobs /\ Exists(r.candidate)
                               /\ r.decision # "none"
      <4>1. CASE worker[w].candidate = None
        BY <2>8, <3>0, <4>1 DEF Create, ReviewRow, NoReview
      <4>2. CASE worker[w].candidate # None
        <5> DEFINE r == [candidate |-> worker[w].candidate, decision |-> "pending"]
        <5>1. worker[w].candidate \in Jobs /\ Exists(worker[w].candidate)
          BY <3>1, <4>2 DEF IngestionOK
        <5>2. review' = [review EXCEPT ![k] = r]
          BY <2>8, <3>0, <4>2 DEF Create
        <5>3. r \in ReviewRow /\ r.candidate = worker[w].candidate /\ r.decision # "none"
          BY <5>1 DEF ReviewRow
        <5> HIDE DEF r
        <5> QED BY <5>1, <5>2, <5>3
      <4> QED BY <4>1, <4>2
    <3>8. review' \in [Jobs -> ReviewRow] /\ \A j \in Jobs : ReviewOK(j)'
      <4>1. review' \in [Jobs -> ReviewRow]
        BY <3>2, <3>7 DEF TypeOK
      <4>2. ASSUME NEW j \in Jobs PROVE ReviewOK(j)'
        <5>1. CASE j = k
          BY <2>0, <3>4, <3>7, <5>1 DEF TypeOK, ReviewOK, Exists
        <5>2. CASE j # k
          BY <2>0, <3>2, <3>7, <5>2 DEF TypeOK, ReviewOK
        <5> QED BY <5>1, <5>2
      <4> QED BY <4>1, <4>2
    <3>9. \A u \in Users : DeciderOK(u)'
      <4> SUFFICES ASSUME NEW u \in Users, decider[u] # NotDeciding
                   PROVE decider[u].job \in Jobs /\ review'[decider[u].job] # NoReview
        BY <2>8 DEF Create, DeciderOK
      <4>1. decider[u].job \in Jobs /\ review[decider[u].job] # NoReview
        BY DEF DeciderOK
      <4>2. decider[u].job # k
        BY <2>8, <3>0, <4>1 DEF ReviewOK, Create
      <4> QED BY <3>2, <3>7, <4>1, <4>2 DEF TypeOK
    <3> HIDE DEF new
    <3> QED
      BY <2>8, <3>4, <3>5, <3>6, <3>8, <3>9 DEF Filtering, Listed, TypeOK, Create
  <2>9. ASSUME NEW w \in Workers, Recover(w) PROVE Basis'
    <3>1. Offer(w) \in Offers /\ Offer(w).valid /\ Offer(w).job \in Jobs
      BY <2>9, OfferFields DEF Recover, IngestionOK, At, Offer
    <3>2. CASE worker' = [worker EXCEPT ![w] = Idle] /\ UNCHANGED listing
      <4>1. worker' \in [Workers -> Ingestion] /\ \A v \in Workers : IngestionOK(worker[v])'
        BY <2>0, <3>2, NextIngestion, WorkerStep
      <4> QED BY <2>9, <3>2, <4>1 DEF TypeOK, HasJob, Exists, ReviewOK, DeciderOK, Recover
    <3>3. CASE /\ Exists(Offer(w).job) /\ AddListing(w, Offer(w).job)
               /\ Proceed(w, Offer(w), "filter", Offer(w).job)
      <4>1. Filtering(w, Offer(w).job)
        BY <2>0, <3>1, <3>3, FilterStep
      <4>2. Listed
        BY <2>0, <3>1, <3>3, ListingStep
      <4> QED
        BY <2>9, <4>1, <4>2 DEF Filtering, Listed, TypeOK, HasJob, Exists, ReviewOK, DeciderOK, Recover
    <3> QED BY <2>9, <3>2, <3>3 DEF Recover
  <2>10. ASSUME NEW w \in Workers, markJobRejected(w) PROVE Basis'
    <3>1. worker' \in [Workers -> Ingestion] /\ \A v \in Workers : IngestionOK(worker[v])'
      BY <2>0, <2>10, NextIngestion, WorkerStep DEF markJobRejected
    <3>2. job' \in [Jobs -> JobRow]
      <4> DEFINE k == worker[w].job
      <4>1. k \in Jobs
        BY <2>10 DEF markJobRejected, IngestionOK, At
      <4>2. \/ job' = [job EXCEPT ![k].status = "rejected"]
            \/ job' = job
        BY <2>10 DEF markJobRejected
      <4> HIDE DEF k
      <4>3. CASE job' = [job EXCEPT ![k] = [job[k] EXCEPT !.status = "rejected"]]
        <5>1. job[k] \in JobRow
          BY <4>1 DEF TypeOK
        <5>2. [job[k] EXCEPT !.status = "rejected"] \in JobRow
          BY <5>1 DEF JobRow, JobStatus
        <5> QED BY <4>1, <4>3, <5>2 DEF TypeOK
      <4> QED BY <4>2, <4>3 DEF TypeOK
    <3>3. UNCHANGED <<listing, review, targets, decider, crashes>>
      BY <2>10 DEF markJobRejected
    <3>4. \A l \in Listings : HasJob(l)'
      BY <2>0, <3>3 DEF TypeOK, HasJob, ListingRow, Exists
    <3> QED BY <2>0, <3>1, <3>2, <3>3, <3>4 DEF TypeOK, ReviewOK, DeciderOK, Exists
  <2>11. ASSUME NEW w \in Workers, Crash(w) PROVE Basis'
    <3>1. worker' \in [Workers -> Ingestion] /\ \A v \in Workers : IngestionOK(worker[v])'
      BY <2>0, <2>11, NextIngestion, WorkerStep DEF Crash
    <3>2. crashes' \in 0..MaxCrashes
      BY <2>11, BoundAssumption DEF Crash, TypeOK
    <3>3. UNCHANGED <<job, listing, review, targets, decider>>
      BY <2>11 DEF Crash, tables
    <3> QED BY <3>1, <3>2, <3>3 DEF TypeOK, HasJob, Exists, ReviewOK, DeciderOK
  <2>12. ASSUME NEW u \in Users, NEW k \in Jobs, NEW d \in Decision, ReadReview(u, k, d)
         PROVE Basis'
    <3>1. review[k] # NoReview /\ review[k].candidate \in Jobs
      BY <2>12 DEF ReadReview, NoReview, ReviewOK
    <3> DEFINE n == [job |-> k, decision |-> d, winner |-> job[review[k].candidate],
                     loser |-> job[k], moved |-> ListingsOf(k)]
    <3>2. n \in Deciding /\ decider' = [decider EXCEPT ![u] = n]
      BY <2>12, <3>1 DEF ReadReview, Deciding, ListingsOf, TypeOK
    <3>3. decider' \in [Users -> Deciding] /\ \A v \in Users : v # u => decider'[v] = decider[v]
      BY <3>2 DEF TypeOK
    <3>4. decider'[u].job = k
      BY <3>2 DEF TypeOK
    <3>5. UNCHANGED <<job, listing, review, targets, worker, crashes>>
      BY <2>12 DEF ReadReview, tables
    <3>6. \A v \in Users : DeciderOK(v)'
      BY <3>1, <3>3, <3>4, <3>5 DEF DeciderOK
    <3> HIDE DEF n
    <3> QED BY <3>3, <3>5, <3>6 DEF TypeOK, HasJob, Exists, ReviewOK, IngestionOK
  <2>13. ASSUME NEW u \in Users, decideReview(u) PROVE Basis'
    <3>1. /\ decider[u].job \in Jobs /\ review[decider[u].job] # NoReview
          /\ decider[u].decision \in Decision
          /\ review[decider[u].job].candidate \in Jobs
          /\ Exists(review[decider[u].job].candidate)
      BY <2>13 DEF decideReview, DeciderOK, ReviewOK, TypeOK, Deciding
    <3>2. job' \in [Jobs -> JobRow]
      <4>1. CASE Merge(u)
        <5>1. \A k \in Jobs : job'[k] \in JobRow
          BY <2>13, <4>1, MergeRows
        <5>2. job' = [k \in Jobs |-> job'[k]]
          BY <4>1 DEF Merge, Loser, TypeOK
        <5> QED BY <5>1, <5>2
      <4> QED BY <2>13, <4>1 DEF decideReview, TypeOK
    <3>3. Listed
      <4>1. CASE Merge(u)
        <5>0. PICK x \in Jobs : x = review[decider[u].job].candidate
          BY <3>1
        <5>1. listing' = [l \in Listings |->
                            IF listing[l].job = decider[u].job THEN [listing[l] EXCEPT !.job = x]
                            ELSE listing[l]]
          BY <4>1, <5>0 DEF Merge, Loser
        <5>2. Exists(x)' /\ decider[u].job # None /\ x # None
          BY <2>0, <3>1, <5>0, NullAssumption
        <5>3. ASSUME NEW l \in Listings, listing[l].job = decider[u].job
              PROVE  /\ listing'[l] \in ListingRow /\ listing[l] # NoListing
                     /\ listing'[l].offer = listing[l].offer /\ listing'[l].job = x
          BY <5>1, <5>2, <5>3 DEF TypeOK, ListingRow, NoListing
        <5>4. \A l \in Listings : listing[l].job # decider[u].job => listing'[l] = listing[l]
          BY <5>1
        <5>5. listing' \in [Listings -> ListingRow]
          BY <5>1, <5>3, <5>4 DEF TypeOK
        <5>6. ASSUME NEW l \in Listings PROVE HasJob(l)'
          <6>1. CASE listing[l].job = decider[u].job
            <7>1. /\ listing'[l].job = x /\ listing'[l].offer = listing[l].offer
                  /\ listing[l].offer.valid
              BY <5>2, <5>3, <6>1 DEF TypeOK, HasJob
            <7> QED BY <5>2, <7>1 DEF HasJob, Exists
          <6>2. CASE listing[l].job # decider[u].job
            <7>1. listing'[l] = listing[l] /\ HasJob(l) /\ listing[l] \in ListingRow
              BY <5>4, <6>2 DEF TypeOK
            <7> QED BY <2>0, <7>1 DEF HasJob, Exists, ListingRow
          <6> QED BY <6>1, <6>2
        <5> QED BY <5>5, <5>6 DEF Listed
      <4>2. CASE UNCHANGED <<job, listing>>
        BY <4>2 DEF Listed, TypeOK, HasJob, Exists
      <4> QED BY <2>13, <4>1, <4>2 DEF decideReview
    <3>4. review' \in [Jobs -> ReviewRow] /\ \A k \in Jobs : ReviewOK(k)'
      <4>1. review' = [review EXCEPT ![decider[u].job].decision = decider[u].decision]
        BY <2>13 DEF decideReview
      <4>2. review' \in [Jobs -> ReviewRow]
        BY <3>1, <4>1 DEF TypeOK, ReviewRow
      <4>3. \A k \in Jobs : /\ review'[k].candidate = review[k].candidate
                            /\ k # decider[u].job => review'[k] = review[k]
        BY <3>1, <4>1 DEF TypeOK, ReviewRow
      <4>4. review'[decider[u].job].decision \in Decision
        BY <3>1, <4>1 DEF TypeOK, ReviewRow
      <4> QED BY <2>0, <3>1, <4>2, <4>3, <4>4 DEF ReviewOK, Decision
    <3>5. decider' \in [Users -> Deciding] /\ \A v \in Users : DeciderOK(v)'
      <4>1. \A k \in Jobs : review[k] # NoReview => review'[k] # NoReview
        BY <2>13, <3>1 DEF decideReview, TypeOK, ReviewRow, NoReview, Decision
      <4>2. NotDeciding \in Deciding
        BY DEF NotDeciding, Deciding, Decision, NoJob, JobRow, JobStatus
      <4> QED BY <2>13, <4>1, <4>2 DEF decideReview, DeciderOK, TypeOK
    <3>6. \A v \in Workers : IngestionOK(worker[v])'
      BY <2>0, <2>13 DEF decideReview, IngestionOK, TypeOK, Ingestion
    <3> QED BY <2>13, <3>2, <3>3, <3>4, <3>5, <3>6 DEF Listed, TypeOK, decideReview
  <2>14. CASE UNCHANGED vars
    BY <2>14
    DEF vars, tables, TypeOK, HasJob, IngestionOK, ReviewOK, DeciderOK, At, Offer, Exists
  <2> QED
    BY <2>1, <2>2, <2>3, <2>4, <2>5, <2>6, <2>7, <2>8, <2>9, <2>10, <2>11, <2>12, <2>13, <2>14
    DEF Next
<1> QED BY <1>1, <1>2, PTL DEF Spec

(* TypeOK, of which J1 is a part: a listing belongs to a job that exists   *)
(* exactly when it was not quarantined.                                    *)
THEOREM TypeCorrect == Spec => []TypeOK
<1>1. Basis => TypeOK
  BY DEF Basis
<1> QED BY <1>1, BasisHolds, PTL

--------------------------------------------------------------------------------
(* No twins, and no gray zone passed over *)

(* A worker about to create a job is alone in its block, and has seen how  *)
(* much each active job of the block resembles its own.                    *)
CreatorOK(w) ==
  At(w, "create") =>
    /\ worker[w].blocked
    /\ \A v \in Workers :
         At(v, "create") /\ Block[Offer(v).job] = Block[Offer(w).job] => v = w
    /\ \A j \in Jobs :
         job[j].status = "active" /\ Block[j] = Block[Offer(w).job] =>
           /\ Score[Offer(w).job][j] < High
           /\ Score[Offer(w).job][j] >= Medium => worker[w].candidate # None

Separation ==
  /\ \A w \in Workers : CreatorOK(w)
  /\ NoTwins
  /\ GrayZoneAsked

(* Lemma: only a creation makes a job active.                              *)
LEMMA ActiveJobs ==
  ASSUME Basis, [Next]_vars, NEW k \in Jobs, job'[k].status = "active"
  PROVE  \/ job[k].status = "active"
         \/ \E w \in Workers : Create(w) /\ k = Offer(w).job
<1>1. ASSUME NEW w \in Workers, Attach(w) PROVE job[k].status = "active"
  BY <1>1, AttachRows
<1>2. ASSUME NEW w \in Workers, Create(w), k # Offer(w).job PROVE job[k].status = "active"
  BY <1>2 DEF Create, Basis, TypeOK
<1>3. ASSUME NEW w \in Workers, markJobRejected(w) PROVE job[k].status = "active"
  BY <1>3 DEF markJobRejected, Basis, TypeOK, JobRow
<1>4. ASSUME NEW u \in Users, decideReview(u) PROVE job[k].status = "active"
  <2>1. CASE Merge(u)
    BY <1>4, <2>1, MergeRows
  <2> QED BY <1>4, <2>1 DEF decideReview
<1>5. CASE UNCHANGED job
  BY <1>5
<1> QED
  BY <1>1, <1>2, <1>3, <1>4, <1>5
  DEF Next, vars, tables, insertQuarantine, KnownListing, Lookup, Fuzzy, ReadJob, Conflict,
      Recover, Crash, ReadReview

(* Lemma: a job keeps its review, and a job created with a candidate gets  *)
(* one.                                                                    *)
LEMMA ReviewsStay ==
  ASSUME Basis, [Next]_vars, NEW k \in Jobs, review[k] # NoReview
  PROVE  review'[k] # NoReview
<1>1. ASSUME NEW w \in Workers, Create(w) PROVE review'[k] # NoReview
  <2>1. k # Offer(w).job
    BY <1>1 DEF Basis, ReviewOK, Create
  <2> QED BY <1>1, <2>1 DEF Create, Basis, TypeOK
<1>2. ASSUME NEW u \in Users, decideReview(u) PROVE review'[k] # NoReview
  <2>1. decider[u].decision \in Decision
    BY DEF Basis, TypeOK, Deciding
  <2> QED BY <1>2, <2>1 DEF decideReview, Basis, TypeOK, ReviewRow, NoReview, Decision
<1>3. CASE UNCHANGED review
  BY <1>3
<1> QED
  BY <1>1, <1>2, <1>3
  DEF Next, vars, tables, insertQuarantine, KnownListing, Lookup, Fuzzy, ReadJob, Conflict,
      Attach, Recover, markJobRejected, Crash, ReadReview

(* Lemma: a worker gets to create by the fuzzy level only.                 *)
LEMMA Creators ==
  ASSUME Basis, [Next]_vars, NEW w \in Workers, At(w, "create")'
  PROVE  (At(w, "create") /\ worker'[w] = worker[w]) \/ Fuzzy(w)
<1>0. ASSUME NEW v \in Workers, NEW o, NEW step, NEW k, Proceed(v, o, step, k), step # "create"
      PROVE At(w, "create") /\ worker'[w] = worker[w]
  <2>1. [Idle EXCEPT !.step = step, !.offer = o, !.job = k].step = step
    BY DEF Idle
  <2>2. CASE w = v
    BY <1>0, <2>1, <2>2 DEF Proceed, At, Basis, TypeOK
  <2>3. CASE w # v
    BY <1>0, <2>3 DEF Proceed, At, Basis, TypeOK
  <2> QED BY <2>2, <2>3
<1>1. ASSUME NEW v \in Workers, NEW o \in Offers, Lookup(v, o)
      PROVE At(w, "create") /\ worker'[w] = worker[w]
  BY <1>0, <1>1 DEF Lookup
<1>2. ASSUME NEW v \in Workers, Fuzzy(v), v # w
      PROVE At(w, "create") /\ worker'[w] = worker[w]
  BY <1>2 DEF Fuzzy, At, Basis, TypeOK
<1>3. ASSUME NEW v \in Workers, ReadJob(v)
      PROVE At(w, "create") /\ worker'[w] = worker[w]
  BY <1>3 DEF ReadJob, At, Basis, TypeOK, Ingestion
<1>4. ASSUME NEW v \in Workers,
             Conflict(v) \/ Attach(v) \/ Create(v) \/ Recover(v) \/ markJobRejected(v) \/ Crash(v)
      PROVE At(w, "create") /\ worker'[w] = worker[w]
  <2>1. CASE Conflict(v) \/ Attach(v) \/ Create(v)
    BY <1>0, <2>1 DEF Conflict, Attach, Create
  <2>2. CASE worker' = [worker EXCEPT ![v] = Idle]
    BY <2>2 DEF Idle, At, Basis, TypeOK
  <2> QED BY <1>0, <1>4, <2>1, <2>2 DEF Recover, markJobRejected, Crash
<1>5. CASE UNCHANGED worker
  BY <1>5 DEF At
<1> QED
  BY <1>1, <1>2, <1>3, <1>4, <1>5
  DEF Next, vars, insertQuarantine, KnownListing, ReadReview, decideReview

(* Lemma: the fuzzy level locks the block and keeps the offer.             *)
LEMMA FuzzyKeeps ==
  ASSUME Basis, NEW w \in Workers, Fuzzy(w)
  PROVE  worker'[w].blocked /\ worker'[w].offer = worker[w].offer
<1>1. PICK step, k, asked :
        worker' = [worker EXCEPT ![w] = [worker[w] EXCEPT !.step = step, !.job = k,
                                                        !.candidate = asked, !.blocked = TRUE]]
  BY DEF Fuzzy
<1>2. worker[w] \in Ingestion
  BY DEF Basis, TypeOK
<1> DEFINE i == [worker[w] EXCEPT !.step = step, !.job = k, !.candidate = asked, !.blocked = TRUE]
<1>3. i.blocked /\ i.offer = worker[w].offer
  BY <1>2 DEF Ingestion
<1>4. worker'[w] = i
  BY <1>1 DEF Basis, TypeOK
<1> HIDE DEF i
<1> QED BY <1>3, <1>4

(* Lemma: the ways from the fuzzy level to a creation.                     *)
LEMMA FuzzyCreates ==
  ASSUME Basis, NEW w \in Workers, Fuzzy(w), At(w, "create")'
  PROVE  LET k == Offer(w).job IN
           \/ Candidates(k) = {} /\ worker'[w].candidate = None
           \/ \E c \in MostAlike(k) :
                \/ resolveFuzzyDecision(Score[k][c]) = "review" /\ worker'[w].candidate = c
                \/ resolveFuzzyDecision(Score[k][c]) = "distinct" /\ worker'[w].candidate = None
<1> DEFINE k == Offer(w).job
           To(step, joined, asked) ==
             [worker[w] EXCEPT !.step = step, !.job = joined, !.candidate = asked,
                               !.blocked = TRUE]
<1>1. worker[w] \in Ingestion /\ worker \in [Workers -> Ingestion]
  BY DEF Basis, TypeOK
<1>2. \A step, joined, asked : To(step, joined, asked).step = step
                              /\ To(step, joined, asked).candidate = asked
  BY <1>1 DEF Ingestion
<1>3. \A i : worker' = [worker EXCEPT ![w] = i] => worker'[w] = i
  BY <1>1
<1>4. \/ Candidates(k) = {} /\ worker' = [worker EXCEPT ![w] = To("create", k, None)]
      \/ \E c \in MostAlike(k) :
           \/ worker' = [worker EXCEPT ![w] = To("join", c, None)]
           \/ /\ resolveFuzzyDecision(Score[k][c]) = "review"
              /\ worker' = [worker EXCEPT ![w] = To("create", k, c)]
           \/ /\ resolveFuzzyDecision(Score[k][c]) = "distinct"
              /\ worker' = [worker EXCEPT ![w] = To("create", k, None)]
  BY DEF Fuzzy
<1> HIDE DEF To, k
<1>5. worker'[w].step = "create"
  BY DEF At
<1>6. \/ Candidates(k) = {} /\ worker'[w].candidate = None
      \/ \E c \in MostAlike(k) :
           \/ resolveFuzzyDecision(Score[k][c]) = "review" /\ worker'[w].candidate = c
           \/ resolveFuzzyDecision(Score[k][c]) = "distinct" /\ worker'[w].candidate = None
  BY <1>2, <1>3, <1>4, <1>5
<1> QED BY <1>6 DEF k

(* Lemma: what the fuzzy level has seen when it goes on to create.         *)
LEMMA FuzzySees ==
  ASSUME Basis, NEW w \in Workers, Fuzzy(w), At(w, "create")', NEW j \in Jobs,
         job[j].status = "active", Block[j] = Block[Offer(w).job]
  PROVE  /\ Score[Offer(w).job][j] < High
         /\ Score[Offer(w).job][j] >= Medium => worker'[w].candidate # None
<1>0. PICK k \in Jobs : k = Offer(w).job
  BY OfferFields DEF Basis, IngestionOK, Fuzzy, At, Offer
<1>1. j \in Candidates(k)
  BY <1>0 DEF Candidates, InCatalogue
<1>2. PICK c \in MostAlike(k) :
        \/ /\ resolveFuzzyDecision(Score[k][c]) = "review"
           /\ worker'[w].candidate = c
        \/ resolveFuzzyDecision(Score[k][c]) = "distinct"
  BY <1>0, <1>1, FuzzyCreates
<1>3. c \in Jobs /\ Score[k][j] <= Score[k][c] /\ Score[k][j] \in Nat /\ Score[k][c] \in Nat
  BY <1>1, <1>2, ScoreAssumption DEF MostAlike, Candidates
<1> QED
  BY <1>0, <1>2, <1>3, BoundAssumption, NullAssumption DEF resolveFuzzyDecision

(* Lemma: Separation is inductive with Basis.                              *)
LEMMA SeparationHolds == Spec => []Separation
<1>1. Init => Separation
  BY DEF Init, Separation, CreatorOK, NoTwins, GrayZoneAsked, BothActive, At, Idle, NoJob
<1>2. Basis /\ Separation /\ [Next]_vars => Separation'
  <2> SUFFICES ASSUME Basis, Separation, [Next]_vars PROVE Separation'
    OBVIOUS
  <2>0. /\ \A w \in Workers : CreatorOK(w)
        /\ \A k \in Jobs : review[k] # NoReview => review'[k] # NoReview
        /\ \A w \in Workers : At(w, "create") => Offer(w).job \in Jobs
    BY ReviewsStay, OfferFields DEF Separation, Basis, IngestionOK, At, Offer
  <2>1. ASSUME NEW w \in Workers PROVE CreatorOK(w)'
    <3> SUFFICES ASSUME At(w, "create")' PROVE CreatorOK(w)'
      BY DEF CreatorOK
    <3>1. CASE At(w, "create") /\ worker'[w] = worker[w]
      <4>1. ASSUME NEW v \in Workers, At(v, "create")',
                   Block[Offer(v).job]' = Block[Offer(w).job]'
            PROVE v = w
        <5>1. CASE At(v, "create") /\ worker'[v] = worker[v]
          BY <2>0, <3>1, <4>1, <5>1 DEF CreatorOK, Offer
        <5>2. CASE Fuzzy(v) /\ v # w
          <6>1. worker'[v].offer = worker[v].offer
            BY <5>2, FuzzyKeeps
          <6>2. BlockFree(Block[Offer(v).job]) /\ worker[w].blocked
            BY <2>0, <3>1, <5>2 DEF Fuzzy, CreatorOK
          <6> QED BY <3>1, <4>1, <6>1, <6>2 DEF BlockFree, At, Offer, InTransaction
        <5> QED BY <4>1, <5>1, <5>2, Creators
      <4>2. ASSUME NEW j \in Jobs, job'[j].status = "active",
                   Block[j] = Block[Offer(w).job]
            PROVE job[j].status = "active"
        <5>1. ASSUME NEW v \in Workers, Create(v), j = Offer(v).job PROVE FALSE
          <6>1. v = w
            BY <2>0, <3>1, <4>2, <5>1 DEF CreatorOK, Create
          <6>2. worker'[w].step = "filter"
            BY <5>1, <6>1 DEF Create, Proceed, Idle, Basis, TypeOK
          <6> QED BY <6>2 DEF At
        <5> QED BY <4>2, <5>1, ActiveJobs
      <4> QED BY <2>0, <3>1, <4>1, <4>2 DEF CreatorOK, Offer
    <3>2. CASE Fuzzy(w)
      <4>1. worker'[w].blocked /\ worker'[w].offer = worker[w].offer
        BY <3>2, FuzzyKeeps
      <4>2. ASSUME NEW v \in Workers, v # w, At(v, "create")'
            PROVE Block[worker'[v].offer.job] # Block[worker'[w].offer.job]
        <5>1. worker'[v] = worker[v] /\ At(v, "create")
          BY <3>2, <4>2 DEF Fuzzy, At, Basis, TypeOK
        <5> QED BY <2>0, <3>2, <4>1, <5>1 DEF CreatorOK, Fuzzy, BlockFree, At, Offer, InTransaction
      <4>3. UNCHANGED job
        BY <3>2 DEF Fuzzy, tables
      <4> QED BY <3>2, <4>1, <4>2, <4>3, FuzzySees DEF CreatorOK, Offer
    <3> QED BY <3>1, <3>2, Creators
  <2>2. ASSUME NEW j \in Jobs, NEW k \in Jobs, j # k, Block[j] = Block[k],
               job'[j].status = "active", job'[k].status = "active"
        PROVE /\ Score[j][k] < High
              /\ Score[j][k] >= Medium => review'[j] # NoReview \/ review'[k] # NoReview
    <3>0. Score[j][k] \in Nat /\ Score[j][k] = Score[k][j]
      BY ScoreAssumption
    <3>1. CASE job[j].status = "active" /\ job[k].status = "active"
      BY <2>0, <2>2, <3>0, <3>1, BoundAssumption
      DEF Separation, NoTwins, GrayZoneAsked, BothActive, Alike
    <3>2. ASSUME NEW a \in Jobs, NEW b \in Jobs, {a, b} = {j, k},
                 NEW w \in Workers, Create(w), a = Offer(w).job
          PROVE /\ Score[a][b] < High
                /\ Score[a][b] >= Medium => review'[a] # NoReview
      <4>1. job[b].status = "active" /\ Block[b] = Block[a]
        BY <2>2, <3>2 DEF Create, Basis, TypeOK
      <4>2. /\ Score[a][b] < High
            /\ Score[a][b] >= Medium => worker[w].candidate # None
        BY <2>0, <3>2, <4>1 DEF CreatorOK, Create
      <4>3. worker[w].candidate # None => review'[a] # NoReview
        BY <3>2 DEF Create, NoReview, Basis, TypeOK
      <4> QED BY <4>2, <4>3
    <3> QED BY <2>2, <3>0, <3>1, <3>2, ActiveJobs
  <2>3. NoTwins' /\ GrayZoneAsked'
    BY <2>2, ScoreAssumption, BoundAssumption DEF NoTwins, GrayZoneAsked, BothActive, Alike
  <2> QED BY <2>1, <2>3 DEF Separation
<1> QED BY <1>1, <1>2, BasisHolds, PTL DEF Spec

(* NoTwins and GrayZoneAsked: however ingestions and decisions interleave, *)
(* equivalent offers stay one active job and similar ones are asked about. *)
THEOREM Separated == Spec => [](NoTwins /\ GrayZoneAsked)
<1>1. Separation => NoTwins /\ GrayZoneAsked
  BY DEF Separation
<1> QED BY <1>1, SeparationHolds, PTL

(* The second half of it by itself: L3 puts what is alike, but not alike   *)
(* enough for a merge, to a human (job-repo.ts, the gray zone).            *)
THEOREM GrayZoneIsAsked == Spec => []GrayZoneAsked
BY Separated, PTL

--------------------------------------------------------------------------------
(* No vacancy archived away *)

(* A job that was created without a review is never archived, and every    *)
(* block that has a job has one of those: its first.                       *)
Rooted ==
  /\ \A k \in Jobs : job[k].status = "archived" => review[k] # NoReview
  /\ \A j \in Jobs : Exists(j) =>
       \E k \in Jobs : Block[k] = Block[j] /\ Exists(k) /\ review[k] = NoReview

(* Lemma: only a decision archives a job, and only one with a review.      *)
LEMMA ArchivedBy ==
  ASSUME Basis, [Next]_vars, NEW k \in Jobs, job'[k].status = "archived"
  PROVE  job[k].status = "archived" \/ review[k] # NoReview
<1>1. ASSUME NEW w \in Workers, Attach(w) PROVE job[k].status = "archived"
  BY <1>1, AttachRows
<1>2. ASSUME NEW w \in Workers, Create(w) PROVE job[k].status = "archived"
  BY <1>2 DEF Create, Basis, TypeOK
<1>3. ASSUME NEW w \in Workers, markJobRejected(w) PROVE job[k].status = "archived"
  BY <1>3 DEF markJobRejected, Basis, TypeOK, JobRow
<1>4. ASSUME NEW u \in Users, decideReview(u)
      PROVE job[k].status = "archived" \/ review[k] # NoReview
  <2>1. CASE Merge(u)
    BY <1>4, <2>1, MergeRows
  <2> QED BY <1>4, <2>1 DEF decideReview
<1>5. CASE UNCHANGED job
  BY <1>5
<1> QED
  BY <1>1, <1>2, <1>3, <1>4, <1>5
  DEF Next, vars, tables, insertQuarantine, KnownListing, Lookup, Fuzzy, ReadJob, Conflict,
      Recover, Crash, ReadReview

(* Lemma: a job that exists without a review never gets one.               *)
LEMMA RootsStay ==
  ASSUME Basis, [Next]_vars, NEW k \in Jobs, Exists(k), review[k] = NoReview
  PROVE  review'[k] = NoReview
<1>1. ASSUME NEW w \in Workers, Create(w) PROVE review'[k] = NoReview
  BY <1>1 DEF Create, Basis, TypeOK
<1>2. ASSUME NEW u \in Users, decideReview(u) PROVE review'[k] = NoReview
  <2>1. k # decider[u].job
    BY <1>2 DEF decideReview, Basis, DeciderOK
  <2> QED BY <1>2, <2>1 DEF decideReview, Basis, TypeOK
<1>3. CASE UNCHANGED review
  BY <1>3
<1> QED
  BY <1>1, <1>2, <1>3
  DEF Next, vars, tables, insertQuarantine, KnownListing, Lookup, Fuzzy, ReadJob, Conflict,
      Attach, Recover, markJobRejected, Crash, ReadReview

(* Lemma: a job that is created with a review has a candidate in its block.*)
LEMMA NewReview ==
  ASSUME Basis, [Next]_vars, NEW j \in Jobs, ~Exists(j), review'[j] # NoReview
  PROVE  \E c \in Jobs : Exists(c) /\ Block[c] = Block[j]
<1>0. review[j] = NoReview
  BY DEF Basis, ReviewOK
<1>1. ASSUME NEW w \in Workers, Create(w)
      PROVE \E c \in Jobs : Exists(c) /\ Block[c] = Block[j]
  <2>1. j = Offer(w).job /\ worker[w].candidate # None
    BY <1>0, <1>1 DEF Create, Basis, TypeOK
  <2> QED BY <2>1 DEF Basis, IngestionOK, Offer
<1>2. ASSUME NEW u \in Users, decideReview(u) PROVE FALSE
  <2>1. j # decider[u].job
    BY <1>0, <1>2 DEF decideReview, Basis, DeciderOK
  <2> QED BY <1>0, <1>2, <2>1 DEF decideReview, Basis, TypeOK
<1>3. CASE UNCHANGED review
  BY <1>0, <1>3
<1> QED
  BY <1>1, <1>2, <1>3
  DEF Next, vars, tables, insertQuarantine, KnownListing, Lookup, Fuzzy, ReadJob, Conflict,
      Attach, Recover, markJobRejected, Crash, ReadReview

(* VacancyKept: decisions never archive all the jobs of a block, whatever  *)
(* they decide and however they race.                                      *)
THEOREM VacancyStays == Spec => []VacancyKept
<1>1. Init => Rooted
  BY DEF Init, Rooted, Exists, NoJob
<1>2. Basis /\ Rooted /\ [Next]_vars => Rooted'
  <2> SUFFICES ASSUME Basis, Rooted, [Next]_vars PROVE Rooted'
    OBVIOUS
  <2>0. \A k \in Jobs : Exists(k) => Exists(k)'
    BY JobsStay
  <2>1. ASSUME NEW k \in Jobs, job'[k].status = "archived" PROVE review'[k] # NoReview
    <3>1. job[k].status = "archived" \/ review[k] # NoReview
      BY <2>1, ArchivedBy
    <3> QED BY <3>1, ReviewsStay DEF Rooted
  <2>2. ASSUME NEW j \in Jobs, Exists(j)'
        PROVE \E k \in Jobs : Block[k] = Block[j] /\ Exists(k)' /\ review'[k] = NoReview
    <3>1. CASE \E k \in Jobs : Block[k] = Block[j] /\ Exists(k) /\ review[k] = NoReview
      BY <2>0, <3>1, RootsStay
    <3>2. CASE ~Exists(j) /\ review'[j] = NoReview
      BY <2>2, <3>2
    <3>3. CASE ~Exists(j) /\ review'[j] # NoReview
      <4>1. PICK c \in Jobs : Exists(c) /\ Block[c] = Block[j]
        BY <2>2, <3>3, NewReview
      <4> QED BY <2>0, <4>1, RootsStay DEF Rooted
    <3> QED BY <3>1, <3>2, <3>3 DEF Rooted
  <2> QED BY <2>1, <2>2 DEF Rooted
<1>3. Basis /\ Rooted => VacancyKept
  BY DEF Rooted, VacancyKept, InCatalogue, Exists, Basis, TypeOK, JobRow, JobStatus
<1> QED BY <1>1, <1>2, <1>3, BasisHolds, PTL DEF Spec

--------------------------------------------------------------------------------
(* What is refused *)

(* The worker that is about to reject the job of listing l, and a human    *)
(* that merged, or did not merge, another job into k.                      *)
Pending(l) ==
  \E w \in Workers : /\ At(w, "filter") /\ ~Offer(w).eligible
                     /\ worker[w].job = listing[l].job
Decided(k) == \E r \in Jobs : review[r].candidate = k /\ review[r].decision \in Decision

Judged(l) ==
  \/ listing[l].job = None \/ job[listing[l].job].status # "active"
  \/ listing[l].offer.eligible \/ Pending(l) \/ Decided(listing[l].job)

Owed == crashes = 0 => \A l \in Listings : Judged(l)

(* Lemma: what was decided about a candidate stays decided.                *)
LEMMA DecisionsStay ==
  ASSUME Basis, [Next]_vars, NEW k, Decided(k)
  PROVE  Decided(k)'
<1>1. PICK r \in Jobs : review[r].candidate = k /\ review[r].decision \in Decision
  BY DEF Decided
<1>2. Exists(r)
  BY <1>1 DEF Basis, ReviewOK, NoReview, Decision
<1>3. ASSUME NEW w \in Workers, Create(w) PROVE review'[r] = review[r]
  BY <1>2, <1>3 DEF Create, Basis, TypeOK
<1>4. ASSUME NEW u \in Users, decideReview(u)
      PROVE  review'[r].candidate = k /\ review'[r].decision \in Decision
  <2>1. decider[u].decision \in Decision /\ review \in [Jobs -> ReviewRow]
    BY DEF Basis, TypeOK, Deciding
  <2> QED BY <1>1, <1>4, <2>1 DEF decideReview, ReviewRow
<1>5. CASE UNCHANGED review
  BY <1>1, <1>5 DEF Decided
<1>6. \/ \E w \in Workers : Create(w)
      \/ \E u \in Users : decideReview(u)
      \/ UNCHANGED review
  BY DEF Next, vars, tables, insertQuarantine, KnownListing, Lookup, Fuzzy, ReadJob, Conflict,
         Attach, Recover, markJobRejected, Crash, ReadReview
<1> QED BY <1>1, <1>3, <1>4, <1>5, <1>6 DEF Decided

(* Lemma: without a crash a worker leaves the filters by judging the job.  *)
LEMMA FilterLeft ==
  ASSUME Basis, [Next]_vars, crashes' = crashes, NEW w \in Workers, At(w, "filter")
  PROVE  worker'[w] = worker[w] \/ markJobRejected(w)
<1>1. ASSUME NEW v \in Workers,
             \/ \E o \in Offers : insertQuarantine(v, o) \/ KnownListing(v, o) \/ Lookup(v, o)
             \/ Fuzzy(v) \/ ReadJob(v) \/ Conflict(v) \/ Attach(v) \/ Create(v) \/ Recover(v)
      PROVE  worker'[w] = worker[w]
  <2>1. v # w
    BY <1>1 DEF insertQuarantine, KnownListing, Lookup, Fuzzy, ReadJob, Conflict, Attach, Create,
                Recover, At
  <2>2. worker' = worker \/ \E i : worker' = [worker EXCEPT ![v] = i]
    BY <1>1 DEF insertQuarantine, KnownListing, Lookup, Fuzzy, ReadJob, Conflict, Attach, Create,
                Recover, Proceed
  <2> QED BY <2>1, <2>2 DEF Basis, TypeOK
<1>2. ASSUME NEW v \in Workers, markJobRejected(v), v # w PROVE worker'[w] = worker[w]
  BY <1>2 DEF markJobRejected, Basis, TypeOK
<1>3. ASSUME NEW v \in Workers, Crash(v) PROVE FALSE
  BY <1>3 DEF Crash, Basis, TypeOK
<1>4. CASE UNCHANGED worker
  BY <1>4
<1> QED BY <1>1, <1>2, <1>3, <1>4 DEF Next, vars, ReadReview, decideReview

(* Lemma: a listing that stays where it is stays judged.                   *)
LEMMA JudgedStays ==
  ASSUME Basis, [Next]_vars, crashes' = crashes, NEW l \in Listings, Judged(l),
         listing'[l] = listing[l]
  PROVE  Judged(l)'
<1> DEFINE k == listing[l].job
<1>1. SUFFICES ASSUME k # None, job'[k].status = "active", ~listing[l].offer.eligible,
                      ~Decided(k)'
               PROVE  Pending(l)'
  BY DEF Judged
<1>2. k \in Jobs /\ Exists(k)
  <2>1. listing[l] # NoListing /\ k \in Jobs
    BY <1>1 DEF NoListing, Basis, TypeOK, ListingRow
  <2> QED BY <1>1, <2>1 DEF Basis, TypeOK, HasJob
<1>3. job[k].status = "active"
  <2>1. ASSUME NEW w \in Workers, Create(w) PROVE k # Offer(w).job
    BY <1>2, <2>1 DEF Create
  <2> QED BY <1>1, <1>2, <2>1, ActiveJobs
<1>4. PICK w \in Workers : At(w, "filter") /\ ~Offer(w).eligible /\ worker[w].job = k
  BY <1>1, <1>3, DecisionsStay DEF Judged, Pending
<1>5. CASE worker'[w] = worker[w]
  BY <1>4, <1>5 DEF Pending, At, Offer
<1>6. CASE markJobRejected(w)
  <2>1. job' = [job EXCEPT ![k].status = "rejected"]
    BY <1>4, <1>6 DEF markJobRejected, Refused
  <2>2. job'[k].status = "rejected"
    BY <1>2, <2>1 DEF Basis, TypeOK, JobRow
  <2> QED BY <1>1, <2>2
<1> QED BY <1>4, <1>5, <1>6, FilterLeft

(* Lemma: a listing that is added is about to be judged.                   *)
LEMMA JudgedNext ==
  ASSUME Basis, NEW w \in Workers, NEW k \in Jobs, AddListing(w, k),
         Proceed(w, Offer(w), "filter", k), Offer(w) \in Offers, NEW l, l = Offer(w).listing
  PROVE  Judged(l)'
<1>1. l \in Listings /\ listing'[l] = [offer |-> Offer(w), job |-> k]
  BY OfferFields DEF AddListing, Basis, TypeOK
<1>2. worker'[w] = [Idle EXCEPT !.step = "filter", !.offer = Offer(w), !.job = k]
  BY DEF Proceed, Basis, TypeOK
<1>3. worker'[w].step = "filter" /\ worker'[w].offer = Offer(w) /\ worker'[w].job = k
  BY <1>2 DEF Idle
<1>4. CASE Offer(w).eligible
  BY <1>1, <1>4 DEF Judged
<1>5. CASE ~Offer(w).eligible
  <2>1. At(w, "filter")' /\ ~Offer(w)'.eligible /\ worker'[w].job = listing'[l].job
    BY <1>1, <1>3, <1>5 DEF At, Offer
  <2>2. Pending(l)'
    BY <2>1 DEF Pending
  <2> QED BY <2>2 DEF Judged
<1> QED BY <1>4, <1>5

(* Theorem: an offer that the hard filters refuse does not leave its job   *)
(* active, whichever offers of the job are judged at the same time         *)
(* (ingestRaw, and markJobRejected after its transaction), unless a crash  *)
(* comes in between or a human has decided about the job.                  *)
THEOREM RefusalsHold == Spec => []RefusedIsRejected
<1>1. Init => Owed
  BY DEF Init, Owed, Judged, NoListing
<1>2. Basis /\ Owed /\ [Next]_vars => Owed'
  <2> SUFFICES ASSUME Basis, Owed, [Next]_vars, crashes' = 0, NEW l \in Listings
               PROVE  Judged(l)'
    BY DEF Owed
  <2>1. crashes = 0 /\ crashes' = crashes
    <3>1. crashes \in Nat
      BY BoundAssumption DEF Basis, TypeOK
    <3>2. crashes' = crashes \/ crashes' = crashes + 1
      BY DEF Next, vars, tables, insertQuarantine, KnownListing, Lookup, Fuzzy,
             ReadJob, Conflict, Attach, Create, Recover, markJobRejected, Crash, ReadReview,
             decideReview
    <3> QED BY <3>1, <3>2
  <2>2. Judged(l)
    BY <2>1 DEF Owed
  <2>3. CASE listing'[l] = listing[l]
    BY <2>1, <2>2, <2>3, JudgedStays
  <2>4. ASSUME NEW w \in Workers, Attach(w) \/ Create(w) \/ Recover(w) PROVE Judged(l)'
    <3>1. CASE UNCHANGED listing
      BY <2>3, <3>1
    <3>2. CASE ~UNCHANGED listing
      <4>1. Offer(w) \in Offers /\ worker[w].job \in Jobs \cup {None}
        BY <2>4 DEF Basis, TypeOK, IngestionOK, Ingestion, Attach, Create, Recover, At, Offer
      <4>2. PICK k \in Jobs : AddListing(w, k) /\ Proceed(w, Offer(w), "filter", k)
        BY <2>4, <3>2, <4>1, OfferFields, AttachRows DEF Attach, Create, Recover
      <4>3. CASE l = Offer(w).listing
        BY <4>1, <4>2, <4>3, JudgedNext
      <4>4. CASE l # Offer(w).listing
        <5>1. listing'[l] = listing[l]
          BY <4>2, <4>4 DEF AddListing, Basis, TypeOK
        <5> QED BY <2>3, <5>1
      <4> QED BY <4>3, <4>4
    <3> QED BY <3>1, <3>2
  <2>5. ASSUME NEW w \in Workers, NEW o \in Offers, insertQuarantine(w, o) PROVE Judged(l)'
    <3>1. CASE l = o.listing
      BY <2>5, <3>1 DEF insertQuarantine, Quarantined, Basis, TypeOK, Judged
    <3>2. CASE l # o.listing
      <4>1. listing'[l] = listing[l]
        BY <2>5, <3>2 DEF insertQuarantine, Basis, TypeOK
      <4> QED BY <2>3, <4>1
    <3> QED BY <3>1, <3>2
  <2>6. ASSUME NEW u \in Users, decideReview(u) PROVE Judged(l)'
    <3> DEFINE d == decider[u]
               c == review[d.job].candidate
    <3>1. CASE listing'[l] # listing[l]
      <4>1. d.decision \in Decision /\ d.job \in Jobs /\ review \in [Jobs -> ReviewRow]
        BY <2>6 DEF Basis, TypeOK, Deciding, DeciderOK, decideReview
      <4>2. Merge(u)
        BY <2>6, <3>1 DEF decideReview
      <4>3. listing'[l].job = c
        BY <3>1, <4>2 DEF Merge, Loser, Basis, TypeOK, ListingRow
      <4>4. review'[d.job].candidate = c /\ review'[d.job].decision = d.decision
        BY <2>6, <4>1 DEF decideReview, ReviewRow
      <4> QED BY <4>1, <4>3, <4>4 DEF Judged, Decided
    <3> QED BY <2>3, <3>1
  <2>7. CASE UNCHANGED listing
    BY <2>3, <2>7
  <2>8. \/ \E w \in Workers : Attach(w) \/ Create(w) \/ Recover(w)
        \/ \E w \in Workers, o \in Offers : insertQuarantine(w, o)
        \/ \E u \in Users : decideReview(u)
        \/ UNCHANGED listing
    BY DEF Next, vars, tables, KnownListing, Lookup, Fuzzy, ReadJob, Conflict,
           markJobRejected, Crash, ReadReview
  <2> QED BY <2>4, <2>5, <2>6, <2>7, <2>8
<1>3. Owed => RefusedIsRejected
  BY DEF Owed, Judged, Pending, Decided, RefusedIsRejected
<1> QED BY <1>1, <1>2, <1>3, BasisHolds, PTL DEF Spec

--------------------------------------------------------------------------------
(* The catalogue *)

(* A worker that is about to ask a human about a candidate has found it    *)
(* similar enough.                                                         *)
Compared ==
  \A w \in Workers : At(w, "create") /\ worker[w].candidate # None =>
    Score[Offer(w).job][worker[w].candidate] >= Medium

(* Lemma: the fuzzy level asks about candidates of the gray zone only.     *)
LEMMA FuzzyCompares ==
  ASSUME Basis, NEW w \in Workers, Fuzzy(w), At(w, "create")', worker'[w].candidate # None
  PROVE  Score[Offer(w).job][worker'[w].candidate] >= Medium
<1>0. PICK k \in Jobs : k = Offer(w).job
  BY OfferFields DEF Basis, IngestionOK, Fuzzy, At, Offer
<1>1. PICK c \in MostAlike(k) :
        /\ resolveFuzzyDecision(Score[k][c]) = "review"
        /\ worker'[w].candidate = c
  BY <1>0, FuzzyCreates
<1>2. c \in Jobs /\ Score[k][c] \in Nat
  BY <1>1, ScoreAssumption DEF MostAlike, Candidates
<1> QED BY <1>0, <1>1, <1>2, BoundAssumption DEF resolveFuzzyDecision

(* Lemma: what is asked about is similar, whatever the others do.          *)
LEMMA ComparedHolds == Spec => []Compared
<1>1. Init => Compared
  BY DEF Init, Compared, At, Idle
<1>2. Basis /\ Compared /\ [Next]_vars => Compared'
  <2> SUFFICES ASSUME Basis, Compared, [Next]_vars, NEW w \in Workers, At(w, "create")',
                      worker'[w].candidate # None
               PROVE  Score[Offer(w)'.job][worker'[w].candidate] >= Medium
    BY DEF Compared
  <2>1. CASE At(w, "create") /\ worker'[w] = worker[w]
    BY <2>1 DEF Compared, Offer
  <2>2. CASE Fuzzy(w)
    BY <2>2, FuzzyCompares, FuzzyKeeps DEF Offer
  <2> QED BY <2>1, <2>2, Creators
<1> QED BY <1>1, <1>2, BasisHolds, PTL DEF Spec

(* Lemma: a listing that is new is found once.                             *)
LEMMA ListingFound ==
  ASSUME Basis, NEW l \in Listings, NEW o \in Offers, NEW k \in Jobs \cup {None},
         listing[l] = NoListing, listing' = [listing EXCEPT ![l] = [offer |-> o, job |-> k]]
  PROVE  Catalogue!Find(l, k)
<1>1. listing'[l] # NoListing /\ listing'[l].job = k
  BY OfferFields DEF NoListing, Basis, TypeOK
<1>2. \A m \in Listings : m # l => listing'[m] = listing[m]
  BY DEF Basis, TypeOK
<1>3. {m \in Listings : listing[m] # NoListing}'
        = {m \in Listings : listing[m] # NoListing} \cup {l}
  BY <1>1, <1>2
<1>4. [m \in Listings |-> listing[m].job]' = [[m \in Listings |-> listing[m].job] EXCEPT ![l] = k]
  <2>1. \A m \in Listings : listing'[m].job = IF m = l THEN k ELSE listing[m].job
    BY <1>1, <1>2
  <2> QED BY <2>1
<1> QED BY <1>3, <1>4 DEF Catalogue!Find

(* Lemma: without changes to the three tables nothing happens to it.       *)
LEMMA CatalogueStutters ==
  ASSUME UNCHANGED <<job, listing, review>> PROVE UNCHANGED Catalogue!catalogueVars
  BY DEF Catalogue!catalogueVars

(* Lemma: a creation opens a job apart from what it resembles.             *)
LEMMA CreateOpens ==
  ASSUME Basis, Separation, Compared, NEW w \in Workers, Create(w)
  PROVE  Catalogue!CatalogueNext
<1>1. PICK k \in Jobs : k = Offer(w).job
  BY OfferFields DEF Basis, IngestionOK, Create, At, Offer
<1>2. PICK c \in Jobs \cup {None} : c = worker[w].candidate
  BY DEF Basis, TypeOK, Ingestion
<1>3. PICK o \in Offers, l \in Listings : o = Offer(w) /\ l = o.listing
  BY OfferFields DEF Basis, IngestionOK, Create, At, Offer
<1>4. Catalogue!Find(l, k)
  BY <1>1, <1>3, ListingFound DEF Create, AddListing
<1>5. \A j \in Jobs : job[j].status = "active" /\ Block[j] = Block[k] =>
        /\ Score[k][j] < High
        /\ Score[k][j] >= Medium => c # None
  BY <1>1, <1>2 DEF Separation, CreatorOK, Create
<1>6. ~Catalogue!Opened(k) /\ Catalogue!Resembles(k, High) = {}
  <2>1. \A j \in Jobs : Score[k][j] \in Nat
    BY ScoreAssumption
  <2> QED BY <1>1, <1>5, <2>1, BoundAssumption
      DEF Catalogue!Opened, Catalogue!Resembles, Create, Exists
<1>7. \/ c = None /\ Catalogue!Resembles(k, Medium) = {}
      \/ c \in Jobs /\ Catalogue!Opened(c) /\ Block[c] = Block[k] /\ Score[k][c] >= Medium
  <2>1. CASE c = None
    BY <1>5, <2>1 DEF Catalogue!Resembles
  <2>2. CASE c # None
    BY <1>1, <1>2, <2>2
    DEF Basis, IngestionOK, Compared, Create, Offer, Catalogue!Opened, Exists
  <2> QED BY <2>1, <2>2
<1>8. [j \in Jobs |-> job[j].status]' = [[j \in Jobs |-> job[j].status] EXCEPT ![k] = "active"]
  BY <1>1 DEF Create, Basis, TypeOK
<1>9. [j \in Jobs |-> review[j].candidate]' = [[j \in Jobs |-> review[j].candidate] EXCEPT ![k] = c]
  <2>1. review' = [review EXCEPT ![k] = IF c = None THEN NoReview
                                       ELSE [candidate |-> c, decision |-> "pending"]]
    BY <1>1, <1>2 DEF Create
  <2>2. \A j \in Jobs : review'[j].candidate = IF j = k THEN c ELSE review[j].candidate
    BY <2>1 DEF NoReview, Basis, TypeOK
  <2> QED BY <2>2
<1>10. Catalogue!Open(l, k, c)
  BY <1>4, <1>6, <1>7, <1>8, <1>9 DEF Catalogue!Open
<1> QED BY <1>10 DEF Catalogue!CatalogueNext

(* Lemma: a decision merges all of a job into its rival, or leaves it.     *)
LEMMA DecisionMerges ==
  ASSUME Basis, NEW u \in Users, decideReview(u)
  PROVE  [Catalogue!CatalogueNext]_(Catalogue!catalogueVars)
<1>1. PICK k \in Jobs : k = decider[u].job /\ review[k] # NoReview
  BY DEF Basis, DeciderOK, decideReview
<1>2. PICK c \in Jobs : c = review[k].candidate
  BY <1>1 DEF Basis, ReviewOK
<1>3. c # None /\ k # None
  BY NullAssumption
<1>4. [j \in Jobs |-> review[j].candidate]' = [j \in Jobs |-> review[j].candidate]
  <2>1. \A j \in Jobs : review'[j].candidate = review[j].candidate
    BY <1>1 DEF decideReview, Basis, TypeOK, ReviewRow
  <2> QED BY <2>1
<1>5. CASE Merge(u)
  <2>1. [j \in Jobs |-> job[j].status]' = [[j \in Jobs |-> job[j].status] EXCEPT ![k] = "archived"]
    <3>1. \A j \in Jobs : job'[j].status = IF j = k THEN "archived" ELSE job[j].status
      BY <1>1, <1>5, MergeRows
    <3> QED BY <3>1
  <2>2. listing' = [l \in Listings |-> IF listing[l].job = k THEN [listing[l] EXCEPT !.job = c]
                                       ELSE listing[l]]
    BY <1>1, <1>2, <1>5 DEF Merge, Loser
  <2>3. ASSUME NEW l \in Listings
        PROVE  /\ listing'[l].job = IF listing[l].job = k THEN c ELSE listing[l].job
               /\ listing'[l] # NoListing <=> listing[l] # NoListing
    <3>1. listing[l] \in ListingRow
      BY DEF Basis, TypeOK
    <3> QED BY <1>3, <2>2, <3>1 DEF ListingRow, NoListing
  <2>4. Catalogue!Merge(k)
    BY <1>2, <1>3, <1>4, <2>1, <2>3 DEF Catalogue!Merge
  <2> QED BY <2>4 DEF Catalogue!CatalogueNext
<1>6. CASE UNCHANGED <<job, listing>>
  BY <1>4, <1>6 DEF Catalogue!catalogueVars
<1> QED BY <1>5, <1>6 DEF decideReview

(* ImplementsCatalogue: every step of a worker or a user is a step of the  *)
(* catalogue or none, so that what the catalogue promises holds of the     *)
(* tables (ingestJob, markJobRejected, decideReview).                      *)
THEOREM Refinement == Spec => ImplementsCatalogue
<1>1. Init => Catalogue!CatalogueInit
  BY DEF Init, Catalogue!CatalogueInit, NoJob, NoReview, NoListing
<1>2. Basis /\ Separation /\ Compared /\ [Next]_vars
        => [Catalogue!CatalogueNext]_(Catalogue!catalogueVars)
  <2> SUFFICES ASSUME Basis, Separation, Compared, [Next]_vars
               PROVE  [Catalogue!CatalogueNext]_(Catalogue!catalogueVars)
    OBVIOUS
  <2>1. ASSUME NEW w \in Workers, NEW o \in Offers, insertQuarantine(w, o)
        PROVE  Catalogue!CatalogueNext
    <3>1. Catalogue!Find(o.listing, None) /\ o.listing \in Listings
      BY <2>1, OfferFields, ListingFound DEF insertQuarantine, Quarantined
    <3>2. Catalogue!Quarantine(o.listing)
      BY <2>1, <3>1 DEF insertQuarantine, Catalogue!Quarantine
    <3> QED BY <3>1, <3>2 DEF Catalogue!CatalogueNext
  <2>2. ASSUME NEW w \in Workers, NEW k \in Jobs, AddListing(w, k), Exists(k),
               Offer(w) \in Offers, listing[Offer(w).listing] = NoListing,
               \A j \in Jobs : job'[j].status = job[j].status, UNCHANGED review
        PROVE  Catalogue!CatalogueNext
    <3>1. PICK l \in Listings : l = Offer(w).listing
      BY <2>2, OfferFields
    <3>2. Catalogue!Find(l, k)
      BY <2>2, <3>1, ListingFound DEF AddListing
    <3>3. Catalogue!Join(l, k)
      BY <2>2, <3>2 DEF Catalogue!Join, Catalogue!Opened, Exists
    <3> QED BY <3>3 DEF Catalogue!CatalogueNext
  <2>3. ASSUME NEW w \in Workers, Attach(w) PROVE Catalogue!CatalogueNext
    BY <2>2, <2>3, AttachRows DEF Attach
  <2>4. ASSUME NEW w \in Workers, Recover(w)
        PROVE  Catalogue!CatalogueNext \/ UNCHANGED <<job, listing, review>>
    <3>1. Offer(w) \in Offers /\ Offer(w).job \in Jobs
      BY <2>4, OfferFields DEF Basis, IngestionOK, Recover, At, Offer
    <3> QED BY <2>2, <2>4, <3>1 DEF Recover
  <2>5. ASSUME NEW w \in Workers, markJobRejected(w)
        PROVE  Catalogue!CatalogueNext \/ UNCHANGED <<job, listing, review>>
    <3>1. PICK k \in Jobs : k = worker[w].job /\ Exists(k)
      BY <2>5 DEF Basis, IngestionOK, markJobRejected, At
    <3>2. CASE job' = [job EXCEPT ![k] = [job[k] EXCEPT !.status = "rejected"]]
      <4>1. [j \in Jobs |-> job[j].status]'
              = [[j \in Jobs |-> job[j].status] EXCEPT ![k] = "rejected"]
        BY <3>2 DEF Basis, TypeOK, JobRow
      <4>2. Catalogue!Refuse(k)
        BY <2>5, <3>1, <4>1 DEF Catalogue!Refuse, Catalogue!Opened, Exists, markJobRejected
      <4> QED BY <4>2 DEF Catalogue!CatalogueNext
    <3> QED BY <2>5, <3>1, <3>2 DEF markJobRejected
  <2>6. CASE UNCHANGED <<job, listing, review>>
    BY <2>6, CatalogueStutters
  <2>7. \/ \E w \in Workers, o \in Offers : insertQuarantine(w, o)
        \/ \E w \in Workers : Attach(w) \/ Create(w) \/ Recover(w) \/ markJobRejected(w)
        \/ \E u \in Users : decideReview(u)
        \/ UNCHANGED <<job, listing, review>>
    BY DEF Next, vars, tables, KnownListing, Lookup, Fuzzy, ReadJob, Conflict, Crash, ReadReview
  <2> QED BY <2>1, <2>3, <2>4, <2>5, <2>6, <2>7, CreateOpens, DecisionMerges
<1> QED
  BY <1>1, <1>2, BasisHolds, SeparationHolds, ComparedHolds, PTL
  DEF Spec, ImplementsCatalogue, Catalogue!CatalogueSpec

================================================================================
