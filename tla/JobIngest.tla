------------------------------- MODULE JobIngest -------------------------------
(***************************************************************************)
(* How an offer that a source returns becomes, or joins, a canonical job:  *)
(* ingestRaw of apps/worker/src/services/ingest-service.ts, ingestJob and  *)
(* its deduplication levels L0 to L3 in job-repo.ts, and the human         *)
(* decisions on the gray zone of L3 in dedup-repo.ts.                      *)
(*                                                                         *)
(* PostgreSQL is external: a statement sees what is committed when it      *)
(* runs (READ COMMITTED), the writes of a transaction appear together when *)
(* it commits, an advisory lock is held until then and a unique index      *)
(* makes the transaction that commits second fail.                         *)
(***************************************************************************)
EXTENDS Naturals, FiniteSets

CONSTANTS Listings,   \* identities (source, external id) of a listing
          Urls,       \* hashes of canonical URLs
          Jobs,       \* dedup keys: what identifies a canonical job
          Targets,    \* keys of application targets
          Offers,     \* what a source may return, as one configuration filters it
          Block,      \* Block[k]: company and location of k
          Score,      \* Score[k][c]: the weighted similarity of k and c
          High,       \* DEDUP_L3_HIGH: merged from this score on
          Medium,     \* DEDUP_L3_MEDIUM: reviewed from this score on
          Workers,    \* the workers that ingest
          Users,      \* the decisions that may be under way at once
          MaxCrashes, \* bound on the crashes of a worker
          None        \* null value

ASSUME OfferAssumption ==
  Offers \subseteq [listing : Listings, url : Urls, job : Jobs, target : Targets \cup {None},
                    eligible : BOOLEAN, valid : BOOLEAN]
ASSUME NullAssumption == None \notin Jobs \cup Targets \cup Listings \cup Offers
ASSUME ScoreAssumption ==
  /\ Score \in [Jobs -> [Jobs -> Nat]]
  /\ \A k, c \in Jobs : Score[k][c] = Score[c][k]
ASSUME BoundAssumption == {High, Medium, MaxCrashes} \subseteq Nat

VARIABLES
  job,      \* the job table, by dedup key
  listing,  \* the job_listing table, by source and external id
  review,   \* the dedup_review table, by the job it was created with
  targets,  \* the rows of application_target
  worker,   \* worker[w]: the ingestion w is in
  decider,  \* decider[u]: the decision u is in
  crashes   \* the crashes so far

tables == <<job, listing, review, targets>>
vars == <<tables, worker, decider, crashes>>

--------------------------------------------------------------------------------
(* Data *)

JobStatus == {"absent", "active", "rejected", "archived"}
Decision == {"merged", "kept-separate"}

JobRow == [status : JobStatus, target : Targets \cup {None},
           primary : Listings \cup {None}, mergedFrom : SUBSET Listings]
NoJob == [status |-> "absent", target |-> None, primary |-> None, mergedFrom |-> {}]

ListingRow == [offer : Offers \cup {None}, job : Jobs \cup {None}]
NoListing == [offer |-> None, job |-> None]

ReviewRow == [candidate : Jobs \cup {None}, decision : Decision \cup {"pending", "none"}]
NoReview == [candidate |-> None, decision |-> "none"]

(* The steps inside the transaction of ingestJob, and those around it.     *)
InTransaction == {"fuzzy", "join", "attach", "create"}
Step == InTransaction \cup {"idle", "recover", "filter"}

(* An ingestion: the job it attaches to, the candidate it asks a human     *)
(* about, whether it locked its block, and the row of the job as it read   *)
(* it.                                                                     *)
Ingestion == [step : Step, offer : Offers \cup {None}, job : Jobs \cup {None},
              candidate : Jobs \cup {None}, blocked : BOOLEAN, seen : JobRow]
Idle == [step |-> "idle", offer |-> None, job |-> None, candidate |-> None,
         blocked |-> FALSE, seen |-> NoJob]

(* A decision: the review, what was decided and the rows it read.          *)
Deciding == [job : Jobs \cup {None}, decision : Decision, winner : JobRow, loser : JobRow,
             moved : SUBSET Listings]
NotDeciding == [job |-> None, decision |-> "kept-separate", winner |-> NoJob, loser |-> NoJob,
                moved |-> {}]

Init ==
  /\ job = [k \in Jobs |-> NoJob]
  /\ listing = [l \in Listings |-> NoListing]
  /\ review = [k \in Jobs |-> NoReview]
  /\ targets = {}
  /\ worker = [w \in Workers |-> Idle]
  /\ decider = [u \in Users |-> NotDeciding]
  /\ crashes = 0

Exists(k) == job[k].status # "absent"
InCatalogue(k) == job[k].status \in {"active", "rejected"}
ListingsOf(k) == {l \in Listings : listing[l].job = k}

(* Worker w goes on to a step with an offer and the job it goes to.        *)
Proceed(w, o, step, k) ==
  worker' = [worker EXCEPT ![w] = [Idle EXCEPT !.step = step, !.offer = o, !.job = k]]

At(w, step) == worker[w].step = step
Offer(w) == worker[w].offer

(* pg_advisory_xact_lock on the URL, and on company and location.          *)
UrlFree(url) == \A w \in Workers : worker[w].step \in InTransaction => Offer(w).url # url

BlockFree_Always(block) == block = block
BlockFree(block) ==
  \A w \in Workers :
    worker[w].step \in InTransaction /\ worker[w].blocked => Block[Offer(w).job] # block

--------------------------------------------------------------------------------
(* ingestRaw up to the fuzzy level *)

Quarantined_Keyed(o) == [offer |-> o, job |-> o.job]
Quarantined(o) == [offer |-> o, job |-> None]

(* A malformed offer is kept as a listing with no job, unless its identity *)
(* is known already.                                                       *)
insertQuarantine(w, o) ==
  /\ At(w, "idle") /\ ~o.valid
  /\ listing[o.listing] = NoListing
  /\ listing' = [listing EXCEPT ![o.listing] = Quarantined(o)]
  /\ UNCHANGED <<job, review, targets, worker, decider, crashes>>

(* The target an offer points at gets a row before anything is looked up.  *)
upsertTarget(o) == targets' = targets \cup ({o.target} \ {None})

(* L0: a listing that is known, quarantined or not, is left as it is.      *)
KnownListing(w, o) ==
  /\ At(w, "idle") /\ o.valid /\ UrlFree(o.url)
  /\ listing[o.listing] # NoListing
  /\ upsertTarget(o)
  /\ UNCHANGED <<job, listing, review, worker, decider, crashes>>

JobsOfUrl(url) ==
  {listing[l].job : l \in {l \in Listings : listing[l].job # None /\ listing[l].offer.url = url}}

(* L1, then L2: the job of some listing with the URL, else the job with    *)
(* the dedup key, whatever its status.                                     *)
Exact(o) == IF JobsOfUrl(o.url) # {} THEN JobsOfUrl(o.url) ELSE {k \in {o.job} : Exists(k)}

Lookup(w, o) ==
  /\ At(w, "idle") /\ o.valid /\ UrlFree(o.url)
  /\ listing[o.listing] = NoListing
  /\ upsertTarget(o)
  /\ \/ \E k \in Exact(o) : Proceed(w, o, "join", k)
     \/ Exact(o) = {} /\ Proceed(w, o, "fuzzy", None)
  /\ UNCHANGED <<job, listing, review, decider, crashes>>

--------------------------------------------------------------------------------
(* L3: similarity with the jobs of the same company and location *)

resolveFuzzyDecision_Strict(score) ==
  IF score >= High THEN "merge" ELSE IF score > Medium THEN "review" ELSE "distinct"
resolveFuzzyDecision(score) ==
  IF score >= High THEN "merge" ELSE IF score >= Medium THEN "review" ELSE "distinct"

(* The job most like k: one of the best where several are.                 *)
Candidates(k) == {c \in Jobs : InCatalogue(c) /\ Block[c] = Block[k]}
MostAlike(k) == {c \in Candidates(k) : \A d \in Candidates(k) : Score[k][d] <= Score[k][c]}

Fuzzy(w) ==
  LET k == Offer(w).job
      GoTo(step, joined, asked) ==
        worker' = [worker EXCEPT ![w] = [@ EXCEPT !.step = step, !.job = joined,
                                                  !.candidate = asked, !.blocked = TRUE]]
  IN /\ At(w, "fuzzy")
     /\ BlockFree(Block[k])
     /\ \/ Candidates(k) = {} /\ GoTo("create", k, None)
        \/ \E c \in MostAlike(k) :
             \/ resolveFuzzyDecision(Score[k][c]) = "merge" /\ GoTo("join", c, None)
             \/ resolveFuzzyDecision(Score[k][c]) = "review" /\ GoTo("create", k, c)
             \/ resolveFuzzyDecision(Score[k][c]) = "distinct" /\ GoTo("create", k, None)
     /\ UNCHANGED <<tables, decider, crashes>>

--------------------------------------------------------------------------------
(* The writes of ingestJob *)

(* The rows the update of the job starts from are read before it.          *)
ReadJob(w) ==
  /\ At(w, "join")
  /\ worker' = [worker EXCEPT ![w] = [@ EXCEPT !.step = "attach", !.seen = job[worker[w].job]]]
  /\ UNCHANGED <<tables, decider, crashes>>

AddListing(w, k) ==
  listing' = [listing EXCEPT ![Offer(w).listing] = [offer |-> Offer(w), job |-> k]]

(* A unique violation ends the transaction, and with it its locks.         *)
Conflict(w) ==
  /\ \/ At(w, "attach") /\ listing[Offer(w).listing] # NoListing
     \/ At(w, "create") /\ (listing[Offer(w).listing] # NoListing \/ Exists(Offer(w).job))
  /\ Proceed(w, Offer(w), "recover", None)
  /\ UNCHANGED <<tables, decider, crashes>>

(* The listing joins a job; a target is promoted when the job had none.    *)
Attach(w) ==
  LET k == worker[w].job
      seen == worker[w].seen
      promoted == IF Offer(w).target # None /\ seen.target = None
                  THEN Offer(w).target ELSE job[k].target
  IN /\ At(w, "attach")
     /\ listing[Offer(w).listing] = NoListing
     /\ AddListing(w, k)
     /\ job' = [job EXCEPT ![k] = [@ EXCEPT !.target = promoted,
                                   !.mergedFrom = seen.mergedFrom \cup {Offer(w).listing}]]
     /\ Proceed(w, Offer(w), "filter", k)
     /\ UNCHANGED <<review, targets, decider, crashes>>

(* A new job, its first listing and, in the gray zone, a pending review.   *)
Create(w) ==
  LET k == Offer(w).job
  IN /\ At(w, "create")
     /\ listing[Offer(w).listing] = NoListing /\ ~Exists(k)
     /\ AddListing(w, k)
     /\ job' = [job EXCEPT ![k] = [status |-> "active", target |-> Offer(w).target,
                                   primary |-> Offer(w).listing, mergedFrom |-> {}]]
     /\ review' = [review EXCEPT ![k] =
                     IF worker[w].candidate = None THEN NoReview
                     ELSE [candidate |-> worker[w].candidate, decision |-> "pending"]]
     /\ Proceed(w, Offer(w), "filter", k)
     /\ UNCHANGED <<targets, decider, crashes>>

(* After a violation: the listing another worker inserted is a duplicate,  *)
(* else the listing is attached to the job another worker created, without *)
(* a lock and without touching that job. Rows are never deleted, so one of *)
(* the two is there.                                                       *)
Recover(w) ==
  /\ At(w, "recover")
  /\ \/ /\ listing[Offer(w).listing] # NoListing
        /\ worker' = [worker EXCEPT ![w] = Idle]
        /\ UNCHANGED listing
     \/ /\ listing[Offer(w).listing] = NoListing /\ Exists(Offer(w).job)
        /\ AddListing(w, Offer(w).job)
        /\ Proceed(w, Offer(w), "filter", Offer(w).job)
  /\ UNCHANGED <<job, review, targets, decider, crashes>>

(* The hard filters judge the offer; their rejection is that of its job.   *)
Refused_New(w) ==
  ~Offer(w).eligible /\ job[worker[w].job].primary = Offer(w).listing
Refused(w) == ~Offer(w).eligible

markJobRejected(w) ==
  /\ At(w, "filter")
  /\ job' = IF Refused(w) THEN [job EXCEPT ![worker[w].job].status = "rejected"] ELSE job
  /\ worker' = [worker EXCEPT ![w] = Idle]
  /\ UNCHANGED <<listing, review, targets, decider, crashes>>

(* The worker dies: its transaction, if it was in one, never was.          *)
Crash(w) ==
  /\ ~At(w, "idle") /\ crashes < MaxCrashes
  /\ worker' = [worker EXCEPT ![w] = Idle]
  /\ crashes' = crashes + 1
  /\ UNCHANGED <<tables, decider>>

--------------------------------------------------------------------------------
(* Human decisions on the gray zone *)

(* The review is read pending, without a lock, and with it the two jobs.   *)
ReadReview(u, k, d) ==
  /\ decider[u] = NotDeciding
  /\ review[k].decision = "pending"
  /\ decider' = [decider EXCEPT ![u] =
                   [job |-> k, decision |-> d, winner |-> job[review[k].candidate],
                    loser |-> job[k], moved |-> ListingsOf(k)]]
  /\ UNCHANGED <<tables, worker, crashes>>

(* A bug the runs inject: a candidate that was refused when it was read is *)
(* archived instead of the job that was created.                           *)
Loser_Refused(d) == IF d.winner.status = "rejected" THEN review[d.job].candidate ELSE d.job

(* What a merge archives: the job that was created with the review.        *)
Loser(d) == d.job

(* The listings of the created job move to the candidate, which is updated *)
(* from what was read of it, and the created job is archived.              *)
Merge(u) ==
  LET d == decider[u]
      w == review[d.job].candidate
      promoted == IF d.winner.target = None /\ d.loser.target # None
                  THEN d.loser.target ELSE job[w].target
  IN /\ listing' = [l \in Listings |->
                      IF listing[l].job = d.job THEN [listing[l] EXCEPT !.job = w]
                      ELSE listing[l]]
     /\ job' = [job EXCEPT ![w].mergedFrom = d.winner.mergedFrom \cup d.moved,
                           ![w].target = promoted,
                           ![Loser(d)].status = "archived"]

decideReview(u) ==
  /\ decider[u] # NotDeciding
  /\ \/ decider[u].decision = "merged" /\ Merge(u)
     \/ decider[u].decision = "kept-separate" /\ UNCHANGED <<job, listing>>
  /\ review' = [review EXCEPT ![decider[u].job].decision = decider[u].decision]
  /\ decider' = [decider EXCEPT ![u] = NotDeciding]
  /\ UNCHANGED <<targets, worker, crashes>>

--------------------------------------------------------------------------------

Next ==
  \/ \E w \in Workers :
       \/ \E o \in Offers : insertQuarantine(w, o) \/ KnownListing(w, o) \/ Lookup(w, o)
       \/ Fuzzy(w) \/ ReadJob(w) \/ Conflict(w) \/ Attach(w) \/ Create(w)
       \/ Recover(w) \/ markJobRejected(w) \/ Crash(w)
  \/ \E u \in Users :
       \/ \E k \in Jobs, d \in Decision : ReadReview(u, k, d)
       \/ decideReview(u)

Spec == Init /\ [][Next]_vars

--------------------------------------------------------------------------------
(* Properties *)

HasJob(l) ==
  listing[l] # NoListing =>
    /\ listing[l].offer.valid <=> listing[l].job # None
    /\ listing[l].job # None => Exists(listing[l].job)

(* Rows and processes keep their types, and J1: a listing is attached to a *)
(* job that exists unless it was quarantined (job-repo.ts, insertQuarantine *)
(* and ingestJob).                                                         *)
TypeOK ==
  /\ job \in [Jobs -> JobRow]
  /\ listing \in [Listings -> ListingRow]
  /\ review \in [Jobs -> ReviewRow]
  /\ targets \subseteq Targets
  /\ worker \in [Workers -> Ingestion]
  /\ decider \in [Users -> Deciding]
  /\ crashes \in 0..MaxCrashes
  /\ \A l \in Listings : HasJob(l)

Alike(j, k, score) == j # k /\ Block[j] = Block[k] /\ Score[j][k] >= score
BothActive(j, k) == job[j].status = "active" /\ job[k].status = "active"

(* Equivalent offers do not become two jobs: no two active jobs of one     *)
(* company and location are as similar as an automatic merge asks for,     *)
(* however their ingestions interleaved (the lock of job-repo.ts:271-279). *)
NoTwins == \A j, k \in Jobs : BothActive(j, k) => ~Alike(j, k, High)

(* The gray zone is not passed over in silence: of two active jobs that    *)
(* similar, at least one was put to a human when it was created (job-      *)
(* repo.ts:410-436).                                                       *)
GrayZoneAsked ==
  \A j, k \in Jobs :
    BothActive(j, k) /\ Alike(j, k, Medium) => review[j] # NoReview \/ review[k] # NoReview

(* Decisions never archive a vacancy away: a company and location with a   *)
(* job keep one that is not archived, whatever reviews are decided, in     *)
(* what order and how often (dedup-repo.ts, decideReview).                 *)
VacancyKept ==
  \A j \in Jobs : Exists(j) => \E k \in Jobs : Block[k] = Block[j] /\ InCatalogue(k)

(* Without crashes, a job does not stay active with a listing that the     *)
(* hard filters refused, except while the rejection is under way or when a *)
(* human merged another job into it (ingest-service.ts:128-145).           *)
RefusedIsRejected ==
  crashes = 0 =>
    \A l \in Listings :
      \/ listing[l].job = None
      \/ job[listing[l].job].status # "active"
      \/ listing[l].offer.eligible
      \/ \E w \in Workers : At(w, "filter") /\ worker[w].job = listing[l].job
      \/ \E k \in Jobs : /\ review[k].candidate = listing[l].job
                         /\ review[k].decision \in Decision

(* What was merged away stays away: an offer is never sent to a job that   *)
(* is archived when it is looked up (the look-ups by URL and by dedup key  *)
(* in ingestJob; the fuzzy one asks for the status), for its listing would *)
(* belong to a job that nobody is shown.                                   *)
ArchivedIsLeft ==
  [][\A w \in Workers :
       At(w, "idle") /\ worker'[w].step = "join"
         => job[worker'[w].job].status # "archived"]_vars

(* What dedup-repo.ts:54 and its test promise of a merge: the archived job *)
(* keeps no listing, whatever else is decided.                             *)
ArchivedIsEmpty == \A k \in Jobs : job[k].status = "archived" => ListingsOf(k) = {}

(* What all of this promises of the catalogue (JobCatalogue): listings are *)
(* found once and move by human merges only, and a job opens apart from    *)
(* those it resembles (ingestJob and decideReview, however they overlap).  *)
Catalogue == INSTANCE JobCatalogue
               WITH status <- [k \in Jobs |-> job[k].status],
                    rival <- [k \in Jobs |-> review[k].candidate],
                    known <- {l \in Listings : listing[l] # NoListing},
                    found <- [l \in Listings |-> listing[l].job]

ImplementsCatalogue == Catalogue!CatalogueSpec
================================================================================
