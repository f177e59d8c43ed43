------------------------------ MODULE CrawlProofs ------------------------------
(***************************************************************************)
(* What holds of Crawl for every number of runs and executions, every      *)
(* listing that ends at its first empty page, and every limit, window and  *)
(* penalty of the rate limiter.                                            *)
(***************************************************************************)
EXTENDS Crawl, TLAPS

(* A job is in the queue only for a run that was started.                  *)
JobOK(r) ==
  IF job[r].state = "none" THEN job[r].attempt = 0 /\ job[r].stalls = 0
                           ELSE job[r].attempt >= 1 /\ child[r] # "none"

(* An execution holds a job, a page within bounds and new jobs that are    *)
(* known as such; an idle one holds no new job.                            *)
WorkerOK(w) ==
  /\ worker[w].new \subseteq open
  /\ worker[w].at = "idle" => worker[w].new = {}
  /\ worker[w].at # "idle" =>
       /\ worker[w].run \in Runs /\ job[worker[w].run].state # "none"
       /\ worker[w].page \in 1 .. MAX_PAGES

(* The pages an execution has left behind are known, and of the one it is  *)
(* at all but what it still has in hand.                                   *)
Reading(w) ==
  worker[w].at # "idle" =>
    /\ \A p \in 1 .. worker[w].page - 1 : Relevant(p) \subseteq known
    /\ worker[w].at = "ingesting" =>
         /\ Relevant(worker[w].page) \subseteq known \cup worker[w].jobs
         /\ worker[w].hasMore = HasMore(worker[w].page)

(* Requests are let through only by counting them.                         *)
Counted == admitted <= count

Basis ==
  /\ TypeOK /\ Counted
  /\ \A r \in Runs : JobOK(r)
  /\ \A w \in Workers : WorkerOK(w)

IInv ==
  /\ Basis
  /\ \A w \in Workers : Reading(w)
  /\ CompletedMissesNothing /\ NewIsHandedOver

Job == [state : {"none", "waiting", "active", "completed", "failed"},
        attempt : 0 .. MaxAttempts, stalls : 0 .. MaxStalls]

Execution ==
  [at : States, run : Runs \cup {None}, page : 0 .. MAX_PAGES, jobs : SUBSET Offers,
   hasMore : BOOLEAN, new : SUBSET Offers, sleep : 0 .. MaxWait]

(* Lemma: the type of an execution, for every field a step gives it.       *)
LEMMA ExecutionFields ==
  ASSUME NEW e \in Execution
  PROVE  /\ \A at \in States : [e EXCEPT !.at = at] \in Execution
         /\ \A at \in States, n \in 0 .. MaxWait :
              [e EXCEPT !.at = at, !.sleep = n] \in Execution
         /\ \A n \in 0 .. MaxWait : [e EXCEPT !.sleep = n] \in Execution
         /\ \A S \in SUBSET Offers : [e EXCEPT !.new = S] \in Execution
         /\ \A at \in States, p \in 0 .. MAX_PAGES :
              [e EXCEPT !.at = at, !.page = p] \in Execution
         /\ \A at \in States, S \in SUBSET Offers, more \in BOOLEAN :
              [e EXCEPT !.at = at, !.jobs = S, !.hasMore = more] \in Execution
         /\ \A S, T \in SUBSET Offers : [e EXCEPT !.jobs = S, !.new = T] \in Execution
  BY DEF Execution

(* Lemma: an execution that ends, or takes a job, is typed.                *)
LEMMA IdleTyped ==
  /\ Idle \in Execution
  /\ \A r \in Runs : [Idle EXCEPT !.at = "checking", !.run = r, !.page = 1] \in Execution
<1>1. 0 \in 0 .. MAX_PAGES /\ 1 \in 0 .. MAX_PAGES /\ 0 \in 0 .. MaxWait
  BY RunsAssumption, LimiterAssumption
<1> QED BY <1>1 DEF Idle, Execution, States

(* Lemma: TypeOK has the executions among its parts.                       *)
LEMMA ExecutionTyped ==
  ASSUME TypeOK, NEW w \in Workers
  PROVE  /\ worker \in [Workers -> Execution] /\ worker[w] \in Execution
         /\ worker[w].sleep \in 0 .. MaxWait /\ worker[w].page \in 0 .. MAX_PAGES
         /\ worker[w].jobs \subseteq Offers /\ worker[w].new \subseteq Offers
  BY DEF TypeOK, Execution

(* Lemma: a page holds offers of the site.                                 *)
LEMMA PageOfOffers ==
  ASSUME NEW p \in Nat \ {0}
  PROVE  Page(p) \subseteq Offers /\ Relevant(p) \subseteq Page(p)
  BY ListingAssumption DEF Page, Relevant

(* Lemma: after a page without a next one there is nothing.                *)
LEMMA NothingAfterTheLast ==
  ASSUME NEW p \in Nat \ {0}, NEW q \in Nat, q > p, ~HasMore(p)
  PROVE  Relevant(q) = {}
<1>1. Len(Listing) \in Nat
  BY ListingAssumption
<1>2. q > Len(Listing)
  <2>1. CASE p < Len(Listing)
    BY <1>1, <2>1, ListingAssumption DEF HasMore, Page
  <2>2. CASE ~(p < Len(Listing))
    BY <1>1, <2>2
  <2> QED BY <2>1, <2>2
<1> QED BY <1>1, <1>2 DEF Relevant, Page

--------------------------------------------------------------------------------
(* The steps of the rate limiter *)

(* Lemma: counting a request keeps the limit.                              *)
LEMMA CountKeepsLimit ==
  ASSUME Basis, NEW w \in Workers, CountRequest(w)
  PROVE  count' \in 0 .. Limit /\ admitted' \in Nat /\ admitted' <= count'
  BY LimiterAssumption DEF Basis, TypeOK, Counted, CountRequest, Least

(* Lemma: a penalty is within its bounds.                                  *)
LEMMA PenaltyInBounds ==
  ASSUME NEW retryAfter \in RetryAfters
  PROVE  Penalty(retryAfter) \in 0 .. MaxPenalty
  BY LimiterAssumption DEF Penalty, Least, Greatest

(* Lemma: the end of an attempt keeps the basis, whoever it is for.        *)
LEMMA FailKeepsBasis ==
  ASSUME Basis, NEW w \in Workers, NEW retryable \in BOOLEAN, worker[w].at # "idle",
         FailSource(w, retryable),
         blocked' \in 0 .. MaxPenalty, UNCHANGED <<window, count, admitted>>
  PROVE  Basis'
<1> DEFINE r == worker[w].run
<1>1. r \in Runs /\ job[r].state # "none" /\ job[r].attempt \in Nat /\ child[r] # "none"
  BY DEF Basis, WorkerOK, JobOK, TypeOK
<1>2. job' \in [Runs -> Job] /\ \A q \in Runs : job'[q].state = "none" <=> job[q].state = "none"
  BY <1>1, RunsAssumption DEF Basis, TypeOK, FailSource, Job
<1>3. worker' \in [Workers -> Execution]
  <2>1. worker' = [worker EXCEPT ![w] = Idle] \/ Go(w, "signalling")
    BY DEF FailSource
  <2>2. CASE worker' = [worker EXCEPT ![w] = Idle]
    BY <2>2, ExecutionTyped, IdleTyped DEF Basis
  <2>3. CASE Go(w, "signalling")
    BY <2>3, ExecutionTyped, ExecutionFields DEF Basis, Go, States
  <2> QED BY <2>1, <2>2, <2>3
<1>4. TypeOK'
  BY <1>1, <1>2, <1>3 DEF Basis, TypeOK, FailSource, Job, Execution
<1>5. \A q \in Runs : JobOK(q)'
  BY <1>1, <1>2, RunsAssumption DEF Basis, TypeOK, FailSource, JobOK
<1>6. \A v \in Workers : WorkerOK(v)'
  <2>1. /\ \/ worker'[w] = Idle
           \/ /\ worker'[w].at = "signalling" /\ worker'[w].new = worker[w].new
              /\ worker'[w].run = worker[w].run /\ worker'[w].page = worker[w].page
        /\ \A v \in Workers \ {w} : worker'[v] = worker[v]
    <3>1. worker' = [worker EXCEPT ![w] = Idle] \/ Go(w, "signalling")
      BY DEF FailSource
    <3>2. worker \in [Workers -> Execution] /\ worker[w] \in Execution
      BY ExecutionTyped DEF Basis
    <3> QED BY <3>1, <3>2 DEF Go, Execution
  <2>2. open' = open
    BY DEF FailSource
  <2> QED BY <1>1, <1>2, <2>1, <2>2 DEF Basis, WorkerOK, Idle
<1> QED BY <1>4, <1>5, <1>6 DEF Basis, Counted

(* Lemma: every step keeps the basis.                                      *)
LEMMA BasisStep ==
  ASSUME Basis, [Next]_vars
  PROVE  Basis'
<1> USE DEF Job
<1>1. ASSUME NEW r \in Runs, NEW status \in {"active", "paused", "blocked"},
             startRun(r, status)
      PROVE  Basis'
  <2>1. TypeOK'
    BY <1>1, RunsAssumption DEF Basis, TypeOK, startRun, limiter
  <2>2. \A q \in Runs : JobOK(q)' /\ (job[q].state # "none" => job'[q].state # "none")
    BY <1>1, RunsAssumption DEF Basis, TypeOK, startRun, JobOK
  <2>3. \A v \in Workers : WorkerOK(v)'
    BY <1>1, <2>2 DEF Basis, startRun, WorkerOK
  <2> QED BY <1>1, <2>1, <2>2, <2>3 DEF Basis, startRun, limiter, Counted
<1>2. ASSUME NEW w \in Workers, NEW r \in Runs, TakeJob(w, r)
      PROVE  Basis'
  <2>1. TypeOK'
    <3>1. worker' \in [Workers -> Execution]
      BY <1>2, ExecutionTyped, IdleTyped DEF Basis, TakeJob
    <3> QED BY <1>2, <3>1 DEF Basis, TypeOK, TakeJob, limiter, Execution
  <2>2. \A q \in Runs : JobOK(q)' /\ (job[q].state # "none" => job'[q].state # "none")
    BY <1>2 DEF Basis, TypeOK, TakeJob, JobOK
  <2>3. \A v \in Workers : WorkerOK(v)'
    BY <1>2, <2>2, RunsAssumption DEF Basis, TypeOK, TakeJob, WorkerOK, Idle
  <2> QED BY <1>2, <2>1, <2>2, <2>3 DEF Basis, TakeJob, limiter, Counted
<1>3. ASSUME NEW w \in Workers, CheckBlock(w)
      PROVE  Basis'
  <2>1. TypeOK'
    <3>1. Least(blocked, MaxWait) \in 0 .. MaxWait
      BY LimiterAssumption DEF Basis, TypeOK, Least
    <3>2. worker' \in [Workers -> Execution]
      <4>1. CASE Sleep(w, blocked)
        BY <3>1, <4>1, ExecutionTyped, ExecutionFields DEF Basis, Sleep, States
      <4>2. CASE Go(w, "counting")
        BY <4>2, ExecutionTyped, ExecutionFields DEF Basis, Go, States
      <4> QED BY <1>3, <4>1, <4>2 DEF CheckBlock
    <3> QED BY <1>3, <3>2 DEF Basis, TypeOK, CheckBlock, limiter, Execution
  <2>2. \A v \in Workers : WorkerOK(v)'
    BY <1>3 DEF Basis, TypeOK, CheckBlock, Sleep, Go, WorkerOK
  <2> QED BY <1>3, <2>1, <2>2 DEF Basis, CheckBlock, JobOK, limiter, Counted
<1>4. ASSUME NEW w \in Workers, CountRequest(w)
      PROVE  Basis'
  <2>1. count' \in 0 .. Limit /\ admitted' \in Nat /\ admitted' <= count'
    BY <1>4, CountKeepsLimit
  <2>2. worker' \in [Workers -> Execution]
    <3>1. Least(window, MaxWait) \in 0 .. MaxWait
      BY LimiterAssumption DEF Basis, TypeOK, Least
    <3> QED
      <4>1. CASE Sleep(w, window)
        BY <3>1, <4>1, ExecutionTyped, ExecutionFields DEF Basis, Sleep, States
      <4>2. CASE Go(w, "sent")
        BY <4>2, ExecutionTyped, ExecutionFields DEF Basis, Go, States
      <4> QED BY <1>4, <4>1, <4>2 DEF CountRequest
  <2>3. TypeOK'
    BY <1>4, <2>1, <2>2 DEF Basis, TypeOK, CountRequest, Execution
  <2>4. \A v \in Workers : WorkerOK(v)'
    BY <1>4 DEF Basis, TypeOK, CountRequest, Sleep, Go, WorkerOK
  <2> QED BY <1>4, <2>1, <2>3, <2>4 DEF Basis, CountRequest, JobOK, Counted
<1>5. ASSUME NEW w \in Workers, AnswerPage(w)
      PROVE  Basis'
  <2>1. /\ worker[w].page \in Nat \ {0}
        /\ Relevant(worker[w].page) \subseteq Offers /\ HasMore(worker[w].page) \in BOOLEAN
    BY <1>5, PageOfOffers, RunsAssumption DEF Basis, WorkerOK, AnswerPage, HasMore
  <2>2. TypeOK'
    <3>1. worker' \in [Workers -> Execution]
      BY ZenonT(60), <1>5, <2>1, ExecutionTyped, ExecutionFields DEF Basis, AnswerPage, searchJobs, States
    <3> QED BY <1>5, <3>1 DEF Basis, TypeOK, AnswerPage, limiter, Execution
  <2>3. \A v \in Workers : WorkerOK(v)'
    BY <1>5 DEF Basis, TypeOK, AnswerPage, WorkerOK
  <2> QED BY <1>5, <2>2, <2>3 DEF Basis, AnswerPage, JobOK, limiter, Counted
<1>6. ASSUME NEW w \in Workers, NEW retryAfter \in RetryAfters,
             AnswerRateLimited(w, retryAfter)
      PROVE  Basis'
  BY <1>6, PenaltyInBounds, FailKeepsBasis DEF AnswerRateLimited, penalize
<1>7. ASSUME NEW w \in Workers, NEW retryable \in BOOLEAN, AnswerError(w, retryable)
      PROVE  Basis'
  BY <1>7, FailKeepsBasis DEF AnswerError, limiter, Basis, TypeOK
<1>8. ASSUME NEW w \in Workers, NEW o \in Offers,
             NEW outcome \in {"new", "rejected", "duplicate"}, IngestOffer(w, o, outcome)
      PROVE  Basis'
  <2>1. TypeOK'
    <3>1. worker' \in [Workers -> Execution]
      BY ZenonT(60), <1>8, ExecutionTyped, ExecutionFields DEF Basis, IngestOffer
    <3> QED BY <1>8, <3>1 DEF Basis, TypeOK, IngestOffer, limiter, Execution
  <2>2. \A v \in Workers : WorkerOK(v)'
    BY <1>8 DEF Basis, TypeOK, IngestOffer, WorkerOK
  <2> QED BY <1>8, <2>1, <2>2 DEF Basis, IngestOffer, JobOK, limiter, Counted
<1>9. ASSUME NEW w \in Workers, DatabaseFails(w)
      PROVE  Basis'
  BY <1>9, FailKeepsBasis DEF DatabaseFails, limiter, Basis, TypeOK
<1>10. ASSUME NEW w \in Workers, PageDone(w)
       PROVE  Basis'
  <2>1. TypeOK'
    <3>1. worker[w].page < MAX_PAGES => worker[w].page + 1 \in 0 .. MAX_PAGES
      BY ExecutionTyped, RunsAssumption DEF Basis
    <3>2. worker' \in [Workers -> Execution]
      <4>1. CASE worker[w].hasMore /\ worker[w].page < MAX_PAGES
        <5>1. worker' = [worker EXCEPT ![w].at = "checking", ![w].page = @ + 1]
          BY <1>10, <4>1 DEF PageDone
        <5>2. "checking" \in States /\ worker[w].page + 1 \in 0 .. MAX_PAGES
          BY <3>1, <4>1 DEF States
        <5>3. [worker[w] EXCEPT !.at = "checking", !.page = worker[w].page + 1] \in Execution
          BY <5>2, ExecutionTyped, ExecutionFields DEF Basis
        <5> QED BY <5>1, <5>3, ExecutionTyped DEF Basis
      <4>2. CASE ~(worker[w].hasMore /\ worker[w].page < MAX_PAGES)
        <5>1. Go(w, "signalling")
          BY <1>10, <4>2 DEF PageDone
        <5> QED BY <5>1, ExecutionTyped, ExecutionFields DEF Basis, Go, States
      <4> QED BY <4>1, <4>2
    <3>3. child' \in [Runs -> {"none", "running", "skipped", "completed", "failed"}]
      BY <1>10 DEF Basis, TypeOK, PageDone
    <3> QED BY <1>10, <3>2, <3>3 DEF Basis, TypeOK, PageDone, limiter, Execution
  <2>2. \A v \in Workers : WorkerOK(v)'
    BY <1>10, RunsAssumption DEF Basis, TypeOK, PageDone, Go, WorkerOK
  <2>3. \A q \in Runs : JobOK(q)'
    BY <1>10 DEF Basis, TypeOK, PageDone, JobOK
  <2> QED BY <1>10, <2>1, <2>2, <2>3 DEF Basis, PageDone, limiter, Counted
<1>11. ASSUME NEW w \in Workers, NEW o \in Offers, NEW added \in BOOLEAN,
              SignalMatch(w, o, added)
       PROVE  Basis'
  <2>1. TypeOK'
    <3>1. worker' \in [Workers -> Execution]
      BY <1>11, ExecutionTyped, ExecutionFields DEF Basis, SignalMatch
    <3>2. o \in open
      BY <1>11 DEF Basis, SignalMatch, WorkerOK
    <3> QED BY <1>11, <3>1, <3>2 DEF Basis, TypeOK, SignalMatch, limiter, Execution
  <2>2. \A v \in Workers : WorkerOK(v)'
    BY <1>11 DEF Basis, TypeOK, SignalMatch, WorkerOK
  <2> QED BY <1>11, <2>1, <2>2 DEF Basis, SignalMatch, JobOK, limiter, Counted
<1>12. ASSUME NEW w \in Workers, EndJob(w)
       PROVE  Basis'
  <2>1. TypeOK'
    <3>1. worker' \in [Workers -> Execution]
      BY <1>12, ExecutionTyped, IdleTyped DEF Basis, EndJob
    <3> QED BY ZenonT(60), <1>12, <3>1 DEF Basis, TypeOK, EndJob, limiter, Execution
  <2>2. \A q \in Runs : JobOK(q)' /\ (job[q].state # "none" => job'[q].state # "none")
    BY <1>12 DEF Basis, TypeOK, EndJob, JobOK, WorkerOK
  <2>3. \A v \in Workers : WorkerOK(v)'
    BY <1>12, <2>2 DEF Basis, TypeOK, EndJob, WorkerOK, Idle
  <2> QED BY <1>12, <2>1, <2>2, <2>3 DEF Basis, EndJob, limiter, Counted
<1>13. ASSUME NEW w \in Workers, Crash(w)
       PROVE  Basis'
  <2>1. TypeOK'
    <3>1. worker' \in [Workers -> Execution]
      BY <1>13, ExecutionTyped, IdleTyped DEF Basis, Crash
    <3>2. job' \in [Runs -> Job]
      BY <1>13, RunsAssumption DEF Basis, TypeOK, Crash, Least, WorkerOK
    <3> QED BY <1>13, <3>1, <3>2 DEF Basis, TypeOK, Crash, limiter, Execution
  <2>2. \A q \in Runs : JobOK(q)' /\ (job[q].state # "none" => job'[q].state # "none")
    BY <1>13 DEF Basis, TypeOK, Crash, JobOK, WorkerOK
  <2>3. \A v \in Workers : WorkerOK(v)'
    BY <1>13, <2>2 DEF Basis, TypeOK, Crash, WorkerOK, Idle
  <2> QED BY <1>13, <2>1, <2>2, <2>3 DEF Basis, Crash, limiter, Counted
<1>14. CASE Tick
  <2>1. /\ blocked' \in 0 .. MaxPenalty /\ window' \in 1 .. WindowLen
        /\ count' \in 0 .. Limit /\ admitted' \in Nat /\ admitted' <= count'
    <3>1. /\ blocked \in 0 .. MaxPenalty /\ window \in 1 .. WindowLen /\ count \in 0 .. Limit
          /\ admitted \in Nat /\ admitted <= count
      BY DEF Basis, TypeOK, Counted
    <3>2. MaxPenalty \in Nat /\ WindowLen \in Nat \ {0} /\ Limit \in Nat \ {0}
      BY LimiterAssumption
    <3>3. blocked' \in 0 .. MaxPenalty
      BY <1>14, <3>1, <3>2 DEF Tick, Down
    <3> QED BY <1>14, <3>1, <3>2, <3>3 DEF Tick
  <2>2. worker' \in [Workers -> Execution]
    <3>1. ASSUME NEW v \in Workers PROVE Down(worker[v].sleep) \in 0 .. MaxWait
      <4>1. worker[v].sleep \in 0 .. MaxWait /\ MaxWait \in Nat
        BY ExecutionTyped, LimiterAssumption DEF Basis
      <4> QED BY <4>1 DEF Down
    <3> QED BY <1>14, <3>1, ExecutionTyped, ExecutionFields DEF Basis, Tick
  <2>3. TypeOK'
    BY <1>14, <2>1, <2>2 DEF Basis, TypeOK, Tick, Execution
  <2>4. \A v \in Workers : WorkerOK(v)'
    BY ZenonT(60), <1>14 DEF Basis, TypeOK, Tick, WorkerOK
  <2> QED BY <1>14, <2>1, <2>3, <2>4 DEF Basis, Tick, JobOK, Counted
<1>15. CASE UNCHANGED vars
  BY <1>15 DEF Basis, TypeOK, Counted, JobOK, WorkerOK, vars, limiter
<1> QED
  BY <1>1, <1>2, <1>3, <1>4, <1>5, <1>6, <1>7, <1>8, <1>9, <1>10, <1>11, <1>12, <1>13,
     <1>14, <1>15 DEF Next, Step, Answer, Ingest, Handler

--------------------------------------------------------------------------------
(* What was read, and what is handed over *)

(* Lemma: the pages an execution has read stay known.                      *)
LEMMA ReadingKept ==
  ASSUME Basis, NEW v \in Workers, Reading(v), known \subseteq known',
         worker'[v].at # "idle" => worker[v].at # "idle" /\ worker'[v].page = worker[v].page,
         worker'[v].at = "ingesting" =>
           /\ worker[v].at = "ingesting" /\ worker'[v].hasMore = worker[v].hasMore
           /\ worker[v].jobs \subseteq known' \cup worker'[v].jobs
  PROVE  Reading(v)'
  BY DEF Reading, Relevant, Page, HasMore

(* Lemma: every step keeps what Reading says of an execution.              *)
LEMMA ReadingStep ==
  ASSUME Basis, [Next]_vars, NEW v \in Workers, Reading(v)
  PROVE  Reading(v)'
<1>0. worker \in [Workers -> Execution] /\ worker[v] \in Execution
  BY ExecutionTyped DEF Basis
<1> USE <1>0 DEF Execution
<1>1. ASSUME NEW r \in Runs, NEW status \in {"active", "paused", "blocked"},
             startRun(r, status)
      PROVE  Reading(v)'
  BY <1>1, ReadingKept DEF startRun
<1>2. ASSUME NEW w \in Workers, NEW r \in Runs, TakeJob(w, r)
      PROVE  Reading(v)'
  <2>1. CASE v = w
    BY <1>2, <2>1 DEF TakeJob, Reading, Idle
  <2>2. CASE v # w
    BY <1>2, <2>2, ReadingKept DEF TakeJob
  <2> QED BY <2>1, <2>2
<1>3. ASSUME NEW w \in Workers, CheckBlock(w)
      PROVE  Reading(v)'
  BY <1>3, ReadingKept DEF CheckBlock, Sleep, Go
<1>4. ASSUME NEW w \in Workers, CountRequest(w)
      PROVE  Reading(v)'
  BY <1>4, ReadingKept DEF CountRequest, Sleep, Go
<1>5. ASSUME NEW w \in Workers, AnswerPage(w)
      PROVE  Reading(v)'
  <2>1. CASE v = w
    <3>1. /\ worker'[w].at = "ingesting" /\ worker'[w].page = worker[w].page
          /\ worker'[w].jobs = Relevant(worker[w].page)
          /\ worker'[w].hasMore = HasMore(worker[w].page) /\ known' = known
      BY <1>5, <2>1 DEF AnswerPage, searchJobs
    <3> QED BY <1>5, <2>1, <3>1 DEF Reading, AnswerPage
  <2>2. CASE v # w
    BY <1>5, <2>2, ReadingKept DEF AnswerPage
  <2> QED BY <2>1, <2>2
<1>6. ASSUME NEW w \in Workers, NEW retryable \in BOOLEAN, worker[w].at # "idle",
             FailSource(w, retryable)
      PROVE  Reading(v)'
  <2>1. (worker' = [worker EXCEPT ![w] = Idle] \/ Go(w, "signalling")) /\ known' = known
    BY <1>6 DEF FailSource
  <2> QED BY <1>6, <2>1, ReadingKept DEF Go, Idle
<1>7. ASSUME NEW w \in Workers, NEW o \in Offers,
             NEW outcome \in {"new", "rejected", "duplicate"}, IngestOffer(w, o, outcome)
      PROVE  Reading(v)'
  <2>1. known \subseteq known' /\ o \in known'
    BY <1>7 DEF IngestOffer
  <2>2. CASE v = w
    BY <1>7, <2>1, <2>2, ReadingKept DEF IngestOffer
  <2>3. CASE v # w
    BY <1>7, <2>1, <2>3, ReadingKept DEF IngestOffer
  <2> QED BY <2>2, <2>3
<1>8. ASSUME NEW w \in Workers, PageDone(w)
      PROVE  Reading(v)'
  <2>1. CASE v = w /\ worker[w].hasMore /\ worker[w].page < MAX_PAGES
    <3>1. /\ worker'[w].at = "checking" /\ worker'[w].page = worker[w].page + 1
          /\ known' = known
      BY <1>8, <2>1 DEF PageDone
    <3>2. /\ worker[w].page \in Nat
          /\ \A p \in 1 .. worker[w].page - 1 : Relevant(p) \subseteq known
          /\ Relevant(worker[w].page) \subseteq known
      BY <1>8, <2>1, RunsAssumption DEF PageDone, Reading
    <3>3. ASSUME NEW p \in 1 .. worker'[w].page - 1 PROVE Relevant(p) \subseteq known
      <4>1. p \in 1 .. worker[w].page - 1 \/ p = worker[w].page
        BY <3>1, <3>2
      <4> QED BY <3>2, <4>1
    <3> QED BY <2>1, <3>1, <3>3 DEF Reading, Relevant, Page
  <2>2. CASE ~(v = w /\ worker[w].hasMore /\ worker[w].page < MAX_PAGES)
    <3>1. /\ v = w => worker'[v] = [worker[v] EXCEPT !.at = "signalling"]
          /\ v # w => worker'[v] = worker[v]
          /\ known' = known /\ worker[w].at = "ingesting"
      BY <1>8, <2>2 DEF PageDone, Go
    <3> QED BY <3>1, ReadingKept
  <2> QED BY <2>1, <2>2
<1>9. ASSUME NEW w \in Workers, NEW o \in Offers, NEW added \in BOOLEAN,
             SignalMatch(w, o, added)
      PROVE  Reading(v)'
  BY <1>9, ReadingKept DEF SignalMatch
<1>10. ASSUME NEW w \in Workers, EndJob(w) \/ Crash(w)
       PROVE  Reading(v)'
  BY <1>10, ReadingKept DEF EndJob, Crash, Idle
<1>11. CASE Tick
  BY <1>11, ReadingKept DEF Tick
<1>12. CASE UNCHANGED vars
  BY <1>12, ReadingKept DEF vars
<1> QED
  BY <1>1, <1>2, <1>3, <1>4, <1>5, <1>6, <1>7, <1>8, <1>9, <1>10, <1>11, <1>12
  DEF Next, Step, Answer, Ingest, Handler, AnswerRateLimited, AnswerError, DatabaseFails

(* Lemma: what is known stays known.                                       *)
LEMMA KnownGrows ==
  ASSUME [Next]_vars
  PROVE  known \subseteq known'
  BY ZenonT(60) DEF Next, Step, Answer, Ingest, Handler, startRun, TakeJob, CheckBlock, CountRequest,
         AnswerPage, AnswerRateLimited, AnswerError, FailSource, IngestOffer, DatabaseFails,
         PageDone, SignalMatch, EndJob, Crash, Tick, vars

(* Lemma: an execution that ends its child has read all that is relevant.  *)
LEMMA AllWasRead ==
  ASSUME Basis, NEW w \in Workers, Reading(w), PageDone(w),
         ~(worker[w].hasMore /\ worker[w].page < MAX_PAGES), NEW p \in 1 .. MAX_PAGES
  PROVE  Relevant(p) \subseteq known
<1>1. /\ worker[w].at = "ingesting" /\ worker[w].jobs = {}
      /\ worker[w].page \in 1 .. MAX_PAGES
  BY DEF PageDone, Basis, WorkerOK
<1>2. CASE p < worker[w].page
  BY <1>1, <1>2, RunsAssumption DEF Reading
<1>3. CASE p = worker[w].page
  BY <1>1, <1>3 DEF Reading
<1>4. CASE p > worker[w].page
  <2>1. ~HasMore(worker[w].page)
    BY <1>1, <1>4, RunsAssumption DEF Reading
  <2> QED BY <1>1, <1>4, <2>1, NothingAfterTheLast, RunsAssumption
<1> QED BY <1>1, <1>2, <1>3, <1>4, RunsAssumption

(* Lemma: a child becomes complete at its last page only.                  *)
LEMMA CompletedStep ==
  ASSUME Basis, \A w \in Workers : Reading(w), CompletedMissesNothing, [Next]_vars
  PROVE  CompletedMissesNothing'
<1> SUFFICES ASSUME NEW r \in Runs, child'[r] = "completed", NEW p \in 1 .. MAX_PAGES
             PROVE  Relevant(p) \subseteq known
  BY KnownGrows DEF CompletedMissesNothing, Relevant, Page
<1>1. CASE child[r] = "completed"
  BY <1>1 DEF CompletedMissesNothing
<1>2. CASE child[r] # "completed"
  <2>1. PICK w \in Workers : PageDone(w)
    BY ZenonT(60), <1>2 DEF Basis, TypeOK, Next, Step, Answer, Ingest, Handler, startRun, TakeJob,
                CheckBlock, CountRequest, AnswerPage, AnswerRateLimited, AnswerError,
                FailSource, IngestOffer, DatabaseFails, SignalMatch, EndJob, Crash, Tick, vars
  <2>2. ~(worker[w].hasMore /\ worker[w].page < MAX_PAGES)
    BY <1>2, <2>1 DEF PageDone
  <2> QED BY <2>1, <2>2, AllWasRead
<1> QED BY <1>1, <1>2

(* No crawl was retried or died.                                           *)
Calm == \A r \in Runs : job[r].attempt <= 1 /\ job[r].stalls = 0

InHand == UNION {worker[w].new : w \in Workers}

(* Lemma: troubles are not forgotten, and no calm step gives an attempt up *)
(* or is that of a process that dies.                                      *)
LEMMA CalmBefore ==
  ASSUME Basis, [Next]_vars, Calm'
  PROVE  /\ Calm
         /\ \A w \in Workers : ~Crash(w)
         /\ \A w \in Workers, retryable \in BOOLEAN :
              worker[w].at # "idle" /\ FailSource(w, retryable) => Go(w, "signalling")
<1>1. ASSUME NEW w \in Workers, worker[w].at # "idle"
      PROVE  /\ worker[w].run \in Runs /\ job[worker[w].run] \in Job
             /\ job[worker[w].run].attempt >= 1
  BY <1>1 DEF Basis, TypeOK, WorkerOK, JobOK, Job
<1>2. ASSUME NEW w \in Workers, NEW retryable \in BOOLEAN, worker[w].at # "idle",
             FailSource(w, retryable)
      PROVE  Go(w, "signalling") /\ job' = job
  <2> DEFINE r == worker[w].run
  <2>1. CASE retryable /\ job[r].attempt < MaxAttempts
    <3>1. r \in Runs /\ job'[r].attempt = job[r].attempt + 1
      BY <1>1, <1>2, <2>1 DEF FailSource, Basis, TypeOK
    <3> QED BY <1>1, <1>2, <3>1 DEF Calm, Job
  <2>2. CASE ~(retryable /\ job[r].attempt < MaxAttempts)
    BY <1>2, <2>2 DEF FailSource
  <2> QED BY <2>1, <2>2
<1>3. ASSUME NEW w \in Workers, Crash(w)
      PROVE  FALSE
  <2> DEFINE r == worker[w].run
  <2>1. r \in Runs /\ job'[r].stalls = Least(job[r].stalls + 1, MaxStalls)
    BY <1>1, <1>3 DEF Crash, Basis, TypeOK
  <2>2. job[r].stalls \in Nat
    BY <2>1 DEF Basis, TypeOK
  <2> QED BY <2>1, <2>2, RunsAssumption DEF Calm, Least
<1>4. ASSUME NEW r \in Runs
      PROVE  /\ job[r].attempt \in Nat /\ job[r].stalls \in Nat
             /\ child[r] = "none" => job[r].attempt = 0 /\ job[r].stalls = 0
  BY <1>4 DEF Basis, TypeOK, JobOK
<1>5. Calm
  <2>1. ASSUME NEW r \in Runs
        PROVE  /\ job[r].attempt <= job'[r].attempt /\ job[r].stalls <= job'[r].stalls
    <3>1. CASE job' = job
      BY <1>4, <3>1
    <3>2. CASE \E q \in Runs, status \in {"active", "paused", "blocked"} : startRun(q, status)
      BY <1>4, <3>2 DEF startRun, Basis, TypeOK
    <3>3. CASE \E w \in Workers, q \in Runs : TakeJob(w, q)
      BY <1>4, <3>3 DEF TakeJob, Basis, TypeOK
    <3>4. CASE \E w \in Workers : EndJob(w)
      BY <1>1, <1>4, <3>4 DEF EndJob, Basis, TypeOK
    <3> QED
      BY ZenonT(60), <1>2, <1>3, <3>1, <3>2, <3>3, <3>4
      DEF Next, Step, Answer, Ingest, Handler, CheckBlock, CountRequest, AnswerPage,
          AnswerRateLimited, AnswerError, IngestOffer, DatabaseFails, PageDone, SignalMatch,
          Tick, vars
  <2>2. ASSUME NEW r \in Runs
        PROVE  /\ job'[r].attempt \in Nat /\ job'[r].stalls \in Nat
               /\ job'[r].attempt <= 1 /\ job'[r].stalls = 0
    BY BasisStep DEF Calm, Basis, TypeOK
  <2> QED BY <1>4, <2>1, <2>2 DEF Calm
<1> QED BY <1>2, <1>3, <1>5

(* Lemma: a new job is taken in hand when it is found, and let go of when  *)
(* it is handed over or gone past.                                         *)
LEMMA HandedOverStep ==
  ASSUME Basis, [Next]_vars, NewIsHandedOver
  PROVE  NewIsHandedOver'
<1> SUFFICES ASSUME Calm' PROVE open' = signalled' \cup declined' \cup InHand'
  BY DEF NewIsHandedOver, Calm, InHand
<1>1. open = signalled \cup declined \cup InHand
  BY CalmBefore DEF NewIsHandedOver, Calm, InHand
<1>2. worker \in [Workers -> Execution]
  BY ExecutionTyped DEF Basis, TypeOK, Execution
<1>3. CASE /\ UNCHANGED <<open, signalled, declined>>
           /\ \A v \in Workers : worker'[v].new = worker[v].new
  BY <1>1, <1>3 DEF InHand
<1>4. ASSUME NEW w \in Workers, NEW o \in Offers,
             NEW outcome \in {"new", "rejected", "duplicate"}, IngestOffer(w, o, outcome)
      PROVE  open' = signalled' \cup declined' \cup InHand'
  <2>1. /\ \A v \in Workers \ {w} : worker'[v].new = worker[v].new
        /\ worker'[w].new = IF outcome = "new" THEN worker[w].new \cup {o} ELSE worker[w].new
        /\ open' = IF outcome = "new" THEN open \cup {o} ELSE open
        /\ UNCHANGED <<signalled, declined>>
    BY <1>2, <1>4 DEF IngestOffer, Execution
  <2>2. InHand' = IF outcome = "new" THEN InHand \cup {o} ELSE InHand
    BY <2>1 DEF InHand
  <2> QED BY <1>1, <2>1, <2>2
<1>5. ASSUME NEW w \in Workers, NEW o \in Offers, NEW added \in BOOLEAN,
             SignalMatch(w, o, added)
      PROVE  open' = signalled' \cup declined' \cup InHand'
  <2>1. /\ \A v \in Workers \ {w} : worker'[v].new = worker[v].new
        /\ worker'[w].new = worker[w].new \ {o} /\ o \in worker[w].new
        /\ signalled' \cup declined' = signalled \cup declined \cup {o} /\ open' = open
    BY <1>2, <1>5 DEF SignalMatch, Execution
  <2>2. InHand' \cup {o} = InHand
    BY <2>1 DEF InHand
  <2> QED BY <1>1, <2>1, <2>2
<1>6. ASSUME NEW w \in Workers, NEW retryable \in BOOLEAN, worker[w].at # "idle",
             FailSource(w, retryable)
      PROVE  open' = signalled' \cup declined' \cup InHand'
  <2>1. Go(w, "signalling") /\ UNCHANGED <<open, signalled, declined>>
    BY <1>6, CalmBefore DEF FailSource
  <2> QED BY <1>2, <1>3, <2>1 DEF Go, Execution
<1>7. ASSUME NEW w \in Workers, EndJob(w)
      PROVE  open' = signalled' \cup declined' \cup InHand'
  BY <1>2, <1>3, <1>7 DEF EndJob, Idle, Execution
<1>8. ASSUME NEW w \in Workers, NEW r \in Runs, TakeJob(w, r)
      PROVE  open' = signalled' \cup declined' \cup InHand'
  <2>1. worker[w].new = {}
    BY <1>8 DEF TakeJob, Basis, WorkerOK
  <2> QED BY <1>2, <1>3, <1>8, <2>1 DEF TakeJob, Idle, Execution
<1>9. ASSUME NEW w \in Workers,
             CheckBlock(w) \/ CountRequest(w) \/ AnswerPage(w) \/ PageDone(w)
      PROVE  open' = signalled' \cup declined' \cup InHand'
  BY <1>2, <1>3, <1>9 DEF CheckBlock, CountRequest, AnswerPage, PageDone, Sleep, Go, Execution
<1>10. CASE Tick
  BY <1>2, <1>3, <1>10 DEF Tick, Execution
<1>11. ASSUME NEW r \in Runs, NEW status \in {"active", "paused", "blocked"},
              startRun(r, status)
       PROVE  open' = signalled' \cup declined' \cup InHand'
  BY <1>3, <1>11 DEF startRun
<1>12. CASE UNCHANGED vars
  BY <1>3, <1>12 DEF vars
<1> QED
  BY CalmBefore, <1>4, <1>5, <1>6, <1>7, <1>8, <1>9, <1>10, <1>11, <1>12
  DEF Next, Step, Answer, Ingest, Handler, AnswerRateLimited, AnswerError, DatabaseFails

--------------------------------------------------------------------------------

(* Lemma: the initial states satisfy the invariant.                        *)
LEMMA InitIInv ==
  ASSUME Init
  PROVE  IInv
<1>1. Idle \in Execution /\ worker = [w \in Workers |-> Idle]
  BY IdleTyped DEF Init
<1>2. TypeOK
  BY <1>1, LimiterAssumption, RunsAssumption DEF Init, TypeOK, Execution
<1>3. NewIsHandedOver
  BY DEF Init, NewIsHandedOver, Idle
<1> QED
  BY <1>2, <1>3
  DEF Init, IInv, Basis, Counted, JobOK, WorkerOK, Reading, CompletedMissesNothing, Idle

(* Theorem: the invariant holds in every reachable state.                  *)
THEOREM Invariant == Spec => []IInv
<1>1. Init => IInv
  BY InitIInv
<1>2. IInv /\ [Next]_vars => IInv'
  BY BasisStep, ReadingStep, CompletedStep, HandedOverStep DEF IInv
<1> QED BY <1>1, <1>2, PTL DEF Spec

(* Theorem: every reachable state is well typed; new jobs, handed over or  *)
(* gone past, are jobs that were ingested (runSource, 'ingest.source').    *)
THEOREM TypeCorrect == Spec => []TypeOK
<1>1. IInv => TypeOK
  BY DEF IInv, Basis
<1> QED BY <1>1, Invariant, PTL

(* Theorem: whatever the number of executions and the limits, no window    *)
(* admits more requests than the limit (acquire of rate-limiter.ts).       *)
THEOREM RateIsRespected == Spec => []RateRespected
<1>1. IInv => RateRespected
  BY LimiterAssumption DEF IInv, Basis, Counted, TypeOK, RateRespected
<1> QED BY <1>1, Invariant, PTL

(* Theorem: a completed child has stored every relevant offer of its pages *)
(* (runSource, and the filter the adapters apply before hasMore).          *)
THEOREM NothingIsMissed == Spec => []CompletedMissesNothing
<1>1. IInv => CompletedMissesNothing
  BY DEF IInv
<1> QED BY <1>1, Invariant, PTL

(* Theorem: without a retry or a crash no new job is forgotten on its way  *)
(* to matching (newJobIds of runSource and the handler's loop).            *)
THEOREM NewIsNotForgotten == Spec => []NewIsHandedOver
<1>1. IInv => NewIsHandedOver
  BY DEF IInv
<1> QED BY <1>1, Invariant, PTL

================================================================================
