-------------------------------- MODULE Crawl --------------------------------
(***************************************************************************)
(* The crawl of one job board: startRun queues an ingest.source job per    *)
(* run, two of which the worker may execute at once; each attempt asks the *)
(* rate limiter for permission, requests a page, ingests its offers one by *)
(* one and goes on to the next page; at the end the handler queues one     *)
(* matching job per new offer.  The site may answer with an error or with  *)
(* a Retry-After, the process may die between any two steps, and the user  *)
(* may pause or block the source.                                          *)
(*                                                                         *)
(* Time is counted in ticks.  The listing of the site does not change      *)
(* during a behaviour.  What ingestRaw does to one offer is JobIngest.tla; *)
(* parent runs, finalizers and the watchdog are SearchRuns.tla.            *)
(***************************************************************************)
EXTENDS Integers, Sequences, FiniteSets

CONSTANTS
  Runs,           \* search runs over the source
  Workers,        \* ingest.source executions at a time: the queue's concurrency
  Offers,         \* what the site lists
  View,           \* offer -> what the search query reads of it
  Listing,        \* the pages of the site: a sequence of sets of offers
  Query,          \* the search configuration
  MAX_PAGES,
  Limit,          \* rateLimitPerMinute of the adapter
  WindowLen,      \* windowMs
  MaxWait,        \* maxWaitMs: the longest single sleep
  MinPenalty, DefaultPenalty, MaxPenalty,
  RetryAfters,    \* what a 429 may say, None if its header is missing
  MaxAttempts,    \* attempts of an ingest.source job
  MaxStalls,      \* BullMQ's maxStalledCount
  None

Least(a, b) == IF a < b THEN a ELSE b
Greatest(a, b) == IF a < b THEN b ELSE a

ASSUME LimiterAssumption ==
  /\ Limit \in Nat \ {0} /\ WindowLen \in Nat \ {0} /\ MaxWait \in Nat \ {0}
  /\ MinPenalty \in Nat \ {0} /\ MaxPenalty \in Nat /\ MinPenalty <= MaxPenalty
  /\ DefaultPenalty \in MinPenalty .. MaxPenalty
  /\ RetryAfters \subseteq Nat \cup {None} /\ None \notin Nat

ASSUME RunsAssumption ==
  /\ MAX_PAGES \in Nat \ {0} /\ MaxAttempts \in Nat \ {0} /\ MaxStalls \in Nat \ {0}
  /\ None \notin Runs

(* The site: only its last page can be empty, which is how the adapters    *)
(* tell that there are no more.                                            *)
ASSUME ListingAssumption ==
  /\ Listing \in Seq(SUBSET Offers)
  /\ \A p \in 1 .. Len(Listing) - 1 : Listing[p] # {}

(***************************************************************************)
(* evaluateSearchQuery.  A view says whether a configured keyword occurs   *)
(* in the offer, how its location relates to the configured ones, and its  *)
(* remote type.                                                            *)
(***************************************************************************)
evaluateSearchQuery(view, query) ==
  /\ query.keywords => view.keyword
  /\ query.locations =>
       \/ view.location = "inside"
       \/ view.location = "unknown" /\ query.remote = "remote"
  /\ ~ (query.remote = "remote" /\ view.remoteType = "onsite")
  /\ ~ (query.remote = "onsite" /\ view.remoteType = "remote")

(* A page of the site; a board without pagination has one.                 *)
Page(p) == IF p <= Len(Listing) THEN Listing[p] ELSE {}

(* No board filters as the search does: the adapters do.                   *)
Relevant(p) == {o \in Page(p) : evaluateSearchQuery(View[o], Query)}

(* A bug the runs inject: what is left after the filter decides.           *)
HasMore_Relevant(p) == p < Len(Listing) /\ Relevant(p) # {}

(* A page with a next link but without offers is the last one; a page      *)
(* without relevant offers is not.                                         *)
HasMore(p) == p < Len(Listing) /\ Page(p) # {}

searchJobs(p) == [jobs |-> Relevant(p), hasMore |-> HasMore(p)]

VARIABLES
  child,      \* status of the run's search_source_run
  job,        \* the run's ingest.source job: state, attempt, stalls
  worker,     \* what each execution has on its stack
  blocked,    \* remaining life of the key rate:blocked
  window,     \* ticks left of the current window
  count,      \* the key rate:<bucket>:<window>
  admitted,   \* requests let through in the current window
  known,      \* offers with a job row or a quarantine entry
  open,       \* of them, the ones whose ingestion was reported as new
  signalled,  \* new jobs with a match.score job
  declined    \* new jobs the handler went past without queueing one

limiter == <<blocked, window, count, admitted>>
vars == <<child, job, worker, limiter, known, open, signalled, declined>>

Idle == [at |-> "idle", run |-> None, page |-> 0, jobs |-> {}, hasMore |-> FALSE,
         new |-> {}, sleep |-> 0]

Init ==
  /\ child = [r \in Runs |-> "none"]
  /\ job = [r \in Runs |-> [state |-> "none", attempt |-> 0, stalls |-> 0]]
  /\ worker = [w \in Workers |-> Idle]
  /\ blocked = 0 /\ window = WindowLen /\ count = 0 /\ admitted = 0
  /\ known = {} /\ open = {} /\ signalled = {} /\ declined = {}

----------------------------------------------------------------------------
(***************************************************************************)
(* The beginning of a run.                                                 *)
(***************************************************************************)
(* startRun and the queueing that follows it.  The user may set the status *)
(* of the source at any time; it is read here and nowhere else, so a run   *)
(* that starts just before the source is blocked is still executed.        *)
startRun(r, status) ==
  /\ child[r] = "none"
  /\ IF status = "active"
     THEN /\ child' = [child EXCEPT ![r] = "running"]
          /\ job' = [job EXCEPT ![r] = [state |-> "waiting", attempt |-> 1, stalls |-> 0]]
     ELSE child' = [child EXCEPT ![r] = "skipped"] /\ UNCHANGED job
  /\ UNCHANGED <<worker, limiter, known, open, signalled, declined>>

----------------------------------------------------------------------------
(***************************************************************************)
(* The rate limiter.                                                       *)
(***************************************************************************)
Go(w, step) == worker' = [worker EXCEPT ![w].at = step]

Sleep(w, ticks) ==
  worker' = [worker EXCEPT ![w].at = "checking", ![w].sleep = Least(ticks, MaxWait)]

(* acquire, first command: the penalty key.  A sleeper is at the beginning *)
(* of the loop again, once its time is over.                               *)
CheckBlock(w) ==
  /\ worker[w].at = "checking" /\ worker[w].sleep = 0
  /\ IF blocked > 0 THEN Sleep(w, blocked) ELSE Go(w, "counting")
  /\ UNCHANGED <<child, job, limiter, known, open, signalled, declined>>

(* A bug the runs inject: the counter is read before it is increased.      *)
CountRequest_Shared(w) ==
  /\ worker[w].at = "counting"
  /\ count' = Least(count + 1, Limit)
  /\ IF count <= Limit
     THEN Go(w, "sent") /\ admitted' = admitted + 1
     ELSE Sleep(w, window) /\ UNCHANGED admitted
  /\ UNCHANGED <<child, job, blocked, window, known, open, signalled, declined>>

(* acquire, second command: INCR of the window's counter; at the limit the *)
(* execution sleeps until the window ends and starts over.                 *)
CountRequest(w) ==
  /\ worker[w].at = "counting"
  /\ count' = Least(count + 1, Limit)
  /\ IF count + 1 <= Limit
     THEN Go(w, "sent") /\ admitted' = admitted + 1
     ELSE Sleep(w, window) /\ UNCHANGED admitted
  /\ UNCHANGED <<child, job, blocked, window, known, open, signalled, declined>>

(* penalize: SET with an expiry, whatever the key held. *)
Penalty(retryAfter) ==
  Least(Greatest(MinPenalty, IF retryAfter = None THEN DefaultPenalty ELSE retryAfter),
        MaxPenalty)

penalize(retryAfter) ==
  /\ blocked' = Penalty(retryAfter)
  /\ UNCHANGED <<window, count, admitted>>

(* Time passes: keys expire, sleepers come closer to their end. *)
Down(n) == IF n = 0 THEN 0 ELSE n - 1

Tick ==
  /\ blocked' = Down(blocked)
  /\ worker' = [w \in Workers |-> [worker[w] EXCEPT !.sleep = Down(worker[w].sleep)]]
  /\ IF window = 1
     THEN window' = WindowLen /\ count' = 0 /\ admitted' = 0
     ELSE window' = window - 1 /\ UNCHANGED <<count, admitted>>
  /\ UNCHANGED <<child, job, known, open, signalled, declined>>

----------------------------------------------------------------------------
(***************************************************************************)
(* runSource and the handler of ingest.source.                             *)
(***************************************************************************)
TakeJob(w, r) ==
  /\ worker[w].at = "idle" /\ job[r].state = "waiting"
  /\ job' = [job EXCEPT ![r].state = "active"]
  /\ worker' = [worker EXCEPT ![w] = [Idle EXCEPT !.at = "checking", !.run = r, !.page = 1]]
  /\ UNCHANGED <<child, limiter, known, open, signalled, declined>>

(* A bug the runs inject: a child that fails hands over nothing.           *)
FailSource_Alone(w, retryable) ==
  LET r == worker[w].run
      again == retryable /\ job[r].attempt < MaxAttempts
  IN /\ IF again
        THEN /\ job' = [job EXCEPT ![r].state = "waiting", ![r].attempt = @ + 1]
             /\ worker' = [worker EXCEPT ![w] = Idle]
             /\ UNCHANGED child
        ELSE /\ child' = [child EXCEPT ![r] = "failed"]
             /\ worker' = [worker EXCEPT ![w].at = "signalling", ![w].new = {}]
             /\ UNCHANGED job
     /\ UNCHANGED <<known, open, signalled, declined>>

(* A bug the runs inject: every retry is a first attempt.                  *)
FailSource_Afresh(w, retryable) ==
  LET r == worker[w].run
  IN /\ IF retryable
        THEN /\ job' = [job EXCEPT ![r].state = "waiting"]
             /\ worker' = [worker EXCEPT ![w] = Idle]
             /\ UNCHANGED child
        ELSE /\ child' = [child EXCEPT ![r] = "failed"]
             /\ Go(w, "signalling")
             /\ UNCHANGED job
     /\ UNCHANGED <<known, open, signalled, declined>>

(* The catch block: a retryable error of an attempt that is not the last   *)
(* one is thrown on, and with it everything the attempt has collected; any *)
(* other error closes the child and hands over what there is.              *)
FailSource(w, retryable) ==
  LET r == worker[w].run
      again == retryable /\ job[r].attempt < MaxAttempts
  IN /\ IF again
        THEN /\ job' = [job EXCEPT ![r].state = "waiting", ![r].attempt = @ + 1]
             /\ worker' = [worker EXCEPT ![w] = Idle]
             /\ UNCHANGED child
        ELSE /\ child' = [child EXCEPT ![r] = "failed"]
             /\ Go(w, "signalling")
             /\ UNCHANGED job
     /\ UNCHANGED <<known, open, signalled, declined>>

(* The answer to a request (fetch-client): a page; 429; a time-out, a lost *)
(* connection or a 5xx, which may be tried again; anything else.           *)
AnswerPage(w) ==
  LET answer == searchJobs(worker[w].page)
  IN /\ worker[w].at = "sent"
     /\ worker' = [worker EXCEPT ![w].at = "ingesting", ![w].jobs = answer.jobs,
                                 ![w].hasMore = answer.hasMore]
     /\ UNCHANGED <<child, job, limiter, known, open, signalled, declined>>

AnswerRateLimited(w, retryAfter) ==
  worker[w].at = "sent" /\ penalize(retryAfter) /\ FailSource(w, TRUE)

AnswerError(w, retryable) ==
  worker[w].at = "sent" /\ FailSource(w, retryable) /\ UNCHANGED limiter

(* ingestRaw of the next offer: new, rejected by a filter or quarantined,  *)
(* or known already.                                                       *)
IngestOffer(w, o, outcome) ==
  /\ worker[w].at = "ingesting" /\ o \in worker[w].jobs
  /\ (outcome = "duplicate") <=> (o \in known)
  /\ known' = known \cup {o}
  /\ open' = IF outcome = "new" THEN open \cup {o} ELSE open
  /\ worker' = [worker EXCEPT ![w].jobs = @ \ {o},
                              ![w].new = IF outcome = "new" THEN @ \cup {o} ELSE @]
  /\ UNCHANGED <<child, job, limiter, signalled, declined>>

(* A command to the database fails, in ingestRaw or where the child is to  *)
(* be completed.                                                           *)
DatabaseFails(w) ==
  /\ worker[w].at = "ingesting"
  /\ FailSource(w, FALSE) /\ UNCHANGED limiter

(* The end of a page: the next one, or the child is complete. *)
PageDone(w) ==
  LET next == worker[w].hasMore /\ worker[w].page < MAX_PAGES
  IN /\ worker[w].at = "ingesting" /\ worker[w].jobs = {}
     /\ IF next
        THEN /\ worker' = [worker EXCEPT ![w].at = "checking", ![w].page = @ + 1]
             /\ UNCHANGED child
        ELSE /\ Go(w, "signalling")
             /\ child' = [child EXCEPT ![worker[w].run] = "completed"]
     /\ UNCHANGED <<job, limiter, known, open, signalled, declined>>

(* The handler's loop over newJobIds: a match.score job each.  An enqueue   *)
(* that fails is logged and skipped, and without a profile (the user may   *)
(* create it at any time) all of them are.                                 *)
SignalMatch(w, o, added) ==
  /\ worker[w].at = "signalling" /\ o \in worker[w].new
  /\ worker' = [worker EXCEPT ![w].new = @ \ {o}]
  /\ signalled' = IF added THEN signalled \cup {o} ELSE signalled
  /\ declined' = IF added THEN declined ELSE declined \cup {o}
  /\ UNCHANGED <<child, job, limiter, known, open>>

(* search.finalize is queued and the handler returns. *)
EndJob(w) ==
  /\ worker[w].at = "signalling" /\ worker[w].new = {}
  /\ job' = [job EXCEPT ![worker[w].run].state = "completed"]
  /\ worker' = [worker EXCEPT ![w] = Idle]
  /\ UNCHANGED <<child, limiter, known, open, signalled, declined>>

(* The process dies; BullMQ gives a stalled job one more start. *)
Crash(w) ==
  LET r == worker[w].run
  IN /\ worker[w].at # "idle"
     /\ job' = [job EXCEPT ![r].stalls = Least(@ + 1, MaxStalls),
                           ![r].state = IF job[r].stalls < MaxStalls THEN "waiting"
                                        ELSE "failed"]
     /\ worker' = [worker EXCEPT ![w] = Idle]
     /\ UNCHANGED <<child, limiter, known, open, signalled, declined>>

----------------------------------------------------------------------------
Answer(w) ==
  \/ AnswerPage(w)
  \/ \E retryAfter \in RetryAfters : AnswerRateLimited(w, retryAfter)
  \/ \E retryable \in BOOLEAN : AnswerError(w, retryable)

Ingest(w) ==
  \/ \E o \in Offers, outcome \in {"new", "rejected", "duplicate"} : IngestOffer(w, o, outcome)
  \/ DatabaseFails(w)
  \/ PageDone(w)

Handler(w) ==
  \/ \E o \in Offers, added \in BOOLEAN : SignalMatch(w, o, added)
  \/ EndJob(w)

Step(w) ==
  CheckBlock(w) \/ CountRequest(w) \/ Answer(w) \/ Ingest(w) \/ Handler(w)

Next ==
  \/ \E r \in Runs, status \in {"active", "paused", "blocked"} : startRun(r, status)
  \/ \E w \in Workers, r \in Runs : TakeJob(w, r)
  \/ \E w \in Workers : Step(w) \/ Crash(w)
  \/ Tick

(* Time passes, Redis and PostgreSQL answer, a request is answered or      *)
(* times out, and an idle worker takes a waiting job (each of these steps  *)
(* changes `worker').  The API, the user and crashes owe nothing.          *)
Fairness ==
  /\ WF_vars(Tick)
  /\ \A w \in Workers : WF_worker(Step(w) \/ \E r \in Runs : TakeJob(w, r))

Spec == Init /\ [][Next]_vars /\ Fairness
----------------------------------------------------------------------------
States == {"idle", "checking", "counting", "sent", "ingesting", "signalling"}

TypeOK ==
  /\ child \in [Runs -> {"none", "running", "skipped", "completed", "failed"}]
  /\ job \in [Runs -> [state : {"none", "waiting", "active", "completed", "failed"},
                       attempt : 0 .. MaxAttempts, stalls : 0 .. MaxStalls]]
  /\ worker \in [Workers ->
       [at : States, run : Runs \cup {None}, page : 0 .. MAX_PAGES, jobs : SUBSET Offers,
        hasMore : BOOLEAN, new : SUBSET Offers, sleep : 0 .. MaxWait]]
  /\ blocked \in 0 .. MaxPenalty /\ window \in 1 .. WindowLen /\ count \in 0 .. Limit
  /\ admitted \in Nat
  /\ known \subseteq Offers /\ open \subseteq known /\ signalled \subseteq open
  /\ declined \subseteq open

(* The source's own limit holds across executions: whatever their order    *)
(* between the reads and the counts of acquire, no window sees more        *)
(* requests than the adapter allows.                                       *)
RateRespected == admitted <= Limit

(* A completed child has read the site: every relevant offer of its first  *)
(* MAX_PAGES pages has a job row, also when earlier attempts failed or     *)
(* died halfway, another execution ingested half of them, or a page in     *)
(* between held nothing relevant.                                          *)
CompletedMissesNothing ==
  \A r \in Runs : child[r] = "completed" =>
    \A p \in 1 .. MAX_PAGES : Relevant(p) \subseteq known

(* As long as no crawl was retried or died, no new job is forgotten: one   *)
(* of the executions still holds it, or it has been handed to matching, or *)
(* the handler went past it because there was no profile or the queue      *)
(* refused it; a crawl that fails halfway hands over what it had found.    *)
NewIsHandedOver ==
  (\A r \in Runs : job[r].attempt <= 1 /\ job[r].stalls = 0) =>
    open = signalled \cup declined \cup UNION {worker[w].new : w \in Workers}

(* What "failures here never revert the ingested job" suggests and the     *)
(* retry of a later page breaks: when nothing is running any more, every   *)
(* new job the handler did not go past has been handed to matching.        *)
EveryNewJobIsHandedOver ==
  (\A r \in Runs : job[r].state \notin {"waiting", "active"} /\ job[r].stalls = 0) =>
    open = signalled \cup declined

(* A Retry-After is waited for: the penalty ends by the passing of time,   *)
(* never because another execution was told to wait less.                  *)
PenaltyNeverShortened == [][blocked' >= blocked - 1]_vars

(* Every queued crawl comes to an end, whatever the limiter makes it wait. *)
CrawlEnds ==
  \A r \in Runs : job[r].state = "waiting" ~> job[r].state \in {"completed", "failed"}
=============================================================================
