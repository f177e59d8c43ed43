------------------------------- MODULE SearchRuns -------------------------------
(***************************************************************************)
(* A requested search: the search.run, ingest.source and search.finalize   *)
(* jobs of apps/worker/src/handlers.ts, the services they call and the     *)
(* watchdog, over the two tables of search-repo.ts: search_run (the        *)
(* parent) and search_source_run (one child per source).                   *)
(*                                                                         *)
(* A job is a step machine: another job may run between any two of its     *)
(* awaits, and it may throw or die with its process at each of them.       *)
(* BullMQ is external: it runs a waiting job, runs one that threw again    *)
(* while it has attempts left, and after a crash either delivers the jobs  *)
(* that were active once more or gives them up.                            *)
(***************************************************************************)
EXTENDS Naturals, FiniteSets, FiniteSetsExt, Functions

CONSTANTS RunId,          \* identities a search_run can get
          Source,         \* config.sources
          Registered,     \* those the registry has an adapter for
          Finalizers,     \* the search.finalize jobs that run at the same time
          StartAttempts,  \* attempts of a search.run job
          IngestAttempts, \* attempts of an ingest.source job
          MaxFound,       \* bound on the offers a source run counts
          MaxFaults,      \* bound on crashes and on finalizers that throw
          SlowStart,      \* whether a run may exceed the timeout as it is created
          NoRun           \* null value

ASSUME RunAssumption == NoRun \notin RunId
ASSUME SourceAssumption == IsFiniteSet(Source) /\ Registered \subseteq Source
ASSUME AttemptsAssumption == {StartAttempts, IngestAttempts} \subseteq Nat \ {0}
ASSUME BoundAssumption == {MaxFound, MaxFaults} \subseteq Nat
ASSUME FinalizersAssumption == IsFiniteSet(Finalizers)
ASSUME SlowStartAssumption == SlowStart \in BOOLEAN

VARIABLES
  parent,    \* the search_run table
  child,     \* the search_source_run table
  start,     \* the search.run job
  ingest,    \* ingest[r][s]: the ingest.source job of source s in run r
  finalizeQ, \* finalizeQ[r]: the search.finalize jobs of r that wait
  fin,       \* fin[f]: what finalizer f is about to write
  sweep,     \* the maintenance.search-reconcile job
  stale,     \* the runs older than WATCHDOG_TIMEOUT_MS
  faults,    \* the faults so far
  rewritten, \* history: the runs with a child that was finished twice
  dropped    \* history: the runs with a finalizer that ended without a write

tables == <<parent, child>>
jobs == <<start, ingest, finalizeQ, fin, sweep>>
history == <<stale, faults, rewritten, dropped>>
vars == <<tables, jobs, history>>

--------------------------------------------------------------------------------
(* Data *)

ParentStatus == {"running", "completed", "partial", "failed"}
ChildStatus == {"running", "completed", "failed", "skipped"}

Absent == [status |-> "absent", found |-> 0]
Running == [status |-> "running", found |-> 0]

Children(r) == {s \in Source : child[r][s].status # "absent"}
WithStatus(r, st) == {s \in Children(r) : child[r][s].status = st}

(* Bugs the runs inject: a skipped child is not counted as terminal; any   *)
(* failed child fails the whole run; a run with nothing but skipped        *)
(* children is itself skipped.                                             *)
AllTerminal_NotSkipped(r) == WithStatus(r, "completed") \cup WithStatus(r, "failed") = Children(r)
StatusOf_NoPartial(r) ==
  IF Children(r) = {} \/ WithStatus(r, "failed") # {} THEN "failed" ELSE "completed"
StatusOf_Skipped(r) ==
  IF Children(r) # {} /\ WithStatus(r, "skipped") = Children(r) THEN "skipped" ELSE "completed"

AllTerminal(r) == WithStatus(r, "running") = {}

StatusOf(r) ==
  CASE Children(r) = {} -> "failed"
    [] WithStatus(r, "failed") = {} -> "completed"
    [] WithStatus(r, "completed") = {} -> "failed"
    [] OTHER -> "partial"

FoundIn(r) == SumFunction([s \in Children(r) |-> child[r][s].found])

(* What finalizeRun derives for the parent from the children it read.      *)
Derive(r) == [status |-> StatusOf(r), found |-> FoundIn(r)]


(* The search.run job: the run it creates, the sources still to create a   *)
(* child for, the child to skip next and the sources to start a job for.   *)
NewStart(attempt) ==
  [step |-> "waiting", run |-> NoRun, todo |-> {}, skip |-> {}, ready |-> {},
   attempt |-> attempt]

NoIngest == [step |-> "none", attempt |-> 0]
NoResult == [run |-> NoRun, row |-> Absent]
NoSweep == [step |-> "idle", run |-> NoRun, todo |-> {}, row |-> Absent]

Init ==
  /\ parent = [r \in RunId |-> Absent]
  /\ child = [r \in RunId |-> [s \in Source |-> Absent]]
  /\ start = NewStart(1)
  /\ ingest = [r \in RunId |-> [s \in Source |-> NoIngest]]
  /\ finalizeQ = [r \in RunId |-> 0]
  /\ fin = [f \in Finalizers |-> NoResult]
  /\ sweep = NoSweep
  /\ stale = {} /\ faults = 0 /\ rewritten = {} /\ dropped = {}

--------------------------------------------------------------------------------
(* search.run: the parent, then its children, then a job for each of them. *)

(* Every attempt creates a run of its own; a source the registry has no    *)
(* adapter for is passed over.                                             *)
createRun(r) ==
  /\ start.step = "waiting"
  /\ parent[r] = Absent
  /\ parent' = [parent EXCEPT ![r] = Running]
  /\ start' = [start EXCEPT !.step = "creating", !.run = r, !.todo = Registered]
  /\ UNCHANGED <<child, ingest, finalizeQ, fin, sweep, history>>

(* The child of a source that is not active is skipped by a second         *)
(* statement, and the source gets no job.                                  *)
createSourceRun(s) ==
  /\ start.step = "creating" /\ start.skip = {} /\ s \in start.todo
  /\ child' = [child EXCEPT ![start.run][s] = Running]
  /\ \/ start' = [start EXCEPT !.todo = @ \ {s}, !.ready = @ \cup {s}]
     \/ start' = [start EXCEPT !.todo = @ \ {s}, !.skip = {s}]
  /\ UNCHANGED <<parent, ingest, finalizeQ, fin, sweep, history>>

skipSourceRun(s) ==
  /\ start.step = "creating" /\ s \in start.skip
  /\ child' = [child EXCEPT ![start.run][s] = [status |-> "skipped", found |-> 0]]
  /\ start' = [start EXCEPT !.skip = {}]
  /\ rewritten' = IF s \in WithStatus(start.run, "running") THEN rewritten
                                                           ELSE rewritten \cup {start.run}
  /\ UNCHANGED <<parent, ingest, finalizeQ, fin, sweep, stale, faults, dropped>>

(* A bug the runs inject: the jobs start before all the children exist.    *)
AllCreated_Early == start.step = "creating" /\ start.ready # {}

AllCreated == start.step = "creating" /\ start.todo = {} /\ start.skip = {}

(* A run without usable sources is finalized at once.                      *)
StartFanOut ==
  /\ AllCreated
  /\ IF start.ready = {}
       THEN /\ start' = [start EXCEPT !.step = "done"]
            /\ finalizeQ' = [finalizeQ EXCEPT ![start.run] = @ + 1]
       ELSE /\ start' = [start EXCEPT !.step = "fanOut"]
            /\ UNCHANGED finalizeQ
  /\ UNCHANGED <<tables, ingest, fin, sweep, history>>

FanOut(s) ==
  LET left == start.ready \ {s} IN
  /\ start.step = "fanOut" /\ s \in start.ready
  /\ ingest' = [ingest EXCEPT ![start.run][s] = [step |-> "waiting", attempt |-> 1]]
  /\ start' = [start EXCEPT !.ready = left, !.step = IF left = {} THEN "done" ELSE @]
  /\ UNCHANGED <<tables, finalizeQ, fin, sweep, history>>

(* A statement or an enqueue throws: the job starts over while it has      *)
(* attempts left (and a run to create: RunId bounds them).                 *)
AfterThrow == IF start.attempt < StartAttempts
                THEN NewStart(start.attempt + 1)
                ELSE [start EXCEPT !.step = "lost"]

StartThrows ==
  /\ start.step \in {"creating", "fanOut"}
  /\ start' = AfterThrow
  /\ UNCHANGED <<tables, ingest, finalizeQ, fin, sweep, history>>

--------------------------------------------------------------------------------
(* ingest.source *)

IngestActive(r, s) == ingest[r][s].step \in {"active", "reporting"}
IngestTo(r, s, job) == ingest' = [ingest EXCEPT ![r][s] = job]
IngestStep(r, s, step) == IngestTo(r, s, [ingest[r][s] EXCEPT !.step = step])

IngestStart(r, s) ==
  /\ ingest[r][s].step = "waiting"
  /\ IngestStep(r, s, "active")
  /\ UNCHANGED <<tables, start, finalizeQ, fin, sweep, history>>

(* runSource ends: finishSourceRun overwrites whatever the child was.  It  *)
(* fails on an error that is not retryable, or on the last attempt.        *)
finishSourceRun(r, s) ==
  /\ ingest[r][s].step = "active"
  /\ \E st \in {"completed", "failed"}, n \in 0..MaxFound :
       child' = [child EXCEPT ![r][s] = [status |-> st, found |-> n]]
  /\ IngestStep(r, s, "reporting")
  /\ rewritten' = IF s \in WithStatus(r, "running") THEN rewritten ELSE rewritten \cup {r}
  /\ UNCHANGED <<parent, start, finalizeQ, fin, sweep, stale, faults, dropped>>

(* The last of the handler's enqueues.  The ones before it (review signals *)
(* and matching jobs) leave the run alone.                                 *)
EnqueueFinalize(r, s) ==
  /\ ingest[r][s].step = "reporting"
  /\ finalizeQ' = [finalizeQ EXCEPT ![r] = @ + 1]
  /\ IngestStep(r, s, "done")
  /\ UNCHANGED <<tables, start, fin, sweep, history>>

(* The attempt throws: on a retryable error before the last attempt, or    *)
(* because a statement or an enqueue failed.                               *)
IngestThrows(r, s) ==
  /\ IngestActive(r, s)
  /\ IngestTo(r, s, IF ingest[r][s].attempt < IngestAttempts
                      THEN [step |-> "waiting", attempt |-> ingest[r][s].attempt + 1]
                      ELSE [step |-> "lost", attempt |-> IngestAttempts])
  /\ UNCHANGED <<tables, start, finalizeQ, fin, sweep, history>>

--------------------------------------------------------------------------------
(* search.finalize: finalizeRun reads the children, then writes the parent *)

FinalizeRead(f, r) ==
  /\ fin[f] = NoResult
  /\ finalizeQ[r] > 0
  /\ finalizeQ' = [finalizeQ EXCEPT ![r] = @ - 1]
  /\ fin' = [fin EXCEPT ![f] = IF AllTerminal(r) THEN [run |-> r, row |-> Derive(r)]
                                                ELSE NoResult]
  /\ UNCHANGED <<tables, start, ingest, sweep, history>>

FinalizeWrite(f) ==
  /\ fin[f] # NoResult
  /\ parent' = [parent EXCEPT ![fin[f].run] = fin[f].row]
  /\ fin' = [fin EXCEPT ![f] = NoResult]
  /\ UNCHANGED <<child, start, ingest, finalizeQ, sweep, history>>

FinalizeThrows(f) ==
  /\ fin[f] # NoResult
  /\ faults < MaxFaults
  /\ faults' = faults + 1
  /\ fin' = [fin EXCEPT ![f] = NoResult]
  /\ dropped' = dropped \cup {fin[f].run}
  /\ UNCHANGED <<tables, start, ingest, finalizeQ, sweep, stale, rewritten>>

--------------------------------------------------------------------------------
(* reconcileStaleRuns, every five minutes; the queue runs one at a time.   *)

(* A bug the runs inject: the list joins the children, and misses a run    *)
(* that has none yet.                                                      *)
StaleRuns_Joined == {r \in stale : parent[r].status = "running" /\ Children(r) # {}}

StaleRuns == {r \in stale : parent[r].status = "running"}

listStaleRuns ==
  /\ sweep = NoSweep
  /\ StaleRuns # {}
  /\ sweep' = [NoSweep EXCEPT !.step = "next", !.todo = StaleRuns]
  /\ UNCHANGED <<tables, start, ingest, finalizeQ, fin, history>>

ReconcileNext(r) ==
  /\ sweep.step = "next" /\ r \in sweep.todo
  /\ sweep' = [NoSweep EXCEPT !.step = IF AllTerminal(r) THEN "finalize" ELSE "fail",
                              !.run = r, !.todo = sweep.todo \ {r}]
  /\ UNCHANGED <<tables, start, ingest, finalizeQ, fin, history>>

(* Bugs the runs inject: the UPDATE loses its WHERE status = 'running'; it *)
(* spares the children that have not counted an offer yet.                 *)
ToFail_All(r) == Children(r)
ToFail_Counting(r) == {s \in WithStatus(r, "running") : child[r][s].found > 0}

ToFail(r) == WithStatus(r, "running")

failRunningSourceRuns ==
  LET r == sweep.run IN
  /\ sweep.step = "fail"
  /\ child' = [child EXCEPT ![r] =
       [s \in Source |-> IF s \in ToFail(r) THEN [child[r][s] EXCEPT !.status = "failed"]
                                            ELSE child[r][s]]]
  /\ sweep' = [sweep EXCEPT !.step = "finalize"]
  /\ UNCHANGED <<parent, start, ingest, finalizeQ, fin, history>>

SweepOn == IF sweep.todo = {} THEN NoSweep ELSE [NoSweep EXCEPT !.step = "next", !.todo = sweep.todo]

(* The sweep calls the same finalizeRun: a read and a write.               *)
ReconcileRead ==
  /\ sweep.step = "finalize"
  /\ sweep' = IF AllTerminal(sweep.run)
                THEN [sweep EXCEPT !.step = "write", !.row = Derive(sweep.run)]
                ELSE SweepOn
  /\ UNCHANGED <<tables, start, ingest, finalizeQ, fin, history>>

ReconcileWrite ==
  /\ sweep.step = "write"
  /\ parent' = [parent EXCEPT ![sweep.run] = sweep.row]
  /\ sweep' = SweepOn
  /\ UNCHANGED <<child, start, ingest, finalizeQ, fin, history>>

--------------------------------------------------------------------------------
(* Time and failures *)

TimeOut(r) ==
  /\ r \notin stale /\ parent[r] # Absent
  /\ SlowStart \/ start.run # r \/ start.step # "creating"
  /\ stale' = stale \cup {r}
  /\ UNCHANGED <<tables, jobs, faults, rewritten, dropped>>

(* The worker process dies.  BullMQ delivers each job that was active once *)
(* more, or gives it up; the sweep comes back with the next period.        *)
Crash ==
  /\ faults < MaxFaults
  /\ faults' = faults + 1
  /\ start' \in IF start.step \in {"creating", "fanOut"}
                  THEN {NewStart(start.attempt), [start EXCEPT !.step = "lost"]}
                  ELSE {start}
  /\ \E again \in SUBSET {run \in RunId \X Source : IngestActive(run[1], run[2])} :
       ingest' = [r \in RunId |-> [s \in Source |->
         CASE ~IngestActive(r, s) -> ingest[r][s]
           [] <<r, s>> \in again -> [ingest[r][s] EXCEPT !.step = "waiting"]
           [] OTHER -> [ingest[r][s] EXCEPT !.step = "lost"]]]
  /\ \E again \in SUBSET {f \in Finalizers : fin[f] # NoResult} :
       /\ finalizeQ' = [r \in RunId |-> finalizeQ[r] + Quantify(again, LAMBDA f : fin[f].run = r)]
       /\ dropped' = dropped \cup {fin[f].run : f \in {g \in Finalizers : fin[g] # NoResult} \ again}
  /\ fin' = [f \in Finalizers |-> NoResult]
  /\ sweep' = NoSweep
  /\ UNCHANGED <<tables, stale, rewritten>>

--------------------------------------------------------------------------------

StartNext ==
  \/ \E r \in RunId : createRun(r)
  \/ \E s \in Source : createSourceRun(s) \/ skipSourceRun(s) \/ FanOut(s)
  \/ StartFanOut
  \/ StartThrows

IngestNext(r, s) ==
  \/ IngestStart(r, s)
  \/ finishSourceRun(r, s)
  \/ EnqueueFinalize(r, s)
  \/ IngestThrows(r, s)

FinalizeNext(f) ==
  \/ \E r \in RunId : FinalizeRead(f, r)
  \/ FinalizeWrite(f)
  \/ FinalizeThrows(f)

SweepNext ==
  \/ listStaleRuns
  \/ \E r \in RunId : ReconcileNext(r)
  \/ failRunningSourceRuns
  \/ ReconcileRead
  \/ ReconcileWrite

Next ==
  \/ StartNext
  \/ \E r \in RunId, s \in Source : IngestNext(r, s)
  \/ \E f \in Finalizers : FinalizeNext(f)
  \/ SweepNext
  \/ \E r \in RunId : TimeOut(r)
  \/ Crash

Spec == Init /\ [][Next]_vars

(* Time passes and the watchdog, a repeatable job, runs.  A search.run job *)
(* that has begun goes on (or throws, or dies); no other job has to be     *)
(* run at all.                                                             *)
FairSpec ==
  /\ Spec
  /\ WF_vars(SweepNext)
  /\ WF_vars(start.step # "waiting" /\ StartNext)
  /\ \A r \in RunId : WF_vars(TimeOut(r))

--------------------------------------------------------------------------------
(* Properties *)

StartSteps == {"waiting", "creating", "fanOut", "done", "lost"}
IngestSteps == {"none", "waiting", "active", "reporting", "done", "lost"}
Found == 0..(MaxFound * Cardinality(Source))
ParentRow == [status : ParentStatus, found : Found] \cup {Absent}
ChildRow == [status : ChildStatus, found : 0..MaxFound] \cup {Absent}

TypeOK ==
  /\ parent \in [RunId -> ParentRow]
  /\ child \in [RunId -> [Source -> ChildRow]]
  /\ start \in [step : StartSteps, run : RunId \cup {NoRun}, todo : SUBSET Source,
                skip : SUBSET Source, ready : SUBSET Source, attempt : 1..StartAttempts]
  /\ ingest \in [RunId -> [Source -> [step : IngestSteps, attempt : 0..IngestAttempts]]]
  /\ finalizeQ \in [RunId -> Nat]
  /\ fin \in [Finalizers -> [run : RunId \cup {NoRun}, row : ParentRow]]
  /\ sweep \in [step : {"idle", "next", "fail", "finalize", "write"},
                run : RunId \cup {NoRun}, todo : SUBSET RunId, row : ParentRow]
  /\ stale \subseteq RunId /\ rewritten \subseteq RunId /\ dropped \subseteq RunId
  /\ faults \in 0..MaxFaults

Ended(r) == parent[r].status \notin {"absent", "running"}

(* A run within its time is not reported before all of it is known: it has *)
(* a child for every source with an adapter, and none of them is running.  *)
NotReportedEarly ==
  \A r \in RunId \ stale : Ended(r) => Children(r) = Registered /\ WithStatus(r, "running") = {}

(* S1, as the domain model words it.                                       *)
Reports(r) ==
  LET failed == WithStatus(r, "failed") # {}
      done == WithStatus(r, "completed") # {}
  IN  /\ parent[r].status = "partial" <=> failed /\ done
      /\ failed /\ ~done => parent[r].status = "failed"
      /\ ~failed /\ done => parent[r].status = "completed"
      /\ parent[r].found = FoundIn(r)

(* S1: status and counters of an ended run are those of its children, as   *)
(* long as each child was finished once and within the time.               *)
ParentReportsChildren ==
  \A r \in RunId \ (stale \cup rewritten) : Ended(r) => Reports(r)

(* A job that was to report the run was given up: search.run failed or     *)
(* started over with another run, an ingest job or a finalizer is out of   *)
(* attempts or deliveries.  Such a run is left to the watchdog.            *)
GivenUp(r) ==
  \/ start.run # r \/ start.step = "lost"
  \/ \E s \in Source : ingest[r][s].step = "lost"
  \/ r \in dropped

(* A job that runs or waits is to finalize the run, or to enqueue the one  *)
(* that will.                                                              *)
FinalizationDue(r) ==
  \/ finalizeQ[r] > 0
  \/ \E f \in Finalizers : fin[f].run = r
  \/ \E s \in Source : ingest[r][s].step \in {"waiting", "active", "reporting"}
  \/ start.run = r /\ start.step \in {"creating", "fanOut"}

(* No wakeup is lost: whatever throws, crashes and is delivered again, as  *)
(* long as no job of a run was given up, a run that is still running and   *)
(* has no running child is about to be finalized.  (search.finalize is     *)
(* enqueued after finishSourceRun, and a finalizer that finds a running    *)
(* child returns without a trace.)                                         *)
NoLostFinalization ==
  \A r \in RunId :
    parent[r].status = "running" /\ WithStatus(r, "running") = {} /\ ~GivenUp(r)
      => FinalizationDue(r)

(* S2: what a source run ended with is only ever changed by the job of     *)
(* that source (or the search.run that skips it), whatever the watchdog    *)
(* does meanwhile.                                                         *)
OnlyItsJobRewrites ==
  [][\A r \in RunId, s \in Source :
       child[r][s].status \notin {"absent", "running"} /\ child'[r][s] # child[r][s]
       => ingest[r][s].step = "active" \/ (start.run = r /\ s \in start.skip)]_vars

(* The watchdog: a run can never stay running for ever, even when every    *)
(* other job of it is lost.                                                *)
EveryRunEnds == \A r \in RunId : parent[r].status = "running" ~> Ended(r)

(* Nor can a child.                                                        *)
EveryChildEnds ==
  \A r \in RunId, s \in Source :
    child[r][s].status = "running" ~> child[r][s].status # "running"

(* "Idempotent finalizer, safe to call multiple times and from multiple    *)
(* workers": once every job of a run is done, its parent reports its       *)
(* children.                                                               *)
AtRest(r) ==
  /\ start.run # r \/ start.step = "done"
  /\ \A s \in Source : ingest[r][s].step \in {"none", "done"}
  /\ finalizeQ[r] = 0
  /\ \A f \in Finalizers : fin[f].run # r
  /\ sweep.run # r

FinalizerIsIdempotent ==
  faults = 0 => \A r \in RunId : AtRest(r) /\ Ended(r) => Reports(r)
================================================================================
