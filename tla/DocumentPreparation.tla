-------------------------- MODULE DocumentPreparation --------------------------
(***************************************************************************)
(* Preparing the documents of applications: the documents.prepare job      *)
(* (POST /v1/applications/:id/prepare, prepareDocuments of                 *)
(* packages/application-engine/src/engine.ts) against the commands the     *)
(* user gives meanwhile on the same applications: answers put, questions   *)
(* resolved, the profile edited, human actions resolved, archives.         *)
(*                                                                         *)
(* A command is a step machine that others interleave with at each await.  *)
(* A preparation writes documents under the application's advisory lock;   *)
(* the user's commands do not take it.  BullMQ is external: one job per    *)
(* application id, a number of attempts, and a job whose worker stops      *)
(* answering is delivered once more while that worker may still go on.     *)
(***************************************************************************)
EXTENDS Naturals, FiniteSets

CONSTANTS Apps,         \* the applications of the candidate
          Questions,    \* question hashes
          Workers,      \* preparations that can run at the same time
          Users,        \* requests on answers in flight at the same time
          Facts,        \* what a profile can say
          SalaryFacts,  \* those only a view with includeSalary shows
          Wording,      \* answer texts
          ClaimsOf,     \* ClaimsOf[x]: the facts wording x claims
          Text,         \* contents of documents
          VariantText,  \* VariantText[i]: the resume variant made from input i
          Attempts,     \* attempts of a job
          MaxEdits,     \* bound on the edits of the profile
          MaxStalls,    \* bound on the workers BullMQ loses sight of
          NoAnswer, NoLock  \* null values

(* What computePreparationInputHash hashes.  The job's content, the day    *)
(* and the rest of it change it as an edit of the profile does.            *)
Input == SUBSET (Facts \ SalaryFacts)

ASSUME FactsAssumption == SalaryFacts \subseteq Facts /\ IsFiniteSet(Facts)
ASSUME ClaimsAssumption == ClaimsOf \in [Wording -> SUBSET Facts]
ASSUME VariantAssumption == VariantText \in [Input -> Text]
ASSUME LimitAssumption == Attempts \in Nat \ {0} /\ {MaxEdits, MaxStalls} \subseteq Nat
ASSUME NullAssumption == NoLock \notin Workers

VARIABLES
  profile,   \* the candidate's facts
  status,    \* application.status
  docs,      \* docs[a]: the rows of application_document
  events,    \* events[a][i]: how many application.documents_prepared name input i
  answers,   \* answers[a][q]: the row of application_answer
  lock,      \* lock[a]: the worker that holds application-prepare:a
  job,       \* job[a]: the BullMQ job prepare-a
  worker,    \* worker[w]: the preparation it runs
  user,      \* user[u]: the request it makes
  edits, stalls,  \* what MaxEdits and MaxStalls bound
  posted,    \* history: the applications with a 202 and no end of a job since
  signed     \* history: <<q, x>>, the user approved wording x for question q

rows == <<status, docs, events, answers>>
history == <<edits, stalls, posted, signed>>
vars == <<profile, rows, lock, job, worker, user, history>>

--------------------------------------------------------------------------------
(* Data *)

Status == {"SHORTLISTED", "PREPARING", "REQUIRES_HUMAN_ACTION", "ARCHIVED"}
EDITABLE_STATUSES == Status \ {"ARCHIVED"}

Document == [kind : {"resume_variant", "cover_letter"}, input : Input, text : Text]

(* requiresHumanInput is everywhere written as the negation of ok, which   *)
(* stands for a verification that is verified.                             *)
Answer == [text : Wording, ok : BOOLEAN, approved : BOOLEAN]

NoJob == [state |-> "none", attempt |-> 0, stalled |-> FALSE]
InFlight(j) == j.state \in {"waiting", "active"}

Idle == [step |-> "idle"]

Steps == {"begin", "start", "load", "lock", "fresh", "variant", "insertVariant", "cover",
          "insertCover", "list", "revalidate", "event", "unlock", "raise"}

(* A preparation: mine tells whether BullMQ still counts on this worker,   *)
(* seen are the answers it listed and todo those it has yet to mark stale. *)
Preparation ==
  [step : Steps, app : Apps, mine : BOOLEAN, view : Input, created : BOOLEAN,
   seen : [Questions -> Answer \cup {NoAnswer}], todo : SUBSET Questions]

Request ==
  [step : {"putLoad", "put", "resolveLoad", "resolveFind", "resolve"}, app : Apps,
   question : Questions, view : SUBSET Facts, prior : Wording \cup {NoAnswer}]

NothingSeen == [q \in Questions |-> NoAnswer]
Approved(answer) == answer # NoAnswer /\ answer.approved

(* validateAnswerContent: automaticReuseAllowed.                           *)
Verified(x, view) == ClaimsOf[x] # {} /\ ClaimsOf[x] \subseteq view

Init ==
  /\ profile = Facts
  /\ status = [a \in Apps |-> "SHORTLISTED"]
  /\ docs = [a \in Apps |-> {}]
  /\ events = [a \in Apps |-> [i \in Input |-> 0]]
  /\ answers = [a \in Apps |-> NothingSeen]
  /\ lock = [a \in Apps |-> NoLock]
  /\ job = [a \in Apps |-> NoJob]
  /\ worker = [w \in Workers |-> Idle]
  /\ user = [u \in Users |-> Idle]
  /\ edits = 0 /\ stalls = 0
  /\ posted = {} /\ signed = {}

--------------------------------------------------------------------------------
(* The queue *)

(* POST prepare answers 202 whatever add does; add ignores an id it knows, *)
(* and it knows a job that failed: only removeOnComplete is set.           *)
PostPrepare(a) ==
  /\ status[a] \in {"SHORTLISTED", "PREPARING"}
  /\ job' = [job EXCEPT ![a] = IF @ = NoJob THEN [@ EXCEPT !.state = "waiting", !.attempt = 1]
                                            ELSE @]
  /\ posted' = posted \cup {a}
  /\ UNCHANGED <<profile, rows, lock, worker, user, edits, stalls, signed>>

TakeJob(w, a) ==
  /\ worker[w] = Idle /\ job[a].state = "waiting"
  /\ job' = [job EXCEPT ![a].state = "active"]
  /\ worker' = [worker EXCEPT ![w] =
       [step |-> "begin", app |-> a, mine |-> TRUE, view |-> {}, created |-> FALSE,
        seen |-> NothingSeen, todo |-> {}]]
  /\ UNCHANGED <<profile, rows, lock, user, history>>

(* A bug the runs inject: a job that throws is retried for ever.           *)
Retry_Always(j) == [j EXCEPT !.state = "waiting", !.attempt = @ + 1]

Retry(j) == IF j.attempt < Attempts THEN [j EXCEPT !.state = "waiting", !.attempt = @ + 1]
                                    ELSE [j EXCEPT !.state = "failed"]

(* The finally of withApplicationLock.                                     *)
LockAfter(w) == [a \in Apps |-> IF lock[a] = w THEN NoLock ELSE lock[a]]

(* The preparation is over: the lock is released and, if BullMQ still      *)
(* counts on this worker, the job is removed or counts a failed attempt.   *)
End(w, well) ==
  LET a == worker[w].app IN
  /\ worker' = [worker EXCEPT ![w] = Idle]
  /\ lock' = LockAfter(w)
  /\ job' = IF ~worker[w].mine THEN job
            ELSE [job EXCEPT ![a] = IF well THEN NoJob ELSE Retry(@)]
  /\ posted' = IF InFlight(job'[a]) THEN posted ELSE posted \ {a}

(* BullMQ loses sight of a worker whose process stopped or hangs.  The job *)
(* is delivered again the first time and failed the second.                *)
Stall(w) ==
  LET a == worker[w].app IN
  /\ worker[w] # Idle /\ worker[w].mine /\ stalls < MaxStalls
  /\ stalls' = stalls + 1
  /\ worker' = [worker EXCEPT ![w].mine = FALSE]
  /\ job' = [job EXCEPT ![a] = IF @.stalled THEN [@ EXCEPT !.state = "failed"]
                               ELSE [@ EXCEPT !.state = "waiting", !.stalled = TRUE]]
  /\ posted' = IF InFlight(job'[a]) THEN posted ELSE posted \ {a}
  /\ UNCHANGED <<profile, rows, lock, user, edits, signed>>

(* Any await throws; the connection of a process that stopped is closed,   *)
(* and with it goes the lock.                                              *)
Throw(w) ==
  /\ worker[w] # Idle
  /\ End(w, FALSE)
  /\ UNCHANGED <<profile, rows, user, edits, stalls, signed>>

(* ConflictError: the status is not, or not any more, the one a step needs. *)
Refused(w) ==
  /\ \/ worker[w].step = "begin" /\ status[worker[w].app] \notin {"SHORTLISTED", "PREPARING"}
     \/ worker[w].step = "start" /\ status[worker[w].app] # "SHORTLISTED"
     \/ worker[w].step = "raise" /\ status[worker[w].app] # "PREPARING"
  /\ Throw(w)

--------------------------------------------------------------------------------
(* prepareDocuments: the status and the inputs *)

At(w, step) == worker[w].step = step
GoTo(w, step) == worker' = [worker EXCEPT ![w].step = step]

RestOfBegin == <<profile, docs, events, answers, lock, job, user, history>>

BeginPreparation(w) ==
  /\ At(w, "begin")
  /\ \/ status[worker[w].app] = "SHORTLISTED" /\ GoTo(w, "start")
     \/ status[worker[w].app] = "PREPARING" /\ GoTo(w, "load")
  /\ UNCHANGED <<status, RestOfBegin>>

(* transitionWithEvent, which throws when the status has changed.          *)
StartPreparing(w) ==
  LET a == worker[w].app IN
  /\ At(w, "start") /\ status[a] = "SHORTLISTED"
  /\ status' = [status EXCEPT ![a] = "PREPARING"]
  /\ GoTo(w, "load")
  /\ UNCHANGED RestOfBegin

(* buildProfileFactsView, without salary, gives the input the documents    *)
(* are made from.  A resume version that is gone takes a human.            *)
LoadInputs(w) ==
  /\ At(w, "load")
  /\ \E step \in {"lock", "raise"} :
       worker' = [worker EXCEPT ![w].step = step, ![w].view = profile \ SalaryFacts]
  /\ UNCHANGED <<status, RestOfBegin>>

(* raiseHumanAction throws when the status is not PREPARING any more.      *)
raiseHumanAction(w) ==
  LET a == worker[w].app IN
  /\ At(w, "raise") /\ status[a] = "PREPARING"
  /\ status' = [status EXCEPT ![a] = "REQUIRES_HUMAN_ACTION"]
  /\ End(w, TRUE)
  /\ UNCHANGED <<profile, docs, events, answers, user, edits, stalls, signed>>

--------------------------------------------------------------------------------
(* prepareDocuments: the work under the lock *)

(* A bug the runs inject: the preparation does not wait for the lock.      *)
LockFree_Always(a) == TRUE

LockFree(a) == lock[a] = NoLock

withApplicationLock(w) ==
  LET a == worker[w].app IN
  /\ At(w, "lock") /\ LockFree(a)
  /\ lock' = [lock EXCEPT ![a] = w]
  /\ GoTo(w, "fresh")
  /\ UNCHANGED <<profile, rows, job, user, history>>

RestOfLocked == <<profile, status, lock, job, user, history>>

(* Another preparation may have raised a human action meanwhile.           *)
ReadFresh(w) ==
  /\ At(w, "fresh")
  /\ GoTo(w, IF status[worker[w].app] = "PREPARING" THEN "variant" ELSE "unlock")
  /\ UNCHANGED <<docs, events, answers, RestOfLocked>>

HasDocument(w, kind) ==
  \E d \in docs[worker[w].app] : d.kind = kind /\ d.input = worker[w].view

FindVariant(w) ==
  /\ At(w, "variant")
  /\ GoTo(w, IF HasDocument(w, "resume_variant") THEN "cover" ELSE "insertVariant")
  /\ UNCHANGED <<docs, events, answers, RestOfLocked>>

(* ON CONFLICT DO NOTHING: a row with the same bytes stays as it is, with  *)
(* the input hash it has.                                                  *)
insertDocument(w, kind, text, next) ==
  LET a == worker[w].app
      new == \A d \in docs[a] : d.kind # kind \/ d.text # text IN
  /\ docs' = IF new
       THEN [docs EXCEPT ![a] = @ \cup {[kind |-> kind, input |-> worker[w].view, text |-> text]}]
       ELSE docs
  /\ worker' = [worker EXCEPT ![w].step = next, ![w].created = @ \/ new]
  /\ UNCHANGED <<events, answers, RestOfLocked>>

(* The stored file and the tailored resume version the row refers to have  *)
(* been found or made by then; both are keyed by the same content hash, so *)
(* a repetition finds them, and they are left out.                         *)
InsertVariant(w) ==
  /\ At(w, "insertVariant")
  /\ insertDocument(w, "resume_variant", VariantText[worker[w].view], "cover")

FindCover(w) ==
  /\ At(w, "cover")
  /\ GoTo(w, IF HasDocument(w, "cover_letter") THEN "list" ELSE "insertCover")
  /\ UNCHANGED <<docs, events, answers, RestOfLocked>>

(* prepareCoverLetter: any text, unless the claims stay rejected after the *)
(* repair or the model gives no plan that can be rendered.                 *)
CoverRefused(w) ==
  /\ At(w, "insertCover")
  /\ GoTo(w, "raise")
  /\ UNCHANGED <<docs, events, answers, RestOfLocked>>

InsertCover(w) ==
  /\ At(w, "insertCover")
  /\ \E text \in Text : insertDocument(w, "cover_letter", text, "list")

ListAnswers(w) ==
  LET seen == answers[worker[w].app]
      stale == {q \in Questions : Approved(seen[q]) /\ ~Verified(seen[q].text, worker[w].view)} IN
  /\ At(w, "list")
  /\ worker' = [worker EXCEPT ![w].step = "revalidate", ![w].seen = seen, ![w].todo = stale]
  /\ UNCHANGED <<docs, events, answers, RestOfLocked>>

(* The answer as it was listed is written back, not approved any more.     *)
MarkStale(w, q) ==
  LET a == worker[w].app IN
  /\ At(w, "revalidate") /\ q \in worker[w].todo
  /\ answers' = [answers EXCEPT ![a][q] =
                   [text |-> worker[w].seen[q].text, ok |-> FALSE, approved |-> FALSE]]
  /\ worker' = [worker EXCEPT ![w].todo = @ \ {q}]
  /\ UNCHANGED <<docs, events, RestOfLocked>>

(* A bug the runs inject: the event is appended on a cache hit, too.       *)
EventDue_Always(w) == worker[w].todo = {}

EventDue(w) == worker[w].todo = {} /\ worker[w].created

Revalidated(w) ==
  /\ At(w, "revalidate") /\ worker[w].todo = {}
  /\ IF EventDue(w)
       THEN events' = [events EXCEPT ![worker[w].app][worker[w].view] = @ + 1]
       ELSE UNCHANGED events
  /\ worker' = [worker EXCEPT ![w].step = "unlock", ![w].seen = NothingSeen]
  /\ UNCHANGED <<docs, answers, RestOfLocked>>

(* The result is read back from the tables and the preparation ends.       *)
Unlock(w) ==
  /\ At(w, "unlock")
  /\ End(w, TRUE)
  /\ UNCHANGED <<profile, rows, user, edits, stalls, signed>>

--------------------------------------------------------------------------------
(* The user's commands *)

RestOfRequest == <<profile, status, docs, events, lock, job, worker, edits, stalls, posted>>

(* PUT answers and POST answers/resolve both read the status first ...     *)
BeginRequest(u, a, q, step) ==
  /\ user[u] = Idle /\ status[a] \in EDITABLE_STATUSES
  /\ user' = [user EXCEPT ![u] = [step |-> step, app |-> a, question |-> q,
                                  view |-> {}, prior |-> NoAnswer]]
  /\ UNCHANGED <<answers, signed, RestOfRequest>>

(* ... then the profile, with salary.                                      *)
LoadFacts(u) ==
  /\ user[u].step \in {"putLoad", "resolveLoad"}
  /\ user' = [user EXCEPT ![u].view = profile,
                          ![u].step = IF @ = "putLoad" THEN "put" ELSE "resolveFind"]
  /\ UNCHANGED <<answers, signed, RestOfRequest>>

upsertAnswer(u, x, approved) ==
  answers' = [answers EXCEPT ![user[u].app][user[u].question] =
                [text |-> x, ok |-> Verified(x, user[u].view), approved |-> approved]]

(* x and wish are the body of the request, which nothing reads before.     *)
PutAnswer(u, x, wish) ==
  LET approved == wish /\ Verified(x, user[u].view) IN
  /\ user[u].step = "put"
  /\ upsertAnswer(u, x, approved)
  /\ signed' = IF approved THEN signed \cup {<<user[u].question, x>>} ELSE signed
  /\ user' = [user EXCEPT ![u] = Idle]
  /\ UNCHANGED RestOfRequest

(* A bug the runs inject: the answer bank holds every answer.              *)
AnswerBank_All(q) == {answers[a][q] : a \in Apps} \ {NoAnswer}

(* findApprovedAnswerByQuestionHash takes the newest of these, by times    *)
(* that were read before the writes: any of them.                          *)
AnswerBank(q) == {answers[a][q] : a \in {b \in Apps : Approved(answers[b][q])}}

FindPrior(u) ==
  /\ user[u].step = "resolveFind"
  /\ \/ \E prior \in AnswerBank(user[u].question) :
          user' = [user EXCEPT ![u].prior = prior.text, ![u].step = "resolve"]
     \/ /\ AnswerBank(user[u].question) = {}
        /\ user' = [user EXCEPT ![u] = Idle]  \* requires_human
  /\ UNCHANGED <<answers, signed, RestOfRequest>>

(* reuse writes an approved answer, stale one that is not.                 *)
ResolveQuestion(u) ==
  /\ user[u].step = "resolve"
  /\ upsertAnswer(u, user[u].prior, Verified(user[u].prior, user[u].view))
  /\ user' = [user EXCEPT ![u] = Idle]
  /\ UNCHANGED <<signed, RestOfRequest>>

AbandonRequest(u) ==
  /\ user[u] # Idle
  /\ user' = [user EXCEPT ![u] = Idle]
  /\ UNCHANGED <<answers, signed, RestOfRequest>>

EditProfile(facts) ==
  /\ edits < MaxEdits /\ facts # profile
  /\ edits' = edits + 1 /\ profile' = facts
  /\ UNCHANGED <<rows, lock, job, worker, user, stalls, posted, signed>>

(* archive and resolveHumanAction (Applications.tla has their steps).      *)
MoveStatus(a, from, to) ==
  /\ status[a] \in from
  /\ status' = [status EXCEPT ![a] = to]
  /\ UNCHANGED <<profile, docs, events, answers, lock, job, worker, user, history>>

archive(a) == MoveStatus(a, EDITABLE_STATUSES, "ARCHIVED")
resolveHumanAction(a) == MoveStatus(a, {"REQUIRES_HUMAN_ACTION"}, "PREPARING")

--------------------------------------------------------------------------------

LockedNext(w) ==
  \/ ReadFresh(w)
  \/ FindVariant(w)
  \/ InsertVariant(w)
  \/ FindCover(w)
  \/ CoverRefused(w)
  \/ InsertCover(w)
  \/ ListAnswers(w)
  \/ \E q \in Questions : MarkStale(w, q)
  \/ Revalidated(w)
  \/ Unlock(w)

PrepareNext(w) ==
  \/ BeginPreparation(w)
  \/ StartPreparing(w)
  \/ LoadInputs(w)
  \/ withApplicationLock(w)
  \/ LockedNext(w)
  \/ raiseHumanAction(w)
  \/ Refused(w)

RequestNext(u) ==
  \/ \E a \in Apps, q \in Questions :
       BeginRequest(u, a, q, "putLoad") \/ BeginRequest(u, a, q, "resolveLoad")
  \/ LoadFacts(u)
  \/ \E x \in Wording, wish \in BOOLEAN : PutAnswer(u, x, wish)
  \/ FindPrior(u)
  \/ ResolveQuestion(u)
  \/ AbandonRequest(u)

Next ==
  \/ \E a \in Apps : PostPrepare(a) \/ archive(a) \/ resolveHumanAction(a)
  \/ \E w \in Workers, a \in Apps : TakeJob(w, a)
  \/ \E w \in Workers : PrepareNext(w) \/ Stall(w) \/ Throw(w)
  \/ \E u \in Users : RequestNext(u)
  \/ \E facts \in SUBSET Facts : EditProfile(facts)

Spec == Init /\ [][Next]_vars

--------------------------------------------------------------------------------
(* Properties *)

TypeOK ==
  /\ profile \in SUBSET Facts
  /\ status \in [Apps -> Status]
  /\ docs \in [Apps -> SUBSET Document]
  /\ events \in [Apps -> [Input -> Nat]]
  /\ answers \in [Apps -> [Questions -> Answer \cup {NoAnswer}]]
  /\ lock \in [Apps -> Workers \cup {NoLock}]
  /\ job \in [Apps -> [state : {"none", "waiting", "active", "failed"},
                       attempt : 0..Attempts, stalled : BOOLEAN]]
  /\ worker \in [Workers -> Preparation \cup {Idle}]
  /\ user \in [Users -> Request \cup {Idle}]
  /\ edits \in 0..MaxEdits /\ stalls \in 0..MaxStalls
  /\ posted \in SUBSET Apps /\ signed \in SUBSET (Questions \X Wording)

(* The same input gives the same documents: however often a preparation is *)
(* delivered, retried or overlaps with another one, no application gets    *)
(* two documents of a kind for an input.                                   *)
OneDocumentPerInput ==
  \A a \in Apps : \A d, e \in docs[a] : d.kind = e.kind /\ d.input = e.input => d = e

(* A documents_prepared event is never appended for nothing: an input has  *)
(* as many documents as events, whatever was retried or found in place.    *)
EventsAreBacked ==
  \A a \in Apps : \A i \in Input :
    events[a][i] <= Cardinality({d \in docs[a] : d.input = i})

(* What the plan of phase 4 says: the same input, no duplicate events.     *)
OneEventPerInput == \A a \in Apps : \A i \in Input : events[a][i] <= 1

(* The answer bank never approves by itself: whatever chain of reuse,      *)
(* revalidation and stale writes led to it, an approved answer has a       *)
(* wording the user approved for that very question.                       *)
ApprovalIsHuman ==
  \A a \in Apps, q \in Questions :
    Approved(answers[a][q]) => <<q, answers[a][q].text>> \in signed

(* A 202 is a promise: the job is in the queue until it has ended.         *)
AcceptedIsInFlight == \A a \in posted : InFlight(job[a])

(* A preparation only takes the approval of an answer that is stale: one   *)
(* with a claim the profile no longer supports.                            *)
OnlyStaleIsDemoted ==
  [][\A a \in Apps, q \in Questions :
       /\ Approved(answers[a][q]) /\ ~Approved(answers'[a][q])
       /\ \E w \in Workers : worker'[w] # worker[w]
       => ~(ClaimsOf[answers[a][q].text] \subseteq profile)]_vars

================================================================================
