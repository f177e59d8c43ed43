------------------------ MODULE DocumentPreparationProofs ------------------------
(***************************************************************************)
(* What holds of DocumentPreparation for every number of applications,     *)
(* workers, requests, facts, wordings and attempts.  The lock of an        *)
(* application orders everything its documents depend on; the answers are  *)
(* written without it, and hold on to what the user has approved.          *)
(***************************************************************************)
EXTENDS DocumentPreparation, FiniteSetTheorems, TLAPS

--------------------------------------------------------------------------------
(* The inductive invariant.                                                *)

(* The steps of a preparation between taking the lock and giving it back.  *)
LockedSteps == {"fresh", "variant", "insertVariant", "cover", "insertCover",
                "list", "revalidate", "unlock"}

(* Those at which it may have made a document and has appended no event.   *)
WritingSteps == {"cover", "insertCover", "list", "revalidate"}

DocsFor(a, i) == {d \in docs[a] : d.input = i}

LockOK == \A w \in Workers : worker[w].step \in LockedSteps => lock[worker[w].app] = w

(* Only one that has created something says so.                            *)
CreatedOK ==
  \A w \in Workers : worker[w] # Idle /\ worker[w].created =>
    worker[w].step \in WritingSteps \cup {"unlock", "raise"}

(* A document is not there when it is about to be inserted.                *)
FoundOK ==
  \A w \in Workers :
    /\ worker[w].step = "insertVariant" => ~HasDocument(w, "resume_variant")
    /\ worker[w].step = "insertCover" => ~HasDocument(w, "cover_letter")

(* A preparation that created a document holds one no event is about.      *)
OwedOK ==
  \A w \in Workers : worker[w].step \in WritingSteps /\ worker[w].created =>
    events[worker[w].app][worker[w].view] < Cardinality(DocsFor(worker[w].app, worker[w].view))

FiniteOK == \A a \in Apps : IsFiniteSet(docs[a])

(* What is about to be written back was an approved answer when it was     *)
(* listed, and what is about to be reused has been signed.                 *)
SeenOK ==
  \A w \in Workers : worker[w].step = "revalidate" =>
    \A q \in worker[w].todo : Approved(worker[w].seen[q])

PriorOK ==
  \A u \in Users : user[u].step = "resolve" => <<user[u].question, user[u].prior>> \in signed

IInv ==
  /\ TypeOK
  /\ LockOK /\ CreatedOK /\ FoundOK /\ OwedOK /\ FiniteOK /\ SeenOK /\ PriorOK
  /\ OneDocumentPerInput /\ EventsAreBacked /\ ApprovalIsHuman

--------------------------------------------------------------------------------
(* What a step can do to each variable.                                    *)

(* Lemma: a worker that is not idle runs a preparation, and the updates of *)
(* a preparation.                                                          *)
LEMMA Preparations ==
  ASSUME TypeOK, NEW w \in Workers, worker[w] # Idle
  PROVE  /\ worker[w] \in Preparation /\ worker[w].step \in Steps /\ worker[w].app \in Apps
         /\ \A step \in Steps : [worker[w] EXCEPT !.step = step] \in Preparation
         /\ [worker[w] EXCEPT !.mine = FALSE] \in Preparation
  BY DEF TypeOK, Preparation

Same(w) == worker'[w].app = worker[w].app /\ worker'[w].view = worker[w].view
Keeps(w) == Same(w) /\ worker'[w].created = worker[w].created
Moves(w, step) == worker[w] # Idle /\ worker'[w].step = step /\ Keeps(w) /\ worker'[w] \in Preparation

(* Nothing but worker w changes.                                           *)
Others(w) ==
  /\ \A v \in Workers \ {w} : worker'[v] = worker[v]
  /\ worker' \in [Workers -> Preparation \cup {Idle}]

(* Lemma: a step of GoTo.                                                  *)
LEMMA GoToEffect ==
  ASSUME TypeOK, NEW w \in Workers, worker[w] # Idle, NEW step \in Steps, GoTo(w, step)
  PROVE  Moves(w, step) /\ Others(w)
<1>1. worker' = [worker EXCEPT ![w] = [worker[w] EXCEPT !.step = step]]
  BY DEF GoTo
<1>2. worker[w] \in Preparation
  BY Preparations
<1>3. [worker[w] EXCEPT !.step = step] \in Preparation
  BY <1>2 DEF Preparation
<1>4. worker'[w] = [worker[w] EXCEPT !.step = step] /\ Others(w)
  BY <1>1, <1>3 DEF TypeOK, Others
<1>5. QED
  BY <1>2, <1>3, <1>4 DEF Moves, Keeps, Same, Preparation

NewDocument(w, kind, text) ==
  LET a == worker[w].app IN
  /\ \A d \in docs[a] : d.kind # kind \/ d.text # text
  /\ docs' = [docs EXCEPT ![a] = @ \cup {[kind |-> kind, input |-> worker[w].view, text |-> text]}]

(* Lemma: a document that is new is added, with the input it is made from. *)
LEMMA InsertEffect ==
  ASSUME TypeOK, NEW w \in Workers, worker[w] # Idle, NEW kind, NEW text, NEW next \in Steps,
         insertDocument(w, kind, text, next)
  PROVE  /\ worker'[w] \in Preparation /\ worker'[w].step = next /\ Same(w) /\ Others(w)
         /\ \/ docs' = docs /\ worker'[w].created = worker[w].created
            \/ NewDocument(w, kind, text)
<1> DEFINE new == \A d \in docs[worker[w].app] : d.kind # kind \/ d.text # text
           made == worker[w].created \/ new
<1>1. worker' = [worker EXCEPT ![w] = [worker[w] EXCEPT !.step = next, !.created = made]]
  BY DEF insertDocument
<1>2. worker[w] \in Preparation
  BY Preparations
<1>3. worker[w].created \in BOOLEAN
  BY <1>2 DEF Preparation
<1>4. made \in BOOLEAN
  BY <1>3, Zenon
<1>5. ~new => made = worker[w].created
  BY <1>3, Zenon
<1> HIDE DEF made
<1>6. [worker[w] EXCEPT !.step = next, !.created = made] \in Preparation
  BY <1>2, <1>4 DEF Preparation
<1>7. worker'[w] = [worker[w] EXCEPT !.step = next, !.created = made] /\ Others(w)
  BY <1>1, <1>6 DEF TypeOK, Others
<1>8. worker'[w] \in Preparation /\ worker'[w].step = next /\ Same(w) /\ worker'[w].created = made
  BY <1>2, <1>6, <1>7 DEF Preparation, Same
<1>9. CASE new
  BY <1>7, <1>8, <1>9 DEF insertDocument, NewDocument
<1>10. CASE ~new
  <2>1. docs' = docs
    BY <1>10 DEF insertDocument
  <2>2. worker'[w].created = worker[w].created
    BY <1>5, <1>8, <1>10
  <2>3. QED
    BY <1>7, <1>8, <2>1, <2>2
<1>11. QED
  BY <1>9, <1>10

(* Lemma: the end of a preparation, whatever ended it.                     *)
LEMMA EndEffect ==
  ASSUME TypeOK, NEW w \in Workers, worker[w] # Idle, NEW well \in BOOLEAN, End(w, well)
  PROVE  /\ worker'[w] = Idle /\ Others(w)
         /\ \A a \in Apps : lock'[a] = lock[a] \/ (lock[a] = w /\ lock'[a] = NoLock)
         /\ lock' \in [Apps -> Workers \cup {NoLock}]
         /\ job' \in [Apps -> [state : {"none", "waiting", "active", "failed"},
                               attempt : 0..Attempts, stalled : BOOLEAN]]
         /\ posted' \in SUBSET Apps
<1> DEFINE Job == [state : {"none", "waiting", "active", "failed"},
                   attempt : 0..Attempts, stalled : BOOLEAN]
<1>1. worker'[w] = Idle /\ Others(w)
  BY DEF End, TypeOK, Others
<1>2. /\ \A a \in Apps : lock'[a] = lock[a] \/ (lock[a] = w /\ lock'[a] = NoLock)
      /\ lock' \in [Apps -> Workers \cup {NoLock}]
  BY DEF End, LockAfter, TypeOK
<1>3. ASSUME NEW j \in Job PROVE Retry(j) \in Job
  <2>1. j.attempt < Attempts => j.attempt + 1 \in 0..Attempts
    BY LimitAssumption
  <2>2. QED
    BY <2>1 DEF Retry
<1>4. job' \in [Apps -> Job]
  <2>1. job \in [Apps -> Job] /\ NoJob \in Job
    BY LimitAssumption DEF TypeOK, NoJob
  <2>2. \/ job' = job
        \/ job' = [job EXCEPT ![worker[w].app] = NoJob]
        \/ job' = [job EXCEPT ![worker[w].app] = Retry(job[worker[w].app])]
    BY DEF End
  <2>3. worker[w].app \in Apps
    BY Preparations
  <2>4. Retry(job[worker[w].app]) \in Job
    BY <1>3, <2>1, <2>3
  <2> HIDE DEF Job
  <2>5. QED
    BY <2>1, <2>2, <2>3, <2>4
<1>5. posted' \in SUBSET Apps
  BY DEF End, TypeOK
<1>6. QED
  BY <1>1, <1>2, <1>4, <1>5

(* A worker inserts a document, or finds its bytes there.                  *)
Inserts(w, kind, next) ==
  /\ worker[w] # Idle
  /\ worker'[w] \in Preparation /\ worker'[w].step = next /\ Same(w)
  /\ \/ docs' = docs /\ worker'[w].created = worker[w].created
     \/ \E text \in Text : NewDocument(w, kind, text)

WorkerChange(w) ==
  \/ worker'[w] = worker[w]
  \/ worker'[w] = Idle
  \/ worker'[w] \in Preparation /\ worker'[w].step = "begin" /\ worker'[w].created = FALSE
  \/ /\ Moves(w, worker[w].step)
     /\ worker'[w].seen = worker[w].seen /\ worker'[w].todo = worker[w].todo
  \/ /\ worker[w].step \in {"begin", "start", "load"} /\ worker'[w] \in Preparation
     /\ worker'[w].step \in {"start", "load", "lock", "raise"}
     /\ worker'[w].created = worker[w].created
  \/ withApplicationLock(w) /\ Moves(w, "fresh")
  \/ ReadFresh(w) /\ (Moves(w, "variant") \/ Moves(w, "unlock"))
  \/ /\ FindVariant(w)
     /\ Moves(w, IF HasDocument(w, "resume_variant") THEN "cover" ELSE "insertVariant")
  \/ InsertVariant(w) /\ Inserts(w, "resume_variant", "cover")
  \/ /\ FindCover(w)
     /\ Moves(w, IF HasDocument(w, "cover_letter") THEN "list" ELSE "insertCover")
  \/ CoverRefused(w) /\ Moves(w, "raise")
  \/ InsertCover(w) /\ Inserts(w, "cover_letter", "list")
  \/ /\ ListAnswers(w) /\ Moves(w, "revalidate")
     /\ \A q \in worker'[w].todo : Approved(worker'[w].seen[q])
  \/ /\ worker[w].step = "revalidate" /\ Moves(w, "revalidate")
     /\ worker'[w].seen = worker[w].seen /\ worker'[w].todo \subseteq worker[w].todo
  \/ Revalidated(w) /\ Moves(w, "unlock")

(* Lemma: what the steps of one worker make of it.                         *)
LEMMA WorkerSteps ==
  ASSUME TypeOK, NEW w \in Workers, PrepareNext(w) \/ Stall(w) \/ Throw(w)
  PROVE  WorkerChange(w) /\ Others(w)
<1>1. worker[w] # Idle /\ worker[w] \in Preparation
  <2>1. PrepareNext(w) => worker[w].step # "idle"
    BY DEF PrepareNext, LockedNext, BeginPreparation, StartPreparing, LoadInputs,
           withApplicationLock, ReadFresh, FindVariant, InsertVariant, FindCover, CoverRefused,
           InsertCover, ListAnswers, MarkStale, Revalidated, Unlock, raiseHumanAction, Refused, At
  <2>2. Idle.step = "idle"
    BY DEF Idle
  <2>3. Stall(w) \/ Throw(w) => worker[w] # Idle
    BY DEF Stall, Throw
  <2>4. QED
    BY <2>1, <2>2, <2>3, Preparations
<1> DEFINE Result == WorkerChange(w) /\ Others(w)
<1>2. CASE BeginPreparation(w) \/ StartPreparing(w)
  <2>1. /\ worker[w].step \in {"begin", "start"}
        /\ GoTo(w, "start") \/ GoTo(w, "load")
    BY <1>2 DEF BeginPreparation, StartPreparing, At
  <2>2. (Moves(w, "start") \/ Moves(w, "load")) /\ Others(w)
    BY <1>1, <2>1, GoToEffect DEF Steps
  <2>3. QED
    BY <2>1, <2>2 DEF WorkerChange, Moves, Keeps
<1>3. CASE LoadInputs(w)
  <2>1. PICK step \in {"lock", "raise"} :
          worker' = [worker EXCEPT ![w] = [worker[w] EXCEPT !.step = step, !.view = profile \ SalaryFacts]]
    BY <1>3 DEF LoadInputs
  <2>2. profile \ SalaryFacts \in Input
    BY DEF TypeOK, Input
  <2>3. [worker[w] EXCEPT !.step = step, !.view = profile \ SalaryFacts] \in Preparation
    BY <1>1, <2>2 DEF Preparation, Steps
  <2>4. worker'[w] = [worker[w] EXCEPT !.step = step, !.view = profile \ SalaryFacts] /\ Others(w)
    BY <2>1, <2>3 DEF TypeOK, Others
  <2>5. /\ worker'[w] \in Preparation /\ worker'[w].step \in {"lock", "raise"}
        /\ worker'[w].created = worker[w].created
    BY <1>1, <2>3, <2>4 DEF Preparation
  <2>6. worker[w].step = "load"
    BY <1>3 DEF LoadInputs, At
  <2>7. QED
    BY <2>4, <2>5, <2>6 DEF WorkerChange
<1>4. CASE withApplicationLock(w)
  <2>1. GoTo(w, "fresh")
    BY <1>4 DEF withApplicationLock
  <2>2. QED
    BY <1>1, <1>4, <2>1, GoToEffect DEF Steps, WorkerChange
<1>5. CASE ReadFresh(w)
  <2>1. GoTo(w, "variant") \/ GoTo(w, "unlock")
    BY <1>5 DEF ReadFresh
  <2>2. QED
    BY <1>1, <1>5, <2>1, GoToEffect DEF Steps, WorkerChange
<1>6. CASE FindVariant(w)
  <2> DEFINE next == IF HasDocument(w, "resume_variant") THEN "cover" ELSE "insertVariant"
  <2>1. GoTo(w, next) /\ next \in Steps
    BY <1>6 DEF FindVariant, Steps
  <2> HIDE DEF next
  <2>2. Moves(w, next) /\ Others(w)
    BY <1>1, <2>1, GoToEffect
  <2>3. QED
    BY <1>6, <2>2 DEF WorkerChange, next
<1>7. CASE InsertVariant(w)
  <2>1. worker[w].view \in Input
    BY <1>1 DEF Preparation
  <2>2. VariantText[worker[w].view] \in Text
    BY <2>1, VariantAssumption
  <2>3. insertDocument(w, "resume_variant", VariantText[worker[w].view], "cover")
    BY <1>7 DEF InsertVariant
  <2>4. "cover" \in Steps
    BY DEF Steps
  <2>5. Inserts(w, "resume_variant", "cover") /\ Others(w)
    BY <1>1, <2>2, <2>3, <2>4, InsertEffect DEF Inserts
  <2>6. QED
    BY <1>7, <2>5 DEF WorkerChange
<1>8. CASE FindCover(w)
  <2> DEFINE next == IF HasDocument(w, "cover_letter") THEN "list" ELSE "insertCover"
  <2>1. GoTo(w, next) /\ next \in Steps
    BY <1>8 DEF FindCover, Steps
  <2> HIDE DEF next
  <2>2. Moves(w, next) /\ Others(w)
    BY <1>1, <2>1, GoToEffect
  <2>3. QED
    BY <1>8, <2>2 DEF WorkerChange, next
<1>9. CASE CoverRefused(w)
  <2>1. GoTo(w, "raise")
    BY <1>9 DEF CoverRefused
  <2>2. QED
    BY <1>1, <1>9, <2>1, GoToEffect DEF Steps, WorkerChange
<1>10. CASE InsertCover(w)
  <2>1. PICK text \in Text : insertDocument(w, "cover_letter", text, "list")
    BY <1>10 DEF InsertCover
  <2>2. "list" \in Steps
    BY DEF Steps
  <2>3. Inserts(w, "cover_letter", "list") /\ Others(w)
    BY <1>1, <2>1, <2>2, InsertEffect DEF Inserts
  <2>4. QED
    BY <1>10, <2>3 DEF WorkerChange
<1>11. CASE ListAnswers(w)
  <2> DEFINE seen == answers[worker[w].app]
             todo == {q \in Questions : Approved(seen[q]) /\ ~Verified(seen[q].text, worker[w].view)}
  <2>1. worker' = [worker EXCEPT ![w] = [worker[w] EXCEPT !.step = "revalidate", !.seen = seen, !.todo = todo]]
    BY <1>11 DEF ListAnswers
  <2>2. seen \in [Questions -> Answer \cup {NoAnswer}] /\ todo \in SUBSET Questions
    BY <1>1 DEF TypeOK, Preparation
  <2>3. \A q \in todo : Approved(seen[q])
    OBVIOUS
  <2> HIDE DEF seen, todo
  <2>4. [worker[w] EXCEPT !.step = "revalidate", !.seen = seen, !.todo = todo] \in Preparation
    BY <1>1, <2>2 DEF Preparation, Steps
  <2>5. worker'[w] = [worker[w] EXCEPT !.step = "revalidate", !.seen = seen, !.todo = todo] /\ Others(w)
    BY <2>1, <2>4 DEF TypeOK, Others
  <2>6. Moves(w, "revalidate") /\ worker'[w].seen = seen /\ worker'[w].todo = todo
    BY <1>1, <2>4, <2>5 DEF Preparation, Moves, Keeps, Same
  <2>7. \A q \in worker'[w].todo : Approved(worker'[w].seen[q])
    BY <2>3, <2>6
  <2>8. QED
    BY <1>11, <2>5, <2>6, <2>7 DEF WorkerChange
<1>12. ASSUME NEW q \in Questions, MarkStale(w, q) PROVE Result
  <2> DEFINE todo == worker[w].todo \ {q}
  <2>1. worker' = [worker EXCEPT ![w] = [worker[w] EXCEPT !.todo = todo]]
    BY <1>12 DEF MarkStale
  <2>2. [worker[w] EXCEPT !.todo = todo] \in Preparation
    BY <1>1 DEF Preparation
  <2>3. worker'[w] = [worker[w] EXCEPT !.todo = todo] /\ Others(w)
    BY <2>1, <2>2 DEF TypeOK, Others
  <2>4. worker[w].step = "revalidate"
    BY <1>12 DEF MarkStale, At
  <2>5. Moves(w, "revalidate") /\ worker'[w].seen = worker[w].seen /\ worker'[w].todo = todo
    BY <1>1, <2>2, <2>3, <2>4 DEF Preparation, Moves, Keeps, Same
  <2>6. QED
    BY <2>3, <2>4, <2>5 DEF WorkerChange
<1>13. CASE Revalidated(w)
  <2>1. worker' = [worker EXCEPT ![w] = [worker[w] EXCEPT !.step = "unlock", !.seen = NothingSeen]]
    BY <1>13 DEF Revalidated
  <2>2. NothingSeen \in [Questions -> Answer \cup {NoAnswer}]
    BY DEF NothingSeen
  <2>3. [worker[w] EXCEPT !.step = "unlock", !.seen = NothingSeen] \in Preparation
    BY <1>1, <2>2 DEF Preparation, Steps
  <2>4. worker'[w] = [worker[w] EXCEPT !.step = "unlock", !.seen = NothingSeen] /\ Others(w)
    BY <2>1, <2>3 DEF TypeOK, Others
  <2>5. Moves(w, "unlock")
    BY <1>1, <2>3, <2>4 DEF Preparation, Moves, Keeps, Same
  <2>6. QED
    BY <1>13, <2>4, <2>5 DEF WorkerChange
<1>14. CASE Unlock(w) \/ raiseHumanAction(w) \/ Throw(w) \/ Refused(w)
  <2>1. End(w, TRUE) \/ End(w, FALSE)
    BY <1>14 DEF Unlock, raiseHumanAction, Throw, Refused
  <2>2. QED
    BY <1>1, <2>1, EndEffect DEF WorkerChange
<1>15. CASE Stall(w)
  <2>1. worker' = [worker EXCEPT ![w] = [worker[w] EXCEPT !.mine = FALSE]]
    BY <1>15 DEF Stall
  <2>2. [worker[w] EXCEPT !.mine = FALSE] \in Preparation
    BY <1>1 DEF Preparation
  <2>3. worker'[w] = [worker[w] EXCEPT !.mine = FALSE] /\ Others(w)
    BY <2>1, <2>2 DEF TypeOK, Others
  <2>4. /\ Moves(w, worker[w].step)
        /\ worker'[w].seen = worker[w].seen /\ worker'[w].todo = worker[w].todo
    BY <1>1, <2>2, <2>3 DEF Preparation, Moves, Keeps, Same
  <2>5. QED
    BY <2>3, <2>4 DEF WorkerChange
<1>16. QED
  BY <1>2, <1>3, <1>4, <1>5, <1>6, <1>7, <1>8, <1>9, <1>10, <1>11, <1>12, <1>13, <1>14, <1>15
     DEF PrepareNext, LockedNext

(* Lemma: the steps of every worker.                                       *)
LEMMA WorkerEffect ==
  ASSUME TypeOK, [Next]_vars
  PROVE  /\ worker' \in [Workers -> Preparation \cup {Idle}]
         /\ \A w \in Workers : WorkerChange(w)
<1>1. ASSUME NEW w \in Workers, PrepareNext(w) \/ Stall(w) \/ Throw(w)
      PROVE  /\ worker' \in [Workers -> Preparation \cup {Idle}]
             /\ \A v \in Workers : WorkerChange(v)
  <2>1. WorkerChange(w) /\ Others(w)
    BY <1>1, WorkerSteps
  <2>2. \A v \in Workers \ {w} : WorkerChange(v)
    BY <2>1 DEF Others, WorkerChange
  <2>3. QED
    BY <2>1, <2>2 DEF Others
<1>2. ASSUME NEW w \in Workers, NEW a \in Apps, TakeJob(w, a)
      PROVE  /\ worker' \in [Workers -> Preparation \cup {Idle}]
             /\ \A v \in Workers : WorkerChange(v)
  <2> DEFINE first == [step |-> "begin", app |-> a, mine |-> TRUE, view |-> {}, created |-> FALSE,
                       seen |-> NothingSeen, todo |-> {}]
  <2>1. first \in Preparation /\ first.step = "begin" /\ first.created = FALSE
    BY DEF Preparation, Steps, Input, NothingSeen
  <2>2. worker' = [worker EXCEPT ![w] = first]
    BY <1>2 DEF TakeJob
  <2> HIDE DEF first
  <2>3. worker'[w] = first /\ \A v \in Workers \ {w} : worker'[v] = worker[v]
    BY <2>2 DEF TypeOK
  <2>4. worker' \in [Workers -> Preparation \cup {Idle}]
    BY <2>1, <2>2 DEF TypeOK
  <2>5. WorkerChange(w) /\ \A v \in Workers \ {w} : WorkerChange(v)
    BY <2>1, <2>3 DEF WorkerChange
  <2>6. QED
    BY <2>4, <2>5
<1>3. CASE UNCHANGED worker
  BY <1>3 DEF TypeOK, WorkerChange
<1>4. QED
  BY <1>1, <1>2, <1>3
     DEF Next, RequestNext, PostPrepare, archive, resolveHumanAction, MoveStatus, EditProfile,
         BeginRequest, LoadFacts, PutAnswer, FindPrior, ResolveQuestion, AbandonRequest,
         RestOfRequest, vars

Ends(w) == End(w, TRUE) \/ End(w, FALSE)

LockChange(a) ==
  \/ lock'[a] = lock[a]
  \/ \E w \in Workers : withApplicationLock(w) /\ worker[w].app = a /\ lock[a] = NoLock /\ lock'[a] = w
  \/ \E w \in Workers : lock[a] = w /\ worker'[w] = Idle

(* Lemma: the lock is taken when it is free, and given back at the end.    *)
LEMMA LockEffect ==
  ASSUME TypeOK, [Next]_vars, NEW a \in Apps
  PROVE  LockChange(a)
<1>1. ASSUME NEW w \in Workers, withApplicationLock(w) PROVE LockChange(a)
  <2>1. /\ lock[worker[w].app] = NoLock
        /\ lock' = [lock EXCEPT ![worker[w].app] = w]
    BY <1>1 DEF withApplicationLock, LockFree
  <2>2. lock'[a] = lock[a] \/ (worker[w].app = a /\ lock[a] = NoLock /\ lock'[a] = w)
    BY <2>1 DEF TypeOK
  <2>3. QED
    BY <1>1, <2>2 DEF LockChange
<1>2. ASSUME NEW w \in Workers, Ends(w) PROVE LockChange(a)
  <2>1. worker'[w] = Idle /\ lock' = LockAfter(w)
    BY <1>2 DEF Ends, End, TypeOK
  <2>2. QED
    BY <2>1 DEF LockAfter, LockChange
<1>3. ASSUME NEW w \in Workers, Unlock(w) \/ raiseHumanAction(w) \/ Throw(w) \/ Refused(w)
      PROVE  LockChange(a)
  <2>1. Ends(w)
    BY <1>3 DEF Unlock, raiseHumanAction, Throw, Refused, Ends
  <2>2. QED
    BY <1>2, <2>1
<1>4. CASE UNCHANGED lock
  BY <1>4 DEF LockChange
<1>5. QED
  BY ZenonT(60), <1>1, <1>3, <1>4
     DEF Next, RequestNext, PostPrepare, archive, resolveHumanAction, MoveStatus, EditProfile,
         BeginRequest, LoadFacts, PutAnswer, FindPrior, ResolveQuestion, AbandonRequest,
         RestOfRequest, TakeJob, Stall, PrepareNext, LockedNext, BeginPreparation, StartPreparing,
         LoadInputs, ReadFresh, FindVariant, InsertVariant, insertDocument, FindCover,
         CoverRefused, InsertCover, ListAnswers, MarkStale, Revalidated, RestOfBegin,
         RestOfLocked, vars

DocsChange ==
  \/ docs' = docs
  \/ \E w \in Workers, text \in Text :
       /\ InsertVariant(w) /\ worker'[w].step = "cover"
       /\ NewDocument(w, "resume_variant", text)
  \/ \E w \in Workers, text \in Text :
       /\ InsertCover(w) /\ worker'[w].step = "list"
       /\ NewDocument(w, "cover_letter", text)

(* Lemma: who inserts documents.                                           *)
LEMMA DocsEffect == ASSUME TypeOK, [Next]_vars PROVE DocsChange
<1>1. ASSUME NEW w \in Workers, InsertVariant(w) PROVE DocsChange
  <2>1. Inserts(w, "resume_variant", "cover")
    <3>1. worker[w] # Idle /\ worker[w].step = "insertVariant"
      BY <1>1 DEF InsertVariant, At, Idle
    <3>2. insertDocument(w, "resume_variant", VariantText[worker[w].view], "cover")
      BY <1>1 DEF InsertVariant
    <3>3. VariantText[worker[w].view] \in Text
      BY <3>1, Preparations, VariantAssumption DEF Preparation
    <3>4. "cover" \in Steps
      BY DEF Steps
    <3>5. QED
      BY <3>1, <3>2, <3>3, <3>4, InsertEffect DEF Inserts
  <2>2. QED
    BY <1>1, <2>1 DEF Inserts, DocsChange
<1>2. ASSUME NEW w \in Workers, InsertCover(w) PROVE DocsChange
  <2>1. PICK text \in Text : insertDocument(w, "cover_letter", text, "list")
    BY <1>2 DEF InsertCover
  <2>2. worker[w] # Idle
    BY <1>2 DEF InsertCover, At, Idle
  <2>3. "list" \in Steps
    BY DEF Steps
  <2>4. worker'[w].step = "list" /\ (docs' = docs \/ NewDocument(w, "cover_letter", text))
    BY <2>1, <2>2, <2>3, InsertEffect
  <2>5. QED
    BY <1>2, <2>4 DEF DocsChange
<1>3. CASE UNCHANGED docs
  BY <1>3 DEF DocsChange
<1>4. QED
  BY ZenonT(60), <1>1, <1>2, <1>3
     DEF Next, RequestNext, PostPrepare, archive, resolveHumanAction, MoveStatus, EditProfile,
         BeginRequest, LoadFacts, PutAnswer, FindPrior, ResolveQuestion, AbandonRequest,
         RestOfRequest, TakeJob, Stall, Throw, Refused, PrepareNext, LockedNext,
         BeginPreparation, StartPreparing, LoadInputs, withApplicationLock, ReadFresh,
         FindVariant, FindCover, CoverRefused, ListAnswers, MarkStale, Revalidated, Unlock,
         raiseHumanAction, RestOfBegin, RestOfLocked, rows, vars

(* Lemma: an event is appended for a preparation that created something.   *)
LEMMA EventsEffect ==
  ASSUME TypeOK, [Next]_vars
  PROVE  \/ events' = events
         \/ \E w \in Workers :
              /\ Revalidated(w) /\ EventDue(w) /\ docs' = docs
              /\ events' = [events EXCEPT ![worker[w].app][worker[w].view] = @ + 1]
  BY ZenonT(60) DEF Next, RequestNext, PostPrepare, archive, resolveHumanAction, MoveStatus, EditProfile,
         BeginRequest, LoadFacts, PutAnswer, FindPrior, ResolveQuestion, AbandonRequest,
         RestOfRequest, TakeJob, Stall, Throw, Refused, PrepareNext, LockedNext,
         BeginPreparation, StartPreparing, LoadInputs, withApplicationLock, ReadFresh,
         FindVariant, InsertVariant, insertDocument, FindCover, CoverRefused, InsertCover,
         ListAnswers, MarkStale, Revalidated, Unlock, raiseHumanAction, RestOfBegin,
         RestOfLocked, rows, vars

AnswersChange(a, q) ==
  \/ answers'[a][q] = answers[a][q]
  \/ ~Approved(answers'[a][q])
  \/ <<q, answers'[a][q].text>> \in signed'
  \/ \E u \in Users :
       /\ user[u].step = "resolve" /\ user[u].question = q
       /\ answers'[a][q].text = user[u].prior

(* Lemma: an answer is replaced by one that is not approved, by one that   *)
(* is signed, or by the reuse of one.                                      *)
LEMMA AnswersEffect ==
  ASSUME TypeOK, SeenOK, PriorOK, [Next]_vars
  PROVE  /\ answers' \in [Apps -> [Questions -> Answer \cup {NoAnswer}]]
         /\ signed' \in SUBSET (Questions \X Wording)
         /\ signed \subseteq signed'
         /\ \A a \in Apps, q \in Questions : AnswersChange(a, q)
<1> DEFINE Result == /\ answers' \in [Apps -> [Questions -> Answer \cup {NoAnswer}]]
                     /\ signed' \in SUBSET (Questions \X Wording)
                     /\ signed \subseteq signed'
                     /\ \A a \in Apps, q \in Questions : AnswersChange(a, q)
<1>1. ASSUME NEW b \in Apps, NEW p \in Questions, NEW answer \in Answer,
             answers' = [answers EXCEPT ![b][p] = answer]
      PROVE  /\ answers' \in [Apps -> [Questions -> Answer \cup {NoAnswer}]]
             /\ answers'[b][p] = answer
             /\ \A a \in Apps, q \in Questions :
                  a # b \/ q # p => answers'[a][q] = answers[a][q]
  BY <1>1 DEF TypeOK
<1>2. \A x, view : Verified(x, view) \in BOOLEAN
  BY DEF Verified
<1>3. ASSUME NEW w \in Workers, NEW p \in Questions, MarkStale(w, p) PROVE Result
  <2>1. worker[w] # Idle /\ worker[w].step = "revalidate" /\ p \in worker[w].todo
    BY <1>3 DEF MarkStale, At, Idle
  <2>2. worker[w] \in Preparation /\ worker[w].app \in Apps
    BY <2>1, Preparations
  <2>3. worker[w].seen[p] \in Answer
    BY <2>1, <2>2 DEF SeenOK, Approved, Preparation
  <2>4. PICK answer : /\ answer = [text |-> worker[w].seen[p].text, ok |-> FALSE, approved |-> FALSE]
                      /\ answers' = [answers EXCEPT ![worker[w].app][p] = answer]
    BY <1>3 DEF MarkStale
  <2>5. answer \in Answer /\ ~Approved(answer)
    BY <2>3, <2>4 DEF Answer, Approved
  <2>6. signed' = signed
    BY <1>3 DEF MarkStale, RestOfLocked, history
  <2>7. ASSUME NEW a \in Apps, NEW q \in Questions PROVE AnswersChange(a, q)
    <3>1. answers'[a][q] = answers[a][q] \/ answers'[a][q] = answer
      BY <1>1, <2>2, <2>4, <2>5
    <3>2. QED
      BY <2>5, <3>1 DEF AnswersChange
  <2>8. QED
    BY <1>1, <2>2, <2>4, <2>5, <2>6, <2>7 DEF TypeOK
<1>4. ASSUME NEW u \in Users, NEW x \in Wording, NEW wish \in BOOLEAN, PutAnswer(u, x, wish)
      PROVE  Result
  <2> DEFINE approved == wish /\ Verified(x, user[u].view)
  <2>1. user[u] \in Request
    BY <1>4 DEF PutAnswer, TypeOK, Idle
  <2>2. user[u].app \in Apps /\ user[u].question \in Questions
    BY <2>1 DEF Request
  <2>3. approved \in BOOLEAN
    BY <1>2
  <2>4. PICK answer : /\ answer = [text |-> x, ok |-> Verified(x, user[u].view), approved |-> approved]
                      /\ answers' = [answers EXCEPT ![user[u].app][user[u].question] = answer]
    BY <1>4 DEF PutAnswer, upsertAnswer
  <2>5. signed' = IF approved THEN signed \cup {<<user[u].question, x>>} ELSE signed
    BY <1>4 DEF PutAnswer
  <2> HIDE DEF approved
  <2>6. answer \in Answer /\ answer.text = x /\ answer.approved = approved
    BY <1>2, <2>3, <2>4 DEF Answer
  <2>7. ~Approved(answer) \/ <<user[u].question, answer.text>> \in signed'
    <3>1. CASE approved
      BY <2>5, <2>6, <3>1
    <3>2. CASE ~approved
      BY <2>6, <3>2 DEF Approved
    <3>3. QED
      BY <3>1, <3>2
  <2>8. signed' \in SUBSET (Questions \X Wording) /\ signed \subseteq signed'
    BY <2>2, <2>5 DEF TypeOK
  <2>9. \A a \in Apps, q \in Questions : AnswersChange(a, q)
    BY SMTT(30), <1>1, <2>2, <2>4, <2>6, <2>7 DEF AnswersChange
  <2>10. QED
    BY <1>1, <2>2, <2>4, <2>6, <2>8, <2>9
<1>5. ASSUME NEW u \in Users, ResolveQuestion(u) PROVE Result
  <2>1. user[u] \in Request /\ user[u].step = "resolve"
    BY <1>5 DEF ResolveQuestion, TypeOK, Idle
  <2>2. user[u].app \in Apps /\ user[u].question \in Questions
    BY <2>1 DEF Request
  <2>3. user[u].prior \in Wording
    BY <2>1 DEF PriorOK, TypeOK
  <2>4. PICK answer : /\ answer = [text |-> user[u].prior, ok |-> Verified(user[u].prior, user[u].view),
                                   approved |-> Verified(user[u].prior, user[u].view)]
                      /\ answers' = [answers EXCEPT ![user[u].app][user[u].question] = answer]
    BY <1>5 DEF ResolveQuestion, upsertAnswer
  <2>5. answer \in Answer /\ answer.text = user[u].prior
    BY <1>2, <2>3, <2>4 DEF Answer
  <2>6. signed' = signed
    BY <1>5 DEF ResolveQuestion
  <2>7. \A a \in Apps, q \in Questions : AnswersChange(a, q)
    BY SMTT(30), <1>1, <2>1, <2>2, <2>4, <2>5 DEF AnswersChange
  <2>8. QED
    BY <1>1, <2>2, <2>4, <2>5, <2>6, <2>7 DEF TypeOK
<1>6. ASSUME UNCHANGED <<answers, signed>> PROVE Result
  BY <1>6 DEF TypeOK, AnswersChange
<1> HIDE DEF Result
<1>7. Result
  BY ZenonT(60), <1>3, <1>4, <1>5, <1>6
     DEF Next, RequestNext, PostPrepare, archive, resolveHumanAction, MoveStatus, EditProfile,
         BeginRequest, LoadFacts, FindPrior, AbandonRequest, RestOfRequest, TakeJob, Stall,
         Throw, Refused, PrepareNext, LockedNext, BeginPreparation, StartPreparing, LoadInputs,
         withApplicationLock, ReadFresh, FindVariant, InsertVariant, insertDocument, FindCover,
         CoverRefused, InsertCover, ListAnswers, Revalidated, Unlock, raiseHumanAction,
         RestOfBegin, RestOfLocked, rows, history, vars
<1>8. QED
  BY <1>7 DEF Result

ReadyToReuse(u) ==
  user'[u].step = "resolve" =>
    user'[u] = user[u] \/ <<user'[u].question, user'[u].prior>> \in signed

(* Lemma: a request that is about to reuse an answer found it approved.    *)
LEMMA UserEffect ==
  ASSUME TypeOK, ApprovalIsHuman, [Next]_vars
  PROVE  /\ user' \in [Users -> Request \cup {Idle}]
         /\ \A u \in Users : ReadyToReuse(u)
<1> DEFINE Result == /\ user' \in [Users -> Request \cup {Idle}]
                     /\ \A u \in Users : ReadyToReuse(u)
<1>1. ASSUME NEW u \in Users, NEW request \in Request \cup {Idle},
             user' = [user EXCEPT ![u] = request],
             request.step = "resolve" => <<request.question, request.prior>> \in signed
      PROVE  Result
  <2>1. user' \in [Users -> Request \cup {Idle}]
    BY <1>1 DEF TypeOK
  <2>2. user'[u] = request /\ \A v \in Users \ {u} : user'[v] = user[v]
    BY <1>1 DEF TypeOK
  <2>3. QED
    BY <1>1, <2>1, <2>2 DEF ReadyToReuse
<1>2. ASSUME UNCHANGED user PROVE Result
  BY <1>2 DEF TypeOK, ReadyToReuse
<1> HIDE DEF Result
<1>3. Idle.step = "idle"
  BY DEF Idle
<1>4. ASSUME NEW u \in Users, user' = [user EXCEPT ![u] = Idle] PROVE Result
  BY <1>1, <1>3, <1>4
<1>5. ASSUME NEW u \in Users, NEW a \in Apps, NEW q \in Questions, NEW step \in {"putLoad", "resolveLoad"},
             BeginRequest(u, a, q, step)
      PROVE  Result
  <2>1. PICK request : /\ request = [step |-> step, app |-> a, question |-> q, view |-> {}, prior |-> NoAnswer]
                       /\ user' = [user EXCEPT ![u] = request]
    BY <1>5 DEF BeginRequest
  <2>2. request \in Request /\ request.step = step
    BY <2>1 DEF Request
  <2>3. QED
    BY <1>1, <2>1, <2>2
<1>6. ASSUME NEW u \in Users, LoadFacts(u) PROVE Result
  <2>1. user[u] \in Request
    BY <1>3, <1>6 DEF LoadFacts, TypeOK
  <2>2. PICK step \in {"put", "resolveFind"} :
          user' = [user EXCEPT ![u] = [user[u] EXCEPT !.view = profile, !.step = step]]
    BY <1>6 DEF LoadFacts
  <2>3. PICK request : /\ request = [user[u] EXCEPT !.view = profile, !.step = step]
                       /\ user' = [user EXCEPT ![u] = request]
    BY <2>2
  <2>4. request \in Request /\ request.step = step
    BY <2>1, <2>3 DEF Request, TypeOK
  <2>5. QED
    BY <1>1, <2>3, <2>4
<1>7. ASSUME NEW u \in Users, FindPrior(u) PROVE Result
  <2>1. user[u] \in Request
    BY <1>3, <1>7 DEF FindPrior, TypeOK
  <2>2. ASSUME NEW prior \in AnswerBank(user[u].question),
               user' = [user EXCEPT ![u].prior = prior.text, ![u].step = "resolve"]
        PROVE  Result
    <3>1. PICK b \in Apps : prior = answers[b][user[u].question] /\ Approved(prior)
      BY <2>2 DEF AnswerBank
    <3>2. user[u].question \in Questions
      BY <2>1 DEF Request
    <3>3. <<user[u].question, prior.text>> \in signed
      BY <3>1, <3>2 DEF ApprovalIsHuman
    <3>4. prior.text \in Wording
      BY <3>3 DEF TypeOK
    <3>5. PICK request : /\ request = [user[u] EXCEPT !.prior = prior.text, !.step = "resolve"]
                         /\ user' = [user EXCEPT ![u] = request]
      BY <2>2
    <3>6. request \in Request /\ request.question = user[u].question /\ request.prior = prior.text
      BY <2>1, <3>4, <3>5 DEF Request
    <3>7. QED
      BY <1>1, <3>3, <3>5, <3>6
  <2>3. QED
    BY <1>4, <1>7, <2>2 DEF FindPrior
<1>8. Result
  BY ZenonT(60), <1>2, <1>4, <1>5, <1>6, <1>7
     DEF Next, RequestNext, PostPrepare, archive, resolveHumanAction, MoveStatus, EditProfile,
         PutAnswer, ResolveQuestion, AbandonRequest, TakeJob, Stall,
         Throw, Refused, PrepareNext, LockedNext, BeginPreparation, StartPreparing, LoadInputs,
         withApplicationLock, ReadFresh, FindVariant, InsertVariant, insertDocument, FindCover,
         CoverRefused, InsertCover, ListAnswers, MarkStale, Revalidated, Unlock, raiseHumanAction,
         RestOfBegin, RestOfLocked, vars
<1>9. QED
  BY <1>8 DEF Result

--------------------------------------------------------------------------------
(* Each conjunct of the invariant is kept.                                 *)

(* Lemma: no two workers are inside the lock of an application.            *)
LEMMA Exclusive ==
  ASSUME LockOK, NEW v \in Workers, NEW w \in Workers,
         worker[v].step \in LockedSteps, worker[w].step \in LockedSteps,
         worker[v].app = worker[w].app
  PROVE  v = w
  BY DEF LockOK

(* Lemma: which locked step follows which.                                 *)
LEMMA LockedBefore ==
  ASSUME TypeOK, NEW w \in Workers, WorkerChange(w), worker'[w].step \in LockedSteps
  PROVE  \/ worker'[w] = worker[w]
         \/ withApplicationLock(w) /\ Moves(w, "fresh")
         \/ /\ worker[w].step \in LockedSteps /\ worker[w] # Idle
            /\ Same(w) /\ worker'[w] \in Preparation
<1>1. Idle.step = "idle"
  BY DEF Idle
<1>2. worker'[w] # Idle /\ "idle" \notin LockedSteps
  BY <1>1 DEF LockedSteps
<1>3. ASSUME Moves(w, worker[w].step) PROVE worker[w].step \in LockedSteps
  BY <1>3 DEF Moves
<1>4. QED
  BY <1>1, <1>2, <1>3
     DEF WorkerChange, Moves, Inserts, Keeps, LockedSteps, ReadFresh, FindVariant, InsertVariant,
         FindCover, CoverRefused, InsertCover, ListAnswers, Revalidated, At

(* Lemma: who is inside has the lock.                                      *)
LEMMA LockStep == ASSUME TypeOK, LockOK, [Next]_vars PROVE LockOK'
<1> SUFFICES ASSUME NEW w \in Workers, worker'[w].step \in LockedSteps
             PROVE  lock'[worker'[w].app] = w
  BY DEF LockOK
<1>1. worker'[w] # Idle
  BY DEF Idle, LockedSteps
<1>2. WorkerChange(w)
  BY WorkerEffect
<1>3. CASE withApplicationLock(w) /\ Moves(w, "fresh")
  <2>1. worker[w].app \in Apps /\ worker'[w].app = worker[w].app
    BY <1>3, Preparations DEF Moves, Keeps, Same
  <2>2. lock' = [lock EXCEPT ![worker[w].app] = w]
    BY <1>3 DEF withApplicationLock
  <2>3. QED
    BY <2>1, <2>2 DEF TypeOK
<1>4. CASE worker[w].step \in LockedSteps /\ worker'[w].app = worker[w].app
  <2>1. worker[w] # Idle
    BY <1>4 DEF Idle, LockedSteps
  <2>2. worker[w].app \in Apps
    BY <2>1, Preparations
  <2>3. lock[worker[w].app] = w
    BY <1>4 DEF LockOK
  <2>4. LockChange(worker[w].app)
    BY <2>2, LockEffect
  <2>5. lock'[worker[w].app] = w
    BY <1>1, <2>3, <2>4, NullAssumption DEF LockChange
  <2>6. QED
    BY <1>4, <2>5
<1>5. QED
  BY <1>2, <1>3, <1>4, LockedBefore DEF Same

(* Lemma: a worker inside the lock that inserts nothing finds the          *)
(* documents of its application as they were.                              *)
LEMMA DocsHeld ==
  ASSUME TypeOK, LockOK, [Next]_vars, NEW w \in Workers,
         worker[w].step \in LockedSteps,
         worker'[w].step \notin {"cover", "list"} \/ worker'[w] = worker[w]
  PROVE  docs'[worker[w].app] = docs[worker[w].app]
<1>1. CASE docs' = docs
  BY <1>1
<1>2. ASSUME NEW v \in Workers, NEW kind, NEW text, NewDocument(v, kind, text),
             worker[v].step \in {"insertVariant", "insertCover"},
             worker'[v].step \in {"cover", "list"}
      PROVE  docs'[worker[w].app] = docs[worker[w].app]
  <2>1. v # w
    BY <1>2
  <2>2. worker[v].app # worker[w].app
    BY <1>2, <2>1, Exclusive DEF LockedSteps
  <2>3. QED
    BY <1>2, <2>2 DEF NewDocument, TypeOK
<1>3. QED
  BY <1>1, <1>2, DocsEffect DEF DocsChange, InsertVariant, InsertCover, At

(* Lemma: only a preparation past its first search has created something.  *)
LEMMA CreatedStep == ASSUME TypeOK, CreatedOK, [Next]_vars PROVE CreatedOK'
<1> SUFFICES ASSUME NEW w \in Workers, worker'[w] # Idle, worker'[w].created
             PROVE  worker'[w].step \in WritingSteps \cup {"unlock", "raise"}
  BY DEF CreatedOK
<1>1. WorkerChange(w)
  BY WorkerEffect
<1>2. Idle.step = "idle"
  BY DEF Idle
<1>3. worker[w] # Idle /\ worker[w].created => worker[w].step \in WritingSteps \cup {"unlock", "raise"}
  BY DEF CreatedOK
<1>4. CASE worker'[w] = worker[w] \/ worker'[w].created = FALSE
  BY <1>3, <1>4
<1>5. CASE Moves(w, worker[w].step)
  BY <1>3, <1>5 DEF Moves, Keeps
<1>6. CASE worker[w].step \in {"begin", "start", "load"} /\ worker'[w].created = worker[w].created
  BY <1>2, <1>3, <1>6 DEF WritingSteps
<1>7. CASE \/ withApplicationLock(w) /\ Moves(w, "fresh")
           \/ ReadFresh(w) /\ (Moves(w, "variant") \/ Moves(w, "unlock"))
           \/ FindVariant(w) /\ (Moves(w, "cover") \/ Moves(w, "insertVariant"))
  BY <1>3, <1>7 DEF Moves, Keeps, withApplicationLock, ReadFresh, FindVariant, At, WritingSteps
<1>8. CASE FindCover(w) /\ (Moves(w, "list") \/ Moves(w, "insertCover"))
  BY <1>8 DEF Moves, WritingSteps
<1>9. CASE \/ worker'[w].step \in {"cover", "list"}
           \/ Moves(w, "raise") \/ Moves(w, "revalidate") \/ Moves(w, "unlock")
  BY <1>9 DEF Moves, WritingSteps
<1>10. QED
  BY <1>1, <1>4, <1>5, <1>6, <1>7, <1>8, <1>9 DEF WorkerChange, Inserts

(* Lemma: what is about to be marked stale was approved when listed.       *)
LEMMA SeenStep == ASSUME TypeOK, SeenOK, [Next]_vars PROVE SeenOK'
<1> SUFFICES ASSUME NEW w \in Workers, worker'[w].step = "revalidate",
                    NEW q \in worker'[w].todo
             PROVE  Approved(worker'[w].seen[q])
  BY DEF SeenOK, Approved
<1>1. WorkerChange(w)
  BY WorkerEffect
<1>2. Idle.step = "idle"
  BY DEF Idle
<1>3. ASSUME worker[w].step = "revalidate", worker'[w].seen = worker[w].seen,
             worker'[w].todo \subseteq worker[w].todo
      PROVE  Approved(worker'[w].seen[q])
  BY <1>3 DEF SeenOK, Approved
<1>4. QED
  BY <1>1, <1>2, <1>3 DEF WorkerChange, Moves, Inserts

(* Lemma: a request reuses what is signed.                                 *)
LEMMA PriorStep == ASSUME TypeOK, SeenOK, PriorOK, ApprovalIsHuman, [Next]_vars PROVE PriorOK'
<1> SUFFICES ASSUME NEW u \in Users, user'[u].step = "resolve"
             PROVE  <<user'[u].question, user'[u].prior>> \in signed'
  BY DEF PriorOK
<1>1. ReadyToReuse(u) /\ signed \subseteq signed'
  BY UserEffect, AnswersEffect
<1>2. QED
  BY <1>1 DEF ReadyToReuse, PriorOK

(* Lemma: nothing is approved that is not signed.                          *)
LEMMA ApprovalStep ==
  ASSUME TypeOK, SeenOK, PriorOK, ApprovalIsHuman, [Next]_vars PROVE ApprovalIsHuman'
<1> SUFFICES ASSUME NEW a \in Apps, NEW q \in Questions, Approved(answers'[a][q])
             PROVE  <<q, answers'[a][q].text>> \in signed'
  BY DEF ApprovalIsHuman, Approved
<1>1. AnswersChange(a, q) /\ signed \subseteq signed'
  BY AnswersEffect
<1>2. QED
  BY <1>1 DEF AnswersChange, ApprovalIsHuman, PriorOK

(* Lemma: a preparation that is about to insert a document has none.       *)
LEMMA FoundStep == ASSUME TypeOK, LockOK, FoundOK, [Next]_vars PROVE FoundOK'
<1> DEFINE Kept(w, kind) ==
      ~ \E d \in docs'[worker'[w].app] : d.kind = kind /\ d.input = worker'[w].view
<1>1. ASSUME NEW w \in Workers, NEW kind,
             worker[w].step \in LockedSteps, Same(w), ~HasDocument(w, kind),
             worker'[w].step \in {"insertVariant", "insertCover"}
      PROVE  Kept(w, kind)
  <2>1. docs'[worker[w].app] = docs[worker[w].app]
    BY <1>1, DocsHeld
  <2>2. QED
    BY <1>1, <2>1 DEF Same, HasDocument
<1>2. ASSUME NEW w \in Workers
      PROVE  /\ worker'[w].step = "insertVariant" => Kept(w, "resume_variant")
             /\ worker'[w].step = "insertCover" => Kept(w, "cover_letter")
  <2>1. Idle.step = "idle"
    BY DEF Idle
  <2>2. /\ worker[w].step = "insertVariant" => ~HasDocument(w, "resume_variant")
        /\ worker[w].step = "insertCover" => ~HasDocument(w, "cover_letter")
    BY DEF FoundOK
  <2>3. WorkerChange(w)
    BY WorkerEffect
  <2>4. ASSUME worker'[w].step = "insertVariant"
        PROVE  worker[w].step \in LockedSteps /\ Same(w) /\ ~HasDocument(w, "resume_variant")
    BY <2>1, <2>2, <2>3, <2>4
       DEF WorkerChange, Moves, Inserts, Keeps, Same, LockedSteps, FindVariant, At
  <2>5. ASSUME worker'[w].step = "insertCover"
        PROVE  worker[w].step \in LockedSteps /\ Same(w) /\ ~HasDocument(w, "cover_letter")
    BY <2>1, <2>2, <2>3, <2>5
       DEF WorkerChange, Moves, Inserts, Keeps, Same, LockedSteps, FindCover, At
  <2>6. QED
    BY <1>1, <2>4, <2>5
<1>3. QED
  BY <1>2 DEF FoundOK, HasDocument

(* Lemma: an insertion adds one document, of an input it had none for.     *)
LEMMA OneStep == ASSUME TypeOK, FoundOK, OneDocumentPerInput, [Next]_vars PROVE OneDocumentPerInput'
<1>1. CASE docs' = docs
  BY <1>1 DEF OneDocumentPerInput
<1>2. ASSUME NEW w \in Workers, NEW kind, NEW text, NewDocument(w, kind, text),
             ~HasDocument(w, kind)
      PROVE  OneDocumentPerInput'
  <2> DEFINE b == worker[w].app
             new == [kind |-> kind, input |-> worker[w].view, text |-> text]
  <2> SUFFICES ASSUME NEW a \in Apps, NEW d \in docs'[a], NEW e \in docs'[a],
                      d.kind = e.kind, d.input = e.input
               PROVE  d = e
    BY DEF OneDocumentPerInput
  <2>1. docs' = [docs EXCEPT ![b] = @ \cup {new}]
    BY <1>2 DEF NewDocument
  <2>2. CASE a # b
    BY <2>1, <2>2 DEF TypeOK, OneDocumentPerInput
  <2>3. CASE a = b
    <3>1. docs'[a] = docs[a] \cup {new}
      BY <2>1, <2>3 DEF TypeOK
    <3>2. new.kind = kind /\ new.input = worker[w].view
      OBVIOUS
    <3> HIDE DEF new
    <3>3. \A x \in docs[a] : x.kind # kind \/ x.input # worker[w].view
      BY <1>2, <2>3 DEF HasDocument
    <3>4. QED
      BY <3>1, <3>2, <3>3 DEF OneDocumentPerInput
  <2>4. QED
    BY <2>2, <2>3
<1>3. QED
  BY <1>1, <1>2, DocsEffect DEF DocsChange, FoundOK, InsertVariant, InsertCover, At

(* Lemma: the documents of an input are finite and never get fewer.        *)
LEMMA DocsGrow ==
  ASSUME TypeOK, FiniteOK, [Next]_vars
  PROVE  /\ FiniteOK'
         /\ \A a \in Apps, i \in Input :
              /\ Cardinality(DocsFor(a, i)) \in Nat /\ Cardinality(DocsFor(a, i)') \in Nat
              /\ Cardinality(DocsFor(a, i)) <= Cardinality(DocsFor(a, i)')
<1>1. \A a \in Apps : docs[a] \subseteq docs'[a] /\ IsFiniteSet(docs'[a])
  <2>1. ASSUME NEW w \in Workers, NEW kind, NEW text, NewDocument(w, kind, text), NEW a \in Apps
        PROVE  docs[a] \subseteq docs'[a] /\ IsFiniteSet(docs'[a])
    <3>1. PICK new : docs' = [docs EXCEPT ![worker[w].app] = @ \cup {new}]
      BY <2>1 DEF NewDocument
    <3>2. docs'[a] = docs[a] \/ docs'[a] = docs[a] \cup {new}
      BY <3>1 DEF TypeOK
    <3>3. IsFiniteSet(docs[a])
      BY DEF FiniteOK
    <3>4. IsFiniteSet(docs[a] \cup {new})
      BY <3>3, FS_AddElement
    <3>5. QED
      BY <3>2, <3>3, <3>4
  <2>2. CASE docs' = docs
    BY <2>2 DEF FiniteOK
  <2>3. QED
    BY <2>1, <2>2, DocsEffect DEF DocsChange
<1>2. ASSUME NEW a \in Apps, NEW i \in Input
      PROVE  /\ Cardinality(DocsFor(a, i)) \in Nat /\ Cardinality(DocsFor(a, i)') \in Nat
             /\ Cardinality(DocsFor(a, i)) <= Cardinality(DocsFor(a, i)')
  <2> DEFINE older == {d \in docs[a] : d.input = i}
             newer == {d \in docs'[a] : d.input = i}
  <2>1. older \subseteq newer /\ newer \subseteq docs'[a] /\ IsFiniteSet(docs'[a])
    BY <1>1
  <2> HIDE DEF older, newer
  <2>2. IsFiniteSet(newer)
    BY <2>1, FS_Subset
  <2>3. IsFiniteSet(older) /\ Cardinality(older) <= Cardinality(newer)
    BY <2>1, <2>2, FS_Subset
  <2>4. Cardinality(older) \in Nat /\ Cardinality(newer) \in Nat
    BY <2>2, <2>3, FS_CardinalityType
  <2>5. DocsFor(a, i) = older /\ DocsFor(a, i)' = newer
    BY DEF DocsFor, older, newer
  <2>6. QED
    BY <2>3, <2>4, <2>5
<1>3. QED
  BY <1>1, <1>2 DEF FiniteOK

(* Lemma: an insertion adds one to the documents of its input.             *)
LEMMA DocsAdded ==
  ASSUME TypeOK, FiniteOK, NEW w \in Workers, worker[w] # Idle, NEW kind, NEW text,
         NewDocument(w, kind, text), NEW a, NEW i, worker[w].app = a, worker[w].view = i
  PROVE  Cardinality(DocsFor(a, i)') = Cardinality(DocsFor(a, i)) + 1
<1> DEFINE new == [kind |-> kind, input |-> i, text |-> text]
           older == {d \in docs[a] : d.input = i}
           newer == {d \in docs'[a] : d.input = i}
<1>1. a \in Apps
  BY Preparations
<1>2. docs'[a] = docs[a] \cup {new}
  BY <1>1 DEF NewDocument, TypeOK
<1>3. new \notin docs[a]
  BY DEF NewDocument
<1>4. new.input = i
  OBVIOUS
<1> HIDE DEF new
<1>5. newer = older \cup {new} /\ new \notin older
  BY <1>2, <1>3, <1>4
<1>6. IsFiniteSet(docs[a])
  BY <1>1 DEF FiniteOK
<1>7. IsFiniteSet(older)
  BY <1>6, FS_Subset
<1>8. Cardinality(older \cup {new}) = Cardinality(older) + 1
  BY <1>5, <1>7, FS_AddElement
<1> HIDE DEF older, newer
<1>9. Cardinality(newer) = Cardinality(older) + 1
  BY <1>5, <1>8
<1>10. DocsFor(a, i) = older /\ DocsFor(a, i)' = newer
  BY DEF DocsFor, older, newer
<1>11. QED
  BY <1>9, <1>10

(* Lemma: who appends an event gives the lock back next.                   *)
LEMMA EventsAppended ==
  ASSUME TypeOK, [Next]_vars
  PROVE  \/ events' = events
         \/ \E w \in Workers :
              /\ worker[w].step = "revalidate" /\ worker[w].created /\ worker'[w].step = "unlock"
              /\ worker[w] \in Preparation /\ docs' = docs
              /\ events' = [events EXCEPT ![worker[w].app][worker[w].view] = @ + 1]
<1>1. ASSUME NEW w \in Workers, Revalidated(w), EventDue(w)
      PROVE  /\ worker[w].step = "revalidate" /\ worker[w].created /\ worker'[w].step = "unlock"
             /\ worker[w] \in Preparation
  <2>1. worker[w].step = "revalidate" /\ worker[w].created
    BY <1>1 DEF Revalidated, EventDue, At
  <2>2. worker[w] # Idle
    BY <2>1 DEF Idle
  <2>3. worker[w] \in Preparation
    BY <2>2, Preparations
  <2>4. worker' = [worker EXCEPT ![w] = [worker[w] EXCEPT !.step = "unlock", !.seen = NothingSeen]]
    BY <1>1 DEF Revalidated
  <2>5. worker'[w] = [worker[w] EXCEPT !.step = "unlock", !.seen = NothingSeen]
    BY <2>4 DEF TypeOK
  <2>6. worker'[w].step = "unlock"
    BY <2>3, <2>5 DEF Preparation
  <2>7. QED
    BY <2>1, <2>3, <2>6
<1>2. QED
  BY <1>1, EventsEffect

(* Lemma: events stay natural numbers, and the events of an input stay as  *)
(* they are while a worker holds the lock and goes on.                     *)
LEMMA EventsHeld ==
  ASSUME TypeOK, LockOK, [Next]_vars
  PROVE  /\ events' \in [Apps -> [Input -> Nat]]
         /\ \A w \in Workers :
              worker[w].step \in LockedSteps /\ worker'[w].step # "unlock" =>
                events'[worker[w].app] = events[worker[w].app]
<1>1. CASE events' = events
  BY <1>1 DEF TypeOK
<1>2. ASSUME NEW v \in Workers, worker[v].step = "revalidate", worker'[v].step = "unlock",
             worker[v] \in Preparation,
             events' = [events EXCEPT ![worker[v].app][worker[v].view] = @ + 1]
      PROVE  /\ events' \in [Apps -> [Input -> Nat]]
             /\ \A w \in Workers :
                  worker[w].step \in LockedSteps /\ worker'[w].step # "unlock" =>
                    events'[worker[w].app] = events[worker[w].app]
  <2>1. worker[v].app \in Apps /\ worker[v].view \in Input
    BY <1>2 DEF Preparation
  <2>2. events' \in [Apps -> [Input -> Nat]]
    BY <1>2, <2>1 DEF TypeOK
  <2>3. ASSUME NEW w \in Workers, worker[w].step \in LockedSteps, worker'[w].step # "unlock"
        PROVE  events'[worker[w].app] = events[worker[w].app]
    <3>1. worker[v].app # worker[w].app
      BY <1>2, <2>3, Exclusive DEF LockedSteps
    <3>2. QED
      BY <1>2, <3>1 DEF TypeOK
  <2>4. QED
    BY <2>2, <2>3
<1>3. QED
  BY <1>1, <1>2, EventsAppended

(* Lemma: an event is appended for a document that none was about.         *)
LEMMA EventsStep ==
  ASSUME TypeOK, LockOK, FiniteOK, OwedOK, EventsAreBacked, [Next]_vars
  PROVE  EventsAreBacked'
<1> SUFFICES ASSUME NEW a \in Apps, NEW i \in Input
             PROVE  events'[a][i] <= Cardinality(DocsFor(a, i)')
  BY DEF EventsAreBacked, DocsFor
<1>1. events[a][i] \in Nat
  BY DEF TypeOK
<1>2. events[a][i] <= Cardinality(DocsFor(a, i))
  BY DEF EventsAreBacked, DocsFor
<1>3. /\ Cardinality(DocsFor(a, i)) \in Nat /\ Cardinality(DocsFor(a, i)') \in Nat
      /\ Cardinality(DocsFor(a, i)) <= Cardinality(DocsFor(a, i)')
  BY DocsGrow
<1>4. CASE events'[a][i] = events[a][i]
  BY <1>1, <1>2, <1>3, <1>4
<1>5. ASSUME NEW w \in Workers, worker[w].step = "revalidate", worker[w].created,
             events' = [events EXCEPT ![worker[w].app][worker[w].view] = @ + 1]
      PROVE  events'[a][i] = events[a][i] \/ events'[a][i] <= Cardinality(DocsFor(a, i))
  <2>1. events[worker[w].app][worker[w].view] < Cardinality(DocsFor(worker[w].app, worker[w].view))
    BY <1>5 DEF OwedOK, WritingSteps
  <2>2. CASE worker[w].app = a /\ worker[w].view = i
    <3>1. events'[a][i] = events[a][i] + 1
      BY <1>5, <2>2 DEF TypeOK
    <3>2. events[a][i] < Cardinality(DocsFor(a, i))
      BY <2>1, <2>2
    <3>3. QED
      BY <1>1, <1>3, <3>1, <3>2
  <2>3. CASE ~(worker[w].app = a /\ worker[w].view = i)
    BY <1>5, <2>3 DEF TypeOK
  <2>4. QED
    BY <2>2, <2>3
<1>6. CASE events'[a][i] <= Cardinality(DocsFor(a, i))
  <2>1. events'[a][i] \in Nat
    BY EventsHeld
  <2>2. QED
    BY <1>3, <1>6, <2>1
<1>7. QED
  BY <1>4, <1>5, <1>6, EventsAppended

(* Lemma: a preparation that made a document owes an event about it.       *)
LEMMA OwedStep ==
  ASSUME TypeOK, LockOK, CreatedOK, FoundOK, OwedOK, FiniteOK, EventsAreBacked, [Next]_vars
  PROVE  OwedOK'
<1> SUFFICES ASSUME NEW w \in Workers, worker'[w].step \in WritingSteps, worker'[w].created,
                    NEW a, NEW i, worker'[w].app = a, worker'[w].view = i
             PROVE  events'[a][i] < Cardinality(DocsFor(a, i)')
  <2>1. ASSUME NEW w \in Workers, worker'[w].step \in WritingSteps, worker'[w].created
        PROVE  events'[worker'[w].app][worker'[w].view] <
                 Cardinality({d \in docs'[worker'[w].app] : d.input = worker'[w].view})
    BY <2>1 DEF DocsFor
  <2>2. QED
    BY <2>1 DEF OwedOK, DocsFor
<1>1. WorkerChange(w)
  BY WorkerEffect
<1>2. Idle.step = "idle"
  BY DEF Idle
<1>3. /\ worker'[w].step \in LockedSteps /\ worker'[w].step # "fresh"
      /\ worker'[w].step # "unlock"
  BY DEF WritingSteps, LockedSteps
<1>4. worker[w].step \in LockedSteps /\ worker[w] # Idle /\ Same(w)
  <2>1. \/ worker'[w] = worker[w]
        \/ worker[w].step \in LockedSteps /\ worker[w] # Idle /\ Same(w)
    BY <1>1, <1>3, LockedBefore DEF Moves
  <2>2. worker'[w] = worker[w] => worker[w].step \in LockedSteps /\ worker[w] # Idle /\ Same(w)
    BY <1>2, <1>3 DEF Same, LockedSteps
  <2>3. QED
    BY <2>1, <2>2
<1>5. worker[w].app = a /\ worker[w].view = i /\ a \in Apps /\ i \in Input
  <2>1. worker[w] \in Preparation
    BY <1>4, Preparations
  <2>2. QED
    BY <1>4, <2>1 DEF Same, Preparation
<1>6. /\ events[a][i] \in Nat /\ events'[a][i] = events[a][i]
      /\ events[a][i] <= Cardinality(DocsFor(a, i))
  <2>1. events'[a] = events[a]
    BY <1>3, <1>4, <1>5, EventsHeld
  <2>2. QED
    BY <1>5, <2>1 DEF TypeOK, EventsAreBacked, DocsFor
<1>7. /\ Cardinality(DocsFor(a, i)) \in Nat /\ Cardinality(DocsFor(a, i)') \in Nat
      /\ Cardinality(DocsFor(a, i)) <= Cardinality(DocsFor(a, i)')
  BY <1>5, DocsGrow
<1>8. CASE worker[w].step \in WritingSteps /\ worker[w].created
  <2>1. events[a][i] < Cardinality(DocsFor(a, i))
    BY <1>5, <1>8 DEF OwedOK
  <2>2. QED
    BY <1>6, <1>7, <2>1
<1>9. CASE \E kind, text : NewDocument(w, kind, text)
  <2>1. Cardinality(DocsFor(a, i)') = Cardinality(DocsFor(a, i)) + 1
    BY <1>4, <1>5, <1>9, DocsAdded
  <2>2. QED
    BY <1>6, <1>7, <2>1
<1>10. worker[w].created => worker[w].step \in WritingSteps \cup {"unlock", "raise"}
  BY <1>4 DEF CreatedOK
<1>11. CASE worker'[w].created = worker[w].created
  <2>1. worker[w].step \in WritingSteps \/ worker[w].step = "unlock"
    BY <1>4, <1>10, <1>11 DEF LockedSteps
  <2>2. worker[w].step # "unlock"
    BY <1>1, <1>2, <1>3, <2>1
       DEF WorkerChange, Moves, Inserts, LockedSteps, withApplicationLock, ReadFresh, FindVariant,
           InsertVariant, FindCover, CoverRefused, InsertCover, ListAnswers, Revalidated, At
  <2>3. QED
    BY <1>8, <1>11, <2>1, <2>2
<1>12. QED
  BY <1>1, <1>2, <1>3, <1>9, <1>11 DEF WorkerChange, Moves, Inserts, Keeps, LockedSteps

(* Lemma: the types of what the candidate, the tables and the lock hold.   *)
LEMMA RowTypes ==
  ASSUME TypeOK, [Next]_vars
  PROVE  /\ profile' \in SUBSET Facts
         /\ status' \in [Apps -> Status]
         /\ docs' \in [Apps -> SUBSET Document]
         /\ lock' \in [Apps -> Workers \cup {NoLock}]
<1>1. profile' \in SUBSET Facts
  BY ZenonT(60) DEF TypeOK, Next, RequestNext, PostPrepare, archive, resolveHumanAction, MoveStatus,
         EditProfile, BeginRequest, LoadFacts, PutAnswer, FindPrior, ResolveQuestion,
         AbandonRequest, RestOfRequest, TakeJob, Stall, Throw, Refused, PrepareNext, LockedNext,
         BeginPreparation, StartPreparing, LoadInputs, withApplicationLock, ReadFresh,
         FindVariant, InsertVariant, insertDocument, FindCover, CoverRefused, InsertCover,
         ListAnswers, MarkStale, Revalidated, Unlock, raiseHumanAction, RestOfBegin,
         RestOfLocked, vars
<1>2. status' \in [Apps -> Status]
  <2>1. \/ status' = status
        \/ \E a \in Apps, to \in Status : status' = [status EXCEPT ![a] = to]
        \/ \E w \in Workers, to \in Status : status' = [status EXCEPT ![worker[w].app] = to]
    BY ZenonT(60) DEF Status, Next, RequestNext, PostPrepare, archive, resolveHumanAction, MoveStatus,
           EditProfile, BeginRequest, LoadFacts, PutAnswer, FindPrior, ResolveQuestion,
           AbandonRequest, RestOfRequest, TakeJob, Stall, Throw, Refused, PrepareNext, LockedNext,
           BeginPreparation, StartPreparing, LoadInputs, withApplicationLock, ReadFresh,
           FindVariant, InsertVariant, insertDocument, FindCover, CoverRefused, InsertCover,
           ListAnswers, MarkStale, Revalidated, Unlock, raiseHumanAction, RestOfBegin,
           RestOfLocked, rows, vars
  <2>2. QED
    BY <2>1 DEF TypeOK
<1>3. docs' \in [Apps -> SUBSET Document]
  <2>1. ASSUME NEW w \in Workers, worker[w] # Idle, NEW kind \in {"resume_variant", "cover_letter"},
               NEW text \in Text, NewDocument(w, kind, text)
        PROVE  docs' \in [Apps -> SUBSET Document]
    <3>1. worker[w].view \in Input
      BY <2>1, Preparations DEF Preparation
    <3>2. [kind |-> kind, input |-> worker[w].view, text |-> text] \in Document
      BY <3>1 DEF Document
    <3>3. QED
      BY <2>1, <3>2 DEF NewDocument, TypeOK
  <2>2. ASSUME NEW w \in Workers, InsertVariant(w) \/ InsertCover(w) PROVE worker[w] # Idle
    BY <2>2 DEF InsertVariant, InsertCover, At, Idle
  <2>3. QED
    BY <2>1, <2>2, DocsEffect DEF DocsChange, TypeOK
<1>4. lock' \in [Apps -> Workers \cup {NoLock}]
  <2>1. \/ lock' = lock
        \/ \E w \in Workers : lock' = [lock EXCEPT ![worker[w].app] = w]
        \/ \E w \in Workers : lock' = LockAfter(w)
    <3>1. CASE UNCHANGED vars
      BY <3>1 DEF vars
    <3>2. CASE \E b \in Apps : PostPrepare(b) \/ archive(b) \/ resolveHumanAction(b)
      BY <3>2 DEF PostPrepare, archive, resolveHumanAction, MoveStatus
    <3>3. CASE \E u \in Users : RequestNext(u)
      BY <3>3 DEF RequestNext, BeginRequest, LoadFacts, PutAnswer, FindPrior, ResolveQuestion,
                  AbandonRequest, RestOfRequest
    <3>4. CASE \/ \E facts \in SUBSET Facts : EditProfile(facts)
               \/ \E w \in Workers, b \in Apps : TakeJob(w, b)
      BY <3>4 DEF EditProfile, TakeJob
    <3>5. CASE \E w \in Workers : Stall(w) \/ Throw(w)
      BY <3>5 DEF Stall, Throw, End
    <3>6. CASE \E w \in Workers : PrepareNext(w)
      BY ZenonT(60), <3>6 DEF PrepareNext, LockedNext, Refused, BeginPreparation, StartPreparing, LoadInputs,
                  withApplicationLock, ReadFresh, FindVariant, InsertVariant, insertDocument,
                  FindCover, CoverRefused, InsertCover, ListAnswers, MarkStale, Revalidated,
                  Unlock, raiseHumanAction, MoveStatus, Throw, RestOfBegin, RestOfLocked, End
    <3>7. QED
      BY <3>1, <3>2, <3>3, <3>4, <3>5, <3>6 DEF Next
  <2>2. QED
    BY <2>1 DEF LockAfter, TypeOK
<1>5. QED
  BY <1>1, <1>2, <1>3, <1>4

(* Lemma: the types of the queue and of the bounds.                        *)
LEMMA QueueTypes ==
  ASSUME TypeOK, [Next]_vars
  PROVE  /\ job' \in [Apps -> [state : {"none", "waiting", "active", "failed"},
                               attempt : 0..Attempts, stalled : BOOLEAN]]
         /\ edits' \in 0..MaxEdits /\ stalls' \in 0..MaxStalls
         /\ posted' \in SUBSET Apps
<1> DEFINE Job == [state : {"none", "waiting", "active", "failed"},
                   attempt : 0..Attempts, stalled : BOOLEAN]
           Result == /\ job' \in [Apps -> Job]
                     /\ edits' \in 0..MaxEdits /\ stalls' \in 0..MaxStalls
                     /\ posted' \in SUBSET Apps
<1>1. ASSUME NEW w \in Workers, worker[w] # Idle, Ends(w), edits' = edits, stalls' = stalls
      PROVE  Result
  <2>1. job' \in [Apps -> Job] /\ posted' \in SUBSET Apps
    BY <1>1, EndEffect DEF Ends
  <2>2. QED
    BY <1>1, <2>1 DEF TypeOK
<1>2. ASSUME NEW w \in Workers, Unlock(w) \/ raiseHumanAction(w) \/ Throw(w) \/ Refused(w)
      PROVE  Result
  <2>1. worker[w].step \in Steps => worker[w] # Idle
    BY DEF Steps, Idle
  <2>2. worker[w] # Idle
    BY <1>2, <2>1 DEF Unlock, raiseHumanAction, Throw, Refused, At, Steps
  <2>3. Ends(w) /\ edits' = edits /\ stalls' = stalls
    BY <1>2 DEF Unlock, raiseHumanAction, Throw, Refused, Ends
  <2>4. QED
    BY <1>1, <2>2, <2>3
<1>3. ASSUME NEW a \in Apps, PostPrepare(a) PROVE Result
  <2>1. job' = job \/ job' = [job EXCEPT ![a] = [NoJob EXCEPT !.state = "waiting", !.attempt = 1]]
    BY <1>3 DEF PostPrepare, TypeOK
  <2>2. 1 \in 0..Attempts
    BY LimitAssumption
  <2>3. [NoJob EXCEPT !.state = "waiting", !.attempt = 1] \in Job
    BY <2>2 DEF NoJob
  <2>4. job' \in [Apps -> Job]
    BY <2>1, <2>3 DEF TypeOK
  <2>5. QED
    BY <1>3, <2>4 DEF PostPrepare, TypeOK
<1>4. ASSUME NEW w \in Workers, NEW a \in Apps, TakeJob(w, a) PROVE Result
  <2>1. job' = [job EXCEPT ![a] = [job[a] EXCEPT !.state = "active"]]
    BY <1>4 DEF TakeJob
  <2>2. [job[a] EXCEPT !.state = "active"] \in Job
    BY ZenonT(60) DEF TypeOK
  <2>3. job' \in [Apps -> Job]
    BY <2>1, <2>2 DEF TypeOK
  <2>4. QED
    BY <1>4, <2>3 DEF TakeJob, history, TypeOK
<1>5. ASSUME NEW w \in Workers, Stall(w) PROVE Result
  <2>1. worker[w].app \in Apps
    BY <1>5, Preparations DEF Stall
  <2>2. PICK j : /\ j = IF job[worker[w].app].stalled
                        THEN [job[worker[w].app] EXCEPT !.state = "failed"]
                        ELSE [job[worker[w].app] EXCEPT !.state = "waiting", !.stalled = TRUE]
                 /\ job' = [job EXCEPT ![worker[w].app] = j]
    BY <1>5 DEF Stall
  <2>3. job[worker[w].app] \in Job
    BY <2>1 DEF TypeOK
  <2>4. j \in Job
    BY <2>2, <2>3
  <2>5. job' \in [Apps -> Job]
    BY <2>2, <2>4 DEF TypeOK
  <2>6. stalls' \in 0..MaxStalls /\ posted' \in SUBSET Apps
    BY <1>5, LimitAssumption DEF Stall, TypeOK
  <2>7. QED
    BY <1>5, <2>5, <2>6 DEF Stall, TypeOK
<1>6. ASSUME NEW facts \in SUBSET Facts, EditProfile(facts) PROVE Result
  BY <1>6, LimitAssumption DEF EditProfile, TypeOK
<1>7. ASSUME UNCHANGED <<job, edits, stalls, posted>> PROVE Result
  BY <1>7 DEF TypeOK
<1> HIDE DEF Result
<1>8. Result
  BY ZenonT(60), <1>2, <1>3, <1>4, <1>5, <1>6, <1>7
     DEF Next, RequestNext, archive, resolveHumanAction, MoveStatus, BeginRequest, LoadFacts,
         PutAnswer, FindPrior, ResolveQuestion, AbandonRequest, RestOfRequest, PrepareNext,
         LockedNext, BeginPreparation, StartPreparing, LoadInputs, withApplicationLock, ReadFresh,
         FindVariant, InsertVariant, insertDocument, FindCover, CoverRefused, InsertCover,
         ListAnswers, MarkStale, Revalidated, RestOfBegin, RestOfLocked, history, vars
<1>9. QED
  BY <1>8 DEF Result

--------------------------------------------------------------------------------
(* The theorems.                                                           *)

(* Lemma: the invariant holds when nothing is prepared yet.                *)
LEMMA InitInvariant == Init => IInv
<1> SUFFICES ASSUME Init PROVE IInv
  OBVIOUS
<1>1. Idle.step = "idle"
  BY DEF Idle
<1>2. TypeOK
  <2>1. job \in [Apps -> [state : {"none", "waiting", "active", "failed"},
                          attempt : 0..Attempts, stalled : BOOLEAN]]
    BY LimitAssumption DEF Init, NoJob
  <2>2. edits \in 0..MaxEdits /\ stalls \in 0..MaxStalls
    BY LimitAssumption DEF Init
  <2>3. QED
    BY <2>1, <2>2 DEF Init, TypeOK, Status, NothingSeen
<1>3. LockOK /\ CreatedOK /\ FoundOK /\ OwedOK /\ SeenOK /\ PriorOK
  BY <1>1 DEF Init, LockOK, CreatedOK, FoundOK, OwedOK, SeenOK, PriorOK, LockedSteps, WritingSteps
<1>4. FiniteOK /\ OneDocumentPerInput
  BY FS_EmptySet DEF Init, FiniteOK, OneDocumentPerInput
<1>5. EventsAreBacked
  <2> SUFFICES ASSUME NEW a \in Apps, NEW i \in Input
               PROVE  events[a][i] <= Cardinality({d \in docs[a] : d.input = i})
    BY DEF EventsAreBacked
  <2>1. {d \in docs[a] : d.input = i} = {} /\ events[a][i] = 0
    BY DEF Init
  <2>2. Cardinality({}) = 0
    BY FS_EmptySet
  <2>3. QED
    BY <2>1, <2>2
<1>6. ApprovalIsHuman
  BY DEF Init, ApprovalIsHuman, Approved, NothingSeen
<1>7. QED
  BY <1>2, <1>3, <1>4, <1>5, <1>6 DEF IInv

(* Lemma: every step keeps the invariant.                                  *)
LEMMA StepInvariant == IInv /\ [Next]_vars => IInv'
<1> SUFFICES ASSUME IInv, [Next]_vars PROVE IInv'
  OBVIOUS
<1> USE DEF IInv
<1>1. TypeOK'
  BY WorkerEffect, UserEffect, AnswersEffect, EventsHeld, RowTypes, QueueTypes DEF TypeOK
<1>2. LockOK' /\ CreatedOK' /\ FoundOK' /\ SeenOK' /\ PriorOK'
  BY LockStep, CreatedStep, FoundStep, SeenStep, PriorStep
<1>3. FiniteOK' /\ OneDocumentPerInput' /\ EventsAreBacked' /\ OwedOK'
  BY DocsGrow, OneStep, EventsStep, OwedStep
<1>4. ApprovalIsHuman'
  BY ApprovalStep
<1>5. QED
  BY <1>1, <1>2, <1>3, <1>4

(* The invariant: the lock of an application is held by the preparation    *)
(* that searches, inserts and appends, which is why what it has searched   *)
(* for stays missing until it inserts it, and why its document is still    *)
(* the one no event is about when it appends the event.                    *)
THEOREM Inductive == Spec => []IInv
BY InitInvariant, StepInvariant, PTL DEF Spec

(* Every variable keeps its type: an attempt never passes the attempts a   *)
(* job has (Retry), and what a preparation lists and writes back is an     *)
(* answer.                                                                 *)
THEOREM TypeCorrect == Spec => []TypeOK
<1>1. IInv => TypeOK
  BY DEF IInv
<1>2. QED
  BY <1>1, Inductive, PTL

(* prepareDocuments, delivered and retried as often as BullMQ likes, never *)
(* leaves two documents of a kind for the same input of an application.    *)
THEOREM DocumentsAreUnique == Spec => []OneDocumentPerInput
<1>1. IInv => OneDocumentPerInput
  BY DEF IInv
<1>2. QED
  BY <1>1, Inductive, PTL

(* prepareDocuments appends no documents_prepared event without a document *)
(* of its input that no earlier event accounts for.                        *)
THEOREM NoEventForNothing == Spec => []EventsAreBacked
<1>1. IInv => EventsAreBacked
  BY DEF IInv
<1>2. QED
  BY <1>1, Inductive, PTL

(* Through reuse, revalidation and the stale writes of a preparation that  *)
(* listed the answers long ago, only what the user approved for a question *)
(* is ever stored as an approved answer to it.                             *)
THEOREM ApprovalsComeFromTheUser == Spec => []ApprovalIsHuman
<1>1. IInv => ApprovalIsHuman
  BY DEF IInv
<1>2. QED
  BY <1>1, Inductive, PTL
================================================================================
