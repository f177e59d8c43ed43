----------------------------- MODULE MatchingProofs -----------------------------
(***************************************************************************)
(* What holds of Matching for every number of jobs, workers, embedding     *)
(* spaces, contents, days, edits, restarts, stalls and attempts.           *)
(***************************************************************************)
EXTENDS Matching, TLAPS

(* The steps after the space was read, and those that are about vectors.   *)
Named == Steps \ (Inputs \cup {"space"})
OfVectors == {"jobVector", "embedJob", "resumeVector", "embedResume"}

(* The vector that belongs to a content in a space.                        *)
VectorIn(v, s) == [of |-> v, model |-> ModelOf[s]]

(* A score that has named its inputs works with the model of its space,    *)
(* and the vectors it holds are those its identity names.                  *)
ScoreFits(s, space) ==
  s # Idle =>
    /\ s.step \in Named /\ s.identity.space # NoSpace =>
         ModelOf[s.identity.space] = ModelOf[space]
    /\ s.step \in OfVectors => s.identity.space # NoSpace
    /\ s.step \in {"resumeVector", "embedResume", "upsert"} /\ s.identity.space # NoSpace =>
         s.job = VectorIn(s.identity.read["job"], s.identity.space)
    /\ s.step = "upsert" /\ s.identity.space # NoSpace =>
         s.resume = VectorIn(s.identity.read["resumes"], s.identity.space)

ScoreOK(s) == ScoreFits(s, runtime["worker"])

(* The vector of a version of a resume is one of that version.             *)
ResumeVectorsOK ==
  \A v \in Versions, s \in Spaces :
    resumeVectors[v][s] # NoVector => resumeVectors[v][s] = VectorIn(v, s)

Basis == TypeOK /\ \A w \in Workers : ScoreOK(scorer[w])

(* What a score has read so far is what there is to read.                  *)
Agrees(s) ==
  /\ \A i, k \in 1..6 : s.step = Reads[i] /\ k < i =>
       s.identity.read[Reads[k]] = Now(s.of)[Reads[k]]
  /\ s.step \notin Inputs => s.identity.read = Now(s.of)
  /\ s.step \in Named => s.identity = IdentityNow(s.of)

(* Of a job that was asked for, every score is one of the inputs as they   *)
(* are; with no BullMQ job left, so is the current match.                  *)
Fresh ==
  \A j \in asked :
    /\ \A w \in Workers : scorer[w] # Idle /\ scorer[w].of = j => Agrees(scorer[w])
    /\ job[j] = NoJob => \E m \in matches[j] : m.current /\ m.identity = IdentityNow(j)

IInv ==
  /\ Basis /\ OneCurrentMatch
  /\ SpacesUncontaminated /\ ResumeVectorsOK /\ VectorsAsIdentified
  /\ Fresh

(* Lemma: the inputs by name.                                              *)
LEMMA InputNames ==
  /\ DOMAIN Reads = 1..6 /\ Len(Reads) = 6
  /\ Inputs = {"job", "profile", "skills", "languages", "experiences", "resumes"}
  /\ \A i \in 1..6 : Reads[i] \in Inputs
  /\ \A i, k \in 1..6 : Reads[i] = Reads[k] => i = k
  BY DEF Reads, Inputs

(* Lemma: a running score is at one of the steps.                          *)
LEMMA ScoreTyped ==
  ASSUME TypeOK, NEW w \in Workers
  PROVE  /\ scorer \in [Workers -> Score \cup {Idle}]
         /\ scorer[w] # Idle => scorer[w] \in Score
         /\ Idle.step = "idle" /\ Idle \notin Score /\ "idle" \notin Steps
         /\ scorer[w].step \in Steps => scorer[w] \in Score /\ scorer[w] # Idle
  BY InputNames DEF TypeOK, Score, Idle, Steps

(* Lemma: the type of a score, for every field a step gives it.            *)
LEMMA ScoreFields ==
  ASSUME NEW s \in Score
  PROVE  /\ \A step \in Steps : [s EXCEPT !.step = step] \in Score
         /\ \A step \in Steps, p \in Inputs, v \in Versions :
              [s EXCEPT !.step = step, !.identity.read[p] = v] \in Score
         /\ \A step \in Steps, e \in Spaces \cup {NoSpace}, d \in Days \cup {NoDay} :
              [s EXCEPT !.step = step, !.identity.space = e, !.identity.day = d] \in Score
         /\ \A step \in Steps, v \in Vector \cup {NoVector} :
              /\ [s EXCEPT !.step = step, !.job = v] \in Score
              /\ [s EXCEPT !.step = step, !.resume = v] \in Score
         /\ [s EXCEPT !.mine = FALSE] \in Score
  BY ZenonT(60) DEF Score, Identity

(* Lemma: the identity of the inputs as they are is one.                   *)
LEMMA IdentityTyped ==
  ASSUME TypeOK, NEW j \in Jobs
  PROVE  /\ Now(j) \in [Inputs -> Versions] /\ IdentityNow(j) \in Identity
         /\ \A read \in [Inputs -> Versions] : MatchingDay(read) \in Days \cup {NoDay}
         /\ NothingRead \in Identity
<1>1. Now(j) \in [Inputs -> Versions]
  BY InputNames DEF TypeOK, Now
<1>2. \A read \in [Inputs -> Versions] : MatchingDay(read) \in Days \cup {NoDay}
  BY DEF TypeOK, MatchingDay
<1>3. active \in Spaces \cup {NoSpace}
  BY DEF TypeOK
<1> QED BY <1>1, <1>2, <1>3, InputsAssumption DEF IdentityNow, Identity, NothingRead

(* Lemma: the vector a provider gives is one.                              *)
LEMMA EmbedTyped ==
  ASSUME TypeOK, NEW v \in Versions
  PROVE  Embed(v) \in Vector
  BY DEF TypeOK, Embed, Vector

(* Lemma: making a match current keeps the rows, and only it is current.   *)
LEMMA MakeCurrentRows ==
  ASSUME NEW rows, NEW m, \A n \in rows \cup {m} : n \in Match
  PROVE  /\ MakeCurrent(rows, m) \subseteq Match
         /\ \A n \in MakeCurrent(rows, m) :
              \E o \in rows \cup {m} : /\ n.identity = o.identity /\ n.job = o.job
                                       /\ n.resume = o.resume /\ n.current = (o = m)
         /\ \A n \in MakeCurrent(rows, m) : n.current => n.identity = m.identity
         /\ \E n \in MakeCurrent(rows, m) : n.current /\ n.identity = m.identity
<1>1. ASSUME NEW o \in Match, NEW c \in BOOLEAN
      PROVE  /\ [o EXCEPT !.current = c] \in Match
             /\ [o EXCEPT !.current = c].identity = o.identity
             /\ [o EXCEPT !.current = c].job = o.job
             /\ [o EXCEPT !.current = c].resume = o.resume
             /\ [o EXCEPT !.current = c].current = c
  BY DEF Match
<1> DEFINE Off(n) == [n EXCEPT !.current = FALSE]
           on == [m EXCEPT !.current = TRUE]
<1>2. MakeCurrent(rows, m) = {Off(n) : n \in rows \ {m}} \cup {on}
  BY DEF MakeCurrent
<1>3. /\ on \in Match /\ on.identity = m.identity /\ on.job = m.job
      /\ on.resume = m.resume /\ on.current = TRUE
  BY <1>1
<1>4. ASSUME NEW o \in rows \ {m}
      PROVE  /\ Off(o) \in Match /\ Off(o).identity = o.identity /\ Off(o).job = o.job
             /\ Off(o).resume = o.resume /\ Off(o).current = FALSE
  BY <1>1, <1>4
<1> HIDE DEF Off, on
<1>5. ASSUME NEW n \in MakeCurrent(rows, m)
      PROVE  /\ n \in Match
             /\ \E o \in rows \cup {m} : /\ n.identity = o.identity /\ n.job = o.job
                                      /\ n.resume = o.resume /\ n.current = (o = m)
             /\ n.current => n.identity = m.identity
  <2>1. CASE n = on
    BY <1>3, <2>1
  <2>2. ASSUME NEW o \in rows \ {m}, n = Off(o)
        PROVE  /\ n \in Match
               /\ n.identity = o.identity /\ n.job = o.job
               /\ n.resume = o.resume /\ n.current = (o = m)
               /\ n.current => n.identity = m.identity
    BY <1>4, <2>2
  <2> QED BY <1>2, <1>5, <2>1, <2>2
<1> QED BY <1>2, <1>3, <1>5

(* Lemma: rows of different identities, one of them made current, satisfy  *)
(* OneCurrentMatch's demands.                                              *)
LEMMA OneIsCurrent ==
  ASSUME NEW rows, NEW m, \A n \in rows \cup {m} : n \in Match,
         \A n, o \in rows \cup {m} : n.identity = o.identity => n = o
  PROVE  LET after == MakeCurrent(rows, m) IN
         /\ \A n, o \in after : n.identity = o.identity => n = o
         /\ \A n, o \in after : n.current /\ o.current => n = o
         /\ after # {} => \E n \in after : n.current
<1> DEFINE after == MakeCurrent(rows, m)
<1>1. ASSUME NEW n \in after, NEW o \in after, n.identity = o.identity
      PROVE  n = o
  <2>1. PICK p, q \in rows \cup {m} :
          /\ n.identity = p.identity /\ n.job = p.job /\ n.resume = p.resume
          /\ n.current = (p = m)
          /\ o.identity = q.identity /\ o.job = q.job /\ o.resume = q.resume
          /\ o.current = (q = m)
    BY MakeCurrentRows
  <2>2. p = q
    BY <1>1, <2>1
  <2>3. n \in Match /\ o \in Match
    BY MakeCurrentRows
  <2> QED BY <2>1, <2>2, <2>3 DEF Match
<1>2. ASSUME NEW n \in after, NEW o \in after, n.current, o.current
      PROVE  n = o
  <2>1. n.identity = m.identity /\ o.identity = m.identity
    BY <1>2, MakeCurrentRows
  <2> QED BY <1>1, <2>1
<1> QED BY <1>1, <1>2, MakeCurrentRows

--------------------------------------------------------------------------------
(* Types *)

JobRow == [state : {"none", "waiting", "active", "failed"}, attempt : 0..Attempts,
           stalled : BOOLEAN]

(* Lemma: what becomes of a job of the queue is one.                       *)
LEMMA JobTyped ==
  ASSUME NEW r \in JobRow
  PROVE  /\ Redeliver(r) \in JobRow /\ Retry(r) \in JobRow /\ NoJob \in JobRow
         /\ [r EXCEPT !.state = "active"] \in JobRow
         /\ [r EXCEPT !.state = "waiting", !.attempt = 1] \in JobRow
<1>1. /\ 0 \in 0..Attempts /\ 1 \in 0..Attempts
      /\ r.attempt < Attempts => r.attempt + 1 \in 0..Attempts
  BY MatchingLimits DEF JobRow
<1>2. [r EXCEPT !.state = "waiting", !.attempt = 1] \in JobRow
  BY <1>1 DEF JobRow
<1>3. Redeliver(r) \in JobRow
  BY DEF JobRow, Redeliver
<1>4. Retry(r) \in JobRow
  <2>1. CASE r.attempt < Attempts
    <3>1. Retry(r) = [r EXCEPT !.state = "waiting", !.attempt = r.attempt + 1]
      BY <2>1 DEF Retry
    <3> QED BY <1>1, <2>1, <3>1 DEF JobRow
  <2>2. CASE ~(r.attempt < Attempts)
    BY <2>2 DEF Retry, JobRow
  <2> QED BY <2>1, <2>2
<1> QED BY <1>1, <1>2, <1>3, <1>4 DEF JobRow, NoJob

(* Lemma: a score that ends leaves its worker idle and its job typed.      *)
LEMMA EndTyped ==
  ASSUME TypeOK, NEW w \in Workers, scorer[w] # Idle, NEW well \in BOOLEAN, End(w, well)
  PROVE  /\ scorer' = [scorer EXCEPT ![w] = Idle]
         /\ scorer' \in [Workers -> Score \cup {Idle}]
         /\ job' \in [Jobs -> JobRow]
<1>1. scorer[w].of \in Jobs
  BY ScoreTyped DEF Score
<1>2. job \in [Jobs -> JobRow]
  BY DEF TypeOK, JobRow
<1> QED BY <1>1, <1>2, ScoreTyped, JobTyped DEF End

(* Lemma: a worker whose score goes on stays typed.                        *)
LEMMA GoesOn ==
  ASSUME TypeOK, NEW w \in Workers, NEW s \in Score, scorer' = [scorer EXCEPT ![w] = s]
  PROVE  scorer' \in [Workers -> Score \cup {Idle}]
  BY ScoreTyped

(* Lemma: the steps of a score keep the types.                             *)
LEMMA ScoreTypeStep ==
  ASSUME TypeOK, NEW w \in Workers, ScoreOK(scorer[w]), ScoreNext(w)
  PROVE  TypeOK'
<1> DEFINE s == scorer[w]
           id == scorer[w].identity
<1>0. /\ s \in Score /\ s # Idle /\ s.of \in Jobs /\ id \in Identity
      /\ id.read \in [Inputs -> Versions] /\ id.space \in Spaces \cup {NoSpace}
      /\ s.job \in Vector \cup {NoVector} /\ s.resume \in Vector \cup {NoVector}
  <2>1. s.step \in Steps
    BY InputNames DEF ScoreNext, ReadInput, ReadSpace, findMatchByIdentity, setCurrentMatch,
          getJobEmbedding, embedJob, getResumeEmbedding, embedResume, upsertCurrentMatch,
          At, Steps
  <2> QED BY <2>1, ScoreTyped DEF Score, Identity
<1>1. /\ Steps \cap {"space", "find", "makeCurrent", "jobVector", "embedJob", "resumeVector",
                    "embedResume", "upsert"}
           = {"space", "find", "makeCurrent", "jobVector", "embedJob", "resumeVector",
              "embedResume", "upsert"}
      /\ Inputs \subseteq Steps
      /\ \A i \in 1..6 : NextRead(i) \in Steps
  BY InputNames DEF Steps, NextRead
<1>2. ASSUME NEW i \in DOMAIN Reads, ReadInput(w, i)
      PROVE  TypeOK'
  <2>1. Now(s.of)[Reads[i]] \in Versions /\ Reads[i] \in Inputs /\ NextRead(i) \in Steps
    BY <1>0, <1>1, IdentityTyped, InputNames
  <2>2. scorer' = [scorer EXCEPT ![w] = [s EXCEPT !.step = NextRead(i),
                                         !.identity.read[Reads[i]] = Now(s.of)[Reads[i]]]]
    BY <1>2, ScoreTyped DEF ReadInput
  <2>3. scorer' \in [Workers -> Score \cup {Idle}]
    BY <1>0, <2>1, <2>2, ScoreFields, GoesOn
  <2> QED BY <1>2, <2>3 DEF ReadInput, RestOfScore, TypeOK, inputs, spaces, vectors, counters
<1>3. CASE ReadSpace(w)
  <2>1. CASE End(w, FALSE)
    BY <1>0, <1>3, <2>1, EndTyped
    DEF ReadSpace, RestOfScore, TypeOK, inputs, spaces, vectors, counters, JobRow
  <2>2. CASE ~(active # NoSpace /\ ~Compatible(active, "worker"))
    <3>1. active \in Spaces \cup {NoSpace} /\ MatchingDay(id.read) \in Days \cup {NoDay}
      BY <1>0, IdentityTyped DEF TypeOK
    <3>2. scorer' = [scorer EXCEPT ![w] = [s EXCEPT !.step = "find", !.identity.space = active,
                                           !.identity.day = MatchingDay(id.read)]]
      BY <1>3, <2>2, ScoreTyped DEF ReadSpace
    <3>3. scorer' \in [Workers -> Score \cup {Idle}]
      BY <1>0, <1>1, <3>1, <3>2, ScoreFields, GoesOn
    <3> QED BY <1>3, <2>2, <3>3
            DEF ReadSpace, RestOfScore, TypeOK, inputs, spaces, vectors, counters
  <2> QED BY <1>3, <2>1, <2>2 DEF ReadSpace
<1>4. CASE findMatchByIdentity(w)
  <2>1. CASE End(w, TRUE)
    BY <1>0, <1>4, <2>1, EndTyped
    DEF findMatchByIdentity, RestOfScore, TypeOK, inputs, spaces, vectors, counters, JobRow
  <2>2. CASE GoTo(w, FoundNext(w)) /\ FoundNext(w) # "done" /\ job' = job
    <3>1. FoundNext(w) \in Steps
      BY <1>1, <2>2 DEF FoundNext
    <3>2. scorer' \in [Workers -> Score \cup {Idle}]
      BY <1>0, <2>2, <3>1, ScoreFields, GoesOn DEF GoTo
    <3> QED BY <1>4, <2>2, <3>2
            DEF findMatchByIdentity, RestOfScore, TypeOK, inputs, spaces, vectors, counters
  <2> QED BY <1>4, <2>1, <2>2 DEF findMatchByIdentity
<1>5. CASE setCurrentMatch(w)
  <2>1. PICK m \in Same(w) : matches' = [matches EXCEPT ![s.of] = MakeCurrent(@, m)]
    BY <1>5 DEF setCurrentMatch
  <2>2. matches' \in [Jobs -> SUBSET Match]
    <3>1. matches \in [Jobs -> SUBSET Match] /\ m \in Match
      BY <1>0, <2>1 DEF TypeOK, Same
    <3>2. MakeCurrent(matches[s.of], m) \subseteq Match
      BY <1>0, <3>1, MakeCurrentRows
    <3> QED BY <1>0, <2>1, <3>1, <3>2
  <2>3. End(w, TRUE)
    BY <1>5 DEF setCurrentMatch
  <2> QED BY <1>0, <1>5, <2>2, <2>3, EndTyped
          DEF setCurrentMatch, RestOfScore, TypeOK, inputs, spaces, vectors, counters, JobRow
<1>6. CASE getJobEmbedding(w)
  <2>1. id.space \in Spaces
    BY <1>0, <1>6 DEF getJobEmbedding, ScoreOK, ScoreFits, OfVectors, At
  <2>2. jobVectors[s.of][id.space] \in Vector \cup {NoVector}
    BY <1>0, <2>1 DEF TypeOK
  <2>3. PICK v \in Vector \cup {NoVector}, step \in Steps :
          scorer' = [scorer EXCEPT ![w] = [s EXCEPT !.step = step, !.job = v]]
    BY ZenonT(60), <1>1, <1>6, <2>2, ScoreTyped DEF getJobEmbedding
  <2>4. scorer' \in [Workers -> Score \cup {Idle}]
    BY <1>0, <2>3, ScoreFields, GoesOn
  <2> QED BY <1>6, <2>4
          DEF getJobEmbedding, RestOfScore, TypeOK, inputs, spaces, vectors, counters
<1>7. CASE embedJob(w)
  <2> DEFINE v == Embed(id.read["job"])
  <2>1. id.space \in Spaces /\ v \in Vector
    BY <1>0, <1>7, EmbedTyped, InputNames DEF embedJob, ScoreOK, ScoreFits, OfVectors, At
  <2>2. jobVectors' \in [Jobs -> [Spaces -> Vector \cup {NoVector}]]
    BY <1>0, <1>7, <2>1 DEF embedJob, TypeOK
  <2>3. scorer' = [scorer EXCEPT ![w] = [s EXCEPT !.step = "resumeVector", !.job = v]]
    BY <1>7, ScoreTyped DEF embedJob
  <2>4. scorer' \in [Workers -> Score \cup {Idle}]
    BY <1>0, <1>1, <2>1, <2>3, ScoreFields, GoesOn
  <2> QED BY <1>7, <2>2, <2>4
          DEF embedJob, RestOfScore, TypeOK, inputs, spaces, vectors, counters
<1>8. CASE getResumeEmbedding(w)
  <2>1. id.space \in Spaces /\ id.read["resumes"] \in Versions
    BY <1>0, <1>8, InputNames DEF getResumeEmbedding, ScoreOK, ScoreFits, OfVectors, At
  <2>2. resumeVectors[id.read["resumes"]][id.space] \in Vector \cup {NoVector}
    BY <2>1 DEF TypeOK
  <2>3. PICK v \in Vector \cup {NoVector}, step \in Steps :
          scorer' = [scorer EXCEPT ![w] = [s EXCEPT !.step = step, !.resume = v]]
    BY ZenonT(60), <1>1, <1>8, <2>2, ScoreTyped DEF getResumeEmbedding
  <2>4. scorer' \in [Workers -> Score \cup {Idle}]
    BY <1>0, <2>3, ScoreFields, GoesOn
  <2> QED BY <1>8, <2>4
          DEF getResumeEmbedding, RestOfScore, TypeOK, inputs, spaces, vectors, counters
<1>9. CASE embedResume(w)
  <2> DEFINE v == Embed(id.read["resumes"])
  <2>1. id.space \in Spaces /\ id.read["resumes"] \in Versions /\ v \in Vector
    BY <1>0, <1>9, EmbedTyped, InputNames DEF embedResume, ScoreOK, ScoreFits, OfVectors, At
  <2>2. resumeVectors' \in [Versions -> [Spaces -> Vector \cup {NoVector}]]
    BY <1>9, <2>1 DEF embedResume, TypeOK
  <2>3. scorer' = [scorer EXCEPT ![w] = [s EXCEPT !.step = "upsert", !.resume = v]]
    BY <1>9, ScoreTyped DEF embedResume
  <2>4. scorer' \in [Workers -> Score \cup {Idle}]
    BY <1>0, <1>1, <2>1, <2>3, ScoreFields, GoesOn
  <2> QED BY <1>9, <2>2, <2>4
          DEF embedResume, RestOfScore, TypeOK, inputs, spaces, vectors, counters
<1>10. CASE upsertCurrentMatch(w)
  <2>1. PICK m \in Match : matches' = [matches EXCEPT ![s.of] = MakeCurrent(@, m)]
    <3> DEFINE new == [identity |-> id, job |-> s.job, resume |-> s.resume, current |-> TRUE]
    <3>1. new \in Match
      BY <1>0 DEF Match
    <3>2. Same(w) \subseteq Match
      BY <1>0 DEF Same, TypeOK
    <3> QED BY <1>10, <3>1, <3>2 DEF upsertCurrentMatch
  <2>2. matches' \in [Jobs -> SUBSET Match]
    <3>1. matches \in [Jobs -> SUBSET Match]
      BY DEF TypeOK
    <3>2. MakeCurrent(matches[s.of], m) \subseteq Match
      BY <1>0, <3>1, MakeCurrentRows
    <3> QED BY <1>0, <2>1, <3>1, <3>2
  <2>3. End(w, TRUE)
    BY <1>10 DEF upsertCurrentMatch
  <2> QED BY <1>0, <1>10, <2>2, <2>3, EndTyped
          DEF upsertCurrentMatch, RestOfScore, TypeOK, inputs, spaces, vectors, counters, JobRow
<1> QED BY <1>2, <1>3, <1>4, <1>5, <1>6, <1>7, <1>8, <1>9, <1>10 DEF ScoreNext

(* Lemma: every step keeps the types.                                      *)
LEMMA TypeStep ==
  ASSUME Basis, [Next]_vars
  PROVE  TypeOK'
<1> USE DEF Basis
<1>0. TypeOK /\ job \in [Jobs -> JobRow] /\ scorer \in [Workers -> Score \cup {Idle}]
  BY DEF TypeOK, JobRow
<1>1. ASSUME NEW j \in Jobs, EditJob(j)
      PROVE  TypeOK'
  <2>1. content' \in [Jobs -> Versions] /\ edits' \in 0..MaxEdits
    BY <1>1, MatchingLimits DEF EditJob, TypeOK
  <2> QED BY <1>1, <2>1 DEF EditJob, TypeOK, RestOfEdit, spaces, vectors
<1>2. ASSUME NEW p \in Edited \ {"job"}, EditCandidate(p)
      PROVE  TypeOK'
  <2>1. data' \in [Inputs \ {"job"} -> Versions] /\ edits' \in 0..MaxEdits
    BY <1>2, MatchingLimits, InputsAssumption DEF EditCandidate, TypeOK
  <2> QED BY <1>2, <2>1 DEF EditCandidate, TypeOK, RestOfEdit, spaces, vectors
<1>3. CASE NextDay
  BY <1>3 DEF NextDay, TypeOK, RestOfEdit, spaces, vectors
<1>4. ASSUME NEW s \in Spaces, ActivateSpace(s)
      PROVE  TypeOK'
  BY <1>4 DEF ActivateSpace, TypeOK, inputs, vectors, counters
<1>5. ASSUME NEW s \in Spaces, RestartWorker(s)
      PROVE  TypeOK'
  <2>1. /\ known' \in SUBSET Spaces /\ active' \in known' \cup {NoSpace}
        /\ runtime' \in [{"api", "worker"} -> Spaces] /\ restarts' \in 0..MaxRestarts
        /\ asked' \in SUBSET Jobs
    BY <1>5, MatchingLimits DEF RestartWorker, ensureEmbeddingSpace, TypeOK
  <2>2. job' \in [Jobs -> JobRow] /\ scorer' \in [Workers -> Score \cup {Idle}]
    BY <1>0, <1>5, JobTyped DEF RestartWorker
  <2> QED BY <1>5, <2>1, <2>2 DEF RestartWorker, TypeOK, inputs, vectors, JobRow
<1>6. ASSUME NEW j \in Jobs, Enqueue(j)
      PROVE  TypeOK'
  <2>1. job' \in [Jobs -> JobRow] /\ asked' \in SUBSET Jobs
    BY <1>0, <1>6, JobTyped DEF Enqueue, TypeOK
  <2> QED BY <1>6, <2>1 DEF Enqueue, TypeOK, inputs, spaces, vectors, counters, JobRow
<1>7. ASSUME NEW w \in Workers, NEW j \in Jobs, TakeJob(w, j)
      PROVE  TypeOK'
  <2>1. [step |-> "job", of |-> j, mine |-> TRUE, identity |-> NothingRead,
         job |-> NoVector, resume |-> NoVector] \in Score
    BY InputNames, IdentityTyped DEF Score, Steps
  <2>2. job' \in [Jobs -> JobRow] /\ scorer' \in [Workers -> Score \cup {Idle}]
    BY <1>0, <1>7, <2>1, JobTyped DEF TakeJob
  <2> QED BY <1>7, <2>2 DEF TakeJob, TypeOK, inputs, spaces, vectors, counters, JobRow
<1>8. ASSUME NEW w \in Workers, Throw(w)
      PROVE  TypeOK'
  BY <1>8, EndTyped DEF Throw, TypeOK, inputs, spaces, vectors, counters, JobRow
<1>9. ASSUME NEW w \in Workers, Stall(w)
      PROVE  TypeOK'
  <2>1. scorer[w] \in Score /\ scorer[w].of \in Jobs /\ stalls' \in 0..MaxStalls
    BY <1>9, ScoreTyped, MatchingLimits DEF Stall, TypeOK, Score
  <2>2. scorer' = [scorer EXCEPT ![w] = [scorer[w] EXCEPT !.mine = FALSE]]
    BY <1>0, <1>9 DEF Stall
  <2>3. job' \in [Jobs -> JobRow] /\ scorer' \in [Workers -> Score \cup {Idle}]
    BY <1>0, <1>9, <2>1, <2>2, JobTyped, ScoreFields, GoesOn DEF Stall
  <2> QED BY <1>9, <2>1, <2>3 DEF Stall, TypeOK, inputs, spaces, vectors, JobRow
<1>10. ASSUME NEW w \in Workers, ScoreNext(w)
       PROVE  TypeOK'
  BY <1>10, ScoreTypeStep
<1>11. CASE UNCHANGED vars
  BY <1>11 DEF vars, TypeOK, inputs, spaces, vectors, counters
<1> QED
  BY <1>1, <1>2, <1>3, <1>4, <1>5, <1>6, <1>7, <1>8, <1>9, <1>10, <1>11 DEF Next

--------------------------------------------------------------------------------
(* Vectors and matches *)

VectorInv ==
  /\ \A w \in Workers : ScoreOK(scorer[w])
  /\ SpacesUncontaminated /\ ResumeVectorsOK
  /\ VectorsAsIdentified /\ OneCurrentMatch

(* Lemma: ScoreOK of a score that is not yet past the reads, or keeps all  *)
(* that it is about.                                                       *)
LEMMA ScoreKept ==
  ASSUME NEW w \in Workers, ScoreOK(scorer[w]),
         \/ scorer'[w] = Idle
         \/ scorer'[w].step \in Inputs \cup {"space"}
         \/ /\ scorer'[w].step = scorer[w].step /\ scorer'[w].identity = scorer[w].identity
            /\ scorer'[w].job = scorer[w].job /\ scorer'[w].resume = scorer[w].resume
            /\ scorer[w] # Idle /\ runtime' = runtime
  PROVE  ScoreOK(scorer[w])'
<1>1. CASE scorer'[w] = Idle
  BY <1>1 DEF ScoreOK, ScoreFits, Idle
<1>2. CASE scorer'[w].step \in Inputs \cup {"space"}
  BY <1>2, InputNames DEF ScoreOK, ScoreFits, Named, OfVectors
<1>3. CASE /\ scorer'[w].step = scorer[w].step /\ scorer'[w].identity = scorer[w].identity
           /\ scorer'[w].job = scorer[w].job /\ scorer'[w].resume = scorer[w].resume
           /\ scorer[w] # Idle /\ runtime' = runtime
  BY <1>3 DEF ScoreOK, ScoreFits, VectorIn
<1> QED BY <1>1, <1>2, <1>3

(* Lemma: a row that is made current, old or new, keeps what holds of      *)
(* matches, if it holds of that row.                                       *)
LEMMA MatchesKept ==
  ASSUME TypeOK, OneCurrentMatch, VectorsAsIdentified, NEW j \in Jobs, NEW m \in Match,
         m \in matches[j] \/ \A n \in matches[j] : n.identity # m.identity,
         m.identity.space # NoSpace =>
           /\ m.job = VectorIn(m.identity.read["job"], m.identity.space)
           /\ m.resume = VectorIn(m.identity.read["resumes"], m.identity.space),
         matches' = [matches EXCEPT ![j] = MakeCurrent(@, m)]
  PROVE  OneCurrentMatch' /\ VectorsAsIdentified'
<1>1. matches \in [Jobs -> SUBSET Match]
  BY DEF TypeOK
<1>2. /\ \A n \in matches[j] \cup {m} : n \in Match
      /\ \A n, o \in matches[j] \cup {m} : n.identity = o.identity => n = o
  BY <1>1 DEF OneCurrentMatch
<1>3. /\ matches'[j] = MakeCurrent(matches[j], m)
      /\ \A k \in Jobs \ {j} : matches'[k] = matches[k]
  BY <1>1
<1>4. OneCurrentMatch'
  <2> SUFFICES ASSUME NEW k \in Jobs
               PROVE  /\ \A n, o \in matches'[k] : n.identity = o.identity => n = o
                      /\ \A n, o \in matches'[k] : n.current /\ o.current => n = o
                      /\ matches'[k] # {} => \E n \in matches'[k] : n.current
    BY DEF OneCurrentMatch
  <2>1. CASE k = j
    BY <1>2, <1>3, <2>1, OneIsCurrent
  <2>2. CASE k # j
    BY <1>3, <2>2 DEF OneCurrentMatch
  <2> QED BY <2>1, <2>2
<1>5. VectorsAsIdentified'
  <2> SUFFICES ASSUME NEW k \in Jobs, NEW n \in matches'[k], n.identity.space # NoSpace
               PROVE  /\ n.job = VectorIn(n.identity.read["job"], n.identity.space)
                      /\ n.resume = VectorIn(n.identity.read["resumes"], n.identity.space)
    BY DEF VectorsAsIdentified, VectorIn
  <2>1. CASE k = j
    <3>1. PICK o \in matches[j] \cup {m} :
            n.identity = o.identity /\ n.job = o.job /\ n.resume = o.resume
      BY <1>2, <1>3, <2>1, MakeCurrentRows
    <3> QED BY <3>1 DEF VectorsAsIdentified, VectorIn
  <2>2. CASE k # j
    BY <1>3, <2>2 DEF VectorsAsIdentified, VectorIn
  <2> QED BY <2>1, <2>2
<1> QED BY <1>4, <1>5

(* Lemma: the steps of a score keep what holds of vectors and matches.     *)
LEMMA ScoreVectorStep ==
  ASSUME Basis, VectorInv, NEW w \in Workers, ScoreNext(w)
  PROVE  VectorInv'
<1> DEFINE s == scorer[w]
           id == scorer[w].identity
<1>0. /\ s \in Score /\ s # Idle /\ s.of \in Jobs /\ id \in Identity
      /\ id.read \in [Inputs -> Versions] /\ id.space \in Spaces \cup {NoSpace}
      /\ scorer \in [Workers -> Score \cup {Idle}] /\ runtime' = runtime
      /\ s.job \in Vector \cup {NoVector} /\ s.resume \in Vector \cup {NoVector}
      /\ Idle.step = "idle" /\ "idle" \notin Steps
  <2>1. s.step \in Steps
    BY InputNames DEF ScoreNext, ReadInput, ReadSpace, findMatchByIdentity, setCurrentMatch,
          getJobEmbedding, embedJob, getResumeEmbedding, embedResume, upsertCurrentMatch,
          At, Steps
  <2>2. runtime' = runtime
    BY DEF ScoreNext, ReadInput, ReadSpace, findMatchByIdentity, setCurrentMatch,
           getJobEmbedding, embedJob, getResumeEmbedding, embedResume, upsertCurrentMatch,
           RestOfScore, spaces
  <2> QED BY <2>1, <2>2, ScoreTyped DEF Score, Identity, Basis
<1>1. ScoreOK(s)
  BY DEF VectorInv
(* The other workers' scores are left alone by every step. *)
<1>2. ASSUME NEW e, scorer' = [scorer EXCEPT ![w] = e], ScoreFits(e, runtime["worker"])
      PROVE  \A v \in Workers : ScoreOK(scorer[v])'
  <2> SUFFICES ASSUME NEW v \in Workers PROVE ScoreOK(scorer[v])'
    OBVIOUS
  <2>1. CASE v = w
    <3>1. scorer'[v] = e
      BY <1>0, <1>2, <2>1
    <3> QED BY <1>0, <1>2, <3>1 DEF ScoreOK
  <2>2. CASE v # w
    <3>1. scorer'[v] = scorer[v] /\ ScoreOK(scorer[v])
      BY <1>0, <1>2, <2>2 DEF VectorInv
    <3> QED BY <1>0, <3>1 DEF ScoreOK, ScoreFits, VectorIn
  <2> QED BY <2>1, <2>2
<1>3. ASSUME NEW well \in BOOLEAN, End(w, well)
      PROVE  \A v \in Workers : ScoreOK(scorer[v])'
  <2>1. scorer' = [scorer EXCEPT ![w] = Idle]
    BY <1>3 DEF End
  <2> QED BY <1>2, <2>1 DEF ScoreOK, ScoreFits
<1>4. ASSUME NEW i \in DOMAIN Reads, ReadInput(w, i)
      PROVE  VectorInv'
  <2> DEFINE e == [s EXCEPT !.step = NextRead(i),
                            !.identity.read[Reads[i]] = Now(s.of)[Reads[i]]]
  <2>1. scorer' = [scorer EXCEPT ![w] = e] /\ UNCHANGED <<vectors, matches>>
    BY <1>0, <1>4 DEF ReadInput
  <2>2. e.step \in Inputs \cup {"space"}
    BY <1>0, InputNames DEF NextRead, Score
  <2>3. ScoreFits(e, runtime["worker"])
    BY <2>2, InputNames DEF ScoreOK, ScoreFits, Named, OfVectors
  <2> QED BY <1>2, <2>1, <2>3 DEF VectorInv, vectors, SpacesUncontaminated, ResumeVectorsOK,
            VectorsAsIdentified, OneCurrentMatch, VectorIn
<1>5. CASE ReadSpace(w)
  <2>1. UNCHANGED <<vectors, matches>>
    BY <1>5 DEF ReadSpace
  <2>2. \A v \in Workers : ScoreOK(scorer[v])'
    <3>1. CASE End(w, FALSE)
      BY <1>3, <3>1
    <3>2. CASE ~(active # NoSpace /\ ~Compatible(active, "worker"))
      <4> DEFINE e == [s EXCEPT !.step = "find", !.identity.space = active,
                                !.identity.day = MatchingDay(id.read)]
      <4>1. scorer' = [scorer EXCEPT ![w] = e]
        BY <1>0, <1>5, <3>2 DEF ReadSpace
      <4>2. e.step = "find" /\ e.identity.space = active
        BY <1>0 DEF Score, Identity
      <4>3. ScoreFits(e, runtime["worker"])
        BY <1>0, <3>2, <4>2 DEF ScoreOK, ScoreFits, OfVectors, Compatible
      <4> QED BY <1>2, <4>1, <4>3
    <3> QED BY <1>5, <3>1, <3>2 DEF ReadSpace
  <2> QED BY <2>1, <2>2 DEF VectorInv, vectors, SpacesUncontaminated, ResumeVectorsOK,
            VectorsAsIdentified, OneCurrentMatch, VectorIn
<1>6. CASE findMatchByIdentity(w)
  <2>1. UNCHANGED <<vectors, matches>>
    BY <1>6 DEF findMatchByIdentity
  <2>2. \A v \in Workers : ScoreOK(scorer[v])'
    <3>1. CASE End(w, TRUE)
      BY <1>3, <3>1
    <3>2. CASE GoTo(w, FoundNext(w)) /\ FoundNext(w) # "done"
      <4> DEFINE e == [s EXCEPT !.step = FoundNext(w)]
      <4>1. scorer' = [scorer EXCEPT ![w] = e] /\ e.identity = id /\ e.step = FoundNext(w)
        BY <1>0, <3>2 DEF GoTo, Score
      <4>2. /\ FoundNext(w) \in {"makeCurrent", "upsert", "jobVector"}
            /\ FoundNext(w) = "upsert" => id.space = NoSpace
            /\ FoundNext(w) = "jobVector" => id.space # NoSpace
        BY <3>2 DEF FoundNext
      <4>3. id.space # NoSpace => ModelOf[id.space] = ModelOf[runtime["worker"]]
        <5>1. s.step = "find" /\ "find" \in Named
          BY <1>6, InputNames DEF findMatchByIdentity, At, Named, Steps
        <5> QED BY <1>0, <1>1, <5>1 DEF ScoreOK, ScoreFits
      <4>4. ScoreFits(e, runtime["worker"])
        BY <1>0, <4>1, <4>2, <4>3 DEF ScoreOK, ScoreFits, OfVectors
      <4> QED BY <1>2, <4>1, <4>4
    <3> QED BY <1>6, <3>1, <3>2 DEF findMatchByIdentity
  <2> QED BY <2>1, <2>2 DEF VectorInv, vectors, SpacesUncontaminated, ResumeVectorsOK,
            VectorsAsIdentified, OneCurrentMatch, VectorIn
<1>7. CASE setCurrentMatch(w)
  <2>1. PICK m \in Same(w) : matches' = [matches EXCEPT ![s.of] = MakeCurrent(@, m)]
    BY <1>7 DEF setCurrentMatch
  <2>2. m \in matches[s.of] /\ m \in Match
    BY <1>0, <2>1 DEF Same, Basis, TypeOK
  <2>3. OneCurrentMatch' /\ VectorsAsIdentified'
    BY <1>0, <2>1, <2>2, MatchesKept DEF Basis, VectorInv, VectorsAsIdentified, VectorIn
  <2>4. UNCHANGED vectors /\ \A v \in Workers : ScoreOK(scorer[v])'
    BY <1>3, <1>7 DEF setCurrentMatch
  <2> QED BY <2>3, <2>4 DEF VectorInv, vectors, SpacesUncontaminated, ResumeVectorsOK, VectorIn
<1>8. CASE getJobEmbedding(w)
  <2> DEFINE cached == jobVectors[s.of][id.space]
             hit == CacheHit(cached, id.read["job"])
             e == [s EXCEPT !.step = IF hit THEN "resumeVector" ELSE "embedJob",
                            !.job = IF hit THEN cached ELSE NoVector]
  <2>1. /\ scorer' = [scorer EXCEPT ![w] = e] /\ UNCHANGED <<vectors, matches>>
        /\ s.step = "jobVector"
    BY <1>0, <1>8 DEF getJobEmbedding, At
  <2>2. /\ id.space \in Spaces /\ id.space # NoSpace
        /\ ModelOf[id.space] = ModelOf[runtime["worker"]]
    BY <1>0, <1>1, <2>1, InputNames DEF ScoreOK, ScoreFits, OfVectors, Named, Steps
  <2>3. hit => cached = VectorIn(id.read["job"], id.space)
    <3>1. cached \in Vector \cup {NoVector}
      BY <1>0, <2>2 DEF Basis, TypeOK
    <3>2. cached # NoVector => cached.model = ModelOf[id.space]
      BY <1>0, <2>2 DEF VectorInv, SpacesUncontaminated
    <3> QED BY <3>1, <3>2 DEF CacheHit, Vector, VectorIn
  <2>4. /\ e.identity = id /\ e.step \in {"resumeVector", "embedJob"}
        /\ e.step = "resumeVector" => e.job = VectorIn(id.read["job"], id.space)
    BY <1>0, <2>3 DEF Score
  <2>5. ScoreFits(e, runtime["worker"])
    BY <1>0, <2>2, <2>4 DEF ScoreOK, ScoreFits, VectorIn
  <2> QED BY <1>2, <2>1, <2>5 DEF VectorInv, vectors, SpacesUncontaminated, ResumeVectorsOK,
            VectorsAsIdentified, OneCurrentMatch, VectorIn
<1>9. CASE embedJob(w)
  <2> DEFINE v == Embed(id.read["job"])
             e == [s EXCEPT !.step = "resumeVector", !.job = v]
  <2>1. /\ scorer' = [scorer EXCEPT ![w] = e] /\ UNCHANGED <<resumeVectors, matches>>
        /\ jobVectors' = [jobVectors EXCEPT ![s.of][id.space] = v]
        /\ s.step = "embedJob"
    BY <1>0, <1>9 DEF embedJob, At
  <2>2. /\ id.space \in Spaces /\ id.space # NoSpace
        /\ ModelOf[id.space] = ModelOf[runtime["worker"]]
    BY <1>0, <1>1, <2>1, InputNames DEF ScoreOK, ScoreFits, OfVectors, Named, Steps
  <2>3. v = VectorIn(id.read["job"], id.space)
    BY <2>2 DEF Embed, VectorIn
  <2>4. e.identity = id /\ e.step = "resumeVector" /\ e.job = v
    BY <1>0 DEF Score
  <2>5. ScoreFits(e, runtime["worker"])
    BY <1>0, <2>2, <2>3, <2>4 DEF ScoreOK, ScoreFits, VectorIn
  <2>6. SpacesUncontaminated'
    <3>1. ASSUME NEW t \in Spaces, NEW j \in Jobs, jobVectors'[j][t] # NoVector
          PROVE  jobVectors'[j][t].model = ModelOf[t]
      <4>1. jobVectors \in [Jobs -> [Spaces -> Vector \cup {NoVector}]]
        BY DEF Basis, TypeOK
      <4>2. jobVectors'[j][t] = IF j = s.of /\ t = id.space THEN v ELSE jobVectors[j][t]
        BY <1>0, <2>1, <2>2, <4>1
      <4> QED BY <2>3, <3>1, <4>2 DEF VectorInv, SpacesUncontaminated, VectorIn
    <3> QED BY <2>1, <3>1 DEF VectorInv, SpacesUncontaminated
  <2> QED BY <1>2, <2>1, <2>5, <2>6 DEF VectorInv, ResumeVectorsOK, VectorsAsIdentified,
            OneCurrentMatch, VectorIn
<1>10. CASE getResumeEmbedding(w)
  <2> DEFINE cached == resumeVectors[id.read["resumes"]][id.space]
             e == [s EXCEPT !.step = IF cached = NoVector THEN "embedResume" ELSE "upsert",
                            !.resume = cached]
  <2>1. /\ scorer' = [scorer EXCEPT ![w] = e] /\ UNCHANGED <<vectors, matches>>
        /\ s.step = "resumeVector"
    BY <1>0, <1>10 DEF getResumeEmbedding, At
  <2>2. /\ id.space \in Spaces /\ id.space # NoSpace
        /\ ModelOf[id.space] = ModelOf[runtime["worker"]]
        /\ s.job = VectorIn(id.read["job"], id.space)
    BY <1>0, <1>1, <2>1, InputNames DEF ScoreOK, ScoreFits, OfVectors, Named, Steps
  <2>3. cached # NoVector => cached = VectorIn(id.read["resumes"], id.space)
    BY <1>0, <2>2, InputNames DEF VectorInv, ResumeVectorsOK
  <2>4. /\ e.identity = id /\ e.job = s.job /\ e.resume = cached
        /\ e.step \in {"upsert", "embedResume"} /\ (e.step = "upsert" => cached # NoVector)
    BY <1>0 DEF Score
  <2>5. ScoreFits(e, runtime["worker"])
    BY <1>0, <2>2, <2>3, <2>4 DEF ScoreOK, ScoreFits, VectorIn
  <2> QED BY <1>2, <2>1, <2>5 DEF VectorInv, vectors, SpacesUncontaminated, ResumeVectorsOK,
            VectorsAsIdentified, OneCurrentMatch, VectorIn
<1>11. CASE embedResume(w)
  <2> DEFINE version == id.read["resumes"]
             v == Embed(version)
             e == [s EXCEPT !.step = "upsert", !.resume = v]
  <2>1. /\ scorer' = [scorer EXCEPT ![w] = e] /\ UNCHANGED <<jobVectors, matches>>
        /\ resumeVectors' = [resumeVectors EXCEPT ![version][id.space] = v]
        /\ s.step = "embedResume" /\ version \in Versions
    BY <1>0, <1>11, InputNames DEF embedResume, At
  <2>2. /\ id.space \in Spaces /\ id.space # NoSpace
        /\ ModelOf[id.space] = ModelOf[runtime["worker"]]
        /\ s.job = VectorIn(id.read["job"], id.space)
    BY <1>0, <1>1, <2>1, InputNames DEF ScoreOK, ScoreFits, OfVectors, Named, Steps
  <2>3. v = VectorIn(version, id.space)
    BY <2>2 DEF Embed, VectorIn
  <2>4. e.identity = id /\ e.step = "upsert" /\ e.job = s.job /\ e.resume = v
    BY <1>0 DEF Score
  <2>5. ScoreFits(e, runtime["worker"])
    BY <1>0, <2>2, <2>3, <2>4 DEF ScoreOK, ScoreFits, VectorIn
  <2>6. ASSUME NEW t \in Spaces, NEW u \in Versions, resumeVectors'[u][t] # NoVector
        PROVE  resumeVectors'[u][t] = VectorIn(u, t)
    <3>1. resumeVectors \in [Versions -> [Spaces -> Vector \cup {NoVector}]]
      BY DEF Basis, TypeOK
    <3>2. resumeVectors'[u][t] =
            IF u = version /\ t = id.space THEN v ELSE resumeVectors[u][t]
      BY <2>1, <2>2, <3>1
    <3> QED BY <2>3, <2>6, <3>2 DEF VectorInv, ResumeVectorsOK
  <2>7. ResumeVectorsOK' /\ SpacesUncontaminated'
    <3>1. ResumeVectorsOK'
      BY <2>6 DEF ResumeVectorsOK, VectorIn
    <3>2. ASSUME NEW t \in Spaces, NEW u \in Versions, resumeVectors'[u][t] # NoVector
          PROVE  resumeVectors'[u][t].model = ModelOf[t]
        <4>1. resumeVectors'[u][t] = VectorIn(u, t)
          BY <2>6, <3>2
        <4>2. VectorIn(u, t).model = ModelOf[t]
          BY DEF VectorIn
        <4> QED BY <4>1, <4>2
    <3> QED BY <2>1, <3>1, <3>2 DEF VectorInv, SpacesUncontaminated
  <2> QED BY <1>2, <2>1, <2>5, <2>7 DEF VectorInv, VectorsAsIdentified, OneCurrentMatch
<1>12. CASE upsertCurrentMatch(w)
  <2> DEFINE new == [identity |-> id, job |-> s.job, resume |-> s.resume, current |-> TRUE]
  <2>1. PICK m \in (IF Same(w) = {} THEN {new} ELSE Same(w)) :
          matches' = [matches EXCEPT ![s.of] = MakeCurrent(@, m)]
    BY <1>12 DEF upsertCurrentMatch
  <2>2. OneCurrentMatch' /\ VectorsAsIdentified'
    <3>1. CASE Same(w) = {}
      <4>1. m = new /\ m \in Match /\ \A n \in matches[s.of] : n.identity # m.identity
        <5>1. m = new
          BY <2>1, <3>1
        <5>2. m.identity = id /\ m \in Match
          BY <1>0, <5>1 DEF Match
        <5>3. \A n \in matches[s.of] : n.identity # id
          BY <3>1 DEF Same
        <5> QED BY <5>1, <5>2, <5>3
      <4>2. m.identity.space # NoSpace =>
              /\ m.job = VectorIn(m.identity.read["job"], m.identity.space)
              /\ m.resume = VectorIn(m.identity.read["resumes"], m.identity.space)
        BY <1>0, <1>1, <1>12, <4>1 DEF ScoreOK, ScoreFits, upsertCurrentMatch, At
      <4> QED BY <1>0, <2>1, <4>1, <4>2, MatchesKept DEF Basis, VectorInv
    <3>2. CASE Same(w) # {}
      <4>1. m \in matches[s.of] /\ m \in Match
        BY <1>0, <2>1, <3>2 DEF Same, Basis, TypeOK
      <4> QED BY <1>0, <2>1, <4>1, MatchesKept DEF Basis, VectorInv, VectorsAsIdentified, VectorIn
    <3> QED BY <3>1, <3>2
  <2>3. UNCHANGED vectors /\ \A v \in Workers : ScoreOK(scorer[v])'
    BY <1>3, <1>12 DEF upsertCurrentMatch
  <2> QED BY <2>2, <2>3 DEF VectorInv, vectors, SpacesUncontaminated, ResumeVectorsOK, VectorIn
<1> QED BY <1>4, <1>5, <1>6, <1>7, <1>8, <1>9, <1>10, <1>11, <1>12 DEF ScoreNext

(* Lemma: every step keeps what holds of vectors and matches.              *)
LEMMA VectorStep ==
  ASSUME Basis, VectorInv, [Next]_vars
  PROVE  VectorInv'
<1>0. /\ scorer \in [Workers -> Score \cup {Idle}]
      /\ \A w \in Workers : ScoreOK(scorer[w])
  BY DEF Basis, TypeOK
<1>1. ASSUME UNCHANGED <<vectors, matches>>, \A w \in Workers : ScoreOK(scorer[w])'
      PROVE  VectorInv'
  BY <1>1 DEF VectorInv, vectors, SpacesUncontaminated, ResumeVectorsOK,
            VectorsAsIdentified, OneCurrentMatch, VectorIn
<1>2. CASE UNCHANGED <<vectors, matches, scorer, runtime>>
  BY <1>0, <1>1, <1>2 DEF ScoreOK
<1>3. ASSUME NEW s \in Spaces, RestartWorker(s)
      PROVE  VectorInv'
  <2>1. \A w \in Workers : scorer'[w] = Idle
    BY <1>3 DEF RestartWorker
  <2> QED BY <1>1, <1>3, <2>1 DEF RestartWorker, ScoreOK, ScoreFits
<1>4. ASSUME NEW w \in Workers, NEW j \in Jobs, TakeJob(w, j)
      PROVE  VectorInv'
  <2>1. ASSUME NEW v \in Workers PROVE ScoreOK(scorer[v])'
    <3>1. CASE v = w
      <4>1. scorer'[v].step = "job"
        BY <1>0, <1>4, <3>1 DEF TakeJob
      <4> QED BY <1>0, <4>1, ScoreKept, InputNames
    <3>2. CASE v # w
      BY <1>0, <1>4, <3>2 DEF TakeJob, ScoreOK, spaces
    <3> QED BY <3>1, <3>2
  <2> QED BY <1>1, <1>4, <2>1 DEF TakeJob
<1>5. ASSUME NEW w \in Workers, Throw(w)
      PROVE  VectorInv'
  <2>1. ASSUME NEW v \in Workers PROVE ScoreOK(scorer[v])'
    <3>1. scorer' = [scorer EXCEPT ![w] = Idle] /\ runtime' = runtime
      BY <1>5 DEF Throw, End, spaces
    <3> QED BY <1>0, <3>1 DEF ScoreOK, ScoreFits
  <2> QED BY <1>1, <1>5, <2>1 DEF Throw
<1>6. ASSUME NEW w \in Workers, Stall(w)
      PROVE  VectorInv'
  <2>1. ASSUME NEW v \in Workers PROVE ScoreOK(scorer[v])'
    <3>1. scorer' = [scorer EXCEPT ![w].mine = FALSE] /\ runtime' = runtime
      BY <1>6 DEF Stall, spaces
    <3>2. CASE v = w
      <4>1. scorer[w] \in Score /\ scorer[w] # Idle
        BY <1>6, ScoreTyped DEF Stall, Basis
      <4>2. /\ scorer'[w].step = scorer[w].step /\ scorer'[w].identity = scorer[w].identity
            /\ scorer'[w].job = scorer[w].job /\ scorer'[w].resume = scorer[w].resume
        BY <1>0, <3>1, <4>1 DEF Score
      <4> QED BY <1>0, <3>1, <3>2, <4>1, <4>2, ScoreKept
    <3>3. CASE v # w
      BY <1>0, <3>1, <3>3 DEF ScoreOK
    <3> QED BY <3>2, <3>3
  <2> QED BY <1>1, <1>6, <2>1 DEF Stall
<1>7. ASSUME NEW w \in Workers, ScoreNext(w)
      PROVE  VectorInv'
  BY <1>7, ScoreVectorStep
<1> QED
  BY <1>2, <1>3, <1>4, <1>5, <1>6, <1>7
  DEF Next, vars, EditJob, EditCandidate, NextDay, ActivateSpace, Enqueue, RestOfEdit, spaces

--------------------------------------------------------------------------------
(* Recomputes *)

(* Lemma: a job that ends well was current with the inputs as they are, or *)
(* BullMQ has another one for it; a job that does not end stays there.     *)
LEMMA JobLeft ==
  ASSUME TypeOK, NEW w \in Workers, scorer[w] # Idle, NEW well \in BOOLEAN, End(w, well),
         NEW j \in Jobs, job'[j] = NoJob
  PROVE  job[j] = NoJob \/ (well /\ scorer[w].of = j)
<1>1. job \in [Jobs -> JobRow] /\ scorer[w].of \in Jobs
  BY ScoreTyped DEF TypeOK, JobRow, Score
<1>2. ASSUME NEW r \in JobRow PROVE Retry(r).state # "none"
  BY <1>2 DEF Retry, JobRow
<1>3. CASE ~scorer[w].mine
  BY <1>3 DEF End
<1>4. CASE scorer[w].mine
  BY <1>1, <1>2, <1>4 DEF End, NoJob
<1> QED BY <1>3, <1>4

(* Lemma: what is read of unchanged inputs is what there is.               *)
LEMMA SameInputs ==
  ASSUME UNCHANGED <<content, data, today, active>>
  PROVE  /\ \A j \in Jobs : Now(j)' = Now(j) /\ IdentityNow(j)' = IdentityNow(j)
  BY DEF Now, IdentityNow, MatchingDay

(* Lemma: the steps of a score, with no input changed, keep it in          *)
(* agreement with the inputs, and what it makes current agrees as well.    *)
LEMMA ScoreFreshStep ==
  ASSUME Basis, NEW w \in Workers, ScoreNext(w), Agrees(scorer[w])
  PROVE  /\ scorer'[w] # Idle => scorer'[w].of = scorer[w].of /\ Agrees(scorer[w])'
         /\ \A v \in Workers \ {w} : scorer'[v] = scorer[v]
         /\ scorer[w] # Idle /\ scorer[w].of \in Jobs
         /\ UNCHANGED <<content, data, today, active, asked>>
         /\ \A j \in Jobs : job'[j] = NoJob =>
              job[j] = NoJob \/ \E m \in matches'[j] : m.current /\ m.identity = IdentityNow(j)
         /\ \A j \in Jobs :
              \/ matches'[j] = matches[j]
              \/ /\ j = scorer[w].of
                 /\ \E m \in matches'[j] : m.current /\ m.identity = IdentityNow(j)
<1> DEFINE s == scorer[w]
           id == scorer[w].identity
<1>0. /\ s \in Score /\ s # Idle /\ s.of \in Jobs /\ id \in Identity
      /\ id.read \in [Inputs -> Versions] /\ Now(s.of) \in [Inputs -> Versions]
      /\ scorer \in [Workers -> Score \cup {Idle}]
      /\ matches \in [Jobs -> SUBSET Match] /\ TypeOK
  <2>1. s.step \in Steps
    BY InputNames DEF ScoreNext, ReadInput, ReadSpace, findMatchByIdentity, setCurrentMatch,
          getJobEmbedding, embedJob, getResumeEmbedding, embedResume, upsertCurrentMatch,
          At, Steps
  <2> QED BY <2>1, ScoreTyped, IdentityTyped DEF Score, Identity, Basis, TypeOK
<1>1. UNCHANGED <<content, data, today, active, asked>>
  BY DEF ScoreNext, ReadInput, ReadSpace, findMatchByIdentity, setCurrentMatch,
         getJobEmbedding, embedJob, getResumeEmbedding, embedResume, upsertCurrentMatch,
         RestOfScore, inputs, spaces
<1>2. {"find", "makeCurrent", "jobVector", "embedJob", "resumeVector", "embedResume",
       "upsert"} \subseteq Named /\ "space" \notin Inputs
  BY InputNames DEF Named, Steps
(* A score that goes on with the identity it has. *)
<1>3. ASSUME NEW e \in Score, scorer' = [scorer EXCEPT ![w] = e], s.step \in Named,
             e.step \in Named, e.of = s.of, e.identity = id
      PROVE  Agrees(scorer[w])'
  <2>1. scorer'[w] = e /\ id = IdentityNow(s.of) /\ id.read = Now(s.of)
    BY <1>0, <1>3 DEF Agrees, Named
  <2>2. \A i \in 1..6 : e.step # Reads[i]
    BY <1>3, InputNames DEF Named
  <2> QED BY <1>0, <1>1, <1>3, <2>1, <2>2, SameInputs DEF Agrees
(* The row a score ends with. *)
<1>4. ASSUME s.step \in Named, NEW m \in Match, m.identity = id,
             matches' = [matches EXCEPT ![s.of] = MakeCurrent(@, m)]
      PROVE  \E n \in matches'[s.of] : n.current /\ n.identity = IdentityNow(s.of)
  <2>1. matches'[s.of] = MakeCurrent(matches[s.of], m) /\ id = IdentityNow(s.of)
    BY <1>0, <1>4 DEF Agrees
  <2> QED BY <1>0, <1>4, <2>1, MakeCurrentRows
<1>5. ASSUME NEW i \in DOMAIN Reads, ReadInput(w, i)
      PROVE  Agrees(scorer[w])' /\ scorer'[w].of = s.of
  <2> DEFINE e == [s EXCEPT !.step = NextRead(i),
                            !.identity.read[Reads[i]] = Now(s.of)[Reads[i]]]
  <2>1. scorer'[w] = e /\ s.step = Reads[i] /\ i \in 1..6
    BY <1>0, <1>5, InputNames DEF ReadInput, At
  <2>2. /\ e.of = s.of /\ e.step = NextRead(i)
        /\ e.identity.read = [id.read EXCEPT ![Reads[i]] = Now(s.of)[Reads[i]]]
    BY <1>0 DEF Score, Identity
  <2> HIDE DEF e
  <2>3. \A k \in 1..6 : k <= i => e.identity.read[Reads[k]] = Now(s.of)[Reads[k]]
    <3>1. ASSUME NEW k \in 1..6, k < i PROVE e.identity.read[Reads[k]] = Now(s.of)[Reads[k]]
      <4>1. id.read[Reads[k]] = Now(s.of)[Reads[k]]
        BY <2>1, <3>1 DEF Agrees
      <4> QED BY <1>0, <2>2, <4>1, InputNames
    <3>2. e.identity.read[Reads[i]] = Now(s.of)[Reads[i]]
      BY <1>0, <2>1, <2>2, InputNames
    <3> QED BY <2>1, <3>1, <3>2
  <2>4. CASE i = 6
    <3>1. e.step = "space"
      BY <2>2, <2>4, InputNames DEF NextRead
    <3>2. e.identity.read = Now(s.of)
      <4>1. \A p \in Inputs : e.identity.read[p] = Now(s.of)[p]
        BY <2>3, <2>4, InputNames DEF Inputs
      <4>2. e.identity.read \in [Inputs -> Versions]
        BY <1>0, <2>1, <2>2, InputNames
      <4> QED BY <1>0, <4>1, <4>2
    <3> QED BY <1>0, <1>1, <1>2, <2>1, <2>2, <3>1, <3>2, SameInputs, InputNames
            DEF Agrees, Named
  <2>5. CASE i # 6
    <3>1. e.step = Reads[i + 1] /\ i + 1 \in 1..6
      BY <2>1, <2>2, <2>5, InputNames DEF NextRead
    <3>2. e.step \in Inputs /\ e.step \notin Named
      BY <3>1, InputNames DEF Named
    <3>3. ASSUME NEW n \in 1..6, NEW k \in 1..6, e.step = Reads[n], k < n
          PROVE  e.identity.read[Reads[k]] = Now(s.of)[Reads[k]]
      <4>1. n = i + 1 /\ k <= i
        <5>1. Reads[n] = Reads[i + 1]
          BY <3>1, <3>3
        <5>2. n = i + 1
          BY <3>1, <5>1, InputNames
        <5> QED BY <2>1, <3>3, <5>2
      <4> QED BY <2>3, <4>1
    <3>4. Agrees(e)
      BY SMTT(30), <2>2, <3>2, <3>3 DEF Agrees
    <3> QED BY <1>0, <1>1, <2>1, <2>2, <3>4, SameInputs DEF Agrees
  <2> QED BY <2>1, <2>2, <2>4, <2>5
<1>6. ASSUME ReadSpace(w), ~End(w, FALSE)
      PROVE  Agrees(scorer[w])' /\ scorer'[w].of = s.of
  <2> DEFINE e == [s EXCEPT !.step = "find", !.identity.space = active,
                            !.identity.day = MatchingDay(id.read)]
  <2>1. scorer'[w] = e /\ s.step = "space"
    BY <1>0, <1>6 DEF ReadSpace, At
  <2>2. /\ e.of = s.of /\ e.step = "find"
        /\ e.identity = [read |-> id.read, space |-> active, day |-> MatchingDay(id.read)]
    BY <1>0 DEF Score, Identity
  <2> HIDE DEF e
  <2>3. id.read = Now(s.of)
    BY <1>2, <2>1 DEF Agrees
  <2>4. e.identity = IdentityNow(s.of)
    BY <2>2, <2>3 DEF IdentityNow
  <2>5. \A i \in 1..6 : e.step # Reads[i]
    BY <1>2, <2>2, InputNames DEF Named
  <2>6. e.identity.read = Now(s.of)
    BY <2>2, <2>3
  <2>7. Agrees(scorer[w])' /\ scorer'[w].of = s.of
    BY <1>0, <1>1, <2>1, <2>2, <2>4, <2>5, <2>6, SameInputs DEF Agrees
  <2> QED BY <2>7
(* What the three steps that end a score, and those that go on, come to. *)
<1>7. ASSUME NEW well \in BOOLEAN, End(w, well)
      PROVE  /\ scorer'[w] = Idle /\ \A v \in Workers \ {w} : scorer'[v] = scorer[v]
             /\ \A j \in Jobs : job'[j] = NoJob => job[j] = NoJob \/ (well /\ s.of = j)
  BY <1>0, <1>7, JobLeft DEF End
<1>8. ASSUME scorer'[w] = Idle \/ (Agrees(scorer[w])' /\ scorer'[w].of = s.of),
             \A v \in Workers \ {w} : scorer'[v] = scorer[v],
             \A j \in Jobs : job'[j] = NoJob =>
               job[j] = NoJob \/ \E m \in matches'[j] : m.current /\ m.identity = IdentityNow(j),
             \A j \in Jobs :
               \/ matches'[j] = matches[j]
               \/ /\ j = s.of
                  /\ \E m \in matches'[j] : m.current /\ m.identity = IdentityNow(j)
      PROVE  /\ scorer'[w] # Idle => scorer'[w].of = scorer[w].of /\ Agrees(scorer[w])'
             /\ \A v \in Workers \ {w} : scorer'[v] = scorer[v]
             /\ scorer[w] # Idle /\ scorer[w].of \in Jobs
             /\ UNCHANGED <<content, data, today, active, asked>>
             /\ \A j \in Jobs : job'[j] = NoJob =>
                  job[j] = NoJob \/ \E m \in matches'[j] : m.current /\ m.identity = IdentityNow(j)
             /\ \A j \in Jobs :
                  \/ matches'[j] = matches[j]
                  \/ /\ j = scorer[w].of
                     /\ \E m \in matches'[j] : m.current /\ m.identity = IdentityNow(j)
  BY <1>0, <1>1, <1>8
<1>9. ASSUME NEW i \in DOMAIN Reads, ReadInput(w, i)
      PROVE  /\ job' = job /\ matches' = matches
             /\ \A v \in Workers \ {w} : scorer'[v] = scorer[v]
  BY <1>0, <1>9 DEF ReadInput
<1>10. CASE ReadSpace(w)
  <2>1. matches' = matches
    BY <1>10 DEF ReadSpace
  <2>2. CASE End(w, FALSE)
    BY <1>7, <1>8, <2>1, <2>2
  <2>3. CASE ~End(w, FALSE)
    <3>1. job' = job /\ \A v \in Workers \ {w} : scorer'[v] = scorer[v]
      BY <1>0, <1>10, <2>3 DEF ReadSpace
    <3> QED BY <1>6, <1>8, <1>10, <2>1, <2>3, <3>1
  <2> QED BY <2>2, <2>3
<1>11. CASE findMatchByIdentity(w)
  <2>1. matches' = matches /\ s.step = "find"
    BY <1>11 DEF findMatchByIdentity, At
  <2>2. CASE FoundNext(w) = "done"
    <3>1. End(w, TRUE)
      BY <1>11, <2>2 DEF findMatchByIdentity
    <3>2. \E m \in matches[s.of] : m.current /\ m.identity = id
      BY <2>2 DEF FoundNext, Same
    <3>3. id = IdentityNow(s.of)
      BY <1>2, <2>1 DEF Agrees
    <3> QED BY <1>7, <1>8, <2>1, <3>1, <3>2, <3>3
  <2>3. CASE FoundNext(w) # "done"
    <3>1. /\ scorer' = [scorer EXCEPT ![w].step = FoundNext(w)] /\ job' = job
          /\ FoundNext(w) \in Named
      BY <1>2, <1>11, <2>3 DEF findMatchByIdentity, GoTo, FoundNext
    <3> DEFINE e == [s EXCEPT !.step = FoundNext(w)]
    <3>2. /\ scorer' = [scorer EXCEPT ![w] = e] /\ e \in Score /\ e.step \in Named
          /\ e.of = s.of /\ e.identity = id
      BY <1>0, <3>1, ScoreFields DEF Score, Named
    <3>3. Agrees(scorer[w])' /\ scorer'[w].of = s.of
      BY <1>0, <1>2, <1>3, <2>1, <3>2
    <3> QED BY <1>0, <1>8, <2>1, <3>1, <3>3
  <2> QED BY <2>2, <2>3
<1>12. CASE setCurrentMatch(w)
  <2>1. PICK m \in Same(w) : matches' = [matches EXCEPT ![s.of] = MakeCurrent(@, m)]
    BY <1>12 DEF setCurrentMatch
  <2>2. m \in Match /\ m.identity = id /\ s.step \in Named /\ End(w, TRUE)
    BY <1>0, <1>2, <1>12, <2>1 DEF Same, setCurrentMatch, At
  <2>3. \E n \in matches'[s.of] : n.current /\ n.identity = IdentityNow(s.of)
    BY <1>4, <2>1, <2>2
  <2>4. \A j \in Jobs \ {s.of} : matches'[j] = matches[j]
    BY <1>0, <2>1
  <2> QED BY <1>7, <1>8, <2>2, <2>3, <2>4
<1>13. CASE upsertCurrentMatch(w)
  <2> DEFINE new == [identity |-> id, job |-> s.job, resume |-> s.resume, current |-> TRUE]
  <2>1. PICK m \in (IF Same(w) = {} THEN {new} ELSE Same(w)) :
          matches' = [matches EXCEPT ![s.of] = MakeCurrent(@, m)]
    BY <1>13 DEF upsertCurrentMatch
  <2>2. new \in Match /\ new.identity = id /\ \A n \in Same(w) : n \in Match /\ n.identity = id
    BY <1>0 DEF Match, Score, Same
  <2>3. m \in Match /\ m.identity = id /\ s.step \in Named /\ End(w, TRUE)
    BY <1>2, <1>13, <2>1, <2>2 DEF upsertCurrentMatch, At
  <2>4. \E n \in matches'[s.of] : n.current /\ n.identity = IdentityNow(s.of)
    BY <1>4, <2>1, <2>3
  <2>5. \A j \in Jobs \ {s.of} : matches'[j] = matches[j]
    BY <1>0, <2>1
  <2> QED BY <1>7, <1>8, <2>3, <2>4, <2>5
<1>14. ASSUME getJobEmbedding(w) \/ embedJob(w) \/ getResumeEmbedding(w) \/ embedResume(w)
       PROVE  /\ \E e \in Score : /\ scorer' = [scorer EXCEPT ![w] = e]
                                /\ e.step \in Named /\ e.of = s.of /\ e.identity = id
              /\ s.step \in Named /\ job' = job /\ matches' = matches
  <2>1. s.step \in Named /\ job' = job /\ matches' = matches
    BY <1>2, <1>14
    DEF getJobEmbedding, embedJob, getResumeEmbedding, embedResume, RestOfScore, At
  <2>2. scorer' \in [Workers -> Score \cup {Idle}]
    BY <1>14, ScoreTypeStep DEF Basis, ScoreNext, TypeOK
  <2>3. /\ scorer'[w].step \in Named /\ scorer'[w].of = s.of /\ scorer'[w].identity = id
        /\ scorer' = [scorer EXCEPT ![w] = scorer'[w]]
    <3>1. CASE getJobEmbedding(w) BY <1>0, <1>2, <3>1 DEF getJobEmbedding, Score
    <3>2. CASE embedJob(w) BY <1>0, <1>2, <3>2 DEF embedJob, Score
    <3>3. CASE getResumeEmbedding(w) BY <1>0, <1>2, <3>3 DEF getResumeEmbedding, Score
    <3>4. CASE embedResume(w) BY <1>0, <1>2, <3>4 DEF embedResume, Score
    <3> QED BY <1>14, <3>1, <3>2, <3>3, <3>4
  <2>4. scorer'[w] \in Score
    <3>1. Idle.step \notin Named
      BY InputNames DEF Idle, Named, Steps
    <3> QED BY <2>2, <2>3, <3>1
  <2> QED BY <2>1, <2>3, <2>4
<1>15. ASSUME getJobEmbedding(w) \/ embedJob(w) \/ getResumeEmbedding(w) \/ embedResume(w)
       PROVE  /\ Agrees(scorer[w])' /\ scorer'[w].of = s.of /\ job' = job /\ matches' = matches
              /\ \A v \in Workers \ {w} : scorer'[v] = scorer[v]
  BY <1>0, <1>3, <1>14, <1>15
<1> QED
  BY <1>5, <1>8, <1>9, <1>10, <1>11, <1>12, <1>13, <1>15 DEF ScoreNext

(* Lemma: the steps of a score leave the other jobs alone.                 *)
LEMMA OtherJobs ==
  ASSUME Basis, NEW w \in Workers, ScoreNext(w), NEW j \in Jobs, j # scorer[w].of
  PROVE  /\ job'[j] = job[j] /\ matches'[j] = matches[j]
         /\ scorer'[w] # Idle => scorer'[w].of = scorer[w].of
         /\ \A v \in Workers \ {w} : scorer'[v] = scorer[v]
         /\ UNCHANGED <<content, data, today, active, asked>>
<1> DEFINE s == scorer[w]
<1>0. /\ s \in Score /\ s # Idle /\ s.of \in Jobs /\ job \in [Jobs -> JobRow]
      /\ scorer \in [Workers -> Score \cup {Idle}] /\ matches \in [Jobs -> SUBSET Match]
  <2>1. s.step \in Steps
    BY InputNames DEF ScoreNext, ReadInput, ReadSpace, findMatchByIdentity, setCurrentMatch,
          getJobEmbedding, embedJob, getResumeEmbedding, embedResume, upsertCurrentMatch,
          At, Steps
  <2> QED BY <2>1, ScoreTyped DEF Score, Basis, TypeOK, JobRow
<1>1. /\ UNCHANGED <<content, data, today, active, asked>>
      /\ matches' = matches \/ \E rows : matches' = [matches EXCEPT ![s.of] = rows]
      /\ job' = job \/ \E r : job' = [job EXCEPT ![s.of] = r]
  BY DEF ScoreNext, ReadInput, ReadSpace, findMatchByIdentity, setCurrentMatch,
         getJobEmbedding, embedJob, getResumeEmbedding, embedResume, upsertCurrentMatch,
         RestOfScore, inputs, spaces, End
<1>2. job'[j] = job[j] /\ matches'[j] = matches[j]
  BY <1>0, <1>1
<1>3. ASSUME NEW well \in BOOLEAN, End(w, well)
      PROVE  scorer'[w] = Idle /\ \A v \in Workers \ {w} : scorer'[v] = scorer[v]
  BY <1>0, <1>3 DEF End
<1>4. CASE \E i \in DOMAIN Reads : ReadInput(w, i)
  BY <1>0, <1>1, <1>2, <1>4 DEF ReadInput, Score
<1>5. CASE ReadSpace(w)
  <2>1. CASE End(w, FALSE)
    BY <1>1, <1>2, <1>3, <2>1
  <2>2. CASE ~End(w, FALSE)
    <3> DEFINE e == [s EXCEPT !.step = "find", !.identity.space = active,
                              !.identity.day = MatchingDay(s.identity.read)]
    <3>1. scorer' = [scorer EXCEPT ![w] = e]
      BY <1>0, <1>5, <2>2 DEF ReadSpace
    <3>2. e.of = s.of
      BY <1>0 DEF Score
    <3> QED BY <1>0, <1>1, <1>2, <3>1, <3>2
  <2> QED BY <2>1, <2>2
<1>6. CASE findMatchByIdentity(w)
  BY ZenonT(60), <1>0, <1>1, <1>2, <1>3, <1>6 DEF findMatchByIdentity, GoTo, Score
<1>7. CASE setCurrentMatch(w) \/ upsertCurrentMatch(w)
  BY <1>1, <1>2, <1>3, <1>7 DEF setCurrentMatch, upsertCurrentMatch
<1>8. ASSUME NEW e, scorer' = [scorer EXCEPT ![w] = e], e.of = s.of
      PROVE  /\ scorer'[w] # Idle => scorer'[w].of = s.of
             /\ \A v \in Workers \ {w} : scorer'[v] = scorer[v]
  BY <1>0, <1>8
<1>9. CASE getJobEmbedding(w)
  <2> DEFINE cached == jobVectors[s.of][s.identity.space]
             hit == CacheHit(cached, s.identity.read["job"])
             e == [s EXCEPT !.step = IF hit THEN "resumeVector" ELSE "embedJob",
                            !.job = IF hit THEN cached ELSE NoVector]
  <2>1. e.of = s.of
    BY <1>0 DEF Score
  <2>2. scorer' = [scorer EXCEPT ![w] = e]
    BY <1>0, <1>9 DEF getJobEmbedding
  <2> QED BY <1>1, <1>2, <1>8, <2>1, <2>2
<1>10. CASE embedJob(w)
  BY <1>0, <1>1, <1>2, <1>10 DEF embedJob, Score
<1>11. CASE getResumeEmbedding(w)
  <2> DEFINE cached == resumeVectors[s.identity.read["resumes"]][s.identity.space]
             e == [s EXCEPT !.step = IF cached = NoVector THEN "embedResume" ELSE "upsert",
                            !.resume = cached]
  <2>1. e.of = s.of
    BY <1>0 DEF Score
  <2>2. scorer' = [scorer EXCEPT ![w] = e]
    BY <1>0, <1>11 DEF getResumeEmbedding
  <2> QED BY <1>1, <1>2, <1>8, <2>1, <2>2
<1>12. CASE embedResume(w)
  BY <1>0, <1>1, <1>2, <1>12 DEF embedResume, Score
<1> QED BY <1>4, <1>5, <1>6, <1>7, <1>9, <1>10, <1>11, <1>12 DEF ScoreNext

(* Lemma: every step keeps the promise to those who asked.                 *)
LEMMA FreshStep ==
  ASSUME Basis, Fresh, [Next]_vars
  PROVE  Fresh'
<1>0. /\ TypeOK /\ scorer \in [Workers -> Score \cup {Idle}] /\ job \in [Jobs -> JobRow]
      /\ asked \subseteq Jobs /\ matches \in [Jobs -> SUBSET Match]
  BY DEF Basis, TypeOK, JobRow
<1> SUFFICES ASSUME NEW j \in asked'
             PROVE  /\ \A w \in Workers : scorer'[w] # Idle /\ scorer'[w].of = j
                                         => Agrees(scorer[w])'
                    /\ job'[j] = NoJob => \E m \in matches'[j] :
                                            m.current /\ m.identity = IdentityNow(j)'
  BY DEF Fresh
<1>1. j \in Jobs
  BY TypeStep DEF TypeOK
(* The promise holds and what it is about stays. *)
<1>2. ASSUME j \in asked, Now(j)' = Now(j), IdentityNow(j)' = IdentityNow(j),
             matches'[j] = matches[j],
             \A w \in Workers : scorer'[w] = Idle \/ scorer'[w] = scorer[w],
             job'[j] = NoJob => job[j] = NoJob
      PROVE  /\ \A w \in Workers : scorer'[w] # Idle /\ scorer'[w].of = j
                                  => Agrees(scorer[w])'
             /\ job'[j] = NoJob => \E m \in matches'[j] :
                                     m.current /\ m.identity = IdentityNow(j)'
  BY <1>2 DEF Fresh, Agrees
<1>3. CASE \E k \in Jobs : EditJob(k)
  <2>1. PICK k \in Jobs : EditJob(k)
    BY <1>3
  <2>2. j \in asked /\ content'[j] = content[j]
    BY <1>0, <1>1, <2>1 DEF EditJob, TypeOK
  <2>3. UNCHANGED <<data, today, active, matches, scorer, job>>
    BY <2>1 DEF EditJob, RestOfEdit, spaces
  <2>4. Now(j)' = Now(j) /\ IdentityNow(j)' = IdentityNow(j)
    BY <2>2, <2>3 DEF Now, IdentityNow, MatchingDay
  <2> QED BY <1>2, <2>2, <2>3, <2>4
<1>4. CASE \/ \E p \in Edited \ {"job"} : EditCandidate(p)
           \/ NextDay
  BY <1>4 DEF EditCandidate, NextDay
<1>5. CASE \E s \in Spaces : ActivateSpace(s)
  <2>1. PICK s \in Spaces : ActivateSpace(s)
    BY <1>5
  <2>2. /\ j \in asked /\ UNCHANGED <<content, data, today, active>>
        /\ UNCHANGED <<matches, scorer, job>>
    BY <2>1 DEF ActivateSpace, inputs
  <2> QED BY <1>1, <1>2, <2>2, SameInputs
<1>6. CASE \E s \in Spaces : RestartWorker(s)
  <2>1. PICK s \in Spaces : RestartWorker(s)
    BY <1>6
  <2>2. /\ j \in asked /\ UNCHANGED <<content, data, today, active>> /\ matches' = matches
        /\ \A w \in Workers : scorer'[w] = Idle
    BY <2>1 DEF RestartWorker, inputs
  <2>3. job'[j] = NoJob => job[j] = NoJob
    BY <1>0, <1>1, <2>1 DEF RestartWorker, Redeliver, NoJob, JobRow
  <2> QED BY <1>1, <1>2, <2>2, <2>3, SameInputs
<1>7. CASE \E k \in Jobs : Enqueue(k)
  <2>1. PICK k \in Jobs : Enqueue(k)
    BY <1>7
  <2>2. UNCHANGED <<content, data, today, active>> /\ UNCHANGED <<matches, scorer>>
    BY <2>1 DEF Enqueue, inputs, spaces
  <2>3. job'[k] # NoJob /\ \A i \in Jobs \ {k} : job'[i] = job[i]
    BY <1>0, <2>1 DEF Enqueue, NoJob, JobRow
  <2>4. CASE j \in asked
    BY <1>1, <1>2, <2>2, <2>3, <2>4, SameInputs
  <2>5. CASE j \notin asked
    <3>1. j = k /\ ~Scoring(j)
      BY <2>1, <2>5 DEF Enqueue
    <3> QED BY <2>2, <2>3, <3>1 DEF Scoring
  <2> QED BY <2>4, <2>5
<1>8. CASE \E w \in Workers, k \in Jobs : TakeJob(w, k)
  <2>1. PICK w \in Workers, k \in Jobs : TakeJob(w, k)
    BY <1>8
  <2>2. UNCHANGED <<content, data, today, active>> /\ UNCHANGED <<matches, asked>>
    BY <2>1 DEF TakeJob, inputs, spaces
  <2>3. job'[j] = NoJob => job[j] = NoJob
    BY <1>0, <1>1, <2>1 DEF TakeJob, NoJob, JobRow
  <2>4. Agrees(scorer[w])'
    <3>1. scorer'[w].step = Reads[1]
      BY <1>0, <2>1 DEF TakeJob, Reads
    <3>2. ASSUME NEW i \in 1..6, scorer'[w].step = Reads[i] PROVE i = 1
      <4>1. 1 \in 1..6 /\ Reads[i] = Reads[1]
        BY <3>1, <3>2
      <4> QED BY <4>1, InputNames
    <3>3. scorer'[w].step \in Inputs /\ scorer'[w].step \notin Named
      BY <3>1, InputNames DEF Named
    <3> QED BY <3>2, <3>3 DEF Agrees
  <2>5. \A v \in Workers \ {w} : scorer'[v] = scorer[v]
    BY <1>0, <2>1 DEF TakeJob
  <2> QED BY SMTT(30), <1>1, <2>2, <2>3, <2>4, <2>5, SameInputs DEF Fresh, Agrees
<1>9. CASE \E w \in Workers : Throw(w)
  <2>1. PICK w \in Workers : Throw(w)
    BY <1>9
  <2>2. /\ UNCHANGED <<content, data, today, active>> /\ UNCHANGED <<matches, asked>>
        /\ End(w, FALSE) /\ scorer[w] # Idle
    BY <2>1 DEF Throw, inputs, spaces
  <2>3. job'[j] = NoJob => job[j] = NoJob
    BY <1>0, <1>1, <2>2, JobLeft
  <2>4. \A v \in Workers : scorer'[v] = Idle \/ scorer'[v] = scorer[v]
    BY <1>0, <2>2 DEF End
  <2> QED BY <1>1, <1>2, <2>2, <2>3, <2>4, SameInputs
<1>10. CASE \E w \in Workers : Stall(w)
  <2>1. PICK w \in Workers : Stall(w)
    BY <1>10
  <2>2. UNCHANGED <<content, data, today, active>> /\ UNCHANGED <<matches, asked>>
    BY <2>1 DEF Stall, inputs, spaces
  <2>3. scorer[w] \in Score /\ scorer[w] # Idle /\ scorer[w].of \in Jobs
    BY <1>0, <2>1, ScoreTyped DEF Stall, Score
  <2>4. job'[j] = NoJob => job[j] = NoJob
    BY <1>0, <1>1, <2>1, <2>3 DEF Stall, Redeliver, NoJob, JobRow
  <2>5. /\ scorer'[w].step = scorer[w].step /\ scorer'[w].identity = scorer[w].identity
        /\ scorer'[w].of = scorer[w].of
        /\ \A v \in Workers \ {w} : scorer'[v] = scorer[v]
    BY <1>0, <2>1, <2>3 DEF Stall, Score
  <2>6. ASSUME NEW v \in Workers, scorer'[v] # Idle, scorer'[v].of = j
        PROVE  Agrees(scorer[v])'
    <3>1. scorer[v] # Idle /\ scorer[v].of = j /\ Agrees(scorer[v])
      BY <2>2, <2>3, <2>5, <2>6 DEF Fresh
    <3>2. scorer'[v].step = scorer[v].step /\ scorer'[v].identity = scorer[v].identity
      BY <2>5
    <3>3. Now(j)' = Now(j) /\ IdentityNow(j)' = IdentityNow(j)
      BY <1>1, <2>2, SameInputs
    <3> QED BY <2>6, <3>1, <3>2, <3>3 DEF Agrees
  <2> QED BY <1>1, <2>2, <2>4, <2>6, SameInputs DEF Fresh
<1>11. CASE \E w \in Workers : ScoreNext(w)
  <2>1. PICK w \in Workers : ScoreNext(w)
    BY <1>11
  <2>2. CASE scorer[w].of = j /\ j \in asked
    <3>1. Agrees(scorer[w])
      <4>1. scorer[w] # Idle
        BY <1>0, <2>1, ScoreTyped, InputNames
        DEF ScoreNext, ReadInput, ReadSpace, findMatchByIdentity, setCurrentMatch,
            getJobEmbedding, embedJob, getResumeEmbedding, embedResume, upsertCurrentMatch,
            At, Steps
      <4> QED BY <2>2, <4>1 DEF Fresh
    <3>2. /\ scorer'[w] # Idle => Agrees(scorer[w])'
          /\ \A v \in Workers \ {w} : scorer'[v] = scorer[v]
          /\ UNCHANGED <<content, data, today, active>>
          /\ job'[j] = NoJob =>
                job[j] = NoJob \/ \E m \in matches'[j] : m.current /\ m.identity = IdentityNow(j)
          /\ \/ matches'[j] = matches[j]
             \/ \E m \in matches'[j] : m.current /\ m.identity = IdentityNow(j)
      BY <1>1, <2>1, <3>1, ScoreFreshStep
    <3>3. Now(j)' = Now(j) /\ IdentityNow(j)' = IdentityNow(j)
      BY <1>1, <3>2, SameInputs
    <3>4. ASSUME NEW v \in Workers, v # w, scorer'[v] # Idle, scorer'[v].of = j
          PROVE  Agrees(scorer[v])'
      BY SMTT(30), <2>2, <3>2, <3>3, <3>4 DEF Fresh, Agrees
    <3>5. job'[j] = NoJob => \E m \in matches'[j] : m.current /\ m.identity = IdentityNow(j)
      BY <2>2, <3>2 DEF Fresh
    <3> QED BY <3>2, <3>3, <3>4, <3>5
  <2>3. CASE scorer[w].of # j
    <3>1. /\ job'[j] = job[j] /\ matches'[j] = matches[j]
          /\ scorer'[w] # Idle => scorer'[w].of # j
          /\ \A v \in Workers \ {w} : scorer'[v] = scorer[v]
          /\ UNCHANGED <<content, data, today, active, asked>>
      BY <1>1, <2>1, <2>3, OtherJobs
    <3>2. Now(j)' = Now(j) /\ IdentityNow(j)' = IdentityNow(j)
      BY <1>1, <3>1, SameInputs
    <3>3. ASSUME NEW v \in Workers, scorer'[v] # Idle, scorer'[v].of = j
          PROVE  Agrees(scorer[v])'
      BY <3>1, <3>2, <3>3 DEF Fresh, Agrees
    <3> QED BY <3>1, <3>2, <3>3 DEF Fresh
  <2>4. asked' = asked
    BY <2>1 DEF ScoreNext, ReadInput, ReadSpace, findMatchByIdentity, setCurrentMatch,
           getJobEmbedding, embedJob, getResumeEmbedding, embedResume, upsertCurrentMatch,
           RestOfScore
  <2> QED BY <2>2, <2>3, <2>4
<1>12. CASE UNCHANGED vars
  BY <1>1, <1>2, <1>12, SameInputs DEF vars, inputs, spaces
<1> QED
  BY <1>3, <1>4, <1>5, <1>6, <1>7, <1>8, <1>9, <1>10, <1>11, <1>12 DEF Next

--------------------------------------------------------------------------------

(* Lemma: the initial states satisfy the invariant.                        *)
LEMMA InitIInv ==
  ASSUME Init
  PROVE  IInv
<1>1. TypeOK
  <2>1. job \in [Jobs -> JobRow] /\ data \in [Inputs \ {"job"} -> Versions]
    BY MatchingLimits, InputsAssumption DEF Init, NoJob, JobRow
  <2> QED BY <2>1, MatchingLimits, InputsAssumption, SpacesAssumption, DaysAssumption
          DEF Init, TypeOK, JobRow
<1> QED
  BY <1>1, SpacesAssumption
  DEF Init, IInv, Basis, ScoreOK, ScoreFits, OneCurrentMatch, SpacesUncontaminated,
      ResumeVectorsOK, VectorsAsIdentified, Fresh

(* Theorem: the invariant holds in every reachable state.                  *)
THEOREM Invariant == Spec => []IInv
<1>1. Init => IInv
  BY InitIInv
<1>2. IInv /\ [Next]_vars => IInv'
  <2> SUFFICES ASSUME IInv, [Next]_vars PROVE IInv'
    OBVIOUS
  <2>1. TypeOK'
    BY TypeStep DEF IInv
  <2>2. VectorInv'
    BY VectorStep DEF IInv, Basis, VectorInv
  <2>3. Fresh'
    BY FreshStep DEF IInv
  <2> QED BY <2>1, <2>2, <2>3 DEF IInv, Basis, VectorInv
<1> QED BY <1>1, <1>2, PTL DEF Spec

(* Theorem: every reachable state is well typed (score, job_match and the  *)
(* vector tables).                                                         *)
THEOREM TypeCorrect == Spec => []TypeOK
<1>1. IInv => TypeOK
  BY DEF IInv, Basis
<1> QED BY <1>1, Invariant, PTL

(* Theorem: one match of an identity, one current match of a job that was  *)
(* scored (setCurrentMatch, upsertCurrentMatch).                           *)
THEOREM OneMatchIsCurrent == Spec => []OneCurrentMatch
<1>1. IInv => OneCurrentMatch
  BY DEF IInv
<1> QED BY <1>1, Invariant, PTL

(* Theorem: no space holds a vector of another model                       *)
(* (embeddingRuntimeMatchesSpace, ensureJobEmbedding).                     *)
THEOREM SpacesStayPure == Spec => []SpacesUncontaminated
<1>1. IInv => SpacesUncontaminated
  BY DEF IInv
<1> QED BY <1>1, Invariant, PTL

(* Theorem: a match was computed from the vectors its identity names (the  *)
(* caches of ensureJobEmbedding and ensureResumeEmbedding).                *)
THEOREM VectorsAreIdentified == Spec => []VectorsAsIdentified
<1>1. IInv => VectorsAsIdentified
  BY DEF IInv
<1> QED BY <1>1, Invariant, PTL

(* Theorem: a recompute accepted while no job of its id is known and no    *)
(* scorer, not even one that BullMQ has given up, still runs for the job,  *)
(* and ended well with no edit since, leaves a current match of the inputs *)
(* as they are (score, POST recompute).                                    *)
THEOREM RecomputesAreFresh == Spec => []RecomputeIsFresh
<1>1. IInv => RecomputeIsFresh
  BY DEF IInv, Fresh, RecomputeIsFresh
<1> QED BY <1>1, Invariant, PTL


================================================================================
