------------------------------- MODULE Matching -------------------------------
(***************************************************************************)
(* Scoring jobs for the candidate: the match.score jobs of BullMQ, the     *)
(* workers that run score (matching-service.ts), the matches and vectors   *)
(* they write (matching-repo.ts), the embedding spaces with their          *)
(* activation, and the edits of the job, the profile and the resumes that  *)
(* happen while a score is computed.                                       *)
(*                                                                         *)
(* A score reads its inputs one select after the other, names them by an   *)
(* identity hash and looks for a match of that identity before it computes *)
(* one.  Nothing keeps the inputs from changing meanwhile, and nothing but *)
(* the id of the BullMQ job keeps two scorers of one job apart.  What the  *)
(* engine computes from the inputs is the subject of MatchEngine.tla.      *)
(***************************************************************************)
EXTENDS Naturals, Sequences, FiniteSets

CONSTANTS Jobs,          \* jobs of the one candidate
          Workers,       \* scorers that can run at the same time
          Spaces,        \* embedding spaces: provider, model, dimensions, version
          ModelOf,       \* ModelOf[s]: provider, model and dimensions of space s
          FirstSpace,    \* the space of the worker's first start, which made it active
          ApiSpace,      \* the space the API is configured for
          Versions,      \* contents an input can have, numbered
          Edited,        \* the inputs that the users and the ingest edit
          OpenEnded,     \* experiences of which one has no end date
          Days,          \* the days the clock goes through
          Attempts,      \* attempts of a job
          MaxEdits,      \* bound on the edits
          MaxRestarts,   \* bound on the restarts of the worker process
          MaxStalls,     \* bound on the workers BullMQ loses sight of
          NoSpace, NoDay, NoVector  \* null values

(* The selects of score, in their order: getMatchJob, the four of          *)
(* getCandidateMatchContext and listResumesWithLatestVersion.              *)
Reads == <<"job", "profile", "skills", "languages", "experiences", "resumes">>
Inputs == {Reads[i] : i \in DOMAIN Reads}

ASSUME SpacesAssumption == {FirstSpace, ApiSpace} \subseteq Spaces /\ NoSpace \notin Spaces
ASSUME InputsAssumption == /\ Edited \subseteq Inputs /\ OpenEnded \subseteq Versions
                           /\ Versions \subseteq Nat /\ 0 \in Versions
ASSUME DaysAssumption == Days \subseteq Nat /\ 0 \in Days /\ NoDay \notin Days
ASSUME MatchingLimits ==
  Attempts \in Nat \ {0} /\ {MaxEdits, MaxRestarts, MaxStalls} \subseteq Nat

VARIABLES
  content,   \* content[j]: the content of job j
  data,      \* data[p]: the other inputs
  today,     \* the day of the clock
  known, active,  \* the rows of embedding_space, and the active one
  runtime,   \* runtime[p]: the space process p is configured for
  jobVectors, resumeVectors,  \* the rows of job_embedding and resume_embedding
  matches,   \* matches[j]: the rows of job_match
  job,       \* job[j]: the BullMQ job match-j-<engine version>
  scorer,    \* scorer[w]: the score worker w computes
  edits, restarts, stalls,  \* what the bounds bound
  asked      \* history: jobs with a request since the inputs last changed that
             \* was accepted when no scorer of the job was running

inputs == <<content, data, today>>
spaces == <<known, active, runtime>>
vectors == <<jobVectors, resumeVectors>>
counters == <<edits, restarts, stalls>>
vars == <<inputs, spaces, vectors, matches, job, scorer, counters, asked>>

--------------------------------------------------------------------------------
(* Data *)

Vector == [of : Versions, model : {ModelOf[s] : s \in Spaces}]

(* What computeIdentityHash hashes; engine and weights have one version,   *)
(* and two contents of an input with the same hash are the same content.   *)
Identity == [read : [Inputs -> Versions], space : Spaces \cup {NoSpace},
             day : Days \cup {NoDay}]

(* A row of job_match.  The score follows from the identity but for the    *)
(* vectors, so the row tells which vectors it was computed from.           *)
Match == [identity : Identity, job : Vector \cup {NoVector},
          resume : Vector \cup {NoVector}, current : BOOLEAN]

NoJob == [state |-> "none", attempt |-> 0, stalled |-> FALSE]
InFlight(j) == job[j].state \in {"waiting", "active"}

Idle == [step |-> "idle"]

Steps == Inputs \cup {"space", "find", "makeCurrent", "jobVector", "embedJob",
                      "resumeVector", "embedResume", "upsert"}

(* A score under way; mine tells whether BullMQ still counts on it.        *)
Score == [step : Steps, of : Jobs, mine : BOOLEAN, identity : Identity,
          job : Vector \cup {NoVector}, resume : Vector \cup {NoVector}]

NothingRead == [read |-> [p \in Inputs |-> 0], space |-> NoSpace, day |-> NoDay]

(* The inputs of job j as they are now.                                    *)
Now(j) == [p \in Inputs |-> IF p = "job" THEN content[j] ELSE data[p]]

(* hasOpenEnded: only then does the score depend on the day.               *)
MatchingDay(read) == IF read["experiences"] \in OpenEnded THEN today ELSE NoDay

IdentityNow(j) == [read |-> Now(j), space |-> active, day |-> MatchingDay(Now(j))]

Init ==
  /\ content = [j \in Jobs |-> 0]
  /\ data = [p \in Inputs \ {"job"} |-> 0]
  /\ today = 0
  /\ runtime = [p \in {"api", "worker"} |-> IF p = "api" THEN ApiSpace ELSE FirstSpace]
  /\ known = {FirstSpace} /\ active = FirstSpace
  /\ jobVectors = [j \in Jobs |-> [s \in Spaces |-> NoVector]]
  /\ resumeVectors = [v \in Versions |-> [s \in Spaces |-> NoVector]]
  /\ matches = [j \in Jobs |-> {}]
  /\ job = [j \in Jobs |-> NoJob]
  /\ scorer = [w \in Workers |-> Idle]
  /\ edits = 0 /\ restarts = 0 /\ stalls = 0
  /\ asked = {}

--------------------------------------------------------------------------------
(* The inputs change *)

RestOfEdit == <<spaces, vectors, matches, job, scorer, restarts, stalls>>

EditJob(j) ==
  /\ "job" \in Edited /\ edits < MaxEdits
  /\ \E v \in Versions \ {content[j]} : content' = [content EXCEPT ![j] = v]
  /\ edits' = edits + 1
  /\ asked' = asked \ {j}
  /\ UNCHANGED <<data, today, RestOfEdit>>

(* Versions of a resume are immutable: an edit adds a later one.           *)
EditCandidate(p) ==
  /\ edits < MaxEdits
  /\ \E v \in Versions \ {data[p]} :
       (p = "resumes" => v > data[p]) /\ data' = [data EXCEPT ![p] = v]
  /\ edits' = edits + 1
  /\ asked' = {}
  /\ UNCHANGED <<content, today, RestOfEdit>>

NextDay ==
  /\ today + 1 \in Days
  /\ today' = today + 1
  /\ asked' = {}
  /\ UNCHANGED <<content, data, edits, RestOfEdit>>

--------------------------------------------------------------------------------
(* Embedding spaces *)

(* A bug the runs inject: vectors of any model go into any space.          *)
Compatible_Always(s, p) == TRUE

(* embeddingRuntimeMatchesSpace: the version does not count.               *)
Compatible(s, p) == ModelOf[s] = ModelOf[runtime[p]]

(* POST activate: the transaction takes no lock, but a second one that     *)
(* overlaps fails at the unique index of the active space.                 *)
ActivateSpace(s) ==
  /\ s \in known /\ Compatible(s, "api")
  /\ active' = s
  /\ asked' = IF active = s THEN asked ELSE {}
  /\ UNCHANGED <<inputs, known, runtime, vectors, matches, job, scorer, counters>>

(* The worker starts: ensureEmbeddingSpace.                                *)
ensureEmbeddingSpace(s) ==
  /\ known' = known \cup {s}
  /\ active' = IF active = NoSpace THEN s ELSE active

(* BullMQ delivers a job again whose worker is gone, once.                 *)
Redeliver(j) == IF j.stalled THEN [j EXCEPT !.state = "failed"]
                ELSE [j EXCEPT !.state = "waiting", !.stalled = TRUE]

(* A crash or a new configuration; the scorers of the process die.         *)
RestartWorker(s) ==
  /\ restarts < MaxRestarts
  /\ restarts' = restarts + 1
  /\ runtime' = [runtime EXCEPT !["worker"] = s]
  /\ ensureEmbeddingSpace(s)
  /\ scorer' = [w \in Workers |-> Idle]
  /\ job' = [j \in Jobs |-> IF \E w \in Workers : scorer[w] # Idle /\ scorer[w].mine
                                                  /\ scorer[w].of = j
                            THEN Redeliver(job[j]) ELSE job[j]]
  /\ asked' = IF active' = active THEN asked ELSE {}
  /\ UNCHANGED <<inputs, vectors, matches, edits, stalls>>

--------------------------------------------------------------------------------
(* The queue *)

Scoring(j) == \E w \in Workers : scorer[w] # Idle /\ scorer[w].of = j

(* POST match, POST recompute for each of its jobs, and the handler of     *)
(* ingest.source for each new job: add ignores an id it knows, and it      *)
(* knows the id of a failed job, since only removeOnComplete is set.       *)
Enqueue(j) ==
  /\ job' = [job EXCEPT ![j] = IF @ = NoJob THEN [@ EXCEPT !.state = "waiting", !.attempt = 1]
                                            ELSE @]
  /\ asked' = IF Scoring(j) THEN asked ELSE asked \cup {j}
  /\ UNCHANGED <<inputs, spaces, vectors, matches, scorer, counters>>

TakeJob(w, j) ==
  /\ scorer[w] = Idle /\ job[j].state = "waiting"
  /\ job' = [job EXCEPT ![j].state = "active"]
  /\ scorer' = [scorer EXCEPT ![w] =
       [step |-> "job", of |-> j, mine |-> TRUE, identity |-> NothingRead,
        job |-> NoVector, resume |-> NoVector]]
  /\ UNCHANGED <<inputs, spaces, vectors, matches, counters, asked>>

(* A bug the runs inject: a job that throws is retried for ever.           *)
Retry_Always(j) == [j EXCEPT !.state = "waiting", !.attempt = @ + 1]

Retry(j) == IF j.attempt < Attempts THEN [j EXCEPT !.state = "waiting", !.attempt = @ + 1]
                                    ELSE [j EXCEPT !.state = "failed"]

End(w, well) ==
  /\ scorer' = [scorer EXCEPT ![w] = Idle]
  /\ job' = IF ~scorer[w].mine THEN job
            ELSE [job EXCEPT ![scorer[w].of] = IF well THEN NoJob ELSE Retry(@)]

(* Any await throws, the provider's included.                              *)
Throw(w) ==
  /\ scorer[w] # Idle
  /\ End(w, FALSE)
  /\ UNCHANGED <<inputs, spaces, vectors, matches, counters, asked>>

(* BullMQ loses sight of a worker that goes on all the same.               *)
Stall(w) ==
  /\ scorer[w] # Idle /\ scorer[w].mine /\ stalls < MaxStalls
  /\ stalls' = stalls + 1
  /\ scorer' = [scorer EXCEPT ![w].mine = FALSE]
  /\ job' = [job EXCEPT ![scorer[w].of] = Redeliver(@)]
  /\ UNCHANGED <<inputs, spaces, vectors, matches, edits, restarts, asked>>

--------------------------------------------------------------------------------
(* score *)

At(w, step) == scorer[w].step = step
GoTo(w, step) == scorer' = [scorer EXCEPT ![w].step = step]
NextRead(i) == IF i = Len(Reads) THEN "space" ELSE Reads[i + 1]

RestOfScore == <<inputs, spaces, counters, asked>>

ReadInput(w, i) ==
  /\ At(w, Reads[i])
  /\ scorer' = [scorer EXCEPT ![w].step = NextRead(i),
                              ![w].identity.read[Reads[i]] = Now(scorer[w].of)[Reads[i]]]
  /\ UNCHANGED <<vectors, matches, job, RestOfScore>>

(* getActiveEmbeddingSpace: a space of another model is refused before     *)
(* anything is written.  The clock is read with no await in between.       *)
ReadSpace(w) ==
  /\ At(w, "space")
  /\ IF active # NoSpace /\ ~Compatible(active, "worker")
       THEN End(w, FALSE)
       ELSE /\ scorer' = [scorer EXCEPT ![w].step = "find",
                 ![w].identity.space = active,
                 ![w].identity.day = MatchingDay(scorer[w].identity.read)]
            /\ UNCHANGED job
  /\ UNCHANGED <<vectors, matches, RestOfScore>>

Same(w) == {m \in matches[scorer[w].of] : m.identity = scorer[w].identity}

(* A bug the runs inject: a match that is found is left as it is.          *)
FoundNext_Nothing(w) == "done"

(* What score does after findMatchByIdentity.                              *)
FoundNext(w) ==
  IF \E m \in Same(w) : m.current THEN "done"
  ELSE IF Same(w) # {} THEN "makeCurrent"
  ELSE IF scorer[w].identity.space = NoSpace THEN "upsert" ELSE "jobVector"

findMatchByIdentity(w) ==
  /\ At(w, "find")
  /\ IF FoundNext(w) = "done" THEN End(w, TRUE)
                              ELSE GoTo(w, FoundNext(w)) /\ UNCHANGED job
  /\ UNCHANGED <<vectors, matches, RestOfScore>>

(* A bug the runs inject: the current match is not unset.                  *)
MakeCurrent_Only(rows, m) == (rows \ {m}) \cup {[m EXCEPT !.current = TRUE]}

(* One transaction under the lock of job and candidate.                    *)
MakeCurrent(rows, m) ==
  {[n EXCEPT !.current = FALSE] : n \in rows \ {m}} \cup {[m EXCEPT !.current = TRUE]}

setCurrentMatch(w) ==
  /\ At(w, "makeCurrent")
  /\ \E m \in Same(w) :
       matches' = [matches EXCEPT ![scorer[w].of] = MakeCurrent(@, m)]
  /\ End(w, TRUE)
  /\ UNCHANGED <<vectors, RestOfScore>>

(* A bug the runs inject: a vector of an older text is a cache hit.        *)
CacheHit_Any(vector, of) == vector # NoVector

CacheHit(vector, of) == vector # NoVector /\ vector.of = of

(* ensureJobEmbedding: the cache ...                                       *)
getJobEmbedding(w) ==
  LET id == scorer[w].identity
      cached == jobVectors[scorer[w].of][id.space] IN
  /\ At(w, "jobVector")
  /\ scorer' = [scorer EXCEPT
       ![w].step = IF CacheHit(cached, id.read["job"]) THEN "resumeVector" ELSE "embedJob",
       ![w].job = IF CacheHit(cached, id.read["job"]) THEN cached ELSE NoVector]
  /\ UNCHANGED <<vectors, matches, job, RestOfScore>>

(* ... or the provider, whose vector overwrites the one in the cache.      *)
Embed(of) == [of |-> of, model |-> ModelOf[runtime["worker"]]]

embedJob(w) ==
  LET vector == Embed(scorer[w].identity.read["job"]) IN
  /\ At(w, "embedJob")
  /\ jobVectors' = [jobVectors EXCEPT ![scorer[w].of][scorer[w].identity.space] = vector]
  /\ scorer' = [scorer EXCEPT ![w].step = "resumeVector", ![w].job = vector]
  /\ UNCHANGED <<resumeVectors, matches, job, RestOfScore>>

(* ensureResumeEmbedding, whose cache is keyed by the version.             *)
getResumeEmbedding(w) ==
  LET id == scorer[w].identity
      cached == resumeVectors[id.read["resumes"]][id.space] IN
  /\ At(w, "resumeVector")
  /\ scorer' = [scorer EXCEPT
       ![w].step = IF cached = NoVector THEN "embedResume" ELSE "upsert",
       ![w].resume = cached]
  /\ UNCHANGED <<vectors, matches, job, RestOfScore>>

embedResume(w) ==
  LET version == scorer[w].identity.read["resumes"] IN
  /\ At(w, "embedResume")
  /\ resumeVectors' =
       [resumeVectors EXCEPT ![version][scorer[w].identity.space] = Embed(version)]
  /\ scorer' = [scorer EXCEPT ![w].step = "upsert", ![w].resume = Embed(version)]
  /\ UNCHANGED <<jobVectors, matches, job, RestOfScore>>

(* upsertCurrentMatch, one transaction under the same lock as              *)
(* setCurrentMatch: a row of the identity, if another scorer has written   *)
(* one, is made current and not written twice.                             *)
upsertCurrentMatch(w) ==
  LET j == scorer[w].of
      new == [identity |-> scorer[w].identity, job |-> scorer[w].job,
              resume |-> scorer[w].resume, current |-> TRUE] IN
  /\ At(w, "upsert")
  /\ \E m \in (IF Same(w) = {} THEN {new} ELSE Same(w)) :
       matches' = [matches EXCEPT ![j] = MakeCurrent(@, m)]
  /\ End(w, TRUE)
  /\ UNCHANGED <<vectors, RestOfScore>>

--------------------------------------------------------------------------------

ScoreNext(w) ==
  \/ \E i \in DOMAIN Reads : ReadInput(w, i)
  \/ ReadSpace(w)
  \/ findMatchByIdentity(w)
  \/ setCurrentMatch(w)
  \/ getJobEmbedding(w)
  \/ embedJob(w)
  \/ getResumeEmbedding(w)
  \/ embedResume(w)
  \/ upsertCurrentMatch(w)

Next ==
  \/ \E j \in Jobs : EditJob(j) \/ Enqueue(j)
  \/ \E p \in Edited \ {"job"} : EditCandidate(p)
  \/ NextDay
  \/ \E s \in Spaces : ActivateSpace(s) \/ RestartWorker(s)
  \/ \E w \in Workers, j \in Jobs : TakeJob(w, j)
  \/ \E w \in Workers : ScoreNext(w) \/ Throw(w) \/ Stall(w)

Spec == Init /\ [][Next]_vars

--------------------------------------------------------------------------------
(* Properties *)

TypeOK ==
  /\ content \in [Jobs -> Versions]
  /\ data \in [Inputs \ {"job"} -> Versions]
  /\ today \in Days
  /\ known \in SUBSET Spaces /\ active \in known \cup {NoSpace}
  /\ runtime \in [{"api", "worker"} -> Spaces]
  /\ jobVectors \in [Jobs -> [Spaces -> Vector \cup {NoVector}]]
  /\ resumeVectors \in [Versions -> [Spaces -> Vector \cup {NoVector}]]
  /\ matches \in [Jobs -> SUBSET Match]
  /\ job \in [Jobs -> [state : {"none", "waiting", "active", "failed"},
                       attempt : 0..Attempts, stalled : BOOLEAN]]
  /\ scorer \in [Workers -> Score \cup {Idle}]
  /\ edits \in 0..MaxEdits /\ restarts \in 0..MaxRestarts /\ stalls \in 0..MaxStalls
  /\ asked \in SUBSET Jobs

(* Matches M1 and M4: however scorers of one job overlap, an identity has  *)
(* one row, and a job that has been scored has exactly one current match.  *)
OneCurrentMatch ==
  \A j \in Jobs :
    /\ \A m, n \in matches[j] : m.identity = n.identity => m = n
    /\ \A m, n \in matches[j] : m.current /\ n.current => m = n
    /\ matches[j] # {} => \E m \in matches[j] : m.current

(* A space never holds a vector of another model, across restarts with     *)
(* another provider and activations that overlap with scorers.             *)
SpacesUncontaminated ==
  \A s \in Spaces :
    /\ \A j \in Jobs : jobVectors[j][s] # NoVector => jobVectors[j][s].model = ModelOf[s]
    /\ \A v \in Versions :
         resumeVectors[v][s] # NoVector => resumeVectors[v][s].model = ModelOf[s]

(* A match was computed from vectors of the very texts and the space its   *)
(* identity names: the cache, which other scorers overwrite meanwhile,     *)
(* never hands out a vector of another content.                            *)
VectorsAsIdentified ==
  \A j \in Jobs : \A m \in matches[j] :
    m.identity.space # NoSpace =>
      /\ m.job = [of |-> m.identity.read["job"], model |-> ModelOf[m.identity.space]]
      /\ m.resume = [of |-> m.identity.read["resumes"], model |-> ModelOf[m.identity.space]]

(* A request that is accepted when no job of its id is known and no scorer *)
(* of the job still runs (one that BullMQ has given up could write last),  *)
(* with no input changed since, ends with a current match of the inputs as *)
(* they are, also when the inputs are those of an older match, when BullMQ *)
(* delivers the job twice, or when the worker is restarted.                *)
RecomputeIsFresh ==
  \A j \in asked :
    job[j] = NoJob => \E m \in matches[j] : m.current /\ m.identity = IdentityNow(j)

(* Never blocked: a request for a score leaves the job in the queue, or    *)
(* finds it there.                                                         *)
RecomputeNeverBlocked == [][\A j \in Jobs : Enqueue(j) => InFlight(j)']_vars

================================================================================
