--------------------------- MODULE CandidateProfile ---------------------------
(***************************************************************************)
(* The candidate's profile (candidate-repo.ts and the routes of            *)
(* profile.ts), its resumes, and the score the match engine gives the      *)
(* candidate for each job while the profile is edited.                     *)
(*                                                                         *)
(* A PUT of the profile reads the profile and then writes it; a POST of    *)
(* something nested reads the profile's id and then inserts.  Requests     *)
(* interleave between the two.  Nothing makes the profile unique: it is    *)
(* the oldest of the rows.                                                 *)
(***************************************************************************)
EXTENDS MatchEngine

CONSTANTS Jobs,           \* jobs the candidate is scored for
          Users,          \* requests in flight at the same time
          ProfileBodies,  \* bodies of PUT profile: what the engine reads of them
          Skills,         \* the catalogue: records of a name and aliases
          Spans,          \* bodies of POST experiences: records of a start and an end
          Levels,         \* levels of a language
          Originals,      \* resumes with the version that is uploaded for them
          AsOf,           \* the day of the score
          MaxRequests     \* bound on the requests

(* What the columns of a job and the schemas of the bodies allow.          *)
ASSUME JobsAssumption ==
  \A job \in Jobs :
    /\ IsFiniteSet(job.required) /\ IsFiniteSet(job.preferred) /\ IsFiniteSet(job.languages)
    /\ job.level \in DOMAIN MIN_YEARS_BY_LEVEL \cup {None, "unknown"}
    /\ IsSalary(job.salary)

ASSUME BodiesAssumption ==
  /\ AsOf \in Int /\ \A s \in Spans : s.start \in Int /\ s.end \in Int \cup {None}
  /\ \A p \in ProfileBodies : IsSalary(p.salary)
  /\ Levels \subseteq DOMAIN LEVEL_ORDER
  /\ \A r \in Originals :
       /\ {"id", "version", "similarity"} \subseteq DOMAIN r
       /\ r.id \in Int /\ r.version \in Nat /\ r.similarity \in Int \cup {None}

VARIABLES
  profiles,     \* the rows of candidate_profile, by createdAt
  skills,       \* the rows of candidate_skill
  experiences,  \* the rows of experience
  languages,    \* the rows of candidate_language
  resumes,      \* the rows of resume with their latest version
  user,         \* user[u]: the request it has begun
  requests      \* what MaxRequests bounds

nested == <<skills, experiences, languages, resumes>>
profileVars == <<profiles, nested, user, requests>>

NoRequest == [step |-> "idle"]

(* A row is a record of its owner, a profile by its place, and the rest.   *)
Row(Body) == {[owner |-> o, of |-> b] : o \in 1..Cardinality(Users), b \in Body}

LanguageBodies == [text : Texts, level : Levels]

ProfileInit ==
  /\ profiles = <<>>
  /\ skills = {} /\ experiences = {} /\ languages = {} /\ resumes = {}
  /\ user = [u \in Users |-> NoRequest]
  /\ requests = 0

(* A bug the runs inject: the newest profile is the profile.               *)
TheProfile_Newest == Len(profiles)

(* getProfile: the oldest row, 0 if there is none.  An insert is a single  *)
(* statement: the order of creation is that of the inserts.                *)
TheProfile == IF profiles = <<>> THEN 0 ELSE 1

EndRequest(u) == user' = [user EXCEPT ![u] = NoRequest]

--------------------------------------------------------------------------------
(* PUT profile *)

BeginPut(u) ==
  /\ user[u] = NoRequest /\ requests < MaxRequests
  /\ requests' = requests + 1
  /\ user' = [user EXCEPT ![u] = [step |-> "put", profile |-> TheProfile]]
  /\ UNCHANGED <<profiles, nested>>

(* upsertProfile inserts if it saw no profile, although there may be one.  *)
upsertProfile(u, body) ==
  /\ user[u].step = "put"
  /\ profiles' = IF user[u].profile = 0 THEN Append(profiles, body)
                 ELSE [profiles EXCEPT ![user[u].profile] = body]
  /\ EndRequest(u)
  /\ UNCHANGED <<nested, requests>>

--------------------------------------------------------------------------------
(* What belongs to the profile *)

(* requireProfileId: a 409 without a profile.                              *)
requireProfileId(u) ==
  /\ user[u] = NoRequest /\ requests < MaxRequests /\ TheProfile # 0
  /\ requests' = requests + 1
  /\ user' = [user EXCEPT ![u] = [step |-> "post", profile |-> TheProfile]]
  /\ UNCHANGED <<profiles, nested>>

NewRow(u, body) == [owner |-> user[u].profile, of |-> body]

(* The skill is found or made in the catalogue by the same transaction.    *)
addSkill(u, skill) ==
  /\ user[u].step = "post"
  /\ skills' = skills \cup {NewRow(u, skill)}
  /\ EndRequest(u)
  /\ UNCHANGED <<profiles, experiences, languages, resumes, requests>>

addExperience(u, span) ==
  /\ user[u].step = "post"
  /\ experiences' = experiences \cup {NewRow(u, span)}
  /\ EndRequest(u)
  /\ UNCHANGED <<profiles, skills, languages, resumes, requests>>

(* A bug the runs inject: the conflict is not looked for.                  *)
LanguagesWith_Both(row) == languages \cup {row}

(* On conflict of owner and text the level is set.                         *)
LanguagesWith(row) ==
  {r \in languages : r.owner # row.owner \/ r.of.text # row.of.text} \cup {row}

addLanguage(u, language) ==
  /\ user[u].step = "post"
  /\ languages' = LanguagesWith(NewRow(u, language))
  /\ EndRequest(u)
  /\ UNCHANGED <<profiles, skills, experiences, resumes, requests>>

(* createResume with a new id; its version is uploaded by another request. *)
createResume(u, resume) ==
  /\ user[u].step = "post"
  /\ \A row \in resumes : row.of.id # resume.id
  /\ resumes' = resumes \cup {NewRow(u, [resume EXCEPT !.version = 0])}
  /\ EndRequest(u)
  /\ UNCHANGED <<profiles, skills, experiences, languages, requests>>

(* The statements that take no id of a profile.                            *)
EditRows(rows, rest) ==
  /\ requests < MaxRequests /\ requests' = requests + 1
  /\ UNCHANGED <<profiles, rest, user>>

updateExperience(row, span) ==
  /\ experiences' = (experiences \ {row}) \cup {[row EXCEPT !.of = span]}
  /\ EditRows(experiences, <<skills, languages, resumes>>)

deleteExperience(row) ==
  /\ experiences' = experiences \ {row}
  /\ EditRows(experiences, <<skills, languages, resumes>>)

deleteSkill(row) ==
  /\ skills' = skills \ {row}
  /\ EditRows(skills, <<experiences, languages, resumes>>)

deleteLanguage(row) ==
  /\ languages' = languages \ {row}
  /\ EditRows(languages, <<skills, experiences, resumes>>)

(* createVersion: of two uploads at once the unique number fails one.      *)
UploadVersion(row) ==
  /\ \E r \in Originals :
       /\ r.id = row.of.id /\ r.version > row.of.version
       /\ resumes' = (resumes \ {row}) \cup {[row EXCEPT !.of = r]}
  /\ EditRows(resumes, <<skills, experiences, languages>>)

--------------------------------------------------------------------------------

ProfileNext ==
  \/ \E u \in Users :
       \/ BeginPut(u) \/ requireProfileId(u)
       \/ \E body \in ProfileBodies : upsertProfile(u, body)
       \/ \E skill \in Skills : addSkill(u, skill)
       \/ \E span \in Spans : addExperience(u, span)
       \/ \E language \in LanguageBodies : addLanguage(u, language)
       \/ \E resume \in Originals : createResume(u, resume)
  \/ \E row \in experiences :
       deleteExperience(row) \/ \E span \in Spans : updateExperience(row, span)
  \/ \E row \in skills : deleteSkill(row)
  \/ \E row \in languages : deleteLanguage(row)
  \/ \E row \in resumes : UploadVersion(row)

ProfileSpec == ProfileInit /\ [][ProfileNext]_profileVars

--------------------------------------------------------------------------------
(* The score *)

Owned(rows) == {r.of : r \in {q \in rows : q.owner = TheProfile}}

(* getCandidateMatchContext and listResumesWithLatestVersion.              *)
Candidate ==
  [profile |-> profiles[TheProfile], skills |-> Owned(skills),
   experiences |-> Owned(experiences), languages |-> Owned(languages),
   resumes |-> Owned(resumes)]

Result(job) == runMatchEngine(job, Candidate, AsOf)

--------------------------------------------------------------------------------
(* Properties *)

ProfileTypeOK ==
  /\ profiles \in Seq(ProfileBodies) /\ Len(profiles) <= Cardinality(Users)
  /\ skills \subseteq Row(Skills)
  /\ experiences \subseteq Row(Spans)
  /\ languages \subseteq Row(LanguageBodies)
  /\ \A r, s \in languages : r.owner = s.owner /\ r.of.text = s.of.text => r = s
  /\ resumes \subseteq Row(Originals \cup {[r EXCEPT !.version = 0] : r \in Originals})
  /\ \A r, s \in resumes : r.of.id = s.of.id => r = s
  /\ \A u \in Users : user[u].step \in {"idle", "put", "post"}
  /\ requests \in 0..MaxRequests

(* Everything the candidate adds belongs to the profile that is scored,    *)
(* also when the first two PUTs of the profile both insert one.            *)
NestedBelongsToProfile ==
  \A row \in skills \cup experiences \cup languages \cup resumes : row.owner = TheProfile

(* Experience is the time that some role covers: overlapping, nested,      *)
(* touching, reversed and open-ended roles count every month once, in      *)
(* whatever order roles that start together are listed.                    *)
ExperienceIsCovered ==
  LET ranges == Ranges(Owned(experiences), AsOf) IN
  \A order \in StartOrders(ranges) :
    MonthsInOrder(order) = Cardinality(UNION {(r[1] + 1)..r[2] : r \in ranges})

(* The properties of the score are stated while no request is in flight:  *)
(* a request changes what they are about when it ends.                     *)
AtRest == TheProfile # 0 /\ \A u \in Users : user[u] = NoRequest

(* The score before the cap lies between the worst and the best of the     *)
(* signals that are present: one that is absent is not a zero.             *)
ScoreIsMeanOfPresent ==
  AtRest =>
    \A job \in Jobs :
      LET result == Result(job)
          scores == {result.signals[n].score : n \in PresentIn(result.signals)} IN
      scores # {} => \E low, high \in scores : low <= result.raw /\ result.raw <= high

Reaches(row, requirement) ==
  /\ Canonical[row.text] = requirement.language
  /\ requirement.level = None \/ LEVEL_ORDER[row.level] >= LEVEL_ORDER[requirement.level]

(* A language the candidate does not have at the level the job asks for is *)
(* reported and caps the score.                                            *)
CappedWithout(levels) ==
  AtRest =>
    \A job \in Jobs :
      LET unmet == {r \in job.languages : /\ r.level \in levels
                                         /\ \A row \in Owned(languages) : ~Reaches(row, r)}
      IN unmet = {} \/ LET result == Result(job) IN
                         /\ result.overall <= HARD_REQUIREMENT_CAP
                         /\ unmet \subseteq result.missing.languages

(* For the levels of the CEFR, whatever rows name the language.            *)
UnmetLanguageIsCapped == CappedWithout({"A1", "A2", "B1", "B2", "C1", "C2", None})

(* For the level native, which the parser of requirements knows as well.   *)
UnmetNativeIsCapped == CappedWithout({"native"})

(* The recommended resume does not depend on the order of the list, and    *)
(* there is one as soon as a resume has a version.                         *)
OneResumeRecommended ==
  AtRest => \A job \in Jobs :
    Cardinality(Selectable(Owned(resumes), job, Owned(skills))) =
      IF \E r \in Owned(resumes) : r.version > 0 THEN 1 ELSE 0

(* Another skill of the catalogue never lowers the score for a job, as     *)
(* long as it does not change which resume is recommended.                 *)
SkillsNeverHurt ==
  AtRest =>
    \A job \in Jobs, skill \in Skills :
      LET before == Result(job)
          after == runMatchEngine(job, [Candidate EXCEPT !.skills = @ \cup {skill}], AsOf) IN
      after.resume = before.resume => after.overall >= before.overall

================================================================================
