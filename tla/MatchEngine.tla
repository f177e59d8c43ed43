------------------------------ MODULE MatchEngine ------------------------------
(***************************************************************************)
(* The match engine of packages/matching: what score, which resume and     *)
(* which missing requirements a candidate gets for a job.                  *)
(*                                                                         *)
(* Scores are in ten-thousandths, the engine's own precision, and weights  *)
(* in hundredths, so that a weight times a score is exact in millionths;   *)
(* times are in months.  Floating point is taken to be exact.  Texts are   *)
(* compared after normalizeForDedup, and stand here for what is left: a    *)
(* location for the countries it names, a title and a description for the  *)
(* category whose terms they hold, a resume for its similarity to the job. *)
(***************************************************************************)
EXTENDS Experience

(* None also stands for a category no term of the text belongs to.         *)
CONSTANTS Languages, \* the languages' canonical names
          TextOrder, \* the texts that name languages, in the order of the database
          Canonical  \* Canonical[text]: canonicalLanguage

Texts == {TextOrder[i] : i \in DOMAIN TextOrder}

ASSUME TextsAssumption ==
  TextOrder \in Seq(Texts) /\ IsInjective(TextOrder) /\ Canonical \in [Texts -> Languages]

One == 10000

(* Math.round of a quotient.                                               *)
RoundDiv(n, d) == (2 * n + d) \div (2 * d)

Clamp01(x) == IF x > One THEN One ELSE IF x < 0 THEN 0 ELSE x

Absent == [present |-> FALSE, score |-> 0]
Present(score) == [present |-> TRUE, score |-> score]

--------------------------------------------------------------------------------
(* Skills *)

(* The index: canonical names and aliases of the candidate's skills.       *)
SkillNames(skills) == UNION {s.aliases \cup {s.name} : s \in skills}

(* A bug the runs inject: the share of all the skills of either side.      *)
Share_OfBoth(a, b, names) ==
  RoundDiv(One * (7 * Cardinality(a \cap names) + 3 * Cardinality(b \cap names)),
           10 * Cardinality(a \cup b \cup names))

(* 0.7 of the share of a that is known and 0.3 of that of b.               *)
Share(a, b, names) ==
  RoundDiv(One * (7 * Cardinality(a \cap names) * Cardinality(b)
                  + 3 * Cardinality(b \cap names) * Cardinality(a)),
           10 * Cardinality(a) * Cardinality(b))

skillsMatch(job, skills) ==
  LET names == SkillNames(skills) IN
  IF job.required = {} /\ job.preferred = {} THEN Absent
  ELSE IF job.preferred = {} THEN Present(Share(job.required, job.required, names))
  ELSE IF job.required = {} THEN Present(Share(job.preferred, job.preferred, names))
  ELSE Present(Clamp01(Share(job.required, job.preferred, names)))

MissingSkills(job, skills) == job.required \ SkillNames(skills)

--------------------------------------------------------------------------------
(* Experience *)

MIN_YEARS_BY_LEVEL ==
  [intern |-> 0, junior |-> 0, mid |-> 2, senior |-> 5, lead |-> 8, principal |-> 10]

experienceMatch(job, experiences, asOf) ==
  IF job.level \in {None, "unknown"} \/ experiences = {} THEN Absent
  ELSE LET years == RoundDiv(One * computeExperienceMonths(experiences, asOf), 12)
           minimum == MIN_YEARS_BY_LEVEL[job.level]
       IN Present(IF minimum = 0 THEN One ELSE Clamp01(RoundDiv(years, minimum)))

--------------------------------------------------------------------------------
(* Location, salary, employment type *)

(* job.location is None or the set of the countries its text names.        *)
locationMatch(job, profile) ==
  LET comparable == job.location # None /\ profile.country # None IN
  IF job.remote = None /\ job.location = None THEN Absent
  ELSE IF job.remote = "remote" THEN
    IF profile.remote = {} THEN Absent
    ELSE Present(IF "remote" \in profile.remote THEN One ELSE 2000)
  ELSE IF comparable /\ profile.country \in job.location THEN Present(One)
  ELSE IF profile.relocation THEN Present(6000)
  ELSE IF comparable THEN Present(1000) ELSE Absent

LocationMissing(job, profile) == locationMatch(job, profile) = Present(1000)

Smaller(a, b) == IF a < b THEN a ELSE b
Larger(a, b) == IF a < b THEN b ELSE a

(* A salary is None or a range with a currency, which may be None.         *)
IsSalary(s) == s = None \/ {s.min, s.max} \subseteq Int

Lowest(s) == Smaller(s.min, s.max)
Highest(s) == Larger(s.min, s.max)

SalaryComparable(a, b) ==
  /\ a # None /\ b # None
  /\ a.currency = b.currency \/ a.currency = None \/ b.currency = None

salaryMatch(a, b) ==
  IF ~SalaryComparable(a, b) THEN Absent
  ELSE LET overlap == Larger(0, Smaller(Highest(a), Highest(b)) - Larger(Lowest(a), Lowest(b)))
           union == Larger(Highest(a), Highest(b)) - Smaller(Lowest(a), Lowest(b))
       IN Present(IF union <= 0 THEN One ELSE Clamp01(RoundDiv(One * overlap, union)))

SalaryMissing(job, profile) ==
  SalaryComparable(job.salary, profile.salary) /\ Highest(job.salary) < Lowest(profile.salary)

employmentTypeMatch(job, profile) ==
  IF job.employment = None \/ profile.employment = {} THEN Absent
  ELSE Present(IF job.employment \in profile.employment THEN One ELSE 0)

--------------------------------------------------------------------------------
(* Languages *)

(* The rows of candidate_language: [text, level].  The index is filled in  *)
(* the order of the rows, so of two texts for a language the last counts.  *)
LevelOf(languages, language) ==
  LET rows == {r \in languages : Canonical[r.text] = language}
      place(r) == CHOOSE i \in DOMAIN TextOrder : TextOrder[i] = r.text IN
  IF rows = {} THEN None
  ELSE (CHOOSE r \in rows : \A s \in rows : place(s) <= place(r)).level

(* A bug the runs inject: the level asked for is not enough.               *)
LevelTooLow_Off(level, wanted) == LEVEL_ORDER[level] + 1 < LEVEL_ORDER[wanted]

(* parseLanguageRequirement writes the level native as Native, which       *)
(* LEVEL_ORDER does not know: no level is lower than undefined.            *)
LevelTooLow(level, wanted) ==
  wanted # "native" /\ LEVEL_ORDER[level] < LEVEL_ORDER[wanted]

LanguageUnmet(requirement, languages) ==
  LET level == LevelOf(languages, requirement.language) IN
  level = None \/ (requirement.level # None /\ LevelTooLow(level, requirement.level))

(* The hard violations.                                                    *)
UnmetLanguages(job, languages) == {r \in job.languages : LanguageUnmet(r, languages)}

languageMatch(job, languages) ==
  IF job.languages = {} THEN Absent
  ELSE Present(Clamp01(RoundDiv(
         One * Cardinality(job.languages \ UnmetLanguages(job, languages)),
         Cardinality(job.languages))))

--------------------------------------------------------------------------------
(* Category and resume *)

(* The title first: a mention in the description does not override it.     *)
classifyJobCategory(job) ==
  IF job.titleCategory # None THEN job.titleCategory ELSE job.descriptionCategory

careerRelevance(category, resumes) ==
  IF category = None \/ resumes = {} THEN Absent
  ELSE Present(IF \E r \in resumes : r.category = category THEN One ELSE 3500)

(* Half for the category, 0.3 for the skills of the job the resume covers, *)
(* 0.2 for the similarity; over a common denominator.                      *)
ResumeScore(r, job, skills) ==
  LET wanted == job.required \cup job.preferred
      size == Cardinality(wanted)
      pool == IF r.skills # {} THEN r.skills ELSE {s.name : s \in skills}
      category == classifyJobCategory(job)
      similarity == IF r.similarity = None THEN 0 ELSE r.similarity IN
  IF wanted = {}
    THEN (IF category = r.category THEN 25000 ELSE 0) + 15000 + similarity
    ELSE size * (IF category = r.category THEN 25000 ELSE 0)
         + 15000 * Cardinality(wanted \cap pool) + size * similarity

(* A bug the runs inject: equal scores are left in the order of the list.  *)
ResumeBefore_ByScore(r, s, job, skills) ==
  ResumeScore(r, job, skills) >= ResumeScore(s, job, skills)

(* The comparator of the sort: score, then later version, then id.         *)
ResumeBefore(r, s, job, skills) ==
  LET x == ResumeScore(r, job, skills)
      y == ResumeScore(s, job, skills) IN
  x > y \/ (x = y /\ (r.version > s.version \/ (r.version = s.version /\ r.id <= s.id)))

(* The resumes that some order of the list can put first: only resumes     *)
(* with a version take part, which version 0 stands for not having.        *)
Selectable(resumes, job, skills) ==
  LET candidates == {r \in resumes : r.version > 0} IN
  {r \in candidates : \A s \in candidates : ResumeBefore(r, s, job, skills)}

Semantic(chosen) ==
  IF chosen = None THEN Absent
  ELSE IF chosen.similarity = None THEN Absent ELSE Present(chosen.similarity)

--------------------------------------------------------------------------------
(* The score *)

Weight == [skills |-> 25, experience |-> 15, location |-> 10, salary |-> 5, language |-> 10,
           employment |-> 5, semantic |-> 20, career |-> 10]

HARD_REQUIREMENT_CAP == 4900

(* candidate has profile, skills, languages, experiences and resumes.      *)
Signals(job, candidate, asOf, chosen) ==
  [skills |-> skillsMatch(job, candidate.skills),
   experience |-> experienceMatch(job, candidate.experiences, asOf),
   location |-> locationMatch(job, candidate.profile),
   salary |-> salaryMatch(job.salary, candidate.profile.salary),
   language |-> languageMatch(job, candidate.languages),
   employment |-> employmentTypeMatch(job, candidate.profile),
   semantic |-> Semantic(chosen),
   career |-> careerRelevance(classifyJobCategory(job), candidate.resumes)]

PresentIn(signals) == {n \in DOMAIN signals : signals[n].present}

Total(f) == f.skills + f.experience + f.location + f.salary + f.language
            + f.employment + f.semantic + f.career

Weighted(signals) ==
  [n \in DOMAIN Weight |-> IF signals[n].present THEN Weight[n] * signals[n].score ELSE 0]

(* A bug the runs inject: absent signals count as zero.                    *)
RawScore_AllWeights(signals) == RoundDiv(Total(Weighted(signals)), Total(Weight))

(* The weighted mean of the signals that are present.                      *)
RawScore(signals) ==
  LET weight == Total([n \in DOMAIN Weight |-> IF signals[n].present THEN Weight[n] ELSE 0])
  IN IF weight = 0 THEN 0 ELSE RoundDiv(Total(Weighted(signals)), weight)

(* Unmet languages cap the score; missing skills are only reported.        *)
runMatchEngine(job, candidate, asOf) ==
  LET winners == Selectable(candidate.resumes, job, candidate.skills)
      chosen == IF winners = {} THEN None ELSE CHOOSE r \in winners : TRUE
      signals == Signals(job, candidate, asOf, chosen)
      raw == RawScore(signals)
      unmet == UnmetLanguages(job, candidate.languages)
  IN [signals |-> signals,
      raw |-> raw,
      overall |-> IF unmet # {} THEN Smaller(raw, HARD_REQUIREMENT_CAP) ELSE raw,
      missing |-> [skills |-> MissingSkills(job, candidate.skills), languages |-> unmet,
                   location |-> LocationMissing(job, candidate.profile),
                   salary |-> SalaryMissing(job, candidate.profile)],
      resume |-> IF chosen = None THEN None ELSE chosen.id]

================================================================================
