--------------------------------- MODULE Claims ---------------------------------
(***************************************************************************)
(* What a document may say of the candidate (packages/documents): claims,  *)
(* their validation against the profile, and the sentence each one gets.   *)
(*                                                                         *)
(* A claim is a record of its kind and the fields its value has, None for  *)
(* one that is missing or of another type; plain tells a value that is a   *)
(* string and no record.  Claimed years are in hundredths: the code takes  *)
(* any number.  The years of a skill are in tenths, which is all its       *)
(* column keeps, and dates in months.  Texts are compared after            *)
(* normalizeFact, and stand here for what that leaves.                     *)
(***************************************************************************)
EXTENDS Experience

CONSTANT Now  \* the end that a claim gives as null

Kinds == {"years_experience", "date_range", "job_title", "company", "certification",
          "degree", "language_level", "salary", "project", "seniority"}

Verdicts == {"verified", "unverifiable", "rejected"}

VerifiedIf(condition) == IF condition THEN "verified" ELSE "rejected"

Reorderings(rows) ==
  {[i \in DOMAIN rows |-> rows[p[i]]] : p \in Injection(DOMAIN rows, DOMAIN rows)}

(* The role that started last comes first.                                 *)
LatestFirst(rows) ==
  CHOOSE s \in Reorderings(rows) : \A i, j \in DOMAIN s : i < j => s[i].start >= s[j].start

(* buildProfileFactsView: a profile's lists in the order of the view, the  *)
(* salary only on demand.                                                  *)
buildProfileFactsView(profile, includeSalary) ==
  [profile EXCEPT !.experiences = LatestFirst(@),
                  !.salary = IF includeSalary THEN @ ELSE None]

(* The first of the places, at which the loops of the validators stop.     *)
IsFirst(i, places) == i \in places /\ \A j \in places : i <= j

(* Claimed years against the months some role covers.                      *)
WithinMonths(years, facts, asOf) ==
  12 * years <= 100 * computeExperienceMonths(ToSet(facts.experiences), asOf)

--------------------------------------------------------------------------------
(* The validators *)

(* With a skill, the years that the first skill of this name or alias has. *)
validateYearsExperience(c, facts, asOf) ==
  VerifiedIf(
    /\ c.years # None /\ c.years >= 0 /\ c.years <= 8000
    /\ IF c.skill # None
         THEN \E i \in DOMAIN facts.skills :
                /\ IsFirst(i, {j \in DOMAIN facts.skills : c.skill \in facts.skills[j].names})
                /\ facts.skills[i].years # None /\ c.years <= 10 * facts.skills[i].years
         ELSE facts.experiences # <<>> /\ WithinMonths(c.years, facts, asOf))

(* end is Now when the value says null, and None when it is missing.       *)
SameRange(c, start, end) ==
  start = c.start /\ (IF end = None THEN Now ELSE end) = c.end

validateDateRange(c, facts) ==
  VerifiedIf(
    /\ c.start # None /\ c.end # None
    /\ \/ \E i \in DOMAIN facts.experiences :
            SameRange(c, facts.experiences[i].start, facts.experiences[i].end)
       \/ \E i \in DOMAIN facts.education :
            SameRange(c, facts.education[i].start, facts.education[i].end))

validateJobTitle(c, facts) ==
  VerifiedIf(\E i \in DOMAIN facts.experiences : facts.experiences[i].title = c.title)

validateCompany(c, facts) ==
  VerifiedIf(\E i \in DOMAIN facts.experiences : facts.experiences[i].company = c.company)

(* The status of the education is not looked at.                           *)
validateDegree(c, facts) ==
  VerifiedIf(\E i \in DOMAIN facts.education :
    /\ facts.education[i].degree = c.degree
    /\ c.institution # None => facts.education[i].institution = c.institution)

(* A bug the runs inject: one level more than the profile has will do.     *)
LevelWithin_Off(claimed, level) == LEVEL_ORDER[claimed] <= LEVEL_ORDER[level] + 1

LevelWithin(claimed, level) == LEVEL_ORDER[claimed] <= LEVEL_ORDER[level]

validateLanguageLevel(c, facts) ==
  VerifiedIf(
    /\ c.language # None /\ c.level # None
    /\ \E i \in DOMAIN facts.languages :
         /\ IsFirst(i, {j \in DOMAIN facts.languages : facts.languages[j].language = c.language})
         /\ LevelWithin(c.level, facts.languages[i].level))

Given(a, b) == IF a # None THEN a ELSE b

ClaimedAmount(c) == Given(c.amount, c.min)

(* The sentence makes do with the maximum.                                 *)
SaidAmount(c) == Given(ClaimedAmount(c), c.max)

validateSalary(c, facts) ==
  LET salary == facts.salary
      amount == ClaimedAmount(c) IN
  IF salary = None THEN "unverifiable"
  ELSE IF salary.min = None /\ salary.max = None THEN "unverifiable"
  ELSE IF c.plain THEN "rejected"
  ELSE IF c.currency = None \/ c.currency # salary.currency THEN "unverifiable"
  ELSE IF amount = None THEN "unverifiable"
  ELSE VerifiedIf(/\ salary.min # None => amount >= salary.min
                  /\ salary.max # None => amount <= salary.max)

validateClaim(c, facts, asOf) ==
  CASE c.kind = "years_experience" -> validateYearsExperience(c, facts, asOf)
    [] c.kind = "date_range" -> validateDateRange(c, facts)
    [] c.kind = "job_title" -> validateJobTitle(c, facts)
    [] c.kind = "company" -> validateCompany(c, facts)
    [] c.kind = "degree" -> validateDegree(c, facts)
    [] c.kind = "language_level" -> validateLanguageLevel(c, facts)
    [] c.kind = "salary" -> validateSalary(c, facts)
    [] c.kind \in {"certification", "project"} -> "rejected"
    [] c.kind = "seniority" -> "unverifiable"

(* A bug the runs inject: what cannot be verified is passed over.          *)
StatusOf_Lenient(verdicts) ==
  IF "rejected" \in verdicts THEN "rejected"
  ELSE IF verdicts = {"unverifiable"} THEN "unverifiable" ELSE "verified"

(* validateClaims: the status of the whole.                                *)
StatusOf(verdicts) ==
  IF "rejected" \in verdicts THEN "rejected"
  ELSE IF "unverifiable" \in verdicts THEN "unverifiable" ELSE "verified"

VerdictsOn(claims, facts, asOf) == {validateClaim(c, facts, asOf) : c \in claims}

validateClaims(claims, facts, asOf) == StatusOf(VerdictsOn(claims, facts, asOf))

(* validateAnswerContent: an answer without claims is never verified.      *)
validateAnswerContent(claims, facts, asOf) ==
  IF claims = {} THEN "unverifiable" ELSE validateClaims(claims, facts, asOf)

--------------------------------------------------------------------------------
(* The sentences *)

(* renderClaimSentence is not null.  Those of other kinds are rejected     *)
(* when a field their sentence needs is missing.                           *)
Renderable(c) ==
  CASE c.kind \in {"job_title", "company", "degree"} -> ~c.plain
    [] c.kind = "salary" -> ~c.plain /\ SaidAmount(c) # None /\ c.currency # None
    [] c.kind = "seniority" -> c.level # None
    [] OTHER -> TRUE

(* The years a sentence prints, in tenths: years.toFixed(1), the nearest   *)
(* one.  In the middle of two the binary fraction decides; the higher one  *)
(* is the one that could say too much.                                     *)
formatYears(years) == (years + 5) \div 10

Covered(facts, asOf) ==
  UNION {(r[1] + 1)..r[2] : r \in Ranges(ToSet(facts.experiences), asOf)}

Studies(c, facts) ==
  {e \in ToSet(facts.education) :
     e.degree = c.degree /\ c.institution \in {None, e.institution}}

(* What the sentence of a claim says is so by the profile: "I bring ...    *)
(* years", "I have worked as", "My experience spans", "I completed".  No   *)
(* fact backs a certification, a project or a seniority.                   *)
Holds(c, facts, asOf) ==
  CASE c.kind = "years_experience" ->
         IF c.skill # None
           THEN \E i \in DOMAIN facts.skills :
                  LET s == facts.skills[i] IN
                  c.skill \in s.names /\ s.years # None /\ formatYears(c.years) <= s.years
           ELSE 12 * formatYears(c.years) <= 10 * Cardinality(Covered(facts, asOf))
    [] c.kind = "date_range" ->
         \E e \in ToSet(facts.experiences) : SameRange(c, e.start, e.end)
    [] c.kind = "job_title" -> \E e \in ToSet(facts.experiences) : e.title = c.title
    [] c.kind = "company" -> \E e \in ToSet(facts.experiences) : e.company = c.company
    [] c.kind = "degree" -> \E e \in Studies(c, facts) : e.status = "completed"
    [] c.kind = "language_level" ->
         \E row \in ToSet(facts.languages) :
           row.language = c.language /\ LEVEL_ORDER[row.level] >= LEVEL_ORDER[c.level]
    [] c.kind = "salary" ->
         /\ facts.salary # None
         /\ facts.salary.currency = c.currency
         /\ facts.salary.min # None \/ facts.salary.max # None
         /\ LET said == SaidAmount(c) IN
            /\ said # None
            /\ facts.salary.min # None => said >= facts.salary.min
            /\ facts.salary.max # None => said <= facts.salary.max
    [] OTHER -> FALSE

(* What a sentence may say beyond that: years of at most half a tenth more *)
(* than the roles cover, the dates of an education as experience, and as   *)
(* completed a degree that is only begun.                                  *)
Overstates(c, facts, asOf) ==
  CASE c.kind = "years_experience" ->
         /\ c.skill = None
         /\ 12 * (10 * formatYears(c.years) - 5) <= 100 * Cardinality(Covered(facts, asOf))
    [] c.kind = "date_range" ->
         \E e \in ToSet(facts.education) : SameRange(c, e.start, e.end)
    [] c.kind = "degree" -> Studies(c, facts) # {}
    [] OTHER -> FALSE

(* The profile has a fact for the claim as it was made, not as a sentence  *)
(* would say it: the years before they are rounded, a degree of any status.*)
Backed(c, facts, asOf) ==
  CASE c.kind = "years_experience" ->
         IF c.skill # None
           THEN \E i \in DOMAIN facts.skills :
                  LET s == facts.skills[i] IN
                  c.skill \in s.names /\ s.years # None /\ c.years <= 10 * s.years
           ELSE 12 * c.years <= 100 * Cardinality(Covered(facts, asOf))
    [] c.kind \in {"date_range", "degree"} ->
         Holds(c, facts, asOf) \/ Overstates(c, facts, asOf)
    [] OTHER -> Holds(c, facts, asOf)

================================================================================
