------------------------------- MODULE Documents -------------------------------
(***************************************************************************)
(* The documents package makes the resume variant and the cover letter of  *)
(* an application and decides whether an approved answer may be given      *)
(* again (packages/documents), over a text provider (packages/ai).         *)
(*                                                                         *)
(* prepareCoverLetter asks the provider for a plan, a list of claims, at   *)
(* most twice.  The provider is external: it lists whatever claims it      *)
(* wants, gives none that fit the schema, or does not answer in time.  The *)
(* profile is edited meanwhile; a document is about the view of it that    *)
(* was taken when its preparation began.                                   *)
(***************************************************************************)
EXTENDS Claims

CONSTANTS Profiles,          \* profiles the candidate can have
          Offers,            \* claims a provider can list
          Today,             \* the day of the preparation
          maxRepairAttempts, \* factual repairs the policy asks for
          MaxClaims,         \* bound on the claims of a plan
          MaxEdits           \* bound on the edits of the profile

ASSUME RepairsAssumption == maxRepairAttempts \in Nat

(* The schema of a plan rejects a claim of any other kind; years that are  *)
(* no number are as good as missing.                                       *)
ASSUME OffersAssumption ==
  \A c \in Offers :
    /\ c.kind \in Kinds
    /\ c.kind = "years_experience" => c.years \in Int \cup {None}

(* The start of a role is not null; a skill has its years or null.         *)
ASSUME ProfilesAssumption ==
  /\ Today \in Int
  /\ \A p \in Profiles :
       /\ {"experiences", "salary", "skills"} \subseteq DOMAIN p
       /\ p.experiences \in Seq(ToSet(p.experiences))
       /\ \A e \in ToSet(p.experiences) : e.start \in Int /\ e.end \in Int \cup {None}
       /\ \A i \in DOMAIN p.skills : p.skills[i].years \in Int \cup {None}

VARIABLES
  profile,  \* the candidate's profile
  letter,   \* the preparation of the documents
  answer,   \* the answer that was resolved last
  edits     \* what MaxEdits bounds

vars == <<profile, letter, answer, edits>>

Idle == [step |-> "idle"]
Nothing == [kind |-> "nothing"]

Plans == UNION {[1..n -> Offers] : n \in 0..MaxClaims}

(* A bug the runs inject: the policy may ask for more.                     *)
maxAttempts_Policy == maxRepairAttempts

(* min(maxRepairAttempts ?? 1, 1): one repair whatever the policy says.    *)
maxAttempts == IF maxRepairAttempts > 1 THEN 1 ELSE maxRepairAttempts

Init ==
  /\ profile \in Profiles
  /\ letter = Idle
  /\ answer = Nothing
  /\ edits = 0

EditProfile ==
  /\ edits < MaxEdits /\ edits' = edits + 1
  /\ profile' \in Profiles \ {profile}
  /\ UNCHANGED <<letter, answer>>

--------------------------------------------------------------------------------
(* The resume variant *)

(* A bug the runs inject: the years are rounded to the nearest tenth.      *)
Years_Rounded(facts) == (10 * computeExperienceMonths(ToSet(facts.experiences), Today) + 6) \div 12

(* Tenths of years, rounded down.                                          *)
Years(facts) == (10 * computeExperienceMonths(ToSet(facts.experiences), Today)) \div 12

YearsClaim(facts) ==
  IF Years(facts) > 0
    THEN <<[kind |-> "years_experience", years |-> 10 * Years(facts), skill |-> None]>> ELSE <<>>

(* Beyond its one claim the variant lists what the profile has, reordered. *)
prepareResumeVariant(facts) ==
  [claims |-> YearsClaim(facts),
   status |-> validateClaims(ToSet(YearsClaim(facts)), facts, Today)]

--------------------------------------------------------------------------------
(* The cover letter *)

(* The view is without salary.  Times are those of Today when a role is    *)
(* open-ended; nothing depends on the day otherwise.                       *)
Begin ==
  LET view == buildProfileFactsView(profile, FALSE) IN
  /\ letter = Idle
  /\ letter' = [step |-> "ask", view |-> view, attempt |-> 0, last |-> "none",
                invalid |-> FALSE, failed |-> FALSE,
                variant |-> prepareResumeVariant(view), result |-> Nothing]
  /\ answer' = Nothing
  /\ UNCHANGED <<profile, edits>>

Asking == letter.step = "ask"

(* The loop goes on to the repair, or is over.                             *)
NextAttempt(l) ==
  IF l.attempt < maxAttempts THEN [l EXCEPT !.attempt = @ + 1] ELSE [l EXCEPT !.step = "decide"]

Finish(l, result) == [l EXCEPT !.step = "over", !.result = result]

(* The sentences, by the place of their claim: those of the claims that    *)
(* are not rejected.                                                       *)
draftFrom(plan, facts, by) ==
  [kind |-> "draft", by |-> by, claims |-> plan,
   says |-> {i \in DOMAIN plan :
               validateClaim(plan[i], facts, Today) # "rejected" /\ Renderable(plan[i])},
   status |-> validateClaims(ToSet(plan), facts, Today)]

(* Timeouts, refused connections, statuses that are not ok, no text.       *)
ProviderFails ==
  /\ Asking
  /\ letter' = NextAttempt([letter EXCEPT !.failed = TRUE])
  /\ UNCHANGED <<profile, answer, edits>>

(* No JSON, or JSON that is not of the schema.                             *)
InvalidOutput ==
  /\ Asking
  /\ letter' = NextAttempt([letter EXCEPT !.invalid = TRUE])
  /\ UNCHANGED <<profile, answer, edits>>

(* A bug the runs inject: claims without a sentence are left out.          *)
ClaimComplete_Always(plan, facts) == TRUE

(* Every claim that is not rejected has a sentence.                        *)
ClaimComplete(plan, facts) ==
  \A i \in DOMAIN plan :
    validateClaim(plan[i], facts, Today) = "rejected" \/ Renderable(plan[i])

PlanArrives(plan) ==
  LET status == validateClaims(ToSet(plan), letter.view, Today)
      seen == [letter EXCEPT !.last = status] IN
  /\ Asking
  /\ letter' = IF ~ClaimComplete(plan, letter.view)
                 THEN NextAttempt([seen EXCEPT !.invalid = TRUE])
               ELSE IF status = "rejected" THEN NextAttempt(seen)
               ELSE Finish(seen, draftFrom(plan, letter.view, "model"))
  /\ UNCHANGED <<profile, answer, edits>>

(* The template's claims: the years, then company and title of the first   *)
(* role, the one that started last.                                        *)
buildFallbackClaims(facts) ==
  IF facts.experiences = <<>> THEN <<>>
  ELSE LET latest == Head(facts.experiences) IN
       YearsClaim(facts) \o
         <<[kind |-> "company", company |-> latest.company, plain |-> FALSE],
           [kind |-> "job_title", title |-> latest.title, plain |-> FALSE]>>

RequiresHuman(reason) == [kind |-> "requires_human", reason |-> reason]

fallbackPreparation(facts) ==
  LET claims == buildFallbackClaims(facts) IN
  IF validateClaims(ToSet(claims), facts, Today) = "rejected"
    THEN RequiresHuman("fallback") ELSE draftFrom(claims, facts, "template")

(* A bug the runs inject: an attempt without an answer excuses the other.  *)
Decision_FailureFirst(l) ==
  IF l.failed THEN fallbackPreparation(l.view)
  ELSE IF l.last = "rejected" THEN RequiresHuman("rejected_claims")
  ELSE IF l.invalid THEN RequiresHuman("no_plan") ELSE fallbackPreparation(l.view)

(* After the loop.                                                         *)
Decision(l) ==
  IF l.last = "rejected" THEN RequiresHuman("rejected_claims")
  ELSE IF l.invalid /\ ~l.failed THEN RequiresHuman("no_plan")
  ELSE fallbackPreparation(l.view)

Decide ==
  /\ letter.step = "decide"
  /\ letter' = Finish(letter, Decision(letter))
  /\ UNCHANGED <<profile, answer, edits>>

(* The engine stores the result and another preparation can begin.         *)
Store ==
  /\ letter.step = "over"
  /\ letter' = Idle
  /\ UNCHANGED <<profile, answer, edits>>

--------------------------------------------------------------------------------
(* Answers *)

(* resolveAnswer of an approved answer with these claims: it is given      *)
(* again, or it is stale.  No approved answer takes a human.  Preparations *)
(* and answers share only the profile: one at a time is enough.            *)
resolveAnswer(claims) ==
  LET view == buildProfileFactsView(profile, TRUE) IN
  /\ letter = Idle
  /\ answer' = [kind |-> IF validateAnswerContent(claims, view, Today) = "verified"
                           THEN "reuse" ELSE "stale",
                claims |-> claims, view |-> view]
  /\ UNCHANGED <<profile, letter, edits>>

NoApprovedAnswer ==
  /\ letter = Idle
  /\ answer' = RequiresHuman("no_answer")
  /\ UNCHANGED <<profile, letter, edits>>

--------------------------------------------------------------------------------

Next ==
  \/ EditProfile
  \/ Begin \/ ProviderFails \/ InvalidOutput \/ Decide \/ Store
  \/ \E plan \in Plans : PlanArrives(plan)
  \/ \E plan \in Plans : resolveAnswer(ToSet(plan))
  \/ NoApprovedAnswer

Spec == Init /\ [][Next]_vars

--------------------------------------------------------------------------------
(* Properties *)

TypeOK ==
  /\ profile \in Profiles
  /\ letter # Idle =>
       /\ letter.step \in {"ask", "decide", "over"}
       /\ letter.attempt \in 0..1
       /\ letter.last \in Verdicts \cup {"none"}
       /\ letter.result.kind \in {"nothing", "draft", "requires_human"}
       /\ letter.step = "over" <=> letter.result # Nothing
  /\ answer.kind \in {"nothing", "reuse", "stale", "requires_human"}
  /\ edits \in 0..MaxEdits

Drafted == letter # Idle /\ letter.result.kind = "draft"
Said == {letter.result.claims[i] : i \in letter.result.says}

(* Whatever claims the model lists, a sentence of a letter is true of the  *)
(* profile it was made from, but for three things the code lets pass       *)
(* (Overstates) and for salaries and seniorities, and with those the       *)
(* letter does not count as verified.                                      *)
LetterSaysWhatHolds ==
  Drafted =>
    \A c \in Said : \/ Holds(c, letter.view, Today)
                    \/ Overstates(c, letter.view, Today)
                    \/ /\ letter.result.status = "unverifiable"
                       /\ c.kind \in {"salary", "seniority"}

(* A draft says all of its claims, none of them rejected.                  *)
NothingLeftOut == Drafted => letter.result.says = DOMAIN letter.result.claims

(* The template is for a provider that fails: what the model was last      *)
(* heard to say decides, and rejected claims go to a human.                *)
TemplateOnlyAfterFailure ==
  Drafted /\ letter.result.by = "template" => letter.failed /\ letter.last # "rejected"

(* The template and the variant of any profile are verified, of up to the  *)
(* 80 years that the validator takes: the years are never rounded up past  *)
(* what the roles cover.                                                   *)
TemplateIsVerified ==
  letter # Idle /\ Years(letter.view) <= 800 =>
    /\ letter.variant.status = "verified"
    /\ letter.result # RequiresHuman("fallback")
    /\ Drafted /\ letter.result.by = "template" => letter.result.status = "verified"

(* An answer is given again as it was approved: each of its claims has a   *)
(* fact in today's profile.  No sentence is made of them.                  *)
ReusedAnswerIsBacked ==
  answer.kind = "reuse" =>
    answer.claims # {} /\ \A c \in answer.claims : Backed(c, answer.view, Today)

(* A letter says, and an answer given again claims, nothing the profile    *)
(* does not have, but for what Overstates names.                           *)
NothingUnbackedIsSaid == LetterSaysWhatHolds /\ ReusedAnswerIsBacked

(* A degree the letter says was completed was.                             *)
DegreesAreCompleted ==
  Drafted /\ letter.result.status = "verified" =>
    \A c \in {d \in Said : d.kind = "degree"} :
      \E e \in ToSet(letter.view.education) : e.degree = c.degree /\ e.status = "completed"

(* The years a letter prints are years the profile has.                    *)
YearsAreNotRoundedUp ==
  Drafted => \A c \in Said : c.kind = "years_experience" => Holds(c, letter.view, Today)

(* What a letter calls experience is the time of a role.                   *)
SpansAreOfRoles ==
  Drafted => \A c \in Said : c.kind = "date_range" => Holds(c, letter.view, Today)

================================================================================
