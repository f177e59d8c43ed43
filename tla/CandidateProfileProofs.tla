-------------------------- MODULE CandidateProfileProofs --------------------------
(***************************************************************************)
(* What holds of CandidateProfile for every number of requests in flight   *)
(* and every body they send.                                               *)
(***************************************************************************)
EXTENDS CandidateProfile, DocumentsProofs, SequenceTheorems

Rows == skills \cup experiences \cup languages \cup resumes

(* A PUT holds what it read of the profile, 0 or the first row; a POST the *)
(* first row, as it only gets past requireProfileId when there is one.     *)
RequestOK(r) ==
  \/ r = NoRequest
  \/ r \in [step : {"put"}, profile : {0}]
  \/ r \in [step : {"put", "post"}, profile : {1}] /\ profiles # <<>>

(* A row of the first profile.                                             *)
IsFirsts(row) == row = [owner |-> 1, of |-> row.of]

(* Rows are of the first profile, and profiles are never removed.          *)
ProfileInv ==
  /\ profiles \in Seq(ProfileBodies)
  /\ DOMAIN user = Users
  /\ \A u \in Users : RequestOK(user[u])
  /\ \A row \in Rows : IsFirsts(row) /\ profiles # <<>>

(* Lemma: a change of the rows keeps the invariant as long as it only adds *)
(* rows of the first profile, after there is one, and requests end.        *)
LEMMA RowsChange ==
  ASSUME ProfileInv, profiles' = profiles, DOMAIN user' = Users,
         \A u \in Users : user'[u] \in {user[u], NoRequest},
         \A row \in Rows' : row \in Rows \/ (IsFirsts(row) /\ profiles # <<>>)
  PROVE  ProfileInv'
<1>1. ASSUME NEW u \in Users PROVE RequestOK(user[u])'
  BY <1>1 DEF RequestOK, ProfileInv, NoRequest
<1> QED BY <1>1 DEF ProfileInv

(* Lemma: a POST inserts a row of the first profile.                       *)
LEMMA NewRowIsFirst ==
  ASSUME ProfileInv, NEW u \in Users, user[u].step = "post", NEW body
  PROVE  IsFirsts(NewRow(u, body)) /\ profiles # <<>>
<1>1. user[u].profile = 1 /\ profiles # <<>>
  BY DEF ProfileInv, RequestOK, NoRequest
<1> QED BY <1>1 DEF NewRow, IsFirsts

(* Lemma: the request that ends is idle, the others stay what they are.    *)
LEMMA FinishEnds ==
  ASSUME ProfileInv, NEW u \in Users, EndRequest(u)
  PROVE  DOMAIN user' = Users /\ \A v \in Users : user'[v] \in {user[v], NoRequest}
BY DEF ProfileInv, EndRequest

(* Lemma: every step keeps the invariant.                                  *)
LEMMA ProfileStep ==
  ASSUME ProfileInv, [ProfileNext]_profileVars
  PROVE  ProfileInv'
<1>1. ASSUME NEW u \in Users, BeginPut(u) \/ requireProfileId(u) PROVE ProfileInv'
  <2>1. /\ profiles' = profiles /\ Rows' = Rows /\ DOMAIN user' = Users
        /\ \A v \in Users \ {u} : user'[v] = user[v]
    BY <1>1 DEF BeginPut, requireProfileId, Rows, nested, ProfileInv
  <2>2. RequestOK(user[u])'
    <3>1. CASE BeginPut(u)
      BY <3>1 DEF BeginPut, TheProfile, RequestOK, ProfileInv
    <3>2. CASE requireProfileId(u)
      BY <3>2 DEF requireProfileId, TheProfile, RequestOK, ProfileInv
    <3> QED BY <1>1, <3>1, <3>2
  <2>3. ASSUME NEW v \in Users PROVE RequestOK(user[v])'
    BY <2>1, <2>2, <2>3 DEF ProfileInv, RequestOK
  <2> QED BY <2>1, <2>3 DEF ProfileInv
<1>2. ASSUME NEW u \in Users, NEW body \in ProfileBodies, upsertProfile(u, body) PROVE ProfileInv'
  <2>1. user[u].profile = 0 \/ (user[u].profile = 1 /\ profiles # <<>>)
    BY <1>2 DEF upsertProfile, ProfileInv, RequestOK, NoRequest
  <2>2. profiles' \in Seq(ProfileBodies) /\ (profiles # <<>> => profiles' # <<>>)
    <3>1. CASE user[u].profile = 0
      <4>1. profiles' = Append(profiles, body)
        BY <1>2, <3>1 DEF upsertProfile
      <4> QED BY <4>1 DEF ProfileInv
    <3>2. CASE user[u].profile # 0
      <4>1. profiles' = [profiles EXCEPT ![1] = body]
        BY <1>2, <2>1, <3>2 DEF upsertProfile
      <4>2. profiles \in Seq(ProfileBodies)
        BY DEF ProfileInv
      <4>3. profiles' \in Seq(ProfileBodies) /\ Len(profiles') = Len(profiles)
        BY <2>1, <3>2, <4>1, <4>2, ExceptSeq
      <4> QED BY <4>2, <4>3
    <3> QED BY <3>1, <3>2
  <2>3. DOMAIN user' = Users /\ \A v \in Users : user'[v] \in {user[v], NoRequest}
    BY <1>2, FinishEnds DEF upsertProfile
  <2>4. ASSUME NEW v \in Users PROVE RequestOK(user[v])'
    BY <2>2, <2>3, <2>4 DEF RequestOK, ProfileInv, NoRequest
  <2>5. Rows' = Rows
    BY <1>2 DEF upsertProfile, nested, Rows
  <2> QED BY <2>2, <2>3, <2>4, <2>5 DEF ProfileInv
<1>3. ASSUME NEW u \in Users,
             \/ \E skill \in Skills : addSkill(u, skill)
             \/ \E span \in Spans : addExperience(u, span)
             \/ \E language \in LanguageBodies : addLanguage(u, language)
             \/ \E resume \in Originals : createResume(u, resume)
      PROVE  ProfileInv'
  <2>1. user[u].step = "post" /\ profiles' = profiles /\ EndRequest(u)
    BY <1>3 DEF addSkill, addExperience, addLanguage, createResume
  <2>2. PICK body : Rows' \subseteq Rows \cup {NewRow(u, body)}
    BY <1>3 DEF addSkill, addExperience, addLanguage, createResume, LanguagesWith, Rows
  <2>3. IsFirsts(NewRow(u, body)) /\ profiles # <<>>
    BY <2>1, NewRowIsFirst
  <2>4. DOMAIN user' = Users /\ \A v \in Users : user'[v] \in {user[v], NoRequest}
    BY <2>1, FinishEnds
  <2> QED BY <2>1, <2>2, <2>3, <2>4, RowsChange
<1>4. CASE \/ \E row \in experiences :
                deleteExperience(row) \/ \E span \in Spans : updateExperience(row, span)
           \/ \E row \in skills : deleteSkill(row)
           \/ \E row \in languages : deleteLanguage(row)
           \/ \E row \in resumes : UploadVersion(row)
  <2>1. profiles' = profiles /\ user' = user
    BY <1>4 DEF deleteExperience, updateExperience, deleteSkill, deleteLanguage,
                UploadVersion, EditRows
  <2>2. \A row \in Rows' : row \in Rows \/ \E old \in Rows : \E b : row = [old EXCEPT !.of = b]
    BY <1>4 DEF deleteExperience, updateExperience, deleteSkill, deleteLanguage,
                UploadVersion, EditRows, Rows
  <2>3. ASSUME NEW old \in Rows, NEW b
        PROVE  IsFirsts([old EXCEPT !.of = b]) /\ profiles # <<>>
    <3>1. old = [owner |-> 1, of |-> old.of] /\ profiles # <<>>
      BY DEF ProfileInv, IsFirsts
    <3>2. [old EXCEPT !.of = b] = [owner |-> 1, of |-> b]
      BY <3>1
    <3> QED BY <3>1, <3>2 DEF IsFirsts
  <2>4. ASSUME NEW row \in Rows' PROVE row \in Rows \/ (IsFirsts(row) /\ profiles # <<>>)
    <3>1. SUFFICES ASSUME row \notin Rows
                   PROVE  IsFirsts(row) /\ profiles # <<>>
      OBVIOUS
    <3>2. PICK old \in Rows : \E b : row = [old EXCEPT !.of = b]
      BY <2>2, <2>4, <3>1
    <3>3. PICK b : row = [old EXCEPT !.of = b]
      BY <3>2
    <3> QED BY <2>3, <3>3
  <2>5. DOMAIN user' = Users /\ \A u \in Users : user'[u] \in {user[u], NoRequest}
    BY <2>1 DEF ProfileInv
  <2> QED BY <2>1, <2>4, <2>5, RowsChange
<1>5. CASE UNCHANGED profileVars
  BY <1>5 DEF profileVars, nested, ProfileInv, Rows, RequestOK
<1> QED BY <1>1, <1>2, <1>3, <1>4, <1>5 DEF ProfileNext

(* Theorem: whatever the requests send and however the reads of the        *)
(* profile (upsertProfile, requireProfileId) interleave with the writes,   *)
(* everything nested belongs to the profile that getProfile returns.       *)
THEOREM NestedIsOwned == ProfileSpec => []NestedBelongsToProfile
<1>1. ProfileInit => ProfileInv
  BY DEF ProfileInit, ProfileInv, Rows, RequestOK
<1>2. ProfileInv => NestedBelongsToProfile
  BY DEF ProfileInv, NestedBelongsToProfile, TheProfile, Rows, IsFirsts
<1> QED BY <1>1, <1>2, ProfileStep, PTL DEF ProfileSpec

--------------------------------------------------------------------------------
(* What the rows hold *)

IsResume(r) == r.id \in Int /\ r.version \in Nat /\ r.similarity \in Int \cup {None}

(* What the score relies on: of two resumes the ids differ.                *)
RowsOK ==
  /\ IsFiniteSet(experiences) /\ \A row \in experiences : row.of \in Spans
  /\ \A row \in languages : row.of \in LanguageBodies
  /\ IsFiniteSet(resumes) /\ \A row \in resumes : IsResume(row.of)
  /\ \A row, other \in resumes : row.of.id = other.of.id => row = other

(* Lemma: a row that is written again has what is written.                 *)
LEMMA Written ==
  ASSUME ProfileInv, NEW row \in Rows, NEW body
  PROVE  [row EXCEPT !.of = body].of = body
<1>1. row = [owner |-> 1, of |-> row.of]
  BY DEF ProfileInv, IsFirsts
<1> QED BY <1>1

(* Lemma: what the profile owns of the rows.                               *)
LEMMA OwnedOf ==
  ASSUME NEW rows, NEW B, \A row \in rows : row.of \in B
  PROVE  /\ Owned(rows) \subseteq B
         /\ IsFiniteSet(rows) => IsFiniteSet(Owned(rows))
<1> DEFINE own == {q \in rows : q.owner = TheProfile}
           body == [r \in own |-> r.of]
<1>1. body \in Surjection(own, Owned(rows))
  BY DEF Surjection, Owned
<1>2. Owned(rows) \subseteq B
  BY DEF Owned
<1>3. ASSUME IsFiniteSet(rows) PROVE IsFiniteSet(own)
  BY <1>3, FS_Subset
<1> HIDE DEF own, body
<1> QED BY <1>1, <1>2, <1>3, FS_Surjection

(* Lemma: every step keeps the rows what they are.                         *)
LEMMA RowsStep ==
  ASSUME ProfileInv, RowsOK, [ProfileNext]_profileVars
  PROVE  RowsOK'
<1> USE DEF NewRow
<1>1. ASSUME NEW u \in Users, NEW span \in Spans, addExperience(u, span) PROVE RowsOK'
  <2>1. IsFiniteSet(experiences')
    BY <1>1, FS_AddElement DEF addExperience, RowsOK
  <2> QED BY <1>1, <2>1 DEF addExperience, RowsOK
<1>2. ASSUME NEW u \in Users, NEW language \in LanguageBodies, addLanguage(u, language)
      PROVE  RowsOK'
  BY <1>2 DEF addLanguage, LanguagesWith, RowsOK
<1>3. ASSUME NEW u \in Users, NEW resume \in Originals, createResume(u, resume) PROVE RowsOK'
  <2> DEFINE new == NewRow(u, [resume EXCEPT !.version = 0])
  <2>1. IsFiniteSet(resumes') /\ resumes' = resumes \cup {new}
    BY <1>3, FS_AddElement DEF createResume, RowsOK
  <2>2. new.of.id = resume.id /\ new.of.version = 0 /\ new.of.similarity = resume.similarity
    BY BodiesAssumption
  <2>3. IsResume(new.of)
    BY <2>2, BodiesAssumption DEF IsResume
  <2>4. \A row \in resumes : row.of.id # new.of.id
    BY <1>3, <2>2 DEF createResume
  <2> HIDE DEF new
  <2> QED BY <1>3, <2>1, <2>3, <2>4 DEF createResume, RowsOK
<1>4. ASSUME NEW row \in experiences, NEW span \in Spans, updateExperience(row, span)
      PROVE  RowsOK'
  <2> DEFINE new == [row EXCEPT !.of = span]
  <2>1. new.of = span
    BY Written DEF Rows
  <2>2. /\ experiences' = (experiences \ {row}) \cup {new}
        /\ languages' = languages /\ resumes' = resumes
    BY <1>4 DEF updateExperience, EditRows
  <2> HIDE DEF new
  <2>3. IsFiniteSet(experiences')
    BY <2>2, FS_AddElement, FS_RemoveElement DEF RowsOK
  <2> QED BY <2>1, <2>2, <2>3 DEF RowsOK
<1>5. ASSUME NEW row \in experiences, deleteExperience(row) PROVE RowsOK'
  <2>1. IsFiniteSet(experiences')
    BY <1>5, FS_RemoveElement DEF deleteExperience, RowsOK
  <2> QED BY <1>5, <2>1 DEF deleteExperience, EditRows, RowsOK
<1>6. ASSUME NEW row \in resumes, UploadVersion(row) PROVE RowsOK'
  <2>1. PICK r \in Originals : /\ r.id = row.of.id
                               /\ resumes' = (resumes \ {row}) \cup {[row EXCEPT !.of = r]}
    BY <1>6 DEF UploadVersion
  <2> DEFINE new == [row EXCEPT !.of = r]
  <2>2. new.of = r /\ IsResume(new.of)
    BY Written, BodiesAssumption DEF Rows, IsResume
  <2>3. /\ resumes' = (resumes \ {row}) \cup {new}
        /\ languages' = languages /\ experiences' = experiences
    BY <1>6, <2>1 DEF UploadVersion, EditRows
  <2> HIDE DEF new
  <2>4. IsFiniteSet(resumes')
    BY <2>3, FS_AddElement, FS_RemoveElement DEF RowsOK
  <2>5. \A other \in resumes \ {row} : other.of.id # new.of.id
    BY <2>1, <2>2 DEF RowsOK
  <2> QED BY <2>2, <2>3, <2>4, <2>5 DEF RowsOK
<1>7. CASE \/ \E u \in Users :
                \/ BeginPut(u) \/ requireProfileId(u)
                \/ \E body \in ProfileBodies : upsertProfile(u, body)
                \/ \E skill \in Skills : addSkill(u, skill)
           \/ \E row \in skills : deleteSkill(row)
           \/ \E row \in languages : deleteLanguage(row)
           \/ UNCHANGED profileVars
  <2>1. experiences' = experiences /\ resumes' = resumes /\ languages' \subseteq languages
    BY <1>7 DEF BeginPut, requireProfileId, upsertProfile, addSkill, deleteSkill,
                deleteLanguage, EditRows, nested, profileVars
  <2> QED BY <2>1 DEF RowsOK
<1> QED BY <1>1, <1>2, <1>3, <1>4, <1>5, <1>6, <1>7 DEF ProfileNext

(* Lemma: so the rows are always what they are.                            *)
LEMMA RowsAlways == ProfileSpec => [](ProfileInv /\ RowsOK)
<1>1. ProfileInit => ProfileInv /\ RowsOK
  BY FS_EmptySet DEF ProfileInit, ProfileInv, RowsOK, Rows, RequestOK
<1> QED BY <1>1, ProfileStep, RowsStep, PTL DEF ProfileSpec

(* Theorem: for any number of roles, whatever they overlap, the experience *)
(* that experienceMatch reads (computeExperienceMonths in signals.ts) is   *)
(* the time that some role covers.                                         *)
THEOREM ExperienceCounted == ProfileSpec => []ExperienceIsCovered
<1>1. RowsOK => ExperienceIsCovered
  <2> SUFFICES ASSUME RowsOK PROVE ExperienceIsCovered
    OBVIOUS
  <2>1. IsFiniteSet(Owned(experiences)) /\ Owned(experiences) \subseteq Spans
    BY OwnedOf DEF RowsOK
  <2>2. AsOf \in Int /\ \A s \in Owned(experiences) : s.start \in Int /\ s.end \in Int \cup {None}
    BY <2>1, BodiesAssumption
  <2> QED BY <2>1, <2>2, RangesAreCovered DEF ExperienceIsCovered
<1> QED BY <1>1, RowsAlways, PTL

--------------------------------------------------------------------------------
(* Rounded quotients *)

(* Lemma: a positive factor keeps the order.                               *)
LEMMA Times ==
  ASSUME NEW d \in Nat, NEW a \in Int, NEW b \in Int, a <= b
  PROVE  d * a <= d * b
OBVIOUS

(* Lemma: RoundDiv is a number, between the numbers that bound the quotient.*)
LEMMA Rounds ==
  ASSUME NEW d \in Nat \ {0}, NEW n \in Int
  PROVE  /\ RoundDiv(n, d) \in Int
         /\ \A k \in Int : k * d <= n => k <= RoundDiv(n, d)
         /\ \A k \in Int : n <= k * d => RoundDiv(n, d) <= k
<1> DEFINE q == RoundDiv(n, d)
<1>1. q \in Int /\ (2 * d) * q <= 2 * n + d /\ 2 * n + d < (2 * d) * q + 2 * d
  BY 2 * d \in Nat \ {0} DEF RoundDiv
<1> HIDE DEF q
<1>2. ASSUME NEW k \in Int, k * d <= n PROVE k <= q
  <2> SUFFICES ASSUME q + 1 <= k PROVE FALSE
    BY <1>1
  <2>1. d * (q + 1) <= d * k
    BY <1>1, Times
  <2> QED BY <1>1, <1>2, <2>1
<1>3. ASSUME NEW k \in Int, n <= k * d PROVE q <= k
  <2> SUFFICES ASSUME k + 1 <= q PROVE FALSE
    BY <1>1
  <2>1. d * (k + 1) <= d * q
    BY <1>1, Times
  <2> QED BY <1>1, <1>3, <2>1
<1> QED BY <1>1, <1>2, <1>3 DEF q

(* Lemma: and keeps the order of the numerators.                           *)
LEMMA RoundsInOrder ==
  ASSUME NEW d \in Nat \ {0}, NEW n \in Int, NEW m \in Int, n <= m
  PROVE  RoundDiv(n, d) <= RoundDiv(m, d)
<1> DEFINE q == RoundDiv(n, d)
           r == RoundDiv(m, d)
<1>1. q \in Int /\ (2 * d) * q <= 2 * n + d /\ 2 * n + d < (2 * d) * q + 2 * d
  BY 2 * d \in Nat \ {0} DEF RoundDiv
<1>2. r \in Int /\ (2 * d) * r <= 2 * m + d /\ 2 * m + d < (2 * d) * r + 2 * d
  BY 2 * d \in Nat \ {0} DEF RoundDiv
<1> HIDE DEF q, r
<1>3. SUFFICES ASSUME r + 1 <= q PROVE FALSE
  BY <1>1, <1>2 DEF q, r
<1>4. (2 * d) * (r + 1) <= (2 * d) * q
  BY <1>1, <1>2, <1>3, Times
<1> QED BY <1>1, <1>2, <1>4

--------------------------------------------------------------------------------
(* The signals *)

IsSignal(s) == s.present \in BOOLEAN /\ s.score \in Int

(* Lemma: what a signal function returns.                                  *)
LEMMA PresentIsSignal ==
  /\ IsSignal(Absent)
  /\ \A x \in Int : IsSignal(Present(x)) /\ IsSignal(Present(Clamp01(x)))
BY DEF IsSignal, Absent, Present, Clamp01, One

(* Lemma: the share of known skills is a number, and larger if more are.   *)
LEMMA ShareGrows ==
  ASSUME NEW a, IsFiniteSet(a), a # {}, NEW b, IsFiniteSet(b), b # {},
         NEW names, NEW more, names \subseteq more
  PROVE  /\ Share(a, b, names) \in Int /\ Share(a, b, more) \in Int
         /\ Share(a, b, names) <= Share(a, b, more)
<1>1. /\ Cardinality(a) \in Nat \ {0} /\ Cardinality(b) \in Nat \ {0}
  BY FS_CardinalityType, FS_EmptySet
<1>2. \A c : IsFiniteSet(c) =>
         /\ Cardinality(c \cap names) \in Nat /\ Cardinality(c \cap more) \in Nat
         /\ Cardinality(c \cap names) <= Cardinality(c \cap more)
  <2> SUFFICES ASSUME NEW c, IsFiniteSet(c)
               PROVE  /\ Cardinality(c \cap names) \in Nat /\ Cardinality(c \cap more) \in Nat
                      /\ Cardinality(c \cap names) <= Cardinality(c \cap more)
    OBVIOUS
  <2>1. IsFiniteSet(c \cap more) /\ c \cap names \in SUBSET (c \cap more)
    BY FS_Subset
  <2>2. IsFiniteSet(c \cap names) /\ Cardinality(c \cap names) <= Cardinality(c \cap more)
    BY <2>1, FS_Subset
  <2> QED BY <2>1, <2>2, FS_CardinalityType
<1> DEFINE Sum(x, y) == One * (7 * x * Cardinality(b) + 3 * y * Cardinality(a))
           d == 10 * Cardinality(a) * Cardinality(b)
<1>3. d \in Nat \ {0}
  <2> QED BY <1>1
<1>4. \A x, y, v, w \in Nat : x <= v /\ y <= w =>
         Sum(x, y) \in Int /\ Sum(v, w) \in Int /\ Sum(x, y) <= Sum(v, w)
  <2> TAKE x, y, v, w \in Nat
  <2> HAVE x <= v /\ y <= w
  <2>1. Cardinality(b) * x <= Cardinality(b) * v /\ Cardinality(a) * y <= Cardinality(a) * w
    BY <1>1, Times
  <2> QED BY <1>1, <2>1 DEF One
<1> HIDE DEF Sum, d
<1>5. /\ Share(a, b, names) = RoundDiv(Sum(Cardinality(a \cap names), Cardinality(b \cap names)), d)
      /\ Share(a, b, more) = RoundDiv(Sum(Cardinality(a \cap more), Cardinality(b \cap more)), d)
  BY DEF Share, Sum, d
<1>6. LET n == Sum(Cardinality(a \cap names), Cardinality(b \cap names))
          m == Sum(Cardinality(a \cap more), Cardinality(b \cap more))
      IN n \in Int /\ m \in Int /\ n <= m
  BY <1>2, <1>4
<1> QED BY <1>3, <1>5, <1>6, Rounds, RoundsInOrder

(* Lemma: the signal of the skills does not fall with one more of them.    *)
LEMMA SkillsSignal ==
  ASSUME NEW job \in Jobs, NEW known, NEW skill
  PROVE  LET before == skillsMatch(job, known)
             after == skillsMatch(job, known \cup {skill})
         IN /\ IsSignal(before) /\ IsSignal(after)
            /\ before.present = after.present /\ before.score <= after.score
<1> DEFINE names == SkillNames(known)
           more == SkillNames(known \cup {skill})
           a == job.required
           b == job.preferred
<1>1. names \subseteq more /\ IsFiniteSet(a) /\ IsFiniteSet(b)
  BY JobsAssumption DEF SkillNames
<1>2. /\ skillsMatch(job, known) =
            IF a = {} /\ b = {} THEN Absent
            ELSE IF b = {} THEN Present(Share(a, a, names))
            ELSE IF a = {} THEN Present(Share(b, b, names))
            ELSE Present(Clamp01(Share(a, b, names)))
      /\ skillsMatch(job, known \cup {skill}) =
            IF a = {} /\ b = {} THEN Absent
            ELSE IF b = {} THEN Present(Share(a, a, more))
            ELSE IF a = {} THEN Present(Share(b, b, more))
            ELSE Present(Clamp01(Share(a, b, more)))
  BY DEF skillsMatch
<1> HIDE DEF names, more, a, b
<1>3. \A x, y \in Int : x <= y =>
         /\ Present(x).present = Present(y).present /\ Present(x).score <= Present(y).score
         /\ Present(Clamp01(x)).present = Present(Clamp01(y)).present
         /\ Present(Clamp01(x)).score <= Present(Clamp01(y)).score
  BY DEF Present, Clamp01, One
<1>4. CASE a = {} /\ b = {}
  <2>1. Absent.score <= Absent.score
    BY DEF Absent
  <2> QED BY <1>2, <1>4, <2>1, PresentIsSignal
<1>5. CASE a # {} /\ b = {}
  BY <1>1, <1>2, <1>3, <1>5, ShareGrows, PresentIsSignal
<1>6. CASE a = {} /\ b # {}
  BY <1>1, <1>2, <1>3, <1>6, ShareGrows, PresentIsSignal
<1>7. CASE a # {} /\ b # {}
  BY <1>1, <1>2, <1>3, <1>7, ShareGrows, PresentIsSignal
<1> QED BY <1>4, <1>5, <1>6, <1>7

(* Lemma: the signals of the experience, the salary and the languages.     *)
LEMMA ExperienceSignal ==
  ASSUME NEW job \in Jobs, NEW E \in SUBSET Spans, IsFiniteSet(E)
  PROVE  IsSignal(experienceMatch(job, E, AsOf))
<1> DEFINE months == computeExperienceMonths(E, AsOf)
           years == RoundDiv(One * months, 12)
           minimum == MIN_YEARS_BY_LEVEL[job.level]
<1>1. months \in Int
  <2>1. AsOf \in Int /\ \A e \in E : e.start \in Int /\ e.end \in Int \cup {None}
    BY BodiesAssumption
  <2>2. PICK order \in StartOrders(Ranges(E, AsOf)) : months = MonthsInOrder(order)
    BY <2>1, RangesAreCovered
  <2>3. MonthsInOrder(order) \in Nat
    BY <2>1, RangesAreCovered
  <2> QED BY <2>2, <2>3
<1>2. years \in Int
  BY <1>1, Rounds DEF One
<1> HIDE DEF months, years
<1>3. CASE job.level \in {None, "unknown"}
  BY <1>3, PresentIsSignal DEF experienceMatch
<1>4. CASE job.level \in DOMAIN MIN_YEARS_BY_LEVEL
  <2>1. minimum \in Nat
    BY <1>4 DEF MIN_YEARS_BY_LEVEL
  <2> HIDE DEF minimum
  <2>2. minimum # 0 => RoundDiv(years, minimum) \in Int
    BY <1>2, <2>1, Rounds
  <2>3. experienceMatch(job, E, AsOf) \in
           {Absent, Present(IF minimum = 0 THEN One ELSE Clamp01(RoundDiv(years, minimum)))}
    BY DEF experienceMatch, months, years, minimum
  <2> QED BY <2>2, <2>3, PresentIsSignal DEF One
<1> QED BY <1>3, <1>4, JobsAssumption

LEMMA SalarySignal ==
  ASSUME NEW a, NEW b, IsSalary(a), IsSalary(b)
  PROVE  IsSignal(salaryMatch(a, b))
<1>1. CASE ~SalaryComparable(a, b)
  BY <1>1, PresentIsSignal DEF salaryMatch
<1>2. CASE SalaryComparable(a, b)
  <2> DEFINE overlap == Larger(0, Smaller(Highest(a), Highest(b)) - Larger(Lowest(a), Lowest(b)))
             union == Larger(Highest(a), Highest(b)) - Smaller(Lowest(a), Lowest(b))
  <2>1. overlap \in Int /\ union \in Int
    BY <1>2 DEF SalaryComparable, IsSalary, Larger, Smaller, Highest, Lowest
  <2>2. salaryMatch(a, b) =
          Present(IF union <= 0 THEN One ELSE Clamp01(RoundDiv(One * overlap, union)))
    BY <1>2 DEF salaryMatch
  <2> HIDE DEF overlap, union
  <2>3. ~(union <= 0) => RoundDiv(One * overlap, union) \in Int
    BY <2>1, Rounds DEF One
  <2> QED BY <2>1, <2>2, <2>3, PresentIsSignal DEF One
<1> QED BY <1>1, <1>2

LEMMA LanguageSignal ==
  ASSUME NEW job \in Jobs, NEW rows
  PROVE  IsSignal(languageMatch(job, rows))
<1> DEFINE met == job.languages \ UnmetLanguages(job, rows)
<1>1. IsFiniteSet(job.languages) /\ IsFiniteSet(met)
  BY JobsAssumption, FS_Subset
<1>2. CASE job.languages = {}
  BY <1>2, PresentIsSignal DEF languageMatch
<1>3. CASE job.languages # {}
  <2>1. Cardinality(met) \in Nat /\ Cardinality(job.languages) \in Nat \ {0}
    BY <1>1, <1>3, FS_CardinalityType, FS_EmptySet
  <2>2. languageMatch(job, rows) =
          Present(Clamp01(RoundDiv(One * Cardinality(met), Cardinality(job.languages))))
    BY <1>3 DEF languageMatch
  <2> HIDE DEF met
  <2> QED BY <2>1, <2>2, Rounds, PresentIsSignal DEF One
<1> QED BY <1>2, <1>3

(* What the engine relies on of a candidate and the resume it chooses.     *)
CandidateOK(c) ==
  c.experiences \in SUBSET Spans /\ IsFiniteSet(c.experiences) /\ IsSalary(c.profile.salary)
ChosenOK(r) == r = None \/ IsResume(r)

Names == {"skills", "experience", "location", "salary", "language", "employment", "semantic",
          "career"}

(* Lemma: all signals are present or not, and their scores are numbers.    *)
LEMMA SignalsTyped ==
  ASSUME NEW job \in Jobs, NEW c, CandidateOK(c), NEW chosen, ChosenOK(chosen)
  PROVE  \A n \in Names : IsSignal(Signals(job, c, AsOf, chosen)[n])
<1> DEFINE signals == Signals(job, c, AsOf, chosen)
<1>1. IsSignal(skillsMatch(job, c.skills))
  BY SkillsSignal
<1>2. IsSignal(experienceMatch(job, c.experiences, AsOf))
  BY ExperienceSignal DEF CandidateOK
<1>3. IsSignal(locationMatch(job, c.profile))
  BY PresentIsSignal DEF locationMatch, One
<1>4. IsSignal(salaryMatch(job.salary, c.profile.salary))
  BY SalarySignal, JobsAssumption DEF CandidateOK
<1>5. IsSignal(languageMatch(job, c.languages))
  BY LanguageSignal
<1>6. IsSignal(employmentTypeMatch(job, c.profile))
  BY PresentIsSignal DEF employmentTypeMatch, One
<1>7. IsSignal(Semantic(chosen))
  BY PresentIsSignal DEF Semantic, ChosenOK, IsResume
<1>8. IsSignal(careerRelevance(classifyJobCategory(job), c.resumes))
  BY PresentIsSignal DEF careerRelevance, One
<1>9. /\ signals["skills"] = skillsMatch(job, c.skills)
      /\ signals["experience"] = experienceMatch(job, c.experiences, AsOf)
      /\ signals["location"] = locationMatch(job, c.profile)
      /\ signals["salary"] = salaryMatch(job.salary, c.profile.salary)
      /\ signals["language"] = languageMatch(job, c.languages)
      /\ signals["employment"] = employmentTypeMatch(job, c.profile)
      /\ signals["semantic"] = Semantic(chosen)
      /\ signals["career"] = careerRelevance(classifyJobCategory(job), c.resumes)
  BY DEF Signals
<1> HIDE DEF signals
<1>10. \A n \in Names : IsSignal(signals[n])
  BY <1>1, <1>2, <1>3, <1>4, <1>5, <1>6, <1>7, <1>8, <1>9 DEF Names
<1> QED BY <1>10 DEF signals

--------------------------------------------------------------------------------
(* The mean *)

(* Lemma: a sum over the signals follows its terms.                        *)
LEMMA TotalFollows ==
  ASSUME NEW f, NEW g, \A n \in Names : f[n] \in Int /\ g[n] \in Int /\ f[n] <= g[n]
  PROVE  Total(f) \in Int /\ Total(g) \in Int /\ Total(f) <= Total(g)
BY DEF Names, Total

(* Lemma: a sum with a factor.                                             *)
LEMMA TotalTimes ==
  ASSUME NEW f, NEW k \in Int, \A n \in Names : f[n] \in Int
  PROVE  Total([n \in Names |-> k * f[n]]) = k * Total(f)
<1>1. \A a, b, c, d, e, x, y, z \in Int :
        k * (a + b + c + d + e + x + y + z) =
          k * a + k * b + k * c + k * d + k * e + k * x + k * y + k * z
  OBVIOUS
<1> DEFINE g == [n \in Names |-> k * f[n]]
<1>2. \A n \in Names : g[n] = k * f[n]
  OBVIOUS
<1>3. Names = {"skills", "experience", "location", "salary", "language", "employment",
               "semantic", "career"}
  BY DEF Names
<1> HIDE DEF g
<1>4. Total(g) = k * f["skills"] + k * f["experience"] + k * f["location"] + k * f["salary"]
                 + k * f["language"] + k * f["employment"] + k * f["semantic"] + k * f["career"]
  BY <1>2, <1>3 DEF Total
<1>5. k * Total(f) = k * f["skills"] + k * f["experience"] + k * f["location"] + k * f["salary"]
                     + k * f["language"] + k * f["employment"] + k * f["semantic"] + k * f["career"]
  BY <1>1, <1>3 DEF Total
<1> QED BY <1>4, <1>5 DEF g

Weights(signals) == [n \in DOMAIN Weight |-> IF signals[n].present THEN Weight[n] ELSE 0]

(* Lemma: the weights are numbers; one of a present signal is positive.    *)
LEMMA WeightsTyped ==
  ASSUME NEW s, \A n \in Names : IsSignal(s[n])
  PROVE  /\ DOMAIN Weight = Names
         /\ \A n \in Names : Weight[n] \in Nat \ {0} /\ Weights(s)[n] \in Nat
         /\ Total(Weights(s)) \in Nat
         /\ (\E n \in Names : s[n].present) => Total(Weights(s)) # 0
<1>1. DOMAIN Weight = Names /\ \A n \in Names : Weight[n] \in Nat \ {0}
  BY DEF Weight, Names
<1> DEFINE w == Weights(s)
<1>2. \A n \in Names : w[n] \in Nat /\ (w[n] = 0 <=> ~s[n].present)
  BY <1>1 DEF Weights, IsSignal
<1> HIDE DEF w
<1>3. Total(w) \in Nat
  <2> DEFINE zero == [n \in Names |-> 0]
  <2>1. \A n \in Names : zero[n] \in Int /\ w[n] \in Int /\ zero[n] <= w[n]
    BY <1>2
  <2>2. Total(zero) = 0
    BY DEF Total, Names
  <2> HIDE DEF zero
  <2> QED BY <2>1, <2>2, TotalFollows
<1>4. ASSUME NEW m \in Names, s[m].present PROVE Total(w) # 0
  <2> DEFINE one == [n \in Names |-> IF n = m THEN 1 ELSE 0]
  <2>1. \A n \in Names : one[n] \in Int /\ w[n] \in Int /\ one[n] <= w[n]
    BY <1>2, <1>4
  <2>2. Total(one) = 1
    BY DEF Total, Names
  <2> HIDE DEF one
  <2> QED BY <2>1, <2>2, <1>3, TotalFollows
<1> QED BY <1>1, <1>2, <1>3, <1>4 DEF w

(* Lemma: the mean does not fall when scores rise.                         *)
LEMMA MeanFollows ==
  ASSUME NEW s, NEW t, \A n \in Names : IsSignal(s[n]) /\ IsSignal(t[n]),
         \A n \in Names : s[n].present = t[n].present /\ s[n].score <= t[n].score
  PROVE  RawScore(s) \in Int /\ RawScore(t) \in Int /\ RawScore(s) <= RawScore(t)
<1> DEFINE W == Total(Weights(s))
<1>1. W \in Nat /\ DOMAIN Weight = Names /\ \A n \in Names : Weight[n] \in Nat
  BY WeightsTyped
<1>2. Weights(s) = Weights(t)
  BY <1>1 DEF Weights
<1>3. ASSUME NEW n \in Names
      PROVE  /\ Weighted(s)[n] \in Int /\ Weighted(t)[n] \in Int
             /\ Weighted(s)[n] <= Weighted(t)[n]
  <2>1. /\ s[n].score \in Int /\ t[n].score \in Int /\ s[n].score <= t[n].score
        /\ Weight[n] \in Nat
    BY <1>1 DEF IsSignal
  <2>2. Weight[n] * s[n].score <= Weight[n] * t[n].score
    BY <2>1, Times
  <2>3. /\ Weighted(s)[n] = IF s[n].present THEN Weight[n] * s[n].score ELSE 0
        /\ Weighted(t)[n] = IF s[n].present THEN Weight[n] * t[n].score ELSE 0
    BY <1>1 DEF Weighted
  <2> QED BY <2>1, <2>2, <2>3
<1>4. /\ Total(Weighted(s)) \in Int /\ Total(Weighted(t)) \in Int
      /\ Total(Weighted(s)) <= Total(Weighted(t))
  BY <1>3, TotalFollows
<1>5. /\ RawScore(s) = IF W = 0 THEN 0 ELSE RoundDiv(Total(Weighted(s)), W)
      /\ RawScore(t) = IF W = 0 THEN 0 ELSE RoundDiv(Total(Weighted(t)), W)
  BY <1>2 DEF RawScore, Weights
<1> HIDE DEF W
<1>6. CASE W = 0
  BY <1>5, <1>6
<1>7. CASE W \in Nat \ {0}
  <2>1. RawScore(s) = RoundDiv(Total(Weighted(s)), W) /\ RawScore(t) = RoundDiv(Total(Weighted(t)), W)
    BY <1>5, <1>7
  <2> QED BY <1>4, <1>7, <2>1, Rounds, RoundsInOrder
<1> QED BY <1>1, <1>6, <1>7

(* Lemma: the mean lies between bounds of the scores that are present.     *)
LEMMA MeanIsBounded ==
  ASSUME NEW s, \A n \in Names : IsSignal(s[n]), \E n \in Names : s[n].present, NEW k \in Int
  PROVE  /\ (\A n \in Names : s[n].present => k <= s[n].score) => k <= RawScore(s)
         /\ (\A n \in Names : s[n].present => s[n].score <= k) => RawScore(s) <= k
<1> DEFINE W == Total(Weights(s))
           kW == [n \in Names |-> k * Weights(s)[n]]
<1>1. /\ W \in Nat \ {0} /\ DOMAIN Weight = Names
      /\ \A n \in Names : Weight[n] \in Nat /\ Weights(s)[n] \in Nat
  BY WeightsTyped
<1>2. Total(kW) = k * W
  BY <1>1, TotalTimes
<1>3. ASSUME NEW n \in Names
      PROVE  /\ Weighted(s)[n] \in Int /\ kW[n] \in Int
             /\ Weighted(s)[n] = IF s[n].present THEN Weight[n] * s[n].score ELSE 0
             /\ kW[n] = IF s[n].present THEN Weight[n] * k ELSE 0
             /\ s[n].score \in Int /\ Weight[n] \in Nat
  <2>1. s[n].score \in Int /\ Weight[n] \in Nat
    BY <1>1 DEF IsSignal
  <2>2. Weighted(s)[n] = IF s[n].present THEN Weight[n] * s[n].score ELSE 0
    BY <1>1 DEF Weighted
  <2>3. Weights(s)[n] = IF s[n].present THEN Weight[n] ELSE 0
    BY <1>1 DEF Weights
  <2>4. kW[n] = IF s[n].present THEN Weight[n] * k ELSE 0
    BY <2>1, <2>3
  <2> HIDE DEF kW
  <2> QED BY <2>1, <2>2, <2>4
<1>4. RawScore(s) = RoundDiv(Total(Weighted(s)), W)
  BY <1>1 DEF RawScore, Weights
<1> HIDE DEF W, kW
<1>5. Total(Weighted(s)) \in Int
  BY <1>3, TotalFollows
<1>6. ASSUME \A n \in Names : s[n].present => k <= s[n].score PROVE k <= RawScore(s)
  <2>1. \A n \in Names : kW[n] <= Weighted(s)[n]
    BY <1>3, <1>6, Times
  <2>2. k * W <= Total(Weighted(s))
    BY <1>2, <1>3, <2>1, TotalFollows
  <2> QED BY <1>1, <1>4, <1>5, <2>2, Rounds
<1>7. ASSUME \A n \in Names : s[n].present => s[n].score <= k PROVE RawScore(s) <= k
  <2>1. \A n \in Names : Weighted(s)[n] <= kW[n]
    BY <1>3, <1>7, Times
  <2>2. Total(Weighted(s)) <= k * W
    BY <1>2, <1>3, <2>1, TotalFollows
  <2> QED BY <1>1, <1>4, <1>5, <2>2, Rounds
<1> QED BY <1>6, <1>7

--------------------------------------------------------------------------------
(* The score *)

Chosen(job, c) ==
  LET winners == Selectable(c.resumes, job, c.skills)
  IN IF winners = {} THEN None ELSE CHOOSE r \in winners : TRUE

(* Lemma: the result of the engine, and the resume it recommends.          *)
LEMMA Engine ==
  ASSUME NEW job \in Jobs, NEW c, CandidateOK(c), \A r \in c.resumes : IsResume(r)
  PROVE  LET result == runMatchEngine(job, c, AsOf)
             chosen == Chosen(job, c)
             unmet == UnmetLanguages(job, c.languages)
         IN /\ ChosenOK(chosen) /\ chosen \in c.resumes \cup {None}
            /\ result.signals = Signals(job, c, AsOf, chosen)
            /\ \A n \in Names : IsSignal(result.signals[n])
            /\ result.raw = RawScore(result.signals)
            /\ result.overall = IF unmet # {} THEN Smaller(result.raw, HARD_REQUIREMENT_CAP)
                                ELSE result.raw
            /\ result.missing.languages = unmet
            /\ result.resume = IF chosen = None THEN None ELSE chosen.id
<1> DEFINE chosen == Chosen(job, c)
<1>1. chosen \in c.resumes \cup {None}
  BY DEF Chosen, Selectable
<1>2. ChosenOK(chosen)
  BY <1>1 DEF ChosenOK
<1>3. \A n \in Names : IsSignal(Signals(job, c, AsOf, chosen)[n])
  BY <1>2, SignalsTyped
<1>4. LET result == runMatchEngine(job, c, AsOf)
          unmet == UnmetLanguages(job, c.languages)
      IN /\ result.signals = Signals(job, c, AsOf, chosen)
         /\ result.raw = RawScore(result.signals)
         /\ result.overall = IF unmet # {} THEN Smaller(result.raw, HARD_REQUIREMENT_CAP)
                             ELSE result.raw
         /\ result.missing.languages = unmet
         /\ result.resume = IF chosen = None THEN None ELSE chosen.id
  BY DEF runMatchEngine, Chosen
<1> QED BY <1>1, <1>2, <1>3, <1>4

(* Lemma: the candidate at rest is one the engine can score.               *)
LEMMA CandidateTyped ==
  ASSUME ProfileInv, RowsOK, AtRest
  PROVE  /\ CandidateOK(Candidate) /\ \A r \in Candidate.resumes : IsResume(r)
         /\ \A r, s \in Candidate.resumes : r.id = s.id => r = s
         /\ IsFiniteSet(Candidate.resumes)
<1>1. profiles[TheProfile] \in ProfileBodies
  BY DEF ProfileInv, AtRest, TheProfile
<1>2. Owned(experiences) \in SUBSET Spans /\ IsFiniteSet(Owned(experiences))
  BY OwnedOf DEF RowsOK
<1>3. /\ \A r \in Owned(resumes) : IsResume(r)
      /\ \A r, s \in Owned(resumes) : r.id = s.id => r = s
  BY DEF Owned, RowsOK
<1>4. IsFiniteSet(Owned(resumes))
  <2> DEFINE B == {row.of : row \in resumes}
  <2>1. \A row \in resumes : row.of \in B
    OBVIOUS
  <2> HIDE DEF B
  <2> QED BY <2>1, OwnedOf DEF RowsOK
<1> QED BY <1>1, <1>2, <1>3, <1>4, BodiesAssumption DEF Candidate, CandidateOK

(* Lemma: of texts there is one that the database returns last.            *)
LEMMA LevelOfARow ==
  ASSUME NEW rows \in SUBSET LanguageBodies, NEW language
  PROVE  LET named == {r \in rows : Canonical[r.text] = language}
         IN named = {} \/ \E r \in named : LevelOf(rows, language) = r.level
<1> DEFINE named == {r \in rows : Canonical[r.text] = language}
           place(r) == CHOOSE i \in DOMAIN TextOrder : TextOrder[i] = r.text
           S == {place(r) : r \in named}
<1>1. SUFFICES ASSUME named # {} PROVE \E r \in named : LevelOf(rows, language) = r.level
  OBVIOUS
<1>2. Len(TextOrder) \in Nat /\ DOMAIN TextOrder = 1..Len(TextOrder)
  BY TextsAssumption
<1>3. \A r \in named : place(r) \in DOMAIN TextOrder
  BY DEF LanguageBodies, Texts
<1>4. S \in SUBSET (1..Len(TextOrder)) /\ S # {}
  BY <1>1, <1>2, <1>3
<1>5. PICK last \in S : \A i \in S : i <= last
  <2> HIDE DEF S
  <2> QED BY <1>2, <1>4, LastPlace
<1>6. \E r \in named : \A s \in named : place(s) <= place(r)
  <2> HIDE DEF named, place
  <2>1. PICK r \in named : place(r) = last
    OBVIOUS
  <2>2. \A s \in named : place(s) \in S
    OBVIOUS
  <2> QED BY <1>5, <2>1, <2>2
<1>7. LevelOf(rows, language) = (CHOOSE r \in named : \A s \in named : place(s) <= place(r)).level
  BY <1>1 DEF LevelOf
<1> HIDE DEF named, place
<1> QED BY <1>6, <1>7

(* Theorem: whatever a candidate lists, a language that a job asks for at  *)
(* a level of the CEFR or at none, and that is missing or below that       *)
(* level, is reported and caps the score (languageMatch and the hard       *)
(* violations in engine.ts).  It is not so for the level native.           *)
THEOREM LanguageCaps == ProfileSpec => []UnmetLanguageIsCapped
<1>1. ProfileInv /\ RowsOK => UnmetLanguageIsCapped
  <2> DEFINE levels == {"A1", "A2", "B1", "B2", "C1", "C2", None}
             unmet(job) == {r \in job.languages : /\ r.level \in levels
                                                  /\ \A row \in Owned(languages) : ~Reaches(row, r)}
  <2> SUFFICES ASSUME ProfileInv, RowsOK, AtRest, NEW job \in Jobs
               PROVE  \/ unmet(job) = {}
                      \/ LET result == Result(job) IN
                            /\ result.overall <= HARD_REQUIREMENT_CAP
                            /\ unmet(job) \subseteq result.missing.languages
    BY DEF UnmetLanguageIsCapped, CappedWithout
  <2> DEFINE found == UnmetLanguages(job, Owned(languages))
  <2>1. Owned(languages) \in SUBSET LanguageBodies
    BY OwnedOf DEF RowsOK
  <2>2. ASSUME NEW r \in unmet(job) PROVE r \in found
    <3>1. r \in job.languages /\ r.level \in levels /\ \A row \in Owned(languages) : ~Reaches(row, r)
      OBVIOUS
    <3> DEFINE named == {row \in Owned(languages) : Canonical[row.text] = r.language}
    <3>2. CASE named = {}
      BY <3>1, <3>2 DEF LanguageUnmet, LevelOf, UnmetLanguages
    <3>3. CASE named # {}
      <4>1. PICK row \in named : LevelOf(Owned(languages), r.language) = row.level
        BY <2>1, <3>3, LevelOfARow
      <4>2. r.level # None /\ ~(LEVEL_ORDER[row.level] >= LEVEL_ORDER[r.level])
        BY <3>1, <4>1 DEF Reaches
      <4>3. row.level \in DOMAIN LEVEL_ORDER
        BY <2>1, BodiesAssumption DEF LanguageBodies
      <4>4. LEVEL_ORDER[row.level] \in Int
        BY <4>3 DEF LEVEL_ORDER
      <4>5. LEVEL_ORDER[r.level] \in Int /\ r.level # "native"
        BY <3>1, <4>2 DEF LEVEL_ORDER
      <4>6. LevelTooLow(row.level, r.level)
        BY <4>2, <4>4, <4>5 DEF LevelTooLow
      <4> QED BY <3>1, <4>1, <4>2, <4>6 DEF LanguageUnmet, UnmetLanguages
    <3> QED BY <3>2, <3>3
  <2>3. /\ Result(job).overall = IF found # {} THEN Smaller(Result(job).raw, HARD_REQUIREMENT_CAP)
                                 ELSE Result(job).raw
        /\ Result(job).missing.languages = found
        /\ Result(job).raw = RawScore(Result(job).signals)
        /\ \A n \in Names : IsSignal(Result(job).signals[n])
    <3>1. Candidate.languages = Owned(languages)
      BY DEF Candidate
    <3> QED BY <3>1, CandidateTyped, Engine DEF Result
  <2>4. Result(job).raw \in Int
    <3> DEFINE s == Result(job).signals
    <3>1. \A n \in Names : IsSignal(s[n]) /\ s[n].score <= s[n].score
      BY <2>3 DEF IsSignal
    <3> HIDE DEF s
    <3>2. RawScore(s) \in Int
      BY <3>1, MeanFollows
    <3> QED BY <2>3, <3>2 DEF s
  <2>5. found # {} => Result(job).overall <= HARD_REQUIREMENT_CAP
    BY <2>3, <2>4 DEF Smaller, HARD_REQUIREMENT_CAP
  <2> HIDE DEF found, unmet
  <2> QED BY <2>2, <2>3, <2>5
<1> QED BY <1>1, RowsAlways, PTL

(* Theorem: another skill of the catalogue never lowers the score for a    *)
(* job (skillsMatch and the weighted mean of runMatchEngine), as long as   *)
(* it does not change which resume is recommended.                         *)
THEOREM SkillsHelp == ProfileSpec => []SkillsNeverHurt
<1>1. ProfileInv /\ RowsOK => SkillsNeverHurt
  <2> DEFINE with(skill) == [Candidate EXCEPT !.skills = @ \cup {skill}]
  <2> SUFFICES ASSUME ProfileInv, RowsOK, AtRest, NEW job \in Jobs, NEW skill \in Skills,
                      runMatchEngine(job, with(skill), AsOf).resume = Result(job).resume
               PROVE  runMatchEngine(job, with(skill), AsOf).overall >= Result(job).overall
    BY DEF SkillsNeverHurt
  <2> DEFINE c == Candidate
             d == with(skill)
             before == runMatchEngine(job, c, AsOf)
             after == runMatchEngine(job, d, AsOf)
             x == Chosen(job, c)
             y == Chosen(job, d)
             s == before.signals
             t == after.signals
  <2>1. /\ d.skills = c.skills \cup {skill} /\ d.profile = c.profile
        /\ d.experiences = c.experiences /\ d.languages = c.languages /\ d.resumes = c.resumes
    BY DEF Candidate
  <2>2. /\ CandidateOK(c) /\ \A r \in c.resumes : IsResume(r)
        /\ \A r, q \in c.resumes : r.id = q.id => r = q
    BY CandidateTyped
  <2>3. CandidateOK(d) /\ \A r \in d.resumes : IsResume(r)
    BY <2>1, <2>2 DEF CandidateOK
  <2> HIDE DEF c, d
  <2>4. /\ ChosenOK(x) /\ x \in c.resumes \cup {None}
        /\ s = Signals(job, c, AsOf, x) /\ \A n \in Names : IsSignal(s[n])
        /\ before.raw = RawScore(s)
        /\ before.overall = IF UnmetLanguages(job, c.languages) # {}
                            THEN Smaller(before.raw, HARD_REQUIREMENT_CAP) ELSE before.raw
        /\ before.resume = IF x = None THEN None ELSE x.id
    BY <2>2, Engine
  <2>5. /\ ChosenOK(y) /\ y \in d.resumes \cup {None}
        /\ t = Signals(job, d, AsOf, y) /\ \A n \in Names : IsSignal(t[n])
        /\ after.raw = RawScore(t)
        /\ after.overall = IF UnmetLanguages(job, d.languages) # {}
                           THEN Smaller(after.raw, HARD_REQUIREMENT_CAP) ELSE after.raw
        /\ after.resume = IF y = None THEN None ELSE y.id
    BY <2>3, Engine
  <2>6. after.resume = before.resume
    BY DEF Result, c, d
  <2> HIDE DEF before, after, x, y
  <2>7. x = y
    <3>1. x # None => x.id # None
      BY <2>2, <2>4, NoneAssumption DEF IsResume
    <3>2. y # None => y.id # None
      BY <2>3, <2>5, NoneAssumption DEF IsResume
    <3> QED BY <2>1, <2>2, <2>4, <2>5, <2>6, <3>1, <3>2
  <2>8. \A n \in Names : s[n].present = t[n].present /\ s[n].score <= t[n].score
    <3>1. \A n \in Names \ {"skills"} : s[n] = t[n]
      BY <2>1, <2>4, <2>5, <2>7 DEF Signals, Names
    <3>2. s["skills"] = skillsMatch(job, c.skills) /\ t["skills"] = skillsMatch(job, c.skills \cup {skill})
      BY <2>1, <2>4, <2>5 DEF Signals
    <3>3. s["skills"].present = t["skills"].present /\ s["skills"].score <= t["skills"].score
      <4> DEFINE b == skillsMatch(job, c.skills)
                 a == skillsMatch(job, c.skills \cup {skill})
      <4>1. b.present = a.present /\ b.score <= a.score
        BY SkillsSignal
      <4> HIDE DEF s, t
      <4> QED BY <3>2, <4>1
    <3>4. \A n \in Names : s[n].score <= s[n].score
      BY <2>4 DEF IsSignal
    <3> HIDE DEF s, t
    <3> QED BY <3>1, <3>3, <3>4
  <2>9. before.raw \in Int /\ after.raw \in Int /\ before.raw <= after.raw
    <3>1. \A n \in Names : IsSignal(s[n]) /\ IsSignal(t[n])
      BY <2>4, <2>5
    <3> HIDE DEF s, t
    <3> QED BY <2>4, <2>5, <2>8, <3>1, MeanFollows
  <2>10. after.overall >= before.overall
    BY <2>1, <2>4, <2>5, <2>9 DEF Smaller, HARD_REQUIREMENT_CAP
  <2> QED BY <2>10 DEF before, after, c, d, Result
<1> QED BY <1>1, RowsAlways, PTL

(* Theorem: the score before the cap lies between the worst and the best   *)
(* of the signals that are present (the sums of runMatchEngine), for any   *)
(* job and candidate.                                                      *)
THEOREM ScoreIsMean == ProfileSpec => []ScoreIsMeanOfPresent
<1>1. ProfileInv /\ RowsOK => ScoreIsMeanOfPresent
  <2> DEFINE signals(job) == Result(job).signals
             scores(job) == {signals(job)[n].score : n \in PresentIn(signals(job))}
  <2> SUFFICES ASSUME ProfileInv, RowsOK, AtRest, NEW job \in Jobs, scores(job) # {}
               PROVE  \E low, high \in scores(job) :
                        low <= Result(job).raw /\ Result(job).raw <= high
    BY DEF ScoreIsMeanOfPresent
  <2> DEFINE s == signals(job)
             raw == Result(job).raw
  <2>1. raw = RawScore(s) /\ \A n \in Names : IsSignal(s[n])
    BY CandidateTyped, Engine DEF Result
  <2>2. DOMAIN s = Names
    <3>1. s = Signals(job, Candidate, AsOf, Chosen(job, Candidate))
      BY CandidateTyped, Engine DEF Result
    <3> QED BY <3>1 DEF Signals, Names
  <2>3. scores(job) = {s[n].score : n \in {m \in Names : s[m].present}}
    BY <2>2 DEF PresentIn
  <2> HIDE DEF s, raw
  <2>4. \E n \in Names : s[n].present
    BY <2>3
  <2>5. raw \in Int /\ \A n \in Names : s[n].score \in Int
    <3>1. \A n \in Names : s[n].score <= s[n].score /\ s[n].score \in Int
      BY <2>1 DEF IsSignal
    <3> QED BY <2>1, <3>1, MeanFollows
  <2>6. \E n \in Names : s[n].present /\ s[n].score <= raw
    <3> SUFFICES ASSUME \A n \in Names : s[n].present => raw + 1 <= s[n].score PROVE FALSE
      BY <2>5
    <3>1. raw + 1 <= raw
      BY <2>1, <2>4, <2>5, MeanIsBounded
    <3> QED BY <2>5, <3>1
  <2>7. \E n \in Names : s[n].present /\ raw <= s[n].score
    <3> SUFFICES ASSUME \A n \in Names : s[n].present => s[n].score <= raw - 1 PROVE FALSE
      BY <2>5
    <3>1. raw <= raw - 1
      BY <2>1, <2>4, <2>5, MeanIsBounded
    <3> QED BY <2>5, <3>1
  <2>8. \E low, high \in scores(job) : low <= raw /\ raw <= high
    BY <2>3, <2>6, <2>7
  <2> QED BY <2>8 DEF raw
<1> QED BY <1>1, RowsAlways, PTL

--------------------------------------------------------------------------------
(* The resume *)

(* Lemma: a finite set has a first element in an order of its pairs.       *)
LEMMA FirstExists ==
  ASSUME NEW S, IsFiniteSet(S), S # {}, NEW R,
         \A x, y \in S : <<x, y>> \in R \/ <<y, x>> \in R,
         \A x, y, z \in S : <<x, y>> \in R /\ <<y, z>> \in R => <<x, z>> \in R
  PROVE  \E x \in S : \A y \in S : <<x, y>> \in R
<1> DEFINE HasFirst(T) == \E x \in T : \A y \in T : <<x, y>> \in R
           G == {n \in Nat : \A T \in SUBSET S : Cardinality(T) = n => T = {} \/ HasFirst(T)}
<1>1. 0 \in G
  <2>1. \A T \in SUBSET S : Cardinality(T) = 0 => T = {}
    BY FS_Subset, FS_EmptySet
  <2> QED BY <2>1
<1>2. ASSUME NEW n \in G PROVE n + 1 \in G
  <2> SUFFICES ASSUME NEW T \in SUBSET S, Cardinality(T) = n + 1, NEW z \in T
               PROVE  HasFirst(T)
    OBVIOUS
  <2>1. IsFiniteSet(T) /\ n \in Nat
    BY FS_Subset
  <2>2. Cardinality(T \ {z}) = n
    <3>1. Cardinality(T \ {z}) = Cardinality(T) - 1
      BY <2>1, FS_RemoveElement
    <3> QED BY <2>1, <3>1
  <2>3. T \ {z} = {} \/ HasFirst(T \ {z})
    BY <2>2
  <2>4. CASE T \ {z} = {}
    BY <2>4
  <2>5. CASE HasFirst(T \ {z})
    <3>1. PICK x \in T \ {z} : \A y \in T \ {z} : <<x, y>> \in R
      BY <2>5
    <3>2. CASE <<x, z>> \in R
      BY <3>1, <3>2
    <3>3. CASE <<z, x>> \in R
      <4>1. \A y \in T : <<z, y>> \in R
        BY <3>1, <3>3
      <4> QED BY <4>1
    <3> QED BY <3>2, <3>3
  <2> QED BY <2>3, <2>4, <2>5
<1>3. Cardinality(S) \in G
  <2>1. \A n \in Nat : n \in G => n + 1 \in G
    BY <1>2
  <2> HIDE DEF G
  <2>2. Nat \subseteq G
    BY <1>1, <2>1, NumberInduction
  <2> QED BY <2>2, FS_CardinalityType
<1> QED BY <1>3

(* Lemma: the score of a resume is a number.                               *)
LEMMA ResumeScoreTyped ==
  ASSUME NEW job \in Jobs, NEW known, NEW r, IsResume(r)
  PROVE  ResumeScore(r, job, known) \in Int
<1> DEFINE wanted == job.required \cup job.preferred
           pool == IF r.skills # {} THEN r.skills ELSE {s.name : s \in known}
           size == Cardinality(wanted)
           covered == Cardinality(wanted \cap pool)
           similarity == IF r.similarity = None THEN 0 ELSE r.similarity
           match == IF classifyJobCategory(job) = r.category THEN 25000 ELSE 0
<1>1. size \in Nat /\ covered \in Nat
  <2>1. IsFiniteSet(wanted)
    BY JobsAssumption, FS_Union
  <2>2. IsFiniteSet(wanted \cap pool)
    BY <2>1, FS_Subset
  <2> QED BY <2>1, <2>2, FS_CardinalityType
<1>2. similarity \in Int /\ match \in Int
  BY DEF IsResume
<1>3. ResumeScore(r, job, known) = IF wanted = {} THEN match + 15000 + similarity
                                   ELSE size * match + 15000 * covered + size * similarity
  BY DEF ResumeScore
<1> HIDE DEF wanted, size, covered, similarity, match
<1> QED BY <1>1, <1>2, <1>3

(* Theorem: one resume is recommended as soon as one has a version,        *)
(* whatever order the list is in: selectRecommendedResume leaves no tie.   *)
THEOREM OneRecommended == ProfileSpec => []OneResumeRecommended
<1>1. ProfileInv /\ RowsOK => OneResumeRecommended
  <2> SUFFICES ASSUME ProfileInv, RowsOK, AtRest, NEW job \in Jobs
               PROVE  Cardinality(Selectable(Owned(resumes), job, Owned(skills))) =
                        IF \E r \in Owned(resumes) : r.version > 0 THEN 1 ELSE 0
    BY DEF OneResumeRecommended
  <2> DEFINE known == Owned(skills)
             C == {r \in Owned(resumes) : r.version > 0}
             winners == Selectable(Owned(resumes), job, known)
             R == {p \in C \X C : ResumeBefore(p[1], p[2], job, known)}
  <2>1. /\ IsFiniteSet(C) /\ \A r \in C : IsResume(r)
        /\ \A r, s \in C : r.id = s.id => r = s
    <3>1. Candidate.resumes = Owned(resumes)
      BY DEF Candidate
    <3> QED BY <3>1, CandidateTyped, FS_Subset
  <2>2. winners = {r \in C : \A s \in C : ResumeBefore(r, s, job, known)}
    BY DEF Selectable
  <2>3. ASSUME NEW r \in C, NEW s \in C
        PROVE  (<<r, s>> \in R) <=> ResumeBefore(r, s, job, known)
    OBVIOUS
  <2> HIDE DEF known, C, R, winners
  <2>4. \A r \in C : ResumeScore(r, job, known) \in Int /\ r.version \in Nat /\ r.id \in Int
    BY <2>1, ResumeScoreTyped DEF IsResume
  <2>5. ASSUME NEW r \in C, NEW s \in C PROVE <<r, s>> \in R \/ <<s, r>> \in R
    <3> DEFINE x == ResumeScore(r, job, known)
               y == ResumeScore(s, job, known)
    <3>1. x \in Int /\ y \in Int /\ r.version \in Nat /\ s.version \in Nat /\ r.id \in Int /\ s.id \in Int
      BY <2>4
    <3>2. /\ ResumeBefore(r, s, job, known) <=>
              x > y \/ (x = y /\ (r.version > s.version \/ (r.version = s.version /\ r.id <= s.id)))
          /\ ResumeBefore(s, r, job, known) <=>
              y > x \/ (y = x /\ (s.version > r.version \/ (s.version = r.version /\ s.id <= r.id)))
      BY DEF ResumeBefore
    <3> HIDE DEF x, y
    <3> QED BY <2>3, <3>1, <3>2
  <2>6. \A r, s, q \in C : <<r, s>> \in R /\ <<s, q>> \in R => <<r, q>> \in R
    BY <2>3, <2>4 DEF ResumeBefore
  <2>7. \A r, s \in C : <<r, s>> \in R /\ <<s, r>> \in R => r = s
    BY <2>1, <2>3, <2>4 DEF ResumeBefore
  <2>8. CASE C = {}
    <3>1. winners = {}
      BY <2>2, <2>8
    <3>2. ~\E r \in Owned(resumes) : r.version > 0
      BY <2>8 DEF C
    <3> QED BY <3>1, <3>2, FS_EmptySet DEF winners, known
  <2>9. CASE C # {}
    <3>1. PICK r \in C : \A s \in C : <<r, s>> \in R
      BY <2>1, <2>5, <2>6, <2>9, FirstExists
    <3>2. \A s \in C : ResumeBefore(r, s, job, known)
      BY <2>3, <3>1
    <3>3. ASSUME NEW s \in winners PROVE s = r
      <4>1. s \in C /\ ResumeBefore(s, r, job, known)
        BY <2>2, <3>3
      <4> QED BY <2>3, <2>7, <3>1, <4>1
    <3>4. winners = {r}
      BY <2>2, <3>2, <3>3
    <3>5. \E q \in Owned(resumes) : q.version > 0
      BY <2>9 DEF C
    <3> QED BY <3>4, <3>5, FS_Singleton DEF winners, known
  <2> QED BY <2>8, <2>9
<1> QED BY <1>1, RowsAlways, PTL

================================================================================
