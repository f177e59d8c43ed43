-------------------------- MODULE MCCandidateProfile --------------------------
(* Values for the constants of CandidateProfile.                           *)
EXTENDS CandidateProfile

MCTextOrder == <<"en", "english", "fr">>
MCCanonical == [t \in {"en", "english", "fr"} |-> IF t = "fr" THEN "french" ELSE "english"]

Asks(language, level) == [language |-> language, level |-> level]
Pays(min, max, currency) == [min |-> min, max |-> max, currency |-> currency]

(* A job that says all, one that says little, and one for a native.        *)
MCJobs ==
  {[required |-> {"ts", "react"}, preferred |-> {"sql"}, level |-> "mid", remote |-> "hybrid",
    location |-> {"es"}, salary |-> Pays(40, 60, "EUR"), employment |-> "full",
    languages |-> {Asks("english", "B2"), Asks("french", None)},
    titleCategory |-> "data", descriptionCategory |-> "software"],
   [required |-> {}, preferred |-> {"ts"}, level |-> "unknown", remote |-> "remote",
    location |-> None, salary |-> None, employment |-> None,
    languages |-> {}, titleCategory |-> None, descriptionCategory |-> "software"],
   [required |-> {"sql"}, preferred |-> {}, level |-> "junior", remote |-> None,
    location |-> {"fr"}, salary |-> Pays(50, 50, None), employment |-> "contract",
    languages |-> {Asks("english", "native")},
    titleCategory |-> None, descriptionCategory |-> None]}

MCProfiles ==
  {[country |-> "es", remote |-> {"remote"}, relocation |-> FALSE,
    salary |-> Pays(60, 45, "EUR"), employment |-> {"full"}],
   [country |-> None, remote |-> {}, relocation |-> TRUE, salary |-> None, employment |-> {}]}

MCSkills == {[name |-> "typescript", aliases |-> {"ts"}], [name |-> "sql", aliases |-> {}]}

Span(start, end) == [start |-> start, end |-> end]
MCSpans == {Span(0, 24), Span(12, 30), Span(12, None), Span(6, 10), Span(30, 24)}

Original(id, category, version, known, similarity) ==
  [id |-> id, category |-> category, version |-> version, skills |-> known,
   similarity |-> similarity]
MCOriginals ==
  {Original(1, "software", 1, {}, 8000), Original(2, "software", 1, {"sql"}, 8000),
   Original(3, "data", 2, {}, None)}
================================================================================
