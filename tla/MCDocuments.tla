------------------------------ MODULE MCDocuments ------------------------------
(* Values for the constants of Documents.                                  *)
EXTENDS Documents

Role(start, end, company, title) ==
  [start |-> start, end |-> end, company |-> company, title |-> title]
Degree(degree, institution, start, end, status) ==
  [degree |-> degree, institution |-> institution, start |-> start, end |-> end,
   status |-> status]
Speaks(language, level) == [language |-> language, level |-> level]
Skill(names, years) == [names |-> names, years |-> years]

(* Overlapping roles, one of them open; the same language twice; a name    *)
(* that is the alias of another skill; nothing at all.                     *)
MCProfiles ==
  {[skills |-> <<Skill({"js", "node"}, 20), Skill({"node"}, None)>>,
    experiences |-> <<Role(0, 19, "acme", "dev"), Role(12, None, "beta", "lead")>>,
    education |-> <<Degree("msc", "uni", 0, None, "in_progress"),
                    Degree("bsc", "uni", None, None, "completed")>>,
    languages |-> <<Speaks("english", "B1"), Speaks("english", "C1")>>,
    salary |-> [min |-> 40, max |-> None, currency |-> "EUR"]],
   [skills |-> <<Skill({"node"}, None), Skill({"js", "node"}, 20)>>,
    experiences |-> <<Role(30, 5, "beta", "dev"), Role(0, 8, "acme", "lead")>>,
    education |-> <<Degree("bsc", "uni", 1, 8, "completed")>>,
    languages |-> <<Speaks("english", "C1")>>,
    salary |-> [min |-> 30, max |-> 50, currency |-> "EUR"]],
   [skills |-> <<>>, experiences |-> <<>>, education |-> <<>>, languages |-> <<>>,
    salary |-> None]}

YearsOf(years, skill) == [kind |-> "years_experience", years |-> years, skill |-> skill]
From(start, end) == [kind |-> "date_range", start |-> start, end |-> end]
Titled(title, plain) == [kind |-> "job_title", title |-> title, plain |-> plain]
At(company, plain) == [kind |-> "company", company |-> company, plain |-> plain]
Studied(degree, institution, plain) ==
  [kind |-> "degree", degree |-> degree, institution |-> institution, plain |-> plain]
Level(language, level) == [kind |-> "language_level", language |-> language, level |-> level]
Asks(amount, min, max, currency) ==
  [kind |-> "salary", plain |-> FALSE, amount |-> amount, min |-> min, max |-> max,
   currency |-> currency]
Senior(level) == [kind |-> "seniority", level |-> level]

MCOffers ==
  {YearsOf(333, None), YearsOf(66, None), YearsOf(None, None), YearsOf(196, "node"),
   YearsOf(200, "go"), From(0, 19), From(0, Now), From(12, Now), From(None, None), From(1, 8),
   Titled("lead", FALSE), Titled("cto", FALSE), At("acme", TRUE), At("beta", FALSE),
   Studied("bsc", "uni", FALSE), Studied("msc", None, FALSE), Studied("bsc", None, TRUE),
   Level("english", "B1"), Level("english", "B2"), Level("english", "C2"), Level("english", None),
   Asks(45, None, None, "EUR"), Asks(None, 20, 90, "EUR"), Asks(None, None, 90, "EUR"),
   Asks(45, None, None, "USD"), Asks(45, None, None, None),
   Senior("principal"), Senior(None), [kind |-> "project"], [kind |-> "certification"]}
================================================================================
