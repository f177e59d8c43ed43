------------------------------ MODULE JobCatalogue ------------------------------
(***************************************************************************)
(* What ingestion and the reviews of duplicates promise of the catalogue,  *)
(* however workers and users interleave: a listing is found once and stays *)
(* with its job until a human merges that job; a job opens once, apart     *)
(* from what resembles it, and from then on is only refused or merged into *)
(* the one job it was compared with.  JobIngest is shown to implement it.  *)
(***************************************************************************)
EXTENDS Naturals

CONSTANTS Listings,  \* identities of listings
          Jobs,      \* dedup keys of canonical jobs
          Block,     \* Block[k]: company and location of k
          Score,     \* Score[k][c]: similarity of k and c
          High,      \* equivalent from this score on
          Medium,    \* put to a human from this score on
          None       \* null value

VARIABLES status,  \* status[k] is "absent" until k is opened
          rival,   \* rival[k]: the job a human was asked to compare k with
          known,   \* the listings found so far
          found    \* found[l]: the job of l, None if it was malformed

catalogueVars == <<status, rival, known, found>>

CatalogueInit ==
  /\ status = [k \in Jobs |-> "absent"]
  /\ rival = [k \in Jobs |-> None]
  /\ known = {}
  /\ found = [l \in Listings |-> None]

Opened(k) == status[k] # "absent"

(* A listing is found once.                                                *)
Find(l, k) ==
  /\ l \notin known
  /\ known' = known \cup {l}
  /\ found' = [found EXCEPT ![l] = k]

Quarantine(l) == Find(l, None) /\ UNCHANGED <<status, rival>>

Join(l, k) == Find(l, k) /\ Opened(k) /\ UNCHANGED <<status, rival>>

(* The active jobs that k, which is not open yet, resembles.               *)
Resembles(k, score) == {j \in Jobs : status[j] = "active" /\ Block[j] = Block[k] /\ Score[k][j] >= score}

(* A job opens with its first listing, when no active one is equivalent;   *)
(* c is what a human will compare it with, if anything is in between.      *)
Open(l, k, c) ==
  /\ Find(l, k)
  /\ ~Opened(k) /\ Resembles(k, High) = {}
  /\ \/ c = None /\ Resembles(k, Medium) = {}
     \/ c \in Jobs /\ Opened(c) /\ Block[c] = Block[k] /\ Score[k][c] >= Medium
  /\ status' = [status EXCEPT ![k] = "active"]
  /\ rival' = [rival EXCEPT ![k] = c]

Refuse(k) ==
  /\ Opened(k)
  /\ status' = [status EXCEPT ![k] = "rejected"]
  /\ UNCHANGED <<rival, known, found>>

(* All the listings of k move to its rival, and to nothing else.           *)
Merge(k) ==
  /\ rival[k] # None
  /\ status' = [status EXCEPT ![k] = "archived"]
  /\ found' = [l \in Listings |-> IF found[l] = k THEN rival[k] ELSE found[l]]
  /\ UNCHANGED <<rival, known>>

CatalogueNext ==
  \/ \E l \in Listings :
       \/ Quarantine(l)
       \/ \E k \in Jobs : Join(l, k) \/ \E c \in Jobs \cup {None} : Open(l, k, c)
  \/ \E k \in Jobs : Refuse(k) \/ Merge(k)

CatalogueSpec == CatalogueInit /\ [][CatalogueNext]_catalogueVars
================================================================================
