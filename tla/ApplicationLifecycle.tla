-------------------------- MODULE ApplicationLifecycle --------------------------
(***************************************************************************)
(* What the application engine and its repository promise, whatever the   *)
(* interleaving of their callers: applications are opened one at a time   *)
(* per (candidate, canonical job) slot and only ever follow the edges of  *)
(* the approved state machine.  Applications.tla is shown to implement it. *)
(***************************************************************************)
EXTENDS ApplicationStateMachine

CONSTANTS AppId,  \* identities of applications
          Slots,  \* (candidateId, jobId) pairs
          NoSlot  \* the slot of an application that does not exist

VARIABLES status,  \* status[a] is "ABSENT" until a is created
          slot     \* slot[a]

lifecycleVars == <<status, slot>>

ActiveIn(s) ==
  {a \in AppId : slot[a] = s /\ status[a] # "ABSENT" /\ isActiveStatus(status[a])}

LifecycleInit ==
  /\ status = [a \in AppId |-> "ABSENT"]
  /\ slot = [a \in AppId |-> NoSlot]

(* A new application is visible from SHORTLISTED on: its bootstrap         *)
(* transitions happen inside the transaction that inserts it.              *)
Open(a, s) ==
  /\ status[a] = "ABSENT"
  /\ ActiveIn(s) = {}
  /\ status' = [status EXCEPT ![a] = "SHORTLISTED"]
  /\ slot' = [slot EXCEPT ![a] = s]

Advance(a) ==
  /\ status[a] # "ABSENT"
  /\ \E to \in Status :
       /\ <<status[a], to>> \in ALLOWED
       /\ status' = [status EXCEPT ![a] = to]
  /\ UNCHANGED slot

LifecycleNext == \E a \in AppId : Advance(a) \/ \E s \in Slots : Open(a, s)

LifecycleSpec == LifecycleInit /\ [][LifecycleNext]_lifecycleVars

(* A1: at most one active application per candidate and canonical job.     *)
OneActivePerSlot ==
  \A a, b \in AppId :
    /\ status[a] # "ABSENT" /\ isActiveStatus(status[a])
    /\ status[b] # "ABSENT" /\ isActiveStatus(status[b])
    /\ slot[a] = slot[b]
    => a = b
================================================================================
