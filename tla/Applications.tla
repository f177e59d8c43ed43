------------------------------ MODULE Applications ------------------------------
(***************************************************************************)
(* The application aggregate: the concurrent commands of                   *)
(* packages/application-engine/src/engine.ts over the PostgreSQL           *)
(* repository packages/database/src/repositories/application-repo.ts.      *)
(*                                                                         *)
(* Every await of a command is a step of its own, so commands interleave   *)
(* between any two reads and writes; a repository transaction is one step. *)
(* A process of Procs (an API request, a documents worker) runs one        *)
(* command at a time, and may fail or stop between any two of its steps.   *)
(***************************************************************************)
EXTENDS Integers, ApplicationStateMachine

CONSTANTS AppId,      \* identities an application can get (uuidv7 never repeats)
          Slots,      \* (candidateId, jobId) pairs
          Matches,    \* job matches
          MatchSlot,  \* MatchSlot[m]: the candidate and job match m is about
          Procs,      \* the requests and jobs in flight at the same time
          SupersedesInput, \* the supersedesApplicationId values requests carry
          CooldownDays,  \* policy.reapplicationCooldownDays
          MaxTime,    \* bound on the clock
          WithSubmission, \* whether the submission phase is there to go on
          NoSlot, NoApp, NoKey  \* null values

ASSUME SlotAssumption == NoSlot \notin Slots
ASSUME AppAssumption == NoApp \notin AppId
ASSUME MatchAssumption == MatchSlot \in [Matches -> Slots]
ASSUME InputAssumption == SupersedesInput \subseteq AppId \cup {NoApp}
ASSUME TimeAssumption == CooldownDays \in Nat /\ MaxTime \in Nat
ASSUME PhaseAssumption == WithSubmission \in BOOLEAN

VARIABLES
  row,      \* the application table
  head,     \* head[a]: the last transition event of application a
  audited,  \* audited[a]: the actions audit_log holds for application a
  cmd,      \* cmd[p]: the command process p runs and the step it is at
  clock     \* the day deps.clock.now() falls on

vars == <<row, head, audited, cmd, clock>>

--------------------------------------------------------------------------------
(* Data *)

Time == 0..MaxTime

(* PHASE4_APPLICATION_MODES: assertPhase4Mode refuses the others.          *)
CreationMode == {"manual", "assisted"}

(* computeApplicationIdempotencyKey: sha256 of candidate, job, match, mode *)
(* and superseded application; the match determines candidate and job.     *)
Key == Matches \X CreationMode \X (AppId \cup {NoApp})

AbsentRow ==
  [status |-> "ABSENT", slot |-> NoSlot, key |-> NoKey, supersedes |-> NoApp,
   createdAt |-> 0, lastTransitionAt |-> 0, asksHuman |-> FALSE]

Row == [status : Status, slot : Slots, key : Key, supersedes : AppId \cup {NoApp},
        createdAt : Time, lastTransitionAt : Time, asksHuman : BOOLEAN]

NoEvent == [from |-> "ABSENT", to |-> "ABSENT"]
Event == [from : Status, to : Status]

(* A create command, from the context it read to the answer it gives.      *)
CreateCommand ==
  [step : {"findByKey", "findActive", "checkReapply", "bootstrap", "auditCreate"},
   match : Matches, mode : CreationMode, supersedes : AppId \cup {NoApp},
   confirm : BOOLEAN, now : Time, app : AppId \cup {NoApp}]

(* The commands on the status of an application.                           *)
Operation == {"archive", "resolve", "transition", "prepare", "raise"}

(* application.created, .archived, .human_action_resolved and              *)
(* .requires_human_action, by the command that writes them.                *)
AuditAction == {"created"} \cup Operation

(* The transition such a command has decided on (expected is the status it *)
(* read, hasReason whether the row gets a requiresHumanReason) and what    *)
(* becomes of it once that is committed.                                   *)
StatusCommand ==
  [step : {"commit", "preparing", "audit"}, op : Operation, app : AppId,
   expected : Status, to : Status, hasReason : BOOLEAN, now : Time]

Idle == [step |-> "idle"]

Exists(a) == row[a].status # "ABSENT"
IsActive(a) == Exists(a) /\ isActiveStatus(row[a].status)
InSlot(s) == {a \in AppId : Exists(a) /\ row[a].slot = s}
WithKey(k) == {a \in AppId : Exists(a) /\ row[a].key = k}

Init ==
  /\ row = [a \in AppId |-> AbsentRow]
  /\ head = [a \in AppId |-> NoEvent]
  /\ audited = [a \in AppId |-> {}]
  /\ cmd = [p \in Procs |-> Idle]
  /\ clock = 0

--------------------------------------------------------------------------------
(* createFromMatch: one action per await *)

Run(p, command) == cmd' = [cmd EXCEPT ![p] = command]
GoTo(p, step) == Run(p, [cmd[p] EXCEPT !.step = step])
Finish(p) == Run(p, Idle)

(* The command reads the clock and the match context.  A match that is not *)
(* current, a job that is not active and an AUTO command end it here: the  *)
(* matches enumerated are those whose context read lets it go on.          *)
(* confirmReapply is only ever looked at beside supersedesApplicationId.   *)
BeginCreate(p, m, mode, supersedes, confirm) ==
  /\ cmd[p] = Idle
  /\ IF supersedes = NoApp THEN ~confirm ELSE Exists(supersedes)
  /\ Run(p, [step |-> "findByKey", match |-> m, mode |-> mode, supersedes |-> supersedes,
             confirm |-> confirm, now |-> clock, app |-> NoApp])
  /\ UNCHANGED <<row, head, audited, clock>>

(* A bug the runs inject: the key leaves out the superseded application.   *)
computeApplicationIdempotencyKey_Short(c) == <<c.match, c.mode>>

computeApplicationIdempotencyKey(c) == <<c.match, c.mode, c.supersedes>>
SlotOf(c) == MatchSlot[c.match]

(* An application with this key answers the command (or, when it is        *)
(* REJECTED, refuses it): either way the command ends.                     *)
findByIdempotencyKey(p) ==
  /\ cmd[p].step = "findByKey"
  /\ IF WithKey(computeApplicationIdempotencyKey(cmd[p])) # {}
       THEN Finish(p)
       ELSE GoTo(p, "findActive")
  /\ UNCHANGED <<row, head, audited, clock>>

findActiveByJobCandidate(p) ==
  /\ cmd[p].step = "findActive"
  /\ IF \E a \in InSlot(SlotOf(cmd[p])) : IsActive(a)
       THEN Finish(p)  \* ConflictError
       ELSE GoTo(p, "checkReapply")
  /\ UNCHANGED <<row, head, audited, clock>>

isCooldownSatisfied(lastTransitionAt, now) == now - lastTransitionAt >= CooldownDays

(* A bug the runs inject: any earlier application can be superseded.       *)
MayReapply_AnyStatus(c) ==
  LET previous == row[c.supersedes] IN
  /\ c.confirm
  /\ previous.slot = SlotOf(c)
  /\ isCooldownSatisfied(previous.lastTransitionAt, c.now)

MayReapply(c) ==
  LET previous == row[c.supersedes] IN
  /\ c.confirm
  /\ previous.slot = SlotOf(c)
  /\ previous.status = "REJECTED"
  /\ isCooldownSatisfied(previous.lastTransitionAt, c.now)

(* Without supersedesApplicationId no earlier application of the slot may  *)
(* be REJECTED.                                                            *)
MayApplyAfresh(c) == \A a \in InSlot(SlotOf(c)) : row[a].status # "REJECTED"

(* The reapplication policy, then the read of the resume version, which    *)
(* can only refuse the command.                                            *)
CheckReapply(p) ==
  LET c == cmd[p] IN
  /\ c.step = "checkReapply"
  /\ IF (c.supersedes # NoApp /\ MayReapply(c)) \/ (c.supersedes = NoApp /\ MayApplyAfresh(c))
       THEN GoTo(p, "bootstrap")
       ELSE Finish(p)
  /\ UNCHANGED <<row, head, audited, clock>>

NewRow(c) ==
  [status |-> "SHORTLISTED", slot |-> SlotOf(c),
   key |-> computeApplicationIdempotencyKey(c), supersedes |-> c.supersedes,
   createdAt |-> c.now, lastTransitionAt |-> c.now, asksHuman |-> FALSE]

SlotTaken(s) == \E a \in InSlot(s) : IsActive(a)

(* Bugs the runs inject: one of the table's two unique indexes is missing. *)
InsertConflicts_NoSlotIndex(c) == WithKey(computeApplicationIdempotencyKey(c)) # {}
InsertConflicts_NoKeyIndex(c) == SlotTaken(SlotOf(c))

(* What INSERT ... ON CONFLICT DO NOTHING meets: the unique index on the   *)
(* key and the partial unique index on the active rows of a slot.          *)
InsertConflicts(c) ==
  WithKey(computeApplicationIdempotencyKey(c)) # {} \/ SlotTaken(SlotOf(c))

(* createWithBootstrap, the transaction under the advisory lock of the     *)
(* slot: a row with this key is returned as it is, an active row of the    *)
(* slot is a ConflictError, else row and bootstrap events appear together. *)
createWithBootstrap(p) ==
  LET c == cmd[p] IN
  /\ c.step = "bootstrap"
  /\ \/ \E a \in AppId :
          /\ ~InsertConflicts(c)
          /\ ~Exists(a)
          /\ row' = [row EXCEPT ![a] = NewRow(c)]
          /\ head' = [head EXCEPT ![a] = [from |-> "FILTERED", to |-> "SHORTLISTED"]]
          /\ Run(p, [c EXCEPT !.step = "auditCreate", !.app = a])
     \/ \E a \in WithKey(computeApplicationIdempotencyKey(c)) :
          /\ Run(p, [c EXCEPT !.step = "auditCreate", !.app = a])
          /\ UNCHANGED <<row, head>>
     \/ /\ WithKey(computeApplicationIdempotencyKey(c)) = {}
        /\ InsertConflicts(c)
        /\ Finish(p)
        /\ UNCHANGED <<row, head>>
  /\ UNCHANGED <<audited, clock>>

(* The audit entry is written after the transaction, created or not.       *)
AuditCreate(p) ==
  /\ cmd[p].step = "auditCreate"
  /\ audited' = [audited EXCEPT ![cmd[p].app] = @ \cup {"created"}]
  /\ Finish(p)
  /\ UNCHANGED <<row, head, clock>>

--------------------------------------------------------------------------------
(* Commands on the status: read and decide, compare-and-set, audit *)

Decide(p, op, a, to, hasReason) ==
  /\ Run(p, [step |-> "commit", op |-> op, app |-> a, expected |-> row[a].status,
             to |-> to, hasReason |-> hasReason /\ to = "REQUIRES_HUMAN_ACTION",
             now |-> clock])
  /\ UNCHANGED <<row, head, audited, clock>>

Context(a, actor, hasReason, flags) ==
  [actor |-> actor, mode |-> row[a].key[2], hasReason |-> hasReason,
   snapshotComplete |-> flags, submissionAuthorized |-> flags, retryAllowed |-> flags]

(* POST /v1/applications/:id/archive                                       *)
archive(p, a) ==
  /\ cmd[p] = Idle /\ Exists(a)
  /\ canTransition(row[a].status, "ARCHIVED", Context(a, "user", FALSE, FALSE))
  /\ Decide(p, "archive", a, "ARCHIVED", FALSE)

(* POST /v1/applications/:id/resolve-human                                 *)
resolveHumanAction(p, a) ==
  /\ cmd[p] = Idle /\ Exists(a)
  /\ row[a].status = "REQUIRES_HUMAN_ACTION"
  /\ Decide(p, "resolve", a, "PREPARING", TRUE)

(* The engine's general transition command, which no route calls yet: it   *)
(* never claims a snapshot, an authorization or a retry.                   *)
transition(p, a, to, actor, hasReason) ==
  /\ WithSubmission
  /\ cmd[p] = Idle /\ Exists(a)
  /\ canTransition(row[a].status, to, Context(a, actor, hasReason, FALSE))
  /\ Decide(p, "transition", a, to, hasReason)

(* Submission and follow-up (the commands of the next phase, not in the    *)
(* repository yet): the approved edges with every guard they can satisfy.  *)
submissionTransition(p, a, to, actor) ==
  /\ WithSubmission
  /\ cmd[p] = Idle /\ Exists(a)
  /\ canTransition(row[a].status, to, Context(a, actor, TRUE, TRUE))
  /\ Decide(p, "transition", a, to, TRUE)

Preparing(a) ==
  [step |-> "preparing", op |-> "prepare", app |-> a, expected |-> "SHORTLISTED",
   to |-> "PREPARING", hasReason |-> FALSE, now |-> clock]

(* prepareDocuments, as far as it touches the status: SHORTLISTED moves to *)
(* PREPARING, PREPARING goes on, any other status is a ConflictError.      *)
prepareDocuments(p, a) ==
  /\ cmd[p] = Idle
  /\ \/ row[a].status = "SHORTLISTED" /\ Decide(p, "prepare", a, "PREPARING", FALSE)
     \/ /\ row[a].status = "PREPARING"
        /\ Run(p, Preparing(a))
        /\ UNCHANGED <<row, head, audited, clock>>

(* raiseHumanAction expects PREPARING without reading the status again.    *)
raiseHumanAction(p) ==
  /\ cmd[p].step = "preparing"
  /\ Run(p, [step |-> "commit", op |-> "raise", app |-> cmd[p].app,
             expected |-> "PREPARING", to |-> "REQUIRES_HUMAN_ACTION",
             hasReason |-> TRUE, now |-> clock])
  /\ UNCHANGED <<row, head, audited, clock>>

(* A bug the runs inject: the UPDATE loses its WHERE status = expected.    *)
StatusAsExpected_Blind(c) == TRUE

(* The compare half of transitionWithEvent's compare-and-set.              *)
StatusAsExpected(c) == row[c.app].status = c.expected

(* A bug the runs inject: raising a human action drops the reason.         *)
AfterTransition_NoReason(r, c) ==
  [r EXCEPT !.status = c.to, !.lastTransitionAt = c.now, !.asksHuman = FALSE]

AfterTransition(r, c) ==
  [r EXCEPT !.status = c.to, !.lastTransitionAt = c.now, !.asksHuman = c.hasReason]

Continue(p) ==
  CASE cmd[p].op = "transition" -> Finish(p)
    [] cmd[p].op = "prepare" -> GoTo(p, "preparing")
    [] OTHER -> GoTo(p, "audit")

(* The update and the event of a transition commit together.               *)
transitionWithEvent(p) ==
  LET c == cmd[p] IN
  /\ c.step = "commit"
  /\ StatusAsExpected(c)
  /\ row' = [row EXCEPT ![c.app] = AfterTransition(@, c)]
  /\ head' = [head EXCEPT ![c.app] = [from |-> c.expected, to |-> c.to]]
  /\ Continue(p)
  /\ UNCHANGED <<audited, clock>>

transitionConflict(p) ==
  /\ cmd[p].step = "commit"
  /\ ~StatusAsExpected(cmd[p])
  /\ Finish(p)
  /\ UNCHANGED <<row, head, audited, clock>>

(* A bug the runs inject: the audit entry is written before the commit.    *)
AuditDue_Early(c) == c.step \in {"commit", "audit"} /\ c.op \notin {"transition", "prepare"}

AuditDue(c) == c.step = "audit"

AuditStatusChange(p) ==
  /\ AuditDue(cmd[p])
  /\ audited' = [audited EXCEPT ![cmd[p].app] = @ \cup {cmd[p].op}]
  /\ Finish(p)
  /\ UNCHANGED <<row, head, clock>>

(* The command ends without its next step: preparation has nothing to      *)
(* raise, a request fails, a process stops.                                *)
Abandon(p) ==
  /\ cmd[p] # Idle
  /\ Finish(p)
  /\ UNCHANGED <<row, head, audited, clock>>

Tick ==
  /\ clock < MaxTime
  /\ clock' = clock + 1
  /\ UNCHANGED <<row, head, audited, cmd>>

--------------------------------------------------------------------------------

CreateNext(p) ==
  \/ \E m \in Matches, mode \in CreationMode, s \in SupersedesInput, confirm \in BOOLEAN :
       BeginCreate(p, m, mode, s, confirm)
  \/ findByIdempotencyKey(p)
  \/ findActiveByJobCandidate(p)
  \/ CheckReapply(p)
  \/ createWithBootstrap(p)
  \/ AuditCreate(p)

StatusNext(p) ==
  \/ \E a \in AppId :
       \/ archive(p, a)
       \/ resolveHumanAction(p, a)
       \/ prepareDocuments(p, a)
       \/ \E to \in Status, actor \in Actor :
            \/ submissionTransition(p, a, to, actor)
            \/ \E hasReason \in BOOLEAN : transition(p, a, to, actor, hasReason)
  \/ raiseHumanAction(p)
  \/ transitionWithEvent(p)
  \/ transitionConflict(p)
  \/ AuditStatusChange(p)

Next ==
  \/ \E p \in Procs : CreateNext(p) \/ StatusNext(p) \/ Abandon(p)
  \/ Tick

Spec == Init /\ [][Next]_vars

--------------------------------------------------------------------------------
(* Properties *)

TypeOK ==
  /\ row \in [AppId -> Row \cup {AbsentRow}]
  /\ head \in [AppId -> Event \cup {NoEvent}]
  /\ audited \in [AppId -> SUBSET AuditAction]
  /\ cmd \in [Procs -> CreateCommand \cup StatusCommand \cup {Idle}]
  /\ clock \in Time

(* A1: whatever creates, archives and transitions race, at most one        *)
(* application is active per candidate and canonical job.                  *)
OneActivePerSlot ==
  \A a, b \in AppId :
    IsActive(a) /\ IsActive(b) /\ row[a].slot = row[b].slot => a = b

(* The same logical create command is one application for ever: no two     *)
(* rows, whatever their status, carry the same idempotency key.            *)
OneApplicationPerKey ==
  \A a, b \in AppId : Exists(a) /\ Exists(b) /\ row[a].key = row[b].key => a = b

(* The timeline has no gap, whoever races: a change of status leaves an    *)
(* event that starts where the previous event ended and ends where the row *)
(* now is.  (The first one a reader sees is the last of the bootstrap.)    *)
TimelineIsChain ==
  [][\A a \in AppId :
       row'[a].status # row[a].status =>
         /\ head'[a].to = row'[a].status
         /\ head[a] # NoEvent => head'[a].from = head[a].to]_vars

(* The audit log never reports what did not happen: an entry is written    *)
(* only after the transaction it is about has committed.                   *)
AuditNeverAhead ==
  \A a \in AppId :
    /\ audited[a] # {} => Exists(a)
    /\ "archive" \in audited[a] => row[a].status = "ARCHIVED"

(* A reapplication was earned: it names an application of the same slot    *)
(* that was rejected, and (while that one has not moved on) it was made at *)
(* least the cooldown after the rejection.                                 *)
ReapplicationEarned ==
  \A a \in AppId :
    LET p == row[a].supersedes IN
    Exists(a) /\ p # NoApp =>
      /\ Exists(p) /\ row[p].slot = row[a].slot
      /\ \/ row[p].status = "REJECTED"
            /\ row[a].createdAt - row[p].lastTransitionAt >= CooldownDays
         \/ head[p] = [from |-> "REJECTED", to |-> "ARCHIVED"]

(* An application whose human action was raised by preparation always has  *)
(* a reason to show, and none once it is resolved.                         *)
HumanReasonShown ==
  \A a \in AppId :
    /\ row[a].asksHuman => row[a].status = "REQUIRES_HUMAN_ACTION"
    /\ head[a] = [from |-> "PREPARING", to |-> "REQUIRES_HUMAN_ACTION"] => row[a].asksHuman

WasRejected(a) == row[a].status = "REJECTED" \/ head[a].from = "REJECTED"
CreatedIn(b, s) == ~Exists(b) /\ row'[b].status # "ABSENT" /\ row'[b].slot = s

(* ADR-021: applying again after a rejection takes supersedesApplicationId *)
(* and a confirmation, so no application is ever created afresh in a slot  *)
(* where one was rejected.                                                 *)
RejectionNeedsSupersedes ==
  [][\A a, b \in AppId :
       WasRejected(a) /\ CreatedIn(b, row[a].slot) => row'[b].supersedes # NoApp]_vars

(* reapplicationCooldownDays is the least time between a rejection and a   *)
(* new application in its slot, whichever rejection the request names.     *)
CooldownAfterEveryRejection ==
  [][\A a, b \in AppId :
       row[a].status = "REJECTED" /\ CreatedIn(b, row[a].slot)
       => row'[b].createdAt - row[a].lastTransitionAt >= CooldownDays]_vars

--------------------------------------------------------------------------------
(* The engine implements the abstract life cycle. *)
Lifecycle == INSTANCE ApplicationLifecycle
               WITH status <- [a \in AppId |-> row[a].status],
                    slot <- [a \in AppId |-> row[a].slot]
ImplementsLifecycle == Lifecycle!LifecycleSpec
================================================================================
