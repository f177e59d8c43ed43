--------------------------- MODULE ApplicationsProofs ---------------------------
(***************************************************************************)
(* What holds of Applications for every number of applications, slots,    *)
(* matches and concurrent processes, every cooldown and every clock.      *)
(***************************************************************************)
EXTENDS Applications, TLAPS

(* What every command carries, whatever ran since it read it: the edge it  *)
(* is about to take is one of the approved state machine, its application  *)
(* exists, and a created application is audited under its own identity.    *)
CommandOK(c) ==
  /\ c.step \in {"commit", "preparing", "audit"} => Exists(c.app)
  /\ c.step = "auditCreate" => c.app \in AppId
  /\ c.step = "commit" =>
       /\ <<c.expected, c.to>> \in ALLOWED
       /\ c.op = "prepare" => c.to = "PREPARING"

CommandInv == \A p \in Procs : CommandOK(cmd[p])

(* The last event of the timeline ends at the status of the row.           *)
HeadInv == \A a \in AppId : head[a].to = row[a].status

(* Lemma: the approved edges stay within the statuses, and none of them    *)
(* makes an inactive application active again: A1 cannot be lost by a      *)
(* transition.                                                             *)
LEMMA AllowedEdges ==
  ASSUME NEW from, NEW to, <<from, to>> \in ALLOWED
  PROVE  /\ from \in Status /\ to \in Status
         /\ isActiveStatus(to) => isActiveStatus(from)
         /\ from # "ARCHIVED"
  BY DEF ALLOWED, ForwardEdges, Status, isActiveStatus

(* Lemma: the commands that are not a create command have these steps.     *)
LEMMA CommandKinds ==
  ASSUME TypeOK, NEW p \in Procs
  PROVE  /\ cmd[p].step \in {"findByKey", "findActive", "checkReapply", "bootstrap", "auditCreate"}
              => cmd[p] \in CreateCommand
         /\ cmd[p].step \in {"commit", "preparing", "audit"} => cmd[p] \in StatusCommand
         /\ cmd[p].step = "idle" => cmd[p] = Idle
  BY DEF TypeOK, CreateCommand, StatusCommand, Idle

(* TypeOK: rows, events, audit entries and commands keep their types.      *)
THEOREM TypeCorrect == Spec => []TypeOK
<1>1. Init => TypeOK
  BY TimeAssumption DEF Init, TypeOK, Time
<1>2. TypeOK /\ [Next]_vars => TypeOK'
  <2> SUFFICES ASSUME TypeOK, [Next]_vars PROVE TypeOK'
    OBVIOUS
  <2>1. ASSUME NEW p \in Procs, NEW m \in Matches, NEW mode \in CreationMode,
               NEW s \in SupersedesInput, NEW confirm \in BOOLEAN,
               BeginCreate(p, m, mode, s, confirm)
        PROVE TypeOK'
    BY <2>1, InputAssumption DEF TypeOK, BeginCreate, Run, CreateCommand
  <2>2. ASSUME NEW p \in Procs, findByIdempotencyKey(p) PROVE TypeOK'
    BY <2>2, CommandKinds DEF TypeOK, findByIdempotencyKey, GoTo, Finish, Run, CreateCommand
  <2>3. ASSUME NEW p \in Procs, findActiveByJobCandidate(p) PROVE TypeOK'
    BY <2>3, CommandKinds DEF TypeOK, findActiveByJobCandidate, GoTo, Finish, Run, CreateCommand
  <2>4. ASSUME NEW p \in Procs, CheckReapply(p) PROVE TypeOK'
    BY <2>4, CommandKinds DEF TypeOK, CheckReapply, GoTo, Finish, Run, CreateCommand
  <2>5. ASSUME NEW p \in Procs, createWithBootstrap(p) PROVE TypeOK'
    <3>1. cmd[p] \in CreateCommand
      BY <2>5, CommandKinds DEF createWithBootstrap
    <3>2. NewRow(cmd[p]) \in Row
      BY <3>1, MatchAssumption
         DEF NewRow, Row, CreateCommand, Key, SlotOf, computeApplicationIdempotencyKey, Status
    <3>3. ASSUME NEW a \in AppId
          PROVE [cmd[p] EXCEPT !.step = "auditCreate", !.app = a] \in CreateCommand
      BY <3>1, <3>3 DEF CreateCommand
    <3>4. ASSUME NEW a \in AppId,
                 row' = [row EXCEPT ![a] = NewRow(cmd[p])],
                 head' = [head EXCEPT ![a] = [from |-> "FILTERED", to |-> "SHORTLISTED"]],
                 Run(p, [cmd[p] EXCEPT !.step = "auditCreate", !.app = a])
          PROVE TypeOK'
      <4>1. row' \in [AppId -> Row \cup {AbsentRow}]
        BY <3>2, <3>4 DEF TypeOK
      <4>2. head' \in [AppId -> Event \cup {NoEvent}]
        BY <3>4 DEF TypeOK, Event, Status
      <4>3. cmd' \in [Procs -> CreateCommand \cup StatusCommand \cup {Idle}]
        BY <3>3, <3>4 DEF TypeOK, Run
      <4>4. QED
        BY <2>5, <4>1, <4>2, <4>3 DEF TypeOK, createWithBootstrap
    <3>5. CASE /\ \E a \in AppId : Run(p, [cmd[p] EXCEPT !.step = "auditCreate", !.app = a])
               /\ UNCHANGED <<row, head>>
      BY <2>5, <3>3, <3>5 DEF TypeOK, createWithBootstrap, Run
    <3>6. CASE Finish(p) /\ UNCHANGED <<row, head>>
      BY <2>5, <3>6 DEF TypeOK, createWithBootstrap, Finish, Run
    <3>7. QED
      BY <2>5, <3>4, <3>5, <3>6 DEF createWithBootstrap, WithKey
  <2>6. ASSUME NEW p \in Procs, AuditCreate(p) PROVE TypeOK'
    BY <2>6 DEF TypeOK, AuditCreate, Finish, Run, AuditAction
  <2>7. ASSUME NEW p \in Procs, NEW op \in Operation, NEW a \in AppId, NEW to \in Status,
               NEW hasReason \in BOOLEAN, Exists(a), Decide(p, op, a, to, hasReason)
        PROVE TypeOK'
    <3>1. row[a].status \in Status
      BY <2>7 DEF TypeOK, Exists, Row, AbsentRow
    <3>2. [step |-> "commit", op |-> op, app |-> a, expected |-> row[a].status, to |-> to,
           hasReason |-> hasReason /\ to = "REQUIRES_HUMAN_ACTION", now |-> clock] \in StatusCommand
      BY <2>7, <3>1 DEF StatusCommand, TypeOK
    <3>3. QED
      BY <2>7, <3>2 DEF TypeOK, Decide, Run
  <2>8. ASSUME NEW p \in Procs, NEW a \in AppId, archive(p, a) PROVE TypeOK'
    BY <2>7, <2>8 DEF archive, Operation, Status
  <2>9. ASSUME NEW p \in Procs, NEW a \in AppId, resolveHumanAction(p, a) PROVE TypeOK'
    BY <2>7, <2>9 DEF resolveHumanAction, Operation, Status
  <2>10. ASSUME NEW p \in Procs, NEW a \in AppId, prepareDocuments(p, a) PROVE TypeOK'
    <3>1. Exists(a)
      BY <2>10 DEF prepareDocuments, Exists
    <3>2. Preparing(a) \in StatusCommand
      BY DEF Preparing, StatusCommand, Operation, Status, TypeOK
    <3>3. CASE Decide(p, "prepare", a, "PREPARING", FALSE)
      BY <2>7, <3>1, <3>3 DEF Operation, Status
    <3>4. CASE Run(p, Preparing(a)) /\ UNCHANGED <<row, head, audited, clock>>
      BY <3>2, <3>4 DEF TypeOK, Run
    <3>5. QED
      BY <2>10, <3>3, <3>4 DEF prepareDocuments
  <2>11. ASSUME NEW p \in Procs, NEW a \in AppId, NEW to \in Status, NEW actor \in Actor,
                submissionTransition(p, a, to, actor)
         PROVE TypeOK'
    BY <2>7, <2>11 DEF submissionTransition, Operation
  <2>12. ASSUME NEW p \in Procs, NEW a \in AppId, NEW to \in Status, NEW actor \in Actor,
                NEW hasReason \in BOOLEAN, transition(p, a, to, actor, hasReason)
         PROVE TypeOK'
    BY <2>7, <2>12 DEF transition, Operation
  <2>13. ASSUME NEW p \in Procs, raiseHumanAction(p) PROVE TypeOK'
    <3>1. cmd[p] \in StatusCommand
      BY <2>13, CommandKinds DEF raiseHumanAction
    <3>2. [step |-> "commit", op |-> "raise", app |-> cmd[p].app, expected |-> "PREPARING",
           to |-> "REQUIRES_HUMAN_ACTION", hasReason |-> TRUE, now |-> clock] \in StatusCommand
      BY <3>1 DEF StatusCommand, Operation, Status, TypeOK
    <3>3. QED
      BY <2>13, <3>2 DEF TypeOK, raiseHumanAction, Run
  <2>14. ASSUME NEW p \in Procs, transitionWithEvent(p) PROVE TypeOK'
    <3>1. cmd[p] \in StatusCommand
      BY <2>14, CommandKinds DEF transitionWithEvent
    <3>2. row[cmd[p].app] \in Row
      BY <2>14, <3>1 DEF transitionWithEvent, StatusAsExpected, TypeOK, StatusCommand,
                         AbsentRow, Status
    <3>3. AfterTransition(row[cmd[p].app], cmd[p]) \in Row
      BY <3>1, <3>2 DEF AfterTransition, Row, StatusCommand
    <3>4. cmd' \in [Procs -> CreateCommand \cup StatusCommand \cup {Idle}]
      BY <2>14, <3>1 DEF transitionWithEvent, Continue, GoTo, Finish, Run, StatusCommand, TypeOK
    <3>5. QED
      BY <2>14, <3>1, <3>3, <3>4 DEF TypeOK, transitionWithEvent, Event, StatusCommand
  <2>15. ASSUME NEW p \in Procs, transitionConflict(p) \/ Abandon(p) PROVE TypeOK'
    BY <2>15 DEF TypeOK, transitionConflict, Abandon, Finish, Run
  <2>16. ASSUME NEW p \in Procs, AuditStatusChange(p) PROVE TypeOK'
    <3>1. cmd[p] \in StatusCommand
      BY <2>16, CommandKinds DEF AuditStatusChange, AuditDue
    <3>2. QED
      BY <2>16, <3>1 DEF TypeOK, AuditStatusChange, AuditDue, AuditAction, StatusCommand, Finish, Run
  <2>17. CASE Tick
    BY <2>17, TimeAssumption DEF TypeOK, Tick, Time
  <2>18. CASE UNCHANGED vars
    BY <2>18 DEF TypeOK, vars
  <2>19. QED
    BY <2>1, <2>2, <2>3, <2>4, <2>5, <2>6, <2>8, <2>9, <2>10, <2>11, <2>12, <2>13,
       <2>14, <2>15, <2>16, <2>17, <2>18 DEF Next, CreateNext, StatusNext
<1>3. QED
  BY <1>1, <1>2, PTL DEF Spec

--------------------------------------------------------------------------------
(* The two kinds of step that touch the table and its timelines.           *)

Inserts(p, a) ==
  /\ cmd[p] \in CreateCommand /\ cmd[p].step = "bootstrap"
  /\ ~Exists(a)
  /\ ~InsertConflicts(cmd[p])
  /\ row' = [row EXCEPT ![a] = NewRow(cmd[p])]
  /\ head' = [head EXCEPT ![a] = [from |-> "FILTERED", to |-> "SHORTLISTED"]]

Updates(p) ==
  /\ cmd[p] \in StatusCommand /\ cmd[p].step = "commit"
  /\ <<cmd[p].expected, cmd[p].to>> \in ALLOWED
  /\ StatusAsExpected(cmd[p])
  /\ row' = [row EXCEPT ![cmd[p].app] = AfterTransition(@, cmd[p])]
  /\ head' = [head EXCEPT ![cmd[p].app] = [from |-> cmd[p].expected, to |-> cmd[p].to]]

(* Lemma: every other step leaves the table and the timelines alone.       *)
LEMMA TableSteps ==
  ASSUME TypeOK, CommandInv, [Next]_vars
  PROVE  \/ UNCHANGED <<row, head>>
         \/ \E p \in Procs, a \in AppId : Inserts(p, a)
         \/ \E p \in Procs : Updates(p)
<1>1. ASSUME NEW p \in Procs, createWithBootstrap(p)
      PROVE  UNCHANGED <<row, head>> \/ \E a \in AppId : Inserts(p, a)
  BY <1>1, CommandKinds DEF createWithBootstrap, Inserts
<1>2. ASSUME NEW p \in Procs, transitionWithEvent(p) PROVE Updates(p)
  BY <1>2, CommandKinds DEF transitionWithEvent, Updates, CommandInv, CommandOK
<1>3. ASSUME NEW p \in Procs, CreateNext(p), ~createWithBootstrap(p)
      PROVE  UNCHANGED <<row, head>>
  BY <1>3 DEF CreateNext, BeginCreate, findByIdempotencyKey, findActiveByJobCandidate,
              CheckReapply, AuditCreate
<1>4. ASSUME NEW p \in Procs, StatusNext(p), ~transitionWithEvent(p)
      PROVE  UNCHANGED <<row, head>>
  BY <1>4 DEF StatusNext, archive, resolveHumanAction, prepareDocuments, transition,
              submissionTransition, Decide, raiseHumanAction, transitionConflict,
              AuditStatusChange
<1>5. QED
  BY <1>1, <1>2, <1>3, <1>4 DEF Next, Abandon, Tick, vars

(* Lemma: an application that does not exist has the row and the timeline  *)
(* it starts with, and every status of one that exists is a real one.      *)
LEMMA Existence ==
  ASSUME TypeOK, HeadInv, NEW a \in AppId
  PROVE  /\ Exists(a) => row[a] \in Row /\ row[a].status \in Status
         /\ ~Exists(a) => row[a] = AbsentRow /\ head[a] = NoEvent
  BY DEF TypeOK, HeadInv, Exists, Row, AbsentRow, Event, NoEvent, Status

(* What the two do to the table: application a opens, or moves to another  *)
(* status, and every other application is left alone.                      *)
OthersUnchanged(a) == \A b \in AppId \ {a} : row'[b] = row[b] /\ head'[b] = head[b]

Opens(a) ==
  /\ OthersUnchanged(a)
  /\ ~Exists(a) /\ row'[a].asksHuman = FALSE
  /\ row'[a].status = "SHORTLISTED" /\ row'[a].slot \in Slots
  /\ head'[a] = [from |-> "FILTERED", to |-> "SHORTLISTED"] /\ head[a] = NoEvent
  /\ \A b \in AppId : IsActive(b) => row[b].slot # row'[a].slot
  /\ \A b \in AppId : Exists(b) => row[b].key # row'[a].key

Moves(a, to) ==
  /\ OthersUnchanged(a)
  /\ Exists(a) /\ to # "ABSENT"
  /\ <<row[a].status, to>> \in ALLOWED
  /\ row'[a].status = to /\ row'[a].slot = row[a].slot /\ row'[a].key = row[a].key
  /\ row'[a].supersedes = row[a].supersedes /\ row'[a].createdAt = row[a].createdAt
  /\ head'[a] = [from |-> row[a].status, to |-> to]

(* Lemma: an insertion finds the slot free and the key unused.             *)
LEMMA InsertEffect ==
  ASSUME TypeOK, HeadInv, NEW p \in Procs, NEW a \in AppId, Inserts(p, a)
  PROVE  Opens(a)
<1>1. row'[a] = NewRow(cmd[p])
  BY DEF Inserts, TypeOK
<1>2. row'[a].slot = SlotOf(cmd[p]) /\ SlotOf(cmd[p]) \in Slots
  BY <1>1, MatchAssumption DEF NewRow, SlotOf, Inserts, CreateCommand
<1>3. \A b \in AppId : IsActive(b) => row[b].slot # SlotOf(cmd[p])
  BY DEF Inserts, InsertConflicts, SlotTaken, InSlot, IsActive
<1>4. \A b \in AppId : Exists(b) => row[b].key # computeApplicationIdempotencyKey(cmd[p])
  BY DEF Inserts, InsertConflicts, WithKey
<1>5. OthersUnchanged(a)
  BY DEF Inserts, OthersUnchanged, TypeOK
<1>6. QED
  BY <1>1, <1>2, <1>3, <1>4, <1>5, Existence DEF Opens, NewRow, Inserts, TypeOK

(* Lemma: an update keeps the identity of the row and moves its status     *)
(* along an approved edge.                                                 *)
LEMMA UpdateEffect ==
  ASSUME TypeOK, HeadInv, NEW p \in Procs, Updates(p)
  PROVE  \E a \in AppId, to \in Status : Moves(a, to)
<1> DEFINE a == cmd[p].app
           to == cmd[p].to
<1>1. a \in AppId
  BY DEF Updates, StatusCommand
<1>2. row[a].status = cmd[p].expected /\ cmd[p].expected \in Status /\ to \in Status
  BY AllowedEdges DEF Updates, StatusAsExpected
<1>3. Exists(a) /\ row[a] \in Row
  BY <1>1, <1>2, Existence DEF Exists, Status
<1>4. row'[a] = AfterTransition(row[a], cmd[p])
  BY <1>1 DEF Updates, TypeOK
<1>5. /\ row'[a].status = to /\ row'[a].slot = row[a].slot /\ row'[a].key = row[a].key
      /\ row'[a].supersedes = row[a].supersedes /\ row'[a].createdAt = row[a].createdAt
  BY <1>3, <1>4 DEF AfterTransition, Row
<1>6. head'[a] = [from |-> row[a].status, to |-> to]
  BY <1>1, <1>2 DEF Updates, TypeOK
<1>7. OthersUnchanged(a)
  BY <1>1 DEF Updates, OthersUnchanged, TypeOK
<1>8. Moves(a, to)
  BY <1>2, <1>3, <1>5, <1>6, <1>7 DEF Moves, Updates, Status
<1>9. QED
  BY <1>1, <1>2, <1>8

(* Lemma: the table changes one application at a time, and only so.        *)
LEMMA TableEffect ==
  ASSUME TypeOK, CommandInv, HeadInv, [Next]_vars
  PROVE  \/ UNCHANGED <<row, head>>
         \/ \E a \in AppId : Opens(a)
         \/ \E a \in AppId, to \in Status : Moves(a, to)
  BY TableSteps, InsertEffect, UpdateEffect

(* Lemma: the timeline ends where the row is, at every step.               *)
LEMMA HeadInvariant ==
  ASSUME TypeOK, CommandInv, HeadInv, [Next]_vars
  PROVE  HeadInv'
<1>1. CASE UNCHANGED <<row, head>>
  BY <1>1 DEF HeadInv
<1>2. ASSUME NEW a \in AppId, Opens(a) PROVE HeadInv'
  BY <1>2 DEF HeadInv, Opens, OthersUnchanged
<1>3. ASSUME NEW a \in AppId, NEW to \in Status, Moves(a, to) PROVE HeadInv'
  BY <1>3 DEF HeadInv, Moves, OthersUnchanged
<1>4. QED
  BY <1>1, <1>2, <1>3, TableEffect

(* Lemma: an application that exists goes on existing, so what a command   *)
(* read stays meaningful whatever else runs.                               *)
LEMMA StillExists ==
  ASSUME TypeOK, CommandInv, HeadInv, [Next]_vars
  PROVE  \A a \in AppId : Exists(a) => row'[a].status # "ABSENT"
<1>1. ASSUME NEW b \in AppId, Opens(b), NEW a \in AppId, Exists(a)
      PROVE  row'[a].status # "ABSENT"
  BY <1>1 DEF Exists, Opens, OthersUnchanged
<1>2. ASSUME NEW b \in AppId, NEW to \in Status, Moves(b, to), NEW a \in AppId, Exists(a)
      PROVE  row'[a].status # "ABSENT"
  BY <1>2 DEF Exists, Moves, OthersUnchanged
<1>3. QED
  BY <1>1, <1>2, TableEffect DEF Exists

(* Lemma: every step leaves every command sound with respect to the table  *)
(* as it was before the step.                                              *)
LEMMA CommandsStaySound ==
  ASSUME TypeOK, CommandInv, [Next]_vars, NEW q \in Procs
  PROVE  CommandOK(cmd'[q])
<1>1. CASE cmd'[q] = cmd[q]
  BY <1>1 DEF CommandInv
<1>2. ASSUME NEW p \in Procs, NEW c, Run(p, c), CommandOK(c) PROVE CommandOK(cmd'[q])
  BY <1>1, <1>2 DEF Run, TypeOK
<1>3. CommandOK(Idle)
  BY DEF CommandOK, Idle
<1>4. ASSUME NEW p \in Procs, CreateNext(p) PROVE CommandOK(cmd'[q])
  <2>1. ASSUME NEW m \in Matches, NEW mode \in CreationMode,
               NEW s \in SupersedesInput, NEW confirm \in BOOLEAN,
               BeginCreate(p, m, mode, s, confirm)
        PROVE  CommandOK(cmd'[q])
    <3>1. CommandOK([step |-> "findByKey", match |-> m, mode |-> mode, supersedes |-> s,
                     confirm |-> confirm, now |-> clock, app |-> NoApp])
      BY DEF CommandOK
    <3>2. QED
      BY <1>2, <2>1, <3>1 DEF BeginCreate
  <2>2. ASSUME cmd[p] \in CreateCommand, NEW step \in {"findActive", "checkReapply", "bootstrap"}
        PROVE  CommandOK([cmd[p] EXCEPT !.step = step])
    BY <2>2 DEF CommandOK, CreateCommand
  <2>3. CASE findByIdempotencyKey(p) \/ findActiveByJobCandidate(p) \/ CheckReapply(p)
    <3>1. cmd[p] \in CreateCommand
      BY <2>3, CommandKinds DEF findByIdempotencyKey, findActiveByJobCandidate, CheckReapply
    <3>2. QED
      BY <1>2, <1>3, <2>2, <2>3, <3>1
         DEF findByIdempotencyKey, findActiveByJobCandidate, CheckReapply, GoTo, Finish
  <2>4. CASE createWithBootstrap(p)
    <3>1. cmd[p] \in CreateCommand
      BY <2>4, CommandKinds DEF createWithBootstrap
    <3>2. ASSUME NEW a \in AppId
          PROVE  CommandOK([cmd[p] EXCEPT !.step = "auditCreate", !.app = a])
      BY <3>1 DEF CommandOK, CreateCommand
    <3>3. QED
      BY <1>2, <1>3, <2>4, <3>2 DEF createWithBootstrap, Finish, WithKey
  <2>5. CASE AuditCreate(p)
    BY <1>2, <1>3, <2>5 DEF AuditCreate, Finish
  <2>6. QED
    BY <1>4, <2>1, <2>3, <2>4, <2>5 DEF CreateNext
<1>5. ASSUME NEW p \in Procs, StatusNext(p) PROVE CommandOK(cmd'[q])
  <2>1. ASSUME NEW a \in AppId, NEW op, NEW to, NEW hasReason, Exists(a),
               Decide(p, op, a, to, hasReason), <<row[a].status, to>> \in ALLOWED,
               op = "prepare" => to = "PREPARING"
        PROVE  CommandOK(cmd'[q])
    BY <1>2, <2>1 DEF Decide, CommandOK
  <2>2. ASSUME NEW a \in AppId, archive(p, a) PROVE CommandOK(cmd'[q])
    BY <2>1, <2>2 DEF archive, canTransition
  <2>3. ASSUME NEW a \in AppId, resolveHumanAction(p, a) PROVE CommandOK(cmd'[q])
    BY <2>1, <2>3 DEF resolveHumanAction, ALLOWED, ForwardEdges
  <2>4. ASSUME NEW a \in AppId, prepareDocuments(p, a) PROVE CommandOK(cmd'[q])
    <3>1. Exists(a)
      BY <2>4 DEF prepareDocuments, Exists
    <3>2. CASE row[a].status = "SHORTLISTED" /\ Decide(p, "prepare", a, "PREPARING", FALSE)
      BY <2>1, <3>1, <3>2 DEF ALLOWED, ForwardEdges
    <3>3. CASE Run(p, Preparing(a))
      BY <1>2, <3>1, <3>3 DEF Preparing, CommandOK
    <3>4. QED
      BY <2>4, <3>2, <3>3 DEF prepareDocuments
  <2>5. ASSUME NEW a \in AppId, NEW to \in Status, NEW actor \in Actor,
               \/ submissionTransition(p, a, to, actor)
               \/ \E hasReason \in BOOLEAN : transition(p, a, to, actor, hasReason)
        PROVE  CommandOK(cmd'[q])
    BY <2>1, <2>5 DEF submissionTransition, transition, canTransition
  <2>6. CASE raiseHumanAction(p)
    BY <1>2, <2>6 DEF raiseHumanAction, CommandOK, CommandInv, ALLOWED, ForwardEdges
  <2>7. CASE transitionWithEvent(p)
    <3>1. cmd[p] \in StatusCommand /\ Exists(cmd[p].app)
      BY <2>7, CommandKinds DEF transitionWithEvent, CommandInv, CommandOK
    <3>2. ASSUME NEW step \in {"preparing", "audit"}
          PROVE  CommandOK([cmd[p] EXCEPT !.step = step])
      BY <3>1 DEF CommandOK, StatusCommand
    <3>3. QED
      BY <1>2, <1>3, <2>7, <3>2 DEF transitionWithEvent, Continue, GoTo, Finish
  <2>8. CASE transitionConflict(p) \/ AuditStatusChange(p)
    BY <1>2, <1>3, <2>8 DEF transitionConflict, AuditStatusChange, Finish
  <2>9. QED
    BY <1>5, <2>2, <2>3, <2>4, <2>5, <2>6, <2>7, <2>8 DEF StatusNext
<1>6. QED
  BY <1>1, <1>2, <1>3, <1>4, <1>5 DEF Next, Abandon, Finish, Tick, vars

(* Lemma: and with respect to the table after it.                          *)
LEMMA CommandInvariant ==
  ASSUME TypeOK, TypeOK', CommandInv, HeadInv, [Next]_vars
  PROVE  CommandInv'
<1> SUFFICES ASSUME NEW q \in Procs PROVE CommandOK(cmd[q])'
  BY DEF CommandInv
<1>1. CommandOK(cmd'[q])
  BY CommandsStaySound
<1>2. cmd'[q].step \in {"commit", "preparing", "audit"} => cmd'[q].app \in AppId
  BY DEF TypeOK, CreateCommand, StatusCommand, Idle
<1>3. cmd'[q].step \in {"commit", "preparing", "audit"} => row'[cmd'[q].app].status # "ABSENT"
  BY <1>1, <1>2, StillExists DEF CommandOK
<1>4. QED
  BY <1>1, <1>3 DEF CommandOK, Exists

--------------------------------------------------------------------------------
(* The inductive invariant, and what follows from it.                      *)

IndInv == TypeOK /\ CommandInv /\ HeadInv

(* Lemma: TypeOK, CommandInv and HeadInv are inductive together.           *)
LEMMA Inductive == Spec => []IndInv
<1>1. Init => CommandInv /\ HeadInv
  BY DEF Init, CommandInv, CommandOK, HeadInv, Idle, AbsentRow, NoEvent
<1>2. TypeOK /\ TypeOK' /\ CommandInv /\ HeadInv /\ [Next]_vars => CommandInv' /\ HeadInv'
  BY CommandInvariant, HeadInvariant
<1>3. QED
  BY <1>1, <1>2, TypeCorrect, PTL DEF Spec, IndInv

(* OneActivePerSlot (A1): at most one active application per candidate and *)
(* canonical job.  Only an insertion makes an application active, and it   *)
(* finds none active in its slot; no approved edge leaves an inactive      *)
(* status for an active one.                                               *)
THEOREM OneActive == Spec => []OneActivePerSlot
<1>1. Init => OneActivePerSlot
  BY DEF Init, OneActivePerSlot, IsActive, Exists, AbsentRow
<1>2. IndInv /\ OneActivePerSlot /\ [Next]_vars => OneActivePerSlot'
  <2> SUFFICES ASSUME IndInv, OneActivePerSlot, [Next]_vars PROVE OneActivePerSlot'
    OBVIOUS
  <2>1. CASE UNCHANGED <<row, head>>
    BY <2>1 DEF OneActivePerSlot, IsActive, Exists
  <2>2. ASSUME NEW a \in AppId, Opens(a) PROVE OneActivePerSlot'
    BY <2>2 DEF Opens, OthersUnchanged, OneActivePerSlot, IsActive, Exists
  <2>3. ASSUME NEW a \in AppId, NEW to \in Status, Moves(a, to) PROVE OneActivePerSlot'
    <3>1. isActiveStatus(to) => isActiveStatus(row[a].status)
      BY <2>3, AllowedEdges DEF Moves
    <3>2. QED
      BY <2>3, <3>1 DEF Moves, OthersUnchanged, OneActivePerSlot, IsActive, Exists
  <2>4. QED
    BY <2>1, <2>2, <2>3, TableEffect DEF IndInv
<1>3. QED
  BY <1>1, <1>2, Inductive, PTL DEF Spec

(* OneApplicationPerKey: an idempotency key is one application for ever,   *)
(* also once that application is archived or rejected.                     *)
THEOREM OneRowPerKey == Spec => []OneApplicationPerKey
<1>1. Init => OneApplicationPerKey
  BY DEF Init, OneApplicationPerKey, Exists, AbsentRow
<1>2. IndInv /\ OneApplicationPerKey /\ [Next]_vars => OneApplicationPerKey'
  <2> SUFFICES ASSUME IndInv, OneApplicationPerKey, [Next]_vars PROVE OneApplicationPerKey'
    OBVIOUS
  <2>1. CASE UNCHANGED <<row, head>>
    BY <2>1 DEF OneApplicationPerKey, Exists
  <2>2. ASSUME NEW a \in AppId, Opens(a) PROVE OneApplicationPerKey'
    BY <2>2 DEF Opens, OthersUnchanged, OneApplicationPerKey, Exists
  <2>3. ASSUME NEW a \in AppId, NEW to \in Status, Moves(a, to) PROVE OneApplicationPerKey'
    BY <2>3 DEF Moves, OthersUnchanged, OneApplicationPerKey, Exists
  <2>4. QED
    BY <2>1, <2>2, <2>3, TableEffect DEF IndInv
<1>3. QED
  BY <1>1, <1>2, Inductive, PTL DEF Spec

(* TimelineIsChain: the events of an application form a chain that ends at *)
(* its status, however commands race: the event records the status the     *)
(* compare-and-set has just compared.                                      *)
THEOREM ChainedTimeline == Spec => TimelineIsChain
<1>1. IndInv /\ [Next]_vars =>
        [\A a \in AppId :
           row'[a].status # row[a].status =>
             /\ head'[a].to = row'[a].status
             /\ head[a] # NoEvent => head'[a].from = head[a].to]_vars
  <2> SUFFICES ASSUME IndInv, [Next]_vars, NEW a \in AppId, row'[a].status # row[a].status
               PROVE  /\ head'[a].to = row'[a].status
                      /\ head[a] # NoEvent => head'[a].from = head[a].to
    OBVIOUS
  <2>1. ASSUME NEW b \in AppId, Opens(b)
        PROVE  head'[a].to = row'[a].status /\ head[a] = NoEvent
    BY <2>1 DEF Opens, OthersUnchanged
  <2>2. ASSUME NEW b \in AppId, NEW to \in Status, Moves(b, to)
        PROVE  head'[a].to = row'[a].status /\ head'[a].from = head[a].to
    BY <2>2 DEF Moves, OthersUnchanged, IndInv, HeadInv
  <2>3. QED
    BY <2>1, <2>2, TableEffect DEF IndInv
<1>2. QED
  BY <1>1, Inductive, PTL DEF Spec, TimelineIsChain

(* ImplementsLifecycle: whatever the interleaving, the engine only opens   *)
(* an application in a free slot and only moves it along approved edges.   *)
THEOREM Refinement == Spec => ImplementsLifecycle
<1>1. Init => Lifecycle!LifecycleInit
  BY DEF Init, Lifecycle!LifecycleInit, AbsentRow
<1>2. IndInv /\ [Next]_vars => [Lifecycle!LifecycleNext]_(Lifecycle!lifecycleVars)
  <2> SUFFICES ASSUME IndInv, [Next]_vars
               PROVE  [Lifecycle!LifecycleNext]_(Lifecycle!lifecycleVars)
    OBVIOUS
  <2> DEFINE status == [a \in AppId |-> row[a].status]
             slot == [a \in AppId |-> row[a].slot]
  <2>1. CASE UNCHANGED <<row, head>>
    BY <2>1 DEF Lifecycle!lifecycleVars
  <2>2. ASSUME NEW a \in AppId, Opens(a) PROVE Lifecycle!LifecycleNext
    <3>1. PICK s \in Slots : row'[a].slot = s
      BY <2>2 DEF Opens
    <3>2. status' = [status EXCEPT ![a] = "SHORTLISTED"]
      BY <2>2 DEF Opens, OthersUnchanged
    <3>3. slot' = [slot EXCEPT ![a] = s]
      BY <2>2, <3>1 DEF Opens, OthersUnchanged
    <3>4. status[a] = "ABSENT"
      BY <2>2 DEF Opens, Exists
    <3>5. Lifecycle!ActiveIn(s) = {}
      BY <2>2, <3>1 DEF Opens, Lifecycle!ActiveIn, IsActive, Exists,
                        Lifecycle!isActiveStatus, isActiveStatus
    <3>6. Lifecycle!Open(a, s)
      BY <3>2, <3>3, <3>4, <3>5 DEF Lifecycle!Open
    <3>7. QED
      BY <3>6 DEF Lifecycle!LifecycleNext
  <2>3. ASSUME NEW a \in AppId, NEW to \in Status, Moves(a, to)
        PROVE  Lifecycle!LifecycleNext
    <3>1. status' = [status EXCEPT ![a] = to]
      BY <2>3 DEF Moves, OthersUnchanged
    <3>2. slot' = slot
      BY <2>3 DEF Moves, OthersUnchanged
    <3>3. status[a] # "ABSENT" /\ <<status[a], to>> \in ALLOWED
      BY <2>3 DEF Moves, Exists
    <3>4. Lifecycle!Status = Status /\ Lifecycle!ALLOWED = ALLOWED
      BY DEF Lifecycle!Status, Status, Lifecycle!ALLOWED, ALLOWED,
             Lifecycle!ForwardEdges, ForwardEdges
    <3>5. Lifecycle!Advance(a)
      BY <3>1, <3>2, <3>3, <3>4 DEF Lifecycle!Advance
    <3>6. QED
      BY <3>5 DEF Lifecycle!LifecycleNext
  <2>4. QED
    BY <2>1, <2>2, <2>3, TableEffect DEF IndInv
<1>3. QED
  BY <1>1, <1>2, Inductive, PTL DEF Spec, ImplementsLifecycle, Lifecycle!LifecycleSpec

--------------------------------------------------------------------------------
(* What a command knows, and what becomes of it while others run.          *)

(* The ways in which a step may change the command of process q.           *)
Decides(q, to, hasReason, op) ==
  \E a \in AppId :
    /\ Exists(a) /\ UNCHANGED <<row, head, audited>>
    /\ cmd'[q] = [step |-> "commit", op |-> op, app |-> a, expected |-> row[a].status,
                  to |-> to, hasReason |-> hasReason /\ to = "REQUIRES_HUMAN_ACTION",
                  now |-> clock]
    /\ row[a].status = "PREPARING" /\ to = "REQUIRES_HUMAN_ACTION" => hasReason

CommandStep(q) ==
  \/ cmd'[q] = cmd[q]
  \/ cmd'[q].step \in {"idle", "findByKey", "findActive", "checkReapply", "preparing"}
  \/ CheckReapply(q) /\ cmd'[q] = [cmd[q] EXCEPT !.step = "bootstrap"]
  \/ \E a \in AppId : /\ createWithBootstrap(q) /\ row'[a].status # "ABSENT"
                      /\ cmd'[q] = [cmd[q] EXCEPT !.step = "auditCreate", !.app = a]
  \/ \E to \in Status, hasReason \in BOOLEAN, op \in Operation :
       /\ Decides(q, to, hasReason, op)
       /\ op = "archive" => to = "ARCHIVED"
  \/ /\ raiseHumanAction(q) /\ cmd[q].app \in AppId
     /\ cmd'[q] = [step |-> "commit", op |-> "raise", app |-> cmd[q].app,
                   expected |-> "PREPARING", to |-> "REQUIRES_HUMAN_ACTION",
                   hasReason |-> TRUE, now |-> clock]
  \/ transitionWithEvent(q) /\ cmd'[q] = [cmd[q] EXCEPT !.step = "audit"]

(* Lemma: the command of a process changes by its own steps only, and a    *)
(* transition to REQUIRES_HUMAN_ACTION out of a preparation has a reason.  *)
LEMMA CommandEffect ==
  ASSUME TypeOK, [Next]_vars, NEW q \in Procs
  PROVE  CommandStep(q)
<1>1. ASSUME NEW p \in Procs, NEW c, Run(p, c), p # q PROVE cmd'[q] = cmd[q]
  BY <1>1 DEF Run, TypeOK
<1>2. ASSUME NEW c, Run(q, c) PROVE cmd'[q] = c
  BY <1>2 DEF Run, TypeOK
<1>3. ASSUME NEW p \in Procs, Finish(p) PROVE CommandStep(q)
  <2>1. cmd'[q] = cmd[q] \/ cmd'[q] = Idle
    BY <1>3 DEF Finish, Run, TypeOK
  <2>2. cmd'[q] = Idle => cmd'[q].step = "idle"
    BY DEF Idle
  <2>3. QED
    BY <2>1, <2>2 DEF CommandStep
<1>4. ASSUME NEW p \in Procs, NEW m \in Matches, NEW mode \in CreationMode,
             NEW s \in SupersedesInput, NEW confirm \in BOOLEAN,
             BeginCreate(p, m, mode, s, confirm)
      PROVE  CommandStep(q)
  <2>1. CASE p # q
    BY <1>1, <1>4, <2>1 DEF BeginCreate, CommandStep
  <2>2. CASE p = q
    <3>1. cmd'[q].step = "findByKey"
      BY <1>2, <1>4, <2>2 DEF BeginCreate
    <3>2. QED
      BY <3>1 DEF CommandStep
  <2>3. QED
    BY <2>1, <2>2
<1>5. ASSUME NEW p \in Procs,
             findByIdempotencyKey(p) \/ findActiveByJobCandidate(p) \/ CheckReapply(p)
      PROVE  CommandStep(q)
  <2>1. cmd[p] \in CreateCommand
    BY <1>5, CommandKinds DEF findByIdempotencyKey, findActiveByJobCandidate, CheckReapply
  <2>2. ASSUME NEW step PROVE [cmd[p] EXCEPT !.step = step].step = step
    BY <2>1 DEF CreateCommand
  <2>3. ASSUME NEW step \in {"findActive", "checkReapply", "bootstrap"}, GoTo(p, step)
        PROVE  \/ cmd'[q] = cmd[q]
               \/ p = q /\ cmd'[q] = [cmd[p] EXCEPT !.step = step] /\ cmd'[q].step = step
    BY <2>2, <2>3 DEF GoTo, Run, TypeOK
  <2>4. QED
    BY <1>3, <1>5, <2>3
       DEF findByIdempotencyKey, findActiveByJobCandidate, CheckReapply, CommandStep
<1>6. ASSUME NEW p \in Procs, createWithBootstrap(p) PROVE CommandStep(q)
  <2>1. ASSUME NEW a \in AppId, Run(p, [cmd[p] EXCEPT !.step = "auditCreate", !.app = a]),
               row'[a].status # "ABSENT"
        PROVE  CommandStep(q)
    BY <1>1, <1>2, <1>6, <2>1 DEF CommandStep
  <2>2. ASSUME NEW a \in AppId, row' = [row EXCEPT ![a] = NewRow(cmd[p])]
        PROVE  row'[a].status # "ABSENT"
    BY <2>2 DEF NewRow, TypeOK
  <2>3. ASSUME NEW a \in WithKey(computeApplicationIdempotencyKey(cmd[p])), UNCHANGED row
        PROVE  a \in AppId /\ row'[a].status # "ABSENT"
    BY <2>3 DEF WithKey, Exists
  <2>4. QED
    BY <1>3, <1>6, <2>1, <2>2, <2>3 DEF createWithBootstrap
<1>7. ASSUME NEW p \in Procs, NEW a \in AppId, NEW to \in Status, NEW hasReason \in BOOLEAN,
             NEW op \in Operation, Exists(a), Decide(p, op, a, to, hasReason),
             op = "archive" => to = "ARCHIVED",
             row[a].status = "PREPARING" /\ to = "REQUIRES_HUMAN_ACTION" => hasReason
      PROVE  CommandStep(q)
  <2>1. CASE p # q
    BY <1>1, <1>7, <2>1 DEF Decide, CommandStep
  <2>2. CASE p = q
    <3>1. Decides(q, to, hasReason, op)
      BY <1>2, <1>7, <2>2 DEF Decide, Decides
    <3>2. QED
      BY <1>7, <3>1 DEF CommandStep
  <2>3. QED
    BY <2>1, <2>2
<1>8. ASSUME NEW p \in Procs, NEW a \in AppId,
             archive(p, a) \/ resolveHumanAction(p, a) \/ prepareDocuments(p, a)
      PROVE  CommandStep(q)
  <2>1. CASE archive(p, a)
    BY <1>7, <2>1 DEF archive, Status, Operation
  <2>2. CASE resolveHumanAction(p, a)
    BY <1>7, <2>2 DEF resolveHumanAction, Status, Operation
  <2>3. CASE row[a].status = "SHORTLISTED" /\ Decide(p, "prepare", a, "PREPARING", FALSE)
    BY <1>7, <2>3 DEF Exists, Status, Operation
  <2>4. CASE Run(p, Preparing(a))
    <3>1. cmd'[q] = cmd[q] \/ cmd'[q] = Preparing(a)
      BY <2>4 DEF Run, TypeOK
    <3>2. cmd'[q] = Preparing(a) => cmd'[q].step = "preparing"
      BY DEF Preparing
    <3>3. QED
      BY <3>1, <3>2 DEF CommandStep
  <2>5. QED
    BY <1>8, <2>1, <2>2, <2>3, <2>4 DEF prepareDocuments
<1>9. ASSUME NEW p \in Procs, NEW a \in AppId, NEW to \in Status, NEW actor \in Actor,
             NEW hasReason \in BOOLEAN,
             submissionTransition(p, a, to, actor) \/ transition(p, a, to, actor, hasReason)
      PROVE  CommandStep(q)
  <2>1. CASE submissionTransition(p, a, to, actor)
    BY <1>7, <2>1 DEF submissionTransition, Operation
  <2>2. CASE transition(p, a, to, actor, hasReason)
    <3>1. row[a].status = "PREPARING" /\ to = "REQUIRES_HUMAN_ACTION" => hasReason
      BY <2>2 DEF transition, canTransition, checkGuard, Context
    <3>2. QED
      BY <1>7, <2>2, <3>1 DEF transition, Operation
  <2>3. QED
    BY <1>9, <2>1, <2>2
<1>10. ASSUME NEW p \in Procs, raiseHumanAction(p) PROVE CommandStep(q)
  <2>1. cmd[p].app \in AppId
    BY <1>10, CommandKinds DEF raiseHumanAction, StatusCommand
  <2>2. QED
    BY ZenonT(60), <1>1, <1>2, <1>10, <2>1 DEF raiseHumanAction, CommandStep
<1>11. ASSUME NEW p \in Procs, transitionWithEvent(p) PROVE CommandStep(q)
  <2>1. cmd[p] \in StatusCommand
    BY <1>11, CommandKinds DEF transitionWithEvent
  <2>2. [cmd[p] EXCEPT !.step = "preparing"].step = "preparing"
    BY <2>1 DEF StatusCommand
  <2>3. CASE Finish(p)
    BY <1>3, <2>3
  <2>4. CASE GoTo(p, "preparing")
    BY <1>1, <1>2, <2>2, <2>4 DEF GoTo, CommandStep
  <2>5. CASE GoTo(p, "audit")
    BY <1>1, <1>2, <1>11, <2>5 DEF GoTo, CommandStep
  <2>6. QED
    BY <1>11, <2>3, <2>4, <2>5 DEF transitionWithEvent, Continue
<1>12. ASSUME NEW p \in Procs,
              AuditCreate(p) \/ transitionConflict(p) \/ AuditStatusChange(p) \/ Abandon(p)
       PROVE  CommandStep(q)
  BY <1>3, <1>12 DEF AuditCreate, transitionConflict, AuditStatusChange, Abandon
<1>13. CASE UNCHANGED cmd
  BY <1>13 DEF CommandStep
<1>14. QED
  BY <1>4, <1>5, <1>6, <1>8, <1>9, <1>10, <1>11, <1>12, <1>13
     DEF Next, CreateNext, StatusNext, Tick, vars

(* Lemma: what a command read of an application stays true of it, but for  *)
(* its status; an archived one is never touched again, and a rejected one  *)
(* can only be archived.                                                   *)
LEMMA Persistence ==
  ASSUME TypeOK, CommandInv, HeadInv, [Next]_vars, NEW a \in AppId, Exists(a)
  PROVE  /\ row'[a].status # "ABSENT"
         /\ row'[a].slot = row[a].slot /\ row'[a].supersedes = row[a].supersedes
         /\ row'[a].createdAt = row[a].createdAt
         /\ row[a].status = "ARCHIVED" => row'[a] = row[a] /\ head'[a] = head[a]
         /\ row[a].status = "REJECTED" =>
              \/ row'[a] = row[a] /\ head'[a] = head[a]
              \/ row'[a].status = "ARCHIVED" /\ head'[a] = [from |-> "REJECTED", to |-> "ARCHIVED"]
<1>1. ASSUME NEW b \in AppId, Opens(b) PROVE row'[a] = row[a] /\ head'[a] = head[a]
  BY <1>1 DEF Opens, OthersUnchanged
<1>2. ASSUME NEW b \in AppId, NEW to \in Status, Moves(b, to), b # a
      PROVE  row'[a] = row[a] /\ head'[a] = head[a]
  BY <1>2 DEF Moves, OthersUnchanged
<1>3. ASSUME NEW to \in Status, Moves(a, to)
      PROVE  /\ row[a].status # "ARCHIVED"
             /\ row[a].status = "REJECTED" => to = "ARCHIVED"
  BY <1>3 DEF Moves, ALLOWED, ForwardEdges
<1>4. QED
  BY ZenonT(60), <1>1, <1>2, <1>3, TableEffect DEF Moves, Exists

(* An archive command aims at ARCHIVED and, once it is to be audited, its  *)
(* application is there; a created application is audited once it exists.  *)
AuditInv ==
  \A p \in Procs :
    /\ cmd[p].step = "auditCreate" => Exists(cmd[p].app)
    /\ cmd[p].step = "commit" /\ cmd[p].op = "archive" => cmd[p].to = "ARCHIVED"
    /\ cmd[p].step = "audit" /\ cmd[p].op = "archive" => row[cmd[p].app].status = "ARCHIVED"

(* Lemma: AuditInv is inductive.                                           *)
LEMMA AuditInvariant == ASSUME IndInv, IndInv', AuditInv, [Next]_vars PROVE AuditInv'
<1> USE DEF IndInv
<1> SUFFICES ASSUME NEW p \in Procs
             PROVE  /\ cmd'[p].step = "auditCreate" => row'[cmd'[p].app].status # "ABSENT"
                    /\ cmd'[p].step = "commit" /\ cmd'[p].op = "archive"
                         => cmd'[p].to = "ARCHIVED"
                    /\ cmd'[p].step = "audit" /\ cmd'[p].op = "archive"
                         => row'[cmd'[p].app].status = "ARCHIVED"
  BY DEF AuditInv, Exists
<1>1. CASE cmd'[p] = cmd[p]
  <2>1. cmd[p].step \in {"auditCreate", "audit"} => cmd[p].app \in AppId /\ Exists(cmd[p].app)
    BY CommandKinds DEF CommandInv, CommandOK, AuditInv, StatusCommand
  <2>2. QED
    BY <1>1, <2>1, Persistence DEF AuditInv
<1>2. CASE cmd'[p].step \in {"idle", "findByKey", "findActive", "checkReapply", "preparing"}
  BY <1>2
<1>3. CASE CheckReapply(p) /\ cmd'[p] = [cmd[p] EXCEPT !.step = "bootstrap"]
  BY <1>3, CommandKinds DEF CheckReapply, CreateCommand
<1>4. ASSUME NEW a \in AppId, createWithBootstrap(p), row'[a].status # "ABSENT",
             cmd'[p] = [cmd[p] EXCEPT !.step = "auditCreate", !.app = a]
      PROVE  cmd'[p].step = "auditCreate" /\ cmd'[p].app = a
  BY <1>4, CommandKinds DEF createWithBootstrap, CreateCommand
<1>5. ASSUME NEW to \in Status, NEW hasReason \in BOOLEAN, NEW op \in Operation,
             Decides(p, to, hasReason, op), op = "archive" => to = "ARCHIVED"
      PROVE  cmd'[p].step = "commit" /\ (cmd'[p].op = "archive" => cmd'[p].to = "ARCHIVED")
  BY <1>5 DEF Decides
<1>6. CASE raiseHumanAction(p)
  BY <1>6 DEF raiseHumanAction, Run, TypeOK
<1>7. CASE transitionWithEvent(p) /\ cmd'[p] = [cmd[p] EXCEPT !.step = "audit"]
  <2>1. cmd[p] \in StatusCommand /\ cmd[p].step = "commit"
    BY <1>7, CommandKinds DEF transitionWithEvent
  <2>2. /\ cmd'[p].step = "audit" /\ cmd'[p].op = cmd[p].op /\ cmd'[p].app = cmd[p].app
        /\ row'[cmd[p].app].status = cmd[p].to
    <3>1. row[cmd[p].app] \in Row
      BY <1>7, <2>1, Existence DEF CommandInv, CommandOK, StatusCommand
    <3>2. row'[cmd[p].app] = AfterTransition(row[cmd[p].app], cmd[p])
      BY <1>7, <2>1 DEF transitionWithEvent, TypeOK, StatusCommand
    <3>3. QED
      BY <1>7, <2>1, <3>1, <3>2 DEF AfterTransition, StatusCommand, Row
  <2>3. QED
    BY <2>1, <2>2 DEF AuditInv
<1>8. QED
  BY <1>1, <1>2, <1>3, <1>4, <1>5, <1>6, <1>7, CommandEffect DEF CommandStep

(* Lemma: an audit entry is added by a command that is due to add it.      *)
LEMMA AuditSteps ==
  ASSUME TypeOK, [Next]_vars
  PROVE  \/ UNCHANGED audited
         \/ \E p \in Procs : cmd[p].step = "auditCreate" /\ cmd[p].app \in AppId
              /\ audited' = [audited EXCEPT ![cmd[p].app] = @ \cup {"created"}]
         \/ \E p \in Procs : cmd[p].step = "audit" /\ cmd[p].app \in AppId
              /\ audited' = [audited EXCEPT ![cmd[p].app] = @ \cup {cmd[p].op}]
<1>1. ASSUME NEW p \in Procs, AuditCreate(p)
      PROVE  /\ cmd[p].step = "auditCreate"
             /\ audited' = [audited EXCEPT ![cmd[p].app] = @ \cup {"created"}]
             /\ cmd[p].app \in AppId \/ UNCHANGED audited
  BY <1>1 DEF AuditCreate, TypeOK
<1>2. ASSUME NEW p \in Procs, AuditStatusChange(p)
      PROVE  /\ cmd[p].step = "audit" /\ cmd[p].app \in AppId
             /\ audited' = [audited EXCEPT ![cmd[p].app] = @ \cup {cmd[p].op}]
  BY <1>2, CommandKinds DEF AuditStatusChange, AuditDue, StatusCommand
<1>3. ASSUME NEW p \in Procs, CreateNext(p), ~AuditCreate(p) PROVE UNCHANGED audited
  BY <1>3 DEF CreateNext, BeginCreate, findByIdempotencyKey, findActiveByJobCandidate,
              CheckReapply, createWithBootstrap
<1>4. ASSUME NEW p \in Procs, StatusNext(p), ~AuditStatusChange(p) PROVE UNCHANGED audited
  BY <1>4 DEF StatusNext, archive, resolveHumanAction, prepareDocuments, transition,
              submissionTransition, Decide, raiseHumanAction, transitionConflict,
              transitionWithEvent
<1>5. QED
  BY <1>1, <1>2, <1>3, <1>4 DEF Next, Abandon, Tick, vars

(* AuditNeverAhead: the audit log never reports an application that is not *)
(* there, nor an archive that has not happened, whatever races or fails.   *)
THEOREM AuditFollows == Spec => []AuditNeverAhead
<1>1. Init => AuditInv /\ AuditNeverAhead
  BY DEF Init, AuditInv, AuditNeverAhead, Idle
<1>2. IndInv /\ IndInv' /\ AuditInv /\ [Next]_vars => AuditInv'
  BY AuditInvariant
<1>3. IndInv /\ AuditInv /\ AuditNeverAhead /\ [Next]_vars => AuditNeverAhead'
  <2> SUFFICES ASSUME IndInv, AuditInv, AuditNeverAhead, [Next]_vars, NEW a \in AppId
               PROVE  /\ audited'[a] # {} => row'[a].status # "ABSENT"
                      /\ "archive" \in audited'[a] => row'[a].status = "ARCHIVED"
    BY DEF AuditNeverAhead, Exists
  <2>1. /\ audited'[a] # {} => Exists(a)
        /\ "archive" \in audited'[a] => row[a].status = "ARCHIVED"
    <3>1. CASE UNCHANGED audited
      BY <3>1 DEF AuditNeverAhead
    <3>2. ASSUME NEW p \in Procs, cmd[p].step = "auditCreate", cmd[p].app \in AppId,
                 audited' = [audited EXCEPT ![cmd[p].app] = @ \cup {"created"}]
          PROVE  /\ audited'[a] # {} => Exists(a)
                 /\ "archive" \in audited'[a] => row[a].status = "ARCHIVED"
      BY <3>2 DEF AuditNeverAhead, AuditInv, IndInv, TypeOK
    <3>3. ASSUME NEW p \in Procs, cmd[p].step = "audit", cmd[p].app \in AppId,
                 audited' = [audited EXCEPT ![cmd[p].app] = @ \cup {cmd[p].op}]
          PROVE  /\ audited'[a] # {} => Exists(a)
                 /\ "archive" \in audited'[a] => row[a].status = "ARCHIVED"
      BY <3>3 DEF AuditNeverAhead, AuditInv, IndInv, TypeOK, CommandInv, CommandOK
    <3>4. QED
      BY <3>1, <3>2, <3>3, AuditSteps DEF IndInv
  <2>2. QED
    BY <2>1, Persistence DEF IndInv, Exists
<1>4. QED
  BY <1>1, <1>2, <1>3, Inductive, PTL DEF Spec

--------------------------------------------------------------------------------
(* The reason an application that waits for a human shows.                 *)

(* A command about to commit has a reason exactly when it needs one.       *)
ReasonInv ==
  \A p \in Procs :
    cmd[p].step = "commit" =>
      /\ cmd[p].hasReason => cmd[p].to = "REQUIRES_HUMAN_ACTION"
      /\ cmd[p].expected = "PREPARING" /\ cmd[p].to = "REQUIRES_HUMAN_ACTION" => cmd[p].hasReason

(* Lemma: ReasonInv is inductive.                                          *)
LEMMA ReasonInvariant == ASSUME TypeOK, ReasonInv, [Next]_vars PROVE ReasonInv'
<1> SUFFICES ASSUME NEW p \in Procs, cmd'[p].step = "commit"
             PROVE  /\ cmd'[p].hasReason => cmd'[p].to = "REQUIRES_HUMAN_ACTION"
                    /\ cmd'[p].expected = "PREPARING" /\ cmd'[p].to = "REQUIRES_HUMAN_ACTION"
                         => cmd'[p].hasReason
  BY DEF ReasonInv
<1>1. CASE cmd'[p] = cmd[p]
  BY <1>1 DEF ReasonInv
<1>2. CASE CheckReapply(p) /\ cmd'[p] = [cmd[p] EXCEPT !.step = "bootstrap"]
  BY <1>2, CommandKinds DEF CheckReapply, CreateCommand
<1>3. ASSUME NEW a \in AppId, createWithBootstrap(p)
      PROVE  cmd'[p] # [cmd[p] EXCEPT !.step = "auditCreate", !.app = a]
  BY <1>3, CommandKinds DEF createWithBootstrap, CreateCommand
<1>4. ASSUME NEW to \in Status, NEW hasReason \in BOOLEAN, NEW op \in Operation,
             Decides(p, to, hasReason, op)
      PROVE  /\ cmd'[p].hasReason => cmd'[p].to = "REQUIRES_HUMAN_ACTION"
             /\ cmd'[p].expected = "PREPARING" /\ cmd'[p].to = "REQUIRES_HUMAN_ACTION"
                  => cmd'[p].hasReason
  <2>1. PICK a \in AppId :
           /\ cmd'[p] = [step |-> "commit", op |-> op, app |-> a, expected |-> row[a].status,
                         to |-> to, now |-> clock,
                         hasReason |-> hasReason /\ to = "REQUIRES_HUMAN_ACTION"]
           /\ row[a].status = "PREPARING" /\ to = "REQUIRES_HUMAN_ACTION" => hasReason
    BY <1>4, Zenon DEF Decides
  <2>2. /\ cmd'[p].to = to /\ cmd'[p].expected = row[a].status
        /\ cmd'[p].hasReason = (hasReason /\ to = "REQUIRES_HUMAN_ACTION")
    BY <2>1
  <2>3. QED
    BY <2>1, <2>2, Zenon
<1>5. CASE raiseHumanAction(p)
  BY <1>5 DEF raiseHumanAction, Run, TypeOK
<1>6. CASE transitionWithEvent(p) /\ cmd'[p] = [cmd[p] EXCEPT !.step = "audit"]
  BY <1>6, CommandKinds DEF transitionWithEvent, StatusCommand
<1>7. QED
  BY <1>1, <1>2, <1>3, <1>4, <1>5, <1>6, CommandEffect DEF CommandStep

(* HumanReasonShown: an application whose human action was raised by a     *)
(* preparation shows a reason, and shows none in any other status.         *)
THEOREM ReasonShown == Spec => []HumanReasonShown
<1>1. Init => ReasonInv /\ HumanReasonShown
  BY DEF Init, ReasonInv, HumanReasonShown, Idle, AbsentRow, NoEvent
<1>2. IndInv /\ ReasonInv /\ [Next]_vars => ReasonInv'
  BY ReasonInvariant DEF IndInv
<1>3. IndInv /\ ReasonInv /\ HumanReasonShown /\ [Next]_vars => HumanReasonShown'
  <2> SUFFICES ASSUME IndInv, ReasonInv, HumanReasonShown, [Next]_vars
               PROVE  HumanReasonShown'
    OBVIOUS
  <2>1. CASE UNCHANGED <<row, head>>
    BY <2>1 DEF HumanReasonShown
  <2>2. ASSUME NEW p \in Procs, NEW a \in AppId, Inserts(p, a) PROVE HumanReasonShown'
    <3>1. Opens(a)
      BY <2>2, InsertEffect DEF IndInv
    <3>2. head'[a] # [from |-> "PREPARING", to |-> "REQUIRES_HUMAN_ACTION"]
      BY <3>1 DEF Opens
    <3>3. ~row'[a].asksHuman
      BY <3>1, Zenon DEF Opens
    <3>4. QED
      BY <3>1, <3>2, <3>3 DEF HumanReasonShown, OthersUnchanged, Opens
  <2>3. ASSUME NEW p \in Procs, Updates(p) PROVE HumanReasonShown'
    <3> DEFINE a == cmd[p].app
    <3>1. a \in AppId /\ row[a] \in Row
      BY <2>3, Existence, AllowedEdges
         DEF IndInv, Updates, StatusCommand, StatusAsExpected, Exists, Status
    <3>2. row'[a].status = cmd[p].to /\ row'[a].asksHuman = cmd[p].hasReason
      BY <2>3, <3>1 DEF Updates, AfterTransition, Row, IndInv, TypeOK
    <3>3. head'[a] = [from |-> cmd[p].expected, to |-> cmd[p].to]
      BY <2>3, <3>1 DEF Updates, IndInv, TypeOK
    <3>4. \A b \in AppId \ {a} : row'[b] = row[b] /\ head'[b] = head[b]
      BY <2>3, <3>1 DEF Updates, IndInv, TypeOK
    <3>5. /\ cmd[p].hasReason => cmd[p].to = "REQUIRES_HUMAN_ACTION"
          /\ cmd[p].expected = "PREPARING" /\ cmd[p].to = "REQUIRES_HUMAN_ACTION"
               => cmd[p].hasReason
      BY <2>3 DEF Updates, ReasonInv
    <3>6. QED
      BY <3>2, <3>3, <3>4, <3>5 DEF HumanReasonShown
  <2>4. QED
    BY <2>1, <2>2, <2>3, TableSteps DEF IndInv
<1>4. QED
  BY <1>1, <1>2, <1>3, Inductive, PTL DEF Spec

--------------------------------------------------------------------------------
(* Reapplication.                                                          *)

(* Application b was rejected in slot s at least the cooldown before time  *)
(* t, and has at most been archived since.                                 *)
Earned(b, s, t) ==
  /\ Exists(b) /\ row[b].slot = s
  /\ \/ row[b].status = "REJECTED" /\ t - row[b].lastTransitionAt >= CooldownDays
     \/ head[b] = [from |-> "REJECTED", to |-> "ARCHIVED"]

(* What the policy found stays true until the command inserts its row.     *)
EarnedInv ==
  \A p \in Procs :
    cmd[p].step = "bootstrap" /\ cmd[p].supersedes # NoApp
      => Earned(cmd[p].supersedes, SlotOf(cmd[p]), cmd[p].now)

(* Lemma: a reapplication once earned stays earned.                        *)
LEMMA EarnedForGood ==
  ASSUME IndInv, [Next]_vars, NEW b \in AppId, NEW s, NEW t, Earned(b, s, t)
  PROVE  /\ row'[b].status # "ABSENT" /\ row'[b].slot = s
         /\ \/ row'[b].status = "REJECTED" /\ t - row'[b].lastTransitionAt >= CooldownDays
            \/ head'[b] = [from |-> "REJECTED", to |-> "ARCHIVED"]
<1>1. head[b].to = "ARCHIVED" => row[b].status = "ARCHIVED"
  BY DEF IndInv, HeadInv
<1>2. QED
  BY <1>1, Persistence DEF IndInv, Earned

(* Lemma: EarnedInv is inductive.                                          *)
LEMMA EarnedInvariant == ASSUME IndInv, IndInv', EarnedInv, [Next]_vars PROVE EarnedInv'
<1> USE DEF IndInv
<1> SUFFICES ASSUME NEW p \in Procs, cmd'[p].step = "bootstrap", cmd'[p].supersedes # NoApp
             PROVE  Earned(cmd[p].supersedes, SlotOf(cmd[p]), cmd[p].now)'
  BY DEF EarnedInv
<1>1. CASE cmd'[p] = cmd[p]
  <2>1. cmd[p].supersedes \in AppId
    BY <1>1, CommandKinds DEF CreateCommand
  <2>2. Earned(cmd[p].supersedes, SlotOf(cmd[p]), cmd[p].now)
    BY <1>1 DEF EarnedInv
  <2>3. QED
    BY <1>1, <2>1, <2>2, EarnedForGood DEF Earned, Exists, SlotOf
<1>2. CASE CheckReapply(p) /\ cmd'[p] = [cmd[p] EXCEPT !.step = "bootstrap"]
  <2>1. cmd[p] \in CreateCommand
    BY <1>2, CommandKinds DEF CheckReapply
  <2>2. /\ cmd'[p].supersedes = cmd[p].supersedes /\ SlotOf(cmd[p])' = SlotOf(cmd[p])
        /\ cmd'[p].now = cmd[p].now
    BY <1>2, <2>1 DEF CreateCommand, SlotOf
  <2>3. cmd[p].supersedes \in AppId
    BY <2>1, <2>2 DEF CreateCommand
  <2>4. MayReapply(cmd[p])
    <3>1. GoTo(p, "bootstrap") \/ Finish(p)
      BY <1>2 DEF CheckReapply
    <3>2. ~Finish(p)
      BY DEF Finish, Run, TypeOK, Idle
    <3>3. QED
      BY <1>2, <2>2, <3>2 DEF CheckReapply
  <2>5. Exists(cmd[p].supersedes)
    BY <2>4 DEF MayReapply, Exists
  <2>6. QED
    BY <1>2, <2>2, <2>4, <2>5 DEF MayReapply, isCooldownSatisfied, CheckReapply, Earned, Exists
<1>3. ASSUME NEW a \in AppId, createWithBootstrap(p)
      PROVE  cmd'[p] # [cmd[p] EXCEPT !.step = "auditCreate", !.app = a]
  BY <1>3, CommandKinds DEF createWithBootstrap, CreateCommand
<1>4. ASSUME NEW to \in Status, NEW hasReason \in BOOLEAN, NEW op \in Operation,
             Decides(p, to, hasReason, op)
      PROVE  cmd'[p].step = "commit"
  BY <1>4 DEF Decides
<1>5. ~raiseHumanAction(p)
  BY DEF raiseHumanAction, Run, TypeOK
<1>6. ASSUME transitionWithEvent(p)
      PROVE  cmd'[p] # [cmd[p] EXCEPT !.step = "audit"]
  BY <1>6, CommandKinds DEF transitionWithEvent, StatusCommand
<1>7. QED
  BY ZenonT(60), <1>1, <1>2, <1>3, <1>4, <1>5, <1>6, CommandEffect DEF CommandStep

(* ReapplicationEarned: an application that supersedes another one names   *)
(* one of its slot that was rejected, at least the cooldown before.        *)
THEOREM Reapplication == Spec => []ReapplicationEarned
<1>1. Init => EarnedInv /\ ReapplicationEarned
  BY DEF Init, EarnedInv, ReapplicationEarned, Idle, Exists, AbsentRow
<1>2. IndInv /\ IndInv' /\ EarnedInv /\ [Next]_vars => EarnedInv'
  BY EarnedInvariant
<1>3. IndInv /\ IndInv' /\ EarnedInv /\ ReapplicationEarned /\ [Next]_vars
        => ReapplicationEarned'
  <2> SUFFICES ASSUME IndInv, IndInv', EarnedInv, ReapplicationEarned, [Next]_vars,
                      NEW a \in AppId, row'[a].status # "ABSENT", row'[a].supersedes # NoApp
               PROVE  Earned(row[a].supersedes, row[a].slot, row[a].createdAt)'
    BY DEF ReapplicationEarned, Earned, Exists
  <2>1. CASE Exists(a)
    <3>1. /\ row'[a].supersedes = row[a].supersedes /\ row'[a].slot = row[a].slot
          /\ row'[a].createdAt = row[a].createdAt
      BY <2>1, Persistence DEF IndInv
    <3>2. row[a].supersedes \in AppId
      BY <2>1, <3>1, Existence DEF IndInv, Row
    <3>3. Earned(row[a].supersedes, row[a].slot, row[a].createdAt)
      BY <2>1, <3>1 DEF ReapplicationEarned, Earned
    <3>4. QED
      BY <3>1, <3>2, <3>3, EarnedForGood DEF Earned, Exists
  <2>2. ASSUME ~Exists(a), NEW p \in Procs, NEW b \in AppId, Inserts(p, b)
        PROVE  Earned(row[a].supersedes, row[a].slot, row[a].createdAt)'
    <3>1. a = b
      BY <2>2 DEF Inserts, IndInv, TypeOK, Exists
    <3>2. row'[a] = NewRow(cmd[p])
      BY <2>2, <3>1 DEF Inserts, IndInv, TypeOK
    <3>3. /\ row'[a].supersedes = cmd[p].supersedes /\ row'[a].slot = SlotOf(cmd[p])
          /\ row'[a].createdAt = cmd[p].now
      BY <3>2 DEF NewRow
    <3>4. cmd[p].supersedes \in AppId
      BY <2>2, <3>3 DEF Inserts, CreateCommand
    <3>5. Earned(cmd[p].supersedes, SlotOf(cmd[p]), cmd[p].now)
      BY <2>2, <3>3 DEF Inserts, EarnedInv
    <3>6. QED
      BY <3>3, <3>4, <3>5, EarnedForGood DEF Earned, Exists
  <2>3. ASSUME ~Exists(a), NEW b \in AppId, NEW to \in Status, Moves(b, to) PROVE FALSE
    BY <2>3 DEF Moves, OthersUnchanged, Exists
  <2>4. QED
    BY <2>1, <2>2, <2>3, TableSteps, UpdateEffect DEF IndInv, Exists
<1>4. QED
  BY <1>1, <1>2, <1>3, Inductive, PTL DEF Spec
================================================================================
