------------------------ MODULE ApplicationStateMachine ------------------------
(***************************************************************************)
(* The approved state machine of an application, as the pure functions of *)
(* packages/application-engine/src/state-machine.ts compute it: the table *)
(* of edges, the guard of each edge, and canTransition, which requires     *)
(* both.  No state: the modules about applications use these operators.    *)
(***************************************************************************)

Status == {"DISCOVERED", "FILTERED", "SHORTLISTED", "PREPARING",
           "READY_FOR_REVIEW", "APPROVED", "SUBMITTING", "SUBMITTED",
           "REJECTED", "INTERVIEW", "OFFER", "FAILED",
           "REQUIRES_HUMAN_ACTION", "ARCHIVED"}

Actor == {"system", "user"}
Mode == {"manual", "assisted", "auto"}

(***************************************************************************)
(* What a caller tells the guard.  hasReason is "a reason that is not      *)
(* blank"; a flag that is not given counts as false, as in the code.       *)
(***************************************************************************)
TransitionContext ==
  [actor: Actor, mode: Mode, hasReason: BOOLEAN, snapshotComplete: BOOLEAN,
   submissionAuthorized: BOOLEAN, retryAllowed: BOOLEAN]

(* The edges besides the archive edges: every status but ARCHIVED has one. *)
ForwardEdges ==
  {<<"DISCOVERED", "FILTERED">>, <<"FILTERED", "SHORTLISTED">>,
   <<"SHORTLISTED", "PREPARING">>,
   <<"PREPARING", "READY_FOR_REVIEW">>, <<"PREPARING", "REQUIRES_HUMAN_ACTION">>,
   <<"READY_FOR_REVIEW", "APPROVED">>, <<"APPROVED", "SUBMITTING">>,
   <<"SUBMITTING", "PREPARING">>, <<"SUBMITTING", "SUBMITTED">>,
   <<"SUBMITTING", "FAILED">>, <<"SUBMITTING", "REQUIRES_HUMAN_ACTION">>,
   <<"SUBMITTED", "REJECTED">>, <<"SUBMITTED", "INTERVIEW">>,
   <<"SUBMITTED", "OFFER">>, <<"FAILED", "PREPARING">>,
   <<"REQUIRES_HUMAN_ACTION", "PREPARING">>,
   <<"REQUIRES_HUMAN_ACTION", "APPROVED">>}

ALLOWED == ForwardEdges \cup {<<s, "ARCHIVED">> : s \in Status \ {"ARCHIVED"}}

(* The application still occupies the slot of its (candidate, job).        *)
isActiveStatus(s) == s \notin {"ARCHIVED", "REJECTED"}

checkArchiveGuard(from, ctx) ==
  ctx.actor = "user" \/ from \in {"DISCOVERED", "FILTERED"}

(* The guard of an edge; canTransition asks it of the edges of ALLOWED only. *)
checkGuard(from, to, ctx) ==
  CASE to = "ARCHIVED" -> checkArchiveGuard(from, ctx)
    [] from \in {"DISCOVERED", "FILTERED"} -> ctx.actor = "system"
    [] from = "SHORTLISTED" -> ctx.actor = "system" /\ ctx.mode # "auto"
    [] from = "PREPARING" /\ to = "READY_FOR_REVIEW" ->
         ctx.actor = "system" /\ ctx.snapshotComplete
    [] from = "PREPARING" -> ctx.actor = "system" /\ ctx.hasReason
    [] from = "READY_FOR_REVIEW" -> ctx.actor = "user" \/ ctx.snapshotComplete
    [] from = "REQUIRES_HUMAN_ACTION" /\ to = "PREPARING" ->
         ctx.actor = "user" /\ ctx.hasReason
    [] from = "REQUIRES_HUMAN_ACTION" -> ctx.actor = "user" /\ ctx.snapshotComplete
    [] from = "APPROVED" -> ctx.actor = "system" /\ ctx.submissionAuthorized
    [] from = "SUBMITTING" -> ctx.actor = "system"
    [] from = "SUBMITTED" -> ctx.actor = "user"
    [] from = "FAILED" -> ctx.actor = "system" /\ ctx.retryAllowed
    [] OTHER -> FALSE

canTransition(from, to, ctx) ==
  <<from, to>> \in ALLOWED /\ checkGuard(from, to, ctx)

================================================================================
