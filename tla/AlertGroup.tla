----------------------------- MODULE AlertGroup -----------------------------
(***************************************************************************)
(* The alert group as internal/model/alertgroup.go keeps it, and the walk  *)
(* of its escalation chain from internal/engine/steps.go.  Every operator  *)
(* here is one method of model.AlertGroup or one helper of the engine: it  *)
(* takes the row a transaction has loaded and returns the row that the     *)
(* transaction saves.  The module has no variables; Escalation.tla puts    *)
(* the operators into the transactions that call them.                     *)
(*                                                                         *)
(* Kept of a row: what decides escalation.  Left out: titles, labels,      *)
(* severities, attribution, the log text and the update timestamps.        *)
(***************************************************************************)
EXTENDS Integers, Sequences, FiniteSetsExt

CONSTANTS
    ReopenAcked,      \* NXS_ANOMALY_REOPEN_ACKED_ON_NEW_ALERT
    NotifyOnResolve,  \* deliveryCfg.NotifyOnResolve
    EpicCount,        \* epic_threshold_count of the integration, 0 is off
    EpicAge           \* epic_threshold_seconds of the integration, 0 is off

ASSUME PolicyAssumption ==
    /\ ReopenAcked \in BOOLEAN
    /\ NotifyOnResolve \in BOOLEAN
    /\ EpicCount \in Nat
    /\ EpicAge \in Nat

(* A SQL NULL in next_run_at or silenced_until. *)
Never == -1

Statuses == {"open", "acknowledged", "resolved", "silenced"}

(* What the last walk of the chain wrote to the group's log when it stopped *)
(* for good: "escalation_complete" (also the walk over a missing chain,     *)
(* which does the same to the row) or "escalation_repeat_exhausted".        *)
Halts == {"running", "complete", "exhausted"}

Kinds == {"WAIT", "NOTIFY", "TRIGGER_WEBHOOK", "CREATE_ISSUE", "RESOLVE", "REPEAT"}

(* One step of a chain after sanitizeStep.  delay is delay_minutes of a WAIT *)
(* and cooldown_minutes of a REPEAT; NOTIFY stands for the five kinds that   *)
(* page people and differ only in how they pick them.                        *)
Step == [kind : Kinds, delay : Nat, from : Nat, max : Nat]

Row == [status   : Statuses,
        direct   : BOOLEAN,              \* integration_id is null
        step     : Nat,                  \* current_step
        repeat   : Nat,                  \* repeat_count
        pass     : Nat,                  \* escalation_pass
        episode  : Nat,                  \* episode_id, the n-th id made for the group
        nextRun  : Nat \cup {Never},     \* next_run_at
        until    : Nat \cup {Never},     \* silenced_until
        halt     : Halts,
        created  : Nat,                  \* created_at
        count    : Nat,                  \* alert_count
        epicSent : BOOLEAN,              \* epic_sent_at is set
        paged    : BOOLEAN,              \* notified_user_ids is not empty
        resolveNotified : BOOLEAN]       \* resolve_notified_at is set

EscalationKeys == [episode : Nat, pass : Nat, step : Nat, repeat : Nat]

-----------------------------------------------------------------------------
(* Construction *)

NewAlertGroup(ts) ==
    [status |-> "open", direct |-> FALSE, step |-> 0, repeat |-> 0, pass |-> 0,
     episode |-> 0, nextRun |-> ts, until |-> Never, halt |-> "running",
     created |-> ts, count |-> 0, epicSent |-> FALSE, paged |-> FALSE, resolveNotified |-> FALSE]

(* The row of a direct page has no chain and no timer: its walk is over. *)
DirectPageRow(ts) ==
    [NewAlertGroup(ts) EXCEPT !.direct = TRUE, !.count = 1, !.nextRun = Never,
                              !.halt = "complete"]

-----------------------------------------------------------------------------
(* Transitions: each is total, and returns the row unchanged where the Go   *)
(* method refuses (its caller returns the error and saves nothing).         *)

StartEpisode(r) == [r EXCEPT !.episode = @ + 1]

(* Slip: the restart is not marked as a new pass. *)
RestartEscalationSamePass(r, ts) ==
    [r EXCEPT !.step = 0, !.repeat = 0, !.nextRun = ts, !.halt = "running"]

RestartEscalation(r, ts) ==
    [r EXCEPT !.step = 0, !.repeat = 0, !.pass = @ + 1, !.nextRun = ts, !.halt = "running"]

(* Slip: the timer survives the acknowledgement. *)
AcknowledgeKeepTimer(r) ==
    IF r.status = "resolved" THEN r ELSE [r EXCEPT !.status = "acknowledged"]

Acknowledge(r) ==
    IF r.status = "resolved" THEN r
    ELSE [r EXCEPT !.status = "acknowledged", !.nextRun = Never]

Resolve(r) == [r EXCEPT !.status = "resolved", !.nextRun = Never]

Unresolve(r, ts) ==
    IF r.status # "resolved" THEN r
    ELSE StartEpisode([r EXCEPT !.status = "open", !.step = 0, !.nextRun = ts,
                                !.halt = "running"])

(* Slip: the chain is left where the acknowledgement stopped it. *)
UnacknowledgeInPlace(r, ts) ==
    IF r.status # "acknowledged" THEN r
    ELSE [r EXCEPT !.status = "open", !.halt = "running"]

Unacknowledge(r, ts) ==
    IF r.status # "acknowledged" THEN r
    ELSE RestartEscalation([r EXCEPT !.status = "open"], ts)

(* until is Never for an indefinite silence. *)
Silence(r, until) ==
    IF r.status = "resolved" THEN r
    ELSE [r EXCEPT !.status = "silenced", !.until = until, !.nextRun = until]

SilenceExpired(r, ts) == r.status = "silenced" /\ r.until # Never /\ r.until <= ts

EndSilence(r, ts) == RestartEscalation([r EXCEPT !.status = "open"], ts)

(* next_run_at is left alone: the caller walks the chain in the same        *)
(* transaction.                                                             *)
ReopenOnNewAlert(r) ==
    StartEpisode([r EXCEPT !.status = "open", !.step = 0, !.repeat = 0, !.halt = "running"])

-----------------------------------------------------------------------------
(* The walk of the chain.  Positions are zero-based as in the code, so the  *)
(* step at position p of chain c is c[p + 1].                               *)

EscalationKey(r, p) ==
    [episode |-> r.episode, pass |-> r.pass, step |-> p, repeat |-> r.repeat]

(* The loop leaves advanceGroupLocked at these kinds and goes on after the  *)
(* others.                                                                  *)
Stops(c, p) == c[p + 1].kind \in {"WAIT", "RESOLVE", "REPEAT"}

WalkEnd(c, from) == IF from < Len(c) THEN Len(c) ELSE from

(* Where a walk that starts at position from stops: the first step that     *)
(* leaves the loop, or the end of the chain.  A chain edited down while the *)
(* group waited can leave from past its end.                                *)
StopAt(c, from) ==
    Min({p \in from .. WalkEnd(c, from) : p = WalkEnd(c, from) \/ Stops(c, p)})

Passed(r, c, kinds) == {p \in r.step .. StopAt(c, r.step) - 1 : c[p + 1].kind \in kinds}

(* The notifications the walk builds under the group's escalation key.      *)
(* covered says whether the step's recipients resolved to anybody: an empty *)
(* schedule, team or duty roster only logs a gap and consumes the step.     *)
(* CREATE_ISSUE has a key of its own, one per group and tracker.            *)
WalkKeys(r, c, covered) ==
    {EscalationKey(r, p) :
        p \in Passed(r, c, {"TRIGGER_WEBHOOK"} \cup (IF covered THEN {"NOTIFY"} ELSE {}))}

(* The row when the loop reaches its stopping step. *)
Walked(r, c, covered) ==
    [r EXCEPT !.step = StopAt(c, @),
              !.paged = @ \/ (covered /\ Passed(r, c, {"NOTIFY"}) # {})]

NotifiesResolved(r) == NotifyOnResolve /\ ~r.resolveNotified /\ r.paged

NotifyGroupResolved(r) ==
    [r EXCEPT !.resolveNotified = @ \/ NotifiesResolved(r)]

StepWait(r, s, ts) == [r EXCEPT !.step = @ + 1, !.nextRun = ts + s.delay]

(* Slip: the repeat is not counted. *)
StepRepeatUncounted(r, s, ts) == [r EXCEPT !.step = s.from, !.nextRun = ts + s.delay]

(* Slip: from_position is taken for one-based. *)
StepRepeatOneBased(r, s, ts) ==
    IF r.repeat + 1 > (IF s.max < 1 THEN 1 ELSE s.max)
    THEN [r EXCEPT !.nextRun = Never, !.halt = "exhausted"]
    ELSE [r EXCEPT !.repeat = @ + 1, !.step = s.from - 1, !.nextRun = ts + s.delay]

StepRepeat(r, s, ts) ==
    IF r.repeat + 1 > (IF s.max < 1 THEN 1 ELSE s.max)
    THEN [r EXCEPT !.nextRun = Never, !.halt = "exhausted"]
    ELSE [r EXCEPT !.repeat = @ + 1, !.step = s.from, !.nextRun = ts + s.delay]

StepComplete(r) == [r EXCEPT !.nextRun = Never, !.halt = "complete"]

(* The row after the step the walk stopped at. *)
StopStep(r, c, ts) ==
    IF r.step >= Len(c) THEN StepComplete(r)
    ELSE LET s == c[r.step + 1]
         IN  CASE s.kind = "WAIT"    -> StepWait(r, s, ts)
               [] s.kind = "REPEAT"  -> StepRepeat(r, s, ts)
               [] s.kind = "RESOLVE" -> NotifyGroupResolved(Resolve(r))

(* A walk of the chain is a no-op unless the group is open. *)
AdvanceGroup(r, c, ts, covered) ==
    IF r.status = "open" THEN StopStep(Walked(r, c, covered), c, ts) ELSE r

AdvanceKeys(r, c, covered) ==
    IF r.status = "open" THEN WalkKeys(r, c, covered) ELSE {}

(* The episode whose resolution a transaction announces, from the row it    *)
(* loaded and the row it saves.                                             *)
Announced(r, s) == IF s.resolveNotified /\ ~r.resolveNotified THEN {s.episode} ELSE {}

-----------------------------------------------------------------------------
(* Ingest *)

EpicReached(r, ts) ==
    \/ EpicCount > 0 /\ r.count >= EpicCount
    \/ EpicAge > 0 /\ r.count > 1 /\ ts - r.created >= EpicAge

(* checkEpicThreshold under its caller's guard: a group that a maintenance  *)
(* window keeps silenced is not reported as a storm.  epicUser is whether   *)
(* the epic user exists; without one nothing is sent and nothing recorded.  *)
CheckEpicThreshold(r, ts, maintenance, epicUser) ==
    IF maintenance # Never /\ r.status = "silenced" THEN r
    ELSE [r EXCEPT !.epicSent = @ \/ (epicUser /\ EpicReached(r, ts))]

IncAlertCount(r) == [r EXCEPT !.count = @ + 1]

(* A firing alert that opens a group; maintenance is the end of the window  *)
(* that covers the integration, or Never.                                   *)
OpenedRow(ts, maintenance) ==
    LET r == NewAlertGroup(ts)
    IN  IncAlertCount(IF maintenance = Never THEN r ELSE Silence(r, maintenance))

Reopens(r) == ReopenAcked /\ r.status = "acknowledged"

AttachedRow(r) == IncAlertCount(IF Reopens(r) THEN ReopenOnNewAlert(r) ELSE r)

=============================================================================
