---------------------------- MODULE MCBackground -----------------------------
(***************************************************************************)
(* Rows that worker replicas look after in the background, for TLC: open   *)
(* notification batches, personal policy runs, the alerts of a group and   *)
(* the SourceSilent alert of an integration.  They share no state, so a    *)
(* behaviour exercises one of them, the others staying as they began.      *)
(***************************************************************************)
EXTENDS Integers

VARIABLES part,
          batch, ntf, grp, lock, proc, released, reopened, aborts,
          group, policy, run, fired, quiet, replica, edits, moves, faults,
          parent, alert, linked, pending, latest, missed, syncFaults, reopens,
          talking, silent, marked, copy, raised, told, window, beat, turns, windows, beatFaults

batchVars == <<batch, ntf, grp, lock, proc, released, reopened, aborts>>
policyVars == <<group, policy, run, fired, quiet, replica, edits, moves, faults>>
syncVars == <<parent, alert, linked, pending, latest, missed, syncFaults, reopens>>
beatVars == <<talking, silent, marked, copy, raised, told, window, beat, turns, windows, beatFaults>>
vars == <<part, batchVars, policyVars, syncVars, beatVars>>

Groups == {"g1", "g2"}
Batches == {"b1", "b2"}
Notifications == {"n1", "n2"}

(* Two replicas escalate and flush while an ingest attaches. *)
Racing == INSTANCE NotificationBatch WITH
    Workers <- {"w1", "w2"}, Ingesters <- {"i1"}, Timeout <- 1, Deadline <- 2, MaxAborts <- 1

(* Ingests and flushes of one replica take turns. *)
Turns == INSTANCE NotificationBatch WITH
    Workers <- {"w1"}, Ingesters <- {}, Timeout <- 1, Deadline <- 2, MaxAborts <- 1

(* No policy, three steps with waits, and an edit between the two. *)
Replicas == {"p1", "p2"}
Policy == INSTANCE PolicyRuns WITH
    Runs <- {"r1"}, Policies <- {<<>>, <<1, 2, 0>>, <<0, 2>>},
    MaxWait <- 2, MaxLag <- 1, MaxEdits <- 1, MaxMoves <- 2, MaxFaults <- 1

Actors == {"a1", "a2"}
Alerts == {"x1", "x2", "x3"}

(* Closing and reopening transitions whose statements may overtake. *)
Sync == INSTANCE AlertStatusSync WITH
    MaxFaults <- 2, MaxReopen <- 2, group <- parent, faults <- syncFaults

(* One replica, no failure, a pipeline that lets the alerts through. *)
One == INSTANCE SourceHeartbeat WITH
    Replicas <- {"p1"}, Limit <- 3, Drops <- FALSE, MaxTurns <- 5, MaxWindows <- 3, MaxFaults <- 0,
    quiet <- silent, proc <- beat, faults <- beatFaults

(* Two replicas, failures, alerts that the pipeline drops. *)
Two == INSTANCE SourceHeartbeat WITH
    Limit <- 1, Drops <- TRUE, MaxTurns <- 4, MaxWindows <- 2, MaxFaults <- 2,
    quiet <- silent, proc <- beat, faults <- beatFaults

(* The shape of the component that the behaviour exercises. *)
TypeOK ==
    \/ part = "racing" /\ Racing!TypeOK
    \/ part = "serial" /\ Turns!TypeOK
    \/ part = "policy" /\ Policy!TypeOK
    \/ part = "sync" /\ Sync!TypeOK
    \/ part = "one" /\ One!TypeOK
    \/ part = "two" /\ Two!TypeOK

Init ==
    /\ part \in {"racing", "serial", "policy", "sync", "one", "two"}
    /\ IF part = "racing" THEN Racing!Init ELSE Turns!Init
    /\ part \notin {"racing", "serial"} => \A g \in Groups : grp[g] = "none"
    /\ Policy!Init
    /\ part # "policy" => policy = <<>>
    /\ Sync!Init
    /\ IF part = "two" THEN Two!Init ELSE One!Init

InBatch(A) == A /\ UNCHANGED <<part, policyVars, syncVars, beatVars>>
InPolicy(A) == A /\ UNCHANGED <<part, batchVars, syncVars, beatVars>>
InSync(A) == A /\ UNCHANGED <<part, batchVars, policyVars, beatVars>>
InBeat(A) == A /\ UNCHANGED <<part, batchVars, policyVars, syncVars>>

Next ==
    \/ part = "racing" /\ InBatch(Racing!Next)
    \/ part = "serial" /\ InBatch(Turns!Next)
    \/ part = "policy" /\ InPolicy(Policy!Next)
    \/ part = "sync" /\ InSync(Sync!Next)
    \/ part = "one" /\ InBeat(One!Next)
    \/ part = "two" /\ InBeat(Two!Next)

(* Time passes, transactions finish, cache entries expire and every         *)
(* replica's worker loop keeps running its cycles.                          *)
Fairness ==
    /\ WF_vars(part = "serial" /\ InBatch(Turns!Tick))
    /\ WF_vars(part = "serial" /\ InBatch(Turns!Step("w1")))
    /\ WF_vars(part = "policy" /\ InPolicy(Policy!Tick))
    /\ WF_vars(part = "one" /\ InBeat(One!Tick))
    /\ WF_vars(part = "one" /\ InBeat(One!Refresh("p1")))
    /\ WF_vars(part = "one" /\ InBeat(One!Worker("p1")))
    /\ WF_vars(part = "two" /\ InBeat(Two!Tick))
    /\ \A p \in Replicas :
          /\ WF_vars(part = "policy" /\ InPolicy(Policy!Cycle(p)))
          /\ WF_vars(part = "two" /\ InBeat(Two!Refresh(p)))
          /\ WF_vars(part = "two" /\ InBeat(Two!Worker(p)))

Spec == Init /\ [][Next]_vars /\ Fairness

-----------------------------------------------------------------------------
(* Properties *)

(* ProcessNotificationBatches: a page is handed to delivery once, also when *)
(* two replicas listed the same due batch or an attach opened another.      *)
ReleasedOnce == part = "racing" => Racing!ReleasedOnce

(* attachNotificationBatch: the unique index on open batches refuses an     *)
(* ingest or an escalation only when a group of the key was reopened.       *)
NoBatchConflict == part = "racing" => Racing!NoBatchConflict

(* attachNotificationBatch and ProcessNotificationBatches: a page that      *)
(* joined a batch reaches delivery, as long as an attach does not run       *)
(* beside a flush.                                                          *)
EventuallyReleased == part = "serial" => Turns!EventuallyReleased

(* advanceNotificationPolicyRuns: no step of a run is queued twice or out   *)
(* of order, also when replicas work from overlapping listings or repeat a  *)
(* cycle that failed.                                                       *)
StepsInOrder == Policy!StepsInOrder

(* runPolicySteps: the wait a policy puts between two steps is kept, up to  *)
(* the age of the listing that a replica works from.                        *)
WaitKept == Policy!WaitKept

(* advanceNotificationPolicyRuns: nothing is queued while the group is      *)
(* acknowledged, silenced or resolved.                                      *)
QuietWhileAnswered == Policy!QuietWhileAnswered

(* advanceNotificationPolicyRuns: every run comes to its end. *)
RunsEnd == Policy!RunsEnd

(* syncAlertStatusForGroups: once the statement of the latest transition    *)
(* has landed last, the alerts read what their group reads, whatever was    *)
(* lost or overtaken on the way; a statement that is lost or overtaken is   *)
(* made good by the next one only.                                          *)
AlertsFollowGroup == part = "sync" => Sync!AlertsFollowGroup

(* reconcileHeartbeat, one replica, no failure, nothing dropped: a source   *)
(* that stays silent outside maintenance has been reported, also when it    *)
(* came back and fell silent before in the middle of a reconciliation.      *)
SilenceReported == part = "one" => One!SilenceReported

(* ProcessSourceHeartbeats, one replica, no failure, nothing dropped:       *)
(* "resolves it when the source comes back".                                *)
ReturnResolves == part = "one" => One!ReturnResolves

(* markHeartbeatState: with two replicas, failures between the steps and    *)
(* alerts that the pipeline drops, heartbeat_silent_since still comes to    *)
(* agree with a source that stays silent, or keeps talking.                 *)
MarkFollowsSource == part = "two" => Two!MarkFollowsSource

=============================================================================
