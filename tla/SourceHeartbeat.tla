--------------------------- MODULE SourceHeartbeat ---------------------------
(***************************************************************************)
(* internal/engine/heartbeat.go for one integration: worker replicas raise *)
(* the SourceSilent alert when the source has been quiet for too long and  *)
(* resolve it when it is back.  The decision rests on the cached           *)
(* integration row (heartbeat_silent_since) and the last alert received;   *)
(* the ingest of the alert and the update of the row are two transactions  *)
(* that follow it, and no lock spans them.                                 *)
(***************************************************************************)
EXTENDS Integers

CONSTANTS
    Replicas,
    Limit,       \* interval_seconds + grace_seconds
    Drops,       \* the pipeline drops some of the SourceSilent alerts
    MaxTurns,    \* bound on the source stopping and starting
    MaxWindows,  \* bound on maintenance windows starting and ending
    MaxFaults    \* bound on failures and crashes

VARIABLES
    talking,  \* the source sends alerts
    quiet,    \* time since its last one
    marked,   \* heartbeat_silent_since of the stored integration
    copy,     \* [Replicas -> heartbeat_silent_since in the cache]
    raised,   \* the SourceSilent group is unresolved
    told,     \* the last SourceSilent alert that got through was firing
    window,   \* a maintenance window covers the integration
    proc,     \* [Replicas -> the reconciliation in progress]
    turns, windows, faults

vars == <<talking, quiet, marked, copy, raised, told, window, proc, turns, windows, faults>>

Procs == [pc : {"idle", "decided", "ingested"}, silent : BOOLEAN]
NoProc == [pc |-> "idle", silent |-> FALSE]

(* The shape of the row, its cached copies and the reconciliations. *)
TypeOK ==
    /\ talking \in BOOLEAN /\ quiet \in 0 .. Limit + 1
    /\ marked \in BOOLEAN /\ copy \in [Replicas -> BOOLEAN]
    /\ raised \in BOOLEAN /\ told \in BOOLEAN
    /\ window \in BOOLEAN
    /\ proc \in [Replicas -> Procs]
    /\ turns \in 0 .. MaxTurns /\ windows \in 0 .. MaxWindows /\ faults \in 0 .. MaxFaults

Init ==
    /\ talking = TRUE /\ quiet = 0
    /\ marked = FALSE /\ copy = [p \in Replicas |-> FALSE]
    /\ raised = FALSE /\ told = FALSE
    /\ window = FALSE
    /\ proc = [p \in Replicas |-> NoProc]
    /\ turns = 0 /\ windows = 0 /\ faults = 0

-----------------------------------------------------------------------------
(* The cache entry expires and the row is read again. *)
Refresh(p) ==
    /\ copy[p] # marked
    /\ copy' = [copy EXCEPT ![p] = marked]
    /\ UNCHANGED <<talking, quiet, marked, raised, told, window, proc, turns, windows, faults>>

(* LastAlertReceivedAt leaves the SourceSilent alerts out. *)
Overdue == quiet > Limit

(* Slip: only the silence is reconciled. *)
ReconcileSilence(p) ==
    /\ proc[p].pc = "idle" /\ ~window
    /\ Overdue /\ ~copy[p]
    /\ proc' = [proc EXCEPT ![p] = [pc |-> "decided", silent |-> TRUE]]
    /\ UNCHANGED <<talking, quiet, marked, copy, raised, told, window, turns, windows, faults>>

(* ProcessSourceHeartbeats and the decision of reconcileHeartbeat. *)
Reconcile(p) ==
    /\ proc[p].pc = "idle" /\ ~window
    /\ Overdue # copy[p]
    /\ proc' = [proc EXCEPT ![p] = [pc |-> "decided", silent |-> Overdue]]
    /\ UNCHANGED <<talking, quiet, marked, copy, raised, told, window, turns, windows, faults>>

(* IngestAlert: a firing alert opens the group or joins it, a resolved one  *)
(* closes it.  An alert that the integration's pipeline drops is answered   *)
(* as a success, and the reconciliation goes on.                            *)
Ingest(p) ==
    /\ proc[p].pc = "decided"
    /\ \/ raised' = proc[p].silent /\ told' = proc[p].silent
       \/ Drops /\ UNCHANGED <<raised, told>>
    /\ proc' = [proc EXCEPT ![p].pc = "ingested"]
    /\ UNCHANGED <<talking, quiet, marked, copy, window, turns, windows, faults>>

(* Slip: the mark is set when the alert is raised and never taken back. *)
MarkHeartbeatStateOnce(p) ==
    /\ proc[p].pc = "ingested"
    /\ marked' = (marked \/ proc[p].silent) /\ copy' = [copy EXCEPT ![p] = marked \/ proc[p].silent]
    /\ proc' = [proc EXCEPT ![p] = NoProc]
    /\ UNCHANGED <<talking, quiet, raised, told, window, turns, windows, faults>>

(* The write drops this replica's cache entry. *)
MarkHeartbeatState(p) ==
    /\ proc[p].pc = "ingested"
    /\ marked' = proc[p].silent /\ copy' = [copy EXCEPT ![p] = proc[p].silent]
    /\ proc' = [proc EXCEPT ![p] = NoProc]
    /\ UNCHANGED <<talking, quiet, raised, told, window, turns, windows, faults>>

(* The ingest or the update fails, or the process dies before it. *)
Fault(p) ==
    /\ proc[p].pc # "idle" /\ faults < MaxFaults
    /\ proc' = [proc EXCEPT ![p] = NoProc]
    /\ faults' = faults + 1
    /\ UNCHANGED <<talking, quiet, marked, copy, raised, told, window, turns, windows>>

-----------------------------------------------------------------------------
(* An operator or the group's chain resolves the SourceSilent group. *)
ResolveGroup ==
    /\ raised /\ raised' = FALSE
    /\ UNCHANGED <<talking, quiet, marked, copy, told, window, proc, turns, windows, faults>>

(* The source stops, or comes back. *)
Turn ==
    /\ turns < MaxTurns
    /\ talking' = ~talking /\ turns' = turns + 1
    /\ quiet' = 0
    /\ UNCHANGED <<marked, copy, raised, told, window, proc, windows, faults>>

(* activeMaintenance starts or stops to cover the integration. *)
Maintenance ==
    /\ windows < MaxWindows
    /\ window' = ~window /\ windows' = windows + 1
    /\ UNCHANGED <<talking, quiet, marked, copy, raised, told, proc, turns, faults>>

Tick ==
    /\ ~talking /\ quiet <= Limit
    /\ quiet' = quiet + 1
    /\ UNCHANGED <<talking, marked, copy, raised, told, window, proc, turns, windows, faults>>

Worker(p) == Reconcile(p) \/ Ingest(p) \/ MarkHeartbeatState(p)

Next ==
    \/ \E p \in Replicas : Worker(p) \/ Refresh(p) \/ Fault(p)
    \/ ResolveGroup \/ Turn \/ Maintenance \/ Tick

Spec == Init /\ [][Next]_vars

(* Time passes, cache entries expire and the worker loops keep running. *)
FairSpec ==
    /\ Spec /\ WF_vars(Tick)
    /\ \A p \in Replicas : WF_vars(Refresh(p)) /\ WF_vars(Worker(p))

-----------------------------------------------------------------------------
(* Properties *)

(* ProcessSourceHeartbeats "raises an alert for every source that has gone  *)
(* quiet": about a source that stays silent outside maintenance the last    *)
(* thing said is that it is silent, whatever became of the group then.      *)
SilenceReported == <>[](~talking /\ ~window) => <>[]told

(* ProcessSourceHeartbeats "resolves it when the source comes back". *)
ReturnResolves == <>[](talking /\ ~window) => <>[]~raised

(* The stored mark comes to say what the source does, once that lasts.      *)
MarkFollowsSource ==
    /\ <>[](~talking /\ ~window) => <>[]marked
    /\ <>[](talking /\ ~window) => <>[]~marked

=============================================================================
