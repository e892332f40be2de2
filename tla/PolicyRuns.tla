----------------------------- MODULE PolicyRuns -----------------------------
(***************************************************************************)
(* internal/engine/notification_policy.go: the runs of one user's personal *)
(* notification policy against one alert group.  A page starts a run,      *)
(* worker replicas advance the due ones.  A replica lists the runs and     *)
(* takes the time outside any lock, advances them in one transaction under *)
(* an advisory lock with the group's row locked, and deletes the finished  *)
(* ones afterwards.  Times are relative to now.                            *)
(***************************************************************************)
EXTENDS Integers, Sequences, FiniteSets

CONSTANTS
    Runs,       \* ids for notification_policy_runs
    Replicas,   \* worker processes
    Policies,   \* policies the user may have: the wait after each step
    MaxWait,    \* the longest of these waits
    MaxLag,     \* the longest from a listing to its transaction
    MaxEdits,   \* bound on edits of the policy
    MaxMoves,   \* bound on changes of the group's status
    MaxFaults   \* bound on failed transactions and deletes, and on crashes

VARIABLES
    group,    \* the status of the alert group
    policy,   \* the user's policy; empty without a policy or a user
    run,      \* [Runs -> a row]
    fired,    \* [Runs -> the steps fired so far, oldest first]
    quiet,    \* [Runs -> the time since the last of them]
    replica,  \* [Replicas -> the cycle in progress]
    edits, moves, faults

vars == <<group, policy, run, fired, quiet, replica, edits, moves, faults>>

Statuses == {"open", "acknowledged", "silenced", "resolved", "gone"}
Positions == 0 .. 3
(* step: steps done; wait: the wait before the next one; at: next_step_at.  *)
Rows == [status : {"unborn", "active", "done", "pruned"}, step : Positions, wait : 0 .. MaxWait, at : -MaxLag .. MaxWait]
Cycles == [pc : {"idle", "listed", "pruning"}, due : SUBSET Runs, lag : 0 .. MaxLag]
NoCycle == [pc |-> "idle", due |-> {}, lag |-> 0]

(* The shape of the rows and of the replicas' cycles. *)
TypeOK ==
    /\ group \in Statuses /\ policy \in Policies
    /\ run \in [Runs -> Rows]
    /\ fired \in [Runs -> Seq(Positions)]
    /\ quiet \in [Runs -> 0 .. MaxWait]
    /\ replica \in [Replicas -> Cycles]
    /\ edits \in 0 .. MaxEdits /\ moves \in 0 .. MaxMoves /\ faults \in 0 .. MaxFaults

Init ==
    /\ group = "open" /\ policy \in Policies
    /\ run = [r \in Runs |-> [status |-> "unborn", step |-> 0, wait |-> 0, at |-> 0]]
    /\ fired = [r \in Runs |-> <<>>]
    /\ quiet = [r \in Runs |-> 0]
    /\ replica = [p \in Replicas |-> NoCycle]
    /\ edits = 0 /\ moves = 0 /\ faults = 0

-----------------------------------------------------------------------------
(* runPolicySteps *)

(* The position the walk from position i stops at: the first step with a    *)
(* wait and a step after it, or the end of the policy.                      *)
Stop(i) ==
    IF i >= Len(policy) THEN i
    ELSE CHOOSE j \in i + 1 .. Len(policy) :
            /\ j = Len(policy) \/ policy[j] > 0
            /\ \A k \in i + 1 .. j - 1 : policy[k] = 0

(* Slip: the step just fired is stored as the next one. *)
WalkedBehind(row, lag) ==
    LET j == Stop(row.step) IN
    IF j < Len(policy)
    THEN [row EXCEPT !.status = "active", !.step = j - 1, !.wait = policy[j], !.at = policy[j] - lag]
    ELSE [row EXCEPT !.status = "done", !.step = j, !.wait = 0, !.at = 0]

(* The row after the walk at the time taken lag ago. *)
Walked(row, lag) ==
    LET j == Stop(row.step) IN
    IF j < Len(policy)
    THEN [row EXCEPT !.status = "active", !.step = j, !.wait = policy[j], !.at = policy[j] - lag]
    ELSE [row EXCEPT !.status = "done", !.step = j, !.wait = 0, !.at = 0]

(* firePolicyStep for every step on the way; one without an address is      *)
(* logged instead of queued.                                                *)
Firing(row) == [i \in 1 .. Stop(row.step) - row.step |-> row.step + i]

-----------------------------------------------------------------------------
(* startPolicyRun, in the transaction that pages the user. *)
Start(r) ==
    /\ group = "open" /\ policy # <<>>
    /\ run[r].status = "unborn"
    /\ run' = [run EXCEPT ![r] = Walked(run[r], 0)]
    /\ fired' = [fired EXCEPT ![r] = Firing(run[r])]
    /\ quiet' = [quiet EXCEPT ![r] = 0]
    /\ UNCHANGED <<group, policy, replica, edits, moves, faults>>

(* advanceNotificationPolicyRuns: the listing of due runs. *)
Due == {r \in Runs : run[r].status = "active" /\ run[r].at <= 0}

List(p) ==
    /\ replica[p].pc = "idle" /\ Due # {}
    /\ replica' = [replica EXCEPT ![p] = [pc |-> "listed", due |-> Due, lag |-> 0]]
    /\ UNCHANGED <<group, policy, run, fired, quiet, edits, moves, faults>>

(* Slip: the time is not checked again. *)
StillDueUntimed(p) == {r \in replica[p].due : run[r].status = "active"}

(* The checks repeated under the lock, against the time of the listing. *)
StillDue(p) == {r \in replica[p].due : run[r].status = "active" /\ run[r].at <= -replica[p].lag}

(* Slip: runs of a group that is not open are passed over, not ended. *)
AdvanceSkipping(p) ==
    LET ready == IF group = "open" THEN StillDue(p) ELSE {}
        walked == [r \in ready |-> Walked(run[r], replica[p].lag)] IN
    /\ replica[p].pc = "listed"
    /\ run' = [r \in Runs |-> IF r \in ready THEN walked[r] ELSE run[r]]
    /\ fired' = [r \in Runs |-> IF r \in ready THEN fired[r] \o Firing(run[r]) ELSE fired[r]]
    /\ quiet' = [r \in Runs |-> IF r \in ready /\ Firing(run[r]) # <<>> THEN 0 ELSE quiet[r]]
    /\ replica' = [replica EXCEPT ![p].pc = "pruning", ![p].due = {r \in ready : walked[r].status = "done"}]
    /\ UNCHANGED <<group, policy, edits, moves, faults>>

(* Slip: the group's status is not looked at. *)
AdvanceRegardless(p) ==
    LET ready == StillDue(p)
        walked == [r \in ready |-> Walked(run[r], replica[p].lag)] IN
    /\ replica[p].pc = "listed"
    /\ run' = [r \in Runs |-> IF r \in ready THEN walked[r] ELSE run[r]]
    /\ fired' = [r \in Runs |-> IF r \in ready THEN fired[r] \o Firing(run[r]) ELSE fired[r]]
    /\ quiet' = [r \in Runs |-> IF r \in ready /\ Firing(run[r]) # <<>> THEN 0 ELSE quiet[r]]
    /\ replica' = [replica EXCEPT ![p].pc = "pruning", ![p].due = {r \in ready : walked[r].status = "done"}]
    /\ UNCHANGED <<group, policy, edits, moves, faults>>

(* The transaction: a run ends when the group is gone or not open and walks *)
(* on otherwise (a user who is gone has no steps left).                     *)
Advance(p) ==
    LET ready == StillDue(p)
        walking == IF group = "open" THEN ready ELSE {}
        after == [r \in ready |-> IF r \in walking THEN Walked(run[r], replica[p].lag)
                                                   ELSE [run[r] EXCEPT !.status = "done"]] IN
    /\ replica[p].pc = "listed"
    /\ run' = [r \in Runs |-> IF r \in ready THEN after[r] ELSE run[r]]
    /\ fired' = [r \in Runs |-> IF r \in walking THEN fired[r] \o Firing(run[r]) ELSE fired[r]]
    /\ quiet' = [r \in Runs |-> IF r \in walking /\ Firing(run[r]) # <<>> THEN 0 ELSE quiet[r]]
    /\ replica' = [replica EXCEPT ![p].pc = "pruning", ![p].due = {r \in ready : after[r].status = "done"}]
    /\ UNCHANGED <<group, policy, edits, moves, faults>>

(* DeleteItem of the completed runs, one by one; a failure is only logged.  *)
Prune(p) ==
    /\ replica[p].pc = "pruning"
    /\ \/ /\ replica[p].due = {}
          /\ replica' = [replica EXCEPT ![p] = NoCycle]
          /\ UNCHANGED <<run, faults>>
       \/ \E r \in replica[p].due :
             /\ replica' = [replica EXCEPT ![p].due = @ \ {r}]
             /\ \/ run' = [run EXCEPT ![r].status = "pruned"] /\ UNCHANGED faults
                \/ faults < MaxFaults /\ faults' = faults + 1 /\ UNCHANGED run
    /\ UNCHANGED <<group, policy, fired, quiet, edits, moves>>

(* The transaction fails, or the process dies at any point. *)
Fault(p) ==
    /\ replica[p].pc # "idle" /\ faults < MaxFaults
    /\ replica' = [replica EXCEPT ![p] = NoCycle]
    /\ faults' = faults + 1
    /\ UNCHANGED <<group, policy, run, fired, quiet, edits, moves>>

-----------------------------------------------------------------------------
(* The group and the user *)

(* The group's transitions, as model.AlertGroup allows them; an unresolved  *)
(* or unacknowledged group is paged again from the start.                   *)
Move(status) ==
    /\ moves < MaxMoves
    /\ group # "gone" /\ status # group
    /\ status = "gone" => group = "resolved"
    /\ status \in {"acknowledged", "silenced"} => group # "resolved"
    /\ group' = status /\ moves' = moves + 1
    /\ UNCHANGED <<policy, run, fired, quiet, replica, edits, faults>>

EditPolicy ==
    /\ edits < MaxEdits
    /\ policy' \in Policies \ {policy} /\ edits' = edits + 1
    /\ UNCHANGED <<group, run, fired, quiet, replica, moves, faults>>

Tick ==
    /\ \A p \in Replicas : replica[p].pc = "listed" => replica[p].lag < MaxLag
    /\ run' = [r \in Runs |-> IF run[r].at > -MaxLag /\ run[r].status = "active" THEN [run[r] EXCEPT !.at = @ - 1] ELSE run[r]]
    /\ quiet' = [r \in Runs |-> IF quiet[r] < MaxWait THEN quiet[r] + 1 ELSE MaxWait]
    /\ replica' = [p \in Replicas |-> IF replica[p].pc = "listed" THEN [replica[p] EXCEPT !.lag = @ + 1] ELSE replica[p]]
    /\ UNCHANGED <<group, policy, fired, edits, moves, faults>>

Cycle(p) == List(p) \/ Advance(p) \/ Prune(p)

Next ==
    \/ \E r \in Runs : Start(r)
    \/ \E p \in Replicas : Cycle(p) \/ Fault(p)
    \/ \E s \in Statuses : Move(s)
    \/ EditPolicy \/ Tick

Spec == Init /\ [][Next]_vars

-----------------------------------------------------------------------------
(* Properties *)

(* No step of a run is queued twice and none is queued out of order, also   *)
(* when replicas work from overlapping listings or repeat a cycle that      *)
(* failed; the unique idempotency key of the table is not needed for it.    *)
StepsInOrder ==
    \A r \in Runs :
        /\ \A i \in 1 .. Len(fired[r]) - 1 : fired[r][i] < fired[r][i + 1]
        /\ \A i \in 1 .. Len(fired[r]) : fired[r][i] <= run[r].step

(* A fallback does not come early: between two steps separated by a wait    *)
(* at least that wait passes, short of the lag between a cycle's timestamp  *)
(* and its transaction.                                                     *)
WaitKept ==
    [][\A r \in Runs : run[r].status = "active" /\ fired'[r] # fired[r]
                          => quiet[r] >= run[r].wait - MaxLag]_vars

(* Stop-on-response: no fallback is queued while the group is acknowledged, *)
(* silenced, resolved or gone, whatever it was when the run was listed.     *)
QuietWhileAnswered == [][group # "open" => fired' = fired]_vars

(* Every run comes to an end. *)
RunsEnd == \A r \in Runs : (run[r].status = "active") ~> (run[r].status # "active")

=============================================================================
