--------------------------- MODULE AlertStatusSync ---------------------------
(***************************************************************************)
(* How the alerts of one group follow it: a transition of the group        *)
(* commits first, and a statement of its own rewrites the alerts' status   *)
(* afterwards (syncAlertStatusForGroups).  Nothing orders the statements   *)
(* of two transitions.  Actors are the requests, ingest calls and worker   *)
(* cycles that change the group.                                           *)
(***************************************************************************)
EXTENDS Integers, FiniteSets

CONSTANTS
    Actors,
    Alerts,     \* ids of alerts
    MaxFaults,  \* bound on statements that fail
    MaxReopen   \* bound on UnresolveGroup

VARIABLES
    group,    \* the group's status, "none" before it exists, "archived" after
    alert,    \* [Alerts -> the alert's status, "none" without a row]
    linked,   \* alerts whose row has the group's alert_group_id
    pending,  \* [Actors -> the status the actor has yet to carry down]
    latest,   \* the actors of the latest transition: one, or none yet
    missed,   \* the latest transition's statement failed or was overtaken
    faults, reopens

vars == <<group, alert, linked, pending, latest, missed, faults, reopens>>

(* The shape of the group, its alerts and the pending statements. *)
TypeOK ==
    /\ group \in {"none", "open", "resolved", "archived"}
    /\ linked \subseteq Alerts
    /\ alert \in [Alerts -> {"none", "firing", "resolved"}]
    /\ pending \in [Actors -> {"none", "firing", "resolved"}]
    /\ latest \in SUBSET Actors /\ Cardinality(latest) <= 1
    /\ missed \in BOOLEAN
    /\ faults \in 0 .. MaxFaults /\ reopens \in 0 .. MaxReopen

Init ==
    /\ group = "none"
    /\ linked = {}
    /\ alert = [x \in Alerts |-> "none"]
    /\ pending = [a \in Actors |-> "none"]
    /\ latest = {} /\ missed = FALSE /\ faults = 0 /\ reopens = 0

(* A request, ingest or cycle carries its transition down before it ends. *)
Free(a) == pending[a] = "none"

(* The actor commits a transition and has status to carry down. *)
Transition(a, status) ==
    /\ pending' = [pending EXCEPT ![a] = status]
    /\ latest' = {a}

-----------------------------------------------------------------------------
(* ingestPrepared, a firing alert: it opens the group or joins it.  The     *)
(* chain of a new group, or of an acknowledged one that the alert reopens,  *)
(* is walked at once and may resolve the group again.                       *)
IngestFiring(a, x) ==
    /\ Free(a) /\ alert[x] = "none" /\ group \in {"none", "open"}
    /\ linked' = linked \cup {x}
    /\ alert' = [alert EXCEPT ![x] = "firing"]
    /\ \/ group' = "open" /\ UNCHANGED <<pending, latest>>
       \/ group' = "resolved" /\ Transition(a, "resolved")
    /\ UNCHANGED <<missed, faults, reopens>>

(* ingestPrepared, a resolving alert: its row keeps no alert_group_id. *)
IngestResolving(a, x) ==
    /\ Free(a) /\ alert[x] = "none" /\ group = "open"
    /\ alert' = [alert EXCEPT ![x] = "resolved"]
    /\ group' = "resolved" /\ Transition(a, "resolved")
    /\ UNCHANGED <<linked, missed, faults, reopens>>

(* ResolveGroup, BulkResolveGroups, the chat command; a chain that ends in  *)
(* RESOLVE is the case of an open group.                                    *)
ResolveGroup(a) ==
    /\ Free(a) /\ group \in {"open", "resolved"}
    /\ group' = "resolved" /\ Transition(a, "resolved")
    /\ UNCHANGED <<alert, linked, missed, faults, reopens>>

(* Slip: the reopened group's alerts are left alone. *)
UnresolveGroupAlone(a) ==
    /\ Free(a) /\ group = "resolved" /\ reopens < MaxReopen
    /\ group' = "open" /\ reopens' = reopens + 1
    /\ UNCHANGED <<alert, linked, pending, latest, missed, faults>>

UnresolveGroup(a) ==
    /\ Free(a) /\ group = "resolved" /\ reopens < MaxReopen
    /\ group' = "open" /\ Transition(a, "firing")
    /\ reopens' = reopens + 1
    /\ UNCHANGED <<alert, linked, missed, faults>>

(* SetAlertStatusForGroups: one UPDATE of all the group's alerts, whatever  *)
(* the group has become since the transition that asks for it.              *)
SetAlertStatusForGroups(a) ==
    /\ pending[a] # "none"
    /\ alert' = [x \in Alerts |-> IF x \in linked THEN pending[a] ELSE alert[x]]
    /\ pending' = [pending EXCEPT ![a] = "none"]
    /\ missed' = (a \notin latest)
    /\ UNCHANGED <<group, linked, latest, faults, reopens>>

(* The statement fails or times out, or the process dies before it: a       *)
(* warning at most.                                                         *)
SyncFails(a) ==
    /\ pending[a] # "none" /\ faults < MaxFaults
    /\ pending' = [pending EXCEPT ![a] = "none"]
    /\ missed' = (missed \/ a \in latest) /\ faults' = faults + 1
    /\ UNCHANGED <<group, alert, linked, latest, reopens>>

(* DeleteOldResolvedGroups, long after the resolve. *)
DeleteOldResolvedGroups ==
    /\ group = "resolved" /\ \A a \in Actors : pending[a] = "none"
    /\ group' = "archived"
    /\ alert' = [x \in Alerts |-> IF x \in linked THEN "none" ELSE alert[x]]
    /\ linked' = {}
    /\ UNCHANGED <<pending, latest, missed, faults, reopens>>

Next ==
    \/ \E a \in Actors, x \in Alerts : IngestFiring(a, x) \/ IngestResolving(a, x)
    \/ \E a \in Actors : ResolveGroup(a) \/ UnresolveGroup(a) \/ SetAlertStatusForGroups(a) \/ SyncFails(a)
    \/ DeleteOldResolvedGroups

Spec == Init /\ [][Next]_vars

-----------------------------------------------------------------------------
(* Properties *)

Follows(x) == (group = "open" => alert[x] = "firing") /\ (group = "resolved" => alert[x] = "resolved")

(* "closing a group closes its alerts, reopening one reopens them": when    *)
(* nothing is left to carry down, the alerts of the group read what the     *)
(* group reads, whatever overtook what before, provided that the statement  *)
(* of the latest transition landed, and landed last.  So a statement that   *)
(* is lost or overtaken is made good by the next transition that carries    *)
(* its own down.  Nothing else makes it good: until then the alerts of an   *)
(* open group may read resolved.                                            *)
AlertsFollowGroup ==
    (~missed /\ \A a \in Actors : pending[a] = "none") => \A x \in linked : Follows(x)

=============================================================================
