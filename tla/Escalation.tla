----------------------------- MODULE Escalation -----------------------------
(***************************************************************************)
(* The life of the alert groups of one integration: ingest opens, extends  *)
(* and resolves them, operators acknowledge, silence, resolve and reopen   *)
(* them, and worker replicas walk their escalation chain when next_run_at  *)
(* falls due.                                                              *)
(*                                                                         *)
(* One action is one transaction of internal/engine.  Every transaction    *)
(* that saves alert_groups loads its rows FOR UPDATE, so on one row the    *)
(* transactions are serial whatever advisory lock each of them holds, and  *)
(* an action reads and writes the row in one step.  What is NOT atomic is  *)
(* the worker: it lists the due rows and reads the clock and the chain in  *)
(* ListDue, outside any transaction, and acts on them later.               *)
(***************************************************************************)
EXTENDS AlertGroup, FiniteSets

CONSTANTS
    Groups,       \* rows of alert_groups that the model can create
    Keys,         \* deduplication keys
    Workers,      \* worker replicas
    Chains,       \* the versions of the integration's escalation chain
    Durations,    \* lengths of a silence or a maintenance window
    MaxTime,      \* bound on the clock
    MaxEpisode,   \* bound on the reopenings of one group
    MaxPass,      \* bound on the restarts of one group's chain
    MaxAlerts,    \* bound on the alerts attached to one group
    MaxCrashes    \* bound on the crashes of the workers

ASSUME EscalationAssumption ==
    /\ Chains \subseteq Seq(Step)
    /\ Chains # {}
    /\ Durations \subseteq Nat \ {0}
    /\ MaxTime \in Nat /\ MaxEpisode \in Nat /\ MaxPass \in Nat /\ MaxAlerts \in Nat
    /\ MaxCrashes \in Nat

VARIABLES
    now,        \* the clock
    chain,      \* the stored chain; a deleted one reads as the empty one
    live,       \* ids of the rows that exist
    row,        \* [Groups -> Row], meaningful on live
    key,        \* [Groups -> Keys], dedupe_key
    pages,      \* [Groups -> SUBSET EscalationKeys], notifications stored
    swallowed,  \* pages refused because their idempotency key was taken
    notices,    \* [Groups -> SUBSET Nat], episodes whose resolution was announced
    worker,     \* [Workers -> state between listing and advancing]
    shardLock,  \* the holder of the integration's escalation shard
    crashes     \* worker crashes so far

vars == <<now, chain, live, row, key, pages, swallowed, notices, worker, shardLock, crashes>>

Nobody == "nobody"

Idle == [pc |-> "idle", ts |-> 0, due |-> {}, chain |-> <<>>]

WorkerState == [pc : {"idle", "listed", "locked"}, ts : Nat, due : SUBSET Groups,
                chain : Chains \cup {<<>>}]

(* One type invariant: the shape of the stored rows and of what the workers *)
(* hold between their steps.                                                *)
TypeOK ==
    /\ now \in Nat
    /\ chain \in Chains \cup {<<>>}
    /\ live \in SUBSET Groups
    /\ row \in [Groups -> Row]
    /\ key \in [Groups -> Keys]
    /\ pages \in [Groups -> SUBSET EscalationKeys]
    /\ swallowed \in [Groups -> SUBSET EscalationKeys]
    /\ notices \in [Groups -> SUBSET Nat]
    /\ worker \in [Workers -> WorkerState]
    /\ shardLock \in Workers \cup {Nobody}
    /\ crashes \in Nat

Init ==
    /\ now = 0
    /\ chain \in Chains
    /\ live = {}
    /\ row = [g \in Groups |-> NewAlertGroup(0)]
    /\ key \in [Groups -> Keys]
    /\ pages = [g \in Groups |-> {}]
    /\ swallowed = [g \in Groups |-> {}]
    /\ notices = [g \in Groups |-> {}]
    /\ worker = [w \in Workers |-> Idle]
    /\ shardLock = Nobody
    /\ crashes = 0

-----------------------------------------------------------------------------
(* What a transaction does to the tables *)

(* Save the rows new[g] for g in S.  k[g] are the escalation keys of the     *)
(* notifications it inserts for g: a key that is taken makes the insert a    *)
(* no-op (INSERT ... WHERE NOT EXISTS).                                      *)
Save(S, new, k) ==
    /\ row' = [g \in Groups |-> IF g \in S THEN new[g] ELSE row[g]]
    /\ pages' = [g \in Groups |-> IF g \in S THEN pages[g] \cup k[g] ELSE pages[g]]
    /\ swallowed' = [g \in Groups |-> IF g \in S THEN swallowed[g] \cup (k[g] \cap pages[g])
                                      ELSE swallowed[g]]
    /\ notices' = [g \in Groups |-> IF g \in S THEN notices[g] \cup Announced(row[g], new[g])
                                    ELSE notices[g]]

SaveRow(g, r, k) == Save({g}, [h \in Groups |-> r], [h \in Groups |-> k])

Chain(g, c) == IF row[g].direct THEN <<>> ELSE c

Active(g) == g \in live /\ row[g].status # "resolved"

-----------------------------------------------------------------------------
(* Ingest, under the integration's advisory lock *)

Matches(k) == {g \in live : key[g] = k /\ Active(g) /\ ~row[g].direct}

(* A firing alert with no unresolved group of its key opens one. *)
IngestOpens(g, k, maintenance, covered, epicUser) ==
    /\ g \notin live
    /\ Matches(k) = {}
    /\ LET r == OpenedRow(now, maintenance)
           a == AdvanceGroup(r, chain, now, covered)
       IN  SaveRow(g, CheckEpicThreshold(a, now, maintenance, epicUser),
                   AdvanceKeys(r, chain, covered))
    /\ live' = live \cup {g}
    /\ key' = [key EXCEPT ![g] = k]
    /\ UNCHANGED <<now, chain, worker, shardLock, crashes>>

(* A firing alert joins an unresolved group of its key, whichever of them   *)
(* the map iteration meets first.  Only a reopened group walks its chain.   *)
IngestAttaches(g, k, maintenance, covered, epicUser) ==
    /\ g \in Matches(k)
    /\ row[g].count < MaxAlerts
    /\ Reopens(row[g]) => row[g].episode < MaxEpisode
    /\ LET r == AttachedRow(row[g])
           a == IF Reopens(row[g]) THEN AdvanceGroup(r, chain, now, covered) ELSE r
       IN  SaveRow(g, CheckEpicThreshold(a, now, maintenance, epicUser),
                   IF Reopens(row[g]) THEN AdvanceKeys(r, chain, covered) ELSE {})
    /\ UNCHANGED <<now, chain, live, key, worker, shardLock, crashes>>

(* A resolving alert closes an unresolved group of its key, if there is one. *)
IngestResolves(g, k) ==
    /\ g \in Matches(k)
    /\ SaveRow(g, NotifyGroupResolved(Resolve(row[g])), {})
    /\ UNCHANGED <<now, chain, live, key, worker, shardLock, crashes>>

CreateDirectPageGroup(g) ==
    /\ g \notin live
    /\ row' = [row EXCEPT ![g] = DirectPageRow(now)]
    /\ live' = live \cup {g}
    /\ UNCHANGED <<now, chain, key, pages, swallowed, notices, worker, shardLock, crashes>>

-----------------------------------------------------------------------------
(* Operator transitions, single and bulk *)

Untouched == UNCHANGED <<now, chain, live, key, worker, shardLock, crashes>>

SaveAll(S, new) == Save(S, new, [g \in Groups |-> {}]) /\ Untouched

AcknowledgeGroup(g) ==
    /\ Active(g)
    /\ SaveAll({g}, [h \in Groups |-> Acknowledge(row[h])])

ResolveGroup(g) ==
    /\ g \in live
    /\ SaveAll({g}, [h \in Groups |-> NotifyGroupResolved(Resolve(row[h]))])

UnresolveGroup(g) ==
    /\ g \in live /\ row[g].status = "resolved"
    /\ row[g].episode < MaxEpisode
    /\ SaveAll({g}, [h \in Groups |-> Unresolve(row[h], now)])

UnacknowledgeGroup(g) ==
    /\ g \in live /\ row[g].status = "acknowledged"
    /\ row[g].pass < MaxPass
    /\ SaveAll({g}, [h \in Groups |-> Unacknowledge(row[h], now)])

SilenceGroup(g, until) ==
    /\ Active(g)
    /\ row[g].pass < MaxPass
    /\ SaveAll({g}, [h \in Groups |-> Silence(row[h], until)])

(* The bulk forms skip the rows that the single forms would refuse, and the *)
(* ones that are already there.                                             *)
BulkAcknowledgeGroups(S) ==
    LET T == {g \in S : row[g].status \notin {"resolved", "acknowledged"}}
    IN  SaveAll(T, [h \in Groups |-> Acknowledge(row[h])])

BulkSilenceGroups(S, until) ==
    LET T == {g \in S : row[g].status # "resolved"}
    IN  /\ \A g \in T : row[g].pass < MaxPass
        /\ SaveAll(T, [h \in Groups |-> Silence(row[h], until)])

BulkResolveGroups(S) ==
    LET T == {g \in S : row[g].status # "resolved"}
    IN  SaveAll(T, [h \in Groups |-> NotifyGroupResolved(Resolve(row[h]))])

-----------------------------------------------------------------------------
(* The worker cycle's escalation stage *)

Due(g, ts) == row[g].nextRun # Never /\ row[g].nextRun <= ts

(* The clock, the due rows and the reference data are read outside any      *)
(* transaction.                                                             *)
ListDue(w) ==
    LET due == {g \in live : Due(g, now) /\ row[g].status # "resolved"}
    IN  /\ worker[w].pc = "idle"
        /\ due # {}
        /\ worker' = [worker EXCEPT ![w] = [pc |-> "listed", ts |-> now, due |-> due,
                                             chain |-> chain]]
        /\ UNCHANGED <<now, chain, live, row, key, pages, swallowed, notices, shardLock, crashes>>

(* pg_try_advisory_lock on the shard: a replica that does not get it moves  *)
(* on.  The rows of direct pages, which hash to the shard of the empty      *)
(* integration id, are folded into the one shard of the model.              *)
TryShard(w) ==
    /\ worker[w].pc = "listed"
    /\ IF shardLock = Nobody
       THEN /\ shardLock' = w
            /\ worker' = [worker EXCEPT ![w].pc = "locked"]
       ELSE /\ worker' = [worker EXCEPT ![w] = Idle]
            /\ UNCHANGED shardLock
    /\ UNCHANGED <<now, chain, live, row, key, pages, swallowed, notices, crashes>>

(* Slip: nobody ends the silence. *)
StillSilenced(r, ts) == r

(* What the shard transaction reads from a listed row: a silence that ran   *)
(* out by the worker's clock ends first.                                    *)
Woken(r, ts) == IF SilenceExpired(r, ts) THEN EndSilence(r, ts) ELSE r

(* Slip: the list is trusted and the timer not read again. *)
ReadyUnchecked(r, ts) == r.status = "open"

(* The re-check under the row lock. *)
Ready(r, ts) == r.status = "open" /\ r.nextRun # Never /\ r.nextRun <= ts

(* Slip: the shard is advanced and its lock kept. *)
AdvanceShardLocked(w, covered) ==
    LET me  == worker[w]
        woken(g) == Woken(row[g], me.ts)
        S   == {g \in me.due : Ready(woken(g), me.ts)}
    IN  /\ me.pc = "locked"
        /\ Save(S, [g \in Groups |-> AdvanceGroup(woken(g), Chain(g, me.chain), me.ts, covered)],
                [g \in Groups |-> AdvanceKeys(woken(g), Chain(g, me.chain), covered)])
        /\ worker' = [worker EXCEPT ![w] = Idle]
        /\ UNCHANGED <<now, chain, live, key, shardLock, crashes>>

AdvanceShard(w, covered) ==
    LET me  == worker[w]
        woken(g) == Woken(row[g], me.ts)
        S   == {g \in me.due : Ready(woken(g), me.ts)}
    IN  /\ me.pc = "locked"
        /\ Save(S, [g \in Groups |-> AdvanceGroup(woken(g), Chain(g, me.chain), me.ts, covered)],
                [g \in Groups |-> AdvanceKeys(woken(g), Chain(g, me.chain), covered)])
        /\ worker' = [worker EXCEPT ![w] = Idle]
        /\ shardLock' = Nobody
        /\ UNCHANGED <<now, chain, live, key, crashes>>

(* A replica dies between its steps: its transaction rolled back, its       *)
(* session lock went with the connection.                                   *)
WorkerCrash(w) ==
    /\ worker[w].pc # "idle"
    /\ crashes < MaxCrashes
    /\ crashes' = crashes + 1
    /\ worker' = [worker EXCEPT ![w] = Idle]
    /\ shardLock' = IF shardLock = w THEN Nobody ELSE shardLock
    /\ UNCHANGED <<now, chain, live, row, key, pages, swallowed, notices>>

-----------------------------------------------------------------------------
UpdateEscalationChain(c) ==
    /\ c # chain
    /\ chain' = c
    /\ UNCHANGED <<now, live, row, key, pages, swallowed, notices, worker, shardLock, crashes>>

Tick ==
    /\ now < MaxTime
    /\ now' = now + 1
    /\ UNCHANGED <<chain, live, row, key, pages, swallowed, notices, worker, shardLock, crashes>>

(* The end of a silence or window that starts now. *)
Ends == {now + d : d \in Durations}

Ingest ==
    \E g \in Groups, k \in Keys :
        \/ \E m \in Ends \cup {Never}, covered \in BOOLEAN, epicUser \in BOOLEAN :
              \/ IngestOpens(g, k, m, covered, epicUser)
              \/ IngestAttaches(g, k, m, covered, epicUser)
        \/ IngestResolves(g, k)
        \/ CreateDirectPageGroup(g)

Operate ==
    \/ \E g \in Groups :
          \/ AcknowledgeGroup(g)
          \/ ResolveGroup(g)
          \/ UnresolveGroup(g)
          \/ UnacknowledgeGroup(g)
          \/ \E u \in Ends \cup {Never} : SilenceGroup(g, u)
    \/ \E S \in SUBSET live :
          \/ BulkAcknowledgeGroups(S)
          \/ BulkResolveGroups(S)
          \/ \E u \in Ends \cup {Never} : BulkSilenceGroups(S, u)

Work(w) ==
    \/ ListDue(w)
    \/ TryShard(w)
    \/ \E covered \in BOOLEAN : AdvanceShard(w, covered)

Next ==
    \/ Ingest
    \/ Operate
    \/ \E w \in Workers : Work(w) \/ WorkerCrash(w)
    \/ \E c \in Chains \cup {<<>>} : UpdateEscalationChain(c)
    \/ Tick

Spec == Init /\ [][Next]_vars

(* The clock moves and every replica keeps running its cycle: the poll       *)
(* interval of the worker loop restarts it whatever the last cycle returned. *)
(* Nothing is assumed of sources and operators.                              *)
FairSpec == Spec /\ WF_vars(Tick) /\ \A w \in Workers : WF_vars(Work(w))

-----------------------------------------------------------------------------
(* Properties *)

(* k was used before the group reached its present position. *)
Below(k, r) ==
    \/ k.episode < r.episode
    \/ /\ k.episode = r.episode
       /\ \/ k.pass < r.pass
          \/ /\ k.pass = r.pass
             /\ \/ k.repeat < r.repeat
                \/ k.repeat = r.repeat /\ k.step < r.step

(* Every notification stored for a group was keyed at an earlier position    *)
(* of its escalation: episode, pass, repeat and step only move forward.      *)
KeysBehind == \A g \in live : \A k \in pages[g] : Below(k, row[g])

(* A page is never lost to its idempotency key: EscalationKey deduplicates a *)
(* re-processed cycle, and every REPEAT, restarted pass and reopened episode *)
(* that walks over a step again stores its notifications.                    *)
NoPageSwallowed == \A g \in Groups : swallowed[g] = {}

(* next_run_at agrees with the status: an acknowledged or resolved group has *)
(* no timer, and the timer of a silenced one is the end of its silence, so a *)
(* timed silence always wakes the worker and an indefinite one never does.   *)
TimerMatchesStatus ==
    \A g \in live :
        /\ row[g].status \in {"acknowledged", "resolved"} => row[g].nextRun = Never
        /\ row[g].status = "silenced" => row[g].nextRun = row[g].until

(* No group is forgotten: an open group without a timer is one whose walk    *)
(* reported the end of the chain or of its repeats since it last came open.  *)
OpenGroupIsScheduled ==
    \A g \in live :
        row[g].status = "open" /\ row[g].nextRun = Never => row[g].halt # "running"

(* Nobody is paged early or after an answer: a step that stores pages for a  *)
(* group opened it, reopened an acknowledged one under the reopen policy, or *)
(* found its timer due while it was open or its silence was over.            *)
PagedOnlyWhenDue ==
    [][\A g \in Groups : pages'[g] # pages[g] =>
        \/ g \notin live
        \/ Reopens(row[g]) /\ row'[g].episode > row[g].episode
        \/ row[g].status \in {"open", "silenced"} /\ Due(g, now)]_vars

(* A reopened group is a new episode: people paged about it hear of its      *)
(* resolution, as notifyGroupResolved's idempotency key provides for.        *)
EveryEpisodeAnnounced ==
    \A g \in live :
        /\ NotifyOnResolve /\ row[g].status = "resolved" /\ row[g].paged
        /\ \E k \in pages[g] : k.episode = row[g].episode
        => row[g].episode \in notices[g]

(* DOMAIN_MODEL.md: "An active group is identified by the pair"             *)
(* integration_id and dedupe_key "while its status is not" resolved.         *)
(* Ingest keeps to it, UnresolveGroup looks at its own group alone.          *)
OneActiveGroupPerKey ==
    \A g, h \in live : Active(g) /\ Active(h) /\ ~row[g].direct /\ ~row[h].direct
                         /\ key[g] = key[h] => g = h

(* The worker reaches every open group whose timer fell due, whichever       *)
(* replica lost the shard lock or crashed.                                   *)
DueGroupIsAdvanced ==
    \A g \in Groups :
        (g \in live /\ row[g].status = "open" /\ Due(g, now))
            ~> ~(row[g].status = "open" /\ Due(g, now))

(* A timed silence ends: at silenced_until the worker opens the group again  *)
(* unless somebody closed it, answered it or silenced it anew.               *)
SilenceRunsOut ==
    \A g \in Groups :
        (g \in live /\ SilenceExpired(row[g], now)) ~> ~SilenceExpired(row[g], now)

=============================================================================
