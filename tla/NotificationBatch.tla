-------------------------- MODULE NotificationBatch --------------------------
(***************************************************************************)
(* The open batches of one integration and dedupe key:                     *)
(* attachNotificationBatch parks a page in the open batch, or opens one,   *)
(* and ProcessNotificationBatches flushes the due batches to delivery.     *)
(*                                                                         *)
(* An attaching transaction holds row locks of groups: an ingest of the    *)
(* key's unresolved ones, under the integration's advisory lock, a worker  *)
(* of the group it advances, under the lock of its shard.  An ingest that  *)
(* finds no unresolved group holds no row.  A flush holds an advisory lock *)
(* of its own.  Batches are not locked, so each transaction is its reads   *)
(* and, later, its commit.  A worker escalates and flushes in turn; ingest *)
(* runs beside it, and operators resolve and reopen.  Times count down.    *)
(***************************************************************************)
EXTENDS Integers, FiniteSets, FiniteSetsExt

CONSTANTS
    Groups,         \* alert groups of the key
    Batches,        \* batch ids
    Notifications,
    Workers,        \* worker goroutines
    Ingesters,      \* ingest requests
    Timeout,        \* batch_timeout_seconds
    Deadline,       \* batch_deadline_seconds
    MaxAborts       \* bound on rolled-back transactions

VARIABLES
    batch,      \* [Batches -> BatchRow]
    ntf,        \* [Notifications -> NtfRow]
    grp,        \* [Groups -> the status of the group]
    lock,       \* [Lockable -> SUBSET Procs], who holds it
    proc,       \* [Procs -> transaction in progress]
    released,   \* [Notifications -> Nat], times handed to delivery
    reopened,   \* groups an operator reopened; once each, as a bound
    aborts      \* rolled-back transactions so far

vars == <<batch, ntf, grp, lock, proc, released, reopened, aborts>>

-----------------------------------------------------------------------------
Procs == Workers \cup Ingesters

(* Group rows, and the advisory locks of ingest, shard and flush. *)
Lockable == Groups \cup {"ingest", "shard", "flush"}
NoBatch == "none"

(* The window of the integration's policy; deadline_at is stored as well    *)
(* but nothing reads it.                                                    *)
FlushSecs == IF Timeout > 0 THEN Timeout ELSE Deadline

BatchRow == [status : {"unused", "open", "closed"}, group : Groups,
             flush : 0 .. FlushSecs, count : Nat]
NtfRow == [status : {"unborn", "batched", "delivery_scheduled", "failed"},
           batch : Batches \cup {NoBatch}]

(* due and copy are what a flush listed and read, mine what it read of the  *)
(* notifications; ntf, group, bid, age what  an attach is about.            *)
ProcState == [pc : {"idle", "attach", "listed", "half", "flush"}, due : SUBSET Batches,
              copy : [Batches -> BatchRow], mine : SUBSET Notifications,
              ntf : Notifications, group : Groups, bid : Batches \cup {NoBatch}, age : 0 .. FlushSecs]

Unused == [status |-> "unused", group |-> CHOOSE g \in Groups : TRUE, flush |-> 0, count |-> 0]
NoCopy == [b \in Batches |-> Unused]
Idle == [pc |-> "idle", due |-> {}, copy |-> NoCopy, mine |-> {},
         ntf |-> CHOOSE n \in Notifications : TRUE, group |-> CHOOSE g \in Groups : TRUE,
         bid |-> NoBatch, age |-> 0]

(* The shape of the tables and of the transactions. *)
TypeOK ==
    /\ batch \in [Batches -> BatchRow]
    /\ ntf \in [Notifications -> NtfRow]
    /\ grp \in [Groups -> {"none", "unresolved", "resolved"}]
    /\ lock \in [Lockable -> SUBSET Procs]
    /\ proc \in [Procs -> ProcState]
    /\ released \in [Notifications -> Nat]
    /\ reopened \subseteq Groups /\ aborts \in Nat

Init ==
    /\ batch = [b \in Batches |-> Unused]
    /\ ntf = [n \in Notifications |-> [status |-> "unborn", batch |-> NoBatch]]
    /\ grp \in [Groups -> {"none", "unresolved", "resolved"}]
    /\ Cardinality({g \in Groups : grp[g] = "unresolved"}) <= 1
    /\ lock = [x \in Lockable |-> {}]
    /\ proc = [p \in Procs |-> Idle]
    /\ released = [n \in Notifications |-> 0]
    /\ reopened = {} /\ aborts = 0

OpenBatches == {b \in Batches : batch[b].status = "open"}
Unresolved == {g \in Groups : grp[g] = "unresolved"}

(* Locks are waited for, and go with the transaction. *)
Lock(p, S) ==
    /\ \A x \in S : lock[x] = {}
    /\ lock' = [x \in Lockable |-> IF x \in S THEN {p} ELSE lock[x]]

Unlock(p) == lock' = [x \in Lockable |-> lock[x] \ {p}]

-----------------------------------------------------------------------------
(* Attaching *)

(* The groups a transaction may page about: an ingest finds an unresolved   *)
(* one or creates one, a worker advances an unresolved one.                 *)
Pageable(p) ==
    IF p \in Ingesters /\ Unresolved = {} THEN {g \in Groups : grp[g] = "none"} ELSE Unresolved

(* Slip: the groups' rows are read without locking them. *)
LocksOfAdvisoryOnly(p, g) == IF p \in Ingesters THEN {"ingest"} ELSE {"shard"}

(* What its reads lock. *)
LocksOf(p, g) == IF p \in Ingesters THEN {"ingest"} \cup Unresolved ELSE {"shard", g}

(* The reads of a transaction that will page about g. *)
AttachLoad(p, n, g) ==
    /\ proc[p].pc = "idle" /\ ntf[n].status = "unborn"
    /\ \A q \in Procs \ {p} : proc[q].pc = "attach" => proc[q].ntf # n
    /\ g \in Pageable(p)
    /\ Lock(p, LocksOf(p, g))
    /\ proc' = [proc EXCEPT ![p] = [Idle EXCEPT !.pc = "attach", !.ntf = n, !.group = g,
                  !.bid = IF OpenBatches = {} THEN NoBatch ELSE CHOOSE b \in OpenBatches : TRUE,
                  !.copy = batch]]
    /\ UNCHANGED <<batch, ntf, grp, released, reopened, aborts>>

Left(window, age) == IF window > age THEN window - age ELSE 0

(* NewNotificationBatch, or Touch and IncCount on the copy that was read:   *)
(* the upsert writes the whole row.                                         *)
Attached(me) ==
    IF me.bid = NoBatch
    THEN [status |-> "open", group |-> me.group, flush |-> Left(FlushSecs, me.age), count |-> 1]
    ELSE [me.copy[me.bid] EXCEPT !.flush = Left(FlushSecs, me.age), !.count = @ + 1]

(* The unique index over the keys of open batches refuses a second one. *)
Conflicts(p) == OpenBatches \ {proc[p].bid} # {}

AttachCommit(p) ==
    /\ proc[p].pc = "attach" /\ ~Conflicts(p)
    /\ \E b \in Batches :
          /\ IF proc[p].bid = NoBatch THEN batch[b].status = "unused" ELSE b = proc[p].bid
          /\ batch' = [batch EXCEPT ![b] = Attached(proc[p])]
          /\ ntf' = [ntf EXCEPT ![proc[p].ntf] = [status |-> "batched", batch |-> b]]
    /\ grp' = [grp EXCEPT ![proc[p].group] = "unresolved"]
    /\ proc' = [proc EXCEPT ![p] = Idle]
    /\ Unlock(p)
    /\ UNCHANGED <<released, reopened, aborts>>

(* The whole transaction is rolled back: a worker finds the group due again *)
(* in its next cycle, an ingest answers its sender with the error.          *)
AttachRefused(p) ==
    /\ proc[p].pc = "attach" /\ Conflicts(p)
    /\ proc' = [proc EXCEPT ![p] = Idle]
    /\ Unlock(p)
    /\ UNCHANGED <<batch, ntf, grp, released, reopened, aborts>>

-----------------------------------------------------------------------------
(* Flushing *)

ListDueNotificationBatches == {b \in Batches : batch[b].status = "open" /\ batch[b].flush = 0}

(* Before any lock. *)
FlushList(w) ==
    /\ proc[w].pc = "idle" /\ ListDueNotificationBatches # {}
    /\ proc' = [proc EXCEPT ![w] = [Idle EXCEPT !.pc = "listed", !.due = ListDueNotificationBatches]]
    /\ UNCHANGED <<batch, ntf, grp, lock, released, reopened, aborts>>

FlushLoadBatches(w) ==
    /\ proc[w].pc = "listed"
    /\ Lock(w, {"flush"})
    /\ proc' = [proc EXCEPT ![w].pc = "half",
                            ![w].copy = [b \in Batches |-> IF b \in proc[w].due THEN batch[b] ELSE Unused]]
    /\ UNCHANGED <<batch, ntf, grp, released, reopened, aborts>>

(* Slip: whatever was ever in the batch is read, released or not. *)
FlushLoadNotificationsAll(w) ==
    /\ proc[w].pc = "half"
    /\ proc' = [proc EXCEPT ![w].pc = "flush",
                            ![w].mine = {n \in Notifications : ntf[n].batch \in proc[w].due}]
    /\ UNCHANGED <<batch, ntf, grp, lock, released, reopened, aborts>>

(* A second statement and, under READ COMMITTED, a second snapshot. *)
FlushLoadNotifications(w) ==
    /\ proc[w].pc = "half"
    /\ proc' = [proc EXCEPT ![w].pc = "flush",
                            ![w].mine = {n \in Notifications : ntf[n].status = "batched"
                                                               /\ ntf[n].batch \in proc[w].due}]
    /\ UNCHANGED <<batch, ntf, grp, lock, released, reopened, aborts>>

(* The listed batches that are still open when read under the lock. *)
StillOpen(w) == {b \in proc[w].due : proc[w].copy[b].status = "open"}

Close(row, count) == [row EXCEPT !.status = "closed", !.count = count]

(* Slip: the notification stays where it was read. *)
ReleaseFromBatchKept(r, lost) == IF lost THEN [r EXCEPT !.status = "failed"] ELSE r

(* Slip: the released notification gets a status nobody claims. *)
ReleaseFromBatchMisnamed(r, lost) ==
    IF lost THEN [r EXCEPT !.status = "failed"] ELSE [r EXCEPT !.status = "batch_flushed"]

(* ReleaseFromBatch, or FailBatchContext when the payload cannot be rebuilt *)
(* because its group or its user is gone.                                   *)
ReleaseFromBatch(r, lost) ==
    IF lost THEN [r EXCEPT !.status = "failed"] ELSE [r EXCEPT !.status = "delivery_scheduled"]

FlushCommit(w) ==
    LET mine == {n \in proc[w].mine : ntf[n].batch \in StillOpen(w)}
    IN  /\ proc[w].pc = "flush"
        /\ \E lost \in SUBSET mine :
              /\ ntf' = [n \in Notifications |->
                            IF n \in mine THEN ReleaseFromBatch(ntf[n], n \in lost) ELSE ntf[n]]
              /\ released' = [n \in Notifications |->
                                 IF n \in mine \ lost THEN released[n] + 1 ELSE released[n]]
        /\ batch' = [b \in Batches |->
              IF b \in StillOpen(w)
              THEN Close(proc[w].copy[b], Cardinality({n \in mine : ntf[n].batch = b}))
              ELSE batch[b]]
        /\ proc' = [proc EXCEPT ![w] = Idle]
        /\ Unlock(w)
        /\ UNCHANGED <<grp, reopened, aborts>>

-----------------------------------------------------------------------------
(* Operators: transactions of one step that wait for the group's row. *)
ResolveGroup(g) ==
    /\ grp[g] = "unresolved" /\ lock[g] = {}
    /\ grp' = [grp EXCEPT ![g] = "resolved"]
    /\ UNCHANGED <<batch, ntf, lock, proc, released, reopened, aborts>>

UnresolveGroup(g) ==
    /\ grp[g] = "resolved" /\ lock[g] = {} /\ g \notin reopened
    /\ grp' = [grp EXCEPT ![g] = "unresolved"]
    /\ reopened' = reopened \cup {g}
    /\ UNCHANGED <<batch, ntf, lock, proc, released, aborts>>

(* A crash or a lost connection rolls the transaction back. *)
Abort(p) ==
    /\ proc[p].pc # "idle" /\ aborts < MaxAborts
    /\ aborts' = aborts + 1
    /\ proc' = [proc EXCEPT ![p] = Idle]
    /\ Unlock(p)
    /\ UNCHANGED <<batch, ntf, grp, released, reopened>>

Older(row) == [row EXCEPT !.flush = Left(@, 1)]

Tick ==
    /\ batch' = [b \in Batches |-> Older(batch[b])]
    /\ proc' = [p \in Procs |-> IF proc[p].pc = "idle" THEN proc[p] ELSE
                  [proc[p] EXCEPT !.age = Min({@ + 1, FlushSecs}),
                                  !.copy = [b \in Batches |-> Older(@[b])]]]
    /\ UNCHANGED <<ntf, grp, lock, released, reopened, aborts>>

Step(p) ==
    \/ AttachCommit(p) \/ AttachRefused(p)
    \/ p \in Workers /\ (FlushList(p) \/ FlushLoadBatches(p) \/ FlushLoadNotifications(p) \/ FlushCommit(p))

Next ==
    \/ \E p \in Procs : Step(p) \/ Abort(p)
    \/ \E p \in Procs, n \in Notifications, g \in Groups : AttachLoad(p, n, g)
    \/ \E g \in Groups : ResolveGroup(g) \/ UnresolveGroup(g)
    \/ Tick

Spec == Init /\ [][Next]_vars

-----------------------------------------------------------------------------
(* Properties *)

(* A page is handed to delivery once: two replicas that listed the same due *)
(* batch, or a batch that a concurrent attach opened again, do not release  *)
(* it twice.                                                                *)
ReleasedOnce ==
    \A n \in Notifications :
        /\ released[n] <= 1
        /\ released[n] = 1 <=> ntf[n].status = "delivery_scheduled"

(* The row locks of groups are enough to keep an attach from the unique     *)
(* index, which would roll back the whole ingest or escalation step, unless *)
(* an operator reopened an older group of the key: a batch that is in the   *)
(* way of an attach was opened for a reopened group, or the attach is about *)
(* one.                                                                     *)
NoBatchConflict ==
    \A p \in Procs : proc[p].pc = "attach" =>
        \A b \in OpenBatches \ {proc[p].bid} : {batch[b].group, proc[p].group} \cap reopened # {}

(* A parked notification's batch is open: the flush will find it.           *)
NotStranded ==
    \A n \in Notifications : ntf[n].status = "batched" => batch[ntf[n].batch].status = "open"

(* A parked page is handed to delivery or fails in the end.                 *)
EventuallyReleased ==
    \A n \in Notifications :
        (ntf[n].status = "batched") ~> (ntf[n].status \in {"delivery_scheduled", "failed"})

=============================================================================
