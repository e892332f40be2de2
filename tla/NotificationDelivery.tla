------------------------ MODULE NotificationDelivery ------------------------
(***************************************************************************)
(* Delivery of the notifications that escalation and ingest queued:        *)
(* internal/engine/delivery.go over the claims of store_lookups.go.        *)
(*                                                                         *)
(* A process runs the delivery stage and then the retry stage: it saves    *)
(* what an earlier stage could not, claims the due rows, calls the         *)
(* providers outside any transaction and saves the outcomes.  That last    *)
(* transaction takes neither an advisory lock nor row locks, so its read   *)
(* (Load) and its write (Commit) are two steps.  A worker replica is an    *)
(* engine with one process that runs whole cycles; POST /escalations/run   *)
(* is a second process of the same engine, with the same worker id, that   *)
(* runs the retry stage alone.                                             *)
(*                                                                         *)
(* Time is kept relative: a row carries the time left to next_retry_at and *)
(* the age of its claim, a held outcome the time since its call.           *)
(***************************************************************************)
EXTENDS Integers, Sequences, FiniteSets, FiniteSetsExt

CONSTANTS
    Notifications,
    Engines,       \* service processes, each with its worker id
    Procs,         \* the goroutines that run delivery stages
    Cyclers,       \* those that run the whole worker cycle
    EngineOf,      \* [Procs -> Engines]
    MaxRetries,    \* deliveryCfg.MaxRetries
    RetryDelays,   \* deliveryCfg.RetryDelays
    RetryAfters,   \* waits a provider may name; 0 is none
    ClaimTimeout,  \* deliveryCfg.ClaimTimeout; 0 turns the reaper off
    BatchLimit,    \* workerBatchLimit
    Prompt,        \* no stage outlasts ClaimTimeout
    Faults,        \* the kinds of fault that happen
    MaxFaults      \* bound on them

FaultKinds == {"crash", "save", "panic", "short", "delete", "report"}

ASSUME DeliveryAssumption ==
    /\ Cyclers \subseteq Procs
    /\ EngineOf \in [Procs -> Engines]
    /\ MaxRetries \in Nat
    /\ RetryDelays \in Seq(Nat)
    /\ RetryAfters \subseteq Nat /\ RetryAfters # {}
    /\ ClaimTimeout \in Nat
    /\ BatchLimit \in Nat \ {0}
    /\ Prompt \in BOOLEAN
    /\ Faults \subseteq FaultKinds
    /\ MaxFaults \in Nat

VARIABLES
    ntf,       \* [Notifications -> Row], the table
    proc,      \* [Procs -> the state of a stage]
    unsaved,   \* [Engines -> [Kinds -> results]], unsavedDeliveries and unsavedRetries
    gen,       \* [Engines -> Nat], starts of the process: each makes a new worker id
    sent,      \* [Notifications -> 0 .. 2], messages a provider accepted (2: several)
    attempts,  \* [Notifications -> Nat], rows of notification_delivery_attempts
    dead,      \* [Notifications -> the reports of a permanent failure]
    faults     \* faults so far

vars == <<ntf, proc, unsaved, gen, sent, attempts, dead, faults>>

-----------------------------------------------------------------------------
Kinds == {"delivery", "retry"}
Pending == [delivery |-> "delivery_scheduled", retry |-> "retry_scheduled"]
Claimed == [delivery |-> "delivering", retry |-> "retrying"]
Settled == {"delivered", "failed", "skipped"}
Statuses == {"delivery_scheduled", "retry_scheduled", "delivering", "retrying", "gone"} \cup Settled

Nobody == [engine |-> "nobody", gen |-> 0]
WorkerIDs == [engine : Engines, gen : Nat] \cup {Nobody}

Row == [status : Statuses,
        rc  : Nat,          \* retry_count
        due : Nat,          \* time left to next_retry_at
        by  : WorkerIDs,    \* claimed_by
        age : Nat,          \* time since claimed_at
        noctx : BOOLEAN]    \* last_error is "retry context not found"

Verdicts == {"delivered", "failed", "skipped", "short", "nocontext"}

(* A deliveryResult or retryResult; after is the provider's retry-after and *)
(* age the time since the call finished.                                    *)
Outcome == [verdict : Verdicts \cup {"none"}, after : Nat, age : Nat]

NoOutcome == [verdict |-> "none", after |-> 0, age |-> 0]
NoResults == [n \in Notifications |-> NoOutcome]
Called(res) == {n \in Notifications : res[n] # NoOutcome}

Queued == [status |-> "delivery_scheduled", rc |-> 0, due |-> 0, by |-> Nobody, age |-> 0,
           noctx |-> FALSE]

(* A failure is reported twice over: by an entry in the group's history and *)
(* by a POST to the dead-letter webhook.  Either may be lost.               *)
Reports == {"none", "made", "lost", "again"}
Unreported == [log |-> "none", post |-> "none"]

(* have are the rows that Load found and copy what it read of them.         *)
ProcState == [pc     : {"idle", "begin", "claim", "call", "save", "loaded", "dead"},
              kind   : Kinds,
              todo   : SUBSET Notifications,
              res    : [Notifications -> Outcome],
              late   : BOOLEAN,
              have   : SUBSET Notifications,
              copy   : [Notifications -> Row],
              report : SUBSET Notifications]

Idle == [pc |-> "idle", kind |-> "delivery", todo |-> {}, res |-> NoResults, late |-> FALSE,
         have |-> {}, copy |-> [n \in Notifications |-> Queued], report |-> {}]

(* The shape of the rows and of what the processes hold. *)
TypeOK ==
    /\ ntf \in [Notifications -> Row]
    /\ proc \in [Procs -> ProcState]
    /\ unsaved \in [Engines -> [Kinds -> [Notifications -> Outcome]]]
    /\ gen \in [Engines -> Nat]
    /\ sent \in [Notifications -> 0 .. 2]
    /\ attempts \in [Notifications -> Nat]
    /\ dead \in [Notifications -> [log : Reports, post : Reports]]
    /\ faults \in Nat

Init ==
    /\ ntf = [n \in Notifications |-> Queued]
    /\ proc = [p \in Procs |-> Idle]
    /\ unsaved = [e \in Engines |-> [k \in Kinds |-> NoResults]]
    /\ gen = [e \in Engines |-> 0]
    /\ sent = [n \in Notifications |-> 0]
    /\ attempts = [n \in Notifications |-> 0]
    /\ dead = [n \in Notifications |-> Unreported]
    /\ faults = 0

Fault(kind) == kind \in Faults /\ faults < MaxFaults /\ faults' = faults + 1

WorkerID(p) == [engine |-> EngineOf[p], gen |-> gen[EngineOf[p]]]

Bump(n) == IF n < 2 THEN n + 1 ELSE 2

-----------------------------------------------------------------------------
(* The notification's transitions *)

(* The last delay of the list stands for all later ones. *)
RetryDelay(count) ==
    RetryDelays[IF count > Len(RetryDelays) THEN Len(RetryDelays) ELSE count]

(* Slip: an attempt that names no wait is the last one. *)
ScheduleRetryOrFailAfterEarly(r, o) ==
    LET count == r.rc + 1
        wait  == IF o.after > 0 THEN o.after ELSE RetryDelay(count)
    IN  IF count >= MaxRetries \/ RetryDelays = <<>> \/ o.after = 0
        THEN [r EXCEPT !.status = "failed", !.rc = count, !.due = 0]
        ELSE [r EXCEPT !.status = "retry_scheduled", !.rc = count,
                       !.due = IF wait > o.age THEN wait - o.age ELSE 0]

ScheduleRetryOrFailAfter(r, o) ==
    LET count == r.rc + 1
        wait  == IF o.after > 0 THEN o.after ELSE RetryDelay(count)
    IN  IF count >= MaxRetries \/ (RetryDelays = <<>> /\ o.after = 0)
        THEN [r EXCEPT !.status = "failed", !.rc = count, !.due = 0]
        ELSE [r EXCEPT !.status = "retry_scheduled", !.rc = count,
                       !.due = IF wait > o.age THEN wait - o.age ELSE 0]

(* Slip: a call that the breaker refused is counted as an attempt. *)
ApplyOutcomeCounted(r, o, kind) ==
    CASE o.verdict = "delivered" -> [r EXCEPT !.status = "delivered", !.due = 0]
      [] o.verdict = "skipped"   -> [r EXCEPT !.status = "skipped", !.due = 0]
      [] o.verdict = "failed"    -> ScheduleRetryOrFailAfter(r, o)
      [] o.verdict = "nocontext" -> [r EXCEPT !.status = "failed", !.due = 0, !.noctx = TRUE]
      [] o.verdict = "short"     -> [r EXCEPT !.status = Pending[kind], !.rc = @ + 1]

(* Slip: a claim is released to a status nobody claims from. *)
ApplyOutcomeMisnamed(r, o, kind) ==
    IF o.verdict = "short" THEN [r EXCEPT !.status = kind] ELSE ApplyOutcomeCounted(r, o, kind)

(* applyOutcome, FailRetryContext, and ReleaseClaim for a call that the     *)
(* circuit breaker refused: no attempt is counted and next_retry_at stays.  *)
ApplyOutcome(r, o, kind) ==
    CASE o.verdict = "delivered" -> [r EXCEPT !.status = "delivered", !.due = 0]
      [] o.verdict = "skipped"   -> [r EXCEPT !.status = "skipped", !.due = 0]
      [] o.verdict = "failed"    -> ScheduleRetryOrFailAfter(r, o)
      [] o.verdict = "nocontext" -> [r EXCEPT !.status = "failed", !.due = 0, !.noctx = TRUE]
      [] o.verdict = "short"     -> [r EXCEPT !.status = Pending[kind]]

(* The verdicts that leave a row in notification_delivery_attempts. *)
Attempted(o) == o.verdict \in {"delivered", "skipped", "failed"}

-----------------------------------------------------------------------------
(* The stages *)

(* Slip: the reaper takes every status but the happy ends for a claim. *)
ReclaimedFailed(r) ==
    IF ClaimTimeout > 0 /\ r.age > ClaimTimeout /\ r.status \notin {"delivered", "skipped", "gone"}
    THEN [r EXCEPT !.status = IF @ \in {"delivering", "delivery_scheduled"}
                              THEN "delivery_scheduled" ELSE "retry_scheduled"]
    ELSE r

(* Slip: the reaper forgets the rows claimed for a retry. *)
ReclaimedDelivering(r) ==
    IF ClaimTimeout > 0 /\ r.age > ClaimTimeout /\ r.status = "delivering"
    THEN [r EXCEPT !.status = "delivery_scheduled"] ELSE r

(* The reaper's reset: status only, so claimed_by and claimed_at stay. *)
Reclaimed(r) ==
    IF ClaimTimeout > 0 /\ r.age > ClaimTimeout
    THEN CASE r.status = "delivering" -> [r EXCEPT !.status = "delivery_scheduled"]
           [] r.status = "retrying"   -> [r EXCEPT !.status = "retry_scheduled"]
           [] OTHER -> r
    ELSE r

(* A worker cycle: the reaper runs first, then the delivery stage. *)
StartCycle(p) ==
    /\ p \in Cyclers /\ proc[p].pc = "idle"
    /\ ntf' = [n \in Notifications |-> Reclaimed(ntf[n])]
    /\ proc' = [proc EXCEPT ![p] = [Idle EXCEPT !.pc = "begin"]]
    /\ UNCHANGED <<unsaved, gen, sent, attempts, dead, faults>>

(* POST /escalations/run: the retry stage alone. *)
StartRun(p) ==
    /\ p \notin Cyclers /\ proc[p].pc = "idle"
    /\ proc' = [proc EXCEPT ![p] = [Idle EXCEPT !.pc = "begin", !.kind = "retry"]]
    /\ UNCHANGED <<ntf, unsaved, gen, sent, attempts, dead, faults>>

(* The state of a process that has finished its stage. *)
NextStage(p) ==
    IF proc[p].kind = "delivery" THEN [Idle EXCEPT !.pc = "begin", !.kind = "retry"] ELSE Idle

(* The rows the outcomes res are about, as the save transaction reads them. *)
Loaded(me, res, late) ==
    LET have == {n \in Called(res) : ntf[n].status # "gone"}
    IN  [me EXCEPT !.pc = "loaded", !.res = res, !.late = late, !.have = have,
                   !.copy = [n \in Notifications |-> IF n \in have THEN ntf[n] ELSE Queued]]

(* Outcomes that an earlier stage could not save go first. *)
Begin(p) ==
    LET me  == proc[p]
        res == unsaved[EngineOf[p]][me.kind]
    IN  /\ me.pc = "begin"
        /\ proc' = [proc EXCEPT ![p] = IF Called(res) # {} THEN Loaded(me, res, TRUE)
                                       ELSE [me EXCEPT !.pc = "claim"]]
        /\ UNCHANGED <<ntf, unsaved, gen, sent, attempts, dead, faults>>

(* Slip: a row that is being delivered is claimed again. *)
ClaimableTwice(kind) == {n \in Notifications : ntf[n].status \in {Pending[kind], Claimed[kind]}
                                               /\ ntf[n].due = 0}

Claimable(kind) == {n \in Notifications : ntf[n].status = Pending[kind] /\ ntf[n].due = 0}

(* One UPDATE ... FOR UPDATE SKIP LOCKED: up to BatchLimit rows, atomically. *)
Claim(p) ==
    LET me == proc[p]
    IN  /\ me.pc = "claim"
        /\ \E S \in SUBSET Claimable(me.kind) :
              /\ Cardinality(S) = (IF Cardinality(Claimable(me.kind)) > BatchLimit
                                   THEN BatchLimit ELSE Cardinality(Claimable(me.kind)))
              /\ ntf' = [n \in Notifications |->
                            IF n \in S THEN [ntf[n] EXCEPT !.status = Claimed[me.kind],
                                                           !.by = WorkerID(p), !.age = 0]
                            ELSE ntf[n]]
              /\ proc' = [proc EXCEPT ![p] = IF S = {} THEN NextStage(p)
                                             ELSE [me EXCEPT !.pc = "call", !.todo = S,
                                                             !.res = NoResults, !.late = FALSE]]
        /\ UNCHANGED <<unsaved, gen, sent, attempts, dead, faults>>

(* The process after it called for n and holds res. *)
AfterCall(p, n, res) ==
    LET me == [proc[p] EXCEPT !.todo = @ \ {n}, !.res = res]
    IN  IF me.todo # {} THEN me
        ELSE IF Called(res) = {} THEN NextStage(p)
        ELSE [me EXCEPT !.pc = "save"]

(* A provider call, a refusal by the breaker, or a retry whose context is   *)
(* gone.                                                                    *)
Call(p, n, verdict, after) ==
    LET me == proc[p]
    IN  /\ me.pc = "call" /\ n \in me.todo
        /\ verdict = "nocontext" => me.kind = "retry"
        /\ verdict # "failed" => after = 0
        /\ IF verdict = "short" THEN Fault("short") ELSE UNCHANGED faults
        /\ proc' = [proc EXCEPT ![p] =
                AfterCall(p, n, [me.res EXCEPT ![n] = [verdict |-> verdict, after |-> after,
                                                       age |-> 0]])]
        /\ sent' = [sent EXCEPT ![n] = IF verdict = "delivered" THEN Bump(@) ELSE @]
        /\ UNCHANGED <<ntf, unsaved, gen, attempts, dead>>

(* A panic in the adapter drops the row from the results: it stays claimed. *)
Panic(p, n) ==
    /\ proc[p].pc = "call" /\ n \in proc[p].todo
    /\ Fault("panic")
    /\ proc' = [proc EXCEPT ![p] = AfterCall(p, n, proc[p].res)]
    /\ UNCHANGED <<ntf, unsaved, gen, sent, attempts, dead>>

Load(p) ==
    /\ proc[p].pc = "save"
    /\ proc' = [proc EXCEPT ![p] = Loaded(@, @.res, FALSE)]
    /\ UNCHANGED <<ntf, unsaved, gen, sent, attempts, dead, faults>>

(* Whether the row that Load read is still this engine's claim. *)
Mine(p, n) ==
    proc[p].copy[n].status = Claimed[proc[p].kind] /\ proc[p].copy[n].by = WorkerID(p)

(* What the save writes for a row it read.  A row that is not the engine's  *)
(* claim any more is passed over by the mutator, but the collection is in   *)
(* writeAll: the copy is written back as it was read.                       *)
Saved(p, n) ==
    IF Mine(p, n) THEN ApplyOutcome(proc[p].copy[n], proc[p].res[n], proc[p].kind)
    ELSE proc[p].copy[n]

(* Slip: a retry whose context is gone is not among the reported. *)
NewlyFailedInCall(p) ==
    {n \in proc[p].have : Mine(p, n) /\ Attempted(proc[p].res[n]) /\ Saved(p, n).status = "failed"}

(* The rows this save fails for good. *)
NewlyFailed(p) == {n \in proc[p].have : Mine(p, n) /\ Saved(p, n).status = "failed"}

(* The process after its save: an early one goes on to claim. *)
AfterSave(p) ==
    IF proc[p].late THEN [Idle EXCEPT !.pc = "claim", !.kind = proc[p].kind] ELSE NextStage(p)

(* The stage goes on to the reports, and an early save then to forgetting   *)
(* its outcomes.                                                            *)
Commit(p) ==
    LET me == proc[p]
    IN  /\ me.pc = "loaded"
        /\ \A n \in me.have : ntf[n].status # "gone"
        /\ ntf' = [n \in Notifications |-> IF n \in me.have THEN Saved(p, n) ELSE ntf[n]]
        /\ attempts' = [n \in Notifications |->
                IF n \in me.have /\ Mine(p, n) /\ Attempted(me.res[n])
                THEN attempts[n] + 1 ELSE attempts[n]]
        /\ proc' = [proc EXCEPT ![p] = IF NewlyFailed(p) = {} /\ ~me.late THEN AfterSave(p)
                                       ELSE [me EXCEPT !.pc = "dead", !.report = NewlyFailed(p)]]
        /\ UNCHANGED <<unsaved, gen, sent, dead, faults>>

(* Slip: the outcomes are dropped with the transaction. *)
SaveFailsForgetting(p) ==
    /\ proc[p].pc = "loaded"
    /\ IF \E n \in proc[p].have : ntf[n].status = "gone" THEN UNCHANGED faults ELSE Fault("save")
    /\ proc' = [proc EXCEPT ![p] = Idle]
    /\ UNCHANGED <<ntf, unsaved, gen, sent, attempts, dead>>

(* The transaction fails: the database went away, or a row went between the *)
(* read and the write and its re-insert violates the foreign key.  The      *)
(* outcomes are kept for the next cycle and this one is over.               *)
SaveFails(p) ==
    LET me == proc[p]
    IN  /\ me.pc = "loaded"
        /\ IF \E n \in me.have : ntf[n].status = "gone" THEN UNCHANGED faults ELSE Fault("save")
        /\ unsaved' = IF me.late THEN unsaved
                      ELSE [unsaved EXCEPT ![EngineOf[p]][me.kind] = me.res]
        /\ proc' = [proc EXCEPT ![p] = Idle]
        /\ UNCHANGED <<ntf, gen, sent, attempts, dead>>

(* A report that is filed, or gets lost on the way. *)
Filed(report, lost) == IF report # "none" THEN "again" ELSE IF lost THEN "lost" ELSE "made"

(* fireDeadLetters, after the commit and outside it: one POST per row, each *)
(* by a goroutine of its own that nobody waits for, and one transaction for *)
(* the entries in the groups' history, whose error is only logged.  After   *)
(* an early save the outcomes it saved are forgotten.                       *)
FireDeadLetters(p, recordLost, postsLost) ==
    LET me == proc[p]
    IN  /\ me.pc = "dead"
        /\ postsLost \subseteq me.report /\ (recordLost => me.report # {})
        /\ IF recordLost \/ postsLost # {} THEN Fault("report") ELSE UNCHANGED faults
        /\ dead' = [n \in Notifications |->
                IF n \in me.report THEN [log  |-> Filed(dead[n].log, recordLost),
                                         post |-> Filed(dead[n].post, n \in postsLost)]
                ELSE dead[n]]
        /\ unsaved' = IF me.late THEN [unsaved EXCEPT ![EngineOf[p]][me.kind] = NoResults]
                      ELSE unsaved
        /\ proc' = [proc EXCEPT ![p] = AfterSave(p)]
        /\ UNCHANGED <<ntf, gen, sent, attempts>>

-----------------------------------------------------------------------------
(* The environment *)

(* The service process dies and starts again under a new worker id. *)
Crash(e) ==
    /\ Fault("crash")
    /\ gen' = [gen EXCEPT ![e] = @ + 1]
    /\ proc' = [p \in Procs |-> IF EngineOf[p] = e THEN Idle ELSE proc[p]]
    /\ unsaved' = [unsaved EXCEPT ![e] = [k \in Kinds |-> NoResults]]
    /\ UNCHANGED <<ntf, sent, attempts, dead>>

(* The user or the group of a notification is deleted and the key cascades. *)
Delete(n) ==
    /\ ntf[n].status # "gone"
    /\ Fault("delete")
    /\ ntf' = [ntf EXCEPT ![n] = [Queued EXCEPT !.status = "gone"]]
    /\ UNCHANGED <<proc, unsaved, gen, sent, attempts, dead>>

(* The rows a process has claimed and not finished with. *)
InFlight(p) == proc[p].todo \cup (IF proc[p].late THEN {} ELSE Called(proc[p].res))

MaxWait == Max({RetryDelays[i] : i \in DOMAIN RetryDelays} \cup RetryAfters)

OlderRow(r) == [r EXCEPT !.due = IF @ > 0 THEN @ - 1 ELSE 0,
                         !.age = IF @ > ClaimTimeout THEN @ ELSE @ + 1]

OlderResults(res) ==
    [n \in Notifications |-> IF res[n] = NoOutcome \/ res[n].age >= MaxWait THEN res[n]
                             ELSE [res[n] EXCEPT !.age = @ + 1]]

OlderProc(q) ==
    [q EXCEPT !.res = OlderResults(@),
              !.copy = [n \in Notifications |-> IF n \in q.have THEN OlderRow(@[n]) ELSE @[n]]]

Tick ==
    /\ Prompt => \A p \in Procs : \A n \in InFlight(p) : ntf[n].age < ClaimTimeout
    /\ ntf' = [n \in Notifications |-> IF ntf[n].status = "gone" THEN ntf[n] ELSE OlderRow(ntf[n])]
    /\ proc' = [p \in Procs |-> OlderProc(proc[p])]
    /\ unsaved' = [e \in Engines |-> [k \in Kinds |-> OlderResults(unsaved[e][k])]]
    /\ UNCHANGED <<gen, sent, attempts, dead, faults>>

Step(p) ==
    \/ StartCycle(p)
    \/ StartRun(p)
    \/ Begin(p)
    \/ Claim(p)
    \/ \E n \in Notifications, v \in Verdicts, a \in RetryAfters \cup {0} : Call(p, n, v, a)
    \/ Load(p)
    \/ Commit(p)
    \/ SaveFails(p)
    \/ \E lost \in BOOLEAN, S \in SUBSET Notifications : FireDeadLetters(p, lost, S)

Next ==
    \/ \E p \in Procs : Step(p) \/ \E n \in Notifications : Panic(p, n)
    \/ \E e \in Engines : Crash(e)
    \/ \E n \in Notifications : Delete(n)
    \/ Tick

Spec == Init /\ [][Next]_vars

(* The clock moves, the worker loops keep running, and a request that has   *)
(* begun goes on.                                                           *)
FairSpec ==
    /\ Spec /\ WF_vars(Tick)
    /\ \A p \in Cyclers : WF_vars(Step(p))
    /\ \A p \in Procs \ Cyclers : WF_vars(proc[p].pc # "idle" /\ Step(p))

-----------------------------------------------------------------------------
(* Properties *)

(* Without the reaper no message is sent twice: a row is handed to one      *)
(* process, and an outcome whose save failed is saved later, not delivered  *)
(* again.                                                                   *)
SentAtMostOnce == \A n \in Notifications : sent[n] <= 1

(* A delivered, failed or skipped notification stays so: no stage that held *)
(* on to an older copy brings it back to be delivered again.                *)
SettledIsFinal ==
    [][\A n \in Notifications : ntf[n].status \in Settled =>
            ntf'[n].status \in {ntf[n].status, "gone"}]_vars

(* A message that went out is accounted for: while its row is still claimed *)
(* by a living engine, that engine holds the outcome and will save it.      *)
OutcomeRemembered ==
    \A n \in Notifications, e \in Engines :
        /\ sent[n] > 0 /\ ntf[n].status \in {"delivering", "retrying"}
        /\ ntf[n].by = [engine |-> e, gen |-> gen[e]]
        => \/ \E k \in Kinds : n \in Called(unsaved[e][k])
           \/ \E p \in Procs : EngineOf[p] = e /\ n \in Called(proc[p].res)

(* The attempts on record are the failures the row counts and the call that *)
(* settled it: a refusal by the breaker, a panic and a crash count nothing. *)
AttemptsMatch ==
    \A n \in Notifications : ntf[n].status # "gone" =>
        attempts[n] = ntf[n].rc + (IF ntf[n].status \in {"delivered", "skipped"} THEN 1 ELSE 0)

(* The retry budget is used up and not exceeded: a row that counts          *)
(* MaxRetries failures is not tried again, and one that failed for good     *)
(* counts them all, unless its retry lost the context or no delay is        *)
(* configured.                                                              *)
BudgetKept ==
    \A n \in Notifications :
        /\ ntf[n].rc <= (IF MaxRetries = 0 THEN 1 ELSE MaxRetries)
        /\ ntf[n].status \notin {"failed", "gone"} => ntf[n].rc < MaxRetries \/ MaxRetries = 0
        /\ ntf[n].status = "failed" => \/ ntf[n].rc >= MaxRetries
                                       \/ ntf[n].noctx \/ RetryDelays = <<>>

(* A permanent failure is reported at most once in the group's history and  *)
(* at most once to the dead-letter webhook, and both reports are attempted  *)
(* or about to be, unless an engine died in between.  An attempt whose      *)
(* transaction or POST fails is lost: the code logs it and tries no more.   *)
FailureReportedOnce ==
    \A n \in Notifications :
        /\ dead[n].log # "again" /\ dead[n].post # "again"
        /\ ntf[n].status = "failed" /\ (\A e \in Engines : gen[e] = 0)
           => \/ dead[n].log # "none" /\ dead[n].post # "none"
              \/ \E p \in Procs : proc[p].pc = "dead" /\ n \in proc[p].report

(* Every queued notification is settled, whatever crashed, panicked or      *)
(* failed to be saved on the way.                                           *)
EventuallySettled ==
    \A n \in Notifications :
        (ntf[n].status \notin Settled) ~> (ntf[n].status \in Settled \cup {"gone"})

=============================================================================
