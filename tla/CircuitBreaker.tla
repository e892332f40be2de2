--------------------------- MODULE CircuitBreaker ---------------------------
(***************************************************************************)
(* internal/engine/circuit_breaker.go, for one key (a channel and target): *)
(* the delivery goroutines ask Allow before they call a provider and tell  *)
(* Record how it went, unless the call was skipped or panicked.  The       *)
(* breaker's mutex makes Allow and Record atomic; the call in between is   *)
(* not.  The time left to openUntil counts down.                           *)
(***************************************************************************)
EXTENDS Integers, FiniteSets

CONSTANTS
    Callers,      \* delivery goroutines
    Threshold,    \* failures that open the breaker
    Cooldown,     \* cooldown
    LongestCall,  \* the longest a provider call lasts
    MaxDropped    \* bound on calls that are not recorded

VARIABLES
    failures,  \* failures of the entry; 0 without an entry
    armed,     \* openUntil is set
    left,      \* time left to openUntil
    call,      \* [Callers -> a call in progress]
    healthy,   \* the provider answers, for good
    dropped    \* calls that were not recorded

vars == <<failures, armed, left, call, healthy, dropped>>

(* trial: admitted after the cooldown. *)
Calls == [pc : {"idle", "calling"}, trial : BOOLEAN, age : 0 .. LongestCall]
NoCall == [pc |-> "idle", trial |-> FALSE, age |-> 0]

(* The shape of the entry and of the calls; failures stop being counted     *)
(* once nobody can tell them apart.                                         *)
TypeOK ==
    /\ failures \in 0 .. Threshold
    /\ armed \in BOOLEAN /\ left \in 0 .. Cooldown
    /\ call \in [Callers -> Calls]
    /\ healthy \in BOOLEAN
    /\ dropped \in Nat

Init ==
    /\ failures = 0 /\ armed = FALSE /\ left = 0
    /\ call = [c \in Callers |-> NoCall]
    /\ healthy = FALSE
    /\ dropped = 0

-----------------------------------------------------------------------------
(* Slip: the trial does not arm the cooldown again. *)
AllowTrialUnarmed(c) ==
    /\ call[c].pc = "idle" /\ armed /\ left = 0
    /\ call' = [call EXCEPT ![c] = [NoCall EXCEPT !.pc = "calling", !.trial = TRUE]]
    /\ UNCHANGED <<failures, armed, left, healthy, dropped>>

(* Allow, closed. *)
AllowClosed(c) ==
    /\ call[c].pc = "idle" /\ ~armed
    /\ call' = [call EXCEPT ![c] = [NoCall EXCEPT !.pc = "calling"]]
    /\ UNCHANGED <<failures, armed, left, healthy, dropped>>

(* Allow, after the cooldown: one trial, and the cooldown starts again.     *)
(* While it runs Allow answers FALSE and changes nothing.                   *)
AllowTrial(c) ==
    /\ call[c].pc = "idle" /\ armed /\ left = 0
    /\ left' = Cooldown
    /\ call' = [call EXCEPT ![c] = [NoCall EXCEPT !.pc = "calling", !.trial = TRUE]]
    /\ UNCHANGED <<failures, armed, healthy, dropped>>

(* Slip: a success leaves openUntil in place. *)
RecordSuccessKept(c) ==
    /\ call[c].pc = "calling"
    /\ failures' = 0
    /\ call' = [call EXCEPT ![c] = NoCall]
    /\ UNCHANGED <<armed, left, healthy, dropped>>

(* Record of a success deletes the entry. *)
RecordSuccess(c) ==
    /\ call[c].pc = "calling"
    /\ failures' = 0 /\ armed' = FALSE /\ left' = 0
    /\ call' = [call EXCEPT ![c] = NoCall]
    /\ UNCHANGED <<healthy, dropped>>

(* Record of a failure counts it and, from the threshold on, arms the       *)
(* cooldown.                                                                *)
RecordFailure(c) ==
    /\ call[c].pc = "calling" /\ ~healthy
    /\ failures' = IF failures < Threshold THEN failures + 1 ELSE Threshold
    /\ IF failures' >= Threshold THEN armed' = TRUE /\ left' = Cooldown ELSE UNCHANGED <<armed, left>>
    /\ call' = [call EXCEPT ![c] = NoCall]
    /\ UNCHANGED <<healthy, dropped>>

(* A skipped outcome or a panic records nothing. *)
Drop(c) ==
    /\ call[c].pc = "calling" /\ dropped < MaxDropped
    /\ dropped' = dropped + 1
    /\ call' = [call EXCEPT ![c] = NoCall]
    /\ UNCHANGED <<failures, armed, left, healthy>>

(* The provider comes back. *)
Heal ==
    /\ ~healthy /\ healthy' = TRUE
    /\ UNCHANGED <<failures, armed, left, call, dropped>>

Tick ==
    /\ \A c \in Callers : call[c].pc = "calling" => call[c].age < LongestCall
    /\ left' = IF left > 0 THEN left - 1 ELSE 0
    /\ call' = [c \in Callers |-> IF call[c].pc = "calling" THEN [call[c] EXCEPT !.age = @ + 1] ELSE call[c]]
    /\ UNCHANGED <<failures, armed, healthy, dropped>>

Finish(c) == RecordSuccess(c) \/ RecordFailure(c)
Ask(c) == AllowClosed(c) \/ AllowTrial(c)

Next == Heal \/ Tick \/ \E c \in Callers : Ask(c) \/ Finish(c) \/ Drop(c)

Spec == Init /\ [][Next]_vars

-----------------------------------------------------------------------------
(* Properties *)

(* One trial at a time: while a trial is out nobody else is let through     *)
(* after the cooldown, unless an answer closed the breaker meanwhile.       *)
OneTrial == armed => Cardinality({c \in Callers : call[c].trial}) <= 1

(* A provider that is back is called again and the breaker closes, although *)
(* trials may be skipped or panic without a record.                         *)
RecoversAfterHeal == healthy ~> ~armed

=============================================================================
