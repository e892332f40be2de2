----------------------------- MODULE IngestGate -----------------------------
(***************************************************************************)
(* internal/engine/ingest_gate.go: at most Holders ingests of one          *)
(* integration are at the database at a time in one process, at most       *)
(* MaxWaiting wait behind them, and the slot of an integration lives while *)
(* somebody uses it.  The map is guarded by a mutex; the token channel and *)
(* the slot an ingest took a pointer to are not, so a step is one mutex    *)
(* section or one channel operation.                                       *)
(***************************************************************************)
EXTENDS Integers, FiniteSets

CONSTANTS
    Ingests,     \* goroutines that ingest
    Keys,        \* integration keys
    Slots,       \* ingestSlot objects
    Holders,     \* ingestGateHolders
    MaxWaiting,  \* ingestGateMaxWaiting
    None         \* no slot

ASSUME GateAssumption ==
    /\ IsFiniteSet(Ingests)
    /\ Holders \in Nat \ {0}
    /\ MaxWaiting \in Nat
    /\ None \notin Slots

VARIABLES
    slots,   \* [Keys -> Slots \cup {None}], the map
    tokens,  \* [Slots -> Nat], tokens in the slot's channel
    users,   \* [Slots -> Int], holders and waiters
    pc,      \* [Ingests -> where the goroutine is]
    key,     \* [Ingests -> Keys], the integration it is for
    ref      \* [Ingests -> Slots \cup {None}], the slot it holds a pointer to

vars == <<slots, tokens, users, pc, key, ref>>

PCs == {"out", "try", "wait", "hold", "leave"}

(* The shape of the map, the slots and the goroutines. *)
TypeOK ==
    /\ slots \in [Keys -> Slots \cup {None}]
    /\ tokens \in [Slots -> Nat]
    /\ users \in [Slots -> Int]
    /\ pc \in [Ingests -> PCs]
    /\ key \in [Ingests -> Keys]
    /\ ref \in [Ingests -> Slots \cup {None}]

Init ==
    /\ slots = [k \in Keys |-> None]
    /\ tokens = [s \in Slots |-> 0]
    /\ users = [s \in Slots |-> 0]
    /\ pc = [i \in Ingests |-> "out"]
    /\ key \in [Ingests -> Keys]
    /\ ref = [i \in Ingests |-> None]

-----------------------------------------------------------------------------
(* A slot nobody points to: the map does not, nor does a goroutine. *)
Fresh(s) == (\A k \in Keys : slots[k] # s) /\ (\A i \in Ingests : ref[i] # s)

(* Slip: the new slot has one place too many. *)
EnterNewRoomy(i, k, s) ==
    /\ pc[i] = "out" /\ slots[k] = None /\ Fresh(s)
    /\ slots' = [slots EXCEPT ![k] = s]
    /\ tokens' = [tokens EXCEPT ![s] = Holders + 1]
    /\ users' = [users EXCEPT ![s] = 1]
    /\ pc' = [pc EXCEPT ![i] = "try"]
    /\ key' = [key EXCEPT ![i] = k]
    /\ ref' = [ref EXCEPT ![i] = s]

(* enter, for an integration without a slot. *)
EnterNew(i, k, s) ==
    /\ pc[i] = "out" /\ slots[k] = None /\ Fresh(s)
    /\ slots' = [slots EXCEPT ![k] = s]
    /\ tokens' = [tokens EXCEPT ![s] = Holders]
    /\ users' = [users EXCEPT ![s] = 1]
    /\ pc' = [pc EXCEPT ![i] = "try"]
    /\ key' = [key EXCEPT ![i] = k]
    /\ ref' = [ref EXCEPT ![i] = s]

(* Slip: the limit is off by one. *)
EnterOneMore(i, k) ==
    /\ pc[i] = "out" /\ slots[k] # None
    /\ users[slots[k]] <= Holders + MaxWaiting
    /\ users' = [users EXCEPT ![slots[k]] = @ + 1]
    /\ pc' = [pc EXCEPT ![i] = "try"]
    /\ key' = [key EXCEPT ![i] = k]
    /\ ref' = [ref EXCEPT ![i] = slots[k]]
    /\ UNCHANGED <<slots, tokens>>

(* enter, for one that has a slot; a full one answers ErrIngestBusy, which  *)
(* changes nothing.                                                         *)
Enter(i, k) ==
    /\ pc[i] = "out" /\ slots[k] # None
    /\ users[slots[k]] < Holders + MaxWaiting
    /\ users' = [users EXCEPT ![slots[k]] = @ + 1]
    /\ pc' = [pc EXCEPT ![i] = "try"]
    /\ key' = [key EXCEPT ![i] = k]
    /\ ref' = [ref EXCEPT ![i] = slots[k]]
    /\ UNCHANGED <<slots, tokens>>

(* A token is received, by the first select or by the waiting one. *)
Take(i) ==
    /\ pc[i] \in {"try", "wait"} /\ tokens[ref[i]] > 0
    /\ tokens' = [tokens EXCEPT ![ref[i]] = @ - 1]
    /\ pc' = [pc EXCEPT ![i] = "hold"]
    /\ UNCHANGED <<slots, users, key, ref>>

(* The first select finds no token and falls through. *)
Wait(i) ==
    /\ pc[i] = "try" /\ tokens[ref[i]] = 0
    /\ pc' = [pc EXCEPT ![i] = "wait"]
    /\ UNCHANGED <<slots, tokens, users, key, ref>>

(* Slip: whoever gives up releases a place it never had. *)
GiveUpReleasing(i) ==
    /\ pc[i] = "wait" /\ tokens[ref[i]] < Holders
    /\ tokens' = [tokens EXCEPT ![ref[i]] = @ + 1]
    /\ pc' = [pc EXCEPT ![i] = "leave"]
    /\ UNCHANGED <<slots, users, key, ref>>

(* The timer fires or the caller's context ends. *)
GiveUp(i) ==
    /\ pc[i] = "wait"
    /\ pc' = [pc EXCEPT ![i] = "leave"]
    /\ UNCHANGED <<slots, tokens, users, key, ref>>

(* Slip: the place is not given back. *)
ReturnNothing(i) ==
    /\ pc[i] = "hold"
    /\ pc' = [pc EXCEPT ![i] = "leave"]
    /\ UNCHANGED <<slots, tokens, users, key, ref>>

(* The first half of release: the token goes back to a channel with room    *)
(* for Holders of them.                                                     *)
ReturnToken(i) ==
    /\ pc[i] = "hold" /\ tokens[ref[i]] < Holders
    /\ tokens' = [tokens EXCEPT ![ref[i]] = @ + 1]
    /\ pc' = [pc EXCEPT ![i] = "leave"]
    /\ UNCHANGED <<slots, users, key, ref>>

(* Slip: the slot is never deleted. *)
LeaveKeeping(i) ==
    /\ pc[i] = "leave"
    /\ users' = [users EXCEPT ![ref[i]] = @ - 1]
    /\ pc' = [pc EXCEPT ![i] = "out"]
    /\ ref' = [ref EXCEPT ![i] = None]
    /\ UNCHANGED <<slots, tokens, key>>

(* leave, under the mutex: whatever slot the key has is deleted when this   *)
(* one has no users left.                                                   *)
Leave(i) ==
    /\ pc[i] = "leave"
    /\ users' = [users EXCEPT ![ref[i]] = @ - 1]
    /\ slots' = IF users[ref[i]] = 1 THEN [slots EXCEPT ![key[i]] = None] ELSE slots
    /\ pc' = [pc EXCEPT ![i] = "out"]
    /\ ref' = [ref EXCEPT ![i] = None]
    /\ UNCHANGED <<tokens, key>>

Step(i) == Take(i) \/ Wait(i) \/ ReturnToken(i) \/ Leave(i)

Next ==
    \E i \in Ingests :
        \/ \E k \in Keys, s \in Slots : EnterNew(i, k, s)
        \/ \E k \in Keys : Enter(i, k)
        \/ Step(i)
        \/ GiveUp(i)

Spec == Init /\ [][Next]_vars

(* A goroutine that can go on does, and a channel serves its receivers in   *)
(* turn; nobody is obliged to give up.                                      *)
FairSpec == Spec /\ \A i \in Ingests : WF_vars(Step(i)) /\ SF_vars(Take(i))

-----------------------------------------------------------------------------
(* Properties *)

Inside(k) == {i \in Ingests : pc[i] # "out" /\ key[i] = k}
Holding(k) == {i \in Ingests : pc[i] = "hold" /\ key[i] = k}

(* The gate's promise: no more than Holders ingests of one integration are  *)
(* at the database, whatever slots came and went in between.                *)
AtMostHolders == \A k \in Keys : Cardinality(Holding(k)) <= Holders

(* The queue is bounded: waiting included, an integration has no more than  *)
(* Holders + MaxWaiting ingests in the gate.                                *)
BoundedQueue == \A k \in Keys : Cardinality(Inside(k)) <= Holders + MaxWaiting

(* No slot is left behind and none is deleted under its users: an           *)
(* integration has a slot exactly while one of its ingests is inside, and   *)
(* all of them share that one.                                              *)
SlotLivesWithUsers ==
    \A k \in Keys :
        /\ slots[k] = None <=> Inside(k) = {}
        /\ \A i \in Inside(k) : ref[i] = slots[k]

(* release never blocks on the channel, so a finished ingest always leaves. *)
ReleaseNeverBlocks == \A i \in Ingests : pc[i] = "hold" => tokens[ref[i]] < Holders

(* Every ingest that entered gets its turn or leaves: no token is lost.     *)
Served == \A i \in Ingests : (pc[i] = "wait") ~> (pc[i] \in {"hold", "out"})

=============================================================================
