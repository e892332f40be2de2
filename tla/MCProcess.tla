------------------------------ MODULE MCProcess ------------------------------
(***************************************************************************)
(* What one process keeps in memory, for TLC: the ingest gate, the         *)
(* reference-data cache and the circuit breaker.  They share no state, so  *)
(* a behaviour exercises one of them, the others staying as they began.    *)
(***************************************************************************)
EXTENDS IngestGate

VARIABLES part, db, past, entry, flight, caller, writer, completed, local, remote,
          failures, armed, left, call, healthy, dropped

cacheVars == <<db, past, entry, flight, caller, writer, completed, local, remote>>
breakerVars == <<failures, armed, left, call, healthy, dropped>>
processVars == <<part, vars, cacheVars, breakerVars>>

Callers == {"c1", "c2"}
Deliveries == {"d1", "d2", "d3"}

(* A cache whose process also writes while callers require an id, and one   *)
(* beside another replica.                                                  *)
Local == INSTANCE RefCache WITH Writers <- {"w1"}, Ids <- {1}, TTL <- 1, LongestLoad <- 1,
                                MaxWrites <- 1, MaxRemote <- 1, None <- "none"
Remote == INSTANCE RefCache WITH Writers <- {}, Ids <- {}, TTL <- 1, LongestLoad <- 1,
                                 MaxWrites <- 2, MaxRemote <- 2, None <- "none"

(* No call outlasts the cooldown. *)
Breaker == INSTANCE CircuitBreaker WITH Callers <- Deliveries, Threshold <- 2, Cooldown <- 3,
                                        LongestCall <- 2, MaxDropped <- 1

(* The shape of the component that the behaviour exercises. *)
ProcessTypeOK ==
    \/ part = "gate" /\ TypeOK
    \/ part = "local" /\ Local!TypeOK
    \/ part = "remote" /\ Remote!TypeOK
    \/ part = "breaker" /\ Breaker!TypeOK

ProcessInit ==
    /\ part \in {"gate", "local", "remote", "breaker"}
    /\ Init /\ Breaker!Init
    /\ IF part = "local" THEN Local!Init ELSE Remote!Init
    /\ part # "gate" => \A i, j \in Ingests : key[i] = key[j]

InGate(A) == part = "gate" /\ A /\ UNCHANGED <<part, cacheVars, breakerVars>>
InCache(A, B) == ((part = "local" /\ A) \/ (part = "remote" /\ B)) /\ UNCHANGED <<part, vars, breakerVars>>
InBreaker(A) == part = "breaker" /\ A /\ UNCHANGED <<part, vars, cacheVars>>

ProcessNext ==
    \/ InGate(Next)
    \/ InCache(Local!Next, Remote!Next)
    \/ InBreaker(Breaker!Next)

(* A goroutine that can go on does, a channel serves its receivers in turn, *)
(* and nobody is obliged to give up; time passes, provider calls end, for a *)
(* timeout bounds them, and notifications keep being tried.                 *)
Fairness ==
    /\ \A i \in Ingests : WF_processVars(InGate(Step(i))) /\ SF_processVars(InGate(Take(i)))
    /\ \A c \in Callers : WF_processVars(InCache(Local!Step(c), Remote!Step(c)))
    /\ WF_processVars(InBreaker(Breaker!Tick))
    /\ \A d \in Deliveries : /\ WF_processVars(InBreaker(Breaker!Finish(d)))
                             /\ WF_processVars(InBreaker(Breaker!Ask(d)))

ProcessSpec == ProcessInit /\ [][ProcessNext]_processVars /\ Fairness

-----------------------------------------------------------------------------
(* Properties, beside those of the gate *)

(* refCache.load and invalidate: a load never hides a local write from the  *)
(* calls that begin after it; only the re-read of a require can.            *)
LoadsSeeOwnWrites == part = "local" => Local!LoadsSeeOwnWrites

(* refCache.get: nobody is served rows older than the TTL and the load that *)
(* fetched them allow, although other replicas write unnoticed and require  *)
(* puts older rows back.                                                    *)
StaleAtMostTTL == IF part = "local" THEN Local!StaleAtMostTTL ELSE Remote!StaleAtMostTTL

(* refCache.load: callers that miss together run one load, not one each,    *)
(* until a local write makes the next ones start another.                   *)
LoadsAreShared == part = "local" => Local!LoadsAreShared

(* refCache.load: no caller is left waiting for a load that is over, in     *)
(* either cache.                                                            *)
CallsReturn == Local!CallsReturn

(* circuitBreaker.Allow: while a trial is out nobody else is let through,   *)
(* unless an answer closed the breaker meanwhile.                           *)
OneTrial == Breaker!OneTrial

(* circuitBreaker: a provider that answers again is used again, although    *)
(* some of the trials end without a recorded result.                        *)
RecoversAfterHeal == Breaker!RecoversAfterHeal

=============================================================================
