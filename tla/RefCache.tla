------------------------------ MODULE RefCache ------------------------------
(***************************************************************************)
(* internal/engine/refcache.go, for one reference collection of one        *)
(* replica.  The collection is a version number, one per committed write;  *)
(* the id created by write v is in every version from v on.  Callers read  *)
(* with refCollection and may go on to refSet.require; local writers       *)
(* commit and then invalidate (refInvalidatingStore); other replicas only  *)
(* commit.  Every section under the cache's mutex is one step; the reads   *)
(* of the database happen outside it.                                      *)
(***************************************************************************)
EXTENDS Integers, FiniteSets

CONSTANTS
    Callers,      \* goroutines that read the references
    Writers,      \* goroutines that write the collection through this replica
    Ids,          \* ids that callers require, by the write that creates them
    TTL,          \* refCacheTTL
    LongestLoad,  \* the longest a read of the collection lasts
    MaxWrites,    \* bound on the writes
    MaxRemote,    \* bound on the writes of other replicas
    None

Horizon == IF TTL > LongestLoad THEN TTL ELSE LongestLoad

VARIABLES
    db,        \* the committed version
    past,      \* past[k]: the version at the k-th last tick
    entry,     \* entries[name], a set of at most one entry
    flight,    \* flights[name]: the caller that runs it, or None
    caller,    \* [Callers -> the call in progress]
    writer,    \* [Writers -> the version to invalidate for, 0 when idle]
    completed, \* the last version a local writer has returned from
    local,     \* local writes so far
    remote     \* writes of other replicas so far

vars == <<db, past, entry, flight, caller, writer, completed, local, remote>>

Versions == 0 .. MaxWrites
Entries == [ver : Versions, age : 0 .. TTL + 1, verified : BOOLEAN]

(* owner: whose flight is awaited; ver, age: of the load under way, then of *)
(* the items in hand; verified: they come from an entry that require put;   *)
(* own, floor, era: completed, the oldest excusable version and the number  *)
(* of invalidations when the call began.                                    *)
Phases == {"idle", "missed", "loading", "loaded", "waiting", "got", "reloading", "reloaded", "done"}
CallStates == [pc : Phases, owner : Callers \cup {None}, ver : Versions, age : 0 .. LongestLoad,
               verified : BOOLEAN, own : Versions, floor : Versions, era : Nat]
Idle == [pc |-> "idle", owner |-> None, ver |-> 0, age |-> 0, verified |-> FALSE,
         own |-> 0, floor |-> 0, era |-> 0]

(* The shape of the cache, the calls and the writes. *)
TypeOK ==
    /\ db \in Versions /\ completed \in Versions
    /\ past \in [1 .. Horizon + 1 -> Versions]
    /\ entry \in SUBSET Entries /\ Cardinality(entry) <= 1
    /\ flight \in Callers \cup {None}
    /\ caller \in [Callers -> CallStates]
    /\ writer \in [Writers -> Versions]
    /\ local \in Nat /\ remote \in Nat

Init ==
    /\ db = 0 /\ completed = 0 /\ local = 0 /\ remote = 0
    /\ past = [k \in 1 .. Horizon + 1 |-> 0]
    /\ entry = {} /\ flight = None
    /\ caller = [c \in Callers |-> Idle]
    /\ writer = [w \in Writers |-> 0]

-----------------------------------------------------------------------------
(* The cache *)

(* now.Sub(loadedAt) <= ttl *)
Fresh == {e \in entry : e.age <= TTL}

(* Slip: the entry is dated when the load is stored. *)
NewEntryDatedLate(c, verified) == {[ver |-> caller[c].ver, age |-> 0, verified |-> verified]}

(* loadedAt is the time before the load. *)
NewEntry(c, verified) == {[ver |-> caller[c].ver, age |-> caller[c].age, verified |-> verified]}

(* Local writes that have been invalidated for. *)
Invalidations == local - Cardinality({w \in Writers : writer[w] # 0})

(* refCollection: get. *)
Get(c) ==
    LET begun == [Idle EXCEPT !.own = completed, !.floor = past[Horizon + 1], !.era = Invalidations] IN
    /\ caller[c].pc = "idle"
    /\ \/ \E e \in Fresh :
             caller' = [caller EXCEPT ![c] = [begun EXCEPT !.pc = "got", !.ver = e.ver, !.verified = e.verified]]
       \/ /\ Fresh = {}
          /\ caller' = [caller EXCEPT ![c] = [begun EXCEPT !.pc = "missed"]]
    /\ UNCHANGED <<db, past, entry, flight, writer, completed, local, remote>>

(* Slip: every miss runs its own load. *)
LoadStartAlways(c) ==
    /\ caller[c].pc = "missed"
    /\ flight' = c
    /\ caller' = [caller EXCEPT ![c].pc = "loading"]
    /\ UNCHANGED <<db, past, entry, writer, completed, local, remote>>

(* load, no load under way. *)
LoadStart(c) ==
    /\ caller[c].pc = "missed" /\ flight = None
    /\ flight' = c
    /\ caller' = [caller EXCEPT ![c].pc = "loading"]
    /\ UNCHANGED <<db, past, entry, writer, completed, local, remote>>

(* load, one under way: wait for it. *)
LoadJoin(c) ==
    /\ caller[c].pc = "missed" /\ flight # None
    /\ caller' = [caller EXCEPT ![c].pc = "waiting", ![c].owner = flight]
    /\ UNCHANGED <<db, past, entry, flight, writer, completed, local, remote>>

(* loadRefCollection reads what is committed. *)
LoadRead(c) ==
    /\ caller[c].pc = "loading"
    /\ caller' = [caller EXCEPT ![c].pc = "loaded", ![c].ver = db]
    /\ UNCHANGED <<db, past, entry, flight, writer, completed, local, remote>>

(* close(f.done): c and everyone who waits for c's flight go on. *)
Landing(c) == {c} \cup {d \in Callers : caller[d].pc = "waiting" /\ caller[d].owner = c}

Land(c) ==
    caller' = [d \in Callers |->
        IF d \in Landing(c)
        THEN [caller[d] EXCEPT !.pc = "got", !.ver = caller[c].ver, !.owner = None, !.age = 0]
        ELSE caller[d]]

(* Slip: only a flight that is still registered is closed for its waiters. *)
LoadPublishRegistered(c) ==
    /\ caller[c].pc = "loaded"
    /\ \/ flight = c /\ flight' = None /\ entry' = NewEntry(c, FALSE) /\ Land(c)
       \/ flight # c /\ caller' = [caller EXCEPT ![c].pc = "got", ![c].age = 0] /\ UNCHANGED <<entry, flight>>
    /\ UNCHANGED <<db, past, writer, completed, local, remote>>

(* Slip: a load that was invalidated is cached all the same. *)
LoadPublishUnchecked(c) ==
    /\ caller[c].pc = "loaded"
    /\ entry' = NewEntry(c, FALSE)
    /\ flight' = IF flight = c THEN None ELSE flight
    /\ Land(c)
    /\ UNCHANGED <<db, past, writer, completed, local, remote>>

(* Slip: the load is added beside the entry it should replace. *)
LoadPublishBeside(c) ==
    /\ caller[c].pc = "loaded"
    /\ \/ flight = c /\ flight' = None /\ entry' = entry \cup NewEntry(c, FALSE)
       \/ flight # c /\ UNCHANGED <<entry, flight>>
    /\ Land(c)
    /\ UNCHANGED <<db, past, writer, completed, local, remote>>

(* The load is stored unless it was invalidated meanwhile. *)
LoadPublish(c) ==
    /\ caller[c].pc = "loaded"
    /\ \/ flight = c /\ flight' = None /\ entry' = NewEntry(c, FALSE)
       \/ flight # c /\ UNCHANGED <<entry, flight>>
    /\ Land(c)
    /\ UNCHANGED <<db, past, writer, completed, local, remote>>

(* The read fails, for everyone who waits for it. *)
LoadFail(c) ==
    /\ caller[c].pc = "loading"
    /\ flight' = IF flight = c THEN None ELSE flight
    /\ caller' = [d \in Callers |-> IF d \in Landing(c) THEN Idle ELSE caller[d]]
    /\ UNCHANGED <<db, past, entry, writer, completed, local, remote>>

(* A waiter's context ends. *)
LoadAbandon(c) ==
    /\ caller[c].pc = "waiting"
    /\ caller' = [caller EXCEPT ![c] = Idle]
    /\ UNCHANGED <<db, past, entry, flight, writer, completed, local, remote>>

-----------------------------------------------------------------------------
(* refSet.require *)

(* The ids are all there, or the caller needs none. *)
Use(c) ==
    /\ caller[c].pc = "got"
    /\ caller' = [caller EXCEPT ![c].pc = "done"]
    /\ UNCHANGED <<db, past, entry, flight, writer, completed, local, remote>>

(* An id is missing: a fresh verified entry settles it, or else the         *)
(* collection is read again.                                                *)
Require(c) ==
    /\ caller[c].pc = "got"
    /\ \E id \in Ids : id > caller[c].ver
    /\ caller' = [caller EXCEPT ![c].pc = IF \E e \in Fresh : e.verified THEN "done" ELSE "reloading"]
    /\ UNCHANGED <<db, past, entry, flight, writer, completed, local, remote>>

ReloadRead(c) ==
    /\ caller[c].pc = "reloading"
    /\ caller' = [caller EXCEPT ![c].pc = "reloaded", ![c].ver = db, ![c].verified = FALSE]
    /\ UNCHANGED <<db, past, entry, flight, writer, completed, local, remote>>

(* Nothing tells the reader of an invalidation that came since its read: it *)
(* is no flight.                                                            *)
ReloadPut(c) ==
    /\ caller[c].pc = "reloaded"
    /\ entry' = NewEntry(c, TRUE)
    /\ caller' = [caller EXCEPT ![c].pc = "done", ![c].age = 0]
    /\ UNCHANGED <<db, past, flight, writer, completed, local, remote>>

ReloadFail(c) ==
    /\ caller[c].pc = "reloading"
    /\ caller' = [caller EXCEPT ![c] = Idle]
    /\ UNCHANGED <<db, past, entry, flight, writer, completed, local, remote>>

(* The caller is done with its copy. *)
Return(c) ==
    /\ caller[c].pc = "done"
    /\ caller' = [caller EXCEPT ![c] = Idle]
    /\ UNCHANGED <<db, past, entry, flight, writer, completed, local, remote>>

-----------------------------------------------------------------------------
(* Writes *)

WriteCommit(w) ==
    /\ writer[w] = 0 /\ db < MaxWrites
    /\ db' = db + 1
    /\ writer' = [writer EXCEPT ![w] = db']
    /\ local' = local + 1
    /\ UNCHANGED <<past, entry, flight, caller, completed, remote>>

(* invalidate drops the entry, and the load under way with it. *)
WriteInvalidate(w) ==
    /\ writer[w] # 0
    /\ entry' = {} /\ flight' = None
    /\ completed' = IF writer[w] > completed THEN writer[w] ELSE completed
    /\ writer' = [writer EXCEPT ![w] = 0]
    /\ UNCHANGED <<db, past, caller, local, remote>>

(* Another replica writes, or a local commit whose answer is lost. *)
RemoteWrite ==
    /\ db < MaxWrites /\ remote < MaxRemote
    /\ db' = db + 1 /\ remote' = remote + 1
    /\ UNCHANGED <<past, entry, flight, caller, writer, completed, local>>

Loads == {c \in Callers : caller[c].pc \in {"loading", "loaded", "reloading", "reloaded"}}

Tick ==
    /\ \A c \in Loads : caller[c].age < LongestLoad
    /\ past' = [k \in 1 .. Horizon + 1 |-> IF k = 1 THEN db ELSE past[k - 1]]
    /\ entry' = {[e EXCEPT !.age = IF @ > TTL THEN @ ELSE @ + 1] : e \in entry}
    /\ caller' = [c \in Callers |-> IF c \in Loads THEN [caller[c] EXCEPT !.age = @ + 1] ELSE caller[c]]
    /\ UNCHANGED <<db, flight, writer, completed, local, remote>>

Step(c) ==
    \/ LoadStart(c) \/ LoadJoin(c) \/ LoadRead(c) \/ LoadPublish(c)
    \/ Use(c) \/ Require(c) \/ ReloadRead(c) \/ ReloadPut(c) \/ Return(c)

Next ==
    \/ \E c \in Callers : Get(c) \/ Step(c) \/ LoadFail(c) \/ LoadAbandon(c) \/ ReloadFail(c)
    \/ \E w \in Writers : WriteCommit(w) \/ WriteInvalidate(w)
    \/ RemoteWrite \/ Tick

Spec == Init /\ [][Next]_vars

-----------------------------------------------------------------------------
(* Properties *)

Holding == {c \in Callers : caller[c].pc \in {"got", "done"}}

(* "Writes made by this process invalidate the cache immediately": a call   *)
(* that begins after a local write returned sees it.                        *)
ReadsOwnWrites == \A c \in Holding : caller[c].ver >= caller[c].own

(* A load never hides a local write from the calls that begin after it,     *)
(* whatever loads were under way when the write was made: a call that       *)
(* misses such a write was answered from the re-read of a require.          *)
LoadsSeeOwnWrites ==
    \A c \in Holding : caller[c].ver >= caller[c].own \/ caller[c].verified

(* What a call returns was current a TTL before the call, or the length of  *)
(* a load before it where that is longer.  So the TTL bounds how long a     *)
(* write stays invisible, one of another replica or one of this process     *)
(* that a require put back.                                                 *)
StaleAtMostTTL == \A c \in Holding : caller[c].ver >= caller[c].floor

(* "Misses on a collection that is already loading wait for that load":     *)
(* the calls that began since the last local write was invalidated for run  *)
(* one load between them, however many of them miss.                        *)
LoadsAreShared ==
    Cardinality({c \in Callers : /\ caller[c].pc \in {"loading", "loaded"}
                                 /\ caller[c].era = Invalidations}) <= 1

(* A call that missed gets its answer, also one that waits for the load of  *)
(* another call and when that load is invalidated.                          *)
CallsReturn == \A c \in Callers : (caller[c].pc # "idle") ~> (caller[c].pc = "idle")

=============================================================================
