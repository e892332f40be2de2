-------------------------- MODULE EscalationProofs --------------------------
(***************************************************************************)
(* Proofs about Escalation for every set of groups, workers and chains.    *)
(*                                                                         *)
(* The argument: every transition of a row moves its position (episode,    *)
(* pass, repeat, step) forward in lexicographic order or leaves it alone,  *)
(* and a walk keys its pages at positions from the one it starts at up to, *)
(* but excluding, the one it leaves behind.                                *)
(***************************************************************************)
EXTENDS Escalation, TLAPS, WellFoundedInduction

(* What the invariants say of one row. *)
RowOK(r) ==
    /\ r \in Row
    /\ r.status \in {"acknowledged", "resolved"} => r.nextRun = Never
    /\ r.status = "silenced" => r.nextRun = r.until
    /\ r.status = "open" /\ r.nextRun = Never => r.halt # "running"

(* s is at or after the position of r. *)
NotBefore(r, s) == \A k \in EscalationKeys : Below(k, r) => Below(k, s)

-----------------------------------------------------------------------------
(* The least element of a set of naturals is one of them. *)
LEMMA MinNat ==
    ASSUME NEW S \in SUBSET Nat, S # {}
    PROVE  Min(S) \in S /\ \A y \in S : Min(S) =< y
<1> DEFINE R == OpToRel(<, Nat)
<1>1. R = {ss \in Nat \X Nat : ss[1] < ss[2]}
  BY DEF OpToRel
<1>2. IsWellFoundedOn(R, Nat)
  BY NatLessThanWellFounded
<1> HIDE DEF R
<1>3. PICK x \in S : \A y \in S : ~(<<y, x>> \in R)
  BY <1>2, WFMin
<1>4. ASSUME NEW y \in S PROVE x =< y
  <2>1. <<y, x>> \in Nat \X Nat /\ <<y, x>>[1] = y /\ <<y, x>>[2] = x
    OBVIOUS
  <2>2. ~(<<y, x>>[1] < <<y, x>>[2])
    BY <1>1, <1>3, <2>1, Zenon
  <2> QED
    BY <2>1, <2>2
<1> QED
  BY <1>4 DEF Min

(* A walk stops at or after its start, at the end of the chain or at a step *)
(* that leaves the loop of advanceGroupLocked.                              *)
LEMMA StopAtStops ==
    ASSUME NEW c \in Seq(Step), NEW from \in Nat
    PROVE  /\ StopAt(c, from) \in Nat
           /\ from =< StopAt(c, from)
           /\ StopAt(c, from) >= Len(c) \/ Stops(c, StopAt(c, from))
<1> DEFINE end == WalkEnd(c, from)
           S == {p \in from .. end : p = end \/ Stops(c, p)}
<1>1. end \in Nat /\ end >= from /\ end >= Len(c)
  BY DEF WalkEnd
<1>2. S \in SUBSET Nat /\ end \in S
  BY <1>1
<1>3. Min(S) \in S
  BY <1>2, MinNat
<1> QED
  BY <1>1, <1>3 DEF StopAt

-----------------------------------------------------------------------------
(* The walk reached the end of the chain: the timer is cleared and reported. *)
LEMMA StepCompleteRow ==
    ASSUME NEW q \in Row, q.status = "open"
    PROVE  LET t == StepComplete(q)
           IN  /\ t \in Row /\ t.status = "open" /\ t.nextRun = Never /\ t.halt = "complete"
               /\ t.episode = q.episode /\ t.pass = q.pass
               /\ t.repeat = q.repeat /\ t.step = q.step
BY DEF StepComplete, Row, Halts, Never

(* A WAIT moves past itself and sets the timer. *)
LEMMA StepWaitRow ==
    ASSUME NEW q \in Row, q.status = "open", NEW s \in Step, NEW ts \in Nat
    PROVE  LET t == StepWait(q, s, ts)
           IN  /\ t \in Row /\ t.status = "open" /\ t.nextRun \in Nat
               /\ t.episode = q.episode /\ t.pass = q.pass
               /\ t.repeat = q.repeat /\ t.step = q.step + 1
<1> DEFINE n == q.step + 1
           d == ts + s.delay
<1>1. n \in Nat /\ d \in Nat
  BY DEF Row, Step
<1>2. StepWait(q, s, ts) = [q EXCEPT !.step = n, !.nextRun = d] /\ n = q.step + 1
  BY DEF StepWait
<1> HIDE DEF n, d
<1> QED
  BY <1>1, <1>2 DEF Row

(* A REPEAT counts itself and jumps back, or reports that it is spent. *)
LEMMA StepRepeatRow ==
    ASSUME NEW q \in Row, q.status = "open", NEW s \in Step, NEW ts \in Nat
    PROVE  LET t == StepRepeat(q, s, ts)
           IN  /\ t \in Row /\ t.status = "open"
               /\ t.nextRun \in Nat \/ t.halt = "exhausted"
               /\ t.episode = q.episode /\ t.pass = q.pass
               /\ t.repeat = q.repeat + 1 \/ (t.repeat = q.repeat /\ t.step = q.step)
<1> DEFINE n == q.repeat + 1
           d == ts + s.delay
           f == s.from
           spent == n > (IF s.max < 1 THEN 1 ELSE s.max)
<1>1. n \in Nat /\ d \in Nat /\ f \in Nat
  BY DEF Row, Step
<1>2. StepRepeat(q, s, ts) = IF spent THEN [q EXCEPT !.nextRun = Never, !.halt = "exhausted"]
                             ELSE [q EXCEPT !.repeat = n, !.step = f, !.nextRun = d]
  BY DEF StepRepeat
<1>3. n = q.repeat + 1
  OBVIOUS
<1> HIDE DEF n, d, f, spent
<1>4. CASE spent
  <2>1. StepRepeat(q, s, ts) = [q EXCEPT !.nextRun = Never, !.halt = "exhausted"]
    BY <1>2, <1>4
  <2> QED
    BY <2>1 DEF Row, Halts, Never
<1>5. CASE ~spent
  <2>1. StepRepeat(q, s, ts) = [q EXCEPT !.repeat = n, !.step = f, !.nextRun = d]
    BY <1>2, <1>5
  <2> DEFINE t == [q EXCEPT !.repeat = n, !.step = f, !.nextRun = d]
  <2>2. t \in Row
    BY <1>1 DEF Row
  <2>3. t.status = "open" /\ t.nextRun = d /\ t.repeat = n
    BY <1>1 DEF Row
  <2>4. t.episode = q.episode /\ t.pass = q.pass
    BY <1>1 DEF Row
  <2> QED
    BY <1>1, <1>3, <2>1, <2>2, <2>3, <2>4
<1> QED
  BY <1>4, <1>5

(* A RESOLVE leaves the position alone. *)
LEMMA ResolveRow ==
    ASSUME NEW q \in Row
    PROVE  LET t == NotifyGroupResolved(Resolve(q))
           IN  /\ t \in Row /\ t.status = "resolved" /\ t.nextRun = Never
               /\ t.episode = q.episode /\ t.pass = q.pass
               /\ t.repeat = q.repeat /\ t.step = q.step
BY DEF Resolve, NotifyGroupResolved, NotifiesResolved, Row, Statuses, Never

(* The step a walk stops at leaves a row that satisfies the invariant, at   *)
(* or after the stopping position.                                          *)
LEMMA StopStepRow ==
    ASSUME NEW q \in Row, q.status = "open", NEW c \in Seq(Step), NEW ts \in Nat,
           q.step >= Len(c) \/ Stops(c, q.step)
    PROVE  LET t == StopStep(q, c, ts)
           IN  /\ RowOK(t)
               /\ t.episode = q.episode /\ t.pass = q.pass
               /\ t.repeat > q.repeat \/ (t.repeat = q.repeat /\ t.step >= q.step)
<1>1. q.step \in Nat /\ q.repeat \in Nat /\ Len(c) \in Nat
  BY DEF Row
<1>2. CASE q.step >= Len(c)
  <2>1. StopStep(q, c, ts) = StepComplete(q)
    BY <1>2 DEF StopStep
  <2> QED
    BY <1>1, <2>1, StepCompleteRow DEF RowOK
<1>3. CASE ~(q.step >= Len(c))
  <2> DEFINE s == c[q.step + 1]
  <2>1. s \in Step /\ s.kind \in {"WAIT", "RESOLVE", "REPEAT"}
    BY <1>1, <1>3 DEF Stops
  <2>2. StopStep(q, c, ts) = CASE s.kind = "WAIT"    -> StepWait(q, s, ts)
                               [] s.kind = "REPEAT"  -> StepRepeat(q, s, ts)
                               [] s.kind = "RESOLVE" -> NotifyGroupResolved(Resolve(q))
    BY <1>3 DEF StopStep
  <2> HIDE DEF s
  <2>3. CASE s.kind = "WAIT"
    <3> DEFINE t == StepWait(q, s, ts)
    <3>1. StopStep(q, c, ts) = t
      BY <2>2, <2>3
    <3>2. /\ t \in Row /\ t.status = "open" /\ t.nextRun \in Nat
          /\ t.episode = q.episode /\ t.pass = q.pass
          /\ t.repeat = q.repeat /\ t.step = q.step + 1
      BY <2>1, StepWaitRow
    <3> HIDE DEF t
    <3>3. t.nextRun # Never
      BY <3>2 DEF Never
    <3> QED
      BY <1>1, <3>1, <3>2, <3>3 DEF RowOK
  <2>4. CASE s.kind = "RESOLVE"
    <3>1. StopStep(q, c, ts) = NotifyGroupResolved(Resolve(q))
      BY <2>2, <2>4
    <3> QED
      BY <1>1, <3>1, ResolveRow DEF RowOK
  <2>5. CASE s.kind = "REPEAT"
    <3> DEFINE t == StepRepeat(q, s, ts)
    <3>1. StopStep(q, c, ts) = t
      BY <2>2, <2>5
    <3>2. /\ t \in Row /\ t.status = "open"
          /\ t.nextRun \in Nat \/ t.halt = "exhausted"
          /\ t.episode = q.episode /\ t.pass = q.pass
          /\ t.repeat = q.repeat + 1 \/ (t.repeat = q.repeat /\ t.step = q.step)
      BY <2>1, StepRepeatRow
    <3> HIDE DEF t
    <3>3. t.nextRun # Never \/ t.halt = "exhausted"
      BY <3>2 DEF Never
    <3> QED
      BY <1>1, <3>1, <3>2, <3>3 DEF RowOK
  <2> QED
    BY <2>1, <2>3, <2>4, <2>5
<1> QED
  BY <1>2, <1>3

-----------------------------------------------------------------------------
(* The loop of advanceGroupLocked up to its stopping step. *)
LEMMA WalkedRow ==
    ASSUME NEW r \in Row, r.status = "open", NEW c \in Seq(Step), NEW covered \in BOOLEAN
    PROVE  LET q == Walked(r, c, covered)
           IN  /\ q \in Row /\ q.status = "open"
               /\ q.step = StopAt(c, r.step)
               /\ q.episode = r.episode /\ q.pass = r.pass /\ q.repeat = r.repeat
<1> DEFINE n == StopAt(c, r.step)
           b == r.paged \/ (covered /\ Passed(r, c, {"NOTIFY"}) # {})
<1>1. n \in Nat
  BY StopAtStops DEF Row
<1>2. b \in BOOLEAN
  OBVIOUS
<1>3. Walked(r, c, covered) = [r EXCEPT !.step = n, !.paged = b]
  BY DEF Walked
<1>4. n = StopAt(c, r.step)
  OBVIOUS
<1> HIDE DEF n, b
<1> QED
  BY <1>1, <1>2, <1>3, <1>4 DEF Row

(* The keys of a walk lie between its start and its stopping step. *)
LEMMA WalkKeysBetween ==
    ASSUME NEW r \in Row, NEW c \in Seq(Step), NEW covered \in BOOLEAN,
           NEW k \in WalkKeys(r, c, covered)
    PROVE  /\ k \in EscalationKeys
           /\ k.episode = r.episode /\ k.pass = r.pass /\ k.repeat = r.repeat
           /\ r.step =< k.step /\ k.step < StopAt(c, r.step)
<1>1. r.step \in Nat /\ StopAt(c, r.step) \in Nat
  BY StopAtStops DEF Row
<1>2. PICK p \in r.step .. StopAt(c, r.step) - 1 : k = EscalationKey(r, p)
  BY DEF WalkKeys, Passed
<1> QED
  BY <1>1, <1>2 DEF EscalationKey, EscalationKeys, Row

(* advanceGroupLocked: the row it leaves satisfies the invariant, is not    *)
(* before the row it found, and the pages in between are new.               *)
LEMMA AdvanceRow ==
    ASSUME NEW r \in Row, NEW c \in Seq(Step), NEW ts \in Nat, NEW covered \in BOOLEAN,
           r.status # "open" => RowOK(r)
    PROVE  LET t == AdvanceGroup(r, c, ts, covered)
           IN  /\ RowOK(t)
               /\ NotBefore(r, t) /\ t.episode = r.episode
               /\ \A k \in AdvanceKeys(r, c, covered) :
                     k \in EscalationKeys /\ ~Below(k, r) /\ Below(k, t)
<1>1. CASE r.status # "open"
  BY <1>1 DEF AdvanceGroup, AdvanceKeys, NotBefore
<1>2. CASE r.status = "open"
  <2> DEFINE q == Walked(r, c, covered)
             t == StopStep(q, c, ts)
  <2>1. AdvanceGroup(r, c, ts, covered) = t /\ AdvanceKeys(r, c, covered) = WalkKeys(r, c, covered)
    BY <1>2 DEF AdvanceGroup, AdvanceKeys
  <2>2. /\ q \in Row /\ q.status = "open" /\ q.step = StopAt(c, r.step)
        /\ q.episode = r.episode /\ q.pass = r.pass /\ q.repeat = r.repeat
    BY <1>2, WalkedRow
  <2>3. /\ r.step \in Nat /\ StopAt(c, r.step) \in Nat /\ r.step =< StopAt(c, r.step)
        /\ q.step >= Len(c) \/ Stops(c, q.step)
    BY <2>2, StopAtStops DEF Row
  <2> HIDE DEF q
  <2>4. /\ RowOK(t) /\ t.episode = q.episode /\ t.pass = q.pass
        /\ t.repeat > q.repeat \/ (t.repeat = q.repeat /\ t.step >= q.step)
    BY <2>2, <2>3, StopStepRow
  <2> HIDE DEF t
  <2>5. /\ r.repeat \in Nat /\ r.episode \in Nat /\ r.pass \in Nat
        /\ t.repeat \in Nat /\ t.episode \in Nat /\ t.pass \in Nat /\ t.step \in Nat
    BY <2>4 DEF RowOK, Row
  <2>6. NotBefore(r, t)
    BY <2>2, <2>3, <2>4, <2>5 DEF NotBefore, Below, EscalationKeys
  <2>7. ASSUME NEW k \in WalkKeys(r, c, covered)
        PROVE  k \in EscalationKeys /\ ~Below(k, r) /\ Below(k, t)
    <3>1. /\ k \in EscalationKeys
          /\ k.episode = r.episode /\ k.pass = r.pass /\ k.repeat = r.repeat
          /\ r.step =< k.step /\ k.step < StopAt(c, r.step)
      BY WalkKeysBetween
    <3>2. k.step \in Nat
      BY <3>1 DEF EscalationKeys
    <3> QED
      BY <2>2, <2>3, <2>4, <2>5, <3>1, <3>2 DEF Below
  <2> QED
    BY <2>1, <2>2, <2>4, <2>6, <2>7
<1> QED
  BY <1>1, <1>2

-----------------------------------------------------------------------------
(* The transitions of model.AlertGroup keep the row invariant and never     *)
(* move a row to an earlier position.                                       *)

(* What "not before" takes: episode, pass, repeat, then step. *)
LEMMA Forward ==
    ASSUME NEW r \in Row, NEW t \in Row,
           \/ t.episode > r.episode
           \/ t.episode = r.episode /\ t.pass > r.pass
           \/ /\ t.episode = r.episode /\ t.pass = r.pass
              /\ t.repeat = r.repeat /\ t.step = r.step
    PROVE  NotBefore(r, t)
<1>1. /\ r.episode \in Nat /\ r.pass \in Nat /\ r.repeat \in Nat /\ r.step \in Nat
      /\ t.episode \in Nat /\ t.pass \in Nat /\ t.repeat \in Nat /\ t.step \in Nat
  BY DEF Row
<1> QED
  BY <1>1 DEF NotBefore, Below, EscalationKeys

(* Acknowledge clears the timer and keeps the position. *)
LEMMA AcknowledgeRow ==
    ASSUME NEW r, RowOK(r)
    PROVE  RowOK(Acknowledge(r)) /\ NotBefore(r, Acknowledge(r))
<1>1. r \in Row
  BY DEF RowOK
<1>2. CASE r.status = "resolved"
  BY <1>1, <1>2, Forward DEF Acknowledge
<1>3. CASE r.status # "resolved"
  <2> DEFINE t == [r EXCEPT !.status = "acknowledged", !.nextRun = Never]
  <2>1. Acknowledge(r) = t
    BY <1>3 DEF Acknowledge
  <2>2. /\ t \in Row /\ t.status = "acknowledged" /\ t.nextRun = Never
        /\ t.episode = r.episode /\ t.pass = r.pass /\ t.repeat = r.repeat /\ t.step = r.step
    BY <1>1 DEF Row, Statuses, Never
  <2> HIDE DEF t
  <2> QED
    BY <1>1, <2>1, <2>2, Forward DEF RowOK
<1> QED
  BY <1>2, <1>3

(* Resolve, with its notice, clears the timer and keeps the position. *)
LEMMA ResolvedRow ==
    ASSUME NEW r, RowOK(r)
    PROVE  LET t == NotifyGroupResolved(Resolve(r)) IN RowOK(t) /\ NotBefore(r, t)
<1>1. r \in Row
  BY DEF RowOK
<1> QED
  BY <1>1, ResolveRow, Forward DEF RowOK

(* Unresolve moves to the next episode and schedules its first step. *)
LEMMA UnresolveRow ==
    ASSUME NEW r, RowOK(r), r.status = "resolved", NEW ts \in Nat
    PROVE  RowOK(Unresolve(r, ts)) /\ NotBefore(r, Unresolve(r, ts))
<1>1. r \in Row
  BY DEF RowOK
<1> DEFINE n == r.episode + 1
           t == [r EXCEPT !.status = "open", !.step = 0, !.nextRun = ts, !.halt = "running",
                          !.episode = n]
<1>2. n \in Nat /\ n > r.episode
  BY <1>1 DEF Row
<1>3. Unresolve(r, ts) = t
  BY <1>1 DEF Unresolve, StartEpisode, Row
<1> HIDE DEF n
<1>4. t \in Row /\ t.status = "open" /\ t.nextRun = ts /\ t.episode = n
  BY <1>1, <1>2 DEF Row, Statuses, Halts
<1>5. t.nextRun # Never
  BY <1>4 DEF Never
<1> HIDE DEF t
<1> QED
  BY <1>1, <1>2, <1>3, <1>4, <1>5, Forward DEF RowOK

(* Unacknowledge and EndSilence, whatever the status they start from. *)
LEMMA RestartRow ==
    ASSUME NEW r \in Row, NEW ts \in Nat
    PROVE  LET t == RestartEscalation([r EXCEPT !.status = "open"], ts)
           IN  RowOK(t) /\ NotBefore(r, t) /\ t.status = "open" /\ t.nextRun = ts
<1> DEFINE n == r.pass + 1
           t == [r EXCEPT !.status = "open", !.step = 0, !.repeat = 0, !.pass = n,
                          !.nextRun = ts, !.halt = "running"]
<1>1. n \in Nat /\ n > r.pass
  BY DEF Row
<1>2. RestartEscalation([r EXCEPT !.status = "open"], ts) = t
  BY DEF RestartEscalation, Row
<1> HIDE DEF n
<1>3. t \in Row /\ t.status = "open" /\ t.nextRun = ts /\ t.episode = r.episode /\ t.pass = n
  BY <1>1 DEF Row, Statuses, Halts
<1>4. t.nextRun # Never
  BY <1>3 DEF Never
<1> HIDE DEF t
<1> QED
  BY <1>1, <1>2, <1>3, <1>4, Forward DEF RowOK

(* Silence sets the timer to its end and keeps the position. *)
LEMMA SilenceRow ==
    ASSUME NEW r, RowOK(r), NEW until \in Nat \cup {Never}
    PROVE  RowOK(Silence(r, until)) /\ NotBefore(r, Silence(r, until))
<1>1. r \in Row
  BY DEF RowOK
<1>2. CASE r.status = "resolved"
  BY <1>1, <1>2, Forward DEF Silence
<1>3. CASE r.status # "resolved"
  <2> DEFINE t == [r EXCEPT !.status = "silenced", !.until = until, !.nextRun = until]
  <2>1. Silence(r, until) = t
    BY <1>3 DEF Silence
  <2>2. /\ t \in Row /\ t.status = "silenced" /\ t.nextRun = until /\ t.until = until
        /\ t.episode = r.episode /\ t.pass = r.pass /\ t.repeat = r.repeat /\ t.step = r.step
    BY <1>1 DEF Row, Statuses
  <2> HIDE DEF t
  <2> QED
    BY <1>1, <2>1, <2>2, Forward DEF RowOK
<1> QED
  BY <1>2, <1>3

(* NewAlertGroup and the group of a direct page. *)
LEMMA NewRow ==
    ASSUME NEW ts \in Nat
    PROVE  /\ RowOK(NewAlertGroup(ts)) /\ NewAlertGroup(ts).status = "open"
           /\ RowOK(DirectPageRow(ts))
<1>1. NewAlertGroup(ts) \in Row
  BY DEF NewAlertGroup, Row, Statuses, Halts
<1>2. NewAlertGroup(ts).status = "open" /\ NewAlertGroup(ts).nextRun = ts
  BY DEF NewAlertGroup
<1>3. DirectPageRow(ts) \in Row
  BY <1>1 DEF DirectPageRow, Row, Halts, Never
<1>4. DirectPageRow(ts).status = "open" /\ DirectPageRow(ts).halt = "complete"
  BY DEF DirectPageRow, NewAlertGroup
<1>5. ts # Never
  BY DEF Never
<1> QED
  BY <1>1, <1>2, <1>3, <1>4, <1>5 DEF RowOK

(* The fields that neither the invariant nor the position reads. *)
LEMMA CountRow ==
    ASSUME NEW r \in Row
    PROVE  LET t == IncAlertCount(r)
           IN  /\ t \in Row /\ t.status = r.status /\ (RowOK(r) => RowOK(t))
               /\ t.episode = r.episode /\ t.pass = r.pass
               /\ t.repeat = r.repeat /\ t.step = r.step
<1> DEFINE n == r.count + 1
           t == [r EXCEPT !.count = n]
<1>1. n \in Nat
  BY DEF Row
<1>2. IncAlertCount(r) = t
  BY DEF IncAlertCount
<1> HIDE DEF n
<1>3. /\ t \in Row /\ t.status = r.status /\ t.nextRun = r.nextRun /\ t.until = r.until
      /\ t.halt = r.halt
      /\ t.episode = r.episode /\ t.pass = r.pass /\ t.repeat = r.repeat /\ t.step = r.step
  BY <1>1 DEF Row
<1> HIDE DEF t
<1> QED
  BY <1>2, <1>3 DEF RowOK

(* checkEpicThreshold touches nothing the invariant reads. *)
LEMMA EpicRow ==
    ASSUME NEW r, RowOK(r), NEW ts, NEW maintenance, NEW epicUser
    PROVE  LET t == CheckEpicThreshold(r, ts, maintenance, epicUser)
           IN  /\ RowOK(t) /\ NotBefore(r, t) /\ t.episode = r.episode
               /\ \A k : Below(k, r) => Below(k, t)
<1>1. r \in Row
  BY DEF RowOK
<1> DEFINE b == r.epicSent \/ (epicUser /\ EpicReached(r, ts))
           u == [r EXCEPT !.epicSent = b]
<1>2. CheckEpicThreshold(r, ts, maintenance, epicUser) \in {r, u}
  BY DEF CheckEpicThreshold
<1>3. b \in BOOLEAN
  OBVIOUS
<1> HIDE DEF b
<1>4. /\ u \in Row /\ u.status = r.status /\ u.nextRun = r.nextRun /\ u.until = r.until
      /\ u.halt = r.halt
      /\ u.episode = r.episode /\ u.pass = r.pass /\ u.repeat = r.repeat /\ u.step = r.step
  BY <1>1, <1>3 DEF Row
<1> HIDE DEF u
<1> QED
  BY <1>1, <1>2, <1>4, Forward DEF RowOK, Below

(* The row of a new group, silenced by a maintenance window or not. *)
LEMMA OpenedRowOK ==
    ASSUME NEW ts \in Nat, NEW maintenance \in Nat \cup {Never}
    PROVE  RowOK(OpenedRow(ts, maintenance))
<1> DEFINE r == NewAlertGroup(ts)
           m == IF maintenance = Never THEN r ELSE Silence(r, maintenance)
<1>1. RowOK(m)
  BY NewRow, SilenceRow
<1>2. OpenedRow(ts, maintenance) = IncAlertCount(m)
  BY DEF OpenedRow
<1> HIDE DEF m
<1> QED
  BY <1>1, <1>2, CountRow DEF RowOK

(* The row an alert joins: reopened in the next episode, or only counted. *)
LEMMA AttachedRowOK ==
    ASSUME NEW r, RowOK(r)
    PROVE  LET t == AttachedRow(r)
           IN  /\ t \in Row /\ NotBefore(r, t)
               /\ Reopens(r) => t.status = "open" /\ t.episode > r.episode
               /\ ~Reopens(r) => RowOK(t)
<1>1. r \in Row
  BY DEF RowOK
<1>2. CASE ~Reopens(r)
  <2>1. AttachedRow(r) = IncAlertCount(r)
    BY <1>2 DEF AttachedRow
  <2> QED
    BY <1>1, <1>2, <2>1, CountRow, Forward
<1>3. CASE Reopens(r)
  <2> DEFINE n == r.episode + 1
             u == [r EXCEPT !.status = "open", !.step = 0, !.repeat = 0, !.halt = "running",
                            !.episode = n]
  <2>1. n \in Nat /\ n > r.episode
    BY <1>1 DEF Row
  <2>2. AttachedRow(r) = IncAlertCount(u)
    BY <1>1, <1>3 DEF AttachedRow, ReopenOnNewAlert, StartEpisode, Row
  <2> HIDE DEF n
  <2>3. u \in Row /\ u.status = "open" /\ u.episode = n
    BY <1>1, <2>1 DEF Row, Statuses, Halts
  <2> HIDE DEF u
  <2>4. AttachedRow(r) \in Row /\ AttachedRow(r).status = "open" /\ AttachedRow(r).episode = n
    BY <2>2, <2>3, CountRow
  <2> QED
    BY <1>1, <1>3, <2>1, <2>4, Forward
<1> QED
  BY <1>2, <1>3

-----------------------------------------------------------------------------
(* The inductive invariant.  KeysBehind is what makes NoPageSwallowed       *)
(* inductive; a row that does not exist yet has no pages, and a worker only *)
(* lists rows that exist, by a clock that is not ahead.                     *)
RowsInv ==
    /\ row \in [Groups -> Row]
    /\ pages \in [Groups -> SUBSET EscalationKeys]
    /\ swallowed \in [Groups -> SUBSET EscalationKeys]
    /\ notices \in [Groups -> SUBSET Nat]
    /\ \A g \in Groups : RowOK(row[g])
    /\ \A g \in Groups : \A k \in pages[g] : Below(k, row[g])
    /\ \A g \in Groups : swallowed[g] = {}

RestInv ==
    /\ now \in Nat
    /\ chain \in Chains \cup {<<>>}
    /\ live \in SUBSET Groups
    /\ key \in [Groups -> Keys]
    /\ worker \in [Workers -> WorkerState]
    /\ shardLock \in Workers \cup {Nobody}
    /\ crashes \in Nat
    /\ \A w \in Workers : worker[w].due \subseteq live /\ worker[w].ts =< now

UnbornInv == \A g \in Groups \ live : pages[g] = {}

IInv == RowsInv /\ RestInv /\ UnbornInv

(* The bookkeeping of a transaction, once for every action: it keeps the    *)
(* invariant if each row it saves does and its keys are new.                *)
LEMMA SaveStep ==
    ASSUME RowsInv, NEW S \in SUBSET Groups, NEW new, NEW k, Save(S, new, k),
           \A g \in S : /\ RowOK(new[g])
                        /\ k[g] \in SUBSET EscalationKeys
                        /\ \A x \in pages[g] : Below(x, new[g]) /\ x \notin k[g]
                        /\ \A x \in k[g] : Below(x, new[g])
    PROVE  RowsInv' /\ \A g \in Groups \ S : pages'[g] = pages[g]
<1>1. row' \in [Groups -> Row] /\ \A g \in Groups : RowOK(row'[g])
  BY DEF Save, RowsInv, RowOK
<1>2. pages' \in [Groups -> SUBSET EscalationKeys]
  BY DEF Save, RowsInv
<1>3. \A g \in Groups : swallowed'[g] = {}
  BY DEF Save, RowsInv
<1>4. swallowed' \in [Groups -> SUBSET EscalationKeys]
  BY <1>3 DEF Save
<1>5. notices' \in [Groups -> SUBSET Nat]
  <2>1. \A g \in S : new[g].episode \in Nat
    BY DEF RowOK, Row
  <2>2. \A g \in S : Announced(row[g], new[g]) \in SUBSET Nat
    BY <2>1 DEF Announced
  <2> QED
    BY <2>2 DEF Save, RowsInv
<1>6. \A g \in Groups : \A x \in pages'[g] : Below(x, row'[g])
  BY DEF Save, RowsInv
<1>7. \A g \in Groups \ S : pages'[g] = pages[g]
  BY DEF Save
<1> QED
  BY <1>1, <1>2, <1>3, <1>4, <1>5, <1>6, <1>7 DEF RowsInv

(* A transaction that inserts no page and moves no row backwards. *)
LEMMA SaveAllStep ==
    ASSUME IInv, NEW S \in SUBSET Groups, NEW new, SaveAll(S, new),
           \A g \in S : RowOK(new[g]) /\ NotBefore(row[g], new[g])
    PROVE  IInv'
<1> DEFINE k == [h \in Groups |-> {}]
<1>1. Save(S, new, k) /\ Untouched
  BY DEF SaveAll
<1>2. \A g \in S : k[g] = {} /\ \A x \in pages[g] : Below(x, new[g])
  BY DEF IInv, RowsInv, NotBefore
<1> HIDE DEF k
<1>3. RowsInv' /\ \A g \in Groups \ S : pages'[g] = pages[g]
  BY <1>1, <1>2, SaveStep DEF IInv
<1>4. \A g \in S : pages'[g] = pages[g]
  BY <1>1, <1>2 DEF Save, IInv, RowsInv
<1> QED
  BY <1>1, <1>3, <1>4 DEF IInv, RestInv, UnbornInv, Untouched

(* A transaction that saves one row and inserts the pages ks. *)
LEMMA SaveRowStep ==
    ASSUME RowsInv, NEW g \in Groups, NEW r, NEW ks, SaveRow(g, r, ks),
           RowOK(r), ks \in SUBSET EscalationKeys,
           \A x \in pages[g] : Below(x, r) /\ x \notin ks,
           \A x \in ks : Below(x, r)
    PROVE  RowsInv' /\ \A h \in Groups \ {g} : pages'[h] = pages[h]
<1> DEFINE new == [h \in Groups |-> r]
           k == [h \in Groups |-> ks]
<1>1. Save({g}, new, k) /\ new[g] = r /\ k[g] = ks
  BY DEF SaveRow
<1> HIDE DEF new, k
<1> QED
  BY <1>1, SaveStep

-----------------------------------------------------------------------------
(* The stored chain, or the empty one that stands for a deleted one. *)
LEMMA ChainType ==
    ASSUME NEW c \in Chains \cup {<<>>}
    PROVE  c \in Seq(Step)
<1>1. CASE c \in Chains
  BY <1>1, EscalationAssumption
<1>2. CASE c = <<>>
  BY <1>2
<1> QED
  BY <1>1, <1>2

(* ingestOneLocked creating a group keeps the invariant. *)
LEMMA IngestOpensStep ==
    ASSUME IInv, NEW g \in Groups, NEW k \in Keys, NEW m \in Nat \cup {Never},
           NEW covered \in BOOLEAN, NEW epicUser \in BOOLEAN,
           IngestOpens(g, k, m, covered, epicUser)
    PROVE  IInv'
<1> DEFINE r == OpenedRow(now, m)
           a == AdvanceGroup(r, chain, now, covered)
           e == CheckEpicThreshold(a, now, m, epicUser)
           ks == AdvanceKeys(r, chain, covered)
<1>1. g \notin live /\ SaveRow(g, e, ks) /\ live' = live \cup {g} /\ key' = [key EXCEPT ![g] = k]
      /\ UNCHANGED <<now, chain, worker, shardLock, crashes>>
  BY DEF IngestOpens
<1>2. now \in Nat /\ chain \in Seq(Step)
  BY ChainType DEF IInv, RestInv
<1>3. RowOK(r) /\ r \in Row
  BY <1>2, OpenedRowOK DEF RowOK
<1> HIDE DEF r
<1>4. RowOK(a) /\ \A x \in ks : x \in EscalationKeys /\ Below(x, a)
  BY <1>2, <1>3, AdvanceRow
<1> HIDE DEF a, ks
<1>5. RowOK(e) /\ \A x \in ks : Below(x, e)
  BY <1>4, EpicRow
<1> HIDE DEF e
<1>6. pages[g] = {}
  BY <1>1 DEF IInv, UnbornInv
<1>7. RowsInv' /\ \A h \in Groups \ {g} : pages'[h] = pages[h]
  BY <1>1, <1>4, <1>5, <1>6, SaveRowStep DEF IInv
<1> QED
  BY <1>1, <1>7 DEF IInv, RestInv, UnbornInv

(* ingestOneLocked attaching to a group keeps the invariant: a reopened     *)
(* group walks its chain in the new episode, where no key is taken.         *)
LEMMA IngestAttachesStep ==
    ASSUME IInv, NEW g \in Groups, NEW k \in Keys, NEW m \in Nat \cup {Never},
           NEW covered \in BOOLEAN, NEW epicUser \in BOOLEAN,
           IngestAttaches(g, k, m, covered, epicUser)
    PROVE  IInv'
<1> DEFINE r == AttachedRow(row[g])
           a == IF Reopens(row[g]) THEN AdvanceGroup(r, chain, now, covered) ELSE r
           e == CheckEpicThreshold(a, now, m, epicUser)
           ks == IF Reopens(row[g]) THEN AdvanceKeys(r, chain, covered) ELSE {}
<1>1. g \in live /\ SaveRow(g, e, ks)
      /\ UNCHANGED <<now, chain, live, key, worker, shardLock, crashes>>
  BY DEF IngestAttaches, Matches
<1>2. now \in Nat /\ chain \in Seq(Step) /\ RowOK(row[g])
  BY ChainType DEF IInv, RestInv, RowsInv
<1>3. /\ r \in Row /\ NotBefore(row[g], r)
      /\ Reopens(row[g]) => r.status = "open"
      /\ ~Reopens(row[g]) => RowOK(r)
  BY <1>2, AttachedRowOK
<1> HIDE DEF r
<1>4. RowOK(a) /\ NotBefore(r, a)
  <2>1. CASE Reopens(row[g])
    BY <1>2, <1>3, <2>1, AdvanceRow
  <2>2. CASE ~Reopens(row[g])
    BY <1>3, <2>2 DEF NotBefore
  <2> QED
    BY <2>1, <2>2
<1>5. \A x \in ks : x \in EscalationKeys /\ ~Below(x, r) /\ Below(x, a)
  BY <1>2, <1>3, AdvanceRow
<1> HIDE DEF a, ks
<1>6. RowOK(e) /\ \A x : Below(x, a) => Below(x, e)
  BY <1>4, EpicRow
<1> HIDE DEF e
<1>7. \A x \in pages[g] : Below(x, r) /\ Below(x, a)
  BY <1>3, <1>4 DEF IInv, RowsInv, NotBefore
<1>8. RowsInv' /\ \A h \in Groups \ {g} : pages'[h] = pages[h]
  BY <1>1, <1>5, <1>6, <1>7, SaveRowStep DEF IInv
<1> QED
  BY <1>1, <1>8 DEF IInv, RestInv, UnbornInv

(* advanceEscalationShard keeps the invariant, however stale the list, the  *)
(* clock and the chain that the worker took before its transaction.         *)
LEMMA AdvanceShardStep ==
    ASSUME IInv, NEW w \in Workers, NEW covered \in BOOLEAN, AdvanceShard(w, covered)
    PROVE  IInv'
<1> DEFINE me == worker[w]
           woken(g) == Woken(row[g], me.ts)
           S == {g \in me.due : Ready(woken(g), me.ts)}
           new == [g \in Groups |-> AdvanceGroup(woken(g), Chain(g, me.chain), me.ts, covered)]
           k == [g \in Groups |-> AdvanceKeys(woken(g), Chain(g, me.chain), covered)]
<1>1. /\ Save(S, new, k) /\ worker' = [worker EXCEPT ![w] = Idle] /\ shardLock' = Nobody
      /\ UNCHANGED <<now, chain, live, key, crashes>>
  BY DEF AdvanceShard
<1>2. /\ me.ts \in Nat /\ me.chain \in Seq(Step) /\ me.due \subseteq live /\ live \subseteq Groups
  BY ChainType DEF IInv, RestInv, WorkerState
<1>3. S \in SUBSET Groups /\ S \subseteq live
  BY <1>2
<1>4. ASSUME NEW g \in S
      PROVE  /\ RowOK(new[g]) /\ k[g] \in SUBSET EscalationKeys
             /\ \A x \in pages[g] : Below(x, new[g]) /\ x \notin k[g]
             /\ \A x \in k[g] : Below(x, new[g])
  <2> DEFINE v == woken(g)
             c == Chain(g, me.chain)
             t == AdvanceGroup(v, c, me.ts, covered)
             ks == AdvanceKeys(v, c, covered)
  <2>1. g \in Groups /\ new[g] = t /\ k[g] = ks
    BY <1>3
  <2>2. RowOK(row[g])
    BY <2>1 DEF IInv, RowsInv
  <2>3. RowOK(v) /\ NotBefore(row[g], v)
    <3>1. row[g] \in Row
      BY <2>2 DEF RowOK
    <3>2. CASE SilenceExpired(row[g], me.ts)
      BY <1>2, <3>1, <3>2, RestartRow DEF Woken, EndSilence
    <3>3. CASE ~SilenceExpired(row[g], me.ts)
      BY <2>2, <3>3 DEF Woken, NotBefore
    <3> QED
      BY <3>2, <3>3
  <2>4. c \in Seq(Step)
    BY <1>2 DEF Chain
  <2> HIDE DEF v, c
  <2>a. v \in Row
    BY <2>3 DEF RowOK
  <2>5. /\ RowOK(t) /\ NotBefore(v, t)
        /\ \A x \in ks : x \in EscalationKeys /\ ~Below(x, v) /\ Below(x, t)
    BY <1>2, <2>3, <2>4, <2>a, AdvanceRow
  <2> HIDE DEF t, ks
  <2>6. \A x \in pages[g] : Below(x, v) /\ Below(x, t)
    BY <2>1, <2>3, <2>5 DEF IInv, RowsInv, NotBefore
  <2> HIDE DEF new, k
  <2> QED
    BY <2>1, <2>5, <2>6
<1> HIDE DEF S, new, k
<1>5. RowsInv' /\ \A g \in Groups \ S : pages'[g] = pages[g]
  BY <1>1, <1>3, <1>4, SaveStep DEF IInv
<1>6. RestInv'
  BY <1>1 DEF IInv, RestInv, WorkerState, Idle
<1> QED
  BY <1>1, <1>3, <1>5, <1>6 DEF IInv, UnbornInv

-----------------------------------------------------------------------------
(* The operators' and the resolving alert's transitions keep the invariant. *)
LEMMA OperateStep ==
    ASSUME IInv, Operate
    PROVE  IInv'
<1>1. /\ now \in Nat /\ live \subseteq Groups
      /\ \A g \in Groups : RowOK(row[g])
  BY DEF IInv, RestInv, RowsInv
<1>2. \A u \in Ends \cup {Never} : u \in Nat \cup {Never}
  BY <1>1, EscalationAssumption DEF Ends
<1> DEFINE acked == [h \in Groups |-> Acknowledge(row[h])]
           resolved == [h \in Groups |-> NotifyGroupResolved(Resolve(row[h]))]
           unresolved == [h \in Groups |-> Unresolve(row[h], now)]
           unacked == [h \in Groups |-> Unacknowledge(row[h], now)]
           silenced(u) == [h \in Groups |-> Silence(row[h], u)]
<1>3. \A g \in Groups : RowOK(acked[g]) /\ NotBefore(row[g], acked[g])
  BY <1>1, AcknowledgeRow
<1>4. \A g \in Groups : RowOK(resolved[g]) /\ NotBefore(row[g], resolved[g])
  BY <1>1, ResolvedRow
<1>5. \A g \in Groups : RowOK(unresolved[g]) /\ NotBefore(row[g], unresolved[g])
  <2> SUFFICES ASSUME NEW g \in Groups
               PROVE  LET t == Unresolve(row[g], now) IN RowOK(t) /\ NotBefore(row[g], t)
    OBVIOUS
  <2>1. CASE row[g].status = "resolved"
    BY <1>1, <2>1, UnresolveRow
  <2>2. CASE row[g].status # "resolved"
    BY <1>1, <2>2 DEF Unresolve, NotBefore
  <2> QED
    BY <2>1, <2>2
<1>6. \A g \in Groups : RowOK(unacked[g]) /\ NotBefore(row[g], unacked[g])
  <2> SUFFICES ASSUME NEW g \in Groups
               PROVE  LET t == Unacknowledge(row[g], now) IN RowOK(t) /\ NotBefore(row[g], t)
    OBVIOUS
  <2>1. CASE row[g].status = "acknowledged"
    BY <1>1, <2>1, RestartRow DEF Unacknowledge, RowOK
  <2>2. CASE row[g].status # "acknowledged"
    BY <1>1, <2>2 DEF Unacknowledge, NotBefore
  <2> QED
    BY <2>1, <2>2
<1>7. ASSUME NEW u \in Ends \cup {Never}
      PROVE  \A g \in Groups : RowOK(silenced(u)[g]) /\ NotBefore(row[g], silenced(u)[g])
  BY <1>1, <1>2, SilenceRow
<1>8. ASSUME NEW g \in Groups, AcknowledgeGroup(g) PROVE IInv'
  <2>1. SaveAll({g}, acked)
    BY <1>8 DEF AcknowledgeGroup
  <2> HIDE DEF acked
  <2> QED
    BY <1>3, <2>1, SaveAllStep
<1>9. ASSUME NEW g \in Groups, ResolveGroup(g) PROVE IInv'
  <2>1. SaveAll({g}, resolved)
    BY <1>9 DEF ResolveGroup
  <2> HIDE DEF resolved
  <2> QED
    BY <1>4, <2>1, SaveAllStep
<1>10. ASSUME NEW g \in Groups, UnresolveGroup(g) PROVE IInv'
  <2>1. SaveAll({g}, unresolved)
    BY <1>10 DEF UnresolveGroup
  <2> HIDE DEF unresolved
  <2> QED
    BY <1>5, <2>1, SaveAllStep
<1>11. ASSUME NEW g \in Groups, UnacknowledgeGroup(g) PROVE IInv'
  <2>1. SaveAll({g}, unacked)
    BY <1>11 DEF UnacknowledgeGroup
  <2> HIDE DEF unacked
  <2> QED
    BY <1>6, <2>1, SaveAllStep
<1>12. ASSUME NEW g \in Groups, NEW u \in Ends \cup {Never}, SilenceGroup(g, u) PROVE IInv'
  <2>1. SaveAll({g}, silenced(u))
    BY <1>12 DEF SilenceGroup
  <2>2. \A h \in Groups : RowOK(silenced(u)[h]) /\ NotBefore(row[h], silenced(u)[h])
    BY <1>7
  <2> HIDE DEF silenced
  <2> QED
    BY <2>1, <2>2, SaveAllStep
<1>13. ASSUME NEW S \in SUBSET live, BulkAcknowledgeGroups(S) PROVE IInv'
  <2> DEFINE T == {g \in S : row[g].status \notin {"resolved", "acknowledged"}}
  <2>1. SaveAll(T, acked)
    BY <1>13 DEF BulkAcknowledgeGroups
  <2>2. T \in SUBSET Groups
    BY <1>1
  <2> HIDE DEF acked, T
  <2> QED
    BY <1>3, <2>1, <2>2, SaveAllStep
<1>14. ASSUME NEW S \in SUBSET live, BulkResolveGroups(S) PROVE IInv'
  <2> DEFINE T == {g \in S : row[g].status # "resolved"}
  <2>1. SaveAll(T, resolved)
    BY <1>14 DEF BulkResolveGroups
  <2>2. T \in SUBSET Groups
    BY <1>1
  <2> HIDE DEF resolved, T
  <2> QED
    BY <1>4, <2>1, <2>2, SaveAllStep
<1>15. ASSUME NEW S \in SUBSET live, NEW u \in Ends \cup {Never}, BulkSilenceGroups(S, u)
       PROVE  IInv'
  <2> DEFINE T == {g \in S : row[g].status # "resolved"}
  <2>1. SaveAll(T, silenced(u))
    BY <1>15 DEF BulkSilenceGroups
  <2>2. T \in SUBSET Groups
    BY <1>1
  <2>3. \A h \in Groups : RowOK(silenced(u)[h]) /\ NotBefore(row[h], silenced(u)[h])
    BY <1>7
  <2> HIDE DEF silenced, T
  <2> QED
    BY <2>1, <2>2, <2>3, SaveAllStep
<1> QED
  BY <1>8, <1>9, <1>10, <1>11, <1>12, <1>13, <1>14, <1>15 DEF Operate

(* Ingest keeps the invariant. *)
LEMMA IngestStep ==
    ASSUME IInv, Ingest
    PROVE  IInv'
<1>1. now \in Nat /\ live \subseteq Groups
  BY DEF IInv, RestInv
<1>2. \A m \in Ends \cup {Never} : m \in Nat \cup {Never}
  BY <1>1, EscalationAssumption DEF Ends
<1>3. ASSUME NEW g \in Groups, NEW k \in Keys, IngestResolves(g, k) PROVE IInv'
  <2> DEFINE resolved == [h \in Groups |-> NotifyGroupResolved(Resolve(row[h]))]
  <2>1. SaveAll({g}, resolved)
    BY <1>3 DEF IngestResolves, SaveAll, SaveRow, Save, Untouched
  <2>2. RowOK(resolved[g]) /\ NotBefore(row[g], resolved[g])
    BY ResolvedRow DEF IInv, RowsInv
  <2> HIDE DEF resolved
  <2> QED
    BY <2>1, <2>2, SaveAllStep
<1>4. ASSUME NEW g \in Groups, CreateDirectPageGroup(g) PROVE IInv'
  <2> DEFINE r == DirectPageRow(now)
  <2>1. /\ g \notin live /\ row' = [row EXCEPT ![g] = r] /\ live' = live \cup {g}
        /\ UNCHANGED <<now, chain, key, pages, swallowed, notices, worker, shardLock, crashes>>
    BY <1>4 DEF CreateDirectPageGroup
  <2>2. RowOK(r)
    BY <1>1, NewRow
  <2> HIDE DEF r
  <2>3. r \in Row /\ pages[g] = {}
    BY <2>1, <2>2 DEF RowOK, IInv, UnbornInv
  <2>4. RowsInv'
    BY <2>1, <2>2, <2>3 DEF IInv, RowsInv
  <2> QED
    BY <2>1, <2>4 DEF IInv, RestInv, UnbornInv
<1>5. ASSUME NEW g \in Groups, NEW k \in Keys, NEW m \in Ends \cup {Never},
             NEW covered \in BOOLEAN, NEW epicUser \in BOOLEAN,
             IngestOpens(g, k, m, covered, epicUser)
      PROVE  IInv'
  BY <1>2, <1>5, IngestOpensStep
<1>6. ASSUME NEW g \in Groups, NEW k \in Keys, NEW m \in Ends \cup {Never},
             NEW covered \in BOOLEAN, NEW epicUser \in BOOLEAN,
             IngestAttaches(g, k, m, covered, epicUser)
      PROVE  IInv'
  BY <1>2, <1>6, IngestAttachesStep
<1> QED
  BY <1>3, <1>4, <1>5, <1>6 DEF Ingest

(* A step that replaces the state of one worker and at most passes the      *)
(* shard lock on.                                                           *)
LEMMA WorkerStep ==
    ASSUME RestInv, NEW w \in Workers, NEW x \in WorkerState,
           x.due \subseteq live, x.ts =< now, worker' = [worker EXCEPT ![w] = x],
           UNCHANGED <<now, chain, live, key>>,
           shardLock' \in Workers \cup {Nobody}, crashes' \in Nat
    PROVE  RestInv'
<1>1. worker' \in [Workers -> WorkerState]
  BY DEF RestInv
<1>2. \A v \in Workers : worker'[v] = worker[v] \/ worker'[v] = x
  BY DEF RestInv
<1>3. \A v \in Workers : worker'[v].due \subseteq live' /\ worker'[v].ts =< now'
  BY <1>2 DEF RestInv
<1> QED
  BY <1>1, <1>3 DEF RestInv

(* The worker, the chain's editor and the clock keep the invariant. *)
LEMMA OtherStep ==
    ASSUME IInv,
           \/ \E w \in Workers : ListDue(w) \/ TryShard(w) \/ WorkerCrash(w)
           \/ \E c \in Chains \cup {<<>>} : UpdateEscalationChain(c)
           \/ Tick
           \/ UNCHANGED vars
    PROVE  IInv'
<1>1. UNCHANGED <<row, pages, swallowed, notices, live>>
  BY DEF ListDue, TryShard, WorkerCrash, UpdateEscalationChain, Tick, vars
<1>2. RowsInv' /\ UnbornInv'
  BY <1>1 DEF IInv, RowsInv, UnbornInv
<1>3. RestInv /\ Idle \in WorkerState /\ Idle.due \subseteq live /\ Idle.ts =< now
  BY DEF IInv, RestInv, WorkerState, Idle
<1>4. ASSUME NEW w \in Workers, ListDue(w) PROVE RestInv'
  <2> DEFINE due == {g \in live : Due(g, now) /\ row[g].status # "resolved"}
             me == [pc |-> "listed", ts |-> now, due |-> due, chain |-> chain]
  <2>1. worker' = [worker EXCEPT ![w] = me] /\ UNCHANGED <<now, chain, live, key, shardLock, crashes>>
    BY <1>4 DEF ListDue
  <2>2. due \subseteq live
    OBVIOUS
  <2> HIDE DEF due
  <2>3. me \in WorkerState /\ me.due \subseteq live /\ me.ts =< now
    BY <1>3, <2>2 DEF WorkerState, RestInv
  <2> HIDE DEF me
  <2>4. shardLock' \in Workers \cup {Nobody} /\ crashes' \in Nat
    BY <1>3, <2>1 DEF RestInv
  <2> QED
    BY <1>3, <2>1, <2>3, <2>4, WorkerStep
<1>5. ASSUME NEW w \in Workers, TryShard(w) PROVE RestInv'
  <2> DEFINE me == [worker[w] EXCEPT !.pc = "locked"]
  <2>1. /\ \/ worker' = [worker EXCEPT ![w] = me]
           \/ worker' = [worker EXCEPT ![w] = Idle]
        /\ shardLock' \in {shardLock, w} /\ UNCHANGED <<now, chain, live, key, crashes>>
    BY <1>5 DEF TryShard
  <2>2. worker[w] \in WorkerState /\ worker[w].due \subseteq live /\ worker[w].ts =< now
    BY <1>3 DEF RestInv
  <2>3. me \in WorkerState /\ me.due \subseteq live /\ me.ts =< now
    BY <2>2 DEF WorkerState
  <2> HIDE DEF me
  <2>4. shardLock' \in Workers \cup {Nobody} /\ crashes' \in Nat
    BY <1>3, <2>1 DEF RestInv
  <2> QED
    BY <1>3, <2>1, <2>3, <2>4, WorkerStep
<1>6. ASSUME NEW w \in Workers, WorkerCrash(w) PROVE RestInv'
  <2>1. /\ worker' = [worker EXCEPT ![w] = Idle] /\ UNCHANGED <<now, chain, live, key>>
        /\ shardLock' \in {shardLock, Nobody} /\ crashes' = crashes + 1
    BY <1>6 DEF WorkerCrash
  <2>2. shardLock' \in Workers \cup {Nobody} /\ crashes' \in Nat
    BY <1>3, <2>1 DEF RestInv
  <2> QED
    BY <1>3, <2>1, <2>2, WorkerStep
<1>7. ASSUME NEW c \in Chains \cup {<<>>}, UpdateEscalationChain(c) PROVE RestInv'
  BY <1>3, <1>7 DEF UpdateEscalationChain, RestInv
<1>8. ASSUME Tick PROVE RestInv'
  <2>1. now' = now + 1 /\ UNCHANGED <<chain, live, key, worker, shardLock, crashes>>
    BY <1>8 DEF Tick
  <2>2. \A w \in Workers : worker[w].ts \in Nat
    BY <1>3 DEF RestInv, WorkerState
  <2> QED
    BY <1>3, <2>1, <2>2 DEF RestInv
<1>9. ASSUME UNCHANGED vars PROVE RestInv'
  BY <1>3, <1>9 DEF vars, RestInv
<1> QED
  BY <1>2, <1>4, <1>5, <1>6, <1>7, <1>8, <1>9 DEF IInv

(* The invariant holds of the empty database. *)
LEMMA InitIInv ==
    ASSUME Init
    PROVE  IInv
<1>1. RowOK(NewAlertGroup(0)) /\ NewAlertGroup(0) \in Row
  BY NewRow DEF RowOK
<1>2. RowsInv
  BY <1>1 DEF Init, RowsInv
<1>3. RestInv
  BY DEF Init, RestInv, WorkerState, Idle
<1> QED
  BY <1>2, <1>3 DEF Init, IInv, UnbornInv

(* Every transaction keeps the invariant. *)
LEMMA NextIInv ==
    ASSUME IInv, [Next]_vars
    PROVE  IInv'
BY IngestStep, OperateStep, AdvanceShardStep, OtherStep DEF Next, Work

(* What the invariant says in the terms of the checked properties. *)
LEMMA IInvProperties ==
    ASSUME IInv
    PROVE  TypeOK /\ NoPageSwallowed /\ KeysBehind /\ TimerMatchesStatus /\ OpenGroupIsScheduled
BY DEF IInv, RowsInv, RestInv, RowOK, TypeOK, NoPageSwallowed, KeysBehind, TimerMatchesStatus,
       OpenGroupIsScheduled

(* The inductive invariant holds in every reachable state. *)
LEMMA SpecIInv == Spec => []IInv
BY InitIInv, NextIInv, PTL DEF Spec

-----------------------------------------------------------------------------
(* Rows, worker states and keys keep their shape, for any chains, clocks    *)
(* and numbers of groups and replicas: in particular no REPEAT step moves   *)
(* current_step below zero.                                                 *)
THEOREM TypeCorrect == Spec => []TypeOK
<1>1. IInv => TypeOK
  BY IInvProperties
<1> QED
  BY <1>1, SpecIInv, PTL

(* The idempotency key of a page is new whenever the chain is walked: no    *)
(* REPEAT, restarted pass or reopened episode loses a page to the key of    *)
(* an earlier one.                                                          *)
THEOREM PagesAreNeverSwallowed == Spec => []NoPageSwallowed
<1>1. IInv => NoPageSwallowed
  BY IInvProperties
<1> QED
  BY <1>1, SpecIInv, PTL

(* Every stored page was keyed strictly before the group's position. *)
THEOREM KeysStayBehind == Spec => []KeysBehind
<1>1. IInv => KeysBehind
  BY IInvProperties
<1> QED
  BY <1>1, SpecIInv, PTL

(* next_run_at agrees with the status of every stored group. *)
THEOREM TimersMatch == Spec => []TimerMatchesStatus
<1>1. IInv => TimerMatchesStatus
  BY IInvProperties
<1> QED
  BY <1>1, SpecIInv, PTL

(* An open group without a timer is one whose escalation reported its end. *)
THEOREM OpenGroupsAreScheduled == Spec => []OpenGroupIsScheduled
<1>1. IInv => OpenGroupIsScheduled
  BY IInvProperties
<1> QED
  BY <1>1, SpecIInv, PTL

-----------------------------------------------------------------------------
(* One transaction stores pages only for a group it opens, for one it       *)
(* reopens, or for one whose timer is due.                                  *)
PagedDue(g) ==
    pages'[g] # pages[g] =>
        \/ g \notin live
        \/ Reopens(row[g]) /\ row'[g].episode > row[g].episode
        \/ row[g].status \in {"open", "silenced"} /\ Due(g, now)

(* Ingest pages for a group it opens, or for an acknowledged one that it    *)
(* moves to its next episode.                                               *)
LEMMA IngestPaged ==
    ASSUME IInv, Ingest, NEW g \in Groups
    PROVE  PagedDue(g)
<1> SUFFICES ASSUME pages'[g] # pages[g], g \in live
             PROVE  Reopens(row[g]) /\ row'[g].episode > row[g].episode
  BY DEF PagedDue
<1>0. pages \in [Groups -> SUBSET EscalationKeys] /\ now \in Nat /\ chain \in Seq(Step) /\ RowOK(row[g])
  BY ChainType DEF IInv, RowsInv, RestInv
<1>1. ASSUME NEW h \in Groups, NEW r, NEW k, SaveRow(h, r, k)
      PROVE  h = g /\ k # {} /\ row'[g] = r
  BY <1>0, <1>1 DEF SaveRow, Save
<1>2. ASSUME NEW h \in Groups, NEW k \in Keys, NEW m \in Ends \cup {Never},
             NEW covered \in BOOLEAN, NEW epicUser \in BOOLEAN,
             IngestOpens(h, k, m, covered, epicUser)
      PROVE  FALSE
  BY <1>1, <1>2 DEF IngestOpens
<1>3. ASSUME NEW h \in Groups, NEW k \in Keys, IngestResolves(h, k)
      PROVE  FALSE
  BY <1>1, <1>3 DEF IngestResolves
<1>4. ASSUME NEW h \in Groups, CreateDirectPageGroup(h)
      PROVE  FALSE
  BY <1>4 DEF CreateDirectPageGroup
<1>5. ASSUME NEW h \in Groups, NEW k \in Keys, NEW m \in Ends \cup {Never},
             NEW covered \in BOOLEAN, NEW epicUser \in BOOLEAN,
             IngestAttaches(h, k, m, covered, epicUser)
      PROVE  Reopens(row[g]) /\ row'[g].episode > row[g].episode
  <2> DEFINE r == AttachedRow(row[h])
             b == AdvanceGroup(r, chain, now, covered)
             a == IF Reopens(row[h]) THEN b ELSE r
             e == CheckEpicThreshold(a, now, m, epicUser)
             ks == IF Reopens(row[h]) THEN AdvanceKeys(r, chain, covered) ELSE {}
  <2>1. SaveRow(h, e, ks)
    BY <1>5 DEF IngestAttaches
  <2>2. h = g /\ row'[g] = e /\ Reopens(row[g])
    BY <2>1, <1>1
  <2>3. r \in Row /\ r.status = "open" /\ r.episode > row[g].episode
    BY <1>0, <2>2, AttachedRowOK
  <2> HIDE DEF r
  <2>4. RowOK(b) /\ b.episode = r.episode
    BY <1>0, <2>3, AdvanceRow
  <2>5. a = b
    BY <2>2
  <2> HIDE DEF a, b
  <2> QED
    BY <2>2, <2>3, <2>4, <2>5, EpicRow
<1> QED
  BY <1>2, <1>3, <1>4, <1>5 DEF Ingest

(* The shard's transaction pages for a listed row that it still finds due,  *)
(* by a clock that was read earlier.                                        *)
LEMMA AdvanceShardPaged ==
    ASSUME IInv, NEW w \in Workers, NEW covered \in BOOLEAN, AdvanceShard(w, covered),
           NEW g \in Groups
    PROVE  PagedDue(g)
<1> DEFINE me == worker[w]
           woken(h) == Woken(row[h], me.ts)
           S == {h \in me.due : Ready(woken(h), me.ts)}
<1>1. pages'[g] # pages[g] => g \in S
  BY DEF AdvanceShard, Save
<1>2. /\ me.ts \in Nat /\ now \in Nat /\ me.ts =< now
      /\ RowOK(row[g])
  BY DEF IInv, RestInv, RowsInv, WorkerState
<1>3. row[g].nextRun \in Nat \cup {Never} /\ row[g].until \in Nat \cup {Never}
  BY <1>2 DEF RowOK, Row
<1>4. ASSUME Ready(woken(g), me.ts)
      PROVE  row[g].status \in {"open", "silenced"} /\ Due(g, now)
  <2>1. CASE SilenceExpired(row[g], me.ts)
    <3>1. row[g].status = "silenced" /\ row[g].until # Never /\ row[g].until =< me.ts
      BY <2>1 DEF SilenceExpired
    <3>2. row[g].nextRun = row[g].until
      BY <1>2, <3>1 DEF RowOK
    <3> QED
      BY <1>2, <1>3, <3>1, <3>2 DEF Due
  <2>2. CASE ~SilenceExpired(row[g], me.ts)
    <3>1. row[g].status = "open" /\ row[g].nextRun # Never /\ row[g].nextRun =< me.ts
      BY <1>4, <2>2 DEF Woken, Ready
    <3> QED
      BY <1>2, <1>3, <3>1 DEF Due
  <2> QED
    BY <2>1, <2>2
<1> QED
  BY <1>1, <1>4 DEF PagedDue

(* No other transaction pages. *)
LEMMA OthersPageNobody ==
    ASSUME IInv, NEW g \in Groups,
           \/ Operate
           \/ \E w \in Workers : ListDue(w) \/ TryShard(w) \/ WorkerCrash(w)
           \/ \E c \in Chains \cup {<<>>} : UpdateEscalationChain(c)
           \/ Tick
           \/ UNCHANGED vars
    PROVE  PagedDue(g)
<1>1. ASSUME NEW S, NEW new, SaveAll(S, new) PROVE pages'[g] = pages[g]
  BY <1>1 DEF SaveAll, Save, IInv, RowsInv
<1>2. Operate => pages'[g] = pages[g]
  BY <1>1 DEF Operate, AcknowledgeGroup, ResolveGroup, UnresolveGroup, UnacknowledgeGroup,
              SilenceGroup, BulkAcknowledgeGroups, BulkResolveGroups, BulkSilenceGroups
<1> QED
  BY <1>2 DEF ListDue, TryShard, WorkerCrash, UpdateEscalationChain, Tick, vars, PagedDue

(* Nobody is paged early, or after an answer: a repeat firing never walks   *)
(* the chain, and a worker whose list is stale finds out under the lock.    *)
THEOREM PagesOnlyWhenDue == Spec => PagedOnlyWhenDue
<1> DEFINE A == \A g \in Groups : PagedDue(g)
<1>1. IInv /\ [Next]_vars => A
  BY IngestPaged, AdvanceShardPaged, OthersPageNobody DEF Next, Work
<1>2. A => \A g \in Groups : pages'[g] # pages[g] =>
                 \/ g \notin live
                 \/ Reopens(row[g]) /\ row'[g].episode > row[g].episode
                 \/ row[g].status \in {"open", "silenced"} /\ Due(g, now)
  BY DEF PagedDue
<1> HIDE DEF A
<1> QED
  BY <1>1, <1>2, SpecIInv, PTL DEF Spec, PagedOnlyWhenDue

=============================================================================
