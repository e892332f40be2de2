---------------------------- MODULE MCEscalation ----------------------------
(* Instances of Escalation for TLC. *)
EXTENDS Escalation, TLC

Plain(k) == [kind |-> k, delay |-> 0, from |-> 0, max |-> 0]
Wait(d) == [Plain("WAIT") EXCEPT !.delay = d]
Repeat(f, m, d) == [Plain("REPEAT") EXCEPT !.from = f, !.max = m, !.delay = d]

(* Page, wait, page again, repeat once. *)
RepeatChain == <<Plain("NOTIFY"), Wait(1), Plain("TRIGGER_WEBHOOK"), Repeat(0, 1, 1)>>

(* Page and close unattended. *)
ResolveChain == <<Plain("NOTIFY"), Wait(1), Plain("CREATE_ISSUE"), Plain("RESOLVE")>>

MCChains == {RepeatChain, ResolveChain}
OneChain == {RepeatChain}

Symmetry == Permutations(Workers)
AllSymmetry == Permutations(Workers) \cup Permutations(Groups)

=============================================================================
