-------------------------- MODULE IngestGateProofs --------------------------
(***************************************************************************)
(* The promises of the ingest gate, for every number of ingests,           *)
(* integrations, holders and waiters.                                      *)
(***************************************************************************)
EXTENDS IngestGate, FiniteSetTheorems, TLAPS

-----------------------------------------------------------------------------
(* The inductive invariant.  The promises are about the ingests of a key,  *)
(* the code counts in a slot it reaches through a pointer.  What ties the  *)
(* two together: whoever is inside points to the slot the map has for its  *)
(* key, two keys never share a slot, a slot in the map has a user, and its *)
(* counters are the numbers of those inside and of the free places.        *)

Pointers == \A i \in Ingests : IF pc[i] = "out" THEN ref[i] = None
                               ELSE ref[i] = slots[key[i]] /\ ref[i] # None

Unshared == \A k, l \in Keys : slots[k] = slots[l] /\ slots[k] # None => k = l

Counted(k) == slots[k] # None =>
    /\ Inside(k) # {}
    /\ users[slots[k]] = Cardinality(Inside(k))
    /\ users[slots[k]] <= Holders + MaxWaiting
    /\ tokens[slots[k]] + Cardinality(Holding(k)) = Holders

IInv == TypeOK /\ Pointers /\ Unshared /\ \A k \in Keys : Counted(k)

-----------------------------------------------------------------------------
(* Those inside and those holding are finitely many. *)
LEMMA FiniteInside ==
    \A k \in Keys : /\ IsFiniteSet(Inside(k)) /\ IsFiniteSet(Holding(k))
                    /\ Cardinality(Inside(k)) \in Nat /\ Cardinality(Holding(k)) \in Nat
<1> TAKE k \in Keys
<1>1. Inside(k) \subseteq Ingests /\ Holding(k) \subseteq Ingests
  BY DEF Inside, Holding
<1> QED BY <1>1, GateAssumption, FS_Subset, FS_CardinalityType

(* Adding an ingest that is not in a set counts one more. *)
LEMMA OneMore ==
    ASSUME NEW S, IsFiniteSet(S), NEW x, x \notin S
    PROVE  Cardinality(S \cup {x}) = Cardinality(S) + 1
BY FS_AddElement

(* Removing an ingest that is in a set counts one less. *)
LEMMA OneLess ==
    ASSUME NEW S, IsFiniteSet(S), NEW x, x \in S
    PROVE  Cardinality(S \ {x}) = Cardinality(S) - 1
BY FS_RemoveElement

(* Initially nobody is inside and no integration has a slot. *)
LEMMA InitInv == Init => IInv
BY GateAssumption DEF Init, IInv, TypeOK, PCs, Pointers, Unshared, Counted

(* enter for an integration without a slot: the new slot has one user and   *)
(* all its places.                                                          *)
LEMMA EnterNewInv ==
    ASSUME IInv, NEW i \in Ingests, NEW k \in Keys, NEW s \in Slots, EnterNew(i, k, s)
    PROVE  IInv'
<1> USE DEF IInv
<1>1. TypeOK'
  BY GateAssumption DEF TypeOK, EnterNew, PCs
<1>2. \A j \in Ingests : pc[j] # "out" => key[j] # k
  BY DEF Pointers, EnterNew
<1>3. Pointers'
  BY <1>2, GateAssumption DEF Pointers, EnterNew, TypeOK
<1>4. Unshared'
  BY DEF Unshared, EnterNew, TypeOK, Fresh
<1>5. ASSUME NEW l \in Keys PROVE Counted(l)'
  <2>1. CASE l = k
    <3>1. Inside(l)' = {i}
      BY <1>2, <2>1 DEF Inside, EnterNew, TypeOK
    <3>2. Holding(l)' = {}
      BY <1>2, <2>1 DEF Holding, EnterNew, TypeOK
    <3>3. Cardinality(Inside(l)') = 1 /\ Cardinality(Holding(l)') = 0
      BY <3>1, <3>2, FS_Singleton, FS_EmptySet
    <3>4. slots'[l] = s /\ users'[s] = 1 /\ tokens'[s] = Holders
      BY <2>1 DEF EnterNew, TypeOK
    <3> QED BY <3>1, <3>3, <3>4, GateAssumption DEF Counted
  <2>2. CASE l # k
    <3>1. Inside(l)' = Inside(l) /\ Holding(l)' = Holding(l)
      BY <2>2 DEF Inside, Holding, EnterNew, TypeOK
    <3>2. slots'[l] = slots[l] /\ slots[l] # s
      BY <2>2 DEF EnterNew, TypeOK, Fresh
    <3>3. slots[l] # None => users'[slots[l]] = users[slots[l]] /\ tokens'[slots[l]] = tokens[slots[l]]
      BY <3>2 DEF EnterNew, TypeOK
    <3> QED BY <3>1, <3>2, <3>3 DEF Counted
  <2> QED BY <2>1, <2>2
<1> QED BY <1>1, <1>3, <1>4, <1>5

(* enter for an integration that has a slot with room. *)
LEMMA EnterInv ==
    ASSUME IInv, NEW i \in Ingests, NEW k \in Keys, Enter(i, k)
    PROVE  IInv'
<1> USE DEF IInv
<1>1. TypeOK'
  BY DEF TypeOK, Enter, PCs
<1>2. Pointers'
  BY DEF Pointers, Enter, TypeOK
<1>3. Unshared'
  BY DEF Unshared, Enter
<1>4. ASSUME NEW l \in Keys PROVE Counted(l)'
  <2>1. CASE l = k
    <3>1. Inside(l)' = Inside(l) \cup {i} /\ i \notin Inside(l)
      BY <2>1 DEF Inside, Enter, TypeOK
    <3>2. Holding(l)' = Holding(l)
      BY <2>1 DEF Holding, Enter, TypeOK
    <3>3. Cardinality(Inside(l)') = Cardinality(Inside(l)) + 1
      BY <3>1, FiniteInside, OneMore
    <3>4. slots'[l] = slots[l] /\ users'[slots[l]] = users[slots[l]] + 1
          /\ tokens'[slots[l]] = tokens[slots[l]]
      BY <2>1 DEF Enter, TypeOK
    <3>5. users[slots[l]] < Holders + MaxWaiting /\ users[slots[l]] \in Int
      BY <2>1 DEF Enter, TypeOK
    <3> QED BY <3>1, <3>2, <3>3, <3>4, <3>5, FiniteInside, GateAssumption DEF Counted
  <2>2. CASE l # k
    <3>1. Inside(l)' = Inside(l) /\ Holding(l)' = Holding(l)
      BY <2>2 DEF Inside, Holding, Enter, TypeOK
    <3>2. slots'[l] = slots[l] /\ (slots[l] # None => slots[l] # slots[k])
      BY <2>2 DEF Enter, Unshared
    <3>3. slots[l] # None => users'[slots[l]] = users[slots[l]] /\ tokens'[slots[l]] = tokens[slots[l]]
      BY <3>2 DEF Enter, TypeOK
    <3> QED BY <3>1, <3>2, <3>3 DEF Counted
  <2> QED BY <2>1, <2>2
<1> QED BY <1>1, <1>2, <1>3, <1>4

(* Steps that keep the map, the pointers and the keys, and take nobody in   *)
(* or out, keep the pointers right and the counts of those inside.          *)
LEMMA MoveInv ==
    ASSUME IInv, NEW i \in Ingests, pc[i] # "out", NEW p \in PCs \ {"out"},
           pc' = [pc EXCEPT ![i] = p], UNCHANGED <<slots, users, key, ref>>
    PROVE  Pointers' /\ Unshared' /\ \A l \in Keys : Inside(l)' = Inside(l)
<1>1. Pointers'
  BY DEF IInv, Pointers, TypeOK
<1>2. Unshared'
  BY DEF IInv, Unshared
<1>3. \A l \in Keys : Inside(l)' = Inside(l)
  BY DEF IInv, Inside, TypeOK
<1> QED BY <1>1, <1>2, <1>3

(* An ingest takes a free place. *)
LEMMA TakeInv ==
    ASSUME IInv, NEW i \in Ingests, Take(i)
    PROVE  IInv'
<1>1. pc[i] # "out" /\ pc[i] # "hold" /\ ref[i] = slots[key[i]] /\ ref[i] \in Slots /\ key[i] \in Keys
  BY DEF IInv, Pointers, Take, TypeOK
<1>2. TypeOK'
  BY <1>1 DEF IInv, TypeOK, Take, PCs
<1>3. Pointers' /\ Unshared' /\ \A l \in Keys : Inside(l)' = Inside(l)
  <2>1. "hold" \in PCs \ {"out"}
    BY DEF PCs
  <2> QED BY <1>1, <2>1, MoveInv DEF Take
<1>4. ASSUME NEW l \in Keys PROVE Counted(l)'
  <2>1. CASE l = key[i]
    <3>1. Holding(l)' = Holding(l) \cup {i} /\ i \notin Holding(l)
      BY <1>1, <2>1 DEF Holding, Take, IInv, TypeOK
    <3>2. Cardinality(Holding(l)') = Cardinality(Holding(l)) + 1
      BY <3>1, FiniteInside, OneMore
    <3>3. slots'[l] = slots[l] /\ users' = users /\ tokens'[slots[l]] = tokens[slots[l]] - 1
          /\ tokens[slots[l]] \in Nat
      BY <1>1, <2>1 DEF Take, IInv, TypeOK
    <3>4. Counted(l)
      BY DEF IInv
    <3> QED BY <1>3, <3>2, <3>3, <3>4, FiniteInside, GateAssumption DEF Counted
  <2>2. CASE l # key[i]
    <3>1. Holding(l)' = Holding(l)
      BY <2>2 DEF Holding, Take, IInv, TypeOK
    <3>2. slots' = slots /\ users' = users /\ (slots[l] # None => slots[l] # ref[i])
      BY <1>1, <2>2 DEF Take, IInv, Unshared
    <3>3. slots[l] # None => tokens'[slots[l]] = tokens[slots[l]]
      BY <3>2 DEF Take, IInv, TypeOK
    <3>4. Counted(l)
      BY DEF IInv
    <3> QED BY <1>3, <3>1, <3>2, <3>3, <3>4 DEF Counted
  <2> QED BY <2>1, <2>2
<1> QED BY <1>2, <1>3, <1>4 DEF IInv

(* An ingest starts to wait, or gives up waiting: no place changes hands.   *)
LEMMA WaitInv ==
    ASSUME IInv, NEW i \in Ingests, Wait(i) \/ GiveUp(i)
    PROVE  IInv'
<1>1. PICK p \in {"wait", "leave"} :
         pc' = [pc EXCEPT ![i] = p] /\ pc[i] \in {"try", "wait"}
         /\ UNCHANGED <<slots, tokens, users, key, ref>>
  BY DEF Wait, GiveUp
<1>2. TypeOK'
  BY <1>1 DEF IInv, TypeOK, PCs
<1>3. Pointers' /\ Unshared' /\ \A l \in Keys : Inside(l)' = Inside(l)
  <2>1. p \in PCs \ {"out"} /\ pc[i] # "out"
    BY <1>1 DEF PCs
  <2> QED BY <1>1, <2>1, MoveInv
<1>4. \A l \in Keys : Holding(l)' = Holding(l)
  BY <1>1 DEF Holding, IInv, TypeOK
<1>5. \A l \in Keys : Counted(l)'
  BY <1>1, <1>3, <1>4 DEF IInv, Counted
<1> QED BY <1>2, <1>3, <1>5 DEF IInv

(* The first half of release gives the place back. *)
LEMMA ReturnTokenInv ==
    ASSUME IInv, NEW i \in Ingests, ReturnToken(i)
    PROVE  IInv'
<1>1. pc[i] = "hold" /\ ref[i] = slots[key[i]] /\ ref[i] \in Slots /\ key[i] \in Keys
  BY DEF IInv, Pointers, ReturnToken, TypeOK
<1>2. TypeOK'
  BY <1>1 DEF IInv, TypeOK, ReturnToken, PCs
<1>3. Pointers' /\ Unshared' /\ \A l \in Keys : Inside(l)' = Inside(l)
  <2>1. "leave" \in PCs \ {"out"}
    BY DEF PCs
  <2> QED BY <1>1, <2>1, MoveInv DEF ReturnToken
<1>4. ASSUME NEW l \in Keys PROVE Counted(l)'
  <2>1. CASE l = key[i]
    <3>1. Holding(l)' = Holding(l) \ {i} /\ i \in Holding(l)
      BY <1>1, <2>1 DEF Holding, ReturnToken, IInv, TypeOK
    <3>2. Cardinality(Holding(l)') = Cardinality(Holding(l)) - 1
      BY <3>1, FiniteInside, OneLess
    <3>3. slots'[l] = slots[l] /\ users' = users /\ tokens'[slots[l]] = tokens[slots[l]] + 1
          /\ tokens[slots[l]] \in Nat
      BY <1>1, <2>1 DEF ReturnToken, IInv, TypeOK
    <3>4. Counted(l)
      BY DEF IInv
    <3> QED BY <1>3, <3>2, <3>3, <3>4, FiniteInside, GateAssumption DEF Counted
  <2>2. CASE l # key[i]
    <3>1. Holding(l)' = Holding(l)
      BY <2>2 DEF Holding, ReturnToken, IInv, TypeOK
    <3>2. slots' = slots /\ users' = users /\ (slots[l] # None => slots[l] # ref[i])
      BY <1>1, <2>2 DEF ReturnToken, IInv, Unshared
    <3>3. slots[l] # None => tokens'[slots[l]] = tokens[slots[l]]
      BY <3>2 DEF ReturnToken, IInv, TypeOK
    <3>4. Counted(l)
      BY DEF IInv
    <3> QED BY <1>3, <3>1, <3>2, <3>3, <3>4 DEF Counted
  <2> QED BY <2>1, <2>2
<1> QED BY <1>2, <1>3, <1>4 DEF IInv

(* leave: the last user takes the slot of its key out of the map, and that  *)
(* slot is its own.                                                         *)
LEMMA LeaveInv ==
    ASSUME IInv, NEW i \in Ingests, Leave(i)
    PROVE  IInv'
<1> DEFINE k == key[i]
<1>1. pc[i] = "leave" /\ ref[i] = slots[k] /\ ref[i] \in Slots /\ k \in Keys
  BY DEF IInv, Pointers, Leave, TypeOK
<1>2. TypeOK'
  BY <1>1 DEF IInv, TypeOK, Leave, PCs
<1>3. Inside(k)' = Inside(k) \ {i} /\ i \in Inside(k)
  BY <1>1 DEF Inside, Leave, IInv, TypeOK
<1>4. Cardinality(Inside(k)') = Cardinality(Inside(k)) - 1
  BY <1>1, <1>3, FiniteInside, OneLess
<1>5. users[slots[k]] = Cardinality(Inside(k)) /\ users'[slots[k]] = users[slots[k]] - 1
  <2>1. slots[k] # None /\ Counted(k)
    BY <1>1, GateAssumption DEF IInv
  <2>2. users'[slots[k]] = users[slots[k]] - 1
    BY <1>1 DEF IInv, Leave, TypeOK
  <2> QED BY <2>1, <2>2 DEF Counted
<1>6. users[slots[k]] = 1 <=> Inside(k)' = {}
  <2>1. IsFiniteSet(Inside(k)')
    BY <1>1, <1>3, FiniteInside, FS_RemoveElement
  <2>2. Cardinality(Inside(k)') = 0 <=> Inside(k)' = {}
    BY <2>1, FS_EmptySet
  <2> QED BY <1>1, <1>4, <1>5, <2>2, FiniteInside
<1>7. \A l \in Keys : l # k => slots'[l] = slots[l]
  BY <1>1 DEF Leave, IInv, TypeOK
<1>8. slots'[k] = IF Inside(k)' = {} THEN None ELSE slots[k]
  BY <1>1, <1>6 DEF Leave, IInv, TypeOK
<1>9. ASSUME NEW j \in Ingests
      PROVE  IF pc'[j] = "out" THEN ref'[j] = None ELSE ref'[j] = slots'[key'[j]] /\ ref'[j] # None
  <2>1. CASE j = i
    BY <2>1 DEF Leave, IInv, TypeOK
  <2>2. CASE j # i /\ pc[j] = "out"
    BY <2>2 DEF Leave, IInv, TypeOK, Pointers
  <2>3. CASE j # i /\ pc[j] # "out"
    <3>1. pc'[j] = pc[j] /\ ref'[j] = ref[j] /\ key'[j] = key[j] /\ key[j] \in Keys
      BY <2>3 DEF Leave, IInv, TypeOK
    <3>2. ref[j] = slots[key[j]] /\ ref[j] # None
      BY <2>3 DEF IInv, Pointers
    <3>3. key[j] = k => Inside(k)' # {}
      BY <2>3, <3>1 DEF Inside, Leave
    <3>4. slots'[key[j]] = slots[key[j]]
      BY <1>7, <1>8, <3>1, <3>3
    <3> QED BY <2>3, <3>1, <3>2, <3>4
  <2> QED BY <2>1, <2>2, <2>3
<1>10. Pointers'
  BY <1>9 DEF Pointers
<1>11. Unshared'
  BY <1>1, <1>7, <1>8 DEF IInv, Unshared
<1>12. ASSUME NEW l \in Keys PROVE Counted(l)'
  <2>0. Counted(l)
    BY DEF IInv
  <2>1. Holding(l)' = Holding(l)
    BY <1>1 DEF Holding, Leave, IInv, TypeOK
  <2>2. CASE l = k
    <3>1. CASE Inside(k)' = {}
      BY <1>8, <2>2, <3>1 DEF Counted
    <3>2. CASE Inside(k)' # {}
      BY <1>1, <1>4, <1>5, <1>8, <2>0, <2>1, <2>2, <3>2, FiniteInside, GateAssumption DEF Counted, Leave
    <3> QED BY <3>1, <3>2
  <2>3. CASE l # k
    <3>1. Inside(l)' = Inside(l)
      BY <2>3 DEF Inside, Leave, IInv, TypeOK
    <3>2. slots'[l] = slots[l] /\ (slots[l] # None => slots[l] # ref[i])
      BY <1>1, <1>7, <2>3 DEF IInv, Unshared
    <3>3. slots[l] # None => users'[slots[l]] = users[slots[l]] /\ tokens' = tokens
      BY <3>2 DEF Leave, IInv, TypeOK
    <3> QED BY <2>0, <2>1, <3>1, <3>2, <3>3 DEF Counted
  <2> QED BY <2>2, <2>3
<1> QED BY <1>2, <1>10, <1>11, <1>12 DEF IInv

(* The invariant is inductive. *)
LEMMA Inductive == Spec => []IInv
<1>1. IInv /\ [Next]_vars => IInv'
  <2> SUFFICES ASSUME IInv, [Next]_vars PROVE IInv'
    OBVIOUS
  <2>1. CASE UNCHANGED vars
    <3>1. \A k \in Keys : Inside(k)' = Inside(k) /\ Holding(k)' = Holding(k)
      BY <2>1 DEF Inside, Holding, vars
    <3> QED BY <2>1, <3>1 DEF IInv, TypeOK, Pointers, Unshared, Counted, vars
  <2>2. CASE Next
    <3> PICK i \in Ingests : \/ \E k \in Keys, s \in Slots : EnterNew(i, k, s)
                             \/ \E k \in Keys : Enter(i, k)
                             \/ Step(i)
                             \/ GiveUp(i)
      BY <2>2 DEF Next
    <3>1. CASE \E k \in Keys, s \in Slots : EnterNew(i, k, s)
      BY <3>1, EnterNewInv
    <3>2. CASE \E k \in Keys : Enter(i, k)
      BY <3>2, EnterInv
    <3>3. CASE Step(i)
      BY <3>3, TakeInv, WaitInv, ReturnTokenInv, LeaveInv DEF Step
    <3>4. CASE GiveUp(i)
      BY <3>4, WaitInv
    <3> QED BY <3>1, <3>2, <3>3, <3>4
  <2> QED BY <2>1, <2>2
<1> QED BY <1>1, InitInv, PTL DEF Spec

-----------------------------------------------------------------------------
(* The map, the slots and the goroutines keep their shape. *)
THEOREM GateTypeCorrect == Spec => []TypeOK
<1>1. IInv => TypeOK
  BY DEF IInv
<1> QED BY <1>1, Inductive, PTL

(* However many ingests storm one integration, no more than Holders of them *)
(* are at the database.                                                     *)
THEOREM GateHolds == Spec => []AtMostHolders
<1>1. IInv => AtMostHolders
  <2> SUFFICES ASSUME IInv, NEW k \in Keys PROVE Cardinality(Holding(k)) <= Holders
    BY DEF AtMostHolders
  <2>1. CASE slots[k] = None
    <3>1. Holding(k) = {}
      BY <2>1 DEF IInv, Pointers, Holding
    <3> QED BY <3>1, FS_EmptySet, GateAssumption
  <2>2. CASE slots[k] # None
    <3>1. tokens[slots[k]] \in Nat /\ tokens[slots[k]] + Cardinality(Holding(k)) = Holders
      BY <2>2 DEF IInv, TypeOK, Counted
    <3> QED BY <3>1, FiniteInside, GateAssumption
  <2> QED BY <2>1, <2>2
<1> QED BY <1>1, Inductive, PTL

(* The queue of an integration is bounded. *)
THEOREM QueueIsBounded == Spec => []BoundedQueue
<1>1. IInv => BoundedQueue
  <2> SUFFICES ASSUME IInv, NEW k \in Keys PROVE Cardinality(Inside(k)) <= Holders + MaxWaiting
    BY DEF BoundedQueue
  <2>1. CASE slots[k] = None
    <3>1. Inside(k) = {}
      BY <2>1 DEF IInv, Pointers, Inside
    <3> QED BY <3>1, FS_EmptySet, GateAssumption
  <2>2. CASE slots[k] # None
    BY <2>2 DEF IInv, Counted
  <2> QED BY <2>1, <2>2
<1> QED BY <1>1, Inductive, PTL

(* A slot is in the map exactly while one of the integration's ingests is   *)
(* inside, and all of them share it.                                        *)
THEOREM SlotsLiveWithUsers == Spec => []SlotLivesWithUsers
<1>1. IInv => SlotLivesWithUsers
  <2> SUFFICES ASSUME IInv, NEW k \in Keys
               PROVE  /\ slots[k] = None <=> Inside(k) = {}
                      /\ \A i \in Inside(k) : ref[i] = slots[k]
    BY DEF SlotLivesWithUsers
  <2>1. \A i \in Inside(k) : ref[i] = slots[k] /\ ref[i] # None
    BY DEF IInv, Pointers, Inside
  <2>2. slots[k] # None => Inside(k) # {}
    BY DEF IInv, Counted
  <2> QED BY <2>1, <2>2
<1> QED BY <1>1, Inductive, PTL

(* The token channel has room for the token of whoever holds a place. *)
THEOREM ReleaseIsNeverBlocked == Spec => []ReleaseNeverBlocks
<1>1. IInv => ReleaseNeverBlocks
  <2> SUFFICES ASSUME IInv, NEW i \in Ingests, pc[i] = "hold" PROVE tokens[ref[i]] < Holders
    BY DEF ReleaseNeverBlocks
  <2>1. key[i] \in Keys /\ ref[i] = slots[key[i]] /\ ref[i] \in Slots /\ slots[key[i]] # None
    BY DEF IInv, Pointers, TypeOK
  <2>2. i \in Holding(key[i])
    BY DEF Holding
  <2>3. Cardinality(Holding(key[i])) # 0
    BY <2>1, <2>2, FiniteInside, FS_EmptySet
  <2>4. tokens[ref[i]] \in Nat /\ tokens[ref[i]] + Cardinality(Holding(key[i])) = Holders
    BY <2>1 DEF IInv, Counted, TypeOK
  <2> QED BY <2>1, <2>3, <2>4, FiniteInside, GateAssumption
<1> QED BY <1>1, Inductive, PTL

=============================================================================
