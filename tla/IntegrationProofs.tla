-------------------------- MODULE IntegrationProofs -------------------------
(***************************************************************************)
(* The ledger and the counters of the integration registry are exact, for  *)
(* any instances, operations and limits: the counting argument on top of   *)
(* the inductive invariant and of how one step moves them.                 *)
(***************************************************************************)
EXTENDS IntegrationInvariant, FiniteSetTheorems

Charges == {i \in Instances : phase[i].account \/ settling[i] = "taken"}
Slots == {o \in Ops : HoldsSlot(o)}
Guards(i) == {o \in Ops : InstanceOf[o] = i /\ HoldsGuard(o)}
Limited(i) == {o \in limit : InstanceOf[o] = i}

\* One element more, one element less.
LEMMA OneIn ==
    ASSUME NEW S, IsFiniteSet(S), NEW x, x \notin S, NEW T, T = S \cup {x}
    PROVE  Cardinality(S) \in Nat /\ Cardinality(T) = Cardinality(S) + 1
    BY FS_AddElement, FS_CardinalityType

\* And one that leaves.
LEMMA OneOut ==
    ASSUME NEW S, IsFiniteSet(S), NEW x \in S, NEW T, T = S \ {x}
    PROVE  /\ Cardinality(S) \in Nat /\ Cardinality(S) # 0
           /\ Cardinality(T) = Cardinality(S) - 1 /\ Cardinality(T) \in Nat
<1>1. Cardinality(S) \in Nat /\ Cardinality(S) # 0
    BY FS_CardinalityType, FS_EmptySet
<1>2. IsFiniteSet(T) /\ Cardinality(T) = Cardinality(S) - 1
    BY FS_RemoveElement
<1>3. Cardinality(T) \in Nat
    BY <1>2, FS_CardinalityType
<1> QED
    BY <1>1, <1>2, <1>3

\* Everything counted is finite.
LEMMA AllFinite ==
    ASSUME Typed
    PROVE  /\ IsFiniteSet(Charges) /\ IsFiniteSet(Slots) /\ IsFiniteSet(retained)
           /\ \A i \in Instances : IsFiniteSet(Guards(i)) /\ IsFiniteSet(Limited(i))
<1>1. IsFiniteSet(Instances) /\ IsFiniteSet(Ops)
    BY IntegrationAssumption
<1>2. Charges \in SUBSET Instances /\ Slots \in SUBSET Ops
    BY DEF Charges, Slots
<1>3. \A i \in Instances : Guards(i) \in SUBSET Ops /\ Limited(i) \in SUBSET Ops
    BY DEF Guards, Limited, Typed, OpTyped
<1>4. IsFiniteSet(Ops \cup Instances)
    BY <1>1, FS_Union, Zenon
<1>5. retained \in SUBSET (Ops \cup Instances)
    BY DEF Typed, LedgerTyped
<1>6. IsFiniteSet(retained)
    BY <1>4, <1>5, FS_Subset
<1> QED
    BY <1>1, <1>2, <1>3, <1>6, FS_Subset

\* The sets after a step.
LEMMA SetsFollow ==
    /\ SameCharges => Charges' = Charges
    /\ SameSlots => Slots' = Slots
    /\ \A i \in Instances : /\ ChargeOf(i, TRUE) => i \notin Charges /\ Charges' = Charges \cup {i}
                            /\ ChargeOf(i, FALSE) => i \in Charges /\ Charges' = Charges \ {i}
    /\ \A o \in Ops : /\ SlotOf(o, TRUE) => o \notin Slots /\ Slots' = Slots \cup {o}
                      /\ SlotOf(o, FALSE) => o \in Slots /\ Slots' = Slots \ {o}
<1>1. SameCharges => Charges' = Charges
    BY DEF SameCharges, Charges, Charged
<1>2. SameSlots => Slots' = Slots
    BY DEF SameSlots, Slots
<1>3. ASSUME NEW i \in Instances, ChargeOf(i, TRUE) PROVE i \notin Charges /\ Charges' = Charges \cup {i}
    BY <1>3 DEF ChargeOf, Charges, Charged
<1>4. ASSUME NEW i \in Instances, ChargeOf(i, FALSE) PROVE i \in Charges /\ Charges' = Charges \ {i}
    BY <1>4 DEF ChargeOf, Charges, Charged
<1>5. ASSUME NEW o \in Ops, SlotOf(o, TRUE) PROVE o \notin Slots /\ Slots' = Slots \cup {o}
    BY <1>5, Zenon DEF SlotOf, Slots
<1>6. ASSUME NEW o \in Ops, SlotOf(o, FALSE) PROVE o \in Slots /\ Slots' = Slots \ {o}
    BY <1>6, Zenon DEF SlotOf, Slots
<1> QED
    BY <1>1, <1>2, <1>3, <1>4, <1>5, <1>6, Zenon

\* One reservation per charge and per slot, before and after.
LEMMA Balance ==
    ASSUME Typed
    PROVE  /\ Cardinality(Charges) \in Nat /\ Cardinality(Slots) \in Nat /\ Cardinality(retained) \in Nat
           /\ OneMore(TRUE) => Cardinality(Charges') + Cardinality(Slots')
                               = Cardinality(Charges) + Cardinality(Slots) + 1
           /\ OneMore(FALSE) => /\ Cardinality(Charges) + Cardinality(Slots) # 0
                                /\ Cardinality(Charges') + Cardinality(Slots')
                                   = Cardinality(Charges) + Cardinality(Slots) - 1
<1>1. IsFiniteSet(Charges) /\ IsFiniteSet(Slots) /\ IsFiniteSet(retained)
    BY AllFinite
<1>2. Cardinality(Charges) \in Nat /\ Cardinality(Slots) \in Nat /\ Cardinality(retained) \in Nat
    BY <1>1, FS_CardinalityType
<1> DEFINE Grown == Cardinality(Charges') + Cardinality(Slots')
                    = Cardinality(Charges) + Cardinality(Slots) + 1
           Shrunk == /\ Cardinality(Charges) + Cardinality(Slots) # 0
                     /\ Cardinality(Charges') + Cardinality(Slots')
                        = Cardinality(Charges) + Cardinality(Slots) - 1
<1>3. ASSUME NEW i \in Instances, ChargeOf(i, TRUE), SameSlots PROVE Grown
  <2>1. Slots' = Slots /\ i \notin Charges /\ Charges' = Charges \cup {i}
      BY <1>3, SetsFollow, Zenon
  <2>2. Cardinality(Charges') = Cardinality(Charges) + 1
      BY <1>1, <2>1, OneIn
  <2> QED
      BY <1>2, <2>1, <2>2
<1>4. ASSUME NEW o \in Ops, SlotOf(o, TRUE), SameCharges PROVE Grown
  <2>1. Charges' = Charges /\ o \notin Slots /\ Slots' = Slots \cup {o}
      BY <1>4, SetsFollow, Zenon
  <2>2. Cardinality(Slots') = Cardinality(Slots) + 1
      BY <1>1, <2>1, OneIn
  <2> QED
      BY <1>2, <2>1, <2>2
<1>5. ASSUME NEW i \in Instances, ChargeOf(i, FALSE), SameSlots PROVE Shrunk
  <2>1. Slots' = Slots /\ i \in Charges /\ Charges' = Charges \ {i}
      BY <1>5, SetsFollow, Zenon
  <2>2. Cardinality(Charges) # 0 /\ Cardinality(Charges') = Cardinality(Charges) - 1
      BY <1>1, <2>1, OneOut
  <2> QED
      BY <1>2, <2>1, <2>2
<1>6. ASSUME NEW o \in Ops, SlotOf(o, FALSE), SameCharges PROVE Shrunk
  <2>1. Charges' = Charges /\ o \in Slots /\ Slots' = Slots \ {o}
      BY <1>6, SetsFollow, Zenon
  <2>2. Cardinality(Slots) # 0 /\ Cardinality(Slots') = Cardinality(Slots) - 1
      BY <1>1, <2>1, OneOut
  <2> QED
      BY <1>2, <2>1, <2>2
<1> QED
    BY <1>2, <1>3, <1>4, <1>5, <1>6, Zenon DEF OneMore

\* The ledger's equation in these terms.
LEMMA LedgerIs == LedgerExact <=> reserved = Cardinality(Charges) + Cardinality(Slots)
    BY DEF LedgerExact, Charges, Slots

\* A reservation was there to be released, so retaining never needs new room.
LEMMA StepKeepsLedger ==
    ASSUME IntegrationInductive, LedgerExact, BudgetHeld, Next
    PROVE  LedgerExact' /\ BudgetHeld'
<1>1. Typed /\ reserved \in Nat /\ Budget \in Nat
    BY IntegrationAssumption DEF IntegrationInductive, Typed, LedgerTyped
<1>2. reserved = Cardinality(Charges) + Cardinality(Slots)
    BY LedgerIs
<1>3. LedgerExact' <=> reserved' = Cardinality(Charges') + Cardinality(Slots')
    BY DEF LedgerExact, Charges, Slots
<1>4. CASE Reserves
  <2>1. Cardinality(Charges') + Cardinality(Slots') = Cardinality(Charges) + Cardinality(Slots) + 1
      BY <1>1, <1>4, Balance DEF Reserves
  <2>2. Cardinality(retained) \in Nat
      BY <1>1, Balance
  <2>3. reserved + Cardinality(retained) < Budget /\ reserved' = reserved + 1 /\ retained' = retained
      BY <1>4 DEF Reserves, HasRoom
  <2> QED
      BY <1>1, <1>2, <1>3, <2>1, <2>2, <2>3 DEF BudgetHeld
<1>5. CASE Releases
  <2>1. /\ reserved # 0
        /\ Cardinality(Charges') + Cardinality(Slots') = Cardinality(Charges) + Cardinality(Slots) - 1
      BY <1>1, <1>2, <1>5, Balance DEF Releases
  <2>2. reserved' = reserved - 1
      BY <1>5, <2>1 DEF Releases, Less
  <2>3. IsFiniteSet(retained) /\ Cardinality(retained) \in Nat
      BY <1>1, Balance, AllFinite
  <2>4. Cardinality(retained') \in {Cardinality(retained), Cardinality(retained) + 1}
    <3>1. CASE retained' = retained
        BY <3>1
    <3>2. ASSUME NEW x, retained' = retained \cup {x}
          PROVE  Cardinality(retained') \in {Cardinality(retained), Cardinality(retained) + 1}
        BY <2>3, <3>2, FS_AddElement
    <3> QED
        BY <1>5, <3>1, <3>2 DEF Releases
  <2>5. reserved' = Cardinality(Charges') + Cardinality(Slots')
    <3>1. Cardinality(Charges) \in Nat /\ Cardinality(Slots) \in Nat
        BY <1>1, Balance
    <3> QED
        BY <1>2, <2>1, <2>2, <3>1
  <2>6. reserved' + Cardinality(retained') <= Budget
    <3>1. reserved + Cardinality(retained) <= Budget
        BY DEF BudgetHeld
    <3> QED
        BY <1>1, <2>1, <2>2, <2>3, <2>4, <3>1
  <2> QED
      BY <1>3, <2>5, <2>6, Zenon DEF BudgetHeld
<1>6. CASE Keeps
  <2>1. Charges' = Charges /\ Slots' = Slots /\ reserved' = reserved
      BY <1>6, SetsFollow DEF Keeps
  <2>2. IsFiniteSet(retained) /\ Cardinality(retained) \in Nat
      BY <1>1, Balance, AllFinite
  <2>3. IsFiniteSet(retained') /\ Cardinality(retained') <= Cardinality(retained)
      BY <1>6, <2>2, FS_Subset DEF Keeps
  <2>4. Cardinality(retained') \in Nat
      BY <2>3, FS_CardinalityType
  <2> QED
      BY <1>1, <1>2, <1>3, <2>1, <2>2, <2>3, <2>4 DEF BudgetHeld
<1> QED
    BY <1>4, <1>5, <1>6, LedgerMoves

-----------------------------------------------------------------------------
(* The counters of one entry.                                              *)

Counts(i) ==
    /\ phase[i].inFlight = Cardinality(Guards(i))
    /\ phase[i].running = Cardinality(Limited(i)) /\ phase[i].running <= OperationLimit

\* limit holds only operations whose guard is alive.
LEMMA CountersAre ==
    ASSUME IntegrationInductive PROVE CountersExact <=> \A i \in Instances : Counts(i)
<1>1. \A i \in Instances : limit \cap {o \in Ops : InstanceOf[o] = i} \subseteq Guards(i)
    BY DEF IntegrationInductive, Courses, Course, Guards, HoldsGuard
<1> QED
    BY <1>1, Zenon DEF CountersExact, Counts, Guards, Limited

\* A step keeps one entry's counters exact.
LEMMA StepKeepsCounts ==
    ASSUME IntegrationInductive, Next, NEW i \in Instances, Counts(i) PROVE Counts(i)'
<1>1. IsFiniteSet(Guards(i)) /\ IsFiniteSet(Limited(i))
    BY AllFinite DEF IntegrationInductive
<1>2. Cardinality(Guards(i)) \in Nat /\ Cardinality(Limited(i)) \in Nat
    BY <1>1, FS_CardinalityType
<1>3. OperationLimit \in Nat
    BY IntegrationAssumption
<1>4. limit \subseteq Ops /\ \A o \in limit : HoldsGuard(o)
    BY DEF IntegrationInductive, Typed, OpTyped, Courses, Course, HoldsGuard
<1>5. ASSUME phase'[i].inFlight = phase[i].inFlight, phase'[i].running = phase[i].running,
             Guards(i)' = Guards(i), Limited(i)' = Limited(i)
      PROVE  Counts(i)'
    BY <1>5 DEF Counts
<1>6. CASE KeepsCounters
  <2>1. Guards(i)' = Guards(i) /\ Limited(i)' = Limited(i)
      BY <1>6 DEF KeepsCounters, SameGuards, Guards, Limited
  <2> QED
      BY <1>5, <1>6, <2>1 DEF KeepsCounters, KeepsCounts
<1>7. ASSUME NEW o \in Ops, InstanceOf[o] # i, CountsIn(o) \/ FreesLimit(o) \/ CountsOut(o)
      PROVE  Counts(i)'
  <2>0. \E a, b : CountsBecome(InstanceOf[o], a, b)
      BY <1>7, Zenon DEF CountsIn, FreesLimit, CountsOut
  <2>1. phase'[i].inFlight = phase[i].inFlight /\ phase'[i].running = phase[i].running
      BY <1>7, <2>0, Zenon DEF CountsBecome
  <2>2. Guards(i)' = Guards(i)
    <3>1. \A p \in Ops : p # o => (HoldsGuard(p)' <=> HoldsGuard(p))
        BY <1>7, Zenon DEF CountsIn, FreesLimit, CountsOut, GuardOf, SameGuards
    <3> QED
        BY <1>7, <3>1 DEF Guards
  <2>3. Limited(i)' = Limited(i)
    <3>1. limit' = limit \cup {o} \/ limit' = limit \ {o}
        BY <1>7, Zenon DEF CountsIn, FreesLimit, CountsOut
    <3> QED
        BY <1>7, <3>1 DEF Limited
  <2> QED
      BY <1>5, <2>1, <2>2, <2>3
<1>8. ASSUME NEW o \in Ops, InstanceOf[o] = i, CountsIn(o) PROVE Counts(i)'
  <2>1. o \notin Guards(i) /\ Guards(i)' = Guards(i) \cup {o}
      BY <1>8, Zenon DEF CountsIn, GuardOf, Guards
  <2>2. o \notin Limited(i) /\ Limited(i)' = Limited(i) \cup {o}
      BY <1>8 DEF CountsIn, Limited
  <2>3. /\ Cardinality(Guards(i)') = Cardinality(Guards(i)) + 1
        /\ Cardinality(Limited(i)') = Cardinality(Limited(i)) + 1
      BY <1>1, <2>1, <2>2, OneIn
  <2>4. /\ phase'[i].inFlight = phase[i].inFlight + 1 /\ phase'[i].running = phase[i].running + 1
        /\ phase[i].running < OperationLimit
      BY <1>8 DEF CountsIn, CountsBecome
  <2> QED
      BY <1>2, <1>3, <2>3, <2>4 DEF Counts
<1>9. ASSUME NEW o \in Ops, InstanceOf[o] = i, FreesLimit(o) PROVE Counts(i)'
  <2>1. Guards(i)' = Guards(i)
      BY <1>9 DEF FreesLimit, SameGuards, Guards
  <2>2. o \in Limited(i) /\ Limited(i)' = Limited(i) \ {o}
      BY <1>9 DEF FreesLimit, Limited
  <2>3. /\ Cardinality(Limited(i)) # 0
        /\ Cardinality(Limited(i)') = Cardinality(Limited(i)) - 1
      BY <1>1, <2>2, OneOut
  <2>4. phase'[i].inFlight = phase[i].inFlight /\ phase'[i].running = Less(phase[i].running)
      BY <1>9 DEF FreesLimit, CountsBecome
  <2> QED
      BY <1>2, <1>3, <2>1, <2>3, <2>4 DEF Counts, Less
<1>10. ASSUME NEW o \in Ops, InstanceOf[o] = i, CountsOut(o) PROVE Counts(i)'
  <2>1. o \in Guards(i) /\ Guards(i)' = Guards(i) \ {o}
      BY <1>10, Zenon DEF CountsOut, GuardOf, Guards
  <2>2. Limited(i)' = Limited(i) \ {o}
      BY <1>10 DEF CountsOut, Limited
  <2>3. Cardinality(Guards(i)) # 0 /\ Cardinality(Guards(i)') = Cardinality(Guards(i)) - 1
      BY <1>1, <2>1, OneOut
  <2>4. phase'[i].inFlight = Less(phase[i].inFlight)
      BY <1>10 DEF CountsOut, CountsBecome
  <2>5. CASE o \in limit
    <3>1. o \in Limited(i)
        BY <1>10, <2>5 DEF Limited
    <3>2. Cardinality(Limited(i)) # 0 /\ Cardinality(Limited(i)') = Cardinality(Limited(i)) - 1
        BY <1>1, <2>2, <3>1, OneOut
    <3>3. phase'[i].running = Less(phase[i].running)
        BY <1>10, <2>5 DEF CountsOut, CountsBecome
    <3> QED
        BY <1>2, <1>3, <2>3, <2>4, <3>2, <3>3 DEF Counts, Less
  <2>6. CASE o \notin limit
    <3>1. Limited(i)' = Limited(i) /\ phase'[i].running = phase[i].running
        BY <1>10, <2>2, <2>6 DEF CountsOut, CountsBecome, Limited
    <3> QED
        BY <1>2, <1>3, <2>3, <2>4, <3>1 DEF Counts, Less
  <2> QED
      BY <2>5, <2>6
<1> QED
    BY <1>6, <1>7, <1>8, <1>9, <1>10, CountersMove

-----------------------------------------------------------------------------

\* A runtime starts with nothing counted.
LEMMA StartsExact == Init => AccountsExact
<1> SUFFICES ASSUME Init PROVE AccountsExact
    OBVIOUS
<1>1. IntegrationInductive /\ Budget \in Nat /\ OperationLimit \in Nat
    BY StartsInductive, IntegrationAssumption
<1>2. Charges = {} /\ Slots = {} /\ retained = {} /\ reserved = 0
    BY DEF Init, Charges, Slots, HoldsSlot, NewPhase
<1>3. \A i \in Instances : Guards(i) = {} /\ Limited(i) = {}
    BY DEF Init, Guards, Limited, HoldsGuard
<1>4. Cardinality({}) = 0
    BY FS_EmptySet
<1>5. LedgerExact /\ BudgetHeld
    BY <1>1, <1>2, <1>4, LedgerIs DEF BudgetHeld
<1>6. \A i \in Instances : phase[i].inFlight = 0 /\ phase[i].running = 0
    BY DEF Init, NewPhase
<1>7. CountersExact
    BY <1>1, <1>3, <1>4, <1>6, CountersAre DEF Counts
<1> QED
    BY <1>5, <1>7 DEF AccountsExact

\* The ledger's reservations, the budget and every entry's two counters are
\* exact, whoever ends an operation (accounts.rs reserve, release, retain;
\* entry.rs begin_operation, release_limit, end_operation).
THEOREM AccountsAreExact == Spec => []AccountsExact
<1>1. Init => AccountsExact
    BY StartsExact
<1>2. IntegrationInductive /\ IntegrationInductive' /\ AccountsExact /\ [Next]_vars => AccountsExact'
  <2> SUFFICES ASSUME IntegrationInductive, IntegrationInductive', AccountsExact, [Next]_vars
               PROVE  AccountsExact'
      OBVIOUS
  <2>0. (\A i \in Instances : Counts(i)') => CountersExact'
    <3>1. \A i \in Instances : (limit \cap {o \in Ops : InstanceOf[o] = i} \subseteq Guards(i))'
        BY DEF IntegrationInductive, Courses, Course, Guards, HoldsGuard
    <3> QED
        BY <3>1, Zenon DEF CountersExact, Counts, Guards, Limited
  <2>1. CASE Next
    <3>1. LedgerExact' /\ BudgetHeld'
        BY <2>1, StepKeepsLedger DEF AccountsExact
    <3>2. \A i \in Instances : Counts(i)'
        BY <2>1, StepKeepsCounts, CountersAre DEF AccountsExact
    <3> QED
        BY <2>0, <3>1, <3>2 DEF AccountsExact
  <2>2. CASE UNCHANGED vars
    <3>1. UNCHANGED <<phase, settling, reserved, retained, op, acct, limit>>
        BY <2>2, Zenon DEF vars, ledger, settleVars, opVars
    <3>2. LedgerExact' /\ BudgetHeld'
        BY <3>1, Zenon DEF AccountsExact, LedgerExact, BudgetHeld, HoldsSlot
    <3>3. ASSUME NEW i \in Instances PROVE Counts(i)'
      <4>1. Counts(i)
          BY CountersAre DEF AccountsExact
      <4>2. Guards(i)' = Guards(i) /\ Limited(i)' = Limited(i)
          BY <3>1 DEF Guards, Limited, HoldsGuard
      <4> QED
          BY <3>1, <4>1, <4>2 DEF Counts
    <3> QED
        BY <2>0, <3>2, <3>3 DEF AccountsExact
  <2> QED
      BY <2>1, <2>2
<1> QED
    BY <1>1, <1>2, IntegrationSafe, PTL DEF Spec

\* A close result of Ok means no operation of the instance and no close owner was
\* at work, then or later, and Settled comes last (entry.rs drained, settle).
THEOREM SettlementIsHonest == Spec => []SettlementHonest
<1>1. IntegrationInductive /\ AccountsExact => OkMeansQuiet
  <2> SUFFICES ASSUME IntegrationInductive, AccountsExact, NEW i \in Instances,
                      closed[i] = "Ok" \/ settlement[i] \in {"Completed", "CancelledAndJoined"}
               PROVE  /\ \A o \in Ops : InstanceOf[o] = i => ~HoldsGuard(o)
                      /\ phase[i].owner = "Absent"
      BY DEF OkMeansQuiet
  <2>1. phase[i].inFlight = 0 /\ phase[i].owner = "Absent"
      BY DEF IntegrationInductive, Entries, Entry
  <2>2. Cardinality(Guards(i)) = 0
      BY <2>1, Zenon DEF AccountsExact, CountersExact, Guards
  <2>3. Guards(i) = {}
      BY <2>2, AllFinite, FS_EmptySet DEF IntegrationInductive
  <2> QED
      BY <2>1, <2>3 DEF Guards
<1>2. IntegrationInductive /\ AccountsExact => SettlementHonest
  <2>1. IntegrationInductive => SettledIsLast
      BY DEF IntegrationInductive, Entries, Entry, SettledIsLast
  <2> QED
      BY <1>1, <2>1 DEF SettlementHonest
<1> QED
    BY <1>2, IntegrationSafe, AccountsAreExact, PTL

=============================================================================
