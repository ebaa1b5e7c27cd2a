---------------------------- MODULE UsersListProofs ----------------------------
(***************************************************************************)
(* Theorems about UsersList, for every set of users and every bound.       *)
(***************************************************************************)
EXTENDS UsersList, TLAPS

\* ListIsExact speaks of the end of a load without overlap; this of its course.
OneLoad ==
  late = 0 =>
    \/ /\ merged = 0 /\ allUsers = Nobody
       /\ reads = [s \in Scopes |-> IF s = scope THEN 1 ELSE 0]
    \/ /\ merged = 1 /\ allUsers = Selected(scope)
       /\ reads = [s \in Scopes |-> 0]

IInv ==
  /\ TypeOK
  /\ RowsAreOfArray
  /\ OneLoad
  /\ ListCountsAnswers
  /\ IndicatorsAreAccounted

\* The invariant holds of the first state.
LEMMA InitInv == Init => IInv
<1> SUFFICES ASSUME Init PROVE IInv  OBVIOUS
<1> USE DEF Init
<1>1. TypeOK  BY DEF TypeOK, Scopes, Nobody, Array
<1>2. RowsAreOfArray  BY DEF RowsAreOfArray, Nobody
<1>3. OneLoad  BY DEF OneLoad
<1>4. ListCountsAnswers  BY DEF ListCountsAnswers, InFlight, Scopes, Nobody
<1>5. IndicatorsAreAccounted  BY DEF IndicatorsAreAccounted, InFlight, Scopes
<1> QED  BY <1>1, <1>2, <1>3, <1>4, <1>5 DEF IInv

\* One read more, or less.
LEMMA ReadsCount ==
  ASSUME NEW s \in Scopes, reads \in [Scopes -> Nat], NEW d \in Int,
         reads[s] + d \in Nat, reads' = [reads EXCEPT ![s] = @ + d]
  PROVE  reads' \in [Scopes -> Nat] /\ InFlight' = InFlight + d
BY DEF Scopes, InFlight

\* What a scope selects is a list that has each user once at most.
LEMMA SelectedType == \A s \in Scopes : Selected(s) \in Array /\ \A u \in Users : Selected(s)[u] <= 1
BY DEF Selected, Array

\* Selecting a scope keeps the invariant,
LEMMA SelectStep ==
  ASSUME IInv, NEW s \in Scopes, FilterControlValueChanged(s)
  PROVE  IInv'
<1> USE DEF IInv
<1>1. /\ s # scope /\ scope' = s /\ reads' = [reads EXCEPT ![s] = @ + 1]
      /\ allUsers' = Nobody /\ filteredUsers' = Nobody
      /\ huds' = huds + 1 /\ late' = InFlight /\ merged' = 0
      /\ UNCHANGED <<here, search, hides, empty>>
  BY DEF FilterControlValueChanged, Select
<1>2. reads' \in [Scopes -> Nat] /\ InFlight' = InFlight + 1 /\ InFlight \in Nat
  BY <1>1, ReadsCount DEF TypeOK, InFlight, Scopes
<1>3. TypeOK'  BY <1>1, <1>2 DEF TypeOK, Nobody, Array
<1>4. RowsAreOfArray'  BY <1>1 DEF RowsAreOfArray, Nobody
<1>5. OneLoad'
  <2> SUFFICES ASSUME InFlight = 0
               PROVE  reads' = [t \in Scopes |-> IF t = s THEN 1 ELSE 0]
    BY <1>1 DEF OneLoad
  <2>1. \A t \in Scopes : reads[t] = 0  BY DEF InFlight, TypeOK, Scopes
  <2>2. reads = [t \in Scopes |-> 0]  BY <2>1 DEF TypeOK
  <2> QED  BY <1>1, <2>2
<1>6. ListCountsAnswers'  BY <1>1, <1>2 DEF ListCountsAnswers, Nobody
<1>7. IndicatorsAreAccounted'
  BY <1>1, <1>2 DEF IndicatorsAreAccounted, TypeOK
<1> QED  BY <1>3, <1>4, <1>5, <1>6, <1>7

\* so does an answer of Firebase,
LEMMA AnswerStep ==
  ASSUME IInv, NEW s \in Scopes, Answer(s)
  PROVE  IInv'
<1> USE DEF IInv
<1>1. /\ reads[s] > 0 /\ reads' = [reads EXCEPT ![s] = @ + (-1)]
      /\ merged' = merged + 1
      /\ UNCHANGED <<here, scope, search, huds, late>>
  BY DEF Answer, TypeOK
<1>2. reads' \in [Scopes -> Nat] /\ InFlight' = InFlight - 1 /\ InFlight \in Nat
  BY <1>1, ReadsCount DEF TypeOK, InFlight, Scopes
<1>3. /\ \A u \in Users : allUsers'[u] = allUsers[u] + Selected(s)[u]
      /\ allUsers' \in Array
  <2>1. CASE Children(s) # {}
    BY <2>1, SelectedType DEF Answer, TypeOK, Array
  <2>2. CASE Children(s) = {}
    <3>1. \A u \in Users : Selected(s)[u] = 0  BY <2>2 DEF Selected
    <3> QED  BY <2>2, <3>1 DEF Answer, TypeOK, Array
  <2> QED  BY <2>1, <2>2
<1>4. \/ hides' = hides + 1 /\ empty' = empty /\ filteredUsers' = allUsers'
      \/ hides' = hides /\ empty' = empty + 1 /\ UNCHANGED <<allUsers, filteredUsers>>
  BY DEF Answer
<1>5. TypeOK'  BY <1>1, <1>2, <1>3, <1>4 DEF TypeOK
<1>6. RowsAreOfArray'  BY <1>4 DEF RowsAreOfArray
<1>7. OneLoad'
  <2> SUFFICES ASSUME late = 0
               PROVE  /\ merged' = 1 /\ allUsers' = Selected(scope)'
                      /\ reads' = [t \in Scopes |-> 0]
    BY <1>1 DEF OneLoad
  <2>1. merged = 0 /\ allUsers = Nobody
        /\ reads = [t \in Scopes |-> IF t = scope THEN 1 ELSE 0]
    BY <1>1 DEF OneLoad
  <2>2. s = scope  BY <1>1, <2>1
  <2>3. reads' = [t \in Scopes |-> 0]  BY <1>1, <2>1, <2>2
  <2>4. allUsers' = Selected(scope)
    BY <1>3, <2>1, <2>2, SelectedType DEF Array, Nobody
  <2>5. Selected(scope)' = Selected(scope)  BY <1>1 DEF Selected, Children
  <2> QED  BY <1>1, <2>1, <2>3, <2>4, <2>5
<1>8. ListCountsAnswers'
  BY <1>1, <1>2, <1>3, SelectedType DEF ListCountsAnswers, TypeOK, Array
<1>9. IndicatorsAreAccounted'
  BY <1>1, <1>2, <1>4 DEF IndicatorsAreAccounted, TypeOK
<1> QED  BY <1>5, <1>6, <1>7, <1>8, <1>9

\* the block that hides an indicator,
LEMMA HideStep ==
  ASSUME IInv, HideHUD
  PROVE  IInv'
<1> USE DEF IInv, HideHUD
<1>1. huds > 0
  BY DEF IndicatorsAreAccounted, TypeOK, InFlight, Scopes
<1>2. TypeOK'  BY <1>1 DEF TypeOK
<1>3. IndicatorsAreAccounted'  BY <1>1 DEF IndicatorsAreAccounted, TypeOK, InFlight, Scopes
<1>4. OneLoad'  BY DEF OneLoad, Selected, Children
<1>5. RowsAreOfArray' /\ ListCountsAnswers'  BY DEF RowsAreOfArray, ListCountsAnswers, InFlight
<1> QED  BY <1>2, <1>3, <1>4, <1>5

\* and a search.
LEMMA SearchStep ==
  ASSUME IInv, NEW text \in Searches \cup {Users}, UpdateSearchResults(text)
  PROVE  IInv'
<1> USE DEF IInv, UpdateSearchResults
<1>1. TypeOK'  BY PeopleAssumption DEF TypeOK, Array
<1>2. RowsAreOfArray'  BY DEF RowsAreOfArray
<1>3. OneLoad'  BY DEF OneLoad, Selected, Children
<1>4. ListCountsAnswers' /\ IndicatorsAreAccounted'
  BY DEF ListCountsAnswers, IndicatorsAreAccounted, InFlight
<1> QED  BY <1>1, <1>2, <1>3, <1>4

\* Every step keeps the invariant.
LEMMA NextInv == IInv /\ [Next]_vars => IInv'
<1> SUFFICES ASSUME IInv, [Next]_vars PROVE IInv'  OBVIOUS
<1>1. CASE UNCHANGED vars
  BY <1>1 DEF vars, IInv, TypeOK, RowsAreOfArray, OneLoad, ListCountsAnswers,
     IndicatorsAreAccounted, InFlight, Selected, Children
<1>2. CASE Next
  BY <1>2, SelectStep, AnswerStep, HideStep, SearchStep DEF Next
<1> QED  BY <1>1, <1>2

\* The invariant holds in every state of every behaviour.
THEOREM Invariance == Spec => []IInv
BY InitInv, NextInv, PTL DEF Spec

\* Every variable, the queued answers and blocks included, keeps its type.
THEOREM TypeCorrect == Spec => []TypeOK
<1>1. IInv => TypeOK  BY DEF IInv
<1> QED  BY <1>1, Invariance, PTL

\* The table shows no row its array does not have.
THEOREM RowsAlwaysOfArray == Spec => []RowsAreOfArray
<1>1. IInv => RowsAreOfArray  BY DEF IInv
<1> QED  BY <1>1, Invariance, PTL

\* Without overlapping loads the list is what was selected, each user once.
THEOREM ListAlwaysExact == Spec => []ListIsExact
<1>1. IInv => ListIsExact
  BY DEF IInv, OneLoad, ListIsExact, InFlight, TypeOK, Scopes
<1> QED  BY <1>1, Invariance, PTL

\* With them, each answer shows each user at most once more.
THEOREM ListAlwaysCounts == Spec => []ListCountsAnswers
<1>1. IInv => ListCountsAnswers  BY DEF IInv
<1> QED  BY <1>1, Invariance, PTL

\* An indicator that stays for ever is one of an answer without users.
THEOREM IndicatorsAlwaysAccounted == Spec => []IndicatorsAreAccounted
<1>1. IInv => IndicatorsAreAccounted  BY DEF IInv
<1> QED  BY <1>1, Invariance, PTL
================================================================================
