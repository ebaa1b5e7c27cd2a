------------------------------- MODULE UsersList -------------------------------
(***************************************************************************)
(* The list of users (UsersViewController): the segmented control that     *)
(* reads everybody or the people of one's own country from Firebase, the   *)
(* search field, and the progress indicators (HUDs) over the table.        *)
(*                                                                         *)
(* Every load empties the two arrays at once and appends to them when its  *)
(* answer comes, to whatever they hold by then.  The control and the       *)
(* search field are in the navigation bar, which no indicator covers, so   *)
(* loads overlap.  Both arrays are in the order of names after every step; *)
(* they are modelled by how often each user is in them.                    *)
(***************************************************************************)
EXTENDS Integers

CONSTANTS
  Users,     \* the children of users/ while the list is open
  Listed,    \* those whose record has a name and a Twitter username
  Searches,  \* what may be searched for: the set of users a text matches
  MaxHUDs    \* bound on the indicators on screen, hence on overlapping loads

Scopes == {"all", "country"}

ASSUME PeopleAssumption == Listed \subseteq Users /\ Searches \subseteq SUBSET Users
ASSUME BoundAssumption == MaxHUDs \in Nat \ {0}

VARIABLES
  here,           \* the users whose country is one's own; maybe nobody
  scope,          \* the selected segment
  reads,          \* how many single reads of each scope are not answered yet
  allUsers,       \* how often each user is in the array allUsers
  filteredUsers,  \* how often each user has a row in the table
  search,         \* previousSearch; the empty text matches everybody
  huds,           \* progress indicators over the table
  hides,          \* blocks of the main queue that hide one of them
  late,           \* history: reads in flight when the scope was selected
  merged,         \* history: answers, empty ones included, since then
  empty           \* history: answers without a single child

vars == <<here, scope, reads, allUsers, filteredUsers, search, huds, hides, late, merged,
          empty>>

Array  == [Users -> Nat]
Nobody == [u \in Users |-> 0]

InFlight == reads["all"] + reads["country"]

\* What Firebase has for a scope, and what the list of that scope should be.
Children(s) == IF s = "all" THEN Users ELSE here
Selected(s) == [u \in Users |-> IF u \in Children(s) \cap Listed THEN 1 ELSE 0]

TypeOK ==
  /\ here \in SUBSET Users
  /\ scope \in Scopes
  /\ reads \in [Scopes -> Nat]
  /\ allUsers \in Array /\ filteredUsers \in Array
  /\ search \in SUBSET Users
  /\ huds \in Nat /\ hides \in Nat
  /\ late \in Nat /\ merged \in Nat /\ empty \in Nat

\* viewDidLoad: everybody is being read.
Init ==
  /\ here \in SUBSET Users
  /\ scope = "all"
  /\ reads = [s \in Scopes |-> IF s = "all" THEN 1 ELSE 0]
  /\ allUsers = Nobody /\ filteredUsers = Nobody
  /\ search = Users
  /\ huds = 1 /\ hides = 0
  /\ late = 0 /\ merged = 0 /\ empty = 0

------------------------------------------------------------------------------
Select(s) ==
  /\ s # scope
  /\ huds < MaxHUDs
  /\ scope' = s
  /\ reads' = [reads EXCEPT ![s] = @ + 1]
  /\ huds' = huds + 1
  /\ late' = InFlight /\ merged' = 0
  /\ UNCHANGED <<here, search, hides, empty>>

\* Mutant: the array goes on from what the other scope left in it.
SelectKeepsArray(s) ==
  Select(s) /\ filteredUsers' = Nobody /\ UNCHANGED allUsers

\* Mutant: the rows of the other scope stay until the answer comes.
SelectKeepsRows(s) ==
  Select(s) /\ allUsers' = Nobody /\ UNCHANGED filteredUsers

\* userFilterControlValueChanged: the reads in flight are not cancelled.
FilterControlValueChanged(s) ==
  Select(s) /\ allUsers' = Nobody /\ filteredUsers' = Nobody

\* Mutant: the answer to an earlier selection is ignored, its indicator too.
AnswerIfSelected(s) ==
  /\ reads[s] > 0
  /\ reads' = [reads EXCEPT ![s] = @ - 1]
  /\ merged' = merged + 1
  /\ \/ /\ s = scope /\ Children(s) # {}
        /\ allUsers' = [u \in Users |-> allUsers[u] + Selected(s)[u]]
        /\ filteredUsers' = allUsers'
        /\ hides' = hides + 1
        /\ UNCHANGED empty
     \/ /\ s # scope \/ Children(s) = {}
        /\ empty' = IF Children(s) = {} THEN empty + 1 ELSE empty
        /\ UNCHANGED <<allUsers, filteredUsers, hides>>
  /\ UNCHANGED <<here, scope, search, huds, late>>

\* Mutant: the observer is not a single one, and is told again.
AnswerAgain(s) ==
  /\ reads' = [reads EXCEPT ![s] = @ - 1]
  /\ UNCHANGED <<here, scope, allUsers, filteredUsers, search, huds, hides, late, merged,
                 empty>>

\* The block of a read asks neither which scope is selected by now nor what is
\* being searched for, and ends an indicator only if there was anybody.
Answer(s) ==
  /\ reads[s] > 0
  /\ reads' = [reads EXCEPT ![s] = @ - 1]
  /\ merged' = merged + 1
  /\ \/ /\ Children(s) # {}
        /\ allUsers' = [u \in Users |-> allUsers[u] + Selected(s)[u]]
        /\ filteredUsers' = allUsers'
        /\ hides' = hides + 1
        /\ UNCHANGED empty
     \/ /\ Children(s) = {}
        /\ empty' = empty + 1
        /\ UNCHANGED <<allUsers, filteredUsers, hides>>
  /\ UNCHANGED <<here, scope, search, huds, late>>

\* hideHUDForView: one indicator that is still there, whichever load it is for.
HideHUD ==
  /\ hides > 0
  /\ hides' = hides - 1
  /\ huds' = IF huds > 0 THEN huds - 1 ELSE 0
  /\ UNCHANGED <<here, scope, reads, allUsers, filteredUsers, search, late, merged, empty>>

\* updateSearchResultsForSearchController.
UpdateSearchResults(text) ==
  /\ search # text
  /\ search' = text
  /\ filteredUsers' = [u \in Users |-> IF u \in text THEN allUsers[u] ELSE 0]
  /\ UNCHANGED <<here, scope, reads, allUsers, huds, hides, late, merged, empty>>

Next ==
  \/ \E s \in Scopes : FilterControlValueChanged(s)
  \/ \E s \in Scopes : Answer(s)
  \/ HideHUD
  \/ \E text \in Searches \cup {Users} : UpdateSearchResults(text)

Spec == Init /\ [][Next]_vars

\* Firebase answers every read, from its cache if need be, and the main queue
\* is served; nothing is assumed of the user.
Fairness ==
  /\ \A s \in Scopes : WF_vars(Answer(s))
  /\ WF_vars(HideHUD)

FairSpec == Spec /\ Fairness

------------------------------------------------------------------------------
(***************************************************************************)
(* Properties.                                                             *)
(***************************************************************************)

\* The table never has a row that the array behind it does not have, through
\* selections, late answers and searches: a search shows all or nothing of a
\* user in allUsers (userFilterControlValueChanged, updateSearchResults).
RowsAreOfArray == \A u \in Users : filteredUsers[u] \in {0, allUsers[u]}

\* Overlapping loads are the only way to a wrong list: with no read in flight
\* at the last selection, the list is everybody of that scope, once.
ListIsExact == late = 0 /\ InFlight = 0 => allUsers = Selected(scope)

\* Users are shown again and again, but at most once for each answer since the
\* last selection, and those are at most the reads then in flight and its own.
ListCountsAnswers ==
  /\ merged + InFlight = late + 1
  /\ \A u \in Users : allUsers[u] <= merged

\* Every indicator on screen is that of a read in flight, of a block about to
\* hide it, or of an answer without users, which nothing ever hides: a block
\* never hides the indicator of a load that goes on without another going.
IndicatorsAreAccounted == huds = InFlight + hides + empty

\* When the user leaves the control alone, the indicators go, but for those of
\* empty answers.
Selects == \E s \in Scopes : FilterControlValueChanged(s)

IndicatorsGo == <>[][~Selects]_vars => <>[](huds = empty)
================================================================================
