----------------------------- MODULE MCFrontend -----------------------------
(***************************************************************************)
(* A browser: the open files, and the groups.  The two stores share no     *)
(* variable, so a behaviour on one of them at a time shows all there is of *)
(* each.                                                                   *)
(***************************************************************************)
EXTENDS Files, TLC

CONSTANTS
  e1, e2, e3, s1, s2, g1, g2, g3, c1, c2,
  Groups, NoGroup, Calls, Admin, Existing, GroupClicks

VARIABLES
  focus,  \* the store this behaviour is about
  group, allGroups, myGroups, calls, doubtful, groupClicks

Holds  == (e1 :> "execution") @@ (e2 :> "foreign") @@ (e3 :> "profile")
Stands == (g1 :> "mine") @@ (g2 :> "hidden") @@ (g3 :> "absent")

groupVars == <<group, allGroups, myGroups, calls, doubtful, groupClicks>>

G == INSTANCE GroupLists WITH clicks <- groupClicks, MaxClicks <- GroupClicks

ASSUME GroupsAssumption == G!ConstantsRight

BrowserInit == Init /\ G!Init /\ focus \in {"files", "groups"}

BrowserNext ==
  /\ UNCHANGED focus
  /\ \/ focus = "files" /\ Next /\ UNCHANGED groupVars
     \/ focus = "groups" /\ G!Next /\ UNCHANGED vars

Browser == BrowserInit /\ [][BrowserNext]_<<vars, groupVars, focus>>

Interchangeable == Permutations(Slots) \cup Permutations(Calls)

\* The groups' variables have their types (GroupLists.TypeOK).
GroupsTyped == G!TypeOK

\* A fetch or a save that nothing disturbs leaves the lists of groups as the server
\* has them (GroupLists.ListsRight).
ListsRight == G!ListsRight

\* The group a deletion was answered for is in no list (GroupLists.DeletedGroupLeaves).
DeletedGroupLeaves == G!DeletedGroupLeaves
=============================================================================
