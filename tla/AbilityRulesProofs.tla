------------------------- MODULE AbilityRulesProofs -------------------------
(***************************************************************************)
(* What the rules of a user allow, for every user and every subject.       *)
(***************************************************************************)
EXTENDS AbilityRules, TLAPS

-----------------------------------------------------------------------------
(* The rules of a user, and when each matches a question about a row. *)

Hit(u, x, action, i) == Matches(RulesOfUser(u, x)[i], u, action, x)

LEMMA HitAt ==
  ASSUME NEW u \in Asker, NEW x \in Subject, x.row, NEW action
  PROVE  /\ Hit(u, x, action, 1) <=> u.admin
         /\ Hit(u, x, action, 2) <=> u.admin /\ action = "view-statistics"
         /\ Hit(u, x, action, 3) <=> u.admin /\ x.type = "User" /\ x.user = u.id
         /\ Hit(u, x, action, 4) <=> x.type = "User" /\ action = "read-slim"
         /\ Hit(u, x, action, 5) <=> /\ x.type = "User" /\ x.user = u.id
                                     /\ action \in {"read", "update", "delete"}
         /\ Hit(u, x, action, 6) <=> x.type = "Group" /\ action = "create"
         /\ Hit(u, x, action, 7) <=> x.type = "Group" /\ x.public /\ action = "read"
         /\ Hit(u, x, action, 8) <=>
              /\ x.type = "Group" /\ u.id \in x.members
              /\ action \in {"read", "add-evaluation", "remove-evaluation"}
         /\ Hit(u, x, action, 9) <=> x.type = "Group" /\ u.id \in x.owners
         /\ Hit(u, x, action, 10) <=> x.type = "Evaluation" /\ action = "create"
         /\ Hit(u, x, action, 11) <=> x.type = "Evaluation" /\ x.public /\ action = "read"
         /\ Hit(u, x, action, 12) <=> x.type = "Evaluation" /\ x.user = u.id
         /\ Hit(u, x, action, 13) <=> x.type = "Evaluation" /\ u.id \in x.members /\ action = "read"
         /\ Hit(u, x, action, 14) <=> x.type = "Evaluation" /\ u.id \in x.owners
  <1> USE DEF Hit, Matches
  <1>0. /\ x.type \in {"User", "Group", "Evaluation"} /\ u.id \in Ids
    BY DEF Subject, Asker
  <1>1. /\ Hit(u, x, action, 1) <=> u.admin
        /\ Hit(u, x, action, 2) <=> u.admin /\ action = "view-statistics"
    BY <1>0 DEF RulesOfUser, OfAdmin, Allow
  <1>2. Hit(u, x, action, 3) <=> u.admin /\ x.type = "User" /\ x.user = u.id
    BY <1>0 DEF RulesOfUser, OfAdmin, Forbid
  <1>3. /\ Hit(u, x, action, 4) <=> x.type = "User" /\ action = "read-slim"
        /\ Hit(u, x, action, 5) <=> /\ x.type = "User" /\ x.user = u.id
                                    /\ action \in {"read", "update", "delete"}
    BY <1>0 DEF RulesOfUser, Allow
  <1>4. /\ Hit(u, x, action, 6) <=> x.type = "Group" /\ action = "create"
        /\ Hit(u, x, action, 7) <=> x.type = "Group" /\ x.public /\ action = "read"
        /\ Hit(u, x, action, 8) <=>
             /\ x.type = "Group" /\ u.id \in x.members
             /\ action \in {"read", "add-evaluation", "remove-evaluation"}
        /\ Hit(u, x, action, 9) <=> x.type = "Group" /\ u.id \in x.owners
    BY <1>0 DEF RulesOfUser, Allow, Readers
  <1>5. /\ Hit(u, x, action, 10) <=> x.type = "Evaluation" /\ action = "create"
        /\ Hit(u, x, action, 11) <=> x.type = "Evaluation" /\ x.public /\ action = "read"
        /\ Hit(u, x, action, 12) <=> x.type = "Evaluation" /\ x.user = u.id
        /\ Hit(u, x, action, 13) <=> x.type = "Evaluation" /\ u.id \in x.members /\ action = "read"
        /\ Hit(u, x, action, 14) <=> x.type = "Evaluation" /\ u.id \in x.owners
    BY <1>0 DEF RulesOfUser, Allow, Readers
  <1> QED BY <1>1, <1>2, <1>3, <1>4, <1>5

\* The last hit decides: it is a rule that allows unless it is the third.
LEMMA CanByHits ==
  ASSUME NEW u, NEW x, NEW action
  PROVE  Can(u, action, x) <=>
           \E i \in 1..14 : /\ i # 3 /\ Hit(u, x, action, i)
                            /\ \A j \in 1..14 : j > i => ~Hit(u, x, action, j)
  <1>0. DOMAIN RulesOfUser(u, x) = 1..14
    BY DEF RulesOfUser
  <1>1. RulesOfUser(u, x)[3].says = "cannot"
    BY DEF RulesOfUser, OfAdmin, Forbid
  <1>2. RulesOfUser(u, x)[1].says = "can" /\ RulesOfUser(u, x)[2].says = "can"
    BY DEF RulesOfUser, OfAdmin, Allow
  <1>3. \A i \in 4..14 : RulesOfUser(u, x)[i].says = "can"
    <2> DEFINE says(i) == RulesOfUser(u, x)[i].says
    <2>1. says(4) = "can" /\ says(5) = "can" /\ says(6) = "can" /\ says(7) = "can"
      BY DEF RulesOfUser, Allow
    <2>2. says(8) = "can" /\ says(9) = "can" /\ says(10) = "can" /\ says(11) = "can"
      BY DEF RulesOfUser, Allow
    <2>3. says(12) = "can" /\ says(13) = "can" /\ says(14) = "can"
      BY DEF RulesOfUser, Allow
    <2> HIDE DEF says
    <2>4. \A i \in 4..14 : says(i) = "can"
      BY <2>1, <2>2, <2>3
    <2> QED BY <2>4 DEF says
  <1>4. \A i \in 1..14 : i # 3 <=> RulesOfUser(u, x)[i].says = "can"
    BY <1>1, <1>2, <1>3
  <1> QED BY <1>0, <1>4 DEF Can, Hit

\* Where nothing is forbidden, one hit is enough.
LEMMA AnyHit ==
  ASSUME NEW u \in Asker, NEW x \in Subject, NEW action, ~Hit(u, x, action, 3)
  PROVE  Can(u, action, x) <=> \E i \in 1..14 : Hit(u, x, action, i)
  <1>1. ASSUME NEW i \in 1..14, Hit(u, x, action, i)
        PROVE  \E k \in 1..14 : /\ Hit(u, x, action, k)
                                /\ \A j \in 1..14 : j > k => ~Hit(u, x, action, j)
    BY <1>1
  <1> QED BY <1>1, CanByHits

-----------------------------------------------------------------------------
(* What the rules allow. *)

\* Groups: owners and administrators change them, members share evaluations
\* with them (the abilities that GroupsController asks for).
THEOREM GroupRights ==
  ASSUME NEW u \in Asker, NEW x \in Subject, x.row, x.type = "Group"
  PROVE  /\ \A action \in {"update", "delete"} : Can(u, action, x) <=> u.admin \/ u.id \in x.owners
         /\ \A action \in {"add-evaluation", "remove-evaluation"} :
              Can(u, action, x) <=> u.admin \/ u.id \in x.members \/ u.id \in x.owners
         /\ Can(u, "read", x)
              <=> u.admin \/ x.public \/ u.id \in x.members \/ u.id \in x.owners
  <1>1. \A action : ~Hit(u, x, action, 3)
    BY HitAt
  <1>2. ASSUME NEW action \in {"update", "delete"}
        PROVE  Can(u, action, x) <=> u.admin \/ u.id \in x.owners
    BY <1>1, HitAt, AnyHit
  <1>3. ASSUME NEW action \in {"add-evaluation", "remove-evaluation"}
        PROVE  Can(u, action, x) <=> u.admin \/ u.id \in x.members \/ u.id \in x.owners
    BY <1>1, HitAt, AnyHit
  <1>4. Can(u, "read", x) <=> u.admin \/ x.public \/ u.id \in x.members \/ u.id \in x.owners
    BY <1>1, HitAt, AnyHit
  <1> QED BY <1>2, <1>3, <1>4

\* Evaluations: their owner, the owners of their groups and administrators
\* change them; members of their groups, and everybody if they are public, read them.
THEOREM EvaluationRights ==
  ASSUME NEW u \in Asker, NEW x \in Subject, x.row, x.type = "Evaluation"
  PROVE  /\ \A action \in {"update", "delete"} :
              Can(u, action, x) <=> u.admin \/ x.user = u.id \/ u.id \in x.owners
         /\ Can(u, "read", x) <=>
              u.admin \/ x.user = u.id \/ u.id \in x.owners \/ x.public \/ u.id \in x.members
  <1>1. \A action : ~Hit(u, x, action, 3)
    BY HitAt
  <1>2. ASSUME NEW action \in {"update", "delete"}
        PROVE  Can(u, action, x) <=> u.admin \/ x.user = u.id \/ u.id \in x.owners
    BY <1>1, HitAt, AnyHit
  <1>3. Can(u, "read", x) <=>
          u.admin \/ x.user = u.id \/ u.id \in x.owners \/ x.public \/ u.id \in x.members
    BY <1>1, HitAt, AnyHit
  <1> QED BY <1>2, <1>3

\* Users: everybody edits the own account, and only with the password, the
\* administrators too; administrators edit and delete all others without one.
THEOREM UserRights ==
  ASSUME NEW u \in Asker, NEW x \in Subject, x.row, x.type = "User"
  PROVE  /\ \A action \in {"read", "update", "delete"} :
              Can(u, action, x) <=> u.admin \/ x.user = u.id
         /\ \A action \in {"update-no-password", "delete-no-password", "update-role",
                           "skip-force-password-change"} :
              Can(u, action, x) <=> u.admin /\ x.user # u.id
  <1>1. ASSUME x.user # u.id, NEW action \in {"read", "update", "delete", "update-no-password",
                 "delete-no-password", "update-role", "skip-force-password-change"}
        PROVE  Can(u, action, x) <=> u.admin
    <2>1. ~Hit(u, x, action, 3)
      BY <1>1, HitAt
    <2> QED BY <1>1, <2>1, HitAt, AnyHit
  <1>2. ASSUME x.user = u.id, NEW action \in {"read", "update", "delete"}
        PROVE  Can(u, action, x)
    <2>1. Hit(u, x, action, 5) /\ \A j \in 6..14 : ~Hit(u, x, action, j)
      BY <1>2, HitAt
    <2> QED BY <2>1, CanByHits
  <1>3. ASSUME x.user = u.id,
               NEW action \in {"update-no-password", "delete-no-password", "update-role",
                               "skip-force-password-change"}
        PROVE  ~Can(u, action, x)
    <2>1. /\ \A j \in {2} \cup 4..14 : ~Hit(u, x, action, j)
          /\ Hit(u, x, action, 1) => Hit(u, x, action, 3)
      BY <1>3, HitAt
    <2> QED BY <2>1, CanByHits
  <1> QED BY <1>1, <1>2, <1>3
=============================================================================
