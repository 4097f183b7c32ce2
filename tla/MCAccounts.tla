----------------------------- MODULE MCAccounts -----------------------------
(* Small instances of Accounts for TLC, and what its checks have to do with  *)
(* the rules of CaslAbilityFactory.                                          *)
EXTENDS Accounts

CONSTANTS g1, g2, s1, s2

OneGroup  == {g1}
TwoGroups == {g1, g2}
OneSlot   == {s1}
TwoSlots  == {s1, s2}

Rules == INSTANCE AbilityRules WITH Ids <- Users, NoId <- NoUser

AskerOf(u) == [id |-> u, admin |-> account[u] = "admin"]
UserSubject(u) == [type |-> "User", row |-> TRUE, user |-> u,
                   public |-> FALSE, members |-> {}, owners |-> {}]
GroupSubject(g) == [type |-> "Group", row |-> TRUE, user |-> NoUser, public |-> FALSE,
                    members |-> {u \in Users : InGroup(g, u)},
                    owners |-> {x.user : x \in OwnerRows(g)}]

\* What Accounts asks of a caller is what the rules of createForUser answer, in
\* their order of precedence: nobody, administrators included, gets around the
\* password of the own account, and groups are managed by owners and
\* administrators (apps/backend/src/casl/casl-ability.factory.ts:59-90).
RulesAgree ==
  \A u \in Users : Exists(u) =>
    /\ \A v \in Users :
         /\ Rules!Can(AskerOf(u), "update", UserSubject(v)) <=> CanEditUser(account[u], u, v)
         /\ Rules!Can(AskerOf(u), "update-no-password", UserSubject(v))
              <=> CanManageUser(account[u], u, v)
    /\ \A g \in Groups, role \in GroupRoles \cup {"none"} : role \in SeenRoles(g, u) =>
         Rules!Can(AskerOf(u), "update", GroupSubject(g)) <=> CanManageGroup(account[u], role)
=============================================================================
