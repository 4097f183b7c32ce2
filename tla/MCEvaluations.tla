--------------------------- MODULE MCEvaluations ---------------------------
(* Small instances of Evaluations for TLC, and what its checks have to do   *)
(* with the rules of CaslAbilityFactory.                                     *)
EXTENDS Evaluations, TLC

CONSTANTS u1, u2, g1, g2

Races == {"upload", "keyUpload", "remove", "addTag", "share", "removeGroup"}

U1OwnsG1 == {<<u1, g1>>}
BothInG1 == {<<u1, g1>>, <<u2, g1>>}
SharedGroups == {<<u1, g1>>, <<u2, g1>>, <<u2, g2>>}

Rules == INSTANCE AbilityRules WITH Ids <- Users, NoId <- NoUser

AskerOf(u) == [id |-> u, admin |-> u \in Admins]
GroupSubject(g) == [type |-> "Group", row |-> TRUE, user |-> NoUser, public |-> FALSE,
                    members |-> {u \in Users : <<u, g>> \in Members},
                    owners |-> {u \in Users : <<u, g>> \in Owners}]
EvaluationSubject(e) ==
  [type |-> "Evaluation", row |-> TRUE, user |-> eval[e].owner, public |-> eval[e].public,
   members |-> UNION {GroupSubject(g).members : g \in GroupsOf(e)},
   owners |-> UNION {GroupSubject(g).owners : g \in GroupsOf(e)}]

\* Who may read, change and share what, as uploads, shares and deletions move
\* it, is what the rules of createForUser answer in their order of precedence
\* (apps/backend/src/casl/casl-ability.factory.ts:68-110).
RulesAgree ==
  \A u \in Users :
    /\ \A e \in Evals :
         Live(e) =>
           /\ Rules!Can(AskerOf(u), "read", EvaluationSubject(e)) <=> MayRead(u, e)
           /\ \A action \in {"update", "delete"} :
                Rules!Can(AskerOf(u), action, EvaluationSubject(e)) <=> MayManage(u, e)
    /\ \A g \in Groups :
         /\ Rules!Can(AskerOf(u), "delete", GroupSubject(g)) <=> MayRemove(u, g)
         /\ \A action \in {"add-evaluation", "remove-evaluation"} :
              Rules!Can(AskerOf(u), action, GroupSubject(g)) <=> MayShareIn(u, g)
=============================================================================
