---------------------------- MODULE AbilityRules ----------------------------
(***************************************************************************)
(* The rules that CaslAbilityFactory builds for a user, and CASL's way to  *)
(* read them: of the rules that match an action on a subject, the one that *)
(* was added last decides, and where none matches nothing is allowed.      *)
(*                                                                         *)
(* Accounts and Evaluations use closed forms of single questions; the      *)
(* rules of the two are compared on all their reachable states, and        *)
(* AbilityRulesProofs proves the closed forms for every subject.           *)
(***************************************************************************)
EXTENDS Naturals, Sequences

CONSTANTS Ids, NoId  \* the ids of users; the userId of an evaluation without a user

Asker == [id : Ids, admin : BOOLEAN]

\* A subject is a row, or the type alone (subject.row = FALSE).  For a user
\* "user" is its id, for an evaluation its owner.  The members and owners of an
\* evaluation are those of the groups it is in.
Subject == [type : {"User", "Group", "Evaluation"}, row : BOOLEAN, user : Ids \cup {NoId},
            public : BOOLEAN, members : SUBSET Ids, owners : SUBSET Ids]

-----------------------------------------------------------------------------
\* A rule lists the users whom the conditions on the subject let it apply to.
\* Asked about a type, a rule that allows ignores its conditions and a rule
\* that forbids only applies if it has none.
Allow(x, actions, type, to) ==
  [says |-> "can", actions |-> actions, type |-> type, to |-> IF x.row THEN to ELSE Ids]
Forbid(x, actions, type, to) ==
  [says |-> "cannot", actions |-> actions, type |-> type, to |-> IF x.row THEN to ELSE {}]

Readers(x) == IF x.public THEN Ids ELSE {}

\* A rule that is only added for administrators.
OfAdmin(u, rule) == [rule EXCEPT !.to = IF u.admin THEN @ ELSE {}]

\* Slip: what is forbidden to administrators comes before what they are allowed.
RulesOfUserForbidFirst(u, x) == <<
  OfAdmin(u, Forbid(x, {"manage"}, "User", {x.user})),
  OfAdmin(u, Allow(x, {"manage"}, "all", Ids)),
  OfAdmin(u, Allow(x, {"view-statistics"}, "all", Ids)),
  Allow(x, {"read-slim"}, "User", Ids),
  Allow(x, {"read", "update", "delete"}, "User", {x.user}),
  Allow(x, {"create"}, "Group", Ids),
  Allow(x, {"read"}, "Group", Readers(x)),
  Allow(x, {"read", "add-evaluation", "remove-evaluation"}, "Group", x.members),
  Allow(x, {"manage"}, "Group", x.owners),
  Allow(x, {"create"}, "Evaluation", Ids),
  Allow(x, {"read"}, "Evaluation", Readers(x)),
  Allow(x, {"manage"}, "Evaluation", {x.user}),
  Allow(x, {"read"}, "Evaluation", x.members),
  Allow(x, {"manage"}, "Evaluation", x.owners) >>

\* Slip: members and owners of the group of an evaluation are mixed up.
RulesOfUserMembersManage(u, x) == <<
  OfAdmin(u, Allow(x, {"manage"}, "all", Ids)),
  OfAdmin(u, Allow(x, {"view-statistics"}, "all", Ids)),
  OfAdmin(u, Forbid(x, {"manage"}, "User", {x.user})),
  Allow(x, {"read-slim"}, "User", Ids),
  Allow(x, {"read", "update", "delete"}, "User", {x.user}),
  Allow(x, {"create"}, "Group", Ids),
  Allow(x, {"read"}, "Group", Readers(x)),
  Allow(x, {"read", "add-evaluation", "remove-evaluation"}, "Group", x.members),
  Allow(x, {"manage"}, "Group", x.owners),
  Allow(x, {"create"}, "Evaluation", Ids),
  Allow(x, {"read"}, "Evaluation", Readers(x)),
  Allow(x, {"manage"}, "Evaluation", {x.user}),
  Allow(x, {"manage"}, "Evaluation", x.members),
  Allow(x, {"read"}, "Evaluation", x.owners) >>

\* The rules in the order in which createForUser adds them.
RulesOfUser(u, x) == <<
  OfAdmin(u, Allow(x, {"manage"}, "all", Ids)),
  OfAdmin(u, Allow(x, {"view-statistics"}, "all", Ids)),
  OfAdmin(u, Forbid(x, {"manage"}, "User", {x.user})),
  Allow(x, {"read-slim"}, "User", Ids),
  Allow(x, {"read", "update", "delete"}, "User", {x.user}),
  Allow(x, {"create"}, "Group", Ids),
  Allow(x, {"read"}, "Group", Readers(x)),
  Allow(x, {"read", "add-evaluation", "remove-evaluation"}, "Group", x.members),
  Allow(x, {"manage"}, "Group", x.owners),
  Allow(x, {"create"}, "Evaluation", Ids),
  Allow(x, {"read"}, "Evaluation", Readers(x)),
  Allow(x, {"manage"}, "Evaluation", {x.user}),
  Allow(x, {"read"}, "Evaluation", x.members),
  Allow(x, {"manage"}, "Evaluation", x.owners) >>

Matches(rule, u, action, x) ==
  /\ action \in rule.actions \/ "manage" \in rule.actions
  /\ rule.type \in {"all", x.type}
  /\ u.id \in rule.to

\* The last rule that matches decides.
Can(u, action, x) ==
  LET rules == RulesOfUser(u, x)
      hits  == {i \in DOMAIN rules : Matches(rules[i], u, action, x)}
  IN \E i \in hits : rules[i].says = "can" /\ \A j \in hits : j <= i
=============================================================================
