------------------------------ MODULE Overlays ------------------------------
(***************************************************************************)
(* How the controls of a file are tied to one another when it is loaded:   *)
(* contextualizeEvaluation (libs/inspecjs/src/context.ts).                 *)
(*                                                                         *)
(* A profile names its overlay as its parent.  The controls of an overlay  *)
(* extend those of the same id in the profiles it is made of; a profile    *)
(* tied to no other looks for the id everywhere.  Views count a control    *)
(* only if no other extends it, and with the results of its root.          *)
(***************************************************************************)
EXTENDS Naturals, SequencesExt

CONSTANT Evaluations   \* the files: sequences of [name, parent, controls]

NoParent == "none"

\* The first profile that a profile names as its parent, or 0.
Parent(e, p) == SelectInSeq(e, LAMBDA q : q.name = e[p].parent)

\* A profile is not its own ancestor: root would not end.
Acyclic(e) ==
  \E rank \in [DOMAIN e -> 1 .. Len(e)] :
    \A p \in DOMAIN e : Parent(e, p) # 0 => rank[p] < rank[Parent(e, p)]

FilesRight ==
  \A e \in Evaluations :
    /\ e \in Seq([name : STRING \ {NoParent}, parent : STRING,
                  controls : Seq([id : STRING, populated : BOOLEAN])])
    /\ Acyclic(e)

VARIABLES
  profiles,          \* the file: controls are a sequence of [id, populated]
  step,              \* the number of profiles and controls seen so far
  extendsFrom,       \* of every profile, those it is an overlay of
  extendedBy,        \* of every profile, its overlays
  controlFrom,       \* of every control, those it extends
  controlBy          \* of every control, those that extend it

vars == <<profiles, step, extendsFrom, extendedBy, controlFrom, controlBy>>

-----------------------------------------------------------------------------
Profiles == DOMAIN profiles

\* allControls: a control is a profile and a position in it.
AllControls ==
  FlattenSeq([p \in Profiles |-> [c \in DOMAIN profiles[p].controls |-> <<p, c>>]])
Controls == ToSet(AllControls)

Data(k) == profiles[k[1]].controls[k[2]]
Id(k)   == Data(k).id

Start(evaluation) ==
  /\ profiles = evaluation
  /\ step = 0
  /\ extendsFrom = [p \in Profiles |-> <<>>] /\ extendedBy = [p \in Profiles |-> <<>>]
  /\ controlFrom = [k \in Controls |-> <<>>] /\ controlBy = [k \in Controls |-> <<>>]

Init == \E evaluation \in Evaluations : Start(evaluation)

\* The next profile is tied to the first one of its parent's name.
LinkProfile ==
  LET p == step + 1
      parent == Parent(profiles, p)
  IN /\ p <= Len(profiles)
     /\ step' = p
     /\ IF parent = 0
          THEN UNCHANGED <<extendsFrom, extendedBy>>
          ELSE /\ extendsFrom' = [extendsFrom EXCEPT ![parent] = Append(@, p)]
               /\ extendedBy' = [extendedBy EXCEPT ![p] = Append(@, parent)]
     /\ UNCHANGED <<profiles, controlFrom, controlBy>>

Bind(k, ancestors) ==
  /\ controlFrom' = [controlFrom EXCEPT ![k] = @ \o ancestors]
  /\ controlBy' = [a \in Controls |->
                     IF a \in ToSet(ancestors) THEN Append(controlBy[a], k) ELSE controlBy[a]]

\* Where a profile has a control of the id of k, or 0.
Place(p, k) == SelectInSeq(profiles[p].controls, LAMBDA c : c.id = Id(k))

\* Slip: the search does not stop at the first profile that has the control.
AncestorsInAll(k) ==
  LET found == SelectSeq(extendsFrom[k[1]], LAMBDA p : Place(p, k) # 0)
  IN [n \in DOMAIN found |-> <<found[n], Place(found[n], k)>>]

\* In the profiles that its own is an overlay of, the first one that has it.
Ancestors(k) ==
  LET from == extendsFrom[k[1]]
      n    == SelectInSeq(from, LAMBDA p : Place(p, k) # 0)
  IN IF n = 0 THEN <<>> ELSE << <<from[n], Place(from[n], k)>> >>

\* Among all controls of its id the first with results, or the first.
Original(k) ==
  LET sameId    == SelectInSeq(AllControls, LAMBDA a : Id(a) = Id(k))
      populated == SelectInSeq(AllControls, LAMBDA a : Id(a) = Id(k) /\ Data(a).populated)
  IN AllControls[IF populated = 0 THEN sameId ELSE populated]

\* The next control: of an overlay, of a baseline, or of a profile tied to none.
LinkControl ==
  LET n == step + 1 - Len(profiles)
      k == AllControls[n]
  IN /\ n >= 1 /\ n <= Len(AllControls)
     /\ step' = step + 1
     /\ \/ extendsFrom[k[1]] # <<>> /\ Bind(k, Ancestors(k))
        \/ /\ extendsFrom[k[1]] = <<>> /\ extendedBy[k[1]] # <<>>
           /\ UNCHANGED <<controlFrom, controlBy>>
        \/ /\ extendsFrom[k[1]] = <<>> /\ extendedBy[k[1]] = <<>>
           /\ Bind(k, IF Original(k) = k THEN <<>> ELSE <<Original(k)>>)
     /\ UNCHANGED <<profiles, extendsFrom, extendedBy>>

Next == LinkProfile \/ LinkControl

Spec == Init /\ [][Next]_vars

-----------------------------------------------------------------------------
Done == step = Len(profiles) + Len(AllControls)

\* ContextualizedControlImp.root
Root ==
  LET root[k \in Controls] == IF controlFrom[k] = <<>> THEN k ELSE root[Head(controlFrom[k])]
  IN root

Roots == {k \in Controls : controlFrom[k] = <<>>}

\* omit_overlayed_controls
Shown == {k \in Controls : controlBy[k] = <<>>}

\* Every profile is tied to another, or there are at most two that are not and no
\* others; and no id is twice in a profile.
Orderly ==
  /\ LET untied == {p \in Profiles : extendsFrom[p] = <<>> /\ extendedBy[p] = <<>>}
     IN untied = {} \/ (untied = Profiles /\ Len(profiles) <= 2)
  /\ \A k, l \in Controls : k[1] = l[1] /\ Id(k) = Id(l) => k = l

\* The results of no root are missing from what is counted, whatever the file looks
\* like, and in an orderly file none are counted twice.
CountedOnce ==
  Done => \A r \in Roots :
            LET counted == {k \in Shown : Root[k] = r}
            IN /\ counted # {}
               /\ Orderly => \A k, l \in counted : k = l
=============================================================================
