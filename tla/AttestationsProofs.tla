------------------------ MODULE AttestationsProofs ------------------------
(***************************************************************************)
(* What holds of attestations for any file and any list of them: the       *)
(* status of a control depends on the set of its attestations, not on      *)
(* their order.                                                            *)
(*                                                                         *)
(* Each attestation adds to the results from which the next one tells      *)
(* whether it applies.  The argument is that it tells it from the first    *)
(* result only, which no attestation changes.                              *)
(***************************************************************************)
EXTENDS Attestations, TLAPS

Skipped(rs) == rs # <<>> /\ Head(rs).status = "skipped"

\* The first result of a control is still the one it was read with.
SameHead(c) ==
  /\ results[c] = <<>> <=> original[c].results = <<>>
  /\ results[c] # <<>> => Head(results[c]) = Head(original[c].results)

\* The results of a control are its own and those of its attestations.
Gathered(c) == ToSet(results[c]) = ToSet(original[c].results) \cup Attested(c)

Typed ==
  /\ original \in Seq([id : DOMAIN Lower, results : Seq(Result), notApplicable : BOOLEAN])
  /\ results \in [Controls -> Seq(Result)]
  /\ list \in Seq(Given)

Inv == /\ Typed
       /\ stage # "thrown" => \A c \in Controls : SameHead(c) /\ Gathered(c)

-----------------------------------------------------------------------------
LEMMA AppendedSet ==
  ASSUME NEW S, NEW s \in Seq(S), NEW e
  PROVE  ToSet(Append(s, e)) = ToSet(s) \cup {e}
<1> DEFINE t == Append(s, e)
<1>1. /\ DOMAIN s = 1 .. Len(s) /\ Len(s) \in Nat
      /\ DOMAIN t = 1 .. Len(s) + 1
      /\ \A i \in 1 .. Len(s) : t[i] = s[i]
      /\ t[Len(s) + 1] = e
  OBVIOUS
<1> HIDE DEF t
<1>2. ToSet(t) \subseteq ToSet(s) \cup {e}
  BY <1>1 DEF ToSet
<1>3. ToSet(s) \cup {e} \subseteq ToSet(t)
  BY <1>1 DEF ToSet
<1> QED
  BY <1>2, <1>3 DEF t

LEMMA ElementType ==
  ASSUME NEW S, NEW s \in Seq(S), NEW i \in DOMAIN s
  PROVE  s[i] \in S
  OBVIOUS

LEMMA AppendedHead ==
  ASSUME NEW S, NEW s \in Seq(S), NEW e, s # <<>>
  PROVE  Append(s, e) # <<>> /\ Head(Append(s, e)) = Head(s)
  OBVIOUS

LEMMA SegmentIsResult ==
  ASSUME NEW a, Valid(a)
  PROVE  Segment(a) \in Result
<1>1. a.status \in {"passed", "failed"}
  BY DEF Valid
<1> QED
  BY <1>1 DEF Segment, Result

\* What one more attestation adds to what a control has to have.
LEMMA AttestedGrows ==
  ASSUME Typed, NEW a \in Given, list' = Append(list, a), original' = original,
         NEW c \in Controls
  PROVE  Attested(c)' = Attested(c) \cup
           (IF Skipped(original[c].results) /\ Named(a, c) /\ Valid(a) THEN {Segment(a)} ELSE {})
<1>1. ToSet(list)' = ToSet(list) \cup {a}
  BY AppendedSet DEF Typed
<1>2. CASE ~Skipped(original[c].results)
  BY <1>2 DEF Attested, Skipped
<1>3. CASE Skipped(original[c].results)
  <2>1. Attested(c) = {Segment(b) : b \in {d \in ToSet(list) : Named(d, c) /\ Valid(d)}}
    BY <1>3 DEF Attested, Skipped
  <2>2. Attested(c)' = {Segment(b) : b \in {d \in ToSet(list)' : Named(d, c) /\ Valid(d)}}
    BY <1>3 DEF Attested, Skipped, Named
  <2>3. CASE Named(a, c) /\ Valid(a)
    BY <1>1, <1>3, <2>1, <2>2, <2>3
  <2>4. CASE ~(Named(a, c) /\ Valid(a))
    BY <1>1, <1>3, <2>1, <2>2, <2>4
  <2> QED
    BY <2>3, <2>4
<1> QED
  BY <1>2, <1>3

-----------------------------------------------------------------------------
\* What one more attestation does to a control: nothing, or one more result, which it
\* gets if it can and no control throws.
LEMMA Applied ==
  ASSUME Typed, NEW a \in Given, Apply(a)
  PROVE  /\ original' = original /\ list' = Append(list, a) /\ stage = "applying"
         /\ results' = [c \in Controls |-> results'[c]]
         /\ \A c \in Controls :
              \/ results'[c] = results[c]
              \/ Valid(a) /\ results'[c] = Append(results[c], Segment(a))
         /\ stage' # "thrown" =>
              \A c \in Controls :
                /\ ~Throws(a, c)
                /\ CanBeAdded(a, c) /\ Valid(a) => results'[c] = Append(results[c], Segment(a))
                /\ ~(CanBeAdded(a, c) /\ Valid(a)) => results'[c] = results[c]
<1> DEFINE throwing == {c \in Controls : Throws(a, c)}
           added(c) == (\A t \in throwing : c < t) /\ CanBeAdded(a, c) /\ Valid(a)
<1>1. results' = [c \in Controls |->
                    IF added(c) THEN Append(results[c], Segment(a)) ELSE results[c]]
  BY DEF Apply, Extended
<1>2. stage' = IF throwing = {} THEN "applying" ELSE "thrown"
  BY DEF Apply
<1>3. original' = original /\ list' = Append(list, a) /\ stage = "applying"
  BY DEF Apply
<1>4. ASSUME stage' # "thrown"
      PROVE  throwing = {} /\ \A c \in Controls : added(c) <=> CanBeAdded(a, c) /\ Valid(a)
  BY <1>2, <1>4
<1> HIDE DEF added
<1>5. \A c \in Controls :
        results'[c] = IF added(c) THEN Append(results[c], Segment(a)) ELSE results[c]
  BY <1>1
<1>6. \A c \in Controls : added(c) => Valid(a)
  BY DEF added
<1> QED
  BY <1>1, <1>3, <1>4, <1>5, <1>6

LEMMA ApplyTyped ==
  ASSUME Typed, NEW a \in Given, Apply(a)
  PROVE  Typed'
<1>1. original' = original /\ list' \in Seq(Given)
  <2>1. original' = original /\ list' = Append(list, a)
    BY Applied
  <2>2. list \in Seq(Given)
    BY DEF Typed
  <2> QED
    BY <2>1, <2>2
<1>2. ASSUME NEW c \in Controls PROVE results'[c] \in Seq(Result)
  <2>1. results[c] \in Seq(Result)
    BY DEF Typed
  <2>2. CASE results'[c] = results[c]
    BY <2>1, <2>2
  <2>3. CASE Valid(a) /\ results'[c] = Append(results[c], Segment(a))
    <3>1. Segment(a) \in Result
      BY <2>3, SegmentIsResult
    <3> QED
      BY <2>1, <2>3, <3>1
  <2> QED
    BY <2>2, <2>3, Applied
<1>3. results' \in [Controls -> Seq(Result)]
  BY <1>2, Applied
<1> QED
  BY <1>1, <1>3 DEF Typed, Controls

LEMMA ApplyGathers ==
  ASSUME Inv, NEW a \in Given, Apply(a), stage' # "thrown", NEW c \in Controls
  PROVE  SameHead(c)' /\ Gathered(c)'
<1> DEFINE rs == results[c]
           own == original[c].results
           added == CanBeAdded(a, c) /\ Valid(a)
<1>1. /\ Typed /\ SameHead(c) /\ Gathered(c)
      /\ original' = original /\ list' = Append(list, a)
      /\ ~Throws(a, c)
  BY Applied DEF Inv
<1>2. /\ added => results'[c] = Append(rs, Segment(a))
      /\ ~added => results'[c] = rs
  BY <1>1, Applied
<1>3. rs \in Seq(Result)
  BY <1>1 DEF Typed
<1>4. SameHead(c)'
  <2>1. CASE added
    <3>1. rs # <<>>
      BY <1>1, <2>1 DEF CanBeAdded, Throws
    <3> QED
      BY <1>1, <1>2, <1>3, <2>1, <3>1, AppendedHead DEF SameHead
  <2>2. CASE ~added
    BY <1>1, <1>2, <2>2 DEF SameHead
  <2> QED
    BY <2>1, <2>2
<1>5. Named(a, c) /\ Valid(a) => (added <=> Skipped(own))
  BY <1>1 DEF CanBeAdded, Throws, SameHead, Skipped
<1>6. ToSet(results'[c]) = ToSet(rs) \cup (IF added THEN {Segment(a)} ELSE {})
  BY <1>2, <1>3, AppendedSet
<1>7. added <=> Skipped(own) /\ Named(a, c) /\ Valid(a)
  BY <1>5 DEF CanBeAdded
<1>8. Attested(c)' = Attested(c) \cup (IF added THEN {Segment(a)} ELSE {})
  BY <1>1, <1>7, AttestedGrows
<1>9. Gathered(c)'
  BY <1>1, <1>6, <1>8 DEF Gathered
<1> QED
  BY <1>4, <1>9

LEMMA InvHolds == Spec => []Inv
<1>1. Init => Inv
  <2> SUFFICES ASSUME NEW report \in Reports, Start(report) PROVE Inv
    BY DEF Init
  <2>1. Typed
    <3>1. original \in Seq([id : DOMAIN Lower, results : Seq(Result), notApplicable : BOOLEAN])
      BY ReportsAssumption DEF Start
    <3>2. ASSUME NEW c \in Controls PROVE original[c].results \in Seq(Result)
      <4>1. original[c] \in [id : DOMAIN Lower, results : Seq(Result), notApplicable : BOOLEAN]
        BY <3>1, <3>2, ElementType DEF Controls
      <4> QED
        BY <4>1
    <3>3. results = [c \in Controls |-> original[c].results] /\ list = <<>>
      BY DEF Start
    <3> QED
      BY <3>1, <3>2, <3>3 DEF Typed
  <2>2. ASSUME NEW c \in Controls PROVE SameHead(c) /\ Gathered(c)
    <3>1. results[c] = original[c].results /\ list = <<>>
      BY <2>2 DEF Start
    <3>2. ToSet(list) = {}
      BY <3>1 DEF ToSet
    <3>3. Attested(c) = {}
      BY <3>2 DEF Attested
    <3> QED
      BY <3>1, <3>3 DEF SameHead, Gathered
  <2> QED
    BY <2>1, <2>2 DEF Inv
<1>2. ASSUME Inv, [Next]_vars PROVE Inv'
  <2>1. CASE Finish
    <3>1. UNCHANGED <<original, results, attestation, list>> /\ stage # "thrown"
      BY <2>1 DEF Finish
    <3> QED
      BY <1>2, <3>1 DEF Inv, Typed, Controls, SameHead, Gathered, Attested, Named
  <2>2. ASSUME NEW a \in Given, Apply(a) PROVE Inv'
    <3>1. Typed' /\ Controls' = Controls
      BY <1>2, <2>2, ApplyTyped, Applied DEF Inv, Controls
    <3> QED
      BY <1>2, <2>2, <3>1, ApplyGathers DEF Inv
  <2>3. CASE UNCHANGED vars
    BY <1>2, <2>3 DEF vars, Inv, Typed, Controls, SameHead, Gathered, Attested, Named
  <2> QED
    BY <1>2, <2>1, <2>2, <2>3 DEF Next
<1> QED
  BY <1>1, <1>2, PTL DEF Spec

\* The status of a control follows from its own results and the set of its
\* attestations, for any file and any list of attestations that is applied to its end
\* (addAttestationToHDF, ExecControl.compute_status).
THEOREM AnyOrder == Spec => []OrderDoesNotMatter
<1>1. Inv => OrderDoesNotMatter
  BY DEF Inv, Gathered, OrderDoesNotMatter
<1> QED
  BY <1>1, InvHolds, PTL
=============================================================================
