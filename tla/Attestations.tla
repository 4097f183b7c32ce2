---------------------------- MODULE Attestations ----------------------------
(***************************************************************************)
(* Manual results for the controls a scanner skipped: addAttestationToHDF  *)
(* (libs/hdf-converters/src/utils/attestations.ts), and the status that    *)
(* inspecjs then reads from a control (compat_inspec_1_0.ts).              *)
(*                                                                         *)
(* Every attestation of the list adds a result to each control of its id   *)
(* whose first result was skipped.  The file is changed in place: when an  *)
(* attestation throws, what was added before stays.                        *)
(***************************************************************************)
EXTENDS Integers, SequencesExt

CONSTANTS
  Reports,         \* the files: the controls of all profiles, one after the other
  Lower,           \* the lower case of every control id
  Given,           \* the attestations: [id, status, frequency, age]
  MaxAttestations  \* bound on the list of attestations

\* The results of ExecJSON, as far as they matter.
Result == [status : {"passed", "failed", "skipped", "error"}, backtrace : BOOLEAN]

ASSUME ReportsAssumption ==
  \A report \in Reports :
    report \in Seq([id : DOMAIN Lower, results : Seq(Result), notApplicable : BOOLEAN])

VARIABLES
  original,     \* the controls as they were read: [id, results, notApplicable]
  results,      \* the results of every control
  attestation,  \* the status in attestation_data of every control
  list,         \* the attestations applied so far
  stage         \* "applying", "done" or "thrown"

vars == <<original, results, attestation, list, stage>>

-----------------------------------------------------------------------------
Controls == DOMAIN original
None     == "none"

Start(report) ==
  /\ original = report
  /\ results = [c \in Controls |-> original[c].results]
  /\ attestation = [c \in Controls |-> None]
  /\ list = <<>> /\ stage = "applying"

Init == \E report \in Reports : Start(report)

\* The days an attestation is good for (advanceDate); what is no word of this list is
\* a number with a unit, or throws.
Period(frequency) ==
  CASE frequency = "annually"     -> 365
    [] frequency = "semiannually" -> 182
    [] frequency = "quarterly"    -> 91
    [] frequency = "monthly"      -> 30
    [] frequency \in {"every2weeks", "fortnightly"} -> 14
    [] frequency = "weekly"       -> 7
    [] frequency = "every3days"   -> 3
    [] frequency = "daily"        -> 1
Unknown(frequency) == frequency = "unknown"

Expired(a) == a.age > Period(a.frequency)

\* The result an attestation stands for (convertAttestationToSegment).
Segment(a) == [status |-> IF Expired(a) THEN "skipped" ELSE a.status, backtrace |-> FALSE]

Named(a, c)  == Lower[a.id] = Lower[original[c].id]
Valid(a)     == a.status \in {"passed", "failed"}

\* attestationCanBeAdded: the first result decides, whatever follows it.
CanBeAdded(a, c) == Named(a, c) /\ Head(results[c]).status = "skipped"

\* There is no first result to look at; or the expiry cannot be told.
Throws(a, c) ==
  /\ Named(a, c)
  /\ \/ results[c] = <<>>
     \/ Head(results[c]).status = "skipped" /\ Valid(a) /\ Unknown(a.frequency)

\* Slip: the new result goes first.
ExtendedInFront(rs, segment) == Cons(segment, rs)

Extended(rs, segment) == Append(rs, segment)

\* The next attestation of the list is applied to the controls up to the first that
\* throws, which has its attestation_data by then if it has results.
Apply(a) ==
  LET throwing == {c \in Controls : Throws(a, c)}
      reached(c) == \A t \in throwing : c < t
      added(c)  == reached(c) /\ CanBeAdded(a, c) /\ Valid(a)
      marked(c) == \/ added(c)
                   \/ /\ c \in throwing /\ \A t \in throwing : c <= t
                      /\ results[c] # <<>>
  IN /\ stage = "applying" /\ Len(list) < MaxAttestations
     /\ results' = [c \in Controls |->
                      IF added(c) THEN Extended(results[c], Segment(a)) ELSE results[c]]
     /\ attestation' = [c \in Controls |-> IF marked(c) THEN a.status ELSE attestation[c]]
     /\ list' = Append(list, a)
     /\ stage' = IF throwing = {} THEN "applying" ELSE "thrown"
     /\ UNCHANGED original

\* The list is at its end.
Finish == stage = "applying" /\ stage' = "done" /\ UNCHANGED <<original, results, attestation, list>>

Next == Finish \/ \E a \in Given : Apply(a)

Spec == Init /\ [][Next]_vars

-----------------------------------------------------------------------------
\* ExecControl.compute_segments.
SegmentStatus(r) == IF r.backtrace THEN "error" ELSE r.status

\* ExecControl.compute_status, of a set of results.
Status(rs, notApplicable) ==
  LET all == {SegmentStatus(r) : r \in rs}
  IN CASE "error" \in all  -> "Profile Error"
       [] notApplicable    -> "Not Applicable"
       [] all = {}         -> "Profile Error"
       [] "failed" \in all -> "Failed"
       [] "passed" \in all -> "Passed"
       [] "skipped" \in all -> "Not Reviewed"
       [] OTHER            -> "Profile Error"

\* What the attestations of the list say of a control, whatever their order.
Attested(c) ==
  IF original[c].results # <<>> /\ Head(original[c].results).status = "skipped"
    THEN {Segment(a) : a \in {b \in ToSet(list) : Named(b, c) /\ Valid(b)}}
    ELSE {}

\* The status of a control follows from its original results and from the set of
\* its attestations: a control that was attested twice, late or by mistake has the
\* status it would have had in any other order, and one that was not skipped keeps
\* its own.
OrderDoesNotMatter ==
  stage = "done" =>
    \A c \in Controls :
      Status(ToSet(results[c]), original[c].notApplicable)
        = Status(ToSet(original[c].results) \cup Attested(c), original[c].notApplicable)
=============================================================================
