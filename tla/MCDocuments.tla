---------------------------- MODULE MCDocuments ----------------------------
(***************************************************************************)
(* Results on their way to the screen: fetched from Splunk, found in a     *)
(* page of the list, attested, tied to their overlays, filtered.  These    *)
(* share no variable: a behaviour is about one of them, as focus says.     *)
(***************************************************************************)
EXTENDS Attestations

CONSTANTS MaxPings, Tables, MaxRows, MaxLength, MaxChanges, Limits, totalGroupMembers,
          Evaluations, Ids, Holds, Statuses, Terms, Trimmed, MaxEntries

VARIABLES
  focus,
  query, loginTimer, job, blocking, interval, queryTimer, continuePing, pings, thrown, found,
  table, ask, changes, page,
  profiles, step, extendsFrom, extendedBy, controlFrom, controlBy,
  loaded, unused, selected, lists, hashes

splunkVars  == <<query, loginTimer, job, blocking, interval, queryTimer, continuePing, pings,
                 thrown, found>>
listingVars == <<table, ask, changes, page>>
overlayVars == <<profiles, step, extendsFrom, extendedBy, controlFrom, controlBy>>
filterVars  == <<loaded, unused, selected, lists, hashes>>
allVars == <<focus, vars, splunkVars, listingVars, overlayVars, filterVars>>

-----------------------------------------------------------------------------
\* Lists of up to MaxLength evaluations, each joined with up to MaxRows rows.
SomeTables ==
  UNION {{[n \in 1 .. k |-> [id |-> n, rows |-> f[n]]] : f \in [1 .. k -> 1 .. MaxRows]} :
           k \in 0 .. MaxLength}

\* Files of one or two controls, with ids that differ in their case.
Of(status) == [status |-> status, backtrace |-> FALSE]
Skipped    == Of("skipped")
SomeResults ==
  {<<>>, <<Skipped>>, <<Of("passed")>>, <<Skipped, Of("failed")>>,
   <<Of("failed"), Skipped>>, <<[Skipped EXCEPT !.backtrace = TRUE]>>}
SomeControls ==
  [id : {"v1", "V1"}, results : SomeResults, notApplicable : BOOLEAN]
    \cup [id : {"v2"}, results : {<<Skipped>>}, notApplicable : {FALSE}]
SomeReports ==
  {<<>>} \cup {<<c>> : c \in SomeControls} \cup {<<c, d>> : c, d \in SomeControls}
LowerCase   == [id \in {"v1", "V1", "v2"} |-> IF id = "v2" THEN "v2" ELSE "v1"]
SomeAttestations ==
  [id : {"V1"}, status : {"passed", "failed", "other"}, frequency : {"weekly", "monthly"}, age : {10}]
    \cup [id : {"v2"}, status : {"failed"}, frequency : {"annually", "unknown"}, age : {10}]

O == INSTANCE Overlays

\* Files of up to three profiles of up to two controls; no profile is its own
\* ancestor, and two profiles may have one name.
Control(id, populated) == [id |-> id, populated |-> populated]
ControlLists ==
  {<<>>, <<Control("v1", TRUE)>>, <<Control("v1", FALSE)>>,
   <<Control("v1", TRUE), Control("v2", TRUE)>>, <<Control("v2", FALSE), Control("v1", FALSE)>>}
Profile(names) ==
  [name : names, parent : {"p1", "p2", "p3", "none"}, controls : ControlLists]
SomeEvaluations ==
  LET files == {<<a>> : a \in Profile({"p1"})}
                 \cup {<<a, b>> : a \in Profile({"p1"}), b \in Profile({"p1", "p2"})}
                 \cup {<<a, b, c>> : a \in Profile({"p1"}), b \in Profile({"p1", "p2"}),
                                     c \in Profile({"p3"})}
      repeated == <<[name |-> "p1", parent |-> "none",
                     controls |-> <<Control("v1", FALSE), Control("v1", TRUE)>>]>>
  IN {e \in files : O!Acyclic(e)} \cup {<<>>, repeated}

\* The files a browser loads: one whose words differ in a blank, one with a control
\* that another extends.
Text(words) == words \cup {""}
SomeContents == [id \in Ids |->
  IF id = "f1"
    THEN {[name |-> "a", status |-> "Passed", waived |-> FALSE, overlaid |-> FALSE,
           words |-> Text({"x", "x "})],
          [name |-> "b", status |-> "Not Applicable", waived |-> TRUE, overlaid |-> FALSE,
           words |-> Text({"x"})]}
    ELSE {[name |-> "c", status |-> "Failed", waived |-> FALSE, overlaid |-> FALSE,
           words |-> Text({})],
          [name |-> "d", status |-> "Failed", waived |-> FALSE, overlaid |-> TRUE,
           words |-> Text({"x"})]}]
SomeStatuses == {{"absent"}, {"Waived"}}
SomeTerms    == {"absent", "x", "x "}
Trim == [t \in SomeTerms \cup {""} |-> IF t = "x " THEN "x" ELSE t]

-----------------------------------------------------------------------------
S == INSTANCE Splunk WITH stage <- query
L == INSTANCE Listing
F == INSTANCE Filters

ASSUME ListingAssumption == L!ListingRight
ASSUME OverlaysAssumption == O!FilesRight
ASSUME FiltersAssumption == F!EmptyIsFound

AtRest(who) ==
  /\ focus = who
  /\ who # "splunk" => S!Ready(TRUE)
  /\ who # "listing" => L!Start(<<>>)
  /\ who # "attestations" => Start(<<>>)
  /\ who # "overlays" => O!Start(<<>>)
  /\ F!Init

InitOne ==
  \/ AtRest("splunk") /\ S!Init
  \/ AtRest("listing") /\ L!Init
  \/ AtRest("attestations") /\ Init
  \/ AtRest("overlays") /\ O!Init
  \/ AtRest("filters")

NextOne ==
  /\ UNCHANGED focus
  /\ \/ focus = "splunk" /\ S!Next
        /\ UNCHANGED <<listingVars, vars, overlayVars, filterVars>>
     \/ focus = "listing" /\ L!Next
        /\ UNCHANGED <<splunkVars, vars, overlayVars, filterVars>>
     \/ focus = "attestations" /\ Next
        /\ UNCHANGED <<splunkVars, listingVars, overlayVars, filterVars>>
     \/ focus = "overlays" /\ O!Next
        /\ UNCHANGED <<splunkVars, listingVars, vars, filterVars>>
     \/ focus = "filters" /\ F!Next
        /\ UNCHANGED <<splunkVars, listingVars, vars, overlayVars>>

\* The timers of a query fire, and its status requests are answered.
Documents == InitOne /\ [][NextOne]_allVars /\ S!Fairness

-----------------------------------------------------------------------------
\* The results a query answers are those of a job that has ended
\* (Splunk.ResultsOfEndedJob).
ResultsOfEndedJob == S!ResultsOfEndedJob

\* The browser does not ping Splunk for ever (Splunk.PingsEnd).
PingsEnd == S!PingsEnd

\* A page of the list holds the evaluations it should where the padding of the
\* limit suffices (Listing.PageRight).
PageRight == L!PageRight

\* The results of every root are counted, once where the file is in order
\* (Overlays.CountedOnce).
CountedOnce == O!CountedOnce

\* What is cached for a filter is what the files say (Filters.AnswersFresh).
AnswersFresh == F!AnswersFresh
=============================================================================
