------------------------------- MODULE Splunk -------------------------------
(***************************************************************************)
(* A query to Splunk (libs/hdf-converters/src/splunk-mapper.ts and         *)
(* utils/splunk-tools.ts), as the browser runs it.                         *)
(*                                                                         *)
(* queryData logs in, creates a search job, tracks it and reads its        *)
(* results.  trackJob only starts two timers: it returns at once, and what *)
(* their callbacks throw reaches nobody, so the query goes on whatever     *)
(* they find.  That the results are those of a job that has ended is due   *)
(* to the blocking mode in which the job is created.                       *)
(***************************************************************************)
EXTENDS Naturals

CONSTANT MaxPings   \* bound on the status requests in flight at once

VARIABLES
  stage,        \* what queryData awaits
  loginTimer,   \* the timer of checkSplunkCredentials
  job,          \* the search job, at Splunk
  blocking,     \* whether Splunk answers the creation of a job when it has ended
  interval,     \* whether the job is pinged
  queryTimer,   \* whether the two minutes are running
  continuePing, \* whether they have not passed
  pings,        \* the status requests in flight
  thrown,       \* what callbacks of timers have thrown
  found         \* the state of the job when its results were read

vars == <<stage, loginTimer, job, blocking, interval, queryTimer, continuePing,
          pings, thrown, found>>
tracker == <<interval, queryTimer, continuePing, pings>>

-----------------------------------------------------------------------------
Ended   == {"done", "bad"}
JobStates == {"none", "running"} \cup Ended
Stages  == {"idle", "check", "login", "create", "results", "answered", "rejected"}
Replies == {"running", "done", "bad", "broken"}

Ready(mode) ==
  /\ stage = "idle" /\ loginTimer = "off"
  /\ job = "none" /\ blocking = mode
  /\ interval = FALSE /\ queryTimer = FALSE /\ continuePing = TRUE
  /\ pings = [p \in 1 .. MaxPings |-> "none"]
  /\ thrown = {} /\ found = "none"

Init == \E mode \in BOOLEAN : Ready(mode)

-----------------------------------------------------------------------------
(* The query. *)

SendLogin(next) == stage' = next /\ loginTimer' = "armed"

\* toHdf checks the credentials before it queries; the list of executions only
\* queries.
Start ==
  /\ stage = "idle"
  /\ \E next \in {"check", "login"} : SendLogin(next)
  /\ UNCHANGED <<job, blocking, tracker, thrown, found>>

\* Five seconds have passed; the request for the session goes on.
LoginTimeout ==
  /\ loginTimer = "armed"
  /\ loginTimer' = "off"
  /\ thrown' = thrown \cup {"login"}
  /\ UNCHANGED <<stage, job, blocking, tracker, found>>

\* The answer to a login, good or bad, clears the timer; after the check comes the
\* login of the query, after that the job.
LandLogin ==
  /\ stage \in {"check", "login"}
  /\ \/ stage = "check" /\ SendLogin("login") /\ UNCHANGED job
     \/ stage = "login" /\ stage' = "create" /\ loginTimer' = "off" /\ job' = "running"
     \/ stage' = "rejected" /\ loginTimer' = "off" /\ UNCHANGED job
  /\ UNCHANGED <<blocking, tracker, thrown, found>>

\* Splunk runs the job.
JobEnds ==
  /\ job = "running"
  /\ job' \in Ended
  /\ UNCHANGED <<stage, loginTimer, blocking, tracker, thrown, found>>

\* Slip: the job may still be running.
LandCreateAnyMode ==
  /\ stage = "create"
  /\ \/ stage' = "results" /\ interval' = TRUE /\ queryTimer' = TRUE
     \/ stage' = "rejected" /\ UNCHANGED <<interval, queryTimer>>
  /\ UNCHANGED <<loginTimer, job, blocking, continuePing, pings, thrown, found>>

\* createJob asks for exec_mode=blocking; its answer starts the timers of trackJob,
\* and the results are requested right away.
LandCreate ==
  /\ stage = "create"
  /\ \/ /\ blocking => job \in Ended
        /\ stage' = "results" /\ interval' = TRUE /\ queryTimer' = TRUE
     \/ stage' = "rejected" /\ UNCHANGED <<interval, queryTimer>>
  /\ UNCHANGED <<loginTimer, job, blocking, continuePing, pings, thrown, found>>

\* Splunk serves what the job has found, or an error.
LandResults ==
  /\ stage = "results"
  /\ \/ stage' = "answered" /\ found' = job
     \/ stage' = "rejected" /\ UNCHANGED found
  /\ UNCHANGED <<loginTimer, job, blocking, tracker, thrown>>

-----------------------------------------------------------------------------
(* The tracker. *)

\* Fifty milliseconds have passed.
Ping(p) ==
  /\ interval /\ pings[p] = "none"
  /\ pings' = [pings EXCEPT ![p] = "sent"]
  /\ UNCHANGED <<stage, loginTimer, job, blocking, interval, queryTimer, continuePing,
                 thrown, found>>

ServePing(p) ==
  /\ pings[p] = "sent"
  /\ pings' \in {[pings EXCEPT ![p] = job], [pings EXCEPT ![p] = "broken"]}
  /\ UNCHANGED <<stage, loginTimer, job, blocking, interval, queryTimer, continuePing,
                 thrown, found>>

\* Slip: pings go on if nothing comes of the job in time.
LandPingForever(p) ==
  /\ pings[p] \in Replies
  /\ pings' = [pings EXCEPT ![p] = "none"]
  /\ IF pings[p] = "running"
       THEN UNCHANGED <<interval, queryTimer, thrown>>
       ELSE interval' = FALSE /\ queryTimer' = FALSE /\ UNCHANGED thrown
  /\ UNCHANGED <<stage, loginTimer, job, blocking, continuePing, found>>

\* A request that failed or made no sense, the end of the job and its failure
\* clear both timers; a job that runs is pinged until the two minutes have passed.
LandPing(p) ==
  /\ pings[p] \in Replies
  /\ pings' = [pings EXCEPT ![p] = "none"]
  /\ IF pings[p] = "running"
       THEN interval' = (interval /\ continuePing) /\ UNCHANGED <<queryTimer, thrown>>
       ELSE /\ interval' = FALSE /\ queryTimer' = FALSE
            /\ thrown' = IF pings[p] = "done" THEN thrown ELSE thrown \cup {pings[p]}
  /\ UNCHANGED <<stage, loginTimer, job, blocking, continuePing, found>>

\* Two minutes have passed.
QueryTimeout ==
  /\ queryTimer
  /\ queryTimer' = FALSE /\ continuePing' = FALSE
  /\ thrown' = thrown \cup {"query"}
  /\ UNCHANGED <<stage, loginTimer, job, blocking, interval, pings, found>>

-----------------------------------------------------------------------------
Next ==
  \/ Start \/ LoginTimeout \/ LandLogin \/ JobEnds \/ LandCreate \/ LandResults
  \/ QueryTimeout
  \/ \E p \in 1 .. MaxPings : Ping(p) \/ ServePing(p) \/ LandPing(p)

\* Timers fire and status requests are answered; whether the job ever ends is up to
\* Splunk.
Fairness ==
  /\ WF_vars(QueryTimeout)
  /\ \A p \in 1 .. MaxPings : WF_vars(Ping(p)) /\ WF_vars(ServePing(p)) /\ WF_vars(LandPing(p))

Spec == Init /\ [][Next]_vars /\ Fairness

-----------------------------------------------------------------------------
TypeOK ==
  /\ stage \in Stages /\ loginTimer \in {"off", "armed"}
  /\ job \in JobStates /\ found \in JobStates /\ blocking \in BOOLEAN
  /\ interval \in BOOLEAN /\ queryTimer \in BOOLEAN /\ continuePing \in BOOLEAN
  /\ pings \in [1 .. MaxPings -> {"none", "sent"} \cup Replies]
  /\ thrown \subseteq {"login", "query", "bad", "broken"}

\* The results a query answers are those of a job that has ended, although nothing
\* waits for the tracker: Splunk answers a blocking creation no sooner.
ResultsOfEndedJob == stage = "answered" /\ blocking => found \in Ended

\* The tracker comes to rest, whatever becomes of the job and of its answers: a
\* tab that is left open does not ping Splunk for ever.
PingsEnd == interval ~> ~interval

\* "If search job returns a bad state result, kill interval loop and fail the
\* query" (splunk-mapper.ts): once the job was found in a bad state the query is not
\* answered.
BadStateFailsQuery ==
  [][blocking /\ "bad" \in thrown /\ stage # "answered" => stage' # "answered"]_vars
=============================================================================
