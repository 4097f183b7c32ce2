-------------------------- MODULE DocumentsProofs --------------------------
(***************************************************************************)
(* Proofs about the instances of MCDocuments: a query to Splunk, for any   *)
(* number of status requests in flight, whatever the tracker finds and     *)
(* whenever its timers fire; the caches of filters, for any files, filters *)
(* and sizes of the caches; the pages of the list of evaluations, for any  *)
(* list, any limits and any padding; and the links of a file, for any      *)
(* whose profiles are not their own ancestors.                             *)
(***************************************************************************)
EXTENDS MCDocuments, FiniteSetTheorems, SequenceTheorems, TLAPS

-----------------------------------------------------------------------------
(* A query to Splunk. *)

\* When the results of a blocking job are asked for, the job has ended.
AskedWhenEnded == query = "results" /\ blocking => job \in S!Ended

QueryInv == AskedWhenEnded /\ ResultsOfEndedJob

LEMMA QueryInvHolds == S!Spec => []QueryInv
<1>1. S!Init => QueryInv
  BY DEF S!Init, S!Ready, QueryInv, AskedWhenEnded, ResultsOfEndedJob, S!ResultsOfEndedJob
<1>2. ASSUME QueryInv, [S!Next]_S!vars PROVE QueryInv'
  <2> USE <1>2 DEF QueryInv, AskedWhenEnded, ResultsOfEndedJob, S!ResultsOfEndedJob
  <2>1. CASE S!Start
    BY <2>1 DEF S!Start, S!SendLogin
  <2>2. CASE S!LoginTimeout
    BY <2>2 DEF S!LoginTimeout
  <2>3. CASE S!LandLogin
    BY <2>3 DEF S!LandLogin, S!SendLogin
  <2>4. CASE S!JobEnds
    BY <2>4 DEF S!JobEnds
  <2>5. CASE S!LandCreate
    BY <2>5 DEF S!LandCreate
  <2>6. CASE S!LandResults
    BY <2>6 DEF S!LandResults
  <2>7. CASE S!QueryTimeout
    BY <2>7 DEF S!QueryTimeout
  <2>8. CASE \E p \in 1 .. MaxPings : S!Ping(p) \/ S!ServePing(p) \/ S!LandPing(p)
    BY <2>8 DEF S!Ping, S!ServePing, S!LandPing
  <2>9. CASE UNCHANGED S!vars
    BY <2>9 DEF S!vars
  <2> QED
    BY <2>1, <2>2, <2>3, <2>4, <2>5, <2>6, <2>7, <2>8, <2>9 DEF S!Next
<1> QED
  BY <1>1, <1>2, PTL DEF S!Spec

\* The results that a query answers are those of a job that has ended, for any number
\* of status requests in flight and although nothing waits for the tracker
\* (SplunkMapper.queryData): the blocking creation of the job is what makes it so.
THEOREM EndedJob == S!Spec => []ResultsOfEndedJob
<1>1. QueryInv => ResultsOfEndedJob
  BY DEF QueryInv
<1> QED
  BY <1>1, QueryInvHolds, PTL

\* Every variable of a query has its type, for any number of status requests in
\* flight (SplunkMapper.trackJob).
THEOREM QueryTypeCorrect == S!Spec => []S!TypeOK
<1>1. S!Init => S!TypeOK
  BY DEF S!Init, S!Ready, S!TypeOK, S!Stages, S!JobStates, S!Ended, S!Replies
<1>2. ASSUME S!TypeOK, [S!Next]_S!vars PROVE S!TypeOK'
  <2> USE <1>2 DEF S!TypeOK, S!Stages, S!JobStates, S!Ended, S!Replies
  <2>1. CASE S!Start
    BY <2>1 DEF S!Start, S!SendLogin, S!tracker
  <2>2. CASE S!LoginTimeout
    BY <2>2 DEF S!LoginTimeout, S!tracker
  <2>3. CASE S!LandLogin
    BY <2>3 DEF S!LandLogin, S!SendLogin, S!tracker
  <2>4. CASE S!JobEnds
    BY <2>4 DEF S!JobEnds, S!tracker
  <2>5. CASE S!LandCreate
    BY <2>5 DEF S!LandCreate
  <2>6. CASE S!LandResults
    BY <2>6 DEF S!LandResults, S!tracker
  <2>7. CASE S!QueryTimeout
    BY <2>7 DEF S!QueryTimeout
  <2>8. ASSUME NEW p \in 1 .. MaxPings, S!Ping(p) PROVE S!TypeOK'
    BY <2>8 DEF S!Ping
  <2>9. ASSUME NEW p \in 1 .. MaxPings, S!ServePing(p) PROVE S!TypeOK'
    BY <2>9 DEF S!ServePing
  <2>10. ASSUME NEW p \in 1 .. MaxPings, S!LandPing(p) PROVE S!TypeOK'
    <3>1. pings' \in [1 .. MaxPings -> {"none", "sent"} \cup S!Replies]
      BY <2>10 DEF S!LandPing
    <3>2. interval' \in BOOLEAN /\ queryTimer' \in BOOLEAN
      BY <2>10 DEF S!LandPing
    <3>3. thrown' \subseteq {"login", "query", "bad", "broken"}
      <4>1. pings[p] # "done" /\ pings[p] # "running" => pings[p] \in {"bad", "broken"}
        <5>1. pings[p] \in S!Replies
          BY <2>10 DEF S!LandPing
        <5> QED
          BY <5>1
      <4>2. pings[p] = "running" \/ pings[p] = "done" => thrown' = thrown
        BY <2>10 DEF S!LandPing
      <4>3. pings[p] # "running" /\ pings[p] # "done" => thrown' = thrown \cup {pings[p]}
        BY <2>10 DEF S!LandPing
      <4> QED
        BY <4>1, <4>2, <4>3
    <3> QED
      BY <2>10, <3>1, <3>2, <3>3 DEF S!LandPing
  <2>11. CASE UNCHANGED S!vars
    BY <2>11 DEF S!vars, S!tracker
  <2> QED
    BY <2>1, <2>2, <2>3, <2>4, <2>5, <2>6, <2>7, <2>8, <2>9, <2>10, <2>11 DEF S!Next
<1> QED
  BY <1>1, <1>2, PTL DEF S!Spec

-----------------------------------------------------------------------------
(* The caches of filters. *)

\* What a filter lets through in all the files it names, loaded or not.
Answer(f) ==
  {c \in UNION {Holds[id] : id \in F!ToSet(f.fromFile)} :
     /\ F!HasStatus(c, f.status)
     /\ f.omit_overlayed_controls = "yes" => ~c.overlaid
     /\ f.searchTerm # F!NoTerm => f.searchTerm \in c.words}

\* A filter and the key of one; a filter without statuses is also asked for with an
\* empty list of them.
Filter ==
  [fromFile : Seq(Ids), status : Statuses \cup {{}},
   omit_overlayed_controls : {"absent", "yes"}, searchTerm : Terms]
Key ==
  [fromFile : Seq(Ids), status : Statuses \cup {{}},
   omit_overlayed_controls : {"no", "yes"}, searchTerm : Terms \cup {""}]

\* What is cached for a key follows from the key alone.
RightList   == {[key |-> k, answer |-> Answer(k)] : k \in Key}
RightHash   == {[key |-> k, answer |-> F!CountOf(Answer(k))] : k \in Key}

\* Only loaded files are selected, each once, and everything cached is right.
CacheInv ==
  /\ loaded \subseteq Ids /\ unused \cap loaded = {}
  /\ selected \in Seq(loaded)
  /\ \A i, j \in DOMAIN selected : selected[i] = selected[j] => i = j
  /\ lists \in Seq(RightList) /\ hashes \in Seq(RightHash)

LEMMA FirstPlace ==
  ASSUME NEW T, T \subseteq Nat, T # {}
  PROVE  \E x \in T : \A y \in T : x <= y
<1> DEFINE R == StrictSubsetOrdering(Nat)
           B == {1 .. n : n \in T}
<1>1. IsWellFoundedOn(R, FiniteSubsetsOf(Nat))
  BY FS_StrictSubsetOrderingWellFounded
<1>2. B \subseteq FiniteSubsetsOf(Nat) /\ B # {}
  <2>1. ASSUME NEW n \in T PROVE 1 .. n \in FiniteSubsetsOf(Nat)
    <3>1. n \in Int /\ 1 \in Int /\ 1 .. n \subseteq Nat
      OBVIOUS
    <3> QED
      BY <3>1, FS_Interval DEF FiniteSubsetsOf
  <2> QED
    BY <2>1
<1>3. ASSUME NEW x \in Nat, NEW y \in Nat, y < x PROVE <<1 .. y, 1 .. x>> \in R
  <2>1. x \in 1 .. x /\ x \notin 1 .. y /\ 1 .. y \subseteq 1 .. x
    BY <1>3
  <2>2. 1 .. y # 1 .. x /\ 1 .. y \in SUBSET Nat /\ 1 .. x \in SUBSET Nat
    BY <2>1
  <2> QED
    BY <2>1, <2>2 DEF StrictSubsetOrdering
<1> HIDE DEF R
<1>4. \E b \in B : \A c \in B : ~(<<c, b>> \in R)
  <2> HIDE DEF B
  <2> QED
    BY <1>1, <1>2, WFMin
<1>5. PICK x \in T : \A c \in B : ~(<<c, 1 .. x>> \in R)
  BY <1>4
<1>6. \A y \in T : ~(<<1 .. y, 1 .. x>> \in R)
  BY <1>5
<1>7. ASSUME NEW y \in T PROVE x <= y
  <2>1. x \in Nat /\ y \in Nat
    OBVIOUS
  <2>2. ~(y < x)
    BY <2>1, <1>3, <1>6
  <2> QED
    BY <2>1, <2>2
<1> QED
  BY <1>7

\* Where a cache has a key.
LEMMA PlaceFound ==
  ASSUME NEW E, NEW cache \in Seq(E), NEW key
  PROVE  LET n == F!Place(cache, key)
         IN n = 0 \/ (n \in DOMAIN cache /\ cache[n].key = key)
<1> DEFINE I == {i \in 1 .. Len(cache) : cache[i].key = key}
<1>1. CASE I = {}
  BY <1>1 DEF F!Place, F!SelectInSeq
<1>2. CASE I # {}
  <2>1. I \subseteq Nat
    OBVIOUS
  <2>2. PICK x \in I : \A y \in I : x <= y
    <3> HIDE DEF I
    <3> QED
      BY <1>2, <2>1, FirstPlace
  <2>3. F!Place(cache, key) \in I
    BY <2>2 DEF F!Place, F!SelectInSeq, F!Min
  <2> QED
    BY <2>3
<1> QED
  BY <1>1, <1>2

LEMMA Removed ==
  ASSUME NEW E, NEW s \in Seq(E), NEW n \in DOMAIN s
  PROVE  /\ F!RemoveAt(s, n) \in Seq(E)
         /\ Len(F!RemoveAt(s, n)) = Len(s) - 1
         /\ \A i \in 1 .. Len(s) - 1 : F!RemoveAt(s, n)[i] = IF i < n THEN s[i] ELSE s[i + 1]
<1> DEFINE a == SubSeq(s, 1, n - 1)
           b == SubSeq(s, n + 1, Len(s))
<1>1. a \in Seq(E) /\ Len(a) = n - 1 /\ \A i \in 1 .. n - 1 : a[i] = s[i]
  OBVIOUS
<1>2. b \in Seq(E) /\ Len(b) = Len(s) - n /\ \A i \in 1 .. Len(s) - n : b[i] = s[i + n]
  OBVIOUS
<1>3. n \in 1 .. Len(s) /\ Len(s) \in Nat
  OBVIOUS
<1> HIDE DEF a, b
<1>4. a \o b \in Seq(E) /\ Len(a \o b) = Len(s) - 1
  BY <1>1, <1>2, <1>3
<1>5. ASSUME NEW i \in 1 .. Len(s) - 1
      PROVE  (a \o b)[i] = IF i < n THEN s[i] ELSE s[i + 1]
  BY <1>1, <1>2, <1>3
<1> QED
  BY <1>4, <1>5 DEF F!RemoveAt, a, b

\* A use of a cache keeps the type of its entries.
LEMMA UsedType ==
  ASSUME NEW E, NEW cache \in Seq(E), NEW entry \in E
  PROVE  F!Used(cache, entry) \in Seq(E)
<1> DEFINE n == F!Place(cache, entry.key)
           rest == IF n = 0 THEN cache ELSE F!RemoveAt(cache, n)
           start == IF Len(rest) = MaxEntries THEN 2 ELSE 1
<1>1. rest \in Seq(E)
  BY PlaceFound, Removed
<1>2. start \in {1, 2}
  OBVIOUS
<1> HIDE DEF rest, start
<1>3. SubSeq(rest, start, Len(rest)) \in Seq(E)
  BY <1>1, <1>2
<1>4. F!Used(cache, entry) = Append(SubSeq(rest, start, Len(rest)), entry)
  BY DEF F!Used, rest, start
<1> QED
  BY <1>3, <1>4

LEMMA KeyAnswer ==
  ASSUME NEW f \in Filter
  PROVE  F!filter_cache_key(f) \in Key /\ Answer(F!filter_cache_key(f)) = Answer(f)
<1> DEFINE k == F!filter_cache_key(f)
<1>1. /\ k.fromFile = f.fromFile /\ k.status = f.status
      /\ k.omit_overlayed_controls = "yes" <=> f.omit_overlayed_controls = "yes"
      /\ k.searchTerm = IF f.searchTerm = F!NoTerm THEN "" ELSE f.searchTerm
  BY DEF F!filter_cache_key, F!Default, Filter
<1>2. k \in Key
  BY DEF F!filter_cache_key, F!Default, Filter, Key
<1> HIDE DEF k
<1>3. f.fromFile \in Seq(Ids)
  BY DEF Filter
<1>4. \A c \in UNION {Holds[id] : id \in F!ToSet(f.fromFile)} : "" \in c.words
  <2>1. F!ToSet(f.fromFile) \subseteq Ids
    BY <1>3 DEF F!ToSet
  <2> QED
    BY <2>1, FiltersAssumption DEF F!EmptyIsFound
<1>5. F!NoTerm # ""
  BY DEF F!NoTerm
<1>6. Answer(k) = Answer(f)
  <2>1. ASSUME NEW c \in UNION {Holds[id] : id \in F!ToSet(f.fromFile)}
        PROVE  (k.searchTerm # F!NoTerm => k.searchTerm \in c.words)
                 <=> (f.searchTerm # F!NoTerm => f.searchTerm \in c.words)
    BY <1>1, <1>4, <1>5
  <2> QED
    BY <1>1, <2>1 DEF Answer
<1> QED
  BY <1>2, <1>6 DEF k

\* Of files that are loaded a filter answers what it should.
LEMMA MatchingAnswer ==
  ASSUME NEW f, F!ToSet(f.fromFile) \subseteq loaded
  PROVE  F!Matching(f) = Answer(f)
<1>1. loaded \cap F!ToSet(f.fromFile) = F!ToSet(f.fromFile)
  OBVIOUS
<1> QED
  BY <1>1 DEF F!Matching, Answer

LEMMA AskedType ==
  ASSUME CacheInv, NEW f \in F!Asked
  PROVE  f \in Filter /\ F!ToSet(f.fromFile) \subseteq loaded
<1>1. f.fromFile \in Seq(loaded)
  <2>1. f.fromFile = selected \/ \E g \in loaded : f.fromFile = <<g>>
    BY DEF F!Asked
  <2>2. ASSUME NEW g \in loaded PROVE <<g>> \in Seq(loaded)
    OBVIOUS
  <2>3. selected \in Seq(loaded)
    BY DEF CacheInv
  <2> QED
    BY <2>1, <2>2, <2>3
<1>2. f.fromFile \in Seq(Ids)
  BY <1>1 DEF CacheInv
<1>3. f \in Filter
  BY <1>2 DEF F!Asked, Filter
<1> QED
  BY <1>1, <1>3 DEF F!ToSet

LEMMA ListRight ==
  ASSUME CacheInv, NEW f \in Filter, F!ToSet(f.fromFile) \subseteq loaded
  PROVE  F!List(f).answer = Answer(f) /\ F!List(f).cache \in Seq(RightList)
<1> DEFINE k == F!filter_cache_key(f)
           n == F!Place(lists, k)
           answer == IF n = 0 THEN F!Matching(f) ELSE lists[n].answer
<1>1. k \in Key /\ Answer(k) = Answer(f)
  BY KeyAnswer
<1>2. lists \in Seq(RightList)
  BY DEF CacheInv
<1> HIDE DEF k
<1>3. answer = Answer(f)
  <2>1. CASE n = 0
    BY <2>1, MatchingAnswer
  <2>2. CASE n # 0
    <3>1. n \in DOMAIN lists /\ lists[n].key = k
      BY <1>2, <2>2, PlaceFound
    <3>2. lists[n] \in RightList
      BY <1>2, <3>1
    <3>3. lists[n].answer = Answer(lists[n].key)
      BY <3>2 DEF RightList
    <3> QED
      BY <1>1, <2>2, <3>1, <3>3
  <2> QED
    BY <2>1, <2>2
<1> HIDE DEF answer
<1>4. [key |-> k, answer |-> answer] \in RightList
  BY <1>1, <1>3 DEF RightList
<1>5. F!List(f) = [answer |-> answer, cache |-> F!Used(lists, [key |-> k, answer |-> answer])]
  BY DEF F!List, k, answer
<1> QED
  BY <1>2, <1>3, <1>4, <1>5, UsedType

\* What is no longer selected is gone from the selection.
LEMMA UnselectedType ==
  ASSUME CacheInv, NEW id
  PROVE  /\ F!Unselected(id) \in Seq(loaded \ {id})
         /\ \A i, j \in DOMAIN F!Unselected(id) :
              F!Unselected(id)[i] = F!Unselected(id)[j] => i = j
<1> DEFINE I == {i \in 1 .. Len(selected) : selected[i] = id}
<1>1. /\ selected \in Seq(loaded)
      /\ \A i, j \in 1 .. Len(selected) : selected[i] = selected[j] => i = j
  BY DEF CacheInv
<1>2. CASE I = {}
  <2>1. F!Unselected(id) = selected
    BY <1>2 DEF F!Unselected, F!RemoveFirst
  <2>2. \A i \in 1 .. Len(selected) : selected[i] \in loaded \ {id}
    BY <1>1, <1>2
  <2>3. selected \in Seq(loaded \ {id})
    BY <1>1, <2>2
  <2> QED
    BY <1>1, <2>1, <2>3
<1>3. CASE I # {}
  <2>1. I \subseteq Nat
    OBVIOUS
  <2>2. PICK n \in I : \A m \in I : n <= m
    <3> HIDE DEF I
    <3> QED
      BY <1>3, <2>1, FirstPlace
  <2>3. F!SelectInSeq(selected, LAMBDA v : v = id) = n
    BY <2>2 DEF F!SelectInSeq, F!Min
  <2>4. F!Unselected(id) = F!RemoveAt(selected, n)
    BY <2>2, <2>3 DEF F!Unselected, F!RemoveFirst
  <2> DEFINE t == F!RemoveAt(selected, n)
  <2>5. n \in 1 .. Len(selected) /\ selected[n] = id
    BY <2>2
  <2>6. /\ t \in Seq(loaded) /\ Len(t) = Len(selected) - 1
        /\ \A i \in 1 .. Len(selected) - 1 :
             t[i] = IF i < n THEN selected[i] ELSE selected[i + 1]
    BY <1>1, <2>5, Removed
  <2> HIDE DEF t
  <2>7. \A i \in 1 .. Len(t) : t[i] \in loaded \ {id}
    BY <1>1, <2>5, <2>6
  <2>8. t \in Seq(loaded \ {id})
    BY <2>6, <2>7
  <2>9. \A i, j \in 1 .. Len(t) : t[i] = t[j] => i = j
    BY <1>1, <2>5, <2>6
  <2> QED
    BY <2>4, <2>8, <2>9 DEF t
<1> QED
  BY <1>2, <1>3

LEMMA AskControlsStep ==
  ASSUME CacheInv, NEW f \in F!Asked, F!AskControls(f)
  PROVE  CacheInv'
<1>1. lists' \in Seq(RightList)
  BY AskedType, ListRight DEF F!AskControls
<1>2. UNCHANGED <<loaded, unused, selected, hashes>>
  BY DEF F!AskControls
<1> QED
  BY <1>1, <1>2 DEF CacheInv

LEMMA AskCountsStep ==
  ASSUME CacheInv, NEW f \in F!Asked, F!AskCounts(f)
  PROVE  CacheInv'
<1> DEFINE k == F!filter_cache_key(f)
           n == F!Place(hashes, k)
           g == [f EXCEPT !.status = IF @ = F!NoStatus THEN {} ELSE @]
<1>1. f \in Filter /\ F!ToSet(f.fromFile) \subseteq loaded
  BY AskedType
<1>2. /\ g \in Filter /\ g.fromFile = f.fromFile
      /\ g.omit_overlayed_controls = f.omit_overlayed_controls /\ g.searchTerm = f.searchTerm
      /\ g.status = IF f.status = F!NoStatus THEN {} ELSE f.status
  BY <1>1 DEF Filter
<1>3. UNCHANGED <<loaded, unused, selected>>
  BY DEF F!AskCounts
<1>4. lists \in Seq(RightList) /\ hashes \in Seq(RightHash)
  BY DEF CacheInv
<1> HIDE DEF g
<1>5. Answer(g) = Answer(f)
  <2>1. \A c : F!HasStatus(c, g.status) <=> F!HasStatus(c, f.status)
    BY <1>2 DEF F!HasStatus, F!NoStatus
  <2> QED
    BY <1>2, <2>1 DEF Answer
<1>6. F!List(g).answer = Answer(f) /\ F!List(g).cache \in Seq(RightList)
  BY <1>1, <1>2, <1>5, ListRight
<1>7. k \in Key /\ Answer(k) = Answer(f)
  BY <1>1, KeyAnswer
<1>8. CASE n # 0
  <2>1. hashes' = F!Used(hashes, hashes[n]) /\ lists' = lists
    BY <1>8 DEF F!AskCounts
  <2>2. n \in DOMAIN hashes
    BY <1>4, <1>8, PlaceFound
  <2>3. hashes[n] \in RightHash
    BY <1>4, <2>2
  <2>4. hashes' \in Seq(RightHash)
    BY <1>4, <2>1, <2>3, UsedType
  <2> QED
    BY <1>3, <1>4, <2>1, <2>4 DEF CacheInv
<1>9. CASE n = 0
  <2> DEFINE entry == [key |-> k, answer |-> F!CountOf(F!List(g).answer)]
  <2>1. hashes' = F!Used(hashes, entry) /\ lists' = F!List(g).cache
    BY <1>9 DEF F!AskCounts, g
  <2>2. entry \in RightHash
    <3> HIDE DEF k
    <3> QED
      BY <1>6, <1>7 DEF RightHash
  <2> HIDE DEF entry
  <2>3. hashes' \in Seq(RightHash)
    BY <1>4, <2>1, <2>2, UsedType
  <2> QED
    BY <1>3, <1>6, <2>1, <2>3 DEF CacheInv
<1> QED
  BY <1>8, <1>9

LEMMA SelectedInFront ==
  ASSUME CacheInv, NEW set, loaded \subseteq set, NEW id \in set,
         \A i \in DOMAIN selected : selected[i] # id
  PROVE  LET t == F!Cons(id, selected)
         IN t \in Seq(set) /\ \A i, j \in DOMAIN t : t[i] = t[j] => i = j
<1> DEFINE t == <<id>> \o selected
<1>1. /\ selected \in Seq(set)
      /\ \A i, j \in 1 .. Len(selected) : selected[i] = selected[j] => i = j
  BY DEF CacheInv
<1>2. /\ t \in Seq(set) /\ Len(t) = Len(selected) + 1 /\ t[1] = id
      /\ \A i \in 2 .. Len(t) : t[i] = selected[i - 1]
  BY <1>1
<1>3. F!Cons(id, selected) = t
  BY DEF F!Cons
<1> HIDE DEF t
<1>4. ASSUME NEW i \in 1 .. Len(t), NEW j \in 1 .. Len(t), t[i] = t[j] PROVE i = j
  <2>1. Len(selected) \in Nat /\ DOMAIN selected = 1 .. Len(selected)
    BY <1>1
  <2>2. \A m \in 1 .. Len(t) : m # 1 => m - 1 \in 1 .. Len(selected) /\ t[m] = selected[m - 1]
    BY <1>2, <2>1
  <2>3. \A m \in 1 .. Len(t) : m # 1 => t[m] # id
    BY <2>1, <2>2
  <2>4. CASE i = 1 \/ j = 1
    BY <1>2, <1>4, <2>3, <2>4
  <2>5. CASE i # 1 /\ j # 1
    <3>1. i - 1 = j - 1
      BY <1>1, <1>4, <2>2, <2>5
    <3> QED
      BY <1>2, <2>1, <3>1
  <2> QED
    BY <2>4, <2>5
<1> QED
  BY <1>2, <1>3, <1>4

LEMMA CacheInvHolds == F!Spec => []CacheInv
<1>1. F!Init => CacheInv
  BY DEF F!Init, CacheInv
<1>2. ASSUME CacheInv, [F!Next]_F!vars PROVE CacheInv'
  <2>1. ASSUME NEW id \in Ids, F!Load(id) PROVE CacheInv'
    <3> DEFINE set == loaded \cup {id}
    <3>1. /\ id \in unused /\ loaded' = set /\ selected' = F!Cons(id, selected)
          /\ UNCHANGED <<lists, hashes>>
      BY <2>1 DEF F!Load
    <3>2. \A i \in DOMAIN selected : selected[i] \in loaded
      BY <1>2 DEF CacheInv
    <3>3. \A i \in DOMAIN selected : selected[i] # id
      BY <1>2, <3>1, <3>2 DEF CacheInv
    <3>4. /\ selected' \in Seq(set)
          /\ \A i, j \in DOMAIN selected' : selected'[i] = selected'[j] => i = j
      BY <1>2, <3>1, <3>3, SelectedInFront
    <3>5. set \subseteq Ids /\ unused' \subseteq unused /\ unused' \cap set = {}
      BY <1>2, <2>1 DEF F!Load, CacheInv
    <3> QED
      BY <1>2, <3>1, <3>4, <3>5 DEF CacheInv
  <2>2. ASSUME NEW id \in Ids, F!RemoveFile(id) PROVE CacheInv'
    BY <1>2, <2>2, UnselectedType DEF F!RemoveFile, CacheInv
  <2>3. ASSUME NEW id \in Ids, F!Toggle(id) PROVE CacheInv'
    <3>1. id \in loaded /\ UNCHANGED <<loaded, unused, lists, hashes>>
      BY <2>3 DEF F!Toggle
    <3>2. CASE id \in F!ToSet(selected)
      <4>1. selected' = F!Unselected(id)
        BY <2>3, <3>2 DEF F!Toggle
      <4>2. /\ selected' \in Seq(loaded \ {id})
            /\ \A i, j \in DOMAIN selected' : selected'[i] = selected'[j] => i = j
        BY <1>2, <4>1, UnselectedType
      <4>3. selected' \in Seq(loaded)
        BY <4>2
      <4> QED
        BY <1>2, <3>1, <4>2, <4>3 DEF CacheInv
    <3>3. CASE id \notin F!ToSet(selected)
      <4>1. selected' = F!Cons(id, selected)
        BY <2>3, <3>3 DEF F!Toggle
      <4>2. \A i \in DOMAIN selected : selected[i] # id
        BY <3>3 DEF F!ToSet
      <4>3. /\ selected' \in Seq(loaded)
            /\ \A i, j \in DOMAIN selected' : selected'[i] = selected'[j] => i = j
        BY <1>2, <3>1, <4>1, <4>2, SelectedInFront
      <4> QED
        BY <1>2, <3>1, <4>3 DEF CacheInv
    <3> QED
      BY <3>2, <3>3
  <2>4. ASSUME NEW f \in F!Asked, F!AskControls(f) PROVE CacheInv'
    BY <1>2, <2>4, AskControlsStep
  <2>5. ASSUME NEW f \in F!Asked, F!AskCounts(f) PROVE CacheInv'
    BY <1>2, <2>5, AskCountsStep
  <2>6. CASE UNCHANGED F!vars
    BY <1>2, <2>6 DEF F!vars, CacheInv
  <2> QED
    BY <1>2, <2>1, <2>2, <2>3, <2>4, <2>5, <2>6 DEF F!Next
<1> QED
  BY <1>1, <1>2, PTL DEF F!Spec

\* Whatever was loaded, removed, selected and asked for before, a cache never answers
\* a filter with anything but what the files say, for any files, any filters and any
\* size of the caches (FilteredData.controls, StatusCount.hash).
THEOREM CachesFresh == F!Spec => []AnswersFresh
<1>1. ASSUME CacheInv, NEW f \in F!Asked
      PROVE  /\ \A n \in DOMAIN lists :
                  lists[n].key = F!filter_cache_key(f) => lists[n].answer = F!Matching(f)
             /\ \A n \in DOMAIN hashes :
                  hashes[n].key = F!filter_cache_key(f)
                    => hashes[n].answer = F!CountOf(F!Matching(f))
  <2>1. F!Matching(f) = Answer(F!filter_cache_key(f))
    BY <1>1, AskedType, KeyAnswer, MatchingAnswer
  <2>2. ASSUME NEW n \in DOMAIN lists PROVE lists[n].answer = Answer(lists[n].key)
    <3>1. lists[n] \in RightList
      BY <1>1, <2>2 DEF CacheInv
    <3> QED
      BY <3>1 DEF RightList
  <2>3. ASSUME NEW n \in DOMAIN hashes PROVE hashes[n].answer = F!CountOf(Answer(hashes[n].key))
    <3>1. hashes[n] \in RightHash
      BY <1>1, <2>3 DEF CacheInv
    <3> QED
      BY <3>1 DEF RightHash
  <2> QED
    BY <2>1, <2>2, <2>3
<1>2. CacheInv => AnswersFresh
  BY <1>1 DEF AnswersFresh, F!AnswersFresh
<1> QED
  BY <1>2, CacheInvHolds, PTL

-----------------------------------------------------------------------------
(* A page of the list of evaluations. *)

Lists == Seq([id : Nat, rows : Nat \ {0}])

LEMMA RowOf ==
  ASSUME NEW t \in Lists, NEW n \in 1 .. Len(t)
  PROVE  t[n].id \in Nat /\ t[n].rows \in Nat \ {0}
<1>1. t[n] \in [id : Nat, rows : Nat \ {0}]
  BY ElementOfSeq DEF Lists
<1> QED
  BY <1>1

\* sum is the prefix sums of the rows of t, as far as k.
Sums(sum, t, k) ==
  sum = [n \in 0 .. k |-> IF n = 0 THEN 0 ELSE sum[n - 1] + t[n].rows]

LEMMA SumsExist ==
  ASSUME NEW t, NEW k \in Nat
  PROVE  \E sum : Sums(sum, t, k)
<1> DEFINE Bad == {m \in Nat : ~ \E sum : Sums(sum, t, m)}
<1> SUFFICES ASSUME Bad # {} PROVE FALSE
  OBVIOUS
<1>1. PICK m \in Bad : \A n \in Bad : m <= n
  BY FirstPlace
<1>2. m # 0
  <2>1. Sums([n \in 0 .. 0 |-> 0], t, 0)
    BY DEF Sums
  <2> QED
    BY <2>1
<1>3. m - 1 \in Nat /\ m - 1 \notin Bad
  BY <1>1, <1>2
<1>4. PICK f : Sums(f, t, m - 1)
  BY <1>3
<1> DEFINE g == [n \in 0 .. m |-> IF n = m THEN f[m - 1] + t[m].rows ELSE f[n]]
<1>5. \A n \in 0 .. m - 1 : g[n] = f[n]
  BY <1>3
<1>6. ASSUME NEW n \in 0 .. m
      PROVE  g[n] = IF n = 0 THEN 0 ELSE g[n - 1] + t[n].rows
  <2>1. CASE n = m
    BY <2>1, <1>2, <1>3, <1>5
  <2>2. CASE n # m
    <3>1. n \in 0 .. m - 1 /\ (n # 0 => n - 1 \in 0 .. m - 1)
      BY <2>2, <1>3
    <3>2. f[n] = IF n = 0 THEN 0 ELSE f[n - 1] + t[n].rows
      BY <3>1, <1>4 DEF Sums
    <3> QED
      BY <1>5, <3>1, <3>2
  <2> QED
    BY <2>1, <2>2
<1>7. g = [n \in 0 .. m |-> g[n]]
  OBVIOUS
<1> HIDE DEF g
<1>8. Sums(g, t, m)
  BY <1>6, <1>7 DEF Sums
<1> QED
  BY <1>8

\* Every evaluation adds its joined rows.
LEMMA RowsAdd ==
  ASSUME NEW t \in Lists
  PROVE  /\ L!RowsUpTo(t, 0) = 0
         /\ \A n \in 1 .. Len(t) : L!RowsUpTo(t, n) = L!RowsUpTo(t, n - 1) + t[n].rows
<1> DEFINE sum == CHOOSE f : Sums(f, t, Len(t))
<1>1. \A n : L!RowsUpTo(t, n) = sum[n]
  BY DEF L!RowsUpTo, Sums
<1>2. Len(t) \in Nat
  BY DEF Lists
<1>3. Sums(sum, t, Len(t))
  BY <1>2, SumsExist
<1> HIDE DEF sum
<1>4. \A n \in 0 .. Len(t) : sum[n] = IF n = 0 THEN 0 ELSE sum[n - 1] + t[n].rows
  BY <1>3 DEF Sums
<1> QED
  BY <1>1, <1>2, <1>4

\* Each has one at least, so the count grows with the evaluations.
LEMMA RowsGrow ==
  ASSUME NEW t \in Lists, NEW m \in 0 .. Len(t), L!RowsUpTo(t, m) \in Nat
  PROVE  \A n \in m .. Len(t) : /\ L!RowsUpTo(t, n) \in Nat
                                /\ L!RowsUpTo(t, n) >= L!RowsUpTo(t, m) + (n - m)
<1> DEFINE Good(n) == /\ L!RowsUpTo(t, n) \in Nat
                      /\ L!RowsUpTo(t, n) >= L!RowsUpTo(t, m) + (n - m)
           Bad == {n \in m .. Len(t) : ~ Good(n)}
<1> SUFFICES ASSUME Bad # {} PROVE FALSE
  OBVIOUS
<1>1. Len(t) \in Nat /\ m \in Nat /\ Bad \subseteq Nat
  BY DEF Lists
<1>2. PICK n \in Bad : \A k \in Bad : n <= k
  <2> HIDE DEF Bad
  <2> QED
    BY <1>1, FirstPlace
<1>3. n # m
  BY <1>1, <1>2
<1>4. n \in 1 .. Len(t) /\ n - 1 \in m .. Len(t) /\ n - 1 \notin Bad
  <2>1. n \in m .. Len(t)
    OBVIOUS
  <2> HIDE DEF Bad
  <2>2. n - 1 \notin Bad
    BY <1>1, <1>2, <2>1
  <2> QED
    BY <1>1, <1>3, <2>1, <2>2
<1>5. t[n].rows \in Nat \ {0}
  BY <1>4, RowOf
<1>6. Good(n - 1)
  <2> HIDE DEF Good
  <2> QED
    BY <1>4
<1>7. L!RowsUpTo(t, n) = L!RowsUpTo(t, n - 1) + t[n].rows
  BY <1>4, RowsAdd
<1>8. Good(n)
  BY <1>1, <1>4, <1>5, <1>6, <1>7, SMTT(20)
<1> HIDE DEF Good
<1> QED
  BY <1>2, <1>8

LEMMA RowsOrdered ==
  ASSUME NEW t \in Lists
  PROVE  /\ \A n \in 0 .. Len(t) : L!RowsUpTo(t, n) \in Nat /\ L!RowsUpTo(t, n) >= n
         /\ \A m, n \in 0 .. Len(t) :
              m <= n => L!RowsUpTo(t, m) <= L!RowsUpTo(t, n)
<1>1. Len(t) \in Nat
  BY DEF Lists
<1>2. ASSUME NEW n \in 0 .. Len(t)
      PROVE  L!RowsUpTo(t, n) \in Nat /\ L!RowsUpTo(t, n) >= n
  <2>1. 0 \in 0 .. Len(t) /\ L!RowsUpTo(t, 0) = 0
    BY <1>1, RowsAdd
  <2>2. /\ L!RowsUpTo(t, n) \in Nat
        /\ L!RowsUpTo(t, n) >= L!RowsUpTo(t, 0) + (n - 0)
    BY <2>1, RowsGrow
  <2> QED
    BY <2>1, <2>2
<1>3. ASSUME NEW m \in 0 .. Len(t), NEW n \in 0 .. Len(t), m <= n
      PROVE  L!RowsUpTo(t, m) <= L!RowsUpTo(t, n)
  <2>1. L!RowsUpTo(t, m) \in Nat /\ L!RowsUpTo(t, n) \in Nat /\ n \in m .. Len(t)
    BY <1>2, <1>3
  <2>2. L!RowsUpTo(t, n) >= L!RowsUpTo(t, m) + (n - m)
    BY <2>1, RowsGrow
  <2> QED
    BY <1>3, <2>1, <2>2
<1> QED
  BY <1>2, <1>3

\* Where nothing is joined more than once, rows and evaluations are the same.
LEMMA RowsOfOne ==
  ASSUME NEW t \in Lists, \A n \in 1 .. Len(t) : t[n].rows = 1
  PROVE  \A n \in 0 .. Len(t) : L!RowsUpTo(t, n) = n
<1> DEFINE Bad == {n \in 0 .. Len(t) : L!RowsUpTo(t, n) # n}
<1> SUFFICES ASSUME Bad # {} PROVE FALSE
  OBVIOUS
<1>1. Len(t) \in Nat /\ Bad \subseteq Nat
  BY DEF Lists
<1>2. PICK n \in Bad : \A k \in Bad : n <= k
  BY <1>1, FirstPlace
<1>3. n # 0
  BY <1>2, RowsAdd
<1>4. n \in 1 .. Len(t) /\ n - 1 \in 0 .. Len(t) /\ n - 1 \notin Bad
  BY <1>1, <1>2, <1>3
<1>5. L!RowsUpTo(t, n) = L!RowsUpTo(t, n - 1) + 1
  BY <1>4, RowsAdd
<1>6. L!RowsUpTo(t, n) = n
  BY <1>4, <1>5
<1> QED
  BY <1>2, <1>6

\* What the window between two rows holds of the first k evaluations.
Seen(t, n, offset, last) ==
  L!RowsUpTo(t, n) > offset /\ L!RowsUpTo(t, n - 1) < last
Windows(w, t, offset, last, k) ==
  w = [n \in 0 .. k |-> IF n = 0 THEN <<>>
                        ELSE IF Seen(t, n, offset, last) THEN Append(w[n - 1], t[n].id)
                        ELSE w[n - 1]]

LEMMA WindowsExist ==
  ASSUME NEW t, NEW offset, NEW last, NEW k \in Nat
  PROVE  \E w : Windows(w, t, offset, last, k)
<1> DEFINE Bad == {m \in Nat : ~ \E w : Windows(w, t, offset, last, m)}
<1> SUFFICES ASSUME Bad # {} PROVE FALSE
  OBVIOUS
<1>1. PICK m \in Bad : \A n \in Bad : m <= n
  BY FirstPlace
<1>2. m # 0
  <2>1. Windows([n \in 0 .. 0 |-> <<>>], t, offset, last, 0)
    BY DEF Windows
  <2> QED
    BY <2>1
<1>3. m - 1 \in Nat /\ m - 1 \notin Bad
  BY <1>1, <1>2
<1>4. PICK f : Windows(f, t, offset, last, m - 1)
  BY <1>3
<1> DEFINE next == IF Seen(t, m, offset, last) THEN Append(f[m - 1], t[m].id) ELSE f[m - 1]
           g == [n \in 0 .. m |-> IF n = m THEN next ELSE f[n]]
<1>5. \A n \in 0 .. m - 1 : g[n] = f[n]
  BY <1>3
<1>6. ASSUME NEW n \in 0 .. m
      PROVE  g[n] = IF n = 0 THEN <<>>
                    ELSE IF Seen(t, n, offset, last) THEN Append(g[n - 1], t[n].id)
                    ELSE g[n - 1]
  <2>1. CASE n = m
    BY <2>1, <1>2, <1>3, <1>5
  <2>2. CASE n # m
    <3>1. n \in 0 .. m - 1 /\ (n # 0 => n - 1 \in 0 .. m - 1)
      BY <2>2, <1>3
    <3>2. f[n] = IF n = 0 THEN <<>>
                 ELSE IF Seen(t, n, offset, last) THEN Append(f[n - 1], t[n].id)
                 ELSE f[n - 1]
      BY <3>1, <1>4 DEF Windows
    <3> QED
      BY <1>5, <3>1, <3>2
  <2> QED
    BY <2>1, <2>2
<1>7. g = [n \in 0 .. m |-> g[n]]
  OBVIOUS
<1> HIDE DEF g
<1>8. Windows(g, t, offset, last, m)
  BY <1>6, <1>7 DEF Windows
<1> QED
  BY <1>8

\* q is the ids of t from a to b.
Slice(q, t, a, b) ==
  /\ q \in Seq(Nat) /\ Len(q) = IF a <= b THEN b - a + 1 ELSE 0
  /\ \A i \in 1 .. Len(q) : q[i] = t[a + i - 1].id

Least(m, n) == IF m < n THEN m ELSE n

\* If the window holds the evaluations from a to b, it is that slice.
LEMMA WindowIs ==
  ASSUME NEW t \in Lists, NEW offset \in Nat, NEW limit \in Nat, totalGroupMembers \in Nat,
         NEW a \in Nat \ {0}, NEW b \in 0 .. Len(t),
         \A n \in 1 .. Len(t) :
           Seen(t, n, offset, offset + limit * totalGroupMembers) <=> a <= n /\ n <= b
  PROVE  Slice(L!Window(t, offset, limit), t, a, b)
<1> DEFINE last == offset + limit * totalGroupMembers
           w == CHOOSE f : Windows(f, t, offset, last, Len(t))
<1>1. L!Window(t, offset, limit) = w[Len(t)]
  BY DEF L!Window, Windows, Seen
<1>2. Len(t) \in Nat
  BY DEF Lists
<1>3. Windows(w, t, offset, last, Len(t))
  BY <1>2, WindowsExist
<1> HIDE DEF w
<1>4. \A n \in 0 .. Len(t) :
        w[n] = IF n = 0 THEN <<>>
               ELSE IF Seen(t, n, offset, last) THEN Append(w[n - 1], t[n].id)
               ELSE w[n - 1]
  BY <1>3 DEF Windows
<1> HIDE DEF last
<1>5. \A n \in 1 .. Len(t) : Seen(t, n, offset, last) <=> a <= n /\ n <= b
  BY DEF last
<1> DEFINE Good(n) == Slice(w[n], t, a, Least(n, b))
<1>6. Good(0)
  <2>1. w[0] = <<>>
    BY <1>2, <1>4
  <2>2. Least(0, b) = 0
    BY <1>2 DEF Least
  <2> QED
    BY <2>1, <2>2 DEF Slice
<1>7. ASSUME NEW n \in 1 .. Len(t), Good(n - 1) PROVE Good(n)
  <2>0. n \in 0 .. Len(t) /\ n # 0 /\ a \in Nat /\ b \in Nat /\ n \in Nat
    BY <1>2
  <2>1. CASE a <= n /\ n <= b
    <3> DEFINE q == w[n - 1]
               x == t[n].id
    <3>1. w[n] = Append(q, x)
      BY <1>4, <1>5, <2>0, <2>1
    <3>2. x \in Nat
      BY RowOf
    <3>3. Least(n - 1, b) = n - 1 /\ Least(n, b) = n
      BY <2>0, <2>1 DEF Least
    <3>4. q \in Seq(Nat) /\ Len(q) = n - a /\ \A i \in 1 .. n - a : q[i] = t[a + i - 1].id
      BY <1>7, <2>0, <2>1, <3>3 DEF Slice
    <3> HIDE DEF q, x
    <3>5. /\ Append(q, x) \in Seq(Nat) /\ Len(Append(q, x)) = n - a + 1
          /\ \A i \in 1 .. n - a : Append(q, x)[i] = q[i]
          /\ Append(q, x)[n - a + 1] = x
      BY <3>2, <3>4, AppendProperties
    <3>6. \A i \in 1 .. n - a + 1 : Append(q, x)[i] = t[a + i - 1].id
      <4> TAKE i \in 1 .. n - a + 1
      <4>1. CASE i = n - a + 1
        <5>1. a + i - 1 = n
          BY <2>0, <4>1
        <5> QED
          BY <3>5, <4>1, <5>1 DEF x
      <4>2. CASE i # n - a + 1
        <5>1. i \in 1 .. n - a
          BY <2>0, <4>2
        <5> QED
          BY <3>4, <3>5, <5>1
      <4> QED
        BY <4>1, <4>2
    <3>7. n - a + 1 = IF a <= n THEN n - a + 1 ELSE 0
      BY <2>1
    <3> QED
      BY <3>1, <3>3, <3>5, <3>6, <3>7 DEF Slice
  <2>2. CASE ~ (a <= n /\ n <= b)
    <3>1. w[n] = w[n - 1]
      BY <1>4, <1>5, <2>0, <2>2
    <3>2. CASE n < a
      <4>1. ~ (a <= Least(n - 1, b)) /\ ~ (a <= Least(n, b))
        BY <2>0, <3>2 DEF Least
      <4>2. Len(w[n - 1]) = 0 /\ w[n - 1] \in Seq(Nat)
        BY <1>7, <4>1 DEF Slice
      <4> QED
        BY <3>1, <4>1, <4>2 DEF Slice
    <3>3. CASE b < n
      <4>1. Least(n - 1, b) = b /\ Least(n, b) = b
        BY <2>0, <3>3 DEF Least
      <4> QED
        BY <1>7, <3>1, <4>1
    <3> QED
      BY <2>0, <2>2, <3>2, <3>3
  <2> QED
    BY <2>1, <2>2
<1> HIDE DEF Good
<1> DEFINE Bad == {n \in 0 .. Len(t) : ~ Good(n)}
<1>8. Bad = {}
  <2> SUFFICES ASSUME Bad # {} PROVE FALSE
    OBVIOUS
  <2>0. Bad \subseteq Nat
    BY <1>2
  <2>1. PICK m \in Bad : \A n \in Bad : m <= n
    <3> HIDE DEF Bad
    <3> QED
      BY <2>0, FirstPlace
  <2>2. m \in 0 .. Len(t) /\ ~ Good(m)
    OBVIOUS
  <2>3. m # 0
    BY <1>6, <2>2
  <2>4. m \in 1 .. Len(t) /\ m - 1 \in 0 .. Len(t) /\ m - 1 \notin Bad
    BY <1>2, <2>1, <2>2, <2>3
  <2>5. Good(m - 1)
    BY <2>4
  <2> QED
    BY <1>7, <2>2, <2>4, <2>5
<1>9. Good(Len(t))
  <2>1. Len(t) \in 0 .. Len(t)
    BY <1>2
  <2> QED
    BY <1>8, <2>1
<1>10. Least(Len(t), b) = b
  BY <1>2 DEF Least
<1> QED
  BY <1>1, <1>9, <1>10 DEF Good

\* Such bounds there are.
LEMMA WindowBounds ==
  ASSUME NEW t \in Lists, NEW offset \in Nat, NEW limit \in Nat, totalGroupMembers \in Nat
  PROVE  \E a \in Nat \ {0}, b \in 0 .. Len(t) :
           /\ \A n \in 1 .. Len(t) : L!RowsUpTo(t, n) > offset <=> a <= n
           /\ \A n \in 1 .. Len(t) :
                L!RowsUpTo(t, n - 1) < offset + limit * totalGroupMembers <=> n <= b
           /\ Slice(L!Window(t, offset, limit), t, a, b)
<1> DEFINE N == Len(t)
           R(n) == L!RowsUpTo(t, n)
           last == offset + limit * totalGroupMembers
<1>1. N \in Nat /\ last \in Int
  BY DEF Lists
<1>2. /\ \A n \in 0 .. N : R(n) \in Nat
      /\ \A m, n \in 0 .. N : m <= n => R(m) <= R(n)
  BY RowsOrdered
<1> HIDE DEF N, R, last
<1> DEFINE A == {n \in 1 .. N + 1 : n = N + 1 \/ R(n) > offset}
           B == {n \in 1 .. N + 1 : n = N + 1 \/ R(n - 1) >= last}
<1>3. N + 1 \in A /\ N + 1 \in B /\ A \subseteq Nat /\ B \subseteq Nat
  BY <1>1
<1>4. PICK a \in A : \A n \in A : a <= n
  <2> HIDE DEF A
  <2> QED
    BY <1>3, FirstPlace
<1>5. PICK c \in B : \A n \in B : c <= n
  <2> HIDE DEF B
  <2> QED
    BY <1>3, FirstPlace
<1> DEFINE b == c - 1
<1>6. a \in 1 .. N + 1 /\ c \in 1 .. N + 1 /\ b \in 0 .. N
  BY <1>1
<1>7. ASSUME NEW n \in 1 .. N PROVE R(n) > offset <=> a <= n
  <2>0. n \in 0 .. N /\ n \in 1 .. N + 1
    BY <1>1
  <2>1. ASSUME R(n) > offset PROVE a <= n
    <3>1. n \in A
      BY <2>0, <2>1
    <3> QED
      BY <1>4, <3>1
  <2>2. ASSUME a <= n PROVE R(n) > offset
    <3>1. a \in 0 .. N /\ R(a) > offset
      BY <1>1, <1>6, <2>2
    <3>2. R(a) <= R(n)
      BY <1>2, <2>0, <2>2, <3>1
    <3> QED
      BY <1>2, <2>0, <3>1, <3>2
  <2> QED
    BY <2>1, <2>2
<1>8. ASSUME NEW n \in 1 .. N PROVE R(n - 1) < last <=> n <= b
  <2>0. n - 1 \in 0 .. N /\ n \in 1 .. N + 1
    BY <1>1
  <2>1. ASSUME ~ (R(n - 1) < last) PROVE ~ (n <= b)
    <3>1. n \in B
      BY <1>1, <1>2, <2>0, <2>1
    <3>2. c <= n
      BY <1>5, <3>1
    <3> QED
      BY <1>6, <3>2
  <2>2. ASSUME ~ (n <= b) PROVE ~ (R(n - 1) < last)
    <3>1. c <= n /\ c # N + 1 /\ c - 1 \in 0 .. N
      BY <1>1, <1>6, <2>2
    <3>2. R(c - 1) >= last
      BY <3>1
    <3>3. R(c - 1) <= R(n - 1)
      BY <1>2, <1>6, <2>0, <3>1
    <3> QED
      BY <1>1, <1>2, <2>0, <3>1, <3>2, <3>3
  <2> QED
    BY <2>1, <2>2
<1> HIDE DEF A, B, b
<1>9. \A n \in 1 .. N : Seen(t, n, offset, last) <=> a <= n /\ n <= b
  BY <1>7, <1>8 DEF Seen, R
<1>10. a \in Nat \ {0}
  BY <1>1, <1>6
<1>11. Slice(L!Window(t, offset, limit), t, a, b)
  BY <1>6, <1>9, <1>10, WindowIs DEF N, last
<1> QED
  BY <1>6, <1>7, <1>8, <1>10, <1>11 DEF N, R, last

LEMMA Division ==
  ASSUME NEW a \in Nat, NEW b \in Nat \ {0}, NEW q \in Nat
  PROVE  a \div b = q <=> q * b <= a /\ a < q * b + b
<1> DEFINE d == a \div b
           r == a % b
<1>0. d \in Nat /\ r \in Nat /\ r < b /\ a = b * d + r
  OBVIOUS
<1> HIDE DEF d, r
<1>1. d \in Nat /\ d * b <= a /\ a < d * b + b
  <2>1. b * d = d * b /\ d * b \in Nat
    BY <1>0
  <2> QED
    BY <1>0, <2>1
<1>2. ASSUME q * b <= a, a < q * b + b PROVE d = q
  <2>1. CASE d < q
    <3>1. PICK k \in Nat : q = d + 1 + k
      <4>1. q - d - 1 \in Nat /\ q = d + 1 + (q - d - 1)
        BY <1>1, <2>1
      <4> QED
        BY <4>1
    <3>2. q * b = d * b + b + k * b /\ k * b \in Nat
      BY <1>1, <3>1
    <3> QED
      BY <1>1, <1>2, <3>2
  <2>2. CASE q < d
    <3>1. PICK k \in Nat : d = q + 1 + k
      <4>1. d - q - 1 \in Nat /\ d = q + 1 + (d - q - 1)
        BY <1>1, <2>2
      <4> QED
        BY <4>1
    <3>2. d * b = q * b + b + k * b /\ k * b \in Nat
      BY <1>1, <3>1
    <3> QED
      BY <1>1, <1>2, <3>2
  <2> QED
    BY <1>1, <2>1, <2>2
<1> QED
  BY <1>1, <1>2 DEF d

\* The page asked for is the last one if it begins before the end and does not end
\* before it.
LEMMA OnLastPage ==
  ASSUME NEW total \in Nat, NEW limit \in Nat \ {0}, NEW m \in Nat, NEW offset,
         offset = m * limit
  PROVE  /\ offset \in Nat
         /\ L!Ceiling(offset + limit, limit) = L!Ceiling(total, limit)
              <=> offset < total /\ total <= offset + limit
<1>1. offset \in Nat /\ (m + 1) * limit = offset + limit
  OBVIOUS
<1> DEFINE a == offset + limit + limit - 1
           c == total + limit - 1
<1>2. a \in Nat /\ c \in Nat
  BY <1>1
<1>3. a \div limit = m + 1
  <2>1. (m + 1) * limit <= a /\ a < (m + 1) * limit + limit /\ m + 1 \in Nat
    BY <1>1
  <2> HIDE DEF a
  <2> QED
    BY <1>2, <2>1, Division
<1>4. c \div limit = m + 1 <=> (m + 1) * limit <= c /\ c < (m + 1) * limit + limit
  <2> HIDE DEF c
  <2>1. m + 1 \in Nat
    OBVIOUS
  <2> QED
    BY <1>2, <2>1, Division
<1>5. c \div limit = m + 1 <=> offset + limit <= c /\ c < offset + limit + limit
  BY <1>1, <1>4
<1> QED
  BY <1>1, <1>3, <1>5 DEF L!Ceiling

\* What slice takes from the back and from the front.
LEMMA Taken ==
  ASSUME NEW s \in Seq(Nat), NEW n \in Nat
  PROVE  /\ n # 0 => /\ L!TakeBack(s, n) \in Seq(Nat)
                     /\ Len(L!TakeBack(s, n)) = Least(n, Len(s))
                     /\ \A i \in 1 .. Least(n, Len(s)) :
                          L!TakeBack(s, n)[i] = s[Len(s) - Least(n, Len(s)) + i]
         /\ L!TakeFront(s, n) \in Seq(Nat)
         /\ Len(L!TakeFront(s, n)) = Least(n, Len(s))
         /\ \A i \in 1 .. Least(n, Len(s)) : L!TakeFront(s, n)[i] = s[i]
<1>1. Len(s) \in Nat
  OBVIOUS
<1>2. ASSUME n # 0
      PROVE  /\ L!TakeBack(s, n) \in Seq(Nat)
             /\ Len(L!TakeBack(s, n)) = Least(n, Len(s))
             /\ \A i \in 1 .. Least(n, Len(s)) :
                  L!TakeBack(s, n)[i] = s[Len(s) - Least(n, Len(s)) + i]
  <2>1. CASE n >= Len(s)
    <3>1. L!TakeBack(s, n) = s /\ Least(n, Len(s)) = Len(s)
      BY <1>1, <2>1 DEF L!TakeBack, Least
    <3> QED
      BY <1>1, <3>1
  <2>2. CASE n < Len(s)
    <3> DEFINE m == Len(s) - n + 1
               k == Len(s)
    <3>1. L!TakeBack(s, n) = SubSeq(s, m, k) /\ Least(n, Len(s)) = n
      BY <1>1, <1>2, <2>2 DEF L!TakeBack, Least
    <3>2. m \in Int /\ k \in Int /\ m <= k /\ k - m + 1 = n
      BY <1>1, <1>2, <2>2
    <3>3. \A i \in m .. k : s[i] \in Nat
      BY <1>1, <2>2
    <3> HIDE DEF m, k
    <3>4. /\ SubSeq(s, m, k) \in Seq(Nat) /\ Len(SubSeq(s, m, k)) = n
          /\ \A i \in 1 .. n : SubSeq(s, m, k)[i] = s[m + i - 1]
      BY <3>2, <3>3, SubSeqProperties
    <3>5. \A i \in 1 .. n : m + i - 1 = Len(s) - n + i
      BY <1>1 DEF m
    <3> DEFINE q == SubSeq(s, m, k)
    <3>6. L!TakeBack(s, n) = q /\ q \in Seq(Nat) /\ Len(q) = n
      BY <3>1, <3>4
    <3>7. \A i \in 1 .. n : q[i] = s[Len(s) - n + i]
      BY <3>4, <3>5
    <3> HIDE DEF q
    <3> QED
      BY <3>1, <3>6, <3>7
  <2> QED
    BY <1>1, <2>1, <2>2
<1>3. /\ L!TakeFront(s, n) \in Seq(Nat)
      /\ Len(L!TakeFront(s, n)) = Least(n, Len(s))
      /\ \A i \in 1 .. Least(n, Len(s)) : L!TakeFront(s, n)[i] = s[i]
  <2> DEFINE k == Least(n, Len(s))
  <2>1. L!TakeFront(s, n) = SubSeq(s, 1, k)
    BY DEF L!TakeFront, Least
  <2>2. k \in Nat /\ k <= Len(s)
    BY <1>1 DEF Least
  <2>3. \A i \in 1 .. k : s[i] \in Nat
    BY <1>1, <2>2
  <2> HIDE DEF k
  <2>4. /\ SubSeq(s, 1, k) \in Seq(Nat)
        /\ Len(SubSeq(s, 1, k)) = IF 1 <= k THEN k - 1 + 1 ELSE 0
        /\ \A i \in 1 .. k - 1 + 1 : SubSeq(s, 1, k)[i] = s[1 + i - 1]
    <3>1. 1 \in Int /\ k \in Int
      BY <2>2
    <3> QED
      BY <2>3, <3>1, SubSeqProperties
  <2>5. Len(SubSeq(s, 1, k)) = k /\ k - 1 + 1 = k
    BY <2>2, <2>4
  <2>6. \A i \in 1 .. k : SubSeq(s, 1, k)[i] = s[i]
    BY <2>2, <2>4, <2>5
  <2> QED
    BY <2>1, <2>4, <2>5, <2>6 DEF k
<1> QED
  BY <1>2, <1>3

\* No page is longer than asked for, whatever was read and counted.
LEMMA CutShort ==
  ASSUME NEW data \in Seq(Nat), NEW total \in Nat, NEW limit \in Nat \ {0}, NEW m \in Nat,
         NEW offset, offset = m * limit
  PROVE  Len(L!Cut(data, total, offset, limit)) <= limit
<1>1. offset \in Nat
  BY OnLastPage
<1>2. Len(data) \in Nat
  OBVIOUS
<1>3. CASE L!Ceiling(offset + limit, limit) = L!Ceiling(total, limit)
  <2> DEFINE n == total - offset
  <2>1. n \in Nat /\ n # 0 /\ n <= limit
    BY <1>1, <1>3, OnLastPage
  <2>2. L!Cut(data, total, offset, limit) = L!TakeBack(data, n)
    BY <1>3 DEF L!Cut
  <2> HIDE DEF n
  <2>3. Len(L!TakeBack(data, n)) = Least(n, Len(data))
    BY <2>1, Taken
  <2> QED
    BY <1>2, <2>1, <2>2, <2>3 DEF Least
<1>4. CASE L!Ceiling(offset + limit, limit) # L!Ceiling(total, limit)
  <2>1. L!Cut(data, total, offset, limit) = L!TakeFront(data, limit)
    BY <1>4 DEF L!Cut
  <2>2. Len(L!TakeFront(data, limit)) = Least(limit, Len(data))
    BY Taken
  <2> QED
    BY <1>2, <2>1, <2>2 DEF Least
<1> QED
  BY <1>3, <1>4

LEMMA SameSlice ==
  ASSUME NEW p, NEW q, NEW t, NEW a, NEW b, Slice(p, t, a, b), Slice(q, t, a, b)
  PROVE  p = q
<1>1. p \in Seq(Nat) /\ q \in Seq(Nat) /\ Len(p) = Len(q)
  BY DEF Slice
<1>2. \A i \in 1 .. Len(p) : p[i] = q[i]
  BY DEF Slice
<1> QED
  BY <1>1, <1>2

\* The page is cut out of a slice that reaches from its beginning or before to its end
\* or beyond, exactly from its beginning if it is not the last one.
LEMMA CutSlice ==
  ASSUME NEW t \in Lists, NEW N, N = Len(t), NEW limit \in Nat \ {0}, NEW offset \in Nat,
         L!Ceiling(offset + limit, limit) = L!Ceiling(N, limit)
           <=> offset < N /\ N <= offset + limit,
         NEW data, NEW a \in Nat \ {0}, NEW b \in 0 .. N, Slice(data, t, a, b),
         NEW e \in 0 .. b, e = IF offset + limit >= N THEN N ELSE offset + limit,
         IF N = 0 THEN offset = 0 ELSE offset < N /\ a <= offset + 1,
         a = offset + 1 \/ offset + limit >= N
  PROVE  Slice(L!Cut(data, N, offset, limit), t, offset + 1, e)
<1> DEFINE answer == L!Cut(data, N, offset, limit)
<1>1. N \in Nat /\ limit \in Nat /\ b \in Nat /\ e \in Nat
  BY DEF Lists
<1>2. data \in Seq(Nat) /\ Len(data) \in Nat
  BY DEF Slice
<1>3. CASE N = 0
  <2>1. offset = 0 /\ e = 0 /\ b = 0
    BY <1>1, <1>3
  <2>2. Len(data) = 0
    BY <2>1 DEF Slice
  <2>3. answer = L!TakeFront(data, limit)
    BY <1>1, <1>3 DEF L!Cut
  <2>4. Least(limit, 0) = 0
    BY <1>1 DEF Least
  <2>5. answer \in Seq(Nat) /\ Len(answer) = 0
    BY <1>1, <1>2, <2>2, <2>3, <2>4, Taken
  <2> HIDE DEF answer
  <2>6. Slice(answer, t, 1, 0)
    BY <2>5 DEF Slice
  <2> QED
    BY <2>1, <2>6 DEF answer
<1>4. CASE N # 0 /\ offset + limit >= N
  <2> DEFINE n == N - offset
  <2>1. e = N /\ b = N /\ n \in Nat /\ n # 0 /\ a <= b /\ a <= offset + 1
    BY <1>1, <1>4
  <2>2. Len(data) = N - a + 1 /\ \A i \in 1 .. Len(data) : data[i] = t[a + i - 1].id
    BY <2>1 DEF Slice
  <2>3. answer = L!TakeBack(data, n)
    BY <1>1, <1>4 DEF L!Cut
  <2> HIDE DEF answer
  <2>4. n <= Len(data) /\ Least(n, Len(data)) = n /\ Len(data) - n = offset - a + 1
    <3> DEFINE l == Len(data)
    <3>1. l = N - a + 1 /\ l \in Nat
      BY <1>2, <2>2
    <3> HIDE DEF l
    <3>2. n <= l /\ l - n = offset - a + 1
      BY <1>1, <2>1, <3>1
    <3> HIDE DEF n
    <3>3. Least(n, l) = n
      BY <2>1, <3>1, <3>2 DEF Least
    <3> QED
      BY <3>2, <3>3 DEF l
  <2>5. n = IF offset + 1 <= e THEN e - (offset + 1) + 1 ELSE 0
    BY <1>1, <1>4, <2>1
  <2> HIDE DEF n
  <2>6. /\ answer \in Seq(Nat) /\ Len(answer) = n
        /\ \A i \in 1 .. n : answer[i] = data[Len(data) - n + i]
    <3>1. /\ L!TakeBack(data, n) \in Seq(Nat)
          /\ Len(L!TakeBack(data, n)) = Least(n, Len(data))
          /\ \A i \in 1 .. Least(n, Len(data)) :
               L!TakeBack(data, n)[i] = data[Len(data) - Least(n, Len(data)) + i]
      BY <1>2, <2>1, Taken
    <3> QED
      BY <2>3, <2>4, <3>1
  <2>7. ASSUME NEW i \in 1 .. n PROVE answer[i] = t[offset + 1 + i - 1].id
    <3>1. Len(data) - n + i \in 1 .. Len(data)
      BY <1>2, <2>1, <2>4
    <3>2. a + (Len(data) - n + i) - 1 = offset + 1 + i - 1
      BY <1>1, <1>2, <2>1, <2>4
    <3> QED
      BY <2>2, <2>6, <3>1, <3>2
  <2>8. Slice(answer, t, offset + 1, e)
    BY <2>5, <2>6, <2>7 DEF Slice
  <2> QED
    BY <2>8 DEF answer
<1>5. CASE N # 0 /\ ~ (offset + limit >= N)
  <2>1. e = offset + limit /\ a = offset + 1 /\ a <= b
    BY <1>1, <1>5
  <2>2. Len(data) = b - a + 1 /\ \A i \in 1 .. Len(data) : data[i] = t[a + i - 1].id
    BY <2>1 DEF Slice
  <2>3. answer = L!TakeFront(data, limit)
    BY <1>1, <1>5 DEF L!Cut
  <2> HIDE DEF answer
  <2>4. limit <= Len(data) /\ Least(limit, Len(data)) = limit
    BY <1>1, <1>2, <2>1, <2>2 DEF Least
  <2>5. /\ answer \in Seq(Nat) /\ Len(answer) = limit
        /\ \A i \in 1 .. limit : answer[i] = data[i]
    BY <1>1, <1>2, <2>3, <2>4, Taken
  <2>6. ASSUME NEW i \in 1 .. limit PROVE answer[i] = t[offset + 1 + i - 1].id
    <3>1. i \in 1 .. Len(data)
      BY <1>1, <1>2, <2>4
    <3> QED
      BY <2>1, <2>2, <2>5, <3>1
  <2>7. limit = IF offset + 1 <= e THEN e - (offset + 1) + 1 ELSE 0
    BY <1>1, <2>1
  <2>8. Slice(answer, t, offset + 1, e)
    BY <2>5, <2>6, <2>7 DEF Slice
  <2> QED
    BY <2>8 DEF answer
<1> QED
  BY <1>3, <1>4, <1>5

\* If the padded limit reaches to the end of the page, the page is right if it is the
\* first, the last, or one of a list without joins.
LEMMA CutRight ==
  ASSUME NEW t \in Lists, NEW N, N = Len(t), NEW limit \in Nat \ {0}, NEW offset \in Nat,
         L!Ceiling(offset + limit, limit) = L!Ceiling(N, limit)
           <=> offset < N /\ N <= offset + limit,
         totalGroupMembers \in Nat, offset = 0 \/ offset < N,
         NEW e, e = IF offset + limit >= N THEN N ELSE offset + limit,
         e = 0 \/ L!RowsUpTo(t, e - 1) < offset + limit * totalGroupMembers,
         offset = 0 \/ offset + limit >= N \/ \A n \in 1 .. N : t[n].rows = 1
  PROVE  Slice(L!Cut(L!Window(t, offset, limit), N, offset, limit), t, offset + 1, e)
<1> DEFINE last == offset + limit * totalGroupMembers
           data == L!Window(t, offset, limit)
<1>1. N \in Nat /\ limit \in Nat
  BY DEF Lists
<1>2. PICK a \in Nat \ {0}, b \in 0 .. N :
        /\ \A n \in 1 .. N : L!RowsUpTo(t, n) > offset <=> a <= n
        /\ \A n \in 1 .. N : L!RowsUpTo(t, n - 1) < last <=> n <= b
        /\ Slice(data, t, a, b)
  BY <1>1, WindowBounds
<1>3. e = 0 \/ L!RowsUpTo(t, e - 1) < last
  OBVIOUS
<1> HIDE DEF data, last
<1>4. e \in 0 .. N
  BY <1>1
<1>5. e \in 0 .. b
  <2>1. CASE e = 0
    BY <1>1, <2>1
  <2>2. CASE e # 0
    <3>1. e \in 1 .. N
      BY <1>1, <1>4, <2>2
    <3>2. e <= b
      BY <1>2, <1>3, <2>2, <3>1
    <3> QED
      BY <1>1, <3>1, <3>2
  <2> QED
    BY <2>1, <2>2
<1>6. IF N = 0 THEN offset = 0 ELSE offset < N /\ a <= offset + 1
  <2>1. CASE N = 0
    BY <2>1
  <2>2. CASE N # 0
    <3>1. offset < N /\ offset + 1 \in 1 .. N /\ offset + 1 \in 0 .. N
      BY <1>1, <2>2
    <3>2. L!RowsUpTo(t, offset + 1) \in Nat /\ L!RowsUpTo(t, offset + 1) >= offset + 1
      BY <3>1, RowsOrdered
    <3>3. L!RowsUpTo(t, offset + 1) > offset
      BY <3>2
    <3> QED
      BY <1>2, <2>2, <3>1, <3>3
  <2> QED
    BY <2>1, <2>2
<1>7. ASSUME ~ (offset + limit >= N) PROVE a = offset + 1
  <2>1. N # 0 /\ a <= offset + 1 /\ offset < N
    BY <1>1, <1>6, <1>7
  <2>2. CASE offset = 0
    BY <2>1, <2>2
  <2>3. CASE offset # 0
    <3>1. \A k \in 0 .. N : L!RowsUpTo(t, k) = k
      BY <1>7, <2>3, RowsOfOne
    <3>2. a \in 1 .. N /\ a \in 0 .. N
      BY <1>1, <2>1
    <3>3. L!RowsUpTo(t, a) > offset
      BY <1>2, <3>2
    <3>4. a > offset
      BY <3>1, <3>2, <3>3
    <3> QED
      BY <2>1, <3>4
  <2> QED
    BY <2>2, <2>3
<1>8. Slice(L!Cut(data, N, offset, limit), t, offset + 1, e)
  BY <1>2, <1>5, <1>6, <1>7, CutSlice
<1> QED
  BY <1>8 DEF data

LEMMA RightIs ==
  ASSUME NEW t \in Lists, NEW a \in Nat, NEW e \in Nat, e <= Len(t)
  PROVE  Slice(SubSeq(L!IdsOf(t), a + 1, e), t, a + 1, e)
<1> DEFINE ids == L!IdsOf(t)
           q == SubSeq(ids, a + 1, e)
<1>1. Len(t) \in Nat
  BY DEF Lists
<1>2. \A i \in 1 .. Len(t) : ids[i] = t[i].id /\ ids[i] \in Nat
  BY RowOf DEF L!IdsOf
<1> HIDE DEF ids
<1>3. \A i \in a + 1 .. e : ids[i] \in Nat
  BY <1>1, <1>2
<1>4. /\ q \in Seq(Nat) /\ Len(q) = IF a + 1 <= e THEN e - (a + 1) + 1 ELSE 0
      /\ \A i \in 1 .. e - (a + 1) + 1 : q[i] = ids[a + 1 + i - 1]
  <2>1. a + 1 \in Int /\ e \in Int
    OBVIOUS
  <2> QED
    BY <1>3, <2>1, SubSeqProperties
<1> HIDE DEF q
<1>5. ASSUME NEW i \in 1 .. Len(q) PROVE q[i] = t[a + 1 + i - 1].id
  <2>1. i \in 1 .. e - (a + 1) + 1 /\ a + 1 + i - 1 \in 1 .. Len(t)
    BY <1>1, <1>4
  <2> QED
    BY <1>2, <1>4, <2>1
<1>6. Slice(q, t, a + 1, e)
  BY <1>4, <1>5 DEF Slice
<1> QED
  BY <1>6 DEF q, ids

LEMMA ChangedType ==
  ASSUME NEW t \in Lists
  PROVE  /\ \A n \in 1 .. Len(t) : L!RemoveAt(t, n) \in Lists
         /\ \A id \in Nat, rows \in Nat \ {0} :
              L!Cons([id |-> id, rows |-> rows], t) \in Lists
<1>1. ASSUME NEW n \in 1 .. Len(t) PROVE L!RemoveAt(t, n) \in Lists
  <2>1. t \in Seq([id : Nat, rows : Nat \ {0}]) /\ n \in DOMAIN t
    BY <1>1 DEF Lists
  <2>2. F!RemoveAt(t, n) \in Lists
    BY <2>1, Removed DEF Lists
  <2> QED
    BY <2>2 DEF F!RemoveAt, L!RemoveAt
<1>2. ASSUME NEW id \in Nat, NEW rows \in Nat \ {0}
      PROVE  L!Cons([id |-> id, rows |-> rows], t) \in Lists
  <2>1. <<[id |-> id, rows |-> rows]>> \in Lists
    BY DEF Lists
  <2> QED
    BY <2>1 DEF Lists, L!Cons
<1> QED
  BY <1>1, <1>2

\* The list has evaluations with rows; what was asked for is a page of it, what was
\* read is its window while nobody changes the list, and the answer is cut out of that.
ListingInv ==
  /\ table \in Lists /\ changes \in Nat
  /\ ask.at # "idle" =>
       /\ ask \in [at : {"read", "answered"}, offset : Nat, limit : Nat \ {0}, data : Seq(Nat)]
       /\ \E m \in Nat : ask.offset = m * ask.limit
       /\ changes = 0 => /\ ask.offset = 0 \/ ask.offset < Len(table)
                         /\ ask.data = L!Window(table, ask.offset, ask.limit)
       /\ ask.at = "answered" => page = L!Cut(ask.data, Len(table), ask.offset, ask.limit)

LEMMA WindowType ==
  ASSUME NEW t \in Lists, NEW offset \in Nat, NEW limit \in Nat
  PROVE  L!Window(t, offset, limit) \in Seq(Nat)
<1>1. totalGroupMembers \in Nat
  BY ListingAssumption DEF L!ListingRight
<1>2. PICK a \in Nat \ {0}, b \in 0 .. Len(t) : Slice(L!Window(t, offset, limit), t, a, b)
  BY <1>1, WindowBounds
<1> QED
  BY <1>2 DEF Slice

LEMMA ListingInvHolds == L!Spec => []ListingInv
<1>0. /\ Tables \subseteq Lists /\ MaxRows \in Nat /\ MaxLength \in Nat
      /\ Limits \subseteq Nat \ {0}
  BY ListingAssumption DEF L!ListingRight, Lists
<1>1. L!Init => ListingInv
  BY <1>0 DEF L!Init, L!Start, L!NoAsk, ListingInv
<1>2. ASSUME ListingInv, [L!Next]_L!vars PROVE ListingInv'
  <2>1. CASE L!ReadWindow
    <3>1. PICK limit \in Limits, n \in 0 .. MaxLength :
            /\ n = 0 \/ n * limit < Len(table)
            /\ ask' = [at |-> "read", offset |-> n * limit, limit |-> limit,
                       data |-> L!Window(table, n * limit, limit)]
      BY <2>1 DEF L!ReadWindow
    <3>2. table \in Lists /\ table' = table /\ changes \in Nat /\ changes' = changes
      BY <1>2, <2>1 DEF ListingInv, L!ReadWindow
    <3>3. limit \in Nat \ {0} /\ n \in Nat /\ n * limit \in Nat /\ (n = 0 => n * limit = 0)
      BY <1>0
    <3>4. L!Window(table, n * limit, limit) \in Seq(Nat)
      BY <3>2, <3>3, WindowType
    <3> DEFINE offset == n * limit
               data == L!Window(table, n * limit, limit)
    <3>5. /\ ask' = [at |-> "read", offset |-> offset, limit |-> limit, data |-> data]
          /\ offset \in Nat /\ data \in Seq(Nat)
          /\ offset = 0 \/ offset < Len(table)
          /\ data = L!Window(table, offset, limit)
          /\ \E m \in Nat : offset = m * limit
      BY <3>1, <3>3, <3>4
    <3> HIDE DEF offset, data
    <3>6. /\ ask'.at = "read" /\ ask'.offset = offset /\ ask'.limit = limit /\ ask'.data = data
          /\ ask' \in [at : {"read", "answered"}, offset : Nat, limit : Nat \ {0}, data : Seq(Nat)]
      BY <3>3, <3>5
    <3> QED
      BY <3>2, <3>5, <3>6 DEF ListingInv
  <2>2. CASE L!Count
    <3>1. /\ ask.at = "read" /\ ask' = [ask EXCEPT !.at = "answered"]
          /\ page' = L!Cut(ask.data, Len(table), ask.offset, ask.limit)
          /\ UNCHANGED <<table, changes>>
      BY <2>2 DEF L!Count
    <3>2. ask \in [at : {"read", "answered"}, offset : Nat, limit : Nat \ {0}, data : Seq(Nat)]
      BY <1>2, <3>1 DEF ListingInv
    <3>3. /\ ask' \in [at : {"read", "answered"}, offset : Nat, limit : Nat \ {0}, data : Seq(Nat)]
          /\ ask'.at = "answered" /\ ask'.offset = ask.offset /\ ask'.limit = ask.limit
          /\ ask'.data = ask.data
      BY <3>1, <3>2
    <3> QED
      BY <1>2, <3>1, <3>3 DEF ListingInv
  <2>3. CASE L!Change
    <3>1. ask.at = "read" /\ changes' = changes + 1 /\ UNCHANGED <<ask, page>>
      BY <2>3 DEF L!Change
    <3>2. table' \in Lists
      <4>1. table \in Lists
        BY <1>2 DEF ListingInv
      <4>2. ASSUME NEW n \in 1 .. Len(table), table' = L!RemoveAt(table, n)
            PROVE  table' \in Lists
        BY <4>1, <4>2, ChangedType
      <4>3. ASSUME NEW rows \in 1 .. MaxRows, NEW id \in 1 .. MaxLength,
                   table' = L!Cons([id |-> id, rows |-> rows], table)
            PROVE  table' \in Lists
        <5>1. id \in Nat /\ rows \in Nat \ {0}
          BY <1>0
        <5> QED
          BY <4>1, <4>3, <5>1, ChangedType
      <4> QED
        BY <2>3, <4>2, <4>3 DEF L!Change
    <3>3. changes \in Nat
      BY <1>2 DEF ListingInv
    <3>4. changes' \in Nat /\ changes' # 0
      BY <3>1, <3>3
    <3>5. ask.at # "idle" /\ ask' = ask /\ page' = page /\ ask.at # "answered"
      BY <3>1
    <3> QED
      BY <1>2, <3>2, <3>4, <3>5 DEF ListingInv
  <2>4. CASE UNCHANGED L!vars
    BY <1>2, <2>4 DEF L!vars, ListingInv
  <2> QED
    BY <1>2, <2>1, <2>2, <2>3, <2>4 DEF L!Next
<1> QED
  BY <1>1, <1>2, PTL DEF L!Spec

\* A page is never longer than asked for, whatever happens between the reading of the
\* evaluations and their counting; and if nothing does, the first page, the last page
\* and every page of a list without joins hold what they should, if the padding of the
\* limit suffices, for any list, limits and padding
\* (EvaluationsService.getAllEvaluations).
THEOREM PageAsAsked == L!Spec => []PageRight
<1>1. ListingInv => PageRight
  <2> SUFFICES ASSUME ListingInv, ask.at = "answered"
               PROVE  /\ Len(page) <= ask.limit
                      /\ ( /\ changes = 0
                           /\ L!Reached(ask.offset + Len(L!Right))
                           /\ \/ ask.offset = 0 \/ L!IsLast
                              \/ \A n \in 1 .. Len(table) : table[n].rows = 1 )
                         => page = L!Right
    BY DEF PageRight, L!PageRight
  <2> DEFINE offset == ask.offset
             limit == ask.limit
             N == Len(table)
  <2>1. /\ table \in Lists /\ offset \in Nat /\ limit \in Nat \ {0} /\ ask.data \in Seq(Nat)
        /\ page = L!Cut(ask.data, N, offset, limit)
        /\ changes = 0 => /\ offset = 0 \/ offset < N
                          /\ ask.data = L!Window(table, offset, limit)
    BY DEF ListingInv
  <2>2. PICK m \in Nat : offset = m * limit
    BY DEF ListingInv
  <2>3. N \in Nat
    BY <2>1 DEF Lists
  <2>4. Len(page) <= limit
    <3> HIDE DEF offset, limit, N
    <3> QED
      BY <2>1, <2>2, <2>3, CutShort
  <2>5. L!Ceiling(offset + limit, limit) = L!Ceiling(N, limit)
          <=> offset < N /\ N <= offset + limit
    <3> HIDE DEF offset, limit, N
    <3> QED
      BY <2>1, <2>2, <2>3, OnLastPage
  <2>6. ASSUME changes = 0, L!Reached(ask.offset + Len(L!Right)),
               \/ ask.offset = 0 \/ L!IsLast
               \/ \A n \in 1 .. Len(table) : table[n].rows = 1
        PROVE  page = L!Right
    <3> DEFINE e == IF offset + limit >= N THEN N ELSE offset + limit
    <3>1. e \in Nat /\ offset <= e /\ e <= N
      BY <2>1, <2>3, <2>6
    <3>2. L!Right = SubSeq(L!IdsOf(table), offset + 1, e)
      BY <2>1, <2>3 DEF L!Right, L!IsLast
    <3>3. Slice(L!Right, table, offset + 1, e)
      <4> HIDE DEF offset, limit, N, e
      <4> QED
        BY <2>1, <3>1, <3>2, RightIs DEF N
    <3>4. offset + Len(L!Right) = e
      <4> HIDE DEF offset, limit, N, e
      <4> QED
        BY <2>1, <3>1, <3>3 DEF Slice
    <3>5. e = 0 \/ L!RowsUpTo(table, e - 1) < offset + limit * totalGroupMembers
      BY <2>6, <3>4 DEF L!Reached
    <3>6. offset = 0 \/ offset + limit >= N \/ \A n \in 1 .. N : table[n].rows = 1
      BY <2>6 DEF L!IsLast
    <3>7. totalGroupMembers \in Nat
      BY ListingAssumption DEF L!ListingRight
    <3>8. offset = 0 \/ offset < N
      BY <2>1, <2>6
    <3>9. e = IF offset + limit >= N THEN N ELSE offset + limit
      OBVIOUS
    <3>10. Slice(L!Cut(L!Window(table, offset, limit), N, offset, limit), table, offset + 1, e)
      <4> HIDE DEF offset, limit, e
      <4> QED
        BY <2>1, <2>5, <3>5, <3>6, <3>7, <3>8, <3>9, CutRight
    <3>11. Slice(page, table, offset + 1, e)
      BY <2>1, <2>6, <3>10
    <3> HIDE DEF offset, e
    <3> QED
      BY <3>3, <3>11, SameSlice
  <2> QED
    BY <2>4, <2>6
<1> QED
  BY <1>1, ListingInvHolds, PTL

-----------------------------------------------------------------------------
(* The links of a file: what is found in it. *)

File == Seq([name : STRING \ {O!NoParent}, parent : STRING,
             controls : Seq([id : STRING, populated : BOOLEAN])])

\* A control by its place, and how many there are in the first n profiles.
Places == {k \in Nat \X Nat : /\ k[1] \in 1 .. Len(profiles)
                             /\ k[2] \in 1 .. Len(profiles[k[1]].controls)}

LEMMA FileData ==
  ASSUME profiles \in File
  PROVE  /\ Len(profiles) \in Nat /\ DOMAIN profiles = 1 .. Len(profiles)
         /\ \A p \in 1 .. Len(profiles) :
              /\ profiles[p].controls \in Seq([id : STRING, populated : BOOLEAN])
              /\ Len(profiles[p].controls) \in Nat
              /\ DOMAIN profiles[p].controls = 1 .. Len(profiles[p].controls)
<1>1. Len(profiles) \in Nat /\ DOMAIN profiles = 1 .. Len(profiles)
  BY DEF File
<1>2. ASSUME NEW p \in 1 .. Len(profiles)
      PROVE  /\ profiles[p].controls \in Seq([id : STRING, populated : BOOLEAN])
             /\ Len(profiles[p].controls) \in Nat
             /\ DOMAIN profiles[p].controls = 1 .. Len(profiles[p].controls)
  <2>1. profiles[p] \in [name : STRING \ {O!NoParent}, parent : STRING,
                         controls : Seq([id : STRING, populated : BOOLEAN])]
    BY <1>2, ElementOfSeq DEF File
  <2>2. profiles[p].controls \in Seq([id : STRING, populated : BOOLEAN])
    BY <2>1
  <2> QED
    BY <2>2
<1> QED
  BY <1>1, <1>2

Flattened(f, seqs, n) ==
  f = [i \in 1 .. n |-> IF i = 1 THEN seqs[i] ELSE f[i - 1] \o seqs[i]]

LEMMA FlattenedExist ==
  ASSUME NEW seqs, NEW n \in Nat
  PROVE  \E f : Flattened(f, seqs, n)
<1> DEFINE Bad == {m \in Nat : ~ \E f : Flattened(f, seqs, m)}
<1> SUFFICES ASSUME Bad # {} PROVE FALSE
  OBVIOUS
<1>1. PICK m \in Bad : \A i \in Bad : m <= i
  BY FirstPlace
<1>2. m # 0
  <2>1. Flattened([i \in 1 .. 0 |-> <<>>], seqs, 0)
    BY DEF Flattened
  <2> QED
    BY <2>1
<1>3. m - 1 \in Nat /\ m - 1 \notin Bad
  BY <1>1, <1>2
<1>4. PICK f : Flattened(f, seqs, m - 1)
  BY <1>3
<1> DEFINE g == [i \in 1 .. m |-> IF i = m THEN IF m = 1 THEN seqs[m] ELSE f[m - 1] \o seqs[m]
                                 ELSE f[i]]
<1>5. \A i \in 1 .. m - 1 : g[i] = f[i]
  BY <1>3
<1>6. ASSUME NEW i \in 1 .. m
      PROVE  g[i] = IF i = 1 THEN seqs[i] ELSE g[i - 1] \o seqs[i]
  <2>1. CASE i = m
    BY <2>1, <1>2, <1>3, <1>5
  <2>2. CASE i # m
    <3>1. i \in 1 .. m - 1 /\ (i # 1 => i - 1 \in 1 .. m - 1)
      BY <2>2, <1>3
    <3>2. f[i] = IF i = 1 THEN seqs[i] ELSE f[i - 1] \o seqs[i]
      BY <3>1, <1>4 DEF Flattened
    <3> QED
      BY <1>5, <3>1, <3>2
  <2> QED
    BY <2>1, <2>2
<1>7. g = [i \in 1 .. m |-> g[i]]
  OBVIOUS
<1> HIDE DEF g
<1>8. Flattened(g, seqs, m)
  BY <1>6, <1>7 DEF Flattened
<1> QED
  BY <1>8

\* s has the places of the first n profiles, each once.
Covers(s, n) ==
  /\ s \in Seq(Places)
  /\ \A j \in 1 .. Len(s) : s[j][1] <= n
  /\ \A k \in Places : k[1] <= n => \E j \in 1 .. Len(s) : s[j] = k
  /\ \A i, j \in 1 .. Len(s) : s[i] = s[j] => i = j

LEMMA BlockCovers ==
  ASSUME profiles \in File, NEW s, NEW n \in 1 .. Len(profiles), Covers(s, n - 1)
  PROVE  Covers(s \o [c \in DOMAIN profiles[n].controls |-> <<n, c>>], n)
<1> DEFINE b == [c \in DOMAIN profiles[n].controls |-> <<n, c>>]
           l == Len(profiles[n].controls)
           t == s \o b
<1>1. l \in Nat /\ DOMAIN profiles[n].controls = 1 .. l /\ n \in Nat
  BY FileData
<1>2. \A c \in 1 .. l : <<n, c>> \in Places
  BY <1>1 DEF Places
<1>3. b \in Seq(Places) /\ Len(b) = l /\ \A c \in 1 .. l : b[c] = <<n, c>>
  BY <1>1, <1>2
<1>4. s \in Seq(Places) /\ Len(s) \in Nat
  BY DEF Covers
<1> HIDE DEF b, l
<1>5. /\ t \in Seq(Places) /\ Len(t) = Len(s) + l
      /\ \A j \in 1 .. Len(s) : t[j] = s[j]
      /\ \A j \in Len(s) + 1 .. Len(s) + l : t[j] = b[j - Len(s)]
  <2>1. t \in Seq(Places) /\ Len(t) = Len(s) + Len(b)
    BY <1>3, <1>4, ConcatProperties
  <2>2. \A j \in 1 .. Len(s) + Len(b) :
          t[j] = IF j <= Len(s) THEN s[j] ELSE b[j - Len(s)]
    BY <1>3, <1>4, ConcatProperties
  <2> HIDE DEF t
  <2> QED
    BY <1>1, <1>3, <1>4, <2>1, <2>2
<1>6. \A j \in Len(s) + 1 .. Len(s) + l : t[j] = <<n, j - Len(s)>>
  <2> HIDE DEF t
  <2> TAKE j \in Len(s) + 1 .. Len(s) + l
  <2>1. j - Len(s) \in 1 .. l
    BY <1>1, <1>4
  <2> QED
    BY <1>3, <1>5, <2>1
<1> HIDE DEF t
<1>7. \A j \in 1 .. Len(t) : t[j][1] <= n
  <2> TAKE j \in 1 .. Len(t)
  <2>1. CASE j \in 1 .. Len(s)
    <3>1. t[j] = s[j] /\ s[j][1] <= n - 1 /\ s[j] \in Places
      BY <1>4, <1>5, <2>1 DEF Covers
    <3>2. s[j][1] \in Nat
      BY <3>1 DEF Places
    <3> QED
      BY <1>1, <3>1, <3>2
  <2>2. CASE j \in Len(s) + 1 .. Len(s) + l
    BY <1>1, <1>6, <2>2
  <2> QED
    BY <1>1, <1>4, <1>5, <2>1, <2>2
<1>8. ASSUME NEW k \in Places, k[1] <= n PROVE \E j \in 1 .. Len(t) : t[j] = k
  <2>0. k[1] \in Nat /\ k[2] \in Nat /\ k = <<k[1], k[2]>>
    BY DEF Places
  <2>1. CASE k[1] <= n - 1
    <3>1. PICK j \in 1 .. Len(s) : s[j] = k
      BY <2>1 DEF Covers
    <3>2. j \in 1 .. Len(t)
      BY <1>1, <1>4, <1>5
    <3>3. t[j] = k
      BY <1>5, <3>1
    <3> QED
      BY <3>2, <3>3
  <2>2. CASE k[1] = n
    <3>1. k[2] \in 1 .. l
      BY <2>2 DEF Places, l
    <3> DEFINE j == Len(s) + k[2]
    <3>2. j \in Len(s) + 1 .. Len(s) + l /\ j \in 1 .. Len(t) /\ j - Len(s) = k[2]
      <4>1. Len(t) = Len(s) + l /\ Len(s) \in Nat /\ l \in Nat
        BY <1>1, <1>4, <1>5
      <4> QED
        BY <3>1, <4>1
    <3> HIDE DEF j
    <3>3. t[j] = <<n, k[2]>>
      BY <1>6, <3>2
    <3> QED
      BY <2>0, <2>2, <3>2, <3>3
  <2> QED
    BY <1>1, <1>8, <2>0, <2>1, <2>2
<1>9. ASSUME NEW i \in 1 .. Len(t), NEW j \in 1 .. Len(t), t[i] = t[j] PROVE i = j
  <2>0. /\ i \in 1 .. Len(s) \/ i \in Len(s) + 1 .. Len(s) + l
        /\ j \in 1 .. Len(s) \/ j \in Len(s) + 1 .. Len(s) + l
    BY <1>1, <1>4, <1>5
  <2>1. \A h \in 1 .. Len(s) : t[h][1] < n
    <3> TAKE h \in 1 .. Len(s)
    <3>1. t[h] = s[h] /\ s[h][1] <= n - 1 /\ s[h] \in Places
      BY <1>4, <1>5 DEF Covers
    <3>2. s[h][1] \in Nat
      BY <3>1 DEF Places
    <3> QED
      BY <1>1, <3>1, <3>2
  <2>2. \A h \in Len(s) + 1 .. Len(s) + l : t[h][1] = n /\ t[h][2] = h - Len(s)
    BY <1>6
  <2>3. CASE i \in 1 .. Len(s) /\ j \in 1 .. Len(s)
    <3>1. s[i] = s[j]
      BY <1>5, <1>9, <2>3
    <3> QED
      BY <2>3, <3>1 DEF Covers
  <2>4. CASE i \in Len(s) + 1 .. Len(s) + l /\ j \in Len(s) + 1 .. Len(s) + l
    <3>1. i - Len(s) = j - Len(s)
      BY <1>9, <2>2, <2>4
    <3> QED
      BY <1>1, <1>4, <2>4, <3>1
  <2>5. CASE i \in 1 .. Len(s) /\ j \in Len(s) + 1 .. Len(s) + l
    BY <1>1, <1>9, <2>1, <2>2, <2>5
  <2>6. CASE j \in 1 .. Len(s) /\ i \in Len(s) + 1 .. Len(s) + l
    BY <1>1, <1>9, <2>1, <2>2, <2>6
  <2> QED
    BY <2>0, <2>3, <2>4, <2>5, <2>6
<1> QED
  BY <1>5, <1>7, <1>8, <1>9 DEF Covers, t, b

LEMMA FirstBlockCovers ==
  ASSUME profiles \in File, 1 \in 1 .. Len(profiles)
  PROVE  Covers([c \in DOMAIN profiles[1].controls |-> <<1, c>>], 1)
<1> DEFINE l == Len(profiles[1].controls)
           u == [c \in DOMAIN profiles[1].controls |-> <<1, c>>]
<1>1. l \in Nat /\ DOMAIN profiles[1].controls = 1 .. l
  BY FileData
<1>2. \A c \in 1 .. l : <<1, c>> \in Places
  BY <1>1 DEF Places
<1>3. u \in Seq(Places) /\ Len(u) = l /\ \A c \in 1 .. l : u[c] = <<1, c>>
  BY <1>1, <1>2
<1>4. \A k \in Places : k[1] <= 1 => k[2] \in 1 .. l /\ k = <<1, k[2]>>
  BY DEF Places
<1> HIDE DEF u, l
<1> QED
  BY <1>1, <1>3, <1>4 DEF Covers, u

\* allControls has every control of every profile, once.
LEMMA AllControlsCover ==
  ASSUME profiles \in File
  PROVE  Covers(O!AllControls, Len(profiles))
<1> DEFINE N == Len(profiles)
           B == [p \in DOMAIN profiles |-> [c \in DOMAIN profiles[p].controls |-> <<p, c>>]]
           f == CHOOSE f : Flattened(f, B, N)
<1>1. /\ N \in Nat /\ DOMAIN profiles = 1 .. N
      /\ Len(B) = N /\ \A p \in 1 .. N : B[p] = [c \in DOMAIN profiles[p].controls |-> <<p, c>>]
  BY FileData
<1>2. O!AllControls = IF N = 0 THEN B ELSE f[N]
  BY <1>1 DEF O!AllControls, O!FlattenSeq, O!Profiles, Flattened
<1>3. Flattened(f, B, N)
  BY <1>1, FlattenedExist
<1>4. CASE N = 0
  <2>1. B = <<>>
    BY <1>1, <1>4
  <2>2. Places = {}
    BY <1>4 DEF Places
  <2> QED
    BY <1>2, <1>4, <2>1, <2>2 DEF Covers
<1>5. CASE N # 0
  <2> HIDE DEF f, B
  <2>1. \A i \in 1 .. N : f[i] = IF i = 1 THEN B[i] ELSE f[i - 1] \o B[i]
    BY <1>3 DEF Flattened
  <2> DEFINE Bad == {i \in 1 .. N : ~ Covers(f[i], i)}
  <2>2. Bad = {}
    <3> SUFFICES ASSUME Bad # {} PROVE FALSE
      OBVIOUS
    <3>1. Bad \subseteq Nat
      BY <1>1
    <3>2. PICK m \in Bad : \A i \in Bad : m <= i
      <4> HIDE DEF Bad
      <4> QED
        BY <3>1, FirstPlace
    <3>3. m \in 1 .. N /\ ~ Covers(f[m], m) /\ B[m] = [c \in DOMAIN profiles[m].controls |-> <<m, c>>]
      BY <1>1
    <3>4. CASE m = 1
      <4>1. Covers([c \in DOMAIN profiles[1].controls |-> <<1, c>>], 1)
        BY <1>1, <3>3, <3>4, FirstBlockCovers
      <4> QED
        BY <2>1, <3>3, <3>4, <4>1
    <3>5. CASE m # 1
      <4>1. m - 1 \in 1 .. N /\ m - 1 \notin Bad
        BY <1>1, <3>2, <3>3, <3>5
      <4>2. Covers(f[m - 1], m - 1)
        BY <4>1
      <4>3. Covers(f[m - 1] \o B[m], m)
        BY <3>3, <4>2, BlockCovers
      <4> QED
        BY <2>1, <3>3, <3>5, <4>3
    <3> QED
      BY <3>4, <3>5
  <2>3. N \in 1 .. N
    BY <1>1, <1>5
  <2>4. Covers(f[N], N)
    BY <2>2, <2>3
  <2> QED
    BY <1>2, <1>5, <2>4
<1> QED
  BY <1>4, <1>5

-----------------------------------------------------------------------------
(* Chains: from has for each of K nothing, or one of K that has a lower rank. *)

Chain(K, from, rank, M) ==
  /\ rank \in [K -> 0 .. M]
  /\ \A k \in K : from[k] # <<>> => Head(from[k]) \in K /\ rank[Head(from[k])] < rank[k]

RootsAre(f, K, from) == f = [k \in K |-> IF from[k] = <<>> THEN k ELSE f[Head(from[k])]]

\* d tells how far each is from its root.
DepthsAre(d, K, from) ==
  /\ d \in [K -> Nat]
  /\ \A k \in K : d[k] = IF from[k] = <<>> THEN 0 ELSE d[Head(from[k])] + 1

RootsUpTo(f, d, K, from, rank, m) ==
  /\ f \in [K -> K] /\ d \in [K -> Nat]
  /\ \A k \in K : rank[k] < m =>
       /\ f[k] = IF from[k] = <<>> THEN k ELSE f[Head(from[k])]
       /\ d[k] = IF from[k] = <<>> THEN 0 ELSE d[Head(from[k])] + 1

LEMMA ChainsEnd ==
  ASSUME NEW K, NEW from, NEW rank, NEW M \in Nat, Chain(K, from, rank, M)
  PROVE  \E f, d : RootsAre(f, K, from) /\ DepthsAre(d, K, from)
<1> DEFINE Bad == {m \in Nat : ~ \E f, d : RootsUpTo(f, d, K, from, rank, m)}
<1>1. \A k \in K : /\ rank[k] \in 0 .. M
                   /\ from[k] # <<>> => Head(from[k]) \in K /\ rank[Head(from[k])] < rank[k]
  BY DEF Chain
<1>2. Bad = {}
  <2> SUFFICES ASSUME Bad # {} PROVE FALSE
    OBVIOUS
  <2>1. PICK m \in Bad : \A i \in Bad : m <= i
    BY FirstPlace
  <2>2. m # 0
    <3>1. RootsUpTo([k \in K |-> k], [k \in K |-> 0], K, from, rank, 0)
      BY <1>1 DEF RootsUpTo
    <3> QED
      BY <3>1
  <2>3. m - 1 \in Nat /\ m - 1 \notin Bad /\ m \in Nat
    BY <2>1, <2>2
  <2>4. PICK f, d : RootsUpTo(f, d, K, from, rank, m - 1)
    BY <2>3
  <2> DEFINE g == [k \in K |-> IF rank[k] = m - 1 /\ from[k] # <<>> THEN f[Head(from[k])]
                               ELSE IF rank[k] = m - 1 THEN k ELSE f[k]]
             e == [k \in K |-> IF rank[k] = m - 1 /\ from[k] # <<>> THEN d[Head(from[k])] + 1
                               ELSE IF rank[k] = m - 1 THEN 0 ELSE d[k]]
  <2>5. g \in [K -> K] /\ e \in [K -> Nat]
    BY <1>1, <2>4 DEF RootsUpTo
  <2>6. ASSUME NEW k \in K, rank[k] < m
        PROVE  /\ g[k] = IF from[k] = <<>> THEN k ELSE g[Head(from[k])]
               /\ e[k] = IF from[k] = <<>> THEN 0 ELSE e[Head(from[k])] + 1
    <3>1. rank[k] \in Nat /\ (from[k] # <<>> => rank[Head(from[k])] \in Nat)
      BY <1>1
    <3>2. from[k] # <<>> => /\ Head(from[k]) \in K
                            /\ g[Head(from[k])] = f[Head(from[k])]
                            /\ e[Head(from[k])] = d[Head(from[k])]
      BY <1>1, <2>3, <2>6, <3>1
    <3>3. CASE rank[k] = m - 1
      BY <3>2, <3>3
    <3>4. CASE rank[k] # m - 1
      <4>1. rank[k] < m - 1
        BY <2>3, <2>6, <3>1, <3>4
      <4>2. /\ f[k] = IF from[k] = <<>> THEN k ELSE f[Head(from[k])]
            /\ d[k] = IF from[k] = <<>> THEN 0 ELSE d[Head(from[k])] + 1
        BY <2>4, <4>1 DEF RootsUpTo
      <4>3. g[k] = f[k] /\ e[k] = d[k]
        BY <3>4
      <4> QED
        BY <3>2, <4>2, <4>3
    <3> QED
      BY <3>3, <3>4
  <2> HIDE DEF g, e
  <2>7. RootsUpTo(g, e, K, from, rank, m)
    BY <2>5, <2>6 DEF RootsUpTo
  <2> QED
    BY <2>7
<1>3. PICK f, d : RootsUpTo(f, d, K, from, rank, M + 1)
  BY <1>2
<1>4. \A k \in K : rank[k] < M + 1
  BY <1>1
<1>5. \A k \in K : /\ f[k] = IF from[k] = <<>> THEN k ELSE f[Head(from[k])]
                   /\ d[k] = IF from[k] = <<>> THEN 0 ELSE d[Head(from[k])] + 1
  BY <1>3, <1>4 DEF RootsUpTo
<1>6. f \in [K -> K] /\ d \in [K -> Nat]
  BY <1>3 DEF RootsUpTo
<1>7. RootsAre(f, K, from)
  BY <1>5, <1>6 DEF RootsAre
<1>8. DepthsAre(d, K, from)
  BY <1>5, <1>6 DEF DepthsAre
<1> QED
  BY <1>7, <1>8

\* That none of K comes from k.
Final(k, K, from) == \A l \in K : from[l] # <<>> => Head(from[l]) # k

\* From every root one comes to a last one.
LEMMA SomeLast ==
  ASSUME NEW K, NEW from, NEW rank, NEW M \in Nat, Chain(K, from, rank, M),
         NEW f, RootsAre(f, K, from), NEW r \in K, from[r] = <<>>
  PROVE  \E k \in K : Final(k, K, from) /\ f[k] = r
<1> DEFINE Left == {M - rank[k] : k \in {l \in K : f[l] = r}}
<1>1. \A k \in K : /\ rank[k] \in 0 .. M
                   /\ from[k] # <<>> => Head(from[k]) \in K /\ rank[Head(from[k])] < rank[k]
  BY DEF Chain
<1>2. \A k \in K : f[k] = IF from[k] = <<>> THEN k ELSE f[Head(from[k])]
  BY DEF RootsAre
<1>3. f[r] = r
  BY <1>2
<1>4. Left \subseteq Nat /\ Left # {}
  BY <1>1, <1>3
<1>5. PICK n \in Left : \A i \in Left : n <= i
  <2> HIDE DEF Left
  <2> QED
    BY <1>4, FirstPlace
<1>6. PICK k \in K : f[k] = r /\ n = M - rank[k]
  BY <1>5
<1>7. ASSUME NEW l \in K, from[l] # <<>>, Head(from[l]) = k PROVE FALSE
  <2>1. f[l] = r /\ rank[k] < rank[l]
    BY <1>1, <1>2, <1>6, <1>7
  <2>2. M - rank[l] \in Left
    BY <2>1
  <2>3. n <= M - rank[l]
    BY <1>5, <2>2
  <2>4. rank[k] \in Nat /\ rank[l] \in Nat
    BY <1>1
  <2> HIDE DEF Left
  <2> QED
    BY <1>6, <2>1, <2>3, <2>4
<1> QED
  BY <1>6, <1>7 DEF Final

\* And to one only if no two come from the same.
LEMMA OneLast ==
  ASSUME NEW K, NEW from, NEW rank, NEW M \in Nat, Chain(K, from, rank, M),
         NEW f, RootsAre(f, K, from), NEW r,
         \A k, l \in K : from[k] # <<>> /\ from[l] # <<>> /\ Head(from[k]) = Head(from[l]) => k = l,
         NEW k \in K, f[k] = r, Final(k, K, from),
         NEW l \in K, f[l] = r, Final(l, K, from)
  PROVE  k = l
<1>1. PICK d : DepthsAre(d, K, from)
  BY ChainsEnd
<1>2. \A x \in K : /\ d[x] \in Nat
                   /\ from[x] = <<>> => d[x] = 0 /\ f[x] = x
                   /\ from[x] # <<>> => /\ Head(from[x]) \in K
                                        /\ d[x] = d[Head(from[x])] + 1
                                        /\ f[x] = f[Head(from[x])]
  BY <1>1 DEF DepthsAre, RootsAre, Chain
<1> DEFINE C == {x \in K : f[x] = r}
           Same == {n \in Nat : \E x, y \in C : d[x] = n /\ d[y] = n /\ x # y}
<1>3. Same = {}
  <2> SUFFICES ASSUME Same # {} PROVE FALSE
    OBVIOUS
  <2>1. PICK n \in Same : \A i \in Same : n <= i
    BY FirstPlace
  <2>2. PICK x \in K, y \in K : f[x] = r /\ f[y] = r /\ d[x] = n /\ d[y] = n /\ x # y
    BY <2>1
  <2>3. from[x] # <<>> /\ from[y] # <<>>
    BY <1>2, <2>2
  <2> DEFINE a == Head(from[x])
             b == Head(from[y])
  <2>4. /\ a \in K /\ b \in K /\ f[a] = r /\ f[b] = r
        /\ d[a] = n - 1 /\ d[b] = n - 1 /\ n - 1 \in Nat /\ a # b
    <3> HIDE DEF C, Same
    <3>1. a # b
      BY <2>2, <2>3
    <3>2. /\ a \in K /\ f[a] = r /\ d[x] = d[a] + 1 /\ d[a] \in Nat
          /\ b \in K /\ f[b] = r /\ d[y] = d[b] + 1 /\ d[b] \in Nat
      BY <1>2, <2>2, <2>3
    <3> HIDE DEF a, b
    <3> QED
      BY <2>2, <3>1, <3>2
  <2> HIDE DEF a, b
  <2>5. n - 1 \in Same
    BY <2>4
  <2>6. n <= n - 1 /\ n \in Nat
    BY <2>1, <2>5
  <2> QED
    BY <2>6
<1> DEFINE Beyond == {n \in Nat : \E x, y \in C : d[x] = n /\ d[y] < n /\ Final(y, K, from)}
<1>4. Beyond = {}
  <2> SUFFICES ASSUME Beyond # {} PROVE FALSE
    OBVIOUS
  <2>1. PICK n \in Beyond : \A i \in Beyond : n <= i
    <3> HIDE DEF Beyond
    <3>1. Beyond \subseteq Nat
      BY DEF Beyond
    <3> QED
      BY <3>1, FirstPlace
  <2>2. PICK x \in K, y \in K : f[x] = r /\ f[y] = r /\ d[x] = n /\ d[y] < n /\ Final(y, K, from)
    BY <2>1
  <2>3. from[x] # <<>>
    BY <1>2, <2>2
  <2> DEFINE a == Head(from[x])
  <2>4. a \in K /\ f[a] = r /\ d[a] = n - 1 /\ n - 1 \in Nat /\ n \in Nat /\ a # y
    <3> HIDE DEF C, Same, Beyond
    <3>1. a \in K /\ f[a] = r /\ d[x] = d[a] + 1 /\ d[a] \in Nat /\ d[x] \in Nat
      BY <1>2, <2>2, <2>3
    <3>2. a # y
      BY <2>2, <2>3 DEF Final
    <3> QED
      BY <2>2, <3>1, <3>2
  <2> HIDE DEF a
  <2>5. d[y] # n - 1
    <3> SUFFICES ASSUME d[y] = n - 1 PROVE FALSE
      OBVIOUS
    <3>1. n - 1 \in Same
      BY <2>2, <2>4
    <3> QED
      BY <1>3, <3>1
  <2>6. d[y] < n - 1
    BY <1>2, <2>2, <2>4, <2>5
  <2>7. n - 1 \in Beyond
    BY <2>2, <2>4, <2>6
  <2>8. n <= n - 1
    BY <2>1, <2>7
  <2> QED
    BY <2>4, <2>8
<1>5. d[k] \in Nat /\ d[l] \in Nat /\ k \in C /\ l \in C
  BY <1>2
<1>6. CASE d[k] = d[l]
  <2> SUFFICES ASSUME k # l PROVE FALSE
    OBVIOUS
  <2>1. d[k] \in Same
    BY <1>5, <1>6
  <2> QED
    BY <1>3, <2>1
<1>7. CASE d[k] < d[l]
  <2>1. d[l] \in Beyond
    BY <1>5, <1>7
  <2> QED
    BY <1>4, <2>1
<1>8. CASE d[l] < d[k]
  <2>1. d[k] \in Beyond
    BY <1>5, <1>8
  <2> QED
    BY <1>4, <2>1
<1> QED
  BY <1>5, <1>6, <1>7, <1>8

-----------------------------------------------------------------------------
(* The overlays of a file: what its profiles and its controls are tied to. *)

\* What a control extends once it has been linked (Overlays.LinkControl).
From(k) ==
  IF extendsFrom[k[1]] # <<>> THEN O!Ancestors(k)
  ELSE IF extendedBy[k[1]] # <<>> \/ O!Original(k) = k THEN <<>>
  ELSE <<O!Original(k)>>

Elements(s) == {s[i] : i \in DOMAIN s}

ProfilesInv ==
  /\ profiles \in Evaluations
  /\ step \in Nat
  /\ extendsFrom \in [1 .. Len(profiles) -> Seq(1 .. Len(profiles))]
  /\ extendedBy \in [1 .. Len(profiles) -> Seq(1 .. Len(profiles))]
  /\ \A p \in 1 .. Len(profiles) :
       extendedBy[p] = IF p <= step /\ O!Parent(profiles, p) # 0
                         THEN <<O!Parent(profiles, p)>> ELSE <<>>
  /\ \A p, q \in 1 .. Len(profiles) :
       q \in Elements(extendsFrom[p]) <=> q <= step /\ O!Parent(profiles, q) = p

ControlsInv ==
  /\ controlFrom \in [Places -> Seq(Places)]
  /\ controlBy \in [Places -> Seq(Places)]
  /\ \A j \in 1 .. Len(O!AllControls) :
       LET k == O!AllControls[j]
       IN /\ controlFrom[k] = IF Len(profiles) + j <= step THEN From(k) ELSE <<>>
          /\ \A a \in Places : k \in Elements(controlBy[a])
                                 <=> Len(profiles) + j <= step /\ From(k) = <<a>>

LEMMA LeastIs ==
  ASSUME NEW I, I \subseteq Nat, I # {}
  PROVE  O!Min(I) \in I /\ \A i \in I : O!Min(I) <= i
<1>1. \E x \in I : \A y \in I : x <= y
  BY FirstPlace
<1> QED
  BY <1>1 DEF O!Min

LEMMA ElementsAppend ==
  ASSUME NEW T, NEW s \in Seq(T), NEW x \in T
  PROVE  Append(s, x) \in Seq(T) /\ Elements(Append(s, x)) = Elements(s) \cup {x}
<1>1. /\ Append(s, x) \in Seq(T) /\ Len(s) \in Nat /\ DOMAIN s = 1 .. Len(s)
      /\ DOMAIN Append(s, x) = 1 .. Len(s) + 1
      /\ \A i \in 1 .. Len(s) : Append(s, x)[i] = s[i]
      /\ Append(s, x)[Len(s) + 1] = x
  BY AppendProperties
<1>2. ASSUME NEW i \in 1 .. Len(s) + 1 PROVE Append(s, x)[i] \in Elements(s) \cup {x}
  <2>1. CASE i \in 1 .. Len(s)
    BY <1>1, <2>1 DEF Elements
  <2>2. CASE i = Len(s) + 1
    BY <1>1, <2>2
  <2> QED
    BY <1>1, <2>1, <2>2
<1>3. ASSUME NEW y \in Elements(s) PROVE y \in Elements(Append(s, x))
  <2>1. PICK i \in 1 .. Len(s) : y = s[i]
    BY <1>1 DEF Elements
  <2>2. i \in 1 .. Len(s) + 1 /\ Append(s, x)[i] = y
    BY <1>1, <2>1
  <2> QED
    BY <1>1, <2>2 DEF Elements
<1>4. x \in Elements(Append(s, x))
  BY <1>1 DEF Elements
<1> QED
  BY <1>1, <1>2, <1>3, <1>4 DEF Elements

\* allControls has the places of all controls, each once.
LEMMA ControlsArePlaces ==
  ASSUME profiles \in File
  PROVE  /\ O!AllControls \in Seq(Places) /\ Len(O!AllControls) \in Nat
         /\ O!Controls = Places
         /\ \A k \in Places : \E j \in 1 .. Len(O!AllControls) : O!AllControls[j] = k
         /\ \A j \in 1 .. Len(O!AllControls) : O!AllControls[j] \in Places
         /\ \A i, j \in 1 .. Len(O!AllControls) :
              O!AllControls[i] = O!AllControls[j] => i = j
<1> DEFINE s == O!AllControls
<1>1. Covers(s, Len(profiles))
  BY AllControlsCover
<1> HIDE DEF s
<1>2. s \in Seq(Places) /\ Len(s) \in Nat /\ DOMAIN s = 1 .. Len(s)
  BY <1>1 DEF Covers
<1>3. \A j \in 1 .. Len(s) : s[j] \in Places
  BY <1>2, ElementOfSeq
<1>4. \A k \in Places : k[1] <= Len(profiles)
  BY FileData DEF Places
<1>5. \A k \in Places : \E j \in 1 .. Len(s) : s[j] = k
  BY <1>1, <1>4 DEF Covers
<1>6. \A i, j \in 1 .. Len(s) : s[i] = s[j] => i = j
  BY <1>1 DEF Covers
<1>7. O!Controls = {s[j] : j \in DOMAIN s}
  BY DEF O!Controls, O!ToSet, s
<1>8. O!Controls = Places
  BY <1>2, <1>3, <1>5, <1>7
<1> QED
  BY <1>2, <1>3, <1>5, <1>6, <1>8 DEF s

LEMMA ParentIs ==
  ASSUME profiles \in File, NEW p \in 1 .. Len(profiles)
  PROVE  O!Parent(profiles, p) \in 0 .. Len(profiles)
<1> DEFINE I == {i \in 1 .. Len(profiles) : profiles[i].name = profiles[p].parent}
<1>1. O!Parent(profiles, p) = IF I # {} THEN O!Min(I) ELSE 0
  BY DEF O!Parent, O!SelectInSeq
<1>2. Len(profiles) \in Nat
  BY FileData
<1>3. I # {} => O!Min(I) \in I
  <2>1. I \subseteq Nat
    OBVIOUS
  <2> HIDE DEF I
  <2> QED
    BY <2>1, LeastIs
<1> QED
  BY <1>1, <1>2, <1>3

\* A profile has the control that is found in it.
LEMMA PlaceIs ==
  ASSUME profiles \in File, NEW p \in 1 .. Len(profiles), NEW k, O!Place(p, k) # 0
  PROVE  <<p, O!Place(p, k)>> \in Places /\ O!Id(<<p, O!Place(p, k)>>) = O!Id(k)
<1> DEFINE I == {i \in 1 .. Len(profiles[p].controls) : profiles[p].controls[i].id = O!Id(k)}
<1>1. O!Place(p, k) = IF I # {} THEN O!Min(I) ELSE 0
  BY DEF O!Place, O!SelectInSeq
<1>2. Len(profiles) \in Nat /\ Len(profiles[p].controls) \in Nat
  BY FileData
<1>3. I # {} /\ O!Place(p, k) = O!Min(I)
  BY <1>1
<1>4. O!Place(p, k) \in I
  <2>1. I \subseteq Nat
    BY <1>2
  <2> HIDE DEF I
  <2> QED
    BY <1>3, <2>1, LeastIs
<1> QED
  BY <1>2, <1>4 DEF Places, O!Id, O!Data

\* The original of a control is the original of all that have its id.
LEMMA OriginalIs ==
  ASSUME profiles \in File, NEW k \in Places
  PROVE  /\ O!Original(k) \in Places /\ O!Id(O!Original(k)) = O!Id(k)
         /\ \A l \in Places : O!Id(l) = O!Id(k) => O!Original(l) = O!Original(k)
<1> DEFINE s == O!AllControls
           I(id) == {i \in 1 .. Len(s) : O!Id(s[i]) = id}
           J(id) == {i \in 1 .. Len(s) : O!Id(s[i]) = id /\ O!Data(s[i]).populated}
           Found(id) == s[IF J(id) # {} THEN O!Min(J(id)) ELSE IF I(id) # {} THEN O!Min(I(id)) ELSE 0]
<1>1. PICK n \in 1 .. Len(s) : s[n] = k
  BY ControlsArePlaces
<1>2. I(O!Id(k)) # {} /\ I(O!Id(k)) \subseteq Nat /\ J(O!Id(k)) \subseteq Nat
  <2>1. n \in I(O!Id(k))
    BY <1>1
  <2>2. Len(s) \in Nat
    BY ControlsArePlaces
  <2> QED
    BY <2>1, <2>2
<1>3. O!Min(I(O!Id(k))) \in I(O!Id(k))
  <2> HIDE DEF I
  <2> QED
    BY <1>2, LeastIs
<1>4. J(O!Id(k)) # {} => O!Min(J(O!Id(k))) \in J(O!Id(k))
  <2> HIDE DEF J
  <2> QED
    BY <1>2, LeastIs
<1>5. \A l : O!Original(l) = Found(O!Id(l))
  <2> TAKE l
  <2>1. O!SelectInSeq(O!AllControls, LAMBDA a : O!Id(a) = O!Id(l))
          = IF I(O!Id(l)) # {} THEN O!Min(I(O!Id(l))) ELSE 0
    BY DEF O!SelectInSeq
  <2>2. O!SelectInSeq(O!AllControls, LAMBDA a : O!Id(a) = O!Id(l) /\ O!Data(a).populated)
          = IF J(O!Id(l)) # {} THEN O!Min(J(O!Id(l))) ELSE 0
    BY DEF O!SelectInSeq
  <2>3. J(O!Id(l)) # {} => O!Min(J(O!Id(l))) # 0
    <3>1. J(O!Id(l)) \subseteq Nat /\ 0 \notin J(O!Id(l))
      BY ControlsArePlaces
    <3> HIDE DEF J
    <3> QED
      BY <3>1, LeastIs
  <2> HIDE DEF I, J
  <2> QED
    BY <2>1, <2>2, <2>3 DEF O!Original
<1>6. PICK i \in 1 .. Len(s) : Found(O!Id(k)) = s[i] /\ O!Id(s[i]) = O!Id(k)
  <2>1. CASE J(O!Id(k)) # {}
    BY <1>4, <2>1
  <2>2. CASE J(O!Id(k)) = {}
    BY <1>2, <1>3, <2>2
  <2> QED
    BY <2>1, <2>2
<1>7. s[i] \in Places
  BY ControlsArePlaces
<1> HIDE DEF Found, s
<1>8. \A l \in Places : O!Id(l) = O!Id(k) => O!Original(l) = O!Original(k)
  BY <1>5
<1> QED
  BY <1>5, <1>6, <1>7, <1>8

\* A control extends one of its id in a profile that its own is an overlay of; of a
\* profile that is tied to none, the original.
LEMMA FromIs ==
  ASSUME profiles \in File, extendsFrom \in [1 .. Len(profiles) -> Seq(1 .. Len(profiles))],
         NEW k \in Places, From(k) # <<>>
  PROVE  \E a \in Places :
           /\ From(k) = <<a>> /\ O!Id(a) = O!Id(k)
           /\ \/ a[1] \in Elements(extendsFrom[k[1]])
              \/ extendsFrom[k[1]] = <<>> /\ extendedBy[k[1]] = <<>> /\ a = O!Original(k) /\ a # k
<1>1. CASE extendsFrom[k[1]] = <<>>
  BY <1>1, OriginalIs DEF From
<1>2. CASE extendsFrom[k[1]] # <<>>
  <2> DEFINE from == extendsFrom[k[1]]
             I == {i \in 1 .. Len(from) : O!Place(from[i], k) # 0}
             n == IF I # {} THEN O!Min(I) ELSE 0
  <2>1. k[1] \in 1 .. Len(profiles)
    BY DEF Places
  <2>2. from \in Seq(1 .. Len(profiles)) /\ Len(from) \in Nat /\ DOMAIN from = 1 .. Len(from)
    BY <2>1
  <2>3. From(k) = IF n = 0 THEN <<>> ELSE << <<from[n], O!Place(from[n], k)>> >>
    BY <1>2 DEF From, O!Ancestors, O!SelectInSeq
  <2>4. I # {} /\ n = O!Min(I)
    BY <2>3
  <2>5. n \in I
    <3>1. I \subseteq Nat
      BY <2>2
    <3> HIDE DEF I, n
    <3> QED
      BY <2>4, <3>1, LeastIs
  <2>6. n \in 1 .. Len(from) /\ O!Place(from[n], k) # 0
    BY <2>5
  <2> HIDE DEF I, n
  <2> HIDE DEF from
  <2>7. from[n] \in 1 .. Len(profiles) /\ from[n] \in Elements(from) /\ n # 0
    <3>1. from[n] \in 1 .. Len(profiles)
      BY <2>2, <2>6, ElementOfSeq
    <3>2. from[n] \in Elements(from)
      BY <2>2, <2>6 DEF Elements
    <3> QED
      BY <2>2, <2>6, <3>1, <3>2
  <2> DEFINE a == <<from[n], O!Place(from[n], k)>>
  <2>8. a \in Places /\ O!Id(a) = O!Id(k) /\ a[1] \in Elements(from) /\ From(k) = <<a>>
    BY <2>3, <2>6, <2>7, PlaceIs
  <2> QED
    BY <2>8 DEF from
<1> QED
  BY <1>1, <1>2

-----------------------------------------------------------------------------
LEMMA OverlaysFile ==
  ASSUME profiles \in Evaluations
  PROVE  /\ profiles \in File /\ O!Profiles = 1 .. Len(profiles)
         /\ Len(profiles) \in Nat /\ Len(O!AllControls) \in Nat
         /\ O!Controls = Places
<1>1. profiles \in File
  BY OverlaysAssumption DEF O!FilesRight, File
<1> QED
  BY <1>1, FileData, ControlsArePlaces DEF O!Profiles

LEMMA OverlaysInit ==
  ASSUME O!Init
  PROVE  ProfilesInv /\ ControlsInv
<1>1. /\ profiles \in Evaluations /\ step = 0
      /\ extendsFrom = [p \in O!Profiles |-> <<>>] /\ extendedBy = [p \in O!Profiles |-> <<>>]
      /\ controlFrom = [k \in O!Controls |-> <<>>] /\ controlBy = [k \in O!Controls |-> <<>>]
  BY DEF O!Init, O!Start
<1>2. /\ profiles \in File /\ O!Profiles = 1 .. Len(profiles)
      /\ Len(profiles) \in Nat /\ Len(O!AllControls) \in Nat
      /\ O!Controls = Places
  BY <1>1, OverlaysFile
<1>3. Elements(<<>>) = {}
  BY DEF Elements
<1>4. ProfilesInv
  BY <1>1, <1>2, <1>3 DEF ProfilesInv
<1>5. \A j \in 1 .. Len(O!AllControls) :
        O!AllControls[j] \in Places /\ ~ Len(profiles) + j <= step
  BY <1>1, <1>2, ControlsArePlaces
<1>6. controlFrom \in [Places -> Seq(Places)] /\ controlBy \in [Places -> Seq(Places)]
  BY <1>1, <1>2
<1>7. \A k \in Places : controlFrom[k] = <<>> /\ controlBy[k] = <<>>
  BY <1>1, <1>2
<1>8. ControlsInv
  BY <1>3, <1>5, <1>6, <1>7 DEF ControlsInv
<1> QED
  BY <1>4, <1>8

LEMMA FileStays ==
  ASSUME profiles' = profiles
  PROVE  /\ Places' = Places /\ O!AllControls' = O!AllControls
         /\ \A p : O!Parent(profiles, p)' = O!Parent(profiles, p)
         /\ (File)' = File
BY DEF Places, O!AllControls, O!Profiles, O!FlattenSeq, O!Parent, O!SelectInSeq, O!Min, File

LEMMA FromStays ==
  ASSUME profiles' = profiles, extendsFrom' = extendsFrom, extendedBy' = extendedBy
  PROVE  \A k : From(k)' = From(k)
<1> TAKE k
<1>1. O!AllControls' = O!AllControls
  BY FileStays
<1>3. O!Original(k)' = O!Original(k)
  BY <1>1 DEF O!Original, O!SelectInSeq, O!Id, O!Data
<1>5. O!Ancestors(k)' = O!Ancestors(k)
  BY DEF O!Ancestors, O!Place, O!SelectInSeq, O!Id, O!Data
<1> QED
  BY <1>3, <1>5 DEF From

LEMMA StepLinksProfile ==
  ASSUME ProfilesInv, ControlsInv, O!LinkProfile
  PROVE  ProfilesInv' /\ ControlsInv'
<1> DEFINE N == Len(profiles)
           p == step + 1
           parent == O!Parent(profiles, p)
<1>1. /\ p <= N /\ step' = p /\ profiles' = profiles
      /\ controlFrom' = controlFrom /\ controlBy' = controlBy
      /\ parent = 0 => extendsFrom' = extendsFrom /\ extendedBy' = extendedBy
      /\ parent # 0 => /\ extendsFrom' = [extendsFrom EXCEPT ![parent] = Append(@, p)]
                       /\ extendedBy' = [extendedBy EXCEPT ![p] = Append(@, parent)]
  BY DEF O!LinkProfile
<1>2. /\ profiles \in Evaluations /\ step \in Nat
      /\ extendsFrom \in [1 .. N -> Seq(1 .. N)]
      /\ extendedBy \in [1 .. N -> Seq(1 .. N)]
      /\ \A q \in 1 .. N : extendedBy[q] = IF q <= step /\ O!Parent(profiles, q) # 0
                                             THEN <<O!Parent(profiles, q)>> ELSE <<>>
      /\ \A x, q \in 1 .. N :
           q \in Elements(extendsFrom[x]) <=> q <= step /\ O!Parent(profiles, q) = x
  BY DEF ProfilesInv
<1>3. profiles \in File /\ N \in Nat /\ Len(O!AllControls) \in Nat
  BY <1>2, OverlaysFile
<1>4. p \in 1 .. N /\ parent \in 0 .. N /\ p \in Nat
  BY <1>1, <1>2, <1>3, ParentIs
<1>5. /\ Places' = Places /\ O!AllControls' = O!AllControls
      /\ \A q : O!Parent(profiles, q)' = O!Parent(profiles, q)
  BY <1>1, FileStays
<1> HIDE DEF parent
<1>6. \A q \in 1 .. N : q <= p <=> q <= step \/ q = p
  BY <1>2, <1>3
<1>7. \A x \in 1 .. N : ~ p <= step
  BY <1>2
<1>8. extendedBy[p] = <<>>
  BY <1>2, <1>4, <1>7
<1>9. /\ extendsFrom' \in [1 .. N -> Seq(1 .. N)]
      /\ extendedBy' \in [1 .. N -> Seq(1 .. N)]
      /\ \A q \in 1 .. N : extendedBy'[q] = IF q = p /\ parent # 0 THEN <<parent>> ELSE extendedBy[q]
      /\ \A x \in 1 .. N : Elements(extendsFrom'[x])
                             = IF x = parent THEN Elements(extendsFrom[x]) \cup {p}
                                             ELSE Elements(extendsFrom[x])
  <2>1. CASE parent = 0
    BY <1>1, <1>2, <1>3, <2>1
  <2>2. CASE parent # 0
    <3>1. parent \in 1 .. N
      BY <1>4, <2>2
    <3>2. /\ Append(extendsFrom[parent], p) \in Seq(1 .. N)
          /\ Elements(Append(extendsFrom[parent], p)) = Elements(extendsFrom[parent]) \cup {p}
      <4>1. extendsFrom[parent] \in Seq(1 .. N)
        BY <1>2, <3>1
      <4> QED
        BY <1>4, <4>1, ElementsAppend
    <3>3. Append(extendedBy[p], parent) = <<parent>> /\ <<parent>> \in Seq(1 .. N)
      BY <1>8, <3>1
    <3>4. extendsFrom' \in [1 .. N -> Seq(1 .. N)] /\ extendedBy' \in [1 .. N -> Seq(1 .. N)]
      <4>1. extendsFrom' = [extendsFrom EXCEPT ![parent] = Append(extendsFrom[parent], p)]
        BY <1>1, <2>2
      <4>2. extendedBy' = [extendedBy EXCEPT ![p] = <<parent>>]
        BY <1>1, <2>2, <3>3
      <4> HIDE DEF p
      <4> QED
        BY <1>2, <3>2, <3>3, <4>1, <4>2
    <3>5. \A q \in 1 .. N : extendedBy'[q] = IF q = p THEN <<parent>> ELSE extendedBy[q]
      BY <1>1, <1>2, <1>4, <2>2, <3>3
    <3>6. \A x \in 1 .. N : extendsFrom'[x] = IF x = parent THEN Append(extendsFrom[parent], p)
                                                            ELSE extendsFrom[x]
      BY <1>1, <1>2, <2>2, <3>1
    <3> QED
      BY <2>2, <3>2, <3>4, <3>5, <3>6
  <2> QED
    BY <2>1, <2>2
<1>10. \A q \in 1 .. N : extendedBy'[q] = IF q <= p /\ O!Parent(profiles, q) # 0
                                            THEN <<O!Parent(profiles, q)>> ELSE <<>>
  BY <1>2, <1>6, <1>8, <1>9 DEF parent
<1>11. \A x, q \in 1 .. N :
         q \in Elements(extendsFrom'[x]) <=> q <= p /\ O!Parent(profiles, q) = x
  BY <1>2, <1>6, <1>9 DEF parent
<1>12. ProfilesInv'
  BY <1>1, <1>2, <1>4, <1>5, <1>9, <1>10, <1>11 DEF ProfilesInv
<1>13. \A j \in 1 .. Len(O!AllControls) : ~ N + j <= step /\ ~ N + j <= p
  BY <1>1, <1>2, <1>3
<1>14. ControlsInv'
  BY <1>1, <1>5, <1>13 DEF ControlsInv
<1> QED
  BY <1>12, <1>14

LEMMA StepLinksControl ==
  ASSUME ProfilesInv, ControlsInv, O!LinkControl
  PROVE  ProfilesInv' /\ ControlsInv'
<1> DEFINE N == Len(profiles)
           n == step + 1 - N
           all == O!AllControls
           k == all[n]
<1>1. /\ n >= 1 /\ n <= Len(all) /\ step' = step + 1
      /\ profiles' = profiles /\ extendsFrom' = extendsFrom /\ extendedBy' = extendedBy
  BY DEF O!LinkControl
<1>2. /\ profiles \in Evaluations /\ step \in Nat
      /\ extendsFrom \in [1 .. N -> Seq(1 .. N)]
  BY DEF ProfilesInv
<1>3. /\ profiles \in File /\ N \in Nat /\ Len(all) \in Nat /\ O!Controls = Places
      /\ \A j \in 1 .. Len(all) : all[j] \in Places
      /\ \A i, j \in 1 .. Len(all) : all[i] = all[j] => i = j
  BY <1>2, OverlaysFile, ControlsArePlaces
<1>4. /\ Places' = Places /\ all' = all
      /\ \A q : O!Parent(profiles, q)' = O!Parent(profiles, q)
      /\ \A x : From(x)' = From(x)
  BY <1>1, FileStays, FromStays
<1>5. /\ controlFrom \in [Places -> Seq(Places)] /\ controlBy \in [Places -> Seq(Places)]
      /\ \A j \in 1 .. Len(all) :
           /\ controlFrom[all[j]] = IF N + j <= step THEN From(all[j]) ELSE <<>>
           /\ \A a \in Places : all[j] \in Elements(controlBy[a])
                                  <=> N + j <= step /\ From(all[j]) = <<a>>
  BY DEF ControlsInv
<1>6. \/ controlFrom' = controlFrom /\ controlBy' = controlBy /\ From(k) = <<>>
      \/ O!Bind(k, From(k))
  BY DEF O!LinkControl, From
<1> HIDE DEF all
<1>7. n \in 1 .. Len(all) /\ k \in Places /\ \A j \in 1 .. Len(all) : all[j] = k <=> j = n
  <2>1. n \in 1 .. Len(all)
    BY <1>1, <1>2, <1>3
  <2> HIDE DEF n
  <2> QED
    BY <1>3, <2>1
<1>8. \A j \in 1 .. Len(all) : N + j <= step + 1 <=> N + j <= step \/ j = n
  BY <1>2, <1>3
<1>9. ~ N + n <= step /\ controlFrom[k] = <<>>
  <2>1. ~ N + n <= step
    BY <1>2, <1>3
  <2> HIDE DEF n
  <2>2. controlFrom[all[n]] = <<>>
    BY <1>5, <1>7, <2>1
  <2> QED
    BY <2>1, <2>2
<1>10. From(k) = <<>> \/ \E a \in Places : From(k) = <<a>>
  BY <1>2, <1>3, <1>7, FromIs
<1> HIDE DEF n, k
<1>11. From(k) \in Seq(Places) /\ <<>> \o From(k) = From(k)
  <2>1. From(k) \in Seq(Places)
    <3>1. CASE From(k) = <<>>
      BY <3>1
    <3>2. ASSUME NEW a \in Places, From(k) = <<a>> PROVE From(k) \in Seq(Places)
      BY <3>2
    <3> QED
      BY <1>10, <3>1, <3>2
  <2> QED
    BY <2>1, ConcatEmptySeq
<1>12. \A a \in Places : a \in O!ToSet(From(k)) <=> From(k) = <<a>>
  <2>1. CASE From(k) = <<>>
    BY <2>1 DEF O!ToSet
  <2>2. ASSUME NEW b \in Places, From(k) = <<b>>
        PROVE  \A a \in Places : a \in O!ToSet(From(k)) <=> From(k) = <<a>>
    BY <2>2 DEF O!ToSet
  <2> QED
    BY <1>10, <2>1, <2>2
<1>13. /\ controlFrom' \in [Places -> Seq(Places)]
       /\ \A x \in Places : controlFrom'[x] = IF x = k THEN From(k) ELSE controlFrom[x]
  <2>1. CASE controlFrom' = controlFrom /\ From(k) = <<>>
    BY <1>5, <1>9, <2>1
  <2>2. CASE O!Bind(k, From(k))
    <3>1. controlFrom' = [controlFrom EXCEPT ![k] = From(k)]
      BY <1>9, <1>11, <2>2 DEF O!Bind
    <3> QED
      BY <1>5, <1>7, <1>11, <3>1
  <2> QED
    BY <1>6, <2>1, <2>2
<1>14. /\ controlBy' \in [Places -> Seq(Places)]
       /\ \A a \in Places : Elements(controlBy'[a])
                              = IF From(k) = <<a>> THEN Elements(controlBy[a]) \cup {k}
                                                   ELSE Elements(controlBy[a])
  <2>1. CASE controlBy' = controlBy /\ From(k) = <<>>
    BY <1>5, <2>1
  <2>2. CASE O!Bind(k, From(k))
    <3>1. controlBy' = [a \in Places |-> IF From(k) = <<a>> THEN Append(controlBy[a], k)
                                                          ELSE controlBy[a]]
      BY <1>3, <1>12, <2>2 DEF O!Bind
    <3>2. \A a \in Places : /\ Append(controlBy[a], k) \in Seq(Places)
                            /\ Elements(Append(controlBy[a], k)) = Elements(controlBy[a]) \cup {k}
      BY <1>5, <1>7, ElementsAppend
    <3> QED
      BY <1>5, <3>1, <3>2
  <2> QED
    BY <1>6, <2>1, <2>2
<1>15. ASSUME NEW j \in 1 .. Len(all)
       PROVE  /\ controlFrom'[all[j]] = IF N + j <= step + 1 THEN From(all[j]) ELSE <<>>
              /\ \A a \in Places : all[j] \in Elements(controlBy'[a])
                                     <=> N + j <= step + 1 /\ From(all[j]) = <<a>>
  <2>1. all[j] \in Places
    BY <1>3
  <2>2. CASE j = n
    BY <1>5, <1>7, <1>8, <1>9, <1>13, <1>14, <2>1, <2>2
  <2>3. CASE j # n
    <3>1. all[j] # k
      BY <1>7, <2>3
    <3>2. controlFrom'[all[j]] = controlFrom[all[j]]
      BY <1>13, <2>1, <3>1
    <3>3. \A a \in Places : all[j] \in Elements(controlBy'[a]) <=> all[j] \in Elements(controlBy[a])
      BY <1>14, <3>1
    <3>4. N + j <= step + 1 <=> N + j <= step
      BY <1>8, <2>3
    <3> QED
      BY <1>5, <3>2, <3>3, <3>4
  <2> QED
    BY <2>2, <2>3
<1>16. ControlsInv'
  BY <1>1, <1>4, <1>13, <1>14, <1>15 DEF ControlsInv, all
<1>17. ProfilesInv'
  <2>1. \A q \in 1 .. N : q <= step /\ q <= step + 1
    BY <1>1, <1>2, <1>3 DEF n
  <2> QED
    BY <1>1, <1>2, <1>4, <2>1 DEF ProfilesInv
<1> QED
  BY <1>16, <1>17

\* Once all is linked, what a control extends is of a lower rank: by the order of the
\* profiles, or an original, which nothing of a lower rank is.
LEMMA LinksAreChains ==
  ASSUME ProfilesInv, ControlsInv, O!Done
  PROVE  /\ \A k \in Places : /\ controlFrom[k] = From(k)
                              /\ \A a \in Places : k \in Elements(controlBy[a]) <=> From(k) = <<a>>
         /\ \A k \in Places : From(k) # <<>> => From(k) = <<Head(From(k))>> /\ Head(From(k)) \in Places
         /\ \E rank : Chain(Places, controlFrom, rank, Len(profiles) + 1)
<1> DEFINE N == Len(profiles)
<1>1. /\ profiles \in Evaluations /\ profiles \in File /\ N \in Nat /\ DOMAIN profiles = 1 .. N
      /\ Len(O!AllControls) \in Nat
      /\ extendsFrom \in [1 .. N -> Seq(1 .. N)]
      /\ extendedBy \in [1 .. N -> Seq(1 .. N)]
      /\ step = N + Len(O!AllControls)
  BY OverlaysFile, FileData DEF ProfilesInv, O!Done
<1>2. /\ \A p \in 1 .. N : extendedBy[p] = IF O!Parent(profiles, p) # 0
                                             THEN <<O!Parent(profiles, p)>> ELSE <<>>
      /\ \A p, q \in 1 .. N : q \in Elements(extendsFrom[p]) <=> O!Parent(profiles, q) = p
  <2>1. \A p \in 1 .. N : p <= step
    BY <1>1
  <2> QED
    BY <2>1 DEF ProfilesInv
<1>3. \A k \in Places :
        /\ controlFrom[k] = From(k)
        /\ \A a \in Places : k \in Elements(controlBy[a]) <=> From(k) = <<a>>
  <2> TAKE k \in Places
  <2>1. PICK j \in 1 .. Len(O!AllControls) : O!AllControls[j] = k
    BY <1>1, ControlsArePlaces
  <2>2. N + j <= step
    BY <1>1
  <2>3. /\ controlFrom[O!AllControls[j]]
             = IF N + j <= step THEN From(O!AllControls[j]) ELSE <<>>
        /\ \A a \in Places : O!AllControls[j] \in Elements(controlBy[a])
                               <=> N + j <= step /\ From(O!AllControls[j]) = <<a>>
    BY DEF ControlsInv
  <2> QED
    BY <2>1, <2>2, <2>3
<1>4. PICK order \in [1 .. N -> 1 .. N] :
        \A p \in 1 .. N : O!Parent(profiles, p) # 0 => order[p] < order[O!Parent(profiles, p)]
  BY <1>1, OverlaysAssumption DEF O!FilesRight, O!Acyclic
<1> DEFINE Tied(p) == extendsFrom[p] # <<>> \/ extendedBy[p] # <<>>
           rank == [k \in Places |-> IF Tied(k[1]) THEN order[k[1]]
                                     ELSE IF O!Original(k) = k THEN 0 ELSE N + 1]
<1>5. \A k \in Places : k[1] \in 1 .. N
  BY DEF Places
<1>6. rank \in [Places -> 0 .. N + 1]
  <2>1. \A k \in Places : order[k[1]] \in 0 .. N + 1
    BY <1>1, <1>4, <1>5
  <2> QED
    BY <1>1, <2>1
<1>7. ASSUME NEW k \in Places, From(k) # <<>>
      PROVE  /\ From(k) = <<Head(From(k))>> /\ Head(From(k)) \in Places
             /\ rank[Head(From(k))] < rank[k]
  <2>1. PICK a \in Places :
           /\ From(k) = <<a>> /\ O!Id(a) = O!Id(k)
           /\ \/ a[1] \in Elements(extendsFrom[k[1]])
              \/ extendsFrom[k[1]] = <<>> /\ extendedBy[k[1]] = <<>> /\ a = O!Original(k) /\ a # k
    BY <1>1, <1>7, FromIs
  <2>2. Head(From(k)) = a
    BY <2>1
  <2>3. a[1] \in 1 .. N /\ k[1] \in 1 .. N /\ order[a[1]] \in 1 .. N /\ order[k[1]] \in 1 .. N
    BY <1>4, <1>5
  <2>4. CASE a[1] \in Elements(extendsFrom[k[1]])
    <3>1. O!Parent(profiles, a[1]) = k[1]
      BY <1>2, <2>3, <2>4
    <3>2. order[a[1]] < order[k[1]]
      BY <1>1, <1>4, <2>3, <3>1
    <3>3. Tied(a[1]) /\ Tied(k[1])
      <4>1. extendedBy[a[1]] = <<k[1]>>
        <5> HIDE DEF rank
        <5>0. 0 \notin 1 .. N
          BY <1>1
        <5>1. \A p, q \in 1 .. N : O!Parent(profiles, p) = q => extendedBy[p] = <<q>>
          BY <1>2, <5>0
        <5> QED
          BY <2>3, <3>1, <5>1
      <4>2. extendsFrom[k[1]] # <<>>
        BY <2>4 DEF Elements
      <4> QED
        BY <4>1, <4>2
    <3> HIDE DEF Tied
    <3>4. rank[a] = order[a[1]] /\ rank[k] = order[k[1]]
      BY <3>3
    <3> QED
      BY <2>1, <2>2, <3>2, <3>4
  <2>5. CASE extendsFrom[k[1]] = <<>> /\ extendedBy[k[1]] = <<>> /\ a = O!Original(k) /\ a # k
    <3>1. ~ Tied(k[1])
      BY <2>5
    <3>2. O!Original(a) = a
      BY <1>1, <2>1, <2>5, OriginalIs
    <3> HIDE DEF Tied
    <3>3. rank[k] = N + 1 /\ rank[a] \in {order[a[1]], 0}
      BY <2>5, <3>1, <3>2
    <3> HIDE DEF rank
    <3>4. rank[a] < rank[k]
      <4>1. \A i \in 1 .. N : i < N + 1 /\ 0 < N + 1
        BY <1>1
      <4> QED
        BY <2>3, <3>3, <4>1
    <3> QED
      BY <2>1, <2>2, <3>4
  <2> QED
    BY <2>1, <2>4, <2>5
<1> HIDE DEF rank
<1>8. Chain(Places, controlFrom, rank, N + 1)
  BY <1>3, <1>6, <1>7 DEF Chain
<1> QED
  BY <1>3, <1>7, <1>8

LEMMA CountedAtTheEnd ==
  ASSUME ProfilesInv, ControlsInv
  PROVE  CountedOnce
<1> SUFFICES ASSUME O!Done, NEW r \in O!Roots
             PROVE  /\ \E k \in O!Shown : O!Root[k] = r
                    /\ O!Orderly => \A k, l \in O!Shown : O!Root[k] = r /\ O!Root[l] = r => k = l
  BY DEF CountedOnce, O!CountedOnce
<1> DEFINE N == Len(profiles)
<1>1. /\ profiles \in File /\ N \in Nat /\ O!Profiles = 1 .. N
      /\ O!Controls = Places
      /\ extendsFrom \in [1 .. N -> Seq(1 .. N)]
      /\ controlBy \in [Places -> Seq(Places)]
  BY OverlaysFile DEF ProfilesInv, ControlsInv
<1>2. \A k \in Places : /\ controlFrom[k] = From(k)
                        /\ \A a \in Places : k \in Elements(controlBy[a]) <=> From(k) = <<a>>
  BY LinksAreChains
<1>3. \A k \in Places : From(k) # <<>> => From(k) = <<Head(From(k))>> /\ Head(From(k)) \in Places
  BY LinksAreChains
<1>4. PICK rank : Chain(Places, controlFrom, rank, N + 1)
  BY LinksAreChains
<1>5. N + 1 \in Nat
  BY <1>1
<1>6. RootsAre(O!Root, Places, controlFrom)
  <2>1. \E f : RootsAre(f, Places, controlFrom)
    BY <1>4, <1>5, ChainsEnd
  <2>2. O!Root = CHOOSE f : RootsAre(f, Places, controlFrom)
    BY <1>1 DEF O!Root, RootsAre
  <2> QED
    BY <2>1, <2>2
<1>7. ASSUME NEW k \in Places PROVE k \in O!Shown <=> Final(k, Places, controlFrom)
  <2>1. k \in O!Shown <=> controlBy[k] = <<>>
    BY <1>1 DEF O!Shown
  <2>2. ASSUME controlBy[k] = <<>>, NEW l \in Places, controlFrom[l] # <<>>, Head(controlFrom[l]) = k
        PROVE  FALSE
    <3>1. From(l) = <<k>>
      BY <1>2, <1>3, <2>2
    <3>2. l \in Elements(controlBy[k])
      BY <1>2, <3>1
    <3> QED
      BY <2>2, <3>2 DEF Elements
  <2>3. ASSUME controlBy[k] # <<>>
        PROVE  \E l \in Places : controlFrom[l] # <<>> /\ Head(controlFrom[l]) = k
    <3>1. controlBy[k] \in Seq(Places)
      BY <1>1
    <3>2. 1 \in 1 .. Len(controlBy[k]) /\ DOMAIN controlBy[k] = 1 .. Len(controlBy[k])
      BY <2>3, <3>1
    <3> DEFINE l == controlBy[k][1]
    <3>3. l \in Places
      BY <3>1, <3>2, ElementOfSeq
    <3>4. l \in Elements(controlBy[k])
      BY <3>2 DEF Elements
    <3> HIDE DEF l
    <3>5. controlFrom[l] = <<k>>
      BY <1>2, <3>3, <3>4
    <3> QED
      BY <3>3, <3>5
  <2> QED
    BY <2>1, <2>2, <2>3 DEF Final
<1>8. r \in Places /\ controlFrom[r] = <<>> /\ O!Shown \subseteq Places
  BY <1>1 DEF O!Roots, O!Shown
<1>9. \E k \in O!Shown : O!Root[k] = r
  <2>1. PICK k \in Places : Final(k, Places, controlFrom) /\ O!Root[k] = r
    BY <1>4, <1>5, <1>6, <1>8, SomeLast
  <2> QED
    BY <1>7, <2>1
<1>10. ASSUME O!Orderly, NEW k \in O!Shown, NEW l \in O!Shown, O!Root[k] = r, O!Root[l] = r
       PROVE  k = l
  <2> DEFINE untied == {p \in 1 .. N : extendsFrom[p] = <<>> /\ extendedBy[p] = <<>>}
  <2>1. /\ untied = {} \/ (untied = 1 .. N /\ N <= 2)
        /\ \A x, y \in Places : x[1] = y[1] /\ O!Id(x) = O!Id(y) => x = y
    BY <1>1, <1>10 DEF O!Orderly
  <2>2. \A x \in Places : x[1] \in 1 .. N
    BY DEF Places
  <2>3. \A x \in Places : From(x) # <<>> =>
          /\ O!Id(Head(From(x))) = O!Id(x)
          /\ \/ Head(From(x))[1] \in Elements(extendsFrom[x[1]])
             \/ /\ extendsFrom[x[1]] = <<>> /\ extendedBy[x[1]] = <<>>
                /\ Head(From(x)) = O!Original(x)
    <3> SUFFICES ASSUME NEW x \in Places, From(x) # <<>>
                 PROVE  \E a : /\ Head(From(x)) = a /\ O!Id(a) = O!Id(x)
                               /\ \/ a[1] \in Elements(extendsFrom[x[1]])
                                  \/ /\ extendsFrom[x[1]] = <<>> /\ extendedBy[x[1]] = <<>>
                                     /\ a = O!Original(x)
      OBVIOUS
    <3>1. PICK a \in Places :
             /\ From(x) = <<a>> /\ O!Id(a) = O!Id(x)
             /\ \/ a[1] \in Elements(extendsFrom[x[1]])
                \/ extendsFrom[x[1]] = <<>> /\ extendedBy[x[1]] = <<>> /\ a = O!Original(x) /\ a # x
      BY <1>1, FromIs
    <3> QED
      BY <3>1
  <2>4. CASE untied = {}
    <3>1. \A x \in 1 .. N : ~ (extendsFrom[x] = <<>> /\ extendedBy[x] = <<>>)
      BY <2>4
    <3>2. ASSUME NEW x \in Places, NEW y \in Places, From(x) # <<>>, From(y) # <<>>,
                 Head(From(x)) = Head(From(y))
          PROVE  x = y
      <4> DEFINE a == Head(From(x))
      <4>1. /\ a \in Places /\ O!Id(x) = O!Id(y)
            /\ a[1] \in Elements(extendsFrom[x[1]]) /\ a[1] \in Elements(extendsFrom[y[1]])
        BY <1>3, <2>2, <2>3, <3>1, <3>2
      <4> HIDE DEF a
      <4>2. x[1] = O!Parent(profiles, a[1]) /\ y[1] = O!Parent(profiles, a[1])
        BY <2>2, <4>1 DEF ProfilesInv
      <4> QED
        BY <2>1, <4>1, <4>2
    <3>3. \A x, y \in Places : controlFrom[x] # <<>> /\ controlFrom[y] # <<>>
                                 /\ Head(controlFrom[x]) = Head(controlFrom[y]) => x = y
      BY <1>2, <3>2
    <3>4. /\ k \in Places /\ Final(k, Places, controlFrom)
          /\ l \in Places /\ Final(l, Places, controlFrom)
      BY <1>7, <1>8
    <3> QED
      BY <1>4, <1>5, <1>6, <1>10, <3>3, <3>4, OneLast
  <2>5. CASE untied = 1 .. N /\ N <= 2
    <3>1. \A x \in Places : extendsFrom[x[1]] = <<>> /\ extendedBy[x[1]] = <<>>
      BY <2>2, <2>5
    <3>2. \A x \in Places : From(x) = IF O!Original(x) = x THEN <<>> ELSE <<O!Original(x)>>
      BY <3>1 DEF From
    <3>3. \A x \in Places : /\ O!Original(x) \in Places /\ O!Id(O!Original(x)) = O!Id(x)
                            /\ O!Original(O!Original(x)) = O!Original(x)
      BY <1>1, OriginalIs
    <3>4. \A x \in Places : O!Root[x] = O!Original(x)
      <4> TAKE x \in Places
      <4>1. \A y \in Places : O!Root[y] = IF From(y) = <<>> THEN y ELSE O!Root[Head(From(y))]
        BY <1>2, <1>6 DEF RootsAre
      <4>2. O!Root[O!Original(x)] = O!Original(x)
        BY <3>2, <3>3, <4>1
      <4> QED
        BY <3>2, <4>1, <4>2
    <3>5. k \in Places /\ l \in Places /\ O!Original(k) = r /\ O!Original(l) = r
      BY <1>8, <1>10, <3>4
    <3>6. O!Id(k) = O!Id(r) /\ O!Id(l) = O!Id(r)
      BY <3>3, <3>5
    <3>7. \A x \in Places : x \in O!Shown /\ O!Original(x) = r /\ x # r => r \notin O!Shown
      <4> SUFFICES ASSUME NEW x \in Places, O!Original(x) = r, x # r PROVE r \notin O!Shown
        OBVIOUS
      <4>1. controlFrom[x] = <<r>>
        <5>1. From(x) = <<r>>
          BY <3>2
        <5> QED
          BY <1>2, <5>1
      <4>2. ~ Final(r, Places, controlFrom)
        <5>1. controlFrom[x] # <<>> /\ Head(controlFrom[x]) = r
          BY <4>1
        <5> QED
          BY <5>1 DEF Final
      <4> QED
        BY <1>7, <1>8, <4>2
    <3>8. r[1] \in 1 .. 2 /\ k[1] \in 1 .. 2 /\ l[1] \in 1 .. 2
      <4>1. \A i \in 1 .. N : i \in 1 .. 2
        BY <1>1, <2>5
      <4>2. r[1] \in 1 .. N /\ k[1] \in 1 .. N /\ l[1] \in 1 .. N
        BY <1>8, <2>2, <3>5
      <4> QED
        BY <4>1, <4>2
    <3>9. k[1] = l[1] \/ k[1] = r[1] \/ l[1] = r[1]
      BY <3>8
    <3>10. k = l \/ k = r \/ l = r
      BY <1>8, <2>1, <3>5, <3>6, <3>9
    <3> QED
      BY <3>5, <3>7, <3>10
  <2> QED
    BY <2>1, <2>4, <2>5
<1> QED
  BY <1>9, <1>10

\* When a file is loaded the results of every root are counted, and in an orderly file
\* once, for any files whose profiles are not their own ancestors.
THEOREM LinkedOnce == O!Spec => []CountedOnce
<1>1. ASSUME ProfilesInv, ControlsInv, O!Next PROVE ProfilesInv' /\ ControlsInv'
  BY <1>1, StepLinksProfile, StepLinksControl DEF O!Next
<1>2. ASSUME ProfilesInv, ControlsInv, UNCHANGED O!vars PROVE ProfilesInv' /\ ControlsInv'
  <2>1. /\ profiles' = profiles /\ step' = step /\ extendsFrom' = extendsFrom
        /\ extendedBy' = extendedBy /\ controlFrom' = controlFrom /\ controlBy' = controlBy
    BY <1>2 DEF O!vars
  <2>2. /\ Places' = Places /\ O!AllControls' = O!AllControls
        /\ \A q : O!Parent(profiles, q)' = O!Parent(profiles, q)
        /\ \A x : From(x)' = From(x)
    BY <2>1, FileStays, FromStays
  <2>3. ProfilesInv'
    BY <1>2, <2>1, <2>2 DEF ProfilesInv
  <2>4. ControlsInv'
    BY <1>2, <2>1, <2>2 DEF ControlsInv
  <2> QED
    BY <2>3, <2>4
<1>3. ProfilesInv /\ ControlsInv /\ [O!Next]_(O!vars) => ProfilesInv' /\ ControlsInv'
  BY <1>1, <1>2
<1> QED
  BY OverlaysInit, <1>3, CountedAtTheEnd, PTL DEF O!Spec

-----------------------------------------------------------------------------
\* A step of MCDocuments is a step of one part that leaves the others alone, so what
\* holds of each of the parts holds beside the others.
THEOREM DocumentsParts ==
  ASSUME <<>> \in Tables, <<>> \in Reports, <<>> \in Evaluations
  PROVE  Documents => S!Spec /\ L!Spec /\ Spec /\ O!Spec /\ F!Spec
<1>1. InitOne => S!Init /\ L!Init /\ Init /\ O!Init /\ F!Init
  BY DEF InitOne, AtRest, S!Init, L!Init, Init, O!Init
<1>2. [NextOne]_allVars => /\ [S!Next]_(S!vars) /\ [L!Next]_(L!vars) /\ [Next]_vars
                           /\ [O!Next]_(O!vars) /\ [F!Next]_(F!vars)
  BY DEF NextOne, allVars, vars, splunkVars, listingVars, overlayVars, filterVars,
         S!vars, L!vars, O!vars, F!vars
<1> QED
  BY <1>1, <1>2, PTL DEF Documents, S!Spec, L!Spec, Spec, O!Spec, F!Spec
=============================================================================
