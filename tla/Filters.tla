------------------------------ MODULE Filters -------------------------------
(***************************************************************************)
(* The controls a filter lets through and how many there are of each       *)
(* status (store/data_filters.ts and store/status_counts.ts).              *)
(*                                                                         *)
(* Both answers are cached by a text made of the filter.  The getters that *)
(* make the caches read nothing that changes, so a cache lives as long as  *)
(* the page: files come and go under it.                                   *)
(***************************************************************************)
EXTENDS Naturals, SequencesExt

CONSTANTS
  Ids,        \* the ids of files; none is given twice
  Holds,      \* the controls of every file: [name, status, waived, overlaid, words]
  Statuses,   \* the statuses a filter may ask for: sets, or NoStatus
  Terms,      \* the search terms, or NoTerm
  Trimmed,    \* the terms without the blanks around them
  MaxEntries  \* the entries of a cache: 20 and 30

VARIABLES
  loaded,    \* the files in the store
  unused,    \* the ids not given yet
  selected,  \* the selection, latest first
  lists,     \* cached controls, latest use last: [key, answer]
  hashes     \* cached counts, likewise

vars == <<loaded, unused, selected, lists, hashes>>

\* Every text contains the empty one; assumed where the constants get their values.
EmptyIsFound == \A id \in Ids : \A c \in Holds[id] : "" \in c.words

-----------------------------------------------------------------------------
NoStatus == {"absent"}
NoTerm   == "absent"

\* The filters a view may ask with: the selection, or one file that is loaded.
Asked ==
  [fromFile : {selected} \cup {<<f>> : f \in loaded},
   status : Statuses, omit_overlayed_controls : {"absent", "yes"}, searchTerm : Terms]

\* The fields a filter does not have.
Default(f) ==
  [f EXCEPT !.omit_overlayed_controls = IF @ = "absent" THEN "no" ELSE @,
            !.searchTerm = IF @ = NoTerm THEN "" ELSE @]

\* Slip: the filter is overridden by the fields that were cleaned up, not they by it.
filter_cache_keyCleaned(f) ==
  [Default(f) EXCEPT !.searchTerm = Trimmed[@]]

\* The search term is trimmed and then overridden by the one of the filter.
filter_cache_key(f) == Default(f)

-----------------------------------------------------------------------------
\* "Waived" is a property of its own, asked for besides the other statuses.
HasStatus(c, status) ==
  \/ status = NoStatus
  \/ /\ "Waived" \in status => c.waived
     /\ status \ {"Waived"} = {} \/ c.status \in status \ {"Waived"}

Matching(f) ==
  {c \in UNION {Holds[id] : id \in loaded \cap ToSet(f.fromFile)} :
     /\ HasStatus(c, f.status)
     /\ f.omit_overlayed_controls = "yes" => ~c.overlaid
     /\ f.searchTerm # NoTerm => f.searchTerm \in c.words}

\* countOf: the controls of every status.
CountOf(controls) ==
  [s \in {c.status : c \in controls} |-> Cardinality({c \in controls : c.status = s})]

\* LRUCache: where a cache has a key (0 if it does not), and the cache after a use.
Place(cache, key) == SelectInSeq(cache, LAMBDA e : e.key = key)
Used(cache, entry) ==
  LET n == Place(cache, entry.key)
      rest == IF n = 0 THEN cache ELSE RemoveAt(cache, n)
  IN Append(SubSeq(rest, IF Len(rest) = MaxEntries THEN 2 ELSE 1, Len(rest)), entry)

\* FilteredData.controls
List(f) ==
  LET key    == filter_cache_key(f)
      n      == Place(lists, key)
      answer == IF n = 0 THEN Matching(f) ELSE lists[n].answer
  IN [answer |-> answer, cache |-> Used(lists, [key |-> key, answer |-> answer])]

-----------------------------------------------------------------------------
Init ==
  /\ loaded = {} /\ unused = Ids /\ selected = <<>>
  /\ lists = <<>> /\ hashes = <<>>

\* A file is loaded under a new id, and selected.
Load(id) ==
  /\ id \in unused
  /\ loaded' = loaded \cup {id} /\ unused' = unused \ {id}
  /\ selected' = Cons(id, selected)
  /\ UNCHANGED <<lists, hashes>>

\* Nothing is selected twice: what is selected goes through a Set.
Unselected(id) == RemoveFirst(selected, id)

\* clear_file and removeFile
RemoveFile(id) ==
  /\ id \in loaded
  /\ loaded' = loaded \ {id} /\ selected' = Unselected(id)
  /\ UNCHANGED <<unused, lists, hashes>>

Toggle(id) ==
  /\ id \in loaded
  /\ selected' = IF id \in ToSet(selected) THEN Unselected(id) ELSE Cons(id, selected)
  /\ UNCHANGED <<loaded, unused, lists, hashes>>

AskControls(f) ==
  /\ lists' = List(f).cache
  /\ UNCHANGED <<loaded, unused, selected, hashes>>

\* StatusCount.hash: count_statuses gives a filter without statuses an empty list
\* of them, which lets everything through as well.
AskCounts(f) ==
  LET key     == filter_cache_key(f)
      n       == Place(hashes, key)
      listing == List([f EXCEPT !.status = IF @ = NoStatus THEN {} ELSE @])
  IN /\ IF n # 0
          THEN hashes' = Used(hashes, hashes[n]) /\ UNCHANGED lists
          ELSE /\ hashes' = Used(hashes, [key |-> key, answer |-> CountOf(listing.answer)])
               /\ lists' = listing.cache
     /\ UNCHANGED <<loaded, unused, selected>>

Next ==
  \/ \E id \in Ids : Load(id) \/ RemoveFile(id) \/ Toggle(id)
  \/ \E f \in Asked : AskControls(f) \/ AskCounts(f)

Spec == Init /\ [][Next]_vars

-----------------------------------------------------------------------------
\* Whatever a view may ask for next, what the caches have for it is what the files
\* say now: files may have been loaded, removed and selected since it was put there,
\* and another filter may have put it there.
AnswersFresh ==
  \A f \in Asked :
    /\ \A n \in DOMAIN lists : lists[n].key = filter_cache_key(f) => lists[n].answer = Matching(f)
    /\ \A n \in DOMAIN hashes :
         hashes[n].key = filter_cache_key(f) => hashes[n].answer = CountOf(Matching(f))
=============================================================================
