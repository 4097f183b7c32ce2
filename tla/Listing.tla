------------------------------ MODULE Listing ------------------------------
(***************************************************************************)
(* A page of the list of evaluations (getAllEvaluations and                *)
(* getEvaluationsWithClause of evaluations.service.ts).                    *)
(*                                                                         *)
(* The evaluations are read joined with their tags and with the users of   *)
(* their groups, so LIMIT and OFFSET count joined rows while the page asked *)
(* for counts evaluations.  The limit is padded; a page that seems to be   *)
(* the last one is cut from the back of what was read, every other page    *)
(* from its front.  How many evaluations there are is another statement.   *)
(***************************************************************************)
EXTENDS Integers, SequencesExt

CONSTANTS
  Tables,             \* the lists of evaluations to begin with
  MaxRows,            \* bound on the joined rows of an evaluation
  MaxLength,          \* bound on the evaluations uploaded
  MaxChanges,         \* bound on the deletions and uploads during a request
  Limits,             \* the numbers of evaluations per page
  totalGroupMembers   \* the factor that pads the limit

\* The joins are outer joins, so an evaluation has a row even if nothing is joined to
\* it; a page that is asked for is not empty.
ListingRight ==
  /\ Tables \subseteq Seq([id : Nat, rows : Nat \ {0}])
  /\ MaxRows \in Nat /\ MaxLength \in Nat
  /\ Limits \subseteq Nat \ {0} /\ totalGroupMembers \in Nat

VARIABLES
  table,    \* the evaluations the user may read, in order: [id, rows]
  ask,      \* the request in flight
  changes,  \* how often the table has changed since the evaluations were read
  page      \* the evaluations of the answer

vars == <<table, ask, changes, page>>

-----------------------------------------------------------------------------
NoAsk == [at |-> "idle", offset |-> 0, limit |-> 1, data |-> <<>>]

Start(t) == table = t /\ ask = NoAsk /\ changes = 0 /\ page = <<>>

Init == \E t \in Tables : Start(t)

\* The joined rows of the first n evaluations of t.
RowsUpTo(t, n) ==
  LET sum[k \in 0 .. Len(t)] == IF k = 0 THEN 0 ELSE sum[k - 1] + t[k].rows
  IN sum[n]

\* Sequelize makes one object of the rows of an evaluation: those with a row
\* between the offset and the padded limit.
Window(t, offset, limit) ==
  LET last == offset + limit * totalGroupMembers
      Seen(n) == /\ RowsUpTo(t, n) > offset
                 /\ RowsUpTo(t, n - 1) < last
      window[n \in 0 .. Len(t)] ==
        IF n = 0 THEN <<>>
        ELSE IF Seen(n) THEN Append(window[n - 1], t[n].id)
        ELSE window[n - 1]
  IN window[Len(t)]

IdsOf(s) == [n \in 1 .. Len(s) |-> s[n].id]

Ceiling(a, b) == (a + b - 1) \div b

\* Array.prototype.slice with -n (which is 0 for 0) and with (0, n).
TakeBack(s, n)  == IF n <= 0 \/ n >= Len(s) THEN s ELSE SubSeq(s, Len(s) - n + 1, Len(s))
TakeFront(s, n) == SubSeq(s, 1, IF n < Len(s) THEN n ELSE Len(s))

\* Slip: every page is cut from the front.
CutFront(data, total, offset, limit) == TakeFront(data, limit)

Cut(data, total, offset, limit) ==
  LET totalPages == Ceiling(total, limit)
      onPage     == Ceiling(offset + limit, limit)
  IN IF onPage = totalPages THEN TakeBack(data, total - offset) ELSE TakeFront(data, limit)

-----------------------------------------------------------------------------
\* A page of the table is asked for (LoadFileList.getOffSetLimit); the
\* evaluations are read.
ReadWindow ==
  /\ ask.at = "idle"
  /\ \E limit \in Limits, n \in 0 .. MaxLength :
       LET offset == n * limit IN
       /\ n = 0 \/ offset < Len(table)
       /\ ask' = [at |-> "read", offset |-> offset, limit |-> limit,
                  data |-> Window(table, offset, limit)]
  /\ UNCHANGED <<table, changes, page>>

\* The evaluations are counted, and the page is the answer.
Count ==
  /\ ask.at = "read"
  /\ page' = Cut(ask.data, Len(table), ask.offset, ask.limit)
  /\ ask' = [ask EXCEPT !.at = "answered"]
  /\ UNCHANGED <<table, changes>>

\* Somebody deletes an evaluation, or uploads one.
Change ==
  /\ ask.at = "read" /\ changes < MaxChanges
  /\ \/ \E n \in 1 .. Len(table) : table' = RemoveAt(table, n)
     \/ \E rows \in 1 .. MaxRows :
          /\ Len(table) < MaxLength
          /\ \E id \in 1 .. MaxLength :
               /\ \A n \in 1 .. Len(table) : table[n].id # id
               /\ table' = Cons([id |-> id, rows |-> rows], table)
  /\ changes' = changes + 1
  /\ UNCHANGED <<ask, page>>

Next == ReadWindow \/ Count \/ Change

Spec == Init /\ [][Next]_vars

-----------------------------------------------------------------------------
IsLast == ask.offset + ask.limit >= Len(table)
Right  == SubSeq(IdsOf(table), ask.offset + 1,
                 IF IsLast THEN Len(table) ELSE ask.offset + ask.limit)
Reached(n) == n = 0 \/ RowsUpTo(table, n - 1) < ask.offset + ask.limit * totalGroupMembers

\* A page holds no more evaluations than were asked for, whatever happens between
\* the two statements; and if nothing does, the first page, the last page, and
\* every page where nothing is joined more than once are the right ones, as long as
\* the padding reaches to their end.  (Of the other pages evaluations are missing.)
PageRight ==
  ask.at = "answered" =>
    /\ Len(page) <= ask.limit
    /\ ( /\ changes = 0
         /\ Reached(ask.offset + Len(Right))
         /\ ask.offset = 0 \/ IsLast \/ \A n \in 1 .. Len(table) : table[n].rows = 1 )
       => page = Right
=============================================================================
