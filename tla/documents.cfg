\* One query to Splunk with up to two status requests in flight; lists of up to five
\* evaluations; up to two attestations; up to three profiles; two files under caches
\* of one entry.
SPECIFICATION Documents
CONSTANTS
  MaxPings = 2
  MaxRows = 3
  MaxLength = 5
  MaxChanges = 1
  Limits = {1, 2, 3}
  totalGroupMembers = 4
  Reports <- SomeReports
  Lower <- LowerCase
  Given <- SomeAttestations
  MaxAttestations = 2
  Ids = {"f1", "f2"}
  MaxEntries = 1
  Tables <- SomeTables
  Evaluations <- SomeEvaluations
  Holds <- SomeContents
  Statuses <- SomeStatuses
  Terms <- SomeTerms
  Trimmed <- Trim
INVARIANTS ResultsOfEndedJob PageRight OrderDoesNotMatter CountedOnce AnswersFresh
PROPERTY PingsEnd
\* A query, a page and a file come to an end.
CHECK_DEADLOCK FALSE
