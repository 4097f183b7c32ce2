---------------------------- MODULE FrontendProofs ----------------------------
(***************************************************************************)
(* Proofs about Files and GroupLists, for any evaluations, groups,         *)
(* requests and bounds.                                                    *)
(*                                                                         *)
(* The selection is a set of open files, so the boxes that count are right *)
(* and the store implements Panel (StoreInv).  What is loaded and on its   *)
(* way has no file yet (LoadInv).  The lists have no repetitions and the   *)
(* loads in flight fit the bound on files (AllTyped): with both, what a    *)
(* deletion takes from the panel and what an open file can lose.  Then the *)
(* groups: AllListed and GroupInv.  A browser runs both stores.            *)
(***************************************************************************)
EXTENDS MCFrontend, FiniteSetTheorems, SequenceTheorems, WellFoundedInduction, TLAPS

Shape(g) == \A f \in DOMAIN g : g[f] = [kind |-> g[f].kind, db |-> g[f].db]

StoreInv ==
  /\ nextFile \in Nat \ {0}
  /\ DOMAIN files \subseteq ids
  /\ Shape(files)
  /\ selectedEvaluationIds \subseteq EvaluationFiles
  /\ selectedProfileIds \subseteq ProfileFiles

\* What a step promises: the invariant, and a step of both panels or none.
Kept == /\ StoreInv'
        /\ OfEvaluations!Next \/ UNCHANGED OfEvaluations!panel
        /\ OfProfiles!Next \/ UNCHANGED OfProfiles!panel

LEMMA InitStore == Init => StoreInv /\ OfEvaluations!Init /\ OfProfiles!Init
  BY DEF Init, StoreInv, ids, Shape, EvaluationFiles, ProfileFiles, OfKind,
         OfEvaluations!Init, OfProfiles!Init

-----------------------------------------------------------------------------
(* What can happen to the files. *)

\* Their ids are new, so nothing that is open or selected is touched.
LEMMA AddKeeps ==
  ASSUME StoreInv, NEW k \in {"evaluation", "profile"}, NEW n \in Nat, NEW db, Add(k, n, db)
  PROVE  Kept
  <1> DEFINE new == nextFile .. nextFile + n - 1
  <1>1. /\ nextFile' = nextFile + n /\ nextFile' \in Nat \ {0}
        /\ ids' = ids \cup new /\ ids \cap new = {}
    BY DEF StoreInv, Add, ids
  <1>2. /\ DOMAIN files' = DOMAIN files \cup new
        /\ \A f \in DOMAIN files : files'[f] = files[f]
        /\ \A f \in new : files'[f] = [kind |-> k, db |-> db]
    BY <1>1 DEF StoreInv, Add
  <1>3. Shape(files')
    BY <1>2 DEF StoreInv, Shape
  <1>4. new \cap EvaluationFiles = {} /\ new \cap ProfileFiles = {}
    BY <1>1 DEF StoreInv, EvaluationFiles, ProfileFiles, OfKind
  <1>5. CASE k = "evaluation"
    <2>1. EvaluationFiles' = EvaluationFiles \cup new /\ ProfileFiles' = ProfileFiles
      BY <1>2, <1>5, <1>4 DEF EvaluationFiles, ProfileFiles, OfKind
    <2>2. selectedEvaluationIds' = selectedEvaluationIds \cup new
          /\ selectedProfileIds' = selectedProfileIds
      BY <1>4, <1>5 DEF Add, Toggled, StoreInv
    <2>3. StoreInv'
      BY <1>1, <1>2, <1>3, <2>1, <2>2 DEF StoreInv
    <2>4. OfEvaluations!Arrive
      BY <1>1, <1>4, <2>1, <2>2 DEF OfEvaluations!Arrive
    <2>5. OfProfiles!Arrive
      BY <1>1, <2>1, <2>2 DEF OfProfiles!Arrive
    <2> QED BY <2>3, <2>4, <2>5 DEF Kept, OfEvaluations!Next, OfProfiles!Next
  <1>6. CASE k = "profile"
    <2>1. ProfileFiles' = ProfileFiles \cup new /\ EvaluationFiles' = EvaluationFiles
      BY <1>2, <1>6, <1>4 DEF EvaluationFiles, ProfileFiles, OfKind
    <2>2. selectedProfileIds' = selectedProfileIds \cup new
          /\ selectedEvaluationIds' = selectedEvaluationIds
      BY <1>4, <1>6 DEF Add, Toggled, StoreInv
    <2>3. StoreInv'
      BY <1>1, <1>2, <1>3, <2>1, <2>2 DEF StoreInv
    <2>4. OfProfiles!Arrive
      BY <1>1, <1>4, <2>1, <2>2 DEF OfProfiles!Arrive
    <2>5. OfEvaluations!Arrive
      BY <1>1, <2>1, <2>2 DEF OfEvaluations!Arrive
    <2> QED BY <2>3, <2>4, <2>5 DEF Kept, OfEvaluations!Next, OfProfiles!Next
  <1> QED BY <1>5, <1>6

LEMMA CloseKeeps ==
  ASSUME StoreInv, NEW fs, Close(fs)
  PROVE  Kept
  <1>1. /\ DOMAIN files' = DOMAIN files \ fs
        /\ \A f \in DOMAIN files' : files'[f] = files[f]
        /\ nextFile' = nextFile
    BY DEF Close
  <1>2. ids' = ids
    BY <1>1 DEF ids
  <1>3. Shape(files')
    BY <1>1 DEF StoreInv, Shape
  <1>4. EvaluationFiles' = EvaluationFiles \ fs /\ ProfileFiles' = ProfileFiles \ fs
    BY <1>1 DEF EvaluationFiles, ProfileFiles, OfKind
  <1>5. selectedEvaluationIds' = selectedEvaluationIds \ fs
        /\ selectedProfileIds' = selectedProfileIds \ fs
    BY DEF Close
  <1>6. StoreInv'
    BY <1>1, <1>2, <1>3, <1>4, <1>5 DEF StoreInv
  <1>7. OfEvaluations!Leave
    BY <1>2, <1>4, <1>5 DEF StoreInv, OfEvaluations!Leave
  <1>8. OfProfiles!Leave
    BY <1>2, <1>4, <1>5 DEF StoreInv, OfProfiles!Leave
  <1> QED BY <1>6, <1>7, <1>8 DEF Kept, OfEvaluations!Next, OfProfiles!Next

LEMMA ChooseKeeps ==
  ASSUME StoreInv, UNCHANGED <<files, nextFile>>,
         selectedEvaluationIds' \subseteq EvaluationFiles,
         selectedProfileIds' \subseteq ProfileFiles
  PROVE  Kept
  <1>1. /\ ids' = ids /\ EvaluationFiles' = EvaluationFiles /\ ProfileFiles' = ProfileFiles
        /\ Shape(files') = Shape(files)
    BY DEF ids, EvaluationFiles, ProfileFiles, OfKind
  <1>2. StoreInv'
    BY <1>1 DEF StoreInv
  <1>3. OfEvaluations!Choose
    BY <1>1 DEF OfEvaluations!Choose
  <1>4. OfProfiles!Choose
    BY <1>1 DEF OfProfiles!Choose
  <1> QED BY <1>2, <1>3, <1>4 DEF Kept, OfEvaluations!Next, OfProfiles!Next

LEMMA StutterKeeps ==
  ASSUME StoreInv, UNCHANGED store
  PROVE  Kept
  BY ChooseKeeps DEF store, StoreInv

\* A file that gets a database_id keeps its kind.
LEMMA RelabelKeeps ==
  ASSUME StoreInv, NEW s, LandSave(s)
  PROVE  Kept
  <1>1. /\ DOMAIN files' = DOMAIN files
        /\ UNCHANGED <<nextFile, selectedEvaluationIds, selectedProfileIds>>
    BY DEF LandSave
  <1>2. \A f \in DOMAIN files : \E d : files'[f] = [kind |-> files[f].kind, db |-> d]
    <2> TAKE f \in DOMAIN files
    <2>1. files[f] = [kind |-> files[f].kind, db |-> files[f].db]
      BY DEF StoreInv, Shape
    <2>2. files'[f] = files[f] \/ files'[f] = [files[f] EXCEPT !.db = requests[s].eval]
      BY DEF LandSave
    <2>3. [files[f] EXCEPT !.db = requests[s].eval]
            = [kind |-> files[f].kind, db |-> requests[s].eval]
      BY <2>1
    <2> QED BY <2>1, <2>2, <2>3
  <1>3. Shape(files')
    BY <1>1, <1>2 DEF Shape
  <1>4. \A f \in DOMAIN files : files'[f].kind = files[f].kind
    <2> TAKE f \in DOMAIN files
    <2>1. PICK d : files'[f] = [kind |-> files[f].kind, db |-> d]
      BY <1>2
    <2> QED BY <2>1
  <1>5. ids' = ids /\ EvaluationFiles' = EvaluationFiles /\ ProfileFiles' = ProfileFiles
    BY <1>1, <1>4 DEF ids, EvaluationFiles, ProfileFiles, OfKind
  <1>6. StoreInv'
    BY <1>1, <1>3, <1>5 DEF StoreInv
  <1>7. UNCHANGED OfEvaluations!panel /\ UNCHANGED OfProfiles!panel
    BY <1>1, <1>5 DEF OfEvaluations!panel, OfProfiles!panel
  <1> QED BY <1>6, <1>7 DEF Kept

-----------------------------------------------------------------------------
(* The actions. *)

LEMMA IntakeKeeps ==
  ASSUME StoreInv, NEW data, NEW db, Intake(data, db)
  PROVE  Kept
  <1>1. CASE Add("evaluation", 1, db)
    BY <1>1, AddKeeps
  <1>2. CASE Add("profile", 1, NoEval)
    BY <1>2, AddKeeps
  <1>3. CASE Add("evaluation", Parts, NoEval)
    BY <1>3, AddKeeps, BoundsAssumption
  <1>4. CASE UNCHANGED store
    BY <1>4, StutterKeeps
  <1> QED BY <1>1, <1>2, <1>3, <1>4 DEF Intake

LEMMA ClickKeeps ==
  ASSUME StoreInv, Click
  PROVE  Kept
  <1>1. CASE Open
    BY <1>1, IntakeKeeps DEF Open
  <1>2. CASE Remove
    BY <1>2, CloseKeeps DEF Remove
  <1>3. CASE ToggleFile
    <2>1. /\ UNCHANGED <<files, nextFile>>
          /\ selectedEvaluationIds' \subseteq EvaluationFiles
          /\ selectedProfileIds' \subseteq ProfileFiles
      BY <1>3 DEF ToggleFile, Choose, Toggled, StoreInv
    <2> QED BY <2>1, ChooseKeeps
  <1>4. CASE ToggleAll
    <2>1. /\ UNCHANGED <<files, nextFile>>
          /\ selectedEvaluationIds' \subseteq EvaluationFiles
          /\ selectedProfileIds' \subseteq ProfileFiles
      BY <1>4 DEF ToggleAll, Choose, AllOrNone, StoreInv
    <2> QED BY <2>1, ChooseKeeps
  <1>5. CASE SelectExclusive
    <2>1. /\ UNCHANGED <<files, nextFile>>
          /\ selectedEvaluationIds' \subseteq EvaluationFiles
          /\ selectedProfileIds' \subseteq ProfileFiles
      BY <1>5 DEF SelectExclusive, Choose, StoreInv
    <2> QED BY <2>1, ChooseKeeps
  <1>6. CASE \/ OpenDialog \/ CancelDialog
             \/ \E s \in Slots : LoadResults(s) \/ Edit(s) \/ FetchList(s) \/ SaveFile(s)
                                 \/ ConfirmDialog(s)
    <2>1. UNCHANGED store
      BY <1>6 DEF OpenDialog, CancelDialog, LoadResults, Edit, FetchList, SaveFile, ConfirmDialog
    <2> QED BY <2>1, StutterKeeps
  <1> QED BY <1>1, <1>2, <1>3, <1>4, <1>5, <1>6 DEF Click

LEMMA AnswerKeeps ==
  ASSUME StoreInv, NEW s \in Slots, Serve(s) \/ Land(s)
  PROVE  Kept
  <1>1. CASE Serve(s) \/ LandFailure(s) \/ LandRefresh(s) \/ LandUpdate(s) \/ LandList(s)
    <2>1. UNCHANGED store
      BY <1>1 DEF Serve, ServeGet, ServeList, ServeDelete, ServeSave, LandFailure, LandRefresh,
                  LandUpdate, LandList
    <2> QED BY <2>1, StutterKeeps
  <1>2. CASE LandLoad(s)
    BY <1>2, IntakeKeeps DEF LandLoad
  <1>3. CASE LandDelete(s)
    <2>1. CASE UNCHANGED store
      BY <2>1, StutterKeeps
    <2>2. CASE \E f : Close({f})
      BY <2>2, CloseKeeps
    <2> QED BY <1>3, <2>1, <2>2 DEF LandDelete
  <1>4. CASE LandSave(s)
    BY <1>4, RelabelKeeps
  <1> QED BY <1>1, <1>2, <1>3, <1>4 DEF Land

LEMMA StepKeeps ==
  ASSUME StoreInv, [Next]_vars
  PROVE  Kept
  <1>1. CASE Click
    BY <1>1, ClickKeeps
  <1>2. CASE Answer
    BY <1>2, AnswerKeeps DEF Answer
  <1>3. CASE UNCHANGED vars
    BY <1>3, StutterKeeps DEF vars, store
  <1> QED BY <1>1, <1>2, <1>3 DEF Next

-----------------------------------------------------------------------------
(* Theorems. *)

LEMMA StoreHolds == Spec => []StoreInv
  <1>1. StoreInv /\ [Next]_vars => StoreInv'
    BY StepKeeps DEF Kept
  <1> QED BY <1>1, InitStore, PTL DEF Spec

\* Nothing is selected that is not open, so comparing numbers of files tells
\* whether all of them are selected (data_filters.ts all_evaluations_selected).
THEOREM BoxesRight == Spec => []AllSelectedRight
  <1>1. StoreInv => AllSelectedRight
    <2> SUFFICES ASSUME StoreInv PROVE AllSelectedRight
      OBVIOUS
    <2>1. IsFiniteSet(ids)
      BY FS_Interval DEF ids, StoreInv
    <2>2. IsFiniteSet(EvaluationFiles) /\ IsFiniteSet(ProfileFiles)
      BY <2>1, FS_Subset DEF StoreInv, EvaluationFiles, ProfileFiles, OfKind
    <2>3. ASSUME NEW all, IsFiniteSet(all), NEW chosen \in SUBSET all
          PROVE  Trinary(chosen, all) = "On" <=> all # {} /\ chosen = all
      <3>1. Cardinality(chosen) = Cardinality(all) => chosen = all
        BY <2>3, FS_Subset
      <3>2. IsFiniteSet(chosen)
        BY <2>3, FS_Subset
      <3>3. Cardinality(chosen) = 0 <=> chosen = {}
        BY <3>2, FS_EmptySet
      <3> QED BY <3>1, <3>3 DEF Trinary
    <2> QED BY <2>2, <2>3 DEF AllSelectedRight, StoreInv
  <1> QED BY <1>1, StoreHolds, PTL

\* The store implements Panel, for evaluation files and for profile files.
THEOREM Implements == Spec => PanelsKept
  <1>1. StoreInv /\ [Next]_vars => [OfEvaluations!Next]_(OfEvaluations!panel)
                                   /\ [OfProfiles!Next]_(OfProfiles!panel)
    BY StepKeeps DEF Kept
  <1> QED BY <1>1, InitStore, StoreHolds, PTL
          DEF Spec, PanelsKept, OfEvaluations!Spec, OfProfiles!Spec

-----------------------------------------------------------------------------
(* One file per evaluation.  What is loaded or saved and on its way has no *)
(* file yet, unless it was asked for twice.                                *)

ShapeOf(r) == r = [kind |-> r.kind, stage |-> r.stage, eval |-> r.eval, file |-> r.file,
                   data |-> r.data, page |-> r.page]

Opening(s, e) == requests[s].kind \in {"load", "save"} /\ requests[s].eval = e

RequestsInv ==
  /\ requests = [s \in Slots |-> requests[s]]
  /\ \A s \in Slots : ShapeOf(requests[s])

LoadInv ==
  /\ row \in [Evals -> {"new", "stored", "gone"}]
  /\ RequestsInv
  /\ \A e \in Evals : row[e] = "new" =>
       FilesOf(e) = {} /\ \A s \in Slots : ~ Opening(s, e)
  /\ \A e \in Evals \ overlapped, s \in Slots : Opening(s, e) => FilesOf(e) = {}
  /\ \A e \in Evals \ overlapped, s, t \in Slots : Opening(s, e) /\ Opening(t, e) => s = t
  /\ \A e \in Evals \ overlapped, f, g \in DOMAIN files :
       f \in FilesOf(e) /\ g \in FilesOf(e) => f = g

LEMMA SentShape == \A k, e, f, d : ShapeOf(Sent(k, e, f, d))
  BY DEF ShapeOf, Sent

LEMMA IdleShape == ShapeOf(Idle) /\ \A k, e : ShapeOf(Ask(k, e))
  BY SentShape DEF Idle, Ask

LEMMA DoneShape ==
  ASSUME NEW r, ShapeOf(r), NEW e, NEW P
  PROVE  /\ [r EXCEPT !.stage = "done"] =
              [kind |-> r.kind, stage |-> "done", eval |-> r.eval, file |-> r.file,
               data |-> r.data, page |-> r.page]
         /\ [r EXCEPT !.stage = "done", !.page = P] =
              [kind |-> r.kind, stage |-> "done", eval |-> r.eval, file |-> r.file,
               data |-> r.data, page |-> P]
         /\ [r EXCEPT !.stage = "done", !.eval = e] =
              [kind |-> r.kind, stage |-> "done", eval |-> e, file |-> r.file,
               data |-> r.data, page |-> r.page]
  <1>1. r \in [kind : {r.kind}, stage : {r.stage, "done"}, eval : {r.eval, e},
              file : {r.file}, data : {r.data}, page : {r.page, P}]
    BY DEF ShapeOf
  <1> DEFINE d == [r EXCEPT !.stage = "done"]
  <1>2. d = [kind |-> r.kind, stage |-> "done", eval |-> r.eval, file |-> r.file,
             data |-> r.data, page |-> r.page]
    BY <1>1
  <1> HIDE DEF d
  <1>3. [d EXCEPT !.page = P] =
          [kind |-> r.kind, stage |-> "done", eval |-> r.eval, file |-> r.file,
           data |-> r.data, page |-> P]
    BY <1>2
  <1>4. [d EXCEPT !.eval = e] =
          [kind |-> r.kind, stage |-> "done", eval |-> e, file |-> r.file,
           data |-> r.data, page |-> r.page]
    BY <1>2
  <1> QED BY <1>2, <1>3, <1>4, Zenon DEF d

LEMMA StartShape ==
  ASSUME RequestsInv, NEW s \in Slots, NEW r, ShapeOf(r), requests' = [requests EXCEPT ![s] = r]
  PROVE  /\ RequestsInv'
         /\ requests'[s] = r
         /\ \A t \in Slots \ {s} : requests'[t] = requests[t]
  BY DEF RequestsInv, ShapeOf

LEMMA InitLoad == Init => LoadInv
  BY IdleShape, EvalsAssumption DEF Init, LoadInv, RequestsInv, Opening, FilesOf, Idle, Ask, Sent

\* Steps after which there are no more files of an evaluation and no more requests
\* that will make one.
LEMMA QuietKeeps ==
  ASSUME LoadInv,
         \A e \in Evals : FilesOf(e)' \subseteq FilesOf(e),
         overlapped \subseteq overlapped',
         row' \in [Evals -> {"new", "stored", "gone"}],
         \A e \in Evals : row'[e] = "new" => row[e] = "new",
         RequestsInv',
         \A s \in Slots, e \in Evals : Opening(s, e)' => Opening(s, e)
  PROVE  LoadInv'
  <1>1. \A e \in Evals, f \in DOMAIN files' : f \in FilesOf(e)' => f \in FilesOf(e)
    OBVIOUS
  <1>2. \A e \in Evals : \A f : f \in FilesOf(e) => f \in DOMAIN files
    BY DEF FilesOf
  <1> QED BY <1>1, <1>2 DEF LoadInv

\* A request that opens nothing takes the place of another.
LEMMA FollowQuiet ==
  ASSUME LoadInv, NEW s \in Slots, NEW r, ShapeOf(r), requests' = [requests EXCEPT ![s] = r],
         r.kind \notin {"load", "save"} \/ r.eval = NoEval
  PROVE  RequestsInv' /\ \A t \in Slots, e \in Evals : Opening(t, e)' => Opening(t, e)
  <1>1. /\ RequestsInv' /\ requests'[s] = r
        /\ \A t \in Slots \ {s} : requests'[t] = requests[t]
    BY StartShape DEF LoadInv
  <1> QED BY <1>1, EvalsAssumption DEF Opening

LEMMA SameFiles ==
  ASSUME UNCHANGED files
  PROVE  \A e : FilesOf(e)' = FilesOf(e)
  BY DEF FilesOf

LEMMA AddedFiles ==
  ASSUME StoreInv, NEW k \in {"evaluation", "profile"}, NEW n \in Nat, NEW db, Add(k, n, db)
  PROVE  /\ \A e : e # db => FilesOf(e)' = FilesOf(e)
         /\ n = 1 /\ FilesOf(db) = {} => FilesOf(db)' = {nextFile}
  <1> DEFINE new == nextFile .. nextFile + n - 1
  <1>1. new \cap DOMAIN files = {} /\ (n = 1 => new = {nextFile})
    BY DEF StoreInv, ids
  <1>2. /\ DOMAIN files' = DOMAIN files \cup new
        /\ \A f \in DOMAIN files : files'[f] = files[f]
        /\ \A f \in new : files'[f].db = db
    BY <1>1 DEF Add
  <1> QED BY <1>1, <1>2 DEF FilesOf

LEMMA ClosedFiles ==
  ASSUME NEW fs, Close(fs)
  PROVE  \A e : FilesOf(e)' \subseteq FilesOf(e)
  BY DEF Close, FilesOf

\* A file from the disk has no evaluation.
LEMMA OpenLoad ==
  ASSUME StoreInv, LoadInv, Open
  PROVE  LoadInv'
  <1>1. PICK d : Intake(d, NoEval)
    BY DEF Open
  <1>2. \A e \in Evals : FilesOf(e)' = FilesOf(e)
    <2>1. CASE UNCHANGED store
      BY <2>1, SameFiles DEF store
    <2>2. CASE \E k \in {"evaluation", "profile"}, n \in Nat : Add(k, n, NoEval)
      BY <2>2, AddedFiles, EvalsAssumption
    <2> QED BY <1>1, <2>1, <2>2, BoundsAssumption DEF Intake
  <1>3. UNCHANGED <<row, requests, overlapped>>
    BY DEF Open
  <1> QED BY <1>2, <1>3, QuietKeeps DEF LoadInv, RequestsInv, Opening

LEMMA ClickQuiet ==
  ASSUME LoadInv,
         Remove \/ ToggleFile \/ ToggleAll \/ SelectExclusive \/ OpenDialog \/ CancelDialog
  PROVE  LoadInv'
  <1>1. UNCHANGED <<row, requests, overlapped>>
    BY DEF Remove, ToggleFile, ToggleAll, SelectExclusive, Choose, OpenDialog, CancelDialog
  <1>2. \A e \in Evals : FilesOf(e)' \subseteq FilesOf(e)
    <2>1. CASE Remove
      BY <2>1, ClosedFiles DEF Remove
    <2>2. CASE UNCHANGED files
      BY <2>2, SameFiles
    <2> QED BY <2>1, <2>2 DEF ToggleFile, ToggleAll, SelectExclusive, Choose, OpenDialog,
                              CancelDialog, store
  <1> QED BY <1>1, <1>2, QuietKeeps DEF LoadInv, RequestsInv, Opening

LEMMA AskQuiet ==
  ASSUME LoadInv, NEW s \in Slots, Edit(s) \/ FetchList(s) \/ SaveFile(s) \/ ConfirmDialog(s)
  PROVE  LoadInv'
  <1>1. UNCHANGED <<row, files, overlapped>>
    BY DEF Edit, FetchList, SaveFile, ConfirmDialog, store
  <1>2. PICK r : /\ ShapeOf(r) /\ requests' = [requests EXCEPT ![s] = r]
                 /\ r.kind \notin {"load", "save"} \/ r.eval = NoEval
    <2>1. CASE Edit(s) \/ FetchList(s) \/ ConfirmDialog(s)
      <3>1. PICK k, e : /\ k \in {"update", "refresh", "list", "delete"}
                           /\ requests' = [requests EXCEPT ![s] = Ask(k, e)]
        BY <2>1 DEF Edit, FetchList, ConfirmDialog, Start
      <3>2. Ask(k, e).kind = k
        BY DEF Ask, Sent
      <3> QED BY <3>1, <3>2, IdleShape
    <2>2. CASE SaveFile(s)
      <3>1. PICK f, d : requests' = [requests EXCEPT ![s] = Sent("save", NoEval, f, d)]
        BY <2>2 DEF SaveFile, Start
      <3>2. Sent("save", NoEval, f, d).eval = NoEval
        BY DEF Sent
      <3> QED BY <3>1, <3>2, SentShape
    <2> QED BY <2>1, <2>2
  <1>3. RequestsInv' /\ \A t \in Slots, e \in Evals : Opening(t, e)' => Opening(t, e)
    BY <1>2, FollowQuiet
  <1> QED BY <1>1, <1>3, SameFiles, QuietKeeps DEF LoadInv

\* A second request for what is on its way marks the evaluation.
LEMMA LoadResultsLoad ==
  ASSUME LoadInv, NEW s \in Slots, LoadResults(s)
  PROVE  LoadInv'
  <1>1. PICK x \in Evals :
          /\ row[x] # "new" /\ x \notin loadedDatabaseIds
          /\ Start(s, Ask("load", x))
          /\ overlapped' = IF \E r \in Slots : Opening(r, x)
                           THEN overlapped \cup {x} ELSE overlapped
          /\ UNCHANGED <<row, files>>
    BY DEF LoadResults, store, Opening
  <1>2. FilesOf(x) = {}
    BY <1>1, EvalsAssumption DEF FilesOf, loadedDatabaseIds
  <1>3. /\ RequestsInv' /\ requests'[s] = Ask("load", x)
        /\ \A t \in Slots \ {s} : requests'[t] = requests[t]
    BY <1>1, IdleShape, StartShape DEF Start, LoadInv
  <1>4. \A t \in Slots : \A e : Opening(t, e)' <=> IF t = s THEN e = x ELSE Opening(t, e)
    BY <1>3 DEF Opening, Ask, Sent
  <1>5. \A e : FilesOf(e)' = FilesOf(e)
    BY <1>1, SameFiles
  <1>6. overlapped \subseteq overlapped' /\ DOMAIN files' = DOMAIN files
    BY <1>1
  <1>7. x \notin overlapped' => \A r \in Slots : ~ Opening(r, x)
    BY <1>1
  <1>8. \A e \in Evals \ overlapped', t, u \in Slots :
          Opening(t, e)' /\ Opening(u, e)' => t = u
    BY <1>4, <1>6, <1>7 DEF LoadInv
  <1>9. \A e \in Evals \ overlapped', t \in Slots : Opening(t, e)' => FilesOf(e)' = {}
    BY <1>2, <1>4, <1>5, <1>6 DEF LoadInv
  <1>10. \A e \in Evals : row'[e] = "new" =>
           FilesOf(e)' = {} /\ \A t \in Slots : ~ Opening(t, e)'
    BY <1>1, <1>4, <1>5 DEF LoadInv
  <1>11. \A e \in Evals \ overlapped', f, g \in DOMAIN files' :
           f \in FilesOf(e)' /\ g \in FilesOf(e)' => f = g
    BY <1>5, <1>6 DEF LoadInv
  <1> QED BY <1>1, <1>3, <1>8, <1>9, <1>10, <1>11 DEF LoadInv

-----------------------------------------------------------------------------
(* The backend and its answers. *)

LEMMA ServeQuiet ==
  ASSUME LoadInv, NEW s \in Slots, ServeGet(s) \/ ServeList(s) \/ ServeDelete(s)
  PROVE  LoadInv'
  <1>1. UNCHANGED <<files, overlapped>>
    BY DEF ServeGet, ServeList, ServeDelete, store
  <1>2. /\ row' \in [Evals -> {"new", "stored", "gone"}]
        /\ \A e \in Evals : row'[e] = "new" => row[e] = "new"
    BY DEF ServeGet, ServeList, ServeDelete, LoadInv
  <1>3. PICK r : /\ requests' = [requests EXCEPT ![s] = r] /\ ShapeOf(r)
                 /\ r.kind = requests[s].kind /\ r.eval = requests[s].eval
    <2>1. ShapeOf(requests[s]) /\ requests = [t \in Slots |-> requests[t]]
      BY DEF LoadInv, RequestsInv
    <2> DEFINE r1 == [requests[s] EXCEPT !.stage = "done"]
               r2 == [requests[s] EXCEPT !.stage = "done", !.page = stored]
    <2>2. \/ requests' = [requests EXCEPT ![s] = r1]
          \/ requests' = [requests EXCEPT ![s] = r2]
      BY <2>1 DEF ServeGet, ServeList, ServeDelete, Done
    <2>3. /\ ShapeOf(r1) /\ r1.kind = requests[s].kind /\ r1.eval = requests[s].eval
          /\ ShapeOf(r2) /\ r2.kind = requests[s].kind /\ r2.eval = requests[s].eval
      <3> DEFINE q == requests[s]
      <3>1. /\ r1 = [kind |-> q.kind, stage |-> "done", eval |-> q.eval, file |-> q.file,
                     data |-> q.data, page |-> q.page]
            /\ r2 = [kind |-> q.kind, stage |-> "done", eval |-> q.eval, file |-> q.file,
                     data |-> q.data, page |-> stored]
        BY <2>1, DoneShape
      <3> HIDE DEF r1, r2
      <3> QED BY <3>1 DEF ShapeOf
    <2> QED BY <2>2, <2>3
  <1>4. /\ RequestsInv' /\ requests'[s] = r
        /\ \A t \in Slots \ {s} : requests'[t] = requests[t]
    BY <1>3, StartShape DEF LoadInv
  <1>5. \A t \in Slots, e \in Evals : Opening(t, e)' => Opening(t, e)
    BY <1>3, <1>4 DEF Opening
  <1> QED BY <1>1, <1>2, <1>4, <1>5, SameFiles, QuietKeeps

\* The row a file is saved in is new, so nothing was opened from it.
LEMMA ServeSaveLoad ==
  ASSUME LoadInv, NEW s \in Slots, ServeSave(s)
  PROVE  LoadInv'
  <1>1. PICK x \in Evals :
          /\ row[x] = "new" /\ row' = [row EXCEPT ![x] = "stored"]
          /\ requests' = [requests EXCEPT ![s].stage = "done", ![s].eval = x]
          /\ UNCHANGED <<files, overlapped>>
    BY DEF ServeSave, store
  <1>2. /\ FilesOf(x) = {} /\ \A t \in Slots : ~ Opening(t, x)
    BY <1>1 DEF LoadInv
  <1>3. /\ RequestsInv' /\ requests'[s].eval = x
        /\ \A t \in Slots \ {s} : requests'[t] = requests[t]
    <2> DEFINE q == requests[s]
               r == [kind |-> q.kind, stage |-> "done", eval |-> x, file |-> q.file,
                     data |-> q.data, page |-> q.page]
    <2>1. ShapeOf(q) /\ requests = [t \in Slots |-> requests[t]]
      BY DEF LoadInv, RequestsInv
    <2>2. requests' = [requests EXCEPT ![s] = r]
      <3>1. r = [q EXCEPT !.stage = "done", !.eval = x]
        BY <2>1, DoneShape
      <3>2. requests' = [requests EXCEPT ![s] = [q EXCEPT !.stage = "done", !.eval = x]]
        BY <1>1, <2>1
      <3> QED BY <3>1, <3>2
    <2>3. ShapeOf(r) /\ r.eval = x
      BY DEF ShapeOf
    <2> HIDE DEF r
    <2> QED BY <2>2, <2>3, StartShape DEF LoadInv
  <1>4. \A t \in Slots : \A e : Opening(t, e)' => IF t = s THEN e = x ELSE Opening(t, e)
    BY <1>3 DEF Opening
  <1>5. \A e : FilesOf(e)' = FilesOf(e)
    BY <1>1, SameFiles
  <1>6. /\ row' \in [Evals -> {"new", "stored", "gone"}] /\ row'[x] = "stored"
        /\ \A e \in Evals \ {x} : row'[e] = row[e]
    BY <1>1 DEF LoadInv
  <1>7. \A e \in Evals \ overlapped', t, u \in Slots :
          Opening(t, e)' /\ Opening(u, e)' => t = u
    BY <1>1, <1>2, <1>4 DEF LoadInv
  <1>8. \A e \in Evals \ overlapped', t \in Slots : Opening(t, e)' => FilesOf(e)' = {}
    BY <1>1, <1>2, <1>4, <1>5 DEF LoadInv
  <1>9. \A e \in Evals : row'[e] = "new" =>
          FilesOf(e)' = {} /\ \A t \in Slots : ~ Opening(t, e)'
    BY <1>4, <1>5, <1>6 DEF LoadInv
  <1>10. \A e \in Evals \ overlapped', f, g \in DOMAIN files' :
           f \in FilesOf(e)' /\ g \in FilesOf(e)' => f = g
    BY <1>1, <1>5 DEF LoadInv
  <1> QED BY <1>3, <1>6, <1>7, <1>8, <1>9, <1>10 DEF LoadInv

LEMMA LandQuiet ==
  ASSUME LoadInv, NEW s \in Slots,
         LandFailure(s) \/ LandRefresh(s) \/ LandUpdate(s) \/ LandList(s) \/ LandDelete(s)
  PROVE  LoadInv'
  <1>1. UNCHANGED <<row, overlapped>>
    BY DEF LandFailure, LandRefresh, LandUpdate, LandList, LandDelete
  <1>2. \A e \in Evals : FilesOf(e)' \subseteq FilesOf(e)
    <2>1. CASE UNCHANGED files
      BY <2>1, SameFiles
    <2>2. CASE \E f : Close({f})
      BY <2>2, ClosedFiles
    <2> QED BY <2>1, <2>2 DEF LandFailure, LandRefresh, LandUpdate, LandList, LandDelete, store
  <1>3. PICK r : /\ ShapeOf(r) /\ requests' = [requests EXCEPT ![s] = r]
                 /\ r.kind \notin {"load", "save"}
    <2>1. \/ requests' = [requests EXCEPT ![s] = Idle]
          \/ \E e : requests' = [requests EXCEPT ![s] = Ask("refresh", e)]
          \/ \E e : requests' = [requests EXCEPT ![s] = Ask("list", e)]
      BY DEF LandFailure, LandRefresh, LandUpdate, LandList, LandDelete, Follow
    <2>2. \A e : Ask("refresh", e).kind = "refresh" /\ Ask("list", e).kind = "list"
                /\ Idle.kind = "idle"
      BY DEF Ask, Idle, Sent
    <2> QED BY <2>1, <2>2, IdleShape
  <1>4. RequestsInv' /\ \A t \in Slots, e \in Evals : Opening(t, e)' => Opening(t, e)
    BY <1>3, FollowQuiet
  <1> QED BY <1>1, <1>2, <1>4, QuietKeeps DEF LoadInv

\* The answer that opens a file is the only one that was on its way.
LEMMA OpeningLoad ==
  ASSUME LoadInv, NEW s \in Slots, NEW x, Opening(s, x), NEW r, ShapeOf(r),
         r.kind \notin {"load", "save"}, requests' = [requests EXCEPT ![s] = r],
         UNCHANGED <<row, overlapped>>,
         NEW f, x \in Evals \ overlapped => FilesOf(x)' \subseteq {f},
         \A e \in Evals : e # x => FilesOf(e)' \subseteq FilesOf(e)
  PROVE  LoadInv'
  <1>1. /\ RequestsInv' /\ requests'[s] = r
        /\ \A t \in Slots \ {s} : requests'[t] = requests[t]
    BY StartShape DEF LoadInv
  <1>2. \A t \in Slots : \A e : Opening(t, e)' => t # s /\ Opening(t, e)
    BY <1>1 DEF Opening
  <1>3. \A e \in Evals \ overlapped', t \in Slots : Opening(t, e)' => FilesOf(e)' = {}
    BY <1>2 DEF LoadInv
  <1>4. \A e \in Evals : row'[e] = "new" =>
          FilesOf(e)' = {} /\ \A t \in Slots : ~ Opening(t, e)'
    BY <1>2 DEF LoadInv
  <1>5. \A e \in Evals \ overlapped', g, h \in DOMAIN files' :
          g \in FilesOf(e)' /\ h \in FilesOf(e)' => g = h
    <2>1. \A e, g : g \in FilesOf(e) => g \in DOMAIN files
      BY DEF FilesOf
    <2> QED BY <2>1 DEF LoadInv
  <1> QED BY <1>1, <1>2, <1>3, <1>4, <1>5 DEF LoadInv

LEMMA LandLoadLoad ==
  ASSUME StoreInv, LoadInv, NEW s \in Slots, LandLoad(s)
  PROVE  LoadInv'
  <1> PICK x : x = requests[s].eval
    OBVIOUS
  <1>1. /\ Opening(s, x) /\ requests' = [requests EXCEPT ![s] = Idle]
        /\ Intake(Contents[x], x) /\ UNCHANGED <<row, overlapped>>
    BY DEF LandLoad, Answered, Opening, Follow
  <1>2. x \in Evals \ overlapped => FilesOf(x) = {}
    BY <1>1 DEF LoadInv
  <1>3. /\ x \in Evals \ overlapped => FilesOf(x)' \subseteq {nextFile}
        /\ \A e \in Evals : e # x => FilesOf(e)' \subseteq FilesOf(e)
    <2>1. CASE UNCHANGED store
      BY <1>2, <2>1, SameFiles DEF store
    <2>2. CASE \E k \in {"evaluation", "profile"}, n \in Nat : Add(k, n, NoEval)
      BY <1>2, <2>2, AddedFiles, EvalsAssumption
    <2>3. CASE Add("evaluation", 1, x)
      BY <1>2, <2>3, AddedFiles
    <2> QED BY <1>1, <2>1, <2>2, <2>3, BoundsAssumption DEF Intake
  <1>4. Idle.kind \notin {"load", "save"}
    BY DEF Idle, Ask, Sent
  <1> QED BY <1>1, <1>3, <1>4, IdleShape, OpeningLoad

LEMMA LandSaveLoad ==
  ASSUME StoreInv, LoadInv, NEW s \in Slots, LandSave(s)
  PROVE  LoadInv'
  <1> PICK x : x = requests[s].eval
    OBVIOUS
  <1>1. /\ Opening(s, x) /\ requests' = [requests EXCEPT ![s] = Ask("refresh", x)]
        /\ UNCHANGED <<row, overlapped>> /\ DOMAIN files' = DOMAIN files
    BY DEF LandSave, Answered, Opening, Follow
  <1>2. \A f \in DOMAIN files : files'[f].db = IF f = requests[s].file THEN x ELSE files[f].db
    <2> TAKE f \in DOMAIN files
    <2>1. files'[f] = IF f = requests[s].file THEN [files[f] EXCEPT !.db = x] ELSE files[f]
      BY DEF LandSave
    <2>2. files[f] = [kind |-> files[f].kind, db |-> files[f].db]
      BY DEF StoreInv, Shape
    <2>3. [files[f] EXCEPT !.db = x] = [kind |-> files[f].kind, db |-> x]
      BY <2>2
    <2>4. [files[f] EXCEPT !.db = x].db = x
      BY <2>3
    <2> QED BY <2>1, <2>4
  <1>3. \A e \in Evals : e # x => FilesOf(e)' \subseteq FilesOf(e)
    BY <1>1, <1>2 DEF FilesOf
  <1>4. x \in Evals \ overlapped => FilesOf(x) = {}
    BY <1>1 DEF LoadInv
  <1>5. x \in Evals \ overlapped => FilesOf(x)' \subseteq {requests[s].file}
    BY <1>1, <1>2, <1>4 DEF FilesOf
  <1>6. Ask("refresh", x).kind = "refresh"
    BY DEF Ask, Idle, Sent
  <1> QED BY <1>1, <1>3, <1>5, <1>6, IdleShape, OpeningLoad

LEMMA StepLoad ==
  ASSUME StoreInv, LoadInv, [Next]_vars
  PROVE  LoadInv'
  <1>1. CASE Click
    BY <1>1, OpenLoad, ClickQuiet, AskQuiet, LoadResultsLoad DEF Click
  <1>2. CASE Answer
    BY <1>2, ServeQuiet, ServeSaveLoad, LandQuiet, LandLoadLoad, LandSaveLoad
       DEF Answer, Serve, Land
  <1>3. CASE UNCHANGED vars
    BY <1>3, SameFiles, QuietKeeps DEF vars, store, LoadInv, RequestsInv, Opening
  <1> QED BY <1>1, <1>2, <1>3 DEF Next

\* Two files of one evaluation mean that it was asked for again before the first
\* answer came (evaluations.ts load_results), however many requests are in flight.
THEOREM OneFile == Spec => []OneFilePerEvaluation
  <1>1. StoreInv /\ LoadInv /\ [Next]_vars => LoadInv'
    BY StepLoad
  <1>2. StoreInv /\ LoadInv => OneFilePerEvaluation
    <2> SUFFICES ASSUME StoreInv, LoadInv, NEW e \in Evals \ overlapped
                 PROVE  Cardinality(FilesOf(e)) <= 1
      BY DEF OneFilePerEvaluation
    <2>1. CASE FilesOf(e) = {}
      BY <2>1, FS_EmptySet
    <2>2. CASE \E f : FilesOf(e) = {f}
      BY <2>2, FS_Singleton
    <2>3. \A f, g \in FilesOf(e) : f = g
      BY DEF LoadInv, FilesOf
    <2> QED BY <2>1, <2>2, <2>3
  <1> QED BY <1>1, <1>2, InitLoad, StoreHolds, PTL DEF Spec

-----------------------------------------------------------------------------
(* Lists, and what keeps some of their members.  The recursion of Without is *)
(* followed up to the least prefix for which something would fail.           *)

Members(list)  == {list[i] : i \in 1 .. Len(list)}
Distinct(list) == \A i, j \in 1 .. Len(list) : list[i] = list[j] => i = j

LEMMA AppendIs ==
  ASSUME NEW S, NEW list \in Seq(S), NEW x \in S
  PROVE  /\ Append(list, x) \in Seq(S)
         /\ Members(Append(list, x)) = Members(list) \cup {x}
         /\ Distinct(list) /\ x \notin Members(list) => Distinct(Append(list, x))
  <1> DEFINE long == Append(list, x)
  <1>1. /\ long \in Seq(S) /\ Len(long) = Len(list) + 1 /\ long[Len(list) + 1] = x
        /\ \A i \in 1 .. Len(list) : long[i] = list[i]
        /\ Len(list) \in Nat
    OBVIOUS
  <1> HIDE DEF long
  <1>2. Members(long) = Members(list) \cup {x}
    BY <1>1 DEF Members
  <1>3. Distinct(list) /\ x \notin Members(list) => Distinct(long)
    BY <1>1 DEF Members, Distinct
  <1> QED BY <1>1, <1>2, <1>3 DEF long

LEMMA LeastNat ==
  ASSUME NEW T, T \subseteq Nat, T # {}
  PROVE  \E n \in T : \A m \in T : n <= m
  <1> DEFINE R == OpToRel(<, Nat)
  <1>1. IsWellFoundedOn(R, Nat)
    BY NatLessThanWellFounded
  <1>2. \A x, y \in Nat : <<y, x>> \in R <=> y < x
    BY DEF OpToRel
  <1> HIDE DEF R
  <1>3. PICK n \in T : \A m \in T : ~ (<<m, n>> \in R)
    BY <1>1, WFMin
  <1>4. \A m \in T : ~ (m < n)
    BY <1>2, <1>3
  <1>5. \A m \in T : n <= m
    <2> TAKE m \in T
    <2>1. m \in Nat /\ n \in Nat
      OBVIOUS
    <2> QED BY <1>4, <2>1
  <1> QED BY <1>5

\* There is the function that filters longer and longer prefixes of a list.
Prefixes(f, list, es, k) ==
  f = [n \in 0 .. k |-> IF n = 0 THEN <<>>
                        ELSE IF list[n] \in es THEN f[n - 1]
                        ELSE Append(f[n - 1], list[n])]

LEMMA PrefixesExist ==
  ASSUME NEW list, NEW es, NEW k \in Nat
  PROVE  \E f : Prefixes(f, list, es, k)
  <1> DEFINE Bad == {m \in Nat : ~ \E f : Prefixes(f, list, es, m)}
  <1> SUFFICES ASSUME Bad # {} PROVE FALSE
    OBVIOUS
  <1>1. PICK m \in Bad : \A n \in Bad : m <= n
    BY LeastNat
  <1>2. m # 0
    <2>1. Prefixes([n \in 0 .. 0 |-> <<>>], list, es, 0)
      BY DEF Prefixes
    <2> QED BY <2>1
  <1>3. m - 1 \in Nat /\ m - 1 \notin Bad
    BY <1>1, <1>2
  <1>4. PICK f : Prefixes(f, list, es, m - 1)
    BY <1>3
  <1> DEFINE g == [n \in 0 .. m |-> IF n = m THEN IF list[m] \in es THEN f[m - 1]
                                                  ELSE Append(f[m - 1], list[m])
                                    ELSE f[n]]
  <1>5. \A n \in 0 .. m - 1 : g[n] = f[n]
    BY <1>3
  <1>6. \A n \in 0 .. m : g[n] = IF n = 0 THEN <<>> ELSE IF list[n] \in es THEN g[n - 1]
                                                   ELSE Append(g[n - 1], list[n])
    <2> TAKE n \in 0 .. m
    <2>1. CASE n = m
      BY <2>1, <1>2, <1>3, <1>5
    <2>2. CASE n # m
      <3>1. n \in 0 .. m - 1 /\ (n # 0 => n - 1 \in 0 .. m - 1)
        BY <2>2, <1>3
      <3>2. f[n] = IF n = 0 THEN <<>> ELSE IF list[n] \in es THEN f[n - 1]
                                                   ELSE Append(f[n - 1], list[n])
        BY <3>1, <1>4 DEF Prefixes
      <3> QED BY <1>5, <3>1, <3>2
    <2> QED BY <2>1, <2>2
  <1>7. g = [n \in 0 .. m |-> g[n]]
    OBVIOUS
  <1> HIDE DEF g
  <1>8. Prefixes(g, list, es, m)
    BY <1>6, <1>7 DEF Prefixes
  <1> QED BY <1>8

LEMMA WithoutIs ==
  ASSUME NEW S, allEvaluations \in Seq(S), NEW es
  PROVE  /\ Without(es) \in Seq(S)
         /\ Members(Without(es)) = Members(allEvaluations) \ es
         /\ Distinct(allEvaluations) => Distinct(Without(es))
  <1> DEFINE list == allEvaluations
             f == CHOOSE f : Prefixes(f, list, es, Len(list))
  <1>0. Without(es) = f[Len(list)]
    BY DEF Without, Prefixes
  <1>1. Prefixes(f, list, es, Len(list)) /\ Len(list) \in Nat
    <2>1. Len(list) \in Nat
      OBVIOUS
    <2>2. \E g : Prefixes(g, list, es, Len(list))
      BY <2>1, PrefixesExist
    <2> QED BY <2>1, <2>2
  <1> DEFINE Good(n) == /\ f[n] \in Seq(S)
                        /\ Members(f[n]) = {list[i] : i \in 1 .. n} \ es
                        /\ Distinct(list) => Distinct(f[n])
  <1> HIDE DEF f
  <1>2. \A n \in 0 .. Len(list) :
          f[n] = IF n = 0 THEN <<>> ELSE IF list[n] \in es THEN f[n - 1] ELSE Append(f[n - 1], list[n])
    BY <1>1 DEF Prefixes
  <1>3. Good(0)
    <2>1. f[0] = <<>>
      BY <1>1, <1>2
    <2> QED BY <2>1 DEF Members, Distinct
  <1>4. ASSUME NEW n \in 1 .. Len(list), Good(n - 1)
        PROVE  Good(n)
    <2>1. n \in 0 .. Len(list) /\ list[n] \in S /\ n # 0
      BY <1>1
    <2>2. {list[i] : i \in 1 .. n} = {list[i] : i \in 1 .. n - 1} \cup {list[n]}
      BY <1>1
    <2>3. CASE list[n] \in es
      <3>1. f[n] = f[n - 1]
        BY <1>2, <2>1, <2>3
      <3> QED BY <1>4, <2>2, <2>3, <3>1
    <2>4. CASE list[n] \notin es
      <3>1. f[n] = Append(f[n - 1], list[n])
        BY <1>2, <2>1, <2>4
      <3>2. Distinct(list) => list[n] \notin {list[i] : i \in 1 .. n - 1}
        BY <1>1 DEF Distinct
      <3>3. /\ f[n] \in Seq(S)
            /\ Members(f[n]) = Members(f[n - 1]) \cup {list[n]}
            /\ Distinct(f[n - 1]) /\ list[n] \notin Members(f[n - 1]) => Distinct(f[n])
        BY <1>4, <2>1, <3>1, AppendIs
      <3>4. Members(f[n]) = {list[i] : i \in 1 .. n} \ es
        BY <1>4, <2>2, <2>4, <3>3
      <3> QED BY <1>4, <3>2, <3>3, <3>4
    <2> QED BY <2>3, <2>4
  <1> HIDE DEF Good
  <1> DEFINE Bad == {n \in 0 .. Len(list) : ~ Good(n)}
  <1>5. Bad = {}
    <2> SUFFICES ASSUME Bad # {} PROVE FALSE
      OBVIOUS
    <2>0. Bad \subseteq Nat
      BY <1>1
    <2>1. PICK m \in Bad : \A n \in Bad : m <= n
      BY <2>0, LeastNat
    <2>2. m \in 0 .. Len(list) /\ ~ Good(m)
      OBVIOUS
    <2>3. m # 0
      BY <1>3, <2>2
    <2>4. m \in 1 .. Len(list) /\ m - 1 \in 0 .. Len(list) /\ m - 1 \notin Bad
      BY <1>1, <2>1, <2>2, <2>3
    <2>5. Good(m - 1)
      BY <2>4
    <2> QED BY <1>4, <2>2, <2>4, <2>5
  <1>6. Good(Len(list))
    <2>1. Len(list) \in 0 .. Len(list)
      BY <1>1
    <2>2. \A n \in 0 .. Len(list) : Good(n)
      BY <1>5
    <2> QED BY <2>1, <2>2
  <1> QED BY <1>0, <1>6 DEF Members, Good

-----------------------------------------------------------------------------
(* Types: the lists, the requests, and the room that is left for files. *)

Loads == {s \in Slots : requests[s].kind = "load"}

RequestsTyped ==
  /\ requests \in [Slots -> Request]
  /\ \A s \in Slots :
       /\ requests[s].kind \in {"load", "refresh", "update"} => requests[s].eval \in Evals
       /\ Answered(s, "save") => requests[s].eval \in Evals

ListsTyped ==
  /\ allEvaluations \in Seq(Evals) /\ Distinct(allEvaluations)
  /\ pagedEvaluations \subseteq Evals /\ same \subseteq pagedEvaluations \cap Entries
  /\ dialog \in Dialog
  /\ dialog.item = "same" => dialog.eval \in Entries
  /\ dialog.open = "yes" => dialog.eval \in Evals

FilesTyped ==
  /\ files \in [DOMAIN files -> File]
  /\ nextFile + Parts * Cardinality(Loads) <= MaxFiles + 1

RestTyped ==
  /\ row \in [Evals -> {"new", "stored", "gone"}]
  /\ overlapped \subseteq Evals
  /\ clicks \in 0 .. MaxClicks

AllTyped == StoreInv /\ RequestsTyped /\ ListsTyped /\ FilesTyped /\ RestTyped

LEMMA EntriesAre == Entries = Members(allEvaluations)
  BY DEF Entries, Members

\* Dropping one entry of a list, and nothing of an empty one.
LEMMA SplicedIs ==
  ASSUME allEvaluations \in Seq(Evals), Distinct(allEvaluations),
         NEW index \in 0 .. Len(allEvaluations)
  PROVE  /\ Spliced(index) \in Seq(Evals) /\ Distinct(Spliced(index))
         /\ index # 0 => Members(Spliced(index)) = Members(allEvaluations) \ {allEvaluations[index]}
  <1> DEFINE list == allEvaluations
             at == IF index = 0 THEN Len(list) ELSE index
             head == SubSeq(list, 1, at - 1)
             tail == SubSeq(list, at + 1, Len(list))
             rest == head \o tail
  <1>1. Spliced(index) = rest
    BY DEF Spliced
  <1>2. Len(list) \in Nat /\ at \in 0 .. Len(list)
    OBVIOUS
  <1>3. CASE at = 0
    <2>1. Len(list) = 0 /\ index = 0
      BY <1>2, <1>3
    <2>2. head = <<>>
      BY <1>3
    <2>3. tail = <<>>
      BY <1>3, <2>1
    <2>4. rest \in Seq(Evals) /\ Len(rest) = 0
      <3> HIDE DEF head, tail
      <3>1. head \in Seq(Evals) /\ Len(head) = 0
        BY <2>2
      <3>2. tail \in Seq(Evals) /\ Len(tail) = 0
        BY <2>3
      <3> QED BY <3>1, <3>2
    <2> HIDE DEF rest
    <2> QED BY <1>1, <2>1, <2>4 DEF Distinct
  <1>4. CASE at # 0
    <2>0. at \in 1 .. Len(list)
      BY <1>2, <1>4
    <2>1. /\ head \in Seq(Evals) /\ Len(head) = at - 1
          /\ \A i \in 1 .. at - 1 : head[i] = list[i]
      BY <1>2, <2>0
    <2>2. /\ tail \in Seq(Evals) /\ Len(tail) = Len(list) - at
          /\ \A i \in 1 .. Len(list) - at : tail[i] = list[at + i]
      <3>1. at \in Int /\ at + 1 \in Int /\ Len(list) \in Int
        BY <1>2
      <3>2. \A i \in at + 1 .. Len(list) : list[i] \in Evals
        BY <1>2, <2>0
      <3> HIDE DEF at
      <3>3. /\ tail \in Seq(Evals)
            /\ Len(tail) = IF at + 1 <= Len(list) THEN Len(list) - (at + 1) + 1 ELSE 0
            /\ \A i \in 1 .. Len(list) - (at + 1) + 1 : tail[i] = list[at + 1 + i - 1]
        BY <3>1, <3>2, SubSeqProperties
      <3> HIDE DEF tail
      <3> QED BY <1>2, <2>0, <3>3
    <2> HIDE DEF head, tail
    <2>3. /\ rest \in Seq(Evals) /\ Len(rest) = Len(list) - 1
          /\ \A i \in 1 .. Len(list) - 1 : rest[i] = IF i < at THEN list[i] ELSE list[i + 1]
      BY <1>2, <2>0, <2>1, <2>2
    <2> HIDE DEF rest, at
    <2>4. Distinct(rest)
      BY <1>2, <2>0, <2>3 DEF Distinct
    <2>5. Members(rest) = Members(list) \ {list[at]}
      <3>1. ASSUME NEW i \in 1 .. Len(list), i # at
            PROVE  \E j \in 1 .. Len(rest) : rest[j] = list[i]
        <4>1. CASE i < at
          <5>1. i \in 1 .. Len(list) - 1
            BY <1>2, <2>0, <4>1
          <5> QED BY <2>3, <4>1, <5>1
        <4>2. CASE i > at
          <5>1. i - 1 \in 1 .. Len(list) - 1 /\ ~ (i - 1 < at) /\ (i - 1) + 1 = i
            BY <1>2, <2>0, <4>2
          <5> QED BY <2>3, <5>1
        <4> QED BY <1>2, <2>0, <3>1, <4>1, <4>2
      <3>2. ASSUME NEW j \in 1 .. Len(rest)
            PROVE  \E i \in 1 .. Len(list) : i # at /\ rest[j] = list[i]
        <4>1. CASE j < at
          <5>1. j \in 1 .. Len(list) - 1 /\ j \in 1 .. Len(list) /\ j # at
            BY <1>2, <2>0, <2>3, <4>1
          <5> QED BY <2>3, <4>1, <5>1
        <4>2. CASE ~ (j < at)
          <5>1. j \in 1 .. Len(list) - 1 /\ j + 1 \in 1 .. Len(list) /\ j + 1 # at
            BY <1>2, <2>0, <2>3, <4>2
          <5> QED BY <2>3, <4>2, <5>1
        <4> QED BY <4>1, <4>2
      <3>3. \A i \in 1 .. Len(list) : i # at => list[i] # list[at]
        BY <2>0 DEF Distinct
      <3>4. ASSUME NEW x
            PROVE  x \in Members(rest) <=> x \in Members(list) /\ x # list[at]
        <4>1. ASSUME x \in Members(rest) PROVE x \in Members(list) /\ x # list[at]
          <5>1. PICK j \in 1 .. Len(rest) : x = rest[j]
            BY <4>1 DEF Members
          <5>2. PICK i \in 1 .. Len(list) : i # at /\ rest[j] = list[i]
            BY <3>2
          <5> QED BY <3>3, <5>1, <5>2 DEF Members
        <4>2. ASSUME x \in Members(list), x # list[at] PROVE x \in Members(rest)
          <5>1. PICK i \in 1 .. Len(list) : x = list[i]
            BY <4>2 DEF Members
          <5>2. PICK j \in 1 .. Len(rest) : rest[j] = list[i]
            BY <3>1, <4>2, <5>1
          <5> QED BY <5>1, <5>2 DEF Members
        <4> QED BY <4>1, <4>2
      <3> QED BY <3>4
    <2>6. index # 0 => at = index
      BY DEF at
    <2> QED BY <1>1, <2>3, <2>4, <2>5, <2>6
  <1> QED BY <1>3, <1>4

-----------------------------------------------------------------------------
(* What the actions do to the lists. *)

LEMMA SaveEntryKeeps ==
  ASSUME ListsTyped, NEW e \in Evals, SaveEntry(e)
  PROVE  /\ allEvaluations' \in Seq(Evals) /\ Distinct(allEvaluations')
         /\ Entries' = Entries \cup {e}
  <1>1. Entries' = Members(allEvaluations')
    BY DEF Entries, Members
  <1>2. CASE e \in Entries
    BY <1>1, <1>2, EntriesAre DEF SaveEntry, ListsTyped
  <1>3. CASE e \notin Entries
    BY <1>1, <1>3, EntriesAre, AppendIs DEF SaveEntry, ListsTyped
  <1> QED BY <1>2, <1>3

LEMMA ItemOther ==
  ASSUME dialog \in Dialog, NEW P \in BOOLEAN,
         dialog' = IF P THEN [dialog EXCEPT !.item = "other"] ELSE dialog
  PROVE  /\ dialog' \in Dialog /\ dialog'.open = dialog.open /\ dialog'.eval = dialog.eval
         /\ dialog'.item = "same" => ~ P /\ dialog.item = "same"
  <1>1. CASE P
    BY <1>1 DEF Dialog
  <1>2. CASE ~ P
    BY <1>2 DEF Dialog
  <1> QED BY <1>1, <1>2

LEMMA SaveBothLists ==
  ASSUME ListsTyped, NEW e \in Evals, SaveBoth(e)
  PROVE  ListsTyped'
  <1>1. /\ allEvaluations' \in Seq(Evals) /\ Distinct(allEvaluations')
        /\ Entries' = Entries \cup {e}
    BY SaveEntryKeeps DEF SaveBoth
  <1>2. /\ dialog' \in Dialog /\ dialog'.open = dialog.open /\ dialog'.eval = dialog.eval
        /\ dialog'.item = "same" => dialog.item = "same"
    BY ItemOther DEF SaveBoth, ListsTyped
  <1> QED BY <1>1, <1>2 DEF SaveBoth, ListsTyped

LEMMA UpdateLists ==
  ASSUME ListsTyped, NEW e \in Evals, SaveEntry(e), Unshare({e}), UNCHANGED pagedEvaluations
  PROVE  ListsTyped'
  <1>1. /\ allEvaluations' \in Seq(Evals) /\ Distinct(allEvaluations')
        /\ Entries' = Entries \cup {e}
    BY SaveEntryKeeps
  <1>2. /\ dialog' \in Dialog /\ dialog'.open = dialog.open /\ dialog'.eval = dialog.eval
        /\ dialog'.item = "same" => dialog.item = "same"
    BY ItemOther DEF Unshare, ListsTyped
  <1> QED BY <1>1, <1>2 DEF Unshare, ListsTyped

LEMMA ClosedEntries ==
  ASSUME ListsTyped, NEW fs, Close(fs)
  PROVE  /\ allEvaluations' \in Seq(Evals) /\ Distinct(allEvaluations')
         /\ Entries' = Entries \ {files[f].db : f \in fs}
  <1> DEFINE es == {files[f].db : f \in fs}
  <1>1. allEvaluations' = Without(es)
    BY DEF Close
  <1>2. Entries' = Members(allEvaluations')
    BY DEF Entries, Members
  <1> HIDE DEF es
  <1>3. /\ Without(es) \in Seq(Evals)
        /\ Members(Without(es)) = Members(allEvaluations) \ es
        /\ Distinct(Without(es))
    BY WithoutIs DEF ListsTyped
  <1>4. Entries' = Entries \ es
    BY <1>1, <1>2, <1>3, EntriesAre
  <1> QED BY <1>1, <1>3, <1>4 DEF es

LEMMA CloseLists ==
  ASSUME ListsTyped, NEW fs, Close(fs), Unshare({files[f].db : f \in fs})
  PROVE  ListsTyped'
  <1> DEFINE es == {files[f].db : f \in fs}
  <1>1. /\ allEvaluations' \in Seq(Evals) /\ Distinct(allEvaluations')
        /\ Entries' = Entries \ es
    BY ClosedEntries
  <1>2. Unshare(es) /\ UNCHANGED pagedEvaluations
    BY DEF Close
  <1> HIDE DEF es
  <1>3. /\ dialog' \in Dialog /\ dialog'.open = dialog.open /\ dialog'.eval = dialog.eval
        /\ dialog'.item = "same" => dialog.item = "same" /\ dialog.eval \notin es
    BY <1>2, ItemOther DEF Unshare, ListsTyped
  <1> QED BY <1>1, <1>2, <1>3 DEF Unshare, ListsTyped

LEMMA ActiveLists ==
  ASSUME ListsTyped, NEW o \in {"yes", "no"}, NEW e \in pagedEvaluations,
         dialog' = Active(o, e), UNCHANGED <<allEvaluations, pagedEvaluations, same>>
  PROVE  ListsTyped'
  <1>1. Entries' = Entries
    BY DEF Entries
  <1>2. e \in Evals /\ Active(o, e) \in Dialog /\ Active(o, e).eval = e
        /\ (Active(o, e).item = "same" => e \in same)
    BY DEF ListsTyped, Active, Dialog
  <1> QED BY <1>1, <1>2 DEF ListsTyped

LEMMA CancelLists ==
  ASSUME ListsTyped, CancelDialog
  PROVE  ListsTyped'
  <1>1. Entries' = Entries
    BY DEF Entries, CancelDialog
  <1>2. dialog' \in Dialog /\ dialog'.eval = dialog.eval /\ dialog'.item = dialog.item
        /\ dialog'.open = "no"
    BY DEF ListsTyped, CancelDialog, Dialog
  <1> QED BY <1>1, <1>2 DEF ListsTyped, CancelDialog

\* The splice takes one entry: the one deleted if the dialog holds its object.
LEMMA ConfirmedEntries ==
  ASSUME ListsTyped, NEW s \in Slots, ConfirmDialog(s)
  PROVE  /\ allEvaluations' \in Seq(Evals) /\ Distinct(allEvaluations')
         /\ dialog.item = "same" => Entries' = Entries \ {dialog.eval}
  <1> DEFINE at == IF dialog.item = "same" THEN Position(dialog.eval) ELSE 0
  <1>1. allEvaluations' = Spliced(at) /\ Entries' = Members(allEvaluations')
    BY DEF ConfirmDialog, Entries, Members
  <1>2. /\ at \in 0 .. Len(allEvaluations)
        /\ dialog.item = "same" => at # 0 /\ allEvaluations[at] = dialog.eval
    <2>1. CASE dialog.item = "same"
      <3>1. \E i \in 1 .. Len(allEvaluations) : allEvaluations[i] = dialog.eval
        BY <2>1 DEF ListsTyped, Entries
      <3>2. /\ Position(dialog.eval) \in 1 .. Len(allEvaluations)
            /\ allEvaluations[Position(dialog.eval)] = dialog.eval
        BY <3>1 DEF Position
      <3> QED BY <2>1, <3>2
    <2>2. CASE dialog.item # "same"
      BY <2>2 DEF ListsTyped
    <2> QED BY <2>1, <2>2
  <1> HIDE DEF at
  <1>3. /\ Spliced(at) \in Seq(Evals) /\ Distinct(Spliced(at))
        /\ at # 0 => Members(Spliced(at)) = Members(allEvaluations) \ {allEvaluations[at]}
    BY <1>2, SplicedIs DEF ListsTyped
  <1> QED BY <1>1, <1>2, <1>3, EntriesAre

LEMMA ConfirmLists ==
  ASSUME ListsTyped, NEW s \in Slots, ConfirmDialog(s)
  PROVE  ListsTyped'
  <1>1. allEvaluations' \in Seq(Evals) /\ Distinct(allEvaluations')
    BY ConfirmedEntries
  <1>2. dialog' \in Dialog /\ dialog'.item = "other" /\ dialog'.open = "no"
    <2>1. dialog' = [dialog EXCEPT !.open = "no", !.item = "other"] /\ dialog \in Dialog
      BY DEF ConfirmDialog, ListsTyped
    <2> QED BY <2>1 DEF Dialog
  <1>3. same' = same \cap Entries' /\ pagedEvaluations' = pagedEvaluations
    BY DEF ConfirmDialog
  <1> QED BY <1>1, <1>2, <1>3 DEF ListsTyped

LEMMA LandListLists ==
  ASSUME ListsTyped, RequestsTyped, NEW s \in Slots, LandList(s)
  PROVE  ListsTyped'
  <1>1. Entries' = Entries
    BY DEF Entries, LandList
  <1>2. requests[s].page \subseteq Evals
    BY DEF RequestsTyped, Request
  <1> QED BY <1>1, <1>2 DEF ListsTyped, LandList

LEMMA SameLists ==
  ASSUME ListsTyped, UNCHANGED lists
  PROVE  ListsTyped'
  BY DEF ListsTyped, lists, Entries

-----------------------------------------------------------------------------
(* Requests and the room. *)

\* What a request must have.
Proper(r) ==
  /\ r \in Request
  /\ r.kind \in {"load", "refresh", "update"} => r.eval \in Evals
  /\ r.kind = "save" /\ r.stage = "done" => r.eval \in Evals

LEMMA AskProper ==
  ASSUME NEW e \in Evals \cup {NoEval}
  PROVE  /\ \A k \in {"idle", "list", "delete"} :
              Ask(k, e) \in Request /\ Proper(Ask(k, e)) /\ Ask(k, e).kind = k
         /\ \A k \in {"load", "refresh", "update"} :
              e \in Evals => Proper(Ask(k, e)) /\ Ask(k, e).kind = k
         /\ Proper(Idle) /\ Idle.kind = "idle"
  BY DEF Ask, Sent, Request, Proper, Idle

LEMMA ReplaceRequest ==
  ASSUME RequestsTyped, NEW s \in Slots, NEW r, Proper(r), requests' = [requests EXCEPT ![s] = r]
  PROVE  /\ RequestsTyped'
         /\ Loads' = (Loads \ {s}) \cup (IF r.kind = "load" THEN {s} ELSE {})
         /\ requests'[s] = r
  <1>1. /\ requests' \in [Slots -> Request] /\ requests'[s] = r
        /\ \A t \in Slots \ {s} : requests'[t] = requests[t]
    BY DEF RequestsTyped, Proper
  <1>2. RequestsTyped'
    BY <1>1 DEF RequestsTyped, Proper, Answered
  <1>3. Loads' = (Loads \ {s}) \cup (IF r.kind = "load" THEN {s} ELSE {})
    BY <1>1 DEF Loads
  <1> QED BY <1>1, <1>2, <1>3

\* The sum that Room bounds, with one load fewer and with one more.
LEMMA LoadsCount ==
  /\ IsFiniteSet(Loads) /\ Cardinality(Loads) \in Nat
  /\ \A s \in Slots : /\ Cardinality(Loads \ {s}) \in Nat
                      /\ Cardinality(Loads) = Cardinality(Loads \ {s})
                                                + IF s \in Loads THEN 1 ELSE 0
                      /\ s \notin Loads => Cardinality(Loads \cup {s}) = Cardinality(Loads) + 1
  <1>1. IsFiniteSet(Loads)
    BY SlotsAssumption, FS_Subset DEF Loads
  <1>2. Cardinality(Loads) \in Nat
    BY <1>1, FS_CardinalityType
  <1>3. ASSUME NEW s \in Slots
        PROVE  /\ Cardinality(Loads \ {s}) \in Nat
               /\ Cardinality(Loads) = Cardinality(Loads \ {s}) + IF s \in Loads THEN 1 ELSE 0
               /\ s \notin Loads => Cardinality(Loads \cup {s}) = Cardinality(Loads) + 1
    <2>1. IsFiniteSet(Loads \ {s}) /\ Cardinality(Loads \ {s}) \in Nat
      BY <1>1, FS_Subset, FS_CardinalityType
    <2>2. Cardinality(Loads \ {s}) = IF s \in Loads THEN Cardinality(Loads) - 1 ELSE Cardinality(Loads)
      BY <1>1, FS_RemoveElement
    <2>3. s \notin Loads => Cardinality(Loads \cup {s}) = Cardinality(Loads) + 1
      BY <1>1, FS_AddElement
    <2> QED BY <1>2, <2>1, <2>2, <2>3
  <1> QED BY <1>1, <1>2, <1>3

LEMMA Times ==
  ASSUME NEW p \in Nat, NEW k \in Nat
  PROVE  p * k \in Nat /\ p * (k + 1) = p * k + p /\ p * (1 + k) = p * k + p
  OBVIOUS

\* The bound holds on when loads do not increase and the store does not grow.
LEMMA RoomKept ==
  ASSUME StoreInv, FilesTyped, RequestsTyped, NEW s \in Slots, NEW r, Proper(r), r.kind # "load",
         requests' = [requests EXCEPT ![s] = r]
  PROVE  /\ nextFile + Parts * Cardinality(Loads') <= MaxFiles + 1
         /\ s \in Loads => nextFile + Parts + Parts * Cardinality(Loads') <= MaxFiles + 1
  <1>1. Loads' = Loads \ {s}
    BY ReplaceRequest
  <1> DEFINE k == Cardinality(Loads \ {s})
  <1>2. k \in Nat /\ Cardinality(Loads) = k + IF s \in Loads THEN 1 ELSE 0
    BY LoadsCount
  <1>3. nextFile + Parts * Cardinality(Loads) <= MaxFiles + 1
    BY DEF FilesTyped
  <1> HIDE DEF k
  <1>4. Parts \in Nat /\ Parts * k \in Nat /\ Parts * (k + 1) = Parts * k + Parts
    BY <1>2, Times, BoundsAssumption
  <1>5. nextFile \in Nat /\ MaxFiles \in Nat
    BY BoundsAssumption DEF StoreInv
  <1>6. nextFile + Parts * k <= MaxFiles + 1
    BY <1>2, <1>3, <1>4, <1>5
  <1>7. s \in Loads => nextFile + Parts + Parts * k <= MaxFiles + 1
    BY <1>2, <1>3, <1>4, <1>5
  <1> QED BY <1>1, <1>6, <1>7 DEF k

LEMMA RoomTaken ==
  ASSUME StoreInv, RequestsTyped, NEW s \in Slots, NEW r, Proper(r), r.kind = "load", Room,
         s \notin Loads, requests' = [requests EXCEPT ![s] = r]
  PROVE  nextFile + Parts * Cardinality(Loads') <= MaxFiles + 1
  <1>1. Loads' = Loads \cup {s}
    BY ReplaceRequest
  <1>2. Cardinality(Loads) \in Nat /\ Cardinality(Loads') = Cardinality(Loads) + 1
    BY <1>1, LoadsCount
  <1>3. nextFile + Parts * (1 + Cardinality(Loads)) <= MaxFiles + 1
    BY DEF Room, Loads
  <1> QED BY <1>2, <1>3

LEMMA RoomToOpen ==
  ASSUME StoreInv, Room
  PROVE  nextFile + Parts + Parts * Cardinality(Loads) <= MaxFiles + 1
  <1>1. nextFile + Parts * (1 + Cardinality(Loads)) <= MaxFiles + 1
    BY DEF Room, Loads
  <1>2. Cardinality(Loads) \in Nat
    BY LoadsCount
  <1>3. Parts * (1 + Cardinality(Loads)) = Parts * Cardinality(Loads) + Parts
        /\ Parts * Cardinality(Loads) \in Nat /\ Parts \in Nat
    BY <1>2, Times, BoundsAssumption
  <1>4. nextFile \in Nat /\ MaxFiles \in Nat
    BY BoundsAssumption DEF StoreInv
  <1> QED BY <1>1, <1>3, <1>4

-----------------------------------------------------------------------------
(* What is opened, closed and saved has the type of a file. *)

LEMMA AddTyped ==
  ASSUME StoreInv, files \in [DOMAIN files -> File],
         NEW k \in {"evaluation", "profile"}, NEW n \in Nat,
         NEW db \in Evals \cup {NoEval}, Add(k, n, db)
  PROVE  files' \in [DOMAIN files' -> File] /\ nextFile' = nextFile + n
  <1>1. [kind |-> k, db |-> db] \in File
    BY DEF File
  <1> DEFINE D == DOMAIN files \cup (nextFile .. nextFile + n - 1)
             g(f) == IF f \in nextFile .. nextFile + n - 1
                     THEN [kind |-> k, db |-> db] ELSE files[f]
  <1>2. files' = [f \in D |-> g(f)] /\ nextFile' = nextFile + n
    BY DEF Add
  <1>3. \A f \in D : g(f) \in File
    BY <1>1
  <1> HIDE DEF D, g
  <1>4. files' \in [D -> File] /\ DOMAIN files' = D
    BY <1>2, <1>3
  <1>5. files' \in [DOMAIN files' -> File]
    BY <1>4
  <1>6. nextFile' = nextFile + n
    BY <1>2
  <1> QED BY <1>5, <1>6

LEMMA IntakeTyped ==
  ASSUME StoreInv, files \in [DOMAIN files -> File],
         NEW data, NEW db \in Evals \cup {NoEval}, Intake(data, db)
  PROVE  /\ files' \in [DOMAIN files' -> File]
         /\ nextFile' \in Nat /\ nextFile' <= nextFile + Parts
  <1>0. nextFile \in Nat /\ Parts \in Nat \ {0}
    BY BoundsAssumption DEF StoreInv
  <1>1. CASE \E k \in {"evaluation", "profile"} : Add(k, 1, db) \/ Add(k, 1, NoEval)
    <2>1. PICK k \in {"evaluation", "profile"}, d \in Evals \cup {NoEval} : Add(k, 1, d)
      BY <1>1
    <2>2. files' \in [DOMAIN files' -> File] /\ nextFile' = nextFile + 1
      BY <2>1, AddTyped
    <2> QED BY <1>0, <2>2
  <1>2. CASE Add("evaluation", Parts, NoEval)
    <2>1. files' \in [DOMAIN files' -> File] /\ nextFile' = nextFile + Parts
      BY <1>0, <1>2, AddTyped
    <2> QED BY <1>0, <2>1
  <1>3. CASE UNCHANGED store
    BY <1>0, <1>3 DEF store
  <1> QED BY <1>1, <1>2, <1>3 DEF Intake

LEMMA CloseTyped ==
  ASSUME files \in [DOMAIN files -> File], NEW fs, Close(fs)
  PROVE  files' \in [DOMAIN files' -> File] /\ nextFile' = nextFile
  BY DEF Close

LEMMA RelabelTyped ==
  ASSUME files \in [DOMAIN files -> File], NEW s, LandSave(s), requests[s].eval \in Evals
  PROVE  files' \in [DOMAIN files' -> File] /\ nextFile' = nextFile
  <1>1. \A f \in DOMAIN files : [files[f] EXCEPT !.db = requests[s].eval] \in File
    BY DEF File
  <1> QED BY <1>1 DEF LandSave

-----------------------------------------------------------------------------
(* Every action keeps the types. *)

LEMMA InitTyped == Init => AllTyped
  <1> SUFFICES ASSUME Init PROVE AllTyped
    OBVIOUS
  <1>1. StoreInv
    BY InitStore
  <1>2. RequestsTyped
    <2>1. Proper(Idle) /\ Idle.kind = "idle"
      BY AskProper
    <2>2. requests = [s \in Slots |-> Idle]
      BY DEF Init
    <2> QED BY <2>1, <2>2 DEF RequestsTyped, Proper, Answered
  <1>3. ListsTyped
    BY DEF Init, ListsTyped, Entries, Distinct, Dialog
  <1>4. FilesTyped
    <2>1. files \in [DOMAIN files -> File]
      BY DEF Init
    <2>2. Loads = {}
      BY AskProper DEF Init, Loads
    <2>3. Cardinality(Loads) = 0
      BY <2>2, FS_EmptySet
    <2>4. Parts * 0 = 0 /\ MaxFiles \in Nat
      BY BoundsAssumption
    <2> QED BY <2>1, <2>3, <2>4 DEF FilesTyped, Init
  <1>5. RestTyped
    BY BoundsAssumption, UploadedAssumption DEF Init, RestTyped
  <1> QED BY <1>1, <1>2, <1>3, <1>4, <1>5 DEF AllTyped

\* What a step keeps, but for the number of clicks and the store.
StepTyped == /\ RequestsTyped' /\ ListsTyped' /\ FilesTyped'
             /\ row' \in [Evals -> {"new", "stored", "gone"}] /\ overlapped' \subseteq Evals

LEMMA SameRequests ==
  ASSUME RequestsTyped, UNCHANGED requests
  PROVE  RequestsTyped' /\ Loads' = Loads
  BY DEF RequestsTyped, Loads, Answered

LEMMA OpenTyped ==
  ASSUME AllTyped, Open
  PROVE  StepTyped
  <1>1. RequestsTyped' /\ Loads' = Loads /\ ListsTyped'
    BY SameRequests, SameLists DEF Open, AllTyped
  <1>2. /\ files' \in [DOMAIN files' -> File]
        /\ nextFile' \in Nat /\ nextFile' <= nextFile + Parts
    BY IntakeTyped DEF Open, AllTyped, FilesTyped
  <1>3. nextFile + Parts + Parts * Cardinality(Loads) <= MaxFiles + 1
    BY RoomToOpen DEF Open, AllTyped
  <1>4. nextFile' + Parts * Cardinality(Loads) <= MaxFiles + 1
    <2>1. Cardinality(Loads) \in Nat /\ Parts \in Nat /\ MaxFiles \in Nat /\ nextFile \in Nat
      BY LoadsCount, BoundsAssumption DEF AllTyped, StoreInv
    <2>2. Parts * Cardinality(Loads) \in Nat
      BY <2>1, Times
    <2> QED BY <1>2, <1>3, <2>1, <2>2
  <1>5. FilesTyped'
    BY <1>1, <1>2, <1>4 DEF FilesTyped
  <1> QED BY <1>1, <1>5 DEF Open, StepTyped, AllTyped, RestTyped

LEMMA RemoveTyped ==
  ASSUME AllTyped, Remove
  PROVE  StepTyped
  <1>1. PICK fs : /\ Close(fs) /\ Unshare({files[f].db : f \in fs})
                  /\ UNCHANGED <<row, requests, overlapped>>
    BY DEF Remove
  <1>2. RequestsTyped' /\ Loads' = Loads /\ ListsTyped'
    BY <1>1, SameRequests, CloseLists DEF AllTyped
  <1>3. files' \in [DOMAIN files' -> File] /\ nextFile' = nextFile
    BY <1>1, CloseTyped DEF AllTyped, FilesTyped
  <1> QED BY <1>1, <1>2, <1>3 DEF StepTyped, AllTyped, RestTyped, FilesTyped

LEMMA QuietClickTyped ==
  ASSUME AllTyped, ToggleFile \/ ToggleAll \/ SelectExclusive \/ OpenDialog \/ CancelDialog
  PROVE  StepTyped
  <1>1. UNCHANGED <<row, files, nextFile, requests, overlapped>>
    BY DEF ToggleFile, ToggleAll, SelectExclusive, Choose, OpenDialog, CancelDialog, store
  <1>2. RequestsTyped' /\ Loads' = Loads
    BY <1>1, SameRequests DEF AllTyped
  <1>3. ListsTyped'
    <2>1. CASE UNCHANGED lists
      BY <2>1, SameLists DEF AllTyped
    <2>2. CASE OpenDialog
      BY <2>2, ActiveLists DEF AllTyped, OpenDialog
    <2>3. CASE CancelDialog
      BY <2>3, CancelLists DEF AllTyped
    <2> QED BY <2>1, <2>2, <2>3 DEF ToggleFile, ToggleAll, SelectExclusive, Choose
  <1> QED BY <1>1, <1>2, <1>3 DEF StepTyped, AllTyped, RestTyped, FilesTyped

\* A request that is no load takes the place of another and nothing is opened.
LEMMA FollowTyped ==
  ASSUME AllTyped, NEW s \in Slots, NEW r, Proper(r), r.kind # "load",
         requests' = [requests EXCEPT ![s] = r],
         files' \in [DOMAIN files' -> File], nextFile' = nextFile
  PROVE  RequestsTyped' /\ FilesTyped'
  <1>1. RequestsTyped'
    BY ReplaceRequest DEF AllTyped
  <1>2. nextFile + Parts * Cardinality(Loads') <= MaxFiles + 1
    BY RoomKept DEF AllTyped
  <1> QED BY <1>1, <1>2 DEF FilesTyped

LEMMA LoadResultsTyped ==
  ASSUME AllTyped, NEW s \in Slots, LoadResults(s)
  PROVE  StepTyped
  <1>1. PICK e \in Evals :
          /\ Room /\ requests[s] = Idle /\ requests' = [requests EXCEPT ![s] = Ask("load", e)]
          /\ overlapped' \in {overlapped, overlapped \cup {e}}
          /\ UNCHANGED <<row, store, lists>>
    BY DEF LoadResults, Start
  <1>2. Proper(Ask("load", e)) /\ Ask("load", e).kind = "load" /\ Idle.kind = "idle"
    BY AskProper
  <1>3. RequestsTyped'
    BY <1>1, <1>2, ReplaceRequest DEF AllTyped
  <1>4. s \notin Loads
    BY <1>1, <1>2 DEF Loads
  <1>5. nextFile + Parts * Cardinality(Loads') <= MaxFiles + 1
    BY <1>1, <1>2, <1>4, RoomTaken DEF AllTyped
  <1>6. FilesTyped'
    BY <1>1, <1>5 DEF FilesTyped, AllTyped, store
  <1>7. ListsTyped'
    BY <1>1, SameLists DEF AllTyped
  <1> QED BY <1>1, <1>3, <1>6, <1>7 DEF StepTyped, AllTyped, RestTyped

LEMMA EditTyped ==
  ASSUME AllTyped, NEW s \in Slots, Edit(s)
  PROVE  StepTyped
  <1>1. UNCHANGED <<row, store, allEvaluations, pagedEvaluations, same, overlapped>>
    BY DEF Edit
  <1>2. PICK k \in {"refresh", "update"}, e \in Evals :
          requests' = [requests EXCEPT ![s] = Ask(k, e)]
    <2>1. pagedEvaluations \subseteq Evals /\ Entries \subseteq Evals
      BY DEF AllTyped, ListsTyped, Entries
    <2> QED BY <2>1 DEF Edit, Start
  <1>3. Proper(Ask(k, e)) /\ Ask(k, e).kind # "load"
    BY AskProper
  <1>4. RequestsTyped' /\ FilesTyped'
    BY <1>1, <1>2, <1>3, FollowTyped DEF AllTyped, FilesTyped, store
  <1>5. ListsTyped'
    <2>1. CASE UNCHANGED dialog
      BY <1>1, <2>1, SameLists DEF AllTyped, lists
    <2>2. CASE \E x \in pagedEvaluations : dialog' = Active("no", x)
      BY <1>1, <2>2, ActiveLists DEF AllTyped
    <2> QED BY <2>1, <2>2 DEF Edit
  <1> QED BY <1>1, <1>4, <1>5 DEF StepTyped, AllTyped, RestTyped

LEMMA FetchSaveTyped ==
  ASSUME AllTyped, NEW s \in Slots, FetchList(s) \/ SaveFile(s)
  PROVE  StepTyped
  <1>1. UNCHANGED <<row, store, lists, overlapped>>
    BY DEF FetchList, SaveFile
  <1>2. PICK r : Proper(r) /\ r.kind # "load" /\ requests' = [requests EXCEPT ![s] = r]
    <2>1. CASE FetchList(s)
      BY <2>1, AskProper DEF FetchList, Start
    <2>2. CASE SaveFile(s)
      <3>1. PICK f \in FilesOf(NoEval) :
              requests' = [requests EXCEPT ![s] = Sent("save", NoEval, f, SavedAs(files[f].kind))]
        BY <2>2 DEF SaveFile, Start
      <3>2. f \in FileIds
        <4>1. f \in 1 .. nextFile - 1
          BY <3>1 DEF AllTyped, StoreInv, ids, FilesOf
        <4>2. Parts * Cardinality(Loads) \in Nat
          BY LoadsCount, Times, BoundsAssumption
        <4>3. nextFile \in Nat /\ nextFile + Parts * Cardinality(Loads) <= MaxFiles + 1
              /\ MaxFiles \in Nat
          BY BoundsAssumption DEF AllTyped, FilesTyped, StoreInv
        <4>4. nextFile <= MaxFiles + 1
          BY <4>2, <4>3
        <4> QED BY <4>1, <4>3, <4>4 DEF FileIds
      <3>3. SavedAs(files[f].kind) \in Data
        BY DEF SavedAs, Data
      <3>4. LET r == Sent("save", NoEval, f, SavedAs(files[f].kind))
            IN  Proper(r) /\ r.kind # "load"
        BY <3>2, <3>3 DEF Sent, Proper, Request
      <3> QED BY <3>1, <3>4
    <2> QED BY <2>1, <2>2
  <1>3. RequestsTyped' /\ FilesTyped'
    BY <1>1, <1>2, FollowTyped DEF AllTyped, FilesTyped, store
  <1>4. ListsTyped'
    BY <1>1, SameLists DEF AllTyped
  <1> QED BY <1>1, <1>3, <1>4 DEF StepTyped, AllTyped, RestTyped

LEMMA ConfirmTyped ==
  ASSUME AllTyped, NEW s \in Slots, ConfirmDialog(s)
  PROVE  StepTyped
  <1>1. UNCHANGED <<row, store, pagedEvaluations, overlapped>>
        /\ requests' = [requests EXCEPT ![s] = Ask("delete", dialog.eval)]
    BY DEF ConfirmDialog, Start
  <1>2. Proper(Ask("delete", dialog.eval)) /\ Ask("delete", dialog.eval).kind # "load"
    <2>1. dialog.eval \in Evals \cup {NoEval}
      BY DEF AllTyped, ListsTyped, Dialog
    <2> QED BY <2>1, AskProper
  <1>3. RequestsTyped' /\ FilesTyped'
    BY <1>1, <1>2, FollowTyped DEF AllTyped, FilesTyped, store
  <1>4. ListsTyped'
    BY ConfirmLists DEF AllTyped
  <1> QED BY <1>1, <1>3, <1>4 DEF StepTyped, AllTyped, RestTyped

LEMMA ServeTyped ==
  ASSUME AllTyped, NEW s \in Slots, Serve(s)
  PROVE  StepTyped
  <1> DEFINE q == requests[s]
  <1>0. requests \in [Slots -> Request] /\ q \in Request /\ row \in [Evals -> {"new", "stored", "gone"}]
    BY DEF AllTyped, RequestsTyped, RestTyped
  <1>1. UNCHANGED <<store, lists, overlapped>>
    BY DEF Serve, ServeGet, ServeList, ServeDelete, ServeSave
  <1>2. ListsTyped'
    BY <1>1, SameLists DEF AllTyped
  <1>3. row' \in [Evals -> {"new", "stored", "gone"}]
    BY <1>0 DEF Serve, ServeGet, ServeList, ServeDelete, ServeSave
  <1>4. PICK r \in Request :
          /\ requests' = [requests EXCEPT ![s] = r] /\ r.kind = q.kind
          /\ q.kind \in {"load", "refresh", "update"} => r.eval = q.eval
          /\ q.kind = "save" => r.eval \in Evals
    <2>1. CASE ServeGet(s) \/ ServeDelete(s)
      <3> DEFINE r1 == [q EXCEPT !.stage = "done"]
      <3>1. requests' = [requests EXCEPT ![s] = r1] /\ q.kind # "save"
        BY <1>0, <2>1 DEF ServeGet, ServeDelete, Done
      <3>2. r1 \in Request /\ r1.kind = q.kind /\ r1.eval = q.eval
        BY <1>0 DEF Request
      <3> QED BY <3>1, <3>2
    <2>2. CASE ServeList(s)
      <3> DEFINE r2 == [q EXCEPT !.stage = "done", !.page = stored]
      <3>1. requests' = [requests EXCEPT ![s] = r2] /\ q.kind = "list"
        BY <1>0, <2>2 DEF ServeList
      <3>2. r2 \in Request /\ r2.kind = q.kind
        BY <1>0 DEF Request, stored
      <3> QED BY <3>1, <3>2
    <2>3. CASE ServeSave(s)
      <3>1. PICK e \in Evals :
              requests' = [requests EXCEPT ![s].stage = "done", ![s].eval = e]
        BY <2>3 DEF ServeSave
      <3> DEFINE r3 == [q EXCEPT !.stage = "done", !.eval = e]
      <3>2. requests' = [requests EXCEPT ![s] = r3] /\ q.kind = "save"
        BY <1>0, <2>3, <3>1 DEF ServeSave
      <3>3. r3 \in Request /\ r3.kind = q.kind /\ r3.eval = e
        BY <1>0 DEF Request
      <3> QED BY <3>2, <3>3
    <2> QED BY <2>1, <2>2, <2>3 DEF Serve
  <1>5. Proper(r)
    BY <1>4 DEF Proper, AllTyped, RequestsTyped
  <1>6. RequestsTyped' /\ Loads' = Loads
    <2>1. Loads' = (Loads \ {s}) \cup (IF r.kind = "load" THEN {s} ELSE {}) /\ RequestsTyped'
      BY <1>4, <1>5, ReplaceRequest DEF AllTyped
    <2> QED BY <1>4, <2>1 DEF Loads
  <1>7. FilesTyped'
    BY <1>1, <1>6 DEF AllTyped, FilesTyped, store
  <1> QED BY <1>1, <1>2, <1>3, <1>6, <1>7 DEF StepTyped, AllTyped, RestTyped

LEMMA LandLoadTyped ==
  ASSUME AllTyped, NEW s \in Slots, LandLoad(s)
  PROVE  StepTyped
  <1>1. /\ requests[s].kind = "load" /\ requests' = [requests EXCEPT ![s] = Idle]
        /\ SaveBoth(requests[s].eval) /\ Intake(Contents[requests[s].eval], requests[s].eval)
        /\ UNCHANGED <<row, overlapped>>
    BY DEF LandLoad, Answered, Follow
  <1>2. requests[s].eval \in Evals
    BY <1>1 DEF AllTyped, RequestsTyped
  <1>3. ListsTyped'
    BY <1>1, <1>2, SaveBothLists DEF AllTyped
  <1>4. Proper(Idle) /\ Idle.kind = "idle"
    BY AskProper
  <1>5. RequestsTyped'
    BY <1>1, <1>4, ReplaceRequest DEF AllTyped
  <1>6. nextFile + Parts + Parts * Cardinality(Loads') <= MaxFiles + 1
    <2>1. s \in Loads
      BY <1>1 DEF Loads
    <2> QED BY <1>1, <1>4, <2>1, RoomKept DEF AllTyped
  <1>7. /\ files' \in [DOMAIN files' -> File]
        /\ nextFile' \in Nat /\ nextFile' <= nextFile + Parts
    BY <1>1, <1>2, IntakeTyped DEF AllTyped, FilesTyped
  <1>8. Loads' = Loads \ {s}
    BY <1>1, <1>4, ReplaceRequest DEF AllTyped
  <1>9. nextFile' + Parts * Cardinality(Loads') <= MaxFiles + 1
    <2> DEFINE k == Cardinality(Loads \ {s})
    <2>1. k \in Nat
      BY LoadsCount
    <2> HIDE DEF k
    <2>2. Parts * k \in Nat /\ nextFile \in Nat /\ Parts \in Nat /\ MaxFiles \in Nat
      BY <2>1, Times, BoundsAssumption DEF AllTyped, StoreInv
    <2>3. nextFile + Parts + Parts * k <= MaxFiles + 1
      BY <1>6, <1>8 DEF k
    <2>4. nextFile' + Parts * k <= MaxFiles + 1
      BY <1>7, <2>2, <2>3
    <2> QED BY <1>8, <2>4 DEF k
  <1> QED BY <1>1, <1>3, <1>5, <1>7, <1>9 DEF StepTyped, AllTyped, RestTyped, FilesTyped

LEMMA LandRestTyped ==
  ASSUME AllTyped, NEW s \in Slots,
         LandFailure(s) \/ LandRefresh(s) \/ LandUpdate(s) \/ LandList(s) \/ LandDelete(s)
           \/ LandSave(s)
  PROVE  StepTyped
  <1>1. UNCHANGED <<row, overlapped>>
    BY DEF LandFailure, LandRefresh, LandUpdate, LandList, LandDelete, LandSave
  <1>2. /\ LandRefresh(s) \/ LandUpdate(s) \/ LandSave(s) => requests[s].eval \in Evals
        /\ NoEval \in Evals \cup {NoEval}
    BY DEF AllTyped, RequestsTyped, LandRefresh, LandUpdate, LandSave, Answered
  <1>3. PICK r : Proper(r) /\ r.kind # "load" /\ requests' = [requests EXCEPT ![s] = r]
    BY <1>2, AskProper
       DEF LandFailure, LandRefresh, LandUpdate, LandList, LandDelete, LandSave, Follow
  <1>4. files' \in [DOMAIN files' -> File] /\ nextFile' = nextFile
    <2>0. files \in [DOMAIN files -> File]
      BY DEF AllTyped, FilesTyped
    <2>1. CASE UNCHANGED store
      BY <2>0, <2>1 DEF store
    <2>2. CASE LandSave(s)
      BY <1>2, <2>0, <2>2, RelabelTyped
    <2>3. CASE \E f : Close({f})
      BY <2>0, <2>3, CloseTyped
    <2> QED BY <2>1, <2>2, <2>3 DEF LandFailure, LandRefresh, LandUpdate, LandList, LandDelete
  <1>5. RequestsTyped' /\ FilesTyped'
    BY <1>3, <1>4, FollowTyped
  <1>6. ListsTyped'
    <2>1. CASE UNCHANGED lists
      BY <2>1, SameLists DEF AllTyped
    <2>2. CASE LandRefresh(s)
      BY <1>2, <2>2, SaveBothLists DEF AllTyped, LandRefresh
    <2>3. CASE LandUpdate(s)
      BY <1>2, <2>3, UpdateLists DEF AllTyped, LandUpdate
    <2>4. CASE LandList(s)
      BY <2>4, LandListLists DEF AllTyped
    <2>5. CASE LandDelete(s)
      <3>1. CASE \E f \in FilesOf(dialog.eval) : Close({f}) /\ Unshare({dialog.eval})
        <4>1. PICK f \in FilesOf(dialog.eval) : Close({f}) /\ Unshare({dialog.eval})
          BY <3>1
        <4>2. {files[g].db : g \in {f}} = {dialog.eval}
          BY <4>1 DEF FilesOf
        <4>3. Unshare({files[g].db : g \in {f}})
          BY <4>1, <4>2
        <4> QED BY <4>1, <4>3, CloseLists DEF AllTyped
      <3> QED BY <2>1, <2>5, <3>1 DEF LandDelete
    <2> QED BY <2>1, <2>2, <2>3, <2>4, <2>5 DEF LandFailure, LandSave
  <1> QED BY <1>1, <1>5, <1>6 DEF StepTyped, AllTyped, RestTyped

LEMMA StepsTyped ==
  ASSUME AllTyped, [Next]_vars
  PROVE  AllTyped'
  <1>1. StoreInv'
    BY StepKeeps DEF AllTyped, Kept
  <1>2. ASSUME Next PROVE StepTyped
    <2>1. CASE Click
      BY <2>1, OpenTyped, RemoveTyped, QuietClickTyped, LoadResultsTyped, EditTyped, FetchSaveTyped,
         ConfirmTyped DEF Click
    <2>2. CASE Answer
      BY <2>2, ServeTyped, LandLoadTyped, LandRestTyped DEF Answer, Land
    <2> QED BY <1>2, <2>1, <2>2 DEF Next
  <1>3. ASSUME Next PROVE clicks' \in 0 .. MaxClicks
    <2>1. clicks \in 0 .. MaxClicks /\ MaxClicks \in Nat
      BY BoundsAssumption DEF AllTyped, RestTyped
    <2> QED BY <1>3, <2>1 DEF Next, Click, Answer
  <1>4. CASE Next
    BY <1>1, <1>2, <1>3, <1>4 DEF AllTyped, StepTyped, RestTyped
  <1>5. CASE UNCHANGED vars
    <2>1. UNCHANGED <<requests, lists, files, nextFile, row, overlapped, clicks>>
      BY <1>5 DEF vars, store
    <2>2. RequestsTyped' /\ Loads' = Loads /\ ListsTyped'
      BY <2>1, SameRequests, SameLists DEF AllTyped
    <2> QED BY <1>1, <2>1, <2>2 DEF AllTyped, FilesTyped, RestTyped
  <1> QED BY <1>4, <1>5

LEMMA TypedHolds == Spec => []AllTyped
  BY InitTyped, StepsTyped, PTL DEF Spec

\* A list without repetitions has as many members as places.
LEMMA DistinctCount ==
  ASSUME NEW S, NEW list \in Seq(S), Distinct(list)
  PROVE  IsFiniteSet(Members(list)) /\ Cardinality(Members(list)) = Len(list)
  <1> DEFINE g == [i \in 1 .. Len(list) |-> list[i]]
  <1>1. Len(list) \in Nat
    OBVIOUS
  <1>2. /\ IsFiniteSet(1 .. Len(list)) /\ Cardinality(1 .. Len(list)) = Len(list)
    <2> DEFINE n == Len(list)
    <2>1. n \in Int /\ 1 \in Int
      BY <1>1
    <2> HIDE DEF n
    <2>2. /\ IsFiniteSet(1 .. n)
          /\ Cardinality(1 .. n) = IF 1 > n THEN 0 ELSE n - 1 + 1
      BY <2>1, FS_Interval
    <2>3. n \in Nat
      BY <1>1 DEF n
    <2>4. Cardinality(1 .. n) = n
      BY <2>2, <2>3
    <2> QED BY <2>2, <2>4 DEF n
  <1>3. g \in Bijection(1 .. Len(list), Members(list))
    BY DEF Members, Distinct, Bijection, Injection, Surjection, IsInjective
  <1>4. ExistsBijection(1 .. Len(list), Members(list))
    BY <1>3 DEF ExistsBijection
  <1> QED BY <1>2, <1>4, FS_Bijection

\* Every variable of the store has its type and an evaluation is listed once,
\* however many requests overlap and whatever they bring (evaluations.ts).
THEOREM TypeCorrect == Spec => []TypeOK
  <1>1. AllTyped => TypeOK
    <2> SUFFICES ASSUME AllTyped PROVE TypeOK
      OBVIOUS
    <2>1. /\ nextFile \in Nat \ {0} /\ MaxFiles \in Nat /\ Parts \in Nat
          /\ nextFile + Parts * Cardinality(Loads) <= MaxFiles + 1
      BY BoundsAssumption DEF AllTyped, StoreInv, FilesTyped
    <2>2. Parts * Cardinality(Loads) \in Nat
      BY <2>1, LoadsCount, Times
    <2>3. nextFile \in 1 .. MaxFiles + 1
      BY <2>1, <2>2
    <2>4. DOMAIN files \subseteq FileIds
      BY <2>1, <2>3 DEF AllTyped, StoreInv, ids, FileIds
    <2>5. selectedEvaluationIds \subseteq FileIds /\ selectedProfileIds \subseteq FileIds
      BY <2>4 DEF AllTyped, StoreInv, EvaluationFiles, ProfileFiles, OfKind
    <2>6. Cardinality(Entries) = Len(allEvaluations)
      BY EntriesAre, DistinctCount DEF AllTyped, ListsTyped
    <2> QED BY <2>3, <2>4, <2>5, <2>6
            DEF TypeOK, AllTyped, ListsTyped, FilesTyped, RequestsTyped, RestTyped
  <1> QED BY <1>1, TypedHolds, PTL

-----------------------------------------------------------------------------
(* What a deletion closes and what an open file loses. *)

\* Only the answer to a deletion asks for the list after it.
LEMMA OnlyLandDelete ==
  ASSUME AllTyped, [Next]_vars, NEW s \in Slots,
         requests[s].kind = "delete", requests'[s].kind = "list"
  PROVE  LandDelete(s)
  <1>1. requests \in [Slots -> Request] /\ Idle.kind = "idle"
    BY AskProper DEF AllTyped, RequestsTyped
  <1>2. ~ UNCHANGED requests
    OBVIOUS
  <1>3. ASSUME NEW t \in Slots, NEW r, Start(t, r) PROVE FALSE
    BY <1>1, <1>3 DEF Start
  <1>4. ASSUME NEW t \in Slots, NEW r, Follow(t, r), requests[t].kind # "delete" PROVE FALSE
    BY <1>1, <1>4 DEF Follow
  <1>5. ASSUME NEW t \in Slots, NEW r, Follow(t, r), r.kind # "list" PROVE FALSE
    BY <1>1, <1>5 DEF Follow
  <1>6. ASSUME NEW t \in Slots, NEW r, Follow(t, r), t # s PROVE FALSE
    BY <1>1, <1>6 DEF Follow
  <1>7. ~ Click
    BY <1>2, <1>3 DEF Click, Open, Remove, ToggleFile, ToggleAll, SelectExclusive, Choose, OpenDialog,
       CancelDialog, LoadResults, Edit, FetchList, SaveFile, ConfirmDialog
  <1>8. ASSUME NEW t \in Slots, Serve(t) PROVE FALSE
    <2>1. ServeGet(t) \/ ServeDelete(t) => requests' = [requests EXCEPT ![t].stage = "done"]
      BY DEF ServeGet, ServeDelete, Done
    <2>2. ServeList(t) => requests' = [requests EXCEPT ![t].stage = "done", ![t].page = stored]
      BY DEF ServeList
    <2>3. ServeSave(t) => \E e \in Evals :
             requests' = [requests EXCEPT ![t].stage = "done", ![t].eval = e]
      BY DEF ServeSave
    <2>4. requests'[s].kind = requests[s].kind
      <3>1. CASE ServeGet(t) \/ ServeDelete(t)
        BY <1>1, <2>1, <3>1 DEF Request
      <3>2. CASE ServeList(t)
        BY <1>1, <2>2, <3>2 DEF Request
      <3>3. CASE ServeSave(t)
        BY <1>1, <2>3, <3>3 DEF Request
      <3> QED BY <1>8, <3>1, <3>2, <3>3 DEF Serve
    <2> QED BY <2>4
  <1>9. ASSUME NEW t \in Slots, Land(t) PROVE LandDelete(s)
    <2>1. /\ \A e : Ask("refresh", e).kind = "refresh"
          /\ Idle.kind = "idle"
      BY DEF Ask, Sent, Idle
    <2>2. CASE LandDelete(t)
      BY <1>6, <2>2 DEF LandDelete
    <2>3. CASE LandFailure(t) \/ LandLoad(t) \/ LandRefresh(t) \/ LandUpdate(t) \/ LandList(t)
                 \/ LandSave(t)
      BY <1>5, <2>1, <2>3 DEF LandFailure, LandLoad, LandRefresh, LandUpdate, LandList, LandSave
    <2> QED BY <1>9, <2>2, <2>3 DEF Land
  <1> QED BY <1>2, <1>7, <1>8, <1>9 DEF Next, Answer, vars

\* A deletion that is answered takes the deleted evaluation's selected file out of
\* the panel and no other file (LoadFileList.deleteItemConfirm).
THEOREM DeletionClosesFile == Spec => DeletedLeavesPanel
  <1>1. StoreInv /\ LoadInv /\ AllTyped /\ [Next]_vars =>
          [\A s \in Slots, e \in Evals \ overlapped :
             /\ requests[s].kind = "delete" /\ requests[s].eval = e /\ requests'[s].kind = "list"
             /\ dialog.eval = e
             => /\ FilesOf(e)' \cap (selectedEvaluationIds \cup selectedProfileIds) = {}
                /\ DOMAIN files \ FilesOf(e) = DOMAIN files' \ FilesOf(e)]_vars
    <2> SUFFICES ASSUME StoreInv, LoadInv, AllTyped, [Next]_vars,
                        NEW s \in Slots, NEW e \in Evals \ overlapped,
                        requests[s].kind = "delete", requests'[s].kind = "list", dialog.eval = e
                 PROVE  /\ FilesOf(e)' \cap (selectedEvaluationIds \cup selectedProfileIds) = {}
                        /\ DOMAIN files \ FilesOf(e) = DOMAIN files' \ FilesOf(e)
      OBVIOUS
    <2> DEFINE chosen == selectedEvaluationIds \cup selectedProfileIds
               last == {f \in FilesOf(e) : \A g \in FilesOf(e) : g <= f}
    <2>1. \/ \E f \in last \cap chosen : Close({f})
          \/ last \cap chosen = {} /\ UNCHANGED files
      BY OnlyLandDelete DEF LandDelete, store
    <2>2. last = FilesOf(e)
      <3>1. \A f, g \in FilesOf(e) : f = g
        BY DEF LoadInv, FilesOf
      <3>2. FilesOf(e) \subseteq Nat
        BY DEF StoreInv, ids, FilesOf
      <3> QED BY <3>1, <3>2
    <2> HIDE DEF last
    <2>3. CASE \E f \in last \cap chosen : Close({f})
      <3>1. PICK f \in FilesOf(e) : Close({f})
        BY <2>2, <2>3
      <3>2. FilesOf(e) = {f}
        BY <3>1 DEF LoadInv, FilesOf
      <3>3. DOMAIN files' = DOMAIN files \ {f} /\ FilesOf(e)' \subseteq DOMAIN files'
        BY <3>1 DEF Close, FilesOf
      <3>4. FilesOf(e)' = {}
        BY <3>1, <3>2, <3>3, ClosedFiles
      <3> QED BY <3>2, <3>3, <3>4
    <2>4. CASE last \cap chosen = {} /\ UNCHANGED files
      BY <2>2, <2>4, SameFiles
    <2> QED BY <2>1, <2>3, <2>4
  <1>2. Spec => []LoadInv
    BY StepLoad, InitLoad, StoreHolds, PTL DEF Spec
  <1> QED BY <1>1, <1>2, StoreHolds, TypedHolds, PTL DEF Spec, DeletedLeavesPanel

\* Closing files drops the entries of their evaluations, each of which has one file.
LEMMA CloseLoses ==
  ASSUME LoadInv, ListsTyped, NEW fs, fs \subseteq DOMAIN files, Close(fs),
         NEW e \in Entries, e \notin Entries', FilesOf(e)' # {}
  PROVE  e \in overlapped
  <1>1. Entries' = Entries \ {files[f].db : f \in fs}
    BY ClosedEntries
  <1>2. PICK f \in fs : files[f].db = e
    BY <1>1
  <1>3. PICK g : g \in FilesOf(e)'
    OBVIOUS
  <1>4. g \in FilesOf(e) /\ g \notin fs
    BY <1>3, ClosedFiles DEF Close, FilesOf
  <1>5. f \in FilesOf(e) /\ f \in DOMAIN files /\ g \in DOMAIN files /\ e \in Evals
    BY <1>2, <1>4 DEF FilesOf, ListsTyped, Entries
  <1> QED BY <1>4, <1>5 DEF LoadInv

LEMMA OthersKeepEntries ==
  ASSUME AllTyped, Next, ~ \E s \in Slots : ConfirmDialog(s), ~ Remove,
         ~ \E s \in Slots : LandDelete(s)
  PROVE  Entries \subseteq Entries'
  <1>1. CASE UNCHANGED allEvaluations
    BY <1>1 DEF Entries
  <1>2. CASE \E e \in Evals : SaveEntry(e)
    BY <1>2, SaveEntryKeeps DEF AllTyped
  <1>3. Click => UNCHANGED allEvaluations
    BY DEF Click, Open, ToggleFile, ToggleAll, SelectExclusive, Choose, OpenDialog,
       CancelDialog, LoadResults, Edit, FetchList, SaveFile, lists
  <1>4. \A s \in Slots : Serve(s) => UNCHANGED allEvaluations
    BY DEF Serve, ServeGet, ServeList, ServeDelete, ServeSave, lists
  <1>5. \A s \in Slots : Land(s) => UNCHANGED allEvaluations \/ \E e \in Evals : SaveEntry(e)
    BY DEF Land, LandFailure, LandLoad, LandRefresh, LandUpdate, LandList, LandSave, lists, SaveBoth,
           AllTyped, RequestsTyped, Answered
  <1> QED BY <1>1, <1>2, <1>3, <1>4, <1>5 DEF Next, Answer

\* An open file loses its entry of allEvaluations to a second load of its evaluation
\* or to a confirmed deletion, and to nothing else (evaluations.ts, mutations).
THEOREM EntriesLost == Spec => FileLosesEvaluation
  <1>1. StoreInv /\ LoadInv /\ AllTyped /\ [Next]_vars =>
          [\A e \in Entries : e \notin Entries' /\ FilesOf(e)' # {} =>
             \/ e \in overlapped
             \/ dialog.open = "yes" /\ dialog'.open = "no"
                /\ (dialog.eval = e \/ dialog.item = "other")]_vars
    <2> SUFFICES ASSUME StoreInv, LoadInv, AllTyped, Next,
                        NEW e \in Entries, e \notin Entries', FilesOf(e)' # {}, e \notin overlapped
                 PROVE  dialog.open = "yes" /\ dialog'.open = "no"
                        /\ (dialog.eval = e \/ dialog.item = "other")
      OBVIOUS
    <2>1. CASE \E s \in Slots : ConfirmDialog(s)
      <3>1. PICK s \in Slots : ConfirmDialog(s)
        BY <2>1
      <3>2. dialog.item \in {"same", "other"} /\ dialog \in Dialog
        BY DEF AllTyped, ListsTyped, Dialog
      <3>3. dialog.item = "same" => dialog.eval = e
        BY <3>1, ConfirmedEntries DEF AllTyped
      <3>4. dialog.open = "yes" /\ dialog'.open = "no"
        <4>1. dialog.open = "yes" /\ dialog' = [dialog EXCEPT !.open = "no", !.item = "other"]
          BY <3>1 DEF ConfirmDialog
        <4> QED BY <3>2, <4>1 DEF Dialog
      <3> QED BY <3>2, <3>3, <3>4
    <2>2. CASE Remove
      <3>1. PICK fs \in {{f} : f \in DOMAIN files} \cup {selectedEvaluationIds, selectedProfileIds} :
              Close(fs)
        BY <2>2 DEF Remove
      <3>2. fs \subseteq DOMAIN files
        BY DEF StoreInv, EvaluationFiles, ProfileFiles, OfKind
      <3> QED BY <3>1, <3>2, CloseLoses DEF AllTyped
    <2>3. CASE \E s \in Slots : LandDelete(s)
      <3>1. CASE UNCHANGED lists
        BY <3>1 DEF lists, Entries
      <3>2. CASE \E f \in FilesOf(dialog.eval) : Close({f})
        <4>1. PICK f \in FilesOf(dialog.eval) : Close({f})
          BY <3>2
        <4>2. {f} \subseteq DOMAIN files
          BY DEF FilesOf
        <4> QED BY <4>1, <4>2, CloseLoses DEF AllTyped
      <3> QED BY <2>3, <3>1, <3>2 DEF LandDelete
    <2> QED BY <2>1, <2>2, <2>3, OthersKeepEntries
  <1>2. Spec => []LoadInv
    BY StepLoad, InitLoad, StoreHolds, PTL DEF Spec
  <1> QED BY <1>1, <1>2, StoreHolds, TypedHolds, PTL DEF Spec, FileLosesEvaluation

-----------------------------------------------------------------------------
(* The groups.  An entry is listed once because it is looked for by id. *)

OneEach(list) == \A i, j \in 1 .. Len(list) : list[i].id = list[j].id => i = j

GroupList(list) == list \in Seq(G!Entry) /\ OneEach(list)

\* A call, what it must be about, and what its answer holds.
ProperCall(r) ==
  /\ r \in G!Call
  /\ GroupList(r.answer)
  /\ r.kind \in {"update", "get", "sync", "delete"} => r.id \in Groups
  /\ r.kind = "create" /\ r.stage = "done" => r.id \in Groups
  /\ r.kind = "get" /\ r.stage = "done" => Len(r.answer) = 1

Row == [at : G!Standing, rev : 0 .. GroupClicks]

CallsTyped == calls \in [Calls -> G!Call] /\ \A c \in Calls : ProperCall(calls[c])

AllListed ==
  /\ group \in [Groups -> Row]
  /\ GroupList(allGroups) /\ GroupList(myGroups)
  /\ CallsTyped
  /\ doubtful \in BOOLEAN /\ groupClicks \in 0 .. GroupClicks

LEMMA SameFinite == \A S : G!IsFiniteSet(S) <=> IsFiniteSet(S)
  BY DEF G!IsFiniteSet, IsFiniteSet

LEMMA SameCardinality == \A S : G!Cardinality(S) = Cardinality(S)
  BY DEF G!Cardinality, Cardinality

LEMMA Assumed ==
  /\ NoGroup \notin Groups /\ IsFiniteSet(Groups) /\ Existing \in [Groups -> G!Standing]
  /\ Admin \in BOOLEAN /\ GroupClicks \in Nat
  BY GroupsAssumption, SameFinite DEF G!ConstantsRight

LEMMA EmptyList == GroupList(<<>>)
  BY DEF GroupList, OneEach

LEMMA GroupAskProper ==
  ASSUME NEW b \in {"create", "update"}
  PROVE  /\ \A k \in {"create", "all", "my"} :
              ProperCall(G!Ask(k, NoGroup, b)) /\ G!Ask(k, NoGroup, b).kind = k
         /\ \A k \in {"update", "get", "sync", "delete"}, g \in Groups :
              ProperCall(G!Ask(k, g, b)) /\ G!Ask(k, g, b).kind = k
         /\ ProperCall(G!Idle) /\ G!Idle.kind = "idle"
         /\ \A k, g : G!Ask(k, g, b).stage = "sent"
  <1>1. <<>> \in Seq(G!Entry)
    OBVIOUS
  <1> QED BY <1>1, EmptyList DEF G!Ask, G!Idle, G!Call, ProperCall

LEMMA ReplaceCall ==
  ASSUME CallsTyped, NEW c \in Calls, NEW r, ProperCall(r), calls' = [calls EXCEPT ![c] = r]
  PROVE  /\ CallsTyped' /\ calls'[c] = r
         /\ \A d \in Calls \ {c} : calls'[d] = calls[d]
  <1>1. /\ calls' \in [Calls -> G!Call] /\ calls'[c] = r
        /\ \A d \in Calls \ {c} : calls'[d] = calls[d]
    BY DEF CallsTyped, ProperCall
  <1>2. \A d \in Calls : ProperCall(calls'[d])
    BY <1>1 DEF CallsTyped
  <1> QED BY <1>1, <1>2 DEF CallsTyped

\* FetchGroupData takes two requests.
LEMMA FetchedCalls ==
  ASSUME CallsTyped, NEW c \in Calls, NEW d \in Calls, c # d, calls' = G!Fetched(c, d)
  PROVE  /\ CallsTyped'
         /\ calls'[c].kind = "all" /\ calls'[c].stage = "sent"
         /\ calls'[d].kind = "my"  /\ calls'[d].stage = "sent"
         /\ \A b \in Calls \ {c, d} : calls'[b] = calls[b]
  <1> DEFINE ra == G!Ask("all", NoGroup, "update")
             rm == G!Ask("my", NoGroup, "update")
  <1>1. /\ ProperCall(ra) /\ ra.kind = "all" /\ ra.stage = "sent"
        /\ ProperCall(rm) /\ rm.kind = "my" /\ rm.stage = "sent"
    BY GroupAskProper
  <1>2. calls' = [calls EXCEPT ![c] = ra, ![d] = rm]
    BY DEF G!Fetched
  <1> HIDE DEF ra, rm
  <1>3. /\ calls' \in [Calls -> G!Call] /\ calls'[c] = ra /\ calls'[d] = rm
        /\ \A b \in Calls \ {c, d} : calls'[b] = calls[b]
    BY <1>1, <1>2 DEF CallsTyped, ProperCall
  <1>4. \A b \in Calls : ProperCall(calls'[b])
    BY <1>1, <1>3 DEF CallsTyped
  <1> QED BY <1>1, <1>3, <1>4 DEF CallsTyped

\* The rows of a set of groups, in any order.
LEMMA RowsInOrder ==
  ASSUME group \in [Groups -> Row], NEW S \in SUBSET Groups,
         NEW q \in G!SetToSeqs({G!EntryOf(g) : g \in S})
  PROVE  GroupList(q) /\ G!Shown(q) = {G!EntryOf(g) : g \in S}
  <1> DEFINE T == {G!EntryOf(g) : g \in S}
  <1>1. IsFiniteSet(T)
    <2>1. IsFiniteSet(S)
      BY Assumed, FS_Subset
    <2> DEFINE f == [g \in S |-> G!EntryOf(g)]
    <2>2. f \in Surjection(S, T)
      BY DEF Surjection
    <2> QED BY <2>1, <2>2, FS_Surjection
  <1>2. T \subseteq G!Entry /\ \A e \in T : \E g \in S : e = G!EntryOf(g) /\ e.id = g
    BY DEF G!EntryOf, G!Entry, Row
  <1>3. \A e, f \in T : e.id = f.id => e = f
    BY <1>2
  <1> HIDE DEF T
  <1>4. Cardinality(T) \in Nat
    BY <1>1, FS_CardinalityType
  <1>5. /\ q \in [1 .. Cardinality(T) -> T]
        /\ \A i, j \in 1 .. Cardinality(T) : i # j => q[i] # q[j]
    BY SameCardinality DEF G!SetToSeqs, T
  <1>6. q \in Seq(T) /\ Len(q) = Cardinality(T) /\ DOMAIN q = 1 .. Len(q)
    BY <1>4, <1>5
  <1>7. Distinct(q)
    BY <1>5, <1>6 DEF Distinct
  <1>8. Cardinality(Members(q)) = Cardinality(T)
    BY <1>6, <1>7, DistinctCount
  <1>9. Members(q) = T
    <2>1. Members(q) \subseteq T
      BY <1>5, <1>6 DEF Members
    <2> QED BY <1>1, <1>8, <2>1, FS_Subset
  <1>10. G!Shown(q) = Members(q)
    BY <1>6 DEF G!Shown, Members
  <1>11. OneEach(q)
    BY <1>3, <1>5, <1>6 DEF OneEach
  <1>12. q \in Seq(G!Entry)
    BY <1>2, <1>6
  <1> QED BY <1>9, <1>10, <1>11, <1>12 DEF GroupList, T

\* UPDATE_MY_GROUPS and ADD_TO_MY_GROUPS keep one entry for each group.
LEMMA UpdatedList ==
  ASSUME NEW list, GroupList(list), NEW e \in G!Entry
  PROVE  GroupList(G!Updated(list, e))
  <1>1. /\ list \in Seq(G!Entry) /\ OneEach(list) /\ Len(list) \in Nat
        /\ DOMAIN list = 1 .. Len(list)
    BY DEF GroupList
  <1>2. CASE e.id \in G!IdsIn(list)
    <2> DEFINE new == [i \in 1 .. Len(list) |-> IF list[i].id = e.id THEN e ELSE list[i]]
    <2>1. G!Updated(list, e) = new
      BY <1>1, <1>2 DEF G!Updated
    <2>2. new \in [1 .. Len(list) -> G!Entry]
      BY <1>1
    <2>3. \A i \in 1 .. Len(list) : new[i].id = list[i].id
      OBVIOUS
    <2> HIDE DEF new
    <2>4. new \in Seq(G!Entry) /\ Len(new) = Len(list)
      BY <1>1, <2>2
    <2>5. OneEach(new)
      BY <1>1, <2>3, <2>4 DEF OneEach
    <2> QED BY <2>1, <2>4, <2>5 DEF GroupList
  <1>3. CASE e.id \notin G!IdsIn(list)
    <2> DEFINE new == Append(list, e)
    <2>1. G!Updated(list, e) = new
      BY <1>3 DEF G!Updated
    <2>2. /\ new \in Seq(G!Entry) /\ Len(new) = Len(list) + 1 /\ new[Len(list) + 1] = e
          /\ \A i \in 1 .. Len(list) : new[i] = list[i]
      BY <1>1
    <2>3. \A i \in 1 .. Len(list) : list[i].id # e.id
      BY <1>1, <1>3 DEF G!IdsIn
    <2> HIDE DEF new
    <2>4. OneEach(new)
      BY <1>1, <2>2, <2>3 DEF OneEach
    <2> QED BY <2>1, <2>2, <2>4 DEF GroupList
  <1> QED BY <1>2, <1>3

LEMMA ShorterList ==
  ASSUME NEW list, GroupList(list)
  PROVE  GroupList(G!WithoutLast(list))
  <1> DEFINE new == SubSeq(list, 1, Len(list) - 1)
  <1>1. list \in Seq(G!Entry) /\ OneEach(list) /\ Len(list) \in Nat
    BY DEF GroupList
  <1>2. CASE Len(list) = 0
    <2>1. new = <<>>
      BY <1>2, SubSeqEmpty
    <2> QED BY <2>1, EmptyList DEF G!WithoutLast
  <1>3. CASE Len(list) # 0
    <2>1. /\ new \in Seq(G!Entry) /\ Len(new) = Len(list) - 1
          /\ \A i \in 1 .. Len(list) - 1 : new[i] = list[i]
      <3>1. PICK n \in Nat : n = Len(list) - 1
        BY <1>1, <1>3
      <3>2. 1 \in Int /\ n \in Int /\ \A i \in 1 .. n : list[i] \in G!Entry
        BY <1>1, <3>1
      <3>3. /\ SubSeq(list, 1, n) \in Seq(G!Entry)
            /\ Len(SubSeq(list, 1, n)) = IF 1 <= n THEN n - 1 + 1 ELSE 0
            /\ \A i \in 1 .. n - 1 + 1 : SubSeq(list, 1, n)[i] = list[1 + i - 1]
        BY <3>2, SubSeqProperties
      <3>4. new = SubSeq(list, 1, n)
        BY <3>1
      <3> HIDE DEF new
      <3> QED BY <1>1, <3>1, <3>3, <3>4
    <2> HIDE DEF new
    <2>2. OneEach(new)
      BY <1>1, <2>1 DEF OneEach
    <2> QED BY <2>1, <2>2 DEF GroupList, new, G!WithoutLast
  <1> QED BY <1>2, <1>3

LEMMA InitListed == G!Init => AllListed
  <1> SUFFICES ASSUME G!Init PROVE AllListed
    OBVIOUS
  <1>1. group \in [Groups -> Row]
    BY Assumed DEF G!Init, Row
  <1>2. CallsTyped
    <2>1. ProperCall(G!Idle)
      BY GroupAskProper
    <2>2. calls = [c \in Calls |-> G!Idle]
      BY DEF G!Init
    <2> QED BY <2>1, <2>2 DEF CallsTyped, ProperCall
  <1>3. groupClicks \in 0 .. GroupClicks
    BY Assumed DEF G!Init
  <1> QED BY <1>1, <1>2, <1>3, EmptyList DEF AllListed, G!Init

\* What a step keeps, but for the number of clicks.
StepListed == /\ group' \in [Groups -> Row]
              /\ GroupList(allGroups') /\ GroupList(myGroups')
              /\ CallsTyped' /\ doubtful' \in BOOLEAN

LEMMA ListIds ==
  ASSUME NEW list, GroupList(list)
  PROVE  G!IdsIn(list) \subseteq Groups
  <1>1. list \in Seq(G!Entry) /\ Len(list) \in Nat /\ DOMAIN list = 1 .. Len(list)
    BY DEF GroupList
  <1>2. \A i \in DOMAIN list : list[i] \in G!Entry
    BY <1>1
  <1>3. \A i \in DOMAIN list : list[i].id \in Groups
    BY <1>2 DEF G!Entry
  <1> QED BY <1>3 DEF G!IdsIn

LEMMA ClickListed ==
  ASSUME AllListed, G!Click
  PROVE  StepListed
  <1>0. /\ GroupClicks \in Nat /\ groupClicks + 1 \in 0 .. GroupClicks
        /\ Admin \in BOOLEAN
    BY Assumed DEF AllListed, G!Click
  <1>1. CASE G!FetchGroupData
    <2>1. CallsTyped'
      BY <1>1, FetchedCalls DEF G!FetchGroupData, AllListed
    <2> QED BY <1>1, <2>1 DEF G!FetchGroupData, AllListed, StepListed, G!Alone
  <1>2. CASE G!Elsewhere
    <2>1. PICK g \in Groups, a \in G!Standing :
            group' = [group EXCEPT ![g] = [at |-> a, rev |-> groupClicks + 1]]
      BY <1>2 DEF G!Elsewhere
    <2>2. [at |-> a, rev |-> groupClicks + 1] \in Row
      BY <1>0 DEF Row
    <2>3. group' \in [Groups -> Row]
      BY <2>1, <2>2 DEF AllListed
    <2>4. CallsTyped'
      BY <1>2 DEF AllListed, CallsTyped, G!Elsewhere
    <2> QED BY <1>2, <2>3, <2>4 DEF AllListed, StepListed, G!Elsewhere
  <1>3. ASSUME NEW c \in Calls, G!Save(c) \/ G!DeleteGroup(c) PROVE StepListed
    <2>1. G!IdsIn(myGroups) \cup (IF Admin THEN G!IdsIn(allGroups) ELSE {}) \subseteq Groups
      BY <1>0, ListIds DEF AllListed
    <2>2. PICK r : ProperCall(r) /\ calls' = [calls EXCEPT ![c] = r]
      BY <1>3, <2>1, GroupAskProper DEF G!Save, G!DeleteGroup, G!Begin
    <2>3. CallsTyped'
      BY <2>2, ReplaceCall DEF AllListed
    <2> QED BY <1>3, <2>3 DEF AllListed, StepListed, G!Save, G!DeleteGroup, G!Alone
  <1> QED BY <1>1, <1>2, <1>3 DEF G!Click

\* An answer that carries a list of groups, and is one group to a call for one.
LEMMA DoneListed ==
  ASSUME AllListed, NEW c \in Calls, NEW g \in Groups \cup {NoGroup}, NEW q, GroupList(q),
         calls[c].kind \in {"create", "update", "get", "sync", "delete"} => g \in Groups,
         calls[c].kind = "get" => Len(q) = 1,
         G!Done(c, g, q)
  PROVE  /\ CallsTyped'
         /\ calls'[c].kind = calls[c].kind /\ calls'[c].stage = "done" /\ calls'[c].answer = q
         /\ \A d \in Calls \ {c} : calls'[d] = calls[d]
  <1> DEFINE p == calls[c]
             r == [kind |-> p.kind, stage |-> "done", id |-> g, by |-> p.by, answer |-> q]
  <1>1. calls \in [Calls -> G!Call] /\ p \in G!Call
    BY DEF AllListed, CallsTyped
  <1>2. calls' = [calls EXCEPT ![c] = [p EXCEPT !.stage = "done", !.id = g, !.answer = q]]
    BY <1>1 DEF G!Done
  <1>3. [p EXCEPT !.stage = "done", !.id = g, !.answer = q] = r
    <2>1. p = [kind |-> p.kind, stage |-> p.stage, id |-> p.id, by |-> p.by, answer |-> p.answer]
      BY <1>1 DEF G!Call
    <2> DEFINE p1 == [p EXCEPT !.stage = "done"]
               p2 == [p1 EXCEPT !.id = g]
    <2>2. p1 = [kind |-> p.kind, stage |-> "done", id |-> p.id, by |-> p.by, answer |-> p.answer]
      BY <2>1
    <2> HIDE DEF p1
    <2>3. p2 = [kind |-> p.kind, stage |-> "done", id |-> g, by |-> p.by, answer |-> p.answer]
      BY <2>2
    <2> HIDE DEF p2
    <2>4. [p2 EXCEPT !.answer = q] = r
      BY <2>3
    <2> QED BY <2>4, Zenon DEF p1, p2
  <1>4. ProperCall(r) /\ r.kind = p.kind /\ r.stage = "done" /\ r.answer = q
    BY <1>1 DEF ProperCall, GroupList, G!Call
  <1>5. calls' = [calls EXCEPT ![c] = r]
    BY <1>2, <1>3
  <1> HIDE DEF r
  <1>6. /\ CallsTyped' /\ calls'[c] = r
        /\ \A d \in Calls \ {c} : calls'[d] = calls[d]
    BY <1>4, <1>5, ReplaceCall DEF AllListed
  <1> QED BY <1>4, <1>6

LEMMA OneRow ==
  ASSUME NEW e \in G!Entry
  PROVE  GroupList(<<e>>) /\ Len(<<e>>) = 1
  BY DEF GroupList, OneEach

LEMMA ReadableGroups == G!Readable \subseteq Groups /\ G!Mine \subseteq Groups
  BY DEF G!Readable, G!Mine

LEMMA ServeListsListed ==
  ASSUME AllListed, NEW c \in Calls, G!ServeLists(c)
  PROVE  /\ CallsTyped' /\ UNCHANGED group
         /\ calls[c].kind \in {"all", "my"}
         /\ calls'[c].kind = calls[c].kind /\ calls'[c].stage = "done"
         /\ calls[c].kind = "all" => G!Shown(calls'[c].answer) = {G!EntryOf(g) : g \in G!Readable}
         /\ calls[c].kind = "my" => G!Shown(calls'[c].answer) = {G!EntryOf(g) : g \in G!Mine}
         /\ \A d \in Calls \ {c} : calls'[d] = calls[d]
  <1>0. group \in [Groups -> Row] /\ UNCHANGED group
    BY DEF AllListed, G!ServeLists
  <1>1. PICK S \in SUBSET Groups :
          /\ \/ calls[c].kind = "all" /\ S = G!Readable
             \/ calls[c].kind = "my" /\ S = G!Mine
          /\ \E q \in G!SetToSeqs({G!EntryOf(g) : g \in S}) : G!Done(c, NoGroup, q)
    BY ReadableGroups DEF G!ServeLists, G!Sent
  <1>2. PICK q \in G!SetToSeqs({G!EntryOf(g) : g \in S}) : G!Done(c, NoGroup, q)
    BY <1>1
  <1>3. GroupList(q) /\ G!Shown(q) = {G!EntryOf(g) : g \in S}
    BY <1>0, RowsInOrder
  <1>4. calls[c].kind \in {"all", "my"}
    BY <1>1
  <1>5. /\ CallsTyped'
        /\ calls'[c].kind = calls[c].kind /\ calls'[c].stage = "done" /\ calls'[c].answer = q
        /\ \A d \in Calls \ {c} : calls'[d] = calls[d]
    BY <1>2, <1>3, <1>4, DoneListed
  <1> QED BY <1>0, <1>1, <1>3, <1>4, <1>5

LEMMA ServeRow ==
  ASSUME AllListed, NEW g \in Groups, NEW a \in {"mine", "public", "hidden", "gone"}
  PROVE  /\ [group EXCEPT ![g] = [at |-> a, rev |-> groupClicks]] \in [Groups -> Row]
         /\ [group EXCEPT ![g].at = a] \in [Groups -> Row]
  <1>1. group \in [Groups -> Row] /\ groupClicks \in 0 .. GroupClicks
    BY DEF AllListed
  <1>2. [at |-> a, rev |-> groupClicks] \in Row /\ [group[g] EXCEPT !.at = a] \in Row
    BY <1>1 DEF Row, G!Standing
  <1> QED BY <1>1, <1>2

LEMMA ServeListed ==
  ASSUME AllListed, NEW c \in Calls, G!Serve(c)
  PROVE  /\ StepListed
         /\ calls'[c].kind = calls[c].kind
         /\ \A d \in Calls \ {c} : calls'[d] = calls[d]
  <1> DEFINE k == calls[c].kind
             x == calls[c].id
  <1>0. UNCHANGED <<allGroups, myGroups, doubtful, groupClicks>>
    BY DEF G!Serve
  <1>1. CASE G!ServeLists(c)
    <2>1. /\ CallsTyped' /\ UNCHANGED group /\ calls'[c].kind = calls[c].kind
          /\ \A d \in Calls \ {c} : calls'[d] = calls[d]
      BY <1>1, ServeListsListed
    <2> QED BY <1>0, <2>1 DEF StepListed, AllListed
  <1>2. /\ ~ G!ServeLists(c) => k \in {"create", "update", "get", "sync", "delete"}
        /\ k \in {"update", "get", "sync", "delete"} => x \in Groups
        /\ group \in [Groups -> Row]
    BY DEF G!Serve, G!ServeCreate, G!ServeUpdate, G!ServeGet, G!ServeSync, G!ServeDelete, G!Sent,
       AllListed, CallsTyped, ProperCall
  <1>3. CASE G!ServeGet(c)
    <2>1. /\ G!Done(c, x, <<G!EntryOf(x)>>) /\ UNCHANGED group /\ k = "get"
      BY <1>3 DEF G!ServeGet, G!Sent
    <2>2. G!EntryOf(x) \in G!Entry
      BY <1>2, <2>1 DEF G!EntryOf, G!Entry, Row
    <2>3. /\ CallsTyped' /\ calls'[c].kind = k
          /\ \A d \in Calls \ {c} : calls'[d] = calls[d]
      BY <1>2, <2>1, <2>2, OneRow, DoneListed
    <2> QED BY <1>0, <2>1, <2>3 DEF StepListed, AllListed
  <1>4. CASE G!ServeCreate(c) \/ G!ServeUpdate(c) \/ G!ServeSync(c) \/ G!ServeDelete(c)
    <2>1. PICK g \in Groups : G!Done(c, g, <<>>) /\ k # "get"
      BY <1>2, <1>4 DEF G!ServeCreate, G!ServeUpdate, G!ServeSync, G!ServeDelete, G!Sent
    <2>2. /\ CallsTyped' /\ calls'[c].kind = k
          /\ \A d \in Calls \ {c} : calls'[d] = calls[d]
      BY <2>1, EmptyList, DoneListed
    <2>3. group' \in [Groups -> Row]
      <3>1. CASE G!ServeCreate(c)
        <4>1. PICK new \in Groups : group' = [group EXCEPT ![new] = [at |-> "mine", rev |-> groupClicks]]
          BY <3>1 DEF G!ServeCreate
        <4> QED BY <4>1, ServeRow
      <3>2. CASE G!ServeUpdate(c)
        <4>1. x \in Groups
          BY <1>2, <3>2 DEF G!ServeUpdate, G!Sent
        <4>2. PICK a \in {"mine", "public", "hidden"} :
                group' = [group EXCEPT ![x] = [at |-> a, rev |-> groupClicks]]
          BY <3>2 DEF G!ServeUpdate
        <4> QED BY <4>1, <4>2, ServeRow
      <3>3. CASE G!ServeDelete(c)
        <4>1. x \in Groups
          BY <1>2, <3>3 DEF G!ServeDelete, G!Sent
        <4>2. group' = [group EXCEPT ![x].at = "gone"]
          BY <3>3 DEF G!ServeDelete
        <4> QED BY <4>1, <4>2, ServeRow
      <3>4. CASE G!ServeSync(c)
        <4>1. x \in Groups
          BY <1>2, <3>4 DEF G!ServeSync, G!Sent
        <4>2. PICK a \in {"mine", "public", "hidden", group[x].at} : group' = [group EXCEPT ![x].at = a]
          BY <3>4 DEF G!ServeSync
        <4>3. [group[x] EXCEPT !.at = a] \in Row
          BY <1>2, <4>1, <4>2 DEF Row, G!Standing
        <4> QED BY <1>2, <4>1, <4>2, <4>3
      <3> QED BY <1>4, <3>1, <3>2, <3>3, <3>4
    <2> QED BY <1>0, <2>2, <2>3 DEF StepListed, AllListed
  <1> QED BY <1>1, <1>3, <1>4 DEF G!Serve

LEMMA LandListed ==
  ASSUME AllListed, NEW c \in Calls, G!Land(c)
  PROVE  StepListed
  <1> DEFINE p == calls[c]
  <1>0. /\ group \in [Groups -> Row] /\ GroupList(allGroups) /\ GroupList(myGroups)
        /\ CallsTyped /\ doubtful \in BOOLEAN /\ p \in G!Call /\ ProperCall(p)
        /\ p.by \in {"create", "update"} /\ UNCHANGED group
    BY DEF AllListed, CallsTyped, G!Call, G!Land, G!LandFailure, G!LandSaved, G!LandGet, G!LandSync,
       G!LandAll, G!LandMy, G!LandDelete
  <1>1. CallsTyped'
    <2>1. CASE G!LandSync(c)
      <3>1. PICK d \in Calls : calls[d] = G!Idle /\ calls' = G!Fetched(c, d) /\ G!Answered(c, "sync")
        BY <2>1 DEF G!LandSync
      <3>2. d # c
        BY <3>1, GroupAskProper DEF G!Answered
      <3> QED BY <1>0, <3>1, <3>2, FetchedCalls
    <2>2. CASE ~ G!LandSync(c)
      <3>1. PICK r : ProperCall(r) /\ G!Follow(c, r)
        <4>1. CASE G!LandSaved(c)
          BY <1>0, <4>1, GroupAskProper DEF G!LandSaved, G!Answered, ProperCall
        <4>2. CASE G!LandGet(c)
          BY <1>0, <4>2, GroupAskProper DEF G!LandGet, G!Answered, ProperCall
        <4>3. CASE G!LandFailure(c) \/ G!LandAll(c) \/ G!LandMy(c) \/ G!LandDelete(c)
          BY <4>3, GroupAskProper DEF G!LandFailure, G!LandAll, G!LandMy, G!LandDelete
        <4> QED BY <2>2, <4>1, <4>2, <4>3 DEF G!Land
      <3> QED BY <1>0, <3>1, ReplaceCall DEF G!Follow
    <2> QED BY <2>1, <2>2
  <1>2. GroupList(allGroups') /\ GroupList(myGroups')
    <2>1. CASE G!LandGet(c)
      <3>1. p.answer[1] \in G!Entry
        BY <1>0, <2>1 DEF G!LandGet, G!Answered, ProperCall, GroupList
      <3> QED BY <1>0, <2>1, <3>1, UpdatedList DEF G!LandGet
    <2>2. CASE G!LandAll(c) \/ G!LandMy(c)
      BY <1>0, <2>2 DEF G!LandAll, G!LandMy, ProperCall
    <2>3. CASE G!LandDelete(c)
      BY <1>0, <2>3, ShorterList DEF G!LandDelete
    <2>4. CASE UNCHANGED <<allGroups, myGroups>>
      BY <1>0, <2>4
    <2> QED BY <2>1, <2>2, <2>3, <2>4 DEF G!Land, G!LandFailure, G!LandSaved, G!LandSync
  <1>3. doubtful' \in BOOLEAN
    BY <1>0 DEF G!Land, G!LandFailure, G!LandSaved, G!LandGet, G!LandSync, G!LandAll, G!LandMy,
       G!LandDelete
  <1> QED BY <1>0, <1>1, <1>2, <1>3 DEF StepListed

LEMMA StepsListed ==
  ASSUME AllListed, [G!Next]_(G!vars)
  PROVE  AllListed'
  <1>1. CASE G!Next
    <2>1. StepListed
      BY <1>1, ClickListed, ServeListed, LandListed DEF G!Next
    <2>2. groupClicks' \in 0 .. GroupClicks
      BY <1>1, Assumed DEF AllListed, G!Next, G!Click, G!Serve, G!Land
    <2> QED BY <2>1, <2>2 DEF StepListed, AllListed
  <1>2. CASE UNCHANGED G!vars
    BY <1>2 DEF G!vars, AllListed, CallsTyped
  <1> QED BY <1>1, <1>2

LEMMA ListedHolds == G!Spec => []AllListed
  BY InitListed, StepsListed, PTL DEF G!Spec

LEMMA IdsCount ==
  ASSUME NEW list, GroupList(list)
  PROVE  G!Cardinality(G!IdsIn(list)) = Len(list)
  <1> DEFINE q == [i \in 1 .. Len(list) |-> list[i].id]
  <1>1. list \in Seq(G!Entry) /\ OneEach(list) /\ Len(list) \in Nat /\ DOMAIN list = 1 .. Len(list)
    BY DEF GroupList
  <1>2. q \in Seq(Groups) /\ Len(q) = Len(list)
    <2>1. \A i \in 1 .. Len(list) : list[i] \in G!Entry
      BY <1>1
    <2>2. \A i \in 1 .. Len(list) : list[i].id \in Groups
      BY <2>1 DEF G!Entry
    <2>3. q \in [1 .. Len(list) -> Groups]
      BY <2>2
    <2> HIDE DEF q
    <2> QED BY <1>1, <2>3
  <1>3. Distinct(q) /\ Members(q) = G!IdsIn(list)
    BY <1>1, <1>2 DEF Distinct, OneEach, Members, G!IdsIn
  <1> HIDE DEF q
  <1> QED BY <1>2, <1>3, DistinctCount, SameCardinality

\* The groups' variables have their types and a group is listed once in each list,
\* whatever else is in flight when one is looked up and added (groups.ts).
THEOREM GroupsTypeCorrect == G!Spec => []GroupsTyped
  <1>1. AllListed => GroupsTyped
    <2> SUFFICES ASSUME AllListed PROVE GroupsTyped
      OBVIOUS
    <2>1. \A list \in {allGroups, myGroups} :
            list \in Seq(G!Entry) /\ G!Cardinality(G!IdsIn(list)) = Len(list)
      BY IdsCount DEF AllListed, GroupList
    <2> QED BY <2>1 DEF GroupsTyped, G!TypeOK, AllListed, CallsTyped, Row
  <1> QED BY <1>1, ListedHolds, PTL

-----------------------------------------------------------------------------
(* While nothing has made the lists doubtful, one save is alone, or a fetch  *)
(* is on its way whose answers, with the lists that no answer will replace,  *)
(* are what there is.                                                        *)

ReadableEntries == {G!EntryOf(g) : g \in G!Readable}
MyEntries       == {G!EntryOf(g) : g \in G!Mine}

SaveAlone ==
  \E c \in Calls :
    /\ calls[c].kind \in {"create", "update", "get", "sync"}
    /\ \A d \in Calls \ {c} : calls[d] = G!Idle

Fetching ==
  /\ \A c \in Calls :
       /\ calls[c].kind \in {"idle", "all", "my"}
       /\ G!Answered(c, "all") => G!Shown(calls[c].answer) = ReadableEntries
       /\ G!Answered(c, "my")  => G!Shown(calls[c].answer) = MyEntries
  /\ (\E c \in Calls : calls[c].kind = "all") \/ G!Shown(allGroups) = ReadableEntries
  /\ (\E c \in Calls : calls[c].kind = "my")  \/ G!Shown(myGroups) = MyEntries

GroupInv == ~ doubtful => SaveAlone \/ Fetching

LEMMA SameEntries ==
  ASSUME UNCHANGED group
  PROVE  ReadableEntries' = ReadableEntries /\ MyEntries' = MyEntries
  BY DEF ReadableEntries, MyEntries, G!EntryOf, G!Readable, G!Mine

\* What begins when nothing is in flight.
LEMMA ClickGroups ==
  ASSUME AllListed, G!Click
  PROVE  GroupInv'
  <1>0. CallsTyped
    BY DEF AllListed
  <1>1. CASE G!FetchGroupData
    <2>1. PICK c \in Calls, d \in Calls : c # d /\ calls' = G!Fetched(c, d)
      BY <1>1 DEF G!FetchGroupData
    <2>2. /\ calls'[c].kind = "all" /\ calls'[c].stage = "sent"
          /\ calls'[d].kind = "my"  /\ calls'[d].stage = "sent"
          /\ \A b \in Calls \ {c, d} : calls'[b] = calls[b]
      BY <1>0, <2>1, FetchedCalls
    <2>3. ASSUME ~ doubtful' PROVE Fetching'
      <3>1. \A b \in Calls : calls[b] = G!Idle
        BY <1>1, <2>3 DEF G!FetchGroupData, G!Alone, G!Quiet
      <3>2. \A b \in Calls : calls'[b].kind \in {"idle", "all", "my"}
              /\ (calls'[b].kind # "idle" => calls'[b].stage = "sent")
        <4> TAKE b \in Calls
        <4>1. CASE b \in {c, d}
          BY <2>2, <4>1
        <4>2. CASE b \notin {c, d}
          BY <2>2, <3>1, <4>2, GroupAskProper
        <4> QED BY <4>1, <4>2
      <3> QED BY <2>2, <3>2 DEF Fetching, G!Answered
    <2> QED BY <2>3 DEF GroupInv
  <1>2. CASE G!Elsewhere
    BY <1>2 DEF G!Elsewhere, GroupInv
  <1>3. ASSUME NEW c \in Calls, G!DeleteGroup(c) PROVE GroupInv'
    BY <1>3 DEF G!DeleteGroup, GroupInv
  <1>4. ASSUME NEW c \in Calls, G!Save(c) PROVE GroupInv'
    <2>1. G!IdsIn(myGroups) \cup (IF Admin THEN G!IdsIn(allGroups) ELSE {}) \subseteq Groups
      BY ListIds, Assumed DEF AllListed
    <2>2. PICK r : /\ ProperCall(r) /\ r.kind \in {"create", "update"}
                   /\ calls' = [calls EXCEPT ![c] = r]
      BY <1>4, <2>1, GroupAskProper DEF G!Save, G!Begin
    <2>3. calls'[c] = r /\ \A d \in Calls \ {c} : calls'[d] = calls[d]
      BY <1>0, <2>2, ReplaceCall
    <2>4. ~ doubtful' => \A d \in Calls : calls[d] = G!Idle
      BY <1>4 DEF G!Save, G!Alone, G!Quiet
    <2> QED BY <2>2, <2>3, <2>4 DEF GroupInv, SaveAlone, G!Idle, G!Ask
  <1> QED BY <1>1, <1>2, <1>3, <1>4 DEF G!Click

LEMMA ServeGroups ==
  ASSUME AllListed, GroupInv, NEW c \in Calls, G!Serve(c)
  PROVE  GroupInv'
  <1>1. /\ calls'[c].kind = calls[c].kind
        /\ \A d \in Calls \ {c} : calls'[d] = calls[d]
        /\ UNCHANGED <<allGroups, myGroups, doubtful>>
    BY ServeListed DEF G!Serve
  <1>2. calls[c].kind # "idle" /\ G!Idle.kind = "idle"
    BY GroupAskProper DEF G!Serve, G!ServeCreate, G!ServeUpdate, G!ServeGet, G!ServeSync, G!ServeDelete,
       G!ServeLists, G!Sent
  <1>3. ASSUME SaveAlone PROVE SaveAlone'
    <2>1. PICK d \in Calls : /\ calls[d].kind \in {"create", "update", "get", "sync"}
                             /\ \A b \in Calls \ {d} : calls[b] = G!Idle
      BY <1>3 DEF SaveAlone
    <2>2. d = c
      BY <1>2, <2>1
    <2>3. /\ calls'[c].kind \in {"create", "update", "get", "sync"}
          /\ \A b \in Calls \ {c} : calls'[b] = G!Idle
      BY <1>1, <2>1, <2>2
    <2>4. G!Idle' = G!Idle
      BY DEF G!Idle, G!Ask
    <2> QED BY <2>3, <2>4 DEF SaveAlone
  <1>4. ASSUME Fetching PROVE Fetching'
    <2>1. G!ServeLists(c)
      BY <1>4 DEF Fetching, G!Serve, G!ServeCreate, G!ServeUpdate, G!ServeGet, G!ServeSync,
         G!ServeDelete, G!Sent
    <2>2. /\ UNCHANGED group
          /\ calls[c].kind = "all" => G!Shown(calls'[c].answer) = ReadableEntries
          /\ calls[c].kind = "my" => G!Shown(calls'[c].answer) = MyEntries
      BY <2>1, ServeListsListed DEF ReadableEntries, MyEntries
    <2>3. ReadableEntries' = ReadableEntries /\ MyEntries' = MyEntries
      BY <2>2, SameEntries
    <2>4. \A d \in Calls :
            /\ calls'[d].kind \in {"idle", "all", "my"}
            /\ calls'[d].kind = "all" /\ calls'[d].stage = "done"
                 => G!Shown(calls'[d].answer) = ReadableEntries
            /\ calls'[d].kind = "my" /\ calls'[d].stage = "done"
                 => G!Shown(calls'[d].answer) = MyEntries
      <3> TAKE d \in Calls
      <3>1. CASE d = c
        BY <1>1, <1>4, <2>2, <3>1 DEF Fetching
      <3>2. CASE d # c
        <4>1. calls'[d] = calls[d]
          BY <1>1, <3>2
        <4> QED BY <1>4, <4>1 DEF Fetching, G!Answered
      <3> QED BY <3>1, <3>2
    <2>5. \A d \in Calls : calls'[d].kind = calls[d].kind
      BY <1>1
    <2>6. /\ (\E d \in Calls : calls'[d].kind = "all") \/ G!Shown(allGroups) = ReadableEntries
          /\ (\E d \in Calls : calls'[d].kind = "my") \/ G!Shown(myGroups) = MyEntries
      BY <1>4, <2>5 DEF Fetching
    <2>7. G!Shown(allGroups)' = G!Shown(allGroups) /\ G!Shown(myGroups)' = G!Shown(myGroups)
      BY <1>1 DEF G!Shown
    <2>8. \A d \in Calls :
            /\ calls'[d].kind \in {"idle", "all", "my"}
            /\ (G!Answered(d, "all") => G!Shown(calls[d].answer) = ReadableEntries)'
            /\ (G!Answered(d, "my") => G!Shown(calls[d].answer) = MyEntries)'
      BY <2>3, <2>4 DEF G!Answered, G!Shown
    <2> QED BY <2>3, <2>6, <2>7, <2>8 DEF Fetching
  <1> QED BY <1>1, <1>3, <1>4 DEF GroupInv

\* The answers of a save follow one another; the answers of a fetch are the lists.
LEMMA LandGroups ==
  ASSUME AllListed, GroupInv, NEW c \in Calls, G!Land(c)
  PROVE  GroupInv'
  <1>0. /\ CallsTyped /\ UNCHANGED group /\ ReadableEntries' = ReadableEntries /\ MyEntries' = MyEntries
        /\ calls[c] \in G!Call /\ ProperCall(calls[c]) /\ calls[c].by \in {"create", "update"}
    <2>1. UNCHANGED group
      BY DEF G!Land, G!LandFailure, G!LandSaved, G!LandGet, G!LandSync, G!LandAll, G!LandMy, G!LandDelete
    <2>2. CallsTyped /\ calls[c] \in G!Call /\ ProperCall(calls[c]) /\ calls[c].by \in {"create", "update"}
      BY DEF AllListed, CallsTyped, G!Call
    <2> QED BY <2>1, <2>2, SameEntries
  <1>1. CASE G!LandFailure(c)
    BY <1>1 DEF G!LandFailure, GroupInv
  <1>2. SUFFICES ASSUME ~ G!LandFailure(c), ~ doubtful, ~ doubtful' PROVE SaveAlone' \/ Fetching'
    <2>1. ~ G!LandFailure(c) => UNCHANGED doubtful
      BY DEF G!Land, G!LandSaved, G!LandGet, G!LandSync, G!LandAll, G!LandMy, G!LandDelete
    <2> QED BY <1>1, <2>1 DEF GroupInv
  <1>3. CASE SaveAlone
    <2>1. PICK d \in Calls : /\ calls[d].kind \in {"create", "update", "get", "sync"}
                             /\ \A b \in Calls \ {d} : calls[b] = G!Idle
      BY <1>3 DEF SaveAlone
    <2>2. d = c
      BY <1>2, <2>1, GroupAskProper
         DEF G!Land, G!LandSaved, G!LandGet, G!LandSync, G!LandAll, G!LandMy, G!LandDelete, G!Answered
    <2>3. CASE G!LandSync(c)
      <3>1. PICK a \in Calls : calls[a] = G!Idle /\ calls' = G!Fetched(c, a) /\ G!Answered(c, "sync")
        BY <2>3 DEF G!LandSync
      <3>2. a # c
        BY <3>1, GroupAskProper DEF G!Answered
      <3>3. /\ calls'[c].kind = "all" /\ calls'[c].stage = "sent"
            /\ calls'[a].kind = "my"  /\ calls'[a].stage = "sent"
            /\ \A b \in Calls \ {c, a} : calls'[b] = calls[b]
        BY <1>0, <3>1, <3>2, FetchedCalls
      <3>4. \A b \in Calls : calls'[b].kind \in {"idle", "all", "my"}
              /\ (calls'[b].kind # "idle" => calls'[b].stage = "sent")
        <4> TAKE b \in Calls
        <4>1. CASE b \in {c, a}
          BY <3>3, <4>1
        <4>2. CASE b \notin {c, a}
          BY <2>1, <2>2, <3>3, <4>2, GroupAskProper
        <4> QED BY <4>1, <4>2
      <3> QED BY <3>3, <3>4 DEF Fetching, G!Answered
    <2>4. CASE G!LandSaved(c) \/ G!LandGet(c)
      <3>1. PICK r : /\ ProperCall(r) /\ r.kind \in {"get", "sync"}
                     /\ calls' = [calls EXCEPT ![c] = r]
        <4>1. CASE G!LandSaved(c)
          <5>1. /\ calls[c].id \in Groups
                /\ calls' = [calls EXCEPT ![c] = G!Ask("get", calls[c].id, calls[c].by)]
            BY <1>0, <4>1 DEF G!LandSaved, G!Answered, ProperCall, G!Follow
          <5> QED BY <1>0, <5>1, GroupAskProper
        <4>2. CASE G!LandGet(c)
          <5>1. /\ calls[c].id \in Groups
                /\ calls' = [calls EXCEPT ![c] = G!Ask("sync", calls[c].id, calls[c].by)]
            BY <1>0, <4>2 DEF G!LandGet, G!Answered, ProperCall, G!Follow
          <5> QED BY <1>0, <5>1, GroupAskProper
        <4> QED BY <2>4, <4>1, <4>2
      <3>2. calls'[c] = r /\ \A b \in Calls \ {c} : calls'[b] = calls[b]
        BY <1>0, <3>1, ReplaceCall
      <3>3. /\ calls'[c].kind \in {"create", "update", "get", "sync"}
            /\ \A b \in Calls \ {c} : calls'[b] = G!Idle
        BY <2>1, <2>2, <3>1, <3>2
      <3> QED BY <3>3 DEF SaveAlone, G!Idle, G!Ask
    <2>5. ~ (G!LandAll(c) \/ G!LandMy(c) \/ G!LandDelete(c))
      BY <2>1, <2>2 DEF G!LandAll, G!LandMy, G!LandDelete, G!Answered
    <2> QED BY <1>2, <2>3, <2>4, <2>5 DEF G!Land
  <1>4. CASE Fetching
    <2>1. calls[c].kind \in {"idle", "all", "my"}
      BY <1>4 DEF Fetching
    <2>2. G!LandAll(c) \/ G!LandMy(c)
      BY <1>2, <2>1 DEF G!Land, G!LandSaved, G!LandGet, G!LandSync, G!LandDelete, G!Answered
    <2>3. calls' = [calls EXCEPT ![c] = G!Idle]
      BY <2>2 DEF G!LandAll, G!LandMy, G!Follow
    <2>4. calls'[c].kind = "idle" /\ \A b \in Calls \ {c} : calls'[b] = calls[b]
      <3>1. ProperCall(G!Idle) /\ G!Idle.kind = "idle"
        BY GroupAskProper
      <3> QED BY <1>0, <2>3, <3>1, ReplaceCall
    <2>5. \A d \in Calls :
            /\ calls'[d].kind \in {"idle", "all", "my"}
            /\ (G!Answered(d, "all") => G!Shown(calls[d].answer) = ReadableEntries)'
            /\ (G!Answered(d, "my") => G!Shown(calls[d].answer) = MyEntries)'
      <3> TAKE d \in Calls
      <3>1. CASE d = c
        BY <2>4, <3>1 DEF G!Answered
      <3>2. CASE d # c
        <4>1. calls'[d] = calls[d]
          BY <2>4, <3>2
        <4>2. /\ calls[d].kind \in {"idle", "all", "my"}
              /\ calls[d].kind = "all" /\ calls[d].stage = "done"
                   => G!Shown(calls[d].answer) = ReadableEntries
              /\ calls[d].kind = "my" /\ calls[d].stage = "done"
                   => G!Shown(calls[d].answer) = MyEntries
          BY <1>4 DEF Fetching, G!Answered
        <4>3. G!Shown(calls[d].answer)' = G!Shown(calls[d].answer)
          BY <4>1 DEF G!Shown
        <4> QED BY <1>0, <4>1, <4>2, <4>3 DEF G!Answered
      <3> QED BY <3>1, <3>2
    <2>6. CASE G!LandAll(c)
      <3>1. /\ allGroups' = calls[c].answer /\ myGroups' = myGroups
            /\ calls[c].kind = "all" /\ G!Answered(c, "all")
        BY <2>6 DEF G!LandAll, G!Answered
      <3>2. G!Shown(allGroups)' = ReadableEntries
        BY <1>4, <3>1 DEF Fetching, G!Shown
      <3>3. (\E d \in Calls : calls'[d].kind = "my") \/ G!Shown(myGroups)' = MyEntries
        <4>1. CASE \E d \in Calls : calls[d].kind = "my"
          <5>1. PICK d \in Calls : calls[d].kind = "my"
            BY <4>1
          <5>2. d # c
            BY <3>1, <5>1
          <5> QED BY <2>4, <5>1, <5>2
        <4>2. CASE G!Shown(myGroups) = MyEntries
          BY <3>1, <4>2 DEF G!Shown
        <4> QED BY <1>4, <4>1, <4>2 DEF Fetching
      <3> QED BY <1>0, <2>5, <3>2, <3>3 DEF Fetching
    <2>7. CASE G!LandMy(c)
      <3>1. /\ myGroups' = calls[c].answer /\ allGroups' = allGroups
            /\ calls[c].kind = "my" /\ G!Answered(c, "my")
        BY <2>7 DEF G!LandMy, G!Answered
      <3>2. G!Shown(myGroups)' = MyEntries
        BY <1>4, <3>1 DEF Fetching, G!Shown
      <3>3. (\E d \in Calls : calls'[d].kind = "all") \/ G!Shown(allGroups)' = ReadableEntries
        <4>1. CASE \E d \in Calls : calls[d].kind = "all"
          <5>1. PICK d \in Calls : calls[d].kind = "all"
            BY <4>1
          <5>2. d # c
            BY <3>1, <5>1
          <5> QED BY <2>4, <5>1, <5>2
        <4>2. CASE G!Shown(allGroups) = ReadableEntries
          BY <3>1, <4>2 DEF G!Shown
        <4> QED BY <1>4, <4>1, <4>2 DEF Fetching
      <3> QED BY <1>0, <2>5, <3>2, <3>3 DEF Fetching
    <2> QED BY <2>2, <2>6, <2>7
  <1> QED BY <1>2, <1>3, <1>4 DEF GroupInv

LEMMA StepsGroups ==
  ASSUME AllListed, GroupInv, [G!Next]_(G!vars)
  PROVE  GroupInv'
  <1>1. CASE G!Next
    BY <1>1, ClickGroups, ServeGroups, LandGroups DEF G!Next
  <1>2. CASE UNCHANGED G!vars
    <2>1. /\ UNCHANGED <<allGroups, myGroups, calls, doubtful>>
          /\ ReadableEntries' = ReadableEntries /\ MyEntries' = MyEntries
      BY <1>2, SameEntries DEF G!vars
    <2>2. SaveAlone' <=> SaveAlone
      BY <2>1 DEF SaveAlone, G!Idle, G!Ask
    <2>3. Fetching' <=> Fetching
      BY <2>1 DEF Fetching, G!Answered, G!Shown
    <2> QED BY <2>1, <2>2, <2>3 DEF GroupInv
  <1> QED BY <1>1, <1>2

\* A fetch, or a whole save with its change of the members, that nothing overlapped
\* or disturbed leaves both lists as the server has them (GroupModal.vue save).
THEOREM ListsAsServed == G!Spec => []ListsRight
  <1>1. G!Init => GroupInv
    BY DEF G!Init, GroupInv
  <1>2. AllListed /\ GroupInv => ListsRight
    <2> SUFFICES ASSUME GroupInv, G!Quiet, ~ doubtful
                 PROVE  /\ G!Shown(allGroups) = ReadableEntries
                        /\ G!Shown(myGroups) = MyEntries
      BY DEF ListsRight, G!ListsRight, ReadableEntries, MyEntries
    <2>1. \A c \in Calls : calls[c].kind = "idle"
      BY GroupAskProper DEF G!Quiet
    <2> QED BY <2>1 DEF GroupInv, SaveAlone, Fetching
  <1> QED BY <1>1, <1>2, StepsGroups, ListedHolds, PTL DEF G!Spec

\* A browser's steps are steps of one of its stores that leave the other alone, so
\* what holds of the files and of the groups holds in every browser.
THEOREM BrowserStores == Browser => Spec /\ G!Spec
  <1>1. BrowserInit => Init /\ G!Init
    BY DEF BrowserInit
  <1>2. [BrowserNext]_<<vars, groupVars, focus>> => [Next]_vars /\ [G!Next]_(G!vars)
    BY DEF BrowserNext, groupVars, G!vars
  <1> QED BY <1>1, <1>2, PTL DEF Browser, Spec, G!Spec

=============================================================================
