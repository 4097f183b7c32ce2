------------------------------- MODULE Files -------------------------------
(***************************************************************************)
(* The files a browser has open and the evaluations it knows of            *)
(* (apps/frontend/src/store: report_intake, data_store, evaluations and    *)
(* the selection of data_filters; the views that call them).               *)
(*                                                                         *)
(* An action is what runs without waiting: a click, or the answer to one   *)
(* request with everything the code does before it waits again.  Requests  *)
(* are answered by the backend at one moment and land in the store at a    *)
(* later one, or fail before or after the backend has done what they ask.  *)
(*                                                                         *)
(* load_results of several ids behaves like several loads in a row: it     *)
(* compares the ids with the files once, before the first answer.          *)
(***************************************************************************)
EXTENDS Naturals, Sequences, FiniteSets

CONSTANTS
  Evals,      \* the ids of the Evaluations table
  NoEval,     \* database_id of a file that is not in the database
  Slots,      \* the requests that may be in flight at once
  Contents,   \* what the data column of each evaluation holds
  Uploaded,   \* the evaluations in the database at first
  Opened,     \* what the files hold that users open
  MaxFiles,   \* bound on the files of a behaviour
  MaxClicks,  \* bound on the clicks of a behaviour
  Parts       \* how many evaluations a foreign file is converted into

Data == {"execution", "profile", "foreign", "unreadable"}

ASSUME EvalsAssumption    == NoEval \notin Evals
ASSUME SlotsAssumption    == IsFiniteSet(Slots)
ASSUME ContentsAssumption == Contents \in [Evals -> Data]
ASSUME UploadedAssumption == Uploaded \subseteq Evals /\ Opened \subseteq Data
ASSUME BoundsAssumption   == MaxFiles \in Nat /\ MaxClicks \in Nat /\ Parts \in Nat \ {0}

VARIABLES
  row,                    \* the Evaluations table: new, stored or gone
  files,                  \* the open files, by uniqueId
  nextFile,               \* the next uuid()
  selectedEvaluationIds,  \* the selected evaluation files
  selectedProfileIds,     \* the selected profile files
  allEvaluations,         \* the ids of allEvaluations, in order
  pagedEvaluations,       \* the ids of pagedEvaluations
  same,                   \* those whose entries in both lists are one object
  dialog,                 \* the dialog that deletes evaluations, and its activeItem
  requests,               \* the requests in flight
  overlapped,             \* the evaluations loaded while they were on their way
  clicks                  \* the number of clicks so far

store == <<files, nextFile, selectedEvaluationIds, selectedProfileIds>>
lists == <<allEvaluations, pagedEvaluations, same, dialog>>
vars  == <<row, store, lists, requests, overlapped, clicks>>

-----------------------------------------------------------------------------
FileIds == 1 .. MaxFiles
File    == [kind : {"evaluation", "profile"}, db : Evals \cup {NoEval}]

stored == {e \in Evals : row[e] = "stored"}

OfKind(k)  == {f \in DOMAIN files : files[f].kind = k}
FilesOf(e) == {f \in DOMAIN files : files[f].db = e}

\* The getters allEvaluationFiles, allProfileFiles and loadedDatabaseIds.
EvaluationFiles   == OfKind("evaluation")
ProfileFiles      == OfKind("profile")
loadedDatabaseIds == {files[f].db : f \in DOMAIN files} \ {NoEval}

\* The getters all_evaluations_selected and all_profiles_selected: by length.
Trinary(chosen, all) ==
  CASE Cardinality(chosen) = 0                                -> "Off"
    [] Cardinality(chosen) = Cardinality(all) /\ chosen # {} -> "On"
    [] OTHER                                                  -> "Mixed"

\* A request, what it is about, and the list it was answered with.
Request == [kind : {"idle", "load", "refresh", "update", "list", "delete", "save"},
            stage : {"sent", "done"}, eval : Evals \cup {NoEval},
            file : FileIds \cup {0}, data : Data \cup {"none"}, page : SUBSET Evals]
Sent(k, e, f, d) == [kind |-> k, stage |-> "sent", eval |-> e, file |-> f, data |-> d, page |-> {}]
Ask(k, e) == Sent(k, e, 0, "none")
Idle == Ask("idle", NoEval)

\* activeItem is the object of allEvaluations, or another one; it outlives the dialog.
Dialog == [open : {"no", "yes"}, eval : Evals \cup {NoEval}, item : {"same", "other"}]
Active(o, e) == [open |-> o, eval |-> e, item |-> IF e \in same THEN "same" ELSE "other"]

Init ==
  /\ row = [e \in Evals |-> IF e \in Uploaded THEN "stored" ELSE "new"]
  /\ files = [f \in {} |-> NoEval] /\ nextFile = 1
  /\ selectedEvaluationIds = {} /\ selectedProfileIds = {}
  /\ allEvaluations = <<>> /\ pagedEvaluations = {} /\ same = {}
  /\ dialog = [open |-> "no", eval |-> NoEval, item |-> "other"]
  /\ requests = [s \in Slots |-> Idle]
  /\ overlapped = {}
  /\ clicks = 0

-----------------------------------------------------------------------------
(* The intake: loadFile, loadText and loadExecJson. *)

\* toggle_evaluation or toggle_profile of each of the files fs.
Toggled(chosen, fs) == (chosen \ fs) \cup (fs \ chosen)

\* A slip: an id counted from the files that are open.
AddNumbered(k, n, db) ==
  LET new == Cardinality(DOMAIN files) + 1 .. Cardinality(DOMAIN files) + n IN
  /\ files' = [f \in DOMAIN files \cup new |->
                 IF f \in new THEN [kind |-> k, db |-> db] ELSE files[f]]
  /\ nextFile' = nextFile + n
  /\ selectedEvaluationIds' = IF k = "evaluation" THEN selectedEvaluationIds \cup new
                                                  ELSE selectedEvaluationIds
  /\ selectedProfileIds' = IF k = "profile" THEN selectedProfileIds \cup new
                                            ELSE selectedProfileIds

\* n new files of one kind, each toggled as it is added.
Add(k, n, db) ==
  LET new == nextFile .. nextFile + n - 1 IN
  /\ files' = [f \in DOMAIN files \cup new |->
                 IF f \in new THEN [kind |-> k, db |-> db] ELSE files[f]]
  /\ nextFile' = nextFile + n
  /\ selectedEvaluationIds' = IF k = "evaluation" THEN Toggled(selectedEvaluationIds, new)
                                                  ELSE selectedEvaluationIds
  /\ selectedProfileIds' = IF k = "profile" THEN Toggled(selectedProfileIds, new)
                                            ELSE selectedProfileIds

\* Only loadText of an execution passes the database_id on.
Intake(data, db) ==
  \/ data = "execution"  /\ Add("evaluation", 1, db)
  \/ data = "profile"    /\ Add("profile", 1, NoEval)
  \/ data = "foreign"    /\ Add("evaluation", Parts, NoEval)
  \/ data = "unreadable" /\ UNCHANGED store

\* Room for what the loads in flight and one more intake add (a bound).
Room == nextFile + Parts * (1 + Cardinality({s \in Slots : requests[s].kind = "load"}))
          <= MaxFiles + 1

\* A file from the disk, a sample or another server.
Open ==
  /\ Room
  /\ \E d \in Opened : Intake(d, NoEval)
  /\ UNCHANGED <<row, lists, requests, overlapped>>

-----------------------------------------------------------------------------
(* The selection. *)

Choose(chosenEvaluations, chosenProfiles) ==
  /\ selectedEvaluationIds' = chosenEvaluations
  /\ selectedProfileIds' = chosenProfiles
  /\ UNCHANGED <<row, files, nextFile, lists, requests, overlapped>>

ToggleFile ==
  \/ \E f \in EvaluationFiles :
       Choose(Toggled(selectedEvaluationIds, {f}), selectedProfileIds)
  \/ \E f \in ProfileFiles :
       Choose(selectedEvaluationIds, Toggled(selectedProfileIds, {f}))

SelectExclusive ==
  \/ \E f \in EvaluationFiles : Choose({f}, selectedProfileIds)
  \/ \E f \in ProfileFiles : Choose(selectedEvaluationIds, {f})

\* A slip: files of both kinds are selected.
AllFilesOrNone(chosen, all) ==
  IF Trinary(chosen, all) = "On" THEN {} ELSE chosen \cup DOMAIN files

\* The buttons that select everything clear the selection when all are selected.
AllOrNone(chosen, all) == IF Trinary(chosen, all) = "On" THEN {} ELSE all \cup chosen

ToggleAll ==
  \/ Choose(AllOrNone(selectedEvaluationIds, EvaluationFiles), selectedProfileIds)
  \/ Choose(selectedEvaluationIds, AllOrNone(selectedProfileIds, ProfileFiles))

-----------------------------------------------------------------------------
(* The lists of evaluations. *)

Entries == {allEvaluations[i] : i \in 1 .. Len(allEvaluations)}

Position(e) == CHOOSE i \in 1 .. Len(allEvaluations) : allEvaluations[i] = e

\* splice(index, 1) with what indexOf returned, 0 standing for -1: the last entry.
Spliced(index) ==
  LET at == IF index = 0 THEN Len(allEvaluations) ELSE index
  IN  SubSeq(allEvaluations, 1, at - 1) \o SubSeq(allEvaluations, at + 1, Len(allEvaluations))

\* The entries that are not of es, in order.
Without(es) ==
  LET kept[n \in 0 .. Len(allEvaluations)] ==
        IF n = 0 THEN <<>>
        ELSE IF allEvaluations[n] \in es THEN kept[n - 1]
        ELSE Append(kept[n - 1], allEvaluations[n])
  IN  kept[Len(allEvaluations)]

\* The entry whose object is replaced or dropped is no longer shared with anything.
Unshare(es) ==
  /\ same' = same \ es
  /\ dialog' = IF dialog.eval \in es THEN [dialog EXCEPT !.item = "other"] ELSE dialog

\* A slip: SAVE_EVALUATION without looking for the entry.
SaveEntryAgain(e) == allEvaluations' = Append(allEvaluations, e)

\* SAVE_EVALUATION.
SaveEntry(e) == allEvaluations' = IF e \in Entries THEN allEvaluations
                                                  ELSE Append(allEvaluations, e)

\* SAVE_EVALUATION and SAVE_PAGED_EVALUATION of one object.
SaveBoth(e) ==
  /\ SaveEntry(e)
  /\ pagedEvaluations' = pagedEvaluations \cup {e}
  /\ same' = same \cup {e}
  /\ dialog' = IF dialog.eval = e THEN [dialog EXCEPT !.item = "other"] ELSE dialog

\* A slip: the last entry is dropped.
CloseLast(fs) ==
  /\ files' = [f \in DOMAIN files \ fs |-> files[f]]
  /\ selectedEvaluationIds' = selectedEvaluationIds \ fs
  /\ selectedProfileIds' = selectedProfileIds \ fs
  /\ allEvaluations' = IF allEvaluations = <<>> THEN <<>> ELSE Spliced(0)
  /\ UNCHANGED <<nextFile, pagedEvaluations>>

\* removeFile and removeEvaluation of each of the files fs.
Close(fs) ==
  LET es == {files[f].db : f \in fs} IN
  /\ files' = [f \in DOMAIN files \ fs |-> files[f]]
  /\ selectedEvaluationIds' = selectedEvaluationIds \ fs
  /\ selectedProfileIds' = selectedProfileIds \ fs
  /\ allEvaluations' = Without(es)
  /\ UNCHANGED <<nextFile, pagedEvaluations>>

\* The button of one file, or the one that removes the selected files.
Remove ==
  \E fs \in {{f} : f \in DOMAIN files} \cup {selectedEvaluationIds, selectedProfileIds} :
    /\ Close(fs)
    /\ Unshare({files[f].db : f \in fs})
    /\ UNCHANGED <<row, requests, overlapped>>

-----------------------------------------------------------------------------
(* Requests. *)

Start(s, r) == requests[s] = Idle /\ requests' = [requests EXCEPT ![s] = r]
Follow(s, r) == requests' = [requests EXCEPT ![s] = r]

\* A slip: what is open is loaded again.
LoadResultsAgain(s) ==
  \E e \in Evals :
    /\ Room /\ row[e] # "new"
    /\ Start(s, Ask("load", e))
    /\ overlapped' = IF \E r \in Slots : requests[r].kind \in {"load", "save"} /\ requests[r].eval = e
                     THEN overlapped \cup {e} ELSE overlapped
    /\ UNCHANGED <<row, store, lists>>

\* load_results: from the list of the database, or from an address that names an
\* evaluation there is or was.
LoadResults(s) ==
  \E e \in Evals :
    /\ Room /\ row[e] # "new" /\ e \notin loadedDatabaseIds
    /\ Start(s, Ask("load", e))
    /\ overlapped' = IF \E r \in Slots : requests[r].kind \in {"load", "save"} /\ requests[r].eval = e
                     THEN overlapped \cup {e} ELSE overlapped
    /\ UNCHANGED <<row, store, lists>>

\* EditEvaluationModal.update, from the list, where editItem sets activeItem, or from
\* the card of a file; TagRow fetches the evaluation again after it wrote tags.
Edit(s) ==
  /\ \/ \E e \in pagedEvaluations : Start(s, Ask("update", e)) /\ dialog' = Active("no", e)
     \/ \E e \in Entries : /\ Start(s, Ask("update", e)) /\ FilesOf(e) # {}
                          /\ UNCHANGED dialog
     \/ \E e \in Entries : Start(s, Ask("refresh", e)) /\ UNCHANGED dialog
  /\ UNCHANGED <<row, store, allEvaluations, pagedEvaluations, same, overlapped>>

\* getAllEvaluations.
FetchList(s) ==
  /\ Start(s, Ask("list", NoEval))
  /\ UNCHANGED <<row, store, lists, overlapped>>

\* A file is saved as what it shows, whatever it was converted from.
SavedAs(kind) == IF kind = "profile" THEN "profile" ELSE "execution"

\* The button that saves a file is there while it has no database_id and is not being saved.
SaveFile(s) ==
  /\ \E f \in FilesOf(NoEval) :
       /\ \A r \in Slots : ~(requests[r].kind = "save" /\ requests[r].file = f)
       /\ Start(s, Sent("save", NoEval, f, SavedAs(files[f].kind)))
  /\ UNCHANGED <<row, store, lists, overlapped>>

\* deleteItem and the button that closes its dialog.
OpenDialog ==
  /\ \E e \in pagedEvaluations : dialog' = Active("yes", e)
  /\ UNCHANGED <<row, store, allEvaluations, pagedEvaluations, same, requests, overlapped>>

CancelDialog ==
  /\ dialog.open = "yes" /\ dialog' = [dialog EXCEPT !.open = "no"]
  /\ UNCHANGED <<row, store, allEvaluations, pagedEvaluations, same, requests, overlapped>>

\* deleteItemConfirm and deleteEvaluation: REMOVE_EVALUATION comes before the request.
ConfirmDialog(s) ==
  /\ dialog.open = "yes" /\ dialog' = [dialog EXCEPT !.open = "no", !.item = "other"]
  /\ Start(s, Ask("delete", dialog.eval))
  /\ allEvaluations' = Spliced(IF dialog.item = "same" THEN Position(dialog.eval) ELSE 0)
  /\ same' = same \cap Entries'
  /\ UNCHANGED <<row, store, pagedEvaluations, overlapped>>

-----------------------------------------------------------------------------
(* The backend. *)

Done(s) == requests[s].stage = "sent" /\ requests' = [requests EXCEPT ![s].stage = "done"]

ServeGet(s) ==
  /\ requests[s].kind \in {"load", "refresh", "update"} /\ requests[s].eval \in stored
  /\ Done(s)
  /\ UNCHANGED <<row, store, lists, overlapped>>

ServeList(s) ==
  /\ requests[s].kind = "list" /\ requests[s].stage = "sent"
  /\ requests' = [requests EXCEPT ![s].stage = "done", ![s].page = stored]
  /\ UNCHANGED <<row, store, lists, overlapped>>

ServeDelete(s) ==
  /\ requests[s].kind = "delete" /\ requests[s].eval \in stored
  /\ Done(s)
  /\ row' = [row EXCEPT ![requests[s].eval] = "gone"]
  /\ UNCHANGED <<store, lists, overlapped>>

\* A new row.
ServeSave(s) ==
  /\ requests[s].kind = "save" /\ requests[s].stage = "sent"
  /\ \E e \in Evals :
       /\ row[e] = "new" /\ Contents[e] = requests[s].data
       /\ row' = [row EXCEPT ![e] = "stored"]
       /\ requests' = [requests EXCEPT ![s].stage = "done", ![s].eval = e]
  /\ UNCHANGED <<store, lists, overlapped>>

Serve(s) == ServeGet(s) \/ ServeList(s) \/ ServeDelete(s) \/ ServeSave(s)

-----------------------------------------------------------------------------
(* The answers. *)

Answered(s, k) == requests[s].kind = k /\ requests[s].stage = "done"

\* An error, or an answer that is lost.
LandFailure(s) ==
  /\ requests[s].kind # "idle"
  /\ Follow(s, Idle)
  /\ UNCHANGED <<row, store, lists, overlapped>>

\* load_results: both lists, then the intake.
LandLoad(s) ==
  /\ Answered(s, "load")
  /\ SaveBoth(requests[s].eval)
  /\ Intake(Contents[requests[s].eval], requests[s].eval)
  /\ Follow(s, Idle)
  /\ UNCHANGED <<row, overlapped>>

\* loadEvaluation.
LandRefresh(s) ==
  /\ Answered(s, "refresh")
  /\ SaveBoth(requests[s].eval)
  /\ Follow(s, Idle)
  /\ UNCHANGED <<row, store, overlapped>>

\* updateEvaluation, which the dialog follows up with loadEvaluation.
LandUpdate(s) ==
  /\ Answered(s, "update")
  /\ SaveEntry(requests[s].eval)
  /\ Unshare({requests[s].eval})
  /\ Follow(s, Ask("refresh", requests[s].eval))
  /\ UNCHANGED <<row, store, pagedEvaluations, overlapped>>

\* SET_PAGED_EVALUATIONS puts new objects in the list.
LandList(s) ==
  /\ Answered(s, "list")
  /\ pagedEvaluations' = requests[s].page /\ same' = {}
  /\ Follow(s, Idle)
  /\ UNCHANGED <<row, store, allEvaluations, dialog, overlapped>>

\* A slip: the file stays open.
LandDeleteOnly(s) ==
  /\ Answered(s, "delete")
  /\ Follow(s, Ask("list", NoEval))
  /\ UNCHANGED <<row, store, lists, overlapped>>

\* The list is fetched again, and a file of activeItem, whatever it is by now, is
\* closed if it is selected: of several, loadedFileIsForDatabaseIds returns the last.
LandDelete(s) ==
  LET e == dialog.eval
      last == {f \in FilesOf(e) : \A g \in FilesOf(e) : g <= f}
      chosen == selectedEvaluationIds \cup selectedProfileIds
  IN
  /\ Answered(s, "delete")
  /\ Follow(s, Ask("list", NoEval))
  /\ \/ \E f \in last \cap chosen : Close({f}) /\ Unshare({e})
     \/ last \cap chosen = {} /\ UNCHANGED <<store, lists>>
  /\ UNCHANGED <<row, overlapped>>

\* save_to_database: the file gets its database_id, if it is still open.
LandSave(s) ==
  /\ Answered(s, "save")
  /\ files' = [f \in DOMAIN files |-> IF f = requests[s].file
                                      THEN [files[f] EXCEPT !.db = requests[s].eval] ELSE files[f]]
  /\ Follow(s, Ask("refresh", requests[s].eval))
  /\ UNCHANGED <<row, nextFile, selectedEvaluationIds, selectedProfileIds, lists, overlapped>>

Land(s) == \/ LandFailure(s) \/ LandLoad(s) \/ LandRefresh(s) \/ LandUpdate(s)
           \/ LandList(s) \/ LandDelete(s) \/ LandSave(s)

-----------------------------------------------------------------------------
\* The dialog covers the page.
Click ==
  /\ clicks < MaxClicks /\ clicks' = clicks + 1
  /\ \/ /\ dialog.open = "no"
        /\ \/ Open \/ Remove \/ ToggleFile \/ ToggleAll \/ SelectExclusive \/ OpenDialog
           \/ \E s \in Slots : LoadResults(s) \/ Edit(s) \/ FetchList(s) \/ SaveFile(s)
     \/ CancelDialog
     \/ \E s \in Slots : ConfirmDialog(s)

Answer == (\E s \in Slots : Serve(s) \/ Land(s)) /\ UNCHANGED clicks

Next == Click \/ Answer

Spec == Init /\ [][Next]_vars

-----------------------------------------------------------------------------
(* Properties. *)

\* Every variable has its type, and an evaluation is listed once: the getters of
\* evaluations.ts and the search by uniqueId take the first entry they find.
TypeOK ==
  /\ row \in [Evals -> {"new", "stored", "gone"}]
  /\ DOMAIN files \subseteq FileIds /\ files \in [DOMAIN files -> File]
  /\ nextFile \in 1 .. MaxFiles + 1
  /\ selectedEvaluationIds \subseteq FileIds /\ selectedProfileIds \subseteq FileIds
  /\ allEvaluations \in Seq(Evals) /\ Cardinality(Entries) = Len(allEvaluations)
  /\ pagedEvaluations \subseteq Evals /\ same \subseteq pagedEvaluations \cap Entries
  /\ dialog \in Dialog /\ (dialog.item = "same" => dialog.eval \in Entries)
  /\ requests \in [Slots -> Request]
  /\ overlapped \subseteq Evals
  /\ clicks \in 0 .. MaxClicks

\* The boxes that select everything compare numbers of files; they are right, that
\* is, they show "On" exactly when every open file is selected, whatever was
\* opened, closed, loaded and deleted (data_filters.ts all_evaluations_selected).
AllSelectedRight ==
  /\ Trinary(selectedEvaluationIds, EvaluationFiles) = "On"
       <=> EvaluationFiles # {} /\ selectedEvaluationIds = EvaluationFiles
  /\ Trinary(selectedProfileIds, ProfileFiles) = "On"
       <=> ProfileFiles # {} /\ selectedProfileIds = ProfileFiles

\* load_results does not open an evaluation that is open, so two files of one
\* evaluation mean that it was asked for again before its first answer came.
OneFilePerEvaluation ==
  \A e \in Evals \ overlapped : Cardinality(FilesOf(e)) <= 1

\* An open file keeps its entry of allEvaluations, from which its name, groups and
\* tags are read (evaluationForFile), unless the evaluation was loaded twice or a
\* deletion was confirmed, of it or of one whose dialog held another object: the
\* splice of REMOVE_EVALUATION then drops the last entry, whichever it is.
FileLosesEvaluation ==
  [][\A e \in Entries : e \notin Entries' /\ FilesOf(e)' # {} =>
       \/ e \in overlapped
       \/ dialog.open = "yes" /\ dialog'.open = "no" /\ (dialog.eval = e \/ dialog.item = "other")]_vars

\* When the deletion of an evaluation is answered, no file that was selected still
\* shows it and no other file is closed (LoadFileList.deleteItemConfirm), if it was
\* not loaded twice and activeItem is still what was deleted.
DeletedLeavesPanel ==
  [][\A s \in Slots, e \in Evals \ overlapped :
       /\ requests[s].kind = "delete" /\ requests[s].eval = e /\ requests'[s].kind = "list"
       /\ dialog.eval = e
       => /\ FilesOf(e)' \cap (selectedEvaluationIds \cup selectedProfileIds) = {}
          /\ DOMAIN files \ FilesOf(e) = DOMAIN files' \ FilesOf(e)]_vars

\* What the store does is what Panel promises, of the evaluation files and of the
\* profile files: a new file has an id no file had before and is selected, a file
\* that is closed is selected no more, and nothing is selected that is not open.
ids == 1 .. nextFile - 1
OfEvaluations == INSTANCE Panel WITH shown <- EvaluationFiles, chosen <- selectedEvaluationIds, taken <- ids
OfProfiles    == INSTANCE Panel WITH shown <- ProfileFiles, chosen <- selectedProfileIds, taken <- ids

PanelsKept == OfEvaluations!Spec /\ OfProfiles!Spec

=============================================================================
