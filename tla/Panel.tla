------------------------------- MODULE Panel -------------------------------
(***************************************************************************)
(* What the sidebar promises of one kind of files: a file that arrives is  *)
(* selected and has an id no file had before, what leaves is no longer     *)
(* selected, and only what is shown can be selected.                       *)
(***************************************************************************)
EXTENDS Naturals

VARIABLES
  shown,    \* the files of the panel
  chosen,   \* the selected ones
  taken     \* the ids that have been given out

panel == <<shown, chosen, taken>>

Init == shown = {} /\ chosen = {} /\ taken = {}

Arrive ==
  /\ taken \subseteq taken' /\ shown \subseteq shown'
  /\ shown' \ shown \subseteq taken' \ taken
  /\ chosen' = chosen \cup (shown' \ shown)

Leave ==
  /\ shown' \subseteq shown
  /\ chosen' = chosen \cap shown'
  /\ taken' = taken

Choose ==
  /\ chosen' \subseteq shown
  /\ UNCHANGED <<shown, taken>>

Next == Arrive \/ Leave \/ Choose

Spec == Init /\ [][Next]_panel

=============================================================================
