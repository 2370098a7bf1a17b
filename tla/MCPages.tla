------------------------------ MODULE MCPages ------------------------------
(* Pages of the client, and windows of its chat page, that share no state  *)
(* which more than one of them writes: the page that watches a live room,  *)
(* the box and the editor of a conversation, the windows of a group and    *)
(* the search.  A behaviour is one of these while the others rest; and of  *)
(* the windows of a group, each of which covers the buttons of the others, *)
(* a behaviour opens one kind.                                             *)
EXTENDS LiveWatch, Composer, Panels, MessageSearch, TLC

VARIABLE part  \* the page or window that moves

vars == <<part, watchVars, composerVars, panelsVars, searchVars>>
Windows == {"members", "files", "edit"}

Init ==
  /\ part \in {"watch", "box", "editor", "search"} \union Windows
  /\ WatchInit /\ ComposerInit /\ PanelsInit /\ SearchInit
  /\ part # "watch" => link = Nothing /\ follows = {}
  /\ part \notin Windows => muted = {}

Next ==
  /\ UNCHANGED part
  /\ \/ part = "watch" /\ WatchNext /\ UNCHANGED <<composerVars, panelsVars, searchVars>>
     \/ part = "box" /\ (Goes \/ BoxNext) /\ UNCHANGED <<watchVars, panelsVars, searchVars>>
     \/ part = "editor" /\ (Goes \/ EditorNext) /\ UNCHANGED <<watchVars, panelsVars, searchVars>>
     \/ part = "search" /\ SearchNext /\ UNCHANGED <<watchVars, composerVars, panelsVars>>
     \/ /\ part \in Windows /\ PanelsNext /\ panel' \in {"none", part}
        /\ UNCHANGED <<watchVars, composerVars, searchVars>>

Spec == Init /\ [][Next]_vars

Symmetry == Permutations(Rooms) \union Permutations(Convs) \union Permutations(Slots)
=============================================================================
