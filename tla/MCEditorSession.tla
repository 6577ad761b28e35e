--------------------------- MODULE MCEditorSession ---------------------------
(***************************************************************************)
(* One document and one saved view; a second view path no file holds yet.  *)
(* The rows of the model, the saved views, the screen and the conversation *)
(* are exercised each in behaviours of their own, all of them with a lost  *)
(* connection and one thing that everybody else does.                      *)
(***************************************************************************)
EXTENDS EditorSession

MCHosts == {"socket", "local"}
MCGestures == [rows |-> 3, views |-> 2, screen |-> 2, talk |-> 2]
MCRepertoires == DOMAIN MCGestures

\* Which choice the agent puts makes no difference, only whether it is the same.
MCSymmetry == Permutations(Questions)

\* A view edited on disk: two gestures, two writes, nothing lost.
ViewGestures == [views |-> 2]
=============================================================================
