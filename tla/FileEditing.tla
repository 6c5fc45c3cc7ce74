---------------------------- MODULE FileEditing ----------------------------
(***************************************************************************)
(* File tabs of the editor: reading a file, editing, saving and closing it *)
(* (workbench/tabs.ts, EditorArea.tsx, confirm-dialog.tsx), and the write  *)
(* the backend makes for a save, which replaces the file through temporary *)
(* and backup names (sftp/ops.rs remote_write, local_write).               *)
(*                                                                         *)
(* A file has at most one tab, so the tab is found by its file; `id' tells *)
(* it from an earlier tab of the same file, to which an answer may still   *)
(* be addressed.  While the dialog of an unsaved tab is open it holds the  *)
(* focus: nothing else in the window is typed or clicked.                  *)
(***************************************************************************)
EXTENDS Integers, SequencesExt, FiniteSetsExt

CONSTANTS
  File,      \* the files
  Remote,    \* those on a server, replaced in several steps
  Text,      \* what a file may hold
  None,
  MaxOpens,  \* bound: how many file tabs are opened
  MaxSaves   \* bound: how many saves are started

FileEditingAssumption ==
  /\ Remote \subseteq File
  /\ None \notin File \cup Text
  /\ MaxOpens \in Nat /\ MaxSaves \in Nat

VARIABLES
  ui,      \* the store of the tabs and the bulk close of EditorArea
  disk,    \* what the path of each file holds; None: nothing has its name
  backup,  \* texts left behind under the hidden names of failed writes
  writes,  \* fs_write_text calls in the backend or with their answer on the way
  opens, saves

vars == <<ui, disk, backup, writes, opens, saves>>

-----------------------------------------------------------------------------
(* Tabs.  `read' is the answer of readText before the page has it.         *)

Closed == [id |-> 0, read |-> None, content |-> None, saved |-> None,
           saving |-> FALSE]

Opened(id) == [Closed EXCEPT !.id = id]

IsOpen(tab) == tab.id # 0

IsFileDirty(tab) == tab.content # None /\ tab.content # tab.saved

(* The state of the window is the record ui:                               *)
(*   tab      the tab of each file                                         *)
(*   pending  pendingCloseId: the file whose unsaved dialog is open        *)
(*   queue    bulkCloseQueueRef: the tabs a bulk close has still to close  *)
(*   asked    bulkClosePendingRef: the tab it asks about                   *)
(* The operators below are the functions of the code that change it.       *)

\* closeTab with force.
Drop(u, f) ==
  [u EXCEPT !.tab[f] = Closed, !.pending = IF @ = f THEN None ELSE @]

\* closeTab without force: an unsaved tab opens its dialog instead.
Close(u, f) ==
  IF IsFileDirty(u.tab[f]) THEN [u EXCEPT !.pending = f] ELSE Drop(u, f)

\* processBulkClose: closes the tabs of the queue up to the first unsaved one.
ProcessBulkClose(u) ==
  LET dirty == {i \in DOMAIN u.queue : IsFileDirty(u.tab[u.queue[i]])}
      stop  == IF dirty = {} THEN Len(u.queue) + 1 ELSE Min(dirty)
      gone  == {u.queue[i] : i \in 1..(stop - 1)}
      rest  == [f \in File |-> IF f \in gone THEN Closed ELSE u.tab[f]]
  IN  IF dirty = {}
      THEN [u EXCEPT !.tab = rest, !.queue = <<>>, !.asked = None]
      ELSE [u EXCEPT !.tab = rest, !.pending = u.queue[stop],
                     !.queue = SubSeq(@, stop + 1, Len(@)),
                     !.asked = u.queue[stop]]

\* The effect of EditorArea on pendingCloseId and tabs: it goes on when the
\* tab it asked about is gone, and gives up when the tab is still there.
Effect(u) ==
  LET over == [u EXCEPT !.asked = None]
  IN  CASE u.pending # None \/ u.queue = <<>> -> u
        [] u.pending = None /\ u.queue # <<>> /\ u.asked # None
             /\ IsOpen(u.tab[u.asked]) -> [over EXCEPT !.queue = <<>>]
        [] OTHER -> ProcessBulkClose(over)

\* clearPendingClose, which is the dialog's onClose.
ClearPendingClose(u) == Effect([u EXCEPT !.pending = None])

-----------------------------------------------------------------------------

Init ==
  /\ ui = [tab |-> [f \in File |-> Closed], pending |-> None, queue |-> <<>>,
           asked |-> None]
  /\ disk \in [File -> {CHOOSE t \in Text : TRUE}]
  /\ backup = [f \in File |-> {}]
  /\ writes = {}
  /\ opens = 0
  /\ saves = 0

NoDialog == ui.pending = None

Tab(f) == ui.tab[f]

\* openFile for a file without a tab: the tab is there at once, its text later.
Open(f) ==
  /\ NoDialog
  /\ ~IsOpen(Tab(f))
  /\ opens < MaxOpens
  /\ opens' = opens + 1
  /\ ui' = [ui EXCEPT !.tab[f] = Opened(opens + 1)]
  /\ UNCHANGED <<disk, backup, writes, saves>>

\* fs_read_text reads; a missing file or a lost connection is an error.
Read(f) ==
  /\ IsOpen(Tab(f)) /\ Tab(f).content = None /\ Tab(f).read = None
  /\ disk[f] # None
  /\ ui' = [ui EXCEPT !.tab[f].read = disk[f]]
  /\ UNCHANGED <<disk, backup, writes, opens, saves>>

Loaded(f) ==
  /\ Tab(f).read # None
  /\ ui' = [ui EXCEPT !.tab[f] = [@ EXCEPT !.read = None, !.content = Tab(f).read,
                                           !.saved = Tab(f).read]]
  /\ UNCHANGED <<disk, backup, writes, opens, saves>>

\* updateFileContent, by typing, undoing or replacing.
Edit(f, text) ==
  /\ NoDialog
  /\ Tab(f).content \notin {None, text}
  /\ ui' = [ui EXCEPT !.tab[f].content = text]
  /\ UNCHANGED <<disk, backup, writes, opens, saves>>

\* saveFile up to its await, by the keyboard or from the dialog.
SaveFile(f, fromDialog) ==
  /\ ui.pending = (IF fromDialog THEN f ELSE None)
  /\ Tab(f).content # None
  /\ ~Tab(f).saving
  /\ saves < MaxSaves
  /\ saves' = saves + 1
  /\ ui' = [ui EXCEPT !.tab[f].saving = TRUE]
  /\ writes' = writes \cup
       {[file |-> f, id |-> Tab(f).id, number |-> saves, data |-> Tab(f).content,
         expected |-> Tab(f).saved, held |-> None, dialog |-> fromDialog,
         at |-> "check"]}
  /\ UNCHANGED <<disk, backup, opens>>

\* close() by the tab's button, the menu or the keyboard.
CloseTab(f) ==
  /\ NoDialog
  /\ IsOpen(Tab(f))
  /\ ui' = Close(ui, f)
  /\ UNCHANGED <<disk, backup, writes, opens, saves>>

\* closeAllTabs and closeOtherTabs, over the tabs in the order they have.
BulkClose ==
  /\ NoDialog
  /\ \E others \in SUBSET {f \in File : IsOpen(Tab(f))} :
       \E order \in SetToSeqs(others) :
         /\ others # {}
         /\ ui' = ProcessBulkClose([ui EXCEPT !.queue = order])
  /\ UNCHANGED <<disk, backup, writes, opens, saves>>

\* Cancel, or Escape: not while a save has the dialog busy.
Cancel ==
  /\ ui.pending # None
  /\ ~Tab(ui.pending).saving
  /\ ui' = ClearPendingClose(ui)
  /\ UNCHANGED <<disk, backup, writes, opens, saves>>

\* Discard: the tab closes, the effect runs with React's update, and only then
\* the dialog of the tab, whose promise resolves, calls onClose.
Discard ==
  /\ ui.pending # None
  /\ ~Tab(ui.pending).saving
  /\ ui' = ClearPendingClose(Effect(Drop(ui, ui.pending)))
  /\ UNCHANGED <<disk, backup, writes, opens, saves>>

-----------------------------------------------------------------------------
(* The backend's write *)

Goes(w, at) == writes' = (writes \ {w}) \cup {[w EXCEPT !.at = at]}

Holds(w, text, at) ==
  writes' = (writes \ {w}) \cup {[w EXCEPT !.at = at, !.held = text]}

IsRemote(w) == w.file \in Remote

\* The file must still hold what the tab believes to be saved; then the new
\* text goes to a temporary name, which may fail and leaves no trace.
Check(w) ==
  /\ w.at = "check"
  /\ \/ /\ disk[w.file] = w.expected
        /\ Goes(w, IF IsRemote(w) THEN "temp" ELSE "replace")
     \/ Goes(w, "failed")
  /\ UNCHANGED <<ui, disk, backup, opens, saves>>

\* local_write: one rename.
Replace(w) ==
  /\ w.at = "replace"
  /\ \/ Goes(w, "done") /\ disk' = [disk EXCEPT ![w.file] = w.data]
     \/ Goes(w, "failed") /\ UNCHANGED disk
  /\ UNCHANGED <<ui, backup, opens, saves>>

\* try_exists decides whether there is a file to move out of the way.
Temp(w) ==
  /\ w.at = "temp"
  /\ \/ Goes(w, IF disk[w.file] # None THEN "backup" ELSE "swap")
     \/ Goes(w, "failed")
  /\ UNCHANGED <<ui, disk, backup, opens, saves>>

\* rename(path, backup)
Backup(w) ==
  /\ w.at = "backup"
  /\ \/ /\ disk[w.file] # None
        /\ Holds(w, disk[w.file], "swap")
        /\ disk' = [disk EXCEPT ![w.file] = None]
     \/ Goes(w, "failed") /\ UNCHANGED disk
  /\ UNCHANGED <<ui, backup, opens, saves>>

\* Mutant: the copy of the old text goes whether or not the new one is there.
SwapCarelessly(w) ==
  /\ w.at = "swap"
  /\ \/ Holds(w, None, "done") /\ disk' = [disk EXCEPT ![w.file] = w.data]
     \/ Holds(w, None, "failed") /\ UNCHANGED disk
  /\ UNCHANGED <<ui, backup, opens, saves>>

\* rename(temp, path); when it fails the backup is moved back, which fails too
\* when the connection is lost or the name has been taken since.
Swap(w) ==
  /\ w.at = "swap"
  /\ \/ /\ disk[w.file] = None
        /\ Goes(w, IF w.held = None THEN "done" ELSE "clean")
        /\ disk' = [disk EXCEPT ![w.file] = w.data]
        /\ UNCHANGED backup
     \/ /\ disk[w.file] = None
        /\ Holds(w, None, "failed")
        /\ disk' = [disk EXCEPT ![w.file] = w.held]
        /\ UNCHANGED backup
     \/ /\ Holds(w, None, "failed")
        /\ backup' = [backup EXCEPT ![w.file] = @ \cup ({w.held} \ {None})]
        /\ UNCHANGED disk
  /\ UNCHANGED <<ui, opens, saves>>

\* remove_file(backup), whose failure is nobody's concern.
Clean(w) ==
  /\ w.at = "clean"
  /\ Holds(w, None, "done")
  /\ backup' \in {backup, [backup EXCEPT ![w.file] = @ \cup {w.held}]}
  /\ UNCHANGED <<ui, disk, opens, saves>>

\* Mutant: a saved tab that was to be closed is closed whatever it holds now.
SavedUnchecked(u, w) ==
  LET f       == w.file
      patched == [u EXCEPT !.tab[f].saving = FALSE, !.tab[f].saved = w.data]
  IN  IF u.tab[f].id # w.id
      THEN u
      ELSE IF w.dialog THEN ClearPendingClose(Effect(Drop(patched, f)))
      ELSE IF u.pending = f THEN Effect(Drop(patched, f)) ELSE patched

\* saveFile after its await, for a write that succeeded: the tab closes only
\* if it was to be closed and holds nothing newer; the dialog's onClose last.
Saved(u, w) ==
  LET f       == w.file
      patched == [u EXCEPT !.tab[f].saving = FALSE, !.tab[f].saved = w.data]
      closed  == IF u.pending = f THEN Effect(Drop(patched, f)) ELSE patched
  IN  CASE u.tab[f].id # w.id           -> u
        [] u.tab[f].id = w.id /\ IsFileDirty(patched.tab[f]) -> patched
        [] OTHER -> IF w.dialog THEN ClearPendingClose(closed) ELSE closed

\* The answer of fs_write_text reaches the page.
Reply(w) ==
  /\ w.at \in {"done", "failed"}
  /\ writes' = writes \ {w}
  /\ ui' = CASE w.at = "done" -> Saved(ui, w)
             [] w.at = "failed" /\ Tab(w.file).id = w.id ->
                  [ui EXCEPT !.tab[w.file].saving = FALSE]
             [] OTHER -> ui
  /\ UNCHANGED <<disk, backup, opens, saves>>

Next ==
  \/ \E f \in File :
       \/ Open(f) \/ Read(f) \/ Loaded(f) \/ CloseTab(f)
       \/ \E text \in Text : Edit(f, text)
       \/ SaveFile(f, FALSE) \/ SaveFile(f, TRUE)
  \/ BulkClose \/ Cancel \/ Discard
  \/ \E w \in writes :
       \/ Check(w) \/ Replace(w) \/ Temp(w) \/ Backup(w) \/ Swap(w) \/ Clean(w)
       \/ Reply(w)

Spec == Init /\ [][Next]_vars

-----------------------------------------------------------------------------
(* Properties *)

OptionalText == Text \cup {None}

\* The variables have the values the code gives them, and a closed tab holds
\* nothing.
TypeOK ==
  /\ ui \in [tab : [File -> [id : 0..MaxOpens, read : OptionalText,
                             content : OptionalText, saved : OptionalText,
                             saving : BOOLEAN]],
             pending : File \cup {None}, queue : Seq(File),
             asked : File \cup {None}]
  /\ \A f \in File : ~IsOpen(Tab(f)) => Tab(f) = Closed
  /\ disk \in [File -> OptionalText]
  /\ backup \in [File -> SUBSET Text]
  /\ \A w \in writes : w.file \in File /\ w.data \in Text /\ w.held \in OptionalText
  /\ opens \in 0..MaxOpens /\ saves \in 0..MaxSaves

\* No step of a save, in whatever order two saves of the same file and their
\* failures come, leaves a file without its text: what is not under the path
\* is under a backup name, or in the hands of a write that will put it back
\* (remote_write).
TextSurvives ==
  \A f \in File :
    \/ disk[f] # None
    \/ backup[f] # {}
    \/ \E w \in writes : w.file = f /\ w.held # None

Answered(w) == w \in writes /\ w \notin writes'

\* A tab goes only when what it holds is saved, by now or by the answer that
\* comes in this step, or when the user discards it: text typed while a save
\* is on its way is never taken for saved (saveFile, closeTab).
EditsSurvive ==
  [][\A f \in File :
       IsOpen(Tab(f)) /\ ~IsOpen(Tab(f)') =>
         \/ ~IsFileDirty(Tab(f))
         \/ \E w \in writes : Answered(w) /\ w.at = "done" /\ w.data = Tab(f).content
         \/ ui.pending = f /\ writes' = writes]_vars
=============================================================================
