---------------------------- MODULE RemoteEditor ----------------------------
(***************************************************************************)
(* The editor of remote text files: openFile, saveEditor and the ways to   *)
(* close in ssh-gui/frontend/src/components/files/RemoteFileTree.jsx, and  *)
(* the window of components/editor/RemoteFileEditorModal.jsx.  The tree is *)
(* the same for all SSH tabs, so its session changes under an open editor  *)
(* whenever a connection that was being made becomes the active tab.  Only *)
(* text files are modelled: an image cannot be edited or saved.            *)
(***************************************************************************)
EXTENDS Naturals, FiniteSets, SshTabs

CONSTANTS Files,         \* paths, the same on every host
          MaxEdits,      \* bound on the changes typed
          MaxFileCalls   \* bound on the calls on their way

ASSUME EditorAssumption ==
  MaxEdits \in Nat /\ MaxFileCalls \in Nat /\ Files # {}

VARIABLES
  editor,      \* the state of the window, an Editor
  fileCalls,   \* calls of ReadRemoteFile and SaveRemoteFile, FileCalls
  disk,        \* what each file of each host holds
  held,        \* history: every <<file, content>> some host has held
  edits        \* the changes typed so far; each makes a new content

editorVars == <<editor, fileCalls, disk, held, edits>>
hostVars == <<disk, held>>

Content == 0..MaxEdits

Editor ==
  [session: Hosts,      \* sessionId of the tree
   open: BOOLEAN, file: Files, content: Content, modified: BOOLEAN,
   of: Hosts,           \* not in the code: where the content was read
   saving: BOOLEAN,     \* the flag of the current saveContext
   status: {"idle", "saving", "saved", "error"},
   asking: BOOLEAN]     \* unsavedConfirm

(* then is what the caller does next: show what was read, report on the     *)
(* save (handleSave) or close (saveAndCloseEditor).  current: is its        *)
(* saveContext still the current one?                                       *)
FileCall ==
  [then: {"show", "report", "close"}, host: Hosts, file: Files,
   content: Content, of: Hosts, current: BOOLEAN, at: {"sent", "done", "failed"}]

EditorInit ==
  /\ \E h \in Hosts :
       editor = [session |-> h, open |-> FALSE, file |-> CHOOSE f \in Files : TRUE,
                 content |-> 0, modified |-> FALSE, of |-> h, saving |-> FALSE,
                 status |-> "idle", asking |-> FALSE]
  /\ fileCalls = {}
  /\ disk = [h \in Hosts |-> [f \in Files |-> 0]]
  /\ held = Files \X {0}
  /\ edits = 0

-----------------------------------------------------------------------------

SendFile(then, file, content, of) ==
  /\ Cardinality(fileCalls) < MaxFileCalls
  /\ fileCalls' = fileCalls \cup
       {[then |-> then, host |-> editor.session, file |-> file, content |-> content,
         of |-> of, current |-> then = "report", at |-> "sent"]}

(* The window's props become those of e, and others are the calls left: on  *)
(* a change of [open, path, sessionId] the saveContext is replaced.         *)
Render(e, others) ==
  IF <<e.open, e.file, e.session>> # <<editor.open, editor.file, editor.session>>
  THEN /\ editor' = [e EXCEPT !.saving = FALSE, !.status = "idle"]
       /\ fileCalls' = {[c EXCEPT !.current = FALSE] : c \in others}
  ELSE editor' = e /\ fileCalls' = others

(* Another SSH tab becomes the active one.                                  *)
EditorSession(h) ==
  /\ h # editor.session
  /\ Render([editor EXCEPT !.session = h], fileCalls)
  /\ UNCHANGED <<hostVars, edits>>

(* openFile; the window covers the tree.                                    *)
OpenFile(f) ==
  /\ ~editor.open
  /\ SendFile("show", f, 0, editor.session)
  /\ UNCHANGED <<editor, hostVars, edits>>

(* The host reads or replaces the file when it gets to it, or the call      *)
(* fails.                                                                   *)
HostAnswers(c) ==
  /\ c.at = "sent"
  /\ \E r \in {[c EXCEPT !.at = "failed"],
               [c EXCEPT !.at = "done",
                  !.content = IF c.then = "show" THEN disk[c.host][c.file] ELSE @]} :
       /\ fileCalls' = (fileCalls \ {c}) \cup {r}
       /\ IF r.at = "failed"
          THEN UNCHANGED hostVars
          ELSE /\ disk' = [disk EXCEPT ![c.host][c.file] = r.content]
               /\ held' = held \cup {<<c.file, r.content>>}
  /\ UNCHANGED <<editor, edits>>

(* setEditor after the await of openFile, whatever is in the window by now. *)
FileArrives(c) ==
  /\ c.then = "show" /\ c.at = "done"
  /\ Render([editor EXCEPT !.open = TRUE, !.file = c.file, !.content = c.content,
                           !.modified = FALSE, !.of = c.of], fileCalls \ {c})
  /\ UNCHANGED <<hostVars, edits>>

ReadFails(c) ==
  /\ c.then = "show" /\ c.at = "failed"
  /\ fileCalls' = fileCalls \ {c}
  /\ UNCHANGED <<editor, hostVars, edits>>

-----------------------------------------------------------------------------
(* Saving *)

(* A key in the window makes a content of its own.                          *)
Type ==
  /\ editor.open /\ ~editor.asking
  /\ edits < MaxEdits
  /\ edits' = edits + 1
  /\ editor' = [editor EXCEPT !.content = edits + 1, !.modified = TRUE,
                              !.status = IF editor.saving THEN @ ELSE "idle"]
  /\ UNCHANGED <<fileCalls, hostVars>>

CanSave == editor.open /\ editor.modified /\ ~editor.saving

(* handleSave, by the button or Ctrl+S; the latter also under the question  *)
(* of closing.                                                              *)
HandleSave ==
  /\ CanSave
  /\ editor' = [editor EXCEPT !.saving = TRUE, !.status = "saving"]
  /\ SendFile("report", editor.file, editor.content, editor.of)
  /\ UNCHANGED <<hostVars, edits>>

(* Mutant of AfterSave: the window is clean, whatever was typed meanwhile.  *)
AfterSave_Always(c) == [editor EXCEPT !.modified = FALSE]

(* saveEditor after its await: clean if it still shows what was saved.      *)
AfterSave(c) ==
  IF editor.file = c.file /\ editor.content = c.content
  THEN [editor EXCEPT !.modified = FALSE] ELSE editor

Reported(c, e, unlocks) ==
  /\ c.then = "report" /\ c.at # "sent"
  /\ editor' = IF unlocks
               THEN [e EXCEPT !.saving = FALSE,
                              !.status = IF c.at = "done" THEN "saved" ELSE "error"]
               ELSE e
  /\ fileCalls' = fileCalls \ {c}
  /\ UNCHANGED <<hostVars, edits>>

(* handleSave after its await; a context that was replaced is let alone.    *)
SaveReported(c) ==
  Reported(c, IF c.at = "done" THEN AfterSave(c) ELSE editor, c.current)

(* "saved" goes away after three seconds.                                   *)
SavedTimer ==
  /\ editor.status = "saved"
  /\ editor' = [editor EXCEPT !.status = "idle"]
  /\ UNCHANGED <<fileCalls, hostVars, edits>>

-----------------------------------------------------------------------------
(* Closing *)

Closed(e) == [e EXCEPT !.open = FALSE, !.content = 0, !.modified = FALSE,
                       !.asking = FALSE]

CloseEditor ==
  /\ editor.open /\ ~editor.asking
  /\ Render(IF editor.modified THEN [editor EXCEPT !.asking = TRUE]
                               ELSE Closed(editor), fileCalls)
  /\ UNCHANGED <<hostVars, edits>>

(* The question is dismissed.                                               *)
KeepEditing ==
  /\ editor.asking
  /\ editor' = [editor EXCEPT !.asking = FALSE]
  /\ UNCHANGED <<fileCalls, hostVars, edits>>

DiscardAndClose ==
  /\ editor.asking
  /\ Render(Closed(editor), fileCalls)
  /\ UNCHANGED <<hostVars, edits>>

(* saveAndCloseEditor does not look at the saveContext.                     *)
SaveAndClose ==
  /\ editor.asking
  /\ SendFile("close", editor.file, editor.content, editor.of)
  /\ UNCHANGED <<editor, hostVars, edits>>

(* After its await: whatever is open is closed, unless the save failed.     *)
SavedAndClosed(c) ==
  /\ c.then = "close" /\ c.at # "sent"
  /\ Render(IF c.at = "done" THEN Closed(editor) ELSE editor, fileCalls \ {c})
  /\ UNCHANGED <<hostVars, edits>>

EditorNext ==
  \/ \E h \in Hosts : EditorSession(h)
  \/ \E f \in Files : OpenFile(f)
  \/ \E c \in fileCalls :
       \/ HostAnswers(c)
       \/ FileArrives(c)
       \/ ReadFails(c)
       \/ SaveReported(c)
       \/ SavedAndClosed(c)
  \/ Type
  \/ HandleSave
  \/ SavedTimer
  \/ CloseEditor
  \/ KeepEditing
  \/ DiscardAndClose
  \/ SaveAndClose

(* A save of the window is answered and its answer handled.                 *)
SaveGoesOn ==
  \E c \in fileCalls :
    c.then = "report" /\ c.current /\ (HostAnswers(c) \/ SaveReported(c))
EditorFairness == WF_editorVars(SaveGoesOn)

EditorSpec == EditorInit /\ [][EditorNext]_editorVars

-----------------------------------------------------------------------------

EditorTypeOK ==
  /\ editor \in Editor
  /\ fileCalls \in SUBSET FileCall
  /\ disk \in [Hosts -> [Files -> Content]]
  /\ held \in SUBSET (Files \X Content)
  /\ edits \in Content

(* A window without the mark of a modified file shows what some host has    *)
(* had under that path: typing while a save is on its way, late reads, late *)
(* answers and switched sessions never make typed text look saved that no   *)
(* host received.                                                           *)
CleanEditorsWereSaved ==
  editor.open /\ ~editor.modified => <<editor.file, editor.content>> \in held

(* One save of the window is on its way exactly as long as it says it is    *)
(* saving, so that saves of one file do not overtake each other through it. *)
SavesDoNotOverlap ==
  LET reporting == {c \in fileCalls : c.then = "report" /\ c.current}
  IN  /\ editor.saving <=> reporting # {}
      /\ \A c \in reporting : reporting = {c}

(* The Save button does not stay disabled: what says it is saving stops.    *)
SavingEnds == editor.status = "saving" ~> editor.status # "saving"
=============================================================================
