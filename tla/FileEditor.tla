----------------------------- MODULE FileEditor -----------------------------
(***************************************************************************)
(* The preview and editor of a remote file (FilePreview in app.js): files  *)
(* are opened, refreshed, edited and saved over a socket whose answers may *)
(* be late or lost, while others change the same files on the server       *)
(* (save_file in socket_events.py checks the revision).                    *)
(* A text is the number of the edit that made it.                          *)
(***************************************************************************)
EXTENDS Naturals, Sequences

CONSTANTS Paths,          \* files of one source
          NoPath,
          SwapNeeded,     \* the source cannot replace a file in one step
          MaxRequests,    \* bound: requests of the editor
          MaxTexts        \* bound: edits, by the user or by others

VARIABLES files,          \* what the server stores: revision and text
          ed,             \* FilePreview
          toServer, toEditor,
          editorUp,       \* the socket is connected
          texts,          \* edits made so far
          ghost           \* what the properties speak of

editorVars == <<files, ed, toServer, toEditor, editorUp, texts, ghost>>

Closed == [path |-> NoPath, modal |-> FALSE, view |-> NoPath, editable |-> FALSE, previewId |-> 0, editId |-> 0, saveId |-> 0,
           editing |-> FALSE, dirty |-> FALSE, base |-> 0, text |-> 0, pending |-> FALSE, saves |-> {},
           lastSaved |-> 0, swap |-> FALSE, seq |-> 0]

\* A request of the editor; an orphan is one of a lost socket. And its answer.
FileRequest(kind, id, p) == [kind |-> kind, id |-> id, path |-> p, text |-> 0, rev |-> 0, swap |-> FALSE, orphan |-> FALSE]
FileAnswer(kind, m) == [kind |-> kind, id |-> m.id, path |-> m.path, ok |-> TRUE, rev |-> 0, text |-> 0, warn |-> FALSE, swapNeeded |-> FALSE]

\* Text in the editor that the server is not known to have.
Unsaved == ed.editing /\ ed.text # ghost.kept

\* The editor stops showing its text; the user may have been asked.
Leaves(asked) == ghost' = [ghost EXCEPT !.lost = @ \/ (Unsaved /\ ~asked)]

-----------------------------------------------------------------------------
(* The preview.                                                             *)

\* open: every open starts in a clean state.
Opened(p) ==
    /\ ed' = [ed EXCEPT !.path = p, !.modal = TRUE, !.view = NoPath, !.editable = FALSE, !.seq = @ + 1, !.previewId = ed.seq + 1,
                        !.editId = 0, !.saveId = 0, !.editing = FALSE, !.dirty = FALSE, !.pending = FALSE, !.saves = {}]
    /\ toServer' = Append(toServer, FileRequest("preview", ed.seq + 1, p))

OpenFile(p) ==
    /\ ~ed.modal /\ ed.seq < MaxRequests
    /\ Opened(p) /\ Leaves(FALSE)
    /\ UNCHANGED <<files, toEditor, editorUp, texts>>

\* refresh: its button is hidden while a file is edited.
RefreshFile ==
    /\ ed.modal /\ ~ed.editing /\ ed.path # NoPath /\ ed.seq < MaxRequests
    /\ Opened(ed.path) /\ Leaves(FALSE)
    /\ UNCHANGED <<files, toEditor, editorUp, texts>>

\* handlePreviewData, handlePreviewError and the handler of an image: only the
\* answer to the last request is shown.
PreviewShown(m) ==
    IF m.id = ed.previewId THEN [ed EXCEPT !.view = IF m.ok THEN m.path ELSE @, !.editable = m.ok] ELSE ed

\* enterEditMode
EnterEditMode ==
    /\ ed.modal /\ ed.editable /\ ~ed.editing /\ ed.seq < MaxRequests
    /\ ed' = [ed EXCEPT !.seq = @ + 1, !.editId = ed.seq + 1]
    /\ toServer' = Append(toServer, FileRequest("edit", ed.seq + 1, ed.path))
    /\ UNCHANGED <<files, toEditor, editorUp, texts, ghost>>

\* handleEditData, handleEditError: matchesResponse and the path.
EditMatches(m) == m.id = ed.editId /\ m.path = ed.path

EditLoaded(m) ==
    IF EditMatches(m) /\ m.ok
    THEN /\ ed' = [ed EXCEPT !.editing = TRUE, !.dirty = FALSE, !.base = m.rev, !.text = m.text]
         /\ ghost' = [ghost EXCEPT !.lost = @ \/ Unsaved, !.kept = m.text, !.seen = {m.text}]
    ELSE UNCHANGED <<ed, ghost>>

\* markDirty: the user types.
EditText ==
    /\ ed.modal /\ ed.editing /\ texts < MaxTexts
    /\ texts' = texts + 1
    /\ ed' = [ed EXCEPT !.text = texts + 1, !.dirty = TRUE]
    /\ UNCHANGED <<files, toServer, toEditor, editorUp, ghost>>

-----------------------------------------------------------------------------
(* Saving.                                                                  *)

\* saveEdit
Saving(e, swap) ==
    /\ ed' = [e EXCEPT !.seq = @ + 1, !.saveId = e.seq + 1, !.pending = TRUE, !.saves = @ \cup {[id |-> e.seq + 1, text |-> e.text]}]
    /\ toServer' = Append(toServer, [FileRequest("save", e.seq + 1, e.path) EXCEPT !.text = e.text, !.rev = e.base, !.swap = swap])

SaveEdit ==
    /\ ed.modal /\ ed.editing /\ ~ed.pending /\ editorUp /\ ed.seq < MaxRequests
    /\ Saving(ed, ed.swap)
    /\ UNCHANGED <<files, toEditor, editorUp, texts, ghost>>

\* clearPendingSave
Cleared(e) == [e EXCEPT !.saves = {s \in @ : s.id # e.saveId}, !.pending = FALSE, !.saveId = 0]

\* interruptSave, after 30 seconds or with the socket: the identity of the save is
\* kept so that its late answer can still be used.
Interrupted(e) == IF e.pending THEN [e EXCEPT !.pending = FALSE, !.saveId = 0, !.dirty = e.editing] ELSE e

SaveTimesOut ==
    /\ ed.pending /\ ed' = Interrupted(ed)
    /\ UNCHANGED <<files, toServer, toEditor, editorUp, texts, ghost>>

\* exitEditMode
Exited(e) == [Cleared(e) EXCEPT !.saves = {}, !.editing = FALSE, !.dirty = FALSE, !.base = 0]

\* A mutant: a save that is answered ends the edit whatever was typed since.
ExitsWhenSaved(e, s, current) == current

\* handleFileSaved: the edit ends when the text is still the one that was saved.
ExitsAfterSave(e, s, current) == current /\ e.text = s.text

\* An answer that is not of this edit is left out; one that is older than the last
\* changes nothing else.
FileSaved(m) ==
    IF ed.editing /\ m.path = ed.path /\ \E s \in ed.saves : s.id = m.id
    THEN LET s == CHOOSE x \in ed.saves : x.id = m.id
             current == m.id = ed.saveId
             e == [(IF current THEN Cleared(ed) ELSE ed) EXCEPT !.saves = {x \in ed.saves : x.id # m.id}] IN
         IF s.id <= ed.lastSaved THEN ed' = e /\ UNCHANGED <<ghost, toServer>>
         ELSE LET f == [e EXCEPT !.lastSaved = s.id, !.base = m.rev] IN
              /\ ghost' = [ghost EXCEPT !.kept = s.text, !.lost = @ \/ (ExitsAfterSave(ed, s, current) /\ ed.text # s.text)]
              /\ IF ~ExitsAfterSave(ed, s, current) THEN ed' = [f EXCEPT !.dirty = TRUE] /\ UNCHANGED toServer
                 ELSE IF m.warn THEN ed' = [f EXCEPT !.dirty = FALSE] /\ UNCHANGED toServer
                 ELSE /\ ed' = [Exited(f) EXCEPT !.view = NoPath, !.editable = FALSE, !.seq = @ + 1, !.previewId = ed.seq + 1, !.editId = 0]
                      /\ toServer' = Append(toServer, FileRequest("preview", ed.seq + 1, ed.path))
    ELSE UNCHANGED <<ed, ghost, toServer>>

\* handleSocketError: a source that needs the recoverable swap is asked for once.
SaveFailed(m, agrees) ==
    IF m.id # ed.saveId \/ m.id = 0 THEN UNCHANGED <<ed, toServer>>
    ELSE IF m.swapNeeded /\ (agrees \/ ed.swap) /\ ed.editing /\ editorUp /\ ed.seq < MaxRequests
    THEN Saving([Cleared(ed) EXCEPT !.swap = TRUE], TRUE)
    ELSE ed' = Cleared(ed) /\ UNCHANGED toServer

-----------------------------------------------------------------------------
(* Leaving the editor.                                                      *)

\* cancelEdit: asks when there are unsaved changes.
CancelEdit ==
    /\ ed.modal /\ ed.editing
    /\ ed' = Exited(ed) /\ Leaves(ed.dirty)
    /\ UNCHANGED <<files, toServer, toEditor, editorUp, texts>>

\* close: asks when there are unsaved changes.
ClosePreview ==
    /\ ed.modal
    /\ ed' = [Closed EXCEPT !.lastSaved = ed.lastSaved, !.swap = ed.swap, !.seq = ed.seq]
    /\ Leaves(ed.dirty)
    /\ UNCHANGED <<files, toServer, toEditor, editorUp, texts>>

\* The Escape key and a click beside the dialog also reach the page's own handlers,
\* which hide the dialog and nothing more.
EscapePreview ==
    /\ ed.modal
    /\ ed' = [ed EXCEPT !.modal = FALSE]
    /\ ghost' = [ghost EXCEPT !.escaped = @ \/ Unsaved]
    /\ UNCHANGED <<files, toServer, toEditor, editorUp, texts>>

-----------------------------------------------------------------------------
(* The server, the socket and others who write.                             *)

\* One answer of the server; a save writes when the revision is still the one the
\* editor was given.
Served(m, ok, warn) ==
    LET f == files[m.path] IN
    IF m.kind = "preview" THEN [FileAnswer("preview", m) EXCEPT !.ok = ok]
    ELSE IF m.kind = "edit" THEN [FileAnswer("edit", m) EXCEPT !.ok = ok, !.rev = f.rev, !.text = f.text]
    ELSE IF ok THEN [FileAnswer("saved", m) EXCEPT !.rev = f.rev + 1, !.warn = warn]
    ELSE [FileAnswer("failed", m) EXCEPT !.swapNeeded = f.rev = m.rev /\ SwapNeeded /\ ~m.swap]

\* handle_save_file
MaySave(m) == files[m.path].rev = m.rev /\ (m.swap \/ ~SwapNeeded)

ServeEditor(ok, warn) ==
    /\ toServer # <<>>
    /\ LET m == Head(toServer) IN
       /\ m.orphan \/ editorUp
       /\ m.kind = "save" /\ ok => MaySave(m)
       /\ m.kind # "save" \/ ~ok => ~warn
       /\ files' = IF m.kind = "save" /\ ok THEN [files EXCEPT ![m.path] = [rev |-> @.rev + 1, text |-> m.text]] ELSE files
       /\ ghost' = IF m.kind = "save" /\ ok
                   THEN [ghost EXCEPT !.blind = @ \/ (~m.orphan /\ m.path = ed.path /\ ed.editing /\ files[m.path].text \notin ghost.seen),
                                      !.seen = @ \cup {m.text}]
                   ELSE ghost
       /\ toEditor' = IF m.orphan THEN toEditor ELSE Append(toEditor, Served(m, ok, warn))
    /\ toServer' = Tail(toServer)
    /\ UNCHANGED <<ed, editorUp, texts>>

Receive(agrees) ==
    /\ toEditor # <<>> /\ toEditor' = Tail(toEditor)
    /\ LET m == Head(toEditor) IN
       CASE m.kind = "preview" -> ed' = PreviewShown(m) /\ UNCHANGED <<ghost, toServer>>
         [] m.kind = "edit" -> EditLoaded(m) /\ UNCHANGED toServer
         [] m.kind = "saved" -> FileSaved(m)
         [] m.kind = "failed" -> SaveFailed(m, agrees) /\ UNCHANGED ghost
    /\ UNCHANGED <<files, editorUp, texts>>

\* Another user of the server writes the file.
OtherWrites(p) ==
    /\ texts < MaxTexts /\ texts' = texts + 1
    /\ files' = [files EXCEPT ![p] = [rev |-> @.rev + 1, text |-> texts + 1]]
    /\ UNCHANGED <<ed, toServer, toEditor, editorUp, ghost>>

\* The socket is lost: at most the request being served goes on.
LoseSocket(working) ==
    /\ editorUp /\ editorUp' = FALSE
    /\ working => toServer # <<>> /\ Head(toServer).kind = "save"
    /\ toServer' = IF working THEN <<[Head(toServer) EXCEPT !.orphan = TRUE]>> ELSE <<>>
    /\ toEditor' = <<>>
    /\ ed' = Interrupted(ed)
    /\ UNCHANGED <<files, texts, ghost>>

SocketBack == /\ ~editorUp /\ editorUp' = TRUE /\ UNCHANGED <<files, ed, toServer, toEditor, texts, ghost>>

EditorInit ==
    /\ files = [p \in Paths |-> [rev |-> 0, text |-> 0]] /\ ed = Closed /\ toServer = <<>> /\ toEditor = <<>>
    /\ editorUp = TRUE /\ texts = 0 /\ ghost = [kept |-> 0, seen |-> {0}, lost |-> FALSE, blind |-> FALSE, escaped |-> FALSE]

EditorNext ==
    \/ RefreshFile \/ EnterEditMode \/ EditText \/ SaveEdit \/ SaveTimesOut \/ CancelEdit \/ ClosePreview \/ EscapePreview \/ SocketBack
    \/ \E p \in Paths : OpenFile(p) \/ OtherWrites(p)
    \/ \E ok, warn \in BOOLEAN : ServeEditor(ok, warn)
    \/ \E b \in BOOLEAN : Receive(b) \/ LoseSocket(b)

-----------------------------------------------------------------------------
\* Text typed into the editor leaves it only saved or with the user's agreement,
\* whatever answers arrive late, are lost or belong to another request
\* (handleEditData, handleFileSaved, close, cancelEdit). Dialogs hidden by the
\* Escape key are left out here.
NoEditLost == ghost.lost => ghost.escaped

\* A save of the open editor never replaces a text the editor has neither loaded
\* nor written itself (expected_revision of saveEdit, handleFileSaved, handle_save_file).
NoBlindOverwrite == ~ghost.blind

\* What the editor promises: neither the user's text nor another writer's is lost
\* without a word (FilePreview of app.js, write_file_text).
EditsSafe == NoEditLost /\ NoBlindOverwrite
=============================================================================
