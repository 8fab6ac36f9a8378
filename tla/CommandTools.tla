---------------------------- MODULE CommandTools ----------------------------
(***************************************************************************)
(* Saved commands in the browser: the library and its form                 *)
(* (command-library.js), the builder of command sets                       *)
(* (command-set-manager.js), the panel that inserts them into a shell      *)
(* (session-command-launcher.js) and the choice of a command for a new     *)
(* connection (connection-command-manager.js).  A command is one line      *)
(* ("line"), several ("multi") or does not exist ("none").  The server     *)
(* answers each request at once, the answers arrive later.                 *)
(***************************************************************************)
EXTENDS Naturals, Sequences, SequencesExt

CONSTANTS SavedCommands,    \* identities a user's commands can have
          CommandSets,      \* identities a user's command sets can have
          NoCommand,
          MaxCommandActs    \* bound: steps of the user and of other tabs

VARIABLES shelf,            \* the server's commands
          kits,             \* the server's command sets: their steps
          known,            \* commands and resolved command sets of this page
          answers,          \* answers on their way
          panel,            \* SessionCommandLauncher
          form,             \* the form of a command: editingCommandId, pendingSaveCallback
          draft,            \* the builder: editingId, draftSteps
          start,            \* ConnectionCommandManager and CommandSetManager.selectedId
          alive,            \* the shell the panel is for is connected
          inserted,         \* the last insertion
          wrongStep,        \* history: a step was replaced by what was not saved for it
          leftover,         \* history: an addition was left behind by its form, or sent twice
          commandActs

commandVars == <<shelf, kits, known, answers, panel, form, draft, start, alive, inserted, wrongStep, leftover, commandActs>>

Kinds == {"line", "multi"}
Entries == SavedCommands \cup CommandSets
KindOf(step) == IF step \in Kinds THEN step ELSE shelf[step]

\* load_command_sets_with_resolution: what a set resolves to.
ResolvedKit(steps) == IF steps = <<>> THEN "none"
                      ELSE IF \E i \in DOMAIN steps : KindOf(steps[i]) = "none" THEN "none"
                      ELSE IF \E i \in DOMAIN steps : KindOf(steps[i]) = "multi" THEN "multi" ELSE "line"

\* commands_list and command_sets_list as the server would send them now; the step
\* is that of the form an added command was saved with, which the page does not note.
Lists(lib, sets) == [kind |-> "lists", lib |-> lib, sets |-> [x \in CommandSets |-> sets[x]], of |-> NoCommand,
                     step |-> 0]
Act == commandActs < MaxCommandActs /\ commandActs' = commandActs + 1

-----------------------------------------------------------------------------
(* The panel of the session.                                                *)

\* commandEntry, commandSetEntry: an entry that may be inserted.
EntryKind(e) == IF e \in SavedCommands THEN known.lib[e] ELSE known.sets[e]

\* render: what the panel offers; it is drawn again after every list, a moment later.
Drawn == [panel EXCEPT !.shown = {e \in Entries : alive /\ EntryKind(e) = "line"}, !.due = FALSE]

TogglePanel ==
    /\ Act /\ panel' = IF panel.open THEN [panel EXCEPT !.open = FALSE] ELSE [Drawn EXCEPT !.open = TRUE]
    /\ UNCHANGED <<shelf, kits, known, answers, form, draft, start, alive, inserted, wrongStep, leftover>>

RedrawPanel ==
    /\ panel.due /\ panel' = Drawn
    /\ UNCHANGED <<shelf, kits, known, answers, form, draft, start, alive, inserted, wrongStep, leftover, commandActs>>

\* The shell ends, or another is selected that is connected (sync a moment later).
ShellChanges ==
    /\ Act /\ alive' = ~alive /\ panel' = [panel EXCEPT !.due = TRUE]
    /\ UNCHANGED <<shelf, kits, known, answers, form, draft, start, inserted, wrongStep, leftover>>

\* A mutant: what was drawn is believed.
InsertableAsDrawn(e) == e \in panel.shown

\* insert: the entry and the session are looked up again.
Insertable(e) == alive /\ EntryKind(e) = "line"

InsertCommand(e) ==
    /\ Act /\ panel.open /\ e \in panel.shown
    /\ IF Insertable(e) THEN inserted' = [kind |-> EntryKind(e), live |-> alive] /\ UNCHANGED panel
       ELSE panel' = Drawn /\ UNCHANGED inserted
    /\ UNCHANGED <<shelf, kits, known, answers, form, draft, start, alive, wrongStep, leftover>>

-----------------------------------------------------------------------------
(* The library and its form.                                                *)

\* showAddCommandForm, from the library or to promote a step; copyCommand leaves
\* the callback of an earlier form as it is.
ShowAddForm == /\ Act /\ ~form.open /\ form' = [form EXCEPT !.open = TRUE, !.editing = NoCommand, !.callback = 0]
               /\ UNCHANGED <<shelf, kits, known, answers, panel, draft, start, alive, inserted, wrongStep, leftover>>

PromoteStep(i) ==
    /\ Act /\ draft.open /\ ~form.open /\ i \in DOMAIN draft.steps /\ draft.steps[i] \in Kinds
    /\ form' = [open |-> TRUE, editing |-> NoCommand, callback |-> i]
    /\ draft' = [draft EXCEPT !.promoted = i]
    /\ UNCHANGED <<shelf, kits, known, answers, panel, start, alive, inserted, wrongStep, leftover>>

CopyOrEdit(c, edits) ==
    /\ Act /\ ~form.open /\ known.lib[c] # "none"
    /\ form' = [form EXCEPT !.open = TRUE, !.editing = IF edits THEN c ELSE NoCommand]
    /\ UNCHANGED <<shelf, kits, known, answers, panel, draft, start, alive, inserted, wrongStep, leftover>>

\* An addition waits for its answer.
Adding == \E i \in DOMAIN answers : answers[i].kind = "added"

\* closeCommandForm
FormClosed == [open |-> FALSE, editing |-> NoCommand, callback |-> 0]
CloseForm == /\ Act /\ form.open /\ form' = FormClosed /\ draft' = [draft EXCEPT !.promoted = 0]
             /\ leftover' = (leftover \/ Adding)
             /\ UNCHANGED <<shelf, kits, known, answers, panel, start, alive, inserted, wrongStep>>
\* Escape hides the form and nothing more.
EscapeForm == /\ Act /\ form.open /\ form' = [form EXCEPT !.open = FALSE] /\ leftover' = TRUE
              /\ UNCHANGED <<shelf, kits, known, answers, panel, draft, start, alive, inserted, wrongStep>>

\* saveCommand: an update closes the form at once, an addition when it is answered;
\* until then the form can be sent again.
SaveForm(c, k) ==
    /\ Act /\ form.open
    /\ c = form.editing \/ (form.editing = NoCommand /\ shelf[c] = "none")
    /\ shelf' = [shelf EXCEPT ![c] = k]
    /\ IF form.editing # NoCommand
       THEN /\ form' = FormClosed /\ UNCHANGED leftover
            /\ answers' = Append(answers, Lists(shelf', [x \in CommandSets |-> ResolvedKit(kits[x])]))
       ELSE /\ UNCHANGED form /\ leftover' = (leftover \/ Adding)
            /\ answers' = answers \o <<Lists(shelf', [x \in CommandSets |-> ResolvedKit(kits[x])]),
                                       [Lists(shelf', kits) EXCEPT !.kind = "added", !.of = c, !.step = form.callback]>>
    /\ UNCHANGED <<kits, known, panel, draft, start, alive, inserted, wrongStep>>

\* deleteCommand: a command that a set uses stays.
DeleteCommand(c) ==
    /\ Act /\ known.lib[c] # "none"
    /\ shelf' = IF \E x \in CommandSets : c \in Range(kits[x]) THEN shelf ELSE [shelf EXCEPT ![c] = "none"]
    /\ answers' = Append(answers, Lists(shelf', [x \in CommandSets |-> ResolvedKit(kits[x])]))
    /\ UNCHANGED <<kits, known, panel, form, draft, start, alive, inserted, wrongStep, leftover>>

\* Another tab changes a command.
OtherTabEdits(c) ==
    /\ Act /\ shelf[c] # "none" /\ shelf' = [shelf EXCEPT ![c] = IF @ = "line" THEN "multi" ELSE "line"]
    /\ UNCHANGED <<kits, known, answers, panel, form, draft, start, alive, inserted, wrongStep, leftover>>

-----------------------------------------------------------------------------
(* The builder of command sets.                                             *)

\* openBuilder; the page's copy of the set is taken to be the one it was last sent.
OpenBuilder(x, returns) ==
    /\ Act /\ ~draft.open /\ ~form.open
    /\ draft' = [open |-> TRUE, editing |-> x, steps |-> kits[x], returns |-> returns, promoted |-> 0]
    /\ UNCHANGED <<shelf, kits, known, answers, panel, form, start, alive, inserted, wrongStep, leftover>>

\* addLibraryStep, the button for free text, handleStepAction, moveStep
EditSteps ==
    /\ Act /\ draft.open /\ ~form.open
    /\ \/ \E s \in {c \in SavedCommands : known.lib[c] # "none"} \cup {"line"} :
             Len(draft.steps) < 2 /\ draft' = [draft EXCEPT !.steps = Append(@, s)]
       \/ \E i \in DOMAIN draft.steps : draft' = [draft EXCEPT !.steps = RemoveAt(@, i)]
       \/ Len(draft.steps) > 1 /\ draft' = [draft EXCEPT !.steps = Reverse(@)]
    /\ UNCHANGED <<shelf, kits, known, answers, panel, form, start, alive, inserted, wrongStep, leftover>>

\* save; its answer closes the builder and may select the set for the connection.
SaveKit ==
    /\ Act /\ draft.open /\ ~form.open /\ draft.steps # <<>>
    /\ kits' = [kits EXCEPT ![draft.editing] = draft.steps]
    /\ LET sets == [x \in CommandSets |-> ResolvedKit(kits'[x])] IN
       answers' = answers \o <<Lists(shelf, sets), [Lists(shelf, sets) EXCEPT !.kind = "kitSaved", !.of = draft.editing]>>
    /\ UNCHANGED <<shelf, known, panel, form, draft, start, alive, inserted, wrongStep, leftover>>

\* close, showManagementList
CloseBuilder ==
    /\ Act /\ draft.open /\ ~form.open /\ draft' = [draft EXCEPT !.open = FALSE, !.promoted = 0]
    /\ UNCHANGED <<shelf, kits, known, answers, panel, form, start, alive, inserted, wrongStep, leftover>>

DeleteKit(x) ==
    /\ Act /\ ~draft.open /\ known.sets[x] # "none"
    /\ kits' = [kits EXCEPT ![x] = <<>>]
    /\ LET sets == [y \in CommandSets |-> ResolvedKit(kits'[y])] IN
       answers' = answers \o <<Lists(shelf, sets), [Lists(shelf, sets) EXCEPT !.kind = "kitDeleted", !.of = x]>>
    /\ UNCHANGED <<shelf, known, panel, form, draft, start, alive, inserted, wrongStep, leftover>>

-----------------------------------------------------------------------------
(* The command of a new connection.                                         *)

\* selectForConnection draws the list from its own copy of the choice.
Selected(st, x) == [st EXCEPT !.selected = x, !.list = x]

\* The change handler of the list, applyProfile and clear set both copies.
Chosen(st, x) == [Selected(st, x) EXCEPT !.set = x, !.list = x]

\* setCommandSets draws the list from one copy, onDataChanged from the other.
ListsDrawn(st) == [st EXCEPT !.list = st.set]

ChooseKit(x) ==
    /\ Act /\ start' = [Chosen(start, x) EXCEPT !.diverged = IF x = start.set THEN @ ELSE FALSE]
    /\ UNCHANGED <<shelf, kits, known, answers, panel, form, draft, alive, inserted, wrongStep, leftover>>

\* The language changes: renderSelect from the one copy, then render from the other.
LanguageChanges ==
    /\ Act /\ start.list # start.set /\ start' = ListsDrawn(start)
    /\ UNCHANGED <<shelf, kits, known, answers, panel, form, draft, alive, inserted, wrongStep, leftover>>

-----------------------------------------------------------------------------
(* Answers.                                                                 *)

\* setCommands and setCommandSets; the callbacks of add_command, save_command_set
\* and delete_command_set.
AnswerArrives ==
    /\ answers # <<>> /\ answers' = Tail(answers)
    /\ LET a == Head(answers) IN
       CASE a.kind = "lists" ->
              /\ known' = [lib |-> a.lib, sets |-> a.sets] /\ panel' = [panel EXCEPT !.due = TRUE]
              /\ start' = ListsDrawn(start) /\ UNCHANGED <<form, draft, wrongStep>>
         [] a.kind = "added" ->
              /\ form' = FormClosed
              /\ draft' = IF form.callback \in DOMAIN draft.steps
                          THEN [draft EXCEPT !.steps[form.callback] = a.of, !.promoted = 0] ELSE [draft EXCEPT !.promoted = 0]
              /\ wrongStep' = (wrongStep \/ (form.callback # 0 /\ {form.callback} # {draft.promoted, a.step}))
              /\ UNCHANGED <<known, panel, start>>
         [] a.kind = "kitSaved" ->
              /\ draft' = [draft EXCEPT !.open = FALSE]
              /\ start' = IF draft.returns THEN [Selected(start, a.of) EXCEPT !.diverged = TRUE] ELSE start
              /\ UNCHANGED <<known, panel, form, wrongStep>>
         [] a.kind = "kitDeleted" ->
              /\ start' = IF start.selected = a.of THEN [Selected(start, NoCommand) EXCEPT !.diverged = TRUE] ELSE start
              /\ UNCHANGED <<known, panel, form, draft, wrongStep>>
    /\ UNCHANGED <<shelf, kits, alive, inserted, leftover, commandActs>>

CommandInit ==
    /\ shelf = [c \in SavedCommands |-> IF c = CHOOSE d \in SavedCommands : TRUE THEN "line" ELSE "none"]
    /\ kits = [x \in CommandSets |-> <<"line">>] /\ known = [lib |-> shelf, sets |-> [x \in CommandSets |-> "line"]]
    /\ answers = <<>> /\ panel = [open |-> FALSE, shown |-> {}, due |-> FALSE]
    /\ form = [open |-> FALSE, editing |-> NoCommand, callback |-> 0] /\ draft = [open |-> FALSE, editing |-> NoCommand, steps |-> <<>>, returns |-> FALSE, promoted |-> 0]
    /\ start = [set |-> NoCommand, selected |-> NoCommand, list |-> NoCommand, diverged |-> FALSE]
    /\ alive = TRUE /\ inserted = [kind |-> "line", live |-> TRUE] /\ wrongStep = FALSE /\ leftover = FALSE /\ commandActs = 0

CommandNext ==
    \/ TogglePanel \/ RedrawPanel \/ ShellChanges \/ ShowAddForm \/ CloseForm \/ EscapeForm
    \/ EditSteps \/ SaveKit \/ CloseBuilder \/ LanguageChanges \/ AnswerArrives
    \/ \E e \in Entries : InsertCommand(e)
    \/ \E i \in 1 .. 2 : PromoteStep(i)
    \/ \E c \in SavedCommands : DeleteCommand(c) \/ OtherTabEdits(c) \/ (\E k \in Kinds : SaveForm(c, k)) \/ \E b \in BOOLEAN : CopyOrEdit(c, b)
    \/ \E x \in CommandSets : DeleteKit(x) \/ ChooseKit(x) \/ \E b \in BOOLEAN : OpenBuilder(x, b)

-----------------------------------------------------------------------------
\* Inserting a command never runs it: what is typed into the shell is one line, also
\* when the command or the session changed after the panel was drawn (insert of
\* session-command-launcher.js).
NeverRunsUnasked == inserted.kind = "line" /\ inserted.live

\* What was saved for a promoted step replaces that step and no other, unless a form
\* was left with Escape or before its answer, or was sent again before its answer:
\* pendingSaveCallback is read when the answer comes, and by then the form may wait
\* for another step (promoteInlineStep, saveCommand).
PromotesItsStep == wrongStep => leftover

\* The list of the connection dialog shows the command set the connection will
\* use, whichever of the two copies of the choice it is drawn from; creating or
\* deleting the set from the dialog is left out (selectForConnection, getPayload).
ShownSetIsSent == start.diverged \/ start.list = start.set

\* What the command tools promise: inserting never runs a command, a saved command
\* goes to the step it was promoted from, and the set on the screen is the set of
\* the request (session-command-launcher.js, command-library.js,
\* connection-command-manager.js).
CommandsSafe == NeverRunsUnasked /\ PromotesItsStep /\ ShownSetIsSent
=============================================================================
