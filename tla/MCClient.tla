----------------------------- MODULE MCClient -----------------------------
(* The parts of the browser that share no state, checked in one run: the    *)
(* initial state chooses the part that runs, the others rest.               *)
EXTENDS SessionPanes, SavedHosts, DirectorySync, SessionTools,
        TerminalOutput, FileEditor, SshInput, CommandTools, WorkspaceLayout,
        SourceDialogs, AccountSecurity

CONSTANTS h1, h2, h3

VARIABLE part

HostEntry(h, g, f, o) == [id |-> h, group |-> g, fav |-> f, order |-> o]
MCHostLists ==
  {<<HostEntry(h1, g, f, 0), HostEntry(h2, Ungrouped, TRUE, o), HostEntry(h3, Ungrouped, FALSE, 1)>> :
     g \in {Ungrouped} \cup Groups, f \in BOOLEAN, o \in {1, NoOrder}}
OneHostList == <<HostEntry(h1, Ungrouped, FALSE, 0)>>

MCInit ==
  /\ part \in {"panes", "hosts", "sync", "tools", "output", "editor", "input",
               "commands", "layout", "dialogs", "security"}
  /\ PaneInit /\ SyncInit /\ ToolInit /\ OutputInit /\ EditorInit
  /\ SshInputInit /\ CommandInit /\ LayoutInit /\ DialogInit /\ SecurityInit
  /\ IF part = "hosts" THEN \E list \in MCHostLists : HostInit(list) ELSE HostInit(OneHostList)
  /\ part # "dialogs" => \A x \in ShareIds : shares[x] = 0
  /\ part # "security" => ~mfa /\ passkeys = {}

MCNext ==
  \/ part = "panes" /\ PaneNext /\ UNCHANGED <<part, hostVars, syncVars, toolVars, outputVars, editorVars, inputVars, commandVars, layoutVars, sourceDialogVars, securityVars>>
  \/ part = "hosts" /\ HostNext /\ UNCHANGED <<part, paneVars, syncVars, toolVars, outputVars, editorVars, inputVars, commandVars, layoutVars, sourceDialogVars, securityVars>>
  \/ part = "sync" /\ SyncNext /\ UNCHANGED <<part, paneVars, hostVars, toolVars, outputVars, editorVars, inputVars, commandVars, layoutVars, sourceDialogVars, securityVars>>
  \/ part = "tools" /\ ToolNext /\ UNCHANGED <<part, paneVars, hostVars, syncVars, outputVars, editorVars, inputVars, commandVars, layoutVars, sourceDialogVars, securityVars>>
  \/ part = "output" /\ OutputNext /\ UNCHANGED <<part, paneVars, hostVars, syncVars, toolVars, editorVars, inputVars, commandVars, layoutVars, sourceDialogVars, securityVars>>
  \/ part = "editor" /\ EditorNext /\ UNCHANGED <<part, paneVars, hostVars, syncVars, toolVars, outputVars, inputVars, commandVars, layoutVars, sourceDialogVars, securityVars>>
  \/ part = "input" /\ SshInputNext /\ UNCHANGED <<part, paneVars, hostVars, syncVars, toolVars, outputVars, editorVars, commandVars, layoutVars, sourceDialogVars, securityVars>>
  \/ part = "commands" /\ CommandNext /\ UNCHANGED <<part, paneVars, hostVars, syncVars, toolVars, outputVars, editorVars, inputVars, layoutVars, sourceDialogVars, securityVars>>
  \/ part = "layout" /\ LayoutNext /\ UNCHANGED <<part, paneVars, hostVars, syncVars, toolVars, outputVars, editorVars, inputVars, commandVars, sourceDialogVars, securityVars>>
  \/ part = "dialogs" /\ DialogNext /\ UNCHANGED <<part, paneVars, hostVars, syncVars, toolVars, outputVars, editorVars, inputVars, commandVars, layoutVars, securityVars>>
  \/ part = "security" /\ SecurityNext /\ UNCHANGED <<part, paneVars, hostVars, syncVars, toolVars, outputVars, editorVars, inputVars, commandVars, layoutVars, sourceDialogVars>>

clientVars == <<part, paneVars, hostVars, syncVars, toolVars, outputVars, editorVars,
                inputVars, commandVars, layoutVars, sourceDialogVars, securityVars>>

ClientSpec == MCInit /\ [][MCNext]_clientVars
=============================================================================
