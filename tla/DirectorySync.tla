--------------------------- MODULE DirectorySync ---------------------------
(***************************************************************************)
(* The folder of the embedded file pane follows the shell of its session   *)
(* and drives it with cd commands (static/js/session-directory-sync.js).   *)
(* The browser sees the shell through two channels that lag: its output,   *)
(* with the prompt marks in it, and the answers of request_session_        *)
(* directory.  It may type a command only where a prompt waits for one.    *)
(***************************************************************************)
EXTENDS Naturals, Sequences, FiniteSets

CONSTANTS Shells,        \* sessions with a shell
          TmuxShells,    \* those inside tmux, where a prompt need not be announced
          OscShells,     \* those that announce their folder with OSC 7
          NoShell,
          Folders,       \* folders of a shell, numbers; 0 is the one it starts in
          MaxSyncActs    \* bound: steps of the user

VARIABLES shownShell,         \* sessionId of the controller
          synced,        \* isEnabled, by session
          input,         \* trackTerminal: the state of each session's input
          probes,        \* requests on their way; live marks the one in request
          polling,       \* the timer that polls is set
          change,        \* awaitingChange
          oscWaits,      \* pendingOscLocation
          followed,      \* folder the pane was last taken to, with its session
          shell,         \* the remote shells
          keys,          \* input on its way to a shell
          screen,        \* output on its way to the browser
          pasting,       \* sessions with a queue in SSHInput
          ahead,         \* history: sessions where input was typed ahead of the prompt
          mistyped,      \* history: a cd command was sent onto a line in use
          syncActs

syncVars == <<shownShell, synced, input, probes, polling, change, oscWaits, followed, shell, keys, screen,
              pasting, ahead, mistyped, syncActs>>
remoteVars == <<shell, keys, screen, pasting>>
controlVars == <<shownShell, synced, probes, polling, change, oscWaits, followed>>
syncHistory == <<ahead, mistyped>>

NoFolder == 99
Key == 97          \* input and output besides commands and prompts, which are folders
EnterKey == 98
LineFeed == 96
ASSUME FoldersAssumption == Folders \cap {NoFolder, Key, EnterKey, LineFeed} = {}
NoChange == [on |-> FALSE, previous |-> NoFolder, polls |-> 0, fresh |-> FALSE]
Requests == {i \in DOMAIN probes : probes[i].live}
Active == shownShell # NoShell /\ shownShell \in synced
Acts == syncActs < MaxSyncActs /\ syncActs' = syncActs + 1

-----------------------------------------------------------------------------
(* What the browser knows of a session's input.                             *)

\* version += 1: tokens of this session no longer hold the current version.
Outdated(ps, s) == [i \in DOMAIN ps |-> IF ps[i].shell = s
                                        THEN [ps[i] EXCEPT !.fresh = FALSE, !.nextFresh = FALSE] ELSE ps[i]]
OutdatedChange(ch, s) == IF s = shownShell THEN [ch EXCEPT !.fresh = FALSE] ELSE ch

NoteInput(s, submits) == [input EXCEPT ![s] = [dirty |-> TRUE, submitted |-> submits, output |-> FALSE]]

\* A mutant: the terminal's mode alone tells that the prompt waits.
CanSendAtPrompt(s, answer) == answer.ready

\* canSend; tmux answers for its pane, otherwise the prompt must have been seen.
CanSend(s, answer) ==
    /\ answer.ready
    /\ \/ ~input[s].dirty
       \/ s \in TmuxShells /\ input[s].submitted /\ input[s].output

-----------------------------------------------------------------------------
(* The controller.                                                          *)

Poll(ps, s, target, fresh) ==
    Append(ps, [shell |-> s, live |-> TRUE, target |-> target, fresh |-> fresh, next |-> NoFolder,
                nextFresh |-> FALSE, ready |-> FALSE, path |-> NoFolder, served |-> FALSE])

\* cancel: no answer of an earlier request is for the controller any more.
Dropped(ps) == [i \in DOMAIN ps |-> [ps[i] EXCEPT !.live = FALSE]]

\* setContext and removeSession; the first poll follows at once.
SetContext(s) ==
    /\ Acts /\ s # shownShell /\ Len(probes) < 2
    /\ shownShell' = s /\ followed' = <<NoShell, NoFolder>>
    /\ change' = NoChange /\ oscWaits' = NoFolder /\ polling' = FALSE
    /\ probes' = IF s \in synced THEN Poll(Dropped(probes), s, NoFolder, TRUE) ELSE Dropped(probes)
    /\ UNCHANGED <<synced, input, remoteVars, syncHistory>>

SetEnabled(on) ==
    /\ Acts /\ shownShell # NoShell /\ on # (shownShell \in synced) /\ Len(probes) < 2
    /\ synced' = IF on THEN synced \cup {shownShell} ELSE synced \ {shownShell}
    /\ change' = NoChange /\ oscWaits' = NoFolder /\ polling' = FALSE
    /\ probes' = IF on THEN Poll(Dropped(probes), shownShell, NoFolder, TRUE) ELSE Dropped(probes)
    /\ UNCHANGED <<shownShell, followed, input, remoteVars, syncHistory>>

\* navigate: while a request is under way the folder waits for its answer.
Navigate(p) ==
    /\ Acts /\ Active
    /\ IF change.on THEN UNCHANGED <<probes, polling, oscWaits>>
       ELSE /\ polling' = FALSE /\ oscWaits' = NoFolder
            /\ IF Requests # {}
               THEN probes' = [i \in DOMAIN probes |-> IF i \in Requests
                                   THEN [probes[i] EXCEPT !.next = p, !.nextFresh = TRUE] ELSE probes[i]]
               ELSE Len(probes) < 2 /\ probes' = Poll(probes, shownShell, p, TRUE)
    /\ UNCHANGED <<shownShell, synced, change, followed, input, remoteVars, syncHistory>>

PollTimer ==
    /\ polling /\ polling' = FALSE
    /\ IF Active /\ Requests = {}
       THEN Len(probes) < 2 /\ probes' = Poll(probes, shownShell, NoFolder, TRUE)
       ELSE UNCHANGED probes
    /\ UNCHANGED <<shownShell, synced, change, oscWaits, followed, input, remoteVars, syncHistory, syncActs>>

RequestTimesOut ==
    /\ Requests # {}
    /\ probes' = Dropped(probes) /\ change' = NoChange /\ polling' = Active
    /\ UNCHANGED <<shownShell, synced, oscWaits, followed, input, remoteVars, syncHistory, syncActs>>

\* handle_request_session_directory: the folder and whether a shell waits.
ServeProbe ==
    \E i \in DOMAIN probes :
      /\ ~probes[i].served /\ \A j \in 1 .. i - 1 : probes[j].served
      /\ LET s == probes[i].shell IN
         probes' = [probes EXCEPT ![i].served = TRUE, ![i].path = shell[s].folder,
                                  ![i].ready = shell[s].line # "running"]
      /\ UNCHANGED <<shownShell, synced, polling, change, oscWaits, followed, input, remoteVars, syncHistory, syncActs>>

\* An answer is heard by the request it belongs to.
Heard(t) == t.live /\ Active

\* The line holds, or is about to get, the user's own input.
LineInUse(s) == \/ shell[s].line = "typed"
                \/ shell[s].line = "running" /\ shell[s].cd = NoFolder
                \/ \E i \in DOMAIN keys[s] : keys[s][i] \in {Key, EnterKey}

\* A cd command: the line is taken as it is on the remote side by then.
SendCd(s, p) ==
    /\ keys' = [keys EXCEPT ![s] = Append(@, p)]
    /\ input' = NoteInput(s, FALSE)
    /\ mistyped' = (mistyped \/ (s \notin ahead /\ LineInUse(s)))
    /\ UNCHANGED <<shell, screen, pasting, ahead>>

\* The answer of an ordinary poll while a change is awaited.
AwaitedAnswer(t) ==
    LET s == shownShell
        confirmed == s \in TmuxShells /\ t.ready /\ t.path # change.previous /\ change.fresh /\ s \notin pasting
        known == [input EXCEPT ![s].dirty = @ /\ ~confirmed]
        polls == change.polls + 1
    IN /\ input' = known
       /\ IF ~t.ready \/ (known[s].dirty /\ ~CanSend(s, t))
          THEN change' = (IF polls >= 6 THEN NoChange ELSE [change EXCEPT !.polls = polls]) /\ UNCHANGED followed
          ELSE IF t.path = change.previous /\ polls < 3
               THEN change' = [change EXCEPT !.polls = polls] /\ UNCHANGED followed
               ELSE change' = NoChange /\ followed' = <<t.shell, t.path>>
       /\ UNCHANGED <<remoteVars, syncHistory>>

\* The answer of a navigation: blocked, followed, or typed as a command.
NavigationAnswer(t) ==
    IF ~t.ready \/ ~CanSend(shownShell, t) \/ ~t.fresh \/ shownShell \in pasting
    THEN UNCHANGED <<input, change, followed, remoteVars, syncHistory>>
    ELSE IF t.path = t.target
    THEN followed' = <<t.shell, t.path>> /\ UNCHANGED <<input, change, remoteVars, syncHistory>>
    ELSE /\ change' = [on |-> TRUE, previous |-> t.path, polls |-> 0, fresh |-> TRUE]
         /\ SendCd(shownShell, t.target) /\ UNCHANGED followed

ProbeAnswered(failed) ==
    /\ probes # <<>> /\ Head(probes).served
    /\ LET t == Head(probes)
           rest == Tail(probes) IN
       IF ~Heard(t)
       THEN probes' = rest /\ UNCHANGED <<polling, change, followed, input, remoteVars, syncHistory>>
       ELSE IF t.next # NoFolder /\ t.nextFresh
       THEN /\ probes' = Poll(rest, shownShell, t.next, TRUE)
            /\ UNCHANGED <<polling, change, followed, input, remoteVars, syncHistory>>
       ELSE /\ probes' = IF t.target # NoFolder /\ t.next = NoFolder /\ ~failed THEN Outdated(rest, shownShell) ELSE rest
            /\ polling' = TRUE
            /\ IF t.next # NoFolder THEN UNCHANGED <<change, followed, input, remoteVars, syncHistory>>
               ELSE IF failed THEN change' = NoChange /\ UNCHANGED <<followed, input, remoteVars, syncHistory>>
               ELSE IF t.target # NoFolder THEN NavigationAnswer(t)
               ELSE IF change.on THEN AwaitedAnswer(t)
               ELSE followed' = <<t.shell, t.path>> /\ UNCHANGED <<change, input, remoteVars, syncHistory>>
    /\ UNCHANGED <<shownShell, synced, oscWaits, syncActs>>

-----------------------------------------------------------------------------
(* The user at the terminal.                                                *)

\* Every line sent has been executed and shown: a prompt waits in sight.
Settled(s) == shell[s].line # "running" /\ screen[s] = <<>> /\ \A i \in DOMAIN keys[s] : keys[s][i] = Key

Typed(s, submits, more) ==
    /\ input' = NoteInput(s, submits)
    /\ probes' = Outdated(probes, s) /\ change' = OutdatedChange(change, s)
    /\ keys' = [keys EXCEPT ![s] = @ \o more]

Type(s) ==
    /\ Acts
    /\ Typed(s, FALSE, <<Key>>)
    /\ ahead' = IF Settled(s) THEN ahead ELSE ahead \cup {s}
    /\ UNCHANGED <<shownShell, synced, polling, oscWaits, followed, shell, screen, pasting, mistyped>>

Enter(s) ==
    /\ Acts
    /\ Typed(s, TRUE, <<EnterKey>>)
    /\ ahead' = IF Settled(s) THEN ahead ELSE ahead \cup {s}
    /\ UNCHANGED <<shownShell, synced, polling, oscWaits, followed, shell, screen, pasting, mistyped>>

\* A long paste goes out in chunks; its first one submits a line.
Paste(s) ==
    /\ Acts /\ s \notin pasting
    /\ Typed(s, FALSE, <<Key, EnterKey>>)
    /\ pasting' = pasting \cup {s} /\ ahead' = ahead \cup {s}
    /\ UNCHANGED <<shownShell, synced, polling, oscWaits, followed, shell, screen, mistyped>>

PasteEnds(s) ==
    /\ s \in pasting /\ pasting' = pasting \ {s}
    /\ keys' = [keys EXCEPT ![s] = Append(@, Key)]
    /\ UNCHANGED <<controlVars, input, shell, screen, syncHistory, syncActs>>

\* beginReplay to endReplay: the prompts of the transcript do not count.
Replay(s) ==
    /\ Acts
    /\ input' = NoteInput(s, FALSE)
    /\ probes' = Outdated(probes, s) /\ change' = OutdatedChange(change, s)
    /\ UNCHANGED <<shownShell, synced, polling, oscWaits, followed, remoteVars, syncHistory>>

-----------------------------------------------------------------------------
(* The remote shell (external), and what its output does in the browser.    *)

ShellReads(s) ==
    /\ keys[s] # <<>> /\ keys' = [keys EXCEPT ![s] = Tail(@)]
    /\ LET k == Head(keys[s])
           here == shell[s] IN
       IF k = Key THEN shell' = [shell EXCEPT ![s].line = IF @ = "running" THEN @ ELSE "typed",
                                                ![s].left = here.left \/ here.line = "running"] /\ UNCHANGED screen
       ELSE IF here.line = "running" THEN UNCHANGED <<shell, screen>>
       ELSE /\ shell' = [shell EXCEPT ![s].line = "running",
                                      ![s].cd = IF k # EnterKey /\ here.line = "empty" THEN k ELSE NoFolder]
            /\ screen' = [screen EXCEPT ![s] = Append(@, LineFeed)]
    /\ UNCHANGED <<controlVars, input, pasting, syncHistory, syncActs>>

\* A command ends; a cd may fail; what was typed meanwhile is on the new line.
ShellPrompts(s, ok) ==
    /\ shell[s].line = "running"
    /\ shell' = [shell EXCEPT ![s] = [line |-> IF @.left THEN "typed" ELSE "empty", left |-> FALSE, cd |-> NoFolder,
                                      folder |-> IF ok /\ @.cd # NoFolder THEN @.cd ELSE @.folder]]
    /\ \/ screen' = [screen EXCEPT ![s] = Append(@, shell'[s].folder)]
       \/ s \in TmuxShells /\ UNCHANGED screen
    /\ UNCHANGED <<controlVars, input, keys, pasting, syncHistory, syncActs>>

\* applyOscLocation
OscFollows(s, p) ==
    /\ followed' = <<s, p>> /\ oscWaits' = NoFolder /\ polling' = TRUE
    /\ change' = IF change.on /\ p # change.previous THEN NoChange ELSE change

\* A prompt mark clears dirty; a folder announced with it reaches the
\* controller unless a navigation is under way, at once or after the interval.
PromptSeen(s) ==
    /\ screen[s] # <<>> /\ Head(screen[s]) # LineFeed
    /\ screen' = [screen EXCEPT ![s] = Tail(@)]
    /\ input' = [input EXCEPT ![s].dirty = FALSE]
    /\ IF \/ s \notin OscShells \/ s # shownShell \/ ~Active \/ change.on
          \/ \E i \in Requests : probes[i].target # NoFolder \/ probes[i].next # NoFolder
       THEN UNCHANGED <<probes, polling, change, oscWaits, followed>>
       ELSE /\ probes' = Dropped(probes)
            /\ \/ OscFollows(s, Head(screen[s]))
               \/ oscWaits' = Head(screen[s]) /\ polling' = FALSE /\ UNCHANGED <<followed, change>>
    /\ UNCHANGED <<shownShell, synced, shell, keys, pasting, syncHistory, syncActs>>

OscTimer ==
    /\ oscWaits # NoFolder
    /\ IF Active THEN OscFollows(shownShell, oscWaits) ELSE oscWaits' = NoFolder /\ UNCHANGED <<followed, polling, change>>
    /\ UNCHANGED <<shownShell, synced, probes, input, remoteVars, syncHistory, syncActs>>

\* onLineFeed: output of a submitted line; an older probe no longer attests.
LineFeedSeen(s) ==
    /\ screen[s] # <<>> /\ Head(screen[s]) = LineFeed
    /\ screen' = [screen EXCEPT ![s] = Tail(@)]
    /\ LET first == input[s].submitted /\ ~input[s].output IN
       /\ input' = IF first THEN [input EXCEPT ![s].output = TRUE] ELSE input
       /\ probes' = IF first THEN Outdated(probes, s) ELSE probes
       /\ change' = IF first THEN OutdatedChange(change, s) ELSE change
    /\ UNCHANGED <<shownShell, synced, polling, oscWaits, followed, shell, keys, pasting, syncHistory, syncActs>>

SyncInit ==
    /\ shownShell = NoShell /\ synced = Shells
    /\ input = [s \in Shells |-> [dirty |-> FALSE, submitted |-> FALSE, output |-> FALSE]]
    /\ probes = <<>> /\ polling = FALSE /\ change = NoChange /\ oscWaits = NoFolder
    /\ followed = <<NoShell, NoFolder>>
    /\ shell = [s \in Shells |-> [line |-> "empty", left |-> FALSE, cd |-> NoFolder, folder |-> 0]]
    /\ keys = [s \in Shells |-> <<>>] /\ screen = [s \in Shells |-> <<>>]
    /\ pasting = {} /\ ahead = {} /\ mistyped = FALSE /\ syncActs = 0

SyncNext ==
    \/ PollTimer \/ RequestTimesOut \/ ServeProbe \/ OscTimer
    \/ \E failed \in BOOLEAN : ProbeAnswered(failed)
    \/ \E p \in Folders : Navigate(p)
    \/ \E on \in BOOLEAN : SetEnabled(on)
    \/ \E s \in Shells \cap {shownShell} : Type(s) \/ Enter(s) \/ Paste(s) \/ Replay(s)
    \/ \E s \in Shells :
         \/ SetContext(s) \/ PasteEnds(s) \/ ShellReads(s) \/ PromptSeen(s) \/ LineFeedSeen(s)
         \/ \E ok \in BOOLEAN : ShellPrompts(s, ok)

-----------------------------------------------------------------------------
\* A click on a folder never types cd onto a line that is in use: unless the user
\* typed ahead of the prompt, the shell waits on an empty line when the command is
\* sent (poll, canSend, noteInput).
NeverMistypes == ~mistyped

\* The file pane of a session is only taken to folders of its own shell: an answer
\* of the session shownShell before is not followed (the token of poll).
FollowsOwnShell == followed[1] \in {NoShell, shownShell}

\* What folder synchronisation promises: it types only at an empty prompt, and
\* the panel follows the shell it belongs to (session-directory-sync.js).
SyncSafe == NeverMistypes /\ FollowsOwnShell
=============================================================================
