--------------------------- MODULE TerminalOutput ---------------------------
(***************************************************************************)
(* The output of one SSH session on its way to the screen: numbered by the *)
(* server (ssh_manager.py), sent over a socket that may be replaced, kept  *)
(* in a bounded transcript, and written to a terminal that is attached,    *)
(* hidden, resynchronised and rebuilt (static/js/terminal-manager.js).     *)
(* Every event is acknowledged once xterm has taken it, which gives its    *)
(* place in the server's window back.                                      *)
(***************************************************************************)
EXTENDS Naturals, Sequences, FiniteSets, SequencesExt

CONSTANTS MaxChunks,      \* bound: pieces of output
          MaxTranscript,  \* pieces the transcripts keep, here and on the server
          MaxPending,     \* pieces kept for a terminal that is not ready
          OutputWindow,   \* events without acknowledgement the server allows
          MaxDrops        \* bound: losses of the socket

ASSUME OutputAssumption == MaxTranscript \in Nat /\ MaxPending \in Nat

VARIABLES outSeq,         \* output_sequence of the session
          emitted,        \* the last piece the reader has tried to send
          outLink,        \* the socket: "down", "joined", "snapped", "up"
          snapshot,       \* watermark of the snapshot taken for this socket
          outWire,        \* events on their way to the browser
          owed,           \* events of this socket not acknowledged
          resynced,       \* the browser has handled this socket's restored event
          lastNumber,     \* lastOutputSequences
          numbered,       \* sequencedOutput
          transcript,     \* transcripts
          term,           \* "none", "opening", "ready", "syncing"
          heldOutput,     \* pendingOutput of the terminal
          hiddenBatch,    \* backgroundWrites
          inView,         \* isTerminalKeyVisible
          xterm,          \* writes xterm has not finished
          onScreen,       \* what it has
          socketDrops

outputVars == <<outSeq, emitted, outLink, snapshot, outWire, owed, resynced, lastNumber, numbered, transcript, term,
                heldOutput, hiddenBatch, inView, xterm, onScreen, socketDrops>>
serverVars == <<outSeq, emitted, outLink, snapshot, socketDrops>>

\* A write: its pieces, the acknowledgements its callback sends, and whether it is
\* the barrier behind which the terminal is rebuilt.
Write(data, acks) == [data |-> data, acks |-> acks, barrier |-> FALSE]
Barrier == [data |-> <<>>, acks |-> {}, barrier |-> TRUE]
Newest(s, n) == SubSeq(s, IF Len(s) > n THEN Len(s) - n + 1 ELSE 1, Len(s))
UpTo(n) == Newest([i \in 1 .. n |-> i], MaxTranscript)

-----------------------------------------------------------------------------
(* The server.                                                              *)

\* record_output
RecordOutput ==
    /\ outSeq < MaxChunks /\ outSeq = emitted
    /\ outSeq' = outSeq + 1
    /\ UNCHANGED <<emitted, outLink, snapshot, outWire, owed, resynced, lastNumber, numbered, transcript, term, heldOutput, hiddenBatch,
                   inView, xterm, onScreen, socketDrops>>

\* emit_ssh_output: to a socket in the room, when its window has room.
EmitOutput ==
    /\ emitted < outSeq
    /\ outLink # "down" => Cardinality(owed) < OutputWindow
    /\ emitted' = outSeq
    /\ outWire' = IF outLink = "down" THEN outWire ELSE Append(outWire, outSeq)
    /\ owed' = IF outLink = "down" THEN owed ELSE owed \cup {outSeq}
    /\ UNCHANGED <<outSeq, outLink, snapshot, resynced, lastNumber, numbered, transcript, term, heldOutput, hiddenBatch,
                   inView, xterm, onScreen, socketDrops>>

\* A new socket joins the room of its user; restore_user_sessions takes the
\* snapshot and sends it while the reader goes on.
JoinRoom ==
    /\ outLink = "down" /\ outLink' = "joined"
    /\ UNCHANGED <<outSeq, emitted, snapshot, outWire, owed, resynced, lastNumber, numbered, transcript, term, heldOutput, hiddenBatch,
                   inView, xterm, onScreen, socketDrops>>

TakeSnapshot ==
    /\ outLink = "joined" /\ outLink' = "snapped" /\ snapshot' = outSeq
    /\ UNCHANGED <<outSeq, emitted, outWire, owed, resynced, lastNumber, numbered, transcript, term, heldOutput, hiddenBatch,
                   inView, xterm, onScreen, socketDrops>>

\* The restored event: 0 stands for it on the wire.
SendSnapshot ==
    /\ outLink = "snapped" /\ outLink' = "up" /\ outWire' = Append(outWire, 0)
    /\ UNCHANGED <<outSeq, emitted, snapshot, owed, resynced, lastNumber, numbered, transcript, term, heldOutput, hiddenBatch,
                   inView, xterm, onScreen, socketDrops>>

DropSocket ==
    /\ outLink # "down" /\ socketDrops < MaxDrops
    /\ outLink' = "down" /\ outWire' = <<>> /\ owed' = {} /\ resynced' = FALSE /\ socketDrops' = socketDrops + 1
    /\ UNCHANGED <<outSeq, emitted, snapshot, lastNumber, numbered, transcript, term, heldOutput, hiddenBatch, inView, xterm, onScreen>>

-----------------------------------------------------------------------------
(* Writing.                                                                 *)

\* A mutant: a visible terminal is written to at once.
WrittenAtOnce(acks, data) ==
    /\ xterm' = Append(xterm, Write(data, acks)) /\ UNCHANGED <<hiddenBatch, heldOutput, owed>>

\* writeOutputToTerminal, queueBackgroundOutput, flushBackgroundOutput
Written(acks, data) ==
    IF term = "ready" /\ inView
    THEN /\ xterm' = (IF hiddenBatch = <<>> THEN xterm ELSE Append(xterm, Write(hiddenBatch, Range(hiddenBatch)))) \o <<Write(data, acks)>>
         /\ hiddenBatch' = <<>> /\ UNCHANGED <<heldOutput, owed>>
    ELSE IF term = "ready"
    THEN hiddenBatch' = hiddenBatch \o data /\ UNCHANGED <<xterm, heldOutput, owed>>
    ELSE LET all == heldOutput \o data
             over == {all[i] : i \in 1 .. Len(all) - MaxPending} IN
         /\ heldOutput' = Newest(all, MaxPending) /\ owed' = owed \ over
         /\ UNCHANGED <<xterm, hiddenBatch>>

\* writeOutput: a piece seen before is acknowledged and left out.
OutputArrives ==
    /\ outWire # <<>> /\ Head(outWire) # 0
    /\ outWire' = Tail(outWire)
    /\ LET n == Head(outWire) IN
       IF n <= lastNumber
       THEN owed' = owed \ {n} /\ UNCHANGED <<lastNumber, numbered, transcript, heldOutput, hiddenBatch, xterm>>
       ELSE /\ lastNumber' = n
            /\ numbered' = Newest(Append(numbered, n), MaxTranscript)
            /\ transcript' = Newest(Append(transcript, n), MaxTranscript)
            /\ IF term = "none" THEN owed' = owed \ {n} /\ UNCHANGED <<heldOutput, hiddenBatch, xterm>>
               ELSE Written({n}, <<n>>)
    /\ UNCHANGED <<serverVars, resynced, term, inView, onScreen>>

\* The timer of the batch, or the pane is shown (resumeVisibleOutput).
FlushBackground(shows) ==
    /\ IF shows THEN ~inView ELSE hiddenBatch # <<>>
    /\ inView' = (inView \/ shows)
    /\ xterm' = IF hiddenBatch = <<>> THEN xterm ELSE Append(xterm, Write(hiddenBatch, Range(hiddenBatch)))
    /\ hiddenBatch' = <<>>
    /\ UNCHANGED <<serverVars, outWire, owed, resynced, lastNumber, numbered, transcript, term, heldOutput, onScreen>>

HidePane ==
    /\ inView /\ inView' = FALSE
    /\ UNCHANGED <<serverVars, outWire, owed, resynced, lastNumber, numbered, transcript, term, heldOutput, hiddenBatch, xterm, onScreen>>

-----------------------------------------------------------------------------
(* Attaching, and the restored event.                                       *)

\* createTerminal, attachTerminal
Attach ==
    /\ term = "none" /\ resynced
    /\ term' = "opening"
    /\ UNCHANGED <<serverVars, outWire, owed, resynced, lastNumber, numbered, transcript, heldOutput, hiddenBatch, inView, xterm, onScreen>>

\* The terminal is ready: it gets the transcript, which what waits is part of.
\* The last callback acknowledges what waited.
Filled(base) ==
    /\ term' = "ready" /\ heldOutput' = <<>>
    /\ IF transcript = <<>> THEN owed' = owed \ Range(heldOutput) /\ xterm' = base /\ UNCHANGED hiddenBatch
       ELSE IF inView THEN xterm' = Append(base, Write(transcript, Range(heldOutput))) /\ UNCHANGED <<hiddenBatch, owed>>
       ELSE xterm' = base /\ hiddenBatch' = transcript /\ UNCHANGED owed

AttachReady ==
    /\ term = "opening"
    /\ Filled(xterm) /\ onScreen' = <<>>
    /\ UNCHANGED <<serverVars, outWire, resynced, lastNumber, numbered, transcript, inView>>

\* What is newer than the snapshot: a piece is only added with a number above all
\* others, so that the filter keeps an end of the sequence.
Newer == LET last == CHOOSE k \in 0 .. Len(numbered) : \A i \in DOMAIN numbered : numbered[i] > snapshot <=> i > k
         IN SubSeq(numbered, last + 1, Len(numbered))

\* seedRestoredOutput: the snapshot, then what is newer.  Pieces are of one unit,
\* so that the oldest piece is dropped whole, by the transcript and by the slice.
Seeded == LET newer == Newer IN
          /\ numbered' = newer
          /\ transcript' = Newest(UpTo(snapshot) \o newer, MaxTranscript)
          /\ lastNumber' = IF lastNumber > snapshot THEN lastNumber ELSE snapshot

\* resyncRestoredOutput: writes of the lost socket acknowledge nothing any more,
\* and output is held back until the barrier has passed.
HeldBack == /\ term' = "syncing"
            /\ xterm' = Append([i \in DOMAIN xterm |-> [xterm[i] EXCEPT !.acks = {}]], Barrier)

Restored ==
    /\ outWire # <<>> /\ Head(outWire) = 0
    /\ outWire' = Tail(outWire) /\ resynced' = TRUE
    /\ Seeded
    /\ IF term = "ready" THEN HeldBack /\ heldOutput' = <<>> /\ hiddenBatch' = <<>>
       ELSE UNCHANGED <<term, xterm, heldOutput, hiddenBatch>>
    /\ UNCHANGED <<serverVars, owed, inView, onScreen>>

\* xterm finishes a write; behind the barrier the terminal is reset and filled.
Parsed ==
    /\ xterm # <<>>
    /\ LET w == Head(xterm) IN
       IF w.barrier THEN Filled(Tail(xterm)) /\ onScreen' = <<>>
       ELSE /\ onScreen' = Newest(onScreen \o w.data, 2 * MaxTranscript)
            /\ owed' = owed \ w.acks /\ xterm' = Tail(xterm)
            /\ UNCHANGED <<term, heldOutput, hiddenBatch>>
    /\ UNCHANGED <<serverVars, outWire, resynced, lastNumber, numbered, transcript, inView>>

OutputInit ==
    /\ outSeq = 0 /\ emitted = 0 /\ outLink = "joined" /\ snapshot = 0 /\ outWire = <<>> /\ owed = {} /\ resynced = FALSE
    /\ lastNumber = 0 /\ numbered = <<>> /\ transcript = <<>> /\ term = "none" /\ heldOutput = <<>> /\ hiddenBatch = <<>>
    /\ inView = TRUE /\ xterm = <<>> /\ onScreen = <<>> /\ socketDrops = 0

OutputNext ==
    \/ RecordOutput \/ EmitOutput \/ JoinRoom \/ TakeSnapshot \/ SendSnapshot \/ DropSocket
    \/ OutputArrives \/ HidePane \/ Attach \/ AttachReady \/ Restored \/ Parsed
    \/ \E shows \in BOOLEAN : FlushBackground(shows)

-----------------------------------------------------------------------------
\* Once the session is restored on a socket and its terminal ready, the screen shows
\* consecutive output: nothing twice, out of order or missing in between, over
\* losses of the socket, hidden panes and rebuilds (writeOutput, seedRestoredOutput,
\* resyncRestoredOutput, flushBackgroundOutput).
ScreenInOrder ==
    resynced /\ term = "ready" => \A i \in 1 .. Len(onScreen) - 1 : onScreen[i + 1] = onScreen[i] + 1
=============================================================================
