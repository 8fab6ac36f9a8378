------------------------------ MODULE SshInput ------------------------------
(***************************************************************************)
(* Input on its way to the shells (static/js/ssh-input.js and              *)
(* broadcast-input.js): a short input goes out at once, a long one in      *)
(* pieces that are acknowledged one by one, held up by the server's rate   *)
(* limit and abandoned with its whole queue when one of them fails.        *)
(* Sends are numbered; a piece of one is <<send, piece>>.                  *)
(***************************************************************************)
EXTENDS Naturals, Sequences, FiniteSets, SequencesExt

CONSTANTS Consoles,        \* open SSH sessions
          MaxSends,        \* bound: inputs
          MaxPieces,       \* bound: pieces of one input
          MaxRetries,      \* MAX_BACKPRESSURE_RETRIES
          MaxEmits         \* bound: events sent

ASSUME InputAssumption == IsFiniteSet(Consoles)

VARIABLES queues,          \* sessionQueues: the sends of each, <<>> when there is none
          current,         \* what transmit does with the first of them
          inputWire, ackWire,
          received,        \* what each shell was given
          abandoned,       \* sends that were waiting behind one that failed
          sends, emits, online

inputVars == <<queues, current, inputWire, ackWire, received, abandoned, sends, emits, online>>

Resting == [piece |-> 0, id |-> 0, retries |-> 0, pausing |-> FALSE]

\* wait with a payload: one piece is sent, and its acknowledgement awaited.
Emit(s, piece, retries) ==
    /\ emits' = emits + 1
    /\ inputWire' = Append(inputWire, [to |-> s, send |-> Head(queues'[s]).send, piece |-> piece, id |-> emits + 1])
    /\ current' = [current EXCEPT ![s] = [piece |-> piece, id |-> emits + 1, retries |-> retries, pausing |-> FALSE]]

\* send: a short input goes out directly when nothing is queued.
Direct(s, pieces) == queues[s] = <<>> /\ pieces = 1

Send(s, pieces) ==
    /\ online /\ sends < MaxSends /\ emits < MaxEmits
    /\ sends' = sends + 1
    /\ LET job == [send |-> sends + 1, pieces |-> pieces] IN
       IF Direct(s, pieces)
       THEN /\ inputWire' = Append(inputWire, [to |-> s, send |-> sends + 1, piece |-> 1, id |-> 0])
            /\ UNCHANGED <<queues, current, emits>>
       ELSE /\ queues' = [queues EXCEPT ![s] = Append(@, job)]
            /\ IF queues[s] = <<>> THEN Emit(s, 1, 0) ELSE UNCHANGED <<inputWire, current, emits>>
    /\ UNCHANGED <<ackWire, received, abandoned, online>>

\* sendAll: a short line to every connected session.
SendAll ==
    /\ online /\ sends < MaxSends /\ sends' = sends + 1
    /\ queues' = [s \in Consoles |-> IF Direct(s, 1) THEN queues[s] ELSE Append(queues[s], [send |-> sends + 1, pieces |-> 1])]
    /\ inputWire' = inputWire \o [i \in 1 .. Len(SetToSeq({s \in Consoles : Direct(s, 1)})) |->
                                    [to |-> SetToSeq({s \in Consoles : Direct(s, 1)})[i], send |-> sends + 1, piece |-> 1, id |-> 0]]
    /\ UNCHANGED <<current, ackWire, received, abandoned, emits, online>>

\* A mutant: only the input that failed is given up.
QueueCancelledFirst(s) == /\ queues' = [queues EXCEPT ![s] = Tail(@)]
                     /\ abandoned' = abandoned \cup {<<s, queues[s][i].send>> : i \in 2 .. Len(queues[s])}
                     /\ IF Len(queues[s]) > 1 THEN Emit(s, 1, 0)
                        ELSE current' = [current EXCEPT ![s] = Resting] /\ UNCHANGED <<inputWire, emits>>

\* cancelQueue: every send of the queue is given up.
QueueCancelled(s) == /\ queues' = [queues EXCEPT ![s] = <<>>]
                /\ abandoned' = abandoned \cup {<<s, queues[s][i].send>> : i \in 2 .. Len(queues[s])}
                /\ current' = [current EXCEPT ![s] = Resting]
                /\ UNCHANGED <<inputWire, emits>>

\* The acknowledgement of the piece that is waited for; any other is ignored.
AckArrives ==
    /\ ackWire # <<>> /\ ackWire' = Tail(ackWire)
    /\ LET a == Head(ackWire)
           s == a.to
           c == current[s] IN
       IF queues[s] = <<>> \/ c.pausing \/ c.id # a.id THEN UNCHANGED <<queues, current, inputWire, abandoned, emits>>
       ELSE IF a.result = "ok"
       THEN /\ UNCHANGED abandoned
            /\ IF c.piece < Head(queues[s]).pieces
               THEN emits < MaxEmits /\ UNCHANGED queues /\ Emit(s, c.piece + 1, 0)
               ELSE /\ queues' = [queues EXCEPT ![s] = Tail(@)]
                    /\ IF Len(queues[s]) > 1 THEN emits < MaxEmits /\ Emit(s, 1, 0)
                       ELSE current' = [current EXCEPT ![s] = Resting] /\ UNCHANGED <<inputWire, emits>>
       ELSE IF a.result = "limited" /\ c.retries < MaxRetries
       THEN current' = [current EXCEPT ![s].pausing = TRUE] /\ UNCHANGED <<queues, inputWire, abandoned, emits>>
       ELSE emits < MaxEmits /\ QueueCancelled(s)
    /\ UNCHANGED <<received, sends, online>>

\* The pause of a rate limit is over: the piece is sent again.
PauseEnds(s) ==
    /\ current[s].pausing /\ emits < MaxEmits
    /\ UNCHANGED queues /\ Emit(s, current[s].piece, current[s].retries + 1)
    /\ UNCHANGED <<ackWire, received, abandoned, sends, online>>

\* The acknowledgement timed out, or the session ended (cancelSession).
CancelInput(s) ==
    /\ queues[s] # <<>> /\ emits < MaxEmits /\ QueueCancelled(s)
    /\ UNCHANGED <<ackWire, received, sends, online>>

\* disconnected
LoseInput ==
    /\ online /\ online' = FALSE
    /\ queues' = [s \in Consoles |-> <<>>] /\ current' = [s \in Consoles |-> Resting]
    /\ abandoned' = abandoned \cup UNION {{<<s, queues[s][i].send>> : i \in 2 .. Len(queues[s])} : s \in Consoles}
    /\ inputWire' = <<>> /\ ackWire' = <<>>
    /\ UNCHANGED <<received, sends, emits>>

InputBack == ~online /\ online' = TRUE /\ UNCHANGED <<queues, current, inputWire, ackWire, received, abandoned, sends, emits>>

\* handle_ssh_input: written to the shell, held up by the rate limit, or refused.
HandleInput(result) ==
    /\ inputWire # <<>> /\ inputWire' = Tail(inputWire)
    /\ LET m == Head(inputWire) IN
       /\ received' = IF result = "ok" THEN [received EXCEPT ![m.to] = Append(@, <<m.send, m.piece>>)] ELSE received
       /\ ackWire' = IF m.id = 0 THEN ackWire ELSE Append(ackWire, [to |-> m.to, id |-> m.id, result |-> result])
    /\ UNCHANGED <<queues, current, abandoned, sends, emits, online>>

SshInputInit ==
    /\ queues = [s \in Consoles |-> <<>>] /\ current = [s \in Consoles |-> Resting] /\ inputWire = <<>> /\ ackWire = <<>>
    /\ received = [s \in Consoles |-> <<>>] /\ abandoned = {} /\ sends = 0 /\ emits = 0 /\ online = TRUE

SshInputNext ==
    \/ SendAll \/ AckArrives \/ LoseInput \/ InputBack
    \/ \E s \in Consoles : PauseEnds(s) \/ CancelInput(s) \/ \E n \in 1 .. MaxPieces : Send(s, n)
    \/ \E r \in {"ok", "limited", "refused"} : HandleInput(r)

-----------------------------------------------------------------------------
\* What a shell is given of a long input is a beginning of it, in order and with
\* nothing in between or repeated, and nothing that waited behind an input that
\* failed is ever given to it (send, transmit, cancelQueue).
InputInOrder ==
    \A s \in Consoles :
        /\ \A i \in DOMAIN received[s] : received[s][i][2] > 1 => i > 1 /\ received[s][i - 1] = <<received[s][i][1], received[s][i][2] - 1>>
        /\ \A i, j \in DOMAIN received[s] : i # j => received[s][i] # received[s][j]
        /\ \A i \in DOMAIN received[s] : <<s, received[s][i][1]>> \notin abandoned
=============================================================================
