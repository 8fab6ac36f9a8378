-------------------------- MODULE TransferPromise --------------------------
(***************************************************************************)
(* What the browser's transfer coordinator promises its listeners: a       *)
(* transfer that was started reports one end, an upload may ask once what  *)
(* to do about an existing destination, and a cancellation either ends the *)
(* transfer at once or is announced as under way.  BinaryTransferClient    *)
(* implements it, TransferQueue is built on it.                            *)
(***************************************************************************)
CONSTANTS Uploads, Downloads

VARIABLE promise

Transfers == Uploads \cup Downloads

Promised == [phase : {"absent", "running", "asking", "ended"},
             result : {"none", "completed", "cancelled", "skipped", "error"},
             asked : BOOLEAN, cancelling : BOOLEAN]

NotStarted == [phase |-> "absent", result |-> "none", asked |-> FALSE,
               cancelling |-> FALSE]

Going(t) == promise[t].phase \in {"running", "asking"}

\* uploadFile, downloadFile, downloadFolder
Begin(t) ==
    /\ promise[t].phase = "absent"
    /\ promise' = [promise EXCEPT ![t].phase = "running"]

\* onConflict is called, once.
AskUser(t) ==
    /\ t \in Uploads /\ promise[t].phase = "running" /\ ~promise[t].asked
    /\ promise' = [promise EXCEPT ![t].phase = "asking", ![t].asked = TRUE]

Ended(t, result) ==
    promise' = [promise EXCEPT ![t].phase = "ended", ![t].result = result,
                               ![t].asked = FALSE, ![t].cancelling = FALSE]

\* The promise of onConflict resolves.
Answer(t, decision) ==
    /\ promise[t].phase = "asking"
    /\ CASE decision = "replace" -> promise' = [promise EXCEPT ![t].phase = "running"]
         [] decision = "skip" -> Ended(t, "skipped")
         [] OTHER -> Ended(t, "cancelled")

\* cancelTransfer
Cancel(t) ==
    /\ Going(t) /\ ~promise[t].cancelling
    /\ \/ promise' = [promise EXCEPT ![t].cancelling = TRUE]
       \/ Ended(t, "cancelled")

\* The event complete, error or cancel.
End(t) ==
    /\ Going(t)
    /\ \E result \in {"completed", "cancelled", "error"} : Ended(t, result)

PromiseInit == promise = [t \in Transfers |-> NotStarted]

PromiseNext ==
    \E t \in Transfers :
        \/ Begin(t) \/ AskUser(t) \/ Cancel(t) \/ End(t)
        \/ \E d \in {"replace", "skip", "cancel"} : Answer(t, d)

PromiseSpec == PromiseInit /\ [][PromiseNext]_promise

=============================================================================
