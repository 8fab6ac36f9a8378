-------------------------- MODULE TransferManager --------------------------
(***************************************************************************)
(* The transfer registry of app/transfer_manager.py: transfer records,     *)
(* one-use tokens and TRANSFER quota slots.  Every public method of the    *)
(* class runs under the manager's single lock, so each is one action; the  *)
(* callers (HTTP routes, Socket.IO handlers, background jobs, shutdown)    *)
(* are unconstrained here.  TransferRequests adds their program order.     *)
(*                                                                         *)
(* Abstraction.  Transfer ids and tokens come from secrets.token_urlsafe   *)
(* and never repeat, so a transfer is a model value that is created at     *)
(* most once and stands for its token too.  The clock is one bit per       *)
(* transfer: due says that the current deadline (token expiry while        *)
(* pending, retention of the terminal entry afterwards) has passed.        *)
(* Quota counters are the number of unreleased reservations, which is what *)
(* QuotaManager is shown to implement.                                     *)
(***************************************************************************)
EXTENDS Naturals, FiniteSets

CONSTANTS Transfers,      \* transfer ids that may ever be drawn
          Users,          \* application users
          Sids,           \* Socket.IO session ids
          Directions,     \* subset of TransferManager.DIRECTIONS in play
          PerUserLimit,   \* QUOTA_TRANSFER_PER_USER
          GlobalLimit,    \* QUOTA_TRANSFER_GLOBAL
          MaxBindings     \* bound on bind_runtime calls

ASSUME TransfersFinite == IsFiniteSet(Transfers)

\* QuotaManager.__init__ insists that one user can never exhaust the global
\* TRANSFER limit.
ASSUME LimitsAssumption ==
    /\ PerUserLimit \in Nat \ {0}
    /\ GlobalLimit \in Nat
    /\ PerUserLimit < GlobalLimit

ASSUME BindingsAssumption == MaxBindings \in Nat

ASSUME DirectionsAssumption ==
    Directions \subseteq {"upload", "download", "server_to_server"}

VARIABLES rec,        \* every record ever created, terminal ones included
          accepting,  \* _accepting
          binding     \* _runtime_binding: 0 is None, n the n-th bind_runtime

mgrVars == <<rec, accepting, binding>>

Active   == {"pending", "running", "cancelling"}
Terminal == {"cancelled", "failed", "completed"}
States   == {"none"} \cup Active \cup Terminal

NoUser == "no user"
NoSid  == "no sid"
NoDirection == "no direction"

Record == [state  : States,                        \* _state
           user   : Users \cup {NoUser},           \* _user_id
           sid    : Sids \cup {NoSid},             \* _owner_sid
           dir    : Directions \cup {NoDirection}, \* _direction
           token  : BOOLEAN,   \* a token is out and not consumed
           cancel : BOOLEAN,   \* _cancel_event is set
           quota  : BOOLEAN,   \* _quota_reservation is not released
           holds  : BOOLEAN,   \* _source_holds is not released
           due    : BOOLEAN,   \* the current deadline has passed
           kept   : BOOLEAN]   \* the id is a key of _terminal_states

NotCreated == [state |-> "none", user |-> NoUser, sid |-> NoSid,
               dir |-> NoDirection, token |-> FALSE, cancel |-> FALSE,
               quota |-> FALSE, holds |-> FALSE, due |-> FALSE,
               kept |-> FALSE]

----------------------------------------------------------------------------
(* Operations on one record, all under the manager's lock.                 *)

\* Mutant: the reservation is not released.
FinalizedKeepsQuota(r, target, setCancel, releaseHolds) ==
    [r EXCEPT !.state = target, !.token = FALSE,
              !.cancel = r.cancel \/ setCancel,
              !.holds = r.holds /\ ~releaseHolds,
              !.due = FALSE, !.kept = TRUE]
\* _release_for_terminal followed by _finalize_record_locked: the two are
\* always called together.  The terminal entry starts a new deadline.
FinalizedRecord(r, target, setCancel, releaseHolds) ==
    [r EXCEPT !.state  = target,
              !.token  = FALSE,
              !.cancel = r.cancel \/ setCancel,
              !.quota  = FALSE,
              !.holds  = r.holds /\ ~releaseHolds,
              !.due    = FALSE,
              !.kept   = TRUE]

\* _cleanup_expired_locked on one entry: drop an overdue terminal entry and
\* fail an overdue token that nobody consumed.
Swept(r) ==
    IF r.state = "pending" /\ r.token /\ r.due
    THEN FinalizedRecord(r, "failed", TRUE, TRUE)
    ELSE [r EXCEPT !.kept = r.kept /\ ~r.due]

\* _cancel_records_locked on one record, and the same choice in
\* cancel_with_result: a pending record ends at once, a running one is told
\* to stop and keeps its slot until its worker reports back.
CancelledRecord(r) ==
    CASE r.state = "pending" -> FinalizedRecord(r, "cancelled", TRUE, TRUE)
      [] r.state = "running" -> [r EXCEPT !.state = "cancelling",
                                          !.cancel = TRUE]
      [] OTHER -> r

\* The registry after _cleanup_expired_locked, which every operation runs
\* first.
SweptRecords == [t \in Transfers |-> Swept(rec[t])]

\* Unreleased TRANSFER reservations of user u, and of everybody.
Reserved(f) == {t \in Transfers : f[t].quota}
ReservedBy(f, u) == {t \in Reserved(f) : f[t].user = u}

\* quota_manager.reserve(TRANSFER, u) succeeds.
MayReserve(f, u) ==
    /\ Cardinality(ReservedBy(f, u)) < PerUserLimit
    /\ Cardinality(Reserved(f)) < GlobalLimit

----------------------------------------------------------------------------
(* Operations.                                                             *)

BindRuntime ==
    /\ binding < MaxBindings
    /\ binding' = binding + 1
    /\ accepting' = TRUE
    /\ UNCHANGED rec

NewRecord(u, s, d) ==
    [NotCreated EXCEPT !.state = "pending", !.user = u, !.sid = s, !.dir = d,
                       !.token = TRUE, !.quota = TRUE, !.holds = TRUE]

\* create: the holds on the transfer's sources were taken by the caller and
\* now belong to the record.  A refused create only sweeps, which is
\* CleanupExpired; its caller's holds are released and never reach a record.
Create(t, u, s, d) ==
    LET f == SweptRecords IN
    /\ accepting
    /\ f[t].state = "none"
    /\ MayReserve(f, u)
    /\ rec' = [f EXCEPT ![t] = NewRecord(u, s, d)]
    /\ UNCHANGED <<accepting, binding>>

\* consume_token with the token of t, presented by user u.  An unknown,
\* used, expired or foreign token only sweeps.
ConsumeToken(t, u) ==
    LET f == SweptRecords IN
    /\ accepting
    /\ f[t].token
    /\ f[t].user = u
    /\ f[t].state = "pending"
    /\ rec' = [f EXCEPT ![t].state = "running", ![t].token = FALSE]
    /\ UNCHANGED <<accepting, binding>>

\* cancel_with_result, when it finds the caller's own record.
Cancel(t, u) ==
    LET f == SweptRecords IN
    /\ f[t].state \in Active
    /\ f[t].user = u
    /\ rec' = [f EXCEPT ![t] = CancelledRecord(f[t])]
    /\ UNCHANGED <<accepting, binding>>

CancelAllForUser(u) ==
    /\ rec' = [t \in Transfers |->
                 LET r == Swept(rec[t])
                 IN  IF r.user = u THEN CancelledRecord(r) ELSE r]
    /\ UNCHANGED <<accepting, binding>>

CancelAllForSocket(u, s) ==
    /\ rec' = [t \in Transfers |->
                 LET r == Swept(rec[t])
                 IN  IF r.user = u /\ r.sid = s THEN CancelledRecord(r) ELSE r]
    /\ UNCHANGED <<accepting, binding>>

\* close_and_cancel(b): a stale binding is ignored.
CloseAndCancel(b) ==
    /\ b = binding
    /\ accepting' = FALSE
    /\ rec' = [t \in Transfers |-> CancelledRecord(Swept(rec[t]))]
    /\ UNCHANGED binding

\* The HTTP requests that close_and_cancel tells the shutdown to wait for.
HttpWaiters ==
    {t \in Transfers : /\ rec[t].dir \in {"upload", "download"}
                       /\ rec[t].state \in {"running", "cancelling"}}

\* Mutant: a finished record can be finished again.
TransitionFromAnyState(t, u, allowed, target) ==
    LET f == SweptRecords IN
    /\ f[t].user = u
    /\ f[t].state # "none"
    /\ rec' = [f EXCEPT ![t] =
                 FinalizedRecord(f[t], target, target = "cancelled",
                   ~(target = "cancelled"
                       /\ f[t].state \in {"running", "cancelling"}))]
    /\ UNCHANGED <<accepting, binding>>

\* _transition when it returns True.  A worker that confirms its own
\* cancellation keeps its source holds: its request finalizer returns them.
Transition(t, u, allowed, target) ==
    LET f == SweptRecords IN
    /\ f[t].user = u
    /\ f[t].state \in allowed
    /\ rec' = [f EXCEPT ![t] =
                 FinalizedRecord(f[t], target, target = "cancelled",
                   ~(target = "cancelled"
                       /\ f[t].state \in {"running", "cancelling"}))]
    /\ UNCHANGED <<accepting, binding>>

Complete(t, u) == Transition(t, u, {"running", "cancelling"}, "completed")
Fail(t, u) == Transition(t, u, Active, "failed")
FinishCancelled(t, u) ==
    Transition(t, u, {"running", "cancelling"}, "cancelled")

\* cleanup_expired, called by the cleanup_loop job; also the whole effect of
\* every refused operation above.
CleanupExpired ==
    /\ rec' = SweptRecords
    /\ UNCHANGED <<accepting, binding>>

\* record.release_source_holds, called by whoever consumed the token when
\* its I/O is over.  SourceHoldSet.release runs its callbacks once.
ReleaseSourceHolds(t) ==
    /\ rec[t].holds
    /\ rec[t].state \in Terminal
    /\ rec' = [rec EXCEPT ![t].holds = FALSE]
    /\ UNCHANGED <<accepting, binding>>

\* The monotonic clock passes the current deadline of t.
DeadlinePasses(t) ==
    /\ ~rec[t].due
    /\ rec[t].state = "pending" \/ rec[t].kept
    /\ rec' = [rec EXCEPT ![t].due = TRUE]
    /\ UNCHANGED <<accepting, binding>>

Init ==
    /\ rec = [t \in Transfers |-> NotCreated]
    /\ accepting = TRUE
    /\ binding = 0

Next ==
    \/ BindRuntime
    \/ CleanupExpired
    \/ \E b \in 1..MaxBindings : CloseAndCancel(b)
    \/ \E u \in Users : CancelAllForUser(u)
    \/ \E u \in Users, s \in Sids : CancelAllForSocket(u, s)
    \/ \E t \in Transfers :
         \/ DeadlinePasses(t)
         \/ ReleaseSourceHolds(t)
         \/ \E u \in Users :
              \/ \E s \in Sids, d \in Directions : Create(t, u, s, d)
              \/ ConsumeToken(t, u)
              \/ Cancel(t, u)
              \/ Complete(t, u)
              \/ Fail(t, u)
              \/ FinishCancelled(t, u)

\* cleanup_loop is a job of the runtime and wakes up at a fixed interval
\* until shutdown, when close_and_cancel has already ended every pending
\* record.
Spec == Init /\ [][Next]_mgrVars /\ WF_mgrVars(CleanupExpired)

----------------------------------------------------------------------------
(* Properties.                                                             *)

\* Every record that was ever created names its owner, its socket and its
\* direction (prepare_transfer refuses a request without a socket).
TypeOK ==
    /\ rec \in [Transfers -> Record]
    /\ \A t \in Transfers : rec[t].state # "none" =>
         /\ rec[t].user \in Users
         /\ rec[t].sid \in Sids
         /\ rec[t].dir \in Directions
    /\ accepting \in BOOLEAN
    /\ binding \in 0..MaxBindings

\* A TRANSFER slot is taken exactly while its record is in the registry: no
\* path of expiry, cancellation, completion or failure leaks the reservation,
\* and none returns it while the worker is still running (_cancel_records_locked,
\* _release_for_terminal).
SlotIffActive ==
    \A t \in Transfers : rec[t].quota <=> rec[t].state \in Active

\* A record that can still do I/O retains its sources; a finished one has
\* returned them, except where finish_cancelled leaves that to the finalizer
\* of the request that consumed the token.
HoldsFollowState ==
    \A t \in Transfers :
        /\ rec[t].state \in Active => rec[t].holds
        /\ rec[t].holds => rec[t].state \in Active \cup {"cancelled"}

\* A token can be presented exactly while its record is pending: consumption,
\* expiry, cancellation and failure all withdraw it (consume_token,
\* _finalize_record_locked).
TokenIffPending ==
    \A t \in Transfers : rec[t].token <=> rec[t].state = "pending"

\* Once the cancel event is set no later operation lets the transfer start or
\* carry on as if it had not been cancelled, and a record told to stop has its
\* event set (the workers poll the event, not the state).
CancelEventAgrees ==
    \A t \in Transfers :
        /\ rec[t].cancel => rec[t].state \in {"cancelling"} \cup Terminal
        /\ rec[t].state = "cancelling" => rec[t].cancel

\* A record's resources agree with its state, whichever of expiry, consumption,
\* cancellation, completion and failure came first.
ResourcesFollowState ==
    SlotIffActive /\ HoldsFollowState /\ TokenIffPending /\ CancelEventAgrees

\* After close_and_cancel nothing can start any more and everything that still
\* runs has been told to stop, whatever raced with it ("Atomically reject new
\* transfers and cancel this runtime generation").
ClosedMeansDraining ==
    ~accepting =>
        \A t \in Transfers : rec[t].state \in Active => rec[t].state = "cancelling"

\* The per-user and global TRANSFER limits of QuotaManager.reserve hold for
\* the transfers in the registry.
WithinLimits ==
    /\ \A u \in Users : Cardinality(ReservedBy(rec, u)) <= PerUserLimit
    /\ Cardinality(Reserved(rec)) <= GlobalLimit

\* What the registry keeps true whatever order its callers come in: records with
\* an owner, resources that follow the state, a closed registry that only
\* drains, and the limits.
RegistrySafe ==
    TypeOK /\ ResourcesFollowState /\ ClosedMeansDraining /\ WithinLimits

Rank(s) == CASE s = "none" -> 0 [] s = "pending" -> 1 [] s = "running" -> 2
             [] s = "cancelling" -> 3 [] OTHER -> 4

\* A record only moves forward, keeps its terminal state, its owner and its
\* direction for ever ("a transfer descriptor whose identity binding cannot be
\* reassigned"), and its cancel event is never cleared.
ForwardOnly ==
    [][\A t \in Transfers :
        /\ Rank(rec[t].state) <= Rank(rec'[t].state)
        /\ rec[t].state \in Terminal => rec'[t].state = rec[t].state
        /\ rec[t].state # "none" =>
             /\ rec'[t].user = rec[t].user
             /\ rec'[t].sid = rec[t].sid
             /\ rec'[t].dir = rec[t].dir
        /\ rec[t].cancel => rec'[t].cancel]_mgrVars

============================================================================
