--------------------------- MODULE AccountSecurity ---------------------------
(***************************************************************************)
(* The account security page (webauthn.js) with its step-up client          *)
(* (security-ui.js) and the intents and grants of the server (step_up.py).  *)
(* A change runs as an asynchronous function of several requests and         *)
(* dialogs; several of them run at once and share one confirmation dialog.  *)
(* A flow is one such function call.                                        *)
(***************************************************************************)
EXTENDS Naturals, FiniteSets

CONSTANTS Flows, NoFlow, Factors, NoFactor

ASSUME SecurityAssumption == NoFlow \notin Flows /\ NoFactor \notin Factors

VARIABLES
  flowKind,      \* the operation of each flow
  target,        \* the factor a deleting flow was started for
  stage,         \* where each flow stands
  confirmation,  \* the dialog: the flow it asks for, what it asks, and if text was typed
  typedIn,       \* history: the dialog the text was typed in
  intents,       \* server: the assurance each pending intent requires
  grants,        \* server: the assurance of each grant that is not yet consumed
  mfa,           \* server: User.mfa_enabled
  passkeys,      \* server: registered passkeys
  authenticators,\* server: registered TOTP authenticators
  enrollments,   \* server: flows whose TOTP enrollment waits for its first code
  enrollment,    \* activeTotpEnrollment
  loads,         \* answers of the refreshes that are under way
  surface,       \* what the page shows
  raced          \* history: a deletion overlapped the enabling of MFA, or an
                 \* activation that was given the identity it is about to delete

securityVars == <<flowKind, target, stage, confirmation, typedIn, intents, grants, mfa,
                  passkeys, authenticators, enrollments, enrollment, loads, surface, raced>>
confirmationVars == <<confirmation, typedIn>>
factorVars == <<mfa, passkeys, authenticators>>
accountVars == <<intents, grants, factorVars, enrollments, raced>>
flowVars == <<flowKind, target>>
pageVars == <<enrollment, loads, surface>>

FlowKinds == {"passkey.enroll", "totp.enroll", "mfa.enable", "mfa.disable", "recovery.rotate",
              "passkey.delete", "totp.delete"}
Deletes == {"passkey.delete", "totp.delete"}
Named == {"passkey.enroll", "totp.enroll"}
NoConfirmation == [flow |-> NoFlow, asks |-> "nothing", typed |-> FALSE]
Weak == 1
Strong == 2
Required(m) == IF m THEN Strong ELSE Weak   \* required_assurance_for_user
Account == [mfa |-> mfa, passkeys |-> passkeys, authenticators |-> authenticators]

SecurityInit ==
  /\ flowKind = [f \in Flows |-> "none"] /\ target = [f \in Flows |-> NoFactor]
  /\ stage = [f \in Flows |-> "idle"]
  /\ confirmation = NoConfirmation /\ typedIn = NoConfirmation
  /\ intents = [f \in Flows |-> 0] /\ grants = [f \in Flows |-> 0]
  /\ passkeys \in {{}, {CHOOSE q \in Factors : TRUE}, Factors} /\ mfa \in BOOLEAN
  /\ authenticators \in {{}, Factors \ passkeys} /\ (authenticators # {} => mfa)
  /\ mfa => passkeys \cup authenticators # {}
  /\ enrollments = {} /\ enrollment = NoFlow /\ raced = FALSE
  /\ loads = {} /\ surface = Account

Goes(f, s) == stage' = [stage EXCEPT ![f] = s]
Waiting == {"name", "method", "secret"}

(* ------------------------ the confirmation dialog ---------------------- *)
\* Mutant: the flow that was waiting is not answered.
AfterReplacedForgets(f, asks) == [stage EXCEPT ![f] = asks]

\* requestConfirmation: a flow whose dialog is replaced is answered with null,
\* which ends it.
AfterReplaced(f, asks) ==
  [g \in Flows |-> IF g = f THEN asks
                   ELSE IF g = confirmation.flow THEN "ended" ELSE stage[g]]

\* closeConfirmation resets the form before the next question is asked.
ConfirmationFor(f, asks) == [flow |-> f, asks |-> asks, typed |-> FALSE]

RequestConfirmation(f, asks) ==
  /\ stage' = AfterReplaced(f, asks)
  /\ confirmation' = ConfirmationFor(f, asks)
  /\ UNCHANGED typedIn

TypeConfirmation ==
  /\ confirmation.flow # NoFlow /\ ~confirmation.typed
  /\ confirmation' = [confirmation EXCEPT !.typed = TRUE]
  /\ typedIn' = confirmation
  /\ UNCHANGED <<flowVars, stage, accountVars, pageVars>>

\* Close, cancel, Escape and the backdrop answer the flow with null.
CancelConfirmation ==
  /\ confirmation.flow # NoFlow
  /\ Goes(confirmation.flow, "ended")
  /\ confirmation' = NoConfirmation
  /\ UNCHANGED <<flowVars, typedIn, accountVars, pageVars>>

\* submitConfirmation refuses an empty field; a name has a default, and a method
\* is preselected.
SubmitConfirmation ==
  /\ confirmation.flow # NoFlow
  /\ confirmation.asks = "secret" => confirmation.typed
  /\ confirmation' = NoConfirmation
  /\ Goes(confirmation.flow, CASE confirmation.asks = "name" -> "intent"
                               [] confirmation.asks = "method" -> "chosen"
                               [] OTHER -> "verify")
  /\ UNCHANGED <<flowVars, typedIn, accountVars, pageVars>>

(* --------------------------- starting a change ------------------------- *)
\* What the page offers: the enable and disable buttons follow the loaded state,
\* and every row of the lists has a delete button.
Offered(k, q) ==
  CASE k = "passkey.delete" -> q \in surface.passkeys
    [] k = "totp.delete" -> q \in surface.authenticators
    [] k = "mfa.enable" -> q = NoFactor /\ ~surface.mfa /\ surface.passkeys # {}
    [] k = "mfa.disable" -> q = NoFactor /\ surface.mfa
    [] OTHER -> q = NoFactor

StartChange(f, k, q) ==
  /\ stage[f] = "idle" /\ Offered(k, q)
  /\ flowKind' = [flowKind EXCEPT ![f] = k] /\ target' = [target EXCEPT ![f] = q]
  /\ IF k \in Named THEN RequestConfirmation(f, "name")
     ELSE Goes(f, "intent") /\ UNCHANGED confirmationVars
  /\ UNCHANGED <<accountVars, pageVars>>

(* ----------------------------- authorize ------------------------------- *)
\* Whether the operation fits the account: asked when the intent is created and
\* again when the change is made.
Fits(f) ==
  CASE flowKind[f] = "mfa.enable" -> ~mfa /\ passkeys # {}
    [] flowKind[f] = "mfa.disable" -> mfa
    [] flowKind[f] = "passkey.delete" -> target[f] \in passkeys
    [] flowKind[f] = "totp.delete" -> target[f] \in authenticators
    [] OTHER -> TRUE

\* The server opens an intent that requires what the account requires now, or
\* grants at once when the sign-in is recent and strong enough.
CreateIntent(f) ==
  /\ stage[f] = "intent"
  /\ \/ /\ ~Fits(f) /\ Goes(f, "ended") /\ UNCHANGED <<intents, grants>>
     \/ /\ Fits(f) /\ Goes(f, "opened") /\ intents' = [intents EXCEPT ![f] = Required(mfa)]
        /\ UNCHANGED grants
     \/ /\ Fits(f) /\ Goes(f, "granted") /\ grants' = [grants EXCEPT ![f] = Required(mfa)]
        /\ UNCHANGED intents
  /\ UNCHANGED <<flowVars, confirmationVars, factorVars, enrollments, raced, pageVars>>

\* The answer: several methods are offered in the dialog, one is taken as it is.
MethodsOffered(f) ==
  /\ stage[f] = "opened"
  /\ \/ RequestConfirmation(f, "method")
     \/ Goes(f, "chosen") /\ UNCHANGED confirmationVars
  /\ UNCHANGED <<flowVars, accountVars, pageVars>>

\* A password or a code is asked for in the dialog; a passkey or an identity
\* provider has a ceremony of its own, which may fail or time out.
UseMethod(f) ==
  /\ stage[f] = "chosen"
  /\ \/ RequestConfirmation(f, "secret")
     \/ Goes(f, "verify") /\ UNCHANGED confirmationVars
     \/ Goes(f, "ended") /\ UNCHANGED confirmationVars
  /\ UNCHANGED <<flowVars, accountVars, pageVars>>

\* The evidence is verified: the intent must still require what the account
\* requires, and the grant is at least as strong.
CompleteIntent(f) ==
  /\ stage[f] = "verify"
  /\ \/ /\ intents[f] = Required(mfa)
        /\ \E a \in intents[f] .. Strong : grants' = [grants EXCEPT ![f] = a]
        /\ Goes(f, "granted")
     \/ Goes(f, "ended") /\ UNCHANGED grants
  /\ intents' = [intents EXCEPT ![f] = 0]
  /\ UNCHANGED <<flowVars, confirmationVars, factorVars, enrollments, raced, pageVars>>

(* ---------------------------- the change ------------------------------- *)
\* consume_step_up_grant compares the grant with what the account requires now.
GrantSuffices(f) == grants[f] >= Required(mfa)

\* The grant is consumed before anything else is looked at, except that a change
\* that no longer fits is refused first.
ConsumeGrant(f) ==
  /\ stage[f] = "granted"
  /\ grants' = IF Fits(f) THEN [grants EXCEPT ![f] = 0] ELSE grants
  /\ Goes(f, IF Fits(f) /\ GrantSuffices(f) THEN "admitted" ELSE "ended")
  /\ UNCHANGED <<flowVars, confirmationVars, intents, factorVars, enrollments, raced, pageVars>>

\* The last factor of an account with MFA stays.
LastFactor(f) == mfa /\ flowKind[f] \in Deletes
                 /\ (passkeys \cup authenticators) \subseteq {target[f]}

\* Deletions exclude each other by factor_mutation, enablings by the
\* registration lock; one does not exclude the other.
Unlocked(f) ==
  \A g \in Flows : stage[g] = "checked" => (flowKind[f] \in Deletes) # (flowKind[g] \in Deletes)

Guarded == Deletes \cup {"mfa.enable"}

\* Inside the lock, what the change needs is read again.
CheckChange(f) ==
  /\ stage[f] = "admitted" /\ flowKind[f] \in Guarded /\ Unlocked(f)
  /\ Goes(f, IF Fits(f) /\ ~LastFactor(f) THEN "checked" ELSE "ended")
  /\ raced' = (raced \/ \E g \in Flows :
                           /\ stage[g] = "checked"
                           /\ (flowKind[f] \in Deletes) # (flowKind[g] \in Deletes))
  /\ UNCHANGED <<flowVars, confirmationVars, intents, grants, factorVars, enrollments, pageVars>>

ApplyChange(f) ==
  /\ stage[f] = IF flowKind[f] \in Guarded THEN "checked" ELSE "admitted"
  /\ IF flowKind[f] = "mfa.disable" /\ ~mfa
     THEN Goes(f, "ended") /\ UNCHANGED <<factorVars, enrollments>>
     ELSE /\ Goes(f, IF flowKind[f] = "passkey.enroll" THEN "ceremony" ELSE "done")
          /\ mfa' = CASE flowKind[f] = "mfa.enable" -> TRUE
                      [] flowKind[f] = "mfa.disable" -> FALSE
                      [] OTHER -> mfa
          /\ passkeys' = IF flowKind[f] = "passkey.delete" THEN passkeys \ {target[f]}
                         ELSE passkeys
          /\ authenticators' = CASE flowKind[f] = "totp.delete" -> authenticators \ {target[f]}
                                 [] flowKind[f] = "mfa.disable" -> {}
                                 [] OTHER -> authenticators
          /\ enrollments' = enrollments \cup (IF flowKind[f] = "totp.enroll" THEN {f} ELSE {})
  /\ UNCHANGED <<flowVars, confirmationVars, intents, grants, raced, pageVars>>

FreeFactors == Factors \ (passkeys \cup authenticators)

\* The browser's passkey ceremony: the credential is verified and registered, or
\* the user gives up.
RegisterPasskey(f) ==
  /\ stage[f] = "ceremony"
  /\ \/ /\ \E q \in FreeFactors : passkeys' = passkeys \cup {q}
        /\ Goes(f, "done")
     \/ Goes(f, "ended") /\ UNCHANGED passkeys
  /\ UNCHANGED <<flowVars, confirmationVars, intents, grants, mfa, authenticators, enrollments,
                 raced, pageVars>>

\* The answer: an enrollment is shown with its secret, any other change reloads
\* the page's lists.
ChangeAnswered(f) ==
  /\ stage[f] = "done"
  /\ IF flowKind[f] = "totp.enroll"
     THEN enrollment' = f /\ Goes(f, "enrolled") /\ UNCHANGED loads
     ELSE enrollment' = enrollment /\ Goes(f, "ended") /\ loads' = loads \cup {Account}
  /\ UNCHANGED <<flowVars, confirmationVars, accountVars, surface>>

\* The identity of a row that is gone can be given to the next one, while a deletion
\* that has found the old row still waits to delete it.
Reused(q) == \E g \in Flows : stage[g] = "checked" /\ flowKind[g] = "totp.delete" /\ target[g] = q

\* The first code activates the enrollment that is shown, and MFA with it.
ActivateEnrollment ==
  /\ enrollment \in enrollments /\ stage[enrollment] = "enrolled"
  /\ enrollments' = enrollments \ {enrollment} /\ mfa' = TRUE
  /\ \E q \in FreeFactors :
       authenticators' = authenticators \cup {q} /\ raced' = (raced \/ Reused(q))
  /\ Goes(enrollment, "activated")
  /\ UNCHANGED <<flowVars, confirmationVars, intents, grants, passkeys, pageVars>>

\* Its answer clears the panel, whichever enrollment it shows by then.
ActivationAnswered(f) ==
  /\ stage[f] = "activated"
  /\ Goes(f, "ended") /\ enrollment' = NoFlow /\ loads' = loads \cup {Account}
  /\ UNCHANGED <<flowVars, confirmationVars, accountVars, surface>>

\* The lists show whichever answer arrives last.
SurfaceLoaded ==
  /\ \E answer \in loads : surface' = answer /\ loads' = loads \ {answer}
  /\ UNCHANGED <<flowVars, stage, confirmationVars, accountVars, enrollment>>

SecurityNext ==
  \/ \E f \in Flows : \/ \E k \in FlowKinds, q \in Factors \cup {NoFactor} : StartChange(f, k, q)
                      \/ CreateIntent(f) \/ MethodsOffered(f) \/ UseMethod(f)
                      \/ CompleteIntent(f) \/ ConsumeGrant(f) \/ CheckChange(f) \/ ApplyChange(f)
                      \/ RegisterPasskey(f) \/ ChangeAnswered(f)
                      \/ ActivationAnswered(f)
  \/ TypeConfirmation \/ CancelConfirmation \/ SubmitConfirmation
  \/ ActivateEnrollment \/ SurfaceLoaded

(* ------------------------------ properties ----------------------------- *)
\* The dialog serves one flow at a time: the flow it was opened for is the only
\* one that waits for an answer, and text in its fields was typed for that very
\* question, although a late answer of another flow may take the dialog over.
DialogServesOneFlow ==
  /\ \A f \in Flows : stage[f] \in Waiting <=> confirmation.flow = f
  /\ confirmation.flow # NoFlow => stage[confirmation.flow] = confirmation.asks
  /\ confirmation.typed => typedIn = [confirmation EXCEPT !.typed = FALSE]

\* An account with MFA keeps a factor to sign in with, whichever factors the
\* flows delete at the same time, and whichever flow turns MFA on or off between
\* them. Two overlaps are exempt, since only deletions exclude each other
\* (mfa_factors.py): a deletion that overlaps the enabling of MFA, which takes
\* another lock (webauthn_routes.py), and one whose row is removed with MFA and whose
\* identity is given to a new authenticator before it deletes (totp_service.py). Each
\* can leave an account that requires a factor it does not have.
MfaKeepsFactor == mfa /\ ~raced => passkeys \cup authenticators # {}

\* What the account security page and its routes promise: the dialog serves one
\* change at a time, and an account with MFA keeps a factor.
AccountSafe == DialogServesOneFlow /\ MfaKeepsFactor
=============================================================================
