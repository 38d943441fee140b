------------------------------ MODULE Sessions ------------------------------
(***************************************************************************)
(* Identities, browser sessions and the right to command (identity.py,     *)
(* sessions.py, identity_routes.py, authority.py).  The shell derives the  *)
(* principal of a request from its cookie; the handler runs in a thread    *)
(* and reads the session again, once to compare it with the principal and  *)
(* once to make the capability, while other requests of the same browser   *)
(* log in, switch and log out.                                             *)
(***************************************************************************)
EXTENDS Naturals, FiniteSets

CONSTANTS Identities,   \* identities the host has registered
          RoleOf,       \* their roles
          SessionIds, Requests,
          Commands,     \* product commands that are given
          NoSession

VARIABLES enabled,      \* enabled identities
          sessions,     \* rows of product_sessions
          linked,       \* rows of product_session_identities
          requests,     \* requests being served
          proofs        \* history: identities that gave their secret in a session

sessionVars == <<enabled, sessions, linked, requests, proofs>>

\* Product commands that cross the kernel's write port, with the role that may give
\* them and the kernel command they become.
RoleActions ==
    [MAIN |-> {"CREATE_RESEARCH", "CONFIRM_CONTRACT", "START_RESEARCH", "PAUSE_RESEARCH",
               "RESUME_RESEARCH", "AMEND_CONTRACT", "CANCEL_RESEARCH", "CONFIRM_REVOKE",
               "REGISTER_BRIDGE_SPEC", "SUBMIT_CLOSURE_WITNESS", "FINALIZE_RESEARCH"},
     WORKER |-> {"SUBMIT_CLAIM"},
     MACHINE_VERIFIER |-> {"IMPORT_VERIFICATION"},
     PAPER_REVIEWER |-> {"SUBMIT_PAPER_REVIEW"}]

KernelBinding ==
    [CREATE_RESEARCH |-> "create", CONFIRM_CONTRACT |-> "FreezeContract",
     START_RESEARCH |-> "StartRun", PAUSE_RESEARCH |-> "Interrupt", RESUME_RESEARCH |-> "Resume",
     AMEND_CONTRACT |-> "AmendContract", CANCEL_RESEARCH |-> "Interrupt",
     CONFIRM_REVOKE |-> "RevokeFact", REGISTER_BRIDGE_SPEC |-> "RegisterBridge",
     SUBMIT_CLOSURE_WITNESS |-> "SubmitClosureWitness", FINALIZE_RESEARCH |-> "Finalize",
     SUBMIT_CLAIM |-> "SUBMIT_CLAIM", IMPORT_VERIFICATION |-> "IMPORT_VERIFICATION",
     SUBMIT_PAPER_REVIEW |-> "SubmitPaperReview"]

SessionRow == [shared : BOOLEAN, active : Identities, live : BOOLEAN]

ASSUME SessionAssumption == NoSession \notin SessionIds \cup Identities \cup SessionRow

\* A request without a cookie has no session and no principal.  `gone` is history: the
\* identities that were disabled when the request arrived.
RequestState ==
    [pc : {"new", "arrived", "current", "proved", "granted"},
     session : SessionIds \cup {NoSession}, who : Identities \cup {NoSession},
     gone : SUBSET Identities, command : Commands \cup {"none"},
     kernel : {KernelBinding[c] : c \in Commands} \cup {"none"}]

NewRequest == [pc |-> "new", session |-> NoSession, who |-> NoSession, gone |-> {},
               command |-> "none", kernel |-> "none"]

-----------------------------------------------------------------------------
(* Reading a session *)

ActiveRow(s) == sessions[s] # NoSession /\ sessions[s].live

\* Mutant: a disabled identity is not noticed.
ResolvedIgnoresDisabled(s, i) ==
    /\ ActiveRow(s) /\ sessions[s].active = i
    /\ i \in linked[s]

Resolved(s, i) ==
    /\ ActiveRow(s) /\ sessions[s].active = i
    /\ i \in linked[s] /\ i \in enabled

RequestAt(r, pc) == requests[r].pc = pc
Answer(r) == requests' = [requests EXCEPT ![r] = NewRequest]

Arrive(r, s) ==
    /\ RequestAt(r, "new")
    /\ \/ /\ s # NoSession
          /\ \E i \in Identities :
                /\ Resolved(s, i)
                /\ requests' = [requests EXCEPT ![r] = [@ EXCEPT !.pc = "arrived", !.session = s,
                                    !.who = i, !.gone = Identities \ enabled]]
       \/ /\ s = NoSession
          /\ requests' = [requests EXCEPT ![r] = [@ EXCEPT !.pc = "current",
                                                           !.gone = Identities \ enabled]]
    /\ UNCHANGED <<enabled, sessions, linked, proofs>>

\* The handler compares the principal with the session; a stale one is refused.
RequireCurrent(r) ==
    /\ RequestAt(r, "arrived")
    /\ IF Resolved(requests[r].session, requests[r].who)
       THEN requests' = [requests EXCEPT ![r].pc = "current"]
       ELSE Answer(r)
    /\ UNCHANGED <<enabled, sessions, linked, proofs>>

-----------------------------------------------------------------------------
(* Session operations *)

\* The credentials are checked before the transaction that enters the identity.
Authenticate(r, i) ==
    /\ RequestAt(r, "current") /\ i \in enabled
    /\ requests' = [requests EXCEPT ![r].pc = "proved", ![r].who = i]
    /\ UNCHANGED <<enabled, sessions, linked, proofs>>

FreshSessions == {s \in SessionIds : sessions[s] = NoSession}

EnterNew(s, i, shared) ==
    /\ sessions' = [sessions EXCEPT ![s] = [shared |-> shared, active |-> i, live |-> TRUE]]
    /\ linked' = [linked EXCEPT ![s] = {i}]

\* The cookie of a shared session is never promoted: logging in rotates it.
Login(r) ==
    LET s == requests[r].session
        i == requests[r].who
        rotate == s = NoSession \/ (s # NoSession /\ sessions[s].shared)
    IN /\ RequestAt(r, "proved")
       /\ \/ /\ rotate
             /\ \E t \in FreshSessions :
                    EnterNew(t, i, FALSE) /\ proofs' = [proofs EXCEPT ![t] = @ \cup {i}]
          \/ /\ ~rotate /\ ActiveRow(s)
             /\ sessions' = [sessions EXCEPT ![s].active = i]
             /\ linked' = [linked EXCEPT ![s] = @ \cup {i}]
             /\ proofs' = [proofs EXCEPT ![s] = @ \cup {i}]
          \/ ~rotate /\ ~ActiveRow(s) /\ UNCHANGED <<sessions, linked, proofs>>
       /\ Answer(r)
       /\ UNCHANGED enabled

EnterShared(r) ==
    /\ RequestAt(r, "current")
    /\ \E s \in FreshSessions, i \in enabled : RoleOf[i] = "MAIN" /\ EnterNew(s, i, TRUE)
    /\ Answer(r)
    /\ UNCHANGED <<enabled, proofs>>

Switch(r, i) ==
    LET s == requests[r].session IN
    /\ RequestAt(r, "current") /\ s # NoSession /\ i \in enabled
    /\ ActiveRow(s) /\ i \in linked[s]
    /\ sessions' = [sessions EXCEPT ![s].active = i]
    /\ Answer(r)
    /\ UNCHANGED <<enabled, linked, proofs>>

Logout(r) ==
    LET s == requests[r].session IN
    /\ RequestAt(r, "current") /\ s # NoSession /\ ActiveRow(s)
    /\ sessions' = [sessions EXCEPT ![s].live = FALSE]
    /\ Answer(r)
    /\ UNCHANGED <<enabled, linked, proofs>>

\* Expiry of the session; the host disables an identity.
Expire(s) ==
    /\ ActiveRow(s)
    /\ sessions' = [sessions EXCEPT ![s].live = FALSE]
    /\ UNCHANGED <<enabled, linked, requests, proofs>>

DisableIdentity(i) ==
    /\ i \in enabled
    /\ enabled' = enabled \ {i}
    /\ UNCHANGED <<sessions, linked, requests, proofs>>

-----------------------------------------------------------------------------
(* Commands *)

\* The capability is made from a second reading of the session: the identity may be
\* another one by now if the browser switched in between.
VerifiedCapability(r, command) ==
    LET s == requests[r].session IN
    /\ RequestAt(r, "current") /\ s # NoSession /\ ~sessions[s].shared
    /\ \E i \in Identities :
           /\ Resolved(s, i) /\ command \in RoleActions[RoleOf[i]]
           /\ requests' = [requests EXCEPT ![r].pc = "granted", ![r].who = i,
                                           ![r].command = command,
                                           ![r].kernel = KernelBinding[command]]
    /\ UNCHANGED <<enabled, sessions, linked, proofs>>

\* The kernel is called, with a capability for just the bound kernel command.
AuthorityApply(r) ==
    /\ RequestAt(r, "granted")
    /\ Answer(r)
    /\ UNCHANGED <<enabled, sessions, linked, proofs>>

-----------------------------------------------------------------------------

SessionInit ==
    /\ enabled = Identities
    /\ sessions = [s \in SessionIds |-> NoSession]
    /\ linked = [s \in SessionIds |-> {}]
    /\ requests = [r \in Requests |-> NewRequest]
    /\ proofs = [s \in SessionIds |-> {}]

SessionNext ==
    \/ \E r \in Requests :
        \/ \E s \in SessionIds \cup {NoSession} : Arrive(r, s)
        \/ RequireCurrent(r) \/ Login(r) \/ EnterShared(r) \/ Logout(r) \/ AuthorityApply(r)
        \/ \E i \in Identities : Authenticate(r, i) \/ Switch(r, i)
        \/ \E command \in Commands : VerifiedCapability(r, command)
    \/ \E s \in SessionIds : Expire(s)
    \/ \E i \in Identities : DisableIdentity(i)

SessionSpec == SessionInit /\ [][SessionNext]_sessionVars

-----------------------------------------------------------------------------
(* Properties *)

SessionTypeOK ==
    /\ enabled \subseteq Identities
    /\ sessions \in [SessionIds -> SessionRow \cup {NoSession}]
    /\ linked \in [SessionIds -> SUBSET Identities]
    /\ requests \in [Requests -> RequestState]

\* Every call the kernel gets rests on a login: the identity gave its secret in that very
\* session, which is not a shared one, its role owns a command with that kernel binding,
\* and it had not been disabled before the request came in; whatever logins, switches,
\* logouts, expiries and requests of the same browser ran in between.
CallsRestOnLogin ==
    /\ SessionTypeOK
    /\ \A r \in Requests : RequestAt(r, "granted") =>
           LET q == requests[r] IN
           /\ q.who \in proofs[q.session]
           /\ ~sessions[q.session].shared
           /\ q.who \notin q.gone
           /\ \E c \in RoleActions[RoleOf[q.who]] : KernelBinding[c] = q.kernel

=============================================================================
