------------------------------ MODULE Sessions ------------------------------
(***************************************************************************)
(* Sessions and their refresh tokens: login, refresh_token, logout,        *)
(* revoke_session and delete_account of AuthService, suspend_user and      *)
(* unsuspend_user of AdminService, deactivate_account of UserService, with *)
(* a client on each device that keeps the last token it was given.         *)
(*                                                                         *)
(* login and refresh_token read in one statement and write in another, and *)
(* suspend_user writes users and sessions in two; each statement is a      *)
(* step, and so is the arrival of an answer, which may also be lost.       *)
(* Tokens are random: the n-th one written to a session is the number n.   *)
(***************************************************************************)
EXTENDS Naturals, FiniteSets

CONSTANTS Users,
          Nobody,
          Sessions,     \* session identifiers; a device logs in to each
          Owner,        \* the user of each session
          Calls,        \* login and refresh calls that may be in flight
          SessionOf,    \* the session of each call
          Admins,       \* suspend_user calls that may be in flight
          MaxTokens     \* bound: tokens written to a session

ASSUME SessionsAssumption ==
    /\ Nobody \notin Users
    /\ Owner \in [Sessions -> Users]
    /\ SessionOf \in [Calls -> Sessions]
    /\ MaxTokens \in Nat

VARIABLES
    account,     \* users.account_state, "deleted" when the row is gone
    session,     \* the row of each session: revoked_at, or no row
    token,       \* the token whose hash is in the row
    holds,       \* the token the client on the device keeps, 0 for none
    call,        \* what each call has read or is about to answer
    suspending,  \* the user of a suspend_user between its two statements
    escaped,     \* history: sessions a suspension has missed
    muddled      \* history: sessions of which an answer was lost, or two
                 \* refresh calls overlapped

tables  == <<account, session, token>>
history == <<escaped, muddled>>
vars    == <<tables, holds, call, suspending, history>>

AccountStates == {"active", "suspended", "deactivated", "deleted"}
SessionStates == {"absent", "live", "revoked", "gone"}

(* "login" has found an active account, "found" a session with the token    *)
(* presented; "answer" has written a token that the client does not know.   *)
CallStates == [at : {"idle", "login", "found", "answer"}, token : Nat]

IdleCall == [at |-> "idle", token |-> 0]

TypeOK ==
    /\ account \in [Users -> AccountStates]
    /\ session \in [Sessions -> SessionStates]
    /\ token \in [Sessions -> Nat]
    /\ holds \in [Sessions -> Nat]
    /\ call \in [Calls -> CallStates]
    /\ suspending \in [Admins -> Users \cup {Nobody}]
    /\ escaped \in SUBSET Sessions
    /\ muddled \in SUBSET Sessions

Init ==
    /\ account = [u \in Users |-> "active"]
    /\ session = [s \in Sessions |-> "absent"]
    /\ token = [s \in Sessions |-> 0]
    /\ holds = [s \in Sessions |-> 0]
    /\ call = [c \in Calls |-> IdleCall]
    /\ suspending = [a \in Admins |-> Nobody]
    /\ escaped = {}
    /\ muddled = {}

Moves(c, at, n) == call' = [call EXCEPT ![c] = [at |-> at, token |-> n]]

Return(c) == call' = [call EXCEPT ![c] = IdleCall]

InFlight(s) == {c \in Calls : SessionOf[c] = s /\ call[c] # IdleCall}

-----------------------------------------------------------------------------
(* AuthService, and what the client does with its answers. *)

LoginRead(c) ==
    LET s == SessionOf[c] IN
    /\ InFlight(s) = {}
    /\ session[s] = "absent"
    /\ account[Owner[s]] = "active"
    /\ Moves(c, "login", 0)
    /\ UNCHANGED <<tables, holds, suspending, history>>

LoginInsert(c) ==
    LET s == SessionOf[c] IN
    /\ call[c].at = "login"
    /\ account[Owner[s]] # "deleted"
    /\ session' = [session EXCEPT ![s] = "live"]
    /\ token' = [token EXCEPT ![s] = 1]
    /\ escaped' = IF account[Owner[s]] = "active" THEN escaped ELSE escaped \cup {s}
    /\ Moves(c, "answer", 1)
    /\ UNCHANGED <<account, holds, suspending, muddled>>

(* SELECT ... WHERE refresh_token_hash = $1 AND revoked_at IS NULL: neither *)
(* the state of the account nor the age of the token is looked at.          *)
RefreshFind(c) ==
    LET s == SessionOf[c] IN
    /\ call[c] = IdleCall
    /\ holds[s] # 0
    /\ session[s] = "live"
    /\ token[s] = holds[s]
    /\ Moves(c, "found", 0)
    /\ muddled' = IF InFlight(s) = {} THEN muddled ELSE muddled \cup {s}
    /\ UNCHANGED <<tables, holds, suspending, escaped>>

(* Otherwise the client is to log in again: it drops its tokens.            *)
RefreshRefused(c) ==
    LET s == SessionOf[c] IN
    /\ call[c] = IdleCall
    /\ holds[s] # 0
    /\ session[s] # "live" \/ token[s] # holds[s]
    /\ holds' = [holds EXCEPT ![s] = 0]
    /\ UNCHANGED <<tables, call, suspending, history>>

(* Mutants: a token that is not the one written is answered, or the        *)
(* session comes back to life.                                             *)
RotateTooLate(c) ==
    LET s == SessionOf[c] IN
    /\ call[c].at = "found"
    /\ token[s] < MaxTokens
    /\ token' = [token EXCEPT ![s] = IF session[s] = "gone" THEN @ ELSE @ + 1]
    /\ Moves(c, "answer", token[s])
    /\ UNCHANGED <<account, session, holds, suspending, history>>

RotateAndRevive(c) ==
    LET s == SessionOf[c] IN
    /\ call[c].at = "found"
    /\ token[s] < MaxTokens
    /\ session' = [session EXCEPT ![s] = IF @ = "gone" THEN @ ELSE "live"]
    /\ token' = [token EXCEPT ![s] = IF session[s] = "gone" THEN @ ELSE @ + 1]
    /\ Moves(c, "answer", token[s] + 1)
    /\ UNCHANGED <<account, holds, suspending, history>>

(* UPDATE sessions ... WHERE id = $2, whatever the row holds by now; the    *)
(* call answers even if there is none any more.                             *)
RefreshUpdate(c) ==
    LET s == SessionOf[c] IN
    /\ call[c].at = "found"
    /\ token[s] < MaxTokens
    /\ token' = [token EXCEPT ![s] = IF session[s] = "gone" THEN @ ELSE @ + 1]
    /\ Moves(c, "answer", token[s] + 1)
    /\ UNCHANGED <<account, session, holds, suspending, history>>

Answer(c) ==
    /\ call[c].at = "answer"
    /\ holds' = [holds EXCEPT ![SessionOf[c]] = call[c].token]
    /\ Return(c)
    /\ UNCHANGED <<tables, suspending, history>>

(* A database error, a crash, or an answer the client does not get.         *)
Fail(c) ==
    /\ call[c] # IdleCall
    /\ Return(c)
    /\ muddled' = IF call[c].at = "answer" THEN muddled \cup {SessionOf[c]}
                  ELSE muddled
    /\ UNCHANGED <<tables, holds, suspending, escaped>>

(* logout by the device itself, revoke_session by another of the user's.    *)
Logout(s) ==
    /\ session[s] = "live"
    /\ session' = [session EXCEPT ![s] = "revoked"]
    /\ holds' = [holds EXCEPT ![s] = 0]
    /\ UNCHANGED <<account, token, call, suspending, history>>

RevokeSession(s) ==
    /\ session[s] = "live"
    /\ session' = [session EXCEPT ![s] = "revoked"]
    /\ UNCHANGED <<account, token, holds, call, suspending, history>>

(* The sessions go with their user: ON DELETE CASCADE. *)
DeleteAccount(u) ==
    /\ account[u] # "deleted"
    /\ account' = [account EXCEPT ![u] = "deleted"]
    /\ session' = [s \in Sessions |->
                      IF Owner[s] = u /\ session[s] # "absent"
                      THEN "gone" ELSE session[s]]
    /\ UNCHANGED <<token, holds, call, suspending, history>>

(* UserService: no look at the state before, no change of the sessions.     *)
Deactivate(u) ==
    /\ account[u] # "deleted"
    /\ account' = [account EXCEPT ![u] = "deactivated"]
    /\ UNCHANGED <<session, token, holds, call, suspending, history>>

-----------------------------------------------------------------------------
(* AdminService. *)

Suspend(a, u) ==
    /\ suspending[a] = Nobody
    /\ account[u] = "active"
    /\ account' = [account EXCEPT ![u] = "suspended"]
    /\ suspending' = [suspending EXCEPT ![a] = u]
    /\ UNCHANGED <<session, token, holds, call, history>>

LiveOf(u) == {s \in Sessions : Owner[s] = u /\ session[s] = "live"}

(* Mutant: a session with a call in flight is passed over. *)
RevokedIdleOnly(u) == {s \in LiveOf(u) : InFlight(s) = {}}

(* UPDATE sessions ... WHERE user_id = $1 AND revoked_at IS NULL            *)
Revoked(u) == LiveOf(u)

RevokeAll(a) ==
    LET u == suspending[a] IN
    /\ u # Nobody
    /\ session' = [s \in Sessions |-> IF s \in Revoked(u) THEN "revoked" ELSE session[s]]
    /\ suspending' = [suspending EXCEPT ![a] = Nobody]
    /\ UNCHANGED <<account, token, holds, call, history>>

(* The error of the second statement is ignored, or it is never reached.    *)
RevokeFails(a) ==
    LET u == suspending[a] IN
    /\ u # Nobody
    /\ suspending' = [suspending EXCEPT ![a] = Nobody]
    /\ escaped' = escaped \cup LiveOf(u)
    /\ UNCHANGED <<tables, holds, call, muddled>>

Unsuspend(u) ==
    /\ account[u] = "suspended"
    /\ account' = [account EXCEPT ![u] = "active"]
    /\ UNCHANGED <<session, token, holds, call, suspending, history>>

-----------------------------------------------------------------------------
Next ==
    \/ \E c \in Calls :
          \/ LoginRead(c) \/ LoginInsert(c)
          \/ RefreshFind(c) \/ RefreshRefused(c) \/ RefreshUpdate(c)
          \/ Answer(c) \/ Fail(c)
    \/ \E s \in Sessions : Logout(s) \/ RevokeSession(s)
    \/ \E u \in Users :
          \/ DeleteAccount(u) \/ Deactivate(u) \/ Unsuspend(u)
          \/ \E a \in Admins : Suspend(a, u)
    \/ \E a \in Admins : RevokeAll(a) \/ RevokeFails(a)

Spec == Init /\ [][Next]_vars

-----------------------------------------------------------------------------
(* A client that refreshes one call at a time and gets all of its answers  *)
(* is never locked out of a live session: between calls it holds the token *)
(* that the session accepts.                                               *)
ClientsKeepUp ==
    \A s \in Sessions \ muddled :
        session[s] = "live" /\ InFlight(s) = {} => holds[s] = token[s]

(* A suspended user has no live session, once suspend_user is done, except *)
(* for those of a login that had found the account active before, and of a *)
(* suspension whose second statement failed.                               *)
SuspendedAreOut ==
    \A s \in Sessions :
        /\ session[s] = "live"
        /\ account[Owner[s]] = "suspended"
        /\ \A a \in Admins : suspending[a] # Owner[s]
        => s \in escaped

(* A revoked session stays so, whatever refresh was under way.             *)
RevokedForGood ==
    [][\A s \in Sessions : session[s] \in {"revoked", "gone"}
                              => session'[s] # "live"]_vars
=============================================================================
