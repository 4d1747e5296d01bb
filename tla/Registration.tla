---------------------------- MODULE Registration ----------------------------
(***************************************************************************)
(* Who gets an account: register and delete_account of AuthService, and    *)
(* create_invite and revoke_invite of AdminService, over the tables users  *)
(* and invites.                                                            *)
(*                                                                         *)
(* register reads the invite, then whether the name is taken, and then     *)
(* starts the transaction that inserts the user and counts the use; these  *)
(* are three steps.  A name stands for username and email.  Codes that are *)
(* built into the server need no invite.                                   *)
(***************************************************************************)
EXTENDS Naturals, FiniteSets

CONSTANTS Names,
          Founders,   \* accounts there are from the start
          Invites,
          NoInvite,   \* a built-in code, and the invite of a founder
          Nobody,     \* users.invited_by IS NULL
          Creator,    \* the admin who creates each invite
          MaxUses,    \* invites.max_uses
          Calls       \* register calls that may be in flight at the same time

ASSUME RegistrationAssumption ==
    /\ IsFiniteSet(Names)
    /\ Founders \subseteq Names
    /\ NoInvite \notin Invites
    /\ Nobody \notin Names
    /\ Creator \in [Invites -> Names]
    /\ MaxUses \in [Invites -> Nat \ {0}]
    /\ IsFiniteSet(Calls)
    /\ Calls # {}

VARIABLES
    accounts,   \* names with a row in users
    via,        \* the invite each account was registered with
    invitedBy,  \* users.invited_by
    invite,     \* the row of each invite
    useCount,   \* invites.use_count
    call,       \* what each register call in flight has read
    usesAtClose \* history: useCount when the invite was closed

users   == <<accounts, via, invitedBy>>
invites == <<invite, useCount, usesAtClose>>
vars    == <<users, invites, call>>

(* An invite is "closed" when it is revoked or expires_at has passed.       *)
InviteStates == {"absent", "open", "closed", "deleted"}

(* A call has found its invite usable, and then its name free.              *)
CallStates == [at     : {"idle", "invited", "named"},
               invite : Invites \cup {NoInvite},
               name   : Names \cup {Nobody}]

IdleCall == [at |-> "idle", invite |-> NoInvite, name |-> Nobody]

TypeOK ==
    /\ accounts \in SUBSET Names
    /\ via \in [Names -> Invites \cup {NoInvite}]
    /\ invitedBy \in [Names -> Names \cup {Nobody}]
    /\ invite \in [Invites -> InviteStates]
    /\ useCount \in [Invites -> Nat]
    /\ call \in [Calls -> CallStates]
    /\ usesAtClose \in [Invites -> Nat]

Init ==
    /\ accounts = Founders
    /\ via = [n \in Names |-> NoInvite]
    /\ invitedBy = [n \in Names |-> Nobody]
    /\ invite = [i \in Invites |-> "absent"]
    /\ useCount = [i \in Invites |-> 0]
    /\ call = [c \in Calls |-> IdleCall]
    /\ usesAtClose = [i \in Invites |-> 0]

Moves(c, at, i, n) ==
    call' = [call EXCEPT ![c] = [at |-> at, invite |-> i, name |-> n]]

Return(c) == call' = [call EXCEPT ![c] = IdleCall]

-----------------------------------------------------------------------------
(* register *)

(* Mutants: one use too many, or a closed invite, passes the check. *)
UsableOnceMore(i) ==
    i # NoInvite => invite[i] = "open" /\ useCount[i] <= MaxUses[i]

UsableClosed(i) ==
    i # NoInvite => invite[i] \in {"open", "closed"} /\ useCount[i] < MaxUses[i]

Usable(i) ==
    i # NoInvite => invite[i] = "open" /\ useCount[i] < MaxUses[i]

CheckInvite(c, i, n) ==
    /\ call[c] = IdleCall
    /\ Usable(i)
    /\ Moves(c, "invited", i, n)
    /\ UNCHANGED <<users, invites>>

CheckName(c) ==
    /\ call[c].at = "invited"
    /\ call[c].name \notin accounts
    /\ Moves(c, "named", call[c].invite, call[c].name)
    /\ UNCHANGED <<users, invites>>

Inviter(i) == IF i = NoInvite THEN Nobody ELSE Creator[i]

CountUse(i) ==
    useCount' = IF i = NoInvite THEN useCount
                ELSE [useCount EXCEPT ![i] = @ + 1]

(* The transaction.  The name is unique, and invited_by a foreign key: an  *)
(* invite is only ever deleted together with its creator's account.        *)
CommitAccount(c) ==
    LET i == call[c].invite
        n == call[c].name
    IN
    /\ call[c].at = "named"
    /\ n \notin accounts
    /\ i # NoInvite => invite[i] # "deleted"
    /\ accounts' = accounts \cup {n}
    /\ via' = [via EXCEPT ![n] = i]
    /\ invitedBy' = [invitedBy EXCEPT ![n] = Inviter(i)]
    /\ CountUse(i)
    /\ Return(c)
    /\ UNCHANGED <<invite, usesAtClose>>

(* A check or a constraint that fails, a database error, a crash.          *)
Fail(c) ==
    /\ call[c] # IdleCall
    /\ Return(c)
    /\ UNCHANGED <<users, invites>>

-----------------------------------------------------------------------------
(* UPDATE users SET invited_by = NULL WHERE invited_by = $1 *)
ClearReferences(n) ==
    [m \in Names |-> IF invitedBy[m] = n THEN Nobody ELSE invitedBy[m]]

(* delete_account: its invites go with it.                                 *)
DeleteAccount(n) ==
    /\ n \in accounts
    /\ invitedBy' = [ClearReferences(n) EXCEPT ![n] = Nobody]
    /\ invite' = [i \in Invites |->
                     IF Creator[i] = n /\ invite[i] # "absent"
                     THEN "deleted" ELSE invite[i]]
    /\ accounts' = accounts \ {n}
    /\ UNCHANGED <<via, useCount, usesAtClose, call>>

(* AdminService; a code is used for one invite only.                       *)
CreateInvite(i) ==
    /\ invite[i] = "absent"
    /\ Creator[i] \in accounts
    /\ invite' = [invite EXCEPT ![i] = "open"]
    /\ UNCHANGED <<users, useCount, usesAtClose, call>>

(* revoke_invite, or expires_at passes. *)
CloseInvite(i) ==
    /\ invite[i] = "open"
    /\ invite' = [invite EXCEPT ![i] = "closed"]
    /\ usesAtClose' = [usesAtClose EXCEPT ![i] = useCount[i]]
    /\ UNCHANGED <<users, useCount, call>>

-----------------------------------------------------------------------------
Next ==
    \/ \E c \in Calls :
          \/ \E i \in Invites \cup {NoInvite}, n \in Names : CheckInvite(c, i, n)
          \/ CheckName(c) \/ CommitAccount(c) \/ Fail(c)
    \/ \E n \in Names : DeleteAccount(n)
    \/ \E i \in Invites : CreateInvite(i) \/ CloseInvite(i)

Spec == Init /\ [][Next]_vars

-----------------------------------------------------------------------------
Members(i) == {n \in accounts : via[n] = i}

(* An invite admits no more accounts than it counts, and counts one use    *)
(* beyond max_uses at the most for each register call that overlaps with   *)
(* another: the check is repeated for no call once it has been passed.     *)
InvitesHonoured ==
    \A i \in Invites :
        /\ Cardinality(Members(i)) <= useCount[i]
        /\ useCount[i] + 1 <= MaxUses[i] + Cardinality(Calls)

(* A revoked or expired invite serves only the calls that had passed the   *)
(* check by then.                                                          *)
ClosedInvitesEnd ==
    \A i \in Invites : invite[i] = "closed" =>
        useCount[i] <= usesAtClose[i] + Cardinality(Calls)

(* What the foreign keys of users and invites require: invited_by and the  *)
(* creator of an invite exist.  delete_account clears both in time, else   *)
(* the database would refuse it.                                           *)
ReferencesHold ==
    /\ \A n \in accounts : invitedBy[n] \in accounts \cup {Nobody}
    /\ \A i \in Invites :
          invite[i] \in {"open", "closed"} => Creator[i] \in accounts
=============================================================================
