--------------------------- MODULE SessionsProofs ---------------------------
(***************************************************************************)
(* Proofs about Sessions for any users, devices, calls and admins.  What   *)
(* keeps a client up to date is that a session it has not muddled has one  *)
(* call in flight at the most, and that the call knows the token the row   *)
(* holds, or the client does.                                              *)
(***************************************************************************)
EXTENDS Sessions, TLAPS

(* A call is idle as a whole, and a login is alone with a session that     *)
(* does not exist yet.                                                     *)
CallInv ==
    \A c \in Calls :
        /\ call[c].at = "idle" => call[c] = IdleCall
        /\ call[c].at = "login" =>
              /\ session[SessionOf[c]] = "absent"
              /\ \A d \in Calls \ {c} :
                    SessionOf[d] = SessionOf[c] => call[d] = IdleCall

(* The calls of a session that is not muddled: one, which has found the    *)
(* client's token valid or is about to bring it the valid one.             *)
AloneInv ==
    \A c \in Calls : SessionOf[c] \notin muddled /\ call[c] # IdleCall =>
        /\ \A d \in Calls \ {c} : SessionOf[d] = SessionOf[c] => call[d] = IdleCall
        /\ session[SessionOf[c]] = "live" =>
              /\ call[c].at = "found" => holds[SessionOf[c]] = token[SessionOf[c]]
              /\ call[c].at = "answer" => call[c].token = token[SessionOf[c]]

(* ClientsKeepUp without the set InFlight. *)
KeepsUp ==
    \A s \in Sessions \ muddled :
        /\ session[s] = "live"
        /\ \A c \in Calls : SessionOf[c] = s => call[c] = IdleCall
        => holds[s] = token[s]

IInv == TypeOK /\ CallInv /\ AloneInv /\ KeepsUp /\ SuspendedAreOut

Final == \A s \in Sessions : session[s] \in {"revoked", "gone"} => session'[s] # "live"

USE SessionsAssumption DEF AccountStates, SessionStates, CallStates, IdleCall

-----------------------------------------------------------------------------
LEMMA InitIInv == Init => IInv
BY DEF Init, IInv, TypeOK, CallInv, AloneInv, KeepsUp, SuspendedAreOut

(* Calls of other sessions do not matter to a session. *)
LEMMA LoginReadStep ==
  ASSUME IInv, NEW c \in Calls, LoginRead(c)
  PROVE  IInv' /\ Final
<1>. USE DEF IInv, LoginRead, Moves, tables, history
<1>1. TypeOK'
  BY DEF TypeOK
<1>2. \A d \in Calls : SessionOf[d] = SessionOf[c] => call[d] = IdleCall
  BY DEF InFlight
<1>3. CallInv'
  BY <1>2 DEF TypeOK, CallInv
<1>4. AloneInv' /\ KeepsUp'
  BY <1>2 DEF TypeOK, AloneInv, KeepsUp
<1>5. SuspendedAreOut' /\ Final
  BY DEF SuspendedAreOut, Final
<1>. QED
  BY <1>1, <1>3, <1>4, <1>5

LEMMA LoginInsertStep ==
  ASSUME IInv, NEW c \in Calls, LoginInsert(c)
  PROVE  IInv' /\ Final
<1>. USE DEF IInv, LoginInsert, Moves
<1>1. TypeOK'
  BY DEF TypeOK
<1>2. /\ session[SessionOf[c]] = "absent"
      /\ \A d \in Calls \ {c} : SessionOf[d] = SessionOf[c] => call[d] = IdleCall
  BY DEF CallInv
<1>3. CallInv'
  BY <1>2 DEF TypeOK, CallInv
<1>4. AloneInv'
  BY <1>2 DEF TypeOK, AloneInv
<1>5. KeepsUp'
  BY DEF TypeOK, KeepsUp
<1>6. SuspendedAreOut' /\ Final
  BY <1>2 DEF TypeOK, SuspendedAreOut, Final
<1>. QED
  BY <1>1, <1>3, <1>4, <1>5, <1>6

LEMMA RefreshFindStep ==
  ASSUME IInv, NEW c \in Calls, RefreshFind(c)
  PROVE  IInv' /\ Final
<1>. USE DEF IInv, RefreshFind, Moves, tables
<1>1. TypeOK'
  BY DEF TypeOK
<1>2. CallInv'
  BY DEF TypeOK, CallInv
<1>3. SessionOf[c] \notin muddled' =>
         \A d \in Calls : SessionOf[d] = SessionOf[c] => call[d] = IdleCall
  BY DEF InFlight
<1>4. muddled \subseteq muddled'
  OBVIOUS
<1>5. AloneInv' /\ KeepsUp'
  BY <1>3, <1>4 DEF TypeOK, AloneInv, KeepsUp
<1>6. SuspendedAreOut' /\ Final
  BY DEF SuspendedAreOut, Final
<1>. QED
  BY <1>1, <1>2, <1>5, <1>6

(* A client in step with its session is not refused; one that is not has   *)
(* an answer under way, or is muddled.                                     *)
LEMMA RefreshRefusedStep ==
  ASSUME IInv, NEW c \in Calls, RefreshRefused(c)
  PROVE  IInv' /\ Final
<1>. USE DEF IInv, RefreshRefused, tables, history
<1>1. TypeOK' /\ CallInv'
  BY DEF TypeOK, CallInv
<1>2. AloneInv'
  BY DEF TypeOK, AloneInv
<1>3. KeepsUp'
  BY DEF TypeOK, KeepsUp
<1>4. SuspendedAreOut' /\ Final
  BY DEF SuspendedAreOut, Final
<1>. QED
  BY <1>1, <1>2, <1>3, <1>4

LEMMA RefreshUpdateStep ==
  ASSUME IInv, NEW c \in Calls, RefreshUpdate(c)
  PROVE  IInv' /\ Final
<1>. USE DEF IInv, RefreshUpdate, Moves, history
<1>1. TypeOK'
  BY DEF TypeOK
<1>2. CallInv'
  BY DEF TypeOK, CallInv
<1>3. AloneInv'
  BY DEF TypeOK, AloneInv
<1>4. KeepsUp'
  BY DEF TypeOK, KeepsUp
<1>5. SuspendedAreOut' /\ Final
  BY DEF SuspendedAreOut, Final
<1>. QED
  BY <1>1, <1>2, <1>3, <1>4, <1>5

LEMMA AnswerStep ==
  ASSUME IInv, NEW c \in Calls, Answer(c)
  PROVE  IInv' /\ Final
<1>. USE DEF IInv, Answer, Return, tables, history
<1>1. TypeOK' /\ CallInv'
  BY DEF TypeOK, CallInv
<1>2. AloneInv'
  BY DEF TypeOK, AloneInv
<1>3. KeepsUp'
  <2>. SUFFICES ASSUME NEW s \in Sessions \ muddled, session[s] = "live",
                       \A d \in Calls : SessionOf[d] = s => call'[d] = IdleCall
                PROVE  holds'[s] = token[s]
    BY DEF KeepsUp
  <2>1. CASE SessionOf[c] # s
    BY <2>1 DEF TypeOK, KeepsUp
  <2>2. CASE SessionOf[c] = s
    BY <2>2 DEF TypeOK, AloneInv
  <2>. QED
    BY <2>1, <2>2
<1>4. SuspendedAreOut' /\ Final
  BY DEF SuspendedAreOut, Final
<1>. QED
  BY <1>1, <1>2, <1>3, <1>4

LEMMA FailStep ==
  ASSUME IInv, NEW c \in Calls, Fail(c)
  PROVE  IInv' /\ Final
<1>. USE DEF IInv, Fail, Return, tables
<1>1. TypeOK' /\ CallInv'
  BY DEF TypeOK, CallInv
<1>2. AloneInv'
  BY DEF TypeOK, AloneInv
<1>3. KeepsUp'
  <2>. SUFFICES ASSUME NEW s \in Sessions \ muddled', session[s] = "live",
                       \A d \in Calls : SessionOf[d] = s => call'[d] = IdleCall
                PROVE  holds[s] = token[s]
    BY DEF KeepsUp
  <2>1. CASE SessionOf[c] # s
    BY <2>1 DEF TypeOK, KeepsUp
  <2>2. CASE SessionOf[c] = s
    <3>1. call[c].at \in {"login", "found"}
      BY <2>2 DEF TypeOK, CallInv
    <3>2. call[c].at # "login"
      BY <2>2 DEF CallInv
    <3>. QED
      BY <2>2, <3>1, <3>2 DEF AloneInv, TypeOK
  <2>. QED
    BY <2>1, <2>2
<1>4. SuspendedAreOut' /\ Final
  BY DEF SuspendedAreOut, Final
<1>. QED
  BY <1>1, <1>2, <1>3, <1>4

-----------------------------------------------------------------------------
(* Sessions that end: no call or token moves, and nothing becomes live. *)
LEMMA SessionsEnd ==
  ASSUME IInv, UNCHANGED <<token, call, muddled>>,
         session' \in [Sessions -> SessionStates],
         \A s \in Sessions : session'[s] # session[s] =>
             session[s] # "absent" /\ session'[s] # "live",
         holds' \in [Sessions -> Nat],
         \A s \in Sessions : session'[s] = "live" => holds'[s] = holds[s]
  PROVE  CallInv' /\ AloneInv' /\ KeepsUp' /\ Final
<1>. USE DEF IInv, TypeOK
<1>1. CallInv'
  BY DEF CallInv
<1>2. AloneInv'
  BY DEF AloneInv
<1>3. KeepsUp' /\ Final
  BY DEF KeepsUp, Final
<1>. QED
  BY <1>1, <1>2, <1>3

LEMMA EndSessionStep ==
  ASSUME IInv, NEW s \in Sessions, Logout(s) \/ RevokeSession(s)
  PROVE  IInv' /\ Final
<1>1. TypeOK'
  BY DEF IInv, Logout, RevokeSession, TypeOK, history
<1>2. CallInv' /\ AloneInv' /\ KeepsUp' /\ Final
  BY SessionsEnd DEF IInv, Logout, RevokeSession, TypeOK, history
<1>3. SuspendedAreOut'
  BY DEF IInv, Logout, RevokeSession, TypeOK, history, SuspendedAreOut
<1>. QED
  BY <1>1, <1>2, <1>3 DEF IInv

LEMMA AccountStep ==
  ASSUME IInv, NEW u \in Users, DeleteAccount(u) \/ Deactivate(u) \/ Unsuspend(u)
  PROVE  IInv' /\ Final
<1>1. TypeOK'
  BY DEF IInv, DeleteAccount, Deactivate, Unsuspend, TypeOK, history
<1>2. CallInv' /\ AloneInv' /\ KeepsUp' /\ Final
  BY SessionsEnd DEF IInv, DeleteAccount, Deactivate, Unsuspend, TypeOK, history
<1>3. SuspendedAreOut'
  BY DEF IInv, DeleteAccount, Deactivate, Unsuspend, TypeOK, history, SuspendedAreOut
<1>. QED
  BY <1>1, <1>2, <1>3 DEF IInv

LEMMA SuspendStep ==
  ASSUME IInv, NEW a \in Admins, NEW u \in Users, Suspend(a, u)
  PROVE  IInv' /\ Final
<1>1. TypeOK'
  BY DEF IInv, Suspend, TypeOK, history
<1>2. CallInv' /\ AloneInv' /\ KeepsUp' /\ Final
  BY SessionsEnd DEF IInv, Suspend, TypeOK, history
<1>3. SuspendedAreOut'
  BY DEF IInv, Suspend, TypeOK, history, SuspendedAreOut
<1>. QED
  BY <1>1, <1>2, <1>3 DEF IInv

LEMMA RevokeAllStep ==
  ASSUME IInv, NEW a \in Admins, RevokeAll(a)
  PROVE  IInv' /\ Final
<1>. USE DEF Revoked, LiveOf
<1>1. TypeOK'
  BY DEF IInv, RevokeAll, TypeOK, history
<1>2. CallInv' /\ AloneInv' /\ KeepsUp' /\ Final
  BY SessionsEnd DEF IInv, RevokeAll, TypeOK, history
<1>3. SuspendedAreOut'
  BY DEF IInv, RevokeAll, TypeOK, history, SuspendedAreOut
<1>. QED
  BY <1>1, <1>2, <1>3 DEF IInv

LEMMA RevokeFailsStep ==
  ASSUME IInv, NEW a \in Admins, RevokeFails(a)
  PROVE  IInv' /\ Final
<1>. USE DEF LiveOf
<1>1. TypeOK'
  BY DEF IInv, RevokeFails, TypeOK, tables
<1>2. CallInv' /\ AloneInv' /\ KeepsUp' /\ Final
  BY SessionsEnd DEF IInv, RevokeFails, TypeOK, tables
<1>3. SuspendedAreOut'
  BY DEF IInv, RevokeFails, TypeOK, tables, SuspendedAreOut
<1>. QED
  BY <1>1, <1>2, <1>3 DEF IInv

-----------------------------------------------------------------------------
LEMMA NextIInv == IInv /\ [Next]_vars => IInv' /\ [Final]_vars
<1>. SUFFICES ASSUME IInv, [Next]_vars PROVE IInv' /\ [Final]_vars
  OBVIOUS
<1>1. ASSUME NEW c \in Calls,
             \/ LoginRead(c) \/ LoginInsert(c)
             \/ RefreshFind(c) \/ RefreshRefused(c) \/ RefreshUpdate(c)
             \/ Answer(c) \/ Fail(c)
      PROVE  IInv' /\ Final
  BY <1>1, LoginReadStep, LoginInsertStep, RefreshFindStep, RefreshRefusedStep,
     RefreshUpdateStep, AnswerStep, FailStep
<1>2. ASSUME NEW s \in Sessions, Logout(s) \/ RevokeSession(s) PROVE IInv' /\ Final
  BY <1>2, EndSessionStep
<1>3. ASSUME NEW u \in Users, DeleteAccount(u) \/ Deactivate(u) \/ Unsuspend(u)
      PROVE  IInv' /\ Final
  BY <1>3, AccountStep
<1>4. ASSUME NEW u \in Users, NEW a \in Admins, Suspend(a, u) PROVE IInv' /\ Final
  BY <1>4, SuspendStep
<1>5. ASSUME NEW a \in Admins, RevokeAll(a) \/ RevokeFails(a) PROVE IInv' /\ Final
  BY <1>5, RevokeAllStep, RevokeFailsStep
<1>6. ASSUME UNCHANGED vars PROVE IInv'
  BY <1>6 DEF vars, tables, history, IInv, TypeOK, CallInv, AloneInv, KeepsUp,
     SuspendedAreOut
<1>. QED
  BY <1>1, <1>2, <1>3, <1>4, <1>5, <1>6 DEF Next

LEMMA SpecIInv == Spec => []IInv
BY InitIInv, NextIInv, PTL DEF Spec

(* Every variable keeps its type, for any users, devices, calls and admins. *)
THEOREM TypeCorrect == Spec => []TypeOK
<1>1. IInv => TypeOK
  BY DEF IInv
<1>. QED
  BY <1>1, SpecIInv, PTL

(* A client whose refreshes of a session never overlap and whose answers   *)
(* all arrive holds the session's token whenever no call is in flight.     *)
THEOREM ClientsAreKeptUp == Spec => []ClientsKeepUp
<1>1. IInv => ClientsKeepUp
  BY DEF IInv, KeepsUp, ClientsKeepUp, InFlight
<1>. QED
  BY <1>1, SpecIInv, PTL

(* However logins, suspensions and their failures interleave, a session    *)
(* that outlives a suspension is one of the two kinds it may miss.         *)
THEOREM SuspendedUsersAreOut == Spec => []SuspendedAreOut
<1>1. IInv => SuspendedAreOut
  BY DEF IInv
<1>. QED
  BY <1>1, SpecIInv, PTL

(* No call under way brings a revoked session back to life. *)
THEOREM RevocationIsFinal == Spec => RevokedForGood
<1>1. [Final]_vars => [\A s \in Sessions : session[s] \in {"revoked", "gone"}
                              => session'[s] # "live"]_vars
  BY DEF Final
<1>. QED
  BY <1>1, InitIInv, NextIInv, PTL DEF Spec, RevokedForGood
=============================================================================
