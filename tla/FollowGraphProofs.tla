-------------------------- MODULE FollowGraphProofs --------------------------
(***************************************************************************)
(* Proofs about FollowGraph for any users, pairs and callers, any number   *)
(* of calls in flight and any number of overlaps.  Two facts carry them:   *)
(* while a transaction holds the lock of a pair, the row and what the      *)
(* transaction has looked up about it stay as they are (LockKeepsRow), and *)
(* a follow that no other one of its pair overlaps finds no row when it    *)
(* commits (OverlapInv).                                                   *)
(***************************************************************************)
EXTENDS FollowGraph, FiniteSetTheorems, TLAPS

USE FollowAssumption DEF Follower, Followee, EdgeStates, CallStates, IdleCall

(* A call past its first step has a pair; follow decides on a real state.  *)
CallInv ==
    \A c \in Calls :
        /\ call[c].at # "idle" => call[c].pair \in Pairs
        /\ call[c].at \in {"decided", "written"} => call[c].state \in {"pending", "accepted"}

TInv == TypeOK /\ CallInv

-----------------------------------------------------------------------------
LEMMA PairEnds ==
  ASSUME NEW p \in Pairs
  PROVE  p[1] \in Users /\ p[2] \in Users /\ p[1] # p[2] /\ p[2] \in Followees
BY DEF Followees

LEMMA InitTInv == Init => TInv
BY DEF Init, TInv, TypeOK, CallInv

LEMMA OverlapTypes ==
  ASSUME TypeOK, NEW c \in Calls, NEW p \in Pairs, CountOverlap(c, p)
  PROVE  overlaps' \in Nat /\ overlapped' \in SUBSET Calls
BY DEF CountOverlap, FollowsOf, TypeOK

(* Every step keeps the types and the shape of calls. *)
LEMMA NextTInv == TInv /\ [Next]_vars => TInv'
<1>. SUFFICES ASSUME TInv, [Next]_vars PROVE TInv'
  OBVIOUS
<1>. USE PairEnds DEF TInv, Return, Moves, state, history
<1>1. ASSUME NEW c \in Calls, NEW p \in Pairs, FollowRead(c, p) PROVE TInv'
  <2>1. overlaps' \in Nat /\ overlapped' \in SUBSET Calls
    BY <1>1, OverlapTypes DEF FollowRead
  <2>. QED
    BY <1>1, <2>1 DEF FollowRead, TypeOK, CallInv
<1>2. ASSUME NEW c \in Calls, NEW p \in Pairs, Unfollow(c, p) PROVE TInv'
  BY <1>2 DEF Unfollow, SetEdge, CountFollow, RemovePosts, ClearRequest, TypeOK, CallInv
<1>3. ASSUME NEW c \in Calls, NEW p \in Pairs, AcceptWrite(c, p) PROVE TInv'
  <2>1. PICK n \in BOOLEAN : Moves(c, "accepting", p, "accepted", n)
    BY <1>3 DEF AcceptWrite
  <2>. QED
    BY <1>3, <2>1 DEF AcceptWrite, TypeOK, CallInv
<1>4. ASSUME NEW c \in Calls, NEW p \in Pairs, RejectDelete(c, p) PROVE TInv'
  BY <1>4 DEF RejectDelete, SetEdge, TypeOK, CallInv
<1>5. ASSUME NEW c \in Calls, FollowDecide(c) PROVE TInv'
  <2>1. PICK s \in {"pending", "accepted"} : Moves(c, "decided", call[c].pair, s, FALSE)
    BY <1>5 DEF FollowDecide
  <2>2. TypeOK'
    BY <1>5, <2>1 DEF FollowDecide, TypeOK
  <2>3. CallInv'
    BY <1>5, <2>1 DEF FollowDecide, TypeOK, CallInv
  <2>. QED
    BY <2>2, <2>3
<1>6. ASSUME NEW c \in Calls, FollowWrite(c) PROVE TInv'
  <2>1. PICK n \in BOOLEAN : Moves(c, "written", call[c].pair, call[c].state, n)
    BY <1>6 DEF FollowWrite
  <2>2. TypeOK'
    BY <1>6, <2>1 DEF FollowWrite, TypeOK
  <2>3. CallInv'
    BY <1>6, <2>1 DEF FollowWrite, TypeOK, CallInv
  <2>. QED
    BY <2>2, <2>3
<1>7. ASSUME NEW c \in Calls, FollowCommit(c) PROVE TInv'
  <2>1. call[c].pair \in Pairs /\ call[c].state \in EdgeStates
    BY <1>7 DEF FollowCommit, CallInv, TypeOK
  <2>2. Notify(c, request) \in [Pairs -> Nat]
    BY <2>1 DEF Notify, TypeOK
  <2>3. request' \in [Pairs -> Nat]
    BY <1>7, <2>2 DEF FollowCommit, TypeOK
  <2>4. followers' \in [Users -> Int] /\ following' \in [Users -> Int] /\ feed' \in SUBSET Pairs
    BY <1>7, <2>1 DEF FollowCommit, CountFollow, Backfill, TypeOK
  <2>5. /\ edge' \in [Pairs -> EdgeStates] /\ overwritten' \in SUBSET Pairs
        /\ call' \in [Calls -> CallStates] /\ overlapped' \in SUBSET Calls
    BY <1>7, <2>1 DEF FollowCommit, SetEdge, TypeOK
  <2>6. TypeOK'
    BY <1>7, <2>3, <2>4, <2>5 DEF FollowCommit, TypeOK
  <2>7. CallInv'
    BY <1>7 DEF FollowCommit, TypeOK, CallInv
  <2>. QED
    BY <2>6, <2>7
<1>8. ASSUME NEW c \in Calls, AcceptCommit(c) PROVE TInv'
  <2>1. call[c].pair \in Pairs
    BY <1>8 DEF AcceptCommit, CallInv
  <2>2. Notify(c, accepted) \in [Pairs -> Nat]
    BY <2>1 DEF Notify, TypeOK
  <2>3. followers' \in [Users -> Int] /\ following' \in [Users -> Int] /\ feed' \in SUBSET Pairs
    BY <1>8, <2>1 DEF AcceptCommit, CountFollow, Backfill, TypeOK
  <2>4. /\ edge' \in [Pairs -> EdgeStates] /\ request' \in [Pairs -> Nat]
        /\ halfRejected' \in SUBSET Pairs
        /\ call' \in [Calls -> CallStates] /\ overlapped' \in SUBSET Calls
    BY <1>8, <2>1 DEF AcceptCommit, SetEdge, ClearRequest, TypeOK
  <2>5. TypeOK'
    BY <1>8, <2>2, <2>3, <2>4 DEF AcceptCommit, TypeOK
  <2>6. CallInv'
    BY <1>8 DEF AcceptCommit, TypeOK, CallInv
  <2>. QED
    BY <2>5, <2>6
<1>9. ASSUME NEW c \in Calls, RejectClear(c) PROVE TInv'
  BY <1>9 DEF RejectClear, ClearRequest, TypeOK, CallInv
<1>10. ASSUME NEW c \in Calls, Fail(c) PROVE TInv'
  BY <1>10 DEF Fail, TypeOK, CallInv
<1>11. ASSUME NEW u \in Followees, SetPrivate(u) PROVE TInv'
  BY <1>11 DEF SetPrivate, TypeOK, CallInv
<1>12. ASSUME NEW p \in Pairs, ReadRequest(p) \/ ReadAccepted(p) PROVE TInv'
  <2>1. request'[p] \in Nat /\ accepted'[p] \in Nat
    BY <1>12 DEF ReadRequest, ReadAccepted, TypeOK
  <2>2. TypeOK'
    BY <1>12, <2>1 DEF ReadRequest, ReadAccepted, TypeOK
  <2>3. CallInv'
    BY <1>12 DEF ReadRequest, ReadAccepted, CallInv
  <2>. QED
    BY <2>2, <2>3
<1>13. ASSUME NEW u \in Users, DeleteAccount(u) PROVE TInv'
  BY <1>13 DEF DeleteAccount, TypeOK, CallInv
<1>14. CASE UNCHANGED vars
  BY <1>14 DEF vars, TypeOK, CallInv
<1>. QED
  BY <1>1, <1>2, <1>3, <1>4, <1>5, <1>6, <1>7, <1>8, <1>9, <1>10, <1>11, <1>12, <1>13, <1>14
     DEF Next

LEMMA SpecTInv == Spec => []TInv
BY InitTInv, NextTInv, PTL DEF Spec

(* Every variable keeps its type, for any instance of the follow graph. *)
THEOREM TypeCorrect == Spec => []TypeOK
<1>1. TInv => TypeOK
  BY DEF TInv
<1>. QED
  BY <1>1, SpecTInv, PTL

-----------------------------------------------------------------------------
(* Locks. *)

(* A row is locked by one transaction at the most. *)
LockInv == \A p \in Pairs : \A c, d \in Calls : Holds(c, p) /\ Holds(d, p) => c = d

(* A call takes a lock by one of two steps only, and finds it free. *)
LEMMA OneCallMoves ==
  ASSUME TInv, [Next]_vars, NEW c \in Calls, call'[c] # call[c],
         call'[c].at \in {"written", "accepting"}
  PROVE  FollowWrite(c) \/ \E p \in Pairs : AcceptWrite(c, p)
<1>. USE DEF TInv, TypeOK, Moves, Return
<1>1. ASSUME NEW d \in Calls, NEW p \in Pairs, FollowRead(d, p) \/ RejectDelete(d, p)
      PROVE  FALSE
  BY <1>1 DEF FollowRead, RejectDelete
<1>2. ASSUME NEW d \in Calls,
             FollowDecide(d) \/ FollowCommit(d) \/ AcceptCommit(d) \/ RejectClear(d) \/ Fail(d)
      PROVE  FALSE
  BY <1>2 DEF FollowDecide, FollowCommit, AcceptCommit, RejectClear, Fail
<1>3. ASSUME NEW d \in Calls, FollowWrite(d) PROVE d = c
  BY <1>3 DEF FollowWrite
<1>4. ASSUME NEW d \in Calls, NEW p \in Pairs, AcceptWrite(d, p) PROVE d = c
  BY <1>4 DEF AcceptWrite
<1>. QED
  BY <1>1, <1>2, <1>3, <1>4
     DEF Next, Unfollow, SetPrivate, DeleteAccount, ReadRequest, ReadAccepted, vars

LEMMA NextLockInv ==
  ASSUME TInv, LockInv, [Next]_vars
  PROVE  LockInv'
<1>. SUFFICES ASSUME NEW p \in Pairs, NEW c \in Calls, NEW d \in Calls,
                     Holds(c, p)', Holds(d, p)', c # d
              PROVE  FALSE
  BY DEF LockInv
<1>1. ASSUME NEW a \in Calls, NEW b \in Calls, a # b, Holds(a, p)', Holds(b, p)',
             call'[a] # call[a]
      PROVE  FALSE
  <2>1. FollowWrite(a) \/ \E q \in Pairs : AcceptWrite(a, q)
    BY <1>1, OneCallMoves DEF Holds
  <2>2. LockFree(p) /\ call'[b] = call[b]
    BY <1>1, <2>1 DEF FollowWrite, AcceptWrite, Moves, Holds, TInv, TypeOK
  <2>. QED
    BY <1>1, <2>2 DEF LockFree, Holds
<1>2. call'[c] = call[c] /\ call'[d] = call[d]
  BY <1>1
<1>. QED
  BY <1>2 DEF LockInv, Holds

(* What becomes of a pair while one transaction holds its lock: the row    *)
(* stays, unread notifications are read at most, and who has looked for    *)
(* them remembers that a reject was half done.                             *)
RowKept(c, p) ==
    /\ edge'[p] = edge[p]
    /\ request[p] = 0 => request'[p] = 0
    /\ accepted[p] = 0 => accepted'[p] = 0
    /\ p[1] \in live' <=> p[1] \in live
    /\ p[2] \in live' <=> p[2] \in live
    /\ call[c].at = "written" /\ p \in halfRejected => p \in halfRejected'
    /\ p \in overwritten => p \in overwritten'

LEMMA LockKeepsRow ==
  ASSUME TInv, LockInv, [Next]_vars, NEW c \in Calls, NEW p \in Pairs,
         Holds(c, p), call'[c] = call[c]
  PROVE  RowKept(c, p)
<1>. USE PairEnds DEF TInv, state, history
<1>0. /\ call[c].pair = p /\ call[c].at \in {"written", "accepting"}
      /\ ~LockFree(p)
      /\ call[c].at = "written" => Following(p)
  BY DEF Holds, LockFree, Following
<1>1. ASSUME NEW d \in Calls, NEW q \in Pairs, FollowRead(d, q) \/ AcceptWrite(d, q)
      PROVE  RowKept(c, p)
  BY <1>1 DEF FollowRead, AcceptWrite, RowKept
<1>2. ASSUME NEW d \in Calls, NEW q \in Pairs, Unfollow(d, q)
      PROVE  RowKept(c, p)
  <2>1. q # p
    BY <1>0, <1>2 DEF Unfollow
  <2>. QED
    BY <1>2, <2>1 DEF Unfollow, SetEdge, ClearRequest, RowKept, TypeOK
<1>3. ASSUME NEW d \in Calls, NEW q \in Pairs, RejectDelete(d, q)
      PROVE  RowKept(c, p)
  <2>1. q # p \/ UNCHANGED edge
    BY <1>0, <1>3 DEF RejectDelete
  <2>. QED
    BY <1>3, <2>1 DEF RejectDelete, SetEdge, RowKept, TypeOK
<1>4. ASSUME NEW d \in Calls, FollowDecide(d) \/ FollowWrite(d) \/ Fail(d)
      PROVE  RowKept(c, p)
  BY <1>4 DEF FollowDecide, FollowWrite, Fail, RowKept
<1>5. ASSUME NEW d \in Calls, FollowCommit(d)
      PROVE  RowKept(c, p)
  <2>1. d # c
    BY <1>0, <1>5 DEF FollowCommit, Return, TypeOK
  <2>2. call[d].pair # p /\ call[d].pair \in Pairs
    BY <1>5, <2>1 DEF FollowCommit, LockInv, Holds, CallInv
  <2>3. request'[p] = request[p]
    BY <1>5, <2>2 DEF FollowCommit, Notify, TypeOK
  <2>. QED
    BY <1>5, <2>2, <2>3 DEF FollowCommit, SetEdge, RowKept, TypeOK
<1>6. ASSUME NEW d \in Calls, AcceptCommit(d)
      PROVE  RowKept(c, p)
  <2>1. d # c
    BY <1>0, <1>6 DEF AcceptCommit, Return, TypeOK
  <2>2. call[d].pair # p /\ call[d].pair \in Pairs
    BY <1>6, <2>1 DEF AcceptCommit, LockInv, Holds, CallInv
  <2>3. accepted'[p] = accepted[p]
    BY <1>6, <2>2 DEF AcceptCommit, Notify, TypeOK
  <2>. QED
    BY <1>6, <2>2, <2>3 DEF AcceptCommit, SetEdge, ClearRequest, RowKept, TypeOK
<1>7. ASSUME NEW d \in Calls, RejectClear(d)
      PROVE  RowKept(c, p)
  BY <1>0, <1>7 DEF RejectClear, ClearRequest, RowKept, TypeOK
<1>8. ASSUME NEW u \in Followees, SetPrivate(u)
      PROVE  RowKept(c, p)
  BY <1>8 DEF SetPrivate, RowKept
<1>9. ASSUME NEW q \in Pairs, ReadRequest(q) \/ ReadAccepted(q)
      PROVE  RowKept(c, p)
  <2>1. (request[p] = 0 => request'[p] = 0) /\ (accepted[p] = 0 => accepted'[p] = 0)
    BY <1>9 DEF ReadRequest, ReadAccepted, TypeOK
  <2>. QED
    BY <1>9, <2>1 DEF ReadRequest, ReadAccepted, RowKept
<1>10. ASSUME NEW u \in Users, DeleteAccount(u)
       PROVE  RowKept(c, p)
  <2>1. u # p[1] /\ u # p[2]
    BY <1>0, <1>10 DEF DeleteAccount
  <2>. QED
    BY <1>10, <2>1 DEF DeleteAccount, RowKept, TypeOK
<1>11. CASE UNCHANGED vars
  BY <1>11 DEF vars, RowKept
<1>. QED
  BY <1>1, <1>2, <1>3, <1>4, <1>5, <1>6, <1>7, <1>8, <1>9, <1>10, <1>11 DEF Next

-----------------------------------------------------------------------------
(* What a transaction knows while it holds its lock, and what deleted      *)
(* accounts leave behind.                                                  *)
BothLive(p) == p[1] \in live /\ p[2] \in live

KnowsRow(c) ==
    /\ call[c].at = "written" =>
          /\ BothLive(call[c].pair)
          /\ call[c].notify => request[call[c].pair] = 0
    /\ call[c].at = "accepting" =>
          /\ edge[call[c].pair] = "pending"
          /\ call[c].notify => accepted[call[c].pair] = 0

HolderInv == \A c \in Calls : KnowsRow(c)

GhostInv ==
    \A p \in Pairs : /\ edge[p] # "none" => BothLive(p)
                     /\ p \in ghosts => ~BothLive(p)

LInv == TInv /\ LockInv /\ HolderInv /\ GhostInv /\ OneUnread

LEMMA NextHolderInv ==
  ASSUME TInv, LockInv, HolderInv, [Next]_vars
  PROVE  HolderInv'
<1>. USE PairEnds
<1>. SUFFICES ASSUME NEW c \in Calls, call'[c].at \in {"written", "accepting"}
              PROVE  KnowsRow(c)'
  BY DEF HolderInv, KnowsRow
<1>1. CASE call'[c] = call[c]
  <2>. DEFINE p == call[c].pair
  <2>1. p \in Pairs /\ Holds(c, p)
    BY <1>1 DEF TInv, CallInv, Holds
  <2>2. RowKept(c, p)
    BY <1>1, <2>1, LockKeepsRow
  <2>3. KnowsRow(c)
    BY DEF HolderInv
  <2>. QED
    BY <1>1, <2>1, <2>2, <2>3 DEF RowKept, KnowsRow, BothLive
<1>2. CASE FollowWrite(c)
  <2>1. /\ call'[c].at = "written" /\ call'[c].pair = call[c].pair
        /\ call'[c].notify => request[call[c].pair] = 0
    BY <1>2 DEF FollowWrite, Moves, TInv, TypeOK
  <2>2. live' = live /\ request' = request /\ BothLive(call[c].pair)
    BY <1>2 DEF FollowWrite, state, BothLive
  <2>. QED
    BY <2>1, <2>2 DEF KnowsRow, BothLive
<1>3. ASSUME NEW p \in Pairs, AcceptWrite(c, p)
      PROVE  KnowsRow(c)'
  <2>1. /\ call'[c].at = "accepting" /\ call'[c].pair = p
        /\ call'[c].notify => accepted[p] = 0
    BY <1>3 DEF AcceptWrite, Moves, TInv, TypeOK
  <2>. QED
    BY <1>3, <2>1 DEF AcceptWrite, state, KnowsRow
<1>. QED
  BY <1>1, <1>2, <1>3, OneCallMoves

(* A lock holder's row. *)
LEMMA HeldPair ==
  ASSUME TInv, LockInv, HolderInv, NEW c \in Calls
  PROVE  /\ FollowCommit(c) =>
               /\ call[c].pair \in Pairs /\ BothLive(call[c].pair)
               /\ call[c].state \in {"pending", "accepted"}
               /\ call[c].notify => request[call[c].pair] = 0
         /\ AcceptCommit(c) =>
               /\ call[c].pair \in Pairs /\ edge[call[c].pair] = "pending"
               /\ call[c].notify => accepted[call[c].pair] = 0
BY DEF FollowCommit, AcceptCommit, TInv, CallInv, HolderInv, KnowsRow

LEMMA NextGhostInv ==
  ASSUME TInv, LockInv, HolderInv, GhostInv, [Next]_vars
  PROVE  GhostInv'
<1>. USE PairEnds DEF state, history
<1>1. ASSUME UNCHANGED <<live, ghosts>>,
             \A p \in Pairs : edge'[p] # "none" => edge[p] # "none" \/ BothLive(p)
      PROVE  GhostInv'
  BY <1>1 DEF GhostInv, BothLive
<1>2. ASSUME NEW c \in Calls, FollowCommit(c) PROVE GhostInv'
  BY <1>1, <1>2, HeldPair DEF FollowCommit, SetEdge, TInv, TypeOK
<1>3. ASSUME NEW c \in Calls, AcceptCommit(c) PROVE GhostInv'
  BY <1>1, <1>3, HeldPair DEF AcceptCommit, SetEdge, TInv, TypeOK
<1>4. ASSUME NEW c \in Calls, NEW p \in Pairs, Unfollow(c, p) \/ RejectDelete(c, p)
      PROVE  GhostInv'
  BY <1>1, <1>4 DEF Unfollow, RejectDelete, SetEdge, TInv, TypeOK
<1>5. ASSUME NEW u \in Users, DeleteAccount(u) PROVE GhostInv'
  BY <1>5 DEF DeleteAccount, GhostInv, BothLive, TInv, TypeOK
<1>6. ASSUME UNCHANGED <<live, ghosts, edge>> PROVE GhostInv'
  BY <1>1, <1>6
<1>. QED
  BY <1>2, <1>3, <1>4, <1>5, <1>6
     DEF Next, FollowRead, FollowDecide, FollowWrite, AcceptWrite, RejectClear, Fail,
         SetPrivate, ReadRequest, ReadAccepted, vars

LEMMA NextOneUnread ==
  ASSUME TInv, LockInv, HolderInv, OneUnread, [Next]_vars
  PROVE  OneUnread'
<1>. USE PairEnds DEF state, history
<1>1. ASSUME \A p \in Pairs : /\ request'[p] \in {0, request[p]}
                              /\ accepted'[p] \in {0, accepted[p]}
      PROVE  OneUnread'
  BY <1>1 DEF OneUnread
<1>2. ASSUME NEW c \in Calls, FollowCommit(c) PROVE OneUnread'
  <2>. DEFINE p == call[c].pair
  <2>1. p \in Pairs /\ (call[c].notify => request[p] = 0)
    BY <1>2, HeldPair
  <2>2. \A q \in Pairs : request'[q] = request[q] \/ request'[q] = 1
    BY <1>2, <2>1 DEF FollowCommit, Notify, TInv, TypeOK
  <2>. QED
    BY <1>2, <2>2 DEF FollowCommit, OneUnread
<1>3. ASSUME NEW c \in Calls, AcceptCommit(c) PROVE OneUnread'
  <2>. DEFINE p == call[c].pair
  <2>1. p \in Pairs /\ (call[c].notify => accepted[p] = 0)
    BY <1>3, HeldPair
  <2>2. \A q \in Pairs : accepted'[q] = accepted[q] \/ accepted'[q] = 1
    BY <1>3, <2>1 DEF AcceptCommit, Notify, TInv, TypeOK
  <2>3. \A q \in Pairs : request'[q] \in {0, request[q]}
    BY <1>3, <2>1 DEF AcceptCommit, ClearRequest, TInv, TypeOK
  <2>. QED
    BY <2>2, <2>3 DEF OneUnread
<1>4. ASSUME NEW c \in Calls, NEW p \in Pairs, Unfollow(c, p) PROVE OneUnread'
  BY <1>1, <1>4 DEF Unfollow, ClearRequest, TInv, TypeOK
<1>5. ASSUME NEW c \in Calls, RejectClear(c) PROVE OneUnread'
  <2>1. call[c].pair \in Pairs
    BY <1>5 DEF RejectClear, TInv, CallInv
  <2>. QED
    BY <1>1, <1>5, <2>1 DEF RejectClear, ClearRequest, TInv, TypeOK
<1>6. ASSUME NEW p \in Pairs, ReadRequest(p) \/ ReadAccepted(p) PROVE OneUnread'
  <2>1. \A q \in Pairs : request[q] \in Nat /\ accepted[q] \in Nat
    BY DEF TInv, TypeOK
  <2>2. \A q \in Pairs : request'[q] <= request[q] /\ accepted'[q] <= accepted[q]
    BY <1>6, <2>1 DEF ReadRequest, ReadAccepted, TInv, TypeOK
  <2>3. TInv'
    BY NextTInv
  <2>4. \A q \in Pairs : request'[q] \in Nat /\ accepted'[q] \in Nat
    BY <2>3 DEF TInv, TypeOK
  <2>. QED
    BY <2>1, <2>2, <2>4 DEF OneUnread
<1>7. ASSUME NEW u \in Users, DeleteAccount(u) PROVE OneUnread'
  BY <1>1, <1>7 DEF DeleteAccount
<1>8. ASSUME UNCHANGED <<request, accepted>> PROVE OneUnread'
  BY <1>8 DEF OneUnread
<1>. QED
  BY <1>2, <1>3, <1>4, <1>5, <1>6, <1>7, <1>8
     DEF Next, FollowRead, FollowDecide, FollowWrite, AcceptWrite, RejectDelete, Fail,
         SetPrivate, vars

LEMMA SpecLInv == Spec => []LInv
<1>1. Init => LInv
  <2>. SUFFICES ASSUME Init PROVE LInv
    OBVIOUS
  <2>1. LockInv /\ HolderInv
    BY DEF Init, LockInv, HolderInv, KnowsRow, Holds
  <2>2. GhostInv /\ OneUnread
    BY DEF Init, GhostInv, OneUnread
  <2>. QED
    BY <2>1, <2>2, InitTInv DEF LInv
<1>2. LInv /\ [Next]_vars => LInv'
  BY NextTInv, NextLockInv, NextHolderInv, NextGhostInv, NextOneUnread DEF LInv
<1>. QED
  BY <1>1, <1>2, PTL DEF Spec

(* Never two unread notifications of a kind for a pair: all transactions   *)
(* that notify for a pair wait for each other at its follows row, so the   *)
(* NOT EXISTS of one sees what the one before it has inserted.             *)
THEOREM LockKeepsOneUnread == Spec => []OneUnread
<1>1. LInv => OneUnread
  BY DEF LInv
<1>. QED
  BY <1>1, SpecLInv, PTL

-----------------------------------------------------------------------------
(* A follow that overlaps no other one of its pair is alone with a pair    *)
(* that has no row, until it commits: nobody else creates rows.            *)
OverlapInv ==
    \A p \in Pairs : \A c \in FollowsOf(p) :
        c \notin overlapped => FollowsOf(p) = {c} /\ edge[p] = "none"

(* Steps that start no follow and create no row. *)
LEMMA NoFollowStarts ==
  ASSUME OverlapInv,
         \A p \in Pairs : FollowsOf(p)' \subseteq FollowsOf(p),
         \A p \in Pairs : \A c \in FollowsOf(p)' : c \in overlapped => c \in overlapped',
         \A p \in Pairs : edge[p] = "none" => edge'[p] = "none"
  PROVE  OverlapInv'
<1>. SUFFICES ASSUME NEW p \in Pairs, NEW c \in FollowsOf(p)', c \notin overlapped'
              PROVE  FollowsOf(p)' = {c} /\ edge'[p] = "none"
  BY DEF OverlapInv
<1>1. c \in FollowsOf(p) /\ c \notin overlapped
  OBVIOUS
<1>2. FollowsOf(p) = {c} /\ edge[p] = "none"
  BY <1>1 DEF OverlapInv
<1>. QED
  BY <1>2

LEMMA NextOverlapInv ==
  ASSUME LInv, OverlapInv, [Next]_vars
  PROVE  OverlapInv'
<1>. USE DEF LInv, TInv, state, history
<1>1. ASSUME NEW c \in Calls, NEW p \in Pairs, FollowRead(c, p) PROVE OverlapInv'
  <2>1. \A q \in Pairs : FollowsOf(q)' = IF q = p THEN FollowsOf(q) \cup {c} ELSE FollowsOf(q)
    BY <1>1 DEF FollowRead, Moves, FollowsOf, TypeOK
  <2>2. edge' = edge /\ edge[p] = "none"
    BY <1>1 DEF FollowRead
  <2>3. CASE FollowsOf(p) = {}
    <3>1. overlapped' = overlapped /\ FollowsOf(p)' = {c}
      BY <1>1, <2>1, <2>3 DEF FollowRead, CountOverlap
    <3>. QED
      BY <2>1, <2>2, <3>1 DEF OverlapInv
  <2>4. CASE FollowsOf(p) # {}
    <3>1. overlapped' = overlapped \cup FollowsOf(p) \cup {c}
      BY <1>1, <2>4 DEF FollowRead, CountOverlap
    <3>. QED
      BY <2>1, <2>2, <3>1 DEF OverlapInv
  <2>. QED
    BY <2>3, <2>4
<1>2. ASSUME NEW c \in Calls, FollowCommit(c) PROVE OverlapInv'
  <2>. DEFINE p == call[c].pair
  <2>1. p \in Pairs /\ c \in FollowsOf(p)
    BY <1>2, HeldPair DEF FollowCommit, FollowsOf
  <2>2. \A q \in Pairs : FollowsOf(q)' = FollowsOf(q) \ {c}
    BY <1>2 DEF FollowCommit, Return, FollowsOf, TypeOK
  <2>3. \A q \in Pairs : q # p => edge'[q] = edge[q]
    BY <1>2 DEF FollowCommit, SetEdge, TypeOK
  <2>4. overlapped' = overlapped \ {c}
    BY <1>2 DEF FollowCommit, Return
  <2>. HIDE DEF p
  <2>. SUFFICES ASSUME NEW q \in Pairs, NEW d \in FollowsOf(q)', d \notin overlapped'
                PROVE  FollowsOf(q)' = {d} /\ edge'[q] = "none"
    BY DEF OverlapInv
  <2>5. d # c /\ d \in FollowsOf(q) /\ d \notin overlapped
    BY <2>2, <2>4
  <2>6. FollowsOf(q) = {d} /\ edge[q] = "none"
    BY <2>5 DEF OverlapInv
  <2>7. q # p
    BY <2>1, <2>5, <2>6
  <2>. QED
    BY <2>2, <2>3, <2>5, <2>6, <2>7
<1>3. ASSUME NEW c \in Calls, AcceptCommit(c) PROVE OverlapInv'
  <2>1. call[c].pair \in Pairs /\ edge[call[c].pair] = "pending"
    BY <1>3, HeldPair
  <2>2. \A q \in Pairs : FollowsOf(q)' = FollowsOf(q) /\ c \notin FollowsOf(q)
    BY <1>3 DEF AcceptCommit, Return, FollowsOf, TypeOK
  <2>3. \A q \in Pairs : edge[q] = "none" => edge'[q] = "none"
    BY <1>3, <2>1 DEF AcceptCommit, SetEdge, TypeOK
  <2>. QED
    BY <1>3, <2>2, <2>3, NoFollowStarts DEF AcceptCommit, Return
<1>4. ASSUME NEW c \in Calls, NEW p \in Pairs, Unfollow(c, p) \/ RejectDelete(c, p)
      PROVE  OverlapInv'
  <2>1. \A q \in Pairs : FollowsOf(q)' \subseteq FollowsOf(q)
    BY <1>4 DEF Unfollow, RejectDelete, Moves, FollowsOf, TypeOK
  <2>2. \A q \in Pairs : edge[q] = "none" => edge'[q] = "none"
    BY <1>4 DEF Unfollow, RejectDelete, SetEdge, TypeOK
  <2>3. overlapped' = overlapped
    BY <1>4 DEF Unfollow, RejectDelete
  <2>. QED
    BY <2>1, <2>2, <2>3, NoFollowStarts
<1>5. ASSUME NEW c \in Calls, NEW p \in Pairs, AcceptWrite(c, p)
      PROVE  OverlapInv'
  <2>1. \A q \in Pairs : FollowsOf(q)' \subseteq FollowsOf(q)
    BY <1>5 DEF AcceptWrite, Moves, FollowsOf, TypeOK
  <2>. QED
    BY <1>5, <2>1, NoFollowStarts DEF AcceptWrite
<1>6. ASSUME NEW c \in Calls, FollowDecide(c) \/ FollowWrite(c)
      PROVE  OverlapInv'
  <2>1. call'[c].pair = call[c].pair /\ call'[c].at \in {"decided", "written"}
    BY <1>6 DEF FollowDecide, FollowWrite, Moves, TypeOK
  <2>2. \A d \in Calls : d # c => call'[d] = call[d]
    BY <1>6 DEF FollowDecide, FollowWrite, Moves, TypeOK
  <2>3. call[c].at \in {"absent", "decided"}
    BY <1>6 DEF FollowDecide, FollowWrite
  <2>4. \A q \in Pairs : FollowsOf(q)' = FollowsOf(q)
    BY <2>1, <2>2, <2>3 DEF FollowsOf
  <2>. QED
    BY <1>6, <2>4, NoFollowStarts DEF FollowDecide, FollowWrite
<1>7. ASSUME NEW c \in Calls, RejectClear(c) \/ Fail(c)
      PROVE  OverlapInv'
  <2>1. \A q \in Pairs : FollowsOf(q)' \subseteq FollowsOf(q) /\ c \notin FollowsOf(q)'
    BY <1>7 DEF RejectClear, Fail, Return, FollowsOf, TypeOK
  <2>. QED
    BY <1>7, <2>1, NoFollowStarts DEF RejectClear, Fail, Return
<1>8. ASSUME NEW u \in Users, DeleteAccount(u) PROVE OverlapInv'
  <2>1. \A q \in Pairs : FollowsOf(q)' = FollowsOf(q)
    BY <1>8 DEF DeleteAccount, FollowsOf
  <2>2. \A q \in Pairs : edge[q] = "none" => edge'[q] = "none"
    BY <1>8 DEF DeleteAccount
  <2>. QED
    BY <1>8, <2>1, <2>2, NoFollowStarts DEF DeleteAccount
<1>9. ASSUME UNCHANGED <<edge, call, overlapped>> PROVE OverlapInv'
  BY <1>9 DEF OverlapInv, FollowsOf
<1>. QED
  BY <1>1, <1>2, <1>3, <1>4, <1>5, <1>6, <1>7, <1>8, <1>9
     DEF Next, SetPrivate, ReadRequest, ReadAccepted, vars

LEMMA SpecOverlapInv == Spec => [](LInv /\ OverlapInv)
<1>1. Init => OverlapInv
  BY DEF Init, OverlapInv, FollowsOf
<1>2. LInv /\ OverlapInv /\ [Next]_vars => OverlapInv'
  BY NextOverlapInv
<1>. QED
  BY <1>1, <1>2, SpecLInv, PTL DEF Spec

LEMMA StepDowngrades ==
  ASSUME LInv, OverlapInv, [Next]_vars, NEW p \in Pairs,
         edge[p] = "accepted", edge'[p] = "pending"
  PROVE  \E c \in overlapped : call[c].pair = p /\ FollowCommit(c)
<1>. USE DEF LInv, TInv, state, history
<1>1. ASSUME NEW c \in Calls, FollowCommit(c)
      PROVE  c \in overlapped /\ call[c].pair = p
  <2>1. call[c].pair = p
    BY <1>1 DEF FollowCommit, SetEdge, TypeOK
  <2>2. c \in FollowsOf(p)
    BY <1>1, <2>1 DEF FollowCommit, FollowsOf
  <2>. QED
    BY <2>1, <2>2 DEF OverlapInv
<1>2. ASSUME NEW c \in Calls, AcceptCommit(c) PROVE FALSE
  BY <1>2 DEF AcceptCommit, SetEdge, TypeOK
<1>3. ASSUME NEW c \in Calls, NEW q \in Pairs, Unfollow(c, q) \/ RejectDelete(c, q) PROVE FALSE
  BY <1>3 DEF Unfollow, RejectDelete, SetEdge, TypeOK
<1>4. ASSUME NEW u \in Users, DeleteAccount(u) PROVE FALSE
  BY <1>4 DEF DeleteAccount
<1>5. edge' # edge
  OBVIOUS
<1>. QED
  BY <1>1, <1>2, <1>3, <1>4, <1>5
     DEF Next, FollowRead, FollowDecide, FollowWrite, AcceptWrite, RejectClear, Fail,
         SetPrivate, ReadRequest, ReadAccepted, vars

(* An accepted follow falls back to pending only when a follow commits     *)
(* that another follow of the same pair has overlapped: whatever else      *)
(* happens between what a follow reads and what it writes, an accept, a    *)
(* reject, a privacy change, a deleted account, is harmless.               *)
THEOREM OnlyOverlapsDowngrade == Spec => NoDowngrade
<1>. DEFINE A == \A p \in Pairs :
                    edge[p] = "accepted" /\ edge'[p] = "pending"
                       => \E c \in overlapped : call[c].pair = p /\ FollowCommit(c)
<1>1. LInv /\ OverlapInv /\ [Next]_vars => [A]_vars
  BY StepDowngrades
<1>2. [][A]_vars => NoDowngrade
  BY DEF NoDowngrade
<1>. HIDE DEF A
<1>. QED
  BY <1>1, <1>2, SpecOverlapInv, PTL DEF Spec

-----------------------------------------------------------------------------
(* Among the statements that mark request notifications as read only those *)
(* of the same pair can reach a request that stays pending, and of those   *)
(* only mark_read and the second one of a reject leave it pending.         *)
LEMMA StepSilences ==
  ASSUME LInv, [Next]_vars, NEW p \in Pairs,
         edge[p] = "pending", edge'[p] = "pending", request'[p] < request[p]
  PROVE  ReadRequest(p) \/ Rejecting(p)
<1>. USE DEF LInv, TInv, state, history
<1>1. request[p] \in Nat
  BY DEF TypeOK
<1>2. request' # request
  BY <1>1
<1>3. ASSUME NEW c \in Calls, NEW q \in Pairs, Unfollow(c, q)
      PROVE  FALSE
  <2>1. edge'[q] # "pending" /\ \A r \in Pairs \ {q} : request'[r] = request[r]
    BY <1>3 DEF Unfollow, SetEdge, ClearRequest, TypeOK
  <2>. QED
    BY <1>1, <2>1
<1>4. ASSUME NEW c \in Calls, AcceptCommit(c)
      PROVE  FALSE
  <2>. DEFINE q == call[c].pair
  <2>1. q \in Pairs
    BY <1>4, HeldPair
  <2>2. edge'[q] # "pending" /\ \A r \in Pairs \ {q} : request'[r] = request[r]
    BY <1>4, <2>1 DEF AcceptCommit, SetEdge, ClearRequest, TypeOK
  <2>. QED
    BY <1>1, <2>2
<1>5. ASSUME NEW c \in Calls, FollowCommit(c)
      PROVE  FALSE
  <2>1. request' = Notify(c, request) /\ call[c].pair \in Pairs
    BY <1>2, <1>5, HeldPair DEF FollowCommit
  <2>. QED
    BY <1>1, <2>1 DEF Notify, TypeOK
<1>6. ASSUME NEW c \in Calls, RejectClear(c)
      PROVE  Rejecting(p)
  <2>1. call[c].at = "deleted" /\ request' = [request EXCEPT ![call[c].pair] = 0]
    BY <1>6 DEF RejectClear, ClearRequest
  <2>2. call[c].pair = p
    BY <1>1, <2>1 DEF TypeOK
  <2>. QED
    BY <2>1, <2>2 DEF Rejecting
<1>7. ASSUME NEW q \in Pairs, ReadRequest(q)
      PROVE  ReadRequest(p)
  <2>1. q = p
    BY <1>1, <1>7 DEF ReadRequest, TypeOK
  <2>. QED
    BY <1>7, <2>1
<1>8. ASSUME NEW u \in Users, DeleteAccount(u)
      PROVE  FALSE
  BY <1>1, <1>8 DEF DeleteAccount
<1>. QED
  BY <1>2, <1>3, <1>4, <1>5, <1>6, <1>7, <1>8
     DEF Next, FollowRead, FollowDecide, FollowWrite, AcceptWrite, RejectDelete, Fail,
         SetPrivate, ReadAccepted, vars

(* No call about one pair silences a pending request of another, however   *)
(* many calls of however many users overlap.                               *)
THEOREM FolloweeSilences == Spec => SilencedByFollowee
<1>. DEFINE A == \A p \in Pairs :
                    edge[p] = "pending" /\ edge'[p] = "pending" /\ request'[p] < request[p]
                       => ReadRequest(p) \/ Rejecting(p)
<1>1. LInv /\ [Next]_vars => [A]_vars
  BY StepSilences
<1>2. [][A]_vars => SilencedByFollowee
  BY DEF SilencedByFollowee
<1>. HIDE DEF A
<1>. QED
  BY <1>1, <1>2, SpecLInv, PTL DEF Spec

-----------------------------------------------------------------------------
(* Unread requests.  A follow about to make a new request notifies, unless *)
(* it has found what a half-done reject or an overwritten row left unread. *)
WillNotify(c) ==
    LET p == call[c].pair IN
    /\ call[c].at = "written" /\ call[c].state = "pending"
    /\ Followee(p) \notin MuteRequests
    /\ edge[p] = "none" /\ p \notin halfRejected /\ p \notin overwritten
    => call[c].notify

WrittenInv == \A c \in Calls : WillNotify(c)

UInv == LInv /\ WrittenInv /\ UnreadIsPending

LEMMA NextWrittenInv ==
  ASSUME UInv, [Next]_vars
  PROVE  WrittenInv'
<1>. USE DEF UInv, LInv, TInv
<1>. SUFFICES ASSUME NEW c \in Calls, call'[c].at = "written"
              PROVE  WillNotify(c)'
  BY DEF WrittenInv, WillNotify
<1>1. CASE call'[c] = call[c]
  <2>. DEFINE p == call[c].pair
  <2>1. p \in Pairs /\ Holds(c, p)
    BY <1>1 DEF CallInv, Holds
  <2>2. RowKept(c, p)
    BY <1>1, <2>1, LockKeepsRow
  <2>3. WillNotify(c)
    BY DEF WrittenInv
  <2>. QED
    BY <1>1, <2>1, <2>2, <2>3 DEF RowKept, WillNotify
<1>2. CASE FollowWrite(c)
  <2>. DEFINE p == call[c].pair
  <2>1. p \in Pairs /\ request[p] \in Nat
    BY <1>2 DEF FollowWrite, CallInv, TypeOK
  <2>2. /\ call'[c].pair = p /\ call'[c].state = call[c].state
        /\ call'[c].notify <=> /\ call[c].state = "pending"
                               /\ Followee(p) \notin MuteRequests
                               /\ request[p] = 0
    BY <1>2 DEF FollowWrite, Moves, TypeOK
  <2>3. UNCHANGED <<edge, halfRejected, overwritten>>
    BY <1>2 DEF FollowWrite, state, history
  <2>4. edge[p] = "none" /\ p \notin halfRejected /\ p \notin overwritten => request[p] = 0
    BY <2>1 DEF UnreadIsPending
  <2>. QED
    BY <2>2, <2>3, <2>4 DEF WillNotify
<1>3. ASSUME NEW p \in Pairs, AcceptWrite(c, p)
      PROVE  FALSE
  BY <1>3 DEF AcceptWrite, Moves, TypeOK
<1>. QED
  BY <1>1, <1>2, <1>3, OneCallMoves

Notifying == \A p \in Pairs : Requested(p) /\ p \notin halfRejected /\ p \notin overwritten
                                 => NotifiesFollowee(p)

(* Statements that clear a pair also end its being half rejected, unless a *)
(* follow has looked before.                                               *)
LEMMA ClearedIsNotUnread ==
  ASSUME TypeOK, UnreadIsPending, NEW p \in Pairs, ClearRequest(p),
         \A q \in Pairs \ {p} : edge'[q] = edge[q], overwritten' = overwritten
  PROVE  UnreadIsPending'
<1>. SUFFICES ASSUME NEW q \in Pairs, request'[q] > 0
              PROVE  edge'[q] = "pending" \/ q \in halfRejected' \/ q \in overwritten'
  BY DEF UnreadIsPending
<1>1. q # p /\ request'[q] = request[q]
  BY DEF ClearRequest, TypeOK
<1>. QED
  BY <1>1 DEF ClearRequest, UnreadIsPending

LEMMA NextUnread ==
  ASSUME UInv, [Next]_vars
  PROVE  UnreadIsPending' /\ Notifying
<1>. USE DEF UInv, LInv, TInv, state, history
<1>. DEFINE Goal == UnreadIsPending' /\ Notifying
<1>0. TypeOK /\ TypeOK'
  BY NextTInv
<1>1. ASSUME UNCHANGED <<edge, halfRejected, overwritten>>,
             \A p \in Pairs : request'[p] <= request[p]
      PROVE  Goal
  <2>1. UnreadIsPending'
    <3>. SUFFICES ASSUME NEW p \in Pairs, request'[p] > 0
                  PROVE  edge[p] = "pending" \/ p \in halfRejected \/ p \in overwritten
      BY <1>1 DEF UnreadIsPending
    <3>1. request[p] \in Nat /\ request'[p] \in Nat
      BY <1>0 DEF TypeOK
    <3>2. request[p] > 0
      BY <1>1, <3>1
    <3>. QED
      BY <3>2 DEF UnreadIsPending
  <2>. QED
    BY <1>1, <2>1 DEF Notifying, Requested
<1>2. ASSUME NEW c \in Calls, FollowCommit(c) PROVE Goal
  <2>. DEFINE p == call[c].pair
  <2>1. /\ p \in Pairs /\ call[c].state \in {"pending", "accepted"}
        /\ call[c].notify => request[p] = 0
    BY <1>2, HeldPair
  <2>2. /\ edge' = [edge EXCEPT ![p] = call[c].state]
        /\ halfRejected' = halfRejected
        /\ overwritten' = IF edge[p] = "none" THEN overwritten ELSE overwritten \cup {p}
        /\ call[c].state = "accepted" => request' = request
        /\ call[c].state = "pending" => request' = Notify(c, request)
    BY <1>2 DEF FollowCommit, SetEdge
  <2>3. WillNotify(c) /\ call[c].at = "written"
    BY <1>2 DEF WrittenInv, FollowCommit
  <2>4. \A q \in Pairs \ {p} : edge'[q] = edge[q] /\ request'[q] = request[q]
    <3>1. request' = request \/ request' = [request EXCEPT ![p] = @ + 1]
      BY <2>1, <2>2 DEF Notify
    <3>. HIDE DEF p
    <3>. QED
      BY <2>2, <3>1 DEF TypeOK
  <2>5. request[p] \in Nat /\ edge'[p] = call[c].state
    BY <2>1, <2>2 DEF TypeOK
  <2>6. call[c].notify /\ call[c].state = "pending" => request[p] = 0 /\ request'[p] = 1
    BY <2>1, <2>2 DEF Notify, TypeOK
  <2>7. UnreadIsPending'
    <3>. SUFFICES ASSUME NEW q \in Pairs, request'[q] > 0
                  PROVE  edge'[q] = "pending" \/ q \in halfRejected' \/ q \in overwritten'
      BY DEF UnreadIsPending
    <3>1. CASE q # p
      BY <2>2, <2>4, <3>1 DEF UnreadIsPending
    <3>2. CASE q = p
      BY <2>1, <2>2, <2>5, <3>2 DEF UnreadIsPending
    <3>. QED
      BY <3>1, <3>2
  <2>8. Notifying
    <3>. SUFFICES ASSUME NEW q \in Pairs, Requested(q), q \notin halfRejected, q \notin overwritten
                  PROVE  NotifiesFollowee(q)
      BY DEF Notifying
    <3>1. q = p
      BY <2>4 DEF Requested
    <3>2. Followee(p) \notin MuteRequests => call[c].notify
      BY <2>3, <2>5, <3>1 DEF Requested, WillNotify
    <3>. QED
      BY <2>5, <2>6, <3>1, <3>2 DEF Requested, NotifiesFollowee
  <2>. QED
    BY <2>7, <2>8
<1>3. ASSUME NEW c \in Calls, NEW p \in Pairs, Unfollow(c, p) PROVE Goal
  <2>1. edge' = [edge EXCEPT ![p] = "none"] /\ overwritten' = overwritten
    BY <1>3 DEF Unfollow, SetEdge
  <2>2. Notifying
    BY <1>0, <2>1 DEF Notifying, Requested, TypeOK
  <2>3. CASE edge[p] = "accepted"
    BY <1>0, <1>3, <2>1, <2>2, <2>3 DEF Unfollow, UnreadIsPending, TypeOK
  <2>4. CASE edge[p] = "pending"
    BY <1>0, <1>3, <2>1, <2>2, <2>4, ClearedIsNotUnread DEF Unfollow, TypeOK
  <2>. QED
    BY <1>3, <2>3, <2>4 DEF Unfollow
<1>4. ASSUME NEW c \in Calls, AcceptCommit(c) PROVE Goal
  <2>. DEFINE p == call[c].pair
  <2>1. p \in Pairs
    BY <1>4, HeldPair
  <2>2. edge' = [edge EXCEPT ![p] = "accepted"] /\ overwritten' = overwritten /\ ClearRequest(p)
    BY <1>4 DEF AcceptCommit, SetEdge
  <2>. HIDE DEF p
  <2>3. Notifying
    BY <1>0, <2>1, <2>2 DEF Notifying, Requested, TypeOK
  <2>4. \A q \in Pairs \ {p} : edge'[q] = edge[q]
    BY <1>0, <2>1, <2>2 DEF TypeOK
  <2>. QED
    BY <1>0, <2>1, <2>2, <2>3, <2>4, ClearedIsNotUnread
<1>5. ASSUME NEW c \in Calls, NEW p \in Pairs, RejectDelete(c, p) PROVE Goal
  <2>1. \A q \in Pairs : edge'[q] = edge[q] \/ (edge'[q] = "none" /\ q \in halfRejected')
    BY <1>0, <1>5 DEF RejectDelete, SetEdge, TypeOK
  <2>2. request' = request /\ halfRejected \subseteq halfRejected' /\ overwritten' = overwritten
    BY <1>5 DEF RejectDelete
  <2>. QED
    BY <1>0, <2>1, <2>2 DEF UnreadIsPending, Notifying, Requested
<1>6. ASSUME NEW c \in Calls, RejectClear(c) PROVE Goal
  <2>1. /\ call[c].pair \in Pairs /\ ClearRequest(call[c].pair)
        /\ edge' = edge /\ overwritten' = overwritten
    BY <1>0, <1>6 DEF RejectClear, CallInv
  <2>. QED
    BY <1>0, <2>1, ClearedIsNotUnread DEF Notifying, Requested
<1>7. ASSUME NEW p \in Pairs, ReadRequest(p) PROVE Goal
  <2>1. \A q \in Pairs : request'[q] <= request[q]
    BY <1>0, <1>7 DEF ReadRequest, TypeOK
  <2>. QED
    BY <1>1, <1>7, <2>1 DEF ReadRequest
<1>8. ASSUME NEW u \in Users, DeleteAccount(u) PROVE Goal
  <2>1. \A q \in Pairs : \/ request'[q] = 0 /\ edge'[q] = "none"
                         \/ /\ request'[q] = request[q] /\ edge'[q] = edge[q]
                            /\ q \in halfRejected => q \in halfRejected'
    BY <1>8 DEF DeleteAccount
  <2>2. overwritten' = overwritten
    BY <1>8 DEF DeleteAccount
  <2>3. UnreadIsPending'
    BY <2>1, <2>2 DEF UnreadIsPending
  <2>. QED
    BY <2>1, <2>3 DEF Notifying, Requested
<1>9. ASSUME UNCHANGED <<edge, request, halfRejected, overwritten>> PROVE Goal
  <2>1. \A q \in Pairs : request'[q] <= request[q]
    BY <1>0, <1>9 DEF TypeOK
  <2>. QED
    BY <1>1, <1>9, <2>1
<1>. HIDE DEF Goal
<1>10. Goal
  BY <1>2, <1>3, <1>4, <1>5, <1>6, <1>7, <1>8, <1>9
     DEF Next, FollowRead, FollowDecide, FollowWrite, AcceptWrite, Fail, SetPrivate,
         ReadAccepted, vars
<1>. QED
  BY <1>10 DEF Goal

LEMMA SpecUInv == Spec => []UInv
<1>1. Init => WrittenInv /\ UnreadIsPending
  BY DEF Init, WrittenInv, WillNotify, UnreadIsPending
<1>2. LInv /\ LInv' /\ WrittenInv /\ UnreadIsPending /\ [Next]_vars
         => WrittenInv' /\ UnreadIsPending'
  BY NextWrittenInv, NextUnread DEF UInv
<1>3. Spec => [](LInv /\ WrittenInv /\ UnreadIsPending)
  BY <1>1, <1>2, SpecLInv, PTL DEF Spec
<1>4. LInv /\ WrittenInv /\ UnreadIsPending => UInv
  BY DEF UInv
<1>. QED
  BY <1>3, <1>4, PTL

(* An unread request notification is that of a pending request, unless a   *)
(* reject is between its statements or was cut off there, or an            *)
(* overlapping follow overwrote the row.                                   *)
THEOREM UnreadRequestsArePending == Spec => []UnreadIsPending
<1>1. UInv => UnreadIsPending
  BY DEF UInv
<1>. QED
  BY <1>1, SpecUInv, PTL

(* Every new request notifies its followee, in whatever way the ones       *)
(* before it were resolved, with those two exceptions: what NOT EXISTS saw *)
(* before the commit is still so at the commit.                            *)
THEOREM NewRequestsNotify == Spec => RequestNotifies
<1>1. UInv /\ [Next]_vars => [Notifying]_vars
  BY NextUnread
<1>2. [][Notifying]_vars => RequestNotifies
  BY DEF RequestNotifies, Notifying
<1>. QED
  BY <1>1, <1>2, SpecUInv, PTL DEF Spec

-----------------------------------------------------------------------------
(* Counting: the set a counter counts gains, loses or keeps one pair. *)
LEMMA CountedFinite ==
  ASSUME NEW u
  PROVE  IsFiniteSet(CountedFollowers(u)) /\ IsFiniteSet(CountedFollowing(u))
<1>1. CountedFollowers(u) \subseteq Pairs /\ CountedFollowing(u) \subseteq Pairs
  BY DEF CountedFollowers, CountedFollowing
<1>. QED
  BY <1>1, FS_Subset

LEMMA CountedNat ==
  ASSUME NEW u
  PROVE  Cardinality(CountedFollowers(u)) \in Nat /\ Cardinality(CountedFollowing(u)) \in Nat
BY CountedFinite, FS_CardinalityType

LEMMA OneMore ==
  ASSUME NEW S, IsFiniteSet(S), NEW x
  PROVE  /\ Cardinality(S \cup {x}) \in Nat
         /\ Cardinality(S \cup {x}) <= Cardinality(S) + 1
         /\ x \notin S => Cardinality(S \cup {x}) = Cardinality(S) + 1
<1>1. Cardinality(S) \in Nat
  BY FS_CardinalityType
<1>2. Cardinality(S \cup {x}) = IF x \in S THEN Cardinality(S) ELSE Cardinality(S) + 1
  BY FS_AddElement
<1>. QED
  BY <1>1, <1>2

(* The row of p becomes accepted and both its counters go up.  Where p was *)
(* counted before, the row has been overwritten.                           *)
LEMMA GainCounted ==
  ASSUME TypeOK, CountersExact, NEW p \in Pairs,
         SetEdge(p, "accepted"), CountFollow(p, 1), UNCHANGED <<live, ghosts>>,
         overwritten \subseteq overwritten', Counted(p) => p \in overwritten'
  PROVE  CountersExact'
<1>. USE PairEnds
<1>. SUFFICES ASSUME NEW u \in live
     PROVE  /\ followers'[u] >= Cardinality(CountedFollowers(u)')
            /\ following'[u] >= Cardinality(CountedFollowing(u)')
            /\ Undisturbed(u)' => /\ followers'[u] = Cardinality(CountedFollowers(u)')
                                  /\ following'[u] = Cardinality(CountedFollowing(u)')
  BY DEF CountersExact
<1>0. u \in Users
  BY DEF TypeOK
<1>. DEFINE S == CountedFollowers(u)
            T == CountedFollowing(u)
<1>1. CountedFollowers(u)' = IF p[2] = u THEN S \cup {p} ELSE S
  BY DEF TypeOK, SetEdge, CountedFollowers, Counted
<1>2. CountedFollowing(u)' = IF p[1] = u THEN T \cup {p} ELSE T
  BY DEF TypeOK, SetEdge, CountedFollowing, Counted
<1>3. Undisturbed(u)' => Undisturbed(u)
  BY DEF Undisturbed
<1>4. Undisturbed(u)' /\ (p[1] = u \/ p[2] = u) => p \notin S /\ p \notin T
  BY DEF Undisturbed, CountedFollowers, CountedFollowing
<1>5. /\ followers'[u] = IF p[2] = u THEN followers[u] + 1 ELSE followers[u]
      /\ following'[u] = IF p[1] = u THEN following[u] + 1 ELSE following[u]
      /\ followers[u] \in Int /\ following[u] \in Int
  BY <1>0 DEF CountFollow, TypeOK
<1>6. /\ followers[u] >= Cardinality(S) /\ following[u] >= Cardinality(T)
      /\ Undisturbed(u) => followers[u] = Cardinality(S) /\ following[u] = Cardinality(T)
  BY DEF CountersExact
<1>7. Cardinality(S) \in Nat /\ Cardinality(T) \in Nat
  BY CountedNat
<1>8. /\ Cardinality(S \cup {p}) \in Nat /\ Cardinality(S \cup {p}) <= Cardinality(S) + 1
      /\ p \notin S => Cardinality(S \cup {p}) = Cardinality(S) + 1
  BY CountedFinite, OneMore
<1>9. /\ Cardinality(T \cup {p}) \in Nat /\ Cardinality(T \cup {p}) <= Cardinality(T) + 1
      /\ p \notin T => Cardinality(T \cup {p}) = Cardinality(T) + 1
  BY CountedFinite, OneMore
<1>. HIDE DEF S, T
<1>. QED
  BY <1>1, <1>2, <1>3, <1>4, <1>5, <1>6, <1>7, <1>8, <1>9

(* The row of p, accepted, goes and both its counters go down. *)
LEMMA LossCounted ==
  ASSUME TypeOK, CountersExact, NEW p \in Pairs, edge[p] = "accepted", p \notin ghosts,
         SetEdge(p, "none"), CountFollow(p, -1), UNCHANGED <<live, ghosts, overwritten>>
  PROVE  CountersExact'
<1>. USE PairEnds
<1>. SUFFICES ASSUME NEW u \in live
     PROVE  /\ followers'[u] >= Cardinality(CountedFollowers(u)')
            /\ following'[u] >= Cardinality(CountedFollowing(u)')
            /\ Undisturbed(u)' => /\ followers'[u] = Cardinality(CountedFollowers(u)')
                                  /\ following'[u] = Cardinality(CountedFollowing(u)')
  BY DEF CountersExact
<1>0. u \in Users
  BY DEF TypeOK
<1>. DEFINE S == CountedFollowers(u)
            T == CountedFollowing(u)
<1>1. CountedFollowers(u)' = IF p[2] = u THEN S \ {p} ELSE S
  BY DEF TypeOK, SetEdge, CountedFollowers, Counted
<1>2. CountedFollowing(u)' = IF p[1] = u THEN T \ {p} ELSE T
  BY DEF TypeOK, SetEdge, CountedFollowing, Counted
<1>3. Undisturbed(u)' => Undisturbed(u)
  BY DEF Undisturbed
<1>4. /\ p[2] = u => Cardinality(S \ {p}) = Cardinality(S) - 1
      /\ p[1] = u => Cardinality(T \ {p}) = Cardinality(T) - 1
  <2>1. (p[2] = u => p \in S) /\ (p[1] = u => p \in T)
    BY DEF CountedFollowers, CountedFollowing, Counted
  <2>. QED
    BY <2>1, CountedFinite, FS_RemoveElement
<1>5. /\ followers'[u] = IF p[2] = u THEN followers[u] - 1 ELSE followers[u]
      /\ following'[u] = IF p[1] = u THEN following[u] - 1 ELSE following[u]
      /\ followers[u] \in Int /\ following[u] \in Int
  BY <1>0 DEF CountFollow, TypeOK
<1>6. /\ followers[u] >= Cardinality(S) /\ following[u] >= Cardinality(T)
      /\ Undisturbed(u) => followers[u] = Cardinality(S) /\ following[u] = Cardinality(T)
  BY DEF CountersExact
<1>7. Cardinality(S) \in Nat /\ Cardinality(T) \in Nat
  BY CountedNat
<1>. HIDE DEF S, T
<1>. QED
  BY <1>1, <1>2, <1>3, <1>4, <1>5, <1>6, <1>7

(* The counters of who is still there stay, and no pair is counted anew; a *)
(* pair that is not counted any more has had its row overwritten.          *)
LEMMA SameCounted ==
  ASSUME CountersExact, live' \subseteq live, overwritten \subseteq overwritten',
         \A u \in live' : followers'[u] = followers[u] /\ following'[u] = following[u],
         \A u \in live' : followers[u] \in Int /\ following[u] \in Int,
         \A p \in Pairs : Counted(p)' => Counted(p),
         \A p \in Pairs : Counted(p) => Counted(p)' \/ p \in overwritten'
  PROVE  CountersExact'
<1>. SUFFICES ASSUME NEW u \in live'
     PROVE  /\ followers[u] >= Cardinality(CountedFollowers(u)')
            /\ following[u] >= Cardinality(CountedFollowing(u)')
            /\ Undisturbed(u)' => /\ followers[u] = Cardinality(CountedFollowers(u)')
                                  /\ following[u] = Cardinality(CountedFollowing(u)')
  BY DEF CountersExact
<1>. DEFINE S == CountedFollowers(u)
            T == CountedFollowing(u)
<1>1. CountedFollowers(u)' \subseteq S /\ CountedFollowing(u)' \subseteq T
  BY DEF CountedFollowers, CountedFollowing
<1>2. Undisturbed(u)' => /\ Undisturbed(u)
                         /\ CountedFollowers(u)' = S /\ CountedFollowing(u)' = T
  BY <1>1 DEF Undisturbed, CountedFollowers, CountedFollowing
<1>3. /\ Cardinality(CountedFollowers(u)') <= Cardinality(S)
      /\ Cardinality(CountedFollowing(u)') <= Cardinality(T)
      /\ IsFiniteSet(CountedFollowers(u)') /\ IsFiniteSet(CountedFollowing(u)')
  BY <1>1, CountedFinite, FS_Subset
<1>4. /\ Cardinality(S) \in Nat /\ Cardinality(T) \in Nat
      /\ Cardinality(CountedFollowers(u)') \in Nat /\ Cardinality(CountedFollowing(u)') \in Nat
  BY <1>3, CountedNat, FS_CardinalityType
<1>5. /\ followers[u] >= Cardinality(S) /\ following[u] >= Cardinality(T)
      /\ Undisturbed(u) => followers[u] = Cardinality(S) /\ following[u] = Cardinality(T)
  BY DEF CountersExact
<1>. HIDE DEF S, T
<1>. QED
  BY <1>2, <1>3, <1>4, <1>5

LEMMA NextCounters ==
  ASSUME LInv, CountersExact, FeedFollowsGraph, [Next]_vars
  PROVE  CountersExact' /\ FeedFollowsGraph'
<1>. USE PairEnds DEF LInv, TInv, state, history
<1>. DEFINE Goal == CountersExact' /\ FeedFollowsGraph'
<1>0. \A u \in live : u \in Users /\ followers[u] \in Int /\ following[u] \in Int
  BY DEF TypeOK
<1>1. ASSUME UNCHANGED <<live, followers, following, feed, ghosts, overwritten>>,
             \A p \in Pairs : edge'[p] = "accepted" <=> edge[p] = "accepted"
      PROVE  Goal
  <2>1. \A p \in Pairs : Counted(p)' <=> Counted(p)
    BY <1>1 DEF Counted
  <2>2. CountersExact'
    BY <1>0, <1>1, <2>1, SameCounted
  <2>3. FeedFollowsGraph'
    BY <1>1 DEF FeedFollowsGraph, TypeOK
  <2>. QED
    BY <2>2, <2>3
<1>2. ASSUME NEW c \in Calls, FollowCommit(c) PROVE Goal
  <2>. DEFINE p == call[c].pair
  <2>1. p \in Pairs /\ BothLive(p) /\ call[c].state \in {"pending", "accepted"}
    BY <1>2, HeldPair
  <2>2. p \notin ghosts
    BY <2>1 DEF GhostInv
  <2>3. /\ edge' = [edge EXCEPT ![p] = call[c].state] /\ live' = live /\ ghosts' = ghosts
        /\ overwritten' = IF edge[p] = "none" THEN overwritten ELSE overwritten \cup {p}
    BY <1>2 DEF FollowCommit, SetEdge
  <2>4. \A q \in Pairs : edge'[q] = IF q = p THEN call[c].state ELSE edge[q]
    BY <2>1, <2>3 DEF TypeOK
  <2>5. CASE call[c].state = "accepted"
    <3>1. CountFollow(p, 1) /\ feed' = feed \cup {p} /\ SetEdge(p, "accepted")
      BY <1>2, <2>5 DEF FollowCommit, Backfill
    <3>2. Counted(p) => p \in overwritten'
      BY <2>2, <2>3 DEF Counted
    <3>. HIDE DEF p
    <3>3. CountersExact'
      BY <2>1, <2>3, <3>1, <3>2, GainCounted
    <3>4. overwritten \subseteq overwritten'
      BY <2>3
    <3>5. \A q \in Pairs : edge'[q] = IF q = p THEN "accepted" ELSE edge[q]
      BY <2>4, <2>5
    <3>6. FeedFollowsGraph'
      BY <2>1, <3>1, <3>4, <3>5 DEF FeedFollowsGraph, TypeOK
    <3>. QED
      BY <3>3, <3>6
  <2>6. CASE call[c].state = "pending"
    <3>1. followers' = followers /\ following' = following /\ feed' = feed
      BY <1>2, <2>6 DEF FollowCommit
    <3>. HIDE DEF p
    <3>2. \A q \in Pairs : /\ Counted(q)' => Counted(q)
                           /\ Counted(q) => Counted(q)' \/ q \in overwritten'
      BY <2>2, <2>3, <2>4, <2>6 DEF Counted
    <3>3. CountersExact'
      BY <1>0, <2>3, <3>1, <3>2, SameCounted
    <3>4. FeedFollowsGraph'
      BY <2>3, <2>4, <2>6, <3>1 DEF FeedFollowsGraph, TypeOK
    <3>. QED
      BY <3>3, <3>4
  <2>. QED
    BY <2>1, <2>5, <2>6
<1>3. ASSUME NEW c \in Calls, NEW p \in Pairs, Unfollow(c, p) PROVE Goal
  <2>1. /\ edge' = [edge EXCEPT ![p] = "none"]
        /\ UNCHANGED <<live, ghosts, overwritten>>
    BY <1>3 DEF Unfollow, SetEdge
  <2>2. CASE edge[p] = "accepted"
    <3>1. CountFollow(p, -1) /\ feed' = feed \ {p} /\ SetEdge(p, "none")
      BY <1>3, <2>2 DEF Unfollow, RemovePosts
    <3>2. p \notin ghosts
      BY <2>2 DEF GhostInv
    <3>3. CountersExact'
      BY <2>1, <2>2, <3>1, <3>2, LossCounted
    <3>4. FeedFollowsGraph'
      BY <2>1, <3>1 DEF FeedFollowsGraph, TypeOK
    <3>. QED
      BY <3>3, <3>4
  <2>3. CASE edge[p] = "pending"
    <3>1. followers' = followers /\ following' = following /\ feed' = feed
      BY <1>3, <2>3 DEF Unfollow
    <3>. QED
      BY <1>1, <2>1, <2>3, <3>1 DEF TypeOK
  <2>. QED
    BY <1>3, <2>2, <2>3 DEF Unfollow
<1>4. ASSUME NEW c \in Calls, AcceptCommit(c) PROVE Goal
  <2>. DEFINE p == call[c].pair
  <2>1. p \in Pairs /\ edge[p] = "pending"
    BY <1>4, HeldPair
  <2>2. p \notin ghosts
    BY <2>1 DEF GhostInv
  <2>3. /\ SetEdge(p, "accepted") /\ CountFollow(p, 1) /\ feed' = feed \cup {p}
        /\ UNCHANGED <<live, ghosts, overwritten>>
    BY <1>4 DEF AcceptCommit, Backfill
  <2>. HIDE DEF p
  <2>4. ~Counted(p)
    BY <2>1, <2>2 DEF Counted
  <2>5. CountersExact'
    BY <2>1, <2>3, <2>4, GainCounted
  <2>6. FeedFollowsGraph'
    BY <2>1, <2>3 DEF SetEdge, FeedFollowsGraph, TypeOK
  <2>. QED
    BY <2>5, <2>6
<1>5. ASSUME NEW c \in Calls, NEW p \in Pairs, RejectDelete(c, p) PROVE Goal
  <2>1. \A q \in Pairs : edge'[q] = "accepted" <=> edge[q] = "accepted"
    BY <1>5 DEF RejectDelete, SetEdge, TypeOK
  <2>. QED
    BY <1>1, <1>5, <2>1 DEF RejectDelete
<1>6. ASSUME NEW u \in Users, DeleteAccount(u) PROVE Goal
  <2>. DEFINE theirs == {p \in Pairs : u \in {Follower(p), Followee(p)}}
  <2>1. /\ live' = live \ {u} /\ overwritten' = overwritten
        /\ edge' = [p \in Pairs |-> IF p \in theirs THEN "none" ELSE edge[p]]
        /\ feed' = feed \ theirs
        /\ ghosts' = ghosts \cup {p \in theirs : edge[p] = "accepted"}
    BY <1>6 DEF DeleteAccount
  <2>2. \A w \in live' : followers'[w] = followers[w] /\ following'[w] = following[w]
    BY <1>0, <1>6, <2>1 DEF DeleteAccount, TypeOK
  <2>3. \A p \in Pairs : Counted(p)' <=> Counted(p)
    BY <2>1 DEF Counted
  <2>4. CountersExact'
    BY <1>0, <2>1, <2>2, <2>3, SameCounted
  <2>5. FeedFollowsGraph'
    BY <2>1 DEF FeedFollowsGraph, TypeOK
  <2>. QED
    BY <2>4, <2>5
<1>7. ASSUME UNCHANGED <<live, edge, followers, following, feed, ghosts, overwritten>> PROVE Goal
  BY <1>1, <1>7
<1>. HIDE DEF Goal
<1>8. Goal
  BY <1>2, <1>3, <1>4, <1>5, <1>6, <1>7
     DEF Next, FollowRead, FollowDecide, FollowWrite, AcceptWrite, RejectClear, Fail,
         SetPrivate, ReadRequest, ReadAccepted, vars
<1>. QED
  BY <1>8 DEF Goal

LEMMA SpecCounters == Spec => [](CountersExact /\ FeedFollowsGraph)
<1>1. Init => CountersExact /\ FeedFollowsGraph
  <2>. SUFFICES ASSUME Init PROVE CountersExact /\ FeedFollowsGraph
    OBVIOUS
  <2>1. \A u : CountedFollowers(u) = {} /\ CountedFollowing(u) = {}
    BY DEF Init, CountedFollowers, CountedFollowing, Counted
  <2>2. \A u : Cardinality(CountedFollowers(u)) = 0 /\ Cardinality(CountedFollowing(u)) = 0
    BY <2>1, FS_EmptySet
  <2>3. \A u \in live : followers[u] = 0 /\ following[u] = 0
    BY DEF Init
  <2>4. CountersExact
    BY <2>2, <2>3 DEF CountersExact
  <2>5. FeedFollowsGraph
    BY DEF Init, FeedFollowsGraph
  <2>. QED
    BY <2>4, <2>5
<1>2. LInv /\ CountersExact /\ FeedFollowsGraph /\ [Next]_vars
         => (CountersExact /\ FeedFollowsGraph)'
  BY NextCounters
<1>. QED
  BY <1>1, <1>2, SpecLInv, PTL DEF Spec

(* The counters of an existing profile are those of the accepted follows   *)
(* and of the follows that went with deleted accounts, exactly so unless a *)
(* follow has overwritten a row, and never less: however calls overlap and *)
(* accounts go, no call takes away a count that another one relies on.     *)
THEOREM CountersCountFollows == Spec => []CountersExact
<1>1. CountersExact /\ FeedFollowsGraph => CountersExact
  OBVIOUS
<1>. QED
  BY <1>1, SpecCounters, PTL

(* Who follows has the followee's posts in the feed, and who does not has  *)
(* not, unless a follow has overwritten the row.                           *)
THEOREM FeedsFollowTheGraph == Spec => []FeedFollowsGraph
<1>1. CountersExact /\ FeedFollowsGraph => FeedFollowsGraph
  OBVIOUS
<1>. QED
  BY <1>1, SpecCounters, PTL

(* No follow overwrites a row unless another one of its pair overlaps it,  *)
(* so that where clients wait for replies the counters are exact.          *)
LEMMA StepOverwrites ==
  ASSUME LInv, OverlapInv, [Next]_vars, NEW p \in overwritten' \ overwritten
  PROVE  \E c \in overlapped : call[c].pair = p /\ FollowCommit(c)
<1>. USE DEF LInv, TInv, state, history
<1>1. ASSUME NEW c \in Calls, FollowCommit(c)
      PROVE  c \in overlapped /\ call[c].pair = p
  <2>1. call[c].pair = p /\ edge[p] # "none" /\ p \in Pairs
    BY <1>1, HeldPair DEF FollowCommit
  <2>2. c \in FollowsOf(p)
    BY <1>1, <2>1 DEF FollowCommit, FollowsOf
  <2>. QED
    BY <2>1, <2>2 DEF OverlapInv
<1>2. overwritten' # overwritten
  OBVIOUS
<1>. QED
  BY <1>1, <1>2
     DEF Next, FollowRead, FollowDecide, FollowWrite, AcceptWrite, AcceptCommit, RejectClear,
         Fail, Unfollow, RejectDelete, DeleteAccount, SetPrivate, ReadRequest, ReadAccepted, vars

OverwritesOverlap ==
    [][\A p \in overwritten' \ overwritten :
          \E c \in overlapped : call[c].pair = p /\ FollowCommit(c)]_vars

(* The exceptions above are those of overlaps only: a row is overwritten   *)
(* by a follow that another follow of the same pair has overlapped.        *)
THEOREM OnlyOverlapsOverwrite == Spec => OverwritesOverlap
<1>. DEFINE A == \A p \in overwritten' \ overwritten :
                    \E c \in overlapped : call[c].pair = p /\ FollowCommit(c)
<1>1. LInv /\ OverlapInv /\ [Next]_vars => [A]_vars
  BY StepOverwrites
<1>2. [][A]_vars => OverwritesOverlap
  BY DEF OverwritesOverlap
<1>. HIDE DEF A
<1>. QED
  BY <1>1, <1>2, SpecOverlapInv, PTL DEF Spec
=============================================================================
