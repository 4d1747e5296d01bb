------------------------------- MODULE Paging -------------------------------
(***************************************************************************)
(* A client walks through a list page by page while the rows of the list   *)
(* come and go: the twelve paginated RPCs of the server.  Each fetches one *)
(* row more than the page has, returns the page and has_more, and makes    *)
(* the last row of the page the cursor of the next request.  The server    *)
(* keeps nothing between two requests.                                     *)
(***************************************************************************)
EXTENDS Cursor, FiniteSets

CONSTANTS Items,      \* rows of the list: the n-th has n as its first id
          Times, Ids, \* their timestamps, and ids in the order of uuids
          Ranks,      \* similarities of names to the query of search_users
          Mine,       \* audit entries of the actor a request may ask for
          PageSizes,  \* page sizes clients ask for
          MaxPage,    \* the greatest page: 50, and 100 in the audit log
          MaxMoves    \* bound: changes of rows, names and access in a behaviour

ASSUME PagingAssumption ==
    /\ IsFiniteSet(Items)
    /\ Items \subseteq Ids
    /\ Times \subseteq Nat /\ Ids \subseteq Nat
    /\ Positions = [time : Times, id : Ids]
    /\ Ranks \subseteq Nat /\ 0 \in Ranks
    /\ Mine \subseteq Items
    /\ PageSizes \subseteq Int
    /\ MaxPage \in Nat \ {0}
    /\ MaxMoves \in Nat

VARIABLES
    list,     \* the RPC that is walked through
    rows,     \* items that the list's WHERE clause selects now
    key,      \* (created_at, id) of each item, or the columns that list uses
    rank,     \* similarity of each user's names to the query, in search_users
    allowed,  \* the caller may see the list at all
    byActor,  \* get_audit_log was asked for the entries of one actor
    pageSize, \* page_size of the client's requests
    walk,     \* the client is "walking", has "ended" or was "refused"
    cursor,   \* what its next request carries
    born,     \* items that have been in the list
    moves,    \* history: changes so far
    shown,    \* history: how often this walk has returned each item
    stayed,   \* history: items in the list ever since the walk began
    rekeyed,  \* history: items whose key changed since the walk began
    crossed   \* history: pairs of users that search_users has put in another
              \* order than its cursor, at some time since the walk began

table      == <<list, rows, key, rank, allowed, byActor, born, moves>>
client     == <<pageSize, walk, cursor, shown>>
history    == <<stayed, rekeyed, crossed>>
pagingVars == <<table, client, history>>

(* Who may see these lists is checked in every request. *)
CheckedLists == {"comments", "followers", "following", "grid", "portal_feed"}

Lists == CheckedLists \cup {"home_feed", "notifications", "requests", "shared",
                            "users", "posts", "audit"}

ItemPairs == Items \X Items

PagingTypeOK ==
    /\ list \in Lists
    /\ rows \subseteq born /\ born \subseteq Items
    /\ key \in [Items -> Positions]
    /\ \A i, j \in Items : i # j => key[i] # key[j]
    /\ rank \in [Items -> Ranks]
    /\ allowed \in BOOLEAN /\ byActor \in BOOLEAN
    /\ pageSize \in PageSizes
    /\ walk \in {"walking", "ended", "refused"}
    /\ cursor \in IF list = "audit" THEN {<<>>} \cup {<<t>> : t \in Times}
                 ELSE Seq(0 .. Pad)
    /\ moves \in 0 .. MaxMoves
    /\ shown \in [Items -> Nat]
    /\ stayed \subseteq rows
    /\ rekeyed \subseteq Items
    /\ crossed \subseteq ItemPairs

Below(p, q) == p.time < q.time \/ (p.time = q.time /\ p.id < q.id)

(* One user is more similar to the query than another, and has the older    *)
(* account: the first comes first, but has the lower cursor.                *)
Crossings ==
    {q \in ItemPairs : /\ list = "users"
                       /\ rank[q[1]] > rank[q[2]]
                       /\ Below(key[q[1]], key[q[2]])}

PagingInit ==
    /\ list \in Lists
    /\ rows \in SUBSET Items
    /\ born = rows
    /\ \E t \in [Items -> Times] : key = [i \in Items |-> [time |-> t[i], id |-> i]]
    /\ rank \in [Items -> IF list = "users" THEN Ranks ELSE {0}]
    /\ allowed = TRUE
    /\ byActor \in {FALSE, list = "audit"}
    /\ pageSize \in PageSizes
    /\ walk = "walking"
    /\ cursor = <<>>
    /\ moves = 0
    /\ shown = [i \in Items |-> 0]
    /\ stayed = rows
    /\ rekeyed = {}
    /\ crossed = Crossings

-----------------------------------------------------------------------------
(* The order of rows, and pages of them. *)

(* The pairs of items that come in this order.  ORDER BY created_at DESC,   *)
(* id DESC: *)
Newer == {q \in ItemPairs : Below(key[q[2]], key[q[1]])}

(* search_users: by similarity first. *)
MoreSimilar ==
    {q \in ItemPairs :
        \/ rank[q[1]] > rank[q[2]]
        \/ rank[q[1]] = rank[q[2]] /\ q \in Newer}

(* get_audit_log: ORDER BY created_at DESC alone. *)
Later == {q \in ItemPairs : key[q[1]].time > key[q[2]].time}

(* What LIMIT n may return of a set of rows: rows that tie come in any     *)
(* order.                                                                  *)
FirstOf(free, n, order) ==
    {S \in SUBSET free :
        /\ Cardinality(S) = IF Cardinality(free) < n THEN Cardinality(free) ELSE n
        /\ \A i \in S, j \in free \ S : <<j, i>> \notin order}

LastOf(S, order) == {i \in S : \A j \in S : <<i, j>> \notin order}

(* Mutant: the cursor's id is not compared. *)
AfterTime(start) == {i \in rows : \A p \in start : key[i].time < p.time}

(* WHERE (created_at, id) < (cursor). *)
After(start) == {i \in rows : \A p \in start : Below(key[i], p)}

(* Mutant: the page size is taken as it comes. *)
LimitUnchecked == pageSize

(* page_size.clamp(1, 50) of from_proto. *)
Limit == IF pageSize < 1 THEN 1 ELSE IF pageSize > MaxPage THEN MaxPage ELSE pageSize

(* The cursor behind each row. *)
PositionCursors == [i \in Items |-> EncodeCursor[key[i]]]

(* One page of the rows in "free".  has_more tells the client to go on.    *)
(* A page of no rows has no last one, and the cursor is left empty.        *)
Page(free, order, cursorOf) ==
    \E page \in FirstOf(free, Limit, order) :
        /\ shown' = [i \in Items |-> IF i \in page THEN shown[i] + 1 ELSE shown[i]]
        /\ IF Cardinality(free) > Limit
           THEN /\ walk' = walk
                /\ IF page = {} THEN cursor' = <<>>
                   ELSE \E last \in LastOf(page, order) : cursor' = cursorOf[last]
           ELSE walk' = "ended" /\ cursor' = <<>>

Request(l) ==
    /\ list = l
    /\ walk = "walking"
    /\ UNCHANGED <<table, pageSize, history>>

(* All lists but two: the order of the rows is the order of the cursors.   *)
KeysetPage ==
    Page(After(DecodeCursor[cursor]), Newer, PositionCursors)

Refused ==
    /\ ~allowed
    /\ walk' = "refused"
    /\ UNCHANGED <<cursor, shown>>

CheckedPage == Refused \/ (allowed /\ KeysetPage)

-----------------------------------------------------------------------------
(* The RPCs. *)
GetHomeFeed        == Request("home_feed") /\ KeysetPage
ListNotifications  == Request("notifications") /\ KeysetPage
GetPendingRequests == Request("requests") /\ KeysetPage
GetSharedPosts     == Request("shared") /\ KeysetPage
SearchPosts        == Request("posts") /\ KeysetPage
ListComments       == Request("comments") /\ CheckedPage
GetFollowers       == Request("followers") /\ CheckedPage
GetFollowing       == Request("following") /\ CheckedPage
GetProfileGrid     == Request("grid") /\ CheckedPage
GetPortalFeed      == Request("portal_feed") /\ CheckedPage

(* The order starts with the similarity, which the cursor does not hold. *)
SearchUsers ==
    /\ Request("users")
    /\ Page(After(DecodeCursor[cursor]), MoreSimilar, PositionCursors)

(* The cursor is a timestamp in plain text, and a request that has one     *)
(* forgets the actor.                                                      *)
AuditSelected ==
    IF cursor # <<>> THEN {i \in rows : key[i].time < cursor[1]}
    ELSE IF byActor THEN rows \cap Mine ELSE rows

GetAuditLog ==
    /\ Request("audit")
    /\ Page(AuditSelected, Later, [i \in Items |-> <<key[i].time>>])

ClientStep ==
    \/ GetHomeFeed \/ ListNotifications \/ GetPendingRequests \/ GetSharedPosts
    \/ SearchPosts \/ ListComments \/ GetFollowers \/ GetFollowing
    \/ GetProfileGrid \/ GetPortalFeed \/ SearchUsers \/ GetAuditLog

-----------------------------------------------------------------------------
(* Rows and names.  A row may be committed after rows that are newer, so a new   *)
(* one can turn up anywhere in the order.                                  *)

Move == moves < MaxMoves /\ moves' = moves + 1

Arrive(i) ==
    /\ i \notin born
    /\ rows' = rows \cup {i}
    /\ born' = born \cup {i}
    /\ Move
    /\ UNCHANGED <<list, key, rank, allowed, byActor, client, history>>

(* A recipient's notifications stay as long as the recipient does. *)
Leave(i) ==
    /\ list # "notifications"
    /\ i \in rows
    /\ rows' = rows \ {i}
    /\ stayed' = stayed \ {i}
    /\ Move
    /\ UNCHANGED <<list, key, rank, allowed, byActor, born, client, rekeyed, crossed>>

(* How an item comes back: a feed entry with the time of its post and a    *)
(* new id; a follow or a portal's post with a later time, or unchanged     *)
(* when it was hidden by a suspension or a visibility; as users and posts  *)
(* in searches are.  Rows of the other lists are gone for good.            *)
ReturnKeys(i) ==
    LET k == key[i]
    IN  IF list = "home_feed" THEN [time : {k.time}, id : Ids]
        ELSE IF list \in {"followers", "following", "requests", "portal_feed"}
        THEN [time : {t \in Times : t >= k.time}, id : {k.id}]
        ELSE IF list \in {"users", "posts"} THEN {k} ELSE {}

Return(i) ==
    /\ i \in born \ rows
    /\ \E k \in ReturnKeys(i) :
          /\ \A j \in Items \ {i} : key[j] # k
          /\ key' = [key EXCEPT ![i] = k]
          /\ rekeyed' = IF k = key[i] THEN rekeyed ELSE rekeyed \cup {i}
    /\ rows' = rows \cup {i}
    /\ Move
    /\ UNCHANGED <<list, rank, allowed, byActor, born, client, stayed, crossed>>

(* update_profile: a new display_name is more or less similar to the query. *)
Rename(i) ==
    /\ list = "users"
    /\ \E r \in Ranks \ {rank[i]} : rank' = [rank EXCEPT ![i] = r]
    /\ Move
    /\ UNCHANGED <<list, rows, key, allowed, byActor, born, client, stayed, rekeyed>>
    /\ crossed' = crossed \cup Crossings'

(* An account becomes private, a follow ends, and the other way round. *)
ChangeAccess ==
    /\ list \in CheckedLists
    /\ allowed' = ~allowed
    /\ Move
    /\ UNCHANGED <<list, rows, key, rank, byActor, born, client, history>>

StartAgain ==
    /\ walk # "walking"
    /\ walk' = "walking"
    /\ cursor' = <<>>
    /\ shown' = [i \in Items |-> 0]
    /\ stayed' = rows
    /\ rekeyed' = {}
    /\ crossed' = Crossings
    /\ UNCHANGED <<table, pageSize>>

PagingNext ==
    \/ ClientStep
    \/ \E i \in Items : Arrive(i) \/ Leave(i) \/ Return(i) \/ Rename(i)
    \/ ChangeAccess
    \/ StartAgain

(* The client goes on as long as has_more is true, with one page size. *)
PagingSpec == PagingInit /\ [][PagingNext]_pagingVars /\ WF_pagingVars(ClientStep)

-----------------------------------------------------------------------------
(* In this walk, search_users had i before j and its cursor j before i.     *)
Crossed(i, j) == <<i, j>> \in crossed

(* In the audit log, two entries of one timestamp may be parted by a page  *)
(* boundary, and the second one is then skipped.                           *)
Tied(i, j) == list = "audit" /\ i # j /\ key[i].time = key[j].time

(* What the request asked for. *)
Asked(i) == byActor => i \in Mine

(* The pages are a partition of the list, however rows come and go while   *)
(* the client walks.  No item comes twice unless it got a new key, and     *)
(* every item that was there all along has come once the walk has ended.   *)
(* Two lists fall short of it, as far as their cursors do not determine a  *)
(* position in their order: users whose similarity to the query, which     *)
(* they may change meanwhile, has at some time put them in another order   *)
(* than their accounts' age, and audit entries of the same time.           *)
PagesPartition ==
    /\ \A i \in Items \ rekeyed :
          shown[i] > 1 => \E j \in Items : shown[j] > 0 /\ Crossed(i, j)
    /\ walk = "ended" =>
          \A i \in stayed : Asked(i) /\ shown[i] = 0 =>
              \E j \in Items : shown[j] > 0 /\ (Crossed(j, i) \/ Tied(i, j))

(* Every walk comes to an end, whatever page size the client asks for: a   *)
(* page that says has_more is not empty, and moves the cursor down.        *)
WalkEnds == walk = "walking" ~> walk # "walking"
=============================================================================
