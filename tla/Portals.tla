------------------------------ MODULE Portals ------------------------------
(***************************************************************************)
(* The portals of a user, named and ordered collections of posts:          *)
(* add_post_to_portal, remove_post_from_portal and the portal of           *)
(* create_post in PostService; update_portal and reorder_portals in        *)
(* ProfileService.  Every statement is restricted to one owner's rows, so  *)
(* the model has one owner; its calls overlap, since a user has devices.   *)
(*                                                                         *)
(* resolve_or_create_portal by name is one statement in two steps: it      *)
(* computes order_index, and it inserts or updates, perhaps after it has   *)
(* waited for another transaction with the same name.  What a transaction  *)
(* has written is seen by others, and its row locks are gone, at COMMIT.   *)
(***************************************************************************)
EXTENDS Integers, FiniteSets, FiniteSetsExt

CONSTANTS Ids,       \* portal identifiers
          Names,     \* normalised names, as spelt
          Folded,    \* lower(name)
          PostIds,
          Adders,    \* add_post_to_portal and create_post calls in flight
          Orderers,  \* reorder_portals calls in flight
          None       \* no portal, name or post

ASSUME PortalsAssumption ==
    /\ IsFiniteSet(Ids)
    /\ None \notin Ids \cup Names \cup PostIds
    /\ DOMAIN Folded = Names

VARIABLES
    name,      \* portals.name, None without a row
    index,     \* portals.order_index
    members,   \* portal_posts
    posts,     \* "absent", "live", or "deleted" (posts.is_deleted)
    adder,     \* what each adding call has done
    orderer,   \* what each reordering call has done
    late,      \* history: adders whose index was computed before another
               \* creation or a repair of the order
    tangled    \* history: the order may have ties

portals     == <<name, index>>
portalsVars == <<portals, members, posts, adder, orderer, late, tangled>>

(* An adder has found a portal by its id, computed an index, inserted a    *)
(* portal, or updated the one that has the name.                           *)
AdderStates ==
    [at : {"idle", "found", "indexed", "created", "upserted"}, post : PostIds \cup {None},
     portal : Ids \cup {None}, name : Names \cup {None}, index : Nat]

IdleAdder == [at |-> "idle", post |-> None, portal |-> None, name |-> None, index |-> 0]

(* The position each portal is to have, the portals the call has read, and *)
(* how many of the rows it has updated.                                    *)
Ranks == UNION {[S -> 0 .. Cardinality(Ids)] : S \in SUBSET Ids}

OrdererStates == [at : {"idle", "ordering"}, rank : Ranks, seen : SUBSET Ids, done : Nat]

NoRank == [p \in {} |-> 0]

IdleOrderer == [at |-> "idle", rank |-> NoRank, seen |-> {}, done |-> 0]

Existing == {p \in Ids : name[p] # None}

PortalsTypeOK ==
    /\ name \in [Ids -> Names \cup {None}]
    /\ index \in [Ids -> 0 .. Cardinality(Ids)]
    /\ posts \in [PostIds -> {"absent", "live", "deleted"}]
    /\ members \in SUBSET (Existing \X {s \in PostIds : posts[s] # "absent"})
    /\ adder \in [Adders -> AdderStates]
    /\ orderer \in [Orderers -> OrdererStates]
    /\ late \in SUBSET Adders
    /\ tangled \in BOOLEAN

PortalsInit ==
    /\ name = [p \in Ids |-> None]
    /\ index = [p \in Ids |-> 0]
    /\ members = {}
    /\ posts = [s \in PostIds |-> "absent"]
    /\ adder = [a \in Adders |-> IdleAdder]
    /\ orderer = [o \in Orderers |-> IdleOrderer]
    /\ late = {}
    /\ tangled = FALSE

Named(n) == {p \in Existing : Folded[name[p]] = Folded[n]}

(* Creations that are not committed: the unique index makes others wait.   *)
Creating == {a \in Adders : adder[a].at = "created"}

NameAwaited(n) == \E a \in Creating : Folded[adder[a].name] = Folded[n]

Locked(p) ==
    \/ \E a \in Adders : adder[a].at = "upserted" /\ adder[a].portal = p
    \/ \E o \in Orderers :
          LET r == orderer[o] IN p \in DOMAIN r.rank /\ r.rank[p] < r.done

Unused == {p \in Ids \ Existing : \A a \in Adders : adder[a].portal # p}

(* The post is the owner's, or the one that create_post is inserting.      *)
Usable(s) == posts[s] = "live" \/ (posts[s] = "absent" /\ \A a \in Adders : adder[a].post # s)

-----------------------------------------------------------------------------
(* resolve_or_create_portal, and its callers up to COMMIT                  *)

FindById(a, s, p) ==
    /\ adder[a] = IdleAdder
    /\ Usable(s)
    /\ p \in Existing
    /\ adder' = [adder EXCEPT ![a] = [at |-> "found", post |-> s, portal |-> p,
                                      name |-> None, index |-> 0]]
    /\ UNCHANGED <<portals, members, posts, orderer, late, tangled>>

(* Mutants: MAX(order_index) without + 1, and with a default that is one   *)
(* too low.                                                                *)
MaxIndex == Max({index[p] : p \in Existing})

LastIndex == IF Existing = {} THEN 0 ELSE MaxIndex

IndexFromBelow == IF Existing = {} THEN -1 ELSE MaxIndex + 1

(* COALESCE((SELECT MAX(order_index) + 1 ...), 0)                           *)
NextIndex == IF Existing = {} THEN 0 ELSE MaxIndex + 1

ComputeIndex(a, s, n) ==
    /\ adder[a] = IdleAdder
    /\ Usable(s)
    /\ adder' = [adder EXCEPT ![a] = [at |-> "indexed", post |-> s, portal |-> None,
                                      name |-> n, index |-> NextIndex]]
    /\ UNCHANGED <<portals, members, posts, orderer, late, tangled>>

Takes(a, at, p) ==
    /\ adder' = [adder EXCEPT ![a] = [at |-> at, post |-> @.post, portal |-> p,
                                      name |-> @.name, index |-> @.index]]
    /\ UNCHANGED <<portals, members, posts, orderer, late, tangled>>

InsertPortal(a) ==
    /\ adder[a].at = "indexed"
    /\ Named(adder[a].name) = {}
    /\ ~NameAwaited(adder[a].name)
    /\ \E p \in Unused : Takes(a, "created", p)

(* Mutant: the portal that has the name is read and not updated.           *)
SelectConflicting(a) ==
    /\ adder[a].at = "indexed"
    /\ \E p \in Named(adder[a].name) : Takes(a, "found", p)

(* ON CONFLICT (owner_id, lower(name)) DO UPDATE, which locks the row.      *)
UpdateConflicting(a) ==
    /\ adder[a].at = "indexed"
    /\ \E p \in Named(adder[a].name) : ~Locked(p) /\ Takes(a, "upserted", p)

AddsMember(a) ==
    /\ members' = members \cup {<<adder[a].portal, adder[a].post>>}
    /\ posts' = [posts EXCEPT ![adder[a].post] = IF @ = "absent" THEN "live" ELSE @]
    /\ adder' = [adder EXCEPT ![a] = IdleAdder]
    /\ UNCHANGED orderer

(* UPDATE portals SET updated_at, and COMMIT.                              *)
CommitFound(a) ==
    /\ adder[a].at = "found"
    /\ ~Locked(adder[a].portal)
    /\ AddsMember(a)
    /\ UNCHANGED <<portals, late, tangled>>

CommitUpserted(a) ==
    /\ adder[a].at = "upserted"
    /\ name' = [name EXCEPT ![adder[a].portal] = adder[a].name]
    /\ AddsMember(a)
    /\ late' = late \ {a}
    /\ UNCHANGED <<index, tangled>>

(* Those who have an index and no portal yet.                              *)
Indexed == {a \in Adders : adder[a].at \in {"indexed", "created"}}

CommitCreated(a) ==
    /\ adder[a].at = "created"
    /\ name' = [name EXCEPT ![adder[a].portal] = adder[a].name]
    /\ index' = [index EXCEPT ![adder[a].portal] = adder[a].index]
    /\ AddsMember(a)
    /\ tangled' = (tangled \/ a \in late)
    /\ late' = (late \cup Indexed) \ {a}

(* An error, a deadlock, a crash: the transaction rolls back.              *)
AddFails(a) ==
    /\ adder[a] # IdleAdder
    /\ adder' = [adder EXCEPT ![a] = IdleAdder]
    /\ late' = late \ {a}
    /\ UNCHANGED <<portals, members, posts, orderer, tangled>>

(* Its reads look at rows that only deletion of the post can change, and   *)
(* that nobody asks about any more; so it is one step.                     *)
RemoveFromPortal(p, s) ==
    /\ posts[s] = "live"
    /\ p \in Existing
    /\ ~Locked(p)
    /\ members' = members \ {<<p, s>>}
    /\ UNCHANGED <<portals, posts, adder, orderer, late, tangled>>

DeletePost(s) ==
    /\ posts[s] = "live"
    /\ posts' = [posts EXCEPT ![s] = "deleted"]
    /\ UNCHANGED <<portals, members, adder, orderer, late, tangled>>

(* update_portal waits for the row and for creations of that name.         *)
Rename(p, n) ==
    /\ p \in Existing
    /\ ~Locked(p)
    /\ Named(n) \subseteq {p}
    /\ ~NameAwaited(n)
    /\ name' = [name EXCEPT ![p] = n]
    /\ UNCHANGED <<index, members, posts, adder, orderer, late, tangled>>

-----------------------------------------------------------------------------
(* reorder_portals                                                         *)

Positions(S) == {r \in [S -> 0 .. Cardinality(S) - 1] :
                    \A p, q \in S : r[p] = r[q] => p = q}

Reads(o, S) ==
    /\ orderer[o] = IdleOrderer
    /\ S # {}
    /\ \E r \in Positions(S) :
          orderer' = [orderer EXCEPT ![o] = [at |-> "ordering", rank |-> r,
                                             seen |-> Existing, done |-> 0]]
    /\ UNCHANGED <<portals, members, posts, adder, late, tangled>>

(* Mutant: the list may leave portals out. *)
ReadSome(o) == \E S \in SUBSET Existing : Reads(o, S)

(* The list must name every portal that there is exactly once.             *)
ReadPortals(o) == Reads(o, Existing)

UpdateRow(o) ==
    LET r == orderer[o] IN
    /\ \E p \in DOMAIN r.rank : r.rank[p] = r.done /\ ~Locked(p)
    /\ orderer' = [orderer EXCEPT ![o] = [at |-> "ordering", rank |-> @.rank,
                                          seen |-> @.seen, done |-> @.done + 1]]
    /\ UNCHANGED <<portals, members, posts, adder, late, tangled>>

(* The order is whole if no portal was created since the list was read; if *)
(* that repairs an order with ties, indexes under way are outdated.        *)
CommitOrder(o) ==
    LET r == orderer[o] IN
    /\ r.at = "ordering"
    /\ r.done = Cardinality(DOMAIN r.rank)
    /\ index' = [p \in Ids |-> IF p \in DOMAIN r.rank THEN r.rank[p] ELSE index[p]]
    /\ tangled' = (r.seen # Existing)
    /\ late' = IF tangled THEN late \cup Indexed ELSE late
    /\ orderer' = [orderer EXCEPT ![o] = IdleOrderer]
    /\ UNCHANGED <<name, members, posts, adder>>

OrderFails(o) ==
    /\ orderer[o] # IdleOrderer
    /\ orderer' = [orderer EXCEPT ![o] = IdleOrderer]
    /\ UNCHANGED <<portals, members, posts, adder, late, tangled>>

-----------------------------------------------------------------------------
PortalsNext ==
    \/ \E a \in Adders :
          \/ \E s \in PostIds :
                \/ \E p \in Ids : FindById(a, s, p)
                \/ \E n \in Names : ComputeIndex(a, s, n)
          \/ InsertPortal(a) \/ UpdateConflicting(a)
          \/ CommitFound(a) \/ CommitUpserted(a) \/ CommitCreated(a)
          \/ AddFails(a)
    \/ \E s \in PostIds : DeletePost(s) \/ \E p \in Ids : RemoveFromPortal(p, s)
    \/ \E p \in Ids, n \in Names : Rename(p, n)
    \/ \E o \in Orderers : ReadPortals(o) \/ UpdateRow(o) \/ CommitOrder(o) \/ OrderFails(o)

PortalsSpec == PortalsInit /\ [][PortalsNext]_portalsVars

-----------------------------------------------------------------------------
(* The manual order has no ties, so that get_profile_portals shows the     *)
(* order its owner made: ties come only from creations that overlap, or a  *)
(* reorder whose list was out of date, and the next reorder removes them.  *)
OrderIsTotal ==
    ~tangled => \A p, q \in Existing : index[p] = index[q] => p = q

(* A post added by name goes to the portal that has that name when the     *)
(* call commits, and no other portal has it in any spelling.               *)
AddedByName ==
    \A a \in Adders : adder[a].name # None /\ adder[a].portal # None =>
        Named(adder[a].name) = {adder[a].portal} \cap Existing

=============================================================================
