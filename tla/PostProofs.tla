----------------------------- MODULE PostProofs -----------------------------
(***************************************************************************)
(* Proofs about what create_post takes part in: the media it attaches      *)
(* (MediaPipeline), for any media, posts and number of attempts, and the   *)
(* portal it files the post in (Portals), for any portals, names and calls *)
(* in flight.                                                              *)
(*                                                                         *)
(* MediaPipeline: its types, that objects, rows, jobs and posts stay in    *)
(* step, and that the processing jobs implement JobLifecycle.  The         *)
(* induction needs how far the upload of a row without a job has come      *)
(* (UploadInv), what the handler has already written at each of its stages *)
(* (HandlerInv), and that a row is taken by one uncommitted post at the    *)
(* most (TakingInv).                                                       *)
(*                                                                         *)
(* Portals: its types, OrderIsTotal and AddedByName, from PortalsInv.      *)
(*                                                                         *)
(* The two specifications share no constant and no variable: a theorem is  *)
(* about one of them.                                                      *)
(***************************************************************************)
EXTENDS MediaPipeline, Portals, FiniteSetTheorems, TLAPS

(* Before a job exists its upload has the row to itself.                   *)
UploadInv ==
    \A m \in Media :
        /\ upload[m] \in {"none", "stored"} => row[m] = "absent"
        /\ upload[m] \notin {"none", "cut"} => "original" \in stored[m]
        /\ row[m] # "absent" => "original" \in stored[m]
        /\ upload[m] = "inserted" => RowIs(m, "pending")
        /\ upload[m] = "marked" => RowIs(m, "processing")
        /\ upload[m] = "answered" <=> job[m].at # "none"
        /\ upload[m] # "answered" => row[m] # "completed" /\ m \notin unheard

(* What the handler has done by each stage, and how often it was tried.    *)
HandlerInv ==
    \A m \in Media :
        /\ job[m].at = "none" => job[m].tries = 0
        /\ job[m].at = "waiting" => job[m].tries < MaxAttempts
        /\ keys[m] \subseteq Expected(m) /\ keys[m] \subseteq stored[m]
        /\ job[m].at = "described" => row[m] = "absent" \/ keys[m] = Expected(m)
        /\ row[m] = "completed" => keys[m] = Expected(m)
        /\ m \in unheard => job[m].at \in {"waiting", "claimed", "dead", "lost"}
        /\ m \in unheard => RowIs(m, "completed")

(* What went with the owner is gone.                                       *)
OwnerInv == ~owner => \A m \in Media : row[m] = "absent" /\ keys[m] = {}

(* A row in the hands of a transaction is free and in no other's hands.    *)
TakingInv ==
    \A p \in Posts :
        /\ post[p].at = "none" => post[p] = NoCall
        /\ post[p].taken \subseteq post[p].list
        /\ post[p].at # "none" => owner
        /\ \A m \in post[p].taken :
              /\ post[p].at = "taking"
              /\ postOf[m] = NoPost
              /\ \A q \in Posts : m \in post[q].taken => q = p

MediaInv == TypeOK /\ OwnerInv /\ UploadInv /\ HandlerInv /\ JobsMatchRows

PostInv == TypeOK /\ TakingInv /\ PostsAreWhole

-----------------------------------------------------------------------------
(* The actions of an upload.                                               *)
UploadStep(m) ==
    \/ StoreOriginal(m) \/ InsertRow(m) \/ MarkProcessing(m)
    \/ EnqueueProcessing(m) \/ UploadFails(m)

(* The actions of a post.                                                  *)
PostStep(p) ==
    \/ \E L \in SUBSET Media : BeginPost(p, L)
    \/ \E m \in Media : TakeMedia(p, m)
    \/ CommitPost(p) \/ PostFails(p)

LEMMA InitTypes == Init => TypeOK
BY MediaAssumption DEF Init, TypeOK, Jobs, Stages, UploadStates, Objects, PostStates,
   NoCall

LEMMA UploadTypes ==
    ASSUME TypeOK, HandlerInv, NEW m \in Media, UploadStep(m)
    PROVE  TypeOK'
<1> USE DEF TypeOK, Uploads, items, Mark, WriteKeys
<1>1. CASE StoreOriginal(m)
    BY <1>1 DEF StoreOriginal, UploadStates, Objects
<1>2. CASE InsertRow(m)
    BY <1>2 DEF InsertRow, UploadStates
<1>3. CASE MarkProcessing(m)
    BY <1>3 DEF MarkProcessing, UploadStates
<1>4. CASE EnqueueProcessing(m)
    BY <1>4 DEF EnqueueProcessing, UploadStates, JobAt, Jobs, Stages
<1>5. CASE UploadFails(m)
    BY <1>5 DEF UploadFails, UploadStates
<1> QED BY <1>1, <1>2, <1>3, <1>4, <1>5 DEF UploadStep

LEMMA HandlerTypes ==
    ASSUME TypeOK, HandlerInv, NEW m \in Media, HandlerStep(m)
    PROVE  TypeOK'
<1> USE MediaAssumption DEF TypeOK, items, Mark, WriteKeys
<1>1. CASE ClaimJob(m)
    <2>1. job[m].tries + 1 \in 0 .. MaxAttempts
        BY <1>1 DEF ClaimJob, HandlerInv, Jobs
    <2> QED BY <1>1, <2>1 DEF ClaimJob, Jobs, Stages
<1>2. CASE FindRow(m)
    BY <1>2 DEF FindRow, JobAt, Jobs, Stages
<1>3. ASSUME NEW v \in Variants, StoreVariant(m, v)
      PROVE  TypeOK'
    BY <1>3 DEF StoreVariant, Objects
<1>4. CASE Describe(m)
    BY <1>4 DEF Describe, JobAt, Jobs, Stages, Expected
<1>5. CASE Complete(m)
    BY <1>5 DEF Complete, JobAt, Jobs, Stages
<1>6. CASE RecordDone(m)
    BY <1>6 DEF RecordDone, JobAt, Jobs, Stages
<1>7. CASE HandlerFails(m)
    BY <1>7 DEF HandlerFails, JobAt, Jobs, Stages, Retried
<1>8. CASE CompleteUnheard(m)
    BY <1>8 DEF CompleteUnheard, JobAt, Jobs, Stages, Retried
<1>9. CASE WorkerLost(m)
    BY <1>9 DEF WorkerLost, JobAt, Jobs, Stages
<1> QED BY <1>1, <1>2, <1>3, <1>4, <1>5, <1>6, <1>7, <1>8, <1>9 DEF HandlerStep

LEMMA DeleteTypes ==
    ASSUME TypeOK, DeleteAccount
    PROVE  TypeOK'
BY DEF DeleteAccount, TypeOK, PostStates, NoCall

LEMMA PostTypes ==
    ASSUME TypeOK, NEW p \in Posts, PostStep(p)
    PROVE  TypeOK'
<1> USE DEF TypeOK, items, PostStates
<1>1. ASSUME NEW L \in SUBSET Media, BeginPost(p, L)
      PROVE  TypeOK'
    BY <1>1 DEF BeginPost
<1>2. ASSUME NEW m \in Media, TakeMedia(p, m)
      PROVE  TypeOK'
    BY <1>2 DEF TakeMedia
<1>3. CASE CommitPost(p)
    BY <1>3 DEF CommitPost
<1>4. CASE PostFails(p)
    BY <1>4 DEF PostFails, NoCall
<1> QED BY <1>1, <1>2, <1>3, <1>4 DEF PostStep

-----------------------------------------------------------------------------
LEMMA InitMedia == Init => MediaInv
<1> SUFFICES ASSUME Init PROVE MediaInv
    OBVIOUS
<1>1. TypeOK
    BY InitTypes
<1>2. OwnerInv /\ UploadInv /\ HandlerInv /\ JobsMatchRows
    BY MediaAssumption DEF Init, OwnerInv, UploadInv, HandlerInv, JobsMatchRows, Running, RowIs
<1> QED BY <1>1, <1>2 DEF MediaInv

LEMMA UploadKeepsMedia ==
    ASSUME MediaInv, NEW n \in Media, UploadStep(n)
    PROVE  MediaInv'
<1> USE DEF MediaInv, TypeOK, Uploads, Mark, items, OwnerInv, UploadInv, HandlerInv,
        JobsMatchRows, Running, RowIs
<1>0. TypeOK'
    BY UploadTypes
<1>1. CASE StoreOriginal(n)
    BY <1>0, <1>1 DEF StoreOriginal, Expected
<1>2. CASE InsertRow(n)
    BY <1>0, <1>2 DEF InsertRow, Expected
<1>3. CASE MarkProcessing(n)
    BY <1>0, <1>3 DEF MarkProcessing, Expected
<1>4. CASE EnqueueProcessing(n)
    BY <1>0, <1>4, MediaAssumption DEF EnqueueProcessing, JobAt, Jobs, Expected
<1>5. CASE UploadFails(n)
    BY <1>0, <1>5 DEF UploadFails, Expected
<1> QED BY <1>1, <1>2, <1>3, <1>4, <1>5 DEF UploadStep

LEMMA HandlerKeepsMedia ==
    ASSUME MediaInv, NEW n \in Media, HandlerStep(n)
    PROVE  MediaInv'
<1> USE MediaAssumption DEF MediaInv, TypeOK, items, OwnerInv, UploadInv, HandlerInv,
        JobsMatchRows, Running, RowIs, JobAt, Jobs, Mark
<1>0. TypeOK'
    BY HandlerTypes
<1>1. CASE ClaimJob(n)
    BY <1>0, <1>1 DEF ClaimJob, Expected
<1>2. CASE FindRow(n)
    BY <1>0, <1>2 DEF FindRow, Expected
<1>3. ASSUME NEW v \in Variants, StoreVariant(n, v)
      PROVE  MediaInv'
    BY <1>0, <1>3 DEF StoreVariant, Expected
<1>4. CASE Describe(n)
    <2>1. /\ keys' = [keys EXCEPT ![n] = IF row[n] = "absent" THEN {} ELSE Expected(n)]
          /\ Expected(n) \subseteq stored[n]
          /\ job[n].at = "found"
          /\ job' = [job EXCEPT ![n] = [at |-> "described", tries |-> job[n].tries]]
          /\ UNCHANGED <<owner, stored, row, upload, unheard>>
        BY <1>4 DEF Describe, WriteKeys
    <2>2. ASSUME NEW m \in Media
          PROVE  /\ Expected(m)' = Expected(m)
                 /\ m # n => keys'[m] = keys[m]
                 /\ keys'[n] = IF row[n] = "absent" THEN {} ELSE Expected(n)
                 /\ job'[m].tries = job[m].tries
                 /\ job'[m].at = IF m = n THEN "described" ELSE job[m].at
        BY <2>1 DEF Expected
    <2>3. HandlerInv'
        BY <2>1, <2>2
    <2>4. OwnerInv' /\ UploadInv' /\ JobsMatchRows'
        BY <2>1, <2>2
    <2> QED BY <1>0, <2>3, <2>4
<1>5. CASE Complete(n)
    BY <1>0, <1>5 DEF Complete, Expected
<1>6. CASE RecordDone(n)
    BY <1>0, <1>6 DEF RecordDone, Expected
<1>7. CASE HandlerFails(n)
    BY <1>0, <1>7 DEF HandlerFails, Expected, Retried
<1>8. CASE CompleteUnheard(n)
    BY <1>0, <1>8 DEF CompleteUnheard, Expected, Retried
<1>9. CASE WorkerLost(n)
    BY <1>0, <1>9 DEF WorkerLost, Expected
<1> QED BY <1>1, <1>2, <1>3, <1>4, <1>5, <1>6, <1>7, <1>8, <1>9 DEF HandlerStep

LEMMA PostKeepsMedia ==
    ASSUME MediaInv, NEW p \in Posts, PostStep(p)
    PROVE  MediaInv'
<1>1. TypeOK'
    BY PostTypes DEF MediaInv
<1>2. UNCHANGED <<owner, stored, row, keys, upload, job, unheard>>
    BY DEF PostStep, BeginPost, TakeMedia, CommitPost, PostFails, items
<1> QED BY <1>1, <1>2 DEF MediaInv, OwnerInv, UploadInv, HandlerInv, JobsMatchRows, Expected,
        Running, RowIs

(* Once the rows are gone, what is still under way finds none.             *)
LEMMA DeleteKeepsMedia ==
    ASSUME MediaInv, DeleteAccount
    PROVE  MediaInv'
<1>1. TypeOK'
    BY DeleteTypes DEF MediaInv
<1>2. /\ owner' = FALSE
      /\ \A m \in Media : row'[m] = "absent" /\ keys'[m] = {}
      /\ UNCHANGED <<stored, upload, job, unheard>>
    BY DEF DeleteAccount
<1>3. OwnerInv'
    BY <1>2 DEF OwnerInv
<1>4. UploadInv' /\ HandlerInv'
    BY <1>2 DEF MediaInv, UploadInv, HandlerInv, RowIs, Expected
<1>5. JobsMatchRows'
    BY <1>2 DEF JobsMatchRows, RowIs
<1> QED BY <1>1, <1>3, <1>4, <1>5 DEF MediaInv

LEMMA MediaInduction == Spec => []MediaInv
<1>1. MediaInv /\ [Next]_vars => MediaInv'
    <2> SUFFICES ASSUME MediaInv, [Next]_vars PROVE MediaInv'
        OBVIOUS
    <2>1. ASSUME NEW m \in Media, UploadStep(m)
          PROVE  MediaInv'
        BY <2>1, UploadKeepsMedia
    <2>2. ASSUME NEW m \in Media, HandlerStep(m)
          PROVE  MediaInv'
        BY <2>2, HandlerKeepsMedia
    <2>3. ASSUME NEW p \in Posts, PostStep(p)
          PROVE  MediaInv'
        BY <2>3, PostKeepsMedia
    <2>4. CASE UNCHANGED vars
        BY <2>4 DEF vars, items, MediaInv, TypeOK, OwnerInv, UploadInv, HandlerInv,
           JobsMatchRows, Expected, Running, RowIs
    <2> QED BY <2>1, <2>2, <2>3, <2>4, DeleteKeepsMedia DEF Next, UploadStep, PostStep
<1> QED BY InitMedia, <1>1, PTL DEF Spec

-----------------------------------------------------------------------------
LEMMA PostStepKeepsPosts ==
    ASSUME PostInv, NEW p \in Posts, PostStep(p)
    PROVE  PostInv'
<1> USE DEF PostInv, TypeOK, PostStates, TakingInv, PostsAreWhole
<1>0. TypeOK'
    BY PostTypes
<1>1. ASSUME NEW L \in SUBSET Media, BeginPost(p, L)
      PROVE  PostInv'
    BY <1>0, <1>1 DEF BeginPost, NoCall, items
<1>2. ASSUME NEW n \in Media, TakeMedia(p, n)
      PROVE  PostInv'
    BY <1>0, <1>2 DEF TakeMedia, Taken, items
<1>3. CASE CommitPost(p)
    <2>1. /\ post' = [post EXCEPT ![p] = [at |-> "created", list |-> post[p].list,
                                          taken |-> {}]]
          /\ \A m \in Media : postOf'[m] = IF m \in post[p].taken THEN p ELSE postOf[m]
          /\ post[p].at = "taking"
          /\ post[p].taken = post[p].list
          /\ UNCHANGED owner
        BY <1>3 DEF CommitPost, items
    <2>2. TakingInv'
        BY <1>0, <2>1
    <2>3. PostsAreWhole'
        BY <1>0, <2>1, MediaAssumption
    <2> QED BY <1>0, <2>2, <2>3
<1>4. CASE PostFails(p)
    BY <1>0, <1>4 DEF PostFails, NoCall, items
<1> QED BY <1>1, <1>2, <1>3, <1>4 DEF PostStep

LEMMA PostInduction == Spec => [](MediaInv /\ PostInv)
<1>1. Init => PostInv
    BY InitTypes, MediaAssumption DEF Init, PostInv, TakingInv, PostsAreWhole, NoCall
<1>2. MediaInv /\ MediaInv' /\ PostInv /\ [Next]_vars => PostInv'
    <2> SUFFICES ASSUME MediaInv', PostInv, [Next]_vars PROVE PostInv'
        OBVIOUS
    <2>1. ASSUME NEW p \in Posts, PostStep(p)
          PROVE  PostInv'
        BY <2>1, PostStepKeepsPosts
    <2>2. CASE UNCHANGED <<owner, postOf, post>>
        BY <2>2 DEF MediaInv, PostInv, TakingInv, PostsAreWhole
    <2>3. ASSUME NEW m \in Media, UploadStep(m) \/ HandlerStep(m)
          PROVE  UNCHANGED <<owner, postOf, post>>
        BY <2>3 DEF UploadStep, HandlerStep, StoreOriginal, InsertRow, MarkProcessing,
           EnqueueProcessing, UploadFails, ClaimJob, FindRow, StoreVariant, Describe,
           Complete, RecordDone, HandlerFails, CompleteUnheard, WorkerLost, items
    <2>4. CASE DeleteAccount
        BY <2>4, MediaAssumption
           DEF DeleteAccount, MediaInv, PostInv, TakingInv, PostsAreWhole, NoCall
    <2> QED BY <2>1, <2>2, <2>3, <2>4 DEF Next, UploadStep, PostStep, vars, items
<1> QED BY MediaInduction, <1>1, <1>2, PTL DEF Spec

-----------------------------------------------------------------------------
(* The types hold, and with them: no job has more than MaxAttempts tries.  *)
THEOREM TypeCorrect == Spec => []TypeOK
<1>1. MediaInv => TypeOK
    BY DEF MediaInv
<1> QED BY MediaInduction, <1>1, PTL

(* A download of completed media never asks the store for an object it     *)
(* does not have, and of a photo gets the variant asked for, whatever      *)
(* attempts of the handler failed or were lost.                            *)
THEOREM KeysNameObjects == Spec => []KeysAreStored
<1>1. MediaInv => KeysAreStored
    <2> SUFFICES ASSUME MediaInv, NEW m \in Media
                 PROVE  /\ keys[m] \subseteq stored[m]
                        /\ Downloadable(m) =>
                              \A v \in Objects :
                                 /\ Served(m, v) \in stored[m]
                                 /\ m \in Photos => Served(m, v) = v
        BY DEF KeysAreStored
    <2>1. keys[m] \subseteq stored[m]
        BY DEF MediaInv, HandlerInv
    <2>2. ASSUME Downloadable(m)
          PROVE  "original" \in stored[m] /\ keys[m] = Expected(m)
        BY <2>2 DEF Downloadable, MediaInv, UploadInv, HandlerInv
    <2>3. ASSUME Downloadable(m), NEW v \in Objects
          PROVE  Served(m, v) \in stored[m]
        BY <2>1, <2>2, <2>3 DEF Served
    <2>4. ASSUME Downloadable(m), m \in Photos, NEW v \in Objects
          PROVE  Served(m, v) = v
        BY <2>2, <2>4 DEF Served, Expected, Objects
    <2> QED BY <2>1, <2>3, <2>4
<1> QED BY MediaInduction, <1>1, PTL

(* A live job finds its row in 'processing', a finished one has completed  *)
(* it, and only an unheard completion lets a job die whose media is fine.  *)
THEOREM JobsFindRows == Spec => []JobsMatchRows
<1>1. MediaInv => JobsMatchRows
    BY DEF MediaInv
<1> QED BY MediaInduction, <1>1, PTL

(* Every post has exactly the media of its list: overlapping create_post   *)
(* calls never share, split or leak a row.                                 *)
THEOREM PostsStayWhole == Spec => []PostsAreWhole
<1>1. PostInv => PostsAreWhole
    BY DEF PostInv
<1> QED BY PostInduction, <1>1, PTL

-----------------------------------------------------------------------------
(* What a step does to one job, as JobLifecycle sees it: Moves(m) is       *)
(* Lifecycle!JobStep(m) with the mapping carried out.                      *)
Moves(m) ==
    \/ JobStatus(m)' = JobStatus(m) /\ job'[m].tries = job[m].tries
    \/ /\ JobStatus(m) = "absent" /\ JobStatus(m)' = "waiting"
       /\ job'[m].tries = job[m].tries
    \/ /\ JobStatus(m) = "waiting" /\ JobStatus(m)' = "held"
       /\ job'[m].tries = job[m].tries + 1
    \/ /\ JobStatus(m) = "held"
       /\ \/ JobStatus(m)' \in {"completed", "waiting", "lost"}
          \/ JobStatus(m)' = "dead" /\ job[m].tries >= MaxAttempts
       /\ job'[m].tries = job[m].tries

LEMMA OtherJobs ==
    ASSUME TypeOK, NEW m \in Media, NEW n \in Media,
           \/ UNCHANGED job
           \/ n # m /\ \E x : job' = [job EXCEPT ![m] = x]
    PROVE  Moves(n)
<1>1. job'[n] = job[n]
    BY DEF TypeOK
<1> QED BY <1>1 DEF Moves, JobStatus

LEMMA JobAtMoves ==
    ASSUME TypeOK, NEW m \in Media, NEW at, JobAt(m, at)
    PROVE  /\ job'[m].at = at /\ job'[m].tries = job[m].tries
           /\ \A n \in Media \ {m} : Moves(n)
<1>1. job' = [job EXCEPT ![m] = [at |-> at, tries |-> job[m].tries]]
    BY DEF JobAt, TypeOK
<1>2. \A n \in Media \ {m} : Moves(n)
    BY <1>1, OtherJobs
<1> QED BY <1>1, <1>2 DEF TypeOK

LEMMA StepMoves ==
    ASSUME TypeOK, UploadInv, NEW m \in Media, UploadStep(m) \/ HandlerStep(m)
    PROVE  \A n \in Media : Moves(n)
<1>1. CASE UNCHANGED job
    BY <1>1, OtherJobs
<1>2. CASE EnqueueProcessing(m)
    <2>1. job[m].at = "none"
        BY <1>2 DEF EnqueueProcessing, UploadInv
    <2>2. Moves(m)
        BY <1>2, <2>1, JobAtMoves DEF EnqueueProcessing, Moves, JobStatus, Running
    <2> QED BY <1>2, <2>2, JobAtMoves DEF EnqueueProcessing
<1>3. CASE ClaimJob(m)
    <2>1. /\ job[m].at = "waiting"
          /\ job' = [job EXCEPT ![m] = [at |-> "claimed", tries |-> job[m].tries + 1]]
        BY <1>3 DEF ClaimJob
    <2>2. Moves(m)
        BY <2>1 DEF TypeOK, Moves, JobStatus, Running
    <2> QED BY <2>1, <2>2, OtherJobs
<1>4. ASSUME NEW at, JobAt(m, at),
             \/ job[m].at \in Running /\ at \in {"found", "described", "finished"}
             \/ job[m].at = "finished" /\ at = "done"
             \/ job[m].at \in Running /\ at = Retried(m)
             \/ job[m].at \in Running \cup {"finished"} /\ at = "lost"
      PROVE  \A n \in Media : Moves(n)
    <2>1. job'[m].at = at /\ job'[m].tries = job[m].tries
        BY <1>4, JobAtMoves
    <2>2. Moves(m)
        BY <1>4, <2>1 DEF Moves, JobStatus, Running, Retried
    <2> QED BY <1>4, <2>2, JobAtMoves
<1>5. CASE FindRow(m)
    BY <1>5, <1>4 DEF FindRow, Running
<1>6. CASE Describe(m)
    BY <1>6, <1>4 DEF Describe, Running
<1>7. CASE Complete(m)
    BY <1>7, <1>4 DEF Complete, Running
<1>8. CASE RecordDone(m)
    BY <1>8, <1>4 DEF RecordDone
<1>9. CASE HandlerFails(m)
    BY <1>9, <1>4 DEF HandlerFails
<1>10. CASE CompleteUnheard(m)
    BY <1>10, <1>4 DEF CompleteUnheard, Running
<1>11. CASE WorkerLost(m)
    BY <1>11, <1>4 DEF WorkerLost
<1> QED BY <1>1, <1>2, <1>3, <1>5, <1>6, <1>7, <1>8, <1>9, <1>10, <1>11
        DEF UploadStep, HandlerStep, StoreOriginal, InsertRow, MarkProcessing, UploadFails,
            StoreVariant

(* The processing job implements the abstract life of a job that JobQueue  *)
(* implements: one submission per upload, another attempt only after a     *)
(* failure, death only when the attempts are used up.                      *)
THEOREM ProcessingImplementsLifecycle == Spec => ImplementsLifecycle
<1> DEFINE st == [m \in Media |-> JobStatus(m)]
           tr == [m \in Media |-> job[m].tries]
<1>1. Init => Lifecycle!Init
    BY DEF Init, Lifecycle!Init, JobStatus
<1>2. MediaInv /\ MediaInv' /\ [Next]_vars => [Lifecycle!Next]_Lifecycle!vars
    <2> SUFFICES ASSUME MediaInv, MediaInv', [Next]_vars
                 PROVE  Lifecycle!Next \/ UNCHANGED Lifecycle!vars
        OBVIOUS
    <2>1. CASE Next
        <3>1. ASSUME NEW p \in Posts, PostStep(p)
              PROVE  UNCHANGED job
            BY <3>1 DEF PostStep, BeginPost, TakeMedia, CommitPost, PostFails
        <3>0. DeleteAccount => UNCHANGED job
            BY DEF DeleteAccount
        <3>2. UNCHANGED job => \A m \in Media : Moves(m)
            BY OtherJobs DEF MediaInv
        <3>3. \A m \in Media : Moves(m)
            BY <2>1, <3>0, <3>1, <3>2, StepMoves
               DEF MediaInv, Next, UploadStep, PostStep
        <3>4. \A m \in Media : /\ st[m] = JobStatus(m) /\ st'[m] = JobStatus(m)'
                               /\ tr[m] = job[m].tries /\ tr'[m] = job'[m].tries
            OBVIOUS
        <3>5. st' \in [Media -> Lifecycle!Statuses] /\ tr' \in [Media -> Nat]
            BY MediaAssumption
               DEF MediaInv, TypeOK, Jobs, Stages, Running, JobStatus, Lifecycle!Statuses
        <3> HIDE DEF st, tr
        <3>6. ASSUME NEW m \in Media
              PROVE  Lifecycle!JobStep(m)
            <4>1. Moves(m) /\ st[m] = JobStatus(m) /\ st'[m] = JobStatus(m)'
                BY <3>3, <3>4
            <4>2. tr[m] = job[m].tries /\ tr'[m] = job'[m].tries
                BY <3>4
            <4> QED
                BY <4>1, <4>2
                   DEF st, tr, Moves, JobStatus, Lifecycle!JobStep, Lifecycle!Becomes,
                       Lifecycle!Submit, Lifecycle!Take, Lifecycle!Succeed, Lifecycle!Fail,
                       Lifecycle!Lose, Lifecycle!Renew, Lifecycle!Keep, Lifecycle!Settled
        <3> QED BY <3>5, <3>6 DEF st, tr, Lifecycle!Next
    <2>2. CASE UNCHANGED vars
        <3>1. UNCHANGED job
            BY <2>2 DEF vars
        <3> QED BY <3>1 DEF Lifecycle!vars, JobStatus
    <2> QED BY <2>1, <2>2
<1> QED BY <1>1, <1>2, MediaInduction, PTL DEF Spec, ImplementsLifecycle, Lifecycle!Spec

-----------------------------------------------------------------------------
(* Portals.                                                                *)

(* What an adder knows of the portals by each of its stages.               *)
AdderInv(r) ==
    /\ r.at = "idle" => r.name = None
    /\ r.at # "idle" => r.post \in PostIds
    /\ r.at = "found" => r.portal \in Existing /\ r.name = None
    /\ r.at \in {"indexed", "created", "upserted"} => r.name \in Names
    /\ r.at = "indexed" => r.portal = None
    /\ r.at = "created" => r.portal \in Ids \ Existing /\ Named(r.name) = {}
    /\ r.at = "upserted" =>
          r.portal \in Existing /\ Folded[name[r.portal]] = Folded[r.name]

(* Folded names are unique, also among the portals under creation.         *)
NamesInv ==
    /\ \A p, q \in Existing : Folded[name[p]] = Folded[name[q]] => p = q
    /\ \A a, b \in Creating :
          a # b => /\ adder[a].portal # adder[b].portal
                   /\ Folded[adder[a].name] # Folded[adder[b].name]

(* An order without ties uses the positions below the number of portals,   *)
(* and an adder that is not late has computed the first one that is free.  *)
IndexInv ==
    /\ \A p \in Existing : index[p] < Cardinality(Existing)
    /\ \A a \in Indexed : adder[a].index <= Cardinality(Existing)
    /\ ~tangled => \A a \in Indexed \ late : adder[a].index = Cardinality(Existing)
    /\ OrderIsTotal

(* A reorder under way gives each portal it has read a place of its own.   *)
RankInv ==
    \A o \in Orderers :
        /\ orderer[o].at = "idle" => DOMAIN orderer[o].rank = {}
        /\ orderer[o].at = "ordering" =>
              /\ orderer[o].seen \subseteq Existing
              /\ orderer[o].rank \in Positions(orderer[o].seen)

PortalsInv ==
    /\ PortalsTypeOK
    /\ \A a \in Adders : AdderInv(adder[a])
    /\ NamesInv
    /\ IndexInv
    /\ RankInv

-----------------------------------------------------------------------------
(* Every nonempty set of naturals has a least element.                     *)
LEMMA LeastNatural ==
  ASSUME NEW T \in SUBSET Nat, T # {}
  PROVE  \E m \in T : \A k \in T : m <= k
<1>1. IsWellFoundedOn(OpToRel(<, Nat), Nat)
  BY NatLessThanWellFounded
<1>2. \A x, y \in Nat : <<y, x>> \in OpToRel(<, Nat) <=> y < x
  BY DEF OpToRel
<1>3. PICK R : /\ IsWellFoundedOn(R, Nat)
               /\ \A x, y \in Nat : <<y, x>> \in R <=> y < x
  BY <1>1, <1>2, Zenon
<1>4. PICK m \in T : \A k \in T : <<k, m>> \notin R
  BY <1>3, WFMin
<1>5. ASSUME NEW k \in T
      PROVE  m <= k
  <2>1. k \in Nat /\ m \in Nat
    OBVIOUS
  <2>2. ~(k < m)
    BY <1>3, <1>4, <2>1, Zenon
  <2>. QED
    BY <2>1, <2>2
<1>. QED
  BY <1>5

(* One with an upper bound has a greatest one, which is what Max chooses.  *)
LEMMA GreatestNatural ==
  ASSUME NEW T \in SUBSET Nat, T # {}, NEW n \in Nat, \A t \in T : t <= n
  PROVE  Max(T) \in T /\ \A t \in T : t <= Max(T)
<1>. DEFINE B == {b \in Nat : \A t \in T : t <= b}
<1>1. PICK b \in B : \A k \in B : b <= k
  <2>1. B # {} /\ B \in SUBSET Nat
    OBVIOUS
  <2>. HIDE DEF B
  <2>. QED
    BY <2>1, LeastNatural
<1>2. b \in T
  <2>. SUFFICES ASSUME b \notin T PROVE FALSE
    OBVIOUS
  <2>1. \A t \in T : t < b
    BY <1>1
  <2>2. b - 1 \in B
    <3>1. PICK t : t \in T
      OBVIOUS
    <3>2. b - 1 \in Nat
      BY <2>1, <3>1
    <3>3. \A u \in T : u <= b - 1
      BY <2>1
    <3>. QED
      BY <3>2, <3>3
  <2>. QED
    BY <1>1, <2>2
<1>3. \E x \in T : \A y \in T : x >= y
  BY <1>1, <1>2
<1>4. Max(T) \in T /\ \A y \in T : Max(T) >= y
  BY <1>3 DEF Max
<1>. QED
  BY <1>4

(* n distinct positions below n use all of them.                           *)
LEMMA FullRange ==
  ASSUME NEW S, NEW n \in Nat, IsFiniteSet(S), Cardinality(S) = n, n > 0,
         NEW f \in [S -> 0 .. n - 1], \A p, q \in S : f[p] = f[q] => p = q
  PROVE  \E p \in S : f[p] = n - 1
<1>1. IsFiniteSet(0 .. n - 1) /\ Cardinality(0 .. n - 1) = n
  BY FS_Interval
<1>2. f \in Injection(S, 0 .. n - 1)
  BY DEF Injection, IsInjective
<1>3. f \in Surjection(S, 0 .. n - 1)
  BY <1>1, <1>2, FS_Injection
<1>. QED
  BY <1>3 DEF Surjection

-----------------------------------------------------------------------------
LEMMA ExistingFinite ==
  /\ IsFiniteSet(Existing) /\ Cardinality(Existing) \in Nat
  /\ Cardinality(Ids) \in Nat
  /\ Cardinality(Existing) <= Cardinality(Ids)
<1>1. Existing \in SUBSET Ids
  BY DEF Existing
<1>. QED
  BY <1>1, PortalsAssumption, FS_Subset, FS_CardinalityType

(* The index that resolve_or_create_portal computes.                       *)
LEMMA NextIndexIsFree ==
  ASSUME PortalsInv
  PROVE  /\ NextIndex \in Nat /\ NextIndex <= Cardinality(Existing)
         /\ ~tangled => NextIndex = Cardinality(Existing)
<1>. DEFINE n == Cardinality(Existing)
            T == {index[p] : p \in Existing}
<1>1. IsFiniteSet(Existing) /\ n \in Nat
  BY ExistingFinite
<1>2. CASE Existing = {}
  BY <1>2, FS_EmptySet DEF NextIndex
<1>3. CASE Existing # {}
  <2>1. n > 0
    BY <1>1, <1>3, FS_EmptySet
  <2>2. \A p \in Existing : index[p] \in 0 .. n - 1
    BY <1>1 DEF PortalsInv, PortalsTypeOK, IndexInv, Existing
  <2>3. T \in SUBSET Nat /\ T # {} /\ n - 1 \in Nat /\ \A t \in T : t <= n - 1
    BY <1>1, <1>3, <2>1, <2>2
  <2>4. MaxIndex = Max(T)
    BY DEF MaxIndex
  <2>. DEFINE f == [p \in Existing |-> index[p]]
  <2>5. ~tangled => \E p \in Existing : index[p] = n - 1
    <3>. SUFFICES ASSUME ~tangled PROVE \E p \in Existing : f[p] = n - 1
      OBVIOUS
    <3>1. f \in [Existing -> 0 .. n - 1]
      BY <2>2
    <3>2. \A p, q \in Existing : f[p] = f[q] => p = q
      BY DEF PortalsInv, IndexInv, OrderIsTotal
    <3>. HIDE DEF f, n
    <3>3. n = Cardinality(Existing)
      BY DEF n
    <3>. QED
      BY <1>1, <2>1, <3>1, <3>2, <3>3, FullRange
  <2>6. ~tangled => n - 1 \in T
    BY <2>5
  <2>. HIDE DEF T, n
  <2>7. Max(T) \in T /\ \A t \in T : t <= Max(T)
    BY <2>3, GreatestNatural
  <2>8. PICK m : m = Max(T)
    OBVIOUS
  <2>9. m \in Nat /\ m <= n - 1 /\ (n - 1 \in T => m = n - 1)
    <3>1. m \in T /\ \A t \in T : t <= m
      BY <2>7, <2>8, Zenon
    <3>2. m \in Nat /\ m <= n - 1
      BY <2>3, <3>1
    <3>. QED
      BY <1>1, <3>1, <3>2
  <2>10. NextIndex = m + 1
    BY <1>3, <2>4, <2>8 DEF NextIndex
  <2>. QED
    BY <1>1, <2>6, <2>9, <2>10 DEF n
<1>. QED
  BY <1>2, <1>3

LEMMA InitPortalsInv == PortalsInit => PortalsInv
<1>. SUFFICES ASSUME PortalsInit PROVE PortalsInv
  OBVIOUS
<1>1. Existing = {} /\ Cardinality(Existing) = 0
  BY FS_EmptySet DEF PortalsInit, Existing
<1>2. Cardinality(Ids) \in Nat
  BY ExistingFinite
<1>3. NoRank \in Ranks /\ DOMAIN NoRank = {}
  <2>1. NoRank \in [{} -> 0 .. Cardinality(Ids)] /\ {} \in SUBSET Ids
    BY DEF NoRank
  <2>. QED
    BY <2>1 DEF Ranks, NoRank
<1>4. IdleAdder \in AdderStates /\ IdleOrderer \in OrdererStates
  BY <1>3 DEF IdleAdder, AdderStates, IdleOrderer, OrdererStates
<1>5. PortalsTypeOK
  <2>1. name \in [Ids -> Names \cup {None}] /\ index \in [Ids -> 0 .. Cardinality(Ids)]
    BY <1>2 DEF PortalsInit
  <2>2. /\ posts \in [PostIds -> {"absent", "live", "deleted"}]
        /\ members \in SUBSET (Existing \X {s \in PostIds : posts[s] # "absent"})
    BY DEF PortalsInit
  <2>3. adder \in [Adders -> AdderStates] /\ orderer \in [Orderers -> OrdererStates]
    BY <1>4 DEF PortalsInit
  <2>. QED
    BY <2>1, <2>2, <2>3 DEF PortalsInit, PortalsTypeOK
<1>6. \A a \in Adders : AdderInv(adder[a])
  BY DEF PortalsInit, AdderInv, IdleAdder
<1>7. NamesInv /\ IndexInv
  BY <1>1 DEF PortalsInit, NamesInv, IndexInv, OrderIsTotal, Creating, Indexed, IdleAdder
<1>8. RankInv
  BY <1>3 DEF PortalsInit, RankInv, IdleOrderer
<1>. QED
  BY <1>5, <1>6, <1>7, <1>8 DEF PortalsInv

(* As long as no portal comes and none changes its folded name, what the   *)
(* other calls know stays true.                                            *)
LEMMA SameNames ==
  ASSUME Existing' = Existing, \A p \in Existing : Folded[name'[p]] = Folded[name[p]],
         NEW r
  PROVE  AdderInv(r) => AdderInv(r)'
<1>1. \A n : Named(n)' = Named(n)
  BY DEF Named
<1>. QED
  BY <1>1 DEF AdderInv

LEMMA OneAdder ==
  ASSUME PortalsInv, NEW a \in Adders, NEW r \in AdderStates,
         adder' = [adder EXCEPT ![a] = r],
         UNCHANGED <<index, orderer, tangled>>,
         name' \in [Ids -> Names \cup {None}], Existing' = Existing,
         \A p \in Existing : Folded[name'[p]] = Folded[name[p]],
         posts' \in [PostIds -> {"absent", "live", "deleted"}],
         members' \in SUBSET (Existing \X {s \in PostIds : posts'[s] # "absent"}),
         late' \in SUBSET Adders, late \ {a} \subseteq late',
         AdderInv(r),
         r.at = "created" =>
            \A b \in Creating : b # a => /\ r.portal # adder[b].portal
                                        /\ Folded[r.name] # Folded[adder[b].name],
         r.at \in {"indexed", "created"} =>
            /\ r.index <= Cardinality(Existing)
            /\ ~tangled /\ a \notin late' => r.index = Cardinality(Existing)
  PROVE  PortalsInv'
<1>1. /\ adder'[a] = r
      /\ \A b \in Adders : b # a => adder'[b] = adder[b]
  BY DEF PortalsInv, PortalsTypeOK
<1>2. PortalsTypeOK'
  BY DEF PortalsInv, PortalsTypeOK
<1>3. \A b \in Adders : AdderInv(adder[b])'
  <2>. SUFFICES ASSUME NEW b \in Adders PROVE AdderInv(adder[b])'
    OBVIOUS
  <2>1. PICK s : s = adder'[b]
    OBVIOUS
  <2>2. AdderInv(s)
    BY <1>1, <2>1 DEF PortalsInv
  <2>3. AdderInv(s)'
    BY <2>2, SameNames
  <2>. QED
    BY <2>1, <2>3 DEF AdderInv, Named
<1>4. NamesInv'
  BY <1>1 DEF PortalsInv, NamesInv, Creating
<1>5. IndexInv'
  BY <1>1 DEF PortalsInv, IndexInv, OrderIsTotal, Indexed
<1>6. RankInv'
  BY DEF PortalsInv, RankInv, Positions
<1>. QED
  BY <1>2, <1>3, <1>4, <1>5, <1>6 DEF PortalsInv

(* resolve_or_create_portal, and the calls that end without a new portal.  *)
LEMMA AdderStep ==
  ASSUME PortalsInv, NEW a \in Adders,
         \/ \E s \in PostIds : \/ \E p \in Ids : FindById(a, s, p)
                              \/ \E n \in Names : ComputeIndex(a, s, n)
         \/ InsertPortal(a) \/ UpdateConflicting(a)
         \/ CommitFound(a) \/ CommitUpserted(a) \/ AddFails(a)
  PROVE  PortalsInv'
<1>1. /\ adder[a] \in AdderStates /\ AdderInv(adder[a])
      /\ name \in [Ids -> Names \cup {None}]
      /\ posts \in [PostIds -> {"absent", "live", "deleted"}]
      /\ members \in SUBSET (Existing \X {s \in PostIds : posts[s] # "absent"})
      /\ late \in SUBSET Adders
  BY DEF PortalsInv, PortalsTypeOK
<1>2. IdleAdder \in AdderStates /\ AdderInv(IdleAdder) /\ IdleAdder.at = "idle"
  BY DEF IdleAdder, AdderStates, AdderInv
<1>3. ASSUME UNCHANGED portals
      PROVE  /\ name' = name /\ index' = index /\ Existing' = Existing
             /\ name' \in [Ids -> Names \cup {None}]
             /\ \A p \in Existing : Folded[name'[p]] = Folded[name[p]]
  BY <1>1, <1>3 DEF portals, Existing
<1>4. ASSUME NEW s \in PostIds, NEW p \in Ids, FindById(a, s, p)
      PROVE  PortalsInv'
  <2>. DEFINE r == [at |-> "found", post |-> s, portal |-> p, name |-> None, index |-> 0]
  <2>1. /\ adder' = [adder EXCEPT ![a] = r] /\ p \in Existing
        /\ UNCHANGED <<portals, members, posts, orderer, late, tangled>>
    BY <1>4 DEF FindById
  <2>2. r \in AdderStates /\ AdderInv(r) /\ r.at = "found"
    BY <2>1 DEF AdderStates, AdderInv
  <2>. HIDE DEF r
  <2>. QED
    BY <1>1, <1>3, <2>1, <2>2, OneAdder
<1>5. ASSUME NEW s \in PostIds, NEW n \in Names, ComputeIndex(a, s, n)
      PROVE  PortalsInv'
  <2>. DEFINE r == [at |-> "indexed", post |-> s, portal |-> None, name |-> n,
                    index |-> NextIndex]
  <2>1. /\ adder' = [adder EXCEPT ![a] = r]
        /\ UNCHANGED <<portals, members, posts, orderer, late, tangled>>
    BY <1>5 DEF ComputeIndex
  <2>2. /\ NextIndex \in Nat /\ NextIndex <= Cardinality(Existing)
        /\ ~tangled => NextIndex = Cardinality(Existing)
    BY NextIndexIsFree
  <2>3. r \in AdderStates /\ AdderInv(r) /\ r.at = "indexed" /\ r.index = NextIndex
    BY <2>2 DEF AdderStates, AdderInv
  <2>. HIDE DEF r
  <2>. QED
    BY <1>1, <1>3, <2>1, <2>2, <2>3, OneAdder
<1>6. ASSUME NEW at, NEW p, Takes(a, at, p)
      PROVE  /\ adder' = [adder EXCEPT ![a] = [at |-> at, post |-> adder[a].post, portal |-> p,
                                              name |-> adder[a].name, index |-> adder[a].index]]
             /\ UNCHANGED <<portals, members, posts, orderer, late, tangled>>
  BY <1>6 DEF Takes, PortalsInv, PortalsTypeOK
<1>7. ASSUME InsertPortal(a)
      PROVE  PortalsInv'
  <2>1. PICK p \in Unused : Takes(a, "created", p)
    BY <1>7 DEF InsertPortal
  <2>. DEFINE r == [at |-> "created", post |-> adder[a].post, portal |-> p,
                    name |-> adder[a].name, index |-> adder[a].index]
  <2>2. /\ adder' = [adder EXCEPT ![a] = r]
        /\ UNCHANGED <<portals, members, posts, orderer, late, tangled>>
    BY <1>6, <2>1
  <2>3. /\ adder[a].at = "indexed" /\ Named(adder[a].name) = {}
        /\ ~NameAwaited(adder[a].name)
    BY <1>7 DEF InsertPortal
  <2>4. p \in Ids \ Existing /\ \A b \in Adders : adder[b].portal # p
    BY <2>1 DEF Unused
  <2>5. r \in AdderStates /\ AdderInv(r)
    BY <1>1, <2>3, <2>4 DEF AdderStates, AdderInv
  <2>6. \A b \in Creating : b # a => /\ r.portal # adder[b].portal
                                    /\ Folded[r.name] # Folded[adder[b].name]
    BY <2>3, <2>4 DEF NameAwaited, Creating
  <2>7. /\ r.index <= Cardinality(Existing)
        /\ ~tangled /\ a \notin late' => r.index = Cardinality(Existing)
    BY <2>2, <2>3 DEF PortalsInv, IndexInv, Indexed
  <2>. HIDE DEF r
  <2>. QED
    BY <1>1, <1>3, <2>2, <2>5, <2>6, <2>7, OneAdder
<1>8. ASSUME UpdateConflicting(a)
      PROVE  PortalsInv'
  <2>1. PICK p \in Named(adder[a].name) : Takes(a, "upserted", p)
    BY <1>8 DEF UpdateConflicting
  <2>. DEFINE r == [at |-> "upserted", post |-> adder[a].post, portal |-> p,
                    name |-> adder[a].name, index |-> adder[a].index]
  <2>2. /\ adder' = [adder EXCEPT ![a] = r]
        /\ UNCHANGED <<portals, members, posts, orderer, late, tangled>>
    BY <1>6, <2>1
  <2>3. adder[a].at = "indexed" /\ p \in Existing /\ Folded[name[p]] = Folded[adder[a].name]
    BY <1>8, <2>1 DEF UpdateConflicting, Named
  <2>4. r \in AdderStates /\ AdderInv(r) /\ r.at = "upserted"
    BY <1>1, <2>3 DEF AdderStates, AdderInv, Existing
  <2>. HIDE DEF r
  <2>. QED
    BY <1>1, <1>3, <2>2, <2>4, OneAdder
<1>9. ASSUME AddsMember(a), adder[a].at \in {"found", "upserted"}
      PROVE  /\ adder' = [adder EXCEPT ![a] = IdleAdder] /\ UNCHANGED orderer
             /\ posts' \in [PostIds -> {"absent", "live", "deleted"}]
             /\ members' \in SUBSET (Existing \X {s \in PostIds : posts'[s] # "absent"})
  <2>1. adder[a].post \in PostIds /\ adder[a].portal \in Existing
    BY <1>1, <1>9 DEF AdderInv
  <2>2. \A s \in PostIds : posts'[s] = IF s = adder[a].post /\ posts[s] = "absent"
                                      THEN "live" ELSE posts[s]
    BY <1>1, <1>9, <2>1 DEF AddsMember
  <2>3. posts' \in [PostIds -> {"absent", "live", "deleted"}]
    BY <1>1, <1>9, <2>1 DEF AddsMember
  <2>4. members' = members \cup {<<adder[a].portal, adder[a].post>>}
    BY <1>9 DEF AddsMember
  <2>. QED
    BY <1>1, <1>9, <2>1, <2>2, <2>3, <2>4 DEF AddsMember
<1>10. ASSUME CommitFound(a)
       PROVE  PortalsInv'
  <2>1. /\ AddsMember(a) /\ adder[a].at \in {"found", "upserted"}
        /\ UNCHANGED <<portals, late, tangled>>
    BY <1>10 DEF CommitFound
  <2>. QED
    BY <1>1, <1>2, <1>3, <1>9, <2>1, OneAdder
<1>11. ASSUME CommitUpserted(a)
       PROVE  PortalsInv'
  <2>1. /\ AddsMember(a) /\ adder[a].at = "upserted" /\ late' = late \ {a}
        /\ name' = [name EXCEPT ![adder[a].portal] = adder[a].name]
        /\ UNCHANGED <<index, tangled>>
    BY <1>11 DEF CommitUpserted
  <2>2. /\ adder[a].portal \in Existing /\ adder[a].name \in Names
        /\ Folded[name[adder[a].portal]] = Folded[adder[a].name]
    BY <1>1, <2>1 DEF AdderInv
  <2>3. \A p \in Ids : name'[p] = IF p = adder[a].portal THEN adder[a].name ELSE name[p]
    BY <1>1, <2>1
  <2>4. name' \in [Ids -> Names \cup {None}] /\ Existing' = Existing
    BY <1>1, <2>1, <2>2, <2>3, PortalsAssumption DEF Existing
  <2>5. \A p \in Existing : Folded[name'[p]] = Folded[name[p]]
    BY <2>2, <2>3 DEF Existing
  <2>. QED
    BY <1>1, <1>2, <1>9, <2>1, <2>4, <2>5, OneAdder
<1>12. ASSUME AddFails(a)
       PROVE  PortalsInv'
  <2>1. /\ adder' = [adder EXCEPT ![a] = IdleAdder] /\ late' = late \ {a}
        /\ UNCHANGED <<portals, members, posts, orderer, tangled>>
    BY <1>12 DEF AddFails
  <2>. QED
    BY <1>1, <1>2, <1>3, <2>1, OneAdder
<1>. QED
  BY <1>4, <1>5, <1>7, <1>8, <1>10, <1>11, <1>12

-----------------------------------------------------------------------------
(* Calls that touch no adder and no portal.                                *)
LEMMA OutsideStep ==
  ASSUME PortalsInv, UNCHANGED <<portals, adder, late, tangled>>,
         posts' \in [PostIds -> {"absent", "live", "deleted"}],
         members' \in SUBSET (Existing \X {s \in PostIds : posts'[s] # "absent"}),
         orderer' \in [Orderers -> OrdererStates], RankInv'
  PROVE  PortalsInv'
<1>1. UNCHANGED <<name, index>> /\ Existing' = Existing
  BY DEF portals, Existing
<1>2. PortalsTypeOK'
  BY <1>1 DEF PortalsInv, PortalsTypeOK
<1>3. \A a \in Adders : AdderInv(adder[a])'
  BY <1>1 DEF PortalsInv, AdderInv, Named
<1>4. NamesInv' /\ IndexInv'
  BY <1>1 DEF PortalsInv, NamesInv, IndexInv, OrderIsTotal, Creating, Indexed
<1>. QED
  BY <1>2, <1>3, <1>4 DEF PortalsInv

LEMMA PostsStep ==
  ASSUME PortalsInv,
         \E s \in PostIds : DeletePost(s) \/ \E p \in Ids : RemoveFromPortal(p, s)
  PROVE  PortalsInv'
<1>1. /\ posts \in [PostIds -> {"absent", "live", "deleted"}]
      /\ members \in SUBSET (Existing \X {s \in PostIds : posts[s] # "absent"})
      /\ orderer \in [Orderers -> OrdererStates]
  BY DEF PortalsInv, PortalsTypeOK
<1>2. PICK s \in PostIds : DeletePost(s) \/ \E p \in Ids : RemoveFromPortal(p, s)
  OBVIOUS
<1>3. /\ UNCHANGED <<portals, adder, orderer, late, tangled>>
      /\ members' \subseteq members
      /\ \/ posts' = posts
         \/ posts' = [posts EXCEPT ![s] = "deleted"]
  BY <1>2 DEF DeletePost, RemoveFromPortal
<1>4. \A q \in PostIds : posts[q] # "absent" => posts'[q] # "absent"
  BY <1>1, <1>3
<1>5. posts' \in [PostIds -> {"absent", "live", "deleted"}]
  BY <1>1, <1>3
<1>6. members' \in SUBSET (Existing \X {q \in PostIds : posts'[q] # "absent"})
  BY <1>1, <1>3, <1>4
<1>7. RankInv'
  BY <1>3 DEF PortalsInv, RankInv, Positions, Existing, portals
<1>. QED
  BY <1>1, <1>3, <1>5, <1>6, <1>7, OutsideStep

LEMMA OrdererStep ==
  ASSUME PortalsInv, NEW o \in Orderers, ReadPortals(o) \/ UpdateRow(o) \/ OrderFails(o)
  PROVE  PortalsInv'
<1>1. /\ orderer \in [Orderers -> OrdererStates]
      /\ posts \in [PostIds -> {"absent", "live", "deleted"}]
      /\ members \in SUBSET (Existing \X {s \in PostIds : posts[s] # "absent"})
  BY DEF PortalsInv, PortalsTypeOK
<1>2. /\ UNCHANGED <<portals, members, posts, adder, late, tangled>>
      /\ Existing' = Existing
  BY DEF ReadPortals, Reads, UpdateRow, OrderFails, portals, Existing
<1>3. ASSUME NEW r \in OrdererStates, orderer' = [orderer EXCEPT ![o] = r],
             r.at = "idle" => DOMAIN r.rank = {},
             r.at = "ordering" => r.seen \subseteq Existing /\ r.rank \in Positions(r.seen)
      PROVE  PortalsInv'
  <2>1. /\ orderer'[o] = r /\ \A x \in Orderers : x # o => orderer'[x] = orderer[x]
        /\ orderer' \in [Orderers -> OrdererStates]
    BY <1>1, <1>3
  <2>2. RankInv'
    BY <1>2, <1>3, <2>1 DEF PortalsInv, RankInv, Positions
  <2>. QED
    BY <1>1, <1>2, <2>1, <2>2, OutsideStep
<1>4. CASE ReadPortals(o)
  <2>1. PICK k \in Positions(Existing) :
          orderer' = [orderer EXCEPT ![o] = [at |-> "ordering", rank |-> k,
                                             seen |-> Existing, done |-> 0]]
    BY <1>4 DEF ReadPortals, Reads
  <2>. DEFINE r == [at |-> "ordering", rank |-> k, seen |-> Existing, done |-> 0]
  <2>2. k \in Ranks
    <3>1. k \in [Existing -> 0 .. Cardinality(Ids)]
      BY <2>1, ExistingFinite DEF Positions
    <3>2. Existing \in SUBSET Ids
      BY DEF Existing
    <3>. QED
      BY <3>1, <3>2 DEF Ranks
  <2>3. r \in OrdererStates
    BY <2>2 DEF OrdererStates, Existing
  <2>4. r.at = "ordering" /\ r.seen \subseteq Existing /\ r.rank \in Positions(r.seen)
    OBVIOUS
  <2>. HIDE DEF r
  <2>. QED
    BY <1>3, <2>1, <2>3, <2>4 DEF r
<1>5. CASE UpdateRow(o)
  <2>. DEFINE x == orderer[o]
              r == [at |-> "ordering", rank |-> x.rank, seen |-> x.seen, done |-> x.done + 1]
  <2>1. orderer' = [orderer EXCEPT ![o] = r] /\ DOMAIN x.rank # {}
    BY <1>1, <1>5 DEF UpdateRow
  <2>2. x \in OrdererStates
    BY <1>1
  <2>3. x.at = "ordering"
    BY <2>1, <2>2 DEF PortalsInv, RankInv, OrdererStates
  <2>4. r \in OrdererStates /\ r.at = "ordering"
    BY <2>2 DEF OrdererStates
  <2>5. r.seen \subseteq Existing /\ r.rank \in Positions(r.seen)
    BY <2>3 DEF PortalsInv, RankInv
  <2>. HIDE DEF r
  <2>. QED
    BY <1>3, <2>1, <2>4, <2>5
<1>6. CASE OrderFails(o)
  <2>1. orderer' = [orderer EXCEPT ![o] = IdleOrderer]
    BY <1>6 DEF OrderFails
  <2>2. NoRank \in Ranks /\ DOMAIN NoRank = {}
    <3>1. NoRank \in [{} -> 0 .. Cardinality(Ids)] /\ {} \in SUBSET Ids
      BY DEF NoRank
    <3>. QED
      BY <3>1 DEF Ranks, NoRank
  <2>3. IdleOrderer \in OrdererStates /\ IdleOrderer.at = "idle" /\ DOMAIN IdleOrderer.rank = {}
    BY <2>2 DEF IdleOrderer, OrdererStates
  <2>. QED
    BY <1>3, <2>1, <2>3
<1>. QED
  BY <1>4, <1>5, <1>6

-----------------------------------------------------------------------------
(* update_portal: the row is not locked, so no call has promised its name. *)
LEMMA RenameStep ==
  ASSUME PortalsInv, NEW p \in Ids, NEW n \in Names, Rename(p, n)
  PROVE  PortalsInv'
<1>1. /\ p \in Existing /\ ~Locked(p) /\ Named(n) \subseteq {p} /\ ~NameAwaited(n)
      /\ name' = [name EXCEPT ![p] = n]
      /\ UNCHANGED <<index, members, posts, adder, orderer, late, tangled>>
  BY DEF Rename
<1>2. /\ name \in [Ids -> Names \cup {None}]
      /\ n # None
  BY PortalsAssumption DEF PortalsInv, PortalsTypeOK
<1>3. \A q \in Ids : name'[q] = IF q = p THEN n ELSE name[q]
  BY <1>1, <1>2
<1>4. Existing' = Existing
  BY <1>1, <1>2, <1>3 DEF Existing
<1>5. PortalsTypeOK'
  BY <1>1, <1>2, <1>4 DEF PortalsInv, PortalsTypeOK
<1>6. ASSUME NEW a \in Adders
      PROVE  AdderInv(adder[a])'
  <2>. DEFINE r == adder[a]
  <2>1. AdderInv(r) /\ adder'[a] = r
    BY <1>1 DEF PortalsInv
  <2>2. ASSUME r.at = "created"
        PROVE  Named(r.name)' = {}
    <3>1. Folded[r.name] # Folded[n]
      BY <1>1, <2>2 DEF NameAwaited, Creating
    <3>2. \A q \in Existing : Folded[name[q]] # Folded[r.name]
      BY <2>1, <2>2 DEF AdderInv, Named
    <3>3. \A q \in Existing : Folded[name'[q]] # Folded[r.name]
      BY <1>3, <3>1, <3>2 DEF Existing
    <3>. QED
      BY <1>1, <1>4, <3>3 DEF Named
  <2>3. r.at = "upserted" => r.portal # p
    BY <1>1 DEF Locked
  <2>4. r.at = "upserted" => name'[r.portal] = name[r.portal]
    BY <1>3, <2>1, <2>3 DEF AdderInv, Existing
  <2>. QED
    BY <1>4, <2>1, <2>2, <2>4 DEF AdderInv, Named
<1>7. NamesInv'
  <2>1. \A q \in Existing : Folded[name[q]] = Folded[n] => q = p
    BY <1>1 DEF Named
  <2>2. \A q \in Existing : name'[q] = IF q = p THEN n ELSE name[q]
    BY <1>3 DEF Existing
  <2>3. \A q, r \in Existing : Folded[name'[q]] = Folded[name'[r]] => q = r
    BY <2>1, <2>2 DEF PortalsInv, NamesInv
  <2>. QED
    BY <1>1, <1>4, <2>3 DEF PortalsInv, NamesInv, Creating
<1>8. IndexInv' /\ RankInv'
  BY <1>1, <1>4 DEF PortalsInv, IndexInv, OrderIsTotal, Indexed, RankInv, Positions
<1>. QED
  BY <1>5, <1>6, <1>7, <1>8 DEF PortalsInv

(* A new portal comes last, unless its index has been outdated meanwhile.  *)
LEMMA CreationStep ==
  ASSUME PortalsInv, NEW a \in Adders, CommitCreated(a)
  PROVE  PortalsInv'
<1>. DEFINE c == adder[a]
            n == Cardinality(Existing)
<1>1. /\ c.at = "created"
      /\ name' = [name EXCEPT ![c.portal] = c.name]
      /\ index' = [index EXCEPT ![c.portal] = c.index]
      /\ members' = members \cup {<<c.portal, c.post>>}
      /\ posts' = [posts EXCEPT ![c.post] = IF @ = "absent" THEN "live" ELSE @]
      /\ adder' = [adder EXCEPT ![a] = IdleAdder]
      /\ tangled' = (tangled \/ a \in late)
      /\ late' = (late \cup Indexed) \ {a}
      /\ orderer' = orderer
  BY DEF CommitCreated, AddsMember
<1>2. /\ name \in [Ids -> Names \cup {None}]
      /\ index \in [Ids -> 0 .. Cardinality(Ids)]
      /\ posts \in [PostIds -> {"absent", "live", "deleted"}]
      /\ members \in SUBSET (Existing \X {s \in PostIds : posts[s] # "absent"})
      /\ adder \in [Adders -> AdderStates]
      /\ late \in SUBSET Adders /\ tangled \in BOOLEAN
      /\ c \in AdderStates /\ AdderInv(c)
  BY DEF PortalsInv, PortalsTypeOK
<1>3. /\ c.portal \in Ids /\ c.portal \notin Existing /\ c.name \in Names /\ c.post \in PostIds
      /\ Named(c.name) = {} /\ c.name # None /\ c.index \in Nat
  BY <1>1, <1>2, PortalsAssumption DEF AdderInv, AdderStates
<1>4. a \in Creating /\ a \in Indexed
  BY <1>1 DEF Creating, Indexed
<1>5. c.index <= n /\ (~tangled /\ a \notin late => c.index = n)
  BY <1>4 DEF PortalsInv, IndexInv
<1>6. \A p \in Ids : /\ name'[p] = IF p = c.portal THEN c.name ELSE name[p]
                    /\ index'[p] = IF p = c.portal THEN c.index ELSE index[p]
  BY <1>1, <1>2
<1>7. Existing' = Existing \cup {c.portal}
  BY <1>3, <1>6 DEF Existing
<1>8. n \in Nat /\ Cardinality(Existing)' = n + 1 /\ n + 1 <= Cardinality(Ids)
      /\ Cardinality(Ids) \in Nat
  <2>1. IsFiniteSet(Existing) /\ n \in Nat
    BY ExistingFinite
  <2>2. Cardinality(Existing') = n + 1
    BY <1>3, <1>7, <2>1, FS_AddElement
  <2>3. Existing' \in SUBSET Ids
    BY <1>7, <1>3 DEF Existing
  <2>4. Cardinality(Existing') <= Cardinality(Ids)
    BY <2>3, PortalsAssumption, FS_Subset
  <2>. QED
    BY <2>1, <2>2, <2>4, ExistingFinite
<1>9. /\ adder'[a] = IdleAdder /\ IdleAdder \in AdderStates
      /\ IdleAdder.at = "idle" /\ IdleAdder.name = None
      /\ \A b \in Adders : b # a => adder'[b] = adder[b]
  BY <1>1, <1>2 DEF IdleAdder, AdderStates
<1>10. PortalsTypeOK'
  <2>1. name' \in [Ids -> Names \cup {None}]
    BY <1>1, <1>2, <1>3
  <2>2. index' \in [Ids -> 0 .. Cardinality(Ids)]
    BY <1>1, <1>2, <1>3, <1>5, <1>8
  <2>3. /\ posts' \in [PostIds -> {"absent", "live", "deleted"}]
        /\ \A s \in PostIds : posts[s] # "absent" => posts'[s] # "absent"
        /\ posts'[c.post] # "absent"
    BY <1>1, <1>2, <1>3
  <2>4. members' \in SUBSET (Existing' \X {s \in PostIds : posts'[s] # "absent"})
    BY <1>1, <1>2, <1>3, <1>7, <2>3
  <2>5. adder' \in [Adders -> AdderStates]
    BY <1>1, <1>2, <1>9
  <2>6. late' \in SUBSET Adders /\ tangled' \in BOOLEAN
    BY <1>1, <1>2 DEF Indexed
  <2>7. orderer' \in [Orderers -> OrdererStates]
    BY <1>1 DEF PortalsInv, PortalsTypeOK
  <2>. QED
    BY <2>1, <2>2, <2>3, <2>4, <2>5, <2>6, <2>7 DEF PortalsTypeOK
<1>11. ASSUME NEW b \in Adders
       PROVE  AdderInv(adder[b])'
  <2>. DEFINE r == adder[b]
  <2>1. CASE b = a
    BY <1>9, <2>1 DEF AdderInv
  <2>2. CASE b # a
    <3>1. AdderInv(r) /\ adder'[b] = r
      BY <1>9, <2>2 DEF PortalsInv
    <3>2. ASSUME r.at = "created"
          PROVE  r.portal \in Ids \ Existing' /\ Named(r.name)' = {}
      <4>1. r.portal # c.portal /\ Folded[c.name] # Folded[r.name]
        BY <1>4, <2>2, <3>2 DEF PortalsInv, NamesInv, Creating
      <4>2. r.portal \in Ids \ Existing
        BY <3>1, <3>2 DEF AdderInv
      <4>3. \A q \in Existing : Folded[name[q]] # Folded[r.name]
        BY <3>1, <3>2 DEF AdderInv, Named
      <4>4. \A q \in Existing' : Folded[name'[q]] # Folded[r.name]
        BY <1>3, <1>6, <1>7, <4>1, <4>3 DEF Existing
      <4>. QED
        BY <1>7, <3>1, <4>1, <4>2, <4>4 DEF Named
    <3>3. r.at \in {"found", "upserted"} => r.portal \in Existing'
      BY <1>7, <3>1 DEF AdderInv
    <3>4. r.at = "upserted" => name'[r.portal] = name[r.portal]
      BY <1>3, <1>6, <3>1 DEF AdderInv, Existing
    <3>. QED
      BY <3>1, <3>2, <3>3, <3>4 DEF AdderInv
  <2>. QED
    BY <2>1, <2>2
<1>12. NamesInv'
  <2>1. \A q \in Existing : q \in Ids /\ Folded[name[q]] # Folded[c.name]
    BY <1>3 DEF Named, Existing
  <2>2. \A p, q \in Existing : Folded[name[p]] = Folded[name[q]] => p = q
    BY DEF PortalsInv, NamesInv
  <2>3. \A p, q \in Existing' : Folded[name'[p]] = Folded[name'[q]] => p = q
    BY <1>3, <1>6, <1>7, <2>1, <2>2
  <2>4. \A b \in Creating' : b \in Creating /\ adder'[b] = adder[b]
    BY <1>9 DEF Creating
  <2>. QED
    BY <2>3, <2>4 DEF PortalsInv, NamesInv
<1>13. IndexInv'
  <2>1. \A p \in Existing : p \in Ids /\ index[p] < n /\ index[p] \in Nat
    BY <1>2 DEF PortalsInv, IndexInv, Existing
  <2>2. \A p \in Existing' : index'[p] < n + 1
    BY <1>3, <1>5, <1>6, <1>7, <1>8, <2>1
  <2>3. \A b \in Indexed' : /\ b \in Indexed /\ b \in late'
                           /\ adder'[b] = adder[b] /\ adder[b].index <= n /\ adder[b].index \in Nat
    BY <1>1, <1>2, <1>9 DEF Indexed, PortalsInv, IndexInv, AdderStates
  <2>4. OrderIsTotal'
    <3>. SUFFICES ASSUME ~tangled'
                  PROVE  \A p, q \in Existing' : index'[p] = index'[q] => p = q
      BY DEF OrderIsTotal
    <3>1. ~tangled /\ c.index = n
      BY <1>1, <1>5
    <3>2. \A p, q \in Existing : index[p] = index[q] => p = q
      BY <3>1 DEF PortalsInv, IndexInv, OrderIsTotal
    <3>. QED
      BY <1>3, <1>6, <1>7, <1>8, <2>1, <3>1, <3>2
  <2>5. \A b \in Indexed' : adder'[b].index <= n + 1
    BY <1>8, <2>3
  <2>. QED
    BY <1>8, <2>2, <2>3, <2>4, <2>5 DEF IndexInv
<1>14. RankInv'
  <2>1. orderer' = orderer /\ Existing \subseteq Existing'
    BY <1>1, <1>7
  <2>. QED
    BY <2>1 DEF PortalsInv, RankInv, Positions
<1>. QED
  BY <1>10, <1>11, <1>12, <1>13, <1>14 DEF PortalsInv

(* A reorder that has read every portal leaves an order without ties.      *)
LEMMA ReorderStep ==
  ASSUME PortalsInv, NEW o \in Orderers, CommitOrder(o)
  PROVE  PortalsInv'
<1>. DEFINE r == orderer[o]
            n == Cardinality(Existing)
<1>1. /\ r.at = "ordering"
      /\ index' = [p \in Ids |-> IF p \in DOMAIN r.rank THEN r.rank[p] ELSE index[p]]
      /\ tangled' = (r.seen # Existing)
      /\ late' = IF tangled THEN late \cup Indexed ELSE late
      /\ orderer' = [orderer EXCEPT ![o] = IdleOrderer]
      /\ UNCHANGED <<name, members, posts, adder>>
  BY DEF CommitOrder
<1>2. r.seen \subseteq Existing /\ r.rank \in Positions(r.seen)
  BY <1>1 DEF PortalsInv, RankInv
<1>3. /\ DOMAIN r.rank = r.seen
      /\ \A p \in r.seen : r.rank[p] \in 0 .. Cardinality(r.seen) - 1
      /\ \A p, q \in r.seen : r.rank[p] = r.rank[q] => p = q
  BY <1>2 DEF Positions
<1>4. /\ n \in Nat /\ Cardinality(r.seen) \in Nat /\ Cardinality(r.seen) <= n
      /\ Cardinality(Ids) \in Nat /\ n <= Cardinality(Ids)
  <2>1. IsFiniteSet(Existing)
    BY ExistingFinite
  <2>2. IsFiniteSet(r.seen) /\ Cardinality(r.seen) <= n
    BY <1>2, <2>1, FS_Subset
  <2>. QED
    BY <2>2, ExistingFinite, FS_CardinalityType
<1>5. Existing' = Existing /\ \A p \in Existing : p \in Ids
  BY <1>1 DEF Existing
<1>6. \A p \in Ids : index'[p] = IF p \in r.seen THEN r.rank[p] ELSE index[p]
  BY <1>1, <1>3
<1>7. /\ index \in [Ids -> 0 .. Cardinality(Ids)] /\ late \in SUBSET Adders
      /\ orderer \in [Orderers -> OrdererStates]
      /\ adder \in [Adders -> AdderStates]
  BY DEF PortalsInv, PortalsTypeOK
<1>8. /\ IdleOrderer \in OrdererStates /\ IdleOrderer.at = "idle"
      /\ DOMAIN IdleOrderer.rank = {}
  <2>1. NoRank \in [{} -> 0 .. Cardinality(Ids)] /\ {} \in SUBSET Ids /\ DOMAIN NoRank = {}
    BY DEF NoRank
  <2>2. NoRank \in Ranks
    BY <2>1 DEF Ranks
  <2>. QED
    BY <2>1, <2>2 DEF IdleOrderer, OrdererStates
<1>9. PortalsTypeOK'
  <2>1. index' \in [Ids -> 0 .. Cardinality(Ids)]
    BY <1>1, <1>3, <1>4, <1>7
  <2>2. orderer' \in [Orderers -> OrdererStates]
    BY <1>1, <1>7, <1>8
  <2>3. late' \in SUBSET Adders /\ tangled' \in BOOLEAN
    BY <1>1, <1>7 DEF Indexed
  <2>. QED
    BY <1>1, <1>5, <2>1, <2>2, <2>3 DEF PortalsInv, PortalsTypeOK
<1>10. \A a \in Adders : AdderInv(adder[a])'
  BY <1>1, <1>5 DEF PortalsInv, AdderInv, Named
<1>11. NamesInv'
  BY <1>1, <1>5 DEF PortalsInv, NamesInv, Creating
<1>12. IndexInv'
  <2>1. \A p \in Existing : index'[p] < n
    BY <1>2, <1>3, <1>4, <1>5, <1>6 DEF PortalsInv, IndexInv
  <2>2. Indexed' = Indexed
    BY <1>1 DEF Indexed
  <2>3. \A a \in Indexed : adder[a].index <= n
    BY DEF PortalsInv, IndexInv
  <2>4. \A a \in Indexed \ late' : adder[a].index = n
    BY <1>1 DEF PortalsInv, IndexInv
  <2>5. OrderIsTotal'
    <3>. SUFFICES ASSUME ~tangled'
                  PROVE  \A p, q \in Existing : index'[p] = index'[q] => p = q
      BY <1>5 DEF OrderIsTotal
    <3>1. r.seen = Existing
      BY <1>1
    <3>. QED
      BY <1>3, <1>5, <1>6, <3>1
  <2>. QED
    BY <1>1, <1>5, <2>1, <2>2, <2>3, <2>4, <2>5 DEF IndexInv
<1>13. RankInv'
  <2>1. orderer'[o] = IdleOrderer /\ \A x \in Orderers : x # o => orderer'[x] = orderer[x]
    BY <1>1, <1>7
  <2>. QED
    BY <1>5, <1>8, <2>1 DEF PortalsInv, RankInv, Positions
<1>. QED
  BY <1>9, <1>10, <1>11, <1>12, <1>13 DEF PortalsInv

LEMMA NextPortalsInv == PortalsInv /\ [PortalsNext]_portalsVars => PortalsInv'
<1>. SUFFICES ASSUME PortalsInv, [PortalsNext]_portalsVars PROVE PortalsInv'
  OBVIOUS
<1>1. ASSUME NEW a \in Adders,
             \/ \E s \in PostIds : \/ \E p \in Ids : FindById(a, s, p)
                                  \/ \E n \in Names : ComputeIndex(a, s, n)
             \/ InsertPortal(a) \/ UpdateConflicting(a)
             \/ CommitFound(a) \/ CommitUpserted(a) \/ AddFails(a)
      PROVE  PortalsInv'
  BY <1>1, AdderStep
<1>2. ASSUME NEW a \in Adders, CommitCreated(a) PROVE PortalsInv'
  BY <1>2, CreationStep
<1>3. ASSUME \E s \in PostIds : DeletePost(s) \/ \E p \in Ids : RemoveFromPortal(p, s)
      PROVE  PortalsInv'
  BY <1>3, PostsStep
<1>4. ASSUME NEW p \in Ids, NEW n \in Names, Rename(p, n) PROVE PortalsInv'
  BY <1>4, RenameStep
<1>5. ASSUME NEW o \in Orderers, ReadPortals(o) \/ UpdateRow(o) \/ OrderFails(o)
      PROVE  PortalsInv'
  BY <1>5, OrdererStep
<1>6. ASSUME NEW o \in Orderers, CommitOrder(o) PROVE PortalsInv'
  BY <1>6, ReorderStep
<1>7. ASSUME UNCHANGED portalsVars PROVE PortalsInv'
  <2>1. UNCHANGED <<portals, adder, late, tangled, posts, members, orderer, name>>
    BY <1>7 DEF portalsVars, portals
  <2>2. RankInv'
    BY <2>1 DEF PortalsInv, RankInv, Positions, Existing
  <2>. QED
    BY <2>1, <2>2, OutsideStep DEF PortalsInv, PortalsTypeOK
<1>. QED
  BY <1>1, <1>2, <1>3, <1>4, <1>5, <1>6, <1>7 DEF PortalsNext

LEMMA SpecPortalsInv == PortalsSpec => []PortalsInv
BY InitPortalsInv, NextPortalsInv, PTL DEF PortalsSpec

(* Every variable of Portals keeps its type: no order_index ever exceeds   *)
(* the number of portals, however calls overlap.                           *)
THEOREM PortalsTypeCorrect == PortalsSpec => []PortalsTypeOK
<1>1. PortalsInv => PortalsTypeOK
  BY DEF PortalsInv
<1>. QED
  BY <1>1, SpecPortalsInv, PTL

(* Two portals have the same place only after creations that overlapped,   *)
(* or after a reorder with an outdated list, and until the next reorder.   *)
THEOREM PortalsKeepTheirOrder == PortalsSpec => []OrderIsTotal
<1>1. PortalsInv => OrderIsTotal
  BY DEF PortalsInv, IndexInv
<1>. QED
  BY <1>1, SpecPortalsInv, PTL

(* A call that adds by name holds the only portal of that name, in any     *)
(* spelling, or will have created it.                                      *)
THEOREM PostsGoToTheNamedPortal == PortalsSpec => []AddedByName
<1>1. PortalsInv => AddedByName
  <2>. SUFFICES ASSUME PortalsInv, NEW a \in Adders,
                       adder[a].name # None, adder[a].portal # None
                PROVE  Named(adder[a].name) = {adder[a].portal} \cap Existing
    BY DEF AddedByName
  <2>1. AdderInv(adder[a]) /\ adder[a] \in AdderStates
    BY DEF PortalsInv, PortalsTypeOK
  <2>2. adder[a].at \in {"created", "upserted"}
    BY <2>1 DEF AdderInv, AdderStates
  <2>3. CASE adder[a].at = "created"
    BY <2>1, <2>3 DEF AdderInv
  <2>4. CASE adder[a].at = "upserted"
    <3>1. /\ adder[a].portal \in Existing
          /\ Folded[name[adder[a].portal]] = Folded[adder[a].name]
      BY <2>1, <2>4 DEF AdderInv
    <3>. QED
      BY <3>1 DEF PortalsInv, NamesInv, Named
  <2>. QED
    BY <2>2, <2>3, <2>4
<1>. QED
  BY <1>1, SpecPortalsInv, PTL
=============================================================================
