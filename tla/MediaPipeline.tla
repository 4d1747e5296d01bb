--------------------------- MODULE MediaPipeline ---------------------------
(***************************************************************************)
(* A picture or a film from its upload to a post: upload_media of          *)
(* MediaService, the worker's handler of the job media_processing, the     *)
(* part of create_post of PostService that attaches media, and             *)
(* delete_account of AuthService, which removes the rows of both.          *)
(*                                                                         *)
(* Every statement and every object written to the store is a step, since  *)
(* neither the upload nor the handler has a transaction.  create_post has  *)
(* one: it takes the media rows one by one and shows them at COMMIT.  The  *)
(* life of the job is JobQueue's, reduced to what the handler can meet: its *)
(* attempts are always read back, a misread being JobQueue's business.     *)
(***************************************************************************)
EXTENDS Naturals, FiniteSets

CONSTANTS Media,        \* media identifiers, all of one owner
          Photos,       \* those with media_type 'photo'
          Posts,        \* create_post calls, each with its post identifier
          NoPost,       \* media_items.post_id IS NULL
          MaxAttempts   \* column max_attempts of the job

ASSUME MediaAssumption ==
    /\ Photos \subseteq Media
    /\ NoPost \notin Posts
    /\ MaxAttempts \in Nat \ {0}

VARIABLES
    owner,     \* the account of the owner exists
    stored,    \* objects in the store, per media
    row,       \* media_items.processing_state, "absent" without a row
    keys,      \* the variants whose keys are in the row
    upload,    \* how far upload_media has come
    job,       \* the processing job
    postOf,    \* media_items.post_id
    post,      \* what each create_post call has done
    unheard    \* history: media completed by a handler that was not told so

items == <<owner, stored, row, keys>>
vars  == <<items, upload, job, postOf, post, unheard>>

Variants == {"thumbnail", "feed", "display"}
Objects  == {"original"} \cup Variants

(* What the row of processed media has keys for. *)
Expected(m) == IF m \in Photos THEN Variants ELSE {}

(* An upload is "cut" when it ends before its job is enqueued.              *)
UploadStates == {"none", "stored", "inserted", "marked", "answered", "cut"}

(* A job waits for a worker, is claimed, has found the row, has written the *)
(* keys, has completed the row, is done or dead, or is left in 'running'.  *)
Stages == {"none", "waiting", "claimed", "found", "described", "finished",
           "done", "dead", "lost"}

Jobs == [at : Stages, tries : 0 .. MaxAttempts]

(* A call takes the media of its list, in any order, and commits.          *)
PostStates == [at : {"none", "taking", "created"},
               list : SUBSET Media, taken : SUBSET Media]

NoCall == [at |-> "none", list |-> {}, taken |-> {}]

TypeOK ==
    /\ owner \in BOOLEAN
    /\ stored \in [Media -> SUBSET Objects]
    /\ row \in [Media -> {"absent", "pending", "processing", "completed"}]
    /\ keys \in [Media -> SUBSET Variants]
    /\ upload \in [Media -> UploadStates]
    /\ job \in [Media -> Jobs]
    /\ postOf \in [Media -> Posts \cup {NoPost}]
    /\ post \in [Posts -> PostStates]
    /\ unheard \in SUBSET Media

Init ==
    /\ owner = TRUE
    /\ stored = [m \in Media |-> {}]
    /\ row = [m \in Media |-> "absent"]
    /\ keys = [m \in Media |-> {}]
    /\ upload = [m \in Media |-> "none"]
    /\ job = [m \in Media |-> [at |-> "none", tries |-> 0]]
    /\ postOf = [m \in Media |-> NoPost]
    /\ post = [p \in Posts |-> NoCall]
    /\ unheard = {}

Uploads(m, at) == upload' = [upload EXCEPT ![m] = at]

JobAt(m, at) == job' = [job EXCEPT ![m] = [at |-> at, tries |-> @.tries]]

(* UPDATE media_items ... WHERE id = $1 is content with a row that is gone. *)
Mark(m, s) == row' = [row EXCEPT ![m] = IF @ = "absent" THEN "absent" ELSE s]

WriteKeys(m) == keys' = [keys EXCEPT ![m] = IF row[m] = "absent" THEN {} ELSE Expected(m)]

-----------------------------------------------------------------------------
(* upload_media *)

StoreOriginal(m) ==
    /\ upload[m] = "none"
    /\ stored' = [stored EXCEPT ![m] = @ \cup {"original"}]
    /\ Uploads(m, "stored")
    /\ UNCHANGED <<owner, row, keys, job, postOf, post, unheard>>

(* The foreign key wants the owner, whose token outlives the account.      *)
InsertRow(m) ==
    /\ upload[m] = "stored"
    /\ owner
    /\ row' = [row EXCEPT ![m] = "pending"]
    /\ Uploads(m, "inserted")
    /\ UNCHANGED <<owner, stored, keys, job, postOf, post, unheard>>

MarkProcessing(m) ==
    /\ upload[m] = "inserted"
    /\ Mark(m, "processing")
    /\ Uploads(m, "marked")
    /\ UNCHANGED <<owner, stored, keys, job, postOf, post, unheard>>

(* Mutant: the job is enqueued before the row is marked. *)
EnqueueEarly(m) ==
    /\ upload[m] \in {"inserted", "marked"}
    /\ job[m].at = "none"
    /\ JobAt(m, "waiting")
    /\ Uploads(m, IF upload[m] = "marked" THEN "answered" ELSE upload[m])
    /\ UNCHANGED <<items, postOf, post, unheard>>

EnqueueProcessing(m) ==
    /\ upload[m] = "marked"
    /\ JobAt(m, "waiting")
    /\ Uploads(m, "answered")
    /\ UNCHANGED <<items, postOf, post, unheard>>

(* An error of the store or the database, a crash, a client that hangs up. *)
UploadFails(m) ==
    /\ upload[m] \in {"stored", "inserted", "marked"}
    /\ Uploads(m, "cut")
    /\ UNCHANGED <<items, job, postOf, post, unheard>>

-----------------------------------------------------------------------------
(* handle_media_processing *)

(* Mutant: a claim does not count as an attempt. *)
ClaimUncounted(m) ==
    /\ job[m].at = "waiting"
    /\ JobAt(m, "claimed")
    /\ UNCHANGED <<items, upload, postOf, post, unheard>>

ClaimJob(m) ==
    /\ job[m].at = "waiting"
    /\ job' = [job EXCEPT ![m] = [at |-> "claimed", tries |-> @.tries + 1]]
    /\ UNCHANGED <<items, upload, postOf, post, unheard>>

(* Otherwise HandlerFails is the only way on. *)
FindRow(m) ==
    /\ job[m].at = "claimed"
    /\ row[m] = "processing"
    /\ "original" \in stored[m]
    /\ JobAt(m, "found")
    /\ UNCHANGED <<items, upload, postOf, post, unheard>>

(* process_image uploads the variants one after the other.                 *)
StoreVariant(m, v) ==
    /\ job[m].at = "found"
    /\ v \in Expected(m)
    /\ v \notin stored[m]
    /\ stored' = [stored EXCEPT ![m] = @ \cup {v}]
    /\ UNCHANGED <<owner, row, keys, upload, job, postOf, post, unheard>>

(* Mutant: the keys are written before the objects. *)
DescribeEarly(m) ==
    /\ job[m].at = "found"
    /\ WriteKeys(m)
    /\ JobAt(m, "described")
    /\ UNCHANGED <<owner, stored, row, upload, postOf, post, unheard>>

(* The UPDATE at the end of process_image, process_video, process_audio.   *)
Describe(m) ==
    /\ job[m].at = "found"
    /\ Expected(m) \subseteq stored[m]
    /\ WriteKeys(m)
    /\ JobAt(m, "described")
    /\ UNCHANGED <<owner, stored, row, upload, postOf, post, unheard>>

Complete(m) ==
    /\ job[m].at = "described"
    /\ Mark(m, "completed")
    /\ JobAt(m, "finished")
    /\ UNCHANGED <<owner, stored, keys, upload, postOf, post, unheard>>

(* The handler has returned Ok, and the worker updates the job.            *)
RecordDone(m) ==
    /\ job[m].at = "finished"
    /\ JobAt(m, "done")
    /\ UNCHANGED <<items, upload, postOf, post, unheard>>

Running == {"claimed", "found", "described"}

Retried(m) == IF job[m].tries >= MaxAttempts THEN "dead" ELSE "waiting"

(* Any statement or object of the handler fails: it starts again.          *)
HandlerFails(m) ==
    /\ job[m].at \in Running
    /\ JobAt(m, Retried(m))
    /\ UNCHANGED <<items, upload, postOf, post, unheard>>

(* The last UPDATE is done, but its answer lost: that is a failure, too.   *)
CompleteUnheard(m) ==
    /\ job[m].at = "described"
    /\ Mark(m, "completed")
    /\ unheard' = unheard \cup {m}
    /\ JobAt(m, Retried(m))
    /\ UNCHANGED <<owner, stored, keys, upload, postOf, post>>

(* The worker dies with the job, or its UPDATE of the job fails: nothing   *)
(* selects a running job again.                                            *)
WorkerLost(m) ==
    /\ job[m].at \in Running \cup {"finished"}
    /\ JobAt(m, "lost")
    /\ UNCHANGED <<items, upload, postOf, post, unheard>>

-----------------------------------------------------------------------------
(* create_post: the owner knows the identifier once upload_media answers.  *)
(* The INSERT of the post, by which it starts, wants the owner's account.  *)

BeginPost(p, L) ==
    /\ post[p] = NoCall
    /\ owner
    /\ L # {}
    /\ \A m \in L : upload[m] = "answered"
    /\ post' = [post EXCEPT ![p] = [at |-> "taking", list |-> L, taken |-> {}]]
    /\ UNCHANGED <<items, upload, job, postOf, unheard>>

(* UPDATE media_items ... waits for another transaction that has the row.  *)
Taken(m) == \E p \in Posts : post[p].at = "taking" /\ m \in post[p].taken

(* Mutant: AND post_id IS NULL is missing. *)
TakeAny(p, m) ==
    /\ post[p].at = "taking"
    /\ m \in post[p].list \ post[p].taken
    /\ ~Taken(m)
    /\ post' = [post EXCEPT ![p] = [at |-> "taking", list |-> @.list,
                                    taken |-> @.taken \cup {m}]]
    /\ UNCHANGED <<items, upload, job, postOf, unheard>>

(* ... WHERE id = $3 AND owner_id = $4 AND post_id IS NULL                  *)
TakeMedia(p, m) ==
    /\ post[p].at = "taking"
    /\ m \in post[p].list \ post[p].taken
    /\ ~Taken(m)
    /\ postOf[m] = NoPost
    /\ post' = [post EXCEPT ![p] = [at |-> "taking", list |-> @.list,
                                    taken |-> @.taken \cup {m}]]
    /\ UNCHANGED <<items, upload, job, postOf, unheard>>

CommitPost(p) ==
    /\ post[p].at = "taking"
    /\ post[p].taken = post[p].list
    /\ postOf' = [m \in Media |-> IF m \in post[p].taken THEN p ELSE postOf[m]]
    /\ post' = [post EXCEPT ![p] = [at |-> "created", list |-> @.list, taken |-> {}]]
    /\ UNCHANGED <<items, upload, job, unheard>>

(* No row, a deadlock, an error or a crash: the transaction rolls back.    *)
PostFails(p) ==
    /\ post[p].at = "taking"
    /\ post' = [post EXCEPT ![p] = NoCall]
    /\ UNCHANGED <<items, upload, job, postOf, unheard>>

-----------------------------------------------------------------------------
(* delete_account waits for the open transactions that insert a post, then *)
(* takes the posts and the media rows away; objects and jobs stay.         *)
DeleteAccount ==
    /\ owner
    /\ \A p \in Posts : post[p].at # "taking"
    /\ owner' = FALSE
    /\ row' = [m \in Media |-> "absent"]
    /\ keys' = [m \in Media |-> {}]
    /\ postOf' = [m \in Media |-> NoPost]
    /\ post' = [p \in Posts |-> NoCall]
    /\ UNCHANGED <<stored, upload, job, unheard>>

-----------------------------------------------------------------------------
HandlerStep(m) ==
    \/ ClaimJob(m) \/ FindRow(m) \/ Describe(m) \/ Complete(m) \/ RecordDone(m)
    \/ HandlerFails(m) \/ CompleteUnheard(m) \/ WorkerLost(m)
    \/ \E v \in Variants : StoreVariant(m, v)

Next ==
    \/ \E m \in Media :
          \/ StoreOriginal(m) \/ InsertRow(m) \/ MarkProcessing(m)
          \/ EnqueueProcessing(m) \/ UploadFails(m)
          \/ HandlerStep(m)
    \/ \E p \in Posts :
          \/ \E L \in SUBSET Media : BeginPost(p, L)
          \/ \E m \in Media : TakeMedia(p, m)
          \/ CommitPost(p) \/ PostFails(p)
    \/ DeleteAccount

Spec == Init /\ [][Next]_vars

(* A worker claims every due job in the end and its handlers return.       *)
FairSpec == Spec /\ \A m \in Media : WF_vars(HandlerStep(m))

-----------------------------------------------------------------------------
(* download_media, for those who may see the media. *)
Downloadable(m) == row[m] = "completed"

Served(m, variant) == IF variant \in keys[m] THEN variant ELSE "original"

(* Whatever variant of completed media a client asks for, the object it is *)
(* served is in the store, and of a photo it is that variant and not the   *)
(* original, whatever attempts failed before.  No key is ahead of its      *)
(* object, either, while the media are processed.                          *)
KeysAreStored ==
    \A m \in Media :
        /\ keys[m] \subseteq stored[m]
        /\ Downloadable(m) =>
              \A v \in Objects :
                 /\ Served(m, v) \in stored[m]
                 /\ m \in Photos => Served(m, v) = v

(* The handler finds the row in the state it asks for: a job that is alive *)
(* has media to process, one that is done has processed it, and one that   *)
(* died has not, unless it completed the row without learning so.  Nothing *)
(* that is still under way brings back a row that went with its owner.     *)
RowIs(m, s) == row[m] = IF owner THEN s ELSE "absent"

JobsMatchRows ==
    \A m \in Media \ unheard :
        /\ job[m].at \in {"waiting", "dead"} \cup Running => RowIs(m, "processing")
        /\ job[m].at \in {"finished", "done"} => RowIs(m, "completed")

(* A post gets all media of its list and keeps them: no other post takes   *)
(* one, however the calls overlap, and none goes to a post that failed.    *)
PostsAreWhole ==
    \A m \in Media, p \in Posts :
        postOf[m] = p <=> post[p].at = "created" /\ m \in post[p].list

(* Media whose upload was answered do not stay in processing: the row is   *)
(* completed, the job dies, or it is lost with its worker.  A row that its *)
(* owner's deletion took away does not keep the job busy, either.          *)
AnsweredSettles ==
    \A m \in Media :
        upload[m] = "answered" ~> \/ row[m] = "completed"
                                  \/ job[m].at \in {"dead", "lost"}
                                  \/ row[m] = "absent" /\ job[m].at = "done"

(* The processing job as the queue sees it. *)
JobStatus(m) ==
    IF job[m].at = "none" THEN "absent"
    ELSE IF job[m].at \in Running \cup {"finished"} THEN "held"
    ELSE IF job[m].at = "done" THEN "completed" ELSE job[m].at

Lifecycle == INSTANCE JobLifecycle WITH Jobs <- Media,
                                        status <- [m \in Media |-> JobStatus(m)],
                                        tries <- [m \in Media |-> job[m].tries]

(* The processing job lives as JobQueue was shown to let a job live.       *)
ImplementsLifecycle == Lifecycle!Spec
=============================================================================
