---------------------------- MODULE DiscoveryCache ----------------------------
(***************************************************************************)
(* Discovery service: public reads of programs and episodes, answered from *)
(* Redis and, on a miss, from the database of the CMS service.             *)
(*                                                                         *)
(* A request asks Redis, then (for trending and popular lists) DynamoDB,   *)
(* then the database, and puts what it read into Redis; these are awaits,  *)
(* so the data may change in between.  The consumer of the content events  *)
(* deletes three keys per event, one await each.  A row is abstracted to   *)
(* its status and a version, and a list to the rows it is made of.         *)
(***************************************************************************)
EXTENDS Naturals, Sequences, FiniteSets, Functions

CONSTANTS
    Programs,       \* program ids
    Kinds,          \* bound: the kinds of keys that are asked for
    Readers,        \* bound: requests under way at once
    MaxChanges,     \* bound: changes of the CMS database
    MaxFailures,    \* bound: lost events, Redis errors and restarts
    DynamoEnabled,  \* DYNAMODB_ENABLED
    None

AllKinds == {"program", "episodes", "programs", "search",
             "trending10", "trending", "popular10", "popular"}

\* An event's key is the program's id, so a partition holds the events of one
\* topic about one program.  (content.deleted is subscribed to, never sent.)
Topics == {"content.updated", "content.published"}
Partitions == Topics \X Programs

ASSUME DiscoveryAssumption ==
    /\ Kinds \subseteq AllKinds
    /\ MaxChanges \in Nat /\ MaxFailures \in Nat
    /\ DynamoEnabled \in BOOLEAN
    /\ None \notin Programs \cup Partitions

VARIABLES
    program, episodes,  \* the CMS database: program -> row or None; program ->
                        \* version of its published episodes
    changes,            \* changes made so far, also the next version
    unsent, queue,      \* partition -> events the CMS has still to send; events
                        \* not taken
    handled, committed, \* partition -> events handled since its offset was last
                        \* committed; partitions with a committed offset
    handling, deleting, \* partition of the event in hand or None; the keys it
                        \* has still to delete
    redis,              \* key -> entry or None
    hot,                \* DynamoDB: kind -> rows of its list ({}: no items)
    req,                \* requests under way
    failures

db == <<program, episodes, changes>>
topic == <<queue, handled, committed>>
consumer == <<topic, handling, deleting>>
vars == <<db, unsent, consumer, redis, hot, req, failures>>

-----------------------------------------------------------------------------
Status == {"DRAFT", "PUBLISHED", "ARCHIVED"}
Versions == 0..MaxChanges
Row == [status : Status, version : Versions]

\* CacheKeys: one key per program, or one per list (for the page, limit and
\* query this model asks for; trending10 is the default limit, trending another).
Key == {k \in [kind : Kinds, of : Programs \cup {None}] :
           (k.of # None) = (k.kind \in {"program", "episodes"})}
ListKinds == {"trending10", "trending", "popular10", "popular"}

Rows == SUBSET (Programs \X Row)

\* What may be kept under key k.
ValueOf(k) == CASE k.kind = "program" -> Row
                [] k.kind = "episodes" -> Versions
                [] OTHER -> Rows

\* findPrograms, search, findTrending and findPopular: published programs only,
\* whatever content type was asked for.
PublishedRows ==
    {<<p, program[p]>> : p \in {x \in Programs : program[x] # None
                                                /\ program[x].status = "PUBLISHED"}}

\* findProgramById, findEpisodesByProgramId or a list: what the database holds.
Current(k) == CASE k.kind = "program" -> program[k.of]
                [] k.kind = "episodes" -> episodes[k.of]
                [] OTHER -> PublishedRows

\* doubt (history): nothing will delete this entry for being stale, since the
\* data changed while its reader held it, or changed later without an event
\* or with one that was lost, skipped or whose handling failed.
Entry(k) == [value : ValueOf(k), doubt : BOOLEAN]

\* A request for k, before and after it has found something.
Request(k) ==
    LET hotPc(pc) == IF k.kind \in ListKinds THEN {pc} ELSE {}   \* lists only
    IN [pc : {"database"} \cup hotPc("hot"), key : {k}, value : {None}]
       \cup [pc : {"set"} \cup hotPc("storeHot"), key : {k}, value : ValueOf(k)]

Init ==
    /\ program \in [Programs -> {None} \cup [status : {"DRAFT", "PUBLISHED"}, version : {0}]]
    /\ episodes = [p \in Programs |-> 0]
    /\ changes = 0
    /\ unsent = [x \in Partitions |-> 0] /\ queue = unsent
    /\ handled = unsent /\ committed = {} /\ handling = None /\ deleting = <<>>
    /\ redis = [k \in Key |-> None]
    /\ hot = [kind \in Kinds \cap ListKinds |-> {}]
    /\ req = [r \in Readers |-> None]
    /\ failures = 0

-----------------------------------------------------------------------------
(* The CMS service                                                         *)

\* Entries of the keys K are stale for good, but for their TTL.
Doubt(K) == redis' = [k \in Key |-> IF k \in K /\ redis[k] # None
                                    THEN [redis[k] EXCEPT !.doubt = TRUE] ELSE redis[k]]

KeysAbout(p) == {k \in Key : k.kind # "episodes" /\ k.of \in {p, None}}

Write(p, row) ==
    /\ changes < MaxChanges /\ changes' = changes + 1
    /\ program' = [program EXCEPT ![p] = row]
    /\ UNCHANGED episodes

\* The rows a handler may write over the row of p: no transition leads to
\* ARCHIVED, or from it.
Rewritten(p) ==
    {[status |-> status, version |-> changes + 1] : status \in
        IF program[p].status = "ARCHIVED" THEN {"ARCHIVED"} ELSE {"DRAFT", "PUBLISHED"}}

\* A write the CMS service announces afterwards: update and publish.
ChangeProgram(p) ==
    /\ program[p] # None
    /\ \E t \in Topics, row \in Rewritten(p) :
          /\ t = "content.published" => row.status = "PUBLISHED"
          /\ Write(p, row)
          /\ unsent' = [unsent EXCEPT ![<<t, p>>] = @ + 1]
    /\ UNCHANGED <<consumer, redis, hot, req, failures>>

\* A write no subscribed event follows: creation, unpublish, an update that saw
\* no difference to the row it had read, and deletion.
ChangeProgramSilently(p) ==
    /\ \/ program[p] = None /\ \E status \in Status :
             Write(p, [status |-> status, version |-> changes + 1])
       \/ program[p] # None /\ \E row \in Rewritten(p) : Write(p, row)
       \/ program[p] # None /\ Write(p, None)
    /\ Doubt(KeysAbout(p))
    /\ UNCHANGED <<unsent, consumer, hot, req, failures>>

\* An event about an episode is not handled (contentType EPISODE).
ChangeEpisodes(p) ==
    /\ program[p] # None
    /\ changes < MaxChanges /\ changes' = changes + 1
    /\ episodes' = [episodes EXCEPT ![p] = changes + 1]
    /\ Doubt({k \in Key : k.kind = "episodes" /\ k.of = p})
    /\ UNCHANGED <<program, unsent, consumer, hot, req, failures>>

SendEvent(x) ==
    /\ unsent[x] > 0 /\ unsent' = [unsent EXCEPT ![x] = @ - 1]
    /\ queue' = [queue EXCEPT ![x] = @ + 1]
    /\ UNCHANGED <<db, handled, committed, handling, deleting, redis, hot, req, failures>>

\* The CMS service stops, or Kafka refuses the event.
EventLost(x) ==
    /\ failures < MaxFailures /\ failures' = failures + 1
    /\ unsent[x] > 0 /\ unsent' = [unsent EXCEPT ![x] = @ - 1]
    /\ Doubt(KeysAbout(x[2]))
    /\ UNCHANGED <<db, consumer, hot, req>>

-----------------------------------------------------------------------------
(* The consumer                                                            *)

\* invalidateProgramCache: the keys, in this order.
KeysToDelete(p) == <<[kind |-> "program", of |-> p],
                     [kind |-> "trending10", of |-> None],
                     [kind |-> "popular10", of |-> None]>>

InvalidatedKinds == {"program", "trending10", "popular10"}

TakeEvent(x) ==
    /\ handling = None
    /\ queue[x] > 0 /\ queue' = [queue EXCEPT ![x] = @ - 1]
    /\ handling' = x
    /\ deleting' = KeysToDelete(x[2])
    /\ UNCHANGED <<db, unsent, handled, committed, redis, hot, req, failures>>

EventDone ==
    /\ handled' = [handled EXCEPT ![handling] = @ + 1]
    /\ handling' = None

DeleteKey ==
    /\ deleting # <<>>
    /\ redis' = [k \in Key |-> IF k = Head(deleting) THEN None ELSE redis[k]]
    /\ deleting' = Tail(deleting)
    /\ IF Len(deleting) = 1 THEN EventDone ELSE UNCHANGED <<handled, handling>>
    /\ UNCHANGED <<db, unsent, queue, committed, hot, req, failures>>

\* del() fails: the error is logged, the remaining keys stay and the message
\* counts as handled.
DeleteFails ==
    /\ deleting # <<>>
    /\ failures < MaxFailures /\ failures' = failures + 1
    /\ Doubt(Range(deleting))
    /\ deleting' = <<>>
    /\ EventDone
    /\ UNCHANGED <<db, unsent, queue, committed, hot, req>>

\* Between two messages the consumer commits what it has handled.
CommitOffsets ==
    /\ handling = None
    /\ \E x \in Partitions : handled[x] > 0
    /\ committed' = committed \cup {x \in Partitions : handled[x] > 0}
    /\ handled' = [x \in Partitions |-> 0]
    /\ UNCHANGED <<db, unsent, queue, handling, deleting, redis, hot, req, failures>>

\* Events of x that no offset covers.
Uncommitted(x) == queue[x] + handled[x] + IF handling = x THEN 1 ELSE 0

\* Mutant of Redelivered: the event in hand counts as handled when taken.
RedeliveredButInHand(x) == IF x \in committed THEN queue[x] + handled[x] ELSE 0

\* What a restarted consumer is given of x: where nothing was committed yet it
\* reads what comes next, since subscribe() does not ask for fromBeginning.
Redelivered(x) == IF x \in committed THEN Uncommitted(x) ELSE 0

\* Keys whose deletion is skipped by a restart.
Skipped ==
    {k \in Key : \/ \E x \in Partitions \ committed : queue[x] > 0 /\ k \in KeysAbout(x[2])
                 \/ handling \notin committed /\ k \in Range(deleting)}

\* The process stops and starts again: requests are gone.
Restart ==
    /\ failures < MaxFailures /\ failures' = failures + 1
    /\ queue' = [x \in Partitions |-> Redelivered(x)]
    /\ handled' = [x \in Partitions |-> 0]
    /\ handling' = None /\ deleting' = <<>>
    /\ Doubt(Skipped)
    /\ req' = [r \in Readers |-> None]
    /\ UNCHANGED <<db, unsent, committed, hot>>

-----------------------------------------------------------------------------
(* Requests                                                                *)

End(r) == req' = [req EXCEPT ![r] = None]

\* A miss: trending and popular lists try DynamoDB before the database.
Get(r, k) ==
    /\ req[r] = None
    /\ redis[k] = None   \* a hit is answered without any change
    /\ req' = [req EXCEPT ![r] =
          [pc |-> IF DynamoEnabled /\ k.kind \in ListKinds THEN "hot" ELSE "database",
           key |-> k, value |-> None]]
    /\ UNCHANGED <<db, unsent, consumer, redis, hot, failures>>

\* getTrending, getPopular: no items, or an error, count as a miss.
QueryHot(r) ==
    /\ req[r] # None /\ req[r].pc = "hot"
    /\ req' = [req EXCEPT ![r] =
          IF hot[req[r].key.kind] = {} THEN [@ EXCEPT !.pc = "database"]
          ELSE [@ EXCEPT !.pc = "set", !.value = hot[req[r].key.kind]]]
    /\ UNCHANGED <<db, unsent, consumer, redis, hot, failures>>

\* Mutant of Cached: that there is no such program is remembered too.
CachedAlways(value) == TRUE

\* A program that does not exist is not cached.
Cached(value) == value # None

ReadDatabase(r) ==
    /\ req[r] # None /\ req[r].pc = "database"
    /\ LET k == req[r].key IN
       IF ~Cached(Current(k)) THEN End(r)
       ELSE req' = [req EXCEPT ![r] =
               [pc |-> IF DynamoEnabled /\ k.kind \in ListKinds THEN "storeHot" ELSE "set",
                key |-> k, value |-> Current(k)]]
    /\ UNCHANGED <<db, unsent, consumer, redis, hot, failures>>

\* The columns of the programs table, and what an item of the DynamoDB table is
\* built from; the client is not told to leave undefined fields out.
ProgramColumns == {"id", "title", "description", "status", "metadataId",
                   "createdAt", "updatedAt", "publishedAt"}
ItemFields == {"id", "title", "description", "category", "language", "status",
               "createdAt", "updatedAt"}

\* The put of an item with an undefined field is refused.
PutAccepted == ItemFields \subseteq ProgramColumns

\* storeTrending, storePopular: the old items are deleted, then the new ones put;
\* an error is logged and the request goes on.
StoreHot(r) ==
    /\ req[r] # None /\ req[r].pc = "storeHot"
    /\ hot' = [hot EXCEPT ![req[r].key.kind] = IF PutAccepted THEN req[r].value ELSE {}]
    /\ req' = [req EXCEPT ![r].pc = "set"]
    /\ UNCHANGED <<db, unsent, consumer, redis, failures>>

Set(r) ==
    /\ req[r] # None /\ req[r].pc = "set"
    /\ redis' = [redis EXCEPT ![req[r].key] =
          [value |-> req[r].value, doubt |-> req[r].value # Current(req[r].key)]]
    /\ End(r)
    /\ UNCHANGED <<db, unsent, consumer, hot, failures>>

\* Seconds an entry is kept; 0 would mean for ever.
Ttl(kind) == IF kind = "search" THEN 60 ELSE 300

\* Redis drops an entry when its TTL is over, however long that takes here.
Expire(k) ==
    /\ redis[k] # None
    /\ Ttl(k.kind) > 0
    /\ redis' = [redis EXCEPT ![k] = None]
    /\ UNCHANGED <<db, unsent, consumer, hot, req, failures>>

-----------------------------------------------------------------------------
CmsStep ==
    \/ \E p \in Programs : ChangeProgram(p) \/ ChangeProgramSilently(p) \/ ChangeEpisodes(p)
    \/ \E x \in Partitions : SendEvent(x) \/ EventLost(x)
ConsumerStep ==
    \/ \E x \in Partitions : TakeEvent(x)
    \/ DeleteKey \/ DeleteFails \/ CommitOffsets \/ Restart
RequestStep(r) == QueryHot(r) \/ ReadDatabase(r) \/ StoreHot(r) \/ Set(r)

Next ==
    \/ CmsStep
    \/ ConsumerStep
    \/ \E r \in Readers, k \in Key : Get(r, k)
    \/ \E r \in Readers : RequestStep(r)
    \/ \E k \in Key : Expire(k)

Spec == Init /\ [][Next]_vars

-----------------------------------------------------------------------------
\* The variables keep their types.
TypeOK ==
    /\ program \in [Programs -> Row \cup {None}]
    /\ episodes \in [Programs -> Versions] /\ changes \in Versions
    /\ unsent \in [Partitions -> Versions]
    /\ queue \in [Partitions -> Nat] /\ handled \in [Partitions -> Nat]
    /\ committed \subseteq Partitions /\ handling \in Partitions \cup {None}
    /\ deleting \in Seq([kind : InvalidatedKinds, of : Programs \cup {None}])
    /\ DOMAIN redis = Key
    /\ \A k \in Key : redis[k] \in Entry(k) \cup {None}
    /\ hot \in [Kinds \cap ListKinds -> Rows]
    /\ DOMAIN req = Readers
    /\ \A r \in Readers : req[r] # None =>
          req[r].key \in Key /\ req[r] \in Request(req[r].key)
    /\ failures \in 0..MaxFailures

Stale(k) == redis[k] # None /\ redis[k].value # Current(k)

\* Will the entry of k be deleted for a change that was announced?
DeletionComes(k) ==
    \/ \E x \in Partitions : unsent[x] + queue[x] > 0 /\ k \in Range(KeysToDelete(x[2]))
    \/ k \in Range(deleting)

\* For the keys the consumer deletes, an announced change never leaves a stale
\* entry behind: it is on its way out, unless a slow reader put it there after
\* the deletion, or the change was silent, or its event was lost or skipped; a
\* restart between two deletions of an event with a committed offset is no excuse.
AnnouncedChangeShows ==
    \A k \in Key : k.kind \in InvalidatedKinds /\ Stale(k) /\ ~redis[k].doubt
                   => DeletionComes(k)

-----------------------------------------------------------------------------
(* Statements of the repository that do not hold (README.md, section 7)    *)

\* kafka.service.ts:9 "Listens to content update events and invalidates cache":
\* with every event handled no program entry is stale.
NoStaleAfterEvents ==
    (\A x \in Partitions : unsent[x] + Uncommitted(x) = 0) => \A k \in Key : k.kind = "program" => ~Stale(k)

\* discovery.service.ts "Store in both DynamoDB and Redis": a list that was read
\* from the database and put into Redis is in DynamoDB.
HotTierFilled ==
    \A k \in Key : k.kind \in ListKinds /\ redis[k] # None /\ redis[k].value # {}
                   => hot[k.kind] # {}
=============================================================================
