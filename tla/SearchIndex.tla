----------------------------- MODULE SearchIndex -----------------------------
(***************************************************************************)
(* Search service: the index of content titles, kept in DynamoDB and in    *)
(* PostgreSQL, fed by the content events, by a full reindex and by hand.   *)
(*                                                                         *)
(* A title is abstracted to the version of the content it belongs to; 0    *)
(* stands for a title an editor indexed by hand.  indexContent() puts an   *)
(* entry into DynamoDB and only when that fails into PostgreSQL; each of   *)
(* the two writes is a step, so that the writers interleave.               *)
(***************************************************************************)
EXTENDS Naturals, Sequences, FiniteSets

CONSTANTS
    ProgramIds, EpisodeIds,
    Stored,         \* content older than the index, its events no longer in the log
    MaxChanges,     \* bound: events the CMS service sends, and POST /search/index
    MaxFailures,    \* bound: store failures and restarts
    MaxReindexes,   \* bound: full reindexes
    Page,           \* rows one GET of the CMS service returns: 1000
    BatchSize,      \* puts of one batchWrite chunk: 25
    DynamoEnabled,  \* DYNAMODB_ENABLED
    None

ASSUME SearchIndexAssumption ==
    /\ ProgramIds \cap EpisodeIds = {} /\ Stored \subseteq ProgramIds \cup EpisodeIds
    /\ IsFiniteSet(ProgramIds) /\ IsFiniteSet(EpisodeIds)
    /\ {MaxChanges, MaxFailures, MaxReindexes, Page} \subseteq Nat
    /\ BatchSize \in Nat \ {0}
    /\ DynamoEnabled \in BOOLEAN

VARIABLES
    content, latest,   \* CMS: version of each content (0: no row), and the last
                       \* version it ever had
    log, next, committed,  \* topic -> id -> events; next event to read; the
                           \* offset committed (0: none was)
    uncommitted,       \* topics and ids of which events were handled since the
                       \* last commit, or since the start
    table,             \* the DynamoDB table: "none", "given" (made beforehand, as
                       \* docs/AWS_DEPLOYMENT.md says) or "own" (by ensureTable())
    dynamo, postgres,  \* the two stores: id -> entry or None
    call,              \* writer -> its call of indexContent()
    reindex,           \* reindexAll()
    strays,            \* puts of a batch that was given up, still under way
    failures, reindexes,
    changes,           \* events sent by the CMS and entries made by hand
    calm               \* history: nothing but the reindex happened since its start

cms == <<content, latest>>
consumed == <<next, committed, uncommitted>>
stores == <<dynamo, postgres>>
budgets == <<failures, reindexes, changes>>
vars == <<cms, log, consumed, table, stores, call, reindex, strays, budgets, calm>>

-----------------------------------------------------------------------------
Ids == ProgramIds \cup EpisodeIds
Topics == {"content.created", "content.updated", "content.published"}
Writers == {"consumer", "reindex", "hand"}
Versions == 0..(MaxChanges + 1)

Tables == {"none", "given", "own"}

\* category: does the entry name one?  Only an entry made by hand does.
Entry == [version : Versions, from : Topics \cup {"reindex", "hand"},
          category : BOOLEAN]
Item == [id : Ids, version : Versions]

Call == [pc : {"dynamo", "postgres"}, id : Ids, entry : Entry]

\* None is no value of the code.
ASSUME NoneIsNothing == None \notin Entry \cup Call

\* todo: rows fetched and not yet indexed; batch: indexed, to be written once
\* more; waiting: puts of the chunk under way.
Reindex == [pc : {"idle", "programs", "episodes", "items", "batch"},
            fetched : SUBSET {"programs", "episodes"},
            todo : SUBSET Item, batch : SUBSET Item, waiting : SUBSET Item]
NoReindex == [pc |-> "idle", fetched |-> {}, todo |-> {}, batch |-> {},
              waiting |-> {}]

Init ==
    /\ content = [c \in Ids |-> IF c \in Stored THEN 1 ELSE 0]
    /\ latest = content
    /\ log = [t \in Topics |-> [c \in Ids |-> <<>>]]
    /\ next = [t \in Topics |-> [c \in Ids |-> 1]]
    /\ committed = [t \in Topics |-> [c \in Ids |-> 0]]
    /\ uncommitted = {}
    /\ table \in (IF DynamoEnabled THEN {"none", "given"} ELSE {"none"})
    /\ dynamo = [c \in Ids |-> None]
    /\ postgres = [c \in Ids |-> None]
    /\ call = [w \in Writers |-> None]
    /\ reindex = NoReindex
    /\ strays = {}
    /\ failures = 0 /\ reindexes = 0 /\ changes = 0
    /\ calm = FALSE

-----------------------------------------------------------------------------
(* The CMS service, as the search service sees it                          *)

\* A new version of c is stored and announced on topic t.
Announce(c, t) ==
    /\ changes < MaxChanges /\ changes' = changes + 1
    /\ latest' = [latest EXCEPT ![c] = @ + 1]
    /\ content' = [content EXCEPT ![c] = latest[c] + 1]
    /\ log' = [log EXCEPT ![t][c] = Append(@, latest[c] + 1)]
    /\ calm' = FALSE
    /\ UNCHANGED <<consumed, table, stores, call, reindex, strays, failures, reindexes>>

CreateContent(c) == latest[c] = 0 /\ Announce(c, "content.created")
UpdateContent(c) == content[c] # 0 /\ Announce(c, "content.updated")
PublishContent(c) ==
    /\ c \in ProgramIds /\ content[c] # 0
    /\ Announce(c, "content.published")

\* A deletion is not announced.
DeleteContent(c) ==
    /\ content[c] # 0
    /\ content' = [content EXCEPT ![c] = 0]
    /\ calm' = FALSE
    /\ UNCHANGED <<latest, log, consumed, table, stores, call, reindex, strays,
                   budgets>>

-----------------------------------------------------------------------------
(* indexContent                                                            *)

\* Where a call of indexContent() begins.
FirstStore == IF DynamoEnabled THEN "dynamo" ELSE "postgres"

NewCall(c, version, from, category) ==
    [pc |-> FirstStore, id |-> c,
     entry |-> [version |-> version, from |-> from, category |-> category]]

\* The own table has an index on category, and DynamoDB refuses an item whose
\* category is null there; the given table has none on category.
Accepts(category) == table = "given" \/ (table = "own" /\ category)

\* A put fails: always when the table does not take the item.
PutIsRefused(category) ==
    \/ ~Accepts(category) /\ UNCHANGED failures
    \/ /\ Accepts(category)
       /\ failures < MaxFailures /\ failures' = failures + 1

\* The reindex takes note of the item its call was for.
AfterItem(ok) ==
    LET item == [id |-> call["reindex"].id, version |-> call["reindex"].entry.version]
    IN IF ok THEN [reindex EXCEPT !.todo = @ \ {item}, !.batch = @ \cup {item}]
       ELSE [reindex EXCEPT !.todo = @ \ {item}]

\* Mutant of AfterEvent: the position moves by the batch, not by the message.
AfterEventSkips(ok) ==
    LET e == call["consumer"]
    IN [next EXCEPT ![e.entry.from][e.id] = @ + 2]

\* eachMessage ends: an error was logged and swallowed, so the next message
\* is read either way.
AfterEvent(ok) ==
    LET e == call["consumer"]
    IN [next EXCEPT ![e.entry.from][e.id] = @ + 1]

\* indexContent() returns (ok) or throws, and its caller carries on.
EndCall(w, ok) ==
    /\ call' = [call EXCEPT ![w] = None]
    /\ reindex' = IF w = "reindex" THEN AfterItem(ok) ELSE reindex
    /\ next' = IF w = "consumer" THEN AfterEvent(ok) ELSE next
    /\ uncommitted' = IF w = "consumer"
                      THEN uncommitted \cup {<<call[w].entry.from, call[w].id>>}
                      ELSE uncommitted
    /\ calm' = (calm /\ w = "reindex" /\ ok)

\* DynamoDBService.putItem: the whole item is replaced.
PutDynamo(c, entry) == dynamo' = [dynamo EXCEPT ![c] = entry]

DynamoWrite(w) ==
    /\ call[w] # None /\ call[w].pc = "dynamo"
    /\ Accepts(call[w].entry.category)
    /\ PutDynamo(call[w].id, call[w].entry)
    /\ EndCall(w, TRUE)
    /\ UNCHANGED <<cms, log, committed, table, postgres, strays, budgets>>

\* indexContent() goes on with the fallback.
AfterPutFails(w) == call' = [call EXCEPT ![w].pc = "postgres"]

\* The put fails: upsert() logs it and returns null.
DynamoWriteFails(w) ==
    /\ call[w] # None /\ call[w].pc = "dynamo"
    /\ PutIsRefused(call[w].entry.category)
    /\ AfterPutFails(w)
    /\ calm' = FALSE
    /\ UNCHANGED <<cms, log, consumed, table, stores, reindex, strays, reindexes,
                   changes>>

PostgresWrite(w) ==
    /\ call[w] # None /\ call[w].pc = "postgres"
    /\ postgres' = [postgres EXCEPT ![call[w].id] = call[w].entry]
    /\ EndCall(w, TRUE)
    /\ UNCHANGED <<cms, log, committed, table, dynamo, strays, budgets>>

PostgresWriteFails(w) ==
    /\ call[w] # None /\ call[w].pc = "postgres"
    /\ failures < MaxFailures /\ failures' = failures + 1
    /\ EndCall(w, FALSE)
    /\ UNCHANGED <<cms, log, committed, table, stores, strays, reindexes, changes>>

-----------------------------------------------------------------------------
(* The Kafka consumer: one message at a time, of any topic and partition   *)

Consume(t, c) ==
    /\ call["consumer"] = None
    /\ next[t][c] <= Len(log[t][c])
    /\ call' = [call EXCEPT !["consumer"] = NewCall(c, log[t][c][next[t][c]], t, FALSE)]
    /\ calm' = FALSE
    /\ UNCHANGED <<cms, log, consumed, table, stores, reindex, strays, budgets>>

\* Offsets are committed at the end of a batch of messages, of the partitions
\* messages were handled of.
CommitOffsets ==
    /\ call["consumer"] = None
    /\ uncommitted # {}
    /\ committed' = [t \in Topics |-> [c \in Ids |->
                       IF <<t, c>> \in uncommitted THEN next[t][c]
                       ELSE committed[t][c]]]
    /\ uncommitted' = {}
    /\ UNCHANGED <<cms, log, next, table, stores, call, reindex, strays, budgets, calm>>

\* ensureTable() creates a missing table; when that fails the service starts
\* without it.
TableAfterStart == IF DynamoEnabled /\ table = "none" THEN {"none", "own"}
                   ELSE {table}

\* Mutants of ReplayFrom: the group is a new one after every start and reads
\* from the beginning, or from what comes next.
ReplayFromBeginning == [t \in Topics |-> [c \in Ids |-> 1]]
ReplayFromLatest == [t \in Topics |-> [c \in Ids |-> Len(log[t][c]) + 1]]

\* Where a restarted consumer goes on: where nothing was committed yet, it
\* reads what comes next, since subscribe() does not ask for fromBeginning.
ReplayFrom ==
    [t \in Topics |-> [c \in Ids |->
        IF committed[t][c] = 0 THEN Len(log[t][c]) + 1 ELSE committed[t][c]]]

\* The process stops and starts again: calls and the reindex are forgotten,
\* puts already sent may still arrive, messages since the last commit are
\* delivered again.  A partition of a topic holds the events of one content.
Restart ==
    /\ failures < MaxFailures /\ failures' = failures + 1
    /\ call' = [w \in Writers |-> None]
    /\ reindex' = NoReindex
    /\ strays' = strays \cup reindex.waiting
    /\ next' = ReplayFrom
    /\ uncommitted' = {}
    /\ table' \in TableAfterStart
    /\ calm' = FALSE
    /\ UNCHANGED <<cms, log, committed, stores, reindexes, changes>>

-----------------------------------------------------------------------------
(* POST /search/index                                                      *)

IndexByHand(c) ==
    /\ call["hand"] = None
    /\ changes < MaxChanges /\ changes' = changes + 1
    /\ \E category \in BOOLEAN :
          call' = [call EXCEPT !["hand"] = NewCall(c, 0, "hand", category)]
    /\ calm' = FALSE
    /\ UNCHANGED <<cms, log, consumed, table, stores, reindex, strays, failures,
                   reindexes>>

-----------------------------------------------------------------------------
(* POST /search/reindex                                                    *)

\* Refused while one is in progress.
StartReindex ==
    /\ reindex.pc = "idle" /\ call["reindex"] = None
    /\ reindexes < MaxReindexes /\ reindexes' = reindexes + 1
    /\ reindex' = [NoReindex EXCEPT !.pc = "programs"]
    /\ calm' = (call["consumer"] = None /\ call["hand"] = None /\ strays = {})
    /\ UNCHANGED <<cms, log, consumed, table, stores, call, strays, failures, changes>>

\* Mutant of FetchedRows: the take parameter is lost.
FetchedRowsNoTake(kind) ==
    {{}} \cup {{[id |-> c, version |-> content[c]]} :
                  c \in {x \in kind : content[x] # 0}}

\* The answers of the CMS service: all rows, or a page of them.
FetchedRows(kind) ==
    LET rows == {[id |-> c, version |-> content[c]] :
                   c \in {x \in kind : content[x] # 0}}
    IN {S \in SUBSET rows : Cardinality(S) =
          IF Cardinality(rows) < Page THEN Cardinality(rows) ELSE Page}

KindOf(pc) == IF pc = "programs" THEN ProgramIds ELSE EpisodeIds

Fetch ==
    /\ reindex.pc \in {"programs", "episodes"}
    /\ \E rows \in FetchedRows(KindOf(reindex.pc)) :
          reindex' = [reindex EXCEPT !.pc = "items", !.todo = rows,
                                     !.fetched = @ \cup {reindex.pc}]
    /\ UNCHANGED <<cms, log, consumed, table, stores, call, strays, budgets, calm>>

\* The request to the CMS service fails: counted as one error.
FetchFails ==
    /\ reindex.pc \in {"programs", "episodes"}
    /\ failures < MaxFailures /\ failures' = failures + 1
    /\ reindex' = [reindex EXCEPT !.pc = "items", !.fetched = @ \cup {reindex.pc}]
    /\ calm' = FALSE
    /\ UNCHANGED <<cms, log, consumed, table, stores, call, strays, reindexes, changes>>

IndexItem ==
    /\ reindex.pc = "items" /\ call["reindex"] = None
    /\ \E item \in reindex.todo :
          call' = [call EXCEPT !["reindex"] =
                      NewCall(item.id, item.version, "reindex", FALSE)]
    /\ UNCHANGED <<cms, log, consumed, table, stores, reindex, strays, budgets, calm>>

\* All rows are dealt with: the episodes come next, then the batch write.
ItemsDone ==
    /\ reindex.pc = "items" /\ call["reindex"] = None /\ reindex.todo = {}
    /\ reindex' = IF "episodes" \notin reindex.fetched
                  THEN [reindex EXCEPT !.pc = "episodes"]
                  ELSE IF DynamoEnabled THEN [reindex EXCEPT !.pc = "batch"]
                  ELSE NoReindex
    /\ UNCHANGED <<cms, log, consumed, table, stores, call, strays, budgets, calm>>

\* batchWrite(): the puts of a chunk are sent together.
SendChunk ==
    /\ reindex.pc = "batch" /\ reindex.waiting = {} /\ reindex.batch # {}
    /\ \E chunk \in SUBSET reindex.batch :
          /\ Cardinality(chunk) = IF Cardinality(reindex.batch) < BatchSize
                                  THEN Cardinality(reindex.batch) ELSE BatchSize
          /\ reindex' = [reindex EXCEPT !.batch = @ \ chunk, !.waiting = chunk]
    /\ UNCHANGED <<cms, log, consumed, table, stores, call, strays, budgets, calm>>

\* A put of the batch is carried out, perhaps after the reindex gave up.
PutLands ==
    /\ Accepts(FALSE)
    /\ \E item \in reindex.waiting \cup strays :
          /\ dynamo' = [dynamo EXCEPT ![item.id] =
                           [version |-> item.version, from |-> "reindex",
                            category |-> FALSE]]
          /\ \/ /\ item \in reindex.waiting
                /\ reindex' = [reindex EXCEPT !.waiting = @ \ {item}]
                /\ UNCHANGED <<strays, calm>>
             \/ /\ item \in strays
                /\ strays' = strays \ {item}
                /\ calm' = FALSE
                /\ UNCHANGED reindex
    /\ UNCHANGED <<cms, log, consumed, table, postgres, call, budgets>>

\* One put fails: batchWrite() logs it, the reindex ends as if it had worked,
\* the other puts of the chunk are on their way and the later chunks dropped.
PutFails ==
    /\ PutIsRefused(FALSE)
    /\ \E item \in reindex.waiting :
          /\ strays' = strays \cup (reindex.waiting \ {item})
          /\ reindex' = NoReindex
    /\ calm' = FALSE
    /\ UNCHANGED <<cms, log, consumed, table, stores, call, reindexes, changes>>

\* A put left over from a batch fails unnoticed.
StrayFails ==
    /\ PutIsRefused(FALSE)
    /\ \E item \in strays : strays' = strays \ {item}
    /\ UNCHANGED <<cms, log, consumed, table, stores, call, reindex, reindexes,
                   changes, calm>>

EndReindex ==
    /\ reindex.pc = "batch" /\ reindex.waiting = {} /\ reindex.batch = {}
    /\ reindex' = NoReindex
    /\ UNCHANGED <<cms, log, consumed, table, stores, call, strays, budgets, calm>>

\* An item whose ttl has passed (30 days) goes from a table that was asked to
\* expire items, as ensureTable() asks; nothing puts the content back.
Expire(c) ==
    /\ table = "own"
    /\ dynamo[c] # None
    /\ dynamo' = [dynamo EXCEPT ![c] = None]
    /\ calm' = FALSE
    /\ UNCHANGED <<cms, log, consumed, table, postgres, call, reindex, strays, budgets>>

-----------------------------------------------------------------------------
IndexStep(w) == \/ DynamoWrite(w) \/ DynamoWriteFails(w)
                \/ PostgresWrite(w) \/ PostgresWriteFails(w)

ConsumeStep == (\E t \in Topics, c \in Ids : Consume(t, c)) \/ IndexStep("consumer")

ReindexStep == \/ Fetch \/ FetchFails \/ IndexItem \/ ItemsDone \/ SendChunk
               \/ PutLands \/ PutFails \/ EndReindex \/ IndexStep("reindex")

Next ==
    \/ \E c \in Ids : \/ CreateContent(c) \/ UpdateContent(c) \/ PublishContent(c)
                      \/ DeleteContent(c) \/ IndexByHand(c) \/ Expire(c)
    \/ ConsumeStep
    \/ CommitOffsets
    \/ Restart
    \/ IndexStep("hand")
    \/ StartReindex
    \/ ReindexStep
    \/ StrayFails

Spec == Init /\ [][Next]_vars

\* The consumer runs whenever there is a message; so do the handlers of
\* requests that were accepted.
FairSpec == Spec /\ WF_vars(ConsumeStep) /\ WF_vars(ReindexStep)
                 /\ WF_vars(IndexStep("hand"))

-----------------------------------------------------------------------------
(* GET /search: q matches the contents in Matching.  What it returns       *)
(* depends on the rows a scan happens to read, so it is a set of answers.  *)

AtMost(n, m) == IF n < m THEN n ELSE m

\* The sequences a store may return some rows in.
Orders(S) == {f \in [1..Cardinality(S) -> S] :
                 \A i, j \in 1..Cardinality(S) : i # j => f[i] # f[j]}

\* rows.slice(skip, skip + limit), and SQL's skip and take.
Slice(rows, page, limit) ==
    SubSeq(rows, (page - 1) * limit + 1, AtMost(page * limit, Len(rows)))

\* DynamoDB: a scan or query reads up to twice the limit, the filter is applied
\* to what it read, and at most limit rows are kept.
DynamoSearch(Matching, limit) ==
    LET stored == {c \in Ids : dynamo[c] # None}
        windows == {W \in SUBSET stored :
                       Cardinality(W) = AtMost(2 * limit, Cardinality(stored))}
        answer(W) == {[rows |-> SubSeq(order, 1, AtMost(limit, Len(order))),
                       total |-> Cardinality(W \cap Matching)] :
                         order \in Orders(W \cap Matching)}
    IN IF table # "none" THEN UNION {answer(W) : W \in windows}
       ELSE {[rows |-> <<>>, total |-> 0]}

\* findMany and count are two queries, each with its own view of the table:
\* findMany sees postgres, count sees counted.
PostgresSearch(Matching, page, limit, counted) ==
    LET found == {c \in Matching : postgres[c] # None}
        total == Cardinality({c \in Matching : counted[c] # None})
    IN {[rows |-> Slice(order, page, limit), total |-> total] :
           order \in Orders(found)}

\* search(): PostgreSQL is asked when DynamoDB found nothing, or is not asked:
\* it is for simple queries only, which have a text shorter than 50 characters.
Search(Matching, simple, page, limit, counted) ==
    LET primary == IF DynamoEnabled /\ simple THEN DynamoSearch(Matching, limit)
                   ELSE {[rows |-> <<>>, total |-> 0]}
    IN {[a EXCEPT !.rows = Slice(a.rows, page, limit)] :
           a \in {x \in primary : x.rows # <<>>}}
       \cup (IF \E x \in primary : x.rows = <<>>
             THEN PostgresSearch(Matching, page, limit, counted) ELSE {})

\* GET /search/status counts the rows of PostgreSQL.
TotalIndexed == Cardinality({c \in Ids : postgres[c] # None})

-----------------------------------------------------------------------------
Entries == [Ids -> Entry \cup {None}]

\* The variables keep their types.
TypeOK ==
    /\ content \in [Ids -> Versions] /\ latest \in [Ids -> Versions]
    /\ log \in [Topics -> [Ids -> Seq(Versions)]]
    /\ next \in [Topics -> [Ids -> Nat \ {0}]]
    /\ committed \in [Topics -> [Ids -> Nat]]
    /\ uncommitted \subseteq Topics \X Ids
    /\ \A t \in Topics, c \in Ids : next[t][c] <= Len(log[t][c]) + 1
    /\ table \in Tables
    /\ dynamo \in Entries /\ postgres \in Entries
    /\ call \in [Writers -> Call \cup {None}]
    /\ reindex \in Reindex
    /\ strays \subseteq Item
    /\ failures \in 0..MaxFailures
    /\ reindexes \in 0..MaxReindexes /\ changes \in 0..MaxChanges
    /\ calm \in BOOLEAN

\* Does the consumer's committed position of a topic lie behind the event
\* that brought entry e of content c?
Committed(c, e) ==
    /\ committed[e.from][c] # 0
    /\ \A k \in committed[e.from][c]..Len(log[e.from][c]) :
          log[e.from][c][k] # e.version

\* Kafka delivers an uncommitted event again after a restart, and the put that
\* answers it replaces whatever is there.  Once the position behind an event is
\* committed, no older event of its topic replaces the entry it brought.
CommittedNotUndone ==
    [][\A c \in Ids :
          /\ dynamo[c] # None /\ dynamo'[c] # None
          /\ dynamo[c].from \in Topics /\ dynamo'[c].from = dynamo[c].from
          /\ dynamo'[c].version < dynamo[c].version
          => ~Committed(c, dynamo[c])]_vars

\* A reindex during which nothing else happened leaves the current version of
\* every row of the CMS in DynamoDB, as long as the rows fit the pages it
\* fetches and the table takes entries without a category.
ReindexRepairs ==
    [][reindex.pc # "idle" /\ reindex'.pc = "idle" /\ calm /\ calm' /\ DynamoEnabled
       /\ table = "given"
       /\ Cardinality(ProgramIds) <= Page /\ Cardinality(EpisodeIds) <= Page
       => \A c \in Ids : content[c] # 0 => dynamo[c] # None /\ dynamo[c].version = content[c]
      ]_vars

\* Does an event of version v of c wait, or is it being handled, on a partition
\* of which an offset was committed?
Waiting(c, v) ==
    \E t \in Topics :
        /\ committed[t][c] # 0
        /\ \E k \in next[t][c]..Len(log[t][c]) : log[t][c][k] = v

Written(c, v) == \E entry \in {dynamo[c], postgres[c]} :
                     entry # None /\ entry.version = v

\* The version an event is about gets into one of the stores in spite of one
\* failure of a store or one restart: what the fallback write and the delivery
\* of uncommitted events are for.  Where the table refuses the entry every event
\* already needs the fallback.  Before the first commit of its partition, as the
\* first version of a content is, an event is left out by a restart
\* (NoEventSkipped).
AnnouncedIsIndexed ==
    \A c \in Ids, v \in 2..(MaxChanges + 1) :
        Waiting(c, v) ~> Written(c, v) \/ failures > 1
                                       \/ (table # "given" /\ failures > 0)

-----------------------------------------------------------------------------
(* Statements of the repository that do not hold (README.md, section 7)    *)

\* search.service.ts:29 "Writes to both DynamoDB (primary) and PostgreSQL
\* (fallback)": what DynamoDB holds of an event PostgreSQL holds too.
BothStoresWritten ==
    \A c \in Ids : dynamo[c] # None /\ call = [w \in Writers |-> None]
                   => postgres[c] # None

\* kafka.consumer.service.ts:83 "Re-throw to trigger retry mechanism": an event
\* is done with only when its content was written.
FailedEventIsRetried ==
    [][\A w \in Writers : PostgresWriteFails(w) => UNCHANGED next]_vars

\* README.md:293 "Durable event log supports replay": a restarted consumer does
\* not go past an event it has not read.
NoEventSkipped ==
    [][Restart => \A t \in Topics, c \in Ids : next'[t][c] <= next[t][c]]_vars

\* search.dto.ts: total is the number of results, so the second page of more
\* than one page of results has a row.
SecondPageNotBlank ==
    \A a \in Search(Ids, TRUE, 2, 1, postgres) : a.total > 1 => a.rows # <<>>
=============================================================================
