# Media Mesh: specifications, model checking and proofs

Media Mesh is a set of NestJS services for a media platform: content is
authored in a CMS, imported by an ingest service, announced on Kafka, indexed
for search, cached for discovery, and reached through two HTTP gateways. This
directory holds TLA+ models of its services, TLC configurations that check
them on small instances, and theorems about them that TLAPS proves for every
instance. Paths below are relative to the repository root; `src/` is the
repository itself.

1. The system
2. The components and what makes each correct
3. The modules and how they correspond to the code
4. The runs: questions, bounds, results
5. Fairness
6. The proofs
7. Further disagreements between code and documents
8. Plan
9. Not modelled

## 1. The system

    clients --> api-gateway-cms ------> auth, cms, metadata, media, ingest
            --> api-gateway-discovery > discovery, search
    cms    --(content.created, .updated, .published)--> Kafka
    ingest --(ingest.completed, ingest.failed)--------> Kafka
    Kafka  --> search (index), discovery (cache invalidation)

Every service is one Node.js process: handlers run on one thread and
interleave only at `await`s. State lives in PostgreSQL (one database per
service, through Prisma), in DynamoDB, Redis and object storage (search,
discovery, media), and in memory (the gateways' circuit breakers). No handler
opens a transaction or takes a lock: each Prisma call is atomic, a handler
that makes two is not. So an action of the models is what a handler does
between two awaits, and what it has read before an await is kept in the
model's record of the request and may be stale afterwards.

## 2. The components and what makes each correct

**Ingest service** (`services/ingest-service`). *State*: the table
`ingest_jobs` (status, retryCount, contentId, ...). *Operations*: create, list,
retry and delete a job; a cron tick a minute which starts `processJob` for the
oldest PENDING jobs. *Interacts with*: three parsers (YouTube, RSS, API), Kafka.
*Hard*: ticks do not wait for earlier batches; `processJob` never looks at the
status it read; the retry count is written from a row read before the fetch;
stops and failed writes between the PROCESSING mark and the outcome.
*Correct when*: a job is attempted by one party at a time, a failed attempt
costs one retry, COMPLETED and FAILED are final, a job is announced at most
once and as what its row says, and every job is settled in the end.

**CMS service** (`services/cms-service`). *State*: tables `programs` and
`episodes` with a cascading foreign key. *Operations*: create, update, publish,
unpublish, delete; each writes a row and then sends an event whose failure is
swallowed. *Interacts with*: Kafka (and through it search and discovery).
*Hard*: every check is of a row read before the write; two requests may send
their events in the other order than they wrote; a row may be deleted meanwhile.
*Correct when*: no episode outlives its program, numbers are unique within a
program, ARCHIVED is final, a published program has a date that is kept, and
what is stored is announced, in an order from which a consumer can tell the row.

**Gateways and resilience utilities** (`services/api-gateway-*`,
`shared/resilience`). *State*: a circuit breaker per backend, in memory; the
requests under way with their retry loops. *Operations*: proxy a request, record
its outcome, retry, time out. *Hard*: answers of requests sent before the
breaker opened arrive after it opened, half-opened or closed; the client's
timeout does not stop the retries; outcomes are recorded more than once.
*Correct when*: an open breaker rests its full timeout after the last failure, a
closed one starts with a clean window, it closes for good once the service is
back, and every request ends.

**Search service** (`services/search-service`). *State*: an index in DynamoDB and
one in PostgreSQL; `indexingInProgress` in memory. *Operations*: index on events,
by hand and in a full reindex; search; status. *Interacts with*: the CMS service
(its topics, and its lists during a reindex). *Hard*: the second store is written
only when the first refuses; the reindex writes rows back that it read at its start;
puts of a batch outlive the batch; a failed event is logged and committed, an
uncommitted one comes again, but none before the first commit. *Correct when*: what was announced gets into the index, an
event that is done with is not undone, and an undisturbed reindex repairs.

**Discovery service** (`services/discovery-service`). *State*: a cache in Redis and a
tier in DynamoDB over the CMS database, which it reads. *Operations*: six cached
queries, invalidation by events. *Hard*: a value read before a change is stored after
its invalidation; invalidation covers three kinds of key, one deletion after the
other. *Correct when*: an announced change shows.

**Metadata service** (`services/metadata-service`). *State*: a row per content with a
version counter, and its earlier versions. *Hard*: history and row are two writes of a
row read earlier, with no transaction. *Correct when*: earlier versions can be
looked up, with no entry but those its updates made.

**Media service** (`services/media-service`). *State*: objects in a bucket, rows in a
table. *Operations*: upload, thumbnail, deletion. *Hard*: the two are written in turn.
*Correct when*: every row has its objects, and every object a row.

**Auth service** (`services/auth-service`). *State*: users; tokens are held by
clients. *Operations*: register, login, refresh, me; update and delete of users.
*Interacts with*: Kafka. *Hard*: an address is looked up before it is inserted; accounts change
between the reads of a request, and under tokens. *Correct when*: addresses are
unique, a token tells what was true when it was made, and a conflict is a real one.

**Access control, rate limits, DTOs** (`shared/guards`, `shared/decorators`, the
gateways' controllers, DTOs, throttlers and GraphQL resolvers, the services'
controllers and DTOs). *State*: the throttler's counters in Redis. *Hard*: each
route is described twice, at the gateway and at the service behind it; two guards
count one request, each after an await of its own; windows and blocks end independently. *Correct when*: the limit is
kept, and what the gateway admits and validates the service does too.

**Observability, utilities, deployment**: see section 9.

`PROJECT.json` lists the components with their sources and status, and the
hazards of the code at the line where each bites, with the properties that
would catch it going wrong.

## 3. The modules and how they correspond to the code

| module | models | proofs |
|---|---|---|
| `Ingest` | IngestService, IngestProcessor, IngestRepository, its KafkaService | `IngestProofs` |
| `JobLifecycle` | what a job promises its owner (abstract specification, implemented by `Ingest`) | |
| `Cms` | ProgramService, EpisodeService, their repositories, its KafkaService | `CmsProofs` |
| `Gateway` | ProxyService.proxyRequest, CircuitBreakerService, HttpRetryService, TimeoutInterceptor | `GatewayProofs` |
| `SearchIndex` | SearchService, its two repositories, KafkaConsumerService, DynamoDBService | `SearchIndexProofs` |
| `DiscoveryCache` | DiscoveryService, its two repositories, its KafkaService | `DiscoveryCacheProofs` |
| `Metadata` | MetadataService, MetadataRepository | `MetadataProofs` |
| `Media` | MediaService, StorageService, MediaRepository | `MediaProofs` |
| `Accounts` | AuthController, AuthService, UserService, UserRepository, its KafkaService | `AccountsProofs` |
| `Contracts` | a DTO as a set of field rules; its boundary bodies | |
| `GatewayContracts` | the routes of both gateways (REST and GraphQL) and their DTOs | |
| `ServiceContracts` | the handlers of the services and their DTOs | |
| `Access` | guards, throttlers and validation pipes; composes the two contracts | `GatewayProofs` |

The `MC` modules extend them with the symmetry of the model values.
`PROJECT.json` maps every definition to the lines it translates.

### Ingest

`jobs[j]` is the row of job j, or `NoRow`. Source, dates and error message are
left out: no decision depends on them but the order of `createdAt`, kept as the
sequence `created`. `call[j][s]` is an invocation of `processJob` or `retryJob`
that works on j: its `pc` names the await it is at, `seen` and `content` are the
locals that survive the awaits.

| action | code |
|---|---|
| `CreateJob`, `DeleteJob` | `createJob`, `delete` (allowed at any time, also under an attempt) |
| `RetryJob`, `ResetToPending` | `retryJob`: its checks, then its write; it goes on in `processJob` |
| `Tick` | `processPendingJobs`: the batch read, and an invocation for each job of it |
| `FindById` ... `EmitIngestFailed` | `processJob`, an action an await; `seen` is the count the catch block increments |
| `ProcessYouTube`, `ProcessRSS`, `ProcessAPI` | the source is read, or something throws |
| `Restart` | the process stops; MAX_RETRIES may be another one afterwards |

The disjuncts with `Fault("db")` are database errors; outside the try block they
end the invocation, inside it they make the attempt a failed one. The Kafka
service swallows its errors, so both `Emit` actions may send nothing.
`Update` throws when the row is gone, as Prisma does. `Stalls` says whether a tick
may fire while a job taken by the tick before is not marked PROCESSING yet; ticks
are a minute apart and what separates the two is a read and a write, so `FALSE` is
the normal case and `TRUE` the one where the database is slow.

`JobLifecycle` knows nothing of ticks, invocations or events: a job is accepted,
attempted, completed or failed once per attempt, or withdrawn. `Ingest` refines it
with the identity on `jobs` and MaxRetries the only member of Limits, as long as
nothing stalls. The refinement says what the single invariants do not: that no
attempt is counted twice, no status is skipped and no outcome undone.

### Cms

`programs` and `episodes` are the tables; a row keeps the fields that a check or
an event depends on. `req[r]` is a request under way: its `pc` names the next
await, `data` what it will write (`None` for a field that is not written, as
Prisma treats `undefined`), `changed` whether it found changes to announce when it
read the row. Creation writes in its first step because it reads nothing before.
`Merge`, `MergeProgram` are the repositories' partial updates; `AfterCascade` the
foreign key; `Siblings` the page of 1000 episodes that uniqueness is checked
against. `Abort` is a database error, a swallowed Kafka error or a stop of the
process at any await. Ids are never handed out twice (`used`), as uuids are not.

### Gateway

One backend and its breaker (those of different services share nothing), and the
requests for it. `breaker` has the fields of `CircuitState`. Time is discrete and
relative: `lastFailureTime` and `failureTimestamps` hold ages, which `Tick` counts
up to the largest one a comparison distinguishes; the age `Timeout` of the
initial `lastFailureTime` stands for "never", which the code writes 0. Timestamps
are pushed in order of time, so the filters of `recordSuccess` and `recordFailure`
cut off a prefix (`InPeriod`).

| action | code |
|---|---|
| `Send`, `Reject` | `proxyRequest`: `canExecute` and the first attempt, or the 503 |
| `Succeed` | a status below 400 |
| `ErrorResponse` | any other: `recordSuccess` (before the status is looked at), `recordFailure` (status), and once more in the catch block the HttpException leads to |
| `Retry`, `Resend`, `GiveUp` | `HttpRetryService.retry`: no response |
| `AnswerTimeout` | `TimeoutInterceptor`: the client has its 408, the promise goes on |
| `Tick`, `GoDown`, `ComeUp`, `Restart` | time, the service, a restart of the gateway |

Error responses end the loop at once: axios is told to accept every status, so
`retryableStatusCodes` never applies.

### SearchIndex

A title is the version of the content it belongs to. `call[w]` is the one
`indexContent` call of each writer (the consumer, which handles a message at a time; the
reindex; POST /search/index); each of its two writes is a step. `log`, `next` and
`committed` are the topics, a partition per content, the position of the consumer and
the position a restarted one reads from. The consumers do not subscribe `fromBeginning`:
where no offset was committed yet (`committed` 0), a restarted consumer reads what comes next, and
events it had not handled are left out. `table` says which DynamoDB table there
is: none, one made beforehand, or the service's own, whose index on `category` refuses
items without one. Every event and every reindexed row is without one, so a
service that made its own table keeps the index in PostgreSQL alone.

| action | code |
|---|---|
| `CreateContent` ... `DeleteContent` | the CMS service: a row and its event; a deletion has none |
| `Consume`, `CommitOffsets`, `Restart` | `KafkaConsumerService`, with kafkajs as it is configured |
| `DynamoWrite`, `DynamoWriteFails` | `upsert` of the DynamoDB repository: a failure is logged and answered null |
| `PostgresWrite`, `PostgresWriteFails` | the fallback; its failure ends the call with an exception |
| `StartReindex` ... `EndReindex` | `reindexAll`: two lists of at most 1000 rows, an `indexContent` each, then all of them once more through `batchWrite` in chunks of 25 |
| `PutLands`, `PutFails`, `StrayFails` | the puts of a chunk, sent together; those of a failed chunk go on alone |
| `Expire` | the ttl of the service's own table |

`Search` is a pure operator: the set of answers a query may have. A DynamoDB scan reads
twice the limit and filters afterwards, so what is found depends on what is read. In PostgreSQL
rows and total come from two queries, each with its own view of the table (`counted` is the
second's), so that a page may be blank next to a total that is not 0, or full beside a
smaller total; nothing in the code relates the two, and no property does.

### DiscoveryCache

`program` and `episodes` are the CMS database, `redis` and `hot` the two tiers. A
request is at its lookup in DynamoDB (lists only), its read of the database, its write
to DynamoDB or its write to Redis. `doubt` marks an entry that nothing will
delete: the change that made it stale was silent, its event or deletion got lost or
was skipped, or its reader was overtaken. It is a history variable of the model, not of the code.
`queue`, `handled` and `committed` are per partition, that is, per topic and program (the id is the
key of the message). kafkajs commits between two messages what has been handled of all partitions
(`CommitOffsets`); a restart reads the uncommitted events of a partition again if it has a committed
offset, and skips them if not, as the search service's does.
`PutAccepted` is always false: the tier stores `category` and `language`, which the
programs it stores do not have, and DynamoDBService does not drop undefined values.

### Metadata, Media, Accounts

One action per database, bucket or Kafka call; the request's record holds what the
handler has read. *Metadata*: of the fields the title (its length) and the duration
are kept, since `validate` and `fromPrisma` treat durations specially (0 reads as
none). `Unique` is the index on (contentId, version). `metadata_versions` has no such index: `versions`
is a bag, an entry and how many rows hold it, of which an update that is cut short after the first
of its two writes and repeated makes a second. History: `overlap` are the rows two updates were of at
once, `halted` counts such cut updates of the state a row is in. *Media*: a key is the content,
the name and the millisecond of the upload. History: `clash` remembers uploads that were
given one key, `halted` the rows of which a deletion was cut short, `lost` the keys a failed
request held and those of thumbnails made while their file was being deleted. *Accounts*:
`seen[r]` are the accounts that existed at some time while request r was under way,
the history the properties compare tokens and refusals with. `update` and `delete` of
UserService have no controller; they are the API the module offers.

### Contracts, GatewayContracts, ServiceContracts, Access

A DTO is a record of rules, a rule the kind and the bounds of a value; a route is a
record of who may use it, its limit, the DTO it validates, what it passes on and what
it declares to answer. There is one definition per handler and per class, in the
order of the source. `Bodies` are the smallest body of a DTO, and it with one field
dropped, added, or set to a value at or beyond its bounds. `Access` sends each of them
with each role along each route: count, authenticate, check the role, validate, and
the same at the service. The discovery gateway's REST controllers have two throttler guards,
the global one and that of the class, which await Redis one after the other: `CountRequest` and
`CountAgain`, and `OtherClient` and `OtherClientAgain` for the requests of others behind the
address, of which `between` counts those that are between their guards. Between the two any hit of another
client, the end of the window (`WindowEnds`) and that of a block may come. `straddling` (history) are
the requests let through in a window whose first hit fell into an earlier one. The throttler's
storage is external and modelled by what its script does: hits expire a `ttl` after the first, a
block a `ttl` after it began. Of a service's answer the model has what guards and pipe say, and the
406 of fastify where JSON meets the upload of a form; what a handler says after that, with its own 400, 404
and 409 for one, is the 200 of the model.

## 4. The runs: questions, bounds, results

The runs of `PROJECT.json`. All but one pass, and those together take every action of every
module; `ingest_retryable` shows a disagreement between code and documents (section 7).

| run | question | bounds |
|---|---|---|
| `ingest` (`MCIngest.cfg`) | are jobs attempted one at a time, counted right, announced as they are; does the service implement `JobLifecycle`? | two jobs, batches of one, two invocations a job, MAX_RETRIES 2, one restart or database error |
| `ingest_retryable` (`MCIngestRetryable.cfg`) | can a failed job be retried, as the controller documents and a unit test does? TLC shows: not under one MAX_RETRIES | one RSS job, one invocation, MAX_RETRIES 2, no faults |
| `ingest_retry` (`MCIngestRetry.cfg`) | does a PENDING job settle when ticks overlap, retries race them and MAX_RETRIES changes? | one API job, two invocations at once (stalls allowed), limits 2 and 3, one fault |
| `cms` (`MCCms.cfg`) | which guarantees survive any interleaving and failure? | one program, one episode, two requests at once and four in all, numbers 0..2, two instants |
| `cms_sequential` (`MCCmsSequential.cfg`) | which hold when requests come one at a time and nothing fails? | one program, two episodes, four requests, two titles |
| `gateway` (`MCGateway.cfg`) | is the breaker sound whatever order answers arrive in, does it recover, does every request end? | two requests at once, two attempts each, thresholds 3 and 2, periods of two ticks, one outage, 4xx answers |
| `search` (`MCSearchIndex.cfg`) | what survives failing stores, redelivery and a reindex under way? | one stored program, one episode, two events or entries by hand, one failure or restart, one reindex, any of the three tables |
| `discovery` (`MCDiscoveryCache.cfg`) | does an announced change show? | one program, its key and one list, two topics, two readers, two changes, one failure or restart |
| `metadata` (`MCMetadata.cfg`) | can earlier versions be looked up, and how many entries are there for each? | two rows of one content, two requests, three versions, two entries alike (`MaxCopies`), two of the four content types (`Types`), one request cut short |
| `media` (`MCMedia.cfg`) | do bucket and table agree? | two rows, files of one content and name, three requests, two instants, one failure |
| `accounts` (`MCAccounts.cfg`) | are tokens and refusals earned? | three accounts, two addresses, two roles, three requests, one failure |
| `access` (`MCAccess.cfg`) | do gateway and services agree on who and what they let in, and is the limit kept? | every route, every role, every boundary body; limits divided by 20, two requests of other clients between their guards |

Why these bounds are enough. *Ingest*: jobs interact only through the batch, so
two with a batch of one show a job left out of a batch; two invocations of one job
are what an overlap is; with MAX_RETRIES 2 a job fails, is handed back and fails
for good. *Cms*: what can go wrong takes two requests (one stale, one that made
it so) and deletions, which are not counted; a third accepted request sets up
the row the other two meet and the fourth follows them. Number 0 is there for the lower bound
that `create` and `update` check. *Gateway*: one request may be in flight from
before the breaker opened while another tests it or finds it closed; each needs two attempts
to have a pause; FailureThreshold 3 is one more than the records of one error
response, SuccessThreshold 2 keeps HALF_OPEN for more than a moment, and two ticks
are the least with an instant strictly inside the period. The code's values (3
attempts, thresholds 5 and 2, both periods 60 s) are covered by the theorems,
which hold for all and for any number of requests. *SearchIndex*: an older and a newer event of one content, an event
and a reindex, or an entry by hand and either of them; one failure is what fallback and
redelivery are there to survive. *DiscoveryCache*: a slow reader and a second one
that finds what it left, a change before and one after, so that there can be a committed offset and
an event that is not. *Metadata*: two requests meet on
one row, and the second id is for what a content has twice; one stop leaves an entry that its
repetition makes twice. *Media*: an upload, a thumbnail
and a deletion at once, of one row or two that share a key. *Accounts*: two
requests compete for an address while a third changes the account. *Access*: requests
of one client do not meet, except in the counters, where `OtherClient` stands for any
number of them, two at a time between their guards; the limits (20 to 1000) are counted in twenties.
The theorem about the limit is for any unit and any number between guards.

Deadlock is checked for the gateway and for `Access`. The other models may stop:
their bounds (ids, requests, changes) can be used up.

What the properties say: `StatusMatchesRetries` (status and retryCount never fall
apart), `OneAttemptAtATime`, `AnnouncedMatchesRow`, `ImplementsLifecycle`,
`PendingSettles`; `EpisodesHaveProgram`, `PublishedHasDate`, `PublishedAtKept`,
`ArchivedIsFinal` (the status checks, though of stale rows, keep everybody out of and
in ARCHIVED); `EventsTellTitle`, `CreatedIsAnnounced`; `CleanSlate`,
`AdmittedAfterCoolDown`, `Recovers`, `RequestsEnd`.

- `AnnouncedIsIndexed` (liveness): content an event is about gets into one of the
  stores in spite of one failure or restart. `CommittedNotUndone`: redelivery overwrites newer
  titles of its topic only as long as their events are uncommitted.
  `ReindexRepairs`: after a reindex during which nothing else happened DynamoDB holds
  every current title. `AnnouncedIsIndexed` is about partitions with a committed offset; what a
  restart does before that is `NoEventSkipped` in section 7.
- `AnnouncedChangeShows`: a stale entry of a key the consumer deletes is on its way out, unless
  it is in doubt. An entry in doubt stays until its TTL is over: `NoStaleAfterEvents` in section 7.
- `HistoryReachesBack`: whatever overlaps, every earlier version is there.
  `ChangesAreVersioned`: a row whose updates come one at a time, whatever happens to other rows,
  counts on by one, and the version it leaves is told by entries of its state only: one, and one
  more for each update that stopped between its two writes.
- `NoOrphanObjects`: whatever fails or overlaps, each object in the bucket is a row's, a request's,
  or one of the `lost`, which are accounted for one by one. `RowsHaveObjects`: a failure costs
  no row its objects but the one whose own deletion it cut short, and two uploads with one
  key cost only the rows of that key. What is excepted can be seen to go wrong in section 7.
- `TokensEarned`, `ConflictsAreReal`: every token and every 409 has an account that
  justified it while the request was under way; `TypeOK` of `Accounts` holds the
  uniqueness of addresses.
- `ForwardedWithinLimit`: in any window, with any other clients, requests let through cost the limit
  a hit for each guard, but for the first hit of those that straddle the beginning of the window: up
  to half the limit pass where there are two guards, up to all of it when every one of them
  straddles. `AdmittedByService`: the
  service never answers 403 to what the gateway admitted, nor 401 but for a token that
  expired on the way. `ValidatedBodyIsAccepted`: 400 only for the two program
  DTOs that are known to differ. The types
  of `Access` (`AccessTypeOK`) are a theorem and not a run.

`MCIngestLive.cfg` is not among the listed runs; it passes too and shows that without
faults every RSS or API job settles, though the older of two jobs always goes first.

## 5. Fairness

A handler that waits is resumed when its promise settles, so each has weak fairness
on its next step, provided the promise does settle:

- Prisma and the Kafka producer have timeouts; the API parser sets one of 30 s and
  `rss-parser` has one by default; the gateway's axios calls have 30 s and its pauses are timers. The
  `axios.get` of the YouTube parser has none: `ProcessYouTube` is the one step of
  `Ingest` without fairness.
- The cron keeps firing: WF of `Tick`. That a tick finds a free slot is no further
  assumption: slots are bounds of the model, and free again when invocations end.
- `Restart`, faults, outages, deletions and requests have no fairness.
- `Recovers` also needs clients that keep calling (`Called`): a breaker moves from
  OPEN only when it is asked. Time passes (WF of the gateway's `Tick`).
- The search consumer (`ConsumeStep`), the reindex and the handlers of requests that were accepted go
  on. Nothing is assumed of the discovery service, of which only safety is checked.
- `PendingSettles` assumes nothing of faults: it says what holds until the next one.
- Which outcome a step has is not fair: a source may fail every time. A job settles
  then because its retries run out.

## 6. The proofs

All theorems are for every value of the constants under the modules' assumptions,
which TLC evaluates too; a hypothesis a theorem has beyond them is part of its statement
and is named below. `NoneIsNoRow` and `NoneIsNothing` (of `Cms`, `SearchIndex`, `Accounts` and
`Media`), `None \notin Programs` of `DiscoveryCache` and the like of `CmsAssumption` only say that
the model value `None` is none of the values it stands for the absence of. That `SearchIndex`
has finitely many ids says that the tables are finite, as its counts require.

**IngestProofs.** `TypeCorrect`, `StatusSound` (`Spec => []StatusMatchesRetries`) and
`RetryUnreachable` (`Spec => []RetryNeedsRaisedLimit`), for any set of jobs, any
number of overlapping invocations, with stalls and faults. The last is the finding of the run
`ingest_retryable` in general: `retryJob` gets past its checks only after MAX_RETRIES was changed. The inductive invariant is
`IInv == TypeOK /\ StatusMatchesRetries /\ RetryNeedsRaisedLimit`. The last two need
each other: with one limit, a job made PENDING by `retryJob` would break the bound of
its row, but `Retryable` asks for a FAILED row below the limit, which the bound
excludes. The argument that nothing else disturbs it is that `FailAttempt` is the
only step that writes retryCount, and writes the status that goes with it.

The same module proves `OneAttempt`, `AnnouncementsHold` and `Implementation` (the refinement)
of `Spec /\ []NotOvertaken`, under a single MAX_RETRIES. `NotOvertaken` says that no tick takes a
job an earlier tick took and has not marked PROCESSING yet. It is about single jobs: an
invocation may stall before its mark for as long as it likes, as long as no tick selects
its own job meanwhile. `TimelyTicks` shows that it follows from `~Stalls`, which is what the run
`ingest` assumes; that something of the kind is needed shows the counterexample of section 7.
`Exclusive` strengthens `OneAttemptAtATime`: how far an invocation has come and the
status of its row agree. PENDING means not yet marked, PROCESSING means marked and
undecided, COMPLETED means decided; `seen` is still the row's count. A tick takes PENDING jobs, and
one that is worked on and PENDING has an invocation before its mark, which `NotOvertaken`
excludes. From this the three writes of `processJob` map to `Attempt`, `Complete` and
`Fail`, and everything else to a stutter, `CreateJob` and `DeleteJob` apart.

**GatewayProofs.** `TypeCorrect`, `CleanSlateAlways` and `CoolDownObserved`, for any
number of requests and attempts and any thresholds and periods with
MonitoringPeriod <= Timeout (in the code both are 60 s). `CleanSlate` is not
inductive: nothing in it tells why the window is empty when an OPEN breaker is tested. The inductive
invariant adds (`Sound`) that in OPEN no recorded failure is younger than
`lastFailureTime` says, so that when the last one is `Timeout` old, all are outside
the monitoring period, and that HALF_OPEN keeps both facts until a failure ends it. With MonitoringPeriod > Timeout this fails,
and a breaker would go from HALF_OPEN to CLOSED with old failures counted again by
the next one.

The module also holds the theorems about `Access`, which it extends. `AccessTypeCorrect`
(`AccessSpec => []AccessTypeOK`) needs the types of all that a request can be sent with
(`RequestTyped`). `LimitHolds` (`ForwardedWithinLimit`, for every Unit and any number of other
clients' requests between their guards): `Within` counts what has been spent in this window, by
requests that were let through (a hit a guard) and by those between their guards, and
says that it was counted, or spared by a straddling request, and never exceeds the limit and the
straddling. A second guard's hit turns what its request had spent between the guards into what it spent
altogether; the end of the window forgets what was spent before it, and makes straddling requests of
those that are between. A hit that is refused spends nothing.
`AdmittedThroughout` (`AdmittedByService`) rests on `RoutesAgree`, a comparison of
each of the 42 routes with its handler, and follows a request through the guards: the role that
was admitted by the gateway is the token's, and whoever may use the route may use the handler
(`RolesAgree`). `ValidatedThroughout` (`ValidatedBodyIsAccepted`) compares the DTOs (`Includes`,
`ValidImplied`): every field of one has the same rule in the other, which requires no other.
The run tries the boundary values of each field; nothing of that is used here, so the
argument is for bodies of any fields and values.

**MetadataProofs.** `TypeCorrect`, `HistoryComplete` (`Spec => []HistoryReachesBack`) and
`VersionedSequentially` (`Spec => ChangesAreVersioned`), for any sets of ids, requests and
values and any number of requests cut short. `HistoryReachesBack` is not inductive: what
an update writes depends on a row it read when the row may have been at another
version. The inductive invariant `IInv` adds what a request carries (`Carries`): from its
second read on, all versions below the one it read are recorded, and from the
history write on that one too. Since nothing removes a version, this survives whatever
other requests do to the row. The action property needs the current row as well:
`SeqInv` says of each row of which no two updates have overlapped (it is not in `overlap`) that
one update of it is under way at most, that this one carries the current row, that no entry
is ahead of the row but those made of it (`NoneAhead`), and that there are as many of those as
updates were cut short before their second write, and one more while an update is at that write
(`Copies`). Updates of other rows may overlap with it freely.

**CmsProofs.** `TypeCorrect`, `EpisodesKeepProgram`, `PublishedDated`, `DateKept` and
`ArchivedFinal`, for any number of requests under way. The invariant adds `Issued` (an
id is given once, so a row that a request read is not another one by the time it
writes) and `Carries`: what a request will write is dated if it publishes, and ARCHIVED exactly
if the row is. The last is the argument for `ArchivedIsFinal`: the status that was
validated may be long outdated, but no handler turns a row to or from ARCHIVED, so as far as
ARCHIVED goes it never is.

`NumbersUnique` and `TitlesTold` are about requests that do not get in each other's way. The
hypotheses of the first are `NumbersOneByOne` (of the requests that give an episode of one program
one and the same number, at most one is between its check and its write) and
`EpisodesFitPage` (the page of 1000 episodes the check reads is all of them); section 7 has a
counterexample for each of the two. So nothing but two requests for one number can give it
twice: requests for other numbers, deletions and failures may overlap. `NumbersInv` adds
to the property that the number a request is about to write is still free (`HoldsFree`). The
hypotheses of the second are `~Failures` and `ProgramsOneByOne` (no two of `create` and `update` of
one program overlap); publishing, unpublishing, deleting it and requests about other
programs may overlap with anything. `TitlesInv` relates, for every program, its row, what a
request is about to announce and the last event: a title that was not announced yet is one
that a request still announces. The hypotheses hold in every state of the run `cms_sequential`;
the two inductive invariants were also checked by TLC with two overlapping requests.

**SearchIndexProofs.** `TypeCorrect`, `CommittedStays` (`CommittedNotUndone`) and `ReindexRepaired`
(`ReindexRepairs`), for any finite tables and any number of
events, reindexes and failures. For `CommittedStays` the invariant says that the events of a
topic carry growing versions (`LogOrdered`), that what is committed has been read, and that an entry which
names a topic was brought by one of its events; then an event the consumer handles, which is never before
the committed position, cannot be older. `ReindexRepaired` is about a reindex that is `calm`: alone,
without a failure or a change. `Undisturbed` then says that all it still holds is current, and that
each row of a kind it has fetched is in DynamoDB or still to come (`Covered`); this needs
DynamoDB and lists that fit a page (`RepairsPossible`), as the property does.

**DiscoveryCacheProofs.** `TypeCorrect` and `AnnouncedShow` (`AnnouncedChangeShows`), for any programs,
readers, changes and failures. The property is inductive but for the consumer: deletions under way are
of the event in hand (`HandlesEvent`), so a restart, which reads that event
again if its partition has a committed offset, forgets none of them; if it has none, the entries are
in doubt. A reader that has read an old value and writes it later marks its
entry, unless the deletion is still ahead, and that is where each case ends.

**AccountsProofs.** `TypeCorrect`, `TokensAreEarned` and `ConflictsReal`, for any number of
requests, accounts and changes of them. The invariant relates what a request has read to the
history `seen`: the account it is about to sign for was there at some time while it
was under way, and so is every account there now.

**MediaProofs.** `TypeCorrect`, `RowsLeadToObjects` (`Spec => []RowsHaveObjects`) and
`NothingOrphaned` (`Spec => []NoOrphanObjects`), for any number of uploads, thumbnails and
deletions under way and of failures, and without a hypothesis: what a failure or a
coincidence costs is part of the properties, per row and per key. A request's keys are those of the
row it read (`Sound`). A key that was given out once is one row's or one upload's, and what
is being deleted is no other row's (`Unique`). What a row that stands is about to be told of is in
the bucket (`Present`), which needs `Unique` where a deletion removes an object. A row that is being
deleted no longer has to answer for its objects, because the deletion holds them
(`Accounted`) until what it has not removed is lost (`Spent`); a thumbnail whose row is being
deleted, or gone, is lost already (`Unraced`).

**Model-checked only.** Liveness (`PendingSettles`, `Recovers`, `RequestsEnd`,
`CreatedIsAnnounced`, `AnnouncedIsIndexed`) is out of the prover's reach. Every
invariant and every other action property of the passing runs is stated by a theorem. What a run does that
a theorem does not is to fire every action and to break each property by a mutant.

## 7. Further disagreements between code and documents

TLC refutes each of these. The first is the run `ingest_retryable` and a finding of `PROJECT.json`; the others
are not among its runs. Those of the first table have a configuration of their own:
`tlc -config X.cfg M` shows them.

| configuration | property | what the code does |
|---|---|---|
| `MCIngestRetryable.cfg` | `FailedIsRetryable` | `processJob` makes a job FAILED exactly when retryCount reaches MAX_RETRIES, and `retryJob` refuses it exactly then: POST /ingest/jobs/:id/retry never retries a job unless MAX_RETRIES was raised (`RetryUnreachable` is the theorem). The unit test uses a FAILED job with retryCount 1, which the service never produces. |
| `MCIngestConcurrency.cfg` | `WithinConcurrencyLimit` | "with concurrency limit" (`ingest.processor.ts:39`): batches of successive ticks add up. |
| `MCIngestOverlap.cfg` | `AnnouncedMatchesRow` | with a stall, two ticks take one job, and the second attempt may fail a job that was announced as completed. |
| `MCIngestRestart.cfg` | `JobsSettle` | a stop after the PROCESSING mark leaves a job that no tick selects ("Handle errors and retries", `docs/DEVELOPMENT_PLAN.md:742`). |
| `MCIngestHang.cfg` | `JobsSettle` | a YouTube request that never answers keeps its job PROCESSING. |
| `MCCmsNumbers.cfg` | `EpisodeNumbersUnique` | "Validate episode number is unique" (`episode.service.ts:45`): two creations check before either inserts, and no unique index backs them. |
| `MCCmsAnnounce.cfg` | `PublishedIsAnnounced` | "Emit content.published when content is published" (`docs/DEVELOPMENT_PLAN.md:441`): `create` with PUBLISHED, or `update` to it, sends another event only. |
| `MCCmsPage.cfg` | `EpisodeNumbersUnique` | with more episodes than one page (1000) a number may be given twice, without concurrency. |
| `MCCmsUnpublish.cfg` | `StatusChangesAnnounced` | `unpublish` sends no event ("Emit content.updated when program/episode is updated", `docs/DEVELOPMENT_PLAN.md:440`). |
| `MCGatewayProbes.cfg` | `OneProbe` | "Allow one request to test": HALF_OPEN lets every request through. |
| `MCGatewayHalfOpen.cfg` | `FailedProbeReopens` | "If we fail in half-open, go back to open" (`circuit-breaker.service.ts:107`): an error response is recorded as a success first, and closes the breaker. |
| `MCGatewayCount.cfg` | `OneFailurePerRequest` | "Number of failures before opening" (`resilience.config.ts:30`): one error response is recorded twice. |
| `MCGatewayReset.cfg` | `CountRestarts` | "Reset failure count on success": the timestamps are kept and the next failure counts them again. |
| `MCGatewayHealthy.cfg` | `HealthyStaysClosed` | clients' 4xx answers open the breaker of a healthy service. |
| `MCGatewayCancel.cfg` | `TimeoutCancels` | "Automatic request cancellation": retries go on after the 408. |

For those of the second table put the property in place of the others in a copy of the
module's configuration (as an INVARIANT, or as a PROPERTY where it begins with `[][`), with
the change of constants in brackets.

| module | property | what the code does |
|---|---|---|
| `SearchIndex` | `BothStoresWritten` | "Writes to both DynamoDB (primary) and PostgreSQL (fallback)" (`search.service.ts:29`): PostgreSQL is written only when DynamoDB fails, so each store may hold the newer title, and the status counts PostgreSQL only. |
| `SearchIndex` | `FailedEventIsRetried` | "Re-throw to trigger retry mechanism" (`kafka.consumer.service.ts:83`): `eachMessage` catches it, and the offset moves on. |
| `SearchIndex` | `NoEventSkipped` | "Durable event log supports replay" (`README.md:293`): a consumer restarted before the first commit of a partition goes on with what comes next and skips what it had not handled. |
| `SearchIndex` | `SecondPageNotBlank` | DynamoDB answers at most `limit` rows, of which page 2 skips `limit`. |
| `DiscoveryCache` | `NoStaleAfterEvents` | "invalidates cache" (`kafka.service.ts:9`): a slow reader puts the old program back, and unpublish, deletion and creation are not announced. |
| `DiscoveryCache` | `HotTierFilled` | "Store in both DynamoDB and Redis": no list is ever in DynamoDB (see `PutAccepted`). |
| `Cms` | `PublishFromDraft` | of two concurrent `publish` calls the second publishes a PUBLISHED program. |
| `Metadata` | `VersionNeverFalls` | two updates of one version, of which the later one began earlier. |
| `Metadata` | `OneRowPerContent` | "Check if metadata already exists": two creations find none, and one row moves on from version 1 before the other is inserted. |
| `Metadata` | `EpisodeWithinHours` [`Durations = {7201}`] | "2 hours max" (`metadata.service.ts:48`) is `86400 * 2`, two days. |
| `Metadata` | `NoChangeNoVersion` | `fromPrisma` reads a duration of 0 as none, so sending 0 again is a change each time. |
| `Media` | `DeletedWithThumbnail` | a thumbnail made while its file is being deleted stays in the bucket. |
| `Media` | `KeysUnique` | two uploads of one name for one content within a millisecond share an object. |
| `Accounts` | `RefusedWith409` | of two registrations the unique index refuses one, which is answered 500, not 409 (`auth.controller.ts:61-62`). |
| `Accounts` | `RegisteredIsAnnounced` | an error of Kafka is swallowed; a stop after the insert loses the event. |
| `Accounts` | `LastRoleAnnounced` [`Changes <- RoleChanges`] | two updates announce differences from what they read, in any order. |
| `Accounts` | `LifetimeInSeconds` | "Token expiration time in seconds" (`auth.dto.ts:119` of the gateway): JWT_EXPIRATION is milliseconds. |
| `Access` | `DocumentedBodyIsAccepted` | no program can be created through the gateway: the service requires a `contentType` that the gateway forbids; search parameters the gateway documents are refused by the services. |
| `Access` | `FullLimit` | the discovery gateway's controllers add a guard that counts under the key of the global one: each request counts twice. |
| `Access` | `QueriesAreServed` | the global throttler guard finds no request in a GraphQL context, and every query fails. |
| `Access` | `UploadsAreServed` | the gateway forwards JSON to an upload handler that reads a form: 406. |
| `Access` | `DeclaredFieldsReturned` | answers lack fields the gateway declares (`media.dto.ts:43`). |

`EventsTellTitle` holds for requests one at a time; with two updates at once their
events may be sent in the other order than the rows were written.

Seen while reading, and not a matter for a model: the `CIRCUIT_BREAKER_*` variables the
gateway reads (`env.constants.ts:49-65`) are never handed to the breaker, `resetTimeout`
is not used by anything, and a POST whose answer is lost is sent again by the retry loop. `updateIndex` and
`deleteFromIndex` of the search service run on `content.deleted`, which nobody sends.
`ensureTable` combines PAY_PER_REQUEST with provisioned throughput of its indexes and passes
a TimeToLiveSpecification to CreateTable. The CMS gateway's list of programs drops `page`
and `limit`, since the service takes `skip` and `take`; its DTO classes for metadata, media and
ingest bodies are used by no handler. Deleting programs, episodes and jobs needs ADMIN at the
gateway, EDITOR suffices at the services. The throttler guard runs before JwtAuthGuard, so no
request is ever counted under its user. The discovery service answers a missing
program with 200 and a body that says 404. The 400 of every created program counts
as a failure of the CMS service in the gateway's breaker.

## 8. Plan

The order is by how much of the platform's promise depends on the part.

Done: every module of section 3, and theorems about each of the components. Every invariant the
runs check is stated by a theorem.

Next:

1. `Ingest`: the conclusions of its theorems, too, per job: what holds of a job that was not
   overtaken when others were.
2. `ContentFlow`, composing `Cms`'s topics with index and cache (what is published is found in
   the end), which needs smaller instances of all three.

## 9. Not modelled

- *Observability and exceptions*: logs, metrics and the shape of error answers, which
  nothing else reads. `RetryInterceptor` and `CircuitBreakerInterceptor` are used by
  no service.
- *Utilities and constants*: stateless helpers, most without a caller outside their
  tests.
- *Event versioning and serialisation*: there is one version of every event; the models
  keep of an event what its consumers read.
- *DynamoDB wrapper*: `updateItem` and `deleteItem`, which no reachable code calls.
- *Deployment*: images, compose files, scripts; the Postman generator.
- Of the parsers, the contents of feeds and pages; of the gateways, headers other than
  Authorization; of the media service, image processing; of tokens, cryptography.
- Health endpoints, which answer constants.
