--------------------------- MODULE SearchIndexProofs ---------------------------
(***************************************************************************)
(* Theorems about SearchIndex for every set of contents, page and batch    *)
(* size, and any number of changes, failures, restarts and reindexes.      *)
(***************************************************************************)
EXTENDS SearchIndex, FiniteSetTheorems, SequenceTheorems, TLAPS

\* Versions are handed out one by one, and never beyond the bound.
VersionsCounted ==
    \A c \in Ids : content[c] <= latest[c] /\ latest[c] <= changes + 1

\* The events of a content are in the order of its versions on every topic.
LogOrdered ==
    \A t \in Topics, c \in Ids :
        /\ \A i \in 1..Len(log[t][c]) : log[t][c][i] <= latest[c]
        /\ \A i, j \in 1..Len(log[t][c]) : i < j => log[t][c][i] < log[t][c][j]

\* What is committed was read.
CommittedWasRead == \A t \in Topics, c \in Ids : committed[t][c] <= next[t][c]

\* Every call knows who makes it; the consumer's is about the event that is next.
CallsKnown ==
    /\ call["hand"] # None => call["hand"].entry.from = "hand"
    /\ call["reindex"] # None => call["reindex"].entry.from = "reindex"
    /\ call["consumer"] # None =>
          LET c == call["consumer"].id
              t == call["consumer"].entry.from
          IN /\ t \in Topics
             /\ next[t][c] <= Len(log[t][c])
             /\ call["consumer"].entry.version = log[t][c][next[t][c]]

\* An entry that names a topic was brought by an event of that topic.
EntriesHaveEvents ==
    \A c \in Ids : dynamo[c] # None /\ dynamo[c].from \in Topics =>
        \E i \in 1..Len(log[dynamo[c].from][c]) :
            log[dynamo[c].from][c][i] = dynamo[c].version

\* How far a reindex has come.
ReindexShape ==
    /\ reindex.pc = "programs" => reindex.fetched = {}
    /\ reindex.pc = "items" => "programs" \in reindex.fetched
    /\ reindex.pc = "episodes" => reindex.fetched = {"programs"}
    /\ reindex.pc = "batch" => reindex.fetched = {"programs", "episodes"}
    /\ reindex.pc # "items" => reindex.todo = {}
    /\ reindex.pc # "batch" => reindex.waiting = {}
    /\ call["reindex"] # None => reindex.pc = "items"

\* The row of c as a reindex gets it from the CMS service.
RowOf(c) == [id |-> c, version |-> content[c]]
Current(items) == \A item \in items : content[item.id] # 0 /\ item = RowOf(item.id)

InDynamo(c) == dynamo[c] # None /\ dynamo[c].version = content[c]

\* Every row of the kinds fetched so far is indexed or still to be.
Covered ==
    \A kind \in reindex.fetched : \A c \in KindOf(kind) :
        content[c] # 0 => RowOf(c) \in reindex.todo \/ InDynamo(c)

RepairsPossible ==
    DynamoEnabled /\ Cardinality(ProgramIds) <= Page /\ Cardinality(EpisodeIds) <= Page

\* The reindex is alone in writing to DynamoDB, holds current rows only and leaves none out.
Alone == call["consumer"] = None /\ call["hand"] = None /\ strays = {}
CallCurrent ==
    call["reindex"] # None =>
        /\ call["reindex"].pc = "dynamo"
        /\ content[call["reindex"].id] # 0
        /\ call["reindex"].entry.version = content[call["reindex"].id]
Repairing ==
    /\ Alone /\ CallCurrent
    /\ Current(reindex.todo) /\ Current(reindex.batch) /\ Current(reindex.waiting)
    /\ Covered

\* That is how it is while nothing disturbs the reindex.
Undisturbed == RepairsPossible /\ calm /\ reindex.pc # "idle" => Repairing

\* The inductive invariant.
IInv ==
    /\ TypeOK /\ VersionsCounted
    /\ LogOrdered /\ CommittedWasRead /\ CallsKnown /\ EntriesHaveEvents
    /\ ReindexShape /\ Undisturbed

-----------------------------------------------------------------------------
(* Type correctness.                                                       *)

LEMMA Bounds ==
    /\ MaxChanges \in Nat /\ MaxFailures \in Nat /\ MaxReindexes \in Nat /\ Page \in Nat
    /\ BatchSize \in Nat \ {0}
BY SearchIndexAssumption

LEMMA NewCallType ==
    ASSUME NEW c \in Ids, NEW version \in Versions, NEW from \in Topics \cup {"reindex", "hand"},
           NEW category \in BOOLEAN
    PROVE  NewCall(c, version, from, category) \in Call
BY DEF NewCall, FirstStore, Call, Entry

LEMMA RefusedType ==
    ASSUME TypeOK, NEW category \in BOOLEAN, PutIsRefused(category)
    PROVE  failures' \in 0..MaxFailures
<1>1. failures' = failures \/ (failures < MaxFailures /\ failures' = failures + 1)
  BY DEF PutIsRefused
<1> QED BY <1>1, Bounds DEF TypeOK

\* A version below the bound may be followed by another.
LEMMA NextVersion ==
    ASSUME TypeOK, VersionsCounted, NEW c \in Ids, changes < MaxChanges
    PROVE  latest[c] + 1 \in Versions
BY Bounds DEF TypeOK, VersionsCounted, Versions

LEMMA AnnounceTypes ==
    ASSUME TypeOK, VersionsCounted, NEW c \in Ids, NEW t \in Topics, Announce(c, t)
    PROVE  TypeOK'
<1> USE Bounds
<1>1. latest[c] + 1 \in Versions
  BY NextVersion DEF Announce
<1>2. content' \in [Ids -> Versions] /\ latest' \in [Ids -> Versions]
  BY <1>1 DEF Announce, TypeOK
<1>3. log[t][c] \in Seq(Versions) /\ Append(log[t][c], latest[c] + 1) \in Seq(Versions)
  BY <1>1 DEF TypeOK
<1>4. log' \in [Topics -> [Ids -> Seq(Versions)]]
  BY <1>3 DEF Announce, TypeOK
<1>5. \A u \in Topics, x \in Ids : Len(log[u][x]) \in Nat /\ Len(log'[u][x]) >= Len(log[u][x])
  <2>1. \A u \in Topics, x \in Ids : log[u][x] \in Seq(Versions)
    BY DEF TypeOK
  <2>2. \A u \in Topics, x \in Ids :
           log'[u][x] = IF u = t /\ x = c THEN Append(log[t][c], latest[c] + 1) ELSE log[u][x]
    BY DEF Announce, TypeOK
  <2>3. /\ Len(Append(log[t][c], latest[c] + 1)) = Len(log[t][c]) + 1
        /\ \A u \in Topics, x \in Ids : Len(log[u][x]) \in Nat
    BY <1>1, <2>1
  <2> TAKE u \in Topics, x \in Ids
  <2>4. CASE u = t /\ x = c
    <3>1. Len(log'[u][x]) = Len(log[u][x]) + 1
      BY <2>2, <2>3, <2>4
    <3> QED BY <2>3, <3>1
  <2>5. CASE ~(u = t /\ x = c)
    <3>1. log'[u][x] = log[u][x]
      BY <2>2, <2>5
    <3> QED BY <2>3, <3>1
  <2> QED BY <2>4, <2>5
<1>6. \A u \in Topics, x \in Ids : next'[u][x] <= Len(log'[u][x]) + 1
  <2>1. \A u \in Topics, x \in Ids : next[u][x] \in Nat /\ next[u][x] <= Len(log[u][x]) + 1
    BY DEF TypeOK
  <2>2. next' = next
    BY DEF Announce, consumed
  <2> TAKE u \in Topics, x \in Ids
  <2>3. log'[u][x] \in Seq(Versions)
    BY <1>4
  <2>4. Len(log'[u][x]) \in Nat
    BY <2>3
  <2>5. Len(log[u][x]) \in Nat /\ Len(log'[u][x]) >= Len(log[u][x])
    BY <1>5
  <2>6. next[u][x] \in Nat /\ next[u][x] <= Len(log[u][x]) + 1
    BY <2>1
  <2> QED BY <2>2, <2>4, <2>5, <2>6
<1>7. changes' \in 0..MaxChanges
  BY DEF Announce, TypeOK
<1>8. calm' \in BOOLEAN
  BY DEF Announce
<1> QED BY <1>2, <1>4, <1>6, <1>7, <1>8 DEF Announce, TypeOK, consumed, stores

\* The end of a call.
LEMMA EndCallTypes ==
    ASSUME TypeOK, CallsKnown, NEW w \in Writers, NEW ok \in BOOLEAN, call[w] # None,
           EndCall(w, ok), UNCHANGED <<log, committed>>
    PROVE  /\ call' \in [Writers -> Call \cup {None}]
           /\ reindex' \in Reindex
           /\ next' \in [Topics -> [Ids -> Nat \ {0}]]
           /\ committed' \in [Topics -> [Ids -> Nat]]
           /\ uncommitted' \subseteq Topics \X Ids
           /\ \A t \in Topics, c \in Ids : next'[t][c] <= Len(log'[t][c]) + 1
           /\ calm' \in BOOLEAN
<1>1. call[w] \in Call
  BY DEF TypeOK
<1>2. call' \in [Writers -> Call \cup {None}] /\ calm' \in BOOLEAN
  BY DEF EndCall, TypeOK
<1>3. reindex' \in Reindex
  <2>1. CASE w = "reindex"
    <3>1. [id |-> call["reindex"].id, version |-> call["reindex"].entry.version] \in Item
      BY <1>1, <2>1 DEF Call, Entry, Item
    <3> QED BY <2>1, <3>1 DEF EndCall, AfterItem, TypeOK, Reindex
  <2>2. CASE w # "reindex"
    BY <2>2 DEF EndCall, TypeOK
  <2> QED BY <2>1, <2>2
<1>4. /\ next' \in [Topics -> [Ids -> Nat \ {0}]]
      /\ \A t \in Topics, c \in Ids : next'[t][c] <= Len(log[t][c]) + 1
  <2>1. CASE w = "consumer"
    <3> DEFINE c == call["consumer"].id
               t == call["consumer"].entry.from
    <3>1. c \in Ids /\ t \in Topics /\ next[t][c] <= Len(log[t][c])
      BY <1>1, <2>1 DEF Call, CallsKnown
    <3>2. next' = [next EXCEPT ![t][c] = @ + 1]
      BY <2>1 DEF EndCall, AfterEvent
    <3> HIDE DEF c, t
    <3>3. next \in [Topics -> [Ids -> Nat \ {0}]] /\ next[t][c] + 1 \in Nat \ {0}
      BY <3>1 DEF TypeOK
    <3>4. next' \in [Topics -> [Ids -> Nat \ {0}]]
      BY <3>1, <3>2, <3>3
    <3>5. ASSUME NEW u \in Topics, NEW x \in Ids
          PROVE  next'[u][x] <= Len(log[u][x]) + 1
      <4>1. CASE u = t /\ x = c
        <5>1. next'[u][x] = next[t][c] + 1
          BY <3>1, <3>2, <3>3, <4>1
        <5>2. log[t][c] \in Seq(Versions)
          BY <3>1 DEF TypeOK
        <5> QED BY <3>1, <3>3, <4>1, <5>1, <5>2
      <4>2. CASE ~(u = t /\ x = c)
        <5>1. next'[u][x] = next[u][x]
          BY <3>1, <3>2, <3>3, <4>2
        <5> QED BY <5>1 DEF TypeOK
      <4> QED BY <4>1, <4>2
    <3> QED BY <3>4, <3>5
  <2>2. CASE w # "consumer"
    BY <2>2 DEF EndCall, TypeOK
  <2> QED BY <2>1, <2>2
<1>5. uncommitted' \subseteq Topics \X Ids
  <2>1. w = "consumer" => call[w].entry.from \in Topics /\ call[w].id \in Ids
    BY <1>1 DEF Call, CallsKnown
  <2> QED BY <2>1 DEF EndCall, TypeOK
<1> QED BY <1>2, <1>3, <1>4, <1>5 DEF TypeOK

LEMMA IndexTypes ==
    ASSUME TypeOK, CallsKnown, NEW w \in Writers, IndexStep(w)
    PROVE  TypeOK'
<1> USE Bounds
<1>1. CASE DynamoWrite(w)
  <2>1. call[w] \in Call
    BY <1>1 DEF DynamoWrite, TypeOK
  <2>2. dynamo' \in Entries
    BY <1>1, <2>1 DEF DynamoWrite, PutDynamo, TypeOK, Entries, Call
  <2>3. EndCall(w, TRUE) /\ call[w] # None /\ UNCHANGED <<log, committed>>
    BY <1>1 DEF DynamoWrite
  <2>4. UNCHANGED <<cms, table, postgres, strays, budgets>>
    BY <1>1 DEF DynamoWrite
  <2> QED BY <2>2, <2>3, <2>4, EndCallTypes DEF TypeOK, cms, budgets
<1>2. CASE DynamoWriteFails(w)
  <2>0. call[w].entry.category \in BOOLEAN
    BY <1>2 DEF DynamoWriteFails, TypeOK, Call, Entry
  <2>1. [call[w] EXCEPT !.pc = "postgres"] \in Call
    BY <1>2 DEF DynamoWriteFails, TypeOK, Call
  <2>2. call' \in [Writers -> Call \cup {None}]
    BY <1>2, <2>1 DEF DynamoWriteFails, AfterPutFails, TypeOK
  <2>3. failures' \in 0..MaxFailures
    BY <1>2, <2>0, RefusedType DEF DynamoWriteFails
  <2> QED BY <1>2, <2>2, <2>3 DEF DynamoWriteFails, TypeOK, cms, consumed, stores
<1>3. CASE PostgresWrite(w)
  <2>1. call[w] \in Call
    BY <1>3 DEF PostgresWrite, TypeOK
  <2>2. postgres' \in Entries
    BY <1>3, <2>1 DEF PostgresWrite, TypeOK, Entries, Call
  <2>3. EndCall(w, TRUE) /\ call[w] # None /\ UNCHANGED <<log, committed>>
    BY <1>3 DEF PostgresWrite
  <2>4. UNCHANGED <<cms, table, dynamo, strays, budgets>>
    BY <1>3 DEF PostgresWrite
  <2> QED BY <2>2, <2>3, <2>4, EndCallTypes DEF TypeOK, cms, budgets
<1>4. CASE PostgresWriteFails(w)
  <2>1. failures' \in 0..MaxFailures
    BY <1>4 DEF PostgresWriteFails, TypeOK
  <2>2. EndCall(w, FALSE) /\ call[w] # None /\ UNCHANGED <<log, committed>>
    BY <1>4 DEF PostgresWriteFails
  <2>3. UNCHANGED <<cms, table, stores, strays, reindexes, changes>>
    BY <1>4 DEF PostgresWriteFails
  <2> QED BY <2>1, <2>2, <2>3, EndCallTypes DEF TypeOK, cms, stores
<1> QED BY <1>1, <1>2, <1>3, <1>4 DEF IndexStep

\* The CMS service, the consumer and POST /search/index.
LEMMA CallerTypes ==
    ASSUME TypeOK, VersionsCounted, NEW c \in Ids,
           \/ CreateContent(c) \/ UpdateContent(c) \/ PublishContent(c) \/ DeleteContent(c)
           \/ IndexByHand(c) \/ Expire(c) \/ \E t \in Topics : Consume(t, c)
    PROVE  TypeOK'
<1> USE Bounds
<1>1. CASE CreateContent(c) \/ UpdateContent(c) \/ PublishContent(c)
  BY <1>1, AnnounceTypes DEF CreateContent, UpdateContent, PublishContent, Topics
<1>2. CASE DeleteContent(c)
  <2>1. content' \in [Ids -> Versions] /\ calm' = FALSE
    BY <1>2 DEF DeleteContent, TypeOK, Versions
  <2> QED BY <1>2, <2>1 DEF DeleteContent, TypeOK, consumed, stores, budgets
<1>3. CASE IndexByHand(c)
  <2>1. PICK category \in BOOLEAN :
           call' = [call EXCEPT !["hand"] = NewCall(c, 0, "hand", category)]
    BY <1>3 DEF IndexByHand
  <2>2. NewCall(c, 0, "hand", category) \in Call
    BY NewCallType DEF Versions
  <2>3. call' \in [Writers -> Call \cup {None}]
    BY <2>1, <2>2 DEF TypeOK
  <2>4. changes' \in 0..MaxChanges
    BY <1>3 DEF IndexByHand, TypeOK
  <2>5. calm' = FALSE
    BY <1>3 DEF IndexByHand
  <2> QED BY <1>3, <2>3, <2>4, <2>5 DEF IndexByHand, TypeOK, cms, consumed, stores
<1>4. CASE Expire(c)
  <2>1. dynamo' \in Entries
    BY <1>4 DEF Expire, TypeOK, Entries
  <2> QED BY <1>4, <2>1 DEF Expire, TypeOK, cms, consumed, budgets
<1>5. ASSUME NEW t \in Topics, Consume(t, c) PROVE TypeOK'
  <2>1. next[t][c] \in 1..Len(log[t][c]) /\ log[t][c] \in Seq(Versions)
    BY <1>5 DEF Consume, TypeOK
  <2>2. log[t][c][next[t][c]] \in Versions
    BY <2>1
  <2>3. NewCall(c, log[t][c][next[t][c]], t, FALSE) \in Call
    BY <2>2, NewCallType
  <2>4. call' \in [Writers -> Call \cup {None}]
    BY <1>5, <2>3 DEF Consume, TypeOK
  <2> QED BY <1>5, <2>4 DEF Consume, TypeOK, cms, consumed, stores, budgets
<1> QED BY <1>1, <1>2, <1>3, <1>4, <1>5

LEMMA ServiceTypes ==
    ASSUME TypeOK, CommittedWasRead, CommitOffsets \/ Restart
    PROVE  TypeOK'
<1>1. CASE CommitOffsets
  <2>1. committed' \in [Topics -> [Ids -> Nat]] /\ uncommitted' = {}
    BY <1>1 DEF CommitOffsets, TypeOK
  <2> QED BY <1>1, <2>1 DEF CommitOffsets, TypeOK, cms, stores, budgets
<1>2. CASE Restart
  <2>1. call' \in [Writers -> Call \cup {None}]
    BY <1>2 DEF Restart
  <2>2. reindex' \in Reindex /\ strays' \subseteq Item
    BY <1>2 DEF Restart, TypeOK, Reindex, NoReindex
  <2>3. failures' \in 0..MaxFailures
    BY <1>2, Bounds DEF Restart, TypeOK
  <2>4. table' \in Tables
    BY <1>2 DEF Restart, TypeOK, TableAfterStart, Tables
  <2>5. \A t \in Topics, x \in Ids :
           next'[t][x] \in Nat \ {0} /\ next'[t][x] <= Len(log[t][x]) + 1
    <3> TAKE t \in Topics, x \in Ids
    <3>1. log[t][x] \in Seq(Versions) /\ next[t][x] \in Nat /\ committed[t][x] \in Nat
      BY DEF TypeOK
    <3>2. committed[t][x] <= next[t][x] /\ next[t][x] <= Len(log[t][x]) + 1
      BY DEF TypeOK, CommittedWasRead
    <3>3. /\ Len(log[t][x]) \in Nat
          /\ next'[t][x] = IF committed[t][x] = 0 THEN Len(log[t][x]) + 1
                           ELSE committed[t][x]
      BY <1>2, <3>1 DEF Restart, ReplayFrom
    <3> QED BY <3>1, <3>2, <3>3
  <2>7. next' \in [Topics -> [Ids -> Nat \ {0}]] /\ uncommitted' = {}
    BY <1>2, <2>5 DEF Restart, ReplayFrom
  <2>6. calm' = FALSE
    BY <1>2 DEF Restart
  <2> QED BY <1>2, <2>1, <2>2, <2>3, <2>4, <2>5, <2>6, <2>7
          DEF Restart, TypeOK, cms, stores
<1> QED BY <1>1, <1>2

\* The rows of a list are items, those that are stored.
LEMMA FetchedType ==
    ASSUME TypeOK, NEW kind \in {"programs", "episodes"}, NEW rows \in FetchedRows(KindOf(kind))
    PROVE  /\ rows \subseteq Item
           /\ Current(rows)
<1>1. KindOf(kind) \subseteq Ids
  BY DEF KindOf, Ids
<1>2. rows \subseteq {RowOf(c) : c \in {x \in KindOf(kind) : content[x] # 0}}
  BY DEF FetchedRows, RowOf
<1>3. \A item \in rows : \E c \in Ids : content[c] # 0 /\ item = RowOf(c)
  BY <1>1, <1>2
<1>4. \A c \in Ids : RowOf(c).id = c /\ RowOf(c) \in Item
  BY DEF RowOf, Item, TypeOK
<1> QED BY <1>3, <1>4 DEF Current

LEMMA ReindexTypes ==
    ASSUME TypeOK, ReindexShape,
           \/ StartReindex \/ Fetch \/ FetchFails \/ IndexItem \/ ItemsDone \/ SendChunk
           \/ PutLands \/ PutFails \/ StrayFails \/ EndReindex
    PROVE  TypeOK'
<1> USE Bounds
<1>1. CASE StartReindex
  <2>1. reindex' \in Reindex
    BY <1>1 DEF StartReindex, Reindex, NoReindex
  <2>2. reindexes' \in 0..MaxReindexes
    BY <1>1 DEF StartReindex, TypeOK
  <2>3. calm' \in BOOLEAN
    BY <1>1 DEF StartReindex
  <2> QED BY <1>1, <2>1, <2>2, <2>3 DEF StartReindex, TypeOK, cms, consumed, stores
<1>2. CASE Fetch
  <2>1. reindex.pc \in {"programs", "episodes"}
    BY <1>2 DEF Fetch
  <2>2. PICK rows \in FetchedRows(KindOf(reindex.pc)) :
           reindex' = [reindex EXCEPT !.pc = "items", !.todo = rows,
                                      !.fetched = @ \cup {reindex.pc}]
    BY <1>2 DEF Fetch
  <2>3. reindex' \in Reindex
    BY <2>1, <2>2, FetchedType DEF TypeOK, Reindex
  <2> QED BY <1>2, <2>3 DEF Fetch, TypeOK, cms, consumed, stores, budgets
<1>3. CASE FetchFails
  <2>1. reindex' \in Reindex
    BY <1>3 DEF FetchFails, TypeOK, Reindex
  <2>2. failures' \in 0..MaxFailures /\ calm' = FALSE
    BY <1>3 DEF FetchFails, TypeOK
  <2> QED BY <1>3, <2>1, <2>2 DEF FetchFails, TypeOK, cms, consumed, stores
<1>4. CASE IndexItem
  <2>1. PICK item \in reindex.todo :
           call' = [call EXCEPT !["reindex"] =
                       NewCall(item.id, item.version, "reindex", FALSE)]
    BY <1>4 DEF IndexItem
  <2>2. item.id \in Ids /\ item.version \in Versions
    BY <2>1 DEF TypeOK, Reindex, Item
  <2>3. NewCall(item.id, item.version, "reindex", FALSE) \in Call
    BY <2>2, NewCallType
  <2>4. call' \in [Writers -> Call \cup {None}]
    BY <2>1, <2>3 DEF TypeOK
  <2> QED BY <1>4, <2>4 DEF IndexItem, TypeOK, cms, consumed, stores, budgets
<1>5. CASE ItemsDone
  <2>1. reindex' \in Reindex
    BY <1>5 DEF ItemsDone, TypeOK, Reindex, NoReindex
  <2> QED BY <1>5, <2>1 DEF ItemsDone, TypeOK, cms, consumed, stores, budgets
<1>6. CASE SendChunk
  <2>1. PICK chunk \in SUBSET reindex.batch :
           reindex' = [reindex EXCEPT !.batch = @ \ chunk, !.waiting = chunk]
    BY <1>6 DEF SendChunk
  <2>2. reindex' \in Reindex
    BY <2>1 DEF TypeOK, Reindex
  <2> QED BY <1>6, <2>2 DEF SendChunk, TypeOK, cms, consumed, stores, budgets
<1>7. CASE PutLands
  <2>1. PICK item \in reindex.waiting \cup strays :
           /\ dynamo' = [dynamo EXCEPT ![item.id] =
                            [version |-> item.version, from |-> "reindex",
                             category |-> FALSE]]
           /\ \/ /\ item \in reindex.waiting
                 /\ reindex' = [reindex EXCEPT !.waiting = @ \ {item}]
                 /\ UNCHANGED <<strays, calm>>
              \/ /\ item \in strays
                 /\ strays' = strays \ {item}
                 /\ calm' = FALSE
                 /\ UNCHANGED reindex
    BY <1>7 DEF PutLands
  <2>2. item \in Item
    BY <2>1 DEF TypeOK, Reindex
  <2>3. dynamo' \in Entries
    BY <2>1, <2>2 DEF TypeOK, Entries, Entry, Item
  <2>4. reindex' \in Reindex /\ strays' \subseteq Item /\ calm' \in BOOLEAN
    <3>1. reindex \in Reindex /\ strays \subseteq Item /\ calm \in BOOLEAN
      BY DEF TypeOK
    <3>2. CASE UNCHANGED reindex
      BY <2>1, <3>1, <3>2
    <3>3. CASE reindex' = [reindex EXCEPT !.waiting = @ \ {item}]
      BY <2>1, <3>1, <3>3 DEF Reindex
    <3> QED BY <2>1, <3>2, <3>3
  <2> QED BY <1>7, <2>3, <2>4 DEF PutLands, TypeOK, cms, consumed, budgets
<1>8. CASE PutFails
  <2>1. reindex' \in Reindex /\ strays' \subseteq Item
    BY <1>8 DEF PutFails, TypeOK, Reindex, NoReindex
  <2>2. failures' \in 0..MaxFailures
    BY <1>8, RefusedType DEF PutFails
  <2>3. calm' = FALSE
    BY <1>8 DEF PutFails
  <2> QED BY <1>8, <2>1, <2>2, <2>3 DEF PutFails, TypeOK, cms, consumed, stores
<1>9. CASE StrayFails
  <2>1. failures' \in 0..MaxFailures
    BY <1>9, RefusedType DEF StrayFails
  <2>2. strays' \subseteq Item
    BY <1>9 DEF StrayFails, TypeOK
  <2> QED BY <1>9, <2>1, <2>2 DEF StrayFails, TypeOK, cms, consumed, stores
<1>10. CASE EndReindex
  <2>1. reindex' \in Reindex
    BY <1>10 DEF EndReindex, Reindex, NoReindex
  <2> QED BY <1>10, <2>1 DEF EndReindex, TypeOK, cms, consumed, stores, budgets
<1> QED BY <1>1, <1>2, <1>3, <1>4, <1>5, <1>6, <1>7, <1>8, <1>9, <1>10

\* Who takes a step.
LEMMA NextCases ==
    ASSUME Next
    PROVE  \/ \E c \in Ids : \/ CreateContent(c) \/ UpdateContent(c) \/ PublishContent(c)
                             \/ DeleteContent(c) \/ IndexByHand(c) \/ Expire(c)
                             \/ \E t \in Topics : Consume(t, c)
           \/ \E w \in Writers : IndexStep(w)
           \/ CommitOffsets \/ Restart
           \/ StartReindex \/ Fetch \/ FetchFails \/ IndexItem \/ ItemsDone \/ SendChunk
           \/ PutLands \/ PutFails \/ StrayFails \/ EndReindex
BY DEF Next, ConsumeStep, ReindexStep, Writers

LEMMA TypesKept ==
    ASSUME TypeOK, VersionsCounted, CommittedWasRead, CallsKnown, ReindexShape, [Next]_vars
    PROVE  TypeOK'
<1>1. CASE UNCHANGED vars
  BY <1>1 DEF vars, cms, consumed, stores, budgets, TypeOK
<1>2. CASE Next
  BY <1>2, NextCases, CallerTypes, IndexTypes, ServiceTypes, ReindexTypes
<1> QED BY <1>1, <1>2

-----------------------------------------------------------------------------
(* Events and what they bring.                                             *)

\* What an event adds to its log.
LEMMA Announced ==
    ASSUME TypeOK, NEW c \in Ids, NEW t \in Topics, Announce(c, t)
    PROVE  /\ latest'[c] = latest[c] + 1 /\ content'[c] = latest[c] + 1
           /\ \A x \in Ids : x # c => latest'[x] = latest[x] /\ content'[x] = content[x]
           /\ Len(log'[t][c]) = Len(log[t][c]) + 1
           /\ log'[t][c][Len(log[t][c]) + 1] = latest[c] + 1
           /\ \A u \in Topics, x \in Ids :
                 \A i \in 1..Len(log[u][x]) : log'[u][x][i] = log[u][x][i]
           /\ \A u \in Topics, x \in Ids : u # t \/ x # c => log'[u][x] = log[u][x]
<1>1. log[t][c] \in Seq(Versions)
  BY DEF TypeOK
<1>2. log'[t][c] = Append(log[t][c], latest[c] + 1)
  BY DEF Announce, TypeOK
<1>3. \A u \in Topics, x \in Ids : u # t \/ x # c => log'[u][x] = log[u][x]
  BY DEF Announce, TypeOK
<1>4. /\ Len(log'[t][c]) = Len(log[t][c]) + 1
      /\ log'[t][c][Len(log[t][c]) + 1] = latest[c] + 1
      /\ \A i \in 1..Len(log[t][c]) : log'[t][c][i] = log[t][c][i]
  BY <1>1, <1>2
<1>5. /\ latest'[c] = latest[c] + 1 /\ content'[c] = latest[c] + 1
      /\ \A x \in Ids : x # c => latest'[x] = latest[x] /\ content'[x] = content[x]
  BY DEF Announce, TypeOK
<1> QED BY <1>3, <1>4, <1>5

LEMMA Announces ==
    ASSUME NEW c \in Ids, CreateContent(c) \/ UpdateContent(c) \/ PublishContent(c)
    PROVE  \E t \in Topics : Announce(c, t)
BY DEF CreateContent, UpdateContent, PublishContent, Topics

LEMMA VersionsKept ==
    ASSUME TypeOK, VersionsCounted, [Next]_vars
    PROVE  VersionsCounted'
<1> USE DEF VersionsCounted
<1>1. \A x \in Ids : content[x] \in Nat /\ latest[x] \in Nat
  BY DEF TypeOK, Versions
<1>2. changes \in Nat
  BY DEF TypeOK
<1>3. ASSUME NEW c \in Ids, NEW t \in Topics, Announce(c, t) PROVE VersionsCounted'
  <2>1. changes' = changes + 1
    BY <1>3 DEF Announce
  <2> QED BY <1>1, <1>2, <1>3, <2>1, Announced
<1>4. ASSUME NEW c \in Ids, DeleteContent(c) PROVE VersionsCounted'
  BY <1>1, <1>4 DEF DeleteContent, TypeOK, budgets
<1>5. ASSUME NEW c \in Ids, IndexByHand(c) PROVE VersionsCounted'
  BY <1>1, <1>2, <1>5 DEF IndexByHand, cms
<1>6. CASE UNCHANGED <<content, latest, changes>>
  BY <1>6
<1>7. ASSUME NEW w \in Writers, IndexStep(w) PROVE UNCHANGED <<content, latest, changes>>
  BY <1>7 DEF IndexStep, DynamoWrite, DynamoWriteFails, PostgresWrite, PostgresWriteFails,
              cms, budgets
<1>8. ASSUME NEW c \in Ids, Expire(c) \/ \E t \in Topics : Consume(t, c)
      PROVE  UNCHANGED <<content, latest, changes>>
  BY <1>8 DEF Expire, Consume, cms, budgets
<1>9. CASE CommitOffsets \/ Restart \/ StartReindex \/ Fetch \/ FetchFails \/ IndexItem
           \/ ItemsDone \/ SendChunk \/ PutLands \/ PutFails \/ StrayFails \/ EndReindex
  BY <1>9, <1>6 DEF CommitOffsets, Restart, StartReindex, Fetch, FetchFails, IndexItem,
      ItemsDone, SendChunk, PutLands, PutFails, StrayFails, EndReindex, cms, budgets
<1>10. CASE UNCHANGED vars
  BY <1>10, <1>6 DEF vars, cms, budgets
<1> QED BY <1>3, <1>4, <1>5, <1>6, <1>7, <1>8, <1>9, <1>10, NextCases, Announces

\* Only events are appended to the logs.
LEMMA LogSteps ==
    ASSUME [Next]_vars
    PROVE  \/ \E c \in Ids, t \in Topics : Announce(c, t)
           \/ UNCHANGED <<log, latest>>
<1>1. ASSUME NEW c \in Ids, \/ DeleteContent(c) \/ IndexByHand(c) \/ Expire(c)
                            \/ \E t \in Topics : Consume(t, c)
      PROVE  UNCHANGED <<log, latest>>
  BY <1>1 DEF DeleteContent, IndexByHand, Expire, Consume, cms
<1>2. ASSUME NEW w \in Writers, IndexStep(w) PROVE UNCHANGED <<log, latest>>
  BY <1>2 DEF IndexStep, DynamoWrite, DynamoWriteFails, PostgresWrite, PostgresWriteFails, cms
<1>3. CASE CommitOffsets \/ Restart \/ StartReindex \/ Fetch \/ FetchFails \/ IndexItem
           \/ ItemsDone \/ SendChunk \/ PutLands \/ PutFails \/ StrayFails \/ EndReindex
  BY <1>3 DEF CommitOffsets, Restart, StartReindex, Fetch, FetchFails, IndexItem,
      ItemsDone, SendChunk, PutLands, PutFails, StrayFails, EndReindex, cms
<1>4. CASE UNCHANGED vars
  BY <1>4 DEF vars, cms
<1> QED BY <1>1, <1>2, <1>3, <1>4, NextCases, Announces

\* The events of a log have versions.
LEMMA LogFacts ==
    ASSUME TypeOK, NEW t \in Topics, NEW c \in Ids
    PROVE  /\ Len(log[t][c]) \in Nat
           /\ \A i \in 1..Len(log[t][c]) : log[t][c][i] \in Nat
<1>1. log[t][c] \in Seq(Versions)
  BY DEF TypeOK
<1>2. \A i \in 1..Len(log[t][c]) : log[t][c][i] \in Versions
  BY <1>1
<1> QED BY <1>1, <1>2 DEF Versions

LEMMA LogKept ==
    ASSUME TypeOK, LogOrdered, [Next]_vars
    PROVE  LogOrdered'
<1>1. ASSUME NEW c \in Ids, NEW t \in Topics, Announce(c, t) PROVE LogOrdered'
  <2>1. ASSUME NEW u \in Topics, NEW x \in Ids
        PROVE  /\ \A i \in 1..Len(log'[u][x]) : log'[u][x][i] <= latest'[x]
               /\ \A i, j \in 1..Len(log'[u][x]) : i < j => log'[u][x][i] < log'[u][x][j]
    <3>1. latest[x] \in Nat
      BY DEF TypeOK, Versions
    <3>2. /\ Len(log[u][x]) \in Nat /\ latest[x] \in Nat
          /\ \A i \in 1..Len(log[u][x]) : log[u][x][i] \in Nat
      BY <3>1, LogFacts
    <3>3. /\ \A i \in 1..Len(log[u][x]) : log[u][x][i] <= latest[x]
          /\ \A i, j \in 1..Len(log[u][x]) : i < j => log[u][x][i] < log[u][x][j]
      BY DEF LogOrdered
    <3>4. \A i \in 1..Len(log[u][x]) : log'[u][x][i] = log[u][x][i]
      BY <1>1, Announced
    <3>5. CASE u = t /\ x = c
      <4>1. /\ Len(log'[u][x]) = Len(log[u][x]) + 1
            /\ log'[u][x][Len(log[u][x]) + 1] = latest[x] + 1
            /\ latest'[x] = latest[x] + 1
        BY <1>1, <3>5, Announced
      <4> DEFINE n == Len(log[u][x])
      <4>2. \A i \in 1..Len(log'[u][x]) : i \in 1..n \/ i = n + 1
        BY <3>2, <4>1
      <4>3. \A i \in 1..n : /\ log'[u][x][i] \in Nat
                            /\ log'[u][x][i] <= latest[x]
        BY <3>2, <3>3, <3>4
      <4>4. ASSUME NEW i \in 1..Len(log'[u][x]) PROVE log'[u][x][i] <= latest'[x]
        <5>1. CASE i \in 1..n
          BY <3>2, <4>1, <4>3, <5>1
        <5>2. CASE i = n + 1
          BY <3>2, <4>1, <5>2
        <5> QED BY <4>2, <5>1, <5>2
      <4>5. ASSUME NEW i \in 1..Len(log'[u][x]), NEW j \in 1..Len(log'[u][x]), i < j
            PROVE  log'[u][x][i] < log'[u][x][j]
        <5>1. i \in 1..n
          BY <3>2, <4>1, <4>5
        <5>2. CASE j \in 1..n
          <6>1. log[u][x][i] < log[u][x][j]
            BY <3>3, <4>5, <5>1, <5>2
          <6> QED BY <3>4, <5>1, <5>2, <6>1
        <5>3. CASE j = n + 1
          <6>1. log'[u][x][i] \in Nat /\ log'[u][x][i] <= latest[x]
            BY <4>3, <5>1
          <6> QED BY <3>2, <4>1, <5>3, <6>1
        <5> QED BY <4>2, <5>2, <5>3
      <4> QED BY <4>4, <4>5
    <3>6. CASE ~(u = t /\ x = c)
      <4>1. log'[u][x] = log[u][x]
        BY <1>1, <3>6, Announced
      <4>2. latest'[x] = latest[x] \/ latest'[x] = latest[x] + 1
        BY <1>1, Announced
      <4> QED BY <3>2, <3>3, <4>1, <4>2
    <3> QED BY <3>5, <3>6
  <2> QED BY <2>1 DEF LogOrdered
<1>2. CASE UNCHANGED <<log, latest>>
  BY <1>2 DEF LogOrdered
<1> QED BY <1>1, <1>2, LogSteps

\* The consumer moves on by one event when a call of its ends.
LEMMA EventEnds ==
    ASSUME TypeOK, CallsKnown, NEW w \in Writers, NEW ok \in BOOLEAN, call[w] # None,
           EndCall(w, ok)
    PROVE  \A t \in Topics, c \in Ids :
              next'[t][c] = next[t][c] \/ next'[t][c] = next[t][c] + 1
<1>1. CASE w # "consumer"
  BY <1>1 DEF EndCall
<1>2. CASE w = "consumer"
  <2> DEFINE c == call["consumer"].id
             t == call["consumer"].entry.from
  <2>1. c \in Ids /\ t \in Topics
    BY <1>2 DEF CallsKnown, TypeOK, Call
  <2>2. next' = [next EXCEPT ![t][c] = @ + 1]
    BY <1>2 DEF EndCall, AfterEvent
  <2>3. next \in [Topics -> [Ids -> Nat \ {0}]]
    BY DEF TypeOK
  <2> HIDE DEF c, t
  <2>4. ASSUME NEW u \in Topics, NEW x \in Ids
        PROVE  next'[u][x] = next[u][x] \/ next'[u][x] = next[u][x] + 1
    <3>1. CASE u = t /\ x = c
      BY <2>1, <2>2, <2>3, <3>1
    <3>2. CASE ~(u = t /\ x = c)
      BY <2>1, <2>2, <2>3, <3>2
    <3> QED BY <3>1, <3>2
  <2> QED BY <2>4
<1> QED BY <1>1, <1>2

LEMMA CommittedKept ==
    ASSUME TypeOK, CallsKnown, CommittedWasRead, [Next]_vars
    PROVE  CommittedWasRead'
<1> USE DEF CommittedWasRead
<1>1. \A t \in Topics, c \in Ids : next[t][c] \in Nat /\ committed[t][c] \in Nat
  BY DEF TypeOK
<1>2. CASE UNCHANGED <<next, committed>>
  BY <1>2
<1>3. ASSUME NEW w \in Writers, IndexStep(w) PROVE CommittedWasRead'
  <2>1. ASSUME NEW ok \in BOOLEAN, call[w] # None, EndCall(w, ok), UNCHANGED committed
        PROVE  CommittedWasRead'
    <3> TAKE t \in Topics, c \in Ids
    <3>1. next'[t][c] = next[t][c] \/ next'[t][c] = next[t][c] + 1
      BY <2>1, EventEnds
    <3> QED BY <1>1, <2>1, <3>1
  <2>2. CASE DynamoWriteFails(w)
    BY <1>2, <2>2 DEF DynamoWriteFails, consumed
  <2>3. CASE DynamoWrite(w) \/ PostgresWrite(w)
    BY <2>1, <2>3 DEF DynamoWrite, PostgresWrite
  <2>4. CASE PostgresWriteFails(w)
    BY <2>1, <2>4 DEF PostgresWriteFails
  <2> QED BY <1>3, <2>2, <2>3, <2>4 DEF IndexStep
<1>4. CASE CommitOffsets
  <2> TAKE t \in Topics, c \in Ids
  <2>1. /\ next'[t][c] = next[t][c]
        /\ committed'[t][c] = IF <<t, c>> \in uncommitted THEN next[t][c]
                              ELSE committed[t][c]
    BY <1>4 DEF CommitOffsets
  <2> QED BY <1>1, <2>1
<1>8. CASE Restart
  <2> TAKE t \in Topics, c \in Ids
  <2>1. Len(log[t][c]) \in Nat
    BY DEF TypeOK
  <2>2. next'[t][c] = IF committed[t][c] = 0 THEN Len(log[t][c]) + 1 ELSE committed[t][c]
    BY <1>8 DEF Restart, ReplayFrom
  <2> QED BY <1>1, <1>8, <2>1, <2>2 DEF Restart
<1>5. ASSUME NEW c \in Ids,
             \/ CreateContent(c) \/ UpdateContent(c) \/ PublishContent(c) \/ DeleteContent(c)
             \/ IndexByHand(c) \/ Expire(c) \/ \E t \in Topics : Consume(t, c)
      PROVE  UNCHANGED <<next, committed>>
  BY <1>5 DEF CreateContent, UpdateContent, PublishContent, Announce, DeleteContent,
              IndexByHand, Expire, Consume, consumed
<1>6. CASE StartReindex \/ Fetch \/ FetchFails \/ IndexItem \/ ItemsDone \/ SendChunk
           \/ PutLands \/ PutFails \/ StrayFails \/ EndReindex
  BY <1>2, <1>6 DEF StartReindex, Fetch, FetchFails, IndexItem, ItemsDone, SendChunk,
                    PutLands, PutFails, StrayFails, EndReindex, consumed
<1>7. CASE UNCHANGED vars
  BY <1>2, <1>7 DEF vars, consumed
<1> QED BY <1>2, <1>3, <1>4, <1>5, <1>6, <1>7, <1>8, NextCases

\* Steps that touch none of what a call is known by.
LEMMA CallFrame ==
    ASSUME CallsKnown, UNCHANGED <<call, next, log>>
    PROVE  CallsKnown'
BY DEF CallsKnown

LEMMA CallsKnownKept ==
    ASSUME TypeOK, CallsKnown, [Next]_vars
    PROVE  CallsKnown'
<1>1. ASSUME NEW c \in Ids, NEW t \in Topics, Announce(c, t) PROVE CallsKnown'
  <2>1. UNCHANGED <<call, next>>
    BY <1>1 DEF Announce, consumed
  <2>2. ASSUME call["consumer"] # None
        PROVE  LET x == call["consumer"].id
                   u == call["consumer"].entry.from
               IN /\ u \in Topics
                  /\ next[u][x] <= Len(log'[u][x])
                  /\ call["consumer"].entry.version = log'[u][x][next[u][x]]
    <3> DEFINE x == call["consumer"].id
               u == call["consumer"].entry.from
    <3>1. /\ x \in Ids /\ u \in Topics /\ next[u][x] <= Len(log[u][x])
          /\ call["consumer"].entry.version = log[u][x][next[u][x]]
      BY <2>2 DEF CallsKnown, TypeOK, Call, Writers
    <3>2. next[u][x] \in Nat \ {0}
      BY <3>1 DEF TypeOK
    <3> HIDE DEF x, u
    <3>3. Len(log[u][x]) \in Nat
      BY <3>1, LogFacts
    <3>4. log'[u][x][next[u][x]] = log[u][x][next[u][x]]
      BY <1>1, <3>1, <3>2, <3>3, Announced
    <3>5. Len(log'[u][x]) = Len(log[u][x]) \/ Len(log'[u][x]) = Len(log[u][x]) + 1
      BY <1>1, <3>1, Announced
    <3>6. /\ u \in Topics
          /\ next[u][x] <= Len(log'[u][x])
          /\ call["consumer"].entry.version = log'[u][x][next[u][x]]
      BY <3>1, <3>2, <3>3, <3>4, <3>5
    <3> QED BY <3>6 DEF x, u
  <2> QED BY <2>1, <2>2 DEF CallsKnown
<1>2. ASSUME NEW c \in Ids, NEW t \in Topics, Consume(t, c) PROVE CallsKnown'
  <2>1. /\ call'["consumer"] = NewCall(c, log[t][c][next[t][c]], t, FALSE)
        /\ call'["hand"] = call["hand"] /\ call'["reindex"] = call["reindex"]
        /\ next[t][c] <= Len(log[t][c]) /\ UNCHANGED <<next, log>>
    BY <1>2 DEF Consume, TypeOK, Writers, consumed
  <2>2. /\ call'["consumer"].id = c /\ call'["consumer"].entry.from = t
        /\ call'["consumer"].entry.version = log[t][c][next[t][c]]
    BY <2>1 DEF NewCall
  <2> QED BY <2>1, <2>2 DEF CallsKnown
<1>3. ASSUME NEW c \in Ids, IndexByHand(c) PROVE CallsKnown'
  <2>1. PICK category \in BOOLEAN :
           call' = [call EXCEPT !["hand"] = NewCall(c, 0, "hand", category)]
    BY <1>3 DEF IndexByHand
  <2>2. /\ call'["hand"].entry.from = "hand"
        /\ call'["consumer"] = call["consumer"] /\ call'["reindex"] = call["reindex"]
    BY <2>1 DEF TypeOK, Writers, NewCall
  <2>3. UNCHANGED <<next, log>>
    BY <1>3 DEF IndexByHand, consumed
  <2> QED BY <2>2, <2>3 DEF CallsKnown
<1>4. ASSUME NEW w \in Writers, IndexStep(w) PROVE CallsKnown'
  <2>1. ASSUME NEW ok \in BOOLEAN, EndCall(w, ok), UNCHANGED log PROVE CallsKnown'
    <3>1. call' = [call EXCEPT ![w] = None]
      BY <2>1 DEF EndCall
    <3>2. \A v \in Writers : call'[v] = IF v = w THEN None ELSE call[v]
      BY <3>1 DEF TypeOK
    <3>3. w # "consumer" => next' = next
      BY <2>1 DEF EndCall
    <3> QED BY <2>1, <3>2, <3>3 DEF CallsKnown, Writers
  <2>2. CASE DynamoWriteFails(w)
    <3>1. call[w] \in Call
      BY <2>2 DEF DynamoWriteFails, TypeOK
    <3>2. \A v \in Writers : call'[v] = IF v = w THEN [call[w] EXCEPT !.pc = "postgres"]
                                                ELSE call[v]
      BY <2>2 DEF DynamoWriteFails, AfterPutFails, TypeOK
    <3>3. \A v \in Writers : call'[v] # None =>
             /\ call[v] # None
             /\ call'[v].id = call[v].id /\ call'[v].entry = call[v].entry
      BY <2>2, <3>1, <3>2 DEF DynamoWriteFails, Call
    <3>4. UNCHANGED <<next, log>>
      BY <2>2 DEF DynamoWriteFails, consumed
    <3> QED BY <3>3, <3>4 DEF CallsKnown, Writers
  <2>3. CASE DynamoWrite(w) \/ PostgresWrite(w)
    BY <2>1, <2>3 DEF DynamoWrite, PostgresWrite
  <2>4. CASE PostgresWriteFails(w)
    BY <2>1, <2>4 DEF PostgresWriteFails
  <2> QED BY <1>4, <2>2, <2>3, <2>4 DEF IndexStep
<1>5. CASE Restart
  BY <1>5 DEF Restart, CallsKnown, Writers
<1>6. CASE IndexItem
  <2>1. PICK item \in reindex.todo :
           call' = [call EXCEPT !["reindex"] =
                       NewCall(item.id, item.version, "reindex", FALSE)]
    BY <1>6 DEF IndexItem
  <2>2. /\ call'["reindex"].entry.from = "reindex"
        /\ call'["consumer"] = call["consumer"] /\ call'["hand"] = call["hand"]
    BY <2>1 DEF TypeOK, Writers, NewCall
  <2>3. UNCHANGED <<next, log>>
    BY <1>6 DEF IndexItem, consumed
  <2> QED BY <2>2, <2>3 DEF CallsKnown
<1>7. ASSUME NEW c \in Ids, DeleteContent(c) \/ Expire(c) PROVE CallsKnown'
  BY <1>7, CallFrame DEF DeleteContent, Expire, consumed
<1>8. CASE CommitOffsets \/ StartReindex \/ Fetch \/ FetchFails \/ ItemsDone \/ SendChunk
           \/ PutLands \/ PutFails \/ StrayFails \/ EndReindex
  BY <1>8, CallFrame DEF CommitOffsets, StartReindex, Fetch, FetchFails, ItemsDone,
      SendChunk, PutLands, PutFails, StrayFails, EndReindex, consumed
<1>9. CASE UNCHANGED vars
  BY <1>9, CallFrame DEF vars, consumed
<1> QED BY <1>1, <1>2, <1>3, <1>4, <1>5, <1>6, <1>7, <1>8, <1>9, NextCases, Announces

LEMMA EntriesHaveEventsKept ==
    ASSUME TypeOK, CallsKnown, EntriesHaveEvents, [Next]_vars
    PROVE  EntriesHaveEvents'
<1>1. ASSUME NEW c \in Ids, NEW t \in Topics, Announce(c, t) PROVE EntriesHaveEvents'
  <2>1. UNCHANGED dynamo
    BY <1>1 DEF Announce, stores
  <2>2. ASSUME NEW x \in Ids, dynamo[x] # None, dynamo[x].from \in Topics
        PROVE  \E i \in 1..Len(log'[dynamo[x].from][x]) :
                  log'[dynamo[x].from][x][i] = dynamo[x].version
    <3> DEFINE u == dynamo[x].from
    <3>1. u \in Topics /\ \E i \in 1..Len(log[u][x]) : log[u][x][i] = dynamo[x].version
      BY <2>2 DEF EntriesHaveEvents
    <3> HIDE DEF u
    <3>2. PICK i \in 1..Len(log[u][x]) : log[u][x][i] = dynamo[x].version
      BY <3>1
    <3>3. Len(log[u][x]) \in Nat
      BY <3>1, LogFacts
    <3>4. log'[u][x][i] = log[u][x][i]
      BY <1>1, <3>1, Announced
    <3>5. Len(log'[u][x]) = Len(log[u][x]) \/ Len(log'[u][x]) = Len(log[u][x]) + 1
      BY <1>1, <3>1, Announced
    <3>6. i \in 1..Len(log'[u][x])
      BY <3>3, <3>5
    <3> QED BY <3>2, <3>4, <3>6 DEF u
  <2> QED BY <2>1, <2>2 DEF EntriesHaveEvents
<1>2. ASSUME NEW w \in Writers, DynamoWrite(w) PROVE EntriesHaveEvents'
  <2> DEFINE x == call[w].id
             e == call[w].entry
  <2>1. call[w] # None /\ x \in Ids
    BY <1>2 DEF DynamoWrite, TypeOK, Call
  <2>2. \A c \in Ids : dynamo'[c] = IF c = x THEN e ELSE dynamo[c]
    BY <1>2 DEF DynamoWrite, PutDynamo, TypeOK, Entries
  <2>3. UNCHANGED log
    BY <1>2 DEF DynamoWrite
  <2>4. ASSUME e.from \in Topics
        PROVE  \E i \in 1..Len(log[e.from][x]) : log[e.from][x][i] = e.version
    <3>1. w = "consumer"
      BY <2>1, <2>4 DEF CallsKnown, Writers, Topics
    <3>2. next[e.from][x] <= Len(log[e.from][x]) /\ e.version = log[e.from][x][next[e.from][x]]
      BY <2>1, <3>1 DEF CallsKnown
    <3>3. next[e.from][x] \in Nat \ {0}
      BY <2>1, <2>4 DEF TypeOK
    <3>4. Len(log[e.from][x]) \in Nat
      BY <2>1, <2>4, LogFacts
    <3>5. next[e.from][x] \in 1..Len(log[e.from][x])
      BY <3>2, <3>3, <3>4
    <3> QED BY <3>2, <3>5
  <2> QED BY <2>1, <2>2, <2>3, <2>4 DEF EntriesHaveEvents
<1>3. CASE PutLands
  <2>1. PICK item \in reindex.waiting \cup strays :
           dynamo' = [dynamo EXCEPT ![item.id] =
                         [version |-> item.version, from |-> "reindex", category |-> FALSE]]
    BY <1>3 DEF PutLands
  <2>2. \A c \in Ids : dynamo'[c] = dynamo[c] \/ dynamo'[c].from = "reindex"
    BY <2>1 DEF TypeOK, Entries
  <2>3. UNCHANGED log
    BY <1>3 DEF PutLands
  <2> QED BY <2>2, <2>3 DEF EntriesHaveEvents, Topics
<1>4. ASSUME NEW c \in Ids, Expire(c) PROVE EntriesHaveEvents'
  <2>1. \A x \in Ids : dynamo'[x] = IF x = c THEN None ELSE dynamo[x]
    BY <1>4 DEF Expire, TypeOK, Entries
  <2>2. UNCHANGED log
    BY <1>4 DEF Expire
  <2> QED BY <2>1, <2>2 DEF EntriesHaveEvents
<1>5. CASE UNCHANGED <<dynamo, log>>
  BY <1>5 DEF EntriesHaveEvents
<1>6. ASSUME NEW c \in Ids, \/ DeleteContent(c) \/ IndexByHand(c)
                            \/ \E t \in Topics : Consume(t, c)
      PROVE  UNCHANGED <<dynamo, log>>
  BY <1>6 DEF DeleteContent, IndexByHand, Consume, stores
<1>7. ASSUME NEW w \in Writers, DynamoWriteFails(w) \/ PostgresWrite(w) \/ PostgresWriteFails(w)
      PROVE  UNCHANGED <<dynamo, log>>
  BY <1>7 DEF DynamoWriteFails, PostgresWrite, PostgresWriteFails, stores
<1>8. CASE CommitOffsets \/ Restart \/ StartReindex \/ Fetch \/ FetchFails \/ IndexItem
           \/ ItemsDone \/ SendChunk \/ PutFails \/ StrayFails \/ EndReindex
  BY <1>5, <1>8 DEF CommitOffsets, Restart, StartReindex, Fetch, FetchFails, IndexItem,
      ItemsDone, SendChunk, PutFails, StrayFails, EndReindex, stores
<1>9. CASE UNCHANGED vars
  BY <1>5, <1>9 DEF vars, stores
<1> QED BY <1>1, <1>2, <1>3, <1>4, <1>5, <1>6, <1>7, <1>8, <1>9, NextCases, Announces
        DEF IndexStep

-----------------------------------------------------------------------------
(* The reindex.                                                            *)

\* Whoever ends a call leaves the reindex where it is.
LEMMA EndCallShape ==
    ASSUME TypeOK, ReindexShape, NEW w \in Writers, NEW ok \in BOOLEAN, call[w] # None,
           EndCall(w, ok)
    PROVE  ReindexShape' /\ reindex'.pc = reindex.pc
<1>1. \A v \in Writers : call'[v] = IF v = w THEN None ELSE call[v]
  BY DEF EndCall, TypeOK
<1>2. CASE w = "reindex"
  <2>1. reindex.pc = "items"
    BY <1>2 DEF ReindexShape
  <2>2. /\ reindex'.pc = "items" /\ reindex'.fetched = reindex.fetched
        /\ reindex'.waiting = reindex.waiting
    BY <1>2, <2>1 DEF EndCall, AfterItem, TypeOK, Reindex
  <2> QED BY <1>1, <1>2, <2>1, <2>2 DEF ReindexShape, Writers
<1>3. CASE w # "reindex"
  BY <1>1, <1>3 DEF EndCall, ReindexShape, Writers
<1> QED BY <1>2, <1>3

LEMMA ReindexShapeKept ==
    ASSUME TypeOK, ReindexShape, [Next]_vars
    PROVE  ReindexShape'
<1> USE DEF ReindexShape
<1>1. reindex \in Reindex
  BY DEF TypeOK
<1>2. CASE UNCHANGED <<reindex, call>>
  BY <1>2
<1>3. ASSUME NEW w \in Writers, IndexStep(w) PROVE ReindexShape'
  <2>1. CASE DynamoWriteFails(w)
    <3>1. /\ \A v \in Writers : call'[v] # None => call[v] # None
          /\ UNCHANGED reindex
      BY <2>1 DEF DynamoWriteFails, AfterPutFails, TypeOK
    <3> QED BY <3>1 DEF Writers
  <2>2. CASE DynamoWrite(w)
    BY <2>2, EndCallShape DEF DynamoWrite
  <2>3. CASE PostgresWrite(w)
    BY <2>3, EndCallShape DEF PostgresWrite
  <2>4. CASE PostgresWriteFails(w)
    BY <2>4, EndCallShape DEF PostgresWriteFails
  <2> QED BY <1>3, <2>1, <2>2, <2>3, <2>4 DEF IndexStep
<1>4. ASSUME NEW c \in Ids, IndexByHand(c) \/ \E t \in Topics : Consume(t, c)
      PROVE  call'["reindex"] = call["reindex"] /\ UNCHANGED reindex
  BY <1>4 DEF IndexByHand, Consume, TypeOK, Writers
<1>5. CASE StartReindex
  BY <1>5 DEF StartReindex, NoReindex
<1>6. CASE Fetch
  <2>1. PICK rows \in FetchedRows(KindOf(reindex.pc)) :
           reindex' = [reindex EXCEPT !.pc = "items", !.todo = rows,
                                      !.fetched = @ \cup {reindex.pc}]
    BY <1>6 DEF Fetch
  <2>2. /\ reindex'.pc = "items" /\ reindex'.fetched = reindex.fetched \cup {reindex.pc}
        /\ reindex'.waiting = reindex.waiting
    BY <1>1, <2>1 DEF Reindex
  <2>3. reindex.pc \in {"programs", "episodes"}
    BY <1>6 DEF Fetch
  <2> QED BY <2>2, <2>3
<1>7. CASE FetchFails
  <2>1. /\ reindex'.pc = "items" /\ reindex'.fetched = reindex.fetched \cup {reindex.pc}
        /\ reindex'.waiting = reindex.waiting
    BY <1>1, <1>7 DEF FetchFails, Reindex
  <2>2. reindex.pc \in {"programs", "episodes"}
    BY <1>7 DEF FetchFails
  <2> QED BY <2>1, <2>2
<1>8. CASE IndexItem
  BY <1>8 DEF IndexItem
<1>9. CASE ItemsDone
  <2>1. /\ reindex.pc = "items" /\ call["reindex"] = None /\ reindex.todo = {}
        /\ "programs" \in reindex.fetched /\ UNCHANGED call
    BY <1>9 DEF ItemsDone
  <2>2. reindex.fetched \subseteq {"programs", "episodes"}
    BY <1>1 DEF Reindex
  <2>3. CASE "episodes" \notin reindex.fetched
    <3>1. /\ reindex'.pc = "episodes" /\ reindex'.fetched = reindex.fetched
          /\ reindex'.todo = {} /\ reindex'.waiting = reindex.waiting
      BY <1>1, <1>9, <2>1, <2>3 DEF ItemsDone, Reindex
    <3> QED BY <2>1, <2>2, <2>3, <3>1
  <2>4. CASE "episodes" \in reindex.fetched /\ DynamoEnabled
    <3>1. /\ reindex'.pc = "batch" /\ reindex'.fetched = reindex.fetched
          /\ reindex'.todo = {} /\ reindex'.waiting = reindex.waiting
      BY <1>1, <1>9, <2>1, <2>4 DEF ItemsDone, Reindex
    <3> QED BY <2>1, <2>2, <2>4, <3>1
  <2>5. CASE "episodes" \in reindex.fetched /\ ~DynamoEnabled
    BY <1>9, <2>1, <2>5 DEF ItemsDone, NoReindex
  <2> QED BY <2>3, <2>4, <2>5
<1>10. CASE SendChunk
  <2>1. /\ reindex'.pc = reindex.pc /\ reindex'.fetched = reindex.fetched
        /\ reindex'.todo = reindex.todo /\ reindex.pc = "batch" /\ UNCHANGED call
    BY <1>1, <1>10 DEF SendChunk, Reindex
  <2> QED BY <2>1
<1>11. CASE PutLands
  <2>1. /\ reindex'.pc = reindex.pc /\ reindex'.fetched = reindex.fetched
        /\ reindex'.todo = reindex.todo /\ UNCHANGED call
        /\ reindex'.waiting \subseteq reindex.waiting
    BY <1>1, <1>11 DEF PutLands, Reindex
  <2> QED BY <2>1
<1>12. CASE PutFails
  <2>1. call["reindex"] = None
    BY <1>12 DEF PutFails
  <2> QED BY <1>12, <2>1 DEF PutFails, NoReindex
<1>13. CASE EndReindex
  BY <1>13 DEF EndReindex, NoReindex
<1>14. CASE Restart
  BY <1>14 DEF Restart, NoReindex, Writers
<1>15. ASSUME NEW c \in Ids,
              \/ CreateContent(c) \/ UpdateContent(c) \/ PublishContent(c)
              \/ DeleteContent(c) \/ Expire(c)
       PROVE  UNCHANGED <<reindex, call>>
  BY <1>15 DEF CreateContent, UpdateContent, PublishContent, Announce, DeleteContent, Expire
<1>16. CASE CommitOffsets \/ StrayFails \/ UNCHANGED vars
  BY <1>2, <1>16 DEF CommitOffsets, StrayFails, vars
<1> QED BY <1>2, <1>3, <1>4, <1>5, <1>6, <1>7, <1>8, <1>9, <1>10, <1>11, <1>12, <1>13,
           <1>14, <1>15, <1>16, NextCases

\* A list of the CMS service has all rows of a kind that fits a page.
LEMMA FetchedAll ==
    ASSUME TypeOK, NEW kind \in SUBSET Ids, IsFiniteSet(kind), Cardinality(kind) <= Page,
           NEW rows \in FetchedRows(kind)
    PROVE  \A c \in kind : content[c] # 0 => RowOf(c) \in rows
<1> DEFINE stored == {x \in kind : content[x] # 0}
           all == {RowOf(c) : c \in stored}
           f == [c \in stored |-> RowOf(c)]
<1>1. IsFiniteSet(stored) /\ Cardinality(stored) <= Cardinality(kind)
  <2>1. stored \in SUBSET kind
    OBVIOUS
  <2> QED BY <2>1, FS_Subset
<1>2. f \in Surjection(stored, all)
  BY DEF Surjection
<1>3. IsFiniteSet(all) /\ Cardinality(all) <= Cardinality(stored)
  BY <1>1, <1>2, FS_Surjection
<1>4. rows \in SUBSET all
      /\ Cardinality(rows) = IF Cardinality(all) < Page THEN Cardinality(all) ELSE Page
  BY DEF FetchedRows, RowOf
<1>5. Cardinality(all) \in Nat /\ Cardinality(stored) \in Nat /\ Cardinality(kind) \in Nat
  BY <1>1, <1>3, FS_CardinalityType
<1>6. Cardinality(rows) = Cardinality(all)
  <2> HIDE DEF all, stored
  <2> QED BY <1>1, <1>3, <1>4, <1>5, Bounds
<1>7. rows = all
  <2> HIDE DEF all
  <2> QED BY <1>3, <1>4, <1>6, FS_Subset
<1> QED BY <1>7

LEMMA KindsFinite ==
    ASSUME RepairsPossible, NEW kind \in {"programs", "episodes"}
    PROVE  /\ KindOf(kind) \in SUBSET Ids /\ IsFiniteSet(KindOf(kind))
           /\ Cardinality(KindOf(kind)) <= Page
BY SearchIndexAssumption DEF RepairsPossible, KindOf, Ids

\* A put of a current row brings the entry up to date and leaves the others alone.
LEMMA PutCovers ==
    ASSUME TypeOK, Covered, UNCHANGED content, NEW c \in Ids, NEW entry \in Entry,
           entry.version = content[c], dynamo' = [dynamo EXCEPT ![c] = entry],
           reindex'.fetched = reindex.fetched,
           reindex'.todo = reindex.todo \/ reindex'.todo = reindex.todo \ {RowOf(c)}
    PROVE  Covered'
<1>1. \A x \in Ids : dynamo'[x] = IF x = c THEN entry ELSE dynamo[x]
  BY DEF TypeOK, Entries
<1>2. entry # None
  BY NoneIsNothing
<1>3. InDynamo(c)'
  BY <1>1, <1>2 DEF InDynamo
<1>4. \A x \in Ids : InDynamo(x) => InDynamo(x)'
  BY <1>1, <1>3 DEF InDynamo
<1>5. \A x \in Ids : RowOf(x)' = RowOf(x) /\ (x # c => RowOf(x) # RowOf(c))
  BY DEF RowOf
<1>6. ASSUME NEW kind \in reindex'.fetched, NEW x \in KindOf(kind), content'[x] # 0
      PROVE  RowOf(x)' \in reindex'.todo \/ InDynamo(x)'
  <2>1. x \in Ids
    BY <1>6 DEF KindOf, Ids
  <2>2. RowOf(x) \in reindex.todo \/ InDynamo(x)
    BY <1>6 DEF Covered
  <2> QED BY <1>3, <1>4, <1>5, <2>1, <2>2
<1> QED BY <1>6 DEF Covered

\* Steps that leave the rows and the entries as they are.
LEMMA CoveredFrame ==
    ASSUME Covered, UNCHANGED <<content, dynamo>>, reindex'.fetched = reindex.fetched,
           reindex'.todo = reindex.todo
    PROVE  Covered'
BY DEF Covered, InDynamo, RowOf

\* The reindex indexes one item.
LEMMA ItemRepairs ==
    ASSUME TypeOK, ReindexShape, Undisturbed, RepairsPossible, calm', reindex'.pc # "idle",
           NEW w \in Writers, IndexStep(w)
    PROVE  Repairing'
<1>1. CASE DynamoWriteFails(w)
  BY <1>1 DEF DynamoWriteFails
<1>2. CASE PostgresWriteFails(w)
  BY <1>2 DEF PostgresWriteFails, EndCall
<1>3. ASSUME EndCall(w, TRUE), call[w] # None
      PROVE  w = "reindex" /\ Repairing /\ reindex.pc = "items"
  <2>1. w = "reindex" /\ calm
    BY <1>3 DEF EndCall
  <2>2. reindex.pc = "items"
    BY <1>3, <2>1 DEF ReindexShape
  <2> QED BY <2>1, <2>2 DEF Undisturbed
<1>4. CASE PostgresWrite(w)
  BY <1>3, <1>4 DEF PostgresWrite, Repairing, CallCurrent
<1>5. CASE DynamoWrite(w)
  <2> DEFINE e == call["reindex"]
             item == [id |-> e.id, version |-> e.entry.version]
  <2>1. w = "reindex" /\ Repairing
    BY <1>3, <1>5 DEF DynamoWrite
  <2>2. e \in Call /\ e # None
    BY <1>5, <2>1 DEF DynamoWrite, TypeOK
  <2>3. e.id \in Ids /\ e.entry \in Entry
    BY <2>2 DEF Call
  <2>4. content[e.id] # 0 /\ e.entry.version = content[e.id]
    BY <2>1, <2>2 DEF Repairing, CallCurrent
  <2>5. item = RowOf(e.id)
    BY <2>4 DEF RowOf
  <2>6. /\ reindex'.todo = reindex.todo \ {RowOf(e.id)}
        /\ reindex'.batch = reindex.batch \cup {RowOf(e.id)}
        /\ reindex'.waiting = reindex.waiting /\ reindex'.fetched = reindex.fetched
    BY <1>5, <2>1, <2>5 DEF DynamoWrite, EndCall, AfterItem, TypeOK, Reindex
  <2>7. /\ dynamo' = [dynamo EXCEPT ![e.id] = e.entry]
        /\ UNCHANGED <<content, strays>>
        /\ call' = [call EXCEPT !["reindex"] = None]
    BY <1>5, <2>1 DEF DynamoWrite, PutDynamo, EndCall, cms
  <2>8. Alone' /\ CallCurrent'
    BY <2>1, <2>7 DEF Repairing, Alone, CallCurrent, TypeOK, Writers
  <2> HIDE DEF e
  <2>9. Covered'
    BY <2>1, <2>3, <2>4, <2>6, <2>7, PutCovers DEF Repairing
  <2>10. Current(reindex.batch \cup {RowOf(e.id)})
    BY <2>1, <2>4 DEF Repairing, Current, RowOf
  <2>11. Current(reindex.todo)' /\ Current(reindex.batch)' /\ Current(reindex.waiting)'
    BY <2>1, <2>6, <2>7, <2>10 DEF Repairing, Current, RowOf
  <2> QED BY <2>8, <2>9, <2>11 DEF Repairing
<1> QED BY <1>1, <1>2, <1>4, <1>5 DEF IndexStep

LEMMA UndisturbedKept ==
    ASSUME TypeOK, ReindexShape, Undisturbed, [Next]_vars
    PROVE  Undisturbed'
<1> SUFFICES ASSUME RepairsPossible, calm', reindex'.pc # "idle"
             PROVE  Repairing'
  BY DEF Undisturbed, RepairsPossible
<1>1. reindex \in Reindex
  BY DEF TypeOK
<1>2. CASE UNCHANGED <<call, strays, content, dynamo, reindex, calm>>
  BY <1>2 DEF Undisturbed, Repairing, Alone, CallCurrent, Current, Covered, InDynamo, RowOf
<1>3. ASSUME NEW c \in Ids,
             \/ CreateContent(c) \/ UpdateContent(c) \/ PublishContent(c) \/ DeleteContent(c)
             \/ IndexByHand(c) \/ Expire(c) \/ \E t \in Topics : Consume(t, c)
      PROVE  Repairing'
  BY <1>3 DEF CreateContent, UpdateContent, PublishContent, Announce, DeleteContent,
              IndexByHand, Expire, Consume
<1>4. CASE Restart \/ FetchFails \/ PutFails
  BY <1>4 DEF Restart, FetchFails, PutFails
<1>5. CASE StartReindex
  <2>1. /\ reindex'.fetched = {} /\ reindex'.todo = {} /\ reindex'.batch = {}
        /\ reindex'.waiting = {} /\ call["reindex"] = None
    BY <1>5 DEF StartReindex, NoReindex
  <2>2. Alone' /\ CallCurrent'
    BY <1>5, <2>1 DEF StartReindex, Alone, CallCurrent
  <2> QED BY <2>1, <2>2 DEF Repairing, Current, Covered
<1>6. CASE Fetch
  <2>1. PICK rows \in FetchedRows(KindOf(reindex.pc)) :
           reindex' = [reindex EXCEPT !.pc = "items", !.todo = rows,
                                      !.fetched = @ \cup {reindex.pc}]
    BY <1>6 DEF Fetch
  <2>2. /\ reindex.pc \in {"programs", "episodes"}
        /\ UNCHANGED <<content, dynamo, call, strays, calm>>
    BY <1>6 DEF Fetch, cms, stores
  <2>3. Repairing /\ reindex.todo = {}
    BY <2>2 DEF Undisturbed, ReindexShape
  <2>4. /\ reindex'.todo = rows /\ reindex'.fetched = reindex.fetched \cup {reindex.pc}
        /\ reindex'.batch = reindex.batch /\ reindex'.waiting = reindex.waiting
    BY <1>1, <2>1 DEF Reindex
  <2>5. \A c \in KindOf(reindex.pc) : content[c] # 0 => RowOf(c) \in rows
    BY <2>1, <2>2, FetchedAll, KindsFinite
  <2>6. Covered'
    BY <2>2, <2>3, <2>4, <2>5 DEF Repairing, Covered, InDynamo, RowOf
  <2>7. Current(rows)
    BY <2>1, <2>2, FetchedType
  <2>8. Current(reindex.todo)' /\ Current(reindex.batch)' /\ Current(reindex.waiting)'
    BY <2>2, <2>3, <2>4, <2>7 DEF Repairing, Current, RowOf
  <2>9. Alone' /\ CallCurrent'
    BY <2>2, <2>3 DEF Repairing, Alone, CallCurrent
  <2> QED BY <2>6, <2>8, <2>9 DEF Repairing
<1>7. CASE IndexItem
  <2>1. PICK item \in reindex.todo :
           call' = [call EXCEPT !["reindex"] =
                       NewCall(item.id, item.version, "reindex", FALSE)]
    BY <1>7 DEF IndexItem
  <2>2. Repairing /\ UNCHANGED <<content, dynamo, strays, reindex>>
    BY <1>7 DEF IndexItem, cms, stores, Undisturbed
  <2>3. content[item.id] # 0 /\ item = RowOf(item.id)
    BY <2>1, <2>2 DEF Repairing, Current
  <2>4. item.version = content[item.id]
    BY <2>3 DEF RowOf
  <2>5. /\ call'["consumer"] = call["consumer"] /\ call'["hand"] = call["hand"]
        /\ call'["reindex"] = NewCall(item.id, item.version, "reindex", FALSE)
    BY <2>1 DEF TypeOK, Writers
  <2>6. /\ call'["reindex"].pc = "dynamo" /\ call'["reindex"].id = item.id
        /\ call'["reindex"].entry.version = item.version
    BY <2>5 DEF NewCall, FirstStore, RepairsPossible
  <2>7. Alone' /\ CallCurrent'
    BY <2>2, <2>3, <2>4, <2>5, <2>6 DEF Repairing, Alone, CallCurrent
  <2> QED BY <2>2, <2>7 DEF Repairing, Current, Covered, InDynamo, RowOf
<1>8. CASE ItemsDone
  <2>1. Repairing /\ UNCHANGED <<content, dynamo, call, strays, calm>>
    BY <1>8 DEF ItemsDone, cms, stores, Undisturbed
  <2>2. /\ reindex'.todo = reindex.todo /\ reindex'.fetched = reindex.fetched
        /\ reindex'.batch = reindex.batch /\ reindex'.waiting = reindex.waiting
    BY <1>1, <1>8 DEF ItemsDone, Reindex, RepairsPossible
  <2>3. Covered'
    BY <2>1, <2>2, CoveredFrame DEF Repairing
  <2> QED BY <2>1, <2>2, <2>3 DEF Repairing, Alone, CallCurrent, Current, RowOf
<1>9. CASE SendChunk
  <2>1. Repairing /\ UNCHANGED <<content, dynamo, call, strays, calm>>
    BY <1>9 DEF SendChunk, cms, stores, Undisturbed
  <2>2. /\ reindex'.todo = reindex.todo /\ reindex'.fetched = reindex.fetched
        /\ reindex'.batch \subseteq reindex.batch
        /\ reindex'.waiting \subseteq reindex.batch
    BY <1>1, <1>9 DEF SendChunk, Reindex
  <2>3. Covered'
    BY <2>1, <2>2, CoveredFrame DEF Repairing
  <2> QED BY <2>1, <2>2, <2>3 DEF Repairing, Alone, CallCurrent, Current, RowOf
<1>10. CASE PutLands
  <2>1. PICK item \in reindex.waiting \cup strays :
           /\ dynamo' = [dynamo EXCEPT ![item.id] =
                            [version |-> item.version, from |-> "reindex",
                             category |-> FALSE]]
           /\ item \in reindex.waiting
           /\ reindex' = [reindex EXCEPT !.waiting = @ \ {item}]
           /\ UNCHANGED <<strays, calm>>
    BY <1>10 DEF PutLands
  <2>2. Repairing /\ UNCHANGED <<content, call, strays, calm>>
    BY <1>1, <1>10, <2>1 DEF PutLands, cms, Undisturbed, Reindex
  <2>3. item = RowOf(item.id) /\ item \in Item
    BY <1>1, <2>1, <2>2 DEF Repairing, Current, Reindex
  <2> DEFINE entry == [version |-> item.version, from |-> "reindex", category |-> FALSE]
  <2>4. item.id \in Ids /\ entry \in Entry
    BY <2>3 DEF Item, Entry
  <2>5. item.version = content[item.id]
    BY <2>3 DEF RowOf
  <2>6. entry.version = content[item.id]
    BY <2>5
  <2>7. /\ reindex'.todo = reindex.todo /\ reindex'.fetched = reindex.fetched
        /\ reindex'.batch = reindex.batch /\ reindex'.waiting \subseteq reindex.waiting
    BY <1>1, <2>1 DEF Reindex
  <2>8. Covered'
    <3> HIDE DEF entry
    <3>1. dynamo' = [dynamo EXCEPT ![item.id] = entry]
      BY <2>1 DEF entry
    <3> QED BY <2>2, <2>4, <2>6, <2>7, <3>1, PutCovers DEF Repairing
  <2> QED BY <2>2, <2>7, <2>8 DEF Repairing, Alone, CallCurrent, Current, RowOf
<1>11. CASE StrayFails
  BY <1>11 DEF StrayFails, Undisturbed, Repairing, Alone
<1>12. CASE EndReindex
  BY <1>12 DEF EndReindex, NoReindex
<1>13. CASE CommitOffsets \/ UNCHANGED vars
  BY <1>2, <1>13 DEF CommitOffsets, vars, cms, stores
<1> QED BY <1>2, <1>3, <1>4, <1>5, <1>6, <1>7, <1>8, <1>9, <1>10, <1>11, <1>12, <1>13,
           NextCases, ItemRepairs

-----------------------------------------------------------------------------
(* The theorems.                                                           *)

LEMMA InitIInv == Init => IInv
<1> SUFFICES ASSUME Init PROVE IInv
  OBVIOUS
<1> USE Bounds DEF Init
<1>1. TypeOK
  <2>1. content \in [Ids -> Versions] /\ latest \in [Ids -> Versions]
    BY DEF Versions
  <2>2. log \in [Topics -> [Ids -> Seq(Versions)]]
    OBVIOUS
  <2>3. /\ next \in [Topics -> [Ids -> Nat \ {0}]]
        /\ committed \in [Topics -> [Ids -> Nat]]
        /\ uncommitted \subseteq Topics \X Ids
        /\ \A t \in Topics, c \in Ids : next[t][c] <= Len(log[t][c]) + 1
    OBVIOUS
  <2>4. table \in Tables
    BY DEF Tables
  <2>5. dynamo \in Entries /\ postgres \in Entries
    BY DEF Entries
  <2>6. reindex \in Reindex
    BY DEF Reindex, NoReindex
  <2>7. call \in [Writers -> Call \cup {None}]
    OBVIOUS
  <2>8. /\ failures \in 0..MaxFailures /\ reindexes \in 0..MaxReindexes
        /\ changes \in 0..MaxChanges
    BY Bounds, SMT
  <2>9. strays \subseteq Item /\ calm \in BOOLEAN
    BY Zenon
  <2> HIDE DEF Init
  <2> QED BY <2>1, <2>2, <2>3, <2>4, <2>5, <2>6, <2>7, <2>8, <2>9 DEF TypeOK
<1>2. VersionsCounted
  BY DEF VersionsCounted
<1>3. LogOrdered /\ CommittedWasRead
  BY DEF LogOrdered, CommittedWasRead
<1>4. CallsKnown
  BY DEF CallsKnown, Writers
<1>5. EntriesHaveEvents
  BY DEF EntriesHaveEvents
<1>6. ReindexShape /\ Undisturbed
  BY DEF ReindexShape, Undisturbed, NoReindex, Writers
<1> QED BY <1>1, <1>2, <1>3, <1>4, <1>5, <1>6 DEF IInv

LEMMA NextIInv == IInv /\ [Next]_vars => IInv'
BY TypesKept, VersionsKept, LogKept, CommittedKept, CallsKnownKept, EntriesHaveEventsKept,
   ReindexShapeKept, UndisturbedKept DEF IInv

LEMMA Invariant == Spec => []IInv
BY InitIInv, NextIInv, PTL DEF Spec

\* The variables of the search service keep their types.
THEOREM TypeCorrect == Spec => []TypeOK
<1>1. IInv => TypeOK
  BY DEF IInv
<1> QED BY <1>1, Invariant, PTL

LEMMA CommittedStep ==
    ASSUME IInv, [Next]_vars, NEW c \in Ids, dynamo[c] # None, dynamo'[c] # None,
           dynamo[c].from \in Topics, dynamo'[c].from = dynamo[c].from,
           dynamo'[c].version < dynamo[c].version
    PROVE  ~Committed(c, dynamo[c])
<1> USE DEF IInv
<1> DEFINE t == dynamo[c].from
           n == next[t][c]
<1>1. dynamo[c].version \in Nat
  BY DEF TypeOK, Entries, Entry, Versions
<1>2. dynamo'[c] # dynamo[c]
  BY <1>1
<1>3. ASSUME NEW w \in Writers, DynamoWrite(w) PROVE ~Committed(c, dynamo[c])
  <2>1. call[w] # None /\ dynamo' = [dynamo EXCEPT ![call[w].id] = call[w].entry]
    BY <1>3 DEF DynamoWrite, PutDynamo
  <2>2. call[w].id = c /\ dynamo'[c] = call[w].entry
    BY <1>2, <2>1 DEF TypeOK, Entries
  <2>3. w = "consumer"
    BY <2>1, <2>2 DEF CallsKnown, Writers, Topics
  <2>4. n <= Len(log[t][c]) /\ dynamo'[c].version = log[t][c][n]
    BY <2>1, <2>2, <2>3 DEF CallsKnown
  <2>5. n \in Nat \ {0} /\ committed[t][c] \in Nat /\ committed[t][c] <= n
    BY DEF TypeOK, CommittedWasRead
  <2> HIDE DEF n
  <2>6. Len(log[t][c]) \in Nat
    BY LogFacts
  <2>7. PICK i \in 1..Len(log[t][c]) : log[t][c][i] = dynamo[c].version
    BY DEF EntriesHaveEvents
  <2>8. n \in 1..Len(log[t][c])
    BY <2>4, <2>5, <2>6
  <2>9. log[t][c][n] \in Nat /\ log[t][c][i] \in Nat
    BY <2>7, <2>8, LogFacts
  <2>10. ~(i < n)
    <3>1. i < n => log[t][c][i] < log[t][c][n]
      BY <2>7, <2>8 DEF LogOrdered
    <3> QED BY <2>4, <2>7, <2>9, <3>1
  <2>11. i \in committed[t][c]..Len(log[t][c])
    BY <2>5, <2>6, <2>10
  <2> QED BY <2>7, <2>11 DEF Committed
<1>4. CASE PutLands
  <2>1. PICK item \in reindex.waiting \cup strays :
           dynamo' = [dynamo EXCEPT ![item.id] =
                         [version |-> item.version, from |-> "reindex", category |-> FALSE]]
    BY <1>4 DEF PutLands
  <2>2. dynamo'[c].from = "reindex"
    BY <1>2, <2>1 DEF TypeOK, Entries
  <2> QED BY <2>2 DEF Topics
<1>5. ASSUME NEW x \in Ids, Expire(x) PROVE FALSE
  <2>1. dynamo'[c] = IF x = c THEN None ELSE dynamo[c]
    BY <1>5 DEF Expire, TypeOK, Entries
  <2> QED BY <1>2, <2>1
<1>6. ASSUME NEW x \in Ids,
             \/ CreateContent(x) \/ UpdateContent(x) \/ PublishContent(x) \/ DeleteContent(x)
             \/ IndexByHand(x) \/ \E u \in Topics : Consume(u, x)
      PROVE  UNCHANGED dynamo
  BY <1>6 DEF CreateContent, UpdateContent, PublishContent, Announce, DeleteContent,
              IndexByHand, Consume, stores
<1>7. ASSUME NEW w \in Writers, DynamoWriteFails(w) \/ PostgresWrite(w) \/ PostgresWriteFails(w)
      PROVE  UNCHANGED dynamo
  BY <1>7 DEF DynamoWriteFails, PostgresWrite, PostgresWriteFails, stores
<1>8. CASE CommitOffsets \/ Restart \/ StartReindex \/ Fetch \/ FetchFails \/ IndexItem
           \/ ItemsDone \/ SendChunk \/ PutFails \/ StrayFails \/ EndReindex
           \/ UNCHANGED vars
  BY <1>2, <1>8 DEF CommitOffsets, Restart, StartReindex, Fetch, FetchFails, IndexItem,
      ItemsDone, SendChunk, PutFails, StrayFails, EndReindex, stores, vars
<1> QED BY <1>2, <1>3, <1>4, <1>5, <1>6, <1>7, <1>8, NextCases DEF IndexStep

\* Once the position behind an event is committed, no older event of its topic
\* replaces the entry it brought, whatever is delivered again after restarts.
THEOREM CommittedStays == Spec => CommittedNotUndone
<1>1. IInv /\ [Next]_vars =>
         [\A c \in Ids :
             /\ dynamo[c] # None /\ dynamo'[c] # None
             /\ dynamo[c].from \in Topics /\ dynamo'[c].from = dynamo[c].from
             /\ dynamo'[c].version < dynamo[c].version
             => ~Committed(c, dynamo[c])]_vars
  BY CommittedStep
<1> QED BY <1>1, Invariant, PTL DEF Spec, CommittedNotUndone

\* How an undisturbed reindex comes to its end.
LEMMA ReindexEnds ==
    ASSUME TypeOK, ReindexShape, [Next]_vars, reindex.pc # "idle", reindex'.pc = "idle",
           calm, calm', DynamoEnabled
    PROVE  EndReindex
<1>1. reindex \in Reindex
  BY DEF TypeOK
<1>2. CASE UNCHANGED reindex
  BY <1>2
<1>3. ASSUME NEW w \in Writers, IndexStep(w) PROVE FALSE
  <2>1. CASE DynamoWriteFails(w)
    BY <2>1 DEF DynamoWriteFails
  <2>2. CASE DynamoWrite(w)
    BY <2>2, EndCallShape DEF DynamoWrite
  <2>3. CASE PostgresWrite(w)
    BY <2>3, EndCallShape DEF PostgresWrite
  <2>4. CASE PostgresWriteFails(w)
    BY <2>4, EndCallShape DEF PostgresWriteFails
  <2> QED BY <1>3, <2>1, <2>2, <2>3, <2>4 DEF IndexStep
<1>4. ASSUME NEW c \in Ids,
             \/ CreateContent(c) \/ UpdateContent(c) \/ PublishContent(c) \/ DeleteContent(c)
             \/ IndexByHand(c) \/ Expire(c) \/ \E t \in Topics : Consume(t, c)
      PROVE  FALSE
  BY <1>4 DEF CreateContent, UpdateContent, PublishContent, Announce, DeleteContent,
              IndexByHand, Expire, Consume
<1>5. CASE CommitOffsets \/ IndexItem \/ StrayFails \/ UNCHANGED vars
  BY <1>2, <1>5 DEF CommitOffsets, IndexItem, StrayFails, vars
<1>6. CASE Restart \/ FetchFails \/ PutFails
  BY <1>6 DEF Restart, FetchFails, PutFails
<1>7. CASE StartReindex
  BY <1>7 DEF StartReindex
<1>8. CASE Fetch \/ SendChunk \/ PutLands
  <2>1. reindex'.pc = "items" \/ reindex'.pc = reindex.pc
    BY <1>1, <1>8 DEF Fetch, SendChunk, PutLands, Reindex
  <2> QED BY <2>1
<1>9. CASE ItemsDone
  <2>1. reindex'.pc \in {"episodes", "batch"}
    BY <1>1, <1>9 DEF ItemsDone, Reindex
  <2> QED BY <2>1
<1> QED BY <1>3, <1>4, <1>5, <1>6, <1>7, <1>8, <1>9, NextCases

\* A reindex that nothing disturbs ends with the current version of every row of
\* the CMS service in DynamoDB.
THEOREM ReindexRepaired == Spec => ReindexRepairs
<1> DEFINE Step ==
              reindex.pc # "idle" /\ reindex'.pc = "idle" /\ calm /\ calm' /\ DynamoEnabled
              /\ table = "given"
              /\ Cardinality(ProgramIds) <= Page /\ Cardinality(EpisodeIds) <= Page
              => \A c \in Ids :
                    content[c] # 0 => dynamo[c] # None /\ dynamo[c].version = content[c]
<1>1. IInv /\ [Next]_vars => [Step]_vars
  <2> SUFFICES ASSUME IInv, [Next]_vars, reindex.pc # "idle", reindex'.pc = "idle",
                      calm, calm', RepairsPossible
               PROVE  \A c \in Ids : content[c] # 0 => InDynamo(c)
    BY DEF RepairsPossible, InDynamo
  <2>1. EndReindex
    BY ReindexEnds DEF IInv, RepairsPossible
  <2>2. Covered /\ reindex.todo = {} /\ reindex.fetched = {"programs", "episodes"}
    BY <2>1 DEF IInv, EndReindex, ReindexShape, Undisturbed, Repairing
  <2>3. \A c \in Ids : \E kind \in reindex.fetched : c \in KindOf(kind)
    BY <2>2 DEF KindOf, Ids
  <2> QED BY <2>2, <2>3 DEF Covered
<1> QED BY <1>1, Invariant, PTL DEF Spec, ReindexRepairs
=============================================================================
