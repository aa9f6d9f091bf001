-------------------------- MODULE DiscoveryCacheProofs --------------------------
(***************************************************************************)
(* Theorems about DiscoveryCache for every set of programs and requests,   *)
(* every kind of key, and any number of changes and failures.              *)
(***************************************************************************)
EXTENDS DiscoveryCache, SequenceTheorems, TLAPS

\* A key the consumer deletes for some program.
Deletable == [kind : InvalidatedKinds, of : Programs \cup {None}]

\* The keys still to be deleted are those of the event in hand, so that its
\* redelivery after a restart deletes them all the same.
HandlesEvent ==
    /\ handling = None => deleting = <<>>
    /\ handling # None => \A k \in Range(deleting) : k \in Range(KeysToDelete(handling[2]))

\* There are never more announcements to make than changes were made.
AnnouncedAfterChange == \A x \in Partitions : unsent[x] <= changes

\* The inductive invariant.
IInv == TypeOK /\ AnnouncedAfterChange /\ HandlesEvent /\ AnnouncedChangeShows

-----------------------------------------------------------------------------
(* Operators                                                               *)

\* The three keys of an event.
LEMMA KeysDeleted ==
    ASSUME NEW p \in Programs
    PROVE  /\ KeysToDelete(p) \in Seq(Deletable)
           /\ Len(KeysToDelete(p)) = 3
           /\ \A k : k \in Range(KeysToDelete(p)) <=>
                        \/ k = [kind |-> "program", of |-> p]
                        \/ k = [kind |-> "trending10", of |-> None]
                        \/ k = [kind |-> "popular10", of |-> None]
BY DEF KeysToDelete, Range, Deletable, InvalidatedKinds

\* What is left of a sequence without its head.
LEMMA TailOf ==
    ASSUME NEW S, NEW s \in Seq(S), s # <<>>
    PROVE  /\ Head(s) \in S
           /\ Tail(s) \in Seq(S) /\ Len(Tail(s)) = Len(s) - 1
           /\ \A i \in 1..Len(Tail(s)) : Tail(s)[i] = s[i + 1]
           /\ Head(s) = s[1]
           /\ \A k : k \in Range(s) <=> k = Head(s) \/ k \in Range(Tail(s))
           /\ Len(s) = 1 => Tail(s) = <<>>
<1>1. /\ Head(s) \in S /\ Len(s) \in Nat \ {0}
      /\ Tail(s) \in Seq(S) /\ Len(Tail(s)) = Len(s) - 1
      /\ \A i \in 1..Len(Tail(s)) : Tail(s)[i] = s[i + 1]
      /\ Head(s) = s[1]
  OBVIOUS
<1>2. DOMAIN s = 1..Len(s) /\ DOMAIN Tail(s) = 1..Len(Tail(s))
  BY <1>1
<1>3. ASSUME NEW k PROVE k \in Range(s) <=> k = Head(s) \/ k \in Range(Tail(s))
  <2>1. ASSUME NEW i \in 1..Len(s), k = s[i]
        PROVE  k = Head(s) \/ k \in Range(Tail(s))
    <3>1. CASE i = 1
      BY <3>1, <2>1, <1>1
    <3>2. CASE i # 1
      <4>1. i - 1 \in 1..Len(Tail(s)) /\ Tail(s)[i - 1] = s[(i - 1) + 1]
        BY <3>2, <2>1, <1>1
      <4>2. (i - 1) + 1 = i
        BY <2>1
      <4>3. k = Tail(s)[i - 1]
        BY <4>1, <4>2, <2>1
      <4> QED BY <4>1, <4>3, <1>2 DEF Range
    <3> QED BY <3>1, <3>2
  <2>2. ASSUME NEW i \in 1..Len(Tail(s)), k = Tail(s)[i]
        PROVE  k \in Range(s)
    <3>1. i + 1 \in 1..Len(s) /\ k = s[i + 1]
      BY <2>2, <1>1
    <3> QED BY <3>1, <1>2 DEF Range
  <2>3. Head(s) \in Range(s)
    BY <1>1, <1>2 DEF Range
  <2> QED BY <2>1, <2>2, <2>3, <1>2 DEF Range
<1>4. Len(s) = 1 => Tail(s) = <<>>
  <2>1. \A t \in Seq(S) : t # <<>> => Len(t) \in Nat \ {0}
    BY EmptySeq
  <2>2. Len(s) = 1 => Len(Tail(s)) \notin Nat \ {0}
    BY <1>1
  <2> QED BY <2>1, <2>2, <1>1
<1> QED BY <1>1, <1>3, <1>4

\* Row and list values have the types of their keys.
LEMMA CurrentType ==
    ASSUME TypeOK, NEW k \in Key
    PROVE  Current(k) \in ValueOf(k) \cup {None}
<1>1. PublishedRows \in Rows
  <2>1. \A p \in Programs : program[p] # None => program[p] \in Row
    BY DEF TypeOK
  <2> QED BY <2>1 DEF PublishedRows, Rows
<1>2. CASE k.kind = "program"
  <2>1. k.of \in Programs
    BY <1>2 DEF Key
  <2> QED BY <1>2, <2>1 DEF Current, ValueOf, TypeOK
<1>3. CASE k.kind = "episodes"
  <2>1. k.of \in Programs
    BY <1>3 DEF Key
  <2> QED BY <1>3, <2>1 DEF Current, ValueOf, TypeOK
<1>4. CASE k.kind \notin {"program", "episodes"}
  BY <1>4, <1>1 DEF Current, ValueOf
<1> QED BY <1>2, <1>3, <1>4

\* DynamoDB takes none of the items: programs have no category.
LEMMA ItemsRefused == ~PutAccepted
<1>1. "category" \in ItemFields
  BY DEF ItemFields
<1>2. "category" \notin ProgramColumns
  BY DEF ProgramColumns
<1> QED BY <1>1, <1>2 DEF PutAccepted

\* Setting the doubt of entries keeps them entries.
LEMMA DoubtType ==
    ASSUME TypeOK, NEW K, Doubt(K)
    PROVE  /\ DOMAIN redis' = Key
           /\ \A k \in Key : redis'[k] \in Entry(k) \cup {None}
           /\ \A k \in Key : k \notin K => redis'[k] = redis[k]
           /\ \A k \in Key : redis'[k] = None \/ redis'[k].value = redis[k].value
           /\ \A k \in Key : k \in K /\ redis'[k] # None => redis'[k].doubt
           /\ \A k \in Key : redis[k] = None => redis'[k] = None
<1>1. \A k \in Key : redis[k] \in Entry(k) \cup {None}
  BY DEF TypeOK
<1>2. ASSUME NEW k \in Key, redis[k] # None
      PROVE  /\ [redis[k] EXCEPT !.doubt = TRUE] \in Entry(k)
             /\ [redis[k] EXCEPT !.doubt = TRUE].value = redis[k].value
             /\ [redis[k] EXCEPT !.doubt = TRUE].doubt
  BY <1>1, <1>2 DEF Entry
<1> QED BY <1>1, <1>2 DEF Doubt

-----------------------------------------------------------------------------
(* Type correctness.                                                       *)

LEMMA InitIInv == Init => IInv
<1> SUFFICES ASSUME Init PROVE IInv
  OBVIOUS
<1> USE DiscoveryAssumption DEF Init
<1>1. TypeOK
  <2>1. program \in [Programs -> Row \cup {None}]
    BY DEF Row, Status, Versions
  <2>2. hot \in [Kinds \cap ListKinds -> Rows]
    BY DEF Rows
  <2> QED BY <2>1, <2>2 DEF TypeOK, Versions
<1>2. AnnouncedAfterChange
  BY DEF AnnouncedAfterChange
<1>3. HandlesEvent
  BY DEF HandlesEvent
<1>4. AnnouncedChangeShows
  BY DEF AnnouncedChangeShows, Stale
<1> QED BY <1>1, <1>2, <1>3, <1>4 DEF IInv

\* A change is numbered within the bound.
LEMMA WriteTypes ==
    ASSUME TypeOK, NEW p \in Programs,
           NEW row \in [status : Status, version : {changes + 1}] \cup {None},
           Write(p, row)
    PROVE  /\ program' \in [Programs -> Row \cup {None}]
           /\ changes' \in Versions /\ changes' = changes + 1
           /\ UNCHANGED episodes
<1> USE DiscoveryAssumption
<1>1. changes + 1 \in Versions
  BY DEF Write, TypeOK, Versions
<1>2. row \in Row \cup {None}
  BY <1>1 DEF Row
<1> QED BY <1>1, <1>2 DEF Write, TypeOK

\* What a handler may write over a row has the type of a row's next version.
LEMMA RewrittenTypes ==
    ASSUME TypeOK, NEW p \in Programs, NEW row \in Rewritten(p)
    PROVE  row \in [status : Status, version : {changes + 1}] \cup {None}
BY DEF Rewritten, Status

\* Moving a request leaves a table of requests.
LEMMA RequestTypes ==
    ASSUME TypeOK, NEW r \in Readers, NEW k \in Key, NEW q \in Request(k) \cup {None},
           req' = [req EXCEPT ![r] = q]
    PROVE  /\ DOMAIN req' = Readers
           /\ \A s \in Readers : req'[s] # None =>
                 req'[s].key \in Key /\ req'[s] \in Request(req'[s].key)
<1>1. q # None => q.key = k
  BY DEF Request
<1> QED BY <1>1 DEF TypeOK

LEMMA CmsTypes ==
    ASSUME TypeOK, AnnouncedAfterChange, CmsStep
    PROVE  TypeOK' /\ AnnouncedAfterChange'
<1> USE DiscoveryAssumption
<1>1. ASSUME NEW p \in Programs, ChangeProgram(p)
      PROVE  TypeOK' /\ AnnouncedAfterChange'
  <2>1. PICK t \in Topics, row \in Rewritten(p) :
           Write(p, row) /\ unsent' = [unsent EXCEPT ![<<t, p>>] = @ + 1]
    BY <1>1 DEF ChangeProgram
  <2>2. /\ program' \in [Programs -> Row \cup {None}]
        /\ changes' \in Versions /\ changes' = changes + 1
        /\ UNCHANGED episodes
    BY <2>1, RewrittenTypes, WriteTypes
  <2>3. /\ unsent' \in [Partitions -> Versions]
        /\ \A x \in Partitions : unsent'[x] <= changes'
    <3>1. <<t, p>> \in Partitions
      BY DEF Partitions
    <3>2. unsent[<<t, p>>] \in Nat /\ unsent[<<t, p>>] + 1 <= changes'
      BY <2>2, <3>1 DEF TypeOK, AnnouncedAfterChange, Versions
    <3>3. \A x \in Partitions : unsent[x] \in Nat /\ unsent[x] <= changes'
      BY <2>2 DEF TypeOK, AnnouncedAfterChange, Versions
    <3> DEFINE x == <<t, p>>
    <3> HIDE DEF x
    <3>4. /\ unsent' = [unsent EXCEPT ![x] = @ + 1]
          /\ x \in Partitions /\ unsent[x] \in Nat /\ unsent[x] + 1 <= changes'
      BY <2>1, <3>1, <3>2 DEF x
    <3> QED BY <2>2, <3>3, <3>4 DEF TypeOK, Versions
  <2> QED BY <1>1, <2>2, <2>3
          DEF ChangeProgram, TypeOK, AnnouncedAfterChange, consumer, topic
<1>2. ASSUME NEW p \in Programs, ChangeProgramSilently(p)
      PROVE  TypeOK' /\ AnnouncedAfterChange'
  <2>1. PICK row \in [status : Status, version : {changes + 1}] \cup {None} : Write(p, row)
    BY <1>2, RewrittenTypes DEF ChangeProgramSilently, Status
  <2>2. /\ program' \in [Programs -> Row \cup {None}]
        /\ changes' \in Versions /\ changes' = changes + 1
        /\ UNCHANGED episodes
    BY <2>1, WriteTypes
  <2>3. /\ DOMAIN redis' = Key
        /\ \A k \in Key : redis'[k] \in Entry(k) \cup {None}
    BY <1>2, DoubtType DEF ChangeProgramSilently
  <2>4. \A x \in Partitions : unsent[x] \in Nat /\ unsent[x] <= changes'
    BY <2>2 DEF TypeOK, AnnouncedAfterChange, Versions
  <2> QED BY <1>2, <2>2, <2>3, <2>4
          DEF ChangeProgramSilently, TypeOK, AnnouncedAfterChange, consumer, topic
<1>3. ASSUME NEW p \in Programs, ChangeEpisodes(p)
      PROVE  TypeOK' /\ AnnouncedAfterChange'
  <2>1. /\ changes' \in Versions /\ changes' = changes + 1
        /\ episodes' \in [Programs -> Versions]
    BY <1>3 DEF ChangeEpisodes, TypeOK, Versions
  <2>2. /\ DOMAIN redis' = Key
        /\ \A k \in Key : redis'[k] \in Entry(k) \cup {None}
    BY <1>3, DoubtType DEF ChangeEpisodes
  <2>3. \A x \in Partitions : unsent[x] \in Nat /\ unsent[x] <= changes'
    BY <2>1 DEF TypeOK, AnnouncedAfterChange, Versions
  <2> QED BY <1>3, <2>1, <2>2, <2>3
          DEF ChangeEpisodes, TypeOK, AnnouncedAfterChange, consumer, topic
<1>4. ASSUME NEW x \in Partitions, EventLost(x)
      PROVE  TypeOK' /\ AnnouncedAfterChange'
  <2>1. /\ unsent' \in [Partitions -> Versions] /\ failures' \in 0..MaxFailures
        /\ \A y \in Partitions : unsent'[y] <= changes
    BY <1>4 DEF EventLost, TypeOK, AnnouncedAfterChange, Versions
  <2>2. /\ DOMAIN redis' = Key
        /\ \A k \in Key : redis'[k] \in Entry(k) \cup {None}
    BY <1>4, DoubtType DEF EventLost
  <2> QED BY <1>4, <2>1, <2>2 DEF EventLost, TypeOK, AnnouncedAfterChange, db, consumer, topic
<1>5. ASSUME NEW x \in Partitions, SendEvent(x)
      PROVE  TypeOK' /\ AnnouncedAfterChange'
  <2>1. /\ unsent' \in [Partitions -> Versions]
        /\ \A y \in Partitions : unsent'[y] <= changes
    BY <1>5 DEF SendEvent, TypeOK, AnnouncedAfterChange, Versions
  <2>2. queue' \in [Partitions -> Nat]
    BY <1>5 DEF SendEvent, TypeOK
  <2> QED BY <1>5, <2>1, <2>2 DEF SendEvent, TypeOK, AnnouncedAfterChange, db
<1> QED BY <1>1, <1>2, <1>3, <1>4, <1>5 DEF CmsStep

\* An event that is done with counts as handled.
LEMMA DoneTypes ==
    ASSUME TypeOK, handling # None, EventDone
    PROVE  handled' \in [Partitions -> Nat] /\ handling' \in Partitions \cup {None}
BY DEF TypeOK, EventDone

\* The consumer and its offsets.
LEMMA ConsumerTypes ==
    ASSUME TypeOK, AnnouncedAfterChange, HandlesEvent, ConsumerStep
    PROVE  TypeOK' /\ AnnouncedAfterChange'
<1> USE DiscoveryAssumption
<1>1. ASSUME NEW x \in Partitions, TakeEvent(x)
      PROVE  TypeOK' /\ AnnouncedAfterChange'
  <2>1. deleting' \in Seq(Deletable)
    BY <1>1, KeysDeleted DEF TakeEvent, Partitions
  <2>2. queue' \in [Partitions -> Nat]
    BY <1>1 DEF TakeEvent, TypeOK
  <2> QED BY <1>1, <2>1, <2>2 DEF TakeEvent, TypeOK, AnnouncedAfterChange, db, Deletable
<1>2. CASE DeleteKey
  <2>1. deleting' \in Seq(Deletable)
    BY <1>2 DEF DeleteKey, TypeOK, Deletable
  <2>2. /\ DOMAIN redis' = Key
        /\ \A k \in Key : redis'[k] \in Entry(k) \cup {None}
    BY <1>2 DEF DeleteKey, TypeOK
  <2>3. handled' \in [Partitions -> Nat] /\ handling' \in Partitions \cup {None}
    BY <1>2, DoneTypes DEF DeleteKey, HandlesEvent, TypeOK
  <2> QED BY <1>2, <2>1, <2>2, <2>3 DEF DeleteKey, TypeOK, AnnouncedAfterChange, db, Deletable
<1>3. CASE DeleteFails
  <2>1. deleting' \in Seq(Deletable)
    BY <1>3 DEF DeleteFails
  <2>2. /\ DOMAIN redis' = Key
        /\ \A k \in Key : redis'[k] \in Entry(k) \cup {None}
    BY <1>3, DoubtType DEF DeleteFails
  <2>3. failures' \in 0..MaxFailures
    BY <1>3 DEF DeleteFails, TypeOK
  <2>4. handled' \in [Partitions -> Nat] /\ handling' \in Partitions \cup {None}
    BY <1>3, DoneTypes DEF DeleteFails, HandlesEvent
  <2> QED BY <1>3, <2>1, <2>2, <2>3, <2>4
          DEF DeleteFails, TypeOK, AnnouncedAfterChange, db, Deletable
<1>4. CASE CommitOffsets
  <2>1. committed' \subseteq Partitions /\ handled' \in [Partitions -> Nat]
    BY <1>4 DEF CommitOffsets, TypeOK
  <2> QED BY <1>4, <2>1 DEF CommitOffsets, TypeOK, AnnouncedAfterChange, db
<1>5. CASE Restart
  <2>1. failures' \in 0..MaxFailures /\ deleting' \in Seq(Deletable)
    BY <1>5 DEF Restart, TypeOK
  <2>2. queue' \in [Partitions -> Nat] /\ handled' \in [Partitions -> Nat]
    BY <1>5 DEF Restart, Redelivered, Uncommitted, TypeOK
  <2>3. /\ DOMAIN redis' = Key
        /\ \A k \in Key : redis'[k] \in Entry(k) \cup {None}
    BY <1>5, DoubtType DEF Restart
  <2> QED BY <1>5, <2>1, <2>2, <2>3 DEF Restart, TypeOK, AnnouncedAfterChange, db, Deletable
<1> QED BY <1>1, <1>2, <1>3, <1>4, <1>5 DEF ConsumerStep

\* A request under way has a key, and what it holds goes with the key.
LEMMA HeldType ==
    ASSUME TypeOK, NEW r \in Readers, req[r] # None
    PROVE  /\ req[r].key \in Key
           /\ req[r] \in Request(req[r].key)
BY DEF TypeOK

LEMMA RequestStepTypes ==
    ASSUME TypeOK, AnnouncedAfterChange,
           \/ \E r \in Readers, k \in Key : Get(r, k)
           \/ \E r \in Readers : RequestStep(r)
           \/ \E k \in Key : Expire(k)
    PROVE  TypeOK' /\ AnnouncedAfterChange'
<1> USE DEF TypeOK, AnnouncedAfterChange, db, consumer, topic
<1>1. ASSUME NEW r \in Readers, NEW k \in Key, Get(r, k)
      PROVE  TypeOK' /\ AnnouncedAfterChange'
  <2>1. [pc |-> IF DynamoEnabled /\ k.kind \in ListKinds THEN "hot" ELSE "database",
         key |-> k, value |-> None] \in Request(k)
    BY DEF Request
  <2> QED BY <1>1, <2>1, RequestTypes DEF Get
<1>2. ASSUME NEW r \in Readers, QueryHot(r)
      PROVE  TypeOK' /\ AnnouncedAfterChange'
  <2> DEFINE q == req[r]
  <2>1. q.key \in Key /\ q \in Request(q.key)
    BY <1>2, HeldType DEF QueryHot
  <2>0. UNCHANGED <<db, unsent, consumer, redis, hot, failures>>
    BY <1>2 DEF QueryHot
  <2>2. CASE hot[q.key.kind] = {}
    <3>1. [q EXCEPT !.pc = "database"] \in Request(q.key)
      BY <1>2, <2>1 DEF QueryHot, Request
    <3>2. req' = [req EXCEPT ![r] = [q EXCEPT !.pc = "database"]]
      BY <1>2, <2>2 DEF QueryHot
    <3> HIDE DEF q
    <3> QED BY <2>0, <2>1, <3>1, <3>2, RequestTypes
  <2>3. CASE hot[q.key.kind] # {}
    <3>1. hot[q.key.kind] \in ValueOf(q.key)
      BY <1>2, <2>1 DEF QueryHot, Request, Key, ValueOf, ListKinds, TypeOK
    <3>2. [q EXCEPT !.pc = "set", !.value = hot[q.key.kind]] \in Request(q.key)
      BY <2>1, <3>1 DEF Request
    <3>3. req' = [req EXCEPT ![r] = [q EXCEPT !.pc = "set", !.value = hot[q.key.kind]]]
      BY <1>2, <2>3 DEF QueryHot
    <3> HIDE DEF q
    <3> QED BY <2>0, <2>1, <3>2, <3>3, RequestTypes
  <2> QED BY <2>2, <2>3
<1>3. ASSUME NEW r \in Readers, ReadDatabase(r)
      PROVE  TypeOK' /\ AnnouncedAfterChange'
  <2> DEFINE k == req[r].key
             pc == IF DynamoEnabled /\ k.kind \in ListKinds THEN "storeHot" ELSE "set"
  <2>1. k \in Key
    BY <1>3, HeldType DEF ReadDatabase
  <2>2. CASE Current(k) = None
    <3>1. req' = [req EXCEPT ![r] = None]
      BY <1>3, <2>2 DEF ReadDatabase, Cached, End
    <3> HIDE DEF k, pc
    <3> QED BY <1>3, <2>1, <3>1, RequestTypes DEF ReadDatabase
  <2>3. CASE Current(k) # None
    <3>1. [pc |-> pc, key |-> k, value |-> Current(k)] \in Request(k)
      BY <2>1, <2>3, CurrentType DEF Request
    <3>2. req' = [req EXCEPT ![r] = [pc |-> pc, key |-> k, value |-> Current(k)]]
      BY <1>3, <2>3 DEF ReadDatabase, Cached
    <3> HIDE DEF k, pc
    <3> QED BY <1>3, <2>1, <3>1, <3>2, RequestTypes DEF ReadDatabase
  <2> QED BY <2>2, <2>3
<1>4. ASSUME NEW r \in Readers, StoreHot(r)
      PROVE  TypeOK' /\ AnnouncedAfterChange'
  <2> DEFINE q == req[r]
  <2>1. q.key \in Key /\ q \in Request(q.key)
    BY <1>4, HeldType DEF StoreHot
  <2>2. [q EXCEPT !.pc = "set"] \in Request(q.key)
    BY <1>4, <2>1 DEF StoreHot, Request
  <2>3. req' = [req EXCEPT ![r] = [q EXCEPT !.pc = "set"]]
    BY <1>4 DEF StoreHot
  <2>4. hot' \in [Kinds \cap ListKinds -> Rows]
    BY <1>4, ItemsRefused DEF StoreHot, Rows
  <2> HIDE DEF q
  <2> QED BY <1>4, <2>1, <2>2, <2>3, <2>4, RequestTypes DEF StoreHot
<1>5. ASSUME NEW r \in Readers, Set(r)
      PROVE  TypeOK' /\ AnnouncedAfterChange'
  <2>1. req[r].key \in Key /\ req[r] \in Request(req[r].key)
    BY <1>5, HeldType DEF Set
  <2>2. [value |-> req[r].value, doubt |-> req[r].value # Current(req[r].key)]
           \in Entry(req[r].key)
    BY <1>5, <2>1 DEF Set, Request, Entry
  <2>3. /\ DOMAIN redis' = Key
        /\ \A k \in Key : redis'[k] \in Entry(k) \cup {None}
    BY <1>5, <2>1, <2>2 DEF Set
  <2>4. req' = [req EXCEPT ![r] = None]
    BY <1>5 DEF Set, End
  <2> QED BY <1>5, <2>1, <2>3, <2>4, RequestTypes DEF Set
<1>6. ASSUME NEW k \in Key, Expire(k)
      PROVE  TypeOK' /\ AnnouncedAfterChange'
  BY <1>6 DEF Expire
<1> QED BY <1>1, <1>2, <1>3, <1>4, <1>5, <1>6 DEF RequestStep

LEMMA TypesKept ==
    ASSUME TypeOK, AnnouncedAfterChange, HandlesEvent, [Next]_vars
    PROVE  TypeOK' /\ AnnouncedAfterChange'
<1>1. CASE UNCHANGED vars
  BY <1>1 DEF vars, db, consumer, topic, TypeOK, AnnouncedAfterChange
<1> QED BY <1>1, CmsTypes, ConsumerTypes, RequestStepTypes DEF Next

-----------------------------------------------------------------------------
(* Announced changes show.                                                 *)

\* The keys being deleted remain those of the event being handled.
LEMMA HandlesEventKept ==
    ASSUME TypeOK, HandlesEvent, [Next]_vars
    PROVE  HandlesEvent'
<1> USE DEF HandlesEvent
<1>1. ASSUME NEW x \in Partitions, TakeEvent(x)
      PROVE  HandlesEvent'
  <2>1. x # None
    BY <1>1, DiscoveryAssumption DEF TakeEvent, HandlesEvent, Range
  <2> QED BY <1>1, <2>1 DEF TakeEvent
<1>2. CASE DeleteKey
  <2>1. deleting \in Seq(Deletable)
    BY DEF TypeOK, Deletable
  <2>2. /\ deleting # <<>> /\ deleting' = Tail(deleting)
        /\ IF Len(deleting) = 1 THEN handling' = None ELSE handling' = handling
    BY <1>2 DEF DeleteKey, EventDone
  <2>3. /\ Len(deleting) = 1 => deleting' = <<>>
        /\ \A k : k \in Range(deleting') => k \in Range(deleting)
    BY <2>1, <2>2, TailOf
  <2> QED BY <2>2, <2>3
<1>3. CASE DeleteFails
  BY <1>3 DEF DeleteFails, EventDone
<1>4. CASE CommitOffsets \/ Restart
  BY <1>4 DEF CommitOffsets, Restart
<1>5. CASE CmsStep
  BY <1>5 DEF CmsStep, ChangeProgram, ChangeProgramSilently, ChangeEpisodes, EventLost,
              SendEvent, consumer
<1>6. ASSUME NEW r \in Readers, RequestStep(r)
      PROVE  HandlesEvent'
  BY <1>6 DEF RequestStep, QueryHot, ReadDatabase, StoreHot, Set, consumer
<1>7. ASSUME NEW r \in Readers, NEW k \in Key, Get(r, k)
      PROVE  HandlesEvent'
  BY <1>7 DEF Get, consumer
<1>8. ASSUME NEW k \in Key, Expire(k)
      PROVE  HandlesEvent'
  BY <1>8 DEF Expire, consumer
<1>9. CASE UNCHANGED vars
  BY <1>9 DEF vars, consumer
<1> QED BY <1>1, <1>2, <1>3, <1>4, <1>5, <1>6, <1>7, <1>8, <1>9 DEF Next, ConsumerStep

\* It suffices that the entry, the data and the due deletions of a key stay.
LEMMA ShowsUnchanged ==
    ASSUME AnnouncedChangeShows, NEW k \in Key, k.kind \in InvalidatedKinds,
           redis'[k] = redis[k], Current(k)' = Current(k),
           DeletionComes(k) => DeletionComes(k)',
           Stale(k)', ~redis'[k].doubt
    PROVE  DeletionComes(k)'
BY DEF AnnouncedChangeShows, Stale

\* Only a change of its program changes what a program key stands for.
LEMMA CurrentKept ==
    ASSUME NEW k \in Key, k.kind \in InvalidatedKinds,
           k.kind = "program" => program'[k.of] = program[k.of],
           k.kind # "program" => UNCHANGED program
    PROVE  Current(k)' = Current(k)
BY DEF Current, PublishedRows, InvalidatedKinds

\* Every key the consumer deletes is about the program of the event.
LEMMA DeletedAreAbout ==
    ASSUME NEW p \in Programs, NEW k \in Key, k \in Range(KeysToDelete(p))
    PROVE  k \in KeysAbout(p)
BY KeysDeleted DEF KeysAbout

\* An invalidated key about p is among those the consumer deletes for p.
LEMMA AboutAreDeleted ==
    ASSUME NEW p \in Programs, NEW k \in Key, k.kind \in InvalidatedKinds,
           k.kind = "program" => k.of = p
    PROVE  k \in Range(KeysToDelete(p))
<1>1. k = [kind |-> k.kind, of |-> k.of]
  BY DEF Key
<1>2. k.kind # "program" => k.of = None
  BY DEF Key, InvalidatedKinds
<1> QED BY <1>1, <1>2, KeysDeleted DEF InvalidatedKinds

\* A write of program p that is announced, or that puts every entry about p in doubt.
LEMMA WriteShows ==
    ASSUME TypeOK, AnnouncedChangeShows, NEW p \in Programs, NEW row,
           program' = [program EXCEPT ![p] = row],
           UNCHANGED <<queue, deleting>>,
           \/ /\ redis' = redis
              /\ \E t \in Topics : unsent' = [unsent EXCEPT ![<<t, p>>] = @ + 1]
           \/ Doubt(KeysAbout(p)) /\ unsent' = unsent
    PROVE  AnnouncedChangeShows'
<1> SUFFICES ASSUME NEW k \in Key, k.kind \in InvalidatedKinds, Stale(k)', ~redis'[k].doubt
             PROVE  DeletionComes(k)'
  BY DEF AnnouncedChangeShows
<1>0. \A x \in Partitions : unsent[x] \in Nat /\ queue[x] \in Nat
  BY DEF TypeOK, Versions
<1>1. CASE k.kind = "program" => k.of = p
  <2>1. k \in Range(KeysToDelete(p)) /\ k \in KeysAbout(p)
    BY <1>1, AboutAreDeleted, DeletedAreAbout
  <2>2. ASSUME NEW t \in Topics, unsent' = [unsent EXCEPT ![<<t, p>>] = @ + 1]
        PROVE  DeletionComes(k)'
    <3> DEFINE x == <<t, p>>
    <3>1. x \in Partitions /\ x[2] = p
      BY DEF Partitions
    <3>2. unsent'[x] + queue'[x] > 0
      BY <1>0, <2>2, <3>1 DEF TypeOK
    <3> QED BY <2>1, <3>1, <3>2 DEF DeletionComes
  <2>3. CASE Doubt(KeysAbout(p))
    BY <2>1, <2>3, DoubtType DEF Stale
  <2> QED BY <2>2, <2>3
<1>2. CASE k.kind = "program" /\ k.of # p
  <2>1. Current(k)' = Current(k)
    <3>1. program'[k.of] = program[k.of]
      BY <1>2 DEF TypeOK, Key
    <3> QED BY <1>2, <3>1, CurrentKept
  <2>2. redis'[k] = redis[k]
    <3>1. k \notin KeysAbout(p)
      BY <1>2, DiscoveryAssumption DEF KeysAbout, Key
    <3> QED BY <3>1, DoubtType
  <2>3. DeletionComes(k) => DeletionComes(k)'
    <3>1. \A x \in Partitions : unsent[x] <= unsent'[x] /\ unsent'[x] \in Nat
      <4>1. CASE unsent' = unsent
        BY <1>0, <4>1
      <4>2. ASSUME NEW t \in Topics, unsent' = [unsent EXCEPT ![<<t, p>>] = @ + 1]
            PROVE  \A x \in Partitions : unsent[x] <= unsent'[x] /\ unsent'[x] \in Nat
        <5> DEFINE y == <<t, p>>
        <5>1. y \in Partitions /\ unsent' = [unsent EXCEPT ![y] = @ + 1]
          BY <4>2 DEF Partitions
        <5> HIDE DEF y
        <5> QED BY <1>0, <5>1 DEF TypeOK
      <4> QED BY <4>1, <4>2
    <3>2. \A x \in Partitions : unsent[x] + queue[x] > 0 => unsent'[x] + queue'[x] > 0
      BY <1>0, <3>1
    <3> QED BY <3>2 DEF DeletionComes
  <2> QED BY <2>1, <2>2, <2>3, ShowsUnchanged
<1> QED BY <1>1, <1>2

LEMMA CmsShows ==
    ASSUME TypeOK, AnnouncedChangeShows, CmsStep
    PROVE  AnnouncedChangeShows'
<1>1. ASSUME NEW p \in Programs, ChangeProgram(p)
      PROVE  AnnouncedChangeShows'
  <2>1. PICK t \in Topics, row \in Rewritten(p) :
           /\ program' = [program EXCEPT ![p] = row]
           /\ unsent' = [unsent EXCEPT ![<<t, p>>] = @ + 1]
    BY <1>1 DEF ChangeProgram, Write
  <2>2. UNCHANGED <<queue, deleting, redis>>
    BY <1>1 DEF ChangeProgram, consumer, topic
  <2> QED BY <2>1, <2>2, WriteShows
<1>2. ASSUME NEW p \in Programs, ChangeProgramSilently(p)
      PROVE  AnnouncedChangeShows'
  <2>1. PICK row : program' = [program EXCEPT ![p] = row]
    BY <1>2 DEF ChangeProgramSilently, Write
  <2> QED BY <1>2, <2>1, WriteShows DEF ChangeProgramSilently, consumer, topic
<1>3. ASSUME NEW p \in Programs, ChangeEpisodes(p)
      PROVE  AnnouncedChangeShows'
  <2> SUFFICES ASSUME NEW k \in Key, k.kind \in InvalidatedKinds, Stale(k)',
                      ~redis'[k].doubt
               PROVE  DeletionComes(k)'
    BY DEF AnnouncedChangeShows
  <2>1. redis'[k] = redis[k]
    BY <1>3, DoubtType DEF ChangeEpisodes, InvalidatedKinds
  <2>2. UNCHANGED <<program, unsent, queue, deleting>>
    BY <1>3 DEF ChangeEpisodes, consumer, topic
  <2> QED BY <2>1, <2>2, CurrentKept, ShowsUnchanged DEF DeletionComes
<1>4. ASSUME NEW x \in Partitions, EventLost(x)
      PROVE  AnnouncedChangeShows'
  <2> SUFFICES ASSUME NEW k \in Key, k.kind \in InvalidatedKinds, Stale(k)',
                      ~redis'[k].doubt
               PROVE  DeletionComes(k)'
    BY DEF AnnouncedChangeShows
  <2>1. k \notin KeysAbout(x[2])
    BY <1>4, DoubtType DEF EventLost, Stale
  <2>2. redis'[k] = redis[k] /\ UNCHANGED <<program, queue, deleting>>
    BY <1>4, <2>1, DoubtType DEF EventLost, db, consumer, topic
  <2>3. \A y \in Partitions : y # x => unsent'[y] = unsent[y]
    BY <1>4 DEF EventLost, TypeOK
  <2>4. k \notin Range(KeysToDelete(x[2]))
    BY <2>1, DeletedAreAbout DEF Partitions
  <2>5. DeletionComes(k) => DeletionComes(k)'
    BY <2>2, <2>3, <2>4 DEF DeletionComes
  <2> QED BY <2>2, <2>5, CurrentKept, ShowsUnchanged
<1>5. ASSUME NEW x \in Partitions, SendEvent(x)
      PROVE  AnnouncedChangeShows'
  <2> SUFFICES ASSUME NEW k \in Key, k.kind \in InvalidatedKinds, Stale(k)',
                      ~redis'[k].doubt
               PROVE  DeletionComes(k)'
    BY DEF AnnouncedChangeShows
  <2>1. UNCHANGED <<program, redis, deleting>>
    BY <1>5 DEF SendEvent, db
  <2>2. \A y \in Partitions : unsent'[y] + queue'[y] = unsent[y] + queue[y]
    BY <1>5 DEF SendEvent, TypeOK, Versions
  <2>3. DeletionComes(k) => DeletionComes(k)'
    BY <2>1, <2>2 DEF DeletionComes
  <2> QED BY <2>1, <2>3, CurrentKept, ShowsUnchanged
<1> QED BY <1>1, <1>2, <1>3, <1>4, <1>5 DEF CmsStep

\* An event is taken from its partition: its keys are those still to be deleted.
LEMMA TakeShows ==
    ASSUME TypeOK, HandlesEvent, AnnouncedChangeShows, NEW x \in Partitions, TakeEvent(x)
    PROVE  AnnouncedChangeShows'
<1> SUFFICES ASSUME NEW k \in Key, k.kind \in InvalidatedKinds, Stale(k)', ~redis'[k].doubt
             PROVE  DeletionComes(k)'
  BY DEF AnnouncedChangeShows
<1>1. UNCHANGED <<program, redis, unsent>> /\ deleting' = KeysToDelete(x[2])
  BY DEF TakeEvent, db
<1>2. \A y \in Partitions : y # x => queue'[y] = queue[y]
  BY DEF TakeEvent, TypeOK
<1>3. k \notin Range(deleting)
  BY DEF TakeEvent, HandlesEvent, Range
<1>4. DeletionComes(k) => DeletionComes(k)'
  BY <1>1, <1>2, <1>3 DEF DeletionComes
<1> QED BY <1>1, <1>4, CurrentKept, ShowsUnchanged

\* One key less to delete, which has just been deleted.
LEMMA DeleteShows ==
    ASSUME TypeOK, AnnouncedChangeShows, DeleteKey
    PROVE  AnnouncedChangeShows'
<1> SUFFICES ASSUME NEW k \in Key, k.kind \in InvalidatedKinds, Stale(k)', ~redis'[k].doubt
             PROVE  DeletionComes(k)'
  BY DEF AnnouncedChangeShows
<1>1. UNCHANGED <<program, unsent, queue>> /\ deleting # <<>> /\ deleting' = Tail(deleting)
  BY DEF DeleteKey, db
<1>2. k # Head(deleting) /\ redis'[k] = redis[k]
  BY DEF DeleteKey, Stale, TypeOK
<1>3. k \in Range(deleting) => k \in Range(Tail(deleting))
  <2>1. deleting \in Seq(Deletable)
    BY DEF TypeOK, Deletable
  <2> QED BY <1>1, <1>2, <2>1, TailOf
<1>4. DeletionComes(k) => DeletionComes(k)'
  BY <1>1, <1>3 DEF DeletionComes
<1> QED BY <1>1, <1>2, <1>4, CurrentKept, ShowsUnchanged

LEMMA DeleteFailsShows ==
    ASSUME TypeOK, AnnouncedChangeShows, DeleteFails
    PROVE  AnnouncedChangeShows'
<1> SUFFICES ASSUME NEW k \in Key, k.kind \in InvalidatedKinds, Stale(k)', ~redis'[k].doubt
             PROVE  DeletionComes(k)'
  BY DEF AnnouncedChangeShows
<1>1. k \notin Range(deleting) /\ redis'[k] = redis[k]
  BY DoubtType DEF DeleteFails, Stale
<1>2. UNCHANGED <<program, unsent, queue>>
  BY DEF DeleteFails, db
<1>3. DeletionComes(k) => DeletionComes(k)'
  BY <1>1, <1>2 DEF DeletionComes
<1> QED BY <1>1, <1>2, <1>3, CurrentKept, ShowsUnchanged

\* The event whose keys were being deleted is delivered again if its partition has
\* a committed offset, and so is every other event not taken; the keys of the
\* events that are skipped are in doubt.
LEMMA RestartShows ==
    ASSUME TypeOK, HandlesEvent, AnnouncedChangeShows, Restart
    PROVE  AnnouncedChangeShows'
<1> SUFFICES ASSUME NEW k \in Key, k.kind \in InvalidatedKinds, Stale(k)', ~redis'[k].doubt
             PROVE  DeletionComes(k)'
  BY DEF AnnouncedChangeShows
<1>1. UNCHANGED <<program, unsent>> /\ Doubt(Skipped)
  BY DEF Restart, db
<1>2. \A x \in Partitions : queue'[x] = Redelivered(x)
  BY DEF Restart
<1>3. k \notin Skipped /\ redis'[k] = redis[k]
  BY <1>1, DoubtType DEF Stale
<1>4. \A x \in Partitions : unsent[x] \in Nat /\ queue[x] \in Nat /\ handled[x] \in Nat
  BY DEF TypeOK, Versions
<1>5. ASSUME k \in Range(deleting)
      PROVE  DeletionComes(k)'
  <2>1. handling \in committed
    BY <1>3, <1>5 DEF Skipped
  <2>2. handling \in Partitions /\ handling # None
    BY <1>5, <2>1 DEF TypeOK, HandlesEvent, Range
  <2>3. queue'[handling] > 0
    BY <1>2, <1>4, <2>1, <2>2 DEF Redelivered, Uncommitted
  <2>4. k \in Range(KeysToDelete(handling[2]))
    BY <1>5, <2>2 DEF HandlesEvent
  <2>5. unsent'[handling] + queue'[handling] > 0
    BY <1>1, <1>2, <1>4, <2>1, <2>2 DEF Redelivered, Uncommitted
  <2> QED BY <2>2, <2>4, <2>5 DEF DeletionComes
<1>6. ASSUME NEW x \in Partitions, unsent[x] + queue[x] > 0, k \in Range(KeysToDelete(x[2]))
      PROVE  DeletionComes(k)'
  <2>1. k \in KeysAbout(x[2])
    BY <1>6, DeletedAreAbout DEF Partitions
  <2>2. queue[x] > 0 => x \in committed
    BY <1>3, <2>1 DEF Skipped
  <2>3. unsent'[x] + queue'[x] > 0
    BY <1>1, <1>2, <1>4, <1>6, <2>2 DEF Redelivered, Uncommitted
  <2> QED BY <1>6, <2>3 DEF DeletionComes
<1>7. DeletionComes(k) => DeletionComes(k)'
  BY <1>5, <1>6 DEF DeletionComes
<1> QED BY <1>1, <1>3, <1>7, CurrentKept, ShowsUnchanged

LEMMA RequestShows ==
    ASSUME TypeOK, AnnouncedChangeShows,
           UNCHANGED <<db, unsent, consumer>>,
           \/ redis' = redis
           \/ \E r \in Readers : Set(r)
           \/ \E k \in Key : Expire(k)
    PROVE  AnnouncedChangeShows'
<1> SUFFICES ASSUME NEW k \in Key, k.kind \in InvalidatedKinds, Stale(k)', ~redis'[k].doubt
             PROVE  DeletionComes(k)'
  BY DEF AnnouncedChangeShows
<1>1. Current(k)' = Current(k) /\ (DeletionComes(k) => DeletionComes(k)')
  BY CurrentKept DEF db, consumer, topic, DeletionComes
<1>2. CASE redis'[k] = redis[k]
  BY <1>1, <1>2, ShowsUnchanged
<1>3. ASSUME NEW r \in Readers, Set(r) PROVE redis'[k] = redis[k]
  <2>1. CASE req[r].key = k
    <3>1. redis'[k] = [value |-> req[r].value, doubt |-> req[r].value # Current(k)]
      BY <1>3, <2>1 DEF Set, TypeOK
    <3>2. redis'[k].value = req[r].value /\ redis'[k].doubt = (req[r].value # Current(k))
      BY <3>1
    <3>3. req[r].value = Current(k)
      BY <3>2
    <3>4. redis'[k].value # Current(k)'
      BY DEF Stale
    <3> QED BY <1>1, <3>2, <3>3, <3>4
  <2>2. CASE req[r].key # k
    BY <1>3, <2>2 DEF Set, TypeOK
  <2> QED BY <2>1, <2>2
<1>4. ASSUME NEW x \in Key, Expire(x) PROVE redis'[k] = redis[k]
  BY <1>4 DEF Expire, TypeOK, Stale
<1> QED BY <1>2, <1>3, <1>4

LEMMA NextIInv == IInv /\ [Next]_vars => IInv'
<1> SUFFICES ASSUME IInv, [Next]_vars PROVE IInv'
  OBVIOUS
<1>1. TypeOK' /\ AnnouncedAfterChange' /\ HandlesEvent'
  BY TypesKept, HandlesEventKept DEF IInv
<1>2. AnnouncedChangeShows'
  <2> USE DEF IInv
  <2>1. CASE CmsStep
    BY <2>1, CmsShows
  <2>2. CASE CommitOffsets
    <3>1. UNCHANGED <<program, unsent, queue, deleting, redis>>
      BY <2>2 DEF CommitOffsets, db
    <3>2. ASSUME NEW k \in Key, k.kind \in InvalidatedKinds PROVE Current(k)' = Current(k)
      BY <3>1, <3>2, CurrentKept
    <3> QED BY <3>1, <3>2 DEF AnnouncedChangeShows, Stale, DeletionComes
  <2>3. ASSUME NEW x \in Partitions, TakeEvent(x) PROVE AnnouncedChangeShows'
    BY <2>3, TakeShows
  <2>4. CASE ConsumerStep
    BY <2>2, <2>3, <2>4, DeleteShows, DeleteFailsShows, RestartShows DEF ConsumerStep
  <2>5. ASSUME NEW r \in Readers, NEW k \in Key, Get(r, k) PROVE AnnouncedChangeShows'
    BY <2>5, RequestShows DEF Get
  <2>6. ASSUME NEW r \in Readers, RequestStep(r) PROVE AnnouncedChangeShows'
    <3>1. CASE Set(r)
      BY <3>1, RequestShows DEF Set
    <3>2. CASE QueryHot(r) \/ ReadDatabase(r) \/ StoreHot(r)
      BY <3>2, RequestShows DEF QueryHot, ReadDatabase, StoreHot
    <3> QED BY <2>6, <3>1, <3>2 DEF RequestStep
  <2>7. ASSUME NEW k \in Key, Expire(k) PROVE AnnouncedChangeShows'
    BY <2>7, RequestShows DEF Expire
  <2>8. CASE UNCHANGED vars
    BY <2>8, RequestShows DEF vars
  <2> QED BY <2>1, <2>4, <2>5, <2>6, <2>7, <2>8 DEF Next
<1> QED BY <1>1, <1>2 DEF IInv

-----------------------------------------------------------------------------
\* The variables keep their types; a request holds a value of the kind its key
\* asks for once it has found one, and what does not exist is never cached.
THEOREM TypeCorrect == Spec => []TypeOK
<1>1. IInv => TypeOK
  BY DEF IInv
<1> QED BY InitIInv, NextIInv, <1>1, PTL DEF Spec

\* However reads, changes, deletions, restarts and failures interleave, an entry of a
\* key the consumer deletes is stale only while its deletion is still to come,
\* or when the change was silent, its event lost or skipped or its reader overtaken.
THEOREM AnnouncedShow == Spec => []AnnouncedChangeShows
<1>1. IInv => AnnouncedChangeShows
  BY DEF IInv
<1> QED BY InitIInv, NextIInv, <1>1, PTL DEF Spec
=============================================================================
