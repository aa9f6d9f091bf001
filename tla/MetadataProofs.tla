--------------------------- MODULE MetadataProofs ---------------------------
(***************************************************************************)
(* Theorems about Metadata for every set of ids, contents, requests, titles*)
(* and durations, every number of versions and of handlers cut short.      *)
(***************************************************************************)
EXTENDS Metadata, TLAPS

\* All versions below v of row i can be looked up.
Recorded(i, v) == \A k \in 1..(v - 1) : VersionsOf(i, k) # {}

\* What the step a request is at says of its row.  An update carries a row whose
\* versions are recorded, not the current row: others may have moved it.
Carries(r) ==
    /\ req[r].pc = "insert" => req[r].row \in Row /\ req[r].row.version = 1
    /\ req[r].pc \in {"reread", "history", "write"} => req[r].id \in used
    /\ req[r].pc \in {"history", "write"} =>
          /\ req[r].row \in Row /\ req[r].row.version <= MaxVersion
          /\ Recorded(req[r].id, req[r].row.version)
    /\ req[r].pc = "write" => VersionsOf(req[r].id, req[r].row.version) # {}

IInv == /\ TypeOK
        /\ \A r \in Requests : req[r] # None => Carries(r)
        /\ HistoryReachesBack

-----------------------------------------------------------------------------
(* The operators handlers are made of.                                     *)

LEMMA ReadType ==
    ASSUME NEW data \in Data PROVE Read(data) \in Data
BY DEF Read, Data

LEMMA MergeType ==
    ASSUME NEW body \in Body, NEW data \in Data PROVE Merge(body, data) \in Data
BY DEF Merge, Data, Body

\* A version that is stored stays.
LEMMA RecordedStays ==
    ASSUME Stored \subseteq Stored', NEW i, NEW v \in Nat, Recorded(i, v)
    PROVE  Recorded(i, v)'
BY DEF Recorded, VersionsOf

\* A request that no step touches carries what it carried.
LEMMA CarriesStays ==
    ASSUME TypeOK, Stored \subseteq Stored', used \subseteq used',
           NEW r \in Requests, req[r] # None, Carries(r), req'[r] = req[r]
    PROVE  Carries(r)'
<1>1. CASE req[r].pc \in {"history", "write"}
  <2>1. req[r].row.version \in Nat
    BY <1>1, MetadataAssumption DEF Carries, Row
  <2>2. Recorded(req[r].id, req[r].row.version)'
    BY <1>1, <2>1, RecordedStays DEF Carries, Recorded, VersionsOf
  <2> QED BY <1>1, <2>2 DEF Carries, VersionsOf
<1>2. CASE req[r].pc \notin {"history", "write"}
  BY <1>2 DEF Carries
<1> QED BY <1>1, <1>2

\* A request under way.
LEMMA RequestType ==
    ASSUME TypeOK, NEW r \in Requests, req[r] # None
    PROVE  req[r] \in Request
BY DEF TypeOK

\* A row that is stored.
LEMMA RowType ==
    ASSUME TypeOK, NEW i \in used
    PROVE  i \in Ids /\ rows[i] \in Row /\ rows[i] # None
BY DEF TypeOK

-----------------------------------------------------------------------------
LEMMA InitIInv == Init => IInv
<1> SUFFICES ASSUME Init PROVE IInv
  OBVIOUS
<1>1. TypeOK
  <2>1. failures \in 0..MaxFailures
    BY MetadataAssumption DEF Init
  <2>2. used = {i \in Ids : rows[i] # None}
    BY DEF Init
  <2> QED BY <2>1, <2>2 DEF Init, TypeOK
<1>2. HistoryReachesBack /\ \A r \in Requests : req[r] # None => Carries(r)
  BY DEF Init, HistoryReachesBack
<1> QED BY <1>1, <1>2 DEF IInv

-----------------------------------------------------------------------------
(* One lemma per action.                                                   *)

\* An action that leaves the tables alone and gives at most request r a new
\* state has only that state to answer for.
LEMMA TablesStay ==
    ASSUME IInv, UNCHANGED tables, halted' \in [Ids -> Nat], NEW r \in Requests, NEW call \in Request \cup {None},
           req' = [req EXCEPT ![r] = call],
           failures' \in 0..MaxFailures, overlap' \subseteq Ids,
           call # None => Carries(r)'
    PROVE  IInv'
<1>1. TypeOK'
  BY DEF IInv, TypeOK, tables
<1>2. HistoryReachesBack'
  BY DEF IInv, HistoryReachesBack, VersionsOf, Stored, tables
<1>3. ASSUME NEW s \in Requests, req'[s] # None
      PROVE  Carries(s)'
  <2>1. CASE s = r
    BY <1>3, <2>1 DEF IInv, TypeOK
  <2>2. CASE s # r
    BY <1>3, <2>2, CarriesStays DEF IInv, TypeOK, tables, Stored
  <2> QED BY <2>1, <2>2
<1> QED BY <1>1, <1>2, <1>3 DEF IInv

LEMMA CreateMetadataIInv ==
    ASSUME IInv, NEW r \in Requests, NEW c \in Contents, CreateMetadata(r, c)
    PROVE  IInv'
<1> USE DEF IInv
<1>1. PICK title \in Titles, duration \in Durations \cup {None}, type \in Types :
          LET data == [title |-> title, duration |-> duration]
          IN Go(r, [pc |-> "insert", id |-> None, body |-> data,
                    row |-> [content |-> c, type |-> type, data |-> data, version |-> 1]])
  BY DEF CreateMetadata
<1> DEFINE data == [title |-> title, duration |-> duration]
           row == [content |-> c, type |-> type, data |-> data, version |-> 1]
           call == [pc |-> "insert", id |-> None, body |-> data, row |-> row]
<1>2. data \in Data /\ data \in Body
  BY DEF Data, Body
<1>3. row \in Row
  BY <1>2, MetadataAssumption DEF Row
<1>4. call \in Request
  BY <1>2, <1>3 DEF Request
<1>5. req' = [req EXCEPT ![r] = call]
  BY <1>1 DEF Go
<1>6. /\ UNCHANGED tables /\ failures' \in 0..MaxFailures
      /\ overlap' \subseteq Ids /\ halted' \in [Ids -> Nat]
  BY DEF CreateMetadata, TypeOK, history
<1>7. Carries(r)'
  <2>1. req'[r] = call
    BY <1>5 DEF TypeOK
  <2> QED BY <2>1, <1>3 DEF Carries
<1> HIDE DEF call
<1> QED BY <1>4, <1>5, <1>6, <1>7, TablesStay

LEMMA UpdateMetadataIInv ==
    ASSUME IInv, NEW r \in Requests, NEW i \in Ids, UpdateMetadata(r, i)
    PROVE  IInv'
<1> USE DEF IInv
<1>1. PICK body \in Body : Go(r, [pc |-> "reread", id |-> i, row |-> None, body |-> body])
  BY DEF UpdateMetadata
<1> DEFINE call == [pc |-> "reread", id |-> i, row |-> None, body |-> body]
<1>2. call \in Request
  BY DEF Request
<1>3. req' = [req EXCEPT ![r] = call]
  BY <1>1 DEF Go
<1>4. /\ UNCHANGED tables /\ failures' \in 0..MaxFailures
      /\ overlap' \subseteq Ids /\ halted' \in [Ids -> Nat]
  BY DEF UpdateMetadata, TypeOK, history
<1>5. Carries(r)'
  <2>1. req'[r] = call
    BY <1>3 DEF TypeOK
  <2>2. i \in used'
    BY <1>4 DEF UpdateMetadata, TypeOK, tables
  <2> QED BY <2>1, <2>2 DEF Carries
<1> HIDE DEF call
<1> QED BY <1>2, <1>3, <1>4, <1>5, TablesStay

LEMMA RereadMetadataIInv ==
    ASSUME IInv, NEW r \in Requests, RereadMetadata(r)
    PROVE  IInv'
<1> USE DEF IInv
<1> DEFINE i == req[r].id
           row == [rows[i] EXCEPT !.data = Read(rows[i].data)]
           call == [req[r] EXCEPT !.pc = "history", !.row = row]
<1>1. i \in used /\ req[r] \in Request
  BY RequestType DEF RereadMetadata, Carries
<1>2. rows[i] \in Row /\ rows[i].version <= MaxVersion
  BY <1>1, RowType DEF RereadMetadata
<1>3. row \in Row /\ row.version = rows[i].version
  BY <1>2, ReadType DEF Row
<1>4. call \in Request /\ call.pc = "history" /\ call.row = row /\ call.id = i
  BY <1>1, <1>3 DEF Request
<1>5. req' = [req EXCEPT ![r] = call]
  BY DEF RereadMetadata
<1>6. /\ UNCHANGED tables /\ failures' \in 0..MaxFailures
      /\ overlap' \subseteq Ids /\ halted' \in [Ids -> Nat]
  BY DEF RereadMetadata, TypeOK, history
<1>7. Recorded(i, row.version)
  BY <1>1, <1>3 DEF Recorded, HistoryReachesBack
<1>8. Carries(r)'
  <2>1. req'[r] = call
    BY <1>5 DEF TypeOK
  <2>2. \A k : (VersionsOf(i, k) # {}) => \E v \in Stored' : v.of = i /\ v.version = k
    BY <1>6 DEF VersionsOf, Stored, tables
  <2> HIDE DEF call, row, i
  <2>3. Recorded(req[r].id, req[r].row.version)'
    BY <1>4, <1>7, <2>1, <2>2 DEF Recorded, VersionsOf
  <2>4. req'[r].id \in used' /\ req'[r].row \in Row /\ req'[r].row.version <= MaxVersion
    BY <1>1, <1>2, <1>3, <1>4, <1>6, <2>1 DEF tables
  <2> QED BY <1>4, <2>1, <2>3, <2>4 DEF Carries
<1> HIDE DEF call
<1> QED BY <1>4, <1>5, <1>6, <1>8, TablesStay

LEMMA CutShortIInv ==
    ASSUME IInv, NEW r \in Requests, CutShort(r)
    PROVE  IInv'
<1>1. failures' \in 0..MaxFailures /\ overlap' \subseteq Ids /\ UNCHANGED tables
  BY MetadataAssumption DEF CutShort, IInv, TypeOK
<1>3. halted' \in [Ids -> Nat]
  <2>1. CASE req[r].pc = "write"
    <3>1. req[r].id \in Ids
      BY <2>1 DEF CutShort, Idle, IInv, Carries, TypeOK
    <3> QED BY <2>1, <3>1 DEF CutShort, Halts, IInv, TypeOK
  <2> QED BY <2>1 DEF CutShort, IInv, TypeOK
<1>2. req' = [req EXCEPT ![r] = None]
  BY DEF CutShort, End
<1> QED BY <1>1, <1>2, <1>3, TablesStay

LEMMA InsertMetadataIInv ==
    ASSUME IInv, NEW r \in Requests, InsertMetadata(r)
    PROVE  IInv'
<1> USE DEF IInv
<1>1. req[r] # None /\ req[r].row \in Row /\ req[r].row.version = 1
  BY DEF InsertMetadata, Carries
<1>2. /\ req' = [req EXCEPT ![r] = None]
      /\ UNCHANGED <<versions, failures, overlap, halted>>
  BY DEF InsertMetadata, End, history
<1>3. CASE UNCHANGED <<rows, used>>
  <2>1. /\ UNCHANGED tables /\ failures' \in 0..MaxFailures
        /\ overlap' \subseteq Ids /\ halted' \in [Ids -> Nat]
    BY <1>2, <1>3 DEF TypeOK, tables
  <2> QED BY <1>2, <2>1, TablesStay
<1>4. CASE \E i \in Ids \ used : rows' = [rows EXCEPT ![i] = req[r].row]
                                /\ used' = used \cup {i}
  <2>1. PICK i \in Ids \ used : rows' = [rows EXCEPT ![i] = req[r].row]
                               /\ used' = used \cup {i}
    BY <1>4
  <2>2. TypeOK'
    <3>1. rows' \in [Ids -> Row \cup {None}]
      BY <1>1, <2>1 DEF TypeOK
    <3>2. used' = {j \in Ids : rows'[j] # None}
      BY <1>1, <2>1, NoneIsNoRecord DEF TypeOK
    <3> QED BY <1>2, <3>1, <3>2 DEF TypeOK
  <2>3. HistoryReachesBack'
    <3> SUFFICES ASSUME NEW j \in used', NEW v \in 1..(rows'[j].version - 1)
                 PROVE  VersionsOf(j, v)' # {}
      BY DEF HistoryReachesBack
    <3>1. CASE j = i
      BY <1>1, <2>1, <3>1 DEF TypeOK
    <3>2. CASE j # i
      BY <1>2, <2>1, <3>2 DEF TypeOK, HistoryReachesBack, VersionsOf, Stored
    <3> QED BY <3>1, <3>2
  <2>4. ASSUME NEW s \in Requests, req'[s] # None
        PROVE  Carries(s)'
    <3>1. s # r /\ req'[s] = req[s] /\ req[s] # None
      BY <1>2, <2>4 DEF TypeOK
    <3> QED BY <1>2, <2>1, <3>1, CarriesStays DEF Stored
  <2> QED BY <2>2, <2>3, <2>4
<1> QED BY <1>3, <1>4 DEF InsertMetadata

\* One more copy of an entry is stored, and no other entry.
LEMMA StoredGrows ==
    ASSUME TypeOK, NEW entry \in Version, versions' = [versions EXCEPT ![entry] = @ + 1]
    PROVE  versions' \in [Version -> Nat] /\ Stored' = Stored \cup {entry}
<1>1. versions' \in [Version -> Nat] /\ versions'[entry] = versions[entry] + 1
  BY DEF TypeOK
<1>2. \A v \in Version : v # entry => versions'[v] = versions[v]
  BY DEF TypeOK
<1>3. versions[entry] \in Nat
  BY DEF TypeOK
<1>4. \A v \in Version : versions'[v] > 0 <=> versions[v] > 0 \/ v = entry
  BY <1>1, <1>2, <1>3
<1> QED BY <1>1, <1>4 DEF Stored

LEMMA StoreVersionIInv ==
    ASSUME IInv, NEW r \in Requests, StoreVersion(r)
    PROVE  IInv'
<1> USE DEF IInv
<1> DEFINE i == req[r].id
           row == req[r].row
           entry == VersionOf(i, row, req[r].body)
           call == [req[r] EXCEPT !.pc = "write"]
<1>1. /\ req[r] \in Request /\ req[r].pc = "history"
      /\ i \in used /\ row \in Row /\ row.version <= MaxVersion
      /\ Recorded(i, row.version)
  BY RequestType DEF StoreVersion, Carries
<1>2. entry \in Version /\ entry.of = i /\ entry.version = row.version
  BY <1>1, MetadataAssumption DEF VersionOf, Version, Row, TypeOK
<1>3. /\ versions' \in [Version -> Nat] /\ Stored' = Stored \cup {entry}
      /\ req' = [req EXCEPT ![r] = call]
      /\ UNCHANGED <<rows, used, failures, overlap, halted>>
  BY <1>2, StoredGrows DEF StoreVersion, history
<1>4. call \in Request /\ call.pc = "write" /\ call.id = i /\ call.row = row
  BY <1>1 DEF Request
<1>5. TypeOK'
  <2> HIDE DEF call, entry
  <2> QED BY <1>2, <1>3, <1>4 DEF TypeOK
<1>6. HistoryReachesBack'
  BY <1>3 DEF HistoryReachesBack, VersionsOf
<1>7. req'[r] = call
  BY <1>3 DEF TypeOK
<1>8. Carries(r)'
  <2> HIDE DEF call, entry
  <2>1. row.version \in Nat
    BY <1>1, MetadataAssumption DEF Row
  <2>2. Recorded(i, row.version)'
    BY <1>1, <1>3, <1>4, <1>7, <2>1 DEF Recorded, VersionsOf
  <2>3. \E v \in Stored' : v.of = i /\ v.version = row.version
    BY <1>2, <1>3
  <2>4. Recorded(req[r].id, req[r].row.version)'
    BY <2>2
  <2>5. VersionsOf(req[r].id, req[r].row.version)' # {}
    BY <1>4, <1>7, <2>3 DEF VersionsOf
  <2> QED BY <1>1, <1>3, <1>4, <1>7, <2>4, <2>5 DEF Carries
<1>9. ASSUME NEW s \in Requests, s # r, req'[s] # None
      PROVE  Carries(s)'
  BY <1>3, <1>9, CarriesStays DEF TypeOK
<1> QED BY <1>5, <1>6, <1>8, <1>9

LEMMA WriteMetadataIInv ==
    ASSUME IInv, NEW r \in Requests, WriteMetadata(r)
    PROVE  IInv'
<1> USE DEF IInv
<1> DEFINE i == req[r].id
           row == req[r].row
<1>1. /\ req[r] \in Request /\ req[r].pc = "write"
      /\ i \in used /\ row \in Row /\ row.version <= MaxVersion
      /\ Recorded(i, row.version) /\ VersionsOf(i, row.version) # {}
  BY RequestType DEF WriteMetadata, Carries
<1>2. /\ req' = [req EXCEPT ![r] = None]
      /\ UNCHANGED <<versions, used, failures, overlap>> /\ Stored' = Stored
      /\ halted' \in [Ids -> Nat]
  BY <1>1 DEF WriteMetadata, End, Halts, Stored, TypeOK
<1>3. CASE UNCHANGED rows
  <2>1. /\ UNCHANGED tables /\ failures' \in 0..MaxFailures /\ overlap' \subseteq Ids
    BY <1>2, <1>3 DEF TypeOK, tables
  <2> QED BY <1>2, <2>1, TablesStay
<1>4. CASE rows' = [rows EXCEPT ![i].data = Merge(req[r].body, @),
                               ![i].version = row.version + 1]
  <2>1. i \in Ids /\ rows[i] \in Row /\ rows[i] # None
    BY <1>1, RowType
  <2> DEFINE new == [rows[i] EXCEPT !.data = Merge(req[r].body, @),
                                    !.version = row.version + 1]
  <2>2. new \in Row /\ new.version = row.version + 1
    <3>1. Merge(req[r].body, rows[i].data) \in Data
      BY <1>1, <2>1, MergeType DEF Request, Row
    <3>2. row.version + 1 \in 1..(MaxVersion + 1)
      BY <1>1, MetadataAssumption DEF Row
    <3> HIDE DEF row
    <3> QED BY <2>1, <3>1, <3>2 DEF Row
  <2>3. rows' = [rows EXCEPT ![i] = new]
    BY <1>4, <2>1 DEF TypeOK
  <2> HIDE DEF new
  <2>4. TypeOK'
    <3>1. rows' \in [Ids -> Row \cup {None}]
      BY <2>2, <2>3 DEF TypeOK
    <3>2. used' = {j \in Ids : rows'[j] # None}
      BY <1>2, <2>1, <2>2, <2>3, NoneIsNoRecord DEF TypeOK
    <3> QED BY <1>2, <3>1, <3>2 DEF TypeOK
  <2>5. HistoryReachesBack'
    <3> SUFFICES ASSUME NEW j \in used', NEW v \in 1..(rows'[j].version - 1)
                 PROVE  VersionsOf(j, v)' # {}
      BY DEF HistoryReachesBack
    <3>1. VersionsOf(j, v)' = VersionsOf(j, v)
      BY <1>2 DEF VersionsOf
    <3>2. CASE j = i
      <4>1. rows'[i] = new
        BY <2>1, <2>3 DEF TypeOK
      <4>2. v \in 1..row.version
        BY <1>1, <2>2, <3>2, <4>1, MetadataAssumption DEF Row
      <4>3. v = row.version \/ v \in 1..(row.version - 1)
        BY <1>1, <4>2, MetadataAssumption DEF Row
      <4> QED BY <1>1, <3>1, <3>2, <4>3 DEF Recorded
    <3>3. CASE j # i
      BY <1>2, <2>3, <3>1, <3>3 DEF TypeOK, HistoryReachesBack
    <3> QED BY <3>2, <3>3
  <2>6. ASSUME NEW s \in Requests, req'[s] # None
        PROVE  Carries(s)'
    <3>1. s # r /\ req'[s] = req[s] /\ req[s] # None
      BY <1>2, <2>6 DEF TypeOK
    <3> QED BY <1>2, <3>1, CarriesStays
  <2> QED BY <2>4, <2>5, <2>6
<1> QED BY <1>3, <1>4 DEF WriteMetadata, NextVersion

-----------------------------------------------------------------------------
LEMMA NextIInv == IInv /\ [Next]_vars => IInv'
<1> SUFFICES ASSUME IInv, [Next]_vars PROVE IInv'
  OBVIOUS
<1>1. ASSUME NEW r \in Requests, NEW c \in Contents, CreateMetadata(r, c) PROVE IInv'
  BY <1>1, CreateMetadataIInv
<1>2. ASSUME NEW r \in Requests, NEW i \in Ids, UpdateMetadata(r, i) PROVE IInv'
  BY <1>2, UpdateMetadataIInv
<1>3. ASSUME NEW r \in Requests, InsertMetadata(r) PROVE IInv'
  BY <1>3, InsertMetadataIInv
<1>4. ASSUME NEW r \in Requests, RereadMetadata(r) PROVE IInv'
  BY <1>4, RereadMetadataIInv
<1>5. ASSUME NEW r \in Requests, StoreVersion(r) PROVE IInv'
  BY <1>5, StoreVersionIInv
<1>6. ASSUME NEW r \in Requests, WriteMetadata(r) PROVE IInv'
  BY <1>6, WriteMetadataIInv
<1>7. ASSUME NEW r \in Requests, CutShort(r) PROVE IInv'
  BY <1>7, CutShortIInv
<1>8. CASE UNCHANGED vars
  BY <1>8 DEF vars, tables, history, IInv, TypeOK, HistoryReachesBack, VersionsOf, Stored,
     Carries, Recorded
<1> QED BY <1>1, <1>2, <1>3, <1>4, <1>5, <1>6, <1>7, <1>8 DEF Next

LEMMA Invariance == Spec => []IInv
BY InitIInv, NextIInv, PTL DEF Spec

\* The variables keep their types.
THEOREM TypeCorrect == Spec => []TypeOK
<1>1. IInv => TypeOK
  BY DEF IInv
<1> QED BY <1>1, Invariance, PTL

\* Every version before the one a row is at can be looked up, although a handler
\* writes the history and the row in two steps from a row it read before, and
\* may be overtaken or cut short at each: it stores the version it read before
\* it writes the next one, and nothing ever removes a version.
THEOREM HistoryComplete == Spec => []HistoryReachesBack
<1>1. IInv => HistoryReachesBack
  BY DEF IInv
<1> QED BY <1>1, Invariance, PTL

-----------------------------------------------------------------------------
(* One update of a row at a time.                                          *)

\* The row of id i, as it is read.
AsRead(i) == [rows[i] EXCEPT !.data = Read(rows[i].data)]

\* As long as no two updates of row i overlap only one is under way, the row it
\* carries is the current one, no entry is ahead of the row but its own, and of
\* these there is one for each update that halted and for one about to write.
OneUpdate(i) == \A r, s \in Requests : Updates(r, i) /\ Updates(s, i) => r = s
CarriesCurrent(i) == \A r \in Requests :
    Updates(r, i) /\ req[r].pc \in {"history", "write"} => req[r].row = AsRead(i)
NoneAhead(i) == \A v \in Stored : v.of = i =>
    i \in used /\ (v.version < rows[i].version \/ v = EntryOf(i))

Writing(i) == \E r \in Requests : Updates(r, i) /\ req[r].pc = "write"
Due(i) == halted[i] + IF Writing(i) THEN 1 ELSE 0
Copies(i) ==
    /\ i \notin used => halted[i] = 0
    /\ i \in used /\ rows[i].version <= MaxVersion => versions[EntryOf(i)] = Due(i)

Sequential(i) == OneUpdate(i) /\ CarriesCurrent(i) /\ NoneAhead(i) /\ Copies(i)

SeqInv == \A i \in Ids \ overlap : Sequential(i)

LEMMA InitSequential == Init => SeqInv
BY DEF Init, SeqInv, Sequential, OneUpdate, CarriesCurrent, NoneAhead, Copies, Stored,
   Updates, Idle

\* The entry of a row is one the history can hold.
LEMMA EntryType ==
    ASSUME TypeOK, NEW i \in used, rows[i].version <= MaxVersion
    PROVE  EntryOf(i) \in Version /\ EntryOf(i).of = i
<1>1. i \in Ids /\ rows[i] \in Row
  BY RowType
<1>2. Read(rows[i].data) \in Data /\ rows[i].version \in 1..MaxVersion
  BY <1>1, ReadType, MetadataAssumption DEF Row
<1> QED BY <1>1, <1>2 DEF EntryOf, Version

\* Requests other than one about to write row i do not matter for its copies.
LEMMA DueStays ==
    ASSUME NEW i \in Ids, halted'[i] = halted[i],
           NEW r \in Requests, \A s \in Requests \ {r} : req'[s] = req[s],
           Updates(r, i) => req[r].pc # "write",
           Updates(r, i)' => req'[r].pc # "write"
    PROVE  Due(i)' = Due(i)
<1>1. \A s \in Requests \ {r} : Updates(s, i)' = Updates(s, i)
  BY DEF Updates, Idle
<1>2. Writing(i)' = Writing(i)
  BY <1>1 DEF Writing
<1> QED BY <1>2 DEF Due

\* An update about to write that halts leaves its entry.
LEMMA DueHalts ==
    ASSUME TypeOK, NEW i \in Ids, Sequential(i), NEW r \in Requests,
           Updates(r, i), req[r].pc = "write", ~Updates(r, i)',
           halted'[i] = halted[i] + 1, \A s \in Requests \ {r} : req'[s] = req[s]
    PROVE  Due(i)' = Due(i)
<1>1. Writing(i)
  BY DEF Writing
<1>2. \A s \in Requests \ {r} : ~Updates(s, i)'
  BY DEF Sequential, OneUpdate, Updates, Idle
<1>3. ~Writing(i)'
  BY <1>2 DEF Writing
<1>4. halted[i] \in Nat
  BY DEF TypeOK
<1> QED BY <1>1, <1>3, <1>4 DEF Due

\* A request that gets a new state, or ends, is the only one to answer for where
\* neither the row nor its history changes.
LEMMA SequentialStays ==
    ASSUME IInv, NEW i \in Ids, Sequential(i), rows'[i] = rows[i], i \in used <=> i \in used',
           \A v \in Version : v.of = i => versions'[v] = versions[v],
           Due(i)' = Due(i), i \notin used => halted'[i] = 0,
           NEW r \in Requests, \A s \in Requests \ {r} : req'[s] = req[s],
           Updates(r, i)' => \A s \in Requests \ {r} : ~Updates(s, i),
           Updates(r, i)' /\ req'[r].pc \in {"history", "write"} =>
                req'[r].row = AsRead(i)
    PROVE  Sequential(i)'
<1>1. \A s \in Requests \ {r} : Updates(s, i)' = Updates(s, i)
  BY DEF Updates, Idle
<1>2. AsRead(i)' = AsRead(i) /\ EntryOf(i)' = EntryOf(i)
  BY DEF AsRead, EntryOf
<1>3. OneUpdate(i)'
  BY <1>1 DEF Sequential, OneUpdate
<1>4. CarriesCurrent(i)'
  BY <1>1, <1>2 DEF Sequential, CarriesCurrent
<1>5. NoneAhead(i)'
  BY <1>2 DEF Sequential, NoneAhead, Stored
<1>6. Copies(i)'
  <2>1. CASE i \in used /\ rows[i].version <= MaxVersion
    <3>1. versions'[EntryOf(i)] = versions[EntryOf(i)]
      BY <2>1, EntryType DEF IInv
    <3>2. versions'[EntryOf(i)'] = Due(i)'
      BY <1>2, <2>1, <3>1 DEF Sequential, Copies
    <3> QED BY <2>1, <3>2 DEF Copies
  <2>2. CASE ~(i \in used /\ rows[i].version <= MaxVersion)
    BY <2>2 DEF Copies
  <2> QED BY <2>1, <2>2
<1> QED BY <1>3, <1>4, <1>5, <1>6 DEF Sequential

\* The steps of a request that are not about row i, or end its being updated.
LEMMA Elsewhere ==
    ASSUME IInv, NEW i \in Ids, Sequential(i),
           rows'[i] = rows[i], i \in used <=> i \in used',
           \A v \in Version : v.of = i => versions'[v] = versions[v],
           Due(i)' = Due(i), i \notin used => halted'[i] = 0,
           NEW r \in Requests, \A s \in Requests \ {r} : req'[s] = req[s],
           ~Updates(r, i)'
    PROVE  Sequential(i)'
BY SequentialStays

\* Nothing halted of a row that is not stored.
LEMMA NoneHalted ==
    ASSUME NEW i, Sequential(i), i \notin used PROVE halted[i] = 0
BY DEF Sequential, Copies

LEMMA UpdateSequential ==
    ASSUME IInv, NEW i \in Ids \ overlap', Sequential(i),
           NEW r \in Requests, NEW j \in Ids, UpdateMetadata(r, j)
    PROVE  Sequential(i)'
<1>1. PICK body : Go(r, [pc |-> "reread", id |-> j, row |-> None, body |-> body])
  BY DEF UpdateMetadata
<1>2. /\ UNCHANGED <<tables, halted>> /\ Idle(r)
      /\ \A s \in Requests \ {r} : req'[s] = req[s]
      /\ req'[r] = [pc |-> "reread", id |-> j, row |-> None, body |-> body]
  BY <1>1 DEF UpdateMetadata, Go, IInv, TypeOK
<1>3. Updates(r, i)' => \A s \in Requests \ {r} : ~Updates(s, i)
  BY <1>2 DEF UpdateMetadata, Updates
<1>4. Due(i)' = Due(i)
  BY <1>2, DueStays DEF Updates
<1> QED BY <1>2, <1>3, <1>4, SequentialStays, NoneHalted DEF tables

\* An update that goes on with the row it carries, or comes to carry, current.
LEMMA GoesOnSequential ==
    ASSUME IInv, NEW i \in Ids, Sequential(i), NEW r \in Requests, Updates(r, i),
           UNCHANGED <<tables, halted>>, Due(i)' = Due(i),
           \A s \in Requests \ {r} : req'[s] = req[s],
           req'[r].row = AsRead(i)
    PROVE  Sequential(i)'
<1>1. \A s \in Requests \ {r} : ~Updates(s, i)
  BY DEF Sequential, OneUpdate
<1> QED BY <1>1, SequentialStays, NoneHalted DEF tables

LEMMA RereadSequential ==
    ASSUME IInv, NEW i \in Ids, Sequential(i), NEW r \in Requests, RereadMetadata(r)
    PROVE  Sequential(i)'
<1>1. /\ UNCHANGED <<tables, halted>> /\ req[r] \in Request /\ req[r] # None
      /\ req[r].pc = "reread" /\ req'[r].pc = "history"
      /\ \A s \in Requests \ {r} : req'[s] = req[s]
  BY RequestType DEF RereadMetadata, IInv, TypeOK, Request, history
<1>0. Due(i)' = Due(i)
  BY <1>1, DueStays
<1>2. req'[r].row = AsRead(req[r].id) /\ req'[r].id = req[r].id
  BY <1>1 DEF RereadMetadata, AsRead, IInv, TypeOK, Request
<1>3. CASE req[r].id = i
  <2>1. Updates(r, i)
    BY <1>1, <1>3 DEF Updates, Idle
  <2> QED BY <1>0, <1>1, <1>2, <1>3, <2>1, GoesOnSequential
<1>4. CASE req[r].id # i
  <2>1. ~Updates(r, i)'
    BY <1>2, <1>4 DEF Updates
  <2> QED BY <1>0, <1>1, <2>1, Elsewhere, NoneHalted DEF tables
<1> QED BY <1>3, <1>4

LEMMA StoreSequential ==
    ASSUME IInv, NEW i \in Ids, Sequential(i), NEW r \in Requests, StoreVersion(r)
    PROVE  Sequential(i)'
<1> DEFINE entry == VersionOf(req[r].id, req[r].row, req[r].body)
<1>1. /\ UNCHANGED <<rows, used, halted>> /\ versions' = [versions EXCEPT ![entry] = @ + 1]
      /\ req[r] \in Request /\ req[r] # None /\ req[r].pc = "history"
      /\ \A s \in Requests \ {r} : req'[s] = req[s]
  BY RequestType DEF StoreVersion, IInv, TypeOK, history
<1>2. /\ req'[r].row = req[r].row /\ req'[r].id = req[r].id /\ req'[r].pc = "write"
      /\ req'[r] # None /\ entry.of = req[r].id
  <2>1. req'[r] = [req[r] EXCEPT !.pc = "write"] /\ req'[r] \in Request
    BY <1>1 DEF StoreVersion, IInv, TypeOK, Request
  <2> QED BY <1>1, <2>1, NoneIsNoRecord DEF Request, VersionOf
<1>0. entry \in Version
  <2>1. req[r].id \in used /\ req[r].row \in Row /\ req[r].row.version <= MaxVersion
    BY <1>1 DEF IInv, Carries
  <2> QED BY <2>1, MetadataAssumption DEF VersionOf, Version, Row, IInv, TypeOK
<1>3. CASE req[r].id = i
  <2>1. Updates(r, i) /\ req[r].row = AsRead(i) /\ i \in used
    BY <1>1, <1>3 DEF Updates, Idle, Sequential, CarriesCurrent, IInv, Carries
  <2>2. rows[i] \in Row
    BY <2>1, RowType DEF IInv
  <2>3. entry = EntryOf(i)
    BY <1>3, <2>1, <2>2 DEF VersionOf, EntryOf, AsRead, Row
  <2> HIDE DEF entry
  <2>4. NoneAhead(i)'
    <3>1. Stored' = Stored \cup {entry}
      BY <1>0, <1>1, StoredGrows DEF IInv
    <3> QED BY <1>1, <2>1, <2>3, <3>1 DEF Sequential, NoneAhead, EntryOf
  <2>5. \A s \in Requests \ {r} : ~Updates(s, i) /\ ~Updates(s, i)'
    BY <1>1, <2>1 DEF Sequential, OneUpdate, Updates, Idle
  <2>6. OneUpdate(i)'
    BY <2>5 DEF OneUpdate
  <2>7. CarriesCurrent(i)'
    BY <1>1, <1>2, <2>1, <2>5 DEF CarriesCurrent, AsRead
  <2>8. Copies(i)'
    <3>1. ~Writing(i)
      BY <1>1, <2>5 DEF Writing
    <3>2. Writing(i)'
      BY <1>2, <1>3 DEF Writing, Updates, Idle
    <3>3. halted[i] \in Nat /\ versions[entry] \in Nat
      BY <1>0 DEF IInv, TypeOK
    <3>4. Due(i)' = Due(i) + 1
      BY <1>1, <3>1, <3>2, <3>3 DEF Due
    <3>5. versions'[entry] = versions[entry] + 1
      BY <1>0, <1>1 DEF IInv, TypeOK
    <3>6. EntryOf(i)' = entry
      BY <1>1, <2>3 DEF EntryOf
    <3>7. rows[i].version <= MaxVersion => versions'[EntryOf(i)'] = Due(i)'
      BY <2>1, <2>3, <3>4, <3>5, <3>6 DEF Sequential, Copies
    <3> QED BY <1>1, <2>1, <3>7 DEF Copies
  <2> QED BY <2>4, <2>6, <2>7, <2>8 DEF Sequential
<1>4. CASE req[r].id # i
  <2>1. ~Updates(r, i)' /\ ~Updates(r, i)
    BY <1>2, <1>4 DEF Updates
  <2>2. \A v \in Version : v.of = i => versions'[v] = versions[v]
    BY <1>0, <1>1, <1>2, <1>4 DEF IInv, TypeOK
  <2> HIDE DEF entry
  <2>3. Due(i)' = Due(i)
    BY <1>1, <2>1, DueStays
  <2> QED BY <1>1, <2>1, <2>2, <2>3, Elsewhere, NoneHalted
<1> QED BY <1>3, <1>4

\* The write of an update that carries the current row.
LEMMA WriteOf ==
    ASSUME IInv, NEW r \in Requests, WriteMetadata(r), NEW i \in Ids, Sequential(i),
           req[r].id = i
    PROVE  /\ i \in used /\ rows[i] \in Row /\ UNCHANGED <<versions, used>>
           /\ req[r].row.version = rows[i].version
           /\ VersionsOf(i, rows[i].version) # {}
           /\ \/ UNCHANGED rows
              \/ rows'[i].version = rows[i].version + 1 /\ halted'[i] = 0
<1>1. /\ req[r] # None /\ req[r].pc = "write" /\ i \in used
      /\ VersionsOf(i, req[r].row.version) # {}
  BY DEF WriteMetadata, IInv, Carries
<1>2. rows[i] \in Row
  BY <1>1, RowType DEF IInv
<1>3. req[r].row = AsRead(i)
  BY <1>1 DEF Sequential, CarriesCurrent, Updates, Idle
<1>4. req[r].row.version = rows[i].version
  BY <1>2, <1>3 DEF AsRead, Row
<1>5. \/ UNCHANGED rows
      \/ rows'[i].version = rows[i].version + 1 /\ halted'[i] = 0
  BY <1>2, <1>4 DEF WriteMetadata, NextVersion, IInv, TypeOK, Row
<1> QED BY <1>1, <1>2, <1>4, <1>5 DEF WriteMetadata

LEMMA WriteSequential ==
    ASSUME IInv, NEW i \in Ids, Sequential(i), NEW r \in Requests, WriteMetadata(r)
    PROVE  Sequential(i)'
<1>1. /\ UNCHANGED <<versions, used>> /\ req[r] # None /\ req[r].pc = "write"
      /\ req'[r] = None /\ \A s \in Requests \ {r} : req'[s] = req[s]
  BY DEF WriteMetadata, End, IInv, TypeOK
<1>2. ~Updates(r, i)'
  BY <1>1 DEF Updates, Idle
<1>3. CASE req[r].id # i
  <2>1. rows'[i] = rows[i] /\ halted'[i] = halted[i] /\ ~Updates(r, i)
    BY <1>3 DEF WriteMetadata, Halts, IInv, TypeOK, Updates
  <2>2. Due(i)' = Due(i)
    BY <1>1, <1>2, <2>1, DueStays
  <2> QED BY <1>1, <1>2, <2>1, <2>2, Elsewhere, NoneHalted
<1>4. CASE req[r].id = i /\ UNCHANGED rows /\ Halts(i)
  <2>1. Updates(r, i) /\ i \in used
    BY <1>1, <1>4 DEF Updates, Idle, IInv, Carries
  <2>2. halted'[i] = halted[i] + 1
    BY <1>4 DEF Halts, IInv, TypeOK
  <2>3. Due(i)' = Due(i)
    BY <1>1, <1>2, <2>1, <2>2, DueHalts DEF IInv
  <2> QED BY <1>1, <1>2, <1>4, <2>1, <2>3, Elsewhere
<1>5. CASE req[r].id = i /\ rows'[i].version = rows[i].version + 1 /\ halted'[i] = 0
  <2>1. i \in used /\ rows[i] \in Row
    BY <1>5, WriteOf
  <2>2. \A s \in Requests : ~Updates(s, i)'
    <3>1. Updates(r, i)
      BY <1>1, <1>5 DEF Updates, Idle
    <3> QED BY <1>1, <1>2, <3>1 DEF Sequential, OneUpdate, Updates, Idle
  <2>3. ASSUME NEW v \in Stored, v.of = i
        PROVE  v.version < rows'[i].version
    <3>1. v.version \in Nat /\ rows[i].version \in Nat
      BY <2>1, MetadataAssumption DEF Stored, Version, Row
    <3>2. v.version <= rows[i].version
      BY <2>3, <3>1 DEF Sequential, NoneAhead, EntryOf
    <3> QED BY <1>5, <3>1, <3>2
  <2>4. NoneAhead(i)'
    BY <1>1, <2>1, <2>3 DEF NoneAhead, Stored
  <2>5. Copies(i)'
    <3>1. Due(i)' = 0
      BY <1>5, <2>2 DEF Due, Writing
    <3>2. ASSUME rows'[i].version <= MaxVersion
          PROVE  versions'[EntryOf(i)'] = 0
      <4>1. EntryOf(i)' \in Version /\ EntryOf(i)'.of = i
        <5>1. i \in Ids /\ rows'[i] \in Row
          BY <1>1, <2>1, WriteMetadataIInv DEF IInv, TypeOK
        <5>2. Read(rows'[i].data) \in Data /\ rows'[i].version \in 1..MaxVersion
          BY <3>2, <5>1, ReadType, MetadataAssumption DEF Row
        <5> QED BY <5>1, <5>2 DEF EntryOf, Version
      <4>2. EntryOf(i)'.version = rows'[i].version /\ rows'[i].version \in Nat
        BY <1>5, <2>1, MetadataAssumption DEF EntryOf, Row
      <4>3. EntryOf(i)' \notin Stored
        BY <2>3, <4>1, <4>2
      <4> QED BY <1>1, <4>1, <4>3 DEF Stored, IInv, TypeOK
    <3> QED BY <1>1, <2>1, <3>1, <3>2 DEF Copies
  <2> QED BY <2>2, <2>4, <2>5 DEF Sequential, OneUpdate, CarriesCurrent
<1>6. req[r].id = i => \/ UNCHANGED rows /\ Halts(i)
                       \/ rows'[i].version = rows[i].version + 1 /\ halted'[i] = 0
  <2> SUFFICES ASSUME req[r].id = i, ~(UNCHANGED rows /\ Halts(i))
               PROVE  rows'[i].version = rows[i].version + 1 /\ halted'[i] = 0
    OBVIOUS
  <2>1. rows[i] \in Row /\ req[r].row.version = rows[i].version
    BY WriteOf
  <2> QED BY <2>1 DEF WriteMetadata, NextVersion, IInv, TypeOK, Row
<1> QED BY <1>3, <1>4, <1>5, <1>6

LEMMA InsertSequential ==
    ASSUME IInv, NEW i \in Ids, Sequential(i), NEW r \in Requests, InsertMetadata(r)
    PROVE  Sequential(i)'
<1>1. /\ UNCHANGED <<versions, halted>> /\ req'[r] = None
      /\ \A s \in Requests \ {r} : req'[s] = req[s]
  BY DEF InsertMetadata, End, IInv, TypeOK, history
<1>2. ~Updates(r, i)' /\ ~Updates(r, i)
  BY <1>1 DEF Updates, Idle, InsertMetadata
<1>3. Due(i)' = Due(i)
  BY <1>1, <1>2, DueStays
<1>4. CASE i \in used
  <2>1. i \in used' /\ rows'[i] = rows[i]
    BY <1>4 DEF InsertMetadata, IInv, TypeOK
  <2> QED BY <1>1, <1>2, <1>3, <1>4, <2>1, Elsewhere
<1>5. CASE i \notin used
  \* No update and no entry is of a row that was never stored.
  <2>1. \A s \in Requests : ~Updates(s, i)
    BY <1>5, RequestType DEF IInv, Carries, Updates, Idle, Request
  <2>2. \A s \in Requests : ~Updates(s, i)'
    BY <1>1, <1>2, <2>1 DEF Updates, Idle
  <2>3. \A v \in Stored : v.of # i
    BY <1>5 DEF Sequential, NoneAhead
  <2>4. Due(i)' = 0 /\ halted'[i] = 0
    BY <1>1, <1>5, <2>2, NoneHalted DEF Due, Writing
  <2>5. ASSUME i \in used', rows'[i].version <= MaxVersion
        PROVE  versions'[EntryOf(i)'] = 0
    <3>1. rows'[i] \in Row
      BY <2>5, InsertMetadataIInv DEF IInv, TypeOK
    <3>2. Read(rows'[i].data) \in Data /\ rows'[i].version \in 1..MaxVersion
      BY <2>5, <3>1, ReadType, MetadataAssumption DEF Row
    <3>3. EntryOf(i)' \in Version /\ EntryOf(i)'.of = i
      BY <3>2 DEF EntryOf, Version
    <3> QED BY <1>1, <2>3, <3>3 DEF Stored, IInv, TypeOK
  <2>6. Copies(i)'
    BY <2>4, <2>5 DEF Copies
  <2>7. NoneAhead(i)'
    BY <1>1, <2>3 DEF NoneAhead, Stored
  <2> QED BY <2>2, <2>6, <2>7 DEF Sequential, OneUpdate, CarriesCurrent
<1> QED BY <1>4, <1>5

LEMMA NextSequential ==
    ASSUME IInv, SeqInv, [Next]_vars
    PROVE  SeqInv'
<1> SUFFICES ASSUME NEW i \in Ids \ overlap' PROVE Sequential(i)'
  BY DEF SeqInv
<1>1. overlap \subseteq overlap'
  BY DEF Next, vars, CreateMetadata, UpdateMetadata, InsertMetadata, RereadMetadata,
     StoreVersion, WriteMetadata, CutShort, history
<1>2. Sequential(i)
  BY <1>1 DEF SeqInv
<1>3. ASSUME NEW r \in Requests, NEW c \in Contents, CreateMetadata(r, c)
      PROVE  Sequential(i)'
  <2>1. PICK row, body : Go(r, [pc |-> "insert", id |-> None, body |-> body, row |-> row])
    BY <1>3 DEF CreateMetadata
  <2>2. /\ UNCHANGED <<tables, halted>> /\ Idle(r) /\ req'[r].pc = "insert"
        /\ \A s \in Requests \ {r} : req'[s] = req[s]
    BY <1>3, <2>1 DEF CreateMetadata, Go, IInv, TypeOK, history
  <2>3. ~Updates(r, i)' /\ ~Updates(r, i)
    BY <2>2 DEF Updates
  <2>4. Due(i)' = Due(i)
    BY <2>2, <2>3, DueStays
  <2> QED BY <1>2, <2>2, <2>3, <2>4, Elsewhere, NoneHalted DEF tables
<1>4. ASSUME NEW r \in Requests, NEW j \in Ids, UpdateMetadata(r, j)
      PROVE  Sequential(i)'
  BY <1>2, <1>4, UpdateSequential
<1>5. ASSUME NEW r \in Requests, InsertMetadata(r)
      PROVE  Sequential(i)'
  BY <1>2, <1>5, InsertSequential
<1>6. ASSUME NEW r \in Requests, RereadMetadata(r) PROVE Sequential(i)'
  BY <1>2, <1>6, RereadSequential
<1>7. ASSUME NEW r \in Requests, StoreVersion(r) PROVE Sequential(i)'
  BY <1>2, <1>7, StoreSequential
<1>8. ASSUME NEW r \in Requests, WriteMetadata(r) PROVE Sequential(i)'
  BY <1>2, <1>8, WriteSequential
<1>9. ASSUME NEW r \in Requests, CutShort(r)
      PROVE  Sequential(i)'
  <2>1. /\ UNCHANGED tables /\ req'[r] = None /\ req[r] # None
        /\ \A s \in Requests \ {r} : req'[s] = req[s]
    BY <1>9 DEF CutShort, End, Idle, IInv, TypeOK
  <2>2. ~Updates(r, i)'
    BY <2>1 DEF Updates, Idle
  <2>3. CASE Updates(r, i) /\ req[r].pc = "write"
    <3>1. i \in used /\ halted'[i] = halted[i] + 1
      BY <1>9, <2>1, <2>3 DEF CutShort, Halts, Updates, IInv, TypeOK, Carries
    <3>2. Due(i)' = Due(i)
      BY <1>2, <2>1, <2>2, <2>3, <3>1, DueHalts DEF IInv
    <3> QED BY <1>2, <2>1, <2>2, <3>1, <3>2, Elsewhere DEF tables
  <2>4. CASE ~(Updates(r, i) /\ req[r].pc = "write")
    <3>1. halted'[i] = halted[i]
      BY <1>9, <2>1, <2>4 DEF CutShort, Halts, Updates, Idle, IInv, TypeOK
    <3>2. Due(i)' = Due(i)
      BY <2>1, <2>2, <2>4, <3>1, DueStays
    <3> QED BY <1>2, <2>1, <2>2, <3>1, <3>2, Elsewhere, NoneHalted DEF tables
  <2> QED BY <2>3, <2>4
<1>10. CASE UNCHANGED vars
  BY <1>2, <1>10 DEF vars, tables, history, Sequential, OneUpdate, CarriesCurrent, NoneAhead,
     Copies, Due, Writing, Stored, AsRead, EntryOf, Updates, Idle
<1> QED BY <1>3, <1>4, <1>5, <1>6, <1>7, <1>8, <1>9, <1>10 DEF Next

\* A row whose updates have come one at a time goes to the next version when it
\* changes.  Each entry of the version before is the row as it was read, and there
\* is one for this update and one for each that halted between the two writes and
\* was repeated; whatever overlaps on other rows does not disturb it.
THEOREM VersionedSequentially == Spec => ChangesAreVersioned
<1> DEFINE Leaves(i) ==
        /\ rows'[i].version = rows[i].version + 1
        /\ \A v \in Stored' : v.of = i /\ v.version = rows[i].version => v = EntryOf(i)
        /\ versions'[EntryOf(i)] = halted[i] + 1
<1>1. ASSUME IInv, SeqInv, [Next]_vars, NEW i \in used \ overlap', rows'[i] # rows[i]
      PROVE  Leaves(i)
  <2>1. PICK r \in Requests : WriteMetadata(r)
    <3>1. ASSUME NEW r \in Requests, InsertMetadata(r) PROVE FALSE
      BY <1>1, <3>1 DEF InsertMetadata, IInv, TypeOK
    <3>2. ASSUME NEW r \in Requests,
                 \/ \E c \in Contents : CreateMetadata(r, c)
                 \/ \E j \in Ids : UpdateMetadata(r, j)
                 \/ RereadMetadata(r) \/ StoreVersion(r) \/ CutShort(r)
          PROVE  FALSE
      BY <1>1, <3>2
      DEF CreateMetadata, UpdateMetadata, RereadMetadata, StoreVersion, CutShort, tables
    <3> QED BY <1>1, <3>1, <3>2 DEF Next, vars, tables
  <2>2. i \in Ids /\ Sequential(i)
    BY <1>1, <2>1 DEF SeqInv, IInv, TypeOK, WriteMetadata
  <2>3. req[r].id = i
    BY <1>1, <2>1, <2>2 DEF WriteMetadata, IInv, TypeOK
  <2>4. /\ rows[i] \in Row /\ versions' = versions
        /\ rows'[i].version = rows[i].version + 1
        /\ req[r].row.version = rows[i].version
    BY <1>1, <2>1, <2>2, <2>3, WriteOf
  <2>5. \A v \in Stored' : v.of = i /\ v.version = rows[i].version => v = EntryOf(i)
    BY <2>2, <2>4, MetadataAssumption DEF Sequential, NoneAhead, Row, Stored
  <2>6. Writing(i) /\ rows[i].version <= MaxVersion
    BY <1>1, <2>1, <2>3, <2>4 DEF Writing, WriteMetadata, Updates, Idle, IInv, Carries
  <2>7. versions[EntryOf(i)] = halted[i] + 1
    BY <1>1, <2>2, <2>6 DEF Sequential, Copies, Due
  <2> QED BY <2>4, <2>5, <2>7
<1>2. IInv /\ SeqInv /\ [Next]_vars =>
        [\A i \in used \ overlap' : rows'[i] # rows[i] =>
          /\ rows'[i].version = rows[i].version + 1
          /\ \A v \in Stored' : v.of = i /\ v.version = rows[i].version => v = EntryOf(i)
          /\ versions'[EntryOf(i)] = halted[i] + 1]_vars
  BY <1>1
<1>3. Spec => []SeqInv
  BY InitSequential, NextSequential, Invariance, PTL DEF Spec
<1> QED BY <1>2, <1>3, Invariance, PTL DEF Spec, ChangesAreVersioned
=============================================================================
