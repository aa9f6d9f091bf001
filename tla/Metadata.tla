------------------------------- MODULE Metadata -------------------------------
(***************************************************************************)
(* Metadata service: one row of metadata per content, and the versions it  *)
(* had before.                                                             *)
(*                                                                         *)
(* A handler checks what it read, reads the row again, stores that as a    *)
(* version and then overwrites the row: four awaits without a transaction, *)
(* between which other handlers run and at any of which it may be cut      *)
(* short.  Of the fields, the title (abstracted to its length) and the     *)
(* duration are modelled; the others behave like the title.                *)
(***************************************************************************)
EXTENDS Naturals, FiniteSets

CONSTANTS
    Ids,          \* uuids the database may give rows
    Contents,     \* content ids
    Requests,     \* bound: requests under way at once
    MaxVersion,   \* bound: versions of a row
    MaxFailures,  \* bound: handlers cut short
    MaxCopies,    \* bound: entries of the history that are alike
    Types,        \* bound: content types of the rows created
    Titles,       \* lengths of the titles sent
    Durations,    \* durations sent, in seconds, 0 among them
    None          \* undefined; also the row of an id that is not stored

ContentType == {"PROGRAM", "EPISODE", "MOVIE", "SERIES"}

ASSUME MetadataAssumption ==
    /\ Types \subseteq ContentType
    /\ Titles \subseteq Nat /\ Durations \subseteq Nat
    /\ MaxVersion \in Nat /\ MaxFailures \in Nat /\ MaxCopies \in Nat
    /\ None \notin Nat

VARIABLES
    rows,      \* table metadata: id -> row or None
    versions,  \* table metadata_versions: entry -> how many rows hold it
    used,      \* ids handed out
    req,       \* requests under way
    failures,
    overlap,   \* history: rows that two updates under way at once were of
    halted     \* history: id -> updates that stored the state the row is in
               \* as a version and ended without writing the row

tables == <<rows, versions, used>>
history == <<overlap, halted>>
vars == <<tables, req, failures, history>>

-----------------------------------------------------------------------------
Data == [title : Titles, duration : Durations \cup {None}]
Body == [title : Titles \cup {None}, duration : Durations \cup {None}]

Row == [content : Contents, type : ContentType, data : Data,
        version : 1..(MaxVersion + 1)]
Version == [of : Ids, data : Data, version : 1..MaxVersion]

Request == [pc : {"insert", "reread", "history", "write"}, id : Ids \cup {None},
            row : Row \cup {None}, body : Body]

ASSUME NoneIsNoRecord == None \notin Row /\ None \notin Request

Init ==
    /\ rows = [i \in Ids |-> None]
    /\ versions = [v \in Version |-> 0] /\ used = {}
    /\ req = [r \in Requests |-> None]
    /\ failures = 0
    /\ overlap = {} /\ halted = [i \in Ids |-> 0]

\* METADATA_SCHEMAS: the longest duration in seconds, of 24, 2 and 4 days.
MaxDuration(type) == 86400 * CASE type \in {"PROGRAM", "SERIES"} -> 24
                               [] type = "EPISODE" -> 2
                               [] type = "MOVIE" -> 4

\* validate()
Valid(body, type) ==
    /\ body.title # None => body.title \in 1..200
    /\ body.duration # None => body.duration <= MaxDuration(type)

\* Mutant of Merge: fields that were not sent are cleared.
MergeAll(body, data) == body

\* The fields the update sends replace those of the row.
Merge(body, data) ==
    [title |-> IF body.title = None THEN data.title ELSE body.title,
     duration |-> IF body.duration = None THEN data.duration ELSE body.duration]

\* fromPrisma: 0 is read as no duration.
Read(data) == IF data.duration = 0 THEN [data EXCEPT !.duration = None] ELSE data

\* hasChanges: a field was sent and differs from the one read.
HasChanges(body, data) ==
    \/ body.title # None /\ body.title # data.title
    \/ body.duration # None /\ body.duration # data.duration

Idle(r) == req[r] = None
End(r) == req' = [req EXCEPT ![r] = None]
Go(r, call) == Idle(r) /\ req' = [req EXCEPT ![r] = call]

\* Is r an update of row i?
Updates(r, i) == ~Idle(r) /\ req[r].pc # "insert" /\ req[r].id = i

-----------------------------------------------------------------------------
(* POST /metadata                                                          *)

\* create() up to its insert: no row of this content was found.
CreateMetadata(r, c) ==
    /\ ~\E i \in Ids : rows[i] # None /\ rows[i].content = c
    /\ \E title \in Titles, duration \in Durations \cup {None}, type \in Types :
          LET data == [title |-> title, duration |-> duration] IN
          /\ Valid(data, type)
          /\ Go(r, [pc |-> "insert", id |-> None, body |-> data,
                    row |-> [content |-> c, type |-> type, data |-> data, version |-> 1]])
    /\ UNCHANGED <<tables, failures, history>>

\* @@unique([contentId, version]), for a write to the row of id i.
Unique(i, content, version) ==
    ~\E j \in Ids \ {i} : rows[j] # None /\ rows[j].content = content
                                        /\ rows[j].version = version

\* The insert, or the error of the unique constraint.
InsertMetadata(r) ==
    /\ req[r] # None /\ req[r].pc = "insert"
    /\ \/ \E i \in Ids \ used :
             /\ Unique(i, req[r].row.content, 1)
             /\ rows' = [rows EXCEPT ![i] = req[r].row]
             /\ used' = used \cup {i}
       \/ /\ ~Unique(None, req[r].row.content, 1)
          /\ UNCHANGED <<rows, used>>
    /\ End(r)
    /\ UNCHANGED <<versions, failures, history>>

-----------------------------------------------------------------------------
(* PUT /metadata/:id                                                       *)

\* update() up to the repository's: the body is valid and changes something.
UpdateMetadata(r, i) ==
    /\ rows[i] # None
    /\ \E body \in Body :
          /\ Valid(body, rows[i].type)
          /\ HasChanges(body, Read(rows[i].data))
          /\ Go(r, [pc |-> "reread", id |-> i, row |-> None, body |-> body])
    /\ overlap' = overlap \cup {j \in {i} : \E other \in Requests \ {r} : Updates(other, j)}
    /\ UNCHANGED <<tables, failures, halted>>

\* The repository reads the row once more.
RereadMetadata(r) ==
    /\ req[r] # None /\ req[r].pc = "reread"
    /\ LET row == rows[req[r].id] IN
       /\ row.version <= MaxVersion
       /\ req' = [req EXCEPT ![r].pc = "history",
                             ![r].row = [row EXCEPT !.data = Read(row.data)]]
    /\ UNCHANGED <<tables, failures, history>>

\* Mutant of VersionOf: the entry is made of the row to be written.
VersionOfNew(i, row, body) ==
    [of |-> i, data |-> Merge(body, row.data), version |-> row.version]

\* The entry of the history: the row as it was read.
VersionOf(i, row, body) == [of |-> i, data |-> row.data, version |-> row.version]

\* Each call stores a row of its own: nothing makes (metadataId, version) unique.
StoreVersion(r) ==
    /\ req[r] # None /\ req[r].pc = "history"
    /\ LET entry == VersionOf(req[r].id, req[r].row, req[r].body) IN
       /\ versions[entry] < MaxCopies
       /\ versions' = [versions EXCEPT ![entry] = @ + 1]
    /\ req' = [req EXCEPT ![r].pc = "write"]
    /\ UNCHANGED <<rows, used, failures, history>>

\* Mutant of NextVersion: two ahead.
NextVersionSkip(version) == version + 2

NextVersion(version) == version + 1

Halts(i) == halted' = [halted EXCEPT ![i] = @ + 1]

\* The row gets the fields that were sent and the version after the one read,
\* or the unique constraint refuses it.
WriteMetadata(r) ==
    /\ req[r] # None /\ req[r].pc = "write"
    /\ LET i == req[r].id
           version == NextVersion(req[r].row.version)
       IN \/ /\ Unique(i, rows[i].content, version)
             /\ rows' = [rows EXCEPT ![i].data = Merge(req[r].body, @),
                                     ![i].version = version]
             /\ halted' = [halted EXCEPT ![i] = 0]
          \/ /\ ~Unique(i, rows[i].content, version)
             /\ Halts(i)
             /\ UNCHANGED rows
    /\ End(r)
    /\ UNCHANGED <<versions, used, failures, overlap>>

\* A database error, or a restart of the process, between two awaits.
CutShort(r) ==
    /\ ~Idle(r)
    /\ failures < MaxFailures /\ failures' = failures + 1
    /\ IF req[r].pc = "write" THEN Halts(req[r].id) ELSE UNCHANGED halted
    /\ End(r)
    /\ UNCHANGED <<tables, overlap>>

-----------------------------------------------------------------------------
Next == \E r \in Requests :
    \/ \E c \in Contents : CreateMetadata(r, c)
    \/ \E i \in Ids : UpdateMetadata(r, i)
    \/ InsertMetadata(r) \/ RereadMetadata(r) \/ StoreVersion(r) \/ WriteMetadata(r)
    \/ CutShort(r)

Spec == Init /\ [][Next]_vars

-----------------------------------------------------------------------------
(* Reads                                                                   *)

\* GET /metadata/content/:contentId: the row with the highest version.
FindByContentId(c) ==
    {rows[i] : i \in {x \in Ids : rows[x] # None /\ rows[x].content = c
        /\ \A y \in Ids : rows[y] # None /\ rows[y].content = c
                          => rows[y].version <= rows[x].version}}

\* getVersionHistory and getVersion: the entries of row i with this number; each
\* is returned as often as it is stored, and findFirst returns one of them.
Stored == {v \in Version : versions[v] > 0}
VersionsOf(i, version) == {v \in Stored : v.of = i /\ v.version = version}

-----------------------------------------------------------------------------
\* The variables keep their types.
TypeOK ==
    /\ rows \in [Ids -> Row \cup {None}]
    /\ versions \in [Version -> Nat]
    /\ used = {i \in Ids : rows[i] # None}
    /\ req \in [Requests -> Request \cup {None}]
    /\ failures \in 0..MaxFailures
    /\ overlap \subseteq Ids /\ halted \in [Ids -> Nat]

\* Whatever handlers overlap or are cut short: each version before the one a
\* row is at can be looked up.
HistoryReachesBack ==
    \A i \in used : \A v \in 1..(rows[i].version - 1) : VersionsOf(i, v) # {}

\* The entry the history should get of the state row i is in.
EntryOf(i) == [of |-> i, data |-> Read(rows[i].data), version |-> rows[i].version]

\* A row whose updates have come one at a time goes to the next version when it
\* changes, and every entry of the version it leaves is its state before, as it
\* is read: one entry for the update that changes it and one for each update
\* that stopped between the two writes and was repeated, whatever happens to
\* other rows, its content's included.
ChangesAreVersioned ==
    [][\A i \in used \ overlap' : rows'[i] # rows[i] =>
          /\ rows'[i].version = rows[i].version + 1
          /\ \A v \in Stored' : v.of = i /\ v.version = rows[i].version => v = EntryOf(i)
          /\ versions'[EntryOf(i)] = halted[i] + 1]_vars

-----------------------------------------------------------------------------
(* Statements of the repository that do not hold (README.md, section 7)    *)

\* metadata.service.ts "Update metadata (creates new version)": the version of
\* a row never falls.
VersionNeverFalls ==
    [][\A i \in used : rows'[i].version >= rows[i].version]_vars

\* metadata.service.ts "Check if metadata already exists for this content".
OneRowPerContent ==
    \A i, j \in used : i # j => rows[i].content # rows[j].content

\* metadata.service.ts:48 "2 hours max", for the duration of an episode.
EpisodeWithinHours ==
    \A i \in used : rows[i].type = "EPISODE" /\ rows[i].data.duration # None
                    => rows[i].data.duration <= 2 * 3600

\* "Check if there are any changes": an update that changes nothing makes no
\* new version.
NoChangeNoVersion ==
    [][\A i \in used \ overlap' :
          rows'[i].version # rows[i].version => rows'[i].data # rows[i].data]_vars
=============================================================================
