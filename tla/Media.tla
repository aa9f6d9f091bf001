-------------------------------- MODULE Media --------------------------------
(***************************************************************************)
(* Media service: files in object storage, and a row per file.             *)
(*                                                                         *)
(* There is no transaction over bucket and table: an upload puts the file  *)
(* and then inserts the row, a deletion removes file and thumbnail and     *)
(* then the row, a thumbnail is put and then noted in the row.  Each of    *)
(* these is an await of its own, at which other handlers run, the storage  *)
(* may fail, or the process may stop.                                      *)
(***************************************************************************)
EXTENDS Naturals, Sequences, FiniteSets

CONSTANTS
    Ids,          \* uuids the database may give rows
    Contents,     \* content ids
    Names,        \* names of the files sent
    Requests,     \* bound: requests under way at once
    MaxNow,       \* bound: milliseconds of Date.now()
    MaxFailures,  \* bound: failed calls and stops of the process
    None          \* the row of an id that is not stored

ASSUME MediaAssumption == MaxNow \in Nat /\ MaxFailures \in Nat

VARIABLES
    rows,      \* table media: id -> row or None
    objects,   \* keys of the objects in the bucket
    used,      \* ids handed out
    req,       \* requests under way
    now,       \* Date.now()
    failures,
    seen, clash,  \* history: what was uploaded when, and what twice at the same time
    halted,       \* history: rows of which a deletion was cut short
    lost          \* history: keys that a failed request held, and the thumbnails' of
                  \* files that were being deleted while the thumbnail was made

history == <<seen, clash, halted, lost>>
vars == <<rows, objects, used, req, now, failures, history>>

-----------------------------------------------------------------------------
Times == 0..MaxNow
Upload == [content : Contents, name : Names, time : Times]

\* Mutant of StorageKey: without the time.
StorageKeyNoTime(u) == [content |-> u.content, name |-> u.name, time |-> 0,
                        thumb |-> FALSE]

\* generateStorageKey
StorageKey(u) == [content |-> u.content, name |-> u.name, time |-> u.time,
                  thumb |-> FALSE]

\* generateThumbnailKey: the suffix -thumb before the extension.
ThumbnailKey(key) == [key EXCEPT !.thumb = TRUE]

Key == [content : Contents, name : Names, time : Times, thumb : BOOLEAN]
\* Only an image or a video ever has a thumbnail.
Row == {row \in [key : Key, image : BOOLEAN, thumb : BOOLEAN] : row.thumb => row.image}

\* keys: to be put or deleted, the first one next.
Request == [pc : {"put", "insert", "delete", "deleteRow", "putThumb", "updateRow"},
            id : Ids \cup {None}, image : BOOLEAN, keys : Seq(Key)]

\* None is no value of the code.
ASSUME NoneIsNothing == None \notin Row \cup Request

Init ==
    /\ rows = [i \in Ids |-> None]
    /\ objects = {} /\ used = {}
    /\ req = [r \in Requests |-> None]
    /\ now = 0 /\ failures = 0
    /\ seen = {} /\ clash = {} /\ halted = {} /\ lost = {}

At(r, pc) == req[r] # None /\ req[r].pc = pc
Begin(r, call) == req[r] = None /\ req' = [req EXCEPT ![r] = call]
GoTo(r, pc) == req' = [req EXCEPT ![r].pc = pc]
End(r) == req' = [req EXCEPT ![r] = None]

\* The keys of the objects that a request under way will still tell a row of or delete.
Held(r) == IF req[r] = None THEN {} ELSE {req[r].keys[j] : j \in DOMAIN req[r].keys}

\* The thumbnail of row i, if another request of one of the kinds pcs is about it.
Raced(r, i, pcs) ==
    {ThumbnailKey(rows[i].key) : other \in
        {q \in Requests \ {r} : req[q] # None /\ req[q].id = i /\ req[q].pc \in pcs}}

\* Is r a deletion of row i?
DeletedBy(r, i) == req[r] # None /\ req[r].id = i /\ req[r].pc \in {"delete", "deleteRow"}

\* A call of request r fails.
Failure(r) ==
    /\ failures < MaxFailures /\ failures' = failures + 1
    /\ lost' = lost \cup Held(r)

-----------------------------------------------------------------------------
(* POST /media/upload                                                      *)

UploadMedia(r, content, name) ==
    LET u == [content |-> content, name |-> name, time |-> now] IN
    /\ \E image \in BOOLEAN :
          Begin(r, [pc |-> "put", id |-> None, image |-> image, keys |-> <<StorageKey(u)>>])
    /\ seen' = seen \cup {u}
    /\ clash' = clash \cup ({u} \cap seen)
    /\ UNCHANGED <<rows, objects, used, now, failures, halted, lost>>

\* uploadFile
PutFile(r) ==
    /\ At(r, "put")
    /\ objects' = objects \cup {Head(req[r].keys)}
    /\ GoTo(r, "insert")
    /\ UNCHANGED <<rows, used, now, failures, history>>

InsertRow(r) ==
    /\ At(r, "insert")
    /\ \E i \in Ids \ used :
          /\ rows' = [rows EXCEPT ![i] = [key |-> Head(req[r].keys),
                                          image |-> req[r].image, thumb |-> FALSE]]
          /\ used' = used \cup {i}
    /\ End(r)
    /\ UNCHANGED <<objects, now, failures, history>>

-----------------------------------------------------------------------------
(* DELETE /media/:id                                                       *)

\* Mutant of KeysOf: the thumbnail is forgotten.
KeysOfFile(row) == <<row.key>>

\* What delete() removes from the bucket: the thumbnail if the row it read has one.
KeysOf(row) == IF row.thumb THEN <<row.key, ThumbnailKey(row.key)>> ELSE <<row.key>>

DeleteMedia(r, i) ==
    /\ rows[i] # None
    /\ Begin(r, [pc |-> "delete", id |-> i, image |-> FALSE, keys |-> KeysOf(rows[i])])
    /\ lost' = lost \cup Raced(r, i, {"putThumb", "updateRow"})
    /\ UNCHANGED <<rows, objects, used, now, failures, seen, clash, halted>>

\* deleteFile; an object that is not there is no error.
DeleteObject(r) ==
    /\ At(r, "delete")
    /\ objects' = objects \ {Head(req[r].keys)}
    /\ req' = [req EXCEPT ![r].keys = Tail(@),
                          ![r].pc = IF Len(req[r].keys) = 1 THEN "deleteRow" ELSE "delete"]
    /\ UNCHANGED <<rows, used, now, failures, history>>

\* An error is logged, and the row deleted all the same.
DeleteObjectFails(r) ==
    /\ At(r, "delete")
    /\ Failure(r)
    /\ GoTo(r, "deleteRow")
    /\ UNCHANGED <<rows, objects, used, now, seen, clash, halted>>

\* A row that is gone already is an error of the request, and changes nothing.
DeleteRow(r) ==
    /\ At(r, "deleteRow")
    /\ rows' = [rows EXCEPT ![req[r].id] = None]
    /\ End(r)
    /\ UNCHANGED <<objects, used, now, failures, history>>

-----------------------------------------------------------------------------
(* POST /media/:id/thumbnail                                               *)

\* Mutant of Thumbable: any file.
ThumbableAny(row) == TRUE

\* The check of the mime type.
Thumbable(row) == row.image

GenerateThumbnail(r, i) ==
    /\ rows[i] # None /\ Thumbable(rows[i])
    /\ Begin(r, [pc |-> "putThumb", id |-> i, image |-> FALSE,
                 keys |-> <<ThumbnailKey(rows[i].key)>>])
    /\ lost' = lost \cup Raced(r, i, {"delete", "deleteRow"})
    /\ UNCHANGED <<rows, objects, used, now, failures, seen, clash, halted>>

PutThumbnail(r) ==
    /\ At(r, "putThumb")
    /\ objects' = objects \cup {Head(req[r].keys)}
    /\ GoTo(r, "updateRow")
    /\ UNCHANGED <<rows, used, now, failures, history>>

\* Mutant of WithThumbnail: the row does not learn of it.
WithThumbnailKept(row) == row

WithThumbnail(row) == [row EXCEPT !.thumb = TRUE]

\* The update fails when the row was deleted meanwhile.
UpdateRow(r) ==
    /\ At(r, "updateRow")
    /\ rows' = [rows EXCEPT ![req[r].id] = IF @ = None THEN None ELSE WithThumbnail(@)]
    /\ End(r)
    /\ UNCHANGED <<objects, used, now, failures, history>>

-----------------------------------------------------------------------------
\* A put fails, as far as the service can tell: its request ends with an error.
PutFails(r) ==
    /\ At(r, "put") \/ At(r, "putThumb")
    /\ Failure(r)
    /\ objects' \in {objects, objects \cup {Head(req[r].keys)}}
    /\ End(r)
    /\ UNCHANGED <<rows, used, now, seen, clash, halted>>

\* A database error, or the process stops.
CutShort(r) ==
    /\ req[r] # None
    /\ Failure(r)
    /\ halted' = halted \cup {i \in Ids : DeletedBy(r, i)}
    /\ End(r)
    /\ UNCHANGED <<rows, objects, used, now, seen, clash>>

Tick ==
    /\ now < MaxNow /\ now' = now + 1
    /\ UNCHANGED <<rows, objects, used, req, failures, history>>

Next ==
    \/ \E r \in Requests :
          \/ \E content \in Contents, name \in Names : UploadMedia(r, content, name)
          \/ PutFile(r) \/ InsertRow(r)
          \/ \E i \in Ids : DeleteMedia(r, i) \/ GenerateThumbnail(r, i)
          \/ DeleteObject(r) \/ DeleteObjectFails(r) \/ DeleteRow(r)
          \/ PutThumbnail(r) \/ UpdateRow(r)
          \/ PutFails(r) \/ CutShort(r)
    \/ Tick

Spec == Init /\ [][Next]_vars

-----------------------------------------------------------------------------
\* The variables keep their types.
TypeOK ==
    /\ rows \in [Ids -> Row \cup {None}]
    /\ objects \subseteq Key
    /\ {i \in Ids : rows[i] # None} \subseteq used /\ used \subseteq Ids
    /\ req \in [Requests -> Request \cup {None}]
    /\ now \in Times /\ failures \in 0..MaxFailures
    /\ seen \subseteq Upload /\ clash \subseteq seen /\ halted \subseteq used
    /\ lost \subseteq Key

\* The keys of the objects a row tells of.
Owned(row) == {row.key} \cup (IF row.thumb THEN {ThumbnailKey(row.key)} ELSE {})

\* All the bucket holds is a row's or known to a request, but for what a request
\* that failed knew of and thumbnails made while their file was being deleted: what
\* the order of the steps of upload and delete is for.
NoOrphanObjects ==
    objects \subseteq lost \cup UNION ({Owned(rows[i]) : i \in {x \in Ids : rows[x] # None}}
                                       \cup {Held(r) : r \in Requests})

BeingDeleted(i) == \E r \in Requests : DeletedBy(r, i)

\* Uploads of the same content and name within a millisecond share this key.
Clashed(key) == \E u \in clash : key = StorageKey(u)

\* A row leads to its file, and to its thumbnail if it has one, until its own
\* deletion begins, whatever fails, unless it shares its key.
RowsHaveObjects ==
    \A i \in Ids \ halted :
        rows[i] # None /\ ~BeingDeleted(i) /\ ~Clashed(rows[i].key)
            => Owned(rows[i]) \subseteq objects

-----------------------------------------------------------------------------
(* Statements that do not hold (README.md, section 7)                      *)

\* media.service.ts "Delete thumbnail if exists": without failures a deleted
\* file leaves nothing behind.
DeletedWithThumbnail ==
    failures = 0 => objects \subseteq
        UNION ({Owned(rows[i]) : i \in {x \in Ids : rows[x] # None}}
               \cup {Held(r) : r \in Requests})

\* storage.service.ts "Generate storage key from content ID and filename": two
\* files never have one key.
KeysUnique ==
    \A i, j \in Ids : i # j /\ rows[i] # None /\ rows[j] # None
                      => rows[i].key # rows[j].key
=============================================================================
