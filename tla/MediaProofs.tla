----------------------------- MODULE MediaProofs -----------------------------
(***************************************************************************)
(* Theorems about Media for every set of contents, names, ids and          *)
(* requests, and any number of failures.                                   *)
(***************************************************************************)
EXTENDS Media, SequenceTheorems, TLAPS

\* The key of the file a key belongs to, which a thumbnail's key tells too.
Plain(key) == [key EXCEPT !.thumb = FALSE]

\* The keys given out so far, and those given out twice.
SeenKeys == {StorageKey(u) : u \in seen}
ClashKeys == {StorageKey(u) : u \in clash}

Is(r, pcs) == req[r] # None /\ req[r].pc \in pcs
Uploading(r) == Is(r, {"put", "insert"})
Thumbing(r) == Is(r, {"putThumb", "updateRow"})
Deleting(r) == Is(r, {"delete", "deleteRow"})

-----------------------------------------------------------------------------
(* The inductive invariant.                                                *)

\* What a request knows of the row it read stays true of the row, if there
\* still is one: its key, and that it is an image.
Carries(r) ==
    /\ \A k \in Held(r) : Plain(k) \in SeenKeys
    /\ Uploading(r) \/ Thumbing(r) => Len(req[r].keys) = 1
    /\ Uploading(r) => ~Head(req[r].keys).thumb
    /\ Thumbing(r) => Head(req[r].keys).thumb
    /\ At(r, "delete") => req[r].keys # <<>>
    /\ Thumbing(r) \/ Deleting(r) =>
          /\ req[r].id \in used
          /\ rows[req[r].id] # None =>
                /\ Thumbing(r) => rows[req[r].id].image
                /\ \A k \in Held(r) : Plain(k) = rows[req[r].id].key

Sound ==
    /\ \A i \in Ids : rows[i] # None => rows[i].key \in SeenKeys
    /\ \A r \in Requests : Carries(r)

\* A key that was given out once belongs to one row or one upload, and what a
\* request is deleting is no other row's and no upload's.
Unique ==
    /\ \A i, j \in Ids :
          rows[i] # None /\ rows[j] # None /\ rows[i].key = rows[j].key
              => i = j \/ rows[i].key \in ClashKeys
    /\ \A r \in Requests : Uploading(r) /\ Head(req[r].keys) \notin ClashKeys =>
          /\ \A i \in Ids : rows[i] # None => rows[i].key # Head(req[r].keys)
          /\ \A q \in Requests :
                Uploading(q) /\ Head(req[q].keys) = Head(req[r].keys) => q = r
    /\ \A r \in Requests : Deleting(r) => \A k \in Held(r) : Plain(k) \notin ClashKeys =>
          /\ \A i \in Ids : rows[i] # None /\ rows[i].key = Plain(k) => i = req[r].id
          /\ \A q \in Requests : Uploading(q) => Head(req[q].keys) # Plain(k)

\* A row whose deletion has not begun, and whose key was given out once.
Standing(i) ==
    rows[i] # None /\ ~BeingDeleted(i) /\ i \notin halted /\ rows[i].key \notin ClashKeys

\* What is about to be told to a row is in the bucket.
Present ==
    /\ \A i \in Ids : Standing(i) => Owned(rows[i]) \subseteq objects
    /\ \A r \in Requests : At(r, "insert") /\ Head(req[r].keys) \notin ClashKeys
           => Head(req[r].keys) \in objects
    /\ \A r \in Requests, i \in Ids :
          At(r, "updateRow") /\ req[r].id = i /\ Standing(i)
              => Head(req[r].keys) \in objects

\* A row that is being deleted answers for no object any more: those left are
\* held by the request that deletes them, or lost.
Accounted ==
    \A o \in objects :
        \/ \E i \in Ids : rows[i] # None /\ ~BeingDeleted(i) /\ o \in Owned(rows[i])
        \/ \E r \in Requests : o \in Held(r)
        \/ o \in lost

\* What a deletion that is about to delete the row has not removed is lost.
Spent == \A r \in Requests : At(r, "deleteRow") => Held(r) \subseteq lost

\* So is a thumbnail whose row is being deleted, or gone.
Unraced == \A r \in Requests, i \in Ids :
              Thumbing(r) /\ req[r].id = i =>
                  \/ rows[i] # None /\ ~BeingDeleted(i)
                  \/ Head(req[r].keys) \in lost

IInv == TypeOK /\ Sound /\ Unique /\ Present /\ Spent /\ Unraced /\ Accounted

-----------------------------------------------------------------------------
(* Keys.                                                                   *)

LEMMA KeyFacts ==
    ASSUME NEW k \in Key
    PROVE  /\ Plain(k) \in Key /\ ~Plain(k).thumb
           /\ ThumbnailKey(k) \in Key /\ ThumbnailKey(k).thumb
           /\ Plain(ThumbnailKey(k)) = Plain(k)
           /\ ~k.thumb => Plain(k) = k
           /\ k.thumb => ThumbnailKey(Plain(k)) = k
BY DEF Key, Plain, ThumbnailKey

\* A storage key tells its upload.
LEMMA StorageKeys ==
    ASSUME NEW u \in Upload, NEW v \in Upload
    PROVE  /\ StorageKey(u) \in Key /\ ~StorageKey(u).thumb
           /\ StorageKey(u) = StorageKey(v) => u = v
BY DEF Upload, Key, StorageKey

LEMMA SeenKeysPlain ==
    ASSUME TypeOK
    PROVE  \A k \in SeenKeys : k \in Key /\ ~k.thumb
BY StorageKeys DEF TypeOK, SeenKeys

LEMMA RowTypes ==
    ASSUME TypeOK, NEW i \in Ids, rows[i] # None
    PROVE  /\ rows[i] \in Row /\ rows[i].key \in Key
           /\ rows[i].image \in BOOLEAN /\ rows[i].thumb \in BOOLEAN
           /\ i \in used
BY DEF TypeOK, Row

LEMMA RequestTypes ==
    ASSUME TypeOK, NEW r \in Requests, req[r] # None
    PROVE  /\ req[r] \in Request
           /\ req[r].id \in Ids \cup {None} /\ req[r].keys \in Seq(Key)
           /\ Held(r) = {req[r].keys[j] : j \in 1..Len(req[r].keys)}
           /\ Held(r) \subseteq Key
<1>1. req[r] \in Request
  BY DEF TypeOK
<1>2. req[r].keys \in Seq(Key) /\ req[r].id \in Ids \cup {None}
  BY <1>1 DEF Request
<1> QED BY <1>1, <1>2 DEF Held

\* What a row owns are its own keys.
LEMMA OwnedKeys ==
    ASSUME TypeOK, Sound, NEW i \in Ids, rows[i] # None
    PROVE  /\ ~rows[i].key.thumb
           /\ \A k \in Owned(rows[i]) : k \in Key /\ Plain(k) = rows[i].key
           /\ \A k \in Key : Plain(k) = rows[i].key /\ ~k.thumb => k \in Owned(rows[i])
<1>1. rows[i].key \in Key /\ ~rows[i].key.thumb
  BY SeenKeysPlain DEF Sound
<1>2. /\ Plain(rows[i].key) = rows[i].key
      /\ ThumbnailKey(rows[i].key) \in Key
      /\ Plain(ThumbnailKey(rows[i].key)) = rows[i].key
  BY <1>1, KeyFacts
<1>3. \A k \in Owned(rows[i]) : k \in Key /\ Plain(k) = rows[i].key
  BY <1>1, <1>2 DEF Owned
<1>4. \A k \in Key : Plain(k) = rows[i].key /\ ~k.thumb => k = rows[i].key
  BY KeyFacts
<1> QED BY <1>1, <1>3, <1>4 DEF Owned

-----------------------------------------------------------------------------
(* What a step does to requests.                                           *)

\* Head and Tail of the keys a request still has.
LEMMA KeysLeft ==
    ASSUME TypeOK, NEW r \in Requests, req[r] # None, req[r].keys # <<>>
    PROVE  /\ Head(req[r].keys) \in Held(r) /\ Head(req[r].keys) \in Key
           /\ Tail(req[r].keys) \in Seq(Key)
           /\ \A j \in 1..Len(Tail(req[r].keys)) : Tail(req[r].keys)[j] \in Held(r)
           /\ Held(r) = {Head(req[r].keys)}
                        \cup {Tail(req[r].keys)[j] : j \in 1..Len(Tail(req[r].keys))}
           /\ Len(req[r].keys) = 1 => /\ Held(r) = {Head(req[r].keys)}
                                      /\ Tail(req[r].keys) = <<>>
<1> DEFINE s == req[r].keys
<1>1. s \in Seq(Key) /\ Held(r) = {s[j] : j \in 1..Len(s)} /\ s # <<>>
  BY RequestTypes
<1> HIDE DEF s
<1>2. /\ Head(s) = s[1] /\ 1 \in 1..Len(s) /\ Len(s) \in Nat
      /\ Tail(s) \in Seq(Key) /\ Len(Tail(s)) = Len(s) - 1
      /\ \A j \in 1..(Len(s) - 1) : Tail(s)[j] = s[j + 1]
  BY <1>1
<1>3. \A j \in 1..Len(Tail(s)) : Tail(s)[j] = s[j + 1] /\ j + 1 \in 1..Len(s)
  BY <1>2
<1>4. {s[j] : j \in 1..Len(s)} \subseteq {Head(s)} \cup {Tail(s)[j] : j \in 1..Len(Tail(s))}
  <2> SUFFICES ASSUME NEW j \in 1..Len(s), s[j] # Head(s)
               PROVE  \E l \in 1..Len(Tail(s)) : Tail(s)[l] = s[j]
    OBVIOUS
  <2>1. j # 1 /\ j - 1 \in 1..Len(Tail(s)) /\ (j - 1) + 1 = j
    BY <1>2
  <2> QED BY <1>3, <2>1
<1>5. Len(s) = 1 => /\ {s[j] : j \in 1..Len(s)} = {Head(s)}
                    /\ Tail(s) = <<>>
  <2> SUFFICES ASSUME Len(s) = 1
               PROVE  {s[j] : j \in 1..Len(s)} = {Head(s)} /\ Tail(s) = <<>>
    OBVIOUS
  <2>1. Len(Tail(s)) = 0 /\ \A j \in 1..Len(s) : j = 1
    BY <1>2
  <2>2. Tail(s) = <<>>
    BY <1>2, <2>1, EmptySeq
  <2>3. {s[j] : j \in 1..Len(s)} = {s[1]}
    BY <1>2, <2>1
  <2> QED BY <1>2, <2>2, <2>3
<1> QED BY <1>1, <1>2, <1>3, <1>4, <1>5 DEF s

LEMMA Moved ==
    ASSUME TypeOK, NEW r \in Requests, NEW c, req' = [req EXCEPT ![r] = c]
    PROVE  req'[r] = c /\ \A q \in Requests : q # r => req'[q] = req[q]
BY DEF TypeOK

\* A request that goes on keeps its fields.
LEMMA WentTo ==
    ASSUME TypeOK, NEW r \in Requests, req[r] # None,
           NEW pc \in {"put", "insert", "delete", "deleteRow", "putThumb", "updateRow"},
           GoTo(r, pc)
    PROVE  /\ req' \in [Requests -> Request \cup {None}]
           /\ req'[r] # None
           /\ req'[r].pc = pc /\ req'[r].id = req[r].id /\ req'[r].keys = req[r].keys
           /\ Held(r)' = Held(r)
           /\ \A q \in Requests : q # r => req'[q] = req[q]
<1>1. req[r] \in Request
  BY RequestTypes
<1>2. [req[r] EXCEPT !.pc = pc] \in Request
  BY <1>1 DEF Request
<1>3. /\ req' = [req EXCEPT ![r] = [req[r] EXCEPT !.pc = pc]]
      /\ req'[r] = [req[r] EXCEPT !.pc = pc]
  BY DEF GoTo, TypeOK
<1>4. req'[r].pc = pc /\ req'[r].id = req[r].id /\ req'[r].keys = req[r].keys
  BY <1>1, <1>3 DEF Request
<1>5. req'[r] # None
  BY <1>2, <1>3, NoneIsNothing
<1>6. Held(r)' = Held(r)
  BY <1>4, <1>5 DEF Held
<1> QED BY <1>2, <1>3, <1>4, <1>5, <1>6 DEF TypeOK

LEMMA Ended ==
    ASSUME TypeOK, NEW r \in Requests, End(r)
    PROVE  /\ req' \in [Requests -> Request \cup {None}]
           /\ req'[r] = None /\ Held(r)' = {}
           /\ \A q \in Requests : q # r => req'[q] = req[q]
BY DEF TypeOK, End, Held

\* A request that begins with keys.
LEMMA Began ==
    ASSUME TypeOK, NEW r \in Requests, NEW c \in Request, Begin(r, c)
    PROVE  /\ req' \in [Requests -> Request \cup {None}]
           /\ req[r] = None /\ req'[r] = c /\ req'[r] # None
           /\ \A q \in Requests : q # r => req'[q] = req[q]
BY NoneIsNothing DEF TypeOK, Begin

\* A deletion that has removed an object.
LEMMA Removed ==
    ASSUME TypeOK, Sound, NEW r \in Requests, DeleteObject(r)
    PROVE  /\ req' \in [Requests -> Request \cup {None}]
           /\ req[r] # None /\ req'[r] # None
           /\ req'[r].id = req[r].id /\ req'[r].keys = Tail(req[r].keys)
           /\ req'[r].pc \in {"delete", "deleteRow"}
           /\ req'[r].pc = "delete" => Tail(req[r].keys) # <<>>
           /\ req'[r].pc = "deleteRow" => Tail(req[r].keys) = <<>>
           /\ Held(r) = {Head(req[r].keys)} \cup Held(r)'
           /\ \A q \in Requests : q # r => req'[q] = req[q]
<1> DEFINE pc == IF Len(req[r].keys) = 1 THEN "deleteRow" ELSE "delete"
           c == [[req[r] EXCEPT !.keys = Tail(req[r].keys)] EXCEPT !.pc = pc]
<1>1. req[r] # None /\ req[r].keys # <<>> /\ req[r] \in Request /\ req[r].keys \in Seq(Key)
  BY RequestTypes DEF DeleteObject, At, Sound, Carries
<1>2. Tail(req[r].keys) \in Seq(Key)
  BY <1>1, KeysLeft
<1>3. c \in Request /\ c.id = req[r].id /\ c.keys = Tail(req[r].keys) /\ c.pc = pc
  BY <1>1, <1>2 DEF Request
<1>4. req' = [req EXCEPT ![r] = c]
  BY <1>1 DEF DeleteObject, TypeOK, Request
<1>5. c # None
  BY <1>3, NoneIsNothing
<1> HIDE DEF c
<1>6. req'[r] = c /\ \A q \in Requests : q # r => req'[q] = req[q]
  BY <1>4, Moved
<1>7. Len(req[r].keys) # 1 => Tail(req[r].keys) # <<>>
  <2> DEFINE s == req[r].keys
  <2>1. s \in Seq(Key) /\ s # <<>>
    BY <1>1
  <2> HIDE DEF s
  <2>2. Len(Tail(s)) = Len(s) - 1 /\ Len(s) \in Nat
    BY <2>1
  <2>3. Len(<<>>) = 0
    BY EmptySeq
  <2>4. Len(s) # 1 => Len(Tail(s)) # 0
    BY <2>2
  <2>5. Len(s) # 1 => Tail(s) # <<>>
    BY <2>3, <2>4
  <2> QED BY <2>5 DEF s
<1>8. Len(req[r].keys) = 1 => Tail(req[r].keys) = <<>>
  BY <1>1, KeysLeft
<1>9. Held(r)' = {Tail(req[r].keys)[j] : j \in 1..Len(Tail(req[r].keys))}
  <2>1. req'[r] # None /\ req'[r].keys = Tail(req[r].keys)
    BY <1>3, <1>5, <1>6
  <2>2. DOMAIN Tail(req[r].keys) = 1..Len(Tail(req[r].keys))
    BY <1>2
  <2> QED BY <2>1, <2>2 DEF Held
<1>10. Held(r) = {Head(req[r].keys)} \cup Held(r)'
  BY <1>1, <1>9, KeysLeft
<1>11. req' \in [Requests -> Request \cup {None}]
  BY <1>3, <1>4 DEF TypeOK
<1> QED BY <1>1, <1>3, <1>5, <1>6, <1>7, <1>8, <1>10, <1>11

-----------------------------------------------------------------------------
(* Types, and what no step does to a row: give it another key, or bring it *)
(* back.                                                                   *)

RowsKept ==
    /\ \A i \in Ids : rows'[i] # None /\ i \in used =>
          rows[i] # None /\ rows'[i].key = rows[i].key /\ rows'[i].image = rows[i].image
    /\ seen \subseteq seen' /\ used \subseteq used'
    /\ clash \subseteq clash' /\ halted \subseteq halted' /\ lost \subseteq lost'

LEMMA UploadTypes ==
    ASSUME TypeOK, NEW r \in Requests, NEW content \in Contents, NEW name \in Names,
           UploadMedia(r, content, name)
    PROVE  TypeOK' /\ RowsKept
<1> DEFINE u == [content |-> content, name |-> name, time |-> now]
<1>1. u \in Upload
  BY DEF Upload, TypeOK
<1>2. PICK image \in BOOLEAN :
         Begin(r, [pc |-> "put", id |-> None, image |-> image, keys |-> <<StorageKey(u)>>])
  BY DEF UploadMedia
<1>3. <<StorageKey(u)>> \in Seq(Key)
  BY <1>1, StorageKeys
<1>4. [pc |-> "put", id |-> None, image |-> image, keys |-> <<StorageKey(u)>>] \in Request
  BY <1>3 DEF Request
<1>5. req' \in [Requests -> Request \cup {None}]
  BY <1>2, <1>4, Began
<1> QED BY <1>1, <1>5 DEF UploadMedia, TypeOK, RowsKept

LEMMA InsertTypes ==
    ASSUME TypeOK, Sound, NEW r \in Requests, InsertRow(r)
    PROVE  TypeOK' /\ RowsKept
<1>1. req[r] # None /\ Len(req[r].keys) = 1
  BY DEF InsertRow, At, Sound, Carries, Uploading, Is
<1>2. req[r].keys # <<>> /\ req[r] \in Request
  <2>1. Len(<<>>) = 0
    BY EmptySeq
  <2> QED BY <1>1, <2>1, RequestTypes
<1> DEFINE row == [key |-> Head(req[r].keys), image |-> req[r].image, thumb |-> FALSE]
<1>3. row \in Row
  <2>1. Head(req[r].keys) \in Key
    BY <1>1, <1>2, KeysLeft
  <2>2. req[r].image \in BOOLEAN
    BY <1>2 DEF Request
  <2> QED BY <2>1, <2>2 DEF Row
<1>4. PICK i \in Ids \ used : rows' = [rows EXCEPT ![i] = row] /\ used' = used \cup {i}
  BY DEF InsertRow
<1> HIDE DEF row
<1>5. rows' \in [Ids -> Row \cup {None}]
  BY <1>3, <1>4 DEF TypeOK
<1>6. /\ \A l \in Ids : l # i => rows'[l] = rows[l]
      /\ used' \subseteq Ids
      /\ {l \in Ids : rows'[l] # None} \subseteq used'
  BY <1>4 DEF TypeOK
<1>7. req' \in [Requests -> Request \cup {None}]
  BY Ended DEF InsertRow
<1> QED BY <1>4, <1>5, <1>6, <1>7 DEF InsertRow, history, TypeOK, RowsKept

\* The steps that leave the rows alone.
LEMMA RequestStepTypes ==
    ASSUME TypeOK, Sound, NEW r \in Requests,
           \/ PutFile(r) \/ DeleteObject(r) \/ DeleteObjectFails(r)
           \/ PutThumbnail(r) \/ PutFails(r) \/ CutShort(r)
    PROVE  TypeOK' /\ RowsKept
<1>1. UNCHANGED <<rows, used, now, seen, clash>>
  BY DEF PutFile, DeleteObject, DeleteObjectFails, PutThumbnail, PutFails, CutShort, history
<1>2. req[r] # None
  BY DEF PutFile, DeleteObject, DeleteObjectFails, PutThumbnail, PutFails, CutShort, At
<1>3. req' \in [Requests -> Request \cup {None}]
  BY <1>2, WentTo, Ended, Removed
     DEF PutFile, DeleteObject, DeleteObjectFails, PutThumbnail, PutFails, CutShort
<1>4. /\ failures' \in 0..MaxFailures
      /\ lost \subseteq lost' /\ lost' \subseteq Key
      /\ halted \subseteq halted' /\ halted' \subseteq used
  <2>1. CASE PutFile(r) \/ DeleteObject(r) \/ PutThumbnail(r)
    BY <2>1 DEF PutFile, DeleteObject, PutThumbnail, TypeOK, history
  <2>2. CASE DeleteObjectFails(r) \/ PutFails(r) \/ CutShort(r)
    <3>1. failures' = failures + 1 /\ failures < MaxFailures /\ lost' = lost \cup Held(r)
      BY <2>2 DEF DeleteObjectFails, PutFails, CutShort, Failure
    <3>2. failures' \in 0..MaxFailures
      BY <3>1, MediaAssumption DEF TypeOK
    <3>3. Held(r) \subseteq Key
      BY <1>2, RequestTypes
    <3>4. \A i \in Ids : DeletedBy(r, i) => i \in used
      BY DEF DeletedBy, Sound, Carries, Deleting, Is
    <3>5. halted' = halted \/ halted' = halted \cup {i \in Ids : DeletedBy(r, i)}
      BY <2>2 DEF DeleteObjectFails, PutFails, CutShort
    <3> QED BY <3>1, <3>2, <3>3, <3>4, <3>5 DEF TypeOK
  <2> QED BY <2>1, <2>2
<1>5. objects' \subseteq Key
  <2>1. CASE PutFile(r) \/ PutThumbnail(r) \/ PutFails(r)
    <3>1. Len(req[r].keys) = 1
      BY <2>1 DEF PutFile, PutThumbnail, PutFails, At, Sound, Carries, Uploading, Thumbing, Is
    <3>2. Head(req[r].keys) \in Key
      BY <1>2, <3>1, KeysLeft, EmptySeq
    <3> QED BY <2>1, <3>2 DEF PutFile, PutThumbnail, PutFails, TypeOK
  <2>2. CASE DeleteObject(r)
    BY <2>2 DEF DeleteObject, TypeOK
  <2>3. CASE DeleteObjectFails(r) \/ CutShort(r)
    BY <2>3 DEF DeleteObjectFails, CutShort, TypeOK
  <2> QED BY <2>1, <2>2, <2>3
<1> QED BY <1>1, <1>3, <1>4, <1>5 DEF TypeOK, RowsKept

\* A request about a stored row begins with keys of that row.
LEMMA AboutRowTypes ==
    ASSUME TypeOK, NEW r \in Requests, NEW i \in Ids,
           DeleteMedia(r, i) \/ GenerateThumbnail(r, i)
    PROVE  /\ TypeOK' /\ RowsKept
           /\ req[r] = None /\ req'[r] # None /\ req'[r].id = i
           /\ \A q \in Requests : q # r => req'[q] = req[q]
           /\ DeleteMedia(r, i) =>
                 /\ req'[r].pc = "delete"
                 /\ req'[r].keys = KeysOf(rows[i])
           /\ GenerateThumbnail(r, i) =>
                 /\ req'[r].pc = "putThumb"
                 /\ req'[r].keys = <<ThumbnailKey(rows[i].key)>>
<1>1. rows[i] # None /\ rows[i].key \in Key
  BY RowTypes DEF DeleteMedia, GenerateThumbnail
<1>2. ThumbnailKey(rows[i].key) \in Key
  BY <1>1, KeyFacts
<1> DEFINE d == [pc |-> "delete", id |-> i, image |-> FALSE, keys |-> KeysOf(rows[i])]
           t == [pc |-> "putThumb", id |-> i, image |-> FALSE,
                 keys |-> <<ThumbnailKey(rows[i].key)>>]
<1>3. KeysOf(rows[i]) \in Seq(Key) /\ <<ThumbnailKey(rows[i].key)>> \in Seq(Key)
  BY <1>1, <1>2 DEF KeysOf
<1>4. d \in Request /\ t \in Request
  BY <1>3 DEF Request
<1>5. /\ UNCHANGED <<rows, objects, used, now, failures, seen, clash, halted>>
      /\ lost \subseteq lost' /\ lost' \subseteq Key
  <2>1. UNCHANGED <<rows, objects, used, now, failures, seen, clash, halted>>
    BY DEF DeleteMedia, GenerateThumbnail
  <2>2. \A pcs : Raced(r, i, pcs) \subseteq Key
    BY <1>2 DEF Raced
  <2>3. \E pcs : lost' = lost \cup Raced(r, i, pcs)
    BY DEF DeleteMedia, GenerateThumbnail
  <2> QED BY <2>1, <2>2, <2>3 DEF TypeOK
<1>6. CASE DeleteMedia(r, i) /\ ~GenerateThumbnail(r, i)
  <2>1. Begin(r, d)
    BY <1>6 DEF DeleteMedia
  <2> QED BY <1>4, <1>5, <1>6, <2>1, Began DEF TypeOK, RowsKept
<1>7. CASE GenerateThumbnail(r, i) /\ ~DeleteMedia(r, i)
  <2>1. Begin(r, t)
    BY <1>7 DEF GenerateThumbnail
  <2> QED BY <1>4, <1>5, <1>7, <2>1, Began DEF TypeOK, RowsKept
<1>8. ~(DeleteMedia(r, i) /\ GenerateThumbnail(r, i))
  <2> SUFFICES ASSUME Begin(r, d), Begin(r, t) PROVE FALSE
    BY DEF DeleteMedia, GenerateThumbnail
  <2>1. req'[r] = d /\ req'[r] = t
    BY <1>4, Began
  <2>2. d.pc # t.pc
    OBVIOUS
  <2> QED BY <2>1, <2>2
<1> QED BY <1>6, <1>7, <1>8

\* The steps that take a row away or change it.
LEMMA RowStepTypes ==
    ASSUME TypeOK, Sound, NEW r \in Requests, DeleteRow(r) \/ UpdateRow(r)
    PROVE  /\ TypeOK' /\ RowsKept
           /\ req[r].id \in Ids
           /\ \A i \in Ids : i # req[r].id => rows'[i] = rows[i]
           /\ DeleteRow(r) => rows'[req[r].id] = None
           /\ UpdateRow(r) => rows'[req[r].id] = IF rows[req[r].id] = None THEN None
                                                 ELSE WithThumbnail(rows[req[r].id])
<1> DEFINE i == req[r].id
<1>1. i \in used /\ i \in Ids
  BY DEF DeleteRow, UpdateRow, At, Sound, Carries, Deleting, Thumbing, Is, TypeOK
<1>2. req' \in [Requests -> Request \cup {None}]
  BY Ended DEF DeleteRow, UpdateRow
<1>3. CASE DeleteRow(r)
  <2>1. rows' = [rows EXCEPT ![i] = None]
    BY <1>3 DEF DeleteRow
  <2>2. ~UpdateRow(r)
    BY <1>3 DEF DeleteRow, UpdateRow, At
  <2> HIDE DEF i
  <2>3. /\ rows' \in [Ids -> Row \cup {None}]
        /\ {l \in Ids : rows'[l] # None} \subseteq used
        /\ rows'[i] = None /\ \A l \in Ids : l # i => rows'[l] = rows[l]
    BY <1>1, <2>1 DEF TypeOK
  <2> QED BY <1>1, <1>2, <1>3, <2>2, <2>3 DEF DeleteRow, history, TypeOK, RowsKept, i
<1>4. CASE UpdateRow(r)
  <2> DEFINE row == IF rows[i] = None THEN None ELSE WithThumbnail(rows[i])
  <2>1. rows' = [rows EXCEPT ![i] = row]
    BY <1>1, <1>4 DEF UpdateRow, TypeOK
  <2>2. rows[i] # None => rows[i] \in Row /\ rows[i].image
    BY <1>1, <1>4, RowTypes DEF UpdateRow, At, Sound, Carries, Thumbing, Is
  <2>3. rows[i] # None => /\ WithThumbnail(rows[i]) \in Row
                          /\ WithThumbnail(rows[i]).key = rows[i].key
                          /\ WithThumbnail(rows[i]).image = rows[i].image
    BY <2>2 DEF WithThumbnail, Row
  <2>4. ~DeleteRow(r)
    BY <1>4 DEF DeleteRow, UpdateRow, At
  <2>5. row \in Row \cup {None} /\ (rows[i] = None => row = None)
    BY <2>3
  <2> HIDE DEF i
  <2>6. /\ rows' \in [Ids -> Row \cup {None}]
        /\ {l \in Ids : rows'[l] # None} \subseteq used
        /\ rows'[i] = row /\ \A l \in Ids : l # i => rows'[l] = rows[l]
    BY <1>1, <2>1, <2>5 DEF TypeOK
  <2>7. RowsKept
    BY <1>4, <2>3, <2>6 DEF RowsKept, UpdateRow, history
  <2> QED BY <1>1, <1>2, <1>4, <2>4, <2>6, <2>7 DEF UpdateRow, history, TypeOK, i
<1> QED BY <1>3, <1>4

LEMMA TickTypes ==
    ASSUME TypeOK, Tick PROVE TypeOK' /\ RowsKept
<1>1. now' \in Times
  BY MediaAssumption DEF Tick, TypeOK, Times
<1> QED BY <1>1 DEF Tick, history, TypeOK, RowsKept

-----------------------------------------------------------------------------
(* What requests know of their rows.                                       *)

SoundRows == \A i \in Ids : rows[i] # None => rows[i].key \in SeenKeys

\* A request that a step of another one does not touch.
LEMMA CarriesOther ==
    ASSUME TypeOK, Sound, TypeOK', RowsKept, NEW q \in Requests, req'[q] = req[q]
    PROVE  Carries(q)'
<1>1. Carries(q)
  BY DEF Sound
<1>2. Held(q)' = Held(q)
  BY DEF Held
<1>3. SeenKeys \subseteq SeenKeys'
  BY DEF SeenKeys, RowsKept
<1>4. req[q].id \in used => /\ req[q].id \in Ids /\ req[q].id \in used'
                            /\ rows'[req[q].id] # None =>
                                  /\ rows[req[q].id] # None
                                  /\ rows'[req[q].id].key = rows[req[q].id].key
                                  /\ rows'[req[q].id].image = rows[req[q].id].image
  BY DEF RowsKept, TypeOK
<1>5. /\ Uploading(q)' <=> Uploading(q)
      /\ Thumbing(q)' <=> Thumbing(q)
      /\ Deleting(q)' <=> Deleting(q)
      /\ At(q, "delete")' <=> At(q, "delete")
  BY DEF Uploading, Thumbing, Deleting, Is, At
<1>6. \A k \in Held(q)' : Plain(k) \in SeenKeys'
  BY <1>1, <1>2, <1>3 DEF Carries
<1>7. ASSUME Thumbing(q) \/ Deleting(q)
      PROVE  /\ req[q].id \in used'
             /\ rows'[req[q].id] # None =>
                   /\ Thumbing(q) => rows'[req[q].id].image
                   /\ \A k \in Held(q)' : Plain(k) = rows'[req[q].id].key
  <2> DEFINE i == req[q].id
  <2>1. /\ i \in used
        /\ rows[i] # None => /\ Thumbing(q) => rows[i].image
                             /\ \A k \in Held(q) : Plain(k) = rows[i].key
    BY <1>1, <1>7 DEF Carries
  <2>2. /\ i \in used'
        /\ rows'[i] # None => /\ rows[i] # None
                              /\ rows'[i].key = rows[i].key
                              /\ rows'[i].image = rows[i].image
    BY <1>4, <2>1
  <2> HIDE DEF i
  <2>3. rows'[i] # None => /\ Thumbing(q) => rows'[i].image
                           /\ \A k \in Held(q)' : Plain(k) = rows'[i].key
    BY <1>2, <2>1, <2>2
  <2> QED BY <2>2, <2>3 DEF i
<1> QED BY <1>1, <1>5, <1>6, <1>7 DEF Carries

\* Rows keep their keys, but for a new one, whose key an upload had.
LEMMA SoundRowsKept ==
    ASSUME TypeOK, Sound, RowsKept,
           \A i \in Ids : rows'[i] # None /\ i \notin used => rows'[i].key \in SeenKeys'
    PROVE  SoundRows'
<1>1. SeenKeys \subseteq SeenKeys'
  BY DEF SeenKeys, RowsKept
<1>2. SoundRows
  BY DEF Sound, SoundRows
<1>3. SUFFICES ASSUME NEW i \in Ids, rows'[i] # None PROVE rows'[i].key \in SeenKeys'
  BY DEF SoundRows
<1>4. CASE i \in used
  BY <1>1, <1>2, <1>3, <1>4 DEF RowsKept, SoundRows
<1>5. CASE i \notin used
  BY <1>3, <1>5
<1> QED BY <1>4, <1>5

\* While nothing is inserted, no unused id gets a row.
LEMMA NoNewRow ==
    ASSUME TypeOK, TypeOK', UNCHANGED used
    PROVE  \A i \in Ids : rows'[i] # None => i \in used
BY DEF TypeOK

LEMMA UploadSound ==
    ASSUME TypeOK, Sound, NEW r \in Requests, NEW content \in Contents, NEW name \in Names,
           UploadMedia(r, content, name)
    PROVE  Sound'
<1> DEFINE u == [content |-> content, name |-> name, time |-> now]
<1>1. TypeOK' /\ RowsKept
  BY UploadTypes
<1>2. PICK image \in BOOLEAN :
         Begin(r, [pc |-> "put", id |-> None, image |-> image, keys |-> <<StorageKey(u)>>])
  BY DEF UploadMedia
<1> DEFINE c == [pc |-> "put", id |-> None, image |-> image, keys |-> <<StorageKey(u)>>]
<1>3. u \in Upload /\ StorageKey(u) \in Key /\ ~StorageKey(u).thumb
  BY StorageKeys DEF Upload, TypeOK
<1>4. c \in Request
  BY <1>3 DEF Request
<1>5. req'[r] = c /\ req'[r] # None /\ \A q \in Requests : q # r => req'[q] = req[q]
  BY <1>2, <1>4, Began
<1>6. StorageKey(u) \in SeenKeys'
  BY DEF UploadMedia, SeenKeys
<1>7. Carries(r)'
  <2>1. req'[r].pc = "put" /\ req'[r].keys = <<StorageKey(u)>>
    BY <1>5
  <2>2. Held(r)' = {StorageKey(u)}
    BY <1>5, <2>1 DEF Held
  <2>3. Plain(StorageKey(u)) = StorageKey(u)
    BY <1>3, KeyFacts
  <2> QED BY <1>3, <1>6, <2>1, <2>2, <2>3 DEF Carries, Uploading, Thumbing, Deleting, Is, At
<1>8. \A q \in Requests : q # r => Carries(q)'
  BY <1>1, <1>5, CarriesOther
<1>9. SoundRows'
  BY <1>1, NoNewRow, SoundRowsKept DEF UploadMedia
<1> QED BY <1>7, <1>8, <1>9 DEF Sound, SoundRows

LEMMA InsertSound ==
    ASSUME TypeOK, Sound, NEW r \in Requests, InsertRow(r)
    PROVE  Sound'
<1>1. TypeOK' /\ RowsKept
  BY InsertTypes
<1>2. req'[r] = None /\ Held(r)' = {} /\ \A q \in Requests : q # r => req'[q] = req[q]
  BY Ended DEF InsertRow
<1>3. \A q \in Requests : Carries(q)'
  <2>1. Carries(r)'
    BY <1>2 DEF Carries, Uploading, Thumbing, Deleting, Is, At
  <2> QED BY <1>1, <1>2, <2>1, CarriesOther
<1>4. Head(req[r].keys) \in SeenKeys
  <2>1. /\ req[r] # None /\ Len(req[r].keys) = 1 /\ ~Head(req[r].keys).thumb
        /\ \A k \in Held(r) : Plain(k) \in SeenKeys
    BY DEF InsertRow, At, Sound, Carries, Uploading, Is
  <2>2. req[r].keys # <<>>
    BY <2>1, EmptySeq
  <2>3. Head(req[r].keys) \in Held(r) /\ Head(req[r].keys) \in Key
    BY <2>1, <2>2, KeysLeft
  <2> QED BY <2>1, <2>3, KeyFacts
<1>5. \A i \in Ids : rows'[i] # None /\ i \notin used => rows'[i].key \in SeenKeys'
  <2>1. PICK n \in Ids \ used :
          rows' = [rows EXCEPT ![n] = [key |-> Head(req[r].keys),
                                       image |-> req[r].image, thumb |-> FALSE]]
    BY DEF InsertRow
  <2>2. \A i \in Ids : i # n => rows'[i] = rows[i]
    BY <2>1 DEF TypeOK
  <2>3. rows'[n].key = Head(req[r].keys)
    BY <2>1 DEF TypeOK
  <2>4. SeenKeys' = SeenKeys
    BY DEF InsertRow, history, SeenKeys
  <2> QED BY <1>4, <2>2, <2>3, <2>4, RowTypes
<1> QED BY <1>1, <1>3, <1>5, SoundRowsKept DEF Sound, SoundRows

LEMMA RequestStepSound ==
    ASSUME TypeOK, Sound, NEW r \in Requests,
           \/ PutFile(r) \/ DeleteObject(r) \/ DeleteObjectFails(r)
           \/ PutThumbnail(r) \/ PutFails(r) \/ CutShort(r)
    PROVE  Sound'
<1>1. TypeOK' /\ RowsKept
  BY RequestStepTypes
<1>2. UNCHANGED <<rows, used, seen>> /\ req[r] # None
  BY DEF PutFile, DeleteObject, DeleteObjectFails, PutThumbnail, PutFails, CutShort,
         history, At
<1>3. Carries(r)
  BY DEF Sound
<1>4. SeenKeys' = SeenKeys
  BY <1>2 DEF SeenKeys
<1>5. \A q \in Requests : q # r => req'[q] = req[q]
  BY <1>2, WentTo, Ended, Removed
     DEF PutFile, DeleteObject, DeleteObjectFails, PutThumbnail, PutFails, CutShort
<1>6. Carries(r)'
  <2>1. CASE PutFile(r)
    <3>1. /\ req[r].pc = "put" /\ req'[r].pc = "insert" /\ req'[r] # None
          /\ req'[r].keys = req[r].keys /\ Held(r)' = Held(r)
      BY <1>2, <2>1, WentTo DEF PutFile, At
    <3> QED BY <1>2, <1>3, <1>4, <3>1 DEF Carries, Uploading, Thumbing, Deleting, Is, At
  <2>2. CASE PutThumbnail(r)
    <3>1. /\ req[r].pc = "putThumb" /\ req'[r].pc = "updateRow" /\ req'[r] # None
          /\ req'[r].id = req[r].id
          /\ req'[r].keys = req[r].keys /\ Held(r)' = Held(r)
      BY <1>2, <2>2, WentTo DEF PutThumbnail, At
    <3> QED BY <1>2, <1>3, <1>4, <3>1 DEF Carries, Uploading, Thumbing, Deleting, Is, At
  <2>3. CASE DeleteObjectFails(r)
    <3>1. /\ req[r].pc = "delete" /\ req'[r].pc = "deleteRow" /\ req'[r] # None
          /\ req'[r].id = req[r].id
          /\ req'[r].keys = req[r].keys /\ Held(r)' = Held(r)
      BY <1>2, <2>3, WentTo DEF DeleteObjectFails, At
    <3> QED BY <1>2, <1>3, <1>4, <3>1 DEF Carries, Uploading, Thumbing, Deleting, Is, At
  <2>4. CASE DeleteObject(r)
    <3>1. /\ req[r].pc = "delete" /\ req'[r].id = req[r].id /\ req'[r] # None
          /\ req'[r].pc \in {"delete", "deleteRow"}
          /\ req'[r].pc = "delete" => req'[r].keys # <<>>
          /\ Held(r)' \subseteq Held(r)
      BY <2>4, Removed DEF DeleteObject, At
    <3> QED BY <1>2, <1>3, <1>4, <3>1 DEF Carries, Uploading, Thumbing, Deleting, Is, At
  <2>5. CASE PutFails(r) \/ CutShort(r)
    <3>1. req'[r] = None /\ Held(r)' = {}
      BY <2>5, Ended DEF PutFails, CutShort
    <3> QED BY <3>1 DEF Carries, Uploading, Thumbing, Deleting, Is, At
  <2> QED BY <2>1, <2>2, <2>3, <2>4, <2>5
<1>7. \A q \in Requests : q # r => Carries(q)'
  BY <1>1, <1>5, CarriesOther
<1>8. SoundRows'
  BY <1>1, <1>2, NoNewRow, SoundRowsKept
<1> QED BY <1>6, <1>7, <1>8 DEF Sound, SoundRows

\* What a request about row i begins with belongs to row i.
LEMMA AboutRowHeld ==
    ASSUME TypeOK, Sound, NEW r \in Requests, NEW i \in Ids,
           DeleteMedia(r, i) \/ GenerateThumbnail(r, i)
    PROVE  /\ \A k \in Held(r)' : Plain(k) = rows[i].key
           /\ DeleteMedia(r, i) => Held(r)' = Owned(rows[i])
<1>1. rows[i] # None /\ rows[i].key \in Key /\ ~rows[i].key.thumb
  BY SeenKeysPlain DEF DeleteMedia, GenerateThumbnail, Sound
<1>2. /\ Plain(rows[i].key) = rows[i].key
      /\ Plain(ThumbnailKey(rows[i].key)) = rows[i].key
  BY <1>1, KeyFacts
<1>3. req'[r] # None
  BY AboutRowTypes
<1>4. CASE DeleteMedia(r, i)
  <2>1. req'[r].keys = KeysOf(rows[i])
    BY <1>4, AboutRowTypes
  <2>2. CASE rows[i].thumb
    <3>1. req'[r].keys = <<rows[i].key, ThumbnailKey(rows[i].key)>>
      BY <2>1, <2>2 DEF KeysOf
    <3>2. Held(r)' = {rows[i].key, ThumbnailKey(rows[i].key)}
      BY <1>3, <3>1 DEF Held
    <3> QED BY <1>2, <2>2, <3>2 DEF Owned
  <2>3. CASE ~rows[i].thumb
    <3>1. req'[r].keys = <<rows[i].key>>
      BY <2>1, <2>3 DEF KeysOf
    <3>2. Held(r)' = {rows[i].key}
      BY <1>3, <3>1 DEF Held
    <3> QED BY <1>2, <2>3, <3>2 DEF Owned
  <2> QED BY <2>2, <2>3
<1>5. CASE GenerateThumbnail(r, i) /\ ~DeleteMedia(r, i)
  <2>1. req'[r].keys = <<ThumbnailKey(rows[i].key)>>
    BY <1>5, AboutRowTypes
  <2>2. Held(r)' = {ThumbnailKey(rows[i].key)}
    BY <1>3, <2>1 DEF Held
  <2> QED BY <1>2, <1>5, <2>2
<1> QED BY <1>4, <1>5

LEMMA AboutRowSound ==
    ASSUME TypeOK, Sound, NEW r \in Requests, NEW i \in Ids,
           DeleteMedia(r, i) \/ GenerateThumbnail(r, i)
    PROVE  Sound'
<1>1. TypeOK' /\ RowsKept
  BY AboutRowTypes
<1>2. UNCHANGED <<rows, used, seen>> /\ rows[i] # None
  BY DEF DeleteMedia, GenerateThumbnail
<1>3. i \in used /\ rows[i].key \in SeenKeys /\ rows[i].key \in Key
  BY <1>2, RowTypes DEF Sound
<1>4. req'[r] # None /\ req'[r].id = i /\ \A q \in Requests : q # r => req'[q] = req[q]
  BY AboutRowTypes
<1>5. \A k \in Held(r)' : Plain(k) = rows[i].key
  BY AboutRowHeld
<1>6. SeenKeys' = SeenKeys
  BY <1>2 DEF SeenKeys
<1>7. Carries(r)'
  <2>1. CASE DeleteMedia(r, i)
    <3>1. req'[r].pc = "delete" /\ req'[r].keys = KeysOf(rows[i])
      BY <2>1, AboutRowTypes
    <3>2. KeysOf(rows[i]) # <<>>
      BY <1>3, EmptySeq DEF KeysOf
    <3> QED BY <1>2, <1>3, <1>4, <1>5, <1>6, <3>1, <3>2
            DEF Carries, Uploading, Thumbing, Deleting, Is, At
  <2>2. CASE GenerateThumbnail(r, i) /\ ~DeleteMedia(r, i)
    <3>1. req'[r].pc = "putThumb" /\ req'[r].keys = <<ThumbnailKey(rows[i].key)>>
      BY <2>2, AboutRowTypes
    <3>2. Len(req'[r].keys) = 1 /\ Head(req'[r].keys).thumb
      BY <1>3, <3>1, KeyFacts
    <3>3. rows'[i].image
      BY <1>2, <2>2 DEF GenerateThumbnail, Thumbable
    <3> QED BY <1>2, <1>3, <1>4, <1>5, <1>6, <3>1, <3>2, <3>3
            DEF Carries, Uploading, Thumbing, Deleting, Is, At
  <2> QED BY <2>1, <2>2
<1>8. \A q \in Requests : q # r => Carries(q)'
  BY <1>1, <1>4, CarriesOther
<1>9. SoundRows'
  BY <1>1, <1>2, NoNewRow, SoundRowsKept
<1> QED BY <1>7, <1>8, <1>9 DEF Sound, SoundRows

LEMMA RowStepSound ==
    ASSUME TypeOK, Sound, NEW r \in Requests, DeleteRow(r) \/ UpdateRow(r)
    PROVE  Sound'
<1>1. TypeOK' /\ RowsKept /\ UNCHANGED used
  BY RowStepTypes DEF DeleteRow, UpdateRow
<1>2. req'[r] = None /\ Held(r)' = {} /\ \A q \in Requests : q # r => req'[q] = req[q]
  BY Ended DEF DeleteRow, UpdateRow
<1>3. Carries(r)'
  BY <1>2 DEF Carries, Uploading, Thumbing, Deleting, Is, At
<1>4. \A q \in Requests : q # r => Carries(q)'
  BY <1>1, <1>2, CarriesOther
<1>5. SoundRows'
  BY <1>1, NoNewRow, SoundRowsKept
<1> QED BY <1>3, <1>4, <1>5 DEF Sound, SoundRows

LEMMA TickSound ==
    ASSUME TypeOK, Sound, Tick PROVE Sound'
<1>1. TypeOK' /\ RowsKept /\ UNCHANGED <<used, req>>
  BY TickTypes DEF Tick
<1>2. SoundRows'
  BY <1>1, NoNewRow, SoundRowsKept
<1> QED BY <1>1, <1>2, CarriesOther DEF Sound, SoundRows

-----------------------------------------------------------------------------
(* Keys stay unique.                                                       *)

\* The one key of an upload or a thumbnail.
LEMMA OneKey ==
    ASSUME TypeOK, Sound, NEW r \in Requests, Uploading(r) \/ Thumbing(r)
    PROVE  /\ Held(r) = {Head(req[r].keys)} /\ Head(req[r].keys) \in Key
           /\ Uploading(r) => Head(req[r].keys) \in SeenKeys
<1>1. req[r] # None /\ Len(req[r].keys) = 1 /\ Carries(r)
  BY DEF Sound, Carries, Uploading, Thumbing, Is
<1>2. req[r].keys # <<>>
  BY <1>1, EmptySeq
<1>3. Held(r) = {Head(req[r].keys)} /\ Head(req[r].keys) \in Key
  BY <1>1, <1>2, KeysLeft
<1>4. Uploading(r) => Plain(Head(req[r].keys)) = Head(req[r].keys)
  BY <1>1, <1>3, KeyFacts DEF Carries
<1> QED BY <1>1, <1>3, <1>4 DEF Carries

LEMMA ClashKeysGrow == ASSUME RowsKept PROVE ClashKeys \subseteq ClashKeys'
BY DEF ClashKeys, RowsKept

\* A step that gives no key to anyone.
LEMMA UniqueShrinks ==
    ASSUME Unique, RowsKept,
           \A i \in Ids : rows'[i] # None =>
               rows[i] # None /\ rows'[i].key = rows[i].key,
           \A q \in Requests : Uploading(q)' =>
               Uploading(q) /\ Head(req'[q].keys) = Head(req[q].keys),
           \A q \in Requests : Deleting(q)' =>
               /\ Deleting(q) /\ req'[q].id = req[q].id
               /\ Held(q)' \subseteq Held(q)
    PROVE  Unique'
<1>0. ClashKeys \subseteq ClashKeys'
  BY ClashKeysGrow
<1>1. \A i, j \in Ids : rows'[i] # None /\ rows'[j] # None /\ rows'[i].key = rows'[j].key
                        => i = j \/ rows'[i].key \in ClashKeys'
  BY <1>0 DEF Unique
<1>2. ASSUME NEW r \in Requests, Uploading(r)', Head(req'[r].keys) \notin ClashKeys'
      PROVE  /\ \A i \in Ids : rows'[i] # None => rows'[i].key # Head(req'[r].keys)
             /\ \A q \in Requests :
                   Uploading(q)' /\ Head(req'[q].keys) = Head(req'[r].keys) => q = r
  BY <1>0, <1>2 DEF Unique
<1>3. ASSUME NEW r \in Requests, Deleting(r)', NEW k \in Held(r)', Plain(k) \notin ClashKeys'
      PROVE  /\ \A i \in Ids : rows'[i] # None /\ rows'[i].key = Plain(k) => i = req'[r].id
             /\ \A q \in Requests : Uploading(q)' => Head(req'[q].keys) # Plain(k)
  BY <1>0, <1>3 DEF Unique
<1> QED BY <1>1, <1>2, <1>3 DEF Unique, Plain

LEMMA UploadUnique ==
    ASSUME TypeOK, Sound, Unique, NEW r \in Requests,
           NEW content \in Contents, NEW name \in Names,
           UploadMedia(r, content, name)
    PROVE  Unique'
<1> DEFINE u == [content |-> content, name |-> name, time |-> now]
           k == StorageKey(u)
<1>0. ClashKeys \subseteq ClashKeys'
  BY UploadTypes, ClashKeysGrow
<1>1. PICK image \in BOOLEAN :
         Begin(r, [pc |-> "put", id |-> None, image |-> image, keys |-> <<k>>])
  BY DEF UploadMedia
<1>2. u \in Upload /\ k \in Key
  BY StorageKeys DEF Upload, TypeOK
\* A key that was given out before is now known to clash.
<1>3. k \in SeenKeys => k \in ClashKeys'
  <2>1. k \in SeenKeys => u \in seen
    BY <1>2, StorageKeys DEF SeenKeys, TypeOK
  <2>2. u \in seen => u \in clash'
    BY DEF UploadMedia
  <2> QED BY <2>1, <2>2 DEF ClashKeys
<1> HIDE DEF k
<1>4. [pc |-> "put", id |-> None, image |-> image, keys |-> <<k>>] \in Request
  BY <1>2 DEF Request
<1>5. /\ req'[r] = [pc |-> "put", id |-> None, image |-> image, keys |-> <<k>>]
      /\ req[r] = None /\ \A q \in Requests : q # r => req'[q] = req[q]
  BY <1>1, <1>4, Began
<1>6. rows' = rows
  BY DEF UploadMedia
<1>7. Head(req'[r].keys) = k /\ ~Deleting(r)'
  BY <1>5 DEF Deleting, Is
<1>8. \A q \in Requests : Uploading(q)' /\ q # r =>
         /\ Uploading(q) /\ req'[q] = req[q]
         /\ Head(req[q].keys) = k => k \in ClashKeys'
  <2> SUFFICES ASSUME NEW q \in Requests, Uploading(q)', q # r
               PROVE  /\ Uploading(q) /\ req'[q] = req[q]
                      /\ Head(req[q].keys) = k => k \in ClashKeys'
    OBVIOUS
  <2>1. Uploading(q) /\ req'[q] = req[q]
    BY <1>5 DEF Uploading, Is
  <2> QED BY <1>3, <2>1, OneKey
<1>9. ASSUME NEW q \in Requests, Deleting(q)'
      PROVE  /\ Deleting(q) /\ req'[q] = req[q] /\ Held(q)' = Held(q)
             /\ \A l \in Held(q) : Plain(l) = k => k \in ClashKeys'
  <2>1. Deleting(q) /\ req'[q] = req[q]
    BY <1>5, <1>7, <1>9 DEF Deleting, Is
  <2> QED BY <1>3, <2>1 DEF Held, Sound, Carries
<1>10. \A i \in Ids : rows[i] # None /\ rows[i].key = k => k \in ClashKeys'
  BY <1>3 DEF Sound
<1>11. ASSUME NEW q \in Requests, Uploading(q)', Head(req'[q].keys) \notin ClashKeys'
       PROVE  /\ \A i \in Ids : rows'[i] # None => rows'[i].key # Head(req'[q].keys)
              /\ \A p \in Requests :
                    Uploading(p)' /\ Head(req'[p].keys) = Head(req'[q].keys) => p = q
  BY <1>0, <1>6, <1>7, <1>8, <1>10, <1>11 DEF Unique
<1>12. ASSUME NEW q \in Requests, Deleting(q)', NEW l \in Held(q)', Plain(l) \notin ClashKeys'
       PROVE  /\ \A i \in Ids : rows'[i] # None /\ rows'[i].key = Plain(l) => i = req'[q].id
              /\ \A p \in Requests : Uploading(p)' => Head(req'[p].keys) # Plain(l)
  BY <1>0, <1>6, <1>7, <1>8, <1>9, <1>12 DEF Unique
<1>13. \A i, j \in Ids : rows'[i] # None /\ rows'[j] # None /\ rows'[i].key = rows'[j].key
                         => i = j \/ rows'[i].key \in ClashKeys'
  BY <1>0, <1>6 DEF Unique
<1> QED BY <1>11, <1>12, <1>13 DEF Unique, Plain

LEMMA InsertUnique ==
    ASSUME TypeOK, Sound, Unique, NEW r \in Requests, InsertRow(r)
    PROVE  Unique'
<1> DEFINE k == Head(req[r].keys)
<1>0. ClashKeys' = ClashKeys
  BY DEF InsertRow, history, ClashKeys
<1>1. Uploading(r)
  BY DEF InsertRow, At, Uploading, Is
<1>2. PICK n \in Ids \ used :
         rows' = [rows EXCEPT ![n] = [key |-> k, image |-> req[r].image, thumb |-> FALSE]]
  BY DEF InsertRow
<1>3. /\ rows'[n].key = k /\ \A i \in Ids : i # n => rows'[i] = rows[i]
      /\ \A i \in Ids : rows[i] # None => i # n
  BY <1>2 DEF TypeOK
<1>4. req'[r] = None /\ \A q \in Requests : q # r => req'[q] = req[q]
  BY Ended DEF InsertRow
<1>5. \A q \in Requests : Uploading(q)' =>
         /\ Uploading(q) /\ req'[q] = req[q]
         /\ k \notin ClashKeys => Head(req[q].keys) # k
  BY <1>1, <1>4 DEF Unique, Uploading, Is
<1>6. ASSUME NEW q \in Requests, Deleting(q)'
      PROVE  /\ Deleting(q) /\ req'[q] = req[q] /\ Held(q)' = Held(q)
             /\ k \notin ClashKeys => \A l \in Held(q) : Plain(l) # k
  <2>1. Deleting(q) /\ req'[q] = req[q]
    BY <1>4, <1>6 DEF Deleting, Is
  <2> QED BY <1>1, <2>1 DEF Held, Unique
<1>7. k \notin ClashKeys => \A i \in Ids : rows[i] # None => rows[i].key # k
  BY <1>1 DEF Unique
<1> HIDE DEF k
<1>8. \A i, j \in Ids : rows'[i] # None /\ rows'[j] # None /\ rows'[i].key = rows'[j].key
                        => i = j \/ rows'[i].key \in ClashKeys
  BY <1>3, <1>7 DEF Unique
<1>9. ASSUME NEW q \in Requests, Uploading(q)', Head(req'[q].keys) \notin ClashKeys
      PROVE  /\ \A i \in Ids : rows'[i] # None => rows'[i].key # Head(req'[q].keys)
             /\ \A p \in Requests :
                   Uploading(p)' /\ Head(req'[p].keys) = Head(req'[q].keys) => p = q
  BY <1>3, <1>5, <1>9 DEF Unique
<1>10. ASSUME NEW q \in Requests, Deleting(q)', NEW l \in Held(q)', Plain(l) \notin ClashKeys
       PROVE  /\ \A i \in Ids : rows'[i] # None /\ rows'[i].key = Plain(l) => i = req'[q].id
              /\ \A p \in Requests : Uploading(p)' => Head(req'[p].keys) # Plain(l)
  BY <1>3, <1>5, <1>6, <1>10 DEF Unique
<1> QED BY <1>0, <1>8, <1>9, <1>10 DEF Unique, Plain

LEMMA DeleteUnique ==
    ASSUME TypeOK, Sound, Unique, NEW r \in Requests, NEW n \in Ids, DeleteMedia(r, n)
    PROVE  Unique'
<1>1. /\ req[r] = None /\ req'[r] # None /\ req'[r].id = n /\ req'[r].pc = "delete"
      /\ \A q \in Requests : q # r => req'[q] = req[q]
  BY AboutRowTypes
<1>2. \A k \in Held(r)' : Plain(k) = rows[n].key
  BY AboutRowHeld
<1>3. rows' = rows /\ rows[n] # None /\ ClashKeys' = ClashKeys
  BY DEF DeleteMedia, ClashKeys
<1>4. \A q \in Requests : Uploading(q)' => Uploading(q) /\ req'[q] = req[q]
  BY <1>1 DEF Uploading, Is
<1>5. \A q \in Requests : Deleting(q)' /\ q # r =>
         Deleting(q) /\ req'[q] = req[q] /\ Held(q)' = Held(q)
  BY <1>1 DEF Deleting, Is, Held
<1>6. ASSUME NEW q \in Requests, Uploading(q)', Head(req'[q].keys) \notin ClashKeys
      PROVE  /\ \A i \in Ids : rows'[i] # None => rows'[i].key # Head(req'[q].keys)
             /\ \A p \in Requests :
                   Uploading(p)' /\ Head(req'[p].keys) = Head(req'[q].keys) => p = q
  BY <1>3, <1>4, <1>6 DEF Unique
<1>7. ASSUME NEW q \in Requests, Deleting(q)', NEW l \in Held(q)', Plain(l) \notin ClashKeys
      PROVE  /\ \A i \in Ids : rows'[i] # None /\ rows'[i].key = Plain(l) => i = req'[q].id
             /\ \A p \in Requests : Uploading(p)' => Head(req'[p].keys) # Plain(l)
  <2>1. CASE q = r
    BY <1>1, <1>2, <1>3, <1>4, <1>7, <2>1 DEF Unique
  <2>2. CASE q # r
    BY <1>3, <1>4, <1>5, <1>7, <2>2 DEF Unique
  <2> QED BY <2>1, <2>2
<1>8. \A i, j \in Ids : rows'[i] # None /\ rows'[j] # None /\ rows'[i].key = rows'[j].key
                        => i = j \/ rows'[i].key \in ClashKeys'
  BY <1>3 DEF Unique
<1> QED BY <1>3, <1>6, <1>7, <1>8 DEF Unique, Plain

\* No other step gives a key to anyone.
LEMMA OtherUnique ==
    ASSUME TypeOK, Sound, Unique, NEW r \in Requests,
           \/ PutFile(r) \/ DeleteObject(r) \/ DeleteObjectFails(r) \/ DeleteRow(r)
           \/ PutThumbnail(r) \/ UpdateRow(r) \/ PutFails(r) \/ CutShort(r)
           \/ \E i \in Ids : GenerateThumbnail(r, i) /\ ~DeleteMedia(r, i)
    PROVE  Unique'
<1>1. \A i \in Ids : rows'[i] # None => rows[i] # None /\ rows'[i].key = rows[i].key
  <2>1. CASE DeleteRow(r) \/ UpdateRow(r)
    <3>1. TypeOK' /\ RowsKept /\ UNCHANGED used
      BY <2>1, RowStepTypes DEF DeleteRow, UpdateRow
    <3> QED BY <3>1, NoNewRow DEF RowsKept
  <2> QED BY <2>1 DEF PutFile, DeleteObject, DeleteObjectFails, PutThumbnail, PutFails,
                      CutShort, GenerateThumbnail
<1>2. \A q \in Requests : q # r => req'[q] = req[q]
  BY WentTo, Ended, Removed, AboutRowTypes
     DEF PutFile, DeleteObject, DeleteObjectFails, DeleteRow, PutThumbnail, UpdateRow,
         PutFails, CutShort, At
<1>3. /\ Uploading(r)' => Uploading(r) /\ req'[r].keys = req[r].keys
      /\ Deleting(r)' => Deleting(r) /\ req'[r].id = req[r].id /\ Held(r)' \subseteq Held(r)
  <2>1. CASE PutFile(r) \/ PutThumbnail(r) \/ DeleteObjectFails(r)
    BY <2>1, WentTo DEF PutFile, PutThumbnail, DeleteObjectFails, At, Uploading, Deleting, Is
  <2>2. CASE DeleteObject(r)
    BY <2>2, Removed DEF DeleteObject, At, Uploading, Deleting, Is
  <2>3. CASE DeleteRow(r) \/ UpdateRow(r) \/ PutFails(r) \/ CutShort(r)
    BY <2>3, Ended DEF DeleteRow, UpdateRow, PutFails, CutShort, Uploading, Deleting, Is
  <2>4. CASE \E i \in Ids : GenerateThumbnail(r, i) /\ ~DeleteMedia(r, i)
    <3>1. req'[r].pc = "putThumb"
      BY <2>4, AboutRowTypes
    <3> QED BY <3>1 DEF Uploading, Deleting, Is
  <2> QED BY <2>1, <2>2, <2>3, <2>4
<1>4. \A q \in Requests : Uploading(q)' =>
         Uploading(q) /\ Head(req'[q].keys) = Head(req[q].keys)
  BY <1>2, <1>3 DEF Uploading, Is
<1>5. \A q \in Requests : Deleting(q)' =>
         Deleting(q) /\ req'[q].id = req[q].id /\ Held(q)' \subseteq Held(q)
  BY <1>2, <1>3 DEF Deleting, Is, Held
<1>6. RowsKept
  BY RequestStepTypes, AboutRowTypes, RowStepTypes
<1> QED BY <1>1, <1>4, <1>5, <1>6, UniqueShrinks

-----------------------------------------------------------------------------
(* Which rows are being deleted.                                           *)

\* The steps of a request in which no call fails, but for the three that
\* hand out keys.
GoesOn(r) ==
    \/ PutFile(r) \/ DeleteObject(r) \/ DeleteRow(r) \/ PutThumbnail(r) \/ UpdateRow(r)
    \/ \E i \in Ids : GenerateThumbnail(r, i) /\ ~DeleteMedia(r, i)

Fails(r) == DeleteObjectFails(r) \/ PutFails(r) \/ CutShort(r)

LEMMA DeletingIs == \A i : BeingDeleted(i) <=> \E r \in Requests : Deleting(r) /\ req[r].id = i
BY DEF BeingDeleted, DeletedBy, Deleting, Is

\* No step stops a deletion but one that deletes the row, or cuts it short.
LEMMA StaysDeleted ==
    ASSUME TypeOK, Sound, NEW r \in Requests, GoesOn(r)
    PROVE  \A i \in Ids : BeingDeleted(i) =>
               BeingDeleted(i)' \/ (DeleteRow(r) /\ i = req[r].id)
<1>1. \A q \in Requests : q # r => req'[q] = req[q]
  BY WentTo, Ended, Removed, AboutRowTypes
     DEF GoesOn, PutFile, DeleteObject, DeleteRow, PutThumbnail, UpdateRow, At
<1>2. Deleting(r) => DeleteRow(r) \/ (Deleting(r)' /\ req'[r].id = req[r].id)
  <2>1. CASE DeleteObject(r)
    BY <2>1, Removed DEF Deleting, Is
  <2>2. CASE \E i \in Ids : GenerateThumbnail(r, i) /\ ~DeleteMedia(r, i)
    BY <2>2, AboutRowTypes DEF Deleting, Is
  <2>3. CASE PutFile(r) \/ PutThumbnail(r) \/ UpdateRow(r)
    BY <2>3 DEF PutFile, PutThumbnail, UpdateRow, At, Deleting, Is
  <2> QED BY <2>1, <2>2, <2>3 DEF GoesOn
<1>3. ASSUME NEW i \in Ids, NEW q \in Requests, Deleting(q), req[q].id = i
      PROVE  \/ (DeleteRow(r) /\ i = req[r].id)
             \/ Deleting(q)' /\ req'[q].id = i
  BY <1>1, <1>2, <1>3 DEF Deleting, Is
<1>4. \A i : BeingDeleted(i)' <=> \E q \in Requests : Deleting(q)' /\ req'[q].id = i
  BY DEF BeingDeleted, DeletedBy, Deleting, Is
<1> SUFFICES ASSUME NEW i \in Ids, BeingDeleted(i)
             PROVE  BeingDeleted(i)' \/ (DeleteRow(r) /\ i = req[r].id)
  OBVIOUS
<1>5. PICK q \in Requests : Deleting(q) /\ req[q].id = i
  BY DeletingIs
<1> QED BY <1>3, <1>4, <1>5

LEMMA FailsDeleted ==
    ASSUME TypeOK, Sound, NEW r \in Requests, Fails(r)
    PROVE  \A i \in Ids : BeingDeleted(i) => BeingDeleted(i)' \/ i \in halted'
<1>1. \A q \in Requests : q # r => req'[q] = req[q]
  BY WentTo, Ended DEF Fails, DeleteObjectFails, PutFails, CutShort, At
<1>2. \A i \in Ids : Deleting(r) /\ req[r].id = i =>
         (Deleting(r)' /\ req'[r].id = i) \/ i \in halted'
  <2>1. CASE DeleteObjectFails(r)
    BY <2>1, WentTo DEF DeleteObjectFails, At, Deleting, Is
  <2>2. CASE PutFails(r)
    BY <2>2 DEF PutFails, At, Deleting, Is
  <2>3. CASE CutShort(r)
    BY <2>3 DEF CutShort, DeletedBy, Deleting, Is
  <2> QED BY <2>1, <2>2, <2>3 DEF Fails
<1>3. \A i : BeingDeleted(i)' <=> \E q \in Requests : Deleting(q)' /\ req'[q].id = i
  BY DEF BeingDeleted, DeletedBy, Deleting, Is
<1> SUFFICES ASSUME NEW i \in Ids, BeingDeleted(i)
             PROVE  BeingDeleted(i)' \/ i \in halted'
  OBVIOUS
<1>4. PICK q \in Requests : Deleting(q) /\ req[q].id = i
  BY DeletingIs
<1>5. CASE q = r
  BY <1>2, <1>3, <1>4, <1>5
<1>6. CASE q # r
  <2>1. Deleting(q)' /\ req'[q].id = i
    BY <1>1, <1>4, <1>6 DEF Deleting, Is
  <2> QED BY <1>3, <2>1
<1> QED BY <1>5, <1>6

\* No step starts a deletion but DeleteMedia.
LEMMA StaysUndeleted ==
    ASSUME TypeOK, Sound, NEW r \in Requests, GoesOn(r) \/ Fails(r)
    PROVE  \A i \in Ids : BeingDeleted(i)' => BeingDeleted(i)
<1>1. \A q \in Requests : q # r => req'[q] = req[q]
  BY WentTo, Ended, Removed, AboutRowTypes
     DEF GoesOn, Fails, PutFile, DeleteObject, DeleteRow, PutThumbnail, UpdateRow,
         DeleteObjectFails, PutFails, CutShort, At
<1>2. Deleting(r)' => Deleting(r) /\ req'[r].id = req[r].id
  <2>1. CASE PutFile(r) \/ PutThumbnail(r) \/ DeleteObjectFails(r)
    BY <2>1, WentTo DEF PutFile, PutThumbnail, DeleteObjectFails, At, Deleting, Is
  <2>2. CASE DeleteObject(r)
    BY <2>2, Removed DEF DeleteObject, At, Deleting, Is
  <2>3. CASE DeleteRow(r) \/ UpdateRow(r) \/ PutFails(r) \/ CutShort(r)
    BY <2>3, Ended DEF DeleteRow, UpdateRow, PutFails, CutShort, Deleting, Is
  <2>4. CASE \E i \in Ids : GenerateThumbnail(r, i) /\ ~DeleteMedia(r, i)
    <3>1. req'[r].pc = "putThumb"
      BY <2>4, AboutRowTypes
    <3> QED BY <3>1 DEF Deleting, Is
  <2> QED BY <2>1, <2>2, <2>3, <2>4 DEF GoesOn, Fails
<1>3. \A q \in Requests : Deleting(q)' => Deleting(q) /\ req'[q].id = req[q].id
  BY <1>1, <1>2 DEF Deleting, Is
<1>4. \A i : BeingDeleted(i)' <=> \E q \in Requests : Deleting(q)' /\ req'[q].id = i
  BY DEF BeingDeleted, DeletedBy, Deleting, Is
<1> QED BY <1>3, <1>4, DeletingIs

\* An upload neither starts nor stops a deletion.
LEMMA UploadDeletes ==
    ASSUME TypeOK, NEW r \in Requests,
           \/ InsertRow(r)
           \/ \E content \in Contents, name \in Names : UploadMedia(r, content, name)
    PROVE  /\ \A q \in Requests : q # r => req'[q] = req[q]
           /\ \A i \in Ids : BeingDeleted(i)' <=> BeingDeleted(i)
<1>1. /\ \A q \in Requests : q # r => req'[q] = req[q]
      /\ ~Deleting(r) /\ ~Deleting(r)'
  <2>1. CASE InsertRow(r)
    BY <2>1, Ended DEF InsertRow, At, Deleting, Is
  <2>2. ASSUME NEW c, Begin(r, c), c.pc = "put"
        PROVE  /\ \A q \in Requests : q # r => req'[q] = req[q]
               /\ ~Deleting(r) /\ ~Deleting(r)'
    BY <2>2 DEF Begin, TypeOK, Deleting, Is
  <2> QED BY <2>1, <2>2 DEF UploadMedia
<1>2. \A q \in Requests : /\ Deleting(q)' <=> Deleting(q)
                          /\ Deleting(q) => req'[q].id = req[q].id
  BY <1>1 DEF Deleting, Is
<1>3. \A i : BeingDeleted(i)' <=> \E q \in Requests : Deleting(q)' /\ req'[q].id = i
  BY DEF BeingDeleted, DeletedBy, Deleting, Is
<1> QED BY <1>1, <1>2, <1>3, DeletingIs

LEMMA DeleteDeletes ==
    ASSUME TypeOK, NEW r \in Requests, NEW n \in Ids, DeleteMedia(r, n)
    PROVE  \A i \in Ids : BeingDeleted(i)' <=> BeingDeleted(i) \/ i = n
<1>1. /\ req[r] = None /\ req'[r] # None /\ req'[r].id = n /\ req'[r].pc = "delete"
      /\ \A q \in Requests : q # r => req'[q] = req[q]
  BY AboutRowTypes
<1>2. ~Deleting(r) /\ Deleting(r)'
  BY <1>1 DEF Deleting, Is
<1>3. \A q \in Requests : q # r => (Deleting(q)' <=> Deleting(q))
  BY <1>1 DEF Deleting, Is
<1>4. \A i : BeingDeleted(i)' <=> \E q \in Requests : Deleting(q)' /\ req'[q].id = i
  BY DEF BeingDeleted, DeletedBy, Deleting, Is
<1> QED BY <1>1, <1>2, <1>3, <1>4, DeletingIs

\* A stored row stays stored until it is deleted.
LEMMA StaysStored ==
    ASSUME TypeOK, Sound, NEW r \in Requests, NEW i \in Ids, rows[i] # None,
           \/ GoesOn(r) \/ Fails(r) \/ InsertRow(r) \/ \E n \in Ids : DeleteMedia(r, n)
           \/ \E content \in Contents, name \in Names : UploadMedia(r, content, name)
    PROVE  rows'[i] # None \/ (DeleteRow(r) /\ i = req[r].id)
<1>1. CASE DeleteRow(r)
  <2>1. \A l \in Ids : l # req[r].id => rows'[l] = rows[l]
    BY <1>1, RowStepTypes
  <2> QED BY <1>1, <2>1
<1>2. CASE UpdateRow(r)
  <2>1. /\ \A l \in Ids : l # req[r].id => rows'[l] = rows[l]
        /\ rows'[req[r].id] = IF rows[req[r].id] = None THEN None
                              ELSE WithThumbnail(rows[req[r].id])
    BY <1>2, RowStepTypes
  <2>2. CASE i = req[r].id
    <3>1. Thumbing(r) /\ rows[i].image /\ rows[i] \in Row
      BY <1>2, <2>2, RowTypes DEF UpdateRow, At, Sound, Carries, Thumbing, Is
    <3>2. WithThumbnail(rows[i]) \in Row
      BY <3>1 DEF WithThumbnail, Row
    <3> QED BY <2>1, <2>2, <3>2, NoneIsNothing
  <2> QED BY <2>1, <2>2
<1>3. CASE InsertRow(r)
  <2>1. i \in used
    BY RowTypes
  <2>2. PICK n \in Ids \ used :
          rows' = [rows EXCEPT ![n] = [key |-> Head(req[r].keys),
                                       image |-> req[r].image, thumb |-> FALSE]]
    BY <1>3 DEF InsertRow
  <2>3. rows'[i] = rows[i]
    BY <2>1, <2>2 DEF TypeOK
  <2> QED BY <2>3
<1> QED BY <1>1, <1>2, <1>3
        DEF GoesOn, Fails, PutFile, DeleteObject, PutThumbnail, GenerateThumbnail,
            DeleteObjectFails, PutFails, CutShort, UploadMedia, DeleteMedia

-----------------------------------------------------------------------------
(* Deletions that went well, and thumbnails of rows that stay.             *)

\* A step of any kind.
Steps(r) ==
    \/ GoesOn(r) \/ Fails(r) \/ InsertRow(r) \/ \E n \in Ids : DeleteMedia(r, n)
    \/ \E content \in Contents, name \in Names : UploadMedia(r, content, name)

LEMMA StepsTypes ==
    ASSUME TypeOK, Sound, NEW r \in Requests, Steps(r)
    PROVE  TypeOK' /\ RowsKept
BY UploadTypes, InsertTypes, RequestStepTypes, AboutRowTypes, RowStepTypes
   DEF Steps, GoesOn, Fails

LEMMA OthersKept ==
    ASSUME TypeOK, Sound, NEW r \in Requests, Steps(r)
    PROVE  \A q \in Requests : q # r => req'[q] = req[q] /\ Held(q)' = Held(q)
<1>1. \A q \in Requests : q # r => req'[q] = req[q]
  BY WentTo, Ended, Removed, AboutRowTypes, UploadDeletes
     DEF Steps, GoesOn, Fails, PutFile, DeleteObject, DeleteRow, PutThumbnail, UpdateRow,
         DeleteObjectFails, PutFails, CutShort, At
<1> QED BY <1>1 DEF Held

LEMMA SpentKept ==
    ASSUME TypeOK, Sound, Spent, NEW r \in Requests, Steps(r)
    PROVE  Spent'
<1>1. /\ lost \subseteq lost'
      /\ \A q \in Requests : q # r => req'[q] = req[q] /\ Held(q)' = Held(q)
  BY StepsTypes, OthersKept DEF RowsKept
<1>2. At(r, "deleteRow")' => Held(r)' \subseteq lost'
  <2>1. CASE PutFile(r) \/ PutThumbnail(r)
    BY <2>1, WentTo DEF PutFile, PutThumbnail, At
  <2>2. CASE DeleteObject(r)
    <3>1. At(r, "deleteRow")' => req'[r].keys = <<>>
      BY <2>2, Removed DEF At
    <3> QED BY <3>1 DEF Held, At
  <2>3. CASE DeleteRow(r) \/ UpdateRow(r) \/ InsertRow(r) \/ PutFails(r) \/ CutShort(r)
    BY <2>3, Ended DEF DeleteRow, UpdateRow, InsertRow, PutFails, CutShort, At
  <2>4. CASE \E i \in Ids : GenerateThumbnail(r, i) \/ DeleteMedia(r, i)
    BY <2>4, AboutRowTypes DEF At
  <2>5. CASE \E content \in Contents, name \in Names : UploadMedia(r, content, name)
    <3>1. ASSUME NEW c, Begin(r, c), c.pc = "put" PROVE ~At(r, "deleteRow")'
      BY <3>1 DEF Begin, TypeOK, At
    <3> QED BY <2>5, <3>1 DEF UploadMedia
  <2>6. CASE DeleteObjectFails(r)
    BY <2>6, WentTo DEF DeleteObjectFails, Failure, At
  <2> QED BY <2>1, <2>2, <2>3, <2>4, <2>5, <2>6 DEF Steps, GoesOn, Fails
<1>3. \A q \in Requests : At(q, "deleteRow")' => Held(q)' \subseteq lost'
  BY <1>1, <1>2 DEF Spent, At
<1> QED BY <1>3 DEF Spent, At

\* The key of a thumbnail that is being made follows from that of its row.
LEMMA ThumbsKey ==
    ASSUME TypeOK, Sound, NEW q \in Requests, Thumbing(q),
           NEW i \in Ids, req[q].id = i, rows[i] # None
    PROVE  Head(req[q].keys) = ThumbnailKey(rows[i].key)
<1>1. /\ Held(q) = {Head(req[q].keys)} /\ Head(req[q].keys) \in Key
      /\ Head(req[q].keys).thumb /\ Plain(Head(req[q].keys)) = rows[i].key
  BY OneKey DEF Sound, Carries
<1> QED BY <1>1, KeyFacts

LEMMA UnracedKept ==
    ASSUME TypeOK, Sound, Unraced, NEW r \in Requests, Steps(r)
    PROVE  Unraced'
<1>1. /\ lost \subseteq lost'
      /\ \A q \in Requests : q # r => req'[q] = req[q]
  BY StepsTypes, OthersKept DEF RowsKept
<1>2. ASSUME NEW q \in Requests, NEW i \in Ids, Thumbing(q), req[q].id = i,
             req'[q].keys = req[q].keys
      PROVE  (rows'[i] # None /\ ~BeingDeleted(i)') \/ Head(req'[q].keys) \in lost'
  <2>1. CASE Head(req[q].keys) \in lost
    BY <1>1, <1>2, <2>1
  <2>2. CASE rows[i] # None /\ ~BeingDeleted(i)
    <3>1. CASE DeleteMedia(r, i)
      <4>1. q # r
        BY <1>2, <3>1 DEF DeleteMedia, Begin, Thumbing, Is
      <4>2. ThumbnailKey(rows[i].key) \in Raced(r, i, {"putThumb", "updateRow"})
        BY <1>2, <4>1 DEF Raced, Thumbing, Is
      <4>3. ThumbnailKey(rows[i].key) \in lost'
        BY <3>1, <4>2 DEF DeleteMedia
      <4> QED BY <1>2, <2>2, <4>3, ThumbsKey
    <3>2. CASE ~DeleteMedia(r, i)
      <4>1. ~(DeleteRow(r) /\ i = req[r].id)
        BY <2>2, DeletingIs DEF DeleteRow, At, Deleting, Is
      <4>2. ASSUME NEW n \in Ids, DeleteMedia(r, n) PROVE n # i
        BY <3>2, <4>2
      <4>3. rows'[i] # None
        BY <2>2, <4>1, StaysStored DEF Steps
      <4>4. ~BeingDeleted(i)'
        BY <2>2, <4>2, StaysUndeleted, DeleteDeletes, UploadDeletes DEF Steps
      <4> QED BY <4>3, <4>4
    <3> QED BY <3>1, <3>2
  <2> QED BY <1>2, <2>1, <2>2 DEF Unraced
<1>3. Thumbing(r)' =>
         \/ Thumbing(r) /\ req'[r].id = req[r].id /\ req'[r].keys = req[r].keys
         \/ \E i \in Ids : GenerateThumbnail(r, i) /\ ~DeleteMedia(r, i)
  <2>1. CASE PutFile(r) \/ PutThumbnail(r) \/ DeleteObjectFails(r)
    BY <2>1, WentTo DEF PutFile, PutThumbnail, DeleteObjectFails, At, Thumbing, Is
  <2>2. CASE DeleteObject(r)
    BY <2>2, Removed DEF Thumbing, Is
  <2>3. CASE DeleteRow(r) \/ UpdateRow(r) \/ InsertRow(r) \/ PutFails(r) \/ CutShort(r)
    BY <2>3, Ended DEF DeleteRow, UpdateRow, InsertRow, PutFails, CutShort, Thumbing, Is
  <2>4. CASE \E i \in Ids : DeleteMedia(r, i)
    BY <2>4, AboutRowTypes DEF Thumbing, Is
  <2>5. CASE \E content \in Contents, name \in Names : UploadMedia(r, content, name)
    <3>1. ASSUME NEW c, Begin(r, c), c.pc = "put" PROVE ~Thumbing(r)'
      BY <3>1 DEF Begin, TypeOK, Thumbing, Is
    <3> QED BY <2>5, <3>1 DEF UploadMedia
  <2> QED BY <2>1, <2>2, <2>3, <2>4, <2>5 DEF Steps, GoesOn, Fails
<1>4. ASSUME NEW i \in Ids, GenerateThumbnail(r, i), ~DeleteMedia(r, i)
      PROVE  /\ req'[r].id = i
             /\ (rows'[i] # None /\ ~BeingDeleted(i)') \/ Head(req'[r].keys) \in lost'
  <2>1. /\ req'[r].id = i /\ rows'[i] # None
        /\ req[r] = None /\ Head(req'[r].keys) = ThumbnailKey(rows[i].key)
    BY <1>4, AboutRowTypes DEF GenerateThumbnail
  <2>2. CASE \E q \in Requests : Deleting(q) /\ req[q].id = i
    <3>1. PICK q \in Requests : Deleting(q) /\ req[q].id = i
      BY <2>2
    <3>2. q # r
      BY <2>1, <3>1 DEF Deleting, Is
    <3>3. ThumbnailKey(rows[i].key) \in Raced(r, i, {"delete", "deleteRow"})
      BY <3>1, <3>2 DEF Raced, Deleting, Is
    <3> QED BY <1>4, <2>1, <3>3 DEF GenerateThumbnail
  <2>3. CASE ~BeingDeleted(i)
    <3>1. ~BeingDeleted(i)'
      BY <1>4, <2>3, StaysUndeleted DEF GoesOn
    <3> QED BY <2>1, <3>1
  <2> QED BY <2>2, <2>3, DeletingIs
<1>5. \A q \in Requests : q # r /\ Thumbing(q)' =>
         Thumbing(q) /\ req'[q].id = req[q].id /\ req'[q].keys = req[q].keys
  BY <1>1 DEF Thumbing, Is
<1>6. ASSUME NEW q \in Requests, NEW i \in Ids, Thumbing(q)', req'[q].id = i
      PROVE  (rows'[i] # None /\ ~BeingDeleted(i)') \/ Head(req'[q].keys) \in lost'
  BY <1>2, <1>3, <1>4, <1>5, <1>6
<1> QED BY <1>6 DEF Unraced, Thumbing, Is, BeingDeleted, DeletedBy

-----------------------------------------------------------------------------
(* What rows tell of is in the bucket.                                     *)

\* No step brings a row back from being deleted.
LEMMA StandingBefore ==
    ASSUME TypeOK, Sound, NEW r \in Requests, Steps(r)
    PROVE  \A i \in used : Standing(i)' => Standing(i)
<1> SUFFICES ASSUME NEW i \in used, Standing(i)' PROVE Standing(i)
  OBVIOUS
<1>1. RowsKept /\ ClashKeys \subseteq ClashKeys' /\ i \in Ids
  BY StepsTypes, ClashKeysGrow DEF TypeOK
<1>2. rows[i] # None /\ rows[i].key \notin ClashKeys /\ i \notin halted
  BY <1>1 DEF RowsKept, Standing
<1>3. BeingDeleted(i) => BeingDeleted(i)' \/ rows'[i] = None \/ i \in halted'
  <2>1. CASE GoesOn(r)
    <3>1. DeleteRow(r) /\ i = req[r].id => rows'[i] = None
      BY RowStepTypes
    <3> QED BY <1>1, <2>1, <3>1, StaysDeleted
  <2>2. CASE Fails(r)
    BY <1>1, <2>2, FailsDeleted
  <2> QED BY <1>1, <2>1, <2>2, DeleteDeletes, UploadDeletes DEF Steps
<1> QED BY <1>2, <1>3 DEF Standing

\* Steps that remove no object.
LEMMA PresentGrows ==
    ASSUME TypeOK, Sound, Present, NEW r \in Requests, Steps(r), objects \subseteq objects',
           \A i \in Ids : Standing(i)' =>
               \/ rows'[i] = rows[i] /\ Standing(i)
               \/ Owned(rows'[i]) \subseteq objects',
           \A q \in Requests : At(q, "insert")' =>
               \/ At(q, "insert") /\ req'[q].keys = req[q].keys
               \/ Head(req'[q].keys) \in objects',
           \A q \in Requests : At(q, "updateRow")' =>
               \/ At(q, "updateRow") /\ req'[q].keys = req[q].keys /\ req'[q].id = req[q].id
               \/ Head(req'[q].keys) \in objects'
    PROVE  Present'
<1>1. \A i \in Ids : Standing(i)' => Owned(rows'[i]) \subseteq objects'
  BY DEF Present
<1>2. ASSUME NEW q \in Requests, At(q, "insert")', Head(req'[q].keys) \notin ClashKeys'
      PROVE  Head(req'[q].keys) \in objects'
  <2>1. ClashKeys \subseteq ClashKeys'
    BY StepsTypes, ClashKeysGrow
  <2> QED BY <1>2, <2>1 DEF Present
<1>3. ASSUME NEW q \in Requests, NEW i \in Ids, At(q, "updateRow")', req'[q].id = i,
             Standing(i)'
      PROVE  Head(req'[q].keys) \in objects'
  <2>1. CASE At(q, "updateRow") /\ req'[q].keys = req[q].keys /\ req'[q].id = req[q].id
    <3>1. i \in used
      BY <1>3, <2>1 DEF Sound, Carries, At, Thumbing, Is
    <3>2. Standing(i)
      BY <1>3, <3>1, StandingBefore
    <3> QED BY <1>3, <2>1, <3>2 DEF Present
  <2> QED BY <1>3, <2>1
<1>4. Present' <=>
        /\ \A i \in Ids : Standing(i)' => Owned(rows'[i]) \subseteq objects'
        /\ \A q \in Requests : At(q, "insert")' /\ Head(req'[q].keys) \notin ClashKeys'
              => Head(req'[q].keys) \in objects'
        /\ \A q \in Requests, i \in Ids :
              At(q, "updateRow")' /\ req'[q].id = i /\ Standing(i)'
                  => Head(req'[q].keys) \in objects'
  BY DEF Present, Owned, ThumbnailKey
<1> QED BY <1>1, <1>2, <1>3, <1>4

\* No request is at either of these steps but those that were, or are now.
LEMMA PresentRequests ==
    ASSUME TypeOK, Sound, NEW r \in Requests, Steps(r)
    PROVE  /\ \A q \in Requests : q # r => req'[q] = req[q]
           /\ At(r, "insert")' =>
                 PutFile(r) /\ Head(req'[r].keys) \in objects'
           /\ At(r, "updateRow")' =>
                 PutThumbnail(r) /\ Head(req'[r].keys) \in objects'
<1>1. \A q \in Requests : q # r => req'[q] = req[q]
  BY OthersKept
<1>2. CASE PutFile(r) \/ PutThumbnail(r) \/ DeleteObjectFails(r)
  BY <1>1, <1>2, WentTo DEF PutFile, PutThumbnail, DeleteObjectFails, At
<1>3. CASE DeleteObject(r)
  BY <1>1, <1>3, Removed DEF At
<1>4. CASE DeleteRow(r) \/ UpdateRow(r) \/ InsertRow(r) \/ PutFails(r) \/ CutShort(r)
  BY <1>1, <1>4, Ended DEF DeleteRow, UpdateRow, InsertRow, PutFails, CutShort, At
<1>5. CASE \E i \in Ids : GenerateThumbnail(r, i) \/ DeleteMedia(r, i)
  BY <1>1, <1>5, AboutRowTypes DEF At
<1>6. CASE \E content \in Contents, name \in Names : UploadMedia(r, content, name)
  <2>1. ASSUME NEW c, Begin(r, c), c.pc = "put"
        PROVE  ~At(r, "insert")' /\ ~At(r, "updateRow")'
    BY <2>1 DEF Begin, TypeOK, At
  <2> QED BY <1>1, <1>6, <2>1 DEF UploadMedia
<1> QED BY <1>2, <1>3, <1>4, <1>5, <1>6 DEF Steps, GoesOn, Fails

LEMMA InsertPresent ==
    ASSUME TypeOK, Sound, Present, NEW r \in Requests, InsertRow(r)
    PROVE  Present'
<1>1. PICK n \in Ids \ used :
         rows' = [rows EXCEPT ![n] = [key |-> Head(req[r].keys),
                                      image |-> req[r].image, thumb |-> FALSE]]
  BY DEF InsertRow
<1>2. rows'[n].key = Head(req[r].keys) /\ ~rows'[n].thumb
  BY <1>1 DEF TypeOK
<1>3. \A i \in Ids : i # n => rows'[i] = rows[i]
  BY <1>1 DEF TypeOK
<1>4. /\ objects' = objects
      /\ Head(req[r].keys) \notin ClashKeys' => Head(req[r].keys) \in objects
  BY DEF InsertRow, history, ClashKeys, Present
<1>5. Standing(n)' => Owned(rows'[n]) \subseteq objects'
  BY <1>2, <1>4 DEF Owned, Standing
<1>6. \A i \in Ids : i # n /\ Standing(i)' => Standing(i)
  <2>1. \A i \in Ids : i # n /\ rows'[i] # None => i \in used
    BY <1>3, RowTypes
  <2> QED BY <2>1, StandingBefore DEF Steps, Standing
<1>7. /\ \A q \in Requests : q # r => req'[q] = req[q]
      /\ ~At(r, "insert")' /\ ~At(r, "updateRow")'
  BY Ended DEF InsertRow, At
<1>8. Steps(r)
  BY DEF Steps
<1> QED BY <1>3, <1>4, <1>5, <1>6, <1>7, <1>8, PresentGrows DEF At

\* Of the rows that are not being deleted, a removed object is none's.
LEMMA RemovePresent ==
    ASSUME TypeOK, Sound, Unique, Present, NEW r \in Requests, DeleteObject(r)
    PROVE  Present'
<1> DEFINE h == Head(req[r].keys)
<1>1. objects' = objects \ {h} /\ rows' = rows /\ used' = used /\ ClashKeys' = ClashKeys
  BY DEF DeleteObject, history, ClashKeys
<1>2. Deleting(r) /\ h \in Held(r)
  BY Removed DEF DeleteObject, At, Deleting, Is
<1>3. Plain(h) \notin ClashKeys =>
        /\ \A i \in Ids : rows[i] # None /\ rows[i].key = Plain(h) => i = req[r].id
        /\ \A q \in Requests : Uploading(q) => Head(req[q].keys) # Plain(h)
  BY <1>2 DEF Unique
<1>4. Steps(r)
  BY DEF Steps, GoesOn
<1>5. \A i \in Ids : i = req[r].id => BeingDeleted(i)
  BY <1>2, DeletingIs
<1> HIDE DEF h
<1>6. ASSUME NEW i \in Ids, Standing(i)'
      PROVE  rows[i] # None /\ rows[i].key # Plain(h) /\ Standing(i)
  <2>1. rows[i] # None /\ rows[i].key \notin ClashKeys
    BY <1>1, <1>6 DEF Standing
  <2>2. Standing(i)
    BY <1>4, <1>6, <2>1, RowTypes, StandingBefore
  <2> QED BY <1>3, <1>5, <2>1, <2>2 DEF Standing
<1>7. ASSUME NEW i \in Ids, Standing(i)'
      PROVE  Owned(rows[i]) \subseteq objects'
  <2>1. h \notin Owned(rows[i])
    BY <1>6, <1>7, OwnedKeys
  <2> QED BY <1>1, <1>6, <1>7, <2>1 DEF Present
<1>8. /\ \A q \in Requests : q # r => req'[q] = req[q]
      /\ ~At(r, "insert")' /\ ~At(r, "updateRow")'
  BY Removed DEF At
<1>9. ASSUME NEW q \in Requests, At(q, "insert")', Head(req'[q].keys) \notin ClashKeys'
      PROVE  Head(req'[q].keys) \in objects'
  <2>1. At(q, "insert") /\ req'[q] = req[q] /\ Uploading(q)
    BY <1>8, <1>9 DEF At, Uploading, Is
  <2>2. Plain(Head(req[q].keys)) = Head(req[q].keys)
    BY <2>1, OneKey, KeyFacts DEF Sound, Carries
  <2>3. Head(req[q].keys) # h
    BY <1>1, <1>3, <1>9, <2>1, <2>2
  <2> QED BY <1>1, <1>9, <2>1, <2>3 DEF Present
<1>10. ASSUME NEW q \in Requests, NEW i \in Ids, At(q, "updateRow")', req'[q].id = i,
              Standing(i)'
       PROVE  Head(req'[q].keys) \in objects'
  <2>1. At(q, "updateRow") /\ req'[q] = req[q] /\ Thumbing(q)
    BY <1>8, <1>10 DEF At, Thumbing, Is
  <2>2. rows[i] # None /\ rows[i].key # Plain(h) /\ Standing(i)
    BY <1>6, <1>10
  <2>3. Plain(Head(req[q].keys)) = rows[i].key
    BY <1>10, <2>1, <2>2, OneKey DEF Sound, Carries
  <2> QED BY <1>1, <1>10, <2>1, <2>2, <2>3 DEF Present
<1>11. Present' <=>
         /\ \A i \in Ids : Standing(i)' => Owned(rows'[i]) \subseteq objects'
         /\ \A q \in Requests : At(q, "insert")' /\ Head(req'[q].keys) \notin ClashKeys'
               => Head(req'[q].keys) \in objects'
         /\ \A q \in Requests, i \in Ids :
               At(q, "updateRow")' /\ req'[q].id = i /\ Standing(i)'
                   => Head(req'[q].keys) \in objects'
  BY DEF Present, Owned, ThumbnailKey
<1> QED BY <1>1, <1>7, <1>9, <1>10, <1>11

LEMMA UpdatePresent ==
    ASSUME TypeOK, Sound, Present, NEW r \in Requests, UpdateRow(r)
    PROVE  Present'
<1>1. /\ TypeOK' /\ RowsKept /\ UNCHANGED <<used, objects>>
      /\ \A i \in Ids : i # req[r].id => rows'[i] = rows[i]
      /\ rows'[req[r].id] = IF rows[req[r].id] = None THEN None
                            ELSE WithThumbnail(rows[req[r].id])
  BY RowStepTypes DEF UpdateRow
<1>2. Steps(r)
  BY DEF Steps, GoesOn
<1>3. /\ \A q \in Requests : q # r => req'[q] = req[q]
      /\ ~At(r, "insert")' /\ ~At(r, "updateRow")'
  BY Ended DEF UpdateRow, At
<1>4. \A i \in Ids : Standing(i)' => rows[i] # None /\ Standing(i)
  <2>1. \A i \in Ids : Standing(i)' => i \in used
    BY <1>1, NoNewRow DEF Standing
  <2> QED BY <1>2, <2>1, StandingBefore DEF Standing
<1>5. ASSUME NEW i \in Ids, Standing(i)', i = req[r].id
      PROVE  Owned(rows'[i]) \subseteq objects'
  <2>1. rows[i] # None /\ rows'[i] = WithThumbnail(rows[i]) /\ rows[i] \in Row
    BY <1>1, <1>4, <1>5, RowTypes
  <2>2. rows'[i].key = rows[i].key
    BY <2>1 DEF WithThumbnail, Row
  <2>3. rows[i].key \in objects /\ Head(req[r].keys) \in objects
    BY <1>4, <1>5 DEF Present, Owned, UpdateRow
  <2>4. ThumbnailKey(rows[i].key) = Head(req[r].keys)
    BY <1>5, <2>1, ThumbsKey DEF UpdateRow, At, Thumbing, Is
  <2> QED BY <1>1, <2>2, <2>3, <2>4 DEF Owned
<1> QED BY <1>1, <1>2, <1>3, <1>4, <1>5, PresentGrows DEF At

LEMMA OtherPresent ==
    ASSUME TypeOK, Sound, Present, NEW r \in Requests,
           \/ PutFile(r) \/ PutThumbnail(r) \/ DeleteRow(r) \/ Fails(r)
           \/ \E i \in Ids : GenerateThumbnail(r, i) /\ ~DeleteMedia(r, i)
           \/ \E n \in Ids : DeleteMedia(r, n)
           \/ \E content \in Contents, name \in Names : UploadMedia(r, content, name)
    PROVE  Present'
<1>1. objects \subseteq objects' /\ \A i \in Ids : rows'[i] # None => rows'[i] = rows[i]
  <2>1. CASE DeleteRow(r)
    <3>1. \A i \in Ids : rows'[i] = None \/ rows'[i] = rows[i]
      BY <2>1, RowStepTypes
    <3> QED BY <2>1, <3>1 DEF DeleteRow
  <2>2. CASE Fails(r)
    BY <2>2 DEF Fails, DeleteObjectFails, PutFails, CutShort
  <2> QED BY <2>1, <2>2 DEF PutFile, PutThumbnail, GenerateThumbnail, DeleteMedia, UploadMedia
<1>2. Steps(r)
  BY DEF Steps, GoesOn
<1>3. \A i \in Ids : Standing(i)' => rows'[i] = rows[i] /\ Standing(i)
  <2>1. \A i \in Ids : Standing(i)' => rows'[i] = rows[i] /\ i \in used
    BY <1>1, RowTypes DEF Standing
  <2> QED BY <1>2, <2>1, StandingBefore
<1>4. /\ \A q \in Requests : q # r => req'[q] = req[q]
      /\ At(r, "insert")' => Head(req'[r].keys) \in objects'
      /\ At(r, "updateRow")' => Head(req'[r].keys) \in objects'
  BY <1>2, PresentRequests
<1> QED BY <1>1, <1>2, <1>3, <1>4, PresentGrows DEF At

-----------------------------------------------------------------------------
(* What is in the bucket, someone answers for.                             *)

\* A row answers for object o.
Answers(i, o) == rows[i] # None /\ ~BeingDeleted(i) /\ o \in Owned(rows[i])

LEMMA AccountedIs ==
    Accounted <=> \A o \in objects :
        (\E i \in Ids : Answers(i, o)) \/ (\E r \in Requests : o \in Held(r)) \/ o \in lost
BY DEF Accounted, Answers

\* A step after which every old object is answered for, held by r, or lost, if
\* it was, and every new one is held by r or lost.
LEMMA AccountedKept ==
    ASSUME TypeOK, Sound, Accounted, NEW r \in Requests, Steps(r),
           \A o \in objects' \ objects : o \in Held(r)' \/ o \in lost',
           \A i \in Ids, o \in objects \cap objects' :
               Answers(i, o) => Answers(i, o)' \/ o \in Held(r)' \/ o \in lost',
           \A o \in objects \cap objects' :
               o \in Held(r) => \/ o \in Held(r)' \/ \E i \in Ids : Answers(i, o)'
                                \/ o \in lost'
    PROVE  Accounted'
<1>1. /\ \A q \in Requests : q # r => Held(q)' = Held(q)
      /\ lost \subseteq lost'
  BY OthersKept, StepsTypes DEF RowsKept
<1>2. ASSUME NEW o \in objects'
      PROVE  (\E i \in Ids : Answers(i, o)') \/ (\E q \in Requests : o \in Held(q)')
             \/ o \in lost'
  <2>1. CASE o \notin objects
    BY <1>2, <2>1
  <2>2. ASSUME o \in objects, NEW i \in Ids, Answers(i, o)
        PROVE  Answers(i, o)' \/ o \in Held(r)' \/ o \in lost'
    BY <1>2, <2>2
  <2>3. ASSUME o \in objects, NEW q \in Requests, o \in Held(q)
        PROVE  (\E i \in Ids : Answers(i, o)') \/ (\E p \in Requests : o \in Held(p)')
               \/ o \in lost'
    <3>1. CASE q # r
      BY <1>1, <2>3, <3>1
    <3>2. CASE q = r
      BY <1>2, <2>3, <3>2
    <3> QED BY <3>1, <3>2
  <2>4. o \in objects =>
          (\E i \in Ids : Answers(i, o)) \/ (\E q \in Requests : o \in Held(q)) \/ o \in lost
    BY AccountedIs
  <2> QED BY <1>1, <2>1, <2>2, <2>3, <2>4
<1>3. Accounted' <=> \A o \in objects' :
        (\E i \in Ids : Answers(i, o)') \/ (\E q \in Requests : o \in Held(q)')
        \/ o \in lost'
  BY DEF Accounted, Answers, Owned, ThumbnailKey
<1> QED BY <1>2, <1>3

\* Steps that change no row: an upload or a thumbnail begins, puts its object,
\* or a deletion takes its row's objects over and removes one.
LEMMA RequestAccounted ==
    ASSUME TypeOK, Sound, Accounted, NEW r \in Requests,
           \/ PutFile(r) \/ PutThumbnail(r) \/ DeleteObject(r)
           \/ \E i \in Ids : GenerateThumbnail(r, i) /\ ~DeleteMedia(r, i)
           \/ \E n \in Ids : DeleteMedia(r, n)
           \/ \E content \in Contents, name \in Names : UploadMedia(r, content, name)
    PROVE  Accounted'
<1>1. rows' = rows /\ Steps(r)
  BY DEF Steps, GoesOn, PutFile, PutThumbnail, DeleteObject, GenerateThumbnail, DeleteMedia,
         UploadMedia
<1>2. CASE PutFile(r) \/ PutThumbnail(r)
  <2>1. Held(r)' = Held(r) /\ Head(req[r].keys) \in Held(r)
    BY <1>2, WentTo, OneKey DEF PutFile, PutThumbnail, At, Uploading, Thumbing, Is
  <2>2. objects' = objects \cup {Head(req[r].keys)}
    BY <1>2 DEF PutFile, PutThumbnail
  <2>3. \A i \in Ids : BeingDeleted(i)' => BeingDeleted(i)
    BY <1>2, StaysUndeleted DEF GoesOn
  <2>4. \A i \in Ids, o \in objects : Answers(i, o) => Answers(i, o)'
    BY <1>1, <2>3 DEF Answers, Owned
  <2> QED BY <1>1, <2>1, <2>2, <2>4, AccountedKept
<1>3. CASE DeleteObject(r)
  <2>1. Held(r) = {Head(req[r].keys)} \cup Held(r)'
    BY <1>3, Removed
  <2>2. objects' = objects \ {Head(req[r].keys)}
    BY <1>3 DEF DeleteObject
  <2>3. \A i \in Ids : BeingDeleted(i)' => BeingDeleted(i)
    BY <1>3, StaysUndeleted DEF GoesOn
  <2>4. \A i \in Ids, o \in objects : Answers(i, o) => Answers(i, o)'
    BY <1>1, <2>3 DEF Answers, Owned
  <2> QED BY <1>1, <2>1, <2>2, <2>4, AccountedKept
<1>4. ASSUME NEW n \in Ids, DeleteMedia(r, n) PROVE Accounted'
  <2>1. Held(r) = {} /\ Held(r)' = Owned(rows[n]) /\ objects' = objects
    BY <1>4, AboutRowTypes, AboutRowHeld DEF Held, DeleteMedia
  <2>2. \A i \in Ids : BeingDeleted(i)' => BeingDeleted(i) \/ i = n
    BY <1>4, DeleteDeletes
  <2>3. \A i \in Ids, o \in objects : Answers(i, o) => Answers(i, o)' \/ o \in Held(r)'
    BY <1>1, <2>1, <2>2 DEF Answers, Owned
  <2> QED BY <1>1, <2>1, <2>3, AccountedKept
<1>5. CASE \E i \in Ids : GenerateThumbnail(r, i) /\ ~DeleteMedia(r, i)
  <2>1. Held(r) = {} /\ objects' = objects
    BY <1>5, AboutRowTypes DEF Held, GenerateThumbnail
  <2>2. \A i \in Ids : BeingDeleted(i)' => BeingDeleted(i)
    BY <1>5, StaysUndeleted DEF GoesOn
  <2>3. \A i \in Ids, o \in objects : Answers(i, o) => Answers(i, o)'
    BY <1>1, <2>2 DEF Answers, Owned
  <2> QED BY <1>1, <2>1, <2>3, AccountedKept
<1>6. CASE \E content \in Contents, name \in Names : UploadMedia(r, content, name)
  <2>1. Held(r) = {} /\ objects' = objects
    BY <1>6 DEF UploadMedia, Begin, Held
  <2>2. \A i \in Ids : BeingDeleted(i)' => BeingDeleted(i)
    BY <1>6, UploadDeletes
  <2>3. \A i \in Ids, o \in objects : Answers(i, o) => Answers(i, o)'
    BY <1>1, <2>2 DEF Answers, Owned
  <2> QED BY <1>1, <2>1, <2>3, AccountedKept
<1> QED BY <1>2, <1>3, <1>4, <1>5, <1>6

\* The new row answers for the file its upload held.
LEMMA InsertAccounted ==
    ASSUME TypeOK, Sound, Accounted, NEW r \in Requests, InsertRow(r)
    PROVE  Accounted'
<1> DEFINE k == Head(req[r].keys)
           row == [key |-> k, image |-> req[r].image, thumb |-> FALSE]
<1>1. PICK n \in Ids \ used : rows' = [rows EXCEPT ![n] = row]
  BY DEF InsertRow
<1>2. Held(r) = {k} /\ req[r] # None /\ k \in Key
  BY OneKey DEF InsertRow, At, Uploading, Is
<1>3. row \in Row
  <2>1. req[r].image \in BOOLEAN
    BY <1>2, RequestTypes DEF Request
  <2> QED BY <1>2, <2>1 DEF Row
<1>4. rows'[n] = row /\ rows'[n] # None /\ k \in Owned(rows'[n])
  BY <1>1, <1>3, NoneIsNothing DEF TypeOK, Owned
<1> HIDE DEF k, row
<1>5. \A i \in Ids : rows[i] # None => rows'[i] = rows[i]
  BY <1>1 DEF TypeOK
<1>6. /\ \A q \in Requests : q # r => req'[q] = req[q]
      /\ \A i \in Ids : BeingDeleted(i)' <=> BeingDeleted(i)
  BY UploadDeletes
<1>7. ~BeingDeleted(n)
  BY <1>1, DeletingIs DEF Sound, Carries
<1>8. \A o \in objects : o \in Held(r) => Answers(n, o)'
  BY <1>2, <1>4, <1>6, <1>7 DEF Answers, Owned, ThumbnailKey
<1>9. \A i \in Ids, o \in objects : Answers(i, o) => Answers(i, o)'
  BY <1>5, <1>6 DEF Answers, Owned
<1>10. objects' = objects /\ Steps(r)
  BY DEF InsertRow, Steps
<1> QED BY <1>8, <1>9, <1>10, AccountedKept

\* What a deletion has left of a row's objects is lost; a row that is told of its
\* thumbnail answers for it.
LEMMA RowStepAccounted ==
    ASSUME TypeOK, Sound, Spent, Unraced, Accounted, NEW r \in Requests,
           DeleteRow(r) \/ UpdateRow(r)
    PROVE  Accounted'
<1>1. /\ req[r].id \in Ids
      /\ \A i \in Ids : i # req[r].id => rows'[i] = rows[i]
      /\ objects' = objects /\ lost' = lost
  BY RowStepTypes DEF DeleteRow, UpdateRow, history
<1>2. Steps(r)
  BY DEF Steps, GoesOn
<1>3. \A i \in Ids : BeingDeleted(i)' => BeingDeleted(i)
  BY StaysUndeleted DEF GoesOn
<1>4. CASE DeleteRow(r)
  <2>1. Deleting(r) /\ Held(r) \subseteq lost
    BY <1>4 DEF DeleteRow, At, Deleting, Is, Spent
  <2>2. BeingDeleted(req[r].id)
    BY <2>1, DeletingIs
  <2>3. \A i \in Ids, o \in objects : Answers(i, o) => Answers(i, o)'
    BY <1>1, <1>3, <2>2 DEF Answers, Owned
  <2> QED BY <1>1, <1>2, <2>1, <2>3, AccountedKept
<1>5. CASE UpdateRow(r)
  <2>1. PICK n \in Ids : n = req[r].id
    BY <1>1
  <2>2. Thumbing(r) /\ Carries(r) /\ Held(r) = {Head(req[r].keys)}
    BY <1>5, OneKey DEF UpdateRow, At, Thumbing, Is, Sound
  <2>3. (rows[n] # None /\ ~BeingDeleted(n)) \/ Held(r) \subseteq lost
    BY <2>1, <2>2 DEF Unraced
  <2>4. rows[n] # None => /\ rows'[n] = WithThumbnail(rows[n])
                          /\ rows[n] \in Row /\ rows[n].image
    BY <1>5, <2>1, <2>2, RowStepTypes, RowTypes DEF Carries
  <2>5. rows[n] # None => /\ rows'[n].key = rows[n].key /\ rows'[n].thumb
                          /\ rows'[n] \in Row /\ rows'[n] # None
    BY <2>4, NoneIsNothing DEF WithThumbnail, Row
  <2>6. rows[n] # None => Owned(rows[n]) \subseteq Owned(rows'[n])
    BY <2>5 DEF Owned
  <2>7. rows[n] # None => Held(r) \subseteq Owned(rows'[n])
    BY <2>1, <2>2, <2>5, ThumbsKey DEF Owned
  <2>8. \A o \in objects : o \in Held(r) => Answers(n, o)' \/ o \in lost
    BY <1>3, <2>3, <2>5, <2>7 DEF Answers, Owned
  <2>9. \A i \in Ids, o \in objects : Answers(i, o) => Answers(i, o)'
    <3> SUFFICES ASSUME NEW i \in Ids, NEW o \in objects, Answers(i, o)
                 PROVE  Answers(i, o)'
      OBVIOUS
    <3>1. CASE i = n
      BY <1>3, <2>5, <2>6, <3>1 DEF Answers, Owned
    <3>2. CASE i # n
      BY <1>1, <1>3, <2>1, <3>2 DEF Answers, Owned
    <3> QED BY <3>1, <3>2
  <2> QED BY <1>1, <1>2, <2>8, <2>9, AccountedKept
<1> QED BY <1>4, <1>5

\* What a request that fails has put, or not removed, is lost.
LEMMA FailAccounted ==
    ASSUME TypeOK, Sound, Accounted, NEW r \in Requests, Fails(r)
    PROVE  Accounted'
<1>1. rows' = rows /\ lost' = lost \cup Held(r) /\ Steps(r)
  BY DEF Fails, DeleteObjectFails, PutFails, CutShort, Failure, Steps
<1>2. objects' \ objects \subseteq Held(r)
  <2>1. CASE PutFails(r)
    <3>1. Head(req[r].keys) \in Held(r)
      BY <2>1, OneKey DEF PutFails, At, Uploading, Thumbing, Is
    <3> QED BY <2>1, <3>1 DEF PutFails
  <2>2. CASE DeleteObjectFails(r) \/ CutShort(r)
    BY <2>2 DEF DeleteObjectFails, CutShort
  <2> QED BY <2>1, <2>2 DEF Fails
<1>3. \A i \in Ids : BeingDeleted(i)' => BeingDeleted(i)
  BY StaysUndeleted
<1>4. \A i \in Ids, o \in objects : Answers(i, o) => Answers(i, o)'
  BY <1>1, <1>3 DEF Answers, Owned
<1> QED BY <1>1, <1>2, <1>4, AccountedKept

-----------------------------------------------------------------------------
(* The invariant.                                                          *)

LEMMA InitIInv == Init => IInv
<1> SUFFICES ASSUME Init PROVE IInv
  OBVIOUS
<1>1. TypeOK
  <2>1. 0 \in Times /\ 0 \in 0..MaxFailures
    BY MediaAssumption DEF Times
  <2>2. rows \in [Ids -> Row \cup {None}] /\ req \in [Requests -> Request \cup {None}]
    BY DEF Init
  <2>3. {i \in Ids : rows[i] # None} = {}
    BY DEF Init
  <2> QED BY <2>1, <2>2, <2>3 DEF Init, TypeOK
<1>2. Sound
  BY DEF Init, Sound, Carries, Held, Uploading, Thumbing, Deleting, Is, At
<1>3. Unique /\ Spent /\ Present /\ Unraced /\ Accounted
  BY DEF Init, Unique, Spent, Present, Standing, Unraced, Accounted, Uploading, Thumbing,
         Deleting, Is, At
<1> QED BY <1>1, <1>2, <1>3 DEF IInv

LEMMA StepIInv ==
    ASSUME IInv, NEW r \in Requests, Steps(r)
    PROVE  IInv'
<1>1. TypeOK /\ Sound /\ Unique /\ Present /\ Spent /\ Unraced /\ Accounted
  BY DEF IInv
<1>2. TypeOK'
  BY <1>1, StepsTypes
<1>3. Sound'
  BY <1>1, UploadSound, InsertSound, RequestStepSound, AboutRowSound, RowStepSound
     DEF Steps, GoesOn, Fails
<1>4. Unique'
  BY <1>1, UploadUnique, InsertUnique, DeleteUnique, OtherUnique DEF Steps, GoesOn, Fails
<1>5. Present'
  BY <1>1, InsertPresent, RemovePresent, UpdatePresent, OtherPresent DEF Steps, GoesOn
<1>6. Spent' /\ Unraced'
  BY <1>1, SpentKept, UnracedKept
<1>7. Accounted'
  BY <1>1, RequestAccounted, InsertAccounted, RowStepAccounted, FailAccounted
     DEF Steps, GoesOn
<1> QED BY <1>2, <1>3, <1>4, <1>5, <1>6, <1>7 DEF IInv

LEMMA NextIInv == IInv /\ [Next]_vars => IInv'
<1> SUFFICES ASSUME IInv, [Next]_vars PROVE IInv'
  OBVIOUS
<1>1. ASSUME NEW r \in Requests,
             \/ \E content \in Contents, name \in Names : UploadMedia(r, content, name)
             \/ PutFile(r) \/ InsertRow(r)
             \/ \E i \in Ids : DeleteMedia(r, i) \/ GenerateThumbnail(r, i)
             \/ DeleteObject(r) \/ DeleteObjectFails(r) \/ DeleteRow(r)
             \/ PutThumbnail(r) \/ UpdateRow(r)
             \/ PutFails(r) \/ CutShort(r)
      PROVE  IInv'
  BY <1>1, StepIInv DEF Steps, GoesOn, Fails
<1>2. ASSUME UNCHANGED <<rows, objects, used, req, history>>, TypeOK', Sound'
      PROVE  IInv'
  BY <1>2 DEF IInv, Unique, Spent, Present, Standing, Unraced, Accounted, Uploading, Thumbing,
              Deleting, Is, At, BeingDeleted, DeletedBy, Owned, Held, Plain, ThumbnailKey,
              ClashKeys, history
<1>3. CASE Tick
  BY <1>2, <1>3, TickTypes, TickSound DEF Tick, IInv
<1>4. CASE UNCHANGED vars
  <2>1. RowsKept /\ TypeOK'
    BY <1>4 DEF vars, history, RowsKept, IInv, TypeOK
  <2>2. Sound'
    <3>1. SoundRows'
      BY <1>4, <2>1, NoNewRow, SoundRowsKept DEF vars, IInv
    <3> QED BY <1>4, <2>1, <3>1, CarriesOther DEF vars, IInv, Sound, SoundRows
  <2> QED BY <1>2, <1>4, <2>1, <2>2 DEF vars
<1> QED BY <1>1, <1>3, <1>4 DEF Next

LEMMA Invariant == Spec => []IInv
BY InitIInv, NextIInv, PTL DEF Spec

-----------------------------------------------------------------------------
(* Theorems.                                                               *)

\* The variables keep their types; among them, only an image or a video ever
\* has a thumbnail, although the check is of a row read earlier:
\* MediaService.generateThumbnail.
THEOREM TypeCorrect == Spec => []TypeOK
<1>1. IInv => TypeOK
  BY DEF IInv
<1> QED BY <1>1, Invariant, PTL

\* Whatever fails, a row leads to its objects until its own deletion begins, if no
\* other upload was given its key: the order of the calls of uploadMedia,
\* generateThumbnail and delete.
THEOREM RowsLeadToObjects == Spec => []RowsHaveObjects
<1>1. \A key : Clashed(key) <=> key \in ClashKeys
  BY DEF Clashed, ClashKeys
<1>2. IInv => RowsHaveObjects
  BY <1>1 DEF IInv, RowsHaveObjects, Present, Standing
<1> QED BY <1>2, Invariant, PTL

\* The bucket holds nothing that no row or request knows of, but what a request
\* that failed held and thumbnails of files that were being deleted meanwhile: the
\* order of the steps of uploadMedia and delete.
THEOREM NothingOrphaned == Spec => []NoOrphanObjects
<1>1. IInv => NoOrphanObjects
  BY DEF IInv, NoOrphanObjects, Accounted
<1> QED BY <1>1, Invariant, PTL
=============================================================================
