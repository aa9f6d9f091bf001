------------------------------ MODULE CmsProofs ------------------------------
(***************************************************************************)
(* Theorems about Cms for every set of ids, titles, numbers and requests,  *)
(* every page size and however many handlers are cut short.                *)
(***************************************************************************)
EXTENDS Cms, FiniteSetTheorems, TLAPS

\* A row with this status may be given that one: neither into nor out of ARCHIVED.
Agrees(row, status) ==
    status # None => (row.status = "ARCHIVED" <=> status = "ARCHIVED")

\* What is published is dated, and no date lies in the future.
Dated(data) ==
    /\ data.status = "PUBLISHED" => data.publishedAt # None
    /\ data.publishedAt # None => data.publishedAt <= now

\* What a handler holds at its next await.  The status it will write was judged
\* against the row it read; it still agrees with the row, if there is one.
Carries(r) ==
    LET c == req[r] IN
    /\ c.pc = "write" =>
          /\ c.key \in ProgramIds \cap used /\ Dated(c.data)
          /\ c.op = "publish" => c.data.publishedAt \in Times
          /\ programs[c.key] # None => Agrees(programs[c.key], c.data.status)
    /\ c.pc = "insertEpisode" =>
          /\ c.data.program \in ProgramIds /\ c.data.title \in Titles
          /\ c.data.number \in Numbers /\ c.data.status \in ContentStatus
    /\ c.pc \in {"checkNumber", "writeEpisode"} =>
          /\ c.key \in EpisodeIds \cap used
          /\ episodes[c.key] # None => Agrees(episodes[c.key], c.data.status)
    /\ c.pc = "emit" =>
          /\ c.op \in {"create", "update"} => c.key \in Ids /\ c.payload \in Titles
          /\ c.op = "publish" => c.key \in ProgramIds /\ c.payload \in Times

\* The database gives no id twice.
Issued ==
    /\ \A p \in ProgramIds : programs[p] # None => p \in used
    /\ \A e \in EpisodeIds : episodes[e] # None => e \in used

TopicTypes ==
    /\ created \in [Ids -> Seq(Titles)]
    /\ updated \in [Ids -> Seq(Titles)]
    /\ published \in [ProgramIds -> Seq(Times)]

IInv == /\ TypeOK /\ EpisodesHaveProgram /\ PublishedHasDate /\ Issued
        /\ \A r \in Requests : Carries(r)

\* What no step undoes, whatever the handler had read: ids are not handed out
\* again, time passes, rows stay in or out of ARCHIVED and keep their dates.
Same(old, new) ==
    new # None => old # None /\ (old.status = "ARCHIVED" <=> new.status = "ARCHIVED")
KeepsDate(old, new) ==
    old # None /\ new # None /\ old.publishedAt # None => new.publishedAt # None

Kept ==
    /\ used \subseteq used' /\ now <= now'
    /\ \A p \in ProgramIds \cap used : Same(programs[p], programs'[p])
    /\ \A p \in ProgramIds \cap used : KeepsDate(programs[p], programs'[p])
    /\ \A e \in EpisodeIds \cap used : Same(episodes[e], episodes'[e])

-----------------------------------------------------------------------------
(* What handlers hold.                                                     *)

LEMMA StatusTypes ==
    None \notin ContentStatus /\ None \notin Times /\ Times \subseteq Nat
BY CmsAssumption DEF ContentStatus, Times

\* The rows of the tables.
LEMMA ProgramType ==
    ASSUME TypeOK, NEW p \in ProgramIds, programs[p] # None
    PROVE  programs[p] \in Program
BY DEF TypeOK

LEMMA EpisodeType ==
    ASSUME TypeOK, NEW e \in EpisodeIds, episodes[e] # None
    PROVE  episodes[e] \in Episode
BY DEF TypeOK

LEMMA RowsAreRows ==
    /\ \A row \in Program : row # None
    /\ \A row \in Episode : row # None
BY NoneIsNoRow


\* A handler that ends holds nothing.
LEMMA NoRequestType == NoRequest \in Request
BY DEF NoRequest, NoData, Request, Data, Pcs, Ops

LEMMA IdleCarries ==
    ASSUME NEW r \in Requests, req'[r].pc = "idle" PROVE Carries(r)'
BY DEF Carries

\* A handler on its way to its event.
LEMMA EmitType ==
    ASSUME NEW op \in {"create", "update", "publish"}, NEW key \in Ids,
           NEW payload \in Titles \cup Times
    PROVE  [NoRequest EXCEPT !.pc = "emit", !.op = op, !.key = key, !.payload = payload]
              \in Request
BY NoRequestType DEF NoRequest, Request, Pcs, Ops

LEMMA EmitCarries ==
    ASSUME NEW r \in Requests, req'[r].pc = "emit",
           \/ req'[r].op \in {"create", "update"} /\ req'[r].key \in Ids
                                                  /\ req'[r].payload \in Titles
           \/ req'[r].op = "publish" /\ req'[r].key \in ProgramIds
                                     /\ req'[r].payload \in Times
    PROVE  Carries(r)'
BY DEF Carries

\* What a handler holds stays right for as long as the tables are kept.
LEMMA CarriesStays ==
    ASSUME TypeOK, Kept, now' \in Times, NEW r \in Requests, Carries(r), req'[r] = req[r]
    PROVE  Carries(r)'
<1>1. CASE req[r].pc = "write"
  <2>1. Dated(req[r].data)'
    <3>1. req[r].data.publishedAt # None => req[r].data.publishedAt \in Times
      BY DEF TypeOK, Request, Data
    <3>2. now \in Nat /\ now' \in Nat /\ now <= now'
      BY StatusTypes DEF TypeOK, Kept
    <3>3. Dated(req[r].data)
      BY <1>1 DEF Carries
    <3>4. \A t \in Times : t <= now => t <= now'
      <4> SUFFICES ASSUME NEW t \in Times, t <= now PROVE t <= now'
        OBVIOUS
      <4>1. t \in Nat
        BY StatusTypes
      <4> QED BY <4>1, <3>2
    <3> QED BY <3>1, <3>3, <3>4 DEF Dated
  <2>2. programs'[req[r].key] # None => Agrees(programs'[req[r].key], req[r].data.status)
    BY <1>1 DEF Carries, Kept, Same, Agrees
  <2> QED BY <1>1, <2>1, <2>2 DEF Carries, Kept, Agrees
<1>2. CASE req[r].pc \in {"checkNumber", "writeEpisode"}
  BY <1>2 DEF Carries, Kept, Same, Agrees
<1>3. CASE req[r].pc \notin {"write", "checkNumber", "writeEpisode"}
  BY <1>3 DEF Carries
<1> QED BY <1>1, <1>2, <1>3

\* The invariant after a step that gives request r a new state.
LEMMA RequestMoves ==
    ASSUME IInv, Kept, TypeOK', EpisodesHaveProgram', PublishedHasDate', Issued',
           NEW r \in Requests, NEW c, req' = [req EXCEPT ![r] = c], Carries(r)'
    PROVE  IInv'
<1>1. ASSUME NEW s \in Requests PROVE Carries(s)'
  BY CarriesStays DEF IInv, TypeOK
<1> QED BY <1>1 DEF IInv

\* The invariant after a step that leaves tables and clock alone.
LEMMA TablesStay ==
    ASSUME IInv, UNCHANGED <<tables, now>>, served' \in Nat, TopicTypes',
           NEW r \in Requests, NEW c \in Request, req' = [req EXCEPT ![r] = c], Carries(r)'
    PROVE  IInv' /\ Kept
<1>1. Kept
  BY StatusTypes DEF Kept, Same, KeepsDate, tables, IInv, TypeOK, Issued
<1>2. TypeOK' /\ EpisodesHaveProgram' /\ PublishedHasDate' /\ Issued'
  BY DEF IInv, TypeOK, EpisodesHaveProgram, PublishedHasDate, Issued, TopicTypes, tables
<1> QED BY <1>1, <1>2, RequestMoves

-----------------------------------------------------------------------------
(* Programs.                                                               *)

LEMMA InitIInv == Init => IInv
<1> SUFFICES ASSUME Init PROVE IInv
  OBVIOUS
<1>1. TypeOK
  BY NoRequestType, CmsAssumption DEF Init, TypeOK, Times
<1>2. \A r \in Requests : Carries(r)
  BY DEF Init, Carries, NoRequest
<1> QED BY <1>1, <1>2 DEF Init, IInv, EpisodesHaveProgram, PublishedHasDate, Issued

\* Accepting a request needs its first step to be counted only.
LEMMA ServedType == ASSUME TypeOK, NEW r, Accept(r) PROVE served' \in Nat
BY DEF TypeOK, Accept

LEMMA CreateProgramIInv ==
    ASSUME IInv, NEW r \in Requests, NEW p \in ProgramIds, CreateProgram(r, p)
    PROVE  IInv' /\ Kept
<1> USE DEF IInv
<1>1. PICK title \in Titles, status \in ContentStatus :
          /\ programs' = [programs EXCEPT ![p] =
                [title |-> title, status |-> status,
                 publishedAt |-> IF status = "PUBLISHED" THEN now ELSE None]]
          /\ ToEmit(r, "create", p, title)
  BY DEF CreateProgram
<1> DEFINE row == programs'[p]
<1>2. /\ row = [title |-> title, status |-> status,
                publishedAt |-> IF status = "PUBLISHED" THEN now ELSE None]
      /\ row \in Program /\ row # None
  BY <1>1, RowsAreRows DEF TypeOK, Program
<1>3. programs[p] = None /\ p \notin used /\ used' = used \cup {p}
  BY DEF CreateProgram, Issued
<1>4. UNCHANGED <<episodes, now, topics>> /\ served' \in Nat
  BY ServedType DEF CreateProgram
<1>5. \A q \in ProgramIds : programs'[q] = IF q = p THEN row ELSE programs[q]
  BY <1>1 DEF TypeOK
<1> DEFINE c == [NoRequest EXCEPT !.pc = "emit", !.op = "create", !.key = p, !.payload = title]
<1>6. c \in Request /\ req' = [req EXCEPT ![r] = c]
  BY <1>1, EmitType DEF ToEmit, Ids
<1>7. Carries(r)'
  <2>1. req'[r] = c
    BY <1>6 DEF TypeOK
  <2> QED BY <2>1, EmitCarries DEF NoRequest, Ids
<1>8. TypeOK'
  BY <1>1, <1>2, <1>3, <1>4, <1>6 DEF TypeOK, topics, Ids
<1>9. PublishedHasDate'
  <2>1. now \in Times /\ now <= now /\ now # None
    BY StatusTypes DEF TypeOK
  <2>2. /\ row.status = "PUBLISHED" => row.publishedAt # None
        /\ row.publishedAt # None => row.publishedAt <= now
    BY <1>2, <2>1
  <2> HIDE DEF row
  <2> QED BY <1>4, <1>5, <2>2 DEF PublishedHasDate
<1>10. EpisodesHaveProgram' /\ Issued'
  BY <1>2, <1>3, <1>4, <1>5, EpisodeType DEF EpisodesHaveProgram, Issued, Episode
<1>11. Kept
  <2>1. now <= now'
    BY <1>4, StatusTypes DEF TypeOK
  <2> HIDE DEF row
  <2> QED BY <1>3, <1>4, <1>5, <2>1 DEF Kept, Same, KeepsDate
<1> HIDE DEF c
<1> QED BY <1>6, <1>7, <1>8, <1>9, <1>10, <1>11, RequestMoves

\* A handler that read a program and goes on to its write.
LEMMA ReadsProgram ==
    ASSUME IInv, UNCHANGED <<tables, now, topics>>, served' \in Nat,
           NEW r \in Requests, NEW p \in ProgramIds, programs[p] # None,
           NEW c \in Request, c.pc = "write", c.key = p,
           Dated(c.data), Agrees(programs[p], c.data.status),
           c.op = "publish" => c.data.publishedAt \in Times,
           req' = [req EXCEPT ![r] = c]
    PROVE  IInv' /\ Kept
<1>1. Carries(r)'
  <2>1. req'[r] = c
    BY DEF IInv, TypeOK
  <2>2. p \in used
    BY DEF IInv, Issued
  <2>3. UNCHANGED <<programs, used, now>>
    BY DEF tables
  <2> QED BY <2>1, <2>2, <2>3 DEF Carries, Dated, Agrees
<1>2. TopicTypes' /\ UNCHANGED <<tables, now>>
  BY DEF IInv, TypeOK, TopicTypes, topics, tables
<1> QED BY <1>1, <1>2, TablesStay

\* A date that was read is no later than now.
LEMMA DateRead ==
    ASSUME IInv, NEW p \in ProgramIds, programs[p] # None,
           NEW status \in ContentStatus \cup {None}
    PROVE  LET date == DateToWrite(programs[p], status)
           IN /\ date \in Times \cup {None}
              /\ status = "PUBLISHED" => date # None
              /\ date # None => date <= now
<1>1. programs[p].publishedAt \in Times \cup {None}
  BY ProgramType DEF IInv, Program
<1>2. now \in Times /\ now <= now
  BY StatusTypes DEF IInv, TypeOK
<1> QED BY <1>1, <1>2, StatusTypes DEF DateToWrite, IInv, PublishedHasDate

LEMMA UpdateProgramIInv ==
    ASSUME IInv, NEW r \in Requests, NEW p \in ProgramIds, UpdateProgram(r, p)
    PROVE  IInv' /\ Kept
<1>1. PICK title \in Titles \cup {None}, status \in ContentStatus \cup {None} :
          /\ status # None => ValidTransition(programs[p].status, status)
          /\ req' = [req EXCEPT ![r] =
                [NoRequest EXCEPT
                   !.pc = "write", !.op = "update", !.key = p,
                   !.data = [NoData EXCEPT
                      !.title = title, !.status = status,
                      !.publishedAt = DateToWrite(programs[p], status)],
                   !.changed = \/ Changes(title, programs[p].title)
                               \/ Changes(status, programs[p].status)]]
  BY DEF UpdateProgram
<1> DEFINE date == DateToWrite(programs[p], status)
           data == [NoData EXCEPT !.title = title, !.status = status, !.publishedAt = date]
           changed == \/ Changes(title, programs[p].title)
                      \/ Changes(status, programs[p].status)
<1>2. programs[p] # None /\ UNCHANGED <<tables, now, topics>> /\ served' \in Nat
  BY ServedType DEF UpdateProgram, IInv
<1>3. /\ date \in Times \cup {None}
      /\ status = "PUBLISHED" => date # None
      /\ date # None => date <= now
  BY <1>2, DateRead
<1>4. changed \in BOOLEAN
  BY DEF Changes
<1>5. Agrees(programs[p], status)
  BY <1>1 DEF Agrees, ValidTransition
<1> HIDE DEF date, changed
<1>6. data \in Data /\ Dated(data) /\ data.status = status
  BY <1>3 DEF Data, NoData, Dated
<1> DEFINE c == [NoRequest EXCEPT !.pc = "write", !.op = "update", !.key = p,
                                  !.data = data, !.changed = changed]
<1>7. req' = [req EXCEPT ![r] = c]
  BY <1>1 DEF date, changed
<1> HIDE DEF data
<1>8. c \in Request /\ c.pc = "write" /\ c.op = "update" /\ c.key = p /\ c.data = data
  BY <1>4, <1>6, NoRequestType DEF NoRequest, Request, Pcs, Ops, Ids
<1> HIDE DEF c
<1> QED BY <1>2, <1>5, <1>6, <1>7, <1>8, ReadsProgram

LEMMA PublishProgramIInv ==
    ASSUME IInv, NEW r \in Requests, NEW p \in ProgramIds, PublishProgram(r, p)
    PROVE  IInv' /\ Kept
<1> DEFINE data == [NoData EXCEPT !.status = "PUBLISHED", !.publishedAt = now]
           c == [NoRequest EXCEPT !.pc = "write", !.op = "publish", !.key = p,
                                  !.data = data]
<1>1. programs[p] # None /\ UNCHANGED <<tables, now, topics>> /\ served' \in Nat
  BY ServedType DEF PublishProgram, IInv
<1>2. now \in Times /\ now <= now /\ now # None
  BY StatusTypes DEF IInv, TypeOK
<1>3. data \in Data /\ data.status = "PUBLISHED" /\ data.publishedAt = now
  BY <1>2 DEF Data, NoData, ContentStatus
<1>4. Dated(data) /\ Agrees(programs[p], data.status)
  BY <1>2, <1>3 DEF Dated, Agrees, PublishProgram
<1>5. req' = [req EXCEPT ![r] = c]
  BY DEF PublishProgram
<1> HIDE DEF data
<1>6. c \in Request /\ c.pc = "write" /\ c.key = p /\ c.data = data
  BY <1>3, NoRequestType DEF NoRequest, Request, Pcs, Ops, Ids
<1> HIDE DEF c
<1> QED BY <1>1, <1>2, <1>3, <1>4, <1>5, <1>6, ReadsProgram

LEMMA UnpublishProgramIInv ==
    ASSUME IInv, NEW r \in Requests, NEW p \in ProgramIds, UnpublishProgram(r, p)
    PROVE  IInv' /\ Kept
<1> DEFINE data == [NoData EXCEPT !.status = "DRAFT"]
           c == [NoRequest EXCEPT !.pc = "write", !.op = "unpublish", !.key = p,
                                  !.data = data]
<1>1. programs[p] # None /\ UNCHANGED <<tables, now, topics>> /\ served' \in Nat
  BY ServedType DEF UnpublishProgram, IInv
<1>2. data \in Data /\ data.status = "DRAFT" /\ data.publishedAt = None
  BY DEF Data, NoData, ContentStatus
<1>3. Dated(data) /\ Agrees(programs[p], data.status)
  BY <1>2 DEF Dated, Agrees, UnpublishProgram
<1>4. req' = [req EXCEPT ![r] = c]
  BY DEF UnpublishProgram
<1> HIDE DEF data
<1>5. c \in Request /\ c.pc = "write" /\ c.op = "unpublish" /\ c.key = p /\ c.data = data
  BY <1>2, NoRequestType DEF NoRequest, Request, Pcs, Ops, Ids
<1> HIDE DEF c
<1> QED BY <1>1, <1>2, <1>3, <1>4, <1>5, ReadsProgram

-----------------------------------------------------------------------------
(* Writes of programs.                                                     *)

\* What a partial update makes of a row: of its type, dated, and in or out of
\* ARCHIVED as it was.
LEMMA MergedRow ==
    ASSUME IInv, NEW r \in Requests, req[r].pc = "write", programs[req[r].key] # None
    PROVE  LET row == MergeProgram(programs[req[r].key], req[r].data)
           IN /\ req[r].key \in ProgramIds
              /\ row \in Program /\ row # None /\ Dated(row)
              /\ Same(programs[req[r].key], row) /\ KeepsDate(programs[req[r].key], row)
              /\ req[r].op = "publish" => row.publishedAt \in Times
<1> DEFINE p == req[r].key
           data == req[r].data
           old == programs[p]
           row == MergeProgram(old, data)
<1>1. /\ p \in ProgramIds /\ Dated(data) /\ Agrees(old, data.status)
      /\ req[r].op = "publish" => data.publishedAt \in Times
  BY DEF IInv, Carries
<1>2. data \in Data
  BY DEF IInv, TypeOK, Request
<1>3. old \in Program /\ Dated(old)
  BY <1>1, ProgramType DEF IInv, PublishedHasDate, Dated
<1>4. /\ row.title = Merge(data.title, old.title)
      /\ row.status = Merge(data.status, old.status)
      /\ row.publishedAt = Merge(data.publishedAt, old.publishedAt)
  BY DEF MergeProgram
<1>5. row \in Program
  BY <1>2, <1>3 DEF MergeProgram, Merge, Program, Data
<1> HIDE DEF data, old, row
<1>6. Dated(row)
  BY <1>1, <1>3, <1>4 DEF Dated, Merge
<1>7. Same(old, row) /\ KeepsDate(old, row)
  BY <1>1, <1>4, <1>3, RowsAreRows DEF Same, KeepsDate, Agrees, Merge
<1>8. req[r].op = "publish" => row.publishedAt \in Times
  BY <1>1, <1>4, StatusTypes DEF Merge
<1> QED BY <1>1, <1>5, <1>6, <1>7, <1>8, RowsAreRows DEF row, old, data

\* The invariant after a program was written over by row.
LEMMA ProgramWritten ==
    ASSUME IInv, NEW p \in ProgramIds, programs[p] # None,
           NEW row \in Program, row # None, Dated(row),
           Same(programs[p], row), KeepsDate(programs[p], row),
           programs' = [programs EXCEPT ![p] = row],
           UNCHANGED <<episodes, used, served, now, topics>>,
           NEW r \in Requests, NEW c \in Request, req' = [req EXCEPT ![r] = c],
           Carries(r)'
    PROVE  IInv' /\ Kept
<1>1. \A q \in ProgramIds : programs'[q] = IF q = p THEN row ELSE programs[q]
  BY DEF IInv, TypeOK
<1>2. TypeOK'
  BY DEF IInv, TypeOK, topics
<1>3. PublishedHasDate'
  BY <1>1 DEF IInv, PublishedHasDate, Dated
<1>4. EpisodesHaveProgram' /\ Issued'
  BY <1>1, EpisodeType DEF IInv, EpisodesHaveProgram, Issued, Episode
<1>5. Kept
  <2>1. now <= now'
    BY StatusTypes DEF IInv, TypeOK
  <2>2. \A q \in ProgramIds : Same(programs[q], programs[q]) /\ KeepsDate(programs[q], programs[q])
    BY DEF Same, KeepsDate
  <2>3. \A e \in EpisodeIds : Same(episodes[e], episodes[e])
    BY DEF Same
  <2>4. \A q \in ProgramIds : Same(programs[q], programs'[q]) /\ KeepsDate(programs[q], programs'[q])
    BY <1>1, <2>2
  <2> QED BY <2>1, <2>3, <2>4 DEF Kept
<1> QED BY <1>2, <1>3, <1>4, <1>5, RequestMoves DEF IInv

LEMMA WriteProgramIInv ==
    ASSUME IInv, NEW r \in Requests, WriteProgram(r)
    PROVE  IInv' /\ Kept
<1> DEFINE p == req[r].key
           row == MergeProgram(programs[p], req[r].data)
<1>1. CASE programs[p] = None
  <2>1. UNCHANGED <<tables, now>> /\ served' \in Nat /\ TopicTypes'
    BY <1>1 DEF WriteProgram, tables, IInv, TypeOK, TopicTypes, topics
  <2>2. req' = [req EXCEPT ![r] = NoRequest]
    BY <1>1 DEF WriteProgram, End
  <2>3. Carries(r)'
    BY <2>2, IdleCarries DEF IInv, TypeOK, NoRequest
  <2> QED BY <2>1, <2>2, <2>3, NoRequestType, TablesStay
<1>2. CASE programs[p] # None
  <2>1. /\ p \in ProgramIds /\ row \in Program /\ row # None /\ Dated(row)
        /\ Same(programs[p], row) /\ KeepsDate(programs[p], row)
        /\ req[r].op = "publish" => row.publishedAt \in Times
    BY <1>2, MergedRow DEF WriteProgram
  <2>2. /\ programs' = [programs EXCEPT ![p] = row]
        /\ UNCHANGED <<episodes, used, served, now, topics>>
    BY <1>2 DEF WriteProgram
  <2>3. \/ req[r].op = "publish" /\ ToEmit(r, "publish", p, row.publishedAt)
        \/ ToEmit(r, "update", p, row.title)
        \/ End(r)
    BY <1>2 DEF WriteProgram
  <2>4. row.title \in Titles /\ p \in Ids
    BY <2>1 DEF Program, Ids
  <2> HIDE DEF row
  <2>5. ASSUME NEW c \in Request, req' = [req EXCEPT ![r] = c], Carries(r)'
        PROVE  IInv' /\ Kept
    BY <1>2, <2>1, <2>2, <2>5, ProgramWritten
  <2>6. CASE req[r].op = "publish" /\ ToEmit(r, "publish", p, row.publishedAt)
    <3> DEFINE c == [NoRequest EXCEPT !.pc = "emit", !.op = "publish", !.key = p,
                                      !.payload = row.publishedAt]
    <3>1. c \in Request /\ req' = [req EXCEPT ![r] = c]
      BY <2>1, <2>4, <2>6, EmitType DEF ToEmit
    <3>2. Carries(r)'
      <4>1. req'[r] = c
        BY <3>1 DEF IInv, TypeOK
      <4> QED BY <2>1, <2>6, <4>1, EmitCarries DEF NoRequest
    <3> HIDE DEF c
    <3> QED BY <2>5, <3>1, <3>2
  <2>7. CASE ToEmit(r, "update", p, row.title)
    <3> DEFINE c == [NoRequest EXCEPT !.pc = "emit", !.op = "update", !.key = p,
                                      !.payload = row.title]
    <3>1. c \in Request /\ req' = [req EXCEPT ![r] = c]
      BY <2>4, <2>7, EmitType DEF ToEmit
    <3>2. Carries(r)'
      <4>1. req'[r] = c
        BY <3>1 DEF IInv, TypeOK
      <4> QED BY <2>4, <4>1, EmitCarries DEF NoRequest
    <3> HIDE DEF c
    <3> QED BY <2>5, <3>1, <3>2
  <2>8. CASE End(r)
    <3>1. req' = [req EXCEPT ![r] = NoRequest]
      BY <2>8 DEF End
    <3>2. Carries(r)'
      BY <3>1, IdleCarries DEF IInv, TypeOK, NoRequest
    <3> QED BY <2>5, <3>1, <3>2, NoRequestType
  <2> QED BY <2>3, <2>6, <2>7, <2>8
<1> QED BY <1>1, <1>2

\* Nothing that requests hold is touched: those of others stay as they are.
LEMMA NoRequestMoves ==
    ASSUME IInv, Kept, TypeOK', EpisodesHaveProgram', PublishedHasDate', Issued',
           UNCHANGED req
    PROVE  IInv'
BY CarriesStays DEF IInv, TypeOK

LEMMA DeleteProgramIInv ==
    ASSUME IInv, NEW p \in ProgramIds, DeleteProgram(p)
    PROVE  IInv' /\ Kept
<1>1. \A q \in ProgramIds : programs'[q] = IF q = p THEN None ELSE programs[q]
  BY DEF DeleteProgram, IInv, TypeOK
<1>2. \A e \in EpisodeIds : /\ episodes'[e] \in {None, episodes[e]}
                            /\ episodes'[e] # None => episodes[e].program # p
  BY DEF DeleteProgram, AfterCascade, EpisodesOf
<1>3. UNCHANGED <<used, req, served, now, topics>>
  BY DEF DeleteProgram
<1>4. TypeOK'
  <2>1. episodes' \in [EpisodeIds -> Episode \cup {None}]
    BY DEF DeleteProgram, AfterCascade, EpisodesOf, IInv, TypeOK
  <2> QED BY <1>3, <2>1 DEF DeleteProgram, IInv, TypeOK, topics
<1>5. PublishedHasDate'
  BY <1>1, <1>3 DEF IInv, PublishedHasDate
<1>6. EpisodesHaveProgram' /\ Issued'
  BY <1>1, <1>2, <1>3, EpisodeType DEF IInv, EpisodesHaveProgram, Issued, Episode
<1>7. Kept
  <2>1. now <= now'
    BY <1>3, StatusTypes DEF IInv, TypeOK
  <2>2. \A q \in ProgramIds : Same(programs[q], programs'[q]) /\ KeepsDate(programs[q], programs'[q])
    BY <1>1 DEF Same, KeepsDate
  <2>3. \A e \in EpisodeIds : Same(episodes[e], episodes'[e])
    BY <1>2 DEF Same
  <2> QED BY <1>3, <2>1, <2>2, <2>3 DEF Kept
<1> QED BY <1>3, <1>4, <1>5, <1>6, <1>7, NoRequestMoves

-----------------------------------------------------------------------------
(* Episodes.                                                               *)

\* A handler that ends.
LEMMA EndIInv ==
    ASSUME IInv, NEW r \in Requests, End(r), UNCHANGED <<tables, now>>,
           served' \in Nat, TopicTypes'
    PROVE  IInv' /\ Kept
<1>1. req' = [req EXCEPT ![r] = NoRequest]
  BY DEF End
<1>2. Carries(r)'
  BY <1>1, IdleCarries DEF IInv, TypeOK, NoRequest
<1> QED BY <1>1, <1>2, NoRequestType, TablesStay

LEMMA CreateEpisodeIInv ==
    ASSUME IInv, NEW r \in Requests, NEW p \in ProgramIds, CreateEpisode(r, p)
    PROVE  IInv' /\ Kept
<1>1. PICK title \in Titles, number \in Numbers, status \in ContentStatus :
          req' = [req EXCEPT ![r] =
                [NoRequest EXCEPT !.pc = "insertEpisode", !.op = "create",
                   !.data = [NoData EXCEPT !.title = title, !.number = number,
                                           !.status = status, !.program = p]]]
  BY DEF CreateEpisode
<1> DEFINE data == [NoData EXCEPT !.title = title, !.number = number,
                                  !.status = status, !.program = p]
           c == [NoRequest EXCEPT !.pc = "insertEpisode", !.op = "create", !.data = data]
<1>2. UNCHANGED <<tables, now>> /\ served' \in Nat /\ TopicTypes'
  BY ServedType DEF CreateEpisode, IInv, TypeOK, TopicTypes, topics
<1>3. /\ data \in Data /\ data.title = title /\ data.number = number
      /\ data.status = status /\ data.program = p
  BY DEF Data, NoData
<1>4. req' = [req EXCEPT ![r] = c]
  BY <1>1
<1> HIDE DEF data
<1>5. c \in Request /\ c.pc = "insertEpisode" /\ c.data = data
  BY <1>3, NoRequestType DEF NoRequest, Request, Pcs, Ops
<1> HIDE DEF c
<1>6. Carries(r)'
  <2>1. req'[r] = c
    BY <1>4 DEF IInv, TypeOK
  <2> QED BY <1>3, <1>5, <2>1 DEF Carries
<1> QED BY <1>2, <1>4, <1>5, <1>6, TablesStay

LEMMA InsertEpisodeIInv ==
    ASSUME IInv, NEW r \in Requests, InsertEpisode(r)
    PROVE  IInv' /\ Kept
<1> DEFINE data == req[r].data
<1>1. CASE programs[data.program] = None
  <2>1. UNCHANGED <<tables, now>> /\ served' \in Nat /\ TopicTypes' /\ End(r)
    BY <1>1 DEF InsertEpisode, tables, IInv, TypeOK, TopicTypes, topics
  <2> QED BY <2>1, EndIInv
<1>2. CASE programs[data.program] # None
  <2> DEFINE row == [program |-> data.program, title |-> data.title,
                     number |-> data.number, status |-> data.status]
  <2>1. PICK e \in EpisodeIds \ used :
            /\ used' = used \cup {e}
            /\ episodes' = [episodes EXCEPT ![e] = row]
            /\ ToEmit(r, "create", e, data.title)
    BY <1>2 DEF InsertEpisode
  <2>2. UNCHANGED <<programs, served, now, topics>>
    BY DEF InsertEpisode
  <2>3. row \in Episode /\ row # None /\ data.title \in Titles /\ data.program \in ProgramIds
    BY RowsAreRows DEF InsertEpisode, IInv, Carries, Episode
  <2> DEFINE c == [NoRequest EXCEPT !.pc = "emit", !.op = "create", !.key = e,
                                    !.payload = data.title]
  <2>4. c \in Request /\ req' = [req EXCEPT ![r] = c]
    BY <2>1, <2>3, EmitType DEF ToEmit, Ids
  <2>5. Carries(r)'
    <3>1. req'[r] = c
      BY <2>4 DEF IInv, TypeOK
    <3> QED BY <2>3, <3>1, EmitCarries DEF NoRequest, Ids
  <2>6. \A f \in EpisodeIds : episodes'[f] = IF f = e THEN row ELSE episodes[f]
    BY <2>1 DEF IInv, TypeOK
  <2>7. row.program = data.program
    OBVIOUS
  <2> HIDE DEF row, c
  <2>8. TypeOK'
    BY <2>1, <2>2, <2>3, <2>4 DEF IInv, TypeOK, topics, Ids
  <2>9. PublishedHasDate'
    BY <2>2 DEF IInv, PublishedHasDate
  <2>10. EpisodesHaveProgram' /\ Issued'
    BY <1>2, <2>1, <2>2, <2>3, <2>6, <2>7 DEF IInv, EpisodesHaveProgram, Issued
  <2>11. Kept
    <3>1. now <= now'
      BY <2>2, StatusTypes DEF IInv, TypeOK
    <3> QED BY <2>1, <2>2, <2>6, <3>1 DEF Kept, Same, KeepsDate
  <2> QED BY <2>4, <2>5, <2>8, <2>9, <2>10, <2>11, RequestMoves
<1> QED BY <1>1, <1>2

LEMMA UpdateEpisodeIInv ==
    ASSUME IInv, NEW r \in Requests, NEW e \in EpisodeIds, UpdateEpisode(r, e)
    PROVE  IInv' /\ Kept
<1>1. PICK title \in Titles \cup {None}, number \in Numbers \cup {None},
           status \in ContentStatus \cup {None} :
          /\ status # None => ValidTransition(episodes[e].status, status)
          /\ req' = [req EXCEPT ![r] =
                [NoRequest EXCEPT
                   !.pc = IF Changes(number, episodes[e].number)
                          THEN "checkNumber" ELSE "writeEpisode",
                   !.op = "update", !.key = e,
                   !.data = [NoData EXCEPT !.title = title, !.number = number,
                                           !.status = status,
                                           !.program = episodes[e].program],
                   !.changed = \/ Changes(title, episodes[e].title)
                               \/ Changes(number, episodes[e].number)
                               \/ Changes(status, episodes[e].status)]]
  BY DEF UpdateEpisode
<1> DEFINE pc == IF Changes(number, episodes[e].number) THEN "checkNumber" ELSE "writeEpisode"
           data == [NoData EXCEPT !.title = title, !.number = number, !.status = status,
                                  !.program = episodes[e].program]
           changed == \/ Changes(title, episodes[e].title)
                      \/ Changes(number, episodes[e].number)
                      \/ Changes(status, episodes[e].status)
           c == [NoRequest EXCEPT !.pc = pc, !.op = "update", !.key = e,
                                  !.data = data, !.changed = changed]
<1>2. /\ episodes[e] \in Episode /\ UNCHANGED <<tables, now>>
      /\ served' \in Nat /\ TopicTypes'
  BY ServedType, EpisodeType DEF UpdateEpisode, IInv, TypeOK, TopicTypes, topics
<1>3. data \in Data /\ data.status = status
  BY <1>2 DEF Data, NoData, Episode
<1>4. changed \in BOOLEAN /\ pc \in {"checkNumber", "writeEpisode"}
  BY DEF Changes
<1>5. Agrees(episodes[e], status)
  BY <1>1 DEF Agrees, ValidTransition
<1>6. req' = [req EXCEPT ![r] = c]
  BY <1>1
<1> HIDE DEF pc, data, changed
<1>7. c \in Request /\ c.pc = pc /\ c.key = e /\ c.data = data
  BY <1>3, <1>4, NoRequestType DEF NoRequest, Request, Pcs, Ops, Ids
<1> HIDE DEF c
<1>8. Carries(r)'
  <2>1. req'[r] = c
    BY <1>6 DEF IInv, TypeOK
  <2>2. e \in used /\ UNCHANGED <<episodes, used>>
    BY <1>2 DEF IInv, Issued, tables, UpdateEpisode
  <2> QED BY <1>3, <1>4, <1>5, <1>7, <2>1, <2>2 DEF Carries, Agrees
<1> QED BY <1>2, <1>6, <1>7, <1>8, TablesStay

LEMMA CheckNumberIInv ==
    ASSUME IInv, NEW r \in Requests, CheckNumber(r)
    PROVE  IInv' /\ Kept
<1>1. UNCHANGED <<tables, now>> /\ served' \in Nat /\ TopicTypes'
  BY DEF CheckNumber, IInv, TypeOK, TopicTypes, topics
<1>2. CASE End(r)
  BY <1>1, <1>2, EndIInv
<1>3. CASE req' = [req EXCEPT ![r].pc = "writeEpisode"]
  <2> DEFINE c == [req[r] EXCEPT !.pc = "writeEpisode"]
  <2>1. req[r] \in Request /\ req[r].pc = "checkNumber" /\ Carries(r)
    BY DEF CheckNumber, IInv, TypeOK
  <2>2. c \in Request /\ c.pc = "writeEpisode" /\ c.key = req[r].key /\ c.data = req[r].data
    BY <2>1 DEF Request, Pcs
  <2>3. req' = [req EXCEPT ![r] = c]
    BY <1>3
  <2> HIDE DEF c
  <2>4. Carries(r)'
    <3>1. req'[r] = c
      BY <2>3 DEF IInv, TypeOK
    <3> QED BY <1>1, <2>1, <2>2, <3>1 DEF Carries, Agrees, tables
  <2> QED BY <1>1, <2>2, <2>3, <2>4, TablesStay
<1> QED BY <1>2, <1>3 DEF CheckNumber

LEMMA WriteEpisodeIInv ==
    ASSUME IInv, NEW r \in Requests, WriteEpisode(r)
    PROVE  IInv' /\ Kept
<1> DEFINE e == req[r].key
           data == req[r].data
           row == [program |-> episodes[e].program,
                   title |-> Merge(data.title, episodes[e].title),
                   number |-> Merge(data.number, episodes[e].number),
                   status |-> Merge(data.status, episodes[e].status)]
<1>1. CASE episodes[e] = None
  <2>1. UNCHANGED <<tables, now>> /\ served' \in Nat /\ TopicTypes' /\ End(r)
    BY <1>1 DEF WriteEpisode, tables, IInv, TypeOK, TopicTypes, topics
  <2> QED BY <2>1, EndIInv
<1>2. CASE episodes[e] # None
  <2>1. /\ episodes' = [episodes EXCEPT ![e] = row]
        /\ ToEmit(r, "update", e, row.title) \/ End(r)
        /\ UNCHANGED <<programs, used, served, now, topics>>
    BY <1>2 DEF WriteEpisode
  <2>2. e \in EpisodeIds /\ e \in Ids /\ Agrees(episodes[e], data.status)
    BY <1>2 DEF WriteEpisode, IInv, Carries, Ids
  <2>3. episodes[e] \in Episode /\ data \in Data
    BY <1>2, <2>2, EpisodeType DEF IInv, TypeOK, Request
  <2>4. row \in Episode /\ row # None
    <3>1. row \in Episode
      BY <2>3 DEF Episode, Merge, Data
    <3> QED BY <3>1, RowsAreRows
  <2>5. row.program = episodes[e].program /\ row.status = Merge(data.status, episodes[e].status)
    OBVIOUS
  <2>6. row.title \in Titles
    BY <2>4 DEF Episode
  <2> HIDE DEF row
  <2>7. Same(episodes[e], row)
    BY <1>2, <2>2, <2>5 DEF Same, Agrees, Merge
  <2>8. \A f \in EpisodeIds : episodes'[f] = IF f = e THEN row ELSE episodes[f]
    BY <2>1 DEF IInv, TypeOK
  <2>9. PICK c \in Request : req' = [req EXCEPT ![r] = c] /\ Carries(r)'
    <3>1. CASE ToEmit(r, "update", e, row.title)
      <4> DEFINE c == [NoRequest EXCEPT !.pc = "emit", !.op = "update", !.key = e,
                                        !.payload = row.title]
      <4>1. c \in Request /\ req' = [req EXCEPT ![r] = c]
        BY <2>2, <2>6, <3>1, EmitType DEF ToEmit
      <4>2. Carries(r)'
        <5>1. req'[r] = c
          BY <4>1 DEF IInv, TypeOK
        <5> QED BY <2>2, <2>6, <5>1, EmitCarries DEF NoRequest
      <4> QED BY <4>1, <4>2
    <3>2. CASE End(r)
      <4>1. req' = [req EXCEPT ![r] = NoRequest]
        BY <3>2 DEF End
      <4>2. Carries(r)'
        BY <4>1, IdleCarries DEF IInv, TypeOK, NoRequest
      <4> QED BY <4>1, <4>2, NoRequestType
    <3> QED BY <2>1, <3>1, <3>2
  <2>10. TypeOK'
    BY <2>1, <2>4, <2>9 DEF IInv, TypeOK, topics
  <2>11. PublishedHasDate'
    BY <2>1 DEF IInv, PublishedHasDate
  <2>12. EpisodesHaveProgram' /\ Issued'
    BY <1>2, <2>1, <2>2, <2>5, <2>8 DEF IInv, EpisodesHaveProgram, Issued
  <2>13. Kept
    <3>1. now <= now'
      BY <2>1, StatusTypes DEF IInv, TypeOK
    <3>2. \A f \in EpisodeIds : Same(episodes[f], episodes[f])
      BY DEF Same
    <3> QED BY <2>1, <2>7, <2>8, <3>1, <3>2 DEF Kept, Same, KeepsDate
  <2> QED BY <2>9, <2>10, <2>11, <2>12, <2>13, RequestMoves
<1> QED BY <1>1, <1>2

LEMMA DeleteEpisodeIInv ==
    ASSUME IInv, NEW e \in EpisodeIds, DeleteEpisode(e)
    PROVE  IInv' /\ Kept
<1>1. \A f \in EpisodeIds : episodes'[f] = IF f = e THEN None ELSE episodes[f]
  BY DEF DeleteEpisode, IInv, TypeOK
<1>2. UNCHANGED <<programs, used, req, served, now, topics>>
  BY DEF DeleteEpisode
<1>3. TypeOK' /\ PublishedHasDate' /\ EpisodesHaveProgram' /\ Issued'
  BY <1>1, <1>2 DEF DeleteEpisode, IInv, TypeOK, topics, PublishedHasDate,
                    EpisodesHaveProgram, Issued
<1>4. Kept
  <2>1. now <= now'
    BY <1>2, StatusTypes DEF IInv, TypeOK
  <2> QED BY <1>1, <1>2, <2>1 DEF Kept, Same, KeepsDate
<1> QED BY <1>2, <1>3, <1>4, NoRequestMoves

-----------------------------------------------------------------------------
(* Events, failures and time.                                              *)

LEMMA EmitIInv ==
    ASSUME IInv, NEW r \in Requests,
           EmitContentCreated(r) \/ EmitContentUpdated(r) \/ EmitContentPublished(r)
    PROVE  IInv' /\ Kept
<1>1. End(r) /\ UNCHANGED <<tables, now>> /\ served' \in Nat
  BY DEF EmitContentCreated, EmitContentUpdated, EmitContentPublished, IInv, TypeOK
<1>2. CASE EmitContentCreated(r)
  <2>1. req[r].key \in Ids /\ req[r].payload \in Titles
    BY <1>2 DEF EmitContentCreated, IInv, Carries
  <2>2. created' \in [Ids -> Seq(Titles)]
    BY <1>2, <2>1 DEF EmitContentCreated, IInv, TypeOK
  <2>3. TopicTypes'
    BY <1>2, <2>2 DEF EmitContentCreated, IInv, TypeOK, TopicTypes
  <2> QED BY <1>1, <2>3, EndIInv
<1>3. CASE EmitContentUpdated(r)
  <2>1. req[r].key \in Ids /\ req[r].payload \in Titles
    BY <1>3 DEF EmitContentUpdated, IInv, Carries
  <2>2. updated' \in [Ids -> Seq(Titles)]
    BY <1>3, <2>1 DEF EmitContentUpdated, IInv, TypeOK
  <2>3. TopicTypes'
    BY <1>3, <2>2 DEF EmitContentUpdated, IInv, TypeOK, TopicTypes
  <2> QED BY <1>1, <2>3, EndIInv
<1>4. CASE EmitContentPublished(r)
  <2>1. req[r].key \in ProgramIds /\ req[r].payload \in Times
    BY <1>4 DEF EmitContentPublished, IInv, Carries
  <2>2. published' \in [ProgramIds -> Seq(Times)]
    BY <1>4, <2>1 DEF EmitContentPublished, IInv, TypeOK
  <2>3. TopicTypes'
    BY <1>4, <2>2 DEF EmitContentPublished, IInv, TypeOK, TopicTypes
  <2> QED BY <1>1, <2>3, EndIInv
<1> QED BY <1>2, <1>3, <1>4

LEMMA AbortIInv ==
    ASSUME IInv, NEW r \in Requests, Abort(r) PROVE IInv' /\ Kept
<1>1. End(r) /\ UNCHANGED <<tables, now>> /\ served' \in Nat /\ TopicTypes'
  BY DEF Abort, IInv, TypeOK, TopicTypes, topics
<1> QED BY <1>1, EndIInv

LEMMA ClockIInv ==
    ASSUME IInv, Clock PROVE IInv' /\ Kept
<1>1. now' \in Times /\ now \in Nat /\ now' \in Nat /\ now <= now'
  BY CmsAssumption DEF Clock, IInv, TypeOK, Times
<1>2. UNCHANGED <<tables, req, served, topics>>
  BY DEF Clock
<1>3. PublishedHasDate'
  <2> SUFFICES ASSUME NEW p \in ProgramIds, programs[p] # None
               PROVE  /\ programs[p].status = "PUBLISHED" => programs[p].publishedAt # None
                      /\ programs[p].publishedAt # None => programs[p].publishedAt <= now'
    BY <1>2 DEF PublishedHasDate, tables
  <2>1. programs[p].publishedAt # None => programs[p].publishedAt \in Nat
    BY ProgramType, StatusTypes DEF IInv, Program
  <2> QED BY <1>1, <2>1 DEF IInv, PublishedHasDate
<1>4. TypeOK' /\ EpisodesHaveProgram' /\ Issued'
  BY <1>1, <1>2 DEF IInv, TypeOK, EpisodesHaveProgram, Issued, tables, topics
<1>5. Kept
  BY <1>1, <1>2 DEF Kept, Same, KeepsDate, tables
<1> QED BY <1>2, <1>3, <1>4, <1>5, NoRequestMoves

LEMMA NextIInv == IInv /\ [Next]_vars => IInv' /\ Kept
<1> SUFFICES ASSUME IInv, [Next]_vars PROVE IInv' /\ Kept
  OBVIOUS
<1>1. ASSUME NEW r \in Requests, NEW p \in ProgramIds,
             \/ CreateProgram(r, p) \/ UpdateProgram(r, p) \/ PublishProgram(r, p)
             \/ UnpublishProgram(r, p) \/ CreateEpisode(r, p)
      PROVE  IInv' /\ Kept
  BY <1>1, CreateProgramIInv, UpdateProgramIInv, PublishProgramIInv, UnpublishProgramIInv,
     CreateEpisodeIInv
<1>2. ASSUME NEW r \in Requests, NEW e \in EpisodeIds, UpdateEpisode(r, e)
      PROVE  IInv' /\ Kept
  BY <1>2, UpdateEpisodeIInv
<1>3. ASSUME NEW r \in Requests, Handle(r) PROVE IInv' /\ Kept
  BY <1>3, WriteProgramIInv, InsertEpisodeIInv, CheckNumberIInv, WriteEpisodeIInv, EmitIInv
     DEF Handle
<1>4. ASSUME NEW r \in Requests, Abort(r) PROVE IInv' /\ Kept
  BY <1>4, AbortIInv
<1>5. ASSUME NEW p \in ProgramIds, DeleteProgram(p) PROVE IInv' /\ Kept
  BY <1>5, DeleteProgramIInv
<1>6. ASSUME NEW e \in EpisodeIds, DeleteEpisode(e) PROVE IInv' /\ Kept
  BY <1>6, DeleteEpisodeIInv
<1>7. CASE Clock
  BY <1>7, ClockIInv
<1>8. CASE UNCHANGED vars
  <2>1. UNCHANGED <<programs, episodes, used, req, served, now, created, updated, published>>
    BY <1>8 DEF vars, tables, topics
  <2>2. now <= now'
    BY <2>1, StatusTypes DEF IInv, TypeOK
  <2>3. Kept
    BY <2>1, <2>2 DEF Kept, Same, KeepsDate
  <2> QED BY <2>1, <2>3, NoRequestMoves
          DEF IInv, TypeOK, EpisodesHaveProgram, PublishedHasDate, Issued
<1> QED BY <1>1, <1>2, <1>3, <1>4, <1>5, <1>6, <1>7, <1>8 DEF Next

LEMMA Invariant == Spec => []IInv
BY InitIInv, NextIInv, PTL DEF Spec

-----------------------------------------------------------------------------
(* Theorems.                                                               *)

\* Every table, request and topic keeps its type.
THEOREM TypeCorrect == Spec => []TypeOK
<1>1. IInv => TypeOK
  BY DEF IInv
<1> QED BY <1>1, Invariant, PTL

\* No episode outlives its program, though create() looks the program up long
\* before it inserts: EpisodeRepository.create and the cascading foreign key.
THEOREM EpisodesKeepProgram == Spec => []EpisodesHaveProgram
<1>1. IInv => EpisodesHaveProgram
  BY DEF IInv
<1> QED BY <1>1, Invariant, PTL

\* A published program is dated, whatever the handler that published it had
\* read: create(), update() and publish() of ProgramService.
THEOREM PublishedDated == Spec => []PublishedHasDate
<1>1. IInv => PublishedHasDate
  BY DEF IInv
<1> QED BY <1>1, Invariant, PTL

\* "Don't clear publishedAt when unpublishing, keep history", whichever
\* handlers overlap: ProgramRepository.update.
THEOREM DateKept == Spec => PublishedAtKept
<1>1. IInv /\ [Next]_vars =>
        \A p \in ProgramIds :
          /\ programs[p] # None /\ programs'[p] # None
          /\ programs[p].publishedAt # None
          => programs'[p].publishedAt # None
  BY NextIInv DEF IInv, Issued, Kept, KeepsDate
<1> QED BY <1>1, Invariant, PTL DEF Spec, PublishedAtKept

\* No row enters or leaves ARCHIVED, though every status check is of a row read
\* earlier: validateStatusTransition.
THEOREM ArchivedFinal == Spec => ArchivedIsFinal
<1>1. IInv /\ [Next]_vars =>
        /\ \A p \in ProgramIds : programs[p] # None /\ programs'[p] # None =>
               (programs[p].status = "ARCHIVED" <=> programs'[p].status = "ARCHIVED")
        /\ \A e \in EpisodeIds : episodes[e] # None /\ episodes'[e] # None =>
               (episodes[e].status = "ARCHIVED" <=> episodes'[e].status = "ARCHIVED")
  BY NextIInv DEF IInv, Issued, Kept, Same
<1> QED BY <1>1, Invariant, PTL DEF Spec, ArchivedIsFinal

-----------------------------------------------------------------------------
(* Requests that do not overlap.                                           *)
(*                                                                         *)
(* Both checks behind the next theorems are of rows read earlier, and two  *)
(* requests that overlap defeat them (README.md, section 7).  What is      *)
(* proved is that nothing else does: deletions, failures and requests      *)
(* about other things may come in between.                                 *)

Numbering == {"insertEpisode", "checkNumber", "writeEpisode"}

\* A handler about to store an episode with a number that was sent.
WritesNumber(r) ==
    \/ req[r].pc = "insertEpisode"
    \/ req[r].pc \in {"checkNumber", "writeEpisode"} /\ req[r].data.number # None

\* No two requests for one number of one program overlap.
NumbersOneByOne == \A r, s \in Requests :
    /\ WritesNumber(r) /\ WritesNumber(s)
    /\ req[r].data.program = req[s].data.program
    /\ req[r].data.number = req[s].data.number
    => r = s

\* The page of episodes a handler reads holds all episodes of a program.
EpisodesFitPage ==
    \A p \in ProgramIds : IsFiniteSet(EpisodesOf(p)) /\ Cardinality(EpisodesOf(p)) <= SiblingPage

FreeIn(p, number, self) ==
    \A e \in EpisodesOf(p) : e # self => episodes[e].number # number

\* The number a handler will write is still free.
HoldsFree(r) ==
    LET c == req[r] IN
    /\ c.pc = "insertEpisode" => FreeIn(c.data.program, c.data.number, None)
    /\ c.pc \in {"checkNumber", "writeEpisode"} /\ episodes[c.key] # None =>
          c.data.program = episodes[c.key].program
    /\ c.pc = "writeEpisode" /\ episodes[c.key] # None /\ c.data.number # None =>
          FreeIn(c.data.program, c.data.number, c.key)

NumbersInv == EpisodeNumbersUnique /\ \A r \in Requests : HoldsFree(r)

\* All episodes of a program are on its page.
LEMMA AllSiblings ==
    ASSUME TypeOK, EpisodesFitPage, NEW p \in ProgramIds
    PROVE  Siblings(p) = EpisodesOf(p)
<1> DEFINE Below(e) == {f \in EpisodesOf(p) : episodes[f].number < episodes[e].number}
<1>1. IsFiniteSet(EpisodesOf(p)) /\ Cardinality(EpisodesOf(p)) <= SiblingPage
  BY DEF EpisodesFitPage
<1>2. ASSUME NEW e \in EpisodesOf(p) PROVE Cardinality(Below(e)) < SiblingPage
  <2>1. e \notin Below(e)
    <3>1. episodes[e].number \in Nat
      BY EpisodeType, CmsAssumption DEF EpisodesOf, Episode
    <3> QED BY <3>1
  <2>2. Below(e) \in SUBSET EpisodesOf(p) /\ Below(e) # EpisodesOf(p)
    BY <2>1
  <2> HIDE DEF Below
  <2>3. /\ IsFiniteSet(Below(e)) /\ Cardinality(Below(e)) <= Cardinality(EpisodesOf(p))
        /\ Cardinality(Below(e)) # Cardinality(EpisodesOf(p))
    BY <1>1, <2>2, FS_Subset
  <2>4. Cardinality(Below(e)) \in Nat /\ Cardinality(EpisodesOf(p)) \in Nat
    BY <1>1, <2>3, FS_CardinalityType
  <2> QED BY <1>1, <2>3, <2>4, CmsAssumption
<1> QED BY <1>2 DEF Siblings

\* What the check of a number shows.
LEMMA CheckedFree ==
    ASSUME TypeOK, EpisodesFitPage, NEW p \in ProgramIds, NEW number, NEW self,
           NumberFree(p, number, self)
    PROVE  FreeIn(p, number, self)
BY AllSiblings DEF NumberFree, FreeIn

\* Fewer episodes leave more numbers free.
LEMMA FewerEpisodes ==
    ASSUME IInv, NumbersInv, \A e \in EpisodeIds : episodes'[e] \in {episodes[e], None}
    PROVE  /\ EpisodeNumbersUnique'
           /\ \A r \in Requests : req'[r] = req[r] => HoldsFree(r)'
<1>1. \A p : \A e \in EpisodesOf(p)' : e \in EpisodesOf(p) /\ episodes'[e] = episodes[e]
  BY DEF EpisodesOf
<1>2. EpisodeNumbersUnique'
  BY <1>1 DEF NumbersInv, EpisodeNumbersUnique
<1>3. \A p, number, self : FreeIn(p, number, self) => FreeIn(p, number, self)'
  BY <1>1 DEF FreeIn
<1>4. ASSUME NEW r \in Requests, req'[r] = req[r] PROVE HoldsFree(r)'
  <2>1. req[r].pc \in {"checkNumber", "writeEpisode"} => req[r].key \in EpisodeIds
    BY DEF IInv, Carries
  <2> QED BY <1>3, <1>4, <2>1 DEF NumbersInv, HoldsFree
<1> QED BY <1>2, <1>4

\* A step that leaves the requests alone.
LEMMA NumbersStay ==
    ASSUME IInv, NumbersInv, UNCHANGED req,
           \A e \in EpisodeIds : episodes'[e] \in {episodes[e], None}
    PROVE  NumbersInv'
BY FewerEpisodes DEF NumbersInv

\* A step of one request that changes no episode.
LEMMA NumbersMove ==
    ASSUME IInv, NumbersInv, UNCHANGED episodes, NEW r \in Requests, NEW c,
           req' = [req EXCEPT ![r] = c], HoldsFree(r)'
    PROVE  NumbersInv'
<1>1. \A s \in Requests : s # r => req'[s] = req[s]
  BY DEF IInv, TypeOK
<1> QED BY <1>1, FewerEpisodes DEF NumbersInv

LEMMA EndHoldsFree ==
    ASSUME IInv, NEW r \in Requests, End(r) \/ req'[r].pc \notin Numbering
    PROVE  HoldsFree(r)'
<1>1. CASE End(r)
  BY <1>1 DEF End, IInv, TypeOK, HoldsFree, NoRequest
<1>2. CASE req'[r].pc \notin Numbering
  BY <1>2 DEF HoldsFree, Numbering
<1> QED BY <1>1, <1>2

\* A handler ends, or goes on to its event.
LEMMA EndsOrTells ==
    ASSUME NEW r \in Requests, End(r) \/ \E op, key, payload : ToEmit(r, op, key, payload)
    PROVE  \E c : req' = [req EXCEPT ![r] = c] /\ c.pc \in {"idle", "emit"}
<1>1. CASE End(r)
  <2>1. req' = [req EXCEPT ![r] = NoRequest] /\ NoRequest.pc = "idle"
    BY <1>1 DEF End, NoRequest
  <2> QED BY <2>1
<1>2. ASSUME NEW op, NEW key, NEW payload, ToEmit(r, op, key, payload)
      PROVE  \E c : req' = [req EXCEPT ![r] = c] /\ c.pc \in {"idle", "emit"}
  <2> DEFINE c == [NoRequest EXCEPT !.pc = "emit", !.op = op, !.key = key, !.payload = payload]
  <2>1. req' = [req EXCEPT ![r] = c]
    BY <1>2 DEF ToEmit
  <2>2. c.pc = "emit"
    BY DEF NoRequest
  <2> HIDE DEF c
  <2> QED BY <2>1, <2>2
<1> QED BY <1>1, <1>2

\* A handler goes on to the write of its program.
LEMMA GoesOnToWrite ==
    ASSUME NEW r \in Requests, NEW p \in ProgramIds,
           UpdateProgram(r, p) \/ PublishProgram(r, p) \/ UnpublishProgram(r, p)
    PROVE  \E c : req' = [req EXCEPT ![r] = c] /\ c.pc = "write"
<1>1. ASSUME NEW c, c.pc = "write", req' = [req EXCEPT ![r] = c]
      PROVE  \E d : req' = [req EXCEPT ![r] = d] /\ d.pc = "write"
  BY <1>1
<1>2. CASE UpdateProgram(r, p)
  <2>1. PICK title \in Titles \cup {None}, status \in ContentStatus \cup {None} :
            /\ status # None => ValidTransition(programs[p].status, status)
            /\ req' = [req EXCEPT ![r] =
                  [NoRequest EXCEPT
                     !.pc = "write", !.op = "update", !.key = p,
                     !.data = [NoData EXCEPT
                        !.title = title, !.status = status,
                        !.publishedAt = DateToWrite(programs[p], status)],
                     !.changed = \/ Changes(title, programs[p].title)
                                 \/ Changes(status, programs[p].status)]]
    BY <1>2 DEF UpdateProgram
  <2> DEFINE c == [NoRequest EXCEPT
                     !.pc = "write", !.op = "update", !.key = p,
                     !.data = [NoData EXCEPT
                        !.title = title, !.status = status,
                        !.publishedAt = DateToWrite(programs[p], status)],
                     !.changed = \/ Changes(title, programs[p].title)
                                 \/ Changes(status, programs[p].status)]
  <2>2. c.pc = "write" /\ req' = [req EXCEPT ![r] = c]
    BY <2>1 DEF NoRequest
  <2> HIDE DEF c
  <2> QED BY <1>1, <2>2
<1>3. CASE PublishProgram(r, p)
  <2> DEFINE c == [NoRequest EXCEPT !.pc = "write", !.op = "publish", !.key = p,
             !.data = [NoData EXCEPT !.status = "PUBLISHED", !.publishedAt = now]]
  <2>1. c.pc = "write" /\ req' = [req EXCEPT ![r] = c]
    BY <1>3 DEF PublishProgram, NoRequest
  <2> HIDE DEF c
  <2> QED BY <1>1, <2>1
<1>4. CASE UnpublishProgram(r, p)
  <2> DEFINE c == [NoRequest EXCEPT !.pc = "write", !.op = "unpublish", !.key = p,
             !.data = [NoData EXCEPT !.status = "DRAFT"]]
  <2>1. c.pc = "write" /\ req' = [req EXCEPT ![r] = c]
    BY <1>4 DEF UnpublishProgram, NoRequest
  <2> HIDE DEF c
  <2> QED BY <1>1, <2>1
<1> QED BY <1>2, <1>3, <1>4

\* Handlers of programs, events and failures.
LEMMA OtherNumbers ==
    ASSUME IInv, NumbersInv, NEW r \in Requests, NEW p \in ProgramIds,
           \/ CreateProgram(r, p) \/ UpdateProgram(r, p) \/ PublishProgram(r, p)
           \/ UnpublishProgram(r, p) \/ WriteProgram(r) \/ EmitContentCreated(r)
           \/ EmitContentUpdated(r) \/ EmitContentPublished(r) \/ Abort(r)
    PROVE  NumbersInv'
<1> USE DEF Numbering
<1>1. UNCHANGED episodes
  BY DEF CreateProgram, UpdateProgram, PublishProgram, UnpublishProgram, WriteProgram,
         EmitContentCreated, EmitContentUpdated, EmitContentPublished, Abort, tables
<1>2. CASE CreateProgram(r, p)
  <2>1. \E title : ToEmit(r, "create", p, title)
    BY <1>2 DEF CreateProgram
  <2> QED BY <1>1, <2>1, NumbersMove, EndHoldsFree DEF ToEmit, IInv, TypeOK, NoRequest
<1>3. CASE UpdateProgram(r, p) \/ PublishProgram(r, p) \/ UnpublishProgram(r, p)
  <2>1. \E c : req' = [req EXCEPT ![r] = c] /\ c.pc = "write"
    BY <1>3, GoesOnToWrite
  <2> QED BY <1>1, <2>1, NumbersMove, EndHoldsFree DEF IInv, TypeOK
<1>4. CASE WriteProgram(r)
  <2>1. End(r) \/ \E op, key, payload : ToEmit(r, op, key, payload)
    BY <1>4 DEF WriteProgram
  <2>2. \E c : req' = [req EXCEPT ![r] = c] /\ c.pc \in {"idle", "emit"}
    BY <2>1, EndsOrTells
  <2> QED BY <1>1, <2>2, NumbersMove, EndHoldsFree DEF IInv, TypeOK
<1>5. CASE EmitContentCreated(r) \/ EmitContentUpdated(r) \/ EmitContentPublished(r) \/ Abort(r)
  <2>1. End(r)
    BY <1>5 DEF EmitContentCreated, EmitContentUpdated, EmitContentPublished, Abort
  <2> QED BY <1>1, <2>1, NumbersMove, EndHoldsFree DEF End
<1> QED BY <1>2, <1>3, <1>4, <1>5

LEMMA CreateEpisodeNumbers ==
    ASSUME IInv, NumbersInv, EpisodesFitPage, NEW r \in Requests, NEW p \in ProgramIds,
           CreateEpisode(r, p)
    PROVE  NumbersInv'
<1>1. PICK title \in Titles, number \in Numbers, status \in ContentStatus :
          /\ NumberFree(p, number, None)
          /\ req' = [req EXCEPT ![r] =
                [NoRequest EXCEPT !.pc = "insertEpisode", !.op = "create",
                   !.data = [NoData EXCEPT !.title = title, !.number = number,
                                           !.status = status, !.program = p]]]
  BY DEF CreateEpisode
<1>2. UNCHANGED episodes
  BY DEF CreateEpisode, tables
<1>3. FreeIn(p, number, None)
  BY <1>1, CheckedFree DEF IInv
<1>4. /\ req'[r].pc = "insertEpisode" /\ req'[r].data.program = p
      /\ req'[r].data.number = number
  BY <1>1 DEF IInv, TypeOK, NoRequest, NoData
<1>5. HoldsFree(r)'
  BY <1>2, <1>3, <1>4 DEF HoldsFree, FreeIn, EpisodesOf
<1> QED BY <1>1, <1>2, <1>5, NumbersMove

\* A row with a free number.
LEMMA UniqueAfterWrite ==
    ASSUME IInv, EpisodeNumbersUnique, NEW e \in EpisodeIds, NEW row,
           \A f \in EpisodeIds : episodes'[f] = IF f = e THEN row ELSE episodes[f],
           FreeIn(row.program, row.number, e)
    PROVE  EpisodeNumbersUnique'
<1> SUFFICES ASSUME NEW p \in ProgramIds, NEW x \in EpisodesOf(p)', NEW y \in EpisodesOf(p)',
                    episodes'[x].number = episodes'[y].number, x # y
             PROVE  FALSE
  BY DEF EpisodeNumbersUnique
<1>1. x \in EpisodeIds /\ y \in EpisodeIds
  BY DEF EpisodesOf
<1>2. CASE x = e
  BY <1>1, <1>2 DEF EpisodesOf, FreeIn
<1>3. CASE y = e
  BY <1>1, <1>3 DEF EpisodesOf, FreeIn
<1>4. CASE x # e /\ y # e
  BY <1>1, <1>4 DEF EpisodesOf, EpisodeNumbersUnique
<1> QED BY <1>2, <1>3, <1>4

\* The numbers that other requests hold stay free when episode e gets a row.
LEMMA OthersFree ==
    ASSUME IInv, NumbersInv, NEW e \in EpisodeIds, NEW row,
           \A f \in EpisodeIds : episodes'[f] = IF f = e THEN row ELSE episodes[f],
           episodes[e] = None => e \notin used,
           episodes[e] # None => row.program = episodes[e].program,
           NEW s \in Requests, req'[s] = req[s],
           WritesNumber(s) /\ req[s].data.program = row.program =>
              \/ req[s].data.number # row.number
              \/ episodes[e] # None /\ row.number = episodes[e].number
    PROVE  HoldsFree(s)'
<1> DEFINE data == req[s].data
           key == req[s].key
<1>1. HoldsFree(s)
  BY DEF NumbersInv
<1>2. ASSUME WritesNumber(s), NEW self, FreeIn(data.program, data.number, self)
      PROVE  FreeIn(data.program, data.number, self)'
  <2> SUFFICES ASSUME NEW f \in EpisodesOf(data.program)', f # self
               PROVE  episodes'[f].number # data.number
    BY DEF FreeIn
  <2>1. f \in EpisodeIds /\ episodes'[f] # None /\ episodes'[f].program = data.program
    BY DEF EpisodesOf
  <2>2. CASE f # e
    BY <1>2, <2>1, <2>2 DEF FreeIn, EpisodesOf
  <2>3. CASE f = e
    BY <1>2, <2>1, <2>3 DEF FreeIn, EpisodesOf
  <2> QED BY <2>2, <2>3
<1>3. CASE req[s].pc = "insertEpisode"
  BY <1>1, <1>2, <1>3 DEF HoldsFree, WritesNumber
<1>4. CASE req[s].pc \in {"checkNumber", "writeEpisode"} /\ episodes'[key] # None
  <2>1. key \in EpisodeIds \cap used
    BY <1>4 DEF IInv, Carries
  <2>2. episodes[key] # None /\ episodes'[key].program = episodes[key].program
    BY <1>4, <2>1
  <2>3. data.program = episodes[key].program
    BY <1>1, <1>4, <2>2 DEF HoldsFree
  <2>4. CASE req[s].pc = "writeEpisode" /\ data.number # None
    BY <1>1, <1>2, <2>2, <2>3, <2>4 DEF HoldsFree, WritesNumber
  <2>5. CASE ~(req[s].pc = "writeEpisode" /\ data.number # None)
    BY <1>4, <2>2, <2>3, <2>5 DEF HoldsFree
  <2> QED BY <2>4, <2>5
<1>5. CASE /\ req[s].pc # "insertEpisode"
           /\ ~(req[s].pc \in {"checkNumber", "writeEpisode"} /\ episodes'[key] # None)
  BY <1>5 DEF HoldsFree
<1> QED BY <1>3, <1>4, <1>5

LEMMA InsertEpisodeNumbers ==
    ASSUME IInv, NumbersInv, NumbersOneByOne, NEW r \in Requests, InsertEpisode(r)
    PROVE  NumbersInv'
<1> DEFINE data == req[r].data
<1>1. CASE programs[data.program] = None
  <2>1. End(r) /\ UNCHANGED episodes
    BY <1>1 DEF InsertEpisode
  <2> QED BY <2>1, NumbersMove, EndHoldsFree DEF End
<1>2. CASE programs[data.program] # None
  <2> DEFINE row == [program |-> data.program, title |-> data.title,
                     number |-> data.number, status |-> data.status]
  <2>1. PICK e \in EpisodeIds \ used :
            /\ episodes' = [episodes EXCEPT ![e] = row]
            /\ ToEmit(r, "create", e, data.title)
    BY <1>2 DEF InsertEpisode
  <2>2. req[r].pc = "insertEpisode" /\ FreeIn(data.program, data.number, None)
    BY DEF InsertEpisode, NumbersInv, HoldsFree
  <2>3. FreeIn(row.program, row.number, e)
    <3>1. \A f \in EpisodeIds : f # None
      BY CmsAssumption
    <3> QED BY <2>2, <3>1 DEF FreeIn, EpisodesOf
  <2>4. \A f \in EpisodeIds : episodes'[f] = IF f = e THEN row ELSE episodes[f]
    BY <2>1 DEF IInv, TypeOK
  <2> HIDE DEF row
  <2>5. EpisodeNumbersUnique'
    BY <2>3, <2>4, UniqueAfterWrite DEF NumbersInv
  <2>6. \E c : req' = [req EXCEPT ![r] = c] /\ c.pc \in {"idle", "emit"}
    BY <2>1, EndsOrTells
  <2>7. req'[r].pc \notin Numbering /\ \A s \in Requests \ {r} : req'[s] = req[s]
    BY <2>6 DEF IInv, TypeOK, Numbering
  <2>8. ASSUME NEW s \in Requests \ {r} PROVE HoldsFree(s)'
    <3>1. row.program = data.program /\ row.number = data.number
      BY DEF row
    <3>2. episodes[e] = None
      BY <2>1 DEF IInv, Issued
    <3>3. WritesNumber(s) /\ req[s].data.program = row.program =>
             req[s].data.number # row.number
      BY <2>2, <3>1 DEF NumbersOneByOne, WritesNumber
    <3> QED BY <2>1, <2>4, <2>7, <3>2, <3>3, OthersFree
  <2> QED BY <2>5, <2>7, <2>8, EndHoldsFree DEF NumbersInv
<1> QED BY <1>1, <1>2

LEMMA UpdateEpisodeNumbers ==
    ASSUME IInv, NumbersInv, NEW r \in Requests, NEW e \in EpisodeIds, UpdateEpisode(r, e)
    PROVE  NumbersInv'
<1>1. PICK title \in Titles \cup {None}, number \in Numbers \cup {None},
           status \in ContentStatus \cup {None} :
          /\ status # None => ValidTransition(episodes[e].status, status)
          /\ req' = [req EXCEPT ![r] =
                [NoRequest EXCEPT
                   !.pc = IF Changes(number, episodes[e].number)
                          THEN "checkNumber" ELSE "writeEpisode",
                   !.op = "update", !.key = e,
                   !.data = [NoData EXCEPT !.title = title, !.number = number,
                                           !.status = status,
                                           !.program = episodes[e].program],
                   !.changed = \/ Changes(title, episodes[e].title)
                               \/ Changes(number, episodes[e].number)
                               \/ Changes(status, episodes[e].status)]]
  BY DEF UpdateEpisode
<1>2. episodes[e] # None /\ UNCHANGED episodes
  BY DEF UpdateEpisode, tables
<1>3. /\ req'[r].pc = IF Changes(number, episodes[e].number)
                      THEN "checkNumber" ELSE "writeEpisode"
      /\ req'[r].key = e /\ req'[r].data.number = number
      /\ req'[r].data.program = episodes[e].program
  BY <1>1 DEF IInv, TypeOK, NoRequest, NoData
<1>4. ASSUME req'[r].pc = "writeEpisode", number # None
      PROVE  FreeIn(episodes[e].program, number, e)
  <2>1. number = episodes[e].number /\ episodes[e] \in Episode
    BY <1>2, <1>3, <1>4, EpisodeType DEF Changes, IInv
  <2>2. episodes[e].program \in ProgramIds
    BY <2>1 DEF Episode
  <2> QED BY <1>2, <2>1, <2>2 DEF NumbersInv, EpisodeNumbersUnique, FreeIn, EpisodesOf
<1>5. HoldsFree(r)'
  BY <1>2, <1>3, <1>4 DEF HoldsFree, FreeIn, EpisodesOf
<1> QED BY <1>1, <1>2, <1>5, NumbersMove

LEMMA CheckNumberNumbers ==
    ASSUME IInv, NumbersInv, EpisodesFitPage, NEW r \in Requests, CheckNumber(r)
    PROVE  NumbersInv'
<1>1. UNCHANGED episodes
  BY DEF CheckNumber, tables
<1>2. CASE End(r)
  BY <1>1, <1>2, NumbersMove, EndHoldsFree DEF End
<1>3. CASE /\ req' = [req EXCEPT ![r].pc = "writeEpisode"]
           /\ NumberFree(req[r].data.program, req[r].data.number, req[r].key)
  <2> DEFINE c == [req[r] EXCEPT !.pc = "writeEpisode"]
  <2>1. req[r] \in Request /\ req[r].pc = "checkNumber" /\ req[r].key \in EpisodeIds
    BY DEF CheckNumber, IInv, TypeOK, Carries
  <2>2. c.pc = "writeEpisode" /\ c.key = req[r].key /\ c.data = req[r].data
    BY <2>1 DEF Request
  <2>3. req' = [req EXCEPT ![r] = c] /\ req'[r] = c
    BY <1>3 DEF IInv, TypeOK
  <2> HIDE DEF c
  <2>4. ASSUME episodes[c.key] # None
        PROVE  /\ c.data.program = episodes[c.key].program
               /\ FreeIn(c.data.program, c.data.number, c.key)
    <3>1. c.data.program = episodes[c.key].program
      BY <2>1, <2>2, <2>4 DEF NumbersInv, HoldsFree
    <3>2. c.data.program \in ProgramIds
      BY <2>1, <2>2, <2>4, <3>1, EpisodeType DEF IInv, Episode
    <3> QED BY <1>3, <2>2, <3>1, <3>2, CheckedFree DEF IInv
  <2>5. HoldsFree(r)'
    BY <1>1, <2>2, <2>3, <2>4 DEF HoldsFree, FreeIn, EpisodesOf
  <2> QED BY <1>1, <2>3, <2>5, NumbersMove
<1> QED BY <1>2, <1>3 DEF CheckNumber

LEMMA WriteEpisodeNumbers ==
    ASSUME IInv, NumbersInv, NumbersOneByOne, NEW r \in Requests, WriteEpisode(r)
    PROVE  NumbersInv'
<1> DEFINE e == req[r].key
           data == req[r].data
           row == [program |-> episodes[e].program,
                   title |-> Merge(data.title, episodes[e].title),
                   number |-> Merge(data.number, episodes[e].number),
                   status |-> Merge(data.status, episodes[e].status)]
<1>1. CASE episodes[e] = None
  <2>1. End(r) /\ UNCHANGED episodes
    BY <1>1 DEF WriteEpisode
  <2> QED BY <2>1, NumbersMove, EndHoldsFree DEF End
<1>2. CASE episodes[e] # None
  <2>1. /\ episodes' = [episodes EXCEPT ![e] = row]
        /\ ToEmit(r, "update", e, row.title) \/ End(r)
    BY <1>2 DEF WriteEpisode
  <2>2. req[r].pc = "writeEpisode" /\ e \in EpisodeIds
    BY DEF WriteEpisode, IInv, Carries
  <2>3. episodes[e].program \in ProgramIds
    BY <1>2, <2>2, EpisodeType DEF IInv, Episode
  <2>4. FreeIn(row.program, row.number, e)
    <3>1. CASE data.number = None
      BY <1>2, <2>2, <2>3, <3>1 DEF Merge, NumbersInv, EpisodeNumbersUnique, FreeIn, EpisodesOf
    <3>2. CASE data.number # None
      <4>1. data.program = episodes[e].program /\ FreeIn(data.program, data.number, e)
        BY <1>2, <2>2, <3>2 DEF NumbersInv, HoldsFree
      <4> QED BY <3>2, <4>1 DEF Merge
    <3> QED BY <3>1, <3>2
  <2>5. \A f \in EpisodeIds : episodes'[f] = IF f = e THEN row ELSE episodes[f]
    BY <2>1 DEF IInv, TypeOK
  <2> HIDE DEF row
  <2>6. EpisodeNumbersUnique'
    BY <2>2, <2>4, <2>5, UniqueAfterWrite DEF NumbersInv
  <2>7. \E c : req' = [req EXCEPT ![r] = c] /\ c.pc \in {"idle", "emit"}
    BY <2>1, EndsOrTells
  <2>8. req'[r].pc \notin Numbering /\ \A s \in Requests \ {r} : req'[s] = req[s]
    BY <2>7 DEF IInv, TypeOK, Numbering
  <2>9. ASSUME NEW s \in Requests \ {r} PROVE HoldsFree(s)'
    <3>1. /\ row.program = episodes[e].program
          /\ row.number = IF data.number = None THEN episodes[e].number ELSE data.number
      BY DEF row, Merge
    <3>2. data.program = episodes[e].program
      BY <1>2, <2>2 DEF NumbersInv, HoldsFree
    <3>3. WritesNumber(s) /\ req[s].data.program = row.program =>
             \/ req[s].data.number # row.number
             \/ episodes[e] # None /\ row.number = episodes[e].number
      BY <1>2, <2>2, <3>1, <3>2 DEF NumbersOneByOne, WritesNumber
    <3> QED BY <1>2, <2>2, <2>5, <2>8, <3>1, <3>3, OthersFree
  <2> QED BY <2>6, <2>8, <2>9, EndHoldsFree DEF NumbersInv
<1> QED BY <1>1, <1>2

LEMMA NextNumbers ==
    ASSUME IInv, NumbersInv, NumbersOneByOne, EpisodesFitPage, [Next]_vars
    PROVE  NumbersInv'
<1>1. ASSUME NEW r \in Requests, NEW p \in ProgramIds,
             \/ CreateProgram(r, p) \/ UpdateProgram(r, p) \/ PublishProgram(r, p)
             \/ UnpublishProgram(r, p)
      PROVE  NumbersInv'
  BY <1>1, OtherNumbers
<1>2. ASSUME NEW r \in Requests, NEW p \in ProgramIds, CreateEpisode(r, p)
      PROVE  NumbersInv'
  BY <1>2, CreateEpisodeNumbers
<1>3. ASSUME NEW r \in Requests, NEW e \in EpisodeIds, UpdateEpisode(r, e)
      PROVE  NumbersInv'
  BY <1>3, UpdateEpisodeNumbers
<1>4. ASSUME NEW r \in Requests, Handle(r) PROVE NumbersInv'
  <2>1. CASE InsertEpisode(r)
    BY <2>1, InsertEpisodeNumbers
  <2>2. CASE CheckNumber(r) \/ WriteEpisode(r)
    BY <2>2, CheckNumberNumbers, WriteEpisodeNumbers
  <2>3. CASE WriteProgram(r)
    <3>1. req[r].key \in ProgramIds
      BY <2>3 DEF WriteProgram, IInv, Carries
    <3> QED BY <2>3, <3>1, OtherNumbers
  <2>4. CASE EmitContentCreated(r) \/ EmitContentUpdated(r) \/ EmitContentPublished(r)
    <3>1. End(r) /\ UNCHANGED episodes
      BY <2>4 DEF EmitContentCreated, EmitContentUpdated, EmitContentPublished, tables
    <3> QED BY <3>1, NumbersMove, EndHoldsFree DEF End
  <2> QED BY <1>4, <2>1, <2>2, <2>3, <2>4 DEF Handle
<1>5. ASSUME NEW r \in Requests, Abort(r) PROVE NumbersInv'
  <2>1. End(r) /\ UNCHANGED episodes
    BY <1>5 DEF Abort, tables
  <2> QED BY <2>1, NumbersMove, EndHoldsFree DEF End
<1>6. ASSUME NEW p \in ProgramIds, DeleteProgram(p) PROVE NumbersInv'
  <2>1. UNCHANGED req /\ \A e \in EpisodeIds : episodes'[e] \in {episodes[e], None}
    BY <1>6 DEF DeleteProgram, AfterCascade
  <2> QED BY <2>1, NumbersStay
<1>7. ASSUME NEW e \in EpisodeIds, DeleteEpisode(e) PROVE NumbersInv'
  <2>1. UNCHANGED req /\ \A f \in EpisodeIds : episodes'[f] \in {episodes[f], None}
    BY <1>7 DEF DeleteEpisode, IInv, TypeOK
  <2> QED BY <2>1, NumbersStay
<1>8. CASE Clock \/ UNCHANGED vars
  BY <1>8, NumbersStay DEF Clock, vars, tables
<1> QED BY <1>1, <1>2, <1>3, <1>4, <1>5, <1>6, <1>7, <1>8 DEF Next

\* "Validate episode number is unique for this program": it is, as long as no two
\* requests for one number of one program overlap and no program outgrows the page
\* the check reads.  EpisodeService.create and update.
THEOREM NumbersUnique ==
    Spec /\ []NumbersOneByOne /\ []EpisodesFitPage => []EpisodeNumbersUnique
<1>1. Init => NumbersInv
  BY DEF Init, NumbersInv, EpisodeNumbersUnique, EpisodesOf, HoldsFree, NoRequest
<1>2. IInv /\ NumbersInv /\ NumbersOneByOne /\ EpisodesFitPage /\ [Next]_vars => NumbersInv'
  BY NextNumbers
<1>3. NumbersInv => EpisodeNumbersUnique
  BY DEF NumbersInv
<1> QED BY <1>1, <1>2, <1>3, Invariant, PTL DEF Spec

-----------------------------------------------------------------------------
(* Titles and the events that tell them.                                   *)

\* create() or update() of p, between reading the program and sending its event.
About(r, p) ==
    req[r].pc \in {"write", "emit"} /\ req[r].op \in {"create", "update"} /\ req[r].key = p

\* No two of them for the same program overlap; what publishes, unpublishes or
\* deletes it may overlap with anything.
ProgramsOneByOne ==
    \A p \in ProgramIds : \A r, s \in Requests : About(r, p) /\ About(s, p) => r = s

\* A handler about to tell the title of p.
Tells(r, p) == req[r].pc = "emit" /\ req[r].op \in {"create", "update"} /\ req[r].key = p

\* What a handler holds agrees with the title of its program.
HoldsTitle(r) ==
    LET c == req[r] IN
    /\ c.pc = "write" /\ c.op # "update" => c.data.title = None
    /\ c.pc = "write" /\ programs[c.key] # None =>
          c.changed \/ c.data.title \in {None, programs[c.key].title}
    /\ \A p \in ProgramIds : Tells(r, p) =>
          /\ p \in used
          /\ programs[p] # None => c.payload = programs[p].title
          /\ c.op = "create" => updated[p] = <<>>

\* Every title was told or is about to be.
Told(p) ==
    programs[p] # None =>
        LastTitle(p) = programs[p].title \/ \E r \in Requests : Tells(r, p)

TitlesInv ==
    /\ \A p \in ProgramIds : Told(p)
    /\ \A p \in ProgramIds \ used : created[p] = <<>> /\ updated[p] = <<>>
    /\ \A r \in Requests : HoldsTitle(r)

LEMMA ProgramsAreNoEpisodes == \A p \in ProgramIds : p \in Ids /\ p \notin EpisodeIds
BY CmsAssumption DEF Ids

\* A step after which r is not about to tell a title it was about to tell before,
\* and that changes no title.
LEMMA TitlesMove ==
    ASSUME IInv, TitlesInv, NEW r \in Requests, NEW c, req' = [req EXCEPT ![r] = c],
           used \subseteq used',
           \A p \in ProgramIds : programs'[p] # None =>
              programs[p] # None /\ programs'[p].title = programs[p].title,
           \A p \in ProgramIds : created'[p] = created[p] /\ updated'[p] = updated[p],
           \A p \in ProgramIds : ~Tells(r, p),
           HoldsTitle(r)'
    PROVE  TitlesInv'
<1>1. \A s \in Requests : s # r => req'[s] = req[s]
  BY DEF IInv, TypeOK
<1>2. ASSUME NEW p \in ProgramIds PROVE Told(p)'
  <2>1. \A s \in Requests : Tells(s, p) => Tells(s, p)'
    BY <1>1 DEF Tells
  <2> QED BY <2>1 DEF TitlesInv, Told, LastTitle
<1>3. ASSUME NEW s \in Requests, s # r PROVE HoldsTitle(s)'
  <2>1. HoldsTitle(s) /\ req'[s] = req[s]
    BY <1>1, <1>3 DEF TitlesInv
  <2>2. req[s].pc = "write" => req[s].key \in ProgramIds
    BY DEF IInv, Carries
  <2> QED BY <2>1, <2>2 DEF HoldsTitle, Tells
<1> QED BY <1>2, <1>3 DEF TitlesInv

\* A step that leaves the requests alone and changes no title.
LEMMA TitlesStay ==
    ASSUME IInv, TitlesInv, UNCHANGED <<req, used, created, updated>>,
           \A p \in ProgramIds : programs'[p] # None =>
              programs[p] # None /\ programs'[p].title = programs[p].title
    PROVE  TitlesInv'
<1>1. ASSUME NEW p \in ProgramIds PROVE Told(p)'
  BY DEF TitlesInv, Told, LastTitle, Tells
<1>2. ASSUME NEW s \in Requests PROVE HoldsTitle(s)'
  <2>1. req[s].pc = "write" => req[s].key \in ProgramIds
    BY DEF IInv, Carries
  <2> QED BY <2>1 DEF TitlesInv, HoldsTitle, Tells
<1> QED BY <1>1, <1>2 DEF TitlesInv

\* A handler that is not about a program now, and was not about to tell its title.
LEMMA TitlesElsewhere ==
    ASSUME IInv, TitlesInv, NEW r \in Requests, NEW c, req' = [req EXCEPT ![r] = c],
           UNCHANGED <<programs, created, updated>>, used \subseteq used',
           c.pc # "write", c.pc = "emit" => c.key \notin ProgramIds \/ c.op = "publish",
           \A p \in ProgramIds : ~Tells(r, p)
    PROVE  TitlesInv'
<1>1. req'[r] = c
  BY DEF IInv, TypeOK
<1>2. HoldsTitle(r)'
  BY <1>1 DEF HoldsTitle, Tells
<1> QED BY <1>2, TitlesMove

LEMMA CreateProgramTitles ==
    ASSUME IInv, TitlesInv, NEW r \in Requests, NEW p \in ProgramIds, CreateProgram(r, p)
    PROVE  TitlesInv'
<1>1. PICK title \in Titles, status \in ContentStatus :
          /\ programs' = [programs EXCEPT ![p] =
                [title |-> title, status |-> status,
                 publishedAt |-> IF status = "PUBLISHED" THEN now ELSE None]]
          /\ ToEmit(r, "create", p, title)
  BY DEF CreateProgram
<1>2. /\ programs'[p].title = title
      /\ \A q \in ProgramIds : q # p => programs'[q] = programs[q]
  BY <1>1 DEF IInv, TypeOK
<1>3. /\ req'[r].pc = "emit" /\ req'[r].op = "create" /\ req'[r].key = p
      /\ req'[r].payload = title
      /\ \A s \in Requests : s # r => req'[s] = req[s]
  BY <1>1 DEF ToEmit, IInv, TypeOK, NoRequest
<1>4. /\ p \notin used /\ used' = used \cup {p} /\ UNCHANGED <<created, updated>>
      /\ req[r].pc = "idle"
  BY DEF CreateProgram, Accept, topics
<1>5. updated[p] = <<>>
  BY <1>4 DEF TitlesInv
<1>6. ASSUME NEW q \in ProgramIds PROVE Told(q)'
  <2>1. CASE q = p
    BY <1>3, <2>1 DEF Told, Tells
  <2>2. CASE q # p
    <3>1. \A s \in Requests : Tells(s, q) => Tells(s, q)'
      BY <1>3, <1>4 DEF Tells
    <3> QED BY <1>2, <1>4, <2>2, <3>1 DEF TitlesInv, Told, LastTitle
  <2> QED BY <2>1, <2>2
<1>7. HoldsTitle(r)'
  BY <1>2, <1>3, <1>4, <1>5 DEF HoldsTitle, Tells
<1>8. ASSUME NEW s \in Requests, s # r PROVE HoldsTitle(s)'
  <2>1. HoldsTitle(s) /\ req'[s] = req[s]
    BY <1>3, <1>8 DEF TitlesInv
  <2>2. req[s].pc = "write" => req[s].key \in ProgramIds /\ req[s].key # p
    BY <1>4 DEF IInv, Carries
  <2>3. ~Tells(s, p)
    BY <1>4, <2>1 DEF HoldsTitle
  <2> QED BY <1>2, <1>4, <2>1, <2>2, <2>3 DEF HoldsTitle, Tells
<1> QED BY <1>4, <1>6, <1>7, <1>8 DEF TitlesInv

\* Requests that have just read a program.
LEMMA ReadProgramTitles ==
    ASSUME IInv, TitlesInv, NEW r \in Requests, NEW p \in ProgramIds,
           UpdateProgram(r, p) \/ PublishProgram(r, p) \/ UnpublishProgram(r, p)
    PROVE  TitlesInv'
<1>1. PICK c : req' = [req EXCEPT ![r] = c] /\ c.pc = "write"
  BY GoesOnToWrite
<1>2. req'[r].pc = "write"
  BY <1>1 DEF IInv, TypeOK
<1>3. /\ req[r].pc = "idle"
      /\ UNCHANGED <<programs, used, created, updated>>
  BY DEF UpdateProgram, PublishProgram, UnpublishProgram, Accept, tables, topics
<1>4. /\ req'[r].key = p
      /\ \/ /\ req'[r].op = "update"
            /\ (req'[r].changed \/ req'[r].data.title \in {None, programs[p].title})
         \/ req'[r].data.title = None
  <2>1. CASE UpdateProgram(r, p)
    <3>1. PICK title \in Titles \cup {None}, status \in ContentStatus \cup {None} :
            /\ status # None => ValidTransition(programs[p].status, status)
            /\ req' = [req EXCEPT ![r] =
                  [NoRequest EXCEPT
                     !.pc = "write", !.op = "update", !.key = p,
                     !.data = [NoData EXCEPT
                        !.title = title, !.status = status,
                        !.publishedAt = DateToWrite(programs[p], status)],
                     !.changed = \/ Changes(title, programs[p].title)
                                 \/ Changes(status, programs[p].status)]]
      BY <2>1 DEF UpdateProgram
    <3>2. /\ req'[r].key = p /\ req'[r].op = "update" /\ req'[r].data.title = title
          /\ req'[r].changed = (\/ Changes(title, programs[p].title)
                                \/ Changes(status, programs[p].status))
      BY <3>1 DEF IInv, TypeOK, NoRequest, NoData
    <3> QED BY <3>2 DEF Changes
  <2>2. CASE PublishProgram(r, p)
    <3>1. req'[r].key = p /\ req'[r].data.title = None
      BY <2>2 DEF PublishProgram, IInv, TypeOK, NoRequest, NoData
    <3> QED BY <3>1
  <2>3. CASE UnpublishProgram(r, p)
    <3>1. req'[r].key = p /\ req'[r].data.title = None
      BY <2>3 DEF UnpublishProgram, IInv, TypeOK, NoRequest, NoData
    <3> QED BY <3>1
  <2> QED BY <2>1, <2>2, <2>3
<1>5. HoldsTitle(r)'
  BY <1>2, <1>3, <1>4 DEF HoldsTitle, Tells
<1>6. \A q \in ProgramIds : ~Tells(r, q)
  BY <1>3 DEF Tells
<1> QED BY <1>1, <1>3, <1>5, <1>6, TitlesMove

LEMMA WriteProgramTitles ==
    ASSUME IInv, TitlesInv, ProgramsOneByOne, NEW r \in Requests, WriteProgram(r)
    PROVE  TitlesInv'
<1> DEFINE p == req[r].key
           row == MergeProgram(programs[p], req[r].data)
<1>1. /\ req[r].pc = "write" /\ p \in ProgramIds /\ p \in used
      /\ UNCHANGED <<used, created, updated>>
  BY DEF WriteProgram, IInv, Carries, topics
<1>2. \A q \in ProgramIds : ~Tells(r, q)
  BY <1>1 DEF Tells
<1>3. CASE programs[p] = None
  <2>1. req' = [req EXCEPT ![r] = NoRequest] /\ UNCHANGED programs
    BY <1>3 DEF WriteProgram, End
  <2>2. NoRequest.pc = "idle"
    BY DEF NoRequest
  <2> QED BY <1>1, <1>2, <2>1, <2>2, TitlesElsewhere
<1>4. ASSUME programs[p] # None
      PROVE  /\ programs'[p] = row
             /\ \A q \in ProgramIds : q # p => programs'[q] = programs[q]
             /\ \/ req[r].op = "publish" /\ ToEmit(r, "publish", p, row.publishedAt)
                \/ req[r].op = "update" /\ req[r].changed /\ ToEmit(r, "update", p, row.title)
                \/ req[r].op = "update" /\ ~req[r].changed /\ End(r)
                \/ req[r].op = "unpublish" /\ End(r)
  BY <1>1, <1>4 DEF WriteProgram, IInv, TypeOK
<1>5. row.title = Merge(req[r].data.title, programs[p].title)
  BY DEF MergeProgram
<1> HIDE DEF row
<1>6. CASE programs[p] # None /\ ~(req[r].op = "update" /\ req[r].changed)
  <2>1. row.title = programs[p].title
    BY <1>1, <1>5, <1>6 DEF TitlesInv, HoldsTitle, Merge
  <2>2. \A q \in ProgramIds : programs'[q] # None =>
           programs[q] # None /\ programs'[q].title = programs[q].title
    BY <1>4, <1>6, <2>1
  <2>3. End(r) \/ ToEmit(r, "publish", p, row.publishedAt)
    BY <1>4, <1>6
  <2>4. PICK c : req' = [req EXCEPT ![r] = c] /\ c.pc \in {"idle", "emit"}
    BY <2>3, EndsOrTells
  <2>5. /\ req'[r].pc \in {"idle", "emit"}
        /\ req'[r].pc = "emit" => req'[r].op = "publish"
    <3>1. End(r) => req'[r].pc = "idle"
      BY DEF End, IInv, TypeOK, NoRequest
    <3>2. ToEmit(r, "publish", p, row.publishedAt) =>
             req'[r].pc = "emit" /\ req'[r].op = "publish"
      BY DEF ToEmit, IInv, TypeOK, NoRequest
    <3> QED BY <2>3, <3>1, <3>2
  <2>6. HoldsTitle(r)'
    BY <2>5 DEF HoldsTitle, Tells
  <2> QED BY <1>1, <1>2, <2>2, <2>4, <2>6, TitlesMove
<1>7. CASE programs[p] # None /\ req[r].op = "update" /\ req[r].changed
  <2>1. ToEmit(r, "update", p, row.title)
    BY <1>4, <1>7
  <2>2. /\ req'[r].pc = "emit" /\ req'[r].op = "update" /\ req'[r].key = p
        /\ req'[r].payload = row.title
        /\ \A s \in Requests : s # r => req'[s] = req[s]
    BY <2>1 DEF ToEmit, IInv, TypeOK, NoRequest
  <2>3. ASSUME NEW q \in ProgramIds PROVE Told(q)'
    <3>1. CASE q = p
      BY <2>2, <3>1 DEF Told, Tells
    <3>2. CASE q # p
      <4>1. \A s \in Requests : Tells(s, q) => Tells(s, q)'
        BY <1>2, <2>2 DEF Tells
      <4> QED BY <1>1, <1>4, <1>7, <3>2, <4>1 DEF TitlesInv, Told, LastTitle
    <3> QED BY <3>1, <3>2
  <2>4. HoldsTitle(r)'
    BY <1>1, <1>4, <1>7, <2>2 DEF HoldsTitle, Tells
  <2>5. ASSUME NEW s \in Requests, s # r PROVE HoldsTitle(s)'
    <3>1. HoldsTitle(s) /\ req'[s] = req[s]
      BY <2>2, <2>5 DEF TitlesInv
    <3>2. /\ ~Tells(s, p)
          /\ ~(req[s].pc = "write" /\ req[s].op = "update" /\ req[s].key = p)
      BY <1>1, <1>7, <2>5 DEF ProgramsOneByOne, About, Tells
    <3>3. req[s].pc = "write" => req[s].key \in ProgramIds
      BY DEF IInv, Carries
    <3> QED BY <1>1, <1>4, <1>7, <3>1, <3>2, <3>3 DEF HoldsTitle, Tells
  <2> QED BY <1>1, <2>3, <2>4, <2>5 DEF TitlesInv
<1> QED BY <1>3, <1>6, <1>7

\* The title of a program is told.
LEMMA EmitTitles ==
    ASSUME IInv, TitlesInv, ProgramsOneByOne, NEW r \in Requests,
           EmitContentCreated(r) \/ EmitContentUpdated(r)
    PROVE  TitlesInv'
<1>0. PICK p, title : p = req[r].key /\ title = req[r].payload
  OBVIOUS
<1>1. /\ req[r].pc = "emit" /\ req[r].op \in {"create", "update"} /\ p \in Ids
      /\ UNCHANGED <<programs, used>> /\ End(r)
  BY <1>0 DEF EmitContentCreated, EmitContentUpdated, IInv, Carries, tables
<1>2. req'[r].pc = "idle" /\ \A s \in Requests : s # r => req'[s] = req[s]
  BY <1>0, <1>1 DEF End, IInv, TypeOK, NoRequest
<1>3. \A q \in ProgramIds : q # p => created'[q] = created[q] /\ updated'[q] = updated[q]
  BY <1>0, <1>1, ProgramsAreNoEpisodes DEF EmitContentCreated, EmitContentUpdated, IInv, TypeOK
<1>4. ASSUME p \in ProgramIds
      PROVE  /\ p \in used
             /\ programs[p] # None => LastTitle(p)' = programs[p].title
  <2>1. /\ p \in used /\ (programs[p] # None => title = programs[p].title)
        /\ req[r].op = "create" => updated[p] = <<>>
    BY <1>0, <1>1, <1>4 DEF TitlesInv, HoldsTitle, Tells
  <2>2. LastTitle(p)' = title
    <3>1. CASE EmitContentUpdated(r)
      <4>1. updated[p] \in Seq(Titles) /\ title \in Titles
        BY <1>0, <1>1, <3>1 DEF EmitContentUpdated, IInv, TypeOK, Carries
      <4>2. updated'[p] = Append(updated[p], title)
        BY <1>0, <1>1, <3>1 DEF EmitContentUpdated, IInv, TypeOK
      <4>3. updated'[p] # <<>> /\ updated'[p][Len(updated'[p])] = title
        BY <4>1, <4>2
      <4> QED BY <4>3 DEF LastTitle
    <3>2. CASE EmitContentCreated(r)
      <4>1. created[p] \in Seq(Titles) /\ title \in Titles
        BY <1>0, <1>1, <3>2 DEF EmitContentCreated, IInv, TypeOK, Carries
      <4>2. created'[p] = Append(created[p], title)
        BY <1>0, <1>1, <3>2 DEF EmitContentCreated, IInv, TypeOK
      <4>3. created'[p] # <<>> /\ created'[p][Len(created'[p])] = title
        BY <4>1, <4>2
      <4>4. updated'[p] = <<>>
        BY <1>0, <2>1, <3>2 DEF EmitContentCreated
      <4> QED BY <4>3, <4>4 DEF LastTitle
    <3> QED BY <3>1, <3>2
  <2> QED BY <2>1, <2>2
<1>5. ASSUME NEW q \in ProgramIds PROVE Told(q)'
  <2>1. CASE q = p
    BY <1>0, <1>1, <1>4, <2>1 DEF Told
  <2>2. CASE q # p
    <3>1. \A s \in Requests : Tells(s, q) => Tells(s, q)'
      BY <1>0, <1>2, <2>2 DEF Tells
    <3> QED BY <1>0, <1>1, <1>3, <2>2, <3>1 DEF TitlesInv, Told, LastTitle
  <2> QED BY <2>1, <2>2
<1>6. HoldsTitle(r)'
  BY <1>0, <1>2 DEF HoldsTitle, Tells
<1>7. ASSUME NEW s \in Requests, s # r PROVE HoldsTitle(s)'
  <2>1. HoldsTitle(s) /\ req'[s] = req[s]
    BY <1>2, <1>7 DEF TitlesInv
  <2>2. \A q \in ProgramIds : Tells(s, q) => q # p
    BY <1>0, <1>1, <1>7 DEF ProgramsOneByOne, About, Tells
  <2> QED BY <1>0, <1>1, <1>3, <2>1, <2>2 DEF HoldsTitle, Tells
<1>8. \A q \in ProgramIds \ used : q # p
  BY <1>4
<1> QED BY <1>0, <1>1, <1>3, <1>5, <1>6, <1>7, <1>8 DEF TitlesInv

\* Handlers of episodes, and content.published.
LEMMA OtherTitles ==
    ASSUME IInv, TitlesInv, NEW r \in Requests,
           \/ \E p \in ProgramIds : CreateEpisode(r, p)
           \/ \E e \in EpisodeIds : UpdateEpisode(r, e)
           \/ InsertEpisode(r) \/ CheckNumber(r) \/ WriteEpisode(r)
           \/ EmitContentPublished(r)
    PROVE  TitlesInv'
<1>1. UNCHANGED <<programs, created, updated>> /\ used \subseteq used'
  BY DEF CreateEpisode, UpdateEpisode, InsertEpisode, CheckNumber, WriteEpisode,
         EmitContentPublished, tables, topics
<1>2. \A p \in ProgramIds : ~Tells(r, p)
  BY DEF CreateEpisode, UpdateEpisode, InsertEpisode, CheckNumber, WriteEpisode,
         EmitContentPublished, Tells, Accept
<1>3. ASSUME NEW c, req' = [req EXCEPT ![r] = c],
             c.pc \notin {"write", "emit"} \/ (c.pc = "emit" /\ c.key \in EpisodeIds)
      PROVE  TitlesInv'
  BY <1>1, <1>2, <1>3, TitlesElsewhere, ProgramsAreNoEpisodes
<1>4. ASSUME End(r) PROVE TitlesInv'
  <2>1. NoRequest.pc = "idle"
    BY DEF NoRequest
  <2> QED BY <1>3, <1>4, <2>1 DEF End
<1>5. ASSUME NEW op, NEW e \in EpisodeIds, NEW payload, ToEmit(r, op, e, payload)
      PROVE  TitlesInv'
  <2> DEFINE c == [NoRequest EXCEPT !.pc = "emit", !.op = op, !.key = e, !.payload = payload]
  <2>1. c.pc = "emit" /\ c.key = e
    BY DEF NoRequest
  <2>2. req' = [req EXCEPT ![r] = c]
    BY <1>5 DEF ToEmit
  <2> HIDE DEF c
  <2> QED BY <1>3, <2>1, <2>2
<1>6. ASSUME NEW p \in ProgramIds, CreateEpisode(r, p) PROVE TitlesInv'
  <2>1. PICK title \in Titles, number \in Numbers, status \in ContentStatus :
          /\ NumberFree(p, number, None)
          /\ req' = [req EXCEPT ![r] =
                [NoRequest EXCEPT !.pc = "insertEpisode", !.op = "create",
                   !.data = [NoData EXCEPT !.title = title, !.number = number,
                                           !.status = status, !.program = p]]]
    BY <1>6 DEF CreateEpisode
  <2> DEFINE c == [NoRequest EXCEPT !.pc = "insertEpisode", !.op = "create",
                   !.data = [NoData EXCEPT !.title = title, !.number = number,
                                           !.status = status, !.program = p]]
  <2>2. c.pc = "insertEpisode"
    BY DEF NoRequest
  <2>3. req' = [req EXCEPT ![r] = c]
    BY <2>1
  <2> HIDE DEF c
  <2> QED BY <1>3, <2>2, <2>3
<1>7. ASSUME NEW e \in EpisodeIds, UpdateEpisode(r, e) PROVE TitlesInv'
  <2>1. PICK title \in Titles \cup {None}, number \in Numbers \cup {None},
             status \in ContentStatus \cup {None} :
          /\ status # None => ValidTransition(episodes[e].status, status)
          /\ req' = [req EXCEPT ![r] =
                [NoRequest EXCEPT
                   !.pc = IF Changes(number, episodes[e].number)
                          THEN "checkNumber" ELSE "writeEpisode",
                   !.op = "update", !.key = e,
                   !.data = [NoData EXCEPT !.title = title, !.number = number,
                                           !.status = status,
                                           !.program = episodes[e].program],
                   !.changed = \/ Changes(title, episodes[e].title)
                               \/ Changes(number, episodes[e].number)
                               \/ Changes(status, episodes[e].status)]]
    BY <1>7 DEF UpdateEpisode
  <2> DEFINE c == [NoRequest EXCEPT
                   !.pc = IF Changes(number, episodes[e].number)
                          THEN "checkNumber" ELSE "writeEpisode",
                   !.op = "update", !.key = e,
                   !.data = [NoData EXCEPT !.title = title, !.number = number,
                                           !.status = status,
                                           !.program = episodes[e].program],
                   !.changed = \/ Changes(title, episodes[e].title)
                               \/ Changes(number, episodes[e].number)
                               \/ Changes(status, episodes[e].status)]
  <2>2. c.pc \in {"checkNumber", "writeEpisode"}
    BY DEF NoRequest
  <2>3. req' = [req EXCEPT ![r] = c]
    BY <2>1
  <2> HIDE DEF c
  <2> QED BY <1>3, <2>2, <2>3
<1>8. CASE InsertEpisode(r)
  <2>1. \/ End(r)
        \/ \E e \in EpisodeIds : \E title : ToEmit(r, "create", e, title)
    BY <1>8 DEF InsertEpisode
  <2> QED BY <1>4, <1>5, <2>1
<1>9. CASE CheckNumber(r)
  <2> DEFINE c == [req[r] EXCEPT !.pc = "writeEpisode"]
  <2>1. End(r) \/ req' = [req EXCEPT ![r] = c]
    BY <1>9 DEF CheckNumber
  <2>2. c.pc = "writeEpisode"
    BY DEF IInv, TypeOK, Request
  <2> HIDE DEF c
  <2> QED BY <1>3, <1>4, <2>1, <2>2
<1>10. CASE WriteEpisode(r)
  <2>1. req[r].key \in EpisodeIds
    BY <1>10 DEF WriteEpisode, IInv, Carries
  <2>2. End(r) \/ \E title : ToEmit(r, "update", req[r].key, title)
    BY <1>10 DEF WriteEpisode
  <2> QED BY <1>4, <1>5, <2>1, <2>2
<1>11. CASE EmitContentPublished(r)
  BY <1>4, <1>11 DEF EmitContentPublished
<1> QED BY <1>6, <1>7, <1>8, <1>9, <1>10, <1>11

LEMMA NextTitles ==
    ASSUME ~Failures, IInv, TitlesInv, ProgramsOneByOne, [Next]_vars
    PROVE  TitlesInv'
<1>1. ASSUME NEW p \in ProgramIds, DeleteProgram(p) PROVE TitlesInv'
  <2>1. \A q \in ProgramIds : programs'[q] \in {programs[q], None}
    BY <1>1 DEF DeleteProgram, IInv, TypeOK
  <2>2. UNCHANGED <<req, used, created, updated>>
    BY <1>1 DEF DeleteProgram, topics
  <2> QED BY <2>1, <2>2, TitlesStay
<1>2. ASSUME UNCHANGED <<programs, req, used, created, updated>> PROVE TitlesInv'
  BY <1>2, TitlesStay
<1>3. ASSUME NEW e \in EpisodeIds, DeleteEpisode(e) PROVE TitlesInv'
  BY <1>2, <1>3 DEF DeleteEpisode, topics
<1>4. CASE Clock \/ UNCHANGED vars
  BY <1>2, <1>4 DEF Clock, vars, tables, topics
<1>5. ASSUME NEW r \in Requests, Abort(r) PROVE FALSE
  BY <1>5 DEF Abort
<1>6. ASSUME NEW r \in Requests, Handle(r) PROVE TitlesInv'
  BY <1>6, WriteProgramTitles, EmitTitles, OtherTitles DEF Handle
<1>7. ASSUME NEW r \in Requests, NEW p \in ProgramIds,
             \/ CreateProgram(r, p) \/ UpdateProgram(r, p) \/ PublishProgram(r, p)
             \/ UnpublishProgram(r, p) \/ CreateEpisode(r, p)
      PROVE  TitlesInv'
  BY <1>7, CreateProgramTitles, ReadProgramTitles, OtherTitles
<1>8. ASSUME NEW r \in Requests, NEW e \in EpisodeIds, UpdateEpisode(r, e) PROVE TitlesInv'
  BY <1>8, OtherTitles
<1> QED BY <1>1, <1>3, <1>4, <1>5, <1>6, <1>7, <1>8 DEF Next

\* Once no request is under way the last event of a program tells its title, as long
\* as nothing fails and of each program only one request that may change its title
\* is under way; it may be published, unpublished or deleted meanwhile.
\* ProgramService.create and update with KafkaService.
THEOREM TitlesTold ==
    ASSUME ~Failures PROVE Spec /\ []ProgramsOneByOne => []EventsTellTitle
<1>1. Init => TitlesInv
  BY ProgramsAreNoEpisodes DEF Init, TitlesInv, Told, HoldsTitle, Tells, NoRequest
<1>2. IInv /\ TitlesInv /\ ProgramsOneByOne /\ [Next]_vars => TitlesInv'
  BY NextTitles
<1>3. TitlesInv => EventsTellTitle
  BY DEF TitlesInv, EventsTellTitle, Quiet, Told, Tells
<1> QED BY <1>1, <1>2, <1>3, Invariant, PTL DEF Spec
=============================================================================
