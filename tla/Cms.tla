--------------------------------- MODULE Cms ---------------------------------
(***************************************************************************)
(* CMS service: programs, their episodes, and the content events.          *)
(*                                                                         *)
(* A request is served by an asynchronous handler: it reads a row, checks  *)
(* what it read, writes the row (only the fields it has a value for) and   *)
(* then sends an event.  Between these awaits other requests run, so what  *)
(* was read may be stale when it is written back.  req[r] is the r-th      *)
(* request under way and what its handler holds across its awaits.         *)
(* The three topics are keyed by contentId; each is a sequence per key.    *)
(***************************************************************************)
EXTENDS Naturals, Sequences, FiniteSets

CONSTANTS
    ProgramIds,   \* uuids the database may give programs
    EpisodeIds,   \* uuids the database may give episodes
    Requests,     \* bound: requests under way at once
    MaxServed,    \* bound: requests accepted in one behaviour
    Titles,
    Numbers,      \* episode numbers asked for, 0 among them
    MaxNow,       \* bound: instants of new Date()
    SiblingPage,  \* episodes read to check a number: 1000 in the code
    Failures,     \* may a handler be cut short (database or broker error,
                  \* or a restart of the process)?
    None          \* undefined; also the row of an id that is not stored

ASSUME CmsAssumption ==
    /\ ProgramIds \cap EpisodeIds = {}
    /\ MaxServed \in Nat /\ MaxNow \in Nat /\ SiblingPage \in Nat
    /\ Numbers \subseteq Nat
    /\ Failures \in BOOLEAN
    /\ None \notin Titles /\ None \notin Nat
    /\ None \notin {"DRAFT", "PUBLISHED", "ARCHIVED"} \cup ProgramIds \cup EpisodeIds

VARIABLES
    programs, episodes,          \* the tables: id -> row or None
    used,                        \* ids handed out so far
    req,                         \* requests under way
    served,                      \* requests accepted so far
    now,                         \* new Date()
    created, updated, published  \* topics content.created, .updated, .published

tables == <<programs, episodes, used>>
topics == <<created, updated, published>>
vars == <<tables, req, served, now, topics>>

-----------------------------------------------------------------------------
ContentStatus == {"DRAFT", "PUBLISHED", "ARCHIVED"}
Times == 0..MaxNow
Ids == ProgramIds \cup EpisodeIds

Program == [title : Titles, status : ContentStatus, publishedAt : Times \cup {None}]
Episode == [program : ProgramIds, title : Titles, number : Numbers,
            status : ContentStatus]

\* An id that is not stored can be told from one that is.
ASSUME NoneIsNoRow == None \notin Program \cup Episode

\* What a handler means to write: None for a field left alone.
Data == [title : Titles \cup {None},
         status : ContentStatus \cup {None},
         publishedAt : Times \cup {None},
         number : Numbers \cup {None},
         program : ProgramIds \cup {None}]
NoData == [title |-> None, status |-> None, publishedAt |-> None,
           number |-> None, program |-> None]

Ops == {"none", "create", "update", "publish", "unpublish"}
Pcs == {"idle", "write", "insertEpisode", "checkNumber", "writeEpisode", "emit"}

\* changed: were there changes to announce?  payload: what the event will say
\* (a title, or for content.published the date).
Request == [pc : Pcs, op : Ops, key : Ids \cup {None}, data : Data,
            changed : BOOLEAN, payload : Titles \cup Times \cup {None}]
NoRequest == [pc |-> "idle", op |-> "none", key |-> None, data |-> NoData,
              changed |-> FALSE, payload |-> None]

Init ==
    /\ programs = [p \in ProgramIds |-> None]
    /\ episodes = [e \in EpisodeIds |-> None]
    /\ used = {}
    /\ req = [r \in Requests |-> NoRequest]
    /\ served = 0
    /\ now = 0
    /\ created = [c \in Ids |-> <<>>]
    /\ updated = [c \in Ids |-> <<>>]
    /\ published = [p \in ProgramIds |-> <<>>]

\* Mutant of Merge: undefined is written as null.
MergeOverwriting(new, old) == new

\* The value a PATCH-like write leaves in a field.
Merge(new, old) == IF new = None THEN old ELSE new

\* Mutant of Changes: only a field set for the first time counts.
ChangesWhenUnset(new, old) == new # None /\ old = None

\* Is new given, and different from old?
Changes(new, old) == new # None /\ new # old

\* Mutant of ValidTransition: a program may be archived after publication.
ValidTransitionToArchive(current, new) ==
    \/ current = new
    \/ current = "DRAFT" /\ new = "PUBLISHED"
    \/ current = "PUBLISHED" /\ new # "PUBLISHED"

\* validateStatusTransition
ValidTransition(current, new) ==
    \/ current = new
    \/ current = "DRAFT" /\ new = "PUBLISHED"
    \/ current = "PUBLISHED" /\ new = "DRAFT"

Accept(r) == req[r].pc = "idle" /\ served < MaxServed /\ served' = served + 1
End(r) == req' = [req EXCEPT ![r] = NoRequest]

\* Mutant of ToEmit: the handler of a creation ends after its insert.
ToEmitExceptCreate(r, op, key, payload) ==
    req' = [req EXCEPT ![r] =
        IF op = "create" THEN NoRequest
        ELSE [NoRequest EXCEPT !.pc = "emit", !.op = op,
                               !.key = key, !.payload = payload]]

\* The handler goes on to send its event.
ToEmit(r, op, key, payload) ==
    req' = [req EXCEPT ![r] = [NoRequest EXCEPT !.pc = "emit", !.op = op,
                                                !.key = key, !.payload = payload]]

-----------------------------------------------------------------------------
(* ProgramService                                                          *)

CreateProgram(r, p) ==
    /\ Accept(r)
    /\ p \notin used /\ used' = used \cup {p}
    /\ \E title \in Titles, status \in ContentStatus :
          /\ programs' = [programs EXCEPT ![p] =
                [title |-> title, status |-> status,
                 publishedAt |-> IF status = "PUBLISHED" THEN now ELSE None]]
          /\ ToEmit(r, "create", p, title)
    /\ UNCHANGED <<episodes, now, topics>>

\* Mutant of DateToWrite: only publish() sets the date.
DateAsRead(program, status) == program.publishedAt

\* The date update() will write: the one it read, or now when it publishes a
\* program that has none.
DateToWrite(program, status) ==
    IF status = "PUBLISHED" /\ program.publishedAt = None
    THEN now ELSE program.publishedAt

\* update() up to its write.
UpdateProgram(r, p) ==
    /\ Accept(r)
    /\ programs[p] # None
    /\ \E title \in Titles \cup {None}, status \in ContentStatus \cup {None} :
          /\ status # None => ValidTransition(programs[p].status, status)
          /\ req' = [req EXCEPT ![r] =
                [NoRequest EXCEPT
                   !.pc = "write", !.op = "update", !.key = p,
                   !.data = [NoData EXCEPT
                      !.title = title, !.status = status,
                      !.publishedAt = DateToWrite(programs[p], status)],
                   !.changed = \/ Changes(title, programs[p].title)
                               \/ Changes(status, programs[p].status)]]
    /\ UNCHANGED <<tables, now, topics>>

\* publish() up to its write; it refuses all but a DRAFT.
PublishProgram(r, p) ==
    /\ Accept(r)
    /\ programs[p] # None /\ programs[p].status = "DRAFT"
    /\ req' = [req EXCEPT ![r] =
          [NoRequest EXCEPT !.pc = "write", !.op = "publish", !.key = p,
             !.data = [NoData EXCEPT !.status = "PUBLISHED", !.publishedAt = now]]]
    /\ UNCHANGED <<tables, now, topics>>

\* unpublish() up to its write; it refuses all but a PUBLISHED program.
UnpublishProgram(r, p) ==
    /\ Accept(r)
    /\ programs[p] # None /\ programs[p].status = "PUBLISHED"
    /\ req' = [req EXCEPT ![r] =
          [NoRequest EXCEPT !.pc = "write", !.op = "unpublish", !.key = p,
             !.data = [NoData EXCEPT !.status = "DRAFT"]]]
    /\ UNCHANGED <<tables, now, topics>>

\* Mutant of MergeProgram: unpublishing clears the date.
MergeProgramClearingDate(row, data) ==
    [title |-> Merge(data.title, row.title),
     status |-> Merge(data.status, row.status),
     publishedAt |-> IF data.status = "DRAFT" THEN None
                     ELSE Merge(data.publishedAt, row.publishedAt)]

\* ProgramRepository.update: only the fields that are given.
MergeProgram(row, data) ==
    [title |-> Merge(data.title, row.title),
     status |-> Merge(data.status, row.status),
     publishedAt |-> Merge(data.publishedAt, row.publishedAt)]

\* The write, and what the handler does with the row it returns: unpublish()
\* sends nothing, update() only when it found changes.
WriteProgram(r) ==
    LET p == req[r].key
        row == MergeProgram(programs[p], req[r].data)
    IN /\ req[r].pc = "write"
       /\ IF programs[p] = None
          THEN End(r) /\ UNCHANGED programs
          ELSE /\ programs' = [programs EXCEPT ![p] = row]
               /\ \/ req[r].op = "publish" /\ ToEmit(r, "publish", p, row.publishedAt)
                  \/ req[r].op = "update" /\ req[r].changed
                                          /\ ToEmit(r, "update", p, row.title)
                  \/ req[r].op = "update" /\ ~req[r].changed /\ End(r)
                  \/ req[r].op = "unpublish" /\ End(r)
       /\ UNCHANGED <<episodes, used, served, now, topics>>

EpisodesOf(p) == {e \in EpisodeIds : episodes[e] # None /\ episodes[e].program = p}

\* Mutant of AfterCascade: the foreign key does not cascade.
AfterNoCascade(p) == episodes

\* onDelete: Cascade
AfterCascade(p) ==
    [e \in EpisodeIds |-> IF e \in EpisodesOf(p) THEN None ELSE episodes[e]]

\* delete(): the foreign key cascades to the episodes; no event is sent.
DeleteProgram(p) ==
    /\ programs[p] # None
    /\ programs' = [programs EXCEPT ![p] = None]
    /\ episodes' = AfterCascade(p)
    /\ UNCHANGED <<used, req, served, now, topics>>

-----------------------------------------------------------------------------
(* EpisodeService                                                          *)

\* findByProgramId(programId, 0, 1000), ordered by number.
Siblings(p) ==
    {e \in EpisodesOf(p) :
        Cardinality({f \in EpisodesOf(p) : episodes[f].number < episodes[e].number})
           < SiblingPage}

\* Mutant of NumberFree: create() does not check.
NumberFreeForUpdates(p, number, self) ==
    \A e \in Siblings(p) : self # None /\ e # self => episodes[e].number # number

\* Is the number free for an episode of p, as far as the page tells?
NumberFree(p, number, self) ==
    \A e \in Siblings(p) : e # self => episodes[e].number # number

\* create() up to its insert.  A program deleted between its two reads only
\* makes the insert fail, so they are one step.
CreateEpisode(r, p) ==
    /\ Accept(r)
    /\ programs[p] # None
    /\ \E title \in Titles, number \in Numbers, status \in ContentStatus :
          /\ NumberFree(p, number, None)
          /\ number >= 1
          /\ req' = [req EXCEPT ![r] =
                [NoRequest EXCEPT !.pc = "insertEpisode", !.op = "create",
                   !.data = [NoData EXCEPT !.title = title, !.number = number,
                                           !.status = status, !.program = p]]]
    /\ UNCHANGED <<tables, now, topics>>

\* The insert; the foreign key refuses it when the program is gone.
InsertEpisode(r) ==
    LET data == req[r].data
    IN /\ req[r].pc = "insertEpisode"
       /\ \/ /\ programs[data.program] = None
             /\ End(r)
             /\ UNCHANGED <<episodes, used>>
          \/ /\ programs[data.program] # None
             /\ \E e \in EpisodeIds \ used :
                   /\ used' = used \cup {e}
                   /\ episodes' = [episodes EXCEPT ![e] =
                         [program |-> data.program, title |-> data.title,
                          number |-> data.number, status |-> data.status]]
                   /\ ToEmit(r, "create", e, data.title)
       /\ UNCHANGED <<programs, served, now, topics>>

\* update() up to its next await: the check of a changed number, or the write.
UpdateEpisode(r, e) ==
    /\ Accept(r)
    /\ episodes[e] # None
    /\ \E title \in Titles \cup {None}, number \in Numbers \cup {None},
          status \in ContentStatus \cup {None} :
          /\ status # None => ValidTransition(episodes[e].status, status)
          /\ req' = [req EXCEPT ![r] =
                [NoRequest EXCEPT
                   !.pc = IF Changes(number, episodes[e].number)
                          THEN "checkNumber" ELSE "writeEpisode",
                   !.op = "update", !.key = e,
                   !.data = [NoData EXCEPT !.title = title, !.number = number,
                                           !.status = status,
                                           !.program = episodes[e].program],
                   !.changed = \/ Changes(title, episodes[e].title)
                               \/ Changes(number, episodes[e].number)
                               \/ Changes(status, episodes[e].status)]]
    /\ UNCHANGED <<tables, now, topics>>

CheckNumber(r) ==
    LET data == req[r].data
        ok == NumberFree(data.program, data.number, req[r].key) /\ data.number >= 1
    IN /\ req[r].pc = "checkNumber"
       /\ IF ok THEN req' = [req EXCEPT ![r].pc = "writeEpisode"] ELSE End(r)
       /\ UNCHANGED <<tables, served, now, topics>>

\* EpisodeRepository.update; the program is read again for the event only.
WriteEpisode(r) ==
    LET e == req[r].key
        data == req[r].data
        row == [program |-> episodes[e].program,
                title |-> Merge(data.title, episodes[e].title),
                number |-> Merge(data.number, episodes[e].number),
                status |-> Merge(data.status, episodes[e].status)]
    IN /\ req[r].pc = "writeEpisode"
       /\ IF episodes[e] = None
          THEN End(r) /\ UNCHANGED episodes
          ELSE /\ episodes' = [episodes EXCEPT ![e] = row]
               /\ IF req[r].changed THEN ToEmit(r, "update", e, row.title) ELSE End(r)
       /\ UNCHANGED <<programs, used, served, now, topics>>

\* delete(): no event is sent.
DeleteEpisode(e) ==
    /\ episodes[e] # None
    /\ episodes' = [episodes EXCEPT ![e] = None]
    /\ UNCHANGED <<programs, used, req, served, now, topics>>

-----------------------------------------------------------------------------
(* KafkaService                                                            *)

EmitContentCreated(r) ==
    /\ req[r].pc = "emit" /\ req[r].op = "create"
    /\ created' = [created EXCEPT ![req[r].key] = Append(@, req[r].payload)]
    /\ End(r)
    /\ UNCHANGED <<tables, served, now, updated, published>>

EmitContentUpdated(r) ==
    /\ req[r].pc = "emit" /\ req[r].op = "update"
    /\ updated' = [updated EXCEPT ![req[r].key] = Append(@, req[r].payload)]
    /\ End(r)
    /\ UNCHANGED <<tables, served, now, created, published>>

EmitContentPublished(r) ==
    /\ req[r].pc = "emit" /\ req[r].op = "publish"
    /\ published' = [published EXCEPT ![req[r].key] = Append(@, req[r].payload)]
    /\ End(r)
    /\ UNCHANGED <<tables, served, now, created, updated>>

\* A database call fails and the request with it, the producer fails and its
\* error is swallowed, or the process stops.
Abort(r) ==
    /\ Failures
    /\ req[r].pc # "idle"
    /\ End(r)
    /\ UNCHANGED <<tables, served, now, topics>>

Clock == now < MaxNow /\ now' = now + 1 /\ UNCHANGED <<tables, req, served, topics>>

-----------------------------------------------------------------------------
Handle(r) ==
    \/ WriteProgram(r)
    \/ InsertEpisode(r)
    \/ CheckNumber(r)
    \/ WriteEpisode(r)
    \/ EmitContentCreated(r)
    \/ EmitContentUpdated(r)
    \/ EmitContentPublished(r)

Next ==
    \/ \E r \in Requests :
          \/ \E p \in ProgramIds :
                \/ CreateProgram(r, p)
                \/ UpdateProgram(r, p)
                \/ PublishProgram(r, p)
                \/ UnpublishProgram(r, p)
                \/ CreateEpisode(r, p)
          \/ \E e \in EpisodeIds : UpdateEpisode(r, e)
          \/ Handle(r)
          \/ Abort(r)
    \/ \E p \in ProgramIds : DeleteProgram(p)
    \/ \E e \in EpisodeIds : DeleteEpisode(e)
    \/ Clock

Spec == Init /\ [][Next]_vars

\* Prisma and the producer answer, or fail, in bounded time.
Fairness == \A r \in Requests : WF_vars(Handle(r))

FairSpec == Spec /\ Fairness
-----------------------------------------------------------------------------
(* Properties.                                                             *)

\* Every table, request and topic holds values of its type.
TypeOK ==
    /\ programs \in [ProgramIds -> Program \cup {None}]
    /\ episodes \in [EpisodeIds -> Episode \cup {None}]
    /\ used \subseteq Ids
    /\ req \in [Requests -> Request]
    /\ served \in Nat
    /\ now \in Times
    /\ created \in [Ids -> Seq(Titles)]
    /\ updated \in [Ids -> Seq(Titles)]
    /\ published \in [ProgramIds -> Seq(Times)]

\* No episode outlives its program, though create() looks the program up long
\* before it inserts, and delete() of the program may come in between.
EpisodesHaveProgram ==
    \A e \in EpisodeIds :
        episodes[e] # None => programs[episodes[e].program] # None

\* A PUBLISHED program has its date, whichever handler published it and
\* whatever it had read, and no date lies in the future.
PublishedHasDate ==
    \A p \in ProgramIds : programs[p] # None =>
        /\ programs[p].status = "PUBLISHED" => programs[p].publishedAt # None
        /\ programs[p].publishedAt # None => programs[p].publishedAt <= now

\* "Don't clear publishedAt when unpublishing, keep history": a date once set
\* is never unset while the program is stored.
PublishedAtKept ==
    [][\A p \in ProgramIds :
          /\ programs[p] # None /\ programs'[p] # None
          /\ programs[p].publishedAt # None
          => programs'[p].publishedAt # None]_vars

\* validateStatusTransition, publish() and unpublish() all judge a status that
\* was read earlier; still no row ever enters or leaves ARCHIVED.
ArchivedIsFinal ==
    [][/\ \A p \in ProgramIds : programs[p] # None /\ programs'[p] # None =>
             (programs[p].status = "ARCHIVED" <=> programs'[p].status = "ARCHIVED")
       /\ \A e \in EpisodeIds : episodes[e] # None /\ episodes'[e] # None =>
             (episodes[e].status = "ARCHIVED" <=> episodes'[e].status = "ARCHIVED")]_vars

\* No request is under way.
Quiet == \A r \in Requests : req[r].pc = "idle"

\* "Validate episode number is unique for this program."
EpisodeNumbersUnique ==
    \A p \in ProgramIds : \A e, f \in EpisodesOf(p) :
        episodes[e].number = episodes[f].number => e = f

\* Once no request is under way the last event of a program tells its title:
\* a consumer that applies every event ends up with the row.
LastTitle(p) ==
    IF updated[p] # <<>> THEN updated[p][Len(updated[p])]
    ELSE IF created[p] # <<>> THEN created[p][Len(created[p])] ELSE None
EventsTellTitle ==
    Quiet => \A p \in ProgramIds :
        programs[p] # None => LastTitle(p) = programs[p].title

\* "Emit content.published when content is published."
PublishedIsAnnounced ==
    Quiet => \A p \in ProgramIds :
        programs[p] # None /\ programs[p].status = "PUBLISHED" => published[p] # <<>>

\* "Emit content.updated when program/episode is updated": a write that
\* changes a status leaves its handler with an event to send.
StatusChangesAnnounced ==
    [][\A p \in ProgramIds :
          /\ programs[p] # None /\ programs'[p] # None
          /\ programs[p].status # programs'[p].status
          => \E r \in Requests : req'[r].pc = "emit" /\ req'[r].key = p]_vars

\* "Publish program (DRAFT -> PUBLISHED)": the program that publish() makes
\* PUBLISHED is still the DRAFT it found.
PublishFromDraft ==
    [][\A r \in Requests :
          LET p == req[r].key
          IN /\ req[r].op = "publish" /\ req[r].pc = "write"
             /\ req'[r].pc = "emit"
             => programs[p].status = "DRAFT"]_vars

\* Whatever was stored is announced on content.created in the end, provided
\* nothing fails between the insert and the event; deleting the row meanwhile
\* does not take the announcement back.
CreatedIsAnnounced ==
    /\ \A p \in ProgramIds : programs[p] # None ~> created[p] # <<>>
    /\ \A e \in EpisodeIds : episodes[e] # None ~> created[e] # <<>>
=============================================================================
