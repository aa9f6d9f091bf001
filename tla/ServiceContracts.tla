--------------------------- MODULE ServiceContracts ---------------------------
(***************************************************************************)
(* The routes of the services behind the gateways: guards, DTO, whether    *)
(* the body is read as a multipart form, and the fields of the answer.     *)
(***************************************************************************)
EXTENDS Contracts, TLC

Staff == {"ADMIN", "EDITOR"}

\* Query parameters read by name, with no DTO, are converted but not refused.
Page == Optional(Int(1, Unbounded))
Limit(max) == Optional(Int(1, max))

-----------------------------------------------------------------------------
(* DTOs                                                                    *)

ProgramFields ==
    [title |-> Title, description |-> Optional(Text(0, 1000)),
     contentType |-> A("contentType"), status |-> Optional(A("status")),
     thumbnailUrl |-> Optional(A("url")), posterUrl |-> Optional(A("url")),
     genres |-> Optional(A("list")), tags |-> Optional(A("list")),
     releaseDate |-> Optional(A("date")), duration |-> Optional(Int(0, Unbounded)),
     rating |-> Optional(Text(0, 10))]

AllOptional(fields) == [f \in DOMAIN fields |-> Optional(fields[f])]

CreateProgramDto == Dto(ProgramFields)
UpdateProgramDto == Dto(AllOptional(ProgramFields))

EpisodeFields ==
    [programId |-> A("uuid"), title |-> Title, description |-> Optional(Text(0, 1000)),
     episodeNumber |-> Int(1, Unbounded), duration |-> Optional(Int(0, Unbounded)),
     status |-> Optional(A("status")), metadataId |-> Optional(A("uuid"))]

CreateEpisodeDto == Dto(EpisodeFields)
UpdateEpisodeDto ==
    Dto(AllOptional([f \in DOMAIN EpisodeFields \ {"programId"} |-> EpisodeFields[f]]))

LoginDto == Dto([email |-> A("email"), password |-> Text(8, Unbounded)])
RegisterDto == Dto([email |-> A("email"), password |-> Text(8, 100),
                    firstName |-> Text(2, 50), lastName |-> Text(2, 50)])

MetadataFields ==
    [title |-> Title, description |-> Optional(Text(0, 2000)),
     category |-> Optional(A("category")), language |-> Optional(Text(0, 10)),
     duration |-> Optional(Int(0, Unbounded)), publishDate |-> Optional(A("date"))]

UpdateMetadataDto == Dto(AllOptional(MetadataFields))
CreateMetadataDto ==
    Dto(MetadataFields @@ [contentId |-> A("uuid"), contentType |-> A("contentType")])

GenerateThumbnailDto == Dto([width |-> Optional(Int(1, Unbounded)),
                             height |-> Optional(Int(1, Unbounded))])

CreateIngestJobDto == Dto([sourceType |-> A("sourceType"), sourceUrl |-> A("url"),
                           metadata |-> Optional(A("object"))])
IngestJobsQueryDto ==
    Dto([status |-> Optional(A("status")), sourceType |-> Optional(A("sourceType")),
         page |-> Page, limit |-> Limit(100)])

\* The discovery service's queries, and the search service's.
DiscoveryQueryDto == Dto([q |-> AnyText, contentType |-> Optional(A("contentType")),
                          page |-> Page, limit |-> Limit(100)])
ProgramsQueryDto == Dto([status |-> Optional(A("status")), page |-> Page,
                         limit |-> Limit(100)])
TrendingQueryDto == Dto([contentType |-> Optional(A("contentType")), limit |-> Limit(50)])
PopularQueryDto == Dto([contentType |-> Optional(A("contentType")), limit |-> Limit(50)])

SearchQueryDto ==
    Dto([q |-> AnyText, contentType |-> Optional(A("contentType")),
         category |-> Optional(AnyText), language |-> Optional(AnyText),
         tags |-> Optional(A("list")), page |-> Page, limit |-> Limit(100)])
IndexContentDto ==
    Dto([contentId |-> A("uuid"), contentType |-> A("contentType"), title |-> AnyText,
         description |-> Optional(AnyText), category |-> Optional(AnyText),
         language |-> Optional(AnyText), tags |-> Optional(A("list"))])

-----------------------------------------------------------------------------
(* Answers: the fields the DTO class requires, which toDto fills in.                              *)

ProgramDto == {"id", "title", "contentType", "status", "createdAt", "updatedAt"}
EpisodeDto == {"id", "programId", "title", "episodeNumber", "seasonNumber", "status",
               "createdAt", "updatedAt"}
TokenResponseDto == {"accessToken", "expiresIn", "tokenType"}
UserDto == {"id", "email", "firstName", "lastName", "role"}
MetadataDto == {"id", "title", "contentId", "contentType", "version", "createdAt",
                "updatedAt"}
MetadataVersionDto == {"id", "metadataId", "title", "contentId", "contentType",
                       "version", "createdAt"}
MediaDto == {"id", "contentId", "contentType", "url", "storageType", "storageKey",
             "fileSize", "mimeType", "createdAt"}
IngestJobDto == {"id", "sourceType", "sourceUrl", "status", "retryCount", "createdAt",
                 "updatedAt"}
SearchResultDto == {"results", "total", "page", "limit"}
IndexStatusDto == {"totalIndexed", "indexingInProgress"}

-----------------------------------------------------------------------------
(* Routes                                                                  *)

Handler(public, roles, accepts, returns) ==
    [public |-> public, roles |-> roles, accepts |-> accepts, returns |-> returns,
     multipart |-> FALSE]

Anyone(accepts, returns) == Handler(TRUE, {}, accepts, returns)
SignedIn(accepts, returns) == Handler(FALSE, {}, accepts, returns)
By(roles, accepts, returns) == Handler(FALSE, roles, accepts, returns)

\* ProgramsController
programsFindAll == Anyone(Unchecked, ProgramDto)
programsFindOne == Anyone(Unchecked, ProgramDto)
programsCreate == By(Staff, CreateProgramDto, ProgramDto)
programsUpdate == By(Staff, UpdateProgramDto, ProgramDto)
programsDelete == By(Staff, Unchecked, {})
programsPublish == By(Staff, Unchecked, ProgramDto)
programsUnpublish == By(Staff, Unchecked, ProgramDto)

\* EpisodesController
episodesFindAllByProgram == Anyone(Unchecked, EpisodeDto)
episodesFindAll == Anyone(Unchecked, EpisodeDto)
episodesFindOne == Anyone(Unchecked, EpisodeDto)
episodesCreate == By(Staff, CreateEpisodeDto, EpisodeDto)
episodesUpdate == By(Staff, UpdateEpisodeDto, EpisodeDto)
episodesDelete == By(Staff, Unchecked, {})

\* AuthController
authRegister == Anyone(RegisterDto, TokenResponseDto)
authLogin == Anyone(LoginDto, TokenResponseDto)
authRefreshToken == Anyone(Unchecked, TokenResponseDto)
authGetCurrentUser == SignedIn(Unchecked, UserDto)

\* MetadataController
metadataCreate == By(Staff, CreateMetadataDto, MetadataDto)
metadataFindOne == Anyone(Unchecked, MetadataDto)
metadataFindByContentId == Anyone(Unchecked, MetadataDto)
metadataUpdate == By(Staff, UpdateMetadataDto, MetadataDto)
metadataGetVersionHistory == Anyone(Unchecked, MetadataVersionDto)

\* MediaController
mediaUpload == [By(Staff, Unchecked, MediaDto) EXCEPT !.multipart = TRUE]
mediaFindOne == Anyone(Unchecked, MediaDto)
mediaFindByContentId == Anyone(Unchecked, MediaDto)
\* Mutant of mediaDelete: files are deleted by administrators only.
MediaDeleteByAdmins == By({"ADMIN"}, Unchecked, {})
mediaDelete == By(Staff, Unchecked, {})
mediaGenerateThumbnail == By(Staff, GenerateThumbnailDto, MediaDto)

\* IngestController
ingestCreateJob == By(Staff, CreateIngestJobDto, IngestJobDto)
ingestGetJobs == By(Staff, IngestJobsQueryDto, {"jobs", "total", "page", "limit"})
ingestGetJob == By(Staff, Unchecked, IngestJobDto)
ingestRetryJob == By(Staff, Unchecked, IngestJobDto)
ingestDeleteJob == By(Staff, Unchecked, {})

\* DiscoveryController
discoverySearch == Anyone(DiscoveryQueryDto, {"programs", "total"})
discoveryGetPrograms == Anyone(ProgramsQueryDto, {"programs", "total"})
discoveryGetProgram == Anyone(Unchecked, {"id"})
discoveryGetEpisodes == Anyone(Unchecked, {"episodes", "total"})
discoveryGetTrending == Anyone(TrendingQueryDto, {"items"})
discoveryGetPopular == Anyone(PopularQueryDto, {"items"})

\* SearchController
searchSearch == Anyone(SearchQueryDto, SearchResultDto)
searchIndexContent == By(Staff, IndexContentDto, {})
searchGetStatus == By(Staff, Unchecked, IndexStatusDto)
searchReindexAll == By({"ADMIN"}, Unchecked, {})

Handlers ==
    [programsFindAll |-> programsFindAll, programsFindOne |-> programsFindOne,
     programsCreate |-> programsCreate, programsUpdate |-> programsUpdate,
     programsDelete |-> programsDelete, programsPublish |-> programsPublish,
     programsUnpublish |-> programsUnpublish,
     episodesFindAllByProgram |-> episodesFindAllByProgram,
     episodesFindAll |-> episodesFindAll, episodesFindOne |-> episodesFindOne,
     episodesCreate |-> episodesCreate, episodesUpdate |-> episodesUpdate,
     episodesDelete |-> episodesDelete, authRegister |-> authRegister,
     authLogin |-> authLogin, authRefreshToken |-> authRefreshToken,
     authGetCurrentUser |-> authGetCurrentUser, metadataCreate |-> metadataCreate,
     metadataFindOne |-> metadataFindOne,
     metadataFindByContentId |-> metadataFindByContentId,
     metadataUpdate |-> metadataUpdate,
     metadataGetVersionHistory |-> metadataGetVersionHistory,
     mediaUpload |-> mediaUpload, mediaFindOne |-> mediaFindOne,
     mediaFindByContentId |-> mediaFindByContentId, mediaDelete |-> mediaDelete,
     mediaGenerateThumbnail |-> mediaGenerateThumbnail,
     ingestCreateJob |-> ingestCreateJob, ingestGetJobs |-> ingestGetJobs,
     ingestGetJob |-> ingestGetJob, ingestRetryJob |-> ingestRetryJob,
     ingestDeleteJob |-> ingestDeleteJob, discoverySearch |-> discoverySearch,
     discoveryGetPrograms |-> discoveryGetPrograms,
     discoveryGetProgram |-> discoveryGetProgram,
     discoveryGetEpisodes |-> discoveryGetEpisodes,
     discoveryGetTrending |-> discoveryGetTrending,
     discoveryGetPopular |-> discoveryGetPopular, searchSearch |-> searchSearch,
     searchIndexContent |-> searchIndexContent, searchGetStatus |-> searchGetStatus,
     searchReindexAll |-> searchReindexAll]
=============================================================================
