--------------------------- MODULE GatewayContracts ---------------------------
(***************************************************************************)
(* The routes of the two API gateways and the DTOs they validate with.     *)
(*                                                                         *)
(* A route has the guards' settings (public, roles, limit), the DTO it     *)
(* accepts, the one documented or declared for it, the fields the          *)
(* documented answer always has, what it forwards of its input, and where  *)
(* to.                                                                     *)
(***************************************************************************)
EXTENDS Contracts

Editors == {"ADMIN", "EDITOR"}
Admins == {"ADMIN"}

\* RATE_LIMIT_CONFIG of the two gateways: requests per minute.
CmsDefaultLimit == 20
DiscoveryDefaultLimit == 100
SearchLimit == 60

-----------------------------------------------------------------------------
(* DTOs of the CMS gateway                                                 *)

\* The most characters a title may have at the gateway.
\* Mutant of EpisodeTitle: the width of the column.
EpisodeTitleWide == Text(1, 255)
EpisodeTitle == Title

CreateProgramDto == Dto(
    [title |-> Title, description |-> Optional(Text(0, 1000)),
     status |-> Optional(A("status")), metadataId |-> Optional(A("uuid"))])

UpdateProgramDto == Dto(
    [title |-> Optional(Title), description |-> Optional(Text(0, 1000)),
     status |-> Optional(A("status")), metadataId |-> Optional(A("uuid"))])

CreateEpisodeDto == Dto(
    [programId |-> A("uuid"), title |-> EpisodeTitle,
     description |-> Optional(Text(0, 1000)), episodeNumber |-> Int(1, Unbounded),
     duration |-> Optional(Int(0, Unbounded)), status |-> Optional(A("status")),
     metadataId |-> Optional(A("uuid"))])

UpdateEpisodeDto == Dto(
    [title |-> Optional(EpisodeTitle), description |-> Optional(Text(0, 1000)),
     episodeNumber |-> Optional(Int(1, Unbounded)),
     duration |-> Optional(Int(0, Unbounded)), status |-> Optional(A("status")),
     metadataId |-> Optional(A("uuid"))])

PaginationQueryDto == Dto(
    [page |-> Optional(Int(1, Unbounded)), limit |-> Optional(Int(1, Unbounded))])

ProgramResponseDto == {"id", "title", "status", "createdAt", "updatedAt"}

EpisodeResponseDto == {"id", "programId", "title", "episodeNumber", "status",
                       "createdAt", "updatedAt"}

RegisterDto == Dto([email |-> A("email"), password |-> Text(8, 100),
                    firstName |-> Text(2, 50), lastName |-> Text(2, 50)])

LoginDto == Dto([email |-> A("email"), password |-> Text(8, Unbounded)])

TokenResponseDto == {"accessToken", "expiresIn", "tokenType"}

UserDto == {"id", "email", "firstName", "lastName", "role"}

\* The gateway declares these too, but no handler takes or returns one: the
\* handlers of metadata, media and ingest take any body.
CreateMetadataDto == Dto(
    [contentId |-> A("uuid"), contentType |-> A("contentType"), title |-> AnyText,
     description |-> Optional(AnyText), category |-> Optional(AnyText),
     language |-> Optional(AnyText), tags |-> Optional(A("list"))])

UpdateMetadataDto == Dto(
    [title |-> Optional(AnyText), description |-> Optional(AnyText),
     category |-> Optional(AnyText), language |-> Optional(AnyText),
     tags |-> Optional(A("list"))])

MetadataResponseDto == {"id", "contentId", "contentType", "title", "createdAt",
                        "updatedAt"}

GenerateThumbnailDto == Dto([width |-> Optional(Int(1, Unbounded)),
                             height |-> Optional(Int(1, Unbounded))])

MediaResponseDto == {"id", "contentId", "url", "type", "size", "createdAt", "updatedAt"}

CreateIngestJobDto == Dto([sourceType |-> A("sourceType"), sourceUrl |-> A("url"),
                           metadata |-> Optional(A("object"))])

IngestJobResponseDto == {"id", "sourceType", "sourceUrl", "status", "createdAt",
                         "updatedAt"}

-----------------------------------------------------------------------------
(* Arguments of the GraphQL queries                                        *)

SearchArgs == Dto(
    [q |-> AnyText, contentType |-> Optional(A("contentType")),
     category |-> Optional(AnyText), language |-> Optional(AnyText),
     tags |-> Optional(A("list")), page |-> Optional(Int(1, Unbounded)),
     limit |-> Optional(Int(1, 100))])

ProgramsArgs == Dto([page |-> Optional(Int(1, Unbounded)), limit |-> Optional(Int(1, 100))])

TrendingArgs == Dto([limit |-> Optional(Int(1, 100))])

\* The fields of its models that are not nullable.
Program == {"id", "title", "status", "createdAt", "updatedAt"}
Episode == {"id", "programId", "title", "episodeNumber", "status", "createdAt",
            "updatedAt"}
SearchResult == {"programs", "episodes", "total", "page", "limit"}

-----------------------------------------------------------------------------
(* Routes                                                                  *)

Route(gateway, to) ==
    [gateway |-> gateway, graphql |-> FALSE, public |-> FALSE, roles |-> {},
     limit |-> IF gateway = "cms" THEN CmsDefaultLimit ELSE DiscoveryDefaultLimit,
     accepts |-> Unchecked, documented |-> Unchecked, answer |-> {},
     forwards |-> "body", to |-> to]

\* @Public, and @Roles with a limit of its own.
Public(route) == [route EXCEPT !.public = TRUE]
For(roles, limit, route) == [route EXCEPT !.roles = roles, !.limit = limit]
Takes(dto, route) == [route EXCEPT !.accepts = dto, !.documented = dto]
Shows(dto, route) == [route EXCEPT !.documented = dto]
Answers(fields, route) == [route EXCEPT !.answer = fields]

\* The query goes through URLSearchParams, or is not passed on.
Query(route) == [route EXCEPT !.forwards = "query"]
NoQuery(route) == [route EXCEPT !.forwards = "nothing"]

\* CmsController
getPrograms == Answers(ProgramResponseDto,
    Takes(PaginationQueryDto, NoQuery(Public(Route("cms", "programsFindAll")))))
getProgram == Answers(ProgramResponseDto, Public(Route("cms", "programsFindOne")))
createProgram == Answers(ProgramResponseDto,
    Takes(CreateProgramDto, For(Editors, 100, Route("cms", "programsCreate"))))
updateProgram == Answers(ProgramResponseDto,
    Takes(UpdateProgramDto, For(Editors, 100, Route("cms", "programsUpdate"))))
deleteProgram == For(Admins, 100, Route("cms", "programsDelete"))
getEpisodes == Answers(EpisodeResponseDto,
    Query(Public(Route("cms", "episodesFindAll"))))
getEpisode == Answers(EpisodeResponseDto, Public(Route("cms", "episodesFindOne")))
createEpisode == Answers(EpisodeResponseDto,
    Takes(CreateEpisodeDto, For(Editors, 100, Route("cms", "episodesCreate"))))
updateEpisode == Answers(EpisodeResponseDto,
    Takes(UpdateEpisodeDto, For(Editors, 100, Route("cms", "episodesUpdate"))))
deleteEpisode == For(Admins, 100, Route("cms", "episodesDelete"))

\* AuthController
register == Answers(TokenResponseDto,
    Takes(RegisterDto, Public(Route("cms", "authRegister"))))
login == Answers(TokenResponseDto, Takes(LoginDto, Public(Route("cms", "authLogin"))))
refreshToken == Answers(TokenResponseDto, Public(Route("cms", "authRefreshToken")))
getCurrentUser == Answers(UserDto, Route("cms", "authGetCurrentUser"))

\* MetadataController
createMetadata == Answers(MetadataResponseDto, Shows(CreateMetadataDto,
    For(Editors, 100, Route("cms", "metadataCreate"))))
getMetadata == Answers(MetadataResponseDto, Public(Route("cms", "metadataFindOne")))
getMetadataByContentId == Answers(MetadataResponseDto,
    Public(Route("cms", "metadataFindByContentId")))
updateMetadata == Answers(MetadataResponseDto, Shows(UpdateMetadataDto,
    For(Editors, 100, Route("cms", "metadataUpdate"))))
getVersionHistory == Public(Route("cms", "metadataGetVersionHistory"))

\* MediaController
uploadMedia == Answers(MediaResponseDto, For(Editors, 50, Route("cms", "mediaUpload")))
getMedia == Answers(MediaResponseDto, Public(Route("cms", "mediaFindOne")))
getMediaByContentId == Answers(MediaResponseDto,
    Public(Route("cms", "mediaFindByContentId")))
deleteMedia == For(Editors, 100, Route("cms", "mediaDelete"))
generateThumbnail == Answers(MediaResponseDto, Shows(GenerateThumbnailDto,
    For(Editors, 50, Route("cms", "mediaGenerateThumbnail"))))

\* IngestController
createJob == Answers(IngestJobResponseDto, Shows(CreateIngestJobDto,
    For(Editors, 50, Route("cms", "ingestCreateJob"))))
getJobs == Query(For(Editors, CmsDefaultLimit, Route("cms", "ingestGetJobs")))
getJob == Answers(IngestJobResponseDto,
    For(Editors, CmsDefaultLimit, Route("cms", "ingestGetJob")))
retryJob == Answers(IngestJobResponseDto,
    For(Editors, 50, Route("cms", "ingestRetryJob")))
deleteJob == For(Admins, 100, Route("cms", "ingestDeleteJob"))

\* DiscoveryController and SearchController of the discovery gateway
PageQuery == Dto([page |-> Optional(Int(1, Unbounded)), limit |-> Optional(Int(1, 100))])

discoverySearch == For({}, SearchLimit, Query(Public(Shows(
    Dto([q |-> AnyText, contentType |-> Optional(A("contentType")),
         category |-> Optional(AnyText), language |-> Optional(AnyText),
         page |-> Optional(Int(1, Unbounded)), limit |-> Optional(Int(1, 100))]),
    Route("discovery", "discoverySearch")))))
discoveryPrograms == Query(Public(Shows(PageQuery,
    Route("discovery", "discoveryGetPrograms"))))
discoveryProgram == Public(Route("discovery", "discoveryGetProgram"))
discoveryEpisodes == Public(Route("discovery", "discoveryGetEpisodes"))
LimitQuery == Dto([limit |-> Optional(Int(1, 100))])
discoveryTrending == Query(Public(Shows(LimitQuery,
    Route("discovery", "discoveryGetTrending"))))
discoveryPopular == Query(Public(Shows(LimitQuery,
    Route("discovery", "discoveryGetPopular"))))
search == For({}, SearchLimit, Query(Public(Shows(
    Dto([q |-> AnyText, contentType |-> Optional(A("contentType")),
         category |-> Optional(AnyText), language |-> Optional(AnyText),
         tags |-> Optional(A("list")), page |-> Optional(Int(1, Unbounded)),
         limit |-> Optional(Int(1, 100))]),
    Route("discovery", "searchSearch")))))

\* DiscoveryResolver
GraphQL(route) == [Public(Query(route)) EXCEPT !.graphql = TRUE]
qlPrograms == Answers(Program,
    Takes(ProgramsArgs, GraphQL(Route("discovery", "discoveryGetPrograms"))))
qlProgram == Answers(Program, GraphQL(Route("discovery", "discoveryGetProgram")))
qlEpisodes == Answers(Episode, GraphQL(Route("discovery", "discoveryGetEpisodes")))
qlSearch == Answers(SearchResult,
    Takes(SearchArgs, GraphQL(Route("discovery", "searchSearch"))))
qlTrending == Answers(Program,
    Takes(TrendingArgs, GraphQL(Route("discovery", "discoveryGetTrending"))))
qlPopular == Answers(Program,
    Takes(TrendingArgs, GraphQL(Route("discovery", "discoveryGetPopular"))))

Routes ==
    {getPrograms, getProgram, createProgram, updateProgram, deleteProgram, getEpisodes,
     getEpisode, createEpisode, updateEpisode, deleteEpisode,
     register, login, refreshToken, getCurrentUser,
     createMetadata, getMetadata, getMetadataByContentId, updateMetadata,
     getVersionHistory, uploadMedia, getMedia, getMediaByContentId, deleteMedia,
     generateThumbnail, createJob, getJobs, getJob, retryJob, deleteJob,
     discoverySearch, discoveryPrograms, discoveryProgram, discoveryEpisodes,
     discoveryTrending, discoveryPopular, search,
     qlPrograms, qlProgram, qlEpisodes, qlSearch, qlTrending, qlPopular}
=============================================================================
