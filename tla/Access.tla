-------------------------------- MODULE Access --------------------------------
(***************************************************************************)
(* One route, and the checks a request to it passes: the gateway's rate    *)
(* limit, JwtAuthGuard, RolesGuard and ValidationPipe, then the same       *)
(* guards and pipe in the service it is forwarded to.  The gateway and the *)
(* service have contracts of their own (GatewayContracts,                  *)
(* ServiceContracts), and the clients behind one address share a count.    *)
(***************************************************************************)
EXTENDS Naturals, FiniteSets

CONSTANTS
    Unit,               \* bound: requests of a limit that count as one
    Neighbours          \* bound: requests of other clients between two guards

ASSUME AccessAssumption == Unit \in 1..20 /\ Neighbours \in Nat

G == INSTANCE GatewayContracts
S == INSTANCE ServiceContracts

VARIABLES
    route,              \* the route asked for, fixed
    phase,              \* where the request is
    body,               \* its body, or its query
    token,              \* the bearer token: a role, "none", or "expired"
    user,               \* request.user: the role, or "nobody"
    status,             \* the answer: an HTTP status, or 0
    by,                 \* who answered
    hits,               \* Redis: hits of the route's key in this window
    blocked,            \* Redis: "no", blocked in this window, or in an earlier one
    between,            \* requests the first of two guards let on, and the second
                        \* has not counted: window of the first's hit -> how many
    first,              \* the window in which that guard counted the request
    passed, straddling  \* requests let through in this window, and those of them
                        \* the first guard counted in an earlier one (history)

history == <<passed, straddling>>
limits == <<hits, blocked, between, first, history>>
accessVars == <<route, phase, body, token, user, status, by, limits>>

Roles == {"ADMIN", "EDITOR", "USER"}
Windows == {"now", "before"}
Phases == {"idle", "sent", "halfway", "counted", "known", "admitted", "forwarded", "identified",
           "permitted", "done"}

NoBody == [f \in {} |-> G!AnyText]

\* The services listen on ports of their own: a client may skip the gateway.
Direct(to) == [G!Public(G!Route("none", to)) EXCEPT !.limit = 0]
AllRoutes == G!Routes \cup {Direct(to) : to \in DOMAIN S!Handlers}

handler == S!Handlers[route.to]
Limit == route.limit \div Unit

\* Does the route's class add ThrottlerIPGuard to the global
\* ThrottlerDefaultGuard?  Both count under the same key.
Guards == IF route.gateway = "discovery" /\ ~route.graphql THEN 2 ELSE 1

AccessInit ==
    /\ route \in AllRoutes
    /\ phase = "idle" /\ body = NoBody /\ token = "none" /\ user = "nobody"
    /\ status = 0 /\ by = "nobody"
    /\ hits = 0 /\ blocked = "no"
    /\ between = [w \in Windows |-> 0] /\ first = "now"
    /\ passed = 0 /\ straddling = 0

-----------------------------------------------------------------------------
(* Steps of a request                                                      *)

Answer(code, who) ==
    /\ phase' = "done" /\ status' = code /\ by' = who
    /\ UNCHANGED <<route, body, token, user>>

GoesOn(next) ==
    /\ phase' = next
    /\ UNCHANGED <<route, body, token, status, by>>

SendRequest ==
    /\ phase = "idle"
    /\ body' \in G!Bodies({route.accepts, route.documented, handler.accepts})
    /\ token' \in Roles \cup {"none", "expired"}
    /\ phase' = (IF route.gateway = "none" THEN "forwarded" ELSE "sent")
    /\ UNCHANGED <<route, user, status, by, limits>>

\* ThrottlerStorageRedisService.increment: is the key blocked at a count of n?
\* Mutant of Over: one more request than the limit is let through.
OverByOne(n) == n > Limit + 1
Over(n) == n > Limit

\* Is the request that is counted now refused?
Refused == blocked # "no" \/ Over(hits + 1)

\* One guard, one hit; beyond the limit nothing depends on the number.
Hit ==
    /\ hits' = IF hits > Limit THEN hits ELSE hits + 1
    /\ blocked' = IF blocked = "no" /\ Refused THEN "now" ELSE blocked

\* The last guard lets a request through that the first counted in window w.
Pass(w) ==
    /\ passed' = passed + 1
    /\ straddling' = IF w = "before" THEN straddling + 1 ELSE straddling

\* ThrottlerGuard.handleRequest, of the guard all routes have: the count of Redis
\* is awaited, and so is that of a second guard.
CountRequest ==
    /\ phase = "sent" /\ ~route.graphql
    /\ Hit
    /\ UNCHANGED between
    /\ \/ Refused /\ Answer(429, "gateway") /\ UNCHANGED <<first, history>>
       \/ ~Refused /\ UNCHANGED user /\
          \/ Guards = 1 /\ GoesOn("counted") /\ Pass("now") /\ UNCHANGED first
          \/ Guards = 2 /\ GoesOn("halfway") /\ first' = "now" /\ UNCHANGED history

\* The same for the guard of the controller's class.
CountAgain ==
    /\ phase = "halfway"
    /\ Hit
    /\ UNCHANGED <<between, first>>
    /\ \/ Refused /\ Answer(429, "gateway") /\ UNCHANGED history
       \/ ~Refused /\ GoesOn("counted") /\ UNCHANGED user /\ Pass(first)

\* A GraphQL query has no HTTP request for getTracker to read: it fails there.
TrackerFails ==
    /\ phase = "sent" /\ route.graphql
    /\ Answer(500, "gateway")
    /\ UNCHANGED limits

\* Another client behind the same address asks for the same route: its request
\* is counted by the first guard, and by the second.
OtherClient ==
    /\ route.gateway # "none" /\ ~route.graphql
    /\ Hit
    /\ \/ Refused /\ UNCHANGED <<between, history>>
       \/ ~Refused /\ Guards = 1 /\ Pass("now") /\ UNCHANGED between
       \/ /\ ~Refused /\ Guards = 2
          /\ between["now"] + between["before"] < Neighbours
          /\ between' = [between EXCEPT !["now"] = @ + 1]
          /\ UNCHANGED history
    /\ UNCHANGED <<route, phase, body, token, user, status, by, first>>

OtherClientAgain ==
    /\ \E w \in Windows :
          /\ between[w] > 0 /\ between' = [between EXCEPT ![w] = @ - 1]
          /\ Hit
          /\ IF Refused THEN UNCHANGED history ELSE Pass(w)
    /\ UNCHANGED <<route, phase, body, token, user, status, by, first>>

\* JwtAuthGuard, in the gateway and in the service.
Authenticate(public, next, who) ==
    /\ UNCHANGED limits
    /\ IF public THEN GoesOn(next) /\ UNCHANGED user
       ELSE IF token \in Roles THEN GoesOn(next) /\ user' = token
       ELSE Answer(401, who)

\* UserRoleHierarchy
Rank(role) == CASE role = "ADMIN" -> 3 [] role = "EDITOR" -> 2 [] role = "USER" -> 1

\* RolesGuard
MayUse(roles) ==
    \/ roles = {}
    \/ user # "nobody" /\ \E r \in roles : Rank(user) >= Rank(r)

CheckRoles(roles, next, who) ==
    /\ UNCHANGED limits
    /\ IF MayUse(roles) THEN GoesOn(next) /\ UNCHANGED user ELSE Answer(403, who)

GatewayAuthenticates ==
    phase = "counted" /\ Authenticate(route.public, "known", "gateway")

GatewayChecksRoles == phase = "known" /\ CheckRoles(route.roles, "admitted", "gateway")

\* URLSearchParams: a list becomes the text of its members, or nothing is sent on.
Passed(input) ==
    CASE route.forwards = "body" -> input
      [] route.forwards = "nothing" -> NoBody
      [] route.forwards = "query" ->
            [f \in DOMAIN input |-> IF input[f].kind = "list" THEN G!Value("text", 1)
                                                              ELSE input[f]]

\* ValidationPipe, then the handler: the service is asked with the
\* Authorization header only, and the request there has no user yet.
GatewayValidates ==
    /\ phase = "admitted"
    /\ UNCHANGED limits
    /\ IF G!Valid(route.accepts, body)
       THEN /\ phase' = "forwarded" /\ body' = Passed(body) /\ user' = "nobody"
            /\ UNCHANGED <<route, token, status, by>>
       ELSE Answer(400, "gateway")

ServiceAuthenticates ==
    phase = "forwarded" /\ Authenticate(handler.public, "identified", "service")

ServiceChecksRoles ==
    phase = "identified" /\ CheckRoles(handler.roles, "permitted", "service")

\* ValidationPipe of the service.  The gateways send JSON whatever they were sent,
\* and upload asks for the file of a form: fastify's error has a status, 406.
\* What a handler answers of its own accord, an exception's 400, 404 or 409
\* included, is not modelled; 200 stands for all of it.
ServiceValidates ==
    /\ phase = "permitted"
    /\ UNCHANGED limits
    /\ Answer(IF ~S!Valid(handler.accepts, body) THEN 400
              ELSE IF handler.multipart /\ route.gateway # "none" THEN 406
              ELSE 200, "service")

-----------------------------------------------------------------------------
(* Time                                                                    *)

TokenExpires ==
    /\ token \in Roles /\ phase # "done"
    /\ token' = "expired"
    /\ UNCHANGED <<route, phase, body, user, status, by, limits>>

\* The hits expire ttl after the first of them, the block ttl after it began.
WindowEnds ==
    /\ hits > 0
    /\ hits' = 0 /\ passed' = 0 /\ straddling' = 0
    /\ blocked' = IF blocked = "now" THEN "before" ELSE blocked
    /\ between' = [now |-> 0, before |-> between["now"] + between["before"]]
    /\ first' = "before"
    /\ UNCHANGED <<route, phase, body, token, user, status, by>>

BlockEnds ==
    /\ blocked = "before"
    /\ blocked' = "no"
    /\ UNCHANGED <<route, phase, body, token, user, status, by, hits, between, first,
                   history>>

NextRequest ==
    /\ phase = "done"
    /\ phase' = "idle" /\ body' = NoBody /\ token' = "none" /\ user' = "nobody"
    /\ status' = 0 /\ by' = "nobody"
    /\ UNCHANGED <<route, limits>>

AccessNext ==
    \/ SendRequest \/ CountRequest \/ CountAgain \/ TrackerFails
    \/ OtherClient \/ OtherClientAgain
    \/ GatewayAuthenticates \/ GatewayChecksRoles \/ GatewayValidates
    \/ ServiceAuthenticates \/ ServiceChecksRoles \/ ServiceValidates
    \/ TokenExpires \/ WindowEnds \/ BlockEnds \/ NextRequest

AccessSpec == AccessInit /\ [][AccessNext]_accessVars

-----------------------------------------------------------------------------
(* Properties                                                              *)

\* The request is a valid request of its route at every step, and the counters
\* stay within the limit: requests let through have been counted.
AccessTypeOK ==
    /\ route \in AllRoutes /\ phase \in Phases
    /\ token \in Roles \cup {"none", "expired"} /\ user \in Roles \cup {"nobody"}
    /\ status \in {0, 200, 400, 401, 403, 406, 429, 500}
    /\ by \in {"nobody", "gateway", "service"}
    /\ phase = "done" <=> status # 0
    /\ hits \in 0..(Limit + 1) /\ blocked \in {"no", "now", "before"}
    /\ between \in [Windows -> 0..Neighbours] /\ first \in Windows
    /\ passed \in 0..hits /\ straddling \in 0..passed

\* The limit of the route, shared by all clients behind an address, is spent once
\* by each guard of each request that is let through in a window, whatever falls
\* between its guards: other clients' hits, or the end of a window or of an
\* earlier block.  Only a hit that fell into an earlier window is spared, so
\* never more than Limit are let through, and that many only when every one of
\* them straddles (app.module.ts and the @Throttle of the route).
ForwardedWithinLimit == passed * Guards <= Limit + straddling

\* What the gateway lets in the service lets in: a request that passed the
\* gateway's guards is not refused for its role by the service's, and is
\* refused for its token only if that expired on the way (cms.controller.ts to
\* ingest.controller.ts against the services' controllers).
AdmittedByService ==
    route.gateway # "none" /\ by = "service" =>
        /\ status # 403
        /\ status = 401 => token = "expired" /\ ~route.public

\* A body the gateway validated is refused by the service's ValidationPipe (what
\* handlers refuse afterwards is not in the model) only where the two
\* DTOs are known to differ: a program needs a contentType that the gateway
\* forbids, and takes no metadataId (cms.dto.ts against content.dto.ts).
ValidatedBodyIsAccepted ==
    route.accepts.strict /\ by = "service" /\ status = 400 =>
        /\ route \in {G!createProgram, G!updateProgram}
        /\ route = G!updateProgram => "metadataId" \in DOMAIN body

-----------------------------------------------------------------------------
(* Statements of the repository that do not hold.                          *)

\* cms.controller.ts:140-167 shows a body for POST /cms/programs and its 201;
\* discovery.controller.ts and search.controller.ts document the parameters of
\* their queries.  No program can be created through the gateway, and search
\* parameters the gateway documents are refused by the service.
DocumentedBodyIsAccepted ==
    by = "service" /\ status = 400 /\ route.gateway # "none"
        => ~G!Valid(route.documented, body)

\* search.controller.ts:57 of the discovery gateway: SEARCH_LIMIT requests per
\* SEARCH_TTL seconds.  Each request counts twice, mostly in one window.
FullLimit == status = 429 /\ blocked = "now" => passed = Limit

\* discovery.resolver.ts:12: "Provides GraphQL queries for content discovery".
\* The global guard fails on every query.
QueriesAreServed == route.graphql => status # 500

\* media.controller.ts:59 of the CMS gateway: 201 "Media uploaded".
UploadsAreServed == route = G!uploadMedia => status # 406

\* media.dto.ts:43 of the CMS gateway declares an answer with type, size and
\* updatedAt, none of which the media service returns.
DeclaredFieldsReturned ==
    status = 200 /\ route.gateway # "none" => route.answer \subseteq handler.returns
=============================================================================
