------------------------------- MODULE Accounts -------------------------------
(***************************************************************************)
(* Auth service: accounts, the tokens signed for them and the events that  *)
(* tell of them.                                                           *)
(*                                                                         *)
(* A request is a chain of database calls, each an await at which the      *)
(* others run; what it read it holds until it signs or writes.  update()   *)
(* and delete() of UserService are exported to the other modules of the    *)
(* service, and no controller calls them yet.                              *)
(***************************************************************************)
EXTENDS Naturals, Sequences, FiniteSets

CONSTANTS
    Ids,          \* uuids the database may give accounts
    Emails, Passwords, Roles,
    User, Admin,  \* the role of a registered account, and of the seeded one
    Root, RootEmail, RootPassword,  \* the account prisma/seed.ts makes
    Changes,      \* bound: what an update may ask for
    Requests,     \* bound: requests in the life of the service
    MaxFailures,  \* bound: failed calls and stops of the process
    None

ASSUME AccountsAssumption ==
    /\ Root \in Ids /\ RootEmail \in Emails /\ RootPassword \in Passwords
    /\ {User, Admin} \subseteq Roles /\ None \notin Emails \cup Passwords \cup Roles
    /\ Changes \subseteq [email : Emails \cup {None}, password : Passwords \cup {None},
                           role : Roles \cup {None}]
    /\ MaxFailures \in Nat

VARIABLES
    users,     \* table users
    used,      \* ids handed out
    req,       \* request -> how far it is
    expired,   \* requests whose token has expired
    sent,      \* events, in the order they were sent
    failures,
    seen       \* history: request -> accounts there were since it began

vars == <<users, used, req, expired, sent, failures, seen>>

-----------------------------------------------------------------------------
Account == [id : Ids, email : Emails, password : Passwords, role : Roles]

Kinds == {"register", "login", "refresh", "me", "update", "delete"}

\* The steps of a request; each makes one call.
Steps == {"lookup", "exists", "insert", "credentials", "load", "check", "taken",
          "old", "write", "checkDelete", "deleteRow", "sign", "emit"}

Maybe(S) == S \cup {None}
Token == [id : Ids, email : Emails, role : Roles]
Change == [email : Maybe(Emails), password : Maybe(Passwords), role : Maybe(Roles)]

Created == [type : {"user.created"}, id : Ids, email : Emails, role : Roles]
Updated == [type : {"user.updated"}, id : Ids, email : Maybe(Emails), role : Maybe(Roles)]

\* arg: what was asked; row: the account as the request read it.
Request == [kind : Kinds, pc : Steps \cup {"done"}, id : Maybe(Ids), arg : Change,
            row : Maybe(Account), token : Maybe(Token), event : Maybe(Created \cup Updated),
            answer : Maybe({200, 201, 401, 404, 409, 500})]

\* What is missing can be told from what is there.
ASSUME NoneIsNothing == None \notin Ids \cup {200, 201, 401, 404, 409, 500}

Init ==
    /\ users = {[id |-> Root, email |-> RootEmail, password |-> RootPassword,
                 role |-> Admin]}
    /\ used = {Root}
    /\ req = [r \in Requests |-> None]
    /\ expired = {} /\ sent = <<>> /\ failures = 0
    /\ seen = [r \in Requests |-> {}]

-----------------------------------------------------------------------------
ById(i) == {a \in users : a.id = i}
ByEmail(e) == {a \in users : a.email = e}

At(r, pc) == req[r] # None /\ req[r].pc = pc
UnderWay(r) == req[r] # None /\ req[r].pc # "done"

Begin(r, kind, pc, id, arg) ==
    /\ req[r] = None
    /\ req' = [req EXCEPT ![r] = [kind |-> kind, pc |-> pc, id |-> id, arg |-> arg,
                                  row |-> None, token |-> None, event |-> None,
                                  answer |-> None]]
    /\ seen' = [seen EXCEPT ![r] = users]
    /\ UNCHANGED <<users, used, expired, sent, failures>>

Nothing == [email |-> None, password |-> None, role |-> None]

\* The request answers, or goes on with the step pc and the account row.
Answers(r, status) == [req EXCEPT ![r].pc = "done", ![r].answer = status]
GoesOn(r, pc) == [req EXCEPT ![r].pc = pc]
GoesOnWith(r, pc, row) == [req EXCEPT ![r].pc = pc, ![r].row = row]

Reads == UNCHANGED <<users, used, expired, sent, failures, seen>>

\* The requests under way see what a write leaves.
Writes(accounts) ==
    /\ users' = accounts
    /\ seen' = [r \in Requests |-> IF UnderWay(r) THEN seen[r] \cup accounts ELSE seen[r]]

-----------------------------------------------------------------------------
(* POST /auth/register                                                     *)

Register(r, email, password) ==
    Begin(r, "register", "lookup", None,
          [email |-> email, password |-> password, role |-> User])

\* findByEmail() of register(), then emailExists() of create().
LookupEmail(r) ==
    /\ At(r, "lookup") \/ At(r, "exists")
    /\ req' = IF ByEmail(req[r].arg.email) # {} THEN Answers(r, 409)
              ELSE GoesOn(r, IF At(r, "lookup") THEN "exists" ELSE "insert")
    /\ Reads

\* Mutant of EmailFree: the column is not unique.
EmailFreeAlways(email, others) == TRUE

\* users.email is unique: may an account have email beside the others?
EmailFree(email, others) == \A a \in others : a.email # email

\* The insert; that the address was taken meanwhile is no ConflictException.
InsertUser(r) ==
    /\ At(r, "insert")
    /\ IF EmailFree(req[r].arg.email, users)
       THEN \E i \in Ids \ used :
               LET account == [id |-> i, email |-> req[r].arg.email,
                               password |-> req[r].arg.password, role |-> req[r].arg.role]
               IN /\ Writes(users \cup {account})
                  /\ used' = used \cup {i}
                  /\ req' = GoesOnWith(r, "sign", account)
       ELSE req' = Answers(r, 500) /\ UNCHANGED <<users, used, seen>>
    /\ UNCHANGED <<expired, sent, failures>>

\* What generateToken() signs.
TokenOf(account) == [id |-> account.id, email |-> account.email, role |-> account.role]

\* Only a registration has an event to send before it answers.
Sign(r) ==
    /\ At(r, "sign")
    /\ LET token == TokenOf(req[r].row)
           event == [type |-> "user.created", id |-> token.id, email |-> token.email,
                     role |-> token.role]
       IN req' = IF req[r].kind = "register"
                 THEN [GoesOn(r, "emit") EXCEPT ![r].token = token, ![r].event = event]
                 ELSE [Answers(r, 200) EXCEPT ![r].token = token]
    /\ Reads

Status(r) == IF req[r].kind = "register" THEN 201 ELSE 200

Emit(r) ==
    /\ At(r, "emit")
    /\ sent' = Append(sent, req[r].event)
    /\ req' = Answers(r, Status(r))
    /\ UNCHANGED <<users, used, expired, failures, seen>>

\* The error is logged; the request answers as if the event had been sent.
EmitFails(r) ==
    /\ At(r, "emit")
    /\ failures < MaxFailures /\ failures' = failures + 1
    /\ req' = Answers(r, Status(r))
    /\ UNCHANGED <<users, used, expired, sent, seen>>

-----------------------------------------------------------------------------
(* POST /auth/login                                                        *)

Login(r, email, password) ==
    Begin(r, "login", "credentials", None,
          [email |-> email, password |-> password, role |-> None])

\* findByEmail and compare
ValidateCredentials(r) ==
    /\ At(r, "credentials")
    /\ \/ /\ \A a \in ByEmail(req[r].arg.email) : a.password # req[r].arg.password
          /\ req' = Answers(r, 401)
       \/ \E a \in ByEmail(req[r].arg.email) :
             /\ a.password = req[r].arg.password
             /\ req' = GoesOnWith(r, "sign", a)
    /\ Reads

-----------------------------------------------------------------------------
(* POST /auth/refresh, GET /auth/me                                        *)

\* A token some request was answered with; the requests under way cannot be
\* used yet.
Given == {r \in Requests : req[r] # None /\ req[r].answer \in {200, 201}
                           /\ req[r].token # None}

\* A token that expired is refused before anything is read.
RefreshToken(r, of) ==
    /\ of \in Given \ expired
    /\ Begin(r, "refresh", "load", req[of].token.id,
             [Nothing EXCEPT !.role = req[of].token.role])

GetCurrentUser(r, of) ==
    /\ of \in Given \ expired
    /\ Begin(r, "me", "load", req[of].token.id, Nothing)

\* Mutant of Loaded: the role is taken from the old token.
LoadedKeepsRole(account, r) ==
    IF req[r].kind = "refresh" THEN [account EXCEPT !.role = req[r].arg.role] ELSE account

\* The account the token is signed for, or that is shown.
Loaded(account, r) == account

\* findById; an account that is gone is a 401 for both.
LoadUser(r) ==
    /\ At(r, "load")
    /\ \/ ById(req[r].id) = {} /\ req' = Answers(r, 401)
       \/ \E a \in ById(req[r].id) :
             req' = IF req[r].kind = "refresh" THEN GoesOnWith(r, "sign", Loaded(a, r))
                    ELSE [Answers(r, 200) EXCEPT ![r].row = Loaded(a, r)]
    /\ Reads

TokenExpires(r) ==
    /\ r \in Given \ expired
    /\ expired' = expired \cup {r}
    /\ UNCHANGED <<users, used, req, sent, failures, seen>>

-----------------------------------------------------------------------------
(* UserService.update, UserService.delete                                  *)

UpdateUser(r, i, change) == Begin(r, "update", "check", i, change)

DeleteUser(r, i) == Begin(r, "delete", "checkDelete", i, Nothing)

\* findById
CheckUser(r) ==
    /\ At(r, "check") \/ At(r, "checkDelete")
    /\ req' = IF ById(req[r].id) = {} THEN Answers(r, 404)
              ELSE GoesOn(r, IF At(r, "checkDelete") THEN "deleteRow"
                             ELSE IF req[r].arg.email # None THEN "taken" ELSE "old")
    /\ Reads

\* Mutant of Others: the account itself counts too.
OthersAll(i, email) == ByEmail(email)

\* The accounts other than i that have the address.
Others(i, email) == {a \in ByEmail(email) : a.id # i}

CheckTaken(r) ==
    /\ At(r, "taken")
    /\ req' = IF Others(req[r].id, req[r].arg.email) # {} THEN Answers(r, 409)
              ELSE GoesOn(r, "old")
    /\ Reads

\* The account as it was, for the event; perhaps gone.
ReadOld(r) ==
    /\ At(r, "old")
    /\ \/ ById(req[r].id) = {} /\ req' = GoesOn(r, "write")
       \/ \E a \in ById(req[r].id) : req' = GoesOnWith(r, "write", a)
    /\ Reads

Or(new, old) == IF new = None THEN old ELSE new

\* The account with the changes that were asked for.
Changed(account, change) ==
    [account EXCEPT !.email = Or(change.email, @), !.password = Or(change.password, @),
                    !.role = Or(change.role, @)]

\* What the event tells: what was asked and differs from the account as read.
Difference(old, change, new) ==
    [type |-> "user.updated", id |-> new.id,
     email |-> IF change.email # None /\ old # None /\ old.email # new.email
               THEN new.email ELSE None,
     role |-> IF change.role # None /\ old # None /\ old.role # new.role
              THEN new.role ELSE None]

\* The update fails when the account is gone or the address taken.
WriteUser(r) ==
    /\ At(r, "write")
    /\ \/ \E a \in ById(req[r].id) :
             LET new == Changed(a, req[r].arg)
                 event == Difference(req[r].row, req[r].arg, new)
             IN /\ EmailFree(new.email, users \ {a})
                /\ Writes((users \ {a}) \cup {new})
                /\ req' = IF event.email = None /\ event.role = None THEN Answers(r, 200)
                          ELSE [GoesOn(r, "emit") EXCEPT ![r].event = event]
       \/ /\ \A a \in ById(req[r].id) :
                ~EmailFree(Changed(a, req[r].arg).email, users \ {a})
          /\ req' = Answers(r, 500)
          /\ UNCHANGED <<users, seen>>
    /\ UNCHANGED <<used, expired, sent, failures>>

DeleteRow(r) ==
    /\ At(r, "deleteRow")
    /\ Writes(users \ ById(req[r].id))
    /\ req' = Answers(r, IF ById(req[r].id) = {} THEN 500 ELSE 200)
    /\ UNCHANGED <<used, expired, sent, failures>>

-----------------------------------------------------------------------------
(* Failures                                                                *)

\* A call of the database fails; refreshToken() turns every error into a 401.
CallFails(r) ==
    /\ UnderWay(r) /\ req[r].pc \notin {"sign", "emit"}
    /\ failures < MaxFailures /\ failures' = failures + 1
    /\ req' = Answers(r, IF req[r].kind = "refresh" THEN 401 ELSE 500)
    /\ UNCHANGED <<users, used, expired, sent, seen>>

\* The process stops: requests under way are never answered.
Stop ==
    /\ \E r \in Requests : UnderWay(r)
    /\ failures < MaxFailures /\ failures' = failures + 1
    /\ req' = [r \in Requests |-> IF UnderWay(r)
                                  THEN [req[r] EXCEPT !.pc = "done"]
                                  ELSE req[r]]
    /\ UNCHANGED <<users, used, expired, sent, seen>>

-----------------------------------------------------------------------------
Arrives(r) ==
    \/ \E e \in Emails, p \in Passwords : Register(r, e, p) \/ Login(r, e, p)
    \/ \E of \in Requests : RefreshToken(r, of) \/ GetCurrentUser(r, of)
    \/ \E i \in used : DeleteUser(r, i)
    \/ \E i \in used, change \in Changes : UpdateUser(r, i, change)

Step(r) ==
    \/ LookupEmail(r) \/ InsertUser(r) \/ Sign(r) \/ Emit(r) \/ EmitFails(r)
    \/ ValidateCredentials(r) \/ LoadUser(r)
    \/ CheckUser(r) \/ CheckTaken(r) \/ ReadOld(r) \/ WriteUser(r) \/ DeleteRow(r)
    \/ CallFails(r)

Next ==
    \/ \E r \in Requests : Arrives(r) \/ Step(r) \/ TokenExpires(r)
    \/ Stop

Spec == Init /\ [][Next]_vars

-----------------------------------------------------------------------------
\* The variables keep their types: no two accounts share an id or an address,
\* and every account has an id that was handed out.
TypeOK ==
    /\ users \subseteq Account /\ used \subseteq Ids
    /\ \A a, b \in users : a.id = b.id \/ a.email = b.email => a = b
    /\ \A a \in users : a.id \in used
    /\ req \in [Requests -> Maybe(Request)]
    /\ expired \subseteq Given
    /\ \A k \in 1..Len(sent) : sent[k] \in Created \cup Updated
    /\ failures \in 0..MaxFailures
    /\ seen \in [Requests -> SUBSET Account]

\* A token tells what was true of its account at some time while its request
\* was under way, and a login's account had the address and the password that
\* were sent: a change or a deletion that was done before a request began is
\* never passed over.
TokensEarned ==
    \A r \in Requests : req[r] # None /\ req[r].token # None =>
        \E a \in seen[r] :
            /\ TokenOf(a) = req[r].token
            /\ req[r].kind \in {"register", "login"} =>
                  a.email = req[r].arg.email /\ a.password = req[r].arg.password
            /\ req[r].kind = "refresh" => a.id = req[r].id

\* A request is refused for an address only when another account had it at some
\* time while the request was under way.
ConflictsAreReal ==
    \A r \in Requests : req[r] # None /\ req[r].answer = 409 =>
        \E a \in seen[r] : a.email = req[r].arg.email /\ a.id # req[r].id

-----------------------------------------------------------------------------
(* Statements of the repository that do not hold (README.md, section 7)    *)

\* auth.controller.ts:61-62 "409 User with this email already exists": what a
\* registration is refused with when no call failed.
RefusedWith409 ==
    \A r \in Requests : req[r] # None /\ req[r].kind = "register" /\ failures = 0
                        => req[r].answer # 500

\* auth.service.ts:63 "Emit user created event": an account that is there and
\* whose registration is over was announced.
RegisteredIsAnnounced ==
    \A a \in users : a.id # Root /\ (\A r \in Requests : ~UnderWay(r))
        => \E k \in 1..Len(sent) : sent[k].type = "user.created" /\ sent[k].id = a.id

\* user.service.ts:100 "Emit user updated event": when nothing is under way and
\* nothing failed, the last role announced of an account is its role.
LastRoleAnnounced ==
    failures = 0 /\ (\A r \in Requests : ~UnderWay(r)) =>
        \A a \in users : \A k \in 1..Len(sent) :
            /\ sent[k].id = a.id /\ sent[k].role # None
            /\ \A l \in (k + 1)..Len(sent) : sent[l].id # a.id \/ sent[l].role = None
            => sent[k].role = a.role

\* What a token's expiresIn says: JWT_EXPIRATION, beside the lifetime it is
\* signed with, JWT_EXPIRATION_STRING, in seconds.
ExpiresIn == 86400000
Lifetime == 24 * 3600

\* auth.dto.ts:119 of the gateway "Token expiration time in seconds".
LifetimeInSeconds ==
    \A r \in Requests : req[r] # None /\ req[r].token # None => ExpiresIn = Lifetime
=============================================================================
