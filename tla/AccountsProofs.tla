--------------------------- MODULE AccountsProofs ---------------------------
(***************************************************************************)
(* Theorems about Accounts for every set of ids, addresses, passwords,     *)
(* roles, changes and requests, and any number of failures.                *)
(***************************************************************************)
EXTENDS Accounts, TLAPS

\* Was account a there while r was under way, and is it the one r is about?
Earned(r, a) ==
    /\ a \in seen[r]
    /\ req[r].kind \in {"register", "login"} =>
          a.email = req[r].arg.email /\ a.password = req[r].arg.password
    /\ req[r].kind = "refresh" => a.id = req[r].id

\* Another account had the address r asks for.
Conflict(r) == \E a \in seen[r] : a.email = req[r].arg.email /\ a.id # req[r].id

\* What a request holds at its next call: the account it is about to sign for
\* was there, and so was every account that is there now.
Carries(r) ==
    LET c == req[r] IN
    /\ c.pc # "done" => users \subseteq seen[r] /\ c.answer = None
    /\ c.pc \in {"lookup", "exists", "insert"} =>
          /\ c.kind = "register" /\ c.id = None
          /\ c.arg \in [email : Emails, password : Passwords, role : Roles]
    /\ c.pc = "credentials" => c.kind = "login"
    /\ c.pc = "load" => c.kind \in {"refresh", "me"}
    /\ c.pc = "sign" => c.row \in Account /\ Earned(r, c.row)
    /\ c.pc = "emit" => c.event \in Created \cup Updated
    /\ c.token # None => \E a \in seen[r] : TokenOf(a) = c.token /\ Earned(r, a)
    /\ c.answer = 409 => Conflict(r)

\* The table: ids and addresses are unique, no id is given twice.
TableOK ==
    /\ users \subseteq Account /\ used \subseteq Ids
    /\ \A a, b \in users : a.id = b.id \/ a.email = b.email => a = b
    /\ \A a \in users : a.id \in used

IInv == /\ TypeOK
        /\ sent \in Seq(Created \cup Updated)
        /\ \A r \in Requests : req[r] # None => Carries(r)

\* What a step does to what the other requests saw: nothing is forgotten, and a
\* request under way has seen every account there is.
SeenGrows ==
    /\ seen' \in [Requests -> SUBSET Account]
    /\ \A s \in Requests : req[s] # None => seen[s] \subseteq seen'[s]
    /\ \A s \in Requests : UnderWay(s) => users' \subseteq seen'[s]

-----------------------------------------------------------------------------
(* What requests hold.                                                     *)

\* What a request is made into is a request.
Codes == {200, 201, 401, 404, 409, 500}

LEMMA ChangedType ==
    ASSUME NEW c \in Request, NEW pc \in Steps
    PROVE  /\ [c EXCEPT !.pc = pc] \in Request
           /\ \A row \in Account : [c EXCEPT !.pc = pc, !.row = row] \in Request
           /\ \A event \in Created \cup Updated :
                 /\ [c EXCEPT !.pc = pc, !.event = event] \in Request
                 /\ \A token \in Token :
                       [c EXCEPT !.pc = pc, !.token = token, !.event = event] \in Request
           /\ \A code \in Codes :
                 /\ [c EXCEPT !.pc = "done", !.answer = code] \in Request
                 /\ \A row \in Account :
                       [c EXCEPT !.pc = "done", !.answer = code, !.row = row] \in Request
                 /\ \A token \in Token :
                       [c EXCEPT !.pc = "done", !.answer = code, !.token = token] \in Request
<1> DEFINE Answer == Maybe(Codes)
           PC == Steps \cup {"done"}
           Id == Maybe(Ids)
           Row == Maybe(Account)
           Tok == Maybe(Token)
           Event == Maybe(Created \cup Updated)
<1>1. /\ Account \subseteq Row /\ Steps \subseteq PC /\ "done" \in PC
      /\ Token \subseteq Tok /\ Created \cup Updated \subseteq Event /\ Codes \subseteq Answer
  BY DEF Maybe
<1>2. Request = [kind : Kinds, pc : PC, id : Id, arg : Change, row : Row, token : Tok,
                 event : Event, answer : Answer]
  BY DEF Request, Codes
<1> HIDE DEF Answer, PC, Id, Row, Tok, Event
<1> QED BY <1>1, <1>2

LEMMA Types ==
    /\ Account = [id : Ids, email : Emails, password : Passwords, role : Roles]
    /\ None \notin Ids /\ None \notin Emails /\ None \notin {200, 201, 409}
    /\ User \in Roles /\ Admin \in Roles
    /\ Changes \subseteq Change
BY AccountsAssumption, NoneIsNothing DEF Account, Change, Maybe

\* What request r holds stays right while r waits.
LEMMA CarriesStays ==
    ASSUME SeenGrows, NEW r \in Requests, req[r] # None, Carries(r), req'[r] = req[r]
    PROVE  Carries(r)'
<1>1. seen[r] \subseteq seen'[r]
  BY DEF SeenGrows
<1>2. req[r].pc # "done" => users' \subseteq seen'[r]
  BY DEF SeenGrows, UnderWay
<1>3. \A a : Earned(r, a) => Earned(r, a)'
  BY <1>1 DEF Earned
<1>4. Conflict(r) => Conflict(r)'
  BY <1>1 DEF Conflict
<1>5. req[r].token # None => \E a \in seen'[r] : TokenOf(a) = req[r].token /\ Earned(r, a)'
  BY <1>1, <1>3 DEF Carries
<1>6. req[r].pc = "sign" => Earned(r, req[r].row)'
  BY <1>3 DEF Carries, Earned
<1> QED BY <1>2, <1>4, <1>5, <1>6 DEF Carries, Earned, TokenOf

\* The invariant after a step that gives request r, which was not done, the
\* state c.
LEMMA RequestMoves ==
    ASSUME IInv, TableOK', SeenGrows, sent' \in Seq(Created \cup Updated),
           failures' \in 0..MaxFailures, UNCHANGED expired,
           NEW r \in Requests, req[r] = None \/ UnderWay(r),
           req' \in [Requests -> Maybe(Request)],
           \A s \in Requests \ {r} : req'[s] = req[s],
           Carries(r)'
    PROVE  IInv'
<1>1. ASSUME NEW s \in Requests, req'[s] # None PROVE Carries(s)'
  <2>1. CASE s = r
    BY <2>1
  <2>2. CASE s # r
    BY <1>1, <2>2, CarriesStays DEF IInv
  <2> QED BY <2>1, <2>2
<1>2. expired \subseteq Given'
  <2> SUFFICES ASSUME NEW s \in expired PROVE s \in Given'
    OBVIOUS
  <2>1. s \in Given
    BY DEF IInv, TypeOK
  <2>2. req[s].pc = "done"
    BY <2>1, Types DEF IInv, Carries, Given
  <2>3. req'[s] = req[s]
    BY <2>1, <2>2 DEF Given, UnderWay
  <2> QED BY <2>1, <2>3 DEF Given
<1>3. \A k \in 1..Len(sent') : sent'[k] \in Created \cup Updated
  OBVIOUS
<1> QED BY <1>1, <1>2, <1>3 DEF IInv, TypeOK, TableOK, SeenGrows

\* A step that only reads.
LEMMA TablesStay ==
    ASSUME IInv, UNCHANGED <<users, used, expired, seen>>,
           sent' \in Seq(Created \cup Updated), failures' \in 0..MaxFailures,
           NEW r \in Requests, UnderWay(r),
           req' \in [Requests -> Maybe(Request)],
           \A s \in Requests \ {r} : req'[s] = req[s],
           Carries(r)'
    PROVE  IInv'
<1>1. SeenGrows
  BY DEF SeenGrows, IInv, TypeOK, Carries, UnderWay
<1>2. TableOK'
  BY DEF TableOK, IInv, TypeOK
<1> QED BY <1>1, <1>2, RequestMoves

LEMMA RequestType ==
    ASSUME IInv, NEW r \in Requests, UnderWay(r)
    PROVE  req[r] \in Request /\ Carries(r) /\ req[r] # None
BY DEF IInv, TypeOK, UnderWay, Maybe

\* A request that answers.
LEMMA AnswersIInv ==
    ASSUME IInv, UNCHANGED <<users, used, expired, seen>>,
           sent' \in Seq(Created \cup Updated), failures' \in 0..MaxFailures,
           NEW r \in Requests, UnderWay(r),
           NEW status \in Codes, req' = Answers(r, status),
           status = 409 => Conflict(r)
    PROVE  IInv'
<1> DEFINE c == [req[r] EXCEPT !.pc = "done", !.answer = status]
<1>1. req[r] \in Request /\ Carries(r)
  BY RequestType
<1>2. c \in Request
  <2>1. "lookup" \in Steps
    BY DEF Steps
  <2> QED BY <1>1, <2>1, ChangedType
<1>3. /\ c.pc = "done" /\ c.answer = status /\ c.token = req[r].token
      /\ c.kind = req[r].kind /\ c.arg = req[r].arg /\ c.id = req[r].id
  BY <1>1 DEF Request
<1>4. req'[r] = c /\ \A s \in Requests \ {r} : req'[s] = req[s]
  BY DEF Answers, IInv, TypeOK
<1> HIDE DEF c
<1>5. req' \in [Requests -> Maybe(Request)]
  BY <1>2, <1>4 DEF Answers, IInv, TypeOK, Maybe
<1>6. Carries(r)'
  <2>1. seen'[r] = seen[r]
    OBVIOUS
  <2>2. \A a : Earned(r, a) => Earned(r, a)'
    BY <1>3, <1>4, <2>1 DEF Earned
  <2>3. c.token # None => \E a \in seen[r] : TokenOf(a) = c.token /\ Earned(r, a)'
    BY <1>1, <1>3, <2>2 DEF Carries
  <2>4. status = 409 => Conflict(r)'
    BY <1>3, <1>4, <2>1 DEF Conflict
  <2> QED BY <1>3, <1>4, <2>3, <2>4 DEF Carries, TokenOf
<1> QED BY <1>4, <1>5, <1>6, TablesStay

\* A request that goes on to a step which asks nothing new of it, with an
\* account it read and perhaps with none.
LEMMA GoesOnIInv ==
    ASSUME IInv, Reads, NEW r \in Requests, UnderWay(r), NEW c \in Request,
           c.pc # "done", c.answer = req[r].answer, c.token = req[r].token,
           c.kind = req[r].kind, c.arg = req[r].arg, c.id = req[r].id,
           req' = [req EXCEPT ![r] = c],
           c.pc \notin {"credentials", "load"},
           c.pc \in {"lookup", "exists", "insert"} =>
                req[r].pc \in {"lookup", "exists", "insert"},
           c.pc = "sign" => c.row \in Account /\ Earned(r, c.row),
           c.pc = "emit" => c.event \in Created \cup Updated
    PROVE  IInv'
<1>1. req[r] \in Request /\ Carries(r)
  BY RequestType
<1>2. req'[r] = c /\ \A s \in Requests \ {r} : req'[s] = req[s]
  BY DEF IInv, TypeOK
<1>3. req' \in [Requests -> Maybe(Request)]
  BY DEF IInv, TypeOK, Maybe
<1>4. UNCHANGED <<users, used, expired, seen>> /\ sent' \in Seq(Created \cup Updated)
      /\ failures' \in 0..MaxFailures
  BY DEF Reads, IInv, TypeOK
<1>5. Carries(r)'
  <2>1. \A a : Earned(r, a) => Earned(r, a)'
    BY <1>2, <1>4 DEF Earned
  <2>2. c.token # None => \E a \in seen[r] : TokenOf(a) = c.token /\ Earned(r, a)'
    BY <1>1, <2>1 DEF Carries
  <2>3. users \subseteq seen[r] /\ c.answer = None
    BY <1>1 DEF Carries, UnderWay
  <2>4. c.answer = 409 => Conflict(r)'
    BY <1>1, <1>2, <1>4 DEF Carries, Conflict
  <2>5. c.pc = "sign" => Earned(r, c.row)'
    BY <2>1
  <2> QED BY <1>1, <1>2, <1>4, <2>2, <2>3, <2>4, <2>5 DEF Carries, TokenOf, Earned
<1> QED BY <1>2, <1>3, <1>4, <1>5, TablesStay

\* A request that only moves to its next step.
LEMMA MovesIInv ==
    ASSUME IInv, Reads, NEW r \in Requests, UnderWay(r), NEW pc \in Steps,
           req' = GoesOn(r, pc), pc \notin {"credentials", "load", "sign", "emit"},
           pc \in {"lookup", "exists", "insert"} =>
                req[r].pc \in {"lookup", "exists", "insert"}
    PROVE  IInv'
<1> DEFINE c == [req[r] EXCEPT !.pc = pc]
<1>1. req[r] \in Request
  BY RequestType
<1>2. c \in Request /\ pc # "done"
  BY <1>1 DEF Request, Steps
<1>3. req' = [req EXCEPT ![r] = c]
  BY DEF GoesOn
<1>4. /\ c.pc = pc /\ c.answer = req[r].answer /\ c.token = req[r].token
      /\ c.kind = req[r].kind /\ c.arg = req[r].arg /\ c.id = req[r].id
  BY <1>1 DEF Request
<1> HIDE DEF c
<1> QED BY <1>2, <1>3, <1>4, GoesOnIInv

\* One that keeps the account it read.
LEMMA MovesWithIInv ==
    ASSUME IInv, Reads, NEW r \in Requests, UnderWay(r), NEW row \in Account,
           NEW pc \in {"sign", "write"}, req' = GoesOnWith(r, pc, row),
           pc = "sign" => Earned(r, row)
    PROVE  IInv'
<1> DEFINE c == [req[r] EXCEPT !.pc = pc, !.row = row]
<1>1. req[r] \in Request
  BY RequestType
<1>2. c \in Request
  BY <1>1, ChangedType DEF Steps
<1>3. req' = [req EXCEPT ![r] = c]
  BY DEF GoesOnWith
<1>4. /\ c.pc = pc /\ c.answer = req[r].answer /\ c.token = req[r].token
      /\ c.kind = req[r].kind /\ c.arg = req[r].arg /\ c.id = req[r].id /\ c.row = row
  BY <1>1 DEF Request
<1> HIDE DEF c
<1> QED BY <1>2, <1>3, <1>4, GoesOnIInv

-----------------------------------------------------------------------------
(* A request begins.                                                       *)

LEMMA BeginIInv ==
    ASSUME IInv, NEW r \in Requests, NEW kind \in Kinds, NEW pc \in Steps,
           NEW id \in Maybe(Ids), NEW arg \in Change, Begin(r, kind, pc, id, arg),
           pc \in {"lookup", "exists", "insert"} =>
              /\ kind = "register" /\ id = None
              /\ arg \in [email : Emails, password : Passwords, role : Roles],
           pc = "credentials" => kind = "login",
           pc = "load" => kind \in {"refresh", "me"},
           pc \notin {"sign", "emit"}
    PROVE  IInv'
<1> DEFINE c == [kind |-> kind, pc |-> pc, id |-> id, arg |-> arg, row |-> None,
                 token |-> None, event |-> None, answer |-> None]
<1>1. c \in Request /\ pc # "done"
  <2>1. \A S : None \in Maybe(S)
    BY DEF Maybe
  <2> QED BY <2>1 DEF Request, Steps
<1>2. /\ req[r] = None /\ req' = [req EXCEPT ![r] = c]
      /\ seen' = [seen EXCEPT ![r] = users]
      /\ UNCHANGED <<users, used, expired, sent, failures>>
  BY DEF Begin
<1>3. /\ c.pc = pc /\ c.kind = kind /\ c.id = id /\ c.arg = arg
      /\ c.token = None /\ c.answer = None
  OBVIOUS
<1> HIDE DEF c
<1>4. req' \in [Requests -> Maybe(Request)] /\ req'[r] = c
      /\ \A s \in Requests \ {r} : req'[s] = req[s]
  BY <1>1, <1>2 DEF IInv, TypeOK, Maybe
<1>5. TableOK' /\ sent' \in Seq(Created \cup Updated) /\ failures' \in 0..MaxFailures
  BY <1>2 DEF TableOK, IInv, TypeOK
<1>6. SeenGrows
  <2>1. \A s \in Requests : seen'[s] = IF s = r THEN users ELSE seen[s]
    BY <1>2 DEF IInv, TypeOK
  <2>2. \A s \in Requests : UnderWay(s) => users \subseteq seen[s]
    BY DEF IInv, Carries, UnderWay
  <2>3. seen' \in [Requests -> SUBSET Account]
    BY <1>2 DEF IInv, TypeOK
  <2> QED BY <1>2, <2>1, <2>2, <2>3 DEF SeenGrows, UnderWay
<1>7. Carries(r)'
  <2>1. users' \subseteq seen'[r]
    BY <1>2 DEF IInv, TypeOK
  <2> QED BY <1>3, <1>4, <2>1, Types DEF Carries
<1> QED BY <1>2, <1>4, <1>5, <1>6, <1>7, RequestMoves

\* Who a token was given to.
LEMMA GivenType ==
    ASSUME IInv, NEW of \in Given
    PROVE  of \in Requests /\ req[of].token \in Token
BY DEF IInv, TypeOK, Given, Request, Maybe

LEMMA ArrivesIInv ==
    ASSUME IInv, NEW r \in Requests, Arrives(r) PROVE IInv'
<1>1. ASSUME NEW e \in Emails, NEW p \in Passwords, Register(r, e, p) PROVE IInv'
  <2> DEFINE arg == [email |-> e, password |-> p, role |-> User]
  <2>1. arg \in Change /\ arg \in [email : Emails, password : Passwords, role : Roles]
    BY Types DEF Change, Maybe
  <2>2. None \in Maybe(Ids) /\ "register" \in Kinds /\ "lookup" \in Steps
    BY DEF Maybe, Kinds, Steps
  <2>3. Begin(r, "register", "lookup", None, arg)
    BY <1>1 DEF Register
  <2> HIDE DEF arg
  <2> QED BY <2>1, <2>2, <2>3, BeginIInv
<1>2. ASSUME NEW e \in Emails, NEW p \in Passwords, Login(r, e, p) PROVE IInv'
  <2> DEFINE arg == [email |-> e, password |-> p, role |-> None]
  <2>1. arg \in Change
    BY DEF Change, Maybe
  <2>2. None \in Maybe(Ids) /\ "login" \in Kinds /\ "credentials" \in Steps
    BY DEF Maybe, Kinds, Steps
  <2>3. Begin(r, "login", "credentials", None, arg)
    BY <1>2 DEF Login
  <2> HIDE DEF arg
  <2> QED BY <2>1, <2>2, <2>3, BeginIInv
<1>3. ASSUME NEW of \in Requests, RefreshToken(r, of) PROVE IInv'
  <2> DEFINE arg == [Nothing EXCEPT !.role = req[of].token.role]
             id == req[of].token.id
  <2>1. id \in Ids /\ req[of].token.role \in Roles
    BY <1>3, GivenType DEF RefreshToken, Token
  <2>2. arg \in Change
    BY <2>1 DEF Change, Maybe, Nothing
  <2>3. id \in Maybe(Ids) /\ "refresh" \in Kinds /\ "load" \in Steps
    BY <2>1 DEF Maybe, Kinds, Steps
  <2>4. Begin(r, "refresh", "load", id, arg)
    BY <1>3 DEF RefreshToken
  <2> HIDE DEF arg, id
  <2> QED BY <2>2, <2>3, <2>4, BeginIInv
<1>4. ASSUME NEW of \in Requests, GetCurrentUser(r, of) PROVE IInv'
  <2> DEFINE id == req[of].token.id
  <2>1. id \in Maybe(Ids) /\ "me" \in Kinds /\ "load" \in Steps /\ Nothing \in Change
    BY <1>4, GivenType DEF GetCurrentUser, Token, Maybe, Kinds, Steps, Nothing, Change
  <2>2. Begin(r, "me", "load", id, Nothing)
    BY <1>4 DEF GetCurrentUser
  <2> HIDE DEF id
  <2> QED BY <2>1, <2>2, BeginIInv
<1>5. ASSUME NEW i \in used, DeleteUser(r, i) PROVE IInv'
  <2>1. i \in Maybe(Ids) /\ "delete" \in Kinds /\ "checkDelete" \in Steps /\ Nothing \in Change
    BY DEF IInv, TypeOK, Maybe, Kinds, Steps, Nothing, Change
  <2> QED BY <1>5, <2>1, BeginIInv DEF DeleteUser
<1>6. ASSUME NEW i \in used, NEW change \in Changes, UpdateUser(r, i, change) PROVE IInv'
  <2>1. i \in Maybe(Ids) /\ "update" \in Kinds /\ "check" \in Steps /\ change \in Change
    BY Types DEF IInv, TypeOK, Maybe, Kinds, Steps
  <2> QED BY <1>6, <2>1, BeginIInv DEF UpdateUser
<1> QED BY <1>1, <1>2, <1>3, <1>4, <1>5, <1>6 DEF Arrives

-----------------------------------------------------------------------------
(* The steps that read.                                                    *)

\* What Reads leaves alone.
LEMMA ReadsKeeps ==
    ASSUME IInv, Reads
    PROVE  /\ UNCHANGED <<users, used, expired, seen>>
           /\ sent' \in Seq(Created \cup Updated) /\ failures' \in 0..MaxFailures
BY DEF Reads, IInv, TypeOK

\* An account that is there was seen by every request under way.
LEMMA ThereIsSeen ==
    ASSUME IInv, NEW r \in Requests, UnderWay(r), NEW a \in users
    PROVE  a \in seen[r] /\ a \in Account
BY DEF IInv, TypeOK, Carries, UnderWay

LEMMA LookupEmailIInv ==
    ASSUME IInv, NEW r \in Requests, LookupEmail(r) PROVE IInv'
<1>1. UnderWay(r) /\ Reads /\ Carries(r) /\ req[r].pc \in {"lookup", "exists"}
  BY DEF LookupEmail, At, UnderWay, IInv
<1>2. CASE ByEmail(req[r].arg.email) # {}
  <2>1. PICK a \in users : a.email = req[r].arg.email
    BY <1>2 DEF ByEmail
  <2>2. a.id # req[r].id
    BY <1>1, <2>1, ThereIsSeen, Types DEF Carries
  <2>3. Conflict(r)
    BY <1>1, <2>1, <2>2, ThereIsSeen DEF Conflict
  <2>4. req' = Answers(r, 409) /\ 409 \in Codes
    BY <1>2 DEF LookupEmail, Codes
  <2> QED BY <1>1, <2>3, <2>4, ReadsKeeps, AnswersIInv
<1>3. CASE ByEmail(req[r].arg.email) = {}
  <2>1. PICK pc \in {"exists", "insert"} : req' = GoesOn(r, pc)
    BY <1>3 DEF LookupEmail
  <2>2. pc \in Steps
    BY DEF Steps
  <2> QED BY <1>1, <2>1, <2>2, MovesIInv
<1> QED BY <1>2, <1>3

LEMMA ValidateCredentialsIInv ==
    ASSUME IInv, NEW r \in Requests, ValidateCredentials(r) PROVE IInv'
<1>1. UnderWay(r) /\ Reads /\ Carries(r) /\ req[r].pc = "credentials"
  BY DEF ValidateCredentials, At, UnderWay, IInv
<1>2. CASE req' = Answers(r, 401)
  BY <1>1, <1>2, ReadsKeeps, AnswersIInv DEF Codes
<1>3. ASSUME NEW a \in ByEmail(req[r].arg.email), a.password = req[r].arg.password,
             req' = GoesOnWith(r, "sign", a)
      PROVE  IInv'
  <2>1. a \in users /\ a.email = req[r].arg.email
    BY DEF ByEmail
  <2>2. a \in seen[r] /\ a \in Account
    BY <1>1, <2>1, ThereIsSeen
  <2>3. Earned(r, a)
    BY <1>1, <1>3, <2>1, <2>2 DEF Earned, Carries
  <2> QED BY <1>1, <1>3, <2>2, <2>3, MovesWithIInv
<1> QED BY <1>2, <1>3 DEF ValidateCredentials

LEMMA LoadUserIInv ==
    ASSUME IInv, NEW r \in Requests, LoadUser(r) PROVE IInv'
<1>1. UnderWay(r) /\ Reads /\ Carries(r) /\ req[r].pc = "load"
  BY DEF LoadUser, At, UnderWay, IInv
<1>2. CASE req' = Answers(r, 401)
  BY <1>1, <1>2, ReadsKeeps, AnswersIInv DEF Codes
<1>3. ASSUME NEW a \in ById(req[r].id),
             req' = IF req[r].kind = "refresh" THEN GoesOnWith(r, "sign", Loaded(a, r))
                    ELSE [Answers(r, 200) EXCEPT ![r].row = Loaded(a, r)]
      PROVE  IInv'
  <2>1. a \in users /\ a.id = req[r].id
    BY DEF ById
  <2>2. a \in seen[r] /\ a \in Account
    BY <1>1, <2>1, ThereIsSeen
  <2>3. CASE req[r].kind = "refresh"
    <3>1. Earned(r, a)
      BY <2>1, <2>2, <2>3 DEF Earned
    <3>2. req' = GoesOnWith(r, "sign", a)
      BY <1>3, <2>3 DEF Loaded
    <3> QED BY <1>1, <2>2, <3>1, <3>2, MovesWithIInv
  <2>4. CASE req[r].kind # "refresh"
    <3> DEFINE c == [req[r] EXCEPT !.pc = "done", !.answer = 200, !.row = a]
    <3>1. req' = [Answers(r, 200) EXCEPT ![r].row = a]
      BY <1>3, <2>4 DEF Loaded
    <3>2. req'[r] = c /\ \A s \in Requests \ {r} : req'[s] = req[s]
      BY <3>1 DEF Answers, IInv, TypeOK
    <3>3. c \in Request /\ req[r] \in Request
      <4>1. "load" \in Steps /\ 200 \in Codes
        BY DEF Steps, Codes
      <4>2. req[r] \in Request
        BY <1>1, RequestType
      <4>3. \A code \in Codes :
               [req[r] EXCEPT !.pc = "done", !.answer = code, !.row = a] \in Request
        BY <2>2, <4>1, <4>2, ChangedType
      <4> QED BY <4>1, <4>2, <4>3
    <3>4. /\ c.pc = "done" /\ c.answer = 200 /\ c.token = req[r].token
          /\ c.kind = req[r].kind /\ c.arg = req[r].arg /\ c.id = req[r].id
      BY <3>3 DEF Request
    <3> HIDE DEF c
    <3>5. req' \in [Requests -> Maybe(Request)]
      BY <3>1, <3>2, <3>3 DEF Answers, IInv, TypeOK, Maybe
    <3>6. UNCHANGED <<users, used, expired, seen>>
      BY <1>1 DEF Reads
    <3>7. Carries(r)'
      <4>1. \A x : Earned(r, x) => Earned(r, x)'
        BY <3>2, <3>4, <3>6 DEF Earned
      <4>2. c.token # None => \E x \in seen[r] : TokenOf(x) = c.token /\ Earned(r, x)'
        BY <1>1, <3>4, <4>1 DEF Carries
      <4> QED BY <3>2, <3>4, <3>6, <4>2 DEF Carries, TokenOf
    <3> QED BY <1>1, <3>2, <3>5, <3>6, <3>7, ReadsKeeps, TablesStay
  <2> QED BY <2>3, <2>4
<1> QED BY <1>2, <1>3 DEF LoadUser

LEMMA CheckUserIInv ==
    ASSUME IInv, NEW r \in Requests, CheckUser(r) PROVE IInv'
<1>1. UnderWay(r) /\ Reads
  BY DEF CheckUser, At, UnderWay
<1>2. CASE req' = Answers(r, 404)
  BY <1>1, <1>2, ReadsKeeps, AnswersIInv DEF Codes
<1>3. ASSUME NEW pc \in {"deleteRow", "taken", "old"}, req' = GoesOn(r, pc) PROVE IInv'
  <2>1. pc \in Steps
    BY DEF Steps
  <2> QED BY <1>1, <1>3, <2>1, MovesIInv
<1> QED BY <1>2, <1>3 DEF CheckUser

LEMMA CheckTakenIInv ==
    ASSUME IInv, NEW r \in Requests, CheckTaken(r) PROVE IInv'
<1>1. UnderWay(r) /\ Reads
  BY DEF CheckTaken, At, UnderWay
<1>2. CASE Others(req[r].id, req[r].arg.email) # {}
  <2>1. PICK a \in users : a.email = req[r].arg.email /\ a.id # req[r].id
    BY <1>2 DEF Others, ByEmail
  <2>2. Conflict(r)
    BY <1>1, <2>1, ThereIsSeen DEF Conflict
  <2>3. req' = Answers(r, 409) /\ 409 \in Codes
    BY <1>2 DEF CheckTaken, Codes
  <2> QED BY <1>1, <2>2, <2>3, ReadsKeeps, AnswersIInv
<1>3. CASE Others(req[r].id, req[r].arg.email) = {}
  <2>1. req' = GoesOn(r, "old") /\ "old" \in Steps
    BY <1>3 DEF CheckTaken, Steps
  <2> QED BY <1>1, <2>1, MovesIInv
<1> QED BY <1>2, <1>3

LEMMA ReadOldIInv ==
    ASSUME IInv, NEW r \in Requests, ReadOld(r) PROVE IInv'
<1>1. UnderWay(r) /\ Reads
  BY DEF ReadOld, At, UnderWay
<1>2. CASE req' = GoesOn(r, "write")
  BY <1>1, <1>2, MovesIInv DEF Steps
<1>3. ASSUME NEW a \in ById(req[r].id), req' = GoesOnWith(r, "write", a) PROVE IInv'
  <2>1. a \in Account
    BY DEF ById, IInv, TypeOK
  <2> QED BY <1>1, <1>3, <2>1, MovesWithIInv
<1> QED BY <1>2, <1>3 DEF ReadOld

-----------------------------------------------------------------------------
(* Tokens and events.                                                      *)

LEMMA SignIInv ==
    ASSUME IInv, NEW r \in Requests, Sign(r) PROVE IInv'
<1> DEFINE row == req[r].row
           token == TokenOf(row)
           event == [type |-> "user.created", id |-> token.id, email |-> token.email,
                     role |-> token.role]
<1>1. UnderWay(r) /\ Reads /\ req[r] \in Request
  BY RequestType DEF Sign, At, UnderWay
<1>2. /\ row \in Account /\ Earned(r, row) /\ req[r].answer = None
      /\ users \subseteq seen[r]
  BY DEF Sign, At, IInv, Carries
<1>3. token \in Token /\ event \in Created \cup Updated
  BY <1>2 DEF TokenOf, Token, Account, Created
<1>4. UNCHANGED <<users, used, expired, seen>>
  BY <1>1, ReadsKeeps
<1>5. ASSUME NEW c \in Request, req'[r] = c, \A s \in Requests \ {r} : req'[s] = req[s],
             req' \in [Requests -> Maybe(Request)],
             c.kind = req[r].kind, c.arg = req[r].arg, c.id = req[r].id, c.token = token,
             \/ c.pc = "done" /\ c.answer = 200
             \/ c.pc = "emit" /\ c.answer = None /\ c.event \in Created \cup Updated
      PROVE  IInv'
  <2>1. PICK a \in seen[r] : TokenOf(a) = c.token /\ Earned(r, a)
    BY <1>2, <1>5 DEF Earned
  <2>2. Earned(r, a)'
    BY <1>4, <1>5, <2>1 DEF Earned
  <2>3. \E x \in seen'[r] : TokenOf(x) = c.token /\ Earned(r, x)'
    BY <1>4, <2>1, <2>2
  <2>4. Carries(r)'
    BY <1>2, <1>4, <1>5, <2>3, Types DEF Carries, TokenOf
  <2> QED BY <1>1, <1>4, <1>5, <2>4, ReadsKeeps, TablesStay
<1>6. CASE req[r].kind = "register"
  <2> DEFINE c == [req[r] EXCEPT !.pc = "emit", !.token = token, !.event = event]
  <2>1. req' = [GoesOn(r, "emit") EXCEPT ![r].token = token, ![r].event = event]
    BY <1>6 DEF Sign
  <2>2. "emit" \in Steps
    BY DEF Steps
  <2> HIDE DEF token, event
  <2>3. c \in Request
    BY <1>1, <1>3, <2>2, ChangedType
  <2>4. req'[r] = c /\ \A s \in Requests \ {r} : req'[s] = req[s]
    BY <2>1 DEF GoesOn, IInv, TypeOK
  <2>5. /\ c.pc = "emit" /\ c.token = token /\ c.event = event /\ c.answer = req[r].answer
        /\ c.kind = req[r].kind /\ c.arg = req[r].arg /\ c.id = req[r].id
    BY <1>1 DEF Request
  <2> HIDE DEF c
  <2>6. req' \in [Requests -> Maybe(Request)]
    BY <2>1, <2>3, <2>4 DEF GoesOn, IInv, TypeOK, Maybe
  <2> QED BY <1>2, <1>3, <1>5, <2>3, <2>4, <2>5, <2>6
<1>7. CASE req[r].kind # "register"
  <2> DEFINE c == [req[r] EXCEPT !.pc = "done", !.answer = 200, !.token = token]
  <2>1. req' = [Answers(r, 200) EXCEPT ![r].token = token]
    BY <1>7 DEF Sign
  <2> HIDE DEF token, event
  <2>2. c \in Request
    <3>1. "sign" \in Steps /\ 200 \in Codes
      BY DEF Steps, Codes
    <3>2. \A code \in Codes :
             [req[r] EXCEPT !.pc = "done", !.answer = code, !.token = token] \in Request
      BY <1>1, <1>3, <3>1, ChangedType
    <3> QED BY <3>1, <3>2
  <2>3. req'[r] = c /\ \A s \in Requests \ {r} : req'[s] = req[s]
    BY <2>1 DEF Answers, IInv, TypeOK
  <2>4. /\ c.pc = "done" /\ c.token = token /\ c.answer = 200
        /\ c.kind = req[r].kind /\ c.arg = req[r].arg /\ c.id = req[r].id
    BY <1>1 DEF Request
  <2> HIDE DEF c
  <2>5. req' \in [Requests -> Maybe(Request)]
    BY <2>1, <2>2, <2>3 DEF Answers, IInv, TypeOK, Maybe
  <2> QED BY <1>5, <2>2, <2>3, <2>4, <2>5
<1> QED BY <1>6, <1>7

LEMMA EmitIInv ==
    ASSUME IInv, NEW r \in Requests, Emit(r) \/ EmitFails(r) PROVE IInv'
<1>1. UnderWay(r) /\ req[r].event \in Created \cup Updated
  BY DEF Emit, EmitFails, At, UnderWay, IInv, Carries
<1>2. /\ req' = Answers(r, Status(r)) /\ UNCHANGED <<users, used, expired, seen>>
      /\ Status(r) \in Codes /\ Status(r) # 409
  BY DEF Emit, EmitFails, Status, Codes
<1>3. sent' \in Seq(Created \cup Updated)
  BY <1>1 DEF Emit, EmitFails, IInv
<1>4. failures' \in 0..MaxFailures
  BY AccountsAssumption DEF Emit, EmitFails, IInv, TypeOK
<1> QED BY <1>1, <1>2, <1>3, <1>4, AnswersIInv

LEMMA CallFailsIInv ==
    ASSUME IInv, NEW r \in Requests, CallFails(r) PROVE IInv'
<1>1. UnderWay(r) /\ UNCHANGED <<users, used, expired, sent, seen>>
  BY DEF CallFails
<1>2. failures' \in 0..MaxFailures
  BY AccountsAssumption DEF CallFails, IInv, TypeOK
<1>3. PICK status \in {401, 500} : req' = Answers(r, status)
  BY DEF CallFails
<1>4. status \in Codes /\ status # 409 /\ sent' \in Seq(Created \cup Updated)
  BY <1>1 DEF Codes, IInv
<1> QED BY <1>1, <1>2, <1>3, <1>4, AnswersIInv

-----------------------------------------------------------------------------
(* The steps that write.                                                   *)

\* A step of r that leaves the table with these accounts.
LEMMA WritesIInv ==
    ASSUME IInv, NEW accounts \in SUBSET Account, Writes(accounts), TableOK',
           UNCHANGED <<expired, sent, failures>>,
           NEW r \in Requests, UnderWay(r), NEW c \in Request,
           req'[r] = c, \A s \in Requests \ {r} : req'[s] = req[s],
           req' \in [Requests -> Maybe(Request)],
           c.kind = req[r].kind, c.arg = req[r].arg, c.id = req[r].id,
           c.token = req[r].token,
           \/ c.pc = "done" /\ c.answer # 409
           \/ c.pc = "emit" /\ c.answer = None /\ c.event \in Created \cup Updated
           \/ /\ c.pc = "sign" /\ c.answer = None /\ c.row \in accounts
              /\ c.kind = "register"
              /\ c.row.email = c.arg.email /\ c.row.password = c.arg.password
    PROVE  IInv'
<1>1. \A s \in Requests : seen'[s] = IF UnderWay(s) THEN seen[s] \cup accounts ELSE seen[s]
  BY DEF Writes
<1>2. SeenGrows
  <2>1. seen' \in [Requests -> SUBSET Account]
    BY DEF Writes, IInv, TypeOK
  <2>2. users' = accounts
    BY DEF Writes
  <2> QED BY <1>1, <2>1, <2>2 DEF SeenGrows
<1>3. Carries(r)'
  <2>1. \A a : Earned(r, a) => Earned(r, a)'
    BY <1>1 DEF Earned
  <2>2. req[r].token # None => \E a \in seen[r] : TokenOf(a) = req[r].token /\ Earned(r, a)
    BY DEF IInv, Carries, UnderWay
  <2>3. c.token # None => \E a \in seen'[r] : TokenOf(a) = c.token /\ Earned(r, a)'
    BY <1>1, <2>1, <2>2 DEF Earned
  <2>4. c.pc = "sign" => c.row \in Account /\ Earned(r, c.row)'
    BY <1>1 DEF Earned
  <2>5. users' \subseteq seen'[r]
    BY <1>2 DEF SeenGrows
  <2> QED BY <2>3, <2>4, <2>5, Types DEF Carries, TokenOf, Earned
<1>4. sent' \in Seq(Created \cup Updated) /\ failures' \in 0..MaxFailures
  BY DEF IInv, TypeOK
<1> QED BY <1>2, <1>3, <1>4, RequestMoves

LEMMA InsertUserIInv ==
    ASSUME IInv, NEW r \in Requests, InsertUser(r) PROVE IInv'
<1>1. /\ UnderWay(r) /\ UNCHANGED <<expired, sent, failures>> /\ req[r] \in Request
      /\ Carries(r) /\ req[r].pc = "insert"
  BY RequestType DEF InsertUser, At, UnderWay
<1>2. CASE EmailFree(req[r].arg.email, users)
  <2> DEFINE new(i) == [id |-> i, email |-> req[r].arg.email,
                        password |-> req[r].arg.password, role |-> req[r].arg.role]
  <2>1. PICK i \in Ids \ used :
            /\ Writes(users \cup {new(i)}) /\ used' = used \cup {i}
            /\ req' = GoesOnWith(r, "sign", new(i))
    BY <1>2 DEF InsertUser
  <2> DEFINE account == new(i)
             c == [req[r] EXCEPT !.pc = "sign", !.row = account]
  <2>2. /\ account \in Account /\ account.id = i
        /\ account.email = req[r].arg.email /\ account.password = req[r].arg.password
    BY <1>1 DEF Carries, Account
  <2>3. /\ Writes(users \cup {account}) /\ req' = GoesOnWith(r, "sign", account)
    BY <2>1
  <2> HIDE DEF account
  <2>4. TableOK'
    BY <1>2, <2>1, <2>2, <2>3 DEF TableOK, IInv, TypeOK, Writes, EmailFree
  <2>5. c \in Request
    BY <1>1, <2>2, ChangedType DEF Steps
  <2>6. req'[r] = c /\ \A s \in Requests \ {r} : req'[s] = req[s]
    BY <2>3 DEF GoesOnWith, IInv, TypeOK
  <2>7. /\ c.pc = "sign" /\ c.row = account /\ c.answer = req[r].answer
        /\ c.token = req[r].token
        /\ c.kind = req[r].kind /\ c.arg = req[r].arg /\ c.id = req[r].id
    BY <1>1 DEF Request
  <2>8. c.kind = "register" /\ c.answer = None
    BY <1>1, <2>7 DEF Carries
  <2> HIDE DEF c
  <2>9. req' \in [Requests -> Maybe(Request)]
    BY <2>3, <2>5, <2>6 DEF GoesOnWith, IInv, TypeOK, Maybe
  <2> DEFINE accounts == users \cup {account}
  <2>10. accounts \in SUBSET Account /\ Writes(accounts) /\ c.row \in accounts
    BY <2>2, <2>3, <2>7 DEF IInv, TypeOK
  <2>11. c.row.email = c.arg.email /\ c.row.password = c.arg.password
    BY <2>2, <2>7
  <2> HIDE DEF accounts
  <2>12. UNCHANGED <<expired, sent, failures>> /\ UnderWay(r)
    BY <1>1
  <2>13. /\ c.pc = "sign" /\ c.answer = None /\ c.row \in accounts
         /\ c.kind = "register"
         /\ c.row.email = c.arg.email /\ c.row.password = c.arg.password
    BY <2>7, <2>8, <2>10, <2>11
  <2>14. /\ c.kind = req[r].kind /\ c.arg = req[r].arg /\ c.id = req[r].id
         /\ c.token = req[r].token
    BY <2>7
  <2>15. accounts \in SUBSET Account /\ Writes(accounts)
    BY <2>10
  <2> QED BY <2>4, <2>5, <2>6, <2>9, <2>12, <2>13, <2>14, <2>15, WritesIInv, SMTT(60)
<1>3. CASE ~EmailFree(req[r].arg.email, users)
  <2>1. req' = Answers(r, 500) /\ UNCHANGED <<users, used, seen>> /\ 500 \in Codes
    BY <1>3 DEF InsertUser, Codes
  <2>2. sent' \in Seq(Created \cup Updated) /\ failures' \in 0..MaxFailures
    BY <1>1 DEF IInv, TypeOK
  <2> QED BY <1>1, <2>1, <2>2, AnswersIInv
<1> QED BY <1>2, <1>3

\* A request that answers after its write.
LEMMA AnswersWritten ==
    ASSUME IInv, NEW accounts \in SUBSET Account, Writes(accounts), TableOK',
           UNCHANGED <<expired, sent, failures>>,
           NEW r \in Requests, UnderWay(r),
           NEW status \in Codes, status # 409, req' = Answers(r, status)
    PROVE  IInv'
<1> DEFINE c == [req[r] EXCEPT !.pc = "done", !.answer = status]
<1>1. req[r] \in Request
  BY RequestType
<1>2. c \in Request
  <2>1. "lookup" \in Steps
    BY DEF Steps
  <2> QED BY <1>1, <2>1, ChangedType
<1>3. /\ c.pc = "done" /\ c.answer = status /\ c.token = req[r].token
      /\ c.kind = req[r].kind /\ c.arg = req[r].arg /\ c.id = req[r].id
  BY <1>1 DEF Request
<1>4. req'[r] = c /\ \A s \in Requests \ {r} : req'[s] = req[s]
  BY DEF Answers, IInv, TypeOK
<1> HIDE DEF c
<1>5. req' \in [Requests -> Maybe(Request)]
  BY <1>2, <1>4 DEF Answers, IInv, TypeOK, Maybe
<1> QED BY <1>2, <1>3, <1>4, <1>5, WritesIInv

LEMMA DeleteRowIInv ==
    ASSUME IInv, NEW r \in Requests, DeleteRow(r) PROVE IInv'
<1> DEFINE accounts == users \ ById(req[r].id)
<1>1. UnderWay(r) /\ Writes(accounts) /\ UNCHANGED <<used, expired, sent, failures>>
  BY DEF DeleteRow, At, UnderWay
<1>2. accounts \in SUBSET Account /\ TableOK'
  BY <1>1 DEF TableOK, IInv, TypeOK, Writes
<1>3. PICK status \in {200, 500} : req' = Answers(r, status)
  BY DEF DeleteRow
<1>4. status \in Codes /\ status # 409
  BY DEF Codes
<1> HIDE DEF accounts
<1> QED BY <1>1, <1>2, <1>3, <1>4, AnswersWritten

LEMMA WriteUserIInv ==
    ASSUME IInv, NEW r \in Requests, WriteUser(r) PROVE IInv'
<1>1. /\ UnderWay(r) /\ UNCHANGED <<used, expired, sent, failures>> /\ req[r] \in Request
      /\ Carries(r)
  BY RequestType DEF WriteUser, At, UnderWay
<1>2. ASSUME req' = Answers(r, 500), UNCHANGED <<users, seen>> PROVE IInv'
  <2>1. /\ sent' \in Seq(Created \cup Updated) /\ failures' \in 0..MaxFailures
        /\ 500 \in Codes
    BY <1>1 DEF IInv, TypeOK, Codes
  <2> QED BY <1>1, <1>2, <2>1, AnswersIInv
<1>3. ASSUME NEW a \in ById(req[r].id),
             LET new == Changed(a, req[r].arg)
                 event == Difference(req[r].row, req[r].arg, new)
             IN /\ EmailFree(new.email, users \ {a})
                /\ Writes((users \ {a}) \cup {new})
                /\ req' = IF event.email = None /\ event.role = None THEN Answers(r, 200)
                          ELSE [GoesOn(r, "emit") EXCEPT ![r].event = event]
      PROVE  IInv'
  <2> DEFINE new == Changed(a, req[r].arg)
             event == Difference(req[r].row, req[r].arg, new)
             accounts == (users \ {a}) \cup {new}
  <2>1. a \in users /\ a \in Account /\ req[r].arg \in Change
    BY <1>1 DEF ById, IInv, TypeOK, Request
  <2>2. new \in Account /\ new.id = a.id
    BY <2>1 DEF Changed, Account, Change, Maybe, Or
  <2>3. EmailFree(new.email, users \ {a}) /\ Writes(accounts)
    BY <1>3
  <2> HIDE DEF new
  <2>4. event \in Created \cup Updated
    BY <2>2 DEF Difference, Updated, Account, Maybe
  <2>5. accounts \in SUBSET Account
    BY <2>2 DEF IInv, TypeOK
  <2>6. TableOK'
    BY <1>1, <2>1, <2>2, <2>3 DEF TableOK, IInv, TypeOK, Writes, EmailFree
  <2>7. CASE req' = Answers(r, 200)
    <3>1. 200 \in Codes
      BY DEF Codes
    <3> HIDE DEF accounts
    <3> QED BY <1>1, <2>3, <2>5, <2>6, <2>7, <3>1, AnswersWritten
  <2>8. CASE req' = [GoesOn(r, "emit") EXCEPT ![r].event = event]
    <3> DEFINE c == [req[r] EXCEPT !.pc = "emit", !.event = event]
    <3> HIDE DEF event, accounts
    <3>1. c \in Request
      <4>1. "emit" \in Steps
        BY DEF Steps
      <4> QED BY <1>1, <2>4, <4>1, ChangedType
    <3>2. req'[r] = c /\ \A s \in Requests \ {r} : req'[s] = req[s]
      BY <2>8 DEF GoesOn, IInv, TypeOK
    <3>3. /\ c.pc = "emit" /\ c.event = event /\ c.answer = req[r].answer
          /\ c.token = req[r].token
          /\ c.kind = req[r].kind /\ c.arg = req[r].arg /\ c.id = req[r].id
      BY <1>1 DEF Request
    <3>4. c.answer = None
      BY <1>1, <3>3 DEF Carries, UnderWay
    <3> HIDE DEF c
    <3>5. req' \in [Requests -> Maybe(Request)]
      BY <2>8, <3>1, <3>2 DEF GoesOn, IInv, TypeOK, Maybe
    <3> QED BY <1>1, <2>3, <2>4, <2>5, <2>6, <3>1, <3>2, <3>3, <3>4, <3>5, WritesIInv
  <2> QED BY <1>3, <2>7, <2>8 DEF new
<1> QED BY <1>2, <1>3 DEF WriteUser

-----------------------------------------------------------------------------
(* Steps of no request, and the theorems.                                  *)

LEMMA TokenExpiresIInv ==
    ASSUME IInv, NEW r \in Requests, TokenExpires(r) PROVE IInv'
<1>1. UNCHANGED <<users, used, req, sent, failures, seen>>
  BY DEF TokenExpires
<1>2. TypeOK'
  BY <1>1 DEF TokenExpires, IInv, TypeOK, Given
<1>3. \A s \in Requests : Carries(s)' <=> Carries(s)
  BY <1>1 DEF Carries, Earned, Conflict
<1> QED BY <1>1, <1>2, <1>3 DEF IInv

\* Requests under way are never answered; the others do not change.
LEMMA StopIInv ==
    ASSUME IInv, Stop PROVE IInv'
<1>1. UNCHANGED <<users, used, expired, sent, seen>> /\ failures' \in 0..MaxFailures
  BY AccountsAssumption DEF Stop, IInv, TypeOK
<1>2. \A r \in Requests : req'[r] = IF UnderWay(r) THEN [req[r] EXCEPT !.pc = "done"]
                                    ELSE req[r]
  BY DEF Stop
<1>3. req' \in [Requests -> Maybe(Request)]
  <2>1. \A r \in Requests : UnderWay(r) => [req[r] EXCEPT !.pc = "done"] \in Request
    BY RequestType DEF Request
  <2>2. \A r \in Requests : req'[r] \in Maybe(Request)
    BY <1>2, <2>1 DEF IInv, TypeOK, Maybe
  <2> QED BY <2>2 DEF Stop
<1>4. expired \subseteq Given'
  <2> SUFFICES ASSUME NEW r \in expired PROVE r \in Given'
    OBVIOUS
  <2>1. r \in Given
    BY DEF IInv, TypeOK
  <2>2. req[r].pc = "done"
    BY <2>1, Types DEF IInv, Carries, Given
  <2> QED BY <1>2, <2>1, <2>2 DEF Given, UnderWay
<1>5. ASSUME NEW r \in Requests, req'[r] # None PROVE Carries(r)'
  <2>1. CASE UnderWay(r)
    <3>1. req[r] \in Request /\ Carries(r)
      BY <2>1, RequestType
    <3>2. /\ req'[r].pc = "done" /\ req'[r].token = req[r].token
          /\ req'[r].answer = req[r].answer /\ req'[r].kind = req[r].kind
          /\ req'[r].arg = req[r].arg /\ req'[r].id = req[r].id
      BY <1>2, <2>1, <3>1 DEF Request
    <3>3. \A a : Earned(r, a) => Earned(r, a)'
      BY <1>1, <3>2 DEF Earned
    <3>4. req[r].token # None => \E a \in seen[r] : TokenOf(a) = req[r].token /\ Earned(r, a)'
      BY <3>1, <3>3 DEF Carries
    <3>5. req[r].answer # 409
      BY <2>1, <3>1, Types DEF Carries, UnderWay
    <3> QED BY <1>1, <3>2, <3>4, <3>5 DEF Carries, TokenOf
  <2>2. CASE ~UnderWay(r)
    <3>1. req'[r] = req[r] /\ req[r] # None /\ Carries(r)
      BY <1>2, <1>5, <2>2 DEF IInv
    <3> QED BY <1>1, <3>1 DEF Carries, Earned, Conflict
  <2> QED BY <2>1, <2>2
<1> QED BY <1>1, <1>3, <1>4, <1>5 DEF IInv, TypeOK

LEMMA InitIInv == Init => IInv
<1> SUFFICES ASSUME Init PROVE IInv
  OBVIOUS
<1>1. TypeOK
  <2>1. Given = {}
    BY DEF Init, Given
  <2>2. users \subseteq Account /\ used \subseteq Ids
    BY AccountsAssumption DEF Init, Account
  <2>3. req \in [Requests -> Maybe(Request)] /\ failures \in 0..MaxFailures
    BY AccountsAssumption DEF Init, Maybe
  <2> QED BY <2>1, <2>2, <2>3 DEF Init, TypeOK
<1> QED BY <1>1 DEF Init, IInv

LEMMA NextIInv == IInv /\ [Next]_vars => IInv'
<1> SUFFICES ASSUME IInv, [Next]_vars PROVE IInv'
  OBVIOUS
<1>1. ASSUME NEW r \in Requests, Arrives(r) \/ TokenExpires(r) PROVE IInv'
  BY <1>1, ArrivesIInv, TokenExpiresIInv
<1>2. ASSUME NEW r \in Requests, Step(r) PROVE IInv'
  BY <1>2, LookupEmailIInv, InsertUserIInv, SignIInv, EmitIInv, ValidateCredentialsIInv,
     LoadUserIInv, CheckUserIInv, CheckTakenIInv, ReadOldIInv, WriteUserIInv, DeleteRowIInv,
     CallFailsIInv DEF Step
<1>3. CASE Stop
  BY <1>3, StopIInv
<1>4. CASE UNCHANGED vars
  <2>1. UNCHANGED <<users, used, req, expired, sent, failures, seen>>
    BY <1>4 DEF vars
  <2>2. \A r \in Requests : Carries(r)' <=> Carries(r)
    BY <2>1 DEF Carries, Earned, Conflict
  <2>3. TypeOK'
    BY <2>1 DEF IInv, TypeOK, Given
  <2> QED BY <2>1, <2>2, <2>3 DEF IInv
<1> QED BY <1>1, <1>2, <1>3, <1>4 DEF Next

LEMMA Invariant == Spec => []IInv
BY InitIInv, NextIInv, PTL DEF Spec

\* The variables keep their types; among them, ids and addresses stay unique
\* though addresses are looked up before they are written: UserRepository.
THEOREM TypeCorrect == Spec => []TypeOK
<1>1. IInv => TypeOK
  BY DEF IInv
<1> QED BY <1>1, Invariant, PTL

\* Every token tells what was true of its account while its request was under
\* way, whoever changed or deleted the account meanwhile: AuthService.
THEOREM TokensAreEarned == Spec => []TokensEarned
<1>1. IInv => TokensEarned
  BY DEF IInv, TokensEarned, Carries, Earned
<1> QED BY <1>1, Invariant, PTL

\* No request is answered 409 unless another account had its address while it
\* was under way: UserService.create and update.
THEOREM ConflictsReal == Spec => []ConflictsAreReal
<1>1. IInv => ConflictsAreReal
  BY DEF IInv, ConflictsAreReal, Carries, Conflict
<1> QED BY <1>1, Invariant, PTL
=============================================================================
