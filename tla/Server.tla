-------------------------------- MODULE Server --------------------------------
(***************************************************************************)
(* The process that serves: ApplicationBootstrap starts it, requests for   *)
(* users and for stored objects come and are answered, and SIGTERM ends    *)
(* it.  SIGTERM runs two handlers side by side: Nest's, which was asked    *)
(* for with enableShutdownHooks, and the one that start adds.  Each closes *)
(* the application: the modules' connections first (PrismaService and      *)
(* RedisService), then the HTTP server, which waits for the requests in    *)
(* hand.  Nest's, when it is through, sends SIGTERM again ("again").       *)
(***************************************************************************)
EXTENDS UserProfile, S3Service

CONSTANT
    Tables      \* what the table of users may hold when the process starts

VARIABLES
    phase,      \* of the process: creating, initializing, running or exited
    exitCode,   \* what it exited with
    listening,  \* whether new requests are let in
    redis,      \* whether the connection of RedisService is ready or ended
    closers     \* how far each of those that close the application is

lifecycle == <<phase, exitCode, listening, redis, closers>>
profile == <<rows, drawn>>
vars == <<calls, production, rows, drawn, urls, objects, uploads,
          phase, exitCode, listening, redis, closers>>

Closers == {"nest", "app", "again"}

Init ==
    /\ InitAnswers
    /\ InitStorage
    /\ rows \in Tables
    /\ drawn = {}
    /\ phase = "creating"
    /\ exitCode = None
    /\ listening = FALSE
    /\ redis = "ready"
    /\ closers = [x \in Closers |-> "idle"]

-----------------------------------------------------------------------------
(* Requests come *)

\* The first step of a request; pipes have refused sign-ups whose passwords
\* differ, and update parses before it reads.
FirstStep(op) ==
    CASE op.kind \in {"signUp", "facebookAuth"} -> "findByEmail"
      [] op.kind \in {"updateUserRole", "isProfileComplete"} -> "findById"
      [] op.kind = "updateUser" -> IF shouldRegenerateSlug(op.data) THEN "read" ELSE "write"
      [] op.kind = "createListing" -> "guard"
      [] op.kind = "presign" -> "presign"
      [] op.kind = "deleteObject" -> "head"

Refused(op) ==
    CASE op.kind = "signUp" /\ ~op.match -> "UnprocessableEntity"
      [] op.kind = "updateUser" /\ ~parses(op.data) -> "ZodError"
      [] OTHER -> None

\* Whom and what a request is about is something its client has heard of.
Known(op) ==
    /\ op.kind \in {"updateUserRole", "isProfileComplete", "updateUser", "createListing"}
            => rows[op.user] # None
    /\ op.kind = "deleteObject" => urls[op.key] # "unissued"

Arrive(c, op) ==
    /\ phase = "running"
    /\ listening
    /\ calls[c].step = "idle"
    /\ Known(op)
    /\ calls' = [calls EXCEPT ![c] =
            IF Refused(op) # None
            THEN [@ EXCEPT !.op = op, !.step = "ended", !.answer = Caught(intercept(Refused(op)))]
            ELSE [@ EXCEPT !.op = op, !.step = FirstStep(op),
                           !.seen = IF op.kind = "deleteObject" THEN uploads ELSE None]]
    /\ UNCHANGED <<production, profile, storage, lifecycle>>

-----------------------------------------------------------------------------
(* The process *)

\* The requests in hand are cut off.
Exit(code) ==
    /\ phase' = "exited"
    /\ exitCode' = code
    /\ listening' = FALSE
    /\ calls' = [c \in Calls |->
            IF c \in InHand THEN [calls[c] EXCEPT !.step = "ended", !.answer = NoAnswer]
            ELSE calls[c]]
    /\ UNCHANGED <<production, profile, storage>>

Quiet == UNCHANGED <<calls, production, profile, storage>>

\* NestFactory.create, and what start sets up before it listens.
initializeApp ==
    /\ phase = "creating"
    /\ \/ /\ phase' = "initializing"
          /\ Quiet
          /\ UNCHANGED <<exitCode, listening, redis, closers>>
       \/ Exit(1) /\ UNCHANGED <<redis, closers>>

\* listen runs the modules' onModuleInit, which connects the database.
listen ==
    /\ phase = "initializing"
    /\ \/ /\ phase' = "running"
          /\ listening' = TRUE
          /\ Quiet
          /\ UNCHANGED <<exitCode, redis, closers>>
       \/ Exit(1) /\ UNCHANGED <<redis, closers>>

\* A mutated form of Sigterm: Nest's hooks are not enabled.
SigtermAppOnly ==
    \/ /\ phase = "creating"
       /\ Exit(143)
       /\ UNCHANGED <<redis, closers>>
    \/ /\ phase = "running"
       /\ closers["app"] = "idle"
       /\ closers' = [closers EXCEPT !["app"] = "destroy"]
       /\ Quiet
       /\ UNCHANGED <<phase, exitCode, listening, redis>>

\* Before the hooks are there the signal ends the process.
Sigterm ==
    \/ /\ phase = "creating"
       /\ Exit(143)
       /\ UNCHANGED <<redis, closers>>
    \/ /\ phase = "running"
       /\ closers["app"] = "idle"
       /\ closers' = [closers EXCEPT !["nest"] = "destroy", !["app"] = "destroy"]
       /\ Quiet
       /\ UNCHANGED <<phase, exitCode, listening, redis>>

\* A rejected close: Nest's handler exits; nobody awaits the other's promise, so
\* that Node exits, unless Sentry is there to catch what is unhandled.
Rejected(x) ==
    IF x = "nest" \/ ~production THEN Exit(1) /\ UNCHANGED <<redis, closers>>
    ELSE /\ closers' = [closers EXCEPT ![x] = "rejected"]
         /\ Quiet
         /\ UNCHANGED <<phase, exitCode, listening, redis>>

\* onModuleDestroy of PrismaService, which may be called again, and RedisService,
\* whose connection takes one QUIT.
onModuleDestroy(x) ==
    /\ phase = "running"
    /\ closers[x] = "destroy"
    /\ \/ /\ redis = "ready"
          /\ redis' = "ended"
          /\ closers' = [closers EXCEPT ![x] = "dispose"]
          /\ listening' = FALSE
          /\ Quiet
          /\ UNCHANGED <<phase, exitCode>>
       \/ Rejected(x)

\* The HTTP server is closed once no request is in hand.
Disposed(x) ==
    /\ phase = "running"
    /\ closers[x] = "dispose"
    /\ InHand = {}
    /\ IF x = "nest"
       THEN /\ closers' = [closers EXCEPT !["nest"] = "done", !["again"] = "destroy"]
            /\ Quiet
            /\ UNCHANGED <<phase, exitCode, listening, redis>>
       ELSE Exit(0) /\ UNCHANGED <<redis, closers>>

\* Node ends by itself when nothing is left to wait for.
RunOut ==
    /\ phase = "running"
    /\ closers["nest"] = "done"
    /\ \A x \in Closers : closers[x] \in {"done", "rejected"}
    /\ Exit(0)
    /\ UNCHANGED <<redis, closers>>

-----------------------------------------------------------------------------
Step(c) ==
    /\ phase = "running"
    /\ \/ ProfileStep(c) /\ UNCHANGED storage
       \/ StorageStep(c) /\ UNCHANGED profile
    /\ UNCHANGED lifecycle

Close(x) == onModuleDestroy(x) \/ Disposed(x)

Others ==
    /\ \/ \E u \in Users : RemoveUser(u) /\ UNCHANGED storage
       \/ \E k \in Keys : (Upload(k) \/ UrlExpires(k)) /\ UNCHANGED profile
    /\ UNCHANGED lifecycle

Next ==
    \/ initializeApp \/ listen \/ Sigterm \/ RunOut
    \/ \E x \in Closers : Close(x)
    \/ \E c \in Calls : \E op \in Operations[c] : Arrive(c, op)
    \/ \E c \in Calls : Step(c)
    \/ Others

\* Queries return, and what Node has begun goes on; nobody need send a request or
\* a signal.
Fairness ==
    /\ \A c \in Calls : WF_vars(Step(c))
    /\ \A x \in Closers : WF_vars(Close(x))
    /\ WF_vars(RunOut)

Spec == Init /\ [][Next]_vars /\ Fairness

-----------------------------------------------------------------------------
\* The steps a request for each thing may be at.
StepsFor ==
    [signUp |-> {"findByEmail", "create", "sign", "store", "mail"},
     facebookAuth |-> {"findByEmail", "create", "sign", "store"},
     updateUserRole |-> {"findById", "write", "sign", "store"}, isProfileComplete |-> {"findById"},
     updateUser |-> {"read", "write"}, createListing |-> {"guard", "handler"},
     presign |-> {"presign"}, deleteObject |-> {"head", "delete"}]

OfUser == {"updateUserRole", "isProfileComplete", "updateUser", "createListing"}

RowOK(row) == row \in Row /\ (row.slug = None <=> row.slugId = None)

CallOK(c, call) ==
    /\ DOMAIN call = DOMAIN Idle
    /\ CASE call.step = "idle" -> call.op = None /\ call.answer = None
         [] call.step = "ended" -> call.op \in Operations[c] /\ call.answer \in Answer
         [] OTHER -> /\ call.op \in Operations[c] /\ call.answer = None
                     /\ call.step \in StepsFor[call.op.kind]
    /\ call.failed \in BOOLEAN

TypeOK ==
    /\ DOMAIN calls = Calls /\ \A c \in Calls : CallOK(c, calls[c])
    /\ DOMAIN rows = Users /\ \A u \in Users : rows[u] # None => RowOK(rows[u])
    /\ drawn \subseteq Draws
    /\ production \in BOOLEAN
    /\ urls \in [Keys -> {"unissued", "open", "expired"}]
    /\ uploads \in 0..MaxUploads /\ objects \in [Keys -> 0..uploads]
    /\ phase \in {"creating", "initializing", "running", "exited"}
    /\ exitCode \in {None, 0, 1, 143} /\ (phase = "exited" <=> exitCode # None)
    /\ listening \in BOOLEAN /\ (listening => phase = "running")
    /\ redis \in {"ready", "ended"}
    /\ closers \in [Closers -> {"idle", "destroy", "dispose", "rejected", "done"}]
    /\ InHand # {} => phase = "running"

SlugRight(row) ==
    row.slug # None =>
        /\ parseSlugId(row.slug) = row.slugId
        /\ ~row.torn => row.slug = generateUserSlug(row, row.slugId)

\* Requests are about users, their names are names, and a role is no name.
ASSUME OperationsAssumption ==
    \A c \in Calls : \A op \in Operations[c] :
        /\ op # None
        /\ op.kind \in DOMAIN StepsFor
        /\ op.kind \in OfUser => op.user \in Users
        /\ op.kind = "deleteObject" => op.key \in Keys
        /\ op.kind \in {"signUp", "facebookAuth"} => op.email \in Strings
        /\ op.kind = "updateUserRole" => ~shouldRegenerateSlug(op.data)
        /\ op.kind \in {"updateUserRole", "updateUser"} => \A f \in DOMAIN op.data :
                /\ f \in NameFields => op.data[f] \in Names \union {None}
                /\ f \in {"userType", "licenseId"} => op.data[f] \in Strings \union {None}
                /\ f = "phoneNumber" => op.data[f] \in Strings
                /\ f = "isEmailVerified" => op.data[f] \in BOOLEAN

\* What is in the table at the start was put there by this code, in an earlier life
\* of the process; the database has kept the addresses apart.
ASSUME TablesAssumption ==
    \A table \in Tables :
        /\ DOMAIN table = Users
        /\ \A u \in Users : table[u] # None =>
                /\ RowOK(table[u]) /\ SlugRight(table[u])
                /\ table[u].by = None /\ table[u].namedBy = {}
        /\ \A u, v \in Users : table[u] # None /\ table[v] # None
                /\ ~table[u].gone /\ ~table[v].gone /\ table[u].email = table[v].email => u = v

ASSUME NoneAssumption ==
    /\ None \notin {0, 1, 143} \union Row \union Calls
    /\ None \notin [slug : Slugs, slugId : SlugIds, namedBy : SUBSET Calls]

(***************************************************************************)
(* A slug in the table ends in its slug id, whatever nanoid returned and   *)
(* whatever is left of the names, and it is made of the names in the same  *)
(* row unless two updates of the names overlapped.                         *)
(***************************************************************************)
SlugCurrent ==
    \A u \in Users : rows[u] # None => SlugRight(rows[u])

(***************************************************************************)
(* Links with the slug id of a user go on working: it changes only by an   *)
(* update of the names that overlapped another.                            *)
(***************************************************************************)
SlugIdKept ==
    [][\A u \in Users :
            rows[u] # None /\ rows[u].slugId # None
                => rows'[u].slugId = rows[u].slugId \/ rows'[u].torn]_rows

\* What the answers say of what was done.
Answered(kind) ==
    {c \in Calls : calls[c].step = "ended" /\ calls[c].op.kind = kind /\ calls[c].answer.status # 0}
Status(c) == calls[c].answer.status
Failed(c) == calls[c].failed

Made(c) == \E u \in Users : rows[u] # None /\ rows[u].by = c
Other(c) == \E u \in Users :
    rows[u] # None /\ rows[u].email = calls[c].op.email /\ rows[u].by # c
Gone(c) == rows[calls[c].op.user].gone
\* The account that was made or found is gone.
Removed(c) == \E u \in Users :
    /\ rows[u] # None /\ rows[u].gone /\ rows[u].email = calls[c].op.email
    /\ calls[c].op.kind = "signUp" => rows[u].by = c

SignUpTold(c) ==
    CASE Status(c) = 200 -> Made(c)
      [] Status(c) = 400 -> Other(c) /\ ~Made(c)
      [] Status(c) = 409 -> IF Made(c) THEN Failed(c) ELSE Other(c)
      [] Status(c) = 422 -> ~calls[c].op.match /\ ~Made(c)
      [] Status(c) = 404 -> Removed(c)
      [] Status(c) = 500 -> Failed(c) \/ Removed(c)
      [] OTHER -> FALSE

FacebookTold(c) ==
    CASE Status(c) = 200 -> Made(c) \/ Other(c)
      [] Status(c) = 401 -> IF Made(c) THEN Failed(c) ELSE Other(c) \/ Failed(c)
      [] Status(c) = 409 -> Failed(c)
      [] Status(c) = 404 -> Removed(c)
      [] Status(c) = 500 -> Failed(c) \/ Removed(c)
      [] OTHER -> FALSE

OneAccount ==
    \A u, v \in Users :
        Exists(u) /\ Exists(v) /\ rows[u].email = rows[v].email => u = v

UpdateTold(c) ==
    CASE Status(c) = 200 -> shouldRegenerateSlug(calls[c].op.data) => c \in rows[User(c)].namedBy
      [] Status(c) = 404 -> Gone(c)
      [] Status(c) = 500 -> Failed(c) \/ ~parses(calls[c].op.data)
      [] OTHER -> FALSE

LookUpTold(c) ==
    CASE Status(c) = 200 -> TRUE
      [] Status(c) \in {404, 500} -> Gone(c) \/ Failed(c)
      [] Status(c) = 409 -> Failed(c)
      [] OTHER -> FALSE

ListingTold(c) ==
    CASE Status(c) = 200 -> calls[c].seen
      [] Status(c) = 403 -> TRUE
      [] Status(c) = 500 -> Gone(c) \/ Failed(c)
      [] OTHER -> FALSE

DeletionTold(c) ==
    Status(c) = 200 /\ ~Failed(c) =>
        LET object == objects[calls[c].op.key] IN object = 0 \/ object > calls[c].seen

\* A request without an answer was cut off by an exit as failed.
SilenceTold(c) ==
    /\ Status(c) = 0 => exitCode = 1
    /\ calls[c].answer.reported => Status(c) >= 500

(***************************************************************************)
(* The answers tell what happened.  A sign-up answered 200 has made an     *)
(* account, one refused for its address or its passwords has made none;    *)
(* one refused later leaves its account behind, though only when a query,  *)
(* the keys or the mail failed or the account was removed meanwhile.  One  *)
(* address has one account.  Names updated with 200 have come from that    *)
(* request too, and who is told 404 asked for a row that is gone; 500 is   *)
(* for lost queries and rows that are gone.  A deletion answered 200 has   *)
(* left nothing of what was uploaded before it, unless one of its queries  *)
(* was lost: an object whose HEAD fails counts as deleted and stays.  A    *)
(* request stays without an answer only when the process exits as failed,  *)
(* and Sentry hears of server errors only.                                 *)
(***************************************************************************)
AnswersTrue ==
    /\ OneAccount
    /\ \A c \in Answered("signUp") : SignUpTold(c)
    /\ \A c \in Answered("facebookAuth") : FacebookTold(c)
    /\ \A c \in Answered("updateUser") : UpdateTold(c)
    /\ \A c \in Answered("updateUserRole") \union Answered("isProfileComplete") : LookUpTold(c)
    /\ \A c \in Answered("createListing") : ListingTold(c)
    /\ \A c \in Answered("deleteObject") : DeletionTold(c)
    /\ \A c \in Calls : calls[c].step = "ended" => SilenceTold(c)

(***************************************************************************)
(* SIGTERM ends the process, whichever of the two handlers is first and    *)
(* whatever becomes of the connections they both close.                    *)
(***************************************************************************)
ShutdownEnds == closers["app"] # "idle" ~> phase = "exited"
=============================================================================
