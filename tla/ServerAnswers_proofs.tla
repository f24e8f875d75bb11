------------------------- MODULE ServerAnswers_proofs -------------------------
(***************************************************************************)
(* What clients of Server are told is what happened.  An answer is about   *)
(* rows and objects that other requests go on to change, so the invariant  *)
(* has two parts: what each request has found out and done by the time it  *)
(* is answered, and that nothing anybody does later makes it untrue.  Rows *)
(* keep their address and their maker, and are named and removed for good; *)
(* uploads after a deletion have higher numbers than those before it.      *)
(* At the end: requests come to an end, and so does the process.           *)
(***************************************************************************)
EXTENDS Server_proofs

\* What the answer of a request that has ended says.
Told(c) ==
    /\ SilenceTold(c)
    /\ Status(c) # 0 =>
        /\ Kind(c) = "signUp" => SignUpTold(c)
        /\ Kind(c) = "facebookAuth" => FacebookTold(c)
        /\ Kind(c) = "updateUser" => UpdateTold(c)
        /\ Kind(c) \in {"updateUserRole", "isProfileComplete"} => LookUpTold(c)
        /\ Kind(c) = "createListing" => ListingTold(c)
        /\ Kind(c) = "deleteObject" => DeletionTold(c)

AllTold == \A c \in Calls : calls[c].step = "ended" => Told(c)

\* A request that has made a row is past its creation.
MadeBySettled ==
    \A u \in Users, c \in Calls :
        rows[u] # None /\ rows[u].by = c => calls[c].step \in Settled

Signing == {"sign", "store", "mail"}

\* The row that tokens are made for: that of the account made or found, or that whose
\* role was changed.
Account(c) ==
    calls[c].step \in Signing =>
        LET u == calls[c].seen IN
        /\ u \in Users /\ rows[u] # None
        /\ Kind(c) \in {"signUp", "facebookAuth"} => rows[u].email = calls[c].op.email
        /\ Kind(c) = "signUp" => rows[u].by = c
        /\ Kind(c) = "updateUserRole" => u = User(c)

\* What a request has found out so far.
Prepared(c) ==
    /\ calls[c].step = "handler" => calls[c].seen = TRUE
    /\ Account(c)
    /\ calls[c].step # "idle" /\ Kind(c) \in OfUser => rows[User(c)] # None
    /\ calls[c].step # "idle" /\ Kind(c) = "deleteObject" => calls[c].seen \in 0..uploads

\* Those that close the application have stopped it from listening before the server
\* waits for the requests in hand.
Closing ==
    /\ phase \in {"creating", "initializing"} => \A x \in Closers : closers[x] = "idle"
    /\ \A x \in Closers : closers[x] = "dispose" => ~listening
    /\ closers["nest"] = "done" => ~listening /\ InHand = {}

AInv ==
    /\ Inv
    /\ OneAccount /\ MadeBySettled /\ AllTold /\ Closing
    /\ \A c \in Calls : Prepared(c)

\* What may become of rows and objects.
Onward ==
    /\ \A u \in Users : rows[u] # None =>
        /\ rows'[u] # None
        /\ rows'[u].email = rows[u].email /\ rows'[u].by = rows[u].by
        /\ rows[u].namedBy \subseteq rows'[u].namedBy
        /\ rows[u].gone => rows'[u].gone
    /\ \A k \in Keys : objects'[k] \in {objects[k], 0, uploads + 1}

\* Only c may have made a row.
MadeOnlyBy(c) ==
    \A u \in Users : rows[u] = None /\ rows'[u] # None => rows'[u].by = c

-----------------------------------------------------------------------------
(* Statuses *)

\* What the filters make of the errors that requests run into.
LEMMA Statuses ==
  /\ Caught(intercept("BadRequest")).status = 400
  /\ Caught(intercept("Unauthorized")).status = 401
  /\ Caught(intercept("UnprocessableEntity")).status = 422
  /\ Caught(intercept("P2002")).status = 409
  /\ Caught(intercept("P2025")).status = 404
  /\ Caught(intercept("Conflict")).status = 409
  /\ Caught(intercept("ZodError")).status = 500
  /\ Caught(intercept("Error")).status = 500
  /\ Caught("ZodError").status = 500
  /\ Caught("Forbidden").status = 403
  /\ \A error \in Failures : Caught(intercept(error)).status = 500 /\ Caught(error).status = 500
  BY DEF Caught, intercept, getStatusCode, HttpException, KnownRequestError, StatusCode,
         errorHandlers, Failures

\* Sentry hears of server errors only.
LEMMA ReportedIsServerError ==
  ASSUME NEW error, Caught(error).reported
  PROVE  Caught(error).status = 500
  <1>1. error = "InternalServerError"
    BY DEF Caught, captured, beforeSend, clientErrorExceptions, HttpException, StatusCode
  <1> QED
    BY <1>1 DEF Caught, getStatusCode, HttpException, StatusCode

LEMMA SuccessStatus ==
  /\ [status |-> 200, reported |-> FALSE].status = 200
  /\ [status |-> 200, reported |-> FALSE].reported = FALSE
  /\ NoAnswer.status = 0 /\ NoAnswer.reported = FALSE
  BY DEF NoAnswer

-----------------------------------------------------------------------------
(* Answers that were given stay true *)

\* What a step of c leaves of the other requests, and of what c asks.
Only(c) ==
    /\ \A d \in Calls \ {c} : calls'[d] = calls[d]
    /\ calls'[c].op = calls[c].op

\* c ends with this answer, and with what it knows of lost queries.
EndsWith(c, answer, failed) ==
    /\ Only(c)
    /\ calls'[c].step = "ended" /\ calls'[c].answer = answer
    /\ calls'[c].failed = failed /\ calls'[c].seen = calls[c].seen

LEMMA EndFields ==
  ASSUME TypeOK, NEW c \in Calls, NEW answer, End(c, answer)
  PROVE  EndsWith(c, answer, calls[c].failed)
  <1>1. CallOK(c, calls[c]) /\ DOMAIN calls = Calls
    BY DEF TypeOK
  <1>2. /\ \A d \in Calls \ {c} : calls'[d] = calls[d]
        /\ calls'[c] = [calls[c] EXCEPT !.step = "ended", !.answer = answer]
    BY <1>1 DEF End
  <1> QED
    BY <1>1, <1>2 DEF EndsWith, Only, CallOK, Idle

LEMMA LoseFields ==
  ASSUME TypeOK, NEW c \in Calls, NEW answer, Lose(c, answer)
  PROVE  EndsWith(c, answer, TRUE)
  <1>1. CallOK(c, calls[c]) /\ DOMAIN calls = Calls
    BY DEF TypeOK
  <1>2. /\ \A d \in Calls \ {c} : calls'[d] = calls[d]
        /\ calls'[c] = [calls[c] EXCEPT !.step = "ended", !.failed = TRUE, !.answer = answer]
    BY <1>1 DEF Lose
  <1> QED
    BY <1>1, <1>2 DEF EndsWith, Only, CallOK, Idle

LEMMA ProceedFields ==
  ASSUME TypeOK, NEW c \in Calls, NEW step, NEW seen, Proceed(c, step, seen)
  PROVE  Only(c) /\ calls'[c].step = step /\ calls'[c].seen = seen
  <1>1. CallOK(c, calls[c]) /\ DOMAIN calls = Calls
    BY DEF TypeOK
  <1>2. /\ \A d \in Calls \ {c} : calls'[d] = calls[d]
        /\ calls'[c] = [calls[c] EXCEPT !.step = step, !.seen = seen]
    BY <1>1 DEF Proceed
  <1> QED
    BY <1>1, <1>2 DEF Only, CallOK, Idle

\* What a request that came is about.
LEMMA AskedFor ==
  ASSUME Inv, NEW c \in Calls, calls[c].step # "idle"
  PROVE  /\ calls[c].op \in Operations[c] /\ Kind(c) \in DOMAIN StepsFor
         /\ Kind(c) \in OfUser => User(c) \in Users
         /\ Kind(c) = "deleteObject" => calls[c].op.key \in Keys
  <1>1. calls[c].op \in Operations[c]
    BY DEF Inv, TypeOK, CallOK
  <1> QED
    BY <1>1, OperationsAssumption DEF Kind, User

LEMMA StorageTyped ==
  ASSUME Inv
  PROVE  /\ uploads \in Nat /\ \A k \in Keys : objects[k] \in 0..uploads
         /\ DOMAIN objects = Keys /\ DOMAIN rows = Users /\ DOMAIN calls = Calls
  BY StorageAssumption DEF Inv, TypeOK

LEMMA DeletionStays ==
  ASSUME Inv, NEW d \in Calls, calls[d].step = "ended", calls'[d] = calls[d], Onward,
         Kind(d) = "deleteObject", calls[d].seen \in 0..uploads, DeletionTold(d)
  PROVE  DeletionTold(d)'
  <1> DEFINE key == calls[d].op.key
  <1>1. key \in Keys /\ uploads \in Nat /\ objects[key] \in 0..uploads
    BY AskedFor, StorageTyped
  <1>2. objects'[key] \in {objects[key], 0, uploads + 1}
    BY <1>1 DEF Onward
  <1>3. calls[d].seen \in Nat /\ calls[d].seen <= uploads
    BY <1>1
  <1> HIDE DEF key
  <1>4. objects[key] = 0 \/ objects[key] > calls[d].seen
            => objects'[key] = 0 \/ objects'[key] > calls[d].seen
    BY <1>1, <1>2, <1>3
  <1> QED
    BY <1>4 DEF DeletionTold, Status, Failed, key

LEMMA ToldStays ==
  ASSUME AInv, NEW d \in Calls, calls[d].step = "ended", calls'[d] = calls[d], Onward,
         \A u \in Users : rows[u] = None /\ rows'[u] # None => rows'[u].by # d,
         exitCode' = exitCode \/ exitCode = None
  PROVE  Told(d)'
  <1>1. Told(d) /\ Prepared(d)
    BY DEF AInv, AllTold
  <1>2. /\ Status(d)' = Status(d) /\ Failed(d)' = Failed(d) /\ Kind(d)' = Kind(d)
        /\ User(d)' = User(d)
    BY DEF Status, Failed, Kind, User
  <1>3. (Made(d) <=> Made(d)') /\ (Other(d) => Other(d)')
    BY DEF Made, Other, Onward
  <1>13. Removed(d) => Removed(d)'
    BY DEF Removed, Onward
  <1>4. Kind(d) \in OfUser => User(d) \in Users /\ rows[User(d)] # None
    BY <1>1, AskedFor DEF AInv, Prepared
  <1>5. Kind(d) \in OfUser =>
            /\ Gone(d) => Gone(d)'
            /\ d \in rows[User(d)].namedBy => d \in rows'[User(d)].namedBy
    BY <1>4 DEF Gone, Onward, User
  <1>6. SilenceTold(d)'
    BY <1>1, <1>2, NoneAssumption DEF Told, SilenceTold
  <1>7. SignUpTold(d) => SignUpTold(d)'
    BY <1>2, <1>3, <1>13 DEF SignUpTold
  <1>8. FacebookTold(d) => FacebookTold(d)'
    BY <1>2, <1>3, <1>13 DEF FacebookTold
  <1>9. Kind(d) = "updateUser" /\ UpdateTold(d) => UpdateTold(d)'
    BY <1>2, <1>5 DEF UpdateTold, OfUser
  <1>10. Kind(d) \in {"updateUserRole", "isProfileComplete"} /\ LookUpTold(d) => LookUpTold(d)'
    BY <1>2, <1>5 DEF LookUpTold, OfUser
  <1>11. Kind(d) = "createListing" /\ ListingTold(d) => ListingTold(d)'
    BY <1>2, <1>5 DEF ListingTold, OfUser
  <1>12. Kind(d) = "deleteObject" /\ DeletionTold(d) => DeletionTold(d)'
    BY <1>1, DeletionStays DEF AInv, Prepared
  <1> QED
    BY <1>1, <1>2, <1>6, <1>7, <1>8, <1>9, <1>10, <1>11, <1>12 DEF Told

-----------------------------------------------------------------------------
(* What a step of a request has to show *)

LEMMA NotMadeYet ==
  ASSUME AInv, NEW c \in Calls, calls[c].step \notin Settled
  PROVE  ~Made(c)
  BY DEF AInv, MadeBySettled, Made

\* No account comes or comes back.
LEMMA AccountsStayApart ==
  ASSUME OneAccount, Onward, \A u \in Users : rows'[u] # None => rows[u] # None
  PROVE  OneAccount'
  BY DEF OneAccount, Onward, Exists

LEMMA AccountStays ==
  ASSUME NEW d \in Calls, Account(d), Onward, calls'[d] = calls[d]
  PROVE  Account(d)'
  BY DEF Account, Onward, Kind, User

LEMMA RequestStep ==
  ASSUME AInv, Inv', NEW c \in Calls, calls[c].step # "ended", calls'[c].step # "idle",
         \A d \in Calls \ {c} : calls'[d] = calls[d],
         Onward, MadeOnlyBy(c), OneAccount',
         UNCHANGED rows \/ calls'[c].step \in Settled,
         calls[c].step \in Settled => calls'[c].step \in Settled,
         calls'[c].step = "ended" => Told(c)',
         Prepared(c)',
         closers["nest"] # "done", UNCHANGED <<uploads, lifecycle>>
  PROVE  AInv'
  <1>1. AllTold'
    <2> SUFFICES ASSUME NEW d \in Calls, calls'[d].step = "ended" PROVE Told(d)'
      BY DEF AllTold
    <2>1. CASE d # c
      BY <2>1, ToldStays DEF MadeOnlyBy, lifecycle
    <2> QED
      BY <2>1
  <1>2. MadeBySettled'
    <2> SUFFICES ASSUME NEW u \in Users, NEW d \in Calls, rows'[u] # None, rows'[u].by = d
                 PROVE  calls'[d].step \in Settled
      BY DEF MadeBySettled
    <2>1. CASE rows[u] = None
      BY <2>1 DEF MadeOnlyBy
    <2>2. CASE rows[u] # None
      BY <2>2 DEF Onward, AInv, MadeBySettled
    <2> QED
      BY <2>1, <2>2
  <1>3. \A d \in Calls : Prepared(d)'
    <2> SUFFICES ASSUME NEW d \in Calls, d # c PROVE Prepared(d)'
      OBVIOUS
    <2>1. Prepared(d)
      BY DEF AInv
    <2>2. calls[d].step # "idle" /\ Kind(d) \in OfUser => User(d) \in Users
      BY AskedFor DEF AInv
    <2>3. Account(d)'
      BY <2>1, AccountStays DEF Prepared
    <2> QED
      BY <2>1, <2>2, <2>3 DEF Prepared, Onward, Kind, User
  <1>4. Closing'
    BY DEF AInv, Closing, lifecycle
  <1> QED
    BY <1>1, <1>2, <1>3, <1>4 DEF AInv

LEMMA NestIsNotDone ==
  ASSUME AInv, NEW c \in Calls, Under(calls[c])
  PROVE  closers["nest"] # "done"
  BY DEF AInv, Closing, InHand, Under

\* A step that takes a request further and leaves rows and objects alone.
LEMMA FurtherStep ==
  ASSUME AInv, Inv', NEW c \in Calls, Under(calls[c]), Under(calls'[c]), Only(c),
         calls'[c].step = "handler" => calls'[c].seen = TRUE,
         Kind(c) = "deleteObject" => calls'[c].seen = calls[c].seen,
         Account(c)', calls[c].step \in Settled => calls'[c].step \in Settled,
         UNCHANGED <<rows, storage, lifecycle>>
  PROVE  AInv'
  <1>1. Onward /\ MadeOnlyBy(c)
    BY DEF Onward, MadeOnlyBy, storage
  <1>2. OneAccount'
    BY <1>1, AccountsStayApart DEF AInv
  <1>3. Prepared(c)'
    BY DEF AInv, Prepared, Only, Under, Kind, User, storage
  <1> QED
    BY <1>1, <1>2, <1>3, NestIsNotDone, RequestStep DEF Under, Only, storage

\* A step that ends a request and leaves the rows alone.
LEMMA EndingStep ==
  ASSUME AInv, Inv', NEW c \in Calls, Under(calls[c]), NEW answer, NEW failed,
         EndsWith(c, answer, failed), Told(c)',
         \A k \in Keys : objects'[k] \in {objects[k], 0, uploads + 1},
         UNCHANGED <<rows, uploads, lifecycle>>
  PROVE  AInv'
  <1>1. Onward /\ MadeOnlyBy(c)
    BY DEF Onward, MadeOnlyBy
  <1>2. OneAccount'
    BY <1>1, AccountsStayApart DEF AInv
  <1>3. Prepared(c)'
    BY DEF AInv, Prepared, Account, Signing, EndsWith, Only, Under, Kind, User
  <1> QED
    BY <1>1, <1>2, <1>3, NestIsNotDone, RequestStep DEF Under, EndsWith, Only, Settled

\* What an answer tells, whoever gets it.
Fine(answer) == answer.status # 0 /\ (answer.reported => answer.status >= 500)

LEMMA FineIsNoSilence ==
  ASSUME NEW c \in Calls, NEW answer, NEW failed, EndsWith(c, answer, failed), Fine(answer)
  PROVE  /\ SilenceTold(c)' /\ Status(c)' = answer.status /\ Failed(c)' = failed
         /\ Kind(c)' = Kind(c) /\ User(c)' = User(c)
  BY DEF EndsWith, Only, Fine, SilenceTold, Status, Failed, Kind, User

LEMMA CaughtIsFine ==
  ASSUME NEW error, Caught(error).status # 0
  PROVE  Fine(Caught(error))
  BY ReportedIsServerError DEF Fine

LEMMA SuccessIsFine == Fine([status |-> 200, reported |-> FALSE])
  BY DEF Fine

-----------------------------------------------------------------------------
(* Users are made *)

LEMMA AnswerOfKind ==
  ASSUME NEW c, NEW error
  PROVE  /\ Kind(c) = "facebookAuth" => AnswerOf(c, error) = Caught(intercept("Unauthorized"))
         /\ Kind(c) = "signUp" => AnswerOf(c, error) = Caught(intercept(error))
  BY DEF AnswerOf

\* Of the two kinds of sign-ups each takes the error of the query in its own way.
LEMMA UserErrorTold ==
  ASSUME AInv, NEW c \in Calls, calls[c].step \notin Settled,
         Kind(c) \in {"signUp", "facebookAuth"},
         NEW error, NEW failed, EndsWith(c, AnswerOf(c, error), failed), Onward,
         \/ error \in {"BadRequest", "P2002"} /\ Other(c) /\ UNCHANGED rows
         \/ error \in Failures /\ failed = TRUE
  PROVE  Told(c)'
  <1> DEFINE answer == AnswerOf(c, error)
  <1>1. CASE Kind(c) = "facebookAuth"
    <2>1. answer = Caught(intercept("Unauthorized")) /\ answer.status = 401
      BY <1>1, AnswerOfKind, Statuses
    <2>2. Fine(answer)
      BY <2>1, CaughtIsFine
    <2> HIDE DEF answer
    <2>3. EndsWith(c, answer, failed)
      BY DEF answer
    <2>4. /\ SilenceTold(c)' /\ Status(c)' = 401 /\ Failed(c)' = failed
          /\ Kind(c)' = "facebookAuth"
      BY <1>1, <2>1, <2>2, <2>3, FineIsNoSilence
    <2>5. CASE error \in {"BadRequest", "P2002"} /\ Other(c) /\ UNCHANGED rows
      <3>1. Other(c)' /\ ~Made(c)'
        BY <2>5, NotMadeYet DEF Other, Made, EndsWith, Only
      <3> QED
        BY <2>4, <3>1 DEF Told, FacebookTold
    <2>6. CASE error \in Failures /\ failed = TRUE
      BY <2>4, <2>6 DEF Told, FacebookTold
    <2> QED
      BY <2>5, <2>6
  <1>2. CASE Kind(c) = "signUp"
    <2>1. answer = Caught(intercept(error))
      BY <1>2, AnswerOfKind
    <2>2. /\ error \in {"BadRequest", "P2002"} => answer.status = 400 \/ answer.status = 409
          /\ error \in Failures => answer.status = 500
      BY <2>1, Statuses
    <2>3. Fine(answer)
      BY <2>1, <2>2, CaughtIsFine
    <2> HIDE DEF answer
    <2>4. EndsWith(c, answer, failed)
      BY DEF answer
    <2>5. /\ SilenceTold(c)' /\ Status(c)' = answer.status /\ Failed(c)' = failed
          /\ Kind(c)' = "signUp"
      BY <1>2, <2>3, <2>4, FineIsNoSilence
    <2>6. CASE error \in {"BadRequest", "P2002"} /\ Other(c) /\ UNCHANGED rows
      <3>1. ~Made(c)
        BY NotMadeYet
      <3>2. Other(c)' /\ ~Made(c)'
        BY <2>6, <3>1 DEF Other, Made, EndsWith, Only
      <3> QED
        BY <2>2, <2>5, <2>6, <3>2 DEF Told, SignUpTold
    <2>7. CASE error \in Failures /\ failed = TRUE
      BY <2>2, <2>5, <2>7 DEF Told, SignUpTold
    <2> QED
      BY <2>6, <2>7
  <1> QED
    BY <1>1, <1>2

\* Somebody has the address, and it is not this request that made the account.
LEMMA FoundIsOther ==
  ASSUME AInv, NEW c \in Calls, calls[c].step \notin Settled, OfEmail(calls[c].op.email) # {}
  PROVE  Other(c)
  <1>1. ~Made(c)
    BY NotMadeYet
  <1> QED
    BY <1>1 DEF OfEmail, Exists, Made, Other

LEMMA FindByEmailTold ==
  ASSUME AInv, Inv', NEW c \in Calls, findByEmail(c), UNCHANGED <<storage, lifecycle>>
  PROVE  AInv'
  <1>1. /\ calls[c].step = "findByEmail" /\ Under(calls[c]) /\ UNCHANGED rows
        /\ Inv /\ TypeOK /\ calls[c].step \notin Settled
    BY DEF findByEmail, Under, AInv, Inv, Settled
  <1>2. Kind(c) \in {"signUp", "facebookAuth"}
    BY <1>1, KindOfStep
  <1>3. Onward
    BY <1>1 DEF Onward, storage
  <1>4. UNCHANGED <<uploads, lifecycle>> /\ \A k \in Keys : objects'[k] \in {objects[k], 0, uploads + 1}
    BY DEF storage
  <1>5. CASE Proceed(c, "create", None) \/ calls' = [calls EXCEPT ![c].step = "create", ![c].failed = TRUE]
    <2>1. Only(c) /\ calls'[c].step = "create"
      <3>1. CallOK(c, calls[c]) /\ DOMAIN calls = Calls
        BY <1>1 DEF TypeOK
      <3>2. CASE calls' = [calls EXCEPT ![c].step = "create", ![c].failed = TRUE]
        <4>1. /\ \A d \in Calls \ {c} : calls'[d] = calls[d]
              /\ calls'[c] = [calls[c] EXCEPT !.step = "create", !.failed = TRUE]
          BY <3>1, <3>2
        <4> QED
          BY <3>1, <4>1 DEF Only, CallOK, Idle
      <3> QED
        BY <1>1, <1>5, <3>2, ProceedFields
    <2> QED
      BY <1>1, <1>2, <2>1, FurtherStep DEF Under, Account, Signing
  <1>6. ASSUME NEW u \in OfEmail(calls[c].op.email), Kind(c) = "facebookAuth", Proceed(c, "sign", u)
        PROVE  AInv'
    <2>1. Only(c) /\ calls'[c].step = "sign" /\ calls'[c].seen = u
      BY <1>1, <1>6, ProceedFields
    <2>2. Account(c)'
      BY <1>1, <1>6, <2>1 DEF Account, Only, OfEmail, Exists, Kind
    <2> QED
      BY <1>1, <1>2, <2>1, <2>2, FurtherStep DEF Under
  <1>7. CASE OfEmail(calls[c].op.email) # {} /\ End(c, AnswerOf(c, "BadRequest"))
    <2>1. EndsWith(c, AnswerOf(c, "BadRequest"), calls[c].failed)
      BY <1>1, <1>7, EndFields
    <2>2. Told(c)'
      BY <1>1, <1>2, <1>3, <1>7, <2>1, FoundIsOther, UserErrorTold
    <2> QED
      BY <1>1, <1>4, <2>1, <2>2, EndingStep
  <1> QED
    BY <1>5, <1>6, <1>7 DEF findByEmail, OfEmail

\* A row is made, and the reply may be lost.
LEMMA CreatedTold ==
  ASSUME AInv, Inv', NEW c \in Calls, calls[c].step = "create", UNCHANGED <<storage, lifecycle>>,
         NEW u \in Users,
         Proceed(c, "sign", u) \/ \E error \in Failures : Lose(c, AnswerOf(c, error)),
         NEW provider \in {"facebook", "local"},
         OfEmail(calls[c].op.email) = {}, rows[u] = None,
         rows' = [rows EXCEPT ![u] = NewRow(calls[c].op.email, provider, c)]
  PROVE  AInv'
  <1> DEFINE new == NewRow(calls[c].op.email, provider, c)
  <1>1. /\ Inv /\ TypeOK /\ Under(calls[c]) /\ Kind(c) \in {"signUp", "facebookAuth"}
        /\ calls[c].step \notin Settled
    BY KindOfStep DEF AInv, Inv, Under, Settled
  <1>2. new.email = calls[c].op.email /\ new.by = c /\ new.gone = FALSE
    BY DEF NewRow
  <1>3. rows'[u] = new /\ \A v \in Users \ {u} : rows'[v] = rows[v]
    BY <1>1 DEF TypeOK
  <1>4. new # None
    <2>1. calls[c].op.email \in Strings
      BY <1>1, AskedFor, OperationsAssumption DEF Kind, Under
    <2>2. new \in Row
      BY <2>1, NamesAssumption DEF NewRow, Row
    <2> QED
      BY <2>2, SlugIsThere
  <1> HIDE DEF new
  <1>5. Onward /\ MadeOnlyBy(c)
    BY <1>2, <1>3 DEF Onward, MadeOnlyBy, storage
  <1>6. OneAccount'
    <2>1. \A v \in Users \ {u} : Exists(v) => rows[v].email # new.email
      BY <1>2 DEF OfEmail
    <2>2. \A v \in Users \ {u} : Exists(v)' => Exists(v) /\ rows'[v].email # new.email
      BY <1>3, <2>1 DEF Exists
    <2> QED
      BY <1>3, <2>2 DEF OneAccount, AInv
  <1>7. CASE Proceed(c, "sign", u)
    <2>1. Only(c) /\ calls'[c].step = "sign" /\ calls'[c].seen = u
      BY <1>1, <1>7, ProceedFields
    <2>2. Account(c)'
      BY <1>1, <1>2, <1>3, <1>4, <2>1 DEF Account, Only, Kind
    <2>3. Prepared(c)'
      BY <1>1, <2>1, <2>2 DEF Prepared, Only, Kind, OfUser
    <2> QED
      BY <1>1, <1>5, <1>6, <2>1, <2>3, NestIsNotDone, RequestStep DEF Only, Under, Settled, storage
  <1>8. CASE \E error \in Failures : Lose(c, AnswerOf(c, error))
    <2>1. PICK error \in Failures : Lose(c, AnswerOf(c, error))
      BY <1>8
    <2>2. EndsWith(c, AnswerOf(c, error), TRUE)
      BY <1>1, <2>1, LoseFields
    <2>3. Told(c)'
      BY <1>1, <1>5, <2>2, UserErrorTold
    <2>4. Prepared(c)'
      BY <1>1, <2>2 DEF Prepared, Account, Signing, EndsWith, Only, Kind, OfUser
    <2> QED
      BY <1>1, <1>5, <1>6, <2>2, <2>3, <2>4, NestIsNotDone, RequestStep
          DEF EndsWith, Only, Under, Settled, storage
  <1> QED
    BY <1>7, <1>8

LEMMA CreateTold ==
  ASSUME AInv, Inv', NEW c \in Calls, createUser(c), UNCHANGED <<storage, lifecycle>>
  PROVE  AInv'
  <1>1. /\ calls[c].step = "create" /\ Under(calls[c]) /\ Inv /\ TypeOK
        /\ Kind(c) \in {"signUp", "facebookAuth"} /\ calls[c].step \notin Settled
    BY KindOfStep DEF createUser, Under, AInv, Inv, Settled
  <1>2. UNCHANGED <<uploads, lifecycle>> /\ \A k \in Keys : objects'[k] \in {objects[k], 0, uploads + 1}
    BY DEF storage
  <1>3. CASE OfEmail(calls[c].op.email) # {} /\ End(c, AnswerOf(c, "P2002")) /\ UNCHANGED rows
    <2>1. EndsWith(c, AnswerOf(c, "P2002"), calls[c].failed)
      BY <1>1, <1>3, EndFields
    <2>2. Onward
      BY <1>3 DEF Onward, storage
    <2>3. Told(c)'
      BY <1>1, <1>3, <2>1, <2>2, FoundIsOther, UserErrorTold
    <2> QED
      BY <1>1, <1>2, <1>3, <2>1, <2>3, EndingStep
  <1>4. ASSUME NEW error \in Failures, Lose(c, AnswerOf(c, error)), UNCHANGED rows
        PROVE  AInv'
    <2>1. EndsWith(c, AnswerOf(c, error), TRUE)
      BY <1>1, <1>4, LoseFields
    <2>2. Onward
      BY <1>4 DEF Onward, storage
    <2>3. Told(c)'
      BY <1>1, <1>4, <2>1, <2>2, UserErrorTold
    <2> QED
      BY <1>1, <1>2, <1>4, <2>1, <2>3, EndingStep
  <1>5. ASSUME NEW u \in Users, NEW provider \in {"facebook", "local"},
               OfEmail(calls[c].op.email) = {}, rows[u] = None,
               rows' = [rows EXCEPT ![u] = NewRow(calls[c].op.email, provider, c)],
               Proceed(c, "sign", u) \/ \E error \in Failures : Lose(c, AnswerOf(c, error))
        PROVE  AInv'
    BY <1>1, <1>5, CreatedTold
  <1>6. \/ OfEmail(calls[c].op.email) # {} /\ End(c, AnswerOf(c, "P2002")) /\ UNCHANGED rows
        \/ \E error \in Failures : Lose(c, AnswerOf(c, error)) /\ UNCHANGED rows
        \/ /\ OfEmail(calls[c].op.email) = {}
           /\ \E u \in Users, provider \in {"facebook", "local"} :
                /\ rows[u] = None
                /\ rows' = [rows EXCEPT ![u] = NewRow(calls[c].op.email, provider, c)]
                /\ Proceed(c, "sign", u) \/ \E error \in Failures : Lose(c, AnswerOf(c, error))
    BY DEF createUser
  <1> QED
    BY <1>3, <1>4, <1>5, <1>6

-----------------------------------------------------------------------------
(* Tokens are made *)

\* Errors after the account was made or found, or the role changed.
LEMMA TokensErrorTold ==
  ASSUME AInv, NEW c \in Calls, Under(calls[c]), calls[c].step \in Signing,
         NEW answer, NEW failed, EndsWith(c, answer, failed), Fine(answer), UNCHANGED rows,
         \/ failed = TRUE /\ answer.status \in {409, 500}
         \/ ~Exists(calls[c].seen) /\ answer.status \in {404, 500}
  PROVE  Told(c)'
  <1>1. /\ SilenceTold(c)' /\ Status(c)' = answer.status /\ Failed(c)' = failed
        /\ Kind(c)' = Kind(c) /\ User(c)' = User(c) /\ calls'[c].op = calls[c].op
    BY FineIsNoSilence DEF EndsWith, Only
  <1>2. Kind(c) \in {"signUp", "facebookAuth", "updateUserRole"}
    BY KindOfStep DEF Signing, AInv, Inv
  <1>3. Account(c)
    BY DEF AInv, Prepared
  <1>4. ~Exists(calls[c].seen) => rows[calls[c].seen].gone
    BY <1>3 DEF Account, Exists
  <1>5. CASE Kind(c) = "signUp"
    <2>1. Made(c)' /\ (~Exists(calls[c].seen) => Removed(c)')
      BY <1>1, <1>3, <1>4, <1>5 DEF Account, Made, Removed
    <2>2. SignUpTold(c)'
      BY <1>1, <2>1 DEF SignUpTold
    <2> QED
      BY <1>1, <1>5, <2>2 DEF Told
  <1>6. CASE Kind(c) = "facebookAuth"
    <2>1. ~Exists(calls[c].seen) => Removed(c)'
      BY <1>1, <1>3, <1>4, <1>6 DEF Account, Removed, Kind
    <2>2. FacebookTold(c)'
      BY <1>1, <2>1 DEF FacebookTold
    <2> QED
      BY <1>1, <1>6, <2>2 DEF Told
  <1>7. CASE Kind(c) = "updateUserRole"
    <2>1. ~Exists(calls[c].seen) => Gone(c)'
      BY <1>1, <1>3, <1>4, <1>7 DEF Account, Gone, User
    <2>2. LookUpTold(c)'
      BY <1>1, <2>1 DEF LookUpTold
    <2> QED
      BY <1>1, <1>7, <2>2 DEF Told
  <1> QED
    BY <1>2, <1>5, <1>6, <1>7

LEMMA TokensLostTold ==
  ASSUME AInv, Inv', NEW c \in Calls, Under(calls[c]), calls[c].step \in Signing,
         NEW answer, Fine(answer), answer.status \in {409, 500}, Lose(c, answer),
         UNCHANGED <<rows, storage, lifecycle>>
  PROVE  AInv'
  <1>1. PICK failed : failed = TRUE
    OBVIOUS
  <1>2. EndsWith(c, answer, failed)
    BY <1>1, LoseFields DEF AInv, Inv
  <1>3. Told(c)'
    BY <1>1, <1>2, TokensErrorTold
  <1> QED
    BY <1>2, <1>3, EndingStep DEF storage

LEMMA TokensGoneTold ==
  ASSUME AInv, Inv', NEW c \in Calls, Under(calls[c]), calls[c].step \in Signing,
         NEW answer, Fine(answer), answer.status \in {404, 500}, End(c, answer),
         ~Exists(calls[c].seen), UNCHANGED <<rows, storage, lifecycle>>
  PROVE  AInv'
  <1>1. PICK failed : failed = calls[c].failed
    OBVIOUS
  <1>2. EndsWith(c, answer, failed)
    BY <1>1, EndFields DEF AInv, Inv
  <1>3. Told(c)'
    BY <1>2, TokensErrorTold
  <1> QED
    BY <1>2, <1>3, EndingStep DEF storage

LEMMA TokensDoneTold ==
  ASSUME AInv, Inv', NEW c \in Calls, Under(calls[c]), calls[c].step \in Signing, Return(c),
         UNCHANGED <<rows, storage, lifecycle>>
  PROVE  AInv'
  <1> DEFINE answer == [status |-> 200, reported |-> FALSE]
  <1>1. EndsWith(c, answer, calls[c].failed) /\ Fine(answer) /\ answer.status = 200
    BY EndFields, SuccessIsFine DEF Return, AInv, Inv
  <1> HIDE DEF answer
  <1>2. /\ SilenceTold(c)' /\ Status(c)' = 200 /\ Kind(c)' = Kind(c)
        /\ calls'[c].op = calls[c].op
    BY <1>1, FineIsNoSilence DEF EndsWith, Only
  <1>3. Kind(c) \in {"signUp", "facebookAuth", "updateUserRole"} /\ Account(c)
    BY KindOfStep DEF Signing, AInv, Inv, Prepared
  <1>4. Kind(c) = "signUp" => SignUpTold(c)'
    BY <1>2, <1>3 DEF SignUpTold, Account, Made
  <1>5. Kind(c) = "facebookAuth" => FacebookTold(c)'
    BY <1>2, <1>3 DEF FacebookTold, Account, Made, Other
  <1>6. LookUpTold(c)'
    BY <1>2 DEF LookUpTold
  <1>7. Told(c)'
    BY <1>2, <1>3, <1>4, <1>5, <1>6 DEF Told
  <1> QED
    BY <1>1, <1>7, EndingStep DEF storage

\* The step goes on with the same row.
LEMMA TokensFurther ==
  ASSUME AInv, Inv', NEW c \in Calls, Under(calls[c]), calls[c].step \in Signing,
         NEW step \in {"store", "mail"}, Proceed(c, step, calls[c].seen),
         UNCHANGED <<rows, storage, lifecycle>>
  PROVE  AInv'
  <1>1. Only(c) /\ calls'[c].step = step /\ calls'[c].seen = calls[c].seen
    BY ProceedFields DEF AInv, Inv
  <1>2. Account(c)'
    BY <1>1 DEF AInv, Prepared, Account, Only, Kind, User
  <1> QED
    BY <1>1, <1>2, FurtherStep DEF Under, Settled

LEMMA TokensTold ==
  ASSUME AInv, Inv', NEW c \in Calls, UNCHANGED <<storage, lifecycle>>,
         createToken(c) \/ updateRefreshToken(c) \/ sendVerificationEmail(c)
  PROVE  AInv'
  <1>1. calls[c].step \in Signing /\ Under(calls[c]) /\ UNCHANGED rows
    BY DEF createToken, updateRefreshToken, sendVerificationEmail, Signing, Under
  <1>2. \A error \in Failures \union {"Conflict", "Error"} :
            Fine(Caught(intercept(error))) /\ Caught(intercept(error)).status \in {409, 500}
    <2>1. \A error \in Failures \union {"Conflict", "Error"} :
              Caught(intercept(error)).status \in {409, 500}
      BY Statuses
    <2> QED
      BY <2>1, CaughtIsFine
  <1>3. \A error \in {"ZodError", "P2025"} :
            Fine(Caught(intercept(error))) /\ Caught(intercept(error)).status \in {404, 500}
    <2>1. \A error \in {"ZodError", "P2025"} : Caught(intercept(error)).status \in {404, 500}
      BY Statuses
    <2> QED
      BY <2>1, CaughtIsFine
  <1>4. CASE Return(c)
    BY <1>1, <1>4, TokensDoneTold
  <1>5. CASE \E step \in {"store", "mail"} : Proceed(c, step, calls[c].seen)
    BY <1>1, <1>5, TokensFurther
  <1>6. CASE \E error \in Failures \union {"Conflict", "Error"} : Lose(c, Caught(intercept(error)))
    BY <1>1, <1>2, <1>6, TokensLostTold
  <1>7. CASE ~Exists(calls[c].seen) /\ \E error \in {"ZodError", "P2025"} : Throw(c, error)
    BY <1>1, <1>3, <1>7, TokensGoneTold DEF Throw
  <1> QED
    BY <1>4, <1>5, <1>6, <1>7 DEF createToken, updateRefreshToken, sendVerificationEmail

-----------------------------------------------------------------------------
(* Users are looked up and updated *)

\* A request whose row is not there has found it removed.
LEMMA MissingIsGone ==
  ASSUME AInv, NEW c \in Calls, Under(calls[c]), Kind(c) \in OfUser, ~Exists(User(c))
  PROVE  Gone(c)
  <1>1. rows[User(c)] # None
    BY DEF AInv, Prepared, Under
  <1> QED
    BY <1>1 DEF Exists, Gone, User

\* Errors of requests for a user.
LEMMA OfUserErrorTold ==
  ASSUME AInv, NEW c \in Calls, Under(calls[c]), NEW answer, NEW failed,
         Kind(c) \in OfUser, EndsWith(c, answer, failed), Fine(answer), UNCHANGED rows,
         \/ answer.status = 500 /\ failed = TRUE
         \/ Kind(c) # "updateUser" /\ answer.status = 500 /\ Gone(c)
         \/ Kind(c) # "createListing" /\ answer.status = 404 /\ Gone(c)
  PROVE  Told(c)'
  <1>1. /\ SilenceTold(c)' /\ Status(c)' = answer.status /\ Failed(c)' = failed
        /\ Kind(c)' = Kind(c) /\ User(c)' = User(c)
    BY FineIsNoSilence
  <1>2. Gone(c)' <=> Gone(c)
    BY DEF Gone, EndsWith, Only
  <1>3. Kind(c) = "updateUser" => UpdateTold(c)'
    BY <1>1, <1>2 DEF UpdateTold
  <1>4. Kind(c) \in {"updateUserRole", "isProfileComplete"} => LookUpTold(c)'
    BY <1>1, <1>2 DEF LookUpTold
  <1>5. Kind(c) = "createListing" => ListingTold(c)'
    BY <1>1, <1>2 DEF ListingTold
  <1> QED
    BY <1>1, <1>3, <1>4, <1>5 DEF Told, OfUser

\* A lost query of a request for a user.
LEMMA LostTold ==
  ASSUME AInv, Inv', NEW c \in Calls, Under(calls[c]), Kind(c) \in OfUser,
         NEW answer, answer.status = 500, Fine(answer), Lose(c, answer),
         UNCHANGED <<rows, storage, lifecycle>>
  PROVE  AInv'
  <1>1. PICK failed : failed = TRUE
    OBVIOUS
  <1>2. EndsWith(c, answer, failed)
    BY <1>1, LoseFields DEF AInv, Inv
  <1>3. Told(c)'
    BY <1>1, <1>2, OfUserErrorTold
  <1> QED
    BY <1>2, <1>3, EndingStep DEF storage

\* A request for a user that finds the row removed.
LEMMA GoneTold ==
  ASSUME AInv, Inv', NEW c \in Calls, Under(calls[c]), Kind(c) \in OfUser, ~Exists(User(c)),
         NEW answer, Fine(answer), End(c, answer),
         \/ Kind(c) # "updateUser" /\ answer.status = 500
         \/ Kind(c) # "createListing" /\ answer.status = 404,
         UNCHANGED <<rows, storage, lifecycle>>
  PROVE  AInv'
  <1>1. EndsWith(c, answer, calls[c].failed)
    BY EndFields DEF AInv, Inv
  <1>2. Told(c)'
    <2>1. Gone(c) /\ UNCHANGED rows
      BY MissingIsGone
    <2>2. PICK failed : failed = calls[c].failed
      OBVIOUS
    <2>3. EndsWith(c, answer, failed)
      BY <1>1, <2>2
    <2>4. CASE Kind(c) # "updateUser" /\ answer.status = 500
      BY <2>1, <2>3, <2>4, OfUserErrorTold
    <2>5. CASE Kind(c) # "createListing" /\ answer.status = 404
      BY <2>1, <2>3, <2>5, OfUserErrorTold
    <2> QED
      BY <2>4, <2>5
  <1> QED
    BY <1>1, <1>2, EndingStep DEF storage

\* The answers of lost queries and of missing rows.
LEMMA FineErrors ==
  /\ \A error \in Failures \union {"ZodError"} :
        /\ Fine(Caught(intercept(error))) /\ Caught(intercept(error)).status = 500
        /\ Fine(Caught(error)) /\ Caught(error).status = 500
  /\ Fine(Caught(intercept("P2025"))) /\ Caught(intercept("P2025")).status = 404
  /\ Fine(Caught("Forbidden")) /\ Caught("Forbidden").status = 403
  /\ Fine(Caught(intercept("UnprocessableEntity")))
  <1>1. \A error \in Failures \union {"ZodError"} :
            Caught(intercept(error)).status = 500 /\ Caught(error).status = 500
    BY Statuses
  <1>2. /\ Caught(intercept("P2025")).status = 404 /\ Caught("Forbidden").status = 403
        /\ Caught(intercept("UnprocessableEntity")).status = 422
    BY Statuses
  <1> QED
    BY <1>1, <1>2, CaughtIsFine

LEMMA FindByIdTold ==
  ASSUME AInv, Inv', NEW c \in Calls, findById(c), UNCHANGED <<storage, lifecycle>>
  PROVE  AInv'
  <1>1. /\ calls[c].step = "findById" /\ Under(calls[c]) /\ Inv /\ TypeOK /\ UNCHANGED rows
        /\ Kind(c) \in {"updateUserRole", "isProfileComplete"}
    BY KindOfStep DEF findById, Under, AInv, Inv
  <1>2. CASE Proceed(c, "write", None)
    <2>1. Only(c) /\ calls'[c].step = "write"
      BY <1>1, <1>2, ProceedFields
    <2> QED
      BY <1>1, <2>1, FurtherStep DEF Under, Account, Signing, Settled
  <1>3. CASE Return(c)
    <2> DEFINE answer == [status |-> 200, reported |-> FALSE]
    <2>1. EndsWith(c, answer, calls[c].failed) /\ Fine(answer) /\ answer.status = 200
      BY <1>1, <1>3, EndFields, SuccessIsFine DEF Return
    <2> HIDE DEF answer
    <2>2. SilenceTold(c)' /\ Status(c)' = 200 /\ Kind(c)' = Kind(c)
      BY <2>1, FineIsNoSilence
    <2>3. Told(c)'
      BY <1>1, <2>2 DEF Told, LookUpTold
    <2> QED
      BY <1>1, <2>1, <2>3, EndingStep DEF storage
  <1>4. CASE ~Exists(User(c)) /\ Throw(c, "ZodError")
    BY <1>1, <1>4, FineErrors, GoneTold DEF Throw, OfUser
  <1>5. CASE \E error \in Failures : Lose(c, Caught(intercept(error)))
    BY <1>1, <1>5, FineErrors, LostTold DEF OfUser
  <1> QED
    BY <1>2, <1>3, <1>4, <1>5 DEF findById

LEMMA ReadTold ==
  ASSUME AInv, Inv', NEW c \in Calls, generateSlugForUser(c), UNCHANGED <<storage, lifecycle>>
  PROVE  AInv'
  <1>1. /\ calls[c].step = "read" /\ Under(calls[c]) /\ Inv /\ TypeOK /\ UNCHANGED rows
        /\ Kind(c) = "updateUser"
    BY KindOfStep DEF generateSlugForUser, Under, AInv, Inv
  <1>2. CASE \E seen : Proceed(c, "write", seen)
    <2>1. Only(c) /\ calls'[c].step = "write"
      BY <1>1, <1>2, ProceedFields
    <2> QED
      BY <1>1, <2>1, FurtherStep DEF Under, Account, Signing, Settled
  <1>3. CASE \E error \in Failures : Lose(c, Caught(intercept(error)))
    BY <1>1, <1>3, FineErrors, LostTold DEF OfUser
  <1> QED
    BY <1>2, <1>3 DEF generateSlugForUser

\* An update is in the row that is left.
LEMMA WrittenTold ==
  ASSUME AInv, Inv', NEW c \in Calls, calls[c].step = "write", Exists(User(c)),
         rows' = [rows EXCEPT ![User(c)] =
                    Written(rows[User(c)], parsed(calls[c].op.data), calls[c].seen, c)],
         \/ IF Kind(c) = "updateUserRole" THEN Proceed(c, "sign", User(c)) ELSE Return(c)
         \/ \E error \in Failures : Lose(c, Caught(intercept(error))),
         UNCHANGED <<storage, lifecycle>>
  PROVE  AInv'
  <1> DEFINE u == User(c)
             row == rows[u]
             data == parsed(calls[c].op.data)
             seen == calls[c].seen
             new == Written(row, data, seen, c)
  <1>1. Under(calls[c]) /\ Inv /\ TypeOK
    BY DEF AInv, Inv, Under
  <1>2. Kind(c) \in {"updateUserRole", "updateUser"} /\ u \in Users /\ calls[c].op \in Operations[c]
    BY <1>1, KindOfStep DEF OfUser
  <1>3. row \in Row /\ row # None /\ ~row.gone /\ DataOK(data)
    BY <1>1, <1>2, DataTyped DEF Exists, TypeOK, RowOK, Kind
  <1>4. rows'[u] = new /\ \A v \in Users \ {u} : rows'[v] = rows[v]
    BY <1>1, <1>2 DEF TypeOK
  <1>5. \A f \in RowFields : new[f] = IF seen # None /\ f \in SlugFields
            THEN slugFields(row, seen, c)[f] ELSE IF f \in DOMAIN data THEN data[f] ELSE row[f]
    BY <1>3, WrittenFields
  <1>6. /\ new.email = row.email /\ new.by = row.by /\ new.gone = row.gone
        /\ new.namedBy = IF seen # None THEN slugFields(row, seen, c).namedBy ELSE row.namedBy
    BY <1>3, <1>5 DEF RowFields, SlugFields, DataOK, UpdateFields, NameFields
  <1>7. PendingRight(calls[c], row)
    BY <1>1, <1>2 DEF Inv, Pending, OfUser, Kind, User
  <1>8. IF seen = None THEN ~shouldRegenerateSlug(calls[c].op.data)
        ELSE new.namedBy = row.namedBy \union {c}
    <2>1. CASE seen = None
      BY <1>3, <1>7, <2>1 DEF PendingRight
    <2>2. CASE seen # None
      BY <1>6, <2>2 DEF slugFields
    <2> QED
      BY <2>1, <2>2
  <1>9. row.namedBy \subseteq new.namedBy
    BY <1>6, <1>8
  <1>10. new # None
    <2>1. seen \in Seen \union {None}
      BY <1>3, <1>7 DEF PendingRight, ReadRight
    <2>2. RowOK(row)
      BY <1>1, <1>2, <1>3 DEF TypeOK
    <2> QED
      BY <1>3, <2>1, <2>2, WrittenTyped, SlugIsThere DEF RowOK
  <1> HIDE DEF new
  <1>11. Onward /\ MadeOnlyBy(c) /\ \A v \in Users : rows'[v] # None => rows[v] # None
    BY <1>3, <1>4, <1>6, <1>9, <1>10 DEF Onward, MadeOnlyBy, storage
  <1>12. ASSUME ~Proceed(c, "sign", u)
         PROVE  \E failed : \E answer : EndsWith(c, answer, failed) /\ Told(c)'
    <2>1. CASE Return(c)
      <3> DEFINE answer == [status |-> 200, reported |-> FALSE]
      <3>1. EndsWith(c, answer, calls[c].failed) /\ Fine(answer) /\ answer.status = 200
        BY <1>1, <2>1, EndFields, SuccessIsFine DEF Return
      <3> HIDE DEF answer
      <3>2. /\ SilenceTold(c)' /\ Status(c)' = 200 /\ Kind(c)' = Kind(c) /\ User(c)' = User(c)
            /\ calls'[c].op = calls[c].op
        BY <3>1, FineIsNoSilence DEF EndsWith, Only
      <3>3. shouldRegenerateSlug(calls[c].op.data) => c \in rows'[User(c)].namedBy
        BY <1>4, <1>8
      <3>4. UpdateTold(c)'
        BY <3>2, <3>3 DEF UpdateTold
      <3>5. LookUpTold(c)'
        BY <3>2 DEF LookUpTold
      <3>6. Told(c)'
        BY <1>2, <3>2, <3>4, <3>5 DEF Told
      <3> QED
        BY <3>1, <3>6
    <2>2. ASSUME NEW error \in Failures, Lose(c, Caught(intercept(error)))
          PROVE  \E failed : \E answer : EndsWith(c, answer, failed) /\ Told(c)'
      <3> DEFINE answer == Caught(intercept(error))
      <3>1. PICK failed : failed = TRUE
        OBVIOUS
      <3>2. EndsWith(c, answer, failed)
        BY <1>1, <2>2, <3>1, LoseFields
      <3>3. Fine(answer) /\ answer.status = 500
        BY FineErrors
      <3> HIDE DEF answer
      <3>4. SilenceTold(c)' /\ Status(c)' = 500 /\ Failed(c)' = failed /\ Kind(c)' = Kind(c)
        BY <3>2, <3>3, FineIsNoSilence
      <3>5. UpdateTold(c)' /\ LookUpTold(c)'
        BY <3>1, <3>4 DEF UpdateTold, LookUpTold
      <3>6. Told(c)'
        BY <1>2, <3>4, <3>5 DEF Told
      <3> QED
        BY <3>2, <3>6
    <2> QED
      BY <1>12, <2>1, <2>2
  <1>13. OneAccount'
    BY <1>11, AccountsStayApart DEF AInv
  <1>14. CASE ~Proceed(c, "sign", u)
    <2>1. PICK failed, answer : EndsWith(c, answer, failed) /\ Told(c)'
      BY <1>12, <1>14
    <2>2. Prepared(c)'
      BY <1>2, <1>4, <1>10, <2>1 DEF Prepared, Account, Signing, EndsWith, Only, Kind, User
    <2> QED
      BY <1>1, <1>11, <1>13, <2>1, <2>2, NestIsNotDone, RequestStep
          DEF EndsWith, Only, Under, Settled, storage
  <1>15. CASE Kind(c) = "updateUserRole" /\ Proceed(c, "sign", u)
    <2>1. Only(c) /\ calls'[c].step = "sign" /\ calls'[c].seen = u
      BY <1>1, <1>15, ProceedFields
    <2>2. Account(c)'
      BY <1>2, <1>4, <1>10, <1>15, <2>1 DEF Account, Only, Kind, User
    <2>3. Prepared(c)'
      BY <1>2, <1>4, <1>10, <1>15, <2>1, <2>2 DEF Prepared, Only, Kind, User
    <2> QED
      BY <1>1, <1>11, <1>13, <2>1, <2>3, NestIsNotDone, RequestStep
          DEF Only, Under, Settled, storage
  <1>16. CASE Kind(c) # "updateUserRole" /\ Proceed(c, "sign", u)
    <2>1. calls'[c].step = "sign" /\ calls'[c].step = "ended"
      <3>1. calls'[c].step = "sign"
        BY <1>1, <1>16, ProceedFields
      <3>2. \E answer, failed : EndsWith(c, answer, failed)
        BY <1>1, <1>16, EndFields, LoseFields DEF Return
      <3> QED
        BY <3>1, <3>2 DEF EndsWith
    <2> QED
      BY <2>1
  <1> QED
    BY <1>14, <1>15, <1>16

LEMMA UpdateToldStep ==
  ASSUME AInv, Inv', NEW c \in Calls, update(c), UNCHANGED <<storage, lifecycle>>
  PROVE  AInv'
  <1>1. /\ calls[c].step = "write" /\ Under(calls[c])
        /\ Kind(c) \in {"updateUserRole", "updateUser"} /\ Kind(c) \in OfUser
    BY KindOfStep DEF update, Under, AInv, Inv, OfUser
  <1>2. CASE ~Exists(User(c)) /\ Throw(c, "P2025") /\ UNCHANGED rows
    BY <1>1, <1>2, FineErrors, GoneTold DEF Throw
  <1>3. CASE (\E error \in Failures : Lose(c, Caught(intercept(error)))) /\ UNCHANGED rows
    BY <1>1, <1>3, FineErrors, LostTold
  <1>4. CASE /\ Exists(User(c))
             /\ rows' = [rows EXCEPT ![User(c)] =
                    Written(rows[User(c)], parsed(calls[c].op.data), calls[c].seen, c)]
             /\ \/ IF Kind(c) = "updateUserRole" THEN Proceed(c, "sign", User(c)) ELSE Return(c)
                \/ \E error \in Failures : Lose(c, Caught(intercept(error)))
    BY <1>1, <1>4, WrittenTold
  <1> QED
    BY <1>2, <1>3, <1>4 DEF update

-----------------------------------------------------------------------------
(* The guard of profiles, and objects *)

\* Whoever the guard lets through has a complete profile.
LEMMA GuardMeansComplete ==
  ASSUME NEW row, row.isEmailVerified, \A f \in Required(row) : Truthy(row[f])
  PROVE  isProfileComplete(row) = TRUE
  BY DEF Required, isProfileComplete

LEMMA GuardTold ==
  ASSUME AInv, Inv', NEW c \in Calls, UserProfileCompleteGuard(c), UNCHANGED <<storage, lifecycle>>
  PROVE  AInv'
  <1>1. /\ calls[c].step = "guard" /\ Under(calls[c]) /\ Inv /\ TypeOK /\ UNCHANGED rows
        /\ Kind(c) = "createListing" /\ Kind(c) \in OfUser
    BY KindOfStep DEF UserProfileCompleteGuard, Under, AInv, Inv, OfUser
  <1> DEFINE row == rows[User(c)]
  <1>2. CASE /\ row.isEmailVerified /\ \A f \in Required(row) : Truthy(row[f])
             /\ Proceed(c, "handler", isProfileComplete(row))
    <2>1. isProfileComplete(row) = TRUE
      BY <1>2, GuardMeansComplete
    <2>2. Only(c) /\ calls'[c].step = "handler" /\ calls'[c].seen = TRUE
      BY <1>1, <1>2, <2>1, ProceedFields
    <2> QED
      BY <1>1, <2>2, FurtherStep DEF Under, Account, Signing, Settled
  <1>3. CASE ThrowFromGuard(c, "Forbidden")
    <2> DEFINE answer == Caught("Forbidden")
    <2>1. EndsWith(c, answer, calls[c].failed) /\ Fine(answer) /\ answer.status = 403
      BY <1>1, <1>3, EndFields, FineErrors DEF ThrowFromGuard
    <2> HIDE DEF answer
    <2>2. SilenceTold(c)' /\ Status(c)' = 403 /\ Kind(c)' = "createListing"
      BY <1>1, <2>1, FineIsNoSilence
    <2>3. Told(c)'
      BY <2>2 DEF Told, ListingTold
    <2> QED
      BY <1>1, <2>1, <2>3, EndingStep DEF storage
  <1>4. CASE ~Exists(User(c)) /\ ThrowFromGuard(c, "ZodError")
    BY <1>1, <1>4, FineErrors, GoneTold DEF ThrowFromGuard
  <1>5. CASE \E error \in Failures : Lose(c, Caught(error))
    BY <1>1, <1>5, FineErrors, LostTold
  <1> QED
    BY <1>2, <1>3, <1>4, <1>5 DEF UserProfileCompleteGuard

LEMMA ListingToldStep ==
  ASSUME AInv, Inv', NEW c \in Calls, createListing(c), UNCHANGED <<storage, lifecycle>>
  PROVE  AInv'
  <1>1. /\ calls[c].step = "handler" /\ Under(calls[c]) /\ Inv /\ TypeOK /\ UNCHANGED rows
        /\ Kind(c) = "createListing" /\ Return(c)
    BY KindOfStep DEF createListing, Under, AInv, Inv
  <1> DEFINE answer == [status |-> 200, reported |-> FALSE]
  <1>2. EndsWith(c, answer, calls[c].failed) /\ Fine(answer) /\ answer.status = 200
    BY <1>1, EndFields, SuccessIsFine DEF Return
  <1> HIDE DEF answer
  <1>3. SilenceTold(c)' /\ Status(c)' = 200 /\ Kind(c)' = "createListing"
    BY <1>1, <1>2, FineIsNoSilence
  <1>4. calls'[c].seen = TRUE
    BY <1>1, <1>2 DEF AInv, Prepared, EndsWith
  <1>5. Told(c)'
    BY <1>3, <1>4 DEF Told, ListingTold
  <1> QED
    BY <1>1, <1>2, <1>5, EndingStep DEF storage

LEMMA PresignTold ==
  ASSUME AInv, Inv', NEW c \in Calls, generatePresignedUrl(c), UNCHANGED <<profile, lifecycle>>
  PROVE  AInv'
  <1>1. /\ calls[c].step = "presign" /\ Under(calls[c]) /\ Inv /\ TypeOK
        /\ UNCHANGED <<rows, objects, uploads, lifecycle>>
    BY DEF generatePresignedUrl, Under, AInv, Inv, profile
  <1>2. Kind(c) = "presign"
    BY <1>1, KindOfStep DEF StepsFor
  <1>3. PICK answer, failed : EndsWith(c, answer, failed) /\ Fine(answer)
    <2>1. CASE Return(c)
      BY <1>1, <2>1, EndFields, SuccessIsFine DEF Return
    <2>2. CASE Lose(c, Caught(intercept("Error")))
      <3> DEFINE lost == Caught(intercept("Error"))
      <3>1. EndsWith(c, lost, TRUE) /\ Fine(lost)
        BY <1>1, <2>2, LoseFields, FineErrors DEF Failures
      <3> HIDE DEF lost
      <3> QED
        BY <3>1, Zenon
    <2> QED
      BY <2>1, <2>2 DEF generatePresignedUrl
  <1>4. SilenceTold(c)' /\ Kind(c)' = "presign"
    BY <1>2, <1>3, FineIsNoSilence
  <1>5. Told(c)'
    BY <1>4 DEF Told
  <1> QED
    BY <1>1, <1>3, <1>5, EndingStep

\* What a deletion is answered is true if nothing is left or a query was lost.
LEMMA DeletionAnswered ==
  ASSUME AInv, NEW c \in Calls, Kind(c) = "deleteObject", NEW answer, NEW failed,
         EndsWith(c, answer, failed), Fine(answer),
         failed = TRUE \/ objects'[calls[c].op.key] = 0
  PROVE  Told(c)'
  <1>1. SilenceTold(c)' /\ Failed(c)' = failed /\ Kind(c)' = "deleteObject"
    BY FineIsNoSilence
  <1>2. DeletionTold(c)'
    BY <1>1 DEF DeletionTold, EndsWith, Only
  <1> QED
    BY <1>1, <1>2 DEF Told

LEMMA DeletionLost ==
  ASSUME AInv, NEW c \in Calls, Kind(c) = "deleteObject", NEW answer, Lose(c, answer), Fine(answer)
  PROVE  \E failed : EndsWith(c, answer, failed) /\ Told(c)'
  <1>1. PICK failed : failed = TRUE
    OBVIOUS
  <1>2. EndsWith(c, answer, failed)
    BY <1>1, LoseFields DEF AInv, Inv
  <1>3. Told(c)'
    BY <1>1, <1>2, DeletionAnswered
  <1> QED
    BY <1>2, <1>3

LEMMA DeletionDone ==
  ASSUME AInv, NEW c \in Calls, Kind(c) = "deleteObject", Return(c), objects'[calls[c].op.key] = 0
  PROVE  \E answer, failed : EndsWith(c, answer, failed) /\ Told(c)'
  <1> DEFINE answer == [status |-> 200, reported |-> FALSE]
  <1>1. PICK failed : failed = calls[c].failed
    OBVIOUS
  <1>2. EndsWith(c, answer, failed) /\ Fine(answer)
    BY <1>1, EndFields, SuccessIsFine DEF Return, AInv, Inv
  <1> HIDE DEF answer
  <1>3. Told(c)'
    BY <1>2, DeletionAnswered
  <1> QED
    BY <1>2, <1>3

LEMMA HeadTold ==
  ASSUME AInv, Inv', NEW c \in Calls, objectExists(c), UNCHANGED <<profile, lifecycle>>
  PROVE  AInv'
  <1>1. /\ calls[c].step = "head" /\ Under(calls[c]) /\ Inv /\ TypeOK
        /\ UNCHANGED <<rows, storage, objects, uploads, lifecycle>>
    BY DEF objectExists, Under, AInv, Inv, profile, storage
  <1>2. Kind(c) = "deleteObject"
    BY <1>1, KindOfStep
  <1>3. CASE Proceed(c, "delete", calls[c].seen)
    <2>1. Only(c) /\ calls'[c].step = "delete" /\ calls'[c].seen = calls[c].seen
      BY <1>1, <1>3, ProceedFields
    <2> QED
      BY <1>1, <2>1, FurtherStep DEF Under, Account, Signing, Settled
  <1>4. CASE objects[calls[c].op.key] = 0 /\ Return(c)
    <2>1. PICK answer, failed : EndsWith(c, answer, failed) /\ Told(c)'
      BY <1>1, <1>2, <1>4, DeletionDone
    <2> QED
      BY <1>1, <2>1, EndingStep
  <1>5. CASE Lose(c, [status |-> 200, reported |-> FALSE])
    <2>1. PICK answer, failed : EndsWith(c, answer, failed) /\ Told(c)'
      BY <1>2, <1>5, SuccessIsFine, DeletionLost
    <2> QED
      BY <1>1, <2>1, EndingStep
  <1> QED
    BY <1>3, <1>4, <1>5 DEF objectExists

LEMMA DeleteTold ==
  ASSUME AInv, Inv', NEW c \in Calls, deleteObject(c), UNCHANGED <<profile, lifecycle>>
  PROVE  AInv'
  <1>1. /\ calls[c].step = "delete" /\ Under(calls[c]) /\ Inv /\ TypeOK
        /\ UNCHANGED <<rows, uploads, lifecycle>>
    BY DEF deleteObject, Under, AInv, Inv, profile
  <1>2. Kind(c) = "deleteObject" /\ calls[c].op.key \in Keys /\ DOMAIN objects = Keys
    BY <1>1, KindOfStep, AskedFor, StorageTyped DEF Under
  <1>3. \A k \in Keys : objects'[k] \in {objects[k], 0, uploads + 1}
    BY <1>2 DEF deleteObject
  <1>4. PICK answer, failed : EndsWith(c, answer, failed) /\ Told(c)'
    <2>1. CASE objects' = [objects EXCEPT ![calls[c].op.key] = 0] /\ Return(c)
      <3>1. objects'[calls[c].op.key] = 0
        BY <1>2, <2>1
      <3> QED
        BY <1>2, <2>1, <3>1, DeletionDone
    <2>2. CASE Lose(c, Caught(intercept("Error")))
      BY <1>2, <2>2, FineErrors, DeletionLost DEF Failures
    <2> QED
      BY <2>1, <2>2 DEF deleteObject
  <1> QED
    BY <1>1, <1>3, <1>4, EndingStep

-----------------------------------------------------------------------------
(* Requests come *)

LEMMA ArriveFields ==
  ASSUME TypeOK, NEW c \in Calls, NEW op \in Operations[c], Arrive(c, op)
  PROVE  /\ calls[c].step = "idle" /\ calls'[c].op = op
         /\ \A d \in Calls \ {c} : calls'[d] = calls[d]
         /\ UNCHANGED <<rows, storage, lifecycle>>
         /\ Refused(op) # None =>
                calls'[c].step = "ended" /\ calls'[c].answer = Caught(intercept(Refused(op)))
         /\ Refused(op) = None =>
                /\ calls'[c].step = FirstStep(op)
                /\ calls'[c].seen = IF op.kind = "deleteObject" THEN uploads ELSE None
  <1>1. CallOK(c, calls[c]) /\ DOMAIN calls = Calls
    BY DEF TypeOK
  <1>2. DOMAIN calls[c] = DOMAIN Idle
    BY <1>1 DEF CallOK
  <1>3. /\ calls[c].step = "idle" /\ UNCHANGED <<rows, storage, lifecycle>>
        /\ \A d \in Calls \ {c} : calls'[d] = calls[d]
    BY <1>1 DEF Arrive, profile
  <1>4. CASE Refused(op) # None
    <2>1. calls'[c] = [calls[c] EXCEPT !.op = op, !.step = "ended",
                                       !.answer = Caught(intercept(Refused(op)))]
      BY <1>1, <1>4 DEF Arrive
    <2> QED
      BY <1>2, <1>3, <1>4, <2>1 DEF Idle
  <1>5. CASE Refused(op) = None
    <2>1. calls'[c] = [calls[c] EXCEPT !.op = op, !.step = FirstStep(op),
                            !.seen = IF op.kind = "deleteObject" THEN uploads ELSE None]
      BY <1>1, <1>5 DEF Arrive
    <2> QED
      BY <1>2, <1>3, <1>5, <2>1 DEF Idle
  <1> QED
    BY <1>4, <1>5

\* Nothing is done for what a pipe or a schema refuses.
LEMMA RefusedTold ==
  ASSUME AInv, NEW c \in Calls, NEW op \in Operations[c], calls[c].step = "idle",
         Refused(op) # None, UNCHANGED rows, calls'[c].op = op,
         calls'[c].answer = Caught(intercept(Refused(op)))
  PROVE  Told(c)'
  <1>1. \/ Refused(op) = "UnprocessableEntity" /\ op.kind = "signUp" /\ ~op.match
        \/ Refused(op) = "ZodError" /\ op.kind = "updateUser" /\ ~parses(op.data)
    BY DEF Refused
  <1>2. /\ Fine(calls'[c].answer) /\ Kind(c)' = op.kind
        /\ Refused(op) = "UnprocessableEntity" => Status(c)' = 422
        /\ Refused(op) = "ZodError" => Status(c)' = 500
    BY <1>1, FineErrors, Statuses DEF Kind, Status
  <1>3. SilenceTold(c)'
    BY <1>2 DEF Fine, SilenceTold, Status
  <1>4. CASE Refused(op) = "UnprocessableEntity"
    <2>1. ~Made(c)'
      BY NotMadeYet DEF Made, Settled
    <2>2. SignUpTold(c)'
      BY <1>1, <1>2, <1>4, <2>1 DEF SignUpTold
    <2> QED
      BY <1>1, <1>2, <1>3, <1>4, <2>2 DEF Told
  <1>5. CASE Refused(op) = "ZodError"
    <2>1. UpdateTold(c)'
      BY <1>1, <1>2, <1>5 DEF UpdateTold
    <2> QED
      BY <1>1, <1>2, <1>3, <1>5, <2>1 DEF Told
  <1> QED
    BY <1>1, <1>4, <1>5

LEMMA ArriveTold ==
  ASSUME AInv, Inv', NEW c \in Calls, NEW op \in Operations[c], Arrive(c, op)
  PROVE  AInv'
  <1>1. /\ calls[c].step = "idle" /\ calls'[c].op = op
        /\ \A d \in Calls \ {c} : calls'[d] = calls[d]
        /\ UNCHANGED <<rows, storage, lifecycle>>
    BY ArriveFields DEF AInv, Inv
  <1>2. Refused(op) # None => calls'[c].step = "ended" /\ Told(c)'
    BY <1>1, ArriveFields, RefusedTold DEF AInv, Inv
  <1>3. Refused(op) = None =>
            /\ calls'[c].step = FirstStep(op)
            /\ calls'[c].seen = IF op.kind = "deleteObject" THEN uploads ELSE None
    BY ArriveFields DEF AInv, Inv
  <1>4. /\ FirstStep(op) \in StepsFor[op.kind] /\ FirstStep(op) \notin {"idle", "ended", "handler"}
        /\ op.kind \in DOMAIN StepsFor
    <2>1. op.kind \in DOMAIN StepsFor
      BY OperationsAssumption
    <2>2. FirstStep(op) \in StepsFor[op.kind] /\ FirstStep(op) \notin {"idle", "ended"}
      BY <2>1, FirstStepTyped, StepsUnder
    <2>3. FirstStep(op) # "handler"
      BY <2>1 DEF FirstStep, StepsFor
    <2> QED
      BY <2>1, <2>2, <2>3
  <1>5. Prepared(c)'
    <2>1. calls'[c].step # "handler"
      BY <1>2, <1>3, <1>4
    <2>2. op.kind \in OfUser => rows'[op.user] # None
      BY <1>1 DEF Arrive, Known, OfUser
    <2>3. op.kind = "deleteObject" => calls'[c].seen \in 0..uploads'
      <3>1. op.kind = "deleteObject" => Refused(op) = None
        BY DEF Refused
      <3> QED
        BY <1>1, <1>3, <3>1, StorageTyped DEF AInv, storage
    <2>4. Account(c)'
      BY <1>2, <1>3, <1>4 DEF Account, FirstStep, StepsFor, Signing
    <2> QED
      BY <1>1, <2>1, <2>2, <2>3, <2>4 DEF Prepared, Kind, User
  <1>6. calls'[c].step # "idle" /\ (calls'[c].step = "ended" => Told(c)')
    BY <1>2, <1>3, <1>4
  <1>7. closers["nest"] # "done"
    BY DEF Arrive, AInv, Closing
  <1>8. Onward /\ MadeOnlyBy(c)
    BY <1>1 DEF Onward, MadeOnlyBy, storage
  <1>9. OneAccount'
    BY <1>1, <1>8, AccountsStayApart DEF AInv
  <1> QED
    BY <1>1, <1>5, <1>6, <1>7, <1>8, <1>9, RequestStep DEF Settled, storage

-----------------------------------------------------------------------------
(* What others do, and the process *)

\* Answers stay true when rows are removed, objects are uploaded, or the process goes on.
LEMMA CallsStay ==
  ASSUME AInv, Inv', UNCHANGED <<calls, exitCode>>, Onward, Closing',
         \A u \in Users : rows'[u] # None => rows[u] # None,
         uploads' \in {uploads, uploads + 1}
  PROVE  AInv'
  <1>1. OneAccount'
    BY AccountsStayApart DEF AInv
  <1>2. MadeBySettled'
    BY DEF AInv, MadeBySettled, Onward
  <1>3. AllTold'
    BY ToldStays DEF AllTold
  <1>4. \A c \in Calls : Prepared(c)'
    <2> SUFFICES ASSUME NEW c \in Calls PROVE Prepared(c)'
      OBVIOUS
    <2>1. Prepared(c)
      BY DEF AInv
    <2>2. calls[c].step # "idle" /\ Kind(c) \in OfUser => User(c) \in Users
      BY AskedFor DEF AInv
    <2>3. uploads \in Nat
      BY StorageTyped DEF AInv
    <2>4. Account(c)'
      BY <2>1, AccountStays DEF Prepared
    <2> QED
      BY <2>1, <2>2, <2>3, <2>4 DEF Prepared, Onward, Kind, User
  <1> QED
    BY <1>1, <1>2, <1>3, <1>4 DEF AInv

LEMMA OthersTold ==
  ASSUME AInv, Inv', Others
  PROVE  AInv'
  <1>1. Closing' /\ UNCHANGED <<calls, exitCode>>
    BY DEF Others, RemoveUser, Upload, UrlExpires, lifecycle, AInv, Closing, InHand
  <1>2. Onward /\ (\A u \in Users : rows'[u] # None => rows[u] # None)
            /\ uploads' \in {uploads, uploads + 1}
    <2>1. ASSUME NEW u \in Users, RemoveUser(u), UNCHANGED storage
          PROVE  /\ Onward /\ \A v \in Users : rows'[v] # None => rows[v] # None
                 /\ uploads' = uploads
      <3>1. /\ rows[u] # None /\ RowOK(rows[u])
            /\ rows'[u] = [rows[u] EXCEPT !.gone = TRUE]
            /\ \A v \in Users \ {u} : rows'[v] = rows[v]
        BY <2>1 DEF RemoveUser, Exists, AInv, Inv, TypeOK
      <3>2. /\ rows'[u].email = rows[u].email /\ rows'[u].by = rows[u].by
            /\ rows'[u].namedBy = rows[u].namedBy /\ rows'[u].gone = TRUE
        BY <3>1 DEF RowOK, Row
      <3>3. rows'[u] \in Row
        BY <3>1 DEF RowOK, Row
      <3>4. rows'[u] # None
        BY <3>3, SlugIsThere
      <3> QED
        BY <2>1, <3>1, <3>2, <3>4 DEF Onward, storage
    <2>2. ASSUME NEW k \in Keys, Upload(k) \/ UrlExpires(k), UNCHANGED profile
          PROVE  /\ Onward /\ \A v \in Users : rows'[v] # None => rows[v] # None
                 /\ uploads' \in {uploads, uploads + 1}
      <3>1. DOMAIN objects = Keys
        BY StorageTyped DEF AInv
      <3>2. \A l \in Keys : objects'[l] \in {objects[l], 0, uploads + 1}
        BY <2>2, <3>1 DEF Upload, UrlExpires
      <3> QED
        BY <2>2, <3>2 DEF Onward, Upload, UrlExpires, profile
    <2> QED
      BY <2>1, <2>2 DEF Others
  <1> QED
    BY <1>1, <1>2, CallsStay

\* A step of the process that leaves requests, rows and objects alone.
LEMMA QuietTold ==
  ASSUME AInv, Inv', Quiet, UNCHANGED exitCode, Closing'
  PROVE  AInv'
  <1>1. UNCHANGED <<calls, rows, objects, uploads>>
    BY DEF Quiet, profile, storage
  <1>2. Onward
    BY <1>1 DEF Onward
  <1> QED
    BY <1>1, <1>2, CallsStay

\* An exit as failed may cut requests off; any other finds none in hand.
LEMMA ExitTold ==
  ASSUME AInv, Inv', phase # "exited", NEW code, Exit(code), code = 1 \/ InHand = {},
         UNCHANGED closers
  PROVE  AInv'
  <1>1. UNCHANGED <<rows, objects, uploads>> /\ phase' = "exited" /\ listening' = FALSE
        /\ exitCode' = code
    BY DEF Exit, profile, storage
  <1>2. exitCode = None
    BY DEF AInv, Inv, TypeOK
  <1>3. \A d \in Calls : IF Under(calls[d])
            THEN /\ calls'[d].step = "ended" /\ calls'[d].answer = NoAnswer
                 /\ calls'[d].op = calls[d].op /\ calls'[d].seen = calls[d].seen
            ELSE calls'[d] = calls[d]
    <2> SUFFICES ASSUME NEW d \in Calls
                 PROVE  IF Under(calls[d])
                        THEN /\ calls'[d].step = "ended" /\ calls'[d].answer = NoAnswer
                             /\ calls'[d].op = calls[d].op /\ calls'[d].seen = calls[d].seen
                        ELSE calls'[d] = calls[d]
      OBVIOUS
    <2>1. DOMAIN calls[d] = DOMAIN Idle
      BY DEF AInv, Inv, TypeOK, CallOK
    <2>2. calls'[d] = IF Under(calls[d])
            THEN [calls[d] EXCEPT !.step = "ended", !.answer = NoAnswer] ELSE calls[d]
      BY DEF Exit, InHand, Under
    <2> QED
      BY <2>1, <2>2 DEF Idle
  <1>4. Onward
    BY <1>1 DEF Onward
  <1>5. AllTold'
    <2> SUFFICES ASSUME NEW d \in Calls, calls'[d].step = "ended" PROVE Told(d)'
      BY DEF AllTold
    <2>1. CASE Under(calls[d])
      <3>1. code = 1
        BY <2>1 DEF InHand, Under
      <3>2. calls'[d].answer.status = 0 /\ calls'[d].answer.reported = FALSE
        BY <1>3, <2>1, SuccessStatus
      <3> QED
        BY <1>1, <3>1, <3>2 DEF Told, SilenceTold, Status
    <2>2. CASE ~Under(calls[d])
      <3>1. calls'[d] = calls[d] /\ calls[d].step = "ended"
        BY <1>3, <2>2
      <3> QED
        BY <1>1, <1>2, <1>4, <3>1, ToldStays
    <2> QED
      BY <2>1, <2>2
  <1>6. OneAccount'
    BY <1>1 DEF AInv, OneAccount, Exists
  <1>7. MadeBySettled'
    BY <1>1, <1>3 DEF AInv, MadeBySettled, Settled
  <1>8. \A d \in Calls : Prepared(d)'
    BY <1>1, <1>3 DEF AInv, Prepared, Account, Signing, Under, Kind, User
  <1>9. Closing'
    <2>1. InHand' = {}
      BY <1>3 DEF InHand, Under
    <2> QED
      BY <1>1, <2>1 DEF Closing
  <1> QED
    BY <1>5, <1>6, <1>7, <1>8, <1>9 DEF AInv

\* Before the process runs no request is in hand.
LEMMA NobodyYet == ASSUME AInv, phase # "running" PROVE InHand = {}
  BY DEF AInv, Inv, TypeOK

LEMMA StartTold ==
  ASSUME AInv, Inv', initializeApp \/ listen
  PROVE  AInv'
  <1>1. /\ phase \in {"creating", "initializing"} /\ \A x \in Closers : closers[x] = "idle"
        /\ UNCHANGED closers
    BY DEF initializeApp, listen, AInv, Closing
  <1>2. CASE Exit(1)
    BY <1>1, <1>2, ExitTold
  <1>3. CASE Quiet /\ UNCHANGED exitCode
    <2>1. Closing'
      BY <1>1 DEF Closing, Closers
    <2> QED
      BY <1>3, <2>1, QuietTold
  <1> QED
    BY <1>2, <1>3 DEF initializeApp, listen

LEMMA SigtermTold ==
  ASSUME AInv, Inv', Sigterm
  PROVE  AInv'
  <1>1. CASE phase = "creating" /\ Exit(143) /\ UNCHANGED closers
    BY <1>1, NobodyYet, ExitTold
  <1>2. CASE /\ phase = "running" /\ Quiet /\ UNCHANGED <<phase, exitCode, listening>>
             /\ closers' = [closers EXCEPT !["nest"] = "destroy", !["app"] = "destroy"]
    <2>1. DOMAIN closers = Closers
      BY DEF AInv, Inv, TypeOK
    <2>2. /\ closers'["nest"] = "destroy" /\ closers'["app"] = "destroy"
          /\ closers'["again"] = closers["again"]
      BY <1>2, <2>1 DEF Closers
    <2>3. Closing'
      BY <1>2, <2>2 DEF AInv, Closing, Closers
    <2> QED
      BY <1>2, <2>3, QuietTold
  <1> QED
    BY <1>1, <1>2 DEF Sigterm

\* One of those that close goes on: it stops the server from listening before it
\* waits, and when Nest's is through nobody is in hand.
LEMMA CloserTold ==
  ASSUME AInv, Inv', phase = "running", Quiet, UNCHANGED <<phase, exitCode>>,
         NEW x \in Closers,
         \/ closers' = [closers EXCEPT ![x] = "rejected"] /\ UNCHANGED listening
         \/ closers' = [closers EXCEPT ![x] = "dispose"] /\ listening' = FALSE
         \/ /\ closers' = [closers EXCEPT !["nest"] = "done", !["again"] = "destroy"]
            /\ closers["nest"] = "dispose" /\ InHand = {} /\ UNCHANGED listening
  PROVE  AInv'
  <1>1. DOMAIN closers = Closers /\ InHand' = InHand
    BY DEF AInv, Inv, TypeOK, Quiet, InHand
  <1>2. Closing'
    BY <1>1 DEF AInv, Closing, Closers
  <1> QED
    BY <1>2, QuietTold

LEMMA CloseTold ==
  ASSUME AInv, Inv', NEW x \in Closers, Close(x)
  PROVE  AInv'
  <1>1. phase = "running"
    BY DEF Close, onModuleDestroy, Disposed
  <1>2. CASE Exit(1) /\ UNCHANGED closers
    BY <1>1, <1>2, ExitTold
  <1>3. CASE InHand = {} /\ Exit(0) /\ UNCHANGED closers
    BY <1>1, <1>3, ExitTold
  <1>4. CASE /\ Quiet /\ UNCHANGED <<phase, exitCode, listening>>
             /\ closers' = [closers EXCEPT ![x] = "rejected"]
    BY <1>1, <1>4, CloserTold
  <1>5. CASE /\ Quiet /\ UNCHANGED <<phase, exitCode>> /\ listening' = FALSE
             /\ closers' = [closers EXCEPT ![x] = "dispose"]
    BY <1>1, <1>5, CloserTold
  <1>6. CASE /\ Quiet /\ UNCHANGED <<phase, exitCode, listening>>
             /\ InHand = {} /\ closers["nest"] = "dispose"
             /\ closers' = [closers EXCEPT !["nest"] = "done", !["again"] = "destroy"]
    BY <1>1, <1>6, CloserTold
  <1> QED
    BY <1>2, <1>3, <1>4, <1>5, <1>6 DEF Close, onModuleDestroy, Rejected, Disposed

LEMMA RunOutTold ==
  ASSUME AInv, Inv', RunOut
  PROVE  AInv'
  <1>1. InHand = {}
    BY DEF RunOut, AInv, Closing
  <1> QED
    BY <1>1, ExitTold DEF RunOut

-----------------------------------------------------------------------------
(* The theorem *)

LEMMA InitTold == Init => AInv
  <1> SUFFICES ASSUME Init PROVE AInv
    OBVIOUS
  <1>1. Inv
    BY InitInv
  <1>2. \A c \in Calls : calls[c].step = "idle"
    BY DEF Init, InitAnswers, Idle
  <1>3. OneAccount
    BY TablesAssumption DEF Init, OneAccount, Exists
  <1>4. MadeBySettled
    BY TablesAssumption, NoneAssumption DEF Init, MadeBySettled
  <1>5. AllTold /\ Closing /\ \A c \in Calls : Prepared(c)
    BY <1>2 DEF AllTold, Closing, Prepared, Account, Signing, Init, Closers
  <1> QED
    BY <1>1, <1>3, <1>4, <1>5 DEF AInv

LEMMA StepTold ==
  ASSUME AInv, Inv', NEW c \in Calls, Step(c)
  PROVE  AInv'
  <1>1. CASE ProfileStep(c) /\ UNCHANGED storage
    BY <1>1, FindByEmailTold, CreateTold, TokensTold, FindByIdTold, ReadTold, UpdateToldStep, GuardTold,
       ListingToldStep DEF ProfileStep, Step
  <1>2. CASE StorageStep(c) /\ UNCHANGED profile
    BY <1>2, PresignTold, HeadTold, DeleteTold DEF StorageStep, Step
  <1> QED
    BY <1>1, <1>2 DEF Step

LEMMA NextTold == AInv /\ [Next]_vars => AInv'
  <1> SUFFICES ASSUME AInv, [Next]_vars PROVE AInv'
    OBVIOUS
  <1>1. Inv'
    BY NextInv DEF AInv
  <1>2. CASE UNCHANGED vars
    <2>1. Quiet /\ UNCHANGED exitCode
      BY <1>2 DEF vars, Quiet, profile, storage
    <2>2. Closing'
      BY <1>2 DEF vars, AInv, Closing, InHand
    <2> QED
      BY <1>1, <2>1, <2>2, QuietTold
  <1>3. CASE initializeApp \/ listen
    BY <1>1, <1>3, StartTold
  <1>4. CASE Sigterm
    BY <1>1, <1>4, SigtermTold
  <1>5. CASE RunOut
    BY <1>1, <1>5, RunOutTold
  <1>6. CASE \E x \in Closers : Close(x)
    BY <1>1, <1>6, CloseTold
  <1>7. CASE \E c \in Calls : \E op \in Operations[c] : Arrive(c, op)
    BY <1>1, <1>7, ArriveTold
  <1>8. CASE \E c \in Calls : Step(c)
    BY <1>1, <1>8, StepTold
  <1>9. CASE Others
    BY <1>1, <1>9, OthersTold
  <1> QED
    BY <1>2, <1>3, <1>4, <1>5, <1>6, <1>7, <1>8, <1>9 DEF Next

(***************************************************************************)
(* Clients are told what happened, for any requests, however many, in any  *)
(* order, with any query lost and with SIGTERM at any time: by UserUseCase,*)
(* UserRepository, the guard of profiles and S3Service, through the        *)
(* interceptor and the filters, and by the process that is shut down.      *)
(***************************************************************************)
THEOREM AnswersTold == Spec => []AnswersTrue
  <1>1. AInv => AnswersTrue
    BY DEF AInv, AllTold, Told, AnswersTrue, Answered, Status, Kind
  <1>2. Spec => []AInv
    BY InitTold, NextTold, PTL DEF Spec
  <1> QED
    BY <1>1, <1>2, PTL
-----------------------------------------------------------------------------
(* Requests end *)

\* The steps that follow a step, if the request does not end with it.
Following ==
    [findByEmail |-> {"create", "sign"}, create |-> {"sign"}, findById |-> {"write"},
     read |-> {"write"}, write |-> {"sign"}, sign |-> {"store"}, store |-> {"mail"},
     guard |-> {"handler"}, head |-> {"delete"}]

\* The steps from which so many more are left at most; from any other it is five.
Within1 == {"mail", "handler", "delete", "presign"}
Within2 == Within1 \union {"store"}
Within3 == Within2 \union {"sign"}
Within4 == Within3 \union {"create", "write"}

LEMMA StepAdvances ==
  ASSUME TypeOK, NEW c \in Calls, Step(c)
  PROVE  /\ \A d \in Calls \ {c} : calls'[d] = calls[d]
         /\ \/ calls'[c].step = "ended"
            \/ /\ calls[c].step \in DOMAIN Following
               /\ calls'[c].step \in Following[calls[c].step]
  <1>1. ASSUME NEW answer, End(c, answer) \/ Lose(c, answer)
        PROVE  Only(c) /\ calls'[c].step = "ended"
    BY <1>1, EndFields, LoseFields DEF EndsWith
  <1>2. ASSUME NEW step, NEW seen, Proceed(c, step, seen)
        PROVE  Only(c) /\ calls'[c].step = step
    BY <1>2, ProceedFields
  <1>3. ASSUME calls' = [calls EXCEPT ![c].step = "create", ![c].failed = TRUE]
        PROVE  Only(c) /\ calls'[c].step = "create"
    <2>1. CallOK(c, calls[c]) /\ DOMAIN calls = Calls
      BY DEF TypeOK
    <2> QED
      BY <1>3, <2>1 DEF Only, CallOK, Idle
  <1> USE DEF Return, Throw, ThrowFromGuard, Following
  <1>4. CASE findByEmail(c)
    BY <1>1, <1>2, <1>3, <1>4 DEF findByEmail, Only
  <1>5. CASE createUser(c)
    BY <1>1, <1>2, <1>5 DEF createUser, Only
  <1>6. CASE findById(c)
    BY <1>1, <1>2, <1>6 DEF findById, Only
  <1>7. CASE generateSlugForUser(c)
    <2>1. CASE \E seen : Proceed(c, "write", seen)
      <3>1. Only(c) /\ calls'[c].step = "write" /\ calls[c].step = "read"
        BY <1>2, <1>7, <2>1 DEF generateSlugForUser
      <3> QED
        BY <3>1 DEF Only
    <2>2. CASE \E answer : Lose(c, answer)
      BY <1>1, <2>2 DEF Only
    <2>3. (\E seen : Proceed(c, "write", seen)) \/ \E answer : Lose(c, answer)
      BY <1>7 DEF generateSlugForUser
    <2> QED
      BY <2>1, <2>2, <2>3
  <1>8. CASE update(c)
    BY <1>1, <1>2, <1>8 DEF update, Only
  <1>9. CASE UserProfileCompleteGuard(c) \/ createListing(c)
    BY <1>1, <1>2, <1>9 DEF UserProfileCompleteGuard, createListing, Only
  <1>10. CASE StorageStep(c)
    BY <1>1, <1>2, <1>10 DEF StorageStep, generatePresignedUrl, objectExists, deleteObject, Only
  <1>11. CASE createToken(c) \/ updateRefreshToken(c) \/ sendVerificationEmail(c)
    BY <1>1, <1>2, <1>11 DEF createToken, updateRefreshToken, sendVerificationEmail, Only
  <1> QED
    BY <1>4, <1>5, <1>6, <1>7, <1>8, <1>9, <1>10, <1>11 DEF Step, ProfileStep

\* Nobody else brings a request anywhere but to its end.
LEMMA OthersLeave ==
  ASSUME TypeOK, [Next]_vars, NEW c \in Calls, c \in InHand, ~Step(c)
  PROVE  calls'[c] = calls[c] \/ calls'[c].step = "ended"
  <1>1. ASSUME NEW code, Exit(code) PROVE calls'[c].step = "ended"
    <2>1. calls'[c] = [calls[c] EXCEPT !.step = "ended", !.answer = NoAnswer]
      BY <1>1 DEF Exit
    <2> QED
      BY <2>1 DEF TypeOK, CallOK, Idle
  <1>2. CASE initializeApp \/ listen \/ Sigterm \/ RunOut
    BY <1>1, <1>2 DEF initializeApp, listen, Sigterm, RunOut, Quiet
  <1>3. ASSUME NEW x \in Closers, Close(x) PROVE calls'[c] = calls[c] \/ calls'[c].step = "ended"
    BY <1>1, <1>3 DEF Close, onModuleDestroy, Disposed, Rejected, Quiet
  <1>4. ASSUME NEW d \in Calls, NEW op \in Operations[d], Arrive(d, op) PROVE calls'[c] = calls[c]
    BY <1>4, ArriveFields DEF InHand
  <1>5. ASSUME NEW d \in Calls, Step(d) PROVE calls'[c] = calls[c]
    BY <1>5, StepAdvances
  <1>6. CASE Others \/ UNCHANGED vars
    BY <1>6 DEF Others, RemoveUser, Upload, UrlExpires, vars
  <1> QED
    BY <1>2, <1>3, <1>4, <1>5, <1>6 DEF Next

\* The guard of Step: every query of a request in hand may at least be lost.
CanStep(c) == phase = "running" /\ c \in InHand

\* A request in hand is at one of its steps, and each step of its own takes it nearer
\* to its end; nothing takes it back.
At(c, steps) == c \in InHand /\ calls[c].step \in steps
Advances(c) ==
    c \in InHand =>
        /\ CanStep(c)
        /\ At(c, Within4) => At(c, Within4)' \/ ~(c \in InHand)'
        /\ At(c, Within3) => At(c, Within3)' \/ ~(c \in InHand)'
        /\ At(c, Within2) => At(c, Within2)' \/ ~(c \in InHand)'
        /\ At(c, Within1) => At(c, Within1)' \/ ~(c \in InHand)'
        /\ <<Step(c)>>_vars =>
            /\ At(c, Within4)' \/ ~(c \in InHand)'
            /\ At(c, Within4) => At(c, Within3)' \/ ~(c \in InHand)'
            /\ At(c, Within3) => At(c, Within2)' \/ ~(c \in InHand)'
            /\ At(c, Within2) => At(c, Within1)' \/ ~(c \in InHand)'
            /\ At(c, Within1) => ~(c \in InHand)'

LEMMA HandAdvances ==
  ASSUME TypeOK, [Next]_vars, NEW c \in Calls
  PROVE  Advances(c)
  <1> SUFFICES ASSUME c \in InHand PROVE Advances(c)
    BY DEF Advances
  <1>1. CanStep(c)
    BY DEF CanStep, TypeOK
  <1>2. calls'[c].step = "ended" => ~(c \in InHand)'
    BY DEF InHand
  <1>3. CASE Step(c)
    BY <1>1, <1>2, <1>3, StepAdvances
       DEF Advances, At, Following, Within1, Within2, Within3, Within4, InHand
  <1>4. CASE ~Step(c)
    BY <1>1, <1>2, <1>4, OthersLeave DEF Advances, At
  <1> QED
    BY <1>3, <1>4

\* Weak fairness of Step with its guard written out: at any time, each request later
\* takes a step or has none to take.
StepsTaken == [](\A c \in Calls : <>~CanStep(c) \/ <><<Step(c)>>_vars)

(***************************************************************************)
(* Every request that is let in ends, after five steps at most, or is cut *)
(* off: none waits for another or for those that close the application.    *)
(***************************************************************************)
THEOREM RequestsFinish == Spec /\ StepsTaken => \A c \in Calls : (c \in InHand ~> ~(c \in InHand))
  <1> SUFFICES ASSUME []TypeOK, [][Next]_vars,
                      [](\A c \in Calls : <>~CanStep(c) \/ <><<Step(c)>>_vars)
               PROVE  \A c \in Calls : (c \in InHand ~> ~(c \in InHand))
    BY TypeCorrect, PTL DEF Spec, StepsTaken
  <1>1. \A c \in Calls : <>~CanStep(c) \/ <><<Step(c)>>_vars
    BY PTL
  <1>2. ASSUME NEW c \in Calls PROVE c \in InHand ~> ~(c \in InHand)
    <2>1. <>~CanStep(c) \/ <><<Step(c)>>_vars
      BY <1>1
    <2>2. TypeOK /\ [Next]_vars => Advances(c)
      BY HandAdvances
    <2> QED
      BY <2>1, <2>2, PTL DEF Advances
  <1> QED
    BY <1>2
-----------------------------------------------------------------------------
(* The process ends *)

\* How far those that close the application may be: both handlers of SIGTERM start
\* together, the first of them to get there ends the connection of RedisService, and
\* Nest's is through before the signal comes again.
Shutting ==
    /\ closers["nest"] \in {"idle", "destroy", "dispose", "done"}
    /\ closers["app"] \in {"idle", "destroy", "dispose", "rejected"}
    /\ closers["again"] \in {"idle", "destroy", "rejected"}
    /\ (closers["nest"] = "idle") <=> (closers["app"] = "idle")
    /\ (closers["again"] = "idle") <=> (closers["nest"] # "done")
    /\ closers["nest"] \in {"dispose", "done"} => redis = "ended" /\ closers["app"] # "dispose"
    /\ closers["app"] = "dispose" => redis = "ended"

\* One of those that close gets the connection ended, fails, or is Nest's and through.
Destroyed(x) ==
    /\ closers[x] = "destroy" /\ redis = "ready" /\ redis' = "ended"
    /\ closers' = [closers EXCEPT ![x] = "dispose"]
FailedToClose(x) ==
    /\ x # "nest" /\ closers[x] = "destroy"
    /\ closers' = [closers EXCEPT ![x] = "rejected"]
    /\ UNCHANGED <<redis, listening>>
NestThrough ==
    /\ closers["nest"] = "dispose" /\ InHand = {}
    /\ closers' = [closers EXCEPT !["nest"] = "done", !["again"] = "destroy"]
    /\ UNCHANGED <<redis, listening>>

\* What steps of those that close do, when they do not end the process.
LEMMA ClosersStep ==
  ASSUME TypeOK, NEW x \in Closers, Close(x), phase' # "exited"
  PROVE  /\ UNCHANGED <<phase, calls>>
         /\ \/ Destroyed(x)
            \/ FailedToClose(x)
            \/ x = "nest" /\ NestThrough
  BY DEF Close, onModuleDestroy, Disposed, Rejected, Exit, Quiet, Destroyed, FailedToClose,
     NestThrough

\* Steps of requests and of the environment leave the process as it is.
LEMMA LifecycleKept ==
  ASSUME TypeOK, [Next]_vars, phase = "running", closers["app"] # "idle",
         \A x \in Closers : ~Close(x), phase' # "exited"
  PROVE  UNCHANGED lifecycle
  BY ArriveFields
     DEF Next, Others, Step, vars, initializeApp, listen, Sigterm, RunOut, Exit, lifecycle

LEMMA ShuttingStep == TypeOK /\ Closing /\ Shutting /\ [Next]_vars => Shutting'
  <1> SUFFICES ASSUME TypeOK, Closing, Shutting, [Next]_vars PROVE Shutting'
    OBVIOUS
  <1>1. DOMAIN closers = Closers /\ redis \in {"ready", "ended"}
    BY DEF TypeOK
  <1>2. CASE UNCHANGED <<closers, redis>>
    BY <1>2 DEF Shutting
  <1>3. CASE /\ closers["app"] = "idle"
             /\ closers' = [closers EXCEPT !["nest"] = "destroy", !["app"] = "destroy"]
    BY <1>1, <1>3 DEF Shutting, Closers
  <1>4. ASSUME NEW x \in Closers, Close(x), phase' # "exited" PROVE Shutting'
    <2>1. CASE Destroyed(x)
      BY <1>1, <2>1 DEF Destroyed, Shutting, Closers
    <2>2. CASE FailedToClose(x)
      BY <1>1, <2>2 DEF FailedToClose, Shutting, Closers
    <2>3. CASE NestThrough
      BY <1>1, <2>3 DEF NestThrough, Shutting, Closers
    <2> QED
      BY <1>4, <2>1, <2>2, <2>3, ClosersStep
  <1>5. ASSUME NEW x \in Closers, Close(x), phase' = "exited" PROVE UNCHANGED <<closers, redis>>
    BY <1>5 DEF Close, onModuleDestroy, Disposed, Rejected, Exit, TypeOK
  <1> QED
    BY <1>2, <1>3, <1>4, <1>5, ArriveFields
       DEF Next, Others, Step, vars, initializeApp, listen, Sigterm, RunOut, lifecycle

LEMMA AlwaysShutting == Spec => [](AInv /\ Shutting)
  <1>1. Init => Shutting
    BY DEF Init, Shutting, Closers
  <1>2. AInv => TypeOK /\ Closing
    BY DEF AInv, Inv
  <1> QED
    BY <1>1, <1>2, InitTold, NextTold, ShuttingStep, PTL DEF Spec

\* The guards of Close, which may at least fail before it waits, and of RunOut.
CanClose(x) ==
    /\ phase = "running"
    /\ \/ closers[x] = "destroy"
       \/ closers[x] = "dispose" /\ InHand = {}
CanRunOut ==
    /\ phase = "running"
    /\ closers["nest"] = "done"
    /\ \A x \in Closers : closers[x] \in {"done", "rejected"}
\* The stages of a shutdown, by how far Nest's handler is.
Closes == phase = "running" /\ closers["nest"] = "destroy"
Waits == phase = "running" /\ closers["nest"] = "dispose"
Through == phase = "running" /\ closers["nest"] = "done"
Over == phase = "exited"
Empty == InHand = {}
Gives(x) == closers[x] = "rejected"

LEMMA NobodyComes ==
  ASSUME TypeOK, [Next]_vars, phase = "running", ~listening, Empty
  PROVE  Empty'
  <1>1. ASSUME NEW code, Exit(code) PROVE Empty'
    BY <1>1 DEF Exit, Empty, InHand
  <1>2. CASE \E c \in Calls : Step(c)
    <2>1. PICK c \in Calls : Step(c)
      BY <1>2
    <2>2. calls[c].step \notin {"idle", "ended"}
      BY <2>1 DEF Step, ProfileStep, StorageStep, findByEmail, createUser, findById,
         createToken, updateRefreshToken, sendVerificationEmail,
         generateSlugForUser, update, UserProfileCompleteGuard, createListing,
         generatePresignedUrl, objectExists, deleteObject
    <2> QED
      BY <2>2 DEF Empty, InHand
  <1>3. CASE \A c \in Calls : ~Step(c)
    <2>1. calls' = calls \/ Empty'
      BY <1>1, <1>3
         DEF Next, Others, vars, initializeApp, listen, Sigterm, RunOut, Close, onModuleDestroy,
             Disposed, Rejected, Quiet, Arrive, RemoveUser, Upload, UrlExpires
    <2> QED
      BY <2>1 DEF Empty, InHand
  <1> QED
    BY <1>2, <1>3

\* What steps do at each stage: none goes back, and steps of Nest's handler go on.
Stages ==
    /\ closers["app"] # "idle" => Closes \/ Waits \/ Through \/ Over
    /\ Closes =>
        /\ CanClose("nest")
        /\ (Closes \/ Waits \/ Over)'
        /\ <<Close("nest")>>_vars => (Waits \/ Over)'
    /\ Waits =>
        /\ ~listening
        /\ Empty => CanClose("nest") /\ Empty'
        /\ (Waits \/ Through \/ Over)'
        /\ <<Close("nest")>>_vars => (Through \/ Over)'
    /\ Through => (Through \/ Over)'
    /\ Through /\ Gives("app") /\ Gives("again") => CanRunOut
    /\ <<RunOut>>_vars => Over'

\* When Nest's handler is through the others can but fail.
GivesWay(x) ==
    Through =>
        /\ ~Gives(x) => CanClose(x)
        /\ <<Close(x)>>_vars => (Gives(x) \/ Over)'
        /\ Gives(x) => (Gives(x) \/ Over)'

LEMMA StagesStep ==
  ASSUME AInv, AInv', Shutting, Shutting', [Next]_vars
  PROVE  Stages /\ GivesWay("app") /\ GivesWay("again")
  <1> USE DEF Closes, Waits, Through, Over, Gives
  <1>1. TypeOK /\ Closing /\ DOMAIN closers = Closers
        /\ {"nest", "app", "again"} \subseteq Closers
    BY DEF AInv, Inv, TypeOK, Closers
  <1>2. closers["app"] # "idle" =>
            phase \in {"running", "exited"} /\ closers["nest"] \in {"destroy", "dispose", "done"}
    BY <1>1 DEF Closing, Shutting, TypeOK
  <1>3. closers["nest"] # "idle" => closers["app"] # "idle"
    BY DEF Shutting
  <1>4. ASSUME phase = "running", closers["app"] # "idle", phase' # "exited"
        PROVE  /\ UNCHANGED phase
               /\ \/ UNCHANGED <<closers, redis>>
                  \/ \E x \in Closers : Close(x) /\ Destroyed(x)
                  \/ \E x \in Closers : Close(x) /\ FailedToClose(x)
                  \/ NestThrough
    BY <1>1, <1>4, ClosersStep, LifecycleKept DEF lifecycle
  <1>5. ASSUME phase = "running", closers["nest"] # "idle", phase' # "exited"
        PROVE  /\ UNCHANGED phase
               /\ \/ closers'["nest"] = closers["nest"]
                  \/ closers["nest"] = "destroy" /\ closers'["nest"] = "dispose"
                  \/ closers["nest"] = "dispose" /\ closers'["nest"] = "done"
               /\ \A x \in {"app", "again"} :
                    closers["nest"] = "done" /\ closers[x] = "rejected" => closers'[x] = "rejected"
    BY <1>1, <1>3, <1>4, <1>5 DEF Destroyed, FailedToClose, NestThrough, Closers
  <1>6. ASSUME NEW x \in Closers, Close(x), phase' # "exited"
        PROVE  /\ x = "nest" /\ closers["nest"] = "destroy" => closers'["nest"] = "dispose"
               /\ x = "nest" /\ closers["nest"] = "dispose" => closers'["nest"] = "done"
               /\ x # "nest" /\ closers["nest"] = "done" => closers'[x] = "rejected"
    <2>1. Destroyed(x) \/ FailedToClose(x) \/ (x = "nest" /\ NestThrough)
      BY <1>1, <1>6, ClosersStep
    <2> QED
      BY <1>1, <2>1 DEF Destroyed, FailedToClose, NestThrough, Shutting, Closers
  <1>7. Closes => /\ CanClose("nest") /\ (Closes \/ Waits \/ Over)'
                  /\ Close("nest") => (Waits \/ Over)'
    BY <1>1, <1>5, <1>6 DEF CanClose
  <1>8. Waits => /\ ~listening /\ (Waits \/ Through \/ Over)'
                 /\ Close("nest") => (Through \/ Over)'
                 /\ Empty => CanClose("nest") /\ Empty'
    BY <1>1, <1>5, <1>6, NobodyComes DEF CanClose, Closing, Empty
  <1>9. Through => (Through \/ Over)'
    BY <1>1, <1>5
  <1>10. Through /\ Gives("app") /\ Gives("again") => CanRunOut
    <2>1. \A x \in Closers : x = "nest" \/ x = "app" \/ x = "again"
      BY DEF Closers
    <2> QED
      BY <2>1 DEF CanRunOut
  <1>11. RunOut => Over'
    BY DEF RunOut, Exit
  <1>12. ASSUME NEW x \in {"app", "again"} PROVE GivesWay(x)
    <2>1. Through => closers[x] \in {"destroy", "rejected"}
      <3>1. x = "app" \/ x = "again"
        OBVIOUS
      <3> QED
        BY <1>3, <3>1 DEF Shutting
    <2>2. Through /\ Close(x) => (Gives(x) \/ Over)'
      BY <1>1, <1>6
    <2>3. Through /\ Gives(x) => (Gives(x) \/ Over)'
      BY <1>5
    <2>4. Through /\ ~Gives(x) => CanClose(x)
      BY <2>1 DEF CanClose
    <2> QED
      BY <2>2, <2>3, <2>4 DEF GivesWay
  <1> QED
    BY <1>2, <1>7, <1>8, <1>9, <1>10, <1>11, <1>12 DEF Stages

\* Weak fairness of Close and of RunOut with their guards written out.
GoesOn(x) == []<>~CanClose(x) \/ []<><<Close(x)>>_vars
RunsOut == []<>~CanRunOut \/ []<><<RunOut>>_vars

\* Those in hand end when nobody else is let in.
Drained == ~listening ~> Empty

(***************************************************************************)
(* SIGTERM ends the process, whichever of the two handlers is first, once  *)
(* the requests in hand are over: no request holds it up otherwise, and    *)
(* what becomes of the connections that both close does not.               *)
(***************************************************************************)
THEOREM ShutdownCorrect ==
    Spec /\ GoesOn("nest") /\ GoesOn("app") /\ GoesOn("again") /\ RunsOut /\ Drained => ShutdownEnds
  <1>1. AInv /\ AInv' /\ Shutting /\ Shutting' /\ [Next]_vars
            => Stages /\ GivesWay("app") /\ GivesWay("again")
    BY StagesStep
  <1>2. Over => phase = "exited"
    BY DEF Over
  <1> QED
    BY <1>1, <1>2, AlwaysShutting, PTL
       DEF Spec, Stages, GivesWay, GoesOn, RunsOut, Drained, ShutdownEnds
=============================================================================
