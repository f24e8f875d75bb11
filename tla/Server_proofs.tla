----------------------------- MODULE Server_proofs -----------------------------
(***************************************************************************)
(* Theorems about Server.  The types of its variables, the slugs of users  *)
(* and the ids they keep follow from one inductive invariant: what a       *)
(* request is about to write of a slug is still made of the names in the   *)
(* row, unless another request has written names since it read them.       *)
(***************************************************************************)
EXTENDS Server, SequenceTheorems, TLAPS

Seen == [slug : Slugs, slugId : SlugIds, namedBy : SUBSET Calls]

\* What was made of a row that was read is right for the row as it is.
ReadRight(row, data, seen) ==
    /\ seen \in Seen
    /\ parseSlugId(seen.slug) = seen.slugId
    /\ seen.namedBy \subseteq row.namedBy
    /\ seen.namedBy = row.namedBy =>
        /\ seen.slug = generateUserSlug(Merged(row, data), seen.slugId)
        /\ row.slugId # None => seen.slugId = row.slugId

Under(call) == call.step \notin {"idle", "ended"}

PendingRight(call, row) ==
    call.step = "write" =>
        IF call.seen = None THEN ~shouldRegenerateSlug(call.op.data) \/ row.gone
        ELSE ReadRight(row, parsed(call.op.data), call.seen)

Pending ==
    \A c \in Calls : Under(calls[c]) /\ calls[c].op.kind \in OfUser =>
        /\ rows[calls[c].op.user] # None
        /\ PendingRight(calls[c], rows[calls[c].op.user])

\* Where a request is that has made or written its row.
Settled == {"sign", "store", "mail", "ended"}

NamedOnce ==
    \A u \in Users, c \in Calls :
        rows[u] # None /\ c \in rows[u].namedBy => calls[c].step \in Settled

Inv == TypeOK /\ Pending /\ NamedOnce /\ SlugCurrent

\* What a step of a request c does to the requests.
Moved(c) ==
    /\ DOMAIN calls' = Calls
    /\ \A d \in Calls \ {c} : calls'[d] = calls[d]
    /\ CallOK(c, calls'[c])
    /\ calls'[c].op = calls[c].op

-----------------------------------------------------------------------------
(* Answers *)

LEMMA StatusTyped == \A error \in Errors : getStatusCode(error) \in {400, 401, 403, 404, 409, 422, 500}
  BY DEF getStatusCode, Errors, HttpException, KnownRequestError, StatusCode, errorHandlers

LEMMA CaughtTyped ==
  ASSUME production \in BOOLEAN, NEW error \in Errors
  PROVE  Caught(error) \in Answer
  <1>1. captured(error) \in BOOLEAN
    BY DEF captured
  <1> QED
    BY <1>1, StatusTyped DEF Caught, Answer

LEMMA InterceptTyped == \A error \in Errors : intercept(error) \in Errors
  BY DEF intercept, Errors, HttpException, StatusCode

LEMMA ErrorsNamed ==
  /\ Failures \subseteq Errors
  /\ {"ZodError", "Error", "P2002", "P2025", "Forbidden", "Unauthorized", "BadRequest",
      "Conflict", "UnprocessableEntity"} \subseteq Errors
  BY DEF Failures, Errors, HttpException, KnownRequestError, StatusCode

LEMMA AnswersTyped ==
  ASSUME production \in BOOLEAN, NEW error \in Errors, NEW c
  PROVE  /\ Caught(error) \in Answer
         /\ Caught(intercept(error)) \in Answer
         /\ AnswerOf(c, error) \in Answer
  BY CaughtTyped, InterceptTyped, ErrorsNamed DEF AnswerOf

LEMMA SuccessTyped == [status |-> 200, reported |-> FALSE] \in Answer /\ NoAnswer \in Answer
  BY DEF Answer, NoAnswer

-----------------------------------------------------------------------------
(* Steps of a request *)

LEMMA StepsUnder ==
  ASSUME NEW kind \in DOMAIN StepsFor, NEW step \in StepsFor[kind]
  PROVE  step \notin {"idle", "ended"}
  BY DEF StepsFor

LEMMA Proceeds ==
  ASSUME TypeOK, NEW c \in Calls, Under(calls[c]), NEW step, NEW seen,
         step \in StepsFor[calls[c].op.kind], Proceed(c, step, seen)
  PROVE  Moved(c) /\ calls'[c].step = step /\ calls'[c].seen = seen
  <1>1. CallOK(c, calls[c]) /\ DOMAIN calls = Calls
    BY DEF TypeOK
  <1>2. calls[c].op \in Operations[c] /\ calls[c].op.kind \in DOMAIN StepsFor
    BY <1>1, OperationsAssumption DEF CallOK, Under
  <1>3. step \notin {"idle", "ended"}
    BY <1>2, StepsUnder
  <1>4. /\ DOMAIN calls' = Calls /\ \A d \in Calls \ {c} : calls'[d] = calls[d]
        /\ calls'[c] = [calls[c] EXCEPT !.step = step, !.seen = seen]
    BY <1>1 DEF Proceed
  <1>5. /\ DOMAIN calls'[c] = DOMAIN Idle
        /\ calls'[c].step = step /\ calls'[c].seen = seen /\ calls'[c].op = calls[c].op
        /\ calls'[c].answer = calls[c].answer /\ calls'[c].failed = calls[c].failed
    BY <1>1, <1>4 DEF CallOK, Idle
  <1> QED
    BY <1>1, <1>2, <1>3, <1>4, <1>5 DEF Moved, CallOK, Under

LEMMA Ends ==
  ASSUME TypeOK, NEW c \in Calls, Under(calls[c]), NEW answer \in Answer,
         End(c, answer) \/ Lose(c, answer)
  PROVE  Moved(c) /\ calls'[c].step = "ended"
  <1>1. CallOK(c, calls[c]) /\ DOMAIN calls = Calls
    BY DEF TypeOK
  <1>2. calls[c].op \in Operations[c]
    BY <1>1 DEF CallOK, Under
  <1>3. /\ DOMAIN calls' = Calls /\ \A d \in Calls \ {c} : calls'[d] = calls[d]
        /\ \/ calls'[c] = [calls[c] EXCEPT !.step = "ended", !.answer = answer]
           \/ calls'[c] = [calls[c] EXCEPT !.step = "ended", !.failed = TRUE, !.answer = answer]
    BY <1>1 DEF End, Lose
  <1>4. /\ DOMAIN calls'[c] = DOMAIN Idle
        /\ calls'[c].step = "ended" /\ calls'[c].op = calls[c].op
        /\ calls'[c].answer = answer /\ calls'[c].failed \in {calls[c].failed, TRUE}
    BY <1>1, <1>3 DEF CallOK, Idle
  <1> QED
    BY <1>1, <1>2, <1>3, <1>4 DEF Moved, CallOK

-----------------------------------------------------------------------------
(* Slugs *)

HasNames(names) == \A f \in NameFields : names[f] \in Names \union {None}

LEMMA PartsTyped == \A name \in Names \union {None} : Parts(name) \in Slugs
  <1> SUFFICES ASSUME NEW name \in Names \union {None} PROVE Parts(name) \in Slugs
    OBVIOUS
  <1>1. CASE Counts(name)
    BY <1>1, NamesAssumption DEF Parts, Counts
  <1>2. CASE ~Counts(name)
    BY <1>2 DEF Parts, Slugs
  <1> QED
    BY <1>1, <1>2

LEMMA OneElement == \A S : \A e \in S : <<e>> \in Seq(S)
  OBVIOUS

LEMMA LastOfConcat ==
  ASSUME NEW S, NEW seq \in Seq(S), NEW one \in Seq(S), Len(one) = 1
  PROVE  seq \o one \in Seq(S) /\ Last(seq \o one) = one[1]
  <1>1. /\ seq \o one \in Seq(S) /\ Len(seq \o one) = Len(seq) + 1
        /\ \A i \in 1..(Len(seq) + 1) :
                (seq \o one)[i] = IF i <= Len(seq) THEN seq[i] ELSE one[i - Len(seq)]
    BY ConcatProperties
  <1>2. Len(seq) \in Nat
    BY LenProperties
  <1>3. (seq \o one)[Len(seq) + 1] = one[1]
    BY <1>1, <1>2
  <1> QED
    BY <1>1, <1>3 DEF Last

LEMMA OnePart ==
  ASSUME NEW slugId \in SlugIds
  PROVE  slugId \in Slugs /\ Len(slugId) = 1 /\ slugId = <<slugId[1]>>
  <1>1. slugId \in Seq(Seq(Strings)) /\ Len(slugId) = 1
    BY DEF SlugIds, Slugs
  <1>2. slugId = <<slugId[1]>>
    BY <1>1
  <1> QED
    BY <1>1, <1>2 DEF Slugs

LEMMA LastPart ==
  ASSUME NEW parts \in Slugs, NEW slugId \in SlugIds
  PROVE  parts \o slugId \in Slugs /\ parseSlugId(parts \o slugId) = slugId
  <1>1. slugId \in Slugs /\ Len(slugId) = 1 /\ slugId = <<slugId[1]>>
    BY OnePart
  <1>2. parts \o slugId \in Slugs /\ Last(parts \o slugId) = slugId[1]
    BY <1>1, LastOfConcat DEF Slugs
  <1> QED
    BY <1>1, <1>2 DEF parseSlugId

\* A slug ends in its id.
LEMMA SlugMade ==
  ASSUME NEW names, HasNames(names), NEW slugId \in SlugIds
  PROVE  /\ generateUserSlug(names, slugId) \in Slugs
         /\ parseSlugId(generateUserSlug(names, slugId)) = slugId
  <1> DEFINE components == IF Counts(names.companyName) THEN Parts(names.companyName)
                           ELSE Parts(names.firstName) \o Parts(names.lastName)
             parts == IF components = <<>> THEN <<<<"user">>>> ELSE components
  <1>1. /\ Parts(names.companyName) \in Slugs
        /\ Parts(names.firstName) \in Slugs /\ Parts(names.lastName) \in Slugs
    BY PartsTyped DEF HasNames, NameFields
  <1>2. components \in Slugs
    BY <1>1, ConcatProperties DEF Slugs
  <1>3. <<<<"user">>>> \in Slugs
    <2>1. <<"user">> \in Seq(Strings)
      BY NamesAssumption, OneElement
    <2> QED
      BY <2>1, OneElement DEF Slugs
  <1>4. parts \in Slugs
    BY <1>2, <1>3
  <1>5. generateUserSlug(names, slugId) = parts \o slugId
    BY DEF generateUserSlug
  <1> HIDE DEF parts
  <1> QED
    BY <1>4, <1>5, LastPart

LEMMA SlugOfNames ==
  ASSUME NEW names, NEW others, NEW slugId, \A f \in NameFields : names[f] = others[f]
  PROVE  generateUserSlug(names, slugId) = generateUserSlug(others, slugId)
  <1>1. /\ names.companyName = others.companyName
        /\ names.firstName = others.firstName /\ names.lastName = others.lastName
    BY DEF NameFields
  <1> DEFINE components(n) == IF Counts(n.companyName) THEN Parts(n.companyName)
                              ELSE Parts(n.firstName) \o Parts(n.lastName)
  <1>2. components(names) = components(others)
    BY <1>1
  <1> DEFINE made(parts) == (IF parts = <<>> THEN <<<<"user">>>> ELSE parts) \o slugId
  <1>3. /\ generateUserSlug(names, slugId) = made(components(names))
        /\ generateUserSlug(others, slugId) = made(components(others))
    BY DEF generateUserSlug
  <1> HIDE DEF components, made
  <1> QED
    BY <1>2, <1>3

LEMMA FreshTyped == \A draw \in Draws : freshSlugId(draw) \in SlugIds
  <1> SUFFICES ASSUME NEW draw \in Draws PROVE freshSlugId(draw) \in SlugIds
    OBVIOUS
  <1>1. <<draw>> \in Slugs
    BY NamesAssumption, OneElement DEF Slugs
  <1> QED
    BY <1>1 DEF freshSlugId, SlugIds

-----------------------------------------------------------------------------
(* Updates *)

DataOK(data) ==
    /\ DOMAIN data \subseteq UpdateFields
    /\ \A f \in DOMAIN data :
        /\ f \in NameFields => data[f] \in Names \union {None}
        /\ f \in {"userType", "licenseId"} => data[f] \in Strings \union {None}
        /\ f = "phoneNumber" => data[f] \in Strings
        /\ f = "isEmailVerified" => data[f] \in BOOLEAN

LEMMA DataTyped ==
  ASSUME NEW c \in Calls, NEW op \in Operations[c], op.kind \in {"updateUserRole", "updateUser"}
  PROVE  DataOK(parsed(op.data))
  BY OperationsAssumption DEF DataOK, parsed

LEMMA RowNames == \A row \in Row : HasNames(row)
  BY DEF Row, HasNames, NameFields

LEMMA MergedNames ==
  ASSUME NEW row \in Row, NEW data, DataOK(data)
  PROVE  HasNames(Merged(row, data))
  BY RowNames DEF HasNames, Merged, DataOK

RowFields == {"email", "provider", "firstName", "lastName", "companyName", "phoneNumber",
              "userType", "licenseId", "isEmailVerified", "slug", "slugId", "by", "namedBy",
              "torn", "gone"}

SlugFields == {"slug", "slugId", "namedBy", "torn"}

\* An update is in the row, with the fields of the slug if one was made.
LEMMA WrittenFields ==
  ASSUME NEW row \in Row, NEW data, NEW seen, NEW c
  PROVE  /\ DOMAIN Written(row, data, seen, c) = RowFields
         /\ \A f \in RowFields : Written(row, data, seen, c)[f] =
                IF seen # None /\ f \in SlugFields THEN slugFields(row, seen, c)[f]
                ELSE IF f \in DOMAIN data THEN data[f] ELSE row[f]
  <1>1. DOMAIN row = RowFields
    BY DEF Row, RowFields
  <1>2. DOMAIN slugFields(row, seen, c) = SlugFields
    BY DEF slugFields, SlugFields
  <1> QED
    BY <1>1, <1>2 DEF Written

LEMMA SlugFieldsTyped ==
  ASSUME NEW row \in Row, NEW seen \in Seen, NEW c \in Calls
  PROVE  /\ slugFields(row, seen, c).slug = seen.slug
         /\ slugFields(row, seen, c).slugId = seen.slugId
         /\ slugFields(row, seen, c).namedBy = row.namedBy \union {c}
         /\ slugFields(row, seen, c).torn \in BOOLEAN
         /\ slugFields(row, seen, c).torn <=> row.namedBy # seen.namedBy
         /\ seen.slug \in Slugs /\ seen.slugId \in SlugIds /\ row.namedBy \subseteq Calls
  BY DEF slugFields, Seen, Row

LEMMA SlugIsThere == None \notin Slugs /\ SlugIds \subseteq Slugs /\ None \notin Seen /\ None \notin Row
  BY NamesAssumption, NoneAssumption DEF SlugIds, Seen

LEMMA WrittenTyped ==
  ASSUME NEW row, RowOK(row), NEW data, DataOK(data), NEW seen \in Seen \union {None},
         NEW c \in Calls
  PROVE  RowOK(Written(row, data, seen, c))
  <1> DEFINE new == Written(row, data, seen, c)
             made == slugFields(row, seen, c)
  <1>1. row \in Row /\ (row.slug = None <=> row.slugId = None)
    BY DEF RowOK
  <1>2. /\ DOMAIN new = RowFields
        /\ \A f \in RowFields : new[f] = IF seen # None /\ f \in SlugFields THEN made[f]
                                         ELSE IF f \in DOMAIN data THEN data[f] ELSE row[f]
    BY <1>1, WrittenFields
  <1>3. DOMAIN data \subseteq UpdateFields \ SlugFields
    BY DEF DataOK, UpdateFields, NameFields, SlugFields
  <1>4. /\ new.email = row.email /\ new.provider = row.provider
        /\ new.by = row.by /\ new.gone = row.gone
    BY <1>2, <1>3 DEF RowFields, SlugFields, UpdateFields, NameFields
  <1>5. /\ new.firstName \in Names \union {None} /\ new.lastName \in Names \union {None}
        /\ new.companyName \in Names \union {None} /\ new.phoneNumber \in Strings
        /\ new.userType \in Strings \union {None} /\ new.licenseId \in Strings \union {None}
        /\ new.isEmailVerified \in BOOLEAN
    BY <1>1, <1>2 DEF DataOK, Row, RowFields, SlugFields, NameFields
  <1>6. /\ new.slug \in Slugs \union {None} /\ new.slugId \in SlugIds \union {None}
        /\ new.namedBy \subseteq Calls /\ new.torn \in BOOLEAN
        /\ new.slug = None <=> new.slugId = None
    <2>1. CASE seen = None
      <3>1. /\ new.slug = row.slug /\ new.slugId = row.slugId
            /\ new.namedBy = row.namedBy /\ new.torn = row.torn
        BY <1>2, <1>3, <2>1 DEF RowFields, SlugFields
      <3> QED
        BY <3>1, <1>1 DEF Row
    <2>2. CASE seen # None
      <3>1. /\ new.slug = made.slug /\ new.slugId = made.slugId
            /\ new.namedBy = made.namedBy /\ new.torn = made.torn
        BY <1>2, <2>2 DEF RowFields, SlugFields
      <3> HIDE DEF made
      <3>2. /\ made.slug = seen.slug /\ made.slugId = seen.slugId
            /\ made.namedBy = row.namedBy \union {c} /\ made.torn \in BOOLEAN
            /\ seen.slug \in Slugs /\ seen.slugId \in SlugIds /\ row.namedBy \subseteq Calls
        BY <2>2, <1>1, SlugFieldsTyped DEF made
      <3> QED
        BY <3>1, <3>2, SlugIsThere
    <2> QED
      BY <2>1, <2>2
  <1>7. new = [f \in RowFields |-> new[f]]
    BY <1>1, <1>2 DEF Written
  <1> HIDE DEF new
  <1>8. new \in Row
    BY <1>1, <1>4, <1>5, <1>6, <1>7 DEF Row, RowFields
  <1> QED
    BY <1>6, <1>8 DEF RowOK, new

\* The slug of an update that overlapped no other is made of the names it leaves.
LEMMA WrittenRight ==
  ASSUME NEW row, RowOK(row), SlugRight(row), NEW data, DataOK(data),
         NEW seen \in Seen \union {None}, NEW c \in Calls,
         IF seen = None THEN DOMAIN data \intersect NameFields = {}
         ELSE ReadRight(row, data, seen)
  PROVE  SlugRight(Written(row, data, seen, c))
  <1> DEFINE new == Written(row, data, seen, c)
             made == slugFields(row, seen, c)
  <1>1. row \in Row
    BY DEF RowOK
  <1>2. \A f \in RowFields : new[f] = IF seen # None /\ f \in SlugFields THEN made[f]
                                      ELSE IF f \in DOMAIN data THEN data[f] ELSE row[f]
    BY <1>1, WrittenFields
  <1>3. DOMAIN data \subseteq UpdateFields \ SlugFields
    BY DEF DataOK, UpdateFields, NameFields, SlugFields
  <1>4. \A f \in NameFields : new[f] = Merged(row, data)[f]
    BY <1>2 DEF Merged, NameFields, RowFields, SlugFields
  <1>5. CASE seen = None
    <2>1. new.slug = row.slug /\ new.slugId = row.slugId /\ new.torn = row.torn
      BY <1>2, <1>3, <1>5 DEF RowFields, SlugFields
    <2>2. \A f \in NameFields : new[f] = row[f]
      BY <1>4, <1>5 DEF Merged
    <2>3. generateUserSlug(new, row.slugId) = generateUserSlug(row, row.slugId)
      BY <2>2, SlugOfNames
    <2> HIDE DEF new
    <2> QED
      BY <2>1, <2>3 DEF SlugRight, new
  <1>6. CASE seen # None
    <2>1. new.slug = made.slug /\ new.slugId = made.slugId /\ new.torn = made.torn
      BY <1>2, <1>6 DEF RowFields, SlugFields
    <2> HIDE DEF made
    <2>2. /\ made.slug = seen.slug /\ made.slugId = seen.slugId
          /\ made.torn <=> row.namedBy # seen.namedBy
      BY <1>1, <1>6, SlugFieldsTyped DEF made
    <2>3. /\ parseSlugId(seen.slug) = seen.slugId
          /\ seen.namedBy = row.namedBy =>
                seen.slug = generateUserSlug(Merged(row, data), seen.slugId)
      BY <1>6 DEF ReadRight
    <2>4. generateUserSlug(new, seen.slugId) = generateUserSlug(Merged(row, data), seen.slugId)
      BY <1>4, SlugOfNames
    <2> HIDE DEF new
    <2> QED
      BY <2>1, <2>2, <2>3, <2>4 DEF SlugRight, new
  <1> QED
    BY <1>5, <1>6

-----------------------------------------------------------------------------
(* What every step of a request keeps *)

StorageOK ==
    /\ urls \in [Keys -> {"unissued", "open", "expired"}]
    /\ uploads \in 0..MaxUploads /\ objects \in [Keys -> 0..uploads]

LEMMA KindOfStep ==
  ASSUME TypeOK, NEW c \in Calls, Under(calls[c])
  PROVE  /\ calls[c].op \in Operations[c]
         /\ Kind(c) \in DOMAIN StepsFor /\ calls[c].step \in StepsFor[Kind(c)]
         /\ Kind(c) \in OfUser => User(c) \in Users
         /\ calls[c].step \in {"findByEmail", "create"} => Kind(c) \in {"signUp", "facebookAuth"}
         /\ calls[c].step = "findById" => Kind(c) \in {"updateUserRole", "isProfileComplete"}
         /\ calls[c].step = "read" => Kind(c) = "updateUser"
         /\ calls[c].step = "write" => Kind(c) \in {"updateUserRole", "updateUser"}
         /\ calls[c].step \in {"sign", "store"} =>
                Kind(c) \in {"signUp", "facebookAuth", "updateUserRole"}
         /\ calls[c].step = "mail" => Kind(c) = "signUp"
         /\ calls[c].step \in {"guard", "handler"} => Kind(c) = "createListing"
         /\ calls[c].step \in {"head", "delete"} => Kind(c) = "deleteObject"
  <1>1. CallOK(c, calls[c])
    BY DEF TypeOK
  <1>2. calls[c].op \in Operations[c] /\ calls[c].step \in StepsFor[Kind(c)]
    BY <1>1 DEF CallOK, Under, Kind
  <1>3. Kind(c) \in DOMAIN StepsFor /\ (Kind(c) \in OfUser => User(c) \in Users)
    BY <1>2, OperationsAssumption DEF Kind, User
  <1> QED
    BY <1>2, <1>3 DEF StepsFor

LEMMA CallsKept ==
  ASSUME TypeOK, NEW c \in Calls, Moved(c)
  PROVE  DOMAIN calls' = Calls /\ \A d \in Calls : CallOK(d, calls'[d])
  BY DEF TypeOK, Moved

LEMMA TypesKept ==
  ASSUME TypeOK, NEW c \in Calls, Moved(c), phase = "running",
         DOMAIN rows' = Users, \A u \in Users : rows'[u] # None => RowOK(rows'[u]),
         drawn' \subseteq Draws, StorageOK', UNCHANGED <<production, lifecycle>>
  PROVE  TypeOK'
  <1>1. DOMAIN calls' = Calls /\ \A d \in Calls : CallOK(d, calls'[d])
    BY CallsKept
  <1> QED
    BY <1>1 DEF TypeOK, StorageOK, lifecycle

\* A step of a request that leaves the table of users alone.
LEMMA QuietStep ==
  ASSUME Inv, NEW c \in Calls, Under(calls[c]), Moved(c), phase = "running",
         calls[c].step \in Settled => calls'[c].step \in Settled,
         drawn' \subseteq Draws, StorageOK', UNCHANGED <<rows, production, lifecycle>>,
         Kind(c) \in OfUser => PendingRight(calls'[c], rows[User(c)])
  PROVE  Inv'
  <1>1. TypeOK'
    BY TypesKept DEF Inv, TypeOK
  <1>2. Pending'
    <2> SUFFICES ASSUME NEW d \in Calls, Under(calls'[d]), calls'[d].op.kind \in OfUser
                 PROVE  /\ rows[calls'[d].op.user] # None
                        /\ PendingRight(calls'[d], rows[calls'[d].op.user])
      BY DEF Pending, Under, PendingRight, ReadRight
    <2>1. CASE d = c
      BY <2>1 DEF Inv, Pending, Moved, Kind, User
    <2>2. CASE d # c
      BY <2>2 DEF Inv, Pending, Moved
    <2> QED
      BY <2>1, <2>2
  <1>3. NamedOnce'
    BY DEF Inv, NamedOnce, Moved, Under
  <1>4. SlugCurrent'
    BY DEF Inv, SlugCurrent
  <1> QED
    BY <1>1, <1>2, <1>3, <1>4 DEF Inv

\* A step that ends a request and leaves the table alone.
LEMMA EndStep ==
  ASSUME Inv, NEW c \in Calls, Under(calls[c]), phase = "running",
         \E answer \in Answer : End(c, answer) \/ Lose(c, answer),
         drawn' \subseteq Draws, StorageOK', UNCHANGED <<rows, production, lifecycle>>
  PROVE  Inv'
  <1>1. Moved(c) /\ calls'[c].step = "ended"
    BY Ends DEF Inv
  <1> QED
    BY <1>1, QuietStep DEF PendingRight, Settled

\* A step that takes a request further, but not to the write, and leaves the table.
LEMMA ProceedStep ==
  ASSUME Inv, NEW c \in Calls, Under(calls[c]), phase = "running",
         NEW step \in StepsFor[Kind(c)], NEW seen, Proceed(c, step, seen),
         step = "write" => seen = None /\ (~shouldRegenerateSlug(calls[c].op.data)
                                             \/ rows[User(c)].gone),
         calls[c].step \in Settled => step \in Settled,
         drawn' \subseteq Draws, StorageOK', UNCHANGED <<rows, production, lifecycle>>
  PROVE  Inv'
  <1>1. Moved(c) /\ calls'[c].step = step /\ calls'[c].seen = seen
    BY Proceeds DEF Inv, Kind
  <1>2. calls'[c].op = calls[c].op
    BY <1>1 DEF Moved
  <1> QED
    BY <1>1, <1>2, QuietStep DEF PendingRight

-----------------------------------------------------------------------------
(* The steps of requests for users *)

LEMMA FindByEmailStep ==
  ASSUME Inv, NEW c \in Calls, phase = "running", findByEmail(c), UNCHANGED <<storage, lifecycle>>
  PROVE  Inv'
  <1>1. /\ calls[c].step = "findByEmail" /\ Under(calls[c])
        /\ UNCHANGED <<rows, drawn, production>>
    BY DEF findByEmail, Under
  <1>2. Kind(c) \in {"signUp", "facebookAuth"} /\ "create" \in StepsFor[Kind(c)]
    BY <1>1, KindOfStep DEF Inv, StepsFor
  <1>3. drawn' \subseteq Draws /\ StorageOK' /\ production \in BOOLEAN
    BY <1>1 DEF Inv, TypeOK, StorageOK, storage
  <1>4. CASE \E step \in {"create", "sign"} : \E seen : Proceed(c, step, seen)
    <2>1. PICK step \in {"create", "sign"} : \E seen : Proceed(c, step, seen)
      BY <1>4
    <2>2. step \in StepsFor[Kind(c)] /\ step # "write"
      BY <1>2, <2>1 DEF StepsFor
    <2> QED
      BY <1>1, <1>3, <2>1, <2>2, ProceedStep DEF Settled
  <1>5. CASE End(c, AnswerOf(c, "BadRequest"))
    <2>1. AnswerOf(c, "BadRequest") \in Answer
      BY <1>3, AnswersTyped, ErrorsNamed
    <2> QED
      BY <1>1, <1>3, <1>5, <2>1, EndStep
  <1>6. CASE calls' = [calls EXCEPT ![c].step = "create", ![c].failed = TRUE]
    <2>1. CallOK(c, calls[c]) /\ DOMAIN calls = Calls
      BY DEF Inv, TypeOK
    <2>2. /\ calls[c].op \in Operations[c] /\ calls[c].answer = None
          /\ Kind(c) = calls[c].op.kind
      BY <1>1, <2>1 DEF CallOK, Kind
    <2>3. /\ DOMAIN calls' = Calls /\ \A d \in Calls \ {c} : calls'[d] = calls[d]
          /\ calls'[c] = [calls[c] EXCEPT !.step = "create", !.failed = TRUE]
      BY <1>6, <2>1
    <2>4. /\ DOMAIN calls'[c] = DOMAIN Idle
          /\ calls'[c].step = "create" /\ calls'[c].op = calls[c].op
          /\ calls'[c].answer = calls[c].answer /\ calls'[c].failed = TRUE
      BY <2>1, <2>3 DEF CallOK, Idle
    <2>5. Moved(c)
      BY <1>2, <2>2, <2>3, <2>4 DEF Moved, CallOK
    <2> QED
      BY <1>1, <1>2, <1>3, <2>4, <2>5, QuietStep DEF PendingRight, Settled
  <1> QED
    BY <1>4, <1>5, <1>6 DEF findByEmail

LEMMA TokensStep ==
  ASSUME Inv, NEW c \in Calls, phase = "running", UNCHANGED <<storage, lifecycle>>,
         createToken(c) \/ updateRefreshToken(c) \/ sendVerificationEmail(c)
  PROVE  Inv'
  <1>1. /\ calls[c].step \in {"sign", "store", "mail"} /\ Under(calls[c])
        /\ UNCHANGED <<rows, drawn, production>>
    BY DEF createToken, updateRefreshToken, sendVerificationEmail, Under
  <1>2. drawn' \subseteq Draws /\ StorageOK' /\ production \in BOOLEAN
    BY <1>1 DEF Inv, TypeOK, StorageOK, storage
  <1>3. CASE calls[c].step = "sign" /\ \E seen : Proceed(c, "store", seen)
    <2>1. "store" \in StepsFor[Kind(c)]
      BY <1>1, <1>3, KindOfStep DEF Inv, StepsFor
    <2> QED
      BY <1>1, <1>2, <1>3, <2>1, ProceedStep DEF Settled
  <1>4. CASE Kind(c) = "signUp" /\ \E seen : Proceed(c, "mail", seen)
    <2>1. "mail" \in StepsFor[Kind(c)]
      BY <1>4 DEF StepsFor
    <2> QED
      BY <1>1, <1>2, <1>4, <2>1, ProceedStep DEF Settled
  <1>5. CASE Return(c) \/ (\E error \in {"ZodError", "P2025"} : Throw(c, error))
                \/ \E error \in Failures \union {"Conflict", "Error"} :
                        Lose(c, Caught(intercept(error)))
    <2>1. \A error \in Failures \union {"Conflict", "Error", "ZodError", "P2025"} :
                Caught(intercept(error)) \in Answer
      BY <1>2, AnswersTyped, ErrorsNamed
    <2>2. \E answer \in Answer : End(c, answer) \/ Lose(c, answer)
      BY <1>5, <2>1, SuccessTyped DEF Return, Throw
    <2> QED
      BY <1>1, <1>2, <2>2, EndStep
  <1> QED
    BY <1>3, <1>4, <1>5 DEF createToken, updateRefreshToken, sendVerificationEmail

LEMMA FindByIdStep ==
  ASSUME Inv, NEW c \in Calls, phase = "running", findById(c), UNCHANGED <<storage, lifecycle>>
  PROVE  Inv'
  <1>1. /\ calls[c].step = "findById" /\ Under(calls[c])
        /\ UNCHANGED <<rows, drawn, production>>
    BY DEF findById, Under
  <1>2. drawn' \subseteq Draws /\ StorageOK' /\ production \in BOOLEAN
    BY <1>1 DEF Inv, TypeOK, StorageOK, storage
  <1>3. CASE Kind(c) = "updateUserRole" /\ Proceed(c, "write", None)
    <2>1. "write" \in StepsFor[Kind(c)]
      BY <1>3 DEF StepsFor
    <2>2. ~shouldRegenerateSlug(calls[c].op.data)
      BY <1>1, <1>3, KindOfStep, OperationsAssumption DEF Inv, Kind
    <2> QED
      BY <1>1, <1>2, <1>3, <2>1, <2>2, ProceedStep DEF Settled
  <1>4. CASE Return(c) \/ Throw(c, "ZodError")
                \/ \E error \in Failures : Lose(c, Caught(intercept(error)))
    <2>1. \A error \in Failures \union {"ZodError"} : Caught(intercept(error)) \in Answer
      BY <1>2, AnswersTyped, ErrorsNamed
    <2>2. \E answer \in Answer : End(c, answer) \/ Lose(c, answer)
      BY <1>4, <2>1, SuccessTyped DEF Return, Throw
    <2> QED
      BY <1>1, <1>2, <2>2, EndStep
  <1> QED
    BY <1>3, <1>4 DEF findById

LEMMA GuardStep ==
  ASSUME Inv, NEW c \in Calls, phase = "running", UNCHANGED <<storage, lifecycle>>,
         UserProfileCompleteGuard(c) \/ createListing(c)
  PROVE  Inv'
  <1>1. /\ calls[c].step \in {"guard", "handler"} /\ Under(calls[c])
        /\ UNCHANGED <<rows, drawn, production>>
    BY DEF UserProfileCompleteGuard, createListing, Under
  <1>2. drawn' \subseteq Draws /\ StorageOK' /\ production \in BOOLEAN
    BY <1>1 DEF Inv, TypeOK, StorageOK, storage
  <1>3. CASE \E seen : Proceed(c, "handler", seen)
    <2>1. "handler" \in StepsFor[Kind(c)]
      BY <1>1, KindOfStep DEF Inv, StepsFor
    <2> QED
      BY <1>1, <1>2, <1>3, <2>1, ProceedStep DEF Settled
  <1>4. CASE Return(c) \/ (\E error \in {"Forbidden", "ZodError"} : ThrowFromGuard(c, error))
                \/ \E error \in Failures : Lose(c, Caught(error))
    <2>1. \A error \in Failures \union {"Forbidden", "ZodError"} : Caught(error) \in Answer
      BY <1>2, AnswersTyped, ErrorsNamed
    <2>2. \E answer \in Answer : End(c, answer) \/ Lose(c, answer)
      BY <1>4, <2>1, SuccessTyped DEF Return, ThrowFromGuard
    <2> QED
      BY <1>1, <1>2, <2>2, EndStep
  <1> QED
    BY <1>3, <1>4 DEF UserProfileCompleteGuard, createListing

\* What the read of an update makes of the row is right for the row.
LEMMA ReadMakesRight ==
  ASSUME NEW row, RowOK(row), SlugRight(row), NEW data, DataOK(data),
         NEW draw, draw \in Draws \/ row.slugId # None,
         NEW seen,
         seen = [slug |-> generateUserSlug(Merged(row, data), slugIdFor(row, draw)),
                 slugId |-> slugIdFor(row, draw), namedBy |-> row.namedBy]
  PROVE  ReadRight(row, data, seen)
  <1>1. row \in Row /\ (row.slug = None <=> row.slugId = None)
    BY DEF RowOK
  <1>2. slugIdFor(row, draw) \in SlugIds /\ (row.slugId # None => slugIdFor(row, draw) = row.slugId)
    BY <1>1, FreshTyped DEF slugIdFor, Row
  <1> DEFINE slugId == slugIdFor(row, draw)
             slug == generateUserSlug(Merged(row, data), slugId)
  <1> HIDE DEF slugId
  <1>3. slugId \in SlugIds /\ (row.slugId # None => slugId = row.slugId)
    BY <1>2 DEF slugId
  <1>4. slug \in Slugs /\ parseSlugId(slug) = slugId
    BY <1>1, <1>3, MergedNames, SlugMade
  <1> HIDE DEF slug
  <1>5. seen = [slug |-> slug, slugId |-> slugId, namedBy |-> row.namedBy]
    BY DEF slug, slugId
  <1>6. seen.slug = slug /\ seen.slugId = slugId /\ seen.namedBy = row.namedBy
    BY <1>5
  <1>7. seen \in Seen
    BY <1>1, <1>3, <1>4, <1>5 DEF Seen, Row
  <1> QED
    BY <1>3, <1>4, <1>6, <1>7 DEF ReadRight, slug

LEMMA ReadStep ==
  ASSUME Inv, NEW c \in Calls, phase = "running", generateSlugForUser(c),
         UNCHANGED <<storage, lifecycle>>
  PROVE  Inv'
  <1> DEFINE row == rows[User(c)]
             data == parsed(calls[c].op.data)
  <1>1. calls[c].step = "read" /\ Under(calls[c]) /\ UNCHANGED <<rows, production>>
    BY DEF generateSlugForUser, Under
  <1>2. StorageOK' /\ production \in BOOLEAN /\ drawn \subseteq Draws
    BY <1>1 DEF Inv, TypeOK, StorageOK, storage
  <1>3. Kind(c) = "updateUser" /\ User(c) \in Users /\ calls[c].op \in Operations[c]
    BY <1>1, KindOfStep DEF Inv, OfUser
  <1>4. "write" \in StepsFor[Kind(c)]
    BY <1>3 DEF StepsFor
  <1>5. row # None /\ RowOK(row) /\ SlugRight(row)
    BY <1>1, <1>3 DEF Inv, TypeOK, SlugCurrent, Pending, OfUser, Kind, User
  <1>6. DataOK(data)
    BY <1>3, DataTyped DEF Kind
  <1>7. CASE ~Exists(User(c)) /\ Proceed(c, "write", None) /\ UNCHANGED drawn
    <2>1. row.gone
      BY <1>5, <1>7 DEF Exists
    <2> QED
      BY <1>1, <1>2, <1>4, <1>7, <2>1, ProceedStep DEF Settled
  <1>8. ASSUME NEW draw \in IF row.slugId # None THEN {None} ELSE Draws \ drawn,
               Proceed(c, "write", [slug |-> generateUserSlug(Merged(row, data), slugIdFor(row, draw)),
                                    slugId |-> slugIdFor(row, draw), namedBy |-> row.namedBy]),
               drawn' = drawn \union ({draw} \ {None})
        PROVE  Inv'
    <2>1. draw \in Draws \union {None}
      BY <1>8
    <2>2. draw \in Draws \/ row.slugId # None
      BY <1>8
    <2> DEFINE seen == [slug |-> generateUserSlug(Merged(row, data), slugIdFor(row, draw)),
                        slugId |-> slugIdFor(row, draw), namedBy |-> row.namedBy]
    <2>3. ReadRight(row, data, seen)
      BY <1>5, <1>6, <2>2, ReadMakesRight
    <2> HIDE DEF seen
    <2>4. Proceed(c, "write", seen)
      BY <1>8 DEF seen
    <2>5. Moved(c) /\ calls'[c].step = "write" /\ calls'[c].seen = seen
      BY <1>1, <1>4, <2>4, Proceeds DEF Inv, Kind
    <2>6. calls'[c].op = calls[c].op
      BY <2>5 DEF Moved
    <2>7. PendingRight(calls'[c], row)
      BY <2>3, <2>5, <2>6, SlugIsThere DEF PendingRight, ReadRight
    <2>8. drawn' \subseteq Draws
      BY <1>2, <1>8, <2>1
    <2> QED
      BY <1>1, <1>2, <2>5, <2>7, <2>8, QuietStep DEF Settled
  <1>9. CASE (\E error \in Failures : Lose(c, Caught(intercept(error)))) /\ UNCHANGED drawn
    <2>1. \A error \in Failures : Caught(intercept(error)) \in Answer
      BY <1>2, AnswersTyped, ErrorsNamed
    <2> QED
      BY <1>1, <1>2, <1>9, <2>1, EndStep
  <1> QED
    BY <1>7, <1>8, <1>9 DEF generateSlugForUser

\* A row changes and a request with it; others find what they have read still right.
LEMMA RowStep ==
  ASSUME Inv, NEW c \in Calls, Under(calls[c]), phase = "running",
         Moved(c), calls'[c].step \in Settled,
         UNCHANGED <<drawn, production, storage, lifecycle>>,
         DOMAIN rows' = Users,
         \A u \in Users : rows'[u] # None =>
            /\ RowOK(rows'[u]) /\ SlugRight(rows'[u])
            /\ rows'[u].namedBy \subseteq {c} \union IF rows[u] = None THEN {} ELSE rows[u].namedBy,
         \A u \in Users : rows[u] # None => rows'[u] # None,
         \A d \in Calls \ {c} : Under(calls[d]) /\ Kind(d) \in OfUser =>
            PendingRight(calls[d], rows'[User(d)])
  PROVE  Inv'
  <1>1. StorageOK' /\ drawn' \subseteq Draws
    BY DEF Inv, TypeOK, StorageOK, storage
  <1>2. TypeOK'
    BY <1>1, TypesKept DEF Inv
  <1>3. Pending'
    <2> SUFFICES ASSUME NEW d \in Calls, Under(calls'[d]), calls'[d].op.kind \in OfUser
                 PROVE  /\ rows'[calls'[d].op.user] # None
                        /\ PendingRight(calls'[d], rows'[calls'[d].op.user])
      BY DEF Pending, Under, PendingRight, ReadRight
    <2>1. Under(calls[d]) /\ Kind(d) \in OfUser /\ calls'[d].op = calls[d].op
      BY DEF Moved, Kind
    <2>2. User(d) \in Users /\ rows[User(d)] # None
      BY <2>1, KindOfStep DEF Inv, Pending, Kind, User
    <2>3. CASE d = c
      BY <2>1, <2>2, <2>3 DEF PendingRight, Settled, User
    <2>4. CASE d # c
      BY <2>1, <2>2, <2>4 DEF Moved, User
    <2> QED
      BY <2>3, <2>4
  <1>4. NamedOnce'
    <2> SUFFICES ASSUME NEW u \in Users, NEW d \in Calls, rows'[u] # None, d \in rows'[u].namedBy
                 PROVE  calls'[d].step \in Settled
      BY DEF NamedOnce
    <2>1. CASE d = c
      BY <2>1
    <2>2. CASE d # c
      <3>1. rows[u] # None /\ d \in rows[u].namedBy
        BY <2>2
      <3> QED
        BY <2>2, <3>1 DEF Inv, NamedOnce, Moved
    <2> QED
      BY <2>1, <2>2
  <1>5. SlugCurrent'
    BY DEF SlugCurrent, SlugRight, generateUserSlug, parseSlugId
  <1> QED
    BY <1>2, <1>3, <1>4, <1>5 DEF Inv

LEMMA CreateStep ==
  ASSUME Inv, NEW c \in Calls, phase = "running", createUser(c), UNCHANGED <<storage, lifecycle>>
  PROVE  Inv'
  <1>1. calls[c].step = "create" /\ Under(calls[c]) /\ UNCHANGED <<drawn, production>>
    BY DEF createUser, Under
  <1>2. drawn' \subseteq Draws /\ StorageOK' /\ production \in BOOLEAN
    BY <1>1 DEF Inv, TypeOK, StorageOK, storage
  <1>3. \A error \in Failures \union {"P2002"} : AnswerOf(c, error) \in Answer
    BY <1>2, AnswersTyped, ErrorsNamed
  <1>4. ASSUME \E error \in Failures \union {"P2002"} :
                End(c, AnswerOf(c, error)) \/ Lose(c, AnswerOf(c, error))
        PROVE  /\ Moved(c) /\ calls'[c].step \in Settled
               /\ UNCHANGED rows => Inv'
    <2>1. \E answer \in Answer : End(c, answer) \/ Lose(c, answer)
      BY <1>3, <1>4
    <2>2. Moved(c) /\ calls'[c].step \in Settled
      BY <1>1, <2>1, Ends DEF Inv, Settled
    <2>3. UNCHANGED rows => Inv'
      BY <1>1, <1>2, <2>1, EndStep
    <2> QED
      BY <2>2, <2>3
  <1>5. ASSUME \E u \in Users : Proceed(c, "sign", u)
        PROVE  Moved(c) /\ calls'[c].step \in Settled
    <2>1. "sign" \in StepsFor[Kind(c)]
      BY <1>1, KindOfStep DEF Inv, StepsFor
    <2> QED
      BY <1>1, <1>5, <2>1, Proceeds DEF Inv, Settled, Kind
  <1>6. ASSUME NEW u \in Users, NEW provider \in {"facebook", "local"}, rows[u] = None,
               rows' = [rows EXCEPT ![u] = NewRow(calls[c].op.email, provider, c)]
        PROVE  Moved(c) /\ calls'[c].step \in Settled => Inv'
    <2> DEFINE new == NewRow(calls[c].op.email, provider, c)
    <2>1. calls[c].op.email \in Strings
      BY <1>1, KindOfStep, OperationsAssumption DEF Inv, Kind
    <2>2. new \in Row /\ new.slug = None /\ new.slugId = None /\ new.namedBy = {}
      BY <2>1, NamesAssumption DEF NewRow, Row
    <2> HIDE DEF new
    <2>3. RowOK(new) /\ SlugRight(new)
      BY <2>2 DEF RowOK, SlugRight
    <2>4. DOMAIN rows' = Users /\ rows'[u] = new /\ \A v \in Users \ {u} : rows'[v] = rows[v]
      BY <1>6 DEF Inv, TypeOK, new
    <2>5. \A v \in Users : rows[v] # None => rows'[v] # None
      BY <1>6, <2>4
    <2>6. \A v \in Users : rows'[v] # None =>
            /\ RowOK(rows'[v]) /\ SlugRight(rows'[v])
            /\ rows'[v].namedBy \subseteq {c} \union IF rows[v] = None THEN {} ELSE rows[v].namedBy
      BY <1>6, <2>2, <2>3, <2>4 DEF Inv, TypeOK, SlugCurrent
    <2>7. ASSUME NEW d \in Calls \ {c}, Under(calls[d]), Kind(d) \in OfUser
          PROVE  PendingRight(calls[d], rows'[User(d)])
      <3>1. User(d) \in Users /\ rows[User(d)] # None /\ PendingRight(calls[d], rows[User(d)])
        BY <2>7, KindOfStep DEF Inv, Pending, Kind, User
      <3> QED
        BY <1>6, <2>4, <3>1
    <2> QED
      BY <1>1, <2>4, <2>5, <2>6, <2>7, RowStep
  <1>7. \/ UNCHANGED rows /\ \E error \in Failures \union {"P2002"} :
                End(c, AnswerOf(c, error)) \/ Lose(c, AnswerOf(c, error))
        \/ /\ \E u \in Users, provider \in {"facebook", "local"} :
                rows[u] = None /\ rows' = [rows EXCEPT ![u] = NewRow(calls[c].op.email, provider, c)]
           /\ \/ \E error \in Failures : Lose(c, AnswerOf(c, error))
              \/ \E u \in Users : Proceed(c, "sign", u)
    BY DEF createUser
  <1>8. CASE UNCHANGED rows /\ \E error \in Failures \union {"P2002"} :
                End(c, AnswerOf(c, error)) \/ Lose(c, AnswerOf(c, error))
    BY <1>4, <1>8
  <1>9. Moved(c) /\ calls'[c].step \in Settled
    BY <1>4, <1>5, <1>7
  <1> QED
    BY <1>6, <1>7, <1>8, <1>9

\* What another request has read stays right when an update is written.
LEMMA OthersStayRight ==
  ASSUME NEW row, RowOK(row), NEW data, DataOK(data), NEW seen \in Seen \union {None},
         NEW c \in Calls, c \notin row.namedBy,
         seen = None => DOMAIN data \intersect NameFields = {},
         NEW call, PendingRight(call, row)
  PROVE  PendingRight(call, Written(row, data, seen, c))
  <1> DEFINE new == Written(row, data, seen, c)
             made == slugFields(row, seen, c)
  <1>1. row \in Row
    BY DEF RowOK
  <1>2. \A f \in RowFields : new[f] = IF seen # None /\ f \in SlugFields THEN made[f]
                                      ELSE IF f \in DOMAIN data THEN data[f] ELSE row[f]
    BY <1>1, WrittenFields
  <1>3. DOMAIN data \subseteq UpdateFields \ SlugFields
    BY DEF DataOK, UpdateFields, NameFields, SlugFields
  <1>4. new.gone = row.gone
    BY <1>2, <1>3 DEF RowFields, SlugFields, UpdateFields, NameFields
  <1>5. CASE seen = None
    <2>1. /\ new.slugId = row.slugId /\ new.namedBy = row.namedBy
          /\ \A f \in NameFields : new[f] = row[f]
      BY <1>2, <1>3, <1>5 DEF RowFields, SlugFields, NameFields
    <2> HIDE DEF new
    <2>2. \A d : Merged(new, d) = Merged(row, d)
      BY <2>1 DEF Merged
    <2> QED
      BY <1>4, <2>1, <2>2 DEF PendingRight, ReadRight, new
  <1>6. CASE seen # None
    <2>1. new.namedBy = made.namedBy
      BY <1>2, <1>6 DEF RowFields, SlugFields
    <2> HIDE DEF new, made
    <2>2. made.namedBy = row.namedBy \union {c}
      BY <1>1, <1>6, SlugFieldsTyped DEF made
    <2> QED
      BY <1>4, <2>1, <2>2 DEF PendingRight, ReadRight, new
  <1> QED
    BY <1>5, <1>6

LEMMA UpdateStep ==
  ASSUME Inv, NEW c \in Calls, phase = "running", update(c), UNCHANGED <<storage, lifecycle>>
  PROVE  Inv'
  <1> DEFINE u == User(c)
             row == rows[u]
             data == parsed(calls[c].op.data)
             seen == calls[c].seen
             new == Written(row, data, seen, c)
  <1>1. calls[c].step = "write" /\ Under(calls[c]) /\ UNCHANGED <<drawn, production>>
    BY DEF update, Under
  <1>2. drawn' \subseteq Draws /\ StorageOK' /\ production \in BOOLEAN
    BY <1>1 DEF Inv, TypeOK, StorageOK, storage
  <1>3. \A error \in Failures \union {"P2025"} : Caught(intercept(error)) \in Answer
    BY <1>2, AnswersTyped, ErrorsNamed
  <1>4. \/ \E answer \in Answer : End(c, answer) \/ Lose(c, answer)
        \/ Exists(u) /\ Kind(c) = "updateUserRole" /\ Proceed(c, "sign", u)
    BY <1>3, SuccessTyped DEF update, Return, Throw
  <1>5. CASE UNCHANGED rows /\ \E answer \in Answer : End(c, answer) \/ Lose(c, answer)
    BY <1>1, <1>2, <1>5, EndStep
  <1>6. CASE Exists(u) /\ rows' = [rows EXCEPT ![u] = new]
    <2>1. Kind(c) \in {"updateUserRole", "updateUser"} /\ u \in Users /\ calls[c].op \in Operations[c]
      BY <1>1, KindOfStep DEF Inv, OfUser
    <2>2. row # None /\ ~row.gone /\ RowOK(row) /\ SlugRight(row)
      BY <1>6, <2>1 DEF Exists, Inv, TypeOK, SlugCurrent
    <2>3. DataOK(data)
      BY <2>1, DataTyped DEF Kind
    <2>4. PendingRight(calls[c], row)
      BY <1>1, <2>1 DEF Inv, Pending, OfUser, Kind, User
    <2>5. IF seen = None THEN DOMAIN data \intersect NameFields = {} ELSE ReadRight(row, data, seen)
      BY <1>1, <2>2, <2>4 DEF PendingRight, shouldRegenerateSlug
    <2>6. seen \in Seen \union {None}
      BY <2>5 DEF ReadRight
    <2>7. c \notin row.namedBy
      BY <1>1, <2>1, <2>2 DEF Inv, NamedOnce, Settled
    <2>8. RowOK(new) /\ SlugRight(new) /\ new # None
      BY <2>2, <2>3, <2>5, <2>6, WrittenTyped, WrittenRight, SlugIsThere DEF RowOK
    <2>9. new.namedBy \subseteq row.namedBy \union {c}
      <3>1. row \in Row
        BY <2>2 DEF RowOK
      <3>2. new.namedBy = IF seen # None THEN slugFields(row, seen, c).namedBy ELSE row.namedBy
        BY <2>3, <3>1, WrittenFields DEF RowFields, SlugFields, DataOK, UpdateFields, NameFields
      <3> HIDE DEF new, row, seen
      <3> QED
        BY <2>6, <3>1, <3>2, SlugFieldsTyped
    <2>10. \A call : PendingRight(call, row) => PendingRight(call, new)
      BY <2>2, <2>3, <2>5, <2>6, <2>7, OthersStayRight
    <2> HIDE DEF new, data, seen
    <2>11. DOMAIN rows' = Users /\ rows'[u] = new /\ \A v \in Users \ {u} : rows'[v] = rows[v]
      BY <1>6, <2>1 DEF Inv, TypeOK
    <2>12. \A v \in Users : rows'[v] # None =>
            /\ RowOK(rows'[v]) /\ SlugRight(rows'[v])
            /\ rows'[v].namedBy \subseteq {c} \union IF rows[v] = None THEN {} ELSE rows[v].namedBy
      BY <2>2, <2>8, <2>9, <2>11 DEF Inv, TypeOK, SlugCurrent
    <2>13. \A v \in Users : rows[v] # None => rows'[v] # None
      BY <2>8, <2>11
    <2>14. ASSUME NEW d \in Calls \ {c}, Under(calls[d]), Kind(d) \in OfUser
           PROVE  PendingRight(calls[d], rows'[User(d)])
      <3>1. User(d) \in Users /\ PendingRight(calls[d], rows[User(d)])
        BY <2>14, KindOfStep DEF Inv, Pending, Kind, User
      <3> QED
        BY <2>10, <2>11, <3>1
    <2>15. Moved(c) /\ calls'[c].step \in Settled
      <3>1. CASE \E answer \in Answer : End(c, answer) \/ Lose(c, answer)
        BY <1>1, <3>1, Ends DEF Inv, Settled
      <3>2. CASE Kind(c) = "updateUserRole" /\ Proceed(c, "sign", u)
        <4>1. "sign" \in StepsFor[Kind(c)]
          BY <3>2 DEF StepsFor
        <4> QED
          BY <1>1, <3>2, <4>1, Proceeds DEF Inv, Settled, Kind
      <3> QED
        BY <1>4, <3>1, <3>2
    <2> QED
      BY <1>1, <2>11, <2>12, <2>13, <2>14, <2>15, RowStep
  <1>7. \/ UNCHANGED rows /\ \E answer \in Answer : End(c, answer) \/ Lose(c, answer)
        \/ Exists(u) /\ rows' = [rows EXCEPT ![u] = new]
    BY <1>3 DEF update, Throw
  <1> QED
    BY <1>5, <1>6, <1>7

LEMMA RemoveStep ==
  ASSUME Inv, NEW u \in Users, RemoveUser(u), UNCHANGED <<storage, lifecycle>>
  PROVE  Inv'
  <1> DEFINE new == [rows[u] EXCEPT !.gone = TRUE]
  <1>1. rows[u] # None /\ RowOK(rows[u]) /\ SlugRight(rows[u])
    BY DEF RemoveUser, Exists, Inv, TypeOK, SlugCurrent
  <1>2. DOMAIN rows' = Users /\ rows'[u] = new /\ \A v \in Users \ {u} : rows'[v] = rows[v]
    BY DEF RemoveUser, Inv, TypeOK
  <1>3. new \in Row /\ new.gone = TRUE /\ \A f \in RowFields \ {"gone"} : new[f] = rows[u][f]
    BY <1>1 DEF RowOK, Row, RowFields
  <1> HIDE DEF new
  <1>4. /\ new.slug = rows[u].slug /\ new.slugId = rows[u].slugId /\ new.torn = rows[u].torn
        /\ new.namedBy = rows[u].namedBy /\ \A f \in NameFields : new[f] = rows[u][f]
    BY <1>3 DEF RowFields, NameFields
  <1>5. RowOK(new) /\ new # None
    BY <1>1, <1>3, <1>4, SlugIsThere DEF RowOK
  <1>6. SlugRight(new)
    BY <1>1, <1>4, SlugOfNames DEF SlugRight
  <1>7. UNCHANGED <<calls, drawn, production, storage, lifecycle>>
    BY DEF RemoveUser
  <1>8. \A v \in Users : rows'[v] # None => RowOK(rows'[v]) /\ SlugRight(rows'[v])
    BY <1>2, <1>5, <1>6 DEF Inv, TypeOK, SlugCurrent
  <1>9. TypeOK'
    BY <1>2, <1>7, <1>8 DEF Inv, TypeOK, storage, lifecycle, InHand
  <1>10. \A d : Merged(new, d) = Merged(rows[u], d)
    BY <1>4 DEF Merged
  <1>11. \A call : PendingRight(call, rows[u]) => PendingRight(call, new)
    BY <1>3, <1>4, <1>10 DEF PendingRight, ReadRight
  <1>12. Pending'
    <2> SUFFICES ASSUME NEW d \in Calls, Under(calls[d]), calls[d].op.kind \in OfUser
                 PROVE  /\ rows'[calls[d].op.user] # None
                        /\ PendingRight(calls[d], rows'[calls[d].op.user])
      BY <1>7 DEF Pending, Under, PendingRight, ReadRight
    <2>1. User(d) \in Users /\ rows[User(d)] # None /\ PendingRight(calls[d], rows[User(d)])
      BY KindOfStep DEF Inv, Pending, Kind, User
    <2> QED
      BY <1>2, <1>5, <1>11, <2>1 DEF User
  <1>13. NamedOnce'
    BY <1>1, <1>2, <1>4, <1>7 DEF Inv, NamedOnce
  <1>14. SlugCurrent'
    BY <1>8 DEF SlugCurrent, SlugRight, generateUserSlug, parseSlugId
  <1> QED
    BY <1>9, <1>12, <1>13, <1>14 DEF Inv

-----------------------------------------------------------------------------
(* Objects, arrivals and the process *)

LEMMA StorageStepInv ==
  ASSUME Inv, NEW c \in Calls, phase = "running", StorageStep(c), UNCHANGED <<profile, lifecycle>>
  PROVE  Inv'
  <1>1. /\ calls[c].step \in {"presign", "head", "delete"} /\ Under(calls[c])
        /\ UNCHANGED production
    BY DEF StorageStep, generatePresignedUrl, objectExists, deleteObject, Under
  <1>2. UNCHANGED <<rows, drawn>> /\ drawn' \subseteq Draws /\ production \in BOOLEAN
    BY DEF Inv, TypeOK, profile
  <1>3. /\ Caught(intercept("Error")) \in Answer
        /\ [status |-> 200, reported |-> FALSE] \in Answer
    BY <1>2, AnswersTyped, ErrorsNamed, SuccessTyped
  <1>4. CASE generatePresignedUrl(c)
    <2>1. StorageOK'
      BY <1>4 DEF generatePresignedUrl, StorageOK, Inv, TypeOK
    <2>2. \E answer \in Answer : End(c, answer) \/ Lose(c, answer)
      BY <1>3, <1>4 DEF generatePresignedUrl, Return
    <2> QED
      BY <1>1, <1>2, <2>1, <2>2, EndStep
  <1>5. CASE objectExists(c)
    <2>1. StorageOK'
      BY <1>5 DEF objectExists, StorageOK, Inv, TypeOK, storage
    <2>2. CASE \E answer \in Answer : End(c, answer) \/ Lose(c, answer)
      BY <1>1, <1>2, <2>1, <2>2, EndStep
    <2>3. CASE Proceed(c, "delete", calls[c].seen)
      <3>1. "delete" \in StepsFor[Kind(c)]
        BY <1>5, <1>1, KindOfStep DEF objectExists, Inv, StepsFor
      <3> QED
        BY <1>1, <1>2, <2>1, <2>3, <3>1, ProceedStep DEF Settled
    <2> QED
      BY <1>3, <1>5, <2>2, <2>3 DEF objectExists, Return
  <1>6. CASE deleteObject(c)
    <2>1. calls[c].op.key \in Keys
      BY <1>1, <1>6, KindOfStep, OperationsAssumption DEF Inv, deleteObject, Kind
    <2>2. StorageOK'
      BY <1>6, <2>1, StorageAssumption DEF deleteObject, StorageOK, Inv, TypeOK
    <2>3. \E answer \in Answer : End(c, answer) \/ Lose(c, answer)
      BY <1>3, <1>6 DEF deleteObject, Return
    <2> QED
      BY <1>1, <1>2, <2>2, <2>3, EndStep
  <1> QED
    BY <1>4, <1>5, <1>6 DEF StorageStep

LEMMA ProfileStepInv ==
  ASSUME Inv, NEW c \in Calls, phase = "running", ProfileStep(c), UNCHANGED <<storage, lifecycle>>
  PROVE  Inv'
  BY FindByEmailStep, CreateStep, FindByIdStep, TokensStep, ReadStep, UpdateStep, GuardStep
  DEF ProfileStep

\* Nothing but the types of what changes is at stake when no request and no row does.
LEMMA RestStep ==
  ASSUME Inv, TypeOK', UNCHANGED <<calls, rows>>
  PROVE  Inv'
  <1>1. Pending'
    BY DEF Inv, Pending, PendingRight, ReadRight, Under
  <1>2. NamedOnce' /\ SlugCurrent'
    BY DEF Inv, NamedOnce, SlugCurrent
  <1> QED
    BY <1>1, <1>2 DEF Inv

LEMMA OthersStep ==
  ASSUME Inv, Others
  PROVE  Inv'
  <1>1. CASE \E u \in Users : RemoveUser(u) /\ UNCHANGED storage
    BY <1>1, RemoveStep DEF Others
  <1>2. ASSUME NEW k \in Keys, Upload(k) \/ UrlExpires(k), UNCHANGED profile
        PROVE  Inv'
    <2>1. UNCHANGED <<calls, rows, drawn, production, lifecycle>>
      BY <1>2 DEF Others, Upload, UrlExpires, profile
    <2>2. StorageOK'
      <3>1. CASE Upload(k)
        <4>1. uploads \in Nat /\ uploads' = uploads + 1 /\ uploads' \in 0..MaxUploads
          BY <3>1, StorageAssumption DEF Upload, Inv, TypeOK
        <4>2. objects' = [objects EXCEPT ![k] = uploads'] /\ objects \in [Keys -> 0..uploads]
          BY <3>1 DEF Upload, Inv, TypeOK
        <4>3. objects' \in [Keys -> 0..uploads']
          BY <4>1, <4>2
        <4> QED
          BY <3>1, <4>1, <4>3 DEF Upload, StorageOK, Inv, TypeOK
      <3>2. CASE UrlExpires(k)
        BY <3>2 DEF UrlExpires, StorageOK, Inv, TypeOK
      <3> QED
        BY <1>2, <3>1, <3>2
    <2>3. TypeOK'
      BY <2>1, <2>2 DEF Inv, TypeOK, StorageOK, lifecycle, InHand
    <2> QED
      BY <2>1, <2>3, RestStep
  <1> QED
    BY <1>1, <1>2 DEF Others

LEMMA FirstStepTyped ==
  ASSUME NEW op, op.kind \in DOMAIN StepsFor
  PROVE  /\ FirstStep(op) \in StepsFor[op.kind]
         /\ FirstStep(op) = "write" => op.kind = "updateUser" /\ ~shouldRegenerateSlug(op.data)
  <1>1. CASE op.kind \in {"signUp", "facebookAuth"}
    BY <1>1 DEF FirstStep, StepsFor
  <1>2. CASE op.kind \in {"updateUserRole", "isProfileComplete"}
    BY <1>2 DEF FirstStep, StepsFor
  <1>3. CASE op.kind = "updateUser"
    BY <1>3 DEF FirstStep, StepsFor
  <1>4. CASE op.kind \in {"createListing", "presign", "deleteObject"}
    BY <1>4 DEF FirstStep, StepsFor
  <1> QED
    BY <1>1, <1>2, <1>3, <1>4 DEF StepsFor

LEMMA ArriveStep ==
  ASSUME Inv, NEW c \in Calls, NEW op \in Operations[c], Arrive(c, op)
  PROVE  Inv'
  <1> DEFINE new == calls'[c]
  <1>1. /\ calls[c].step = "idle" /\ phase = "running" /\ Known(op)
        /\ UNCHANGED <<production, rows, drawn, storage, lifecycle>>
    BY DEF Arrive, profile
  <1>2. /\ CallOK(c, calls[c]) /\ DOMAIN calls = Calls
        /\ DOMAIN calls[c] = DOMAIN Idle
        /\ calls[c].answer = None /\ calls[c].failed \in BOOLEAN
    BY <1>1 DEF Inv, TypeOK, CallOK
  <1>3. op.kind \in DOMAIN StepsFor /\ (op.kind \in OfUser => op.user \in Users)
    BY OperationsAssumption
  <1>4. DOMAIN calls' = Calls /\ \A d \in Calls \ {c} : calls'[d] = calls[d]
    BY <1>2 DEF Arrive
  <1>5. /\ CallOK(c, new) /\ new.op = op
        /\ new.step = "ended" \/ new.step = FirstStep(op)
        /\ new.step = "write" => new.seen = None
    <2>1. CASE Refused(op) # None
      <3>1. Caught(intercept(Refused(op))) \in Answer
        <4>1. Refused(op) \in {"UnprocessableEntity", "ZodError"}
          BY <2>1 DEF Refused
        <4> QED
          BY <4>1, AnswersTyped, ErrorsNamed DEF Inv, TypeOK
      <3>2. new = [calls[c] EXCEPT !.op = op, !.step = "ended",
                                   !.answer = Caught(intercept(Refused(op)))]
        BY <1>2, <2>1 DEF Arrive
      <3>3. /\ DOMAIN new = DOMAIN Idle /\ new.op = op /\ new.step = "ended"
            /\ new.answer = Caught(intercept(Refused(op))) /\ new.failed = calls[c].failed
        BY <1>2, <3>2 DEF Idle
      <3> HIDE DEF new
      <3> QED
        BY <1>2, <3>1, <3>3 DEF CallOK
    <2>2. CASE Refused(op) = None
      <3> DEFINE seen == IF op.kind = "deleteObject" THEN uploads ELSE None
      <3>1. new = [calls[c] EXCEPT !.op = op, !.step = FirstStep(op), !.seen = seen]
        BY <1>2, <2>2 DEF Arrive
      <3>2. /\ DOMAIN new = DOMAIN Idle /\ new.op = op /\ new.step = FirstStep(op)
            /\ new.seen = seen /\ new.answer = None /\ new.failed = calls[c].failed
        BY <1>2, <3>1 DEF Idle
      <3>3. FirstStep(op) \in StepsFor[op.kind] /\ FirstStep(op) \notin {"idle", "ended"}
        BY <1>3, FirstStepTyped, StepsUnder
      <3> HIDE DEF new
      <3> QED
        BY <1>2, <1>3, <3>2, <3>3, FirstStepTyped DEF CallOK
    <2> QED
      BY <2>1, <2>2
  <1> HIDE DEF new
  <1>6. TypeOK'
    BY <1>1, <1>4, <1>5 DEF Inv, TypeOK, storage, lifecycle, new
  <1>7. Pending'
    <2> SUFFICES ASSUME NEW d \in Calls, Under(calls'[d]), calls'[d].op.kind \in OfUser
                 PROVE  /\ rows[calls'[d].op.user] # None
                        /\ PendingRight(calls'[d], rows[calls'[d].op.user])
      BY <1>1 DEF Pending, Under, PendingRight, ReadRight
    <2>1. CASE d # c
      BY <1>4, <2>1 DEF Inv, Pending
    <2>2. CASE d = c
      <3>1. rows[op.user] # None
        BY <1>1, <1>5, <2>2 DEF Known, OfUser, new
      <3>2. PendingRight(new, rows[op.user])
        BY <1>3, <1>5, FirstStepTyped DEF PendingRight
      <3> QED
        BY <1>5, <2>2, <3>1, <3>2 DEF new
    <2> QED
      BY <2>1, <2>2
  <1>8. NamedOnce'
    BY <1>1, <1>2, <1>4 DEF Inv, NamedOnce, Settled
  <1>9. SlugCurrent'
    BY <1>1 DEF Inv, SlugCurrent
  <1> QED
    BY <1>6, <1>7, <1>8, <1>9 DEF Inv

LEMMA ExitStep ==
  ASSUME Inv, phase # "exited", NEW code \in {0, 1, 143}, Exit(code),
         redis' \in {"ready", "ended"}, UNCHANGED closers
  PROVE  Inv'
  <1>1. UNCHANGED <<production, rows, drawn, storage>>
    BY DEF Exit, profile
  <1>2. /\ DOMAIN calls' = Calls
        /\ \A d \in Calls : calls'[d] = IF Under(calls[d])
              THEN [calls[d] EXCEPT !.step = "ended", !.answer = NoAnswer] ELSE calls[d]
    BY DEF Exit, InHand, Under
  <1>3. \A d \in Calls : CallOK(d, calls'[d]) /\ ~Under(calls'[d])
                            /\ (calls[d].step \in Settled => calls'[d].step \in Settled)
    <2> SUFFICES ASSUME NEW d \in Calls
                 PROVE  CallOK(d, calls'[d]) /\ ~Under(calls'[d])
                            /\ (calls[d].step \in Settled => calls'[d].step \in Settled)
      OBVIOUS
    <2>1. CallOK(d, calls[d])
      BY DEF Inv, TypeOK
    <2>2. CASE ~Under(calls[d])
      BY <1>2, <2>1, <2>2
    <2>3. CASE Under(calls[d])
      <3>1. calls'[d] = [calls[d] EXCEPT !.step = "ended", !.answer = NoAnswer]
        BY <1>2, <2>3
      <3>2. /\ DOMAIN calls'[d] = DOMAIN Idle /\ calls'[d].step = "ended"
            /\ calls'[d].op = calls[d].op /\ calls'[d].failed = calls[d].failed
            /\ calls'[d].answer = NoAnswer
        BY <2>1, <3>1 DEF CallOK, Idle
      <3> QED
        BY <2>1, <2>3, <3>2, SuccessTyped DEF CallOK, Under, Settled
    <2> QED
      BY <2>2, <2>3
  <1>4. InHand' = {}
    BY <1>3 DEF InHand, Under
  <1>5. exitCode' = code /\ code # None /\ phase' = "exited" /\ listening' = FALSE
    BY NoneAssumption DEF Exit
  <1>6. TypeOK'
    BY <1>1, <1>2, <1>3, <1>4, <1>5 DEF Inv, TypeOK, storage
  <1>7. Pending'
    BY <1>3 DEF Pending, Under
  <1>8. NamedOnce' /\ SlugCurrent'
    BY <1>1, <1>3 DEF Inv, NamedOnce, SlugCurrent
  <1> QED
    BY <1>6, <1>7, <1>8 DEF Inv

\* The process goes on, and what it knows of itself keeps its types.
LEMMA ProcessStep ==
  ASSUME Inv, Quiet, phase # "exited", phase' \in {"initializing", "running"}, exitCode' = exitCode,
         listening' \in BOOLEAN, listening' => phase' = "running",
         phase = "running" => phase' = "running",
         redis' \in {"ready", "ended"},
         closers' \in [Closers -> {"idle", "destroy", "dispose", "rejected", "done"}]
  PROVE  Inv'
  <1>1. UNCHANGED <<calls, production, rows, drawn, storage>>
    BY DEF Quiet, profile
  <1>2. TypeOK'
    BY <1>1 DEF Inv, TypeOK, storage, InHand
  <1> QED
    BY <1>1, <1>2, RestStep

LEMMA StartStep ==
  ASSUME Inv, initializeApp \/ listen
  PROVE  Inv'
  <1>1. /\ phase \in {"creating", "initializing"} /\ redis \in {"ready", "ended"}
        /\ listening = FALSE
        /\ closers \in [Closers -> {"idle", "destroy", "dispose", "rejected", "done"}]
    BY DEF initializeApp, listen, Inv, TypeOK
  <1>2. CASE Exit(1) /\ UNCHANGED <<redis, closers>>
    BY <1>1, <1>2, ExitStep
  <1>3. CASE /\ Quiet /\ UNCHANGED <<exitCode, redis, closers>>
             /\ \/ phase' = "initializing" /\ listening' = listening
                \/ phase' = "running" /\ listening' = TRUE
    BY <1>1, <1>3, ProcessStep
  <1> QED
    BY <1>2, <1>3 DEF initializeApp, listen

LEMMA SigtermStep ==
  ASSUME Inv, Sigterm
  PROVE  Inv'
  <1>1. /\ redis \in {"ready", "ended"} /\ listening \in BOOLEAN
        /\ closers \in [Closers -> {"idle", "destroy", "dispose", "rejected", "done"}]
    BY DEF Inv, TypeOK
  <1>2. CASE Exit(143) /\ phase = "creating" /\ UNCHANGED <<redis, closers>>
    BY <1>1, <1>2, ExitStep
  <1>3. CASE /\ phase = "running" /\ Quiet /\ UNCHANGED <<phase, exitCode, listening, redis>>
             /\ closers' = [closers EXCEPT !["nest"] = "destroy", !["app"] = "destroy"]
    <2>1. closers' \in [Closers -> {"idle", "destroy", "dispose", "rejected", "done"}]
      BY <1>1, <1>3 DEF Closers
    <2> QED
      BY <1>1, <1>3, <2>1, ProcessStep
  <1> QED
    BY <1>2, <1>3 DEF Sigterm

LEMMA CloseStep ==
  ASSUME Inv, (\E x \in Closers : Close(x)) \/ RunOut
  PROVE  Inv'
  <1>1. /\ phase = "running" /\ redis \in {"ready", "ended"} /\ listening \in BOOLEAN
        /\ closers \in [Closers -> {"idle", "destroy", "dispose", "rejected", "done"}]
    BY DEF Close, onModuleDestroy, Disposed, RunOut, Inv, TypeOK
  <1>2. CASE (\E code \in {0, 1} : Exit(code)) /\ UNCHANGED <<redis, closers>>
    BY <1>1, <1>2, ExitStep
  <1>3. ASSUME NEW x \in Closers, Close(x), Quiet, UNCHANGED <<phase, exitCode>>,
               listening' \in {listening, FALSE}, redis' \in {redis, "ended"},
               \/ \E at \in {"rejected", "dispose"} : closers' = [closers EXCEPT ![x] = at]
               \/ closers' = [closers EXCEPT !["nest"] = "done", !["again"] = "destroy"]
        PROVE  Inv'
    <2>1. closers' \in [Closers -> {"idle", "destroy", "dispose", "rejected", "done"}]
      BY <1>1, <1>3 DEF Closers
    <2> QED
      BY <1>1, <1>3, <2>1, ProcessStep
  <1>4. RunOut => Exit(0) /\ UNCHANGED <<redis, closers>>
    BY DEF RunOut
  <1>5. ASSUME NEW x \in Closers, onModuleDestroy(x)
        PROVE  Inv'
    <2>1. CASE Rejected(x)
      BY <1>2, <1>3, <1>5, <2>1 DEF Rejected, Close
    <2>2. CASE /\ redis' = "ended" /\ closers' = [closers EXCEPT ![x] = "dispose"]
               /\ listening' = FALSE /\ Quiet /\ UNCHANGED <<phase, exitCode>>
      BY <1>3, <1>5, <2>2 DEF Close
    <2> QED
      BY <1>5, <2>1, <2>2 DEF onModuleDestroy
  <1>6. ASSUME NEW x \in Closers, Disposed(x)
        PROVE  Inv'
    <2>1. CASE Exit(0) /\ UNCHANGED <<redis, closers>>
      BY <1>2, <2>1
    <2>2. CASE /\ closers' = [closers EXCEPT !["nest"] = "done", !["again"] = "destroy"]
               /\ Quiet /\ UNCHANGED <<phase, exitCode, listening, redis>>
      BY <1>3, <1>6, <2>2 DEF Close
    <2> QED
      BY <1>6, <2>1, <2>2 DEF Disposed
  <1> QED
    BY <1>2, <1>4, <1>5, <1>6 DEF Close

-----------------------------------------------------------------------------
(* The theorems *)

LEMMA InitInv == Init => Inv
  <1> SUFFICES ASSUME Init PROVE Inv
    OBVIOUS
  <1>1. /\ DOMAIN rows = Users
        /\ \A u \in Users : rows[u] # None =>
                RowOK(rows[u]) /\ SlugRight(rows[u]) /\ rows[u].namedBy = {}
    BY TablesAssumption DEF Init
  <1>2. \A c \in Calls : CallOK(c, calls[c]) /\ ~Under(calls[c])
    BY DEF Init, InitAnswers, CallOK, Idle, Under
  <1>3. InHand = {} /\ DOMAIN calls = Calls
    BY <1>2 DEF InHand, Under, Init, InitAnswers
  <1>4. StorageOK
    BY StorageAssumption DEF Init, InitStorage, StorageOK
  <1>5. TypeOK
    BY <1>1, <1>2, <1>3, <1>4, NoneAssumption DEF TypeOK, StorageOK, Init, InitAnswers, Closers
  <1>6. Pending /\ NamedOnce /\ SlugCurrent
    BY <1>1, <1>2 DEF Pending, NamedOnce, SlugCurrent
  <1> QED
    BY <1>5, <1>6 DEF Inv

LEMMA NextInv == Inv /\ [Next]_vars => Inv'
  <1> SUFFICES ASSUME Inv, [Next]_vars PROVE Inv'
    OBVIOUS
  <1>1. CASE UNCHANGED vars
    <2>1. TypeOK'
      BY <1>1 DEF vars, Inv, TypeOK, InHand
    <2> QED
      BY <1>1, <2>1, RestStep DEF vars
  <1>2. CASE initializeApp \/ listen
    BY <1>2, StartStep
  <1>3. CASE Sigterm
    BY <1>3, SigtermStep
  <1>4. CASE RunOut \/ \E x \in Closers : Close(x)
    BY <1>4, CloseStep
  <1>5. CASE \E c \in Calls : \E op \in Operations[c] : Arrive(c, op)
    BY <1>5, ArriveStep
  <1>6. CASE \E c \in Calls : Step(c)
    BY <1>6, ProfileStepInv, StorageStepInv DEF Step
  <1>7. CASE Others
    BY <1>7, OthersStep
  <1> QED
    BY <1>1, <1>2, <1>3, <1>4, <1>5, <1>6, <1>7 DEF Next

LEMMA AlwaysInv == Spec => []Inv
  BY InitInv, NextInv, PTL DEF Spec

(***************************************************************************)
(* The variables of the server keep their types, for any requests, names,  *)
(* draws of nanoid and tables: of UserRepository, S3Service, the filters   *)
(* and the process.                                                        *)
(***************************************************************************)
THEOREM TypeCorrect == Spec => []TypeOK
  <1>1. Inv => TypeOK
    BY DEF Inv
  <1> QED
    BY <1>1, AlwaysInv, PTL

(***************************************************************************)
(* A slug ends in the stored id and is made of the names beside it, unless *)
(* two updates of the names overlapped: UserRepository.update, whatever    *)
(* runs between its read and its write.                                    *)
(***************************************************************************)
THEOREM SlugCorrect == Spec => []SlugCurrent
  <1>1. Inv => SlugCurrent
    BY DEF Inv
  <1> QED
    BY <1>1, AlwaysInv, PTL

Keeps(u) ==
    rows[u] # None /\ rows[u].slugId # None
        => rows'[u].slugId = rows[u].slugId \/ rows'[u].torn

LEMMA UpdateKeepsId ==
  ASSUME Inv, NEW c \in Calls, update(c), NEW u \in Users
  PROVE  Keeps(u)
  <1>1. CASE UNCHANGED rows
    BY <1>1 DEF Keeps
  <1>2. CASE u # User(c) /\ ~UNCHANGED rows
    <2>1. rows'[u] = rows[u]
      BY <1>2 DEF update, Inv, TypeOK
    <2> QED
      BY <2>1 DEF Keeps
  <1>3. CASE u = User(c) /\ ~UNCHANGED rows
    <2> DEFINE row == rows[u]
               data == parsed(calls[c].op.data)
               seen == calls[c].seen
               new == Written(row, data, seen, c)
    <2>1. calls[c].step = "write" /\ Under(calls[c]) /\ row # None /\ ~row.gone
      BY <1>3 DEF update, Under, Exists
    <2>2. Kind(c) \in {"updateUserRole", "updateUser"} /\ calls[c].op \in Operations[c]
      BY <2>1, KindOfStep DEF Inv
    <2>3. row \in Row /\ rows'[u] = new
      BY <1>3, <2>1 DEF update, Inv, TypeOK, RowOK
    <2>4. PendingRight(calls[c], row)
      BY <1>3, <2>1, <2>2 DEF Inv, Pending, OfUser, Kind, User
    <2>5. DataOK(data)
      BY <2>2, DataTyped DEF Kind
    <2>6. \A f \in RowFields : new[f] = IF seen # None /\ f \in SlugFields
              THEN slugFields(row, seen, c)[f] ELSE IF f \in DOMAIN data THEN data[f] ELSE row[f]
      BY <2>3, WrittenFields
    <2>7. CASE seen = None
      <3>1. new.slugId = row.slugId
        BY <2>5, <2>6, <2>7 DEF RowFields, DataOK, UpdateFields, NameFields
      <3> QED
        BY <2>3, <3>1 DEF Keeps
    <2>8. CASE seen # None
      <3>1. ReadRight(row, data, seen)
        BY <2>1, <2>4, <2>8 DEF PendingRight
      <3>2. /\ new.slugId = slugFields(row, seen, c).slugId
            /\ new.torn = slugFields(row, seen, c).torn
        BY <2>6, <2>8 DEF RowFields, SlugFields
      <3>3. /\ slugFields(row, seen, c).slugId = seen.slugId
            /\ slugFields(row, seen, c).torn <=> row.namedBy # seen.namedBy
        BY <2>3, <3>1, SlugFieldsTyped DEF ReadRight
      <3>4. new.slugId = seen.slugId /\ (new.torn <=> row.namedBy # seen.namedBy)
        BY <3>2, <3>3, Zenon
      <3>5. row.slugId # None => new.slugId = row.slugId \/ new.torn
        BY <3>1, <3>4 DEF ReadRight
      <3> QED
        BY <2>3, <3>5 DEF Keeps
    <2> QED
      BY <2>7, <2>8
  <1> QED
    BY <1>1, <1>2, <1>3

LEMMA NextKeepsId == Inv /\ [Next]_vars => [\A u \in Users : Keeps(u)]_rows
  <1> SUFFICES ASSUME Inv, [Next]_vars, ~UNCHANGED rows, NEW u \in Users PROVE Keeps(u)
    OBVIOUS
  <1>1. CASE \E c \in Calls : Step(c)
    <2>1. PICK c \in Calls : Step(c)
      BY <1>1
    <2>2. CASE update(c)
      BY <2>2, UpdateKeepsId
    <2>3. CASE createUser(c)
      BY <2>3 DEF createUser, Keeps, Inv, TypeOK
    <2> QED
      BY <2>1, <2>2, <2>3 DEF Step, ProfileStep, findByEmail, findById, createToken,
            updateRefreshToken, sendVerificationEmail, generateSlugForUser,
            UserProfileCompleteGuard, createListing, profile
  <1>2. CASE Others
    <2>1. PICK v \in Users : RemoveUser(v)
      BY <1>2 DEF Others, profile
    <2>2. CASE u # v
      BY <2>1, <2>2 DEF RemoveUser, Keeps, Inv, TypeOK
    <2>3. CASE u = v
      <3>1. rows[u] # None /\ RowOK(rows[u]) /\ rows'[u] = [rows[u] EXCEPT !.gone = TRUE]
        BY <2>1, <2>3 DEF RemoveUser, Exists, Inv, TypeOK
      <3>2. rows'[u].slugId = rows[u].slugId
        BY <3>1 DEF RowOK, Row
      <3> QED
        BY <3>2 DEF Keeps
    <2> QED
      BY <2>2, <2>3
  <1> QED
    BY <1>1, <1>2 DEF Next, initializeApp, listen, Sigterm, RunOut, Close, onModuleDestroy, Disposed,
          Rejected, Exit, Quiet, Arrive, profile, vars

(***************************************************************************)
(* A slug id, once stored, stays: only an update of the names that         *)
(* overlapped another changes it, whatever UserRepository.update ran into. *)
(***************************************************************************)
THEOREM SlugIdCorrect == Spec => SlugIdKept
  <1>1. [\A u \in Users : Keeps(u)]_rows <=>
        [\A u \in Users : rows[u] # None /\ rows[u].slugId # None
                => rows'[u].slugId = rows[u].slugId \/ rows'[u].torn]_rows
    BY DEF Keeps
  <1> QED
    BY <1>1, AlwaysInv, NextKeepsId, PTL DEF Spec, SlugIdKept
=============================================================================
