------------------------------ MODULE UserProfile ------------------------------
(***************************************************************************)
(* Users' rows and the requests that read and write them through           *)
(* UserUseCase and UserRepository: sign-ups, logins with Facebook, changes *)
(* of roles, with the tokens that are made for each and the mail after a   *)
(* sign-up, changes of profiles with the slug that update makes of the     *)
(* names, and the guard that wants a complete profile.                     *)
(*                                                                         *)
(* A slug is the sequence of its parts between dashes; a part, the         *)
(* sequence of its words between underscores.  A name is what normalize    *)
(* makes of it, a sequence of parts; nothing is left of a foreign name     *)
(* but one empty part.  One action is one query and the code up to the     *)
(* next.  Ghosts in a row: the request that made it (by), those that wrote *)
(* its names (namedBy), and whether the last of them had read the names    *)
(* before another wrote them (torn).                                       *)
(***************************************************************************)
EXTENDS Answers

CONSTANTS
    Users,      \* the ids of rows
    Strings,    \* what columns of text and words of slugs may be
    Names,      \* the names people have
    Blank,      \* those of spaces only
    normalize,  \* the parts of each
    Draws,      \* what nanoid may return: words between dashes
    Operations  \* what each request may ask for

VARIABLES
    rows,       \* the table of users
    drawn       \* what nanoid has returned

NameFields == {"firstName", "lastName", "companyName"}
UpdateFields == NameFields \union {"phoneNumber", "userType", "licenseId", "isEmailVerified"}
UserTypes == {"landlord", "real_estate_agent", "customer"}

\* A part is a sequence of words, a slug one of parts, and a slug id one part.
Slugs == Seq(Seq(Strings))
SlugIds == {slug \in Slugs : Len(slug) = 1}

ASSUME NamesAssumption ==
    /\ {"", "given", "user"} \subseteq Strings
    /\ Blank \subseteq Names
    /\ normalize \in [Names -> Slugs]
    /\ Draws \subseteq Seq(Strings)
    /\ None \notin Slugs

Row == [email : Strings, provider : {"local", "facebook"},
        firstName : Names \union {None}, lastName : Names \union {None},
        companyName : Names \union {None}, phoneNumber : Strings,
        userType : Strings \union {None}, licenseId : Strings \union {None},
        isEmailVerified : BOOLEAN, slug : Slugs \union {None}, slugId : SlugIds \union {None},
        by : Calls \union {None}, namedBy : SUBSET Calls, torn : BOOLEAN, gone : BOOLEAN]

Exists(u) == rows[u] # None /\ ~rows[u].gone
OfEmail(email) == {u \in Users : Exists(u) /\ rows[u].email = email}

\* A row as create makes it; an account of Facebook has no phone number, and its
\* address counts as verified.
NewRow(email, provider, by) ==
    [email |-> email, provider |-> provider,
     firstName |-> None, lastName |-> None, companyName |-> None,
     phoneNumber |-> IF provider = "facebook" THEN "" ELSE "given",
     userType |-> None, licenseId |-> None, isEmailVerified |-> provider = "facebook",
     slug |-> None, slugId |-> None, by |-> by, namedBy |-> {}, torn |-> FALSE, gone |-> FALSE]

-----------------------------------------------------------------------------
(* Slugs *)

\* A mutated form of freshSlugId: dashes are left as they were drawn.
freshSlugIdDashed(draw) == [i \in DOMAIN draw |-> <<draw[i]>>]

\* The dashes of what nanoid returned are replaced, so that an id is one part.
freshSlugId(draw) == <<draw>>

Counts(name) == name # None /\ name \notin Blank

Parts(name) == IF Counts(name) THEN normalize[name] ELSE <<>>

generateUserSlug(names, slugId) ==
    LET components == IF Counts(names.companyName) THEN Parts(names.companyName)
                      ELSE Parts(names.firstName) \o Parts(names.lastName)
    IN  (IF components = <<>> THEN <<<<"user">>>> ELSE components) \o slugId

\* The last part; ids are long enough and of the right characters.
parseSlugId(slug) == <<Last(slug)>>

\* A mutated form of slugIdFor: the id is drawn anew every time.
slugIdForAnew(row, draw) == freshSlugId(draw)

slugIdFor(row, draw) == IF row.slugId # None THEN row.slugId ELSE freshSlugId(draw)

-----------------------------------------------------------------------------
(* Users are made *)

Kind(c) == calls[c].op.kind
User(c) == calls[c].op.user

\* facebookAuth answers every error in one way; createUser returns the promise of
\* create without awaiting it, so that its catch never sees what create throws.
AnswerOf(c, error) ==
    Caught(intercept(IF Kind(c) = "facebookAuth" THEN "Unauthorized" ELSE error))

\* Any error of this query counts as nobody having the address.
findByEmail(c) ==
    LET found == OfEmail(calls[c].op.email) IN
    /\ calls[c].step = "findByEmail"
    /\ \/ found = {} /\ Proceed(c, "create", None)
       \/ \E u \in found :
            IF Kind(c) = "facebookAuth" /\ rows[u].provider = "facebook"
            THEN Proceed(c, "sign", u)
            ELSE End(c, AnswerOf(c, "BadRequest"))
       \/ calls' = [calls EXCEPT ![c].step = "create", ![c].failed = TRUE]
    /\ UNCHANGED <<rows, drawn, production>>

\* The database keeps addresses apart; a reply may be lost after the row is there.
\* The two passwords are equal: pipes and facebookAuth have seen to that.
createUser(c) ==
    LET email == calls[c].op.email
        provider == IF Kind(c) = "facebookAuth" THEN "facebook" ELSE "local"
    IN
    /\ calls[c].step = "create"
    /\ \/ /\ OfEmail(email) # {}
          /\ End(c, AnswerOf(c, "P2002"))
          /\ UNCHANGED rows
       \/ /\ OfEmail(email) = {}
          /\ \E u \in Users :
                /\ rows[u] = None
                /\ rows' = [rows EXCEPT ![u] = NewRow(email, provider, c)]
                /\ \/ Proceed(c, "sign", u)
                   \/ \E error \in Failures : Lose(c, AnswerOf(c, error))
       \/ /\ \E error \in Failures : Lose(c, AnswerOf(c, error))
          /\ UNCHANGED rows
    /\ UNCHANGED <<drawn, production>>

-----------------------------------------------------------------------------
(* Tokens are made for a user, and a new one is written to *)

\* createTokens reads the row for each of its two tokens; there may be no keys to
\* sign with.  facebookAuth returns its promise without awaiting it, so that no
\* error of these steps is changed on the way.
createToken(c) ==
    /\ calls[c].step = "sign"
    /\ \/ Exists(calls[c].seen) /\ Proceed(c, "store", calls[c].seen)
       \/ ~Exists(calls[c].seen) /\ Throw(c, "ZodError")
       \/ \E error \in Failures \union {"Conflict"} : Lose(c, Caught(intercept(error)))
    /\ UNCHANGED <<rows, drawn, production>>

\* The hash of the refresh token goes to the row; a mail follows a sign-up.
updateRefreshToken(c) ==
    /\ calls[c].step = "store"
    /\ \/ /\ Exists(calls[c].seen)
          /\ IF Kind(c) = "signUp" THEN Proceed(c, "mail", calls[c].seen) ELSE Return(c)
       \/ ~Exists(calls[c].seen) /\ Throw(c, "P2025")
       \/ \E error \in Failures : Lose(c, Caught(intercept(error)))
    /\ UNCHANGED <<rows, drawn, production>>

\* One error for whatever storing the code or mailing it throws.
sendVerificationEmail(c) ==
    /\ calls[c].step = "mail"
    /\ Return(c) \/ Lose(c, Caught(intercept("Error")))
    /\ UNCHANGED <<rows, drawn, production>>

-----------------------------------------------------------------------------
(* Users are looked up and updated *)

Truthy(value) == value # None /\ value # ""

isProfileComplete(row) ==
    /\ Truthy(row.firstName) /\ Truthy(row.lastName) /\ Truthy(row.phoneNumber)
    /\ row.isEmailVerified

\* The schema cannot parse what is not there; its error is none of Nest's.
findById(c) ==
    /\ calls[c].step = "findById"
    /\ \/ /\ Exists(User(c))
          /\ IF Kind(c) = "updateUserRole" THEN Proceed(c, "write", None) ELSE Return(c)
       \/ ~Exists(User(c)) /\ Throw(c, "ZodError")
       \/ \E error \in Failures : Lose(c, Caught(intercept(error)))
    /\ UNCHANGED <<rows, drawn, production>>

\* UserUpdateSchema drops addresses and refresh tokens, and throws for a type
\* that is none; fields that are only stored are left out.
parsed(data) == [f \in DOMAIN data \intersect UpdateFields |-> data[f]]
parses(data) == "userType" \in DOMAIN data => data.userType \in UserTypes \union {None}

shouldRegenerateSlug(data) == DOMAIN parsed(data) \intersect NameFields # {}

\* The names after an update of what was read.
Merged(row, data) == [f \in NameFields |-> IF f \in DOMAIN data THEN data[f] ELSE row[f]]

\* generateSlugForUser reads the row and makes the slug; a missing row makes none.
generateSlugForUser(c) ==
    LET row == rows[User(c)]
        data == parsed(calls[c].op.data)
    IN
    /\ calls[c].step = "read"
    /\ \/ /\ ~Exists(User(c))
          /\ Proceed(c, "write", None)
          /\ UNCHANGED drawn
       \/ /\ Exists(User(c))
          /\ \E draw \in IF row.slugId # None THEN {None} ELSE Draws \ drawn :
                LET slugId == slugIdFor(row, draw) IN
                /\ Proceed(c, "write", [slug |-> generateUserSlug(Merged(row, data), slugId),
                                        slugId |-> slugId, namedBy |-> row.namedBy])
                /\ drawn' = drawn \union ({draw} \ {None})
       \/ /\ \E error \in Failures : Lose(c, Caught(intercept(error)))
          /\ UNCHANGED drawn
    /\ UNCHANGED <<rows, production>>

\* A mutated form of slugFields: the id of a new slug is not stored.
slugFieldsWithoutId(row, seen, c) ==
    [slug |-> seen.slug, namedBy |-> row.namedBy \union {c}, torn |-> row.namedBy # seen.namedBy]

\* What a slug that was made adds to an update.
slugFields(row, seen, c) ==
    [slug |-> seen.slug, slugId |-> seen.slugId,
     namedBy |-> row.namedBy \union {c}, torn |-> row.namedBy # seen.namedBy]

Written(row, data, seen, c) ==
    [f \in DOMAIN row |->
        IF seen # None /\ f \in DOMAIN slugFields(row, seen, c) THEN slugFields(row, seen, c)[f]
        ELSE IF f \in DOMAIN data THEN data[f] ELSE row[f]]

update(c) ==
    LET u == User(c)
        new == Written(rows[u], parsed(calls[c].op.data), calls[c].seen, c)
    IN
    /\ calls[c].step = "write"
    /\ \/ /\ Exists(u)
          /\ rows' = [rows EXCEPT ![u] = new]
          /\ \/ IF Kind(c) = "updateUserRole" THEN Proceed(c, "sign", u) ELSE Return(c)
             \/ \E error \in Failures : Lose(c, Caught(intercept(error)))
       \/ /\ ~Exists(u)
          /\ Throw(c, "P2025")
          /\ UNCHANGED rows
       \/ /\ \E error \in Failures : Lose(c, Caught(intercept(error)))
          /\ UNCHANGED rows
    /\ UNCHANGED <<drawn, production>>

-----------------------------------------------------------------------------
(* UserProfileCompleteGuard *)

Required(row) ==
    {"firstName", "lastName", "phoneNumber", "userType"}
        \union IF row.userType = "real_estate_agent" THEN {"licenseId", "companyName"} ELSE {}

\* The schema throws before the guard could say that there is no profile.
UserProfileCompleteGuard(c) ==
    LET row == rows[User(c)] IN
    /\ calls[c].step = "guard"
    /\ \/ /\ Exists(User(c))
          /\ IF row.isEmailVerified /\ \A f \in Required(row) : Truthy(row[f])
             THEN Proceed(c, "handler", isProfileComplete(row))
             ELSE ThrowFromGuard(c, "Forbidden")
       \/ ~Exists(User(c)) /\ ThrowFromGuard(c, "ZodError")
       \/ \E error \in Failures : Lose(c, Caught(error))
    /\ UNCHANGED <<rows, drawn, production>>

\* What the guard is for: a listing is made.
createListing(c) ==
    /\ calls[c].step = "handler"
    /\ Return(c)
    /\ UNCHANGED <<rows, drawn, production>>

\* A row is removed from the database.
RemoveUser(u) ==
    /\ Exists(u)
    /\ rows' = [rows EXCEPT ![u].gone = TRUE]
    /\ UNCHANGED <<calls, drawn, production>>

ProfileStep(c) ==
    \/ findByEmail(c) \/ createUser(c) \/ findById(c)
    \/ createToken(c) \/ updateRefreshToken(c) \/ sendVerificationEmail(c)
    \/ generateSlugForUser(c) \/ update(c)
    \/ UserProfileCompleteGuard(c) \/ createListing(c)
=============================================================================
