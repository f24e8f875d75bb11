------------------------------- MODULE MCServer -------------------------------
(***************************************************************************)
(* Two requests, one address, two rows and one object.  A user may be      *)
(* there from the start, without names or with a complete profile.         *)
(***************************************************************************)
EXTENDS Server

CONSTANTS u1, u2, c1, c2

MCStrings == STRING
MCNames == {"ann", "anna maria", "foreign", "blank"}
MCBlank == {"blank"}
MCnormalize == [ann |-> <<<<"ann">>>>, foreign |-> <<<<"">>>>, blank |-> <<<<"">>>>]
    @@ ("anna maria" :> <<<<"anna">>, <<"maria">>>>)
MCDraws == {<<"a">>, <<"b", "c">>}

\* A user just signed up; and one with a complete profile, of whose names two
\* updates have overlapped so that the slug lacks one.
Fresh == NewRow("e", "local", None)
Torn == [Fresh EXCEPT !.isEmailVerified = TRUE, !.firstName = "ann", !.lastName = "foreign",
                      !.userType = "landlord", !.torn = TRUE,
                      !.slugId = <<<<"z">>>>, !.slug = <<<<"ann">>, <<"z">>>>]
MCTables == {[u \in Users |-> IF u = u1 THEN row ELSE None] : row \in {None, Fresh, Torn}}

Change(data) == [kind |-> "updateUser", user |-> u1, data |-> data]
Of(user, kinds) == [kind : kinds, user : {user}]
SignUps(kinds, match) == [kind : kinds, email : {"e"}, match : match]

MCOperations ==
    c1 :> SignUps({"signUp"}, {TRUE}) \union SignUps({"facebookAuth"}, {TRUE})
            \union Of(u1, {"createListing"}) \union [kind : {"presign"}]
            \union {Change([lastName |-> "anna maria", email |-> "f"]),
                    Change([companyName |-> "ann", userType |-> "real_estate_agent"])}
 @@ c2 :> SignUps({"signUp"}, BOOLEAN) \union SignUps({"facebookAuth"}, {TRUE})
            \union Of(u1, {"isProfileComplete"}) \union [kind : {"deleteObject"}, key : Keys]
            \union {Change([firstName |-> "foreign", lastName |-> "blank"]),
                    Change([userType |-> "owner"]),
                    [kind |-> "updateUserRole", user |-> u1, data |-> [userType |-> "customer"]]}
=============================================================================
