---------------------------- MODULE AccountContract ----------------------------
(***************************************************************************)
(* What the authentication service promises about an account, however its  *)
(* requests interleave or fail.  An account is created once and keeps its  *)
(* provider.  Its e-mail address becomes verified, its two-factor setting  *)
(* on and its password another one only after a code sent for that purpose *)
(* has been accepted for it.  Tokens claim a verified address only of an   *)
(* account whose address is, a second factor only of an account for which  *)
(* an enabling code has been accepted, and that it was passed only of one  *)
(* for which a code of either kind has.                                    *)
(***************************************************************************)
CONSTANTS Emails,   \* an account is known by its e-mail address
          None

VARIABLES account,  \* account[e]: the account of e, or None
          sent,     \* the <<type, e>> for which a code has been sent
          permits,  \* the <<type, e>> for which a code has been accepted
          granted   \* the claims that tokens have been signed with

vars == <<account, sent, permits, granted>>

Providers == {"local", "facebook"}
CodeTypes == {"email", "password", "twoFactor", "twoFactorEnable"}
Account == [provider: Providers, verified: BOOLEAN, tfa: BOOLEAN, reset: BOOLEAN]
\* An address is verified, a second factor was passed, and, in the access and in the
\* refresh token of a pair, there is one.
Claims == [user: Emails, ev: BOOLEAN, mfa: BOOLEAN, acc: BOOLEAN, ref: BOOLEAN]

\* A social account is born with a verified address.
NewAccount(p) == [provider |-> p, verified |-> p = "facebook", tfa |-> FALSE, reset |-> FALSE]

Init ==
    /\ account \in [Emails -> {None} \union {NewAccount(p) : p \in Providers}]
    /\ sent = {}
    /\ permits = {}
    /\ granted = {}

Change(e, new) ==
    /\ account[e] # None
    /\ account' = [account EXCEPT ![e] = new]
    /\ UNCHANGED <<sent, permits, granted>>

Create(e, p) ==
    /\ account[e] = None
    /\ account' = [account EXCEPT ![e] = NewAccount(p)]
    /\ UNCHANGED <<sent, permits, granted>>

\* A code is sent; only an account with a password of its own can reset it.
Send(t, e) ==
    /\ account[e] # None
    /\ t = "password" => account[e].provider = "local"
    /\ sent' = sent \union {<<t, e>>}
    /\ UNCHANGED <<account, permits, granted>>

\* A code is accepted.
Permit(t, e) ==
    /\ <<t, e>> \in sent
    /\ permits' = permits \union {<<t, e>>}
    /\ UNCHANGED <<account, sent, granted>>

Verify(e) ==
    /\ <<"email", e>> \in permits
    /\ Change(e, [account[e] EXCEPT !.verified = TRUE])

Enable(e) ==
    /\ <<"twoFactorEnable", e>> \in permits
    /\ Change(e, [account[e] EXCEPT !.tfa = TRUE])

Disable(e) == Change(e, [account[e] EXCEPT !.tfa = FALSE])

ChangePassword(e) ==
    /\ <<"password", e>> \in permits
    /\ Change(e, [account[e] EXCEPT !.reset = TRUE])

Grant(c) ==
    /\ account[c.user] # None
    /\ c.ev => account[c.user].verified
    /\ c.mfa => <<"twoFactor", c.user>> \in permits \/ <<"twoFactorEnable", c.user>> \in permits
    /\ c.acc \/ c.ref => <<"twoFactorEnable", c.user>> \in permits
    /\ granted' = granted \union {c}
    /\ UNCHANGED <<account, sent, permits>>

Next ==
    \/ \E e \in Emails : \/ Verify(e) \/ Enable(e) \/ Disable(e) \/ ChangePassword(e)
                         \/ \E p \in Providers : Create(e, p)
                         \/ \E t \in CodeTypes : Send(t, e) \/ Permit(t, e)
    \/ \E c \in Claims : Grant(c)

Spec == Init /\ [][Next]_vars

-----------------------------------------------------------------------------
(***************************************************************************)
(* What signed tokens claim of an account is true: an address that they    *)
(* call verified is, and stays so; a second factor that they say was       *)
(* passed had a code accepted; and one that the access or the refresh      *)
(* token says there is was enabled with a code.                            *)
(***************************************************************************)
ClaimsTrue ==
    \A c \in granted :
        /\ account[c.user] # None
        /\ c.ev => account[c.user].verified
        /\ c.mfa => \E t \in {"twoFactor", "twoFactorEnable"} : <<t, c.user>> \in permits
        /\ c.acc \/ c.ref => <<"twoFactorEnable", c.user>> \in permits

(***************************************************************************)
(* Every privilege of an account is backed by a code accepted for it, and  *)
(* no code is accepted that was not sent.                                  *)
(***************************************************************************)
Backed ==
    /\ permits \subseteq sent
    /\ \A e \in Emails : account[e] # None =>
        /\ account[e].verified => account[e].provider = "facebook" \/ <<"email", e>> \in permits
        /\ account[e].tfa => <<"twoFactorEnable", e>> \in permits
        /\ account[e].reset => account[e].provider = "local" /\ <<"password", e>> \in permits
=============================================================================
