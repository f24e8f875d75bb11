---------------------------- MODULE MCAuthSessions ----------------------------
(* AuthSessions on small instances. *)
EXTENDS AuthSessions, TLC

CONSTANTS ann, r1, r2

\* Nobody has an account, or ann has one.
NoAccount == [e \in Emails |-> None]
LocalAccount == [e \in Emails |-> "local"]
FacebookAccount == [e \in Emails |-> "facebook"]

\* Which operations a run is about.
AccountOps == {"signUp", "facebook", "refresh", "verifyEmail", "resendEmail",
               "initiateReset", "verifyReset", "completeReset"}
FactorOps == {"login", "refresh", "enable2FA", "confirm2FA", "verify2FA", "resendVerify",
              "resendEnable", "disable2FA", "updateRole"}
LateFactorOps == {"facebook", "resendEnable", "confirm2FA"}

Symmetry == Permutations(Requests)
=============================================================================
