---------------------------- MODULE MCOneTimeCode ----------------------------
(* OneTimeCode on small instances. *)
EXTENDS OneTimeCode

(***************************************************************************)
(* CHANGELOG.md lists "OTP (One-Time Password) support" among the          *)
(* authentication features: an issued code is good for one verification.   *)
(***************************************************************************)
AcceptedOnce == \A i \in Issues : uses[i] <= 1
=============================================================================
