---------------------------- MODULE MCOnboarding ----------------------------
(* Onboarding with two networks and a link that may be lost. *)
EXTENDS Onboarding
=============================================================================
