------------------------------- MODULE MCSrp -------------------------------
(***************************************************************************)
(* Srp for TLC: two clients with the right credentials, one with a wrong  *)
(* password, one with a wrong identity, and one of srp_spoof_client_new()  *)
(* with the right identity.                                                *)
(***************************************************************************)
EXTENDS Srp

CONSTANTS alice, bob, eve, cassim, mallory

MCClients == {alice, bob, eve, cassim, mallory}
MCSpoofing == {mallory}
MCIdentity == [c \in MCClients |-> IF c = cassim THEN "cassim" ELSE "ali"]
MCPassword == [c \in MCClients \ MCSpoofing |-> IF c = eve THEN "barley" ELSE "sesame"]
=============================================================================
