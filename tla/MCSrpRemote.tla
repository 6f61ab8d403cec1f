---------------------------- MODULE MCSrpRemote ----------------------------
(***************************************************************************)
(* SrpRemote for TLC: alice has the right credentials; eve a wrong         *)
(* password, or cassim a wrong identity.                                   *)
(***************************************************************************)
EXTENDS SrpRemote

CONSTANTS alice, eve, cassim

MCClients == {alice, eve, cassim}
MCIdentity == [c \in MCClients |-> IF c = cassim THEN "cassim" ELSE "ali"]
MCPassword == [c \in MCClients |-> IF c = eve THEN "barley" ELSE "sesame"]
=============================================================================
