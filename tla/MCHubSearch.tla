----------------------------- MODULE MCHubSearch -----------------------------
(* HubSearch with a secret of its own for each of two PCs.                 *)
EXTENDS HubSearch

OwnSecrets == {<<p, p>> : p \in Pcs}
=============================================================================
