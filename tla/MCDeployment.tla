----------------------------- MODULE MCDeployment -----------------------------
(***************************************************************************)
(* Two clients, a pool of one thread, and a provider of two services.  The *)
(* clients call the one that is registered last, so that they also meet a  *)
(* registry that has the other only.                                       *)
(***************************************************************************)
EXTENDS Deployment

MCServices == {"StoreImage", "GetImage"}
MCProvided == <<"StoreImage", "GetImage">>
MCIterations == {<<"GetImage">>}
MCLaunched == <<"client1", "client2">>
=============================================================================
