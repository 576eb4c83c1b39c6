-------------------------- MODULE MCRegistryLookups --------------------------
(***************************************************************************)
(* One service with three providers, so that a round has an order to lose, *)
(* and two threads that look it up while providers come and go.            *)
(***************************************************************************)
EXTENDS RegistryLookups, TLC

Star == [name |-> "*", text |-> "*", valid |-> FALSE]
Flip == [name |-> "Flip", text |-> "Flip(in buffer)", valid |-> TRUE]

MCNames == {"*", "Flip"}
MCTexts == {"*", "Flip(in buffer)"}
MCSignatures == {Star, Flip}
MCHosts == {"h1", "h2", "h3"}
MCPorts == {"p1", "p2", "p3"}
MCProviders == {<<"h1", "p1">>, <<"h2", "p2">>, <<"h3", "p3">>}

MCRequests == {c \in Calls : c.op # "deregisterServer" => c.signature = Flip}

ThreadSymmetry == Permutations(Threads)
=============================================================================
