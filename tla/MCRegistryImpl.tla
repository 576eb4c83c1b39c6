--------------------------- MODULE MCRegistryImpl ---------------------------
(***************************************************************************)
(* Small registries: two services, of which Flip is known with two         *)
(* different signatures and can be asked for with a malformed one.  No two *)
(* providers share a host or a port, so that a pair put together from two  *)
(* of them shows.                                                          *)
(***************************************************************************)
EXTENDS RegistryImpl, TLC

Star == [name |-> "*", text |-> "*", valid |-> FALSE]
Flip == [name |-> "Flip", text |-> "Flip(in buffer)", valid |-> TRUE]
OtherFlip == [name |-> "Flip", text |-> "Flip(in string)", valid |-> TRUE]
BadFlip == [name |-> "Flip", text |-> "Flip()", valid |-> FALSE]
Rotate == [name |-> "Rotate", text |-> "Rotate(in int)", valid |-> TRUE]

TwoServices == {Star, Flip, OtherFlip, BadFlip, Rotate}
OneService == {Star, Flip, OtherFlip}
PlainService == {Star, Flip}

MCNames == {"*", "Flip", "Rotate"}
MCTexts == {s.text : s \in TwoServices}
MCHosts == {"h1", "h2", "h3"}
MCPorts == {"p1", "p2", "p3"}
OneProvider == {<<"h1", "p1">>}
TwoProviders == {<<"h1", "p1">>, <<"h2", "p2">>}
ThreeProviders == {<<"h1", "p1">>, <<"h2", "p2">>, <<"h3", "p3">>}

\* What a provider and a client of Flip ask for; deregistering any signature is
\* delegated to deregisterServer.
FlipRequests ==
    {c \in Calls : c.op \in {"register", "deregister", "lookup"} /\ c.signature = Flip}
        \cup {c \in Calls : c.op = "deregister" /\ c.signature = Star}

ThreadSymmetry == Permutations(Threads)
=============================================================================
