-------------------------- MODULE MCRegistryServer --------------------------
(***************************************************************************)
(* Two programs: a provider that registers and deregisters a service, and  *)
(* one that looks it up, registers it with another signature or sends      *)
(* something that is no request.  BadFlip is malformed after its first     *)
(* argument, so that the registry receives the valid OtherFlip.            *)
(***************************************************************************)
EXTENDS RegistryServer, TLC

CONSTANTS provider, other

Star == [name |-> "*", text |-> "*", valid |-> FALSE]
ReadStar == [name |-> "*", text |-> "*()", valid |-> FALSE]
Flip == [name |-> "Flip", text |-> "Flip(in buffer)", valid |-> TRUE]
OtherFlip == [name |-> "Flip", text |-> "Flip(in string)", valid |-> TRUE]

MCNames == {"*", "Flip"}
MCSignatures == {Star, ReadStar, Flip, OtherFlip}
MCTexts == {s.text : s \in MCSignatures}
MCReceived == [s \in MCSignatures |-> IF s = Star THEN ReadStar ELSE s]
MCHosts == {"h1", "h2"}
MCPorts == {"p1", "p2"}
First == <<"h1", "p1">>
Second == <<"h2", "p2">>
MCProviders == {First, Second}

For(op, s, p) == [op |-> op, signature |-> s, provider |-> p]
Lookup(s) == [op |-> "getProvider", signature |-> s]
DeregisterProvider(p) == [op |-> "deregisterProvider", provider |-> p]
Garbage == [op |-> "garbage"]

\* The ordinary traffic of two programs.
Traffic ==
    (provider :> {For("registerService", Flip, First), For("deregisterService", Flip, First),
                  For("deregisterService", OtherFlip, First)})
        @@ (other :> {For("registerService", OtherFlip, Second),
                      For("deregisterService", OtherFlip, Second), Lookup(Flip), Garbage})

\* What wakes and stops the listener matters, not what is asked.
Little == (provider :> {For("registerService", Flip, First)}) @@ (other :> {Garbage})

WholeProvider ==
    (provider :> {For("registerService", Flip, First), DeregisterProvider(First)})
        @@ (other :> {Lookup(Flip)})

Symmetry == Permutations(Threads) \cup Permutations(Connections)
=============================================================================
