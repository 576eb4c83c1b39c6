---------------------------- MODULE RegistrySpec ----------------------------
(***************************************************************************)
(* What the registry promises its callers: every operation of IRegistry    *)
(* takes effect at one instant between its call and its return, on a table *)
(* that maps a service name to one signature and to the providers          *)
(* registered for it.  How the providers are stored, which of them is next *)
(* and how the callers exclude each other is left to RegistryImpl.         *)
(***************************************************************************)
EXTENDS IRegistry

VARIABLES
    table,   \* name -> [signature, providers], for the names that have a provider
    call,    \* thread -> the operation in progress, NoCall when there is none
    result   \* thread -> what that operation has produced

vars == <<table, call, result>>

NoCall == [op |-> "none"]

Entries == [signature : Signatures, providers : SUBSET Providers]

TypeOK ==
    /\ DOMAIN table \subseteq Names
    /\ \A n \in DOMAIN table : table[n] \in Entries
    /\ call \in [Threads -> Calls \cup {NoCall}]
    /\ result \in [Threads -> Results]

\* The table after the providers of its names became p[n]: a name without
\* providers has no entry.
WithProviders(p) ==
    [n \in {m \in DOMAIN table : p[m] # {}} |-> [table[n] EXCEPT !.providers = p[n]]]

Init ==
    /\ table = [n \in {} |-> Empty]
    /\ call = [t \in Threads |-> NoCall]
    /\ result = [t \in Threads |-> Pending]

Request(t) ==
    /\ call[t] = NoCall
    /\ \E c \in Requests : call' = [call EXCEPT ![t] = c]
    /\ UNCHANGED <<table, result>>

Finish(t, r) == result' = [result EXCEPT ![t] = r]

InProgress(t, op) == call[t].op = op /\ result[t].outcome = "pending"

(***************************************************************************)
(* Registration is refused for an invalid signature and for a name that is *)
(* already registered with another signature; 1 says the pair is new.      *)
(***************************************************************************)
Register(t) ==
    /\ InProgress(t, "register")
    /\ LET s == call[t].signature
           p == call[t].provider
           old == IF s.name \in DOMAIN table THEN table[s.name].providers ELSE {}
       IN  IF \/ ~s.valid
              \/ s.name \in DOMAIN table /\ ~SameSignature(table[s.name].signature, s)
           THEN Finish(t, Throws) /\ UNCHANGED table
           ELSE /\ Finish(t, Returns(AsBool(p \notin old)))
                /\ table' = [n \in DOMAIN table \cup {s.name} |->
                               IF n # s.name THEN table[n]
                               ELSE [signature |-> IF old = {} THEN s ELSE table[n].signature,
                                     providers |-> old \cup {p}]]
    /\ UNCHANGED call

RemoveEverywhere(p) == WithProviders([n \in DOMAIN table |-> table[n].providers \ {p}])

NamesOf(p) == {n \in DOMAIN table : p \in table[n].providers}

\* ServiceSignature::any removes the provider from every service.
Deregister(t) ==
    /\ InProgress(t, "deregister")
    /\ LET s == call[t].signature
           p == call[t].provider
           hit == s.name \in NamesOf(p) /\ SameSignature(table[s.name].signature, s)
       IN  IF SameSignature(s, AnySignature)
           THEN /\ Finish(t, Returns(AsBool(NamesOf(p) # {})))
                /\ table' = RemoveEverywhere(p)
           ELSE /\ Finish(t, Returns(AsBool(hit)))
                /\ table' = IF ~hit THEN table
                            ELSE WithProviders([n \in DOMAIN table |->
                                     table[n].providers \ (IF n = s.name THEN {p} ELSE {})])
    /\ UNCHANGED call

DeregisterServer(t) ==
    /\ InProgress(t, "deregisterServer")
    /\ LET p == call[t].provider
       IN  /\ Finish(t, Returns(Cardinality(NamesOf(p))))
           /\ table' = RemoveEverywhere(p)
    /\ UNCHANGED call

(***************************************************************************)
(* A lookup finds a service by its name.  Lookups that overlap advance the *)
(* round robin under each other, and all the implementation promises is    *)
(* the host of one registered pair and the port of one; RegistryLookups    *)
(* says what a lookup that is alone can rely on.                           *)
(***************************************************************************)
Answers(entry) == {p[1] : p \in entry.providers} \X {p[2] : p \in entry.providers}

Lookup(t) ==
    /\ InProgress(t, "lookup")
    /\ LET n == call[t].signature.name
       IN  IF n \in DOMAIN table
           THEN \E a \in Answers(table[n]) : Finish(t, Found(a[1], a[2]))
           ELSE Finish(t, Returns(0))
    /\ UNCHANGED <<table, call>>

Return(t) ==
    /\ result[t].outcome # "pending"
    /\ call' = [call EXCEPT ![t] = NoCall]
    /\ result' = [result EXCEPT ![t] = Pending]
    /\ UNCHANGED table

Perform(t) == Register(t) \/ Deregister(t) \/ DeregisterServer(t) \/ Lookup(t)

Next == \E t \in Threads : Request(t) \/ Perform(t) \/ Return(t)

\* Every operation in progress takes effect and returns.
Fairness == \A t \in Threads : WF_vars(Perform(t)) /\ WF_vars(Return(t))

Spec == Init /\ [][Next]_vars /\ Fairness
=============================================================================
