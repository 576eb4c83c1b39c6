----------------------------- MODULE IRegistry -----------------------------
(***************************************************************************)
(* The vocabulary of the registry's interface (libssoa/api/ssoa/registry/  *)
(* iregistry.h): what a caller passes to its four operations and what it   *)
(* gets back.  The abstract registry (RegistrySpec) and the implementation *)
(* (RegistryImpl) both speak it.                                           *)
(***************************************************************************)
EXTENDS Integers, Sequences, FiniteSets

CONSTANTS
    Threads,      \* the threads that call the registry (the listener's pool)
    Names,        \* service names
    Texts,        \* canonical texts of signatures
    Signatures,   \* ServiceSignature objects, as [name, text, valid] records
    AnySignature, \* ServiceSignature::any, the default-constructed object
    Hosts,
    Ports,
    Providers,    \* the host:port pairs the providers of the system listen on
    Requests      \* the calls that are made

ASSUME SignatureAssumption ==
    /\ Signatures \subseteq [name : Names, text : Texts, valid : BOOLEAN]
    /\ AnySignature \in Signatures
    /\ ~AnySignature.valid

\* Parsing never yields the text "*" of ServiceSignature::any, and two
\* signatures with one text have one name (TextsTellApart in SignatureWire_proofs).
ASSUME TextAssumption ==
    \A s, t \in Signatures :
        s.text = t.text => s.name = t.name /\ (s = AnySignature <=> t = AnySignature)

ASSUME ProviderAssumption == Providers \subseteq Hosts \X Ports

\* operator== and operator!= of ServiceSignature compare the canonical texts.
SameSignature(s, t) == s.text = t.text

Calls ==
    [op : {"register", "deregister"}, signature : Signatures, provider : Providers]
        \cup [op : {"deregisterServer"}, provider : Providers]
        \cup [op : {"lookup"}, signature : Signatures]

ASSUME RequestAssumption == Requests \subseteq Calls

\* The C++ empty string that host and port hold before lookupService assigns.
Empty == ""

(***************************************************************************)
(* What a call has produced so far: nothing yet, an exception, or a value  *)
(* (0 or 1 for a bool, the number of services for deregisterServer) with   *)
(* the host and port that lookupService hands out by reference.            *)
(***************************************************************************)
Outcomes == {"pending", "throws", "returns"}

Results ==
    [outcome : Outcomes, value : Nat, host : Hosts \cup {Empty}, port : Ports \cup {Empty}]

Pending == [outcome |-> "pending", value |-> 0, host |-> Empty, port |-> Empty]
Throws == [Pending EXCEPT !.outcome = "throws"]
Returns(v) == [Pending EXCEPT !.outcome = "returns", !.value = v]
Found(h, p) == [outcome |-> "returns", value |-> 1, host |-> h, port |-> p]

AsBool(b) == IF b THEN 1 ELSE 0
=============================================================================
