--------------------------- MODULE SignatureWire ---------------------------
(***************************************************************************)
(* The way of a signature from the program that writes it to the registry  *)
(* that judges it.  The program constructs a ServiceSignature from a text  *)
(* or takes ServiceSignature::any; the request carries its canonical text; *)
(* the registry constructs one from that text to hold the request          *)
(* (registryregistrationrequest.cpp:24, registryservicerequest.cpp:21),    *)
(* takes the canonical text of that and constructs a third                 *)
(* (clienthandler.cpp:115, 122, 125, 140, 143), which it passes on.        *)
(***************************************************************************)
EXTENDS ServiceSignature

CONSTANT Written  \* the texts that programs write as signatures

ASSUME WrittenAssumption == Written \subseteq Texts

VARIABLES
    object,  \* the latest ServiceSignature of the signature
    first,   \* the one the program constructed
    place    \* where object is: "program", "request" or "registry"

vars == <<object, first, place>>

Objects == {Parse(t) : t \in Written} \cup {AnySignature}

Init ==
    /\ first \in Objects
    /\ object = first
    /\ place = "program"

\* A canonical text is read back.
Reread(from, to) ==
    /\ place = from
    /\ place' = to
    /\ object' = Parse(object.text)
    /\ UNCHANGED first

FromYaml == Reread("program", "request")
GenerateResponse == Reread("request", "registry")

\* The next request starts from another signature.
NextRequest ==
    /\ place = "registry"
    /\ place' = "program"
    /\ first' \in Objects
    /\ object' = first'

Next == FromYaml \/ GenerateResponse \/ NextRequest

Spec == Init /\ [][Next]_vars

-----------------------------------------------------------------------------

\* A valid signature arrives as it was sent: name, parameters and canonical
\* text (the loop of servicesignature.cpp:30-47 writes what it can read back).
ValidArrivesUnchanged == first.valid => object = first

\* The names that are words; sigPattern leaves no other of a text it matches.
Names == {TextOf(h, <<>>, 0, "exact") : h \in Words}

\* A valid signature arrives under its name, and a signature that is valid when it
\* arrives was sent under the name it has, unless what was sent had no word for a
\* name: a text without its closing parenthesis is its own name, and becomes a
\* valid signature with another when it is read again (servicesignature.cpp:24, 47).
NameOfMatchedIsKept ==
    first.valid \/ (object.valid /\ first.name \in Names) => object.name = first.name

\* Signatures that compare equal (servicesignature.h:66) are registered under one
\* name and take the same parameters, whichever texts they were read from.
EqualMeansInterchangeable ==
    \A t \in Written :
        LET other == Parse(t)
        IN  Same(other, object) =>
                /\ other.name = object.name
                /\ other.inputs = object.inputs
                /\ other.outputs = object.outputs

\* No signature that was read from a text is ServiceSignature::any.  In the
\* registry, comparisons with it (registryimpl.cpp:27, 45) can only be true of an
\* entry that operator[] has just made.
AnyIsNeverRead == place # "program" => ~Same(object, AnySignature)
=============================================================================
