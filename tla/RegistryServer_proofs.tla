------------------------ MODULE RegistryServer_proofs ------------------------
(***************************************************************************)
(* Proofs about RegistryServer, for any number of programs, connections    *)
(* and threads, and any calls and signatures.  The invariant that carries  *)
(* them:                                                                   *)
(*   - a connection that a handler works on is in no other's hands;        *)
(*   - a request that was carried out is being answered, or was;           *)
(*   - a program in a call has one connection, and, unless disturbed, no   *)
(*     other request of its own is still to be carried out;                *)
(*   - what was carried out for it holds from then on.                     *)
(***************************************************************************)
EXTENDS RegistryServer, TLAPS

Holding == {"accept", "read", "respond"}
Handling == {"read", "respond"}

\* The connection of a handler is in the stage of that handler, and no other
\* handler has it; a request that is being handled is so by a thread.
TaskInv ==
    /\ \A t \in Threads :
          /\ task[t].handler = "accept" =>
                task[t].of \in Connections /\ conn[task[t].of].stage = "accepted"
          /\ task[t].handler \in Handling =>
                task[t].of \in Connections /\ conn[task[t].of].stage = "handling"
    /\ \A t, u \in Threads :
          task[t].handler \in Holding /\ task[u].handler \in Holding /\ task[t].of = task[u].of
             => t = u
    /\ \A c \in Connections :
          conn[c].stage = "handling" =>
             \E t \in Threads : task[t].handler \in Handling /\ task[t].of = c

BacklogInv ==
    \A i, j \in 1 .. Len(backlog) :
       /\ conn[backlog[i]].stage = "backlog"
       /\ backlog[i] = backlog[j] => i = j

\* A handler calls the registry with what it has read.
ReadInv ==
    \A t \in Threads :
       task[t].handler = "read" =>
          /\ conn[task[t].of].request # Malformed
          /\ call[t] = CallOf(conn[task[t].of].request)

ConnOk(c) ==
    /\ conn[c].stage = "free" => conn[c] = Free
    /\ conn[c].stage # "free" => conn[c].from \in Peers
    /\ conn[c].request # Silence => \E a \in Asked[conn[c].from] : conn[c].request = Message(a)
    /\ conn[c].stage = "handling" => conn[c].request # Silence
    /\ conn[c].answer # Silence => conn[c].stage \in {"written", "closed"}
    /\ conn[c].applied => conn[c].stage = "handling" \/ conn[c].answer # Silence
    /\ conn[c].there => outcome[conn[c].from] = "pending" /\ link[conn[c].from] = c

ConnInv == \A c \in Connections : ConnOk(c)

LinkOk(p) ==
    /\ outcome[p] = "pending" =>
          /\ link[p] \in Connections
          /\ conn[link[p]].from = p
          /\ conn[link[p]].there
          /\ conn[link[p]].request \in {Silence, Message(asks[p])}
    /\ outcome[p] \in {"pending", "returned"} => asks[p] \in Asked[p]

LinkInv == \A p \in Peers : LinkOk(p)

Settled(c) == conn[c].stage \in {"written", "closed"}

\* What a program that is not disturbed has asked for is settled, but for the
\* call it is in.
OwnInv ==
    \A p \in Peers \ disturbed, c \in Connections :
       outcome[p] \in {"pending", "returned"} /\ conn[c].from = p =>
          Settled(c) \/ (outcome[p] = "pending" /\ c = link[p])

\* The call of p was carried out by the registry, which did not refuse it.
CarriedOut(p) ==
    \/ outcome[p] = "returned"
    \/ outcome[p] = "pending" /\ conn[link[p]].answer # Silence /\ conn[link[p]].answer.successful
    \/ /\ outcome[p] = "pending"
       /\ \E t \in Threads : /\ task[t].handler = "respond"
                             /\ task[t].of = link[p]
                             /\ result[t].outcome = "returns"

Effect(p) ==
    LET s == Received[asks[p].signature]
    IN  /\ asks[p].op = "registerService" => Listed(s, asks[p].provider)
        /\ asks[p].op = "deregisterService" => ~Listed(s, asks[p].provider)

EffectInv == \A p \in Peers \ disturbed : CarriedOut(p) => Effect(p)

IInv ==
    /\ TypeOK
    /\ TaskInv
    /\ BacklogInv
    /\ ReadInv
    /\ ConnInv
    /\ LinkInv
    /\ OwnInv
    /\ EffectInv

-----------------------------------------------------------------------------
(* Messages.                                                               *)

LEMMA RequestOf ==
    ASSUME NEW p \in Peers, NEW a \in Asked[p]
    PROVE  /\ Message(a) \in Messages
           /\ Message(a) # Silence
           /\ Message(a) = Malformed <=> a.op = "garbage"
           /\ a.op = "registerService" =>
                 CallOf(Message(a)) =
                    [op |-> "register", signature |-> Received[a.signature], provider |-> a.provider]
           /\ a.op = "deregisterService" =>
                 CallOf(Message(a)) =
                    [op |-> "deregister", signature |-> Received[a.signature], provider |-> a.provider]
           /\ a.op # "garbage" =>
                 /\ CallOf(Message(a)).op \in {"lookup", "register", "deregister"}
                 /\ CallOf(Message(a)).signature \in Signatures \ {AnySignature}
                 /\ CallOf(Message(a)).op # "lookup" =>
                       /\ CallOf(Message(a)).provider = a.provider
                       /\ a.provider \in Providers
                       /\ a.op \notin {"getProvider", "garbage"}
<1>1. a \in Asks
  BY AskedAssumption
<1>2. Message(a) \in Messages
  BY DEF Messages, AllAsked
<1>3. AnySignature \in Signatures
  BY SignatureAssumption
<1>4. \A s \in Signatures : Received[s] \in Signatures \ {AnySignature}
  BY ReceivedAssumption
<1>5. CASE a.op = "getProvider"
  BY <1>1, <1>2, <1>4, <1>5 DEF Asks, Message, ServiceRequest, Malformed, Silence, CallOf
<1>6. CASE a.op = "registerService"
  BY <1>1, <1>2, <1>4, <1>6 DEF Asks, Message, Registration, Malformed, Silence, CallOf
<1>7. CASE a.op = "deregisterService"
  BY <1>1, <1>2, <1>4, <1>7 DEF Asks, Message, Registration, Malformed, Silence, CallOf
<1>8. CASE a.op = "deregisterProvider"
  BY <1>1, <1>2, <1>3, <1>4, <1>8 DEF Asks, Message, Registration, Malformed, Silence, CallOf
<1>9. CASE a.op = "garbage"
  BY <1>1, <1>2, <1>9 DEF Asks, Message, Malformed, Silence
<1> QED
  BY <1>1, <1>5, <1>6, <1>7, <1>8, <1>9 DEF Asks

LEMMA AnswerTypes ==
    /\ ErrorMessage \in Answers
    /\ ErrorMessage # Silence
    /\ \A m, r : Answer(m, r) \in Answers
    /\ \A a \in Answers : a # Silence
<1>1. ErrorMessage \in Answers /\ \A a \in Answers : a # Silence
  BY DEF ErrorMessage, Response, Answers, Silence
<1>2. ASSUME NEW m, NEW r
      PROVE  Answer(m, r) \in Answers
  BY DEF Answer, Response, Answers
<1> QED
  BY <1>1, <1>2

LEMMA MessagesSpeak == Silence \notin Messages
  BY RequestOf DEF Messages, AllAsked

-----------------------------------------------------------------------------
(* The table.                                                              *)

\* The instance of RegistrySpec brings the vocabulary of IRegistry once more.
LEMMA Vocabulary ==
    /\ Registry!Calls = Calls
    /\ Registry!Results = Results
    /\ Registry!Pending = Pending
    /\ Registry!Throws = Throws
    /\ \A v : Registry!Returns(v) = Returns(v)
    /\ \A h, p : Registry!Found(h, p) = Found(h, p)
    /\ \A b : Registry!AsBool(b) = AsBool(b)
    /\ \A s, t : Registry!SameSignature(s, t) <=> SameSignature(s, t)
<1>1. Registry!Empty = Empty /\ Registry!Outcomes = Outcomes
  BY DEF Registry!Empty, Empty, Registry!Outcomes, Outcomes
<1>2. Registry!Pending = Pending
  BY <1>1 DEF Registry!Pending, Pending
<1> QED
  BY <1>1, <1>2 DEF Registry!Calls, Calls, Registry!Results, Results, Registry!Throws, Throws,
        Registry!Returns, Returns, Registry!Found, Found, Registry!AsBool, AsBool,
        Registry!SameSignature, SameSignature

LEMMA ResultTypes ==
    /\ Pending \in Results
    /\ Throws \in Results
    /\ \A v \in Nat : Returns(v) \in Results
    /\ \A h \in Hosts, p \in Ports : Found(h, p) \in Results
    /\ \A b \in BOOLEAN : AsBool(b) \in Nat
    /\ Pending.outcome = "pending" /\ Throws.outcome = "throws"
    /\ \A v : Returns(v).outcome = "returns"
  BY DEF Results, Outcomes, Pending, Throws, Returns, Found, AsBool

\* A step that takes nothing but p from the providers of services.
TakesOnly(p) ==
    /\ DOMAIN table' \subseteq DOMAIN table
    /\ \A n \in DOMAIN table' :
          /\ table'[n] \in Registry!Entries
          /\ table'[n].signature = table[n].signature
          /\ table'[n].providers \subseteq table[n].providers
          /\ table[n].providers \subseteq table'[n].providers \cup {p}
    /\ \A n \in DOMAIN table \ DOMAIN table' : table[n].providers \subseteq {p}

LEMMA WithProvidersTakes ==
    ASSUME Registry!TypeOK, NEW p, NEW q,
           \A n \in DOMAIN table :
              q[n] \subseteq table[n].providers /\ table[n].providers \subseteq q[n] \cup {p},
           table' = Registry!WithProviders(q)
    PROVE  TakesOnly(p)
<1>1. /\ DOMAIN table' = {m \in DOMAIN table : q[m] # {}}
      /\ \A n \in DOMAIN table' : table'[n] = [table[n] EXCEPT !.providers = q[n]]
  BY DEF Registry!WithProviders
<1>2. \A n \in DOMAIN table : table[n] \in Registry!Entries
  BY DEF Registry!TypeOK
<1>3. ASSUME NEW n \in DOMAIN table'
      PROVE  /\ n \in DOMAIN table
             /\ table'[n] \in Registry!Entries
             /\ table'[n].signature = table[n].signature
             /\ table'[n].providers = q[n]
  BY <1>1, <1>2 DEF Registry!Entries
<1>4. ASSUME NEW n \in DOMAIN table \ DOMAIN table'
      PROVE  table[n].providers \subseteq {p}
  BY <1>1
<1> QED
  BY Zenon, <1>3, <1>4 DEF TakesOnly

LEMMA DeregisterStep ==
    ASSUME Registry!TypeOK, NEW t \in Threads, Registry!Deregister(t)
    PROVE  /\ UNCHANGED call
           /\ \E b \in BOOLEAN : result' = [result EXCEPT ![t] = Returns(AsBool(b))]
           /\ TakesOnly(call[t].provider)
<1> DEFINE s == call[t].signature
           p == call[t].provider
           hit == s.name \in Registry!NamesOf(p) /\ SameSignature(table[s.name].signature, s)
           everywhere == [n \in DOMAIN table |-> table[n].providers \ {p}]
           there == [n \in DOMAIN table |-> table[n].providers \ (IF n = s.name THEN {p} ELSE {})]
<1>1. /\ UNCHANGED call
      /\ \/ /\ SameSignature(s, AnySignature)
            /\ result' = [result EXCEPT ![t] = Returns(AsBool(Registry!NamesOf(p) # {}))]
            /\ table' = Registry!WithProviders(everywhere)
         \/ /\ ~SameSignature(s, AnySignature)
            /\ result' = [result EXCEPT ![t] = Returns(AsBool(hit))]
            /\ table' = IF ~hit THEN table ELSE Registry!WithProviders(there)
  BY Vocabulary DEF Registry!Deregister, Registry!Finish, Registry!RemoveEverywhere
<1>2. \A n \in DOMAIN table : everywhere[n] \subseteq table[n].providers /\ table[n].providers \subseteq everywhere[n] \cup {p}
  OBVIOUS
<1>3. \A n \in DOMAIN table : there[n] \subseteq table[n].providers /\ table[n].providers \subseteq there[n] \cup {p}
  OBVIOUS
<1>4. table' = table => TakesOnly(p)
  BY DEF TakesOnly, Registry!TypeOK
<1> HIDE DEF everywhere, there, hit
<1>5. TakesOnly(p)
  BY <1>1, <1>2, <1>3, <1>4, WithProvidersTakes
<1>6. \E b \in BOOLEAN : result' = [result EXCEPT ![t] = Returns(AsBool(b))]
  <2>1. (Registry!NamesOf(p) # {}) \in BOOLEAN /\ hit \in BOOLEAN
    BY DEF hit
  <2> QED
    BY <1>1, <2>1
<1> QED
  BY <1>1, <1>5, <1>6

\* The table stays of its type.
LEMMA PerformTypes ==
    ASSUME Registry!TypeOK, NEW t \in Threads, Registry!Perform(t),
           call[t].op \in {"lookup", "register", "deregister"},
           call[t].signature \in Signatures,
           call[t].op # "lookup" => call[t].provider \in Providers
    PROVE  Registry!TypeOK'
<1> USE DEF Registry!TypeOK
<1>1. CASE Registry!Register(t)
  <2> DEFINE s == call[t].signature
             p == call[t].provider
             old == IF s.name \in DOMAIN table THEN table[s.name].providers ELSE {}
  <2>1. call[t].op = "register" /\ s.name \in Names /\ UNCHANGED call
    BY <1>1, SignatureAssumption DEF Registry!Register, Registry!InProgress
  <2>2. CASE result' = [result EXCEPT ![t] = Throws] /\ UNCHANGED table
    BY <2>1, <2>2, ResultTypes, Vocabulary
  <2>3. CASE /\ result' = [result EXCEPT ![t] = Returns(AsBool(p \notin old))]
             /\ table' = [n \in DOMAIN table \cup {s.name} |->
                               IF n # s.name THEN table[n]
                               ELSE [signature |-> IF old = {} THEN s ELSE table[n].signature,
                                     providers |-> old \cup {p}]]
    <3>1. Returns(AsBool(p \notin old)) \in Results
      BY ResultTypes
    <3>2. old \in SUBSET Providers /\ (old # {} => s.name \in DOMAIN table)
      BY DEF Registry!Entries
    <3> HIDE DEF old
    <3>3. DOMAIN table' \subseteq Names /\ \A n \in DOMAIN table' : table'[n] \in Registry!Entries
      BY <2>1, <2>3, <3>2 DEF Registry!Entries
    <3> QED
      BY <2>1, <2>3, <3>1, <3>3, Vocabulary
  <2> QED
    BY <1>1, <2>2, <2>3, Vocabulary DEF Registry!Register, Registry!Finish
<1>2. CASE Registry!Deregister(t)
  <2>1. UNCHANGED call /\ \E b \in BOOLEAN : result' = [result EXCEPT ![t] = Returns(AsBool(b))]
    BY <1>2, DeregisterStep
  <2>2. DOMAIN table' \subseteq Names /\ \A n \in DOMAIN table' : table'[n] \in Registry!Entries
    BY <1>2, DeregisterStep DEF TakesOnly
  <2> QED
    BY <2>1, <2>2, ResultTypes, Vocabulary
<1>3. CASE Registry!Lookup(t)
  <2>1. UNCHANGED <<table, call>> /\ \E r \in Results : result' = [result EXCEPT ![t] = r]
    <3> DEFINE n == call[t].signature.name
    <3>1. CASE n \in DOMAIN table
      <4>1. PICK a \in Registry!Answers(table[n]) : result' = [result EXCEPT ![t] = Found(a[1], a[2])]
        BY <1>3, <3>1, Vocabulary DEF Registry!Lookup, Registry!Finish
      <4>2. a[1] \in Hosts /\ a[2] \in Ports
        BY <3>1, ProviderAssumption DEF Registry!Answers, Registry!Entries
      <4> QED
        BY <1>3, <4>1, <4>2, ResultTypes DEF Registry!Lookup
    <3>2. CASE n \notin DOMAIN table
      BY <1>3, <3>2, ResultTypes, Vocabulary DEF Registry!Lookup, Registry!Finish
    <3> QED
      BY <3>1, <3>2
  <2> QED
    BY <2>1, Vocabulary
<1>4. CASE Registry!DeregisterServer(t)
  BY <1>4 DEF Registry!DeregisterServer, Registry!InProgress
<1> QED
  BY <1>1, <1>2, <1>3, <1>4 DEF Registry!Perform

\* A call touches what is listed of its own provider only.
LEMMA Stable ==
    ASSUME Registry!TypeOK, NEW t \in Threads, Registry!Perform(t),
           call[t].op \in {"lookup", "register", "deregister"},
           NEW s, NEW p,
           call[t].op # "lookup" => call[t].provider # p
    PROVE  Listed(s, p) <=> Listed(s, p)'
<1>1. CASE Registry!Register(t)
  <2> DEFINE z == call[t].signature
             q == call[t].provider
             old == IF z.name \in DOMAIN table THEN table[z.name].providers ELSE {}
  <2>1. q # p
    BY <1>1 DEF Registry!Register, Registry!InProgress
  <2>2. CASE UNCHANGED table
    BY <2>2 DEF Listed
  <2>3. CASE table' = [n \in DOMAIN table \cup {z.name} |->
                               IF n # z.name THEN table[n]
                               ELSE [signature |-> IF old = {} THEN z ELSE table[n].signature,
                                     providers |-> old \cup {q}]]
    <3>1. CASE s.name # z.name
      BY <2>3, <3>1 DEF Listed
    <3>2. CASE s.name = z.name /\ p \in old
      <4>1. old # {} /\ s.name \in DOMAIN table /\ p \in table[s.name].providers
        BY <3>2
      <4>2. /\ s.name \in DOMAIN table'
            /\ table'[s.name].signature = table[s.name].signature
            /\ p \in table'[s.name].providers
        BY <2>3, <3>2, <4>1
      <4> QED
        BY <4>1, <4>2 DEF Listed
    <3>3. CASE s.name = z.name /\ p \notin old
      <4>1. ~Listed(s, p)
        BY <3>3 DEF Listed
      <4>2. table'[s.name].providers = old \cup {q}
        BY <2>3, <3>3
      <4> QED
        BY <2>1, <3>3, <4>1, <4>2 DEF Listed
    <3> QED
      BY <3>1, <3>2, <3>3
  <2> QED
    BY <1>1, <2>2, <2>3, Vocabulary DEF Registry!Register, Registry!Finish
<1>2. CASE Registry!Deregister(t)
  <2>1. TakesOnly(call[t].provider) /\ call[t].provider # p
    BY <1>2, DeregisterStep DEF Registry!Deregister, Registry!InProgress
  <2>2. CASE s.name \in DOMAIN table'
    BY <2>1, <2>2 DEF TakesOnly, Listed
  <2>3. CASE s.name \notin DOMAIN table'
    BY <2>1, <2>3 DEF TakesOnly, Listed
  <2> QED
    BY <2>2, <2>3
<1>3. CASE Registry!Lookup(t)
  BY <1>3 DEF Registry!Lookup, Listed
<1>4. CASE Registry!DeregisterServer(t)
  BY <1>4 DEF Registry!DeregisterServer, Registry!InProgress
<1> QED
  BY <1>1, <1>2, <1>3, <1>4 DEF Registry!Perform

\* What a registration that is not refused, and a removal, have brought about.
LEMMA Registers ==
    ASSUME Registry!TypeOK, NEW t \in Threads, Registry!Perform(t),
           call[t].op = "register", result'[t].outcome = "returns"
    PROVE  Listed(call[t].signature, call[t].provider)'
<1> DEFINE z == call[t].signature
           q == call[t].provider
           old == IF z.name \in DOMAIN table THEN table[z.name].providers ELSE {}
<1>1. Registry!Register(t)
  BY DEF Registry!Perform, Registry!Deregister, Registry!DeregisterServer, Registry!Lookup,
         Registry!InProgress
<1>2. result'[t].outcome # "throws"
  OBVIOUS
<1>3. result' # [result EXCEPT ![t] = Throws]
  BY <1>2, ResultTypes DEF Registry!TypeOK
<1>4. /\ ~(z.name \in DOMAIN table /\ ~SameSignature(table[z.name].signature, z))
      /\ table' = [n \in DOMAIN table \cup {z.name} |->
                               IF n # z.name THEN table[n]
                               ELSE [signature |-> IF old = {} THEN z ELSE table[n].signature,
                                     providers |-> old \cup {q}]]
      /\ UNCHANGED call
  BY <1>1, <1>3, Vocabulary DEF Registry!Register, Registry!Finish
<1>5. /\ z.name \in DOMAIN table'
      /\ q \in table'[z.name].providers
      /\ table'[z.name].signature = (IF old = {} THEN z ELSE table[z.name].signature)
  BY <1>4
<1>6. SameSignature(table'[z.name].signature, z)
  <2>1. CASE old = {}
    BY <1>5, <2>1 DEF SameSignature
  <2>2. CASE old # {}
    BY <1>4, <1>5, <2>2 DEF SameSignature
  <2> QED
    BY <2>1, <2>2
<1> QED
  BY <1>4, <1>5, <1>6 DEF Listed, SameSignature

LEMMA Deregisters ==
    ASSUME Registry!TypeOK, NEW t \in Threads, Registry!Perform(t),
           call[t].op = "deregister", call[t].signature \in Signatures \ {AnySignature}
    PROVE  ~Listed(call[t].signature, call[t].provider)'
<1> DEFINE s == call[t].signature
           p == call[t].provider
           hit == s.name \in Registry!NamesOf(p) /\ SameSignature(table[s.name].signature, s)
           there == [n \in DOMAIN table |-> table[n].providers \ (IF n = s.name THEN {p} ELSE {})]
<1>1. Registry!Deregister(t)
  BY DEF Registry!Perform, Registry!Register, Registry!DeregisterServer, Registry!Lookup,
         Registry!InProgress
<1>2. ~SameSignature(s, AnySignature)
  BY SignatureAssumption, TextAssumption DEF SameSignature
<1>3. /\ UNCHANGED call
      /\ table' = IF ~hit THEN table ELSE Registry!WithProviders(there)
  BY <1>1, <1>2, Vocabulary DEF Registry!Deregister
<1>4. CASE hit
  <2>1. s.name \in DOMAIN table' => p \notin table'[s.name].providers
    BY <1>3, <1>4 DEF Registry!WithProviders
  <2> QED
    BY <1>3, <2>1 DEF Listed
<1>5. CASE ~hit
  BY <1>3, <1>5 DEF Listed, Registry!NamesOf, SameSignature
<1> QED
  BY <1>4, <1>5

-----------------------------------------------------------------------------
(* Connections.                                                            *)

Sockets == [stage : Stages, from : Peers \cup {None}, there : BOOLEAN,
            request : Messages \cup {Silence}, answer : Answers \cup {Silence},
            applied : BOOLEAN]

LEMMA SocketTypes ==
    /\ TypeOK => conn \in [Connections -> Sockets]
    /\ Free \in Sockets
    /\ Free.stage = "free" /\ Free.from = None /\ Free.from \notin Peers /\ ~Free.there
    /\ Free.request = Silence /\ Free.answer = Silence /\ ~Free.applied
<1>1. Free \in Sockets
  BY DEF Free, Sockets, Stages
<1>2. TypeOK => conn \in [Connections -> Sockets]
  BY DEF TypeOK, Sockets
<1> QED
  BY <1>1, <1>2, NoneAssumption DEF Free

\* A step that leaves all of the connections but c.
Only(c) == \A d \in Connections \ {c} : conn'[d] = conn[d]

\* What a connection holds of its call, apart from how far it has come.
SameContent(c) ==
    /\ conn'[c].from = conn[c].from
    /\ conn'[c].there = conn[c].there
    /\ conn'[c].request = conn[c].request
    /\ conn'[c].answer = conn[c].answer
    /\ conn'[c].applied = conn[c].applied

LEMMA StageStep ==
    ASSUME TypeOK, NEW c \in Connections, NEW s \in Stages,
           conn' = [conn EXCEPT ![c].stage = s]
    PROVE  conn' \in [Connections -> Sockets] /\ Only(c) /\ SameContent(c) /\ conn'[c].stage = s
<1>1. conn \in [Connections -> Sockets]
  BY SocketTypes
<1> QED
  BY <1>1 DEF Sockets, Only, SameContent

\* The server closes its end of c.
Closes(c) ==
    /\ conn' \in [Connections -> Sockets]
    /\ Only(c)
    /\ \/ conn'[c] = Free /\ ~conn[c].there
       \/ conn'[c].stage = "closed" /\ conn[c].there /\ SameContent(c)

LEMMA CloseStep ==
    ASSUME TypeOK, NEW c \in Connections, Release(c, [conn[c] EXCEPT !.stage = "closed"])
    PROVE  Closes(c)
<1> DEFINE left == [conn[c] EXCEPT !.stage = "closed"]
<1>1. conn \in [Connections -> Sockets] /\ Free \in Sockets
  BY SocketTypes
<1>2. conn[c] \in Sockets
  BY <1>1
<1>3. /\ left \in Sockets /\ left.stage = "closed"
      /\ left.from = conn[c].from /\ left.there = conn[c].there
      /\ left.request = conn[c].request /\ left.answer = conn[c].answer
      /\ left.applied = conn[c].applied
  BY <1>2 DEF Sockets, Stages
<1> HIDE DEF left
<1>4. conn' = [conn EXCEPT ![c] = IF left.stage = "closed" /\ ~left.there THEN Free ELSE left]
  BY DEF Release, left
<1>5. CASE conn[c].there
  <2>1. conn' = [conn EXCEPT ![c] = left]
    BY <1>3, <1>4, <1>5
  <2>2. conn' \in [Connections -> Sockets] /\ Only(c) /\ conn'[c] = left
    BY <1>1, <1>3, <2>1 DEF Only
  <2> QED
    BY <1>3, <1>5, <2>2 DEF Closes, SameContent
<1>6. CASE ~conn[c].there
  <2>1. conn' = [conn EXCEPT ![c] = Free]
    BY <1>3, <1>4, <1>6
  <2> QED
    BY <1>1, <1>6, <2>1 DEF Closes, Only
<1> QED
  BY <1>5, <1>6

\* The program closes its end of c.
Leaves(c) ==
    /\ conn' \in [Connections -> Sockets]
    /\ Only(c)
    /\ \/ conn'[c] = Free /\ conn[c].stage = "closed"
       \/ /\ conn'[c].stage = conn[c].stage
          /\ conn'[c].from = conn[c].from
          /\ ~conn'[c].there
          /\ conn'[c].request = conn[c].request
          /\ conn'[c].answer = conn[c].answer
          /\ conn'[c].applied = conn[c].applied

LEMMA LeaveStep ==
    ASSUME TypeOK, NEW c \in Connections, Release(c, [conn[c] EXCEPT !.there = FALSE])
    PROVE  Leaves(c)
<1> DEFINE left == [conn[c] EXCEPT !.there = FALSE]
<1>1. conn \in [Connections -> Sockets] /\ Free \in Sockets
  BY SocketTypes
<1>2. conn[c] \in Sockets
  BY <1>1
<1>3. /\ left \in Sockets /\ left.stage = conn[c].stage
      /\ left.from = conn[c].from /\ ~left.there
      /\ left.request = conn[c].request /\ left.answer = conn[c].answer
      /\ left.applied = conn[c].applied
  BY <1>2 DEF Sockets
<1> HIDE DEF left
<1>4. conn' = [conn EXCEPT ![c] = IF left.stage = "closed" /\ ~left.there THEN Free ELSE left]
  BY DEF Release, left
<1>5. CASE conn[c].stage # "closed"
  <2>1. conn' = [conn EXCEPT ![c] = left]
    BY <1>3, <1>4, <1>5
  <2>2. conn' \in [Connections -> Sockets] /\ Only(c) /\ conn'[c] = left
    BY <1>1, <1>3, <2>1 DEF Only
  <2> QED
    BY <1>3, <1>5, <2>2 DEF Leaves
<1>6. CASE conn[c].stage = "closed"
  <2>1. conn' = [conn EXCEPT ![c] = Free]
    BY <1>3, <1>4, <1>6
  <2> QED
    BY <1>1, <1>6, <2>1 DEF Leaves, Only
<1> QED
  BY <1>5, <1>6

-----------------------------------------------------------------------------
(* The initial states.                                                     *)

LEMMA InitHolds == Init => IInv
<1> SUFFICES ASSUME Init PROVE IInv
  OBVIOUS
<1>1. conn \in [Connections -> Sockets] /\ \A c \in Connections : conn[c] = Free
  BY SocketTypes DEF Init
<1>2. Registry!TypeOK
  <2>1. DOMAIN table = {}
    BY DEF Init, Registry!Init
  <2>2. result \in [Threads -> Registry!Results]
    BY ResultTypes, Vocabulary DEF Init, Registry!Init
  <2>3. call \in [Threads -> Registry!Calls \cup {Registry!NoCall}]
    BY DEF Init, Registry!Init
  <2> QED
    BY <2>1, <2>2, <2>3 DEF Registry!TypeOK
<1>3. TypeOK
  <2>1. /\ task \in [Threads -> [handler : {"none", "accept", "next", "read", "respond"},
                             of : Connections \cup {None}]]
        /\ backlog \in Seq(Connections)
    BY DEF Init, Idle
  <2> QED
    BY <2>1, <1>1, <1>2 DEF Init, TypeOK, Sockets
<1>4. TaskInv /\ ReadInv
  BY <1>1, SocketTypes DEF Init, TaskInv, ReadInv, Idle, Holding, Handling
<1>5. BacklogInv
  BY DEF Init, BacklogInv
<1>6. ConnInv
  BY <1>1, SocketTypes DEF ConnInv, ConnOk
<1>7. LinkInv /\ OwnInv /\ EffectInv
  BY <1>1, SocketTypes DEF Init, LinkInv, LinkOk, OwnInv, EffectInv, CarriedOut
<1> QED
  BY <1>3, <1>4, <1>5, <1>6, <1>7 DEF IInv

-----------------------------------------------------------------------------
(* The steps of the programs.                                              *)

LEMMA HangupKept ==
    ASSUME IInv, NEW p \in Peers, NEW how \in {"returned", "threw", "lost", "killed"},
           outcome[p] = "pending", Hangup(p, how),
           how = "returned" => conn[link[p]].answer # Silence /\ conn[link[p]].answer.successful,
           UNCHANGED <<registry, listener, asks, disturbed>>
    PROVE  IInv'
<1> DEFINE c == link[p]
<1> USE DEF IInv
<1>1. c \in Connections /\ conn[c].from = p
  BY DEF LinkInv, LinkOk
<1>2. /\ outcome' \in [Peers -> {"none", "pending", "returned", "threw", "lost", "killed"}]
      /\ outcome'[p] = how
      /\ \A q \in Peers \ {p} : outcome'[q] = outcome[q]
  BY DEF Hangup, Ends, TypeOK
<1>3. /\ link' \in [Peers -> Connections \cup {None}]
      /\ \A q \in Peers \ {p} : link'[q] = link[q]
  BY DEF Hangup, TypeOK
<1>4. Leaves(c)
  BY <1>1, LeaveStep DEF Hangup
<1> HIDE DEF c
<1>5. \A d \in Connections \ {c} : conn'[d] = conn[d]
  BY <1>4 DEF Leaves, Only
<1>6. conn'[c] = Free => conn'[c].stage = "free" /\ conn'[c].from \notin Peers
                           /\ conn'[c].request = Silence /\ conn'[c].answer = Silence
                           /\ ~conn'[c].applied /\ ~conn'[c].there
  BY SocketTypes
<1>7. /\ UNCHANGED <<table, call, result, server, signalled, accepting, backlog, task, asks>>
      /\ UNCHANGED disturbed
  BY DEF registry, listener
<1>8. TypeOK'
  <2>1. Registry!TypeOK'
    BY <1>7 DEF TypeOK, Registry!TypeOK
  <2>2. conn' \in [Connections -> Sockets]
    BY <1>4 DEF Leaves
  <2> QED
    BY <1>2, <1>3, <1>7, <2>1, <2>2 DEF TypeOK, Sockets
<1>9. \A d \in Connections :
         \/ conn'[d].stage = conn[d].stage
         \/ conn[d].stage = "closed" /\ conn'[d].stage = "free"
  BY <1>4, <1>5, <1>6 DEF Leaves
<1>10. TaskInv'
  BY <1>7, <1>9 DEF TaskInv, Handling, Holding
<1>11. BacklogInv'
  <2>1. \A i \in 1 .. Len(backlog) : backlog[i] \in Connections
    BY DEF TypeOK
  <2> QED
    BY <1>7, <1>9, <2>1 DEF BacklogInv
<1>12. ReadInv'
  <2>1. \A t \in Threads : task[t].handler = "read" =>
           conn'[task[t].of].request = conn[task[t].of].request
    BY <1>4, <1>5 DEF Leaves, TaskInv, Handling
  <2> QED
    BY <1>7, <2>1 DEF ReadInv
<1>13. ConnInv'
  <2> SUFFICES ASSUME NEW d \in Connections
               PROVE  ConnOk(d)'
    BY DEF ConnInv
  <2>1. CASE d = c
    <3>1. ConnOk(c)
      BY <1>1 DEF ConnInv
    <3>2. CASE conn'[c] = Free
      BY <1>6, <2>1, <3>2 DEF ConnOk
    <3>3. CASE conn'[c] # Free
      <4>1. /\ conn'[c].stage = conn[c].stage
            /\ conn'[c].from = conn[c].from
            /\ ~conn'[c].there
            /\ conn'[c].request = conn[c].request
            /\ conn'[c].answer = conn[c].answer
            /\ conn'[c].applied = conn[c].applied
        BY <1>4, <3>3 DEF Leaves
      <4>2. conn[c].stage # "free"
        BY <1>1, SocketTypes, <3>1 DEF ConnOk
      <4> QED
        BY <2>1, <3>1, <4>1, <4>2 DEF ConnOk
    <3> QED
      BY <3>2, <3>3
  <2>2. CASE d # c
    <3>1. conn[d].there => conn[d].from # p
      BY <2>2 DEF ConnInv, ConnOk, c
    <3>2. conn[d].stage # "free" => conn[d].from \in Peers
      BY DEF ConnInv, ConnOk
    <3>3. conn[d].there => conn[d].stage # "free"
      BY SocketTypes DEF ConnInv, ConnOk
    <3> QED
      BY <1>2, <1>3, <1>5, <2>2, <3>1, <3>2, <3>3 DEF ConnInv, ConnOk
  <2> QED
    BY <2>1, <2>2
<1>14. LinkInv'
  <2> SUFFICES ASSUME NEW q \in Peers
               PROVE  LinkOk(q)'
    BY DEF LinkInv
  <2>1. CASE q = p
    BY <1>2, <1>7, <2>1 DEF LinkInv, LinkOk
  <2>2. CASE q # p
    <3>1. outcome[q] = "pending" => link[q] \in Connections /\ link[q] # c
      BY <1>1, <2>2 DEF LinkInv, LinkOk
    <3> QED
      BY <1>2, <1>3, <1>5, <1>7, <2>2, <3>1 DEF LinkInv, LinkOk
  <2> QED
    BY <2>1, <2>2
<1>15. OwnInv'
  <2> SUFFICES ASSUME NEW q \in Peers \ disturbed, NEW d \in Connections,
                      outcome'[q] \in {"pending", "returned"}, conn'[d].from = q
               PROVE  Settled(d)' \/ (outcome'[q] = "pending" /\ d = link'[q])
    BY <1>7 DEF OwnInv
  <2>1. conn[d].from = q /\ conn'[d].stage = conn[d].stage
    BY <1>4, <1>5, <1>6 DEF Leaves
  <2>2. CASE q # p
    <3>1. Settled(d) \/ (outcome[q] = "pending" /\ d = link[q])
      BY <1>2, <2>1, <2>2 DEF OwnInv
    <3> QED
      BY <1>2, <1>3, <2>1, <2>2, <3>1 DEF Settled
  <2>3. CASE q = p
    <3>1. how = "returned"
      BY <1>2, <2>3
    <3>2. Settled(c)
      BY <1>1, <3>1 DEF ConnInv, ConnOk, Settled, c
    <3>3. Settled(d) \/ d = c
      BY <2>1, <2>3 DEF OwnInv, c
    <3> QED
      BY <2>1, <3>2, <3>3 DEF Settled
  <2> QED
    BY <2>2, <2>3
<1>16. EffectInv'
  <2> SUFFICES ASSUME NEW q \in Peers \ disturbed, CarriedOut(q)'
               PROVE  Effect(q)'
    BY <1>7 DEF EffectInv
  <2>1. CarriedOut(q)
    <3>1. CASE q = p
      BY <1>2, <3>1 DEF CarriedOut
    <3>2. CASE q # p
      <4>1. outcome[q] = "pending" => link[q] \in Connections /\ link[q] # c
        BY <1>1, <3>2 DEF LinkInv, LinkOk
      <4> QED
        BY <1>2, <1>3, <1>5, <1>7, <3>2, <4>1 DEF CarriedOut
    <3> QED
      BY <3>1, <3>2
  <2> QED
    BY <1>7, <2>1 DEF EffectInv, Effect, Listed
<1> QED
  BY <1>8, <1>10, <1>11, <1>12, <1>13, <1>14, <1>15, <1>16

LEMMA ConnectKept ==
    ASSUME IInv, NEW p \in Peers, Connect(p)
    PROVE  IInv'
<1> USE DEF IInv
<1>1. /\ UNCHANGED <<table, call, result, server, signalled, accepting, task>>
      /\ outcome[p] # "pending"
  BY DEF Connect, registry
<1>2. PICK a \in Asked[p] : asks' = [asks EXCEPT ![p] = a]
  BY DEF Connect
<1>3. /\ asks' \in [Peers -> AllAsked \cup {None}]
      /\ asks'[p] \in Asked[p]
      /\ \A q \in Peers \ {p} : asks'[q] = asks[q]
  BY <1>2 DEF TypeOK, AllAsked
<1>4. Registry!TypeOK'
  BY <1>1 DEF TypeOK, Registry!TypeOK
<1>5. CASE Ends(p, "lost") /\ UNCHANGED <<conn, link, backlog, disturbed>>
  <2>1. /\ outcome' \in [Peers -> {"none", "pending", "returned", "threw", "lost", "killed"}]
        /\ outcome'[p] = "lost"
        /\ \A q \in Peers \ {p} : outcome'[q] = outcome[q]
    BY <1>5 DEF Ends, TypeOK
  <2>2. TypeOK'
    BY <1>1, <1>3, <1>4, <1>5, <2>1 DEF TypeOK
  <2>3. TaskInv' /\ BacklogInv' /\ ReadInv'
    BY <1>1, <1>5 DEF TaskInv, BacklogInv, ReadInv
  <2>4. ConnInv'
    <3>1. \A c \in Connections : conn[c].there => conn[c].stage # "free"
      BY SocketTypes DEF ConnInv, ConnOk
    <3>2. \A c \in Connections : conn[c].there => conn[c].from \in Peers \ {p}
      BY <1>1, <3>1 DEF ConnInv, ConnOk
    <3> QED
      BY <1>5, <2>1, <3>2 DEF ConnInv, ConnOk
  <2>5. LinkInv'
    BY <1>3, <1>5, <2>1 DEF LinkInv, LinkOk
  <2>6. OwnInv'
    BY <1>5, <2>1 DEF OwnInv, Settled
  <2>7. EffectInv'
    BY <1>1, <1>3, <1>5, <2>1 DEF EffectInv, CarriedOut, Effect, Listed
  <2> QED
    BY <2>2, <2>3, <2>4, <2>5, <2>6, <2>7
<1>6. CASE \E c \in Connections :
              /\ conn[c].stage = "free"
              /\ conn' = [conn EXCEPT ![c] =
                            [Free EXCEPT !.stage = "backlog", !.from = p, !.there = TRUE]]
              /\ link' = [link EXCEPT ![p] = c]
              /\ backlog' = Append(backlog, c)
              /\ Ends(p, "pending")
              /\ disturbed' = IF \E d \in Connections : conn[d].from = p
                              THEN disturbed \cup {p} ELSE disturbed \ {p}
  <2> PICK c \in Connections :
              /\ conn[c].stage = "free"
              /\ conn' = [conn EXCEPT ![c] =
                            [Free EXCEPT !.stage = "backlog", !.from = p, !.there = TRUE]]
              /\ link' = [link EXCEPT ![p] = c]
              /\ backlog' = Append(backlog, c)
              /\ Ends(p, "pending")
              /\ disturbed' = IF \E d \in Connections : conn[d].from = p
                              THEN disturbed \cup {p} ELSE disturbed \ {p}
    BY <1>6
  <2>1. /\ outcome' \in [Peers -> {"none", "pending", "returned", "threw", "lost", "killed"}]
        /\ outcome'[p] = "pending"
        /\ \A q \in Peers \ {p} : outcome'[q] = outcome[q]
    BY DEF Ends, TypeOK
  <2>2. /\ link' \in [Peers -> Connections \cup {None}]
        /\ link'[p] = c
        /\ \A q \in Peers \ {p} : link'[q] = link[q]
    BY DEF TypeOK
  <2>3. conn[c] = Free
    BY DEF ConnInv, ConnOk
  <2>4. /\ conn' \in [Connections -> Sockets]
        /\ \A d \in Connections \ {c} : conn'[d] = conn[d]
        /\ conn'[c].stage = "backlog" /\ conn'[c].from = p /\ conn'[c].there
        /\ conn'[c].request = Silence /\ conn'[c].answer = Silence /\ ~conn'[c].applied
    <3> DEFINE new == [Free EXCEPT !.stage = "backlog", !.from = p, !.there = TRUE]
    <3>1. new \in Sockets /\ new.stage = "backlog" /\ new.from = p /\ new.there
          /\ new.request = Silence /\ new.answer = Silence /\ ~new.applied
      BY DEF Free, Sockets, Stages
    <3>2. conn' = [conn EXCEPT ![c] = new] /\ conn \in [Connections -> Sockets]
      BY SocketTypes
    <3> HIDE DEF new
    <3> QED
      BY <3>1, <3>2
  <2>5. /\ disturbed' \subseteq Peers
        /\ \A q \in Peers \ {p} : q \in disturbed' <=> q \in disturbed
        /\ p \notin disturbed' => \A d \in Connections : conn[d].from # p
    BY DEF TypeOK
  <2>6. /\ backlog' \in Seq(Connections)
        /\ Len(backlog') = Len(backlog) + 1
        /\ \A i \in 1 .. Len(backlog) : backlog'[i] = backlog[i] /\ backlog[i] \in Connections
        /\ backlog'[Len(backlog) + 1] = c
        /\ Len(backlog) \in Nat
    BY DEF TypeOK
  <2>7. TypeOK'
    BY <1>1, <1>3, <1>4, <2>1, <2>2, <2>4, <2>5, <2>6 DEF TypeOK, Sockets
  <2>8. TaskInv'
    BY <1>1, <2>3, <2>4, SocketTypes DEF TaskInv, Handling
  <2>9. BacklogInv'
    <3>1. \A i \in 1 .. Len(backlog) : backlog[i] # c
      BY <2>3, SocketTypes DEF BacklogInv
    <3>2. \A i \in 1 .. Len(backlog') : i \in 1 .. Len(backlog) \/ i = Len(backlog) + 1
      BY <2>6
    <3>3. \A i \in 1 .. Len(backlog') : conn'[backlog'[i]].stage = "backlog"
      BY <2>4, <2>6, <3>1, <3>2 DEF BacklogInv
    <3>4. \A i, j \in 1 .. Len(backlog') : backlog'[i] = backlog'[j] => i = j
      BY <2>6, <3>1, <3>2 DEF BacklogInv
    <3> QED
      BY <3>3, <3>4 DEF BacklogInv
  <2>10. ReadInv'
    <3>1. \A t \in Threads : task[t].handler = "read" =>
             task[t].of \in Connections /\ task[t].of # c
      BY <2>3, SocketTypes DEF TaskInv, Handling
    <3> QED
      BY <1>1, <2>4, <3>1 DEF ReadInv
  <2>11. ConnInv'
    <3> SUFFICES ASSUME NEW d \in Connections
                 PROVE  ConnOk(d)'
      BY DEF ConnInv
    <3>1. CASE d = c
      BY <2>1, <2>2, <2>4, <3>1 DEF ConnOk
    <3>2. CASE d # c
      <4>1. ConnOk(d)
        BY DEF ConnInv
      <4>2. conn[d].there => conn[d].stage # "free"
        BY <4>1, SocketTypes DEF ConnOk
      <4>3. conn[d].there => conn[d].from \in Peers \ {p}
        BY <1>1, <4>1, <4>2 DEF ConnOk
      <4> QED
        BY <2>1, <2>2, <2>4, <3>2, <4>1, <4>3 DEF ConnOk
    <3> QED
      BY <3>1, <3>2
  <2>12. \A q \in Peers \ {p} : outcome[q] = "pending" => link[q] \in Connections /\ link[q] # c
    BY <2>3, SocketTypes DEF LinkInv, LinkOk
  <2>13. LinkInv'
    <3> SUFFICES ASSUME NEW q \in Peers
                 PROVE  LinkOk(q)'
      BY DEF LinkInv
    <3>1. CASE q = p
      BY <1>3, <2>1, <2>2, <2>4, <3>1 DEF LinkOk
    <3>2. CASE q # p
      BY <1>3, <2>1, <2>2, <2>4, <2>12, <3>2 DEF LinkInv, LinkOk
    <3> QED
      BY <3>1, <3>2
  <2>14. OwnInv'
    <3> SUFFICES ASSUME NEW q \in Peers \ disturbed', NEW d \in Connections,
                        outcome'[q] \in {"pending", "returned"}, conn'[d].from = q
                 PROVE  Settled(d)' \/ (outcome'[q] = "pending" /\ d = link'[q])
      BY DEF OwnInv
    <3>1. CASE q = p
      BY <2>1, <2>2, <2>4, <2>5, <3>1
    <3>2. CASE q # p
      BY <2>1, <2>2, <2>4, <2>5, <3>2 DEF OwnInv, Settled
    <3> QED
      BY <3>1, <3>2
  <2>15. EffectInv'
    <3> SUFFICES ASSUME NEW q \in Peers \ disturbed', CarriedOut(q)'
                 PROVE  Effect(q)'
      BY DEF EffectInv
    <3>1. q # p
      <4>1. \A t \in Threads : task[t].handler = "respond" => task[t].of # c
        BY <2>3, SocketTypes DEF TaskInv, Handling
      <4> QED
        BY <1>1, <2>1, <2>2, <2>4, <4>1 DEF CarriedOut
    <3>2. CarriedOut(q)
      BY <1>1, <2>1, <2>2, <2>4, <2>12, <3>1 DEF CarriedOut
    <3> QED
      BY <1>1, <1>3, <2>5, <3>1, <3>2 DEF EffectInv, Effect, Listed
  <2> QED
    BY <2>7, <2>8, <2>9, <2>10, <2>11, <2>13, <2>14, <2>15
<1> QED
  BY <1>5, <1>6 DEF Connect

LEMMA WriteKept ==
    ASSUME IInv, NEW p \in Peers, Write(p)
    PROVE  IInv'
<1> DEFINE c == link[p]
           m == Message(asks[p])
<1> USE DEF IInv
<1>1. /\ UNCHANGED <<table, call, result, server, signalled, accepting, backlog, task>>
      /\ UNCHANGED <<asks, link, outcome, disturbed>>
  BY DEF Write, registry, listener, peers
<1>2. /\ outcome[p] = "pending"
      /\ conn[c].request = Silence
      /\ conn' = [conn EXCEPT ![c].request = m]
  BY DEF Write
<1>3. c \in Connections /\ conn[c].from = p /\ asks[p] \in Asked[p]
  BY <1>2 DEF LinkInv, LinkOk
<1>4. m \in Messages /\ m # Silence
  BY <1>3, RequestOf
<1> HIDE DEF c, m
<1>5. /\ conn' \in [Connections -> Sockets]
      /\ \A d \in Connections \ {c} : conn'[d] = conn[d]
      /\ conn'[c].request = m
      /\ conn'[c].stage = conn[c].stage
      /\ conn'[c].from = conn[c].from
      /\ conn'[c].there = conn[c].there
      /\ conn'[c].answer = conn[c].answer
      /\ conn'[c].applied = conn[c].applied
  <2>1. conn \in [Connections -> Sockets]
    BY SocketTypes
  <2> QED
    BY <1>2, <1>3, <1>4, <2>1 DEF Sockets
<1>6. conn[c].stage # "free"
  BY <1>3, SocketTypes DEF ConnInv, ConnOk
<1>7. \A d \in Connections : conn'[d].stage = conn[d].stage /\ conn'[d].from = conn[d].from
                               /\ conn'[d].answer = conn[d].answer
  BY <1>5
<1>8. TypeOK'
  <2>1. Registry!TypeOK'
    BY <1>1 DEF TypeOK, Registry!TypeOK
  <2> QED
    BY <1>1, <1>5, <2>1 DEF TypeOK, Sockets
<1>9. TaskInv'
  BY <1>1, <1>7 DEF TaskInv, Handling
<1>10. BacklogInv'
  <2>1. \A i \in 1 .. Len(backlog) : backlog[i] \in Connections
    BY DEF TypeOK
  <2> QED
    BY <1>1, <1>7, <2>1 DEF BacklogInv
<1>11. ReadInv'
  <2>1. \A t \in Threads : task[t].handler = "read" =>
           task[t].of \in Connections /\ task[t].of # c
    BY <1>2, <1>3 DEF TaskInv, Handling, ConnInv, ConnOk
  <2> QED
    BY <1>1, <1>5, <2>1 DEF ReadInv
<1>12. ConnInv'
  <2> SUFFICES ASSUME NEW d \in Connections
               PROVE  ConnOk(d)'
    BY DEF ConnInv
  <2>1. ConnOk(d)
    BY DEF ConnInv
  <2>2. CASE d = c
    <3>1. \E a \in Asked[conn'[c].from] : conn'[c].request = Message(a)
      BY <1>3, <1>5 DEF m
    <3> QED
      BY <1>1, <1>4, <1>5, <1>6, <2>1, <2>2, <3>1 DEF ConnOk
  <2>3. CASE d # c
    BY <1>1, <1>5, <2>1, <2>3 DEF ConnOk
  <2> QED
    BY <2>2, <2>3
<1>13. LinkInv'
  <2> SUFFICES ASSUME NEW q \in Peers
               PROVE  LinkOk(q)'
    BY DEF LinkInv
  <2>1. LinkOk(q)
    BY DEF LinkInv
  <2>2. CASE q = p
    BY <1>1, <1>5, <2>1, <2>2 DEF LinkOk, c, m
  <2>3. CASE q # p
    BY <1>1, <1>3, <1>5, <2>1, <2>3 DEF LinkOk
  <2> QED
    BY <2>2, <2>3
<1>14. OwnInv'
  BY <1>1, <1>7 DEF OwnInv, Settled
<1>15. EffectInv'
  <2>1. \A q \in Peers : outcome[q] = "pending" => conn'[link[q]].answer = conn[link[q]].answer
    BY <1>7 DEF LinkInv, LinkOk
  <2> QED
    BY <1>1, <2>1 DEF EffectInv, CarriedOut, Effect, Listed
<1> QED
  BY <1>8, <1>9, <1>10, <1>11, <1>12, <1>13, <1>14, <1>15

LEMMA ReceiveKept ==
    ASSUME IInv, NEW p \in Peers, Receive(p)
    PROVE  IInv'
<1>1. CASE conn[link[p]].answer.successful
  BY <1>1, HangupKept DEF Receive
<1>2. CASE ~conn[link[p]].answer.successful
  BY <1>2, HangupKept DEF Receive
<1> QED
  BY <1>1, <1>2

LEMMA LoseConnectionKept ==
    ASSUME IInv, NEW p \in Peers, LoseConnection(p)
    PROVE  IInv'
  BY HangupKept DEF LoseConnection

LEMMA KilledKept ==
    ASSUME IInv, NEW p \in Peers, Killed(p)
    PROVE  IInv'
  BY HangupKept DEF Killed

-----------------------------------------------------------------------------
(* The steps of the listener.                                              *)

\* No request is carried out and no program is answered.
LEMMA NoNewEffect ==
    ASSUME IInv, UNCHANGED <<table, asks, link, outcome, disturbed>>,
           \A p \in Peers : outcome[p] = "pending" => conn'[link[p]].answer = conn[link[p]].answer,
           \A t \in Threads : task'[t].handler = "respond" =>
                                 task'[t] = task[t] /\ result'[t] = result[t]
    PROVE  EffectInv'
<1> SUFFICES ASSUME NEW p \in Peers \ disturbed, CarriedOut(p)'
             PROVE  Effect(p)'
  BY DEF EffectInv
<1>1. CarriedOut(p)
  BY DEF CarriedOut
<1> QED
  BY <1>1 DEF IInv, EffectInv, Effect, Listed

Tasks == [handler : {"none", "accept", "next", "read", "respond"}, of : Connections \cup {None}]

\* A step of the listener that touches no connection.
LEMMA ListenerKept ==
    ASSUME IInv, UNCHANGED <<registry, backlog, conn, peers>>,
           server' \in {"running", "stopped", "down"}, signalled' \in BOOLEAN,
           accepting' \in BOOLEAN, task' \in [Threads -> Tasks],
           \A t \in Threads :
              task'[t] = task[t] \/ (task[t].handler \notin Holding /\ task'[t].handler \notin Holding)
    PROVE  IInv'
<1> USE DEF IInv
<1>1. UNCHANGED <<table, call, result, backlog, conn, asks, link, outcome, disturbed>>
  BY DEF registry, peers
<1>2. TypeOK'
  <2>1. Registry!TypeOK'
    BY <1>1 DEF TypeOK, Registry!TypeOK
  <2> QED
    BY <1>1, <2>1 DEF TypeOK, Tasks
<1>3. \A t \in Threads : /\ task'[t].handler \in Holding => task'[t] = task[t]
                         /\ task[t].handler \in Holding => task'[t] = task[t]
  OBVIOUS
<1>4. TaskInv'
  BY <1>1, <1>3 DEF TaskInv, Holding, Handling
<1>5. ReadInv'
  BY <1>1, <1>3 DEF ReadInv, Holding
<1>6. BacklogInv' /\ OwnInv'
  BY <1>1 DEF BacklogInv, OwnInv, Settled
<1>7. ConnInv' /\ LinkInv'
  BY <1>1 DEF ConnInv, LinkInv, ConnOk, LinkOk
<1>8. EffectInv'
  BY <1>1, <1>3, NoNewEffect DEF Holding
<1> QED
  BY <1>2, <1>4, <1>5, <1>6, <1>7, <1>8

\* A step that moves the server's end of one connection on.
Moves(c) ==
    /\ conn[c].stage # "free"
    /\ \/ conn'[c] = Free /\ ~conn[c].there
       \/ /\ SameContent(c)
          /\ conn'[c].stage # "free"
          /\ Settled(c) => Settled(c)'
          /\ conn'[c].stage = "handling" => conn[c].request # Silence
          /\ conn[c].answer # Silence => conn'[c].stage \in {"written", "closed"}
          /\ conn[c].applied => conn'[c].stage = "handling" \/ conn[c].answer # Silence

LEMMA ServerStep ==
    ASSUME IInv, NEW c \in Connections, Only(c), Moves(c),
           UNCHANGED <<asks, link, outcome, disturbed>>
    PROVE  /\ ConnInv'
           /\ LinkInv'
           /\ OwnInv'
           /\ \A p \in Peers : outcome[p] = "pending" =>
                 conn'[link[p]].answer = conn[link[p]].answer
<1> USE DEF IInv
<1>1. ConnInv'
  <2> SUFFICES ASSUME NEW d \in Connections
               PROVE  ConnOk(d)'
    BY DEF ConnInv
  <2>1. ConnOk(d)
    BY DEF ConnInv
  <2>2. CASE d = c /\ conn'[c] = Free
    BY <2>2, SocketTypes DEF ConnOk
  <2>3. CASE d = c /\ conn'[c] # Free
    BY <2>1, <2>3 DEF ConnOk, Moves, SameContent
  <2>4. CASE d # c
    BY <2>1, <2>4 DEF ConnOk, Only
  <2> QED
    BY <2>2, <2>3, <2>4
<1>2. LinkInv'
  <2> SUFFICES ASSUME NEW p \in Peers
               PROVE  LinkOk(p)'
    BY DEF LinkInv
  <2>1. LinkOk(p)
    BY DEF LinkInv
  <2>2. outcome[p] = "pending" => /\ conn'[link[p]].from = conn[link[p]].from
                                  /\ conn'[link[p]].there = conn[link[p]].there
                                  /\ conn'[link[p]].request = conn[link[p]].request
    BY <2>1 DEF LinkOk, Moves, SameContent, Only
  <2> QED
    BY <2>1, <2>2 DEF LinkOk
<1>3. OwnInv'
  <2> SUFFICES ASSUME NEW p \in Peers \ disturbed, NEW d \in Connections,
                      outcome[p] \in {"pending", "returned"}, conn'[d].from = p
               PROVE  Settled(d)' \/ (outcome[p] = "pending" /\ d = link[p])
    BY DEF OwnInv
  <2>1. CASE d = c
    BY <2>1, SocketTypes DEF OwnInv, Moves, SameContent
  <2>2. CASE d # c
    BY <2>2 DEF OwnInv, Only, Settled
  <2> QED
    BY <2>1, <2>2
<1>4. \A p \in Peers : outcome[p] = "pending" => conn'[link[p]].answer = conn[link[p]].answer
  BY DEF LinkInv, LinkOk, Moves, SameContent, Only
<1> QED
  BY <1>1, <1>2, <1>3, <1>4

LEMMA TaskTypes ==
    /\ TypeOK => task \in [Threads -> Tasks]
    /\ Idle \in Tasks
    /\ Idle.handler = "none"
  BY DEF TypeOK, Tasks, Idle

LEMMA HandleAcceptErrorKept ==
    ASSUME IInv, NEW t \in Threads, HandleAcceptError(t)
    PROVE  IInv'
<1>1. task \in [Threads -> Tasks] /\ task[t].handler = "none"
  BY TaskTypes DEF IInv, HandleAcceptError, Takes
<1>2. task' = [task EXCEPT ![t] = [handler |-> "next", of |-> None]]
  BY DEF HandleAcceptError, Takes
<1>3. [handler |-> "next", of |-> None] \in Tasks
  BY DEF Tasks
<1>4. /\ task' \in [Threads -> Tasks]
      /\ \A u \in Threads :
            task'[u] = task[u] \/ (task[u].handler \notin Holding /\ task'[u].handler \notin Holding)
  BY <1>1, <1>2, <1>3 DEF Holding
<1> QED
  BY <1>4, ListenerKept DEF HandleAcceptError, IInv, TypeOK

LEMMA StartAcceptKept ==
    ASSUME IInv, NEW t \in Threads, StartAccept(t)
    PROVE  IInv'
<1>1. task \in [Threads -> Tasks] /\ task[t].handler = "next"
  BY TaskTypes DEF IInv, StartAccept
<1>2. task' = [task EXCEPT ![t] = Idle]
  BY DEF StartAccept, Finished
<1>3. /\ task' \in [Threads -> Tasks]
      /\ \A u \in Threads :
            task'[u] = task[u] \/ (task[u].handler \notin Holding /\ task'[u].handler \notin Holding)
  BY <1>1, <1>2, TaskTypes DEF Holding
<1> QED
  BY <1>3, ListenerKept DEF StartAccept, IInv, TypeOK

LEMMA SignalKept == ASSUME IInv, Signal PROVE IInv'
  BY ListenerKept, TaskTypes DEF Signal, IInv, TypeOK

LEMMA HandleStopKept ==
    ASSUME IInv, NEW t \in Threads, HandleStop(t)
    PROVE  IInv'
  BY ListenerKept, TaskTypes DEF HandleStop, IInv, TypeOK

LEMMA HandleAcceptKept ==
    ASSUME IInv, NEW t \in Threads, HandleAccept(t)
    PROVE  IInv'
<1> DEFINE c == Head(backlog)
           r == [handler |-> "accept", of |-> c]
<1> USE DEF IInv
<1>1. /\ UNCHANGED <<table, call, result, server, signalled, asks, link, outcome, disturbed>>
      /\ accepting' = FALSE
      /\ backlog # <<>>
      /\ backlog' = Tail(backlog)
      /\ task[t] = Idle
      /\ task' = [task EXCEPT ![t] = r]
      /\ conn' = [conn EXCEPT ![c].stage = "accepted"]
  BY DEF HandleAccept, Takes, registry, peers
<1>2. /\ backlog \in Seq(Connections)
      /\ Len(backlog) \in Nat /\ Len(backlog) > 0
      /\ 1 \in 1 .. Len(backlog)
      /\ c = backlog[1] /\ c \in Connections
      /\ backlog' \in Seq(Connections)
      /\ Len(backlog') = Len(backlog) - 1
      /\ \A i \in 1 .. Len(backlog') : backlog'[i] = backlog[i + 1] /\ i + 1 \in 1 .. Len(backlog)
  BY <1>1 DEF TypeOK
<1>3. conn[c].stage = "backlog"
  BY <1>2 DEF BacklogInv
<1>4. r \in Tasks /\ r.handler = "accept" /\ r.of = c
  BY <1>2 DEF Tasks
<1> HIDE DEF c, r
<1>5. /\ conn' \in [Connections -> Sockets] /\ Only(c) /\ SameContent(c)
      /\ conn'[c].stage = "accepted"
  BY <1>1, <1>2, StageStep DEF Stages
<1>6. /\ task' \in [Threads -> Tasks]
      /\ task[t].handler = "none"
      /\ task'[t] = r
      /\ \A u \in Threads \ {t} : task'[u] = task[u]
  BY <1>1, <1>4, TaskTypes
<1>7. TypeOK'
  <2>1. Registry!TypeOK'
    BY <1>1 DEF TypeOK, Registry!TypeOK
  <2> QED
    BY <1>1, <1>2, <1>5, <1>6, <2>1 DEF TypeOK, Sockets, Tasks
<1>8. \A u \in Threads : task[u].handler \in Holding => task[u].of \in Connections /\ task[u].of # c
  BY <1>3 DEF TaskInv, Holding, Handling
<1>9. TaskInv'
  <2>1. \A u \in Threads :
          /\ task'[u].handler = "accept" =>
                task'[u].of \in Connections /\ conn'[task'[u].of].stage = "accepted"
          /\ task'[u].handler \in Handling =>
                task'[u].of \in Connections /\ conn'[task'[u].of].stage = "handling"
    BY <1>2, <1>4, <1>5, <1>6, <1>8 DEF TaskInv, Holding, Handling, Only
  <2>2. \A u, v \in Threads :
           task'[u].handler \in Holding /\ task'[v].handler \in Holding /\ task'[u].of = task'[v].of
             => u = v
    BY <1>4, <1>6, <1>8 DEF TaskInv
  <2>3. \A d \in Connections : conn'[d].stage = "handling" =>
             \E u \in Threads : task'[u].handler \in Handling /\ task'[u].of = d
    <3> SUFFICES ASSUME NEW d \in Connections, conn'[d].stage = "handling"
                 PROVE  \E u \in Threads : task'[u].handler \in Handling /\ task'[u].of = d
      OBVIOUS
    <3>1. conn[d].stage = "handling"
      BY <1>5 DEF Only
    <3>2. PICK u \in Threads : task[u].handler \in Handling /\ task[u].of = d
      BY <3>1 DEF TaskInv
    <3>3. u # t
      BY <1>6, <3>2 DEF Handling
    <3> QED
      BY <1>6, <3>2, <3>3
  <2> QED
    BY <2>1, <2>2, <2>3 DEF TaskInv
<1>10. BacklogInv'
  <2>1. \A i \in 1 .. Len(backlog') : backlog'[i] \in Connections \ {c}
    <3> SUFFICES ASSUME NEW i \in 1 .. Len(backlog') PROVE backlog'[i] \in Connections \ {c}
      OBVIOUS
    <3>1. backlog'[i] = backlog[i + 1] /\ i + 1 \in 1 .. Len(backlog) /\ i + 1 # 1
      BY <1>2
    <3>2. backlog[i + 1] \in Connections
      BY <1>2, <3>1
    <3>3. backlog[i + 1] # backlog[1]
      BY <1>2, <3>1 DEF BacklogInv
    <3> QED
      BY <1>2, <3>1, <3>2, <3>3
  <2>2. \A i \in 1 .. Len(backlog') : conn'[backlog'[i]].stage = "backlog"
    BY <1>2, <1>5, <2>1 DEF BacklogInv, Only
  <2>3. \A i, j \in 1 .. Len(backlog') : backlog'[i] = backlog'[j] => i = j
    <3> SUFFICES ASSUME NEW i \in 1 .. Len(backlog'), NEW j \in 1 .. Len(backlog'),
                        backlog'[i] = backlog'[j]
                 PROVE  i = j
      OBVIOUS
    <3>1. backlog[i + 1] = backlog[j + 1] /\ i + 1 \in 1 .. Len(backlog) /\ j + 1 \in 1 .. Len(backlog)
      BY <1>2
    <3>2. i + 1 = j + 1
      BY <3>1 DEF BacklogInv
    <3> QED
      BY <1>2, <3>2
  <2> QED
    BY <2>2, <2>3 DEF BacklogInv
<1>11. ReadInv'
  BY <1>1, <1>4, <1>5, <1>6, <1>8 DEF ReadInv, Holding, Only
<1>12. ConnOk(c)
  BY <1>2 DEF ConnInv
<1>13. Moves(c)
  BY <1>3, <1>5, <1>12 DEF Moves, Settled, ConnOk
<1>14. ConnInv' /\ LinkInv' /\ OwnInv' /\ EffectInv'
  BY <1>1, <1>2, <1>4, <1>5, <1>6, <1>13, ServerStep, NoNewEffect
<1> QED
  BY <1>7, <1>9, <1>10, <1>11, <1>14

LEMMA StartKept ==
    ASSUME IInv, NEW t \in Threads, Start(t)
    PROVE  IInv'
<1> DEFINE c == task[t].of
           r == [handler |-> "next", of |-> None]
<1> USE DEF IInv
<1>1. /\ UNCHANGED <<table, call, result, server, signalled, accepting, backlog>>
      /\ UNCHANGED <<asks, link, outcome, disturbed>>
      /\ task[t].handler = "accept"
      /\ task' = [task EXCEPT ![t] = r]
      /\ conn' = [conn EXCEPT ![c].stage = "reading"]
  BY DEF Start, registry, peers
<1>2. c \in Connections /\ conn[c].stage = "accepted"
  BY <1>1 DEF TaskInv
<1>3. r \in Tasks /\ r.handler = "next"
  BY DEF Tasks
<1> HIDE DEF r
<1>4. /\ conn' \in [Connections -> Sockets] /\ Only(c) /\ SameContent(c)
      /\ conn'[c].stage = "reading"
  BY <1>1, <1>2, StageStep DEF Stages
<1>5. /\ task' \in [Threads -> Tasks]
      /\ task'[t] = r
      /\ \A u \in Threads \ {t} : task'[u] = task[u]
  BY <1>1, <1>3, TaskTypes
<1>6. TypeOK'
  <2>1. Registry!TypeOK'
    BY <1>1 DEF TypeOK, Registry!TypeOK
  <2> QED
    BY <1>1, <1>4, <1>5, <2>1 DEF TypeOK, Sockets, Tasks
<1>7. \A u \in Threads \ {t} : task[u].handler \in Holding => task[u].of \in Connections /\ task[u].of # c
  BY <1>1 DEF TaskInv, Holding, Handling
<1> HIDE DEF c
<1>8. TaskInv'
  <2>1. \A u \in Threads :
          /\ task'[u].handler = "accept" =>
                task'[u].of \in Connections /\ conn'[task'[u].of].stage = "accepted"
          /\ task'[u].handler \in Handling =>
                task'[u].of \in Connections /\ conn'[task'[u].of].stage = "handling"
    BY <1>3, <1>4, <1>5, <1>7 DEF TaskInv, Holding, Handling, Only
  <2>2. \A u, v \in Threads :
           task'[u].handler \in Holding /\ task'[v].handler \in Holding /\ task'[u].of = task'[v].of
             => u = v
    BY <1>3, <1>5 DEF TaskInv, Holding
  <2>3. \A d \in Connections : conn'[d].stage = "handling" =>
             \E u \in Threads : task'[u].handler \in Handling /\ task'[u].of = d
    <3> SUFFICES ASSUME NEW d \in Connections, conn'[d].stage = "handling"
                 PROVE  \E u \in Threads : task'[u].handler \in Handling /\ task'[u].of = d
      OBVIOUS
    <3>1. conn[d].stage = "handling"
      BY <1>4 DEF Only
    <3>2. PICK u \in Threads : task[u].handler \in Handling /\ task[u].of = d
      BY <3>1 DEF TaskInv
    <3>3. u # t
      BY <1>1, <3>2 DEF Handling
    <3> QED
      BY <1>5, <3>2, <3>3
  <2> QED
    BY <2>1, <2>2, <2>3 DEF TaskInv
<1>9. BacklogInv'
  <2>1. \A i \in 1 .. Len(backlog) : backlog[i] \in Connections \ {c}
    BY <1>2 DEF TypeOK, BacklogInv
  <2> QED
    BY <1>1, <1>4, <2>1 DEF BacklogInv, Only
<1>10. ReadInv'
  BY <1>1, <1>3, <1>4, <1>5, <1>7 DEF ReadInv, Holding, Only
<1>11. ConnOk(c)
  BY <1>2 DEF ConnInv
<1>12. Moves(c)
  BY <1>2, <1>4, <1>11 DEF Moves, Settled, ConnOk
<1>13. ConnInv' /\ LinkInv' /\ OwnInv' /\ EffectInv'
  BY <1>1, <1>2, <1>3, <1>4, <1>5, <1>12, ServerStep, NoNewEffect
<1> QED
  BY <1>6, <1>8, <1>9, <1>10, <1>13

LEMMA ExitKept == ASSUME IInv, Exit PROVE IInv'
<1> USE DEF IInv
<1>1. /\ UNCHANGED <<table, call, result, signalled, asks, link, outcome, disturbed>>
      /\ server' = "down" /\ accepting' = FALSE /\ backlog' = <<>>
      /\ \A t \in Threads : task[t] = Idle
      /\ task' = [t \in Threads |-> Idle]
      /\ conn' = [c \in Connections |->
                    IF conn[c].there THEN [conn[c] EXCEPT !.stage = "closed"] ELSE Free]
  BY DEF Exit, AllClosed, registry, peers
<1>2. \A c \in Connections :
         \/ conn'[c] = Free /\ ~conn[c].there
         \/ conn'[c] \in Sockets /\ conn'[c].stage = "closed" /\ conn[c].there /\ SameContent(c)
  <2> SUFFICES ASSUME NEW c \in Connections
               PROVE  \/ conn'[c] = Free /\ ~conn[c].there
                      \/ conn'[c] \in Sockets /\ conn'[c].stage = "closed" /\ conn[c].there
                            /\ SameContent(c)
    OBVIOUS
  <2>1. conn[c] \in Sockets
    BY SocketTypes
  <2>2. CASE conn[c].there
    <3>1. conn'[c] = [conn[c] EXCEPT !.stage = "closed"]
      BY <1>1, <2>2
    <3> QED
      BY <2>1, <2>2, <3>1 DEF Sockets, Stages, SameContent
  <2>3. CASE ~conn[c].there
    BY <1>1, <2>3
  <2> QED
    BY <2>2, <2>3
<1>3. conn' \in [Connections -> Sockets]
  BY <1>1, <1>2, SocketTypes
<1>4. \A t \in Threads : task'[t] = Idle
  BY <1>1
<1>5. TypeOK'
  <2>1. Registry!TypeOK'
    BY <1>1 DEF TypeOK, Registry!TypeOK
  <2>2. task' \in [Threads -> Tasks] /\ backlog' \in Seq(Connections)
    BY <1>1, TaskTypes
  <2>3. /\ UNCHANGED <<signalled, asks, link, outcome, disturbed>>
        /\ server' = "down" /\ accepting' = FALSE
    BY <1>1
  <2> QED
    BY <1>3, <2>1, <2>2, <2>3 DEF TypeOK, Sockets, Tasks
<1>6. \A c \in Connections : conn[c].stage # "handling"
  BY <1>1, TaskTypes DEF TaskInv, Handling
<1>7. \A c \in Connections : conn'[c].stage \in {"free", "closed"}
  BY <1>2, SocketTypes
<1>8. TaskInv' /\ ReadInv'
  BY <1>4, <1>7, TaskTypes DEF TaskInv, ReadInv, Holding, Handling
<1>9. BacklogInv'
  BY <1>1 DEF BacklogInv
<1>10. ConnInv'
  <2> SUFFICES ASSUME NEW c \in Connections
               PROVE  ConnOk(c)'
    BY DEF ConnInv
  <2>1. ConnOk(c)
    BY DEF ConnInv
  <2>2. CASE conn'[c] = Free
    BY <2>2, SocketTypes DEF ConnOk
  <2>3. CASE conn'[c] # Free
    <3>1. conn'[c].stage = "closed" /\ conn[c].there /\ SameContent(c)
      BY <1>2, <2>3
    <3>2. conn[c].stage # "free"
      BY <2>1, <3>1, SocketTypes DEF ConnOk
    <3> QED
      BY <1>1, <1>6, <2>1, <3>1, <3>2 DEF ConnOk, SameContent
  <2> QED
    BY <2>2, <2>3
<1>11. \A p \in Peers : outcome[p] = "pending" =>
          /\ conn'[link[p]].from = conn[link[p]].from
          /\ conn'[link[p]].there = conn[link[p]].there
          /\ conn'[link[p]].request = conn[link[p]].request
          /\ conn'[link[p]].answer = conn[link[p]].answer
  BY <1>2 DEF LinkInv, LinkOk, SameContent
<1>12. LinkInv'
  BY <1>1, <1>11 DEF LinkInv, LinkOk
<1>13. OwnInv'
  <2>1. \A p \in Peers, c \in Connections : conn'[c].from = p => conn'[c].stage = "closed"
    BY <1>2, SocketTypes
  <2> QED
    BY <1>1, <2>1 DEF OwnInv, Settled
<1>14. EffectInv'
  BY <1>1, <1>4, <1>11, TaskTypes, NoNewEffect
<1> QED
  BY <1>5, <1>8, <1>9, <1>10, <1>12, <1>13, <1>14

-----------------------------------------------------------------------------
(* The steps of the handler of a connection.                               *)

\* The server closes a connection that no handler works on.
LEMMA CloseKept ==
    ASSUME IInv, NEW c \in Connections, conn[c].stage \in {"reading", "written"},
           Release(c, [conn[c] EXCEPT !.stage = "closed"]),
           UNCHANGED <<registry, listener, peers>>
    PROVE  IInv'
<1> USE DEF IInv
<1>1. /\ UNCHANGED <<table, call, result, server, signalled, accepting, backlog, task>>
      /\ UNCHANGED <<asks, link, outcome, disturbed>>
  BY DEF registry, listener, peers
<1>2. Closes(c)
  BY CloseStep
<1>3. conn' \in [Connections -> Sockets] /\ Only(c)
  BY <1>2 DEF Closes
<1>4. conn'[c].stage \in {"free", "closed"}
  BY <1>2, SocketTypes DEF Closes
<1>5. TypeOK'
  <2>1. Registry!TypeOK'
    BY <1>1 DEF TypeOK, Registry!TypeOK
  <2> QED
    BY <1>1, <1>3, <2>1 DEF TypeOK, Sockets
<1>6. \A t \in Threads : task[t].handler \in Holding => task[t].of \in Connections \ {c}
  BY DEF TaskInv, Holding, Handling
<1>7. TaskInv'
  BY <1>1, <1>3, <1>4, <1>6 DEF TaskInv, Holding, Handling, Only
<1>8. BacklogInv'
  <2>1. \A i \in 1 .. Len(backlog) : backlog[i] \in Connections \ {c}
    BY DEF TypeOK, BacklogInv
  <2> QED
    BY <1>1, <1>3, <2>1 DEF BacklogInv, Only
<1>9. ReadInv'
  BY <1>1, <1>3, <1>6 DEF ReadInv, Holding, Only
<1>10. ConnOk(c)
  BY DEF ConnInv
<1>11. Moves(c)
  BY <1>2, <1>10 DEF Moves, Settled, ConnOk, Closes
<1>12. ConnInv' /\ LinkInv' /\ OwnInv' /\ EffectInv'
  BY <1>1, <1>3, <1>11, ServerStep, NoNewEffect
<1> QED
  BY <1>5, <1>7, <1>8, <1>9, <1>12

LEMMA HandleReadErrorKept ==
    ASSUME IInv, NEW t \in Threads, NEW c \in Connections, HandleReadError(t, c)
    PROVE  IInv'
  BY CloseKept DEF HandleReadError

LEMMA HandleWriteKept ==
    ASSUME IInv, NEW t \in Threads, NEW c \in Connections, HandleWrite(t, c)
    PROVE  IInv'
  BY CloseKept DEF HandleWrite

LEMMA HandleReadKept ==
    ASSUME IInv, NEW t \in Threads, NEW c \in Connections, HandleRead(t, c)
    PROVE  IInv'
<1> DEFINE m == conn[c].request
           h == IF m = Malformed THEN "respond" ELSE "read"
           r == [handler |-> h, of |-> c]
<1> USE DEF IInv
<1>1. /\ UNCHANGED <<table, result, server, signalled, accepting, backlog>>
      /\ UNCHANGED <<asks, link, outcome, disturbed>>
      /\ conn[c].stage = "reading" /\ m # Silence
      /\ task[t] = Idle
      /\ task' = [task EXCEPT ![t] = r]
      /\ conn' = [conn EXCEPT ![c].stage = "handling"]
  BY DEF HandleRead, Takes, Registry!Request, registry, peers
<1>2. \/ m = Malformed /\ UNCHANGED call
      \/ /\ m # Malformed
         /\ call'[t] = CallOf(m)
         /\ \E k \in Requests : call' = [call EXCEPT ![t] = k]
  BY DEF HandleRead, Registry!Request, registry
<1>3. r \in Tasks /\ r.handler = h /\ r.of = c /\ h \in Handling
  BY DEF Tasks, Handling
<1>4. h = "read" <=> m # Malformed
  OBVIOUS
<1> HIDE DEF m, h, r
<1>5. /\ conn' \in [Connections -> Sockets] /\ Only(c) /\ SameContent(c)
      /\ conn'[c].stage = "handling"
  BY <1>1, StageStep DEF Stages
<1>6. /\ task' \in [Threads -> Tasks]
      /\ task[t].handler = "none"
      /\ task'[t] = r
      /\ \A u \in Threads \ {t} : task'[u] = task[u]
  BY <1>1, <1>3, TaskTypes
<1>7. /\ call' \in [Threads -> Calls \cup {Registry!NoCall}]
      /\ \A u \in Threads \ {t} : call'[u] = call[u]
  BY <1>2, RequestAssumption, Vocabulary DEF TypeOK, Registry!TypeOK
<1>8. TypeOK'
  <2>1. Registry!TypeOK'
    BY <1>1, <1>7, Vocabulary DEF TypeOK, Registry!TypeOK
  <2> QED
    BY <1>1, <1>5, <1>6, <2>1 DEF TypeOK, Sockets, Tasks
<1>9. \A u \in Threads : task[u].handler \in Holding => task[u].of \in Connections /\ task[u].of # c
  BY <1>1 DEF TaskInv, Holding, Handling
<1>10. TaskInv'
  <2>1. \A u \in Threads :
          /\ task'[u].handler = "accept" =>
                task'[u].of \in Connections /\ conn'[task'[u].of].stage = "accepted"
          /\ task'[u].handler \in Handling =>
                task'[u].of \in Connections /\ conn'[task'[u].of].stage = "handling"
    BY <1>3, <1>5, <1>6, <1>9 DEF TaskInv, Holding, Handling, Only
  <2>2. \A u, v \in Threads :
           task'[u].handler \in Holding /\ task'[v].handler \in Holding /\ task'[u].of = task'[v].of
             => u = v
    BY <1>3, <1>6, <1>9 DEF TaskInv
  <2>3. \A d \in Connections : conn'[d].stage = "handling" =>
             \E u \in Threads : task'[u].handler \in Handling /\ task'[u].of = d
    <3> SUFFICES ASSUME NEW d \in Connections, conn'[d].stage = "handling"
                 PROVE  \E u \in Threads : task'[u].handler \in Handling /\ task'[u].of = d
      OBVIOUS
    <3>1. CASE d = c
      BY <1>3, <1>6, <3>1
    <3>2. CASE d # c
      <4>1. conn[d].stage = "handling"
        BY <1>5, <3>2 DEF Only
      <4>2. PICK u \in Threads : task[u].handler \in Handling /\ task[u].of = d
        BY <4>1 DEF TaskInv
      <4>3. u # t
        BY <1>6, <4>2 DEF Handling
      <4> QED
        BY <1>6, <4>2, <4>3
    <3> QED
      BY <3>1, <3>2
  <2> QED
    BY <2>1, <2>2, <2>3 DEF TaskInv
<1>11. BacklogInv'
  <2>1. \A i \in 1 .. Len(backlog) : backlog[i] \in Connections \ {c}
    BY <1>1 DEF TypeOK, BacklogInv
  <2> QED
    BY <1>1, <1>5, <2>1 DEF BacklogInv, Only
<1>12. ReadInv'
  <2> SUFFICES ASSUME NEW u \in Threads, task'[u].handler = "read"
               PROVE  /\ conn'[task'[u].of].request # Malformed
                      /\ call'[u] = CallOf(conn'[task'[u].of].request)
    BY DEF ReadInv
  <2>1. CASE u = t
    <3>1. m # Malformed /\ task'[t].of = c
      BY <1>3, <1>4, <1>6, <2>1
    <3>2. conn'[c].request = m
      BY <1>5 DEF SameContent, m
    <3> QED
      BY <1>2, <2>1, <3>1, <3>2
  <2>2. CASE u # t
    BY <1>5, <1>6, <1>7, <1>9, <2>2 DEF ReadInv, Holding, Only
  <2> QED
    BY <2>1, <2>2
<1>13. ConnOk(c)
  BY DEF ConnInv
<1>14. Moves(c)
  BY <1>1, <1>5, <1>13 DEF Moves, Settled, ConnOk, m
<1>15. /\ ConnInv' /\ LinkInv' /\ OwnInv'
       /\ \A p \in Peers : outcome[p] = "pending" => conn'[link[p]].answer = conn[link[p]].answer
  BY <1>1, <1>5, <1>14, ServerStep
<1>16. EffectInv'
  <2>1. CASE m # Malformed
    <3>1. \A u \in Threads : task'[u].handler = "respond" =>
                                task'[u] = task[u] /\ result'[u] = result[u]
      BY <1>1, <1>3, <1>4, <1>6, <2>1
    <3> QED
      BY <1>1, <1>15, <3>1, NoNewEffect
  <2>2. CASE m = Malformed
    <3> SUFFICES ASSUME NEW p \in Peers \ disturbed, CarriedOut(p)'
                 PROVE  Effect(p)'
      BY <1>1 DEF EffectInv
    <3>1. CASE CarriedOut(p)
      BY <1>1, <3>1 DEF EffectInv, Effect, Listed
    <3>2. CASE ~CarriedOut(p)
      <4>1. outcome[p] = "pending" /\ link[p] = c
        BY <1>1, <1>3, <1>6, <1>15, <3>2 DEF CarriedOut
      <4>2. asks[p] \in Asked[p] /\ Message(asks[p]) = Malformed
        BY <1>1, <2>2, <4>1 DEF LinkInv, LinkOk, m
      <4>3. asks[p].op = "garbage"
        BY <4>2, RequestOf
      <4> QED
        BY <1>1, <4>3 DEF Effect
    <3> QED
      BY <3>1, <3>2
  <2> QED
    BY <2>1, <2>2
<1> QED
  BY <1>8, <1>10, <1>11, <1>12, <1>15, <1>16

\* A handler that has read the request of c goes on with it.
LEMMA HandlerStep ==
    ASSUME IInv, NEW c \in Connections, Only(c), conn[c].stage = "handling",
           conn'[c].from = conn[c].from, conn'[c].there = conn[c].there,
           conn'[c].request = conn[c].request,
           \/ conn'[c].stage = "handling" /\ conn'[c].answer = Silence
           \/ conn'[c].stage = "written" /\ conn'[c].answer # Silence,
           UNCHANGED <<asks, link, outcome, disturbed>>
    PROVE  ConnInv' /\ LinkInv' /\ OwnInv'
<1> USE DEF IInv
<1>1. ConnInv'
  <2> SUFFICES ASSUME NEW d \in Connections
               PROVE  ConnOk(d)'
    BY DEF ConnInv
  <2>1. ConnOk(d)
    BY DEF ConnInv
  <2>2. CASE d = c
    BY <2>1, <2>2 DEF ConnOk
  <2>3. CASE d # c
    BY <2>1, <2>3 DEF ConnOk, Only
  <2> QED
    BY <2>2, <2>3
<1>2. LinkInv'
  BY DEF LinkInv, LinkOk, Only
<1>3. OwnInv'
  <2> SUFFICES ASSUME NEW p \in Peers \ disturbed, NEW d \in Connections,
                      outcome[p] \in {"pending", "returned"}, conn'[d].from = p
               PROVE  Settled(d)' \/ (outcome[p] = "pending" /\ d = link[p])
    BY DEF OwnInv
  <2>1. CASE d = c
    BY <2>1 DEF OwnInv, Settled
  <2>2. CASE d # c
    BY <2>2 DEF OwnInv, Settled, Only
  <2> QED
    BY <2>1, <2>2
<1> QED
  BY <1>1, <1>2, <1>3

LEMMA PerformFrame ==
    ASSUME Registry!TypeOK, NEW t \in Threads, Registry!Perform(t)
    PROVE  /\ UNCHANGED call
           /\ \A u \in Threads \ {t} : result'[u] = result[u]
<1> USE DEF Registry!TypeOK, Registry!Finish
<1>1. CASE Registry!Register(t)
  BY <1>1 DEF Registry!Register
<1>2. CASE Registry!Deregister(t)
  BY <1>2 DEF Registry!Deregister
<1>3. CASE Registry!DeregisterServer(t)
  BY <1>3 DEF Registry!DeregisterServer
<1>4. CASE Registry!Lookup(t)
  BY <1>4 DEF Registry!Lookup
<1> QED
  BY <1>1, <1>2, <1>3, <1>4 DEF Registry!Perform

LEMMA PerformKept ==
    ASSUME IInv, NEW t \in Threads, Perform(t)
    PROVE  IInv'
<1> DEFINE c == task[t].of
           m == conn[c].request
           q == conn[c].from
<1> USE DEF IInv
<1>1. /\ UNCHANGED <<server, signalled, accepting, backlog, asks, link, outcome, disturbed>>
      /\ task[t].handler = "read"
      /\ Registry!Perform(t)
      /\ conn' = [conn EXCEPT ![c].applied = TRUE]
      /\ task' = [task EXCEPT ![t].handler = "respond"]
  BY DEF Perform, peers
<1>2. Registry!TypeOK
  BY DEF TypeOK
<1>3. /\ UNCHANGED call
      /\ \A u \in Threads \ {t} : result'[u] = result[u]
  BY <1>1, <1>2, PerformFrame
<1>4. /\ c \in Connections
      /\ conn[c].stage = "handling"
      /\ \A u \in Threads \ {t} : task[u].handler \in Holding => task[u].of \in Connections \ {c}
  BY <1>1 DEF TaskInv, Holding, Handling
<1>5. ConnOk(c)
  BY <1>4 DEF ConnInv
<1>6. q \in Peers /\ m # Silence /\ conn[c].answer = Silence
  BY <1>4, <1>5 DEF ConnOk
<1>7. m # Malformed /\ call[t] = CallOf(m)
  BY <1>1 DEF ReadInv
<1>8. PICK a \in Asked[q] : m = Message(a)
  BY <1>5, <1>6 DEF ConnOk
<1>9. /\ call[t].op \in {"lookup", "register", "deregister"}
      /\ call[t].signature \in Signatures \ {AnySignature}
      /\ call[t].op # "lookup" =>
            /\ call[t].provider = a.provider
            /\ call[t].provider \in Providers
            /\ a.op \notin {"getProvider", "garbage"}
  BY <1>6, <1>7, <1>8, RequestOf
<1>10. /\ conn' \in [Connections -> Sockets]
       /\ Only(c)
       /\ conn'[c].stage = conn[c].stage
       /\ conn'[c].from = conn[c].from
       /\ conn'[c].there = conn[c].there
       /\ conn'[c].request = conn[c].request
       /\ conn'[c].answer = conn[c].answer
  <2>1. conn \in [Connections -> Sockets]
    BY SocketTypes
  <2> QED
    BY <1>1, <1>4, <2>1 DEF Sockets, Only
<1>11. /\ task' \in [Threads -> Tasks]
       /\ task'[t].handler = "respond" /\ task'[t].of = c
       /\ \A u \in Threads \ {t} : task'[u] = task[u]
  <2>1. task \in [Threads -> Tasks]
    BY TaskTypes
  <2> QED
    BY <1>1, <2>1 DEF Tasks
<1> HIDE DEF c, m, q
<1>12. \A d \in Connections : conn'[d].stage = conn[d].stage /\ conn'[d].request = conn[d].request
                                /\ conn'[d].answer = conn[d].answer
  BY <1>10 DEF Only
<1>13. TypeOK'
  <2>1. Registry!TypeOK'
    BY <1>1, <1>2, <1>9, PerformTypes
  <2> QED
    BY <1>1, <1>10, <1>11, <2>1 DEF TypeOK, Sockets, Tasks
<1>14. TaskInv'
  <2>1. \A u \in Threads : /\ task'[u].of = task[u].of
                           /\ task'[u].handler \in Handling <=> task[u].handler \in Handling
                           /\ task'[u].handler \in Holding <=> task[u].handler \in Holding
                           /\ task'[u].handler = "accept" <=> task[u].handler = "accept"
    BY <1>1, <1>11 DEF c, Handling, Holding
  <2> QED
    BY <1>12, <2>1 DEF TaskInv
<1>15. BacklogInv'
  <2>1. \A i \in 1 .. Len(backlog) : backlog[i] \in Connections
    BY DEF TypeOK
  <2> QED
    BY <1>1, <1>12, <2>1 DEF BacklogInv
<1>16. ReadInv'
  <2> SUFFICES ASSUME NEW u \in Threads, task'[u].handler = "read"
               PROVE  /\ conn'[task'[u].of].request # Malformed
                      /\ call'[u] = CallOf(conn'[task'[u].of].request)
    BY DEF ReadInv
  <2>1. u # t /\ task'[u] = task[u]
    BY <1>11
  <2>2. task[u].of \in Connections
    BY <1>4, <2>1 DEF Holding
  <2> QED
    BY <1>3, <1>12, <2>1, <2>2 DEF ReadInv
<1>17. ConnInv' /\ LinkInv' /\ OwnInv'
  <2>1. /\ Only(c)
        /\ conn'[c].from = conn[c].from /\ conn'[c].there = conn[c].there
        /\ conn'[c].request = conn[c].request
        /\ conn'[c].stage = "handling" /\ conn'[c].answer = Silence
        /\ UNCHANGED <<asks, link, outcome, disturbed>>
    BY <1>1, <1>4, <1>6, <1>10
  <2> QED
    BY <1>4, <2>1, HandlerStep
<1>18. EffectInv'
  <2> SUFFICES ASSUME NEW p \in Peers \ disturbed, CarriedOut(p)'
               PROVE  Effect(p)'
    BY <1>1 DEF EffectInv
  <2>1. outcome[p] \in {"pending", "returned"} /\ asks[p] \in Asked[p]
    BY <1>1 DEF CarriedOut, LinkInv, LinkOk
  <2>2. outcome[p] = "pending" => /\ link[p] \in Connections
                                  /\ conn[link[p]].from = p
                                  /\ conn'[link[p]].answer = conn[link[p]].answer
    BY <1>12 DEF LinkInv, LinkOk
  <2>3. CASE p # q
    <3>1. CarriedOut(p)
      BY <1>1, <1>3, <1>11, <2>2, <2>3 DEF CarriedOut, q
    <3>2. Effect(p)
      BY <3>1 DEF EffectInv
    <3>3. asks[p].op \in {"registerService", "deregisterService"} /\ call[t].op # "lookup" =>
             call[t].provider # asks[p].provider
      BY <1>6, <1>8, <1>9, <2>1, <2>3, AskedAssumption
    <3>4. asks[p].op \in {"registerService", "deregisterService"} =>
             (Listed(Received[asks[p].signature], asks[p].provider)
                <=> Listed(Received[asks[p].signature], asks[p].provider)')
      <4> DEFINE s == Received[asks[p].signature]
                 v == asks[p].provider
      <4>1. s' = s /\ v' = v
        BY <1>1
      <4> HIDE DEF s, v
      <4>2. asks[p].op \in {"registerService", "deregisterService"} =>
               (Listed(s, v) <=> (s.name \in DOMAIN table'
                                    /\ SameSignature(table'[s.name].signature, s)
                                    /\ v \in table'[s.name].providers))
        BY <1>1, <1>2, <1>9, <3>3, Stable DEF Listed, SameSignature, v
      <4> QED
        BY <4>1, <4>2 DEF Listed, SameSignature, s, v
    <3> QED
      BY <1>1, <3>2, <3>4 DEF Effect
  <2>4. CASE p = q
    <3>1. outcome[p] = "pending" /\ c = link[p]
      BY <1>4, <2>1, <2>4 DEF OwnInv, Settled, q
    <3>2. result'[t].outcome = "returns"
      <4>1. PICK u \in Threads : /\ task'[u].handler = "respond"
                                 /\ task'[u].of = c
                                 /\ result'[u].outcome = "returns"
        BY <1>1, <1>6, <2>2, <3>1 DEF CarriedOut
      <4>2. u = t
        BY <1>4, <1>11, <4>1 DEF Holding
      <4> QED
        BY <4>1, <4>2
    <3>3. m = Message(asks[p])
      BY <1>6, <3>1 DEF LinkInv, LinkOk, m
    <3>4. CASE asks[p].op = "registerService"
      <4>1. /\ call[t].op = "register"
            /\ call[t].signature = Received[asks[p].signature]
            /\ call[t].provider = asks[p].provider
        BY <1>7, <2>1, <3>3, <3>4, RequestOf
      <4>2. Listed(call[t].signature, call[t].provider)'
        BY <1>1, <1>2, <3>2, <4>1, Registers
      <4> QED
        BY <1>1, <1>3, <3>4, <4>1, <4>2 DEF Effect, Listed
    <3>5. CASE asks[p].op = "deregisterService"
      <4>1. /\ call[t].op = "deregister"
            /\ call[t].signature = Received[asks[p].signature]
            /\ call[t].provider = asks[p].provider
        BY <1>7, <2>1, <3>3, <3>5, RequestOf
      <4>2. ~Listed(call[t].signature, call[t].provider)'
        BY <1>1, <1>2, <1>9, <4>1, Deregisters
      <4> QED
        BY <1>1, <1>3, <3>5, <4>1, <4>2 DEF Effect, Listed
    <3>6. CASE asks[p].op \notin {"registerService", "deregisterService"}
      BY <1>1, <3>6 DEF Effect
    <3> QED
      BY <3>4, <3>5, <3>6
  <2> QED
    BY <2>3, <2>4
<1> QED
  BY <1>13, <1>14, <1>15, <1>16, <1>17, <1>18

LEMMA RespondKept ==
    ASSUME IInv, NEW t \in Threads, Respond(t)
    PROVE  IInv'
<1> DEFINE c == task[t].of
           m == conn[c].request
           a == IF m = Malformed THEN ErrorMessage ELSE Answer(m, result[t])
<1> USE DEF IInv
<1>1. /\ UNCHANGED <<table, server, signalled, accepting, backlog, asks, link, outcome, disturbed>>
      /\ task[t].handler = "respond"
      /\ task' = [task EXCEPT ![t] = Idle]
      /\ conn' = [conn EXCEPT ![c].stage = "written", ![c].answer = a]
      /\ IF m = Malformed THEN UNCHANGED registry ELSE Registry!Return(t)
  BY DEF Respond, Finished, Registry!Return, registry, peers
<1>2. Registry!TypeOK
  BY DEF TypeOK
<1>3. /\ call' \in [Threads -> Calls \cup {Registry!NoCall}]
      /\ result' \in [Threads -> Results]
      /\ \A u \in Threads \ {t} : call'[u] = call[u] /\ result'[u] = result[u]
  BY <1>1, <1>2, ResultTypes, Vocabulary DEF Registry!Return, Registry!TypeOK, registry
<1>4. /\ c \in Connections
      /\ conn[c].stage = "handling"
      /\ \A u \in Threads \ {t} : task[u].handler \in Holding => task[u].of \in Connections \ {c}
  BY <1>1 DEF TaskInv, Holding, Handling
<1>5. a \in Answers /\ a # Silence
  BY AnswerTypes
<1>6. a.successful => result[t].outcome = "returns"
  BY DEF Answer, ErrorMessage, Response
<1> HIDE DEF a
<1>7. /\ conn' \in [Connections -> Sockets]
      /\ Only(c)
      /\ conn'[c].stage = "written"
      /\ conn'[c].from = conn[c].from
      /\ conn'[c].there = conn[c].there
      /\ conn'[c].request = conn[c].request
      /\ conn'[c].answer = a
  <2>1. conn \in [Connections -> Sockets] /\ "written" \in Stages
    BY SocketTypes DEF Stages
  <2> QED
    BY <1>1, <1>4, <1>5, <2>1 DEF Sockets, Only
<1>8. /\ task' \in [Threads -> Tasks]
      /\ task'[t].handler = "none"
      /\ \A u \in Threads \ {t} : task'[u] = task[u]
  BY <1>1, TaskTypes
<1> HIDE DEF c, m
<1>9. TypeOK'
  <2>1. Registry!TypeOK'
    BY <1>1, <1>2, <1>3, Vocabulary DEF Registry!TypeOK
  <2> QED
    BY <1>1, <1>7, <1>8, <2>1 DEF TypeOK, Sockets, Tasks
<1>10. TaskInv'
  <2>1. \A u \in Threads :
          /\ task'[u].handler = "accept" =>
                task'[u].of \in Connections /\ conn'[task'[u].of].stage = "accepted"
          /\ task'[u].handler \in Handling =>
                task'[u].of \in Connections /\ conn'[task'[u].of].stage = "handling"
    BY <1>4, <1>7, <1>8 DEF TaskInv, Holding, Handling, Only
  <2>2. \A u, v \in Threads :
           task'[u].handler \in Holding /\ task'[v].handler \in Holding /\ task'[u].of = task'[v].of
             => u = v
    BY <1>8 DEF TaskInv, Holding
  <2>3. \A d \in Connections : conn'[d].stage = "handling" =>
             \E u \in Threads : task'[u].handler \in Handling /\ task'[u].of = d
    <3> SUFFICES ASSUME NEW d \in Connections, conn'[d].stage = "handling"
                 PROVE  \E u \in Threads : task'[u].handler \in Handling /\ task'[u].of = d
      OBVIOUS
    <3>1. d # c /\ conn[d].stage = "handling"
      BY <1>7 DEF Only
    <3>2. PICK u \in Threads : task[u].handler \in Handling /\ task[u].of = d
      BY <3>1 DEF TaskInv
    <3>3. u # t
      BY <3>1, <3>2 DEF c
    <3> QED
      BY <1>8, <3>2, <3>3
  <2> QED
    BY <2>1, <2>2, <2>3 DEF TaskInv
<1>11. BacklogInv'
  <2>1. \A i \in 1 .. Len(backlog) : backlog[i] \in Connections \ {c}
    BY <1>4 DEF TypeOK, BacklogInv
  <2> QED
    BY <1>1, <1>7, <2>1 DEF BacklogInv, Only
<1>12. ReadInv'
  BY <1>3, <1>4, <1>7, <1>8 DEF ReadInv, Holding, Only
<1>13. ConnInv' /\ LinkInv' /\ OwnInv'
  BY <1>1, <1>4, <1>5, <1>7, HandlerStep
<1>14. EffectInv'
  <2> SUFFICES ASSUME NEW p \in Peers \ disturbed, CarriedOut(p)'
               PROVE  Effect(p)'
    BY <1>1 DEF EffectInv
  <2>1. CarriedOut(p)
    <3>1. CASE outcome[p] = "returned"
      BY <3>1 DEF CarriedOut
    <3>2. CASE outcome[p] = "pending" /\ conn'[link[p]].answer # Silence
                  /\ conn'[link[p]].answer.successful
      <4>1. link[p] \in Connections
        BY <3>2 DEF LinkInv, LinkOk
      <4>2. CASE link[p] = c
        BY <1>1, <1>6, <1>7, <3>2, <4>2 DEF CarriedOut, c
      <4>3. CASE link[p] # c
        BY <1>7, <3>2, <4>1, <4>3 DEF CarriedOut, Only
      <4> QED
        BY <4>2, <4>3
    <3>3. CASE outcome[p] = "pending" /\ \E u \in Threads : /\ task'[u].handler = "respond"
                                                           /\ task'[u].of = link[p]
                                                           /\ result'[u].outcome = "returns"
      BY <1>3, <1>8, <3>3 DEF CarriedOut
    <3> QED
      BY <1>1, <3>1, <3>2, <3>3 DEF CarriedOut
  <2> QED
    BY <1>1, <2>1 DEF EffectInv, Effect, Listed
<1> QED
  BY <1>9, <1>10, <1>11, <1>12, <1>13, <1>14

LEMMA StutterKept == ASSUME IInv, UNCHANGED vars PROVE IInv'
<1> USE DEF IInv
<1>1. UNCHANGED <<registry, backlog, conn, peers, server, signalled, accepting, task>>
  BY DEF vars, listener
<1> QED
  BY <1>1, ListenerKept, TaskTypes DEF TypeOK

LEMMA NextKept == ASSUME IInv, [Next]_vars PROVE IInv'
<1>1. ASSUME NEW p \in Peers, Connect(p) \/ Call(p) \/ Killed(p)
      PROVE  IInv'
  BY <1>1, ConnectKept, WriteKept, ReceiveKept, LoseConnectionKept, KilledKept DEF Call
<1>2. ASSUME NEW t \in Threads,
             HandleAccept(t) \/ HandleAcceptError(t) \/ HandleStop(t) \/ Handler(t)
      PROVE  IInv'
  BY <1>2, HandleAcceptKept, HandleAcceptErrorKept, HandleStopKept, StartKept, StartAcceptKept,
     PerformKept, RespondKept DEF Handler
<1>3. ASSUME NEW t \in Threads, NEW c \in Connections, HandlerOf(t, c)
      PROVE  IInv'
  BY <1>3, HandleReadErrorKept, HandleReadKept, HandleWriteKept DEF HandlerOf
<1> QED
  BY <1>1, <1>2, <1>3, SignalKept, ExitKept, StutterKept DEF Next

-----------------------------------------------------------------------------
(* The theorems.                                                           *)

\* The inductive invariant holds in every reachable state, for any programs,
\* threads and connections.
THEOREM Invariant == Spec => []IInv
  BY InitHolds, NextKept, PTL DEF Spec

\* The listener, its handlers and the programs keep their state of its type:
\* a handler has the connection that it works on, and a connection a program.
THEOREM TypeCorrect == Spec => []TypeOK
<1>1. IInv => TypeOK
  BY DEF IInv
<1> QED
  BY <1>1, Invariant, PTL

\* Whatever the other programs do, and however their requests and the stops of
\* the registry fall between: what registerService and deregisterService of the
\* proxy (registry.cpp:56-78) have returned for, the table of the registry holds.
THEOREM AcknowledgedIsDone == Spec => []AcknowledgedHolds
<1>1. IInv => AcknowledgedHolds
  BY DEF IInv, EffectInv, CarriedOut, Effect, AcknowledgedHolds, Ended
<1> QED
  BY <1>1, Invariant, PTL

\* A connection that ends without an answer has had no effect on the registry:
\* no stop (registrylistener.cpp:86) falls between the two.
THEOREM SilenceIsNoEffect == Spec => []NoSilentEffect
<1>1. IInv => NoSilentEffect
  BY DEF IInv, ConnInv, ConnOk, NoSilentEffect
<1> QED
  BY <1>1, Invariant, PTL
=============================================================================
