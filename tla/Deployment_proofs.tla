-------------------------- MODULE Deployment_proofs --------------------------
(***************************************************************************)
(* Proofs about Deployment, for any clients and services, any list of      *)
(* services a provider offers, any pool and any launcher's list of         *)
(* clients.  The invariant that carries them:                              *)
(*   - main is where its listener and its process are, has installed and   *)
(*     deregistered the services that are behind it, and calls a registry  *)
(*     that is up unless its call is lost; a service is still registered   *)
(*     behind it only if a killed life's request was carried out late;     *)
(*   - a connection's stage tells how often its service was invoked and    *)
(*     whether it was answered, and one that is served is served by a      *)
(*     listener that has every service installed;                          *)
(*   - a client that has found the provider asks it for what it offers;    *)
(*   - the launcher has a next child as long as it starts or stops them.   *)
(* On top of it: who fails is remembered as having run in a system that    *)
(* was not healthy (KInv), and how far an orderly stop has come tells what *)
(* of the registry and of the provider is still up (OInv).                 *)
(***************************************************************************)
EXTENDS Deployment, SequenceTheorems, TLAPS

\* What a connection says of itself.
Good(c) ==
    /\ c.stage \in {"free", "backlog", "header", "payload"} => c.runs = 0 /\ c.answer = "none"
    /\ c.stage \in {"invoking", "writing"} => c.runs = 1 /\ c.answer = "none"
    /\ c.runs \in {0, 1}
    /\ c.answer = "ok" => c.runs = 1
    /\ c.answer # "unavailable"

Open(c) == c.stage \in Stages \ {"free", "closed"}

ConnInv ==
    \A cl \in Clients :
        /\ Good(conn[cl])
        /\ Open(conn[cl]) => server # "off" /\ conn[cl].service \in Offered

\* What main has not deregistered yet.
Ahead == {Provided[i] : i \in item .. Len(Provided)}

MainInv ==
    /\ at = "none" <=> process # "alive"
    /\ at = "serve" <=> server # "off"
    /\ at \notin {"register", "deregister"} => item = 1 /\ call = "none"
    /\ call = "sent" => registry = "up"
    /\ at = "register" => /\ \A i \in 1 .. item - 1 : Provided[i] \in installed
                          /\ call = "sent" => Provided[item] \in installed
    /\ at \in {"listen", "serve"} => Offered \subseteq installed
    /\ registered \subseteq Offered
    /\ at = "deregister" => registered \subseteq Ahead \cup late
    /\ SuccessLeavesNothing

ClientInv ==
    \A cl \in Clients :
        client[cl].at \in {"found", "calling"} =>
            client[cl].rest # <<>> /\ Head(client[cl].rest) \in Offered

LauncherInv == launcher \in {"starting", "running", "stopping", "waiting"} => child # 0

IInv == TypeOK /\ ConnInv /\ MainInv /\ ClientInv /\ LauncherInv

-----------------------------------------------------------------------------
(* The constants.                                                          *)

LEMMA ProvidedFacts ==
    /\ Len(Provided) \in Nat \ {0}
    /\ DOMAIN Provided = 1 .. Len(Provided)
    /\ \A i \in 1 .. Len(Provided) : Provided[i] \in Services /\ Provided[i] \in Offered
    /\ Offered \subseteq Services
<1>1. Provided \in Seq(Services) /\ Provided # <<>>
  BY ProvidedAssumption
<1>2. Len(Provided) \in Nat /\ DOMAIN Provided = 1 .. Len(Provided)
  BY <1>1
<1>3. Len(Provided) # 0
  BY <1>1, EmptySeq
<1>4. \A i \in 1 .. Len(Provided) : Provided[i] \in Services
  BY <1>1, ElementOfSeq
<1>5. QED
  BY <1>2, <1>3, <1>4 DEF Offered

LEMMA ChildrenFacts ==
    /\ Len(Children) \in Nat \ {0}
    /\ \A i \in 1 .. Len(Children) : Children[i] \in {"registry", "provider"} \cup Clients
<1> DEFINE All == {"registry", "provider"} \cup Clients
<1>1. <<"registry", "provider">> \in Seq(All) /\ Launched \in Seq(All)
  BY ProvidedAssumption, SeqMonotonic
<1>2. Children \in Seq(All) /\ Len(Children) = 2 + Len(Launched)
  BY <1>1, ConcatProperties DEF Children
<1>3. Len(Launched) \in Nat
  BY <1>1
<1>4. QED
  BY <1>2, <1>3, ElementOfSeq

LEMMA FreeIsGood == Free \in Connections /\ Good(Free) /\ ~Open(Free)
  BY DEF Free, Connections, Stages, Answers, Good, Open

-----------------------------------------------------------------------------
(* Which programs a step of the system belongs to.                         *)

ProgramStep ==
    \/ Main \/ Stop \/ RegistryListens
    \/ \E r \in Requests : RegistryCarriesOut(r)
    \/ \E cl \in Clients : Loop(cl) \/ Serve(cl) \/ StartClient(cl) \/ KillClient(cl) \/ Reset(cl)
    \/ StartRegistry \/ StopRegistry
    \/ StartProvider \/ SignalProvider \/ KillProvider

LEMMA EachStep ==
    ASSUME TypeOK, LauncherInv, [Next]_vars
    PROVE  ProgramStep \/ UNCHANGED programs
<1>1. CASE Step(Main) \/ Step(Stop) \/ Step(RegistryListens)
  BY <1>1 DEF Step, ProgramStep
<1>2. CASE \/ \E cl \in Clients : Step(Loop(cl)) \/ Step(Serve(cl))
           \/ \E r \in Requests : Step(RegistryCarriesOut(r))
  BY <1>2 DEF Step, ProgramStep
<1>3. CASE ByHand
  BY <1>3 DEF ByHand, Again, ProgramStep
<1>4. CASE Launch
  <2>1. child \in 1 .. Len(Children)
    BY <1>4, ChildrenFacts DEF Launch, TypeOK, LauncherInv
  <2>2. Children[child] \in {"registry", "provider"} \cup Clients
    BY <2>1, ChildrenFacts
  <2>3. Start(Children[child])
    BY <1>4 DEF Launch
  <2>4. QED
    BY <2>2, <2>3 DEF Start, ProgramStep
<1>5. CASE Faulty
  BY <1>5 DEF Faulty, Fault, ProgramStep
<1>6. CASE Told \/ LauncherDies
  BY <1>6 DEF Told, OnKill, LauncherDies
<1>7. CASE LauncherWorks
  <2>1. CASE KillChild
    <3>1. child \in 1 .. Len(Children)
      BY <2>1, ChildrenFacts DEF KillChild, TypeOK, LauncherInv
    <3>2. Children[child] \in {"registry", "provider"} \cup Clients
      BY <3>1, ChildrenFacts
    <3>3. Signal(Children[child]) \/ UNCHANGED programs
      BY <2>1 DEF KillChild
    <3>4. QED
      BY <3>2, <3>3 DEF Signal, ProgramStep
  <2>2. CASE WaitChild \/ AllExited
    BY <2>2 DEF WaitChild, AllExited
  <2>3. QED
    BY <1>7, <2>1, <2>2 DEF LauncherWorks
<1>8. CASE UNCHANGED vars
  BY <1>8 DEF vars, programs
<1>9. QED
  BY <1>1, <1>2, <1>3, <1>4, <1>5, <1>6, <1>7, <1>8 DEF Next, Started

-----------------------------------------------------------------------------
(* The server.                                                             *)

LEMMA BecomesChanges ==
    ASSUME ServerTypeOK, NEW cl \in Clients, NEW c \in Connections, Becomes(cl, c)
    PROVE  /\ conn' \in [Clients -> Connections]
           /\ \A k \in Clients \ {cl} : conn'[k] = conn[k]
           /\ conn'[cl] \in {c, Free}
  BY FreeIsGood DEF Becomes, ServerTypeOK

\* A step that changes one connection, and nothing else of the server.
LEMMA ChangeKept ==
    ASSUME ServerTypeOK, ConnInv, NEW cl \in Clients, NEW c \in Connections, Becomes(cl, c),
           Good(c), Open(c) => server # "off" /\ c.service \in Offered,
           server' = server
    PROVE  conn' \in [Clients -> Connections] /\ ConnInv'
<1>1. /\ conn' \in [Clients -> Connections]
      /\ \A k \in Clients \ {cl} : conn'[k] = conn[k]
      /\ conn'[cl] \in {c, Free}
  BY BecomesChanges
<1>2. ASSUME NEW k \in Clients
      PROVE  Good(conn'[k]) /\ (Open(conn'[k]) => server # "off" /\ conn'[k].service \in Offered)
  BY <1>1, FreeIsGood DEF ConnInv
<1>3. QED
  BY <1>1, <1>2 DEF ConnInv, Good, Open, Offered

LEMMA CloseAllKept ==
    ASSUME ServerTypeOK, ConnInv, CloseAll
    PROVE  conn' \in [Clients -> Connections] /\ ConnInv'
<1>1. ASSUME NEW cl \in Clients
      PROVE  /\ [conn[cl] EXCEPT !.stage = "closed"] \in Connections
             /\ Good([conn[cl] EXCEPT !.stage = "closed"])
             /\ ~Open([conn[cl] EXCEPT !.stage = "closed"])
  <2>1. conn[cl] \in Connections /\ Good(conn[cl])
    BY DEF ServerTypeOK, ConnInv
  <2>2. QED
    BY <2>1 DEF Connections, Good, Open, Stages
<1>2. conn' \in [Clients -> Connections]
  BY <1>1, FreeIsGood DEF CloseAll
<1>3. \A cl \in Clients : Good(conn'[cl]) /\ ~Open(conn'[cl])
  BY <1>1, FreeIsGood DEF CloseAll
<1>4. QED
  BY <1>2, <1>3 DEF ConnInv, Good, Open

\* What the skeleton and the stub make of a connection.
LEMMA StageField ==
    ASSUME NEW c \in Connections, NEW s \in Stages
    PROVE  LET d == [c EXCEPT !.stage = s]
           IN  /\ d \in Connections /\ d.stage = s
               /\ d.runs = c.runs /\ d.answer = c.answer /\ d.service = c.service
  BY DEF Connections

LEMMA PeerField ==
    ASSUME NEW c \in Connections, NEW p \in {"there", "gone", "reset"}
    PROVE  LET d == [c EXCEPT !.peer = p]
           IN  /\ d \in Connections /\ d.stage = c.stage
               /\ d.runs = c.runs /\ d.answer = c.answer /\ d.service = c.service
  BY DEF Connections

LEMMA SentField ==
    ASSUME NEW c \in Connections, NEW s \in {"nothing", "header", "all"}
    PROVE  LET d == [c EXCEPT !.sent = s]
           IN  /\ d \in Connections /\ d.stage = c.stage
               /\ d.runs = c.runs /\ d.answer = c.answer /\ d.service = c.service
  BY DEF Connections

LEMMA ConnectFields ==
    ASSUME NEW c \in Connections, NEW s \in Stages, NEW v \in Services
    PROVE  LET d == [c EXCEPT !.stage = s, !.peer = "there", !.service = v]
           IN  /\ d \in Connections /\ d.stage = s
               /\ d.runs = c.runs /\ d.answer = c.answer /\ d.service = v
  BY DEF Connections

LEMMA AnsweredKept ==
    ASSUME ServerTypeOK, ConnInv, NEW cl \in Clients, NEW a \in {"ok", "failed"},
           Open(conn[cl]), a = "ok" => conn[cl].runs = 1,
           Answered(cl, a), server' = server
    PROVE  conn' \in [Clients -> Connections] /\ ConnInv'
<1>c. PICK c \in Connections : c = conn[cl]
  BY DEF ServerTypeOK
<1>d. PICK d : d = [c EXCEPT !.stage = "written", !.answer = a]
  OBVIOUS
<1>0. "written" \in Stages /\ a \in Answers
  BY DEF Stages, Answers
<1>1. /\ d \in Connections /\ d.stage = "written"
      /\ d.runs = c.runs /\ d.answer = a /\ d.service = c.service
  BY <1>d, <1>0 DEF Connections
<1>2. Good(d) /\ server # "off" /\ d.service \in Offered
  BY <1>c, <1>1 DEF ConnInv, Good
<1>3. Becomes(cl, d)
  BY <1>c, <1>d DEF Answered
<1>4. QED
  BY <1>1, <1>2, <1>3, ChangeKept

LEMMA MovedKept ==
    ASSUME ServerTypeOK, ConnInv, NEW cl \in Clients, NEW s \in Stages,
           Open(conn[cl]),
           \/ s \in {"header", "payload"} /\ conn[cl].stage \in {"backlog", "header"}
           \/ s = "writing" /\ conn[cl].stage = "invoking"
           \/ s = "closed",
           Becomes(cl, [conn[cl] EXCEPT !.stage = s]), server' = server
    PROVE  conn' \in [Clients -> Connections] /\ ConnInv'
<1> DEFINE d == [conn[cl] EXCEPT !.stage = s]
<1>0. conn[cl] \in Connections
  BY DEF ServerTypeOK
<1>1. /\ d \in Connections /\ d.stage = s
      /\ d.runs = conn[cl].runs /\ d.answer = conn[cl].answer /\ d.service = conn[cl].service
  BY <1>0, StageField
<1>2. Good(d) /\ server # "off" /\ d.service \in Offered
  BY <1>1 DEF ConnInv, Good
<1>3. Becomes(cl, d)
  OBVIOUS
<1> HIDE DEF d
<1>4. QED
  BY <1>1, <1>2, <1>3, ChangeKept

\* A handler, or the end of an invocation, changes its connection or terminates
\* the process.
LEMMA ServedKept ==
    ASSUME ServerTypeOK, ConnInv, server # "off" => Offered \subseteq installed,
           NEW cl \in Clients, Handler(cl) \/ Invoked(cl)
    PROVE  \/ Terminate
           \/ UNCHANGED provider /\ conn' \in [Clients -> Connections] /\ ConnInv'
<1> SUFFICES ASSUME ~Terminate
             PROVE  UNCHANGED provider /\ conn' \in [Clients -> Connections] /\ ConnInv'
  OBVIOUS
<1> USE DEF Stages, Open
<1>1. CASE HandleAccept(cl)
  BY <1>1, MovedKept DEF HandleAccept, provider
<1>2. CASE OnHeaderReceived(cl)
  <2>1. conn[cl].stage = "header" /\ conn[cl].service \in installed /\ UNCHANGED provider
    BY <1>2 DEF OnHeaderReceived, ConnInv
  <2>2. \/ Answered(cl, "failed")
        \/ Becomes(cl, [conn[cl] EXCEPT !.stage = "payload"])
    BY <1>2, <2>1 DEF OnHeaderReceived
  <2>3. QED
    BY <2>1, <2>2, AnsweredKept, MovedKept DEF provider
<1>3. CASE OnPayloadReceived(cl)
  <2>1. conn[cl].stage = "payload" /\ UNCHANGED provider
    BY <1>3 DEF OnPayloadReceived
  <2>2. CASE Answered(cl, "failed")
    BY <2>1, <2>2, AnsweredKept DEF provider
  <2>3. CASE Becomes(cl, [conn[cl] EXCEPT !.stage = "invoking", !.runs = @ + 1])
    <3>c. PICK c \in Connections : c = conn[cl]
      BY DEF ServerTypeOK
    <3>n. PICK n \in Nat : n = c.runs + 1
      BY DEF Connections
    <3>d. PICK d : d = [c EXCEPT !.stage = "invoking", !.runs = n]
      OBVIOUS
    <3>1. /\ d \in Connections /\ d.stage = "invoking"
          /\ d.runs = n /\ d.answer = c.answer /\ d.service = c.service
      BY <3>d DEF Connections, Stages
    <3>2. Good(d) /\ server # "off" /\ d.service \in Offered
      BY <2>1, <3>c, <3>n, <3>1 DEF ConnInv, Good
    <3>3. Becomes(cl, d)
      BY <2>3, <3>c, <3>n, <3>d
    <3>4. QED
      BY <2>1, <3>1, <3>2, <3>3, ChangeKept DEF provider
  <2>4. QED
    BY <1>3, <2>2, <2>3 DEF OnPayloadReceived
<1>4. CASE Invoked(cl)
  <2>1. conn[cl].stage = "invoking" /\ conn[cl].runs = 1 /\ UNCHANGED provider
    BY <1>4 DEF Invoked, ConnInv, Good
  <2>2. \/ Answered(cl, "ok") \/ Answered(cl, "failed")
        \/ Becomes(cl, [conn[cl] EXCEPT !.stage = "writing"])
    BY <1>4 DEF Invoked
  <2>3. QED
    BY <2>1, <2>2, AnsweredKept, MovedKept DEF provider
<1>5. CASE WriteRest(cl)
  <2>1. conn[cl].stage = "writing" /\ conn[cl].runs = 1 /\ UNCHANGED provider
    BY <1>5 DEF WriteRest, ConnInv, Good
  <2>2. \/ Answered(cl, "ok")
        \/ Becomes(cl, [conn[cl] EXCEPT !.stage = "closed"])
    BY <1>5 DEF WriteRest
  <2>3. QED
    BY <2>1, <2>2, AnsweredKept, MovedKept DEF provider
<1>6. CASE OnWriteResponse(cl)
  BY <1>6, MovedKept DEF OnWriteResponse, provider
<1>7. QED
  BY <1>1, <1>2, <1>3, <1>4, <1>5, <1>6 DEF Handler

LEMMA HangupKept ==
    ASSUME ServerTypeOK, ConnInv, NEW cl \in Clients, NEW how \in {"gone", "reset"},
           Hangup(cl, how)
    PROVE  UNCHANGED provider /\ conn' \in [Clients -> Connections] /\ ConnInv'
<1> DEFINE d == [conn[cl] EXCEPT !.peer = how]
<1>0. conn[cl] \in Connections
  BY DEF ServerTypeOK
<1>1. /\ d \in Connections /\ d.stage = conn[cl].stage
      /\ d.runs = conn[cl].runs /\ d.answer = conn[cl].answer /\ d.service = conn[cl].service
  BY <1>0, PeerField
<1>2. Good(d) /\ (Open(d) => server # "off" /\ d.service \in Offered)
  BY <1>1 DEF ConnInv, Good, Open
<1>3. Becomes(cl, d) /\ UNCHANGED provider
  BY DEF Hangup
<1> HIDE DEF d
<1>4. QED
  BY <1>1, <1>2, <1>3, ChangeKept DEF provider

LEMMA SendKept ==
    ASSUME ServerTypeOK, ConnInv, NEW cl \in Clients, Send(cl)
    PROVE  UNCHANGED provider /\ conn' \in [Clients -> Connections] /\ ConnInv'
<1>1. PICK s \in {"nothing", "header", "all"} :
          Becomes(cl, [conn[cl] EXCEPT !.sent = s]) /\ UNCHANGED provider
  BY DEF Send
<1> DEFINE d == [conn[cl] EXCEPT !.sent = s]
<1>0. conn[cl] \in Connections
  BY DEF ServerTypeOK
<1>2. /\ d \in Connections /\ d.stage = conn[cl].stage
      /\ d.runs = conn[cl].runs /\ d.answer = conn[cl].answer /\ d.service = conn[cl].service
  BY <1>0, SentField
<1>3. Good(d) /\ (Open(d) => server # "off" /\ d.service \in Offered)
  BY <1>2 DEF ConnInv, Good, Open
<1>4. Becomes(cl, d)
  BY <1>1
<1> HIDE DEF d
<1>5. QED
  BY <1>1, <1>2, <1>3, <1>4, ChangeKept DEF provider

LEMMA ConnectKept ==
    ASSUME ServerTypeOK, ConnInv, NEW cl \in Clients, NEW s \in Offered, Connect(cl, s)
    PROVE  UNCHANGED provider /\ conn' \in [Clients -> Connections] /\ ConnInv'
<1> DEFINE d == [Free EXCEPT !.stage = "backlog", !.peer = "there", !.service = s]
<1>0. s \in Services /\ "backlog" \in Stages
  BY ProvidedFacts DEF Stages
<1>1. /\ d \in Connections /\ d.stage = "backlog" /\ d.service = s
      /\ d.runs = 0 /\ d.answer = "none"
  BY <1>0, FreeIsGood, ConnectFields DEF Free
<1>3. server # "off" /\ conn' = [conn EXCEPT ![cl] = d] /\ UNCHANGED provider
  BY DEF Connect
<1> HIDE DEF d
<1>2. Good(d)
  BY <1>1 DEF Good
<1>4. conn' \in [Clients -> Connections]
  BY <1>1, <1>3 DEF ServerTypeOK
<1>5. \A k \in Clients : conn'[k] = IF k = cl THEN d ELSE conn[k]
  BY <1>3 DEF ServerTypeOK
<1>6. QED
  BY <1>1, <1>2, <1>3, <1>4, <1>5 DEF ConnInv, Good, Open, Offered, provider

-----------------------------------------------------------------------------
(* The programs.                                                           *)

ProgramTypes ==
    /\ ServerTypeOK
    /\ at \in {"none", "register", "listen", "serve", "deregister"}
    /\ item \in 1 .. Len(Provided)
    /\ status \in {"success", "failure"}
    /\ call \in {"none", "sent", "lost"}
    /\ registry \in {"none", "starting", "up", "down"}
    /\ registered \subseteq Services
    /\ left \in [Requests -> Nat]
    /\ late \subseteq registered
    /\ client \in [Clients -> [at : Places, rest : Seq(Services)]]

ProgramInv == ProgramTypes /\ ConnInv /\ MainInv /\ ClientInv

LEMMA LeaveKept ==
    ASSUME ProgramInv, NEW how \in {"dead", "success", "failure"}, Exit(how),
           registry' = registry, registered' \subseteq registered, client' = client,
           late' \subseteq registered', left' \in [Requests -> Nat],
           how = "success" => registered' \subseteq late'
    PROVE  ProgramInv'
<1> USE DEF Exit, MainEnds
<1>1. conn' \in [Clients -> Connections] /\ ConnInv'
  BY CloseAllKept DEF Leave, ProgramInv, ProgramTypes
<1>t. item' \in 1 .. Len(Provided)
  BY ProvidedFacts
<1>s. ServerTypeOK'
  BY <1>1 DEF Leave, ProgramInv, ProgramTypes, ServerTypeOK
<1>2. ProgramTypes'
  BY <1>t, <1>s DEF ProgramInv, ProgramTypes, Requests, Offered
<1>3. MainInv'
  BY DEF Leave, ProgramInv, MainInv, Offered, SuccessLeavesNothing
<1>4. ClientInv'
  BY DEF ProgramInv, ClientInv, Offered
<1>5. QED
  BY <1>1, <1>2, <1>3, <1>4 DEF ProgramInv

\* A step of a client or of a handler, which leaves main and the listener alone.
LEMMA ServingKept ==
    ASSUME ProgramInv, UNCHANGED <<provider, mainVars, registryVars>>,
           conn' \in [Clients -> Connections], ConnInv',
           client' \in [Clients -> [at : Places, rest : Seq(Services)]], ClientInv'
    PROVE  ProgramInv'
<1>1. ProgramTypes'
  BY DEF ProgramInv, ProgramTypes, ServerTypeOK, provider, mainVars, registryVars, Requests, Offered
<1>2. MainInv'
  BY DEF ProgramInv, MainInv, Ahead, Offered, SuccessLeavesNothing, provider, mainVars, registryVars
<1>3. QED
  BY <1>1, <1>2 DEF ProgramInv

\* A step of main or of the registry that leaves the provider's server and the
\* clients alone, but for what main installs.
LEMMA AsideKept ==
    ASSUME ProgramInv, UNCHANGED <<threads, process, server, signalled, accepting, conn, client>>,
           installed \subseteq installed', installed' \subseteq Services,
           at' \in {"register", "listen", "deregister", at},
           item' \in 1 .. Len(Provided), status' \in {"success", "failure"},
           call' \in {"none", "sent", "lost"}, registry' \in {"none", "starting", "up", "down"},
           registered' \subseteq Offered, left' \in [Requests -> Nat],
           late' \subseteq registered', MainInv'
    PROVE  ProgramInv'
<1> USE DEF ProgramInv
<1>1. ServerTypeOK'
  BY DEF ProgramTypes, ServerTypeOK
<1>2. ProgramTypes'
  BY <1>1, ProvidedFacts DEF ProgramTypes, Requests, Offered
<1>3. ConnInv' /\ ClientInv'
  BY DEF ConnInv, ClientInv, Offered, Good, Open
<1>4. QED
  BY <1>2, <1>3

LEMMA ItemFacts ==
    ASSUME ProgramInv
    PROVE  /\ item \in 1 .. Len(Provided)
           /\ Provided[item] \in Services /\ Provided[item] \in Offered
  BY ProvidedFacts DEF ProgramInv, ProgramTypes

LEMMA AskKept ==
    ASSUME ProgramInv, AskToRegister \/ AskToDeregister
    PROVE  ProgramInv'
<1> USE DEF ProgramInv
<1>1. /\ UNCHANGED <<threads, process, server, signalled, accepting, conn, client>>
      /\ UNCHANGED <<at, item, status, registry, registered, left, late>>
      /\ at \in {"register", "deregister"} /\ registry = "up" /\ call' = "sent"
      /\ \/ installed' = installed \cup {Provided[item]}
         \/ at = "deregister" /\ installed' = installed
  BY DEF AskToRegister, AskToDeregister, Ask, registryVars, serverVars, provider
<1>2. installed \subseteq installed' /\ installed' \subseteq Services
  BY <1>1, ItemFacts DEF ProgramTypes, ServerTypeOK
<1>3. MainInv'
  BY <1>1, <1>2 DEF MainInv, Ahead, SuccessLeavesNothing, Offered
<1>4. /\ item \in 1 .. Len(Provided) /\ status \in {"success", "failure"}
      /\ registry \in {"none", "starting", "up", "down"} /\ registered \subseteq Offered
      /\ left \in [Requests -> Nat] /\ late \subseteq registered
  BY DEF ProgramTypes, MainInv
<1>5. QED
  BY <1>1, <1>2, <1>3, <1>4, AsideKept

LEMMA RegisterServiceKept ==
    ASSUME ProgramInv, RegisterService
    PROVE  ProgramInv'
<1> USE DEF ProgramInv
<1>1. item \in 1 .. Len(Provided) /\ Provided[item] \in Services /\ Provided[item] \in Offered
  BY ItemFacts
<1>0. at = "register" /\ call = "sent"
  BY DEF RegisterService
<1>2. /\ process = "alive" /\ server = "off" /\ registered \subseteq Offered
      /\ \A i \in 1 .. item - 1 : Provided[i] \in installed
      /\ Provided[item] \in installed
      /\ late \subseteq registered
  BY <1>0 DEF MainInv, ProgramTypes
<1>3. /\ UNCHANGED <<threads, process, installed, server, signalled, accepting, conn, client>>
      /\ UNCHANGED <<status, registry, left>> /\ late' = late \ {Provided[item]}
      /\ call' = "none" /\ registered' = registered \cup {Provided[item]}
  BY DEF RegisterService, serverVars, provider
<1>4. item' \in 1 .. Len(Provided) /\ at' \in {"register", "listen"}
  BY <1>0, <1>1 DEF RegisterService, Advance
<1>5. \A i \in 1 .. item : Provided[i] \in installed
  BY <1>1, <1>2
<1>6. MainInv'
  <2>1. CASE item = Len(Provided)
    <3>1. at' = "listen" /\ item' = 1 /\ Offered \subseteq installed
      BY <1>5, <2>1, ProvidedFacts DEF RegisterService, Advance, Offered
    <3>2. QED
      BY <1>1, <1>2, <1>3, <3>1 DEF MainInv, SuccessLeavesNothing, Offered
  <2>2. CASE item # Len(Provided)
    <3>1. at' = "register" /\ item' = item + 1
      BY <1>0, <2>2 DEF RegisterService, Advance
    <3>2. \A i \in 1 .. item' - 1 : Provided[i] \in installed
      BY <1>1, <1>5, <3>1, ProvidedFacts
    <3>3. QED
      BY <1>1, <1>2, <1>3, <3>1, <3>2 DEF MainInv, SuccessLeavesNothing, Offered
  <2>3. QED
    BY <2>1, <2>2
<1>7. /\ status \in {"success", "failure"} /\ registry \in {"none", "starting", "up", "down"}
      /\ left \in [Requests -> Nat] /\ installed \subseteq Services
  BY DEF ProgramTypes, ServerTypeOK
<1>8. registered' \subseteq Offered /\ late' \subseteq registered'
  BY <1>1, <1>2, <1>3
<1>9. QED
  BY <1>3, <1>4, <1>6, <1>7, <1>8, AsideKept

LEMMA DeregisterServiceKept ==
    ASSUME ProgramInv, DeregisterService
    PROVE  ProgramInv'
<1> USE DEF ProgramInv
<1>1. item \in 1 .. Len(Provided) /\ process = "alive" /\ server = "off" /\ at = "deregister"
  BY DEF DeregisterService, ProgramTypes, MainInv
<1>2. registered \subseteq Ahead \cup late
  BY DEF DeregisterService, MainInv
<1>3. registered' = registered \ {Provided[item]} /\ late' = late \ {Provided[item]}
  BY DEF DeregisterService
<1>4. /\ registered \subseteq Offered /\ late \subseteq registered
      /\ left \in [Requests -> Nat] /\ status \in {"success", "failure"}
      /\ registry \in {"none", "starting", "up", "down"} /\ installed \subseteq Services
  BY DEF ProgramTypes, MainInv, ServerTypeOK
<1>5. late' \subseteq registered' /\ registered' \subseteq registered
  BY <1>3, <1>4
<1>6. CASE item = Len(Provided)
  <2>1. registered' \subseteq late'
    BY <1>1, <1>2, <1>3, <1>6, ProvidedFacts DEF Ahead
  <2>2. Exit(status) /\ UNCHANGED <<registry, left, client>>
    BY <1>6 DEF DeregisterService
  <2>3. QED
    BY <1>4, <1>5, <2>1, <2>2, LeaveKept
<1>7. CASE item # Len(Provided)
  <2>1. /\ item' = item + 1 /\ at' = "deregister" /\ call' = "none"
        /\ UNCHANGED <<status, registry, left, client>>
        /\ UNCHANGED <<threads, process, installed, server, signalled, accepting, conn>>
    BY <1>1, <1>7 DEF DeregisterService, Advance, serverVars, provider
  <2>2. registered' \subseteq Ahead' \cup late'
    BY <1>1, <1>2, <1>3, <2>1, ProvidedFacts DEF Ahead
  <2>3. item' \in 1 .. Len(Provided)
    BY <1>1, <1>7, <2>1
  <2>4. MainInv'
    BY <1>1, <1>4, <1>5, <2>1, <2>2 DEF MainInv, SuccessLeavesNothing, Offered
  <2>5. QED
    BY <1>4, <1>5, <2>1, <2>3, <2>4, AsideKept
<1>8. QED
  BY <1>6, <1>7

\* What main and the registry have when main gives up.
LEMMA ThrowKept ==
    ASSUME ProgramInv, NEW how \in {"dead", "failure"}, Exit(how),
           UNCHANGED <<registry, registered, late, client>>, left' \in [Requests -> Nat]
    PROVE  ProgramInv'
<1>1. late' \subseteq registered'
  BY DEF ProgramInv, ProgramTypes
<1>2. QED
  BY <1>1, LeaveKept

LEMMA MainKept ==
    ASSUME ProgramInv, Main
    PROVE  ProgramInv'
<1> USE DEF ProgramInv
<1>0. /\ item \in 1 .. Len(Provided) /\ status \in {"success", "failure"}
      /\ registry \in {"none", "starting", "up", "down"} /\ registered \subseteq Offered
      /\ call \in {"none", "sent", "lost"}
      /\ left \in [Requests -> Nat] /\ late \subseteq registered /\ installed \subseteq Services
  BY DEF ProgramTypes, MainInv, ServerTypeOK
<1>1. CASE RegistrationThrows \/ DeregistrationThrows
  BY <1>0, <1>1, ThrowKept DEF RegistrationThrows, DeregistrationThrows, registryVars
<1>2. CASE StartListening
  <2>1. ProgramTypes'
    BY <1>2 DEF StartListening, Listen, ProgramTypes, ServerTypeOK, registryVars, Requests, Offered
  <2>2. MainInv'
    BY <1>2 DEF StartListening, Listen, MainInv, SuccessLeavesNothing, Offered, registryVars
  <2>3. ConnInv' /\ ClientInv'
    BY <1>2 DEF StartListening, Listen, ConnInv, ClientInv, Offered, Good, Open, registryVars
  <2>4. QED
    BY <2>1, <2>2, <2>3
<1>3. CASE ListeningThrows
  <2>1. /\ UNCHANGED <<threads, process, installed, server, signalled, accepting, conn, client>>
        /\ UNCHANGED <<item, call, registry, registered, left, late>>
        /\ item = 1 /\ call = "none" /\ at = "listen"
        /\ at' = "deregister" /\ status' = "failure"
    BY <1>3 DEF ListeningThrows, MainInv, registryVars, serverVars, provider
  <2>2. Offered = Ahead
    BY <2>1, ProvidedFacts DEF Ahead, Offered
  <2>3. registered' \subseteq Ahead'
    BY <1>0, <2>1, <2>2 DEF Ahead
  <2>4. MainInv'
    BY <2>1, <2>3 DEF MainInv, SuccessLeavesNothing, Offered
  <2>5. QED
    BY <1>0, <2>1, <2>4, AsideKept
<1>4. CASE StopListening
  <2>1. /\ at = "serve" /\ item = 1 /\ call = "none" /\ process = "alive"
        /\ UNCHANGED <<process, installed, threads, item, status, call>>
        /\ UNCHANGED <<registry, registered, left, late, client>>
        /\ at' = "deregister" /\ server' = "off" /\ signalled' = FALSE /\ accepting' = FALSE
    BY <1>4 DEF StopListening, Close, Closed, MainInv, registryVars
  <2>2. conn' \in [Clients -> Connections] /\ ConnInv'
    BY <1>4, CloseAllKept DEF StopListening, Close, Closed, ProgramTypes
  <2>3. ServerTypeOK'
    BY <2>1, <2>2 DEF ProgramTypes, ServerTypeOK
  <2>4. ProgramTypes'
    BY <2>1, <2>3 DEF ProgramTypes, Requests, Offered
  <2>5. Offered = Ahead
    BY <2>1, ProvidedFacts DEF Ahead, Offered
  <2>6. registered' \subseteq Ahead'
    BY <1>0, <2>1, <2>5 DEF Ahead
  <2>7. MainInv'
    BY <2>1, <2>6 DEF MainInv, SuccessLeavesNothing, Offered
  <2>8. ClientInv'
    BY <2>1 DEF ClientInv, Offered
  <2>9. QED
    BY <2>2, <2>4, <2>7, <2>8
<1>5. QED
  BY <1>1, <1>2, <1>3, <1>4, AskKept, RegisterServiceKept, DeregisterServiceKept DEF Main

-----------------------------------------------------------------------------
(* The clients.                                                            *)

LEMMA ClientRecord ==
    ASSUME ProgramTypes, NEW cl \in Clients
    PROVE  /\ client[cl].at \in Places /\ client[cl].rest \in Seq(Services)
           /\ \A w : [client EXCEPT ![cl].at = w]
                        = [client EXCEPT ![cl] = [at |-> w, rest |-> client[cl].rest]]
           /\ \A r : [client EXCEPT ![cl].rest = r]
                        = [client EXCEPT ![cl] = [at |-> client[cl].at, rest |-> r]]
<1>1. client[cl] \in [at : Places, rest : Seq(Services)]
  BY DEF ProgramTypes
<1>2. client[cl].at \in Places /\ client[cl].rest \in Seq(Services)
  BY <1>1
<1>3. \A w : [client[cl] EXCEPT !.at = w] = [at |-> w, rest |-> client[cl].rest]
  BY <1>1
<1>4. \A r : [client[cl] EXCEPT !.rest = r] = [at |-> client[cl].at, rest |-> r]
  BY <1>1
<1>5. QED
  BY <1>2, <1>3, <1>4

LEMMA ClientKept ==
    ASSUME ProgramTypes, ClientInv, NEW cl \in Clients,
           NEW w \in Places, NEW r \in Seq(Services),
           client' = [client EXCEPT ![cl] = [at |-> w, rest |-> r]],
           w \in {"found", "calling"} => r # <<>> /\ Head(r) \in Offered
    PROVE  client' \in [Clients -> [at : Places, rest : Seq(Services)]] /\ ClientInv'
<1>1. client' \in [Clients -> [at : Places, rest : Seq(Services)]]
  BY DEF ProgramTypes
<1>2. /\ client'[cl].at = w /\ client'[cl].rest = r
      /\ \A k \in Clients \ {cl} : client'[k] = client[k]
  BY DEF ProgramTypes
<1>3. QED
  BY <1>1, <1>2 DEF ClientInv, Offered

LEMMA EndKept ==
    ASSUME ProgramTypes, ClientInv, NEW cl \in Clients,
           NEW how \in {"failed", "ended"}, End(cl, how)
    PROVE  client' \in [Clients -> [at : Places, rest : Seq(Services)]] /\ ClientInv'
<1>1. how \in Places /\ how \notin {"found", "calling"}
  BY DEF Places
<1>2. <<>> \in Seq(Services)
  OBVIOUS
<1>3. QED
  BY <1>1, <1>2, ClientKept DEF End

\* A step that leaves the provider's server alone.
LEMMA ApartKept ==
    ASSUME ServerTypeOK, ConnInv, UNCHANGED serverVars
    PROVE  UNCHANGED provider /\ conn' \in [Clients -> Connections] /\ ConnInv'
  BY DEF ServerTypeOK, ConnInv, Offered, Good, Open, serverVars, provider

LEMMA LoopKept ==
    ASSUME ProgramInv, NEW cl \in Clients, Loop(cl)
    PROVE  ProgramInv'
<1> USE DEF ProgramInv
<1> DEFINE Places1 == client' \in [Clients -> [at : Places, rest : Seq(Services)]] /\ ClientInv'
           Conn1 == UNCHANGED provider /\ conn' \in [Clients -> Connections] /\ ConnInv'
<1>0. ServerTypeOK
  BY DEF ProgramTypes
<1>1. UNCHANGED <<mainVars, registryVars>>
  BY DEF Loop, Begin, GetProvider, Submit, Refuse, Write, Read, SubmitThrows
<1>2. client[cl].at \in Places /\ client[cl].rest \in Seq(Services)
  BY ClientRecord
<1>3. Places1 /\ Conn1
  <2>1. CASE Begin(cl)
    <3>1. client[cl].at = "idle" /\ UNCHANGED serverVars
      BY <2>1 DEF Begin
    <3>2. ASSUME NEW calls \in Iterations, client' = [client EXCEPT ![cl].rest = calls]
          PROVE  Places1
      <4>1. calls \in Seq(Services)
        BY ProvidedAssumption
      <4>2. [client EXCEPT ![cl].rest = calls]
               = [client EXCEPT ![cl] = [at |-> client[cl].at, rest |-> calls]]
        BY ClientRecord, Zenon
      <4>3. client' = [client EXCEPT ![cl] = [at |-> "idle", rest |-> calls]]
        BY <3>1, <3>2, <4>2
      <4>4. "idle" \in Places /\ "idle" \notin {"found", "calling"}
        BY DEF Places
      <4>5. QED
        BY <4>1, <4>3, <4>4, ClientKept
    <3>3. ASSUME End(cl, "ended")
          PROVE  Places1
      BY <3>3, EndKept
    <3>4. Places1
      BY <2>1, <3>2, <3>3 DEF Begin
    <3>5. QED
      BY <1>0, <3>1, <3>4, ApartKept
  <2>2. CASE GetProvider(cl)
    <3>1. ASSUME To(cl, "found"), Head(client[cl].rest) \in registered
          PROVE  Places1
      <4>1. client[cl].rest # <<>> /\ Head(client[cl].rest) \in Offered
        BY <2>2, <3>1 DEF GetProvider, MainInv
      <4>2. client' = [client EXCEPT ![cl] = [at |-> "found", rest |-> client[cl].rest]]
        BY <3>1, ClientRecord DEF To
      <4>3. QED
        BY <1>2, <4>1, <4>2, ClientKept DEF Places
    <3>2. ASSUME End(cl, "failed")
          PROVE  Places1
      BY <3>2, EndKept
    <3>3. Places1
      BY <2>2, <3>1, <3>2 DEF GetProvider
    <3>4. QED
      BY <1>0, <2>2, <3>3, ApartKept DEF GetProvider
  <2>3. CASE Submit(cl)
    <3>1. client[cl].rest # <<>> /\ Head(client[cl].rest) \in Offered
      BY <2>3 DEF Submit, ClientInv
    <3>2. client' = [client EXCEPT ![cl] = [at |-> "calling", rest |-> client[cl].rest]]
      BY <2>3, ClientRecord DEF Submit, To
    <3>3. Places1
      BY <1>2, <3>1, <3>2, ClientKept DEF Places
    <3>4. Conn1
      BY <1>0, <2>3, <3>1, ConnectKept DEF Submit
    <3>5. QED
      BY <3>3, <3>4
  <2>4. CASE Refuse(cl)
    BY <1>0, <2>4, EndKept, ApartKept DEF Refuse
  <2>5. CASE Write(cl)
    <3>1. Places1
      BY <2>5 DEF Write, ProgramTypes, ClientInv, Offered
    <3>2. QED
      BY <1>0, <2>5, <3>1, SendKept DEF Write
  <2>6. CASE Read(cl)
    <3>1. client[cl].rest # <<>>
      BY <2>6 DEF Read, ClientInv
    <3>2. Tail(client[cl].rest) \in Seq(Services) /\ <<>> \in Seq(Services)
      BY <1>2, <3>1, HeadTailProperties
    <3>3. PICK r \in Seq(Services) :
              client' = [client EXCEPT ![cl] = [at |-> "idle", rest |-> r]]
      <4>1. CASE conn[cl].answer = "ok"
        BY <2>6, <3>2, <4>1 DEF Read, ProgramTypes
      <4>2. CASE conn[cl].answer # "ok"
        BY <2>6, <3>2, <4>2 DEF Read, ProgramTypes
      <4>3. QED
        BY <4>1, <4>2
    <3>4. Places1
      BY <3>3, ClientKept DEF Places
    <3>5. Conn1
      BY <1>0, <2>6, HangupKept DEF Read, Receive
    <3>6. QED
      BY <3>4, <3>5
  <2>7. CASE SubmitThrows(cl)
    BY <1>0, <2>7, EndKept, HangupKept DEF SubmitThrows, LoseConnection
  <2>8. QED
    BY <2>1, <2>2, <2>3, <2>4, <2>5, <2>6, <2>7 DEF Loop
<1>4. QED
  BY <1>1, <1>3, ServingKept

LEMMA ServeKept ==
    ASSUME ProgramInv, NEW cl \in Clients, Serve(cl)
    PROVE  ProgramInv'
<1> USE DEF ProgramInv
<1>1. Handler(cl) \/ Invoked(cl)
  BY DEF Serve
<1>2. Open(conn[cl])
  BY <1>1 DEF Handler, HandleAccept, OnHeaderReceived, OnPayloadReceived, Invoked, WriteRest,
     OnWriteResponse, Open, Stages
<1>3. at = "serve" /\ process = "alive" /\ (server # "off" => Offered \subseteq installed)
  BY <1>2 DEF ConnInv, MainInv
<1>4. \/ Terminate
      \/ UNCHANGED provider /\ conn' \in [Clients -> Connections] /\ ConnInv'
  BY <1>1, <1>3, ServedKept DEF ProgramTypes
<1>5. CASE Terminate
  <2>1. process' = "dead" /\ Leave("dead")
    BY <1>5 DEF Terminate, Leave
  <2>2. Exit("dead") /\ UNCHANGED <<registry, registered, left, late, client>>
    BY <2>1 DEF Serve, Exit, registryVars
  <2>3. left' \in [Requests -> Nat]
    BY <2>2 DEF ProgramTypes
  <2>4. QED
    BY <2>2, <2>3, ThrowKept
<1>6. CASE UNCHANGED provider /\ conn' \in [Clients -> Connections] /\ ConnInv'
  <2>1. UNCHANGED <<mainVars, registryVars, client>>
    BY <1>3, <1>6 DEF Serve, provider
  <2>2. client' \in [Clients -> [at : Places, rest : Seq(Services)]] /\ ClientInv'
    BY <2>1 DEF ProgramTypes, ClientInv, Offered
  <2>3. QED
    BY <1>6, <2>1, <2>2, ServingKept
<1>7. QED
  BY <1>4, <1>5, <1>6

-----------------------------------------------------------------------------
(* Starting and signalling.                                                *)

LEMMA StartProviderKept ==
    ASSUME ProgramInv, StartProvider
    PROVE  ProgramInv'
<1> USE DEF ProgramInv
<1>1. at = "none" /\ server = "off"
  BY DEF StartProvider, MainInv
<1>2. /\ UNCHANGED <<conn, server, client, registered, registry, left>> /\ process' = "alive"
      /\ at' = "register" /\ item' = 1 /\ call' = "none" /\ late' = {}
  BY DEF StartProvider
<1>3. ProgramTypes'
  <2>1. item' \in 1 .. Len(Provided)
    BY <1>2, ProvidedFacts
  <2>2. ServerTypeOK'
    BY DEF StartProvider, ProgramTypes, ServerTypeOK
  <2>3. QED
    BY <1>2, <2>1, <2>2 DEF StartProvider, ProgramTypes, Requests, Offered
<1>4. MainInv'
  <2>1. registered' \subseteq Offered
    BY <1>2 DEF MainInv
  <2>2. QED
    BY <1>1, <1>2, <2>1 DEF MainInv, SuccessLeavesNothing, Offered
<1>5. ConnInv' /\ ClientInv'
  BY <1>2 DEF ConnInv, ClientInv, Offered, Good, Open
<1>6. QED
  BY <1>3, <1>4, <1>5

\* What a killed main asked for is left to the registry.
LEMMA KilledKept ==
    ASSUME ProgramInv, Killed, client' = client
    PROVE  ProgramInv'
<1>1. left' \in [Requests -> Nat]
  <2>1. left \in [Requests -> Nat]
    BY DEF ProgramInv, ProgramTypes
  <2>2. CASE call = "sent"
    <3>1. at \in {"register", "deregister"}
      BY <2>2 DEF ProgramInv, MainInv
    <3>2. PICK r : r = [op |-> at, service |-> Provided[item]]
      OBVIOUS
    <3>3. r \in Requests
      BY <3>1, <3>2, ItemFacts DEF Requests
    <3>4. left' = [left EXCEPT ![r] = @ + 1]
      BY <2>2, <3>2 DEF Killed
    <3>5. QED
      BY <2>1, <3>3, <3>4
  <2>3. CASE call # "sent"
    BY <2>1, <2>3 DEF Killed
  <2>4. QED
    BY <2>2, <2>3
<1>2. QED
  BY <1>1, ThrowKept DEF Killed

LEMMA SignalProviderKept ==
    ASSUME ProgramInv, SignalProvider
    PROVE  ProgramInv'
<1> USE DEF ProgramInv
<1>1. CASE server = "off"
  BY <1>1, KilledKept DEF SignalProvider
<1>2. CASE server # "off"
  <2>1. /\ UNCHANGED <<threads, process, installed, server, accepting, conn>>
        /\ UNCHANGED <<at, item, status, call, registry, registered, left, late, client>>
        /\ signalled' = TRUE
    BY <1>2 DEF SignalProvider, mainVars, registryVars
  <2>2. ServerTypeOK'
    BY <2>1 DEF ProgramTypes, ServerTypeOK
  <2>3. ProgramTypes'
    BY <2>1, <2>2 DEF ProgramTypes, Requests, Offered
  <2>4. MainInv'
    BY <2>1 DEF MainInv, Ahead, SuccessLeavesNothing, Offered
  <2>5. ConnInv' /\ ClientInv'
    BY <2>1 DEF ConnInv, ClientInv, Offered, Good, Open
  <2>6. QED
    BY <2>3, <2>4, <2>5
<1>3. QED
  BY <1>1, <1>2

LEMMA StopKept ==
    ASSUME ProgramInv, Stop
    PROVE  ProgramInv'
<1> USE DEF ProgramInv
<1>1. /\ UNCHANGED <<threads, process, installed, signalled, accepting, conn>>
      /\ UNCHANGED <<at, item, status, call, registry, registered, left, late, client>>
      /\ server # "off" /\ server' = "stopped"
  BY DEF Stop, HandleStop, ThreadFree, mainVars, registryVars
<1>2. ServerTypeOK'
  BY <1>1 DEF ProgramTypes, ServerTypeOK
<1>3. ProgramTypes'
  BY <1>1, <1>2 DEF ProgramTypes, Requests, Offered
<1>4. MainInv'
  BY <1>1 DEF MainInv, Ahead, SuccessLeavesNothing, Offered
<1>5. ConnInv' /\ ClientInv'
  BY <1>1 DEF ConnInv, ClientInv, Offered, Good, Open
<1>6. QED
  BY <1>3, <1>4, <1>5

LEMMA RegistryKept ==
    ASSUME ProgramInv, StartRegistry \/ RegistryListens \/ StopRegistry
    PROVE  ProgramInv'
<1> USE DEF ProgramInv
<1>0. /\ item \in 1 .. Len(Provided) /\ status \in {"success", "failure"}
      /\ call \in {"none", "sent", "lost"} /\ registered \subseteq Offered
      /\ left \in [Requests -> Nat] /\ late \subseteq registered /\ installed \subseteq Services
  BY DEF ProgramTypes, MainInv, ServerTypeOK
<1>1. /\ UNCHANGED <<threads, process, installed, server, signalled, accepting, conn, client>>
      /\ UNCHANGED <<at, item, status>>
  BY DEF StartRegistry, RegistryListens, StopRegistry, mainVars, serverVars, provider
<1>2. CASE StartRegistry \/ RegistryListens
  <2>1. /\ UNCHANGED <<call, registered, left, late>> /\ registry # "up"
        /\ registry' \in {"starting", "up"}
    BY <1>2 DEF StartRegistry, RegistryListens, mainVars
  <2>2. MainInv'
    BY <1>1, <2>1 DEF MainInv, Ahead, SuccessLeavesNothing, Offered
  <2>3. QED
    BY <1>0, <1>1, <2>1, <2>2, AsideKept
<1>3. CASE StopRegistry
  <2>1. /\ registry' = "down" /\ registered' = {} /\ late' = {} /\ left' = NothingLeft
        /\ call' = IF call = "sent" THEN "lost" ELSE call
    BY <1>3 DEF StopRegistry
  <2>2. left' \in [Requests -> Nat] /\ call' \in {"none", "lost"}
    BY <1>0, <2>1 DEF NothingLeft
  <2>3. MainInv'
    BY <1>1, <2>1, <2>2 DEF MainInv, SuccessLeavesNothing, Offered
  <2>4. QED
    BY <1>0, <1>1, <2>1, <2>2, <2>3, AsideKept
<1>4. QED
  BY <1>2, <1>3

\* What a killed life asked for is late, if it comes back.
LEMMA CarriedOutKept ==
    ASSUME ProgramInv, NEW r \in Requests, RegistryCarriesOut(r)
    PROVE  ProgramInv'
<1> USE DEF ProgramInv
<1>0. /\ item \in 1 .. Len(Provided) /\ status \in {"success", "failure"}
      /\ call \in {"none", "sent", "lost"} /\ registered \subseteq Offered
      /\ left \in [Requests -> Nat] /\ late \subseteq registered /\ installed \subseteq Services
      /\ r.service \in Offered
  BY DEF ProgramTypes, MainInv, ServerTypeOK, Requests
<1>1. /\ UNCHANGED <<threads, process, installed, server, signalled, accepting, conn, client>>
      /\ UNCHANGED <<at, item, status, call, registry>> /\ registry = "up"
      /\ left[r] > 0 /\ left' = [left EXCEPT ![r] = @ - 1]
  BY DEF RegistryCarriesOut, mainVars, serverVars, provider
<1>2. left' \in [Requests -> Nat]
  BY <1>0, <1>1
<1>3. \/ /\ registered' = registered \cup {r.service} /\ late' = late \cup ({r.service} \ registered)
      \/ /\ registered' = registered \ {r.service} /\ late' = late \ {r.service}
  BY DEF RegistryCarriesOut
<1>4. registered' \subseteq Offered /\ late' \subseteq registered'
  BY <1>0, <1>3
<1>5. /\ at = "deregister" => registered' \subseteq Ahead \cup late'
      /\ process = "success" => registered' \subseteq late'
  BY <1>3 DEF MainInv, SuccessLeavesNothing
<1>6. MainInv'
  BY <1>1, <1>4, <1>5 DEF MainInv, Ahead, SuccessLeavesNothing, Offered
<1>7. QED
  BY <1>0, <1>1, <1>2, <1>4, <1>6, AsideKept

LEMMA ClientSignalsKept ==
    ASSUME ProgramInv, NEW cl \in Clients,
           StartClient(cl) \/ KillClient(cl) \/ Reset(cl)
    PROVE  ProgramInv'
<1> USE DEF ProgramInv
<1>0. ServerTypeOK
  BY DEF ProgramTypes
<1>1. UNCHANGED <<mainVars, registryVars>>
  BY DEF StartClient, KillClient, Reset
<1>2. client' \in [Clients -> [at : Places, rest : Seq(Services)]] /\ ClientInv'
  <2>1. CASE StartClient(cl)
    <3>1. client' = [client EXCEPT ![cl] = [at |-> "idle", rest |-> client[cl].rest]]
      BY <2>1, ClientRecord DEF StartClient, To
    <3>2. QED
      BY <3>1, ClientRecord, ClientKept DEF Places
  <2>2. CASE KillClient(cl) \/ Reset(cl)
    BY <2>2, EndKept DEF KillClient, Reset
  <2>3. QED
    BY <2>1, <2>2
<1>3. UNCHANGED provider /\ conn' \in [Clients -> Connections] /\ ConnInv'
  <2>1. UNCHANGED serverVars \/ Hangup(cl, "gone") \/ Hangup(cl, "reset")
    BY DEF StartClient, KillClient, Reset
  <2>2. QED
    BY <1>0, <2>1, ApartKept, HangupKept
<1>4. QED
  BY <1>1, <1>2, <1>3, ServingKept

LEMMA ProgramKept ==
    ASSUME ProgramInv, ProgramStep \/ UNCHANGED programs
    PROVE  ProgramInv'
<1>1. CASE UNCHANGED programs
  <2>1. UNCHANGED <<serverVars, provider, mainVars, registryVars, client>>
    BY <1>1 DEF programs, serverVars
  <2>2. conn' \in [Clients -> Connections] /\ ConnInv'
    BY <2>1, ApartKept DEF ProgramInv, ProgramTypes
  <2>3. client' \in [Clients -> [at : Places, rest : Seq(Services)]] /\ ClientInv'
    BY <2>1 DEF ProgramInv, ProgramTypes, ClientInv, Offered
  <2>4. QED
    BY <2>1, <2>2, <2>3, ServingKept
<1>2. CASE Main
  BY <1>2, MainKept
<1>3. CASE Stop
  BY <1>3, StopKept
<1>4. CASE StartRegistry \/ RegistryListens \/ StopRegistry
  BY <1>4, RegistryKept
<1>5. CASE \E cl \in Clients : Loop(cl)
  BY <1>5, LoopKept
<1>6. CASE \E cl \in Clients : Serve(cl)
  BY <1>6, ServeKept
<1>7. CASE \E cl \in Clients : StartClient(cl) \/ KillClient(cl) \/ Reset(cl)
  BY <1>7, ClientSignalsKept
<1>8. CASE StartProvider
  BY <1>8, StartProviderKept
<1>9. CASE SignalProvider
  BY <1>9, SignalProviderKept
<1>10. CASE KillProvider
  BY <1>10, KilledKept DEF KillProvider
<1>11. CASE \E r \in Requests : RegistryCarriesOut(r)
  BY <1>11, CarriedOutKept
<1>12. QED
  BY <1>1, <1>2, <1>3, <1>4, <1>5, <1>6, <1>7, <1>8, <1>9, <1>10, <1>11 DEF ProgramStep

-----------------------------------------------------------------------------
(* The launcher and what is remembered.                                    *)

LauncherTypes ==
    /\ launcher \in {"absent", "starting", "running", "stopping", "waiting", "ended", "gone"}
    /\ child \in 0 .. Len(Children)
    /\ restarts \in 0 .. MaxRestarts
    /\ spoilt \subseteq Clients
    /\ orderly \in BOOLEAN

LEMMA LauncherKept ==
    ASSUME LauncherTypes, LauncherInv, [Next]_vars
    PROVE  LauncherTypes' /\ LauncherInv'
<1>0. Len(Children) \in Nat \ {0} /\ MaxRestarts \in Nat
  BY ChildrenFacts, ProvidedAssumption
<1>1. spoilt' \subseteq Clients
  <2>1. Spoil \/ UNCHANGED spoilt
    BY DEF Next, Step, Started, Faulty, Told, LauncherWorks, history, vars
  <2>2. QED
    BY <2>1 DEF Spoil, LauncherTypes
<1>2. orderly' \in BOOLEAN
  <2>1. CASE Told
    BY <2>1 DEF Told
  <2>2. CASE UNCHANGED orderly \/ orderly' = FALSE
    BY <2>2 DEF LauncherTypes
  <2>3. QED
    BY <2>1, <2>2 DEF Next, Step, Started, Faulty, LauncherWorks, history, vars
<1>3. CASE UNCHANGED launcherVars
  <2>1. UNCHANGED <<launcher, child, restarts>>
    BY <1>3 DEF launcherVars
  <2>2. QED
    BY <1>1, <1>2, <2>1 DEF LauncherTypes, LauncherInv, Children
<1>4. CASE ByHand
  <2>1. UNCHANGED <<launcher, child>>
    BY <1>4 DEF ByHand, Again, launcherVars
  <2>2. restarts' = restarts \/ (restarts > 0 /\ restarts' = restarts - 1)
    BY <1>4 DEF ByHand, Again, launcherVars
  <2>3. restarts' \in 0 .. MaxRestarts
    BY <1>0, <2>2 DEF LauncherTypes
  <2>4. QED
    BY <1>1, <1>2, <2>1, <2>3 DEF LauncherTypes, LauncherInv, Children
<1>5. CASE Launch
  <2>1. child' \in 0 .. Len(Children) /\ child' # 0 /\ restarts' = restarts
    BY <1>0, <1>5 DEF Launch, LauncherTypes, LauncherInv
  <2>2. launcher' \in {"running", "starting"}
    BY <1>5 DEF Launch
  <2>3. QED
    BY <1>1, <1>2, <2>1, <2>2 DEF LauncherTypes, LauncherInv, Children
<1>6. CASE WaitChild
  <2>1. child # 0 /\ child' = child - 1 /\ restarts' = restarts
    BY <1>6 DEF WaitChild, LauncherInv
  <2>2. launcher' = IF child = 1 THEN "ended" ELSE "stopping"
    BY <1>6 DEF WaitChild
  <2>3. child' \in 0 .. Len(Children) /\ (child # 1 => child' # 0)
    BY <1>0, <2>1 DEF LauncherTypes
  <2>4. QED
    BY <1>1, <1>2, <2>1, <2>2, <2>3 DEF LauncherTypes, LauncherInv, Children
<1>7. CASE LauncherDies \/ OnKill \/ KillChild \/ AllExited
  <2>1. UNCHANGED <<child, restarts>>
    BY <1>7 DEF LauncherDies, OnKill, KillChild, AllExited
  <2>2. /\ launcher' \in {"gone", "stopping", "waiting", "ended"}
        /\ launcher' \in {"stopping", "waiting"} => child # 0
    BY <1>7 DEF LauncherDies, OnKill, KillChild, AllExited, LauncherInv
  <2>3. QED
    BY <1>1, <1>2, <2>1, <2>2 DEF LauncherTypes, LauncherInv, Children
<1>8. QED
  <2>1. CASE UNCHANGED vars
    BY <1>3, <2>1 DEF vars
  <2>2. CASE Next
    BY <1>3, <1>4, <1>5, <1>6, <1>7, <2>2
       DEF Next, Step, Started, Faulty, Told, LauncherWorks
  <2>3. QED
    BY <2>1, <2>2

-----------------------------------------------------------------------------
(* The invariant and what it says.                                         *)

LEMMA Parts == IInv <=> ProgramInv /\ LauncherTypes /\ LauncherInv
  BY DEF IInv, TypeOK, ProgramInv, ProgramTypes, LauncherTypes

LEMMA Initially == Init => IInv
<1> SUFFICES ASSUME Init PROVE IInv
  OBVIOUS
<1>1. ServerTypeOK
  <2>1. threads \in Nat \ {0}
    BY ProvidedAssumption DEF Init
  <2>2. QED
    BY <2>1, FreeIsGood DEF Init, ServerInit, ServerTypeOK
<1>2. ProgramTypes
  <2>1. item \in 1 .. Len(Provided)
    BY ProvidedFacts DEF Init
  <2>2. client \in [Clients -> [at : Places, rest : Seq(Services)]]
    BY DEF Init, Places
  <2>3. left \in [Requests -> Nat]
    BY DEF Init, NothingLeft
  <2>4. QED
    BY <1>1, <2>1, <2>2, <2>3 DEF Init, ProgramTypes
<1>3. ConnInv
  BY FreeIsGood DEF Init, ServerInit, ConnInv
<1>4. MainInv /\ ClientInv
  BY DEF Init, ServerInit, MainInv, SuccessLeavesNothing, ClientInv
<1>5. LauncherTypes /\ LauncherInv
  <2>1. child \in 0 .. Len(Children) /\ child # 0
    BY ChildrenFacts DEF Init
  <2>2. restarts \in 0 .. MaxRestarts
    BY ProvidedAssumption DEF Init
  <2>3. orderly \in BOOLEAN /\ spoilt \subseteq Clients
    BY DEF Init
  <2>4. launcher \in {"absent", "starting"}
    BY DEF Init
  <2>5. QED
    BY <2>1, <2>2, <2>3, <2>4 DEF LauncherTypes, LauncherInv
<1>6. QED
  BY <1>2, <1>3, <1>4, <1>5, Parts DEF ProgramInv

LEMMA Invariance == Spec => []IInv
<1>1. Init => IInv
  BY Initially
<1>2. IInv /\ [Next]_vars => IInv'
  <2> SUFFICES ASSUME IInv, [Next]_vars PROVE IInv'
    OBVIOUS
  <2>1. ProgramStep \/ UNCHANGED programs
    BY EachStep DEF IInv
  <2>2. ProgramInv'
    BY <2>1, Parts, ProgramKept
  <2>3. LauncherTypes' /\ LauncherInv'
    BY Parts, LauncherKept
  <2>4. QED
    BY <2>2, <2>3 DEF IInv, TypeOK, ProgramInv, ProgramTypes, LauncherTypes
<1>3. QED
  BY <1>1, <1>2, PTL DEF Spec

\* Types are kept by every program, fault and signal.
THEOREM TypeCorrect == Spec => []TypeOK
<1>1. IInv => TypeOK
  BY DEF IInv
<1>2. QED
  BY <1>1, Invariance, PTL

\* A request is served at most once, and once if it is answered by a success,
\* whatever fails in between: an answer is written only after the invocation, and
\* a connection never goes back to an earlier stage (serviceskeleton.cpp).
THEOREM OneInvocation == Spec => []SuccessIsOneInvocation
<1>1. IInv => SuccessIsOneInvocation
  BY DEF IInv, ConnInv, Good, SuccessIsOneInvocation
<1>2. QED
  BY <1>1, Invariance, PTL

\* The registry sends a client only to services that are installed when the
\* provider accepts its connection (the order of install, register and listen in
\* the providers' main).
THEOREM AlwaysAvailable == Spec => []NeverUnavailable
<1>1. IInv => NeverUnavailable
  BY DEF IInv, ConnInv, Good, NeverUnavailable
<1>2. QED
  BY <1>1, Invariance, PTL

\* A provider that returns success has deregistered all that it registered, and all
\* that lives before it registered, unless one was killed in a call that the
\* registry carries out later still (the second loop of the providers' main).
THEOREM LeavesNothing == Spec => []SuccessLeavesNothing
<1>1. IInv => SuccessLeavesNothing
  BY DEF IInv, MainInv
<1>2. QED
  BY <1>1, Invariance, PTL

-----------------------------------------------------------------------------
(* Services that run finish.                                               *)

LEMMA BecomesOther ==
    ASSUME ServerTypeOK, NEW cl \in Clients, NEW k \in Clients, NEW c, Becomes(k, c)
    PROVE  /\ k # cl => conn'[cl] = conn[cl]
           /\ k = cl /\ c.stage # "closed" => conn'[cl] = c
  BY DEF Becomes, ServerTypeOK

\* A service that runs, or a response that is being written to a client by a
\* listener that was not stopped.
LEMMA ServiceGoesOn ==
    ASSUME ProgramInv, ProgramStep \/ UNCHANGED programs, process' = "alive",
           NEW cl \in Clients, conn[cl].stage \in {"invoking", "writing"},
           conn[cl].stage = "writing" => conn[cl].peer = "there" /\ server # "stopped"
    PROVE  conn'[cl].stage \in {conn[cl].stage, "writing", "written"}
<1> DEFINE Goal == conn'[cl].stage \in {conn[cl].stage, "writing", "written"}
<1>0. ServerTypeOK /\ status \in {"success", "failure"}
  BY DEF ProgramInv, ProgramTypes
<1>1. /\ conn[cl] \in Connections /\ conn[cl] # Free
      /\ conn[cl].stage = "invoking" => cl \in Busy
  BY <1>0 DEF ServerTypeOK, Free, Busy
<1>2. CASE UNCHANGED conn
  BY <1>2
<1>3. ASSUME NEW k \in Clients, NEW how, Hangup(k, how)
      PROVE  Goal
  <2>1. /\ k # cl => conn'[cl] = conn[cl]
        /\ k = cl => conn'[cl] = [conn[cl] EXCEPT !.peer = how]
    BY <1>0, <1>1, <1>3, BecomesOther DEF Hangup, Connections
  <2>2. QED
    BY <1>1, <2>1 DEF Connections
<1>4. CASE Main
  <2>1. ~Leave("failure") /\ ~Leave(status)
    BY <1>0 DEF Leave
  <2>2. ~StopListening
    BY <1>1 DEF StopListening, Close
  <2>3. UNCHANGED conn
    BY <1>4, <2>1, <2>2 DEF Main, AskToRegister, AskToDeregister, RegisterService, RegistrationThrows, StartListening, Listen,
       ListeningThrows, DeregisterService, DeregistrationThrows, Exit, serverVars
  <2>4. QED
    BY <1>2, <2>3
<1>5. ASSUME NEW k \in Clients, Loop(k)
      PROVE  Goal
  <2>1. CASE UNCHANGED conn
    BY <1>2, <2>1
  <2>2. CASE Submit(k)
    <3>1. k # cl /\ conn'[cl] = conn[cl]
      BY <1>0, <1>1, <2>2 DEF Submit, Connect, ServerTypeOK
    <3>2. QED
      BY <3>1
  <2>3. CASE Write(k)
    <3>1. PICK s : Becomes(k, [conn[k] EXCEPT !.sent = s])
      BY <2>3 DEF Write, Send
    <3>2. /\ k # cl => conn'[cl] = conn[cl]
          /\ k = cl => conn'[cl] = [conn[cl] EXCEPT !.sent = s]
      BY <1>0, <1>1, <3>1, BecomesOther DEF Connections
    <3>3. QED
      BY <1>1, <3>2 DEF Connections
  <2>4. CASE Read(k) \/ SubmitThrows(k)
    BY <1>3, <2>4 DEF Read, SubmitThrows, Receive, LoseConnection
  <2>5. QED
    BY <1>5, <2>1, <2>2, <2>3, <2>4 DEF Loop, Begin, GetProvider, Refuse, serverVars
<1>6. ASSUME NEW k \in Clients, Serve(k)
      PROVE  Goal
  <2>1. ~Terminate
    BY DEF Terminate, Leave
  <2>2. CASE Invoked(k)
    <3>1. \/ \E a \in {"ok", "failed"} :
                Becomes(k, [conn[k] EXCEPT !.stage = "written", !.answer = a])
          \/ Becomes(k, [conn[k] EXCEPT !.stage = "writing"])
      BY <2>1, <2>2 DEF Invoked, Answered
    <3>2. ASSUME NEW a \in {"ok", "failed"},
                 Becomes(k, [conn[k] EXCEPT !.stage = "written", !.answer = a])
          PROVE  Goal
      <4>1. PICK c \in Connections : c = conn[k]
        BY <1>0 DEF ServerTypeOK
      <4>2. PICK d : d = [c EXCEPT !.stage = "written", !.answer = a]
        OBVIOUS
      <4>3. d.stage = "written"
        BY <4>2 DEF Connections
      <4>4. Becomes(k, d)
        BY <3>2, <4>1, <4>2
      <4>5. QED
        BY <1>0, <4>3, <4>4, BecomesOther
    <3>3. ASSUME Becomes(k, [conn[k] EXCEPT !.stage = "writing"])
          PROVE  Goal
      <4>1. PICK c \in Connections : c = conn[k]
        BY <1>0 DEF ServerTypeOK
      <4>2. PICK d : d = [c EXCEPT !.stage = "writing"]
        OBVIOUS
      <4>3. d.stage = "writing"
        BY <4>2 DEF Connections
      <4>4. Becomes(k, d)
        BY <3>3, <4>1, <4>2
      <4>5. QED
        BY <1>0, <4>3, <4>4, BecomesOther
    <3>4. QED
      BY <3>1, <3>2, <3>3
  <2>3. CASE Handler(k) /\ k # cl
    <3>1. PICK c : Becomes(k, c)
      BY <2>1, <2>3 DEF Handler, HandleAccept, OnHeaderReceived, OnPayloadReceived, WriteRest,
         OnWriteResponse, Answered
    <3>2. QED
      BY <1>0, <2>3, <3>1, BecomesOther
  <2>4. CASE Handler(k) /\ k = cl
    <3>1. WriteRest(cl)
      BY <2>4 DEF Handler, HandleAccept, OnHeaderReceived, OnPayloadReceived, OnWriteResponse
    <3>2. Becomes(cl, [conn[cl] EXCEPT !.stage = "written", !.answer = "ok"])
      BY <3>1 DEF WriteRest, Answered
    <3>3. PICK c \in Connections : c = conn[cl]
      BY <1>1
    <3>4. PICK d : d = [c EXCEPT !.stage = "written", !.answer = "ok"]
      OBVIOUS
    <3>5. d.stage = "written"
      BY <3>4 DEF Connections
    <3>6. Becomes(cl, d)
      BY <3>2, <3>3, <3>4
    <3>7. QED
      BY <1>0, <3>5, <3>6, BecomesOther
  <2>5. QED
    BY <1>6, <2>2, <2>3, <2>4 DEF Serve
<1>7. ASSUME NEW k \in Clients, StartClient(k) \/ KillClient(k) \/ Reset(k)
      PROVE  Goal
  <2>1. UNCHANGED conn \/ Hangup(k, "gone") \/ Hangup(k, "reset")
    BY <1>7 DEF StartClient, KillClient, Reset, serverVars
  <2>2. QED
    BY <1>2, <1>3, <2>1
<1>8. CASE \/ Stop \/ RegistryListens \/ StartRegistry \/ StopRegistry \/ UNCHANGED programs
           \/ \E r \in Requests : RegistryCarriesOut(r)
  BY <1>2, <1>8 DEF Stop, HandleStop, RegistryListens, StartRegistry, StopRegistry,
     RegistryCarriesOut, programs, serverVars
<1>9. CASE StartProvider \/ SignalProvider \/ KillProvider
  <2>1. ~Killed
    BY DEF Killed, Exit, Leave
  <2>2. UNCHANGED conn
    BY <1>9, <2>1 DEF StartProvider, SignalProvider, KillProvider
  <2>3. QED
    BY <1>2, <2>2
<1>10. QED
  BY <1>4, <1>5, <1>6, <1>7, <1>8, <1>9 DEF ProgramStep

\* A service that was invoked runs to its end and its response is written, at
\* least as much of it as the socket takes at once, or its whole process ends: no
\* signal closes the listener under it, and neither peers nor other calls take it
\* back (the join of the pool's threads in ServiceListener::run).  The rest of a
\* large response is written too, if the client is there and the listener is not
\* stopped.
THEOREM ServicesFinish == Spec => RunningServicesFinish
<1>1. IInv /\ [Next]_vars =>
        [\A cl \in Clients :
           /\ conn[cl].stage = "invoking" /\ process' = "alive"
                 => conn'[cl].stage \in {"invoking", "writing", "written"}
           /\ conn[cl].stage = "writing" /\ conn[cl].peer = "there" /\ process' = "alive"
                 => conn'[cl].stage \in {"writing", "written"} \/ server = "stopped"]_vars
  <2> SUFFICES ASSUME IInv, [Next]_vars, NEW cl \in Clients, process' = "alive"
               PROVE  /\ conn[cl].stage = "invoking"
                            => conn'[cl].stage \in {"invoking", "writing", "written"}
                      /\ conn[cl].stage = "writing" /\ conn[cl].peer = "there"
                            => conn'[cl].stage \in {"writing", "written"} \/ server = "stopped"
    OBVIOUS
  <2>1. ProgramInv /\ (ProgramStep \/ UNCHANGED programs)
    BY EachStep, Parts DEF IInv
  <2>2. conn[cl].stage = "invoking" => conn'[cl].stage \in {"invoking", "writing", "written"}
    BY <2>1, ServiceGoesOn
  <2>3. conn[cl].stage = "writing" /\ conn[cl].peer = "there" /\ server # "stopped"
          => conn'[cl].stage \in {"writing", "written"}
    BY <2>1, ServiceGoesOn
  <2>4. QED
    BY <2>2, <2>3
<1>2. QED
  BY <1>1, Invariance, PTL DEF Spec, RunningServicesFinish

-----------------------------------------------------------------------------
(* The clients keep running.                                               *)

\* A request is served when all of it was sent, and answered when it was served,
\* unless its peer has left.
Sound(c) ==
    /\ c.stage \in {"invoking", "writing"} => c.sent = "all"
    /\ c.stage = "written" => c.answer # "none"
    /\ c.answer # "none" /\ c.peer = "there" => c.sent = "all"

\* The provider has closed a connection on which a client waits.
Lost(c) == c.stage = "closed" /\ c.answer = "none" /\ c.peer = "there"

SoundInv == \A cl \in Clients : Sound(conn[cl])

CallingInv == \A cl \in Clients : client[cl].at = "calling" <=> conn[cl].peer = "there"

RestInv == \A cl \in Clients : client[cl].rest \in Seq(Offered)

\* Who runs while the system is not healthy, has lost a connection or has failed.
Troubled(cl) == (Runs(cl) /\ ~Healthy) \/ Lost(conn[cl]) \/ client[cl].at = "failed"

SpoiltInv == \A cl \in Clients : Troubled(cl) => cl \in spoilt

KInv == SoundInv /\ CallingInv /\ RestInv /\ SpoiltInv

\* What has become of the connections after a step.
Kept ==
    /\ \A cl \in Clients : Sound(conn'[cl])
    /\ \A cl \in Clients : conn'[cl].peer = "there" <=> conn[cl].peer = "there"
    /\ \/ \A cl \in Clients : Lost(conn'[cl]) => Lost(conn[cl])
       \/ server' = "off" /\ client' = client

LEMMA Changed ==
    ASSUME ServerTypeOK, SoundInv, NEW k \in Clients, NEW c \in Connections, Becomes(k, c),
           Sound(c), Lost(c) => Lost(conn[k])
    PROVE  /\ \A cl \in Clients : Sound(conn'[cl])
           /\ \A cl \in Clients : Lost(conn'[cl]) => Lost(conn[cl])
           /\ \A cl \in Clients \ {k} : conn'[cl] = conn[cl]
           /\ conn'[k].peer = "there" <=> c.peer = "there"
<1>1. Sound(Free) /\ ~Lost(Free) /\ Free.peer # "there"
  BY DEF Sound, Lost, Free
<1>2. /\ \A cl \in Clients \ {k} : conn'[cl] = conn[cl]
      /\ conn'[k] = IF c.stage = "closed" /\ c.peer # "there" THEN Free ELSE c
  BY DEF Becomes, ServerTypeOK
<1> QED
  BY <1>1, <1>2 DEF SoundInv

LEMMA CloseAllLoses ==
    ASSUME ServerTypeOK, SoundInv, CloseAll, server' = "off", client' = client
    PROVE  Kept
<1>1. ASSUME NEW cl \in Clients
      PROVE  /\ Sound(conn'[cl])
             /\ conn'[cl].peer = "there" <=> conn[cl].peer = "there"
  <2>1. PICK c \in Connections : c = conn[cl]
    BY DEF ServerTypeOK
  <2>2. Sound(c)
    BY <2>1 DEF SoundInv
  <2>3. CASE c.peer = "there"
    <3>1. conn'[cl] = [c EXCEPT !.stage = "closed"]
      BY <2>1, <2>3 DEF CloseAll
    <3> QED
      BY <2>1, <2>2, <3>1 DEF Sound, Connections
  <2>4. CASE c.peer # "there"
    <3>1. conn'[cl] = Free
      BY <2>1, <2>4 DEF CloseAll
    <3> QED
      BY <2>1, <2>4, <3>1 DEF Sound, Free
  <2> QED
    BY <2>3, <2>4
<1> QED
  BY <1>1 DEF Kept

\* A handler, or the end of an invocation, of which only resets end the process.
LEMMA ServedSound ==
    ASSUME ServerTypeOK, ConnInv, SoundInv, server # "off" => Offered \subseteq installed,
           NEW k \in Clients, Handler(k) \/ Invoked(k), ~Terminate
    PROVE  \E c \in Connections : /\ Becomes(k, c) /\ Sound(c) /\ ~Lost(c)
                                  /\ c.peer = conn[k].peer
<1>1. PICK c \in Connections : c = conn[k]
  BY DEF ServerTypeOK
<1>2. Sound(c) /\ Good(c) /\ (Open(c) => server # "off" /\ c.service \in Offered)
  BY <1>1 DEF SoundInv, ConnInv
<1>3. ASSUME NEW a \in Answers \ {"none"}, Answered(k, a),
             c.sent = "all" \/ c.peer # "there"
      PROVE  \E d \in Connections : Becomes(k, d) /\ Sound(d) /\ ~Lost(d) /\ d.peer = c.peer
  <2>1. PICK d : d = [c EXCEPT !.stage = "written", !.answer = a]
    OBVIOUS
  <2>2. /\ d \in Connections /\ d.stage = "written" /\ d.answer = a
        /\ d.peer = c.peer /\ d.sent = c.sent
    BY <2>1 DEF Connections, Stages
  <2>3. Becomes(k, d)
    BY <1>1, <1>3, <2>1 DEF Answered
  <2> QED
    BY <1>3, <2>2, <2>3 DEF Sound, Lost
<1>4. ASSUME NEW s \in Stages, Becomes(k, [conn[k] EXCEPT !.stage = s]),
             \/ s \in {"header", "payload"} /\ c.answer = "none"
             \/ s = "writing" /\ c.sent = "all"
             \/ s = "closed" /\ (c.answer # "none" \/ c.peer # "there")
      PROVE  \E d \in Connections : Becomes(k, d) /\ Sound(d) /\ ~Lost(d) /\ d.peer = c.peer
  <2>1. PICK d : d = [c EXCEPT !.stage = s]
    OBVIOUS
  <2>2. /\ d \in Connections /\ d.stage = s /\ d.answer = c.answer
        /\ d.peer = c.peer /\ d.sent = c.sent
    BY <2>1 DEF Connections
  <2>3. Becomes(k, d)
    BY <1>1, <1>4, <2>1
  <2> QED
    BY <1>2, <1>4, <2>2, <2>3 DEF Sound, Lost
<1> USE DEF Stages, Answers
<1>5. CASE HandleAccept(k)
  <2>1. c.stage = "backlog" /\ Becomes(k, [conn[k] EXCEPT !.stage = "header"])
    BY <1>1, <1>5 DEF HandleAccept
  <2> QED
    BY <1>1, <1>2, <1>4, <2>1 DEF Good
<1>6. CASE OnHeaderReceived(k)
  <2>1. c.stage = "header" /\ c.service \in installed
    BY <1>1, <1>2, <1>6 DEF OnHeaderReceived, Open
  <2>2. \/ c.peer # "there" /\ Answered(k, "failed")
        \/ Becomes(k, [conn[k] EXCEPT !.stage = "payload"])
    BY <1>1, <1>6, <2>1 DEF OnHeaderReceived
  <2> QED
    BY <1>1, <1>2, <1>3, <1>4, <2>1, <2>2 DEF Good
<1>7. CASE OnPayloadReceived(k)
  <2>1. c.stage = "payload" /\ (c.sent = "all" \/ c.peer # "there")
    BY <1>1, <1>7 DEF OnPayloadReceived
  <2>2. CASE c.sent # "all"
    <3>1. Answered(k, "failed")
      BY <1>1, <1>7, <2>2 DEF OnPayloadReceived
    <3> QED
      BY <1>1, <1>3, <2>1, <3>1
  <2>3. CASE c.sent = "all"
    <3>n. PICK n \in Nat : n = c.runs + 1
      BY DEF Connections
    <3>d. PICK d : d = [c EXCEPT !.stage = "invoking", !.runs = n]
      OBVIOUS
    <3>1. /\ d \in Connections /\ d.stage = "invoking" /\ d.answer = c.answer
          /\ d.peer = c.peer /\ d.sent = c.sent
      BY <3>d DEF Connections
    <3>2. Becomes(k, d)
      BY <1>1, <1>7, <2>3, <3>n, <3>d DEF OnPayloadReceived
    <3> QED
      BY <1>1, <1>2, <2>3, <3>1, <3>2 DEF Sound, Lost
  <2> QED
    BY <2>2, <2>3
<1>8. CASE Invoked(k)
  <2>1. c.stage = "invoking" /\ c.sent = "all"
    BY <1>1, <1>2, <1>8 DEF Invoked, Sound
  <2>2. \/ Answered(k, "ok") \/ Answered(k, "failed")
        \/ Becomes(k, [conn[k] EXCEPT !.stage = "writing"])
    BY <1>8 DEF Invoked
  <2> QED
    BY <1>1, <1>3, <1>4, <2>1, <2>2
<1>9. CASE WriteRest(k)
  <2>1. c.stage = "writing" /\ c.sent = "all"
    BY <1>1, <1>2, <1>9 DEF WriteRest, Sound
  <2>2. \/ Answered(k, "ok")
        \/ c.peer # "there" /\ Becomes(k, [conn[k] EXCEPT !.stage = "closed"])
    BY <1>1, <1>9 DEF WriteRest
  <2> QED
    BY <1>1, <1>3, <1>4, <2>1, <2>2
<1>10. CASE OnWriteResponse(k)
  <2>1. c.stage = "written" /\ c.answer # "none"
    BY <1>1, <1>2, <1>10 DEF OnWriteResponse, Sound
  <2>2. Becomes(k, [conn[k] EXCEPT !.stage = "closed"])
    BY <1>10 DEF OnWriteResponse
  <2> QED
    BY <1>1, <1>4, <2>1, <2>2
<1> QED
  BY <1>5, <1>6, <1>7, <1>8, <1>9, <1>10 DEF Handler

\* What the clients make of their connections.
LEMMA HungUp ==
    ASSUME ServerTypeOK, SoundInv, NEW k \in Clients, NEW how \in {"gone", "reset"}, Hangup(k, how)
    PROVE  /\ \A cl \in Clients : Sound(conn'[cl])
           /\ \A cl \in Clients : Lost(conn'[cl]) => Lost(conn[cl])
           /\ \A cl \in Clients \ {k} : conn'[cl] = conn[cl]
           /\ conn[k].peer = "there" /\ conn'[k].peer # "there"
<1>1. PICK c \in Connections : c = conn[k]
  BY DEF ServerTypeOK
<1>2. PICK d : d = [c EXCEPT !.peer = how]
  OBVIOUS
<1>3. /\ d \in Connections /\ d.stage = c.stage /\ d.answer = c.answer
      /\ d.peer = how /\ d.sent = c.sent
  BY <1>2 DEF Connections
<1>4. Becomes(k, d)
  BY <1>1, <1>2 DEF Hangup
<1>5. Sound(d) /\ ~Lost(d)
  BY <1>1, <1>3 DEF SoundInv, Sound, Lost
<1>6. d.peer # "there" /\ conn[k].peer = "there"
  BY <1>3 DEF Hangup
<1> QED
  BY <1>3, <1>4, <1>5, <1>6, Changed

LEMMA SentSound ==
    ASSUME ServerTypeOK, SoundInv, NEW k \in Clients, Send(k)
    PROVE  /\ \A cl \in Clients : Sound(conn'[cl])
           /\ \A cl \in Clients : Lost(conn'[cl]) => Lost(conn[cl])
           /\ \A cl \in Clients : conn'[cl].peer = "there" <=> conn[cl].peer = "there"
<1>1. PICK c \in Connections : c = conn[k]
  BY DEF ServerTypeOK
<1>2. c.peer = "there" /\ c.sent # "all" /\ Sound(c)
  BY <1>1 DEF Send, SoundInv
<1>3. PICK s \in {"header", "all"} : Becomes(k, [c EXCEPT !.sent = s])
  BY <1>1 DEF Send
<1>4. PICK d : d = [c EXCEPT !.sent = s]
  OBVIOUS
<1>5. /\ d \in Connections /\ d.stage = c.stage /\ d.answer = c.answer /\ d.peer = c.peer
  BY <1>4 DEF Connections
<1>6. Sound(d) /\ (Lost(d) => Lost(conn[k]))
  BY <1>1, <1>2, <1>5 DEF Sound, Lost
<1>7. Becomes(k, d)
  BY <1>3, <1>4
<1> QED
  BY <1>1, <1>5, <1>6, <1>7, Changed

LEMMA ConnectSound ==
    ASSUME ServerTypeOK, SoundInv, NEW k \in Clients, NEW s \in Services, Connect(k, s)
    PROVE  /\ \A cl \in Clients : Sound(conn'[cl])
           /\ \A cl \in Clients : Lost(conn'[cl]) => Lost(conn[cl])
           /\ \A cl \in Clients \ {k} : conn'[cl] = conn[cl]
           /\ conn[k].peer # "there" /\ conn'[k].peer = "there"
<1>1. PICK d : d = [Free EXCEPT !.stage = "backlog", !.peer = "there", !.service = s]
  OBVIOUS
<1>2. d.stage = "backlog" /\ d.peer = "there" /\ d.answer = "none"
  BY <1>1 DEF Free
<1>3. conn' = [conn EXCEPT ![k] = d] /\ conn[k] = Free
  BY <1>1 DEF Connect
<1>4. \A cl \in Clients : conn'[cl] = IF cl = k THEN d ELSE conn[cl]
  BY <1>3 DEF ServerTypeOK
<1>5. Sound(d) /\ ~Lost(d) /\ Free.peer # "there"
  BY <1>2 DEF Sound, Lost, Free
<1> QED
  BY <1>2, <1>3, <1>4, <1>5 DEF SoundInv

\* The steps of the provider and of the registry.
LEMMA ProviderKeepsConnections ==
    ASSUME ProgramInv, SoundInv,
           \/ Main \/ Stop \/ RegistryListens \/ StartRegistry \/ StopRegistry
           \/ StartProvider \/ SignalProvider \/ KillProvider
           \/ \E r \in Requests : RegistryCarriesOut(r)
           \/ \E k \in Clients : Serve(k)
    PROVE  Kept /\ client' = client
<1>0. ServerTypeOK
  BY DEF ProgramInv, ProgramTypes
<1>1. client' = client
  BY DEF Main, AskToRegister, AskToDeregister, Ask, RegisterService, RegistrationThrows,
     StartListening, ListeningThrows, StopListening, DeregisterService, DeregistrationThrows,
     Stop, RegistryListens, RegistryCarriesOut, StartRegistry, StopRegistry, StartProvider,
     SignalProvider, KillProvider, Serve
<1>2. CASE conn' = conn
  BY <1>1, <1>2 DEF Kept, SoundInv
<1>3. CASE CloseAll /\ server' = "off"
  BY <1>0, <1>1, <1>3, CloseAllLoses
<1>4. CASE \E k \in Clients : Serve(k)
  <2>1. PICK k \in Clients : Serve(k)
    BY <1>4
  <2>2. Handler(k) \/ Invoked(k)
    BY <2>1 DEF Serve
  <2>3. CASE Terminate
    BY <1>3, <2>3 DEF Terminate, Leave
  <2>4. CASE ~Terminate
    <3>1. ConnInv /\ (server # "off" => Offered \subseteq installed)
      BY DEF ProgramInv, MainInv
    <3>2. PICK c \in Connections : /\ Becomes(k, c) /\ Sound(c) /\ ~Lost(c)
                                   /\ c.peer = conn[k].peer
      BY <1>0, <2>2, <2>4, <3>1, ServedSound
    <3>3. /\ \A cl \in Clients : Sound(conn'[cl])
          /\ \A cl \in Clients : Lost(conn'[cl]) => Lost(conn[cl])
          /\ \A cl \in Clients \ {k} : conn'[cl] = conn[cl]
          /\ conn'[k].peer = "there" <=> c.peer = "there"
      BY <1>0, <3>2, Changed
    <3>4. \A cl \in Clients : conn'[cl].peer = "there" <=> conn[cl].peer = "there"
      BY <3>2, <3>3
    <3> QED
      BY <1>1, <3>3, <3>4 DEF Kept
  <2> QED
    BY <2>3, <2>4
<1>5. CASE Main
  BY <1>2, <1>3, <1>5 DEF Main, AskToRegister, AskToDeregister, RegisterService,
     RegistrationThrows, StartListening, Listen, ListeningThrows, StopListening, Close, Closed,
     DeregisterService, DeregistrationThrows, Exit, Leave, serverVars
<1>6. CASE \/ Stop \/ RegistryListens \/ StartRegistry \/ StopRegistry \/ StartProvider
           \/ \E r \in Requests : RegistryCarriesOut(r)
  BY <1>2, <1>6 DEF Stop, HandleStop, RegistryListens, RegistryCarriesOut, StartRegistry,
     StopRegistry, StartProvider, serverVars
<1>7. CASE SignalProvider \/ KillProvider
  BY <1>2, <1>3, <1>7 DEF SignalProvider, KillProvider, Killed, Exit, Leave
<1> QED
  BY <1>1, <1>4, <1>5, <1>6, <1>7

\* A step of one client: what becomes of it and of its connection.
ClientStep(k) ==
    Loop(k) \/ StartClient(k) \/ KillClient(k) \/ Reset(k)

LEMMA EndOfClient ==
    ASSUME ProgramTypes, NEW k \in Clients, NEW how, End(k, how)
    PROVE  /\ client'[k].at = how /\ client'[k].rest = <<>>
           /\ \A cl \in Clients \ {k} : client'[cl] = client[cl]
  BY DEF End, ProgramTypes

LEMMA ClientMoves ==
    ASSUME ProgramTypes, NEW k \in Clients, NEW where, To(k, where)
    PROVE  /\ client'[k].at = where /\ client'[k].rest = client[k].rest
           /\ \A cl \in Clients \ {k} : client'[cl] = client[cl]
<1>1. client' = [client EXCEPT ![k] = [at |-> where, rest |-> client[k].rest]]
  BY ClientRecord DEF To
<1> QED
  BY <1>1 DEF ProgramTypes

LEMMA ClientEffect ==
    ASSUME ProgramInv, KInv, Iterations \subseteq Seq(Offered), NEW k \in Clients, ClientStep(k)
    PROVE  /\ \A cl \in Clients : Sound(conn'[cl])
           /\ \A cl \in Clients : Lost(conn'[cl]) => Lost(conn[cl])
           /\ \A cl \in Clients \ {k} :
                 client'[cl] = client[cl] /\ (conn'[cl].peer = "there" <=> conn[cl].peer = "there")
           /\ client'[k].at = "calling" <=> conn'[k].peer = "there"
           /\ client'[k].rest \in Seq(Offered)
           /\ client'[k].at = "failed" => Troubled(k)
<1> DEFINE Goal ==
             /\ \A cl \in Clients : Sound(conn'[cl])
             /\ \A cl \in Clients : Lost(conn'[cl]) => Lost(conn[cl])
             /\ \A cl \in Clients \ {k} :
                   client'[cl] = client[cl]
                      /\ (conn'[cl].peer = "there" <=> conn[cl].peer = "there")
             /\ client'[k].at = "calling" <=> conn'[k].peer = "there"
             /\ client'[k].rest \in Seq(Offered)
             /\ client'[k].at = "failed" => Troubled(k)
<1>0. /\ ServerTypeOK /\ ProgramTypes /\ SoundInv
      /\ client[k].rest \in Seq(Offered)
      /\ client[k].at = "calling" <=> conn[k].peer = "there"
      /\ Sound(conn[k]) /\ conn[k].answer # "unavailable"
      /\ <<>> \in Seq(Offered)
  BY DEF ProgramInv, ProgramTypes, ConnInv, Good, KInv, SoundInv, RestInv, CallingInv
<1>1. ASSUME conn' = conn, \A cl \in Clients \ {k} : client'[cl] = client[cl],
             client[k].at # "calling", client'[k].at # "calling",
             client'[k].rest \in Seq(Offered),
             client'[k].at = "failed" => Troubled(k)
      PROVE  Goal
  BY <1>0, <1>1 DEF SoundInv
<1>2. ASSUME NEW how \in {"gone", "reset"}, Hangup(k, how),
             \A cl \in Clients \ {k} : client'[cl] = client[cl],
             client'[k].at # "calling", client'[k].rest \in Seq(Offered),
             client'[k].at = "failed" => Troubled(k)
      PROVE  Goal
  BY <1>0, <1>2, HungUp
<1>3. CASE StartClient(k)
  <2>1. To(k, "idle") /\ client[k].at = "none" /\ conn' = conn
    BY <1>3 DEF StartClient, serverVars
  <2> QED
    BY <1>0, <1>1, <2>1, ClientMoves
<1>4. CASE KillClient(k)
  <2>1. /\ client'[k].at = "ended" /\ client'[k].rest = <<>>
        /\ \A cl \in Clients \ {k} : client'[cl] = client[cl]
    BY <1>0, <1>4, EndOfClient DEF KillClient
  <2>2. CASE client[k].at = "calling"
    BY <1>0, <1>2, <1>4, <2>1, <2>2 DEF KillClient
  <2>3. CASE client[k].at # "calling"
    BY <1>0, <1>1, <1>4, <2>1, <2>3 DEF KillClient, serverVars
  <2> QED
    BY <2>2, <2>3
<1>5. CASE Reset(k)
  <2>1. Hangup(k, "reset") /\ End(k, "ended")
    BY <1>5 DEF Reset
  <2>2. /\ client'[k].at = "ended" /\ client'[k].rest = <<>>
        /\ \A cl \in Clients \ {k} : client'[cl] = client[cl]
    BY <1>0, <2>1, EndOfClient
  <2> QED
    BY <1>0, <1>2, <2>1, <2>2
<1>6. CASE Begin(k)
  <2>1. client[k].at = "idle" /\ conn' = conn
    BY <1>6 DEF Begin, serverVars
  <2>2. ASSUME NEW calls \in Iterations, client' = [client EXCEPT ![k].rest = calls]
        PROVE  Goal
    <3>1. [client EXCEPT ![k].rest = calls]
             = [client EXCEPT ![k] = [at |-> client[k].at, rest |-> calls]]
      BY <1>0, ClientRecord, Zenon
    <3>2. /\ client'[k].at = "idle" /\ client'[k].rest \in Seq(Offered)
          /\ \A cl \in Clients \ {k} : client'[cl] = client[cl]
      BY <1>0, <2>1, <2>2, <3>1 DEF ProgramTypes
    <3> QED
      BY <1>1, <2>1, <3>2
  <2>3. ASSUME End(k, "ended")
        PROVE  Goal
    BY <1>0, <1>1, <2>1, <2>3, EndOfClient
  <2> QED
    BY <1>6, <2>2, <2>3 DEF Begin
<1>7. CASE GetProvider(k)
  <2>1. client[k].at = "idle" /\ client[k].rest # <<>> /\ conn' = conn
    BY <1>7 DEF GetProvider, serverVars
  <2>2. CASE To(k, "found")
    BY <1>0, <1>1, <2>1, <2>2, ClientMoves
  <2>3. CASE End(k, "failed") /\ ~(registry = "up" /\ Head(client[k].rest) \in registered)
    <3>1. Head(client[k].rest) \in Offered
      BY <1>0, <2>1, HeadTailProperties
    <3>2. Runs(k) /\ ~Healthy
      BY <2>1, <2>3, <3>1 DEF Runs, Healthy
    <3>3. Troubled(k)
      BY <3>2 DEF Troubled
    <3>4. /\ client'[k].at = "failed" /\ client'[k].rest = <<>>
          /\ \A cl \in Clients \ {k} : client'[cl] = client[cl]
      BY <1>0, <2>3, EndOfClient
    <3> QED
      BY <1>0, <1>1, <2>1, <3>3, <3>4
  <2> QED
    BY <1>7, <2>2, <2>3 DEF GetProvider
<1>8. CASE Submit(k)
  <2>1. client[k].at = "found" /\ To(k, "calling") /\ Connect(k, Head(client[k].rest))
    BY <1>8 DEF Submit
  <2>2. Head(client[k].rest) \in Services
    BY <2>1, ProvidedFacts DEF ProgramInv, ClientInv
  <2>3. /\ \A cl \in Clients : Sound(conn'[cl])
        /\ \A cl \in Clients : Lost(conn'[cl]) => Lost(conn[cl])
        /\ \A cl \in Clients \ {k} : conn'[cl] = conn[cl]
        /\ conn'[k].peer = "there"
    BY <1>0, <2>1, <2>2, ConnectSound
  <2>4. /\ client'[k].at = "calling" /\ client'[k].rest = client[k].rest
        /\ \A cl \in Clients \ {k} : client'[cl] = client[cl]
    BY <1>0, <2>1, ClientMoves
  <2> QED
    BY <1>0, <2>3, <2>4
<1>9. CASE Refuse(k)
  <2>1. client[k].at = "found" /\ server = "off" /\ End(k, "failed") /\ conn' = conn
    BY <1>9 DEF Refuse, serverVars
  <2>2. Troubled(k)
    BY <2>1 DEF Troubled, Runs, Healthy
  <2> QED
    BY <1>0, <1>1, <2>1, <2>2, EndOfClient
<1>10. CASE Write(k)
  <2>1. Send(k) /\ client' = client /\ client[k].at = "calling"
    BY <1>10 DEF Write
  <2> QED
    BY <1>0, <2>1, SentSound
<1>11. CASE Read(k)
  <2>1. Hangup(k, "gone")
    BY <1>11 DEF Read, Receive
  <2>2. client[k].rest # <<>>
    BY <1>11 DEF Read, ProgramInv, ClientInv
  <2>3. Tail(client[k].rest) \in Seq(Offered)
    BY <1>0, <2>2, HeadTailProperties
  <2>4. PICK r \in Seq(Offered) : client' = [client EXCEPT ![k] = [at |-> "idle", rest |-> r]]
    <3>1. CASE conn[k].answer = "ok"
      BY <1>0, <1>11, <2>3, <3>1 DEF Read, ProgramTypes
    <3>2. CASE conn[k].answer # "ok"
      BY <1>0, <1>11, <3>2 DEF Read, ProgramTypes
    <3> QED
      BY <3>1, <3>2
  <2>5. /\ client'[k].at = "idle" /\ client'[k].rest = r
        /\ \A cl \in Clients \ {k} : client'[cl] = client[cl]
    BY <1>0, <2>4 DEF ProgramTypes
  <2> QED
    BY <1>2, <2>1, <2>5
<1>12. CASE SubmitThrows(k)
  <2>1. /\ client[k].at = "calling" /\ conn[k].stage = "closed"
        /\ conn[k].answer = "none" \/ conn[k].sent # "all"
        /\ Hangup(k, "gone") /\ End(k, "failed")
    BY <1>12 DEF SubmitThrows, LoseConnection
  <2>2. Lost(conn[k])
    BY <1>0, <2>1 DEF Sound, Lost
  <2>3. Troubled(k)
    BY <2>2 DEF Troubled
  <2>4. /\ client'[k].at = "failed" /\ client'[k].rest = <<>>
        /\ \A cl \in Clients \ {k} : client'[cl] = client[cl]
    BY <1>0, <2>1, EndOfClient
  <2> QED
    BY <1>0, <1>2, <2>1, <2>3, <2>4
<1> QED
  BY <1>3, <1>4, <1>5, <1>6, <1>7, <1>8, <1>9, <1>10, <1>11, <1>12 DEF ClientStep, Loop

\* Whoever runs in an unhealthy system is remembered, at each step, until it ends.
LEMMA Remembered ==
    ASSUME KInv, TypeOK, [Next]_vars
    PROVE  /\ \A cl \in spoilt : client'[cl].at # "ended" => cl \in spoilt'
           /\ \A cl \in Clients : Runs(cl)' /\ ~Healthy' => cl \in spoilt'
<1>0. spoilt \subseteq Clients
  BY DEF TypeOK
<1>1. CASE Spoil
  <2>1. \A cl \in Clients : Runs(cl)' => client'[cl].at # "ended"
    BY DEF Runs
  <2>2. \A cl \in Clients : /\ client'[cl].at # "ended"
                            /\ cl \in spoilt \/ (Runs(cl)' /\ ~Healthy')
                            => cl \in spoilt'
    BY <1>1 DEF Spoil
  <2> QED
    BY <1>0, <2>1, <2>2
<1>2. CASE UNCHANGED programs /\ UNCHANGED spoilt
  BY <1>2 DEF KInv, SpoiltInv, Troubled, Runs, Healthy, Offered, programs, serverVars, provider,
     registryVars
<1>3. Spoil \/ (UNCHANGED programs /\ UNCHANGED spoilt)
  BY DEF Next, Step, Started, Faulty, Told, OnKill, LauncherWorks, LauncherDies, history,
     vars, programs
<1> QED
  BY <1>1, <1>2, <1>3

LEMMA KStep ==
    ASSUME Iterations \subseteq Seq(Offered), IInv, KInv, [Next]_vars
    PROVE  KInv'
<1>1. ProgramInv /\ (ProgramStep \/ UNCHANGED programs)
  BY EachStep, Parts DEF IInv
<1>2. /\ \A cl \in spoilt : client'[cl].at # "ended" => cl \in spoilt'
      /\ \A cl \in Clients : Runs(cl)' /\ ~Healthy' => cl \in spoilt'
  BY Remembered DEF IInv
<1>3. /\ SoundInv
      /\ \A cl \in Clients : client[cl].at = "calling" <=> conn[cl].peer = "there"
      /\ \A cl \in Clients : client[cl].rest \in Seq(Offered)
      /\ \A cl \in Clients : Troubled(cl) => cl \in spoilt
  BY DEF KInv, CallingInv, RestInv, SpoiltInv
<1>4. ASSUME \A cl \in Clients : Sound(conn'[cl]),
             \A cl \in Clients : client'[cl].at = "calling" <=> conn'[cl].peer = "there",
             \A cl \in Clients : client'[cl].rest \in Seq(Offered),
             \A cl \in Clients : Lost(conn'[cl]) \/ client'[cl].at = "failed" => cl \in spoilt'
      PROVE  KInv'
  BY <1>2, <1>4 DEF KInv, SoundInv, Sound, CallingInv, RestInv, SpoiltInv, Troubled, Lost, Offered
<1>5. ASSUME Kept, client' = client
      PROVE  KInv'
  <2>1. /\ \A cl \in Clients : Sound(conn'[cl])
        /\ \A cl \in Clients : client'[cl].at = "calling" <=> conn'[cl].peer = "there"
        /\ \A cl \in Clients : client'[cl].rest \in Seq(Offered)
    BY <1>3, <1>5 DEF Kept
  <2>2. ASSUME NEW cl \in Clients, Lost(conn'[cl])
        PROVE  cl \in spoilt'
    <3>1. client'[cl].at = "calling"
      BY <2>1, <2>2 DEF Lost
    <3>2. CASE Lost(conn[cl])
      BY <1>2, <1>3, <3>1, <3>2 DEF Troubled
    <3>3. CASE server' = "off"
      BY <1>2, <3>1, <3>3 DEF Runs, Healthy
    <3> QED
      BY <1>5, <2>2, <3>2, <3>3 DEF Kept
  <2>3. ASSUME NEW cl \in Clients, client'[cl].at = "failed"
        PROVE  cl \in spoilt'
    BY <1>2, <1>3, <1>5, <2>3 DEF Troubled
  <2> QED
    BY <1>4, <2>1, <2>2, <2>3
<1>6. CASE UNCHANGED programs
  <2>1. conn' = conn /\ client' = client
    BY <1>6 DEF programs, serverVars
  <2>2. Kept
    BY <1>3, <2>1 DEF Kept, SoundInv
  <2> QED
    BY <1>5, <2>1, <2>2
<1>7. CASE \/ Main \/ Stop \/ RegistryListens \/ StartRegistry \/ StopRegistry
           \/ StartProvider \/ SignalProvider \/ KillProvider
           \/ \E r \in Requests : RegistryCarriesOut(r)
           \/ \E k \in Clients : Serve(k)
  BY <1>1, <1>3, <1>5, <1>7, ProviderKeepsConnections
<1>8. CASE \E k \in Clients : ClientStep(k)
  <2>1. PICK k \in Clients : ClientStep(k)
    BY <1>8
  <2>2. /\ \A cl \in Clients : Sound(conn'[cl])
        /\ \A cl \in Clients : Lost(conn'[cl]) => Lost(conn[cl])
        /\ \A cl \in Clients \ {k} :
              client'[cl] = client[cl] /\ (conn'[cl].peer = "there" <=> conn[cl].peer = "there")
        /\ client'[k].at = "calling" <=> conn'[k].peer = "there"
        /\ client'[k].rest \in Seq(Offered)
        /\ client'[k].at = "failed" => Troubled(k)
    BY <1>1, <2>1, ClientEffect
  <2>3. ASSUME NEW cl \in Clients, Lost(conn'[cl]) \/ client'[cl].at = "failed"
        PROVE  cl \in spoilt'
    <3>1. Troubled(cl)
      BY <2>2, <2>3 DEF Troubled
    <3>2. CASE Lost(conn'[cl])
      <4>1. client'[cl].at = "calling"
        BY <1>3, <2>2, <3>2 DEF Lost
      <4> QED
        BY <1>2, <1>3, <3>1, <4>1
    <3>3. CASE client'[cl].at = "failed"
      BY <1>2, <1>3, <3>1, <3>3
    <3> QED
      BY <2>3, <3>2, <3>3
  <2> QED
    BY <1>3, <1>4, <2>2, <2>3
<1> QED
  BY <1>1, <1>6, <1>7, <1>8 DEF ProgramStep, ClientStep

LEMMA KInitially == Init => KInv
<1> SUFFICES ASSUME Init PROVE KInv
  OBVIOUS
<1>1. \A cl \in Clients : conn[cl] = Free /\ client[cl] = [at |-> "none", rest |-> <<>>]
  BY DEF Init, ServerInit
<1>2. Sound(Free) /\ ~Lost(Free) /\ Free.peer # "there"
  BY DEF Sound, Lost, Free
<1>3. <<>> \in Seq(Offered)
  OBVIOUS
<1>4. ASSUME NEW cl \in Clients
      PROVE  /\ Sound(conn[cl]) /\ ~Lost(conn[cl]) /\ conn[cl].peer # "there"
             /\ client[cl].at = "none" /\ client[cl].rest = <<>>
  BY <1>1, <1>2
<1>5. \A cl \in Clients : ~Troubled(cl)
  BY <1>4 DEF Troubled, Runs
<1> QED
  BY <1>3, <1>4, <1>5 DEF KInv, SoundInv, CallingInv, RestInv, SpoiltInv

\* A client that asks for what the provider offers, can read its own images and
\* keeps its connections ends by an exception only if it ran while the registry was
\* down, a service was not registered or the provider did not accept: what else
\* happens to other clients or on the provider lets its loop go on
\* (ssoa-client/src/main.cpp).
THEOREM KeepRunning ==
    ASSUME Iterations \subseteq Seq(Offered)
    PROVE  Spec => []ClientsKeepRunning
<1>1. IInv /\ KInv /\ [Next]_vars => KInv'
  BY KStep
<1>2. KInv => ClientsKeepRunning
  BY DEF KInv, SpoiltInv, Troubled, ClientsKeepRunning
<1> QED
  BY <1>1, <1>2, KInitially, Invariance, PTL DEF Spec

-----------------------------------------------------------------------------
(* The launcher stops a healthy system in order.                           *)

\* What is left to do when the launcher is told to stop: clients, then the
\* provider, which deregisters while the registry is up, then the registry.
Serving == registry = "up" /\ server = "running" /\ ~signalled

Finishing ==
    /\ registry = "up"
    /\ \/ process = "success"
       \/ /\ process = "alive" /\ status = "success" /\ at \in {"serve", "deregister"}
          /\ call # "lost"

NoReset == \A cl \in Clients : conn[cl].peer # "reset"

InOrder ==
    /\ launcher \in {"stopping", "waiting", "ended"}
    /\ launcher = "ended" => child = 0
    /\ NoReset
    /\ \/ (child > 2 \/ (child = 2 /\ launcher = "stopping")) /\ Serving
       \/ child = 2 /\ launcher = "waiting" /\ Finishing
       \/ child < 2 /\ process = "success"

StatusInv == at # "deregister" => status = "success"

LastInv == launcher = "running" => child = Len(Children)

OInv == StatusInv /\ LastInv /\ (orderly => InOrder)

LEMMA WhoIsWho ==
    /\ Len(Children) \in Nat /\ Len(Children) >= 2
    /\ Children[1] = "registry" /\ Children[2] = "provider"
    /\ \A i \in 1 .. Len(Children) :
          i > 2 => /\ Children[i] \in Clients
                   /\ Children[i] # "registry" /\ Children[i] # "provider"
<1> DEFINE First == <<"registry", "provider">>
           All == {"registry", "provider"} \cup Clients
<1>1. First \in Seq(All) /\ Launched \in Seq(All) /\ Launched \in Seq(Clients)
  BY ProvidedAssumption, SeqMonotonic
<1>2. Len(First) = 2 /\ First[1] = "registry" /\ First[2] = "provider"
  OBVIOUS
<1>3. Len(Launched) \in Nat
  BY <1>1
<1>4. /\ Len(First \o Launched) = Len(First) + Len(Launched)
      /\ \A i \in 1 .. Len(First) + Len(Launched) :
            (First \o Launched)[i] = IF i <= Len(First) THEN First[i]
                                     ELSE Launched[i - Len(First)]
  BY <1>1, ConcatProperties
<1>5. Children = First \o Launched
  BY DEF Children
<1> HIDE DEF First
<1>6. Len(Children) \in Nat /\ Len(Children) >= 2 /\ Len(Children) = 2 + Len(Launched)
  BY <1>2, <1>3, <1>4, <1>5
<1>7. Children[1] = "registry" /\ Children[2] = "provider"
  BY <1>2, <1>3, <1>4, <1>5
<1>8. ASSUME NEW i \in 1 .. Len(Children), i > 2
      PROVE  Children[i] \in Clients
  <2>1. Children[i] = Launched[i - 2] /\ i - 2 \in 1 .. Len(Launched)
    BY <1>2, <1>3, <1>4, <1>5, <1>6, <1>8
  <2> QED
    BY <1>1, <2>1, ElementOfSeq
<1> QED
  BY <1>6, <1>7, <1>8, ChildrenAssumption

\* No step of the programs resets a connection, unless it is a fault.
LEMMA PeerStays ==
    ASSUME ServerTypeOK, NoReset, NEW k \in Clients, NEW c, Becomes(k, c), c.peer # "reset"
    PROVE  NoReset'
<1>1. Free.peer # "reset"
  BY DEF Free
<1>2. \A cl \in Clients : conn'[cl] \in {conn[cl], c, Free}
  BY DEF Becomes, ServerTypeOK
<1> QED
  BY <1>1, <1>2 DEF NoReset

LEMMA ServedPeer ==
    ASSUME ServerTypeOK, NoReset, NEW k \in Clients, Handler(k) \/ Invoked(k)
    PROVE  NoReset' /\ UNCHANGED provider
<1>1. PICK c \in Connections : c = conn[k]
  BY DEF ServerTypeOK
<1>2. c.peer # "reset"
  BY <1>1 DEF NoReset
<1>3. ASSUME NEW s, NEW a, Becomes(k, [conn[k] EXCEPT !.stage = s, !.answer = a])
      PROVE  NoReset'
  <2>1. PICK d : d = [c EXCEPT !.stage = s, !.answer = a]
    OBVIOUS
  <2>2. d.peer # "reset"
    BY <1>2, <2>1 DEF Connections
  <2> QED
    BY <1>1, <1>3, <2>1, <2>2, PeerStays
<1>4. ASSUME NEW s, Becomes(k, [conn[k] EXCEPT !.stage = s])
      PROVE  NoReset'
  <2>1. PICK d : d = [c EXCEPT !.stage = s]
    OBVIOUS
  <2>2. d.peer # "reset"
    BY <1>2, <2>1 DEF Connections
  <2> QED
    BY <1>1, <1>4, <2>1, <2>2, PeerStays
<1>5. ASSUME Becomes(k, [conn[k] EXCEPT !.stage = "invoking", !.runs = @ + 1])
      PROVE  NoReset'
  <2>1. PICK d : d = [c EXCEPT !.stage = "invoking", !.runs = @ + 1]
    OBVIOUS
  <2>2. d.peer # "reset"
    BY <1>2, <2>1 DEF Connections
  <2> QED
    BY <1>1, <1>5, <2>1, <2>2, PeerStays
<1>6. conn[k].peer # "reset"
  BY <1>1, <1>2
<1>7. UNCHANGED provider
  BY <1>6 DEF Handler, HandleAccept, OnHeaderReceived, OnPayloadReceived, Invoked, WriteRest,
     OnWriteResponse
<1>8. CASE HandleAccept(k) \/ OnWriteResponse(k)
  BY <1>4, <1>6, <1>8 DEF HandleAccept, OnWriteResponse
<1>9. CASE OnHeaderReceived(k)
  BY <1>3, <1>4, <1>6, <1>9 DEF OnHeaderReceived, Answered
<1>10. CASE OnPayloadReceived(k)
  BY <1>3, <1>5, <1>6, <1>10 DEF OnPayloadReceived, Answered
<1>11. CASE Invoked(k)
  BY <1>3, <1>4, <1>6, <1>11 DEF Invoked, Answered
<1>12. CASE WriteRest(k)
  BY <1>3, <1>4, <1>12 DEF WriteRest, Answered
<1> QED
  BY <1>7, <1>8, <1>9, <1>10, <1>11, <1>12 DEF Handler

LEMMA ClosedPeers ==
    ASSUME ServerTypeOK, NoReset, CloseAll
    PROVE  NoReset'
<1>1. ASSUME NEW cl \in Clients
      PROVE  conn'[cl].peer # "reset"
  <2>1. PICK c \in Connections : c = conn[cl]
    BY DEF ServerTypeOK
  <2>2. c.peer # "reset"
    BY <2>1 DEF NoReset
  <2>3. CASE conn'[cl] = Free
    BY <2>3 DEF Free
  <2>4. CASE conn'[cl] = [c EXCEPT !.stage = "closed"]
    BY <2>2, <2>4 DEF Connections
  <2> QED
    BY <2>1, <2>3, <2>4 DEF CloseAll
<1> QED
  BY <1>1 DEF NoReset

LEMMA ClientPeer ==
    ASSUME ServerTypeOK, NoReset, NEW k \in Clients, Loop(k) \/ KillClient(k)
    PROVE  NoReset' /\ UNCHANGED <<provider, mainVars, registryVars>>
<1>1. PICK c \in Connections : c = conn[k]
  BY DEF ServerTypeOK
<1>2. c.peer # "reset"
  BY <1>1 DEF NoReset
<1>3. ASSUME UNCHANGED conn
      PROVE  NoReset'
  BY <1>3 DEF NoReset
<1>4. ASSUME Hangup(k, "gone")
      PROVE  NoReset'
  <2>1. PICK d : d = [c EXCEPT !.peer = "gone"]
    OBVIOUS
  <2>2. d.peer # "reset"
    BY <2>1 DEF Connections
  <2> QED
    BY <1>1, <1>4, <2>1, <2>2, PeerStays DEF Hangup
<1>5. ASSUME Send(k)
      PROVE  NoReset'
  <2>1. PICK s : Becomes(k, [conn[k] EXCEPT !.sent = s])
    BY <1>5 DEF Send
  <2>2. PICK d : d = [c EXCEPT !.sent = s]
    OBVIOUS
  <2>3. d.peer # "reset"
    BY <1>2, <2>2 DEF Connections
  <2> QED
    BY <1>1, <1>5, <2>1, <2>2, <2>3, PeerStays DEF Send
<1>6. ASSUME \E s : Connect(k, s)
      PROVE  NoReset'
  <2>1. PICK s : Connect(k, s)
    BY <1>6
  <2>2. PICK d : d = [Free EXCEPT !.stage = "backlog", !.peer = "there", !.service = s]
    OBVIOUS
  <2>3. d.peer # "reset"
    BY <2>2 DEF Free
  <2>4. \A cl \in Clients : conn'[cl] = IF cl = k THEN d ELSE conn[cl]
    BY <2>1, <2>2 DEF Connect, ServerTypeOK
  <2> QED
    BY <2>1, <2>3, <2>4 DEF NoReset, Connect
<1>7. UNCHANGED <<provider, mainVars, registryVars>>
  BY DEF Loop, Begin, GetProvider, Submit, Refuse, Write, Read, SubmitThrows, KillClient,
     Connect, Send, Receive, LoseConnection, Hangup, serverVars
<1>8. \/ UNCHANGED conn \/ Hangup(k, "gone") \/ Send(k)
      \/ \E s : Connect(k, s)
  BY DEF Loop, Begin, GetProvider, Submit, Refuse, Write, Read, SubmitThrows, KillClient,
     Receive, LoseConnection, serverVars
<1> QED
  BY <1>3, <1>4, <1>5, <1>6, <1>7, <1>8

\* What goes on while the launcher stops its children: nothing but the end of the
\* provider that was signalled.
Goes ==
    \/ Main \/ Stop \/ RegistryListens
    \/ \E r \in Requests : RegistryCarriesOut(r)
    \/ \E k \in Clients : Loop(k) \/ Serve(k) \/ KillClient(k)
    \/ UNCHANGED programs

LEMMA GoesOn ==
    ASSUME ProgramInv, NoReset, Goes
    PROVE  /\ NoReset'
           /\ Serving => Serving'
           /\ Finishing => Finishing'
           /\ process = "success" => process' = "success"
<1> DEFINE Goal == /\ NoReset'
                   /\ Serving => Serving'
                   /\ Finishing => Finishing'
                   /\ process = "success" => process' = "success"
<1>0. /\ ServerTypeOK /\ server \in {"off", "running", "stopped"}
      /\ at = "none" <=> process # "alive"
      /\ at = "serve" <=> server # "off"
      /\ at = "serve" => call = "none"
  BY DEF ProgramInv, ProgramTypes, ServerTypeOK, MainInv
<1>1. ASSUME NoReset', UNCHANGED <<provider, mainVars, registryVars>>
      PROVE  Goal
  BY <1>1 DEF Serving, Finishing, provider, mainVars, registryVars
<1>2. ASSUME UNCHANGED conn
      PROVE  NoReset'
  BY <1>2 DEF NoReset
<1>3. CASE UNCHANGED programs
  BY <1>1, <1>2, <1>3 DEF programs, serverVars
<1>4. CASE \E k \in Clients : Loop(k) \/ KillClient(k)
  BY <1>0, <1>1, <1>4, ClientPeer
<1>5. CASE \E k \in Clients : Serve(k)
  <2>1. PICK k \in Clients : Serve(k)
    BY <1>5
  <2>2. NoReset' /\ UNCHANGED provider
    BY <1>0, <2>1, ServedPeer DEF Serve
  <2>3. CASE process' # "dead"
    BY <1>1, <2>1, <2>2, <2>3 DEF Serve
  <2>4. CASE process' = "dead"
    BY <1>0, <2>1, <2>2, <2>4 DEF Serve, MainEnds, Serving, Finishing, provider, registryVars
  <2> QED
    BY <2>3, <2>4
<1>6. CASE Stop
  BY <1>0, <1>2, <1>6 DEF Stop, HandleStop, Serving, Finishing, mainVars, registryVars
<1>7. CASE RegistryListens \/ \E r \in Requests : RegistryCarriesOut(r)
  BY <1>2, <1>7 DEF RegistryListens, RegistryCarriesOut, Serving, Finishing, serverVars, provider,
     mainVars
<1>8. CASE StopListening
  <2>1. NoReset'
    BY <1>0, <1>8, ClosedPeers DEF StopListening, Close, Closed
  <2> QED
    BY <1>0, <1>8, <2>1 DEF StopListening, Close, Closed, Serving, Finishing, registryVars
<1>9. CASE DeregisterService
  <2>1. CASE item = Len(Provided)
    <3>1. NoReset'
      BY <1>0, <1>9, <2>1, ClosedPeers DEF DeregisterService, Exit, Leave
    <3> QED
      BY <1>0, <1>9, <2>1, <3>1 DEF DeregisterService, Exit, Leave, MainEnds, Serving, Finishing
  <2>2. CASE item # Len(Provided)
    BY <1>0, <1>2, <1>9, <2>2
       DEF DeregisterService, Advance, Serving, Finishing, serverVars, provider
  <2> QED
    BY <2>1, <2>2
<1>a. CASE AskToDeregister
  BY <1>0, <1>2, <1>a DEF AskToDeregister, Ask, Serving, Finishing, serverVars, provider,
     registryVars
<1>10. CASE \/ AskToRegister \/ RegisterService \/ RegistrationThrows
            \/ StartListening \/ ListeningThrows \/ DeregistrationThrows
  <2>1. \/ at \in {"register", "listen"}
        \/ at = "deregister" /\ (registry # "up" \/ call = "lost")
    BY <1>10 DEF AskToRegister, Ask, RegisterService, RegistrationThrows, StartListening,
       ListeningThrows, DeregistrationThrows
  <2>2. ~Serving /\ ~Finishing /\ process # "success"
    BY <1>0, <2>1 DEF Serving, Finishing
  <2>3. NoReset'
    BY <1>0, <1>2, <1>10, ClosedPeers DEF AskToRegister, RegisterService, RegistrationThrows,
       StartListening, Listen, ListeningThrows, DeregistrationThrows, Exit, Leave, serverVars
  <2> QED
    BY <2>2, <2>3
<1> QED
  BY <1>3, <1>4, <1>5, <1>6, <1>7, <1>8, <1>9, <1>a, <1>10 DEF Goes, Main

LEMMA StatusKept ==
    ASSUME ProgramInv, StatusInv, ProgramStep \/ UNCHANGED programs
    PROVE  StatusInv'
<1>1. CASE Main
  BY <1>1 DEF Main, AskToRegister, AskToDeregister, Ask, RegisterService, RegistrationThrows,
     StartListening, ListeningThrows, StopListening, DeregisterService, DeregistrationThrows,
     Exit, MainEnds, Advance, StatusInv
<1>2. CASE UNCHANGED mainVars
  BY <1>2 DEF StatusInv, mainVars
<1>3. CASE at' = "none" /\ status' = "success"
  BY <1>3 DEF StatusInv
<1>4. CASE StartProvider
  BY <1>4 DEF StartProvider, StatusInv
<1>5. CASE StopRegistry
  BY <1>5 DEF StopRegistry, StatusInv
<1> QED
  BY <1>1, <1>2, <1>3, <1>4, <1>5
     DEF ProgramStep, Stop, RegistryListens, RegistryCarriesOut, MainEnds, Killed, Loop, Begin, GetProvider, Submit, Refuse, Write, Read,
         SubmitThrows, Serve, StartClient, KillClient, Reset, StartRegistry, StopRegistry,
         SignalProvider, KillProvider, Exit, programs

LEMMA LastKept ==
    ASSUME LastInv, [Next]_vars
    PROVE  LastInv'
<1>1. CASE UNCHANGED launcherVars
  BY <1>1 DEF launcherVars, LastInv, Children
<1>2. CASE ByHand
  BY <1>2 DEF ByHand, Again, launcherVars, LastInv, Children
<1>3. CASE Launch
  BY <1>3 DEF Launch, LastInv, Children
<1>4. CASE launcher' # "running"
  BY <1>4 DEF LastInv
<1>5. CASE WaitChild \/ KillChild \/ AllExited \/ OnKill \/ LauncherDies
  BY <1>4, <1>5 DEF WaitChild, KillChild, AllExited, OnKill, LauncherDies
<1> QED
  BY <1>1, <1>2, <1>3, <1>5
     DEF Next, Step, Started, Faulty, Told, LauncherWorks, vars

\* The launcher goes on to the next child when the last has ended.
LEMMA OrderKept ==
    ASSUME ProgramInv, LauncherTypes, LauncherInv, OInv, [Next]_vars, orderly'
    PROVE  InOrder'
<1>0. /\ child \in 0 .. Len(Children) /\ Len(Children) \in Nat
      /\ at = "none" <=> process # "alive"
      /\ at = "serve" <=> server # "off"
      /\ at = "serve" => call = "none"
  BY WhoIsWho DEF LauncherTypes, ProgramInv, MainInv
<1>1. CASE Told
  <2>1. /\ launcher' = "stopping" /\ child' = child /\ UNCHANGED programs
        /\ child = Len(Children)
        /\ Serving /\ NoReset
    BY <1>1 DEF Told, OnKill, OInv, LastInv, Healthy, Serving, NoReset
  <2>2. Serving' /\ NoReset'
    BY <2>1 DEF Serving, NoReset, programs, serverVars, provider, registryVars
  <2> QED
    BY <1>0, <2>1, <2>2, WhoIsWho DEF InOrder
<1>2. CASE ~Told
  <2>1. orderly
    BY <1>2 DEF Next, Step, Started, Faulty, LauncherWorks, history, vars
  <2>2. InOrder
    BY <2>1 DEF OInv
  <2>3. /\ ~Launch /\ ~ByHand /\ ~AllExited /\ ~LauncherDies
    BY <2>2 DEF InOrder, Launch, ByHand, AllExited, LauncherDies
  <2>4. ~Faulty
    BY DEF Faulty
  <2>5. ASSUME Goes, launcher' = launcher, child' = child
        PROVE  InOrder'
    <3>1. /\ NoReset'
          /\ Serving => Serving'
          /\ Finishing => Finishing'
          /\ process = "success" => process' = "success"
      BY <2>2, <2>5, GoesOn DEF InOrder
    <3> QED
      BY <2>2, <2>5, <3>1 DEF InOrder
  <2>6. CASE UNCHANGED launcherVars /\ Goes
    BY <2>5, <2>6 DEF launcherVars
  <2>7. CASE WaitChild
    <3>1. /\ launcher = "waiting" /\ child' = child - 1 /\ HasEnded(Children[child])
          /\ launcher' = IF child = 1 THEN "ended" ELSE "stopping"
          /\ child # 0
          /\ UNCHANGED programs
      BY <2>7 DEF WaitChild, LauncherInv
    <3>2. /\ NoReset'
          /\ Serving => Serving'
          /\ process = "success" => process' = "success"
      BY <2>2, <3>1, GoesOn DEF InOrder, Goes
    <3>3. CASE child > 2 /\ Serving
      BY <1>0, <3>1, <3>2, <3>3 DEF InOrder
    <3>4. CASE child = 2 /\ Finishing
      <4>1. process # "alive"
        BY <3>1, <3>4, WhoIsWho DEF HasEnded
      <4>2. process = "success"
        BY <3>4, <4>1 DEF Finishing
      <4> QED
        BY <3>1, <3>2, <3>4, <4>2 DEF InOrder
    <3>5. CASE child < 2 /\ process = "success"
      <4>1. child = 1 /\ child' = 0 /\ launcher' = "ended"
        BY <1>0, <3>1, <3>5
      <4> QED
        BY <3>2, <3>5, <4>1 DEF InOrder
    <3> QED
      BY <2>2, <3>1, <3>3, <3>4, <3>5 DEF InOrder
  <2>8. CASE KillChild
    <3>1. /\ launcher = "stopping" /\ launcher' = "waiting" /\ child' = child
          /\ child \in 1 .. Len(Children)
      BY <1>0, <2>8 DEF KillChild, LauncherInv
    <3>2. IF HasEnded(Children[child]) THEN UNCHANGED programs ELSE Signal(Children[child])
      BY <2>8 DEF KillChild
    <3>3. CASE child > 2 /\ Serving
      <4>1. Children[child] \in Clients \ {"registry", "provider"}
        BY <3>1, <3>3, WhoIsWho
      <4>2. Goes
        BY <3>2, <4>1 DEF Signal, Goes
      <4>3. NoReset' /\ Serving'
        BY <2>2, <3>3, <4>2, GoesOn DEF InOrder
      <4> QED
        BY <3>1, <3>3, <4>3 DEF InOrder
    <3>4. CASE child = 2 /\ Serving
      <4>1. Children[child] = "provider" /\ process = "alive" /\ server # "off" /\ at = "serve"
        BY <1>0, <3>4, WhoIsWho DEF Serving
      <4>2. SignalProvider
        BY <3>2, <4>1 DEF HasEnded, Signal
      <4>3. UNCHANGED <<process, conn, at, item, status, call, registry>>
        BY <4>1, <4>2 DEF SignalProvider, mainVars, registryVars
      <4>4. Finishing'
        BY <1>0, <3>4, <4>1, <4>3 DEF OInv, StatusInv, Serving, Finishing
      <4>5. NoReset'
        BY <2>2, <4>3 DEF InOrder, NoReset
      <4> QED
        BY <3>1, <3>4, <4>4, <4>5 DEF InOrder
    <3>5. CASE child < 2 /\ process = "success"
      <4>1. child = 1 /\ Children[child] = "registry"
        BY <1>0, <3>1, <3>5, WhoIsWho
      <4>2. UNCHANGED programs \/ StopRegistry
        BY <3>2, <4>1 DEF Signal
      <4>3. UNCHANGED <<process, conn>>
        BY <4>2 DEF programs, serverVars, provider, StopRegistry
      <4> QED
        BY <2>2, <3>1, <3>5, <4>3 DEF InOrder, NoReset
    <3> QED
      BY <1>0, <2>2, <3>1, <3>3, <3>4, <3>5 DEF InOrder
  <2>9. CASE UNCHANGED vars
    <3>1. UNCHANGED programs /\ UNCHANGED launcherVars
      BY <2>9 DEF vars, programs
    <3> QED
      BY <2>6, <3>1 DEF Goes
  <2>10. CASE \/ Step(Main) \/ Step(Stop) \/ Step(RegistryListens)
              \/ \E r \in Requests : Step(RegistryCarriesOut(r))
              \/ \E cl \in Clients : Step(Loop(cl)) \/ Step(Serve(cl))
    BY <2>6, <2>10 DEF Step, Goes
  <2> QED
    BY <1>2, <2>3, <2>4, <2>7, <2>8, <2>9, <2>10 DEF Next, Started, LauncherWorks
<1> QED
  BY <1>1, <1>2

\* When the launcher is told to stop a healthy system and no fault comes between,
\* the provider ends with success whatever calls, signals and answers are under
\* way: its clients are stopped before it, and the registry after it
\* (the handler of signals in testcase/src/main.cpp).
THEOREM OrderlyStop == Spec => []StopsInOrder
<1>1. Init => OInv
  BY DEF Init, OInv, StatusInv, LastInv
<1>2. IInv /\ OInv /\ [Next]_vars => OInv'
  <2> SUFFICES ASSUME IInv, OInv, [Next]_vars PROVE OInv'
    OBVIOUS
  <2>1. ProgramInv /\ LauncherTypes /\ LauncherInv /\ (ProgramStep \/ UNCHANGED programs)
    BY EachStep, Parts DEF IInv
  <2>2. StatusInv'
    BY <2>1, StatusKept DEF OInv
  <2>3. LastInv'
    BY LastKept DEF OInv
  <2>4. orderly' => InOrder'
    BY <2>1, OrderKept
  <2> QED
    BY <2>2, <2>3, <2>4 DEF OInv
<1>3. OInv => StopsInOrder
  BY DEF OInv, InOrder, StopsInOrder
<1> QED
  BY <1>1, <1>2, <1>3, Invariance, PTL DEF Spec
=============================================================================
