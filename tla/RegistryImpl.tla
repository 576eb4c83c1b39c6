---------------------------- MODULE RegistryImpl ----------------------------
(***************************************************************************)
(* The registry as it is implemented (ssoa-registry/src/registryimpl.cpp): *)
(* a map from service names to a signature, a list of providers and a      *)
(* round-robin cursor, shared by the threads of the listener's pool under  *)
(* a boost::shared_mutex.  registerService, deregisterService and          *)
(* deregisterServer hold it exclusively.  lookupService holds it shared,   *)
(* and yet advances the cursor.                                            *)
(*                                                                         *)
(* An operation is cut at every point where what it leaves in the map is   *)
(* visible to a thread that does not respect the lock, and lookupService   *)
(* at every read and write of the cursor, which lookups really share.      *)
(***************************************************************************)
EXTENDS IRegistry, SequencesExt

VARIABLES
    services,     \* name -> [signature, providers, lastUsed]
    writers,      \* the threads that hold the mutex exclusively
    readers,      \* the threads that hold it shared
    held,         \* whether new readers are held off for a waiting writer
    pc,           \* thread -> where it is in its operation
    call,         \* thread -> the operation and its arguments
    result,       \* thread -> what the operation has produced
    cursor,       \* thread -> the lastUsed a lookup has loaded to increment it
    emptyEntries  \* thread -> the entries deregisterServer is about to erase

locals == <<pc, call, result, cursor, emptyEntries>>
mutex == <<writers, readers, held>>
vars == <<services, mutex, locals>>

NoCall == [op |-> "none"]

Entries == [signature : Signatures, providers : Seq(Providers), lastUsed : Nat]

WriterSteps == {"insert", "append", "erase", "eraseEntry", "sweep", "purge"}
ReaderSteps == {"find", "readHost", "readPort", "loadCursor", "storeCursor"}
Steps == WriterSteps \cup ReaderSteps \cup {"idle", "enter", "lock", "unlock", "return"}

TypeOK ==
    /\ DOMAIN services \subseteq Names
    /\ services = [n \in DOMAIN services |-> services[n]]
    /\ \A n \in DOMAIN services : services[n] \in Entries
    /\ writers \subseteq Threads
    /\ readers \subseteq Threads
    /\ held \in BOOLEAN
    /\ pc \in [Threads -> Steps]
    /\ call \in [Threads -> Calls \cup {NoCall}]
    /\ result \in [Threads -> Results]
    /\ cursor \in [Threads -> Nat]
    /\ emptyEntries \in [Threads -> SUBSET Names]

Init ==
    /\ services = [n \in {} |-> Empty]
    /\ writers = {}
    /\ readers = {}
    /\ held = FALSE
    /\ pc = [t \in Threads |-> "idle"]
    /\ call = [t \in Threads |-> NoCall]
    /\ result = [t \in Threads |-> Pending]
    /\ cursor = [t \in Threads |-> 0]
    /\ emptyEntries = [t \in Threads |-> {}]

-----------------------------------------------------------------------------
(* Helpers.                                                                *)

GoTo(t, step) == pc' = [pc EXCEPT ![t] = step]

Finish(t, r) == result' = [result EXCEPT ![t] = r]

\* The entry std::map's operator[] makes for a name it does not hold.
NewEntry == [signature |-> AnySignature, providers |-> <<>>, lastUsed |-> 0]

Put(n, entry) ==
    services' = [m \in DOMAIN services \cup {n} |-> IF m = n THEN entry ELSE services[m]]

Without(names) == [n \in DOMAIN services \ names |-> services[n]]

\* Mutants of Erased: the cursor is not brought back into range; it is moved
\* back by one instead.
ErasedCursorKept(entry, p) == [entry EXCEPT !.providers = RemoveFirst(@, p)]
ErasedCursorBack(entry, p) == [ErasedCursorKept(entry, p) EXCEPT !.lastUsed = @ - 1]

\* An entry after the provider was erased from its list and the cursor was
\* brought back into range.
Erased(entry, p) ==
    LET rest == RemoveFirst(entry.providers, p)
    IN  [entry EXCEPT !.providers = rest,
                      !.lastUsed = IF rest # <<>> THEN @ % Len(rest) ELSE 0]

Lists(n, p) == n \in DOMAIN services /\ Contains(services[n].providers, p)

\* The critical section a call runs once it holds the mutex: deregisterService
\* delegates to deregisterServer when it is given ServiceSignature::any.
CriticalSection(c) ==
    CASE c.op = "register" -> "insert"
      [] c.op = "lookup" -> "find"
      [] c.op = "deregisterServer" -> "sweep"
      [] c.op = "deregister" ->
            IF SameSignature(c.signature, AnySignature) THEN "sweep" ELSE "erase"

-----------------------------------------------------------------------------
(* A call: entering it, taking and releasing the mutex, returning.         *)

Request(t) ==
    /\ pc[t] = "idle"
    /\ GoTo(t, "enter")
    /\ \E c \in Requests : call' = [call EXCEPT ![t] = c]
    /\ UNCHANGED <<services, mutex, result, cursor, emptyEntries>>

\* registerService refuses an invalid signature before it takes the mutex.
Refused(c) == c.op = "register" /\ ~c.signature.valid

\* Mutant of Enter: deregisterServer does not take the mutex.
EnterUnlocked(t) ==
    /\ pc[t] = "enter"
    /\ GoTo(t, IF call[t].op = "deregisterServer" THEN "sweep" ELSE "lock")
    /\ UNCHANGED <<services, mutex, call, result, cursor, emptyEntries>>

Enter(t) ==
    /\ pc[t] = "enter"
    /\ IF Refused(call[t])
       THEN GoTo(t, "return") /\ Finish(t, Throws)
       ELSE GoTo(t, "lock") /\ UNCHANGED result
    /\ UNCHANGED <<services, mutex, call, cursor, emptyEntries>>

(***************************************************************************)
(* boost::shared_mutex.  A writer that finds the mutex taken holds new     *)
(* readers off; the next time the mutex is free, it is so for everybody.   *)
(***************************************************************************)
AwaitExclusive(t) ==
    /\ pc[t] = "lock"
    /\ call[t].op # "lookup"
    /\ writers \cup readers # {}
    /\ ~held
    /\ held' = TRUE
    /\ UNCHANGED <<services, writers, readers, locals>>

LockExclusive(t) ==
    /\ pc[t] = "lock"
    /\ call[t].op # "lookup"
    /\ writers \cup readers = {}
    /\ writers' = {t}
    /\ GoTo(t, CriticalSection(call[t]))
    /\ UNCHANGED <<services, readers, held, call, result, cursor, emptyEntries>>

\* Mutant of LockShared: readers overtake the writers that wait.
LockSharedFirst(t) ==
    /\ pc[t] = "lock"
    /\ call[t].op = "lookup"
    /\ writers = {}
    /\ readers' = readers \cup {t}
    /\ GoTo(t, CriticalSection(call[t]))
    /\ UNCHANGED <<services, writers, held, call, result, cursor, emptyEntries>>

LockShared(t) ==
    /\ pc[t] = "lock"
    /\ call[t].op = "lookup"
    /\ writers = {}
    /\ ~held
    /\ readers' = readers \cup {t}
    /\ GoTo(t, CriticalSection(call[t]))
    /\ UNCHANGED <<services, writers, held, call, result, cursor, emptyEntries>>

Unlock(t) ==
    /\ pc[t] = "unlock"
    /\ writers' = writers \ {t}
    /\ readers' = readers \ {t}
    /\ held' = (held /\ readers' # {})
    /\ GoTo(t, "return")
    /\ UNCHANGED <<services, call, result, cursor, emptyEntries>>

Return(t) ==
    /\ pc[t] = "return"
    /\ GoTo(t, "idle")
    /\ call' = [call EXCEPT ![t] = NoCall]
    /\ Finish(t, Pending)
    /\ cursor' = [cursor EXCEPT ![t] = 0]
    /\ emptyEntries' = [emptyEntries EXCEPT ![t] = {}]
    /\ UNCHANGED <<services, mutex>>

-----------------------------------------------------------------------------
(* registerService                                                         *)

\* Mutant of Insert: a registration with another signature replaces it.
InsertReplacing(t) ==
    /\ pc[t] = "insert"
    /\ GoTo(t, "append")
    /\ LET s == call[t].signature
           entry == IF s.name \in DOMAIN services THEN services[s.name] ELSE NewEntry
       IN  Put(s.name, [entry EXCEPT !.signature = s])
    /\ UNCHANGED <<mutex, call, result, cursor, emptyEntries>>

\* services[name] makes the entry when there is none; a signature that is
\* still "any" is replaced, one that differs is refused.
Insert(t) ==
    /\ pc[t] = "insert"
    /\ LET s == call[t].signature
           entry == IF s.name \in DOMAIN services THEN services[s.name] ELSE NewEntry
       IN  IF SameSignature(entry.signature, AnySignature)
           THEN /\ GoTo(t, "append")
                /\ Put(s.name, [entry EXCEPT !.signature = s])
                /\ UNCHANGED result
           ELSE /\ Put(s.name, entry)
                /\ IF SameSignature(entry.signature, s)
                   THEN GoTo(t, "append") /\ UNCHANGED result
                   ELSE GoTo(t, "unlock") /\ Finish(t, Throws)
    /\ UNCHANGED <<mutex, call, cursor, emptyEntries>>

\* Mutant of AppendProvider: it does not look for the pair in the list.
AppendTwice(t) ==
    /\ pc[t] = "append"
    /\ GoTo(t, "unlock")
    /\ Finish(t, Returns(1))
    /\ services' = [services EXCEPT ![call[t].signature.name].providers =
                                       Append(@, call[t].provider)]
    /\ UNCHANGED <<mutex, call, cursor, emptyEntries>>

AppendProvider(t) ==
    /\ pc[t] = "append"
    /\ GoTo(t, "unlock")
    /\ LET n == call[t].signature.name
           p == call[t].provider
       IN  IF Lists(n, p)
           THEN Finish(t, Returns(0)) /\ UNCHANGED services
           ELSE /\ Finish(t, Returns(1))
                /\ services' = [services EXCEPT ![n].providers = Append(@, p)]
    /\ UNCHANGED <<mutex, call, cursor, emptyEntries>>

-----------------------------------------------------------------------------
(* deregisterService                                                       *)

\* Mutant of Erase: the signature of the service is not compared.
EraseByName(t) ==
    /\ pc[t] = "erase"
    /\ LET n == call[t].signature.name
           p == call[t].provider
       IN  IF Lists(n, p)
           THEN LET entry == Erased(services[n], p)
                IN  /\ GoTo(t, IF entry.providers = <<>> THEN "eraseEntry" ELSE "unlock")
                    /\ Put(n, entry)
                    /\ Finish(t, Returns(1))
           ELSE GoTo(t, "unlock") /\ Finish(t, Returns(0)) /\ UNCHANGED services
    /\ UNCHANGED <<mutex, call, cursor, emptyEntries>>

Erase(t) ==
    /\ pc[t] = "erase"
    /\ LET s == call[t].signature
           p == call[t].provider
       IN  IF Lists(s.name, p) /\ SameSignature(services[s.name].signature, s)
           THEN LET entry == Erased(services[s.name], p)
                IN  /\ GoTo(t, IF entry.providers = <<>> THEN "eraseEntry" ELSE "unlock")
                    /\ Put(s.name, entry)
                    /\ Finish(t, Returns(1))
           ELSE /\ GoTo(t, "unlock")
                /\ Finish(t, Returns(0))
                /\ UNCHANGED services
    /\ UNCHANGED <<mutex, call, cursor, emptyEntries>>

EraseEntry(t) ==
    /\ pc[t] = "eraseEntry"
    /\ GoTo(t, "unlock")
    /\ services' = Without({call[t].signature.name})
    /\ UNCHANGED <<mutex, call, result, cursor, emptyEntries>>

-----------------------------------------------------------------------------
(* deregisterServer                                                        *)

\* The loop over the map: the provider leaves every list it is in, and the
\* entries left empty are remembered.
Sweep(t) ==
    /\ pc[t] = "sweep"
    /\ GoTo(t, "purge")
    /\ LET p == call[t].provider
           hit == {n \in DOMAIN services : Lists(n, p)}
           count == Cardinality(hit)
       IN  /\ services' = [n \in DOMAIN services |->
                             IF n \in hit THEN Erased(services[n], p) ELSE services[n]]
           /\ emptyEntries' = [emptyEntries EXCEPT ![t] =
                                 {n \in hit : Erased(services[n], p).providers = <<>>}]
           /\ Finish(t, Returns(IF call[t].op = "deregister" THEN AsBool(count > 0) ELSE count))
    /\ UNCHANGED <<mutex, call, cursor>>

\* Mutant of Purge: the entries left empty stay in the map.
PurgeNothing(t) ==
    /\ pc[t] = "purge"
    /\ GoTo(t, "unlock")
    /\ UNCHANGED <<services, mutex, call, result, cursor, emptyEntries>>

\* "We cannot modify the map while iterating over it."
Purge(t) ==
    /\ pc[t] = "purge"
    /\ GoTo(t, "unlock")
    /\ services' = Without(emptyEntries[t])
    /\ UNCHANGED <<mutex, call, result, cursor, emptyEntries>>

-----------------------------------------------------------------------------
(* lookupService, under the shared lock: other lookups run between any two *)
(* of these steps, so the host, the port and the increment may each see a  *)
(* different value of the cursor.                                          *)

Looked(t) == services[call[t].signature.name]

Candidate(t) == Looked(t).providers[Looked(t).lastUsed + 1]

Find(t) ==
    /\ pc[t] = "find"
    /\ IF call[t].signature.name \in DOMAIN services
       THEN GoTo(t, "readHost") /\ UNCHANGED result
       ELSE GoTo(t, "unlock") /\ Finish(t, Returns(0))
    /\ UNCHANGED <<services, mutex, call, cursor, emptyEntries>>

ReadHost(t) ==
    /\ pc[t] = "readHost"
    /\ GoTo(t, "readPort")
    /\ result' = [result EXCEPT ![t].host = Candidate(t)[1]]
    /\ UNCHANGED <<services, mutex, call, cursor, emptyEntries>>

\* Mutant of ReadPort: the cursor was advanced between the host and the port.
ReadNextPort(t) ==
    /\ pc[t] = "readPort"
    /\ GoTo(t, "loadCursor")
    /\ LET list == Looked(t).providers
       IN  Finish(t, Found(result[t].host, list[((Looked(t).lastUsed + 1) % Len(list)) + 1][2]))
    /\ UNCHANGED <<services, mutex, call, cursor, emptyEntries>>

ReadPort(t) ==
    /\ pc[t] = "readPort"
    /\ GoTo(t, "loadCursor")
    /\ Finish(t, Found(result[t].host, Candidate(t)[2]))
    /\ UNCHANGED <<services, mutex, call, cursor, emptyEntries>>

LoadCursor(t) ==
    /\ pc[t] = "loadCursor"
    /\ GoTo(t, "storeCursor")
    /\ cursor' = [cursor EXCEPT ![t] = Looked(t).lastUsed]
    /\ UNCHANGED <<services, mutex, call, result, emptyEntries>>

\* Mutant of StoreCursor: the cursor is stored as it was loaded.
StoreSameCursor(t) ==
    /\ pc[t] = "storeCursor"
    /\ GoTo(t, "unlock")
    /\ services' = [services EXCEPT ![call[t].signature.name].lastUsed = cursor[t]]
    /\ UNCHANGED <<mutex, call, result, cursor, emptyEntries>>

StoreCursor(t) ==
    /\ pc[t] = "storeCursor"
    /\ GoTo(t, "unlock")
    /\ services' = [services EXCEPT ![call[t].signature.name].lastUsed =
                      LET size == Len(Looked(t).providers)
                      IN  IF size > 0 THEN (cursor[t] + 1) % size ELSE 0]
    /\ UNCHANGED <<mutex, call, result, cursor, emptyEntries>>

-----------------------------------------------------------------------------

Register(t) == Insert(t) \/ AppendProvider(t)
Deregister(t) == Erase(t) \/ EraseEntry(t) \/ Sweep(t) \/ Purge(t)
Lookup(t) == Find(t) \/ ReadHost(t) \/ ReadPort(t) \/ LoadCursor(t) \/ StoreCursor(t)

\* What a thread does on its own once it was called, taking the mutex apart.
Run(t) ==
    \/ Enter(t) \/ AwaitExclusive(t) \/ Unlock(t) \/ Return(t)
    \/ Register(t) \/ Deregister(t) \/ Lookup(t)

Next == \E t \in Threads : Request(t) \/ LockExclusive(t) \/ LockShared(t) \/ Run(t)

(***************************************************************************)
(* A thread that runs keeps running.  boost::shared_mutex "lets the OS     *)
(* decide which thread is the next to get the lock": a thread that finds   *)
(* it free again and again takes it.  Nothing obliges a caller to call.    *)
(***************************************************************************)
Fairness ==
    \A t \in Threads :
        /\ WF_vars(Run(t))
        /\ SF_vars(LockExclusive(t))
        /\ SF_vars(LockShared(t))

Spec == Init /\ [][Next]_vars /\ Fairness

-----------------------------------------------------------------------------
(* Properties.                                                             *)

InCriticalSection(t) == pc[t] \in WriterSteps \cup ReaderSteps

\* While a thread changes the map no other thread is inside an operation on
\* it: the writers' locks at registryimpl.cpp:24, 49 and 73 against the
\* reader's at 100.
WritersAreAlone ==
    \A t, u \in Threads :
        pc[t] \in WriterSteps /\ InCriticalSection(u) => t = u

\* A lookup that holds an iterator to an entry (registryimpl.cpp:102-108) finds
\* it still in the map, with a list that is not empty and a cursor inside it,
\* whatever the other lookups did to the cursor since: list[data.lastUsed]
\* never reads outside the list.
CandidateExists ==
    \A t \in Threads :
        pc[t] \in {"readHost", "readPort", "loadCursor", "storeCursor"} =>
            /\ call[t].signature.name \in DOMAIN services
            /\ Looked(t).lastUsed \in 0 .. Len(Looked(t).providers) - 1

\* Whenever no writer is at work, the map holds no entry without providers, no
\* provider twice in a list, no cursor outside its list, and under each name a
\* valid signature of that name: every exit of the three writers, the exception
\* at registryimpl.cpp:31 included, leaves the map this way.
MapIsConsistent ==
    writers = {} =>
        \A n \in DOMAIN services :
            LET entry == services[n]
            IN  /\ entry.lastUsed < Len(entry.providers)
                /\ IsInjective(entry.providers)
                /\ entry.signature.valid
                /\ entry.signature.name = n

\* The signature of a name is fixed as long as the name has a provider: a
\* registration with another signature (registryimpl.cpp:30) cannot take the
\* name over, and the providers of a name agree on its parameters.
SignatureIsFixed ==
    [][\A n \in DOMAIN services \cap DOMAIN services' :
          services[n].providers # <<>> =>
              SameSignature(services[n].signature, services'[n].signature)]_vars

\* Every call of the registry's interface returns, whatever the others do.
CallsReturn == \A t \in Threads : pc[t] # "idle" ~> pc[t] = "idle"

(***************************************************************************)
(* The implementation refines the abstract registry.  An operation takes   *)
(* effect where its result is decided; an entry whose list is empty is a   *)
(* state under construction or demolition that the table does not show.    *)
(***************************************************************************)
Table ==
    [n \in {m \in DOMAIN services : services[m].providers # <<>>} |->
        [signature |-> services[n].signature, providers |-> ToSet(services[n].providers)]]

Decided == [t \in Threads |-> IF result[t].outcome = "pending" THEN Pending ELSE result[t]]

Abs == INSTANCE RegistrySpec WITH table <- Table, result <- Decided

\* Every operation of registryimpl.cpp acts as one step on the abstract table,
\* between its call and its return.
ActsAtomically == Abs!Init /\ [][Abs!Next]_(Abs!vars)

\* The same, and every operation that was called does act and does return.
RefinesRegistrySpec == Abs!Spec

\* iregistry.h:58-59: host and port receive those of "the service provider", so
\* that the pair is one that is registered for the service.
AnswerIsRegistered ==
    \A t \in Threads :
        pc[t] \in {"loadCursor", "storeCursor"} =>
            <<result[t].host, result[t].port>> \in ToSet(Looked(t).providers)
=============================================================================
