------------------------ MODULE RegistryImpl_proofs ------------------------
(***************************************************************************)
(* Proofs about RegistryImpl, for any number of threads, signatures,       *)
(* providers and requests.  The invariant that carries them:               *)
(*   - the mutex is held by the threads that are in a critical section;    *)
(*   - a thread's step fits the operation it was called for;               *)
(*   - the entry a thread works on is in the map;                          *)
(*   - the map is in order, but for entries without providers, and each of *)
(*     those is under construction or about to be erased by a writer.      *)
(***************************************************************************)
EXTENDS RegistryImpl, SequenceLemmas, FiniteSetTheorems

\* Where a thread holds a reference or an iterator to the entry of its name.
EntrySteps == {"append", "eraseEntry", "readHost", "readPort", "loadCursor", "storeCursor"}

LockInv ==
    /\ \A t \in Threads :
        /\ pc[t] \in WriterSteps => t \in writers
        /\ pc[t] \in ReaderSteps => t \in readers
    /\ writers # {} => readers = {}
    /\ \A t, u \in writers : t = u

CallInv ==
    \A t \in Threads :
        /\ pc[t] # "idle" => call[t] \in Calls
        /\ pc[t] \in {"insert", "append"} => call[t].op = "register"
        /\ pc[t] \in {"lock", "insert", "append"} /\ call[t].op = "register" =>
              call[t].signature.valid
        /\ pc[t] \in {"erase", "eraseEntry"} => call[t].op = "deregister"
        /\ pc[t] \in {"sweep", "purge"} => call[t].op \in {"deregister", "deregisterServer"}
        /\ pc[t] \in ReaderSteps => call[t].op = "lookup"

EntryInv ==
    \A t \in Threads :
        pc[t] \in EntrySteps => call[t].signature.name \in DOMAIN services

\* A writer is about to give the entry of n a provider, or to erase it.
UnderWork(n) ==
    \E t \in Threads :
        \/ pc[t] \in {"append", "eraseEntry"} /\ call[t].signature.name = n
        \/ pc[t] = "purge" /\ n \in emptyEntries[t]

EntryOK(n, entry) ==
    /\ entry \in Entries
    /\ entry.signature.valid
    /\ entry.signature.name = n
    /\ IsInjective(entry.providers)
    /\ IF entry.providers = <<>> THEN entry.lastUsed = 0
       ELSE entry.lastUsed < Len(entry.providers)

MapInv ==
    /\ IsFiniteSet(DOMAIN services)
    /\ \A n \in DOMAIN services :
        /\ EntryOK(n, services[n])
        /\ services[n].providers = <<>> => UnderWork(n)

IInv ==
    /\ TypeOK
    /\ LockInv
    /\ CallInv
    /\ EntryInv
    /\ MapInv

-----------------------------------------------------------------------------
(* Facts about the constants and the helpers.                              *)

LEMMA CallTypes ==
    ASSUME NEW c \in Calls
    PROVE  /\ c.op \in {"register", "deregister", "deregisterServer", "lookup"}
           /\ c.op # "lookup" => c.provider \in Providers
           /\ c.op # "deregisterServer" =>
                 /\ c.signature \in Signatures
                 /\ c.signature.name \in Names
                 /\ c.signature.valid \in BOOLEAN
  BY SignatureAssumption DEF Calls

LEMMA ProviderTypes ==
    ASSUME NEW p \in Providers
    PROVE  p[1] \in Hosts /\ p[2] \in Ports
  BY ProviderAssumption

LEMMA ResultTypes ==
    /\ Pending \in Results
    /\ Throws \in Results
    /\ \A v \in Nat : Returns(v) \in Results
    /\ Returns(0) \in Results /\ Returns(1) \in Results
    /\ \A h \in Hosts \cup {Empty}, p \in Ports : Found(h, p) \in Results
    /\ \A b \in BOOLEAN : AsBool(b) \in Nat
  BY DEF Results, Outcomes, Pending, Throws, Returns, Found, AsBool

LEMMA CriticalSectionTypes ==
    ASSUME NEW c \in Calls
    PROVE  /\ CriticalSection(c) \in Steps
           /\ c.op = "lookup" => CriticalSection(c) = "find"
           /\ c.op = "register" => CriticalSection(c) = "insert"
           /\ c.op = "deregisterServer" => CriticalSection(c) = "sweep"
           /\ c.op = "deregister" => CriticalSection(c) \in {"erase", "sweep"}
  BY CallTypes DEF CriticalSection, Steps, WriterSteps, ReaderSteps

\* What the entry of a consistent map is after a provider it lists was erased.
LEMMA ErasedProperties ==
    ASSUME NEW n, NEW entry, EntryOK(n, entry), NEW p, Contains(entry.providers, p)
    PROVE  /\ EntryOK(n, Erased(entry, p))
           /\ Erased(entry, p).signature = entry.signature
<1> DEFINE rest == RemoveFirst(entry.providers, p)
           last == IF rest # <<>> THEN entry.lastUsed % Len(rest) ELSE 0
<1>1. entry \in Entries /\ entry.providers \in Seq(Providers) /\ entry.lastUsed \in Nat
  BY DEF EntryOK, Entries
<1>2. rest \in Seq(Providers) /\ IsInjective(rest)
  BY <1>1, RemoveFirstProperties DEF EntryOK
<1>3. rest # <<>> => Len(rest) \in Nat \ {0}
  BY <1>2, EmptySeq
<1> HIDE DEF rest
<1>4. last \in Nat /\ (rest # <<>> => last < Len(rest))
  <2>1. \A a \in Nat, b \in Nat \ {0} : a % b \in Nat /\ a % b < b
    OBVIOUS
  <2> QED
    BY <2>1, <1>1, <1>3
<1>5. Erased(entry, p) = [entry EXCEPT !.providers = rest, !.lastUsed = last]
  BY DEF Erased, rest
<1> HIDE DEF last
<1>6. Erased(entry, p) = [signature |-> entry.signature, providers |-> rest, lastUsed |-> last]
  BY <1>1, <1>5 DEF Entries
<1>7. rest = <<>> => last = 0
  BY DEF last
<1> QED
  BY <1>1, <1>2, <1>4, <1>6, <1>7 DEF EntryOK, Entries

-----------------------------------------------------------------------------
(* The invariant holds at first and every action preserves it.             *)

LEMMA InitiallyInvariant == Init => IInv
<1> SUFFICES ASSUME Init PROVE IInv
  OBVIOUS
<1> USE DEF Init
<1>1. TypeOK
  BY ResultTypes DEF TypeOK, Steps, WriterSteps, ReaderSteps
<1>2. LockInv /\ CallInv /\ EntryInv
  BY DEF LockInv, CallInv, EntryInv, WriterSteps, ReaderSteps, EntrySteps
<1>3. MapInv
  BY FS_EmptySet DEF MapInv
<1> QED
  BY <1>1, <1>2, <1>3 DEF IInv

LEMMA EnterKept ==
    ASSUME IInv, NEW t \in Threads, Enter(t)
    PROVE  IInv'
<1> USE DEF GoTo, Finish
<1>1. call[t] \in Calls
  BY DEF Enter, IInv, CallInv
<1>2. TypeOK'
  BY ResultTypes DEF Enter, IInv, TypeOK, mutex, Steps, WriterSteps, ReaderSteps
<1>3. LockInv'
  BY DEF Enter, IInv, LockInv, TypeOK, mutex, WriterSteps, ReaderSteps
<1>4. CallInv'
  BY DEF Enter, IInv, CallInv, TypeOK, Refused, ReaderSteps
<1>5. EntryInv'
  BY DEF Enter, IInv, EntryInv, TypeOK, EntrySteps
<1>6. MapInv'
  BY DEF Enter, IInv, MapInv, TypeOK, UnderWork
<1> QED
  BY <1>2, <1>3, <1>4, <1>5, <1>6 DEF IInv

\* While a lookup holds an entry no writer is at work, so that the list is not
\* empty and the cursor is inside it.
LEMMA Candidates ==
    ASSUME IInv, NEW t \in Threads, pc[t] \in ReaderSteps \cap EntrySteps
    PROVE  /\ call[t].signature.name \in DOMAIN services
           /\ EntryOK(call[t].signature.name, Looked(t))
           /\ Looked(t) \in Entries
           /\ Looked(t).lastUsed \in 0 .. Len(Looked(t).providers) - 1
           /\ Candidate(t) \in Providers
<1> DEFINE n == call[t].signature.name
<1>1. n \in DOMAIN services
  BY DEF IInv, EntryInv, ReaderSteps, EntrySteps
<1>2. EntryOK(n, Looked(t)) /\ (Looked(t).providers = <<>> => UnderWork(n))
  BY <1>1 DEF IInv, MapInv, Looked
<1>3. ~UnderWork(n)
  BY DEF IInv, LockInv, UnderWork, ReaderSteps, WriterSteps, EntrySteps
<1>4. /\ Looked(t) \in Entries
      /\ Looked(t).lastUsed \in Nat
      /\ Looked(t).lastUsed < Len(Looked(t).providers)
  BY <1>2, <1>3 DEF EntryOK, Entries
<1>5. Looked(t).providers \in Seq(Providers) /\ Len(Looked(t).providers) \in Nat
  BY <1>4, LenProperties DEF Entries
<1>6. Looked(t).lastUsed + 1 \in 1 .. Len(Looked(t).providers)
  BY <1>4, <1>5
<1>7. Candidate(t) \in Providers
  BY <1>5, <1>6, ElementOfSeq DEF Candidate
<1> QED
  BY <1>1, <1>2, <1>4, <1>5, <1>7

LEMMA RequestKept ==
    ASSUME IInv, NEW t \in Threads, Request(t)
    PROVE  IInv'
<1> USE DEF GoTo, Finish
<1>1. Requests \subseteq Calls
  BY RequestAssumption
<1>2. TypeOK'
  BY <1>1 DEF Request, IInv, TypeOK, mutex, Steps, WriterSteps, ReaderSteps
<1>3. LockInv'
  BY DEF Request, IInv, LockInv, TypeOK, mutex, WriterSteps, ReaderSteps
<1>4. CallInv'
  BY <1>1 DEF Request, IInv, CallInv, TypeOK, ReaderSteps
<1>5. EntryInv'
  BY DEF Request, IInv, EntryInv, TypeOK, EntrySteps
<1>6. MapInv'
  BY DEF Request, IInv, MapInv, TypeOK, UnderWork
<1> QED
  BY <1>2, <1>3, <1>4, <1>5, <1>6 DEF IInv

LEMMA AwaitExclusiveKept ==
    ASSUME IInv, NEW t \in Threads, AwaitExclusive(t)
    PROVE  IInv'
<1> USE DEF GoTo, Finish
<1>2. TypeOK'
  BY DEF AwaitExclusive, IInv, TypeOK, mutex, Steps, WriterSteps, ReaderSteps, locals
<1>3. LockInv'
  BY DEF AwaitExclusive, IInv, LockInv, TypeOK, mutex, WriterSteps, ReaderSteps, locals
<1>4. CallInv'
  BY DEF AwaitExclusive, IInv, CallInv, TypeOK, ReaderSteps, locals
<1>5. EntryInv'
  BY DEF AwaitExclusive, IInv, EntryInv, TypeOK, EntrySteps, locals
<1>6. MapInv'
  BY DEF AwaitExclusive, IInv, MapInv, TypeOK, UnderWork, locals
<1> QED
  BY <1>2, <1>3, <1>4, <1>5, <1>6 DEF IInv

LEMMA UnlockKept ==
    ASSUME IInv, NEW t \in Threads, Unlock(t)
    PROVE  IInv'
<1> USE DEF GoTo, Finish
<1>2. TypeOK'
  BY DEF Unlock, IInv, TypeOK, mutex, Steps, WriterSteps, ReaderSteps
<1>3. LockInv'
  BY DEF Unlock, IInv, LockInv, TypeOK, mutex, WriterSteps, ReaderSteps
<1>4. CallInv'
  BY DEF Unlock, IInv, CallInv, TypeOK, ReaderSteps
<1>5. EntryInv'
  BY DEF Unlock, IInv, EntryInv, TypeOK, EntrySteps
<1>6. MapInv'
  BY DEF Unlock, IInv, MapInv, TypeOK, UnderWork
<1> QED
  BY <1>2, <1>3, <1>4, <1>5, <1>6 DEF IInv

LEMMA ReturnKept ==
    ASSUME IInv, NEW t \in Threads, Return(t)
    PROVE  IInv'
<1> USE DEF GoTo, Finish
<1>2. TypeOK'
  BY ResultTypes DEF Return, IInv, TypeOK, mutex, Steps, WriterSteps, ReaderSteps
<1>3. LockInv'
  BY DEF Return, IInv, LockInv, TypeOK, mutex, WriterSteps, ReaderSteps
<1>4. CallInv'
  BY DEF Return, IInv, CallInv, TypeOK, ReaderSteps
<1>5. EntryInv'
  BY DEF Return, IInv, EntryInv, TypeOK, EntrySteps
<1>6. MapInv'
  BY DEF Return, IInv, MapInv, TypeOK, UnderWork
<1> QED
  BY <1>2, <1>3, <1>4, <1>5, <1>6 DEF IInv

LEMMA FindKept ==
    ASSUME IInv, NEW t \in Threads, Find(t)
    PROVE  IInv'
<1> USE DEF GoTo, Finish
<1>2. TypeOK'
  BY ResultTypes DEF Find, IInv, TypeOK, mutex, Steps, WriterSteps, ReaderSteps
<1>3. LockInv'
  BY DEF Find, IInv, LockInv, TypeOK, mutex, WriterSteps, ReaderSteps
<1>4. CallInv'
  BY DEF Find, IInv, CallInv, TypeOK, ReaderSteps
<1>5. EntryInv'
  BY DEF Find, IInv, EntryInv, TypeOK, EntrySteps
<1>6. MapInv'
  BY DEF Find, IInv, MapInv, TypeOK, UnderWork
<1> QED
  BY <1>2, <1>3, <1>4, <1>5, <1>6 DEF IInv

LEMMA LockExclusiveKept ==
    ASSUME IInv, NEW t \in Threads, LockExclusive(t)
    PROVE  IInv'
<1> USE DEF GoTo, Finish
<1>1. call[t] \in Calls
  BY DEF LockExclusive, IInv, CallInv
<1> DEFINE first == CriticalSection(call[t])
<1>1a. /\ first \in Steps
       /\ call[t].op = "register" => first = "insert"
       /\ call[t].op = "deregisterServer" => first = "sweep"
       /\ call[t].op = "deregister" => first \in {"erase", "sweep"}
       /\ call[t].op \in {"register", "deregister", "deregisterServer"}
  BY <1>1, CriticalSectionTypes, CallTypes DEF LockExclusive
<1>1b. pc' = [pc EXCEPT ![t] = first]
  BY DEF LockExclusive
<1> HIDE DEF first
<1>2. TypeOK'
  BY <1>1a, <1>1b DEF LockExclusive, IInv, TypeOK, mutex, Steps, WriterSteps, ReaderSteps
<1>3. LockInv'
  BY <1>1a, <1>1b DEF LockExclusive, IInv, LockInv, TypeOK, mutex, WriterSteps, ReaderSteps
<1>4. CallInv'
  BY <1>1, <1>1a, <1>1b DEF LockExclusive, IInv, CallInv, TypeOK, ReaderSteps
<1>5. EntryInv'
  BY <1>1a, <1>1b DEF LockExclusive, IInv, EntryInv, TypeOK, EntrySteps
<1>6. MapInv'
  BY <1>1a, <1>1b DEF LockExclusive, IInv, MapInv, TypeOK, UnderWork
<1> QED
  BY <1>2, <1>3, <1>4, <1>5, <1>6 DEF IInv

LEMMA LockSharedKept ==
    ASSUME IInv, NEW t \in Threads, LockShared(t)
    PROVE  IInv'
<1> USE DEF GoTo, Finish
<1>1. call[t] \in Calls
  BY DEF LockShared, IInv, CallInv
<1>1a. pc' = [pc EXCEPT ![t] = "find"]
  BY <1>1, CriticalSectionTypes DEF LockShared
<1>2. TypeOK'
  BY <1>1a DEF LockShared, IInv, TypeOK, mutex, Steps, WriterSteps, ReaderSteps
<1>3. LockInv'
  BY <1>1a DEF LockShared, IInv, LockInv, TypeOK, mutex, WriterSteps, ReaderSteps
<1>4. CallInv'
  BY <1>1, <1>1a DEF LockShared, IInv, CallInv, TypeOK, ReaderSteps
<1>5. EntryInv'
  BY <1>1a DEF LockShared, IInv, EntryInv, TypeOK, EntrySteps
<1>6. MapInv'
  BY <1>1a DEF LockShared, IInv, MapInv, TypeOK, UnderWork
<1> QED
  BY <1>2, <1>3, <1>4, <1>5, <1>6 DEF IInv

LEMMA ReadHostKept ==
    ASSUME IInv, NEW t \in Threads, ReadHost(t)
    PROVE  IInv'
<1> USE DEF GoTo, Finish
<1>1. Candidate(t)[1] \in Hosts
  BY Candidates, ProviderTypes DEF ReadHost, ReaderSteps, EntrySteps
<1>2. TypeOK'
  BY <1>1 DEF ReadHost, IInv, TypeOK, mutex, Steps, WriterSteps, ReaderSteps, Results
<1>3. LockInv'
  BY DEF ReadHost, IInv, LockInv, TypeOK, mutex, WriterSteps, ReaderSteps
<1>4. CallInv'
  BY DEF ReadHost, IInv, CallInv, TypeOK, ReaderSteps
<1>5. EntryInv'
  BY DEF ReadHost, IInv, EntryInv, TypeOK, EntrySteps
<1>6. MapInv'
  BY DEF ReadHost, IInv, MapInv, TypeOK, UnderWork
<1> QED
  BY <1>2, <1>3, <1>4, <1>5, <1>6 DEF IInv

LEMMA ReadPortKept ==
    ASSUME IInv, NEW t \in Threads, ReadPort(t)
    PROVE  IInv'
<1> USE DEF GoTo, Finish
<1>1. Candidate(t)[2] \in Ports
  BY Candidates, ProviderTypes DEF ReadPort, ReaderSteps, EntrySteps
<1>1a. Found(result[t].host, Candidate(t)[2]) \in Results
  BY <1>1, ResultTypes DEF IInv, TypeOK, Results
<1>2. TypeOK'
  BY <1>1a DEF ReadPort, IInv, TypeOK, mutex, Steps, WriterSteps, ReaderSteps
<1>3. LockInv'
  BY DEF ReadPort, IInv, LockInv, TypeOK, mutex, WriterSteps, ReaderSteps
<1>4. CallInv'
  BY DEF ReadPort, IInv, CallInv, TypeOK, ReaderSteps
<1>5. EntryInv'
  BY DEF ReadPort, IInv, EntryInv, TypeOK, EntrySteps
<1>6. MapInv'
  BY DEF ReadPort, IInv, MapInv, TypeOK, UnderWork
<1> QED
  BY <1>2, <1>3, <1>4, <1>5, <1>6 DEF IInv

LEMMA LoadCursorKept ==
    ASSUME IInv, NEW t \in Threads, LoadCursor(t)
    PROVE  IInv'
<1> USE DEF GoTo, Finish
<1>1. Looked(t).lastUsed \in Nat
  BY Candidates DEF LoadCursor, ReaderSteps, EntrySteps, Entries
<1>2. TypeOK'
  BY <1>1 DEF LoadCursor, IInv, TypeOK, mutex, Steps, WriterSteps, ReaderSteps
<1>3. LockInv'
  BY DEF LoadCursor, IInv, LockInv, TypeOK, mutex, WriterSteps, ReaderSteps
<1>4. CallInv'
  BY DEF LoadCursor, IInv, CallInv, TypeOK, ReaderSteps
<1>5. EntryInv'
  BY DEF LoadCursor, IInv, EntryInv, TypeOK, EntrySteps
<1>6. MapInv'
  BY DEF LoadCursor, IInv, MapInv, TypeOK, UnderWork
<1> QED
  BY <1>2, <1>3, <1>4, <1>5, <1>6 DEF IInv

-----------------------------------------------------------------------------
(* The actions that change the map.                                        *)

LEMMA WriterIsAlone ==
    ASSUME IInv, NEW t \in Threads, pc[t] \in WriterSteps
    PROVE  \A u \in Threads : pc[u] \in WriterSteps \cup ReaderSteps => u = t
  BY DEF IInv, LockInv

\* What is left to show of a step that changes the map: that the map is in order
\* after it, and that it holds the entries the threads work on.
LEMMA MapIsTyped ==
    ASSUME \A n \in DOMAIN services' : EntryOK(n, services'[n])
    PROVE  /\ DOMAIN services' \subseteq Names
           /\ \A n \in DOMAIN services' : services'[n] \in Entries
  BY SignatureAssumption DEF EntryOK, Entries

LEMMA InsertKept ==
    ASSUME IInv, NEW t \in Threads, Insert(t)
    PROVE  IInv'
<1> USE DEF GoTo, Finish
<1> DEFINE s == call[t].signature
           n == s.name
           old == IF n \in DOMAIN services THEN services[n] ELSE NewEntry
           fresh == SameSignature(old.signature, AnySignature)
           new == IF fresh THEN [old EXCEPT !.signature = s] ELSE old
           refused == ~fresh /\ ~SameSignature(old.signature, s)
<1>1. s \in Signatures /\ n \in Names /\ s.valid
  BY CallTypes DEF Insert, IInv, CallInv
<1>2. /\ services' = [m \in DOMAIN services \cup {n} |-> IF m = n THEN new ELSE services[m]]
      /\ pc' = [pc EXCEPT ![t] = IF refused THEN "unlock" ELSE "append"]
      /\ result' = [result EXCEPT ![t] = IF refused THEN Throws ELSE @]
      /\ pc[t] = "insert"
      /\ UNCHANGED <<mutex, call, cursor, emptyEntries>>
  BY DEF Insert, Put, IInv, TypeOK
<1>3. n \notin DOMAIN services => fresh
  BY DEF NewEntry, SameSignature
<1>4. EntryOK(n, new)
  <2>1. CASE n \in DOMAIN services
    BY <1>1, <2>1 DEF IInv, MapInv, EntryOK, Entries
  <2>2. CASE n \notin DOMAIN services
    <3>1. new = [signature |-> s, providers |-> <<>>, lastUsed |-> 0]
      BY <1>3, <2>2 DEF NewEntry
    <3>2. <<>> \in Seq(Providers) /\ IsInjective(<<>>)
      BY DEF IsInjective
    <3> HIDE DEF new, s
    <3> QED
      BY <1>1, <3>1, <3>2 DEF EntryOK, Entries
  <2> QED
    BY <2>1, <2>2
<1>5. n \in DOMAIN services => new.providers = services[n].providers
  BY DEF IInv, MapInv, EntryOK, Entries
<1> HIDE DEF fresh, new, refused, old
<1>6. \A m \in DOMAIN services' : EntryOK(m, services'[m])
  BY <1>2, <1>4 DEF IInv, MapInv
<1>7. TypeOK'
  BY <1>2, <1>6, MapIsTyped, ResultTypes
     DEF IInv, TypeOK, mutex, Steps, WriterSteps, ReaderSteps
<1>8. LockInv'
  BY <1>2 DEF IInv, LockInv, TypeOK, mutex, WriterSteps, ReaderSteps
<1>9. CallInv'
  BY <1>2 DEF IInv, CallInv, TypeOK, ReaderSteps
<1>10. EntryInv'
  BY <1>2 DEF IInv, EntryInv, TypeOK, EntrySteps
<1>11. MapInv'
  <2>1. IsFiniteSet(DOMAIN services')
    BY <1>2, FS_AddElement DEF IInv, MapInv
  <2>2. ASSUME NEW m \in DOMAIN services', services'[m].providers = <<>>
        PROVE  UnderWork(m)'
    <3>1. CASE m \in DOMAIN services /\ services[m].providers = <<>>
      BY <1>2, <3>1 DEF IInv, MapInv, UnderWork, TypeOK
    <3>2. CASE m = n /\ n \notin DOMAIN services
      BY <1>2, <1>3, <3>2 DEF UnderWork, IInv, TypeOK, refused
    <3> QED
      BY <1>2, <1>5, <2>2, <3>1, <3>2
  <2> QED
    BY <1>6, <2>1, <2>2 DEF MapInv
<1> QED
  BY <1>7, <1>8, <1>9, <1>10, <1>11 DEF IInv

LEMMA AppendProviderKept ==
    ASSUME IInv, NEW t \in Threads, AppendProvider(t)
    PROVE  IInv'
<1> USE DEF GoTo, Finish
<1> DEFINE n == call[t].signature.name
           p == call[t].provider
           list == services[n].providers
           new == IF Lists(n, p) THEN services[n]
                  ELSE [services[n] EXCEPT !.providers = Append(list, p)]
<1>1. p \in Providers /\ n \in DOMAIN services
  BY CallTypes DEF AppendProvider, IInv, CallInv, EntryInv, EntrySteps
<1>2. /\ services' = [services EXCEPT ![n] = new]
      /\ pc' = [pc EXCEPT ![t] = "unlock"]
      /\ result' = [result EXCEPT ![t] = IF Lists(n, p) THEN Returns(0) ELSE Returns(1)]
      /\ pc[t] = "append"
      /\ UNCHANGED <<mutex, call, cursor, emptyEntries>>
  BY <1>1 DEF AppendProvider, IInv, TypeOK
<1>3. /\ services[n] \in Entries /\ EntryOK(n, services[n])
      /\ list \in Seq(Providers) /\ Len(list) \in Nat /\ DOMAIN list = 1 .. Len(list)
  BY <1>1, LenProperties DEF IInv, MapInv, EntryOK, Entries
<1>4. EntryOK(n, new) /\ new.providers # <<>>
  <2>1. CASE Lists(n, p)
    <3>1. new = services[n]
      BY <2>1
    <3>2. list # <<>>
      BY <2>1, EmptySeq DEF Lists, Contains
    <3> HIDE DEF new
    <3> QED
      BY <1>3, <3>1, <3>2
  <2>2. CASE ~Lists(n, p)
    <3> DEFINE longer == Append(list, p)
    <3>1. /\ longer \in Seq(Providers) /\ longer # <<>>
          /\ Len(longer) = Len(list) + 1 /\ DOMAIN longer = 1 .. Len(list) + 1
          /\ \A i \in 1 .. Len(list) : longer[i] = list[i]
          /\ longer[Len(list) + 1] = p
      <4> HIDE DEF list, p
      <4>1. /\ longer \in Seq(Providers) /\ longer # <<>>
            /\ Len(longer) = Len(list) + 1
            /\ \A i \in 1 .. Len(list) : longer[i] = list[i]
            /\ longer[Len(list) + 1] = p
        BY <1>1, <1>3, AppendProperties
      <4> HIDE DEF longer
      <4> QED
        BY <4>1, LenProperties
    <3>2. \A i \in 1 .. Len(list) : list[i] # p
      BY <1>1, <2>2 DEF Lists, Contains
    <3> HIDE DEF longer
    <3>3. IsInjective(longer)
      <4>1. IsInjective(list)
        BY <1>3 DEF EntryOK
      <4> HIDE DEF list
      <4>2. ASSUME NEW i \in 1 .. Len(list) + 1, NEW j \in 1 .. Len(list) + 1,
                   longer[i] = longer[j], i < j
            PROVE  FALSE
        <5>1. i \in 1 .. Len(list) /\ longer[i] = list[i]
          BY <1>3, <3>1, <4>2
        <5>2. CASE j = Len(list) + 1
          BY <3>1, <3>2, <4>2, <5>1, <5>2
        <5>3. CASE j \in 1 .. Len(list)
          <6>1. list[i] = list[j]
            BY <3>1, <4>2, <5>1, <5>3
          <6>2. i = j
            BY <1>3, <4>1, <5>1, <5>3, <6>1 DEF IsInjective
          <6> QED
            BY <1>3, <4>2, <6>2
        <5> QED
          BY <1>3, <5>2, <5>3
      <4> QED
        BY <1>3, <3>1, <4>2 DEF IsInjective
    <3>4. services[n].lastUsed \in Nat /\ services[n].lastUsed < Len(longer)
      <4>1. services[n].lastUsed \in Nat
        BY <1>3 DEF Entries
      <4>2. IF list = <<>> THEN services[n].lastUsed = 0
            ELSE services[n].lastUsed < Len(list)
        BY <1>3 DEF EntryOK
      <4> HIDE DEF list
      <4> QED
        BY <1>3, <3>1, <4>1, <4>2
    <3>5. new = [signature |-> services[n].signature, providers |-> longer,
                 lastUsed |-> services[n].lastUsed]
      BY <1>3, <2>2 DEF Entries, longer
    <3> HIDE DEF new
    <3> QED
      BY <1>3, <3>1, <3>3, <3>4, <3>5 DEF EntryOK, Entries
  <2> QED
    BY <2>1, <2>2
<1> HIDE DEF new
<1>5. DOMAIN services' = DOMAIN services
  BY <1>2
<1>6. \A m \in DOMAIN services' : EntryOK(m, services'[m])
  BY <1>2, <1>4 DEF IInv, MapInv, TypeOK
<1>7. TypeOK'
  BY <1>2, <1>6, MapIsTyped, ResultTypes
     DEF IInv, TypeOK, mutex, Steps, WriterSteps, ReaderSteps
<1>8. LockInv'
  BY <1>2 DEF IInv, LockInv, TypeOK, mutex, WriterSteps, ReaderSteps
<1>9. CallInv'
  BY <1>2 DEF IInv, CallInv, TypeOK, ReaderSteps
<1>10. EntryInv'
  BY <1>2, <1>5 DEF IInv, EntryInv, TypeOK, EntrySteps
<1>11. MapInv'
  <2>1. ASSUME NEW m \in DOMAIN services', services'[m].providers = <<>>
        PROVE  UnderWork(m)'
    <3>1. m # n /\ m \in DOMAIN services /\ services[m].providers = <<>>
      BY <1>1, <1>2, <1>4, <1>5, <2>1 DEF IInv, TypeOK
    <3>2. UnderWork(m)
      BY <3>1 DEF IInv, MapInv
    <3> QED
      BY <1>2, <3>1, <3>2 DEF UnderWork, IInv, TypeOK
  <2> QED
    BY <1>5, <1>6, <2>1 DEF IInv, MapInv
<1> QED
  BY <1>7, <1>8, <1>9, <1>10, <1>11 DEF IInv

LEMMA EraseKept ==
    ASSUME IInv, NEW t \in Threads, Erase(t)
    PROVE  IInv'
<1> USE DEF GoTo, Finish
<1> DEFINE s == call[t].signature
           n == s.name
           p == call[t].provider
           hit == Lists(n, p) /\ SameSignature(services[n].signature, s)
           new == Erased(services[n], p)
<1>1. pc[t] = "erase" /\ UNCHANGED <<mutex, call, cursor, emptyEntries>>
  BY DEF Erase
<1>2. CASE ~hit
  <2>1. /\ services' = services
        /\ pc' = [pc EXCEPT ![t] = "unlock"]
        /\ result' = [result EXCEPT ![t] = Returns(0)]
    BY <1>2 DEF Erase
  <2>2. TypeOK'
    BY <1>1, <2>1, ResultTypes DEF IInv, TypeOK, mutex, Steps, WriterSteps, ReaderSteps
  <2>3. LockInv'
    BY <1>1, <2>1 DEF IInv, LockInv, TypeOK, mutex, WriterSteps, ReaderSteps
  <2>4. CallInv'
    BY <1>1, <2>1 DEF IInv, CallInv, TypeOK, ReaderSteps
  <2>5. EntryInv'
    BY <1>1, <2>1 DEF IInv, EntryInv, TypeOK, EntrySteps
  <2>6. MapInv'
    BY <1>1, <2>1 DEF IInv, MapInv, TypeOK, UnderWork
  <2> QED
    BY <2>2, <2>3, <2>4, <2>5, <2>6 DEF IInv
<1>3. CASE hit
  <2> DEFINE next == IF new.providers = <<>> THEN "eraseEntry" ELSE "unlock"
  <2>1. n \in DOMAIN services /\ Contains(services[n].providers, p)
    BY <1>3 DEF Lists
  <2>2. /\ services' = [m \in DOMAIN services \cup {n} |-> IF m = n THEN new ELSE services[m]]
        /\ pc' = [pc EXCEPT ![t] = next]
        /\ result' = [result EXCEPT ![t] = Returns(1)]
    BY <1>3 DEF Erase, Put
  <2>3. EntryOK(n, new)
    BY <2>1, ErasedProperties DEF IInv, MapInv
  <2> HIDE DEF new, next
  <2>4. DOMAIN services' = DOMAIN services /\ \A m \in DOMAIN services' : EntryOK(m, services'[m])
    BY <2>1, <2>2, <2>3 DEF IInv, MapInv
  <2>5. TypeOK'
    BY <1>1, <2>2, <2>4, MapIsTyped, ResultTypes
       DEF IInv, TypeOK, mutex, Steps, WriterSteps, ReaderSteps, next
  <2>6. LockInv'
    BY <1>1, <2>2 DEF IInv, LockInv, TypeOK, mutex, WriterSteps, ReaderSteps, next
  <2>7. CallInv'
    BY <1>1, <2>2 DEF IInv, CallInv, TypeOK, ReaderSteps, next
  <2>8. EntryInv'
    BY <1>1, <2>1, <2>2, <2>4 DEF IInv, EntryInv, TypeOK, EntrySteps, next
  <2>9. MapInv'
    <3>1. ASSUME NEW m \in DOMAIN services', services'[m].providers = <<>>
          PROVE  UnderWork(m)'
      <4>1. CASE m = n
        BY <1>1, <2>2, <3>1, <4>1 DEF UnderWork, IInv, TypeOK, next
      <4>2. CASE m # n
        <5>1. UnderWork(m)
          BY <2>1, <2>2, <2>4, <3>1, <4>2 DEF IInv, MapInv
        <5> QED
          BY <1>1, <2>2, <5>1 DEF UnderWork, IInv, TypeOK
      <4> QED
        BY <4>1, <4>2
    <3> QED
      BY <2>4, <3>1 DEF IInv, MapInv
  <2> QED
    BY <2>5, <2>6, <2>7, <2>8, <2>9 DEF IInv
<1> QED
  BY <1>2, <1>3

\* What erasing entries that have no provider does to the invariant, when it ends
\* the work on every such entry.
LEMMA EntriesErased ==
    ASSUME IInv, NEW t \in Threads, pc[t] \in WriterSteps,
           NEW gone, services' = Without(gone),
           \A n \in DOMAIN services : services[n].providers = <<>> => n \in gone,
           pc' = [pc EXCEPT ![t] = "unlock"],
           UNCHANGED <<mutex, call, result, cursor, emptyEntries>>
    PROVE  IInv'
<1>1. /\ DOMAIN services' = DOMAIN services \ gone
      /\ services' = [n \in DOMAIN services' |-> services[n]]
  BY DEF Without
<1>2. \A n \in DOMAIN services' : EntryOK(n, services'[n]) /\ services'[n].providers # <<>>
  BY <1>1 DEF IInv, MapInv
<1>3. TypeOK'
  BY <1>1, <1>2, MapIsTyped DEF IInv, TypeOK, mutex, Steps, WriterSteps, ReaderSteps
<1>4. LockInv'
  BY DEF IInv, LockInv, TypeOK, mutex, WriterSteps, ReaderSteps
<1>5. CallInv'
  BY DEF IInv, CallInv, TypeOK, ReaderSteps, WriterSteps
<1>6. EntryInv'
  <2>1. \A u \in Threads : pc'[u] \notin EntrySteps
    BY WriterIsAlone DEF IInv, TypeOK, EntrySteps, WriterSteps, ReaderSteps
  <2> QED
    BY <2>1 DEF EntryInv
<1>7. MapInv'
  <2>1. IsFiniteSet(DOMAIN services')
    BY <1>1, FS_Subset DEF IInv, MapInv
  <2> QED
    BY <1>2, <2>1 DEF MapInv
<1> QED
  BY <1>3, <1>4, <1>5, <1>6, <1>7 DEF IInv

LEMMA EraseEntryKept ==
    ASSUME IInv, NEW t \in Threads, EraseEntry(t)
    PROVE  IInv'
<1>1. \A n \in DOMAIN services :
        services[n].providers = <<>> => n \in {call[t].signature.name}
  BY WriterIsAlone DEF EraseEntry, IInv, MapInv, UnderWork, WriterSteps
<1> QED
  BY <1>1, EntriesErased DEF EraseEntry, GoTo, WriterSteps

LEMMA PurgeKept ==
    ASSUME IInv, NEW t \in Threads, Purge(t)
    PROVE  IInv'
<1>1. \A n \in DOMAIN services : services[n].providers = <<>> => n \in emptyEntries[t]
  BY WriterIsAlone DEF Purge, IInv, MapInv, UnderWork, WriterSteps
<1> QED
  BY <1>1, EntriesErased DEF Purge, GoTo, WriterSteps

LEMMA SweepKept ==
    ASSUME IInv, NEW t \in Threads, Sweep(t)
    PROVE  IInv'
<1> USE DEF GoTo, Finish
<1> DEFINE p == call[t].provider
           hit == {n \in DOMAIN services : Lists(n, p)}
           new == [n \in DOMAIN services |->
                     IF n \in hit THEN Erased(services[n], p) ELSE services[n]]
           emptied == {n \in hit : Erased(services[n], p).providers = <<>>}
           count == IF call[t].op = "deregister"
                    THEN AsBool(Cardinality(hit) > 0) ELSE Cardinality(hit)
<1>1. /\ pc[t] = "sweep" /\ pc' = [pc EXCEPT ![t] = "purge"]
      /\ services' = new
      /\ emptyEntries' = [emptyEntries EXCEPT ![t] = emptied]
      /\ result' = [result EXCEPT ![t] = Returns(count)]
      /\ UNCHANGED <<mutex, call, cursor>>
  BY DEF Sweep
<1>2. hit \subseteq DOMAIN services /\ IsFiniteSet(hit) /\ Cardinality(hit) \in Nat
  <2>1. hit \in SUBSET DOMAIN services
    OBVIOUS
  <2>2. IsFiniteSet(hit)
    BY <2>1, FS_Subset DEF IInv, MapInv
  <2> HIDE DEF hit
  <2> QED
    BY <2>1, <2>2, FS_CardinalityType
<1>3. count \in Nat
  <2> HIDE DEF hit
  <2> QED
    BY <1>2 DEF AsBool
<1>4. ASSUME NEW n \in DOMAIN services
      PROVE  EntryOK(n, new[n])
  <2>1. EntryOK(n, services[n])
    BY DEF IInv, MapInv
  <2>2. CASE n \in hit
    BY <2>1, <2>2, ErasedProperties DEF Lists
  <2>3. CASE n \notin hit
    BY <2>1, <2>3
  <2> QED
    BY <2>2, <2>3
<1>5. DOMAIN services' = DOMAIN services
  BY <1>1
<1>6. \A n \in DOMAIN services' : EntryOK(n, services'[n])
  BY <1>1, <1>4, <1>5
<1>7. \A n \in DOMAIN services :
        services'[n].providers = <<>> => n \in emptied \/ services[n].providers = <<>>
  BY <1>1
<1>8. services' = [n \in DOMAIN services' |-> services'[n]] /\ emptied \subseteq DOMAIN services
  BY <1>1
<1> HIDE DEF hit, new, emptied, count
<1>9. TypeOK'
  BY <1>1, <1>3, <1>5, <1>6, <1>8, MapIsTyped, ResultTypes
     DEF IInv, TypeOK, mutex, Steps, WriterSteps, ReaderSteps
<1>10. LockInv'
  BY <1>1 DEF IInv, LockInv, TypeOK, mutex, WriterSteps, ReaderSteps
<1>11. CallInv'
  BY <1>1 DEF IInv, CallInv, TypeOK, ReaderSteps
<1>12. EntryInv'
  BY <1>1, <1>5 DEF IInv, EntryInv, TypeOK, EntrySteps
<1>13. MapInv'
  <2>1. ASSUME NEW n \in DOMAIN services', services'[n].providers = <<>>
        PROVE  UnderWork(n)'
    <3>1. CASE n \in emptied
      BY <1>1, <3>1 DEF UnderWork, IInv, TypeOK
    <3>2. CASE services[n].providers = <<>>
      BY <1>1, <1>5, <3>2 DEF UnderWork, IInv, MapInv, TypeOK
    <3> QED
      BY <1>5, <1>7, <2>1, <3>1, <3>2
  <2> QED
    BY <1>5, <1>6, <2>1 DEF IInv, MapInv
<1> QED
  BY <1>9, <1>10, <1>11, <1>12, <1>13 DEF IInv

LEMMA StoreCursorKept ==
    ASSUME IInv, NEW t \in Threads, StoreCursor(t)
    PROVE  IInv'
<1> USE DEF GoTo, Finish
<1> DEFINE n == call[t].signature.name
           size == Len(Looked(t).providers)
           next == IF size > 0 THEN (cursor[t] + 1) % size ELSE 0
           new == [services[n] EXCEPT !.lastUsed = next]
<1>1. /\ n \in DOMAIN services
      /\ EntryOK(n, services[n])
      /\ services[n].providers \in Seq(Providers)
      /\ services[n].lastUsed \in 0 .. size - 1
      /\ services[n] \in Entries
  BY Candidates DEF StoreCursor, ReaderSteps, EntrySteps, Looked, Entries
<1>2. /\ services' = [services EXCEPT ![n] = new]
      /\ pc' = [pc EXCEPT ![t] = "unlock"]
      /\ pc[t] = "storeCursor"
      /\ UNCHANGED <<mutex, call, result, cursor, emptyEntries>>
  BY <1>1 DEF StoreCursor, IInv, TypeOK, Looked
<1>3. size \in Nat /\ size > 0
  BY <1>1, LenProperties DEF Looked
<1>4. next \in Nat /\ next < size
  <2>1. \A a \in Nat, b \in Nat \ {0} : a % b \in Nat /\ a % b < b
    OBVIOUS
  <2>2. cursor[t] + 1 \in Nat
    BY DEF IInv, TypeOK
  <2> HIDE DEF size
  <2> QED
    BY <1>3, <2>1, <2>2
<1>5. /\ new.providers = services[n].providers /\ new.signature = services[n].signature
      /\ new.lastUsed = next /\ new \in Entries
  <2> HIDE DEF next
  <2> QED
    BY <1>1, <1>4 DEF Entries
<1>6. EntryOK(n, new) /\ new.providers # <<>>
  <2>1. new.providers # <<>>
    BY <1>1, <1>3, <1>5, EmptySeq DEF Looked
  <2>2. new.lastUsed < Len(new.providers)
    BY <1>4, <1>5 DEF Looked
  <2> HIDE DEF new, next
  <2> QED
    BY <1>1, <1>5, <2>1, <2>2 DEF EntryOK
<1> HIDE DEF new, next, size
<1>7. DOMAIN services' = DOMAIN services /\ services' = [m \in DOMAIN services' |-> services'[m]]
  BY <1>2 DEF IInv, TypeOK
<1>8. \A m \in DOMAIN services' : EntryOK(m, services'[m])
  BY <1>2, <1>6 DEF IInv, MapInv, TypeOK
<1>9. TypeOK'
  BY <1>2, <1>7, <1>8, MapIsTyped
     DEF IInv, TypeOK, mutex, Steps, WriterSteps, ReaderSteps
<1>10. LockInv'
  BY <1>2 DEF IInv, LockInv, TypeOK, mutex, WriterSteps, ReaderSteps
<1>11. CallInv'
  BY <1>2 DEF IInv, CallInv, TypeOK, ReaderSteps
<1>12. EntryInv'
  BY <1>2, <1>7 DEF IInv, EntryInv, TypeOK, EntrySteps
<1>13. MapInv'
  <2>1. ASSUME NEW m \in DOMAIN services', services'[m].providers = <<>>
        PROVE  UnderWork(m)'
    <3>1. m # n /\ m \in DOMAIN services /\ services[m].providers = <<>>
      BY <1>1, <1>2, <1>6, <1>7, <2>1 DEF IInv, TypeOK
    <3>2. UnderWork(m)
      BY <3>1 DEF IInv, MapInv
    <3> QED
      BY <1>2, <3>2 DEF UnderWork, IInv, TypeOK
  <2> QED
    BY <1>7, <1>8, <2>1 DEF IInv, MapInv
<1> QED
  BY <1>9, <1>10, <1>11, <1>12, <1>13 DEF IInv

-----------------------------------------------------------------------------
(* The invariant of the specification, and what it implies.                *)

LEMMA NextKept == IInv /\ [Next]_vars => IInv'
<1> SUFFICES ASSUME IInv, [Next]_vars PROVE IInv'
  OBVIOUS
<1>1. ASSUME NEW t \in Threads,
             Request(t) \/ LockExclusive(t) \/ LockShared(t) \/ Run(t)
      PROVE  IInv'
  <2>1. CASE Request(t) \/ LockExclusive(t) \/ LockShared(t)
    BY <2>1, RequestKept, LockExclusiveKept, LockSharedKept
  <2>2. CASE Enter(t) \/ AwaitExclusive(t) \/ Unlock(t) \/ Return(t)
    BY <2>2, EnterKept, AwaitExclusiveKept, UnlockKept, ReturnKept
  <2>3. CASE Register(t)
    BY <2>3, InsertKept, AppendProviderKept DEF Register
  <2>4. CASE Deregister(t)
    BY <2>4, EraseKept, EraseEntryKept, SweepKept, PurgeKept DEF Deregister
  <2>5. CASE Lookup(t)
    BY <2>5, FindKept, ReadHostKept, ReadPortKept, LoadCursorKept, StoreCursorKept DEF Lookup
  <2> QED
    BY <1>1, <2>1, <2>2, <2>3, <2>4, <2>5 DEF Run
<1>2. CASE UNCHANGED vars
  BY <1>2 DEF vars, mutex, locals, IInv, TypeOK, LockInv, CallInv, EntryInv, MapInv,
              UnderWork
<1> QED
  BY <1>1, <1>2 DEF Next

THEOREM Invariance == Spec => []IInv
  BY InitiallyInvariant, NextKept, PTL DEF Spec

\* Every variable keeps its type: in particular the cursor never becomes negative
\* and the lists hold providers only.
THEOREM TypeCorrectness == Spec => []TypeOK
<1>1. IInv => TypeOK
  BY DEF IInv
<1> QED
  BY <1>1, Invariance, PTL

\* While one thread changes the map no other is inside an operation on it.
THEOREM WritersExclude == Spec => []WritersAreAlone
<1>1. IInv => WritersAreAlone
  BY WriterIsAlone DEF WritersAreAlone, InCriticalSection
<1> QED
  BY <1>1, Invariance, PTL

\* list[data.lastUsed] never reads outside the list, with any number of lookups
\* racing on the cursor.
THEOREM LookupsStayInTheList == Spec => []CandidateExists
<1>1. IInv => CandidateExists
  BY Candidates DEF CandidateExists, ReaderSteps, EntrySteps
<1> QED
  BY <1>1, Invariance, PTL

\* Whenever no writer is at work, the map is in order.
THEOREM MapStaysConsistent == Spec => []MapIsConsistent
<1>1. ASSUME IInv, writers = {}, NEW n \in DOMAIN services
      PROVE  /\ services[n].lastUsed < Len(services[n].providers)
             /\ IsInjective(services[n].providers)
             /\ services[n].signature.valid
             /\ services[n].signature.name = n
  <2>1. ~UnderWork(n)
    BY <1>1 DEF IInv, LockInv, UnderWork, WriterSteps
  <2> QED
    BY <1>1, <2>1 DEF IInv, MapInv, EntryOK
<1>2. IInv => MapIsConsistent
  BY <1>1 DEF MapIsConsistent
<1> QED
  BY <1>2, Invariance, PTL

\* The signature of a name is fixed as long as the name has a provider.
THEOREM SignaturesStay == Spec => SignatureIsFixed
<1> DEFINE Fixed == \A n \in DOMAIN services \cap DOMAIN services' :
                       services[n].providers # <<>> =>
                           SameSignature(services[n].signature, services'[n].signature)
<1>1. ASSUME IInv, [Next]_vars
      PROVE  [Fixed]_vars
  <2>1. SUFFICES ASSUME NEW t \in Threads,
                        Request(t) \/ LockExclusive(t) \/ LockShared(t) \/ Run(t),
                        NEW n \in DOMAIN services, n \in DOMAIN services',
                        services[n].providers # <<>>
                 PROVE  services'[n].signature = services[n].signature
    BY <1>1 DEF Next, SameSignature
  <2>2. /\ EntryOK(n, services[n])
        /\ services[n].signature \in Signatures
        /\ services[n].signature # AnySignature
    BY <1>1, <2>1, SignatureAssumption DEF IInv, MapInv, EntryOK, Entries
  <2>3. ~SameSignature(services[n].signature, AnySignature)
    BY <2>2, SignatureAssumption, TextAssumption DEF SameSignature
  <2>4. CASE services' = services
    BY <2>4
  <2>5. CASE Insert(t)
    BY <1>1, <2>1, <2>3, <2>5 DEF Insert, Put
  <2>6. CASE AppendProvider(t) \/ StoreCursor(t)
    <3>1. \/ services' = services
          \/ \E l : services' = [services EXCEPT ![call[t].signature.name].providers = l]
          \/ \E c : services' = [services EXCEPT ![call[t].signature.name].lastUsed = c]
      BY <2>6 DEF AppendProvider, StoreCursor
    <3>2. services[n] \in Entries /\ services = [m \in DOMAIN services |-> services[m]]
      BY <1>1, <2>1 DEF IInv, TypeOK
    <3> DEFINE k == call[t].signature.name
    <3>3. CASE \E l : services' = [services EXCEPT ![k].providers = l]
      <4>1. PICK l : services' = [services EXCEPT ![k] = [services[k] EXCEPT !.providers = l]]
        BY <3>3
      <4>2. services'[n] = IF n = k THEN [services[k] EXCEPT !.providers = l] ELSE services[n]
        BY <2>1, <3>2, <4>1
      <4>3. [services[n] EXCEPT !.providers = l].signature = services[n].signature
        BY <3>2 DEF Entries
      <4> QED
        BY <4>2, <4>3
    <3>4. CASE \E c : services' = [services EXCEPT ![k].lastUsed = c]
      <4>1. PICK c : services' = [services EXCEPT ![k] = [services[k] EXCEPT !.lastUsed = c]]
        BY <3>4
      <4>2. services'[n] = IF n = k THEN [services[k] EXCEPT !.lastUsed = c] ELSE services[n]
        BY <2>1, <3>2, <4>1
      <4>3. [services[n] EXCEPT !.lastUsed = c].signature = services[n].signature
        BY <3>2 DEF Entries
      <4> QED
        BY <4>2, <4>3
    <3> QED
      BY <3>1, <3>3, <3>4
  <2>7. CASE Erase(t)
    BY <1>1, <2>1, <2>2, <2>7, ErasedProperties DEF Erase, Put, Lists
  <2>8. CASE EraseEntry(t) \/ Purge(t)
    BY <2>1, <2>8 DEF EraseEntry, Purge, Without
  <2>9. CASE Sweep(t)
    BY <2>1, <2>2, <2>9, ErasedProperties DEF Sweep, Lists
  <2> QED
    BY <2>1, <2>4, <2>5, <2>6, <2>7, <2>8, <2>9
       DEF Run, Register, Deregister, Lookup, Request, LockExclusive, LockShared, Enter,
           AwaitExclusive, Unlock, Return, Find, ReadHost, ReadPort, LoadCursor
<1>2. IInv /\ [Next]_vars => [Fixed]_vars
  BY <1>1
<1> QED
  BY <1>2, Invariance, PTL DEF Spec, SignatureIsFixed

-----------------------------------------------------------------------------
(***************************************************************************)
(* The refinement of RegistrySpec.  A registration takes effect when it is *)
(* refused or when its provider is in the list, a removal when the         *)
(* provider has left the lists, a lookup when it has found nothing or has  *)
(* read the port; the other steps are stutters.  Besides the invariant     *)
(* above this needs that a call is decided exactly where the model says    *)
(* so, that the entries a writer is about to fill or to erase are empty,   *)
(* and that a lookup between its two reads holds the host of a registered  *)
(* pair.                                                                   *)
(***************************************************************************)

Undecided == {"idle", "enter", "lock", "insert", "append", "erase", "sweep", "find", "readHost",
              "readPort"}

\* How far a call has come, and what it has produced.
StageOK(t) ==
    /\ pc[t] = "idle" => call[t] = NoCall
    /\ result[t].outcome = "pending" <=> pc[t] \in Undecided
    /\ pc[t] = "erase" => ~SameSignature(call[t].signature, AnySignature)
    /\ pc[t] = "sweep" /\ call[t].op = "deregister" =>
          SameSignature(call[t].signature, AnySignature)

HostsOf(list) == {p[1] : p \in ToSet(list)}

\* What a thread knows of the entries that it works on.
WorkOK(t) ==
    LET s == call[t].signature
    IN  /\ pc[t] = "append" =>
              /\ SameSignature(services[s.name].signature, s)
              /\ services[s.name].providers = <<>> => services[s.name].signature = s
        /\ pc[t] = "eraseEntry" => services[s.name].providers = <<>>
        /\ pc[t] = "purge" =>
              \A n \in emptyEntries[t] \cap DOMAIN services : services[n].providers = <<>>
        /\ pc[t] = "readPort" => result[t].host \in HostsOf(services[s.name].providers)

StageInv == \A t \in Threads : StageOK(t)
WorkInv == \A t \in Threads : WorkOK(t)

RInv == IInv /\ StageInv /\ WorkInv

-----------------------------------------------------------------------------
(* The further invariants.                                                 *)

LEMMA ResultOutcomes ==
    /\ Pending.outcome = "pending" /\ Throws.outcome = "throws"
    /\ \A v : Returns(v).outcome = "returns"
    /\ \A h, p : Found(h, p).outcome = "returns"
  BY DEF Pending, Throws, Returns, Found

LEMMA RInitially == Init => RInv
<1>1. Init => StageInv /\ WorkInv
  BY ResultOutcomes DEF Init, StageInv, StageOK, Undecided, WorkInv, WorkOK
<1> QED
  BY <1>1, InitiallyInvariant DEF RInv

LEMMA StageStep == IInv /\ StageInv /\ [Next]_vars => StageInv'
<1> SUFFICES ASSUME IInv, StageInv, [Next]_vars PROVE StageInv'
  OBVIOUS
<1> USE ResultOutcomes DEF IInv, TypeOK, StageInv, StageOK, GoTo, Finish, Undecided
<1>1. CASE UNCHANGED vars
  BY <1>1 DEF vars, locals
<1>2. ASSUME NEW t \in Threads,
             Request(t) \/ LockExclusive(t) \/ LockShared(t) \/ Run(t)
      PROVE  StageInv'
  <2>1. CASE Request(t) \/ Enter(t)
    BY <2>1 DEF Request, Enter
  <2>2. CASE AwaitExclusive(t) \/ Unlock(t) \/ Return(t)
    BY <2>2 DEF AwaitExclusive, Unlock, Return, locals
  <2>3. CASE LockExclusive(t)
    <3>1. call[t] \in Calls
      BY <2>3 DEF LockExclusive, CallInv
    <3>2. /\ CriticalSection(call[t]) \in {"insert", "erase", "sweep"}
          /\ CriticalSection(call[t]) = "erase" => ~SameSignature(call[t].signature, AnySignature)
          /\ CriticalSection(call[t]) = "sweep" /\ call[t].op = "deregister" =>
                SameSignature(call[t].signature, AnySignature)
      BY <2>3, <3>1, CallTypes DEF LockExclusive, CriticalSection
    <3> QED
      BY <2>3, <3>2 DEF LockExclusive
  <2>4. CASE LockShared(t)
    <3>1. CriticalSection(call[t]) = "find"
      BY <2>4 DEF LockShared, CriticalSection
    <3> QED
      BY <2>4, <3>1 DEF LockShared
  <2>5. CASE Register(t)
    BY <2>5 DEF Register, Insert, AppendProvider
  <2>6. CASE Deregister(t)
    <3>1. CASE Erase(t) \/ EraseEntry(t)
      BY <3>1 DEF Erase, EraseEntry
    <3>2. CASE Sweep(t) \/ Purge(t)
      BY <3>2 DEF Sweep, Purge
    <3> QED
      BY <2>6, <3>1, <3>2 DEF Deregister
  <2>7. CASE Lookup(t)
    <3>1. CASE ReadHost(t)
      <4>1. result[t] \in Results
        OBVIOUS
      <4>2. [result[t] EXCEPT !.host = Candidate(t)[1]].outcome = result[t].outcome
        BY <4>1 DEF Results
      <4>3. result' = [result EXCEPT ![t] = [result[t] EXCEPT !.host = Candidate(t)[1]]]
        BY <3>1 DEF ReadHost
      <4> QED
        BY <3>1, <4>2, <4>3 DEF ReadHost
    <3>2. CASE Find(t) \/ ReadPort(t) \/ LoadCursor(t) \/ StoreCursor(t)
      BY <3>2 DEF Find, ReadPort, LoadCursor, StoreCursor
    <3> QED
      BY <2>7, <3>1, <3>2 DEF Lookup
  <2> QED
    BY <1>2, <2>1, <2>2, <2>3, <2>4, <2>5, <2>6, <2>7 DEF Run
<1> QED
  BY <1>1, <1>2 DEF Next

\* A step of another thread.
LEMMA WorkOfOthers ==
    ASSUME IInv, NEW t \in Threads, NEW u \in Threads, t # u, WorkOK(u),
           pc'[u] = pc[u], call'[u] = call[u], result'[u] = result[u],
           emptyEntries'[u] = emptyEntries[u],
           services' = services \/ pc[t] \in WriterSteps
    PROVE  WorkOK(u)'
<1>1. CASE services' = services
  BY <1>1 DEF WorkOK
<1>2. CASE pc[t] \in WriterSteps
  <2>1. pc[u] \notin WriterSteps \cup ReaderSteps
    BY <1>2, WriterIsAlone
  <2> QED
    BY <2>1 DEF WorkOK, WriterSteps, ReaderSteps
<1> QED
  BY <1>1, <1>2

\* StoreCursor changes neither a list nor a signature.
LEMMA StoreCursorEffect ==
    ASSUME IInv, NEW t \in Threads, StoreCursor(t)
    PROVE  /\ DOMAIN services' = DOMAIN services
           /\ \A n \in DOMAIN services :
                 /\ services'[n].providers = services[n].providers
                 /\ services'[n].signature = services[n].signature
<1> DEFINE n == call[t].signature.name
           size == Len(Looked(t).providers)
           next == IF size > 0 THEN (cursor[t] + 1) % size ELSE 0
<1>1. n \in DOMAIN services /\ \A m \in DOMAIN services : services[m] \in Entries
  BY Candidates DEF StoreCursor, ReaderSteps, EntrySteps, IInv, TypeOK
<1>2. services' = [services EXCEPT ![n] = [services[n] EXCEPT !.lastUsed = next]]
  BY DEF StoreCursor, Looked
<1> HIDE DEF next, n
<1>3. [services[n] EXCEPT !.lastUsed = next].providers = services[n].providers
  BY <1>1 DEF Entries
<1>4. [services[n] EXCEPT !.lastUsed = next].signature = services[n].signature
  BY <1>1 DEF Entries
<1>5. /\ DOMAIN services' = DOMAIN services
      /\ \A m \in DOMAIN services :
            services'[m] = IF m = n THEN [services[n] EXCEPT !.lastUsed = next] ELSE services[m]
  BY <1>1, <1>2 DEF IInv, TypeOK
<1> QED
  BY <1>3, <1>4, <1>5

\* An entry that is in the map when a registration begins has a provider.
LEMMA EntryIsFilled ==
    ASSUME IInv, NEW t \in Threads, pc[t] \in {"insert", "erase", "sweep"},
           NEW n \in DOMAIN services
    PROVE  /\ services[n].providers # <<>>
           /\ ~SameSignature(services[n].signature, AnySignature)
<1>1. ~UnderWork(n)
  BY WriterIsAlone DEF UnderWork, WriterSteps
<1>2. EntryOK(n, services[n]) /\ services[n].providers # <<>>
  BY <1>1 DEF IInv, MapInv
<1>3. services[n].signature \in Signatures /\ services[n].signature # AnySignature
  BY <1>2, SignatureAssumption DEF EntryOK, Entries
<1> QED
  BY <1>2, <1>3, SignatureAssumption, TextAssumption DEF SameSignature

LEMMA WorkStep == IInv /\ StageInv /\ WorkInv /\ [Next]_vars => WorkInv'
<1> SUFFICES ASSUME IInv, StageInv, WorkInv, [Next]_vars, NEW u \in Threads PROVE WorkOK(u)'
  BY DEF WorkInv
<1>1. WorkOK(u)
  BY DEF WorkInv
<1>2. CASE UNCHANGED vars
  BY <1>1, <1>2 DEF vars, locals, WorkOK
<1>3. ASSUME NEW t \in Threads,
             Request(t) \/ LockExclusive(t) \/ LockShared(t) \/ Run(t)
      PROVE  WorkOK(u)'
  <2> USE DEF GoTo, Finish
  <2>1. CASE u # t
    <3>1. /\ pc'[u] = pc[u] /\ call'[u] = call[u] /\ result'[u] = result[u]
          /\ emptyEntries'[u] = emptyEntries[u]
      BY <1>3, <2>1 DEF IInv, TypeOK, locals, Request, LockExclusive, LockShared, Run, Enter,
         AwaitExclusive, Unlock, Return, Register, Insert, AppendProvider, Deregister, Erase,
         EraseEntry, Sweep, Purge, Lookup, Find, ReadHost, ReadPort, LoadCursor, StoreCursor
    <3>2. CASE StoreCursor(t)
      <4>1. u # t /\ pc[t] \in ReaderSteps
        BY <2>1, <3>2 DEF StoreCursor, ReaderSteps
      <4>2. pc[u] \notin WriterSteps
        BY <4>1, WriterIsAlone
      <4>3. pc[u] = "readPort" => call[u].signature.name \in DOMAIN services
        BY DEF IInv, EntryInv, EntrySteps
      <4> QED
        BY <1>1, <3>1, <3>2, <4>2, <4>3, StoreCursorEffect DEF WorkOK, WriterSteps, HostsOf
    <3>3. CASE ~StoreCursor(t)
      <4>1. services' = services \/ pc[t] \in WriterSteps
        BY <1>3, <3>3 DEF locals, Request, LockExclusive, LockShared, Run, Enter,
           AwaitExclusive, Unlock, Return, Register, Insert, AppendProvider, Deregister, Erase,
           EraseEntry, Sweep, Purge, Lookup, Find, ReadHost, ReadPort, LoadCursor, WriterSteps
      <4> QED
        BY <1>1, <2>1, <3>1, <4>1, WorkOfOthers
    <3> QED
      BY <3>2, <3>3
  <2>2. CASE u = t /\ Insert(t)
    <3> DEFINE s == call[t].signature
               old == IF s.name \in DOMAIN services THEN services[s.name] ELSE NewEntry
               new == IF SameSignature(old.signature, AnySignature)
                      THEN [old EXCEPT !.signature = s] ELSE old
    <3>1. /\ services' = [m \in DOMAIN services \cup {s.name} |->
                             IF m = s.name THEN new ELSE services[m]]
          /\ call' = call
          /\ pc' \in [Threads -> Steps] /\ pc'[t] \in {"append", "unlock"}
          /\ pc'[t] = "append" => /\ \/ SameSignature(old.signature, AnySignature)
                                     \/ SameSignature(old.signature, s)
      BY <2>2 DEF Insert, Put, IInv, TypeOK, Steps, WriterSteps
    <3>2. CASE s.name \in DOMAIN services
      <4>1. old.providers # <<>> /\ ~SameSignature(old.signature, AnySignature)
        BY <2>2, <3>2, EntryIsFilled DEF Insert
      <4>2. services'[s.name] = old
        BY <3>1, <4>1
      <4> QED
        BY <2>2, <3>1, <4>1, <4>2 DEF WorkOK
    <3>3. CASE s.name \notin DOMAIN services
      <4>1. services'[s.name].signature = s
        BY <3>1, <3>3 DEF NewEntry, SameSignature
      <4> QED
        BY <2>2, <3>1, <4>1 DEF WorkOK, SameSignature
    <3> QED
      BY <3>2, <3>3
  <2>3. CASE u = t /\ Erase(t)
    <3> DEFINE s == call[t].signature
               entry == Erased(services[s.name], call[t].provider)
    <3>1. /\ call' = call
          /\ pc' \in [Threads -> Steps] /\ pc'[t] \in {"eraseEntry", "unlock"}
          /\ pc'[t] = "eraseEntry" =>
                /\ entry.providers = <<>>
                /\ services' = [m \in DOMAIN services \cup {s.name} |->
                                   IF m = s.name THEN entry ELSE services[m]]
      BY <2>3 DEF Erase, Put, IInv, TypeOK, Steps, WriterSteps
    <3> HIDE DEF entry
    <3> QED
      BY <2>3, <3>1 DEF WorkOK
  <2>4. CASE u = t /\ Sweep(t)
    <3> DEFINE p == call[t].provider
               hit == {n \in DOMAIN services : Lists(n, p)}
    <3>1. /\ pc'[t] = "purge"
          /\ DOMAIN services' = DOMAIN services
          /\ \A n \in hit : services'[n] = Erased(services[n], p)
          /\ emptyEntries'[t] = {n \in hit : Erased(services[n], p).providers = <<>>}
      BY <2>4 DEF Sweep, IInv, TypeOK
    <3> HIDE DEF hit
    <3> QED
      BY <2>4, <3>1 DEF WorkOK
  <2>5. CASE u = t /\ ReadHost(t)
    <3> DEFINE list == Looked(t).providers
    <3>1. /\ list \in Seq(Providers)
          /\ Looked(t).lastUsed + 1 \in DOMAIN list
      BY <2>5, Candidates, LenProperties DEF ReadHost, ReaderSteps, EntrySteps, Entries
    <3>2. Candidate(t) \in ToSet(list)
      BY <3>1 DEF Candidate, ToSet
    <3>3. /\ pc'[t] = "readPort" /\ call' = call /\ services' = services
          /\ result'[t].host = Candidate(t)[1]
      BY <2>5 DEF ReadHost, IInv, TypeOK, Results
    <3> QED
      BY <2>5, <3>2, <3>3 DEF WorkOK, HostsOf, Looked
  <2>6. CASE u = t /\ ~(Insert(t) \/ Erase(t) \/ Sweep(t) \/ ReadHost(t) \/ AwaitExclusive(t))
    <3>1. pc'[t] \notin {"append", "eraseEntry", "purge", "readPort"}
      <4>1. CASE LockExclusive(t) \/ LockShared(t)
        <5>1. call[t] \in Calls
          BY <4>1 DEF LockExclusive, LockShared, IInv, CallInv
        <5>2. CriticalSection(call[t]) \in {"insert", "find", "sweep", "erase"}
          BY <5>1, CriticalSectionTypes, CallTypes
        <5>3. pc' = [pc EXCEPT ![t] = CriticalSection(call[t])]
          BY <4>1 DEF LockExclusive, LockShared
        <5> QED
          BY <5>2, <5>3 DEF IInv, TypeOK
      <4>2. CASE Request(t) \/ Enter(t) \/ Unlock(t) \/ Return(t)
        BY <4>2 DEF IInv, TypeOK, Request, Enter, Unlock, Return
      <4>3. CASE AppendProvider(t) \/ EraseEntry(t) \/ Purge(t)
        BY <4>3 DEF IInv, TypeOK, AppendProvider, EraseEntry, Purge
      <4>4. CASE Find(t) \/ ReadPort(t) \/ LoadCursor(t) \/ StoreCursor(t)
        BY <4>4 DEF IInv, TypeOK, Find, ReadPort, LoadCursor, StoreCursor
      <4> QED
        BY <1>3, <2>6, <4>1, <4>2, <4>3, <4>4 DEF Run, Register, Deregister, Lookup
    <3> QED
      BY <2>6, <3>1 DEF WorkOK
  <2>7. CASE u = t /\ AwaitExclusive(t)
    BY <1>1, <2>7 DEF AwaitExclusive, locals, WorkOK
  <2> QED
    BY <2>1, <2>2, <2>3, <2>4, <2>5, <2>6, <2>7
<1> QED
  BY <1>2, <1>3 DEF Next

LEMMA RInvariance == Spec => []RInv
<1>1. RInv /\ [Next]_vars => RInv'
  BY NextKept, StageStep, WorkStep DEF RInv
<1> QED
  BY RInitially, <1>1, PTL DEF Spec

-----------------------------------------------------------------------------
(* The mapping.                                                            *)

\* The instance of RegistrySpec brings the vocabulary of IRegistry once more.
LEMMA Vocabulary ==
    /\ Abs!Pending = Pending
    /\ Abs!Throws = Throws
    /\ Abs!NoCall = NoCall
    /\ \A v : Abs!Returns(v) = Returns(v)
    /\ \A h, p : Abs!Found(h, p) = Found(h, p)
    /\ \A b : Abs!AsBool(b) = AsBool(b)
    /\ \A s, t : Abs!SameSignature(s, t) <=> SameSignature(s, t)
    /\ \A S : Abs!Cardinality(S) = Cardinality(S)
<1>1. Abs!Pending = Pending
  BY DEF Abs!Pending, Pending, Abs!Empty, Empty
<1>2. \A S : Abs!Cardinality(S) = Cardinality(S)
  BY DEF Abs!Cardinality, Cardinality
<1> QED
  BY <1>1, <1>2 DEF Abs!Throws, Throws, Abs!NoCall, NoCall, Abs!Returns, Returns, Abs!Found, Found,
        Abs!AsBool, AsBool, Abs!SameSignature, SameSignature

\* The table of a map: what it shows of an entry, if the entry has a provider.
Shown(entry) == [signature |-> entry.signature, providers |-> ToSet(entry.providers)]
Filled(map) == {n \in DOMAIN map : map[n].providers # <<>>}
TableOf(map) == [n \in Filled(map) |-> Shown(map[n])]

LEMMA TableIs == Table = TableOf(services) /\ Table' = TableOf(services')
  BY DEF Table, TableOf, Filled, Shown

LEMMA TableEntries ==
    ASSUME IInv
    PROVE  /\ DOMAIN Table = Filled(services)
           /\ \A n \in DOMAIN Table : /\ n \in DOMAIN services
                                      /\ Table[n] = Shown(services[n])
                                      /\ Table[n].signature = services[n].signature
                                      /\ Table[n].providers = ToSet(services[n].providers)
                                      /\ Table[n].providers # {}
           /\ \A n \in DOMAIN services : services[n].providers \in Seq(Providers)
<1>1. DOMAIN Table = Filled(services) /\ \A n \in Filled(services) : Table[n] = Shown(services[n])
  BY TableIs DEF TableOf
<1>2. \A n \in DOMAIN services : services[n].providers \in Seq(Providers)
  BY DEF IInv, TypeOK, Entries
<1>3. \A n \in Filled(services) : ToSet(services[n].providers) # {}
  BY <1>2, SetOfSequence DEF Filled
<1> QED
  BY <1>1, <1>2, <1>3 DEF Shown, Filled

\* What the map shows after a step.
LEMMA TableBecomes ==
    ASSUME NEW f, f = [n \in DOMAIN f |-> f[n]], DOMAIN f = Filled(services'),
           \A n \in DOMAIN f : f[n] = Shown(services'[n])
    PROVE  Table' = f
  BY TableIs DEF TableOf

LEMMA TableStays ==
    ASSUME Filled(services') = Filled(services),
           \A n \in Filled(services) : Shown(services'[n]) = Shown(services[n])
    PROVE  Table' = Table
  BY TableIs DEF TableOf

LEMMA DecidedBecomes ==
    ASSUME IInv, NEW t \in Threads, NEW r, r.outcome # "pending",
           result' = [result EXCEPT ![t] = r]
    PROVE  Decided' = [Decided EXCEPT ![t] = r]
  BY DEF Decided, IInv, TypeOK

LEMMA DecidedStays ==
    ASSUME IInv, NEW t \in Threads, NEW r, r.outcome = "pending", result[t].outcome = "pending",
           result' = [result EXCEPT ![t] = r]
    PROVE  Decided' = Decided
  BY DEF Decided, IInv, TypeOK

\* A call that is not decided is in progress.
LEMMA InProgressIf ==
    ASSUME RInv, NEW t \in Threads, pc[t] \in Undecided, NEW o, call[t].op = o
    PROVE  Abs!InProgress(t, o)
<1>1. Decided[t] = Pending
  BY DEF RInv, StageInv, StageOK, Decided
<1> QED
  BY <1>1, ResultOutcomes DEF Abs!InProgress

-----------------------------------------------------------------------------
(* The steps.                                                              *)

LEMMA EnterActs ==
    ASSUME RInv, NEW t \in Threads, Enter(t)
    PROVE  Abs!Register(t) \/ UNCHANGED Abs!vars
<1> USE DEF GoTo, Finish
<1>1. UNCHANGED <<Table, call>>
  BY TableIs DEF Enter
<1>2. CASE Refused(call[t])
  <2>1. Decided' = [Decided EXCEPT ![t] = Throws]
    BY <1>2, ResultOutcomes, DecidedBecomes DEF Enter, RInv
  <2>2. Abs!InProgress(t, "register")
    BY <1>2, InProgressIf DEF Enter, Refused, Undecided
  <2> QED
    BY <1>1, <1>2, <2>1, <2>2, Vocabulary DEF Abs!Register, Abs!Finish, Refused
<1>3. CASE ~Refused(call[t])
  BY <1>1, <1>3 DEF Enter, Abs!vars, Decided
<1> QED
  BY <1>2, <1>3

LEMMA InsertActs ==
    ASSUME RInv, NEW t \in Threads, Insert(t)
    PROVE  Abs!Register(t) \/ UNCHANGED Abs!vars
<1> USE DEF GoTo, Finish
<1> DEFINE s == call[t].signature
           old == IF s.name \in DOMAIN services THEN services[s.name] ELSE NewEntry
           new == IF SameSignature(old.signature, AnySignature)
                  THEN [old EXCEPT !.signature = s] ELSE old
<1>1. /\ IInv /\ pc[t] = "insert"
      /\ services' = [m \in DOMAIN services \cup {s.name} |->
                         IF m = s.name THEN new ELSE services[m]]
      /\ call' = call
      /\ \/ result' = result
         \/ /\ ~SameSignature(old.signature, AnySignature)
            /\ ~SameSignature(old.signature, s)
            /\ result' = [result EXCEPT ![t] = Throws]
  BY DEF Insert, Put, RInv
<1>2. \A n \in DOMAIN services : /\ services[n].providers # <<>>
                                 /\ ~SameSignature(services[n].signature, AnySignature)
  BY <1>1, EntryIsFilled
<1>3. Table' = Table
  <2>1. CASE s.name \in DOMAIN services
    <3>1. new = services[s.name]
      BY <1>2, <2>1
    <3>2. Filled(services') = Filled(services)
            /\ \A n \in Filled(services) : services'[n] = services[n]
      BY <1>1, <2>1, <3>1 DEF Filled
    <3> QED
      BY <3>2, TableStays
  <2>2. CASE s.name \notin DOMAIN services
    <3>1. new.providers = <<>>
      BY <2>2 DEF NewEntry
    <3>2. Filled(services') = Filled(services)
            /\ \A n \in Filled(services) : services'[n] = services[n]
      BY <1>1, <2>2, <3>1 DEF Filled
    <3> QED
      BY <3>2, TableStays
  <2> QED
    BY <2>1, <2>2
<1>4. CASE result' = result
  BY <1>1, <1>3, <1>4 DEF Abs!vars, Decided
<1>5. CASE /\ ~SameSignature(old.signature, AnySignature)
           /\ ~SameSignature(old.signature, s)
           /\ result' = [result EXCEPT ![t] = Throws]
  <2>1. s.name \in DOMAIN services
    BY <1>5 DEF NewEntry, SameSignature
  <2>2. s.name \in DOMAIN Table /\ ~SameSignature(Table[s.name].signature, s)
    BY <1>1, <1>2, <1>5, <2>1, TableEntries DEF Filled
  <2>3. Decided' = [Decided EXCEPT ![t] = Throws]
    BY <1>1, <1>5, ResultOutcomes, DecidedBecomes
  <2>4. Abs!InProgress(t, "register")
    BY <1>1, InProgressIf DEF Undecided, IInv, CallInv
  <2> QED
    BY <1>1, <1>3, <2>2, <2>3, <2>4, Vocabulary DEF Abs!Register, Abs!Finish
<1> QED
  BY <1>1, <1>4, <1>5

LEMMA AppendProviderActs ==
    ASSUME RInv, NEW t \in Threads, AppendProvider(t)
    PROVE  Abs!Register(t)
<1> USE DEF GoTo, Finish
<1> DEFINE s == call[t].signature
           k == s.name
           p == call[t].provider
           list == services[k].providers
           old == IF k \in DOMAIN Table THEN Table[k].providers ELSE {}
           f == [n \in DOMAIN Table \cup {k} |->
                    IF n # k THEN Table[n]
                    ELSE [signature |-> IF old = {} THEN s ELSE Table[n].signature,
                          providers |-> old \cup {p}]]
<1>1. /\ IInv /\ pc[t] = "append" /\ call' = call
      /\ \/ Lists(k, p) /\ services' = services /\ result' = [result EXCEPT ![t] = Returns(0)]
         \/ /\ ~Lists(k, p)
            /\ result' = [result EXCEPT ![t] = Returns(1)]
            /\ services' = [services EXCEPT ![k].providers = Append(@, p)]
  BY DEF AppendProvider, RInv
<1>2. /\ k \in DOMAIN services
      /\ services[k] \in Entries
      /\ list \in Seq(Providers)
      /\ call[t].op = "register" /\ s.valid
      /\ SameSignature(services[k].signature, s)
      /\ list = <<>> => services[k].signature = s
  BY <1>1 DEF RInv, IInv, EntryInv, EntrySteps, CallInv, TypeOK, Entries, WorkInv, WorkOK
<1>3. /\ old = ToSet(list)
      /\ old = {} <=> list = <<>>
      /\ k \in DOMAIN Table <=> list # <<>>
      /\ k \in DOMAIN Table => Table[k].signature = services[k].signature
  <2>1. k \in DOMAIN Table <=> list # <<>>
    BY <1>1, <1>2, TableEntries DEF Filled
  <2>2. list = <<>> <=> ToSet(list) = {}
    BY <1>2, SetOfSequence
  <2>3. k \in DOMAIN Table => Table[k].providers = ToSet(list)
                                /\ Table[k].signature = services[k].signature
    BY <1>1, TableEntries
  <2> QED
    BY <2>1, <2>2, <2>3
<1>4. Lists(k, p) <=> p \in old
  <2>1. Contains(list, p) <=> p \in ToSet(list)
    BY <1>2, SetOfSequence
  <2> QED
    BY <1>2, <1>3, <2>1 DEF Lists
<1>5. ~(k \in DOMAIN Table /\ ~SameSignature(Table[k].signature, s))
  BY <1>2, <1>3
<1>6. Table' = f /\ result' = [result EXCEPT ![t] = Returns(AsBool(p \notin old))]
  <2>1. CASE Lists(k, p)
    <3>1. k \in DOMAIN Table /\ old \cup {p} = old /\ old # {} /\ old = Table[k].providers
      BY <1>3, <1>4, <2>1
    <3>2. \A n \in DOMAIN Table : Table[n] = [signature |-> Table[n].signature,
                                              providers |-> Table[n].providers]
      BY <1>1, TableEntries DEF Shown
    <3>3. DOMAIN f = DOMAIN Table /\ \A n \in DOMAIN Table : f[n] = Table[n]
      <4> HIDE DEF old
      <4> QED
        BY <3>1, <3>2
    <3>4. f = [n \in DOMAIN f |-> f[n]] /\ Table = [n \in DOMAIN Table |-> Table[n]]
      BY DEF Table
    <3>5. f = Table
      <4> HIDE DEF f
      <4> QED
        BY <3>3, <3>4
    <3>6. Table' = Table
      BY <1>1, <2>1 DEF Table
    <3> QED
      BY <1>1, <1>4, <2>1, <3>5, <3>6 DEF AsBool
  <2>2. CASE ~Lists(k, p)
    <3> DEFINE entry == [services[k] EXCEPT !.providers = Append(list, p)]
    <3>1. services' = [services EXCEPT ![k] = entry]
      BY <1>1, <2>2
    <3>2. entry.providers = Append(list, p) /\ entry.signature = services[k].signature
      BY <1>2 DEF Entries
    <3>3. ToSet(entry.providers) = old \cup {p} /\ entry.providers # <<>>
      BY <1>2, <1>3, <3>2, SetOfSequence
    <3> HIDE DEF entry
    <3>4. /\ DOMAIN services' = DOMAIN services
          /\ services'[k] = entry
          /\ \A n \in DOMAIN services \ {k} : services'[n] = services[n]
      BY <1>1, <1>2, <3>1 DEF IInv, TypeOK
    <3>5. Filled(services') = DOMAIN Table \cup {k}
      BY <1>1, <1>2, <3>3, <3>4, TableEntries DEF Filled
    <3>6. f[k] = Shown(services'[k])
      BY <1>2, <1>3, <3>2, <3>3, <3>4 DEF Shown
    <3>7. \A n \in DOMAIN Table \ {k} : f[n] = Shown(services'[n])
      BY <1>1, <3>4, TableEntries
    <3>8. f = [n \in DOMAIN f |-> f[n]] /\ DOMAIN f = DOMAIN Table \cup {k}
      OBVIOUS
    <3> HIDE DEF f
    <3>9. Table' = f
      BY <3>5, <3>6, <3>7, <3>8, TableBecomes
    <3> QED
      BY <1>1, <1>4, <2>2, <3>9 DEF AsBool
  <2> QED
    BY <2>1, <2>2
<1>7. Decided' = [Decided EXCEPT ![t] = Returns(AsBool(p \notin old))]
  BY <1>1, <1>6, ResultOutcomes, DecidedBecomes
<1>8. Abs!InProgress(t, "register")
  BY <1>1, <1>2, InProgressIf DEF Undecided
<1> QED
  BY <1>1, <1>2, <1>5, <1>6, <1>7, <1>8, Vocabulary DEF Abs!Register, Abs!Finish

LEMMA ErasedShown ==
    ASSUME IInv, NEW n \in DOMAIN services, NEW p, Lists(n, p)
    PROVE  /\ ToSet(Erased(services[n], p).providers) = ToSet(services[n].providers) \ {p}
           /\ Erased(services[n], p).providers \in Seq(Providers)
           /\ Erased(services[n], p).signature = services[n].signature
<1>1. EntryOK(n, services[n]) /\ Contains(services[n].providers, p)
  BY DEF IInv, MapInv, Lists
<1>2. EntryOK(n, Erased(services[n], p)) /\ Erased(services[n], p).signature = services[n].signature
  BY <1>1, ErasedProperties
<1>3. services[n] \in Entries /\ services[n].providers \in Seq(Providers)
  BY <1>1 DEF EntryOK, Entries
<1>4. Erased(services[n], p).providers = RemoveFirst(services[n].providers, p)
  BY <1>3 DEF Erased, Entries
<1> QED
  BY <1>1, <1>2, <1>3, <1>4, RemoveFirstProperties DEF EntryOK, Entries

\* A step takes p from the lists of the names in hit, and leaves the provider
\* sets q.
Takes(p, hit, q) ==
    /\ hit \subseteq DOMAIN services
    /\ \A n \in hit : Lists(n, p)
    /\ DOMAIN services' = DOMAIN services
    /\ \A n \in DOMAIN services :
          services'[n] = IF n \in hit THEN Erased(services[n], p) ELSE services[n]
    /\ \A n \in DOMAIN Table :
          q[n] = IF n \in hit THEN Table[n].providers \ {p} ELSE Table[n].providers

LEMMA Removal ==
    ASSUME IInv, NEW p, NEW hit, NEW q, Takes(p, hit, q)
    PROVE  Table' = Abs!WithProviders(q)
<1> USE DEF Takes
<1> DEFINE f == Abs!WithProviders(q)
<1>1. /\ DOMAIN f = {n \in DOMAIN Table : q[n] # {}}
      /\ \A n \in DOMAIN f : f[n] = [Table[n] EXCEPT !.providers = q[n]]
      /\ f = [n \in DOMAIN f |-> f[n]]
  BY DEF Abs!WithProviders
<1> HIDE DEF f
<1>2. \A n \in hit : n \in DOMAIN Table
  <2> SUFFICES ASSUME NEW n \in hit PROVE n \in DOMAIN Table
    OBVIOUS
  <2>1. services[n].providers \in Seq(Providers) /\ Contains(services[n].providers, p)
    BY TableEntries DEF Lists
  <2>2. services[n].providers # <<>>
    BY <2>1, SetOfSequence
  <2> QED
    BY <2>2, TableEntries DEF Filled
<1>3. ASSUME NEW n \in DOMAIN Table
      PROVE  /\ n \in DOMAIN services
             /\ ToSet(services'[n].providers) = q[n]
             /\ services'[n].signature = services[n].signature
             /\ services'[n].providers # <<>> <=> q[n] # {}
  <2>1. /\ n \in DOMAIN services
        /\ Table[n].providers = ToSet(services[n].providers)
        /\ services[n].providers \in Seq(Providers)
    BY TableEntries
  <2>2. CASE n \in hit
    <3>1. services'[n] = Erased(services[n], p) /\ q[n] = Table[n].providers \ {p} /\ Lists(n, p)
      BY <2>1, <2>2
    <3>2. /\ ToSet(services'[n].providers) = ToSet(services[n].providers) \ {p}
          /\ services'[n].providers \in Seq(Providers)
          /\ services'[n].signature = services[n].signature
      BY <2>1, <3>1, ErasedShown
    <3>3. services'[n].providers = <<>> <=> ToSet(services'[n].providers) = {}
      BY <3>2, SetOfSequence
    <3> QED
      BY <2>1, <3>1, <3>2, <3>3
  <2>3. CASE n \notin hit
    <3>1. services'[n] = services[n] /\ q[n] = Table[n].providers
      BY <2>1, <2>3
    <3>2. services[n].providers = <<>> <=> ToSet(services[n].providers) = {}
      BY <2>1, SetOfSequence
    <3> QED
      BY <2>1, <3>1, <3>2
  <2> QED
    BY <2>2, <2>3
<1>4. ASSUME NEW n \in DOMAIN services, n \notin DOMAIN Table
      PROVE  services'[n].providers = <<>>
  BY <1>2, <1>4, TableEntries DEF Filled
<1>5. Filled(services') = DOMAIN f
  BY <1>1, <1>3, <1>4 DEF Filled
<1>6. ASSUME NEW n \in DOMAIN f
      PROVE  f[n] = Shown(services'[n])
  <2>1. n \in DOMAIN Table /\ f[n] = [Table[n] EXCEPT !.providers = q[n]]
    BY <1>1
  <2>2. Table[n] = [signature |-> services[n].signature, providers |-> Table[n].providers]
    BY <2>1, TableEntries DEF Shown
  <2>3. f[n] = [signature |-> services[n].signature, providers |-> q[n]]
    BY <2>1, <2>2
  <2> QED
    BY <1>3, <2>1, <2>3 DEF Shown
<1>7. Table' = f
  BY <1>1, <1>5, <1>6, TableBecomes
<1> QED
  BY <1>7 DEF f

\* The names that list a provider, in the map and in the table.
LEMMA SameNames ==
    ASSUME IInv, NEW p
    PROVE  \A n : n \in Abs!NamesOf(p) <=> Lists(n, p)
<1> SUFFICES ASSUME NEW n PROVE n \in Abs!NamesOf(p) <=> Lists(n, p)
  OBVIOUS
<1>1. n \in DOMAIN services =>
        /\ Contains(services[n].providers, p) <=> p \in ToSet(services[n].providers)
        /\ p \in ToSet(services[n].providers) => services[n].providers # <<>>
  BY TableEntries, SetOfSequence
<1> QED
  BY <1>1, TableEntries DEF Abs!NamesOf, Lists, Filled

LEMMA EraseActs ==
    ASSUME RInv, NEW t \in Threads, Erase(t)
    PROVE  Abs!Deregister(t)
<1> USE DEF GoTo, Finish
<1> DEFINE s == call[t].signature
           k == s.name
           p == call[t].provider
           hit == Lists(k, p) /\ SameSignature(services[k].signature, s)
           q == [n \in DOMAIN Table |-> Table[n].providers \ (IF n = k THEN {p} ELSE {})]
<1>1. /\ IInv /\ pc[t] = "erase" /\ call' = call
      /\ \/ /\ hit
            /\ services' = [m \in DOMAIN services \cup {k} |->
                               IF m = k THEN Erased(services[k], p) ELSE services[m]]
            /\ result' = [result EXCEPT ![t] = Returns(1)]
         \/ ~hit /\ services' = services /\ result' = [result EXCEPT ![t] = Returns(0)]
  BY DEF Erase, Put, RInv
<1>2. ~SameSignature(s, AnySignature) /\ call[t].op = "deregister"
  BY <1>1 DEF RInv, StageInv, StageOK, IInv, CallInv
<1>3. hit <=> k \in Abs!NamesOf(p) /\ SameSignature(Table[k].signature, s)
  <2>1. Lists(k, p) <=> k \in Abs!NamesOf(p)
    BY <1>1, SameNames
  <2>2. k \in Abs!NamesOf(p) => k \in DOMAIN Table
    BY DEF Abs!NamesOf
  <2>3. k \in DOMAIN Table => Table[k].signature = services[k].signature
    BY <1>1, TableEntries
  <2> QED
    BY <2>1, <2>2, <2>3
<1>4. hit => Table' = Abs!WithProviders(q)
  <2> SUFFICES ASSUME hit PROVE Table' = Abs!WithProviders(q)
    OBVIOUS
  <2>1. /\ k \in DOMAIN services /\ {k} \in SUBSET DOMAIN services
        /\ \A n \in {k} : Lists(n, p)
        /\ DOMAIN services' = DOMAIN services
        /\ \A n \in DOMAIN services :
              services'[n] = IF n \in {k} THEN Erased(services[n], p) ELSE services[n]
    BY <1>1 DEF Lists
  <2>2. \A n \in DOMAIN Table :
           q[n] = IF n \in {k} THEN Table[n].providers \ {p} ELSE Table[n].providers
    OBVIOUS
  <2>3. Takes(p, {k}, q)
    BY <2>1, <2>2 DEF Takes
  <2> HIDE DEF q, k, p
  <2> QED
    BY <1>1, <2>3, Removal
<1>5. ~hit => Table' = Table
  BY <1>1 DEF Table
<1>6. Decided' = [Decided EXCEPT ![t] = Returns(AsBool(hit))]
  <2>1. result' = [result EXCEPT ![t] = Returns(AsBool(hit))]
    BY <1>1 DEF AsBool
  <2> QED
    BY <1>1, <2>1, ResultOutcomes, DecidedBecomes
<1>7. Abs!InProgress(t, "deregister")
  BY <1>1, <1>2, InProgressIf DEF Undecided
<1> DEFINE found == k \in Abs!NamesOf(p) /\ SameSignature(Table[k].signature, s)
<1>8. /\ Decided' = [Decided EXCEPT ![t] = Returns(AsBool(found))]
      /\ Table' = IF ~found THEN Table ELSE Abs!WithProviders(q)
  <2>1. hit = found
    BY <1>3
  <2> HIDE DEF hit, found, q
  <2> QED
    BY <1>4, <1>5, <1>6, <2>1
<1> QED
  BY <1>1, <1>2, <1>7, <1>8, Vocabulary DEF Abs!Deregister, Abs!Finish

\* A step that changes neither the table nor the calls nor the results.
LEMMA Stutter ==
    ASSUME Table' = Table, call' = call, result' = result
    PROVE  UNCHANGED Abs!vars
  BY DEF Abs!vars, Decided

LEMMA EmptiesErased ==
    ASSUME NEW names, services' = Without(names),
           \A n \in names \cap DOMAIN services : services[n].providers = <<>>
    PROVE  Table' = Table
<1>1. /\ Filled(services') = Filled(services)
      /\ \A n \in Filled(services) : services'[n] = services[n]
  BY DEF Filled, Without
<1> QED
  BY <1>1, TableStays

LEMMA EraseEntryActs ==
    ASSUME RInv, NEW t \in Threads, EraseEntry(t)
    PROVE  UNCHANGED Abs!vars
<1>1. services[call[t].signature.name].providers = <<>>
  BY DEF RInv, WorkInv, WorkOK, EraseEntry
<1>2. Table' = Table
  BY <1>1, EmptiesErased DEF EraseEntry
<1> QED
  BY <1>2, Stutter DEF EraseEntry

LEMMA PurgeActs ==
    ASSUME RInv, NEW t \in Threads, Purge(t)
    PROVE  UNCHANGED Abs!vars
<1>1. \A n \in emptyEntries[t] \cap DOMAIN services : services[n].providers = <<>>
  BY DEF RInv, WorkInv, WorkOK, Purge
<1>2. Table' = Table
  BY <1>1, EmptiesErased DEF Purge
<1> QED
  BY <1>2, Stutter DEF Purge

LEMMA SweepActs ==
    ASSUME RInv, NEW t \in Threads, Sweep(t)
    PROVE  Abs!Deregister(t) \/ Abs!DeregisterServer(t)
<1> DEFINE p == call[t].provider
           hit == {n \in DOMAIN services : Lists(n, p)}
           q == [n \in DOMAIN Table |-> Table[n].providers \ {p}]
           count == Cardinality(hit)
           value == IF call[t].op = "deregister" THEN AsBool(count > 0) ELSE count
<1>1. /\ IInv /\ pc[t] = "sweep" /\ call' = call
      /\ call[t].op \in {"deregister", "deregisterServer"}
      /\ services' = [n \in DOMAIN services |->
                         IF n \in hit THEN Erased(services[n], p) ELSE services[n]]
      /\ result' = [result EXCEPT ![t] = Returns(value)]
  BY DEF Sweep, Finish, RInv, IInv, CallInv
<1>2. hit = Abs!NamesOf(p)
  BY <1>1, SameNames DEF Lists
<1>3. Takes(p, hit, q)
  <2>1. \A n \in DOMAIN Table : p \in Table[n].providers => n \in hit
    BY <1>2 DEF Abs!NamesOf
  <2>2. \A n \in DOMAIN Table :
           q[n] = IF n \in hit THEN Table[n].providers \ {p} ELSE Table[n].providers
    BY <2>1
  <2> QED
    BY <1>1, <2>2 DEF Takes
<1>4. Table' = Abs!RemoveEverywhere(p)
  <2> HIDE DEF hit
  <2> QED
    BY <1>1, <1>3, Removal DEF Abs!RemoveEverywhere
<1>5. count \in Nat /\ (count = 0 <=> hit = {})
  <2>1. IsFiniteSet(hit)
    BY <1>1, FS_Subset DEF IInv, MapInv
  <2> QED
    BY <2>1, FS_CardinalityType, FS_EmptySet
<1>6. count > 0 <=> Abs!NamesOf(p) # {}
  <2>1. count > 0 <=> hit # {}
    <3> HIDE DEF count, hit
    <3> QED
      BY <1>5
  <2> QED
    BY <1>2, <2>1
<1>7. Decided' = [Decided EXCEPT ![t] = Returns(value)]
  BY <1>1, ResultOutcomes, DecidedBecomes
<1>8. CASE call[t].op = "deregister"
  <2>1. SameSignature(call[t].signature, AnySignature)
    BY <1>1, <1>8 DEF RInv, StageInv, StageOK
  <2>2. Abs!InProgress(t, "deregister")
    BY <1>1, <1>8, InProgressIf DEF Undecided
  <2>3. value = AsBool(Abs!NamesOf(p) # {})
    BY <1>6, <1>8
  <2> HIDE DEF value
  <2> QED
    BY <1>1, <1>4, <1>7, <2>1, <2>2, <2>3, Vocabulary DEF Abs!Deregister, Abs!Finish
<1>9. CASE call[t].op = "deregisterServer"
  <2>1. Abs!InProgress(t, "deregisterServer")
    BY <1>1, <1>9, InProgressIf DEF Undecided
  <2>2. value = Cardinality(Abs!NamesOf(p))
    BY <1>2, <1>9
  <2> HIDE DEF value, hit
  <2>3. Abs!Finish(t, Abs!Returns(Cardinality(Abs!NamesOf(p))))
    BY <1>7, <2>2, Vocabulary DEF Abs!Finish
  <2> QED
    BY <1>1, <1>4, <2>1, <2>3, Vocabulary DEF Abs!DeregisterServer
<1> QED
  BY <1>1, <1>8, <1>9

\* No writer is at work on what a reader finds, so that the table shows it.
LEMMA FoundIsShown ==
    ASSUME IInv, NEW t \in Threads, pc[t] \in ReaderSteps, NEW n \in DOMAIN services
    PROVE  n \in DOMAIN Table
<1>1. ~UnderWork(n)
  BY DEF IInv, LockInv, UnderWork, WriterSteps
<1>2. services[n].providers # <<>>
  BY <1>1 DEF IInv, MapInv
<1> QED
  BY <1>2, TableEntries DEF Filled

LEMMA FindActs ==
    ASSUME RInv, NEW t \in Threads, Find(t)
    PROVE  Abs!Lookup(t) \/ UNCHANGED Abs!vars
<1> DEFINE k == call[t].signature.name
<1>1. IInv /\ pc[t] = "find" /\ call' = call /\ services' = services
  BY DEF Find, RInv
<1>2. Table' = Table
  BY <1>1 DEF Table
<1>3. CASE k \in DOMAIN services
  BY <1>1, <1>2, <1>3, Stutter DEF Find
<1>4. CASE k \notin DOMAIN services
  <2>1. k \notin DOMAIN Table
    BY <1>1, <1>4, TableEntries
  <2>2. result' = [result EXCEPT ![t] = Returns(0)]
    BY <1>4 DEF Find, Finish
  <2>3. Decided' = [Decided EXCEPT ![t] = Returns(0)]
    BY <1>1, <2>2, ResultOutcomes, DecidedBecomes
  <2>4. Abs!InProgress(t, "lookup")
    BY <1>1, InProgressIf DEF Undecided, ReaderSteps, IInv, CallInv
  <2> QED
    BY <1>1, <1>2, <2>1, <2>3, <2>4, Vocabulary DEF Abs!Lookup, Abs!Finish
<1> QED
  BY <1>3, <1>4

LEMMA ReadHostActs ==
    ASSUME RInv, NEW t \in Threads, ReadHost(t)
    PROVE  UNCHANGED Abs!vars
<1> DEFINE r == [result[t] EXCEPT !.host = Candidate(t)[1]]
<1>1. /\ IInv /\ pc[t] = "readHost" /\ call' = call /\ services' = services
      /\ result' = [result EXCEPT ![t] = r]
  BY DEF ReadHost, RInv
<1>2. result[t].outcome = "pending"
  BY <1>1 DEF RInv, StageInv, StageOK, Undecided
<1>3. r.outcome = "pending"
  BY <1>1, <1>2 DEF IInv, TypeOK, Results
<1> HIDE DEF r
<1>4. Decided' = Decided
  BY <1>1, <1>2, <1>3, DecidedStays
<1>5. Table' = Table
  BY <1>1 DEF Table
<1> QED
  BY <1>1, <1>4, <1>5 DEF Abs!vars

LEMMA ReadPortActs ==
    ASSUME RInv, NEW t \in Threads, ReadPort(t)
    PROVE  Abs!Lookup(t)
<1> DEFINE k == call[t].signature.name
           list == services[k].providers
           h == result[t].host
           p == Candidate(t)[2]
<1>1. /\ IInv /\ pc[t] = "readPort" /\ call' = call /\ services' = services
      /\ result' = [result EXCEPT ![t] = Found(h, p)]
  BY DEF ReadPort, Finish, RInv
<1>2. /\ k \in DOMAIN services
      /\ Looked(t) = services[k]
      /\ list \in Seq(Providers)
      /\ Looked(t).lastUsed \in 0 .. Len(list) - 1
  BY <1>1, Candidates DEF Looked, ReaderSteps, EntrySteps, Entries
<1>3. h \in {a[1] : a \in ToSet(list)}
  BY <1>1 DEF RInv, WorkInv, WorkOK, HostsOf
<1>4. p \in {a[2] : a \in ToSet(list)}
  <2>1. Looked(t).lastUsed + 1 \in DOMAIN list
    BY <1>2, LenProperties
  <2>2. Candidate(t) \in ToSet(list)
    BY <1>2, <2>1 DEF Candidate, ToSet
  <2> QED
    BY <2>2
<1>5. k \in DOMAIN Table /\ Table[k].providers = ToSet(list)
  <2>1. k \in DOMAIN Table
    BY <1>1, <1>2, FoundIsShown DEF ReaderSteps
  <2> QED
    BY <1>1, <2>1, TableEntries
<1>6. <<h, p>> \in Abs!Answers(Table[k])
  BY <1>3, <1>4, <1>5 DEF Abs!Answers
<1>7. Decided' = [Decided EXCEPT ![t] = Found(h, p)]
  BY <1>1, ResultOutcomes, DecidedBecomes
<1>8. Abs!InProgress(t, "lookup")
  BY <1>1, InProgressIf DEF Undecided, ReaderSteps, IInv, CallInv
<1>9. Table' = Table
  BY <1>1 DEF Table
<1>10. \E a \in Abs!Answers(Table[k]) : Decided' = [Decided EXCEPT ![t] = Found(a[1], a[2])]
  <2>1. Decided' = [Decided EXCEPT ![t] = Found(<<h, p>>[1], <<h, p>>[2])]
    BY <1>7
  <2> QED
    BY <1>6, <2>1
<1> QED
  BY <1>1, <1>5, <1>8, <1>9, <1>10, Vocabulary DEF Abs!Lookup, Abs!Finish

LEMMA StoreCursorActs ==
    ASSUME RInv, NEW t \in Threads, StoreCursor(t)
    PROVE  UNCHANGED Abs!vars
<1>1. IInv /\ call' = call /\ result' = result
  BY DEF StoreCursor, RInv
<1>2. /\ DOMAIN services' = DOMAIN services
      /\ \A n \in DOMAIN services :
            /\ services'[n].providers = services[n].providers
            /\ services'[n].signature = services[n].signature
  BY <1>1, StoreCursorEffect
<1>3. /\ Filled(services') = Filled(services)
      /\ \A n \in Filled(services) : Shown(services'[n]) = Shown(services[n])
  BY <1>2 DEF Filled, Shown
<1>4. Table' = Table
  BY <1>3, TableStays
<1> QED
  BY <1>1, <1>4, Stutter

\* The steps that leave the map, the calls and the results alone.
LEMMA OtherActs ==
    ASSUME NEW t \in Threads,
           \/ AwaitExclusive(t) \/ LockExclusive(t) \/ LockShared(t)
           \/ Unlock(t) \/ LoadCursor(t)
    PROVE  UNCHANGED Abs!vars
<1>1. services' = services /\ call' = call /\ result' = result
  BY DEF AwaitExclusive, LockExclusive, LockShared, Unlock, LoadCursor, locals
<1> QED
  BY <1>1, Stutter DEF Table

LEMMA RequestActs ==
    ASSUME RInv, NEW t \in Threads, Request(t)
    PROVE  Abs!Request(t)
<1>1. call[t] = NoCall
  BY DEF Request, RInv, StageInv, StageOK
<1> QED
  BY <1>1, Vocabulary DEF Request, Abs!Request, Table, Decided

LEMMA ReturnActs ==
    ASSUME RInv, NEW t \in Threads, Return(t)
    PROVE  Abs!Return(t)
<1>1. /\ pc[t] = "return" /\ services' = services
      /\ call' = [call EXCEPT ![t] = NoCall]
      /\ result' = [result EXCEPT ![t] = Pending]
      /\ result \in [Threads -> Results]
  BY DEF Return, Finish, RInv, IInv, TypeOK
<1>2. Decided[t].outcome # "pending"
  BY <1>1 DEF RInv, StageInv, StageOK, Undecided, Decided
<1>3. Decided' = [Decided EXCEPT ![t] = Pending]
  BY <1>1, ResultOutcomes DEF Decided
<1> QED
  BY <1>1, <1>2, <1>3, Vocabulary DEF Abs!Return, Table

LEMMA InitiallyActs == Init => Abs!Init
<1> SUFFICES ASSUME Init PROVE Abs!Init
  OBVIOUS
<1>1. Table = [n \in {} |-> Empty]
  BY DEF Init, Table
<1>2. Decided = [t \in Threads |-> Pending]
  BY ResultOutcomes DEF Init, Decided
<1> QED
  BY <1>1, <1>2, Vocabulary DEF Init, Abs!Init, Abs!Empty, Empty

LEMMA StepActs == RInv /\ [Next]_vars => [Abs!Next]_(Abs!vars)
<1> SUFFICES ASSUME RInv, [Next]_vars PROVE Abs!Next \/ UNCHANGED Abs!vars
  OBVIOUS
<1>1. CASE UNCHANGED vars
  BY <1>1, Stutter DEF vars, locals, Table
<1>2. ASSUME NEW t \in Threads,
             Request(t) \/ LockExclusive(t) \/ LockShared(t) \/ Run(t)
      PROVE  Abs!Request(t) \/ Abs!Perform(t) \/ Abs!Return(t) \/ UNCHANGED Abs!vars
  <2>1. CASE Request(t) \/ Enter(t) \/ Return(t)
    BY <2>1, RequestActs, EnterActs, ReturnActs DEF Abs!Perform
  <2>2. CASE LockExclusive(t) \/ LockShared(t) \/ AwaitExclusive(t) \/ Unlock(t)
    BY <2>2, OtherActs
  <2>3. CASE Register(t)
    BY <2>3, InsertActs, AppendProviderActs DEF Register, Abs!Perform
  <2>4. CASE Deregister(t)
    BY <2>4, EraseActs, EraseEntryActs, SweepActs, PurgeActs DEF Deregister, Abs!Perform
  <2>5. CASE Lookup(t)
    BY <2>5, FindActs, ReadHostActs, ReadPortActs, OtherActs, StoreCursorActs
       DEF Lookup, Abs!Perform
  <2> QED
    BY <1>2, <2>1, <2>2, <2>3, <2>4, <2>5 DEF Run
<1> QED
  BY <1>1, <1>2 DEF Next, Abs!Next

-----------------------------------------------------------------------------
(* The theorem.                                                            *)

\* Every operation of registryimpl.cpp acts, between its call and its return,
\* as one step on the abstract table: a refused registration at line 20 or 31,
\* an accepted one at the push_back at line 37, a deregistration where the
\* provider leaves the list or is not found (lines 51-60), a removal of a server
\* after its loop (lines 78-90), a lookup at line 103 when the name is unknown
\* and at line 107 otherwise.  The other steps, and what the
\* threads under the shared lock do to the cursor meanwhile, do not show.
THEOREM ActsAsOne == Spec => ActsAtomically
<1>1. Init => Abs!Init
  BY InitiallyActs
<1>2. RInv /\ [Next]_vars => [Abs!Next]_(Abs!vars)
  BY StepActs
<1> QED
  BY <1>1, <1>2, RInvariance, PTL DEF Spec, ActsAtomically
=============================================================================
