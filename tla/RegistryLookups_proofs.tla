----------------------- MODULE RegistryLookups_proofs -----------------------
(***************************************************************************)
(* Proofs about RegistryLookups, for any number of threads, providers and  *)
(* requests.  The invariant of RegistryImpl is kept, since the history     *)
(* variables only observe its steps; beside it:                            *)
(*   - a lookup that is not marked as overlapped holds the mutex alone;    *)
(*   - what such a lookup has read is the pair under the cursor;           *)
(*   - the providers of the current round are those before the cursor, as  *)
(*     many as the round is long, and never all of the list.               *)
(***************************************************************************)
EXTENDS RegistryLookups, RegistryImpl_proofs

\* How long ago the place x had its turn when the cursor is at last.
Ago(x, last, size) == IF x < last THEN last - x ELSE last - x + size

\* What the last k turns have handed out.
Recent(list, last, k) == {list[i] : i \in {j \in DOMAIN list : Ago(j - 1, last, Len(list)) <= k}}

AloneInv ==
    /\ IsFiniteSet(readers)
    /\ \A t \in readers \ overlapped : readers = {t}

PairInv ==
    \A t \in Threads \ overlapped :
        /\ pc[t] = "readPort" => result[t].host = Candidate(t)[1]
        /\ pc[t] \in {"loadCursor", "storeCursor"} =>
              <<result[t].host, result[t].port>> = Candidate(t)
        /\ pc[t] = "storeCursor" => cursor[t] = Looked(t).lastUsed

RoundInv ==
    \A n \in Names :
        round[n] # {} =>
            /\ n \in DOMAIN services
            /\ \E k \in 0 .. Len(services[n].providers) - 1 :
                  round[n] = Recent(services[n].providers, services[n].lastUsed, k)

HInv == IInv /\ AloneInv /\ PairInv /\ RoundInv

ThreadStep(t) == (Request(t) \/ LockExclusive(t) \/ LockShared(t) \/ Run(t)) /\ Observe(t)

-----------------------------------------------------------------------------
(* Turns of the cursor.                                                    *)

\* No turn at all, and the next one.
LEMMA Turns ==
    ASSUME NEW list \in Seq(Providers), NEW last \in 0 .. Len(list) - 1,
           NEW k \in 0 .. Len(list) - 1, NEW next \in Nat,
           next = IF last + 1 = Len(list) THEN 0 ELSE last + 1
    PROVE  /\ Recent(list, last, 0) = {}
           /\ Recent(list, next, k + 1) = Recent(list, last, k) \cup {list[last + 1]}
           /\ k + 1 = Len(list) => Recent(list, next, k + 1) = ToSet(list)
           /\ IsInjective(list) => list[last + 1] \notin Recent(list, last, k)
<1> DEFINE size == Len(list)
           Before(l, m) == {j \in DOMAIN list : Ago(j - 1, l, size) <= m}
           At(S) == {list[i] : i \in S}
<1>0. /\ last \in 0 .. size - 1 /\ k \in 0 .. size - 1
      /\ next = IF last + 1 = size THEN 0 ELSE last + 1
  OBVIOUS
<1>1. size \in Nat /\ DOMAIN list = 1 .. size /\ last + 1 \in 1 .. size
  BY LenProperties
<1>2. \A l, m : Recent(list, l, m) = At(Before(l, m))
  BY DEF Recent
<1> HIDE DEF size
<1>3. Before(last, 0) = {}
  BY <1>1, <1>0 DEF Ago
<1>4. Before(next, k + 1) = Before(last, k) \cup {last + 1}
  <2>1. ASSUME NEW j \in 1 .. size
        PROVE  Ago(j - 1, next, size) <= k + 1 <=> Ago(j - 1, last, size) <= k \/ j = last + 1
    BY <1>1, <1>0 DEF Ago
  <2> QED
    BY <1>1, <2>1
<1>5. k + 1 = size => Before(next, k + 1) = DOMAIN list
  BY <1>1, <1>0 DEF Ago
<1>6. last + 1 \notin Before(last, k)
  BY <1>1, <1>0 DEF Ago
<1>7. Before(last, k) \subseteq DOMAIN list
  OBVIOUS
<1> HIDE DEF Before
<1>8. Recent(list, last, 0) = {}
  BY <1>2, <1>3
<1>9. Recent(list, next, k + 1) = Recent(list, last, k) \cup {list[last + 1]}
  <2>1. \A S : At(S \cup {last + 1}) = At(S) \cup {list[last + 1]}
    OBVIOUS
  <2> HIDE DEF At
  <2> QED
    BY <1>2, <1>4, <2>1
<1>10. k + 1 = size => Recent(list, next, k + 1) = ToSet(list)
  BY <1>2, <1>5 DEF ToSet
<1>11. IsInjective(list) => list[last + 1] \notin Recent(list, last, k)
  BY <1>1, <1>2, <1>6, <1>7 DEF IsInjective
<1> QED
  BY <1>8, <1>9, <1>10, <1>11 DEF size

-----------------------------------------------------------------------------
(* Who is alone.                                                           *)

LEMMA TwoAreMany ==
    ASSUME NEW S, IsFiniteSet(S), NEW a \in S, NEW b \in S, a # b
    PROVE  Cardinality(S) > 1
<1>1. IsFiniteSet({a, b}) /\ Cardinality({a, b}) = 2
  <2>1. IsFiniteSet({a}) /\ Cardinality({a}) = 1
    BY FS_Singleton
  <2>2. IsFiniteSet({a} \cup {b}) /\ Cardinality({a} \cup {b}) = Cardinality({a}) + 1
    BY <2>1, FS_AddElement
  <2>3. {a} \cup {b} = {a, b}
    OBVIOUS
  <2> QED
    BY <2>1, <2>2, <2>3
<1>2. {a, b} \in SUBSET S
  OBVIOUS
<1>3. Cardinality({a, b}) <= Cardinality(S)
  BY <1>2, FS_Subset
<1>4. Cardinality(S) \in Nat
  BY FS_CardinalityType
<1> QED
  BY <1>1, <1>3, <1>4

LEMMA AloneStep ==
    ASSUME HInv, NEW t \in Threads, ThreadStep(t)
    PROVE  AloneInv'
<1>1. readers' \subseteq readers \cup {t}
  BY DEF ThreadStep, Request, LockExclusive, LockShared, Run, Enter, AwaitExclusive, Unlock,
     Return, Register, Insert, AppendProvider, Deregister, Erase, EraseEntry, Sweep, Purge,
     Lookup, Find, ReadHost, ReadPort, LoadCursor, StoreCursor, mutex
<1>2. IsFiniteSet(readers')
  <2>1. IsFiniteSet(readers \cup {t})
    BY FS_AddElement DEF HInv, AloneInv
  <2>2. readers' \in SUBSET (readers \cup {t})
    BY <1>1
  <2> QED
    BY <2>1, <2>2, FS_Subset
<1>3. ASSUME NEW u \in readers', NEW v \in readers', u # v
      PROVE  readers' \subseteq overlapped'
  <2>1. Cardinality(readers') > 1
    BY <1>2, <1>3, TwoAreMany
  <2> QED
    BY <2>1 DEF ThreadStep, Observe
<1>4. ASSUME NEW u \in readers' \ overlapped'
      PROVE  readers' = {u}
  BY <1>3, <1>4
<1> QED
  BY <1>2, <1>4 DEF AloneInv

\* Only a thread that returns is unmarked.
LEMMA StaysMarked ==
    ASSUME HInv, NEW t \in Threads, ThreadStep(t), NEW u \in Threads, u \notin overlapped',
           u # t \/ pc[t] # "return"
    PROVE  u \notin overlapped
  BY DEF ThreadStep, Observe

\* Whose steps change the map.
LEMMA WhoChanges ==
    ASSUME NEW t \in Threads, ThreadStep(t), services' # services
    PROVE  pc[t] \in WriterSteps \cup {"storeCursor"}
  BY DEF ThreadStep, Request, LockExclusive, LockShared, Run, Enter, AwaitExclusive, Unlock,
     Return, Register, Insert, AppendProvider, Deregister, Erase, EraseEntry, Sweep, Purge,
     Lookup, Find, ReadHost, ReadPort, LoadCursor, StoreCursor, WriterSteps

\* A step leaves what is other threads'.
LEMMA OwnStep ==
    ASSUME IInv, NEW t \in Threads, ThreadStep(t), NEW u \in Threads, u # t
    PROVE  /\ pc'[u] = pc[u] /\ call'[u] = call[u]
           /\ result'[u] = result[u] /\ cursor'[u] = cursor[u]
  BY DEF IInv, TypeOK, ThreadStep, Request, LockExclusive, LockShared, Run, Enter, AwaitExclusive,
     Unlock, Return, Register, Insert, AppendProvider, Deregister, Erase, EraseEntry, Sweep, Purge,
     Lookup, Find, ReadHost, ReadPort, LoadCursor, StoreCursor, GoTo, Finish, locals

-----------------------------------------------------------------------------
(* What a lookup that is alone has read.                                   *)

\* The steps into the locations of PairInv.
LEMMA IntoReading ==
    ASSUME IInv, NEW t \in Threads, ThreadStep(t),
           pc'[t] \in {"readPort", "loadCursor", "storeCursor"}
    PROVE  /\ pc[t] # "return"
           /\ \/ pc'[t] = "readPort" /\ ReadHost(t)
              \/ pc'[t] = "loadCursor" /\ ReadPort(t)
              \/ pc'[t] = "storeCursor" /\ LoadCursor(t)
              \/ pc'[t] = pc[t] /\ UNCHANGED <<services, call, result, cursor>>
<1>1. pc \in [Threads -> Steps]
  BY DEF IInv, TypeOK
<1>2. CASE LockExclusive(t) \/ LockShared(t)
  <2>1. call[t] \in Calls
    BY <1>2 DEF LockExclusive, LockShared, IInv, CallInv
  <2>2. CriticalSection(call[t]) \notin {"readPort", "loadCursor", "storeCursor"}
    BY <2>1, CriticalSectionTypes, CallTypes
  <2> QED
    BY <1>1, <1>2, <2>2 DEF LockExclusive, LockShared, GoTo
<1>3. CASE ~LockExclusive(t) /\ ~LockShared(t)
  BY <1>1, <1>3 DEF ThreadStep, Request, Run, Enter, AwaitExclusive, Unlock, Return, Register, Insert,
     AppendProvider, Deregister, Erase, EraseEntry, Sweep, Purge, Lookup, Find, ReadHost, ReadPort,
     LoadCursor, StoreCursor, GoTo, locals
<1> QED
  BY <1>2, <1>3

LEMMA PairStep ==
    ASSUME HInv, NEW t \in Threads, ThreadStep(t)
    PROVE  PairInv'
<1> SUFFICES ASSUME NEW u \in Threads, u \notin overlapped'
             PROVE  /\ pc'[u] = "readPort" => result'[u].host = Candidate(u)'[1]
                    /\ pc'[u] \in {"loadCursor", "storeCursor"} =>
                          <<result'[u].host, result'[u].port>> = Candidate(u)'
                    /\ pc'[u] = "storeCursor" => cursor'[u] = Looked(u)'.lastUsed
  BY DEF PairInv
<1> SUFFICES ASSUME pc'[u] \in {"readPort", "loadCursor", "storeCursor"}
             PROVE  /\ pc'[u] = "readPort" => result'[u].host = Candidate(u)'[1]
                    /\ pc'[u] \in {"loadCursor", "storeCursor"} =>
                          <<result'[u].host, result'[u].port>> = Candidate(u)'
                    /\ pc'[u] = "storeCursor" => cursor'[u] = Looked(u)'.lastUsed
  OBVIOUS
<1>0. IInv /\ AloneInv /\ PairInv
  BY DEF HInv
<1>1. ASSUME UNCHANGED <<services, call[u]>>
      PROVE  Candidate(u)' = Candidate(u) /\ Looked(u)' = Looked(u)
  BY <1>1 DEF Candidate, Looked
<1>2. CASE u # t
  <2>1. /\ pc'[u] = pc[u] /\ call'[u] = call[u]
        /\ result'[u] = result[u] /\ cursor'[u] = cursor[u]
    BY <1>0, <1>2, OwnStep
  <2>2. u \notin overlapped
    BY <1>2, StaysMarked
  <2>3. u \in readers
    BY <1>0, <2>1 DEF IInv, LockInv, ReaderSteps
  <2>4. readers = {u}
    BY <1>0, <2>2, <2>3 DEF AloneInv
  <2>5. pc[t] \notin WriterSteps /\ pc[t] # "storeCursor"
    BY <1>0, <1>2, <2>4 DEF IInv, LockInv, ReaderSteps
  <2>6. services' = services
    BY <2>5, WhoChanges
  <2> QED
    BY <1>0, <1>1, <2>1, <2>2, <2>6 DEF PairInv
<1>3. CASE u = t
  <2>1. /\ pc[t] # "return"
        /\ \/ pc'[t] = "readPort" /\ ReadHost(t)
           \/ pc'[t] = "loadCursor" /\ ReadPort(t)
           \/ pc'[t] = "storeCursor" /\ LoadCursor(t)
           \/ pc'[t] = pc[t] /\ UNCHANGED <<services, call, result, cursor>>
    BY <1>0, <1>3, IntoReading
  <2>2. t \notin overlapped
    BY <1>3, <2>1, StaysMarked
  <2>3. result \in [Threads -> Results] /\ cursor \in [Threads -> Nat]
    BY <1>0 DEF IInv, TypeOK
  <2>4. CASE pc'[t] = "readPort" /\ ReadHost(t)
    <3>1. result'[t] = [result[t] EXCEPT !.host = Candidate(t)[1]]
      BY <2>3, <2>4 DEF ReadHost
    <3>2. result'[t].host = Candidate(t)[1]
      BY <2>3, <3>1 DEF Results
    <3>3. Candidate(t)' = Candidate(t)
      BY <1>1, <1>3, <2>4 DEF ReadHost
    <3> QED
      BY <1>3, <2>4, <3>2, <3>3
  <2>5. CASE pc'[t] = "loadCursor" /\ ReadPort(t)
    <3>1. result'[t] = Found(result[t].host, Candidate(t)[2]) /\ pc[t] = "readPort"
      BY <2>3, <2>5 DEF ReadPort, Finish
    <3>2. result'[t].host = result[t].host /\ result'[t].port = Candidate(t)[2]
      BY <3>1 DEF Found
    <3>3. result[t].host = Candidate(t)[1]
      BY <1>0, <2>2, <3>1 DEF PairInv
    <3>4. Candidate(t) \in Hosts \X Ports
      BY <1>0, <3>1, Candidates, ProviderAssumption DEF ReaderSteps, EntrySteps
    <3>5. Candidate(t)' = Candidate(t)
      BY <1>1, <1>3, <2>5 DEF ReadPort
    <3> QED
      BY <1>3, <2>5, <3>2, <3>3, <3>4, <3>5
  <2>6. CASE pc'[t] = "storeCursor" /\ LoadCursor(t)
    <3>1. cursor'[t] = Looked(t).lastUsed /\ result' = result /\ pc[t] = "loadCursor"
      BY <2>3, <2>6 DEF LoadCursor
    <3>2. <<result[t].host, result[t].port>> = Candidate(t)
      BY <1>0, <2>2, <3>1 DEF PairInv
    <3>3. Candidate(t)' = Candidate(t) /\ Looked(t)' = Looked(t)
      BY <1>1, <1>3, <2>6 DEF LoadCursor
    <3> QED
      BY <1>3, <2>6, <3>1, <3>2, <3>3
  <2>7. CASE pc'[t] = pc[t] /\ UNCHANGED <<services, call, result, cursor>>
    BY <1>0, <1>1, <1>3, <2>2, <2>7 DEF PairInv
  <2> QED
    BY <2>1, <2>4, <2>5, <2>6, <2>7
<1> QED
  BY <1>2, <1>3

-----------------------------------------------------------------------------
(* The current round.                                                      *)

\* Unless a lookup moves its cursor, an entry with providers stays as it is, or
\* its list has changed.
LEMMA SameList ==
    ASSUME IInv, NEW t \in Threads, ThreadStep(t), ~StoreCursor(t),
           NEW n \in DOMAIN services, services[n].providers # <<>>, Listed(n)' = Listed(n)
    PROVE  n \in DOMAIN services' /\ services'[n] = services[n]
<1>1. services[n].providers \in Seq(Providers) /\ services[n] \in Entries
  BY DEF IInv, TypeOK, Entries
<1>2. Listed(n) = ToSet(services[n].providers) /\ Listed(n) # {}
  BY <1>1, SetOfSequence DEF Listed
<1>3. n \in DOMAIN services' /\ ToSet(services'[n].providers) = ToSet(services[n].providers)
  BY <1>2 DEF Listed
<1>4. CASE services' = services
  BY <1>4
<1>5. CASE Insert(t)
  <2>1. pc[t] = "insert"
    BY <1>5 DEF Insert
  <2>2. ~SameSignature(services[n].signature, AnySignature)
    BY <2>1, EntryIsFilled
  <2> QED
    BY <1>3, <1>5, <2>2 DEF Insert, Put
<1>6. CASE AppendProvider(t)
  <2> DEFINE k == call[t].signature.name
             p == call[t].provider
             list == services[k].providers
  <2>1. CASE services' = [services EXCEPT ![k].providers = Append(@, p)] /\ ~Lists(k, p)
    <3>1. services' = [services EXCEPT ![k] = [services[k] EXCEPT !.providers = Append(list, p)]]
      BY <2>1
    <3>2. CASE n # k
      BY <1>3, <3>1, <3>2 DEF IInv, TypeOK
    <3>3. CASE n = k
      <4>1. services'[n] = [services[n] EXCEPT !.providers = Append(list, p)]
        BY <3>1, <3>3 DEF IInv, TypeOK
      <4>2. services'[n].providers = Append(services[n].providers, p)
        BY <1>1, <3>3, <4>1 DEF Entries
      <4>3. p \in ToSet(services'[n].providers) /\ p \notin ToSet(services[n].providers)
        BY <1>1, <2>1, <3>3, <4>2, SetOfSequence DEF Lists
      <4> QED
        BY <1>3, <4>3
    <3> QED
      BY <3>2, <3>3
  <2> QED
    BY <1>4, <1>6, <2>1 DEF AppendProvider
<1>7. ASSUME NEW p, Lists(n, p), services'[n] = Erased(services[n], p)
      PROVE  FALSE
  <2>1. ToSet(services'[n].providers) = ToSet(services[n].providers) \ {p}
    BY <1>7, ErasedShown
  <2>2. p \in ToSet(services[n].providers)
    BY <1>1, <1>7, SetOfSequence DEF Lists
  <2> QED
    BY <1>3, <2>1, <2>2
<1>8. CASE Erase(t)
  BY <1>3, <1>4, <1>7, <1>8 DEF Erase, Put
<1>9. CASE Sweep(t)
  BY <1>3, <1>7, <1>9 DEF Sweep
<1>10. CASE EraseEntry(t) \/ Purge(t)
  BY <1>3, <1>10 DEF EraseEntry, Purge, Without
<1> QED
  BY <1>4, <1>5, <1>6, <1>8, <1>9, <1>10
     DEF ThreadStep, Run, Register, Deregister, Lookup, Request, LockExclusive, LockShared, Enter,
         AwaitExclusive, Unlock, Return, Find, ReadHost, ReadPort, LoadCursor

\* What StoreCursor does to its entry, and that it does nothing to the others.
LEMMA CursorMoves ==
    ASSUME IInv, NEW t \in Threads, StoreCursor(t), cursor[t] = Looked(t).lastUsed
    PROVE  LET n == call[t].signature.name
               size == Len(services[n].providers)
               last == services[n].lastUsed
           IN  /\ n \in DOMAIN services'
               /\ services'[n].providers = services[n].providers
               /\ services'[n].lastUsed = IF last + 1 = size THEN 0 ELSE last + 1
<1> DEFINE n == call[t].signature.name
           size == Len(services[n].providers)
           last == services[n].lastUsed
           next == IF size > 0 THEN (cursor[t] + 1) % size ELSE 0
<1>1. /\ n \in DOMAIN services /\ services[n] \in Entries
      /\ services[n].providers \in Seq(Providers)
      /\ last \in 0 .. size - 1
  BY Candidates DEF StoreCursor, ReaderSteps, EntrySteps, Looked, Entries
<1>2. services' = [services EXCEPT ![n] = [services[n] EXCEPT !.lastUsed = next]]
  BY DEF StoreCursor, Looked
<1>3. size \in Nat /\ cursor[t] = last
  BY <1>1, LenProperties DEF Looked
<1> HIDE DEF n, size, last
<1>4. next = IF last + 1 = size THEN 0 ELSE last + 1
  <2>1. \A a, b \in Nat : a < b => a % b = a /\ b % b = 0
    OBVIOUS
  <2>2. last \in Nat /\ last + 1 \in Nat /\ (last + 1 = size \/ last + 1 < size) /\ size > 0
    BY <1>1, <1>3
  <2> QED
    BY <1>3, <2>1, <2>2
<1> HIDE DEF next
<1>5. services'[n] = [services[n] EXCEPT !.lastUsed = next] /\ n \in DOMAIN services'
  BY <1>1, <1>2 DEF IInv, TypeOK
<1>6. services'[n].providers = services[n].providers /\ services'[n].lastUsed = next
  BY <1>1, <1>5 DEF Entries
<1> QED
  BY <1>4, <1>5, <1>6 DEF n, size, last

LEMMA OtherCursors ==
    ASSUME IInv, NEW t \in Threads, StoreCursor(t),
           NEW n \in DOMAIN services, n # call[t].signature.name
    PROVE  n \in DOMAIN services' /\ services'[n] = services[n]
  BY DEF StoreCursor, IInv, TypeOK

LEMMA RoundStep ==
    ASSUME HInv, NEW t \in Threads, ThreadStep(t)
    PROVE  RoundInv'
<1> SUFFICES ASSUME NEW n \in Names, round'[n] # {}
             PROVE  /\ n \in DOMAIN services'
                    /\ \E k \in 0 .. Len(services'[n].providers) - 1 :
                          round'[n] = Recent(services'[n].providers, services'[n].lastUsed, k)
  BY DEF RoundInv, Recent, Ago
<1> DEFINE turn == round[n] \cup {<<result[t].host, result[t].port>>}
           mine == pc[t] = "storeCursor" /\ call[t].signature.name = n
<1>0. IInv /\ PairInv /\ RoundInv
  BY DEF HInv
<1>1. /\ Listed(n)' = Listed(n)
      /\ ~mine => round'[n] = round[n]
      /\ mine => t \notin overlapped /\ turn # Listed(n) /\ round'[n] = turn
  BY DEF ThreadStep, Observe, RoundAfter
<1>2. CASE ~mine
  <2>1. n \in DOMAIN services
    BY <1>0, <1>1, <1>2 DEF RoundInv
  <2>2. PICK k \in 0 .. Len(services[n].providers) - 1 :
               round[n] = Recent(services[n].providers, services[n].lastUsed, k)
    BY <1>0, <1>1, <1>2 DEF RoundInv
  <2>3. services[n].providers # <<>>
    <3>1. services[n].providers \in Seq(Providers)
      BY <1>0, <2>1 DEF IInv, TypeOK, Entries
    <3> QED
      BY <2>2, <3>1, EmptySeq
  <2>4. n \in DOMAIN services' /\ services'[n] = services[n]
    <3>1. CASE StoreCursor(t)
      BY <1>0, <1>2, <2>1, <3>1, OtherCursors DEF StoreCursor
    <3>2. CASE ~StoreCursor(t)
      BY <1>0, <1>1, <2>1, <2>3, <3>2, SameList
    <3> QED
      BY <3>1, <3>2
  <2> QED
    BY <1>1, <1>2, <2>2, <2>4
<1>3. CASE mine
  <2> DEFINE list == services[n].providers
             last == services[n].lastUsed
             next == services'[n].lastUsed
  <2>1. StoreCursor(t)
    BY <1>3 DEF ThreadStep, Request, LockExclusive, LockShared, Run, Enter, AwaitExclusive, Unlock,
       Return, Register, Insert, AppendProvider, Deregister, Erase, EraseEntry, Sweep, Purge,
       Lookup, Find, ReadHost, ReadPort, LoadCursor
  <2>2. /\ n \in DOMAIN services /\ services[n] \in Entries /\ Looked(t) = services[n]
        /\ last \in 0 .. Len(list) - 1
    BY <1>0, <1>3, Candidates DEF Looked, ReaderSteps, EntrySteps
  <2>3. list \in Seq(Providers) /\ Len(list) \in Nat
    BY <2>2, LenProperties DEF Entries
  <2>4. cursor[t] = Looked(t).lastUsed /\ turn = round[n] \cup {list[last + 1]}
    BY <1>0, <1>1, <1>3, <2>2 DEF PairInv, Candidate
  <2>5. /\ n \in DOMAIN services' /\ services'[n].providers = list
        /\ next = IF last + 1 = Len(list) THEN 0 ELSE last + 1
    BY <1>0, <1>3, <2>1, <2>4, CursorMoves
  <2>6. Listed(n) = ToSet(list)
    BY <2>2 DEF Listed
  <2> HIDE DEF list, last, next
  <2>7. next \in Nat
    BY <2>2, <2>5
  <2>8. PICK k \in 0 .. Len(list) - 1 : round[n] = Recent(list, last, k)
    <3>1. CASE round[n] = {}
      <4>1. 0 \in 0 .. Len(list) - 1
        BY <2>2, <2>3
      <4>2. Recent(list, last, 0) = {}
        BY <2>2, <2>3, <2>5, <2>7, <4>1, Turns
      <4> QED
        BY <3>1, <4>1, <4>2
    <3>2. CASE round[n] # {}
      BY <1>0, <3>2 DEF RoundInv, list, last
    <3> QED
      BY <3>1, <3>2
  <2>9. /\ turn = Recent(list, next, k + 1)
        /\ k + 1 = Len(list) => turn = ToSet(list)
    BY <2>2, <2>3, <2>4, <2>5, <2>7, <2>8, Turns
  <2>10. k + 1 \in 0 .. Len(list) - 1
    <3>1. k + 1 # Len(list)
      BY <1>1, <1>3, <2>6, <2>9
    <3> QED
      BY <2>3, <2>8, <3>1
  <2> QED
    BY <1>1, <1>3, <2>5, <2>9, <2>10 DEF next
<1> QED
  BY <1>2, <1>3

-----------------------------------------------------------------------------
(* The invariant and what it says.                                         *)

LEMMA HInitially == HistoryInit => HInv
<1> SUFFICES ASSUME HistoryInit PROVE HInv
  OBVIOUS
<1>1. AloneInv
  BY FS_EmptySet DEF HistoryInit, Init, AloneInv
<1>2. PairInv /\ RoundInv
  BY DEF HistoryInit, Init, PairInv, RoundInv
<1> QED
  BY <1>1, <1>2, InitiallyInvariant DEF HInv, HistoryInit

LEMMA HistoryInvariance == HistorySpec => []HInv
<1>1. HInv /\ [HistoryNext]_<<vars, historyVars>> => HInv'
  <2> SUFFICES ASSUME HInv, [HistoryNext]_<<vars, historyVars>> PROVE HInv'
    OBVIOUS
  <2>1. CASE HistoryNext
    <3>1. PICK t \in Threads : ThreadStep(t)
      BY <2>1 DEF HistoryNext, ThreadStep
    <3>2. Next
      BY <3>1 DEF ThreadStep, Next
    <3> QED
      BY <3>1, <3>2, NextKept, AloneStep, PairStep, RoundStep DEF HInv
  <2>2. CASE UNCHANGED <<vars, historyVars>>
    <3>1. UNCHANGED <<services, readers, pc, call, result, cursor, overlapped, round>>
      BY <2>2 DEF vars, mutex, locals, historyVars
    <3>2. IInv'
      BY <2>2, NextKept DEF HInv
    <3>3. AloneInv' /\ PairInv' /\ RoundInv'
      BY <3>1 DEF HInv, AloneInv, PairInv, RoundInv, Candidate, Looked, Recent, Ago
    <3> QED
      BY <3>2, <3>3 DEF HInv
  <2> QED
    BY <2>1, <2>2
<1> QED
  BY <1>1, HInitially, PTL DEF HistorySpec

\* A lookup that no other overlapped hands out a pair that is registered at that
\* moment, whatever earlier races on lastUsed left behind
\* (registryimpl.cpp:106-108).
THEOREM LoneLookupsAnswer == HistorySpec => []LoneAnswerIsRegistered
<1>1. ASSUME HInv, NEW t \in Threads \ overlapped, pc[t] \in {"loadCursor", "storeCursor"}
      PROVE  <<result[t].host, result[t].port>> \in Listed(call[t].signature.name)
  <2>1. /\ call[t].signature.name \in DOMAIN services
        /\ Looked(t) \in Entries
        /\ Looked(t).lastUsed \in 0 .. Len(Looked(t).providers) - 1
    BY <1>1, Candidates DEF HInv, ReaderSteps, EntrySteps
  <2>2. Looked(t).lastUsed + 1 \in DOMAIN Looked(t).providers
    BY <2>1, LenProperties DEF Entries
  <2>3. Candidate(t) \in Listed(call[t].signature.name)
    BY <2>1, <2>2 DEF Candidate, Listed, ToSet, Looked
  <2> QED
    BY <1>1, <2>3 DEF HInv, PairInv
<1>2. HInv => LoneAnswerIsRegistered
  BY <1>1 DEF LoneAnswerIsRegistered
<1> QED
  BY <1>2, HistoryInvariance, PTL

\* Lookups that do not overlap go round the whole list of a name before any of
\* its providers gets another turn, for lists of any length: the cursor's
\* increment modulo the size (registryimpl.cpp:108) visits every place once.
THEOREM RoundsAreFair == HistorySpec => []RoundRobin
<1>1. ASSUME HInv, NEW t \in Threads \ overlapped, pc[t] = "storeCursor"
      PROVE  <<result[t].host, result[t].port>> \notin round[call[t].signature.name]
  <2> DEFINE n == call[t].signature.name
             list == services[n].providers
             last == services[n].lastUsed
  <2>1. /\ n \in DOMAIN services /\ Looked(t) = services[n]
        /\ EntryOK(n, services[n])
        /\ last \in 0 .. Len(list) - 1
    BY <1>1, Candidates DEF HInv, ReaderSteps, EntrySteps, Looked
  <2>2. list \in Seq(Providers) /\ Len(list) \in Nat /\ IsInjective(list) /\ n \in Names
    BY <1>1, <2>1, LenProperties DEF EntryOK, Entries, HInv, IInv, TypeOK
  <2>3. <<result[t].host, result[t].port>> = list[last + 1]
    BY <1>1, <2>1 DEF HInv, PairInv, Candidate
  <2>4. ASSUME round[n] # {}
        PROVE  list[last + 1] \notin round[n]
    <3>1. PICK k \in 0 .. Len(list) - 1 : round[n] = Recent(list, last, k)
      BY <1>1, <2>2, <2>4 DEF HInv, RoundInv
    <3> HIDE DEF list, last
    <3>2. PICK next \in Nat : next = IF last + 1 = Len(list) THEN 0 ELSE last + 1
      BY <2>1, <2>2
    <3> QED
      BY <2>1, <2>2, <3>1, <3>2, Turns
  <2> QED
    BY <2>3, <2>4
<1>2. HInv => RoundRobin
  BY <1>1 DEF RoundRobin
<1> QED
  BY <1>2, HistoryInvariance, PTL
=============================================================================
