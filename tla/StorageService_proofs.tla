------------------------ MODULE StorageService_proofs ------------------------
(***************************************************************************)
(* Proofs about StorageService, for any number of threads, names, images   *)
(* and pieces, and any tree of folders.  The invariant that carries them:  *)
(*   - a thread holds the mutex from its lock to its unlock, exclusively   *)
(*     or shared as its operation demands;                                 *)
(*   - a thread's step fits the operation it was called for;               *)
(*   - a file that is not whole is being written, or its last save failed; *)
(*   - what a load has seen of its file is still so.                       *)
(***************************************************************************)
EXTENDS StorageService, TLAPS

LockInv ==
    /\ \A t \in Threads :
        /\ pc[t] \in WriterSteps => t \in writers
        /\ pc[t] \in ReaderSteps => t \in readers
        /\ pc[t] = "unlock" => t \in writers \cup readers
        /\ pc[t] = "unlock" /\ call[t].op # "save" => t \in readers
    /\ writers # {} => readers = {}
    /\ \A t, u \in writers : t = u

CallInv ==
    \A t \in Threads :
        /\ pc[t] # "idle" => call[t] \in Calls
        /\ pc[t] \in WriterSteps => call[t].op = "save"
        /\ pc[t] \in {"exists", "measure", "read"} => call[t].op = "load"
        /\ pc[t] = "list" => call[t].op = "list"
        /\ pc[t] = "unlock" /\ result[t].outcome = "loaded" => call[t].op = "load"

FileInv ==
    /\ \A n \in Names :
        files[n].image # Missing /\ files[n].pieces # Pieces =>
            n \in cut \/ \E t \in Threads : pc[t] = "write" /\ Name(t) = n
    /\ \A t \in Threads :
        /\ pc[t] = "write" => /\ files[Name(t)].image # Missing
                              /\ files[Name(t)].pieces < Pieces
        /\ pc[t] = "close" => files[Name(t)].pieces = Pieces

LoadInv ==
    \A t \in Threads :
        /\ pc[t] \in {"measure", "read"} => files[Name(t)].image # Missing
        /\ pc[t] = "read" => length[t] = files[Name(t)].pieces

IInv == TypeOK /\ LockInv /\ CallInv /\ FileInv /\ LoadInv /\ LoadsAreWhole

-----------------------------------------------------------------------------

LEMMA CallTypes ==
    ASSUME NEW c \in Calls
    PROVE  /\ c.op \in {"save", "load", "list"}
           /\ c.op # "list" => c.name \in Names
           /\ c.op = "save" => c.image \in Images
  BY DEF Calls

LEMMA ResultTypes ==
    /\ {Pending, Done, Throws} \subseteq Results
    /\ \A i \in Images \cup {Damaged} : Loaded(i) \in Results
    /\ \A names \in SUBSET Names : Listed(names) \in Results
  BY DEF Results, Pending, Done, Throws, Loaded, Listed

LEMMA Initially == Init => IInv
<1> SUFFICES ASSUME Init PROVE IInv
  OBVIOUS
<1>1. TypeOK
  <2>1. NoFile \in Files
    BY StorageAssumption DEF NoFile, Files
  <2>2. Pending \in Results /\ NoCall \in Calls \cup {NoCall} /\ 0 \in 0 .. Pieces
    BY ResultTypes, StorageAssumption
  <2>3. QED
    BY <2>1, <2>2 DEF Init, TypeOK, Nobody
<1>2. LockInv /\ CallInv /\ FileInv /\ LoadInv /\ LoadsAreWhole
  BY DEF Init, Nobody, NoFile, LockInv, CallInv, FileInv, LoadInv, LoadsAreWhole,
         WriterSteps, ReaderSteps
<1>3. QED
  BY <1>1, <1>2 DEF IInv

LEMMA TypeStep == IInv /\ [Next]_vars => TypeOK'
<1> SUFFICES ASSUME IInv, [Next]_vars PROVE TypeOK'
  OBVIOUS
<1> USE DEF IInv, TypeOK, disk, mutex, history
<1>1. CASE UNCHANGED vars
  BY <1>1 DEF vars
<1>2. CASE Crash
  <2>1. NoFile \in Files /\ Pending \in Results /\ 0 \in 0 .. Pieces
    BY ResultTypes, StorageAssumption DEF NoFile, Files
  <2>2. \A t \in Threads : pc[t] \in {"write", "close"} => Name(t) \in Names
    BY CallTypes DEF CallInv, WriterSteps, Name
  <2>3. QED
    BY <1>2, <2>1, <2>2 DEF Crash, Nobody
<1>3. ASSUME NEW t \in Threads,
             Request(t) \/ LockExclusive(t) \/ LockShared(t) \/ Run(t)
      PROVE  TypeOK'
  <2>1. CASE Request(t)
    BY <2>1 DEF Request, GoTo
  <2>2. CASE AwaitExclusive(t)
    BY <2>2 DEF AwaitExclusive
  <2>3. CASE LockExclusive(t)
    BY <2>3 DEF LockExclusive, GoTo, WriterSteps
  <2>4. CASE LockShared(t)
    BY <2>4 DEF LockShared, GoTo, ReaderSteps
  <2>5. CASE Unlock(t)
    BY <2>5 DEF Unlock, GoTo
  <2>6. CASE Return(t)
    BY <2>6, ResultTypes DEF Return, GoTo, Finish
  <2>7. CASE Save(t)
    <3>1. CASE FindFolder(t)
      <4>1. FolderOf[Name(t)] \in Folders
        BY <3>1, CallTypes, StorageAssumption DEF FindFolder, CallInv, WriterSteps, Name
      <4>2. QED
        BY <3>1, <4>1, ResultTypes DEF FindFolder, Failed, GoTo, Finish, WriterSteps
    <3>2. CASE Open(t)
      <4>1. Name(t) \in Names /\ [image |-> call[t].image, pieces |-> 0] \in Files
        BY <3>2, CallTypes, StorageAssumption DEF Open, CallInv, WriterSteps, Name, Files
      <4>2. QED
        BY <3>2, <4>1, ResultTypes DEF Open, Failed, GoTo, Finish, WriterSteps
    <3>3. CASE Write(t)
      <4>1. Name(t) \in Names /\ files[Name(t)].pieces < Pieces /\ files[Name(t)] \in Files
        BY <3>3, CallTypes DEF Write, CallInv, FileInv, WriterSteps, Name
      <4>2. [files[Name(t)] EXCEPT !.pieces = @ + 1] \in Files
        BY <4>1, StorageAssumption DEF Files
      <4>3. NoFile \in Files
        BY StorageAssumption DEF NoFile, Files
      <4>4. files' \in [Names -> Files]
        BY <3>3, <4>1, <4>2 DEF Write
      <4>5. QED
        BY <3>3, <4>1, <4>3, <4>4, ResultTypes
           DEF Write, Forget, Failed, GoTo, Finish, WriterSteps
    <3>4. CASE Close(t)
      <4>1. Name(t) \in Names /\ NoFile \in Files
        BY <3>4, CallTypes, StorageAssumption DEF Close, CallInv, WriterSteps, Name, NoFile, Files
      <4>2. QED
        BY <3>4, <4>1, ResultTypes DEF Close, Forget, GoTo, Finish
    <3>5. QED
      BY <2>7, <3>1, <3>2, <3>3, <3>4 DEF Save
  <2>8. CASE Load(t)
    <3>1. CASE Exists(t)
      BY <3>1, ResultTypes DEF Exists, Failed, GoTo, Finish, ReaderSteps
    <3>2. CASE Measure(t)
      <4>1. files[Name(t)].pieces \in 0 .. Pieces
        BY <3>2, CallTypes DEF Measure, CallInv, Name, Files
      <4>2. QED
        BY <3>2, <4>1, ResultTypes DEF Measure, Failed, GoTo, Finish, ReaderSteps
    <3>3. CASE Read(t)
      <4>1. files[Name(t)].image \in Images
        BY <3>3, CallTypes DEF Read, CallInv, LoadInv, Name, Files
      <4>2. 0 \in 0 .. Pieces
        BY StorageAssumption
      <4>3. QED
        BY <3>3, <4>1, <4>2, ResultTypes DEF Read, GoTo, Finish
    <3>4. QED
      BY <2>8, <3>1, <3>2, <3>3 DEF Load
  <2>9. CASE List(t)
    BY <2>9, ResultTypes DEF List, GoTo, Finish
  <2>10. QED
    BY <1>3, <2>1, <2>2, <2>3, <2>4, <2>5, <2>6, <2>7, <2>8, <2>9 DEF Run
<1>4. QED
  BY <1>1, <1>2, <1>3 DEF Next

-----------------------------------------------------------------------------

LEMMA LockStep == IInv /\ [Next]_vars => LockInv'
<1> SUFFICES ASSUME IInv, [Next]_vars PROVE LockInv'
  OBVIOUS
<1> USE DEF IInv, TypeOK, LockInv, WriterSteps, ReaderSteps
<1>1. CASE UNCHANGED vars
  BY <1>1 DEF vars, mutex
<1>2. CASE Crash
  BY <1>2 DEF Crash, Nobody
<1>3. ASSUME NEW t \in Threads,
             Request(t) \/ LockExclusive(t) \/ LockShared(t) \/ Run(t)
      PROVE  LockInv'
  <2>1. CASE Request(t)
    BY <2>1 DEF Request, GoTo, mutex
  <2>2. CASE AwaitExclusive(t)
    BY <2>2 DEF AwaitExclusive
  <2>3. CASE LockExclusive(t)
    BY <2>3 DEF LockExclusive, GoTo
  <2>4. CASE LockShared(t)
    BY <2>4 DEF LockShared, GoTo
  <2>5. CASE Unlock(t)
    BY <2>5 DEF Unlock, GoTo
  <2>6. CASE Return(t)
    BY <2>6 DEF Return, GoTo, mutex
  <2>7. CASE Save(t)
    <3>1. t \in writers /\ call[t].op = "save" /\ UNCHANGED <<mutex, call>>
      BY <2>7 DEF Save, FindFolder, Open, Write, Close, CallInv
    <3>2. \E step \in {"open", "write", "close", "unlock"} : pc' = [pc EXCEPT ![t] = step]
      BY <2>7 DEF Save, FindFolder, Open, Write, Close, Failed, GoTo
    <3>3. QED
      BY <3>1, <3>2 DEF mutex
  <2>8. CASE Load(t)
    <3>1. t \in readers /\ UNCHANGED <<mutex, call>>
      BY <2>8 DEF Load, Exists, Measure, Read
    <3>2. \E step \in {"measure", "read", "unlock"} : pc' = [pc EXCEPT ![t] = step]
      BY <2>8 DEF Load, Exists, Measure, Read, Failed, GoTo
    <3>3. QED
      BY <3>1, <3>2 DEF mutex
  <2>9. CASE List(t)
    BY <2>9 DEF List, GoTo, mutex
  <2>10. QED
    BY <1>3, <2>1, <2>2, <2>3, <2>4, <2>5, <2>6, <2>7, <2>8, <2>9 DEF Run
<1>4. QED
  BY <1>1, <1>2, <1>3 DEF Next

LEMMA CallStep == IInv /\ [Next]_vars => CallInv'
<1> SUFFICES ASSUME IInv, [Next]_vars PROVE CallInv'
  OBVIOUS
<1> USE DEF IInv, TypeOK, CallInv, WriterSteps, ReaderSteps
<1>1. CASE UNCHANGED vars
  BY <1>1 DEF vars
<1>2. CASE Crash
  BY <1>2 DEF Crash, Nobody
<1>3. ASSUME NEW t \in Threads,
             Request(t) \/ LockExclusive(t) \/ LockShared(t) \/ Run(t)
      PROVE  CallInv'
  <2>1. CASE Request(t)
    BY <2>1 DEF Request, GoTo
  <2>2. CASE AwaitExclusive(t)
    BY <2>2 DEF AwaitExclusive
  <2>3. CASE LockExclusive(t)
    BY <2>3 DEF LockExclusive, GoTo
  <2>4. CASE LockShared(t)
    BY <2>4, CallTypes DEF LockShared, GoTo
  <2>5. CASE Unlock(t)
    BY <2>5 DEF Unlock, GoTo
  <2>6. CASE Return(t)
    BY <2>6 DEF Return, GoTo, Finish, Pending
  <2>7. CASE Save(t)
    <3>1. call[t] \in Calls /\ call[t].op = "save" /\ UNCHANGED call
      BY <2>7 DEF Save, FindFolder, Open, Write, Close
    <3>2. \/ /\ \E step \in {"open", "write", "close"} : pc' = [pc EXCEPT ![t] = step]
             /\ UNCHANGED result
          \/ /\ pc' = [pc EXCEPT ![t] = "unlock"]
             /\ \E r \in {Done, Throws} : result' = [result EXCEPT ![t] = r]
      BY <2>7 DEF Save, FindFolder, Open, Write, Close, Failed, GoTo, Finish
    <3>3. Done.outcome # "loaded" /\ Throws.outcome # "loaded"
      BY DEF Done, Throws
    <3>4. QED
      BY <3>1, <3>2, <3>3
  <2>8. CASE Load(t)
    BY <2>8 DEF Load, Exists, Measure, Read, Failed, GoTo, Finish
  <2>9. CASE List(t)
    BY <2>9 DEF List, GoTo, Finish, Listed, Throws
  <2>10. QED
    BY <1>3, <2>1, <2>2, <2>3, <2>4, <2>5, <2>6, <2>7, <2>8, <2>9 DEF Run
<1>4. QED
  BY <1>1, <1>2, <1>3 DEF Next

\* Whoever is in a step of saveFile is alone among the threads at the files.
LEMMA Alone ==
    ASSUME LockInv, NEW t \in Threads, pc[t] \in WriterSteps,
           NEW u \in Threads, pc[u] \in WriterSteps \cup ReaderSteps \cup {"unlock"}
    PROVE  t = u
  BY DEF LockInv

LEMMA FileStep == IInv /\ [Next]_vars => FileInv'
<1> SUFFICES ASSUME IInv, [Next]_vars PROVE FileInv'
  OBVIOUS
<1> USE DEF IInv, TypeOK, FileInv, Name
<1>1. CASE UNCHANGED vars
  BY <1>1 DEF vars, disk, history
<1>2. CASE Crash
  <2>1. cut' = cut \cup {Name(t) : t \in {u \in Threads : pc[u] \in {"write", "close"}}}
    BY <1>2 DEF Crash
  <2>2. cut \subseteq cut' /\ \A t \in Threads : pc[t] = "write" => Name(t) \in cut'
    BY <2>1
  <2>3. /\ UNCHANGED files
        /\ \A t \in Threads : pc'[t] = "idle"
    BY <1>2 DEF Crash, Nobody, disk
  <2>4. QED
    BY <2>2, <2>3
<1>3. ASSUME NEW t \in Threads,
             Request(t) \/ LockExclusive(t) \/ LockShared(t) \/ Run(t)
      PROVE  FileInv'
  <2>1. CASE Request(t)
    BY <2>1 DEF Request, GoTo, disk, history
  <2>2. CASE AwaitExclusive(t)
    BY <2>2 DEF AwaitExclusive, disk, history
  <2>3. CASE LockExclusive(t)
    BY <2>3 DEF LockExclusive, GoTo, disk, history
  <2>4. CASE LockShared(t)
    BY <2>4 DEF LockShared, GoTo, disk, history
  <2>5. CASE Unlock(t)
    BY <2>5 DEF Unlock, GoTo, disk, history
  <2>6. CASE Return(t)
    BY <2>6 DEF Return, GoTo, disk, history
  <2>7. CASE Save(t)
    <3>1. /\ Name(t) \in Names /\ UNCHANGED call
          /\ \A u \in Threads \ {t} : pc[u] \notin WriterSteps /\ pc'[u] = pc[u]
      BY <2>7, Alone, CallTypes
         DEF Save, FindFolder, Open, Write, Close, Failed, GoTo, CallInv, WriterSteps
    <3>2. CASE FindFolder(t)
      BY <3>1, <3>2 DEF FindFolder, Failed, GoTo, history
    <3>3. CASE Open(t)
      <4>1. CASE Failed(t) /\ UNCHANGED <<files, before, cut>>
        BY <3>1, <3>3, <4>1 DEF Open, Failed, GoTo, WriterSteps
      <4>2. CASE /\ files' = [files EXCEPT ![Name(t)] = [image |-> call[t].image, pieces |-> 0]]
                 /\ GoTo(t, "write") /\ UNCHANGED cut
        <5>1. call[t].image \in Images
          BY <3>3, CallTypes DEF Open, CallInv, WriterSteps
        <5>2. QED
          BY <3>1, <4>2, <5>1, StorageAssumption DEF GoTo, WriterSteps
      <4>3. QED
        BY <3>3, <4>1, <4>2 DEF Open
    <3>4. CASE Write(t)
      <4>1. files[Name(t)] \in Files /\ files[Name(t)].image # Missing
                /\ files[Name(t)].pieces < Pieces
        BY <3>1, <3>4 DEF Write
      <4>2. CASE Failed(t) /\ cut' = cut \cup {Name(t)} /\ UNCHANGED files
        BY <3>1, <4>2 DEF Failed, GoTo, WriterSteps
      <4>3. CASE /\ files' = [files EXCEPT ![Name(t)].pieces = @ + 1]
                 /\ GoTo(t, IF files[Name(t)].pieces + 1 = Pieces THEN "close" ELSE "write")
                 /\ UNCHANGED cut
        <5>1. /\ files'[Name(t)].image # Missing
              /\ files'[Name(t)].pieces = files[Name(t)].pieces + 1
              /\ \A n \in Names \ {Name(t)} : files'[n] = files[n]
          BY <3>1, <4>1, <4>3 DEF Files
        <5>2. files[Name(t)].pieces + 1 = Pieces \/ files[Name(t)].pieces + 1 < Pieces
          <6>1. files[Name(t)].pieces \in Nat /\ Pieces \in Nat
            BY <4>1, StorageAssumption DEF Files
          <6>2. QED
            BY <4>1, <6>1
        <5>3. CASE files[Name(t)].pieces + 1 = Pieces
          BY <3>1, <4>3, <5>1, <5>3 DEF GoTo, WriterSteps
        <5>4. CASE files[Name(t)].pieces + 1 < Pieces
          <6>1. files[Name(t)].pieces + 1 # Pieces
            BY <4>1, <5>4, StorageAssumption DEF Files
          <6>2. pc'[t] = "write" /\ files'[Name(t)].pieces < Pieces
            BY <4>3, <5>1, <5>4, <6>1 DEF GoTo
          <6>3. QED
            BY <3>1, <4>3, <5>1, <6>2 DEF WriterSteps
        <5>5. QED
          BY <5>2, <5>3, <5>4
      <4>4. QED
        BY <3>4, <4>2, <4>3 DEF Write
    <3>5. CASE Close(t)
      BY <3>1, <3>5 DEF Close, GoTo, disk, WriterSteps
    <3>6. QED
      BY <2>7, <3>2, <3>3, <3>4, <3>5 DEF Save
  <2>8. CASE Load(t)
    BY <2>8 DEF Load, Exists, Measure, Read, Failed, GoTo, disk, history
  <2>9. CASE List(t)
    BY <2>9 DEF List, GoTo, disk, history
  <2>10. QED
    BY <1>3, <2>1, <2>2, <2>3, <2>4, <2>5, <2>6, <2>7, <2>8, <2>9 DEF Run
<1>4. QED
  BY <1>1, <1>2, <1>3 DEF Next

LEMMA LoadStep == IInv /\ [Next]_vars => LoadInv' /\ LoadsAreWhole'
<1> SUFFICES ASSUME IInv, [Next]_vars PROVE LoadInv' /\ LoadsAreWhole'
  OBVIOUS
<1> USE DEF IInv, TypeOK, LoadInv, LoadsAreWhole, Name
<1>1. CASE UNCHANGED vars
  BY <1>1 DEF vars, disk, history
<1>2. CASE Crash
  BY <1>2 DEF Crash, Nobody
<1>3. ASSUME NEW t \in Threads,
             Request(t) \/ LockExclusive(t) \/ LockShared(t) \/ Run(t)
      PROVE  LoadInv' /\ LoadsAreWhole'
  <2>1. CASE Request(t)
    BY <2>1 DEF Request, GoTo, disk, history
  <2>2. CASE AwaitExclusive(t)
    BY <2>2 DEF AwaitExclusive, disk, history
  <2>3. CASE LockExclusive(t)
    BY <2>3 DEF LockExclusive, GoTo, disk, history
  <2>4. CASE LockShared(t)
    BY <2>4 DEF LockShared, GoTo, disk, history
  <2>5. CASE Unlock(t)
    BY <2>5 DEF Unlock, GoTo, disk, history
  <2>6. CASE Return(t)
    BY <2>6 DEF Return, GoTo, Finish, disk, history
  <2>7. CASE Save(t)
    <3>1. /\ pc[t] \in WriterSteps /\ UNCHANGED <<call, length>>
          /\ pc' \in [Threads -> {pc[u] : u \in Threads} \cup {"open", "write", "close", "unlock"}]
          /\ \A u \in Threads \ {t} : pc'[u] = pc[u] /\ result'[u] = result[u]
          /\ pc'[t] \in {"open", "write", "close", "unlock"}
          /\ pc'[t] = "unlock" => result'[t] \in {Done, Throws}
      BY <2>7
         DEF Save, FindFolder, Open, Write, Close, Failed, GoTo, Finish, WriterSteps
    <3>2. \A u \in Threads \ {t} : pc[u] \notin WriterSteps \cup ReaderSteps \cup {"unlock"}
      BY <3>1, Alone
    <3>3. Loaded(Damaged) \notin {Done, Throws}
      BY DEF Loaded, Done, Throws
    <3>4. QED
      BY <3>1, <3>2, <3>3 DEF WriterSteps, ReaderSteps
  <2>8. CASE Load(t)
    <3>1. UNCHANGED <<files, cut, call>>
      BY <2>8 DEF Load, Exists, Measure, Read, disk, history
    <3>2. CASE Exists(t)
      BY <3>1, <3>2 DEF Exists, Failed, GoTo, Finish, Loaded, Throws
    <3>3. CASE Measure(t)
      BY <3>1, <3>3 DEF Measure, Failed, GoTo, Finish, Loaded, Throws
    <3>4. CASE Read(t)
      <4>1. Name(t) \in Names /\ files[Name(t)].image \in Images
                /\ length[t] = files[Name(t)].pieces
        BY <3>4, CallTypes DEF Read, CallInv, Files
      <4>2. result'[t] = Loaded(Damaged) => Name(t) \in cut
        <5>1. SUFFICES ASSUME files[Name(t)].pieces # Pieces PROVE Name(t) \in cut
          BY <3>4, <4>1, StorageAssumption DEF Read, Finish, Loaded, Throws
        <5>2. \A u \in Threads : pc[u] # "write"
          BY <3>4, Alone DEF Read, WriterSteps, ReaderSteps
        <5>3. QED
          BY <4>1, <5>1, <5>2, StorageAssumption DEF FileInv
      <4>3. QED
        BY <3>1, <3>4, <4>2 DEF Read, GoTo, Finish
    <3>5. QED
      BY <2>8, <3>2, <3>3, <3>4 DEF Load
  <2>9. CASE List(t)
    BY <2>9 DEF List, GoTo, Finish, disk, history, Listed, Loaded, Throws
  <2>10. QED
    BY <1>3, <2>1, <2>2, <2>3, <2>4, <2>5, <2>6, <2>7, <2>8, <2>9 DEF Run
<1>4. QED
  BY <1>1, <1>2, <1>3 DEF Next

-----------------------------------------------------------------------------

THEOREM Invariance == Spec => []IInv
<1>1. IInv /\ [Next]_vars => IInv'
  BY TypeStep, LockStep, CallStep, FileStep, LoadStep DEF IInv
<1>2. QED
  BY Initially, <1>1, PTL DEF Spec

\* The files, the mutex and the calls keep their types: no write makes a file
\* longer than its image, and every operation ends with one of its results.
THEOREM TypeCorrect == Spec => []TypeOK
<1>1. IInv => TypeOK
  BY DEF IInv
<1>2. QED
  BY Invariance, <1>1, PTL

\* However many threads the pool has, whoever is inside saveFile is alone there:
\* no save, load or list of another thread is under way
\* (storageservice.cpp:32, 71 and 92).
THEOREM MutualExclusion == Spec => []SaversAreAlone
<1>1. IInv => SaversAreAlone
  BY Alone DEF IInv, SaversAreAlone
<1>2. QED
  BY Invariance, <1>1, PTL

\* No load returns part of an image unless the last save of that name failed or
\* was cut short by the provider's end: the truncation in saveFile is never seen.
THEOREM WholeLoads == Spec => []LoadsAreWhole
<1>1. IInv => LoadsAreWhole
  BY DEF IInv
<1>2. QED
  BY Invariance, <1>1, PTL

\* What a successful save leaves is the whole image, and stays so until the next
\* save of that name, whatever happens to the provider in between.
THEOREM WholeFiles == Spec => []FilesAreWhole
<1>1. IInv => FilesAreWhole
  BY DEF IInv, FileInv, LockInv, WriterSteps, FilesAreWhole
<1>2. QED
  BY Invariance, <1>1, PTL

-----------------------------------------------------------------------------
(***************************************************************************)
(* The refinement of ImageStore.  A save takes effect when it closes the   *)
(* file or fails, a load when it has read, a list when it has listed; the  *)
(* other steps are stutters.  Besides the invariant above this needs that  *)
(* a call has a result exactly from its critical section's end to its      *)
(* return, and that a file under work holds the image of the save at work. *)
(***************************************************************************)

ResultInv ==
    \A t \in Threads :
        /\ pc[t] = "idle" <=> call[t] = NoCall
        /\ pc[t] \in {"unlock", "return"} <=> result[t] # Pending

SaveInv ==
    \A t \in Threads :
        pc[t] \in {"write", "close"} => files[Name(t)].image = call[t].image

RInv == IInv /\ ResultInv /\ SaveInv

LEMMA Distinct ==
    /\ Done # Pending /\ Throws # Pending
    /\ \A i : Loaded(i) # Pending /\ Listed(i) # Pending
    /\ NoCall \notin Calls
<1>1. NoCall.op \notin {"save", "load", "list"}
  BY DEF NoCall
<1>2. QED
  BY <1>1, CallTypes DEF Done, Throws, Pending, Loaded, Listed

LEMMA RInitially == Init => RInv
<1>1. Init => ResultInv /\ SaveInv
  BY Distinct DEF Init, Nobody, ResultInv, SaveInv
<1>2. QED
  BY Initially, <1>1 DEF RInv

LEMMA ResultStep == IInv /\ ResultInv /\ [Next]_vars => ResultInv'
<1> SUFFICES ASSUME IInv, ResultInv, [Next]_vars PROVE ResultInv'
  OBVIOUS
<1> USE Distinct DEF IInv, TypeOK, ResultInv
<1>1. CASE UNCHANGED vars
  BY <1>1 DEF vars
<1>2. CASE Crash
  BY <1>2 DEF Crash, Nobody
<1>3. ASSUME NEW t \in Threads,
             Request(t) \/ LockExclusive(t) \/ LockShared(t) \/ Run(t)
      PROVE  ResultInv'
  <2>1. CASE Request(t)
    BY <2>1 DEF Request, GoTo
  <2>2. CASE AwaitExclusive(t) \/ LockExclusive(t) \/ LockShared(t) \/ Unlock(t)
    BY <2>2 DEF AwaitExclusive, LockExclusive, LockShared, Unlock, GoTo
  <2>3. CASE Return(t)
    BY <2>3 DEF Return, GoTo, Finish
  <2>4. CASE Save(t)
    BY <2>4 DEF Save, FindFolder, Open, Write, Close, Failed, GoTo, Finish
  <2>5. CASE Load(t)
    BY <2>5 DEF Load, Exists, Measure, Read, Failed, GoTo, Finish
  <2>6. CASE List(t)
    BY <2>6 DEF List, GoTo, Finish
  <2>7. QED
    BY <1>3, <2>1, <2>2, <2>3, <2>4, <2>5, <2>6 DEF Run
<1>4. QED
  BY <1>1, <1>2, <1>3 DEF Next

LEMMA SaveStep == IInv /\ SaveInv /\ [Next]_vars => SaveInv'
<1> SUFFICES ASSUME IInv, SaveInv, [Next]_vars PROVE SaveInv'
  OBVIOUS
<1> USE DEF IInv, TypeOK, SaveInv, Name
<1>1. CASE UNCHANGED vars
  BY <1>1 DEF vars, disk
<1>2. CASE Crash
  BY <1>2 DEF Crash, Nobody
<1>3. ASSUME NEW t \in Threads,
             Request(t) \/ LockExclusive(t) \/ LockShared(t) \/ Run(t)
      PROVE  SaveInv'
  <2>1. CASE Request(t)
    BY <2>1 DEF Request, GoTo, disk
  <2>2. CASE AwaitExclusive(t) \/ LockExclusive(t) \/ LockShared(t) \/ Unlock(t)
    BY <2>2 DEF AwaitExclusive, LockExclusive, LockShared, Unlock, GoTo, disk
  <2>3. CASE Return(t)
    BY <2>3 DEF Return, GoTo, disk
  <2>4. CASE Save(t)
    <3>1. /\ Name(t) \in Names /\ UNCHANGED call
          /\ \A u \in Threads \ {t} : pc[u] \notin WriterSteps /\ pc'[u] = pc[u]
      BY <2>4, Alone, CallTypes
         DEF Save, FindFolder, Open, Write, Close, Failed, GoTo, CallInv, WriterSteps
    <3>2. CASE FindFolder(t) \/ Close(t)
      BY <3>1, <3>2 DEF FindFolder, Close, Failed, GoTo, disk, WriterSteps
    <3>3. CASE Open(t)
      BY <3>1, <3>3 DEF Open, Failed, GoTo, WriterSteps
    <3>4. CASE Write(t)
      <4>1. files[Name(t)] \in Files
        BY <3>1
      <4>2. files'[Name(t)].image = files[Name(t)].image
        BY <3>1, <3>4, <4>1 DEF Write, Files
      <4>3. QED
        BY <3>1, <3>4, <4>2 DEF Write, Failed, GoTo, WriterSteps
    <3>5. QED
      BY <2>4, <3>2, <3>3, <3>4 DEF Save
  <2>5. CASE Load(t)
    BY <2>5 DEF Load, Exists, Measure, Read, Failed, GoTo, disk
  <2>6. CASE List(t)
    BY <2>6 DEF List, GoTo, disk
  <2>7. QED
    BY <1>3, <2>1, <2>2, <2>3, <2>4, <2>5, <2>6 DEF Run
<1>4. QED
  BY <1>1, <1>2, <1>3 DEF Next

LEMMA RInvariance == Spec => []RInv
<1>1. IInv /\ [Next]_vars => IInv'
  BY TypeStep, LockStep, CallStep, FileStep, LoadStep DEF IInv
<1>2. RInv /\ [Next]_vars => RInv'
  BY <1>1, ResultStep, SaveStep DEF RInv
<1>3. QED
  BY RInitially, <1>2, PTL DEF Spec

-----------------------------------------------------------------------------
(* The mapping.                                                            *)

Mapped == [n \in Names |-> Stored(n)]

\* The save at work on a name is unique, and Stored is what was there before it.
StoredFacts ==
    \A n \in Names :
        /\ \A t \in Threads : Saving(t, n) => Stored(n) = Content(before[t])
        /\ (\A t \in Threads : ~Saving(t, n)) => Stored(n) = Content(files[n])

LEMMA StoredNow == IInv => StoredFacts
<1> SUFFICES ASSUME IInv, NEW n \in Names
             PROVE  /\ \A t \in Threads : Saving(t, n) => Stored(n) = Content(before[t])
                    /\ (\A t \in Threads : ~Saving(t, n)) => Stored(n) = Content(files[n])
  BY DEF StoredFacts
<1>1. ASSUME NEW t \in Threads, Saving(t, n)
      PROVE  Stored(n) = Content(before[t])
  <2>1. \A u \in Threads : Saving(u, n) => u = t
    BY <1>1, Alone DEF IInv, Saving, WriterSteps
  <2>2. (CHOOSE u \in Threads : Saving(u, n)) = t
    BY <1>1, <2>1
  <2>3. QED
    BY <1>1, <2>2 DEF Stored
<1>2. ASSUME \A t \in Threads : ~Saving(t, n)
      PROVE  Stored(n) = Content(files[n])
  BY <1>2 DEF Stored
<1>3. QED
  BY <1>1, <1>2

LEMMA StoredNext == IInv' => StoredFacts'
  BY StoredNow, PTL

LEMMA ContentTypes ==
    ASSUME NEW file \in Files
    PROVE  Content(file) \in Images \cup {Missing, Damaged}
  BY DEF Content, Files

LEMMA RefinesInitially == Init => Store!Init
<1> SUFFICES ASSUME Init PROVE Store!Init
  OBVIOUS
<1>1. \A n \in Names : Stored(n) = Missing
  BY DEF Init, Nobody, Stored, Saving, Content, NoFile
<1>2. QED
  BY <1>1 DEF Init, Nobody, Store!Init, Store!NoCall, Store!Pending, NoCall, Pending

\* A step that leaves the disk and what is being saved alone.
LEMMA SameStored ==
    ASSUME IInv, IInv', UNCHANGED <<files, before>>,
           \A t \in Threads, n \in Names : Saving(t, n)' <=> Saving(t, n)
    PROVE  UNCHANGED Mapped
<1>1. ASSUME NEW n \in Names PROVE Stored(n)' = Stored(n)
  <2>1. CASE \E t \in Threads : Saving(t, n)
    <3>1. PICK t \in Threads : Saving(t, n)
      BY <2>1
    <3>2. QED
      BY <3>1, StoredNow, StoredNext DEF StoredFacts, Content
  <2>2. CASE \A t \in Threads : ~Saving(t, n)
    BY <2>2, StoredNow, StoredNext DEF StoredFacts, Content
  <2>3. QED
    BY <2>1, <2>2
<1>2. QED
  BY <1>1 DEF Mapped

\* The steps of saveFile: those before the last are stutters.
LEMMA SaveRefines ==
    ASSUME RInv, RInv', NEW t \in Threads, Save(t)
    PROVE  Store!Save(t) \/ UNCHANGED Store!vars
<1> DEFINE n == Name(t)
<1>1. TypeOK /\ IInv /\ IInv' /\ LockInv
  BY DEF RInv, IInv
<1>2. /\ call[t] \in Calls /\ call[t].op = "save" /\ UNCHANGED call
      /\ pc[t] \in WriterSteps
  BY <1>1 DEF Save, FindFolder, Open, Write, Close, IInv, CallInv, WriterSteps
<1>3. n \in Names /\ call[t].image \in Images /\ Name(t)' = n
  BY <1>2, CallTypes DEF Name
<1>4. Store!InProgress(t, "save")
  BY <1>2 DEF RInv, ResultInv, WriterSteps, Store!InProgress, Store!Pending, Pending
<1>5. \A u \in Threads \ {t}, m \in Names : ~Saving(u, m) /\ ~Saving(u, m)'
  <2>1. \A u \in Threads \ {t} : pc[u] \notin WriterSteps /\ pc'[u] = pc[u]
    BY <1>1, <1>2, Alone DEF Save, FindFolder, Open, Write, Close, Failed, GoTo, TypeOK
  <2>2. QED
    BY <2>1 DEF Saving, WriterSteps
<1>6. ASSUME Finish(t, Throws), NEW i \in {Mapped[n], Damaged, call[t].image},
             Mapped' = [Mapped EXCEPT ![n] = i]
      PROVE  Store!Save(t)
  BY <1>2, <1>4, <1>6 DEF Finish, Throws, Mapped, Name, Store!Save, Store!Finish, Store!Throws
<1>7. ASSUME UNCHANGED Mapped, Finish(t, Throws)
      PROVE  Store!Save(t)
  <2>1. Mapped' = [Mapped EXCEPT ![n] = Mapped[n]]
    BY <1>7 DEF Mapped
  <2>2. QED
    BY <1>6, <1>7, <2>1
<1>8. ASSUME UNCHANGED Mapped, UNCHANGED result
      PROVE  UNCHANGED Store!vars
  BY <1>2, <1>8 DEF Mapped, Store!vars
<1>9. ASSUME \A m \in Names \ {n} : files'[m] = files[m],
             NEW i, Stored(n)' = i
      PROVE  Mapped' = [Mapped EXCEPT ![n] = i]
  <2>1. \A m \in Names \ {n} : Stored(m)' = Stored(m)
    <3>1. \A m \in Names \ {n} : ~Saving(t, m) /\ ~Saving(t, m)'
      BY <1>3 DEF Saving
    <3>2. QED
      BY <1>1, <1>5, <1>9, <3>1, StoredNow, StoredNext DEF StoredFacts, Content
  <2>2. QED
    BY <1>3, <1>9, <2>1 DEF Mapped
<1>10. CASE FindFolder(t)
  <2>1. \A u \in Threads, m \in Names : Saving(u, m)' <=> Saving(u, m)
    BY <1>1, <1>5, <1>10 DEF FindFolder, Failed, GoTo, Saving, TypeOK
  <2>2. UNCHANGED Mapped
    BY <1>1, <1>10, <2>1, SameStored DEF FindFolder, history
  <2>3. QED
    BY <1>7, <1>8, <1>10, <2>2 DEF FindFolder, Failed
<1>11. CASE Open(t)
  <2>1. ~Saving(t, n) /\ Stored(n) = Content(files[n])
    <3>1. \A u \in Threads : ~Saving(u, n)
      BY <1>3, <1>5, <1>11 DEF Open, Saving
    <3>2. QED
      BY <1>1, <1>3, <3>1, StoredNow DEF StoredFacts
  <2>2. CASE Failed(t) /\ UNCHANGED <<files, before, cut>>
    <3>1. \A u \in Threads, m \in Names : Saving(u, m)' <=> Saving(u, m)
      BY <1>1, <1>5, <1>11, <2>2 DEF Open, Failed, GoTo, Saving, TypeOK
    <3>2. QED
      BY <1>1, <1>7, <2>2, <3>1, SameStored DEF Failed
  <2>3. CASE /\ files' = [files EXCEPT ![Name(t)] = [image |-> call[t].image, pieces |-> 0]]
             /\ before' = [before EXCEPT ![t] = files[Name(t)]]
             /\ GoTo(t, "write") /\ UNCHANGED <<result, cut>>
    <3>1. Saving(t, n)' /\ before'[t] = files[n]
      BY <1>1, <1>3, <2>3 DEF GoTo, Saving, TypeOK
    <3>2. Stored(n)' = Stored(n)
      BY <1>1, <1>3, <2>1, <3>1, StoredNext DEF StoredFacts, Content
    <3>3. \A m \in Names \ {n} : files'[m] = files[m]
      BY <1>1, <2>3 DEF TypeOK
    <3>4. Mapped' = [Mapped EXCEPT ![n] = Stored(n)]
      BY <1>9, <3>2, <3>3
    <3>5. UNCHANGED Mapped
      BY <1>3, <3>4 DEF Mapped
    <3>6. QED
      BY <1>8, <2>3, <3>5
  <2>4. QED
    BY <1>11, <2>2, <2>3 DEF Open
<1>12. CASE Write(t)
  <2>1. Saving(t, n) /\ Stored(n) = Content(before[t])
    BY <1>1, <1>3, <1>12, StoredNow DEF Write, Saving, StoredFacts
  <2>2. CASE Failed(t) /\ Forget(t) /\ cut' = cut \cup {Name(t)} /\ UNCHANGED files
    <3>1. \A u \in Threads : ~Saving(u, n)'
      BY <1>1, <1>3, <1>5, <2>2 DEF Failed, GoTo, Saving, TypeOK
    <3>2. files[n].image # Missing /\ files[n].pieces # Pieces
      BY <1>1, <1>3, <1>12, StorageAssumption DEF Write, IInv, FileInv, TypeOK, Files
    <3>3. Stored(n)' = Damaged
      BY <1>1, <1>3, <2>2, <3>1, <3>2, StoredNext DEF StoredFacts, Content
    <3>4. Mapped' = [Mapped EXCEPT ![n] = Damaged]
      BY <1>9, <2>2, <3>3
    <3>5. QED
      BY <1>6, <2>2, <3>4 DEF Failed
  <2>3. CASE /\ files' = [files EXCEPT ![Name(t)].pieces = @ + 1]
             /\ \E step \in {"write", "close"} : GoTo(t, step)
             /\ UNCHANGED <<result, cut, before>>
    <3>1. Saving(t, n)'
      BY <1>1, <1>3, <2>3 DEF GoTo, Saving, TypeOK
    <3>2. Stored(n)' = Stored(n)
      BY <1>1, <1>3, <2>1, <2>3, <3>1, StoredNext DEF StoredFacts, Content
    <3>3. \A m \in Names \ {n} : files'[m] = files[m]
      BY <1>1, <2>3 DEF TypeOK
    <3>4. Mapped' = [Mapped EXCEPT ![n] = Stored(n)]
      BY <1>9, <3>2, <3>3
    <3>5. UNCHANGED Mapped
      BY <1>3, <3>4 DEF Mapped
    <3>6. QED
      BY <1>8, <2>3, <3>5
  <2>4. QED
    BY <1>12, <2>2, <2>3 DEF Write
<1>13. CASE Close(t)
  <2>1. \A u \in Threads : ~Saving(u, n)'
    BY <1>1, <1>3, <1>5, <1>13 DEF Close, GoTo, Saving, TypeOK
  <2>2. files[n].pieces = Pieces /\ files[n].image = call[t].image
    BY <1>1, <1>13 DEF Close, IInv, FileInv, RInv, SaveInv
  <2>3. UNCHANGED files
    BY <1>13 DEF Close, disk
  <2>4. Stored(n)' = call[t].image
    BY <1>1, <1>3, <2>1, <2>2, <2>3, StoredNext DEF StoredFacts, Content
  <2>5. Mapped' = [Mapped EXCEPT ![n] = call[t].image]
    BY <1>9, <2>3, <2>4
  <2>6. CASE Finish(t, Throws)
    BY <1>6, <2>5, <2>6
  <2>7. CASE Finish(t, Done)
    BY <1>2, <1>4, <2>5, <2>7 DEF Finish, Done, Mapped, Name, Store!Save, Store!Finish, Store!Done
  <2>8. QED
    BY <1>13, <2>6, <2>7 DEF Close
<1>14. QED
  BY <1>10, <1>11, <1>12, <1>13 DEF Save

LEMMA RefinesStep == RInv /\ RInv' /\ [Next]_vars => [Store!Next]_(Store!vars)
<1> SUFFICES ASSUME RInv, RInv', [Next]_vars PROVE [Store!Next]_(Store!vars)
  OBVIOUS
<1> USE DEF RInv
<1>a. TypeOK /\ IInv /\ IInv'
  BY DEF IInv
<1>1. CASE UNCHANGED vars
  <2>1. \A t \in Threads, n \in Names : Saving(t, n)' <=> Saving(t, n)
    BY <1>1 DEF vars, Saving, Name
  <2>2. UNCHANGED <<Mapped, call, result>>
    BY <1>1, <1>a, <2>1, SameStored DEF vars, disk, history
  <2>3. QED
    BY <2>2 DEF Store!vars, Mapped
<1>2. CASE Crash
  <2>1. ASSUME NEW n \in Names
        PROVE  /\ Stored(n)' \in Images \cup {Missing, Damaged}
               /\ Stored(n)' \in {Stored(n)} \cup UNION {{Damaged, call[t].image} : t \in
                     {u \in Threads : Store!InProgress(u, "save") /\ call[u].name = n}}
    <3>1. Stored(n)' = Content(files[n])
      BY <1>2, <1>a, StoredNext DEF StoredFacts, Crash, Nobody, Saving, Content, disk
    <3>2. CASE \A t \in Threads : ~Saving(t, n)
      BY <1>a, <3>1, <3>2, StoredNow, ContentTypes DEF StoredFacts, TypeOK
    <3>3. CASE \E t \in Threads : Saving(t, n)
      <4>1. PICK t \in Threads : Saving(t, n)
        BY <3>3
      <4>2. call[t].op = "save" /\ call[t].name = n /\ result[t] = Pending
        BY <1>a, <4>1 DEF IInv, CallInv, ResultInv, Saving, Name, WriterSteps
      <4>3. Store!InProgress(t, "save")
        BY <4>2 DEF Store!InProgress, Store!Pending, Pending
      <4>4. files[n].image = call[t].image
        BY <4>1, <4>2 DEF SaveInv, Saving, Name
      <4>5. Content(files[n]) \in {Damaged, call[t].image}
        BY <4>4 DEF Content
      <4>6. QED
        BY <1>a, <3>1, <4>2, <4>3, <4>5, ContentTypes DEF TypeOK
    <3>4. QED
      BY <3>2, <3>3
  <2>2. Store!Crash
    BY <1>2, <2>1 DEF Crash, Nobody, Store!Crash, Store!CutShort, Store!NoCall, Store!Pending,
       NoCall, Pending
  <2>3. QED
    BY <2>2 DEF Store!Next
<1>3. ASSUME NEW t \in Threads,
             Request(t) \/ LockExclusive(t) \/ LockShared(t) \/ Run(t)
      PROVE  [Store!Next]_(Store!vars)
  <2>1. CASE Request(t)
    <3>1. UNCHANGED Mapped
      <4>1. \A u \in Threads, n \in Names : Saving(u, n)' <=> Saving(u, n)
        BY <1>a, <2>1 DEF Request, GoTo, Saving, Name, TypeOK
      <4>2. QED
        BY <1>a, <2>1, <4>1, SameStored DEF Request, disk, history
    <3>2. Store!Request(t)
      BY <2>1, <3>1 DEF Request, ResultInv, Mapped, Store!Request, Store!NoCall, NoCall,
         Store!Calls, Calls
    <3>3. QED
      BY <3>2 DEF Store!Next
  <2>2. CASE AwaitExclusive(t) \/ LockExclusive(t) \/ LockShared(t) \/ Unlock(t)
    <3>1. \A u \in Threads, n \in Names : Saving(u, n)' <=> Saving(u, n)
      BY <1>a, <2>2 DEF AwaitExclusive, LockExclusive, LockShared, Unlock, GoTo, Saving, Name,
         TypeOK
    <3>2. UNCHANGED <<files, before, call, result>>
      BY <2>2 DEF AwaitExclusive, LockExclusive, LockShared, Unlock, disk, history
    <3>3. QED
      BY <1>a, <3>1, <3>2, SameStored DEF Mapped, Store!vars
  <2>3. CASE Return(t)
    <3>1. \A u \in Threads, n \in Names : Saving(u, n)' <=> Saving(u, n)
      BY <1>a, <2>3 DEF Return, GoTo, Saving, Name, TypeOK
    <3>2. UNCHANGED Mapped
      BY <1>a, <2>3, <3>1, SameStored DEF Return, disk, history
    <3>3. Store!Return(t)
      BY <2>3, <3>2 DEF Return, Finish, ResultInv, Mapped, Store!Return, Store!Finish,
         Store!NoCall, NoCall, Store!Pending, Pending
    <3>4. QED
      BY <3>3 DEF Store!Next
  <2>4. CASE Save(t)
    BY <1>a, <2>4, SaveRefines DEF Store!Next
  <2>5. CASE Load(t)
    <3>1. UNCHANGED <<files, before, call>> /\ call[t].op = "load"
      BY <1>a, <2>5 DEF Load, Exists, Measure, Read, disk, history, IInv, CallInv
    <3>2. UNCHANGED Mapped
      <4>1. \A u \in Threads, n \in Names : Saving(u, n)' <=> Saving(u, n)
        BY <1>a, <2>5 DEF Load, Exists, Measure, Read, Failed, GoTo, Saving, Name, TypeOK
      <4>2. QED
        BY <1>a, <3>1, <4>1, SameStored
    <3>3. Store!InProgress(t, "load")
      BY <2>5, <3>1 DEF Load, Exists, Measure, Read, ResultInv, Store!InProgress,
         Store!Pending, Pending
    <3>4. CASE Finish(t, Throws)
      BY <3>1, <3>2, <3>3, <3>4 DEF Finish, Throws, Mapped, Store!Finish, Store!Throws,
         Store!Load, Store!Next
    <3>5. CASE UNCHANGED result
      BY <3>1, <3>2, <3>5 DEF Mapped, Store!vars
    <3>6. CASE Read(t) /\ ~Finish(t, Throws)
      <4>1. Name(t) \in Names
        BY <1>a, <3>1, <3>6, CallTypes DEF Read, IInv, CallInv, Name
      <4>2. \A u \in Threads : ~Saving(u, Name(t))
        BY <1>a, <3>6, Alone DEF Read, IInv, Saving, WriterSteps, ReaderSteps
      <4>3. Stored(Name(t)) = Content(files[Name(t)])
        BY <1>a, <4>1, <4>2, StoredNow DEF StoredFacts
      <4>4. files[Name(t)].image # Missing /\ files[Name(t)].image \in Images
                /\ length[t] = files[Name(t)].pieces
        BY <1>a, <3>6, <4>1 DEF Read, IInv, LoadInv, TypeOK, Files
      <4>5. Stored(Name(t)) # Missing /\ Finish(t, Loaded(Stored(Name(t))))
        BY <3>6, <4>3, <4>4, StorageAssumption DEF Read, Content
      <4>6. Store!Load(t)
        BY <3>1, <3>2, <3>3, <4>1, <4>5 DEF Finish, Loaded, Mapped, Name, Store!Finish,
           Store!Loaded, Store!Load
      <4>7. QED
        BY <4>6 DEF Store!Next
    <3>7. QED
      BY <2>5, <3>4, <3>5, <3>6 DEF Load, Exists, Measure, Read, Failed
  <2>6. CASE List(t)
    <3>1. \A u \in Threads, n \in Names : ~Saving(u, n)
      BY <1>a, <2>6, Alone DEF List, IInv, Saving, WriterSteps, ReaderSteps
    <3>2. \A u \in Threads, n \in Names : Saving(u, n)' <=> Saving(u, n)
      BY <1>a, <2>6 DEF List, GoTo, Saving, Name, TypeOK
    <3>3. UNCHANGED Mapped
      BY <1>a, <2>6, <3>2, SameStored DEF List, disk, history
    <3>4. \A n \in Names : Stored(n) # Missing <=> files[n].image # Missing
      BY <1>a, <3>1, StoredNow, StorageAssumption DEF StoredFacts, Content
    <3>5. Store!List(t)
      <4>1. {n \in Names : Mapped[n] # Missing} = {n \in Names : files[n].image # Missing}
        BY <3>4 DEF Mapped
      <4>2. Store!InProgress(t, "list")
        BY <1>a, <2>6 DEF List, IInv, CallInv, ResultInv, Store!InProgress, Store!Pending, Pending
      <4>3. QED
        BY <2>6, <3>3, <4>1, <4>2 DEF List, Finish, Listed, Throws, Mapped, Store!List, Store!Finish,
           Store!Listed, Store!Throws
    <3>6. QED
      BY <3>5 DEF Store!Next
  <2>7. QED
    BY <1>3, <2>1, <2>2, <2>3, <2>4, <2>5, <2>6 DEF Run
<1>4. QED
  BY <1>1, <1>2, <1>3 DEF Next

\* Saves, loads and lists behave as if they took effect one by one on a map from
\* names to images, and the provider's end harms only what was being saved
\* (storageservice.cpp), for any pool, names and images.
THEOREM Refinement == Spec => RefinesImageStore
<1>1. RInv /\ RInv' /\ [Next]_vars => [Store!Next]_(Store!vars)
  BY RefinesStep
<1>2. QED
  BY RefinesInitially, RInvariance, <1>1, PTL DEF Spec, RefinesImageStore, Store!Spec
=============================================================================
