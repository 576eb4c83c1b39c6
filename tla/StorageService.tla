---------------------------- MODULE StorageService ----------------------------
(***************************************************************************)
(* The storage of the storage provider                                     *)
(* (ssoa-storageprovider/src/storageservice.cpp): files under one folder,  *)
(* shared by the threads of the pool under a boost::shared_mutex that      *)
(* saveFile holds exclusively, loadFile and getList shared.  The three     *)
(* services of the provider are calls of these operations.                 *)
(*                                                                         *)
(* A file is truncated when it is opened for writing and then written      *)
(* piece by piece; every access of the disk may fail, and the provider may *)
(* end between any two.  Files and folders outlive it.                     *)
(***************************************************************************)
EXTENDS Integers, FiniteSets

CONSTANTS
    Threads,   \* the threads of the pool
    Names,     \* the names of images, which are relative paths
    Images,    \* what is stored under them
    Folders,   \* the storage's folder and the folders in it
    FolderOf,  \* name -> the folder its file is in
    Parent,    \* folder -> the folder it is in, NoFolder for the storage's own
    NoFolder,
    Pieces,    \* bound: in how many pieces an image is written
    Missing, Damaged

ASSUME StorageAssumption ==
    /\ FolderOf \in [Names -> Folders]
    /\ Parent \in [Folders -> Folders \cup {NoFolder}]
    /\ NoFolder \notin Folders
    /\ Pieces \in Nat \ {0}
    /\ Missing # Damaged
    /\ Images \cap {Missing, Damaged} = {}

VARIABLES
    files,    \* name -> its file: the image, and how many pieces of it are there
    folders,  \* the folders that exist
    writers,  \* the threads that hold the mutex exclusively
    readers,  \* the threads that hold it shared
    held,     \* whether new readers are held off for a waiting writer
    pc,       \* thread -> where it is in its operation
    call,     \* thread -> the operation and its arguments
    result,   \* thread -> what the operation has produced
    length,   \* thread -> the size loadFile found, in pieces
    before,   \* history: thread -> the file before saveFile truncated it
    cut       \* history: the names whose last save failed or was cut short

disk == <<files, folders>>
mutex == <<writers, readers, held>>
history == <<before, cut>>
vars == <<disk, mutex, pc, call, result, length, history>>

NoFile == [image |-> Missing, pieces |-> 0]

Calls == [op : {"save"}, name : Names, image : Images] \cup [op : {"load"}, name : Names]
            \cup {[op |-> "list"]}

NoCall == [op |-> "none"]

Pending == [outcome |-> "pending"]
Done == [outcome |-> "done"]
Throws == [outcome |-> "throws"]
Loaded(i) == [outcome |-> "loaded", image |-> i]
Listed(names) == [outcome |-> "listed", names |-> names]

Results == {Pending, Done, Throws} \cup [outcome : {"loaded"}, image : Images \cup {Damaged}]
              \cup [outcome : {"listed"}, names : SUBSET Names]

WriterSteps == {"folder", "open", "write", "close"}
ReaderSteps == {"exists", "measure", "read", "list"}

Files == [image : Images \cup {Missing}, pieces : 0 .. Pieces]

TypeOK ==
    /\ files \in [Names -> Files]
    /\ folders \subseteq Folders
    /\ writers \subseteq Threads
    /\ readers \subseteq Threads
    /\ held \in BOOLEAN
    /\ pc \in [Threads -> WriterSteps \cup ReaderSteps \cup {"idle", "lock", "unlock", "return"}]
    /\ call \in [Threads -> Calls \cup {NoCall}]
    /\ result \in [Threads -> Results]
    /\ length \in [Threads -> 0 .. Pieces]
    /\ before \in [Threads -> Files]
    /\ cut \subseteq Names

Nobody(value) == [t \in Threads |-> value]

Init ==
    /\ files = [n \in Names |-> NoFile]
    /\ folders \in {{}, {f \in Folders : Parent[f] = NoFolder}}
    /\ writers = {} /\ readers = {} /\ held = FALSE
    /\ pc = Nobody("idle") /\ call = Nobody(NoCall) /\ result = Nobody(Pending)
    /\ length = Nobody(0)
    /\ before = Nobody(NoFile) /\ cut = {}

-----------------------------------------------------------------------------
(* A call, and the mutex.                                                  *)

GoTo(t, step) == pc' = [pc EXCEPT ![t] = step]
Finish(t, r) == result' = [result EXCEPT ![t] = r]

Request(t) ==
    /\ pc[t] = "idle"
    /\ GoTo(t, "lock")
    /\ \E c \in Calls : call' = [call EXCEPT ![t] = c]
    /\ UNCHANGED <<disk, mutex, result, length, history>>

AwaitExclusive(t) ==
    /\ pc[t] = "lock"
    /\ call[t].op = "save"
    /\ writers \cup readers # {}
    /\ ~held
    /\ held' = TRUE
    /\ UNCHANGED <<disk, writers, readers, pc, call, result, length, history>>

\* Mutant of LockExclusive: the lock of saveFile is shared too.
LockExclusiveShared(t) ==
    /\ pc[t] = "lock"
    /\ call[t].op = "save"
    /\ writers = {}
    /\ writers' = {t}
    /\ GoTo(t, "folder")
    /\ UNCHANGED <<disk, readers, held, call, result, length, history>>

LockExclusive(t) ==
    /\ pc[t] = "lock"
    /\ call[t].op = "save"
    /\ writers \cup readers = {}
    /\ writers' = {t}
    /\ GoTo(t, "folder")
    /\ UNCHANGED <<disk, readers, held, call, result, length, history>>

\* Mutant of LockShared: the reader's lock is released before the file is read.
LockNothing(t) ==
    /\ pc[t] = "lock"
    /\ call[t].op # "save"
    /\ writers = {} /\ ~held
    /\ GoTo(t, IF call[t].op = "load" THEN "exists" ELSE "list")
    /\ UNCHANGED <<disk, writers, readers, held, call, result, length, history>>

LockShared(t) ==
    /\ pc[t] = "lock"
    /\ call[t].op # "save"
    /\ writers = {} /\ ~held
    /\ readers' = readers \cup {t}
    /\ GoTo(t, IF call[t].op = "load" THEN "exists" ELSE "list")
    /\ UNCHANGED <<disk, writers, held, call, result, length, history>>

\* Mutant of Unlock: an exception leaves the mutex locked.
UnlockUnlessThrown(t) ==
    /\ pc[t] = "unlock"
    /\ IF result[t] = Throws THEN UNCHANGED mutex
       ELSE /\ writers' = writers \ {t}
            /\ readers' = readers \ {t}
            /\ held' = (held /\ readers' # {})
    /\ GoTo(t, "return")
    /\ UNCHANGED <<disk, call, result, length, history>>

Unlock(t) ==
    /\ pc[t] = "unlock"
    /\ writers' = writers \ {t}
    /\ readers' = readers \ {t}
    /\ held' = (held /\ readers' # {})
    /\ GoTo(t, "return")
    /\ UNCHANGED <<disk, call, result, length, history>>

Return(t) ==
    /\ pc[t] = "return"
    /\ GoTo(t, "idle")
    /\ call' = [call EXCEPT ![t] = NoCall]
    /\ Finish(t, Pending)
    /\ UNCHANGED <<disk, mutex, length, history>>

-----------------------------------------------------------------------------
(* saveFile                                                                *)

Name(t) == call[t].name

Failed(t) == GoTo(t, "unlock") /\ Finish(t, Throws)

\* create_directory makes one folder: in one that does not exist it throws.
FindFolder(t) ==
    /\ pc[t] = "folder"
    /\ LET f == FolderOf[Name(t)]
       IN  IF f \in folders
           THEN GoTo(t, "open") /\ UNCHANGED <<folders, result>>
           ELSE \/ /\ Parent[f] \in folders \cup {NoFolder}
                   /\ folders' = folders \cup {f}
                   /\ GoTo(t, "open")
                   /\ UNCHANGED result
                \/ Failed(t) /\ UNCHANGED folders
    /\ UNCHANGED <<files, mutex, call, length, history>>

\* Mutant of Open: the file is not truncated.
OpenAppending(t) ==
    /\ pc[t] = "open"
    /\ \/ /\ files' = [files EXCEPT ![Name(t)].image = call[t].image]
          /\ before' = [before EXCEPT ![t] = files[Name(t)]]
          /\ GoTo(t, "write")
          /\ UNCHANGED <<result, cut>>
       \/ Failed(t) /\ UNCHANGED <<files, before, cut>>
    /\ UNCHANGED <<folders, mutex, call, length>>

\* The file is created or truncated, unless it cannot be opened.
Open(t) ==
    /\ pc[t] = "open"
    /\ \/ /\ files' = [files EXCEPT ![Name(t)] = [image |-> call[t].image, pieces |-> 0]]
          /\ before' = [before EXCEPT ![t] = files[Name(t)]]
          /\ GoTo(t, "write")
          /\ UNCHANGED <<result, cut>>
       \/ Failed(t) /\ UNCHANGED <<files, before, cut>>
    /\ UNCHANGED <<folders, mutex, call, length>>

Forget(t) == before' = [before EXCEPT ![t] = NoFile]

\* Mutant of Write: a write that failed is not noticed.
WriteUnchecked(t) ==
    /\ pc[t] = "write"
    /\ \/ /\ files' = [files EXCEPT ![Name(t)].pieces = @ + 1]
          /\ GoTo(t, IF files[Name(t)].pieces + 1 = Pieces THEN "close" ELSE "write")
       \/ GoTo(t, "close") /\ UNCHANGED files
    /\ UNCHANGED <<folders, mutex, call, result, length, history>>

\* Once a write failed the stream writes no more.
Write(t) ==
    /\ pc[t] = "write"
    /\ \/ /\ files' = [files EXCEPT ![Name(t)].pieces = @ + 1]
          /\ GoTo(t, IF files[Name(t)].pieces + 1 = Pieces THEN "close" ELSE "write")
          /\ UNCHANGED <<result, cut>>
          /\ UNCHANGED before
       \/ Failed(t) /\ Forget(t) /\ cut' = cut \cup {Name(t)} /\ UNCHANGED files
    /\ UNCHANGED <<folders, mutex, call, length>>

Close(t) ==
    /\ pc[t] = "close"
    /\ GoTo(t, "unlock")
    /\ \/ Finish(t, Done) /\ cut' = cut \ {Name(t)}
       \/ Finish(t, Throws) /\ cut' = cut \cup {Name(t)}
    /\ Forget(t)
    /\ UNCHANGED <<disk, mutex, call, length>>

Save(t) == FindFolder(t) \/ Open(t) \/ Write(t) \/ Close(t)

-----------------------------------------------------------------------------
(* loadFile and getList                                                    *)

Exists(t) ==
    /\ pc[t] = "exists"
    /\ IF files[Name(t)].image = Missing THEN Failed(t)
       ELSE GoTo(t, "measure") /\ UNCHANGED result
    /\ UNCHANGED <<disk, mutex, call, length, history>>

\* Opened at its end; a file that cannot be opened has no size to resize to.
Measure(t) ==
    /\ pc[t] = "measure"
    /\ \/ /\ length' = [length EXCEPT ![t] = files[Name(t)].pieces]
          /\ GoTo(t, "read")
          /\ UNCHANGED result
       \/ Failed(t) /\ UNCHANGED length
    /\ UNCHANGED <<disk, mutex, call, history>>

\* As much as was measured, or an exception when there is not as much.
Read(t) ==
    /\ pc[t] = "read"
    /\ GoTo(t, "unlock")
    /\ \/ /\ length[t] <= files[Name(t)].pieces
          /\ Finish(t, Loaded(IF length[t] = Pieces THEN files[Name(t)].image ELSE Damaged))
       \/ Finish(t, Throws)
    /\ length' = [length EXCEPT ![t] = 0]
    /\ UNCHANGED <<disk, mutex, call, history>>

\* Mutant of List: files that are not whole are left out.
ListWhole(t) ==
    /\ pc[t] = "list"
    /\ GoTo(t, "unlock")
    /\ \/ Finish(t, Listed({n \in Names : files[n].pieces = Pieces}))
       \/ Finish(t, Throws)
    /\ UNCHANGED <<disk, mutex, call, length, history>>

\* Every file in the folder, whole or not, unless a folder cannot be read.
List(t) ==
    /\ pc[t] = "list"
    /\ GoTo(t, "unlock")
    /\ \/ Finish(t, Listed({n \in Names : files[n].image # Missing}))
       \/ Finish(t, Throws)
    /\ UNCHANGED <<disk, mutex, call, length, history>>

Load(t) == Exists(t) \/ Measure(t) \/ Read(t)

-----------------------------------------------------------------------------
\* The provider ends in the middle of everything and is started again.
Crash ==
    /\ cut' = cut \cup {Name(t) : t \in {u \in Threads : pc[u] \in {"write", "close"}}}
    /\ writers' = {} /\ readers' = {} /\ held' = FALSE
    /\ pc' = Nobody("idle") /\ call' = Nobody(NoCall) /\ result' = Nobody(Pending)
    /\ length' = Nobody(0)
    /\ before' = Nobody(NoFile)
    /\ UNCHANGED disk

\* What a thread does on its own, taking the mutex apart.
Run(t) ==
    AwaitExclusive(t) \/ Save(t) \/ Load(t) \/ List(t) \/ Unlock(t) \/ Return(t)

Next == Crash \/ \E t \in Threads : Request(t) \/ LockExclusive(t) \/ LockShared(t) \/ Run(t)

Spec == Init /\ [][Next]_vars

(***************************************************************************)
(* A thread that runs keeps running, and one that finds the mutex free     *)
(* again and again takes it.  Nothing obliges a caller to call.            *)
(***************************************************************************)
Fairness ==
    \A t \in Threads : WF_vars(Run(t)) /\ SF_vars(LockExclusive(t)) /\ SF_vars(LockShared(t))

FairSpec == Spec /\ Fairness

-----------------------------------------------------------------------------
(* What should hold.                                                       *)

\* While a thread is inside saveFile no other is inside any operation on the
\* files: the locks at storageservice.cpp:32, 71 and 92.
SaversAreAlone ==
    \A t, u \in Threads :
        pc[t] \in WriterSteps /\ pc[u] \in WriterSteps \cup ReaderSteps => t = u

\* A load that succeeds gives the caller a whole image, unless the last save of
\* that name failed or the provider ended in it: no reader sees the file between
\* its truncation and the last write.
LoadsAreWhole ==
    \A t \in Threads :
        pc[t] = "unlock" /\ result[t] = Loaded(Damaged) => Name(t) \in cut

\* A file that nobody is writing and whose last save succeeded is whole.
FilesAreWhole ==
    \A n \in Names :
        files[n].image # Missing /\ files[n].pieces # Pieces =>
            \/ n \in cut
            \/ \E t \in writers : pc[t] = "write" /\ Name(t) = n

\* What a file is to those who load it.
Content(file) ==
    IF file.image = Missing \/ file.pieces = Pieces THEN file.image ELSE Damaged

Saving(t, n) == pc[t] \in {"write", "close"} /\ Name(t) = n

\* Where saveFile has truncated a file and not yet closed it, the image stored
\* is still the one before.
Stored(n) ==
    IF \E t \in Threads : Saving(t, n)
    THEN Content(before[CHOOSE t \in Threads : Saving(t, n)])
    ELSE Content(files[n])

Store == INSTANCE ImageStore WITH images <- [n \in Names |-> Stored(n)]

\* Saves, loads and lists of all threads take effect one by one, each between
\* its call and its return, and a failed save or the provider's end harms no
\* image but those being saved (ImageStore).
RefinesImageStore == Store!Spec

\* Every call of the storage returns, unless the provider ends: exceptions
\* release the mutex, and readers do not keep a writer out for ever.
CallsReturn == \A t \in Threads : pc[t] # "idle" ~> pc[t] = "idle"
=============================================================================
