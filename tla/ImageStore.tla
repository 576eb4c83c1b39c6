------------------------------ MODULE ImageStore ------------------------------
(***************************************************************************)
(* What the storage promises the services that call it: each save, load    *)
(* and list takes effect at one instant between its call and its return,   *)
(* on a map from names to images.  A save that throws, or that the         *)
(* provider's end cuts short, may have left the image as it was, replaced  *)
(* it or damaged it; it never touches another.                             *)
(***************************************************************************)
EXTENDS Integers

CONSTANTS
    Threads,  \* the threads of the provider's pool
    Names,    \* the names of images
    Images,   \* what is stored under them
    Missing, Damaged

VARIABLES
    images,  \* name -> image, Missing or Damaged
    call,    \* thread -> the operation in progress
    result   \* thread -> what it has produced

vars == <<images, call, result>>

Calls == [op : {"save"}, name : Names, image : Images] \cup [op : {"load"}, name : Names]
            \cup {[op |-> "list"]}

NoCall == [op |-> "none"]

Pending == [outcome |-> "pending"]
Done == [outcome |-> "done"]
Throws == [outcome |-> "throws"]
Loaded(i) == [outcome |-> "loaded", image |-> i]
Listed(names) == [outcome |-> "listed", names |-> names]

Init ==
    /\ images = [n \in Names |-> Missing]
    /\ call = [t \in Threads |-> NoCall]
    /\ result = [t \in Threads |-> Pending]

Request(t) ==
    /\ call[t] = NoCall
    /\ \E c \in Calls : call' = [call EXCEPT ![t] = c]
    /\ UNCHANGED <<images, result>>

InProgress(t, op) == call[t].op = op /\ result[t] = Pending

Finish(t, r) == result' = [result EXCEPT ![t] = r]

Save(t) ==
    /\ InProgress(t, "save")
    /\ LET n == call[t].name
       IN  \/ /\ images' = [images EXCEPT ![n] = call[t].image]
              /\ Finish(t, Done)
           \/ /\ \E i \in {images[n], Damaged, call[t].image} : images' = [images EXCEPT ![n] = i]
              /\ Finish(t, Throws)
    /\ UNCHANGED call

Load(t) ==
    /\ InProgress(t, "load")
    /\ \/ Finish(t, Throws)
       \/ images[call[t].name] # Missing /\ Finish(t, Loaded(images[call[t].name]))
    /\ UNCHANGED <<images, call>>

List(t) ==
    /\ InProgress(t, "list")
    /\ \/ Finish(t, Throws)
       \/ Finish(t, Listed({n \in Names : images[n] # Missing}))
    /\ UNCHANGED <<images, call>>

Return(t) ==
    /\ result[t] # Pending
    /\ call' = [call EXCEPT ![t] = NoCall]
    /\ Finish(t, Pending)
    /\ UNCHANGED images

\* What a save of n that was in progress may have left.
CutShort(n) ==
    {images[n]} \cup UNION {{Damaged, call[t].image} :
                            t \in {u \in Threads : InProgress(u, "save") /\ call[u].name = n}}

\* The provider ends and is started again.
Crash ==
    /\ images' \in {f \in [Names -> Images \cup {Missing, Damaged}] :
                      \A n \in Names : f[n] \in CutShort(n)}
    /\ call' = [t \in Threads |-> NoCall]
    /\ result' = [t \in Threads |-> Pending]

Next == Crash \/ \E t \in Threads : Request(t) \/ Save(t) \/ Load(t) \/ List(t) \/ Return(t)

Spec == Init /\ [][Next]_vars
=============================================================================
