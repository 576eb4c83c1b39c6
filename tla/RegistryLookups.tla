-------------------------- MODULE RegistryLookups --------------------------
(***************************************************************************)
(* What the round robin of registryimpl.cpp still promises when lookups    *)
(* are concurrent.  Two history variables are added to RegistryImpl: which *)
(* lookups shared the mutex with another lookup, and which providers of a  *)
(* name were handed out in the current round.                              *)
(***************************************************************************)
EXTENDS RegistryImpl

VARIABLES
    overlapped,  \* the threads whose lookup held the mutex together with another
    round        \* name -> the providers handed out in the current round

historyVars == <<overlapped, round>>

HistoryInit ==
    /\ Init
    /\ overlapped = {}
    /\ round = [n \in Names |-> {}]

Listed(n) == IF n \in DOMAIN services THEN ToSet(services[n].providers) ELSE {}

\* A round ends when the list of the name changes, when every provider had its
\* turn, and when a lookup that was not alone has moved the cursor.
RoundAfter(t, n) ==
    LET turn == round[n] \cup {<<result[t].host, result[t].port>>}
    IN  IF Listed(n)' # Listed(n) THEN {}
        ELSE IF pc[t] # "storeCursor" \/ call[t].signature.name # n THEN round[n]
        ELSE IF t \in overlapped \/ turn = Listed(n) THEN {} ELSE turn

Observe(t) ==
    /\ overlapped' =
          IF Cardinality(readers') > 1 THEN overlapped \cup readers'
          ELSE IF pc[t] = "return" THEN overlapped \ {t}
          ELSE overlapped
    /\ round' = [n \in Names |-> RoundAfter(t, n)]

HistoryNext ==
    \E t \in Threads :
        /\ Request(t) \/ LockExclusive(t) \/ LockShared(t) \/ Run(t)
        /\ Observe(t)

HistorySpec == HistoryInit /\ [][HistoryNext]_<<vars, historyVars>>

-----------------------------------------------------------------------------

\* A lookup that no other lookup overlapped hands out a registered pair, though
\* any number of lookups raced on the cursor before it (registryimpl.cpp:106-108
\* writes lastUsed under a shared lock): the damage of a race ends with it.
LoneAnswerIsRegistered ==
    \A t \in Threads \ overlapped :
        pc[t] \in {"loadCursor", "storeCursor"} =>
            <<result[t].host, result[t].port>> \in Listed(call[t].signature.name)

\* Lookups that do not overlap go round the list, whichever threads of the pool
\* run them and wherever earlier registrations, removals and races left the
\* cursor: none gets a provider again before every other had its turn
\* (registryimpl_test.cpp:91-100 expects this of three lookups in a row).
RoundRobin ==
    \A t \in Threads \ overlapped :
        pc[t] = "storeCursor" =>
            <<result[t].host, result[t].port>> \notin round[call[t].signature.name]
=============================================================================
