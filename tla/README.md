# A verification of SSOA

SSOA is a small service-oriented architecture in C++. *Service providers*
(storage of images, manipulation of images) register the services they offer on
a *service registry*; *clients* ask the registry for a provider of a service,
by the signature of the service, and then call that provider. A library
(`libssoa`) holds the protocols, the servers' loops and the proxies.

These TLA+ modules state what the program promises and check it: with TLC on
small instances, and with TLAPS, for every value of the constants, where that is
in reach. Modules are translated from the code; a line such as
`registryimpl.cpp:106` names the source a definition or a property is about.

## 1. The system

| Component | State | Operations | Talks to |
|---|---|---|---|
| Service registry, `RegistryImpl` | `services`: name -> signature, list of providers, `lastUsed`; a `boost::shared_mutex` | `registerService`, `deregisterService`, `deregisterServer`, `lookupService` | called by the threads of the listener's pool |
| `ServiceSignature` | name, input and output types, canonical text, validity | construction from a text, comparison, `any` | used by everything |
| Registry listener, `RegistryListener` | acceptor, the handler of the next connection, the pool, the signals it waits for | accept, run the pool, stop | `ClientHandler` |
| Connection handler, `ClientHandler` | socket, buffer, response | read until NUL, dispatch, answer, shut down | `IRegistry`, the peer |
| Registry proxy, `Registry` | address of the registry | register, deregister, deregister all, look up | one connection per call |
| Registry messages | the fields of the five kinds of messages | to and from YAML, a factory by type | proxy and handler |
| Service listener, `ServiceListener` | acceptor, next socket, pool, signals | as the registry's | `ServiceSkeleton` |
| Service skeleton | per connection: header buffer, payload buffers, signature, arguments, response | read header, read payload, invoke, answer | factory of services, the peer |
| Service calls (`Service`, `ServiceStub`, `Response`, `ServiceArgument`) | the arguments pushed and popped, the blocks sent | push and pop against the signature, submit, deserialise | one connection per call |
| Life of a provider (`main` of both) | which services are registered; listening or not | register three or two services, listen and serve, deregister | proxy, service listener |
| Storage service | a directory; a `shared_mutex` | list, load, save | called by the provider's pool |
| Image services | a temporary file per call | save, load, transform, save, load, remove | CImg |
| Client | the image it works on | pick, transform, store; three to five lookups and calls a round | proxy, stubs |
| Logger | one shared `ostream`, whose buffer is switched off below a level | log | every thread |
| Test case launcher | the child processes | fork, wait, kill on a signal | the programs |
| Start-up (`ssoa::setup`, the registry's `main`) | none after start-up | options, installing factories | - |

**What is hard.**

* *Threads.* Listeners run their callbacks on a pool (10 threads by default);
  `registryimpl.cpp` and `storageservice.cpp` are entered by many. `lookupService`
  writes the shared `lastUsed` under a shared lock (`registryimpl.cpp:100-109`).
* *Failures between steps.* `operator[]` inserts before a registration is refused
  (`registryimpl.cpp:26-31`); a provider's registrations fail half-way
  (`ssoa-storageprovider/src/main.cpp:96-104`); a save truncates before it writes
  (`storageservice.cpp:102-107`); programs are killed, connections reset, and what
  is left in the registry, on the disk and in the other programs' calls must still
  make sense.
* *Ordering.* A provider is registered before it listens and deregistered after it
  has stopped; a header and its payload arrive in arbitrary pieces; stop overtakes
  requests in progress.
* *Conversions.* A signature is parsed, printed and parsed again twice before the
  registry sees it.
* *Waiting.* No call has a timeout; the shared mutex must not starve anybody.

**What makes each part correct.**

* `RegistryImpl`: operations act as if one at a time on a table from names to a
  signature and a set of providers; the signature of a name is fixed while it has
  a provider; no lookup reads outside a list; an answer is a registered pair;
  lookups go round the list; every call returns.
* `ServiceSignature`: a valid signature is read back as it was sent; equal signatures
  are interchangeable; `any` is told apart from everything else; an invalid signature
  is not registered under another name.
* Listener, handler and proxy: every request that is accepted is answered once or
  its connection closed; what the answer says happened; a stop ends the server.
* Skeleton and calls: the arguments that are popped are those that were pushed,
  however they are cut up; one answer per connection; a failing peer fails nobody
  else.
* Life of a provider: who is registered is listening, or will be; a stop lets the
  services that run finish, and leaves nothing of this life behind.
* Storage: readers see whole files; a failed save does not lose the old image.
* Client, image services, logger, launcher: a round stores what it was given,
  transformed; temporary files go away; every message of a level is printed or
  none; no child is left.

## 2. The plan

| Step | Modules | State |
|---|---|---|
| 1 | `IRegistry`, `RegistrySpec` (abstract), `RegistryImpl`, `RegistryLookups`: the registry | modelled, checked; invariants, history properties and the refinement's safety proved |
| 2 | `ServiceSignature`, `SignatureWire`: signatures and their way to the registry | modelled, checked, invariants proved |
| 3 | `RegistryServer`: listener, connection handler and proxy over connections, composed with `RegistrySpec`; kinds of messages; stop on a signal | modelled, checked, invariants proved |
| 4 | `Framing`: header, leftovers and payload of a message, with reads of any length and a peer that dies | modelled, checked, invariants proved |
| 5 | `ServiceServer`: service listener and skeleton with peers that leave or reset, and the stub | modelled, checked and proved as part of step 6 |
| 6 | `Deployment`: the life of a provider, the client's loop, the registry's process and the launcher, over `ServiceServer` | modelled, checked, invariants proved |
| 7 | `ImageStore` (abstract), `StorageService`: the storage | modelled, checked, invariants and refinement proved |
| 8 | the image helper, the logger, the checks of `pushArgument` and `popArgument` | left out, see section 7 |

*Abstract specifications:* `RegistrySpec` for the registry, which is also what
the server of step 3 is composed with; `ImageStore` for the storage, a map from names
to images on which every call takes effect at once.

*Runs:* two or three threads, connections or processes, two services, two or three
providers; each is given in section 4 with its reason.

*Theorems:* every invariant and action property that a passing run checks is a theorem:
for step 1 the invariants, that lone lookups answer with registered pairs and go round
the list, and `ActsAtomically`, the refinement of `RegistrySpec`; for step 2 that a
valid signature survives its way, what becomes of the others' names, and that no text
is read as `any`; for step 3 that
what was acknowledged was done and that a stop loses no effect silently; for step 4
that the blocks assembled from any cut are those sent; for steps 5 and 6 that a call is
served once and finds its service, that a service which runs finishes, that a provider
cleans up after itself, that its failures end no client and that the launcher stops a
system in order; for step 7 mutual
exclusion of savers and readers, whole files and the refinement.

## 3. The modules

### `IRegistry`: the vocabulary

The arguments and results of `iregistry.h`: a call is a record of an operation and
its arguments, a result says whether the call has thrown or returned and with what.
Signatures are records of a name, a canonical text and a validity; two are the same
when their texts are (`servicesignature.h:66-72`). The named assumptions say that
`any` is invalid, that its text is its own and that a text determines a name.
That the code which makes signatures meets the last two is `TextsTellApart` in
`SignatureWire_proofs`.

### `RegistrySpec`: what a registry promises

A table from names to a signature and a non-empty set of providers. Every call takes
effect in one step between `Request` and `Return`. A lookup answers with a
registered pair if there is one calling thread; if there are several, with the host
of one registered pair and the port of one, which is all the code achieves (see the
findings). Fairness: calls in progress take effect and return.

### `RegistryImpl`: the registry as it is written

| Code | Model |
|---|---|
| `std::map services` (`registryimpl.h`) | `services`, a function from the names that have an entry |
| `boost::shared_mutex` | `writers`, `readers`, and `held`: a writer that waits holds new readers off, as boost's `exclusive_waiting_blocked` does |
| a thread of the pool inside a call | `pc`, `call`, `result`, `cursor`, `emptyEntries` |
| check of validity before the lock | `Enter` |
| `operator[]`, comparison of signatures, throw | `Insert` |
| search and `push_back` | `AppendProvider` |
| search, `erase`, `lastUsed %= size` | `Erase` (`Erased`) |
| `services.erase` | `EraseEntry` |
| loop of `deregisterServer`, then the erasing of empty entries | `Sweep`, `Purge` |
| `find` | `Find` |
| the three uses of `lastUsed` by `lookupService` | `ReadHost`, `ReadPort`, `LoadCursor`, `StoreCursor` |
| the locks' constructors and destructors | `AwaitExclusive`, `LockExclusive`, `LockShared`, `Unlock` |

`deregisterService` with `any` runs the loop of `deregisterServer`
(`CriticalSection`), and its result is whether anything was removed. An operation is cut where
another thread could see the difference if the lock did not exclude it, so that the
exclusion is something the model shows and not something it assumes; lookups are cut
at every access to the shared cursor. The data race on `lastUsed` is modelled as the
interleaving of its loads and stores: an aligned word is not torn on the platforms
the program builds on.

### `RegistryLookups`: what a race leaves behind

`RegistryImpl` with two history variables, the lookups that were not alone and the
providers handed out in the current round. It says what a lookup that no other
overlaps can rely on after any races before it.

### `ServiceSignature` and `SignatureWire`

A text is abstracted to what the two regular expressions of `servicesignature.cpp`
tell apart:

* `head`, before the first parenthesis: a word (`Words`), something that ends in a word
  and is none, such as `*Flip` (`Mixed`), or neither (`Symbols`);
* `args`, the arguments of the list, some of which are garbage;
* `empties`, the pairs of empty parentheses behind it;
* `form`: `exact` as canonical texts are written, `loose` with other white space,
  `open` without the closing parenthesis, `around` with more text around what
  `sigPattern` finds, of which `regex_replace` leaves the surroundings in the name.

`Parse` is the constructor: `Searches` says where the pattern is found, which decides
the name, `Matches` where it is the whole text, which validity wants. Names and
canonical texts are texts again, so that they can be parsed again: an `open` text is
its own name, and its canonical text has `()` behind it, which closes it.
`SignatureWire` carries a signature from a program through its canonical text in the
request to the registry, which parses it twice more (in `fromYaml` and in
`clienthandler.cpp`). Left out of the abstraction: the empty text; heads and surroundings
of several words, or that read as arguments or signatures themselves; and white space in
texts that do not match.

### `RegistryServer`: the registry on the network

| Code | Model |
|---|---|
| a program in a call of the proxy (`Registry::submit`): connect, write, wait for a NUL, judge | `Connect`, `Write`, `Receive`; `asks`, `link`, `outcome` |
| `read_until` throws because the connection was closed | `LoseConnection` |
| a program that dies in a call, and is started again | `Killed`, then `Connect` |
| `startAccept`, `handleAccept` with and without an error | `StartAccept`, `HandleAccept`, `HandleAcceptError`; `accepting`, `backlog` |
| `ClientHandler::start`, `handleRead`, `handleWrite` | `Start`; `HandleRead`, `Perform`, `Respond` or `HandleReadError`; `HandleWrite` |
| a thread of the pool, in a handler or not | `task` |
| SIGINT, SIGTERM, SIGQUIT; `handleStop`; the end of `run` | `Signal`, `HandleStop`, `Exit`; `server` |
| the objects `RegistryMessage::fromYaml` makes, by type | `Message`, `CallOf`, `Answer` |

The registry behind the handlers is `RegistrySpec` (`Registry == INSTANCE`), which
`RegistryImpl` refines: a handler's call is `Registry!Request`, `Registry!Perform`,
`Registry!Return`. What the registry reads of a signature a program sends is the
constant `Received`; what `ReceivedAssumption` says of it is what `SignatureWire`
shows (`ValidArrivesUnchanged`, `AnyIsNeverRead`, and for all signatures the theorem
`ReceivedAsAssumed`). `Asks` are the calls the proxy can
make; `AskedAssumption` says that no two programs make calls about the same provider's
address, since a program gives the registry the address it listens on itself and two
cannot be bound to one (the exception is listed in section 6). An answer is a few dozen bytes and
leaves with the call of `async_write`; the handler that shuts the connection down
comes later. A registration says with `deregister` whether it is one or the opposite.
The number of connections at one time is a constant: a program that
finds none free waits. Nothing recalls the request of a program that was killed:
`disturbed` marks a program that calls again while the server still holds an earlier
request of its own.

### `Framing`: a message in pieces

One message from its first byte to the call it makes (`serviceskeleton.cpp`) or the
response it becomes (`response.h`; the two functions do the same). `ReadHeader` is one
read of `async_read_until`, of any length, that may take bytes of the blocks along;
`Refuse` is every early return and exception, `Prepare` one turn of the loop over the
parameters, `ReadPayload` and `Fill` the read into what is left, `OnPayloadReceived`
and `OnError` its two ends. `Die` cuts the stream at any byte. Byte *j* of block *i* is the pair
`<<i, j>>`, so that a lost, doubled or displaced byte is seen; what the header says is
in `message`, since its text is YAML.

### `ServiceServer`: a provider's listener and its connections

| Code | Model |
|---|---|
| the pool of threads, `run`, `join_all` (`servicelistener.cpp:38-46`) | `threads`, `ThreadFree`, `Busy`; `Close` when the last invocation is over |
| the constructor: signals, bind, listen, first accept | `Listen` |
| `startAccept`, `handleAccept`, `ServiceSkeleton::start` | `HandleAccept`; `accepting` |
| `handleStop`, and the destructor of the listener | `signalled`, `HandleStop`; `Close`, `CloseAll` |
| `onHeaderReceived`, with and without an error | `OnHeaderReceived` |
| `onPayloadReceived` up to the invocation, and from its return or exception on | `OnPayloadReceived`; `Invoked` |
| `Response::serialize` when the socket takes a part only; `onWriteResponse` | `WriteRest`; `OnWriteResponse` |
| `ServiceStub::submit`: connect, write, deserialise, close | `Connect`, `Send`, `Receive`, `LoseConnection` |
| `remote_endpoint()` throwing outside of any `try`: `std::terminate` | `Terminate`, in each handler whose peer has reset the connection |
| the sockets the kernel closes for a program that has ended | `Hangup`, `CloseAll` |

A connection is a record of the stage the skeleton is in, the state of its peer, how
much of the request was written, the response that was written whole, and how often
the service was invoked for it. The bytes are `Framing`'s: here a request is a header
and then arguments. Only invocations take time: the other handlers run in one step
of a free thread.

### `Deployment`: the programs together

| Code | Model |
|---|---|
| `main` of a provider (`ssoa-storageprovider/src/main.cpp:90-130`; the other's is the same but for its services) | `StartProvider`, `AskToRegister`, `RegisterService`, `RegistrationThrows`, `StartListening`, `ListeningThrows`, `StopListening`, `AskToDeregister`, `DeregisterService`, `DeregistrationThrows`; `at`, `item`, `status`, `call` |
| a request whose sender has been killed (`registry.cpp:42-45`) | `Killed`, `RegistryCarriesOut`; `left`, `late` |
| the client's `main` (`ssoa-client/src/main.cpp`): a round of lookups and calls, reading its own images, `catch` | `Begin`, `GetProvider`, `Submit`, `Refuse`, `Write`, `Read`, `SubmitThrows`; `client` |
| the registry's `main` | `StartRegistry`, `RegistryListens`, `StopRegistry`; `registry`, `registered` |
| the launcher's `main`: fork and `exec` each child (`testcase/src/main.cpp:98-131`) | `Launch`, `LauncherDies` |
| `on_kill`: signal and await the children, in reverse | `OnKill`, `KillChild`, `WaitChild` |
| `waitpid(-1)` until there is no child left | `AllExited` |
| a user who starts and signals the programs by hand | `ByHand` |
| signals, crashes and resets | `SignalProvider`, `KillProvider`, `KillClient`, `StopRegistry`, `Reset` |

The module composes `ServiceServer` with the programs around it. A provider's call of the
registry takes two steps. First the request is written (`AskToRegister`, which also
installs the service, and `AskToDeregister`). Then the registry carries it out and answers
(`RegisterService`, `DeregisterService`), or the call fails because the registry cannot
be reached or is stopped before it answers (`call = "lost"`). That carrying out and answering
are one step is what `RegistryServer` allows for a call whose program waits: what an
answer says is so (`AcknowledgedHolds`) and what was carried out is answered
(`NoSilentEffect`). It does not allow it for a program that is killed: its request is left to
the registry (`left`), which carries it out whenever it comes to it, also when the
provider has been started again, has registered, or has deregistered and ended with success.
`late` remembers the services the registry has for that reason alone. A registry that is
stopped forgets the requests it has. The connections between a provider and the registry are
not reset.

A lookup is answered by this provider or by nobody. A client may end at the beginning of a
round because it cannot read its own images. `spoilt` remembers the clients that ran
while the registry was down, a service was not registered or the provider did not
accept: these may fail; clients that are killed, cannot read their images or have
their connection reset have `ended` for a reason that has nothing to do with it, and are
forgotten. `orderly` remembers that the launcher was told to stop a healthy system in
which no fault has happened since.

### `ImageStore` and `StorageService`: the storage

`ImageStore` is a map from names to images; each save, load and list takes effect in
one step between its request and its return; a save that throws, and a crash, may
leave the old image, the new one or a damaged one, of the images being saved only.

| Code (`storageservice.cpp`) | Model |
|---|---|
| the files below the storage's folder, and its subfolders | `files`, `folders`; both outlive a crash |
| `unique_lock` in `saveFile`, `shared_lock` in `loadFile` and `getList` | `AwaitExclusive`, `LockExclusive`, `LockShared`, `Unlock`; `writers`, `readers`, `held` |
| `create_directory` of the file's folder if it is not there | `FindFolder` |
| `ofstream` (truncates), `write`, `close`, and the exceptions of each | `Open`, `Write`, `Close` |
| `exists`, opening at the end and `tellg`, reading back that much | `Exists`, `Measure`, `Read` |
| the recursive listing | `List` |
| the end of the provider at any point | `Crash` |

A file is an image and the number of its pieces that are there. `before` is the file
that a save has truncated, from which the refinement mapping (`Stored`) takes the
image that `ImageStore` still has; `cut` are the names whose last save failed or was
cut short.

### The proof modules

`SequenceLemmas` has facts about sequences that the proofs share: `RemoveFirst` and
`FlattenSeq` of the community modules, prefixes, and induction on the numbers up to a
bound (a smallest counterexample exists because `<` is well-founded). `RegistryImpl_proofs`,
`RegistryLookups_proofs`, `SignatureWire_proofs`, `RegistryServer_proofs`,
`Framing_proofs`, `Deployment_proofs` and `StorageService_proofs` have the proofs of
section 5.

## 4. The runs

| Run | Instance | Shows |
|---|---|---|
| `registry` | 2 threads, 2 services of which one is known with two signatures and a malformed one, 2 providers, every call | `TypeOK`; `WritersAreAlone`: nobody else is in the map while a writer is; `CandidateExists`: the cursor a lookup reads indexes its list, though other lookups move it; `MapIsConsistent`: when no writer is at work there are no empty, duplicate, foreign or invalid entries; `SignatureIsFixed`; `ActsAtomically`: the refinement of `RegistrySpec`, safety |
| `registry_liveness` | 3 threads registering, deregistering and looking up one service, and deregistering `any`, which is delegated to `deregisterServer` | `CallsReturn`: neither readers nor writers starve; `RefinesRegistrySpec`: the refinement with the fairness of `RegistrySpec` |
| `registry_lookups` | 2 threads, 3 providers | `LoneAnswerIsRegistered`, `RoundRobin`: races hurt only the lookups that overlap |
| `registry_torn_answer` | 2 threads, 1 service with two signatures, 2 providers | finding 1 |
| `signature_wire` | 2 words, 1 head that ends in a word, 1 symbol, 2 types; every list of up to 3 arguments or garbage, loose or not; every one of up to 2 that is open, has `()` behind it, a head that is no word, or more text around it; no list and 0 to 2 `()` | `ValidArrivesUnchanged`; `NameOfMatchedIsKept`: a valid signature arrives under its name, and what is valid on arrival was sent under that name unless its name was no word; `EqualMeansInterchangeable`; `AnyIsNeverRead` |
| `server_safety` | 2 programs with 7 requests between them, one of them no request at all, 2 threads, 2 connections | `TypeOK`; `AcknowledgedHolds`: what the proxy concludes from an answer is so until its program calls again; `NoSilentEffect`: a request that was carried out is answered even if the registry is being stopped |
| `server_liveness` | 2 programs, one request each, 2 threads, 2 connections | `EveryCallEnds`, `StopsOnSignal` |
| `server_deregister_provider` | 2 programs, 1 thread | finding 2 |
| `framing` | up to 3 blocks of 0 to 2 bytes, an int of 2, a header of 2; all numbers and sizes of blocks, fitting or not | `TypeOK`, `ReceivedAsSent`, `Placement`, `MisfitsFail`, `Ends`, `ArrivesIfSent` |
| `deployment` | 2 clients, a provider of 2 services, a pool of 1 thread by hand or 2 by the launcher, 1 restart | `TypeOK`; `SuccessIsOneInvocation`: nothing that fails has a request served twice; `NeverUnavailable`: no client is sent to a provider that does not have the service yet; `SuccessLeavesNothing`: a provider that returns success left nothing in the registry but what a killed life had asked for and was carried out late; `ClientsKeepRunning`: a client to which nothing happens, and which can read its images, fails only after having run in a system that was not healthy; `StopsInOrder`: a launcher told to stop a healthy system lets the provider deregister; `RunningServicesFinish`: a stop waits for the services that run, and their responses are written, all but the rest of a large one; `EveryCallComesToItsEnd`, `LauncherStops` |
| `deployment_reset` | the same | finding 3 |
| `storage` | 2 threads, an image in the storage's folder and one in a folder inside it, 2 contents of 2 pieces | `TypeOK`; `SaversAreAlone`; `LoadsAreWhole`, `FilesAreWhole`: only a failed or interrupted save of the same name makes an image partial; `RefinesImageStore`; `CallsReturn` |

**Why the bounds are enough.** Two threads give every pair of operations; a third
adds a contender for the mutex and matters for starvation only, where it has its own
run (without `held`, two threads do not starve a writer and three do). Two providers
give a list that becomes empty, shrinks and grows, a cursor that goes out of range,
and a pair to mix up; the order of a round needs three. Three hosts and ports are
all different, so that a mixed pair is not a registered one. Two signatures of a name
and one malformed are all that the comparisons tell apart. The reads and writes of
the cursor are bounded by the length of the list, so that no bound is needed in a
guard. Threads and connections are symmetric in the runs that check invariants only; runs that check temporal
properties use no symmetry.

On the network two programs are enough to take a service from each other and to fill both
threads of the pool; two connections are enough for one to wait in the backlog behind another,
and for the connection of a killed program to be served together with that of its next call. The
liveness run asks for little, since what ends a call does not depend on what is asked. In
`signature_wire` three arguments give a first, a middle and a last one, each of which may be the
malformed one; for what breaks the form of a text, a first and a last argument are enough. In
`framing` the read of the header can end before, on and after every boundary between blocks,
with an empty block and a partly filled one on either side of it; two bytes are enough for
"partly".

In `deployment` two services make a provider that is registered with one of them and not yet, or
no longer, with the other; the clients call the one that is registered last, so that they come
too early, in between and too late. Two clients on a pool of one thread make one wait in the
backlog or in a handler while the service of the other runs; the pool of two lets both run. In
`registry_liveness` the three threads make every choice among four calls of one service, one of
them the delegated one; that a delegation with the mutex held would never return is seen there.
`MaxRestarts` lets the user start the registry or the provider once more after its first end,
which is what makes a service registered in an earlier life meet a provider that is installing
it, and a request of a killed life meet a provider that registers, deregisters or has ended. The
second life can be killed as well, so that two such requests wait at the registry, of the same
kind or of both. A client has one connection at a time, and its next call waits until the
provider is done with the last one. In `storage` two pieces (`Pieces`) are what tells an empty,
a partial and a whole file apart; the second name is for what a failed save must not touch, and
its folder has to be made first and can only be made in one that exists.

**Deadlock** is checked in every run but `framing`, whose one message comes to an end,
and those of `deployment`, where every program may have been stopped or have ended for
good: elsewhere a thread or the registry can always be called.

**Fairness.** A thread that is in a call keeps running (weak fairness of `Run`): the
pool's threads are scheduled by the operating system and nothing in these steps
blocks. Taking the mutex is strongly fair for each thread, because
`boost::shared_mutex` wakes those that wait whenever it is released and a waiting
writer holds new readers off, so that it comes free again and again; `held` models
the part of that which matters. Nobody is obliged to call: `Request` has no fairness.
`StorageService` assumes the same of its threads and its mutex.

In `RegistryServer` a program goes on with a call it has begun and a thread with the
handler it is in (weak fairness). A handler that is ready competes with others for the
threads: `io_service` queues handlers in the order they become ready, so that none is overtaken
for ever (strong fairness per connection, for the accept and for the stop). That the
accept succeeds in the end, and does not fail for ever, is part of it. No fairness for
`Connect`, `Killed`, `Signal`, `HandleAcceptError`. In `Framing` the receiver acts when
it can; that a peer dies is never required.

In `Deployment` the provider's `main`, the clients' loops and the launcher keep running
(weak fairness), and a service that is invoked returns or throws: nothing could be said
of calls of a service that does not. The handlers of a connection and `HandleStop` are
strongly fair for the reason above. No fairness for what a user or the outside does: starts,
signals, kills, resets, the registry's coming up, and its carrying out of what killed programs
have left to it.

**What these checks do not say.**

* *Peers that stay and stall.* Fairness makes a peer that is in a call write, so that `EveryCallEnds`
  and `EveryCallComesToItsEnd` cover peers that are slow for some time, that die, leave
  or reset, but none that keeps a connection open and sends nothing for ever; in `Framing`
  a peer that stays has its whole message on the wire. Nor is there a network that loses a
  connection silently. The code has no timeout anywhere, so that such a peer is waited for
  for ever: the read is asynchronous and takes no thread, but the caller of a stub or of
  the proxy hangs.
* *That a stop answers every call.* `StopsInOrder` is about the provider's registration and its status.
  What a call can count on is `RunningServicesFinish`, and it is less: a request that has not
  been read is dropped, and a response too large for the socket's buffer is cut off where it
  is, because its rest is written by a handler and the `io_service` has been stopped.
* *That a provider is gone from the registry for good.* See `late` above.

## 5. What is proved

Every invariant and every action property that a passing run checks is proved. For the
registry, `RegistryImpl_proofs` proves, for every pool, every set of signatures that meets
`SignatureAssumption` and `TextAssumption`, every set of providers and of requests:

* `TypeCorrectness`: `Spec => []TypeOK`
* `WritersExclude`: `Spec => []WritersAreAlone`
* `LookupsStayInTheList`: `Spec => []CandidateExists`
* `MapStaysConsistent`: `Spec => []MapIsConsistent`
* `SignaturesStay`: `Spec => SignatureIsFixed`
* `ActsAsOne`: `Spec => ActsAtomically`

All but the last follow from one inductive invariant, `IInv`, of five parts.

* `TypeOK`.
* `LockInv`: the locations of the threads and the two sets of the mutex
  agree, a writer is alone, and readers and writers exclude each other. Without it nothing
  could be said about the map between two steps of an operation.
* `CallInv`: a thread inside an operation holds a call of that operation, and a
  registration inside has a valid signature.
* `EntryInv`: in the locations between finding an entry and leaving it, the entry
  is there.
* `MapInv`: every entry is well formed, except the one a writer works
  on, of which it says how far the work is: `MapIsConsistent` speaks only of the
  times without a writer and is not inductive.

There is one lemma per action (`InsertKept`, `StoreCursorKept`, ...), with the parts
the action can disturb below it. `ErasedProperties` says what removing a
provider does to an entry, from `RemoveFirstProperties` of `SequenceLemmas`; the
lemma `Candidates` gives the bound of the cursor while lookups hold the mutex.
`SignaturesStay` uses the invariant at the one step that writes a signature.

`ActsAsOne` is the refinement of `RegistrySpec`. A registration takes effect when it has
appended the provider, or when it is refused; a deregistration when it has erased it or found
nothing; the sweeps when they have emptied the lists, before the empty entries are erased;
a lookup when it reads the port, or finds nothing. Each other step leaves the mapped variables alone,
since the table of `RegistrySpec` has only names with providers. `RInv` adds to `IInv` what the
mapping needs: `StageInv`, that a call has its result exactly in the locations after
its effect, and `WorkInv`, that the entry a registration has just made has the signature
it is called with, that entries about to be erased have no provider, and that the host a
lookup has read belongs to a provider that is still listed when it reads the port: no
writer comes in between, which is why the answer is made of two registered pairs at worst.

`RegistryLookups_proofs` proves, under the same assumptions:

* `LoneLookupsAnswer`: `HistorySpec => []LoneAnswerIsRegistered`
* `RoundsAreFair`: `HistorySpec => []RoundRobin`

The history variables only observe steps of `RegistryImpl`, so `IInv` is kept. `HInv`
adds `AloneInv`, that a reader which is not marked as overlapped is the only one;
`PairInv`, that what it has read is the pair under the cursor, which nobody moves but
itself; and `RoundInv`, that the providers of the current round are those in the places
before the cursor, going round, and fewer than the list has. A provider handed out
is none of these because the list has no duplicates (`MapInv`).

`SignatureWire_proofs` proves, for any words, symbols, types and written texts:

* `ValidSurvives`: `Spec => []ValidArrivesUnchanged`
* `NameSurvives`: `Spec => []NameOfMatchedIsKept`
* `EqualsInterchange`: `Spec => []EqualMeansInterchangeable`
* `AnyIsLost`: `Spec => []AnyIsNeverRead`
* `TextsTellApart`, `ReceivedAsAssumed`: what `TextAssumption` of `IRegistry` and
  `ReceivedAssumption` of `RegistryServer` say is so of all signatures that the parser
  makes, and of what two readings make of them

They rest on `ReadShape`: a signature read from any text either has arguments and is
named by its head (`IsFull`), which is a word if it is valid; or it has none and is
invalid, and its text is its name with one pair of parentheses more (`IsBare`). The canonical
text of the first reads back to it if the head is a word (`FullReadsBack`). What is read
from a text without arguments has none (`BareText`); but a name may be a whole text, and have
them. `IInv` says that what the registry holds was read from some text (`OriginInv`), that a valid
signature has not changed, and that only a signature under the name that was sent
still has arguments, if that name was a word (`NamedInv`): this is why what lost its list does not come
back under another name, and its condition is what the `open` texts violate.

`RegistryServer_proofs` proves, for any programs, connections, pool and signatures that
meet `ReceivedAssumption` and `AskedAssumption`:

* `TypeCorrect`: `Spec => []TypeOK`
* `AcknowledgedIsDone`: `Spec => []AcknowledgedHolds`
* `SilenceIsNoEffect`: `Spec => []NoSilentEffect`

`EffectInv` is `AcknowledgedHolds` from the moment the registry has carried the call out,
not only from its answer: between the two, another request could undo it. That none
does is `OwnInv`: unless a program was disturbed, all it has asked for is settled
except the call it is in; and others ask about other addresses. The
rest ties the parts of the server together: `TaskInv` and `BacklogInv`, that a connection
is in one handler's hands or once in the backlog; `ReadInv`, that a handler calls the
registry with what it read; `ConnInv` and `LinkInv`, that request, answer and stage of a
connection agree, also with the program at its other end.

`Framing_proofs` proves, for every length of a header and any calls and messages with any
blocks that meet `FramingAssumption`:

* `TypeCorrect`: `Spec => []TypeOK`
* `ReceivedIsSent`: `Spec => []ReceivedAsSent`
* `NothingLost`: `Spec => []Placement`
* `NoMisfitRead`: `Spec => []MisfitsFail`

`StreamInv` is the heart: the filled parts of the blocks, then the buffer, then the
wire, are a beginning of what was sent, at every step of the cutting and copying.
`CopyInv` says that a block holds its own bytes up to where the reading goes on, and
`OrderInv` that a block is incomplete only when the buffer is used up and nothing has
arrived for the blocks after it; without it the filled parts would not be contiguous.
`HeaderInv` brings the stream through the reading of the header, `AcceptInv` ties the
blocks prepared to the parameters they fit, and `DoneInv` says that a message is received
only when all blocks are full.

`StorageService_proofs` proves, for any number of threads, names, images, pieces and
any tree of folders that meets `StorageAssumption`:

* `TypeCorrect`: `Spec => []TypeOK`
* `MutualExclusion`: `Spec => []SaversAreAlone`
* `WholeLoads`: `Spec => []LoadsAreWhole`
* `WholeFiles`: `Spec => []FilesAreWhole`

Its `IInv` has, besides the types, `LockInv` (who is where holds the mutex, in the
mode its operation demands, from its lock to its unlock; the lock may be taken off
only by a crash, which takes the threads along), `CallInv` (steps fit the operation
they were called for), `FileInv` (a file that is not whole is being written or its
last save failed) and `LoadInv` (what a load has measured is still so when it reads:
this is what the shared lock is for).

The same module proves `Refinement`: `Spec => RefinesImageStore`. A save takes effect
when it closes its file or fails, a load when it has read, a list when it has listed;
every other step leaves the mapped variables alone. The mapping has to say which thread, if any,
saves a name; that there is at most one is `LockInv`. Two more invariants are needed:
a call has its result exactly between its critical section's end and its
return, and a file under work holds the image its saver was called with.

`Deployment_proofs` proves, for any set of clients and services, any list of services a
provider offers, any pool and any list of clients the launcher starts
(`ProvidedAssumption`):

* `TypeCorrect`: `Spec => []TypeOK`
* `OneInvocation`: `Spec => []SuccessIsOneInvocation`
* `AlwaysAvailable`: `Spec => []NeverUnavailable`
* `LeavesNothing`: `Spec => []SuccessLeavesNothing`
* `ServicesFinish`: `Spec => RunningServicesFinish`
* `KeepRunning`: `Spec => []ClientsKeepRunning`, if clients ask for services that the
  provider offers (`Iterations \subseteq Seq(Offered)`); others end with an exception,
  since nobody registers what they want
* `OrderlyStop`: `Spec => []StopsInOrder`

Its `IInv` has, besides the types: `ConnInv`, that the stage of a connection tells how
often its service was invoked and whether it was answered, and that a connection which
is open is to a listener and asks for a service on offer; `MainInv`, that `main` is
where its listener and its process are, calls a registry that is up unless its call is
lost, has installed what it has registered in this life, has installed all when it
listens, and that what is still registered while it deregisters lies ahead of it
(`Ahead`) or is `late`; `ClientInv`, that whoever has found the provider asks for
something it offers; `LauncherInv`, that the launcher has a child to start or stop
next. `NeverUnavailable` is not inductive because the registry may hold names of an
earlier life: what saves it is that connections are accepted only when
everything is installed, whatever the registry said. The proof goes by program: `EachStep` finds
whose step it is, also behind the launcher's `CASE`s, and there is one lemma per
action (`RegisterServiceKept`, `CarriedOutKept`, `ServedKept`, ...). `ServicesFinish` rests on
`ServiceGoesOn`: only the close of the listener and the end of the process could
take an invocation's connection away, and `Close` waits until nobody is `Busy`; a
connection with a response under way is not `Busy`, and loses it.

`KeepRunning` adds to `IInv` the invariant `KInv`: a client fails only after it has found
nobody, was refused, or lost its connection, and in each case it is in `spoilt` and stays there
until it ends for another reason (`SpoiltInv`), because it ran while the system was not healthy;
`SoundInv` and `CallingInv` say which connections a client can lose. `OrderlyStop` adds `OInv`:
while `orderly` is true, how far the launcher has come in its list says what is still up
(`InOrder`): before the provider's turn it serves, at its turn it is told to stop and
deregisters while the registry is up, after it has ended with success the registry is stopped.
That the launcher comes to the clients, the provider and the registry in this order is
`WhoIsWho`, for any list of clients; it needs `ChildrenAssumption`, that no client is taken for
the provider or the registry.

**Only model-checked.** Liveness (`CallsReturn` of both modules, the fairness of
`RefinesRegistrySpec`, `EveryCallEnds`, `StopsOnSignal`, `Ends`, `ArrivesIfSent`,
`EveryCallComesToItsEnd`, `LauncherStops`), which is out of the prover's reach.

## 6. Findings

Three statements of the repository that a run refutes:

1. *An answer can mix two providers.* `registryimpl.cpp:106-108` reads
   `list[lastUsed]` twice and writes `lastUsed` under a shared lock. Two overlapping lookups
   return the host of one provider and the port of another
   (`registry_torn_answer`); `iregistry.h:58-59` promises those of "the service
   provider". The damage is limited to overlapping lookups (`LoneAnswerIsRegistered`)
   and never leaves the list (`CandidateExists`).
2. *`deregisterProvider` removes nothing.* It calls `registerService` with `any` and
   without the flag of a deregistration (`registry.h:65`), which the registry refuses
   (`server_deregister_provider`). With the flag it would be no better: `"*"` is read as a signature
   with the text `"*()"`, so that the request of `README.md:362-370` is answered by success and
   removes nothing either; that no text is read as `any` is `AnyIsNeverRead`.
3. *A peer's reset stops a provider.* Every handler of the skeleton logs
   `remote_endpoint()` outside of a `try` (`serviceskeleton.cpp:45, 80, 85, 156, 161, 163, 179`), which
   throws when the connection was reset. The exception leaves the handler and the
   thread, and the process terminates with its services registered
   (`deployment_reset`); `ssoa-storageprovider/src/main.cpp:108` says "run the server
   until stopped". Peers that merely close their socket, or are killed, do not have
   this effect, and no client waits for ever because of it (`EveryCallComesToItsEnd`).

What else was seen while modelling, without a run of its own:

* *A lookup ignores the parameters.* `iregistry.h:55` speaks of "a service with the
  given signature"; `registryimpl.cpp:102` compares names only. A client whose
  signature differs from the registered one is sent to a provider that does not have
  its service; two calls in a row show it.
* *An invalid signature can be registered.* A text that is malformed after its first
  arguments has a canonical text that is well formed, and that is what
  travels (`servicesignature.cpp:47`). `NameOfMatchedIsKept` says what still holds of it:
  it arrives under the name it was sent with.
* *And even under another name.* `Flip(in int, out buffer`, whose closing parenthesis is missing,
  is not found by `sigPattern`, so that it is its own name and its canonical text ends in `()`.
  That closes it: the registry reads `Flip(in int)`, first as an invalid and then as a valid
  signature named `Flip` (`servicesignature.cpp:23-47`), and registers it.
* *A killed provider can come back in the registry.* Its registration may be carried
  out after the provider was started again and has deregistered everything with success
  (`registry.cpp:42-45`); nothing tells an old request from a new one. `SuccessLeavesNothing` says how
  far this goes.
* *A stop cuts large responses off.* `run` waits for the services, but the rest of a response that
  the socket did not take at once is written by a handler of the `io_service` that has been
  stopped; images of megabytes, as `bin` has, do not fit a socket's buffer. The client
  reads the end of the connection and ends with an exception.
* *The third client of the test case ends at once, or as soon as it wants an image of its own.* The
  launcher gives it `client3images` (`testcase/src/main.cpp:126-129`), a folder that `bin` does
  not have. The iterator in `readRandomFileFromDisk` throws (`ssoa-client/src/main.cpp:40`; a file
  that cannot be opened does so at 76), and line 222 ends the client, in a system that is
  healthy. In `Deployment` this is the second alternative of `Begin`.
* *The documented deregistration registers.* `README.md:352-360` sends
  `unregister: true`; `registryregistrationrequest.cpp:23` looks for `deregister`, which
  it does not find.
* *A second instance of a provider at one address* fails to bind and deregisters the
  services of the first, which goes on serving (`ssoa-storageprovider/src/main.cpp:113-122`).
* *An image operation that throws leaves its temporary file* (`imagehelper.cpp:60, 76`).
* *The launcher signals process ids* that it may have reaped before
  (`testcase/src/main.cpp:50`); they may belong to somebody else by then.
* *A successful response with an empty status cannot be read*: `response.cpp:23` leaves the
  field out and `response.h:141` insists on it. Every service here gives one.
* *A response to a request that was not read* (`serviceskeleton.cpp:100-104`) is followed by
  closing a socket with unread data, which resets the connection: the answer may be
  lost. `NeverUnavailable` says that no client is sent there.
* *A failed save loses the old image* (`storageservice.cpp:102`): nothing
  says it should not, and `ImageStore` allows it.

## 7. What is not modelled

* *Image manipulation.* `imagehelper.cpp` and its two services are straight-line
  functions of one thread on files of their own; in `Deployment` they are services that
  return or throw. The pixels are those of `CImg.h`, a vendored library that makes up
  nine tenths of the lines of the repository.
* *The logger.* Its documentation says that it is not safe for threads
  (`logger.h:34-36`), and no decision of a program depends on what it prints.
* *The checks of `pushArgument` and `popArgument`* against the signature: sequential, on
  an object of one thread. A stub that has been invoked keeps its count and throws when
  it is invoked again, so that no arguments of an earlier call are sent.
* *Option parsing and the installing of factories*: straight-line code without state
  afterwards. The size of the pool, which an option gives, is a choice in `Deployment`.
* *The text of YAML documents*, which a library reads and writes. Of the
  registry's messages the kinds, the flag of a deregistration and the signature are
  modelled.
* *Of the storage:* `setPath`, which nobody calls, and the packing of a list of names
  into one buffer.
* *Of the client:* what a round does with images and files, except that reading its own may
  throw; which services it calls in which order is the constant `Iterations`.
* *Several providers* in `Deployment`: which of several providers a lookup finds is
  `RegistryImpl`'s matter.
* *The connections between the programs and the registry* in `Deployment`: a provider's request is
  written, and then carried out and answered in one step, or lost with the registry, or left to
  it; a client's lookup is one step, since it changes nothing. The steps in between, with threads and
  lost connections, are `RegistryServer`'s.
