# wg-feed in TLA+

This directory holds a TLA+ model of wg-feed, the configurations that check it with TLC and proofs of its main invariants with TLAPS. The reference is the Go code; where a document of the repository promises something the code does not do, a run of its own shows the difference (see *Disagreements*).

    tlc -config FeedServer_stream.cfg MCFeedServer.tla     # one run
    tlapm ReconcileProofs.tla                              # one proof module

`PROJECT.json` lists the components, the runs, the mutants (a plausible bug in the code for every property, which TLC must then find), the source lines of every definition, the hazards with the properties that watch them, and the theorems.

## 1. The system

wg-feed distributes WireGuard tunnel configurations. An operator uploads a *feed document* (a feed id, a list of endpoints it is served from, a list of tunnels), in clear or encrypted with age. A server answers it over HTTP as JSON or as an event stream. A client, given a *setup URL*, fetches it and makes the device's WireGuard backend match it.

| Component | State | Operations | Model |
|---|---|---|---|
| upload tool (`internal/upload`) | none | build the entry and its content-derived revision, one etcd Put | FeedServer, Responses |
| etcd store (`internal/etcd`) | one key per feed | Get, Put, Watch | FeedServer |
| HTTP server (`internal/server/httpapi`) | one goroutine per stream | routing, JSON with If-None-Match, `serveSSE` | FeedServer; its envelopes in Responses |
| envelopes and validation (`internal/model`) | none | validate an entry, a response, an error, a document | Responses |
| fetch and stream client (`internal/client/feed`) | none | one request, one stream, a pass over endpoints | Responses, Endpoints; their outcome in Daemon |
| endpoint order (`internal/client/state/bootstrap_url_map.go`) | salted hashes in the state file | reconcile, order | Endpoints |
| feed loops (`internal/daemon`: `Run`, `runFeed`, `pollLoop`) | per-loop locals, claimed feed ids, `errCh` | resolve, claim, bootstrap, stream, fall back to polling, poll, reconcile from cache | Daemon |
| sessions (`withStateSave`, `applyRemoteUpdate`, `maybeReconcileFromCache`) | the mutex, the loaded state | load, reconcile, save | Reconcile |
| reconciliation (`internal/client/client.go`, `ApplyFeed`) | the tunnel map of a feed | rename, apply, remove | Reconcile |
| state file (`internal/client/state`) | URL map; per feed: last revision, ciphertext, tunnels, endpoint order | Load, SaveAtomic | Reconcile, Daemon, Endpoints: the fields each needs; OneShot: the writing |
| one-shot client (`RunOnce`) | state in memory until the end | fetch and apply each URL once, save | OneShot |
| backends (wg-quick, NetworkManager, Windows) | interfaces, connections and their files, services | Apply, Remove | Backends; their contract in BackendContract and Reconcile |
| `wgquick` parser, `execx` | none | parse a text, run a command | Backends: that they refuse or fail |
| configuration, entry points, packaging | none | | not modelled |

They meet in five places. The upload tool and the server share an etcd key: a Put becomes a watch event. The server and a client share requests and streams. The loops of one daemon share the state file, the mutex, the claims and the channel on which the first loop to return ends the process. A session and the backend share the names of interfaces: the state file is the only record of which name the client created for which tunnel. The daemon and the one-shot client share the state file.

**What is hard.** A crash between a backend call and the save. Applies that fail half way, when the loop has noted the revision already. Several loops loading, changing and saving one file. A revision that is a content hash and so comes back after a rollback. Removal by name after apply by name. A watch opened after the read it continues. A first loop that returns and takes the others with it. Endpoints that answer the wrong kind of response, or refuse for good while others work. Command sequences that start from whatever a failed or killed one has left. `PROJECT.json` lists each of these at its line.

**What makes each part correct.** The server: a client's view of a feed never goes back, and a stream passes over no valid version. A session: it loses no other session's records. Reconciliation: when it ends without an error the document is in force, a tunnel whose enabled value is not forced keeps the local one (but see section 6), and nothing it created is forgotten while it exists. The loops: no two resolve to one feed, and what is published is in force some time after failures end. The endpoints: one that works is found, as long as no other holds the loop with a stream it can make nothing of; no order loses or revives one. The backends: a success means the tunnel is as asked, a retry gets through, a removal leaves nothing. The one-shot client: it changes the state file once, at its end, or not at all, and then only for the feeds it was given, endpoint orders excepted.

## 2. The modules

    FeedView <---implements--- FeedServer ---- MCFeedServer
                                   \---------- FeedServerProofs

    Responses <--- Endpoints ---- MCEndpoints
        \              \--------- EndpointsProofs
         \------- ResponsesProofs

    BackendContract <---implements--- Backends ---- MCBackends
                                          \-------- BackendsProofs

    SessionContract <---implements--- Daemon ---- MCDaemon
          ^                               \------ DaemonProofs
          |
          \-------implements--- Reconcile <--- OneShot
                                   \  \           \
                                    \  \--- MCReconcile <--- MCOneShot
                                     \----- ReconcileProofs <--- ReconcileDeviceProofs <--- OneShotProofs

The parts are connected by abstraction: each module leaves open what its neighbour does, and the neighbour is a restriction of it.

* **Reconcile** lets any loop receive any revision at any time, so its results hold whatever order servers answer in. It splits a session into its steps: `BeginUpdate` or `BeginCache` (lock, load, first writes, the revision gate), `RemoveRenamed`, `ApplyOk`/`ApplyFail`, `RemoveMissing`, `EndReconcile`, `SaveOk`/`SaveFail`, with `Crash` possible between any two. `op[u]` is the program counter and the locals, `mem[u]` the loaded State, `device` what the backend holds under each name.
* **SessionContract** is what the two models of a session have in common, feed by feed: the state file changes in one step, for the setup URL and the feed of one document; the device is worked on for one feed at a time; a revision becomes the one last reconciled only while the device holds it. Reconcile implements it with the session spread over many steps (`Holds(f)`: the revisions whose tunnels all have their recorded names, values and configuration), Daemon with `holds <- {device[f]}` unless it is partial. Both refinements are checked and proved, so what Daemon takes for granted about a session is what Reconcile's session does.
* **Daemon** takes a whole session as one step: by SessionContract and `OnlyOwnFeedSaved` sessions are serialised and touch only their own feed, and by `LockReleased` they end. It has one action per place where a loop waits: `Resolve`, `Bootstrap`, `BootUpdate`, `OpenStream`, `Event`, `Listen`, `Fallback`, `Poll`, `PollUpdate`, `RetryAfterCache`; and `Publish`, `Crash`. A revision is its position in what a URL publishes (`Plan`); `device[f]` is the revision in force, or that an apply of it was left half way.
* **Endpoints** opens up one pass of Daemon: the endpoints in order, what each answers, how failures add up, and the stored order of hashes. One loop, because endpoint state is kept by feed. The lists are selections by rank (`Picked`: the k-th element is the one whose index has k indices selected up to it), which says what the loops with their `seen` and `used` sets return without a recursion over the list, so that it can be proved about.
* **OneShot** extends Reconcile by a run of the one-shot client. While a run is on, `lock` names the URL it works on, so that its ApplyFeed is Reconcile's, with the same names and effects; `run` has where it is, `tmp` the file SaveAtomic writes first (`Truncate`, `Write`, `Rename`). A run that dies or fails in between leaves a `.tmp` that counts as cut short, since the next save truncates it anyway (`LeftBehind`). `AfterFetch` is the endpoint order that a fetch over cached endpoints leaves, whatever comes of the document. Runs and sessions of the daemon take turns on one file.
* **Backends** is what stands behind `ApplyEffect`, `FailedApplyEffects` and `RemoveEffects` of Reconcile: `pc` is the command that runs next, one action per command, one action `Fail` with what the code does after each. **BackendContract** is the abstract specification, with the effects of Reconcile spread over the time of a call; Backends implements it with `device <- Tunnel`.
* **Responses** has operators only: how an uploaded entry becomes a stored one, a response and an event, and what the client makes of a response. Endpoints decides by them.
* **FeedServer** is the other end. A version is a position in the key's etcd events; `conn` is the goroutine of a stream (opened, but its watch not yet on; streaming), `pipe` the events in flight, `seen` the client's version. Requests are any method, any Accept set, conditional or not.
* **FeedView** is what the server promises: numbered versions, each client moving forward through them. FeedServer implements it with `latest <- Len(log)`.

Definitions whose comment begins with *Mutant* are not part of the model. They are altered forms of the definition that follows them.

## 3. The runs

Distinct states are those TLC reported.

| Run | Asks | Properties | States |
|---|---|---|---|
| `Reconcile_two_feeds` | do sessions keep ApplyFeed's promises, and each other's records, over renames, forced tunnels, removals, crashes and failures? | TypeOK, CacheKeyedByFeed, ReconcileEstablishes, OnlyOwnFeedSaved, Isolation, TrackedUntilRemoved, StickyEnabled, KeepsSessions | 292 923 |
| `OneShot_two_urls` | does a run save all of its work or nothing, and is what it saves in force? | RunTypeOK, AllInForce, AllOrNothing, RunStickyEnabled, LockReleased | 351 516 |
| `Backends_commands` | do the command sequences keep the contract, whatever failed or died before? | TypeOK, EnabledFailsOnlyOnFault, FreshInForce, CleanRemove, KeepsContract | 1 555 884 |
| `FeedServer_stream` | is what clients see in order, complete and delivered? | TypeOK, NoUpdateSkipped, InOrder, Delivered | 37 937 |
| `Daemon_stream` | do loops keep their feeds apart and recover, and keep the contract of sessions? | TypeOK, ClaimsHeld, NeverOlder, StreamRecovers, KeepsSessions | 21 727 |
| `Endpoints_fallback` | is the stored order right, and is a working endpoint found? | TypeOK, OrderFitsEndpoints, RecentFirst, StopsOnlyWhenAllRefuse, GetsDocument | 255 136 |
| `Reconcile_handover`, `Reconcile_first_failure`, `FeedServer_gap`, `Daemon_duplicate`, `Daemon_poll`, `Endpoints_livelock` | does the code do what the documents say? (no: section 6) | one each | until violated |

**Bounds.**

* *Reconcile* has no counter: TLC explores every session over its documents, any number of times, in any order. What is bounded is the documents, chosen so that each branch of ApplyFeed is met: two feeds reuse a tunnel id, and r2 renames a tunnel, forces it and drops another; r2 is encrypted, so that it is reconciled from the cache too. Two tunnels suffice for an apply to fail after another has succeeded; the renamed tunnel's new name lets it coexist with its old one.
* The backends differ towards ApplyFeed in one way, `KeepsProfile`: NetworkManager keeps the connection of a disabled tunnel, wg-quick and Windows remove the interface. `Reconcile_two_feeds` has it TRUE, `OneShot_two_urls` FALSE. A `Remove` that does nothing (fault "remove") is explored in `OneShot_two_urls` only: every backend's `Remove` swallows its errors, after which TrackedUntilRemoved cannot hold; the hazard list says so.
* *OneShot*: documents of its own: two feeds reuse a tunnel id; r1 is encrypted, so that a run may fetch from cached endpoints, and has a disabled tunnel; r2 renames a tunnel, forces it off and drops another. Any number of runs over both URLs or the second one, and every fault. The URLs may resolve to the same feed, so that the second is ignored, and a URL to another feed than before, so that the endpoint order of the old one is rewritten. An endpoint order is the revision whose endpoints it has; what the list looks like is the matter of Endpoints.
* *Backends* has no counter either. Two names, because nmcli reload reads all connections; four configurations: two that differ in keys and addresses, one without addresses of its own, one that NetworkManager refuses. `MayFail` is every command but `nmcli reload` and `uninstall` (`ResultsChecked`, section 4).
* *FeedServer*: `MaxWrites` = 3 events: one before a stream opens, one between its read and its watch, one after; or a valid entry between two others. Two documents and two TTLs separate the revision from the entry. One client: clients share nothing but the key, which none of them writes; the theorems are for any number.
* *Daemon*: `MaxFaults` = 4 of six kinds, so that an apply, a fetch, a cache reconciliation and a restart can fall into one history. Two URLs: one is of feed fa in one revision and is not served as a stream, the other begins as fa and becomes fb in two revisions, so a claim is contested before and after a restart and the polling and the streaming loops share a device.
* *Endpoints*: six kinds of answers: a server with an encrypted feed, one with a plain feed and no streams, an intermediary's JSON error, a server without the feed, a feed encrypted for another key, one whose ciphertext is broken off. `MaxChanges` = 3 publications, changes of an endpoint's answer, or restarts. The setup URL has the key of endpoint a (it differs in its fragment, which the hash leaves out); the second document drops a, adds c and lists b twice.

**Deadlock** is checked in Reconcile, OneShot, Backends and FeedServer. In Daemon and Endpoints it is off: when `Run` has returned, or a loop has stopped, or everything published is applied, nothing need happen.

**Fairness.**

* OneShot: `WF(RunStep)` and `WF(DaemonSession)`. The process and the goroutine that holds the mutex are scheduled, fetches end and each backend command returns. The commands have no timeout in the code, so this is an assumption about them, and it is listed as a hazard.
* FeedServer: `WF` of `StartWatch`, `Deliver` and `Receive`, per client: the goroutine runs, etcd reports its events, bytes arrive. `Drop` is never required and always possible, so Delivered allows for it.
* Daemon: `WF(LoopStep(u))`: the loop is scheduled, fetches end (they have a timeout of 15 s), delays end. Opening a stream has no timeout in the code; that it ends is assumed, as for Endpoints below. Failures are bounded by `MaxFaults`; TLC's "once failures stop" is what remains after the last. No branch is preferred: a cache reconciliation may be throttled each time.
* Endpoints: `WF(LoopStep)` and `WF(Breaks)`. The first includes that an event a stream has brought is read. The second says that the end of a stream whose endpoint does not serve it any more is noticed. The code sets no read timeout on streams and does not watch the server's pings; with a half-open connection the assumption fails (a hazard, and not claimed otherwise).

## 4. Choices a reader should know of

* `NamesOwned`: every name belongs to one tunnel of one feed in all revisions. Nothing validates it. ReconcileEstablishes, Isolation and TrackedUntilRemoved are stated under it; `Reconcile_handover` shows what happens without.
* `ReconcileEstablishes` is about an ApplyFeed that ends without an error. Whether the device stays as it is between sessions is not ours to say.
* StreamRecovers excepts `LeftPartial`: a forced reconciliation from the cached document that fails half way, of the revision that was last reconciled. The gate of `applyRemoteUpdate` then skips that revision when the server is back, and nothing repairs the tunnels until the next revision. The exception names exactly that state; a failed apply of an update (`Partial`) is not excepted.
* In Daemon the bootstrap, stream and poll documents of a URL are its newest: that streams and polls go forward is FeedServer's InOrder. The gap of `FeedServer_gap` is left out of it.
* *What the commands do* is not in the repository. Backends models them from how the code uses them: `wg-quick up` of what is up and `down` of what is not up fail, `wg syncconf` replaces keys and peers only, `nmcli reload` reads every file it can parse, `up` activates what was read, `delete` deletes a connection with its file. `wg-quick down NAME` is taken to find the interface although its configuration file was a temporary one, because the code relies on it. A file that is cut short is empty (as good as none) or cannot be parsed (`None`, `Torn`).
* *ResultsChecked*: the results of `nmcli reload` and of the uninstall before an install are thrown away. If such a command fails, the old configuration runs on and success is reported; KeepsContract and FreshInForce are stated for the others failing.
* `EnabledFailsOnlyOnFault` is about enabled tunnels. For disabled ones it is false: `wg-quick down` and `nmcli connection down` fail when nothing is up, and their error is returned.
* KeepsContract compares keys and peers, the part every backend replaces. Addresses, DNS and MTU are claimed for tunnels that were not there before (FreshInForce).
* Tunnel names match `^[A-Za-z][A-Za-z0-9-]*$` (validate.go:12), so `sanitizeFileName` gives different names different files.
* An event the client can make nothing of is logged and ignored (`EventIgnored` in Endpoints), with the stream open: GetsDocument excepts a loop such a stream holds (`Held`). The server does send such events: a ciphertext that is broken off is a valid entry, and by `ServerUnderstood` the client judges it by decrypting it. Daemon leaves them out: what is published there opens with the key of the URL. An unasked 304 is left out everywhere.
* StickyEnabled has one exception, `StoppedAt`, and it is the code's: a session that stops between the removal of an old name and the record of the new one saves the tunnel without a record. RunStickyEnabled has none, since a run that stops saves nothing.
* AllOrNothing lets the endpoint order of a feed change that the run was not given, if the run may have fetched from its cached endpoints (`FetchedBy`); section 6 has the lines. Nothing else of that entry may change.
* In OneShot a run and the daemon take turns. Nothing in the code sees to that: the mutex is within one process, and two processes that save at one moment overwrite each other. The properties hold if the operator does not run them at once.
* Left out everywhere: text formats, cryptography, hashing (a function from URLs to keys), timing (a delay ends some time), logging, retries' backoff.

## 5. The proofs

Every theorem is for all values of the constants under the module's named assumptions, which TLC evaluates for the instances of the runs.

**ReconcileProofs** (any loops, feeds, tunnels, documents, faults; from `DocAssumption`, `NoneAssumption`, `FaultAssumption`).

* `TypeCorrect`: `Spec => []TypeOK`. TypeOK is not inductive: that `Current(u)` is a tunnel needs that a loop past "idle" has a revision, a position and a loaded State. `SessionOK` says so, and that such a loop is the one that holds the mutex.
* `OwnFeedOnly`: `Spec => OnlyOwnFeedSaved`. A save writes the whole loaded State, so that it changes one feed only is a fact about the file since the load: `MemAgrees`, the loaded State and the file differ at most in the entry of the session's feed and in the session's URL. It holds because only the holder of the mutex saves: the argument of a critical section.
* `CacheKeyed`: `Spec => []CacheKeyedByFeed`, by `KeyedStates`: the file and every loaded State have ciphertexts and revisions only under their own feed.
* `EnabledSticks`: `Spec => StickyEnabled`. `Sticky`: in the map a session works on, every tunnel the session started with either keeps the stored enabled value or is forced by the document, and a tunnel the session has not come to still has its stored record. `AllRemembering`: a tunnel that has a record in the file and none in that map is not listed (`NotListed`), or is the one the session is at, under a new name, and its Apply is not done (`RenamedHere`). A save at an error turns the second case into the exception of the property.

**ReconcileDeviceProofs** (the same constants; each result is about documents in which every name belongs to one tunnel of one feed, `NamesOwned`).

* `FeedsIsolated`: `Spec => Isolation`. `OwnedStates` is the invariant: every record, on disk, in memory and in the map being worked on, has a name that some document of its feed gives to its tunnel. So each backend call of a session is for a name of its own feed.
* `NothingForgotten`: `Spec => TrackedUntilRemoved`, if fault "remove" is excluded: every backend's `Remove` swallows its errors, and where one does nothing the property is false. `Tracked`: each record the file has is in the session's map under its name, or the backend holds that name no more. A later call may not bring the name back: by OwnedStates it belongs to that tunnel alone.
* `Establishes`: `Spec => []ReconcileEstablishes`. `Progress` says that the tunnels before the current one are applied. A backend call is for the current tunnel, for its old name or for a tunnel the document does not list; by OwnedStates none of these names belongs to a tunnel already applied. Without NamesOwned this is where the proof breaks, and `Reconcile_handover` shows it.
* `SessionsKept`: `Spec => KeepsSessions`, the refinement of SessionContract. A step of a session maps to `Work` for its feed or to a stutter, the save to `Record`. The save needs to know what was loaded: `Loaded` says which fields of the loaded State differ from the file, and that a new last revision is one the device holds.

**BackendsProofs** (any names, configurations, backends, failing commands; from `BackendsAssumption`, `NoneAssumption`).

* `TypeCorrect`.
* `RetryGetsThrough`: `Spec => []EnabledFailsOnlyOnFault`. The last command of an Apply must find the device ready: `Prepared` says what each program point has established (nothing up before `wg-quick up` and `install` unless a command failed, the connection read before `nmcli up`), `Flow` which program points belong to which backend and call, `OnlyNMFiles` that only NetworkManager has files.
* `ContractKept`: `ResultsChecked => (Spec => KeepsContract)`, the refinement of BackendContract. Every command maps to its `Work` or to a stutter; that a return with success maps to its `Return` needs `Done`, what holds at "ok".
* `FreshTunnels` and `RemovesAll`: FreshInForce (under ResultsChecked) and CleanRemove, from `FreshOnly` (a fresh tunnel stays free of older values up to its last command) and `RemovedSoFar`.

**ResponsesProofs** (every entry and response; no assumption).

* `UploadsValid`: what the upload tool stores, the server serves.
* `ServerUnderstood`: what the server sends, as JSON or as an event, the client takes for what it is, and a server error is final exactly if it says so.
* `FinalOnlyIfSaid`: which answers are final to a fetch, exactly: a valid error in JSON that is not retriable, and a valid response whose ciphertext does not open or opens on no document.

**FeedServerProofs** (any clients, documents, writes; from `ServerAssumption`).

* `TypeCorrect`.
* `InOrderHolds`: `Spec => InOrder`, the refinement of FeedView. What has to be known of a stream is `Monotone`: the client's version, the versions in flight in their order, the next one the watch reports and the end of the log are in that order. Init and every step are mapped to FeedView's, or to a stutter.
* `NothingSkipped`: `Spec => []NoUpdateSkipped`. `Covers`: every valid version the watch has reported and the client does not have is in flight, and the versions in flight that the watch reported are valid, newer than the client's and in strict order; `SkipInv` adds that the client's version is one the watch has passed. With Monotone that is inductive.

**DaemonProofs** (any URLs, feeds, plans, faults; from `DaemonAssumption`).

* `TypeCorrect`. Strengthened by `InHand`: what a loop has in hand is a revision its URL has published; otherwise `FeedAt` need not be a feed.
* `ClaimsHeldAlways`: `Spec => []ClaimsHeld`. A loop gets a feed in the step that claims it, claims are made only where there is none, and only a restart, which resets every loop, gives them up.
* `SessionsKept`: `Spec => KeepsSessions`, the refinement of SessionContract: an update, finished or failed, maps to `Record`, a forced reconciliation from the cache to `Work`, everything else to a stutter. `InHand` makes the revision one that is `Published`.

* `NeverOlderHolds`: `OneOrder => (Spec => []NeverOlder)`. What a loop has in hand may have been fetched long before it is applied, so the invariant has to compare three things: what loops hold, what was last reconciled and what is cached. `OrderInv`: no loop holds what is not published; the revision f was last reconciled at comes from a URL (`ReconciledFrom`) that has published it and whose loop has nothing older in hand; neither the cached document nor what the backend holds is older than it. `OneOrder` says that a feed two URLs publish has one revision. Without it nothing says which of two revisions is older (revisions are hashes, and each URL has an order of its own), and OrderInv is false: TLC finds it violated by two URLs that publish one feed in different revisions.

**OneShotProofs** (any lists of URLs, and the constants of Reconcile).

* `RunTypeCorrect`, `AllOfRunInForce`: `OnceSpec => []RunTypeOK`, `OnceSpec => []AllInForce`; `RunAllOrNothing`, `RunEnabledSticks`: the two action properties. The invariant is `OnceInv`. While a run is in ApplyFeed, or the daemon at work, the invariants of Reconcile hold (`SessionInv`), and its lemmas are used as they are: they were stated for any state a session starts from. Between two URLs of a run no call is on; `RunState` says what is known of the State in memory: the entries of the feeds the run has not come to are those of the file, and each feed it has applied is `Done`, that is, at its revision, with the stored enabled values or forced ones, and in force. The next call keeps that because a run works on each feed once (`Ignored`) and, under NamesOwned, calls the backend for names of its own feed only. For AllOrNothing `AgreesBut` compares the State in memory with the file: the entries of feeds the run has not come to differ in their endpoint order at most, and only if they are in `FetchedBy`.

**EndpointsProofs** (any URLs, keys, documents, answers; from `EndpointsAssumption`).

* `OrderedFacts`, `ReconciledFacts`: what the two functions of `bootstrap_url_map.go` return, for every list: the same endpoints with the preferred one first; each key of the document once with the promoted one first. They rest on `Ranks`: the ranks of a set of n indices are 1..n. The rank is an injection into an interval of the same size, hence onto (FS_Injection), which takes the place of an induction over the list. `Least`, that a set of indices has a least one, follows from it too, and gives the first occurrence that `Unique` keeps.
* `EndpointsTypeCorrect`, `OrderAlwaysFits`, `DeliveredFirst`: TypeOK, OrderFitsEndpoints and RecentFirst. `LearnedOK`: the stored order has the keys of the endpoints in use and also of those in the cache, each once, and begins with the key of the last URL if it has it. The cache is what makes it inductive: a restart takes the endpoints from there.
* `StopsIfAllRefuse`: `Spec => StopsOnlyWhenAllRefuse`. `PassOK`: a pass has counted at most the URLs that had their turn, and if it has counted that many, then every one of them gave a final answer. `TerminalFinal` is the lemma about Responses: what the client takes for the last word is what the draft calls final.

**Only model-checked:** liveness, that is LockReleased, Delivered, StreamRecovers, GetsDocument, since liveness under fairness and ENABLED are out of this prover's reach. Every safety property and action property of the passing runs, and every refinement, is also proved. Inductions over data are out of reach too; no definition is recursive.

## 6. Disagreements the runs show

| Run | The code | Against |
|---|---|---|
| `Reconcile_handover` | applies all tunnels, then removes unlisted ones by recorded name: a tunnel recreated under a new id with the old name is removed right after it was applied | draft, sections 5.2 and 5.5 |
| `Reconcile_first_failure` | drops the new tunnel map of a first reconciliation that fails: what it had created is not recorded and never removed | draft, line 341 |
| `FeedServer_gap` | opens the watch after it has read the key, without a revision: an upload in between is not streamed | draft, section 3.2 |
| `Daemon_duplicate` | a loop that finds its feed claimed returns, and `Run` returns with the first loop that does | the daemon's README |
| `Daemon_poll` | remembers a polled revision before applying it: a failed apply is not tried again | draft, section 2.2 |
| `Endpoints_livelock` | an endpoint that answers a stream request with JSON ends the pass; if its document says `supports_sse`, the loop asks it first again, for ever | draft, section 4.4 |

`PROJECT.json` has the lines. Noticed while modelling, without a run of its own:

* A rename forgets a local enabled value if its Apply fails: the record is deleted before the Apply (`client.go:146,150`), the session is saved at the error (`daemon.go:256-257`), and the next one takes the tunnel for new, with the document's value: a tunnel that was disabled locally comes up (draft, lines 320 and 345). StickyEnabled names it as its exception.
* A stream whose events do not decrypt because the ciphertext is broken off (`age.go:51`) stays open, and no other endpoint is asked (`daemon.go:144-145`); the draft (line 250) has clients go on to the next one. Without the exception `Held`, GetsDocument is violated in `Endpoints_fallback`.
* The one-shot client writes the endpoint order under the feed the URL was mapped to before it looks at the document's feed id and at `seen` (`client.go:72-75,91`): if the URL has come to serve another feed, or one of this run, an entry the run is not concerned with gets the endpoints of another feed's document.
* The gate skips revision r1 after a failed r2, though r2 has changed tunnels (`daemon.go:417`): revisions are content hashes, so a rollback brings r1 back (draft, section 2.2).
* Applying a disabled tunnel whose interface is not up fails, every time, with wg-quick and NetworkManager, and ends the reconciliation there (`wgquick/backend.go:61`, `networkmanager/backend.go:85`).
* A connection file that was cut short makes every Apply of its tunnel fail until it is removed (`networkmanager/backend.go:99-101`).
* A shutdown cancels the context: a Remove that is running does nothing, its record is deleted and saved (`client.go:162-165`), and the tunnel stays for good.
* Keys a new configuration does not set stay in the connection file; the keepalive and all but the first address of a family never get there (`networkmanager/backend.go:118-152`); an interface that is up keeps its address, DNS and MTU (`wgquick/backend.go:112`).
* The key of a setup URL leaves out the age key: after a change of key the cached ciphertext is found, does not decrypt, and the one-shot client (`client.go:54-57`) and the daemon's start (`daemon.go:212-214`) fail every time.
* A ciphertext that breaks off, and a fragment that is no key, are retried like a lost connection (`age.go:30,51`); the draft (lines 171-172) has them terminal. An error envelope without `retriable` counts as final: an absent field is false.

* A terminal bootstrap answer or a failed bootstrap apply of one URL ends the daemon (`daemon.go:104-105,128-129`).
* A document whose feed id changes is neither refused (draft:212) nor claimed under its new id.
* Streams try endpoints in document order, not in order of preference (draft:251); only polls and a restart read the stored order.
* The loop stops only if *all* endpoints refuse for good (`endpoints.go:88,128`); the draft (line 131) speaks of all *reachable* ones, so one unreachable endpoint keeps it trying.
* When a stream's callback has replaced the endpoints, the pass goes on over the old list, and its refusals are counted against that.
* A fallback fetch that fails makes the loop poll for good, whatever the servers offer later.
* `ttl_seconds` is not part of the revision: a new TTL alone is answered 304.
* Validation lets an endpoint be listed twice.

## 7. Plan

Done, in this order: Reconcile and its proofs (the part that changes the device), FeedServer with FeedView and its proofs, Daemon and its proofs, Endpoints; then Backends with BackendContract and its proofs, OneShot, Responses and its proofs, SessionContract with the proofs that Reconcile and Daemon implement it, and the proofs of the remaining safety properties of Reconcile and FeedServer.

The proofs of OneShot, Endpoints and NeverOlder came last.

Next, modelling:

* *Feed identity*: changed feed ids and changed keys, in Daemon.

**Not modelled**, with the reasons: the parser of wg-quick texts, the keyfile's text and the canonicalisation of uploads (conversions of text without state; what they refuse is modelled), configuration from the environment, entry points and connection set-up (read once at start), logging and redaction, `FetchAndValidate` and `FetchConditional` (nothing calls them), packaging and tests.

Runs stay few. New questions about a module are added to its existing run where the instance allows it.
