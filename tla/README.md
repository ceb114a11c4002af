# A verification project for tg-bridge

tg-bridge is a Go daemon that lets small devices use one Telegram user account
over HTTPS and WebSocket. This directory holds TLA+ models of its concurrent and
stateful parts, TLC configurations that check them on small instances, and TLAPS
proofs of their main safety properties for all instances. Paths below are
relative to the repository (`src/` here).

## 1. Inventory

| Component | State | Operations | What makes it correct |
|---|---|---|---|
| Auth rate limiter (`internal/httpapi/ratelimit.go`) | `buckets`: tokens and time of last refill per IP | `allow` | grants in any window are bounded; a patient client is served; the map is bounded |
| Event broker (`internal/bridge/updates.go`) and stream (`internal/httpapi/ws.go`), fed by `dispatchMessage` (`internal/bridge/bridge.go`) | `subs`, `nextID`, one buffered channel per handler, an RW mutex | `Subscribe`, its unsubscribe function, `Publish`, the select loop, ping, reader goroutine | no send on a closed channel; no blocking; slow and dead devices hurt nobody else; order; allow-lists |
| Login flow (`internal/bridge/auth.go`, `Bridge.Run`, `internal/httpapi/auth.go`) | published state and error, three one-slot channels, `clientReady`, `self` | `Phone`/`Code`/`Password` prompts, `Submit*`, `runAuth` and its loops, the callback of `Run` | the status is backed by a session, and followed by service; submissions are neither lost nor used twice; no dead end; cancellation ends it |
| Media cache (`internal/bridge/mediacache.go`), used by `FetchMedia` and `handleGetMedia` | index (`entries`, `lru`, `total`) under a mutex; files outside of it | `Get`, `Put`, `evictLocked`, `newMediaCache`, `ServeFile` | index and directory agree; entries are whole photos; the size limit; restart |
| Media ids (`internal/bridge/media.go`) | the id a device keeps; `media.key` | encode, decode, `pickSmallestPhotoSize`, `FetchMedia` | the photo fetched for an id is the one shown with it; a damaged id gets nothing, one of another key nothing that is not cached; the smallest thumbnail is chosen |
| Persistent secrets (`internal/bridge/mediakey.go`, `internal/tlsutil/tlsutil.go`) | `media.key`, certificate and key files | load or create | stable across restarts and crashes |
| Lifecycle (`cmd/tg-bridge/main.go`, `internal/httpapi/server.go`) | contexts, error channel, exit status | start, fatal error, signal, shutdown | every end is noticed, and restarted when it should be |
| Chats and peers (`internal/bridge/chats.go`, `send.go`) | `peerCache` under an RW mutex, filled by every list and every `resolvePeer` | `ListChats`, `resolvePeer`, `cachePeer`, `GetMessages`, `SendText`, `MarkRead` | a request reaches the chat it names, whatever other requests cache meanwhile; nothing is sent twice; a chat that was shown can be used |
| Request authorization (`internal/httpapi/middleware.go`, `chats.go`) | the token of a request | `withAuth`, `TokenToClient`, `clientCanAccess`, the filter of `handleListChats` | a token reads, sends to, marks and lists the chats of its client only |
| Configuration (`internal/config/config.go`) | none after start | `Load`, `validate`, `TokenToClient` | every client of a configuration that is accepted has a token |

**How they interact.** `main` starts two goroutines: `Bridge.Run`, whose callback
logs in (blocking on channels that the `POST /v1/auth` handlers fill), then
stores `self`, warms the peer cache and runs the updates manager; and the HTTP
server, one goroutine per request. Update handlers call `Publish`, which copies
events into the channels that `handleEvents` goroutines drain. `FetchMedia` calls
run concurrently in request goroutines. Handlers that need Telegram poll
`waitReady` until `clientReady` and `self` are set.

**What is hard.** Publish against unsubscribe; full channels; silent devices;
answers that arrive before their question; errors of Telegram in the middle of
the login; concurrent `Put`s that share a file name; eviction between `Put`'s
rename and its critical section, and between `FetchMedia` and `ServeFile`;
requests that refresh the peer cache while another uses it; groups and channels
with one bare id; lengths that are cut to their fields; restarts with half-written
files; crashes between the writes of the secrets. `PROJECT.json` lists these
hazards at their lines, with the properties that cover them. The repository has no tests.

## 2. Modules

| Module | Models |
|---|---|
| `RateLimiter` | the token buckets; time in ticks, tokens in units so that one tick refills one unit (the floats of the code are exact here) |
| `RateLimiterProofs` | TLAPS proofs about `RateLimiter` |
| `Broadcast` | what the event stream promises, without locks, ids, maps and channels: a best-effort broadcast |
| `Events` | updates manager, broker and WebSocket handlers; its end maps its state to that of `Broadcast` |
| `EventsProofs` | TLAPS proofs about the broker of `Events` |
| `StreamProofs` | extends `EventsProofs`: TLAPS proofs about the events themselves and the refinement |
| `AuthFlow` | login and the callback of `Run` |
| `AuthFlowProofs` | TLAPS proofs about `AuthFlow` |
| `MediaCache` | the photo cache, its files and the requests around it |
| `MediaCacheProofs` | TLAPS proofs about `MediaCache` |
| `Peers` | chat requests from the token to the call of Telegram, and the peer cache |
| `PeersProofs` | TLAPS proofs about `Peers` |
| `MediaId` | choice of the thumbnail, layout and signature of media ids, as operators |
| `Api` | composes `Peers` and `MediaId`: chat requests, and the photo requests that bring back the ids these handed out, through a cache that earlier runs have filled |
| `ApiProofs` | extends `PeersProofs`: TLAPS proofs about `Api` and `MediaId` |
| `Process` | `main`, the TLS pair, the media key, and systemd around them |
| `ProcessProofs` | TLAPS proofs about `Process` |
| `MC...` | constants for TLC |

Every module has one action per step of the code that other goroutines can see:
what happens under a mutex is one action, what happens outside is one action per
call. Some definitions are followed or preceded by a variant whose comment starts
with "A ... that ..."; these are deliberate mistakes, used to see that each
property would notice one. They are not part of the specifications.

### RateLimiter

`allow(ip)` holds the mutex from start to end, so a request is one step. The
history variables `since` and `spent` observe one window per IP; `OpenWindow`
lets an observer start one at any time. Eviction picks any entry, as the range
over a Go map does. The bound `MAX_TIME` ends the clock.

### Events

`ppc`, `cur`, `todo` are the publishers' program counter, event and the rest of
the range over `subs`; `writer` is the goroutine that holds, or waits in, `Lock`
(Go's RWMutex lets no new reader pass a waiting writer); `wpc`, `sid`, `out`,
`cancelled`, `reader` are the handlers' locals; `queue` and `closed` their
channels. `peer` is the device: `"silent"` means that it vanished and nobody was
told. A closed channel that still holds events is never read: a handler leaves
its loop before it unsubscribes. `Discard` is `dispatchMessage` returning early.
`MAX_MSG` bounds the events of a publisher. Each connection is used once; a
reconnecting device is another connection.

### Broadcast, and how Events implements it

`Broadcast` has sources and devices. A broadcast begins, is from then on owed to
everybody who is subscribed, and ends when it owes nothing; each debt is paid by
`Put` into the box of the device or, only if `CAPACITY` events wait there, by
`Overflow`. A device gets what waits for it in order, except what it may not see.
The mapping at the end of `Events` takes the critical section of `Publish` for the
broadcast: it begins at `RLock`, when the map `subs` holds exactly the handlers
between `Subscribe` and unsubscribe; what is left of the range over the map is
what is owed. The box is the channel and the event that the handler writes. A
handler in any state between its error and its unsubscribe is `"failing"`: no
event leaves its box, and publishers may go on filling it.

### AuthFlow

`pc` and `stage` are where the callback is. A prompt is three steps: publish
(`Ask`), then either receive (`Take`) or see the cancelled context (`GiveUp`).
`SendCode`, `SignIn` and `Password` are calls to Telegram with every outcome that
the code distinguishes; any other error is `Fail`. `Submit` accepts a value whenever
its channel has room. The comment at auth.go:76 says that `Submit*` "Returns false
if no prompt is waiting"; the channels have a buffer of one, so the code accepts a
code that comes before its prompt, or a second one, and a later prompt takes it, and
so does the model. `granted` and `hashLive` are the state of
Telegram's side: a session, and whether the current code hash can still be used
(it cannot after `PHONE_CODE_EXPIRED` or `AUTH_RESTART`). `MAX_SUBMIT` bounds the
submissions of each kind.

### MediaCache

A file is the set of chunks written to it. The two names a photo can have
(`tmp`, `final`) and the file a writer still holds after its name changed (`fd`)
are modelled, because `Rename` and `Remove` do not stop a writer. `Get` and
`Install` are critical sections; `Open`, `Write`, `Stat`, `Rename`, `Abort` and
`Serve` run outside the mutex. The loop that evicts is written as its result, the
longest prefix of the list that may stay. Several removals of one eviction are
one step; they commute with everything another request does between them.
`Restart` is a crash or an exit at any point followed by `newMediaCache`. A crash
is that of the process: data handed to the kernel survives it. `raced` remembers
the ids whose entry or file two requests may have had a part in: another `Put` of
the id ran at the time, or its eviction came between the rename and the installation
of a `Put`. A `Put` of an id that is neither cached nor being put starts afresh.

### Peers

A request goes from `"new"` over `"lookup"` (the cache, under the read lock),
`"dialogs"` (the call `MessagesGetDialogs`), `"caching"` (one `cachePeer` per step,
under the write lock) and `"relookup"` to `"call"` and `"done"`; a list starts at
`"dialogs"`, and so does the warm-up of `Run`, which is a caller of its own. Every
step of one request interleaves with those of all others. `Verdict` is the order
in which `withAuth` and the handlers refuse a request. A reply of Telegram has up to `Limit` dialogs and
any set of objects beside them: objects of other chats, and dialogs whose object
is missing. `Indexes` are the maps by bare id that such a set can end up as: of a
group and a channel with one bare id, one hides the other, and `Found` drops an
object of the wrong kind, as the type assertions of the code do. Write requests
(`SendText`, `MarkRead`) differ in the call only. `effects` is what Telegram has
executed, including calls whose reply is lost. `Requests` come in by number, so
that instances differ in what they do and not in who comes first; each is served
once.

### MediaId and Api

A payload is a sequence of cells: the fields of fixed width are one cell each, the
two lengths are cut to `REF_MOD` and `SIZE_MOD`, and the variable fields have one
cell per byte, so that a parser that reads at the wrong place reads other fields.
HMAC and base64 are taken to be injective. `Api` adds to `Peers` the photo of a
message that a `messages` request returned (`shown`), the id of a photo request
(`asked`: one of those handed out, whole or damaged, or one made with a key that
has been removed), what it decodes to (`loc`), and what the file that it was answered
with had been downloaded from (`served`). The photo cache is a set of entries, a name
and what was downloaded under it: `Disks` are the files that an earlier run may have
left, perhaps under an earlier key; a download adds its own and evicts any others.
`ArriveMedia` follows `FetchMedia`: a hit is served at once, before the signature is
checked and before the login; on a miss the id is decoded, and an id that verifies
waits in `waitReady` until the login (a chat request is refused before it). How
concurrent `Put`s treat the files is the subject of `MediaCache` and left out here.

### Process

A file is `Absent`, `Torn` (created or truncated, not written to the end) or the
number of the secret it holds; certificate and key of one pair share a number.
`pc` walks through `EnsureSelfSigned`, `loadOrCreateMediaKey`, the rest of
`bridge.New` and the `select` of `main`, one step per file operation; `"backoff"`
(failed, systemd will restart it) and `"inactive"` (exit status 0, or never
started) are states of the unit. `Crash` may happen anywhere, `CallFails` wherever
an error leads to `os.Exit(1)`, `Refuse` where the files themselves make a start
fail. `StatFails` is a failing `Stat` on an existing pair, which the code takes
for a missing one; `blind` remembers it. `RunEnds` and `HttpFails` fill `errCh`.
`Run` may also return nil or
`context.Canceled` without a signal: nothing is sent to `errCh` then, and `main` goes on
waiting. The return of `main` is exit status 0 on every path. `logged` and `signing` are
history: the fingerprints and media keys that left the process. `MAX_FAULTS`
bounds crashes and failures together, `MAX_STARTS` the starts by the operator.

## 3. Runs

| Run | Shows |
|---|---|
| `limiter` | `WindowBound`: grants in any window are at most a burst plus the refill; `SpacedRequestsPass`: refusals do not starve a client; `BucketsBounded` |
| `limiter_minute` | **violated**: `TenPerMinute`. README.md:121 promises 10 requests per minute; the burst of 5 comes on top |
| `events_overlap` | `NoSendOnClosed`, `SubscriptionsMatchHandlers`, `WrittenIsAllowed`, `SlowCostsNobodyElse`, and the refinement `ImplementsBroadcast` |
| `events_live` | `InOrder`; under fairness `PublishReturns` and `GoneIsUnsubscribed` |
| `events_allowlists` | **violated**: `PerDeviceAllowLists`. README.md:20; `chatAllowed` applies the first client's list to everyone |
| `auth` | `AuthorizedIsGranted`, `UsedOnce`, `CodePromptHasLiveHash`; under fairness `SettlesForUser`, `CancelEndsRun`, `AuthorizedGetsReady` |
| `media` | `IndexCoherent`, `TotalIsSum`, `EntryIsWhole`, `NoStrayFile`, `DiskBounded`, `ServedWhole`, `EvictsOnlyWhenNeeded` |
| `media_atomic` | **violated**: `PutIsAtomic`. The comment at mediacache.go:94; two `Put`s of one id share their temporary file, and an emptied file is installed |
| `media_limit` | **violated**: `DiskWithinLimit`. README.md:22 promises a cache "enforced on `media.max_bytes`"; a `Put` whose temporary file another one has just emptied records the size 0, and the other writes on into the installed file |
| `api` | `EffectsAuthorized`, `AtMostOnce`, `TitledResolves`, `UntitledHasTwin`, `FetchedIsShown`, `SmallestServed`; under fairness `Answered` |
| `process` | `FingerprintStable`, `MediaKeyStable`; under fairness `Recovers` |
| `process_restart` | **violated**: `RestartedAfterFatal`. The unit says `Restart=on-failure`; `main` ends with status 0 after a fatal error |

`Recovers` excepts a torn private key or `media.key`: every later start refuses
such a file, and the operator has to remove it. A torn certificate is repaired,
because the key is written last. `FingerprintStable` excepts a failing `Stat`.

`Recovers` is about crash loops: it also accepts a unit that systemd leaves inactive,
which is what `process_restart` shows to happen after a fatal error.

`EntryIsWhole`, `ServedWhole` and `DiskBounded` speak of ids that are not raced.
`media_atomic` shows that the first two need the restriction, and `media_limit` that
the third does: the code does not bound what a raced id occupies. `DiskBounded` has two
exceptions more: a single photo larger than `media.max_bytes`, which `Put` keeps
(`lru.Len() > 1`) and the next start drops, and a file that a `Put` has renamed and is
about to install, which is not counted yet. `DiskWithinLimit`, the promise as README.md
has it, is stated for all ids, for moments when no request runs, and allows the single
large photo. A 404 for a photo that was evicted between `FetchMedia` and `ServeFile` is
possible and allowed by `ServedWhole`; `Api` has it as an answer too.

`AuthorizedIsGranted` says that the session is there when the status says so;
`AuthorizedGetsReady` that the status is not the last that a user hears of it: after
`authorized` either `self` is set, for which the handlers wait, or `Run` ends (when
`client.Self` fails) and `main` with it.

`UntitledHasTwin` states the exact extent of what sharing one map between basic
groups and channels costs: a chat whose object came with the reply is shown
without title, and is not cached, only if an object of the other kind came under
the same bare id. It is never mistaken for that other one: `EffectsAuthorized`
says that a request reaches the peer of its own chat id. `AtMostOnce` allows a
message that was sent although the device got an error (502, the reply was lost);
the code does not repeat the call. `FetchedIsShown` says what a device can get for an
id, from a download or from the cache: the photo of the message that carried it, or
nothing. An id under an earlier key downloads nothing, but is served if its photo is
still cached, since `FetchMedia` looks there first; a damaged id finds nothing, because
the name of a file is a hash of the whole id (taken to be injective). Photo requests are
under no allow-list; `EffectsAuthorized` is about chat requests. `FetchedIsShown` excepts a file reference
longer than its 16-bit length; `SmallestServed` excepts the number of bytes shown
for a progressive size that lists none, which the loop takes from an earlier size.

**Bounds.** `limiter`: three addresses and a map that evicts from the second
entry on, a burst of two requests, half a token per tick, five ticks: buckets run
dry, refill in part, overflow and are evicted. `limiter_minute` uses the ratio
of the server's `newRateLimiter(10, 5)`. `events_overlap`: two devices and two
publishers are what it takes for one Publish to overlap another, a joining and a
leaving handler; channels of one event are full at once, and one event per
publisher fills one and finds it full. The first client's list has one of two
chats, one device may see both, the other must skip whatever reaches it. `events_live`: one
device (devices do not share channels), two publishers with two events each, a
channel of two. `auth`: three submissions of each kind allow a rejected, an early
and a repeated one. `media`: two requests are enough for every race between two
steps of `Put`; three photos, of which two fit together and one does not fit at
all, give hits, replacements, evictions of one and two entries. `api`: two
requests of any kind, any token and any time beside the warm-up; a group and a
channel with the same bare id; three clients, one with access to everything, one
to the channel only, and one that shares the token of the second (the first
counts), beside a token that no client has; lists of one (warm-up) and
two dialogs, where a limit above the maximum becomes the default; length fields
of four values, so that one of the file references overflows its own; sizes in
several orders, with a stripped and an unsized one, and a photo without a media id; of
the others, one is cached under the earlier key, one under the key in use and one not at
all, so that ids of either key hit and miss.
`media_limit`: two requests, a photo of one chunk and one of two, and room for two. `process`: three
faults are one in the first start, one in the repair and one after that; three
starts by the operator, with any number of restarts by systemd. `process_restart`:
one start and one error.

**Fairness.** Goroutines that can run eventually do (weak fairness of `Publish`,
of each handler, of the reader goroutine, of the login callback), and every RPC,
write and ping ends, with a result or with its timeout. `select` chooses
uniformly among ready cases, so a case that is ready again and again is
eventually chosen: strong fairness of `CtxDone`, `PingTick` and `GiveUp`. HTTP
handlers go on and their calls of Telegram end (weak fairness of `ServeApi` for some of
the requests that can go on; each has finitely many steps, so all of them end); that
a device gives up while its photo request waits for the login is not assumed, and
`Answered` excepts this wait. `main` goes on while it can, and systemd restarts a failed unit (`RestartSec=5` stays
below its start limit). Nothing is assumed of users, devices, Telegram or signals.

## 4. Proofs

`RateLimiterProofs`, for all `IPs`, `TOKEN`, `BURST`, `MAX_BUCKETS`, `MAX_TIME`
that satisfy `LimiterAssumption` (a burst pays for one request at least):
`WindowBound` is not inductive, because it does not say what is left in the
bucket. The invariant `IInv` adds `Reserve`: what was granted in the window plus
what the bucket would hold after a refill now is at most a burst plus the
window's refill. `Tick` adds one to the right and at most one to the left;
`allow` moves units from the bucket to the account. `ClockOrder` and
`NoBucketNoSpending` carry the two facts that needs. `BucketsBounded` is proved
from the cardinality of the map in each step, and `SpacedRequestsPass` as a
property of every step.

`AuthFlowProofs`, for all `MAX_SUBMIT`: the three safety invariants are inductive
together with types and two facts about the program counter: past `runAuth` the
session is granted, and the first prompt is the phone prompt (otherwise the flow
could, as far as the invariant knows, start at a code prompt without a hash).
`UsedOnce` is an account over channel, call and calls made; each action moves a
submission one place on.

`EventsProofs`, for all connections, publishers, chats and allow-lists:
`NoSendOnClosed` and `SubscriptionsMatchHandlers` need each other, and three
facts more. `IdsAreUnique`: `nextID` is the number of handlers that took an id, so
ids never repeat and fit the map. `RangesHoldLock`: a `Publish` is in its loop
only inside the read lock, so the critical sections of `Subscribe` and
unsubscribe, which wait for the last reader, meet no loop. `ClosedOnWayOut`: only a
handler that has unsubscribed has a closed channel. Both publishers and handlers
then have one lemma for the steps that keep their standing towards the broker.

`ProcessProofs`, for all `MAX_FAULTS` and `MAX_STARTS`: neither property is
inductive, since neither mentions the files. `PairOnDisk` and `MediaKeyOnDisk`
say that what was logged or signed with is what the files hold, and that `main`
is in the steps that write a file only while nothing was used yet. The end of the
process, by whatever cause, is one lemma (`GoneInv`): it touches no file.
`ProcessTypeOK` adds that `errCh`, which has room for two errors, is never full
when `Run` or the server ends: of each there is one.

`StreamProofs`, on top of `EventsProofs`: `SInv` says where every event is. `Speaking` and
`Writing` tie the locals of publishers and handlers to their program counters. The
history `heard`, per handler and publisher, is the last event that was offered to
the handler's channel; what waits in the channel and what is being written lies, in
ascending order, between `delivered` and `heard`. That gives `InOrder`. A publisher
that is past its range has offered its event to every handler that was subscribed
at `RLock`, unless its channel was full; that gives `SlowCostsNobodyElse`.
`EventsImplementBroadcast` shows for each action which step of `Broadcast` it is, or
that it is a stutter. Two facts of the broker decide it: at `RLock` the map holds
the registered handlers and nobody else (`SubscriptionsMatchHandlers`), and a
handler can unsubscribe only when no `Publish` is in its range, so that nothing is
owed to it (`RangesHoldLock`).

`PeersProofs`, for all peers, clients, tokens, offsets and numbers of requests: the
invariant says that every entry of the cache, and every pair that a list has still
to cache, is the peer of its chat id. `ChatIdsDiffer` (`peerToChatID` is injective
as long as ids of basic groups stay below the offset) makes two requests that
cache one id write the same value, so that an entry, once there, stays
(`TitledResolves`). `EffectsAuthorized` needs in addition that a request past its
checks is permitted; `FirstClient` is the existence of the least index with the
token, from the well-foundedness of strict inclusion on finite sets.

`MediaCacheProofs`, for all photos, `MAX_BYTES` and numbers of concurrent requests:
what is promised about finished entries depends on the middle of a `Put`. For ids
that are not raced `Alone` says that one `Put` at a time runs and that nothing is
cached under the id, and `Undisturbed` that its handle is still on the temporary
file, which holds the bytes written so far, or that the renamed file is whole.
`OnDiskWhole` carries this over a crash, after which the index is built from the
directory. The lemmas about the list (`WithoutFacts`, `FrontFacts`, `PrefixFacts`,
`DowntoFacts`) say which keys an operation of `container/list` leaves, each once.

What the cache counts is a sum over a set, computed by a fold. The provers cannot
instantiate the induction theorems, so the facts about it are shown by a smallest
counterexample: of the subsets of a finite set for which a fact fails, `SmallestSet`
(strict inclusion on finite sets is well founded) yields one of which no other is
part, and for that one the fact follows from the smaller ones. `SizesStep` shows in
this way that the fold satisfies its own recursive equation, and `SizesTake` and
`SizesSplit` that elements may be taken out in any order. `KeptFacts` then says what the
eviction loop leaves: the longest prefix that fits or has the least length. The
accounting is inductive as `TotalIsSum /\ Fits`: `Fits` says that a key without an
entry has size 0 (a `Put` subtracts `size[k]` whether or not there is an entry)
and that the total is within the limit unless there is a single entry.
`DiskBounded` follows, since the files it counts belong to entries (`NoStrayFile`)
and have the recorded size (`EntryIsWhole`). `EvictsOnlyWhenNeeded` needs the order of the
list beside its keys: `Ordered` says that moving one key to the front leaves
the others in their order, so that the first key of the old list that is gone is the
first one that the loop evicted.

`ApiProofs`, for all photos, numbers of requests and files on disk: `FetchedIsShown` rests on
`MediaIdRoundTrip` (the parser undoes the layout of every reference whose lengths
fit), on the two keys being different, and on `CacheSigned`: every cached file is named
after an id that some key has signed, and is what this id says, because a download
happens only for an id that was accepted (`Decoded`). A hit is then a hit on the id
itself, and a damaged id has none (`HitServes`). `SmallestServed` rests on `PickSmallest`, which
follows the loop of `pickSmallestPhotoSize` over the sets of indexes it has seen, again by
a smallest counterexample. `ApiAssumption` types the photos: a product of width and
height is not negative, which is what the loop's start value -1 relies on. The
invariant `ApiInv` is that of `PeersProofs` and says in addition that a photo request
names no chat, has had no effect and has no page, so that its answers leave
`EffectsAuthorized`, `AtMostOnce` and the others as they are (`PhotoStepInv`). Steps of
chat requests are those of `Peers`, whose lemmas apply unchanged: the theorems of
`PeersProofs` are about `Spec` of `Peers`, chat requests alone, and `ApiChatRequests`
carries them to `ApiSpec`, which is the specification of the run `api`.

Only model-checked: everything about liveness and fairness (`Answered`, `PublishReturns`,
`GoneIsUnsubscribed`, `SettlesForUser`, `CancelEndsRun`, `AuthorizedGetsReady`, `Recovers`) and the absence of
deadlock. Every invariant and every other action property that a passing run checks is proved.

## 5. Not modelled

- Contents of messages, names and their truncation, access hashes, formatting,
  logging, `GET /v1/me`.
- Telegram and gotd beyond the outcomes the code tells apart. The users of a
  reply cannot hide each other: they have a map of their own, and user ids differ.
- Requests for a chat id that names no peer of the account: they end like those
  for a chat that no list contains, in an error of `resolvePeer`.
- TLS, HTTP parsing, token comparison, parsing of the configuration.
- That `Shutdown` waits up to five seconds for requests in flight; writes of `Run`
  to the state database after `main` has closed it.
- Loss of unsynced file data in a power failure; `Put` never syncs.
- `float64` rounding in the limiter.

## 6. Plan

Done: the modules of section 2 and the proofs of section 4.

Left, in this order:

1. `Shutdown` and the requests in flight, together with `Events`: handlers of
   hijacked connections are not waited for.
2. The database closed by `main` while `Run` still ends.
