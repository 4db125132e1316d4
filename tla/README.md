# fngo: a TLA+ verification project

fngo is a Go client for the Fortnite party and XMPP services. Its difficulty is
not in any one function but in what may happen at the same time: events emitted
while somebody waits, closes or gives up; party commands cut by HTTP exchanges
while notifications rewrite the same cached party; an XMPP supervisor that
replaces connections whose goroutines outlive them; requests and a scheduler that
renew the same token; a Logout that meets a Login, a dial and a resync; friend
commands repeated over a line that loses answers. This project models those parts,
checks them with TLC on small instances, and proves with TLAPS, for every instance,
the safety properties of the event bus, the party commands, the token refresh, the XMPP
client, the client facade and the friend commands with their back-off.

Contents: [the system](#the-system), [the modules](#the-modules),
[the runs](#the-runs), [fairness](#fairness), [the proofs](#the-proofs),
[findings](#findings), [limits](#limits), [the plan](#the-plan).

## The system

| Component | State it keeps | Operations | Hard part | What makes it correct |
|---|---|---|---|---|
| event bus, `events/bus.go` | `subs`, `waiters`, `nextID`, `closed` under one mutex; a channel per entry | Subscribe, Cancel, Emit, WaitFor, Close | `select` races; Close and the end of a context on the same waiter; full buffers | no waiter leaks, the first match is returned, errors are true, nothing is sent on a closed channel, waits end |
| party reducer, `party/reducer.go` | cached `Party` under `State.mu` | Snapshot, Replace, ApplyEvent | events out of order, partial updates | folding all notifications gives the service's party |
| notification decoder, `party/xmpp_decoder.go` | none (writes State, emits on the bus) | one frame at a time, on the XMPP read loop | reads State and writes it in two critical sections; does not take `opMu` | as above |
| party commands, `party/commands.go` | `opMu`, cfg | sync, ensure, create, join (3 ways), request, leave, promote, Set* with patch retry | several HTTP exchanges per command; stale revisions; lost and repeated exchanges | a patch replaces only what it knows; nil means done; the cached id is a real one |
| patch builder, metadata codec, templates | none | intents to updates | a patch that contains too much or too little | only differing keys are sent |
| XMPP client, `xmpp/client.go` | `running`, `conn`, `cancel`, `wg`, `sendCh`; three loops per connection | Connect, Close, SendRaw | loops of an old connection, reconnect budget, hanging writes | one live connection, FIFO queue, Close returns |
| stanza parser, `xmpp/stanza.go` | none | ParseStanza | - | - |
| http transport, `transport/http/client.go`, with `internal/backoff` | none | Request: retries, back-off, Retry-After, one refresh | a request is repeated although it was served; refreshes of concurrent requests; durations wrap around | bounded attempts; a repetition keeps to the delay asked for or configured |
| epic oauth, `auth/epic/client.go` | none | token grants with retry | repeating a grant that took effect | bounded attempts |
| token store, provider, scheduler, `auth/`, `client/token_provider.go` | the token set; the provider's mutex | Load, Save; Refresh; Run | read and write of the store outside the mutex | no older set over a newer one; no spent token is used |
| client facade, `client/client.go` | `runCancel`, `xmppClient`, `watchSub`, `watchStarted`, the watcher's goroutine | Login, Logout, WaitFor, resync on XMPPConnected | failed Logins, overlapping calls, events of an earlier session, a watcher that loses events | Logout leaves nothing behind, one session at a time, a reconnect is followed by a resync or by word of its failure |
| friends, `friends/commands.go`, `friends/xmpp_decoder.go` | none (the decoder emits on the bus) | add, remove, lists, RemoveAllFriends | answers lost half way through a bulk removal; a removal notified from either side | nobody is forgotten, the result is true, the events lead to the service's friends |
| fortnite access, logging, types | none | HTTP wrappers, plain data | - | - |

How they interact: the application calls the facade, which calls the commands.
Commands go through the transport, which asks the token provider, which shares
the store and a mutex with the scheduler. The XMPP read loop hands each stanza to
the decoder, synchronously; the decoder writes the same `State` the commands
write, and emits on the bus; WaitFor and the facade's watcher listen there. Locks:
`opMu` (one command at a time, held across HTTP), `State.mu` (one
Snapshot/Replace/ApplyEvent), `Bus.mu`, `xmpp.Client.mu`, `epicTokenProvider.mu`
(held across a grant).

`PROJECT.json` lists the components with their status, the hazards with their
lines, and for every definition the lines it models.

## The modules

    EventGate <- - - EventBus <- EventBusProofs        (- - : is implemented by)
    PartyReducer <- PartyService <- PartyDecoder <- PartySync <- PartySyncProofs
    VersionedCopy <- - - PartySync
    LossyQueue <- - - XMPPClient - - -> XMPPSession <- ClientLifecycle
    Backoff <- Transport <- Friends
    TokenRefresh <- TokenRefreshProofs
    XMPPClient <- XMPPClientProofs        ClientLifecycle <- ClientLifecycleProofs
    Induction <- BackoffProofs <- FriendsProofs        (with Backoff, Friends)

`MCEventBus`, `MCPartySync`, `MCXMPPClient`, `MCTokenRefresh`, `MCClientLifecycle`
and `MCFriends` give the constants small values. An operator `X_Bug` is `X` with a plausible bug; no action
uses it, and `PROJECT.json` says which property rejects it.

**EventBus** has one action per critical section of `bus.go`: Subscribe, Cancel,
Emit, Close, and for WaitFor the registration (with the check of `closed` and the
roll-back in it), the receive, the closed channel with its second look under the
lock, `ctx.Done` and the removal of the waiter. A channel is named by its id and
outlives its map entry, as a Go channel does, so a send after close can be
expressed. `log`, `from` and `seen` are history. **EventGate** is what a caller of
WaitFor can rely on, without ids, channels or locks.

**PartyReducer** holds the pure operators: ApplyEvent by kind, and
`mapRemoteParty`. A Go map is a function with a finite domain; a metadata document
is the one value the code extracts from it. **PartyService** (external) is the
service seen from this client: two revisions (party and member) that every patch
must quote, captaincy, notifications, the changes of other accounts, and an HTTP
exchange that may be lost before or after it took effect, be repeated by the
transport, or be cut by the context. **PartyDecoder** is `handleMessage`; a member
state update takes two actions because the code takes `State.mu` twice.
**PartySync** is `commands.go`: `at` names the exchange a command waits in, and the
action of that name runs from the answer to the next request or to the return, with
every write of State on the way. `opMu` is `at # "idle"`. **VersionedCopy** is what the
commands amount to without notifications: documents with a revision (the metadata of a
party, and this account's in it), a client's copy of some of them, replaced by newer
ones only, and one write at a time that is a compare-and-swap of a document with what
the copy says. PartySync implements it (`ImplementsCopy`): the service compares
revisions, never contents, and still nothing unseen is overwritten.

**XMPPClient** has the supervisor as a small program (`loop`, `dial`, `up`,
`backoff`, `stop`, `marked`, `done`), one action per `select` branch of the three
loops, `errCh` as a sequence, and Connect, Close and SendRaw cut where they give
the mutex back. Loops of old connections stay alive until their own code ends
them. Handshake failures are dial failures (the socket is closed and the error
returned in both cases). **LossyQueue** is the promise of SendRaw: a FIFO queue
which loses one stanza per connection at most. Stanzas are numbered as they are
accepted, so that the queue is the set of those waiting and its head is the least.
The context of a supervisor ends with Close or, at any moment, with the one given to
Connect (`ContextEnds`).

**XMPPSession** is what the code above the XMPP client relies on: a supervisor dials,
connects, loses the connection and dials again until it gives up; once its context has
ended it never dials, though a dial under way may still connect, and it ends.
XMPPClient implements it (`ImplementsSession`: `backoff` is part of `loop`; `stop` and
`marked` have no context and no connection any more and count as `done`).

**ClientLifecycle** is the facade, composed with XMPPSession (one instance per
session, as every Login makes a new `xmpp.Client`) and with the two subscriptions of
the bus that matter: Login's own and the watcher's, both of bounded room. `login[s]`
names the step of Login a session stands at; Login is cut at every exchange, at
`startXMPPWatcher`, at `Connect` and at each event of its wait loop. `out[t]` does the
same for Logout, cut at `Close`, at the wait for the supervisor, at
`stopXMPPWatcher` and at `watchWG.Wait`. `watchSub # None` stands for `watchStarted`,
which is set and cleared together with it.

**Backoff** has `Exponential` and `retryAfterDelay` over integers up to a given largest
one, which wrap around as Go's do; with a small one TLC meets the overflow.
**Transport** is `Client.Request`: attempt, exchange, retriable or not, back-off cut
by the context. It has one request at a time and leaves to the module that extends it
what an exchange does. **Friends** is that module: the commands, a friends service
on which the other accounts act too, notifications in order, and the decoder, whose
events an application folds into `friends`.

**TokenRefresh** joins `Client.Request`, `epicTokenProvider.Refresh`,
`tokenGrant` and `RefreshScheduler.Run`. Token sets are numbered in order of issue,
so "older" is "smaller". The scheduler loads before it locks and saves after it
unlocks, as the code does.

## The runs

| Run | Question | Bounds, and why they are enough |
|---|---|---|
| bus | do waits and their errors stay true, do waits end, does the bus implement the gate, and do subscriptions keep the order, when two callers race Emit, Close and their contexts? | 2 callers, 2 kinds of events, overlapping predicates, 2 registrations (two waits, one caller twice, a wait beside a subscription, two subscriptions), buffers of 0 (which the code raises to 1) and 2, 3 emits: both buffers overflow; most of the safety part is proved for all values |
| party_patch | the patch loop: conflict, budget, effect, revisions | 2 foreign changes (kicks too) and one fault of any kind against a budget of 2 retries, that is 3 attempts; 3 commands; all four properties are proved for all values |
| party_commands | is the cached id always the service's, does every command return? | all commands, 2 in a row from every start (leader, member, alone, cache empty), 3 parties, 2 foreign changes, one fault of any kind, lagging reads; the first half is proved for all values |
| party_ensure | is nil from EnsureParty honest? | kicks, leaves, late notifications, one fault of any kind, 3 commands; proved for all values |
| party_notifications | does folding notifications converge? | 5 foreign changes of all kinds over 3 accounts; member and party metadata set, changed and removed |
| party_captain, party_stale_notes | see [findings](#findings) | the smallest that shows them |
| xmpp_connections | one supervisor, one socket, reasons to stop, FIFO queue, return of Close, the session seen from above | 1 thread (its Close may be given up, so a Connect meets the old supervisor), 2 supervisors, 2 connections, queue of 2, 2 stanzas: an old loop and the new one may each hold one; budget of 1, which is exceeded |
| xmpp_keepalive | room in errCh; does a hanging write end without a deadline? | all three loops, queue of 1, so that the ticks fill it |
| token_refresh | older set over newer one, spent tokens, the scheduler's end, return | 2 callers, or 1 caller and the scheduler; single-use and multi-use refresh tokens (single-use ones make the service refuse what could overwrite); 4 sets, 2 lost grants: enough for a transient failure and for a rotated token whose answer is lost |
| client_lifecycle | does a Logout that meets no Login leave nothing behind, also after a Login that failed half-way; does a Logout return, also one that interrupts a Login; are there never two sessions; does every reconnect end in a resync or in word that it failed? | 2 logins (an old session and a new one), 3 connections in all (a reconnect in one session, or one in each and one more), 1 thread that calls Logout, room for 1 event in Login's subscription and 2 in the watcher's: both overflow |
| friends | is the result of a bulk removal true when exchanges fail, are served without an answer, or are cut; do retries keep to their delays; do the events lead to the service's friends? | 2 other accounts, 2 commands, 2 actions of others, 3 exchanges that go wrong, as many as there are retries, 4 attempts; back-off of 70 to 100 in durations of up to 255, so that a second doubling past the limit would wrap around, and all kinds of Retry-After, 0 and one that fits no duration among them; the safety part is proved for all values |

What they show, property by property, is in the comments above each property.
The ones that relate the most:

* `FirstMatchWins`: what WaitFor returned is the first event emitted since its
  registration that it accepts, although emission, selection and return are three
  steps of two goroutines.
* `RevisionSafe`: when the service would accept a patch, the metadata the patch was
  computed from is the current one.
* `SetIsEffective`: nil from Set* means that the service knows the values, also
  those that were not sent because the cache seemed to have them.
* `ConflictNeedsContention`: ErrPatchConflict requires as many disturbances as the
  command may retry (`MaxPatchRetries`).
* `ImplementsQueue`: the write loops of all connections together lose at most one
  stanza per connection and never reorder.
* `ImplementsSession`: the supervisor with its loops, its budget and its back-off
  behaves like the session the facade is built on, also under fairness.
* `LogoutReturns`: a Logout ends, whatever Login it interrupts and wherever the
  supervisor and the watcher stand, a watcher started only after the context was
  cancelled included.
* `LogoutIsComplete`: when Logout is about to emit ClientDisconnected there is no
  supervisor and no watcher of any session, also after a Login that failed half-way, if
  no Logout gave up or met a Login.
* `ReconnectResyncs`: in a session at rest, what changed while nobody was connected
  has been read, or an XMPPError told of the failure, or the watcher's buffer was
  full.
* `BulkRemovalTrue`: whoever is still a friend after RemoveAllFriends was reported as
  failed or became one after the list was read; who is reported as failed and was
  removed is one whose answer was lost.
* `SchedulerDiesOfARaceOnly`: the scheduler ends with AuthFatal after a lost grant or
  because a request had used its refresh token, and then a newer set is stored.

### Properties checked under a restriction

TLC shows that these fail outside of it. The code documents nothing to the
contrary, so they are recorded as hazards and not as findings.

| Property | Restriction | Outside of it |
|---|---|---|
| SetIsEffective, ConflictNeedsContention, LocalIDSound | no notifications | a notification older than the cache (see findings), or of a party just left, changes the cache |
| LocalIDSound | no lost answer or repetition so far (in its formula), no kicks | a LeaveParty or join that took effect and failed, or was repeated and refused, leaves the old cache; a kick is known only by notification |
| SetIsEffective | no lost exchange so far (in its formula) | the patch is applied, the refresh fails, the cache keeps the old value, and setting the old value again sends nothing |
| RevisionSafe | no notifications | finding `party_stale_notes` |
| StoreNeverGoesBack | saves of requests | the scheduler saves outside the mutex, and with multi-use refresh tokens its older set may replace a newer one |
| CloseReturns | one thread, write deadline | Close waits for a supervisor another thread started meanwhile; a write without a deadline may hang |
| LogoutIsComplete, OneSession, EnsureAfterConnect, ReconnectResyncs | `Careless = FALSE`: Login is not called while a Logout runs, nor after one that gave up waiting, overlapped another Logout or interrupted a Login; the first also excuses such Logouts in its formula | with `Careless = TRUE` all four fail within seconds: a session that was cancelled and still dials connects once more, and its XMPPConnected satisfies the wait of the new Login; the new Login finds `watchStarted` set by a watcher whose context has ended, and goes without resync |
| LogoutReturns | `Careless = FALSE` | with `Careless = TRUE` the watcher of a Login called while a Logout runs keeps that Logout waiting, since `watchWG.Wait` waits for the watchers of all sessions |
| RetriesArePaced | the delay asked for fits a duration; the limit of the back-off is at most half of the largest duration (both in its formula) | a larger one wraps around, may be negative and is then not slept; doubling may step over a larger limit into the negative |
| RequestReturns, ExpiredIsReplaced | up to `MaxIssued` (in their formulas) | at the bound the modelled service stops issuing tokens |

CHECK_DEADLOCK is off in every configuration: each system may come to rest (the
application stops calling, the bounds are used up).

## Fairness

* **EventBus**: weak fairness of every step of a WaitFor call. A goroutine whose
  channel or context is ready is scheduled. Nobody has to emit, to close or to end a
  context; `WaitForReturns` says a wait ends if one of them happens.
* **PartySync**: weak fairness of the client (goroutines run, back-offs end) and of
  the service's answer to the outstanding request (HTTP exchanges are bounded by the
  context). None for other accounts and for notifications.
* **XMPPClient**: weak fairness of the supervisor, of Close between its critical
  sections, of taking a stanza, of ticks, and of a write that has a deadline or a
  closed socket. Strong fairness of the `ctx.Done` branches: a `select` chooses at
  random among its ready cases, so a branch offered infinitely often is taken. None
  for the peer: a read may never return.
* **XMPPSession**, **ClientLifecycle**: weak fairness of a session's steps once its
  context has ended (goroutines run, and every exchange, dial and sleep of theirs takes
  the context) and of every Logout that has begun. None before: a dial or an exchange
  may last as long as it likes.
* **Friends** states none: its properties are safety.
* **TokenRefresh**: weak fairness of requests, grants and timers, strong fairness of
  Lock, since `sync.Mutex` hands itself over to a waiter that starves. None for
  expiry and for the application.

## The proofs

Eight modules hold the theorems; every other theorem named here rests on the inductive
invariant of its module. TLC checked each invariant on a small instance before it was
proved.

**EventBusProofs**, about 1400 obligations, for all callers, kinds of events,
predicates, buffers and bounds (assumption `BusAssumption` only: predicates are
sets of events, buffers and bounds natural numbers).

| Theorem | Says |
|---|---|
| TypeCorrect | `Spec => []TypeOK` |
| WaitInvariant | `Spec => []WaitInv`, the inductive invariant |
| LockedSafety | no panic and no block under the lock |
| NoWaiterLeaks | every waiter has a caller in WaitFor |
| FirstMatch | the first match is returned |
| TruthfulErrors | errors are true |
| InOrder | `Spec => []SubscriptionsInOrder`: order, nothing old, nothing lost before an overflow |
| BusImplementsGate | initial states and steps of the bus are initial states and steps or stutters of EventGate |

`FirstMatchWins` and the others are not inductive: that the event returned is the
first match depends on what is in the channel, which depends on who owns the
channel and on whether its entry is still in the map. `WaitInv` has four parts,
proved one after the other, each lemma using the ones before it:

1. `Registry`: ids in the maps were handed out; a channel is open exactly while its
   entry is there; ids are never used again.
2. `Ownership`: every waiter entry belongs to exactly one call, and a call past its
   registration owns its id.
3. `Delivery`: the channel of a running call is in one of three states: waiting (in
   the map, empty, nothing emitted since the registration matches), served (out of
   the map, holding the first match), or shut by Close with no match emitted.
4. `Results`: what a returned call returned is what Delivery had for it.

`InOrder` adds `Delivers` to it: a reader has not seen what is yet to come, and as long
as no more events came than its channel has room for, the channel holds exactly the
positions after the last one read.

The step lemmas (`RegistryStep`, `OwnershipStep`, `DeliveryStep`, `ResultsStep`) have
one step per action. `BusImplementsGate` uses WaitInv to show that Emit maps to the
gate's Emit for all waiters at once and that the removal of a waiter by its caller
maps to a stutter or a departure.

**TokenRefreshProofs**, about 760 obligations, for all callers, casts, budgets and
bounds, and for refresh tokens good for one use or for many. `TokenAssumption` says
that the scheduler is not a caller, that nobody is neither, and that budgets and
bounds are natural numbers.

| Theorem | Says |
|---|---|
| TokenInvariant | `Spec => []TokenInv`, the inductive invariant |
| TypeCorrect | `Spec => []TypeOK`, with the budgets of attempts |
| RefreshesFailForAReason | a refresh fails after a lost answer or in a race with the scheduler only |
| SchedulerDeathExplained | the scheduler dies of a lost answer, or in a race after which a newer set is stored |
| SavesGoForward | `Spec => StoreNeverGoesBack` |

That a failed refresh has a cause is a fact about the past; `TokenInv` keeps what is
needed of it, in six parts besides the types:

1. `Attempts`: how much of its budget a request or a grant has left at each label.
2. `Mutex`: a caller is between Lock and Save if and only if it holds the mutex; the
   scheduler may be about to save without it.
3. `Issued`: nothing newer than the last issued set is used or stored, and what a
   caller is about to save is the last one.
4. `Rotation`: where refresh tokens are good for one use, all but the newest set's are
   spent.
5. `NewestKept`: until an answer is lost, the newest set is stored or about to be
   saved, and a caller's grant uses the stored set or is behind the scheduler's.
6. `Blame`: the two properties, at the labels that lead to the failures.

`SavesGoForward` needs 2 and 3 alone: the caller has held the mutex since its grant,
but the scheduler, which saves without it, may have overtaken it, and `stored <=
issued = got[c]` still holds.

**PartySyncProofs**, about 8100 obligations, for all accounts, parties, values,
documents, intents, retry budgets, kinds of faults and bounds, reads that lag or not,
and worlds to begin with. `SyncAssumption` asks of such a world that nobody is in two
parties and that a party which was never created is empty.

| Theorem | Hypotheses | Says |
|---|---|---|
| TypeCorrect | none | `Spec => []TypeOK`, attempts within the budget included |
| EnsureValid | none | `Spec => []EnsureIsValid` |
| RevisionsSafe | no notifications | `Spec => []RevisionSafe` |
| ConflictContended | no notifications | `Spec => []ConflictNeedsContention` |
| SetEffective | no notifications | `Spec => []SetIsEffective` |
| LocalIDStaysSound | no notifications, no kicks | `Spec => []LocalIDSound` |
| CopyConverges | notifications, a copy that starts equal, no commands | `Spec => []Converges` |
| SyncImplementsCopy | no notifications | `Spec => ImplementsCopy`: behaviours are behaviours of VersionedCopy |

The hypotheses are the restrictions of the table above, which the runs have too:
without them the properties fail, for the reasons given there, of which
`party_stale_notes` is a finding. Other accounts act, requests and answers are lost,
repeated or cut, and reads lag in all but CopyConverges, where no request is made.

The properties speak of moments: a patch about to be served, or a command that has just
returned. What makes them true builds up over several exchanges, so that each needs an
invariant that says, for every wait `at` a command may stand in, what it knows there:

1. `Wiring`: which request is out in which wait, and from which snapshot it was built.
2. `Known`: the cache, the snapshot of the patch loop and the answer under way are
   copies of parties that were true once (`Knows`): none is newer than its party, and
   one with the revision of the party has its metadata, for the party and for this
   account in it. Every change of the service `Grows`: new metadata has a new revision.
   `RevisionSafe` is then immediate, since the service compares revisions.
3. `Paced`: in attempt n of a patch there were n - 1 disturbances since the command
   began, and either one more or the copy the attempt is made from is current, so that
   it will not be told that it is stale. A retry hence costs somebody something.
4. `Truth`: as long as no exchange was lost, the cached metadata of this account is the
   service's (nobody else changes it), and what a Set asks for is in its patch, or was
   there already, or the patch was accepted.
5. `HomeSound`: as long as every exchange was answered once, the cached party, every
   answer and the party joined or promoted in are this account's, but between the
   answer to a leave and the write of State.
6. `Named` and `Learned`: a party that `ensurePartyLocked` or `createPartyLocked` takes
   from an answer is one this account was in during the command.
7. `Converging`: the service's party is what the notifications still in the inbox make
   of the copy (`Mirrors`), and the commands are silent. A *mirror* is the part of a
   party that notifications determine, `Hear` is what one says about it, and the claim
   is that a trail of mirrors leads from the copy, one notification at a time, to the
   party of the service. The decoder takes the first step of the trail (`DecodeHears`:
   the reducer does to a party what `Hear` does to its mirror), and each change by
   another account adds its notifications at the end (`EnvironmentLeads`). With an empty
   inbox the trail has one mirror, which is `Converges`.
8. `CopyInv` is 2 with `Steady`: no answer is older than the cache, a joined party is
   asked for with an empty cache, and while a patch is out its snapshot is the cache.
   Every step is then one of VersionedCopy or none: of the client a `Read`, of the other
   accounts a `Change` (what `Grows` is newer, and this account enters no party it has a
   copy of), a patch served an `Accept`, which is a swap of the right contents by
   `RevisionSafe`, and a refused or lost one a `Refuse`.

`SyncImplementsCopy` adds to `RevisionsSafe` that the cache never goes back, what an
accepted patch leaves untouched, and that a patch may be computed from nothing but the
cache. TLC agrees when `ImplementsCopy` is put under PROPERTIES of PartyPatch.cfg or
PartyCommands.cfg, and refutes it under PartyStaleNotes.cfg, where a notification makes
the cache older. It is not among the properties of a run: what it means for a patch is
`RevisionSafe`, which party_patch checks.

`CopyConverges` speaks of the setting of the run party_notifications: with commands a
late notification undoes what a refresh brought, which is the finding
party_stale_notes.

`ConflictInv`, `EffectInv` and `HomeInv` are 2 with 3, 4 and 5; `Ensuring` is 1 with 6.
Each has one lemma for the client, one for the application, one for the answers of the
service and one for the other accounts; the patch loop, which several actions share,
has lemmas of its own.

**XMPPClientProofs**, about 2200 obligations, for all threads, supervisors,
connections, stanzas, budgets and rooms of the queue, with and without keep-alives and
write deadlines (`ClientAssumption`: naturals and Booleans, a queue with room).

| Theorem | Says |
|---|---|
| ClientInvariant | `Spec => []ClientInv`, the inductive invariant |
| TypeCorrect | `Spec => []TypeOK`: among others, `errCh` never fills up |
| OneSupervisorLives | `running` is one live supervisor, an open socket is its connection |
| StopsWithReason | a supervisor stops when cancelled or when its budget is used up, and dials no more often |
| StanzasInOrder | `Spec => []WireInOrder`: no stanza twice, none overtakes another, over all connections |
| ClientImplementsQueue | `Spec => ImplementsQueue`: behaviours are behaviours of LossyQueue |
| SupervisorImplementsSession | initial states and steps map to those of XMPPSession, or to stutters |

`ClientInv` has, besides types and `StopsForAReason`:

1. `Supervised`: only the last supervisor may live, and does if and only if `running`;
   a Close under way cancels one that was started.
2. `Connected`: a connection whose loops have not been cancelled is the current one of
   a supervisor that is `up`; a socket is closed no later than its loops are cancelled.
3. `Reported`: the errors in `errCh` are no more than the loops that have ended, so
   three places do; the end of the context is reported only after it.

`Reported` is what makes `StopsForAReason` inductive: a supervisor that reads
"canceled" while its connection lives has been cancelled itself. The budget counts
connections, hence the cardinality lemmas of the library. `StanzasInOrder` needs a
second invariant, `Ordered`: what the write loop of the open connection holds lies
between what has been written and what waits. Two write loops may hold stanzas at once,
but only one of them has an open socket.

`ClientImplementsQueue` maps every step to one of LossyQueue or to none. What waits is
the queue with the stanza that a write loop holds over an open socket, of which there is
one at most; by `Ordered` it precedes the others, so its write is that of the least. The
credit is the number of connections that may still lose a stanza: a dial that succeeds
adds one, and the step with which a connection's write loop can write no more takes it
away, with the stanza it held or the one it takes then.

**ClientLifecycleProofs**, about 1400 obligations, for all threads, sessions, rooms of
the two subscriptions and bounds. `TypeCorrect` holds without condition; the other
theorems have the hypothesis `~Careless`, the discipline of the table above, which the
run has too.

| Theorem | Says |
|---|---|
| TypeCorrect | `Spec => []TypeOK` |
| LifecycleInvariant | `~Careless => (Spec => []LifecycleInv)` |
| LogoutCompletes | ClientDisconnected means that nothing is left |
| OneSessionLives | what lives belongs to the last Login |
| EnsuresAfterConnect | Login goes on after a connection of its own |
| Resyncs | a reconnect is followed by a resync, by word of its failure, or a lost event |

`LifecycleInv` has, besides types: `Ordered` (sessions follow one another, and one that
has not ended can be cancelled), `Prepared` (what Login has done at each of its steps),
`Heard` (an XMPPConnected in Login's subscription is of its own session), `Leaving`
(how far a Logout has come, step by step) and `Resyncing` (an XMPPConnected which the
watcher owes a resync is in its channel or in its hands).

**BackoffProofs** and **FriendsProofs**, about 1200 obligations, for all other accounts,
headers, numbers of attempts, bounds of the back-off and largest durations.

| Theorem | Says |
|---|---|
| ExponentialBounded | `Exponential` stays between its bounds for every attempt, if twice the limit fits a duration |
| FriendsInvariant | `Spec => []FriendsInv`, the inductive invariant |
| TypeCorrect | `Spec => []TypeOK`, attempts included |
| RetriesPaced | `Spec => []RetriesArePaced` |
| BulkRemoval | `Spec => []BulkRemovalTrue` |
| EventsFollow | `Spec => []FriendsFollow` |

`ExponentialBounded` is an induction over the number of doublings: below the limit
doubling does not wrap around, so the loop either has met the limit or stands at twice
the delay before. `DoublingsDefined` says that the recursive function it is written with
exists. `FriendsInv` adds to the properties `Commands` (where a command and its
request may stand together), `Removals` (a removal that was served and whose answer is
not there yet is one whose answer was lost or is on its way), `Left` (every remaining
friend is still to be tried, was tried and failed, or became one since) and `Following`
(of the notifications about an account, the last under way agrees with the service).

**Induction** proves what the library's induction theorems state with an operator
parameter, which the installed provers cannot instantiate: a set of naturals that has
0 and the successor of each of its members is all of Nat, and a function defined by
recursion over Nat exists. The argument takes the least element of a set of naturals,
which exists because the strict subset order on finite sets is well founded and
initial segments are finite.

Only model-checked:

* all liveness, which is out of the prover's reach: `WaitForReturns`, `CommandReturns`,
  `CloseReturns`, `StuckWriteEnds`, `RequestReturns`, `ExpiredIsReplaced`,
  `LogoutReturns`, `SessionEnds`, and the fairness part of `ImplementsGate` and
  `ImplementsSession` (their initial states and steps are proved).

Every safety property that a passing run checks is stated by a theorem.

## Findings

* **party_captain** (`CaptainConverges`): MEMBER_NEW_CAPTAIN changes the cached
  captain but no role. The next state update of the previous captain carries no
  role, is completed with the stale one, and makes the previous captain the captain
  of the cache again. `party/xmpp_decoder_test.go:227` expects the new one.
* **party_stale_notes** (`RevisionSafe`): `README.md:11` of the repository promises
  revision-safe patches. A notification older than the last refresh puts old
  metadata under the current revision; the next patch is computed from the old
  metadata and accepted. In the trace one client calls Set twice, the notification of
  the first call comes late, and the patch of a third Set is accepted.

## Limits

Assumed of the service, since its code is not in the repository: a party and a
member have separate revisions and each patch moves one of them; MEMBER_STATE_UPDATED
carries no role (as in the decoder's tests); notifications arrive in order but may
be late; a refresh token may be good for one use (checked both ways where it
matters), and a spent token is the only one the token service refuses: revoked and
expired refresh tokens, which end the scheduler too, are left out.

Abstracted: metadata documents are single values; the outfit stands for the three
cosmetic slots; display names, times, logging and delays are left out; a
predicate given to WaitFor is a set of events and does not call the bus; emission by
the decoder and by the scheduler has no effect on their own state and is left to
EventBus; `sync.WaitGroup` is a counter (its panic on reuse is not modelled); the
token store is the in-memory one, which never fails, and is not cleared.

ClientLifecycle: one goroutine calls Login; `Logout` takes `runCancel` and calls it in
one step; XMPP is enabled; the refresh scheduler of a session is left to
TokenRefresh, so that "nothing is left" after a Logout does not include it; a Logout that finds nothing to end is left out, and other events are
emitted only while a session lives. A failed Login, and one whose context ends, leaves
`runCancel` set: the next Login returns nil and does nothing until a Logout, which is
why the model has a new session only after one. The context given to Login is the
parent of the session's, so a deadline on it (as in the README's quickstart) ends the
session later. Each session's watcher gets only what is emitted while it runs.

Friends and Transport: one request at a time; a request that net/http repeats by
itself and a 2xx answer with an empty summary are left out; the decoder knows who it
is (without `SetIdentity` it names the sender); notifications are not lost. In the
code those sent while disconnected are, and only the party is read again after a
reconnect.

Hazards of the code that no property states, besides those listed in `PROJECT.json`
with a note: a predicate that calls the bus blocks for ever under the lock
(`bus.go:107`); after a kick `JoinParty` first leaves a party the service does not know
(`commands.go:281`); Close waits for the supervisor of a Connect that came in between
(`xmpp/client.go:129`).

Not modelled, and why:

* the documents `PatchBuilder`, the metadata codec and the templates write: pure data,
  of which PartySync keeps which keys an intent touches;
* presence, pings, join confirmations and initial intentions in the decoder, which only
  emit; the order of PartyUpdated events emitted by the facade, the decoder and the
  watcher, so that a WaitFor called after a setter may miss the event of that setter
  (`README.md:83` calls it in this order);
* the XMPP handshake (one step that succeeds or fails) and the stanza parser, a pure
  function of one frame;
* `SetIdentity` and `SetConnectionID`, called before any command;
* the facade's pass-through commands, fortnite access, logging, plain types and the
  example, which keep no state.

## The plan

Written so far: EventBus, PartySync with its parts, TokenRefresh, XMPPClient,
ClientLifecycle and Friends with Transport and Backoff, each with its proofs, and the
abstractions they implement or use. What is left, in this order:

1. **PatchBuilder**: intents to keys, against the statement that a patch built twice
   is empty the second time; the cosmetic slots one by one.
2. The order in which PartyUpdated reaches a subscriber from the facade, the decoder
   and the watcher.
