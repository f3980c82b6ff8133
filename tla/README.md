# Verification of QtZeroConf

QtZeroConf is a Qt wrapper that publishes and browses DNS-SD services through
one class, `QZeroConf`. The build picks one of four backends; one of them
brings its own mDNS stack (`avahi-core`, with `avahi-common` below it). These
TLA+ modules model the four backends and the stack: publishing, browsing,
resolving, the interfaces, the packets it answers, the schedulers, timers,
poll loop, names, records and packet format. TLC checks them on small instances
and TLAPS proves the safety properties of the four backends and of all of the
stack's protocol for every instance.

## The system

| Part | State it keeps | Operations | What makes it correct |
|---|---|---|---|
| Public API `qzeroconf.h` | `services` | start/stop of publishing and browsing, six signals | the signals tell one consistent story |
| Linux `avahiclient.cpp` | client, group, browser, `resolvers`, `services` | API calls, group, browse and resolve callbacks | map = what the application was told; a gone service is forgotten |
| Apple, Windows `bonjour.cpp` | `dnssRef`, `browser`, Resolver objects, two maps | API calls, register, browse, resolve, address replies | no pointer to a deleted Resolver; consistent signals |
| Android `androidnsd.cpp`, `QZeroConfNsdManager.java` | two flags, map; static resolver queue; instance list | API calls, tasks, listener callbacks, queued invocations | one resolve at a time, nothing reaches a deleted object |
| Embedded `avahicore.cpp` | shared server and count, `ready`, `registerWaiting`, group, browser, maps | API calls, server, group, browse, resolve callbacks | no group leaked; a publish is answered |
| `avahi-core` entries and announcers | group state, `n_probing`, announcers, holdoff timer | commit, reset, free, update, timeouts, conflicts, interfaces | three probes before use; every committed group is answered |
| `avahi-core` interfaces and server state | interfaces, addresses, their entry groups, `n_host_rr_pending`, host name | netlink messages, renames, conflicts, group callbacks | the published addresses are the host's; the server runs when all are registered |
| `avahi-core` server, incoming packets | record list, entries, reply packet | dispatch, query, response, probe, known answers, truncation | every question gets its answers |
| `avahi-core` cache, queriers, lookups, record browsers | cache entries and their states, `n_used`, lookups of each browser | update, goodbye, expiry, POOF, interfaces, start, restart, free | what a browser was told is what is cached; what is browsed is asked for |
| `avahi-core` resolvers and typed browsers | record browsers, the record of each part, timeout, deferred event | record events, timeout, failure and retry, free | the user hears of what there is, or of a timeout |
| `avahi-core` wide-area engine | lookups, ids, servers, cache | send, retry, reply, failure, free | a reply reaches its lookup; every lookup ends |
| `avahi-core` schedulers | jobs, history, suppressed answers | post, elapse, withdraw, suppress, incoming | nothing owed is lost to suppression or a full packet |
| `avahi-core` timers | heap, time events, one timer | add, move, free, run | the next event has a timer |
| `avahi-common` loop, names, lists | watches, timeouts, pipe, thread; pure functions | API calls, poll, start, stop; escape, parse | no wake-up lost; what is written is read back |
| `avahi-qt` | watches and timeouts | poll API | see *Known limitations* |

How the parts meet: the application calls `QZeroConf`; a backend calls its
library and is called back by it, in the Qt event loop except on Android, where
three threads exchange queues. Slots run inside an `emit` and may call the
object again. In the embedded build, `avahicore.cpp` hands its services to an
entry group of `avahi-core` and browses through its typed browsers and
resolvers; these are clients of record browsers, which share one cache and one
set of queriers for each interface. Announcers and queriers post to the probe,
response and query scheduler of their interface, and everything that waits does
so in one queue of time events.

The hard behaviours are re-entrant slots and callbacks, events in an order
nobody chose (REMOVE before FOUND, a reply after its lookup), objects deleted
while something still refers to them, state shared between objects or threads,
counters that decide when something is done, and packets that are full.
`PROJECT.json` lists them at their lines under `hazards`.

## Modules

The backends:

* `Signals` - what the three browsing signals do to the application's picture.
  A contradictory signal (added twice, removed while unknown) leaves a mark no
  type invariant admits, so consistency is checked wherever it is used.
* `ServiceDiscovery` - the abstract promise of a browsing object: added once,
  updated and removed while known, found only while browsing. `AvahiClient`
  implements it. `Bonjour` does not: there a service can be added under the keys
  of two interfaces and updated without having been added, so its signals are
  held against its map instead (`SignalsBalance`).
* `AvahiClient` - the Linux backend. One action per API call and callback;
  `broswerCleanUp()` is split at each `emit` (`phase`, `pending`) because slots
  run there. A NULL handle stored in a map (`Null`) or used in a call ends the
  process (`fault`).
* `Bonjour` - Resolvers are objects on a heap, found through a map that may
  have lost them. Both maps are keyed by a name followed by an interface number,
  without a separator; the keys are a function of both, which may coincide, and
  an address reply may name any interface. The loop of `cleanUp(browser)` that removes from the map it
  walks is a choice over its outcomes: a crash, or any of the Resolvers after
  the first skipped.
* `AndroidNsd` - the Qt thread, the Android thread and NsdManager's listener
  thread with the queues `tasks` and `events`; one step holds the mutex. The
  Java object's `id` is an address that a later object can get again.
* `AvahiCore` - several objects on one server, the pointers of each object kept
  apart from what the library holds for it.

The embedded stack, from the network up:

* `Interfaces` - links and addresses as netlink reports them, the multicast
  group, the entry group of each address, the server's state and its counter of
  pending records. An update may end in a change of state that updates
  everything again before the first update goes on; the operators nest as the
  calls do. A loop whose passes touch one interface or one address each is a
  function over all of them; a join may fail on one interface and not on another.
* `Responder` - one packet at a time, read section by section, its questions
  looked up among the entries, the record list worked off by multicast or in as
  many unicast replies as it takes.
* `QuerySched`, `ProbeSched`, `ResponseSched` - the schedulers. Sizes and room
  are numbers, so that packets fill up; durations are abstract.
* `EntryGroup` - one entry group with one announcer for each entry and
  interface, commit with holdoff, conflicts, updates and interfaces.
* `Publication` - the abstract promise of an entry group about the names it must
  probe for: probed for one by one, claimed together when the last of them is
  probed, given up together. The refinement forgets iterations, timers, the
  counter and the holdoff, and which announcers are past their last announcement.
* `RecordBrowser` - the caches, queriers, multicast lookups and record
  browsers. The calls an event makes to lookups and clients are a queue
  (`work`) that is emptied before the next event, and a client may free any
  browser between two of them. Reference counts and the deferred freeing of
  dead objects are abstracted to a lookup that is there or not. Ages are a
  choice: any entry may be more than a second old when a flush arrives, any
  question may come more than a second after the last.
* `Resolvers` - the service, host name and address resolver over record
  browsers that tell, take back, fail and fall back to multicast.
* `TypedBrowsers` - the service, service type, domain and DNS server browser.
* `WideArea` - unicast DNS: lookups, ids, servers, replies, its cache.

Below the protocol:

* `PrioQueue` - `prioq.c` with all six links of a node; `TimeEvents` - the
  events on it and the Qt timer under it.
* `SimplePoll` - `simple-watch.c` and the helper thread of `thread-watch.c`.
* `Names`, `StringLists` - labels, names, service names, alternatives, UTF-8
  and TXT lists as functions on bytes.
* `Records` - equality and order of records; `ProbeTie` - the tie between two
  hosts that probe for one name, whatever keys it has and in whatever order of
  records; who loses on one key withdraws its whole group.
* `DnsPacket` - appending, taking back, compression, and reading, with the size
  of the buffers that the names of questions and of records are read into.

The modules whose name ends in `Proofs` hold the theorems about the modules they
extend: `AvahiClientProofs`, `BonjourProofs`, `AndroidNsdProofs`,
`AvahiCoreProofs`, `EntryGroupProofs`, `RecordBrowserProofs`, `QuerierProofs`
(`QuerySched`, `ResponseSched`, `SimplePoll`, `WideArea`, `TypedBrowsers`) and
`ServerProofs` (`Interfaces`, `Responder`, `ProbeTie`).

The MC modules give constants their values. `MCAvahiCore`,
`MCLibrary` and `MCResolvers` hold several components that share no state: the
variable `part` says which one a behaviour is about, the others keep one
initial state. Since no action of one reads a variable of another, every state
of a component that its own specification reaches is reached here. Operators
marked *Mutant* are wrong variants of the operation below them; they belong to
no specification and show that the properties can fail.

## Runs

| Run | Properties | Bounds |
|---|---|---|
| `avahi_client` | `ViewMatchesServices`, `ImplementsDiscovery`, `GoneServiceForgotten`, `AdvertisedServiceSeen` | two services whose keys coincide and one of its own, so the key collision happens |
| `bonjour` | `NoDanglingResolver`, `SignalsBalance`, `GoneServiceForgotten` | 2 services, `n` on interface 12 and `n1` on 2, which share the key `n12`; replies for either interface; 3 Resolvers: two of one key beside another |
| `bonjour_ghost` | **finding**: `UnpublishedServiceRemoved` fails | as above |
| `android_browse` | `OneResolveAtATime`, `ViewMatchesServices`, `ResolverQueueServed` | 2 objects that can share an address, 1 task and event in flight, queue of 2 |
| `android_publish` | `EventsForLiveObjects`, `FlagsAreHonest` | 2 objects, 2 tasks, 2 events |
| `avahi_core` | objects: `HandlesValid`, `ViewMatchesServices`, `OwnerPublishAnswered`; host: `HostRecordsCurrent`, `PendingCounted`, `MulticastAddressKept`; packets: `QuestionsAnswered` | 2 objects with 2 browsers each so that one is leaked; one link with IPv4 and IPv6, 3 addresses, one published on both, 2 names; 6 records, one too large for a packet, two CNAMEs in a circle, 12 packets |
| `host_rename` | **finding**: `HostNameTakesEffect` fails | the host of `avahi_core` |
| `entry_group` | `CounterCoversProbing`, `ProbedBeforeRegistered`, `ImplementsPublication`, `GroupSettles` | 2 entries, 2 interfaces, 4 flag sets, 4 network or update events |
| `entry_group_lost` | **finding**: `EveryGroupSettles` fails | 2 events |
| `record_browser` | `ViewMatchesCache`, `QueriersCounted`, `DeferredBrowserStarts`, `GoneRecordForgotten` | 2 browsers, 1 interface that goes and comes, 3 records (one behind a CNAME) in a cache for 2, 2 lookups for each browser (15), 2 POOF rounds (4) |
| `library` | `NextEventIsTimed`, `WakeupNotLost`, `StopEndsThread`, `TextsSurvive`, `OneProbeLoses`, `PacketDecodes`; schedulers: `QuestionsKept`, `OwedAnswersScheduled` | heap of 6 nodes (three levels), 3 events, 3 ticks; 2 watches, 2 timeouts; all texts of 4 bytes out of 11 that each take another path, labels of 5 (63); sets of 1 to 5 records per type, and of an SRV and a TXT key at once; packets of 22 to 94 bytes, 3 items, pointers up to 50 (0x4000), 6 bytes for the name of a question (256), which one of three questions does not fit; 2 keys with 4 known answers, one larger than a packet, 2 users; 2 records that are each other's auxiliary records, 2 hosts, TTLs 0, 1, 4 |
| `resolvers` | `BrowserTellsAll`, `ResolverFinds`, `AnswersReachLookups`, `LookupAnswered`, `ProbeGoesOut` | 3 hosts, 2 links, 11 records; 4 names, 2 configured domains, 2 DNS servers followed (10); 2 lookups, 3 ids (2^16), 1 record cached (500), 1 send per server (3), 2 sends (6); 4 probes, one too large, 2 bad estimates |

The constant of the code is in parentheses where a bound replaces one.

What they say:

* `SignalsBalance` - between two events, and between two emits of a clean-up,
  added less removed is for every service the number of keys under which the map
  holds it. `GoneServiceForgotten` of `Bonjour` - a service that leaves for good
  is forgotten. It is claimed only of executions in which a Resolver runs only
  for a service that the browser reports, and the service is stored under no key
  but its own: the two ways in which the code misses it are a removal that
  precedes the address reply (finding 1) or a Resolver that a clean-up skipped,
  and an address reply for another interface (`bonjour.cpp:221`), whose key no
  removal looks for.
* `HostRecordsCurrent` - after each event a server that registers or runs
  publishes exactly the relevant addresses, and one in collision none, whatever
  sequence of links, addresses, scopes, renamings and conflicts led there. They
  are published under the present host name with one exception, which is
  finding 3: a renaming of a server that is still registering may leave some
  under an earlier name. No other event does, and a renaming in any other state
  leaves none. `PendingCounted` - a server that registers waits for at least one
  group, and for no more than are being registered.
  `MulticastAddressKept` - where the group is joined, it is with an address the
  interface has, a global one if there is one.
* `OwnerPublishAnswered` - as far as the library answers (see *Fairness*), a
  publish of the object that owns the server is answered or withdrawn.
* `ImplementsPublication` - a name that must be unique is announced, answered and
  defended only when the group is established, which takes the last probe of every
  such name on every interface; one that comes later or is disputed is probed for
  on its own; a conflict while probing takes all of them back.
* `QuestionsAnswered` - when a packet has been worked off, each registered
  record it asked for and did not know has been scheduled, multicast a moment
  ago, or sent in a reply, unless it is too large for the packets; none is sent
  twice; and the record list is empty for the next packet.
* `QuestionsKept` - the question of a querier in use is queued, or was on the
  wire since the querier exists, also after another poster withdrew; no known
  answer that fits is lost between two packets. `OwedAnswersScheduled` - while
  a host that asked, or an announcement, waits for a record, it is scheduled.
  `ProbeGoesOut` - a scheduled probe is sent, although records may not fit the
  packet they were chosen for, or the interface goes.
* `NextEventIsTimed` - the heap is a heap and linked both ways, and the timer
  of the loop is set for its first event or earlier. `WakeupNotLost` - the
  helper never sleeps in `poll()` on a watch or a timeout that has changed
  unless a byte is in the pipe. `StopEndsThread` - once stop was asked for, the
  thread ends.
* `TextsSurvive` - escaped labels unescape to themselves, normal forms are
  fixed points and equal for equal names, service names split into what they
  were joined from, alternatives are valid and differ, lists serialise and
  parse back. `OneProbeLoses` - of two hosts that probe
  for one name never both withdraw over the same key, and if neither withdraws
  they have a record in common on every key they share. It says no more: the
  group of a service has an SRV and a TXT record under its name (`entry.c:643`,
  `entry.c:656`), each host may lose on one of them, and since
  `withdraw_entry()` takes back the whole group, both then withdraw. The
  instance reaches such states. `PacketDecodes` - a packet is read back as what
  was appended, whatever did not fit in between, up to the first question whose
  escaped name is longer than the 255 characters a receiver has room for; there
  the receiver gives up (see *Known limitations*).
* `BrowserTellsAll` - a user was told of exactly the names it should be, and of
  ALL_FOR_NOW only after the configured domains. `ResolverFinds` - a
  resolver whose records are there to stay reports FOUND, whatever it kept and
  reported before, and what it kept is in the network, but for the address of a
  service. `AnswersReachLookups` - a lookup that waits is found under its id and
  was told of every cached record that answers it.
  `LookupAnswered` - every lookup ends in an answer or a failure.

Two of each kind of thing is enough for most of these because each relates
at most two of them: two keys, two Resolvers of one key, two objects that share
state, two members of a group, two posters of a question. Three records and
three levels of a heap are there because a record that does not fit has one
before and one after it, and a sibling swap needs a parent and children.
Bounds on queues and events stand in guards (`MaxTasks`, `MaxEvents`,
`MaxQueue`, `MaxBrowsers`, `MaxProbing`, `MaxUsers`, `MaxPosted`,
`MaxSuppressed`, `MaxBadEstimates`, `MaxNow`, `MaxItems`).

Deadlock checking is off where the system may stop: an object that has been
destroyed, a process that has ended, a clock, a text or a packet at its bound
takes no step. It is on for `EntryGroup` and `RecordBrowser`.

### Fairness

* A function that has been entered returns, so the steps of a clean-up are
  weakly fair.
* The libraries deliver the events they owe: a browser its NEW and REMOVE, a
  resolver of a service that stays its answer, NsdManager the answer to a
  resolve. Apple's browser owes `Bonjour` its reports; the Resolvers owe nothing.
* The run `avahi_core` assumes no fairness. `OwnerPublishAnswered` is an
  implication: if no server and no group of an object registers for ever
  (`ServerSettles`, `GroupsSettle`), every publish of the owner is answered.
  That a group settles is not taken for granted, since finding 2 is a group that
  does not; `GroupSettles` of `EntryGroup` says that this is the only one.
* The Qt and Android event loops dispatch what is queued and every timer that
  stays set (`ProbeTimer` among them). `AndroidNsd` asks strong fairness of two
  steps only because the bound on the event queue, which the code does not
  have, disables them.
* In `RecordBrowser` the start of a browser and the timer of a cache entry are
  strongly fair: other events interrupt them, but `avahi-core` runs timers in
  the order of their time and each event ends. The same holds of the timer of a
  wide-area lookup, which the handling of a packet disables while it lasts;
  that handling, and the delivery of record events to a resolver, are weakly
  fair.
* In `SimplePoll` the helper thread is strongly fair, as the application may
  take the mutex again and again and POSIX schedulers do not starve a thread;
  whoever holds the mutex unlocks it, and callbacks return.
* Nothing is assumed of the application.

## Proofs

Twenty-nine theorems hold for every value of the constants: any number of
services, objects, hosts, entries, interfaces, keys, records, lookups and
watches, and any limit. Each module with theorems has an inductive invariant,
stated in the module it is about and checked by TLC on the instance of its run
before it was proved; one lemma per action says that the action preserves it.

| Module | Theorems | Property |
|---|---|---|
| `AvahiClientProofs` | `ClientTypeCorrect`, `ClientViewMatches`, `ClientImplementsDiscovery` | `TypeOK`, `ViewMatchesServices`, `ImplementsDiscovery` |
| `BonjourProofs` | `BonjourNoDanglingResolver`, `BonjourSignalsBalance` | `NoDanglingResolver`, `SignalsBalance` |
| `AndroidNsdProofs` | `AndroidOneResolve`, `AndroidEventsLive`, `AndroidViewMatches`, `AndroidFlagsHonest` | `OneResolveAtATime`, `EventsForLiveObjects`, `ViewMatchesServices`, `FlagsAreHonest` |
| `AvahiCoreProofs` | `CoreHandlesValid`, `CoreViewMatches`, `CoreTypeCorrect` | `HandlesValid`, `ViewMatchesServices`, `TypeOK` |
| `EntryGroupProofs` | `GroupCounterCovers`, `GroupProbedBeforeRegistered`, `GroupImplementsPublication` | `CounterCoversProbing`, `ProbedBeforeRegistered`, `ImplementsPublication` |
| `RecordBrowserProofs` | `BrowserViewMatches`, `BrowserQueriersCounted` | `ViewMatchesCache`, `QueriersCounted` |
| `QuerierProofs` | `QuestionsAreKept`, `AnswersOwedScheduled`, `PollWakeupNotLost`, `WideAnswersReach`, `BrowserToldAll` | `QuestionsKept`, `OwedAnswersScheduled`, `WakeupNotLost`, `AnswersReachLookups`, `BrowserTellsAll` |
| `ServerProofs` | `HostInvariant`, `HostRecordsAlwaysCurrent`, `PendingAlwaysCounted`, `MulticastAddressAlwaysKept` | `HostIInv`, `HostRecordsCurrent`, `PendingCounted`, `MulticastAddressKept` |
| `ServerProofs` | `ResponderInvariant`, `QuestionsAlwaysAnswered`, `OneProbeAlwaysLoses` | `ResponderIInv`, `QuestionsAnswered`, `OneProbeLoses` |

Why the invariants are needed:

* `AvahiClient`: `IInv == TypeOK /\ ViewInv /\ ObjectInv /\ WatchInv /\
  PendingInv`. In the middle of `broswerCleanUp()` the application has been told
  of some removals while the map still holds everything, which `ViewInv`
  expresses with `pending`. That a removal names the right service needs
  `ObjectInv` (the object under a key was made by the resolver under that key),
  and that nothing is found after the browser is gone needs `WatchInv`. The
  refinement maps each step to a step of `ServiceDiscovery` or to a stutter.
* `Bonjour`: `NoDanglingResolver` and `SignalsBalance` themselves, with
  `PendingInv`: outside `cleanUp(browser)` nothing is left to report. What a step
  changes of a service's balance is the number of keys it adds to the map or takes
  out of it, which is counting of finite sets.
* `AndroidNsd`: the four properties, which need each other, with `ObjectInv`: an
  object that was made has an address, and only a live one has its flags set.
* `AvahiCore`: `ObjectInv` (what an object that is gone has left behind) and
  `WaitInv`. That `registerService()` is not reached twice is the question who
  may still wait: an object waits only until the server has run once, and has no
  group before that.
* `EntryGroup`: `CounterInv` compares `n_probing` with the announcers that
  probe (it may exceed them, see finding 2), `ProbeInv` ties the probes posted to
  the announcer's iteration, `LiveInv` says which announcers exist. The
  refinement needs `StageInv` as well: only a committed group has announcers, a
  member waits only while the group registers, and one that was to be probed for
  is past waiting only in an established group. Without it a member could finish
  its probes outside of a committed group, which no step of `Publication` allows.
  That the step which establishes the group is that of its last member is
  counting: the counter covers the announcers that probe, so when it reaches 0
  there is at most one, the one that is done.
* `RecordBrowser`: in the middle of an event neither the view nor the cache is
  up to date. `CallsInv` says that a call agrees with the cache (an event
  changes it before its first call), `LookupsInv` that a lookup runs or its start is
  still among the calls, and `ViewInv` that a record that was reported is cached
  or about to be taken back, and one that is cached was reported or is about to
  be. `CountInv` is `QueriersCounted` in the middle of an event, too; that it
  is preserved is counting of finite sets.
* `QuerySched`: `IdInv` (an id names one job at a time, which is why the
  withdrawal by id hits the right one), `JobInv` and `AnswerInv`.
  `ResponseSched`: `SoleQuerier`, since a known answer suppresses a job only if
  the host that knows it is the only one that asked. `SimplePoll`:
  `WakeupNotLost` is inductive as it stands.
* `WideArea`: `TableInv`, by which the table and the lookups are inverse to each
  other, dead lookups included. That the loop over `next_id` ends at a free id
  is the pigeonhole principle. `TypedBrowsers`: `DeferInv`, who holds a
  reference and which end of the list of configured domains is left.
* `Interfaces`: that every address group is as it should be (`Current`),
  `PendingCounted` and `MulticastAddressKept` together, with `ListsSound` (each
  address is in one list, once) and `NamesSound` (a group that is filled has a
  name). An update of one address may end in the update of all, and that in turn
  in a change of state, so the lemmas about `AddressUpdate` and `UpdateRrs` say
  what holds of the addresses already dealt with and what of those still ahead,
  in every state of the server; `PendingCounted` decides which of them is
  reached. That no event adds to the addresses under an earlier name
  (`OldNameLeft`) is followed through the same nesting: what is filled is filled
  for the name the server has at that moment, and a renaming outside of
  `REGISTERING` withdraws all groups without a change of state in between.
* `Responder`: `Working` says what holds between two steps on one packet. While
  sections are read, what was asked for is on the record list (`AskedKept`); while
  the list is worked off, every record taken from it is scheduled, refused, too
  large or in a reply (`Generating`), and nothing is in two of them, for which the
  list must not hold a record twice (`ListSound`), although auxiliary records name
  each other in circles.
* `ProbeTie`: who withdrew over a key has heard a record above all of its own of
  that key, who did not withdraw has one to match whatever it has heard of a key
  it has (`TieInv`). Then the greatest record of the key on one host, which exists
  since the sets are finite, has its equal on the other.

Loops over lists are proved, too. The induction theorems of the library take an
operator as a parameter, which the provers cannot instantiate; `ServerProofs`
derives from the well-foundedness of `<` a form about a set of numbers
(`SetInduction`), and what a fold over a list leaves behind is then shown for
each of its prefixes.

The assumptions are those of the modules, evaluated by TLC in every run: marks
such as `NoLookup` differ from what they stand beside, sets are finite, limits
and bounds are numbers (`MaxTasks`, `MaxEvents` and `MaxQueue` of `AndroidNsd`
may have any value, so that the proofs do not depend on the bounds), the
configured domains are a sequence, and there are fewer lookups than ids.
`ProbeTie` assumes that there are two hosts and that the comparison is a total
order on the records of one key, whose equal records agree in their data. The comparison of `rr.c`, translated in `Records`, is
recursive; that it is such an order is evaluated by TLC for the records of the run
`library`.
`WideArea` has the bound `IdsOutlastTheDead` in a guard, as said under *Known
limitations*.

Only model-checked:

* all liveness properties, which are beyond the prover;
* the modules built on recursive operators (`PrioQueue` and `TimeEvents` with
  `NextEventIsTimed`, `Names` and `StringLists` with `TextsSurvive`, `DnsPacket`
  with `PacketDecodes`, the comparison in `Records`): the prover loses its SMT
  backend where one is declared, and the heap alone relinks up to twelve pointers
  in one exchange;
* `Resolvers` and `ProbeSched`, whose properties are liveness.

## Findings

1. `bonjour.cpp:138` - a removal that precedes the address reply is ignored
   (`bonjour_ghost`).
2. `avahi-core/announce.c:37` - a removed announcer stays counted in
   `n_probing`; the group then never leaves `REGISTERING`, even on the
   interfaces that stay (`entry_group_lost`). The passing property `GroupSettles`
   says that this is the only way it can happen.
3. `avahi-core/server.c:1265` - `avahi_server_set_host_name()` withdraws the
   address records one by one before it installs the new name. Of a server that is
   `REGISTERING`, the withdrawal of the last counted group makes it `RUNNING`,
   which fills the groups withdrawn before it again, under the old name, and what
   is filled is not filled a second time (`host_rename`).

## Known limitations of the code

Met while modelling. Those marked (m) are steps or choices of a model, where
they end the process or weaken what a property can say; the others are outside
the models.

* Backends: `androidnsd.cpp:97` - the posted task uses `this` after deletion
  (m). `avahicore.cpp:59` - only the object that created the server hears that
  it runs, so the publish of a second one may wait for ever (m, hence *Owner*
  in `OwnerPublishAnswered`). `avahicore.cpp:61` - the reference count grows
  although the server could not be created (m). `avahicore.cpp:288` - the
  destructor frees neither the group nor a leaked browser (m).
  `avahiclient.cpp:251` - after a failed commit the group pointer is cleared
  before it is freed, and a group that could not be created is used (m).
  `bonjour.cpp:221` - the key of an address reply is built from the interface of
  the reply, so that a service may be stored where no removal finds it (m).
  `bonjour.cpp:227` - a service whose key another one already uses is signalled
  by `serviceUpdated()` without `serviceAdded()` (m).
  `QZeroConfNsdManager.java:124` - a queued resolve is not taken back when its
  service is lost (m).
* `avahi-qt/qt-watch.cpp` - `setWatchedEvents()` leaks a notifier, `gotOut()`
  reports `AVAHI_WATCH_IN`, and `m_incallback` is written after a callback that
  may have freed the watch.
* `simple-watch.c` - a watch created while the helper is in `poll()` has no
  index yet and its events cannot be read before the next prepare;
  `cleanup_watches()` clears the request of the timeouts (m); the loop cannot
  start again after it was made to quit (m).
* `browse.c:295` - a CNAME that goes away is looked up with flags no lookup
  has, so its query is never dropped; the assertions at `browse.c:298` and
  `browse.c:323` may fail later (m).
* `entry.c:1166` - an interface that comes up during the holdoff may establish
  the group alone (m).
* `cache.c:271` - repeated flushes move the one-second timer of an entry that
  already waits for it.
* Resolvers: a service resolver keeps the address record when the SRV record
  goes, so a replacement on another host is reported with the old address; an
  address resolver that falls back to multicast after it has reported keeps its
  PTR record and reports no other. `browse-dns-server.c` - a server whose
  resolver failed is taken back without having been reported, servers beyond
  the tenth are never noticed, and the browser must not be freed in its NEW
  callback (m).
* `wide-area.c` - the id of a dead lookup counts as free, and inserting it again
  does not replace the old entry, so a reply can be lost; the model assumes that
  the ids outlast the dead lookups, as 2^16 of them do.
* `dns.c:662` - the name of a question is read into 256 bytes, that of a record
  into the 1014 that `domain.h` asks for. A question with a longer escaped name,
  such as that of a service with 63 bytes of UTF-8, is written but makes the
  receiver give up the packet (m).
* `dns.c` - a reply counts all questions of the query even if one did not fit;
  the limit on labels counts pointers. `server.c:164` - two hosts that each
  lose on one of two keys both withdraw (m). `rr.c:488` - the estimate is one byte
  short for each name, so a record larger than the MTU normally does not fit
  its own packet either (m: the estimates of `ProbeSched` and `Responder` may
  be wrong). `avahi_record_copy()` frees the source's `hinfo.os` on failure. The
  order of two records puts a prefix after its extension, unlike RFC 6762 8.2,
  but the same on both hosts.
* `domain.c` - `avahi_normalize_name()` ignores a failure of
  `avahi_escape_label()`; a service name splits only if its domain does not
  begin with `_`. An alternative of a host name cut inside an escape would fail
  its assertion, but host names here have letters, digits and `-` only.
* Server: `server.c:1219` - the counter
  is raised after the first update, so a failed multicast join can make the
  server run too early (m). `iface.c:228` - a failed rejoin leaves the interface
  announcing without the group (m). `server.c:1300` -
  `avahi_server_set_domain_name()` frees the name it has installed.
  `all_flush_cache` stays unset when known answers empty the record list
  (`server.c:649`), records withdrawn by a probe in the same packet are still
  answered, and a probe with the TC bit is answered at once although the comment
  at `server.c:401` says never (m).

## Not modelled

TXT records, names and addresses are data the control of the backends never
looks at, except the key, whose construction `AvahiClient` and `Bonjour` model. Sockets,
netlink's framing, hash maps, allocation, logging and the textual forms of
records, addresses and errors are left out as I/O or containers; so are the
reflector with its legacy unicast slots (off by default), the HINFO and
workstation records (off by default), rate limiting, the construction of records
by `avahi_server_add_*()` and the accessors of `QZeroConfService`. The Windows
client stub (`bonjour-sdk/`) is Apple's
and vendored; `Bonjour` models it from how `bonjour.cpp` uses it.

In `EntryGroup`, goodbye packets, entries without a group and several records
under one name are left out, and an update repeats the flags of its entry. In
`RecordBrowser`, wide-area lookups, browsers for CNAME records themselves,
cyclic CNAMEs and the ALL_FOR_NOW event are left out. In `Interfaces`, failures
of `avahi_server_add_address()` are left out. In `WideArea`, the two sockets are
one and the expiry heap is a choice.

## Plan

1. `AvahiCore` and `Interfaces` on top of `Publication`, as they use the same
   entry groups with a state and a callback only.
2. `RecordBrowser` with a second interface, on which a CNAME reaches lookups
   that are not for it; `Resolvers` composed with it.
3. The comparison of `Records` and the texts of `Names` as recursive functions,
   so that the assumption of `ProbeTie` becomes a theorem.
