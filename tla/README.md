# Verification of PALT

PALT connects the computers and phones of one person. The devices share a secret (the pairing key, the
"group"); any two of them keep one encrypted channel open, the *link*, over the LAN or through a relay
server, and everything else (clipboard, calls, notifications, media, requests for files) travels over it as
packets. Files and text messages are sent over connections of their own.

This directory holds TLA+ models of the parts whose correctness depends on the order of events, the TLC runs
that check them, and proofs for TLAPS. Every definition that models code says in `PROJECT.json` ("map")
which lines it stands for.

    tlc -workers 2 -config Devices.cfg MCDevices            # one run
    tlapm LinkManagerProofs.tla                             # the proofs of one module

## 1. The system

### Components, their state and how they interact

| component | code | state | operations |
|---|---|---|---|
| Link manager | `desktop/internal/link/link.go`, `mobile/lib/services/link/link.dart` | the registered link per peer; per link: last packet received, waiting requests | RunPrio, register, serve, Probe, Request, Send, Close, CloseAll |
| Connector | `desktop/links_app.go`, `mobile/lib/providers/link_provider.dart` | per device: busy, failures, next attempt; when a link was last probed | tick, kick, connect, network-change check |
| Relay server | `relay/relay.go` | devices per group, sessions that wait for their answer, pipes per group | register, broadcastPeers, connect, accept, pipe |
| Relay client | `desktop/internal/relay/client.go`, `relay_client.dart` | control connection, peers list, status | loop, session, acceptSession, openPipe, Dial, Stop |
| Group and relay life cycle | `desktop/pairing_app.go`, `desktop/relay_app.go` | the pairing key, the current relay client | updatePairing, startRelay, stopRelay, runLANProbe |
| File transfer | `desktop/internal/transfer`, `desktop/app.go`, `transfer_service.dart` | offers waiting for the user, progress, history | SendFilesTo, serve, AcceptOffer, logHistory |
| Encrypted pipe | `desktop/internal/secure`, `mobile/lib/services/secure` | frame counters, undelivered bytes | Handshake, Read, Write |
| Discovery | `desktop/internal/discovery`, `discovery_service.dart` | peers by address with the time last seen | upsert, Evict, evictStalePeers, Rescan, beacon |
| Features | `desktop/*_app.go`, `mobile/lib/features` | clipboard: last text; calls: notification, paused players; notifications listed and shown; status, media: links told; proximity: seen, away since, done; contacts: the book being received; ringing and recording: the one going on; internet help: offered | one handler per packet type, loops that poll the links |
| Unlocking | `desktop/cmd/palt-unlock`, `desktop/unlock_app.go` | the phones' public keys, PALT's lines in the PAM files, the challenge being carried | authenticate, install, uninstall, SetupUnlock |
| Phone storage | `desktop/phonemount_linux.go`, `phone_files.dart` | mounts by device; per open file: gathered writes, cached blocks, fetches under way | mount loop, Read, Write, flush, Setattr |
| Remote input | `desktop/input_app.go`, `input_linux.go`, `textfocus_linux.go` | the one session at the desktop's portal, when it was last used, the link told of focus | startInput, stopInput, events, idle timer |

The connector dials what discovery and the relay client list; both ends hand the connection to the link
manager (`HandlePaired` reads an offer from it and passes link offers on). The relay client's `Dial` and
`acceptSession` meet at the relay server, which copies bytes between the two connections from then on. A
change of the pairing key closes all links and restarts the relay client; a new peers list rescans, probes
the LAN and kicks the connector. Feature handlers run in order on the link's read loop. The user interface
calls the Go functions and shows events; the one decision it takes that the others depend on is which
incoming offer it shows.

### What is hard about them

* **Two devices decide on their own.** Both register the same two connections, perhaps in opposite orders,
  and must keep the same one; a probe made to find that out takes two seconds in which everything goes on.
* **Locks are given up across network calls.** `register` probes, `handleAccept` sends on a channel,
  `broadcastPeers` writes, `startRelay` stops the old client, all after unlocking.
* **Connections fail in three ways:** closed by the other side, broken with an error, or dead without a word
  until a ping is missed.
* **Timeouts race answers:** relay session (15 s), opening a pipe (25 s), the phone's verdict (1 min), probes.
* **The two implementations** (Go and Dart) are meant to do the same and differ in details.
* **What was offered is not what is sent:** files change, vanish or break off between the offer and the end.

### What makes each correct

* Link manager: one open link per device; both ends agree in the end; the best path wins; a working link is
  never given up except for a better one; a device refuses only for a link it had reason to believe in.
* Relay registry: within its limit; a device in the group has a handler that will take it out; a client that
  is online is reachable; lists are up to date in the end.
* Relay pipes: only the called device of the same group is joined, once; places are counted; every
  connection is answered or closed in the end.
* Transfers: what is recorded as completed is complete; no byte in the wrong file; what was sent arrives;
  nobody waits for ever.
* Requests: a reply reaches the request it answers. Connector: a reachable device is dialed soon. Pipe: the
  bytes read are a prefix of the bytes written. Discovery: a device that is there is listed. Group change:
  the relay client in use is the new group's and the others end. Features: what is shown, paused, mounted or
  recorded is what is going on.

## 2. What is modelled

One module per component. A module's variables are named after the code's fields where there is one, and its
actions after the functions or the part of a function between two places where other goroutines can run
(a lock given up, a channel, a call that waits). Definitions named `X_Something` are wrong variants of `X`,
used only to show that a property can fail (`mutants` in `PROJECT.json`).

### LinkManager and OneChannel: the one link between two devices

Two devices, `Low` and `High` by device ID, each a computer or a phone (`Phones`). A connection is used once
and has on either end a phase: `dialing` (waiting for the accept byte), `hello` (waiting for the identity in
`RunPrio`), `probing` (in `register`, pinging the link there is), `open` (served) and `closed`. `links` is
the manager's map, `net` the packets on their way, `plan` what the connector's running attempt has left to
try, `probe` and `check` the probes of `register` and of the network-change check. `RegisterBetter`,
`RegisterProbes`, `ProbeAnswered` and `ProbeUnanswered` / `PhoneProbeUnanswered` are `register` cut at the
places where it gives up its lock; the phone's differs in what it does when the probed link is gone.
`PathDies` kills a path without telling anybody.

A probe can end without an answer only if the path is dead or the peer does not read the link (it serves it
only after a probe of its own, which takes as long). This is where time enters the model: `CanTimeOut` and
`ServedLate` say which of two timers of the same length may run out first.

`OneChannel` is what link.go's header promises, without identities, probes and tables: there is one channel; the
first device to serve a connection better than the channel moves it there, and only if neither has given that
connection up (`Serve`); a device gives up only what the channel is better than (`GiveUp`). When a path dies or a
user dials nothing is promised any more (`Disturbed`). `IsOneChannel == Promise!Spec` is the refinement: the
channel is the best of the connections (`IsBest`) that one device serves and the other one serves or is going to
register (`Shared`). Dialing, probing and packets map to stutters; a register moves or follows the channel.

### Connector: where and when to dial

`runConnector` as passes (`Tick`, `Kicked`) over what discovery, the relay's list and devices.json offer
(`Candidate`, `Consider`), and the dialing goroutine's result (`DialSucceeds`, `DialFails`). Time is counted
in ticks of the connector; `wait` and `failures` are its backoff. The network is free: routes come and go
(`Move`), sightings follow or not (`Notice`), an address passes to a device of another group (`strange`).

### LinkRequests: requests and replies over a link

Both ends number their requests and read their packets in order. `Deliver` hands a packet to whoever waits
for its id before its type is looked at, as the code does; what keeps the two numberings apart is the
letter in front ("r" on computers, "p" on phones), and two computers both use "r" (`letter`). `RepliesMatch`
says what an answered request may have been answered with: its own reply, or on a link of two computers (a
computer asks any device for its Bluetooth headphones, `bluetooth_app.go:125`) the other one's request with
the same number, which is then never handled.

### SecurePipe and OrderedPipe: the encrypted pipe

One direction of a pipe: concurrent writers and their lock, the counter that goes up before the frame is
written, writes that leave all, some or none of a frame on the connection, the reader with its own counter.
`OrderedPipe` is what a pipe promises and nothing else: frames come out in the order they went in, whole
messages after one another. `KeepsPromise == Promise!Spec` with `sent <- intact` is the refinement.

### GroupChange: changing the group while everything runs

`updatePairing` and `startRelay` step by step (`Change`, `CloseAll`, `TakeOld`, `StopOld`, `ClearOld`,
`StartNew`), the loop of each relay client between its own steps, and links that shake hands with the key
they read when they began. `SaveFails` is a write of `pairing.json` that does not succeed: the file is emptied
first (`os.WriteFile`), so it may be left damaged, while the app goes on with the pairing it has; `saved` tells
whether the last write succeeded, and only then does `RelayFollowsPairing` say what is in the file.

### Discovery: finding each other on the LAN

Every node runs the same code: queries and replies of the beacon, at most one reply a second to the same
asker, kicks, mDNS sessions and rescans, expiry after `TTL`, and the probe that evicts an address after
`ProbeFails` failures; a dial may fail although the device is there, and a late one evicts a device that has
come back. Datagrams are lost or delayed up to one beacon interval.

### RelayRegistry, RelayPipes and Rendezvous: the relay server and its clients

`handleRegister` cut at its locks and writes (`Register`, `SendOk`, `Announce`, `Leave`, `AnnounceLeft`) and
the client's `session` (`Dial`, `ReadFirst`, `ReadPeers`, `ReadFails`). `broadcastPeers` starts one goroutine
per device (`sends`) and these write in any order. Connections break without either side closing (`Break`).

`handleConnect` from the request to its deferred functions (`Connect` ... `CleanUp`, `Drain`), `handleAccept`
(`Accept`, `Deliver`), and the clients (`Dial`, `Answer`, `Ignore`, `HangUp`). Session ids come from a small
set and repeat, so a late answer can meet another call's entry under the same id.

`Rendezvous` is what two devices may rely on and nothing of how the relay does it: a call is joined with one
answer to it from the device it was for, or fails, and both are told at most once, as it ended (`Ask`, `Offer`,
`Join`, `Refuse`, `Fail`, `Confirm`, `End`). `IsRendezvous == Meeting!Spec` is the refinement: `joined` is what
the handler holds as the other connection, and `over` are the calls whose handler is on its way out. Entries,
channels, notices, places and clean-up map to stutters. That nobody is joined wrongly, `JoinedRight`, is what
`Join` demands.

### Incoming, Transfer and SavedFiles: what comes in

*Incoming* is the computer's server up to the point where a connection becomes a link, a stream or a text:
who the client is (of the group, a stranger, one that claims to be paired, a plain one), how much it has
said, where the handler stands, whether a read deadline is set, which offer is on the screen. Offers wait in
a map under the transfer id their sender gave (`pending`), each for an answer in a channel of its own
(`asking`): of two offers with one id the later takes the earlier one's place, an accept goes to whichever is
in the map, and a handler that has its answer deletes the entry, whosever it is. `by` remembers for which offer
on the screen the accept was meant. So `NothingUnasked` says what the code keeps: one accept of an offer of that
id for each connection that is let in; that it was this very offer holds for ids no other offer has.

*Transfer* is the stream itself. The sender walks `idle, asking, opening, streaming` for one file after the
other to `completed`, `error` or `dead`; the receiver `none, prompt, saving` to `rejected, completed, error` or
`lost` (ended without being recorded). One byte of file `f` is the number `f`, so a byte in the wrong file
shows. Computers and phones differ in six places, each a disjunct of its own: a file that cannot be opened,
because it is gone or for any other reason (skipped, or thrown), the end of the stream within a file (taken for
the end of the file, or thrown), the connection after an error (closed, or left open by the phone's `sendFiles`,
unless the socket ends over it), giving up on the verdict (never, or after a minute), noticing that the receiver
has closed before its verdict, and files that cannot be created. `Touch`, `CannotRead`, `SenderDies` and `Cut`
are the surroundings: files that change, vanish, or cannot be opened or read on, a sending program that ends, a
broken connection. `touched` remembers which of these a transfer met. `OtherOffer` is the second offer that
takes the screen.

*SavedFiles* is what is left on the disk: free names chosen and created in two steps by several transfers, and
the log that transfers and the user read, change and write as a whole. A transfer logs once, so an entry is in a
list once and deleting it takes one out (`Without`). `os.WriteFile` empties the log before it writes it
(`Truncate`, `WriteLog`) and nobody looks at its error: it may fail to open, or leave the log empty or damaged.

### Features

*PhoneEvents*: calls and notifications of several phones. A phone tells of every change of its telephone but of
ringing whose number is still to come, and of the notifications that its user shares (`hushed`). Their packets
are handled one by one, the handlers wait for the desktop in between, which may fail (`orphans`: what it then
still shows); meanwhile the user acts on the desktop's notifications and on the players. *Contacts*: a book that
arrives in parts, none when it is empty, asked for on every link and change; a lookup or the write of the file
may fail. *Unlock*: a login's challenge to a phone and back, keys that are set up, replaced and removed by
several users, PAM's files edited one by one. *Limits*: recording and ringing, each with one variable for the
one going on and timers of earlier ones still running. *Clipboard*: what is copied on two computers, with the
signals of the desktop that come for every text, also for those set, or do not come without the helper; a text
may not reach a device (`missed`) or not get onto its clipboard (`parted`). *Loops*: the loops that look at
links, settings and state every few seconds, each reading them one after the other, with a desktop whose calls
fail (`leaked`: an inhibition whose cookie was forgotten; `absence`: what became of the screen while the phone
was away). *Outages*: the low-battery warning and the offer of internet, with one timer per packet of an outage.
*RemoteInput*: one session of the desktop's portal for all phones, whose start asks the user and does not hold
up stops and events. *PhoneFolders* and *PhoneFile*: when a phone's folder is there, and one open file of it
with its block cache, read-ahead and gathered writes, truncated through the handle or, by anybody else, by its
path (`Shortened`).

### Composition

The parts meet where the code lets them: `Transfer` begins where `Incoming` hands over a stream; the
connector's dials and the discovery's sightings are inputs of each other's modules (`Notice`, `RelayPeers`),
left free there, which allows more than the real counterpart does; `LinkManager` allows any dial the connector
could make. `MCDevices`, `MCProgress` and `MCSafety` are unions: `part`, chosen in the initial state, says
which module a behaviour is of, the others' variables stay put, and each property speaks about its own part.
Modules are put together this way because they share no state, so that one run covers many of them. A union
EXTENDS the modules whose properties are proved (the run then checks the very definition the theorem states, and
their assumptions) and has the others as instances; parts of one module (*login* and *setups* of
`Unlock`; *overlaps*, *calls* and *notices* of `PhoneEvents`) are one instance with less of it allowed in each.
`PhoneNotices` has what a computer shows of its phones, from `PhoneEvents` and `Outages`.

## 3. The runs

Runs that pass:

| run | instance | what it shows |
|---|---|---|
| LinkFaults | a computer and a phone, 3 connections, one path dies, one check; 521k states | OneOpenLink, ComputersRefuse, IsOneChannel |
| Devices | *agree*: computer and phone, 2 connections, two speeds and the relay, all paths alive; *settle*: one speed, users dialing, a path dying and a check; *folders*: 2 links, one switch, one ejection; *telling*, *playing*: two loops each, 2 links, 2 changes, one failing call; *writing*, *reading*: a file written and one read by two threads and a read-ahead; 479k | HandleTrue, DialingEndsInLink, LinksSettle, LoopsSettle |
| RelayPipes | 2 groups of 2, 2 calls, 2 answers, one session id, one place each; 2.3M | PlacesCounted, IsRendezvous, NeverBlocked, WaitingIsAnswerable, EndedIsClosed |
| Progress | nine parts: registry (2 devices, room for 1, 3 connections, one breaks), group (2 keys, 2 clients, 1 link, 1 change), connector (1 device, 2 paths and the relay, 3 changes), LAN (2 nodes, TTL 3, 2 moves, so that a node may leave and come back; one looks for the other by mDNS), incoming (2 connections, with one transfer id or two), shots and rings (3 packets each), touchpads of one phone (2 events) and of two (2 starts, the first by a fixed one, as they are alike); 446k | GroupIsLive, OnlineIsReachable, RelayFollowsPairing, NothingUnasked, MembershipSettles, StoppedClientsEnd, BestRouteWins, PresenceSettles, HandlersEnd, LimitsHold |
| Safety | twelve parts: transfer (2 files of up to 2 bytes, 3 in all; each kind of sender and receiver; one fault and one change, or one of them if the receiver has no room or is asked), requests (2 and 1; a computer and a phone with one ping, or two computers), pipe (3 messages, 5 frames, 2 failed writes), saved files (3 files, old and new of one name, a log of one), contacts (3 versions of 2 parts, none and 2, 2 links, 2 requests, 1 restart), one login, two users' setups, overlapping calls (3 and 2 events), calls with players (3 events), a notification that may be kept from the computer (on a desktop that does not fail), two clipboards, one with a helper that fails, outages with three timers; 547k | RepliesMatch, BooksUnmixed, PassedWasTouched, LinesHaveKey, AfterCalls, NoticesTrue, ClipsFollow, PhoneKeepsWhole, ComputerKeepsWhole, RightBytes, KeepsPromise, FilesKept, EntriesKept, Delivered, SavingEnds |

`TypesOK` is the type invariant of every part of a union. `LimitsHold` also says that no unused session for
remote input stays open (`SessionsEnd`), `NoticesTrue` that the list of notifications follows
the phone (`ListFollowsPhone`) and the help of Outages is offered once (`OncePerOutage`): parts that are alike
share a property.

Runs that show where the program does not do what its comments, plans or tests say; each has one finding in
`PROJECT.json` with the lines:

| run | property | what happens |
|---|---|---|
| LinkPhoneRefuses | RefusedForALink | the phone refuses the new link although the old one died during the probe; the computer does not |
| LinkSameKind | DialingLinks | two links of the same kind (user and connector dial at once) registered in opposite orders: each side probes the link the other does not serve, and both links die |
| RelayLists | ListsSettle | two goroutines write to one device in the wrong order; its last peers list is stale until somebody comes or goes |
| RelayOkFirst | AcceptedIsOnline | another device's broadcast overtakes the ok and the client gives up ("relay refused") |
| PipesLateAnswer | AnswersEnd | an answer put in the channel after the timed-out call has drained it is never closed |
| TransferTruncated | CompletedIsWhole | the sending program ends within a file and the receiving computer records the transfer as completed |
| PhoneEjects | EjectedStays | the folder of a phone outlived a short loss of the link; ejected on the new link, it is mounted again three seconds later |

### Bounds, and why they are enough

* Three connections are the least in which a third link is registered while a second one probes the first;
  the liveness runs use two, the number over which two devices can disagree.
* One path that dies, one check: every recovery in the code is from one failure; two in a row add repetition.
* Session ids: a single id makes every call and answer collide, which is the worst case; distinct ids only
  remove behaviours. A limit of one place makes the counter reach it.
* Two files are the least in which bytes can end up in the wrong one; two bytes the least in which a stream
  can end within a file that has begun. A log of one entry makes every update drop one.
* Three changes of the network are the least in which a route fails, goes and comes back while the connector
  waits; the caps of the backoff keep their order (seen < known < other group), not their length, so that
  `BestRouteWins` says that a pause ends and not how soon.
* Two versions of two parts over two links: the least in which a part of another version, and one of the
  same version over another link, can come between two parts.
* Three packets about recordings or ringing: start, stop, start again, with the first one's limit on its way.
* Two threads and one read-ahead on one cached block of two cells: every pair of operations meets, blocks are
  evicted, a write crosses a block's border.
* Three timers of Outages: two of one outage and a late one of the outage before.
* Symmetry (connections, calls, answers) is used in runs that check invariants and action properties only. In
  Devices, with its liveness, each device dials the connection of its name first (`InOrder`): undialed ones are
  alike, so every behaviour is one of these with the two renamed.
* `CHECK_DEADLOCK FALSE` everywhere: connections, faults and changes are bounded and used up.

### Fairness, and why the code justifies it

Weak fairness for what the programs do by themselves: goroutines and futures run, read loops read what has
arrived, every wait in the relay's handlers has a deadline, tickers and timers fire. Not fair are users
(dialing by address, answering an offer or the portal's question, a fingerprint), broken connections, paths
that die, files that change, clients that answer a call or talk to the server, datagrams (they may be lost,
up to a bound). In `Transfer`, a receiver that can write does so, but one without room need not fail at a given
byte (`CannotSave` is not fair), and a phone need not reach its minute (`GiveUp`). A break of the connection
(`Cut`) is noticed by both ends because the system reports it (keepalive, or the error of the next write); a
path that dies without a word is modelled in `LinkManager`, where the code's own pings are what notices it.

In `Loops`, the media loop selects between its tick and a kick. Go chooses at random among the ready cases, so
a kick that is there again and again is taken at some time although ticks come in between: strong fairness of
`WakeOnKick`. Fairness conditions in unions are those of each part while the behaviour is of that part.

What the properties leave out on purpose: `SavingEnds` speaks of computers that send, because the phone's
`sendFiles` leaves its connection open when it throws (`transfer_service.dart:743`) and the receiver then does
wait until the process ends. `RightBytes` allows a phone's file to vanish or not to open but not a computer's,
because the Go sender skips it and the next file's bytes fill its place; the properties of whole transfers leave
out all that happened to the files (`touched`). `EntriesKept` leaves out updates whose write failed or met
another's. `HandleTrue` leaves out blocks whose fetch met a write and two sendings at once (`clouded`, `raced`),
and after a cut by path the blocks cached by then and the handle's size (`apart`), `ClipsFollow` texts that
cross (`overlapped`), were not sent (`missed`) or could not be set (`parted`), `AfterCalls` and `NoticesTrue`
events that were lost with a link (`cut`), the former also notifications that the desktop failed to replace or
close (`orphans`), the latter what the phone kept to itself (`untold`), `LimitsHold` a desktop that does not
stop recording when told to (`unstopped`): there the code does otherwise, see below.

### What the code does otherwise, without a run of its own

Met while modelling; the models contain each of them and the properties are stated around them.

* A second offer takes the screen and the first can never be answered (`transfer_service.dart:173`).
* Two transfers that look for a free name at once may choose the same one (`server.go:296`).
* A computer skips a file that it cannot open for whatever reason and records the transfer as completed
  (`client.go:97`); one that it cannot read to its end makes it close the connection as after a whole stream, so
  that the receiving computer records a file that is short (`client.go:127`).
* A failed write of `history.json` loses its entries without a word (`app.go:939`, `:1088`).
* A link of the old group whose handshake ends after `CloseAll` is registered and stays (`pairing_app.go:114`).
* `connect` returns on a handshake with another group's device without trying the other addresses or the relay
  (`links_app.go:291`), and then waits longest. A pause set by a failed dial outlasts the kick that came
  during the dial; a device that is seen after long absence can wait longer than `backoffSeen`.
* `dialPeer` falls back to a plain LAN connection when the link has just dropped.
* Two texts copied on two computers at once may be sent back and forth once more before they settle.
* A text that a computer could not put on its clipboard stays its last one and in its history
  (`clipboard_app.go:83`, `:92`); one that was copied while a device had no link is never sent to it (`:67`).
* Requests of two computers that ask each other at the same time: both number theirs "r1", "r2", ..., so one
  takes the other's request for the reply to its own (`link.go:201`, `:228`).
* Contacts: parts of two answers of the same version can leave one out (`messages_app.go:159`). A phone whose
  last contact was removed sends no part, so the computer keeps the old book (`messages.dart:90`).
* A call that ends while the link is down stays in the list of calls (`calls_app.go:234`).
  A ringing notification that the desktop failed to replace is forgotten (`calls_app.go:177`), one that it failed
  to close as well (`notify_linux.go:143`): it stays until the user closes it.
* A notification that the phone removes while sharing is switched off stays listed (`notification_sync.dart:109`).
* palt-unlock: a key is installed and PAM's lines are not, when `addPAM` fails (`unlock_app.go:54`); one user's
  removal can take away the lines another user's setup has just added.
* The limit of an earlier recording or ringing that is already on its way may end a newer one early.
* A phone's file: a block fetched while a write goes out is cached as it was before; two flushes may reach the
  phone in either order; a Read whose flush fails drops the writes, and the Flush after it succeeds; `Fsync` and
  `Read` flush without dropping the folder's cached listing. A file cut by its path while it is open leaves the
  handle with its old size, blocks and gathered writes, which go out after the cut (`phonemount_linux.go:250`,
  `:260`).
* A phone's folder that is busy when the phone has been away too long stays, without an entry, until the next
  mount of that phone detaches it (`phonemount_linux.go:627`).
* Proximity: switched off while the phone comes back, the old time of its leaving stays, and the next leaving
  locks without the grace period. A lock that fails is not tried again (`proximity_app.go:52`).
* Keep-awake: an `Uninhibit` that fails forgets the cookie, so the desktop stays inhibited until the program ends
  (`keepawake_linux.go:32`).
* Internet help: the timer may pass its checks just before the phone comes online and offer late; the outage
  after that is then not offered.
* Bluetooth turned off and on between two ticks is never told (`bluetooth_app.go:84`).
* Remote input: a touchpad closed while the user is asked sends no `input.stop`, and the session granted then
  stays until it idles or the link ends, although `input_app.go:4` says it is stopped with the screen. A session
  that the portal closes between its answer and the assignment stays in use while events come
  (`input_linux.go:139`). One phone's stop, or the end of its old link, also ends another phone's focus
  reports. A session created after the request timed out is never closed.

## 4. What is proved

The constants are arbitrary: any sets of connections, calls, answers, devices, transfers, phones, any sizes and
bounds, under the named assumptions of each module: bounds are numbers, "none" is none of what it stands for,
finiteness where it is counted, and what follows. `RequestsAssumption`: a link has two ends; they may number
their requests with one letter or with two. `ContactsAssumption`: a version has any number of parts, also none.
`SavedAssumption`: a name is a sequence of the numbers that were added to it, finitely many files were there
before, the log holds at least one entry, and the user is no transfer.
`UnlockAssumption`: phones are numbers from 1, an attempt names a service there is. `EventsAssumption`:
notifications are numbers from 1 (0 stands for the call). Each inductive invariant was
first checked by TLC on a small instance.

* **LinkManagerProofs.** `TypeCorrect`, `AtMostOneOpenLink` (`[]OneOpenLink`), `ComputersRefuseForALink`
  (`ComputersRefuse`: every computer, whatever its peer is; for phones the same is false, run LinkPhoneRefuses).
  OneOpenLink is not inductive: `Take` closes the link it replaces, which must be the one the map names, and
  `ProbeUnanswered` closes the link it probed, which must have been served. `IInv` adds that the registered
  link and every probed link was served (`LinkWasServed`, `ProbedWasServed`) and that while an end dials the
  other end does not exist yet (`DialedAlone`). `BetterIsOrder` shows that the comparison of links is a strict
  partial order on both sides: two links tie only if they have the same route, speed and dialer, which is the
  case LinkSameKind runs into.
  *One channel:* `LinksAreOneChannel` (`IsOneChannel`, each step a `Serve`, a `GiveUp` or a stutter, `NextMaps`),
  `WorkingLinkStays` (`WorkingLinkKept`: a link both ends serve is given up only for a better one) and
  `QuietAgrees` (`[]QuietOnTheFastest`: with no dial and no register under way, both are on the fastest connection
  they accepted). They hold while it is `Calm`, until a path dies or a user dials, by `CInv`. Its core is
  `Ranked`: any connection that one of the devices has decided about is shared, or a better one is. So a probe
  stays unanswered only if the probed link is not the channel (`UnansweredIsGone`), and then taking the new one
  loses nothing (`NotTakenWhileServed`, `TakingKeeps`). This needs that the peer's late register ends only probes
  of links that were given up here (`LateIsGone`), and that no two live connections tie: the connector dials one
  path at a time and none like that of a link it has (`OneOfAKind`, `PlansNew`), and a connection is entered by
  both ends at once (`Met`). A user who dials by address breaks `OneOfAKind` (LinkSameKind is what follows), and a
  dead path breaks `UnansweredIsGone`: TLC finds the two properties violated then, which is why the theorems stop
  there.
* **GroupProofs.** *Registry:* `TypeCorrect`, `GroupStaysLive` (`GroupIsLive`), `OnlineStaysReachable`
  (`OnlineIsReachable`). `IInv` adds that nothing is written to a connection before it asked to register and that
  a handler leaves only when its connection has ended (`HandlersRun`, `SendsAreLate`), that the connection of a
  running client is its own (`ClientsDialed`), and that of the open connections in the group each is its device's
  (`Takeover`): a device that registers again closes the one it had, so no handler that leaves late takes the
  new one out. `RestIsAgreement` (`RestAgrees`) is about a relay at rest, which is when no handler, list or client
  has a step to take (`AtRest` spells out that none of their actions is enabled): group and clients agree then on
  who is there over which connection. It needs `LinesAgree`: a connection that is open is one its client still
  uses, and a client that was let in has something to read until it is online. A client that waited for an
  answer that was never written, or a socket left open by a session that ended, would break it.
  *Pairing:* `RelayAlwaysFollows` (`RelayFollowsPairing`), `StoppedStayOff` and `PairingTypeCorrect` by
  `GInv`: where `updatePairing` and `startRelay` stand says what client they hold and which the app uses
  (`UpdateHolds`); a loop that was not stopped is that of one of the two (`LoopsOwned`); a stopped client's
  connection is open only until its loop looks again (`LinesHeld`); and peers are known only while a session is
  served (`PeersServed`). *Incoming:* `NothingComesUnasked` (`NothingUnasked`), `TextsReportedTruly` and
  `IncomingTypeCorrect` by `NInv`: how far a handler gets with a client that has not proved the key
  (`KeyProved`) or for whose id nobody accepted an offer (`OffersAgreed`), that what waits under an id has it
  (`IdsKept`) and an offer on the screen is answered once (`AnsweredOnce`), and which byte it has sent by then
  (`VerdictsKept`). `VerdictsFinal` is an action property: no step changes a verdict that was sent.
* **RelayPipesProofs.** `TypeCorrect`, `PlacesAreCounted`, by `Counted` (types and the count: a step changes
  the counter exactly when it changes the set `Placed` by one). `RelayJoinsRight` and `AcceptNeverBlocks` by
  `Owned`, which follows a call's entry: in the table, then held by exactly one answer, then in the channel,
  then joined (`EntryFree`, `HeldRight`, `TakenOnce`, `InChannel`, `Received`). Ids may repeat.
  `WaitingStaysAnswerable` (`WaitingIsAnswerable`) by `EntryOrHeld`: a call that waits or is on its way to its
  clean-up is in the table, or an answer took its entry, or a call with its id that was answered before waits no
  more and has removed it. `EndedStaysClosed` (`EndedIsClosed`) by
  `EndsClosed`: a handler on its way out has closed both connections. `RelayIsRendezvous` (`IsRendezvous`): the
  pipes implement Rendezvous, each step of a handler or a client a step of it or a stutter (`CallStepMaps`,
  `AnswerStepMaps`, `ClientStepMaps`). `Meets` is all of the above and `Told`: nobody has been told anything
  before its handler replies, and neither has an answer in a channel; and every notice is of a call that was made.
* **TransferProofs.** `TypeCorrect` (no file is written past the size it was offered with; the offer on a
  screen is for that device and waits for its answer) and `PhoneRecordsWhole` (`[]PhoneKeepsWhole`). `IInv` adds
  that nothing is received before there is a connection nor saved before the offer was accepted, that files
  change only after they were offered (`Fresh`), and that a phone at file `f` has all of the files before it
  (`PhoneHasWhole`). `ComputerRecordsWhole` and `BytesStayInFile` (`ComputerKeepsWhole`, `RightBytes`) follow the
  bytes themselves (`Bytes`): while no file was skipped or resized (what stops a sender in the middle of one does
  not matter), what is on the wire is what the sender still
  has to say of the files that the receiver still has to fill, file by file, so that the counts on either side
  agree on which file the next byte is of. `CompletedIsThere` (`CompletedArrives`) adds the verdict (`Arriving`):
  nothing is streamed that was not accepted, a receiver that accepted fails only for want of room, when the
  connection broke or when its sender failed too, and a sender that is done left on the wire all that the
  receiver is short of (`NoneMissing`). *Saved files:* `SavedTypeCorrect`, `FilesStayKept` (`FilesKept`) and
  `EntriesStayKept` (`EntriesKept`) by `SInv`: a transfer that is at a file is a rival for its name once there is
  a file of that name (`AtFile`), and the log and what each update has read of it hold entries of ended transfers
  only, each once (`Listed`), so that the entry a transfer logs cannot be there yet; an update whose write failed
  is known as such until the next of its kind begins. There is a free name because
  there are more numbers to try than files (`NameIsFree`, by pigeonhole and `LeastOf`).
* **SecurePipeProofs.** `PipeImplementsPromise` (`KeepsPromise`): the pipe implements OrderedPipe, from `Setting`
  (every message has a frame, None is no message). A step of the reader has to append the frame that is next in
  `intact`, and one of a writer has to go on where its message stopped; neither follows from the types. `IInv`
  adds that only the holder of the lock has sent a part of its message (`Writers`), that the last frame that went
  out is the holder's or a message's last (`LastSent`), and that a frame's count is its place among those that
  went out before the first failure, or beyond them all (`Counted`): the count of the frame that failed is used
  up, so the reader waits for it in vain and returns nothing more.
* **LinkTrafficProofs.** `RepliesAlwaysMatch` (`RepliesMatch`) by `RInv`: all that is under way to an end is a
  request of the other one, a reply to a request of its own that the other one handled, or has no id
  (`Underway`); a request's channel holds nothing but its reply, or between two computers the other one's
  request (`Boxes`, `Channels`); what an end asked is handled, on its way or taken like that (`Found`,
  `NotLost`). `BooksNeverMixed` (`BooksUnmixed`) by `BInv`: the book being received is of one version, and the
  books in use, on the disk and about to be saved by a link's reader are whole. `ClipsAlwaysFollow`
  (`ClipsFollow`) by `ClipInv`: as long as no texts crossed one text is on its way, and each computer missed it
  or is at rest, has not yet read it, is setting it or hears of what it set itself, or else only the computer
  where it was copied has it (`OneText`); what is or will be a computer's last text is in its history
  (`Remembered`); and a computer sends what its user copied (`SentCopied`). `EndStaysAhead` (`EndIsAhead`) and
  `LimitsTypeCorrect` are about captures and ringing, from `LimitsSetting` (finitely many packets, some file,
  ringings numbered from 1) by `LimitsInv`: a recording that goes on has its own limit (`RecordingLimited`), and
  a ringing whose handler is at it, or that plays, is the one that goes on or was told to stop (`RingingKnown`).
  `RequestsTypeCorrect`, `ContactsTypeCorrect` and `ClipTypeCorrect` give the types.
* **PhoneProofs.** *Unlocking:* `UnlockTypeCorrect`, `LetInByFinger` (`PassedWasTouched`), `LinesOnlyWithKey`
  (`LinesHaveKey`). The latter is not inductive: a removal that is at the files excuses lines that are left, so the
  last one must be known to have cleared every file it has passed (`LinesEnd`). `UInv` adds that an answer is the
  signature its fingerprint made (`AnswersSigned`), that a setup carries the key it asked for (`SetupHasKey`), and
  that installs put the key before the lines while removals take the key before the first line (`RootsOrderly`).
  *Calls and notifications:* `EventsTypeCorrect`, `ListFollows` (`ListFollowsPhone`) and `CallsEnd` (`AfterCalls`).
  Both speak of a phone of which nothing is under way, so their invariants say what is true on the way there. By
  `ListKnown`, the last packet about a notification says whether the phone shows it, and once none is under way the
  list has it exactly if the phone does, or a dismissal of it is on its way to the phone. By `CallKnown`, the last
  packet about a call says whether there is one; once none is under way the reader is at an event that says so,
  or a call that is over is over on the computer too: it does not ring there and holds no player (`Told`, `Over`).
  This needs that the notification of a call is only ever shown under the id that is stored, or about to be
  (`RingKnown`), since the end of the call closes that id; and that a player that was paused is remembered for a
  phone or is just being remembered (`PausedKnown`).
  *Status:* `OutageTypeCorrect` and `NoticesStayTrue` (`NoticesTrue`): a help that was made is noted as offered and a
  warning as given (`HelpNoted`, `WarningNoted`), so that a timer of an earlier outage offers nothing more.
* **PhoneFileProofs.** `FileTypeCorrect` (`FileOK`) and `HandleStaysTrue` (`HandleTrue`) by `FInv`. What the phone
  has and what is gathered say nothing of each other while a change is on its way, so `Whole` follows the one
  that is: while it sends, the file as it is, with the rest of its pieces and then the buffer written over it, is
  what the file should be; its piece that the phone has written is there; a truncation has found the buffer
  empty and everything sent. `Good` says of the cache that a fetch met no write (`clouded`) only if nothing was
  gathered or sent since it began, so that what it brings is what the file should be. A cut by path makes the
  phone's file and what it should be shorter alike (`ShortMoves`, `ShortComes`, `ShortenedWhole`), if nothing is
  gathered then, and what it leaves stale in the handle is named by `apart` and `clouded`. This needs that the kernel
  runs one change at a time (`OneChange`), that a write which finds the buffer filled between its two looks at it
  joins it at its end or sends it first (`Joins`), and that a block in flight has one fetcher (`FetchesOK`). The
  lemmas about `Written`, `Resized` and `BlockOf` (a buffer written at once is the same as its pieces one after the
  other, whatever is written over it afterwards) are what the steps rest on.

Only model-checked:

* Liveness (LinksSettle, DialingEndsInLink, MembershipSettles, StoppedClientsEnd, BestRouteWins, PresenceSettles,
  HandlersEnd, LoopsSettle, LimitsHold, Delivered, SavingEnds): the prover does not handle fairness or ENABLED.
  What of them needs neither is proved where a module is proved about: `StoppedStayOff` of StoppedClientsEnd,
  `RestIsAgreement` of MembershipSettles, `CompletedIsThere` of Delivered, `EndStaysAhead` of LimitsHold, and
  `QuietAgrees` of DialingEndsInLink. TLC found each of these to hold on the instances of the
  runs before it was proved.
* `TypesOK` of the unions: the parts' own type invariants are proved where a module is proved about.

## 5. What is not modelled, and why

User interface, thumbnails, QR codes, installation and updates (no protocol state); commands, Bluetooth and
apps (one request each, carried out at once); ciphers and signatures (a peer either holds the key or does not;
what does not verify is refused); the contents of packets and files; addresses beyond their speed; calls into
D-Bus, macOS and Android (external: they answer, fail, or signal in the order the code relies on).

Simplifications inside what is modelled:

* *LinkManager*: every listed peer verifies, every handshake of the group succeeds.
* *Connector*: "clearly faster" is a higher number; the dial over one device's routes is one step that ends
  with what the network lets through then; LanIP candidates of phones on Wi-Fi are left out; the ten seconds
  between two probes are left to chance.
* *PhoneEvents*: one reader per phone; the limit of the list (the newest hundred notifications), replies,
  actions and the "missed call" notification are left out; on a new link the phone tells again what it has, at
  any time.
* *PhoneFile*: one open handle; the kernel runs one write or truncation of a file at a time; a request that
  timed out does not take effect later; the kernel's page cache is external. *PhoneFolders*: one phone; mounting
  clears a place that a busy folder still has, as `fusermount3 -uz` does.
* *Clipboard*: a computer sets one text at a time; texts are within the size limit, each is copied anew once; no
  limit of the history.
* *Loops*: one device; the proximity round reads links and settings in one step.
* *RemoteInput*: a packet is handled when it is sent; of several starts of one screen the last is awaited; the
  portal answers all but the user's dialog; failures of the accessibility bus are not told apart. *Outages*: one
  reader, bounded timers.
* *Contacts*: the phone answers with the contacts it has when it gets to the request.
* *GroupChange*: one change of the pairing at a time, as the dialog allows.

## 6. Plan

What is left, in order of worth:

1. The registry and the pipes composed: a call from a device that is not on the other's list is ignored.
2. What GroupChange leaves to the phone's providers, and the phone's transfer server in Incoming.
3. Type correctness of the modules that are only model-checked: Connector, Discovery, Loops, RemoteInput and
   PhoneFolders, whose other properties are liveness.
