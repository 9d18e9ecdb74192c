# TLA+ specification of piupiu

piupiu is a small Twitter-like system in C++ that talks over UDP: clients log in
as a user, follow other users and post; servers deliver the posts to the
followers' sockets. One server is the primary; it forwards CONNECT packets to a
fixed list of secondaries and accepts the client when they have confirmed.

This directory models the server's handlers with the directory, the sessions and
the notification queue they share, its replication, the file behind the
directory, the client and its console. TLC checks the models on small instances,
against abstract specifications where there is a promise to state. TLAPS proves,
for any number of users, sockets, messages, secondaries and crashes, the type
invariants, both refinements (`PassiveReplication`, `Delivery`) and the safety
properties that the passing runs check, all but one; section 4 says from which
hypotheses.

## 1. Inventory

| Component (source) | State | Operations | Talks to |
|---|---|---|---|
| `Server` (`server/server.cpp`) | `lastSeqn`, `notificationQueue` and its mutex | one thread per datagram runs `MessageHandler`; one thread runs `PendingNotificationWorker` | calls the managers below; replies to clients |
| `ReplicaManager` | the peers, a `ConfirmationBuffer<3>` | `BroadcastToSecondaries`, `ConfirmMessage`, the accept callback | reads and increments `Server::lastSeqn` |
| `ConfirmationBuffer` (`client/confirmation-buffer.hpp`) | a vector of containers: N numbers, N flags, the origin | `Push`, `Confirm`, `ContainerConfirmed` | calls back when a container is complete |
| `SessionManager`, `Session` | map user → sockets (at most 2), under `sessionMutex` | `StartSession`, `EndSession`, `GetUserNameByAddressAndIP` | `Profile::session` points at a `Session` |
| `ProfileManager`, `Profile` | vector of profiles under `profileMutex`, followers, `profiles.dat` | `GetProfileByName`, `NewProfile`, `AddFollower`, `Sync`, `ReadProfilesFromFile` | called by CONNECT, FOLLOW, SEND |
| `Client` | socket, flags, `lastSentSeqn`, `PacketList` under a mutex | `Connect`, `Listen` thread, `Reorder` thread, `Shutdown`, commands | hands messages to the console |
| `ConsoleInterface`, parser | `messages`, `messageCursor`, `running`, the line being edited | `MainLoop`, `DrawMessages`, `GetUserInput`, `HandleUserInput`, `IncomingMessageHandler` | calls the client's commands |
| GUI (only with `USE_GUI`) | `loggedIn` | `render`: log in, post; `run` until the window is closed | calls `Connect` and `Post`; sets no message handler |
| `Packet` | none | `Make...` functions (each adds one to the number it gets), `TypeToStr` | |
| `Socket`, launch script | none of interest | | |

What is hard here:

* **Threads without locks.** Every datagram has its own thread. `lastSeqn`, the
  vector of the confirmation buffer (its mutex is never locked), the sockets of
  a session as the worker sees them, the follower lists, `Sync`, the console's
  messages and `lastSentSeqn` are all shared and unprotected.
* **The network.** UDP loses, duplicates and reorders; nothing is sent again.
* **Crashes.** `Sync` truncates the file and rewrites it line by line.
* **Undefined behaviour.** Races on vectors, iterators into freed blocks, a
  session pointer and a count that are read before they are assigned.
* **Names.** `profiles.dat` is lines of text that are read back as words and
  split at commas, and nothing keeps blanks and commas out of a name.

What makes each part correct: a client is accepted exactly when all secondaries
have executed its CONNECT; a notification is delivered to every connected
socket of its recipient, once, in order, or stays queued; a profile and a
follower that were saved survive a restart and have one identity; a client shows
every notification it receives, once, in order; its console draws the end of the
list, or what the cursor selects, without gaps. `PROJECT.json` lists the hazards
to this line by line.

## 2. Modules

| Module | Models | Composes |
|---|---|---|
| `StdVector` | when a `std::vector` moves its elements | |
| `ConfirmationBuffer` | containers and the inner loops of `Push` and `Confirm` | `StdVector` |
| `SessionManager` | the session map's operations, one step each (they hold the mutex) | |
| `ProfileManager` | the lookup by name | |
| `PassiveReplication` | abstract: executed by the primary, then by each secondary, then accepted | |
| `Replication` | CONNECT on primary and secondaries, confirmations, DISCONNECT, the worker's use of `lastSeqn`, the network | `ConfirmationBuffer`, `SessionManager`; implements `PassiveReplication` |
| `Delivery` | abstract: what the server promises for a post | |
| `Server` | CONNECT, DISCONNECT, FOLLOW, SEND, REQUEST_USER_INFO and the worker on one state | `SessionManager`, `ProfileManager`, `StdVector`; implements `Delivery` |
| `Profiles` | CONNECT and FOLLOW on the directory and its file: `Sync`, crash, reload | `ProfileManager` |
| `Client` | console or window, `Listen`, `Reorder`, packets sent | |
| `Console` | keys, cursor and `DrawMessages` while messages arrive | |
| `MC...` | constants of the TLC instances | the module of that name |
| `VectorProofs` | lemmas about sequences, erasure, lookups and folds that the proofs share | `ProfileManager`, `SessionManager` |
| `ReplicationProofs`, `ReplicationSerialProofs` | theorems: any interleaving; handlers that do not overlap, the counts and the refinement | `Replication` |
| `ServerProofs`, `ServerDeliveryProofs` | theorems: types, directory, sessions; the worker and the refinement | `Server` |
| `ProfilesProofs`, `ClientProofs`, `ConsoleProofs` | theorems | the module of that name |

Operators whose comment starts with *Seeded fault* are not part of any
specification. Each is a plausible mistake in the definition that follows it;
substituting it must make TLC refute the property `PROJECT.json` names for it.

### Replication

`conn[h]` is the handler thread of host h's CONNECT; its `pc` walks through
`StartSession`, the two reads of `lastSeqn` in `BroadcastToSecondaries`
(`base` for the BaseMessages, `temp` for the packets), N increments, each a load
and a store, `Push` in two steps (`BeginPush` finds the end of the vector,
`EndPush` fills the slot), and the loop that sends. `dg[h, p]` follows the one
packet to secondary p: forwarded, executed and confirmed, then the thread that
handles the confirmation, which marks and checks one container per round.

* Two threads that append at once: the later one overwrites the slot, or the
  process dies (`up = FALSE`).
* A `Confirm` whose block was freed by a `Push` has no further effect, or the
  process dies (`StaleConfirm`).
* `Overlap = FALSE` restricts the schedule: a thread starts only when no other
  one of the primary runs. That is how the system is used by hand, and it
  separates what the protocol guarantees from what the data races destroy.
* A secondary's handler is one step: what it shares and changes here is its
  session map, under a mutex. Its "client" is the primary's address, because
  the forwarded packet does not carry the original one.
* Not here: the profile lookup of CONNECT and `SetSession` (in `Server`).
* `Passive` maps the detailed state to the abstract one: executed are the clients
  whose handler has started, accepted those the callback has answered. Losses,
  duplicates, numbers and the buffer are invisible steps.

### Server

One process, all handlers on one state, so that profiles, follower lists and
sessions change while notifications wait. `req[r]` is the thread of datagram r;
datagrams come in any order, each once, whatever their senders do first (UDP).

* *Steps.* A step ends where another thread can make a difference. A lookup by
  name is one step with what follows it, because the profile that a name finds
  never changes (`LookupStable`, checked in the same model). The worker's test
  of the session and `begin()`/`end()` are one step: a DISCONNECT between the
  two makes the loop empty, one just after them makes it run over destroyed
  elements, and neither sends. `SetSession` and the walk of
  `GetConnectedUsers` are one step, since the walk only reads.
* *Worker.* It holds the queue's mutex unless it is `Idle`, and sends to one
  socket a step, while CONNECT and DISCONNECT change the same session. An
  iterator past the last element sends to nobody; one into a freed block sends
  to nobody or kills the process (`Risk`).
* *Uninitialised memory.* `FreshPtr` is what `Profile::session` holds before
  `SetSession`: null, or a wild pointer that may look like anything.
* *Races.* `push_back` on a list of followers is two steps; a second thread
  overwrites the slot or kills the process. `Sync`, `GetConnectedUsers` and
  `GetFollowers` walk over vectors that others grow: such a walk may kill the
  process, and otherwise reads what was there.
* *History.* `missed` records sockets that were connected during the whole
  sending of a notification and did not get it, `disturbed` the notifications
  whose recipient's session changed meanwhile or was never initialised.

`Delivery` is the promise: a notification is submitted once, is pending until it
is finished, is sent to a socket at most once, and is finished only when it
reached a socket or was disturbed. The refinement mapping takes the queue and
what the worker holds for `pending`.

A FOLLOW that is delivered twice, with overlapping handlers, puts the follower
into the list twice (the first `Contains` sees neither): each post is then two
notifications. `FollowersUnique` therefore is a property of handlers that do not
overlap, in `Profiles`.

### Profiles

A `Profile*` is a position in the vector, which never shrinks. `Sync` is a step
per line, since `std::endl` flushes each one. A FOLLOW's sender is a user with a
session. `Follow` is the handler up to the search in the list of followers and
`FollowPush` the `push_back`, so that with `Overlap` another FOLLOW can come
between them and repeat a follower.

A name is any text: a sequence of words (a blank between two) of pieces (a comma
between two), since the client trims the ends of a name and no more. `Sync` writes
it as it is. The reload is `operator>>`, which reads words whatever line they are
in (`Tokens`): the first `numProfiles` of them are names, every other one is split
at its commas into a user and a follower. So a name of two words comes back as two,
an empty one vanishes, and behind either all later words are out of place. A read
past the end leaves the previous name, the count of an empty file is garbage (at
most `MaxGarbage`), and a user that is no profile makes `map::at` throw: no server
starts (`ReadProfilesFromFile = {}`). An edge without a second piece is read out
of bounds (`splits[1]`), which adds nobody or ends the process. `Odd` says that
some request came with a name that is empty or no single word without a comma.
The properties that such a name breaks except it; it takes no crash inside `Sync`
to lose one of these, a restart is enough.

With `Overlap`, two `Sync`s write lines of equal length at their own positions;
files written that way are not read back (no restart with `Overlap`). A file that
cannot be opened is not modelled. What two `push_back`s at once do to a vector is
in `Server`.

### Client

Three threads. `messages.push_back` is two steps, between which another thread
may enter it. What becomes of a `std::vector` then is undefined, and worse than
one slot overwritten: its end may move once for two elements, and a reallocation
may bring back an old block. So once two threads were in it together (`raced`),
every later `push_back` leaves any beginning of the list, with or without the new
message (`Damaged`), or kills the process, and every draw may kill it.
Packets arrive at most once each, in any order or never; a duplicate is another
member of `Packets`. `Reorder` holds the list's mutex for a whole round, so
`Listen` waits. Packets that this server never sends (reject, info, error) but
the client handles are included. `frontEnd` is chosen when the process starts:
the console, or the window of a `USE_GUI` build. The window sets no
`messageHandler`, so that notifications are taken from `PacketList` and shown
nowhere, and `GuiClose` ends the process without a DISCONNECT.

`Reorder` sorts only what has arrived: a packet that is overtaken by more than a
round is shown late, although `RELATORIO.md:77` speaks of the right order.
`OutOfOrderOnlyIfLate` states what is left. `RELATORIO.md:56` says that a
rejected client is terminated; `ReceiveReject` closes the socket and ends the
`Listen` thread, and the main thread goes on waiting for keys.

### Console

`MainLoop` draws, waits for a key, handles it, and draws again: a message that
arrives while `getch` waits is not seen before the next key. `DrawMessages` is a
step per message, which copies the message and draws it from the bottom of the
area upwards; other threads append between the steps. A message is the number of
lines of its body, the edited line is its length. A resize arrives as a key and,
having no case of its own, also adds a character. The reference definition
(`Text` in `ScreenIsWindow`) lists all lines above the cursor in reading order
and takes as many from its end as fit; the loop works in the other direction,
message by message. Both agree that the message with index 0 is never drawn and
that the two highest positions of the cursor show an empty area. A line is a row:
the width of the terminal, and what a longer line does at its end, are left out.

## 3. Runs

| Run | Instance | Shows |
|---|---|---|
| `repl_serial` | 2 clients of one user, one of which leaves, N = 2, 2 secondaries, losses, 2 notifications, no overlap, fair | a client is accepted only after all secondaries executed its CONNECT and is accepted in the end unless a packet is lost; numbers unique and increasing; secondaries agree with the primary before any DISCONNECT; accepts are counted; `PassiveReplication` is implemented; `SerialInv` |
| `repl_overlap` | 2 clients, N = 2, 2 secondaries, overlap, duplicates | each number of an accepted container was executed by some secondary, whatever the races; `BackedInv` |
| `repl_overlap_accept` | 2 clients, overlap | **violated**: a client is accepted on another one's confirmations |
| `repl_session_limit` | 3 clients of one user | **violated**: the third has no session and is accepted |
| `server_race` | 2 users who follow each other and post, one with 3 sockets (one too many) of which one leaves, null and wild pointers, fair | `Delivery` is implemented; sockets are missed only when the session changes under the worker or its pointer was never set; FIFO while online; who is connected is online; a notification to a connected user is consumed in the end, also behind one to an absent user |
| `server_join` | a new user connects from 2 sockets at once, two users follow a third at once while he posts, an INFO | two profiles of one name: lookups and follower lists stay consistent, the new user is online; `Delivery` is implemented |
| `server_disconnect` | 1 recipient that leaves | **violated**: a notification is consumed and sent to nobody |
| `prof_restart` | 5 CONNECTs of 4 users (one comes twice, one has a blank in his name), 3 FOLLOWs (one comes twice), 2 crashes anywhere (1.8 million states) | only a crash inside `Sync` or a name that is no single word forgets or repeats names; the file matches the directory; a torn file of plain names can always be read; followers are unique and are the profiles lookups find, also after torn files and split names |
| `prof_overlap` | 3 CONNECTs and a FOLLOW at once | **violated**: two `Sync`s leave a file that is not the directory |
| `prof_crash` | 2 CONNECTs, 1 crash in `Sync` | **violated**: a saved profile is forgotten |
| `client_all` | both front ends; 2 notifications, accept, reject, info; one line of input and exit, fair | notifications reach the front end once and in the end, late ones alone out of order, and are in the console's list, in that order, unless two threads appended to it at once; packets sent in order (0.5 million states) |
| `console_all` | terminals of 5, 7, 9 and 12 rows, 4 messages of 0, 1, 2 or 4 lines | the screen is the reference window, the messages on it have timestamps, on their first lines, the cursor stays in range |

The five violated properties quote a document or a comment of the repository;
`PROJECT.json` has the quotations.

**Bounds.** Two threads are the least that race, and every race here is between
two; N = 2 has a slot that is confirmed and one that is not, and the proofs
cover every N. Two sockets are `MAX_SESSIONS_PER_USER`, and reallocate the
vector of sockets; three exceed the limit. Two follows of one user race for a
slot, and two CONNECTs of a new one for a name. Two crashes allow a torn
reload to be saved and torn again; a name of two words whose second is
also a user's name makes the reload read profiles that exist twice. Heights of 5 to 12 rows give areas of no row, one,
three and six, which cut messages of two to five lines in every way. `MaxNotify`,
`MaxAccepts` (no duplicates after that many accepts), `MaxInFlight` (none while
that many datagrams are under way; later packets may overtake the copy), `MaxCrashes`,
`MaxGarbage`, `MaxInputs`, `MaxMessages` and `MaxInput` are the only artificial
bounds; requests are finitely many. `client_all` uses one line of each branch of
`HandleUserInput` (`usage` is handled like `help`, `follow` like `post`, `long`
like `me`). Only `repl_overlap` uses symmetry, in clients of one user and with
no temporal property.

**Fairness.** Weak fairness of the threads of the server in `Replication`, of
the worker in `Server` and of `Reorder` in `Client`: the operating system runs a
thread that can run. The handlers in `Server` need none: the worker takes the
queue's mutex again at once, and a SEND may wait for it for ever. In `Replication` a datagram that is not lost is delivered. Nothing
is assumed about who gets a mutex, about user input or about arrivals. In
`repl_serial` no duplicates occur, so the number of threads is finite and none
of them can be overtaken for ever.

**Deadlock** is checked in every run; `Quiescent` stands for a process that
waits in `recvfrom` or is dead.

**Other instances.** The documented properties that `repl_serial` and
`prof_restart` confirm do not survive overlap. Setting `Overlap = TRUE` lets TLC
refute `SeqnUnique`, `NotificationsOrdered` (an increment of the worker is lost)
and `EventuallyAccepted` (a container is overwritten and its client waits for
ever, with `Faults = {}`) in `Replication`, `HandlesUnique` (two CONNECTs of
one new user) and `FollowersUnique` (two FOLLOWs of one user) in `Profiles`. Without
`Odd` in them, `ForgottenOnlyIfTorn`, `ReloadDefined`, `FileMatches` and `HandlesUnique` fail in
`prof_restart`. `ListsInv` and `SavedInv` were checked with TLC on that instance
before they were proved. `NPeers > N` refutes `ReplicatedBeforeAccept`
without overlap. `repl_overlap` also passes without the bound on datagrams under
way (`MaxInFlight = 4`, 2.2 million states).

## 4. Proofs

**Assumptions** on the constants are named in the modules that declare them, and
TLC evaluates each in a run. `NAssumption`: N is positive.
`ReplicationAssumption`, `ServerAssumption`, `ProfilesAssumption`,
`ClientAssumption` and `ConsoleAssumption`: types of the constants, that requests
and hosts are finite sets (their cardinalities bound lists and sums), that
`Existing` is a directory without repeated followers, and that files written with
overlap are not read back. `ExistingAssumption`: in the directory the server
starts with, a follower is the profile that his name finds; `FollowersAreUnique`
and `FollowersAreFound` of `ProfilesProofs` prove both of any directory that was
loaded. Everything else (sets of users, packets and messages, losses and
duplicates, the order of arrival) is arbitrary.

| Module | Theorem | Extra hypothesis | Statement: `Spec =>` |
|---|---|---|---|
| `ReplicationProofs` | `TypeCorrect` | | `[]TypeOK` |
| | `BackedCorrect` | | `[]BackedInv` |
| | `AcceptsAreBacked` | | `[]AcceptBacked` |
| `ReplicationSerialProofs` | `SerialCorrect` | `~Overlap`, `NPeers <= N` | `[]SerialInv` |
| | `AcceptedAfterReplicated` | `~Overlap`, `NPeers <= N` | `[]ReplicatedBeforeAccept` |
| | `NoneAcceptedWhenShort` | `~Overlap` | `[]NoAcceptWhenShort` |
| | `SeqnsAreUnique` | `~Overlap` | `[]SeqnUnique` |
| | `NotificationsAreOrdered` | `~Overlap` | `[]NotificationsOrdered` |
| | `ReplicasDoAgree` | no duplicates | `[]ReplicasAgree` |
| | `AcceptsAreCounted` | | `[]AcceptsCounted` |
| | `ReplicationIsPassive` | `~Overlap`, `NPeers <= N` | `ImplementsPassive` |
| `ServerProofs` | `ServerTypes` | | `[]TypeOK` |
| | `LookupsAreStable` | | `LookupStable` |
| | `FollowersAreFound` | | `[]FollowersFound` |
| | `ConnectedAreOnline` | | `[]ConnectedIsOnline` |
| `ServerDeliveryProofs` | `MissedAreDisturbed` | | `[]MissedOnlyWhenDisturbed` |
| | `DeliveryIsImplemented` | `ConnectsOnce`, `FollowsOnce` | `ImplementsDelivery` |
| | `OnlineIsFifo` | `ConnectsOnce`, `FollowsOnce` | `[]FifoWhileOnline` |
| `ProfilesProofs` | `ProfilesTypes` | | `[]TypeOK` |
| | `FollowersAreUnique` | `~Overlap` | `[]FollowersUnique` |
| | `FollowersAreFound` | | `[]FollowersFound` |
| | `FilesMatch` | `~Overlap` | `[]FileMatches` |
| | `HandlesAreUnique` | `~Overlap` | `[]HandlesUnique` |
| | `ForgetsOnlyIfTorn` | `~Overlap` | `[]ForgottenOnlyIfTorn` |
| `ClientProofs` | `ClientTypes` | | `[]TypeOK` |
| | `HandsOnOnce` | | `[]HandedOnce` |
| | `OutOfOrderIsLate` | | `[]OutOfOrderOnlyIfLate` |
| | `SendsInOrder` | | `[]SentInOrder` |
| | `ShowsUnlessRaced` | | `[]ShownUnlessRaced` |
| `ConsoleProofs` | `ConsoleTypes` | | `[]TypeOK` |
| | `StampsAreOnFirstLines` | | `[]StampOnFirstLine` |
| | `ScreensAreWindows` | | `[]ScreenIsWindow` |

The hypotheses are the ways in which the code fails: `~Overlap` and
`NPeers <= N` are what TLC breaks the replication properties with, a duplicated
packet makes a secondary count a socket twice, a socket that sends two CONNECTs
during the worker's loop is served twice (`ConnectsOnce`), two overlapping
FOLLOWs of one user repeat him in the list (`FollowsOnce`), and two `Sync`s at once
mix their lines. The exceptions that a property names itself (`torn`, `Odd`,
`raced`) are ways in which the code fails, too.
`MCServer` makes TLC evaluate `ConnectsOnce` and `FollowsOnce`, so the runs of
`Server` satisfy them.

Every inductive invariant is defined in the module it is about; each proof has a
step per action.

### Replication

`AcceptBacked` alone is not inductive: a container that is about to be checked
must already be known to be honest. `BackedInv` adds that iterators lie inside
the vector, that a container has the numbers its origin read (`BufferNumbered`),
that a confirmation comes from a secondary that has executed the packet
(`ConfirmedApplied`) and that every confirmed slot is backed (`SlotsBacked`).
None of this needs exclusion, which is why it survives overlap.

To conclude that slot i stands for secondary i of *this* client
(`AcceptedAfterReplicated`), the numbers of two clients must not meet.
`SerialInv` adds that one thread runs at a time (`Exclusive`), where a handler is
in its count (`Numbering`: the second read equals the first, and `lastSeqn` is
`base + i`), that blocks of N numbers are disjoint (`BlocksDisjoint`), that the
packet to p carries `base + p` (`DatagramsNumbered`; with `NPeers <= N` it stays
in the block), and then that a confirmed slot i means secondary i executed that
client's packet (`SlotsApplied`). `SeqnsAreUnique` and `NotificationsAreOrdered`
use the part that does not speak of packets; the latter adds
`NotificationsBelow`, which compares the numbers that were sent with the one the
worker sends next.

`ReplicasDoAgree` rests on `SocketsCounted`: every session map holds as many
sockets of a user as CONNECTs were executed there, up to the limit, so primary
and secondary differ only by what is under way. `AcceptsAreCounted` bounds a sum
over the confirmations; `CallbacksCounted` says that the accepts of a client and
N - 1 more are at most the confirmations that passed its container, which a
callback always increases, since the last slot to be marked needs a confirmation
of its own.

`ReplicationIsPassive`: under `SerialInv`, every step leaves `Executed`, `applied`
and `Accepted` unchanged or is `Execute`, `Replicate` or `Accept` of the
abstraction; the invariant of `AcceptedAfterReplicated` supplies the guard of
`Accept`.

### Server

`DirectoryInv` holds for every order of requests. It says where a handler is and
with which profiles, and that a user with sockets has a profile whose session is
set, or a CONNECT that is about to set it, or one that was refused
(`SessionUnderWay`). That the vector of profiles only grows at its end makes
lookups stable (lemma `LookupStays`), and both `FollowersAreFound` and
`ConnectedAreOnline` need that: the profile of a session is the one others find.

`WorkerUndisturbed` relates the worker's iterators to the session they point
into: until something disturbs it, the loop ends at the last socket, and what is
still due is at or behind its position. From this a socket is missed only when
disturbed.

`DeliveryInv` adds that no list repeats a follower (`FollowersOnce`), that a post
is queued once per follower (`PushedOnce`), that a notification is in one place:
the queue, the worker's hands or finished (`OnePlace`), and that no socket at or
behind the worker's position has had it (`SentOnce`). `QueueOrdered` then gives
the order: notifications that were never put back are in the queue in the order
of `pushed`, after all that were sent.

### Profiles

`ListsInv` says of every directory that a follower in a list is the profile that
its name finds (`ListsOK`), that a handler between check and push has found both
profiles (`HandlersInside`), and, without overlap, that no list has anybody twice
(`ListsOnce`). A reload must reestablish this, from any file: without overlap one
handler writes (`Alone`), at the end of the file and where its loop is (`Writing`),
so that a file is a count and then names and edges (`FileShape`). `ReloadKeeps`
needs no more of it: whatever words the names and edges fall into, `ReadNames`
yields a directory without followers, and each edge is added by `AddFollower`,
which keeps `ListsOK` since it finds the follower by name and `ListsOnce` since it
looks first. So `FollowersAreFound` and `FollowersAreUnique` except no names. With
overlap there is no reload.

`SavedInv` is about handlers that do not overlap: a crash came inside a `Sync`,
or some name is `Odd`, or all is `Intact`. The first two stay true once they are
(`ExcusedStays`), so every action has only to keep `Intact`, and may use that the
names in its request are plain. While a handler is in `Sync` the file is a prefix
of `Saved(profiles)`, and the followers it has left are the rest of their list
(`Prefix`); between two `Sync`s the file is `Saved` of a directory that the reload
returns and that holds all that finished handlers saved (`Reloads`). A directory
has one profile of each user (`OneEach`), which CONNECT keeps because its lookup
found none (`Adding`). The lemma under this is `RoundTrip`,
`ReadProfiles(Saved(dir)) = dir` if all names are plain: each line is one word
then, none of them blank, so that word k is that of line k + 1; the names give the
profiles without followers, and after k edges of profile i the directory is
`Partial(dir, i, k)`, by a least counterexample on the number of edges. The place
of an edge in the file is that of its list (`Off`) and its index in it (`EdgeAt`),
which also tells `SyncEdge` that the line it writes is the next one.

### Client

`HandedInv`: while the mutex is free nothing in `PacketList` was handed on, and
during a round what is left of it is the rest of the list. `RoundSorted`: a
packet is in the list because it arrived since the last round, and a round hands
on in order. `OnlyMainSends`: until a reject or an unknown packet arrives,
`Listen` neither counts nor closes the socket, so that `lastSentSeqn` has one
writer. `ShownUnlessRaced` is inductive with `HandedInv`: without a race a
`push_back` appends, the notification that `Reorder` is appending is the last it
took, and `HandedOnce` says that no two that it took are the same.

### Console

`DrawInv` describes a half-drawn area: the messages drawn so far are those with a
timestamp (`Stamped`), the rows from the bottom up to `lineCount`
are filled once each, and a row continues the text of the one below it, within a
message or from its first line to the last line of the message before. At the end
this gives the window: the reference `Text` is a concatenation, of which the
lemmas know only that it unrolls at its end, and the two are compared row by row
from the bottom, by a least counterexample on the row number (`UpTo` in
`VectorProofs`).

### Only model-checked

* Liveness (`EventuallyAccepted`, `EventuallyConsumed`, `EventuallyHanded`):
  fairness is out of the prover's reach.
* `ReloadDefined`: that the reload of a torn file of plain names reads no edge
  without a user. Its proof would need the order of the lines of a torn file.
* Duplicates without overlap, on the other hand, are covered by the proofs and
  not by a run.

## 5. Not modelled

* Leader election and heartbeats: described in `docs/RELATORIO2.md`, not in the
  source.
* Opening and binding sockets, windows and drawing of the GUI, the launch script.
* Payloads, timestamps, formatting, colours, logging; `TypeToStr`. `Make...` is
  modelled by the number it puts on a packet.
* Code that is not called: `Server::Broadcast`, `GetConnectedSockets`,
  `GetUserAddresses`, `Client::GetInfo`, `ConsoleInterface::InputLoop`, the
  shorter overloads of `Push`.
* `messageHandlerThreads`, which only grows: threads are never joined.
* Wrap-around of the sequence numbers, which are 64-bit counters from 0.

## 6. Plan

The models and the proofs of section 4 are done. Left are a proof of
`ReloadDefined`, for which `FileShape` must say again that a torn file has its
names before its edges, and the liveness properties, which stay with TLC.
