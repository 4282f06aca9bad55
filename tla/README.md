# Verification of the chat API

TLA+ models of the chat server in this repository, checked with TLC on small
instances and, for the properties that matter most, proved with TLAPS for
every instance. `PROJECT.json` lists components, runs, mutants, hazards and
theorems, and maps every definition to the lines it models. Paths below are
relative to the repository; `PRD` is `docs/team-chat-api-prd.md`.

## 1. The system

An Express API and a socket.io server in one Node process, run several times
behind nginx. MongoDB holds users, rooms and messages; Redis holds everything
with a lifetime (cached rooms, refresh tokens, lockouts, invites, unread
counters, read receipts, presence, rate limits), the job queue of the e-mail
worker, and the channel on which socket.io instances hand broadcasts to each
other. A process is single-threaded: a handler runs alone from one `await` to
the next, and everything else may happen while it waits. There are no
transactions; what keeps concurrent requests apart is single MongoDB updates
with a filter, the Mongoose version key, atomic Redis commands and Lua scripts.

| Component | Source (under `src/`) | State | Operations | Interacts with | Correct when |
|---|---|---|---|---|---|
| Room service | `services/roomService.js`, `models/Room.js`, `middleware/requireRoomRole.js`, `requireMember.js` | room document (members array, roles, `__v`), `room:{id}` cache, invite tokens | create, join, leave, invite, redeem, kick, set role, delete, get | clears counters, receipts, cache; tells sockets of a join | one owner, no duplicate, nobody revived or lost, an invite admits one, the cache is right |
| Unread counters | `services/unreadService.js` | `unread:{user}:{room}` | increment on send, reset on reading, clear on leaving | reads the members of the room | only members are counted for, and the count is that of the messages sent since the last reading |
| Read receipts | `services/readReceiptService.js`, `socket/readReceiptHandlers.js` | `lastread:{user}:{room}` | set on reading, clear on leaving | room membership | only members have one |
| Sessions | `services/authService.js`, `utils/tokens.js` | password hash, attempt counter, lock, refresh tokens, reset links | login, refresh, logout, forgot, reset | user document, e-mail queue | one token per session, a reset ends sessions, a locked account stays out |
| Registration | `services/authService.js`, `models/User.js` | user, `email-verify:{token}`, `rl:resend:{user}` | register, verify, resend | e-mail queue | no two accounts share a name or an address, a new account is mailed a token, a token works once |
| Sockets and presence | `socket/index.js`, `services/presenceService.js`, `jobs/presenceEvictionJob.js` | `userSockets` of each process, socket.io rooms, `online:users`, `presence:{room}` | connect, disconnect, join a channel, evict, list | room membership, Redis of all instances | online while connected, offline after the last tab, members get messages and others do not |
| Messages | `services/messageService.js`, `socket/messageHandlers.js` | message document, broadcasts on their way | send, edit, delete, react | clients' views | deletion is final, toggles flip, clients converge |
| History | `services/messageService.js`, `controllers/messageController.js` | none but the cursor the client sends back | read a page, search | insertion of messages | no message twice, none skipped, reading ends |
| Message rate limit | `socket/rateLimiter.js` | `rl:msg:{user}` sorted set | check | all instances | at most `MESSAGE_MAX` in any window, and a refusal only for what lies in it |
| HTTP rate limit | `middleware/rateLimiter.js` | `rl:auth:{ip}` | check | all instances | an address shut out is let in again |
| Direct messages | `services/dmService.js` | room document with `dmKey` | find or create, list | unique index | one room per pair |
| Typing | `socket/typingHandlers.js` | `typing:{room}:{user}` | start, stop | broadcasts | an indicator goes away |
| E-mail | `queues/`, `workers/emailWorker.js`, `utils/email.js` | BullMQ jobs | add, process, retry | registration, reset | a job leaves the queue, sent or given up |
| The rest | health, profiles, errors, logging, Swagger, admin board, seed, nginx, Docker | none of its own | | | |

What is hard, and where it bites, is the `hazards` list of `PROJECT.json`:
handlers that read, wait and write (`roomService.js`, `authService.js`), keys
with lifetimes of their own, state kept per process in a system of several
processes (`socket/index.js`), replies resumed in another order than the writes
they answer (`messageHandlers.js`), ties in a cursor (`messageService.js`), and
pipelines of several instances with clocks of their own on one sorted set
(`socket/rateLimiter.js`).

## 2. Modelling conventions

* An action is one stretch of code from a reply to the next `await`, with the
  command it sends; where a command and its reply can be told apart (sockets:
  Redis and the event loop) they are two actions.
* `reqs[r]` holds the handler in slot `r`: `pc` is the `await` it is
  suspended at, the other fields its local variables. `Requests` is the number
  of handlers in flight, over all instances; no theorem bounds it.
* One room, one account, one message stand for all: these share no state and
  an ObjectId or token is never reused.
* `Max...` constants are bounds and appear in guards only. `CHECK_DEADLOCK
  FALSE` is set everywhere because a bounded instance really stops: nobody has
  to send another request.
* Definitions under a comment `Faulty:` are not used by the specification. Each
  is a bug that could have been made in the definition it precedes, and
  `mutants` in `PROJECT.json` names the property that then fails.
* A definition or property of `MC...` refers to history variables of that module
  (`alone`, `ended`) or to its `scene`, of which section 4 says more.
* A run with `expect: violation` is a disagreement between the code and the
  sentence of a doc, comment or test that its entry under `findings` quotes.

## 3. Modules

| Module | Models | Composition |
|---|---|---|
| `RoomService` | one room: document, version key, cache, invites, counters, receipts and every handler on them | |
| `RoomProperties` | what the room must and must not do | extends `RoomService` |
| `RoomOwnership` | abstract: founded by one owner, admits, dismisses, hands over, closes | implemented by `RoomService` through `Ownership` in `RoomProperties` |
| `RoomServiceProofs`, `RoomRefinement` | theorems about the room; the implementation of `RoomOwnership`, invites, and requests that take turns | extend `RoomProperties`; the second also `MCRoomScenes`, whose properties it proves |
| `Sessions`, `SessionProofs` | one account's login, lockout, refresh, logout, reset | the proofs extend `MCSessions` for its history variables |
| `Sockets`, `SocketProofs` | the instances' connections, the room's channel, presence | its `Join`, `Redeem`, `Leave` are the effects of `RoomService` on the membership |
| `MessageLimit` | the sliding window on the messages of one user | |
| `Sending`, `SendingProofs` | an accepted message on its way to MongoDB and to the unread counter of a reader, and his history reads | extends `MessageLimit`: its `Answer` is the limiter's last command together with what the handler does on the reply |
| `Accounts`, `AccountProofs` | registration, verification, resend, the mail queue and its worker, the limit on an address | register ends where `Sessions` begins |
| `Reactions` | abstract: a toggle flips the reaction, once | implemented by `Messages` through `R` |
| `Messages`, `MessageProofs` | edit, delete, react, their broadcasts, the clients' views | the proofs extend `MCMessages` for its history variable |
| `History`, `HistoryProofs` | cursor pagination against insertion | |
| `MC*` | finite instances | extend the module they instantiate; `MCRoomScenes` extends `MCRoom` |

**Rooms.** `members` is a set of records with the place (`seat`) in the array,
so that order is kept without sequences. `joinRoom` and `joinViaInvite` push
with one atomic command that leaves `__v` alone (`Push`); `leaveRoom` and
`kickMember` assign the array and save it, which Mongoose does where `__v`
matches, incrementing it (`SaveArray`); `setMemberRole` sets one entry's role
where `__v` matches and leaves it (`RoleSave`). `SaveStale` is the
VersionError. After the write come the Redis commands in the code's order
(`Finish`), and `Abort` is a process that dies or a command that fails anywhere
between. `requireRoomRole` is a query of its own before the service's (`Gate`).

**Sessions.** `tokens` records for each refresh token the session it continues
and the password the session began with; `keys` are the Redis keys. `refresh`
is `Validate` (EXISTS), `Revoke` (DEL), `Issue` (SET). The reset's SCAN is
`ScanStart` to `ScanEnd`: Redis promises to return only what is there from
beginning to end. `lock` distinguishes whether the lock was set after the
counter was created and so outlives it.

**Sockets.** `pc[s]` is how far the `connection` handler of a socket has got;
`queue[i]` the commands instance `i` has sent to Redis over its one connection,
executed in order, while the queues of different instances interleave freely.
`Drop` is the `disconnect` handler, `DropEarly` a close before it is
registered, `Crash` a process that dies and returns with an empty map.

**Messages.** `message` is the document; a handler's write puts the document
into its record (`Answer`) and `Emit` broadcasts it later. `wire` keeps one
order for all clients, which favours the code; `Deliver` does what
`SOCKET_EVENTS.md` tells a client to do.

**Sending.** A check of the limiter is a pipeline: `Attempt` reads the clock of
its instance, up to `Lag` behind the fastest, `Trim`, `Record` and `Count` are
ZREMRANGEBYSCORE, ZADD, and ZCARD with EXPIRE; the commands of two pipelines
interleave, and `Break` is a process or connection that goes between two of
them. `deadline` is the TTL of the key, which `Tick` lets expire and `Keep`
drops with the last entry. `Answer` hands an accepted message to `Store`
(createMessage), which starts an increment nobody awaits (`Increment`,
`IncrementFails`), while `ReadPage` and `Reset` are the two steps of a history
read: the page, then a DEL nobody awaits.

**Accounts.** `register` is `Register` (the limiter in front of it), `FindTaken`
(findOne and bcrypt), `Create` (the insert, where the unique indexes decide),
`StoreToken` and `QueueMail`; `verifyEmail` is `TakeToken` (GETDEL) and
`Verify`. `Abort` ends any of them between two commands; `cut` remembers the
registrations it ended. `resendVerification` stores its token and then reads a
variable that does not exist (`email`, `authService.js:101`), so that it stops
after `StoreToken`. Likewise the two functions of `utils/email.js` call
`transporter`, which is called `transport` there: every attempt of a job fails,
`FailJob`, and after `Tries` attempts the queue gives the job up.

**History.** `Create` fixes `createdAt`, `Insert` lets MongoDB have the
message: insertion may be out of order. `Read` takes any page that
`sort().limit(n + 1)` may return when creation times are equal.

## 4. Runs

Passing runs, with the bounds and why they are enough:

| Run | Properties | Bounds |
|---|---|---|
| `RoomOverlap` | `SingleOwner UniqueMembers CopiesAgree InvitesAdmitOne EntersByJoining OwnerGoesByLeaving OldMembersStay OwnershipSpec`, and in turns `RedisInTurns RolesInTurns HeirsInTurns` | 3 users, 2 overlapping requests, 3 places, 2 saves, 1 invite: an owner, an heir and a bystander, a save that finds the version moved, an invite two users redeem at once; 1.4 million states |
| `RoomCount` | `CountSettles` | 2 users, 2 overlapping requests, reads, receipts, handlers aborted anywhere; liveness |
| `SessionOverlap` | `TypeOK ResetEndsSessions LinksUsedOnce FullCounterIsLocked OneTokenAlone EndedStaysEnded LockedOutAlone` | 2 overlapping requests, 3 tokens, 2 links, threshold 2, both lockout keys expiring in any order; 5.2 million states |
| `SocketConnections` | `TypeOK OnlineAtOneInstance OfflineAfterLast SubscribedMembers` | 1 user with 2 tabs at each of 2 instances, joining, leaving, closing early |
| `SocketPresenceEnds` | `PresenceEnds` | 1 user, 1 tab at each of 2 instances, every event: crashes, lost commands, early closes, eviction; liveness |
| `MessageOverlap` | `ConvergedAlone DeletedIsFinal TogglesFlip` | 2 overlapping requests of 2 users, 2 calls of each kind, 1 client, broadcasts in any order |
| `HistoryPages` | `NoneSkipped NeverRepeated ReaderEnds` | 5 messages in 4 milliseconds with ties, inserted in any order, page sizes 1 to 3 out of limits -1, 0 and 5: up to three pages and more |
| `SendingOverlap` | `TypeOK AtMostMax RefusalsJustified UnreadExact` | 2 checks at once, a window of 3 ticks and 4 ticks of time, clocks a tick apart, limit 2, 4 attempts: a window that slides past an entry, a key that expires, an attempt refused while another instance's is being recorded; 6.6 million states |
| `AccountOverlap` | `TypeOK AccountsDiffer TokensWorkOnce EveryoneIsMailed BlocksEnd JobsEnd` | 2 overlapping requests, 2 names and 2 addresses, 2 accounts, 2 tokens, limits of 1, 2 attempts of a job: all clashes of two registrations, a token opened twice, a job retried; 0.5 million states; liveness |

`TypeOK` of the rooms, the messages and the history is not among them, because
it is proved (section 5).

Scenes. Two of the runs choose at the start which of two kinds of behaviour they
explore, and so check the union of two state spaces instead of their product.
`RoomOverlap` has "overlap", in which requests that write the document overlap,
and "turns", in which requests of every kind, also cached reads and sends, follow
each other; the properties `...InTurns` are about the second. (`RoomCount` uses
the same module with the scene "free".) `AccountOverlap`
has "crowd", any registrations and verifications while the worker is stopped,
and "single", one name and address with everything else. Behaviours in which the
worker is stopped with a job waiting are not fair, so that `JobsEnd` is really
asked of "single", and so are the properties of the counters.

Properties named `...Alone` constrain behaviours in which no two requests have
been in flight together so far; the `MC` module remembers that in the history
variable `alone`, so that one run explores the overlap for the other properties.
`EndedStaysEnded` leaves out only a session with a refresh in flight when it was
logged out. Neither these nor `...InTurns` are overlap left out: they say what
every operation does on its own, and the tables below what overlap does to the
same properties.

| Violation run | Property | The code |
|---|---|---|
| `RoomClosedOnMember` | `ClosesByOwner` | the last owner's leave deletes a room someone has joined meanwhile |
| `SessionAfterReset` | `SessionsArePresent` | a login in flight survives the password reset |
| `SocketTwoInstances` | `OnlineWhileConnected` | "last socket" is decided per process |

Other disagreements have a formula, and no run. To see one, give the
formula to TLC in the named configuration, changed as said:

| Formula | What the code does | Configuration |
|---|---|---|
| `DeletionShown` | an edit is broadcast after the deletion it preceded, and clients show the message again, although `SOCKET_EVENTS.md:45` has them show a placeholder instead | `MessageOverlap` |
| `QuietCache` | a read fills the cache after a join or leave has deleted the key | `RoomOverlap` with `Scenes = {"free"}` |
| `QuietUnread` | a send counts for a user whose counter a leave has just deleted | the same |
| `[][RoleRequested]_vars` | a kick's or leave's save undoes a role change | the same |
| `[][OwnerPromotes]_vars` | an admin demoted since his load promotes | the same |
| `OldMembersStay` without its last disjunct | a kick's or leave's save overwrites a join | `RoomOverlap` |
| `OneTokenPerSession` | a refresh token is exchanged twice | `SessionOverlap` |
| `LockedOutAlone` without `alone'` | a login in flight succeeds on an account locked since | `SessionOverlap` |
| `OnlineWhileConnected` | the score of a connected user is never refreshed, so he is evicted | `SocketConnections` with the event `age`, 1 instance |
| `MembersSubscribed` | a join at another instance, and an invite, subscribe no socket | `SocketConnections` with `redeem` |
| `UnsubscribedOthers` | a leave or kick unsubscribes no socket | `SocketConnections` |
| `TracksConnections` | a socket that closes early stays in the map | `SocketConnections` |
| `AbsentAfterLast` | `socket.rooms` is empty when it is read | `SocketConnections` |
| `TogglesCount` | two toggles of one user at once take one reaction away | `MessageOverlap` with `OneToggleEach = FALSE` |
| `ReactionsShown`, `EditsShown` | broadcasts in another order than the writes | `MessageOverlap` |
| `AllSeen` | messages of equal creation time are skipped at a page boundary | `HistoryPages` |
| `AtMostMax` without `+ Lag` | with two clocks the window is shorter by their difference than the comment in `socket/rateLimiter.js` says ("always covers exactly windowSec seconds") | `SendingOverlap` |
| `UnseenIsCounted` | a message stored between the page and the DEL is neither on the page nor counted, until the next one | `SendingOverlap` |
| `NoTokenUnmailed` | the token of `resendVerification` is never mailed | `AccountOverlap` |

Three more are plain from the text and have no formula: the worker's handlers of
`failed` and `error` log a variable that does not exist (`emailWorker.js:37,43`);
`forgotPassword` queues its link as `send-verification`
(`authService.js:203`), where `docs/bullmq-guide.md:193` has `send-reset`; and the
comment at `typingHandlers.js:31` argues from a key that nothing reads.

Fairness. `RoomCount`: handlers whose reply has come are resumed, and the cache
key's TTL expires. `SocketPresenceEnds`: the same of connection handlers, Redis
executes what it was sent, time passes for every score, and the eviction's
`setInterval` runs. `HistoryPages`: a reader who has begun asks for the next
page. `AccountOverlap`: Redis expires the counter of an address if it has a TTL,
and the worker takes jobs and ends attempts; nothing is assumed of requests, any
of which may stop halfway. Weak fairness is enough for all of them, because none
of these steps, once possible, is taken away again for ever by another. Nothing
is assumed of users: nobody has to send, join or reconnect.

## 5. Proofs

| Theorem | Establishes | Inductive invariant |
|---|---|---|
| `TypeCorrect`, `SessionTypes`, `SocketTypes`, `MessageTypes`, `HistoryTypes`, `SendingTypes`, `AccountTypes` | `TypeOK` of each module | with finiteness and freshness facts where a later proof counts |
| `OwnerCorrect` | `SingleOwner`, `UniqueMembers`, `CopiesAgree` | `OwnerInv`: that the document is in order does not imply that a save keeps it so; the copies held by handlers must be in order too, and must agree with the document on the owner while `__v` has not moved, although joins and roles leave `__v` alone |
| `MembersDistinct`, `CopiesInOrder` | its second and third part by themselves | the same |
| `OwnershipRefined` | `OwnershipSpec` | every save of a fresh copy is an abstract dismissal or hand-over |
| `EntriesAreJoins`, `OwnersLeaveThemselves`, `SavesLoseOnlyJoins` | `EntersByJoining`, `OwnerGoesByLeaving`, `OldMembersStay` | as above |
| `InvitesAdmitOneEach` | `InvitesAdmitOne` | `Admitted`: members and redemptions between GETDEL and push are at most the founder and the tokens spent |
| `RolesAsAsked`, `HeirsAreEldest` | `RolesInTurns`, `HeirsInTurns` | `TurnInv`: the one request in flight holds a copy whose members and roles are still the document's, and has passed the checks of its route on them |
| `RedisLeftRight` | `RedisInTurns`, if no request breaks off (`"abort"` is not among `Operations`) | `RedisInv`: a cached count or an unread counter that is wrong is one the request in flight has yet to delete (`Owed`) |
| `LockoutHolds` | `FullCounterIsLocked` | `LockInv`: the lock was set after the counter and so outlives it |
| `ResetsEndSessions` | `ResetEndsSessions` | inductive itself: an outdated token is doomed by a reset under way |
| `LinksChangeOnce` | `LinksUsedOnce` | `LinkInv`: password changes plus resets about to change it are at most the links taken |
| `LogoutsEnd` | `EndedStaysEnded` | `RotationInv`: a session has the number of its first token, so that one begun by a login is new; `EndedInv`: ended sessions are old ones, and an ended one has neither a live token nor a refresh in flight |
| `RotationAlone`, `LockHoldsAlone` | `OneTokenAlone`, `LockedOutAlone` | `AloneInv`: while nothing has overlapped, the token in the hands of a refresh is its session's only one, and none is live once deleted; a login past the lock's check finds no lock until it ends |
| `LastDropIsOffline` | `OfflineAfterLast`, if no command fails and no process dies | `OnlineIsUndone`: an instance without a socket of the user has an "offline" behind every "online" it has yet to send; `OnlineHasReason`: whoever is online has a socket or an "offline" coming |
| `MembersAreTold` | `SubscribedMembers`, if no read or command fails and no membership comes from an invite | `HomeInv`, `QueueInv`: a handler waits for one command, the one it has sent to its own instance; `JoinedInv`: past its read of the rooms, a socket of a member whose join its instance has answered is in the channel |
| `OneInstanceIsOnline` | `OnlineAtOneInstance`, if no command fails and no score grows stale | `OnlineInv`: the last command of such a user in the queue is an "online", or he is online and no "offline" is coming (`StaysOnline`) |
| `DeletionIsFinal` | `DeletedIsFinal` | `TypeOK` |
| `AloneConverges` | `ConvergedAlone` | `AloneShows`: for each client and field, the last event to come that tells of the field, on the wire or about to be broadcast, has the document's value; without one the client has it already |
| `TogglesAreAtomic` | `TogglesFlip`, if users toggle one at a time | `Between`: a toggle between its attempts has its reaction still there, or the message is deleted |
| `PagesDisjoint` | `NeverRepeated` | `ReadSoFar`: what was read is at the cursor or later |
| `PagesComplete` | `NoneSkipped` | `Ahead`: of what was there when the reader began, what is still before the cursor is all that is left unread, ties apart |
| `LimitHolds` | `AtMostMax` | `WindowInv`, see below |
| `RefusalsHold` | `RefusalsJustified` | `WindowInv`: what is in the set was not outside the window of any attempt under way |
| `CountsAgree` | `UnreadExact` | `SendInv`: with `seen <= stored`, inductive itself |
| `NamesAreUnique`, `TokensAreSpent`, `MailsAreQueued` | `AccountsDiffer`, `TokensWorkOnce`, `EveryoneIsMailed` | `AccountInv`: what each suspended handler knows of its account and token (`InFlight`), and that a token taken has no key any more (`Spent`) |

The bound on messages holds although checks overlap, break off and find the key
expired, for this reason. A message accepted stays in the set until the clock is
a window past its stamp (`Kept`): a trim goes by a stamp no later than the clock,
and the EXPIRE that came with the message's own ZCARD, or a later one, keeps the
key that long (`Lives`). Of the accepted messages of one window, less `Lag`, take
the last to count. It did so at most `Lag` after its stamp (`InFlight`), when the
clock was not yet a window past any other of them; so it found all of them in the
set, and they were `Max` at most.

The assumptions are the named `ASSUME`s of the modules (finite sets, positive
thresholds, operations among those modelled) and no bound on the number of
users, requests, instances or messages; TLC evaluates them on every run. Where a
theorem assumes that some event does not occur, the code gives no more, and the
runs leave the same event out. A room request that breaks off leaves the DEL of
the count undone (hazard at `roomService.js:116`). A `Room.find` or command that
fails in the `connection` handler leaves the socket out of the channels of its
user, and a redeemed invite tells no socket at all (`Untold`); a ZADD that fails, or a
score older than `STALE_THRESHOLD`, takes a connected user offline until he connects again
(`Forgetful`). Crashes and restarts of the instances are not among them: both
theorems about connected sockets hold across them.

Every invariant and action property of a passing run is stated by a theorem.
Those that say `...InTurns` and `...Alone` are proved about the specification of
the `MC` module that declares their history variable, for every value of the
constants as the others are.

Only model-checked: the liveness properties `CountSettles`, `PresenceEnds`,
`ReaderEnds`, `BlocksEnd` and `JobsEnd` (fairness and ENABLED are outside the
prover's reach), and of the runs that find a violation the violation.
Facts by induction over data are not provable with the installed provers
either; nothing here needs one, and no module declares a RECURSIVE operator.

## 6. Assumptions about what is not in this repository

* Mongoose: assigning an array and saving it sets the whole array where `_id`
  and `__v` match and increments `__v`; setting one entry's field matches
  `__v` and does not increment it; `findOneAndUpdate` does neither.
* MongoDB has built the two unique indexes of `models/User.js` before the first
  registration; a duplicate key is refused however two inserts overlap.
* All commands of one pipeline run within a tick of the clock, and their
  replies, which `socket/rateLimiter.js:36` reads by position, are no errors.
  `Lag` is what two clocks, and
  the way of a command to Redis, can make up together; it is less than the window.
* BullMQ runs no more jobs than the worker's concurrency and gives a job up
  after its attempts. That it hands the jobs of a dead worker to another is its
  own affair and not modelled.
* socket.io 4.8: `join` on a closed socket does nothing; a socket has left its
  rooms when `disconnect` is emitted; a `disconnect` nobody listens to is lost.
* Redis executes the commands of one connection in order; SCAN returns every
  key present throughout.
* `middleware/socketAuthenticate.js:7` reads `socket.hanshake`, so as written
  every handshake fails. Socket events are modelled as though it succeeded:
  otherwise `Sockets` and `Messages` would have no steps at all.
* The README lists `message:edited` and `message:deleted`; the code, like
  `SOCKET_EVENTS.md`, emits `message:edit` and `message:delete`, and the model's
  clients listen to those.

## 7. Not modelled

* Values of read receipts, and those of unread counters while the membership
  changes: `RoomService` knows only whether they exist, `Sending` counts for a
  reader who stays. A kick leaves the receipt behind (`roomService.js:226` clears
  the counter only), so that no property about receipts is stated.
* Process death inside `Sessions`; `Sockets`, `RoomService`, `Sending` and
  `Accounts` have it. A process that dies between the new password and the DEL
  leaves the old sessions alive, and nothing repairs it; one that dies between
  the last failure and the lock leaves the lock to the next failure.
* Direct messages: `app.js` does not mount the router, and the controller throws
  on an undefined name before it calls the service. There is no behaviour to model.
* Typing: the key is written and never read, and `SOCKET_EVENTS.md:221` has the
  clients drop an indicator on a timeout of their own, since a stop may overtake
  the start it follows. The server keeps nothing a property could be about.
* Access tokens (stateless), content, names and pagination of the listings,
  text search, profiles, health, logging, documentation, deployment.

## 8. Plan

Done, in this order: rooms, sessions, sockets and presence, messages, history,
the message limit with sending and unread counters, accounts with mails and the
limit on an address. Next:

1. Theorems: what the liveness properties rest on, as invariants (an address
   that is blocked has a key with a TTL; a job not done has attempts left).
2. Process death inside `Sessions`, with what a reset cut short leaves behind.
3. The membership of `RoomService` and the channel of `Sockets` as one
   composition, with delivery of `message:new` to whoever is in the channel.

Runs are kept few so that all of them stay quick: what is added to a module joins
its run, as a scene or a history variable if the product would be too large.
