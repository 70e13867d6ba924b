# GoTok in TLA+

Specifications of the parts of GoTok in which concurrency, partial failure and
ordering decide whether the program is right: the chat hub and its Redis
broker, the delivery of payloads to browsers, messages and read cursors, likes
and comments, direct conversations, accounts and sessions, uploaded files, lists
that are loaded page by page, and the two pages whose JavaScript has several
requests under way at a time: the chat and the feed.
TLC checks them on small instances; TLAPS proves the main safety results for
all values of the constants.

    tlc -config hub_tabs.cfg MCChatHub      # any run of the table below
    tlapm HubProofs.tla                 # any *Proofs module

## 1. The system

GoTok is one Go binary that may run as several instances behind one PostgreSQL
and one Redis. Pages are rendered by the server and driven by plain JavaScript.

| part | code | state | operations |
|---|---|---|---|
| chat hub | `internal/chat/hub.go` | `clients`: user to set of `Client`; the channels `register`, `unregister`; a send channel (64) per client | `Register`, `Unregister`, `Run` (addClient, removeClient, closeAll), the heartbeat, `deliverLocal`, `HandleMessage`, `HandleRead`, `IsOnline` |
| Redis broker | `internal/chat/broker.go` | `subs`: user to `*redis.PubSub`; in Redis the keys `presence:<uid>` with an expiry | `Publish`, `Subscribe` (with a reader goroutine), `Unsubscribe`, `SetPresence`, `IsOnline` |
| WebSocket handler | `internal/chat/ws.go` | one read loop and one write pump per connection | accept, register, dispatch of frames, unregister, `writePump` |
| chat service and store | `service/chat.go`, `store/chat.go`, `handlers/chat.go` | `conversations`, `conversation_participants` (`last_read_msg_id`), `messages` | send, mark as read, open a direct conversation, create a group, list |
| likes, comments | `service/video.go`, `store/store.go`, `handlers/{like,comment}.go` | `likes` (unique user and video), `comments`, `videos.likes_count`, `videos.comments_count` | `ToggleLike`, `CreateComment`, lists |
| lists of the pages | `feed.js`, `profile.js`, `chat.js`, `handlers/{feed,profile,comment,chat}.go` | cursor, `done`, `loading`, rendered rows | `loadPage`, `loadComments`, `loadMessages`, `loadConversations`, scroll |
| chat client | `chat.js` | socket, reconnect timer, the open thread, caches of conversations and messages | connect, open a thread, load, receive, send, mark as read |
| feed client | `feed.js` | the heart of each card, the comment sheet | like button, double tap, open and close the sheet, scroll, post a comment |
| accounts | `service/auth.go`, `middleware/auth.go` | users, sessions | register, log in, log out, expiry |
| profiles, uploads | `handlers/{upload,profile,video}.go`, `service/profile.go`, `upload.js` | files on disk, rows | upload a video, replace an avatar |
| start and end | `internal/app/app.go` | the process | signal, cancel of the hub's context, HTTP shutdown |
| video player, views | `feed.js`, `handlers/like.go` | `videos.views_count` | play, seek, count a view |
| the rest | config, logger, templates, API docs, migrations | none that changes | |

How they interact. A browser opens a WebSocket; ServeWS puts a `Client` in the
register channel; `Run` takes it, adds it to the map, starts `Subscribe` in a
goroutine of its own and sets the presence key. When the read loop ends the
client goes to the unregister channel; the last client of a user takes the
subscription and the presence key with it. A message is stored in one
transaction and then published to the channel of each participant; every
instance with a subscription on that channel hands it to its local clients of
that user. The heartbeat sets the keys again every 30 s; they live for 120 s.

What is hard. `Run` is one goroutine, but it shares `subs`, `clients` and the
send channels with Subscribe goroutines, reader goroutines, write pumps and the
heartbeat, across unlocks and calls to Redis; `presence:<uid>` is shared by
instances that do not know of each other; a process can end anywhere.
Transactions run under READ COMMITTED, where each statement sees what has
committed in between and a sequence gives out ids before they commit. Any
PUBLISH, SET, DEL or statement can fail on its own, and a client's requests
overlap. In a page a request outlives what it was sent for: its answer comes
when another thread or another video's comments are open, or the heart it was
about has changed.

What makes the parts correct:

- hub and broker: a connected user has a subscription, no subscription outlives
  the reach of Unsubscribe, presence follows the connections;
- delivery: each tab gets what was published while it was there, once and in
  order, and no tab holds up another one or brings the process down;
- messages: nothing is pushed that is not stored, a member's channel keeps a
  sender's order, read cursors only advance and skip nothing that is in time;
- likes and comments: what is committed fits the table, stored counts go wrong in
  no way but the known one, no deadlock;
- direct conversations: one per pair;
- accounts: one per email, and a session only for who knows its password;
- files: what a row names is on the disk of an instance;
- lists: no row twice, none left out;
- chat page: a thread shows its own messages, once, and keeps what it has got;
  nothing is marked as read that was not shown; a lost socket is opened again;
- feed page: a sheet shows the comments of its video, hearts tell the truth, a
  double tap likes.

## 2. Modules

| module | models | builds on |
|---|---|---|
| `Broker` | `b.subs`, the Subscribe call in its three parts, Unsubscribe, the presence keys and their expiry | |
| `ChatHub` | `Run`, ServeWS at both ends of a connection, the heartbeat, the life of each process | `Broker` |
| `HubDelivery` | PUBLISH, the reader goroutines, `deliverLocal`, the send channels, the write pumps | `ChatHub` |
| `ChatLog` | what a conversation promises: the abstract specification | |
| `Messages` | HandleMessage, HandleRead, their REST counterparts, the statements of the store | refines `ChatLog` |
| `DirectMessages` | `GetOrCreateDMConversation` | |
| `LikeTable` | what a like button promises: the abstract specification | |
| `Engagement` | `ToggleLike`, `CreateComment`, with PostgreSQL's locks | refines `LikeTable` |
| `Accounts` | register, log in, demo log in, log out, expiry, the session check in front of a request | |
| `Uploads` | uploading a video, editing a profile: files on disk and the rows that name them | `Accounts` |
| `Paging` | keyset pagination: table, handler and page | |
| `Rows` | the rows a page of a list takes | |
| `ChatPage` | the chat page: socket and timer, the open thread, its load, pushes and POSTs, marks | `Rows`, refines `ChatLog` |
| `CommentSheet` | the comment sheet of the feed: its load and its post | `Rows` |
| `Hearts` | the hearts of the feed: like button, double tap, answers | |
| `FeedPage` | the feed page, with what a user may do on it | `CommentSheet`, `Hearts` |
| `HubProofs`, `EngagementProofs`, `MessagesProofs`, `UploadsProofs`, `PagingProofs`, `RowsProofs`, `ChatPageProofs`, `FeedPageProofs` | theorems and proofs | their modules |
| `MCChatHub`, `MCHubDelivery`, `MCMessages`, `MCUploads`, `MCChatPage`, `MCFeedPage` | instances for TLC | their modules |

State and actions. A connection of `Broker` and `ChatHub` names at once the
`Client`, the Subscribe call `addClient` may start for it and the
`*redis.PubSub` that call opens, since each exists at most once per connection.
`h.clients` is the set `clients`; `Local(i, u)` is the entry of user `u` on
instance `i`. `Run` moves through `hubPc`, one value for each lock or call to
Redis it stops at: `AddClient`, `SetOnline`; `RemoveClient`,
`UnsubscribeDetach`, `UnsubscribeClose`, `SetOffline`; `CloseAll`. A Subscribe
call moves through `sub`: test, dial, second test and store. In `HubDelivery`
a payload is its number in the order of publication, `inbox` is what a
subscription has received, `todo` the rest of `deliverLocal`'s snapshot,
`send` a client's channel, `got` what was written to its socket; every step of
`ChatHub` composes with `Forget`, what a process that ends holds in memory.

In `Messages` and `Engagement` each SQL statement is an action, and `pc` says
which one a request runs next. Waiting for a lock is a guard: `KeyBusy` for the
unique key of `likes`, `VideoBusy` for the row of a video. What a transaction
has written and not committed is in variables of its own (`effect`, `id`),
because other transactions do not see it. `lane` of `Messages` is the WebSocket
a frame comes in on, where one frame is handled after the other, or the user
who POSTs, where nothing waits. In `Engagement`, `liked` is the local variable the
answer is made of. `overtaken` and `stale` are history: the toggles whose key another
one has changed since they began, and the requests that had counted, and waited
for the row of the video, when another one committed a change of what they
counted.

In `Accounts` and `Uploads` a request does one statement or one call to the
file system per step, and `pc` says which one is next; a request that has not
begun yet is `"idle"`. What is random (a session token, the name of a stored
file) is named by the request that makes it up, and what a user has from before
by the user. `form` is what the request was sent with, `token` the cookie it
came with, `who` the user it found or acts for. `Enter` is the session check: it
reads the user, and with it `avatar_url`, once; the handler works with what it
has read (`old`). `Home` is the instance that serves a request, and `disk` has a
directory for each, as `docker-compose.yml` does: a photo is removed where the
edit is served, and is there or not. `removed`, `applied` and `erred` are history: which request
has removed an old photo, whose statement took effect, who was told that its
INSERT failed.

`Paging` has one list: the table moves on while the page loads; a row is its id.
The six kinds of list differ in `Remove` (only likes go), `LastPage` and
`IsCursor` (what ends the list, and which row it goes on from), `Newest` (the
order), and in what an error does (`AfterError`): feed, profile and comments take
an answer without a list for the end, a thread and the conversations ask again,
unless it was their first page (`Stuck`). Conversations are ordered by activity
and paged by id. `byId` is history: the order of the conversations has been that
of their ids so far. With it the lists keep what they promise, without it
nothing can be said.

`ChatPage` takes the server as what `Messages` and `ChatLog` make of it: messages
show in any order of their ids, each is pushed to the page's channel once or
never, cursors advance. `ws` and `timer` are the two variables `connectWS` keeps;
`"fired"` is the id of a timer that has fired, which is still there and keeps
`onclose` from setting another one. `load` is the one request of `loadMessages`,
`to` the conversation it was sent for, `active` the one that is open now. The
list on the page is two bags: `paged`, rows of loads, and `pushed`, messages that
were received by the socket or by the answer of a POST. `last` is the last id of
`messageCache`, all that `markRead` looks at. `crossed`, `owed` and `rendered` are
history: the thread was opened during a load; what it has to show; what was
put into a list by a load, a push or an answer.

`CommentSheet` is built in the same way: `sheet` is the video it is open for,
`load` the request of `loadComments`, `paged` and `posted` the two ways a comment
gets into the list, `stage` and `posting` what has become of a comment that was
posted. In `Hearts` a request moves through `posts`: sent, found a like (so that
it will delete it), answered. `alone` and `sure` are history of a request (no
other change to the like was under way with it; the heart was right when it was
sent), `trusted` of a card: the page was told of the last change. A 401 is
`TurnedAway`: the page is left for the login, with the heart as it is.

Operators named as mutants in a comment are variants of the operator that
follows them, with a plausible bug; they are used by no specification and show
that each property notices such a bug.

## 3. Runs

| run | instance | states | shows |
|---|---|---|---|
| `hub_tabs` | one instance that may stop, crash and restart, three tabs of one user, TTL 2 | 341 881 | whichever way Run, the Subscribe goroutines and the heartbeat interleave: `ReaderStored`, `SubscribedOrComing`, `OnlyGhostsAreClosed`, `ConnectedIsOnline` |
| `hub_presence` | two instances, a tab on each, DEL may fail, crashes | 158 901 | `OnlyOthersTakeIt`; `OfflineHeals`, `OnlineHeals` under fairness |
| `delivery` | one instance, two tabs, two payloads, buffers of 1 | 126 328 | `InOrder`, `NothingSkipped`, bounded buffers, `EveryTabGetsIt` under fairness |
| `likes` | two users, one video, three requests, every initial table | 183 420 | `OnlyStaleCountsDrift`, that `Engagement` implements `LikeTable` (`FlipsTheLike`), `AllAnswered` under fairness |
| `messages` | two sends, two marks, two members and an outsider, four ways the requests come in | 1 074 782 | `SenderOrder`, `PassedOnlyIfLate`, and that `Messages` implements `ChatLog` |
| `uploads` | two instances, one browser, any three requests, two users, one email, two passwords, every initial table with at most one account | 1 253 561 | `OwnSessions`, `AvatarThere`, `VideoHasFile` |
| `paging` | six kinds of list, pages of 2, six ids | 939 700 | `NewestFirst`, `CompleteWhenDone` |
| `chat_page` | two conversations, three messages (one sent from the page), pages of 1, two threads opened, two sockets closed | 1 156 340 | `OwnThread`, `ThreadComplete`, `ShownOnce`, `ReadWasShown`, that each conversation of `ChatPage` implements `ChatLog` (`KeepsLog`), `Reconnects` under fairness |
| `feed_page` | two videos, one with a heart, three comments (two posted from the page), pages of 1, two requests at a time, five moves | 1 259 760 | `OwnSheet`, `SheetComplete`, `TwiceOnlyOwn`, `HeartTrue`, `TapsLike` |

Three more runs end in a violation; each is a disagreement between the code and
what its comments or documents say of it.

| run | property | what happens |
|---|---|---|
| `hub_first_wins` | `FirstSubscriptionWins` | The last tab of a user leaves while its Subscribe call still dials, and a new tab comes: two calls reach the second critical section. The later one closes the stored subscription, leaves the closed one in `subs` and never closes its own. The user gets nothing pushed until the last tab leaves again. `broker.go:64-66` says the first subscription wins. |
| `delivery_panic` | `NoPanic` | `deliverLocal` sends after the unlock to a channel `removeClient` has closed: a panic of the whole process. |
| `dm_duplicate` | `SamePairSameConversation` | Two requests for one pair both find no conversation and create one each. `store/chat.go:13-14` says the same pair always resolves to the same conversation. |

`ReaderStored` and `NeverReplaced`, which is proved only, say how far the damage
of `hub_first_wins` goes: a leaked subscription is not read, a stored one is not
replaced. `OnlyGhostsAreClosed` says the same of the second place where a closed
channel can end the process: `closeAll` closes no channel twice but that of a
ghost (below).

Where the models show less than a document says, the property that is checked
says what is left:

- `hub.go:286-287`: "IsOnline reports whether the given user has at least one
  active WebSocket connection on any instance". `ConnectedIsOnline` holds where
  a user's connections share an instance. Where they do not, the DEL of the one a user leaves makes the user
  offline until the next heartbeat of the other one: `OnlineHeals`. Nothing else
  takes the key of a connected user: `OnlyOthersTakeIt`. In the other direction a
  user with no connection is online for good when one of them is left behind as
  a ghost: `OfflineHeals` names this, and says that everybody else ends up
  offline.
- `ARCHITECTURE.md:450`: "Denormalized counts kept consistent via
  transactions". When two likes overlap, both count before the other commits,
  and `likes_count` is 1 with two rows. `OnlyStaleCountsDrift` says that this is
  the only way: a transaction stores a count that another one's commit has made
  stale while it waited for the row. Every other commit leaves the count exact,
  whatever it found: a later like repairs `likes_count`, a later comment
  `comments_count`.
- `ARCHITECTURE.md:382`: "Auto-reconnecting WebSocket - connects to `/ws`,
  reconnects after 3s on close". Only `onopen` clears the id of the timer, so
  after an attempt that fails there is no other one (`chat.js:62-67`):
  `Reconnects`.
- `ARCHITECTURE.md:386`: "marks conversation read on open and on new message".
  `markRead` looks at a cache that is empty when a thread is opened for the
  first time and that a received message does not extend: the cursor stays
  behind. `ReadWasShown` says that it is never ahead of what was shown, by
  whichever way it came into the list.
- `ARCHITECTURE.md:212`: keyset pagination by `id` is "stable". Conversations
  are ordered by activity and paged by id (`store/chat.go:155-156`), so pages
  leave some out or repeat some as soon as the two orders differ: `NewestFirst`
  and `CompleteWhenDone` hold for them with `byId`.
- `feed.js:260-263`: a double tap "ALWAYS results in a like". The heart it looks
  at may be wrong, after an error answer, overlapping requests or a click in
  another tab, and then the toggle takes the like away: `TapsLike`.

More things the models show, of which the repository promises nothing:

- A WebSocket that ends at once is in both channels of the hub, and `select` may
  take the unregister first: `addClient` then adds a client nobody is behind,
  and it stays until the process ends (`hub.go:87-96`). The heartbeat keeps the
  user of such a ghost online, and `closeAll` closes its channel a second time,
  which panics.
- A profile edit that is refused or fails for its name, its bio or the UPDATE
  has removed the old photo by then, and the row still names it
  (`profile.go:187-205`). `AvatarThere` says that this is the only way to lose
  a photo, that is, to have it on no instance's disk.
- An INSERT that took effect and was reported as failed, for instance because
  the client went away, leaves a row whose file is removed
  (`upload.go:107-110`). `VideoHasFile` says that this is the only way to lose a
  video on the instance it was uploaded to.
- A row names its file to all instances and one of them has it: the others answer
  404, as `ARCHITECTURE.md:524` says of the volumes of `docker-compose.yml:38,55`.
  An edit that is served by another instance than the one before leaves the old
  photo there.
- A log out whose DELETE fails clears the cookie and leaves the session alive
  until it expires (`handlers/auth.go:140`).
- A thread, or a comment sheet, that is opened during a load asks for nothing
  and shows the answer of the other load (`chat.js:185-208`,
  `feed.js:354-376`); if that load is rejected the sheet stays at "Loading...".
  A comment that was posted comes into whichever sheet is open by then
  (`feed.js:427`). `OwnThread` and `OwnSheet` say that this is the only way to
  see rows of another conversation or video.
- A message that is pushed after the first page of its thread was read and
  before it is rendered is wiped from the list (`chat.js:201`); one that was
  POSTed may show twice, once by its answer and once by the socket
  (`chat.js:281`), and a comment twice, as posted and as a row of a page.
  `ShownOnce` says that the answer is what it takes: nothing that is sent by frame
  is shown twice.
- A comment whose answer comes between the read of the first page and its
  rendering is wiped (`feed.js:361`). `SheetComplete` does not owe it.
- An error answer to the like button has no `liked`, and turns the heart off
  (`feed.js:248-250`).

### Bounds

- Connections, requests, messages are used once. Three tabs are what the races
  of Subscribe need: one whose call is slow, one that makes the user leave and
  come back, one to see the entry that results. Two requests make every race of
  two transactions, a third one the race with what the two have left behind.
- `QCap` bounds the register and unregister channels at 2 or less instead of 64: a full
  channel makes ServeWS wait, and with 1 it is full at once.
- `TTL` is 2 periods instead of 4: one to be refreshed in and one to run out in.
- `SendCap` is 1 instead of 64, so that buffers do run full.
- `MaxMsg`, `MaxId` bound what is published and the ids given out; a page has
  2 rows instead of 20 or 24, so that six ids make full pages, short pages and
  empty ones.
- `SendCap` of 1 leaves the pump its part in `EveryTabGetsIt`: a full buffer is an
  excuse for the payload `deliverLocal` finds it full with, and not for the one
  that fills it.
- Three requests on accounts and files: two edits of one user that overlap and
  one that fails, or two registrations with one email and a log in. What came
  before is in the initial table, so an account, its session and its photo need
  no request of their own. At most one account is there before (`SmallSpec`); two of the
  requests go to one instance, the third to another. Users, passwords
  and the two requests are symmetric.
- `Mortal` is the set of instances that may stop or crash. In `delivery` it is
  empty, which keeps the graph for the liveness property small; the panic of
  `deliverLocal` still ends the process there.
- `MaxOpens` and `MaxCloses` are 2: one thread or socket that leaves something
  behind, one that meets it. Three messages make a thread of two pages and one
  message of another conversation; `Homes` places them, `Own` are those sent
  from the page.
- `MaxMoves` is 5 and `MaxPosts` 2: a sheet that is opened, scrolled, posted to
  and opened for another video, or three requests for one heart of which two
  overlap. `Of` and `Own` place the comments. `Cards` has one video, since
  hearts of several cards do not touch each other.
- `Timed` switches time off in the runs that do not speak of presence.

`CHECK_DEADLOCK FALSE` is said five times. In `delivery` and `delivery_panic`
connections and payloads are used up, and with time off nothing remains to do. In `paging` a list that
has ended rests when all ids are given out, and in `chat_page` and `feed_page` a
page rests when the bounds are used up. The other models either have
heartbeats, which go on, or say `AllEnded` for the end of their bound; in
`uploads` the server can always crash and restart, so nothing stops.

### Fairness

Weak fairness of `RunStep`, `BeatStep`, `SubscribeStep`, `ReaderStep` and
`PumpWrite` is that of goroutines: one that can run does. `Tick` is fair because
time goes by; it waits for a heartbeat that is due, that is, a heartbeat takes
less than its period of 30 s. Without that no refresh could be relied on.
`ToggleStep` and `CommentStep` are fair because PostgreSQL runs a statement that
waits for no lock. `TimerFires` is fair because a browser's timer fires, and an
attempt to connect ends, by opening or by failing; sockets need not stay open
and attempts need not succeed. Nothing else that comes from outside is fair: connections,
signals, crashes, restarts, requests, rollbacks. `EveryTabGetsIt` lists what
may happen instead of a delivery, and `OfflineHeals` and `OnlineHeals`
start from a situation that lasts.

### Assumptions

- Redis delivers what it acknowledges to the subscriptions that are open, in
  order; a command either takes effect by the time it returns or not at all.
  Retries inside the client library are not modelled.
- PostgreSQL holds to READ COMMITTED: statement snapshots, row locks until the
  end of the transaction, unique keys that wait.
- The answer to a COMMIT may be lost after it took effect; a statement that was
  abandoned does not run later.
- A WebSocket delivers a payload once or not at all, and answers of HTTP requests
  come in any order. Marks of a page may arrive in any order, late or never.
- Clients name ids of messages they have been shown: `MarkRead` takes any id, and
  the page of this repository sends those of its cache (`ReadWasShown`).
- What is drawn at random (session tokens, names of stored files, the identity of
  a demo user) does not repeat. A password check succeeds for the password the hash
  was made from and for no other.

## 4. Proofs

| theorem | for all values of | says |
|---|---|---|
| `HubProofs!TypeCorrect`, `HubInvariant` | instances, users, connections, capacities | `TypeOK`, `HubInv` |
| `ReadersAreStored`, `ConnectedUserSubscribes`, `StoredIsNotReplaced`, `OnlyGhostsClosed` | the same | `ReaderStored`, `SubscribedOrComing`, `NeverReplaced`, `OnlyGhostsAreClosed` |
| `OneHomeOnline` | the same, where a user's connections share an instance, SETs work and `TTL >= 2` | `ConnectedIsOnline` |
| `OnlyOthersTakeTheKey` | instances, users, connections, where SETs work and `TTL >= 2` | `OnlyOthersTakeIt` |
| `OnlyStaleBeatsRenewIt`, `LiveChannelsAreOpen` | instances, users, connections, capacities | `OnlyStaleBeatsRenew`, `LiveChannelsOpen` |
| `HubProofs!DeliveryInvariant`, `DeliveryTypeCorrect`, `PayloadsInOrder`, `NoPayloadIsSkipped` | the same | `DeliveryTypeOK`, `DeliveryInv`, `InOrder`, `NothingSkipped` |
| `EngagementProofs!TypeCorrect`, `EffectInvariant`, `KeysAreHeld`, `OnlyStaleDrifts`, `NoCircleEver` | users, videos, requests (finite) | `TypeOK`, `EffectInv`, `KeyHeld`, `OnlyStaleCountsDrift`, `NoCircle` |
| `EngagementProofs!TogglesAreAtomic` | the same | `Spec => FlipsTheLike`: `Engagement` implements `LikeTable` |
| `MessagesProofs!TypeCorrect`, `MessageInvariant`, `ChannelsKeepOrder`, `PassedOnlyLate` | users, members, WebSockets, requests, lanes | `TypeOK`, `MsgInv`, `SenderOrder`, `PassedOnlyIfLate` |
| `MessagesProofs!RefinesLog` | the same | `Spec => KeepsLog`: `Messages` implements `ChatLog` |
| `UploadsProofs!UploadInvariant`, `SessionsAreOwn`, `PhotosAreThere`, `VideosHaveFiles` | instances, users, emails, passwords, browsers, requests | `TypeOK`, `OwnSessions`, `AvatarThere`, `VideoHasFile` |
| `PagingProofs!TypeCorrect`, `PageInvariant`, `ListsAreNewestFirst`, `EndedListsAreComplete` | kinds of list, page size, number of rows | `TypeOK`, `PageInv`, `NewestFirst`, `CompleteWhenDone` |
| `ChatPageProofs!ThreadInvariant`, `TypeCorrect`, `ThreadsAreOwn`, `ThreadsAreComplete`, `MessagesShowOnce`, `CursorsWereShown` | conversations, messages, where they belong, page size, bounds | `TypeOK`, `ThreadInv`, `OwnThread`, `ThreadComplete`, `ShownOnce`, `ReadWasShown` |
| `ChatPageProofs!PageKeepsLog` | the same | `Spec => KeepsLog`: each conversation of the page implements `ChatLog` |
| `ChatPageProofs!TimerIsSet`, `FailedIsForGood` | the same | `TimerSetOrStuck`, `StuckForGood` |
| `FeedPageProofs!FeedInvariant`, `TypeCorrect`, `SheetsAreOwn`, `SheetsAreComplete`, `PagesShowOnce`, `HeartsAreTrue`, `TapsOnlyLike` | videos, cards, comments, page size, bounds | `TypeOK`, `FeedInv`, `OwnSheet`, `SheetComplete`, `TwiceOnlyOwn`, `HeartTrue`, `TapsLike` |

The assumptions are the named ones of the modules (the shape of `Home`,
`Owner`, `Lanes`, that nil is no connection, finiteness where counts are
compared); TLC evaluates them in the runs.

*Hub.* `SubscribedOrComing` is not inductive. It has to be known that a
connection in the register channel has no Subscribe call yet (`RegisterFresh`),
that an entry of `subs` belongs to the user and instance it is stored under and
its call is over (`SubsEntries`), that no connection of a user registers while
`removeClient` takes the last one down, because `Run` does one thing at a time
(`RemovingLast`), and what Unsubscribe holds between the unlock and the Close
(`ClosingSub`). Then a Subscribe call that ends leaves an entry behind, whether
it stored its own or found one, and Unsubscribe removes one only while no
client is there. For `OnlyGhostsAreClosed` it has to be known that an unregister that
waits is the only one of its connection and the channel it will close is open,
unless `closeAll` was there first, after which no client is registered
(`GhostInv`).

*Presence.* `ConnectedIsOnline` fails where two instances serve one user, since
the DEL of one takes the key the other has set, until the next heartbeat, and where a SET fails.
`OneHomeOnline` excludes exactly these. `KeptOnline` says that the key of a
registered connection outlives the coming tick, or the heartbeat that is due or
under way still has its user on its list (`Lasting`), or `addClient` is about to
SET it. A DEL comes only for a user with no connection left (`RemovingLast`) on
that instance (`LeavingHere`), and a restarted process starts with none
(`DeadEmpty`). `OnlyOthersTakeIt` drops the first exclusion and says which step
takes the key. Its proof carries `KeptAlive`: the key of a registered
connection is gone, or it lasts (`Lasting`), or `addClient` is about to SET it. A
key that is gone may stay so until a heartbeat; one that is there can then be
lost neither to the clock nor to the user's own instance.
`OnlyStaleBeatsRenew` is about
the other direction and needs no assumption: with no client registered, a SET can
only come from a heartbeat that took its snapshot before, and each has the user
on its list once.

*Delivery.* While a user's connections come and go a second reader may run beside
the stored one, for Unsubscribe takes a subscription out before it closes it.
`Outdated` says that such a reader has nothing for a connection that is
registered now, because Unsubscribe takes one out only when no client of the
user is left, and a connection registers once (`KnownOnce`). Hence at any time one reader at most still
hands to a connection what was published for it (`OneReader`), and what it has
is later than what has reached the connection (`InTurn`), since a subscription
receives in order (`Rising`). `NothingSkipped` follows a payload from the
subscription to the reader's hand, to the channel and to the socket: the snapshot
of `deliverLocal` is taken when the payload is, so a connection that is
registered then is in it, and it leaves it by the push only. `LiveChannelsOpen`
says what the panic of `delivery_panic` needs: `chan` is closed by `removeClient`
or `closeAll`, which come after the read loop has ended or the process is
stopped (`PlaceInv`). `HubMoves` is what the proof knows of a step of the hub: who
registers, when a subscription is stored or taken out, and what an ending
process takes with it.

*Likes.* A transaction that has written its key keeps every other one from
writing it (`KeyBusy`); with what a DELETE found before it waited (`EffectInv`)
the effect it commits fits. For `OnlyStaleCountsDrift` the proof carries `CountInv`:
one transaction at a time is past its UPDATE of a video's row (`VideoBusy`), and a
count that is not `stale` is the number of rows there would be if its transaction
committed now. The commit of the holder changes the rows, and makes stale
exactly what others have counted for that video. In the refinement a toggle takes
effect at its COMMIT and everything before it stutters; `FlipInv` says that the
answer agrees with the effect, and that a toggle that is about to find no row, or
another row than the one it found, has been overtaken. `NoCircle` gives each
wait a direction: a request waits only for one of a higher `Rank`, and the
holder of a video's row waits for nothing, so some request can always go on.

*Messages.* `IdsGiven` says where in its life a send has an id and a row.
`FeedsStored` keeps pushed messages out of `todo`, so that none is pushed twice.
`OneFrame` is the read loop: a WebSocket has one frame under way, and the ids it
has given out before are lower; `SenderOrder` follows. `MembersOnly` and
`ReceiptsHold` carry cursors and receipts. The refinement maps the log to the
committed messages with their ids, what a member has heard to the contents of
its channel, and leaves the cursors as they are: COMMIT is `Post`, PUBLISH is
`Hear`, the UPDATE of the cursor `Advance`, a receipt `Receipt`, all else
stutters. That INSERT is a stutter needs `IdsGiven`.

*Accounts and files.* `OwnSessions` follows from `Proved`: a request that is
about to start a session has found an account with the email and the password
it named. For a registration that is `MadeAccount`: between its INSERT and its
SELECT the account with its email is its own, because emails are unique
(`Unique`) and no account changes hands. `OwnDemo` says that two demo log ins
never share an account. `AvatarThere` needs `OwnPhoto`: a photo, the one a row
names and the one an edit has read, was set by an edit of the same user whose
UPDATE took effect. So a request at its UPDATE still has its own file, on the disk
of its own instance, and the photo that an edit removes is not one that another
edit is about to set, whichever instances serve the two.
`StepInv` ties what a request can have done to where it is.

*Lists.* `PageInv` says that the cursor is where the rendered pages end, that
every owed row above it is shown, and that a page on its way leaves out only
rows older than all of its own, and those only if it is full. For conversations
it says so while `byId` holds.

*Pages.* What a page takes is `FirstOf`, a set of rows given by a count; the lemmas of
`RowsProofs` say what follows from it: a row that is left out is older than
all that are taken, and a page that is short has all of them. `ThreadInv` ties the
list to the boundaries its loads were sent with: a paged row is not below the
cursor, nor below the `before` of a request for older ones, and the rows on
their way are below it, so that no load brings a row again (`PagesInv`).
`PushesInv` counts the ways a message can still be received (`Times`). `ReadInv`
follows the last id of a cache into marks and cursors: each names a message
that was put into a list. A thread that was opened with no load under way
(`Plain`) has, until that load is rendered, only messages of its own, and the
load leaves out only rows that are older than all of its own (`OwnInv`, `OwedInv`). `SheetInv` is
built in the same way for comments, with `LeftOut` for what a page has not
taken. `HeartInv` follows each toggle: what its statement did and what its answer
will say agree, and a request that is still `alone` is the only one
(`Single`), so that the like can have changed by it alone. For `KeepsLog` the page is one member
and everybody else the other: what was pushed to the page is what it has heard,
and a mark on its way names a message of its conversation that is stored
(`MarksAhead`), so that `GREATEST` makes it an `Advance` or a stutter.
`TimerSetOrStuck` is inductive with what `failed` says of the timer (`TimerInv`).

Only model-checked: liveness (`OfflineHeals`, `OnlineHeals`, `EveryTabGetsIt`,
`AllAnswered`, `Reconnects`), for which the provers at hand have no support:
fairness speaks of ENABLED. What is proved of each is its safety half, for all
values of the constants: what can undo the progress made, or what keeps a wait
from closing into a circle.

| liveness | the safety half that is proved |
|---|---|
| `OfflineHeals` | `OnlyStaleBeatsRenew` |
| `OnlineHeals` | `OnlyOthersTakeIt` |
| `EveryTabGetsIt` | `NothingSkipped` |
| `AllAnswered` | `NoCircle` |
| `Reconnects` | `TimerSetOrStuck`, `StuckForGood` |

The violations are counterexamples and need no proof. `HubInv`, `MsgInv`,
`PageInv`, `KeyHeld` and the other inductive invariants are proved and not
listed in the runs; the properties of the runs are what follows from them.

## 5. What is not modelled

- `CreateGroupConversation` is one transaction of inserts that reads nothing;
  reads that only format rows (profiles, a single video) have nothing to go
  wrong between two steps. The counter of views is one UPDATE.
- Of the pages: the video player, presence and Seen labels, unread badges, the order in which
  `receiveMessage` puts the conversations, and the layout of a thread, which is
  a bag of messages in `ChatPage`.
- Text, titles, time stamps and addresses are data no property tells apart.
- The HTTP server, routing, templates, the logger and the configuration.

Left to do: `DirectMessages` has a run that shows the duplicate and no theorem yet
about what is kept; `ConnectedIsOnline` and `OnlyOthersTakeIt` are proved with the
hypothesis that SETs work, since a failed SET makes them false until the next
heartbeat.
