# A formal model of the X backend

TLA+ modules, TLC model-checking runs and TLAPS proofs for the NestJS backend in
`src/src`: a Twitter/X clone on Postgres (TypeORM), Redis, MongoDB,
Elasticsearch, Bull queues and socket.io.

The code is a set of request handlers, socket events and queue jobs that share
four stores. Few of them lock anything: a Postgres transaction is READ
COMMITTED, a Redis handler is a sequence of separate commands, and most chat
handlers are a sequence of separate statements. What can go wrong is therefore
mostly one handler deciding on what it read while another one writes, and that
is what these modules are about.

## 1. Inventory

| Part | State | Operations | Interacts with |
|---|---|---|---|
| Tweets and engagement (`tweets/`) | `tweets` with five `num_*` counters, `tweet_likes`, `tweet_bookmarks`, `tweet_reposts`, `tweet_replies`, `tweet_quotes`, summaries, the deletion log | create, reply, quote, like, bookmark, repost and their undo, edit, delete (with a cascading trigger), delete all of a user | queues index, notification, hashtag and summary jobs; Groq for topics; Azure for media |
| Chats and messages (`messages/`, `chat/`, `gateway/`) | `chats` (last message, two unread counters), `messages`, the sockets of each user and the socket.io rooms | connect, disconnect, open a chat, join, leave, send, mark as read, edit, delete, react, type | notifications (message events), the cipher of `shared/services/encryption` |
| Sessions (`auth/`, `redis/`) | Redis `refresh:<jti>`, `user:<id>:refreshTokens`, `oauth:exchange:<id>`, `deleted_user:<id>`; the user row | log in, refresh, log out, log out everywhere, exchange a code, delete the account | every login path; account deletion in `user/` |
| Sign-up and verification (`auth/`, `verification/`) | Redis `signup:session:<email>`, `otp:<type>:<id>`, e-mail change sessions, OAuth completion sessions | three sign-up steps, OTP generation and validation, not-me link, password reset, e-mail change | e-mail queue, user rows |
| Sign-in by Google, Facebook and GitHub (`auth/strategies/`, `auth/`) | the providers' ids and the picture in the user row, Redis `oauth:session:<email>` | five ways to come from a provider, look up by id and by address, link, start a session, complete it in two steps | the profile, e-mail change and deletion of the same row, sessions |
| Social graph (`user/`) | `user_follows`, `user_blocks`, `user_mutes` | follow, unfollow, remove follower, block, unblock, mute, unmute | search index (follow jobs), notifications |
| Profiles (`user/`, `azure-storage/`) | the row of a user in Postgres, with two columns that say how many follow and are followed, the pictures in Azure | edit, change the language or the user name, upload and delete pictures, delete the account | search index (what documents say of an author), sessions |
| Search index (`background-jobs/elasticsearch/`, `elasticsearch/`, `search/`) | the tweet and user documents, the deletion log in Postgres | index, delete, update user, delete user, follow jobs; the cron that replays the deletion log | reads Postgres when a job runs, three attempts per job |
| Notifications (`notifications/`, `background-jobs/notifications/`) | one Mongo document per user: at most 50 entries and a count of new ones | add (with aggregation), remove, clear, mark as seen, push | queue jobs of likes, replies, quotes, reposts, follows, mentions, messages |
| Trends, hashtags, fake trends (`trend/`, `background-jobs/hashtag/`) | `hashtag` with usage counts, `tweet_hashtags`; Redis sorted sets of candidates, counts per bucket and trends | note and count the hashtags of a post, calculate, insert and delete fake trends | posts and deletions of tweets, a trigger, the hashtag queue |
| Timeline (`timeline/`) | a Redis list of tweets per user and a position in Postgres | read a page, fill, refill, trim, clean | tweets, blocks and mutes; the timeline queue |
| Explore, who to follow (`explore/`) | Redis sorted sets per category | read a page, recompute | read-only on tweets and follows |
| Paginated lists (`shared/services/pagination/` and every list of `tweets/`, `user/`, `messages/`, `chat/`, `search/`) | none: a cursor, or a page number, that the client sends back | read the next page | the rows, which change meanwhile |
| Media, AI, e-mail, push | none of their own | upload, transcode, summarise, send | external services |
| Configuration, seeding, encryption | none | start-up data, cipher | |

### What is hard

* *Decisions on earlier reads.* `deleteRepost`, `deleteTweet`, `replyToTweet` and
  `updateTweet` read, then write what they concluded; the room check of
  `send_message` is used two statements later; `markMessagesAsRead` counts and
  then stores the count; `refresh` and the exchange token read a key and delete
  it with a second command and never ask how many keys went.
* *Denormalised values.* Five counters per tweet, two unread counters and a last
  message per chat, the follower counts of the documents, the notification badge, the search index.
* *Partial failure.* A chat handler or a Redis handler that stops half-way leaves
  what it has written; the purge of an account touches counters of nobody.
* *Cascades.* The deletion of a tweet takes a tree of replies and quotes with it,
  through foreign keys and a trigger that fires on its own deletes.
* *Retries.* A job is attempted three times, and some jobs change what they read.

* *Lists under a reader.* A position, an offset or a cursor points into a list that
  fills, shrinks and is reordered between two requests.
* *Codes and the things they confirm.* A code, the session it belongs to and the
  address it was mailed to are separate keys of Redis.

`PROJECT.json` lists these hazards one by one, each at its line, with the
properties that cover it.

## 2. The modules

| Module | What it is |
|---|---|
| `TweetEngagement`, `MCTweetEngagement` | tweets, engagement rows, links and counters; instance for TLC |
| `ChatMessages` | the rows and counters of one chat of two users |
| `ChatEvents` | how that chat comes to be, its reactions, and what the two are told of it |
| `Chat`, `ChatProofs`, `MCChatMessages` | both together, `ChatEvents` as its instance `Tell`; theorems; instance for TLC |
| `TokenLifecycle` | what a store of credentials promises (abstract) |
| `RefreshTokens` | the sessions of one account in Redis; implements `TokenLifecycle` |
| `Accounts` | sign-up, OAuth completion, change of an address, reset of a password |
| `Auth`, `AuthProofs`, `MCAccounts` | `RefreshTokens` with `Accounts`, its instance `Addresses`; theorems, that of the refinement among them; instance for TLC |
| `SearchIndex` | how the search index follows the tweets table |
| `TweetStore`, `TweetProofs`, `MCSearchIndex` | both together, `SearchIndex` as its instance `Index`; theorems; instance for TLC of the index |
| `NotificationInbox`, `MCNotificationInbox` | the notifications document of one user under its queue jobs; instance |
| `NotificationFeed` | what sockets and device are told while the document changes |
| `NotificationList` | what a request shows of the document |
| `Notifications`, `NotificationsProofs`, `MCNotificationFeed` | the three together, the last two as the instances `Feed` and `Lists`; theorems about each; instance for TLC of these two |
| `SocialGraph` | follows, blocks and the end of an account |
| `Profiles` | the row of an account, its pictures, and what the documents say of the author |
| `SignIns` | the users of Google, Facebook and GitHub, the accounts they are linked to and the sessions from which one is completed |
| `Members`, `SocialGraphProofs`, `MCSocialGraph` | the three together, `Profiles` and `SignIns` as its instances `Profile` and `SignIn`; theorems; instance for TLC |
| `TimelineQueue`, `TimelineQueueProofs`, `MCTimelineQueue` | the for-you list of one user; theorems; instance |
| `Trends`, `TrendsProofs`, `MCTrends` | hashtags, their counts and the trends calculated from them; theorems; instance |
| `Pages`, `MCPages` | the lists that are read page by page; instance |
| `ExploreLists` | the best tweets of a category and the job that recomputes them |
| `WhoToFollow` | whom a user is advised to follow |
| `Reading` | what search, timelines, profiles and threads show of a conversation |
| `Browsing`, `BrowsingProofs`, `MCExplore` | `Pages` with these three, its instances `Explored`, `Advice` and `Readers`; theorems; instance for TLC of the three |

An MC module that is the instance of several modules explores each of them alone (its variable `part` says which one moves): they share no
state (feed and list meet in the document only, which the list takes as it finds it), and a run for each would ask the same questions.

Conventions. A request is a constant that runs one handler, once; `task[r]` holds
what the running handler of `r` has read (its local variables), and `served` the
requests that are done. `Abort` is a failed statement or a stop of the process:
what was written stays written, or is rolled back where a transaction is open.
Variables commented *history* are not in the code: they only record what has
happened, so that a property can say "except where this race has hit", and no
guard and no state of the code reads them (but see `stray` under
`RefreshTokens`). An operator commented *Mutant of X* is `X` with a plausible bug;
no specification uses it, and the property named beside it in `PROJECT.json` fails
when it takes the place of `X`.

### TweetEngagement

The rows of `tweets` (`live`, `author`, `kind`), of `tweet_replies` and
`tweet_quotes` (`parent`, `conv`), of the three engagement tables (sets of users
per tweet) and the columns `num_*` (`num`).

A handler whose decision the database re-checks when it writes (a unique key, a
foreign key, the affected-row count it looks at) is one action, its commit:
`CreateTweet`, `RepostTweetWithQuote`, `LikeTweet`, `UnlikeTweet`,
`BookmarkTweet`, `UnbookmarkTweet`, `RepostTweet`. A handler that writes what it
concluded from an earlier read is two actions, and any commit may fall between
them: `DeleteRepostFind/Commit`, `DeleteTweetFind/Commit`, `ReplyFind/Commit`,
`UpdateFind` with `UpdateSave` or, when the row is gone, `UpdateReinsert` (TypeORM
inserts the entity again). `PurgeUser` is the database side of the `DELETE_USER`
job.

`Cascade(S)` is what goes when the tweets of `S` are deleted: the least set closed
under replies and quotes. It is atomic with respect to concurrent replies: the
`BEFORE DELETE` trigger runs after the row lock is taken, which waits for the share
lock a reply takes on its parent through the foreign key, and each query of the
trigger has a fresh READ COMMITTED snapshot.

`skewed` marks tweets whose counters a stale save or a purge has separated from
their rows, `raced` those decremented for a row that was gone already. Counters are
abstracted to integers of unbounded width: the columns are 32-bit and a tweet would
need two thousand million likes.

| Property | Says |
|---|---|
| `CountersExact` | all five counters of an unmarked tweet are the numbers of its rows |
| `RacesOnlyUnderstate` | doubled undos only lose counts; nothing but a stale save or a purge overstates |
| `NoOrphans` | nothing outlives the tweet or the account it refers to |
| `ConversationInherited` | a reply carries the conversation of the tweet it answers, although it read it earlier (proved, not in the run) |

### ChatMessages

The rows of one chat: message ids `1..sent` in `created_at` order with their sender,
`read` (`is_read`), `deleted` (`is_deleted`) and `blank` (the content is the plain text
that replaces a deleted message; any other content is cipher text); `last` and `unread`
of the chat row; `online` sockets and the `room`. No handler of a chat opens a
transaction, so each statement is an action: `JoinReset`, `JoinRoom`;
`SendCheck`, `SendSave`, `SendLink`, `SendCount`; `MarkRead`, `MarkRecount`,
`MarkStore`; `Validate` with `UpdateWrite` or `DeleteWrite`.

`contested` marks messages that were deleted while an edit of them had been validated, or edited
while a deletion had. `zeroed` records which unread messages a join took off the counter without marking
them read; `blurred` the users whose counter an overlapping mark or a stop has
spoiled, until a mark or join that nothing overlaps repairs it; `linked` and `older`
which messages had been the last one when a message was saved.

| Property | Says |
|---|---|
| `UnreadExact` | counter plus increments under way = unread messages since the last join, for users that are not `blurred` |
| `MessagesSound` | the chat never goes back to a message that had been the last before the current one was saved (`LastNeverGoesBack`); what is not deleted never shows the text of a deletion, what is deleted does, unless `contested` (`TextFits`) |

### ChatEvents

The same chat as its participants see it. `opener` are the rows of chats of the pair, `connected` and `inside` the sockets and
the room, `author`, `content`, `gone` and `react` the rows, `told` and `toldReact` the last event about each message and
reaction, `alerted` and `received` which messages reached a device, the list of notifications or a socket. A handler looks
(`OpenLook`, `SendLook`, `ChangeLook`, `ReactLook`), writes (`OpenInsert`, `SendSave`, `EditWrite`, `DeleteWrite`, `ReactSave`,
`ReactDelete`) and emits when the answer of its last statement has arrived (`SendAlert`, `SendEmit`, `ChangeEmit`,
`ReactEmit`): the answers of two handlers may overtake each other. Over HTTP nothing is emitted. `twice`, `off`
and `slipped` are history: two chats opened at once, subjects of which two changes have overlapped (or one came over HTTP), and
messages whose recipient came or went during the send.

| Property | Says |
|---|---|
| `OneChat` | two users have one chat, unless both asked for it at once (no unique key) |
| `Announced` | a message reached its recipient on a socket, a device or in the notifications, unless `slipped` |
| `EventsTell` | who follows the events shows the content, the deletions and the reactions that the next reading would show, unless `off` |

### RefreshTokens

One account's keys in Redis. `keys` are the `refresh:` and `oauth:exchange:` keys that
exist, `listed` the set `user:<id>:refreshTokens`, `fading` whether that set has a time
to live, `held` what clients have been given. Redis runs one command at a time, no
handler uses `MULTI`, so each awaited command is an action; a pipeline, and the
deletions `Promise.all` starts together, go out in one write of the process's one
connection and are one action. The signature of a JWT is enough to log out with a
token whose key is gone, so `LogoutDelete` and `LogoutAllRead` do not look at `keys`.

`Expire` ends a key; the guard says that a key lives for minutes or days, so that no
handler that is still issuing it sees it go. `ListExpires` ends the set: its time to live is
renewed by every issue, after the `SADD`, so that it can only lose tokens whose own
`EXPIRE` has not been sent. The history variable `stray` collects the live tokens the
set has lost; `Expire` reads it because a lost token need not have been handed out.

| Property | Says |
|---|---|
| `LiveTokensAreListed` | every live session is in the set, or about to be, or recorded as lost |
| `RevokedStaysRevoked` | what was used, logged out or revoked never works again, unless lost |
| `LiveUntilRevoked` | nobody is logged out by what happens to other sessions (proved, not in the run) |
| `ClosedForGood` | a deleted account with nothing live and nobody issuing never gets a session (proved, not in the run) |
| `FollowsLifecycle` | refinement: each credential is granted once, and dead for good when it ends |

Two redeemers of one refresh token or one exchange code may both succeed (each reads
before either deletes): the model has that behaviour, and `FollowsLifecycle` and
`RevokedStaysRevoked` state what still holds, namely that no third redemption comes
after the deletion.

### SearchIndex

Per tweet, `row` is the version of its row (0: none) and `doc` the version its document
shows; `docParent` are the documents that know their parent. A version counts the changes
that are announced to the index (edits, likes, reposts); views, and the counts replies and
quotes change, are never announced and ride along with the next announced change. The link
to the parent is a constant, as a tweet keeps it for life. `log` is `deleted_tweets_log`,
which the trigger fills with every deleted row, `cron` the run of `processDeletedTweets` under
way, `job` the Bull queue, `task` the handlers that have committed and not yet queued.

A handler commits (`InsertTweet`, `ChangeTweet`, `DeleteTweet`) and then queues (`QueueJob`) or
does not (`Abort`: `queueJob` swallows the error); `deleteRepost` queues first. Index jobs are two
or three steps (`IndexRead`, `IndexGet` for a reply or quote whose `parent_id` the job was not
given, `IndexWrite`). `JobFails` ends an attempt anywhere, the last one for good; a retry starts from the data of the job and has
forgotten what the attempt had read, of the row and of the old document alike. Jobs overlap and
run in any order: Bull runs one worker per `@Process` of the queue, any of which takes any job,
and a retry comes after a delay. `astray` is history: tweets for which a failure (a job not
queued, given up, an item of a bulk request refused) or a race (an older row written last,
a deleted row written after its document was removed, a parent lost, the early job of
`deleteRepost`) is on record and no later job has put the document right.

| Property | Says |
|---|---|
| `IndexCaughtUp` | with nothing under way and nothing on record, the document shows the row, parent included, or is gone |
| `IndexFollows` | the documents of deleted tweets go, cascaded replies and quotes included (`DeletedLeavesIndex`), and an announced change shows in the document, or the tweet is deleted, or something is on record (`ChangesReachIndex`); liveness |

Fairness: a handler that has begun goes on or fails (the event loop runs its continuation, or
the process stops); every attempt of a job ends (a worker is free sooner or later, and Bull
re-runs stalled jobs); the cron runs every minute, and not every run of it fails at the same
statement (strong fairness of `CronQueue` and `CronDelete`). The last one is an assumption about the
databases: with one of them down for good, log rows stay, and after a week the daily
`cleanupOldEntries` drops them, which is why that cron is not in the model. Nothing is assumed of
the clients.

### NotificationInbox

`box` is the array `notifications` of one user's Mongo document, `job` the notification queue with
what each running job has read (`shown`, the date it stamps and its `one_day_ago`), `facts` the
likes, reposts, follows, replies, quotes and mentions of this user that are rows of Postgres, and
`gone` the deleted tweets, posts and users. `Announce`, `Undo`, `DeletePost` and `DeleteMention` are what
users do, with the job that it queues; `Abandon` is the removal that `deleteRepost` and `deleteTweet`
queue before a commit that then fails or finds the row deleted; `RemoveFollower`, `DeleteTweet` and
`DeleteUser` change rows and queue nothing; `View` queues a clear job for what
`getUserNotifications` misses.

A job is its statements. An add job reads and decides (`ReadAdd`, with `Aim` as
`tryAggregateNotification`), then updates (`JoinTweet`, `JoinPerson`), or pushes (`Push`) when it found nothing
to join then or after the update, and sends (`Send`, which may find something missing and queue a
clear job). A removal reads and decides (`ReadRemove`, `PullFrom`), pulls the entry, the person or the tweet, and
sweeps empty entries (`Sweep`). A clear job is one update (`ClearTweet`) or five (`ClearUser`). A
single update of a Mongo document is atomic; an update's array filter sees the document as it is then, not as
it was read, and that difference is what the module is about. `Fail` ends an attempt anywhere, what was
written stays, and the job starts again.

Abstractions. The array is a set of entries and `findIndex` an arbitrary match. Equal entries (same type,
tweets, people and day) are therefore one; every update treats them alike, but the slice of the code
counts them separately, so that it may cut earlier than the model does; the properties about what
is kept claim nothing after a cut. Dates are days; `horizon` is the first
day that is within 24 hours, and moves by itself. One clear job has one id: a job with more is
the same statements for each. A job that could not be queued is a change of rows
without a job; rows are read by no job except for what is gone. Left out: `newest_count`, which
is incremented with a push or by a statement after a join and reset by the reader, and on which nothing depends; message notifications; the parent tweet of a mention; the handlers of sockets and devices.

`cut`, `clashed` and `scattered` are history: whether the slice has dropped an entry, the types of
which two jobs overlapped, ran out of order, or failed, and those of which a job has joined several entries, or
none of those it had found.

| Property | Says |
|---|---|
| `TypesDoNotMix` | an entry gathers people about one tweet or tweets of one person, never both, whatever overlaps (proved, not in the run) |
| `OnlyWhatHappened` | whoever an entry shows with a tweet did it to that tweet |
| `KeptUntilRetracted` | follows, replies, quotes and mentions stay until retracted or cleared, whatever overlaps |
| `ExactWhenQuiet` | likes and reposts stay too (`KeptWhenQuiet`), and what was undone within the day is named no longer (`GoneWhenQuiet`), by jobs of their type that kept to themselves and, for the first, joined one entry each |

### NotificationFeed

The entries again, with an id each, and who hears of them. A job gathers or pushes (`Gather`, `Push`), reads what it will tell (`Fetch`)
and sends (`Send`) to the sockets if the owner counts as online, else to the device. One job is about all whom a tweet mentions: when it fails at one of the
others it runs again for the owner too (`Rerun`); a removal (`Remove`) is told afterwards (`Tell`). Telling and the end of the job are two steps (`Send`, `Complete`): when the
process dies in between (`Crash`), it takes its connections with it, and Bull finds the job stalled and runs it again, although it has told. The runs of a job are bounded by
`Tries`, whether it failed or stalled. A push counts as heard when it is made, whether or not it arrives.
A connection joins the room, waits for the count to be read, and is then registered (`Connect`, `Register`): one that was
closed in between is registered all the same and never taken out (`"ghost"`). `Clear` tells nobody. `spared`, `repeats` and
`hushed` are history: users who have not been blocked all the time, how often a job that had told was run again, and entries that went without a word.

| Property | Says |
|---|---|
| `LastWord` | a connection that was told of an entry is told of its removal, unless `hushed` or overtaken |
| `HeardOnce` | an event is heard once, on the sockets or the device, and once more only for every time that its job was run again after it had told (the process died before the job was completed; or one of the others whom a tweet mentions failed); a job that has told was heard, unless a ghost makes the owner look online; what the blocked write is not heard |

### NotificationList

A request reads the document, the people and the tweets it names (`Load`, `FetchUsers`, `FetchTweets`), while others delete and the owner
blocks, keeps what is left of each entry, takes equal ones together (`Deduplicated`), cuts a page and filters it (`Show`);
what was missing is queued to be cleared (`due`).

| Property | Says |
|---|---|
| `ListFaithful` | what is there is listed, whatever else its entry names is gone (`AllListed`); nothing of who is blocked all the time, no two entries that say the same, and only what is gone is cleared (`ListedRightly`) |

### Accounts

Redis holds, per address, the session of a sign-up (`session`) and of an OAuth completion
(`oauth`), per purpose and owner the last code (`otp`), and the address a user has asked to
change to (`target`); Postgres the rows (`account`). `mail` is where each code was sent, which
only the owner of the mailbox reads. A request is a handler with what it has read (`req`):
reads before the first write are taken together, every awaited write is an action, and
`Stop` ends a request anywhere. `Expire` actions end keys. `spent` is history: which codes were
accepted and with which details at hand; `raced` are the users whose request for a new address
overlapped another one, `disowned` and `undone` the sign-ups a not-me link ended, and those of
them that a step 2 under way has written back.

| Property | Says |
|---|---|
| `OwnersOnly` | an account that was signed up has the address and the details for which a mailed code was accepted (`SignedUpByCode`); a code that confirmed a new address was mailed to it, unless two requests for one user overlapped (`ChangedToConfirmed`); a password is reset only by a code that was mailed for this user and accepted (`ResetByOwner`) |
| `NotMeHolds` | a sign-up ended by a not-me link stays ended, but for a step 2 that was under way |

### SocialGraph

`follows` and `blocks` are the rows, `state` whether a user's row is there, has `deleted_at`, or is
gone. A request checks (`Follow`, `Block`) and then writes; a block is its three statements (`DeleteFirst`, `DeleteSecond`, `Commit`), each of which sees what
is committed when it runs, because the transaction is READ COMMITTED, and waits for rows that another one has deleted (`Locked`). An unfollow and the removal
of a follower are one statement. `DeleteAuthor` is the `DELETE_USER` job as far as it concerns the graph: the foreign keys take the rows of a user. `crossed` records a follow checked before a block
was committed and inserted after the block had deleted the follows. The numbers of followers that documents show are not
computed from these rows, so that they are in `Profiles`.

What a viewer is shown of others reads the same rows: an item of a list of users or of a profile (`ListItem`, `Lookup`), the mutual followers
of a profile, which is a join of follows that asks neither who has left nor who is blocked (`MutualFollowers`), and what a search for users finds (`SearchUsers`).

| Property | Says |
|---|---|
| `BlockedDoNotFollow` | a block and a follow exclude each other, except for what is `crossed`: in the rows, in the lists of users, among the mutual followers of a profile, and in a search for users, which hides nobody whom one follows |

### Profiles

`account` and `value` are the row of one user, `files` the two containers, `posted` and `shown` the user's tweet and what its document says
of the author: the fields of `Own`, and the numbers of `Counts`. An edit reads the row (`UpdateUser`, `ChangeLanguage`), changes its copy and saves all of it; `save` of TypeORM selects the row once more, those
of deleted users too (`Load`), and updates the columns that differ, `deleted_at` among them, or inserts the row when there was none (`Save`). Then the old pictures go
(`DropOld`) and the job is queued (`QueueUpdate`). `UpdateUsername` is an update of one column, of which no job tells. A deletion is `SoftDelete`, the
pictures and a job. Jobs read and write (`ReadUser`, `WriteUser`; `ReadTweet`, `WriteTweet`; `ReadCount`, `WriteCount`; `DeleteRow`, `DeleteDocs`), overlap, and are attempted again.
The numbers of followers and followed are columns of the row which no request of the repository writes. The jobs that index a tweet or update its author write both, a follow job one of
them for each of the two users (the account may be either), and the end of the account of a follower or of a followed user lowers what the document says (`Decrement`).
An edit names a picture that is in the storage, as the client uploads it first; whether a user name is taken is left out.

`raced` records the fields that were given a value while another request was between its read and its write, or whose row another one had changed; `used` and `spent` which files an edit
has given, and which were given twice or removed by their owner; `over` whether the account was deleted, and across an edit; `lapsed` the fields of
which no job has told the index, and the numbers that a neighbour's end has lowered since a job wrote them.

| Property | Says |
|---|---|
| `ProfileSound` | a field keeps what it was last given, unless `raced` (`EditsKept`); a picture of the profile is in the storage, unless `spent` (`PicturesThere`); a deleted account stays deleted, unless an edit was under way (`StaysDeleted`); and when every edit has been told, the document says of the author what the row does, and of the numbers at any time what their columns do, unless `lapsed` (`AuthorShown`) |

### SignIns

`member` are the rows of the user table with their address, a picture and one id per provider, `started` the completion sessions by address. A request comes from a provider
with a user and an address it reports (`Google`, `Facebook`, `GitHub`, `MobileGoogle`, `MobileGitHub`), which may be another one each time; looks the user up
by the id (`FindById`) and then by the address (`FindByMail`), updates the account that it has found by its key (`Link`), and is answered with tokens (`Answer`) or a session
(`StoreSession`). `Step1` and `Date`, `Step2`, `Insert` and `Forget` complete an account from it. Meanwhile accounts are signed up, change their address (`ChangeMail`), are edited by a save
of the row that was read (`Edit`, `Save`), and go (`Leave`, `DeleteRow`). The unique key on addresses is the only one: it counts accounts that are marked as
deleted, a lookup does not, and the ids of a provider have none.

`proven` and `had` record which addresses a provider has reported of its user and an account has had, `signed` who was let in where, `crossed` the provider's users
who were on one account while something under way was about to put them on another one (a link, an edit that has read the row, a session of another address), `chosen` the picture an account was last
given by its owner, and `hasty` the accounts that were given it between the lookup and the update of a link.

| Property | Says |
|---|---|
| `SignInsSound` | a provider's user is linked to, and let into, accounts only that have had an address the provider has reported of that user (`LinkedByMail`); is on one account, unless `crossed` (`OneAccount`); and a link leaves the picture of the owner, unless `hasty` (`PictureKept`) |

`LinkedByMail` says *has had*: an account that has moved to another address between the lookup and the update, or an hour after a session was made, is linked all the same.

### TimelineQueue

The list in Redis (`queue`), the position in Postgres (`cursor`), what the user likes, refuses and what has
grown old; requests that read the position, fetch, save the position and answer; the jobs that initialise,
refill, trim (`Size`, then `Trim`) and clean. Nothing is taken off the list by reading it. What is taken
off its front shifts everything else under the position: `shifted` records it, `starved` that a filling was lost
or came to nothing, `flooded` that a first filling came on top of something or a trim was lost.

| Property | Says |
|---|---|
| `NothingSkipped` | what lies before the position was answered or is about to be, unless `shifted` |
| `TooLongForNow` | a list above its bound has a trim on its way, unless `flooded` |
| `StuckForAReason` | a reader is at the end for good only after `starved` or `shifted` |

`LREM` with a count of one takes the first entry of a tweet off, so that a clean-up that has read an entry twice takes two:
`WithoutAll` keeps the entries that are not among the first so many of their tweet.

### Trends

`rows`, `links` and `usage` are tweets, `tweet_hashtags` and `hashtag.usage_count` (0: no row). A post
locks the rows of its hashtags in the order of its text (`Upsert`, one row at a time, waiting for the
holder), a deletion in any order (`Decrement`, the trigger), and both commit at once (`CommitPost`,
`CommitDelete`). An edit queues the hashtags of its new text for the trends, but its save (`SaveEdit`) leaves `links` and `usage`
alone; when the tweet was deleted meanwhile it inserts the row again, without associations (`revived`). The job about the hashtags is queued before the commit, so that a refused post is
counted all the same. A job notes the candidates, the categories and then counts one hashtag after the
other; `Fail` starts it again. A calculation reads the active candidates, then writes list after list.
What a reader is shown of a list is `GetTrending`: the hashtags that have a row, their counts and the categories to choose from.

| Property | Says |
|---|---|
| `UsageExact` | usage counts are the tweets with the hashtag; a tweet has the hashtags of the text it was posted with, whatever edits there were and whichever unused hashtags were removed, and none if an edit has put it back |
| `CountsExact` | a hashtag is counted once per job, but for a failed attempt that had counted it |
| `ListedWasActive` | a list shows what was active for the calculation that wrote it, a category what is a candidate of it |

Postgres would end a deadlock of two posts with opposite orders by aborting one; `Stop` is that abort.

### Pages

One client reads one list to its end while its rows change. A list is a record of what its handler
does (`order`, `exact`, `more`, `next`, `needs`, `joined`, `caught`); 22 of them are defined from their handlers, and what a query
filters by and shows of a row is left out: a row comes, goes or moves. `Fetch` is a page after a cursor,
`FetchPage` a page by its number. Two answers end a list before its end: a page of messages that came short (`FetchJoined`:
the query takes rows of the join with the reactions, a message has one for each time of its reactions, and fewer messages than asked for mean no more), and a page
of a search that failed (`CaughtError`); `left` records what was beyond. A cursor is a time in milliseconds and an id, the rows are sorted by
microseconds and id. `cuts` records where pages ended, `shifts` what came and went, `steady` the rows that
have been in the list all the time.

| Property | Says |
|---|---|
| `NoneMissed` | who reads to the end has seen every steady row, but for one of the millisecond in which a page was cut, by page number when something above it went, or one that such an answer `left` out |
| `NoneTwice` | no steady row is shown twice, but for one of the millisecond of a cut, or, by page number, when something above it came |
| `WalkEnds` | who goes on gets to the end |
| `RepliesReached` | the replies are all reached; **violated**: there is no cursor while there is more |

Messages and replies have no tie-breaker in their order (`"none"`); the cursor orders them by id all the
same. The id of a repost in the following timeline contains the separator of the cursor, so that
the cursor carries its first half; rows are still told apart by it, but for two reposts of one tweet in the same
millisecond.

### ExploreLists

`list` is the sorted set of one category, `score` what the calculation makes of each tweet now, `recent` the tweets of the job's
window, latest change first. The job reads and rescores the top (`ReadTop`, `FetchTop`, `WriteTop`, `TrimTop`), counts the window and
goes through it by offsets (`Count`, `FetchPage`, `UpdateScores`, `TrimPage`), while tweets are touched, deleted and leave the window.
The errors of a pipeline's commands are results nobody reads (`PipelineLost`), a page that throws is passed over
(`PageFails`), anything else starts the job again (`JobFails`). The window of one hour is the period of the cron, so that a late job
leaves a gap; the percentage of a category is looked up by a number among string keys, so that the code always
finds 100 (`Percent` leaves it open).

| Property | Says |
|---|---|
| `ListsSound` | after a job the list holds only what the job has scored (`NothingStale`), is not too long, and leaves out nothing for a worse tweet (`BestListed`), unless something failed or a page has `lowered` a score |
| `MissesOnePerMove` | the pages miss at most one untouched tweet per tweet that moves |

### WhoToFollow

Five queries, each at its own moment (`Query`), merged by quotas (`Combined`; their sum for 30 places is 31), read (`Load`) and filled up with the most
followed users (`Fill`), of whom nobody asks whether they are the reader, followed or blocked. A list of entries is the set of them: where the code cuts
one, `Firsts` takes those with the fewest before them, in the order of a source (`Earlier`), by score (`Better`) or of the result (`Sooner`; all sorts are stable).

| Property | Says |
|---|---|
| `AdviceSound` | nobody is recommended twice but whom two sources offer beyond their quotas (`TwiceOnlyBeyondQuotas`), and only who was a stranger at some time of the request (`StrangersOnly`) |

### Reading

A conversation (`shape`), and the rows, documents, likes, follows, blocks and mutes of the `world`, of which a reader is shown an `answer` by the timeline
of followed users, the tabs of a profile, threads, tweets by ids (one query each) and the search (hits, then what they refer to,
then the reader's flags). `past` is what the world has been since the request began. Conversations are `Given` as the tables keep them: a reply
knows what it answers and where its conversation began, a quote what it quotes. What is above a tweet (`Above`, a recursive query) is the least set that holds
its parent and theirs.

| Property | Says |
|---|---|
| `SilencedHidden` | who is blocked or muted all the time is hidden, where the code asks at all |
| `FoundWhole` | what matches is found (`MatchesFound`) and comes with what it answers or quotes (`ShownWhole`), unless one bare hit empties the whole answer |
| `FlagsAgree` | liked and following are shown if they are true, except where the flags get lost |

## 3. The runs

| Run | Bounds | Distinct states | Result |
|---|---|---|---|
| `tweet_engagement` | 2 users, 3 tweets (1 posted before), 4 requests | 197,745 | 3 invariants hold |
| `chat_messages` | 2 users, 1 socket each, 4 handlers, 2 at a time, 2 messages (of the events: 1 message, 2 chats, 2 emojis) | 454,251 (symmetry) | 5 invariants hold |
| `search_index` | a tweet and a reply to it, 2 handlers besides the tweet posted before, 2 places in the queue, 2 attempts (3 in the code), 3 versions | 18,514 | an invariant and a liveness property hold |
| `notification_inbox` | likes of 2 tweets by 2 people and a reply, or 2 follows, a mention and a repost; 3 jobs of 2 attempts, 2 entries, 2 days | 442,585 (symmetry) | 3 invariants hold |
| `accounts` | 1 sign-up with 2 sets of details, 2 users who move between 3 addresses, 2 requests, 2 codes; and 3 tokens, 1 exchange code, 4 handlers | 647,438 (symmetry) | 4 invariants and a refinement hold |
| `social_graph` | 2 users who follow and block each other and a third who follows and leaves, 2 requests; and a profile with 2 values, 2 avatars and a cover, 2 requests, 2 jobs of 1 attempt; and a user of each of 3 providers, 2 accounts, 2 addresses, 2 pictures, 2 requests | 255,482 (symmetry) | 3 invariants hold |
| `timeline_queue` | 3 tweets, 2 requests, 2 jobs of 2 attempts, list of 2 | 926,151 (symmetry) | 3 invariants hold |
| `trends` | 2 hashtags, 3 tweets, 2 requests, 2 jobs of 2 attempts, 2 calculations | 418,086 (symmetry) | 3 invariants hold |
| `pages` | 4 rows, 3 times of which 2 of one millisecond, pages of 2, 2 changes | 716,528 | 2 invariants and a liveness property hold |
| `explore` | 3 tweets, a list of 1, pages of 1, 2 changes; 3 users known to up to 3 sources; a conversation of 3 tweets and a repost in 3 shapes, 1 change | 1,457,097 (symmetry) | 6 invariants hold |
| `notification_feed` | 2 tweets, 2 actors, 6 events, 3 jobs of 2 attempts, 2 connections; and documents of any 2 entries, 1 change | 549,579 | 3 invariants hold |
| `replies_reached` | `pages` without changes | | violated, see findings |

The `Bounds` of the MC modules are state constraints: they
say which things overlap with which in one run (two blocks and follows, or one of them and a third user's leaving;
two posts, or two trends, or one of each after the other; two requests, or a request and two jobs; one user who moves, or one thing that is blocked or
fails, at a time), as the
comment above each explains. They cut behaviours, never states a property would be false in: each
property's exceptions are recorded by the module, not by the bound.

Why these bounds are enough. Every race in the code is between two handlers, and what it
spoils shows in a third one that reads it; four requests leave room for one that prepares
the state. Three tweets make a chain (tweet, reply, reply to the reply or quote), the
shortest on which a one-level cascade and an inherited conversation differ from the right
ones. Two messages are what two sends can link in the wrong order. Three tokens are one lost
by the list, one listed afterwards and one rotated. A list of one place is trimmed for every second tweet. The theorems of section 4 remove the
bounds for the properties they prove. Three
jobs are one that makes an entry and two that disturb each other on it; two entries are what a third
one slices; the second day is what the 24-hour filters tell apart. The code attempts a
job three times: the second attempt already starts on what the first one left. For `SearchIndex` two overlapping jobs of
one tweet, one of them retried, are what can write in the wrong order, and the reply is what cascades. Constants of one kind are
interchangeable where the `.cfg` declares symmetry; the run with liveness properties declares none.
All runs set `CHECK_DEADLOCK FALSE`, because a behaviour stops when
every request has been served or every job has been used. The runs of `NotificationInbox` check invariants
only, and their jobs are interchangeable: `JobSymmetry` is sound.

Fairness is assumed in two modules. In `SearchIndex` it is described above. In `Pages` the client goes on
(weak fairness of the next request): that is who the property is about. In the other modules a request
may be abandoned at any point and nothing is claimed of progress.

### Findings

`PROJECT.json` quotes the lines of the one that a run shows: the replies of a tweet have no cursor while there
are more. Others came up while modelling; the modules have the behaviour, recorded by a history variable where a
property makes an exception of it, and no run of its own:

* An edit that overlaps a like writes the old count back, and a purge leaves counts behind
  (`tweets.service.ts:378`); two undos of one repost, or two deletions of one reply, both decrement.
* An edit that overlaps a deletion brings the tweet back, although the comment at `tweets.service.ts:401`
  speaks of its deletion with everything below it. It comes back without
  its hashtags, and with likes and counters as the edit had read them; and no edit ever updates the hashtags of the row.
* A page of messages of which one has reactions of two times or more may come short and say that there are no more
  (`messages.repository.ts:76-82`, `messages.service.ts:177-185`): the older ones are not reached. A search that fails answers
  as if it were its last page (`search.service.ts:178-181`, `:217-220`).
* `deleteTweetsByUserId` commits inside its loop (`tweets.service.ts:1876`): it deletes the first tweet
  and throws at the second, although it logs how many it has deleted.
* A token that was listed while a revocation was between its two commands is missed by every later logout
  from everywhere, although `auth.swagger.ts:939` says that all active sessions are terminated (`stray`).
* A second request to change an address replaces the stored one; the code of the first then confirms the
  second (`raced`).
* The pages of the timeline serve tweets whose authors were blocked or muted after the filling: the comments
  at `for-you.service.ts:96` and `:98` say they are filtered, and `getTweetsByIds` (`tweets.repository.ts:54`) does not.
* At the end of the list nothing refills it until the interests are assigned again; a trim that overlaps a
  refill shifts the list under the position, and may cut a fresh list.
* The job about the hashtags of a text without any fails in every attempt; a post or an edit that is rolled
  back is counted by the trends; a calculation without candidates leaves the old lists.
* A recipient who joins between the room check of a send and its increment is in the room with an unread
  message; a user who blocks while a follow is between its check and its insert is followed all the same (`crossed`).
* An edit that overlaps another one of the same profile writes back what that one has changed (`raced`), one that overlaps the deletion of the account brings it
  back, and an edit that gives the picture the profile has deletes its file (`spent`). No job tells the index of a new user name.
* The removal of a like may take with it another like that joined its entry after it was read (`clashed`).
  It takes no overlap either: a removal may leave two recent entries of one tweet or one person, the next like
  joins both, and what later removes one of the two entries as a whole takes that like, and others, with it
  (`scattered`; found by the attempt to prove `ExactWhenQuiet`, beyond the jobs of the run). An aggregated like that
  names one deleted tweet is cleared with all its other tweets, and a removal tells of one entry though several change.
* Two requests that open a chat of one pair at once make two; the documented conflict `CHAT_ALREADY_EXISTS` never happens. A change over
  HTTP tells nobody. A recipient who is in the room when it is looked into and disconnects before the message is emitted is told nothing.
* Removing a reaction removes any emoji of the user, though the event names the one that was asked for.
* The chat list fails for a chat whose last message was deleted: its plain text cannot be decrypted.
* A connection that closes between joining the room and its registration counts as online for good: the device is
  not told any more (`"ghost"`).
* Nothing marks a job of the notification queue as told: when the process dies after the emit or the push and before Bull has
  completed the job, the owner hears of the event again (`repeats`).
* The columns `followers` and `following` of the user, which the index jobs copy into the documents, are written by nothing in the repository: neither a follow nor
  an unfollow nor the end of an account touches them. Profiles and lists show the same columns. The end of an account lowers the numbers in the
  documents only, and the next job about the owner writes the column's value back (`lapsed`); a retried `DELETE_USER` job no longer finds the follows.
* One hit whose answered tweet is not in the index throws (`search.service.ts:430`), and the whole search is empty. A search hides those the
  reader has blocked, not those who block the reader; reposts of tweets of blocked authors stay on the timeline.
* Quoted tweets come without flags, tweets by ids never show their author as followed, and the ancestors of a thread lose `is_liked`: the branches of the
  `UNION ALL` of `reply-parent-chain.query.ts` list likes and bookmarks in different orders (lines 11 and 36).
* Whom the quotas of two sources offer may be recommended twice, and the most followed users are recommended to whom they have blocked.

## 4. What is proved

For every value of the constants that satisfies the named assumptions, checked by `tlapm`:

* `TweetProofs`, about `TweetEngagement`: `TypeCorrect`, `OrphanFreedom` (`NoOrphans`), `CountersCorrect`
  (`CountersExact`), `CountersNeverOverstate` (`RacesOnlyUnderstate`), `ConversationsCorrect`
  (`ConversationInherited`).
  `TypeOK` and `NoOrphans` are inductive together with `Links` (only replies and quotes have
  a parent, and what an open deletion read of a link is still the link or the link is
  gone). On top of that, `Fresh` (the counters of an id not yet minted are zero) and
  `Counted` make the counters inductive: a counter is compared with the cardinality of its
  rows, and each action adds or removes one row and one count. The cascade needs that it is
  closed under children and takes from a surviving parent only the tweet that is deleted.
  For the conversations: what an open reply has read is still the conversation of the
  tweet it answers.
* `AuthProofs`, about `RefreshTokens`: `TypeCorrect`, `SessionsReachable` (`LiveTokensAreListed`),
  `RevocationIsFinal` (`RevokedStaysRevoked`), `SessionsLast` (`LiveUntilRevoked`),
  `ClosedAccountsStayClosed` (`ClosedForGood`), `ImplementsLifecycle` (`FollowsLifecycle`).
  The strengthening says what a handler may rely on while others run: what it has in
  hand was minted; a token about to be listed or returned is its own and in no client's
  hand; a token being logged out has no key; a revocation that has read the list has read
  every live token clients held at that moment, except lost ones.
* `AuthProofs`, about `Accounts`: `OwnersOnlyHolds` (`OwnersOnly`), `NotMeHoldsAlways` (`NotMeHolds`), for any number of addresses,
  users, details, requests and codes. Assumed (`ProperConstants`): users start with different addresses. A code proves something only by where it was
  mailed to, so `AddressesInv` follows the codes: whatever a session, a reset token or a request has accepted is in `spent` and went to that
  mailbox for that purpose (`SessionInv`, `TokenInv`, `CallInv`), a code that is still being sent is under one key and in one request's
  hands (`CodesInv`), and while no two requests about a user have overlapped, one at most changes the address (`RaceInv`), and the
  address that waits is the one its code went to (`TargetInv`).
* `NotificationsProofs`, about `NotificationInbox`: `TypeCorrect` (`TypeOK`, with the bound that the slice gives),
  `AggregationsDoNotMix` (`TypesDoNotMix`), `ShownHappened` (`OnlyWhatHappened`), `FollowsAndPostsKept`
  (`KeptUntilRetracted`), `QuietJobsAreExact` (`ExactWhenQuiet`), from the assumptions that events are typed, refer to what their type
  refers to, that a post tells the owner one thing of a type (`PostsTellOne`: it has one author, one parent, and mentions once),
  and that tweets, posts and users are different things. `Invariant` types what a job carries between its
  statements and keeps the document finite. `TypesDoNotMix` is then inductive by itself: every update that takes
  away only shrinks entries, a push makes an entry of one tweet and one person, and a join passes
  only the entries its filter lets through, so that nothing the job had read matters.
  `OnlyWhatHappened` needs besides that a job, once queued, keeps what it is about.
  `KeptUntilRetracted` needs `KeepInv`: the entries of follows name no tweet and those of posts are as one event left them
  (`ShapeInv`), which statements a job of each type can be about to make (`PlaceInv`: no removal of a follow pulls a tweet), and
  that an event whose job has written is named (`Kept`). Each action then has to be shown to take nothing from the entry
  that names the event, or to retract it.
  `QuietJobsAreExact` needs `QuietInv`, one layer about the queue and one about the document. `JobInv`: of a type that has not
  clashed one job is at work at a time (`SerialInv`), an event has been announced and removed as often as its row accounts for (`CountInv`),
  and the last of its jobs is the one its row calls for (`OrderInv`). On that rest, in this order: what is away (undone, or queued and not yet pushed) is
  named by no entry that a job of the type could find (`AwayInv`); so two entries that can be found do not share a person and a tweet
  (`OneInv`, unless `scattered`); so what a removal has read is still true of every entry that it pulls from (`PullInv`); so it takes
  nobody else's event along, and an event announced once more than removed is named when none of its jobs is open (`KeptInv`).
* `NotificationsProofs`, about `NotificationFeed`: `LastWordHolds` (`LastWord`), `HeardOnceHolds` (`HeardOnce`), for any number of
  events, jobs, attempts and connections. Assumed: events are typed, and `None` is none of the things it stands in for. `FeedInv` makes
  both inductive. The last word needs that an entry which a job is about to tell is there or went without a word (`Known`), and that whoever is
  not in the room has been told nothing (`ConnTyped`). How often an event is heard is bounded by the runs that its job has begun after it had told: in each of these a job
  that is not yet at `"told"` has told nothing (`HeardOK`), so that a failed attempt starts from silence and only a death of the process, or the rerun of a mention, counts;
  and what a job holds back is what it has read of the blocked (`HeldOK`).
* `NotificationsProofs`, about `NotificationList`: `ListFaithfulHolds` (`ListFaithful`), for documents and pages of
  any size. Assumed (`DocumentsTyped`, `DatesDiffer`): documents are finite, no two entries have one date, and a like is of some tweet, what one
  user wrote has one writer and is one tweet, as the inbox leaves them. `ListInv`: what a request has read is what it asked for but for what is gone by then, and
  what it shows is the sorted list of what is left. Both parts (`AllListedHolds`, `ListedRightlyHolds`) then follow from what that list is: entries which say the
  same have a newest one (one over which there are fewest: `WFMin`, an induction over finite sets that needs no operator parameter), and the entries that remain
  can be sorted, since the place of each is the number of newer ones.
* `SocialGraphProofs`, about `SocialGraph`: `TypeCorrect`, `BlockedDoNotFollowHolds` (`BlockedDoNotFollow`),
  for any number of users and requests. Assumed: nobody follows or blocks oneself in the inputs (the handlers refuse it),
  and those who leave are users.
  The exclusion (`BlockInv`) needs that a follow that has passed its check while a block is there by now is recorded in `crossed`
  (`InsertsKnown`), and what each open block has behind it: after its first deletion no follow of the pair is left that it
  has not taken, after its second none in either direction, but for those in `crossed` (`SecondKnows`, `CommitKnows`).
* `SocialGraphProofs`, about `Profiles`: `ProfileSoundHolds` (`ProfileSound`), for any values, pictures, edits, requests, jobs and attempts. Assumed (`ProperProfiles`): texts and the
  files of the two containers are different things, an edit gives no user name and no number, a job is attempted at least once. What a request has read agrees with the row, but for `raced` fields, and what it is about to save
  differs from that in what it gives only (`AgreeInv`); no edit is under way when an account was deleted alone (`AloneInv`). The pictures need to know
  of each what can have it: all were given (`UsedInv`), one that was given once is nobody else's until its edit is saved (`FirstInv`), and the one that an edit is about to
  delete is no field's any more (`OldInv`). While no edit is still to be told, what jobs have read is what the row says, and once none is about to write, so is the document (`ToldInv`). No edit gives a number (`GivesInv`), so
  that the columns never change (`NumbersStay`), and every job that has read the row carries them as they are (`NumbersInv`).
* `SocialGraphProofs`, about `SignIns`: `SignInsSoundHolds` (`SignInsSound`), for any number of providers' users, accounts, addresses, pictures and requests. Assumed (`ProperProviders`):
  each user of a provider has one, and `None` is nothing else. `SignInInv`: what a request or a session has in hand was reported by the provider (`OwnInv`, `StartInv`), and the
  account it has found has a row (`HandInv`) and, like the row an edit has read, has had the addresses it shows (`OwnInv`, `HadInv`). That a provider's user is on one account is inductive once whatever is
  about to put them on a second one is on record (`CrossInv`): the row of an account changes by one action at a time (`RowStep`), and each way to come by an id was under way
  before (`NotTwice`). The picture that a link will give is that of the owner, unless `hasty` (`PicInv`).
* `ChatProofs`, about `ChatMessages`: `TypeCorrect`, `MessagesSoundHolds` (`MessagesSound`), `UnreadExactHolds` (`UnreadExact`), for any number of
  sockets, messages and handlers. Assumed: the two users differ, each socket has an owner, handlers are finite in number.
  `Typed` adds to the types that each handler has a message of its own (`OwnMessages`). `LinkInv`: what was linked when a message was
  saved is linked. `TextInv`: an edit that is about to be written to a message that has been deleted is recorded in `contested`.
  `UnreadInv`, per user: a mark that nothing has overlapped is alone, no increment is on its way, and it has counted what is
  unread (`CleanMarks`); and while there is no mark and the counter is not `blurred`, the counter plus the increments on their way is the number of unread
  messages that no join has taken off, those of the increments among them (`Exact`).
* `ChatProofs`, about `ChatEvents`: `OneChatHolds` (`OneChat`), `AnnouncedHolds` (`Announced`), `EventsTellHolds` (`EventsTell`), for any number
  of chats, messages, emojis, sockets and handlers. `TellInv`: a change that calls itself clean is alone with its message or reaction (`AloneInv`) and has
  in hand what is stored, one that has written and not yet emitted has its subject in `off` (`EditOK`, `ReactOK`); who opens the
  chat and calls that clean has still found none (`OpenOK`); and of a send, whoever was not found in the room has been alerted before anything is
  emitted, and whoever was found is connected while nobody has left (`SendOK`). Events then match the rows
  wherever a subject is not in `off` (`ToldInv`).
* `TimelineQueueProofs`: `TypeCorrect`, `NothingSkippedHolds` (`NothingSkipped`), `TrimmedSoon` (`TooLongForNow`), `StuckHasAReason`
  (`StuckForAReason`), for lists, pages, batches and bounds of any size and any number of requests and jobs. Assumed: a filling is
  not larger than the bound of the list (`Room`), pages have a size. `ReadInv`: unless `shifted`, the position and each start that a request carries are within the list, what lies before them was
  answered or is about to be, and a page that a request carries is what the list has at its place. `LongInv`: a list that is too long
  has a job that is about to count it, or one that will take off at least the excess, unless `flooded`. `FillInv`: unless `starved`, an empty list of
  a user with interests has a filling under way, and a position at the end has one, or a request that is about to queue it.
* `TrendsProofs`: `TypeCorrect`, `UsageIsExact` (`UsageExact`), `CountsAreExact` (`CountsExact`), `ListedIsActive` (`ListedWasActive`).
  `LocksOK`: a request knows the counts of the rows it has locked, nobody else has locked them, what it has locked when it commits is what the tweet has
  (`TagsLeft`: nothing, if an edit has put it back), and the id of a post is in nobody else's hands.
* `BrowsingProofs`, about `Pages`: `TypeCorrect`, `NothingMissed` (`NoneMissed`), `NothingTwice` (`NoneTwice`), for lists of any length, pages of any
  size and any changes. `Inv`: what has been shown lies before the cursor, but for the rows of a cut millisecond and what was there all the time lies in its place; what the last answer
  does not have is recorded in `left` (`EndInv`).

* `TweetProofs`, about `SearchIndex`: `IndexAlways` (`IndexCaughtUp`), for any number of tweets, handlers, jobs and attempts. Assumed
  (`ProperIndex`): what is owned are tweets, and bounds are numbers. `IndexInv` says for each tweet what is
  still on its way. A live one that is not `astray` has its row in the document, or a handler or a job that will bring the row as it is by now (one that has
  not read it, or has read just that), and the same for its parent (`Followed`). A deleted one stands in the log until its document is gone or a
  job has it in hand (`Handled`), and the cron has queued that job for whatever it is about to clear (`CronOK`). A job never has read of a row more than there is
  (`IndexJobOK`), which is what makes an older write the one to record. The attempt to prove it showed that the
  module let a retry keep the parent an earlier attempt had found, which the code does not.
* `BrowsingProofs`, about `Reading`: `SilencedStayHidden` (`SilencedHidden`), `FoundAndWhole` (`FoundWhole`), `FlagsTell` (`FlagsAgree`), for conversations of
  any shape that are whole (`ProperReaders`) and any changes while a request runs. The world of each query is one of those in `past`, and `past` only grows, so that a statement
  about some world of the request stays true once it is. `ReadInv` adds what a search has in hand between its queries: what its
  hits refer to was found, or was missing from the index in some world (`FoundOK`), and a thread shows its tweet before it shows what is above (`ChainOK`).
* `BrowsingProofs`, about `WhoToFollow`: `AdviceAlways` (`AdviceSound`), for any users, quotas, scores and orders. Assumed (`ProperAdvice`): users are finite in number, and each
  is once in the list of everybody. `AdviceInv`: what a source has returned are strangers of the request, each once. Taking the quota
  of a source keeps what was taken and adds nobody twice; whoever no quota took is beyond the quota of every source that knows them
  (`Firsts` leaves out only who has a quota of others before them), and comes in once from each of these.
* `BrowsingProofs`, about `ExploreLists`: `ListsSoundHolds` (`ListsSound`), `MissesHold` (`MissesOnePerMove`), for any number of tweets and changes, any scores, and
  lists and batches of any size. Assumed (`ProperLists`): tweets are finite in number, percentages are from 1 to 100, sizes are not zero. `ListsInv`: while nothing has failed the list holds only
  what the job has read and then scored (`StaleInv`), and a tweet that a page has gone through has its score in the list, or `MaxSize` members have as
  much (`BestInv`): a trim takes none of these before the others, and a page that lowers no score leaves them as good, though the list is too long and half
  written in between. `MissInv` compares the length of the window with what was counted: of the moves, *d* took a tweet out and *i* brought one in (`Balance`), so
  that the window has that many fewer and more. One that leaves lets at most one tweet slip before the place the pages have reached, one that comes lets none,
  so at most *d* are missed there; and when the pages end, because they have done as many as were counted or found nothing, at most *i* lie beyond.
  That `recent` has no tweet twice (`Window`) is an invariant by itself.

Only model-checked:

* The liveness properties `IndexFollows` and `WalkEnds`: fairness is out of the prover's reach.

## 5. What is not modelled

* In the modelled parts: tweet views, media, topics, summaries; which rows a query selects; a chat with oneself (never
  refused, though `CANNOT_MESSAGE_YOURSELF` is documented), several chats, typing events, the summary of unread chats, uploads, several
  server processes (the socket map is per process); access tokens and cookies, which no
  store keeps, and the `deleted_user:` marker that rejects access tokens of a deleted account; the captcha, user
  names, and the bypass of codes that the environment can switch on for tests; the posts and likes that a profile counts.
* Media, AI, e-mail and the delivery of a push are I/O; seeding and configuration run once. More than a quarter of the lines of `src/src` are the texts of the API
  documentation (`*.swagger.ts`), message constants, DTOs, templates, seeds and migrations that create tables.

## 6. What is left

1. *Composition*: the jobs that `TweetEngagement` queues as the events of `NotificationInbox` and
   `SearchIndex`, and an abstract inbox that `NotificationInbox` implements when its jobs do not overlap.
2. *Model*: the scores a search sorts by, and the assembly of the explore page.
