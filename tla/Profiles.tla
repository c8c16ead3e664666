------------------------------- MODULE Profiles -------------------------------
(***************************************************************************)
(* The profile of one account: its row in the user table, its pictures in  *)
(* the storage, and what the search index says of the author with a tweet  *)
(* (UserService, AuthService.updateUsername, AzureStorageService,          *)
(* EsSyncProcessor).                                                       *)
(*                                                                         *)
(* An edit reads the row, changes some fields of what it has read and      *)
(* saves all of it: save reads the row again, writes the fields that       *)
(* differ, deleted_at included, and inserts the row if there is none.  The *)
(* old pictures are deleted after that, and a job brings the documents up  *)
(* to date.  Jobs overlap and run in any order, and a job that fails is    *)
(* run again from its start.                                               *)
(*                                                                         *)
(* Abstractions.  The bio goes with the name; country and birth date go    *)
(* with the language.  The account has one tweet, whose own fields are     *)
(* those of SearchIndex.  The tokens of deleteUser are in RefreshTokens.   *)
(*                                                                         *)
(* The numbers of followers and followed are columns of the row that no    *)
(* edit gives and that nothing in the repository keeps in step with        *)
(* user_follows: they keep the values that the account came with.  Four    *)
(* kinds of jobs write them into the documents, and the end of a           *)
(* neighbour's account lowers what the documents say and not the row.      *)
(***************************************************************************)
EXTENDS Integers

CONSTANTS
    Texts,      \* what a name, a user name, a language or a number may be
    Avatars,    \* files of the two containers
    Covers,
    Null,       \* no picture, no value; of a number, another one than the row's
    Edits,      \* the sets of fields that an edit may give
    Clients,    \* requests that may be under way at the same time
    Tasks,      \* jobs that may be in the queue at the same time
    Tries       \* attempts of a job

VARIABLES
    account,    \* the row: live, with deleted_at set (left), deleted (gone)
    value,      \* its fields
    files,      \* the storage
    posted,     \* whether the account has its tweet
    shown,      \* what the document of the tweet says of the author
    call,       \* what each request has in hand
    task,       \* the queue
    last,       \* history: what each field was last given
    raced,      \* history: fields that were given it while another request was
                \* between its read and its write
    used,       \* history: files that an edit has given
    spent,      \* history: those given twice, or removed by their owner
    over,       \* history: whether the account was deleted, and during an edit
    lapsed      \* history: fields of which no job has told the index, numbers that
                \* have been lowered since one has

user == <<account, value>>
history == <<last, raced, used, spent, over, lapsed>>
vars == <<user, files, posted, shown, call, task, history>>

-----------------------------------------------------------------------------
Pictures == {"avatar", "cover"}
Counts == {"followers", "following"}
Fields == {"name", "username", "language"} \cup Pictures \cup Counts
Own == {"name", "username", "avatar"}
Shown == Own \cup Counts
Values(f) == CASE f = "avatar" -> Avatars \cup {Null} [] f = "cover" -> Covers \cup {Null}
               [] OTHER -> Texts
Anything == Texts \cup Avatars \cup Covers \cup {Null}

Given ==
    /\ Texts \cap (Avatars \cup Covers) = {} /\ Avatars \cap Covers = {}
    /\ Null \notin Texts \cup Avatars \cup Covers
    /\ Edits \subseteq SUBSET (Fields \ ({"username"} \cup Counts))
    /\ Tries \in Nat \ {0}

\* gives: the fields the request gives; old: the row it has read; new: that row with
\* its own fields; base, was: the row that save has read.
Idle == [at |-> "idle"]
Begin(c, op, at, F, sets) ==
    /\ account = "live" /\ call[c] = Idle
    /\ call' = [call EXCEPT ![c] = [op |-> op, at |-> at, gives |-> F, old |-> value,
                    new |-> [f \in Fields |-> IF f \in F THEN sets[f] ELSE value[f]],
                    base |-> value, was |-> account]]
At(c, at) == call[c].at = at
Goes(c, at) == call' = [call EXCEPT ![c].at = at]
Ends(c) == call' = [call EXCEPT ![c] = Idle]

\* Between findOne and the write of save.
Editing(c) == call[c].at \in {"load", "save"}
Others(c) == \E d \in Clients \ {c} : Editing(d)

\* An edit that is saved and has not queued its job.
Saved(c) == call[c].at \in {"avatar", "cover", "queue"} /\ call[c].op = "edit"

Free == [kind |-> "none", at |-> "none"]
NewTask(kind, n) == [kind |-> kind, at |-> "waiting", left |-> n, seen |-> [f \in Shown |-> Null]]
Add(kind) == \E j \in Tasks : task[j] = Free /\ task' = [task EXCEPT ![j] = NewTask(kind, Tries)]
Is(j, kind, at) == task[j].kind = kind /\ task[j].at = at
Complete(j) == task' = [task EXCEPT ![j] = Free]
InHand(j) == \E i \in Tasks \ {j} : task[i].at = "write" /\ task[i].kind \notin Counts

NoDoc == [f \in {} |-> Null]

Rows == {v \in [Fields -> Anything] : \A f \in Fields : v[f] \in Values(f)}
Calls == [op: {"edit", "language", "rename", "leave"},
          at: {"load", "save", "update", "remove", "avatar", "cover", "queue"},
          gives: SUBSET Fields, old: Rows, new: Rows, base: Rows, was: {"live", "left", "gone"}]
TaskStates == [kind: {"update", "index", "delete"} \cup Counts, at: {"waiting", "write", "docs"},
               left: 1..Tries, seen: [Shown -> Anything]]

TypeOK ==
    /\ account \in {"live", "left", "gone"}
    /\ value \in Rows /\ last \in Rows
    /\ files \subseteq Avatars \cup Covers /\ posted \in BOOLEAN
    /\ shown \in [Shown -> Anything] \cup {NoDoc}
    /\ call \in [Clients -> Calls \cup {Idle}]
    /\ task \in [Tasks -> TaskStates \cup {Free}]
    /\ raced \subseteq Fields /\ lapsed \subseteq Shown
    /\ used \subseteq Avatars \cup Covers /\ spent \subseteq Avatars \cup Covers
    /\ over \in {"no", "alone", "crossed"}

Init ==
    /\ account = "live" /\ posted = FALSE /\ shown = NoDoc
    /\ value \in Rows /\ \A k \in Pictures : value[k] = Null
    /\ files = {} /\ used = {} /\ spent = {}
    /\ call = [c \in Clients |-> Idle] /\ task = [j \in Tasks |-> Free]
    /\ last = value /\ raced = {} /\ over = "no" /\ lapsed = {}

-----------------------------------------------------------------------------
(* Pictures are uploaded before an edit names them. *)

Upload(f) ==
    /\ f \notin files \cup used \cup spent
    /\ files' = files \cup {f}
    /\ UNCHANGED <<user, posted, shown, call, task, history>>

Remove(f) ==
    /\ f \in files
    /\ files' = files \ {f} /\ spent' = spent \cup {f}
    /\ UNCHANGED <<user, posted, shown, call, task, last, raced, used, over, lapsed>>

UploadAvatar == \E f \in Avatars : Upload(f)
UploadCover == \E f \in Covers : Upload(f)
DeleteAvatar == \E f \in Avatars : Remove(f)
DeleteCover == \E f \in Covers : Remove(f)

-----------------------------------------------------------------------------
(* updateUser and changeLanguage *)

UpdateUser(c, sets) ==
    LET given == {sets[k] : k \in DOMAIN sets \cap Pictures} \ {Null} IN
    /\ given \subseteq files
    /\ Begin(c, "edit", "load", DOMAIN sets, sets)
    /\ used' = used \cup given /\ spent' = spent \cup (given \cap used)
    /\ UNCHANGED <<user, files, posted, shown, task, last, raced, over, lapsed>>

ChangeLanguage(c, v) ==
    /\ Begin(c, "language", "load", {"language"}, [f \in {"language"} |-> v])
    /\ UNCHANGED <<user, files, posted, shown, task, history>>

\* save: SELECT, with the rows of deleted users.
Load(c) ==
    /\ At(c, "load")
    /\ call' = [call EXCEPT ![c] = [call[c] EXCEPT !.at = "save", !.base = value, !.was = account]]
    /\ UNCHANGED <<user, files, posted, shown, task, history>>

\* The fields F of c are written, after what is there has been read (seen).
Sets(c, F, seen) ==
    /\ last' = [f \in Fields |-> IF f \in F THEN call[c].new[f] ELSE last[f]]
    /\ raced' = (raced \ F) \cup {f \in F : Others(c) \/ seen[f] # value[f]}

\* Of what it had in hand an edit now needs the old pictures.
Forgets(r) == [r EXCEPT !.at = "avatar", !.new = r.old, !.base = r.old, !.was = "live"]

\* save: UPDATE of what differs, or INSERT, unless another one has (Stop).
Save(c) ==
    LET differs == {f \in Fields : call[c].base[f] # call[c].new[f]} IN
    /\ At(c, "save")
    /\ \/ /\ call[c].was # "gone" /\ account # "gone"
          /\ value' = [f \in Fields |-> IF f \in differs THEN call[c].new[f] ELSE value[f]]
          /\ account' = IF call[c].was = "left" THEN "live" ELSE account
          /\ Sets(c, call[c].gives, call[c].base)
       \/ /\ call[c].was = "gone" /\ account = "gone"
          /\ value' = call[c].new /\ account' = "live"
          /\ Sets(c, call[c].gives, call[c].base)
       \/ call[c].was # "gone" /\ account = "gone" /\ UNCHANGED <<user, last, raced>>
    /\ \/ call[c].op = "edit" /\ call' = [call EXCEPT ![c] = Forgets(call[c])]
       \/ call[c].op = "language" /\ Ends(c)
    /\ UNCHANGED <<files, posted, shown, task, used, spent, over, lapsed>>

\* Mutant of DropOld: the old picture is deleted whether or not a new one is given.
DropOldAny(c, k, next) ==
    /\ At(c, k) /\ Goes(c, next)
    /\ UNCHANGED files \/ files' = files \ {call[c].old[k]}
    /\ UNCHANGED <<user, posted, shown, task, history>>

\* deleteFile of the old picture, whose failure is only logged.
DropOld(c, k, next) ==
    LET drops == call[c].op = "leave" \/ k \in call[c].gives IN
    /\ At(c, k) /\ Goes(c, next)
    /\ UNCHANGED files \/ (drops /\ files' = files \ {call[c].old[k]})
    /\ UNCHANGED <<user, posted, shown, task, history>>

\* queueUpdateUser, whose failure is only logged.
QueueUpdate(c) ==
    /\ At(c, "queue") /\ call[c].op = "edit" /\ Ends(c)
    /\ \/ Add("update") /\ UNCHANGED lapsed
       \/ lapsed' = lapsed \cup Own /\ UNCHANGED task
    /\ UNCHANGED <<user, files, posted, shown, last, raced, used, spent, over>>

-----------------------------------------------------------------------------
(* updateUsername *)

Rename(c, v) ==
    /\ v # value["username"]
    /\ Begin(c, "rename", "update", {"username"}, [f \in {"username"} |-> v])
    /\ UNCHANGED <<user, files, posted, shown, task, history>>

\* UPDATE of the one field, and no job.
UpdateUsername(c) ==
    /\ At(c, "update") /\ Ends(c)
    /\ \/ /\ account # "gone"
          /\ value' = [value EXCEPT !["username"] = call[c].new["username"]]
          /\ Sets(c, {"username"}, value) /\ lapsed' = lapsed \cup {"username"}
       \/ account = "gone" /\ UNCHANGED <<value, last, raced, lapsed>>
    /\ UNCHANGED <<account, files, posted, shown, task, used, spent, over>>

-----------------------------------------------------------------------------
(* deleteUser *)

DeleteUser(c) ==
    /\ Begin(c, "leave", "remove", {}, value)
    /\ UNCHANGED <<user, files, posted, shown, task, history>>

SoftDelete(c) ==
    /\ At(c, "remove") /\ Goes(c, "avatar")
    /\ account' = IF account = "live" THEN "left" ELSE account
    /\ over' = IF Others(c) THEN "crossed" ELSE IF over = "no" THEN "alone" ELSE over
    /\ UNCHANGED <<value, files, posted, shown, task, last, raced, used, spent, lapsed>>

QueueDelete(c) ==
    /\ At(c, "queue") /\ call[c].op = "leave" /\ Ends(c)
    /\ Add("delete") \/ UNCHANGED task
    /\ UNCHANGED <<user, files, posted, shown, history>>

\* A request fails, or the server stops under it.
Stop(c) ==
    /\ call[c] # Idle /\ Ends(c)
    /\ lapsed' = IF Saved(c) THEN lapsed \cup Own ELSE lapsed
    /\ UNCHANGED <<user, files, posted, shown, task, last, raced, used, spent, over>>

-----------------------------------------------------------------------------
(* The jobs *)

\* A tweet is posted, or changes.
Post ==
    /\ account = "live" /\ posted' = TRUE /\ Add("index")
    /\ UNCHANGED <<user, files, shown, call, history>>

Reads(j, v) == task' = [task EXCEPT ![j] = [task[j] EXCEPT !.at = "write", !.seen = v]]
Author == [f \in Shown |-> value[f]]

\* handleUpdateTweetsAuthorInfo: the row ...
ReadUser(j) ==
    /\ Is(j, "update", "waiting")
    /\ \/ /\ account = "live" /\ Reads(j, Author)
          /\ lapsed' = IF InHand(j) THEN lapsed \cup Own ELSE lapsed \ Own
       \/ account # "live" /\ Complete(j) /\ UNCHANGED lapsed
    /\ UNCHANGED <<user, files, posted, shown, call, last, raced, used, spent, over>>

\* ... and an update of the documents there are.
WriteUser(j) ==
    /\ Is(j, "update", "write") /\ Complete(j)
    /\ shown' = IF shown = NoDoc THEN NoDoc ELSE task[j].seen
    /\ lapsed' = lapsed \ Counts
    /\ UNCHANGED <<user, files, posted, call, last, raced, used, spent, over>>

\* unfollowUser, followUser: a job for what the account follows, or for who follows it.
QueueFollow(k) ==
    /\ Add(k)
    /\ UNCHANGED <<user, files, posted, shown, call, history>>

\* handleFollow: the rows of both, of which the other one may be missing ...
ReadCount(j, k) ==
    /\ Is(j, k, "waiting")
    /\ \/ account = "live" /\ Reads(j, Author)
       \/ Complete(j)
    /\ UNCHANGED <<user, files, posted, shown, call, history>>

\* ... and one number in the documents there are.
WriteCount(j, k) ==
    /\ Is(j, k, "write") /\ Complete(j)
    /\ shown' = IF shown = NoDoc THEN NoDoc ELSE [shown EXCEPT ![k] = task[j].seen[k]]
    /\ lapsed' = lapsed \ {k}
    /\ UNCHANGED <<user, files, posted, call, last, raced, used, spent, over>>

\* decrementFollowCountsForUsers, for the end of an account that the owner follows
\* or that follows the owner.
Decrement(k) ==
    /\ shown # NoDoc /\ shown' = [shown EXCEPT ![k] = Null]
    /\ lapsed' = lapsed \cup {k}
    /\ UNCHANGED <<user, files, posted, call, task, last, raced, used, spent, over>>

\* handleIndexTweet: the tweet with its author, and the document.
ReadTweet(j) ==
    /\ Is(j, "index", "waiting")
    /\ \/ posted /\ Reads(j, IF account = "live" THEN Author ELSE [f \in Shown |-> Null])
       \/ ~posted /\ Complete(j)
    /\ UNCHANGED <<user, files, posted, shown, call, history>>

WriteTweet(j) ==
    /\ Is(j, "index", "write") /\ Complete(j)
    /\ shown' = task[j].seen
    /\ lapsed' = lapsed \ Counts
    /\ UNCHANGED <<user, files, posted, call, last, raced, used, spent, over>>

\* handleDeleteAuthor: the row, with its tweets, and the documents.
DeleteRow(j) ==
    /\ Is(j, "delete", "waiting")
    /\ account' = "gone" /\ posted' = FALSE
    /\ task' = [task EXCEPT ![j].at = "docs"]
    /\ UNCHANGED <<value, files, shown, call, history>>

DeleteDocs(j) ==
    /\ Is(j, "delete", "docs") /\ Complete(j)
    /\ shown' = NoDoc
    /\ UNCHANGED <<user, files, posted, call, history>>

Fail(j) ==
    /\ task[j].at \in {"write", "docs"}
    /\ task' = [task EXCEPT ![j] = IF task[j].left = 1 THEN Free
                                   ELSE NewTask(task[j].kind, task[j].left - 1)]
    /\ lapsed' = IF task[j].kind = "update" /\ task[j].left = 1 THEN lapsed \cup Own ELSE lapsed
    /\ UNCHANGED <<user, files, posted, shown, call, last, raced, used, spent, over>>

-----------------------------------------------------------------------------
Request(c) ==
    \/ \E F \in Edits : \E sets \in [F -> Anything] :
          (\A f \in F : sets[f] \in Values(f)) /\ UpdateUser(c, sets)
    \/ \E v \in Texts : ChangeLanguage(c, v) \/ Rename(c, v)
    \/ Load(c) \/ Save(c) \/ DropOld(c, "avatar", "cover") \/ DropOld(c, "cover", "queue")
    \/ QueueUpdate(c) \/ UpdateUsername(c)
    \/ DeleteUser(c) \/ SoftDelete(c) \/ QueueDelete(c) \/ Stop(c)
Work(j) ==
    \/ ReadUser(j) \/ WriteUser(j) \/ ReadTweet(j) \/ WriteTweet(j)
    \/ \E k \in Counts : ReadCount(j, k) \/ WriteCount(j, k)
    \/ DeleteRow(j) \/ DeleteDocs(j) \/ Fail(j)

Next ==
    \/ UploadAvatar \/ UploadCover \/ DeleteAvatar \/ DeleteCover \/ Post
    \/ \E c \in Clients : Request(c)
    \/ \E j \in Tasks : Work(j)
    \/ \E k \in Counts : QueueFollow(k) \/ Decrement(k)

Spec == Init /\ [][Next]_vars

-----------------------------------------------------------------------------
(* Properties *)

\* updateUser, changeLanguage, updateUsername: a field keeps what it was last
\* given, although every save writes a whole row that was read before, unless
\* another edit was under way when it was given.
EditsKept == \A f \in Fields \ raced : value[f] = last[f]

\* The picture of a profile is in the storage, unless its owner has removed it,
\* an edit has given it again (its file is deleted as the old one), or edits
\* overlapped.
PicturesThere == over = "no" =>
    \A k \in Pictures \ raced : value[k] \in files \cup spent \cup {Null}

\* deleteUser: a deleted account stays deleted, unless an edit was under way.
StaysDeleted == over = "alone" => account # "live"

\* handleUpdateTweetsAuthorInfo, handleFollow: when every edit has been told to the
\* index, the documents say of the author what the row does, unless a job was lost
\* or two overlapped, and but for a new user name, of which no job tells; and for
\* a number that a neighbour's end has lowered since a job has written it.
Told == (\A c \in Clients : ~Saved(c)) /\ (\A j \in Tasks : task[j].kind # "update")
AuthorShown == over = "no" /\ shown # NoDoc =>
    \A f \in Shown \ (raced \cup lapsed) : f \in Counts \/ Told => shown[f] = value[f]

\* All four.
ProfileSound == EditsKept /\ PicturesThere /\ StaysDeleted /\ AuthorShown
=============================================================================
