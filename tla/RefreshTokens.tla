---------------------------- MODULE RefreshTokens ----------------------------
(***************************************************************************)
(* The sessions of one account: AuthService and UserService.deleteUser on  *)
(* the Redis keys refresh:<jti> and oauth:exchange:<id> and on the set     *)
(* user:<id>:refreshTokens that lists the account's refresh tokens.        *)
(*                                                                         *)
(* Redis runs one command at a time and no handler uses a transaction, so  *)
(* every awaited command is an action.  A pipeline, and the deletions that *)
(* Promise.all starts together, go out in one write of the one connection  *)
(* of the process and are one action.                                      *)
(***************************************************************************)
EXTENDS Integers, FiniteSets

CONSTANTS
    Tokens,     \* jtis of refresh tokens (uuids)
    Codes,      \* ids of exchange tokens (uuids)
    Requests    \* HTTP requests: each runs one handler, once

VARIABLES
    account,    \* the user row: "active", or "deleted" (softly, or purged)
    keys,       \* credentials whose Redis key exists
    listed,     \* the set user:<id>:refreshTokens
    fading,     \* whether that set has a time to live
    minted,     \* credentials ever stored
    held,       \* credentials that were sent to a client
    task,       \* what each running handler has in hand
    served,     \* requests that have finished
    ended,      \* history: used, expired, or revoked by logging out
    stray       \* history: tokens that the list has lost

vars == <<account, keys, listed, fading, minted, held, task, served, ended, stray>>

-----------------------------------------------------------------------------
Credentials == Tokens \cup Codes

\* cred: the credential presented or issued.  seen: what SMEMBERS returned.
\* known: history, the tokens in the hands of clients at that moment.
Tasks == [op: {"login", "redeem", "logout", "logoutAll", "deleteUser"},
          at: {"found", "closed", "read", "issue", "stored", "listed", "deleted", "revoked"},
          cred: SUBSET Credentials, seen: SUBSET Tokens, known: SUBSET Tokens]
NoTask == [op |-> "none"]
Running(r, at) == task[r] # NoTask /\ task[r].at = at
Doing(r, op, at) == Running(r, at) /\ task[r].op = op

\* Handlers that may yet hand out a session or a code.
Issuing == {r \in Requests : task[r] # NoTask /\ task[r].op \in {"login", "redeem"}}
\* Tokens whose key is stored and that are about to be listed.
Storing == UNION {task[r].cred : r \in {x \in Issuing : task[x].at = "stored"}}

\* Types; in particular the list of refresh tokens holds no exchange codes, and
\* only what was stored is listed or held.
TypeOK ==
    /\ account \in {"active", "deleted"}
    /\ minted \subseteq Credentials
    /\ keys \subseteq minted
    /\ held \subseteq minted
    /\ listed \subseteq minted \cap Tokens
    /\ fading \in BOOLEAN
    /\ task \in [Requests -> Tasks \cup {NoTask}]
    /\ served \subseteq Requests
    /\ ended \subseteq minted
    /\ stray \subseteq minted \cap Tokens

Init ==
    /\ account = "active"
    /\ keys = {} /\ listed = {} /\ fading = FALSE /\ minted = {} /\ held = {}
    /\ task = [r \in Requests |-> NoTask] /\ served = {}
    /\ ended = {} /\ stray = {}

Begin(r, op, at, cred, seen, known) ==
    /\ task[r] = NoTask /\ r \notin served
    /\ task' = [task EXCEPT ![r] = [op |-> op, at |-> at, cred |-> cred,
                                    seen |-> seen, known |-> known]]
    /\ UNCHANGED served

GoTo(r, at) ==
    /\ task' = [task EXCEPT ![r].at = at]
    /\ UNCHANGED served

Finish(r) ==
    /\ task' = [task EXCEPT ![r] = NoTask]
    /\ served' = served \cup {r}

-----------------------------------------------------------------------------
(* Issuing: generateTokens stores the key, lists it, extends the list's TTL *)

\* Password, sign-up and OAuth handlers have found the user row; soft-deleted
\* users are not found.
LoginCheck(r) ==
    /\ account = "active"
    /\ Begin(r, "login", "issue", {}, {}, {})
    /\ UNCHANGED <<account, keys, listed, fading, minted, held, ended, stray>>

\* Redis drops a set that becomes empty, and its time to live with it.
SetList(L) ==
    /\ listed' = L
    /\ fading' = (fading /\ L # {})

\* The OAuth callback of a browser answers with an exchange code instead.
GrantCode(r, c) ==
    /\ Doing(r, "login", "issue")
    /\ c \in Codes \ (Tokens \cup minted)
    /\ keys' = keys \cup {c}
    /\ minted' = minted \cup {c}
    /\ held' = held \cup {c}
    /\ Finish(r)
    /\ UNCHANGED <<account, listed, fading, ended, stray>>

\* Mutant of StoreToken: the jti is only unused at the moment.
StoreReused(r, j) ==
    /\ Running(r, "issue")
    /\ j \in Tokens \ keys
    /\ keys' = keys \cup {j}
    /\ minted' = minted \cup {j}
    /\ task' = [task EXCEPT ![r].at = "stored", ![r].cred = {j}]
    /\ UNCHANGED <<account, listed, fading, held, served, ended, stray>>

StoreToken(r, j) ==
    /\ Running(r, "issue")
    /\ j \in Tokens \ minted
    /\ keys' = keys \cup {j}
    /\ minted' = minted \cup {j}
    /\ task' = [task EXCEPT ![r].at = "stored", ![r].cred = {j}]
    /\ UNCHANGED <<account, listed, fading, held, served, ended, stray>>

ListToken(r) ==
    /\ Running(r, "stored")
    /\ SetList(listed \cup task[r].cred)
    /\ GoTo(r, "listed")
    /\ UNCHANGED <<account, keys, minted, held, ended, stray>>

ReturnToken(r) ==
    /\ Running(r, "listed")
    /\ fading' = (listed # {})
    /\ held' = held \cup task[r].cred
    /\ Finish(r)
    /\ UNCHANGED <<account, keys, listed, minted, ended, stray>>

-----------------------------------------------------------------------------
(* Redeeming a refresh token or an exchange code for a new session *)

\* The account is not looked at, only the key.
RedeemRead(r, k) ==
    /\ k \in held
    /\ k \in keys
    /\ Begin(r, "redeem", "read", {k}, {}, {})
    /\ UNCHANGED <<account, keys, listed, fading, minted, held, ended, stray>>

\* Mutant of RedeemDelete: the key is left in Redis.
RedeemKeeps(r) ==
    /\ Doing(r, "redeem", "read")
    /\ keys' = keys
    /\ ended' = ended \cup task[r].cred
    /\ GoTo(r, "issue")
    /\ UNCHANGED <<account, listed, fading, minted, held, stray>>

\* How many keys the DEL removed is not looked at; the list keeps the old jti.
RedeemDelete(r) ==
    /\ Doing(r, "redeem", "read")
    /\ keys' = keys \ task[r].cred
    /\ ended' = ended \cup task[r].cred
    /\ GoTo(r, "issue")
    /\ UNCHANGED <<account, listed, fading, minted, held, stray>>

-----------------------------------------------------------------------------
(* Logging out, here and everywhere: the signature of the token is enough *)

LogoutDelete(r, j) ==
    /\ j \in held \cap Tokens
    /\ Begin(r, "logout", "deleted", {j}, {}, {})
    /\ keys' = keys \ {j}
    /\ ended' = ended \cup {j}
    /\ UNCHANGED <<account, listed, fading, minted, held, stray>>

LogoutRemove(r) ==
    /\ Doing(r, "logout", "deleted")
    /\ SetList(listed \ task[r].cred)
    /\ Finish(r)
    /\ UNCHANGED <<account, keys, minted, held, ended, stray>>

LogoutAllRead(r) ==
    /\ held \cap Tokens # {}
    /\ Begin(r, "logoutAll", "read", {}, listed, held \cap Tokens)
    /\ UNCHANGED <<account, keys, listed, fading, minted, held, ended, stray>>

\* Mutant of LogoutAllDelete: the pipeline deletes the list and not the keys.
LogoutAllKeepsKeys(r) ==
    /\ Doing(r, "logoutAll", "read")
    /\ SetList(IF task[r].seen = {} THEN listed ELSE {})
    /\ UNCHANGED <<keys, ended, stray>>
    /\ Finish(r)
    /\ UNCHANGED <<account, minted, held>>

\* One pipeline; nothing is sent when no token was listed.
LogoutAllDelete(r) ==
    /\ Doing(r, "logoutAll", "read")
    /\ keys' = keys \ task[r].seen
    /\ IF task[r].seen = {}
       THEN UNCHANGED <<listed, fading, stray>>
       ELSE SetList({}) /\ stray' = stray \cup ((listed \cap keys) \ task[r].seen)
    /\ ended' = ended \cup task[r].seen \cup task[r].known
    /\ Finish(r)
    /\ UNCHANGED <<account, minted, held>>

-----------------------------------------------------------------------------
(* Deleting the account: soft delete, list, keys, then the list itself *)

DeleteFind(r) ==
    /\ account = "active"
    /\ Begin(r, "deleteUser", "found", {}, {}, {})
    /\ UNCHANGED <<account, keys, listed, fading, minted, held, ended, stray>>

DeleteAccount(r) ==
    /\ Running(r, "found")
    /\ account' = "deleted"
    /\ GoTo(r, "closed")
    /\ UNCHANGED <<keys, listed, fading, minted, held, ended, stray>>

DeleteRead(r) ==
    /\ Running(r, "closed")
    /\ task' = [task EXCEPT ![r].at = "read", ![r].seen = listed,
                            ![r].known = held \cap Tokens]
    /\ UNCHANGED <<account, keys, listed, fading, minted, held, served, ended, stray>>

DeleteKeys(r) ==
    /\ Doing(r, "deleteUser", "read")
    /\ keys' = keys \ task[r].seen
    /\ ended' = ended \cup task[r].seen \cup task[r].known
    /\ GoTo(r, "revoked")
    /\ UNCHANGED <<account, listed, fading, minted, held, stray>>

DeleteList(r) ==
    /\ Running(r, "revoked")
    /\ SetList({})
    /\ stray' = stray \cup (listed \cap keys)
    /\ Finish(r)
    /\ UNCHANGED <<account, keys, minted, held, ended>>

-----------------------------------------------------------------------------
(* Expiry and failure *)

\* A key lives as long as its token, days or minutes, so no handler that is
\* still issuing it sees it expire.
Expire(k) ==
    /\ k \in keys \cap (held \cup stray)
    /\ keys' = keys \ {k}
    /\ ended' = ended \cup {k}
    /\ UNCHANGED <<account, listed, fading, minted, held, task, served, stray>>

\* Each EXPIRE makes the list outlive every key stored before it: a list with a
\* time to live expires when only tokens whose EXPIRE is not sent yet still live.
ListExpires ==
    /\ fading
    /\ \A j \in listed \cap keys :
            \E r \in Issuing : task[r].at = "listed" /\ j \in task[r].cred
    /\ SetList({})
    /\ stray' = stray \cup (listed \cap keys)
    /\ UNCHANGED <<account, keys, minted, held, task, served, ended>>

\* A command fails or the process stops: what was written stays written.
Abort(r) ==
    /\ task[r] # NoTask
    /\ stray' = IF task[r].at = "stored" THEN stray \cup task[r].cred ELSE stray
    /\ Finish(r)
    /\ UNCHANGED <<account, keys, listed, fading, minted, held, ended>>

-----------------------------------------------------------------------------
IssueStep == \E r \in Requests :
    \/ LoginCheck(r)
    \/ \E c \in Codes : GrantCode(r, c)
    \/ \E j \in Tokens : StoreToken(r, j)
    \/ ListToken(r) \/ ReturnToken(r)

RedeemStep == \E r \in Requests :
    \/ \E k \in Credentials : RedeemRead(r, k)
    \/ RedeemDelete(r)

LogoutStep == \E r \in Requests :
    \/ \E j \in Tokens : LogoutDelete(r, j)
    \/ LogoutRemove(r)
    \/ LogoutAllRead(r) \/ LogoutAllDelete(r)

DeleteStep == \E r \in Requests :
    \/ DeleteFind(r) \/ DeleteAccount(r) \/ DeleteRead(r)
    \/ DeleteKeys(r) \/ DeleteList(r)

ExpireStep == (\E k \in Credentials : Expire(k)) \/ ListExpires

AbortStep == \E r \in Requests : Abort(r)

Next == IssueStep \/ RedeemStep \/ LogoutStep \/ DeleteStep \/ ExpireStep \/ AbortStep

Spec == Init /\ [][Next]_vars

-----------------------------------------------------------------------------
(* Properties *)

\* Logging out everywhere finds every live session in the list, except one
\* whose handler is about to list it and those the list is known to have lost:
\* to a revocation that overlapped their issue, to a stop in between, or to an
\* expiry that came between their SADD and EXPIRE.
LiveTokensAreListed == keys \cap Tokens \subseteq listed \cup Storing \cup stray

\* A token or code that was used, logged out, expired, or in some client's hand
\* when all sessions were revoked never works again, unless the list lost it.
RevokedStaysRevoked == ended \cap keys \subseteq stray

\* Nobody is logged out by what happens to other sessions: a credential a
\* client holds works until it is used, revoked or expires.
LiveUntilRevoked == held \ ended \subseteq keys

\* A deleted account with nothing live and nobody issuing stays closed: no
\* later request of any kind opens a session on it.
Closed == account = "deleted" /\ keys = {} /\ Issuing = {}
ClosedForGood == [][Closed => Closed']_vars

\* Each credential follows the life cycle that TokenLifecycle promises.
Lifecycle == INSTANCE TokenLifecycle WITH
    status <- [k \in Credentials |-> IF k \in keys THEN "live"
                                     ELSE IF k \in minted THEN "dead" ELSE "new"]
FollowsLifecycle == Lifecycle!LifecycleSpec
=============================================================================
