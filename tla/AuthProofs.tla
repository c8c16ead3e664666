----------------------------- MODULE AuthProofs -----------------------------
(***************************************************************************)
(* The two halves of Auth proved for every set of tokens, codes, requests, *)
(* addresses and users.  First RefreshTokens: its invariants, its action   *)
(* property, and that it implements TokenLifecycle; then Accounts.         *)
(*                                                                         *)
(* The inductive invariant says of every handler what it may rely on while *)
(* other commands run: what it has in hand was minted; a token it is about *)
(* to list or return is its own and in no client's hand yet; a token being *)
(* logged out has no key; and a revocation that has read the list has read *)
(* every live token clients held then, except those the list had lost.     *)
(***************************************************************************)
EXTENDS Auth, TLAPS

Handing(r) == task[r] # NoTask /\ task[r].at \in {"stored", "listed"}
Revoking(r) == Doing(r, "logoutAll", "read") \/ Doing(r, "deleteUser", "read")

TaskOK(r) == task[r] # NoTask =>
    /\ task[r].cred \subseteq minted
    /\ task[r].seen \subseteq minted /\ task[r].known \subseteq minted
    /\ task[r].at \in {"issue", "stored", "listed"} => task[r].op \in {"login", "redeem"}
    /\ Handing(r) => task[r].cred \subseteq Tokens /\ task[r].cred \cap held = {}
    /\ task[r].at = "deleted" => task[r].cred \cap keys = {}
    /\ Revoking(r) => task[r].known \cap keys \subseteq task[r].seen \cup stray

TasksOK == \A r \in Requests : TaskOK(r)
OwnTokens == \A r, q \in Requests :
    Handing(r) /\ Handing(q) /\ r # q => task[r].cred \cap task[q].cred = {}
NothingForgotten == minted \subseteq keys \cup ended

IInv ==
    /\ TypeOK /\ TasksOK /\ OwnTokens
    /\ NothingForgotten
    /\ LiveTokensAreListed
    /\ RevokedStaysRevoked

\* A token is being stored when some issuing handler has it in hand.
LEMMA StoringMember ==
    \A j : j \in Storing <=> \E r \in Issuing : task[r].at = "stored" /\ j \in task[r].cred
BY DEF Storing

\* No key, no list and no handler: everything holds.
LEMMA InvInit == Init => IInv
<1>. SUFFICES ASSUME Init PROVE IInv
  OBVIOUS
<1>1. TypeOK
  BY DEF Init, TypeOK
<1>2. TasksOK /\ OwnTokens
  BY DEF Init, TasksOK, OwnTokens, TaskOK, Handing
<1>3. NothingForgotten /\ LiveTokensAreListed /\ RevokedStaysRevoked
  BY DEF Init, NothingForgotten, LiveTokensAreListed, RevokedStaysRevoked
<1>. QED  BY <1>1, <1>2, <1>3 DEF IInv

\* A live token in a client's hands has been listed since: it is listed or lost.
LEMMA HeldAreListed == IInv => held \cap Tokens \cap keys \subseteq listed \cup stray
BY StoringMember DEF IInv, TasksOK, TaskOK, Handing, LiveTokensAreListed, Issuing

-----------------------------------------------------------------------------
(* One lemma per action; the comment names what the action may disturb *)

\* The new handler has nothing in hand.
LEMMA LoginCheckInv == ASSUME IInv, NEW r \in Requests, LoginCheck(r) PROVE IInv'
<1>. USE DEF IInv, LoginCheck, Begin, Running, Doing
<1>1. TypeOK'
  BY DEF TypeOK, Tasks
<1>2. TasksOK'
  BY DEF TasksOK, TaskOK, Handing, Revoking
<1>3. OwnTokens'
  BY DEF Handing, OwnTokens
<1>4. NothingForgotten'
  BY DEF NothingForgotten
<1>5. LiveTokensAreListed'
  BY DEF LiveTokensAreListed, Storing, Issuing
<1>6. RevokedStaysRevoked'
  BY DEF RevokedStaysRevoked
<1>. QED  BY <1>1, <1>2, <1>3, <1>4, <1>5, <1>6

\* A code is no token: the lists and the handlers in flight are as before.
LEMMA GrantCodeInv == ASSUME IInv, NEW r \in Requests, NEW c \in Codes, GrantCode(r, c) PROVE IInv'
<1>. USE DEF IInv, GrantCode, Finish, Running, Doing
<1>1. TypeOK'
  BY DEF TypeOK, Credentials
<1>2. TasksOK'
  BY DEF TasksOK, TaskOK, Handing, Revoking
<1>3. OwnTokens'
  BY DEF Handing, OwnTokens
<1>4. NothingForgotten'
  BY DEF NothingForgotten
<1>5. LiveTokensAreListed'
  <2>1. keys' \cap Tokens = keys \cap Tokens
    OBVIOUS
  <2>2. ASSUME NEW x \in Storing PROVE x \in Storing'
    BY DEF Storing, Issuing
  <2>. QED  BY <2>1, <2>2 DEF LiveTokensAreListed
<1>6. RevokedStaysRevoked'
  BY DEF TypeOK, RevokedStaysRevoked
<1>. QED  BY <1>1, <1>2, <1>3, <1>4, <1>5, <1>6

\* The jti is fresh, so nobody else has it, and this handler will list it.
LEMMA StoreTokenInv == ASSUME IInv, NEW r \in Requests, NEW j \in Tokens, StoreToken(r, j) PROVE IInv'
<1>. USE DEF IInv, StoreToken, Running
<1>1. TypeOK'
  BY DEF TypeOK, TasksOK, TaskOK, Tasks
<1>2. TasksOK'
  BY DEF TypeOK, TasksOK, TaskOK, Tasks
<1>3. OwnTokens'
  BY DEF TypeOK, TasksOK, TaskOK, Handing, OwnTokens
<1>4. NothingForgotten'
  BY DEF NothingForgotten
<1>5. LiveTokensAreListed'
  BY DEF TypeOK, TasksOK, TaskOK, Tasks
<1>6. RevokedStaysRevoked'
  BY DEF TypeOK, RevokedStaysRevoked
<1>. QED  BY <1>1, <1>2, <1>3, <1>4, <1>5, <1>6

\* The token moves from Storing to the list.
LEMMA ListTokenInv == ASSUME IInv, NEW r \in Requests, ListToken(r) PROVE IInv'
<1>. USE DEF IInv, ListToken, GoTo, SetList, Running, Doing
<1>1. TypeOK'
  BY DEF TypeOK, TasksOK, TaskOK, Handing, Tasks
<1>2. TasksOK'
  BY DEF TasksOK, TaskOK, Handing, Revoking
<1>3. OwnTokens'
  BY DEF Handing, OwnTokens
<1>4. NothingForgotten'
  BY DEF NothingForgotten
<1>5. LiveTokensAreListed'
  BY DEF LiveTokensAreListed, Storing, Issuing
<1>6. RevokedStaysRevoked'
  BY DEF RevokedStaysRevoked
<1>. QED  BY <1>1, <1>2, <1>3, <1>4, <1>5, <1>6

\* The token is listed and live, or expired from the list, when the client gets it.
LEMMA ReturnTokenInv == ASSUME IInv, NEW r \in Requests, ReturnToken(r) PROVE IInv'
<1>. USE DEF IInv, ReturnToken, Finish, Running, Doing
<1>1. TypeOK'
  BY DEF TypeOK, TasksOK, TaskOK
<1>2. TasksOK'
  BY DEF TypeOK, TasksOK, TaskOK, Handing, Revoking, OwnTokens
<1>3. OwnTokens'
  BY DEF Handing, OwnTokens
<1>4. NothingForgotten'
  BY DEF NothingForgotten
<1>5. LiveTokensAreListed'
  BY DEF LiveTokensAreListed, Storing, Issuing
<1>6. RevokedStaysRevoked'
  BY DEF RevokedStaysRevoked
<1>. QED  BY <1>1, <1>2, <1>3, <1>4, <1>5, <1>6

\* What is presented was minted.
LEMMA RedeemReadInv == ASSUME IInv, NEW r \in Requests, NEW k \in Credentials, RedeemRead(r, k) PROVE IInv'
<1>. USE DEF IInv, RedeemRead, Begin, Running, Doing
<1>1. TypeOK'
  BY DEF TypeOK, Tasks
<1>2. TasksOK'
  BY DEF TypeOK, TasksOK, TaskOK, Handing, Revoking
<1>3. OwnTokens'
  BY DEF Handing, OwnTokens
<1>4. NothingForgotten'
  BY DEF NothingForgotten
<1>5. LiveTokensAreListed'
  BY DEF LiveTokensAreListed, Storing, Issuing
<1>6. RevokedStaysRevoked'
  BY DEF RevokedStaysRevoked
<1>. QED  BY <1>1, <1>2, <1>3, <1>4, <1>5, <1>6

\* The used credential ends and loses its key.
LEMMA RedeemDeleteInv == ASSUME IInv, NEW r \in Requests, RedeemDelete(r) PROVE IInv'
<1>. USE DEF IInv, RedeemDelete, GoTo, Running, Doing
<1>1. TypeOK'
  BY DEF TypeOK, TasksOK, TaskOK, Tasks
<1>2. TasksOK'
  BY DEF TasksOK, TaskOK, Handing, Revoking
<1>3. OwnTokens'
  BY DEF Handing, OwnTokens
<1>4. NothingForgotten'
  BY DEF NothingForgotten
<1>5. LiveTokensAreListed'
  BY DEF LiveTokensAreListed, Storing, Issuing
<1>6. RevokedStaysRevoked'
  BY DEF RevokedStaysRevoked
<1>. QED  BY <1>1, <1>2, <1>3, <1>4, <1>5, <1>6

\* The token ends and loses its key.
LEMMA LogoutDeleteInv == ASSUME IInv, NEW r \in Requests, NEW j \in Tokens, LogoutDelete(r, j) PROVE IInv'
<1>. USE DEF IInv, LogoutDelete, Begin, Running, Doing
<1>1. TypeOK'
  BY DEF TypeOK, Tasks
<1>2. TasksOK'
  BY DEF TypeOK, TasksOK, TaskOK, Handing, Revoking
<1>3. OwnTokens'
  BY DEF Handing, OwnTokens
<1>4. NothingForgotten'
  BY DEF NothingForgotten
<1>5. LiveTokensAreListed'
  BY DEF LiveTokensAreListed, Storing, Issuing
<1>6. RevokedStaysRevoked'
  BY DEF RevokedStaysRevoked
<1>. QED  BY <1>1, <1>2, <1>3, <1>4, <1>5, <1>6

\* A token without a key leaves the list.
LEMMA LogoutRemoveInv == ASSUME IInv, NEW r \in Requests, LogoutRemove(r) PROVE IInv'
<1>. USE DEF IInv, LogoutRemove, Finish, SetList, Running, Doing
<1>1. TypeOK'
  BY DEF TypeOK
<1>2. TasksOK'
  BY DEF TasksOK, TaskOK, Handing, Revoking
<1>3. OwnTokens'
  BY DEF Handing, OwnTokens
<1>4. NothingForgotten'
  BY DEF NothingForgotten
<1>5. LiveTokensAreListed'
  BY DEF TasksOK, TaskOK, LiveTokensAreListed, Storing, Issuing
<1>6. RevokedStaysRevoked'
  BY DEF RevokedStaysRevoked
<1>. QED  BY <1>1, <1>2, <1>3, <1>4, <1>5, <1>6

\* The list read holds every live token in a client's hands, or the list has lost it.
LEMMA LogoutAllReadInv == ASSUME IInv, NEW r \in Requests, LogoutAllRead(r) PROVE IInv'
<1>. USE DEF IInv, LogoutAllRead, Begin, Running, Doing
<1>1. TypeOK'
  BY DEF TypeOK, Tasks
<1>2. TasksOK'
  BY HeldAreListed DEF TypeOK, TasksOK, TaskOK, Handing, Revoking
<1>3. OwnTokens'
  BY DEF Handing, OwnTokens
<1>4. NothingForgotten'
  BY DEF NothingForgotten
<1>5. LiveTokensAreListed'
  BY DEF LiveTokensAreListed, Storing, Issuing
<1>6. RevokedStaysRevoked'
  BY DEF RevokedStaysRevoked
<1>. QED  BY <1>1, <1>2, <1>3, <1>4, <1>5, <1>6

\* What was read ends and loses its key; a token listed since is lost.
LEMMA LogoutAllDeleteInv == ASSUME IInv, NEW r \in Requests, LogoutAllDelete(r) PROVE IInv'
<1>. USE DEF IInv, LogoutAllDelete, Finish, SetList, Running, Doing
<1>1. TypeOK'
  BY DEF TypeOK, TasksOK, TaskOK
<1>2. TasksOK'
  BY DEF TasksOK, TaskOK, Handing, Revoking
<1>3. OwnTokens'
  BY DEF Handing, OwnTokens
<1>4. NothingForgotten'
  BY DEF NothingForgotten
<1>5. LiveTokensAreListed'
  BY DEF LiveTokensAreListed, Storing, Issuing
<1>6. RevokedStaysRevoked'
  BY DEF TasksOK, TaskOK, Revoking, RevokedStaysRevoked
<1>. QED  BY <1>1, <1>2, <1>3, <1>4, <1>5, <1>6

\* The new handler has nothing in hand.
LEMMA DeleteFindInv == ASSUME IInv, NEW r \in Requests, DeleteFind(r) PROVE IInv'
<1>. USE DEF IInv, DeleteFind, Begin, Running, Doing
<1>1. TypeOK'
  BY DEF TypeOK, Tasks
<1>2. TasksOK'
  BY DEF TasksOK, TaskOK, Handing, Revoking
<1>3. OwnTokens'
  BY DEF Handing, OwnTokens
<1>4. NothingForgotten'
  BY DEF NothingForgotten
<1>5. LiveTokensAreListed'
  BY DEF LiveTokensAreListed, Storing, Issuing
<1>6. RevokedStaysRevoked'
  BY DEF RevokedStaysRevoked
<1>. QED  BY <1>1, <1>2, <1>3, <1>4, <1>5, <1>6

\* Only the user row changes.
LEMMA DeleteAccountInv == ASSUME IInv, NEW r \in Requests, DeleteAccount(r) PROVE IInv'
<1>. USE DEF IInv, DeleteAccount, GoTo, Running, Doing
<1>1. TypeOK'
  BY DEF TypeOK, Tasks
<1>2. TasksOK'
  BY DEF TasksOK, TaskOK, Handing, Revoking
<1>3. OwnTokens'
  BY DEF Handing, OwnTokens
<1>4. NothingForgotten'
  BY DEF NothingForgotten
<1>5. LiveTokensAreListed'
  BY DEF LiveTokensAreListed, Storing, Issuing
<1>6. RevokedStaysRevoked'
  BY DEF RevokedStaysRevoked
<1>. QED  BY <1>1, <1>2, <1>3, <1>4, <1>5, <1>6

\* As for LogoutAllRead.
LEMMA DeleteReadInv == ASSUME IInv, NEW r \in Requests, DeleteRead(r) PROVE IInv'
<1>. USE DEF IInv, DeleteRead, Running, Doing
<1>1. TypeOK'
  <2>1. task[r] \in Tasks
    BY DEF TypeOK
  <2>2. listed \subseteq Tokens /\ held \cap Tokens \subseteq Tokens
    BY DEF TypeOK
  <2>3. [task[r] EXCEPT !.at = "read", !.seen = listed, !.known = held \cap Tokens] \in Tasks
    BY <2>1, <2>2 DEF Tasks
  <2>4. task' = [task EXCEPT ![r] = [task[r] EXCEPT !.at = "read", !.seen = listed, !.known = held \cap Tokens]]
  OBVIOUS
  <2>5. task' \in [Requests -> Tasks \cup {NoTask}]
    BY <2>3 DEF TypeOK
  <2>. QED  BY <2>5 DEF TypeOK
<1>2. TasksOK'
  BY HeldAreListed DEF TypeOK, TasksOK, TaskOK, Handing, Revoking
<1>3. OwnTokens'
  BY DEF TypeOK, Handing, OwnTokens
<1>4. NothingForgotten'
  BY DEF NothingForgotten
<1>5. LiveTokensAreListed'
  BY DEF TypeOK, LiveTokensAreListed, Storing, Issuing
<1>6. RevokedStaysRevoked'
  BY DEF RevokedStaysRevoked
<1>. QED  BY <1>1, <1>2, <1>3, <1>4, <1>5, <1>6

\* What was read ends and loses its key.
LEMMA DeleteKeysInv == ASSUME IInv, NEW r \in Requests, DeleteKeys(r) PROVE IInv'
<1>. USE DEF IInv, DeleteKeys, GoTo, Running, Doing
<1>1. TypeOK'
  BY DEF TypeOK, TasksOK, TaskOK, Tasks
<1>2. TasksOK'
  BY DEF TasksOK, TaskOK, Handing, Revoking
<1>3. OwnTokens'
  BY DEF Handing, OwnTokens
<1>4. NothingForgotten'
  BY DEF NothingForgotten
<1>5. LiveTokensAreListed'
  BY DEF LiveTokensAreListed, Storing, Issuing
<1>6. RevokedStaysRevoked'
  BY DEF TasksOK, TaskOK, Revoking, RevokedStaysRevoked
<1>. QED  BY <1>1, <1>2, <1>3, <1>4, <1>5, <1>6

\* A token listed since the list was read is lost.
LEMMA DeleteListInv == ASSUME IInv, NEW r \in Requests, DeleteList(r) PROVE IInv'
<1>. USE DEF IInv, DeleteList, Finish, SetList, Running, Doing
<1>1. TypeOK'
  BY DEF TypeOK
<1>2. TasksOK'
  BY DEF TasksOK, TaskOK, Handing, Revoking
<1>3. OwnTokens'
  BY DEF Handing, OwnTokens
<1>4. NothingForgotten'
  BY DEF NothingForgotten
<1>5. LiveTokensAreListed'
  BY DEF LiveTokensAreListed, Storing, Issuing
<1>6. RevokedStaysRevoked'
  BY DEF RevokedStaysRevoked
<1>. QED  BY <1>1, <1>2, <1>3, <1>4, <1>5, <1>6

\* What was stored and not listed is lost.
LEMMA AbortInv == ASSUME IInv, NEW r \in Requests, Abort(r) PROVE IInv'
<1>. USE DEF IInv, Abort, Finish, Running, Doing
<1>1. TypeOK'
  BY DEF TypeOK, TasksOK, TaskOK, Handing
<1>2. TasksOK'
  BY DEF TasksOK, TaskOK, Handing, Revoking
<1>3. OwnTokens'
  BY DEF Handing, OwnTokens
<1>4. NothingForgotten'
  BY DEF NothingForgotten
<1>5. LiveTokensAreListed'
  BY DEF LiveTokensAreListed, Storing, Issuing
<1>6. RevokedStaysRevoked'
  BY DEF RevokedStaysRevoked
<1>. QED  BY <1>1, <1>2, <1>3, <1>4, <1>5, <1>6

\* The expired credential ends and loses its key.
LEMMA ExpireInv == ASSUME IInv, NEW k \in Credentials, Expire(k) PROVE IInv'
<1>. USE DEF IInv, Expire, Running, Doing
<1>1. TypeOK'
  BY DEF TypeOK
<1>2. TasksOK'
  BY DEF TasksOK, TaskOK, Handing, Revoking
<1>3. OwnTokens'
  BY DEF Handing, OwnTokens
<1>4. NothingForgotten'
  BY DEF NothingForgotten
<1>5. LiveTokensAreListed'
  BY DEF LiveTokensAreListed, Storing, Issuing
<1>6. RevokedStaysRevoked'
  BY DEF RevokedStaysRevoked
<1>. QED  BY <1>1, <1>2, <1>3, <1>4, <1>5, <1>6

\* Live tokens that were listed and not yet covered by an EXPIRE are lost.
LEMMA ListExpiresInv == ASSUME IInv, ListExpires PROVE IInv'
<1>. USE DEF IInv, ListExpires, SetList, Running, Doing
<1>1. TypeOK'
  BY DEF TypeOK
<1>2. TasksOK'
  BY DEF TasksOK, TaskOK, Handing, Revoking
<1>3. OwnTokens'
  BY DEF Handing, OwnTokens
<1>4. NothingForgotten'
  BY DEF NothingForgotten
<1>5. LiveTokensAreListed'
  BY DEF LiveTokensAreListed, Storing, Issuing
<1>6. RevokedStaysRevoked'
  BY DEF RevokedStaysRevoked
<1>. QED  BY <1>1, <1>2, <1>3, <1>4, <1>5, <1>6

\* The invariant speaks of nothing but the variables.
LEMMA StutterInv == ASSUME IInv, UNCHANGED vars PROVE IInv'
<1>. USE DEF IInv, vars
<1>1. TypeOK'
  BY DEF TypeOK
<1>2. TasksOK' /\ OwnTokens'
  BY DEF TasksOK, TaskOK, OwnTokens, Handing, Revoking, Running, Doing
<1>3. NothingForgotten' /\ RevokedStaysRevoked'
  BY DEF NothingForgotten, RevokedStaysRevoked
<1>4. LiveTokensAreListed'
  BY DEF LiveTokensAreListed, Storing, Issuing
<1>. QED  BY <1>1, <1>2, <1>3, <1>4

-----------------------------------------------------------------------------
\* Every step preserves the invariant.
LEMMA InvNext == IInv /\ [Next]_vars => IInv'
<1>. SUFFICES ASSUME IInv, [Next]_vars PROVE IInv'
  OBVIOUS
<1>1. CASE IssueStep
  BY <1>1, LoginCheckInv, GrantCodeInv, StoreTokenInv, ListTokenInv, ReturnTokenInv DEF IssueStep
<1>2. CASE RedeemStep
  BY <1>2, RedeemReadInv, RedeemDeleteInv DEF RedeemStep
<1>3. CASE LogoutStep
  BY <1>3, LogoutDeleteInv, LogoutRemoveInv, LogoutAllReadInv, LogoutAllDeleteInv DEF LogoutStep
<1>4. CASE DeleteStep
  BY <1>4, DeleteFindInv, DeleteAccountInv, DeleteReadInv, DeleteKeysInv,
     DeleteListInv DEF DeleteStep
<1>5. CASE ExpireStep
  BY <1>5, ExpireInv, ListExpiresInv DEF ExpireStep
<1>6. CASE AbortStep
  BY <1>6, AbortInv DEF AbortStep
<1>7. CASE UNCHANGED vars
  BY <1>7, StutterInv
<1>. QED  BY <1>1, <1>2, <1>3, <1>4, <1>5, <1>6, <1>7 DEF Next

\* The inductive invariant holds whatever order the Redis commands run in.
THEOREM InductiveInvariant == Spec => []IInv
<1>1. Init => IInv
  BY InvInit
<1>2. IInv /\ [Next]_vars => IInv'
  BY InvNext
<1>. QED  BY <1>1, <1>2, PTL DEF Spec

\* Every variable keeps its type: only minted jtis are stored, only tokens are
\* listed (generateTokens, createExchangeToken).
THEOREM TypeCorrect == Spec => []TypeOK
<1>1. IInv => TypeOK
  BY DEF IInv
<1>. QED  BY <1>1, InductiveInvariant, PTL

\* logoutAll and deleteUser can find every live session in the Redis set, except
\* one about to be listed and those the set is known to have lost.
THEOREM SessionsReachable == Spec => []LiveTokensAreListed
<1>1. IInv => LiveTokensAreListed
  BY DEF IInv
<1>. QED  BY <1>1, InductiveInvariant, PTL

\* A token or code that was redeemed, logged out, expired, or held by a client
\* when logoutAll or deleteUser read the list never works again, unless lost.
THEOREM RevocationIsFinal == Spec => []RevokedStaysRevoked
<1>1. IInv => RevokedStaysRevoked
  BY DEF IInv
<1>. QED  BY <1>1, InductiveInvariant, PTL

\* No handler of another session logs a client out: what a client holds works
\* until it is used, revoked or expires.
THEOREM SessionsLast == Spec => []LiveUntilRevoked
<1>1. IInv => LiveUntilRevoked
  BY DEF IInv, TypeOK, NothingForgotten, LiveUntilRevoked
<1>. QED  BY <1>1, InductiveInvariant, PTL

-----------------------------------------------------------------------------
\* On a closed account no handler can start that issues, and none is running.
LEMMA ClosedStep == IInv /\ [Next]_vars => (Closed => Closed')
<1>. SUFFICES ASSUME IInv, Closed, [Next]_vars PROVE Closed'
  OBVIOUS
<1>. USE DEF Closed, Begin, GoTo, Finish, Running, Doing
<1>0. TypeOK /\ \A r \in Requests : task[r] # NoTask =>
                     /\ task[r].op \notin {"login", "redeem"}
                     /\ task[r].at \notin {"issue", "stored", "listed"}
  BY DEF IInv, TasksOK, TaskOK, Issuing
<1>1. CASE IssueStep
  BY <1>0, <1>1 DEF IssueStep, LoginCheck, GrantCode, StoreToken, ListToken, ReturnToken
<1>2. CASE RedeemStep
  BY <1>0, <1>2 DEF RedeemStep, RedeemRead, RedeemDelete
<1>3. CASE LogoutStep
  BY <1>0, <1>3 DEF LogoutStep, LogoutDelete, LogoutRemove, LogoutAllRead, LogoutAllDelete,
     Issuing, TypeOK
<1>4. CASE DeleteStep
  BY <1>0, <1>4 DEF DeleteStep, DeleteFind, DeleteAccount, DeleteRead, DeleteKeys, DeleteList,
     Issuing, TypeOK, Tasks
<1>5. CASE ExpireStep
  BY <1>5 DEF ExpireStep, Expire, ListExpires, Issuing
<1>6. CASE AbortStep
  BY <1>6 DEF AbortStep, Abort, Issuing
<1>7. CASE UNCHANGED vars
  BY <1>7 DEF vars, Issuing
<1>. QED  BY <1>1, <1>2, <1>3, <1>4, <1>5, <1>6, <1>7 DEF Next

\* After deleteUser, once nothing is live and nobody is issuing, no request
\* opens a session again.
THEOREM ClosedAccountsStayClosed == Spec => ClosedForGood
<1>1. IInv /\ [Next]_vars => [Closed => Closed']_vars
  BY ClosedStep
<1>. QED  BY <1>1, InductiveInvariant, PTL DEF Spec, ClosedForGood

-----------------------------------------------------------------------------
(* Refinement: the life cycle of each credential *)

\* A step that only takes keys away ends the credentials it takes.
LEMMA EndingStep ==
    ASSUME TypeOK, keys' \subseteq keys, minted' = minted
    PROVE  Lifecycle!LifecycleNext
<1>1. PICK K \in SUBSET Credentials : K = keys \ keys'
  BY DEF TypeOK
<1>2. Lifecycle!End(K)
  BY <1>1 DEF Lifecycle!End, TypeOK
<1>. QED  BY <1>2 DEF Lifecycle!LifecycleNext

\* A step that stores a fresh key grants that credential.
LEMMA GrantingStep ==
    ASSUME TypeOK, NEW k \in Credentials \ minted,
           keys' = keys \cup {k}, minted' = minted \cup {k}
    PROVE  Lifecycle!LifecycleNext
<1>1. Lifecycle!Grant(k)
  BY DEF Lifecycle!Grant, TypeOK
<1>. QED  BY <1>1 DEF Lifecycle!LifecycleNext

\* Every step is one of these two.
LEMMA LifecycleStep == TypeOK /\ [Next]_vars => Lifecycle!LifecycleNext
<1>. SUFFICES ASSUME TypeOK, [Next]_vars PROVE Lifecycle!LifecycleNext
  OBVIOUS
<1>1. CASE IssueStep
  <2>1. PICK r \in Requests :
          \/ LoginCheck(r) \/ ListToken(r) \/ ReturnToken(r)
          \/ \E c \in Codes : GrantCode(r, c)
          \/ \E j \in Tokens : StoreToken(r, j)
    BY <1>1 DEF IssueStep
  <2>2. CASE LoginCheck(r) \/ ListToken(r) \/ ReturnToken(r)
    BY <2>2, EndingStep DEF LoginCheck, ListToken, ReturnToken
  <2>3. CASE \E c \in Codes : GrantCode(r, c)
    BY <2>3, GrantingStep DEF GrantCode, Credentials
  <2>4. CASE \E j \in Tokens : StoreToken(r, j)
    BY <2>4, GrantingStep DEF StoreToken, Credentials
  <2>. QED  BY <2>1, <2>2, <2>3, <2>4
<1>2. CASE RedeemStep
  BY <1>2, EndingStep DEF RedeemStep, RedeemRead, RedeemDelete
<1>3. CASE LogoutStep
  BY <1>3, EndingStep DEF LogoutStep, LogoutDelete, LogoutRemove, LogoutAllRead, LogoutAllDelete
<1>4. CASE DeleteStep
  BY <1>4, EndingStep DEF DeleteStep, DeleteFind, DeleteAccount, DeleteRead, DeleteKeys, DeleteList
<1>5. CASE ExpireStep \/ AbortStep
  BY <1>5, EndingStep DEF ExpireStep, AbortStep, Expire, ListExpires, Abort
<1>6. CASE UNCHANGED vars
  BY <1>6, EndingStep DEF vars
<1>. QED  BY <1>1, <1>2, <1>3, <1>4, <1>5, <1>6 DEF Next

\* The handlers implement TokenLifecycle: a credential is granted once, and
\* when it has ended no interleaving of the Redis commands brings it back.
THEOREM ImplementsLifecycle == Spec => FollowsLifecycle
<1>1. Init => Lifecycle!LifecycleInit
  BY DEF Init, Lifecycle!LifecycleInit
<1>2. TypeOK /\ [Next]_vars => Lifecycle!LifecycleNext
  BY LifecycleStep
<1>. QED  BY <1>1, <1>2, TypeCorrect, PTL DEF Spec, FollowsLifecycle, Lifecycle!LifecycleSpec

-----------------------------------------------------------------------------
(***************************************************************************)
(* Accounts, as Addresses.                                                 *)
(*                                                                         *)
(* That a code proves anything rests on where it was mailed to: the        *)
(* invariant says of every code in Redis, in a session, in a reset token   *)
(* and in the hands of a request which mailbox got it and for which        *)
(* purpose, that a code which is still being sent is in one place only,    *)
(* and, while no two requests about a user have overlapped, that a pending *)
(* change is for the address its code went to.                             *)
(***************************************************************************)
(* What a request may rely on. *)
\* The mailbox that a code went to, and what it was for.
Mailed(c, e, k) == c \in Addresses!OtpCodes /\ mail[c] = <<e, k>>
MailedFor(c, k) == c \in Addresses!OtpCodes /\ mail[c] # None /\ mail[c][2] = k

\* What a request is at.
PathOK(t) ==
    \/ t.op = "signup1" /\ t.at \in {"store", "window", "mint", "send"}
    \/ t.op = "signup2" /\ t.at \in {"consume", "mark"}
    \/ t.op = "signup3" /\ t.at \in {"insert", "forget", "forgetCode"}
    \/ t.op = "notMe" /\ t.at \in {"forget", "forgetCode"}
    \/ t.op \in {"oauth0", "oauth1"} /\ t.at = "store"
    \/ t.op = "oauth2" /\ t.at \in {"insert", "forget"}
    \/ t.op = "change" /\ t.at \in {"mint", "target", "send"}
    \/ t.op = "verifyChange" /\ t.at \in {"consume", "fetch", "update", "dropTarget", "forgetCode"}
    \/ t.op = "reset" /\ t.at \in {"mint", "send"}
    \/ t.op = "verifyReset" /\ t.at = "consume"

\* Whom it is about.
OwnerOK(t) ==
    /\ t.op \in {"signup1", "signup2", "signup3", "notMe", "oauth0", "oauth1", "oauth2"} =>
           t.email \in Emails /\ t.user = None /\ t.key = <<"signup", t.email>>
    /\ t.op \in {"change", "verifyChange"} => t.user \in Users /\ t.key = <<"change", t.user>>
    /\ t.op \in {"reset", "verifyReset"} => t.user \in Users /\ t.key = <<"reset", t.user>>
    /\ t.op \in {"change", "reset"} \/ t.at = "update" => t.email \in Emails
    /\ t.op \in {"signup2", "signup3"} \/ (t.op = "signup1" /\ t.at = "store") => t.profile \in Profiles
    /\ t.op = "verifyReset" => t.profile = None
    /\ t.op = "verifyChange" => row[t.user] # None

\* The code it has in hand.
CodeOK(t) ==
    /\ t.at \in {"target", "send"} => t.code \in 1..made /\ mail[t.code] = None
    /\ t.op = "signup2" \/ (t.at = "insert" /\ t.op = "signup3") => Mailed(t.code, t.email, t.key)
    /\ t.at = "mark" \/ (t.at = "insert" /\ t.op = "signup3") => <<t.code, t.profile>> \in spent
    /\ t.op \in {"verifyChange", "verifyReset"} => MailedFor(t.code, t.key)

\* The new address, while no other request about the user overlaps.
TargetOK(t) ==
    /\ t.op = "change" /\ t.at \in {"target", "send"} => otp[t.key] \in {0, t.code}
    /\ t.op = "change" /\ t.at = "send" => target[t.user] \in {None, t.email}
    /\ t.op = "verifyChange" /\ t.at \in {"consume", "fetch"} => target[t.user] \in {None, mail[t.code][1]}
    /\ t.op = "verifyChange" /\ t.at = "update" => t.email = mail[t.code][1]

CallOK(t) == t # Addresses!Idle => PathOK(t) /\ OwnerOK(t) /\ CodeOK(t) /\ (t.user \notin raced => TargetOK(t))
CallInv == \A r \in Calls : CallOK(req[r])

Sending(r) == req[r].at \in {"target", "send"}
CodesInv ==
    /\ \A k \in Addresses!Keys : otp[k] # 0 => mail[otp[k]] = None \/ mail[otp[k]][2] = k
    /\ \A k, l \in Addresses!Keys : otp[k] # 0 /\ otp[k] = otp[l] => k = l
    /\ \A r \in Calls, k \in Addresses!Keys : Sending(r) /\ otp[k] = req[r].code => k = req[r].key
    /\ \A r, q \in Calls : Sending(r) /\ Sending(q) /\ req[r].code = req[q].code => r = q
    /\ \A c \in Addresses!OtpCodes, e \in Emails : mail[c] # None /\ mail[c][2] = <<"signup", e>> => mail[c][1] = e

SessionInv == \A e \in Emails : session[e] # None /\ session[e].code # 0 =>
    /\ Mailed(session[e].code, e, <<"signup", e>>)
    /\ <<session[e].code, session[e].profile>> \in spent

TokenInv == \A c \in Addresses!OtpCodes : token[c] # None =>
    MailedFor(c, <<"reset", token[c]>>) /\ <<c, None>> \in spent

RaceInv == \A u \in Users \ raced :
    /\ \A r, q \in Addresses!Changing(u) : r = q
    /\ Addresses!Changing(u) = {} \/ Addresses!Verifying(u) = {}

TargetInv == \A u \in Users \ raced : LET c == otp[<<"change", u>>] IN
    c # 0 /\ mail[c] # None => target[u] \in {None, mail[c][1]}

AddressesInv == /\ Addresses!TypeOK /\ CallInv /\ CodesInv /\ SessionInv /\ TokenInv /\ RaceInv /\ TargetInv
        /\ Addresses!OwnersOnly /\ Addresses!NotMeHolds

-----------------------------------------------------------------------------
(* What most steps leave: codes and addresses go but none comes. *)

Calm ==
    /\ made' = made /\ mail' = mail
    /\ \A k \in Addresses!Keys : otp'[k] \in {otp[k], 0}
    /\ \A u \in Users : target'[u] \in {target[u], None}
    /\ \A u \in Users : row[u] # None => row'[u] # None
    /\ spent \subseteq spent' /\ raced \subseteq raced'

LEMMA CalmTask == ASSUME AddressesInv, Calm, NEW t \in Addresses!Tasks, CallOK(t) PROVE CallOK(t)'
<1>. t # Addresses!Idle
  BY DEF Addresses!Tasks, Addresses!Steps, Addresses!Idle
<1>1. OwnerOK(t)'
  BY DEF CallOK, OwnerOK, Calm
<1>2. CodeOK(t)'
  BY DEF CallOK, CodeOK, Mailed, MailedFor, Calm
<1>3. t.key \in Addresses!Keys
  BY DEF Addresses!Tasks
<1>4. t.user \notin raced' => TargetOK(t)'
  <2>. SUFFICES ASSUME t.user \notin raced' PROVE TargetOK(t)'
    OBVIOUS
  <2>1. t.user \notin raced /\ mail' = mail
    BY DEF Calm
  <2>2. OwnerOK(t) /\ TargetOK(t)
    BY <2>1 DEF CallOK
  <2>. QED  BY <1>3, <2>1, <2>2 DEF TargetOK, OwnerOK, Calm
<1>. QED  BY <1>1, <1>2, <1>4 DEF CallOK, PathOK

LEMMA CalmReq == ASSUME AddressesInv, Calm, \A q \in Calls : req'[q] = req[q] \/ CallOK(req[q])'
                 PROVE  CallInv'
<1>. SUFFICES ASSUME NEW q \in Calls PROVE CallOK(req[q])'
  BY DEF CallInv
<1>1. CASE req'[q] = req[q] /\ req[q] \in Addresses!Tasks
  <2>. DEFINE t == req[q]
  <2>1. CallOK(t)
    BY DEF AddressesInv, CallInv
  <2>2. \A x \in Addresses!Tasks : CallOK(x) => CallOK(x)'
    BY CalmTask
  <2>3. PICK x : x = req[q]
    OBVIOUS
  <2>4. CallOK(x)'
    BY <1>1, <2>1, <2>2, <2>3
  <2>. QED  BY <1>1, <2>3, <2>4 DEF CallOK, PathOK, OwnerOK, CodeOK, TargetOK, Mailed, MailedFor
<1>2. CASE req'[q] = req[q] /\ req[q] = Addresses!Idle
  BY <1>2 DEF CallOK
<1>. QED  BY <1>1, <1>2 DEF AddressesInv, Addresses!TypeOK

LEMMA CalmCodes == ASSUME AddressesInv, Calm, \A q \in Calls : Sending(q)' => req'[q] = req[q]
                   PROVE  CodesInv'
<1>. \A k \in Addresses!Keys : otp'[k] # 0 => otp'[k] = otp[k]
  BY DEF Calm
<1>1. \A q \in Calls : Sending(q) => req[q].code # 0
  <2>. SUFFICES ASSUME NEW q \in Calls, Sending(q) PROVE req[q].code # 0
    OBVIOUS
  <2>1. req[q] # Addresses!Idle /\ CallOK(req[q])
    BY DEF AddressesInv, CallInv, Sending, Addresses!Idle
  <2>. QED  BY <2>1, ProperConstants DEF AddressesInv, CallOK, CodeOK, Sending, Addresses!TypeOK,
               Addresses!SomeCodes
<1>2. mail' = mail
  BY DEF Calm
<1>3. \A q \in Calls : Sending(q)' => Sending(q) /\ req'[q] = req[q]
  BY DEF Sending
<1>. QED  BY <1>1, <1>2, <1>3 DEF AddressesInv, CodesInv

LEMMA CalmTarget == ASSUME AddressesInv, Calm PROVE TargetInv'
<1>. SUFFICES ASSUME NEW u \in Users, u \notin raced', otp'[<<"change", u>>] # 0,
                     mail'[otp'[<<"change", u>>]] # None
              PROVE  target'[u] \in {None, mail'[otp'[<<"change", u>>]][1]}
  BY DEF TargetInv
<1>1. <<"change", u>> \in Addresses!Keys
  BY DEF Addresses!Keys
<1>2. otp'[<<"change", u>>] = otp[<<"change", u>>] /\ u \notin raced /\ mail' = mail
  BY <1>1 DEF Calm
<1>. QED  BY <1>2 DEF AddressesInv, TargetInv, Calm

LEMMA CalmRace == ASSUME AddressesInv, raced \subseteq raced',
                         \A u \in Users : /\ Addresses!Changing(u)' \subseteq Addresses!Changing(u)
                                          /\ Addresses!Verifying(u)' \subseteq Addresses!Verifying(u)
                  PROVE  RaceInv'
BY DEF AddressesInv, RaceInv

\* A request goes from one read to the next: nothing else changes.
Reads(r) ==
    /\ UNCHANGED <<Addresses!rows, Addresses!redis, Addresses!sent, spent, disowned, undone>>
    /\ raced \subseteq raced' /\ raced' \subseteq Users
    /\ req' = [req EXCEPT ![r] = req'[r]]
    /\ req'[r] \in Addresses!Tasks \cup {Addresses!Idle}

LEMMA ReadsCalm == ASSUME NEW r \in Calls, Reads(r) PROVE Calm
BY DEF Reads, Calm, Addresses!rows, Addresses!redis, Addresses!sent

LEMMA ReadsOK == ASSUME AddressesInv, NEW r \in Calls, Reads(r), CallOK(req[r])', ~Sending(r)',
                        RaceInv'
                 PROVE  AddressesInv'
<1>. USE DEF Reads
<1>1. Addresses!TypeOK'
  BY DEF AddressesInv, Addresses!TypeOK, Addresses!rows, Addresses!redis, Addresses!sent
<1>2. \A q \in Calls : q # r => req'[q] = req[q]
  BY DEF AddressesInv, Addresses!TypeOK
<1>3. CallInv'
  BY <1>2, ReadsCalm, CalmReq
<1>4. CodesInv' /\ TargetInv'
  BY <1>2, ReadsCalm, CalmCodes, CalmTarget
<1>5. SessionInv' /\ TokenInv'
  BY DEF AddressesInv, SessionInv, TokenInv, Mailed, MailedFor, Addresses!rows, Addresses!redis,
     Addresses!sent
<1>6. Addresses!OwnersOnly' /\ Addresses!NotMeHolds'
  BY DEF AddressesInv, Addresses!OwnersOnly, Addresses!SignedUpByCode,
     Addresses!ChangedToConfirmed, Addresses!ResetByOwner, Addresses!NotMeHolds, Addresses!rows,
     Addresses!redis, Addresses!sent
<1>. QED  BY <1>1, <1>3, <1>4, <1>5, <1>6 DEF AddressesInv

\* A request that arrives with nothing yet to be told of, moves on about the
\* same, or ends, does not overlap another one.
LEMMA ReadsRace == ASSUME AddressesInv, NEW r \in Calls, Reads(r),
                          \/ req'[r] = Addresses!Idle
                          \/ req'[r].op \notin {"change", "verifyChange"}
                          \/ req[r] # Addresses!Idle /\ req'[r].op = req[r].op /\ req'[r].user = req[r].user
                   PROVE  RaceInv'
<1>1. \A q \in Calls : q # r => req'[q] = req[q]
  BY DEF Reads, AddressesInv, Addresses!TypeOK
<1>2. \A u \in Users : /\ Addresses!Changing(u)' \subseteq Addresses!Changing(u)
                       /\ Addresses!Verifying(u)' \subseteq Addresses!Verifying(u)
  BY <1>1 DEF Addresses!Changing, Addresses!Verifying
<1>. QED  BY <1>2, CalmRace DEF Reads

LEMMA KeyOf == /\ \A e \in Emails : <<"signup", e>> \in Addresses!Keys
               /\ \A u \in Users : <<"change", u>> \in Addresses!Keys /\ <<"reset", u>> \in Addresses!Keys
BY DEF Addresses!Keys

LEMMA BeginType == ASSUME AddressesInv, NEW r \in Calls, NEW t \in Addresses!Tasks,
                          Addresses!At(r, "idle"), req' = [req EXCEPT ![r] = t]
                   PROVE  req' = [req EXCEPT ![r] = req'[r]] /\ req'[r] = t /\ req[r] = Addresses!Idle
BY DEF Addresses!At, AddressesInv, Addresses!TypeOK, Addresses!Tasks, Addresses!Steps,
   Addresses!Idle

LEMMA SignUp1Step == ASSUME AddressesInv, NEW r \in Calls, NEW e \in Emails, NEW p \in Profiles,
                            Addresses!SignUp1(r, e, p)
                     PROVE  AddressesInv'
<1>. USE DEF Addresses!SignUp1
<1>1. /\ req' = [req EXCEPT ![r] = req'[r]] /\ req'[r] \in Addresses!Tasks
      /\ req'[r] = [op |-> "signup1", at |-> "store", key |-> <<"signup", e>>, email |-> e,
                    user |-> None, profile |-> p, code |-> 0]
  <2>. DEFINE t == [op |-> "signup1", at |-> "store", key |-> <<"signup", e>>, email |-> e,
                  user |-> None, profile |-> p, code |-> 0]
  <2>1. t \in Addresses!Tasks
    BY KeyOf, ProperConstants DEF Addresses!Ops, Addresses!Steps, Addresses!SomeCodes,
       Addresses!Tasks
  <2>2. Addresses!At(r, "idle") /\ req' = [req EXCEPT ![r] = t]
    BY DEF Addresses!Begin
  <2>. HIDE DEF t
  <2>3. req' = [req EXCEPT ![r] = req'[r]] /\ req'[r] = t
    BY <2>1, <2>2, BeginType
  <2>. QED  BY <2>1, <2>3 DEF t
<1>2. Reads(r)
  BY <1>1 DEF Reads, Addresses!history, AddressesInv, Addresses!TypeOK
<1>3. CallOK(req[r])' /\ ~Sending(r)'
  BY <1>1 DEF CallOK, PathOK, OwnerOK, CodeOK, TargetOK, Sending
<1>. QED  BY <1>1, <1>2, <1>3, ReadsRace, ReadsOK

LEMMA ResendStep == ASSUME AddressesInv, NEW r \in Calls, NEW e \in Emails, Addresses!Resend(r, e)
                    PROVE  AddressesInv'
<1>. USE DEF Addresses!Resend
<1>1. /\ req' = [req EXCEPT ![r] = req'[r]] /\ req'[r] \in Addresses!Tasks
      /\ req'[r] = [op |-> "signup1", at |-> "mint", key |-> <<"signup", e>>, email |-> e,
                    user |-> None, profile |-> None, code |-> 0]
  <2>. DEFINE t == [op |-> "signup1", at |-> "mint", key |-> <<"signup", e>>, email |-> e,
                  user |-> None, profile |-> None, code |-> 0]
  <2>1. t \in Addresses!Tasks
    BY KeyOf, ProperConstants DEF Addresses!Ops, Addresses!Steps, Addresses!SomeCodes,
       Addresses!Tasks
  <2>2. Addresses!At(r, "idle") /\ req' = [req EXCEPT ![r] = t]
    BY DEF Addresses!Begin
  <2>. HIDE DEF t
  <2>3. req' = [req EXCEPT ![r] = req'[r]] /\ req'[r] = t
    BY <2>1, <2>2, BeginType
  <2>. QED  BY <2>1, <2>3 DEF t
<1>2. Reads(r)
  BY <1>1 DEF Reads, Addresses!history, AddressesInv, Addresses!TypeOK
<1>3. CallOK(req[r])' /\ ~Sending(r)'
  BY <1>1 DEF CallOK, PathOK, OwnerOK, CodeOK, TargetOK, Sending
<1>. QED  BY <1>1, <1>2, <1>3, ReadsRace, ReadsOK

LEMMA ResetMailStep == ASSUME AddressesInv, NEW r \in Calls, NEW u \in Users,
                              Addresses!ResetMail(r, u)
                       PROVE  AddressesInv'
<1>. USE DEF Addresses!ResetMail
<1>0. row[u].email \in Emails
  BY DEF AddressesInv, Addresses!TypeOK, Addresses!Accounts
<1>1. /\ req' = [req EXCEPT ![r] = req'[r]] /\ req'[r] \in Addresses!Tasks
      /\ req'[r] = [op |-> "reset", at |-> "mint", key |-> <<"reset", u>>, email |-> row[u].email,
                    user |-> u, profile |-> None, code |-> 0]
  <2>. DEFINE t == [op |-> "reset", at |-> "mint", key |-> <<"reset", u>>, email |-> row[u].email,
                  user |-> u, profile |-> None, code |-> 0]
  <2>0. \A x \in Emails : [op |-> "reset", at |-> "mint", key |-> <<"reset", u>>, email |-> x,
                             user |-> u, profile |-> None, code |-> 0] \in Addresses!Tasks
    <3>. HIDE DEF Addresses!ResetMail
    <3>1. <<"reset", u>> \in Addresses!Keys
      BY KeyOf
    <3>2. 0 \in 0..MaxCodes
      BY ProperConstants DEF Addresses!SomeCodes
    <3>. QED  BY <3>1, <3>2 DEF Addresses!Ops, Addresses!Steps, Addresses!Tasks
  <2>1. t \in Addresses!Tasks
    BY <1>0, <2>0
  <2>2. Addresses!At(r, "idle") /\ req' = [req EXCEPT ![r] = t]
    BY DEF Addresses!Begin
  <2>. HIDE DEF t
  <2>3. req' = [req EXCEPT ![r] = req'[r]] /\ req'[r] = t
    BY <2>1, <2>2, BeginType
  <2>. QED  BY <2>1, <2>3 DEF t
<1>2. Reads(r)
  BY <1>1 DEF Reads, Addresses!history, AddressesInv, Addresses!TypeOK
<1>3. CallOK(req[r])' /\ ~Sending(r)'
  BY <1>0, <1>1 DEF CallOK, PathOK, OwnerOK, CodeOK, TargetOK, Sending
<1>. QED  BY <1>1, <1>2, <1>3, ReadsRace, ReadsOK

LEMMA RightMail == ASSUME AddressesInv, NEW k \in Addresses!Keys, NEW c \in Addresses!OtpCodes,
                          Addresses!Right(k, c)
                   PROVE  MailedFor(c, k)
BY ProperConstants DEF Addresses!Right, MailedFor, AddressesInv, CodesInv, Addresses!OtpCodes,
   Addresses!SomeCodes

LEMMA SignUpMail == ASSUME AddressesInv, NEW c \in Addresses!OtpCodes, NEW e \in Emails,
                           MailedFor(c, <<"signup", e>>)
                    PROVE  Mailed(c, e, <<"signup", e>>)
BY DEF MailedFor, Mailed, AddressesInv, CodesInv, Addresses!TypeOK

LEMMA SignUp2Step == ASSUME AddressesInv, NEW r \in Calls, NEW e \in Emails,
                            NEW c \in Addresses!OtpCodes, Addresses!SignUp2(r, e, c)
                     PROVE  AddressesInv'
<1>. USE DEF Addresses!SignUp2
<1>0. session[e].profile \in Profiles /\ c \in 0..MaxCodes
  BY ProperConstants DEF AddressesInv, Addresses!TypeOK, Addresses!Sessions, Addresses!OtpCodes,
     Addresses!SomeCodes
<1>1. /\ req' = [req EXCEPT ![r] = req'[r]] /\ req'[r] \in Addresses!Tasks
      /\ req'[r] = [op |-> "signup2", at |-> "consume", key |-> <<"signup", e>>, email |-> e,
                    user |-> None, profile |-> session[e].profile, code |-> c]
  <2>. DEFINE t == [op |-> "signup2", at |-> "consume", key |-> <<"signup", e>>, email |-> e,
                  user |-> None, profile |-> session[e].profile, code |-> c]
  <2>1. t \in Addresses!Tasks
    BY <1>0, KeyOf DEF Addresses!Ops, Addresses!Steps, Addresses!Tasks
  <2>2. Addresses!At(r, "idle") /\ req' = [req EXCEPT ![r] = t]
    BY DEF Addresses!Begin
  <2>. HIDE DEF t
  <2>3. req' = [req EXCEPT ![r] = req'[r]] /\ req'[r] = t
    BY <2>1, <2>2, BeginType
  <2>. QED  BY <2>1, <2>3 DEF t
<1>2. Reads(r)
  BY <1>1 DEF Reads, Addresses!history, AddressesInv, Addresses!TypeOK
<1>3. Mailed(c, e, <<"signup", e>>)' /\ c \in Addresses!OtpCodes
  BY RightMail, SignUpMail, KeyOf DEF Mailed, Addresses!sent
<1>4. CallOK(req[r])' /\ ~Sending(r)'
  BY <1>0, <1>1, <1>3 DEF CallOK, PathOK, OwnerOK, CodeOK, TargetOK, Sending
<1>. QED  BY <1>1, <1>2, <1>4, ReadsRace, ReadsOK

LEMMA VerifyResetStep == ASSUME AddressesInv, NEW r \in Calls, NEW u \in Users,
                                NEW c \in Addresses!OtpCodes,
                                Addresses!VerifyReset(r, u, c)
                         PROVE  AddressesInv'
<1>. USE DEF Addresses!VerifyReset
<1>0. c \in 0..MaxCodes
  BY ProperConstants DEF Addresses!OtpCodes, Addresses!SomeCodes
<1>1. /\ req' = [req EXCEPT ![r] = req'[r]] /\ req'[r] \in Addresses!Tasks
      /\ req'[r] = [op |-> "verifyReset", at |-> "consume", key |-> <<"reset", u>>, email |-> None,
                    user |-> u, profile |-> None, code |-> c]
  <2>. DEFINE t == [op |-> "verifyReset", at |-> "consume", key |-> <<"reset", u>>, email |-> None,
                  user |-> u, profile |-> None, code |-> c]
  <2>1. t \in Addresses!Tasks
    BY <1>0, KeyOf DEF Addresses!Ops, Addresses!Steps, Addresses!Tasks
  <2>2. Addresses!At(r, "idle") /\ req' = [req EXCEPT ![r] = t]
    BY DEF Addresses!Begin
  <2>. HIDE DEF t
  <2>3. req' = [req EXCEPT ![r] = req'[r]] /\ req'[r] = t
    BY <2>1, <2>2, BeginType
  <2>. QED  BY <2>1, <2>3 DEF t
<1>2. Reads(r)
  BY <1>1 DEF Reads, Addresses!history, AddressesInv, Addresses!TypeOK
<1>3. MailedFor(c, <<"reset", u>>)'
  BY RightMail, KeyOf DEF MailedFor, Addresses!sent
<1>4. CallOK(req[r])' /\ ~Sending(r)'
  BY <1>0, <1>1, <1>3 DEF CallOK, PathOK, OwnerOK, CodeOK, TargetOK, Sending
<1>. QED  BY <1>1, <1>2, <1>4, ReadsRace, ReadsOK

LEMMA SignUp3Step == ASSUME AddressesInv, NEW r \in Calls, NEW e \in Emails, Addresses!SignUp3(r, e)
                     PROVE  AddressesInv'
<1>. USE DEF Addresses!SignUp3
<1>. DEFINE s == session[e]
<1>0. s.profile \in Profiles /\ s.code \in 0..MaxCodes
  BY DEF AddressesInv, Addresses!TypeOK, Addresses!Sessions
<1>1. /\ req' = [req EXCEPT ![r] = req'[r]] /\ req'[r] \in Addresses!Tasks
      /\ req'[r] = [op |-> "signup3", at |-> "insert", key |-> <<"signup", e>>, email |-> e,
                    user |-> None, profile |-> s.profile, code |-> s.code]
  <2>. DEFINE t == [op |-> "signup3", at |-> "insert", key |-> <<"signup", e>>, email |-> e,
                  user |-> None, profile |-> s.profile, code |-> s.code]
  <2>1. t \in Addresses!Tasks
    BY <1>0, KeyOf DEF Addresses!Ops, Addresses!Steps, Addresses!Tasks
  <2>2. Addresses!At(r, "idle") /\ req' = [req EXCEPT ![r] = t]
    BY DEF Addresses!Begin
  <2>. HIDE DEF t
  <2>3. req' = [req EXCEPT ![r] = req'[r]] /\ req'[r] = t
    BY <2>1, <2>2, BeginType
  <2>. QED  BY <2>1, <2>3 DEF t
<1>2. Reads(r)
  BY <1>1 DEF Reads, Addresses!history, AddressesInv, Addresses!TypeOK
<1>3. Mailed(s.code, e, <<"signup", e>>) /\ <<s.code, s.profile>> \in spent
  BY DEF AddressesInv, SessionInv
<1>4. CallOK(req[r])' /\ ~Sending(r)'
  BY <1>0, <1>1, <1>3 DEF CallOK, PathOK, OwnerOK, CodeOK, TargetOK, Sending, Mailed,
     Addresses!sent, Addresses!history
<1>. QED  BY <1>1, <1>2, <1>4, ReadsRace, ReadsOK

LEMMA NotMeStep == ASSUME AddressesInv, NEW r \in Calls, NEW e \in Emails, Addresses!NotMe(r, e)
                   PROVE  AddressesInv'
<1>. USE DEF Addresses!NotMe
<1>1. /\ req' = [req EXCEPT ![r] = req'[r]] /\ req'[r] \in Addresses!Tasks
      /\ req'[r] = [op |-> "notMe", at |-> "forget", key |-> <<"signup", e>>, email |-> e,
                    user |-> None, profile |-> None, code |-> 0]
  <2>. DEFINE t == [op |-> "notMe", at |-> "forget", key |-> <<"signup", e>>, email |-> e,
                  user |-> None, profile |-> None, code |-> 0]
  <2>1. t \in Addresses!Tasks
    BY KeyOf, ProperConstants DEF Addresses!Ops, Addresses!Steps, Addresses!SomeCodes,
       Addresses!Tasks
  <2>2. Addresses!At(r, "idle") /\ req' = [req EXCEPT ![r] = t]
    BY DEF Addresses!Begin
  <2>. HIDE DEF t
  <2>3. req' = [req EXCEPT ![r] = req'[r]] /\ req'[r] = t
    BY <2>1, <2>2, BeginType
  <2>. QED  BY <2>1, <2>3 DEF t
<1>2. Reads(r)
  BY <1>1 DEF Reads, Addresses!history, AddressesInv, Addresses!TypeOK
<1>3. CallOK(req[r])' /\ ~Sending(r)'
  BY <1>1 DEF CallOK, PathOK, OwnerOK, CodeOK, TargetOK, Sending
<1>. QED  BY <1>1, <1>2, <1>3, ReadsRace, ReadsOK

LEMMA OAuthArrives == ASSUME AddressesInv, NEW r \in Calls, NEW e \in Emails,
                             Addresses!OAuthSignIn(r, e) \/ Addresses!OAuthStep1(r, e) \/ Addresses!OAuthStep2(r, e)
                      PROVE  AddressesInv'
<1>. USE DEF Addresses!OAuthSignIn, Addresses!OAuthStep1, Addresses!OAuthStep2
<1>1. \E op \in {"oauth0", "oauth1", "oauth2"}, at \in {"store", "insert"} :
        /\ op = "oauth2" <=> at = "insert"
        /\ Addresses!Begin(r, op, at, <<"signup", e>>, e, None, None, 0)
  OBVIOUS
<1>2. PICK op \in {"oauth0", "oauth1", "oauth2"}, at \in {"store", "insert"} :
        /\ op = "oauth2" <=> at = "insert"
        /\ Addresses!Begin(r, op, at, <<"signup", e>>, e, None, None, 0)
  BY <1>1
<1>3. /\ req' = [req EXCEPT ![r] = req'[r]] /\ req'[r] \in Addresses!Tasks
      /\ req'[r] = [op |-> op, at |-> at, key |-> <<"signup", e>>, email |-> e,
                    user |-> None, profile |-> None, code |-> 0]
  <2>. DEFINE t == [op |-> op, at |-> at, key |-> <<"signup", e>>, email |-> e,
                  user |-> None, profile |-> None, code |-> 0]
  <2>1. t \in Addresses!Tasks
    BY <1>2, KeyOf, ProperConstants DEF Addresses!Ops, Addresses!Steps, Addresses!SomeCodes,
       Addresses!Tasks
  <2>2. Addresses!At(r, "idle") /\ req' = [req EXCEPT ![r] = t]
    BY <1>2 DEF Addresses!Begin
  <2>. HIDE DEF t
  <2>3. req' = [req EXCEPT ![r] = req'[r]] /\ req'[r] = t
    BY <2>1, <2>2, BeginType
  <2>. QED  BY <2>1, <2>3 DEF t
<1>4. Reads(r)
  BY <1>3 DEF Reads, Addresses!history, AddressesInv, Addresses!TypeOK
<1>5. CallOK(req[r])' /\ ~Sending(r)'
  BY <1>2, <1>3 DEF CallOK, PathOK, OwnerOK, CodeOK, TargetOK, Sending
<1>. QED  BY <1>3, <1>4, <1>5, ReadsRace, ReadsOK

LEMMA StopStep == ASSUME AddressesInv, NEW r \in Calls, Addresses!Stop(r) PROVE AddressesInv'
<1>1. req' = [req EXCEPT ![r] = Addresses!Idle] /\ req'[r] = Addresses!Idle
  BY DEF Addresses!Stop, Addresses!Ends, AddressesInv, Addresses!TypeOK
<1>2. Reads(r)
  BY <1>1 DEF Reads, Addresses!Stop, Addresses!history, AddressesInv, Addresses!TypeOK
<1>3. CallOK(req[r])' /\ ~Sending(r)'
  BY <1>1 DEF CallOK, Sending, Addresses!Idle
<1>. QED  BY <1>1, <1>2, <1>3, ReadsRace, ReadsOK

LEMMA ChangeMailStep == ASSUME AddressesInv, NEW r \in Calls, NEW u \in Users, NEW e \in Emails,
                               Addresses!ChangeMail(r, u, e)
                        PROVE  AddressesInv'
<1>. DEFINE t == [op |-> "change", at |-> "mint", key |-> <<"change", u>>, email |-> e,
                  user |-> u, profile |-> None, code |-> 0]
<1>1. t \in Addresses!Tasks
  <2>1. <<"change", u>> \in Addresses!Keys
    BY KeyOf
  <2>2. 0 \in 0..MaxCodes
    BY ProperConstants DEF Addresses!SomeCodes
  <2>. QED  BY <2>1, <2>2 DEF Addresses!Ops, Addresses!Steps, Addresses!Tasks
<1>2. Addresses!At(r, "idle") /\ req' = [req EXCEPT ![r] = t]
  BY DEF Addresses!ChangeMail, Addresses!Begin
<1>. HIDE DEF t
<1>3. req' = [req EXCEPT ![r] = req'[r]] /\ req'[r] = t /\ req[r] = Addresses!Idle
  BY <1>1, <1>2, BeginType
<1>4. Reads(r)
  BY <1>1, <1>3 DEF Reads, Addresses!ChangeMail, Addresses!history, AddressesInv, Addresses!TypeOK
<1>5. CallOK(req[r])' /\ ~Sending(r)'
  BY <1>3 DEF t, CallOK, PathOK, OwnerOK, CodeOK, TargetOK, Sending
<1>6. \A q \in Calls : q # r => req'[q] = req[q]
  BY <1>3 DEF AddressesInv, Addresses!TypeOK
<1>7. /\ \A w \in Users : w # u => Addresses!Changing(w)' = Addresses!Changing(w)
      /\ \A w \in Users : Addresses!Verifying(w)' = Addresses!Verifying(w)
      /\ Addresses!Changing(u)' = Addresses!Changing(u) \cup {r}
  BY <1>3, <1>6 DEF Addresses!Changing, Addresses!Verifying, t, Addresses!Idle
<1>8. /\ \A w \in Users \ raced' : w \notin raced
      /\ u \notin raced' => Addresses!Changing(u) = {} /\ Addresses!Verifying(u) = {}
  BY DEF Addresses!ChangeMail
<1>9. RaceInv'
  BY <1>7, <1>8 DEF RaceInv, AddressesInv
<1>. QED  BY <1>4, <1>5, <1>9, ReadsOK

LEMMA VerifyChangeStep == ASSUME AddressesInv, NEW r \in Calls, NEW u \in Users,
                                 NEW c \in Addresses!OtpCodes,
                                 Addresses!VerifyChange(r, u, c)
                          PROVE  AddressesInv'
<1>. DEFINE t == [op |-> "verifyChange", at |-> "consume", key |-> <<"change", u>>, email |-> None,
                  user |-> u, profile |-> None, code |-> c]
<1>0. <<"change", u>> \in Addresses!Keys
  BY KeyOf
<1>1. t \in Addresses!Tasks
  <2>2. c \in 0..MaxCodes
    BY ProperConstants DEF Addresses!SomeCodes, Addresses!OtpCodes
  <2>. QED  BY <1>0, <2>2 DEF Addresses!Ops, Addresses!Steps, Addresses!Tasks
<1>2. Addresses!At(r, "idle") /\ req' = [req EXCEPT ![r] = t]
  BY DEF Addresses!VerifyChange, Addresses!Begin
<1>3. MailedFor(c, <<"change", u>>) /\ row[u] # None /\ otp[<<"change", u>>] = c
  BY <1>0, RightMail DEF Addresses!VerifyChange, Addresses!Right
<1>. HIDE DEF t
<1>4. req' = [req EXCEPT ![r] = req'[r]] /\ req'[r] = t /\ req[r] = Addresses!Idle
  BY <1>1, <1>2, BeginType
<1>5. Reads(r)
  BY <1>1, <1>4 DEF Reads, Addresses!VerifyChange, Addresses!history, AddressesInv, Addresses!TypeOK
<1>6. u \notin raced => target[u] \in {None, mail[c][1]}
  BY <1>3, ProperConstants DEF AddressesInv, TargetInv, MailedFor, Addresses!OtpCodes,
     Addresses!SomeCodes
<1>7. mail' = mail /\ row' = row /\ target' = target /\ raced \subseteq raced'
  BY DEF Addresses!VerifyChange, Addresses!rows, Addresses!redis, Addresses!sent
<1>8. CallOK(req[r])' /\ ~Sending(r)'
  BY <1>3, <1>4, <1>6, <1>7 DEF t, CallOK, PathOK, OwnerOK, CodeOK, TargetOK, Sending, MailedFor
<1>9. \A q \in Calls : q # r => req'[q] = req[q]
  BY <1>4 DEF AddressesInv, Addresses!TypeOK
<1>10. /\ \A w \in Users : w # u => Addresses!Verifying(w)' = Addresses!Verifying(w)
       /\ \A w \in Users : Addresses!Changing(w)' = Addresses!Changing(w)
  BY <1>4, <1>9 DEF Addresses!Changing, Addresses!Verifying, t, Addresses!Idle
<1>11. /\ \A w \in Users \ raced' : w \notin raced
       /\ u \notin raced' => Addresses!Changing(u) = {}
  BY DEF Addresses!VerifyChange
<1>12. RaceInv'
  BY <1>10, <1>11 DEF RaceInv, AddressesInv
<1>. QED  BY <1>5, <1>8, <1>12, ReadsOK

-----------------------------------------------------------------------------
(* A request goes on. *)

LEMMA InHand == ASSUME AddressesInv, NEW r \in Calls, req[r].at # "idle"
                PROVE  /\ req[r] \in Addresses!Tasks /\ req[r] # Addresses!Idle
                       /\ PathOK(req[r]) /\ OwnerOK(req[r]) /\ CodeOK(req[r])
                       /\ req[r].user \notin raced => TargetOK(req[r])
<1>1. req[r] \in Addresses!Tasks /\ req[r] # Addresses!Idle
  BY DEF AddressesInv, Addresses!TypeOK, Addresses!Idle
<1>2. CallOK(req[r])
  BY DEF AddressesInv, CallInv
<1>. QED  BY <1>1, <1>2 DEF CallOK

LEMMA Others == ASSUME AddressesInv, NEW r \in Calls,
                       NEW t \in Addresses!Tasks \cup {Addresses!Idle}, req' = [req EXCEPT ![r] = t]
                PROVE  /\ req' = [req EXCEPT ![r] = req'[r]] /\ req'[r] = t
                       /\ req' \in [Calls -> Addresses!Tasks \cup {Addresses!Idle}]
                       /\ \A q \in Calls : q # r => req'[q] = req[q]
BY DEF AddressesInv, Addresses!TypeOK

LEMMA GoesTo == ASSUME AddressesInv, NEW r \in Calls, req[r].at # "idle",
                       NEW at \in Addresses!Steps, Addresses!Goes(r, at)
                PROVE  /\ req' = [req EXCEPT ![r] = req'[r]] /\ req'[r] \in Addresses!Tasks
                       /\ req'[r] = [req[r] EXCEPT !.at = at]
                       /\ req' \in [Calls -> Addresses!Tasks \cup {Addresses!Idle}]
                       /\ \A q \in Calls : q # r => req'[q] = req[q]
<1>1. req[r] \in Addresses!Tasks
  BY InHand
<1>2. [req[r] EXCEPT !.at = at] \in Addresses!Tasks
  BY <1>1 DEF Addresses!Tasks
<1>3. req' = [req EXCEPT ![r] = [req[r] EXCEPT !.at = at]]
  BY DEF Addresses!Goes
<1>. QED  BY <1>2, <1>3, Others

LEMMA EndsThere == ASSUME AddressesInv, NEW r \in Calls, Addresses!Ends(r)
                   PROVE  /\ req' = [req EXCEPT ![r] = req'[r]] /\ req'[r] = Addresses!Idle
                          /\ req' \in [Calls -> Addresses!Tasks \cup {Addresses!Idle}]
                          /\ \A q \in Calls : q # r => req'[q] = req[q]
                          /\ CallOK(req[r])' /\ ~Sending(r)'
<1>1. /\ req' = [req EXCEPT ![r] = req'[r]] /\ req'[r] = Addresses!Idle
      /\ req' \in [Calls -> Addresses!Tasks \cup {Addresses!Idle}]
      /\ \A q \in Calls : q # r => req'[q] = req[q]
  BY Others DEF Addresses!Ends
<1>2. CallOK(req[r])' /\ ~Sending(r)'
  BY <1>1 DEF CallOK, Sending, Addresses!Idle
<1>. QED  BY <1>1, <1>2

LEMMA WindowStep == ASSUME AddressesInv, NEW r \in Calls, Addresses!Window(r) PROVE AddressesInv'
<1>. USE DEF Addresses!Window
<1>1. CASE Addresses!Ends(r)
  <2>1. Reads(r)
    BY <1>1, EndsThere DEF Reads, Addresses!history, AddressesInv, Addresses!TypeOK
  <2>. QED  BY <1>1, <2>1, EndsThere, ReadsRace, ReadsOK
<1>2. CASE Addresses!Goes(r, "mint")
  <2>1. /\ req' = [req EXCEPT ![r] = req'[r]] /\ req'[r] \in Addresses!Tasks
        /\ req'[r] = [req[r] EXCEPT !.at = "mint"]
    BY <1>2, GoesTo DEF Addresses!At, Addresses!Steps
  <2>2. Reads(r)
    BY <2>1 DEF Reads, Addresses!history, AddressesInv, Addresses!TypeOK
  <2>3. req[r] \in Addresses!Tasks /\ req[r] # Addresses!Idle /\ PathOK(req[r]) /\ OwnerOK(req[r])
    BY InHand DEF Addresses!At
  <2>4. req[r].op = "signup1"
    BY <2>3 DEF PathOK, Addresses!At
  <2>5. req'[r].op = "signup1" /\ req'[r].at = "mint" /\ req'[r].user = req[r].user
        /\ req'[r].key = req[r].key /\ req'[r].email = req[r].email
    BY <2>1, <2>3, <2>4 DEF Addresses!Tasks
  <2>6. CallOK(req[r])' /\ ~Sending(r)'
    BY <2>3, <2>4, <2>5 DEF CallOK, PathOK, OwnerOK, CodeOK, TargetOK, Sending
  <2>. QED  BY <2>2, <2>3, <2>4, <2>5, <2>6, ReadsRace, ReadsOK
<1>. QED  BY <1>1, <1>2

LEMMA FetchStep == ASSUME AddressesInv, NEW r \in Calls, Addresses!Fetch(r) PROVE AddressesInv'
<1>. DEFINE e == target[req[r].user]
<1>1. CASE Addresses!Ends(r)
  <2>1. Reads(r)
    BY <1>1, EndsThere DEF Addresses!Fetch, Reads, Addresses!history, AddressesInv, Addresses!TypeOK
  <2>. QED  BY <1>1, <2>1, EndsThere, ReadsRace, ReadsOK
<1>2. CASE e # None /\ req' = [req EXCEPT ![r].at = "update", ![r].email = e]
  <2>1. /\ req[r] \in Addresses!Tasks /\ req[r] # Addresses!Idle /\ PathOK(req[r]) /\ OwnerOK(req[r]) /\ CodeOK(req[r])
        /\ req[r].user \notin raced => TargetOK(req[r])
    BY InHand DEF Addresses!At, Addresses!Fetch
  <2>2. req[r].op = "verifyChange" /\ req[r].at = "fetch" /\ req[r].user \in Users
    BY <2>1 DEF PathOK, OwnerOK, Addresses!Fetch, Addresses!At
  <2>3. e \in Emails
    BY <1>2, <2>2 DEF AddressesInv, Addresses!TypeOK
  <2>4. PICK t : t = [req[r] EXCEPT !.at = "update", !.email = e]
    OBVIOUS
  <2>5. /\ t \in Addresses!Tasks /\ t.op = "verifyChange" /\ t.at = "update" /\ t.user = req[r].user
        /\ t.key = req[r].key /\ t.email = e /\ t.code = req[r].code
    <3>. HIDE DEF e
    <3>. QED  BY <2>1, <2>2, <2>3, <2>4 DEF Addresses!Tasks, Addresses!Steps
  <2>6. req' = [req EXCEPT ![r] = t]
    BY <1>2, <2>1, <2>4 DEF AddressesInv, Addresses!TypeOK
  <2>7. req' = [req EXCEPT ![r] = req'[r]] /\ req'[r] = t
    BY <2>5, <2>6, Others
  <2>8. Reads(r)
    BY <2>5, <2>7 DEF Reads, Addresses!Fetch, Addresses!history, AddressesInv, Addresses!TypeOK
  <2>9. TargetOK(req[r]) => t.email = mail[t.code][1]
    BY <1>2, <2>2, <2>5 DEF TargetOK
  <2>10. mail' = mail /\ row' = row /\ raced' = raced
    BY DEF Addresses!Fetch, Addresses!rows, Addresses!sent, Addresses!history
  <2>11. CallOK(req[r])' /\ ~Sending(r)'
    <3>. HIDE DEF e
    <3>1. OwnerOK(t)' /\ PathOK(t)
      BY <2>1, <2>2, <2>3, <2>5, <2>10 DEF OwnerOK, PathOK
    <3>2. CodeOK(t)'
      BY <2>1, <2>2, <2>5, <2>10 DEF CodeOK, MailedFor
    <3>3. t.user \notin raced' => TargetOK(t)'
      BY <2>1, <2>5, <2>9, <2>10 DEF TargetOK
    <3>. QED  BY <2>5, <2>7, <3>1, <3>2, <3>3
            DEF CallOK, PathOK, OwnerOK, CodeOK, TargetOK, Mailed, MailedFor, Sending
  <2>. QED  BY <2>1, <2>2, <2>5, <2>7, <2>8, <2>11, ReadsRace, ReadsOK
<1>. QED  BY <1>1, <1>2 DEF Addresses!Fetch

-----------------------------------------------------------------------------
(* Steps that change what Redis has. *)

LEMMA GoesRace == ASSUME AddressesInv, NEW r \in Calls, raced \subseteq raced',
                         \A q \in Calls : q # r => req'[q] = req[q],
                         \/ req'[r] = Addresses!Idle
                         \/ req[r] # Addresses!Idle /\ req'[r].op = req[r].op /\ req'[r].user = req[r].user
                  PROVE  RaceInv'
<1>1. \A u \in Users : /\ Addresses!Changing(u)' \subseteq Addresses!Changing(u)
                       /\ Addresses!Verifying(u)' \subseteq Addresses!Verifying(u)
  BY DEF Addresses!Changing, Addresses!Verifying
<1>. QED  BY <1>1, CalmRace

LEMMA GoesKeeps == ASSUME AddressesInv, NEW r \in Calls, req[r].at # "idle",
                          NEW at \in Addresses!Steps, Addresses!Goes(r, at)
                   PROVE  /\ req'[r].at = at /\ req'[r].op = req[r].op /\ req'[r].key = req[r].key
                          /\ req'[r].email = req[r].email /\ req'[r].user = req[r].user
                          /\ req'[r].profile = req[r].profile /\ req'[r].code = req[r].code
                          /\ raced \subseteq raced' => RaceInv'
<1>1. req[r] \in Addresses!Tasks /\ req[r] # Addresses!Idle
  BY InHand
<1>2. req'[r] = [req[r] EXCEPT !.at = at] /\ \A q \in Calls : q # r => req'[q] = req[q]
  BY GoesTo
<1>3. /\ req'[r].at = at /\ req'[r].op = req[r].op /\ req'[r].key = req[r].key
      /\ req'[r].email = req[r].email /\ req'[r].user = req[r].user
      /\ req'[r].profile = req[r].profile /\ req'[r].code = req[r].code
  BY <1>1, <1>2 DEF Addresses!Tasks
<1>. QED  BY <1>1, <1>2, <1>3, GoesRace

LEMMA EndsRace == ASSUME AddressesInv, NEW r \in Calls, Addresses!Ends(r), raced \subseteq raced'
                  PROVE  RaceInv'
BY EndsThere, GoesRace

LEMMA CalmSession == ASSUME AddressesInv, Calm,
                            \A e \in Emails : \/ session'[e] \in {session[e], None}
                                              \/ session'[e].code = 0
                     PROVE  SessionInv'
BY DEF AddressesInv, SessionInv, Calm, Mailed

LEMMA CalmToken == ASSUME AddressesInv, Calm, token' = token PROVE TokenInv'
BY DEF AddressesInv, TokenInv, Calm, MailedFor

LEMMA CalmOwners == ASSUME AddressesInv, Calm, UNCHANGED Addresses!rows PROVE Addresses!OwnersOnly'
BY DEF AddressesInv, Addresses!OwnersOnly, Addresses!SignedUpByCode,
   Addresses!ChangedToConfirmed, Addresses!ResetByOwner, Calm, Addresses!rows

LEMMA CalmOK == ASSUME AddressesInv, Calm, NEW r \in Calls,
                       \A q \in Calls : q # r => req'[q] = req[q],
                       CallOK(req[r])', ~Sending(r)', Addresses!TypeOK', RaceInv',
                       UNCHANGED Addresses!rows, SessionInv', TokenInv', Addresses!NotMeHolds'
                PROVE  AddressesInv'
<1>1. CallInv' /\ CodesInv' /\ TargetInv' /\ Addresses!OwnersOnly'
  BY CalmReq, CalmCodes, CalmTarget, CalmOwners
<1>. QED  BY <1>1 DEF AddressesInv

LEMMA StoreSessionStep == ASSUME AddressesInv, NEW r \in Calls, Addresses!StoreSession(r)
                          PROVE  AddressesInv'
<1>. DEFINE e == req[r].email
<1>0. /\ session' = [session EXCEPT ![e] = [profile |-> req[r].profile, code |-> 0]]
      /\ disowned' = disowned \ {e} /\ undone' = undone \ {e}
      /\ Addresses!Goes(r, "window") /\ req[r].op = "signup1" /\ req[r].at = "store"
      /\ UNCHANGED <<Addresses!rows, oauth, otp, target, Addresses!sent, spent, raced>>
  BY DEF Addresses!StoreSession, Addresses!Doing, Addresses!At
<1>1. req[r] \in Addresses!Tasks /\ req[r] # Addresses!Idle /\ PathOK(req[r]) /\ OwnerOK(req[r])
  BY <1>0, InHand
<1>2. /\ req' \in [Calls -> Addresses!Tasks \cup {Addresses!Idle}] /\ \A q \in Calls : q # r => req'[q] = req[q]
      /\ req'[r].at = "window" /\ req'[r].op = "signup1" /\ req'[r].key = req[r].key
      /\ req'[r].email = req[r].email /\ req'[r].user = req[r].user /\ RaceInv'
  BY <1>0, GoesTo, GoesKeeps DEF Addresses!Steps
<1>3. e \in Emails /\ req[r].profile \in Profiles
  BY <1>0, <1>1 DEF OwnerOK
<1>. HIDE DEF e
<1>4. Calm
  BY <1>0 DEF Calm, Addresses!rows, Addresses!sent
<1>5. CallOK(req[r])' /\ ~Sending(r)'
  BY <1>0, <1>1, <1>2 DEF CallOK, PathOK, OwnerOK, CodeOK, TargetOK, Sending
<1>6. [profile |-> req[r].profile, code |-> 0] \in Addresses!Sessions
  BY <1>3, ProperConstants DEF Addresses!Sessions, Addresses!SomeCodes
<1>7. /\ session' \in [Emails -> Addresses!Sessions \cup {None}]
      /\ \A f \in Emails : IF f = e THEN session'[f].code = 0 ELSE session'[f] = session[f]
  BY <1>0, <1>3, <1>6 DEF AddressesInv, Addresses!TypeOK
<1>8. Addresses!TypeOK'
  BY <1>0, <1>2, <1>7 DEF AddressesInv, Addresses!TypeOK, Addresses!rows, Addresses!sent
<1>9. SessionInv' /\ TokenInv'
  BY <1>0, <1>4, <1>7, CalmSession, CalmToken DEF Addresses!sent
<1>10. Addresses!NotMeHolds'
  BY <1>0, <1>7 DEF AddressesInv, Addresses!NotMeHolds, Addresses!TypeOK
<1>. QED  BY <1>0, <1>2, <1>4, <1>5, <1>8, <1>9, <1>10, CalmOK

LEMMA StoreOAuthStep == ASSUME AddressesInv, NEW r \in Calls, Addresses!StoreOAuth(r)
                        PROVE  AddressesInv'
<1>. USE DEF Addresses!StoreOAuth
<1>1. Calm /\ UNCHANGED Addresses!rows /\ RaceInv'
  BY EndsRace DEF Calm, Addresses!rows, Addresses!sent, Addresses!history
<1>2. Addresses!TypeOK'
  BY EndsThere DEF AddressesInv, Addresses!TypeOK, Addresses!rows, Addresses!sent, Addresses!history
<1>3. SessionInv' /\ TokenInv' /\ Addresses!NotMeHolds'
  BY <1>1, CalmSession, CalmToken DEF Addresses!sent, Addresses!history, Addresses!NotMeHolds,
     AddressesInv
<1>. QED  BY <1>1, <1>2, <1>3, EndsThere, CalmOK

LEMMA ForgetOAuthStep == ASSUME AddressesInv, NEW r \in Calls, Addresses!ForgetOAuth(r)
                         PROVE  AddressesInv'
<1>. USE DEF Addresses!ForgetOAuth
<1>1. Calm /\ UNCHANGED Addresses!rows /\ RaceInv'
  BY EndsRace DEF Calm, Addresses!rows, Addresses!sent, Addresses!history
<1>2. Addresses!TypeOK'
  BY EndsThere DEF AddressesInv, Addresses!TypeOK, Addresses!rows, Addresses!sent, Addresses!history
<1>3. SessionInv' /\ TokenInv' /\ Addresses!NotMeHolds'
  BY <1>1, CalmSession, CalmToken DEF Addresses!sent, Addresses!history, Addresses!NotMeHolds,
     AddressesInv
<1>. QED  BY <1>1, <1>2, <1>3, EndsThere, CalmOK

LEMMA ForgetSessionStep == ASSUME AddressesInv, NEW r \in Calls, Addresses!ForgetSession(r)
                           PROVE  AddressesInv'
<1>. DEFINE e == req[r].email
<1>0. /\ session' = [session EXCEPT ![e] = None]
      /\ disowned' = IF req[r].op = "notMe" THEN disowned \cup {e} ELSE disowned
      /\ undone' = undone \ {e}
      /\ Addresses!Goes(r, "forgetCode") /\ req[r].op # "oauth2" /\ req[r].at = "forget"
      /\ UNCHANGED <<Addresses!rows, oauth, otp, target, Addresses!sent, spent, raced>>
  BY DEF Addresses!ForgetSession, Addresses!At
<1>1. req[r] \in Addresses!Tasks /\ req[r] # Addresses!Idle /\ PathOK(req[r]) /\ OwnerOK(req[r]) /\ CodeOK(req[r])
  BY <1>0, InHand
<1>2. /\ req' \in [Calls -> Addresses!Tasks \cup {Addresses!Idle}] /\ \A q \in Calls : q # r => req'[q] = req[q]
      /\ req'[r].at = "forgetCode" /\ req'[r].op = req[r].op /\ req'[r].key = req[r].key
      /\ req'[r].email = req[r].email /\ req'[r].user = req[r].user /\ RaceInv'
      /\ req'[r].profile = req[r].profile
  BY <1>0, GoesTo, GoesKeeps DEF Addresses!Steps
<1>3. e \in Emails /\ req[r].op \in {"signup3", "notMe"}
  BY <1>0, <1>1 DEF OwnerOK, PathOK
<1>. HIDE DEF e
<1>4. Calm
  BY <1>0 DEF Calm, Addresses!rows, Addresses!sent
<1>5. CallOK(req[r])' /\ ~Sending(r)'
  BY <1>0, <1>1, <1>2, <1>3 DEF CallOK, PathOK, OwnerOK, CodeOK, TargetOK, Sending
<1>6. /\ session' \in [Emails -> Addresses!Sessions \cup {None}]
      /\ \A f \in Emails : IF f = e THEN session'[f] = None ELSE session'[f] = session[f]
      /\ disowned' \subseteq Emails
  BY <1>0, <1>3 DEF AddressesInv, Addresses!TypeOK
<1>7. Addresses!TypeOK'
  BY <1>0, <1>2, <1>6 DEF AddressesInv, Addresses!TypeOK, Addresses!rows, Addresses!sent
<1>8. SessionInv' /\ TokenInv'
  BY <1>0, <1>4, <1>6, CalmSession, CalmToken DEF Addresses!sent
<1>9. Addresses!NotMeHolds'
  BY <1>0, <1>6 DEF AddressesInv, Addresses!NotMeHolds, Addresses!TypeOK
<1>. QED  BY <1>0, <1>2, <1>4, <1>5, <1>7, <1>8, <1>9, CalmOK

LEMMA DropType == ASSUME AddressesInv, NEW k, Addresses!DropCode(k)
                  PROVE  otp' \in [Addresses!Keys -> 0..made] /\ \A l \in Addresses!Keys : otp'[l] \in {otp[l], 0}
<1>1. made \in Nat /\ otp \in [Addresses!Keys -> 0..made]
  BY ProperConstants DEF AddressesInv, Addresses!TypeOK, Addresses!SomeCodes
<1>2. 0 \in 0..made
  BY <1>1
<1>3. otp' = [otp EXCEPT ![k] = 0]
  BY DEF Addresses!DropCode
<1>. QED  BY <1>1, <1>2, <1>3

LEMMA ForgetCodeStep == ASSUME AddressesInv, NEW r \in Calls, Addresses!ForgetCode(r)
                        PROVE  AddressesInv'
<1>. USE DEF Addresses!ForgetCode
<1>1. Calm /\ UNCHANGED Addresses!rows /\ RaceInv'
  BY DropType, EndsRace DEF Calm, Addresses!rows, Addresses!sent, Addresses!history
<1>2. Addresses!TypeOK'
  BY DropType, EndsThere DEF AddressesInv, Addresses!TypeOK, Addresses!rows, Addresses!sent,
     Addresses!history
<1>3. SessionInv' /\ TokenInv' /\ Addresses!NotMeHolds'
  BY <1>1, CalmSession, CalmToken DEF Addresses!sent, Addresses!history, Addresses!NotMeHolds,
     AddressesInv
<1>. QED  BY <1>1, <1>2, <1>3, EndsThere, CalmOK

LEMMA DropTargetStep == ASSUME AddressesInv, NEW r \in Calls, Addresses!DropTarget(r)
                        PROVE  AddressesInv'
<1>0. /\ target' = [target EXCEPT ![req[r].user] = None] /\ req[r].at = "dropTarget"
      /\ Addresses!Goes(r, "forgetCode")
      /\ UNCHANGED <<Addresses!rows, session, oauth, otp, Addresses!sent, Addresses!history>>
  BY DEF Addresses!DropTarget, Addresses!At
<1>1. req[r] \in Addresses!Tasks /\ req[r] # Addresses!Idle /\ PathOK(req[r]) /\ OwnerOK(req[r]) /\ CodeOK(req[r])
  BY <1>0, InHand
<1>2. /\ req' \in [Calls -> Addresses!Tasks \cup {Addresses!Idle}] /\ \A q \in Calls : q # r => req'[q] = req[q]
      /\ req'[r].at = "forgetCode" /\ req'[r].op = req[r].op /\ req'[r].key = req[r].key
      /\ req'[r].email = req[r].email /\ req'[r].user = req[r].user /\ req'[r].code = req[r].code
      /\ raced \subseteq raced' => RaceInv'
  BY <1>0, GoesTo, GoesKeeps DEF Addresses!Steps
<1>3. req[r].op = "verifyChange" /\ req[r].user \in Users
  BY <1>0, <1>1 DEF OwnerOK, PathOK
<1>4. target' \in [Users -> Emails \cup {None}] /\ \A u \in Users : target'[u] \in {target[u], None}
  BY <1>0, <1>3 DEF AddressesInv, Addresses!TypeOK
<1>5. Calm /\ UNCHANGED Addresses!rows /\ RaceInv'
  BY <1>0, <1>2, <1>4 DEF Calm, Addresses!rows, Addresses!sent, Addresses!history
<1>6. CallOK(req[r])' /\ ~Sending(r)'
  BY <1>0, <1>1, <1>2, <1>3 DEF CallOK, PathOK, OwnerOK, CodeOK, TargetOK, Sending,
     Addresses!rows, Addresses!sent, MailedFor
<1>7. Addresses!TypeOK'
  BY <1>0, <1>2, <1>4 DEF AddressesInv, Addresses!TypeOK, Addresses!rows, Addresses!sent,
     Addresses!history
<1>8. SessionInv' /\ TokenInv' /\ Addresses!NotMeHolds'
  BY <1>0, <1>5, CalmSession, CalmToken DEF Addresses!sent, Addresses!history,
     Addresses!NotMeHolds, AddressesInv
<1>. QED  BY <1>2, <1>5, <1>6, <1>7, <1>8, CalmOK

LEMMA MarkStep == ASSUME AddressesInv, NEW r \in Calls, Addresses!Mark(r) PROVE AddressesInv'
<1>. DEFINE e == req[r].email
            s == [profile |-> req[r].profile, code |-> req[r].code]
<1>0. /\ session' = [session EXCEPT ![e] = s]
      /\ undone' = IF session[e] = None /\ e \in disowned THEN undone \cup {e} ELSE undone
      /\ Addresses!Ends(r) /\ req[r].at = "mark"
      /\ UNCHANGED <<Addresses!rows, oauth, otp, target, Addresses!sent, spent, disowned, raced>>
  BY DEF Addresses!Mark, Addresses!At
<1>1. req[r] \in Addresses!Tasks /\ req[r] # Addresses!Idle /\ PathOK(req[r]) /\ OwnerOK(req[r]) /\ CodeOK(req[r])
  BY <1>0, InHand
<1>2. /\ e \in Emails /\ req[r].profile \in Profiles /\ req[r].code \in 0..MaxCodes
      /\ Mailed(s.code, e, <<"signup", e>>) /\ <<s.code, s.profile>> \in spent
  BY <1>0, <1>1 DEF OwnerOK, PathOK, CodeOK, Addresses!Tasks
<1>3. s \in Addresses!Sessions
  BY <1>2 DEF Addresses!Sessions
<1>4. s.code \in Addresses!OtpCodes /\ mail'[s.code] = <<e, <<"signup", e>>>> /\ <<s.code, s.profile>> \in spent'
  BY <1>0, <1>2 DEF Mailed, Addresses!sent
<1>. HIDE DEF e, s
<1>5. /\ req' \in [Calls -> Addresses!Tasks \cup {Addresses!Idle}] /\ \A q \in Calls : q # r => req'[q] = req[q]
      /\ CallOK(req[r])' /\ ~Sending(r)' /\ RaceInv'
  BY <1>0, EndsThere, EndsRace
<1>6. Calm
  BY <1>0 DEF Calm, Addresses!rows, Addresses!sent
<1>7. /\ session' \in [Emails -> Addresses!Sessions \cup {None}]
      /\ \A f \in Emails : IF f = e THEN session'[f] = s ELSE session'[f] = session[f]
      /\ undone' \subseteq Emails
  BY <1>0, <1>2, <1>3 DEF AddressesInv, Addresses!TypeOK
<1>8. Addresses!TypeOK'
  BY <1>0, <1>5, <1>7 DEF AddressesInv, Addresses!TypeOK, Addresses!rows, Addresses!sent
<1>9. SessionInv'
  <2>. SUFFICES ASSUME NEW f \in Emails, session'[f] # None, session'[f].code # 0
                PROVE  /\ session'[f].code \in Addresses!OtpCodes
                       /\ mail'[session'[f].code] = <<f, <<"signup", f>>>>
                       /\ <<session'[f].code, session'[f].profile>> \in spent'
    BY DEF SessionInv, Mailed
  <2>1. CASE f = e
    <3>1. session'[f] = s
      BY <1>7, <2>1
    <3>. QED  BY <1>4, <2>1, <3>1
  <2>2. CASE f # e
    <3>1. session'[f] = session[f]
      BY <1>7, <2>2
    <3>. QED  BY <1>0, <3>1 DEF AddressesInv, SessionInv, Mailed, Addresses!sent
  <2>. QED  BY <2>1, <2>2
<1>10. TokenInv'
  BY <1>0, <1>6, CalmToken DEF Addresses!sent
<1>11. Addresses!NotMeHolds'
  BY <1>0, <1>7 DEF AddressesInv, Addresses!NotMeHolds, Addresses!TypeOK
<1>. QED  BY <1>0, <1>5, <1>6, <1>8, <1>9, <1>10, <1>11, CalmOK

LEMMA ConsumeStep == ASSUME AddressesInv, NEW r \in Calls, Addresses!Consume(r) PROVE AddressesInv'
<1>. DEFINE t == req[r]
            c == req[r].code
<1>0. /\ t.at = "consume" /\ Addresses!DropCode(t.key) /\ spent' = spent \cup {<<c, t.profile>>}
      /\ UNCHANGED <<Addresses!rows, session, oauth, target, mail, made, disowned, undone, raced>>
      /\ t.op = "signup2" => Addresses!Goes(r, "mark") /\ UNCHANGED token
      /\ t.op = "verifyChange" => Addresses!Goes(r, "fetch") /\ UNCHANGED token
      /\ t.op \notin {"signup2", "verifyChange"} => Addresses!Ends(r) /\ token' = [token EXCEPT ![c] = t.user]
  BY DEF Addresses!Consume, Addresses!At
<1>1. /\ t \in Addresses!Tasks /\ t # Addresses!Idle /\ PathOK(t) /\ OwnerOK(t) /\ CodeOK(t)
      /\ t.user \notin raced => TargetOK(t)
  BY <1>0, InHand
<1>2. t.op \in {"signup2", "verifyChange", "verifyReset"} /\ c \in Addresses!OtpCodes
      /\ <<c, t.profile>> \in Addresses!OtpCodes \X (Profiles \cup {None})
  BY <1>0, <1>1 DEF PathOK, CodeOK, Mailed, MailedFor, Addresses!Tasks
<1>3. /\ req' \in [Calls -> Addresses!Tasks \cup {Addresses!Idle}] /\ \A q \in Calls : q # r => req'[q] = req[q]
      /\ RaceInv'
  <2>1. CASE t.op = "verifyReset"
    BY <1>0, <2>1, EndsThere, EndsRace
  <2>2. CASE t.op = "signup2"
    BY <1>0, <2>2, GoesTo, GoesKeeps DEF Addresses!Steps
  <2>3. CASE t.op = "verifyChange"
    BY <1>0, <2>3, GoesTo, GoesKeeps DEF Addresses!Steps
  <2>. QED  BY <1>2, <2>1, <2>2, <2>3
<1>4. Calm /\ UNCHANGED Addresses!rows
  BY <1>0, DropType DEF Calm, Addresses!rows
<1>5. CallOK(req[r])' /\ ~Sending(r)'
  <2>1. CASE t.op = "verifyReset"
    BY <1>0, <2>1, EndsThere
  <2>2. CASE t.op = "signup2"
    <3>1. /\ req'[r].at = "mark" /\ req'[r].op = "signup2" /\ req'[r].key = t.key
          /\ req'[r].email = t.email /\ req'[r].user = t.user /\ req'[r].code = c
          /\ req'[r].profile = t.profile
      BY <1>0, <2>2, GoesKeeps DEF Addresses!Steps
    <3>2. OwnerOK(req[r])' /\ PathOK(req[r])'
      BY <1>1, <2>2, <3>1 DEF OwnerOK, PathOK
    <3>3. <<c, t.profile>> \in spent' /\ Mailed(c, t.email, t.key) /\ mail' = mail
      BY <1>0, <1>1, <2>2 DEF CodeOK
    <3>4. CodeOK(req[r])'
      BY <2>2, <3>1, <3>3 DEF CodeOK, Mailed
    <3>. QED  BY <2>2, <3>1, <3>2, <3>4 DEF CallOK, TargetOK, Sending
  <2>3. CASE t.op = "verifyChange"
    <3>1. /\ req'[r].at = "fetch" /\ req'[r].op = "verifyChange" /\ req'[r].key = t.key
          /\ req'[r].email = t.email /\ req'[r].user = t.user /\ req'[r].code = c
      BY <1>0, <2>3, GoesKeeps DEF Addresses!Steps
    <3>2. OwnerOK(req[r])' /\ PathOK(req[r])'
      BY <1>0, <1>1, <2>3, <3>1 DEF OwnerOK, PathOK, Addresses!rows
    <3>3. CodeOK(req[r])'
      BY <1>0, <1>1, <2>3, <3>1 DEF CodeOK, MailedFor
    <3>4. req[r].user \notin raced => TargetOK(req[r])'
      BY <1>0, <1>1, <2>3, <3>1 DEF TargetOK
    <3>. QED  BY <1>0, <2>3, <3>1, <3>2, <3>3, <3>4 DEF CallOK, Sending
  <2>. QED  BY <1>2, <2>1, <2>2, <2>3
<1>6. token' \in [Addresses!OtpCodes -> Users \cup {None}]
  <2>1. CASE t.op = "verifyReset"
    <3>1. t.user \in Users
      BY <1>1, <2>1 DEF OwnerOK
    <3>. QED  BY <1>0, <1>2, <2>1, <3>1 DEF AddressesInv, Addresses!TypeOK
  <2>2. CASE t.op # "verifyReset"
    BY <1>0, <1>2, <2>2 DEF AddressesInv, Addresses!TypeOK
  <2>. QED  BY <2>1, <2>2
<1>7. Addresses!TypeOK'
  <2>1. spent' \subseteq Addresses!OtpCodes \X (Profiles \cup {None})
    BY <1>0, <1>2 DEF AddressesInv, Addresses!TypeOK
  <2>2. otp' \in [Addresses!Keys -> 0..made']
    BY <1>0, DropType
  <2>. HIDE DEF t, c
  <2>. QED  BY <1>0, <1>3, <1>6, <2>1, <2>2 DEF AddressesInv, Addresses!TypeOK, Addresses!rows
<1>8. SessionInv' /\ Addresses!NotMeHolds'
  BY <1>0, <1>4, CalmSession DEF Addresses!NotMeHolds, AddressesInv
<1>9. TokenInv'
  <2>1. CASE t.op = "verifyReset"
    <3>1. /\ t.key = <<"reset", t.user>> /\ t.profile = None /\ MailedFor(c, t.key)
          /\ token' = [token EXCEPT ![c] = t.user]
      BY <1>0, <1>1, <2>1 DEF OwnerOK, CodeOK
    <3>2. mail' = mail /\ <<c, None>> \in spent' /\ spent \subseteq spent'
      BY <1>0, <3>1
    <3>3. \A d \in Addresses!OtpCodes : token'[d] = IF d = c THEN t.user ELSE token[d]
      BY <1>2, <3>1 DEF AddressesInv, Addresses!TypeOK
    <3>4. TokenInv
      BY DEF AddressesInv
    <3>. HIDE DEF t, c
    <3>. QED  BY <3>1, <3>2, <3>3, <3>4 DEF TokenInv, MailedFor
  <2>2. CASE t.op # "verifyReset"
    BY <1>0, <1>2, <1>4, <2>2, CalmToken
  <2>. QED  BY <2>1, <2>2
<1>. QED  BY <1>3, <1>4, <1>5, <1>7, <1>8, <1>9, CalmOK

LEMMA CodesExpire == ASSUME AddressesInv, Addresses!Expire PROVE AddressesInv'
<1>0. UNCHANGED <<Addresses!rows, Addresses!sent, req, Addresses!history>>
  BY DEF Addresses!Expire
<1>1. /\ session' \in [Emails -> Addresses!Sessions \cup {None}] /\ \A e \in Emails : session'[e] \in {session[e], None}
      /\ oauth' \in [Emails -> {"none", "asked", "dated"}]
      /\ otp' \in [Addresses!Keys -> 0..made] /\ \A k \in Addresses!Keys : otp'[k] \in {otp[k], 0}
      /\ target' \in [Users -> Emails \cup {None}] /\ \A u \in Users : target'[u] \in {target[u], None}
  <2>1. CASE \E e \in Emails : /\ session' = [session EXCEPT ![e] = None]
                               /\ UNCHANGED <<oauth, otp, target>>
    BY <2>1 DEF AddressesInv, Addresses!TypeOK
  <2>2. CASE \E e \in Emails : /\ oauth' = [oauth EXCEPT ![e] = "none"]
                               /\ UNCHANGED <<session, otp, target>>
    BY <2>2 DEF AddressesInv, Addresses!TypeOK
  <2>3. CASE \E k \in Addresses!Keys : Addresses!DropCode(k) /\ UNCHANGED <<session, oauth, target>>
    BY <2>3, DropType DEF AddressesInv, Addresses!TypeOK
  <2>4. CASE \E u \in Users : /\ target' = [target EXCEPT ![u] = None]
                              /\ UNCHANGED <<session, oauth, otp>>
    BY <2>4 DEF AddressesInv, Addresses!TypeOK
  <2>. QED  BY <2>1, <2>2, <2>3, <2>4 DEF Addresses!Expire
<1>2. Calm
  BY <1>0, <1>1 DEF Calm, Addresses!rows, Addresses!sent, Addresses!history
<1>3. Addresses!TypeOK'
  BY <1>0, <1>1 DEF AddressesInv, Addresses!TypeOK, Addresses!rows, Addresses!sent,
     Addresses!history
<1>4. CallInv' /\ CodesInv' /\ TargetInv' /\ Addresses!OwnersOnly'
  BY <1>0, <1>2, CalmReq, CalmCodes, CalmTarget, CalmOwners
<1>5. RaceInv'
  BY <1>0, CalmRace DEF Addresses!Changing, Addresses!Verifying, Addresses!history
<1>6. SessionInv' /\ TokenInv'
  BY <1>0, <1>1, <1>2, CalmSession, CalmToken DEF Addresses!sent
<1>7. Addresses!NotMeHolds'
  BY <1>0, <1>1 DEF Addresses!NotMeHolds, AddressesInv, Addresses!TypeOK, Addresses!history
<1>. QED  BY <1>3, <1>4, <1>5, <1>6, <1>7 DEF AddressesInv

-----------------------------------------------------------------------------
(* A code is made, and mailed. *)

LEMMA MintStep == ASSUME AddressesInv, NEW r \in Calls, Addresses!Mint(r) PROVE AddressesInv'
<1>. DEFINE t == req[r]
            n == made + 1
            at == IF req[r].op = "change" THEN "target" ELSE "send"
<1>0. /\ t.at = "mint" /\ made < MaxCodes /\ made' = n
      /\ otp' = [otp EXCEPT ![t.key] = n]
      /\ req' = [req EXCEPT ![r].at = at, ![r].code = n]
      /\ UNCHANGED <<Addresses!rows, session, oauth, target, mail, token, Addresses!history>>
  BY DEF Addresses!Mint, Addresses!At
<1>1. /\ t \in Addresses!Tasks /\ t # Addresses!Idle /\ PathOK(t) /\ OwnerOK(t) /\ CodeOK(t)
      /\ t.user \notin raced => TargetOK(t)
  BY <1>0, InHand
<1>2. /\ t.op \in {"signup1", "reset", "change"} /\ t.email \in Emails /\ t.key \in Addresses!Keys
  BY <1>0, <1>1 DEF PathOK, OwnerOK, Addresses!Tasks
<1>3. /\ MaxCodes \in Nat /\ made \in Nat /\ n \in Addresses!OtpCodes /\ n \in 0..MaxCodes
      /\ 0..made \subseteq 0..n /\ n \in 0..n /\ n \in 1..n
  BY <1>0, ProperConstants DEF AddressesInv, Addresses!TypeOK, Addresses!SomeCodes,
     Addresses!OtpCodes
<1>4. mail[n] = None /\ \A c \in 0..made : c # n
  BY <1>3 DEF AddressesInv, Addresses!TypeOK
<1>5. PICK x : x = [t EXCEPT !.at = at, !.code = n]
  OBVIOUS
<1>6. /\ x \in Addresses!Tasks /\ x.op = t.op /\ x.at = at /\ x.user = t.user /\ x.key = t.key
      /\ x.email = t.email
      /\ x.code = n /\ x.profile = t.profile
  <2>1. at \in Addresses!Steps
    BY DEF Addresses!Steps
  <2>. HIDE DEF at, n
  <2>. QED  BY <1>1, <1>3, <1>5, <2>1 DEF Addresses!Tasks
<1>7. req' = [req EXCEPT ![r] = x]
  <2>. HIDE DEF at, n
  <2>. QED  BY <1>0, <1>5 DEF AddressesInv, Addresses!TypeOK
<1>8. /\ req' \in [Calls -> Addresses!Tasks \cup {Addresses!Idle}] /\ \A q \in Calls : q # r => req'[q] = req[q]
      /\ req'[r] = x
  BY <1>6, <1>7, Others
<1>9. /\ otp' \in [Addresses!Keys -> 0..n] /\ otp'[t.key] = n
      /\ \A k \in Addresses!Keys : k # t.key => otp'[k] = otp[k]
      /\ \A k \in Addresses!Keys : otp[k] \in 0..made
  <2>1. otp \in [Addresses!Keys -> 0..made]
    BY DEF AddressesInv, Addresses!TypeOK
  <2>. HIDE DEF n, t
  <2>. QED  BY <1>0, <1>2, <1>3, <2>1
<1>10. RaceInv'
  BY <1>0, <1>1, <1>6, <1>8, GoesRace DEF Addresses!history
<1>. HIDE DEF n
<1>11. \A q \in Calls : Sending(q) => req[q].code \in 1..made
  <2>. SUFFICES ASSUME NEW q \in Calls, Sending(q) PROVE req[q].code \in 1..made
    OBVIOUS
  <2>1. req[q] # Addresses!Idle /\ CallOK(req[q])
    BY DEF AddressesInv, CallInv, Sending, Addresses!Idle
  <2>. QED  BY <2>1 DEF CallOK, CodeOK, Sending
<1>12. CallInv'
  <2>. SUFFICES ASSUME NEW q \in Calls PROVE CallOK(req[q])'
    BY DEF CallInv
  <2>1. CASE q = r
    <3>1. PathOK(x) /\ OwnerOK(x)'
      BY <1>0, <1>1, <1>2, <1>6 DEF PathOK, OwnerOK, Addresses!rows
    <3>2. CodeOK(x)'
      BY <1>0, <1>2, <1>3, <1>4, <1>6 DEF CodeOK
    <3>3. TargetOK(x)'
      BY <1>2, <1>6, <1>9 DEF TargetOK
    <3>. QED  BY <1>8, <2>1, <3>1, <3>2, <3>3
              DEF CallOK, PathOK, OwnerOK, CodeOK, TargetOK, Mailed, MailedFor
  <2>2. CASE q # r /\ req[q] # Addresses!Idle
    <3>1. PICK y : y = req[q]
      OBVIOUS
    <3>2. /\ req'[q] = y /\ y \in Addresses!Tasks /\ y # Addresses!Idle /\ PathOK(y) /\ OwnerOK(y) /\ CodeOK(y)
          /\ y.user \notin raced => TargetOK(y)
      BY <1>8, <2>2, <3>1 DEF AddressesInv, Addresses!TypeOK, CallInv, CallOK, PathOK
    <3>3. OwnerOK(y)'
      BY <1>0, <3>2 DEF OwnerOK, Addresses!rows
    <3>4. CodeOK(y)'
      <4>1. 1..made \subseteq 1..made'
        BY <1>0, <1>3 DEF n
      <4>. QED  BY <1>0, <3>2, <4>1 DEF CodeOK, Mailed, MailedFor, Addresses!history
    <3>5. ASSUME y.user \notin raced PROVE TargetOK(y)'
      <4>1. ASSUME y.op = "change", y.at \in {"target", "send"} PROVE y.key # t.key
        <5>1. SUFFICES ASSUME y.key = t.key PROVE FALSE
          OBVIOUS
        <5>2. t.op = "change" /\ t.user = y.user /\ y.user \in Users
          BY <1>1, <1>2, <3>2, <4>1, <5>1 DEF OwnerOK
        <5>3. q \in Addresses!Changing(y.user) /\ r \in Addresses!Changing(y.user)
          BY <1>1, <2>2, <3>1, <4>1, <5>2 DEF Addresses!Changing
        <5>. QED  BY <2>2, <3>5, <5>2, <5>3 DEF AddressesInv, RaceInv
      <4>2. y.key \in Addresses!Keys
        BY <3>2 DEF Addresses!Tasks
      <4>. QED  BY <1>0, <1>9, <3>2, <3>5, <4>1, <4>2 DEF TargetOK
    <3>. QED  BY <1>0, <3>2, <3>3, <3>4, <3>5
              DEF CallOK, PathOK, OwnerOK, CodeOK, TargetOK, Mailed, MailedFor, Addresses!history
  <2>3. CASE q # r /\ req[q] = Addresses!Idle
    BY <1>8, <2>3 DEF CallOK
  <2>. QED  BY <2>1, <2>2, <2>3
<1>13. CodesInv'
  <2>0. CodesInv /\ mail' = mail
    BY <1>0 DEF AddressesInv
  <2>1. \A k \in Addresses!Keys : otp'[k] # 0 => mail'[otp'[k]] = None \/ mail'[otp'[k]][2] = k
    <3>. SUFFICES ASSUME NEW k \in Addresses!Keys, otp'[k] # 0
                  PROVE  mail'[otp'[k]] = None \/ mail'[otp'[k]][2] = k
      OBVIOUS
    <3>. QED  BY <1>4, <1>9, <2>0 DEF CodesInv
  <2>2. \A k, l \in Addresses!Keys : otp'[k] # 0 /\ otp'[k] = otp'[l] => k = l
    BY <1>4, <1>9, <2>0 DEF CodesInv
  <2>3. \A q \in Calls, k \in Addresses!Keys : Sending(q)' /\ otp'[k] = req'[q].code => k = req'[q].key
    <3>. SUFFICES ASSUME NEW q \in Calls, NEW k \in Addresses!Keys, Sending(q)', otp'[k] = req'[q].code
                  PROVE  k = req'[q].key
      OBVIOUS
    <3>1. CASE q = r
      BY <1>4, <1>6, <1>8, <1>9, <3>1
    <3>2. CASE q # r
      <4>1. req'[q] = req[q] /\ Sending(q)
        BY <1>8, <3>2 DEF Sending
      <4>2. req[q].code # n
        BY <1>3, <1>4, <1>11, <4>1
      <4>. QED  BY <1>9, <2>0, <4>1, <4>2 DEF CodesInv
    <3>. QED  BY <3>1, <3>2
  <2>4. \A q, p \in Calls : Sending(q)' /\ Sending(p)' /\ req'[q].code = req'[p].code => q = p
    <3>1. \A q \in Calls : q # r /\ Sending(q)' => Sending(q) /\ req'[q] = req[q] /\ req[q].code # n
      BY <1>3, <1>4, <1>8, <1>11 DEF Sending
    <3>2. req'[r].code = n
      BY <1>6, <1>8
    <3>. QED  BY <2>0, <3>1, <3>2 DEF CodesInv
  <2>. QED  BY <2>0, <2>1, <2>2, <2>3, <2>4 DEF CodesInv
<1>14. TargetInv'
  <2>. SUFFICES ASSUME NEW u \in Users, u \notin raced', otp'[<<"change", u>>] # 0,
                       mail'[otp'[<<"change", u>>]] # None
                PROVE  target'[u] \in {None, mail'[otp'[<<"change", u>>]][1]}
    BY DEF TargetInv
  <2>1. mail' = mail /\ target' = target /\ raced' = raced /\ <<"change", u>> \in Addresses!Keys
    BY <1>0, KeyOf DEF Addresses!history
  <2>2. <<"change", u>> # t.key
    BY <1>4, <1>9, <2>1
  <2>. QED  BY <1>9, <2>1, <2>2 DEF AddressesInv, TargetInv
<1>15. Addresses!TypeOK'
  <2>1. \A c \in Addresses!OtpCodes : mail[c] # None => c <= n
    BY <1>3 DEF AddressesInv, Addresses!TypeOK, Addresses!OtpCodes, n
  <2>. QED  BY <1>0, <1>3, <1>8, <1>9, <2>1 DEF AddressesInv, Addresses!TypeOK, Addresses!rows,
               Addresses!history
<1>16. SessionInv' /\ TokenInv' /\ Addresses!OwnersOnly' /\ Addresses!NotMeHolds'
  BY <1>0 DEF AddressesInv, SessionInv, TokenInv, Mailed, MailedFor, Addresses!OwnersOnly,
     Addresses!SignedUpByCode,
              Addresses!ChangedToConfirmed, Addresses!ResetByOwner, Addresses!NotMeHolds,
              Addresses!rows, Addresses!history
<1>. QED  BY <1>10, <1>12, <1>13, <1>14, <1>15, <1>16 DEF AddressesInv

LEMMA SetTargetStep == ASSUME AddressesInv, NEW r \in Calls, Addresses!SetTarget(r)
                       PROVE  AddressesInv'
<1>. DEFINE t == req[r]
            u == req[r].user
<1>0. /\ t.at = "target" /\ target' = [target EXCEPT ![u] = t.email] /\ Addresses!Goes(r, "send")
      /\ UNCHANGED <<Addresses!rows, session, oauth, otp, Addresses!sent, Addresses!history>>
  BY DEF Addresses!SetTarget, Addresses!At
<1>1. /\ t \in Addresses!Tasks /\ t # Addresses!Idle /\ PathOK(t) /\ OwnerOK(t) /\ CodeOK(t)
      /\ t.user \notin raced => TargetOK(t)
  BY <1>0, InHand
<1>2. /\ t.op = "change" /\ u \in Users /\ t.email \in Emails /\ t.key = <<"change", u>>
      /\ r \in Addresses!Changing(u)
  BY <1>0, <1>1 DEF PathOK, OwnerOK, Addresses!Changing
<1>3. /\ req' \in [Calls -> Addresses!Tasks \cup {Addresses!Idle}] /\ \A q \in Calls : q # r => req'[q] = req[q]
      /\ req'[r].at = "send" /\ req'[r].op = t.op /\ req'[r].key = t.key
      /\ req'[r].email = t.email /\ req'[r].user = u /\ req'[r].code = t.code
      /\ RaceInv'
  BY <1>0, GoesTo, GoesKeeps DEF Addresses!Steps, Addresses!history
<1>4. /\ target' \in [Users -> Emails \cup {None}] /\ target'[u] = t.email
      /\ \A w \in Users : w # u => target'[w] = target[w]
  <2>. HIDE DEF t, u
  <2>. QED  BY <1>0, <1>2 DEF AddressesInv, Addresses!TypeOK
<1>5. UNCHANGED <<row, password, session, oauth, otp, mail, token, made, spent, disowned, undone, raced>>
  BY <1>0 DEF Addresses!rows, Addresses!sent, Addresses!history
<1>6. CallInv'
  <2>. SUFFICES ASSUME NEW q \in Calls PROVE CallOK(req[q])'
    BY DEF CallInv
  <2>1. CASE q = r
    <3>1. OwnerOK(req[r])' /\ PathOK(req[r])'
      BY <1>1, <1>2, <1>3 DEF OwnerOK, PathOK
    <3>2. CodeOK(req[r])'
      BY <1>0, <1>1, <1>2, <1>3, <1>5 DEF CodeOK
    <3>3. u \notin raced => TargetOK(req[r])'
      BY <1>0, <1>1, <1>2, <1>3, <1>4, <1>5 DEF TargetOK
    <3>. QED  BY <1>3, <1>5, <2>1, <3>1, <3>2, <3>3 DEF CallOK
  <2>2. CASE q # r /\ req[q] # Addresses!Idle
    <3>1. PICK y : y = req[q]
      OBVIOUS
    <3>2. /\ req'[q] = y /\ y \in Addresses!Tasks /\ y # Addresses!Idle /\ PathOK(y) /\ OwnerOK(y) /\ CodeOK(y)
          /\ y.user \notin raced => TargetOK(y)
      BY <1>3, <2>2, <3>1 DEF AddressesInv, Addresses!TypeOK, CallInv, CallOK
    <3>3. OwnerOK(y)' /\ CodeOK(y)'
      BY <1>5, <3>2 DEF OwnerOK, CodeOK, Mailed, MailedFor
    <3>4. ASSUME y.user \notin raced PROVE TargetOK(y)'
      <4>1. ASSUME y.op \in {"change", "verifyChange"} PROVE y.user # u /\ y.user \in Users
        <5>1. y.user \in Users
          BY <3>2, <4>1 DEF OwnerOK
        <5>2. q \in Addresses!Changing(y.user) \/ q \in Addresses!Verifying(y.user)
          BY <2>2, <3>1, <4>1 DEF Addresses!Changing, Addresses!Verifying
        <5>. QED  BY <1>2, <2>2, <3>4, <5>1, <5>2 DEF AddressesInv, RaceInv
      <4>. QED  BY <1>4, <1>5, <3>2, <3>4, <4>1 DEF TargetOK
    <3>. QED  BY <1>5, <3>2, <3>3, <3>4
              DEF CallOK, PathOK, OwnerOK, CodeOK, TargetOK, Mailed, MailedFor
  <2>3. CASE q # r /\ req[q] = Addresses!Idle
    BY <1>3, <2>3 DEF CallOK
  <2>. QED  BY <2>1, <2>2, <2>3
<1>7. CodesInv'
  <2>1. \A q \in Calls : Sending(q)' => Sending(q) /\ req'[q].code = req[q].code /\ req'[q].key = req[q].key
    BY <1>0, <1>3 DEF Sending
  <2>. QED  BY <1>5, <2>1 DEF AddressesInv, CodesInv
<1>8. TargetInv'
  <2>. SUFFICES ASSUME NEW w \in Users, w \notin raced, otp[<<"change", w>>] # 0,
                       mail[otp[<<"change", w>>]] # None
                PROVE  target'[w] \in {None, mail[otp[<<"change", w>>]][1]}
    BY <1>5 DEF TargetInv
  <2>1. w # u
    BY <1>0, <1>1, <1>2 DEF CodeOK, TargetOK
  <2>. QED  BY <1>4, <2>1 DEF AddressesInv, TargetInv
<1>9. Addresses!TypeOK'
  BY <1>3, <1>4, <1>5 DEF AddressesInv, Addresses!TypeOK
<1>10. SessionInv' /\ TokenInv' /\ Addresses!OwnersOnly' /\ Addresses!NotMeHolds'
  BY <1>5 DEF AddressesInv, SessionInv, TokenInv, Mailed, MailedFor, Addresses!OwnersOnly,
     Addresses!SignedUpByCode,
              Addresses!ChangedToConfirmed, Addresses!ResetByOwner, Addresses!NotMeHolds
<1>. QED  BY <1>3, <1>6, <1>7, <1>8, <1>9, <1>10 DEF AddressesInv

LEMMA SendStep == ASSUME AddressesInv, NEW r \in Calls, Addresses!Send(r) PROVE AddressesInv'
<1>. DEFINE t == req[r]
            n == req[r].code
<1>0. /\ t.at = "send" /\ mail' = [mail EXCEPT ![n] = <<t.email, t.key>>] /\ Addresses!Ends(r)
      /\ UNCHANGED <<Addresses!rows, Addresses!redis, token, made, Addresses!history>>
  BY DEF Addresses!Send, Addresses!At
<1>1. /\ t \in Addresses!Tasks /\ t # Addresses!Idle /\ PathOK(t) /\ OwnerOK(t) /\ CodeOK(t)
      /\ t.user \notin raced => TargetOK(t)
  BY <1>0, InHand
<1>2. /\ t.op \in {"signup1", "change", "reset"} /\ t.email \in Emails /\ t.key \in Addresses!Keys
      /\ mail[n] = None /\ n \in 1..made /\ Sending(r)
      /\ t.op = "signup1" => t.key = <<"signup", t.email>>
      /\ t.op = "change" => t.key = <<"change", t.user>>
      /\ t.op = "reset" => t.key = <<"reset", t.user>>
  BY <1>0, <1>1 DEF PathOK, OwnerOK, CodeOK, Addresses!Tasks, Sending
<1>3. made \in Nat /\ MaxCodes \in Nat /\ made <= MaxCodes
  BY ProperConstants DEF AddressesInv, Addresses!TypeOK, Addresses!SomeCodes
<1>4. n \in Addresses!OtpCodes /\ <<t.email, t.key>> # None /\ <<t.email, t.key>> \in Emails \X Addresses!Keys
  BY <1>2, <1>3, ProperConstants DEF Addresses!OtpCodes, Addresses!NoneIsNothing
<1>5. /\ req' \in [Calls -> Addresses!Tasks \cup {Addresses!Idle}] /\ \A q \in Calls : q # r => req'[q] = req[q]
      /\ CallOK(req[r])' /\ ~Sending(r)' /\ RaceInv'
  BY <1>0, EndsThere, EndsRace DEF Addresses!history
<1>6. PICK e, k : e = t.email /\ k = t.key
  OBVIOUS
<1>. HIDE DEF t, n
<1>7. /\ mail' \in [Addresses!OtpCodes -> (Emails \X Addresses!Keys) \cup {None}] /\ mail'[n] = <<e, k>>
      /\ \A c \in Addresses!OtpCodes : c # n => mail'[c] = mail[c]
      /\ \A c \in Addresses!OtpCodes : mail[c] # None => mail'[c] = mail[c]
      /\ k \in Addresses!Keys /\ mail'[n][2] = k /\ mail'[n][1] = e
  BY <1>0, <1>2, <1>4, <1>6 DEF AddressesInv, Addresses!TypeOK
<1>8. UNCHANGED <<row, password, session, oauth, otp, target, token, made, spent, disowned, undone, raced>>
  BY <1>0 DEF Addresses!rows, Addresses!redis, Addresses!history
<1>13. \A c \in Addresses!OtpCodes, f \in Emails : mail[c] = <<f, <<"signup", f>>>> => mail'[c] = mail[c]
  <2>. SUFFICES ASSUME NEW c \in Addresses!OtpCodes, NEW f \in Emails, mail[c] = <<f, <<"signup", f>>>>
                PROVE  mail[c] # None
    BY <1>7
  <2>1. <<f, <<"signup", f>>>> \in Emails \X Addresses!Keys
    BY KeyOf
  <2>. QED  BY <2>1, ProperConstants DEF Addresses!NoneIsNothing
<1>9. CallInv'
  <2>. SUFFICES ASSUME NEW q \in Calls PROVE CallOK(req[q])'
    BY DEF CallInv
  <2>1. CASE q # r /\ req[q] # Addresses!Idle
    <3>1. PICK y : y = req[q]
      OBVIOUS
    <3>2. /\ req'[q] = y /\ y \in Addresses!Tasks /\ y # Addresses!Idle /\ PathOK(y) /\ OwnerOK(y) /\ CodeOK(y)
          /\ y.user \notin raced => TargetOK(y)
      BY <1>5, <2>1, <3>1 DEF AddressesInv, Addresses!TypeOK, CallInv, CallOK
    <3>3. y.at \in {"target", "send"} => y.code # n
      BY <1>2, <2>1, <3>1 DEF AddressesInv, CodesInv, Sending, n
    <3>4. OwnerOK(y)'
      BY <1>8, <3>2 DEF OwnerOK
    <3>5. CodeOK(y)'
      <4>1. y.at \in {"target", "send"} => y.code \in 1..made /\ mail'[y.code] = None
        BY <1>3, <1>7, <3>2, <3>3 DEF CodeOK, Addresses!OtpCodes
      <4>2. y.op \in {"signup2", "signup3"} /\ Mailed(y.code, y.email, y.key) => Mailed(y.code, y.email, y.key)'
        BY <1>13, <3>2 DEF OwnerOK, Mailed
      <4>3. MailedFor(y.code, y.key) => MailedFor(y.code, y.key)'
        BY <1>7 DEF MailedFor
      <4>. QED  BY <1>8, <3>2, <4>1, <4>2, <4>3 DEF CodeOK, Mailed, MailedFor
    <3>6. ASSUME y.user \notin raced PROVE TargetOK(y)'
      <4>1. y.op = "verifyChange" => mail'[y.code] = mail[y.code]
        BY <1>7, <3>2 DEF CodeOK, MailedFor
      <4>. QED  BY <1>8, <3>2, <3>6, <4>1 DEF TargetOK
    <3>. QED  BY <1>8, <3>2, <3>4, <3>5, <3>6
              DEF CallOK, PathOK, OwnerOK, CodeOK, TargetOK, Mailed, MailedFor
  <2>2. CASE q # r /\ req[q] = Addresses!Idle
    BY <1>5, <2>2 DEF CallOK
  <2>. QED  BY <1>5, <2>1, <2>2
<1>10. CodesInv'
  <2>1. \A q \in Calls : Sending(q)' => Sending(q) /\ req'[q] = req[q]
    BY <1>5 DEF Sending
  <2>2. \A l \in Addresses!Keys : otp[l] = n => l = k
    BY <1>2, <1>6 DEF AddressesInv, CodesInv, n, t
  <2>3. \A l \in Addresses!Keys : otp[l] # 0 => otp[l] \in Addresses!OtpCodes
    BY <1>3 DEF AddressesInv, Addresses!TypeOK, Addresses!OtpCodes
  <2>4. \A l \in Addresses!Keys : otp'[l] # 0 => mail'[otp'[l]] = None \/ mail'[otp'[l]][2] = l
    BY <1>7, <1>8, <2>2, <2>3 DEF AddressesInv, CodesInv
  <2>5. \A c \in Addresses!OtpCodes, f \in Emails : mail'[c] # None /\ mail'[c][2] = <<"signup", f>> => mail'[c][1] = f
    <3>1. \A f \in Emails : k = <<"signup", f>> => e = f
      BY <1>2, <1>6
    <3>. QED  BY <1>7, <3>1 DEF AddressesInv, CodesInv
  <2>. QED  BY <1>8, <2>1, <2>4, <2>5 DEF AddressesInv, CodesInv
<1>11. TargetInv'
  <2>. SUFFICES ASSUME NEW u \in Users, u \notin raced, otp[<<"change", u>>] # 0,
                       mail'[otp[<<"change", u>>]] # None
                PROVE  target[u] \in {None, mail'[otp[<<"change", u>>]][1]}
    BY <1>8 DEF TargetInv
  <2>0. <<"change", u>> \in Addresses!Keys /\ otp[<<"change", u>>] \in Addresses!OtpCodes
    <3>1. <<"change", u>> \in Addresses!Keys
      BY KeyOf
    <3>. QED  BY <1>3, <3>1 DEF AddressesInv, Addresses!TypeOK, Addresses!OtpCodes
  <2>1. CASE otp[<<"change", u>>] = n
    <3>1. k = <<"change", u>>
      BY <1>2, <1>6, <2>0, <2>1 DEF AddressesInv, CodesInv, n, t
    <3>2. t.op = "change" /\ t.user = u
      BY <1>2, <1>6, <3>1
    <3>3. target[u] \in {None, e}
      BY <1>0, <1>1, <1>6, <3>2 DEF TargetOK
    <3>. QED  BY <1>7, <2>1, <3>3
  <2>2. CASE otp[<<"change", u>>] # n
    BY <1>7, <2>0, <2>2 DEF AddressesInv, TargetInv
  <2>. QED  BY <2>1, <2>2
<1>12. Addresses!TypeOK'
  <2>1. \A c \in Addresses!OtpCodes : mail'[c] # None => c <= made
    BY <1>2, <1>3, <1>7 DEF AddressesInv, Addresses!TypeOK
  <2>. QED  BY <1>5, <1>7, <1>8, <2>1 DEF AddressesInv, Addresses!TypeOK
<1>14. SessionInv' /\ Addresses!NotMeHolds'
  BY <1>8, <1>13 DEF AddressesInv, SessionInv, Mailed, Addresses!NotMeHolds
<1>15. TokenInv'
  BY <1>7, <1>8 DEF AddressesInv, TokenInv, MailedFor
<1>16. Addresses!OwnersOnly'
  <2>1. \A u \in Users : row[u] # None => row[u].email \in Emails /\ row[u].code \in 0..MaxCodes
    BY DEF AddressesInv, Addresses!TypeOK, Addresses!Accounts
  <2>2. \A u \in Users : password[u] \in 0..MaxCodes
    BY DEF AddressesInv, Addresses!TypeOK
  <2>3. \A c \in 0..MaxCodes : c # 0 => c \in Addresses!OtpCodes
    BY <1>3 DEF Addresses!OtpCodes
  <2>4. Addresses!SignedUpByCode'
    BY <1>8, <1>13, <2>1, <2>3 DEF AddressesInv, Addresses!OwnersOnly, Addresses!SignedUpByCode
  <2>5. Addresses!ChangedToConfirmed' /\ Addresses!ResetByOwner'
    BY <1>7, <1>8, <2>1, <2>2, <2>3 DEF AddressesInv, Addresses!OwnersOnly,
       Addresses!ChangedToConfirmed, Addresses!ResetByOwner
  <2>. QED  BY <2>4, <2>5 DEF Addresses!OwnersOnly
<1>. QED  BY <1>5, <1>9, <1>10, <1>11, <1>12, <1>14, <1>15, <1>16 DEF AddressesInv

-----------------------------------------------------------------------------
(* Rows are written. *)

\* The rest of the state stays as it is when a newRow is written.
LEMMA RowsOK == ASSUME AddressesInv, UNCHANGED <<Addresses!redis, Addresses!sent,
                       Addresses!history>>, NEW r \in Calls,
                       \A q \in Calls : q # r => req'[q] = req[q],
                       CallOK(req[r])', ~Sending(r)', RaceInv', Addresses!TypeOK', Addresses!OwnersOnly',
                       \A u \in Users : row[u] # None => row'[u] # None
                PROVE  AddressesInv'
<1>1. Calm
  BY DEF Calm, Addresses!redis, Addresses!sent, Addresses!history
<1>2. CallInv' /\ CodesInv' /\ TargetInv'
  BY <1>1, CalmReq, CalmCodes, CalmTarget
<1>3. SessionInv' /\ TokenInv' /\ Addresses!NotMeHolds'
  BY <1>1, CalmSession, CalmToken DEF Addresses!redis, Addresses!sent, Addresses!history,
     Addresses!NotMeHolds, AddressesInv
<1>. QED  BY <1>2, <1>3 DEF AddressesInv

LEMMA UpdateStep == ASSUME AddressesInv, NEW r \in Calls, Addresses!Update(r) PROVE AddressesInv'
<1>. DEFINE t == req[r]
            u == req[r].user
            newRow == [email |-> t.email, profile |-> row[u].profile, how |-> "change", code |-> t.code]
<1>0. t.at = "update" /\ UNCHANGED <<password, Addresses!redis, Addresses!sent, Addresses!history>>
  BY DEF Addresses!Update, Addresses!At
<1>1. /\ t \in Addresses!Tasks /\ t # Addresses!Idle /\ PathOK(t) /\ OwnerOK(t) /\ CodeOK(t)
      /\ t.user \notin raced => TargetOK(t)
  BY <1>0, InHand
<1>2. CASE Addresses!Ends(r) /\ UNCHANGED row
  <2>1. Reads(r)
    BY <1>0, <1>2, EndsThere DEF Reads, Addresses!rows, Addresses!history, AddressesInv,
       Addresses!TypeOK
  <2>. QED  BY <1>2, <2>1, EndsThere, ReadsRace, ReadsOK
<1>3. CASE row' = [row EXCEPT ![u] = newRow] /\ Addresses!Goes(r, "dropTarget")
  <2>1. /\ t.op = "verifyChange" /\ u \in Users /\ t.email \in Emails /\ row[u] # None
        /\ MailedFor(t.code, <<"change", u>>) /\ t.code \in 0..MaxCodes
    BY <1>0, <1>1 DEF PathOK, OwnerOK, CodeOK, Addresses!Tasks
  <2>2. u \notin raced => t.email = mail[t.code][1]
    BY <1>0, <1>1, <2>1 DEF TargetOK
  <2>3. newRow \in Addresses!Accounts
    <3>1. row[u].profile \in Profiles \cup {None}
      BY <2>1 DEF AddressesInv, Addresses!TypeOK, Addresses!Accounts
    <3>2. PICK p : p = row[u].profile
      OBVIOUS
    <3>. QED  BY <2>1, <3>1, <3>2 DEF Addresses!Accounts
  <2>4. newRow # None
    BY <2>3, ProperConstants DEF Addresses!NoneIsNothing
  <2>5. newRow.how = "change" /\ newRow.code = t.code /\ newRow.email = t.email
    OBVIOUS
  <2>6. /\ req' \in [Calls -> Addresses!Tasks \cup {Addresses!Idle}] /\ \A q \in Calls : q # r => req'[q] = req[q]
        /\ req'[r].at = "dropTarget" /\ req'[r].op = t.op /\ req'[r].key = t.key
        /\ req'[r].user = u /\ req'[r].code = t.code /\ RaceInv'
    BY <1>0, <1>3, GoesTo, GoesKeeps DEF Addresses!Steps, Addresses!history
  <2>. HIDE DEF newRow
  <2>7. /\ row' \in [Users -> Addresses!Accounts \cup {None}] /\ row'[u] = newRow
        /\ \A w \in Users : w # u => row'[w] = row[w]
    <3>. HIDE DEF u
    <3>. QED  BY <1>3, <2>1, <2>3 DEF AddressesInv, Addresses!TypeOK
  <2>8. Addresses!TypeOK'
    BY <1>0, <2>6, <2>7 DEF AddressesInv, Addresses!TypeOK, Addresses!redis, Addresses!sent,
       Addresses!history
  <2>9. CallOK(req[r])' /\ ~Sending(r)'
    <3>1. OwnerOK(req[r])' /\ PathOK(req[r])'
      BY <1>1, <2>1, <2>4, <2>6, <2>7 DEF OwnerOK, PathOK
    <3>2. CodeOK(req[r])'
      BY <1>0, <1>1, <2>1, <2>6 DEF CodeOK, MailedFor, Addresses!sent
    <3>3. TargetOK(req[r])'
      BY <2>1, <2>6 DEF TargetOK
    <3>. QED  BY <2>6, <3>1, <3>2, <3>3 DEF CallOK, Sending
  <2>10. Addresses!OwnersOnly'
    <3>0. mail' = mail /\ spent' = spent /\ raced' = raced /\ password' = password
      BY <1>0 DEF Addresses!sent, Addresses!history
    <3>1. Addresses!SignedUpByCode' /\ Addresses!ResetByOwner'
      BY <2>5, <2>7, <3>0 DEF AddressesInv, Addresses!OwnersOnly, Addresses!SignedUpByCode,
         Addresses!ResetByOwner
    <3>2. Addresses!ChangedToConfirmed'
      <4>. SUFFICES ASSUME NEW w \in Users, row'[w] # None, row'[w].how = "change"
                    PROVE  LET c == row'[w].code IN
                           /\ c # 0 /\ mail[c] # None /\ mail[c][2] = <<"change", w>>
                           /\ mail[c][1] = row'[w].email \/ w \in raced
        BY <3>0 DEF Addresses!ChangedToConfirmed
      <4>1. CASE w = u
        <5>1. t.code # 0 /\ mail[t.code] # None /\ mail[t.code][2] = <<"change", u>>
          BY <2>1, ProperConstants DEF MailedFor, Addresses!OtpCodes, Addresses!SomeCodes
        <5>. QED  BY <2>2, <2>5, <2>7, <4>1, <5>1
      <4>2. CASE w # u
        BY <2>7, <4>2 DEF AddressesInv, Addresses!OwnersOnly, Addresses!ChangedToConfirmed
      <4>. QED  BY <4>1, <4>2
    <3>. QED  BY <3>1, <3>2 DEF Addresses!OwnersOnly
  <2>11. \A w \in Users : row[w] # None => row'[w] # None
    BY <2>4, <2>7
  <2>. QED  BY <1>0, <2>6, <2>8, <2>9, <2>10, <2>11, RowsOK
<1>. QED  BY <1>2, <1>3 DEF Addresses!Update

LEMMA InsertStep == ASSUME AddressesInv, NEW r \in Calls, Addresses!Insert(r) PROVE AddressesInv'
<1>. DEFINE t == req[r]
            newRow == [email |-> t.email, profile |-> t.profile, code |-> t.code,
                    how |-> IF t.op = "oauth2" THEN "oauth" ELSE "signup"]
<1>0. t.at = "insert" /\ UNCHANGED <<password, Addresses!redis, Addresses!sent, Addresses!history>>
  BY DEF Addresses!Insert, Addresses!At
<1>1. t \in Addresses!Tasks /\ t # Addresses!Idle /\ PathOK(t) /\ OwnerOK(t) /\ CodeOK(t)
  BY <1>0, InHand
<1>2. CASE Addresses!Ends(r) /\ UNCHANGED row
  <2>1. Reads(r)
    BY <1>0, <1>2, EndsThere DEF Reads, Addresses!rows, Addresses!history, AddressesInv,
       Addresses!TypeOK
  <2>. QED  BY <1>2, <2>1, EndsThere, ReadsRace, ReadsOK
<1>3. ASSUME NEW u \in Users, row[u] = None, row' = [row EXCEPT ![u] = newRow], Addresses!Goes(r, "forget")
      PROVE  AddressesInv'
  <2>1. /\ t.op \in {"signup3", "oauth2"} /\ t.email \in Emails
        /\ t.profile \in Profiles \cup {None} /\ t.code \in 0..MaxCodes
        /\ t.key = <<"signup", t.email>> /\ t.user = None
        /\ t.op = "signup3" => Mailed(t.code, t.email, t.key) /\ <<t.code, t.profile>> \in spent
    BY <1>0, <1>1 DEF PathOK, OwnerOK, CodeOK, Addresses!Tasks
  <2>2. newRow.email = t.email /\ newRow.profile = t.profile /\ newRow.code = t.code
        /\ newRow.how = IF t.op = "oauth2" THEN "oauth" ELSE "signup"
    OBVIOUS
  <2>3. newRow \in Addresses!Accounts
    <3>1. PICK h : h = IF t.op = "oauth2" THEN "oauth" ELSE "signup"
      OBVIOUS
    <3>. QED  BY <2>1, <3>1 DEF Addresses!Accounts
  <2>4. newRow # None
    BY <2>3, ProperConstants DEF Addresses!NoneIsNothing
  <2>5. /\ req' \in [Calls -> Addresses!Tasks \cup {Addresses!Idle}] /\ \A q \in Calls : q # r => req'[q] = req[q]
        /\ req'[r].at = "forget" /\ req'[r].op = t.op /\ req'[r].key = t.key
        /\ req'[r].user = t.user /\ req'[r].email = t.email /\ req'[r].profile = t.profile
        /\ RaceInv'
    BY <1>0, <1>3, GoesTo, GoesKeeps DEF Addresses!Steps, Addresses!history
  <2>. HIDE DEF newRow
  <2>6. /\ row' \in [Users -> Addresses!Accounts \cup {None}] /\ row'[u] = newRow
        /\ \A w \in Users : w # u => row'[w] = row[w]
    BY <1>3, <2>3 DEF AddressesInv, Addresses!TypeOK
  <2>7. Addresses!TypeOK'
    BY <1>0, <2>5, <2>6 DEF AddressesInv, Addresses!TypeOK, Addresses!redis, Addresses!sent,
       Addresses!history
  <2>8. CallOK(req[r])' /\ ~Sending(r)'
    BY <1>1, <2>1, <2>5 DEF CallOK, PathOK, OwnerOK, CodeOK, TargetOK, Sending
  <2>9. Addresses!OwnersOnly'
    <3>0. mail' = mail /\ spent' = spent /\ raced' = raced /\ password' = password
      BY <1>0 DEF Addresses!sent, Addresses!history
    <3>1. Addresses!ChangedToConfirmed' /\ Addresses!ResetByOwner'
      BY <2>2, <2>6, <3>0 DEF AddressesInv, Addresses!OwnersOnly, Addresses!ChangedToConfirmed,
         Addresses!ResetByOwner
    <3>2. Addresses!SignedUpByCode'
      <4>. SUFFICES ASSUME NEW w \in Users, row'[w] # None, row'[w].how = "signup"
                    PROVE  LET c == row'[w].code IN
                           /\ c # 0 /\ mail[c] = <<row'[w].email, <<"signup", row'[w].email>>>>
                           /\ <<c, row'[w].profile>> \in spent
        BY <3>0 DEF Addresses!SignedUpByCode
      <4>1. CASE w = u
        <5>1. t.op = "signup3"
          BY <2>1, <2>2, <2>6, <4>1
        <5>2. t.code # 0
          BY <2>1, <5>1, ProperConstants DEF Mailed, Addresses!OtpCodes, Addresses!SomeCodes
        <5>. QED  BY <2>1, <2>2, <2>6, <4>1, <5>1, <5>2 DEF Mailed
      <4>2. CASE w # u
        BY <2>6, <4>2 DEF AddressesInv, Addresses!OwnersOnly, Addresses!SignedUpByCode
      <4>. QED  BY <4>1, <4>2
    <3>. QED  BY <3>1, <3>2 DEF Addresses!OwnersOnly
  <2>10. \A w \in Users : row[w] # None => row'[w] # None
    BY <2>4, <2>6
  <2>. QED  BY <1>0, <2>5, <2>7, <2>8, <2>9, <2>10, RowsOK
<1>. QED  BY <1>2, <1>3 DEF Addresses!Insert

LEMMA SetPasswordStep == ASSUME AddressesInv, NEW u \in Users, NEW c \in Addresses!OtpCodes, Addresses!SetPassword(u, c)
                         PROVE  AddressesInv'
<1>0. /\ token[c] = u /\ password' = [password EXCEPT ![u] = c]
      /\ UNCHANGED <<row, session, oauth, otp, target, mail, token, made, req,
                     spent, disowned, undone, raced>>
  BY DEF Addresses!SetPassword, Addresses!redis, Addresses!sent, Addresses!history
<1>1. c \in 0..MaxCodes
  BY ProperConstants DEF Addresses!OtpCodes, Addresses!SomeCodes
<1>2. MailedFor(c, <<"reset", u>>) /\ <<c, None>> \in spent
  <2>1. u # None
    BY ProperConstants DEF Addresses!KindsDisjoint
  <2>. QED  BY <1>0, <2>1 DEF AddressesInv, TokenInv
<1>3. Addresses!TypeOK'
  BY <1>0, <1>1 DEF AddressesInv, Addresses!TypeOK
<1>4. CallInv'
  BY <1>0 DEF AddressesInv, CallInv, CallOK, PathOK, OwnerOK, CodeOK, TargetOK, Mailed, MailedFor
<1>5. CodesInv' /\ SessionInv' /\ TokenInv' /\ RaceInv' /\ TargetInv'
  BY <1>0 DEF AddressesInv, CodesInv, Sending, SessionInv, TokenInv, RaceInv, Addresses!Changing,
     Addresses!Verifying, TargetInv,
              Mailed, MailedFor
<1>6. Addresses!OwnersOnly' /\ Addresses!NotMeHolds'
  <2>1. \A w \in Users : password'[w] = IF w = u THEN c ELSE password[w]
    BY <1>0 DEF AddressesInv, Addresses!TypeOK
  <2>2. Addresses!ResetByOwner'
    BY <1>0, <1>2, <2>1 DEF AddressesInv, Addresses!OwnersOnly, Addresses!ResetByOwner, MailedFor
  <2>. QED  BY <1>0, <2>2 DEF AddressesInv, Addresses!OwnersOnly, Addresses!SignedUpByCode,
               Addresses!ChangedToConfirmed, Addresses!NotMeHolds
<1>. QED  BY <1>3, <1>4, <1>5, <1>6 DEF AddressesInv

-----------------------------------------------------------------------------
LEMMA AddressesStep == ASSUME AddressesInv, [Addresses!Next]_(Addresses!vars) PROVE AddressesInv'
<1>1. ASSUME NEW r \in Calls, Addresses!Arrives(r) PROVE AddressesInv'
  <2>. NewEmails \subseteq Emails
    BY ProperConstants DEF Addresses!NewAreEmails
  <2>. QED  BY <1>1, SignUp1Step, ResendStep, SignUp3Step, NotMeStep, SignUp2Step, OAuthArrives,
               ChangeMailStep, VerifyChangeStep, VerifyResetStep,
               ResetMailStep DEF Addresses!Arrives
<1>2. ASSUME NEW r \in Calls, Addresses!GoesOn(r) PROVE AddressesInv'
  BY <1>2, StoreSessionStep, WindowStep, MintStep, SetTargetStep, SendStep, ConsumeStep, MarkStep,
     FetchStep, UpdateStep, DropTargetStep, InsertStep, ForgetSessionStep, ForgetCodeStep,
     StoreOAuthStep, ForgetOAuthStep, StopStep DEF Addresses!GoesOn
<1>3. CASE UNCHANGED Addresses!vars
  <2>0. UNCHANGED <<row, password, session, oauth, otp, target, mail, token, made, req,
                    spent, disowned, undone, raced>>
    BY <1>3 DEF Addresses!vars, Addresses!rows, Addresses!redis, Addresses!sent, Addresses!history
  <2>1. Addresses!TypeOK' /\ Addresses!OwnersOnly' /\ Addresses!NotMeHolds'
    BY <2>0 DEF AddressesInv, Addresses!TypeOK, Addresses!OwnersOnly, Addresses!SignedUpByCode,
                Addresses!ChangedToConfirmed, Addresses!ResetByOwner, Addresses!NotMeHolds
  <2>2. CallInv'
    BY <2>0 DEF AddressesInv, CallInv, CallOK, PathOK, OwnerOK, CodeOK, TargetOK, Mailed, MailedFor
  <2>3. CodesInv'
    BY <2>0 DEF AddressesInv, CodesInv, Sending
  <2>4. SessionInv' /\ TokenInv'
    BY <2>0 DEF AddressesInv, SessionInv, TokenInv, Mailed, MailedFor
  <2>5. RaceInv' /\ TargetInv'
    BY <2>0 DEF AddressesInv, RaceInv, TargetInv, Addresses!Changing, Addresses!Verifying
  <2>. QED  BY <2>1, <2>2, <2>3, <2>4, <2>5 DEF AddressesInv
<1>. QED  BY <1>1, <1>2, <1>3, CodesExpire, SetPasswordStep DEF Addresses!Next

LEMMA AddressesInit == Addresses!Init => AddressesInv
<1>. SUFFICES ASSUME Addresses!Init PROVE AddressesInv
  OBVIOUS
<1>1. Addresses!TypeOK
  <2>1. \A u \in Users : row[u] \in Addresses!Accounts \cup {None}
    BY ProperConstants DEF Addresses!Init, Addresses!Accounts, Addresses!DifferentAddresses,
       Addresses!SomeCodes
  <2>2. row \in [Users -> Addresses!Accounts \cup {None}]
    BY <2>1 DEF Addresses!Init
  <2>3. /\ password \in [Users -> 0..MaxCodes] /\ otp \in [Addresses!Keys -> 0..made] /\ made \in 0..MaxCodes
    BY ProperConstants DEF Addresses!Init, Addresses!SomeCodes
  <2>. QED  BY <2>2, <2>3 DEF Addresses!Init, Addresses!TypeOK
<1>2. CallInv /\ CodesInv
  BY KeyOf DEF Addresses!Init, CallInv, CallOK, CodesInv, Sending, Addresses!Idle
<1>3. TargetInv
  BY KeyOf DEF Addresses!Init, TargetInv
<1>4. SessionInv /\ TokenInv
  BY DEF Addresses!Init, SessionInv, TokenInv
<1>5. RaceInv
  BY DEF Addresses!Init, RaceInv, Addresses!Changing, Addresses!Verifying
<1>6. \A u \in Users : row[u] # None => row[u].how = "row"
  BY DEF Addresses!Init
<1>7. Addresses!OwnersOnly /\ Addresses!NotMeHolds
  BY <1>6 DEF Addresses!Init, Addresses!OwnersOnly, Addresses!SignedUpByCode,
     Addresses!ChangedToConfirmed, Addresses!ResetByOwner, Addresses!NotMeHolds
<1>. QED  BY <1>1, <1>2, <1>3, <1>4, <1>5, <1>7 DEF AddressesInv

LEMMA AddressesInductive == Addresses!Spec => []AddressesInv
BY AddressesInit, AddressesStep, PTL DEF Addresses!Spec

\* Whoever else signs up, moves or resets a password at the same time, an address
\* and a password are only set by who has read the code mailed for that purpose.
THEOREM OwnersOnlyHolds == Addresses!Spec => []OwnersOnly
<1>1. AddressesInv => OwnersOnly
  BY DEF AddressesInv, OwnersOnly
<1>. QED  BY <1>1, AddressesInductive, PTL

\* A sign-up that a not-me link ended stays ended, except under a step 2 that was
\* under way (handleNotMe).
THEOREM NotMeHoldsAlways == Addresses!Spec => []NotMeHolds
<1>1. AddressesInv => NotMeHolds
  BY DEF AddressesInv, NotMeHolds
<1>. QED  BY <1>1, AddressesInductive, PTL
=============================================================================
