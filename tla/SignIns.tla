------------------------------- MODULE SignIns -------------------------------
(***************************************************************************)
(* Signing in with Google, Facebook or GitHub (the strategies,             *)
(* AuthController, AuthService.validateGoogleUser and the like): the user  *)
(* of a provider is looked up by its id and then by its address, whose     *)
(* account is linked to it; or a session is made from which an account is  *)
(* completed in two steps.                                                 *)
(*                                                                         *)
(* Every awaited query is a step.  Nothing keeps two of them together:     *)
(* addresses and pictures change, accounts come and go between a lookup    *)
(* and the update that uses it, an edit of the profile saves the whole row *)
(* it has read, and no key makes the ids of a provider unique.             *)
(*                                                                         *)
(* Abstractions.  How an account signs up, changes its address and is      *)
(* deleted is in Accounts and Profiles: here each is a step.  Names are    *)
(* left out, and the check of a chosen one, like a call that fails, only   *)
(* ends a request (Stop).  The tokens, and the codes that stand for them   *)
(* in a redirect, are those of RefreshTokens.  The queries of a save,      *)
(* which Profiles tells apart, are one step.                               *)
(***************************************************************************)

CONSTANTS
    Ids,        \* users of the providers
    ProviderOf, \* google, facebook or github
    Photo,      \* the picture a provider has of its user, if any
    Emails,     \* addresses
    Users,      \* ids of rows of the user table
    Pictures,   \* pictures
    Requests,   \* requests that may be under way at the same time
    None        \* no row, no id, no picture, no session

Providers == {"google", "facebook", "github"}

VARIABLES
    member,     \* rows of the user table; left: deleted_at is set, gone: no row
    started,    \* oauth:session:<email>, and whether it has a birth date
    call,       \* what each request has in hand
    proven,     \* history: the addresses that were reported of a provider's user
    had,        \* history: the addresses an account has had
    signed,     \* history: the accounts a provider's user was let into
    crossed,    \* history: see Crossed
    chosen,     \* history: the picture an account was last given by its owner,
    hasty       \* history: and the accounts that were given it during a link

history == <<proven, had, signed, crossed, chosen, hasty>>
vars == <<member, started, call, history>>

-----------------------------------------------------------------------------
Rows == [state: {"live", "left", "gone"}, email: Emails,
         ids: {f \in [Providers -> Ids \cup {None}] :
                  \A p \in Providers : f[p] # None => ProviderOf[f[p]] = p},
         picture: Pictures \cup {None}]
Sessions == [id: Ids, dated: BOOLEAN]

\* What the constants must be; Members assumes it.
Given ==
    /\ ProviderOf \in [Ids -> Providers]
    /\ Photo \in [Ids -> Pictures \cup {None}]
    /\ None \notin Ids \cup Users \cup Pictures
    /\ None \notin Rows \cup Sessions

NoIds == [p \in Providers |-> None]
NewRow(e, ids, p) == [state |-> "live", email |-> e, ids |-> ids, picture |-> p]
Linked(ids, i) == [ids EXCEPT ![ProviderOf[i]] = i]

\* The unique key on addresses, which counts rows that are marked as deleted; find
\* does not.
TakenBut(u, e) == \E w \in Users \ {u} :
    member[w] # None /\ member[w].state # "gone" /\ member[w].email = e
Taken(e) == TakenBut(None, e)
Live(u) == member[u] # None /\ member[u].state = "live"
Carries(u, i) == Live(u) /\ member[u].ids[ProviderOf[i]] = i

\* id, email: what the provider has reported, or the session; user: the account that
\* was found, and picture: what it will be given; row: what an edit has read.
Idle == [at |-> "idle"]
Steps == {"byId", "byMail", "link", "store", "date", "insert", "forget", "answer"}
Calls == [at: Steps, id: Ids, email: Emails, user: Users \cup {None},
          picture: Pictures \cup {None}]
Saves == [at: {"save"}, user: Users, row: Rows, picture: Pictures \cup {None}]
At(r, at) == call[r].at = at
Task(at, i, e) == [at |-> at, id |-> i, email |-> e, user |-> None, picture |-> Photo[i]]
Begins(r, task) == call[r] = Idle /\ call' = [call EXCEPT ![r] = task]
Goes(r, at) == call' = [call EXCEPT ![r].at = at]
Found(r, u, at) == call' = [call EXCEPT ![r].user = u, ![r].at = at]
Ends(r) == call' = [call EXCEPT ![r] = Idle]

\* What will put i on an account: a link or an edit, on the account that it has in
\* hand, and a sign-in or a session, on one that has its address.
Pending(r, i) ==
    \/ At(r, "link") /\ call[r].id = i
    \/ At(r, "save") /\ \E p \in Providers : call[r].row.ids[p] = i
Coming(r, i) == call[r].at \in {"byMail", "store", "date", "insert"} /\ call[r].id = i

\* The ids of one live account that something under way will put on another one.
Crossed == {i \in Ids : \E u \in Users : Carries(u, i) /\
    \/ \E r \in Requests : \/ Pending(r, i) /\ call[r].user # u
                           \/ Coming(r, i) /\ call[r].email # member[u].email
    \/ \E e \in Emails : started[e] # None /\ started[e].id = i /\ e # member[u].email}

TypeOK ==
    /\ member \in [Users -> Rows \cup {None}]
    /\ started \in [Emails -> Sessions \cup {None}]
    /\ call \in [Requests -> Calls \cup Saves \cup {Idle}]
    /\ \A r \in Requests : call[r].at \in {"link", "answer"} => call[r].user # None
    /\ proven \subseteq Ids \X Emails /\ had \subseteq Users \X Emails
    /\ signed \subseteq Ids \X Users /\ crossed \subseteq Ids
    /\ chosen \in [Users -> Pictures \cup {None}] /\ hasty \subseteq Users

Init ==
    /\ member = [u \in Users |-> None]
    /\ started = [e \in Emails |-> None]
    /\ call = [r \in Requests |-> Idle]
    /\ proven = {} /\ had = {} /\ signed = {} /\ crossed = {}
    /\ chosen = [u \in Users |-> None] /\ hasty = {}

-----------------------------------------------------------------------------
(* A provider has confirmed who its user is, and reports an address, which *)
(* may be another one each time; there is no going on without one.         *)

Reported(r, i, e) ==
    /\ Begins(r, Task("byId", i, e))
    /\ proven' = proven \cup {<<i, e>>}
    /\ UNCHANGED <<member, started, had, signed, chosen, hasty>>

Google(r, i) == ProviderOf[i] = "google" /\ \E e \in Emails : Reported(r, i, e)
Facebook(r, i) == ProviderOf[i] = "facebook" /\ \E e \in Emails : Reported(r, i, e)
GitHub(r, i) == ProviderOf[i] = "github" /\ \E e \in Emails : Reported(r, i, e)

\* By a code that the application has got from the provider.  GitHub has an address
\* that its user shows, and a primary one.
MobileGoogle(r, i) == ProviderOf[i] = "google" /\ \E e \in Emails : Reported(r, i, e)
MobileGitHub(r, i) == ProviderOf[i] = "github" /\ \E e \in Emails : Reported(r, i, e)

-----------------------------------------------------------------------------
(* validateGoogleUser, validateFacebookUser, validateGitHubUser *)

FindById(r) ==
    LET i == call[r].id IN
    /\ At(r, "byId")
    /\ \/ \E u \in Users : Carries(u, i) /\ Found(r, u, "answer")
       \/ (\A u \in Users : ~Carries(u, i)) /\ Goes(r, "byMail")
    /\ UNCHANGED <<member, started, proven, had, signed, chosen, hasty>>

\* Mutant of FindByMail: the picture of the provider is taken whether or not the
\* account has one.
FindByMailPhoto(r) ==
    /\ At(r, "byMail")
    /\ \/ \E u \in Users : Live(u) /\ member[u].email = call[r].email /\ Found(r, u, "link")
       \/ (\A u \in Users : Live(u) => member[u].email # call[r].email) /\ Goes(r, "store")
    /\ UNCHANGED <<member, started, proven, had, signed, chosen, hasty>>

\* An account without a picture will be given that of the provider.
FindByMail(r) ==
    LET has(u) == member[u].picture IN
    /\ At(r, "byMail")
    /\ \/ \E u \in Users :
            /\ Live(u) /\ member[u].email = call[r].email
            /\ call' = [call EXCEPT ![r].at = "link", ![r].user = u,
                            ![r].picture = IF has(u) = None THEN call[r].picture ELSE has(u)]
       \/ (\A u \in Users : Live(u) => member[u].email # call[r].email) /\ Goes(r, "store")
    /\ UNCHANGED <<member, started, proven, had, signed, chosen, hasty>>

\* UPDATE by the key; what is found of it afterwards is let in.
Link(r) ==
    LET u == call[r].user IN
    /\ At(r, "link")
    /\ member' = IF member[u].state = "gone" THEN member
                  ELSE [member EXCEPT ![u].ids = Linked(member[u].ids, call[r].id),
                                       ![u].picture = call[r].picture]
    /\ IF Live(u) THEN Goes(r, "answer") ELSE Ends(r)
    /\ UNCHANGED <<started, proven, had, signed, chosen, hasty>>

-----------------------------------------------------------------------------
(* The callbacks *)

\* Tokens, or a code for them, for the account that was found.
Answer(r) ==
    /\ At(r, "answer") /\ Ends(r)
    /\ signed' = signed \cup {<<call[r].id, call[r].user>>}
    /\ UNCHANGED <<member, started, proven, had, chosen, hasty>>

\* createOAuthSession, over the one of that address.
StoreSession(r) ==
    /\ At(r, "store") /\ Ends(r)
    /\ started' = [started EXCEPT ![call[r].email] = [id |-> call[r].id, dated |-> FALSE]]
    /\ UNCHANGED <<member, proven, had, signed, chosen, hasty>>

-----------------------------------------------------------------------------
(* oauthCompletionStep1 and oauthCompletionStep2 *)

Step1(r, e) ==
    /\ started[e] # None
    /\ Begins(r, Task("date", started[e].id, e))
    /\ UNCHANGED <<member, started, proven, had, signed, chosen, hasty>>

\* The session that was read, with a birth date.
Date(r) ==
    /\ At(r, "date") /\ Ends(r)
    /\ started' = [started EXCEPT ![call[r].email] = [id |-> call[r].id, dated |-> TRUE]]
    /\ UNCHANGED <<member, proven, had, signed, chosen, hasty>>

\* Without a birth date the insertion fails.
Step2(r, e) ==
    /\ started[e] # None /\ started[e].dated
    /\ Begins(r, Task("insert", started[e].id, e))
    /\ UNCHANGED <<member, started, proven, had, signed, chosen, hasty>>

\* createUser, which the unique key may refuse.
Insert(r) ==
    LET i == call[r].id  e == call[r].email IN
    /\ At(r, "insert")
    /\ \/ Taken(e) /\ Ends(r) /\ UNCHANGED <<member, had>>
       \/ \E u \in Users :
            /\ ~Taken(e) /\ member[u] = None
            /\ member' = [member EXCEPT ![u] = NewRow(e, Linked(NoIds, i), Photo[i])]
            /\ had' = had \cup {<<u, e>>}
            /\ Found(r, u, "forget")
    /\ UNCHANGED <<started, proven, signed, chosen, hasty>>

Forget(r) ==
    /\ At(r, "forget") /\ Goes(r, "answer")
    /\ started' = [started EXCEPT ![call[r].email] = None]
    /\ UNCHANGED <<member, proven, had, signed, chosen, hasty>>

Expire(e) ==
    /\ started[e] # None /\ started' = [started EXCEPT ![e] = None]
    /\ UNCHANGED <<member, call, proven, had, signed, chosen, hasty>>

\* A request fails, or the server stops under it.
Stop(r) ==
    /\ call[r] # Idle /\ Ends(r)
    /\ UNCHANGED <<member, started, proven, had, signed, chosen, hasty>>

-----------------------------------------------------------------------------
(* What else happens to an account. *)

\* signupStep3
SignUp(u, e) ==
    /\ member[u] = None /\ ~Taken(e)
    /\ member' = [member EXCEPT ![u] = NewRow(e, NoIds, None)]
    /\ had' = had \cup {<<u, e>>}
    /\ UNCHANGED <<started, call, proven, signed, chosen, hasty>>

\* verifyUpdateEmail
ChangeMail(u, e) ==
    /\ member[u] # None /\ member[u].state # "gone" /\ ~Taken(e)
    /\ member' = [member EXCEPT ![u].email = e]
    /\ had' = had \cup {<<u, e>>}
    /\ UNCHANGED <<started, call, proven, signed, chosen, hasty>>

\* updateUser reads the row; p is a new picture, or the one that it has read ...
Edit(r, u, p) ==
    /\ Live(u)
    /\ Begins(r, [at |-> "save", user |-> u, row |-> member[u], picture |-> p])
    /\ UNCHANGED <<member, started, proven, had, signed, chosen, hasty>>

\* ... and saves all of it, the ids and the address too, over what is there by now.
Save(r) ==
    LET u == call[r].user IN
    /\ At(r, "save") /\ Ends(r)
    /\ \/ /\ ~TakenBut(u, call[r].row.email)
          /\ member' = [member EXCEPT ![u] = [call[r].row EXCEPT !.picture = call[r].picture]]
          /\ chosen' = [chosen EXCEPT ![u] = call[r].picture]
          /\ hasty' = IF \E q \in Requests : At(q, "link") /\ call[q].user = u
                      THEN hasty \cup {u} ELSE hasty \ {u}
       \/ TakenBut(u, call[r].row.email) /\ UNCHANGED <<member, chosen, hasty>>
    /\ UNCHANGED <<started, proven, had, signed>>

\* deleteUser, and the job that deletes the row.
Leave(u) ==
    /\ Live(u) /\ member' = [member EXCEPT ![u].state = "left"]
    /\ UNCHANGED <<started, call, proven, had, signed, chosen, hasty>>
DeleteRow(u) ==
    /\ member[u] # None /\ member[u].state = "left"
    /\ member' = [member EXCEPT ![u].state = "gone"]
    /\ UNCHANGED <<started, call, proven, had, signed, chosen, hasty>>

-----------------------------------------------------------------------------
Arrives(r) ==
    \/ \E i \in Ids : \/ Google(r, i) \/ Facebook(r, i) \/ GitHub(r, i)
                      \/ MobileGoogle(r, i) \/ MobileGitHub(r, i)
    \/ \E e \in Emails : Step1(r, e) \/ Step2(r, e)
    \/ \E u \in Users, p \in Pictures \cup {None} : Edit(r, u, p)
GoesOn(r) ==
    \/ FindById(r) \/ FindByMail(r) \/ Link(r) \/ Answer(r) \/ StoreSession(r)
    \/ Date(r) \/ Insert(r) \/ Forget(r) \/ Save(r) \/ Stop(r)
Elsewhere ==
    \/ \E e \in Emails : Expire(e)
    \/ \E u \in Users, e \in Emails : SignUp(u, e) \/ ChangeMail(u, e)
    \/ \E u \in Users : Leave(u) \/ DeleteRow(u)

Next ==
    /\ Elsewhere \/ \E r \in Requests : Arrives(r) \/ GoesOn(r)
    /\ crossed' = crossed \cup Crossed'

Spec == Init /\ [][Next]_vars

-----------------------------------------------------------------------------
(* Properties *)

\* validateGoogleUser and the like, oauthCompletionStep2: a provider's user is only
\* ever linked to an account, and let into it, that has had an address which the
\* provider has reported of that user, however addresses, sessions and accounts
\* change between the steps.
Owns(i, u) == \E e \in Emails : <<i, e>> \in proven /\ <<u, e>> \in had
LinkedByMail ==
    /\ \A u \in Users, p \in Providers :
          member[u] # None /\ member[u].ids[p] # None => Owns(member[u].ids[p], u)
    /\ \A s \in signed : Owns(s[1], s[2])

\* No key says so: a provider's user is on one account, unless something was under
\* way that would put it on a second one when it was on the first.
OneAccount == \A i \in Ids \ crossed : \A u, w \in Users : Carries(u, i) /\ Carries(w, i) => u = w

\* A link leaves the picture that the owner has given, unless it was given between
\* the lookup and the update.
PictureKept == \A u \in Users \ hasty :
    member[u] # None /\ chosen[u] # None => member[u].picture = chosen[u]

\* All three.
SignInsSound == LinkedByMail /\ OneAccount /\ PictureKept
=============================================================================
