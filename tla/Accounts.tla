------------------------------- MODULE Accounts -------------------------------
(***************************************************************************)
(* How an address becomes an account's (AuthService, VerificationService): *)
(* the sign-up in three steps, the completion of an OAuth sign-in, the     *)
(* change of an e-mail address and the reset of a password.  All but the   *)
(* second are confirmed by a code that is mailed, kept in Redis by purpose *)
(* and owner, and deleted when it has been used.                           *)
(*                                                                         *)
(* Every awaited command on Redis or Postgres that changes something is an *)
(* action.  The reads before the first of them are taken together: what    *)
(* they find is used by the actions that follow, and a request that they   *)
(* refuse changes nothing.                                                 *)
(*                                                                         *)
(* Abstractions.  Codes are drawn from six digits and are taken to be      *)
(* different.  Names, birth dates and languages are one profile; the name  *)
(* a user is known by is left out (its check, like a slow hash or a failed *)
(* call, only ends a request: Stop).  HSET and its EXPIRE are one command. *)
(***************************************************************************)
EXTENDS Integers, FiniteSets

CONSTANTS
    Emails,     \* addresses
    NewEmails,  \* those that sign-ups are made with
    Users,      \* ids of rows of the user table
    Registered, \* the addresses of the users there are at the start
    Profiles,   \* what step 1 of the sign-up is given
    Requests,   \* requests that may be under way at the same time
    MaxCodes,   \* bound on the codes that are made
    None        \* nothing under a key, no row, no value

\* What the constants must be; Auth assumes it.
NewAreEmails == NewEmails \subseteq Emails
KindsDisjoint ==
    /\ Emails \cap Users = {}
    /\ None \notin Emails \cup Users \cup Profiles
DifferentAddresses ==
    /\ Registered \in [Users -> Emails \cup {None}]
    /\ \A u, w \in Users : u # w /\ Registered[u] # None => Registered[u] # Registered[w]
SomeCodes == MaxCodes \in Nat

VARIABLES
    account,    \* rows of the user table; history: how the address was won
    password,   \* history: the code of the reset that set the password, or 0
    session,    \* signup:session:<email>; code: 0 if email_verified is 'false'
    oauth,      \* oauth:session:<email>, and whether it has a birth date
    otp,        \* otp:<type>:<identifier>: the code, or 0
    target,     \* email_update:<user_id>
    mail,       \* the codes that were mailed
    token,      \* password reset tokens (JWTs), by the code they were given for
    minted,     \* codes made so far
    req,        \* what each request has in hand
    spent,      \* history: codes that were accepted, with the profile at hand
    disowned,   \* history: addresses whose sign-up was ended by a not-me link
    undone,     \* history: addresses whose session was written back afterwards
    raced       \* history: users whose change of address overlapped another one

rows == <<account, password>>
redis == <<session, oauth, otp, target>>
sent == <<mail, token, minted>>
history == <<spent, disowned, undone, raced>>
vars == <<rows, redis, sent, req, history>>

-----------------------------------------------------------------------------
OtpCodes == 1..MaxCodes
\* OTP_KEY: the purpose and the owner.
Keys == ({"signup"} \X Emails) \cup ({"change", "reset"} \X Users)

Accounts == [email: Emails, profile: Profiles \cup {None},
             how: {"row", "signup", "oauth", "change"}, code: 0..MaxCodes]
Sessions == [profile: Profiles, code: 0..MaxCodes]
Ops == {"signup1", "signup2", "signup3", "notMe", "oauth0", "oauth1", "oauth2",
        "change", "verifyChange", "reset", "verifyReset"}
Steps == {"store", "window", "mint", "target", "send", "consume", "mark",
          "insert", "forget", "forgetCode", "fetch", "update", "dropTarget"}
Tasks == [op: Ops, at: Steps, key: Keys, email: Emails \cup {None}, user: Users \cup {None},
          profile: Profiles \cup {None}, code: 0..MaxCodes]
Idle == [at |-> "idle"]

NoneIsNothing == None \notin Accounts \cup Sessions \cup (Emails \X Keys)

TypeOK ==
    /\ account \in [Users -> Accounts \cup {None}]
    /\ password \in [Users -> 0..MaxCodes]
    /\ session \in [Emails -> Sessions \cup {None}]
    /\ oauth \in [Emails -> {"none", "asked", "dated"}]
    /\ otp \in [Keys -> 0..minted]
    /\ target \in [Users -> Emails \cup {None}]
    /\ minted \in 0..MaxCodes
    /\ mail \in [OtpCodes -> (Emails \X Keys) \cup {None}]
    /\ \A c \in OtpCodes : mail[c] # None => c <= minted
    /\ token \in [OtpCodes -> Users \cup {None}]
    /\ req \in [Requests -> Tasks \cup {Idle}]
    /\ spent \subseteq OtpCodes \X (Profiles \cup {None})
    /\ disowned \subseteq Emails /\ undone \subseteq Emails /\ raced \subseteq Users

Taken(e) == \E u \in Users : account[u] # None /\ account[u].email = e
At(r, at) == req[r].at = at
Doing(r, op, at) == At(r, at) /\ req[r].op = op

Begin(r, op, at, key, e, u, p, c) ==
    /\ At(r, "idle")
    /\ req' = [req EXCEPT ![r] = [op |-> op, at |-> at, key |-> key, email |-> e,
                                  user |-> u, profile |-> p, code |-> c]]
Goes(r, at) == req' = [req EXCEPT ![r].at = at]
Ends(r) == req' = [req EXCEPT ![r] = Idle]

Init ==
    /\ account = [u \in Users |->
            IF Registered[u] = None THEN None
            ELSE [email |-> Registered[u], profile |-> None, how |-> "row", code |-> 0]]
    /\ password = [u \in Users |-> 0]
    /\ session = [e \in Emails |-> None]
    /\ oauth = [e \in Emails |-> "none"]
    /\ otp = [k \in Keys |-> 0]
    /\ target = [u \in Users |-> None]
    /\ mail = [c \in OtpCodes |-> None] /\ token = [c \in OtpCodes |-> None] /\ minted = 0
    /\ req = [r \in Requests |-> Idle]
    /\ spent = {} /\ disowned = {} /\ undone = {} /\ raced = {}

-----------------------------------------------------------------------------
(* Requests that have a code mailed. *)

SignUp1(r, e, p) ==
    /\ ~Taken(e)
    /\ Begin(r, "signup1", "store", <<"signup", e>>, e, None, p, 0)
    /\ UNCHANGED <<rows, redis, sent, history>>

\* Mutant of StoreSession: email_verified is not set back.
StoreSessionMerged(r) ==
    LET e == req[r].email IN
    /\ Doing(r, "signup1", "store")
    /\ session' = [session EXCEPT ![e] = [profile |-> req[r].profile,
                        code |-> IF session[e] = None THEN 0 ELSE session[e].code]]
    /\ disowned' = disowned \ {e} /\ undone' = undone \ {e}
    /\ Goes(r, "window")
    /\ UNCHANGED <<rows, oauth, otp, target, sent, spent, raced>>

\* All fields of the hash are set, whatever was there.
StoreSession(r) ==
    LET e == req[r].email IN
    /\ Doing(r, "signup1", "store")
    /\ session' = [session EXCEPT ![e] = [profile |-> req[r].profile, code |-> 0]]
    /\ disowned' = disowned \ {e} /\ undone' = undone \ {e}
    /\ Goes(r, "window")
    /\ UNCHANGED <<rows, oauth, otp, target, sent, spent, raced>>

\* generateEmailVerification, in step 1 or asked for again.  generateOtp refuses
\* while the last code is less than a minute old; any code may be older.
Window(r) ==
    /\ At(r, "window")
    /\ \/ session[req[r].email] # None /\ Goes(r, "mint")
       \/ (session[req[r].email] = None \/ otp[req[r].key] # 0) /\ Ends(r)
    /\ UNCHANGED <<rows, redis, sent, history>>

Resend(r, e) ==
    /\ session[e] # None
    /\ Begin(r, "signup1", "mint", <<"signup", e>>, e, None, None, 0)
    /\ UNCHANGED <<rows, redis, sent, history>>

\* sendResetPasswordEmail: the identifier leads to the user, and to the address.
ResetMail(r, u) ==
    /\ account[u] # None
    /\ Begin(r, "reset", "mint", <<"reset", u>>, account[u].email, u, None, 0)
    /\ UNCHANGED <<rows, redis, sent, history>>

Changing(u) == {q \in Requests : req[q] # Idle /\ req[q].user = u /\ req[q].op = "change"}
Verifying(u) == {q \in Requests : req[q] # Idle /\ req[q].user = u /\ req[q].op = "verifyChange"}

\* updateEmail
ChangeMail(r, u, e) ==
    /\ account[u] # None /\ ~Taken(e)
    /\ Begin(r, "change", "mint", <<"change", u>>, e, u, None, 0)
    /\ raced' = IF Changing(u) \cup Verifying(u) = {} THEN raced ELSE raced \cup {u}
    /\ UNCHANGED <<rows, redis, sent, spent, disowned, undone>>

\* The rest of generateOtp.
Mint(r) ==
    /\ At(r, "mint")
    /\ minted < MaxCodes
    /\ minted' = minted + 1
    /\ otp' = [otp EXCEPT ![req[r].key] = minted + 1]
    /\ req' = [req EXCEPT ![r].at = IF req[r].op = "change" THEN "target" ELSE "send",
                          ![r].code = minted + 1]
    /\ UNCHANGED <<rows, session, oauth, target, mail, token, history>>

SetTarget(r) ==
    /\ At(r, "target")
    /\ target' = [target EXCEPT ![req[r].user] = req[r].email]
    /\ Goes(r, "send")
    /\ UNCHANGED <<rows, session, oauth, otp, sent, history>>

\* queueOtpEmail, with the not-me link of a sign-up.
Send(r) ==
    /\ At(r, "send")
    /\ mail' = [mail EXCEPT ![req[r].code] = <<req[r].email, req[r].key>>]
    /\ Ends(r)
    /\ UNCHANGED <<rows, redis, token, minted, history>>

-----------------------------------------------------------------------------
(* Requests that present a code.  validateOtp finds that it is the right   *)
(* one, by a slow comparison; only codes that were mailed are known.       *)

Right(k, c) == mail[c] # None /\ otp[k] = c

SignUp2(r, e, c) ==
    /\ ~Taken(e) /\ session[e] # None /\ Right(<<"signup", e>>, c)
    /\ Begin(r, "signup2", "consume", <<"signup", e>>, e, None, session[e].profile, c)
    /\ UNCHANGED <<rows, redis, sent, history>>

\* verifyUpdateEmail
VerifyChange(r, u, c) ==
    /\ account[u] # None /\ Right(<<"change", u>>, c)
    /\ Begin(r, "verifyChange", "consume", <<"change", u>>, None, u, None, c)
    /\ raced' = IF Changing(u) = {} THEN raced ELSE raced \cup {u}
    /\ UNCHANGED <<rows, redis, sent, spent, disowned, undone>>

\* verifyResetPasswordOtp
VerifyReset(r, u, c) ==
    /\ account[u] # None /\ Right(<<"reset", u>>, c)
    /\ Begin(r, "verifyReset", "consume", <<"reset", u>>, None, u, None, c)
    /\ UNCHANGED <<rows, redis, sent, history>>

DropCode(k) == otp' = [otp EXCEPT ![k] = 0]

\* The rest of validateOtp deletes what is under the key by now.
Consume(r) ==
    LET c == req[r].code IN
    /\ At(r, "consume")
    /\ DropCode(req[r].key)
    /\ spent' = spent \cup {<<c, req[r].profile>>}
    /\ CASE req[r].op = "signup2" -> Goes(r, "mark") /\ UNCHANGED token
         [] req[r].op = "verifyChange" -> Goes(r, "fetch") /\ UNCHANGED token
         [] OTHER -> Ends(r) /\ token' = [token EXCEPT ![c] = req[r].user]
    /\ UNCHANGED <<rows, session, oauth, target, mail, minted, disowned, undone, raced>>

\* The session that step 2 had read, now verified.
Mark(r) ==
    LET e == req[r].email IN
    /\ At(r, "mark")
    /\ session' = [session EXCEPT ![e] = [profile |-> req[r].profile, code |-> req[r].code]]
    /\ undone' = IF session[e] = None /\ e \in disowned THEN undone \cup {e} ELSE undone
    /\ Ends(r)
    /\ UNCHANGED <<rows, oauth, otp, target, sent, spent, disowned, raced>>

Fetch(r) ==
    LET e == target[req[r].user] IN
    /\ At(r, "fetch")
    /\ IF e = None THEN Ends(r)
       ELSE req' = [req EXCEPT ![r].at = "update", ![r].email = e]
    /\ UNCHANGED <<rows, redis, sent, history>>

\* findByEmail refuses an address that is taken, or else the unique key does.
Update(r) ==
    LET u == req[r].user IN
    /\ At(r, "update")
    /\ IF Taken(req[r].email)
       THEN Ends(r) /\ UNCHANGED account
       ELSE /\ account' = [account EXCEPT ![u] = [email |-> req[r].email,
                    profile |-> account[u].profile, how |-> "change", code |-> req[r].code]]
            /\ Goes(r, "dropTarget")
    /\ UNCHANGED <<password, redis, sent, history>>

DropTarget(r) ==
    /\ At(r, "dropTarget")
    /\ target' = [target EXCEPT ![req[r].user] = None]
    /\ Goes(r, "forgetCode")
    /\ UNCHANGED <<rows, session, oauth, otp, sent, history>>

\* resetPassword: the identifier leads to u, and the token must be of u.  A
\* token is not used up.
SetPassword(u, c) ==
    /\ account[u] # None /\ token[c] = u
    /\ password' = [password EXCEPT ![u] = c]
    /\ UNCHANGED <<account, redis, sent, req, history>>

-----------------------------------------------------------------------------
(* The end of a sign-up. *)

SignUp3(r, e) ==
    /\ ~Taken(e) /\ session[e] # None /\ session[e].code # 0
    /\ Begin(r, "signup3", "insert", <<"signup", e>>, e, None, session[e].profile, session[e].code)
    /\ UNCHANGED <<rows, redis, sent, history>>

\* createUser; the unique key refuses an address that is taken.
Insert(r) ==
    /\ At(r, "insert")
    /\ \/ /\ Taken(req[r].email)
          /\ Ends(r) /\ UNCHANGED account
       \/ \E u \in Users :
            /\ ~Taken(req[r].email) /\ account[u] = None
            /\ account' = [account EXCEPT ![u] =
                 [email |-> req[r].email, profile |-> req[r].profile, code |-> req[r].code,
                  how |-> IF req[r].op = "oauth2" THEN "oauth" ELSE "signup"]]
            /\ Goes(r, "forget")
    /\ UNCHANGED <<password, redis, sent, history>>

\* handleNotMe: the link came with a mail to this address.
NotMe(r, e) ==
    /\ session[e] # None
    /\ \E c \in OtpCodes : mail[c] = <<e, <<"signup", e>>>>
    /\ Begin(r, "notMe", "forget", <<"signup", e>>, e, None, None, 0)
    /\ UNCHANGED <<rows, redis, sent, history>>

\* Mutant of ForgetSession: a not-me link only deletes the code.
ForgetSessionOnlySignUp(r) ==
    LET e == req[r].email IN
    /\ At(r, "forget") /\ req[r].op # "oauth2"
    /\ session' = [session EXCEPT ![e] = IF req[r].op = "notMe" THEN session[e] ELSE None]
    /\ disowned' = IF req[r].op = "notMe" THEN disowned \cup {e} ELSE disowned
    /\ undone' = undone \ {e}
    /\ Goes(r, "forgetCode")
    /\ UNCHANGED <<rows, oauth, otp, target, sent, spent, raced>>

ForgetSession(r) ==
    LET e == req[r].email IN
    /\ At(r, "forget") /\ req[r].op # "oauth2"
    /\ session' = [session EXCEPT ![e] = None]
    /\ disowned' = IF req[r].op = "notMe" THEN disowned \cup {e} ELSE disowned
    /\ undone' = undone \ {e}
    /\ Goes(r, "forgetCode")
    /\ UNCHANGED <<rows, oauth, otp, target, sent, spent, raced>>

ForgetCode(r) ==
    /\ At(r, "forgetCode")
    /\ DropCode(req[r].key)
    /\ Ends(r)
    /\ UNCHANGED <<rows, session, oauth, target, sent, history>>

-----------------------------------------------------------------------------
(* OAuth.  A provider's user whose address is taken is logged in; for      *)
(* another one a session is made, given a birth date and completed.        *)

OAuthSignIn(r, e) ==
    /\ ~Taken(e)
    /\ Begin(r, "oauth0", "store", <<"signup", e>>, e, None, None, 0)
    /\ UNCHANGED <<rows, redis, sent, history>>

OAuthStep1(r, e) ==
    /\ oauth[e] # "none"
    /\ Begin(r, "oauth1", "store", <<"signup", e>>, e, None, None, 0)
    /\ UNCHANGED <<rows, redis, sent, history>>

StoreOAuth(r) ==
    /\ At(r, "store") /\ req[r].op \in {"oauth0", "oauth1"}
    /\ oauth' = [oauth EXCEPT ![req[r].email] =
                    IF req[r].op = "oauth0" THEN "asked" ELSE "dated"]
    /\ Ends(r)
    /\ UNCHANGED <<rows, session, otp, target, sent, history>>

\* Without a birth date the insertion fails.
OAuthStep2(r, e) ==
    /\ oauth[e] = "dated"
    /\ Begin(r, "oauth2", "insert", <<"signup", e>>, e, None, None, 0)
    /\ UNCHANGED <<rows, redis, sent, history>>

ForgetOAuth(r) ==
    /\ Doing(r, "oauth2", "forget")
    /\ oauth' = [oauth EXCEPT ![req[r].email] = "none"]
    /\ Ends(r)
    /\ UNCHANGED <<rows, session, otp, target, sent, history>>

-----------------------------------------------------------------------------
\* A key's time to live is over.
Expire ==
    /\ \/ \E e \in Emails : /\ session[e] # None
                            /\ session' = [session EXCEPT ![e] = None]
                            /\ UNCHANGED <<oauth, otp, target>>
       \/ \E e \in Emails : /\ oauth[e] # "none"
                            /\ oauth' = [oauth EXCEPT ![e] = "none"]
                            /\ UNCHANGED <<session, otp, target>>
       \/ \E k \in Keys : /\ otp[k] # 0
                          /\ DropCode(k)
                          /\ UNCHANGED <<session, oauth, target>>
       \/ \E u \in Users : /\ target[u] # None
                           /\ target' = [target EXCEPT ![u] = None]
                           /\ UNCHANGED <<session, oauth, otp>>
    /\ UNCHANGED <<rows, sent, req, history>>

\* A request fails, or the server stops under it.
Stop(r) ==
    /\ ~At(r, "idle")
    /\ Ends(r)
    /\ UNCHANGED <<rows, redis, sent, history>>

Arrives(r) ==
    \/ \E e \in NewEmails, p \in Profiles : SignUp1(r, e, p)
    \/ \E e \in NewEmails : Resend(r, e) \/ SignUp3(r, e) \/ NotMe(r, e)
    \/ \E e \in NewEmails, c \in OtpCodes : SignUp2(r, e, c)
    \/ \E e \in NewEmails : OAuthSignIn(r, e) \/ OAuthStep1(r, e) \/ OAuthStep2(r, e)
    \/ \E u \in Users, e \in Emails : ChangeMail(r, u, e)
    \/ \E u \in Users, c \in OtpCodes : VerifyChange(r, u, c) \/ VerifyReset(r, u, c)
    \/ \E u \in Users : ResetMail(r, u)

GoesOn(r) ==
    \/ StoreSession(r) \/ Window(r) \/ Mint(r) \/ SetTarget(r) \/ Send(r)
    \/ Consume(r) \/ Mark(r) \/ Fetch(r) \/ Update(r) \/ DropTarget(r)
    \/ Insert(r) \/ ForgetSession(r) \/ ForgetCode(r)
    \/ StoreOAuth(r) \/ ForgetOAuth(r) \/ Stop(r)

Next ==
    \/ Expire
    \/ \E u \in Users, c \in OtpCodes : SetPassword(u, c)
    \/ \E r \in Requests : Arrives(r) \/ GoesOn(r)

Spec == Init /\ [][Next]_vars

-----------------------------------------------------------------------------
(* Properties. *)

\* Steps 1 to 3: an account that was signed up has an address whose mailbox
\* got a sign-up code, and that code was accepted by a step 2 that had these
\* very details at hand, whatever else went on for the address.
SignedUpByCode == \A u \in Users :
    account[u] # None /\ account[u].how = "signup" =>
        LET c == account[u].code IN
        /\ c # 0
        /\ mail[c] = <<account[u].email, <<"signup", account[u].email>>>>
        /\ <<c, account[u].profile>> \in spent

\* updateEmail and verifyUpdateEmail: the code that confirmed a new address was
\* mailed to that address, unless a change overlapped another request about the
\* user's address: the code and the address are stored apart.
ChangedToConfirmed == \A u \in Users :
    account[u] # None /\ account[u].how = "change" =>
        LET c == account[u].code IN
        /\ c # 0 /\ mail[c] # None
        /\ mail[c][2] = <<"change", u>>
        /\ mail[c][1] = account[u].email \/ u \in raced

\* auth.swagger.ts: "Token ensures the person resetting is the same who
\* verified the OTP": a password is only reset by a code that was mailed for
\* this user and accepted, although it is the identifier that is looked up
\* each time and addresses move from one user to another.
ResetByOwner == \A u \in Users : LET c == password[u] IN
    c # 0 => mail[c] # None /\ mail[c][2] = <<"reset", u>> /\ <<c, None>> \in spent

\* An address or a password is only ever set by one who has read a code that was
\* mailed for that purpose: at a sign-up, at a change of address and at a reset.
OwnersOnly == SignedUpByCode /\ ChangedToConfirmed /\ ResetByOwner

\* handleNotMe: a sign-up that was ended by a not-me link stays ended until
\* somebody starts one anew, except that a step 2 that was under way writes
\* its session back.
NotMeHolds == \A e \in disowned : session[e] # None => e \in undone

=============================================================================
