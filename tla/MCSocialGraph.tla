---------------------------- MODULE MCSocialGraph ----------------------------
(***************************************************************************)
(* What is kept of the members: two users who follow and block each other  *)
(* and one who leaves; the profile of an account with two pictures, two    *)
(* requests and two jobs; and a user of each provider, two accounts and    *)
(* two addresses.  They share no row, so that each is explored alone, the  *)
(* profile in five parts and the sign-ins in five.                         *)
(***************************************************************************)
EXTENDS Members, Naturals, FiniteSets, TLC
CONSTANTS a, b, c, x, i1, i2, i3, u1, u2, e1, e2, g
VARIABLE part      \* what is explored
ProfileParts == {"racing", "telling", "counting", "returning", "plain"}
SignInParts == {"going", "moving", "saved", "pictured", "two"}

MCFollows == {<<a, b>>, <<b, a>>, <<c, b>>}
MCBlocks == {<<a, b>>, <<b, a>>}
MCProviderOf == i1 :> "google" @@ i2 :> "facebook" @@ i3 :> "github"
MCPhoto == i1 :> g @@ i2 :> None @@ i3 :> None
MCEdits == {{"name"}, {"avatar"}, {"name", "avatar"}, {"cover"}}

MCInit ==
    /\ Init /\ Profile!Init /\ SignIn!Init
    /\ part \in {"graph"} \cup ProfileParts \cup SignInParts
    /\ \A f \in Profile!Fields \ Profile!Pictures : value[f] = x
GraphStep == part = "graph" /\ Next /\ UNCHANGED <<profile, signIns, part>>
ProfileStep ==
    part \in ProfileParts /\ Profile!Next /\ UNCHANGED <<vars, signIns, part>>
SignInStep == part \in SignInParts /\ SignIn!Next /\ UNCHANGED <<vars, profile, part>>
MCSpec == MCInit /\ [][GraphStep \/ ProfileStep \/ SignInStep]_<<vars, profile, signIns, part>>

Symmetry == Permutations(Requests) \cup Permutations(Jobs) \cup Permutations(Avatars)

\* Bounds: the third user leaves while one request at most is under way.
Busy == {r \in Requests : req[r] # Idle}
GraphBounds == state[c] = "live" \/ Cardinality(Busy) <= 1

\* Bounds: two requests race over the avatar and the language, or one is under way
\* once a given picture is removed or the cover is given, and nobody is told
\* (Racing); two jobs tell of one request at a time, which changes no picture
\* (Telling); or two jobs tell of the numbers and of the name while neighbours end,
\* until the account does (Counting); or names are edited and user names changed while
\* the account ends (Returning); or one of each is under way (Plain).  At most one
\* picture waits for its edit, and a value that is given differs from the first one.
Calling == {r \in Requests : call[r] # Profile!Idle}
Working == {j \in Jobs : task[j] # Profile!Free}
Touches(F) == \E f \in F :
    \/ value[f] # last[f] \/ f \in raced \/ (f \notin Profile!Pictures /\ value[f] # x)
    \/ \E r \in Calling : f \in call[r].gives
Fresh == \A r \in Calling : \A f \in call[r].gives : call[r].new[f] # x
Racing ==
    /\ Fresh /\ ~posted /\ Working = {} /\ ~Touches({"name", "username"})
    /\ Cardinality(spent) <= 1 /\ (spent # {} => Cardinality(Calling) <= 1 /\ over = "no")
    /\ over = "no" \/ Cardinality(Calling) <= 1 \/ ~Touches({"language"})
    /\ \/ files \cup used \cup spent \subseteq Avatars
       \/ Cardinality(Calling) <= 1 /\ ~Touches({"language", "avatar"})
    /\ over # "no" \/ Touches({"language"}) => Cardinality(used \cup files) <= 1
Telling ==
    /\ files \cup used \cup spent = {} /\ ~Touches({"language"}) /\ Cardinality(Calling) <= 1
    /\ over # "no" => Cardinality(Working) <= 1 /\ Fresh
    /\ Touches({"username"}) => Cardinality(Working) <= 1
Counting ==
    /\ files \cup used \cup spent = {} /\ Fresh /\ Cardinality(Calling) <= 1
    /\ ~Touches({"username", "language"}) /\ (over # "no" => Cardinality(Working) <= 1)
Returning ==
    /\ files \cup used \cup spent = {} /\ Fresh /\ ~posted
    /\ ~Touches({"language", "avatar", "cover"}) /\ Cardinality(Working) <= 1
Numberless == lapsed \cap Profile!Counts = {} /\ \A j \in Working : task[j].kind \notin Profile!Counts
Plain ==
    /\ Fresh /\ Cardinality(Calling) <= 1 /\ Cardinality(Working) <= 1
    /\ ~Touches({"username", "language", "cover"}) /\ used \cup files \subseteq Avatars
    /\ over # "no" => used = {}
ProfileBounds ==
    /\ Cardinality(files \ used) <= 1 /\ spent \subseteq used /\ (over # "no" => files \subseteq used)
    /\ part = "counting" \/ Numberless
    /\ \/ part = "counting" /\ Counting
       \/ part = "racing" /\ Racing
       \/ part = "telling" /\ Telling
       \/ part = "returning" /\ Returning
       \/ part = "plain" /\ Plain

\* Bounds: a user of a provider who is reported once, and two accounts that come, go
\* and move (Going); or the same user with two addresses, and accounts that do not
\* leave (Moving); or two accounts that are edited, but without a picture (Saved); or
\* one account, its pictures and that of a provider (Pictured); or one account and
\* users of two providers (Two).  Accounts and addresses are taken in order, since
\* their names mean nothing.
Seen == {p[1] : p \in proven}
Saving == {r \in Requests : asked[r].at = "save"}
Mails(n) == Cardinality(had) <= n
Reports(n) == Cardinality(proven) <= n
Staying == \A u \in Accounts : member[u] # None => member[u].state = "live"
Going == Seen \subseteq {i1} /\ Mails(2) /\ Reports(1) /\ Saving = {}
Moving == Seen \subseteq {i2} /\ Mails(2) /\ Reports(2) /\ Saving = {} /\ Staying
Saved ==
    /\ Seen \subseteq {i2} /\ Staying /\ Mails(3) /\ Reports(IF Mails(2) THEN 1 ELSE 0)
    /\ chosen = [u \in Accounts |-> None] /\ Cardinality(Saving) <= 1
Pictured == Seen \subseteq {i1} /\ Mails(1) /\ Reports(1) /\ Staying
Two == Seen \subseteq {i1, i3} /\ Mails(1) /\ proven \subseteq Ids \X {e1} /\ Saving = {} /\ Staying
SignInBounds ==
    /\ member[u2] # None => member[u1] # None
    /\ \A p \in proven : p[2] = e2 => <<p[1], e1>> \in proven
    /\ \/ part = "going" /\ Going
       \/ part = "moving" /\ Moving
       \/ part = "saved" /\ Saved
       \/ part = "pictured" /\ Pictured
       \/ part = "two" /\ Two

Bounds ==
    \/ part = "graph" /\ GraphBounds
    \/ ProfileBounds
    \/ SignInBounds
==============================================================================
