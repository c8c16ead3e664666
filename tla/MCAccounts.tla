------------------------------ MODULE MCAccounts ------------------------------
(***************************************************************************)
(* What AuthService keeps: the sessions of an account (three refresh       *)
(* tokens, an exchange code, four handlers), and how addresses become      *)
(* accounts (sign-ups with one address, users who move between three, two  *)
(* requests).  The two share no key, so that each is explored alone.       *)
(***************************************************************************)
EXTENDS Auth, TLC
CONSTANTS j1, j2, j3, h1, h2, h3, h4, e1, e2, e3, u1, u2
VARIABLE part      \* which of the two is explored

MCRegistered == [u \in Users |-> IF u = u1 THEN e2 ELSE None]

MCInit == Init /\ Addresses!Init /\ part \in {"addresses", "tokens"}
AddressesStep == part = "addresses" /\ Addresses!Next /\ UNCHANGED <<vars, part>>
TokensStep == part = "tokens" /\ Next /\ UNCHANGED <<addresses, part>>
MCSpec == MCInit /\ [][AddressesStep \/ TokensStep]_<<vars, addresses, part>>

Symmetry == Permutations(Profiles) \cup Permutations(Calls)

\* Bounds: at most one user moves or resets a password, and a second code is only
\* made while nobody signs up, or while nobody moves.
NoSignUp ==
    /\ \A r \in Calls : req[r] # Addresses!Idle => req[r].user # None
    /\ \A e \in Emails : session[e] = None /\ oauth[e] = "none"
    /\ \A c \in Addresses!OtpCodes : mail[c] # None => mail[c][2][1] # "signup"
Movers == {u \in Users : \/ target[u] # None
                         \/ \E c \in Addresses!OtpCodes : mail[c] # None /\ mail[c][2][2] = u
                         \/ \E r \in Calls : req[r] # Addresses!Idle /\ req[r].user = u}

\* Bounds: tokens and handlers are taken in order, since their names mean nothing,
\* and when the fourth handler runs, one other does.
Busy == {h \in Requests : task[h] # NoTask}
Used == minted \cup Busy \cup served
InOrder == \A p \in {<<j1, j2>>, <<j2, j3>>, <<h1, h2>>, <<h2, h3>>, <<h3, h4>>} :
    p[2] \in Used => p[1] \in Used

Bounds ==
    \/ part = "addresses" /\ Cardinality(Movers) <= 1 /\ (made <= 1 \/ Movers = {} \/ NoSignUp)
    \/ part = "tokens" /\ InOrder /\ (h4 \in Used => Cardinality(Busy) <= 2)
==============================================================================
