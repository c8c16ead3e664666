-------------------------------- MODULE Auth --------------------------------
(***************************************************************************)
(* What AuthService keeps: the sessions of an account (RefreshTokens), and *)
(* how addresses become accounts (Accounts).  The two share no key, so     *)
(* that each is a specification of its own.                                *)
(***************************************************************************)
EXTENDS RefreshTokens

CONSTANTS
    Emails, NewEmails, Users, Registered, Profiles, MaxCodes, None,
    Calls   \* requests about addresses that may be under way at the same time

VARIABLES row, password, session, oauth, otp, target, mail, token, made, req,
          spent, disowned, undone, raced

addresses == <<row, password, session, oauth, otp, target, mail, token, made, req,
               spent, disowned, undone, raced>>

Addresses == INSTANCE Accounts WITH Requests <- Calls, account <- row, minted <- made

ASSUME ProperConstants ==
    /\ Addresses!NewAreEmails /\ Addresses!KindsDisjoint /\ Addresses!DifferentAddresses
    /\ Addresses!SomeCodes /\ Addresses!NoneIsNothing

\* An address, a new address and a new password are set by who read the code mailed to it.
OwnersOnly == Addresses!OwnersOnly
\* A sign-up that the owner of the address has disowned has no session any more.
NotMeHolds == Addresses!NotMeHolds
=============================================================================
