------------------------------- MODULE Members -------------------------------
(***************************************************************************)
(* What is kept of the members: who follows and blocks whom (SocialGraph), *)
(* the profile of an account (Profiles), and the users of Google, Facebook *)
(* and GitHub that are linked to accounts (SignIns).  Each is about other  *)
(* rows or other columns, so that it is a specification of its own.        *)
(***************************************************************************)
EXTENDS SocialGraph

CONSTANTS
    Jobs, Texts, Avatars, Covers, Null, Edits, Tries,
    Ids, ProviderOf, Photo, Emails, Accounts, Photos, None

VARIABLES account, value, files, posted, shown, call, task,
          last, raced, used, spent, over, lapsed
VARIABLES member, started, asked, proven, had, signed, met, chosen, hasty

profile == <<account, value, files, posted, shown, call, task,
             last, raced, used, spent, over, lapsed>>
signIns == <<member, started, asked, proven, had, signed, met, chosen, hasty>>

Profile == INSTANCE Profiles WITH Clients <- Requests, Tasks <- Jobs

SignIn == INSTANCE SignIns WITH
    Users <- Accounts, Pictures <- Photos, call <- asked, crossed <- met

ASSUME ProperProfiles == Profile!Given
ASSUME ProperProviders == SignIn!Given

\* What an account was last given is kept, its pictures are there, a deleted account
\* stays deleted, and the documents say what the row does.
ProfileSound == Profile!ProfileSound
\* A provider's user is let into accounts that have had its address, and into one only
\* unless two requests meet; a link leaves the picture that the owner has given.
SignInsSound == SignIn!SignInsSound
=============================================================================
