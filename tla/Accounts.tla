------------------------------ MODULE Accounts ------------------------------
(***************************************************************************)
(* The account handlers together: sign-up, sessions and codes beside each  *)
(* other and beside activation, deactivation                               *)
(* (server/handle_server_activate_account.go and its counterpart) and the  *)
(* deletion of an account (server/handle_server_delete_account.go).        *)
(***************************************************************************)
EXTENDS SignUp, Sessions, AccountCodes

CONSTANTS
    FirstDid, FirstHandle, FirstEmail, FirstInvite, FirstSession

ASSUME FirstAssumption ==
    /\ FirstDid \in Dids /\ FirstHandle \in Handles /\ FirstEmail \in Emails
    /\ FirstInvite \in Invites /\ FirstSession \in Calls

\* An account with a confirmed address and a session, and an invite with one use.
Init ==
    /\ repos = [d \in Dids |->
          IF d # FirstDid THEN None
          ELSE [email |-> FirstEmail, confirmed |-> TRUE, active |-> TRUE,
                verify |-> None, update |-> None, reset |-> None]]
    /\ actors = [d \in Dids |-> IF d = FirstDid THEN FirstHandle ELSE None]
    /\ directory = {FirstDid} \cup Elsewhere
    /\ invites = [i \in Invites |->
          IF i = FirstInvite THEN [left |-> 1, owner |-> FirstDid] ELSE None]
    /\ access = {FirstSession}
    /\ refresh = {FirstSession}
    /\ age = [c \in Calls |-> 0]
    /\ pc = [c \in Calls |-> IF c = FirstSession THEN "ok" ELSE "idle"]
    /\ kind = [c \in Calls |-> IF c = FirstSession THEN "createSession" ELSE None]
    /\ arg = [c \in Calls |-> IF c = FirstSession THEN [NoInput EXCEPT !.did = FirstDid]
                              ELSE NoInput]
    /\ view = [c \in Calls |-> None]
    /\ beside = [c \in Calls |-> {}]

-----------------------------------------------------------------------------
(* Activation, deactivation, deletion.                                     *)

\* The #account event that follows is only logged when it fails.
StatusStart(c, k, s) ==
    /\ AccessToken(s)
    /\ Start(c, k, [NoInput EXCEPT !.did = arg[s].did, !.session = s],
             None, "write")
    /\ UNCHANGED <<tables, age>>

SetActive(c) ==
    /\ pc[c] = "write" /\ kind[c] \in {"activate", "deactivate"}
    /\ Update(arg[c].did, [repos[arg[c].did] EXCEPT !.active = (kind[c] = "activate")])
    /\ Goto(c, "ok")
    /\ UNCHANGED <<actors, directory, invites, access, refresh, age>>

\* /account/delete: the cookie's account, with a verified passkey assertion.
DeleteStart(c, d) ==
    /\ WebSession(d)
    /\ Start(c, "accountDelete", [NoInput EXCEPT !.did = d], None, "delete")
    /\ UNCHANGED <<tables, age>>

\* deleteAccountByDid: one transaction over the account's tables.
OwnSessions(d) == {s \in Calls : arg[s].did = d}
\* Mutant: the session rows are left to expire.
DeleteRowsOnly(c) ==
    /\ pc[c] = "delete"
    /\ repos' = [repos EXCEPT ![arg[c].did] = None]
    /\ actors' = [actors EXCEPT ![arg[c].did] = None]
    /\ Goto(c, "ok")
    /\ UNCHANGED <<directory, invites, access, refresh, age>>

DeleteRows(c) ==
    /\ pc[c] = "delete"
    /\ LET d == arg[c].did
       IN  /\ access' = access \ OwnSessions(d)
           /\ refresh' = refresh \ OwnSessions(d)
           /\ invites' = [i \in Invites |->
                 IF invites[i] # None /\ invites[i].owner = d THEN None ELSE invites[i]]
           /\ actors' = [actors EXCEPT ![d] = None]
           /\ repos' = [repos EXCEPT ![d] = None]
    /\ Goto(c, "ok")
    /\ UNCHANGED <<directory, age>>

LifecycleNext(c) ==
    \/ \E s \in Calls, k \in {"activate", "deactivate"} : StatusStart(c, k, s)
    \/ SetActive(c)
    \/ \E d \in Dids : DeleteStart(c, d)
    \/ DeleteRows(c)

Next ==
    \/ \E c \in Calls :
          \/ SignUpNext(c) \/ SessionNext(c) \/ CodesNext(c) \/ LifecycleNext(c)
          \/ StatementFails(c)
    \/ TimePasses

Spec == Init /\ [][Next]_vars

-----------------------------------------------------------------------------
(* Properties.                                                             *)

TypeOK ==
    /\ repos \in [Dids -> RepoRow \cup {None}]
    /\ actors \in [Dids -> Handles \cup {None}]
    /\ directory \subseteq Dids
    /\ invites \in [Invites -> InviteRow \cup {None}]
    /\ access \subseteq Calls /\ refresh \subseteq Calls
    /\ age \in [Calls -> 0..MaxAge]
    /\ kind \in [Calls -> Kinds \cup {None}]
    /\ arg \in [Calls -> Inputs]
    /\ view \in [Calls -> RepoRow \cup {None}]
    /\ beside \in [Calls -> SUBSET Calls]

\* handle_server_create_account.go:228-249, handle_account_signup.go:194-202:
\* whatever sign-ups, changes of address and deletions overlap, handles and
\* addresses stay unique, an account has both its rows or none, and its DID is
\* published.
AccountsAreWhole ==
    /\ \A d \in Dids : (repos[d] = None) = (actors[d] = None)
    /\ \A d \in Dids : repos[d] # None => d \in directory
    /\ \A d, e \in Dids : d # e /\ repos[d] # None /\ repos[e] # None =>
          repos[d].email # repos[e].email /\ actors[d] # actors[e]

\* The check of an invite (handle_server_create_account.go:140, handle_account_signup.go:109)
\* and its decrement are apart.  It can be used more often than it says, but only
\* by sign-ups that were open together; those that come one after the other never
\* overdraw it, whatever fails in between.
OverdrawnOnlyTogether ==
    \A i \in Invites : invites[i] # None /\ invites[i].left < 0 =>
        \E c, d \in Calls : /\ {kind[c], kind[d]} \subseteq SignUps
                            /\ arg[c].invite = i /\ arg[d].invite = i
                            /\ d \in beside[c]

\* A code works once: two calls that succeeded with the same code were open at
\* the same time, both having read the row before either wrote it.
SpentCodesStayDead ==
    \A c, d \in Calls :
        (/\ c # d /\ arg[c].code # None /\ arg[c].code = arg[d].code
         /\ pc[c] = "ok" /\ pc[d] = "ok") => d \in beside[c]

\* A refresh token is exchanged once, but for refreshes that were open at the
\* same time: a later one is turned away.
RefreshedOnce ==
    \A c, d \in Calls :
        (/\ c # d /\ kind[c] = "refreshSession" /\ kind[d] = "refreshSession"
         /\ arg[c].session = arg[d].session
         /\ pc[c] = "ok" /\ pc[d] = "ok") => d \in beside[c]

\* A session that was signed out cannot be refreshed any more, unless an
\* earlier sign-out of it failed between its two statements: that one took the
\* row by which the next would have found the refresh token.  The deletion of the
\* account may take that row too, from a session that is being made beside it; the
\* account may come back.
SignedOutStaysOut ==
    \A c \in Calls :
        (/\ kind[c] = "deleteSession" /\ pc[c] = "ok"
         /\ ~\E d \in Calls : /\ kind[d] = "deleteSession" /\ pc[d] \in {"failed", "dropPair"}
                              /\ arg[d].session = arg[c].session
         /\ ~\E d \in beside[arg[c].session] : kind[d] = "accountDelete")
        => arg[c].session \notin refresh

\* deleteAccountByDid (handle_server_delete_account.go:23): a token row whose
\* account is gone was stored by a call that was open when it was deleted.
NoTokensWithoutAccount ==
    \A s \in access \cup refresh : repos[arg[s].did] = None =>
        \E c \in Calls : /\ kind[c] = "accountDelete" /\ arg[c].did = arg[s].did
                         /\ c \in beside[s]
=============================================================================
