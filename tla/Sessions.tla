------------------------------ MODULE Sessions ------------------------------
(***************************************************************************)
(* Bearer sessions: server/session.go and the handlers of createSession,   *)
(* refreshSession and deleteSession.                                       *)
(*                                                                         *)
(* A session is a row in tokens and one in refresh_tokens.  Only the       *)
(* refresh handler's middleware looks for the row of the token it is given. *)
(***************************************************************************)
EXTENDS AccountDb

\* createSession: the account is read and the password compared.
CreateSessionStart(c, d) ==
    /\ repos[d] # None
    /\ Start(c, "createSession", [NoInput EXCEPT !.did = d], None, "token")
    /\ UNCHANGED <<tables, age>>

\* refreshSession: the middleware has found the refresh token's row.
RefreshStart(c, s) ==
    /\ RefreshToken(s)
    /\ Start(c, "refreshSession",
             [NoInput EXCEPT !.did = arg[s].did, !.session = s], None, "dropRefresh")
    /\ UNCHANGED <<tables, age>>

\* Mutant: the old refresh token stays.
DropRefreshForgets(c) ==
    /\ pc[c] = "dropRefresh"
    /\ Goto(c, "dropAccess")
    /\ UNCHANGED <<tables, age>>

\* The old pair is deleted: first the refresh token, then the access token.
DropRefresh(c) ==
    /\ pc[c] = "dropRefresh"
    /\ refresh' = refresh \ {arg[c].session}
    /\ Goto(c, "dropAccess")
    /\ UNCHANGED <<repos, actors, directory, invites, access, age>>

DropAccess(c) ==
    /\ pc[c] = "dropAccess"
    /\ access' = access \ {arg[c].session}
    /\ Goto(c, "token")
    /\ UNCHANGED <<repos, actors, directory, invites, refresh, age>>

\* createSession of session.go: two rows, two statements.
InsertToken(c) ==
    /\ pc[c] = "token"
    /\ access' = access \cup {c}
    /\ Goto(c, "refreshToken")
    /\ UNCHANGED <<repos, actors, directory, invites, refresh, age>>

InsertRefreshToken(c) ==
    /\ pc[c] = "refreshToken"
    /\ refresh' = refresh \cup {c}
    /\ Goto(c, "ok")
    /\ UNCHANGED <<repos, actors, directory, invites, access, age>>

\* deleteSession: the access token's row is deleted and names the refresh
\* token.  A token without a row names none, and nothing more is deleted.
DeleteSessionStart(c, s) ==
    /\ AccessToken(s)
    /\ Start(c, "deleteSession",
             [NoInput EXCEPT !.did = arg[s].did, !.session = s], None, "takeAccess")
    /\ UNCHANGED <<tables, age>>

TakeAccess(c) ==
    /\ pc[c] = "takeAccess"
    /\ access' = access \ {arg[c].session}
    /\ Goto(c, IF arg[c].session \in access THEN "dropPair" ELSE "ok")
    /\ UNCHANGED <<repos, actors, directory, invites, refresh, age>>

\* Mutant: the refresh token is left to expire.
DropPairForgets(c) ==
    /\ pc[c] = "dropPair"
    /\ Goto(c, "ok")
    /\ UNCHANGED <<tables, age>>

DropPair(c) ==
    /\ pc[c] = "dropPair"
    /\ refresh' = refresh \ {arg[c].session}
    /\ Goto(c, "ok")
    /\ UNCHANGED <<repos, actors, directory, invites, access, age>>

SessionNext(c) ==
    \/ \E d \in Dids : CreateSessionStart(c, d)
    \/ \E s \in Calls : RefreshStart(c, s) \/ DeleteSessionStart(c, s)
    \/ DropRefresh(c) \/ DropAccess(c)
    \/ InsertToken(c) \/ InsertRefreshToken(c)
    \/ TakeAccess(c) \/ DropPair(c)
=============================================================================
