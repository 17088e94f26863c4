----------------------------- MODULE AccountDb ------------------------------
(***************************************************************************)
(* The tables that the account handlers share, and the calls that work on  *)
(* them.  A handler reads the account in its middleware, checks what it    *)
(* read, and then writes with one statement after the other; no lock and,  *)
(* but for the two transactions that are one step here, no transaction     *)
(* covers them.  Any statement may fail.                                   *)
(*                                                                         *)
(* Names: a one-time code and a session's token pair are named by the call *)
(* that made them.  Passwords, mails and pages are left out: a sign-in is  *)
(* one with the right password.  The account page's session is a cookie,   *)
(* which the browser keeps: a request with one only needs the account.     *)
(* Rows that no handler decides by (invite_code_uses) are left out too.    *)
(***************************************************************************)
EXTENDS Integers, FiniteSets

CONSTANTS
    Calls,      \* requests of clients, each made once
    Dids,       \* accounts there may be
    Handles, Emails, Invites,
    MaxOpen,    \* bound: calls that are open together
    MaxFailures,\* bound: calls that end because a statement failed
    MaxAge,     \* bound: 0 fresh, 1 past the ten minutes of a code and the
                \* hours of an access token, 2 past the week of a refresh token
    None

ASSUME NoneAssumption ==
    None \notin Calls \cup Dids \cup Handles \cup Emails \cup Invites
ASSUME BoundsAssumption == MaxOpen \in Nat /\ MaxFailures \in Nat /\ MaxAge \in Nat

VARIABLES
    repos,      \* repos rows: e-mail, confirmed, active, the three codes
    actors,     \* actors rows: the handle of an account
    directory,  \* the DIDs that the PLC directory knows
    invites,    \* invite_codes rows: remaining_use_count and owner
    access,     \* tokens rows
    refresh,    \* refresh_tokens rows
    age,        \* how old a code or a session is
    pc,         \* where a call is
    kind,       \* which handler it runs
    arg,        \* its input
    view,       \* the account its middleware read, where a statement uses it
    beside      \* history: the calls that were open while it was

tables == <<repos, actors, directory, invites, access, refresh>>
calls == <<pc, kind, arg, view, beside>>
vars == <<tables, age, calls>>

Ended == {"ok", "refused", "failed"}
Open(c) == pc[c] \notin Ended \cup {"idle"}

NoInput == [did |-> None, handle |-> None, email |-> None,
            code |-> None, session |-> None, invite |-> None]
Inputs == [did : Dids \cup {None}, handle : Handles \cup {None},
           email : Emails \cup {None}, code : Calls \cup {None},
           session : Calls \cup {None}, invite : Invites \cup {None}]

Codes == Calls \cup {None}
RepoRow == [email : Emails, confirmed : BOOLEAN, active : BOOLEAN,
            verify : Codes, update : Codes, reset : Codes]
InviteRow == [left : Int, owner : Dids \cup {None}]
ASSUME RowsAssumption == None \notin RepoRow /\ None \notin InviteRow

SignUps == {"createAccount", "signup", "migrate"}
SessionMakers == {"createAccount", "migrate", "createSession", "refreshSession"}
Issuers == {"requestPasswordReset", "requestEmailConfirmation", "requestEmailUpdate"}
Kinds == SignUps \cup SessionMakers \cup Issuers \cup
    {"deleteSession", "resetPassword", "confirmEmail", "updateEmail",
     "activate", "deactivate", "accountDelete", "createInviteCode"}

\* A request arrives: its handler is at the first statement after its checks.
Start(c, k, in, read, first) ==
    LET Others == {d \in Calls : Open(d)}
    IN  /\ pc[c] = "idle"
        /\ Cardinality(Others) < MaxOpen
        /\ pc' = [pc EXCEPT ![c] = first]
        /\ kind' = [kind EXCEPT ![c] = k]
        /\ arg' = [arg EXCEPT ![c] = in]
        /\ view' = [view EXCEPT ![c] = read]
        /\ beside' = [d \in Calls |-> IF d = c THEN Others
                                      ELSE IF d \in Others THEN beside[d] \cup {c}
                                      ELSE beside[d]]

\* The call goes on at another statement, or answers.
Goto(c, next) ==
    /\ pc' = [pc EXCEPT ![c] = next]
    /\ view' = IF next \in Ended THEN [view EXCEPT ![c] = None] ELSE view
    /\ UNCHANGED <<kind, arg, beside>>

\* The token pair of session s, as a client holds it.
Issued(s) == pc[s] = "ok" /\ kind[s] \in SessionMakers

\* The bearer middleware: an access token is good until it expires, whether or
\* not its row is still there; a refresh token needs its row.
AccessToken(s) == Issued(s) /\ age[s] = 0 /\ repos[arg[s].did] # None
RefreshToken(s) ==
    Issued(s) /\ age[s] <= 1 /\ s \in refresh /\ repos[arg[s].did] # None

\* The cookie of an account's browser, and the look-up of the account.
WebSession(d) == repos[d] # None

\* UPDATE repos ... WHERE did = ?: no effect, and no error, without a row.
Update(d, row) == repos' = IF repos[d] = None THEN repos ELSE [repos EXCEPT ![d] = row]

\* A statement fails and the call answers an error.  A failure that a handler
\* only logs is an action of its own.
OnlyLogged(c) == pc[c] = "decrement" /\ kind[c] = "signup"
Fail(c) ==
    /\ Cardinality({d \in Calls : pc[d] = "failed"}) < MaxFailures
    /\ Goto(c, "failed")
StatementFails(c) ==
    /\ Open(c) /\ ~OnlyLogged(c)
    /\ Fail(c)
    /\ UNCHANGED <<tables, age>>

\* Time passes, and what was issued so far grows old.
TimePasses ==
    LET issued == {c \in Calls : pc[c] = "ok" /\ kind[c] \in SessionMakers \cup Issuers}
    IN  /\ issued # {}
        /\ \A c \in issued : age[c] < MaxAge
        /\ age' = [c \in Calls |-> age[c] + (IF c \in issued THEN 1 ELSE 0)]
        /\ UNCHANGED <<tables, calls>>
=============================================================================
