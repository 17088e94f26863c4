---------------------------- MODULE AccountCodes ----------------------------
(***************************************************************************)
(* One-time codes sent by mail: password reset, confirmation of an e-mail  *)
(* address, and its change (server/handle_server_request_*.go,             *)
(* handle_server_reset_password.go, handle_server_confirm_email.go,        *)
(* handle_server_update_email.go).  A code is a column of the account's    *)
(* row.  It is checked against the row that the middleware read, and the   *)
(* statement that spends it does not check it again.                       *)
(***************************************************************************)
EXTENDS AccountDb

CONSTANT NewEmails  \* the addresses that people change to

ASSUME NewEmailsAssumption == NewEmails \subseteq Emails

\* The column that a kind of request writes, and the ones that spend it.
Column(k) ==
    CASE k \in {"requestPasswordReset", "resetPassword"} -> "reset"
      [] k \in {"requestEmailConfirmation", "confirmEmail"} -> "verify"
      [] OTHER -> "update"

\* requestPasswordReset needs no session: the account is found by its e-mail.
RequestReset(c, d) ==
    /\ repos[d] # None
    /\ Start(c, "requestPasswordReset", [NoInput EXCEPT !.did = d], None, "write")
    /\ UNCHANGED <<tables, age>>

\* The other two ask for a session: confirmation of an address that is not yet
\* confirmed, or the change of one that is.
RequestCode(c, k, s) ==
    /\ AccessToken(s)
    /\ LET d == arg[s].did
       IN  /\ \/ k = "requestEmailConfirmation" /\ ~repos[d].confirmed
              \/ k = "requestEmailUpdate" /\ repos[d].confirmed
           /\ Start(c, k, [NoInput EXCEPT !.did = d, !.session = s], None, "write")
    /\ UNCHANGED <<tables, age>>

\* A code that some mail brought to the user: the checks against what the
\* middleware read.  The code of a sign-up is stored without an expiry, and
\* counts as expired.
GoodCode(row, k, code) ==
    /\ row[Column(k)] = code
    /\ kind[code] \notin SignUps
    /\ age[code] = 0

SpendStart(c, k, s, code) ==
    /\ k \in {"resetPassword", "confirmEmail"}
    /\ AccessToken(s)
    /\ pc[code] = "ok"
    /\ LET d == arg[s].did
       IN  /\ GoodCode(repos[d], k, code)
           /\ Start(c, k, [NoInput EXCEPT !.did = d, !.session = s, !.code = code],
                    None, "write")
    /\ UNCHANGED <<tables, age>>

\* updateEmail checks a code when it is given one.
UpdateEmailStart(c, s, new, code) ==
    /\ AccessToken(s)
    /\ LET d == arg[s].did
       IN  /\ \/ code = None
              \/ code # None /\ pc[code] = "ok" /\ GoodCode(repos[d], "updateEmail", code)
           /\ Start(c, "updateEmail", [NoInput EXCEPT !.did = d, !.session = s,
                                       !.email = new, !.code = code], repos[d], "write")
    /\ UNCHANGED <<tables, age>>

\* Mutant: a spent code stays in its column.
WrittenKeepsCode(c) ==
    LET d == arg[c].did
    IN  CASE kind[c] \in Issuers -> [repos[d] EXCEPT ![Column(kind[c])] = c]
          [] kind[c] = "resetPassword" -> repos[d]
          [] kind[c] = "confirmEmail" -> [repos[d] EXCEPT !.confirmed = TRUE]
          [] kind[c] = "updateEmail" -> [repos[d] EXCEPT !.email = arg[c].email]

\* The statement of a request writes its code, the one of a use clears it.
Written(c) ==
    LET d == arg[c].did
        col == Column(kind[c])
    IN  CASE kind[c] \in Issuers -> [repos[d] EXCEPT ![col] = c]
          [] kind[c] = "resetPassword" -> [repos[d] EXCEPT !.reset = None]
          [] kind[c] = "confirmEmail" -> [repos[d] EXCEPT !.verify = None, !.confirmed = TRUE]
          [] kind[c] = "updateEmail" ->
                [repos[d] EXCEPT !.update = None, !.email = arg[c].email,
                                 !.confirmed = @ /\ view[c].email = arg[c].email]

\* The unique index on e-mail refuses an address that another account has.
Refused(c) ==
    /\ kind[c] = "updateEmail"
    /\ \E d \in Dids \ {arg[c].did} : repos[d] # None /\ repos[d].email = arg[c].email

WriteCode(c) ==
    /\ pc[c] = "write" /\ kind[c] \notin {"activate", "deactivate"}
    /\ IF Refused(c) /\ repos[arg[c].did] # None
       THEN Goto(c, "refused") /\ UNCHANGED repos
       ELSE /\ Goto(c, "ok")
            /\ Update(arg[c].did, Written(c))
    /\ UNCHANGED <<actors, directory, invites, access, refresh, age>>

\* The code is stored and the mail with it cannot be sent: an error, and nobody
\* has the code.
MailFails(c) ==
    /\ pc[c] = "write" /\ kind[c] \in Issuers
    /\ Update(arg[c].did, Written(c))
    /\ Fail(c)
    /\ UNCHANGED <<actors, directory, invites, access, refresh, age>>

CodesNext(c) ==
    \/ \E d \in Dids : RequestReset(c, d)
    \/ \E s \in Calls :
          \/ \E k \in {"requestEmailConfirmation", "requestEmailUpdate"} : RequestCode(c, k, s)
          \/ \E k \in {"resetPassword", "confirmEmail"}, code \in Calls : SpendStart(c, k, s, code)
          \/ \E e \in NewEmails, code \in Codes : UpdateEmailStart(c, s, e, code)
    \/ WriteCode(c) \/ MailFails(c)
=============================================================================
