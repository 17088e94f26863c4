------------------------------- MODULE SignUp -------------------------------
(***************************************************************************)
(* Making an account: createAccount (server/handle_server_create_account.go)*)
(* with a new DID or one brought along, and the sign-up page               *)
(* (server/handle_account_signup.go).  Both check handle, invite and       *)
(* e-mail, publish the DID, store a genesis commit, insert the rows in a   *)
(* transaction, announce the identity, and take a use off the invite last. *)
(***************************************************************************)
EXTENDS AccountDb

CONSTANT Wanted     \* who signs up: the handle, the e-mail, and the DID that is
                    \* brought along, or None

ASSUME WantedAssumption ==
    Wanted \subseteq [handle : Handles, email : Emails, did : Dids \cup {None}]

Elsewhere == {w.did : w \in Wanted} \ {None}

SignUpStart(c, k) ==
    /\ \E w \in Wanted, i \in Invites :
          /\ (w.did # None) = (k = "migrate")
          /\ Start(c, k, [NoInput EXCEPT !.handle = w.handle, !.email = w.email,
                                         !.invite = i, !.did = w.did], None, "check")
    /\ UNCHANGED <<tables, age>>

\* The handle and the address must be free, or this DID's, and the invite good.
HandleTaken(c) == \E d \in Dids \ {arg[c].did} : actors[d] = arg[c].handle
EmailTaken(c) ==
    \E d \in Dids \ {arg[c].did} : repos[d] # None /\ repos[d].email = arg[c].email
\* Mutant: any code that exists is good.
AnyInvite(c) == invites[arg[c].invite] # None
GoodInvite(c) == invites[arg[c].invite] # None /\ invites[arg[c].invite].left >= 1

\* Three queries, one after the other and in another order on the page; what
\* matters is that they come before everything that is written.
CheckSignUp(c) ==
    /\ pc[c] = "check"
    /\ Goto(c, IF HandleTaken(c) \/ EmailTaken(c) \/ ~GoodInvite(c) THEN "refused"
               ELSE IF kind[c] = "migrate" THEN "insert" ELSE "publish")
    /\ UNCHANGED <<tables, age>>

\* The DID is created and sent to the PLC directory.  The genesis commit that is
\* stored next touches no table: its failure is the one of the insertion.
PublishDid(c) ==
    /\ pc[c] = "publish"
    /\ \E d \in Dids \ directory :
          /\ directory' = directory \cup {d}
          /\ arg' = [arg EXCEPT ![c].did = d]
    /\ pc' = [pc EXCEPT ![c] = "insert"]
    /\ UNCHANGED <<repos, actors, invites, access, refresh, age, kind, view, beside>>

\* Mutant: nothing in the tables is unique.
NoClash(c) == FALSE

\* One transaction; the primary keys and the unique indexes may refuse it.  The
\* identity event that follows is only logged when it fails.
Clash(c) == repos[arg[c].did] # None \/ EmailTaken(c) \/ HandleTaken(c)

\* Mutant: the row is made without its address.
NewRepoNoEmail(c) == [email |-> None, confirmed |-> FALSE, active |-> TRUE,
                      verify |-> c, update |-> None, reset |-> None]
NewRepo(c) == [email |-> arg[c].email, confirmed |-> FALSE, active |-> TRUE,
               verify |-> c, update |-> None, reset |-> None]
InsertAccount(c) ==
    /\ pc[c] = "insert"
    /\ IF Clash(c)
       THEN /\ Goto(c, "refused")
            /\ UNCHANGED <<repos, actors>>
       ELSE /\ Goto(c, "decrement")
            /\ repos' = [repos EXCEPT ![arg[c].did] = NewRepo(c)]
            /\ actors' = [actors EXCEPT ![arg[c].did] = arg[c].handle]
    /\ UNCHANGED <<directory, invites, access, refresh, age>>

AfterUse(k) == IF k = "signup" THEN "ok" ELSE "token"

\* A use is taken off by one statement that checks nothing; the note of who used
\* it comes after.
TakeUse(c) ==
    /\ pc[c] = "decrement"
    /\ LET i == arg[c].invite
       IN  invites' = IF invites[i] = None THEN invites
                      ELSE [invites EXCEPT ![i].left = @ - 1]
    /\ Goto(c, AfterUse(kind[c]))
    /\ UNCHANGED <<repos, actors, directory, access, refresh, age>>

\* The page only logs a failure.
TakeUseSkipped(c) ==
    /\ pc[c] = "decrement" /\ kind[c] = "signup"
    /\ Goto(c, AfterUse(kind[c]))
    /\ UNCHANGED <<tables, age>>

\* An administrator makes an invite code, for an account or for "admin".
InviteStart(c, i, owner) ==
    /\ invites[i] = None
    /\ ~\E d \in Calls : arg[d].invite = i
    /\ Start(c, "createInviteCode", [NoInput EXCEPT !.invite = i, !.did = owner],
             None, "code")
    /\ UNCHANGED <<tables, age>>

CreateInvite(c) ==
    /\ pc[c] = "code"
    /\ invites' = [invites EXCEPT ![arg[c].invite] = [left |-> 1, owner |-> arg[c].did]]
    /\ Goto(c, "ok")
    /\ UNCHANGED <<repos, actors, directory, access, refresh, age>>

SignUpNext(c) ==
    \/ \E k \in SignUps : SignUpStart(c, k)
    \/ CheckSignUp(c) \/ PublishDid(c) \/ InsertAccount(c)
    \/ TakeUse(c) \/ TakeUseSkipped(c)
    \/ \E i \in Invites, owner \in {d \in Dids : repos[d] # None} \cup {None} : InviteStart(c, i, owner)
    \/ CreateInvite(c)
=============================================================================
