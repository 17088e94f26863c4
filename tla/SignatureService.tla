-------------------------- MODULE SignatureService --------------------------
(***************************************************************************)
(* What the signer hub promises to the handlers that need a signature and  *)
(* to the user who holds the passkey, without goroutines, channels or      *)
(* mutexes.  A request joins the line of a session; a session shows its    *)
(* line to the signer in order, one open prompt at a time; a request ends  *)
(* signed or rejected only if that is what the signer decided about it,    *)
(* and may fail at any moment.                                             *)
(***************************************************************************)
EXTENDS Naturals, Sequences

CONSTANTS
    Sessions, Requests,
    NoSession   \* not a session

VARIABLES
    state,      \* idle, asking, queued, or how the request ended
    session,    \* the session a request is served by
    line,       \* the requests of a session that have not been shown yet
    prompt,     \* unsent, sent, or the signer's decision
    over        \* the session shows nothing any more

vars == <<state, session, line, prompt, over>>

Decisions == {"sig", "bad", "reject"}

Init ==
    /\ state = [r \in Requests |-> "idle"]
    /\ session = [r \in Requests |-> NoSession]
    /\ line = [s \in Sessions |-> <<>>]
    /\ prompt = [r \in Requests |-> "unsent"]
    /\ over = [s \in Sessions |-> FALSE]

Ask(r, s) ==
    /\ state[r] = "idle"
    /\ state' = [state EXCEPT ![r] = "asking"]
    /\ session' = [session EXCEPT ![r] = s]
    /\ UNCHANGED <<line, prompt, over>>

Refuse(r) ==
    /\ state[r] = "idle"
    /\ state' = [state EXCEPT ![r] = "failed"]
    /\ UNCHANGED <<session, line, prompt, over>>

Join(r) ==
    /\ state[r] = "asking"
    /\ state' = [state EXCEPT ![r] = "queued"]
    /\ line' = IF over[session[r]] THEN line
               ELSE [line EXCEPT ![session[r]] = Append(@, r)]
    /\ UNCHANGED <<session, prompt, over>>

\* In order, and never beside another open prompt of the session.
Show(s) ==
    /\ line[s] # <<>>
    /\ prompt[Head(line[s])] = "unsent"
    /\ \A r \in Requests : session[r] = s => prompt[r] # "sent"
    /\ prompt' = [prompt EXCEPT ![Head(line[s])] = "sent"]
    /\ line' = [line EXCEPT ![s] = Tail(@)]
    /\ UNCHANGED <<state, session, over>>

\* A prompt is lost on its way to the signer.
Lose(s) ==
    /\ line[s] # <<>>
    /\ line' = [line EXCEPT ![s] = Tail(@)]
    /\ UNCHANGED <<state, session, prompt, over>>

Decide(r) ==
    /\ prompt[r] = "sent"
    /\ \E v \in Decisions : prompt' = [prompt EXCEPT ![r] = v]
    /\ UNCHANGED <<state, session, line, over>>

Finish(r, how) ==
    /\ state[r] = "queued"
    /\ how = "signed" => prompt[r] = "sig"
    /\ how = "rejected" => prompt[r] = "reject"
    /\ state' = [state EXCEPT ![r] = how]

\* A request that fails may leave the line from wherever it stands.
Complete(r) ==
    /\ \E how \in {"signed", "rejected", "failed"} : Finish(r, how)
    /\ UNCHANGED <<session, line, prompt, over>>

GiveUp(r) ==
    /\ Finish(r, "failed")
    /\ \E i \in 1..Len(line[session[r]]) :
          /\ line[session[r]][i] = r
          /\ line' = [line EXCEPT ![session[r]] =
                         SubSeq(@, 1, i - 1) \o SubSeq(@, i + 1, Len(@))]
    /\ UNCHANGED <<session, prompt, over>>

End(s) ==
    /\ ~over[s]
    /\ over' = [over EXCEPT ![s] = TRUE]
    /\ line' = [line EXCEPT ![s] = <<>>]
    /\ UNCHANGED <<state, session, prompt>>

Next ==
    \/ \E r \in Requests : \/ Refuse(r) \/ Join(r) \/ Decide(r)
                           \/ Complete(r) \/ GiveUp(r)
                           \/ \E s \in Sessions : Ask(r, s)
    \/ \E s \in Sessions : Show(s) \/ Lose(s) \/ End(s)

Spec == Init /\ [][Next]_vars
=============================================================================
