------------------------ MODULE SignerHubRefinement ------------------------
(* The signer hub implements SignatureService.                             *)
EXTENDS SignerHub

\* Where a request is, seen from its caller.
StateOf(r) ==
    CASE call[r] = "idle" -> "idle"
      [] call[r] = "enqueue" -> "asking"
      [] call[r] \in {"notify", "wait", "cancel"} -> "queued"
      [] result[r] = "sig" -> "signed"
      [] result[r] = "rejected" -> "rejected"
      [] OTHER -> "failed"

\* The main loop has returned.
IsOver(c) == handler[c] \in {"unregister", "failAll", "drain", "closed"}

Slot(x) == IF x = None THEN <<>> ELSE <<x>>

\* A request waits in the nextReq channel, in the pump's hands or in pending.
LineOf(c) ==
    IF IsOver(c) THEN <<>> ELSE Slot(nextReq[c]) \o Slot(picked[c]) \o pending[c]

Service == INSTANCE SignatureService WITH
    Sessions <- Conns,
    NoSession <- None,
    state <- [r \in Requests |-> StateOf(r)],
    session <- callConn,
    line <- [c \in Conns |-> LineOf(c)],
    over <- [c \in Conns |-> IsOver(c)]

\* The goroutines, channels and mutexes of the hub only ever do what the
\* service allows: prompts in order and one at a time per session, outcomes
\* that are the signer's.
ImplementsService == Service!Spec
=============================================================================
