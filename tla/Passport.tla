------------------------------ MODULE Passport ------------------------------
(***************************************************************************)
(* The cache of DID documents (identity/passport.go, mem_cache.go) for one *)
(* account, and the fetches that fill it (identity/identity.go: fetches of *)
(* one DID that overlap share one request to the directory).               *)
(***************************************************************************)
EXTENDS PlcDirectory

CONSTANT Fetches        \* bound: calls of FetchDoc

VARIABLES
    cache,      \* None or the number of the cached document's operation
    flight,     \* None or the shared request, with the answer once it is there
    fetch       \* where each fetch is, and the number of the document it was given

\* In all three "late" is history: whether the cache was busted since the request.
passport == <<cache, flight, fetch>>

Fetch(pc, number, late) == [pc |-> pc, number |-> number, late |-> late]

PassportInit ==
    /\ cache = None
    /\ flight = None
    /\ fetch = [f \in Fetches |-> Fetch("idle", None, FALSE)]

\* FetchDoc when there is no document (when there is one, that is all it does): the
\* fetch joins the request that is open, or makes one.
AskDirectory(f) ==
    /\ fetch[f].pc = "idle" /\ cache = None
    /\ fetch' = [fetch EXCEPT ![f].pc = "waiting"]
    /\ flight' = IF flight = None THEN [answer |-> None, late |-> FALSE] ELSE flight
    /\ UNCHANGED cache

DirectoryReads ==
    /\ flight # None /\ flight.answer = None
    /\ flight' = [flight EXCEPT !.answer = directory.number]
    /\ UNCHANGED <<cache, fetch>>

\* All who wait are given the same, which is an error if there is no answer.
FlightEnds ==
    /\ flight # None
    /\ fetch' = [f \in Fetches |->
          IF fetch[f].pc # "waiting" THEN fetch[f]
          ELSE IF flight.answer = None THEN Fetch("done", None, FALSE)
          ELSE Fetch("put", flight.answer, flight.late)]
    /\ flight' = None
    /\ UNCHANGED cache

PutDoc(f) ==
    /\ fetch[f].pc = "put"
    /\ cache' = [number |-> fetch[f].number, late |-> fetch[f].late]
    /\ fetch' = [fetch EXCEPT ![f] = Fetch("done", None, FALSE)]
    /\ UNCHANGED flight

\* Five minutes pass, or the cache is full of others.
Expires ==
    /\ cache # None
    /\ cache' = None
    /\ UNCHANGED <<flight, fetch>>

Late ==
    /\ flight' = IF flight = None THEN None ELSE [flight EXCEPT !.late = TRUE]
    /\ fetch' = [f \in Fetches |-> [fetch[f] EXCEPT !.late = @ \/ fetch[f].pc = "put"]]

\* Mutant: the document is left where it is.
BustNothing == Late /\ UNCHANGED cache
BustDoc == Late /\ cache' = None

PassportNext ==
    \/ \E f \in Fetches : AskDirectory(f) \/ PutDoc(f)
    \/ DirectoryReads \/ FlightEnds \/ Expires
=============================================================================
