----------------------------- MODULE DpopProof ------------------------------
(***************************************************************************)
(* DPoP proofs (oauth/dpop/manager.go) and the nonces they must carry      *)
(* (oauth/dpop/nonce.go).  A nonce is the keyed hash of a counter, which   *)
(* is the time in rotation intervals; here it is the counter itself, of    *)
(* which the hash is a one-to-one image.                                   *)
(***************************************************************************)
EXTENDS Integers

\* What NewNonce makes, and what rotate is meant to keep.
Window(k) == [counter |-> k, prev |-> k - 1, curr |-> k, next |-> k + 1]

\* rotate: by how far the clock went since the last call; it may go backwards.
Rotate(n, k) ==
    CASE k - n.counter = 0 -> n
      [] k - n.counter = 1 -> [counter |-> k, prev |-> n.curr, curr |-> n.next, next |-> k + 1]
      [] k - n.counter = 2 -> [counter |-> k, prev |-> n.next, curr |-> k, next |-> k + 1]
      [] OTHER -> Window(k)

Accepts(n, v) == v \in {n.prev, n.curr, n.next}

NoNonce == -1
\* What a proof says, as far as CheckProof decides by it: whether its form,
\* signature, method and URL are right, how old it is in seconds, whether its
\* jti was seen before, its nonce and the hash of the access token.
Proofs(nonces) == [wellFormed : BOOLEAN, age : {-6, 0, 185, 186}, replayed : BOOLEAN,
                   nonce : nonces \cup {NoNonce}, ath : {"none", "right", "wrong"}]

MaxProofAge == 180 + 5
Tolerance == 5

\* CheckProof, in its order: the jti is used up before the nonce is looked at.
CheckProof(n, p, withToken) ==
    IF ~p.wellFormed \/ p.age > MaxProofAge \/ -p.age > Tolerance THEN "refused"
    ELSE IF p.replayed THEN "refused"
    ELSE IF p.nonce = NoNonce \/ ~Accepts(n, p.nonce) THEN "use_dpop_nonce"
    ELSE IF p.ath = (IF withToken THEN "right" ELSE "none") THEN "ok"
    ELSE "refused"

\* nonce.go:77, manager.go:193: a client whose proof was answered with
\* use_dpop_nonce and that sends a new proof with the nonce of that answer is not
\* sent back again, if it does so before two more intervals are over, whenever the
\* nonces were last rotated (at k) and however far the clock has gone since, forward
\* or back (to t).
OneRetryIsEnough(k, t) ==
    LET asked == Rotate(Window(k), t)
    IN  \A later \in t..(t + 2), withToken \in BOOLEAN, p \in Proofs({asked.next}) :
            p.nonce = asked.next =>
                CheckProof(Rotate(asked, later), p, withToken) # "use_dpop_nonce"
=============================================================================
