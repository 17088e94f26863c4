-------------------------- MODULE DpopProof_proofs --------------------------
(***************************************************************************)
(* Proofs about the nonces of DPoP proofs.                                 *)
(***************************************************************************)
EXTENDS DpopProof, TLAPS

\* nonce.go:73-95: the cases that shift the three nonces, and the one that makes
\* them anew, come to the same: after any jump of the clock, forward or back, the
\* nonces are the ones of the interval before, this one and the next.
THEOREM RotateKeepsWindow ==
    ASSUME NEW k \in Int, NEW t \in Int
    PROVE  Rotate(Window(k), t) = Window(t)
  BY DEF Rotate, Window

LEMMA WindowAccepts ==
    ASSUME NEW k \in Int, NEW v \in Int
    PROVE  Accepts(Window(k), v) <=> v \in (k - 1)..(k + 1)
  BY DEF Accepts, Window

\* nonce.go:104-109, manager.go:193-198: a nonce that was handed out is good for the
\* rest of its interval and for two more, at whatever times the server rotated.
\* (The clock is past 1970, so that no interval is NoNonce.)
THEOREM RetryIsAnswered ==
    ASSUME NEW k \in Int, NEW t \in Nat
    PROVE  OneRetryIsEnough(k, t)
<1> DEFINE asked == Rotate(Window(k), t)
<1>1. asked = Window(t) /\ asked.next = t + 1
  BY RotateKeepsWindow DEF Window
<1> SUFFICES ASSUME NEW later \in t..(t + 2), NEW withToken \in BOOLEAN,
                    NEW p \in Proofs({asked.next}), p.nonce = asked.next
             PROVE  CheckProof(Rotate(asked, later), p, withToken) # "use_dpop_nonce"
  BY DEF OneRetryIsEnough
<1>2. later \in Int /\ later <= t + 2 /\ t <= later
  OBVIOUS
<1>3. Rotate(asked, later) = Window(later)
  BY <1>1, <1>2, RotateKeepsWindow
<1>4. Accepts(Window(later), t + 1)
  BY <1>2, WindowAccepts
<1>5. p.nonce # NoNonce
  BY <1>1 DEF NoNonce
<1> QED
  BY <1>1, <1>3, <1>4, <1>5 DEF CheckProof
=============================================================================
