-------------------------- MODULE MultisigAuthority --------------------------
(***************************************************************************)
(* What verify_multisig (c/auth.c) promises, without saying how: a lock is *)
(* accepted exactly when its script is the committed one and enough of the *)
(* listed positions, the required first ones among them, signed.           *)
(***************************************************************************)
EXTENDS MultisigData

VARIABLES lock, verdict

Verdicts == {"pending", "accept", "reject"}

Init == lock \in Locks /\ verdict = "pending"

Decide ==
    /\ verdict = "pending"
    /\ verdict' = IF Authorised(lock) THEN "accept" ELSE "reject"
    /\ UNCHANGED lock

\* The safety part: one decision at most, and the right one.
Safe == Init /\ [][Decide]_<<lock, verdict>>

Spec == Safe /\ WF_<<lock, verdict>>(Decide)
=============================================================================
