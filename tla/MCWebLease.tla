----------------------------- MODULE MCWebLease -----------------------------
(* Model-checking instance of WebLease: connection slots are interchangeable. *)
EXTENDS WebLease, TLC

Slots == Permutations(Clients)
=============================================================================
