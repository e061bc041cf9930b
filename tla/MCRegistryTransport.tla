-------------------------- MODULE MCRegistryTransport --------------------------
(* RegistryTransport with three requests to a registry and one to another.     *)
EXTENDS RegistryTransport, TLC

CONSTANTS r1, r2, r3, r4, ghcr, quay

Four == {r1, r2, r3, r4}
BothHosts == {ghcr, quay}
ThreeToOne == [r \in Four |-> IF r = r4 THEN quay ELSE ghcr]

\* One slot and one token a tick with and without a deadline, two slots, and
\* each layer left out.
MCSettings ==
  {[concurrency |-> 1, rps |-> 1, timeout |-> 0], [concurrency |-> 1, rps |-> 1, timeout |-> 2],
   [concurrency |-> 2, rps |-> 1, timeout |-> 1],
   [concurrency |-> 1, rps |-> 0, timeout |-> 1], [concurrency |-> 0, rps |-> 1, timeout |-> 1],
   [concurrency |-> 0, rps |-> 0, timeout |-> 0]}

===============================================================================
