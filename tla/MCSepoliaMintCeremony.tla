----------------------- MODULE MCSepoliaMintCeremony -----------------------
(* Two ceremonies: the second contends for the account nonce of the first. *)
EXTENDS SepoliaMintCeremony

CONSTANTS c1, c2
=============================================================================
