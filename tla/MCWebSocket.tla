----------------------------- MODULE MCWebSocket -----------------------------
(* Symmetry for checking module WebSocket with TLC, safety only.           *)
EXTENDS WebSocketProperties, TLC

Symmetry == Permutations(Sessions) \cup Permutations(Sockets) \cup Permutations(Waiters)
=============================================================================
