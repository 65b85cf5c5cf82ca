------------------------- MODULE MCPostprocessQueue -------------------------
(* Small instances of PostprocessQueue for TLC. *)
EXTENDS PostprocessQueue, TLC

CONSTANTS j1, j2, w1, w2, p1, p2

(* One worker in each of two processes: the API and the MCP server. *)
TwoProcesses == w1 :> p1 @@ w2 :> p2

=============================================================================
