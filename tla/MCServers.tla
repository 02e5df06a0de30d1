----------------------------- MODULE MCServers ------------------------------
(***************************************************************************)
(* Servers with two peers; at least one sends one byte more than a buffer  *)
(* holds.  For a descriptor to be reused while another stays open, select, *)
(* poll and the threads have three.  For close(i) to reach the listening   *)
(* socket, number 3, four events must come at once: four peers, which send *)
(* nothing and close.                                                      *)
(***************************************************************************)
EXTENDS Servers

CONSTANTS p1, p2, p3, p4

MCPeers == {p1, p2, p3, p4}

All == {"shut", "gone", "reset"}

Ending(kinds, rooms, sizes, ways) ==
  [kind : kinds, room : rooms, bytes : {sizes}, ends : {ways}]

For(kinds, rooms, sizes) == Ending(kinds, rooms, sizes, All)

Two(m, n) == p1 :> m @@ p2 :> n

Three(k, m, n) == Two(k, m) @@ p3 :> n

MCSettings ==
  UNION {For({"echo"}, {1, 2}, Two(3, 2)),
         For({"http"}, {1, 2}, Two(3, 1)),
         For({"edge", "threads"}, {1, 2}, Two(2, 1)),
         For({"blocking"}, {1}, Two(2, 2)),
         For({"select", "poll"}, {1}, Two(2, 2)),
         For({"select", "poll"}, {2}, Three(0, 1, 0)),
         Ending({"threads"}, {2}, Three(0, 1, 1), {"shut"}),
         Ending({"edge"}, {3}, Three(0, 0, 0) @@ p4 :> 0, {"gone"})}

ThreadsSettings == {s \in MCSettings : s.kind = "threads"}
=============================================================================
