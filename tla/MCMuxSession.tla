---------------------------- MODULE MCMuxSession ----------------------------
(* MuxSession on small instances; the constants a cfg cannot write.        *)
EXTENDS MuxSession

OldCell(h, seq, flags, n) == [hdr |-> h, seq |-> seq, flags |-> flags, len |-> n, old |-> TRUE]

NoStale == {}
\* a late answer and a handshake answer of an earlier session
StaleSet == {
    <<OldCell(TRUE, 9, {"ACK"}, 1), OldCell(FALSE, 9, {}, 0)>>,
    <<OldCell(TRUE, 8, {"SYN", "ACK"}, 0)>> }

\* payload that spells a frame with data, a reset, a frame longer than any real one
MisreadSet == {Header(40, {"ACK"}, 1), Header(41, {"RST"}, 0), Header(42, {"FIN", "ACK"}, 2)}

FaultBudget(p, r, w, t, a) ==
    [f \in FaultNames |-> CASE f = "poll" -> p [] f = "read" -> r [] f = "write" -> w
                            [] f = "retransmit" -> t [] f = "pureack" -> a]
MuxFaults == {FaultBudget(0, 1, 0, 1, 1), FaultBudget(0, 0, 1, 1, 0)}
\* a poll that fails cuts the drain short, so it excludes retransmissions
StreamFaults == {FaultBudget(1, 0, 1, 0, 0), FaultBudget(0, 0, 1, 2, 0)}
NoFaults == {FaultBudget(0, 0, 0, 0, 0)}
=============================================================================
