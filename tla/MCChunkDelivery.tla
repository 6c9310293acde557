--------------------------- MODULE MCChunkDelivery ---------------------------
(* Instances of ChunkDelivery for TLC.                                       *)
EXTENDS ChunkDelivery, TLC

OneChunk == [Span |-> 1 :> {1}, TailCapacity |-> 0, MaxReportRetries |-> 1, Streams |-> 1, Horizon |-> 2,
          MaxReceipts |-> 1, MaxQueued |-> 3, MaxInFlight |-> 2, Bounds |-> [b \in BoundNames |-> 0],
          MayLatch |-> FALSE, MayDestroy |-> FALSE]

\* A chunk of one window and one across both, two streams that write in any
\* order, and a failing write that may latch the manifest.
OutOfOrder == [OneChunk EXCEPT !.Span = 1 :> {1} @@ 2 :> {1, 2}, !.TailCapacity = 1, !.Streams = 2,
                 !.Horizon = 3, !.MaxReceipts = 2, !.Bounds["write"] = 1, !.MayLatch = TRUE]
\* Two chunks of one window, a grapher that is replaced, and a story that is
\* acquired again.
Replaced == [OneChunk EXCEPT !.Span = 1 :> {1} @@ 2 :> {1},
               !.Bounds["write"] = 1, !.Bounds["restart"] = 1, !.Bounds["start"] = 1]
MCWritten == {OutOfOrder, Replaced}

\* One chunk, a lost transfer, a lost report, a restart and a destroy.
MCConfirmed == {[OneChunk EXCEPT !.MaxReceipts = 4, !.MaxInFlight = 1, !.Bounds["send"] = 1,
                   !.Bounds["report"] = 1, !.Bounds["restart"] = 1, !.MayDestroy = TRUE]}
\* One chunk of the second window, and reports that fail until the publisher
\* gives up.
MCLostReports == {[OneChunk EXCEPT !.Span = 1 :> {2}, !.MaxReportRetries = 3, !.Streams = 2, !.Horizon = 3,
                     !.MaxReceipts = 2, !.MaxInFlight = 1, !.Bounds["report"] = 4, !.Bounds["start"] = 1]}
=============================================================================
