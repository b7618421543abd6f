--------------------------- MODULE MCLiveTransport ---------------------------
(* Small instances of LiveTransport for TLC. *)
EXTENDS LiveTransport, TLC

CONSTANTS WebSocketLimit, SseLimit

MCLimit == [m \in Streams |-> IF m = "websocket" THEN WebSocketLimit ELSE SseLimit]
=============================================================================
