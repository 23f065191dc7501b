----------------------------- MODULE Transport -----------------------------
(***************************************************************************)
(* core/transport_handler, in the synchronous mode: what a frame is worth  *)
(* to read_sync, and the error codes with which a read or a write on a     *)
(* socket can end. A socket is "none" (never opened), "open" or "closed"   *)
(* at this end; the peer has closed its own end or not.                    *)
(***************************************************************************)
EXTENDS ErrorHandler

\* A well-formed request; a raw message; a frame whose JSON is malformed or cut
\* short; a frame with another magic number; a JSON document with no "type".
AllInputs == {"request", "raw", "syntax", "incomplete", "magic", "no_type"}

\* The JSON is fine but at("type") throws, past every error handler.
Throws(input) == input = "no_type"

\* The error code of a frame that was read to its end.
FrameError(input) ==
    CASE input = "syntax" -> "syntax"
      [] input = "incomplete" -> "other"
      [] input = "magic" -> "eof"
      [] OTHER -> "none"

\* How an operation fails on a socket that was closed at this end, or by the peer.
SocketErrors(socketState, byPeer) ==
    IF socketState # "open" THEN {"eof", "bad_descriptor"}
    ELSE IF byPeer THEN {"eof", "other"} ELSE {}

\* A write to a socket that the peer has closed may still succeed.
WriteErrors(socketState, byPeer) ==
    SocketErrors(socketState, byPeer) \cup IF socketState = "open" THEN {"none"} ELSE {}
=============================================================================
