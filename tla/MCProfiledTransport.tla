------------------------- MODULE MCProfiledTransport -------------------------
(* Instances of ProfiledTransport for TLC. *)
EXTENDS ProfiledTransport

\* A wide window comes with small frames, so that each of the two holds data back.
MCPeerFrames == [w \in PeerWindows |-> IF w > 1 THEN 1 ELSE 3]

\* In MCProfiledTransport.cfg the windows are smaller than the bodies, so that the upload
\* waits for WINDOW_UPDATEs, and a read takes less than a frame.  In MCProfiledWindow.cfg a
\* unit stands for 64 KiB: the stream window of 131072 bytes that the catalogue's Firefox
\* profiles announce is 2, their connection window of 12517377 bytes is 190, and the body, a
\* fifth of the 1 MiB an inline response may have, is 3.
=============================================================================
