--------------------------- MODULE MCInputChannel ---------------------------
(***************************************************************************)
(* The input channel with two characters, so that a byte out of place shows. *)
(* MCInputChannel.cfg     three keystrokes, a lossy link, a datagram of two *)
(* MCInputChannelPty.cfg  the PTY queue is smaller than a burst of input    *)
(***************************************************************************)
EXTENDS InputChannel

=============================================================================
