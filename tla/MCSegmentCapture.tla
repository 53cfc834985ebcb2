-------------------------- MODULE MCSegmentCapture --------------------------
(* SegmentCapture with up to two presses of Ctrl+C.                        *)
EXTENDS SegmentCapture
=============================================================================
