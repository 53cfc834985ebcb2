---------------------------- MODULE SegmentCapture ----------------------------
(***************************************************************************)
(* One segment of a live session (src/ingestion/live_capture.py):          *)
(* capture_segment starts tcpdump in a process group of its own and stops  *)
(* it with SIGINT, SIGTERM, SIGKILL, each with a time to exit in;          *)
(* validate_pcap and DockerSegmentExtractor.extract then turn its file     *)
(* into a CSV.  tcpdump and the user's Ctrl+C run beside it.               *)
(*                                                                         *)
(* sudo and tcpdump are one process here, as they are signalled together   *)
(* and sudo exits when tcpdump has, with tcpdump's status.                 *)
(***************************************************************************)
EXTENDS Naturals, Sequences

CONSTANT MaxInterrupts   \* bound of the model: Ctrl+C pressed

ASSUME InterruptAssumption == MaxInterrupts \in Nat

VARIABLES
  proc,        \* tcpdump: "running", or its exit: "clean", "error", or the
               \* signal it died of (SIGINT: a returncode of 130 or -2)
  pcap,        \* its file: "none", "header", "packets" (more to be flushed),
               \* "complete", or "foreign" (no PCAP header)
  signals,     \* the signals sent to the process group, in order
  pc,          \* where capture_segment or what follows it is
  interrupted, \* interrupted: Ctrl+C in the polling loop
  result,      \* "none"; "csv", or what was raised
  presses      \* history: how often Ctrl+C has been pressed

segmentVars == <<proc, pcap, signals, pc, interrupted, result, presses>>
tcpdumpVars == <<proc, pcap>>
scriptVars == <<signals, pc, interrupted, result, presses>>

Signal == <<"SIGINT", "SIGTERM", "SIGKILL">>
Exited == proc # "running"
Accepted == proc \in {"clean", "SIGINT"}   \* returncode 0; 130 or -SIGINT

SegmentInit ==
  /\ proc = "running" /\ pcap = "none" /\ signals = <<>>
  /\ pc = "start" /\ interrupted = FALSE /\ result = "none" /\ presses = 0

-----------------------------------------------------------------------------
(* tcpdump and sudo.                                                       *)

Writes ==
  /\ ~Exited
  /\ \/ pcap = "none" /\ pcap' \in {"header", "foreign"}
     \/ pcap = "header" /\ pcap' = "packets"
  /\ UNCHANGED <<proc, scriptVars>>

\* A handled signal: the file is flushed and closed before the exit.
ExitsClean ==
  /\ ~Exited /\ signals # <<>> /\ signals[Len(signals)] # "SIGKILL"
  /\ proc' = "clean"
  /\ pcap' = IF pcap \in {"header", "packets"} THEN "complete" ELSE pcap
  /\ UNCHANGED scriptVars

\* Ended by a signal it does not handle, SIGINT included while it has not yet
\* installed its handler: what was not yet written is lost.
IsKilled ==
  /\ ~Exited
  /\ \E i \in DOMAIN signals : proc' = signals[i]
  /\ UNCHANGED <<pcap, scriptVars>>

\* No permission, no such interface, or the interface goes away.
ExitsWithError ==
  /\ ~Exited
  /\ proc' = "error"
  /\ UNCHANGED <<pcap, scriptVars>>

-----------------------------------------------------------------------------
(* capture_segment.                                                        *)

Raise(what) == pc' = "ended" /\ result' = what

\* tcpdump has been started, the try not yet been entered.
EnterLoop ==
  /\ pc = "start"
  /\ pc' = "poll"
  /\ UNCHANGED <<tcpdumpVars, signals, interrupted, result, presses>>

\* The deadline has passed, or poll() sees tcpdump gone.
PollEnds ==
  /\ pc = "poll"
  /\ pc' = "stop"
  /\ UNCHANGED <<tcpdumpVars, signals, interrupted, result, presses>>

\* stop_process_group: nothing to do if tcpdump has exited.
NothingToStop ==
  /\ pc = "stop" /\ Exited
  /\ pc' = "check"
  /\ UNCHANGED <<tcpdumpVars, signals, interrupted, result, presses>>

StopNeeded ==
  /\ pc = "stop" /\ ~Exited
  /\ pc' = "signal"
  /\ UNCHANGED <<tcpdumpVars, signals, interrupted, result, presses>>

\* Deviation: SIGINT is tried again and again.
SendSigint ==
  /\ pc = "signal"
  /\ signals' = Append(signals, Signal[1])
  /\ pc' = "wait"
  /\ UNCHANGED <<tcpdumpVars, interrupted, result, presses>>

\* The next signal goes to the process group, exited by now or not.
SendSignal ==
  /\ pc = "signal"
  /\ signals' = Append(signals, Signal[Len(signals) + 1])
  /\ pc' = "wait"
  /\ UNCHANGED <<tcpdumpVars, interrupted, result, presses>>

\* killpg raises: the group is gone, or may not be signalled.
SignalFails ==
  /\ pc = "signal"
  /\ Raise("signal error")
  /\ UNCHANGED <<tcpdumpVars, signals, interrupted, presses>>

WaitOk ==
  /\ pc = "wait" /\ Exited
  /\ pc' = "check"
  /\ UNCHANGED <<tcpdumpVars, signals, interrupted, result, presses>>

\* Deviation: no timeout on the wait after SIGKILL.
WaitUntilExit ==
  /\ pc = "wait" /\ ~Exited /\ Len(signals) < Len(Signal)
  /\ pc' = "signal"
  /\ UNCHANGED <<tcpdumpVars, signals, interrupted, result, presses>>

\* TimeoutExpired: the next signal, or "remained alive after SIGKILL".
WaitTimesOut ==
  /\ pc = "wait" /\ ~Exited
  /\ IF Len(signals) < Len(Signal) THEN pc' = "signal" /\ UNCHANGED result
     ELSE Raise("still alive")
  /\ UNCHANGED <<tcpdumpVars, signals, interrupted, presses>>

\* Deviation: the exit of a process ended by any signal counts as clean.
ReadableIfSignalled ==
  /\ Accepted \/ proc \in {"SIGTERM", "SIGKILL"}
  /\ pcap \notin {"none", "foreign"}

\* An accepted returncode, and a file with a PCAP header.
Readable ==
  /\ Accepted
  /\ pcap \notin {"none", "foreign"}

\* The checks at the end of capture_segment, and validate_pcap.
CheckOk ==
  /\ pc = "check" /\ Readable
  /\ pc' = "extract"
  /\ UNCHANGED <<tcpdumpVars, signals, interrupted, result, presses>>

CheckFails ==
  /\ pc = "check" /\ ~Readable
  /\ Raise("capture error")
  /\ UNCHANGED <<tcpdumpVars, signals, interrupted, presses>>

\* The extractor container writes a CSV that is not empty, or it fails.  The
\* call has no timeout.
Extract ==
  /\ pc = "extract"
  /\ \E r \in {"csv", "extractor error"} : Raise(r)
  /\ UNCHANGED <<tcpdumpVars, signals, interrupted, presses>>

\* Deviation: Ctrl+C in the loop is passed on without the finally clause.
CtrlCUnstopped ==
  /\ presses < MaxInterrupts /\ pc = "poll"
  /\ presses' = presses + 1 /\ interrupted' = TRUE
  /\ Raise("ctrl-c")
  /\ UNCHANGED <<tcpdumpVars, signals>>

\* Deviation: the handler stops tcpdump but sets no flag.
CtrlCForgotten ==
  /\ presses < MaxInterrupts /\ pc = "poll"
  /\ presses' = presses + 1
  /\ pc' = "stop"
  /\ UNCHANGED <<tcpdumpVars, signals, interrupted, result>>

\* Ctrl+C in the polling loop is remembered and tcpdump stopped.
CtrlCPolling ==
  /\ presses < MaxInterrupts /\ pc = "poll"
  /\ presses' = presses + 1 /\ interrupted' = TRUE
  /\ pc' = "stop"
  /\ UNCHANGED <<tcpdumpVars, signals, result>>

\* Anywhere else it leaves capture_segment or extract as KeyboardInterrupt:
\* before the try, and in the finally clause, tcpdump is left as it is.
CtrlCLater ==
  /\ presses < MaxInterrupts /\ pc \notin {"poll", "ended"}
  /\ presses' = presses + 1
  /\ Raise("ctrl-c")
  /\ UNCHANGED <<tcpdumpVars, signals, interrupted>>

-----------------------------------------------------------------------------
Tcpdump == Writes \/ ExitsClean \/ IsKilled \/ ExitsWithError
Script ==
  \/ EnterLoop \/ PollEnds \/ NothingToStop \/ StopNeeded \/ SendSignal \/ SignalFails
  \/ WaitOk \/ WaitTimesOut \/ CheckOk \/ CheckFails

SegmentNext == Tcpdump \/ Script \/ Extract \/ CtrlCPolling \/ CtrlCLater

\* capture_segment runs on: its loop has a deadline and its waits timeouts.
\* Of tcpdump nothing is assumed, not even that SIGKILL ends it in time, and
\* of the extractor not that it ever returns.
SegmentSpec == SegmentInit /\ [][SegmentNext]_segmentVars /\ WF_segmentVars(Script)
-----------------------------------------------------------------------------
SegmentTypeOK ==
  /\ proc \in {"running", "clean", "error", "SIGINT", "SIGTERM", "SIGKILL"}
  /\ pcap \in {"none", "header", "packets", "complete", "foreign"}
  /\ \E k \in 0 .. Len(Signal) : signals = SubSeq(Signal, 1, k)
  /\ pc \in {"start", "poll", "stop", "signal", "wait", "check", "extract", "ended"}
  /\ pc = "ended" <=> result # "none"
  /\ result \in {"none", "csv", "signal error", "still alive", "capture error",
                 "extractor error", "ctrl-c"}
  /\ interrupted \in BOOLEAN /\ presses \in 0 .. MaxInterrupts

\* The extractor only ever reads a file that nobody writes any more, and a
\* cut off one only if SIGINT itself ended tcpdump: the exit statuses and four
\* bytes that the code looks at keep out what SIGTERM, SIGKILL or an error cut.
CutOffIsRefused ==
  pc = "extract" \/ result = "csv" =>
    Exited /\ (pcap = "complete" \/ (proc = "SIGINT" /\ pcap \in {"header", "packets"}))

\* tcpdump outlives its segment only behind a raised "remained alive", all
\* three signals sent; a failed killpg with one of them unsent; or a Ctrl+C
\* other than the polling loop's: before the try, or while the finally clause
\* stops tcpdump, be it the first (the deadline had passed) or the second.
NoOrphan ==
  pc = "ended" /\ ~Exited =>
    \/ result = "still alive" /\ signals = Signal
    \/ result = "signal error" /\ Len(signals) < Len(Signal)
    \/ result = "ctrl-c" /\ presses > (IF interrupted THEN 1 ELSE 0)

\* A Ctrl+C is never lost: a segment that goes on to be used was interrupted
\* in the loop, where capture_segment returns False for it, or not at all.
InterruptHeard == result = "csv" => (presses > 0 <=> interrupted)

\* capture_segment ends, however tcpdump takes its signals: the segment is over
\* or with the extractor, which may keep it.
CaptureEnds == <>(pc \in {"extract", "ended"})
=============================================================================
