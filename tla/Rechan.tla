------------------------------- MODULE Rechan -------------------------------
(***************************************************************************)
(* The driver of reflected channels (kbskit0.4/generic/rechan.c): a Tcl    *)
(* command serves the reads, writes and seeks of a channel, and a timer    *)
(* takes the place of the file descriptor that other channels have.        *)
(*                                                                         *)
(* The operators work on s, a record of what the driver and the channel    *)
(* core share: chan, the channels of the core, rc, the instances of the    *)
(* driver, timers, the timer handlers, and passes, the passes that run.    *)
(* An operator is the state behind the call of the C function it is named  *)
(* for.  The commands of the channels (vfs1.4/library/vfslib.tcl) neither  *)
(* close their channel nor enter the event loop.                           *)
(***************************************************************************)
EXTENDS TclTimers

CONSTANT  RcDelay     \* the 5 ms of the driver's timer, in ticks

ASSUME RcDelayAssumption == RcDelay \in 0 .. MaxDelay

Events == {"readable", "writable"}

(* ReflectingChannel without the objects that make up its command: its     *)
(* masks, and whether it holds the token of a timer.                       *)
Instance == [validMask: SUBSET Events, watchMask: SUBSET Events,
             timer: BOOLEAN]

rcCreate(mode) == [validMask |-> mode, watchMask |-> {}, timer |-> FALSE]

(* An instance that is not allocated.                                      *)
Freed == rcCreate({})

Tcl_CreateTimerHandler(s, delay, proc, c) ==
  [s EXCEPT !.timers = Created(@, [proc |-> proc, chan |-> c, due |-> delay,
                                   era |-> s.passes])]

Tcl_DeleteTimerHandler(s, proc, c) ==
  [s EXCEPT !.timers = Deleted(@, proc, c)]

(* Tcl_DeleteTimerHandler and the assignment behind it.                    *)
DropTimer(s, c) ==
  IF s.rc[c].timer
    THEN [Tcl_DeleteTimerHandler(s, "rcTimerProc", c)
            EXCEPT !.rc[c].timer = FALSE]
    ELSE s

rcWatchChannel(s, c, mask) ==
  LET watch == mask \cap s.rc[c].validMask
      s1    == [s EXCEPT !.rc[c].watchMask = watch]
  IN  CASE mask = {} -> DropTimer(s, c)
        [] mask # {} /\ watch # {} /\ ~s.rc[c].timer ->
             [Tcl_CreateTimerHandler(s1, RcDelay, "rcTimerProc", c)
                EXCEPT !.rc[c].timer = TRUE]
        [] OTHER -> s1

(* What a read leaves of the watch mask: got is "some", "none" or "error". *)
rcInput(s, c, got) ==
  IF got = "none" THEN [s EXCEPT !.rc[c].watchMask = @ \ {"readable"}] ELSE s

(* A write, or a seek, that the command has accepted.                      *)
rcOutput(s, c) == [s EXCEPT !.rc[c].watchMask = s.rc[c].validMask]
rcSeek(s, c)   == [s EXCEPT !.rc[c].watchMask = s.rc[c].validMask]

(* The timer handler up to its call of Tcl_NotifyChannel.                  *)
rcTimerProc(s, c) == DropTimer(s, c)

(* A slip: the instance is freed and its timer is not deleted.             *)
VariantrcClose(s, c) == [s EXCEPT !.rc[c] = Freed]

rcClose(s, c) == [DropTimer(s, c) EXCEPT !.rc[c] = Freed]
=============================================================================
