------------------------------ MODULE TclTimers ------------------------------
(***************************************************************************)
(* The list of timer handlers of a Tcl thread (generic/tclTimer.c).        *)
(*                                                                         *)
(* A handler has a procedure, the channel it is called with, and the ticks *)
(* until it is due.  Its token is held by whom it was created for, who has *)
(* no other (NoDanglingTimers of KitChannels), so that the procedure and   *)
(* the channel stand for the token.  Tcl runs the handlers that are due in *)
(* passes (TimerHandlerEventProc), which nest when a handler enters the    *)
(* event loop.  A pass reads the clock and the last token once, when it    *)
(* begins; handlers that are newer, or due later, wait for another pass.   *)
(* "era" says the same of a handler: the number of passes that were        *)
(* running when it was created or became due, none of which may run it.    *)
(***************************************************************************)
EXTENDS Naturals, Sequences, SequencesExt

CONSTANTS Channels,  \* the channels handlers are created for
          MaxDelay   \* the longest delay, in ticks

ASSUME MaxDelayAssumption == MaxDelay \in Nat

TimerHandler == [proc: {"rcTimerProc", "ChannelTimerProc"}, chan: Channels,
                 due: 0 .. MaxDelay, era: Nat]

Due(ts) == ts # <<>> /\ Head(ts).due = 0

(* How many handlers stay in front of one that is due in d ticks.          *)
FirstLater(ts, d) ==
  CHOOSE n \in 0 .. Len(ts) : /\ \A i \in 1 .. n : ts[i].due <= d
                              /\ n < Len(ts) => d < ts[n + 1].due

Created(ts, h) == InsertAt(ts, FirstLater(ts, h.due) + 1, h)

Is(h, proc, c) == h.proc = proc /\ h.chan = c

Listed(ts, proc, c) == \E i \in DOMAIN ts : Is(ts[i], proc, c)

(* The list without the handler of proc and c, if there is one.            *)
Deleted(ts, proc, c) ==
  IF Listed(ts, proc, c)
    THEN RemoveAt(ts, CHOOSE i \in DOMAIN ts : Is(ts[i], proc, c))
    ELSE ts

(* A tick of the clock while p passes run.                                 *)
Ticked(ts, p) ==
  [i \in DOMAIN ts |->
     CASE ts[i].due = 0 -> ts[i]
       [] ts[i].due = 1 -> [ts[i] EXCEPT !.due = 0, !.era = p]
       [] OTHER         -> [ts[i] EXCEPT !.due = @ - 1]]

(* The last of p passes ends: what it had to leave is for those around it  *)
(* to leave, and for all others to run.                                    *)
Ended(ts, p) ==
  [i \in DOMAIN ts |-> IF ts[i].era >= p THEN [ts[i] EXCEPT !.era = p - 1]
                                         ELSE ts[i]]

(* What the comment in TimerHandlerEventProc relies on: the handlers are   *)
(* in the order in which they are due, and of two that are due the one     *)
(* that older passes may run is the first.                                 *)
Ordered(ts) ==
  \A i, j \in DOMAIN ts :
    i < j => /\ ts[i].due <= ts[j].due
             /\ ts[j].due = 0 => ts[i].era <= ts[j].era

(* No two handlers are for the same procedure and channel.                 *)
Unique(ts) ==
  \A i, j \in DOMAIN ts : Is(ts[i], ts[j].proc, ts[j].chan) => i = j
=============================================================================
