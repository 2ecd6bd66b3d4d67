---------------------------- MODULE KitChannels ----------------------------
(***************************************************************************)
(* A kit that serves reflected channels: the driver (Rechan), the timers   *)
(* (TclTimers) and what runs them, the channels of Tcl (generic/tclIO.c),  *)
(* the event loop (generic/tclNotify.c) and the scripts.                   *)
(*                                                                         *)
(* The C stack of the thread is the sequence kit.frames.  At its bottom is *)
(* the script of the application; a script may enter the event loop, the   *)
(* loop serves a timer event, the event runs a pass over the timers, a     *)
(* timer notifies a channel, and a notification calls a handler script,    *)
(* which may do all a script does: read, close its own channel, set and    *)
(* unset handlers, enter the event loop again.                             *)
(***************************************************************************)
EXTENDS Rechan

CONSTANTS None,     \* a null pointer
          Mode,     \* the events a channel is opened for
          MaxLoad   \* bound on the channels in use and the loops that run

ASSUME ModeAssumption == Mode \in [Channels -> SUBSET Events]
ASSUME NoneAssumption == None \notin Channels \cup Events

VARIABLES kit,      \* channels, instances, timers, frames
          pending,  \* timerPending of tclTimer.c
          queued    \* the timer events in the queue that nobody serves

vars == <<kit, pending, queued>>

(* A channel of the core.  It is "closed" when it is gone for the scripts  *)
(* and kept for those who preserve it.  Its handlers are those fileevent   *)
(* has set, the newest first, each named by its event.                     *)
Channel == [life: {"none", "open", "closed"}, refCount: Nat,
            handlers: Seq(Events), buffered: BOOLEAN, needMore: BOOLEAN,
            timer: BOOLEAN]

Absent == [life |-> "none", refCount |-> 0, handlers |-> <<>>,
           buffered |-> FALSE, needMore |-> FALSE, timer |-> FALSE]

(* A frame of the stack: a script, and the channel and event it handles;   *)
(* the loop of update or vwait; a pass over the timers; and Tcl_Notify-    *)
(* Channel, the events in its mask and the handler it comes to next.       *)
Frame == [kind: {"script", "update", "vwait", "pass", "notify"},
          chan: Channels \cup {None}, event: Events \cup {None},
          mask: SUBSET Events]

ScriptFrame(c, e) ==
  [kind |-> "script", chan |-> c, event |-> e, mask |-> {}]
PlainFrame(kind) ==
  [kind |-> kind, chan |-> None, event |-> None, mask |-> {}]
NotifyFrame(c, e, mask) ==
  [kind |-> "notify", chan |-> c, event |-> e, mask |-> mask]

(* The frames that use a channel, and the passes.                          *)
Uses(fs, c)  == {i \in DOMAIN fs : fs[i].chan = c}
PassesOf(fs) == {i \in DOMAIN fs : fs[i].kind = "pass"}

Push(s, f) == [s EXCEPT !.frames = Append(@, f)]
Pop(s)     == [s EXCEPT !.frames = Front(@)]

Top      == Last(kit.frames)
Running(kind) == kit.frames # <<>> /\ Top.kind = kind
IsLoop(f)     == f.kind \in {"update", "vwait"}
AtBottom == Len(kit.frames) = 1

-----------------------------------------------------------------------------
(* The channels of the core.                                               *)

Opened(s, c)   == s.chan[c].life = "open"
Interest(s, c) == ToSet(s.chan[c].handlers)

(* There is input that a script could be told of without the driver.       *)
ReadyInput(s, c) == s.chan[c].buffered /\ ~s.chan[c].needMore

TclChannelPreserve(s, c) == [s EXCEPT !.chan[c].refCount = @ + 1]

TclChannelRelease(s, c) ==
  IF s.chan[c].refCount = 1 /\ s.chan[c].life = "closed"
    THEN [s EXCEPT !.chan[c] = Absent]
    ELSE [s EXCEPT !.chan[c].refCount = @ - 1]

StartTimer(s, c) ==
  [Tcl_CreateTimerHandler(s, 0, "ChannelTimerProc", c)
     EXCEPT !.chan[c].timer = TRUE]

UpdateInterest(s, c) ==
  CASE ~Opened(s, c) -> s
    [] Opened(s, c) /\ "readable" \in Interest(s, c) /\ ReadyInput(s, c) ->
         rcWatchChannel(IF s.chan[c].timer THEN s
                        ELSE StartTimer(TclChannelPreserve(s, c), c),
                        c, Interest(s, c) \ {"readable"})
    [] OTHER -> rcWatchChannel(s, c, Interest(s, c))

(* The handler that follows e in the list, if any.                         *)
Successor(hs, e) ==
  IF \E i \in 1 .. Len(hs) - 1 : hs[i] = e
    THEN hs[1 + CHOOSE i \in 1 .. Len(hs) - 1 : hs[i] = e]
    ELSE None

Tcl_CreateChannelHandler(s, c, e) ==
  IF e \in Interest(s, c) THEN s
  ELSE UpdateInterest([s EXCEPT !.chan[c].handlers = <<e>> \o @], c)

(* A slip: a notification that has come to the handler is not told.        *)
VariantTcl_DeleteChannelHandler(s, c, e) ==
  IF e \notin Interest(s, c) THEN s
  ELSE UpdateInterest([s EXCEPT !.chan[c].handlers =
                         RemoveAt(@, CHOOSE i \in DOMAIN @ : @[i] = e)], c)

Tcl_DeleteChannelHandler(s, c, e) ==
  LET hs == s.chan[c].handlers
      Comes(f) == f.kind = "notify" /\ f.chan = c /\ f.event = e
  IN  IF e \notin Interest(s, c) THEN s
      ELSE UpdateInterest(
             [s EXCEPT !.chan[c].handlers =
                         RemoveAt(hs, CHOOSE i \in DOMAIN hs : hs[i] = e),
                       !.frames = [i \in DOMAIN @ |->
                         IF Comes(@[i])
                           THEN [@[i] EXCEPT !.event = Successor(hs, e)]
                           ELSE @[i]]], c)

(* The timer, the handlers and the notifications that have come to one.    *)
Tcl_ClearChannelHandlers(s, c) ==
  LET s1 == IF s.chan[c].timer
              THEN TclChannelRelease(
                     [Tcl_DeleteTimerHandler(s, "ChannelTimerProc", c)
                        EXCEPT !.chan[c].timer = FALSE], c)
              ELSE s
  IN  [s1 EXCEPT !.chan[c].handlers = <<>>,
                 !.frames = [i \in DOMAIN @ |->
                   IF @[i].kind = "notify" /\ @[i].chan = c
                     THEN [@[i] EXCEPT !.event = None] ELSE @[i]]]

(* A slip: the channel is freed although a frame preserves it.             *)
VariantChannelFree(s, c) == [s EXCEPT !.chan[c] = Absent]

ChannelFree(s, c) ==
  IF s.chan[c].refCount = 0
    THEN [s EXCEPT !.chan[c] = Absent]
    ELSE [s EXCEPT !.chan[c] = [Absent EXCEPT !.life = "closed",
                                              !.refCount = s.chan[c].refCount]]

Closed(s, c) == ChannelFree(rcClose(Tcl_ClearChannelHandlers(s, c), c), c)

(* Tcl_NotifyChannel up to its first handler.                              *)
Notified(s, c, mask) ==
  IF mask = {} THEN s
  ELSE Push(TclChannelPreserve(s, c),
            NotifyFrame(c, IF s.chan[c].handlers = <<>> THEN None
                           ELSE Head(s.chan[c].handlers), mask))

-----------------------------------------------------------------------------
(* The scripts: one command of the innermost one.                          *)

Command == Running("script") /\ UNCHANGED <<pending, queued>>

CanUse(c, e) == Opened(kit, c) /\ e \in kit.rc[c].validMask

(* The bound: an instance with many channels does not nest its loops.      *)
Load == Cardinality({c \in Channels : kit.chan[c].life # "none"})
          + Cardinality({i \in DOMAIN kit.frames : IsLoop(kit.frames[i])})

(* rechan                                                                  *)
cmd_rechan(c) ==
  /\ Command
  /\ kit.chan[c].life = "none" /\ Load < MaxLoad
  /\ kit' = [kit EXCEPT !.chan[c] = [Absent EXCEPT !.life = "open"],
                        !.rc[c] = rcCreate(Mode[c])]

(* fileevent with a script and with an empty one                           *)
SetHandler(c, e) ==
  /\ Command /\ CanUse(c, e)
  /\ kit' = Tcl_CreateChannelHandler(kit, c, e)

UnsetHandler(c, e) ==
  /\ Command /\ CanUse(c, e)
  /\ kit' = Tcl_DeleteChannelHandler(kit, c, e)

(* What a read or a gets can end with: what the driver gave last, if it    *)
(* was called, whether input is left, and whether gets wants more of it.   *)
Outcome(c, got, left, more) ==
  /\ got = "buffer" => ~more /\ (left => kit.chan[c].buffered)
  /\ got = "none"   => ~more /\ ~left
  /\ got = "some"   => (more => left)

(* A slip: read does not call UpdateInterest.                              *)
VariantRead(c, got, left, more) ==
  /\ Command /\ CanUse(c, "readable") /\ Outcome(c, got, left, more)
  /\ kit' = [rcInput(kit, c, got) EXCEPT !.chan[c].buffered = left,
                                         !.chan[c].needMore = more]

Read(c, got, left, more) ==
  /\ Command /\ CanUse(c, "readable") /\ Outcome(c, got, left, more)
  /\ kit' = UpdateInterest([rcInput(kit, c, got)
                              EXCEPT !.chan[c].buffered = left,
                                     !.chan[c].needMore = more], c)

(* A seek goes to the driver, with no input left; so does a write, and     *)
(* before it, if there is input, a seek.  The command may refuse each.     *)
Seek(c, accepted) ==
  LET s == [kit EXCEPT !.chan[c].buffered = FALSE]
  IN  /\ Command /\ Opened(kit, c)
      /\ kit' = IF accepted THEN rcSeek(s, c) ELSE s

Write(c, accepted) ==
  LET s == [kit EXCEPT !.chan[c].buffered = FALSE]
  IN  /\ Command /\ CanUse(c, "writable")
      /\ kit' = IF accepted THEN rcOutput(s, c) ELSE s

(* fconfigure -encoding, and -translation with another value               *)
Reconfigure(c) ==
  /\ Command /\ Opened(kit, c)
  /\ kit' = UpdateInterest([kit EXCEPT !.chan[c].needMore = FALSE], c)

Close(c) ==
  /\ Command /\ Opened(kit, c)
  /\ kit' = Closed(kit, c)

(* update and vwait                                                        *)
EnterLoop(kind) ==
  /\ Command /\ Load < MaxLoad
  /\ kit' = Push(kit, PlainFrame(kind))

(* The end of a handler script, and its caller, TclChannelEventScript-     *)
(* Invoker.                                                                *)
HandlerReturns ==
  /\ Command /\ Top.chan # None
  /\ kit' = Pop(TclChannelRelease(kit, Top.chan))

HandlerFails ==
  /\ Command /\ Top.chan # None
  /\ kit' = Pop(TclChannelRelease(
              IF Opened(kit, Top.chan)
                THEN Tcl_DeleteChannelHandler(kit, Top.chan, Top.event)
                ELSE kit, Top.chan))

-----------------------------------------------------------------------------
(* The event loop.                                                         *)

Looping == kit.frames # <<>> /\ IsLoop(Top)

(* Tcl_ServiceEvent, and TimerHandlerEventProc up to its loop              *)
ServiceEvent ==
  /\ Looping /\ queued > 0
  /\ queued' = queued - 1
  /\ pending' = FALSE
  /\ kit' = Push([kit EXCEPT !.passes = @ + 1], PlainFrame("pass"))

(* A slip: an event is queued for every look at the clock.                 *)
VariantTimerCheckProc ==
  /\ Looping /\ Due(kit.timers) /\ queued < 2
  /\ pending' = TRUE
  /\ queued' = queued + 1
  /\ UNCHANGED kit

TimerCheckProc ==
  /\ Looping /\ queued = 0
  /\ Due(kit.timers) /\ ~pending
  /\ pending' = TRUE
  /\ queued' = queued + 1
  /\ UNCHANGED kit

(* update has found nothing to do.                                         *)
UpdateEnds ==
  /\ Looping /\ Top.kind = "update"
  /\ queued = 0 /\ (pending \/ ~Due(kit.timers))
  /\ kit' = Pop(kit)
  /\ UNCHANGED <<pending, queued>>

-----------------------------------------------------------------------------
(* A pass over the timers.                                                 *)

(* The first handler is due, and is one of the generation of the pass.     *)
Runnable == Due(kit.timers) /\ Head(kit.timers).era < kit.passes

Fire(proc) ==
  /\ Running("pass") /\ Runnable
  /\ Head(kit.timers).proc = proc
  /\ UNCHANGED <<pending, queued>>

Unlisted == [kit EXCEPT !.timers = Tail(@)]

FireRechan ==
  LET c == Head(kit.timers).chan
      s == rcTimerProc(Unlisted, c)
  IN  /\ Fire("rcTimerProc")
      /\ kit' = Notified(s, c, s.rc[c].watchMask)

(* A slip: the restarted timer is left to UpdateInterest.                  *)
VariantFireChannel ==
  LET c == Head(kit.timers).chan
      s == [Unlisted EXCEPT !.chan[c].timer = FALSE]
  IN  /\ Fire("ChannelTimerProc")
      /\ kit' = IF "readable" \in Interest(kit, c) /\ ReadyInput(kit, c)
                  THEN Notified(s, c, {"readable"})
                  ELSE TclChannelRelease(UpdateInterest(s, c), c)

(* ChannelTimerProc; a channel that is closed has no timer.                *)
FireChannel ==
  LET c == Head(kit.timers).chan
  IN  /\ Fire("ChannelTimerProc")
      /\ kit' = IF "readable" \in Interest(kit, c) /\ ReadyInput(kit, c)
                  THEN Notified(StartTimer(Unlisted, c), c, {"readable"})
                  ELSE TclChannelRelease(
                         UpdateInterest([Unlisted EXCEPT
                                           !.chan[c].timer = FALSE], c), c)

(* The end of the pass and of its event.  vwait looks at its variable.     *)
PassEnds(done) ==
  LET s == [Pop(kit) EXCEPT !.timers = Ended(@, kit.passes),
                            !.passes = @ - 1]
  IN  /\ Running("pass") /\ ~Runnable
      /\ done => Last(s.frames).kind = "vwait"
      /\ kit' = IF done THEN Pop(s) ELSE s
      /\ UNCHANGED <<pending, queued>>

-----------------------------------------------------------------------------
(* Tcl_NotifyChannel.                                                      *)

Hs == kit.chan[Top.chan].handlers

NotifyCalls ==
  /\ Running("notify") /\ Top.event \in Top.mask
  /\ kit' = Push([TclChannelPreserve(kit, Top.chan)
                    EXCEPT !.frames[Len(kit.frames)].event =
                             Successor(Hs, Top.event)],
                 ScriptFrame(Top.chan, Top.event))
  /\ UNCHANGED <<pending, queued>>

NotifySkips ==
  /\ Running("notify") /\ Top.event \notin Top.mask \cup {None}
  /\ kit' = [kit EXCEPT !.frames[Len(kit.frames)].event =
                          Successor(Hs, Top.event)]
  /\ UNCHANGED <<pending, queued>>

(* A slip: the interest is left as the handlers have left it.              *)
VariantNotifyEnds ==
  /\ Running("notify") /\ Top.event = None
  /\ kit' = Pop(TclChannelRelease(kit, Top.chan))
  /\ UNCHANGED <<pending, queued>>

NotifyEnds ==
  /\ Running("notify") /\ Top.event = None
  /\ kit' = Pop(TclChannelRelease(UpdateInterest(kit, Top.chan), Top.chan))
  /\ UNCHANGED <<pending, queued>>

-----------------------------------------------------------------------------
Init == /\ kit = [chan   |-> [c \in Channels |-> Absent],
                  rc     |-> [c \in Channels |-> Freed],
                  timers |-> <<>>,
                  passes |-> 0,
                  frames |-> <<ScriptFrame(None, None)>>]
        /\ pending = FALSE
        /\ queued = 0

Tick == /\ Ticked(kit.timers, kit.passes) # kit.timers
        /\ kit' = [kit EXCEPT !.timers = Ticked(@, kit.passes)]
        /\ UNCHANGED <<pending, queued>>

Script ==
  \/ \E c \in Channels :
       \/ cmd_rechan(c) \/ Reconfigure(c) \/ Close(c)
       \/ \E e \in Events : SetHandler(c, e) \/ UnsetHandler(c, e)
       \/ \E got \in {"buffer", "some", "none", "error"},
             left, more \in BOOLEAN : Read(c, got, left, more)
       \/ \E accepted \in BOOLEAN : Seek(c, accepted) \/ Write(c, accepted)
  \/ \E kind \in {"update", "vwait"} : EnterLoop(kind)

(* What goes on without a script's doing.                                  *)
Machine ==
  \/ ServiceEvent \/ TimerCheckProc \/ UpdateEnds
  \/ FireRechan \/ FireChannel \/ \E done \in BOOLEAN : PassEnds(done)
  \/ NotifyCalls \/ NotifySkips \/ NotifyEnds

Next == Script \/ HandlerReturns \/ HandlerFails \/ Machine \/ Tick

Spec == Init /\ [][Next]_vars

(* Tcl goes on by itself, so does the clock, and the script at the bottom, *)
(* that of an application, does not keep out of the event loop for ever.   *)
FairSpec ==
  /\ Spec
  /\ WF_vars(Machine)
  /\ WF_vars(Tick)
  /\ WF_vars(AtBottom /\ \E kind \in {"update", "vwait"} : EnterLoop(kind))
-----------------------------------------------------------------------------
(* The properties.                                                         *)

TypeOK ==
  /\ kit \in [chan: [Channels -> Channel], rc: [Channels -> Instance],
              timers: Seq(TimerHandler), passes: Nat, frames: Seq(Frame)]
  /\ kit.passes = Cardinality(PassesOf(kit.frames))
  /\ pending \in BOOLEAN /\ queued \in Nat

(* The timer list holds what the channels and the instances believe it to  *)
(* hold, once, and all of it is for channels that are open: no handler is  *)
(* called with freed memory (rechan.c:212), and none that somebody counts  *)
(* on is missing (rechan.c:228, tclIO.c:8560, which create no second one). *)
NoDanglingTimers ==
  /\ Unique(kit.timers)
  /\ \A c \in Channels :
       /\ kit.rc[c].timer <=> Listed(kit.timers, "rcTimerProc", c)
       /\ kit.chan[c].timer <=> Listed(kit.timers, "ChannelTimerProc", c)
       /\ kit.rc[c].timer \/ kit.chan[c].timer => Opened(kit, c)

(* What the comments in TimerHandlerEventProc and in Tcl_ServiceEvent rely *)
(* on: the list is ordered, no handler is of a generation that is yet to   *)
(* come, and the flag says whether an event waits in the queue.            *)
TimersInOrder ==
  /\ Ordered(kit.timers)
  /\ \A i \in DOMAIN kit.timers : kit.timers[i].era <= kit.passes
  /\ queued = IF pending THEN 1 ELSE 0

(* The handler a notification comes to next is one the channel still has,  *)
(* whatever the scripts between have unset, set and closed.                *)
NextHandlerLives ==
  \A i \in DOMAIN kit.frames :
    LET f == kit.frames[i]
    IN  f.kind = "notify" => f.event \in Interest(kit, f.chan) \cup {None}

(* A channel is preserved once for each frame that uses it and once for    *)
(* its timer: it is not freed under them and not leaked behind them.       *)
RefsBalanced ==
  \A c \in Channels :
    LET uses == Uses(kit.frames, c)
    IN  /\ kit.chan[c].refCount =
             Cardinality(uses) + (IF kit.chan[c].timer THEN 1 ELSE 0)
        /\ kit.chan[c].life = "closed" => uses # {}
        /\ kit.chan[c].life = "none"   => uses = {}

(* An event somebody waits for is looked for: unless the channel is being  *)
(* notified right now, the driver's timer runs and its mask has the event, *)
(* or the core's timer runs, for the input it has (rechan.c:134).          *)
Armed(s, c, e) ==
  \/ s.rc[c].timer /\ e \in s.rc[c].watchMask
  \/ s.chan[c].timer /\ e = "readable"

InterestArmed ==
  \A c \in Channels :
    (\A i \in Uses(kit.frames, c) : kit.frames[i].kind # "notify")
      => \A e \in Interest(kit, c) : Armed(kit, c, e)

(* The handlers are called as fileevent(n) promises, and one that returns  *)
(* is taken off the calls, unset at the same time or not.  HandlersOf are  *)
(* the scripts among the frames that handle an event, the innermost last.  *)
IsHandler(f) == f.kind = "script" /\ f.chan # None

WithCall(calls, f) ==
  IF IsHandler(f) THEN Append(calls, <<f.chan, f.event>>) ELSE calls

HandlersOf(fs) ==
  LET calls[i \in 0 .. Len(fs)] ==
        IF i = 0 THEN <<>> ELSE WithCall(calls[i - 1], fs[i])
  IN  calls[Len(fs)]

FE == INSTANCE FileEvents WITH
        open    <- {c \in Channels : Opened(kit, c)},
        set     <- [c \in Channels |-> Interest(kit, c)],
        running <- HandlersOf(kit.frames)

CallsAsPromised == FE!Spec

(* Who waits for an event of a channel is called (tclIO.c:8599 and 8339,   *)
(* rechan.c:212), in a vwait that never returns too, provided that the     *)
(* handlers return, so that again and again none of them runs, and, if the *)
(* event is readable, that nobody but its handler keeps reading the        *)
(* channel: that takes from the driver's timer the 5 ms it needs.          *)
Waits(c, e)   == e \in Interest(kit, c)
Handles(c, e) == Running("script") /\ Top.chan = c /\ Top.event = e

ReadByOthers(c) ==
  /\ ~Handles(c, "readable")
  /\ \E got \in {"buffer", "some", "none", "error"}, left, more \in BOOLEAN :
       Read(c, got, left, more)

Served ==
  \A c \in Channels, e \in Events :
    \/ <>[](\E i \in DOMAIN kit.frames : IsHandler(kit.frames[i]))
    \/ e = "readable" /\ []<><<ReadByOthers(c)>>_vars
    \/ Waits(c, e) ~> (Handles(c, e) \/ ~Waits(c, e))
=============================================================================
