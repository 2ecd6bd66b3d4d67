----------------------------- MODULE FileEvents -----------------------------
(***************************************************************************)
(* What fileevent(n) promises of channels and their handlers, whatever the *)
(* driver and the timers behind them do: a script runs for an event of a   *)
(* channel only if the channel is open and the script is set at that       *)
(* moment, no script is set on a closed channel, and the scripts return in *)
(* reverse order.                                                          *)
(***************************************************************************)
EXTENDS Sequences, SequencesExt

CONSTANTS Channels, Events

VARIABLES open,     \* the open channels
          set,      \* the events of a channel that have a script
          running   \* the scripts that run, the innermost last

vars == <<open, set, running>>

Init == /\ open = {}
        /\ set = [c \in Channels |-> {}]
        /\ running = <<>>

Open(c) == /\ open' = open \cup {c}
           /\ UNCHANGED <<set, running>>

Close(c) == /\ open' = open \ {c}
            /\ set' = [set EXCEPT ![c] = {}]
            /\ UNCHANGED running

Set(c, e) == /\ c \in open
             /\ set' = [set EXCEPT ![c] = @ \cup {e}]
             /\ UNCHANGED <<open, running>>

Unset(c, e) == /\ set' = [set EXCEPT ![c] = @ \ {e}]
               /\ UNCHANGED <<open, running>>

Call(c, e) == /\ c \in open /\ e \in set[c]
              /\ running' = Append(running, <<c, e>>)
              /\ UNCHANGED <<open, set>>

Return == /\ running # <<>>
          /\ running' = Front(running)
          /\ UNCHANGED <<open, set>>

Fail == LET script == Last(running) IN
        /\ running # <<>>
        /\ running' = Front(running)
        /\ set' = [set EXCEPT ![script[1]] = @ \ {script[2]}]
        /\ UNCHANGED open

Next == \/ \E c \in Channels :
             \/ Open(c) \/ Close(c)
             \/ \E e \in Events : Set(c, e) \/ Unset(c, e) \/ Call(c, e)
        \/ Return \/ Fail

Spec == Init /\ [][Next]_vars
=============================================================================
