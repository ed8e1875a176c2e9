------------------------------ MODULE ChannelOp ------------------------------
(***************************************************************************)
(* How a command gets to a channel of the card and its result back.        *)
(* channel_op runs in the process that holds the channel semaphore, starts *)
(* the command, and waits for the interrupt handler or for a timer;        *)
(* commands on the tables in the FPGA's RAM poll a flag instead.  One      *)
(* interrupt serves all channels of one S6 chip.                           *)
(*                                                                         *)
(* A step of channel_op is one access to what it shares with the handler.  *)
(* The handler takes one channel after the other, and looks at a channel   *)
(* in one step and settles its command in a second.                        *)
(***************************************************************************)
EXTENDS Integers, Sequences

LOCAL INSTANCE FiniteSetsExt

CONSTANTS
  NChannels,    \* SSD_CHANNELS_IN_S6
  Kinds,        \* "flash" and "ram" commands that are sent
  MaxCommands   \* bound: commands on all channels together

ASSUME ChannelAssumption ==
  /\ NChannels \in Nat \ {0}
  /\ Kinds \subseteq {"flash", "ram"}
  /\ MaxCommands \in Nat

Channels == 0 .. (NChannels - 1)

VARIABLES
  pc,           \* where channel_op is, "idle" when the semaphore is free
  cmd,          \* [num, kind] of the last command
  errors,       \* ch_ctl->errors
  polled,       \* ch_ctl->error_ram = -100
  waiting,      \* ch_ctl->waiting # NULL
  woken,        \* the completion of the command is done
  timer,        \* [set, pending]: timer->function # NULL, and the timer runs
  outstanding,  \* numbers of the commands the hardware has not finished
  pending,      \* channels with a bit in SSD_IRQ_PENDING
  status,       \* the bits of each channel in SSD_IRQ_S6
  irq,          \* progress of ssd_interrupt
  outcome,      \* what the hardware made of the last command
  result,       \* what the last channel_op returned
  crossed,      \* the last command began with an interrupt of an older one due
  skewed        \* the last command got the status bits of another channel

ctl == <<errors, polled, waiting, woken, timer>>
hardware == <<outstanding, pending, status, outcome>>
marks == <<crossed, skewed>>
vars == <<pc, cmd, ctl, hardware, irq, result, marks>>

NoIrq == [step |-> "none"]
Due(c) == \/ outstanding[c] # <<>>
          \/ c \in pending
          \/ irq.step # "none" /\ c \in irq.channels /\ irq.at <= c

Go(c, from, to) == pc[c] = from /\ pc' = [pc EXCEPT ![c] = to]
-----------------------------------------------------------------------------
(***************************************************************************)
(* channel_op.                                                             *)
(***************************************************************************)
Begin(c, kind) ==
  /\ Go(c, "idle", "arm")
  /\ MapThenSumSet(LAMBDA d : cmd[d].num, Channels) < MaxCommands
  /\ cmd' = [cmd EXCEPT ![c] = [num |-> @.num + 1, kind |-> kind]]
  /\ errors' = [errors EXCEPT ![c] = "SSD_ERR_WAIT"]
  /\ woken' = [woken EXCEPT ![c] = FALSE]
  /\ outcome' = [outcome EXCEPT ![c] = "none"]
  /\ crossed' = [crossed EXCEPT ![c] = Due(c)]
  /\ skewed' = [skewed EXCEPT ![c] = FALSE]
  /\ UNCHANGED <<polled, waiting, timer, outstanding, pending, status, irq, result>>

Arm(c) ==
  /\ Go(c, "arm", "issue")
  /\ polled' = [polled EXCEPT ![c] = (cmd[c].kind = "ram")]
  /\ timer' = IF cmd[c].kind = "ram" THEN timer
              ELSE [timer EXCEPT ![c] = [set |-> TRUE, pending |-> TRUE]]
  /\ UNCHANGED <<cmd, errors, waiting, woken, hardware, irq, result, marks>>

Issue(c) ==
  /\ Go(c, "issue", IF cmd[c].kind = "ram" THEN "poll" ELSE "publish")
  /\ outstanding' = [outstanding EXCEPT ![c] = Append(@, cmd[c].num)]
  /\ UNCHANGED <<cmd, ctl, pending, status, outcome, irq, result, marks>>

Returned(c, code) == [num |-> cmd[c].num, kind |-> cmd[c].kind, code |-> code]

\* the polling loop ends with the flag, or after its 800000000 turns (-49)
Poll(c) ==
  /\ Go(c, "poll", "idle")
  /\ \/ /\ ~polled[c]
        /\ result' = [result EXCEPT ![c] = Returned(c, "SSD_OK")]
     \/ /\ polled[c]
        /\ result' = [result EXCEPT ![c] = Returned(c, "error")]
  /\ UNCHANGED <<cmd, ctl, hardware, irq, marks>>

Publish(c) ==
  /\ Go(c, "publish", "wait")
  /\ waiting' = [waiting EXCEPT ![c] = TRUE]
  /\ UNCHANGED <<cmd, errors, polled, woken, timer, hardware, irq, result, marks>>

(***************************************************************************)
(* The wait ends with the completion, or after 8000 jiffies, which is      *)
(* longer than the timer of 5 seconds runs.                                *)
(***************************************************************************)
WaitOver_without_timeout(c) == woken[c]
WaitOver(c) == woken[c] \/ ~timer[c].pending

Wake(c) ==
  /\ Go(c, "wait", "return")
  /\ WaitOver(c)
  /\ waiting' = [waiting EXCEPT ![c] = FALSE]
  /\ UNCHANGED <<cmd, errors, polled, woken, timer, hardware, irq, result, marks>>

Return(c) ==
  /\ Go(c, "return", "idle")
  /\ result' = [result EXCEPT ![c] = Returned(c, errors[c])]
  /\ UNCHANGED <<cmd, ctl, hardware, irq, marks>>
-----------------------------------------------------------------------------
Complete(c) ==
  /\ woken' = [woken EXCEPT ![c] = @ \/ waiting[c]]
  /\ waiting' = [waiting EXCEPT ![c] = FALSE]

ssd_timeout(c) ==
  /\ timer[c].pending
  /\ timer' = [timer EXCEPT ![c].pending = FALSE]
  /\ errors' = [errors EXCEPT ![c] = "SSD_ERR_TIMEOUT"]
  /\ Complete(c)
  /\ UNCHANGED <<pc, cmd, polled, hardware, irq, result, marks>>

(***************************************************************************)
(* The hardware works the commands of a channel off in order, in any time  *)
(* or never.                                                               *)
(***************************************************************************)
Finish(c) ==
  /\ outstanding[c] # <<>>
  /\ outstanding' = [outstanding EXCEPT ![c] = Tail(@)]
  /\ pending' = pending \cup {c}
  /\ \E o \in {"SSD_OK", "error"} :
       /\ status' = [status EXCEPT ![c] = o]
       /\ outcome' = IF Head(outstanding[c]) = cmd[c].num THEN [outcome EXCEPT ![c] = o]
                     ELSE outcome
  /\ UNCHANGED <<pc, cmd, ctl, irq, result, marks>>
-----------------------------------------------------------------------------
(***************************************************************************)
(* ssd_interrupt.  The pending bits are read and go away with that; when a *)
(* failure is among them the status of the chip is read too.  It is        *)
(* shifted on by one channel at the end of an iteration, but not by an     *)
(* iteration that ends with continue.                                      *)
(***************************************************************************)
Interrupt ==
  /\ irq.step = "none"
  /\ pending # {}
  /\ irq' = [step |-> "look", channels |-> pending, at |-> 0, shifts |-> 0,
             failed |-> \E c \in pending : status[c] # "SSD_OK", status |-> status]
  /\ pending' = {}
  /\ UNCHANGED <<pc, cmd, ctl, outstanding, status, outcome, result, marks>>

NextChannel(shift) ==
  irq' = IF irq.at = NChannels - 1 THEN NoIrq
         ELSE [irq EXCEPT !.step = "look", !.at = @ + 1, !.shifts = @ + shift]

Look ==
  /\ irq.step = "look"
  /\ LET c == irq.at
     IN \/ /\ c \notin irq.channels
           /\ NextChannel(1)
           /\ UNCHANGED polled
        \/ /\ c \in irq.channels
           /\ polled[c]
           /\ polled' = [polled EXCEPT ![c] = FALSE]
           /\ NextChannel(0)
        \/ /\ c \in irq.channels
           /\ ~polled[c]
           /\ errors[c] = "SSD_ERR_TIMEOUT"
           /\ NextChannel(0)
           /\ UNCHANGED polled
        \/ /\ c \in irq.channels
           /\ ~polled[c]
           /\ errors[c] # "SSD_ERR_TIMEOUT"
           /\ irq' = [irq EXCEPT !.step = "settle"]
           /\ UNCHANGED polled
  /\ UNCHANGED <<pc, cmd, errors, waiting, woken, timer, hardware, result, marks>>

ssd_delete_timer(c) == IF timer[c].set /\ timer[c].pending THEN "SSD_OK" ELSE "SSD_ERR_DEL_TIMER"

StatusBits_not_read(c) == ssd_delete_timer(c)
StatusBits(c) == irq.status[irq.shifts]

Settle ==
  /\ irq.step = "settle"
  /\ LET c == irq.at
     IN /\ timer' = [timer EXCEPT ![c] = [set |-> FALSE, pending |-> FALSE]]
        /\ \/ /\ irq.failed
              /\ errors' = [errors EXCEPT ![c] = StatusBits(c)]
              /\ skewed' = [skewed EXCEPT ![c] = (irq.shifts # c)]
              /\ Complete(c)
           \/ /\ ~irq.failed
              /\ errors' = [errors EXCEPT ![c] = ssd_delete_timer(c)]
              /\ IF ssd_delete_timer(c) = "SSD_OK" THEN Complete(c) ELSE UNCHANGED <<woken, waiting>>
              /\ UNCHANGED skewed
  /\ NextChannel(1)
  /\ UNCHANGED <<pc, cmd, polled, hardware, result, crossed>>
-----------------------------------------------------------------------------
Init ==
  /\ pc = [c \in Channels |-> "idle"]
  /\ cmd = [c \in Channels |-> [num |-> 0, kind |-> "flash"]]
  /\ errors = [c \in Channels |-> "SSD_OK"]
  /\ polled = [c \in Channels |-> FALSE]
  /\ waiting = [c \in Channels |-> FALSE]
  /\ woken = [c \in Channels |-> FALSE]
  /\ timer = [c \in Channels |-> [set |-> FALSE, pending |-> FALSE]]
  /\ outstanding = [c \in Channels |-> <<>>]
  /\ pending = {}
  /\ status = [c \in Channels |-> "SSD_OK"]
  /\ irq = NoIrq
  /\ outcome = [c \in Channels |-> "none"]
  /\ result = [c \in Channels |-> [num |-> 0, kind |-> "flash", code |-> "none"]]
  /\ crossed = [c \in Channels |-> FALSE]
  /\ skewed = [c \in Channels |-> FALSE]

channel_op(c) == Arm(c) \/ Issue(c) \/ Poll(c) \/ Publish(c) \/ Wake(c) \/ Return(c)

Next ==
  \/ \E c \in Channels, kind \in Kinds : Begin(c, kind)
  \/ \E c \in Channels : channel_op(c) \/ ssd_timeout(c) \/ Finish(c)
  \/ Interrupt
  \/ Look
  \/ Settle

Spec == Init /\ [][Next]_vars

(***************************************************************************)
(* The process that called channel_op runs on and a timer that is set goes *)
(* off.  Nothing is asked of the hardware and of the interrupt.            *)
(***************************************************************************)
FairSpec ==
  /\ Spec
  /\ \A c \in Channels : WF_vars(channel_op(c)) /\ WF_vars(ssd_timeout(c))
-----------------------------------------------------------------------------
\* the command of the last result is still the last command
Last(c) == pc[c] = "idle" /\ cmd[c].num # 0

(***************************************************************************)
(* A flash command that returns SSD_OK has been carried out, unless its    *)
(* channel_op began while an interrupt of an older command was due or the  *)
(* handler read the status bits of another channel for it: no other order  *)
(* of process, handler and timer makes a failure look like a success.  And *)
(* no command returns before its result has been written to errors: the    *)
(* initial SSD_ERR_WAIT never reaches a caller.                            *)
(***************************************************************************)
Honest ==
  \A c \in Channels :
    /\ Last(c) /\ result[c].kind = "flash" /\ ~crossed[c] /\ ~skewed[c]
               /\ result[c].code = "SSD_OK" => outcome[c] = "SSD_OK"
    /\ result[c].code # "SSD_ERR_WAIT"

(***************************************************************************)
(* Every command returns, also when its interrupt comes before channel_op  *)
(* has said that it waits, and when the hardware never answers.            *)
(***************************************************************************)
Returns == \A c \in Channels : []<>(pc[c] = "idle")

(***************************************************************************)
(* A flash command that returns SSD_OK has been carried out ("have         *)
(* interrupt and the operaton is success").                                *)
(***************************************************************************)
OkIsTrue ==
  \A c \in Channels :
    Last(c) /\ result[c].kind = "flash" /\ result[c].code = "SSD_OK" => outcome[c] = "SSD_OK"

(***************************************************************************)
(* Every channel is judged by its own bits ("each channel have 5 bits in   *)
(* s6_stauts"): a flash command that was begun with no older interrupt due *)
(* and that returns SSD_OK has been carried out.                           *)
(***************************************************************************)
OwnStatus ==
  \A c \in Channels :
    Last(c) /\ result[c].kind = "flash" /\ ~crossed[c]
            /\ result[c].code = "SSD_OK" => outcome[c] = "SSD_OK"
=============================================================================
