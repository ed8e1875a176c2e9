--------------------------- MODULE ChannelOp_proofs ---------------------------
(***************************************************************************)
(* Why a flash command that returns SSD_OK has been carried out, for any   *)
(* number of channels and commands.  The command is followed from          *)
(* channel_op through the hardware, the pending bits and the handler back  *)
(* to errors: as long as its own interrupt has not been settled, errors    *)
(* holds what channel_op or the timer has written and never SSD_OK.        *)
(***************************************************************************)
EXTENDS ChannelOp, TLAPS

Results == {"SSD_OK", "error"}
Errors == Results \cup {"SSD_ERR_WAIT", "SSD_ERR_TIMEOUT", "SSD_ERR_DEL_TIMER"}
Places == {"idle", "arm", "issue", "poll", "publish", "wait", "return"}
Irqs == [step : {"look", "settle"}, channels : SUBSET Channels, at : Channels, shifts : Nat,
         failed : BOOLEAN, status : [Channels -> Results]]

(***************************************************************************)
(* Every variable has its type; the handler never shifts the status past   *)
(* the channel it is at, and settles a channel only on its interrupt.      *)
(***************************************************************************)
ChannelTypeOK ==
  /\ pc \in [Channels -> Places]
  /\ cmd \in [Channels -> [num : Nat, kind : {"flash", "ram"}]]
  /\ errors \in [Channels -> Errors]
  /\ polled \in [Channels -> BOOLEAN]
  /\ waiting \in [Channels -> BOOLEAN]
  /\ woken \in [Channels -> BOOLEAN]
  /\ timer \in [Channels -> [set : BOOLEAN, pending : BOOLEAN]]
  /\ outstanding \in [Channels -> Seq(Nat)]
  /\ pending \subseteq Channels
  /\ status \in [Channels -> Results]
  /\ \/ irq = NoIrq
     \/ irq \in Irqs /\ irq.shifts <= irq.at /\ (irq.step = "settle" => irq.at \in irq.channels)
  /\ outcome \in [Channels -> Results \cup {"none"}]
  /\ result \in [Channels -> [num : Nat, kind : {"flash", "ram"}, code : Errors \cup {"none"}]]
  /\ crossed \in [Channels -> BOOLEAN]
  /\ skewed \in [Channels -> BOOLEAN]

(***************************************************************************)
(* The waiting process: it is woken only after the timer is off, and the   *)
(* timer goes off only when errors is written.                             *)
(***************************************************************************)
Timing(c) ==
  /\ waiting[c] => pc[c] = "wait"
  /\ woken[c] => pc[c] \in {"wait", "return", "idle"} /\ ~timer[c].pending
  /\ pc[c] \in {"publish", "wait", "return"} => cmd[c].kind = "flash"
  /\ pc[c] = "poll" => cmd[c].kind = "ram"
  /\ pc[c] \in {"issue", "publish", "wait"} /\ cmd[c].kind = "flash"
       => timer[c].pending \/ errors[c] # "SSD_ERR_WAIT"
  /\ pc[c] = "return" => errors[c] # "SSD_ERR_WAIT"

(***************************************************************************)
(* Where the last command of a channel is, when no older interrupt was due *)
(* as it began: not sent, with the hardware, in the pending bits, in the   *)
(* hands of the handler, or settled.                                       *)
(***************************************************************************)
InIrq(c)   == irq.step # "none" /\ c \in irq.channels /\ irq.at <= c
Started(c) == pc[c] \notin {"arm", "issue"}
Unsettled(c) == errors[c] \in {"SSD_ERR_WAIT", "SSD_ERR_TIMEOUT"}

NotSent(c)  == ~Started(c) /\ Unsettled(c) /\ ~Due(c)
Sent(c)     == Started(c) /\ Unsettled(c) /\ outstanding[c] = <<cmd[c].num>>
               /\ c \notin pending /\ ~InIrq(c)
Finished(c) == Started(c) /\ Unsettled(c) /\ outstanding[c] = <<>>
               /\ c \in pending /\ ~InIrq(c) /\ outcome[c] = status[c]
Seen(c)     == Started(c) /\ Unsettled(c) /\ outstanding[c] = <<>>
               /\ c \notin pending /\ InIrq(c) /\ outcome[c] = irq.status[c]
               /\ (outcome[c] # "SSD_OK" => irq.failed)
Settled(c)  == Started(c) /\ ~Due(c)
               /\ (errors[c] = "SSD_OK" => skewed[c] \/ outcome[c] = "SSD_OK")

Followed(c) ==
  cmd[c].num # 0 /\ cmd[c].kind = "flash" /\ ~crossed[c]
    => NotSent(c) \/ Sent(c) \/ Finished(c) \/ Seen(c) \/ Settled(c)

(***************************************************************************)
(* What the last result says stays true: a settled command is not touched. *)
(***************************************************************************)
Told(c) ==
  /\ result[c].code # "SSD_ERR_WAIT"
  /\ Last(c) =>
       /\ result[c].kind = cmd[c].kind
       /\ cmd[c].kind = "flash" /\ ~crossed[c] /\ result[c].code = "SSD_OK"
            => ~Due(c) /\ (skewed[c] \/ outcome[c] = "SSD_OK")

IInv ==
  /\ ChannelTypeOK
  /\ \A c \in Channels : Timing(c) /\ Followed(c) /\ Told(c)
-----------------------------------------------------------------------------
(***************************************************************************)
(* The initial state satisfies the invariant.                              *)
(***************************************************************************)
LEMMA InitKeeps ==
  ASSUME Init
  PROVE  IInv
<1>1. ChannelTypeOK
  BY DEF Init, ChannelTypeOK, Places, Errors, Results
<1>2. \A c \in Channels : Timing(c) /\ Followed(c) /\ Told(c)
  BY DEF Init, Timing, Followed, Told, Last
<1> QED  BY <1>1, <1>2 DEF IInv

(***************************************************************************)
(* channel_op begins a command.                                            *)
(***************************************************************************)
LEMMA BeginKeeps ==
  ASSUME IInv, Kinds \subseteq {"flash", "ram"}, NEW c \in Channels, NEW kind \in Kinds, Begin(c, kind)
  PROVE  IInv'
<1>1. ChannelTypeOK'
  <2>1. cmd' \in [Channels -> [num : Nat, kind : {"flash", "ram"}]]
    BY DEF IInv, ChannelTypeOK, Begin
  <2>2. pc' \in [Channels -> Places] /\ errors' \in [Channels -> Errors]
    BY DEF IInv, ChannelTypeOK, Begin, Go, Places, Errors
  <2>3. /\ woken' \in [Channels -> BOOLEAN] /\ skewed' \in [Channels -> BOOLEAN]
        /\ outcome' \in [Channels -> Results \cup {"none"}]
    BY DEF IInv, ChannelTypeOK, Begin
  <2>4. crossed' \in [Channels -> BOOLEAN]
    <3>1. Due(c) \in BOOLEAN
      BY DEF Due
    <3> QED  BY <3>1 DEF IInv, ChannelTypeOK, Begin
  <2> QED  BY <2>1, <2>2, <2>3, <2>4 DEF IInv, ChannelTypeOK, Begin
<1>2. ASSUME NEW d \in Channels
      PROVE  Timing(d)' /\ Followed(d)' /\ Told(d)'
  <2>1. Timing(d) /\ Followed(d) /\ Told(d) /\ ChannelTypeOK
    BY DEF IInv
  <2>2. Timing(d)'
    BY <2>1 DEF ChannelTypeOK, Timing, Begin, Go
  <2>3. Followed(d)'
    BY <2>1 DEF ChannelTypeOK, Followed, NotSent, Sent, Finished, Seen, Settled, Started, Unsettled,
                InIrq, Due, Begin, Go
  <2>4. Told(d)'
    BY <2>1 DEF ChannelTypeOK, Told, Last, Due, Begin, Go
  <2> QED  BY <2>2, <2>3, <2>4
<1> QED  BY <1>1, <1>2 DEF IInv

(***************************************************************************)
(* channel_op resets the flag of the polling loop and sets the timer.      *)
(***************************************************************************)
LEMMA ArmKeeps ==
  ASSUME IInv, NEW c \in Channels, Arm(c)
  PROVE  IInv'
<1>1. ChannelTypeOK'
  <2>1. timer' \in [Channels -> [set : BOOLEAN, pending : BOOLEAN]]
    BY DEF IInv, ChannelTypeOK, Arm
  <2>2. pc' \in [Channels -> Places] /\ polled' \in [Channels -> BOOLEAN]
    BY DEF IInv, ChannelTypeOK, Arm, Go, Places
  <2> QED  BY <2>1, <2>2 DEF IInv, ChannelTypeOK, Arm, hardware, marks
<1>2. ASSUME NEW d \in Channels
      PROVE  Timing(d)' /\ Followed(d)' /\ Told(d)'
  <2>1. Timing(d) /\ Followed(d) /\ Told(d) /\ ChannelTypeOK
    BY DEF IInv
  <2>2. Timing(d)'
    BY <2>1 DEF ChannelTypeOK, Timing, Arm, Go
  <2>3. Followed(d)'
    BY <2>1 DEF ChannelTypeOK, Followed, NotSent, Sent, Finished, Seen, Settled, Started, Unsettled,
                InIrq, Due, Arm, Go, hardware, marks
  <2>4. Told(d)'
    BY <2>1 DEF ChannelTypeOK, Told, Last, Due, Arm, Go, hardware, marks
  <2> QED  BY <2>2, <2>3, <2>4
<1> QED  BY <1>1, <1>2 DEF IInv

(***************************************************************************)
(* channel_op starts the command: the hardware has it.                     *)
(***************************************************************************)
LEMMA IssueKeeps ==
  ASSUME IInv, NEW c \in Channels, Issue(c)
  PROVE  IInv'
<1>1. ChannelTypeOK'
  <2>1. outstanding' \in [Channels -> Seq(Nat)]
    BY DEF IInv, ChannelTypeOK, Issue
  <2>2. pc' \in [Channels -> Places]
    BY DEF IInv, ChannelTypeOK, Issue, Go, Places
  <2> QED  BY <2>1, <2>2 DEF IInv, ChannelTypeOK, Issue, ctl, marks
<1>2. ASSUME NEW d \in Channels
      PROVE  Timing(d)' /\ Followed(d)' /\ Told(d)'
  <2>1. Timing(d) /\ Followed(d) /\ Told(d) /\ ChannelTypeOK
    BY DEF IInv
  <2>2. Timing(d)'
    BY <2>1 DEF ChannelTypeOK, Timing, Issue, Go, ctl
  <2>3. outstanding[d] = <<>> => Append(outstanding[d], cmd[d].num) = <<cmd[d].num>>
    OBVIOUS
  <2>4. Followed(d)'
    BY <2>1, <2>3 DEF ChannelTypeOK, Followed, NotSent, Sent, Finished, Seen, Settled, Started,
                      Unsettled, InIrq, Due, Issue, Go, ctl, marks
  <2>5. Told(d)'
    BY <2>1 DEF ChannelTypeOK, Told, Last, Due, Issue, Go, marks
  <2> QED  BY <2>2, <2>4, <2>5
<1> QED  BY <1>1, <1>2 DEF IInv

(***************************************************************************)
(* The polling loop ends with the flag or gives up.                        *)
(***************************************************************************)
LEMMA PollKeeps ==
  ASSUME IInv, NEW c \in Channels, Poll(c)
  PROVE  IInv'
<1>1. ChannelTypeOK'
  <2>1. result' \in [Channels -> [num : Nat, kind : {"flash", "ram"}, code : Errors \cup {"none"}]]
    <3>1. \A code \in {"SSD_OK", "error"} :
            Returned(c, code) \in [num : Nat, kind : {"flash", "ram"}, code : Errors \cup {"none"}]
      BY DEF IInv, ChannelTypeOK, Returned, Errors, Results
    <3>2. result' = [result EXCEPT ![c] = Returned(c, "SSD_OK")]
            \/ result' = [result EXCEPT ![c] = Returned(c, "error")]
      BY DEF Poll
    <3> QED  BY <3>1, <3>2 DEF IInv, ChannelTypeOK
  <2>2. pc' \in [Channels -> Places]
    BY DEF IInv, ChannelTypeOK, Poll, Go, Places
  <2> QED  BY <2>1, <2>2 DEF IInv, ChannelTypeOK, Poll, ctl, hardware, marks
<1>2. ASSUME NEW d \in Channels
      PROVE  Timing(d)' /\ Followed(d)' /\ Told(d)'
  <2>1. Timing(d) /\ Followed(d) /\ Told(d) /\ ChannelTypeOK
    BY DEF IInv
  <2>2. Timing(d)'
    BY <2>1 DEF ChannelTypeOK, Timing, Poll, Go, ctl
  <2>3. Followed(d)'
    BY <2>1 DEF ChannelTypeOK, Followed, NotSent, Sent, Finished, Seen, Settled, Started, Unsettled,
                InIrq, Due, Poll, Go, ctl, hardware, marks
  <2>4. Told(d)'
    BY <2>1 DEF ChannelTypeOK, Told, Last, Due, Timing, Poll, Go, Returned, hardware, marks
  <2> QED  BY <2>2, <2>3, <2>4
<1> QED  BY <1>1, <1>2 DEF IInv

(***************************************************************************)
(* channel_op says that it waits.                                          *)
(***************************************************************************)
LEMMA PublishKeeps ==
  ASSUME IInv, NEW c \in Channels, Publish(c)
  PROVE  IInv'
<1>1. ChannelTypeOK'
  BY DEF IInv, ChannelTypeOK, Publish, Go, Places, hardware, marks
<1>2. ASSUME NEW d \in Channels
      PROVE  Timing(d)' /\ Followed(d)' /\ Told(d)'
  <2>1. Timing(d) /\ Followed(d) /\ Told(d) /\ ChannelTypeOK
    BY DEF IInv
  <2>2. Timing(d)'
    BY <2>1 DEF ChannelTypeOK, Timing, Publish, Go
  <2>3. Followed(d)'
    BY <2>1 DEF ChannelTypeOK, Followed, NotSent, Sent, Finished, Seen, Settled, Started, Unsettled,
                InIrq, Due, Publish, Go, hardware, marks
  <2>4. Told(d)'
    BY <2>1 DEF ChannelTypeOK, Told, Last, Due, Publish, Go, hardware, marks
  <2> QED  BY <2>2, <2>3, <2>4
<1> QED  BY <1>1, <1>2 DEF IInv

(***************************************************************************)
(* The wait is over: the timer is off, so errors has been written.         *)
(***************************************************************************)
LEMMA WakeKeeps ==
  ASSUME IInv, NEW c \in Channels, Wake(c)
  PROVE  IInv'
<1>1. ChannelTypeOK'
  BY DEF IInv, ChannelTypeOK, Wake, Go, Places, hardware, marks
<1>2. ASSUME NEW d \in Channels
      PROVE  Timing(d)' /\ Followed(d)' /\ Told(d)'
  <2>1. Timing(d) /\ Followed(d) /\ Told(d) /\ ChannelTypeOK
    BY DEF IInv
  <2>2. Timing(d)'
    BY <2>1 DEF ChannelTypeOK, Timing, Wake, WaitOver, Go
  <2>3. Followed(d)'
    BY <2>1 DEF ChannelTypeOK, Followed, NotSent, Sent, Finished, Seen, Settled, Started, Unsettled,
                InIrq, Due, Wake, Go, hardware, marks
  <2>4. Told(d)'
    BY <2>1 DEF ChannelTypeOK, Told, Last, Due, Wake, Go, hardware, marks
  <2> QED  BY <2>2, <2>3, <2>4
<1> QED  BY <1>1, <1>2 DEF IInv

(***************************************************************************)
(* channel_op returns errors: SSD_OK there means that the command is       *)
(* settled, so what it says cannot become false any more.                  *)
(***************************************************************************)
LEMMA ReturnKeeps ==
  ASSUME IInv, NEW c \in Channels, Return(c)
  PROVE  IInv'
<1>1. ChannelTypeOK'
  <2>1. result' \in [Channels -> [num : Nat, kind : {"flash", "ram"}, code : Errors \cup {"none"}]]
    BY DEF IInv, ChannelTypeOK, Return, Returned
  <2>2. pc' \in [Channels -> Places]
    BY DEF IInv, ChannelTypeOK, Return, Go, Places
  <2> QED  BY <2>1, <2>2 DEF IInv, ChannelTypeOK, Return, ctl, hardware, marks
<1>2. ASSUME NEW d \in Channels
      PROVE  Timing(d)' /\ Followed(d)' /\ Told(d)'
  <2>1. Timing(d) /\ Followed(d) /\ Told(d) /\ ChannelTypeOK
    BY DEF IInv
  <2>2. Timing(d)'
    BY <2>1 DEF ChannelTypeOK, Timing, Return, Go, ctl
  <2>3. Followed(d)'
    BY <2>1 DEF ChannelTypeOK, Followed, NotSent, Sent, Finished, Seen, Settled, Started, Unsettled,
                InIrq, Due, Return, Go, ctl, hardware, marks
  <2>4. Told(d)'
    BY <2>1 DEF ChannelTypeOK, Told, Last, Timing, Followed, NotSent, Sent, Finished, Seen, Settled,
                Started, Unsettled, Due, Return, Go, Returned, hardware, marks
  <2> QED  BY <2>2, <2>3, <2>4
<1> QED  BY <1>1, <1>2 DEF IInv

(***************************************************************************)
(* The timer goes off: what it writes is not SSD_OK.                       *)
(***************************************************************************)
LEMMA TimeoutKeeps ==
  ASSUME IInv, NEW c \in Channels, ssd_timeout(c)
  PROVE  IInv'
<1>1. ChannelTypeOK'
  <2>1. errors' \in [Channels -> Errors] /\ timer' \in [Channels -> [set : BOOLEAN, pending : BOOLEAN]]
    BY ZenonT(40) DEF IInv, ChannelTypeOK, ssd_timeout, Errors
  <2>2. woken' \in [Channels -> BOOLEAN] /\ waiting' \in [Channels -> BOOLEAN]
    BY DEF IInv, ChannelTypeOK, ssd_timeout, Complete
  <2> QED  BY <2>1, <2>2 DEF IInv, ChannelTypeOK, ssd_timeout, hardware, marks
<1>2. ASSUME NEW d \in Channels
      PROVE  Timing(d)' /\ Followed(d)' /\ Told(d)'
  <2>1. Timing(d) /\ Followed(d) /\ Told(d) /\ ChannelTypeOK
    BY DEF IInv
  <2>2. Timing(d)'
    BY <2>1 DEF ChannelTypeOK, Timing, ssd_timeout, Complete
  <2>3. Followed(d)'
    BY <2>1 DEF ChannelTypeOK, Followed, NotSent, Sent, Finished, Seen, Settled, Started, Unsettled,
                InIrq, Due, ssd_timeout, hardware, marks
  <2>4. Told(d)'
    BY <2>1 DEF ChannelTypeOK, Told, Last, Due, ssd_timeout, hardware, marks
  <2> QED  BY <2>2, <2>3, <2>4
<1> QED  BY <1>1, <1>2 DEF IInv

(***************************************************************************)
(* The hardware finishes the oldest command of a channel; the last command *)
(* is the only one it has when no older interrupt was due.                 *)
(***************************************************************************)
LEMMA FinishKeeps ==
  ASSUME IInv, NEW c \in Channels, Finish(c)
  PROVE  IInv'
<1>1. ChannelTypeOK'
  <2>1. outstanding' \in [Channels -> Seq(Nat)]
    <3>1. outstanding[c] \in Seq(Nat) /\ outstanding[c] # <<>>
      BY DEF IInv, ChannelTypeOK, Finish
    <3>2. Tail(outstanding[c]) \in Seq(Nat)
      BY <3>1
    <3> QED  BY <3>2 DEF IInv, ChannelTypeOK, Finish
  <2>2. PICK o \in Results : /\ status' = [status EXCEPT ![c] = o]
                             /\ outcome' = IF Head(outstanding[c]) = cmd[c].num
                                           THEN [outcome EXCEPT ![c] = o] ELSE outcome
    BY DEF Finish, Results
  <2>3. status' \in [Channels -> Results] /\ outcome' \in [Channels -> Results \cup {"none"}]
    BY <2>2 DEF IInv, ChannelTypeOK
  <2> QED  BY <2>1, <2>3 DEF IInv, ChannelTypeOK, Finish, ctl, marks
<1>2. ASSUME NEW d \in Channels
      PROVE  Timing(d)' /\ Followed(d)' /\ Told(d)'
  <2>1. Timing(d) /\ Followed(d) /\ Told(d) /\ ChannelTypeOK
    BY DEF IInv
  <2>2. Timing(d)'
    BY <2>1 DEF ChannelTypeOK, Timing, Finish, ctl
  <2>3. PICK o \in Results : /\ status' = [status EXCEPT ![c] = o]
                             /\ outcome' = IF Head(outstanding[c]) = cmd[c].num
                                           THEN [outcome EXCEPT ![c] = o] ELSE outcome
    BY DEF Finish, Results
  <2>4. Head(<<cmd[d].num>>) = cmd[d].num /\ Tail(<<cmd[d].num>>) = <<>>
    OBVIOUS
  <2>5. /\ outstanding' = [outstanding EXCEPT ![c] = Tail(@)] /\ outstanding[c] # <<>>
        /\ pending' = pending \cup {c}
        /\ UNCHANGED <<pc, cmd, errors, irq, result, crossed, skewed>>
    BY DEF Finish, ctl, marks
  <2>6. Followed(d)'
    <3>1. CASE d = c
      BY <2>1, <2>3, <2>4, <2>5, <3>1
         DEF ChannelTypeOK, Followed, NotSent, Sent, Finished, Seen, Settled, Started, Unsettled,
             InIrq, Due
    <3>2. CASE d # c
      BY <2>1, <2>3, <2>5, <3>2
         DEF ChannelTypeOK, Followed, NotSent, Sent, Finished, Seen, Settled, Started, Unsettled,
             InIrq, Due
    <3> QED  BY <3>1, <3>2
  <2>7. Told(d)'
    BY <2>1, <2>3, <2>5 DEF ChannelTypeOK, Told, Last, Due
  <2> QED  BY <2>2, <2>6, <2>7
<1> QED  BY <1>1, <1>2 DEF IInv

(***************************************************************************)
(* The handler reads the pending bits, and the status of the chip as it is *)
(* now.                                                                    *)
(***************************************************************************)
LEMMA InterruptKeeps ==
  ASSUME IInv, Interrupt
  PROVE  IInv'
<1>1. 0 \in Channels /\ \A c \in Channels : c \in Nat /\ 0 <= c
  BY ChannelAssumption DEF Channels
<1>2. ChannelTypeOK'
  <2>1. irq' \in Irqs /\ irq'.shifts = 0 /\ irq'.at = 0 /\ irq'.step = "look"
    BY <1>1 DEF IInv, ChannelTypeOK, Interrupt, Irqs
  <2>2. irq'.shifts <= irq'.at
    BY <2>1
  <2> QED  BY <2>1, <2>2 DEF IInv, ChannelTypeOK, Interrupt, ctl, marks
<1>3. ASSUME NEW d \in Channels
      PROVE  Timing(d)' /\ Followed(d)' /\ Told(d)'
  <2>1. Timing(d) /\ Followed(d) /\ Told(d) /\ ChannelTypeOK
    BY DEF IInv
  <2>2. Timing(d)'
    BY <2>1 DEF Timing, Interrupt, ctl
  <2>3. /\ irq'.step = "look" /\ irq'.channels = pending /\ irq'.at = 0 /\ irq'.status = status
        /\ irq'.failed = \E c \in pending : status[c] # "SSD_OK"
        /\ irq.step = "none" /\ pending' = {}
        /\ UNCHANGED <<pc, cmd, errors, outstanding, status, outcome, result, crossed, skewed>>
    BY DEF Interrupt, ctl, marks
  <2>4. Followed(d)'
    BY <1>1, <2>1, <2>3
       DEF Followed, NotSent, Sent, Finished, Seen, Settled, Started, Unsettled, InIrq, Due
  <2>5. Told(d)'
    BY <1>1, <2>1, <2>3 DEF Told, Last, Due
  <2> QED  BY <2>2, <2>4, <2>5
<1> QED  BY <1>2, <1>3 DEF IInv

(***************************************************************************)
(* The handler looks at a channel: it goes on to the next one, or stays to *)
(* settle this one.                                                        *)
(***************************************************************************)
LEMMA LookKeeps ==
  ASSUME IInv, Look
  PROVE  IInv'
<1>1. NChannels \in Nat \ {0} /\ \A d : d \in Channels <=> d \in Int /\ 0 <= d /\ d < NChannels
  BY ChannelAssumption DEF Channels
<1>2. irq \in Irqs /\ irq.shifts <= irq.at /\ irq.step = "look" /\ NoIrq.step = "none"
  BY DEF IInv, ChannelTypeOK, Look, NoIrq
<1>3. /\ irq.at \in Channels /\ irq.shifts \in Nat /\ irq.channels \subseteq Channels
      /\ irq.failed \in BOOLEAN /\ irq.status \in [Channels -> Results]
  BY <1>2 DEF Irqs
<1>4. \/ /\ irq' = NoIrq
         /\ irq.at = NChannels - 1
      \/ /\ irq' \in Irqs /\ irq'.step = "look" /\ irq'.at = irq.at + 1
         /\ irq'.shifts <= irq'.at /\ irq'.channels = irq.channels
         /\ irq'.failed = irq.failed /\ irq'.status = irq.status
      \/ /\ irq' \in Irqs /\ irq'.step = "settle" /\ irq'.at = irq.at
         /\ irq'.shifts <= irq'.at /\ irq.at \in irq.channels /\ irq'.channels = irq.channels
         /\ irq'.failed = irq.failed /\ irq'.status = irq.status
  <2>1. CASE irq' = [irq EXCEPT !.step = "settle"] /\ irq.at \in irq.channels
    BY <1>2, <1>3, <2>1 DEF Irqs
  <2>2. ASSUME NEW shift \in {0, 1}, NextChannel(shift)
        PROVE  \/ /\ irq' = NoIrq
                  /\ irq.at = NChannels - 1
               \/ /\ irq' \in Irqs /\ irq'.step = "look" /\ irq'.at = irq.at + 1
                  /\ irq'.shifts <= irq'.at /\ irq'.channels = irq.channels
                  /\ irq'.failed = irq.failed /\ irq'.status = irq.status
    <3>1. CASE irq.at = NChannels - 1
      BY <2>2, <3>1 DEF NextChannel
    <3>2. CASE irq.at # NChannels - 1
      <4>1. irq' = [irq EXCEPT !.step = "look", !.at = @ + 1, !.shifts = @ + shift]
        BY <2>2, <3>2 DEF NextChannel
      <4>2. irq.at + 1 \in Channels /\ irq.shifts + shift \in Nat /\ irq.shifts + shift <= irq.at + 1
        BY <1>1, <1>2, <1>3, <3>2
      <4> QED  BY <1>2, <4>1, <4>2 DEF Irqs
    <3> QED  BY <3>1, <3>2
  <2> QED  BY <2>1, <2>2 DEF Look
<1>5. ChannelTypeOK'
  <2>1. polled' \in [Channels -> BOOLEAN]
    BY <1>3 DEF IInv, ChannelTypeOK, Look
  <2>2. \/ irq' = NoIrq
        \/ /\ irq' \in Irqs /\ irq'.shifts <= irq'.at
           /\ irq'.step = "settle" => irq'.at \in irq'.channels
    BY <1>4
  <2> QED  BY <2>1, <2>2 DEF IInv, ChannelTypeOK, Look, hardware, marks
<1>6. ASSUME NEW d \in Channels
      PROVE  Timing(d)' /\ Followed(d)' /\ Told(d)'
  <2>1. Timing(d) /\ Followed(d) /\ Told(d) /\ ChannelTypeOK
    BY DEF IInv
  <2>2. /\ UNCHANGED <<pc, cmd, errors, waiting, woken, timer, result>>
        /\ UNCHANGED <<outstanding, pending, status, outcome, crossed, skewed>>
    BY DEF Look, hardware, marks
  <2>3. Timing(d)'
    BY <2>1, <2>2 DEF Timing
  <2>4. InIrq(d)' => InIrq(d) /\ irq'.status = irq.status /\ irq'.failed = irq.failed
    BY <1>1, <1>2, <1>3, <1>4 DEF InIrq
  <2>5. Due(d)' => Due(d)
    BY <2>2, <2>4 DEF Due, InIrq
  <2>6. Followed(d)'
    <3>1. NotSent(d) => NotSent(d)'
      BY <2>2, <2>5 DEF NotSent, Started, Unsettled
    <3>2. Sent(d) => Sent(d)'
      BY <2>2, <2>4 DEF Sent, Started, Unsettled
    <3>3. Finished(d) => Finished(d)'
      BY <2>2, <2>4 DEF Finished, Started, Unsettled
    <3>4. Seen(d) => Seen(d)' \/ Settled(d)'
      BY <2>2, <2>4 DEF Seen, Settled, Started, Unsettled, Due, InIrq
    <3>5. Settled(d) => Settled(d)'
      BY <2>2, <2>5 DEF Settled, Started
    <3> QED  BY <2>1, <2>2, <3>1, <3>2, <3>3, <3>4, <3>5 DEF Followed
  <2>7. Told(d)'
    BY <2>1, <2>2, <2>5 DEF Told, Last
  <2> QED  BY <2>3, <2>6, <2>7
<1> QED  BY <1>5, <1>6 DEF IInv

(***************************************************************************)
(* The handler settles the command of a channel.  With a failure among the *)
(* interrupts it writes the status bits it has come to; without one it     *)
(* writes SSD_OK only when none of the channels has failed.                *)
(***************************************************************************)
LEMMA SettleKeeps ==
  ASSUME IInv, Settle
  PROVE  IInv'
<1>1. NChannels \in Nat \ {0} /\ \A d : d \in Channels <=> d \in Int /\ 0 <= d /\ d < NChannels
  BY ChannelAssumption DEF Channels
<1>2. irq \in Irqs /\ irq.shifts <= irq.at /\ irq.step = "settle" /\ irq.at \in irq.channels
  BY DEF IInv, ChannelTypeOK, Settle, NoIrq
<1>3. /\ irq.at \in Channels /\ irq.shifts \in Nat /\ irq.channels \subseteq Channels
      /\ irq.failed \in BOOLEAN /\ irq.status \in [Channels -> Results]
  BY <1>2 DEF Irqs
<1>4. irq.shifts \in Channels /\ StatusBits(irq.at) \in Results
  BY <1>1, <1>2, <1>3 DEF StatusBits
<1>5. \/ /\ irq' = NoIrq
         /\ irq.at = NChannels - 1
      \/ /\ irq' \in Irqs /\ irq'.step = "look" /\ irq'.at = irq.at + 1
         /\ irq'.shifts <= irq'.at /\ irq'.channels = irq.channels
         /\ irq'.failed = irq.failed /\ irq'.status = irq.status
  <2>1. CASE irq.at = NChannels - 1
    BY <2>1 DEF Settle, NextChannel
  <2>2. CASE irq.at # NChannels - 1
    <3>1. irq' = [irq EXCEPT !.step = "look", !.at = @ + 1, !.shifts = @ + 1]
      BY <2>2 DEF Settle, NextChannel
    <3>2. irq.at + 1 \in Channels /\ irq.shifts + 1 \in Nat /\ irq.shifts + 1 <= irq.at + 1
      BY <1>1, <1>2, <1>3, <2>2
    <3> QED  BY <1>2, <3>1, <3>2 DEF Irqs
  <2> QED  BY <2>1, <2>2
<1>6. ChannelTypeOK'
  <2>1. /\ timer' \in [Channels -> [set : BOOLEAN, pending : BOOLEAN]]
        /\ errors' \in [Channels -> Errors]
    <3>1. timer' = [timer EXCEPT ![irq.at] = [set |-> FALSE, pending |-> FALSE]]
      BY DEF Settle
    <3>2. \/ errors' = [errors EXCEPT ![irq.at] = StatusBits(irq.at)]
          \/ errors' = [errors EXCEPT ![irq.at] = ssd_delete_timer(irq.at)]
      BY DEF Settle
    <3>3. StatusBits(irq.at) \in Errors /\ ssd_delete_timer(irq.at) \in Errors
      BY <1>4 DEF ssd_delete_timer, Errors, Results
    <3>4. /\ timer \in [Channels -> [set : BOOLEAN, pending : BOOLEAN]]
          /\ errors \in [Channels -> Errors]
      BY DEF IInv, ChannelTypeOK
    <3>5. timer' \in [Channels -> [set : BOOLEAN, pending : BOOLEAN]]
      BY <3>1, <3>4
    <3>6. errors' \in [Channels -> Errors]
      BY <3>2, <3>3, <3>4
    <3> QED  BY <3>5, <3>6
  <2>2. /\ woken' \in [Channels -> BOOLEAN]
        /\ waiting' \in [Channels -> BOOLEAN]
    BY <1>3, ZenonT(40) DEF IInv, ChannelTypeOK, Settle, Complete
  <2>3. skewed' \in [Channels -> BOOLEAN]
    BY <1>3 DEF IInv, ChannelTypeOK, Settle
  <2>4. \/ irq' = NoIrq
        \/ /\ irq' \in Irqs /\ irq'.shifts <= irq'.at
           /\ irq'.step = "settle" => irq'.at \in irq'.channels
    BY <1>5
  <2> QED  BY <2>1, <2>2, <2>3, <2>4 DEF IInv, ChannelTypeOK, Settle, hardware
<1>7. ASSUME NEW d \in Channels
      PROVE  Timing(d)' /\ Followed(d)' /\ Told(d)'
  <2>1. Timing(d) /\ Followed(d) /\ Told(d) /\ ChannelTypeOK
    BY DEF IInv
  <2>2. UNCHANGED <<pc, cmd, polled, outstanding, pending, status, outcome, result, crossed>>
    BY DEF Settle, hardware
  <2>3. InIrq(d)' => InIrq(d) /\ d # irq.at /\ irq'.status = irq.status /\ irq'.failed = irq.failed
    BY <1>1, <1>2, <1>3, <1>5 DEF InIrq, NoIrq
  <2>4. Due(d)' => Due(d)
    BY <2>2, <2>3 DEF Due, InIrq
  <2>5. CASE d # irq.at
    <3>1. UNCHANGED <<timer[d], errors[d], woken[d], waiting[d], skewed[d]>>
      BY <1>3, <2>1, <2>5 DEF Settle, Complete, ChannelTypeOK
    <3>2. InIrq(d)' <=> InIrq(d)
      BY <1>1, <1>2, <1>3, <1>5, <2>3, <2>5 DEF InIrq, NoIrq
    <3>3. Due(d)' <=> Due(d)
      BY <2>2, <3>2 DEF Due, InIrq
    <3>4. Followed(d)'
      BY <2>1, <2>2, <2>3, <3>1, <3>2, <3>3
         DEF Followed, NotSent, Sent, Finished, Seen, Settled, Started, Unsettled
    <3>5. Timing(d)' /\ Told(d)'
      BY <2>1, <2>2, <3>1, <3>3 DEF Timing, Told, Last
    <3> QED  BY <3>4, <3>5
  <2>6. CASE d = irq.at
    <3>1. InIrq(d) /\ ~InIrq(d)' /\ Due(d)
      BY <1>1, <1>2, <1>3, <2>3, <2>6 DEF InIrq, Due
    <3>2. errors'[d] \in {"SSD_OK", "error", "SSD_ERR_DEL_TIMER"} /\ ~timer'[d].pending
      BY <1>3, <1>4, <2>1, <2>6 DEF Settle, ChannelTypeOK, ssd_delete_timer, Results
    <3>3. Timing(d)'
      BY <1>3, <2>1, <2>2, <2>6, <3>2 DEF Settle, Complete, Timing, ChannelTypeOK
    <3>4. Seen(d) => Settled(d)'
      <4>1. SUFFICES ASSUME Seen(d), errors'[d] = "SSD_OK", ~skewed'[d]
                     PROVE  outcome[d] = "SSD_OK"
        BY <2>2, <3>1 DEF Seen, Settled, Started, Due, InIrq
      <4>2. CASE irq.failed
        <5>1. errors'[d] = irq.status[irq.shifts] /\ skewed'[d] = (irq.shifts # d)
          BY <2>1, <2>6, <4>2 DEF Settle, StatusBits, ChannelTypeOK
        <5> QED  BY <4>1, <5>1 DEF Seen
      <4>3. CASE ~irq.failed
        BY <4>1, <4>3 DEF Seen
      <4> QED  BY <4>2, <4>3
    <3>5. Followed(d)'
      BY <2>1, <2>2, <3>1, <3>4 DEF Followed, NotSent, Sent, Finished, Settled
    <3>6. Told(d)'
      BY <2>1, <2>2, <3>1 DEF Told, Last
    <3> QED  BY <3>3, <3>5, <3>6
  <2> QED  BY <2>5, <2>6
<1> QED  BY <1>6, <1>7 DEF IInv

(***************************************************************************)
(* Every step keeps the invariant.                                         *)
(***************************************************************************)
LEMMA NextKeeps ==
  ASSUME IInv, [Next]_vars
  PROVE  IInv'
<1>1. Kinds \subseteq {"flash", "ram"}
  BY ChannelAssumption
<1>2. ASSUME NEW c \in Channels, channel_op(c)
      PROVE  IInv'
  BY <1>2, ArmKeeps, IssueKeeps, PollKeeps, PublishKeeps, WakeKeeps, ReturnKeeps DEF channel_op
<1>3. CASE UNCHANGED vars
  BY <1>3 DEF IInv, ChannelTypeOK, Timing, Followed, NotSent, Sent, Finished, Seen, Settled, Started,
              Unsettled, Told, Last, Due, InIrq, vars, ctl, hardware, marks
<1> QED  BY <1>1, <1>2, <1>3, BeginKeeps, TimeoutKeeps, FinishKeeps, InterruptKeeps, LookKeeps,
            SettleKeeps DEF Next

(***************************************************************************)
(* A flash command that returns SSD_OK has been carried out unless the     *)
(* marks say that it crossed an older one or got the bits of another       *)
(* channel, and SSD_ERR_WAIT never reaches a caller: Honest holds of       *)
(* channel_op, ssd_timeout and ssd_interrupt for any number of channels    *)
(* and commands.                                                           *)
(***************************************************************************)
THEOREM HonestHolds == Spec => []Honest
<1>1. Init => IInv
  BY InitKeeps
<1>2. IInv /\ [Next]_vars => IInv'
  BY NextKeeps
<1>3. IInv => Honest
  BY DEF IInv, Told, Last, Honest
<1> QED  BY <1>1, <1>2, <1>3, PTL DEF Spec
=============================================================================
