------------------------------ MODULE CardSetup ------------------------------
(***************************************************************************)
(* ssdSingleDeal.py, the service that turns an SSD of another vendor into  *)
(* a card of ours on a host (new firmware, FPGA, driver, erase counts).    *)
(* An operator calls its operations, over RPC with ssdRpcClient.py or on   *)
(* the host, one after the other, again after a failure and in any order.  *)
(*                                                                         *)
(* An operation is a list of commands.  A command may fail; whether that   *)
(* is noticed depends on what it writes to its standard output, which is   *)
(* all cmdRun reads.  The restarts that operations order come between two  *)
(* commands.  External: the tools, the kernel and the card.                *)
(***************************************************************************)
EXTENDS Integers, Sequences

CONSTANTS
  MaxOps,         \* bound: operations called
  MaxCardFaults   \* bound: commands that fail

VARIABLES
  operation, cmds,    \* operation called last since the host is up, and the commands it has left
  reply,       \* of operation: an error number, "lost", or "pending" while it runs
  files,       \* what there is of the tools in toolsDir
  table,       \* erase_table_huawei: "absent", "good" or "empty"
  card,        \* firmware: "huawei" or "baidu"
  counts,      \* erase counts the firmware has: "own", "unset", "partly", "set", "wrong"
  module,      \* ssd_drv loaded: "none", "old", "ne" (of op_tools) or "new"
  installed,   \* ssd_drv in /lib/modules: "none", "old" or "new"
  boot,        \* rc.local loads it
  restart,     \* "no", "now" or "soon"
  kernel,      \* another kernel is the one to start
  ops, faulty, \* operations called, commands that failed
  inUse,     \* history: rmmod was refused in this operation
  reread       \* history: the erase counts were read from a card of ours

cardVars == <<operation, cmds, reply, files, table, card, counts, module, installed, boot, restart, kernel,
              ops, faulty, inUse, reread>>
host    == <<module, installed, boot, restart, kernel>>
data    == <<files, table, card, counts, reread>>

-----------------------------------------------------------------------------
(***************************************************************************)
(* The operations.  The answer is the error of the first command that must *)
(* leave the host as it is to be, and does not.                            *)
(***************************************************************************)
Do(c)      == <<[cmd |-> c, err |-> "ignored"]>>
Need(c, e) == <<[cmd |-> c, err |-> e]>>
Without(fs, c) == IF fs \subseteq files THEN <<>> ELSE c

checkDevice      == Need("device", "ERRINSMOD")
loadSsdDriver    == Do("rmmod") \o Need("install", "ERRNOFILE") \o Do("modprobe")
                    \o Need("module_loaded", "ERRINSMOD") \o checkDevice
insmodSsdDriver  == Do("rmmod")
                    \o IF "ssd_drv_ko" \in files
                       THEN Do("insmod") \o Need("module_loaded", "ERRINSMOD") \o checkDevice
                       ELSE loadSsdDriver
downLoads        == Need("download", "ERRDOWN")
readEc_unchecked == Do("ecinfo")
readEc           == Do("ecinfo") \o Need("table_good", "ERRGETEC")
getEcFromHuawei  == Without({"flash_tools"}, Do("download")) \o readEc
cfgFlash         == Without({"flash_tools", "bridge", "controller"}, downLoads)
                    \o readEc \o Do("firmware") \o Do("init_6")
setEcToBaidu     == Need("table_there", "ERRGETEC") \o Need("mark", "ERRSETEC")
\* the driver is chosen when the last step is reached: nothing changes the files before
checkFlash       == Need("lspci", "ERRPCI")
                    \o Do("rmmod") \o Do("insmod_ne") \o Need("module_loaded", "ERRINSMOD") \o checkDevice
                    \o Need("cfg_s6", "ERRS6") \o Need("v5_version", "ERRV5V") \o Need("v5", "ERRV5")
                    \o Do("open_newcard") \o Do("rmmod") \o insmodSsdDriver
                    \o Need("init_newcard", "ERRNEWCARD") \o setEcToBaidu
\* without a driver insmodSsdDriver loads it once more before; its answer is not used
depMod           == (IF "ssd_drv_ko" \in files THEN Do("install") ELSE Do("rmmod") \o Do("install"))
                    \o Do("rc_local") \o Do("rmmod") \o Do("modprobe")
\* insmodSsdDriver gets 'ssd_drv' for the directory, where no driver is
checkSsd         == Do("rmmod") \o loadSsdDriver \o Need("check", "ERRCHECK")
changeKernel     == Need("wget_kernel", "ERRCHK") \o Do("shutdown")

opCall == [chkernel |-> changeKernel, loadssd |-> loadSsdDriver, cfgflash |-> cfgFlash,
           pretools |-> downLoads, chkflash |-> checkFlash, insmod |-> insmodSsdDriver,
           depmod |-> depMod, checkssd |-> checkSsd, getec |-> getEcFromHuawei,
           setec |-> setEcToBaidu]

CardInit ==
  /\ operation = "none" /\ cmds = <<>> /\ reply = "pending"
  /\ files = {} /\ table = "absent" /\ card = "huawei" /\ counts = "own"
  /\ installed \in {"none", "old"} /\ module \in {"none", installed}
  /\ boot = FALSE /\ restart = "no" /\ kernel = FALSE /\ ops = 0 /\ faulty = 0 /\ inUse = FALSE /\ reread = FALSE

\* one answer to the client, which forgets the host only when it is NOERR
rpcCall(o) ==
  /\ cmds = <<>> /\ ops < MaxOps /\ ops' = ops + 1
  /\ operation' = o /\ cmds' = opCall[o] /\ reply' = "pending" /\ inUse' = FALSE
  /\ UNCHANGED <<data, host, faulty>>

-----------------------------------------------------------------------------
Now(c)  == cmds # <<>> /\ Head(cmds).cmd = c
Then(cs) == cmds' = cs \o Tail(cmds) /\ reply' = IF cmds' = <<>> THEN "NOERR" ELSE "pending"
Stop(e)  == cmds' = <<>> /\ reply' = e
After(good) == IF good \/ Head(cmds).err = "ignored" THEN Then(<<>>) ELSE Stop(Head(cmds).err)
Works    == UNCHANGED faulty
Fails    == faulty < MaxCardFaults /\ faulty' = faulty + 1
WorksOrNot(good) == IF good THEN Works ELSE Fails
Same     == UNCHANGED <<operation, ops>>

\* rmmod says on its standard error that the module is in use
rmmod ==
  /\ Now("rmmod")
  /\ \/ module' = "none" /\ Works /\ UNCHANGED inUse
     \/ module # "none" /\ Fails /\ inUse' = TRUE /\ UNCHANGED module
  /\ Then(<<>>) /\ Same /\ UNCHANGED <<data, installed, boot, restart, kernel>>

\* nothing is loaded beside a module that is there
load(c, driver) ==
  /\ Now(c)
  /\ \/ module' = (IF module = "none" THEN driver ELSE module) /\ Works
     \/ module = "none" /\ module' = "none" /\ Fails
  /\ Then(<<>>) /\ Same /\ UNCHANGED <<data, installed, boot, restart, kernel, inUse>>
Loads == \/ load("insmod", "new") \/ load("modprobe", installed)
         \/ load("insmod_ne", IF "op_tools" \in files THEN "ne" ELSE "none")

\* the driver is fetched again, and copied to /lib/modules
install(good) ==
  /\ Now("install") /\ WorksOrNot(good) /\ After(good)
  /\ installed' = IF good THEN "new" ELSE installed
  /\ Same /\ UNCHANGED <<data, module, boot, restart, kernel, inUse>>

rc_local == /\ Now("rc_local") /\ boot' = TRUE /\ Then(<<>>)
            /\ Same /\ Works /\ UNCHANGED <<data, module, installed, restart, kernel, inUse>>

\* files are fetched in this order, and unpacked when all are there
downLoads_cmd ==
  /\ Now("download")
  /\ \/ /\ files' = {"flash_tools", "bridge", "controller", "op_tools", "ssd_drv_ko"}
        /\ Works /\ After(TRUE)
     \/ /\ files' \in {files, files \cup {"bridge"}, files \cup {"bridge", "controller"}}
        /\ Fails /\ After(FALSE)
  /\ Same /\ UNCHANGED <<table, card, counts, reread, host, inUse>>

(***************************************************************************)
(* The shell makes the file empty before ssd_ecinfo runs, which finds no   *)
(* card of the other vendor when the card is ours.                         *)
(***************************************************************************)
ssd_ecinfo(good) ==
  /\ Now("ecinfo") /\ WorksOrNot(good) /\ Then(<<>>)
  /\ table'  = IF "flash_tools" \notin files THEN table
               ELSE IF good /\ card = "huawei" THEN "good" ELSE "empty"
  /\ reread' = (reread \/ card = "baidu")
  /\ Same /\ UNCHANGED <<files, card, counts, host, inUse>>

\* bridge and controller are moved to the tools first
ssd_firmware(good) ==
  /\ Now("firmware") /\ WorksOrNot(good) /\ Then(<<>>)
  /\ files' = files \ {"bridge", "controller"}
  /\ IF good /\ card = "huawei" THEN card' = "baidu" /\ counts' = "unset" ELSE UNCHANGED <<card, counts>>
  /\ Same /\ UNCHANGED <<table, reread, host, inUse>>

Orders(c, when) ==
  /\ Now(c) /\ restart' = when /\ Then(<<>>) /\ kernel' = (kernel \/ c = "shutdown")
  /\ Same /\ Works /\ UNCHANGED <<data, module, installed, boot, inUse>>

\* what only looks at the host
Looks(c, holds) ==
  /\ Now(c) /\ After(holds) /\ Same /\ Works /\ UNCHANGED <<data, host, inUse>>
Checks == \/ Looks("module_loaded", module # "none") \/ Looks("table_good", table = "good")
          \/ Looks("lspci", card = "baidu")    \/ Looks("table_there", table # "absent")

\* what needs the card, and fails alone
Tries(c, good) ==
  /\ Now(c) /\ WorksOrNot(good) /\ After(good) /\ Same /\ UNCHANGED <<data, host, inUse>>
Attempts(good) == \/ Tries("wget_kernel", good) \/ Tries("device", good) \/ Tries("cfg_s6", good)
                  \/ Tries("init_newcard", good) \/ Tries("check", good)

\* a wrong version, or an FPGA that did not start, asks for a restart
v5(c, good) ==
  /\ Now(c) /\ WorksOrNot(good) /\ After(good)
  /\ restart' = IF good THEN restart ELSE "now"
  /\ Same /\ UNCHANGED <<data, module, installed, boot, kernel, inUse>>

(***************************************************************************)
(* open_newcard, and reloadS6 twice when it fails.                         *)
(***************************************************************************)
open_newcard_reloadS6 ==
  /\ Now("open_newcard")
  /\ \/ Works /\ Then(<<>>) /\ UNCHANGED restart
     \/ Fails /\ Then(<<>>) /\ UNCHANGED restart                     \* reloadS6 helps
     \/ Fails /\ Stop("ERRS6") /\ UNCHANGED restart
     \/ Fails /\ \E e \in {"ERRV5", "ERRS6", "ERRNEWCARD"} : Stop(e) /\ restart' = "now"
  /\ Same /\ UNCHANGED <<data, module, installed, boot, kernel, inUse>>

(***************************************************************************)
(* ssd_mark_erase_count.  Without a card it says "fail"; of a channel that *)
(* fails it says "error".  What the file does not give is not initialised. *)
(* Without the program there is no output at all.                          *)
(***************************************************************************)
setEcToBaidu_mark(good) ==
  /\ Now("mark")
  /\ LET opens == card = "baidu" /\ module # "none"
     IN  IF "op_tools" \notin files THEN Works /\ Then(<<>>) /\ UNCHANGED counts
         ELSE IF ~opens THEN Works /\ After(FALSE) /\ UNCHANGED counts
         ELSE /\ WorksOrNot(good) /\ Then(<<>>)
              /\ counts' = IF table = "empty" THEN "wrong" ELSE IF good THEN "set" ELSE "partly"
  /\ Same /\ UNCHANGED <<files, table, card, reread, host, inUse>>

Commands ==
  \/ rmmod \/ Loads \/ rc_local \/ downLoads_cmd \/ Checks \/ open_newcard_reloadS6
  \/ Orders("init_6", "now") \/ Orders("shutdown", "soon")
  \/ \E good \in BOOLEAN :
       \/ install(good) \/ ssd_ecinfo(good) \/ ssd_firmware(good) \/ setEcToBaidu_mark(good)
       \/ Attempts(good) \/ v5("v5_version", good) \/ v5("v5", good)

(***************************************************************************)
(* The host goes down, in the middle of an operation or before the answer  *)
(* has left, and comes back: another kernel has no driver.                 *)
(***************************************************************************)
Restart ==
  /\ restart # "no" /\ restart' = "no"
  /\ cmds' = <<>> /\ reply' = IF reply = "pending" \/ restart = "now" THEN "lost" ELSE reply
  /\ installed' = (IF kernel THEN "none" ELSE installed) /\ kernel' = FALSE
  /\ module' = (IF boot THEN installed' ELSE "none")
  /\ operation' = "none"
  /\ UNCHANGED <<data, boot, ops, faulty, inUse>>

CardSteps == Commands \/ \E o \in DOMAIN opCall : rpcCall(o)

-----------------------------------------------------------------------------
(***************************************************************************)
(* The erase counts of the other vendor are lost with its firmware: when   *)
(* the card is ours and has no counts yet, the table is there and complete *)
(* unless somebody has asked the flashed card for them.                    *)
(***************************************************************************)
FlashedWithTable == card = "baidu" /\ counts = "unset" /\ ~reread => table = "good"

(***************************************************************************)
(* chkflash without an error leaves a card that is ready: the new driver   *)
(* is loaded, unless the old one was in use, and the counts are set but    *)
(* for channels whose marking has failed.                                  *)
(***************************************************************************)
ReadyMeansSet ==
  operation = "chkflash" /\ reply = "NOERR" /\ ~reread =>
    /\ inUse \/ module = "new"
    /\ counts = "set" \/ (counts = "partly" /\ faulty > 0)

(***************************************************************************)
(* The way of a card from one firmware to the other keeps its erase counts *)
(* safe, and its end is what chkflash says it is.                          *)
(***************************************************************************)
CountsCarriedOver == FlashedWithTable /\ ReadyMeansSet

=============================================================================
