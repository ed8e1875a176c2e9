# Verification of python_tools

TLA+ models, TLC runs and TLAPS proofs for the parts of this repository that
have logic of their own. Paths are relative to `src/`.

## The system

The repository is a collection. Its parts do not call each other.

| Part | State | Operations | Interaction |
|---|---|---|---|
| Test framework `automation/automation` | lock files of accounts, tenants and networks of test classes, tokens, states polled | set-up and tear-down of classes, REST calls with authentication, waiting loops | test processes share the account directory and the cloud |
| Long tests `automation/long_run_tests.py`, `network_test.py`, `compute_test.py` | ids of what a case has built, the cloud behind them | build, look, take down, over and over | requests to OpenStack that fail, get lost or are refused |
| Review upload `fpga_ssd_backup/api/upload.py` | cookie, `issue.info`, folder `cooder` | one run: diff, login, issue, base files, comments | a review server; five version control systems |
| Card setup `fpga_ssd_backup/tools/ssd_op` | firmware, erase counts, driver, boot scripts of a host | RPC operations of shell commands | an operator who repeats them; restarts |
| Driver `fpga_ssd_backup/driver` | per channel: id hash table, two free-area bitmaps, `current_free_area`, free count; globally: open flag, metadata, ring positions | open, close, flush, initialise, id requests, mark bad | ioctls; semaphores; interrupts and timers complete channel operations |
| Library `fpga_ssd_backup/api` | its own open flag | `SSD_open`, `SSD_close`, `SSD_write`, ... | calls the driver, retries |

The cloud tests in `automation/testcases` work with the classes `Base`, which list
what a test has made and delete it at its end. The rest (older copies, `pexpect`,
option tables, scratch scripts) is listed in `PROJECT.json` as not modelled, with
the reason.

### What is hard in it

* Test processes take and give back accounts through lock files; a set-up fails
  half way, a process is killed, one request keeps an account under two keys.
* Everything a class or a test case creates must be deleted again, in an order
  the cloud accepts, also after any one call has failed or its answer was lost.
* A call may sleep for rate limits, renew its token, lose its alternative
  authentication, and succeed at the service with an answer the client refuses.
* The fields of a credentials object set one another, are filled in by a token and
  thrown away with it, and are shared by several managers.
* Clean-ups take elements from the lists they go through, catch some exceptions,
  and decide at their end what is raised.
* Twelve waiting loops were written separately, each with another order of
  reading, comparing and looking at the clock.
* What `upload.py` sends as the old side of a file depends on the version control
  system, the change and what it is compared with, and on queries that may fail
  without a word.
* A server of `compute_test.py` is deleted when Nova likes, and its volume only
  after it; the script waits a bounded time and looks at no answer.
* A command of the card setup that fails is seen only if it prints something.
* The allocator of the driver moves blocks between ids, two bitmaps and an
  untouched tail, and rebuilds everything from the id table at open.
* A flush is a long sequence of flash operations with retries along two rings;
  the power can fail between any two of them.
* Open, close and flush test one flag in the library and one in the driver, both
  outside the semaphore; the id table is saved while requests change it.
* `channel_op`, the interrupt handler and the timer race for one completion.

`PROJECT.json` lists these as hazards, each at its line, with the properties
that cover them or the reason why none does.

## Modules

```
AccountPool --+                          (proofs: AccountPool_proofs)
TenantIsolation --> Credentials --+
ApiSchemas --> ServiceCalls --> RestClient --> Framework      MCFramework
                           Waiters --+   (proofs: Framework_proofs)
                         TestBases --+
                  CredentialFields --+

CloudCases --> CloudRun --> VmMul --+
ComputeTest ------------------------+--> Scripts              MCScripts
VcsFiles --> ReviewUpload ----------+    (proofs: Scripts_proofs)
CardSetup --------------------------+

BlockMaps --> IdStore --refines--> BlockStore                 MCIdStore
    |            (proofs: BlockMaps_proofs, IdStore_proofs)
    +------> AreaScan --> CardParts                           MCCardParts
CardSession ----------------+   (proofs: CardParts_proofs)    MCCardSession
FlushMeta                       (proofs: FlushMeta_proofs)    MCFlushMeta
ChannelOp                       (proofs: ChannelOp_proofs)    MCChannelOp
```

### The test framework

**AccountPool** is class `Accounts` of `common/accounts.py` with the part of
`testcases/test.py` that drives it. `lock` holds the writer of each lock file,
`isolated_creds` the dictionary of each process' provider. A process asks for the
sets of its class one after the other (`get_cached_creds` when the key is there,
else `_get_creds` and `_wrap_creds_with_network`) and gives them back in any
order. Creating and removing lock files are single steps, because they run under
the external lock `test_accounts_io`; everything else interleaves. `Crash` kills
a process. `doubled`, `leaked` are history.

**TenantIsolation** is `IsolatedCreds`: projects, users, availability zones,
networks, subnets and routers made for one class as administrator, with a fault
at any call, before or after it has had its effect. **Credentials** is the choice
between the two by `allow_tenant_isolation`.

**ApiSchemas** and **ServiceCalls** are tables: what each schema file demands of
an answer, and for each method of each service client its verb, the codes it
takes for a success and what it does with the body. **RestClient** runs a call of
any of these methods: token cache, renewal and scope (`auth.py`), choice of the
endpoint, alternative authentication, the classes of answers
(`_error_checker`), the repetition after a rate limit, `expected_success`,
`validate_response` and the wrapping of the body. Which method it is is decided
when the answer is there, since nothing before depends on it.

**CredentialFields** looks inside the credentials that `RestClient` knows by their
project only. `initial` is the dictionary in the order of its keys, `credentials`
the fields, `tokenOf` the token of each manager made from the object.
`SetWith` says which fields `__setattr__` of `KeystoneV3Credentials` sets together;
the constructor, `reset` and `_fill_credentials` are folds of it. The identity
service finds users and projects by id or by name and domain, so a wrong domain
shows as a token for somebody else. `issued`, `lastRequest` and `undone` are history.

**TestBases** is the clean-up of the cloud tests: fifteen test cases by what they
make, tie together and delete, and the loops of `delete_all` and
`resource_cleanup`, turn by turn, over `inLists`. Going through a list while taking
elements out of it is modelled by the index the loop keeps (`AfterDeletion`);
`Caught` says which exceptions each loop stops, `EndsVolumes` and its like what
`delete_all` decides when a loop is over. `onCloud`, `holdsOn` and `going` are
the cloud.

**Waiters** has every waiting loop as the list of its steps (read, look for the
target, for an error, at the clock, sleep) and runs one of them against a
resource that changes at any time.

**Framework** joins the five. They share no state but the cached token, at which
`RestClient` and `CredentialFields` each look on their own, so one of them runs in a
behaviour; `looked` says which.

### The scripts

**CloudCases** lists the test cases of `long_run_tests.py` and `network_test.py`
as sequences of requests; **CloudRun** executes them: the dictionary of ids, the
exception handlers, the polling loops, `clear_env`, the token. Of the cloud only
what can refuse a request is modelled: who holds on to what. **VmMul** is the
case that builds many machines: an endless pool in `long_run_tests.py`, rounds in
`network_test.py`, with a quota.

**ComputeTest** is `compute_test.py`: a program of steps per round, the status of
the server as Nova moves it, and the global ids `clean_env` works on. The deletion
of a server is a promise (`deleting`) that Nova keeps when it likes, or breaks
(`Nova_deletes`); until then its volume is in use. `clean_env` polls for it
(`volume_free`, lines 682-688) and then asks Cinder whatever it saw
(`delete_volume`), which refuses while the server is there; the answer is not
looked at.

**VcsFiles** is what `GenerateDiff`, `GetStatus` and `GetBaseFile` make of every
kind of change for Subversion, Git and Mercurial. CVS and Perforce end before
they come to a file: `cvs diff` exits with 1 when there are differences, which
`RunShell` takes for a failure, and Perforce reads options that the parser does
not define. In any run queries to the version control system may fail
(`failing`, `QueryFails`): where the code looks at the exit status the script ends,
but `svn list` then gives an empty listing (lines 1442-1443), and `svn propget` no
type. **ReviewUpload** is a run of the script from `RealMain` to the traces
it leaves, repeated by the user. One of its two files may be larger than
`MAX_UPLOAD_SIZE`: its patch is passed over (`UploadSeparatePatches_too_large`), its
contents are sent empty, with a message either way (`told`). `issue.info` may keep
its old number, or become empty, without one (`writeIssueInfo`, `unsaved`).

**CardSetup** has each RPC operation of `ssdSingleDeal.py` as a list of commands;
a command may fail, and whether that is noticed depends on its standard output.
Operations come in any order, restarts between two commands.

**Scripts** runs one of these programs in a behaviour (`program`); they share nothing.

### The driver

**BlockMaps** is the arithmetic of one channel: the extent of an index block (1
block) and of a data block (`DSize` blocks), and the runs a left-to-right scan
cuts a free set into. A bitmap of the driver is the set of its zero bits;
`fab[DBLOCK]` has one bit per run, at its start.

**IdStore** is one channel. `hash` is the id hash table, `fabI`/`fabD` the two
bitmaps, `current` is `current_free_area`, `free` the count in the device,
`stat` the copy shown in `/proc`, `flash` the contents of the logical blocks,
`saved` the id table of the last close flush, `reply` the code of the last
request. There is one action per request. The channel semaphore is held over a
whole id request, so a request is one step; `id2channel` fixes the channel of an
id and channels share none of this state, so one channel is enough. A failed
program operation leaves each block of the extent erased or dirty, a failed erase
leaves it erased, dirty or as it was; that is the only assumption on the flash,
apart from a successful operation doing what it says. Id requests are enabled
only while the card is open, as the library demands.

**BlockStore** is what the card promises: a map from ids to `absent`, `data` or
`unsure` (listed, but a failed delete may have destroyed it).

**AreaScan** runs the loops of `bitmap_merge` and `ssd_reload_bitmap` one
iteration per step, from every bitmap, and shows that they compute the closed
form `Runs` that `IdStore` uses.

**CardSession** is one card between open and close, with the library on top:
`lib` and `opened` are the two flags, `slab` and `hash` the nodes in memory,
`sema` is `flush_sema` with its queue, `saved` what the newest flush has left on
flash (its kind and its list of ids), `th` where each caller is. A caller passes
the test of the library, the tests of the driver, `down`, the copy of the table,
the writing, the flag and the freeing of the slab in separate steps; a write or
delete enters with its channel and ends in a second step. To use a slab after it
was freed goes well, or the caller dies there (`Dies`). `told` is what the
callers know of an id, `overlap` the ids whose requests ran while the card was
being closed, `marks` what has gone wrong. How a flush reaches the flash is
`FlushMeta`'s, which blocks an id has is `IdStore`'s. **CardParts** joins it with
`AreaScan`, whose loops every open runs: one of the two is looked at in a behaviour.

**FlushMeta** is the flush and the metadata search. `pages` is the metadata ring
by block, plane and page; `table` the two copies of the table ring; `meta` and
`metaPos` the metadata and the ring position in memory; `flush` the progress of
the flush that holds `flush_sema`. One step writes one table block with its
duplicate, or one plane of a metadata page. Any step can fail. `Crash` is a power
failure; `acked` is the last flush that returned `SSD_OK`. `ssd_read_flush` may
come at any time; it reads a copy in the first plane (of another plane it would
shift the ring position as well).

**ChannelOp** is how one command reaches the card and its result comes back:
`channel_op` in the process that holds the channel semaphore, `ssd_timeout` and
`ssd_interrupt`, which serves all channels of a chip. Each access of `channel_op`
to shared state is a step; the handler visits the channels one after the other in
two steps each, so a timer can go off in between. Finer races, such as two
processors inside `if (waiting) complete(waiting)`, are below this grain.
`IdStore` and `FlushMeta` take a channel operation as a whole.

## Runs

| Run | Instance | Shows |
|---|---|---|
| `framework` | 2 processes, 3 accounts (1 administrator), 3 classes, 1 fault, 1 crash; 2 processes with tenants of their own, 2 failing calls; one client, 2 projects, tokens of 3 or 5 half minutes; every method and body; every loop; 15 test cases with 1 fault; 5 sets of options and 15 dictionaries of credentials in every order of their keys, 2 domains, 2 users, 2 projects, 2 managers | see below |
| `credentials_twice` | the same | violates `Exclusive` |
| `scripts` | 2 faults, 2 polls per loop, pool of 2, quota 4, 2 rounds; 2 rounds of `compute_test.py` with 2 faults and a Nova of any speed; 2 uploads with 1 failing request, query or write; 4 card operations with 1 fault | see below |
| `data` | 5 blocks, data blocks of 2, 2 ids | `Partition`, `FreeCount`, `UniqueIds`, `RefusalsJustified`, `FreeNotLive`, refinement `StoreSpec` |
| `flush_ring` | 2 metadata blocks of 2 planes and 2 pages, 8 table positions, 6 flushes, 2 faults, 1 crash | `Recoverable`, `VersionIdentifies` |
| `flush_faults` | 3 metadata blocks of 3 planes, 2 flushes of 1 or 2 table blocks, 3 faults, 1 read of an old version | `Recoverable` |
| `flush_crash` | 5 flushes, no fault, 1 crash | violates `OpensLatest` |
| `card` | all bitmaps of 11 blocks, data blocks of 3; 2 threads, 1 tool, 1 id, 5 calls, 2 attempts, 1 fault, 1 crash | `ClosedForm`, `KeptAsTold`, `CanBeOpened`, `LibraryFollows`, `OneFlush`, `CallsEnd` |
| `session_twice` | 2 threads, no tool, no fault, no crash | violates `CloseKeepsIds` |
| `chan_op` | 2 channels, 3 commands of either kind | `Honest`, `Returns` |
| `chan_late` | 1 channel, 2 flash commands | violates `OkIsTrue` |
| `chan_skew` | 2 channels, 2 commands | violates `OwnStatus` |

`framework` checks

* `LockedWhileUsed`: an account in use is locked by its user, unless a dictionary
  has kept it under two keys (the finding); `LocksAccounted`: every lock file has
  an owner who still knows of it, or is one of those known to leak; `FrameEnds`:
  an account that is held comes back, a call ends, a wait ends, and so does a test
  with its clean-up.
* `CleanExit`: a class without a failed call leaves nothing (`NothingLeft`), one
  failed call never leaves network resources of a deleted project (`NoOrphan`); `ZoneHasHosts`:
  a tenant's zone has the hosts, unless two processes made a zone each.
* `WellAddressed`, `ScopeStays`: requests leave with a token that lives long
  enough, for the right project and region; `AlteredUnlessRetried`: a call with
  somebody else's token is done under the own name only after a repetition.
* `DoneIsReported`: what a service did is done once and reported as a success, by
  every method. Two kinds of methods are excepted because they do fail:
  `list_tenant_usages` takes the first of a list that may be empty
  (`tenant_usages_client.py:33`), and `startup_host`, `shutdown_host`,
  `reboot_host` make a dictionary of the host's name (`hosts_client.py:65-81`),
  which raises after the host was started, stopped or rebooted.
* `Timeouts`: a loop that gives up was right to: the time was up, and the state
  was not there a round before.
* `TidiesUp`: a test case that ends without an exception leaves nothing but what a
  lost answer hides, and for a class the volumes whose deletion failed, since
  `resource_cleanup` raises nothing (`QuietIsClean`); what the loops jump over is at
  most the neighbour of something they asked for (`OneOfTwoAsked`); nothing is refused
  because a later loop comes too late, unless that was jumped over, asked for before
  or unknown (`OrderIsRight`).
* `FieldsHold`: all tokens of one object, of any manager and at any time, are for one
  user and one scope (`SameIdentity`): the domains that go with the names may be
  wrong after a fill, but the request prefers the id; `is_valid` lets only
  credentials through that name a user and a project without ambiguity
  (`RequestIsComplete`); a manager with a token finds its ids in the fields, unless
  another manager has reset them (`FilledWithToken`); a value that was given stays,
  unless the same thing was given by two names (`GivenIsKept`, `Overruled`).

`scripts` checks

* `SuccessIsClean`, `LeftBehind`, `NoRefusal`: a case that reports success leaves
  nothing; the dictionaries know all that exists but for a short list of named
  exceptions (the router's interface, the TCP rules of `create_Networkenv`, the
  rule and policy whose keys `testcase_fw` overwrites); without a fault the cloud
  never has to refuse a deletion.
* `PoolIsUsable`, `KeptOrEmpty`: the machines of the pool are usable, a failure
  costs at most one, and the rounds end with an empty tenant or with the machines
  somebody should look at.
* `RoundsCleanUp`: each round of `compute_test.py` asks for the deletion of
  everything older whose id it had, unless a poll failed before, and never of the
  shared address (`OldIsAsked`). When nothing failed there remain only servers that
  Nova is still deleting and the volumes of servers that outlasted every poll
  (`GoodRounds`). Those volumes stay for good: nobody asks again.
* `BaseIsOld`: the old side of each file is the old file, but for the listed
  cases in which the code sends an empty one (`OldSideRight`). One of them is silent:
  when the old listing of a folder fails, every file of it that was edited is sent
  as a new one. Another contradicts the comment at `upload.py:1493-1496`, by which the
  original of a copied file must be uploaded: for what Subversion 1.6 calls `A +` the
  base is empty, and a warning is printed (line 1499).
* `UserCanTell`: what a run leaves at the server is known here, unless an answer was
  lost, separate patches failed or `issue.info` could not be written (`IssueKnown`),
  and a run that ends well has sent all, warned, or named what is too large
  (`CompleteOrWarned`). `CommentsOnce`: comments are not posted twice unless an answer
  was lost or the removal of the results failed.
* `CountsCarriedOver`: a card is flashed only with its erase counts safe
  (`FlashedWithTable`), and a good answer of `chkflash` means that the card is
  ready (`ReadyMeansSet`).
* `ScriptsEnd`: every program ends, or waits in one of the two unbounded loops.

`card` checks

* `ClosedForm`: the two scan loops compute what `IdStore` uses.
* `KeptAsTold`: ids that were written are on the card and deleted ones are not,
  through any number of sessions, but for ids whose requests ran while the card
  was being closed, and for three marks: a flush that ended after the close or the
  next open (`late`), a crash that nobody notices (`unnoticed`), the use of a freed
  slab (`oops`).
* `CanBeOpened`: a closed card can be opened, unless it crashed after a flush, a
  flush came late or a new card was never finished.
* `LibraryFollows`: the library believes in an open card only if there is one,
  unless a tool has closed it or `SSD_open` has forgotten its failures.
* `OneFlush`: flushes exclude each other; `CallsEnd`: the scan loops end, and every
  call returns, whatever fails, unless the semaphore was made anew under it or a
  caller died (`CallsReturn`).

*Bounds.* Two processes and three accounts make processes wait for each other's
accounts; three classes are the fewest with which an account is lost, taken by
another and used by both; the lists of classes hold every kind of request,
repeated and with `force_new`. One fault and one crash reach every failure
branch; the second failing call of `TenantIsolation` shows why `NoOrphan` asks
for fewer than two. Tokens of 3 and 5 half minutes expire within a call that
sleeps; the retry depth is the code's. A build timeout of two seconds with an
interval of one gives each loop several rounds and cuts off half seconds. Two
polls are one that goes on and the last one, so a server can be gone before the
first, between them, or after both; two faults let a failure be followed
by a failing clean-up. One fault of an upload is enough for each of the queries,
writes and requests to be the one that fails, and a second run finds what it left.
`KindsAgain` allows that second run for text files only: once the files are read
(`GetBaseFiles`) no step asks for their kind. Four card operations let a fresh card have its counts read, be flashed and set up,
and one of them be repeated.

Five blocks with two ids hold two data runs and an odd block: splits, merges, a
full channel, a tail too short for a data block occur; the proofs lift the bound.
`DataView` leaves out `stat`, which no other variable depends on; the ids are
interchangeable, hence the symmetry. The ring runs use three planes of which two
must succeed instead of four and three, two tries instead of three and five, and
rings just large enough that they come round. Three commands let the interrupt of
one arrive during the next and the one after it; two channels are enough for a
shift to be missed between them. In `card` five calls are an open, a write, two
closes and another open; two attempts are one that goes on and the last one. Ids
are told apart by nothing but their channel, so one is enough; one thread opens,
because opening from many is among the tests in `systest/src/nopass`. Five
flushes bring a ring of two blocks of two pages round. `FlushView` hides table positions that no
metadata names. `CHECK_DEADLOCK FALSE` is set where the modelled program or the
bound on calls ends the behaviour.

One fault of a test case reaches every branch of its clean-up, which has an
`UnboundLocalError` and time-outs without any; every list is as long as the longest
test makes it. Users and projects of both domains have the same name, so that only the
domain tells them apart; the dictionaries are those of the code and the combinations an accounts
file may have, none with more than six keys; two managers are enough for one to
reset the other's fields.

*Fairness.* A process of tests that is inside a class, a call, a loop and a test case go on:
they are threads of a running program, and a request ends with an answer or an
error; nobody has to begin a class or a call, a killed process need not come back, and
nothing is asked of the cloud. The scripts' own steps go on for the same reason
(`ProgramSteps`); what the cloud, the user, the host and the operator do
(`OtherSteps`) is left to them. In `card` the loop runs on one processor and
waits for nothing, every thread inside a call is scheduled and a channel operation ends
by its time-out, so a step that is possible for ever is taken; nobody has to call.
What the cloud deletes slowly may stay for ever (`DeletionDone` has no fairness), since
the loops of the clean-ups look at the clock.
In `chan_op` the process inside `channel_op` is scheduled and
a timer that was set goes off; nothing is asked of the hardware, and the wait
itself ends by its time-out of 8000 jiffies, which is longer than the five
seconds of the timer.

### Findings

* `credentials_twice`: `get_creds_by_roles` says that an earlier entry is moved,
  but copies it. When the new allocation raises, the class ends with one account
  under two keys, and `clear_isolated_creds` removes its lock file twice; the
  second may be the lock of another process, whose account is then handed out
  again.
* `flush_crash`: the planes of a re-used metadata block are erased one after the
  other. After a power failure in between, the block is chosen by the new first
  page of one plane, and the page search, which compares no versions, finds an
  old page in another plane. The next open works on a flush from the previous
  trip round the ring.
* `session_twice`: `ssd_sys_flush` tests the flag before `down(&flush_sema)`. The
  second of two threads that close waits, then saves the table the first has
  emptied, as a normal close. The tests `test_close_multi.c` and
  `test_close_write_read_delete_multi.c` close from many threads and do not look
  at the ids afterwards.
* `chan_late`: the handler knows a timed-out command by `SSD_ERR_TIMEOUT` in
  `errors`, which the next command overwrites. A late interrupt then completes
  that next command, which returns `SSD_OK` before the hardware has done it.
* `chan_skew`: in the failure branch of the handler, `continue` for a polled or
  timed-out channel skips the shift of the status word, and the channels after it
  are judged by other channels' bits.

`Honest` says that `chan_late` and `chan_skew` are the only ways for a failed
flash command to look like a success. A failed command on the RAM tables returns
`SSD_OK` as well, because line 403 stores 0 for it without reading its bits; no
property asks for the truth of these results.

`Recoverable` says that an acknowledged flush is lost only with one of four marks
on the ring: pages of two trips in one block (`Mixed`, the finding), two blocks
whose first pages claim one version after a retry (`Twins`), a block whose first
page failed in every plane (`Headless`), and a block that looks older than another
by its first page although one of its later pages is not (`Overtaken`). It is claimed, and
checked, for fewer failures in a row than it takes to come round one of the rings:
failed flushes move along both, and enough of them after an acknowledged one erase
it. `VersionIdentifies` needs no such limit.

Weaknesses visible in one place are named as exceptions inside the properties,
with the line, rather than as findings: besides those above, the zones two
processes make (`raced`), what a lost answer leaves (`lost`), the empty base files
of `OldSideRight` and the changes in `Hopeless`, an `issue.info` that was not written
(`unsaved`, `upload.py:3309`), the volumes whose servers are slow to go (`slow`,
`compute_test.py:682`), the failures `SSD_open` forgets
because `cfg_s6_times` overwrites `ret` (`forgotten`, `ssd_api.c:194`), a crash
before the first flush of a session, which the next open does not see because
opening writes nothing (`unnoticed`, `ssd_drv.c:3141`), and `ssd_read_flush`, which
puts an old version and its place into `sdev->meta` and `sdev->meta_pos`, where the
next flush goes on (`sure`, `ssd_drv.c:2561`). One more is only in the model and in
no property: `_parse_resp` cuts off the only key of a body before
`is_absolute_limit` looks for `overLimit`, so a rate limit of the usual form is
raised as an absolute one and not repeated (`rest_client.py:763`).

In the clean-ups of the test cases every loop of `delete_all` calls a method that takes
the id out of the list the loop goes through, so Python jumps over the next one
(`JumpedOver`, `network_tests/base.py:342-432`): `_check_delete_list` finds them at the
end of `test_securitygroup.py` and `test_accessibility_between_networks.py` although no
request has failed. `except exceptions` names a module and catches nothing
(`base_compute.py:95`), and the end of `delete_all` logs `e`, which has a value only
after an earlier exception (`EndsVolumes`, `volume_tests/base.py:445`). Of the fields of
credentials, a domain and a user's domain given together end as whichever key of the
dictionary comes later (`Overruled`, `auth.py:532`); filling in `domain_name` sets a
`user_domain_name` that had been given, although only "the credentials fields that were
not specified" are to be filled (`auth.py:387`, `505`); and the domain of the project,
filled in first, becomes that of the user (`auth.py:378`). Later requests are for the
right user all the same, which is `SameIdentity`.

## Proofs

Checked by TLAPS for all values of the constants that satisfy the named
assumptions.

| Module | Theorem | States |
|---|---|---|
| `AccountPool_proofs` | `LockedWhileUsedHolds` | `PoolSpec => []LockedWhileUsed` |
| | `LocksAccountedHolds` | `PoolSpec => []LocksAccounted` |
| `Framework_proofs` | `WellAddressedHolds` | `RestSpec => []WellAddressed` |
| | `AlteredUnlessRetriedHolds` | `RestSpec => []AlteredUnlessRetried` |
| | `DoneIsReportedHolds` | `RestSpec => []DoneIsReported` |
| | `ScopeStaysHolds` | `RestSpec => ScopeStays` |
| | `FrameworkImplementsPool` | `FrameSpec => PoolSpec` |
| | `FrameworkImplementsRestClient` | `FrameSpec => RestSpec` |
| | `TimeoutsHold` | `FrameSpec => []Timeouts` |
| | `CleanExitHolds` | `FrameSpec => []CleanExit` |
| | `ZoneHasHostsHolds` | `FrameSpec => []ZoneHasHosts` |
| `Scripts_proofs` | `UserCanTellHolds` | `ScriptsSpec => []UserCanTell` |
| | `BaseIsOldHolds` | `ScriptsSpec => []BaseIsOld` |
| | `CommentsOnceHolds` | `ScriptsSpec => []CommentsOnce` |
| | `CountsCarriedOverHolds` | `ScriptsSpec => []CountsCarriedOver` |
| | `RoundsCleanUpHolds` | `ScriptsSpec => []RoundsCleanUp` |
| | `PoolIsUsableHolds` | `ScriptsSpec => []PoolIsUsable` |
| | `SuccessIsCleanHolds` | `ScriptsSpec => []SuccessIsClean` |
| | `LeftBehindHolds` | `ScriptsSpec => []LeftBehind` |
| `CardParts_proofs` | `LibraryFollowsHolds` | `SessionSpec => []LibraryFollows` |
| | `OneFlushHolds` | `SessionSpec => []OneFlush` |
| | `CanBeOpenedHolds` | `SessionSpec => []CanBeOpened` |
| | `KeptAsToldHolds` | `SessionSpec => []KeptAsTold` |
| | `SessionHolds` | `PartsSpec => []` of these four |
| | `ClosedFormHolds` | `PartsSpec => []ClosedForm` |
| `IdStore_proofs` | `TypeCorrect` | `Spec => []TypeOK` |
| | `PartitionHolds` | `Spec => []Partition` |
| | `UniqueIdsHolds` | `Spec => []UniqueIds` |
| | `FreeCountHolds` | `Spec => []FreeCount` |
| | `FreeNotLiveHolds` | `Spec => []FreeNotLive` |
| | `RefusalsJustifiedHolds` | `Spec => []RefusalsJustified` |
| | `ImplementsBlockStore` | `Spec => StoreSpec` |
| `FlushMeta_proofs` | `VersionIdentifiesHolds` | `Spec => []VersionIdentifies` |
| `ChannelOp_proofs` | `HonestHolds` | `Spec => []Honest` |

*Account pool*, from `PoolAssumption`. `LockedWhileUsed` is not inductive: an
entry that is in a dictionary twice would be given back twice. `PoolInv` adds that
each account is in a dictionary once (`Distinct`), except for the entry about to
be overwritten while a new account is being wrapped (`Staying`), that what is
being given back is still locked by its owner, that `free_hash` is set in exactly
one place, and that no directory means no lock. `MovedDistinct` is the heart: once
the entry under the old key is overwritten, the copy is the only one left.
`AccountInv`, for `LocksAccounted`, adds that an entry about to be overwritten has
a copy under another key (`NoneLost`). That needs finite dictionaries: the index
of the copy is the size of the dictionary, so it is never the first one.

*REST client*, from `RestAssumption`. `RestInv` adds what each phase of a call has
ready: in `decorate` a token that outlives the longest answer (`Fresh`), because
`Latency < token_expiry_threshold`; credentials that name the project of the
cached token, if it has one (`Filled`), so that a renewal asks for the same; and
the whereabouts of an altered authentication (`Altered`), which the first request
uses up and which the services refuse, so that nothing was done.
`RightRegion` is the choice of the endpoint for every catalog.
For `DoneIsReported` the table of service methods is cut into shapes: a method with a
schema reads the body exactly when its success codes come with one, and what it wraps
is what its schema requires (`Fits`, `WellMatched`). One lemma per client shows that its
methods fit, `ProperAnswerReported` that a method that fits takes a proper answer for a
success whatever the error checker and the parser look at first. `DoneOnce` carries
that through the phases of a call: until it is over nothing was done, since only a
refused request is repeated (`raw_requestKeepsDone`). `Framework_proofs`
shows that the composition changes neither part, so both hold of `FrameSpec`.

*Waiting loops*, from `WaitAssumption`: a time-out is a number of whole seconds (it
is an `IntOpt`), because the loops compare it with `int(time.time())`. `WaitInv` has
a conjunct for each kind of loop that says, step by step, how much of the time-out
is used up and what the last reading says of the moment it was taken. `LoopSteps`
computes the steps of each loop from its sequence once, so that the rest of the
proof sees steps and not sequences.

*Credentials per class*, from no assumption. A process works on its own tenants
only, so `CleanInv` is one conjunct per process (`OwnInv`), and `OtherWork` shows
that the work of one leaves the conjuncts of all others alone. `Reachable` is what
`NoOrphan` needs before the end: what the network requests made still has its
project, and an entry of the dictionary by which it will be deleted. `KnownTenants`
does the same for `NothingLeft` and everything that exists. `ClearedWhatWasMade` ties
the two halves of the class together: what `_create_network_resources` makes for any
settings is among what `_clear_isolated_net_resources` deletes for them. `ZoneInv`:
as long as nobody made a zone beside another one there is at most one, it has the
hosts, and whoever has looked has seen none or that one.

*Review upload*, from no assumption. `UploadAlone` shows that the other programs
leave it alone. `UploadInv`, for `UserCanTell`, says for each step which issue is
being filled (`Numbered`), what of the change it has by then (`Sent`, with `Reached`
for the step of a patch or a base), and what each way to end leaves behind (`Ends`).
For `BaseIsOld` the steps matter only in that no query fails after the files were
read: `OldSides` goes through the three systems, every kind of change and every set
of failing queries. `CommentsOnce` counts comments over all issues: `SumOf` is
a recursive function, so `SumExists` first builds the function it chooses by its
first counterexample, and `SumsDiffer` says what one more comment does to it.

*Session*, from `SessionAssumption`. No property is inductive.
`Mutex` adds that a holder has taken the only token and that whoever is in the
queue waits and is there once, so that handing the semaphore over makes one holder
of one (`UpKeeps`). It holds until a flush is marked as late: `init_MUTEX` in
`Load` would break it. `CloseTold` adds that a thread on its way to close has
cleared the flag of the library before (`CloseRequest`); it needs `Mutex`, since
`up` moves another thread. `HistoryInv`, for `KeptAsTold` and `CanBeOpened`, relates
the four places an id can be in: `TableMatches` (the table in memory), `CopyMatches`
(the copy a flush has taken), `FlashMatches` (the metadata a close has written) and
what the callers were told. An id with a request under way is exempt while it is,
and for good if a close may have missed the request (`LateListed`); `Erasing` keeps a
deletion from being told as absent before its block is erased; `Loading` says that
who opens is alone with the table. `CloseMade` is the same kind of relation for the
magic number: only a close writes its own, and only after the flag was cleared.

*Scans*, from `SizesAssumption`. `ScanInv` carries the closed form through the loop:
in the first pass the runs found are the greedy runs in front of `start`
(`DataPass`), in the second the left-over blocks in front of it (`IndexPass`), the
bitmap is what they leave, and the count is what they add up to. The step is
`NextRun`: the first area of `DSize` zeros in what is left is the next greedy run of
the original bitmap, because a place where a data block fits and that no run reaches
into starts a run (`FitsBetweenRuns`).

*Channel*, from `SizesAssumption` and `ContentsAssumption`. `IInv` joins the
types, `Partition`, `UniqueIds` and the bounds of the maps: a run in `fabD` must
fit below `current`, otherwise a split could free a block beyond the tail, and the
saved table must be sound, otherwise a re-open could not build a partition. Every
way `ssd_alloc_logic_block` takes returns an extent that was free and leaves a
tiling with that extent in nobody's hands (`AllocSound`); giving such an extent to
a node or back to a map restores the tiling (`GiveToNode`, `GiveToMap`), taking
one from a node opens it again (`TakeFromNode`). For a re-open, the runs of the
scan are disjoint (`RunsApart`) and fit below the last used block, and the
pre-allocated areas fit behind it (`ReloadSound`). `FreeCount` needs in addition
that disjoint runs cover `DSize` blocks each (`CoveredCount`), so that the scan's
count is the number of holes (`ReloadCount`). `FreeNotLive` is a property of each
way an extent becomes free: erased, torn by a failed operation or never written.
`RefusalsJustified` follows from the allocator's own searches and from `Partition`:
what is in no map and behind `current` is free, and a run of free blocks that the
allocator cannot see crosses `current`. For `ImplementsBlockStore` every action maps
to the request of the store it serves or to a stutter; the refinement needs
`UniqueIds` (an id names one extent) and `Partition` (a write or an erase touches no
block of another id).

*Flush*, from `FlushAssumption`. The counter of versions lives in memory and is
reloaded from the page an open finds, so `VersionIdentifies` rests on what the search
finds: the newest page, if the ring is orderly (`SearchFindsNewest`). `Numbered` adds
that no page is newer than the counter while the card is open, and that during a
write only copies of the current metadata have its number.

*Channel operation*, from `ChannelAssumption`. `Followed`
tells where the last command of a channel is, if nothing older was due as it began:
not sent, with the hardware, in the pending bits, in the hands of the handler, or
settled; each of these fixes what may be outstanding. `Timing` ties the waiting
process to the timer, and `Told` keeps a result true once it was returned.

*Card setup*, from no assumption. In the list of no operation does the firmware stand
but directly behind the test that the table of erase counts is good
(`OperationsGuarded`), and a command takes itself off the list, drops all of it, or
puts others before it that are no firmware; so `TableInv` keeps the table good from
that test until somebody reads the counts again. For `chkflash`, `CheckInv` tells from
the number of commands left how far the driver is: which one is installed, which is in
the kernel, and whether a failure is already in the reply (`CheckFlashLaidOut`).

*Compute test*, from `ComputeAssumption`. The program of a round is put together from
its parts once (`ProgramLaidOut`): which step makes the volume, the server and the
address, and where cleaning begins, is all the rest needs (`Places`). `RoundInv` says for
each kind how what the round has made is known: by a global id until `clean_env` comes to
it, and afterwards because its deletion was asked for or its id was lost
(`ServerKnown`, `VolumeKnown`, `AddressKnown`); for rounds without a fault
(`NoFault`), which kinds are gone, or promised to be, after each step of `clean_env`:
the server of the round is being deleted as long as it exists, and its volume is
marked as `slow` or has no server when its deletion is asked for (`VolumeFree`,
`ServerDeleted`).

*Pool of machines*, from `MulAssumption`. `MulAlone` leaves of the rest of the script
that it may fail. `PoolInv`: every machine of the pool is active and in it once, and
the one at hand is not in it (`PoolType`); each place of the test case has its length of
the pool, its status of the machine at hand, and, while one is used, the machine
created last at the head (`Stage`), so that the wrong variable in the code names a
machine of the pool all the same. `Few` counts the machines that are neither in the
pool nor at hand (`Astray`): a failure adds one (`OneLost`), nothing else does
(`NoneLost`).

*Cloud cases*, from `RunAssumption` and `MulAssumption`. Neither property is inductive:
what a case leaves behind is decided by what its dictionaries held when it began to
clear. The command lists are laid out first: every step of every case is of one of six
kinds (`StepKinds`): it records what it creates under the name that belongs to the key
(`OwnName`, `MinorName`), overwrites a key of `testcase_fw` (`Renews`), creates something
without a key, deletes the rule of `testcase_securitygroup` or what `testcase_fw` has
replaced, or touches nothing. `CloudInv` then says of a case that runs that it knows what
it was told of and has lost nothing (`Trying`; also where in `testcase_fw` the old rule
and policy are gone, and that the interface comes after subnet and router, by whose keys
`clear_env` finds it); of one that clears, that whatever is left is recorded under a key
`clear_env` has yet to come to (`Clearing`, `Due`, with the place of each key in
`DeletedAt`), for `env_minor` before `env`; of one that is over, that nothing is due any
more (`Cleared`), or the environment was to be kept and an exception ended the clearing.
A case on its way to True carries that it lost nothing and deleted what it replaced
(`Complete`). `Raises` follows an exception along each of its ways. The case of
`testcase_vm_mul_create_delete` starts behind `create_Networkenv` and enters the run
again only to clear the network (`AfterSetup`, `MachinesMade`). For the provers a step
without a key has the key `"none"`.

What the attempts to prove these showed about the model, and what was changed for
it: the orders of pages that excuse a lost flush were too few (`Overtaken`, and
`Mixed` for pages of any plane); an answer of the cloud may describe a state that
has passed when it arrives, which `NothingMissed` has to allow for; a binding of a
tenant replaces an earlier one (`bind`); and where the code tests one condition after
another, the alternatives of a `CASE` overlapped, which leaves the choice open
(`_error_checker`, `svn_GetStatus`, `git_status`): they are `IF` and `ELSE` now.

Only model-checked: `FieldsHold`, because the fields are what a fold over the keys of
a dictionary computes; `TidiesUp`, which comes from the loops and lists of the single test cases; `Recoverable`, whose proof would need
a bound that relates the failures since the last acknowledged flush to the sizes of
both rings; `NoRefusal`, which needs for every prefix of every case who holds on to what,
and `KeptOrEmpty`, which needs `NoRefusal` of the network and a count of what the lists of
`network_test.py` hold. Liveness under fairness (`FrameEnds`, `ScriptsEnd`,
`CallsEnd`, `Returns`) is out of the prover's reach, and so is what
recursive functions compute for every input.

## Not modelled

* Driver: the erase-count tables and bad-block marks; PCI, DMA, `/proc` and
  request queue glue; the close of a module that is removed; opening by two threads
  at once. `set_id_info` is assumed to get its memory. `ssd_remap_block` has no
  caller, and the driver has no `IOCTL_RECOVER_OPEN` for `SSD_recover_open`.
  `CardSession` takes a failed flush as one that leaves the flash as it was;
  what it can leave is `FlushMeta`'s.
* Library: reading, the walk over all ids, usage, tables and check sums change no
  state; a closed descriptor that another thread still uses is not modelled.
* Test framework: `NotLockingAccounts`, ssh, matchers, generators, image streaming
  and the option tables keep no state or only format. What the test cases verify of
  the cloud is left out, and of the hosts they enter in the monitoring system and
  never remove only the call. The empty string as a field of credentials is not told
  from `None`. Types and formats of single values in the schemas, urls and
  parameters of the calls are abstracted.
* Upload: option parsing, guessing of the version control system, mime types
  beyond text, image and binary, the review of a post-commit hook. No property is
  about mail: `/upload` sends it before the patches and contents
  (`upload.py:3254` says otherwise), so the reviewers may be told of an issue that
  is not complete.
* Failures that change nothing for the properties: lost answers to `VmMul`'s
  creations; a body that is not read, or read earlier, before a status is refused
  (`rest_client.py:755`, `network_client.py:45-47`), which only changes the exception;
  the `Default` domain of a token request without one (`token_client.py:154-160`);
  what `opCall` catches in `ssdSingleDeal.py`, and its `cp` that fails unseen
  (lines 248-249). `EraseRank` orders the erasures of a new card by planes over the
  whole ring, as the loop over one channel does for the ring sizes of the runs.
* The copies of `upload.py`, `pexpect.py`, the older drivers, and scripts of a few
  lines.
