# A specification of the automation stack monitor

The monitor (`src/src/`) asks the devices of a laboratory for a sign of life:
every few minutes it sends ARP requests to the addresses that a MySQL database
lists, listens for the replies, and writes to the database who answered and who
did not. This directory models it in TLA+, checks the models with TLC and proves
the most important results with TLAPS.

## The system

| Component | State | Operations | Where |
|---|---|---|---|
| Main loop | `devices`, `num_devices`, the loop counters, `start_time` | read the devices, normal and aggressive rounds, drop who answered, report, reset, sleep | `main.c:160-331` |
| Sending thread, one per round | its index into the array | `arp_send()` to each address | `main.c:232-246`, `arp/arp_send.c` |
| Receiving thread | one frame buffer, a raw socket | receive until a reply, enter it into the table | `arp/arp_recv.c` |
| Shared table | `ips_to_macs`, `mux` | enter an answer, copy the keys, report, reset | `shared.c` |
| Registry | `ip_ids` (address to `device_id`) | refill from the database | `monitor_db_api.c:49-131` |
| Statistics | the table `device_stats` in the database | read the last row of a device; update it or insert a new one | `monitor_db_api.c:154-270` |
| Database access | a connection and a result bucket per query | query, add a bucket, remove it | `database/` |
| Start-up | the configuration map, the settings | parse, assert, defaults | `main.c:56-152`, `database/sql_interface_layer.c:27-39` |
| Service unit | | restart on any exit | `automation_stack_monitor.service` |

The threads interact through `ips_to_macs` alone, which the receiver fills while
the main thread copies its keys, reports it and replaces it, always under `mux`.
The main thread waits for the sender (`pthread_join`) and for the database while
it holds `mux`. Every failure of a system call in either thread is an `exit()` of
the process; failures of queries are not noticed by anyone.

What is hard here:

* the list of devices and the table of answers are looked at in different
  critical sections, while answers keep coming (late, unasked, twice);
* the verdict on a device depends on two nested retry loops, a timeout for each;
* the history of a device is continued from what an earlier poll wrote, with
  failed reads, lost writes, crashes in the middle of a report and restarts;
* a pointer to a result is used whether or not the query brought one;
* differences of times are converted to unsigned, and taken from a wall clock;
* what is probed is what an answer of the database, possibly of an earlier cycle,
  has left in a map that rows may overwrite;
* a bad configuration is noticed late, and by a process that is started again.

What makes each part correct: the main loop judges every device, calls only those
unresponsive that were asked in all the rounds, and never those that answered in
time; the receiver enters replies and only replies, in order; the statistics are
a run-length code of the verdicts; query results are used while they exist and
given back; the sleeps keep the clock; the registry stands for the last answer
with devices; a repaired configuration takes effect. `PROJECT.json` lists the hazards with
their lines and the properties aimed at them.

## The modules

| Module | What it models | Checked by | Proofs |
|---|---|---|---|
| `PollContract` | abstract: what a poll promises | | |
| `ProbeCycle` | the main, sending and receiving threads, the network, exit and restart | `MCProbeCycle` | `MonitorProofs`, its first part |
| `DeviceStats` | `update_device_stats()` over many polls and restarts | `MCDeviceStats` | `DeviceStatsProofs` |
| `SharedTable` | `shared.c`, one access at a time, with the memory of the MACs | itself | `SharedTableProofs` |
| `Monitor` | `ProbeCycle` and `DeviceStats` composed: a verdict from the request to its row | `MCMonitor` | `MonitorProofs` |
| `RegistryContract` | abstract: the last answer that had rows, and whom a cycle judges by it | | |
| `Registry` | `ip_ids`: `get_devices_to_probe()`, and whom a verdict is about | `MCRegistry` | `RegistryProofs` |
| `Settings` | the configuration file, start-up, the service unit | `MCSettings` | `SettingsProofs` |
| `CycleClock` | the sleeps of `main()` and `poll()`, and the settings they depend on | `MCCycleClock` | `CycleClockProofs` |
| `SqlSession` | result buckets and connections, failing queries, the pointers of their callers | itself | `SqlSessionProofs` |
| `AnswerStream` | abstract: what listening, and the table, promise | | |
| `ArpLink` | `start_send_loop()`, `arp_send()`, `arp_recv()` and the socket between them | `MCArpLink` | `ArpLinkProofs` |

The operators with the comment "a mutation" are mistakes that a property of the
module notices; no specification uses them.

### ProbeCycle

One action per step of `main()`: `GetDevices` (`get_devices_to_probe()`),
`StartRound`, `Send(d)`, `JoinSender`, `SleepRound` and `UpdateDevices` (the body
of `poll()`), `PollAggressively`, `EndPolling`, the report as `LockReport`,
`ReportUp(d)`, `ReportUnresponsive`, `ReportDown(d)`, `UnlockReport`, then
`ResetProbe` and `SleepCycle`. `Reply(d)` is any host, at any time; `Receive(d)`
the receiving thread; `Exit` and `Restart` the process and its service unit.
`mux` is a variable because the report holds it across many steps; the other
critical sections neither block nor call out, and are one step each. The socket
is the set `wire`: replies overtake each other and collapse, which the table, a
map, would do as well.

Time is abstract. `Wake[d]` says from which request of a cycle on a device
answers before the round's timeout, and `SleepRound` waits until those who have to
have answered (`owed`). A device with `Wake[d]` beyond the last request is under
no obligation: it may answer never, late or always. That a round lasts its timeout at
all is what `CycleClock` shows. As a constraint on the environment this says
that a timeout is long enough for a device that is awake, and no more.

* `EveryDeviceJudged`, `DownOnlyAfterAllProbes`, `AwakeDevicesAreUp`,
  `NoNeedlessProbe` are the promises above; `OnlyConfigured` says that after an
  answer with devices nobody else is asked or judged; `CycleEnds` is their liveness;
  `KeepsContract` says that `PollContract` is implemented, a poll being open from
  `get_devices_to_probe()` to the end of the report.
* `IInv` adds to them what makes them inductive: where the loops stand
  (`LoopsInRange`), that a device is on the list, in the table, or reported
  (`Accounted`), that all listed devices have been sent the same number of
  requests (`Requests`) and were asleep when the last one was sent (`Asleep`),
  and in which order verdicts are given (`Verdicts`).

### DeviceStats

The rows of each device, and beside them the sequence of verdicts that reached
the database (`seen`). `StartReport` takes any outcome of the polls that
`ProbeCycle`'s `Accounted` allows at the location `report`: each device in the
table, on the list, or on both. `Store` is what one turn of either loop does to
the database, with the choice of statement that `get_last_stat_for_device()` leads to
(`Written`), a write that may be lost, and a read that may fail; `Record` is the
whole turn. A failed read leaves the caller with whatever its stack held;
`SqlSession` shows that it goes unnoticed only by finding an empty bucket, so it
is a `row_count` of 0 here or the end of the process. The read and the write of a
device are one step as no other program step touches the table and a crash between
them has the effect of a crash before the read. Devices whose rows were once
misread (`misread`) are exempt from the properties on the shape of the history: an
extra first row is what the code then writes. Polls are counted: that rows are in
the order of their times presumes that the clock is not set back between two polls.

`HistoryIsRunLengthCoded` is the point of the two statements, INSERT when the
verdict changes and UPDATE when it does not: row k has the verdict of the k-th run
of equal verdicts, and the time of its last one.

### Monitor

`Monitor` extends `ProbeCycle` with the variables of `DeviceStats` and lets each
turn of the loops of the report be both: `RecordUp(d)` is `ReportUp(d)` and
`Stats!Store(d, TRUE, ...)`. `Stats` is an instance of `DeviceStats` in which the
location, the map, the list and the loop are those of the cycle. It closes the gap
that two separate modules leave:

* `KeepsStats`: all that `DeviceStats` assumes of a poll (above all, that each device
  is in the table or on the list when the report begins) is what the threads leave,
  wherever answers, exits and restarts fall. The property is its
  `Init /\ [][Next]_vars` under that mapping.
* `FailuresWereProbed`, `AwakeDevicesOnRecord`: a failure row of this poll was paid for
  with every request, and the last row of an awake device is a success of this
  poll, unless its write was lost. `AwakeDevicesGetRecorded` is the liveness from the
  request to the row.

### Registry

The map `ip_ids` entry by entry, from the text of the column `ip` to the block of a
copied id: `Query` (`get_ip_ids_for_query()`), `FreeId(t)` and `NewMap`
(`free_ip_ids()`, `init_ip_ids()`), `Put(b)`, `EndFill`, `GetKeys`
(`get_devices_to_probe()`), then the cycle as one step `Report`, in which the
hosts that answer are heard under their dotted quads (`Heard`). Rows may share a
text; texts may be names. `ProbeCycle` identifies a device with its address; this
module says when that is right. It is not for a device that the database knows by a
name, or by an unusual form of its address: that one is asked, and never found to have
answered.

* `VerdictsAreOfLastRows`: a cycle judges exactly the devices of the last row of
  each text in the last answer that had rows. Two devices with one text: one is
  judged. An empty answer: those of the answer before.
* `JudgesByLastAnswer`: all of this implements `RegistryContract`, which has neither
  entries nor a heap. An answer counts as loaded when it comes, though the map is then
  emptied and filled row by row; asking a null pointer for its keys is possible only
  when there was no answer. This is why one step `GetDevices` does in `ProbeCycle`.
* `NullOnlyBeforeDevices`: the null pointer is read only by a process that was
  never given a device.
* `EntriesAreLive`, `OnlyTakenOverIdsLeak`: ids are neither freed twice nor read
  after it, and lost only where two rows have one text.

### Settings

The file, which may be edited at any time; `CheckArguments`, `ParseConfFile`,
`SetupCredentials`, `SetGlobalConstants` (`main()` before its loop); the two
parameters that are looked at when they are needed, `GetDevices` (`SQLDB`) and
`SendRequests` (`INTERFACE`); `Reload`, `Restart`, `GiveUp` (the unit; the last is
systemd's start limit, which counts the starts and not the time here). Every
process that ends is restarted, with whatever status. Of a required parameter
only its presence matters. A monitor without `SQLDB` works with wild query results,
so it may crash, or not (`SqlSession` has the detail).

* `ServesWithAllRequired`: though start-up asserts three of five parameters, a
  monitor that sends requests has all five.
* `NothingFreedIsRead`: `get_int_from_config()` frees values that stay in the map.
* `NumbersInForce`, a part of `IInv`: from `set_global_constants()` on, each number is the
  file's where that is positive, and the default otherwise, whatever an earlier process had.
* `RepairsTakeEffect`: a monitor that has ended comes back and works by the file that
  is there now, if it is good, unless the unit was given up.

### SharedTable

The critical sections taken apart: `LockToCopy`, `CopyKey(a)`, `UnlockCopy`
(`get_ips_that_responded()`), `LockToReport`, `TakeMac(a)`, `UseMac`,
`UnlockReport` (`update_db_after_probing()`), `LockToReset`, `ClearKey(a)`,
`UnlockReset` (`reset_probe()`, `clear_ips_to_mac()`) in the main thread;
`Listen`, `LockToEnter`, `FreePrevious`, `Put`, `UnlockEnter` (`arp_recv()`,
`received_mac_for_ip()`) in the receiving one. `entry` maps an address to the
block of its MAC, `heap` says what an allocated block holds. `TakeMac` and `UseMac` are
apart because the report holds the pointer while it waits for three queries.

* `PointersAreLive`, `OneOwner`: memory is neither used after it was freed, nor
  freed twice, nor lost.
* `WalksSeeOneTable`: a copy or a report is of one state of the table.
* `KeepsStream`: an answer takes effect when the entry that it replaces is freed
  (between that and `Put` the map holds a dangling pointer that nobody else
  sees), a reset when it gets the mutex. These two and `WalksSeeOneTable` are why
  `ProbeCycle` and `ArpLink` may take each critical section as one step.

That `jnx_hash_put()` keeps a copy of the key is assumed: `arp_recv()` frees the
address right after it has entered it. The null pointer in `ips_to_macs` exists
before `main()` creates the receiver and inside of `reset_probe()`; the model has
an empty table for it.

### CycleClock

`Config` is what the configuration file sets, as integers; `Retries` and the
other settings are what `set_global_constants()` makes of it, the default for
whatever is missing or not positive.

`time(0)` is the wall clock, which `SetClock` may set ahead or back with every step
that takes time, by up to `MaxShift` seconds a cycle (in the last sleep it would change nothing
that the cycle computes); `sleep()` is not affected by that. `shift` is how far it
is off since the cycle began, `used` how much it was moved in all.

Durations in seconds. `Fetch`, `SendRound` and `Report` take a bounded time,
sleeps end late by at most `Slack`; `nap` is what `sleep()` was called with, the
difference modulo `Wrap`. `Budget` is the condition under which no difference is
negative: a round is sent within its timeout, and all the rounds and queries fit
in `PROBE_TIMEOUT`, with the seconds by which the clock may be set to spare. Then every
period is exact, give or take `used`. The program does not check it, and the run `NextCycleIsNear` shows what
happens without it. The defaults (5 rounds of 10 s, 5 of 5 s, 300 s) leave 225 s
for the database, the late sleeps and the clock.

### SqlSession

The heap as the addresses of live buckets and whether they have rows, the pointer
`report` of `update_device_stats()`, and local pointers as any address or `Wild`.
A query succeeds with a fresh bucket, or fails and leaves the pointer alone;
using one that is not live, or a row that is not there, is `Undefined`, after
which nothing is said. `SqlQuery` is the handle of the connection: closed, except when the
connection is refused. Whether there are rows is a matter of the database: `connected`,
which `Plug(d)` and `Unplug(d)` change between any two queries, decides it for
`GET_DEVICE_IPS` and `GET_DEVICE_INFO`, `known` for `GET_STATS_FOR_DEVICE`. `registry` is
whom the map `ip_ids` has, filled by `GetIpIds` from an answer with rows and kept by one
without; `gone` remembers who was unplugged since.

* `UndefinedHasAReason`: what is used is there, unless the SELECT before has failed or the
  device being reported was unplugged since the map was filled. No removed bucket is used
  again, though `results` dangles for half of each turn of the report; no device of an
  earlier map is asked for; a failed INSERT or UPDATE does no harm. The second
  reason lasts longer than a cycle: an empty answer keeps the map, so when
  the last devices are unplugged, the report of the next cycle reads `rows[0]` of an answer
  that has no rows.
* `LeaksAreKnown` is the whole account: empty buckets of devices without a row, handles of
  refused connections, and nothing else.
* `MisreadsNeedALeak`: a failed read of a device's last row goes unnoticed only if the stale
  pointer happens to be an abandoned bucket that is still allocated and has no rows, which the
  caller takes for a device without history. A failed `GET_DEVICE_INFO` never does.

### ArpLink

The sender's index into its list, the bounded buffer of the listening socket, the frame
buffer and the table. `Traffic` is what the other hosts put on the link; the monitor's own
requests come back to its socket as well. A frame is what it brings to the three places at which
`arp_recv()` looks: its type, its opcode, its sender. A short frame brings the first of them
only, and `Recv` overwrites only these (`Overwritten`): the code compares what `recv()`
returns with 0 and never uses it as a length, so the bytes of the frames before stay behind a
short one. The rest of the loop of `arp_recv()` is `Interrupted` (EINTR clears the buffer)
and `Deliver`.

* `ListensToReplies`: `Stream` maps the replies in the buffers to the `pending` ones of
  `AnswerStream`. It depends on `TrafficAssumption`: frames may be short, but not those of ARP.
  Ethernet pads a frame to 60 bytes, and the code looks at the first 32. On a link where that
  is not so, an ARP frame that ends before its opcode would be taken for a reply after a frame
  that had one in its place, and one that ends behind it would be entered with the sender of an
  earlier frame: without the assumption, and with such a frame in `MCTraffic`, TLC finds that
  `BufferedReply` fails.
* `AnswersArrive`, `AskableGetAsked`: replies that the socket buffered get into the table, and
  all texts of a round up to the first one that `getaddrinfo()` does not resolve are asked.
* `IInv` has what they rest on: what stops the receiving is a whole reply (`BufferedReply`),
  those asked are those before the sender's index (`AskedSoFar`), and with the process its
  socket and its frame are gone (`NothingIsLeft`).

`Replies` is the subsequence of replies of a queue, by the rank of each reply among them, so
that it can be reasoned about.

## The runs

| Run | Bounds | States | Shows |
|---|---|---|---|
| `ProbeCycle` | 3 addresses: one prompt, one that wakes for the last request, one free; 2 + 1 rounds; every subset of them configured | 121,000 | safety, `CycleEnds`, `KeepsContract`, `IInv` |
| `DeviceStats` | 1 device, 2 MACs, 4 polls | 131,000 | the shape of histories; `IInv` |
| `Monitor` | 2 addresses: one that wakes for the last request, one free; 1 + 1 rounds, 1 MAC, 2 polls | 282,000 | the composition, from requests to rows |
| `Registry` | 3 devices, 2 dotted quads and a name of one of them, 4 blocks, answers of up to 3 rows | 468,000 | whom verdicts are about; ids |
| `Settings` | 6 files and a missing one, 3 ways to be called, a start limit of 3, 2 reloads | 5,400 | start-up, repairs |
| `SharedTable` | 2 addresses, one of them a device's, 2 MACs, 3 blocks | 78,000 | memory and atomicity |
| `CycleClock` | 2 x 3 s + 5 x 5 s, the last two by default, in 41 s, which is the whole budget; the clock set by up to 1 s; `Wrap` = 512 | 6,000 | exact rounds and cycles |
| `SqlSession` | 3 addresses, 2 devices, any of them connected and any with rows from before, 1 refused connection | 343,000 | pointers, buckets and handles |
| `ArpLink` | 2 addresses, 2 MACs, a buffer of 2 frames, a list with and one without an unresolvable text; 7 frames of others: 3 replies, a request, and 3 of another protocol, one whole and two short | 24,000 | the receiver implements the stream; who is asked; answers arrive |

`ProbeCycle` has no bound but its constants: the counters are bounded by the
rounds, and cycles and restarts go on for ever. Three addresses are one of each
kind of device, and enough for one to be in each of list, table and wire while
another moves; two normal rounds and one aggressive have a first, a
middle and a last request, and a change of phase that is not at either end.
`Monitor` has one round of each kind and the devices of two kinds: an awake one and one that
is on either list; two polls are one that extends or ends what the other wrote, and one MAC
is enough as `DeviceStats` has two. Four polls of `DeviceStats` have all the runs of verdicts up to length four, so
a run may begin, be extended, end, and be followed by another; the cap is `MaxPolls`,
in the guard of `StartPoll`; the loops of the report over several devices are in `Monitor`.
The MACs are interchangeable there, and so are ids and blocks in `Registry` (`SYMMETRY`; no
liveness is checked under it). `Registry` has two rows of one text with a third
beside or between them, and one block more than an answer has rows, so that a leak shows; when
it has eaten up the blocks, `Put` waits for a restart. `Settings` has one of the three
asserted parameters, which behave alike. The constants of `CycleClock`
meet `Budget` with equality in the sums. `SharedTable` needs a block for each
address and one in the receiver's hand; a leak would use up the third. Two addresses
are one that a walk has passed and one that it has not. The frames of another protocol in
`ArpLink` have the bytes of a reply in its place, those of its opcode only, or none of them,
so that each place of the buffer is overwritten by some and left by others. `SqlSession` has
an address for the bucket in use, one for a leaked one and one that was freed, a device that is
unplugged beside one that is not, and in `MaxRefused` one connection that is refused and costs a
handle among those that are not. It stops when
all addresses have leaked, which is why it runs with `CHECK_DEADLOCK FALSE`.

Type invariants, `RowsAlternate`, `NumbersInForce` and `NullOnlyBeforeDevices` are conjuncts of
the `IInv` of their module. Where the other properties of a run leave out little of it
(`CycleClock`, `SharedTable`, `SqlSession`, `Registry`), `IInv` is not checked a second time
but proved.

### What the program does not do

Three runs end in a counterexample: they check what a comment or a heading says.

* `OneVerdictPerDevice`: a reply between the last `update_devices_to_probe()`
  (`main.c:317`) and the lock of the report (`shared.c:121`) puts its device on
  both printed lists (`monitor_db_api.c:190`, `231`) and into both loops.
* `UpMeansAnswered`: the table is reset before the sleep of a cycle
  (`main.c:210-214`) and filled during it. `heard` is whom the receiving thread has received a
  reply of since that sleep ended; a reply received in the sleep, late or unasked, makes its
  device respond to a cycle in which nothing was heard from it.
* `NextCycleIsNear`: settings whose rounds take longer than `PROBE_TIMEOUT`
  make the next sleep wrap around (`main.c:213-214`).

Other limits of the program are part of properties that hold, with the case as a
condition:

* An empty answer of the database leaves `ip_ids` as it was (`monitor_db_api.c:96`), so
  that devices which are configured no more are asked and judged on
  (`OnlyConfigured` is conditional, `VerdictsAreOfLastRows` speaks of the last answer
  that had rows).
* One address that does not resolve ends the process at the same place after every
  restart (`arp_send.c:179-182`), where `arp.h:61` announces a non-zero return value;
  the devices after it are never asked (`AskableGetAsked` promises it of those before only).
* Of two devices with one ip, one is never judged (`VerdictsAreOfLastRows`).
* A row that `GET_DEVICE_INFO` does not find is read all the same (`UndefinedHasAReason`).
* `SQLDB` and `INTERFACE` are not checked at start-up (`Settings`).
* A refused connection costs a handle, a device without rows a bucket (`LeaksAreKnown`).

Three more are not in any property:

* A device known by a name is printed under "Devices that did not respond during probing
  cycle" (`monitor_db_api.c:231`) even if its host answers: replies are entered under dotted
  quads and looked up under the text of the database.
* `select *` without ORDER BY is taken to return the newest row last
  (`monitor_db_api.c:32`, `169`), and so it does in `DeviceStats`.
* A round that takes longer to send than its timeout sleeps a negative time (`main.c:314-315`);
  `RoundsLastTheirTimeout` holds only within `Budget`, which excludes it.

## Fairness

* Weak fairness of `MainStep`: the main thread is scheduled and its sleeps, joins
  and queries end. (A query that never returns holds `mux` for ever; the code
  sets no timeout, and the model assumes the client library's.)
* Weak fairness of `Receive(d)`: the receiving thread is scheduled, gets the mutex when
  it is free for good, and empties its socket. It needs no strong fairness: the mutex
  is busy during the report only, and no reply has to be received for the report to end.
* Weak fairness of `Reply(d)` while `d` is in `owed`: the definition of an awake device.
* Weak fairness of `Restart`: `Restart=always`.
* `ArpLink`: each thread, and `Restart`. Nothing is assumed about other hosts.
* `Monitor`: the fairness of `ProbeCycle`, whose steps of the main thread now include the
  queries. A failed write ends (with a lost row), and so is a step as well.
* `Settings`: the process runs, and systemd either restarts it or gives it up. Nobody has
  to edit or reload, and a process with wild results does not have to crash, for
  which reason `RepairsTakeEffect` begins with a process that has ended.

`Exit` is never fair and never excluded, so `CycleEnds` ends in `"dead"` too.

## The proofs

All theorems hold for every value of the constants that satisfies the `ASSUME`s of
the module; those say that retries are natural numbers, that a device wakes
at a positive request, that the NULL of a column is not a MAC, that the
configuration has integers and periods are smaller than the range of an unsigned
int, that a dotted quad stands for itself, that the monitor's own address is an address of the
link, that frames of ARP reach at least to the end of their sender (`TrafficAssumption`). `CyclesMakeProgress` also assumes that there are finitely many addresses. That settings are positive is a lemma (`SettingsArePositive`).

* `MonitorProofs`, the cycle: `InitEstablishes`, `Inductive` (one step per action,
  one below it per conjunct that the action can disturb), hence `Invariance ==
  Spec => []IInv`, and from it each safety property. The crux is `Requests` with
  `Asleep`: since all listed devices were asked equally often and were asleep
  before the round, whoever is left after the last round sleeps longer than the
  cycle, and whoever does not is in the table before the report. `Implements ==
  Spec => KeepsContract` is the refinement, step by step under the invariant.
  `LockIsKeptAlways`: the mutex is the main thread's just in the two loops of the report.
  `CyclesMakeProgress` is the safety half of `CycleEnds`: every step of the main thread but
  the first of a cycle lowers a measure in lexicographic order (the rounds left, the steps
  left in the round or the report, the devices left in the loop), and the measure consists of
  natural numbers which neither replies nor receipts change. What remains of `CycleEnds` is
  that the main thread is never stuck, which is about `ENABLED` and fairness.
* `DeviceStatsProofs`: lemmas on `Written`, then `RecordEffect`, on which both
  loops rest. The invariant says what the loops have left to do and that
  whoever is neither left nor lost is on record (`ReportSoFar`), and
  that no time is later than now (`TimesPast`), which keeps the rows in order.
  `HistoryIsNeverRewritten` is the action property. `HistoriesAreCoded` proves the run-length
  code: its definition names the positions at which runs end, and an appended verdict
  either moves the last of them or adds one.
* `CycleClockProofs`: under `Budget`, which the theorems assume in the statement.
  The invariant bounds what the rounds have used so far by a product; the lemmas
  `OneMoreRound` and `NoMoreThan` are the arithmetic that the step needs.
* `SharedTableProofs`: the invariant says that whoever is in a critical section
  holds the mutex, that the MAC in the receiver's hand is allocated and nobody's
  (`InHand`), and what a walk has done and has left (`Walks`). Distinct entries
  having distinct blocks is what lets one be freed without touching another.
  `Implements == Spec => KeepsStream` maps each step to `Hear`, `Enter`, `Clear` or
  a stutter.
* `MonitorProofs`, the composition: the steps of `Monitor` are steps of `ProbeCycle`
  (`CycleInvariance`, `WholeKeepsContract`), and under that invariant steps of `DeviceStats`
  (`StatsAreKept`). The crux is `StartReport`: `Accounted` is what `DeviceStats` presumes of a
  report. The theorems on the statistics are cited from an instance of `DeviceStatsProofs`
  and so hold of the whole: `WholeIsCoded`, `WholeNeverRewrites`; with
  both invariants, `AwakeDevicesAreOnRecord` joins the verdict of the cycle to the row.
* `RegistryProofs`: the invariant says that the map is what the first n rows of the answer
  make of it (`Follows`), that entries have blocks of their own, that the pointer is null just
  until the first answer with rows (`NullIsEmpty`), and that whatever
  is lost had a text with two rows. `Implements == Spec => JudgesByLastAnswer` maps `Query` to
  `Load`, `Report` to `Judge`, the keys of a null pointer to `Lose`, and the emptying and
  filling in between to stutters.
* `ArpLinkProofs`: the invariant is `IInv` above. The refinement `Implements == Spec =>
  ListensToReplies` rests on lemmas about `Replies`: the ranks of the replies of a queue are a
  bijection onto `1..n` that keeps their order (`RanksAreBijective`, `RanksAreOrdered`), an
  appended frame adds itself or nothing (`AppendedReplies`), and taking off the head takes it off
  the replies or leaves them (`RepliesFromHead`). `OverwrittenIs` is what a short frame makes of the
  buffer: a reply in it is one that was just received whole, as a frame of ARP overwrites all
  three places (`BufferedReply`). `WholeRoundsAreAsked`, the safety half of
  `AskableGetAsked`: a round that is over and did not end the process has asked its whole list.
* `SettingsProofs`: what has been checked when (`ChecksSoFar`), of which version
  of the file (`ConfigIsOfFile`), and whence each number comes (`NumbersInForce`).
* `SqlSessionProofs`: that who is in the map and not connected was unplugged since it was filled
  (`MapIsOfThePast`), from which `UndefinedAlwaysHasAReason`; that live buckets are exactly the
  abandoned ones, and those have no rows, which is why a stale pointer is noticed (`MisreadsComeFromLeaks`); and
  that every open handle is of a refused connection.

Only model-checked: `CycleEnds`, `AwakeDevicesGetRecorded`, `AnswersArrive`,
`AskableGetAsked` and `RepairsTakeEffect`, which are liveness under fairness (of the first and
the fourth the safety halves are proved), and the three counterexamples. Every invariant, action
property and refinement that a run checks is also a theorem.

## How it was built

`ProbeCycle` and its contract first, as all else depends on what a cycle leaves; then
`DeviceStats`, `CycleClock`, `SqlSession`, `ArpLink`, `SharedTable`; then `Monitor`, which
composes the first two, `Registry` and `Settings`, and the connections of `SqlSession` and the
wall clock of `CycleClock`; then the proofs about `ArpLink`, for which its `Replies` lost their
recursion, about the progress of a cycle and about the whole of `Monitor`; `RegistryContract`
last. What could follow: a clock that is set back between polls
in `DeviceStats`; `SharedTable` composed with `Monitor` rather than cited by it.

## Not modelled

Printing; the layout of frames; allocation failures other than as `Exit`; the
hash map and MySQL libraries, which are not in the repository; the functions on
machines and `get_mysql_result_bucket_field_position()`, which are never called; the
third-party programs in `c_examples/`; stopping the service for good; the memory that
`update_devices_to_probe()` does not give back.
