# XenRT: specifications of the test fleet

XenRT runs test jobs on a fleet of lab machines at several sites. People submit
jobs and lease machines through a web server; a scheduler gives idle machines to
new jobs; a controller at each site starts a *harness* process for every job and
puts the machines back when the job is over; harnesses share locks and resources
among themselves, take addresses from the DHCP server of their site and share a
cache of downloaded files. Nothing but databases, lock and marker files and process ids ties these
programs together: every one of them reads a table or a directory, thinks for a while, and then
writes. The modules here say what they may rely on all the same.

## 1. The system

| Component | Source | State it keeps | Operations | Interacts with |
|---|---|---|---|---|
| Job and machine tables | `control/database.sql`, `server/app/api/__init__.py` | `tblmachines` (status, jobid, lease), `tbljobs`, `tbljobdetails` | SQL statements | everybody |
| Job scheduler | `server/app/api/schedule.py` | a table lock; what a run has read | one cron run: count, clear leases, list, select, assign | tables |
| Site controller | `control/site-controller.in` | pid file, result directories, processes; what a run has read | one cron run: scan machines, kill, complete, free, start jobs | tables (API calls), harness processes |
| Job and machine API | `server/app/apiv2/jobs.py`, `machines.py` | none of its own | submit, remove, lease, return | tables |
| Harness life cycle | `control/venvwrapper2.sh`, `exec/main.py` | a process | complete the job at the end, or die | tables, controller |
| Central resources and locks | `exec/xenrt/resources.py`, `exec/main.py` | lock directories with a timestamp | acquire, mark every minute, break, release, clean up | other harnesses, mark threads, cron |
| Global resources | `server/app/apiv2/resources.py`, `exec/xenrt/resources.py` | `tblresources` | lock, release, clean up | harnesses of all sites |
| DHCP allocator | `xenrtdhcpd/xenrtallocator.py.in`, `dhcpdlib/dhcp.py` | table `leases` (MAC, expiry, reservation), a lock, a thread per packet | renew, allocate, decline; reserve, release, list | hosts, harnesses, the cleaner |
| File manager and cache | `exec/xenrt/filemanager.py`, `filecache.py` | files, parts and `.fetching` markers in a directory of the site; hard links of each harness | look, wait, mark, fetch, publish, replace, clean up | harnesses, job states |
| Access control | `server/app/acl.py` | cached entries | may this user have these machines | scheduler |
| Server, replication | `server/app/__init__.py`, `db.py` | master or not | forward, wait for the replica | PostgreSQL |
| Test execution, libraries | `exec/xenrt/` | results | run sequences of tests | hosts under test |

What makes it hard: several runs of the same program overlap (cron starts them by
the clock); a run can be killed between any two statements and nobody rolls back
what it committed; reads are used minutes later; machines are updated by name, with
no check of the row count; a process and the record of its pid are made in two
steps. `PROJECT.json` lists these hazards at the line where each bites.

What makes each component correct:

* tables: a busy machine belongs to one job, and that job lists it;
* scheduler: all the machines of a job or none; enough of them, all at one site;
  never one that is busy; no more jobs at a site than `maxjobs`;
* controller: a job is started once; a machine goes back only when its job is over;
  every finished or removed job gives everything back; a dead harness is noticed;
* API: a lease another user holds is taken over with `force` only;
* locks, global resources, addresses: one holder at a time, and none leaked (with the exceptions
  section 3 names);
* file manager: what was given out stays, and a fetch that fails publishes nothing, though several
  may fetch at once; a file that gets its name in the cache is whole unless another process is still
  writing into the same part, or was killed doing so; waiters go on when the fetcher dies.

## 2. The modules

| Module | What it is |
|---|---|
| `FleetDB` | the tables, files and processes everybody shares, and the statements issued on them |
| `Scheduler` | one action per database transaction of a scheduler run |
| `SiteController` | one action per API call of a controller run |
| `JobApi` | requests of people, and the end of a harness |
| `Fleet` | the three programs interleaved; properties; fairness; the refinement mapping |
| `MachineAlloc` | the abstract specification: allocation of machines to jobs and the life of a job's harness |
| `FleetInv` | the inductive invariant `IInv`, and `FlagInv` on top of it |
| `FleetTypeProofs`, `FleetProofs`, `FleetSiteProofs`, `FleetFlagProofs`, `FleetImplements` | theorems |
| `CentralResource` | a lock directory, its harnesses with their mark threads, the cleaner; properties; fairness |
| `PoolLock` | the abstract specification: what harnesses are promised about a lock |
| `CentralInv`, `CentralProofs` | the inductive invariant, the refinement of `PoolLock`, theorems |
| `DhcpAllocator` | packets, reservations, the cleaner and restarts on the address table; properties |
| `AddressPool` | the abstract specification: what hosts and jobs are promised about addresses |
| `DhcpInv`, `DhcpProofs` | the inductive invariant, the refinement of `AddressPool`, theorems |
| `FileManager` | one file of the cache, its fetchers, waiters and cleaners; properties; fairness |
| `FileInv`, `FileProofs` | its inductive invariant and theorems |
| `MCFleet`, `MCCentral`, `MCDhcp`, `MCFile` | instances for TLC |

### State and actions against the code

`mstatus`, `mjob` are `tblmachines.status` and `.jobid`; the job id stays when a
machine becomes idle, as in the table. `lease` and `overdue` abstract `comment` and
`leaseto`: who has the lease and whether its end has passed. `jstatus`, `removed`,
`jmach`, `deadjob`, `hpid` are `tbljobs.jobstatus` and the job details `REMOVED`,
`SCHEDULEDON`/`MACHINE`, `DEAD_JOB`, `HARNESS_PID`. `jmach[j]` keeps the first machine of a
list apart because the code treats it apart: it is *scheduled*, the others are
*slaved*. `resdir` are the controller's result directories, `proc` its children: the
process with the recorded pid is a wrapper, which first sets up an environment
(`starting`: `mkdir`, `virtualenv`, in the working directory of the controller) and then is the harness,
which changes to the results directory (`alive`; `main.py:575`). `killJob` finds what to kill by that directory. So a wrapper
that is still setting up is passed over (`missed`), and its harness starts later (`stray`), though its job was completed and its
machine freed in the next two calls.

A **scheduler run** takes `LOCK TABLE scheduleLock NOWAIT` (`ScStart`), computes the
capacity of each site from two queries (`ScCountRunning`, `ScCountScheduled`), finds
expired leases and clears them in a second statement (`ScFindExpired`,
`ScClearExpired`), lists idle machines and new jobs once (`ScListMachines`,
`ScReadJobs`), and then for each job selects machines (`ScSelect`; `ScPass` when it has
none), writes `SCHEDULEDON`/`MACHINE` (`ScRecord`, committed at once although the code asks
for no commit) and takes the machines and marks the job running (`ScAssign`, one
transaction). The UPDATEs of `ScAssign` touch idle rows only and nobody reads the row
count: the model does exactly that, and that no row is missed is a theorem.

A **controller run** checks and writes its pid file, reads `mlist` (`CtlStart`), asks
`get_job` for one machine after another (`CtlExamine`) and goes through the cases of
the machine loop (`CtlProbe`, `CtlFlagDead`, `CtlKill`, `CtlComplete`, `CtlFree`), and then
starts the jobs of the scheduled machines (`CtlMark`, `CtlLaunch`, then `CtlRecordPid` or
`CtlFail`), as many as the rate limit lets it. It can be killed at each of these
points (`CtlCrash`); the pid file, the tables, the directories and the harnesses stay.

**People** submit and remove jobs, lease and return machines; lease requests read
first and write later, in two actions. **Harnesses** begin when their wrapper has set up (`HarnessBegins`), complete their
job in an exit handler (the wrapper in an error trap) and end, or just end.

**Central locks** stand apart from the fleet: harnesses of a site meet in a directory.
`maker`, `files`, `job`, `stamp` and `age` are the lock directory (who made it, which files
are in it, what they say), `locked` and `resHeld` the attributes `lockfile` and `resourceHeld`
of a `CentralResource` object, `pc` the file operation its process is at. `acquire()` is `Mkdir`
(then, with a timeout, `Look`, `Rmtree`, `MkdirAgain`) and one action per file it writes; a waiter that is refused
sleeps and tries again, or, when it has looked for as long as the timeout (`waited`), gives up (`Refused`);
`release()` is one action per `unlink` and the `rmdir`, which fails on a directory that is
not empty and then leaves the object as it was (*stuck*), followed by `unregisterCallback()`.
`markThread` opens the timestamp, which empties it, and writes it (`MarkOpen`, `MarkWrite`);
it holds the callback lock meanwhile, and an exception ends it. At the end of a run the
shutdown callbacks release what is left under that same lock (`Exit`) or keep it for a
person (`ExitKeeping`), and the job is completed after that. `--cleanup-locks` lists the lock file
by file, asks for its job, and unlinks what `release()` would (`Sweep...`).

**Addresses.** `mac`, `left` and `rsv` are the columns `mac`, `expiry` and `reserved` of `leases`; an expiry is
the number of `Tick`s left, `NoExpiry` is NULL. Every packet has a thread. `Receive` takes the lock and looks for the host's
row (`_findActiveLease`); then come `RenewLook` and `RenewWrite`, or `NewPick` and `NewTake`, or a CloudStack MAC is
turned away (`TurnAway`); each is one SQL statement, and the lock is free again after the last. What the host gets
leaves later (`Ack`, `NoAck`), without the lock: `fresh` is how much of the lease is left for
an answer on its way. A `DECLINE` finds its row and blacklists it (`DeclineFind`, `DeclineBlacklist`) before it comes to
the lock. XML-RPC serves one call at a time: `Pick` chooses one address or the first run of
adjacent ones, `Reserve` writes row by row, `Reply` ends the call; `Release` clears the reservation and nothing else. A
cleaner lists what is reserved and for whom (`CleanList`), then asks about the jobs it has listed (`CleanAsk`), and then releases
one after the other, by address (`CleanRelease`): whoever has the address by then loses it. Cron starts
a cleaner every two minutes, whether or not the last one has ended, so several overlap. `Restart` is the watchdog: threads and lock are new, the table stays. `lease`, `remain` and `has` are
what hosts and jobs outside the server believe they have; the properties are about them. `swept` is a history
variable, the addresses somebody uses that a cleaner has released for another job than the user's.

**Files.** Inodes have names: `shared` (the cache), `part` (`.part`), `mine` (each harness's own link). `mark` is the number in
the `.fetching` marker, `opened` who has that marker open for writing: opening empties it (`Mark`), the number follows (`WriteMark`).
A call looks for the marker (`Look`), polls it (`Poll`, `Ask`, `UnlinkMark`, `Except`, `Deadline`), looks for the file (`FindFile`) and
links or replaces it (`UseFile`, `Replace`), or marks and fetches it: `StartWget` opens the part,
`EndWget` or `FailWget` ends the transfer, `Rename` publishes, `LinkFetched` links, `Unmark` is the `finally` clause. `fd` and `torn` say
what a wget writes to, and whether somebody emptied that file under it. `Gone` kills a process anywhere,
`JobOver` is what the server says of its job (also of one that is flagged `DEAD_JOB` while it runs, as run `dead_flag` shows
it can be), `Cleanup` removes the directory.

### Abstractions

* Which machines *match* a job (pool, cluster, flags, resources, ACL, shared resources),
  job priority and the order of machines are nondeterministic: the scheduler may pass any
  job over and choose any idle machines. Every run of the code is a run of the model.
* The rate limit is a number of jobs (0 up to `burstjobs`) that a run may start.
* Checking and writing the pid file is one step (`CtlStart`): cron starts runs a minute apart, and nothing
  blocks between the two (`site-controller.in:355` and `381`). Two runs that both get past the check are therefore **not**
  among the behaviours checked or proved here: what is said about overlapping runs rests on the file being
  checked and written without another run starting in between. Reading the machine list (413) is in the same step; that
  loses nothing, as between the write and the read a run touches nothing, and no other run of the site starts.
* The two commits of `ScRecord` are one step; nothing looks at them in between but
  a listing.
* A MACHINE parameter does not name a machine twice. (`Wish`; a list that did would make
  the scheduler count one machine as two.)
* One lock name; which name of a pool a process tries next does not matter to the lock.
  `ByName` says whether the name is in the configuration, whose names `list()` lists even when
  the directory has no id file. Timeout 0 stands for the pools, a positive one for `CentralLock`.
* Lock time is counted in mark rounds (`Tick`), ages stop at `MaxAge`. Ages and waits are whole minutes, so a lock
  exactly as old as the timeout may be stale or not, and a waiter that has waited for as long may give up or look once more. A
  timeout of one mark interval is excluded (`LockAssumption`): a lock would be old between two marks. (The default is 60.) Nobody spends a minute
  between two file operations and a cleaner's run takes less than one (`Prompt`); waiters
  and cleaners act once a minute (`rested`; cron starts the cleaner every two).
* A test holds its lock for longer than a mark round of another process lasts that began when
  that one held it before (`Settled`). A mark thread stalled between opening and writing for as long
  as a whole test could put a timestamp into the next holder's directory.
* `rmtree` of a stale lock and the reading of one timestamp are one step each.
* Addresses: one interface. Packets that the filters drop or whose MAC is blocked are packets that do not
  come. The select and the look-up of a lease under the lock are one step where no other statement can
  tell. A job is *over* from the moment `canCleanJobResources()` says so, and from then on
  nobody uses its addresses; a person who keeps a set-up counts as the job. What a
cleaner leaves out because it is too young, or because an earlier release raised, is covered by `CleanAsk` taking any part of what it may. Replies to a release arrive. `rejectedCSAddrs` never forgets a MAC, as in the code (the comparison at
  `xenrtallocator.py.in:38` is never true, whatever the comment above it says).
* Files: one file, one cache, hard links. A wget that nobody disturbs writes the whole content; one that was
  overtaken leaves a hole that only the one that overtook it can fill. Whether the file differs from the original is a
  nondeterministic choice. Timeouts and deadlines may come at any moment, or never. The directory that `cleanup()` removes was not touched for a week, so nobody fetches into it.
* Machines that are added, deleted or taken offline while jobs run are not modelled.

## 3. The runs

| Run | Instance | Shows |
|---|---|---|
| `fleet` | 2 machines, 1 site, 2 jobs (one needs both), 2 scheduler and 2 controller processes, 1 killed run | type invariant, `RunningJobHoldsMachines`, `HarnessHasItsMachines`, `BusyMachineBelongs`, `JobLaunchedOnce`, `FlagMeansDead`, and that the fleet implements `MachineAlloc` |
| `fleet_live` | 3 machines, 2 jobs the scheduler has just given theirs (2 and 1), one controller that may start one job per run, 1 killed run, fairness | every finished job gives everything back, removed jobs end, both scheduled jobs start, jobs without a process are noticed |
| `fleet_leases` | 3 machines at 2 sites, 2 jobs, a user, a job that names machines across sites, no controller | `RunningJobHoldsMachines` and `JobAtOneSite` with leases changing under the scheduler |
| `central` | 3 harnesses, 2 locks each one after the other, one killed, no timeout, no cleaner, symmetry | type invariant, `HolderOnDisk`, `ExitLeavesNothing`, and that the lock implements `PoolLock` |
| `central_break` | 2 harnesses, 2 locks each, a timeout, one killed, fairness | `UnbrokenWhileMarked`: nobody breaks a lock that is being marked; `StaleLockBroken`: a waiter that began after the last mark removes a dead holder's lock; `LookingEnds`: no waiter looks for ever |
| `central_clean` | 1 harness with 2 locks that may be killed or leave its set-up, 2 overlapping cleaners, fairness | `LeftOverReclaimed`: cleaners remove what nobody relies on |
| `dhcp` | 2 addresses, 2 hosts (one a CloudStack MAC), 2 jobs (one reserves for a MAC), 2 packet threads, 2 overlapping cleaners, any number of restarts, at most 2 things at work at a time, symmetry | type invariant, `NoAddressShared` and `HeldIsReserved` but for what a cleaner swept by an old listing, `NoAddressLost` but for addresses reserved for a MAC that never asks, and that the allocator implements `AddressPool`, which allows that sweeping |
| `file_cache` | 2 jobs and a manual run, one call each, 3 inodes, all of them killed anywhere, fairness | type invariant, `MarkMeansFetching`, `GivenStays`, `PublishedWhole`, `WaitEnds` |
| `site_limit` | violated | more jobs at a site than `maxjobs`: the two counts are two queries |
| `lease_takeover` | violated | a lease taken over without `force` |
| `dead_flag` | violated | a living job flagged `DEAD_JOB` |
| `central_sweep` | violated | the cleaner removes a lock that is being acquired |

Bounds. Two processes of a kind are enough to overlap; two jobs and two machines
are enough for a job to lose a machine to another and for a job to be half
assigned; three machines at two sites for a list that crosses sites; one killed run
(`MaxCrashes = 1`) for a successor to meet every state a dead run can leave, and the
theorems below hold for any number. `BurstJobs = 1` makes one job wait for another's
start; that wait is what `fleet_live` is about. It starts when two runs of the scheduler have given both jobs the machines they
name (`ScheduledInit`), and leaves the scheduler out: with it, the graph (2.7 million states)
is too large for liveness, and a scheduler run adds nothing to what the controllers owe to jobs that are scheduled. Machines, scheduler and controller processes are interchangeable in `fleet`,
so it uses symmetry; `fleet_live` uses none, as liveness would be unsound with it.

For the lock, three harnesses make a waiter, a holder and a dead one; a second use
makes the round of a mark thread meet the next holder; two cleaners unlink the same files.
Ages up to 2 are enough, as every test compares with 1. Cleaners run in `central_clean`
and `central_sweep` only: `HolderOnDisk` does not hold with them, as `central_sweep` shows. With a timeout
it holds until something goes wrong (`UnbrokenWhileMarked`): two waiters that both find the lock of a killed
harness stale remove each other's (`resources.py:396`), and a mark thread that opens the timestamp of a lock
its process has just released dies of the exception, after which all the locks of that process grow
old under it and are broken, with nobody killed. The lock runs do not check for deadlock: processes end.

For addresses, `FewAtWork` bounds what is in the middle of something to two: two packets, a packet and an XML-RPC call, two
cleaners, or a cleaner and a call; a packet and a cleaner not at the same time, as packets do not write reservations
and cleaners neither MACs nor expiries; two packets only while no job is over, as packets do not ask about jobs. It is a CONSTRAINT, so only of the
run (0.9 million states); the theorems are without it. A
second cleaner is needed to see that the first one's listing grows old through it, one alone to see it through a release. Two packet
threads make one that selects or renews while another declines or answers late;
two addresses make a run of adjacent ones and a lowest one; leases of one tick make every expiry
happen between any two steps. For the cache, three processes make two that fetch into one part and one that waits, and the
manual run a marker without a number; an inode for the cache, one for the part and one that a process was
given and the cache no longer has. One call each is enough, as a process that fetched may keep its file or be gone.
Neither run checks for deadlock: hosts and jobs may stop, and a
process whose lock is stuck (`Unmark`) does.

Fairness (`Fleet`). A controller run that has started goes on until it ends or is killed: weak
fairness of its steps. Cron starts a controller every minute, so one is started again
and again: strong fairness of a start with the full burst, since while nothing is
started the rate-limit window empties. No fairness is assumed of the scheduler, of people, wrappers or harnesses.
That `ScheduledIsStarted` holds with two jobs and a burst of one is because the job that was started leaves the list of the
scheduled; with people that submit jobs without end it would not be promised which of many is started when.

Exceptions. Some properties name a case in which the code does not keep what one would like it to, and say
so in the formula, so that everything else is still checked:

* `HarnessHasItsMachines`: the harness of a job that was removed while its wrapper was setting up (`Loose`) works on machines
  that are free or another job's. `MachineAlloc` has the phases *missed*, *stray* and *loose* for it: only a job that was
  missed before its harness began can be over with its harness at work.
* `StaleLockBroken`: a waiter gives up after the timeout at which a lock is stale (`resources.py:395`, `630`), so one that began before
  the last mark gives up before it may break the lock. The next waiter does it.
* `NoAddressShared`, `HeldIsReserved`: a cleaner releases by address what it listed before it asked (`main.py:1825`, `1829`, `1854`). If the
  listed job has released the address, is over when the cleaner asks, and another job has reserved the address since, that one
  loses the reservation (`swept`); the address may then be given to a second user. `AddressPool` allows a `Sweep` when a job is over, for
  an address another job uses, and no other loss.
* `NoAddressLost`: an address reserved for a MAC that never asks has no expiry and is lost when the reservation is released (`Stranded`).
* `PublishedWhole`: a process that fetches may publish a part another one is writing to.

Fairness (`CentralResource`). File operations that were begun end, a waiter tries again (the
loops around `acquire()` sleep and retry), the mark thread has its rounds, cron runs the
cleaner, the job of a process that ended or was killed is completed (the harness does it
itself, or `fleet_live` shows that its controller does once it is removed), and time
passes. Nobody has to release a lock, to exit, or to give machines back.

Fairness (`FileManager`). Waiters poll every 15 seconds, a fetch that was begun goes on (wget runs with a timeout), and
the job of a process that is gone is done in the end. Deadlines and the cleanup are not needed.
`DhcpAllocator` states no fairness: nobody is obliged to ask for anything.

Each property of a passing run has a mutant of the code (`PROJECT.json`) that breaks
it: the table lock or the pid file ignored, slaves not freed, a removed job's
harness not killed, a cleaner that does not ask, a waiter that never gives up, a row chosen without the lock, a failed fetch published, and so on.

### Disagreements found

* `site_limit`: `scm_site_list` counts running and then scheduled machines; a machine
  that becomes running in between is counted in neither (`api/__init__.py:45`).
* `lease_takeover`: `lease()` reads, decides and writes by machine name
  (`machines.py:391`), so the later of two requests wins without `force`.
* `dead_flag`: the pid is recorded after the harness was spawned
  (`site-controller.in:308`); a run killed in between leaves a job that every later run
  takes for dead, and `filemanager.py:349` believes the flag. `FlagMeansDead`, which holds, says that this is
  the only way: without a killed run the flag is never wrong.
* `central_sweep`: a lock between its `mkdir` and its timestamp and jobid reads like an old lock
  of a manual run (`main.py:1839`), and the cleaner removes it from a running job.

## 4. The proofs

The theorems of the fleet are of `Spec` for every value of the constants that satisfies
`FleetAssumption`, `ControllerAssumption` and `MarkerAssumption`: a finite set of machines,
each at a site, markers that are not members of the sets they mark.

| Theorem | States |
|---|---|
| `Invariance` | `Spec => []IInv` |
| `TypeCorrectness`, `MachinesHeld`, `HarnessSafe`, `BusyBelongs`, `LaunchedOnce` | the invariants of run `fleet` |
| `OneSite` | `JobAtOneSite`, with the counting of what a selection holds |
| `FlagIsHonest` | `FlagMeansDead` |
| `Implementation` | `Spec => AllocSpec`: the fleet implements `MachineAlloc` |

**The invariant.** None of the properties is inductive: that a job holds all its
machines depends on what a scheduler run read several steps ago still being true,
and on every controller freeing a machine only for a job that is over. `IInv` has
three parts beside the types. `TableInv` speaks of the tables alone (a busy machine has
the place in its job's list that its status says; a job whose machine is still
*scheduled* was never started; a wrapper or harness belongs to a job marked running, or to a removed one and was missed).
`SchedInv` says what a scheduler run may count on at each label: machines it listed are
still idle, jobs it listed still new, the selection made of idle machines. `CtlInv` says
the same of a controller: every row it read and has not acted on is still what the
table says, and that after `killJob` a process of the job is one that it missed.

**Why it holds.** There are two owners. An idle machine and a new job change only in
the hands of the scheduler run that holds the table lock (`OneRun`); a busy machine
only in those of the controller run that its site's pid file names (`OneRunPerSite`). So
each program's reads stay true while the others move: the frame lemmas (`TableFrame`,
`RunFrame`, `CtlFrame`) say what a step must leave alone, and one lemma per action shows
that it does. Jobs cross sites only if their first machines do, and a job has one first
machine (`FirstMachine`).

`OneSite` carries the selection from `ScSelect` to `ScAssign` with an
invariant of its own (`SiteInv`), proved on top of `IInv`.

`Implementation` maps a busy machine to its job, and a job's status and harness to a phase: *waiting*, *holding* its
machines, *working*, *stopped* (the harness died first) or *over*. `ScAssign` is the acquisition, of as many machines as the
job needs and all at one site (`SiteInv`), `HarnessBegins` the start of work, a process that dies or is killed
its stop, completing a job its end, `CtlFree` giving a machine back; `CtlKill` is a stop, or a miss if the wrapper is setting up, and
completing a job that was missed makes it *loose*; all else stutters. So `MachineAlloc` promises what no
single invariant does: machines are taken all at once and only when every one of them is free, a harness starts at most once, and
nothing is given back while a harness works or is to begin, but for a job that was missed before its harness began.

`FlagIsHonest` needs more than `IInv`: a run looks for a process with a pid it read in an earlier call, so `FlagInv` says that what
it found out is still so when it acts (`ProbeAtHand`), that a harness without a recorded pid is on its way to have it
recorded or was left so by a killed run (`PidOnItsWay`), and that the run which starts a job has its machine in its own
list, where no other run looks (`StartedElsewhere`, from `OneRunPerSite` and `FirstMachine`).

**Central locks** (`CentralProofs`, for every value of the constants that satisfies `LockAssumption`).
`LockTypes` states the types with or without timeouts and cleaners. `HolderSafe` and
`ExitClean` state `HolderOnDisk` and `ExitLeavesNothing` for locks without a timeout while no
cleaner runs, and `LockOutlasts` states `UnbrokenWhileMarked`, which is both of them for any timeout as long as nothing
went wrong: the two cases (`Unbroken`) in which the code keeps them. `LockInv` says of each process what its
place means: it owns the directory from `mkdir` to `rmdir` (so there is one owner, `OneOwner`), the
files it wrote are there, and once its shutdown callbacks run, no mark round goes on
anywhere, so that what they unlink stays away. One lemma per group of actions shows
that its own step keeps that (`AcquireKept`, `ReleaseKept`, `EndKept`, `MarkKept`), one lemma that it keeps the
others' (`OthersKept`, from what a step may do to the directory, `DirSteps`).

With a timeout, ownership rests on time: a waiter at `Look` must never see an age beyond the timeout. So the
invariant is `Unbroken => LockInv /\ Young`, where `Young` bounds the age by 1, and each needs the other: a broken lock
would have two owners, and it is the owner's mark thread that keeps the lock young. `YoungKept` is that argument. A minute
passes (`Tick`) over a lock with a timestamp only when its maker is not between two file operations; then it holds the lock or is
stuck with it, is alive, its mark thread sleeps (neither failed nor in a round), and so has had its round since the last minute,
which left the timestamp at age 0 (`AgeInv`, kept in every instance by `AgeKept`). That a failed thread stays failed and an ended process ended
is `EndsStay`; it makes `Unbroken` a property of the past, so that the implication is kept by a step that ends it.

`UnbrokenImplements` states `ImplementsLock` for the behaviours that stay in these cases, and `LockImplemented` for all those of a lock
without a timeout: the lock is a `PoolLock`, whose owner is the `maker` of the
directory. `mkdir` is the taking, writing the last file the start of its use, the first step of a release the
end of it, `rmdir` the giving back, which the shutdown callbacks do in the very step in which the process ends; all that happens to the
files stutters, including what mark threads write into a directory that is being removed. It says what `HolderOnDisk` and
`ExitLeavesNothing` leave open: nobody but the owner gives the lock back, and not while a test or a person relies on it.
`ByName` and any number of harnesses, uses and crashes are covered; once a lock was broken or
with a cleaner the promise is not kept (`resources.py:396`, run `central_sweep`), which is why the theorems assume `Cleaners = {}` and
`Unbroken`, or `Timeout = 0`.

**Addresses** (`DhcpProofs`, under `DhcpAssumption` and `LeaseAssumption`: hosts are told no more than
the table says, which `infrastructuresetup.py` sets to half, and a declined address rests for
at least as long).

| Theorem | States |
|---|---|
| `TypeCorrectness` | the types, for any number of cleaners |
| `AddressesApart`, `HeldReserved` | `NoAddressShared`, `HeldIsReserved`, for any number of cleaners, but for what they swept |
| `LeasesSafe` | no two hosts lease one address and none leases what is reserved for another, for any number of cleaners |
| `NothingLost` | `NoAddressLost`, for any number of cleaners |
| `PoolImplemented` | `ImplementsPool`: every step is one of `AddressPool` or a stutter, for any number of cleaners; a job gets adjacent addresses |

A *holder* of an address is a host that uses it or whose answer is on its way. `IInv` says that the row of a
held address names the holder or is blacklisted, and outlasts the lease (`LeaseInv`, `AnswerInv`); so a row that is available
has no holder (`AvailableUnheld`), and what a thread selected under the lock stays unheld until it writes
(`TakeInv`, `RpcInv`), because a `DECLINE` in between takes a row away from everybody and gives it to nobody. A host renews the row that names it, or
one that was blacklisted in the middle, which is why `RenewInv` admits both. A cleaner takes, by its old listing, a
reservation from a job, but never an address from a host, as a release leaves the MAC and the expiry of the row. Therefore the
invariant has two layers: `SafeInv` holds whatever the cleaners do (`Safety`); `HasInv` says that a job's address is reserved for it or was
`swept`, and `CleanInv` what makes the second case rare: what a cleaner is about to release is listed for a job that is over, so an address
that is still reserved for the job it was listed for is nobody's any more, and any other is swept when it goes. `PoolImplemented` rests on both, and on `RunInv`: the rows
a call has picked and written are a run of adjacent addresses.

**Files** (`FileProofs`, under `FileAssumption`, for any number of processes, calls and inodes). `MarkersMeanFetching` and
`TypeCorrectness` are invariants, `FilesStay` and `PublishesWhole` action properties. The argument is `PartApart`: the inode being
fetched is neither in the cache nor given to anybody, because only a rename gives it its name, and a
process that opens a part opens this one or a free one; and `PartWritten`: of those that write to a part the last
to open it was not overtaken, and a failing one takes the name away. The first also says that what is whole in the cache
stays whole, whoever links it, which `FilesStay` includes.

Only model-checked: the liveness properties (`DoneJobFreesMachines`, `RemovedJobEnds`, `ScheduledIsStarted`,
`DeadHarnessNoticed`, `StaleLockBroken`, `LookingEnds`, `LeftOverReclaimed`, `WaitEnds`), which rest on fairness and so on `ENABLED`.
Every invariant and action property of the passing runs is a theorem.

## 5. Not modelled

Because it is outside the repository or has no control worth checking:
streaming replication and the master election of the server, e-mail, web pages, the
libraries that drive hypervisors and guests, the test cases themselves, the Windows
execution daemon. They are most of the repository's lines; what they do
depends on hosts that are not in it.

Within reach, and left out:

* Global resources (`apiv2/resources.py`). The table alone is one statement per request under a lock; what can go
  wrong lies between the harnesses of several sites, whose lock directories `CentralResource` does not compose. The hazards are listed.
* What a `CentralLock` promises once a process was killed or a mark thread failed, beyond `StaleLockBroken`: two waiters can then
  remove each other's lock, so that it has one holder is not true of the code.
* Archives of directories and several files (`getDirectory`, `getMultipleFiles`): tar writes in place at the name in the cache, so
  neither `PublishedWhole` nor `GivenStays` is to be expected. The external cache has symbolic links, which dangle once the file is removed.
* Several lock names for one cleaner. A `rmdir` that fails (`main.py:1871`, `1879`) ends a cleaner's run before the locks it had yet to look at; with
  one lock name the next run begins afresh anyway, so `LeftOverReclaimed` says nothing about the other locks of that run.
* Access limits (`acl.py`): they only read, and the scheduler model lets them refuse any job.
* Two controller runs that both pass the check of the pid file (see the abstractions).
* Machines added, deleted and taken offline under running jobs; a lease renewed at the moment it is cleared.
* `FileManager` and `Fleet` are not composed: that a job's end becomes known to the server is `DoneJobFreesMachines` and
  `RemovedJobEnds` there, a fairness assumption here.
