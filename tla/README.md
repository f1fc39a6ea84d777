# Formal models of Pyntara

Pyntara turns a fresh Kubuntu machine into a configured one: a bootstrap shell
program fetches the repository, a Python engine runs a list of tasks in catalog
order, and the tasks deploy services that go on working after the run. This
directory holds TLA+ models of the parts whose correctness depends on the order
of steps, on failures and on several programs sharing files, TLC runs that check
them on small instances, and TLAPS proofs for every value of the constants.

Paths in this file are relative to `src/`; the Python package is
`src/pyntara/`, its tasks are `src/pyntara/tasks/`.

## The system

| Part | Code | State it keeps | Operations | What is hard |
|---|---|---|---|---|
| Engine | `pyntara.py`, `task_runner.py`, `task_catalog.py` | the run set, the results, the exit code | resolve the selection, run each task, record, report | dependencies with cycles, tasks that raise, a disk that fills in the middle |
| Metrics commit | `task_data/system_metrics_setup/commit_system_metrics.sh` | the spool | copy to a temporary, link under the original name | several producers at once, kills, a name that is still pending |
| Metrics ingest | `metrics_commit.py`, `metrics_ingest.py` | `main_outbox` | publish or reject every listed entry | crash between link and unlink, partial failure, exit code that decides the retry |
| Metrics service loop | `metrics.py`, `metrics_send.py` | channel queue, `main_sent`, retry counter | dispatch, upload, archive, pause | lost answers, crash between steps, entries that are always refused |
| Metrics collector | `metrics_collect.py`, `telemetry_pdf.py` | lock file, report in the temp directory, retry window | run modules until ready, write, commit, remove | a trigger while a collection runs, exit codes that decide the retry |
| Port forwarding | `port_forwarding.py`, `forwarding_ports.py` | one dict and one state file, one ssh per server | walk the port chain, record, wait, back off | threads sharing a dict, deadlines, dead sessions that hold ports |
| UPnP forwarding | `upnp.py`, `upnp_forwarding.py` | none of its own: the rules of the router | list, choose, add, check, wake the collector | other machines change the rules in between, answers that come too late |
| Runtime vault | `runtime_vault.py`, `tasks/local_vault_setup.py` | vault file, password file, rescue copy | create, check, repair, merge | kills between the two files, source vaults that change |
| Vault users | `tasks/rustdesk_setup.py`, `xray_panel.py`, `xray_inbound.py` | one vault entry each | store a generated secret, apply it | a kill between storing and applying |
| Bootstrap | `inst.sh`, `pyntara.sh` | packages, uv, the clone, its environment | install, fetch or clone again, sync, choose the vault, start the engine | commands cut off in the middle; the script stops at the first failure |
| Deployment | `deployment.py`, `systemd_unit.py`, the two forwarding tasks | programs, unit files, the virtual environment | compare, write, reload, restart | a run that dies between a file and its restart |
| Swap | `tasks/swapfile_service_install.py`, `zram_service.py`, `zswap_service.py` and their programs under `task_data/` | swap files, devices, kernel parameters, boot menu | size, create, format, activate, announce | half made files; an address that the menu does not carry |
| Filesystem | `tasks/btrfs_setup.py`, `btrfs_recompress.py`, `btrfs_points_setup.py`, `tmp_to_disk.py`, `fstab.py`, `btrfs.py` | fstab, subvolumes, the save point, `/tmp` | move, rewrite, store, release | swap off during a move, a background job, data that exists once |
| Proxy | `xui.py`, `xray_*.py`, `routing_policy.py`, `tasks/three_x_ui_xray_setup.py` | the panel, its certificate, inbound, client and routing document; the profile in the vault | install, set, create, publish, test | three stores of one identity; a user who edits the same document |
| Resolver | `tasks/dnsproxy_setup.py`, `nextdns_setup_system_wide.py` | proxy, drop-in, links of NetworkManager | cut over, verify, revert | a revert with steps of its own |
| Hidden networks | `tasks/tor_setup.py`, `i2pd_service_setup.py`, `yggdrasil_service_setup.py` | identities, configuration, saved addresses | install, configure, start, save | identities drawn by the daemon at its own time |
| SSH | `tasks/ssh_daemon_setup.py`, `ssh_client_setup.py`, `augeas.py` | drop-ins, keys, socket and service | edit, verify, hand over, restart | the file, the daemon and the port are three states |
| Desktop | `tasks/kde_settings.py`, `kde_keyboard_setup.py`, `apply_hotkeys.py` | files of the user, memory of the session | write, tell the session, claim combinations | a session that has read older files |
| Packages and programs | `utils.py`, `package_set.py`, `apt_repository.py`, `github_release.py`, the install tasks | apt and dpkg, releases, caches, browser profiles | repair, install, unpack, link, deploy | one broken package among many; a record that is also a cache |

The parts interact through files and through systemd:

- the commit command writes the spool; a path unit starts the ingest, which moves
  entries into `main_outbox`; the service loop links them into the channel queue,
  uploads them and moves them into `main_sent`. The three programs share no lock:
  atomic links and renames are the only synchronisation;
- `local_vault_setup` writes the runtime vault and the password file; the service
  loop, the port forwarding and the tasks open the one with the other;
- the collector is started by a timer, by the triggers of the services and by
  systemd after an error exit; it runs the commit command for its report, whose
  name is taken until the ingest has moved the report on;
- the port forwarding threads share a dict under a lock and write it to the state
  file, which the telemetry reads and whose change triggers a collection;
- the UPnP services of all machines on one network share the rule table of the
  router, which replaces a rule silently; the description of a rule says whose it is;
- the engine runs tasks one after the other and passes state only through the
  machine's files: what a task knows of an earlier run is what it finds there;
- the recompression leaves a job behind that rewrites the data while later tasks
  run, and the save point task waits for it;
- sessions, daemons and the boot menu read the files of a task once, when they are
  told to or when the machine starts.

`PROJECT.json` lists every component with its status and every hazard at its line.

## Modules

| Module | Models | Built on |
|---|---|---|
| `MetricsState` | variables, types and initial state of the queue | |
| `MetricsSpool` | commit command and ingest | `MetricsState` |
| `MetricsSender` | service loop and the web app | `MetricsState` |
| `MetricsDelivery` | what the queue promises: accepted, then received or rejected | |
| `MetricsQueue` | the three programs together, properties, refinement of `MetricsDelivery` | `MetricsSpool`, `MetricsSender` |
| `Engine` | dependencies as the least closed set; one run of the engine: the worklist, the tasks, the exit code | |
| `PortForwarding` | threads, ssh processes, servers, state file | |
| `UpnpForwarding` | the runs of several machines, the router and its other users | |
| `Collector` | runs of the collector, its lock, temporary file and window, the triggers | |
| `RuntimeVault` | vault, password file, rescue copy, RustDesk credential, over many runs | |
| `TaskRun` | the frame of a provisioning task: steps, failed calls, kills, changes between runs, and what a task promises | |
| `UnitDeploy` | a program, its unit and the boot service | `TaskRun` |
| `Swapfile`, `Zram` | the task, the program it deploys and the boot service that runs it | `UnitDeploy` |
| `Zswap`, `TmpToDisk`, `BtrfsSetup` | one section each | `TaskRun` |
| `SavePoint` | the recompression, its job and the save point | `TaskRun` |
| `Panel` | 3x-ui: credentials, certificate, inbound, client, profile | `TaskRun` |
| `RoutingPolicy` | the routing document, its users and the questions it is tested with | |
| `ServiceSetup` | the tasks of the metrics and of both forwarding services, with the environment and what the vault gives them | `TaskRun` |
| `Dnsproxy` | the resolver's cutover and revert, the NextDNS profile | `TaskRun` |
| `HiddenService`, `Yggdrasil` | tor and i2pd; the mesh node | `TaskRun` |
| `SshSetup` | daemon and client drop-in, keys, socket, service | `TaskRun` |
| `Desktop` | both KDE sections and the running session | `TaskRun` |
| `Packages`, `Releases`, `Browser` | package sets and sources; programs from releases; browsers | `TaskRun` |
| `Bootstrap` | `inst.sh` | `TaskRun` |
| `Provisioning` | all of these, each on a machine of its own, with the promises they share | all of these |
| `Sections` | the parameters and variables of `Provisioning`, and the sections that prepare the machine itself | those sections |
| `SectionsProofs`, `TasksProofs` | lemmas of the sections; theorems of `Provisioning` | `Provisioning`, `TLAPS` |
| `*Proofs` | theorems of the module they are named after | `TLAPS` |
| `MC*` | instances for TLC | the module they are named after |

### Metrics queue

An artifact is one commit; its number is its commit time, which every copy keeps.
`spool` holds artifacts under their own name, so two of one name cannot both be
there; `outbox`, `channel` and `sent` hold entries, an artifact with a suffix. One
action is one system call whose effect another program can see: `LinkSpool` is the
`ln` of the script, `PublishLink` and `PublishUnlink` are the link and the unlink
of `_publish_entry`, `DispatchLink` and `DispatchUnlink` those of
`dispatch_entries`. The web app is part of the model: `UploadOk` stores an entry,
`UploadFails` may have stored it and lost the answer (`received` counts). The
retry counter is kept as the one bit the code acts on, `failed_cycles > 0`. Copies
in the ingest's temp directory are not state, since nothing reads them.
A failure of the operating system, a kill or a lost answer is a `Fault`: it names
its kind and spends one unit of `MaxFaults`.

### Engine and task catalog

Tasks are numbers in catalog order, a catalog is a function to sets of names, which
may hold names of no task. `AskFor` is one call of `_dependencies_of` and `Pop` one
turn of its loop; `resolve` asks for the dependencies of each selected task and
keeps the catalog order, which a set of positions has by itself. The code asks
again for every task of the catalog; asking once finds the same names, since the
catalog does not change. A task ends in one of five ways (`Outcomes`), `Recorded`
is what `_warn_result` makes of it, and `Clean` is the condition for exit code 0.
`docs/contracts/architecture.md` says that dependencies name earlier tasks; no code
checks it, so `ObeysRule` is a condition of the one property that needs it,
`DependenciesFirst`, and the others hold for every catalog.

### Port forwarding

`thr[s]` is the thread of a server: `walk`, `asking` (in `start_forward`), `got`,
`dump`, `replace` and `clean` (in `save_state`, lock held), `up` (in `proc.wait`), `pause`.
`ssh[s]` is its process with the outcome line that is in the pipe and how many
`-v` lines nobody has read. `taken` and `dead` are the ports of the server held by
other machines and by dead sessions of this one. Candidates are numbered by their
place in the chain. A kill of the service kills its ssh processes, as systemd
does, and leaves the file and the temporary as they are.

### Collector

`run[r].pc` is the place of a run: `start`, `collect` (the modules answer, in any
order, which covers the code's fixed one), `pause`, then with the report ready
`write` and `fill` (the open and the write of the temporary file), `commit`,
`clean` and `pdf`. A run of the unit and runs by hand share the lock and the file.
A report is the version of each fact at the moment its module answered, 0 for no
answer; `left` is what is left of the retry window in units of
`retry_base_seconds`. systemd is two bits: the unit runs, or it is `due` again
after an error exit or a boot. A changed fact is `owed` until its producer calls
`trigger_collection`. `absent` are the modules that never answer on this machine.
`published` and `carried` are the history of the spool. The rest of the queue is one bit, `pending`: the
name of the report is taken, and `IngestTakes` frees it, which is what
`MetricsQueue` shows of the spool.

### UPnP forwarding

`run[m]` is the run of one machine: `list` and `walk` are `ensure_forwarding` with
its one `listing`, `look`, `add` and `check` are `ensure_port_forwarding` with its
own list (`second`) and the read-back, `tell` is the trigger. A rule is a port, a
mark (the machine, or `Foreign` for any other program) and the address it delivers
to; the SSH port is fixed, so the address stands for the target. `Write` is the
router: it replaces the rule of the port. Between any two calls another machine may
act, the router may forget its rules, another program may take or free a port, and
the machine may get another address. A list the router does not answer is empty,
as `list_mappings` returns it; an add that times out may have been done. `unsaid`
and `lossy` are history: rules written and not announced, and whether an answer
was lost.

### Runtime vault

A file is the password that opens it and the entries it has. `run` is the current
run with its place, its force list, the source vault that opened and the vault the
task has in memory (`kp`). `TruncatePass` and `FillPass` are the two effects of
`write_text`. The write of the vault goes through `temp`. Saves in place are one
step: the KeePass library writes beside the file and moves it. A run ends at any
step with `KillRun`; the next one starts with any source vault. `stored` is the
set of secrets saved and not given up by design, the history the properties are
about.

### Provisioning tasks

`TaskRun` is what every task of the catalog has in common. `sys` is the machine,
`run` the run at work (`pc` is the place in its code, `warn` and `changed` are the
result it will answer, `mem` what its locals remember) and `left` what the bounds
still allow. A step is `Do`; a call that fails is `Fault` (or `FaultLeaving`, when
it leaves something behind) and sets `hurt`, which is history: the code never
reads it. `Kill` ends the run between any two steps and `Event` changes the machine
while no run works: a boot, a release, a user. `settled` remembers that the run
before answered done without a warning and that nothing happened since.

A task module says what its machine is and gives one action for each step of the
task, in the code's order; labels are the places between them. It keeps apart what
the code keeps apart: a file and what a daemon has read of it (`file`/`running`,
`conf`/`bound`, `files`/`live`), a unit and the content systemd loaded, what the
run looked at and what is there by now (`mem`/`sys`). Values of settings, names and
addresses are members of small sets: `target` is the value of the declarations.

Three of the modules have more than one actor. In `Swapfile` and `Zram` the boot
service runs the same program as the task. In `SavePoint` the job of the
recompression goes on beside the installer. In `HiddenService` the daemon draws its
identity at any time after it has read its configuration. `RoutingPolicy` has no
run of its own: it is the document as the user edits it and as the section merges
it, with the answers of the core as a function of the document.

Where a section's promise is narrower than "a clean run reaches the target", the
property says so, because the code does:

- `Swapfile`: the size is the smaller of a share of the memory and half of the free
  space, and the file that is there is not free (`configure_swapfile.py:404-414`).
  Where the memory decides (`RoomToSpare`) a clean run leaves a file of the right size
  and the next one changes nothing. Where the free space decides, the size follows it
  at every run (`docs/spec/users-and-host.md:77-81`), so the file is laid down again by
  later runs and by the unit the task starts right after it, which the comment at
  `swapfile_service_install.py:785` ("changes nothing") does not foresee. What that
  unit could not publish is in its journal only, so `SwapAtTarget` and
  `AnnouncedAddressBoots` speak of a unit that had nothing to report (`UnitIsQuiet`).
  Both units of the swap stay active after their program (`dep.active`), so a second
  start leaves them alone. A root that cannot be told counts as a snapshot session.
- `ServiceSetup`: the vault may name no server or passphrase (`data` "none"), a
  passphrase that opens no key ("wrong") or all the service needs ("full"). With less
  than all the forwarding service ends at once and cleanly, the start check accepts
  that without a warning, and every later run starts it again and answers changed
  (`port_forwarding_setup.py:96-119`, `253-263`, `320-329`). `Serves` asks of it that
  nothing old runs and that it runs where the vault is full;
  `ForwardingRerunChangesNothing` excuses the service that has ended. A key that is
  missing is a start that fails. A service that fails only after the start check, and
  what systemd restarts by itself, are left out.
- `Browser`: the menu is rebuilt only by the run that wrote the entry
  (`chrome_setup.py:730-737`). A run that was cut off or failed after the write leaves
  the menu to the next login, and a clean run that follows it finds nothing to do;
  `Delivered` therefore promises the menu of undisturbed runs (`Undisturbed`).
- `Desktop`: a shortcuts file that cannot be read again ends the clearing of rivals
  without a warning (`kde_settings.py:1361-1364`), so `NextLoginKeepsKey` speaks of
  runs none of whose calls failed.
- `Panel`: `OneClientWithoutFaults` holds as long as no call failed at all.

Details that no property depends on are left as they were simplified: an entry of
the spool that cannot be looked at is rejected like one too large in the code, and
only the latter is modelled; `Dnsproxy!Starts` counts a changed profile selection among
the changes of the run; the reload of powerdevil is not a step.

`Bootstrap` is the same frame around `inst.sh`: under `set -e` a fault ends the run
(`Stops`), except where the script says otherwise (the index, the lock check, the
update of a clone). A clone that was cut off (`torn`) may or may not be fit to
fetch.

## Runs

| Run | Shows | Bounds |
|---|---|---|
| `mc_metrics_queue` | safety and refinement of the queue | 3 commits, two of one name and one oversized, 3 suffixes, 2 faults of 12 kinds |
| `mc_metrics_live` | every accepted artifact is archived | 2 commits of one name, one always refused, 1 fault |
| `mc_metrics_stall` | a crash between link and unlink stalls all sending (violation) | 2 commits, 1 crash |
| `mc_engine` | exact dependencies, order, completeness, exit code, termination | 3 tasks and a name of no task; every catalog of the documented rule and every catalog with at most one dependency a task, cycles included; every selection, every outcome |
| `mc_port_forwarding` | the state file names the tunnels, the tunnels come back | 2 servers, 2 ports, 2 faults of 7 kinds |
| `mc_port_slow` | a port is recorded that was never granted (violation) | 1 server, 1 deadline |
| `mc_upnp` | no seen rule is taken, changes are announced, the rule comes back | 2 machines, 2 ports in crossed order, 3 addresses, 2 faults of 10 kinds |
| `mc_upnp_two` | a late answer leaves a machine with two rules (violation) | the same, 1 timeout |
| `mc_collector` | one run at a time commits, whole reports, no fact goes back, every fact arrives | 2 runs, 2 modules of which one may never answer, 2 versions, window of 2, 1 fault of 9 kinds |
| `mc_runtime_vault` | secrets stay readable or recoverable, clean runs are usable | 3 passwords, 1 entry, 4 secrets, 3 faults of 7 kinds |
| `mc_tasks` | what a plain done result promises, what a later run repairs, what a rerun leaves alone, what no run destroys, and that every run ends | the bootstrap and 17 sections; 2 runs, 1 failed call, 1 kill, 1 event; 3 runs for the save point, the panel, the services and the programs; 2 failed calls for `/tmp`, the resolver and the programs; 2 events for zswap, the services, the desktop and the programs; 3 edits of the routing document |
| `mc_telegram_again` | a current Telegram is downloaded and installed again (violation) | 2 undisturbed runs with the shipped settings |

Why the bounds are enough: two commits of one name are needed for every collision,
a third with another name for the independence of entries; two faults let a
failure hit the recovery from another. Three tasks are the shortest chain with a
task in the middle and the shortest cycle that is not a pair. Two threads and two
ports give every conflict about the lock, the temporary file and a port; a dead
session and another machine can hold ports at the same time. Two machines whose
chains cross meet on each other's first and second candidate, and three addresses
let one move while the other keeps its own. Two runs of the collector give every
conflict about the lock and the file, between each other and with one fault; two
versions of two facts let a report mix old and new; a window of 2 has one whole
pause and one that is cut. A second fault of the collector is left to the proofs of
its safety properties, which hold for any number. Three passwords let file, vault
and source all differ; four secrets let one be in each of vault, rescue copy and
client while a fresh one is drawn; three faults let a kill follow harm twice.
A task needs two runs for everything that says what a run finds, and a third where
a second run may leave what only the third meets (a panel that lost its data, a
release in between). One failed call and one kill let a failure hit the repair of a
kill; the sections that undo their own work (`/tmp`, the resolver, the programs)
have two failed calls, so that the way back fails as well. The services have
three kinds and three states of the vault (nothing to do, a wrong passphrase, all that
is needed), which an event changes between runs. The sections share no
machine, so a behaviour has one of them and their bounds do not multiply.
Two sections start from fewer machines than their modules allow: the save point with
one of two kernels that are alike, and the panel with the remote exit where nothing is
installed and without it where a foreign panel is. The swap file has `RamTerms` {3, 8}
on a `Disk` of 16 with a `Tolerance` of 1: with 3 the memory decides the size, with 8
the free space does, of which the file itself takes its part, so that run after run
lays down 8, 4, 6 and 5 and only then stays; an event changes the memory between runs.
`MaxRuns`, `MaxKills`, `MaxEvents`, `MaxEdits`, `MaxRelease`, `MaxRoom`, `Retries`,
`Attempts`, `Batches`, `MaxFails`, `MaxChatter`, `PipeRoom`, `MaxVersion` and `MaxFaults` are bounds of the
models, named as constants; the proofs hold for all their values.

### Fairness

`MetricsQueue!FairSpec` assumes weak fairness of the programs' own steps and
strong fairness where a choice is random in the code: `random.choice` of the entry
after a failed cycle picks each entry again and again, and an upload that is not
refused succeeds when it is tried again and again. systemd starts the ingest while
the spool is not empty. `Engine!FairSpec` says that a sequential program takes its
next step; commands carry timeouts. `PortForwarding!FairSpec` says that threads
run, that a lock which is released again and again is had at last, that sshd
answers, and that the keepalive ends a lost connection as long as ssh can run.
`Collector!FairSpec` says that a run goes on, since each of its commands has a
timeout, that the timer fires day after day and that the ingest frees the name;
nothing is assumed of the triggers, so the timer alone carries every fact.
`UpnpForwarding!FairSpec` says that the timer starts run after run and that a run
goes on, since every call of it has a timeout. `Provisioning!Spec` says that the run at
work takes its next step: every task is one sequential process whose commands carry
timeouts, and only a kill stops it. Nothing else of `Provisioning` is fair: no job, no
daemon, no next run. No fault is fair.

### Disagreements found

Four runs have the expectation `violation`; `PROJECT.json` quotes the sentence and
the line for each: a crash between the link and the unlink of a dispatch, a
deadline taken for a success, an add that timed out and was done, and a record that
is deleted with the download it is.

The models show more departures, which no run is spent on. Of the services:

- a save of the port state that fails is not repeated while the port stays the
  same (`port_forwarding.py:581`, against `docs/spec/port-forwarding-setup.md:37`);
  `TelemetryNamesTheTunnel` excuses exactly this case;
- an exception of a module ends a collection with exit code 0 and without a report
  (`metrics_collect.py:451`, against `docs/spec/system-metrics.md:40`);
  `OnlyExceptionsLoseARun` says that nothing else does;
- a trigger that meets a running collection is dropped, although the run may have
  read the changed fact already (`metrics_collect.py:401`); `FactsReachTheQueue`
  says that the timer makes up for it;
- a UPnP run whose first list the router did not answer wakes the collector although
  its second list shows the rule in place (`upnp_forwarding.py:180`, against "when,
  and only when, it changed the rule", `docs/spec/upnp-forwarding-setup.md`);
- an ssh whose pipe nobody reads blocks when it is full, and the tunnel it lost does
  not come back (`port_forwarding.py:589`); in `mc_port_forwarding` the pipe does not
  fill, and `TunnelComesBack` fails as soon as `MaxChatter` reaches `PipeRoom`;
- an unreadable vault that cannot be renamed is overwritten by the rebuild
  (`tasks/local_vault_setup.py:320`); `SecretsAreRecoverable` excuses this case;
- a file whose own name begins with the prefix of the spool's temporaries is
  accepted by the commit and ignored by the ingest (`metrics_commit.py:89`).

Of the tasks, each stated in its module and left out of `mc_tasks`, or with the
exception written into the property that is checked:

- `Bootstrap!CodeIsOfTheAddress`: a clone is updated from the address it was made
  from, so an exported `PYNTARA_REPO_URL` does not select the code where a clone is
  there already (`inst.sh:358`, against `pyntara.sh:8-12`). A clone is also removed
  when the network is down (`inst.sh:361`), and an operation of dpkg that was cut
  off is never finished by the installer;
- `Desktop!RerunWithSession`: with a session the keyboard task claims its
  combinations and answers changed on every run (`apply_hotkeys.py:252-264`,
  `kde_keyboard_setup.py:486-487`, against `docs/spec/kde-keyboard-setup.md:29`);
- `SshSetup!PortIsReported`: a port that nobody listens on is reported only by the
  run that restarts the daemon (`ssh_daemon_setup.py:461-463`, `549-552`);
- `Panel!OneClient`: a client that was created and not stored is created again under
  another identity; `OneClientWithoutFaults` is what holds;
- `Dnsproxy!EveryRunAnswers`: a run whose later step fails keeps a cutover that no
  longer answers (`dnsproxy_setup.py:974-996`); the first cutover always has its
  revert;
- `TmpToDisk!ContentsNeverLost`: without a staging directory the mount is released
  all the same and its contents go with it (`tmp_to_disk.py:343-348`, against 14-16);
- `Browser!AlwaysInstalls`: a keyring that was cut short is never fetched again
  (`chrome_setup.py:103`, `firefox_setup.py:93`);
- `Packages!OriginalKept`: a copy of ImageMagick's policy that was cut short is never
  made again (`imagemagick_setup.py:59-62`); a source file that was cut short counts
  as one that needs nothing (`add_extra_repos.py`), so `SourcesKept` speaks of
  undisturbed runs;
- `UnitDeploy`: a program that was written and not yet made executable is current to
  every later run (`systemd_unit.py:117-121`), and a unit that was written and not
  reloaded is not reloaded by the next run;
- `Zswap`: the skip does not look at the text of the unit, so a unit of an earlier
  version stays (`zswap_service.py:123-128`);
- `Yggdrasil`: a key file that was cut short counts as a key, and a saved address is
  looked at only for its existence.

## Proofs

Every theorem is proved from the named assumptions on the constants in the
component's module, and nothing else.

- `MetricsQueueProofs`: `QueueInv` is inductive. `NoArtifactLost` is not inductive
  alone: an unlink is harmless only because the program's own record
  (`ing.cur`, `snd.cur`) says that the link before it is there; `IngestInv` and
  `SenderInv` state that agreement, `HistoryInv` ties the directories to what was
  published. From it follow the safety properties, the action property
  `CleanExitEmptiedSpool` and the refinement of `MetricsDelivery`, step by step.
- `EngineProofs`: `WorklistInv` (what is found but not read is on the stack, and
  every closed set contains what is found) gives exactness when the stack is empty.
  `ResolveInv` says that a resolved name is read, on the stack, or a selected task
  still to be asked for, so that the run set is closed when the resolution ends;
  `RunInv` orders the results against the tasks still to do.
- `PortForwardingProofs`: `RecordInv` says that the lock is held by the one thread
  in `save_state`, that its temporary is the whole dict, and that the dict differs
  from the file only for that thread.
- `CollectorProofs`: `CommitInv` has four parts: the lock is held by exactly the run
  that is past `start` (`LockInv`); the temporary file is what that run has written
  (`FileInv`); a run at its PDF has committed (`PdfInv`); and what the holder has
  read is no older than the spool (`AgeInv`), from which `ReportsNeverGoBack`
  follows. `LostRunsRetry` needs no more than the types: a step that ends the unit
  without a report leaves it due, unless an exception reached `main`.
- `UpnpForwardingProofs`: `SeenInv` says that a run about to write has seen no rule
  of another on its port, in either list; `AnnounceInv` that a rule not announced is
  the one its run has in hand, unless an answer was lost.
- `RuntimeVaultProofs`: `VaultInv` says that the vault a task has open is the one
  on the disk, that the password file is written only while the vault holds no
  stored secret, and that an unforced build starts where there is none to lose.
  `UsableInv` follows a run through the vault and the RustDesk credential: what has
  been done at each of its places as long as it has not warned.

`RepeatsNeedFaults` counts. `CopiesInv` bounds the copies that can still lead to an
upload, the uploads, the repeats and the rejected artifacts together by one for each
published artifact and one for each fault; a copy that has been linked further, or
uploaded, is not counted where it still lies. Each artifact that is delivered or
rejected was published once, so what is left for the repeats is at most the faults.

The sections of `Provisioning` are proved one by one, since `section` never changes
and so each invariant needs only the steps of its section. An invariant there says
what holds at each place of a run, whatever the machine was like when it started.

- `SectionsProofs`:
  `SaveInv`: a job that has not failed has every path before it or behind it, which
  earns the marker its last step writes; a run past the store has a point and a run
  before it has none, so that the entry names a stored point.
  `TmpInv`: what a run without a warning knows at each of its steps (`TmpKnows`); the
  removal of the staging copy finds the contents moved.
  `BtrfsInv`: the top level stays mounted past its release only where a call failed or
  a run was cut off; no swap file of the root is in use under the mounted subvolume;
  a swap that was on is on again wherever the run can end, or its start failed.
  `SwapInv`: the address in hand is that of the file between the reading and its use,
  in the task and in the program at boot, and an announced address is that of the
  menu, also for a unit that runs the program beside a finished task (`SwapUnitInv`).
  `PanelInv`: without a failed call there is one identity, in the vault, at the panel
  and in the run (`PanelClientAt`); a run whose calls succeeded has given the panel a
  certificate before it speaks to it (`PanelHttpsAt`).
  `DnsInv`: what a run has in place at each step (`DnsPlaceAt`); a proxy older than its
  files is restarted by the run that changed them (`DnsCurrentAt`); the cutover is
  stated for at most one failed call (`DnsCutoverAt`), with the fact that a run enters
  the revert only after one.
- `TasksProofs`:
  `HiddenInv` and `NodeInv`: an identity that was there when an unforced run began is
  there while it works; a saved address is that of the identity or key.
  From these follow `IrreplaceableStays` and `AddressesStayCurrent`, over all the
  sections they speak of.
  `BrowserInv`, `ToolsInv`, `ClientInv`: what a run answers or replaces later is what
  its own look saw, or what it has itself put in place since. They give
  `AnswersStayHonest` and, with `SshReach` and the desktop's owner of the combination,
  `WorkingStaysWorking`.
  `SshFollows`, `DesktopInv`, `ZswapInv`, `ServicesInv`, `HiddenReadInv`: no daemon, kernel
  parameter or session is behind its file except where the run at work still knows of
  the restart to come. The statement between two runs is the strengthening: without
  it a clean run that finds nothing to do would prove nothing. They give
  `FilesAreFollowed`. `ServicesInv` says of the forwarding service that past its start
  it runs the code of its unit or, where its vault lacks something, nothing. These
  invariants name the fields a record has instead of its
  type, which is all the steps need.

These proofs use four assumptions, `BoundsAreNumbers`, `SizesAreCounts`,
`SomeParameters` and `NoneIsNoProfile`: bounds and sizes are natural numbers, zswap
has a parameter (`values/zswap_service.py` lists them), and the word for a missing
profile is no profile's name. Two promises were restated on the way.
`AnnouncedAddressBoots` used to claim the agreement also while the unit was at work
after the task; such a unit may lay the file down anew, where an older command line is
still loaded after a failed reload, or where the free space decides the size. It now
speaks of the task's own places and of a unit that kept the address. `OneClient` says that any two
clients are equal, which means the same as a cardinality of at most one.

The type invariants of the first six components are proved and not checked by a run of
their own: they are conjuncts of the inductive invariants.

Only model-checked:

- all liveness properties (`EventuallySent`, `EveryRunEnds`, `TunnelComesBack`,
  `FactsReachTheQueue`, `RuleComesBack`, `TaskEnds`), which are out of the prover's
  reach;
- `RoutingIsMeant` and the routing part of `OthersAreLeftAlone`: they are about
  `SelectSeq` and folds over the rules, and need induction over sequences;
- `CleanTaskReachesTarget` and `FaultFreeRunRepairs` for the sections other than
  `TmpToDisk`, `TasksType` as a whole, `RerunChangesNothing`, and `OthersAreLeftAlone`
  other than its swap part (`SnapshotLeavesAddress`): no proof has been written.

## Not modelled, and why

Wording, logging, file modes and owners where no decision reads them; HTTP, KeePass
and configuration formats; the lengths of pauses; the order of directory listings
beyond what the code relies on. Two engine runs at the same time: nothing in the
code prevents them, and the code does not claim to support them.

- Read-only reports (telemetry readers of the forwardings, addresses, location, the
  access report, the NextDNS profile in use): one answer computed from one state.
- The rest of RustDesk (package, options, unit, screen-cast permission),
  `keyring_setup`, `hostname`, `ffmpeg`, `playwright`, `sotavpn`, `vocalinux`,
  `install_gui_apps` and `snap_remove`: the patterns of `Packages`, `Releases` and
  `Desktop` again, with other names.
- The metrics tasks of a run: one call of the modelled commit command each.
- `logger.py`: it copies text and no decision depends on it. `values/`: constants.
- `launcher_modes.py`, the version hooks and `regenerate_vault.py`: tools of the
  development machine.

Components with status `not_modelled` in `PROJECT.json` name their reason.

## Plan

1. done: `MetricsQueue`, `Engine`, `PortForwarding`, `RuntimeVault`, `Collector`,
   `UpnpForwarding` with their runs and theorems;
2. done: the task frame, the deployment, storage, network, desktop and program
   sections and the bootstrap, composed in `Provisioning`, with `MCTasks` its instance;
3. done: the inductive invariants of the sections that guard what cannot be made
   again (save point, `/tmp`, btrfs, swap, hidden services, node, panel, resolver);
4. done: the invariants of ssh, programs, packages, browsers, desktop, services and
   zswap behind `UsersKeepWhatWorks`, `RunningFollowsFiles` and `AnswersAreHonest`;
5. next: `CleanTaskReachesTarget` and `RerunChangesNothing`, section by section;
6. then: the rest of RustDesk, and the vault used by several tasks of one run.
