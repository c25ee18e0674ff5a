# vision-relay in TLA+

vision-relay is a local proxy that gives text-only models eyes. It points the
`base_url` of agent harnesses (claude, codex, qwen-code, zcode) at
`127.0.0.1:<bind_port>`, replaces the images of each request by descriptions of
a vision model, and forwards the request to the provider or to a routing tool
(CC Switch, Codex++). This directory holds TLA+ modules of its stateful parts,
TLC configurations that check them on small instances, and theorems about them
that TLAPS checks for every value of the constants.

`PROJECT.json` lists the components, the runs, a faulty variant ("mutant") for
every property of a passing run, the source lines each definition translates,
the hazards, the findings and the theorems.

    tlc -config TakeoverSerial.cfg MCTakeover     # any run of PROJECT.json
    tlapm TakeoverProofs.tla                      # any *Proofs module

## 1. The system

Everything below is under `src/vision_relay/`.

| component | files | state | operations |
|---|---|---|---|
| config lock | `locking.py` | lock file, thread-local counter | `config_lock`, `try_config_lock` |
| lifecycle | `cli_lifecycle.py`, `pid_util.py` | `proxy.pid`, `state.json` (routing_on) | `cmd_start`, `cmd_start_detach`, `cmd_stop` |
| wiring | `wiring_orchestrate.py`, `harness_io.py`, `harness_spec.py`, `snapshot.py`, `relays.py` | harness files, their backups, snapshots, codex catalog | `backup_and_rewrite`, `restore_by_snapshot`, `restore_on_stop` |
| reconcile | `reconcile.py` | (the same files), event log | `observe`, `reconcile`, `_restart_service` |
| entry-wise harnesses | `qwen_providers.py`, `zcode_providers.py`, `zcode_proc.py`, `modalities.py` | entries of two harness files, the zcode application | rewrite, restore and follow-up per entry |
| configuration store | `config.py`, `verbs_*.py`, `annotate.py`, `probe.py` | `proxy.json`, `proxy.json.tmp` | `load_config`, `save_config`, `_locked_save`, `models_set`, `run_probe` |
| proxy server | `server.py` | `server.cfg`, `server.cfg_mtime`, a `Pipeline`, connections | `setup`, `do_POST`, `do_GET`, `_current_cfg`, `_forward` |
| relay selection | `server.py:67-102`, `fingerprint.py` | none | `_select_relay` |
| route fallback | `route_fallback.py`, `tools.py` | port cache, last announced mode | `resolve_effective_relay`, the retry in `do_POST` |
| vision pipeline | `pipeline.py`, `cache.py`, `vlm.py` | description cache, semaphore | `process`, `_handle_one`, `_describe_with_retry`, `get`, `put` |
| capability | `capability.py` | verdict table | `judge`, `_resolve` |
| labels | `config.py` (capability forms), `verbs_models.py`, `annotate.py`, `probe.py`, `onboarding.py` | labels, sources, probe results in `proxy.json` | `models_set`, `run_probe`, onboarding, `models`, `_lookup_cap` |
| request formats | `ir.py`, `stream.py` | none | parse and serialise three wire formats |
| model sources | `model_sources.py` | none | scans of the harnesses' own files |
| vision log | `visionlog.py` | one file a day | append, expire |
| command line | `cli.py`, `cli_commands.py`, `verbs.py`, `wiring_status.py`, ... | none | argument parsing, printing, `refresh`, `diagnose` |
| GUI | `src/gui/` | none | runs the verbs as child processes |

How they interact:

* Every command is a process. `main()` loads `proxy.json` once, and the verb
  works on that copy to its end, also when it saves it whole.
* `start` wires the harness files, writes the pid file and the intent, runs
  `reconcile(trigger="start")` and then serves. `refresh` and `diagnose` run
  `reconcile` too. `reconcile` may spawn another `start`.
* `reconcile` and most writing verbs hold `config_lock`. `start`
  (`relays_activate`, wiring), `stop` and onboarding do not.
* The service is one process with a thread per connection. The threads share
  `server.cfg`, the verdict table, the description cache, the semaphore and the
  port cache; only the semaphore is a synchronisation object.
* The user, CC Switch and Codex++ write the same harness files at any time and
  know no lock. Nothing runs `reconcile` on a timer; the GUI polls `status`,
  which only reads.

What is hard about it: several processes write a handful of files with and
without a common lock, act on observations made earlier, and may die between
any two writes; the service's threads check and act on shared objects without
locks; and everything must fail open.

What makes each component correct:

* lock: mutual exclusion; a wait with a deadline ends; a dead holder frees it;
* takeover: after a stop every harness is where its user left it; a snapshot
  never records our own address; a taken-over upstream keeps its relay; what
  listens can be found by stop; no lock inversion with the restarted service;
* store: readers never see half a text; what was reported as saved stays;
* hot reload: a skipped reload hides no change; a saved change is in force for
  the next request; broken files are never served;
* pipeline: bounded concurrent calls, bounded cache, a budget for history
  images, every request ends, misses and failures never become an error;
* selection: a foreign key goes to a pinned relay only as a last resort;
* fallback: a request fails only when both ways to its provider were closed, is
  put to an upstream at most once, in the form of the address it goes to, and
  takes the client's key to nobody else;
* entries: after a stop every entry has the address and the gate its user chose,
  while the service runs every one that is taken over has a relay to its own
  address, and reconciliation settles;
* labels: the user's word goes before what was measured and that before what
  was guessed, and the screen shows the label that decides.

## 2. The modules

| module | models | composed of |
|---|---|---|
| `ReentrantMutex` | what the lock promises (abstract) | |
| `ConfigLock` | `locking.py` | implements `ReentrantMutex` |
| `Takeover` | lifecycle, wiring, reconcile | |
| `ConfigStore` | `proxy.json` and its writers | |
| `HotReload` | the service following `proxy.json` | extends `ConfigStore` |
| `VisionPipeline` | requests, cache, semaphore | |
| `RelaySelection` | the four layers of `_select_relay`, as operators | |
| `Delivery` | what the proxy promises about one request (abstract) | |
| `RouteFallback` | the way of requests to their upstreams | extends `RelaySelection`, implements `Delivery` |
| `ProviderEntries` | qwen-code and zcode, entry by entry | |
| `CapabilityLabels` | labels, who writes them and how they are read | |
| `ConfigLockProofs`, `TakeoverProofs`, `ConfigStoreProofs`, `HotReloadProofs`, `VisionPipelineProofs`, `RouteFallbackProofs`, `ProviderEntriesProofs`, `CapabilityLabelsProofs` | theorems | extend their module |
| `MCConfigLock`, `MCTakeover`, `MCVisionPipeline`, `MCRouteFallback`, `MCProviderEntries`, `MCCapabilityLabels` | instances for TLC | extend their module |

**ConfigLock.** `holder` is the owner of the `flock`; `depth[t]` the
thread-local counter of `_reentrant`; `blocks[t]` the open `with` blocks, which
the counter is meant to equal; `trying[t]` a block of `try_config_lock`;
`wait[t]` the polling loop and its deadline. One action per path through the
two functions. `ReentrantMutex` has only `Take`, `Again`, `Leave` and `Die`.

**Takeover.** A harness is one with a single `base_url` (claude, or codex with
its catalog). `live`, `bak`, `snap`, `catalog`, `catBak` are the files,
`direct` the relays `direct-<h>` in `proxy.json`, `intent` and `pidFile` the
two flags, `lock` the config lock as a mutex (what `ConfigLock` shows it is).
`boot[s]`, `rec[p]`, `stp` are the positions of the processes in `cmd_start`,
`reconcile` and `cmd_stop`, with their local variables; `cfg[p]` is the copy of
the configuration that process loaded. An action ends at a write that another
process can see or a crash can follow. `orig` and `absorbed` are history:
the user's last choice, and whether the current takeover came from an
absorption. `Ours`, `NoUrl`, `NoFile` are values a file can hold besides the
addresses of tools and providers.

**ConfigStore.** Files are inodes, since two writers can have the same
temporary file open: `main` and `tmp` are the names, `inode` the texts, a text
its state (whole, torn, garbled by hand), the commands whose changes it has,
and its modification time. `cmd[c]` is the position of a command, its copy and
open file.

**HotReload.** `served` and `mark` are `server.cfg` and `server.cfg_mtime`,
`conn[t]` the configuration a connection captured in `setup`, `req[t]` the
position in `_current_cfg` and `do_POST` with its locals, `verdict` the
table's one remembered verdict. A configuration is the text it was loaded
from. `Write` is any step of `ConfigStore`.

**VisionPipeline.** `store` is the `OrderedDict` as a sequence of keys, `aged`
those past their time to live, `permits` the semaphore, `req[r]` the position
of a request in its list of images (current turn, golden window, deep history).
`get` and `put` are as many steps as they touch the dictionary. `spent` and
`disturbed` are history.

**RelaySelection, RouteFallback.** A relay is its name, protocol, the models its
patterns match, the fingerprints it is pinned to and the tool it goes by
(`via`). `req[r].pc` is the position of a request thread in `do_POST`:
`route`, `probe` and `store` are `PortCache.online` (the clock is read before
the port is tried, and the answer stored with that time), `choose` is
`resolve_effective_relay`, `emit`, `announce` and `append` are `_emit_mode`,
`send` and `wait` are `_forward`, `retry` the branch of `ConnectError`. `cache`
and `lastMode` are shared by the threads without a lock. `alive` and `archive`
are the world: ports that come and go, providers that the user switches in a
tool. `fault`, `ago` and `crossed` are history: what has gone wrong while a
request was under way, for how long a port has not been in a state, and tools
whose mode two threads announced together. `Delivery` sees of a request its
phase and how many addresses have refused it. An assumption says that no
configured relay has the name `default`: the code takes that name for a relay
without address.

**ProviderEntries.** One harness, with `disk` its file (a sequence of entries:
id, `envKey` or kind, address, image gate), its snapshot, its whole-file backup
and the relays made for it. `WriteKey` and `ReadKey` are the keys under which
the snapshot has an entry, which for qwen-code depend on the other entries.
A start is two steps, so that it may die between rewriting the file and saving
the snapshot; other commands follow one another. `own` is history: what the
user chose for each entry. `lostUrl` and `lostGate` name the entries for which
the program never had a way to know it: they are excused, and the comments on
the actions say why.

**CapabilityLabels.** One model, `file` the labels as `proxy.json` has them, in
the present form and in the three older ones a user may still write. `Rows` are
the lines of the matrix on the screen, with the provider the screen shows and
the one the service takes the requests to be for: they are computed
separately. `Set`, `Probe`, `Onboard`, `EditAll`, `List` are the commands,
`Write...` hand edits. `word` and `measured` are history.

## 3. The runs

| run | states | shows |
|---|---|---|
| `lock` | 189 | type, `MutualExclusion`, `CounterIsHonest`, `OnlyTheHolderReleases`, `WaitEnds`, and that `ConfigLock` implements `ReentrantMutex` |
| `takeover_serial` | 655,364 | `StopRestoresOriginal`, `ServerIsReachable`, `AbsorbedHasRelay`, `ReconcileConverges`, one command at a time, with crashes |
| `takeover_racing` | 1,868,107 | type, `SnapshotNeverOurs`, everything interleaved |
| `takeover_rivals` | 34,040 | `LockDiscipline`, `StartEnds`, `LockIsLent` with two starts that crash and restart each other |
| `hot_reload` | 5,008,254 | type, `NeverTorn`, `MarkIsTrue`, `FreshRoute` |
| `vision_pipeline` | 204,888 | type, `CallsBounded`, `CacheBounded`, `OnlyRacesRaise`, `BudgetHolds`, `EveryRequestEnds` |
| `routing` | 830,862 | type, `NoNeedlessFailure`, `ClientKeyStays`, `BodyFitsTarget`, `EventsAlternate`, `AnswerIsRecent`, and that `RouteFallback` implements `Delivery` (`AtMostOnce`) |
| `entries` | 573,015 | type, `Settles`, `AddressesComeBack`, `GatesComeBack`, `EntriesAreServed` |
| `labels` | 500,488 | `Precedence`, `ShownDecides`, `LoadIsStable` |
| `stop_race`, `lost_word`, `unread_label` | | violations, section 6 |

Bounds and why they are enough for the question asked:

* `lock`: two threads of one process and one of another, `MaxNest = 3`: a
  process can die with one thread inside and one waiting; nesting deeper only
  repeats the counter.
* `takeover_serial`: two harnesses (one with a catalog), one tool, two
  provider addresses, so that an edit is distinguishable from the original;
  two service slots, since `reconcile` restarts one while another may be
  dying. `Serial` makes commands follow one another. Harness files start with
  a provider address (what happens to one that appears later is told in
  section 6).
* `takeover_racing`: one harness is enough for a property of one snapshot; a
  service, a refresh and a stop overlap in every way. The address reached from
  every kind of initial file (none, without `base_url`, with one).
* `takeover_rivals`: one harness without catalog. The properties are about
  the lock and the port; two services contend for both.
* `hot_reload`: one locked and one unlocked writer, two hand edits (one can
  break the file, one repair it), two requests: a change may come before,
  between and after the steps of the first request, and the second one sees
  what it recorded. `Overlap = FALSE` is the case in which the properties
  hold.
* `vision_pipeline`: capacity one and one permit for two requests with two
  images in common, so that every insertion evicts something the other request
  may hold; 500 entries and 5 permits need as many images and requests to show
  the same. Three attempts as in the code (`VLM_MAX_ATTEMPTS`).
* `routing`: two threads and two requests, one tool with its archive at a time
  that both change, two changes of the world or ticks of the clock, `TTL = 1`:
  enough for a cached answer that another thread stored, that has become
  false, or that is stored late, and for a request whose two ways close one
  after the other. The lists of relays have pinned and open ones, for the key
  of the call and for another, in front of and behind each other, with some
  suppressed. The theorems cover every other number.
* `entries`: a qwen-code file with two entries that share an `envKey`, one
  that goes to a tool, one zcode file, a third entry that may come, two edits,
  any number of commands.
* `labels`: two harnesses that share a provider, a row without one, files of
  the first run and of two older versions; five commands or edits.

`SlotSymmetry` is used only in `takeover_serial`, which has no liveness
property, and `ThreadSymmetry` in `routing`, whose refinement is a safety
property and treats threads alike. `CHECK_DEADLOCK FALSE` is set where the modelled processes run out
of work: commands that save once, requests and edits that are bounded.

## 4. Fairness

* `ConfigLock` (`PollingFairness`): a thread that polls goes on polling, and
  time passes. A holder inside the block is *not* assumed to leave: that is why
  the wait needs its deadline. `config_lock(timeout_s=None)` may wait for good
  and is excluded from `WaitEnds`.
* `Takeover` (`LiveSpec`): weak fairness of each process's own steps (a process
  that runs goes on running until it is done or dies). Nothing outside is
  fair: no start, stop, refresh, edit or crash has to happen.
* `VisionPipeline` (`LiveSpec`): weak fairness of each request's steps: threads
  run, and a model call returns or times out (`httpx` timeout in `vlm.py`). A
  request that waits for a permit may be overtaken; weak fairness is enough
  because every request makes finitely many calls.
* The other modules state no liveness: `RouteFallback` ends because a thread
  has no loop (`Delivery` allows one retry), the commands of `ProviderEntries`
  and `CapabilityLabels` are single steps, and no user has to do anything.

## 5. What is proved

TLAPS checks all of it, for every value of the constants that satisfies the
module's ASSUME.

* `ConfigLockProofs`: `Types`, `Exclusion`, `HonestCounter`, `Release`, `Refinement`.
  The inductive invariant ties the counter of a thread to the ownership of the
  file: without it, `TimeOut` could release somebody else's lock.
* `TakeoverProofs`: `Types`, `Discipline`, `Snapshots`. The invariant is
  `TypeOK`, plus `Cursors` (a process in the middle of a harness names one),
  `OneRole` (a service process is in `reconcile` only where `cmd_start` calls
  it), `LockDiscipline` and `SnapshotNeverOurs`. `SnapshotNeverOurs` alone is
  not inductive: that an absorbed address is foreign comes from the
  observation kept in `rec[p].cur`, and the copy stop works with has to be
  foreign as well. These three hold however the processes interleave.
  Four theorems are about commands that follow one another (`Serial`), with
  crashes at any point: `ServerIsFound` (`ServerIsReachable`),
  `AbsorbedKeepsRelay` (`AbsorbedHasRelay`), `OnePassConverges`
  (`ReconcileConverges`) and `StopGivesBack` (`StopRestoresOriginal`). The
  guards say only that nothing *begins* while something else runs; that a
  process under way is then alone, although a reconciliation starts a service
  and waits for its port and a stop can kill one, is the first part of the
  invariant (`Places`: who is alone, and when the pid file names whom).
  `Seen` adds that what a process has read of the files is still so, which
  gives `OnePassConverges`; `Relayed` that the relay of every absorbed harness
  is in `proxy.json` and in each copy of it that will be saved, except while
  the absorption itself is between its writes; `Recoverable` that every file
  of ours has a snapshot or a backup, and that it is right as soon as a stop
  may use it.
  `StopGivesBack` needs two hypotheses more (`PlainFiles`): every harness has
  its file before the first start, and what the user puts into one is a
  provider's address. Without the first, a file that appears while the service
  runs is reclaimed with no record (section 6); without the second, a tool's
  address that the user chose by hand is no different from one the tool wrote.
* `ConfigStoreProofs`: `WholeTexts` (`NeverTorn`) and `StoreNames`. While no
  command without the lock has begun to write, `OneWriter` holds: the holder
  of the lock is the only command that is writing, it owns the temporary file,
  and what it has filled is whole. The proviso is needed: with an unlocked
  writer one renames what the other is still filling. In the code `start`,
  `stop` and onboarding are such writers. `StoreNames` needs no proviso.
* `HotReloadProofs`: `ServerTypes`, `TrueMark`, `Freshness`, under
  `Overlap = FALSE` and with any writers. `TrueMark` needs that a modification
  time names one text for good (`Clock`, `NewTmp`: a file renamed into place
  may carry an *older* time than the one it replaces, but never one that was
  read or recorded before), and what a request knows at each step of its
  reload (`Knows`).
* `VisionPipelineProofs`: `Types`, `Permitted` (`CallsBounded`), `RacesOnly`
  (`OnlyRacesRaise`), `Budget` (`BudgetHolds`), `Bounded` (`CacheBounded`), for
  any requests, conversations and limits. `Permitted` is the accounting of the
  permits. `RacesOnly` and `Budget` rest on what a request that nothing has
  disturbed may rely on: what it has read of the cache is still there and as
  old as it was (`Steady`), and a look that may end in a model call has been
  paid for or will find the description (`Paid`); the budget alone is not
  inductive, because it is charged at the first look and spent after the
  second. `Bounded` counts what is owed (`Owed`): an entry above the capacity
  is owed by a request that is evicting or by one that is about to touch that
  entry, and two that are about to touch the same entry owe it once, since
  both raise without evicting when it has gone.
* `RouteFallbackProofs`: all that the run `routing` checks: `Types`,
  `DeliveredAtMostOnce` (`RouteFallback` implements `Delivery`), `KeyStays`,
  `BodyFits`, `AnswersAreRecent`, `FailsOnlyWithCause`, `ChangesToldOnce`, for
  any threads, relays, calls, archives and any time to live. `Control` says
  which steps a first attempt and a retry can be at, which bounds the refusals.
  `Address` ties a request to what `_select_relay` gave; `ForeignIsLast` is the
  lemma on the four layers that `KeyStays` rests on. `Recent` bounds the age of
  what the cache and the threads say, from which `Excused` follows: an answer
  "offline" out of the cache means that the port was closed while the request
  was under way or within the time to live before. Other threads come into
  `Excused` by `Recent` alone, so that nothing need be known of them. `Told`
  says what the events say while at most one thread announces.
* `ProviderEntriesProofs`: all that the run `entries` checks: `Types`,
  `Settling` (`Settles`), `AddressesAreBack` (`AddressesComeBack`),
  `GatesAreBack` (`GatesComeBack`), `Serving` (`EntriesAreServed`), for any
  entries, envKeys, addresses, files and edits. `Types` and `Settling` follow
  from the shapes alone. The others are a matter of keys: the program writes
  an entry under the key that the file suggests at that moment
  (`WriteKey`) and reads it later under the most particular one there is
  (`ReadKey`), when the other entries may have changed. The invariant
  therefore says that an entry that is not lost leads where its user wants, or
  that the key it will be *read* with has that address (`UrlsKnown`), and for
  an envKey that entries share that nothing is recorded which one of them
  would take for its own when the first entry moves (`Steady`). `Keyed` says
  that a key of an entry's own never hides a shared one. `GatesKnown` is the
  same for gates, and that a gate the program changed is open. All of it is
  about what is recorded once the start under way has saved what it read;
  `MixedTaken` and `JustOpened` say what is left when it dies before. `Chat`
  is why a relay kept for its address serves entries that came since. TLC
  checked the invariant on the instance of the run and on four others with
  different files before it was proved. `FilesAssumption` is what the proofs
  need of the files: ids differ, nothing leads to the proxy before the first
  takeover, and a zcode entry has a kind.
* `CapabilityLabelsProofs`: all that the run `labels` checks: `Always` (types),
  `Stable` (`LoadIsStable`), `UserThenProbe` (`Precedence`),
  `WhatIsShownDecides` (`ShownDecides`), for any matrix, harnesses, catalog and
  first file, and any number of commands and edits (the bound `MaxSteps` is in
  the guard of `Next`, for any value). The invariant is that the histories say
  what a load of the file finds (`Remembered`). It needs `DialogueIsUsers`: the
  dialogue writes labels and leaves their sources as they are, so that a
  dialogue's slot whose source said "probe" would never be the user's again.
  Nothing in the code writes such a source there, which `LabelsAssumption`
  says of the first file. The rest is about searches: two that begin alike find
  the same (`SevenDecide`), and the matrix's search ends where the service's
  does (`Shown`).

Only model-checked: liveness under fairness (`WaitEnds`, `StartEnds`,
`LockIsLent`, `EveryRequestEnds`), which is outside the prover's reach. Every
safety property of every passing run is a theorem.

## 6. Where code and documentation disagree

Each is a run that TLC ends with a counterexample; quotes are in
`PROJECT.json`.

* `stop_race`: `cmd_stop` restores without the lock; a `reconcile` that
  observed the service alive points the file back afterwards.
* `lost_word`: commands lock the save, not the load; a probe that was away for
  thirty seconds overwrites what the user set meanwhile.
* `unread_label`: for a harness that calls its provider directly, the matrix
  stores a label under the name in the address, and the service looks for it
  under the name of the relay: what the user sets is never read.

Further weaknesses the models show and no run lists.

Wiring and reconcile:

* a harness file made while the service runs, and taken by a tool, is reclaimed
  (`reconcile.py:324`) without snapshot or backup; stop has nothing to restore
  it from and leaves it pointing at the stopped service;
* with two reconcilers at once a fresh direct relay can be overwritten (as in
  `lost_word`);
* a start that loses the port leaves its pid in the pid file, and stop then
  answers "not running";
* a start after an absorption and a crash copies our own wiring as the
  whole-file backup;
* reclaiming codex does not patch a catalog the tool wrote.

The service:

* two request threads that reload across one write leave the older
  configuration in force with the newer time recorded (`server.py:234-239`):
  why `hot_reload` has `Overlap = FALSE`;
* the verdict table lives as long as the process (`server.py:397`) and so
  longer than the configuration its verdicts were made from
  (`capability.py:66-68`);
* two threads that announce modes of one tool together can append events in
  an order that is not that of the announcements: why `EventsAlternate` has
  `crossed`.

Entries:

* a gate recorded in an earlier session closes one the user has opened since;
  two entries of one `envKey` share the record (`modalities.py:26`);
* absorbing the global address of qwen-code replaces the snapshot by one
  without the entries' addresses (`reconcile.py:180`);
* a zcode entry whose kind changes while it is at the proxy is never absorbed
  (`zcode_providers.py:52`);
* the models of an existing qwen-code relay are never updated
  (`qwen_providers.py:227`);
* editing the first entry of an `envKey` records the shared key again, and
  entries without an edit may follow it (`qwen_providers.py:62-82`);
* a zcode snapshot is never removed, so that every diagnosis reports a repair;
* a start that dies between the rewriting and the saving of the snapshot loses
  the addresses (`wiring_orchestrate.py:82-108`);
* a qwen-code file without a global address has the proxy recorded as its own,
  and one whose global address was moved is not restored at all.

What of this concerns addresses and gates is excused by `lostUrl`, `lostGate`
and `Mixed`, whose comments tell it.

Labels:

* the answers of the command `models` are not read once a row of the model has
  a label, and setting one row drops the answer for the others of the harness;
* a label under `?` is shown and never read;
* a probe for one harness changes the verdict for another with the same
  provider;
* the dialogue's later rounds compare the model's name over all harnesses
  (`onboarding.py:285`), not per harness as line 3 says;
* the answers for a relay's template go to the group `relay`, which nothing
  reads.

## 7. The plan

Order: what writes users' files first, then what serves requests.

1. *(done)* `ConfigLock` with `ReentrantMutex`; `Takeover`; `ConfigStore` and
   `HotReload`; `VisionPipeline`; type correctness and safety proofs for them.
2. *(done)* `RelaySelection`, `RouteFallback` with `Delivery` and the proofs of
   all their properties.
3. *(done)* `ProviderEntries`; `CapabilityLabels` and its proofs.
4. *(done)* Proofs about `ProviderEntries` and about serial commands in
   `Takeover`.
5. Which image blocks survive a round trip through `ir.py`; `VisionLog`; the
   scans of `model_sources.py`.

## 8. What is not modelled

* In `Takeover`: `auto_wire = false`; the template and tool relays and key
  references; onboarding; the branch of `_terminate` that cannot kill the
  process; a failing copy of a backup; the start token of the pid file on
  platforms without one; Unix `SO_REUSEADDR` details of bind. `base_url` and
  catalog patch of one rewrite are one step, and so are the read of a file and
  its backup copy. A snapshot's second hop follows from its address. A tool's
  edit of a file that was not ours makes the user's choice unknown (`orig` =
  None).
* In `ConfigStore`: deleting `proxy.json` (defaults are loaded), the legacy
  path, environment overrides that `save_config` persists, failures of
  `json.dump`; every write has a time of its own, so equal modification times
  within the clock's resolution are left out.
* In `HotReload`: reading a file is one step (rename makes it so); `getmtime`
  failing; the verdict table has one entry.
* In `VisionPipeline`: the passthrough for image models, depth limit 50 and
  images in system messages, follow-up notes, prompts and wording, the record
  of vision calls.
* In `RouteFallback`: the streaming of an answer, requests whose body is no
  JSON or whose path is unknown, what a provider answers (any status is an
  answer), the health and model list of `do_GET`; the image processing between
  selection and forwarding (`VisionPipeline`) has no part in the route.
* In `ProviderEntries`: entries the program leaves alone, several models of a
  zcode entry, the question whether the zcode application runs, the other
  harnesses of `settings_set`. Commands follow one another: `Takeover` has
  them race.
* In `CapabilityLabels`: the keys of the dialogue, the built-in list behind
  `suggest`, choices of several rows at once (each is a step), and
  `auto_annotate`, which nothing calls.
* `ir.py`, `stream.py`, `model_sources.py`, `env_util.py`, `logging_util.py`,
  the GUI: data conversion, read-only scans, presentation.
