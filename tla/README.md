# ANTA: models, checks and proofs

ANTA (Arista Network Test Automation) runs a catalog of tests on an inventory of
network devices: it connects the devices, works out which test runs on which
device, collects the commands of the tests through eAPI, lets each test judge
the outputs, and reports the results. It is one asyncio program: everything
between two awaits that really suspend is atomic, and whatever is hard about it
is what can happen at those awaits, what a partial failure leaves behind, and
state that is kept from one call to the next.

This directory holds TLA+ modules translated from the Python source, the TLC
configurations that check them on small instances, and theorems TLAPS checks for
every value of the constants. Paths below are relative to the root of the
repository.

    tlc -workers 2 -config MCRunner.cfg MCRunner.tla
    tlapm CommandCacheProofs.tla

## Inventory of the system

| Component | Source | State | Operations |
|---|---|---|---|
| Command cache | `anta/device.py` `AntaCache`, `AntaDevice.collect` | ordered dictionary of entries, dictionary of locks, clock | `get`, `set`, `clear`, `collect` |
| Device | `anta/device.py` `AsyncEOSDevice` | httpx client, `is_online`, `established`, `hw_model`, command semaphore | `refresh`, `disconnect`, `_collect`, `collect_commands`, `copy` |
| Catalog | `anta/catalog.py` `AntaCatalog` | list of tests, index by tag, flag | setter, `build_indexes`, `clear_indexes`, `get_tests_by_tags`, `merge_catalogs` |
| Catalog files | `anta/catalog.py` | none | `parse`, `from_dict`, `from_list`, `dump`, `AntaCatalogFile` |
| Classes of tests | `anta/models.py` | attributes of the class | `__init_subclass__`, `AntaTemplate.render`, `AntaCommand.uid` |
| Listing of tests | `anta/cli/get` | none | `get tests`, `get commands` |
| Runner | `anta/_runner.py`, `anta/settings.py` | `AntaRunContext` of each run | `run` and its stages |
| Test | `anta/models.py`, `anta/decorators.py` | commands of the instance, `result` | `__init__`, the `anta_test` wrapper, `collect`, `skip_on_platforms` |
| Test results | `anta/result_manager/models.py` | status, atomic results | `is_success`, `is_failure`, ..., `add` |
| Result manager | `anta/result_manager/__init__.py` | list, two statuses, cached groupings, statistics | `add`, setter, `reset`, `sort`, `filter*`, `merge_results`, readers |
| Inventory | `anta/inventory` | dictionary of devices | `parse`, `get_inventory`, `connect_inventory`, `disconnect_inventory`, `dump`, `max_potential_connections` |
| eAPI client | `asynceapi/device.py`, `_models.py`, `errors.py` | httpx client | `cli`, `jsonrpc_exec`, `logout`, `aclose`, `EapiResponse.from_jsonrpc` |
| Session authentication | `asynceapi/_auth.py` | cookie, lock | login on first use, `reset` |
| Configuration sessions | `asynceapi/config_session.py` | the session on the device | `push`, `load_file`, `commit`, `abort`, `status`, `write`, `diff` |
| Port check | `asynceapi/aio_portcheck.py` | none | one TCP connection |
| Network tests | `anta/tests`, `anta/input_models` | none | about 150 verdict functions |
| Types | `anta/custom_types.py`, `constants.py` | none | conversions and validators of test inputs |
| Tools | `anta/tools.py` | none | pure helpers |
| Reporters | `anta/reporter` | none of their own; they fill the caches of the result manager | tables, summaries, text, JSON, CSV, Markdown |
| Command line | `anta/cli` | the click context, exit code, files it writes | `nrfu`, `exec`, `get`, `debug`, `check` |
| Logging | `anta/logger.py` | none | writes messages |

**How they interact.** `AntaRunner.run` filters and connects the inventory
(`refresh` of every device at once), builds the index of the catalog it was
given, queries it for each device, creates one coroutine per test and device and
runs them under a semaphore with `asyncio.gather`. Each coroutine is an
`AntaTest`, which gathers `device.collect` for its commands; collect goes through
the cache of the device, which all the tests on that device share, and
`_collect` through the command semaphore and the eAPI client. A test ends with a
`TestResult`, which the runner adds to the `ResultManager`; reporters and the
command line read it. The inventory and the catalog outlive a run, and the
command line or a user's script may start several runs on them.

**What is hard, and what would make each component correct.**

- *Command cache*: concurrent calls for one uid, entries that expire and locks
  that are deleted while others hold or await them, eviction. Correct when no two
  calls ask for one uid needlessly, nobody inherits another call's failure,
  what is served is recent, the cache is bounded, and no call waits for ever.
- *Catalog*: an index that is kept between runs and that adds up. Correct when it
  matches the list of tests, and queries answer what they say.
- *Runner*: early returns, exceptions out of a gather, runs that share devices.
  Correct when each wanted test runs once and is reported once, no more than the
  configured number at a time, devices are released on every way out, and every
  run ends.
- *Test*: partial failure of the collection, statuses that overwrite each other.
  Correct when no verdict is given on missing data and no alarm is lost.
- *Result manager*: cached and lazily computed views. Correct when every reader
  sees the list as it is now, and the overall status does not depend on the
  order in which tests ended.
- *Device*: refresh, disconnect and collections that overlap. Correct when a
  device that is disconnected stays so and the flags match the client.
- *Session authentication*: logins at the same time, resets, expiry, lost answers.
  Correct when one login serves all, no request goes out without a session, no
  session is forgotten while the device still knows it, and no call waits for ever.
- *eAPI client*: one answer for several commands. Correct when every command of the
  request is accounted for, whatever failed.
- *Configuration sessions*: timers, lost requests and partial pushes. Correct when
  the running configuration is what the caller who saw only the answers thinks.
- *Files*: inventories, catalogs and Ansible inventories. Correct when nothing of
  the file is lost on the way in and nothing of the object on the way out.
- *Classes and types*: names inherited from a parent class, commands told apart by a
  text, inputs converted while they are read. Correct when two tests or two commands are
  not taken for one another, and what was converted once may be read again.
- *Listing*: a walk through packages that imports them. Correct when it lists every
  test of every module and no other, or says that it failed.
- *Reporters*: two managers, lazily computed views. Correct when the sections of a
  report tell of the same tests.
- *Command line*: many ways to fail between the options and the exit code. Correct
  when exit code 0 means that all went well and no output is lost in silence.

`PROJECT.json` lists the hazards one by one with the line where each bites and
the properties that would catch it.

## Modules

| Module | Models | Extends / uses |
|---|---|---|
| `CommandCache` | `AntaCache` and `AntaDevice.collect` of one device | |
| `Catalog` | `AntaCatalog`: list, index, queries | |
| `TestExecution` | one `AntaTest` and its `TestResult` | |
| `DeviceLifecycle` | `refresh`, `disconnect` and `_collect` of one `AsyncEOSDevice` | |
| `Runner` | `AntaRunner.run`, several runs on one inventory and catalog | extends `Catalog`, whose operations its steps call |
| `ResultManager` | `ResultManager` | |
| `Reports` | the reporters and the commands of `nrfu` that print | extends `ResultManager` |
| `SessionAuth` | `EapiSessionAuth`, and requests, `logout` and `aclose` of one client | |
| `SessionContract` | what a client with a session promises | refined by `SessionAuth` |
| `EapiClient` | `cli`, `jsonrpc_exec`, `from_jsonrpc`, `_collect`: one request and its answer | |
| `ConfigSession` | `SessionConfig` and the device it configures | |
| `Inventory`, `CatalogFile`, `InventoryImport` | inventory files, catalog files, Ansible inventories | |
| `InputTypes` | the types of inputs that convert, a value read twice | |
| `TestCommands` | the commands of a test, their uids and requests | |
| `TestClasses` | attributes of test classes | |
| `Listing` | `anta get tests` and `anta get commands` | |
| `CommandLine` | one invocation of `anta` | extends `ExecCommands` |
| `ExecCommands` | the gathers of `anta exec` | |
| `MCTests` | every small value, list of commands, catalog file and listing, over one set of test classes | extends `InputTypes` and `TestCommands`, composes them with `TestClasses`, `CatalogFile` and `Listing` |
| `MCData` | these, every small answer and inventory, a catalog with its index, and a configuration session | extends `Catalog`, `ConfigSession`, `EapiClient`, `Inventory` and `MCTests`, instantiates `InventoryImport` |
| `MC*` | instances for TLC | the module they are named after (`MCResultManager`: `Reports`) |
| `CommandCacheProofs`, `CommandLineProofs` | theorems | the module they are named after, `TLAPS` |
| `EapiProofs` | theorems on the session authentication, the client and configuration sessions | `SessionAuth`, `EapiClient`, `ConfigSession`, `Loops` |
| `DeviceProofs` | theorems on a device and on inventories | `DeviceLifecycle`, `Inventory`, `Loops` |
| `TestProofs` | theorems on tests, their commands and their inputs | `TestExecution`, `TestCommands`, `InputTypes`, `Loops` |
| `RunnerProofs` | theorems on the catalog and the runner | `Runner` |
| `ResultManagerProofs` | theorems on the result manager and its reports | `Reports`, `Loops` |
| `Loops` | induction over a loop on a list | instantiated by `ResultManagerProofs`, `EapiProofs`, `DeviceProofs` and `TestProofs` |

An action is what one coroutine does between two suspensions. Operators named
after a "Mutant of" comment are wrong variants of the definition below them, the
bug a change of the code could introduce; each breaks one property, which shows
that the property depends on the code.

### CommandCache

A task is one call of `collect`. It suspends in two places only: in
`async with self.cache.locks[uid]` when the lock is taken (`Wait`), and in
`_collect`. `Get...` are the five outcomes of `AntaCache.get` run inside the lock:
`GetMiss`, `GetNone` (a cached `None` counts as a hit for `get` and as a miss for
`collect`), `GetHit`, `GetExpired` (which deletes entry *and* lock), and
`GetExpiredTwice` (the lock is not there any more: `KeyError`). `DeviceReads` is
the moment the device runs the command; the *reading* is that moment, so that two
answers differ exactly when they were taken at different times. `Answer`,
`NoAnswer` and `Raise` are the ways `_collect` ends, followed by `set` and the
release. `CollectUncached` is the path without a cache. `Clear` is
`AntaCache.clear`.

A lock object has the name of the task whose look-up in the `defaultdict` created
it; a uid may have had several. `asyncio.Lock` is external: it is FIFO and a
newcomer never passes a waiter that was woken, so a release is a hand-over.
`dropped`, `asked` and `ended` are history. The counters of hits and requests are
only logged and are left out.

### DeviceLifecycle

A task is one call of `refresh`, `disconnect` or `collect`. It suspends in
`check_api_endpoint` (`pc` is "checking"), in the command semaphore ("queued"), in
`cli` ("sent") and in `aclose` ("closing"). `EnterCollect` is the start of
`_collect`: `Refuse` when the client is closed, else `TakeSlot` or `WaitForSlot`.
A task that waited sends on the client there is when it is woken (`Send`), or is
refused by httpx if that is closed by then (`SendRefused`): the check of
`is_closed` is made before the wait. A client is named by the refresh that created
it; closing takes effect before `aclose` is awaited, as in httpx. `CheckRaises`,
`RequestRaises` and `DisconnectRaises` are the exceptions that escape: they leave
the flags as they are. `crossed` is history: a refresh and a disconnect were under
way together. The semaphore is that of Python 3.11 and later, which hands a slot
to the first waiter. Requests that are under way when their client closes may
end in any way.

`Runner` takes a refresh and a disconnect for one step each; what can go wrong
between their awaits when two runs share a device is `DeviceLifecycle`'s subject.

### Catalog

`tests` is `_tests`, `index` is `tag_to_tests` (a `defaultdict(set)`: every key is
there), `built` is `indexes_built`. `used` remembers the filters of
`build_indexes`. The list is modelled as a set of definitions, because the index
and its queries are sets. `Extended` says what `build_indexes` does: it adds.
`TestsWithAny` and `TestsWithAll` are `get_tests_by_tags`, which leaves tags
without tests out before it takes the intersection. `MCData` checks the catalog by
itself, `Runner` as the runs use it.

### Runner

A run awaits in four places: `connect_inventory`, the semaphore of the tests,
the tests, and `disconnect_inventory`. `Start` is everything before the first of
them, `Refresh` one device of the connect gather, `Connected` all that happens
from the end of `connect_inventory` to the start of the tests
(`_setup_inventory`, `_setup_tests` with `build_indexes`,
`_get_test_coroutines`), `Admit`/`EndJob`/`RaiseJob` one
test, `Publish` what follows the gather, `Disconnect` and `End` the
`finally` clause. A device is the state of its client and of `established`;
`Address` is its host and port, by which alone devices are compared, so that two
devices with one address are one key of `selected_tests`. A
test on a device is a job that ends with a verdict, is cut off by a closed client
(an error result), or raises if its `test` is not wrapped by `anta_test`: then
the gather raises at once and the other jobs go on by themselves.

### TestExecution

`phase` is where the coroutine of the test is, `command` what became of each
command, `status` and `atomic` the result and its atomic results. `Construct` is
`__init__` with its error returns; `CallEnds` and `Call` are the wrappers up to
the gather, `CommandEnds` and `CommandRaises` the collections, also those that a
partial failure leaves running after the test has returned; `Gathered` is
`_handle_failed_commands` and what precedes the test's own code; that code is any
sequence of reports on the result and on atomic results, then a return or an
exception.

### ResultManager

One variable per attribute; the loop of the `results` setter is one `AddNext` per
turn (`todo` is what is left of it) and no reader comes between two turns. `filter`,
`filter_by_*` and `merge_results` return a new manager: the model goes on with it.
`sort` is any permutation, for any fields. `filter` goes through the statuses in
any order, because it iterates over a Python set. `results_by_category` is
filled and dropped like `results_by_status` and is left out.

### SessionAuth and SessionContract

A task is one request, `logout` or `aclose`. It suspends at a POST (`pc` is "login",
"sent" or "logout") and, when the lock is taken, in `acquire` ("queued"; "woken" once
the lock was handed to it). `LoggedIn` is read before the lock and again inside it
(`LogsIn`). `LoginAnswer`, `LoginFails`, `Answer` and `NoAnswer` are the ways a POST
ends; `Serve` is the moment at which the device treats it, so an answer may be lost
after it took effect, and `Expire` ends a session on the device. A request that is
refused (401) leaves the cookie where it is. A logout reads the cookie, posts, and
resets inside the lock (`ResetNow`, `WaitForReset`, `ResetAfterWait`); `aclose` also
closes the httpx client, on which every later call raises. `opened`, `lost` and
`crossed` are history.

`SessionContract` has neither tasks nor lock: the client holds at most one session,
gives it up before it opens another, opens each once, and sends a request with the
session it holds at that moment. `ImplementsContract` maps `held` to the cookie and
`carried` to the sessions of the requests under way. That the read of the cookie outside the lock is
harmless is part of it: nothing is awaited between the check and the attachment.

### EapiClient

A behaviour is one request: `asked` is the request with what fails of it and what the
caller wants of errors, `made` what the code makes of the answer. `AnswerOf` is what eAPI
answers (external): outputs up to the first failure, or with the outputs after it too if
`stop_on_error` is off, and an error with or without data. `JsonRpcExec` and `Cli` give the
exception or the outputs, `FromJsonRpc` a result for each command, `Collect` what a
test sees of the command it asked for behind `enable`; an error has the texts of its
details that are not empty, or else the message.

### ConfigSession

The device has a running and a startup configuration, pending sessions and a
fall-back with a timer; `Run` executes the commands of one request, of which
any prefix may be done when the answer is lost. Beside it stands `known`: what
a caller believes who learns only from calls that returned. A push types line by line, a
file is copied in one command, of which the device may execute a part.

### Inventory, CatalogFile and InventoryImport

Addresses are numbers of a family, so that a range can cross families or end at the
last address; names are texts. `DeviceTags` models the set object that all devices of a
network or range share. A behaviour of `Inventory` reads a file (`Load`), and then the dump
of the inventory it got (`Reload`). `Dump` writes the name of a device for its host and
raises (`Refused`) when some name is not `Valid` as one: `HostNames` are the names the type
of `AntaInventoryHost.host` takes, a host name or an address. A catalog file is a tree of entries as in YAML; `Flatten` is
`flatten_modules`, where a module spelled twice keeps the list read last, and
`CheckTests` refuses the whole file for one bad test, or keeps the tests with their
inputs as converted. `Dump` and `Serialized` are the way back: a test is written under
its `name` in the module that defines it. `InventoryImport` walks nested
mappings, given as sequences of pairs, as `deep_yaml_parsing` does.

### InputTypes, TestClasses, TestCommands and Listing

`Validate` is the pipeline of a pydantic type: what is converted `Before` the pattern or
list of literals, what that `Accepts`, and what is converted `After`. Three types convert
after their list. An interface is its word, numbers and case, a capability its words, so
that regular expressions become conditions on these. A behaviour reads a value
(`ReadValue`), and then what was kept (`ReadAgain`): a catalog that was dumped.

`TestClasses` has one record per class statement. `ClassName` and `DescriptionOf` are the
look-ups of `__init_subclass__`, in which a parent already has its name. In `TestCommands` a
behaviour makes the commands of one test: `InitCommands`
renders each template once for each set of parameters; `Uid` is the text that is hashed
(the hash itself is taken to have no collisions) and `Asks` what `_collect` sends. A text is a
sequence of words, and the separator of the uid is one of them.

In `Listing` modules are sequences of names. `Explore` is `_explore_package` with the
imports that `find_spec` and `import_module` make on the way, `Walk` is
`pkgutil.walk_packages` (external), which is called without a prefix and therefore looks
for the contents of an inner package under its bare name.

`MCTests` composes them: the names that `TestClasses` finds are those that `CatalogFile`
writes and `Listing` filters by, and the inputs of a catalog go through `InputTypes`.

### Reports

`PrintResults`, `PrintSummary` and `SaveMarkdownReport` read the manager that is shown
(this one or, with `--hide`, a filtered one) and fill the caches of the one they
read. `PrintTemplate` is `tpl-report`, which shows this manager whatever is to be hidden. The module extends `ResultManager`, so that every report follows any history
of adding, resetting, filtering and earlier reports.

### CommandLine and ExecCommands

`phase` is where the invocation is; each step may fail where the code expects it
(`Fails`) or raise what nobody catches, which `cli` turns into exit code 1. `results` is the
set of statuses the run brought, `output` the file at the path of the output option,
`Appear` another program that writes this file between the check and the write.
JSON and template reports without `--output` are printed, like a table, so `format`
"table" stands for them. `ExecCommands` has one job per device (per command and
format for a snapshot), which suspends at each exchange with its device; an exception ends the gather,
and `asyncio.run` cancels the jobs still under way.

## Checks

| Run | Question | States (about) |
|---|---|---|
| `command_cache` | what the cache and its locks guarantee with three calls | 343 000, with symmetry |
| `command_cache_live` | does every call end? | 399 000 |
| `device` | clients, flags and slots under concurrent calls, and that each ends | 176 000 |
| `runner` | selection, reporting, crash, disconnection, termination of two runs | 589 000 |
| `test_execution` | verdicts only on data, alarms last, a returned result is final | 7 400 |
| `result_manager` | status, statistics, grouping and reports after any history | 44 000 |
| `session_auth` | one login, no forgotten session, the contract, and that each call ends | 416 000 |
| `command_line` | exit codes, files, devices left out | 207 000 |
| `data` | every small answer, inventory, value, list of commands, catalog file and listing through the code that reads it; the index of a catalog after any history; configuration sessions | 28 300 |
| `command_cache_exclusive`, `inventory_tags`, `runner_isolation` | statements of the documentation that the code does not keep | see *Findings* |

**Bounds, and why they are enough.**

- *CommandCache*: three tasks are needed for the interesting schedule: one that
  holds the lock, one that waits for it, and one that comes after the expiry and
  creates the second lock. Time goes to 2 with `Ttl = 1`, so an entry can expire,
  be replaced, and expire again. `MaxSize = 1` with three uids makes eviction and
  the extra entry happen. The liveness run has one uid, so that all calls
  meet on its lock.
- *DeviceLifecycle*: four calls and one slot. A call that waits for the slot while
  the client is closed under it and opened again needs a holder, a waiter, a
  disconnect and a refresh.
- *Catalog*: two test classes with two tests each: one with different tags, one
  without tags and one with both tags; all filters, all subsets as lists, and a query
  that has a tag no test has.
- *Runner*: two devices with different tags and, as in the code, their own names as
  tags, and a third with the address of the second; a test for all, a test for leaves that is not wrapped and may raise, and one
  for a single device, by its name, whose class cannot be instantiated;
  `MaxConcurrency = 2` and three jobs at most per run, so that the semaphore is
  full; five argument records for the two runs: two devices with disconnect, tags
  and names, a single device reachable or not, an empty set of tags, and a dry run of
  one test on all three devices. With an empty and two different filters of names, a run
  finds the index as a run without a filter, or with another, left it.
- *TestExecution*: two commands (one fails while the other is on its way), two
  atomic results, three reports (an alarm, a report that might hide it, another).
- *ResultManager* and *Reports*: lists up to three, six results of two devices and
  two tests that share a category, all five statuses; two of the results have atomic
  results; nothing, the successes, or failures and errors hidden.
- *SessionAuth*: four calls. A forgotten session needs two logouts, a request that
  logs in between them and one that still uses the old cookie; a wait that never ends
  needs a holder and two waiters, one of them a logout.
- *EapiClient*: requests of up to three commands, the empty one among them, every set of
  failing ones, both settings of `stop_on_error` and `suppress_error`, errors with and
  without data, with and without a text.
- *Inventory*: up to two hosts, one network and one range over addresses 1 to 5,
  chosen so that names and addresses collide across the sections, a range ends at the
  last address, is empty, or crosses families; devices whose name no host may have: one
  with a port in it (the default name of a host with a port), one with an underscore.
- *InputTypes*: every alias, literal and table entry of the types that convert, with
  values outside them; interfaces with up to four numbers, both cases, subinterfaces.
- *TestCommands*: texts that contain the separator of the uid, in plain commands,
  templates and parameters, so that uids could coincide if the fields were confused;
  missing and superfluous parameters.
- *TestClasses*: a class that inherits, one with a name of its own,
  one without description, one that is refused.
- *CatalogFile*: a package with modules, one importing a class of the other, an inner
  package, and a module that fails to import; up to two entries with up to two inner
  ones, dotted and nested spellings of one module; inputs that convert and do not.
- *Listing*: the same package, with a namespace package, a module that fails with an
  `ImportError` or another exception, and a top-level package that has the name of the
  inner one and holds a module of the same name, another, or none.
- *InventoryImport*: two levels of groups of two hosts, with an address, other
  variables or none.
- *ConfigSession*: contents of up to three lines on two keys, so that a push adds to,
  overrides or leaves alone what is there, every prefix of every request lost.
- *CommandLine*: all commands, all combinations of the options that its guards
  read; two devices, one of a lab model, and three commands of which two share a
  safe name.

`CHECK_DEADLOCK FALSE` is set where the system stops: when all calls, runs or the
test have ended.

**Fairness.** Only weak fairness is used. The event loop runs every task that is
ready, so a task that is woken, a gather whose children have ended, and code
without an await go on. A request ends because httpx bounds it by the timeout of
the device, so `_collect`, `refresh` and `disconnect` end, well or badly. (The
command line always sets one, 30 seconds by default; a script that creates an
`AsyncEOSDevice` with `timeout=None` has no such bound, and for it the liveness
properties hold only as long as the devices answer.) Nothing
is assumed of a call that was not made: `EveryCallEnds` and `EveryRunEnds`
speak of calls and runs that have started. `SessionAuth` is fair to `Resume` only: an
idle task need not start and the device need neither answer (`NoAnswer` is the
timeout) nor end a session.

**What the properties say.** Each is stated in a comment above its definition;
the ones that carry most:

- `OverlapOnlyAfterExpiry`, `FailureIsOwn`, `HitIsRecentAnswer`,
  `CacheMovesForward` (`CommandCache`): what the locks really give, given that an
  expiry deletes them.
- `OneOpenClient`, `FlagsAreTrue`, `SlotsAreExact` (`DeviceLifecycle`): no client is
  lost while it is open; `online` and `established` are true of the client unless
  a refresh and a disconnect overlap or `aclose` raises; slots survive refusals,
  exceptions and changes of client.
- `PlanIsExact`, `ReportIsComplete`, `CutByAnother`, `NoConnectionLeft` (`Runner`):
  the planned tests are the wanted ones on every device that has its address for itself,
  and those of the names that were asked for as long as every run on the catalog
  asks for the same; a finished run reported each once; only another run or its own crash can
  close a client under a test; every way out disconnects what it connected.
- `JudgedOnData`, `AtomicAlarmsLast`, `ReturnedIsFinal` (`TestExecution`).
- `IndexIsExact`, `QueriesAreExact` (`Catalog`): the index is that of all builds since it was
  cleared; a union has the tests with some tag, an intersection of tags that have tests
  those with all of them.
- `StatusIsWorst`, `StatsAreExact`, `GroupingIsCurrent` (`ResultManager`), and
  `ReportsAgree` (`Reports`): the tables of one report add up to each other and to
  the results that are there now, and each result that is not hidden has its rows.
- `OneLogin`, `SessionsAccounted`, `ImplementsContract` (`SessionAuth`): see above; a
  session is forgotten only when two logouts overlap.
- `AnswerIsAccounted` (`EapiClient`), `InventoryIsComplete`, `DumpAndParse` (`Inventory`),
  `AnsibleHostsFound` (`MCData`), `CatalogIsComplete`, `ListingIsComplete` (`MCTests`):
  what goes in comes out, said independently of how the code
  computes it; where the code contradicts what its documentation says, the property
  says nothing (see *Findings*).
- `CachedAnswerFits` (`TestCommands`), `KeptIsKept` (`InputTypes`): commands with one uid are one request; a
  value that was converted and is read again stays as it is, or is refused by the three
  types that convert after their list.
- `SessionIsIntended` (`ConfigSession`): what a caller can know is so.
- `ExitZeroMeansGood`, `NoSilentOverwrite` (`CommandLine`), `NoSilentDevice`
  (`ExecCommands` in `CommandLine`): the last says that a job of `anta exec` did its work or
  logged an error, and that a file of a snapshot holds the output of its own command.

## Findings

Three runs check a sentence of the documentation and find a behaviour of the code
that contradicts it; the details and quotations are in `PROJECT.json`.

1. `ExclusiveAccess`: `AntaCache.get` deletes the lock of an expired uid while
   the caller holds it, so the next caller makes a new one and both ask the
   device. Waiters on the deleted lock go on one by one, and one of them can meet a
   second expiry with no lock to delete: `KeyError` (shown by `FailureIsOwn`, which
   bounds it).
2. `OwnNameSelectsOne`: the devices of a network or a range share one set of
   tags, and each adds its name to it, so the name of one, as a tag, selects all.

3. `OnlyNamedTests`: `build_indexes` adds to the index of an earlier build, so a run with
   a filter of test names, on a catalog that another run has used with another filter or
   none, plans the tests of both. `AntaRunFilters` calls `tests` the "Set of test names to
   run" (`anta/_runner.py:48`) and the runner is "stateless between runs" (`:167`).

**Cases the passing properties leave out.** In each of these the code does something that a
sentence of the repository denies. The model does what the code does; the property makes no
statement about the case, neither for the code nor against it, and so would not notice if the
code changed there.

| What the code does | What is said of it | Left out of |
|---|---|---|
| `catalog.py:538`: a strict query leaves out tags that no test has before it intersects | `catalog.py:518`: "returns only tests that contain all specified tags (intersection)" | `QueriesAreExact` |
| `_runner.py:386`: tests that the index has from a build with another filter are planned too | finding 3 | `PlanIsExact` (`OnlyNamedTests` states it) |
| `device.py`, `_keys`: two entries of an inventory with one host and port are one key of `selected_tests` (`_runner.py:403`), so that the tests of the second run on the first | `_runner.py:46`: "Set of device names to run tests on" | `PlanIsExact` |
| `inventory/__init__.py:397`: `dump` builds a validated host from the name of the device, and raises a `ValidationError` for one like `sw:8080`, the default name of a host with a port, or `leaf_1` | `:392`: "Dump the AntaInventory to an AntaInventoryInput. Each hosts is dumped individually." | `DumpAndParse` |
| `:400`: `is_base_class` looks for attributes that `AsyncEOSDevice` does not have, so the host and the port of a device are not dumped | the same | `DumpAndParse` |
| `asynceapi/device.py:493`: an error without data is an `IndexError` | `:450`: "EapiCommandError: In the event that a command resulted in an error response."; `:484`: "data will be empty" | `AnswerIsAccounted` |
| `cli/exec/utils.py:73`: two commands of a snapshot with one safe name write one file; the output of one of them is lost, with exit code 0 | `docs/cli/exec.md:86`: "The results of the executed commands will be stored in the output directory" | `NoSilentDevice` |
| `cli/nrfu/commands.py:135`: `tpl-report` shows the whole manager and ignores `--hide` | `docs/cli/nrfu.md:49`: "Option `--hide` can be used to hide test results in the output or report file" | `ReportsAgree` |
| `cli/get/utils.py:288`: `walk_packages` is called without a prefix: if an inner package has the name of a top-level one, its modules are listed twice, or the listing fails | `docs/cli/get-tests.md:27`: "retrieves all the tests available in ANTA" | `ListingIsComplete` |
| `models.py:549`: `getattr(cls, "name", cls.__name__)` finds the name of the parent, so a test that inherits from another and sets no `name` has that of the other, and is filtered and dumped as the other | `docs/advanced_usages/custom-tests.md:72`: "By default set to the Class name" | `ListingIsComplete`, `CatalogIsComplete` |

**Behaviours a reader may not expect**, which the properties name as exceptions:

- `reset` keeps the cached groupings; `GroupingIsCurrent` and `ReportsAgree` make an
  exception for a manager that was reset after it was read.
- A range that ends at the last address of its family is refused
  (`InventoryIsComplete`).
- A module that a catalog spells both dotted and nested keeps one of its two lists
  (`CatalogIsComplete`).
- `IPv4RouteType`, `RedistributedProtocol` and `SnmpVersionV3AuthType` convert a value after
  their list has accepted it. A catalog holds, and `dump` writes, the converted value, which
  the list refuses when the dump is read, as by whoever merges catalogs like
  `examples/merge_catalogs.py` (`KeptIsKept`, `CatalogIsComplete`).
- A test is dumped under its `name`: if that is not the name of its class, the dump is
  refused when it is read, or read as another test (`CatalogIsComplete`).
- Tests that a package defines in its `__init__` are not listed. A test without an example
  ends the listing with a `LookupError`, which `except ValueError` misses
  (`ListingIsComplete`).
- `InterfaceType` takes `Port-Channel` and `port-Channel`, not `port-channel`, which the
  types with a number accept (`InputTypes`).
- `get from-ansible` stops at the first host without variables and leaves out those
  after it (`AnsibleHostsFound`).
- Two logouts under way together may leave a session open on the device
  (`SessionsAccounted`).
- `get from-ansible` and `from-cvp` look at the output file before they fetch
  anything; what another program writes meanwhile is replaced (`NoSilentOverwrite`).
- `exit_with_code` returns 4 for failed tests and 3 for errors where its docstring says
  1 and 2, and `nrfu` ends with 0 when no device could be reached, because there are no
  results (`ExitZeroMeansGood`).
- An error that `eos_data` of the wrong length sets does not keep a test without
  commands from running; no property speaks of it.

## Proofs

All theorems hold for every value of the constants that satisfies the assumptions
named in the modules (`CacheAssumption`, `DeviceAssumption`, `CatalogAssumption`,
`TestAssumption`, `SessionAssumption`, `RunnerAssumption`, `ResultAssumption`,
`ReportAssumption`, `ExecAssumption`, `CommandLineAssumption`, `ConfigAssumption`,
`ClientAssumption`, `InventoryAssumption`, `TagsAssumption`, `CommandsAssumption`,
`ValuesAssumption`):
`Null` is none of the values it stands beside, functions have the domains and
ranges they should, bounds are natural numbers, and what is read has the shape that the
schema or the types in the code make sure of: entries and lists are finite sequences, the
parameters of a template are texts, an interface has a word and numbers, a revision is a number. TLC
evaluates these assumptions in the runs of the modules that state them.

- **CommandCacheProofs**: `TypeCorrect`, `OverlapNeedsExpiry`, `FailuresAreOwn`,
  `CacheIsBounded`. The overlap property alone is not inductive. `Inductive`
  strengthens the types with `LockInv`: an idle task has no lock
  (`IdleHasNoLock`); every lock object in use is either the one its uid's entry of
  `locks` names or was dropped (`LockIsListed`); a task between acquire and release
  is the holder of its lock (`InsideHolds`); the queue of a lock lists, once each,
  exactly the tasks that wait for it (`WaitersWait`); a lock in the dictionary
  belongs to a task that has started (`LocksStarted`). Two calls in flight on one uid
  whose locks were not dropped then have the same lock, hence the same holder.
  The critical step is the release that hands the lock over (`LeaveHandsOver`).
  `CacheIsBounded` rests on lemmas about `Without`, `Append` and `Kept`, which
  preserve that the order lists exactly the cached uids.
  `HitsAreRecent` and `CacheIsForward` are about what the cache answers. Both rest on
  `EntryStep`: a step keeps an entry, drops it, or replaces it by what the cached call
  that ends in it just got. A call that is over does not change (`DoneStays`), so
  every entry stays the answer of a finished call of its uid, stored when that call
  ended (`EntriesAreAnswers`); a call served from the cache found such an entry, still
  fresh (`ServedStep`). That the cache moves forward needs `ForwardInv`: cached values
  are from the past (`ValuesPast`), a lock object is named after a call of its uid
  (`LocksNamed`), a call that has read the device knows when (`HasRead`), and, while no
  expiry has deleted a lock of its uid, no answer stored for the uid is newer than
  its reading (`ReadIsLater`). The last is where exclusion matters: a call that stored
  in between would be in flight with it, which `OverlapOnlyAfterExpiry` excludes.
- **DeviceProofs**, on a device: `TypeCorrect`, `NoClientIsLost`, `FlagsTellTheTruth`,
  `SlotsExact`. The flags alone are not inductive: a refresh sets them after two
  awaits. `RefreshOpen` says that the client is open under every refresh unless a
  disconnect came across, and `KindFits` where a call of each kind can be, so
  that a hand-over of a slot never touches a disconnect. For the slots,
  `GiveBackKeeps`, `EnterKeeps` and `AsideKeeps` are one lemma for each way a step
  can touch the semaphore. The set of calls may be infinite: only those in a slot
  are shown to be finitely many.
- **DeviceProofs**, on inventories: `InventoriesAreComplete` and `DumpsAreRead`, for files of any
  length. `InventoryInvariance` says that what is there is what `Parse` makes of the file or of the
  dump, and that a dump fails exactly for a name that is not `Valid`; the rest is about `Parse`. It has two loops, one inside the other: the devices of
  one entry are added (`AddAllAdds`), and so are the entries (`BuiltLists`), after
  which each name belongs to the last entry that gives it. `CreatedBecome` says that the devices of
  an entry have exactly the names it gives and fit it, `ParsedComplete` puts the two together. A
  dump is a file whose hosts are a sequence of a set (`SetListed`), with different names,
  so that for each the last entry is the only one (`DumpedHosts`). Nothing is assumed of
  `HostNames`: whichever names a host may have, a dump fails for another and is read back
  otherwise.
- **TestProofs**, on the execution of a test: `TypeCorrect`, `JudgesData`, `AlarmsLast`,
  `ReturnIsFinal`. The invariant adds that nothing is reported before the code
  runs (`NoEarlyReport`), that an atomic result which is bad now has raised an
  alarm (`BadAlarms`), and that the gather waits for its own commands
  (`GatherWaits`).
- **TestProofs**, on commands: `CachedAnswersFit`, for commands, templates and parameters of any
  texts. The text of a uid ends in six words, whatever comes before them, and texts that end
  in as many words are equal in parts (`EqualParts`): hence equal uids have equal commands, versions,
  revisions and formats (`UidTellsRequest`; "NA" is no revision, which is where it matters that
  revisions are numbers). `TestsAreMade` is an induction over the list of the class: what was made so far
  are commands, there is an error exactly if some template met parameters that are not its own
  (`Mismatch`), and without one as many commands as there are plain ones and renderings.
- **TestProofs**, on inputs: `KeptStays`, for every value. What a type makes of a value
  before its pattern is a fixed point of it (`BeforeStays`): full names are their own full names
  (`FullNamesStay`), no capability is another word for one (`CapabilitiesStay`), no abbreviation or
  text is converted again (`AfiSafisConverted`, `CausesStay`), and a method that has its prefix keeps
  it (`PrefixedStays`). For the three types that convert afterwards, no converted value is on the
  list (`RoutesConverted`, `PrefixesConverted`), so that it is refused.
- **EapiProofs**, on the authentication: `TypeCorrect`, `LoginsAreSingle`, `Refinement`, `NoSessionForgotten`. The
  inductive invariant `IInv` says who may hold the lock and who waits for it
  (`Locked`), where the variables range (`Ranges`), and for each task what it carries
  where it is (`Owned`): a login is under way only without a cookie, a session opened by a task has its
  name, and it was never the cookie before that task stored it. `Refinement` shows that every step
  of a call is a step of `SessionContract` or changes nothing the contract sees
  (`CarriedSteps` and one lemma per kind of step), under `IInv`. `NoSessionForgotten` needs
  `Accounted`: before its login is answered a call has no session but its own
  (`Unsent`), and, until two logouts cross, there is one at a time and it is about to
  drop the session that is the cookie (`GivesUp`), so that the reset forgets a
  session only if it was closed or the logout was cut off.
- **EapiProofs**, on configuration sessions: `SessionIntended`, for any contents. The inductive invariant
  `SessionIInv` says that the device has configurations, and that the caller, where it
  believes to know, is right. A push that returned ran all its commands; one that did not
  ran some, or all of them, and the caller forgets the session. Either way nothing before a commit
  touches the running configuration (`PushRun`, `LoadRun`, by induction over the commands,
  `RunningSteps`), and the lines typed on the device make of the same session the same
  configuration as in the head of the caller (`TypedAgrees`, by induction over the lines,
  `TypingSteps`). `PushKeeps`, `LoadKeeps`, `CommitKeeps` and `AbortKeeps` are one lemma for
  each method.
- **EapiProofs**, on the client: `AnswersAccounted`, for requests of any length. No
  induction is needed, since the answer is a function of what fails: the first failure is the
  last item of the data (`StoppedData`), or every command has one (`ServedData`), or there is no
  data and an exception is raised, of whichever kind; and
  `CliAccounts`, `ResponseAccounts` and `CollectAccounts` follow for each of the three readers.
- **RunnerProofs**: `CatalogTyped`, `IndexExact`, `QueriesExact` are about the catalog by
  itself, under any operations. `IndexIsExact`
  is inductive with the types; the queries follow from it in one state, because
  a test that is indexed is under each of its tags (`UnderItsTags`).
  `TypeCorrect`, `ReportComplete`, `NothingStaysOpen`,
  `CutsAreExcused`, `PlansAreExact` are about runs that share a catalog. A step belongs to one run and leaves the others alone (`Only`).
  `Stage` says what a run has at each phase: what it selected, what it
  planned, which jobs it may have, and, once it has published, that its report is
  complete; `Inductive` is `TypeOK` and `Stage` of every run. `NothingStaysOpen` is
  about clients, which all runs share: `Accounted` says that an open client is
  owed by some run that matched it and has yet to disconnect (`Owes`), so when nobody
  owes, nothing is open. `CutsAreExcused` needs `Excused`: while a run uses a device,
  its client is open unless somebody who is excused has closed it (`Excuse`).
  `PlansAreExact` is an action property: the step that plans leaves in `plan` what the
  arguments call for, on the devices that have their address for themselves. The index it
  reads may be one that an earlier run built; `IndexIsExact` stays true under all runs
  (`BuildIsExact`, `PlanSteps`), and `TestsAreWanted` turns what the queries return from an
  exact index into the plan. That the index holds tests of no other name needs that every
  build so far had the filter of this run, which is the hypothesis of `PlanFits`.
- **ResultManagerProofs**: `TypeCorrect`, `StatusWorst`, `StatsExact`, `GroupingCurrent`,
  `ReportsAgreed`, for any pool of results and lists of any length. Everything is stated by counting: `Many(list, set)` is
  how often members of a set are in a list. The loops of the code are recursive functions
  on indexes; `Loops` proves once that such a function exists and that what each turn
  preserves is true of all its values (`LoopInvariant`, from the least element of a set of
  natural numbers, since the induction theorems of the library take an operator), and three
  instances of it say what a comprehension selects (`SelectedCounts`), what the statistics count
  (`ComputedIsExact`) and what a filter keeps in whatever order it goes through the
  statuses (`KeptCounts`). The inductive invariant adds to the properties that
  a cached grouping is sorted by status (`IsGrouping`), that it holds the results of the
  list even while the loop of the setter runs, unless it was forgotten
  (`Holds`), and the types of statistics in sync. `ReportsAgreed` has one lemma per report:
  a sum over disjoint parts of the results counts their union (`SumOfParts`), so
  the columns and rows of a table add up to the list (`TableAdds`), for the devices, the tests
  and the statuses alike. A template report counts the list itself, filtered or not.
- **CommandLineProofs**: `ExitZeroIsGood`, `OverwriteIsAsked`, `EveryDeviceAnswers`. `IInv` says
  which command can be in which phase (`Phased`), that the results were written before the
  exit code is worked out (`Reported`), that an import which has passed its check of an existing file was
  allowed to replace it (`Allowed`), and that each finished job of an `exec` command has done
  its work or logged an error, none being cancelled while the gather waits (`Gathered`, `Did`). The
  work of a snapshot is a file that holds its own output (`Stored`), which no later job
  replaces, because two jobs with one file have one safe name (`OneJobAFile`).

The refinement `SessionAuth => SessionContract` is both model-checked
(`session_auth`) and proved (`Refinement`).

Only model-checked: the liveness properties (`EveryCallEnds`, `EveryRunEnds`; liveness and
ENABLED are out of the prover's reach); and `AnsibleHostsFound`, `CatalogIsComplete` and
`ListingIsComplete`, whose conversions recur into nested data (groups in groups, packages in
packages, parents of classes) by recursive operators and folds, so that what they compute for
every input cannot be proved.

## Not modelled, and why

- Reading of YAML and JSON, the models of test inputs, and what is in a module that is
  imported: constants say what they accept or hold. Types that are a plain range or list of
  literals only accept or refuse a value.
- The network tests are pure functions on decoded outputs; `TestExecution` lets a test
  report anything, so what is shown holds for all of them. Their helpers
  (`anta/tools.py`), input models and constants likewise.
- The layout, order and wording of reports and listings, the overview section of the
  Markdown report, `anta get inventory` and `tags`, the deprecated `explore_package` and
  `find_tests_examples`, the requests to CloudVision, logging and timing: text, or
  requests whose failure is all that matters (`CommandLine` lets each of them fail).
- `max_potential_connections`, which only decides on a warning; the counters of
  hits and requests, which are only logged.
- The port check is one system call; `check_connection` and `check_api_endpoint` are
  one request each.
- `anta.runner.main` is deprecated and calls `AntaRunner.run`.

What could come next: abstract specifications of the runner (each run reports exactly its plan, or
nothing) and of the cache (each call returns a reading taken less than the time to live before,
or fails by itself); the device of `Runner` implemented by `DeviceLifecycle` when calls do
not overlap.
