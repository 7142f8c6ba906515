# A verification model of pacific-peering

pacific-peering finds out how traffic between Pacific island networks really
travels. Every night it fires RIPE Atlas traceroutes along corridors (a source
network, a target network), classifies what comes back, and files findings:
a *confirmed detour* through a hub outside the region, *confirmed local
transit*, or *candidate peering*. Measurements cost credits, findings are
published, and much of the work runs unattended for two hours a night on five
threads. These modules model that core from its source, check it with TLC on
small instances, and prove parts of it with TLAPS for every size.

Paths below are relative to `src/pacific_peering/` unless they start with
`scripts/`.

## The system

| Part | Source | State it keeps | What it does |
|---|---|---|---|
| Nightly batch | `analysis/auto_classify.py` | threads, sources in flight, pairs to skip tonight, the deadline | picks a retest or a fresh corridor, fires, waits, classifies, files; collects parked measurements before and after |
| Parked measurements | `analysis/pending_measurements.py` | `pending_measurements.json` | keeps a measurement whose results are not readable yet, or whose classification failed, for a later run |
| Classification rules | `auto_classify.py`, `analysis/feasibility.py`, `traceroute_topology.py`, `router_location.py`, `hidden_hops.py`, `known_anomalies.py` | none | decides from the probes' traces what is filed and what is put before a human |
| Findings store | `analysis/store.py` | SQLite: findings, corroborations, reverification attempts | identity of findings, evidence, promotion by ASPA, export and import |
| Rolling reverification | `auto_classify.py` | `reverify_queue.json`, the attempts table | stages the oldest twelfth of the findings every night |
| Atlas account | `atlas/rate_limit.py`, used by everything that fires | Atlas's own count of measurements in flight | a pre-flight check before each creation |
| Backlog | `analysis/corridor_backlog.py` | `tested_pairs.json` | which corridors are still to test |
| Watchers | `atlas/probe_watch.py`, `atlas/offshore_check.py`, `discovery/leasing_check.py`, `atlas/fleet_trace.py` | a history file, a snapshot or a queue each, `escalations.md` | notice changes, escalate each once |
| Registries and caches | `analysis/ixp_lan_registry.py`, `analysis/ip_resolution_cache.py`, `atlas/asn_probes.py`, `atlas/probe_geo_audit.py` | JSON files | what an address, exchange or probe is |
| Pipeline | `pipeline.py`, `scripts/weekly_discovery_refresh.sh` | run manifests | rebuilds the registries weekly |
| Weekly tests | `atlas/rov_cloudflare.py`, `atlas/ipv6_fleet.py`, `atlas/starlink_anchors.py` | a history file each | compare each probe with earlier weeks |
| Convergence report | `analysis/convergence.py`, `ptr_lookup.py`, `ris_upstreams.py` | `ptr_cache.json` | routers many corridors share, and whether BGP has a way around them |
| Reports, figures | `reports/`, `viz/` | none read back | lists and tallies of the findings, then formatting |

How they meet: `scripts/nightly_corridor_testing.sh` runs the probe watch,
stages the ration, runs the batch, then queued fleet traces and the offshore
check, one after the other. Inside a batch the threads share `tested_pairs.json`,
the two queue files, the store and `in_flight` under one lock, and the Atlas
account under none. Parked measurements and the reverification queue are what
one night hands to the next; the store is what both read to decide what is due.

### What is hard about it

* **Interleavings.** Five workers pick under a lock, then fire, wait and
  analyse outside it, and take it again to write. What was true at the pick
  (source free, corridor untested) has to stay true enough.
* **Failures at every point.** A measurement exists from the moment Atlas
  accepts it. An exception or a death of the process can come before its id is
  known, before it is parked, between parking file and classification, and
  between two commits of the store.
* **Retries of what was done.** Corroborations are not deduplicated, so a
  second classification after a half-finished first one would file them twice.
* **Rotation.** A retest that is not stamped keeps its finding at the head of
  the ranking; one that is stamped twice hides it.
* **Check, then act, on a shared limit.** Atlas refuses the 101st measurement
  and the check is a separate request.
* **Order of data.** Probes come in no particular order, and several rules keep
  the first that fits.

`PROJECT.json` lists each hazard at its line with the property that would catch
it, or the reason there is none yet.

## Modules

The night:

| Module | Models | Correspondence |
|---|---|---|
| `MeasurementLedger` | the promise about one paid measurement: fired once, held or parked, then written or lost for good | abstract specification |
| `CorridorBatch` | `run_batch`, its workers, the collector, `classify_corridor`'s control flow, `pending_measurements.py`, the nightly restart and a killed process | one action per section under the write lock or per call that can fail; `pc` is the program point |
| `CorridorBatch_proofs`, `CorridorLedger_proofs` | theorems on it | the second builds on the first's invariant |
| `Rotation` | `_last_checked`, the ration, what stamps | timestamps kept as a ranking: a new one is always the newest |
| `AtlasAccount` | `wait_for_headroom` as used by batch workers and the offshore check | one action per branch |
| `AtlasAccount_proofs` | theorems on both | |
| `MCCorridorBatch`, `MCAtlasAccount`, `MCRotation` | instances | the account and the ration share no state: a behaviour of `MCAtlasAccount` is that of one of them |

From replies to findings:

| Module | Models | Correspondence |
|---|---|---|
| `Topology` | what a probe's replies say: parsing, AS sequence with gaps, agreement with RIS, `looping_address`, `hidden_hops_reason`, `find_router_hub`, the fibre floors | one operator per function, over hops that are sets of replies; no state |
| `Classifier` | rules 0 to 4 of `_classify_corridor` | operators on sequences of abstract traces |
| `FindingsStore` | the two tables, their unique indexes (with SQL's `NULL`), and the store's functions | one operator or action per function |
| `Filing` | one measurement's way through `_finalize`, group by group, then escalations; retests and ASPA promotion between runs | composes `Classifier` and `FindingsStore` |
| `Tracing` | a measurement from replies to what is filed, with another address tried while nothing decides | composes `Topology` and `Filing` |
| `MCFiling` | instance | abstract traces alone or in a row, or raw replies |
| `Filing_proofs`, `Tracing_proofs` | theorems on `Filing` and `Tracing` | the second is about the replies, and builds on the first |

The watchers and the report:

| Module | Models | Correspondence |
|---|---|---|
| `FleetTrace` | `enqueue` at any time, `run_queued` with refusals and exceptions | one action per write; the loop's locals are `run` |
| `ProbeWatch` | `run_watch`: diffs, owed traces, the weekly check, the blocks escalated, and its three writes | economy and IPv4 ASN are one value, a network |
| `OffshoreCheck` | `plan_run`, the outcome per ASN, history and the two escalations, `--full` | the history kept as what is read out of it |
| `OffshoreCheck_proofs` | theorems on it | |
| `LeasingCheck` | the same schedule over WHOIS look-ups, results by prefix | as above |
| `FleetChecks` | the weekly route test (`classify_probe`, `_baseline`, `diff_snapshots`) and the IPv6 check | histories newest first; a trace is its AS path and whether it arrived |
| `Record` | the store as the reports read it: the migration, the loaders, what is held, ASPA checks, export and import with new ids | rows by id, corroborations in order; a note is the ASNs it mentions and the highest count it gives |
| `Reports` | `build_report_data` over the record, the pipeline's files and sources that may not answer | one operator per section; each report is a process that loads its lists when it starts |
| `MCWatchers` | instance | the jobs share no state: a behaviour is that of one of them |
| `Watchers_proofs` | theorems on `FleetTrace`, `ProbeWatch`, `LeasingCheck`, `FleetChecks` | |

What a corridor is chosen from and read with:

| Module | Models | Correspondence |
|---|---|---|
| `Pipeline` | the six weekly steps, the caches between them, each source failing in its own way, a death between steps | one action per step; a file is the function the next step reads out of it |
| `Backlog` | filters and order of the proposals, what closes a pair of networks or of economies, batches that import the findings once, classifications that break off between the findings and the mark, the regeneration's two writes | one action per pick, outcome, collection and write; a classification files at most one detour or edge, since nothing here tells the first edge from the next |
| `AtlasClient` | creating one measurement, polling it, fetching again while it is empty, the two cache files, the reason given for an empty one | one action per request; Atlas moves by itself |
| `IxpRegistry` | the weekly rebuild, both ways of confirming an exchange, pruning, each able to fail half way | reading the file and writing it are a step each wherever PeeringDB is asked in between: nothing locks it; PeeringDB's answers are sets |
| `IpCache` | the order of sources for an address, and the one cache file that several analyses load, change and save | loading and saving are a step each |
| `Retest` | the corridor a retest is rebuilt into: `_original_vantage`, `_candidate_from_finding`, the listings with their overrides, the addresses of a target | listing and registry are made at different times of a world that moves |
| `Convergence` | names looked up and kept, routers grouped by them, categories, the pairs always crossed, and the verdict RIS gives | a week is a look-up and a write |
| `MCDiscovery` | instance | as `MCWatchers` |
| `Discovery_proofs` | theorems on all of these | |

Abstractions worth knowing. In `CorridorBatch` what a measurement says is
"signal" or "no data"; `Classifier` takes over from there, with a trace reduced
to the answers its rules ask for, and `Topology` computes those answers from
replies. Twelve and twenty-four hours become "not again this night" and an age
in nights, which is what they amount to for a batch of a few hours once a day.
The reverification queue is a set: the order in which entries are popped
depends on which sources are busy. In `Rotation` the batch is reduced to what
it does to a finding's place in the ranking. Text is what is read out of it: a
host name is a router or nothing, a report is the set of what it lists.

History variables (`jobOf`, `writes`, `closed`, `stamps`, `unrecorded`, `picked`
in `CorridorBatch`, `failed` and `run.since` in `Filing`, `tonight` in `Rotation`, `blind` and
`refused` in `AtlasAccount`, `asked`, `late` and `reported` in `FleetTrace`,
`vouched` in `ProbeWatch`, `told`, `refused` and `failed` in the watchers,
`fired`, `settled`, `cuts` and `together` in `Backlog`, `cut`, `ris` and `judged` in
`Pipeline`, `said` in `IxpRegistry`, `overlap` and `handed` in `IpCache`,
`still` in `Retest`) are read by properties and bounds only.

## Runs

| Run | Instance | Question and answer |
|---|---|---|
| `corridor_batch` | 2 workers, 2 measurements, 2 findings, 3 networks, 2 target addresses, 2 attempts, 1 death, a store that refuses any stamps | Are sources, measurements, retests and fresh corridors each used as promised, and is the ledger kept? Yes. |
| `corridor_batch_live` | the same with 1 measurement, 1 finding, no death, no symmetry | Does a batch end without its deadline, and does every parked measurement leave the file? Yes. |
| `corridor_batch_paid` | as `corridor_batch`, 1 finding, 3 attempts, no death | "A measurement fired in this call is paid for [...] park it": **violated**, when reading the results raises before the id is returned. |
| `filing` | all single traces and pairs of 20 abstract ones that have every feature the rules look at; 3 measurements in a row of 4 kinds, with retests, promotions and one run raising anywhere; every raw trace of 4 hops over 6 plain hops and any two of 11 odd ones | Are detours guarded, physically possible and independent of probe order, is a quiet run really quiet, does a run file one kind, does evidence stay with its finding, do the replies show every edge that is filed, is a loop a loop? Yes. |
| `classify_doc` | as `filing`, one measurement | "An external upstream at a hub with no known coordinates" escalates: **violated**, a RIS-confirmed foreign upstream and a crossing in a city without coordinates leave no trace at all. |
| `atlas_account` | cap 10, margin 2, 3 workers, a batch of 3 pings, jobs in the script's order; or the nights: 3 findings on file, one of which can never be fired, one more to come that is quarantined, ration one half, 2 attempts without data count as a look | Is anyone refused who saw headroom, does anyone wait for ever, is anything retested twice a night? No. Does every finding that can be retested get looked at for ever? Yes. |
| `atlas_account_offshore` | the same, the offshore check during a batch | "wait_for_headroom enforces it either way": **violated**, headroom is checked, not reserved. |
| `rotation_starved` | as the nights, 2 findings that can never be fired | "every finding gets a fresh look roughly once a fortnight": **violated**, they fill every ration. |
| `watchers` | 2 fleet targets; 1 probe, wanted back or not, on 3 networks; 2 ASNs for each monthly check, sharing a prefix; 3 weeks of each weekly test for 1 probe; a record of 3 migrated findings, one to be held and two more to be filed, at most 5 rows and 6 corroborations | Whatever fails and whenever a run dies, is a target reported before it leaves the queue, a move escalated before the snapshot forgets it, a probe traced before it is trusted, a refused ASN measured next time, nobody escalated twice, a carrier's change told in its week, and does the report add up? Yes. |
| `leasing_retried` | the same | "WHOIS fetch errors (retried next run)": **violated**, a new ASN whose look-up fails counts as seen. |
| `discovery` | a pipeline of 1 ASN and 1 probe; 2 batches over 3 networks of 2 economies, 2 classifications broken off; a client with 2 polls, 3 retries, 1 failed request; 2 workers on 2 addresses and the registry commands, at most 2 of them all under way at once; 4 traces and 2 weeks of the convergence report; 4 probes in 6 worlds, retested for a finding of the region and for one on a carrier outside | What may be lost or go stale in the files that corridors are chosen from and read with, and what may not? As the properties say. |
| `exchange_reclassified` | the same | a trace that crosses "a *classified* [...] out-of-fishbowl exchange" is a detour: **violated**, a cached address keeps the answer it had when its exchange was still to be decided. |

The runs over several jobs (`atlas_account`, `watchers`, `discovery`) each
choose one and leave the others at rest, since no job there reads what another
writes; the rest of the state is then fixed, so that the states add up and do
not multiply. Five properties put together what belongs to one question:
`NewsIsToldOnce` (leasing flags; carriers' changes), `ReportHolds` (the tallies
add up; every finding is in one list; a rebuild from the export changes no
list), `RegistryIsTheOwners` (decisions and LANs stay; no region but the owner's is handed on), `ConvergenceHolds` (a refused
look-up splits no router; a dependency has no way around it) and
`RetestsSettle` (from one network of its own economy; after its probes when they
move; at the address where it was found).

Bounds and why they are enough. Two workers are enough for every conflict over
a source, a pair or a measurement, all of which are between two; two
measurements let one be parked or collected while another is fired, or be a
worker's first and alternate target; two findings with one vantage let a queued
retest wait for a busy source; two attempts give one failed
classification that is retried and one that is the last. The nights need a
ration longer than the number of stuck findings and a finding that has to wait
for its turn: 2 of 3. `filing` tries pairs because every rule compares at
most two probes; three measurements in a row allow filing, retesting and a
promotion in between; four hops are what a
repeat, a gap or a crossing with a hop before and after it take, and one router
that comes back after two others. A hop that is odd (several replies, an error, a
reply of another hop, a router in a hub city, the exchange) matters by itself or
beside one other; what it matters to is the plain hops around it. The two
economies differ by name only, so the first measurement is from one of them.
`atlas_account` has one more worker than the margin, the largest
number the theorem allows, and batches that fill what is left. What one probe of
the probe watch does never depends on another, and three networks let it
leave, come back and go on to a third while a trace is owed. Three weeks of the
route test are the fewest in which a carrier is left and come back to. In the
report a step is taken only from a record that has its three migrated findings
or by importing, and the pipeline's weeks go by beside an unchanged record:
no section of the report mixes the two further than reading both. In the
convergence report either names vary and look-ups fail, or neighbours vary:
grouping reads the first only, verdicts the second. The pipeline's sources fail per ASN, one suffices.
Two operations under way on the address
files are what an overlap is between, be it of two analyses, of an analysis and
a registry command, or of two of these. Two
classifications broken off and two batches let a pair be written about, left
unmarked, written about again by a later batch or by the collector, and then be
marked or be left again.
`Retest`'s six worlds differ from the first by a probe moving within the
region, leaving it, changing networks or going offline.

`CHECK_DEADLOCK FALSE` is set for `Filing.cfg`, `ClassifyDoc.cfg`,
`Discovery.cfg` and `ExchangeReclassified.cfg` only: those instances stop after
`MaxRuns` measurements, batches or weeks, or when their one measurement is
read. A batch, the account and the watchers never stop; weekly tests that have
reached their bound stutter.

### Fairness

* `CorridorBatch`: threads are scheduled (weak fairness of each worker and of
  the main thread) and cron starts a batch every night. None for the outcome of
  a step, for deaths, or for the deadline: `BatchEnds` holds without it.
* `Rotation` (in `MCAtlasAccount` the same, for a behaviour of the nights):
  staging does not fail every night, a parked retest is settled
  (`ParkedIsSettled`) unless the process dies at that very moment, which it
  does not every time, and a finding staged night after night is fired some
  night, since a ration is short against two hours of five workers. None for
  what a retest says: retests that never hear anything count in threes.
* `AtlasAccount`: jobs are scheduled. None for Atlas: `EveryoneFires` holds
  even if no measurement ever ends.

## Theorems

All are proved for every value of the constants that the named assumptions
allow; TLC evaluates those assumptions on every run. Theorems over `MCSpec` are
of the module that composes several jobs: sizes, sets and tables are constants
there, given values in the configuration only, except what `Reports` and the
route test are instantiated with.

### The batch

`CorridorBatch_proofs`, for any sets of networks, workers, measurements and
findings (assumptions: `BatchAssumption` and `MarkerAssumption`, which only say
that the constants have the right shape):

* `InductiveInvariant`: `Spec => []IInv`;
* `TypeCorrect`: `Spec => []TypeOK`;
* `SourcesAreExclusive`: `Spec => []OneJobPerSource`;
* `MeasurementsFiledOnce`: `Spec => []FiledAtMostOnce`.

`FiledAtMostOnce` is not inductive: nothing in it stops a measurement from being
parked after it was written, or held by two threads. `IInv` adds `Control`
(what each program point says about its thread's locals, and that workers and
collector are never at work at the same time), `Sources` (`in_flight` holds the
source of every busy worker), and `Ownership` (no two threads hold one
measurement; what is parked, handed out, awaited or held has not been written;
what was never fired is nowhere). Whoever enters a write phase then holds a
measurement that was never written and gives it up only by settling, or by a
failure that does not park it again. TLC agreed with `IInv` on the instance of
`corridor_batch` before it was proved. The proof has one lemma per action.

`CorridorLedger_proofs`, on top of `IInv`:

* `NothingIsMislaid`: `Spec => []NothingMislaid`, with `Kept`: a worker about to
  forget a measurement (`release`) has written it or parked it.
* `LedgerIsKept`: `Spec => LedgerKept`, the refinement of `MeasurementLedger`.
  The mapping reads a measurement's life off where it is; `LifeIs` says that
  exactly one reading applies, `FiredOnce`, `WrittenStays` and `GoneStaysGone`
  that it never goes back, and `LifeMoves` that each step moves it as the
  abstract specification does. `Kept` is what rules out "mislaid", a status the
  abstract specification does not have.
* `CorridorsPickedOnce`: `Spec => FreshPickedOncePerRun`, with `PickedOnce`:
  what was picked in this run is tested, skipped, parked, or in the hands of a
  busy worker, hence never a candidate again.
* `RetestsOutOnceCountedOnce`: `Spec => []RetestOnce`. `CarriersDiffer` says two
  by two that queue, workers, parking file and collector never hold the same
  finding; only staging and picking add a carrier, and both ask first.
  `StampsRight` follows one measurement to its attempt: while somebody is
  yet to record it (`StampDue`) it has none and none was refused, and it is
  finished unrecorded only if the process died or the store refused it
  (`unrecorded`): which of them it refuses is left open at every stamp.

### The account and the nights

`AtlasAccount_proofs` (`AccountAssumption`):

* `TypeCorrect`: `Spec => []TypeOK`;
* `HeadroomSuffices`: if the offshore check never overlaps a batch and there
  are at most `HEADROOM_MARGIN + 1` workers, `Spec => []NeverRefused`.

The invariant is `Accounted`: while no job went ahead without an answer, what is
in flight and what has been granted headroom fit under the cap together. A
worker is granted one when in flight plus one is within the limit; the others
that were granted theirs and have not created yet are at most the margin. Six
workers would be the most for a margin of five; the batch has five. Without
the bound on the workers, or with an overlap, it is false, as
`atlas_account_offshore` shows.

`NightlyRetestsAreOnce`, also there: `MCSpec => RetestedOnceANight`. What
is queued has no parked retest and was not done tonight (`StillToDo`): staging
leaves out what is parked, and whatever settles or parks a retest has taken it
from the queue or from the parking file first.

### From replies to findings

`Filing_proofs` is about both specifications, `Spec` (abstract traces) and
`TracingSpec` (raw replies, read by `Topology`): the lemmas `SpecFiles` and
`TracingFiles` show that each implements `Filings`, in which a measurement may
return any traces that are `Readable`, that is finite sequences whose parts are
of the kinds the code makes them. Assumptions: `ClassifierAssumption`,
`FilingAssumption`, `TracingAssumption` (markers differ from values; the
measurements given are sequences).

* `NothingIsPassedOver` (`InconclusiveIsQuiet`, with its two exemptions), `RouterDetoursAreGuarded`
  (`RouterDetourIsGuarded`), `OrderDoesNotMatter` (`RouterOrderIrrelevant`) and
  `DetoursArePossible` (`NoImpossibleDetour`) are about what the rules decide.
  They rest on lemmas about the operators: what `Chosen` picks from a sequence
  and in which order (`ChosenIs`), the first crossing and the first router hub
  (`IxpPicked`, `RouterPicked`), that agreement of all does not depend on order
  (`OrderIsIrrelevant`), what makes a detour (`DetourIs`) and a group
  (`GroupIs`).
* `EvidenceIsForItsFinding` (`EvidenceMatches`), with `RowsHold` (ids
  are unique and all given out), `RunHolds` (the run at hand is made of its own
  traces) and `EvidenceHolds` (what is filed, *and what is left to file under
  the finding at hand*, belongs to it; identities never change, so it stays so).
* `RetestsRefreshTheirs` (`RetestRefreshes`) and `NothingIsLost`
  (`FindingsOnlyGrow`, an action property) from the same.
* `RunsFileOneKind` (`OneKindPerRun`), with `KindsHold`: what a run has created,
  has added evidence to, or is writing about, is of the kind of one of its
  groups; and of those the rules make, only a detour goes with edges, which are
  then not created but refreshed.
* `FewFindingsAreBare` (`OneBareFindingPerFailure`), with `BareHold`: the
  findings without evidence, but for the one being written, are no more than
  the runs that raised. The step that creates one is followed by its evidence,
  or by the failure that is counted.

`Tracing_proofs` goes on to the replies themselves, for traces of any length,
any sets of replies to a hop and any RIS paths (`TopologyAssumption`: addresses
are numbers, markers are none of them, RIS paths are sequences;
`TracingAssumption`: a hop has finitely many replies). The code's loops over
hops are recursive functions of how many hops were read; what is true after
every number of them is shown by a least number for which it would fail
(`UpFromZero`), since the library's induction rules cannot be used here.

* `EdgesRestOnReplies` (`EdgesAreShown`), with `PathHolds`: every entry of the AS
  path stands for hops of that one network, between an entry and the next one
  that counts as contiguous nothing but silent hops lies, and without a pending
  gap nothing else lies after the last. `NextToIsSeen` and `ListedIsSeen` carry
  RIS's neighbours back to a path that has the two side by side, through the
  collapse of repeats. `RawsInHand`: the traces being ruled on are those of the
  replies at hand, whatever is retried and wherever a run raises.
* `LoopsAreStuck` (`LoopIsStuck`), with `LoopHolds`: the window of recent
  addresses is that of the last three answers, `last` and `runs` give each
  router's latest answer and how many in a row it gave, and a repeat is noted
  just if the trace came back after the last router that was new (`TurnsAfter`).

The first attempt at `EdgesRestOnReplies` failed, for a good reason: the
property said of transit over a dark hop that no hop of the trace resolves to
the target's network, and nothing in `AsStep` gives that for a hop that a private
address answered as well. With such a hop among those of `filing` TLC finds the
trace; the property now says where a trace counts as in the target's network
(`Arrivals`).

### The watchers

`OffshoreCheck_proofs`, for any set of ASNs:

* `RefusedComesBack`: `Spec => []RefusedIsRetried`. What a run on schedule left
  unmeasured is in the registry, and while the latest full run counts nobody
  has seen it (`Owed`). `Scheduled` says what a run under way covers and that
  it is a full one only when one was due: it cannot both refuse something and
  count as the month's full run.
* `ToldOnce`: `Spec => []NeverToldTwice`. Whoever was told of is in the history
  (`Known`); what a run holds as new is not, until it is recorded, and from then
  on it is untold until it is escalated (`Fresh`).

`Watchers_proofs`, for any targets, probes, networks, prefixes and originators
(`NoneIsNothing`: no network and no verdict is the marker for none):

* `QueueIsReported`: `Fleet!Spec => []LeavesQueueReported`. What was asked for
  is queued, reported, late, or among what the run holds in its locals (`Held`).
* `NewsOnce`: `MCSpec => []NewsIsToldOnce`. For the leasing check as for the
  offshore check (`Accounted`); for the route test, what the report is about to
  say is exactly what the latest week differs in from the newest earlier one
  with the same probes (`WeekCompared`, `NewestIsBaseline`).
* `SettledProbesAreTraced` (`SettledIsTraced`) and `MovesAreTold`
  (`MovesAreEscalated`, an action property), with `Underway`: what a run of the
  probe watch has compared is still the listing it started from, and its blocks
  are escalated before the snapshot is written.

### What a corridor is chosen from

`Discovery_proofs` (`BacklogAssumption`; `DiscoveryAssumption`: a measurement is
indexed, and its failing requests end, within the retries; `RetestAssumption`:
probes have a country and a network and never leave Atlas, overrides are of the
region; `ConvergenceAssumption`: addresses and neighbours are finitely many, a
host name has a device or none, and no device is called like an address):

* `PairsSettledOnce`, `ClosedStayClosed`: `Spec => SettledOnce` (an action
  property) and `Spec => []ClosedEconomiesStay`. `OnePairEach` and `Noted`: no two
  open corridors are of one pair, an open pair is not marked tested, and whoever
  is open beside its reverse was noted. A classification that breaks off closes
  its corridor and marks nothing, so that the next one finds the same.
* `EmptyHadNothing` (`EmptyIsGenuine`): the results still missing and the
  requests still to fail fit into the retries left. That they do at the outset
  is assumed (`MaxLag`, `MaxErrors`): a measurement whose retries run out while
  Atlas still has results to come, which `atlas/smoketest.py:119` calls rare and
  marks in the log, is outside the model.
* `WeekHangsTogether` (`RunHangsTogether`) and `WeekKeepsTheKnown`
  (`KnownIsKept`): steps are done in order, and a file is rewritten by its own
  step only.
* `OverlapAloneLoses` (`LostOnlyByOverlap`): what an analysis lacks of the cache
  was saved after it had loaded.
* `OwnersDecisionsHold` (`RegistryIsTheOwners`): registry, cache, what each
  analysis and each registry command has in hand and what was handed on all say
  what the owner said (`OwnersEverywhere`); the files alone would not be
  inductive, as whoever loaded one writes back what it loaded. What a command
  that ends has in hand is what the file has, entry by entry, or it is outdated
  (`UpToDate`); a rebuild of the former keeps decision and LAN (`OwnersKept`).
* `RetestsAreSettled` (`RetestsSettle`): `WhereItWas` keeps where the probes of
  the latest measurement are listed while nothing moves, `OfTheRegistered` that
  economy and listing are of the region, whatever moves.
* `ConvergenceIsSound` (`ConvergenceHolds`), from two theorems on `Convergence`:
  * `DependenciesAreOnlyWaysOut`. The code walks from network to network; the
    property says, without a walk, that a network outside the region is in every
    set of networks that holds the first one and the upstreams of all its own.
    `WalkClimbs`: after any number of steps each network passed has the next as
    its only upstream. So what was passed is such a set (nothing else outside
    the region is in all of them), and every such set goes along (`OneWayOut`).
  * `FailuresSplitNoRouter`, with `RoutersAreKnown`: cached names are those of the
    zones, and two addresses of a reported router are both in the cache, under
    different names of one device (`NamedAlike`: each name had one holder). A
    refused look-up takes nothing out of the cache, so while no other address
    goes by these names they are taken for one again (`TakenForOne`).

### Model-checked only

* `BatchEnds`, `ParkedIsSettled`, `EveryFindingLookedAt`, `EveryoneFires`:
  liveness is outside what the prover handles.
* `ReportHolds`: sums over tables, a sort and a concatenation, all folds.

## Where the code and its texts part

Six violation runs show them; `PROJECT.json` quotes the lines. In short: a
measurement can be lost between finishing and being known to `classify_corridor`;
a foreign RIS-confirmed upstream at an exchange in a city without coordinates is
filed as "inconclusive" without a word, either half of it contradicting a line
of the docstring of its own;
findings that cannot be rebuilt hold places of the ration for ever; an offshore
batch and a nightly batch together do run into Atlas's cap; a failed WHOIS
look-up of a new ASN is not retried until the monthly run; and an exchange
classified after an address of it was cached is never graded as classified there.

One more disagreement has no run of its own. The registry of exchanges is read,
PeeringDB is asked for minutes, and all of it is written back, under no lock. A
decision that the owner enters meanwhile with `confirm_ixp_region` is taken back,
although `build_ixp_lan_registry` says of an exchange on disk that it "keeps its
existing `in_fishbowl` value untouched" (`analysis/ixp_lan_registry.py:122`) and
`confirm_ixp_region` that only it ever changes one (line 239). In `IxpRegistry`
this happens; `RegistryIsTheOwners` exempts exactly the entries that somebody
wrote while the command that ends had the file in hand.

Other weaknesses came up that no text denies outright. A stamp that the store
refuses (`sqlite3.Error`, "never raises") is lost for good: the finding keeps its
turn, and is retested the next night (`RetestOnce` allows for it; `Rotation` has
it as `Forget`). Findings are committed before a corridor is marked tested: a
failure or a death in between leaves a finding on file and the pair to be tested
again, by another measurement (`SettledOnce` says that nothing but this makes a
pair be written about twice). The offshore and leasing
checks, and the probe watch for a watched probe's first hop, write their history
before they escalate: dying in between, they take the flag for reported. A
target queued while the fleet trace runs is overwritten (`LeavesQueueReported`
exempts exactly these). A held candidate is known by its kind
(`HELD_FINDING_KEYS`), so an ASPA record that promotes it also releases it; held
findings are still counted among an exchange's verified corridors, which
`Reports` reads from the database as the code does. After an import the
reverification queue and the parked retests hold ids of other findings. An
exchange's LAN is lost if `add_or_confirm_ixp` fetches nothing
(`RegistryIsTheOwners` exempts the owner's commands from the half about LANs).
Two economies settled during a batch go on being proposed until it ends
(`ClosedEconomiesStay` is about later ones), and a corridor and its reverse may
be in flight together (`SettledOnce` exempts these). An announcement that covers
an excluded target prefix and starts with it yields an address inside it, as
`_is_excluded` tests more-specifics only. A hop that a private address and a
router of the target both answered is passed over as private when the private
one comes first: without another hop in the target's network the trace counts as
dark before it ("target ASN never resolved", its note says), and the network
before a dark hop can be filed as the target's transit on RIS's word
(`EdgesAreShown` exempts these traces). `readme_findings.py` counts undecided
exchanges as `None`, the registry writes `"TBA"`.

## Not modelled

* The hand-kept tables: some 6000 lines of `confirmed_detours.py`,
  `confirmed_local_transit.py`, `candidate_peering.py`, `regional_carrier_facilities.py`,
  `quarantined_asns.py` and the like are entries typed in by the owner. They
  have no behaviour; what they hold are constants here (`Legacy`, `Quarantined`,
  `City`, `KnownLoops`, `Proxies`).
* What turns the report's data into HTML, text, figures, a site and mail
  (`html_report.py`, `ascii_report.py`, `viz/`, `send_email.py` and others):
  layout and wording, written once per run and read by nobody.
* Inside the clients of RIPEstat, PeeringDB, bgp.tools, Cloudflare Radar and the
  IRRs: requests, pacing, parsing. Their answers, empty ones and failures
  included, are inputs.
* Parsing host names into cities (`hop_geolocation.py`), the physics test and
  the search for alternate addresses of the offshore check, latency summaries
  of the Starlink anchors: pure functions over text and numbers whose outcomes
  are inputs.
* Sweeps that run the modelled rules again over what is on disk
  (`router_detour_sweep.py`, `feasibility_sweep.py`), `hop_investigation.py`,
  `credit_status` and the git steps of the scripts: they report or log.
* Commands given by hand while a batch runs (`classify_next`, `--recheck`): they
  take no lock of the batch, and nothing in the repository says that they may.

## Plan

What is left to prove: of `ReportHolds`, that whatever is on file is listed or
held, without the sums; type correctness of `Rotation`,
`ProbeWatch` and `IpCache`, which no property needed so far.
