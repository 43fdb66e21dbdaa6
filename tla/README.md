# TLA+ verification of the Symbiotic relay contracts

The repository holds the on-chain half of the Symbiotic relay: Solidity
contracts that a network deploys to register operators, their keys, tokens and
vaults, to configure how validator sets are derived, and to accept validator
set headers that an off-chain relay signs; and Go bindings generated from
their interfaces.  This directory holds TLA+
models of that code, TLC configurations that check them on small instances, and
proofs checked by TLAPS.

Paths below are relative to `src/src/`, those of the bindings to `src/`.

## 1. Inventory of the system

| Component | State | Operations | Hard behaviour | What makes it correct |
|---|---|---|---|---|
| `libraries/structs/Checkpoints.sol` | traces of (key, value); `Trace256`/`Trace512` keep values beside the trace, reached by pointers | `push`, `pop`, `latest`, `upperLookupRecent`, `upperLookupRecentCheckpoint` with and without hint | two pushes at one key, a push after a pop, the square-root split of the binary search, stale hints | a trace is a log that only changes at its end; every lookup reads the nearest key below |
| `libraries/structs/PersistentSet.sol` | every element ever added, its first key, its trace of removals, a counter | `add`, `remove`, `contains(At)`, `values(At)`, `length` | removal and return in one block; unchecked counter | membership at a past key is final; the counter, the statuses and the lists agree |
| `modules/valset-driver/EpochManager.sol` | two traces of (duration, timestamp, index), by time and by epoch | init, `setEpochDuration`, getters | several changes in one epoch or before the first; only the last two checkpoints are consulted; checked `uint48` sums | epochs are contiguous, settled starts never move, all searches agree |
| `modules/valset-driver/ValSetDriver.sol` | ten parameters and three sets, each with history; one flag per chain or key tag | ten setters, three adders, three removers, getters over time; inherits EpochManager | changes inside a block; flags kept apart from the sets; readers on other chains | the configuration an epoch started with is final; one element per chain/tag |
| `modules/settlement/Settlement.sol` | headers and extra data per epoch, last committed epoch, trace of verifiers | init, `setSigVerifier`, `setGenesis`, `commitValSetHeader`, getters | geneses above and below the last epoch, several verifiers per epoch | each commit is vouched for by the header below it; the past is final |
| `modules/voting-power/VotingPowerProvider.sol`, `logic/VotingPowerProviderLogic.sol` | tokens, operators, shared and operator vaults, slashing data, nonces | register / unregister for each, signed variants, `invalidateOldSignatures`, `setSlashingData`, views of voting power | the same vault through several paths; operators that leave and return; replayed signatures | stake counts once; the sets agree; spent signatures are dead |
| `modules/voting-power/extensions/` | blacklist, jail terms, whitelist, auto-deployment configuration and vaults, slasher, rewarder | the owner's and operators' calls; overrides of `_registerOperatorImpl` and `_unregisterOperatorVaultImpl` that stack | a list changes while an operator is in; a term runs out; a configuration is used long after it was validated | excluded operators are out; auto-deployment never blocks a registration |
| `extensions/BaseSlashing.sol`, `logic/BaseSlashingLogic.sol` | the slasher; history of slashing data (in the provider); requests and slashes in the core contracts | `slashVault`, `executeSlashVault`, `setSlasher` | data change between capture, request and execution; veto periods | a slash is judged by the data of its capture; a request survives its veto period |
| `modules/key-registry/KeyRegistry.sol` | per operator and tag a trace of keys; three maps from key to owner; sets of operators and tags with history | `setKey`, getters over time | replacement and return of keys, several tags of one type, several operators | a key has one operator and one tag for ever; the histories agree; the past is final |
| `common/voting-power-calc/` and its calculators, `libraries/utils/Scaler.sol` | weights of tokens and vaults and price hops, as traces | setters; `stakeToVotingPower` and `stakeToVotingPowerAt`, stacked by `super` calls | settings and price rounds change after the time that is asked about; rounding | power at a past timestamp is final; present and latest readings agree |
| `common/voting-power-calc/libraries/ChainlinkPriceFeed.sol` | none; it reads an aggregator | `getPriceAt`, `getLatestPrice` and the search for a round | phases that begin with rounds of their own, old phases that go on, empty phases; a doubling and a halving over packed identifiers | the round found is the last one not later than the timestamp, in the phase that had begun |
| `settlement/sig-verifiers/` | constructor parameters of the ZK verifier | `verifyQuorumSig` of both verifiers, called by a commit | lists and data chosen by the relayer; subtraction of keys and powers; extra data of an earlier commit | no commit without a quorum of the set below; a quorum is always enough |
| `libraries/keys/KeyBlsBn254.sol`, `libraries/utils/BN254.sol` | none | `wrap`, `serialize`, `deserialize`, sum and negation of points | one bit chooses the root | a key comes back as it was compressed |
| `libraries/utils/ValSetVerifier.sol` | none | `verifyOperator`, `verifyVotingPower`, `verifyIsActive`, `verifyKey`, `verifyVault` | indices and heights of three nested lists, each mixed with its length | exactly what is true of a set can be shown of it |
| `bindings/go-go-ethereum` | per iterator or watch: a channel, a subscription, a goroutine | `Next`, `Error`, `Close`; `WatchX`, `Unsubscribe` | two channels raced by `select`, full buffers, failures of the node, a client that stops reading | events in order, each once, none lost silently; stopping returns |
| `modules/base`, `common/permissions`, `BaseRewards` | a few addresses | initialisation, authorisation, forwarding | none beyond OpenZeppelin's | not modelled, see section 7 |

How they interact.  `ValSetDriver` inherits `EpochManager`.  `KeyRegistry`,
`VotingPowerProvider` and `ValSetDriver` keep their histories in
`Checkpoints` and `PersistentSet`, keyed by block time; `Settlement` keys its
trace of verifiers by epoch.  The extensions override the provider's hooks and
run inside its calls.  `BaseSlashing` reads the provider's slashing data at the
capture time and calls the slasher of a vault (an external core contract),
which keeps requests and enforces the vault's epoch.  The off-chain relay reads
driver, registry and provider at the start of an epoch and submits a header to
every settlement, whose verifier contract reads the set below it back from
that settlement.  The calculators turn the stake that the provider reads from a
vault into voting power.  Anybody may check facts about a committed set against
the root in its header with `ValSetVerifier`.  The bindings deliver the events
of all contracts to clients of the relay.

Everything runs in transactions: a call that reverts changes nothing.  The
interleavings are therefore those of whole calls of several callers with the
passing of block time, and each action below is one call.  Several calls may
fall into one block, at one timestamp; that is where most of the hazards lie.
Only the bindings have threads.

The hazards this code is exposed to are listed in `PROJECT.json`, each at its
line, with the properties that would catch it.

## 2. Modules

Lower-case operators carry the names of the functions they translate.  A
definition marked `Mutant` is a plausible bug; it is used to show that a
property can fail, never by the specification.

| Module | Models | State and actions |
|---|---|---|
| `Checkpoints` | `Checkpoints.sol` as operators on sequences; OpenZeppelin's push and lookup by what they return | none; used by every module with a history |
| `PointerTrace` | `Trace256`/`Trace512`: a trace of pointers and a map of values | `PushSameKey`, `PushNewKey`, `Pop` |
| `KeyedLog` | abstract: a partial function from keys to values that changes at its last key only | `Record`, `Forget` |
| `PersistentSet` | `PersistentSet.sol` | `AddFirst`, `AddAgain` (the two paths of `_add`), `Remove` |
| `Sublists` | the loop by which `PersistentSet.sol` lists what is in a set (148-156) | none |
| `HistorySet` | abstract: membership at every key, with a settled past | add and remove from a key on |
| `Structures` | a pointer trace, a persistent set and the tree of a validator set side by side | a step of one |
| `EpochManager` | `EpochManager.sol` | `setEpochDuration`, `Tick` (block time) |
| `EpochClock` | abstract: settled starts of epochs and the duration to come | `Tick`, `SetDuration` |
| `ValSetDriver` | `ValSetDriver.sol`; extends `EpochManager` as the contract inherits it | `Set`, `Add`, `Remove` (one per setter, adder and remover, by name), and the actions of `EpochManager` |
| `ValSetDriverProofs` | theorems about `EpochManager` and `ValSetDriver` | - |
| `SettlementHandlers` | the calls of `Settlement.sol` as functions of its storage (`Can...`/`After...`) | - |
| `Settlement` | one settlement | `setSigVerifier`, `setGenesis`, `commitValSetHeader`, `Tick` |
| `VotingPowerHandlers` | the calls of `VotingPowerProviderLogic.sol` as functions of its storage, and the validation of vaults | - |
| `VotingPowerProvider` | the provider with all its extensions stacked | twenty-two calls and `Tick` |
| `BlockTime` | the time of the block a call is in, which the provider and its calculators share | - |
| `Slashing` | `BaseSlashing` with the history of slashing data and the slashers of the core contracts | `setSlashingData`, `setSlasher`, `slashVaultInstant`, `slashVaultVeto`, `executeSlashVault`, `VetoSlash`, `Tick` |
| `KeyRegistry` | `KeyRegistry.sol` | `setKey`, `Tick` |
| `PriceFeed` | `ChainlinkPriceFeed.sol`, `Scaler.sol` | an aggregator: `PostRound`, `AdoptPhase` |
| `VotingPowerCalc` | the five calculators stacked, over `PriceFeed` | `setTokenHops`, `setTokenWeight`, `setVaultWeight`, the aggregators' steps, `CalcTick` |
| `VotingPowerProofs` | theorems about `VotingPowerProvider`, `PriceFeed` and `VotingPowerCalc` | - |
| `KeyBlsBn254` | compression, sum and negation of BN254 keys over a small prime | none |
| `SigVerifiers` | both signature verifiers and the commits that call them | `Sign`, `CommitSimple`, `CommitZK` |
| `ValSetVerifier` | `ValSetVerifier.sol` over the SSZ trees of validator sets | `DeriveValidatorSet` (the relay: which set the root is of) |
| `EventIterator` | `FilterX` and its iterator, with the sender under it | `CallNext`, the branches of `Next`, `Close`, the sender's steps |
| `EventWatcher` | `WatchX`, with the node's subscription under it | the goroutine's branches, `Unsubscribe`, the node's steps |
| `EventStreams` | a client of the bindings, with a filter or a watch | the steps of `EventIterator` or those of `EventWatcher` |
| `EventFeed` | abstract: events delivered in order and once until the feed is over | `Emit`, `Deliver`, `End` |
| `CheckpointsProofs` | lemmas about traces of any length: types, lookups before and after a push, the library's own search; and about filtering a list and loops over one | - |
| `SettlementProofs` | theorems about `Settlement` and about `SigVerifiers` with `KeyBlsBn254` | - |
| `StructuresProofs`, `SlashingProofs`, `KeyRegistryProofs`, `EventStreamsProofs` | theorems about those modules | - |

`MC*.tla` and `*.cfg` instantiate them for TLC.  What shares nothing does not
move at the same time in a run: `MCStructures` moves one of the three of
`Structures` while the others are new, and a client of `EventStreams` filters or watches.  `MCValSetDriver`
lets the configuration change while the schedule is short and early
(`BOUND_NOW`, section 3); the schedule alone goes on to the end of time.

Choices that hold everywhere:

* *Time.*  `now` is `block.timestamp` and advances by one.  A block that comes
  several seconds after the one before it is several `Tick`s with no call
  between them, so unit steps lose no behaviour.
* *Permissions.*  A call under `checkPermission` is one an authorised caller
  may make at any moment, with any argument of the model.
* *Reverts.*  A call that would revert is not enabled.  Conditions of the code
  that revert are conjuncts of the guard.
* *Widths.*  `EpochManager` keeps the width of `uint48` as `MaxUint48`, since
  its sums are checked and a duration may be huge.  Elsewhere the numbers of
  the model are far below the width of the code and no arithmetic can overflow.
* *Aggregators.*  Rounds of a phase are numbered from 1 without gaps and in time
  order.  The code cannot work otherwise, so this is an assumption on them.
* *Signatures of a quorum.*  An aggregated signature is the message and the sum
  of the keys that made it; the circuit of the ZK verifier accepts exactly what
  it attests.  A relayer may send any list and any data.
* *Hashing.*  In `ValSetVerifier` a word is a number and a hash is the pair of
  what it hashes: nobody finds a second preimage.  Words of different meaning
  may be equal.  The proofs and the indices a caller may send are the constants
  `SszProofs` and `LocalIndices`; among the proofs are at least those of any
  node below any other one in the trees of the sets considered
  (`ValSetsAssumption`), and in the run they are exactly these.
* *Bindings.*  The bindings repeat one template per event of every contract, and
  the lines mapped are its copy for `SetGenesis` in `i_settlement.go`.
  Channels, subscriptions and the sender of a filter are go-ethereum's,
  modelled from how the binding uses them.
* *External contracts.*  Vaults, delegators and slashers are records of what
  the code reads from them.  A slasher refuses captures older than the epoch of
  its vault; a veto slasher also refuses a request that its veto period would
  outlive.  The verifier of a settlement may accept anything; what it is asked
  is recorded in the history variable `vouched`.
* *Histories.*  `VotingPowerProvider` keeps the present sets only.  That a set
  with history behaves as one is `PersistentSet`; the history of the slashing
  data, which slashing reads, is in `Slashing`.

Details worth knowing:

* In `PointerTrace` the pointer of a new checkpoint is the length of the trace
  plus one, as in the code, so a push after a pop takes a slot again.
* In `EpochManager`, `HasCurrentValue` states where `_getCurrentValue` would
  underflow and revert.  `SearchesAgree` says that this never happens from the
  first epoch on.
* In `Settlement`, `rewound` is a history variable: has a genesis been placed
  below the last committed epoch.  The code allows it (only the epoch's own
  header must be free), and several promises hold only until it happens.
  Others come back: `AtHead`, read from the storage, says that the last epoch is
  the highest committed one, as it is again after a genesis above all headers,
  and `ForwardIsOperable` holds of every such state.
* In `VotingPowerProvider`, the overrides of `_registerOperatorImpl` run in one
  action: whitelist, jail and blacklist refuse, the provider adds the operator,
  auto-deployment deploys, registers its vault and sets the network limit.  A
  failure of any of them reverts all.
* In `EventIterator`, a branch of a `select` that is ready is a disjunct, so both
  orders of two ready channels are explored.
* Signatures are pairs of a call's type, an operator and a nonce.  `spent`
  remembers which have been accepted.

## 3. Runs

Every run ends by itself; `CHECK_DEADLOCK FALSE` is set where time is bounded,
because the model stops at its last tick where the contracts would go on.

| Run | Bounds | What it checks |
|---|---|---|
| `structures` | a trace of up to seven checkpoints over seven keys and two values (the square-root split starts at six); a set of two elements changed at four keys; the trees of four validator sets, list heights 1, 2 and 1, indices up to 40; 31230 states | `StructuresWellFormed` (pointers are positions, slots past the end are clear, statuses only hold changes), `QueriesAgree` (the split, the binary search, every hint, the counter and the views of a set), refinements of `KeyedLog` and `HistorySet`, `ProofsAreExact` |
| `valset_driver` | schedule: durations 1, 2, 3; eight seconds; timestamps up to 9, so that the last changes overflow; configuration: one parameter that changes, two providers of one chain, an invalid value for every check, while now is at most 3, the durations are 1 and 2 and at most two changes of them are recorded; 49414 states | `EpochTypeOK`, `ScheduleOK`, `SearchesAgree`, refinement of `EpochClock`, `OneElementPerGroup`, `EpochConfigIsFinal` |
| `settlement` | four epochs, two validator sets with different quorums and tags, two verifiers, extra data with repeated keys and zero values, four seconds, so that a contract is rewound and brought back above its old headers with several verifiers recorded on the way; a candidate for every failing check; 259872 states | `ChainOfTrust`, `StorageConsistent`, `CaptureOrder`, `ForwardIsOperable`, `PastIsFinal` |
| `settlement_rewind` | the same | finds `VerifierNotFromFuture` violated, section 6 |
| `provider_vaults` | two operators, a shared vault, an operator's vault and two addresses to deploy at (symmetric), two slashing data, two configurations, each data refusing one of them on one count (no slasher, too short an epoch) | `VaultSetsConsistent`, `StakeCountedOnce`, `AutoDeployNeverBlocks` |
| `provider_lists` | two operators, jail terms of one second, three seconds, nonces up to 2, no vaults | `ExcludedAreOut`, `UnlistedOnlyLeave`, `SpentSignaturesAreDead` |
| `provider_config_doc` | as `provider_vaults` | finds `NoSlasherNoWindow` violated, section 6 |
| `slashing` | a vault with an instant slasher, one with a veto slasher, one with none; four seconds; one request | `SlashedWhenRequired`, `RequestsCanBeExecuted`, `PastSlashabilityIsFinal` |
| `key_registry` | two operators, three tags of two types, three keys; three seconds; 12477 states | `KeysAreExclusive`, `HistoriesAgree`, `OwnKeysStay`, `PastKeysAreFinal` |
| `voting_power` | two aggregators: up to five rounds over two phases, and two rounds that may be stale, zero or too small; one token, one vault; three seconds; identifiers that leave sixteen numbers for a round; at most three rounds while settings change; 259301 states | `RoundIsLast`, `PresentAgrees`, `PastPowerIsFinal` |
| `sig_verifiers` | the curve over 31 (43 points), four operators with keys whose sums differ for different signers, four sets of which two compete, lists of at most two indices, two commits; 80036 states | `QuorumBehindCommits`, `QuorumIsEnough` |
| `event_streams` | five events, a channel of two; a client that loops, leaves, closes, looks away or unsubscribes; a log that cannot be decoded, a node that fails; 2151 states | `NothingLost`, `EndIsExplained`, refinement of `EventFeed`, `ShutdownReturns`, `LogsArrive` |

Why the bounds are enough.  Two operators (or elements, or verifiers) show every
conflict between two of them, and no handler looks at a third.  Three or four
timestamps give a change in the past, one now and one to come, with two changes
in one block.  `valset_driver` reaches several changes per epoch and epochs of
different lengths on both sides of a change; what its bound cannot show is
proved (section 4).  The provider's two runs split the state: vault bookkeeping
does not read the lists, and the lists only decide whether registration goes
through; the first run leaves the lists off, the second has no vaults.  In
`valset_driver` the other nine parameters and two sets share the code path of
the ones that change and are driven with invalid values only; `BOUND_NOW` limits
what the configuration and the schedule do together, since they share only the
clock, and the theorems have no such limit.  In
`voting_power`, two phases with zero to five rounds put the last round on both
sides of every power of two that the doubling probes and of the phase boundary.
In `sig_verifiers` a set larger than the largest verifier, a set that requires
another kind of key and a validator without power are among the four.  The
real trees of `ValSetVerifier` are higher (20, 7 and 10) by levels that repeat
the same step; that the height for keys differs from the other two keeps one from being
taken for another.

Constants that bound a model and have no counterpart in the code: `MaxTime`
everywhere, `MaxPointer` in `PointerTrace`, `MaxNonce` in
`VotingPowerProvider`, `MaxRequests` in `Slashing`, `Epochs` in `Settlement`,
`MaxPhases` and `MaxRounds` (per phase) in `PriceFeed`, `BOUND_NOW` in `MCValSetDriver`, `MaxEpoch` in `SigVerifiers`,
`NumLogs` and `MaxLogs` of the event streams.

Fairness.  Nothing in the contracts runs by itself, a call happens only if
somebody makes it, so their modules have no fairness and no liveness property.
What they owe a caller is that a call is *possible*, and that is stated as
invariants (`AutoDeployNeverBlocks`, `RequestsCanBeExecuted`,
`ForwardIsOperable`, `OwnKeysStay`, `QuorumIsEnough`).  The bindings have
goroutines, which the Go scheduler runs when they can run: `EventIterator` and
`EventWatcher` assume weak fairness of the goroutine, of a call to `Close` or
`Unsubscribe` once it is made, of the node's forwarding, and of the client's own
loop over `Next`.  Nothing forces a watching client to read, a client to stop,
the node to fail or the chain to emit.  Under this, `ShutdownReturns` (both ways
of stopping return, a full channel or a client that looked away
notwithstanding) and `LogsArrive` (a loop over `Next` ends; what is emitted
reaches a client that listens, unless the watch fails) are checked.

Refinements.  `PointerTrace` implements `KeyedLog`, `PersistentSet` implements
`HistorySet`, `EpochManager` implements `EpochClock`, `EventIterator`,
`EventWatcher` and with them `EventStreams` implement `EventFeed`; each mapping is stated in the detailed
module and is a property of a run.

## 4. Proofs

`tlapm` proves every leaf; the assumptions are the named `...Assumption`s of
the constants, which TLC evaluates in the runs.

`ValSetDriverProofs` proves, for every set of positive durations, every width
`MaxUint48`, every bound on time and all inputs of the driver (`EpochAssumption`,
`DriverAssumption`, evaluated by TLC in `valset_driver`):

* `TypesHold == Spec => []EpochTypeOK`: no stored timestamp or index leaves its
  width;
* `ScheduleHolds == Spec => []ScheduleOK`: both traces record the same
  changes, each change starts on a boundary of the one before it, and only the
  last change may lie in the future;
* `SearchesHold == Spec => []SearchesAgree`: the look at the last two
  checkpoints, the search by time and the search by epoch tell one story;
* `ImplementsEpochClockHolds == Spec => ImplementsEpochClock`: settled starts
  stay, and a change takes effect at the next epoch;
* `OneElementHolds == DriverSpec => []OneElementPerGroup`;
* `EpochConfigHolds == DriverSpec => EpochConfigIsFinal`.

The invariant `IInv == EpochTypeOK /\ ScheduleOK` is inductive.  Its three parts need
each other: `OneFutureChange` says which checkpoint is in force (`InForce`);
`Contiguous` says where the checkpoint ahead, if any, lies; and `TracesAgree`
carries the order from one trace to the other.  The step is `setEpochDuration`:

* before the first epoch the trace has one checkpoint, and the call replaces it
  (`SetBeforeFirst`, `ReplaceLast`);
* when the last change is in force, the call appends a change at the next
  boundary, later than the last key of both traces (`AppendNext`);
* when the last change lies ahead, the next boundary of the one in force is at
  or after it (or the push would revert), and no boundary lies between now and
  the next one, so both keys are equal and the call replaces the change in both
  traces.  This is arithmetic about integer division (`NextBoundary`, from
  `DivBounds` and `TimesOrder`).

The searches need no further invariant.  The schedule cuts time and epochs into
the same parts, one per change (`InPart`, `EpochInPart`); every time from the
first epoch on lies in one part (`TimeHasPart`), each lookup finds the change of
that part, and within it the code's division and its inverse meet
(`StartInPart`, `EpochOfTime`).  What the two getters that look back one
checkpoint need besides is that a change ahead starts exactly at the next epoch,
a conjunct of the schedule (`FutureIsNext`).  For the refinement, the next epoch
is the only one that starts after now while the one before it does not
(`NextFacts`), so that a tick settles one start or none and a change of duration
settles none (`ClockTick`, `ClockSetDuration`).

The driver is an `EpochManager` (`DriverEpochs == DriverSpec => Spec`), so all of
the above holds of it.  `DriverInv` adds that every set ever recorded holds
elements of different groups and that a group's flag is set exactly when the
latest set has an element of it: the code checks the flag, never the set.  That
packing an element into a word loses nothing is `Unpacks`, by division.
`EpochConfigIsFinal` then follows from what a push leaves unread below its key
(`LookupAfterPush`).

`VotingPowerProofs` proves, for any operators, vaults, tokens, lists and
inputs (`ProviderAssumption`, `CompositionAssumption`; TLC evaluates both):

* `TypesHold == Spec => []TypeOK`;
* `StakeHolds == Spec => []StakeCountedOnce`: the lists that the views of voting
  power run over name a vault once;
* `VaultSetsHold == Spec => []VaultSetsConsistent`: the sets of shared, all and
  each operator's vaults agree, and so does the record of deployed vaults;
* `AutoDeployHolds == Spec => []AutoDeployNeverBlocks`: a deployment with a
  valid configuration never makes a registration revert;
* `ExclusionHolds == Spec => []ExcludedAreOut`;
* `SignaturesHold == Spec => []SpentSignaturesAreDead`;
* `WhitelistHolds == Spec => UnlistedOnlyLeave`, an action property.

The invariant `IInv` is the conjunction of `TypeOK`, `VaultSetsConsistent`,
`SharedAreDeployed`, `ExcludedAreOut` and `SpentSignaturesAreDead`.  Each of the
last four is inductive relative to the types; there is one lemma for the step of
each (`TypesStep`, `VaultsStep`, `SharedStep`, `ListsStep`, `SignaturesStep`), one
for the action property (`WhitelistStep`), and the handlers are reasoned about
once (`HandlerTypes`, `AfterRegistration`, `AfterRemoval`, `RegistrationAdds`).
Two parts do the work.  An operator's vault delegates to that operator, which
makes the operators' sets disjoint, so that removing a vault from one of them
may remove it from the set of all (`VaultRemoved`).  And every registered vault,
shared or an operator's, has a contract behind it, so that the address a vault
is to be deployed at is in none of the sets (`SharedAreDeployed` is the
strengthening this needs; `Deployable` concludes).  `StakeCountedOnce` follows
once the sets are known to be finite.

Of the price feed and the calculators it proves, for any aggregators, answers,
phases, tokens, vaults and settings (`FeedAssumption`, `CalcAssumption`, which
TLC evaluates in `voting_power`):

* `RoundIsLastHolds == CalcSpec => []RoundIsLast`;
* `PresentAgreesHolds == CalcSpec => []PresentAgrees`;
* `PastPowerIsFinalHolds == CalcSpec => []PastPowerIsFinal`.

`CalcInvariant` is the inductive invariant `CalcOK == FeedOK /\ SettingsOK /\
CountedOK`: the rounds of a phase are in time order and no later than now, no
trace of settings has a key beyond now, and what was counted at the end of a
second is what the rounds and settings of that second give, while the phases
tell what the aggregators served then.  The argument has three layers.

* The search.  An identifier unpacks into what it was packed from, by division
  (`IdsUnpack`), so the halving may be done on the numbers of one phase.  The
  walk over phases, the doubling and the halving are recursive functions: each
  is shown to exist, and a least counterexample is refuted (`PhaseAtFinds`,
  `UpperBoundIsBeyond`, `HalvingFinds`).  The doubled bound exceeds every round,
  as long as the doubling does not leave the width of a number; that is the
  assumption `2 * MaxRounds[a] < IdSpan`, where the code counts rounds in 64
  bits.
* What is added later.  A posted round is not earlier than now, a new phase goes
  behind the others and a setting is pushed at now.  So what is found at a past
  time while the phases are clear is what was found before the step, when they
  were clear too (`RoundKept`, `HopPriceKept`, `WeightsKept`).
* The count.  `CountedOK` compares what was counted with `PowerBy`, the power by
  the reference reading of rounds and settings at a time.  It says nothing of
  how they were found, which makes it inductive; `PastPowerIsFinal` follows from
  it with the search.

`CheckpointsProofs` holds what the other proofs use of histories: the shape of a
sorted trace, the type of a lookup, what a lookup reads at and after the last
key (`LookupLast`), and what a push changes of it.  The abstract lookup is a
choice over the trace, so these need no induction.  The library's own search
does: it is a recursive function over the sections of a trace.  The provers
cannot instantiate an induction theorem, but they can reason about a
least counterexample (`LeastNumber`, from the well-founded order of the
numbers).  So it is shown that a function satisfying the recursion exists and
is right (`SearchExists`, `SearchSplits`), that the square root lies strictly
inside the trace (`SqrtInside`), and hence that the search ends where the keys
pass the one asked for (`LookupPosSplits`).  The loop that filters a list is
treated in the same way (`SublistKeeps`).  What the library's search finds is
the checkpoint that the abstract lookup reads (`LookupPosFinds`,
`FoundIsLookup`), so that proofs above it need only the latter.  Once and for
all, a loop from 0 to n whose step is a function of its state runs (`LoopRuns`),
and what its step keeps holds throughout (`Throughout`, `GrowsThroughout`); the
sums and walks of the signature verifiers are such loops.

`StructuresProofs` proves of pointer traces `PointersHold` (`TypeOK /\
PointersFresh`, which is inductive) and `ImplementsKeyedLogHolds`.  The values
the mapping reads go through pointers; because pointers are positions and slots
past the end are clear, a push or pop changes the mapped log at its last key
and nowhere else.  Of persistent sets, `SetInv` says of every element that its
statuses are what a sequence of adds and removals leaves, that the list names
it once, and that the counter is the number of members.  Every call moves one
element in or out from its key on (`SetNextSteps`, over `Moved`).  From the two:
`WellFormedHolds` (`StructuresWellFormed`), `QueriesHold` (`QueriesAgree`: the
search with and without a hint, the views and the counter, for traces of any
length) and `ImplementsHistorySetHolds`.

`StructuresProofs` also proves, of the trees of validator sets,
`ProofsAreExactHolds == StructuresSpec => []ProofsAreExact`, for trees of any
height, so for the real 20, 7 and 10.  `ValSetsAssumption`, which TLC evaluates
in `structures`, says that no list is longer than its tree has leaves and that
a caller may send the index of every element and, of a proof's leaf that is a
hash, the openings of the leaf itself and of the two nodes under it.  Other
proofs and indices there may be in any number.  The argument:

* The layers of a padded tree and the nodes along a proof are recursive
  functions; each exists and obeys its step (`ClimbExists`), by a least
  counterexample again.
* `Exact(root, height, index, node)` says that a proof of that height at that
  index is accepted against the root if and only if its leaf is that node, and
  that such a proof may be sent.  A root is exact about itself; a hash passes
  it on to the node under it that the index selects (`Descend`), since its
  preimage is unique, and so down the whole tree of a container
  (`TreeShown`) and below the length of a list (`ListShown`).
* The leaf of an accepted proof that is a hash is a root to start again from
  (`Restart`): from the set to a validator, from there to its key or vault, and
  from there to a word.
* No proof is accepted against a word (`NoPath`), so nothing is shown of the
  padding of a list (`NothingOfPadding`); an index outside a list is refused,
  and one inside it is that of one element (`Places`).  So the claims accepted
  are, element by element, the facts (`KeysAre`, `VaultsAre`,
  `ValidatorIsShown`, `SetIsShown`).

`SettlementProofs` proves all five properties of run `settlement`, geneses that
rewind included.  `IInv` is `StorageConsistent`, `ChainOfTrust` and
`CaptureOrder` with three strengthenings: `FromZero` (the trace of verifiers is
sorted, not empty and starts at epoch 0, so one is always in force),
`NothingAhead` (no verifier is recorded beyond the epoch after some committed
one, rewound or not) and, until a genesis rewinds, `AtHead` and
`VouchedByRecorded`.  At the head nothing is then recorded beyond the next
epoch, so the look at the last two checkpoints finds what a search of all of
them does (`HeadIsRecorded`, `InForceIsRecorded`).  `ChainOfTrust` needs that a committed header is never overwritten:
both handlers refuse a committed epoch.  That extra data with repeated keys
stores the last entry rests on `LastEntryExists`, by a well-founded order.

It also proves, of the signature verifiers, for any validator sets, circuits,
lists and data a relayer may send:

* `QuorumBehindHolds == VerifierSpec => []QuorumBehindCommits`;
* `QuorumIsEnoughHolds == VerifierSpec => []QuorumIsEnough`.

The assumptions are three, and TLC evaluates them in `sig_verifiers`.
`FieldAssumption`: a prime that is 3 modulo 4.  `CurveAssumption`: the sum of
points is one of a commutative group, the exponentiation finds the root of an
ordinate's square, and no point but zero has a zero coordinate.  These are facts
of the curve out of these provers' reach; of the curve over 31 TLC evaluates
them, of BN254 they are known.  `VerifiersAssumption`: the validators of a set
have different keys, their power is below 2^256 and reaches the quorum, and
different groups of operators have different sums of keys.

The invariant `VerifierInv` is `QuorumBehindCommits` with what its step needs:
the extra data beside a set is what the relay derives from that set, and the
circuits of the ZK verifier passed its constructor.  The argument:

* A list that `InOrder` accepts names each index once, so the power that the
  walk adds up is the power of the validators at those indices
  (`WalkCountsPower`, with `PowerAdds`: power adds over disjoint keys), and it
  never wraps (`PowerFits`).
* What is deserialized is what was serialized (`CompressionIsLossless`): the
  root found is the ordinate or its negation, and the bit says which.  Where
  the code negates, the result is the opposite point (`NegateIsOpposite`).
* `Aggregate` takes keys in some order; over a commutative group the order is
  immaterial (`AggregateTakesAny`, `AggregateAdds`).  So the walk's sum is that
  of the keys listed (`WalkAddsKeys`), and what is left of the aggregated key
  is that of the rest (`AggregateOfRest`, `WalkLeavesSigners`).
* Therefore a signature that verifies was made by exactly the validators that
  were not listed, whose power the verifier compared with the quorum
  (`SimpleNeedsQuorum`).  Conversely the list of those who did not sign is in
  order and leaves the signers (`SublistOfIndices`, `SimpleTakesQuorum`).
* For the ZK verifier, the circuits are in increasing order, so the first with
  room, which the code asks, is the smallest, which the relay proves for
  (`FirstIsSmallest`, `ZKTakesQuorum`).

`SlashingProofs` proves `SlashedWhenRequired`, `RequestsCanBeExecuted`, `TypeOK`
and the action property `PastSlashabilityIsFinal`.  `IInv` adds `DataRecorded` (the slashing
data were first recorded by now and never later) and `CapturesArePast` (all that
was slashed or requested was captured before now); together they make a push of
new data, which is at `now`, invisible to every earlier capture.

`KeyRegistryProofs` proves `HistoriesAgree`, `KeysAreExclusive`, `OwnKeysStay`
and the action property `PastKeysAreFinal`.  `IInv` is `HistoriesAgree` with
`Owned` (every key in a history is in all three maps under its operator, type
and tag) and `MapsAgree` (the maps agree with one another); the maps are never
cleared, so what they say of a key that has been replaced still excludes others.

`EventStreamsProofs` proves, for any number of events and any capacity, `TypeOK`,
`NothingLost` and the refinement `ImplementsFeed` of the iterator, and of a
client that filters or watches `EndHolds` (`EndIsExplained`: a watch that has
ended has dropped its subscription and tells why) and `StreamsFeedHolds`
(`StreamsAreFeeds`).  `IInv` says that what was delivered, what lies in the
channel and what is to be sent are three adjacent pieces of the sequence of
events, until a log cannot be decoded, and why an iteration is over.  For the
watch (`WatchInv`, with `InTransit`) there is a fourth piece, the event in the
hand of the goroutine while it offers it to the sink.

Only model-checked is liveness (`ShutdownReturns`, `LogsArrive`), which is out
of the prover's reach altogether.  Every safety invariant, action property and
refinement that a passing run checks is stated by a theorem as well.

## 5. What is left

* A relay that derives headers from the driver's configuration and commits them
  to several settlements at different times, with the agreement of all
  settlements on the epochs they have in common.  The derivation is off-chain
  code outside this repository; what the contracts contribute to it is covered
  by `EpochConfigIsFinal`, `PastKeysAreFinal`, `PastPowerIsFinal` and
  `ChainOfTrust`.

## 6. Findings

* `settlement_rewind`: `ISettlement.sol` says that a new verifier "will be
  'committed' only in the next epoch".  After a genesis below the last
  committed epoch, two recorded verifiers can lie ahead of it.
  `_getCurrentValue` (`Settlement.sol:298-310`) then returns the last but one,
  a verifier recorded for an epoch to come, and `getSigVerifier` disagrees with
  `getSigVerifierAt` for the last epoch.
* `provider_config_doc`: `IOpNetVaultAutoDeploy.sol:27` documents the error as
  "Reverts when the with slasher is disabled but the slashing window is not
  zero"; the code (`OpNetVaultAutoDeployLogic.sol:157`) looks at
  `requireSlasher` only, and accepts a configuration without a slasher under a
  non-zero window.
* Without a run of its own: `IPricedTokensChainlinkVPCalc.sol:59` says of a price
  that it is zero "if the data is stale or unavailable"; a token that has no
  hops yet makes the call revert instead, and so does a hop that is
  inverted and whose answer is scaled down to zero (the division of
  `Scaler.invert`).
  `VotingPowerCalc` models the revert (a reading that is none).

## 7. Not modelled

* Pairings, hash-to-curve, the zero-knowledge circuits and hashing: beyond model
  checking.  Signatures and proofs are what they attest.  The lengths of a proof
  in bytes, which the verifiers read from calldata, are left out.
* BLS12-381 keys and their compression, and ECDSA keys: values in `KeyRegistry`.
* `VotingPowerProvider` counts which vaults contribute; how much is in
  `VotingPowerCalc`.
* Permissions and initialisers of OpenZeppelin, `NetworkManager`, `OzEIP712`,
  `InputNormalizer`: values written once or pure wrappers.
* `BaseRewards`: approves and forwards, keeps no history.
* Slashed amounts, hints for lookups of other contracts, failed low-level calls
  to core contracts, the encoders of `OpNetVaultAutoDeployLogic` that no code of
  the repository calls.
* The callers, transactors and sessions of the Go bindings encode a call and
  decode its answer and hold no state; they and the copies of the iterator and
  the watch for the other events make up nearly all of the generated code.
* `script/`, `abis/`, `examples/`.
