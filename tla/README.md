# A verification project for Random-Dungeon

TLA+ models of the randomness beacon of this repository, TLC runs that check
them on small instances, and TLAPS proofs of what matters most for instances of
any size. The models are written from the source; where they and a document of
the repository disagree, the section *Findings* says so.

    tlc -config Beacon.cfg MCBeacon        # and so on, see "Runs"
    tlapm BeaconProofs.tla
    tlapm OracleRunnerProofs.tla            # and the other modules named *Proofs

## The system

The beacon publishes, per *epoch*, a verifiable random output. An operator opens
the epoch on Solana with three deadlines. The oracle commits to a salt, gathers
public entropy (Bitcoin, drand, NWS, USGS), reveals salt and manifest hash, and
finalizes with a Groth16 proof that the output is the VRF of the seed. A web page
lets anybody compare the on-chain record with the archived raw responses.

| component | source | state | operations |
|---|---|---|---|
| randomness-beacon program | `programs/randomness-beacon` | one `EpochState` account per epoch id | `initialize_epoch`, `oracle_commit`, `oracle_reveal`, `finalize_epoch` |
| oracle runner | `oracle/src/runner.rs`, `epoch.rs`, `finalize.rs` | salt of the confirmed commit, `has_revealed`, `has_finalized`, all in memory | `run_loop`: read the phase, decide, send, retry |
| oracle commit-once | `oracle/src/main.rs`, `epoch.rs` | a salt in memory | commit, `wait_for_phase`, reveal, nothing retried |
| oracle init-epoch | `oracle/src/main.rs` | none | check the order of the deadlines, `initialize_epoch` |
| RPC and transactions | `oracle/src/rpc.rs`, `tx.rs` | none | reads, send and confirm with a timeout |
| entropy pipeline | `oracle/src/entropy` | `archive/<epoch>/` on disk | gather, canonicalize, manifest, seed, archive |
| entropy_once | `oracle/src/bin/entropy_once.rs` | the same directory | one gather and archive, off chain |
| VRF core and circuit | `crates/vrf-core`, `vrf-circuit` | none | evaluate, constrain |
| setup | `crates/setup` | the three key files of `artifacts/` | `local-random`, `import-ceremony` |
| prover | `crates/prover` | the four proof files | prove, one file after another |
| verifier program | `crates/solana-program` | one record of an accepted proof per authority | `verify_vrf_proof`, redeployment |
| verifier client | `crates/verifier-client` | none | verify the files on disk |
| scripts | `scripts/local-demo.sh`, `deploy-devnet.sh` | key files, `lib.rs` with its program id, `target/deploy`, a validator | setup, sync, build, deploy, run, restore |
| audit page | `web` | the selected epoch and its fetched files | fetch, re-canonicalize, compare, verify |

**How they interact.** The program is passive and every instruction is atomic:
its accounts are the only state the other parts share. An oracle process sees the
chain through RPC calls, each of which may fail or be late, and it may be killed
at any await. Two of these calls, the account and the slot, make one view of the
phase, so the account can be older than the slot. A transaction whose confirmation
is given up on may still be executed. The archive is a directory written file after
file before the reveal is sent; the audit page and any other reader meet it later.
Setup, prover, scripts and the build of the programs meet in the files of a checkout and
nowhere else: whoever comes later takes what it finds there.

**What is hard.** The order in which transactions land, which is not the order
they were sent in; memory that dies with the process while the commitment it
opens lives on; deadlines that pass while work is retried; an archive that must fit
a reveal the process may not know was executed; files that are written one after another
by commands that may stop anywhere, and reused because they exist; multi-word arithmetic
that must agree with a field implementation elsewhere.

**What correct means**, part by part:

* *program*: a bound seed opens the commitment next to it; it is bound once; the
  published output was proved for it; a finalized account is final; the stored
  phase is true; an epoch keeps its oracle and its deadlines.
* *reduction mod r*: the program and the prover compute the same scalar.
* *runner*: a salt leaves the process only when no commitment can be changed; what
  a confirmation said is what happened; a proof is for the final seed; an epoch is
  reported lost only when it is; the exit status tells the outcome; the process ends;
  left to itself it publishes.
* *archive*: it explains the manifest hash on the chain.
* *commit-once*: "revealed" means that its own seed is bound, beside any rival.
* *entropy pipeline, entropy_once*: what is archived re-derives its own hash and seed;
  the hash depends on what was measured and on nothing else; missing values cannot be
  confused with measured ones; a failure that the code notices, anywhere, archives nothing.
* *setup, prover, scripts*: proofs of the proving key on disk are accepted by whatever
  was built from the source on disk; what a script deploys fits the keys it leaves; the
  demo puts back what it found; a redeployment does not change the key on devnet.
* *verifier program*: a record shows an evaluation of the VRF.
* *audit page*: its sections show one epoch, the selected one; a verdict is right about
  the epoch the button was pressed for; a check that was started ends, if its handler does not throw.

## Modules

    EpochLifecycle                  what a consumer of the accounts is promised
         ^ implemented by
    Beacon                                                  ModR --- ModRProofs
      ^
    Cluster -------------------------- BeaconProofs
      ^                                 ^       ^
    Archive                             |       |
      ^    ^                            |       |
      |  CommitOnce ------------ CommitOnceProofs
      |                                         |
    OracleRunner --------------- OracleRunnerProofs
      ^        ^                                ^
    RunnerDemo  RunnerHistory ---- RunnerMemoryProofs
    RunnerAttempts  (extends OracleRunner)

    ManifestLayout            ProofRecord             Visualizer --- VisualizerProofs
         ^                         ^
      Entropy --- EntropyProofs  Artifacts
                                   ^
                                 Scripts --- ScriptsProofs

An arrow is EXTENDS, a line leads from a module to its proofs. Each module that a run
checks has an MC module of its name with the constants' values; those about the beacon
and the oracle share SymbolicHashes, which gives TLC free constructors for the hashes.

**Beacon** models the program. `epoch` is the set of accounts (a function on the
ids that exist), `slot` the clock. Each handler is an action of the handler's name,
its `require!`s are the guards in source order, and its writes are an operator
(`Fresh`, `Committed`, `Revealed`, `Finalized`). A rejected instruction leaves no
trace and is a step that does not happen. Any signer may call any handler with any
arguments; the deadlines of an epoch are in any order, as `initialize_epoch`
does not check them. Hashes and the VRF are arbitrary constant functions, of which
only types and "not 32 zero bytes" are assumed: injectivity is used nowhere.
A Groth16 proof is a member of the set of statements some secret key satisfies, or
a bad proof.

**EpochLifecycle** is the abstract specification: absent, open, bound, published,
with at most one seed and one output, the output an evaluation of the seed, or of
zero: the program does not ask for a reveal before it finalizes.

**Cluster** puts transactions around Beacon: a pool in which transactions wait in
no order and are executed at most once (`Land`), or fail, are dropped or expire
(`Lose`), and the one whose confirmation a process awaits. `derive_phase` and
`PhaseOf` are the oracle's view of an account.

**Archive** is the directory: raw files are torn while they are overwritten, then
belong to one bundle, then `manifest.json` follows.

**OracleRunner** is `run_loop`. `pc` names the await the loop is at; a step is the
code from one await to the next. `Progress` is the loop when calls succeed,
`Failure` each error branch (read failed, work failed, not sent, given up), `World`
the network, slots, operators, start, SIGINT and crash. The tables below give the
correspondence.

| `pc` | await in the code | actions from there |
|---|---|---|
| `retry` | the sleep after an error | `Resume` |
| `select`, `slot` | `current_phase`: the account, then the slot | `ReadState`, `Decide`, `LeaveEpoch`, `DecideReread`, `ReadFails`, `Interrupt` |
| `commit` | `send_commit` | `SendCommit`, `NotSent` |
| `gather` | `gather_all` | `Gather`, `WorkFails` |
| `archive_*` | `archive`, one file after the other | `ArchiveBegin`, `ArchiveRaw`, `ArchiveManifest`, `WorkFails` |
| `reveal` | `send_reveal` | `SendReveal`, `NotSent` |
| `read_seed`, `prove`, `finalize` | `read_epoch_state`, the prover, `send_finalize` | `ReadSeed`, `Prove`, `SendFinalize`, and their failures |
| `await` | confirmation, with `RPC_TIMEOUT` | `Confirmed`, `Rejected`, `GiveUp` |
| `reread` | the second read of a closed epoch | `CloseEpoch`, `RereadFails` |
| `down`, `exited` | no process | `Start` |

**RunnerHistory** adds to OracleRunner whether the process ever gave up on a
transaction, and states the two promises that depend on it.

**RunnerAttempts** adds to it in which slots the process has asked its sources in vain, and
states what `seed.rs` expects of the caller then.

**RunnerDemo** adds to OracleRunner what makes it end and what makes it succeed. A
behaviour is a demo or it is not (`demo`, drawn once): in a demo the script opens the epoch
and starts the process, nobody stops it and no confirmation is lost, and a deadline does not
pass during the work of its window (`KeepsUp`). In any other behaviour everything that
OracleRunner allows may happen.

**CommitOnce** is `cmd_commit_once`: every `?` is `Fails`, a transaction that was rejected or has
expired is `Rejected`, and a rival process of the same key commits and reveals at any time. The model keeps the rival to what the
same code does: fresh salts, and reveals in the reveal window.

**ModR** is `reduce_be_bytes_mod_r` with `gte_r` and `sub_r`, one limb per step, in
wrapping arithmetic.

**ManifestLayout** is the layout that the oracle, `entropy_once` and the audit page
each write down for themselves. A byte string is the sequence of its fields; SHA-256 is a
free constructor. `Sorted` is Rust's stable `sort_by`, by a set of pairs: it puts an element
where the number of those before it says.

**Entropy** is one bundle from the requests to the files, built by either program
(`tool`): `Answer` (each endpoint, stations included, in any order), `FetchFails`,
`Gathered` (`gather_all`), `CanonicalizeFails`, `FinalizeBundle` (`finalize`), `Rebuild`
(the second manifest of `entropy_once`), `WriteFile`, `WriteFails` (the archive, one
file after another, over what an earlier build may have left). An answer is data or one
of three failures, which the code notices in three places: HTTP status, JSON,
canonicalization. What the code takes for data is data, an empty list of earthquakes
included. Lengths are kept where the layout has them, since that is what makes
concatenated fields unambiguous; a measurement is counted in halves of the unit it is
stored in, so rounding, both ends of the integer and the missing value are all
there. OracleRunner sees this module as `Gather` and the three archive steps: the runner
needs the order of the writes, Entropy needs what is in them.

**Visualizer** is the page in one browser tab. `loads` are the calls of `loadEpoch` in
flight and `checks` the digests and fetches behind the three buttons, both settled in any
order; `view` says for each section the epoch it was drawn from, `result` what is written
next to each button and about which epoch. `Damage` says what is wrong with the files of an
epoch in ways the code does not catch: a field that is missing, null, or of odd length.
`selectEpoch` sets `state.current` and then draws one section after another; `Needs` and
`Obstacles` say, per section and stage, which damage stops it before it gets there, and
`Rendered`, `RenderedPanel` and `Erased` what is left standing. `Throws` says the same of the
handlers of the buttons, of which only that of alpha catches anything (`AwaitsVerdict`). `Boot` is `main`, `User` the selector, the
pipeline and the buttons. Digests are constant functions, so an archive may be consistent
or not.

**ProofRecord** is the stand-alone verifier program: one record per authority, replaced by
every proof the program accepts, under the verifying key it was last built with. A
proof is the setup whose proving key made it, and its statement.

**Artifacts** is the checkout as commands see it. `disk` maps the files to what
they hold: the number of a setup, a proof, inputs, `Torn`, or nothing. `at` is the command
or step at work and `file` the file it writes; each file is truncated (`Truncate`), then
written (`WriteFile`), and the next is the one that comes next in the code (`NextFile`).
`LocalRandom`, `ImportCeremony` and `Prove` are the commands; `verify_from_files` and
`LocalValidatorTestPasses` are what `verifier-client` and the validator test say of the files.

**Scripts** adds the two shell scripts, whose steps are values of `at`, with the
programs they leave on two clusters. `set -e` is `Fail`: any step may fail and ends the script; the demo
goes by way of its EXIT trap (`Cleanup`), in which a `cp` may fail without a consequence
(`|| true`). `Kill` runs no trap. Options are the environment variables that change what
happens to files. `whole`, `rotated` and `before` are history: whether key files were
touched since the last complete setup, whether the operator asked for other keys, and what the
sources were when the demo began.

A definition with a suffix after the name of another
(`CommitWindow_no_deadline`) is a wrong variant of it, put in its place to test that
the properties notice.

## Runs

| run | what it shows | bounds | distinct states |
|---|---|---|---|
| `beacon` | all properties of Beacon and the refinement of EpochLifecycle | 1 epoch, 2 signers, salts, manifests and keys, the 13 orders of three deadlines, slots 0..4 | 815 |
| `mod_r` | the reduction returns the remainder and never owes a borrow | 4 limbs in base 6, 27 moduli | 384 k |
| `runner_faults` | confirmations, salts, proofs, `bail!` and the exit status are right under all faults; as long as nothing was given up on, the chain holds the commit in memory and the archive explains the seed | 3 salts, 5 bundles, 2 transactions in flight, 2 starts, slots 0..5 | 4.0 M |
| `runner_demo` | every run of the process ends; a demo publishes over an archived seed and ends | 2 salts, 4 bundles, 1 in flight, 1 start, slots 0..5 | 40 k |
| `commit_once_rival` | "revealed" is true beside a rival; the salt stays secret; the command ends | 3 salts, 4 bundles, 2 rival transactions, 2 polls | 25 k |
| `entropy` | archives prove themselves, hashes bind what was measured, failures archive nothing | 2 stations, feeds of up to 2 events, 2 readings of the clock, 0 or 3 files left over, integers of 16 and of 8 values | 1.0 M |
| `visualizer` | sections agree as far as they can be drawn, verdicts are true, "computing" ends unless a handler throws | 3 epochs (a consistent archive, one with two errors, one without its list of sources), 2 stages, 2 loads in flight | 412 k |
| `scripts` | keys, proofs, sources and clusters fit each other; the demo restores; devnet keeps its key; records are true | 3 commands in a fresh clone, all options, a failure or a kill at every step and inside every file | 452 k |
| `runner_lost_archive`, `runner_unrevealed`, `scripts_fixture`, `visualizer_overtaken` | the findings below, each found as a counterexample | as above | |

*Why the bounds are enough.* Beacon's handlers touch one account and compare the
clock with three numbers, so one account and a weak order of three deadlines with
a slot before, at and after each of them are all the cases the code can tell apart;
two of every other thing make "another one" possible. The proofs, for any number of
accounts, remove these bounds altogether. The runner knows one epoch. Two transactions in flight are the one
that was given up on and its retry; two starts are a life and the one after it;
two slots in the commit and the reveal window give the first and the last slot of
each. Three salts and five bundles let each of the two be fresh when the pool, the
account, the memory and the disk hold others. `ModR` has four limbs as the program
has; in base 6 a limb of the modulus is zero, one or the largest, which makes every
chain of borrows, and the quotient reaches 5 as that of a 256-bit number by r does.
`MaxPolls` is 2 instead of 60: a poll carries nothing over to the next but its count.

In `entropy` one station reports every interesting number (between two integers, at
both ends of the range, beyond them, missing) while the other is fixed: stations are
canonicalized one by one. Ids, lengths and magnitudes of events are drawn from
overlapping small numbers, so that leaving a length out does produce equal bytes. In
`visualizer` two loads are enough for one to overtake the other; the second stage, `vrf`,
is the one that is drawn from other data, and does not need the list of sources, so whether the
damaged epoch can be drawn to the end depends on the stage that is selected. The other kinds of
damage stop drawing at other places, which is what the proof is for: it holds of all.

In `scripts` three commands are one that leaves something behind (keys, a torn backup, a
program on devnet), one that makes it worse (a demo killed in its trap, half a setup), and one
that takes what it finds. The proofs need no bound here. Two statements and a mixture of
them let the proof of one run of the prover meet the inputs of another.

*Bounds by name.* `MaxSlot`, `MaxInFlight`, `MaxStarts`, `MaxPolls`, `MaxRivals`, `MaxLoads` and
`MaxCommands` are in the guards of the actions they bound.

**Fairness.** `ProcessEnds` assumes that slots go on, that the process is scheduled,
that a transaction in flight lands or expires (a blockhash is valid for about a
minute and a half), and that failures of the outside world stop at some time; without
the last, `run_loop` retries a failing read for ever. The fairness may exclude
failures only, so an error leads to a place of its own (`retry`): else it would
look like an idle iteration, and a loop that idles for ever would be excluded with it.
`Start` and operators owe nothing. For `DemoPublishes` the script opens the epoch and
starts the process, and a network offered transactions again and again executes one. That a
deadline does not pass during the work of its window is no fairness but a guard of `DemoSlot`
in a demo: it is what the script's generous windows are for. `CommandEnds` asks that
the process is scheduled, that its calls return, with an answer or an error, and that a
transaction in flight is executed or expires. The command sets no timeout of its own around a
read or a send, unlike the runner: a read returns because the HTTP client of the library gives up, a
source because of the 30 s of `seed.rs:23`, and the confirmation loop ends when the blockhash has
expired (`Rejected`), so slots have to go on. Nobody owes a failure (`Fails` is not in the
fair part): the command ends without one. `ComputingEnds` asks that the browser settles every
request and every digest, which `fetch` and `crypto.subtle` promise; the user owes nothing.

**Deadlock** is not checked where the clock is bounded: the models stop when slots
run out and processes have ended, a build is over, a page has died, the last command was
used. That nothing waits for
ever is `ProcessEnds`, `CommandEnds` and `ComputingEnds`.

## Proofs

`BeaconProofs`, for any sets of ids, signers, salts, manifests and keys, any hash
functions that avoid zero, and any deadlines:

* `TypeCorrect`, `SeedsOpenCommitments`, `OutputsProveSeeds`, `PhasesTellProgress`:
  the four invariants;
* `TermsNeverChange`, `RevealsBind`, `FinalizedNeverChanges`: the action properties;
* `BeaconImplementsLifecycle`: the refinement.

The invariants are not inductive: they say nothing of the clock, and a commit
under a bound seed would break `SeedOpensCommitment`. `oracle_commit` does not look
at the seed; what prevents it is that a seed exists only after the commit deadline.
`IInv` adds just that (`WindowInv`): a seed puts the slot past the commit deadline,
an output past the reveal deadline. It is a predicate of one account and the slot,
so each handler has a lemma about one account (`CommittedAccount`,
`RevealedAccount`, `FinalizedAccount`, `FreshAccount`, `OlderAccount`), and
`OneAccountStep` lifts them.

`OracleRunnerProofs`, for any set of faults, any schedule, any number of starts and
of transactions in flight:

* `RunnerIsAClient`: the process and all that surrounds it make a behaviour of Beacon,
  so the theorems above hold of it (the second half of `BeaconProofs` has what this rests on:
  what the network executes is an instruction, and what made a transaction safe to send stays true);
* `RunnerTypeCorrect`, `SaltsAreSecret`, `ProofsFitTheSeed`, `BailsAreTrue`.

`RunnerInv` says what the loop may conclude from a read that is no longer fresh: the
account read has the terms of the account now, a window that was over stays
over, and a seed read after the reveal window is final. Each of these is an
assertion about one value of `pc`; steps of the world keep them (`WorldStep`, by
what `ChainKeeps` says an instruction leaves alone), steps of the process
establish the next one (`GoToStep`, `AwaitStep`, `LoopStep`, `ExitStep`).

`RunnerMemoryProofs`, with the same generality:

* `ConfirmationsHold`, `ExitsTellOutcomes`. `MemoryInv` ties each memory to the chain and the
  disk: an awaited transaction that landed has done what it says (`Told`, which `BoundSeedStays`
  keeps true), the archive is that of the awaited reveal, and the loop builds another archive only
  as long as no reveal was confirmed.
* `CommitsStand`, `ArchivesMatchTheChain`, about RunnerHistory: as long as nothing was given up
  on. The two are far from inductive: they say nothing of what is in flight. `AloneInv` adds that a
  process that holds the salt of an executed commit has no reveal in flight but the one it
  awaits, and that the archive is that of every reveal in flight, one of a life that is over
  included: a later life cannot come to hold such a salt, since no commit can land once a reveal
  was sent (`SaltsAreSecret`). `StandInv` says the same of commits, of the first life only.

`CommitOnceProofs`, for any number of polls and rival transactions: `OnceIsAClient`,
`OnceTypeCorrect`, `RevealedTellsTheTruth`, `OwnSaltIsSecret`. `OnceInv` follows the command from
await to await. That a rival makes no difference comes from the program alone: a
reveal that lands opened the commitment of that moment (`OwnRevealBinds`) and cannot be
replaced (`BoundStays`), so the proof asks nothing of hashes, and not that salts differ.

`ScriptsProofs`, for any number of commands in any order, any options, failures and kills:
`ScriptsTypes`, `RecordsStayTrue`, `CurrentProofsAlwaysVerify`, `DemoStaysCoherent`,
`DeployStaysCoherent`, `CleanupRestores`, `DevnetKeyStays`. Each of the properties is about one
moment, so `ScriptsInv` says how far the command at work has come:

* `FileInv`: which file it may be writing; `SetupInv`: which key files are of its setup already;
* `WholeInv`: after a complete setup the three key files agree until something else writes them;
* `CoherentInv`: what the build, then the cluster, have from the source;
* `BackupInv`: which sources are in the backup, and which are put back (`Saved`, `Restored`);
* `StableInv`: why the source that the next build reads is that of the key on devnet: the key
  files exist, so nothing but the operator asks for a setup, and a demo in between has
  its backup.

`ModRProofs`, for any base from 2 on, any number of limbs and any modulus whose first limb is not
zero (that of BN254 is not): `RemainderIsReturned`, `NothingIsEverOwed`. An integer is Horner's
scheme over its limbs. `ModInv` says what a half-done subtraction has left: the limbs that
are done, those that are not with the modulus still to be taken from them, and the borrow
between the two (`Left`) make the input less a multiple of the modulus, and are not negative,
because `gte_r` compared before it began (`GteCompares`). That a wrapped limb is the
right one is `LimbArithmetic`; that no borrow is left at the end follows from the sign alone.

`EntropyProofs`, for any stations, answers and earlier archives, feeds and strings of any length
and integers of any width:

* `OnlyAnswersAreArchived`. `BundleInv` says what each stage of a build may conclude of the replies:
  nothing is awaited once requests are over, and nothing has failed once canonicalization
  has accepted every sample (`AcceptedIsData`: every endpoint is in some sample);
* `ArchiveIsRederivable`. `FileInv` follows the build: the bundle is that of the answers, the
  record is of the bundle at a time of its own, and the files written so far are of this
  build, so that at the end nothing of an earlier one is left;
* `OrderNeverMatters`, from `SortedIsUnique`: under a strict total order, a list of distinct
  elements is sorted to the same list whatever its order was, because the place of an element is
  the number of elements up to it (`PlaceIsRank`, `Ranks`). The order of ids is one
  (`IdOrderIsStrict`), and that of the names;
* `BytesAlwaysBind`, from `EventsAreReadBack`: an event that begins at the same place as another
  has the same length, hence the same id and magnitude, and ends at the same place;
* `MeasurementsAreAlwaysStored`, an argument about one number (`StoredMeasurement`).

Induction in these two modules is a lemma about sets of numbers (`IntervalInduction`,
`InductionUpTo`), which rests on the least element of a set: an operator as a parameter of a
theorem is more than the provers can instantiate, a set is not. That a recursive
definition defines a function is proved with it too (`HornerDefined`, `Flattening`).

`VisualizerProofs`, for any list of epochs, any archives, any damage to them and any number of
loads in flight: `VisualizerTypeCorrect`, `PagesShowOneEpoch`, `VerdictsTellTheTruth`. The three
invariants are inductive together; `ResultWritten` is the heart of the third: a
text about no epoch or a true verdict may be written next to a button at any time, and
a handler keeps the epoch it was made for, so it makes no difference what is drawn
while a digest is awaited. For the second, drawing is monotone: a section that is not reached at
the selected stage has an obstacle there (`Reached`), and the panel is redrawn from
`state.current` by whoever draws it.

Assumed are the types of the constants (`HashesAreNotZero`, `SlotsAreNat`,
`ClusterConstants`, `ArchiveConstants`, `RunnerConstants`, `CommitOnceConstants`,
`EntropyConstants`, `DataIsTyped`, `ModRConstants`, `VisualizerConstants`, `ProofRecordConstants`, `ArtifactsConstants`,
`ScriptsConstants`), nothing else. `DataIsTyped` has one assumption that is more than a type:
no two events of a feed have the same id. The code relies on it too: its sort is
stable, and would keep such a pair in the order of the server.

*Only model-checked*: liveness (`ProcessEnds`, `DemoPublishes`, `CommandEnds`, `ComputingEnds`),
which is beyond this prover. Every other property of the passing runs is a theorem.

## Findings

Each is a run in which TLC shows the code reach what a text of the repository rules out.

* `runner_lost_archive`: a reveal the process gave up on lands after its bundle was
  overwritten by that of the retry (`runner.rs:169`). The seed on the chain
  can no longer be re-derived, against `docs/entropy.md:3-6`.
* `runner_unrevealed`: sources fail at every slot of the reveal window, the process retries
  each time, and then finalizes the epoch over the zero seed (`runner.rs:163-167`,
  `lib.rs:81-117`). `seed.rs:35-36` says "On any source failure, returns Err and the caller is
  expected to abort the epoch". (`epoch.rs:14-17` accepts a finalization without the oracle after a
  restart has lost the salt; here nothing was lost.)
* `scripts_fixture`: the demo puts the verifying key source back but leaves the proving key of its
  own setup (`local-demo.sh:50`). The prover then makes proofs that `verifier-client` calls valid and
  every program built from the checkout rejects, against `docs/snark-vrf-integration.md:122` and `:144`.
* `visualizer_overtaken`: `selectEpoch` draws whatever response arrives
  (`web/main.js:108`), so with two loads in flight the slower one stays on the page under
  the other epoch's number. The default load at the start is enough. `web/index.html:61`
  promises "the bytes for the selected epoch".

One more disagreement needs no run, as it is a matter of what the code takes for data. By the policy of
`docs/entropy.md:39-41` ("fail loud") an hour without earthquakes aborts the epoch; `usgs.rs:67` stores the
count zero, which a test (`usgs.rs:157`) expects, and the bundle is archived and revealed. A drand round
whose signature does not verify is a failure by `:94`; `drand.rs:69-72` defers the check. A station that
lacks a reading is a failure by `:61-62`, while the layouts of the same document (`:117-119`,
`:159-163`) have a sentinel for it, which is what the code writes. The model follows the code: `Data` includes
the empty feed and missing readings, and `OnlyAnsweredBundlesAreArchived` is about the failures the code
notices, not about those of that document.

Worth knowing, met while modelling:

* A commit that was given up on may land after the one that replaced it, and the
  process then holds a salt that opens nothing. `CommitStands` excludes just that.
* `oracle run` ends with success for an epoch it had no part in: one whose commit window it
  missed, one that does not exist (`runner.rs:262`). `local-demo.sh:248-251` then prints
  "completed successfully", which `README.md:187` lists as a sign of success. `ExitTellsOutcome` says
  what the exit status does tell.
* The seed on the chain is not the seed in `manifest.json`: the program mixes the salt in.
  `README.md:44` says so ("two-stage"); `docs/entropy.md` knows the first stage only.
* `deploy-devnet.sh` reuses the key files if they exist (`:142-146`). A first
  setup interrupted before `verifying_key.bin` exists is made anew by the next run. But
  `verifying_key_solana.rs` is tracked: interrupted any later, a first setup leaves three files,
  and these, of two setups or with a torn one among them, are reused; so is what an interrupted
  later setup (`FORCE_SETUP`) leaves. A torn source does
  not build, and every later run fails there, although `docs/deploy-devnet-guide.md:180`
  says "picks up where it left off". `import-ceremony` writes a source without `VERIFYING_KEY`, with the
  same effect. `DeployIsCoherent` and `DevnetKeyIsStable` name these as exceptions.
* With `SKIP_BUILD=1` the program of the last build is deployed, which may be that of a demo.
* A demo in the checkout of a devnet oracle overwrites its proving key.
* If `cp` fails half way while the demo backs up `lib.rs`, the trap puts the torn copy over the good
  source. Files that `cp` failed to put back are not reported.
* A failed load of a selected epoch is dropped without a word, and the page goes on
  showing the former one. A failed default load replaces the whole page, even one that
  shows another epoch by then.
* A verdict that arrives after another epoch was drawn appears in the card of that
  epoch. It is true of the epoch it was computed for, and does not say so.
* The checks of the page start from `manifest.json`: they do not read the raw files,
  and do not compare `manifest.epoch` with the number that was selected.
* `entropy_once.rs:20-21` says that the bundle does not expose its time stamp; it does.
* `docs/entropy.md` describes a fallback and an age check for Bitcoin that the code does not have.
* Over a damaged file `selectEpoch` stops half way with `state.current` set (`main.js:108-113`). What it
  did not reach still shows the former epoch, buttons included, and a click on a stage then shows the
  new one. `PageShowsOneEpoch` says how far the mixture can go.
* The handlers of the seed and the manifest button write "computing…" and "rebuilding manifest…" and
  catch nothing (`main.js:475-516`; the alpha check does, `:577-580`). Over a `canonical_hash` that is
  null, which the page itself shows as "n/a" (`main.js:344`), over a hash of odd length, or on an origin
  without `crypto.subtle` they throw and the text stays: no verdict, not even a mismatch.
  `ComputingEnds` excludes just that.

## Left out

* The soundness of Groth16, SHA-256, the curve and the field arithmetic of the
  prover: taken as the constants of Beacon.
* Calls that never answer (`read_epoch_state`, the prover and the calls of `commit-once` have no
  timeout of their own): the fairness of the processes assumes an answer.
* Forks: reads at level "confirmed" are taken to be monotone.
* Rent, fees, signatures and account addresses; wording and logging.
* Parsing of the configuration.
* Wallets, airdrops, `Anchor.toml` and logs of the scripts; two commands at the same time in
  one checkout.
* The arithmetic of setup, prover and circuit, and the byte orders of their files: a file is of
  some setup, or torn.
* Strings longer than a 16-bit length and lists longer than a 32-bit count, which
  canonicalization rejects.
* What the page draws inside a section, beyond the epoch it is drawn from and where it stops.

## Order of work, and what could follow

The modules were written in this order: EpochLifecycle, Beacon, BeaconProofs; Cluster, Archive,
OracleRunner, RunnerHistory, RunnerAttempts; CommitOnce; ModR; OracleRunnerProofs; ManifestLayout, Entropy,
EntropyProofs; Visualizer, VisualizerProofs; RunnerDemo; ProofRecord, Artifacts, Scripts,
ScriptsProofs; RunnerMemoryProofs, CommitOnceProofs; ModRProofs, and the rest of EntropyProofs.

What could follow: two abstract specifications besides EpochLifecycle: a publisher that
archives before it binds (implemented by RunnerHistory as long as nothing was given up on),
and an audit that gives one verdict per epoch (implemented by Visualizer).

*Not modelled*: the parsing of the configuration, the arithmetic of curve, field and
circuit, and test code, as said above; nothing else of the repository keeps state.
