# A TLA+ model of the Signet minimal bundler

signet-min-bundler is an ERC-4337 bundler: clients send UserOperations over
JSON-RPC, the process keeps them in a SQLite mempool, a loop puts pending ones
into `handleOps` transactions, and a watcher turns receipts into verdicts.  The
hard part is not any one of these, but that four goroutines, an unreliable node
and a process that may die at any point all work on one table whose central
write, `UpdateStatus`, does not look at what it overwrites.  These modules model
that core, and the two services beside it (sponsorship by a paymaster, proofs of
login tokens), check them with TLC and prove their safety properties with TLAPS.

## Inventory

| Component | State | Operations | Talks to | What makes it correct |
|---|---|---|---|---|
| mempool (`internal/mempool/db.go`, `types.go`) | table `user_operations`: status, bundle_tx_hash, bundle_index, received_at, updated_at | Insert, Replace, GetPending, ClaimForBundling, UpdateStatus, ResetBundlingToPending, MarkTtlExpired, PruneHistory, reads | called by everyone | one live row per (sender, nonce); terminal rows are final |
| pruner (`prune.go`) | none | tick every 5 minutes: expire, then delete | mempool | never touches an operation someone works on |
| bundling loop (`internal/bundler/loop.go`) | locals of Tick | fetch, claim, estimate, submit, mark; resetToPending, failOps | mempool, signer, node | owns what it claimed; every claim is handed on |
| receipt watcher (`watcher.go`) | locals of Poll | snapshot, receipt per transaction, update per operation | mempool, node | settles an operation by the receipt of its own transaction |
| receipt parsing (`receipt.go`) | none | ParseHandleOpsReceipt, HandleBundleRevert, DecodeFailedOp | logs of the EntryPoint | outcomes equal what the EntryPoint reported |
| reconciliation (`reconcile.go`) | none | release bundling rows, settle submitted ones | mempool, node | nothing is lost or left behind by a restart |
| signer (`internal/signer/keystore.go`) | pendingNonce under a mutex | InitNonce, CheckBalance, SignAndSubmit | node | its nonce is the node's next one |
| process (`cmd/bundler/main.go`) | none | startup order, goroutines, shutdown | all | Reconcile, then InitNonce, then service |
| RPC (`internal/rpc`) | none | eth_* and pm_* methods | mempool, validator, estimator, paymaster | a hash is returned only for an inserted row; a receipt only for a confirmed one |
| sponsor store (`internal/sponsor`, `cmd/invite`) | tables invite_codes, whitelisted_senders | GenerateCodes, CheckSender, RedeemCode | same database file | one code buys one sender |
| paymaster (`internal/paymaster`, `contracts/src/SignetPaymaster.sol`) | none | GetStubData, GetPaymasterData; on chain shouldSponsor, _validatePaymasterUserOp | sponsor store, contract, signer | signs for listed senders only; the contract hashes what was signed, and pays for nothing else |
| validator, core (`internal/validator`, `internal/core`) | none | FromRPC, packing, hash, gas caps and paymaster list | RPC, loop | integer widths; what is hashed is what is sent |
| estimator (`internal/estimator`, `core/calldata.go`) | none | three gas values for an operation | node | the estimate is of the call that will be made |
| prover (`internal/prover`) | one temporary directory, files per request | New, POST /v1/prove, Close | issuer's keys, nargo, bb | concurrent requests do not mix; nothing is left behind; every request and a shutdown come to an end |
| config, keygen, send-userop, .railway | none | tools and settings | | |

Hard behaviours: goroutines interleaving between a read and the write based on
it; crashes between a submission and the writes that record it; node calls that
fail after they took effect; writes that fail and are only logged; transactions
that are evicted or revert; expiry and deletion of rows; concurrent redemption of
invite codes; a hash signed off chain and checked on chain several calls later;
external tools working side by side in one directory, with panics and a shutdown.
`PROJECT.json` lists them as hazards, each at its line.

## Modules

    Environment            operations, senders, nonces, the kinds of faults
      Mempool              the table and its Repository
      EntryPointChain      the node and the EntryPoint (external)
        Signer             BundlerSigner's nonce and the outcomes of a submission
          BundlingLoop     Tick, step by step      (Mempool + Signer)
        ReceiptWatcher     Poll and the second half of Reconcile
                                                   (Mempool + EntryPointChain)
          Bundler          the process: startup, RPC insert, loop, watcher,
                           pruner, crash, chain, clock
            BundlerProperties    what it promises; refinement of UserOpService
              BundlerProofs      the mempool, types, ownership, verdicts
                ServiceProofs    the refinement; what holds without restarts
      UserOpService        abstract: what a client may rely on
      ReceiptLogs          ParseHandleOpsReceipt over the logs of a bundle
        ReceiptProofs
    Sponsorship            invite codes and pm_getPaymasterData
      SponsorshipProofs
    SequenceProofs         induction over naturals, facts about sequences
    PackedOps              wire format, packing, hash and handleOps calldata
      CalldataProofs       what is decoded is what was encoded
      Intake               eth_sendUserOperation, validator and text columns
      ExecuteCalls         execute calldata and the gas estimate
        SponsoredOps       stub, estimate, signature, send, and the contract's check
                                                   (Intake + ExecuteCalls)
          IntakeProofs
    Prover                 concurrent /v1/prove requests in one directory
      ProverProofs
    MCBundler, MCReceiptLogs, MCSponsorship, MCIntake, MCSponsored, MCProver
                           instances for TLC

**Mempool.** One variable per column that is ever read back; a missing row has
status `absent`.  Each operation is one SQL statement or transaction and one
action; `SlotFree` is the partial unique index.  `RepositoryCall` is any call with any
arguments, more than the service makes (nothing in it calls Replace); it is the subject of
`MempoolSlotsUnique`, and the runs take the calls as the process makes them.  A `StatusExtra` field that is nil
leaves its column alone, so a released row keeps the hash of the transaction it
left, as in the code.  `TryUpdateStatus` is the call as its callers see it: it may
fail, and they go on.

**BundlingLoop.** `loopPc` is the place in `Tick`.  The steps are cut where another
goroutine or the chain can come between: after GetPending, after the claim, after
the estimate, after the submission, and between any two of the UpdateStatus calls
of step 7, `resetToPending` and `failOps`.  A revert in the estimate fails the whole
batch; any other error releases it.  EstimateGas and the `eth_call` that extracts the
reason are one step: neither has an effect.

**Signer.** SignAndSubmit has four outcomes: accepted; accepted but an error is seen;
a stale nonce ("nonce too low", "already known") with a resync; any other error.

**ReceiptWatcher.** `seen` is the snapshot still to be handled, `receipt` the
transaction being applied.  Rows and groups are handled in any order.  Reconcile's
second half does the same and shares the actions.  `HandleBundleRevert` gets no
revert data from either caller, so a reverted bundle is released as a whole.

**EntryPointChain** (external).  A transaction is its position in `txs`.  A bundle
validates as a whole or reverts; the nonces of one account are spent in order; a
pool transaction is evicted by a new one with its nonce.  `Fragile` operations may
stop validating at any time (paymaster window, deposit).  No reorganisations.

**Bundler.** Crash keeps table and chain and forgets everything else.  Stopping the
process is the same step, since `main` waits for no goroutine.  A startup that fails
is a crash before serving.

**ReceiptLogs.** The receipt is built operation by operation in the order of
EntryPoint v0.7 (reason, then event).  In between come logs of other contracts, which may
look like the EntryPoint's, and the EntryPoint's other events, with any number of topics
and words: the parser's checks of address, topic and lengths are all there.

**Sponsorship.** RedeemCode is split at its first write: SQLite in WAL mode fixes
the snapshot at the first read and refuses the write if anyone committed since.
Gating is on (`sponsorGating = true`); with gating off everyone is sponsored.

**PackedOps, Intake.** One operation, field by field, where Bundler only has its sender
and nonce.  Numbers are texts with a sign before they are parsed, integers after, and
words once written; widths are scaled (2^64 is `Narrow`, 2^128 its square, 2^256 the
square of that), so cutting to a half, `Uint64` and `PadLeft32` act as in the code.  An
address is one byte with several spellings, a byte string a short sequence, an ABI word
holds two bytes, keccak is injective.  `DecodeHandleOps` is the EntryPoint's side of the
calldata, written from the ABI's rules.  The table keeps text and a live flag; `Settle`
and `Prune` stand for what the other modules do to a row.

**ExecuteCalls, SponsoredOps.** A client asks for stub data and a gas estimate, then for the
paymaster's signature, as often as it likes, then sends, perhaps with another member than
the one it was sponsored for (`Send`).  What was granted is public: `Reuse` puts the window
of any grant with the signature of any grant into any request there is, in either layout.
Intake's requests come in between; they start without a signature of the paymaster, since
nobody has one before it signs.  Calldata is a sequence of tokens
(selector, word, or byte), a signature is the hash it is over.  `GetHash` is translated from
Go and `ContractGetHash` from Solidity, each with its own view of the operation: the
first of the parsed request, the second of what `DecodeHandleOps` gets out of the bundle's
calldata.  `NodeGas` stands for eth_estimateGas; the fraction of its buffer
(130/100 in `gas.go:99`) is the constants `BufferOver` and `BufferUnder`.  Whether a
client gets past the invite codes is the subject of Sponsorship; here a refusal is a step that does not happen.

**Prover.** One place (`pc`) per request and one file per kind and id.  The steps are cut at
every call that leaves the process: the issuer, each file, each tool.  A failing write
or tool may leave a truncated file.  Whatever ends `Prove` after the `defer` goes through
`Cleanup`, a panic too.  nargo finds a witness only if the modulus verifies the token's
signature (external).  The key served for a token is any modulus at each fetch, which is how
an issuer that changes its keys looks from here.  A removal may fail, each file by itself (`prover.go:316` ignores the
errors); such a file is `stuck`.  An id is 64 random bits and taken not to repeat while in
use or while a stuck file has it.
After the signal, `DrainAndClose` may come at any time: Shutdown waits 5 seconds at most,
then the deferred Close removes the directory, or what it can of it, under whoever still
works in it.

## Runs

| Run | Instance | Shows |
|---|---|---|
| faults | 2 consecutive nonces, 2 transactions, 1 crash, all faults | ownership, truth and finality of verdicts, no bundle given up, refinement of UserOpService |
| steady | 3 operations (rival and successor), 3 transactions, no restart, no lost reply, no verdict old enough to be deleted | one live row per slot, no double submission, no false failure, nonce in step, no update refused |
| settles | 2 consecutive nonces, a crash, transient node errors, mining chain, fair | nothing stays bundling; every accepted operation gets a verdict |
| intake | 35 requests at the edges of every field, 4 spellings of 2 entry points, 2 rows | rows, answers and calldata are the operation that was hashed; one live row per chain nonce |
| sponsored | 2 clients of either layout, 2 times of asking, 2 requests of others that differ in every member, 1 row | the contract accepts what was signed, and only that, whatever is changed or reused; the estimate covers the call |
| receipts | up to 3 operations and one log of another contract or kind | the parser tells the truth |
| sponsors | 4 requests, 2 accounts, 2 codes | one code, one sender; signatures for listed senders |
| prover | 2 requests out of 8 kinds, 2 moduli, 1 failing removal, shutdown, fair | replies carry the request's own proof, files go unless their removal failed, requests and shutdown end |
| v_reconcile | crash only | released rows may have been submitted |
| v_innocent | no fault | valid operations fail with an invalid one |
| v_permanent | no fault, batches of one | an operation that fails for good becomes valid |
| v_layout | as sponsored | a client that sends the ERC-7677 fields as it got them is not sponsored |

*Bounds.*  Two operations are enough for every pair the properties speak of (rivals,
successors, batch mates); a third one appears where a batch and a rival must coexist.
Two transactions give a resubmission and a stale one, one crash gives a restart in
every state.  `MaxTime`, `MaxTxs`, `MaxCrashes`, `MaxOther`, `MaxWords` and `MaxStuck`
only stop counters; at `MaxTxs` the node refuses, which is the code's ordinary error path.  `PendingTtl` and
`Retention` of 0 or 1 make rows expire and disappear while they are young, which is
the hard case.  The safety theorems hold for every value of all of these.  In `intake`
and `sponsored` the widths are scaled to 2^6, 2^12 and 2^24, in `intake` with requests on
both sides of each.  In `sponsored` two times of asking give two grants whose windows differ and overlap, one row is
enough because the contract looks at one operation, and `PaysOnlyWhatWasGranted` tries
every time around the windows.  The buffer of the estimate is 13/10 there, the code's
fraction reduced, so that it fits the scaled width; it wraps at another gas than the code's,
which no run reaches, and the theorem is for any fraction.  In
`prover` two requests make every pair that could mix.

*Fairness.*  Weak fairness of the loop, the watcher, the startup steps and of mining.
The goroutines are driven by tickers and never block for ever, a supervisor restarts
the process, and the chain mines the head of the account's queue.  Clients, the
pruner, the clock, crashes and faults are not fair.  In `prover` the steps of a request past
the issuer are fair (nargo and bb end), and so are the two steps of a shutdown, which has
a timeout; the fetch of a key is not, since it has none (`http.go:12`), and neither are
clients, the issuer or the signal.  `settles` adds strong fairness of
an answered estimate, submission and receipt (`RetriesSucceed`): the code retries each of
them without end, so errors that come any number of times, but not for ever, must not
matter.  It leaves out what the code has no way out of: a transaction that is evicted
leaves its operations submitted, since there is no timeout for that status, and a reset
that fails is only logged (`loop.go:183`), so the operation stays bundling until a restart.

*How far the properties reach.*  Some are stated for the inputs they hold for, and some
instances leave a part of their property to its theorem:

* a nonce with a sign, or of more than 32 bytes, is a slot of its own in the index, while
  hash and calldata keep 32 bytes of its magnitude; `OneLivePerChainNonce` is about the
  other nonces;
* an operation for a second configured entry point is hashed for it and then sent to the
  first one; `BundleDecodesToRows` is about operations for the first;
* the clients of `EstimateCoversCall` send what `BuildExecuteCalldata` makes, not
  calldata with offsets of their own;
* `ProvingEnds` starts when the issuer has answered;
* `steady` has no eviction and nothing old enough to be deleted: that `NoDoubleSubmission`
  survives eviction is in `SentOnce`, and that no update meets a deleted row in
  `NoUpdateRefused`;
* `faults` has no rivals: that the refinement keeps one effect per nonce among rivals is in
  `Implements`;
* `FailedWasNotExecuted` is claimed without restarts and lost replies and before verdicts
  are deleted.  With any of these it is false, and UserOpService allows it.

*Other edges met while modelling*, outside the properties:

* a gas limit of 2^64 or more passes the cap if its low 64 bits do (`allowlist.go:51` compares
  `Uint64()`), and goes into calldata whole; `README.md:61` calls the caps "Max
  `verificationGasLimit` per op" and "Max `callGasLimit` per op".  No property claims them;
* the event of a failed operation makes a new outcome, without the reason that the log before
  it had put there (`receipt.go:78`), so the reason is lost, where
  `docs/signet-bundler-design.md:518` has it stored; `receipt_test.go:94` feeds the two logs in
  the other order;
* an operation without a paymaster is refused (`allowlist.go:63`); `README.md:60` and
  `docs/signet-bundler-design.md:413` have it accepted.  `send-userop` builds only such
  operations;
* the estimator's verificationGasLimit is a constant, and may exceed the configured cap
  `maxVerificationGas`, which then refuses the estimate's own values;
* the stub signature is 65 zero bytes, and a zero byte costs a quarter of another one, so
  preVerificationGas comes out lower than for the signed operation
  (`paymaster.go:64` says the length makes it accurate);
* an offset or length in execute calldata that is negative as an int64 passes the bounds
  checks of `DecodeSignetExecute` and panics; `recoverMiddleware` answers 500;
* nothing calls Replace: an operation with the slot of a live one is refused by the index
  whatever its fee, where `docs/signet-bundler-design.md:522` and `:553` have it replace the
  old one;
* both callers of `HandleBundleRevert` pass no revert data (`watcher.go:137`,
  `reconcile.go:77`), so its FailedOp branch is never taken: the operation that made a mined
  bundle revert goes back to pending with the others (`docs/signet-bundler-design.md:520`
  has it failed) and meets the estimate of its next bundle;
* a proof still running at the end of a shutdown may bring the removed directory back
  (`prover.go:243`), and a failing `extractCircuit` leaves its directory (`prover.go:85`);
* a sponsorship is valid for a fixed window, and nothing compares it with the time an
  operation may wait as pending: an expired one fails the estimate of its bundle, which is
  the `Fragile` operation of `v_innocent`.

*What the violations mean.*  Each of the four quotes a comment or the design document
on what the code does not do; `findings` in `PROJECT.json` gives both places.
None breaks a theorem: an operation submitted twice after a restart still executes at
most once, because the EntryPoint spends its nonce, and is confirmed only if it did; the
contract refuses a sponsored operation with misplaced limits, it does not pay for another.

## Proofs

Every invariant and every action property of the passing runs is also a theorem, and so is
the refinement.  The theorems hold for all values of the constants that satisfy the named
assumptions of the modules; hypotheses beyond those are named below.

**BundlerProofs** starts with the mempool alone (`MempoolTypeCorrect`,
`MempoolSlotsUnique`: any sequence of Repository calls), then takes the composed process,
with all faults:

* `TypeCorrect`, from the assumptions on the constants alone;
* `ConfirmedSafe`: a confirmed row names a mined bundle in which it succeeded;
* `SubmittedSafe`, `LoopOwnership`, `WatcherOwnership`, `SlotsUnique`;
* `NoUpdateRefused`: no status update meets a taken slot or a deleted row;
* `VerdictsFinal`: a terminal row is only ever deleted;
* `WaitsForReceipt`: a row leaves submitted only when its own transaction is mined.

None of the latter is inductive alone.  The argument is ownership: a row is bundling only
in the hands of the loop, or orphaned by a failed write and then touched by nobody
until Reconcile; a row in the watcher's snapshot is submitted and only the watcher
moves submitted rows.  So the unconditional writes always find the status they
expect.  To say this the invariant `Inductive` also needs what the goroutines hold:
`BatchShape` (the batch has no duplicates, some of it is unwritten, and past the send
`batchTx` is the transaction that carries exactly it) and `ProcessShape` (no goroutine
holds anything in a process that is down, a receipt is of a mined transaction).
Growth of the chain preserves every fact about a transaction once it is mined
(`ChainGrows`).  TLC checked `Inductive` on the instance of `faults` first.

**ServiceProofs** proves `Implements`: under the mapping of `BundlerProperties` (a client
sees the answer for a status, the operations ever sent and those executed) every step of
the process, a crash and each failing write included, is a step of UserOpService or none.
The strengthening is `EffectsSpendNonces` (what was executed has spent its nonce, so it is
never executed again) and `NeverReplaced` (nobody calls Replace).  Then the properties that
need the world to behave, each under the hypothesis it needs and no other:

* `SentOnce`, given `NoRestart` (neither crash nor lost reply among the faults).  `Steady`
  says who can carry an operation: whatever is in the pool is in the hands of the loop or
  the watcher, a submitted row has no carrier but the transaction it names, and what the
  loop is about to send has none;
* `FailuresAreTrue`, given `NoRestart` and `NothingPruned` (`MaxTime <= Retention`).
  `Remembered` adds that an executed operation is on its way to confirmed and not in what
  the loop is about to give back.  The second hypothesis came out of the proof: once a
  confirmed row is deleted the operation may be sent again, and its new row fails;
* `NonceKept`, given `NothingLost` (no lost reply, no eviction), restarts or not.
  `NonceAligned` says that the transactions are numbered as they were sent, the mined ones
  first.

The instance of `steady` satisfies all three, and TLC checked the invariants there first.

**CalldataProofs** proves `HandleOpsDecodes`: for a bundle of any length, what the
EntryPoint's ABI decoder reads out of the calldata is what the loop put in, in its order.
The lemmas follow the encoder: the words of a byte string, the tuple, where the offsets of
the tuples point (`FlattenSeq` of a prefix).  `SequenceProofs` supplies induction: the
property becomes the set of numbers that have it, and a set of naturals has a least
element (`LeastNatural`, from the well-foundedness of finite sets).

**IntakeProofs** proves the properties of `intake` and `sponsored` for any requests, entry
points, caps, clients, widths, buffers and times; those of `intake` twice, for Intake alone
and with the sponsored clients:

* `IntakeTypeCorrect`, `ChainNoncesUnique`;
* `AnswersAreFaithful`, `BundlesAreFaithful`: through parsing, packing, text columns and
  calldata, an operation stays the one whose hash the client got;
* `SponsoredRowsPass`: what was signed and sent as signed, limits in front, is accepted for
  its whole window;
* `OnlyGrantsArePaid`: what the contract pays for was signed, member by member, whatever
  was changed and reused;
* `EstimatesSuffice`, given `GasFits`: the node's estimate times `BufferOver` fits 64 bits
  (`gas.go:99` multiplies before it divides).

`IntakeInv` says that a row is a request that passed the checks, packed and written down.
`SponsoredInv` adds that a token of a signature, in what a client holds or in a row, is of
a hash that was granted (`WiresCarryGrants`, `RowsCarryGrants`); that a granted hash is of a
request with an allowed call and of a window (`GrantsAreSigned`); and what gas a client was
told.  `OnlyGrantsArePaid` then rests on keccak being injective and ECDSA unforgeable: the
contract compares the signature with the hash it computes, so that hash was granted.

**ReceiptProofs** proves `OutcomesHold` for bundles and receipts of any length.  The loop
over the logs is a `FoldLeft`, defined by recursion over sets of positions: `ReadsExists`
shows that the recursion has a solution, `ParseAppend` what one log more does.  The
invariant is that an event settles its operation's outcome whatever came before it, and that
no other log touches an outcome.

**SponsorshipProofs** proves `OneSenderPerCode` and `OnlyWhitelistedSigned` for any number
of accounts, codes and requests.  The strengthening is `PendingRedeemIsCurrent`: a request
about to write either sees the tables it checked, or its snapshot is old and the write
is refused.

**ProverProofs** proves `ProverTypes`, `ProofsAreOwn` and `NothingIsLeft` for any number of
requests, tokens, keys and ids, with every failure.  The strengthening is `Isolated`: a
request between its first file and its cleanup has an id that no other request has, what
lies under that id is its own statement or a broken file, and past nargo the key it
fetched verifies its token; a stuck file only keeps its id out of use.  `RequestMoves` says once what a step of one request leaves
alone (`OthersStay`), so each action's lemma is about its own request only.  That ids are
fresh is the assumption it rests on; with ids that repeat TLC breaks both properties.

*Only model-checked*: the liveness properties (`BundlingEnds`, `EveryOpSettles`,
`ProvingEnds`, `ShutdownEnds`), since the prover has no rules for fairness, and the four
violations.  TLC checked each inductive invariant on an instance before its proof, except
`IntakeInv` and `SponsoredInv`, which say "for some request" over a set without bound.

## Not modelled

Keys and curve arithmetic, gas prices and balances; columns nobody reads back; chain
reorganisations (the code does not handle them: a confirmed row stays confirmed); the
dispatch of JSON-RPC methods, configuration and deployment, which keep no state; the
command-line tools, which run once: `keygen`, and `send-userop`, whose operations this
bundler's validator refuses.  `components` in `PROJECT.json` gives the reason for each.

## Plan

1. Proofs: the deadlock freedom of the runs as a disjunction of guards; `OnlyOffenderFails`
   and `RejectedStaysInvalid` under the conditions that make them true (batches of one,
   nothing fragile), to say exactly how far the documents are right.
2. The expiry of a sponsorship as a clock in Bundler, in place of `Fragile`.
3. The hash `send-userop` signs against the hash the bundler computes of what it sends.
