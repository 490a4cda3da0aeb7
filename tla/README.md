# solana-web3 in TLA+

Specifications of `donutnomad/solana-web3`, a Go client for Solana: the parts
of it that keep state or make decisions over several steps, checked with TLC
on small instances and, where the prover reaches, proved with TLAPS for every
value of the constants. Paths below are relative to the repository.

## 1. The system

The library is one process that talks to a Solana cluster over HTTP
(JSON-RPC) and a web socket. A `Connection` is shared by as many goroutines as
the program likes; nothing in it is protected by a lock.

| component | where | state | operations | hard part | status |
|---|---|---|---|---|---|
| blockhash cache, duplicate detection | `web3/connection.go` 176-195, 977-1048, 1918-2077 | `blockhashInfo`, `pollingBlockhash` | `SendTransaction`, `SimulateTransaction`, `_blockhashWithExpiryBlockHeight`, `_pollNewBlockhash` | unprotected shared fields, a clock, a cluster that lags | modelled, checked, proved |
| confirmation | `web3/connection.go` 897-1400 | two channels, the socket, the poll | `SendAndConfirmTransaction`, `ConfirmTransaction`, its three strategies, `confirmation` | three goroutines that race, forks, polls that fail, a socket that stays silent | modelled, checked, proved |
| JSON-RPC transport | `web3/connection.go` 2352-2437, `web3/pool.go` | `requestBytesPool`, one buffer per call | `CustomClient.SendRequest` | retries, a pooled buffer the transport still reads | modelled, checked, proved |
| legacy transactions | `web3/transaction_legacy.go`, `web3/message_legacy.go` | instructions, fee payer, blockhash or nonce, signatures | `Sign`, `compile`, `Serialize`, `PopulateTransaction` | the message is compiled again at every step and must not move under its signatures | modelled, checked, proved |
| versioned messages | `web3/message.go`, `message_v0.go`, `message_compiled_keys.go`, `transaction_versioned.go` | the message, one signature per signer | compile with lookup tables, sign, co-sign, serialize, read, decompile | indexes over three key lists, random map order, tables that grow, messages that arrive cut | partly (without the byte encoding), checked, proved |
| instruction builders | `mpl_token_metadata/`, `spl_token_2022/`, `token_metadata/`, `associated_token_account/`, `common/types.go` | accounts, parameters and program of an instruction | constructor, setters, `Validate`, `Build`, `DecodeInstruction`, `Nested` | over a hundred generated kinds, handles that alias the builder, accounts that move up | modelled, checked, proved |
| Irys | `irys/irys.go`, `irys/cmd.go` | the balance at the node, one wallet for all uploaders | price, balance, payment, submission, upload | money sent and the acknowledgement lost, a shared balance | partly (without the encoding of a data item), checked, proved |
| program loader | `web3/loader.go` | the program's account | `Load` | one goroutine per chunk, dropped errors, a call that failed half way | modelled, checked, proved |
| epoch schedule | `web3/epoch_schedule.go` | none (pure) | epoch of a slot, slots of an epoch | the end of the short epochs | modelled, checked, proved |
| mints with extensions | `web3kit/tokens_2022_creator.go`, `tokens_2022.go`, `spl_token_2022/extension/` | the mint's account | `CreateToken`, `CreateMint`, `GetMint` and the TLV walk | lengths, account kinds told apart by their length | partly, checked, proved |
| types, accounts and errors of programs | `*/types.go`, `*/accounts.go`, `*/errors.go` | none | generated codecs and texts | - | not modelled |
| other RPC methods, keys, sysvars, cluster and validator information, other token helpers, token list, examples | `web3/`, `web3kit/`, `examples/` | none | one request, one answer; encodings and constants | - | not modelled |

How they interact. `SendAndConfirmTransaction` calls `SendTransaction`, which
takes a blockhash from the cache (polling the cluster through the transport
when it is too old), signs the transaction with it, looks its signature up
among those already used with this blockhash, and submits the bytes. It then
starts the goroutines of the confirmation, which use the transport (status,
block height, nonce) and the socket (notification). The loader starts one
goroutine per chunk of a program, all of them in this path on one
`Connection` (`web3/loader.go` 147-160), so overlapping calls are a use the
repository itself makes. A payment to Irys and the creation of a mint are
transactions sent and confirmed the same way; the instructions in them come
from the builders. Beyond the `Connection` these tools share no state.

What makes each component correct:

- cache: a blockhash from the cache is younger than the 30 s of
  `blockhashCacheTimeoutMs`; no signature is submitted twice; no exit of a
  poll leaves the flag up; no call waits for ever;
- confirmation: success means the commitment asked for was reached and the
  transaction did not fail, expiry (of a call that waits for more than the
  processed level) means it never will be in a block, and every call ends;
- transport: a buffer belongs to one call at a time, a request carries its own
  bytes, a call ends however often it is refused;
- legacy transactions: what is sent carries the signature of every signer the
  message requires over exactly that message, and the message asks for the
  permissions the instructions ask for;
- versioned messages: every index leads, through the tables, to the account
  that was asked for, and grants what was asked for it, also after the message
  was decompiled and compiled again and the tables grew;
- builders: a validated instruction has each account in its place with the
  flags of its role, however its builder was used; what is decoded is what was
  encoded;
- Irys: whoever is told of success has the files stored, and the node was told
  of every payment for them; whoever paid for a file is refused it only if
  others spend the reserve of the payment, four times the price;
- loader: chunks are sent to an account that is ready for them once the
  transaction that prepares it has landed; `Load` ends;
- epochs: the functions agree at every boundary;
- mints: what `CreateMint` makes, `GetMint` can read.

`PROJECT.json` lists the hazards behind these, each at its line.

## 2. Modules

| module | models | kind |
|---|---|---|
| `BlockhashCache` | the cache and the loop of its two users | state machine |
| `SubmissionLedger` | what the cache promises | abstract specification |
| `TransactionConfirmation` | one call of send-and-confirm, its goroutines, the cluster | state machine |
| `RpcClient` | the requests, their buffers and retries | state machine |
| `LegacyMessage` | how instructions become a message, and are read from one | operators |
| `LegacyTransaction` | the life of one transaction | state machine |
| `VersionedMessage` | how a version 0 message is compiled and read | operators |
| `VersionedTransaction` | a versioned transaction, its owner and a co-signer, the tables | state machine |
| `InstructionSchema` | how a generated instruction is described | operators |
| `MplTokenMetadataInstructions`, `Token2022Instructions`, `Token2022Extensions`, `AssociatedAndMetadata` | the instructions of the fourteen packages | tables |
| `InstructionBuilder` | the life of a builder of any of them | state machine |
| `IrysFunding` | uploads paid from one wallet | state machine |
| `ProgramLoader` | `Load` | state machine |
| `EpochSchedule` | the epochs a cluster goes through | state machine and operators |
| `MintAccount` | a mint from its request to its reader | state machine |
| `Toolkit` | the last five, one of which is in use | composition |
| `Selection` | lists picked from lists and sets by their places | operators |
| `MC...` | instances of these for TLC | |
| `DataLemmas` | lemmas about selections, concatenations, enumerations, sums and powers of two | lemmas |
| `...Proofs` | theorems about each and their proofs; `ToolkitProofs` has those about Irys, the loader, the epochs, the mints and their composition | |

### BlockhashCache

State: `latest`, `lastFetch` and `seen` are the fields of `blockhashInfo`
(`seen` holds both lists), `polling` is `pollingBlockhash`; `pc` and `loc`
are the program counter and the local variables of each goroutine inside
`SendTransaction` or `SimulateTransaction`; `tip` and `now` are the cluster
and the clock; `fetchedAt` and `sent` are history.

The steps are the accesses to shared fields. `WaitPoll`, `ReadClock`,
`ReadAge`, `ReadLatest` are `_blockhashWithExpiryBlockHeight`; `StartPoll`,
`FetchError`, `FetchSame`, `FetchNew`, `StoreField`, `EndPoll` are
`_pollNewBlockhash`; `SignError`, `Check`, `AppendRead`, `AppendWrite`,
`Submit`, `SubmitLost` are the loop of the two methods. The assignment of the
struct is one `StoreField` per field in any order, since Go gives no order to
the word stores of an assignment another goroutine reads without
synchronisation; the header of a slice, three words, is abstracted to one.
The age is computed modulo `Word` (2^64), so a `LastFetch` newer than the
clock that was read is a huge age, as in the code. A signature is the pair of
message and blockhash, since it is a function of both.

A poll is in progress from `StartPoll` on, when the flag has been raised;
between the decision to poll and the flag there is a step, as in the code.
Three steps take two accesses together, since what may come between them could
as well come before or after: the two readings of `LatestBlockhash` in
`ReadLatest` (once there it is never nil again), the raising of the flag and
the reading of `LatestBlockhash` in `StartPoll`, and in `FetchNew` the answer
and the reading of the clock for `LastFetch`, from which the age of a
blockhash is counted.

Left out: the paths that never touch the cache (versioned transactions, nonce
transactions, transactions that come signed) and `disableBlockhashCaching`,
which no code sets.

### TransactionConfirmation

`main`, `confirmer` and `expirer` say where the caller and the two goroutines
it starts are. The channels are unbuffered, so `ReceiveConfirmation` and
`ReceiveExpiry` are steps of both ends; the loser of the race stays in
`deliver` for ever, which is what the code does. The cluster processes,
confirms and finalizes blocks in order and may go over to a fork
(`Reorganize(h)`): the blocks above `h`, none of them confirmed, are
abandoned, the processed height goes back to `h`, and the transaction may
enter a block in place of one it was not in. It is in at most one block at a
time, and enters one only while its blockhash or nonce is valid there. Commitments that the code treats alike are one
value. The nonce strategy follows the code, whose loop after the expiry
leaves only with an error.

### RpcClient

`unread` says whose bytes are left in a buffer; `Attempt` builds a request
whose body is what is left; the transport reads it in a step of its own,
before the answer (`eager`) or at any time (`~eager`), both allowed by
`http.RoundTripper`. The request may also fail to be built (`AttemptFails`). `Return` is every exit of `SendRequest`, with the
deferred `Put`. Both settings are chosen in `Init`, so one run covers them.

### LegacyMessage and LegacyTransaction

`LegacyMessage` is `compileMessage` and its helpers: the culling of duplicate
metas by OR (`Signers`, `Writables`), the order of `ByPriority.Less` with the
fee payer moved to the front (`Ordered`), and the header, the keys and the
positions made from it (`Compile`), in the order the code takes these steps,
because promoting a signer comes after sorting. Keys are numbers in the order
of their base58 texts; the sort has no ties, so the random order of the Go map
it starts from does not matter.

`LegacyTransaction` has the fields of `Transaction` as variables and one action
per exported operation; `Sign` takes the whole of `compile`, `_partialSign` and
`_addSignature`, and `Serialize` that of `compile`, the verification and the
packet limit, each with its error exits. A signature is the message it was made
over, and verifying is comparing. `wire` is what the last call produced.
`SimulateTransaction` works on a copy whose operations are these.

Not in these modules: instruction data (copied), the byte encoding, and what
`uint8` does to a header of more than 255 keys, which the packet limit of
`serialize` refuses first.

### VersionedMessage and VersionedTransaction

`VersionedMessage` is `CompiledKeys` (`Signer`, `Writable`, `Drain`, `Extract`,
`Components`), `NewMessage0` and `NewMessage` (`Compile`, with each refusal)
and `NewTransactionMessageFrom` (`Decompile`). `Radix` stands for the 256
values of a byte, so that the boundary at which an index no longer fits can be
met with a table of seven entries. The keys come out of a Go map in random
order into disjoint lists; an order of the keys, chosen once per compilation,
gives every outcome.

`VersionedTransaction` has one action per operation of `TransactionMessage`
and `VersionedTransaction`. `Send` is serialization and what arrives:
`Readings` are the whole message, the message cut short at each point the
decoder does not notice (a missing length counts as an empty list, missing
bytes as zeros, the last one of which stands for all), and the message as a
node's JSON gives it; where nothing at all arrives the decoder panics
(`message_compat.go:89`), which counts as an error. The co-signer signs
what it read; its reply may come after the owner has compiled again. The tables
only grow, as the program that owns them has it. Not in it: the byte encoding,
and `address_lookup_table.go`, which decodes the table's account.

### InstructionSchema, the tables and InstructionBuilder

The builders are generated, some 26000 lines in fourteen packages, and differ
only in what a `Kind` says: the discriminator, the parameters `Validate`
demands, those that may be left out, and the accounts with the flags of their
setters. The tables list them all, one definition per instruction, in the
order of the packages' variant lists. A builder decoded from an instruction
whose text parameters are written without their length would read something
else; these are `Unreadable` and are not decoded.

`InstructionBuilder` is the code they share. `slots`, `given` and `program` are
the object's fields. `Build` returns an `Instruction` that points at the
object, so `held` carries only what is copied; what a setter changes later
shows. `Validate` goes through the accounts by index and panics on a slice
that is too short. `Present` is `GetAccounts`, which leaves out what is nil.
`AddInstructionAny`, `AddInsBuilder` and `Nested` put a copy into a
transaction, and `Decode` makes a builder of it again, also of the data a
Token-2022 instruction carries. `meant` and `gapped` are history.

### IrysFunding

`stage` is where a goroutine is in `UploadLogoAndMetadata`, for the image and
then for the metadata; `price` says what its two files cost, each of which is
paid for with five times its own price (`Payment`, `price*5`). `sent` are the
transfers given to the cluster, `told` those the node was told of, `credited`
those it has found on the chain, `stored` the files it has; `charged` is
history. Each request is a step with its failures; a transfer may land although
its confirmation failed, late or never although it succeeded (an empty status,
`confirm_unseen`), and a submission may reach the node although its answer is
lost. An answer of 200 or 202 (`irys.go:226`) says only that the node was told:
it adds the payment to the balance in a step of its own (`NodeCredits`), at any
time later or never. An error on the way to the payment panics for the image
(`UploadData`) and is returned for the metadata. The node is assumed to give a
file the same price between the question and the upload.

### ProgramLoader

`account` is what the chain holds, and `Init` lets it be anything an earlier
program or call may have left; `Needed` is what `Load` finds missing and
`Prepared` what its transaction does, with the program's own key where the code
passes it as the owner. `Load` goes on to the chunks whenever the confirmation
returns no error, which it also does for a transaction the node has not seen
(`confirm_unseen`): `inFlight` holds the first transactions that may still
land (`SetupLands`), of this call or of one that failed. `Cut` slices the data,
which panics on a rest. `SendChunk` is a goroutine, whose error nobody sees and
whose chunk can only land in an account that is there; `Finalize` is
`wg.Wait` and the last transaction.

### EpochSchedule

The four functions as operators, and a cluster that goes from slot to slot.
The bit operations on words are modelled by what they compute
(`nextPowerOfTwo`, `trailingZeros`).

### MintAccount

`CreateToken` computes the extensions it asks `CreateMint` for; that checks and
orders them, computes the length, pays for it, and sends one transaction. The
extensions are parameters of some type (`Params`), and CreateMint goes by the
type they report (`TypeReported`): those of a transfer hook report the
extension of an account (`extensions.go:225`), for which it has no instruction.
What
Token-2022 makes of it (`Laid`) is external: the entries one after another, the
metadata behind them. `GetMint` tells a mint by the account's length and walks
the entries.

### Toolkit

`tool` says which of the five is in use; the others keep one initial state.
They share nothing, so the composition adds no behaviour: it lets one run check
them all.

## 3. Runs

| run | expects | question |
|---|---|---|
| `cache_exclusive` | pass | do calls that do not overlap implement the ledger? |
| `cache_shared` | pass | is the flag ever left up, and does every call return, when they overlap? |
| `cache_shared_dup` | violation | `NoDuplicateSubmission` when they overlap |
| `confirm` | pass | verdict, expiry and termination for every strategy and commitment, with forks |
| `confirm_unseen` | violation | `OkMeansCommitted`: an empty status passes for a confirmation |
| `confirm_nonce` | violation | `NonceExpiryReturns`: the loop after the nonce expired never ends |
| `rpc` | pass | buffers, bodies and termination with two requests |
| `rpc_retry` | violation | `RetryCarriesRequest`: the retry is empty |
| `legacy` | pass | is what goes on the wire signed, and what was asked? |
| `legacy_promoted` | violation | `HeaderDescribesKeys`: the header is wrong after a promotion |
| `versioned` | pass | does a version 0 message mean what was asked, and who is misled by a cut one? |
| `toolkit` | pass | the builders, Irys, the loader, the epochs, the mints |

Bounds, all of them constants of the modules or of the cfg files:

- `cache_exclusive`: three calls over two messages and three blockhashes, a
  timeout of two ticks in a clock of three instants. Three calls are a hit, a
  duplicate and a call after the duplicate; three blockhashes are one more
  than a duplicate needs. `MaxTries` is 2, so that a poll retries and gives
  up. `MaxLag` is 0.
- `cache_shared`: two callers, two calls, two blockhashes, `MaxLag` 0. The interleavings
  of two goroutines are what the run is for; three callers repeat them.
- `confirm`: three heights with `LastValid` 1, so that a block may come before,
  at, and after the expiry, the wanted level may lag behind by two, and a fork
  may take the processed height back from after the expiry to before it
  (85,704 distinct states).
- `rpc`: two requests, two buffers, three attempts: a retry that is followed
  by a retry and one that is the last.

- `legacy`: four keys (a payer, a read-only signer, a writable account, a
  program), two instructions that ask different things of the same accounts,
  one nonce whose advance is one of them (so that it is prepended in some
  transactions and already there in others), up to two signers, in any order
  and repeated. Three edits make a complete transaction and change it once
  after it was signed; a populated transaction starts complete.
  `legacy_promoted` allows three signers.

- `versioned`: six keys (payer, co-signer, two accounts that may be looked up, a
  program, a filler), `Radix` 5. Three tables: two that grow while
  transactions are compiled, and one in which a key stands at the index
  `Radix`, whose byte then names the co-signer, and another after it. Two compilations, so that a message is
  decompiled and compiled again with other tables, and a signature for the
  first one arrives after the second.
- `toolkit`, builders: every kind of the fourteen packages with all its
  accounts and parameters, one of the first accounts or one parameter
  forgotten; one setter, so that something is changed between `Build` and use,
  after decoding, or after validation; two instructions in the transaction, so
  that what was decoded is encoded and decoded once more; no multi-signers or
  two.
- `toolkit`, Irys: two uploaders, each with an image that costs five units and
  metadata that costs one, so that the metadata's whole payment is one image: an
  uploader that paid for its metadata is refused it when the other's images are
  taken first, and is not while less is taken (84,164 of the run's 207,716
  distinct states). A balance of nothing or of one unit; two attempts at
  submitting (five in the code), one of which is a retry.
- `toolkit`, loader: lengths of none, less than one, one, two, two and a bit and
  three chunks of the code's size; any account found; two calls, so that a
  transaction of the first may land during the second.
- `toolkit`, epochs: 400 slots with and without short epochs, three normal
  epochs in each.
- `toolkit`, mints: any set of the six extensions a caller can give a mint
  beside the one that a provider of metadata adds, with clashes, a repetition in
  a list that is accepted, and extensions that are refused (the transfer hook,
  and those not of mints), and every combination of `CreateToken`'s arguments; metadata of ordinary
  length, of the one length that makes the account as long as a
  multi-signature's, and shorter when written than when counted.

Deadlock is not checked: calls end, clocks and clusters stop at their
bounds, and a loser of the confirmation's race blocks for ever by design of
the code.

Fairness. `WF` on the steps of a goroutine is the Go scheduler and the timers;
it includes the answer to an RPC request, so the liveness properties assume
that requests are answered or fail (the HTTP client sets no timeout of its
own). In `TransactionConfirmation` it is weaker where the code depends on
others: nothing is assumed of the confirmer or the socket, and `SF` on
`PollExpired` says only that a poll which is repeated for ever is answered
now and then once the height has passed. `SF` on the cluster's `Advance` says
that forks do not go on for ever: a block that can be confirmed again and again
is followed by one that is. `WF` on `UseIrys(u)` says that each
request of an uploader ends: the client of `irys.go` has a timeout of 10 s, and
a confirmation ends as `TransactionConfirmation` shows. `WF` on `UseLoader` is
the same for the calls of `Load`; a caller need not call it again, and nobody
need cancel an upload. `BlockhashCache!CallsReturn` holds
for the bounded number of calls: with calls that never end, the sleeping
reader of the flag (100 ms) could miss every moment at which it is down.

## 4. What the violations show

Every one is a statement of the repository that its code does not keep;
`PROJECT.json` quotes it.

- `cache_shared_dup`: both goroutines look their signature up before either
  has appended it.
- `confirm_unseen`: `GetSignatureStatus` returns an empty status for a
  signature the node does not know, and `confirmation` only waits on the
  levels it names. The call succeeds at once.
- `confirm_nonce`: only a nil status breaks out of the loop.
- `rpc_retry`: the buffer has been read by the first attempt.
- `legacy_promoted`: the accounts are sorted before the promotion, and the
  header counts as if they had been sorted after it.

The models contain more that no statement of the repository contradicts, so
that no run is about it:

- confirmation: a call that waits for the processed level only may report an
  expiry at a height the cluster goes back from, and its transaction may land
  after all; a transaction that has landed may be reported as expired when the
  notification and the expiry are ready at the same time (`select`);
- cache and transport: with overlapping callers the torn assignment lets a
  caller pair the new `LastFetch` with the old blockhash (`HitIsYoung` fails),
  the first of two polls to end lowers the flag of the other, and a
  `RoundTripper` that still reads a body after answering can send the bytes of
  the next request (`BodiesAreOwn` without `eager`);
- versioned messages: a key at the index 256 of a table passes the limit and is
  written as 0 (the exception `wrapped` of `MessageMeansWhatWasAsked`); if that
  message is decompiled, another account takes the key's place in what is
  compiled next, which may then be refused for a reason that what was asked
  did not give (the same exception in `RefusalsHaveReason`); with a
  second writable signer the compilation fails by chance; a message cut inside
  the data of its last instruction or its last list of indexes is read without
  an error; a version 0 message in a node's JSON is read as a legacy one;
- builders: an account that was forgotten and never validated is left out and
  the others move up, and what is decoded from that validates (`gapped`); with
  multi-signers the authority keeps no flag, writable or not; a decoded
  instruction has no discriminator when it is encoded as it is; the variants of
  `token_group` are never recognised;
- Irys: after a payment whose submission fails, `Must1` panics before the line
  that tells the user to keep the payment's id, and a retry pays again; the
  size of an image is looked at after it was paid for; with one wallet, an
  uploader whose payment was credited may find that others have spent it; the `default` of the
  `select` means that attempts do not wait 200 ms;
- loader: the finalizing transaction is given the chunks' list and is refused,
  so `Load` never succeeds; chunks are sent to an account that is not there, or
  not ready, when the transaction that prepares it was taken for confirmed
  before it landed (the exception in `ChunksFit`); an account with another owner
  is assigned to the
  program's own key; data that is no multiple of the chunk size panics after
  the account has been paid for;
- mints: `CreateMint` refuses every transfer hook; an account whose metadata makes it as long as a multi-signature's
  needs two bytes nobody paid for, so its creation fails; the two bytes added
  for that make `GetExtensionType` fail while `GetExtensionData` works; a
  multi-signature authority can never sign for `CreateMint`. Of the fee only
  that it is configured is modelled: `max(100_00, *Fee)`
  (`tokens_2022_creator.go:243`) makes it at least the whole amount, where line
  187 calls 100% the maximum.

## 5. Proofs

Each theorem holds for every value of the constants that satisfies the
assumptions named in the modules.

| theorem | what | from |
|---|---|---|
| `BlockhashCacheProofs!TypeCorrect` | types | the assumptions on the constants |
| `...!FlagNeverStuck` | the flag has a poller, any number of overlapping callers | `TypeInv` |
| `...!LedgerInvariance` | cache, lists and submissions agree | `Exclusive`, `MaxLag = 0` |
| `...!NoDuplicates` | no signature is submitted twice | `LedgerInv` |
| `...!CacheImplementsLedger` | refinement of `SubmissionLedger` | `LedgerInv` |
| `...!HitsAreYoung` | what the cache gives out is younger than the timeout | `Exclusive`, `AgeInv` |
| `TransactionConfirmationProofs!ConfirmationInvariance` | the inductive invariant | |
| `...!ConfirmationTypes` | types | |
| `...!SeenIsCommitted`, `VerdictsAreRight`, `ExpiryIsFinal` | the safety properties of `confirm` | `ConfirmationInv` |
| `RpcClientProofs!RpcTypes` | types | |
| `...!BuffersAreExclusive`, `BodiesAreOwned` | the safety properties of `rpc` | `RpcInv` |
| `LegacyTransactionProofs!WireSigned` | what goes out is signed, over the message that goes out | |
| `...!LegacyTypes` | types; indexes are within the keys | `LegacyInv` |
| `...!EverySignerIsFound` | signing finds an entry for each signer | `LegacyInv` |
| `...!SignedStands` | what was signed stays what is serialized, also after it was populated | `LegacyInv` |
| `...!WireAsAsked` | the wire asks what the instructions ask, unless a signer was promoted | `LegacyInv` |
| `VersionedTransactionProofs!SignaturesAlwaysVerify` | signatures are in place and over the message | `SignaturesInv` |
| `...!CompileKnown` | what a compilation makes: a message that leads where it should, or a refusal with a reason | |
| `...!VersionedTypes` | types | `TypesInv` |
| `...!MessagesMeanWhatWasAsked` | a message means what was asked, in any tables, however they grow | `MeaningInv` |
| `...!RefusalsAlwaysHaveReason` | refusals | `MeaningInv` |
| `...!LostLookupsAlwaysNoticed` | a reader without the lookups is not misled | `MeaningInv` |
| `InstructionBuilderProofs!BuilderInvariance`, `BuilderTypes` | the inductive invariant; types | `PackagesAssumption`, `SignersAssumption`, `BoundsAssumption` |
| `...!ValidatedAreInPlace`, `AlwaysAuthorized`, `OnlyUnvalidatedPanic` | the builders' properties of `toolkit`, for any packages, setters, builds and decodings | `BuilderInv` |
| `...!DecodedIsMeant` | what is decoded is of the kind that was encoded | `BuilderInv`, and of the tables `IdsDiffer`, `InStep` (`LeadsBack`) |
| `ToolkitProofs!IrysInvariance`, `SuccessAlwaysCovered` | success is covered, any number of uploaders, prices and attempts | `IrysInv` |
| `...!PaymentAlwaysLasts` | who paid is refused only after others spent four times the price, any number of uploaders, prices and deposits | `IrysInv` (`Lasting`) |
| `...!LoaderInvariance`, `ChunksAlwaysFit` | chunks fit the account once it is prepared, any length, chunk size and number of calls | `LoaderInv`, `FitsFromCut` |
| `...!EpochsAlwaysFollow` | the ways of counting slots agree, any schedule and slot | `SlotIsCounted` |
| `...!MintInvariance`, `MintAlwaysReadsBack` | a mint is read back, any extensions `CreateMint` accepts and any metadata | `MintInv` |
| `...!ToolkitImplements` | the composition is one of each tool | |
| `...!ToolkitIsSafe` | the safety properties of `toolkit`, of the specification the run checks | `ToolkitImplements` |

The invariants and why they are needed:

- `LedgerInv`. That no signature is sent twice is not inductive: the step that
  sends must know that the signature has not been sent, which rests on the
  list having held every signature sent under the cached blockhash
  (`ListOK`) when `Check` read it (`SignOK`), on the cached blockhash being
  newer than any other that was used (`PollOK`), and on nobody else having
  moved in between (`Solo`). While the struct is being stored the list may
  already be empty and the blockhash still old, hence the disjunct of
  `ListOK`.
- `AgeInv`. A caller compares its clock with `LastFetch` and takes the
  blockhash in another step, so the invariant says that `LastFetch` is the time
  at which the blockhash was fetched, except while the fields of a poll are
  being stored (`StoredWhenFetched`, `AgeOK`), and that the only caller is then
  the one that stores them. `LastFetch` is never ahead of the clock a lone
  caller has read, so the age does not wrap around.
- `ConfirmationInv`. A verdict is right because what the confirmer holds was
  true when it was obtained and stays so (`VerdictInv`, `reached` is history),
  and an expiry is final because a confirmed or finalized height never shrinks,
  while one that is only processed may (`Exceeded`, `ExpiryInv`): a block in
  which the transaction is valid then lies below what is confirmed, where no
  fork leads to (`ClusterInv`).
- `RpcInv`. Exclusiveness needs that a call which has begun owns a buffer that
  is in use (`CallInv`); that bodies are their own needs that only the last
  attempt of a call can still be waiting to be read (`EagerInv`).
- `LegacyInv`. `WireIsSigned` is inductive by itself, since only `Serialize`
  puts anything on the wire; its work is in two lemmas about `Aligned` and
  `Signedness`, which hold for any entries and any message. The rest needs what
  `Compile` returns: that the ordered metas are each account once, with all its
  flags (an enumeration of the keys), and that an index leads to the account it
  was made for. Since the wire outlives the fields it was made from, the
  invariant says what it was compiled from (`WireIsCompiled`). For a
  transaction that was populated, what is on the wire is compiled once more and
  gives the same message: this is `SignedMessageStands` over `Populate`.
- `SignaturesInv`. A signature that comes back is over the message only if
  nothing was compiled since and the copy was whole, so what the co-signer's
  copy and its reply hold is part of the invariant.
- `MeaningInv`. What is compiled after a decompilation is not what was meant
  but what was read, so the invariant carries that the two ask the same of
  every account (`AskedIsMeant`). That a copy without lookups misleads nobody
  is not inductive as it is stated: an error may become a reading when the
  tables grow. What the copy holds must be said (`CopyIsNoticed`): it can be
  read and means what was meant; or it has no lookups, and the tables do not
  matter; or its number of signers was cut to none, since 256 of them are 0 in
  a byte (`KeysFit` says that there are no more). `MeaningInv` was
  checked with TLC on the instance of `versioned` as well.
- `BuilderInv`. A validated entry is right because at the moment of validation
  the object is: its slots either hold what the roles ask for or are missing,
  its last one may be plain with co-signers behind it, and what it carries is
  what it is meant to be (`ObjectInv`). Decoding turns an entry into an object,
  so the same is needed of the entries (`AddedInv`), of those never validated
  too as far as it goes. `PackagesAssumption` is what the tables must satisfy:
  roles and parameters have names, no two kinds of a package have the same
  discriminator (`IdsDiffer`), a variant of the decoder stands at the place of
  its kind or is no kind's discriminator (`InStep`), and what carries another
  instruction asks for nothing itself. TLC evaluates it for all of them in
  `toolkit`. That a discriminator leads back to its kind (`LeadsBack`) is a lemma
  from the two; that it survives validation, encoding, nesting and decoding
  again is the invariant.
- `IrysInv` ties the stage of each uploader to its file, its payment and what
  the node has. `Lasting`: while an uploader whose payment was credited has not
  had its file, the balance and what the node took since (`charged`) are
  together at least the payment, five times the price; who is refused finds less
  than one price in the balance.
- `LoaderInv`. The account is changed by first transactions only, of this call
  or of one before, that land at any time. None of them takes away what the
  account has of what is wanted, or assigns an account that was not found with
  another owner (`AllSound`); so what the present call asks for stays enough
  until it lands (`SetupSuffices`), and from `cut` on the account fits unless
  the call's own transaction is in flight (`FitsFromCut`).
- `MintInv`. What is read depends on how the account was made several steps
  before, so each step says which checks the request has passed, and the mint
  that exists is the one the request lays out. The lengths are then compared
  by cases on whether the account has the length of a multi-signature's.

How a compilation is followed (`VersionedTransactionProofs`). One table gives
two lists of keys with the indexes they have in it (`Drained`, `TwoDrains`);
the lookups so far and the lists so far lead to the same accounts in the tables
at hand and in any longer ones (`LeadsOn`, `Progress`), which an induction
carries over all tables (`ExtractedKnown`). The four groups of the keys that
stay enumerate them (`GroupsTogether`), and a place in the list of all keys has
the flags of its group (`FlagsByPlace`), whether it is among the message's own
keys or looked up. An index leads back to its key since no more than 256 keys
are let through (`InstructionsIndexed`), so what is decompiled means what was
compiled (`MadeMeans`).

Lists and numbers. A proof about a list needs an induction over its elements,
which the library states with operators as parameters. `DataLemmas` has it for
sets of numbers instead (`LeastOf`, `SetInduction`), and what is computed one
element after another is a function on `0 .. n` whose existence such an
induction shows (`SumsExist`, `RunsExist`, `ExtractionsExist`). Sorting and
filtering in the models are therefore written by places (`Selection`): the
n-th of a sorted list is the one with n - 1 before it, and a filter is the list
of the places that pass. `FlattenSeq` of the community modules is shown to be
such a function of one list after another (`Flattens`). A power of two is counted as the number of subsets
of a set, since the provers know nothing else of it.

The assumptions on the constants, beyond those that say what they are: no
callers' messages, hashes, keys or transmissions are the value that stands for
nil (`CallersAssumption`, the two `NoneAssumption`); a walk through a Go map
meets every key once (`OrdersAssumption`); the owner of a lookup table only
appends to it, and no two tables have one key (`TablesAssumption`: the
program on the chain forbids the one, addresses the other); the schedule a
cluster reports has its first normal slot where its short epochs end, with
powers of two that an int holds (`SchedulesAssumption`, 62 with `WordBits`);
a request for a mint is one the parameters of `CreateToken` and `CreateMint`
can express (`MintRequestsAssumption`). TLC evaluates each of them in the run
of its module.

Only model-checked: liveness (`CallsReturn`, `ConfirmReturns`,
`EveryUploadEnds`, `EveryLoadEnds`: fairness and ENABLED are beyond the prover), and what the violation runs
refute. Every invariant and every safety property of an action that a run
checks has a theorem.

## 6. Not modelled

- Types, accounts and errors of the on-chain programs: generated field-by-field
  codecs and texts, without state or decisions.
- The byte encodings of messages, transactions, instructions and data items,
  apart from what they lose or confuse (`Readings`, `Unreadable`, `TakenFor`).
- The other RPC methods: wrappers of one request each over the transport that
  is modelled. Left out with them are `Connection.Close`, which clears clients
  others may be using, the body of a 429 answer that is not closed, and
  `CommitmentFromString`, which returns nil for the names it knows.
- In the confirmation, a transaction with neither a last valid height nor a
  nonce: its bare signature is no strategy `ConfirmTransaction` knows, and the
  call returns an error although the transaction was sent
  (`web3/connection.go:1096`).
- `TransactionBuilder` and the other token helpers: they assemble instructions
  from arguments, and pass the first error on.
- Keys, signers, sysvars, cluster and validator information, the token list,
  the examples: cryptography, constants and data.

Open, in the order of their worth: the reader of token accounts beside that of
mints, with the extensions of accounts; the state of lookup tables
(activation, deactivation); the composition of the loader with the confirmation
instead of an abstract chain.
