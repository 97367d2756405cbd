# Formal model of the UPI offline mesh

This directory holds TLA+ modules that model the payment demo in `src/src`, TLC
configurations that check them on small instances, and proofs that TLAPS checks
for every instance. Paths below are relative to the repository's `src/src`
unless they say otherwise.

## 1. The system

A phone without Internet seals a payment instruction for the server and puts it
into a packet. Phones hand copies of the packet to each other. Phones with
Internet ("bridges") upload what they hold. The server must pay each
instruction at most once, however many bridges upload it and however often.

| Component | State | Operations |
|---|---|---|
| Database `db/inMemoryDb.js`, `db/repositories.js`, `models/Account.js`, `models/Transaction.js` | `accounts` (balance string, version), `transactions`, unique index `txPacketHashes`, `nextTxId`; the snapshot of a running transaction | `runTransaction`, `findAccountByVpa` (a copy), `saveAccount` (optimistic lock), `saveTransaction` (unique index), `clear`, queries |
| Settlement `services/settlementService.js`, `models/PaymentInstruction.js` | none between calls; two account copies in a call | `settle`, `recordRejected` |
| Gate `services/idempotencyService.js` | `seen`: hash -> time of the claim | `claim`, `evictExpired` (60 s timer), `clear` |
| Ingestion `services/bridgeIngestionService.js` | none between calls | `ingest`: hash, claim, decrypt, freshness, settle, answer |
| Mesh `services/meshSimulatorService.js`, `services/virtualDevice.js`, `models/MeshPacket.js` | per phone an ordered map of packets | `inject`, `gossipOnce`, `collectBridgeUploads`, `resetMesh` |
| Demo `services/demoService.js` | none | `seedAccounts`, `createPacket` |
| Routes `routes/apiRoutes.js` | none | `/demo/send`, `/mesh/gossip`, `/mesh/flush`, `/mesh/reset`, `/bridge/ingest`, read-only GETs |
| Cryptography `crypto/hybridCryptoService.js`, `crypto/serverKeyHolder.js` | a key pair made at start-up | `encrypt`, `decrypt` (throws), `hashCiphertext` |
| Start-up and shutdown `app.js` | none | starts with an empty memory; ends on a signal |
| Dashboard `public/index.html` | what the page shows; the answer each running call awaits | `refresh` by a timer and after each button |
| `config.js`, keep-alive workflow | none | numbers; a scheduled ping |

**How they interact.** Everything runs in one Node process with no database
outside it. Routes call services, services call the database, all by plain
function calls. None of `ingest`, `settle`, `runTransaction`, `gossipOnce`
awaits, so a handler runs to its end before another handler, the timer or the
reset button runs. `/mesh/flush` maps its uploads to async functions under
`Promise.all`; since their bodies contain no `await`, each runs to completion when
`map` calls it: the uploads are sequential, in the order of the mesh's device map
and of each phone's packets. The clock does run meanwhile: `ingest` reads it at the
gate and again at the freshness check. The dashboard is the exception: `refresh()`
awaits three answers one after the other, and calls of it overlap.

**What is hard.**

- A transaction writes two accounts and a row, from copies read before the first
  write, and may throw between the writes (same account twice, a missing date, a
  hash already there). Atomicity rests on the rollback alone.
- Exactly-once rests on two mechanisms with different lifetimes: the gate, whose
  claims end after a TTL or at a reset, and the unique index, which never forgets.
- The claim is made before the packet is decrypted, dated and settled; a refusal
  leaves it in place.
- Three clocks that need not agree: TTL from the claim, age from `signedAt`,
  tolerance for a phone ahead of the server.
- Money is a two-decimal string that is parsed to a float, added to and rounded
  again, once per account.
- A gossip round reads a snapshot while the phones fill up.
- All state is in memory. The program may stop anywhere and start again, while
  phones elsewhere still carry packets that the last start paid.
- A package passes through many phones; `decrypt()` cuts it at fixed offsets and
  relies on one tag for all of it. The tag covers the bytes; the hash that tells a
  copy from a new packet covers the Base64 text, and many texts decode to the same
  bytes.
- The page reads balances and rows with two requests, a payment may come
  between them, and answers of two calls of `refresh()` overtake each other.

**What makes each component correct.**

- Database: index, rows and ids agree; a rollback restores all of them.
- Settlement: money moves exactly when a `SETTLED` row is written; no overdraft;
  a hash is decided once. As an abstract specification: `Ledger`.
- Gate: a claim is kept, unrenewed, for its TTL and not for ever.
- Ingestion: an answer `SETTLED` names the packet's own row and is given once; only
  timely instructions settle.
- Mesh: a round reaches every phone, keeps first copies, and every bridge uploads
  each copy once.
- Routes: a flush answers each upload in order and ends.
- Start-up: a packet is paid in one life of the program at most. As an abstract
  specification: `LedgerLives`.
- Cryptography: what opens decodes to a whole package that was sealed for this key.
- Dashboard: the rows on the page account for its balances, and the page shows
  the server in the end.

The complete list of hazards, each at its line with the properties that would
catch it, is in `PROJECT.json`.

## 2. Modules and plan

Built so far, in this order:

| Module | What it is | Code |
|---|---|---|
| `Rupees` | amounts, rounding | `PaymentInstruction`, `Account` |
| `InMemoryDb` | tables, snapshot, lock, index | `inMemoryDb.js` |
| `SettlementService` | `settle()` step by step; properties | `settlementService.js` |
| `SettlementInvariant` | its inductive invariant | |
| `Ledger` | **abstract**: transfer or refuse each hash once, atomically | |
| `IdempotencyService` | the gate and the clock | `idempotencyService.js` |
| `BridgeIngestion` | `ingest()`, timer, reset, clock around the two above; properties | `bridgeIngestionService.js` |
| `MeshSimulator` | phones, gossip, uploads; properties | `meshSimulatorService.js`, `virtualDevice.js` |
| `OfflinePayments` | routes: phones, mesh, flush and server together; properties | `apiRoutes.js`, `demoService.js` |
| `LedgerLives` | **abstract**: the ledger that may lose everything at once and decides nothing twice | |
| `Restarts` | the system above with a restart at any step; properties | `app.js`, `serverKeyHolder.js`, the constructors |
| `HybridCrypto` | `encrypt()`, the way through the mesh, `decrypt()`; properties | `hybridCryptoService.js` |
| `Dashboard` | overlapping calls of `refresh()` and the server they ask; properties | `public/index.html`, the GET routes, `findTop20Transactions` |
| `MC*` | instances for TLC | |
| `Loops` | lemmas about loops written as recursive functions | |
| `SettlementProofs`, `BridgeProofs`, `MeshProofs`, `SystemProofs`, `RestartProofs`, `HybridCryptoProofs`, `DashboardProofs` | theorems | |

`SettlementService` extends `InMemoryDb` and `Rupees`; `BridgeIngestion` extends
`SettlementService` and `IdempotencyService`; `OfflinePayments` extends
`BridgeIngestion` and `MeshSimulator`; `Restarts` extends `OfflinePayments`;
`LedgerLives` extends `Ledger`. `HybridCrypto` justifies what `BridgeIngestion`
assumes of decryption, and `Dashboard` stands on what is shown of the ledger.

What could still be added:

1. *Database for general clients*: several copies of one account alive at once
   (lost updates); an abstract serial table it refines. The program has one
   client, `settle()`, which is modelled.
2. *Abstract gate*: exactly-once delivery within the TTL as a small specification
   that `BridgeIngestion` refines.
3. *What the page is told*: that the server of `Dashboard` (rows, life) is what the
   composed system with restarts shows to a reader.

## 3. How the models correspond to the code

**Amounts (`Rupees`).** A balance is a whole number of paise. An amount is a
number of paise and the side of the half its remaining fraction is on, or `"nan"`.
`ToFixed` is the set of results `toFixed(2)` can give: one, except at the half,
where the float sum lies on either side of the tie. JavaScript numbers large
enough to lose paise (above 2^53 / 100 rupees) are outside the model.

**Database (`InMemoryDb`).** Each operation that may throw is a predicate
(`CanSaveAccount`, `CanSaveTransaction`) and an effect. `snapshot` is the local
state of `runTransaction()`. `CommittedAccounts` and `CommittedRows` are what
the tables would be if the running transaction failed.

**Settlement (`SettlementService`).** `pc` follows the callback: `verify`,
`saveSender`, `saveReceiver`, `saveSettled` or `saveRejected`, then `returned` or
`threw`. `sender` and `receiver` are the account copies. Every place that throws
is a step that takes `Throw`: unknown account, amount no positive number, stale
version (a payment to oneself), a `signedAt` that `toISOString()` refuses, a hash
already in the index. `settle()` is called here with *any* instruction and hash.
`ThrowsForAReason` says that these are the only occasions: the optimistic lock never
stops a payment between two accounts. `LedgerExplainsBalances` is a replay of the rows
(`Summed` of each row's `Effect`) from the seeded balance of each account;
`MoneyIsConserved` is about the sum over the accounts, in whatever order they are
gone through.

**Gate (`IdempotencyService`).** `seen` and the clock `now`. The clock's unit is
left open; `MaxTime` bounds it for TLC only.

**Key holder.** `Keys` are the key pairs the program makes, one for each start, and
`serverKey` is the current one. `InstructionOf[k][c]` is what `decrypt()` makes of
ciphertext `c` with key pair `k`. `OneKeyOpens` assumes that no ciphertext opens with
two keys; `HybridCryptoProofs` derives it from how a package is made and cut
(`WhatIngestionAssumes`).

**Ingestion (`BridgeIngestion`).** `stage` follows `ingest()`; `"idle"` means no
handler runs. A ciphertext stands for its SHA-256. `Decrypted` is what
`decrypt()` makes of it, `None` if it throws; it is not assumed injective, because
the hash is over the Base64 text and several texts decode to the same bytes. So a
"packet" of the exactly-once properties is one text: the same payment in another
spelling is another packet to the gate, the index and the model (see `respelled`).
`signedAt` is a time, missing, or a date in words; in the last two cases the age is
`NaN` and neither comparison refuses. `TimePasses` may come inside a handler, once.
`BridgeSpec` is the server with the reset button, `ServerSpec` without it: the runs that refute
a sentence of the documentation do not need the button.

**Mesh (`MeshSimulator`).** A phone holds a sequence, the insertion order of its
`Map`. The three loops of `gossipOnce()` are three recursive functions, each of
which gives what the phones hold after so many turns: `GossipRound` over the phones,
`FromPhone` over what the snapshot has of one phone, `ToPeers` over the phones again,
with `Offer` as its one turn; `Relay` is the test of the TTL before it. `hops` is a ghost: the
number of phones a copy came through, which the code does not record. `HopCount`, what
a flush puts into the ledger row as such, is `5 - ttl` and differs from it for packets
sent with another TTL. A TTL is an
integer or `NaN`, which `parseInt` makes of other text in `/demo/send`: `NaN <= 0` is
false, so such a copy is forwarded for ever, and `Less` keeps it `NaN`.

**Routes (`OfflinePayments`).** `route` names the handler that runs; a new one
starts only when it is `"none"`. `/mesh/flush` is `Flush`, then for each upload
`FlushDropped` or `FlushPassed` and the steps of `ingest()`, then `FlushDone`. One
value stands for a packet's id and its ciphertext, which `createPacket()` makes
together; hence the assumption `OneCiphertextPerPacket`: `Packets` are the texts
`createPacket()` makes, the rest of `Hashes` those made elsewhere (dated ahead, undated,
in words, altered or respelled on their way, for another key). `/bridge/ingest` takes
whatever text it is handed, at any time, as its route does; `CanExist` only keeps
effects after causes: a packet cannot be uploaded before `createPacket()` made it, nor
a text sealed for a key pair that was not generated yet.

**Restarts (`Restarts`).** `Restart` may come at any step of `SystemNext`, also inside a
handler and between the two saves of a transfer; the graceful shutdown of `app.js`,
which waits for open requests, is a special case. It sets every variable as the
constructors do and makes the next key pair. `created` survives: it stands for the
packets that phones outside the simulation carry and upload over `/bridge/ingest`,
as they do texts that were sealed elsewhere.
That the ledger is lost is by design (the repository's README says so of the in-memory
database); the properties say what holds in spite of it.

**Cryptography (`HybridCrypto`).** A byte is known by the field it was made for, the
sealing that made it and its place, so that two bytes are equal only if they were
made as the same byte. `Decrypt` cuts the sequence at the offsets of the code
and yields `None` where the code throws: too short, key block not whole or for another
key, tag wrong, no JSON. The primitives are ideal: RSA-OAEP opens a block only if it
is whole, GCM finishes only with all it made. What travels is a text: the bytes it
decodes to and their spelling. `Encrypt` writes the one spelling `toString('base64')`
knows; `Decode` forgets the spelling, as `Buffer.from(text, 'base64')` does with white
space, missing padding, the URL-safe alphabet and unused bits. `FlipByte`, `Truncate` and
`Mix` are what may happen to the bytes of a text on its way, `Respell` to the rest of it.

**Dashboard (`Dashboard`).** A call of `refresh()` awaits `"mesh"`, `"accounts"`, then
`"transactions"`; `Serve` is the server answering, `Show` the answer arriving at the
page, `Fail` a fetch that rejects and ends in the `catch`. Timer and buttons are calls
that may overlap. The server is reduced to what the answers tell: `life`, the number
of `rows` and a counter `mesh` of changes to phones and claims. One number
stands for rows and balances because the other modules show that rows are numbered
1, 2, ... (`LedgerIndexed`) and that the balances are what the rows explain
(`LedgerExplainsBalances`). `alone` is a ghost: the running calls that no other call
overlapped. Coherence is claimed for these only: of two calls that overlap, one may
put an old listing beside the newer balances of the other, until a later call.

## 4. What the runs check

| Run | Instance | What it shows |
|---|---|---|
| `settlement` | 3 accounts, 3 hashes, 8 instructions: one for each way `settle()` can go, and amounts on either side of the half | the inductive invariant `SettlementInv`; rows, ids and index agree; no overdraft; the balances are what the rows explain; the total stays; `settle()` throws for a reason only; **refines `Ledger`** |
| `bridge` | 4 ciphertexts (good, poor, future, undated), TTL 1, age 2, skew 1, clock to 4, reset | `SETTLED` is answered once, with the packet's own row, only when timely; a claim is kept for the TTL, unless reset, and then evicted |
| `mesh` | 4 phones of which 2 bridges, 3 packets, TTL 0, 1, 5, NaN | the inductive invariant `MeshInv`; one round reaches all; first copies stay; packets of one sender keep their order; uploads are complete and unique |
| `system` | 2 phones, bridges both, 2 packets whose outcome depends on their order, 1 text from elsewhere (the first payment in another spelling), clock to 2 | the flush: one answer per upload in order, one bridge per packet, good payments made, handlers end |
| `restart` | 2 phones, 3 starts, 3 packets: two sent in the first life, of which the second can be paid only without the first, one sent in the second; 2 texts from elsewhere, dated in words, for the second and third key: rows are written in every life | `RestartInv`, the inductive invariant; a packet is in the ledger of one life at most; **refines `LedgerLives`** |
| `crypto` | 2 keys, 2 texts of different length of which one is no JSON, 2 sessions, 2 spellings, fields of 2, 1 and 2 bytes, 2 damages | whole packages open with their key only, in either spelling; no other bytes open |
| `dashboard` | 2 calls at a time, page of 1 row, ledger of 2, 1 restart, 1 failure | `DashboardInv`, the inductive invariant; after a lone refresh the rows account for the balances; the page shows the server in the end |

Five further runs check a sentence of the documentation that the code does not
keep; TLC finds the counterexample:

| Run | The sentence | What happens |
|---|---|---|
| `rejected_answer` | `"SETTLED"`: funds transferred | a payment recorded `REJECTED` for lack of funds is answered `SETTLED` |
| `half_paisa` | amounts "tracked precisely without floating-point rounding errors" | a string amount of half a paisa is rounded apart on the two accounts; the total changes |
| `redelivery` | later requests are "short-circuited as `DUPLICATE_DROPPED`" | a packet dated ahead of the server stays fresh longer than its claim lives; the redelivery reaches `settle()`, where the unique index makes it `internal_error` |
| `dropped` | `"DUPLICATE_DROPPED"`: already delivered, "safely ignored" | a `future_dated` packet keeps its claim and is dropped when it could be paid |
| `respelled` | "tampers with even a single bit of the packet": the "authentication tag check fails" | a text that is spelled otherwise but decodes to the same bytes opens. Its hash is new, so to the gate and the unique index it is a new packet, and the payment it carries may settle a second time |

**Bounds, and why they are enough.** Three hashes let a row be written while one
hash is settled and another fails; more add rows, not cases, and `SettlementInv` and
the refinement are proved for any number. In `bridge` the clock exceeds TTL plus
skew, so that a claim can expire while its packet is fresh, and exceeds the age, so
that packets go stale. Two bridges are the least for duplicates within a flush; in
`system` they are all the phones, since those that upload nothing matter to the mesh
only. `mesh` has such phones: four let a packet start before, between and after bridges
in the device order. TTL 0, 1, 5 and NaN are: may not be forwarded, may be forwarded
once, the default, never stops. `MaxStarts` 3 lets a packet meet its own key, the next one,
and one after that; each life has a text of its own that pays in it and is uploaded
again in the next. Two damages are enough to cut a package and put a part of
another in its place; the theorem has no such bound. A ledger longer than the page
needs two rows and a page of one; two calls are the least that overlap, and the
invariant is proved for any number. `crypto` and `respelled` alone run without the
deadlock check: a text that met `MaxDamage` damages is done. `mesh` uses the symmetry of its
packets, which the model tells apart only by name and which no property names;
the other runs use none, since their hashes stand for different contents.

**Fairness.** `WF(HandlerStep)` and, in the system, `WF(HandlerGoesOn)`: a handler
is synchronous code without loops that wait. `WF(TimePasses)`: time passes.
`SF(EvictionTimer)`: the timer shares the event loop with requests, is due
again and again, and Node serves due timers between callbacks, so requests cannot
keep it out for ever although each of them disables it for a while. No request is
assumed to be made. On the page, `WF` of some `Start`: `setInterval` calls `refresh()`
every three seconds as long as the page is open; `WF` of each `Serve` and `Show`: the
server gets to a request and its answer arrives, except for `MaxFailures` that fail.
The server's own changes are bounded and not promised: the page is claimed to
show the server once it has come to rest.

**Mutants.** Each property of a passing run has a mutant in `PROJECT.json`: an
operator in the modules, marked as such, that changes one definition the way a
plausible bug would and makes TLC find the property violated.

## 5. What is proved

Assumptions: `SeedsArePositive`, `InstructionType`, `NoneIsNoSnapshot`, `TimesAreNat`,
`BridgeConstants`, `OneKeyOpens`, `MeshConstants`, `OneCiphertextPerPacket`,
`CryptoConstants`, `DashboardConstants`, each stated in the
module that declares the constants. The theorems hold for all sets of accounts,
instructions, ciphertexts and phones, all TTLs, ages and skews, any clock bound.

- `SettlementProofs`: `SettlementInv` is invariant, hence `SettlementTypeOK`,
  `NoOverdraft`, `LedgerIndexed`. None of these is inductive by itself: a rollback
  restores whatever the snapshot holds, and a save writes whatever the copies
  hold. `SettlementInv` therefore says, for each `pc`, that the snapshot differs
  from the tables at most in the accounts, and that the accounts are the
  snapshot's with the saves done that `pc` says are done (`Transferring`). It gives
  the reason a payment to oneself cannot succeed: after the first save, the second
  copy's version is old.
  `ThrowsForAReason` needs the versions: the copies that are saved have the versions
  the snapshot had.
- `SettlementProofs` also has `SettlementSpec => ImplementsLedger` if `NoTies`, that is, if
  no amount is exactly between two paise. Every step is a stutter of the ledger
  except the commit in `SaveRow`, which is a `Transfer` or a `Refuse`. `NoTies`
  is necessary: `half_paisa` is the counterexample without it. Amounts that
  `/demo/send` makes satisfy it, since JSON numbers are rounded when the
  instruction is built. Under `NoTies` the books balance, too: a replay grows by the
  effect of the row that commits (`ReplayGrows`), which is what the transaction did to
  each balance (`RowSaysWhatMoved`). `MoneyIsConserved` follows from the refinement:
  what a `Transfer` takes from one account and gives to another leaves the sum alone
  (`SumOfTransfer`), in whatever order the accounts are gone through.
- `BridgeProofs`: `BridgeSpec => SettlementSpec`, by `HandlerInv` (the handler and the
  call of `settle()` are active together and about the same packet). So everything
  proved of `settle()` holds of the server, through redelivery, eviction and reset:
  in particular it implements the ledger. Further, `ClaimOutlivesWindow`.
- `BridgeProofs` also has what bridges are told. `AnswerInv` adds to `BridgeTypeOK` that the row
  `settle()` returned, and the answer made of it, are in the committed ledger, and
  that what is being settled was in time at the gate and is now. Hence
  `SettledAnswerHasRow` and `OnlyTimelySettles`. `OneSettledAnswer` is temporal: `Spent`
  (the packet has its row, and no answer `SETTLED` for it is given or under way) is
  preserved by every step, because only the unique index stands between a
  redelivery after eviction and a second row.
- `MeshProofs`: `MeshInv` is invariant, hence `MeshTypeOK`, `OneHopMesh` and
  `SendersOrderKept`, and with it `RoundReachesAll`, `FirstCopyIsKept` and
  `EachBridgeUploadsEachCopyOnce` hold, for any number of phones and packets and any
  TTL. `SendersOrderKept` is not inductive: a round could reorder two packets of one
  sender if the later one had spread and the earlier one had not. `EarlierIsWithAll`
  excludes that, and `CopyTellsHolders` says where a packet is from any one copy of it.
  Within a round each loop has an invariant of its own (`Mid`, `Given`): what was
  there stays first and in place, what is added was offered, and what was offered is
  with all. The loops are recursive functions; `Loops` proves that such a function
  exists (`LoopRuns`) and what holds after every turn (`UpTo`).
- `SystemProofs`: `SystemSpec => BridgeSpec` and `SystemSpec => MeshSpec`, so all of this
  holds of the composed system, `OneSettledAnswer` and the books included. `OneBridgePerPacket` is proved from `FlushInv`:
  what a flush has reported stays claimed until its end, and what it has in hand is
  none of it. `FlushReportsEachUpload` needs `FlushProgress`: the uploads are what the flush
  has reported, what it has in hand and what it still has to make, in this order.
  `FlushedPayments` needs four facts: a packet of the mesh that is claimed was sent, for
  this server and at a time that has been (`SentInTime`); a packet that was sent, is
  claimed, not in hand and could be paid has its row, settled or rejected
  (`ClaimedIsPaid`; of a text from elsewhere it would be false, for one dated ahead); what
  could be paid now could be paid before (`PayableBefore`), so that its first delivery
  was not refused as untimely; and `settle()` did not throw for it
  (`ThrowsForAReason`).
- `RestartProofs`: `RestartInv` is invariant with a restart at any step: the parts the
  steps of `SystemNext` preserve are taken from the proofs above, and every row is of
  a packet that opens with the current key. With `OneKeyOpens`, `OneLifePerPayment`
  and the refinement of `LedgerLives` (again under `NoTies`) follow: `Restart` is
  `LoseAll`, and what was decided was sealed for a key that does not come back. The books
  balance in every life (`BooksBalanceInEveryLife`).
- `HybridCryptoProofs`: for all sizes of the fields and the texts, `decrypt()` undoes
  `encrypt()` in every spelling, and any text it accepts decodes, from the first byte to
  the last, to what `encrypt()` packed for this key (the slices cover the package). It
  follows that no text opens with two keys, and both invariants of a text on its way,
  for any number of damages and spellings. That the *text* is what `encrypt()` wrote
  does not follow: `respelled` is the counterexample.
- `DashboardProofs`: `DashboardInv` is invariant and implies `LoneRefreshIsCoherent`,
  for any number of calls, rows and restarts and any page size. The invariant says
  that balances shown by a lone call are no newer than the rows its last
  answer lists, which holds because accounts are fetched before transactions.

**Model-checked only.** Liveness: `ClaimsAreEvicted`, `HandlersEnd` and
`ShowsServerInTheEnd` rest on fairness, which is out of the prover's reach. Every other
property that a passing run checks is stated by a theorem. The five runs that
refute a sentence of the documentation need no proof; where such a sentence holds
under an assumption, the theorem names it (`NoTies` for `MoneyIsConserved`).

## 6. What is not modelled

- The primitives RSA-OAEP, AES-GCM and SHA-256, which are external and ideal here. Of
  Base64, which characters make which byte; that spellings differ and decode alike is
  modelled.
- What becomes of the hop count: `/mesh/flush` stores `5 - ttl` in the row whatever the
  TTL a packet was sent with, although `models/Transaction.js` calls it the "number of
  peer devices it hopped through". Only the table of the page shows it.
- `saveAccount` of an unknown account and `clear()` of the database, which no handler
  reaches; queries other than those of the page.
- `config.js`: its numbers are constants. Environment variables that are no
  numbers are left out.
- Request bodies that the routes or `MeshPacket.validate` refuse: they end before
  `inject()` or `ingest()` and change no state.
- The PIN hash: no code on the server looks at it.
- The markup of the page, the wiring of Express, and the keep-alive workflow, a ping
  without state.
