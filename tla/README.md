# TLA+ verification of the MachineWallet robots demo

This directory holds TLA+ models of the two robot programs of
`src/housekeeping_robot` and `src/ac_robot` and of the parts of the BoAT SDK
they are built on, TLC configurations that check them on small instances, and
TLAPS proofs of the results that matter most.  `PROJECT.json` maps every
definition to the lines it models, and lists runs, mutants, hazards, findings
and theorems.

1. [The system](#1-the-system)
2. [Modules](#2-modules)
3. [How the models correspond to the code](#3-how-the-models-correspond-to-the-code)
4. [What the runs check and show](#4-what-the-runs-check-and-show)
5. [Fairness](#5-fairness)
6. [Proofs](#6-proofs)
7. [Where the code and its documents disagree](#7-where-the-code-and-its-documents-disagree)
8. [What is not modelled](#8-what-is-not-modelled)
9. [Plan](#9-plan)

## 1. The system

Two boards play two robots.  The house keeping robot reads a thermal sensor on
its serial port; after some hot samples it pays one cent in an ERC-20 token.
The A/C robot watches its token balance; income switches a fan on through a
cloud service, 50% and 30% of it are sent on to two investors, and the fan is
switched off some turns later.  The programs share nothing but the token
contract.

| Part | State | Operations | What makes it correct |
| --- | --- | --- | --- |
| `main` of both robots, modem | stage of `main`, the modem's data session | bring the session up, set up network, keypair and wallet, work, take everything down | no failure leaves `main` hanging or the session open |
| UART thread (`fibocom_uart_temperature.c`) | poll status, window edge, `g_uart_buf`, exit flag, two counters | open, poll with a sliding window, query, read a frame, sample, pay, close; SIGINT handler | no response is stepped over, no buffer overrun, payments spaced, debounced and not overdue, the thread ends after SIGINT |
| A/C loop (`ac_robot.c`) | baseline, last reading, countdown | read the balance, switch on, pay two investors, re-read the baseline, count down, switch off | nothing is shared twice, the robot's part is never given away, the fan runs its turns and goes off |
| Wallet (`api_ethereum.c`, `boatethereum.c`) | fields of the transaction, remaining waiting time | init, set nonce, send, wait for the receipt | a success is on the chain, at most one transfer is under way, no nonce gap, every call returns |
| RPC (`web3intf.c`, `rpcintf.c`, `curlport.c`) | request, result and response buffers shared by all calls of a wallet | build, format, post, collect the response, parse, free | buffers grow and never overflow; a result is the answer to this call |
| Keypair store (`boatkeypair.c`, `boat_keystore_soft.c`) | two flash areas and their RAM counterparts | create, delete, list, load | indices are unique, a keypair keeps its own private key, an interrupted call loses no other keypair |
| Network stores (`network_ethereum.c`, `network_platon.c`, `network_quorum.c`) | one flash area and one network in RAM, shared by all three | create, delete, list, look up | an index names one network whichever protocol gave it out |
| Persistent storage (`persiststore.c`, `boatstorage.c`) | areas of a wallet file: count bytes and records | read, write, delete a record | count and records agree, records are read back |
| Secure element transport (`T1oI2C`, `se_process.c`, `se05x_APDU_impl.c`) | sequence numbers, retry counters, chaining state, the two contexts | open a session, send a command, chain blocks, R- and S-blocks, waiting-time extensions, resynchronise, reset | a command is executed at most once and its reply is complete |
| Utilities, encodings | none | hex, big endian, big numbers, base64, TLV, ASN.1, RLP, Bech32 | what one side writes the other reads, damage is refused |
| PlatON and Quorum (`boatplaton.c`, `boatquorum.c`) | fields of a raw transaction | hash, sign, encode, send | a node decodes the fields that were set |
| OS abstraction (`osal`) | queues, semaphores, timers | thin calls of pthreads and System V queues | nothing beyond what they forward to |

How they interact.  `main` of each robot brings up the modem, creates a
keypair, a network and a wallet and then lives in one loop: the UART thread
(`ReadUARTThreadEntry`) or `checkBanlanceLoop`.  Both call the generated
contract functions, which call the wallet (`BoatEthTxInit`,
`BoatEthTxSetNonce`, `BoatEthTxSend`, `BoatEthGetTransactionReceipt`), which
encodes and signs the transaction and calls `web3_*`, which post through
`RpcRequestSync` and libcurl.  The A/C robot uses the same RPC buffers for the
REST calls to the fan.  Keys are in the software keystore or behind the secure
element, reached over I2C by the T=1 protocol.  All calls are synchronous; what
is concurrent is the world around them: the SIGINT handler, bytes on the serial
line, the node, the chain, the fan's cloud service, the secure element, and the
power supply.

What is hard to test, and which property covers it, is the list `hazards` of
`PROJECT.json`.  In short: bytes that arrive at the wrong moment, a baseline
re-read while payments arrive, a program that restarts while the chain and the
fan go on, a nonce read before and used after the chain moves, answers lost
after they took effect, buffers that outlive the call they belong to, power
lost between two writes that belong together, three files that write to one
area, blocks repeated after they were executed, and encodings that change form
at some length.

## 2. Modules

| Module | Models | Composition |
| --- | --- | --- |
| `PaymentPolicy` | the two counters that decide when a sample pays | |
| `ThermalThread` | the UART thread, line and signal handler | extends `PaymentPolicy` |
| `ACRobot` | the A/C loop with chain and plug, crashes and restarts | |
| `RobotBoot` | `main` of both robots and the modem's session | |
| `RobotsDemo` | both robots from start to end and the chain between them | extends `PaymentPolicy`, `ACRobot` and `RobotBoot` |
| `TransferService` | abstract: what a caller may rely on when it makes transfers | |
| `EthWallet` | the wallet's transaction calls, node and chain | implements `TransferService` |
| `Web3Rpc` | RPC calls over the shared buffers, and the life of their context | |
| `FlashArea` | one area of the wallet file (operators only) | |
| `KeypairStore` | creating and deleting keypairs over two areas | extends `FlashArea` |
| `NetworkRegistry` | abstract: one book of networks for three protocols | |
| `NetworkStore` | the three network stores over their one area | extends `FlashArea`, implements `NetworkRegistry` |
| `SecureElementLink` | abstract: commands executed at most once, answers only for executed ones | |
| `T1Protocol` | the T=1 host, its callers, the bus and the element | implements `SecureElementLink` |
| `Encodings` | hex, integers, big numbers, base64, TLV, ASN.1 (operators) | |
| `StoredRecords` | the bytes of keypair, network and private key records | extends `Encodings` |
| `KeyDocument` | private keys given as documents | extends `Encodings` |
| `Bech32` | PlatON addresses | |
| `RawTransaction` | RLP and the raw transactions of the three protocols | extends `Encodings`, `Bech32` |
| `Se05xApdu` | the secure element's commands and replies | |
| `EncodedData` | the encodings applied to data that grow, with what each promises | extends `StoredRecords`, `KeyDocument`, `RawTransaction`, `Se05xApdu` |
| `Robots_proofs` (the two robots and the demo), `EncodedData_proofs`, `EthWallet_proofs`, `Web3Rpc_proofs`, `FlashArea_proofs`, `KeypairStore_proofs`, `NetworkStore_proofs`, `T1Protocol_proofs` | theorems and lemmas | extend their module |
| `MC...` | instances for TLC | extend the module they are named after |

A definition named `X_Y` next to `X` is a mutant: a plausible mistake in the
code that `X` models.  It is used by nothing else; `PROJECT.json` says which
property each mutant breaks.

## 3. How the models correspond to the code

### PaymentPolicy and ThermalThread

`Sample(deg)` is one turn of the sampling loop behind `ReadUART`
(`fibocom_uart_temperature.c` lines 379-400): the countdown ticks, a hot degrees
byte is counted, and when the counter exceeds 2 with the countdown at 0 a
payment is made, the countdown restarts at `TRANSFERINTERVAL`.  The debounce
counter starts again from 1, not 0.  `hotRun` and `sincePay` are history: the
length of the current run of hot samples, and samples since the last payment,
both cut off at `HistoryCap` so that the state space is finite; the cut-off is
above every bound the properties compare with.

`ThermalThread` is the thread around it.  Each `read()`, `write()` and sleep is
a step of its own, because SIGINT may arrive between any two of them
(`HandleSignal`); `ExitSeen` is the test of the flag before each call, and
`UartError` any call that fails.  `rx`/`leftEdge` are the polling buffer and the
left edge of its window, `frame` what `ReadUART` has collected.  The driver may
return any number of bytes up to what it was asked for when the line is `late`;
a `lossy` line drops an answer or its first byte and carries noise.  `ReadUART`
asks for five bytes at every turn, also when part of a frame is there: the model
keeps the surplus bytes and lets `ReadsFitBuffer` account for them.  The loop
of `WriteUART` over partial writes is one step: the sensor answers a message
only when it has it whole.

### ACRobot

One action per stretch between two calls to the outside: `ReadBalance` with the
three-way comparison of lines 522-535, `SwitchOn`, `PayDavid`, `PayCharlie`,
`UpdateBaseline`, and `FanTurn` for the bottom of the loop.  `BalanceReads` is
`call_erc20_balanceOf`: the low word of the balance, or 0 when a call fails
(`Readable`), or, because nobody looks at the result of converting the reply, in
part or whole what the uninitialised `balance256` holds: any of `Leftovers`, at
most `MaxMisreads` times in a behaviour.
`Transfer` is a call to the wallet whose result the loop ignores: nothing
broadcast, mined in time, or left `pending` and mined at some later time; what
the wallet does to produce these outcomes is `EthWallet`.  `Share` keeps the
32-bit arithmetic.  `RestCrash` is the uninitialised pointer of a failing REST
call (section 7); `Restart` is the program coming up again with its memory
lost, while balance, pending transfers and plug are as they were.  The
environment is `Deposit` (anyone pays) and `MinePending`.  `income`, `shared`,
`absorbed`, `sent` and `onTurns` are history, and so are `obeyed` (no command to
the plug was lost and the program kept running), `misreads`, the replies
that were no balance, and `madeUp`, what these can have made look like income: by
how much a baseline was too low, or a reading in which income was found too high.

### RobotBoot and RobotsDemo

`stage` is where `main` of a robot is, from `ActivateNetwork` to
`DeactivateNetwork`.  The results of both, and of every modem call but the
polling for registration, are ignored in the code, so a refusal
(`ModemFails`) goes on to the set-up.  `session` tells a data session that
`main` opened (`"on"`) from one left over from an earlier run or a failed call.
`SetUp` is network, keypair and wallet together: each failure takes the same
way to `main_destruct`.

In `RobotsDemo` the start of both programs, the policy's samples, the A/C loop
and the chain's mining interleave freely.  A payment is broadcast or fails for
good (`PaymentsFail`), because `CallUsdcTransfer` is not repeated, and a robot
without a session pays nothing and reads nothing.  Payments mined before the
A/C robot's first reading are part of its first baseline (`absorbed`).
Failures on the A/C side are off here and checked with `ACRobot` alone.

### EthWallet and TransferService

`BoatEthTxInit` starts a call and asks for the gas price, `BoatEthTxSetNonce`
reads the number of mined transactions, `SendAccepted`/`SendRefused` are the
node receiving `eth_sendRawTransaction`, `AnswerLost`/`BoatEthTxSend` the answer
coming back, `Receipt*` one turn of the loop in
`BoatEthGetTransactionReceipt`, with `timeout` in seconds.  A transaction with
the nonce of a pending one is refused or replaces it, which is what nodes do.

`TransferService` is what a caller may rely on: transfers are submitted one
after another, at most one is under way, a later one may only displace the one
under way, a transfer reported "done" is on the chain and one reported
"accepted" has reached a node, an error says nothing.  `EthWallet` implements it
under the refinement mapping

    outcome[t]  mined if its receipt exists ("0x1" or "0x0"), lost if it was
                replaced, else pending or unsent
    told[t]     done for BOAT_SUCCESS of a synchronous call, accepted for that
                of an asynchronous one, error for every other result

### Web3Rpc

`web3_init` and `web3_deinit` build and free the context, allocation by
allocation.  The calls between them differ in what they want of the response:
the "result" itself, the "status" inside it, an item of a REST service's
answer, or a pointer to the whole response.  A string is modelled by the call it
belongs to, its length, and whether it is complete: enough to tell a truncated
request, a response with a hole, and a stale answer apart.  `json` and `result`
grow by freeing and allocating `Step` more, and are NULL with length 0 when that
fails; `resp` grows in whole `RecvStep`s and keeps its content.  Every
allocation may fail; `starved` records that one did in the current call.

### FlashArea, KeypairStore and NetworkStore

An area is its count (or `Unset`) and the records behind it.  Writing a record, a
count or a closed gap is one atomic step; reads are merged with the
next write, which is sound because one call runs at a time and nobody else
writes.  A record behind the count is never read.  Creating a keypair is four
writes (record and count, in each of the two areas), deleting one up to four,
plus the compensating writes of the error paths.  Before each write it may fail
(`WriteFails`), or the power may go (`PowerLoss`), which also loses what is in
RAM.

`NetworkStore` has the same shape for the three network files.  Every action
has the protocol as its parameter, and the definitions named after a file say
which of its functions performs it.  The three look for a free index, and count,
in the area they share, but find only networks of their own protocol.  The
lists of networks change nothing and are left out.
A read or an allocation that fails (`ReadFails`) is taken by the code for an
empty area; `blind` counts these, and the properties are about flash that can be
read.

`NetworkRegistry` is what the API promises: a book with one entry per protocol
and index, in which a call changes the entry it was made for or nothing, and an
index that one protocol uses is free for no other.  Under the mapping `Book` the
entries are what can be looked up; while a delete is between lowering the count
and closing the gap they are what they were before the call.  Two mishaps
within one delete (a power loss counts as two) may strike out another entry.

### T1Protocol and SecureElementLink

The host side is `phNxpEseProto7816_3.c`: the context that is sent next and the
one that was sent last, sequence numbers, chaining, and one counter for each way
of trying again.  `Send` and `Receive` are the two halves of
`TransceiveProcess`; the operators under them (`SetFirstIframeContxt`,
`SetNextIframeContxt`, `DecodeIframe`, `DecodeRframe`, `DecodeSframe`,
`NothingRead` ...) carry the names of the functions they model.  Above it are
the calls that open and close a session, set the block size, reset and
resynchronise; below it a bus that loses or garbles any block, and the element,
which is external and modelled after the standard: half-duplex, it repeats its
last block when asked, executes a chained command when its last block is there,
and may ask for more time.

`executed`, `asked` and `outcome` are history: what the element executed, what
it was handed, and what each caller was told.  `misled` marks an exchange that
the code ends as a success although it was none (section 7); from then on the
link promises nothing, which is `trusted` of `SecureElementLink`.

### Encodings and what is built from them

These modules are operators from sequences of bytes to sequences of bytes, one
per function of the code and under its name.  What the code does in a loop is a
formula per place, a concatenation of parts, or a recursive function over the
list of fields; `Total` is the sum of such a list.  A refusal is an empty result or
`[ok |-> FALSE]`.  `StoredRecords` lays records out one behind the other as in
flash and reads them back; the cipher and the digest are external stand-ins,
told apart from the identity.  `RawTransaction` encodes the transactions of
Ethereum, PlatON and Quorum, private ones included, and holds the decoder that
a node would use, which is the reference.  Word sizes are constants
(`WordBits`, `LimbBits`, `VBits`, the bits of v, 16 in the run), so that the carries of the big-number code
happen on small numbers.  `EncodedData` is the module that TLC runs: data grow
byte by byte and payloads change their size, and every encoding is applied to
each of them.

## 4. What the runs check and show

| Run | Instance | Checks | Shows |
| --- | --- | --- | --- |
| `thermal` | a good line and a late, lossy, noisy one; buffer of 9, at most 6 bytes on the line, 2 of noise, interval 5 | `NoResponseMissed`, `ReadsFitBuffer`, `PaysForHeat`, `PaymentsSpaced`, `ExitEndsThread` | the window misses no response, no read overruns, payments come when they should and no others, SIGINT always ends the thread |
| `ac_faults` | everything may fail, crashes and restarts, one reply that is no balance, deposits of 60 and 100, 260 in all, 2 fan turns | `SharesWithinIncome`, `FanRunsItsTurns`, `FanStopsInTime` | no income, paid or made up by that reply, is shared twice, not even across a restart; the fan is never switched off early, and not late as long as no command is lost and the program keeps running |
| `ac_misread` | one reply that is no balance, nothing paid | `OwnShareKept` **violated** | a reply that cannot be read becomes the baseline, and the robot gives away what it owned before |
| `ac_fanstuck` | the plug may miss a command, 8 fan turns | `FanGoesOff` **violated** | a lost switch-off is not repeated |
| `demo` | both robots booting in any order, one with a modem that refuses, one whose set-up fails, one roaming; payments of 20 of which any may fail, 120 in all, 4 fan turns | `FanIsPaidFor`, `BooksBalance`, `EndsOffline`, `PaymentsTurnFanOn`, `FanGoesOff`, `RobotsGetGoing` | payments turn the fan on, it goes off again, every unit is accounted for, and nothing hangs or stays online |
| `wallet` | three transfers, RPC fails, slow chain, both modes | `NoNonceGap`, `SuccessesInOrder`, `ImplementsService`, `CallsReturn` | the wallet is a transfer service, although the nonce it uses may be stale |
| `rpc` | three calls, steps of 3, two pieces per response, any allocation fails, the context freed and built again | `BuffersHold`, `PostedRequestIsWhole`, `ResponseIsThisCalls`, `NoStaleAnswer`, `HealthyCallAnswers` | shared buffers never mix calls, and a failed allocation leaves no trace in later calls |
| `keypairs` | three slots, six keys, two faults | `IndexesUnique`, `KeysBound`, `CreateHeals`, `OthersKept` | two faults never give an index out twice; one fault anywhere binds no keypair to a foreign private key, and the next create repairs what is left over |
| `keypairs_powerloss` | the same with one fault | `OnlyNamedKeypairLost` **violated** | a power loss inside a delete loses another keypair |
| `networks` | three slots, two faults, one failed read | `NetworkIndexesUnique`, `ImplementsRegistry` | three files that write to one area behave as one registry |
| `t1` | blocks of 2 bytes, commands of 3, replies of 2 blocks, two bus faults per call, one retry of each kind, two sessions, two commands | `CommandsWhole`, `ImplementsLink`, `NoTruncatedReply`, `StaysInStep`, `EveryCallEnds` | commands are executed whole and at most once; the two ends agree again after every answered command; no sequence of refusals, waiting times and resets goes round for ever |
| `encodings` | bytes 0, 1, 127, 128, 255 in patterns of up to 2; payloads of 0, 1, 2, 33, 56, 127, 128, 255, 256 and 300 bytes | `ConversionsReadBack`, `RecordsReadBack`, `KeysAndAddressesRead`, `TransactionsDecode`, `CommandsAndRepliesWhole` | what is written is read back, what is cut, damaged or foreign is refused |

Bounds and why they are enough:

- *Line.*  Six bytes hold a query frame and one byte, or two poll responses:
  every overlap of two messages at a read.  The buffer of 9 (1024 in the code)
  has room for two whole windows, so the edge moves and the buffer is exhausted
  within a few reads; `ReadsFitBuffer` only depends on the distance to its end.
  Degrees bytes are all those a misaligned frame can show.
- *Interval.*  The policy is proved for every interval; `thermal` uses 5, longer
  than the debounce, `demo` 2, the shortest that differs from paying at every
  sample.
- *Amounts* are in units of 1000 (threshold 100).  Deposits of 60
  and 100 give readings below, at and above the threshold; 260 allow two
  share-outs with payments between and during them, and a third of what a misread
  reply makes up.  A misread reply gives 5, below every balance, or 900, above
  every balance; one of them in a behaviour is enough to start from a wrong
  baseline, to take one over and to find income that is none.  `demo` pays 20 and not the
  10 of the code to keep its state space small: five payments add up to the
  threshold and a sixth may come during the share-out.  The theorems cover all
  amounts, and the word size, which no amount of a run reaches.
- *Fan turns.*  8 in the code and in `ac_fanstuck`; `ac_faults`
  uses 2, so that a countdown is restarted while running and ends in between,
  `demo` 4.
- *Wallet.*  Three transfers: a pending one, one that replaces it, and one that
  comes after either outcome.  The timeouts are the code's.
- *RPC.*  Lengths that fit, that need one step and that need more (request and
  result), and pieces that exactly fill a step or not; three calls so that a
  failure in the first is followed by a growth in the second and a check in the
  third.
- *Stores.*  Three slots (5 in the code) give a first, a middle and a last
  record; six keys are enough that a fresh one is at hand in every state a
  property looks at; keys are interchangeable (`KeySymmetry`).  Two faults allow
  the failure of a write and of the write that repairs it.  `KeysBound`,
  `CreateHeals` and `OthersKept` are about states and calls after at most one:
  what two of them do is in section 7.  The stores never look into a network, so
  one network value is enough.
- *T=1.*  A command of 3 bytes in blocks of 2 is chained, and so is its reply.
  One retry of each kind (the code allows 10 repeats of a frame, 1 after a
  timeout, 2 of an R-NACK, 500 waiting-time extensions) is used up by two faults, after
  which the host gives up, resynchronises or resets.
  The bounds on faults and on extensions are per call, so that every call of a
  session meets them.
- *Encodings.*  Sizes are those at which a length takes another byte, of keys and
  their neighbours, and of RLP's own limit (55/56); bytes are those at which a
  sign, a zero or a short form matters.

`CHECK_DEADLOCK FALSE` stands where the program ends: the thread terminates, the
robot ends or crashes, the calls, commands or transfers of the instance are used
up.

## 5. Fairness

- `ThreadSpec`: weak fairness on the thread's own steps.  `read()`
  returns: the tty is set up with a timeout (`fibo_tty_SetRaw(fd, 512, 5)` of
  the vendor's library), the code takes an empty read for "not ready", and
  SIGINT interrupts a read because `sa_flags` is 0.  Sleeps end and transfers
  return.  Nothing
  forces the sensor to answer, the line to work or the signal to come.
- `RobotSpec`: weak fairness on the loop.  Every call in it returns (the HTTP
  client gives up after 30 seconds), every sleep ends.  A crash ends the loop;
  nobody has to restart it.
- `WalletSpec`: weak fairness on the wallet; on mining only when the instance
  says that the chain is not slow.
- `RpcSpec`: weak fairness on the steps of a call: `CURLOPT_TIMEOUT_MS` ends
  every request.  Nobody has to make the next call.
- `DemoSpec`: both programs run, the chain mines payments, and each robot's
  start goes on: every call to the modem returns and the modem is registered in
  the end.  Without the second assumption the loop that waits for the
  registration has no limit, and `RobotsGetGoing` would fail.
- `T1Spec`: weak fairness on the steps of a call: each read and write of the bus
  has a timeout.  That calls end is shown under the bound on faults: a bus that
  fails for ever keeps a call going for ever (section 7).

## 6. Proofs

`tlapm` proves the following for every value of the constants that satisfies the
modules' assumptions.

**PaymentPolicy** (in `Robots_proofs`, with the next three).  `PolicyTypeCorrect`,
`PolicyPaysForHeat`, `PolicyPaymentsSpaced`, from which those of the thread follow.
Assumptions: the interval is between 1 and 127 (it is kept in a `char`), degrees are bytes.  The properties
are about the history counters, the code decides with its own counters; the
inductive invariant `PolicyInv` ties them together: the countdown is the interval
minus the samples since the last payment, or 0 (`IntervalInv`); the debounce
counter never exceeds the run of hot samples and is positive while there is one
(`RunInv`); and in a longer run the counter is 1 only after it was at the limit,
when a payment was either made or not yet due (`DueInv`), which is what makes
the restart from 1 harmless.

**ThermalThread.**  `ThreadTypeCorrect`, `ThreadNoResponseMissed`,
`ThreadReadsFitBuffer`, `ThreadPaysForHeat`, `ThreadPaymentsSpaced`, for every
line, every amount of noise and every buffer of at least 9 bytes.  `WindowInv`
says that the left edge never stands behind the last place at which an incomplete
response can start and that there is room for another read.  What is sampled is
always a byte of the line (`BytesInv`, `FrameInv`) and no other step touches the
counters (`ThreadFollowsPolicy`), so that the theorems about payments hold for the
thread.

**ACRobot.**  `RobotTypeCorrect`, `RobotSharesWithinIncome`,
`RobotKeepsItsOwn`, `RobotFanRunsItsTurns`, `RobotFanStopsInTime`.  Assumption:
the robot never owns 2^32 units or more (`RobotAssumption`); a reply that is no
balance may give any 32-bit value, any number of times.  `RobotInv` adds to the
types
- `FoundInv`: what was shared and what is visible above the baseline is never
  more than the income and what was made up (`earned`), whatever reading failed
  and however often the program restarted; this is why 0 as the mark of a missing
  baseline is harmless;
- `TrustInv`: nothing is made up while every reply is the balance or a failure,
  which gives `RobotKeepsItsOwn`;
- `SentInv`: what each investor was sent is at most its percentage of the shared
  amount, with the current share-out counted from the step that makes it.

Overflow needs no assumption of its own: a share that wraps only gets smaller.
`CountdownInv` (countdown plus turns since switching on make `FanTurns` while
the countdown runs) proves the action property about the fan; with `PlugInv` (as
long as the plug obeys, the fan is on only while the countdown runs) it gives
`RobotFanStopsInTime`.

**RobotsDemo.**  `DemoFanIsPaidFor`, `DemoBooksBalance`, `DemoEndsOffline`.
`DemoInv` is `RobotInv` and: the fan is on, or about to be switched on, only
after the threshold was paid (`PaidInv`); balance and what was sent make up at
least the initial balance and the income (`WorthInv`: a transfer that reverts
moves nothing); and, by position in the loop, income is the sum of what was
shared, what is visible and what was absorbed (`AccountsInv`).

**EthWallet.**  `WalletTypeCorrect`, `WalletNoNonceGap`,
`WalletSuccessesInOrder`, `WalletImplementsService`, for any number of transfers
and all timeouts.  `WalletInv` says that at most one transaction is pending
and that its nonce is the number of mined ones, and that the nonce a call read
is never ahead of the chain: a stale nonce is refused or replaces, and opens no
gap (`TurnInv`, `SentInv`, `OnePending`).  The refinement is proved step by step.

**Web3Rpc.**  `RpcTypeCorrect`, `RpcBuffersHold`, `RpcPostsWholeRequests`,
`RpcResponsesDoNotMix`, `RpcNoStaleAnswer`, `RpcHealthyCallAnswers`, for all step
sizes, lengths, and numbers of pieces and calls.  A growth suffices
(`GrowthSuffices`) because sizes are whole steps, and a request is posted only
from a buffer it was printed into whole; `AnswerInv` adds which text each buffer
holds at each step (`TextInv`), and that a buffer that could not grow stays
empty until a later call makes it grow (`DownInv`).

**FlashArea, KeypairStore, NetworkStore.**  `FlashArea_proofs` has the lemmas
about one area, for records of any kind: `NumberedArea` says that what is listed
has different indexes and that at most one record lies behind; each write keeps
it, provided that a record that will be counted is distinct from the others
(`Behind`).  That a free index exists and that the least one is taken is a
pigeonhole argument and well-foundedness (`LeastFreeIndex`).  What is listed is also
described as a set, and what each write does to that set (`EntriesPut`,
`EntriesSetCount`, `WholeLower`, `EntriesRemove`, `EntriesCut`).

On them rest `StoreTypeCorrect` and `StoreIndexesUnique` for both areas of the
keypair store, for any limit and any number of failed writes and power losses:
`CallInv` says what the running call knows, that its new index is absent or that
the record behind the count may be counted again.  `StoreOthersKept`,
`StoreKeysBound` and `StoreCreateHeals` are about at most one fault.  They see
the areas as two sets, `Keypairs` and `Prikeys`, in which the record over an open
gap counts as stored, so that lowering a count and restoring it change nothing;
every step of a call then adds or takes one record, its own (`CallStepSets`).
`Bound(K, P, n, v)` says what two sets may look like after n faults and v vain
creates: equal indexes mean the same key, at most one private key is left over,
none if a create has just failed for nothing, and none at all without a fault.
`BoundInv` keeps `Bound` of what was stored when the call began and of the
private keys now, and says what the call has done since (`CreateSoFar`,
`DeleteSoFar`): from that every return and every power loss re-establishes
`Bound`.  That a private key is refused only when its index is taken, even by a
full store, is again a counting argument (`FullNamesAll`).

`NetworkStoreIndexesUnique` and `NetworkStoreImplementsRegistry` are about the
networks of three protocols.  The
refinement reads the registry's book from the records listed, or, while a delete
closes its gap, from those listed when it began (`View`).  `StoredInv` holds even
after a read of the flash failed; `ExactCall` says what the running call has made
of the area, as long as none did, and every action is shown to be a step of the
registry or a stutter (the lemmas `...Fits`).

**T1Protocol.**  `T1CommandsWhole`, `T1NoTruncatedReply`, `T1StaysInStep` and
`T1ImplementsLink`, for every retry limit, block size and length of command and
reply.  The inductive invariant `T1Inv` (theorem `T1Invariant`) is `misled \/ Inv`:
once an exchange has ended as a success it was not, which the code allows
(section 7), nothing is claimed.  Until then
- the host sends what its state says and awaits an answer only to what it sent
  last (`HostInv`);
- the element's last block says where it is (`ElementInv`), and a block on the
  wire is that block or asks for the one the element expects (`WireInv`);
- what was executed is each command once and whole (`ExecutedInv`);
- during a command, host and element are at one of a few relative positions: the
  block is new or a repetition, the reply begun, received or missed
  (`TransceiveInv`, `BlockInv`); during the other calls the session says what
  both ends agree on (`SessionInv`).

The properties follow from it in a few lines; what is long is that each answer,
in each position, leads to another of the positions.

**EncodedData.**  What the conversions promise is proved of every sequence of
bytes, not only of the patterns that grow in the run: hexadecimal texts in each
mode (`HexReadsBack`; `HexRefusesWrong` for a wrong character at any place, when
the buffer has room for the text), base64 (`Base64ReadsBack`), tag, length and
value with any continuation and cut at any place (`TlvReadsBack`), the bytes that
guard a count (`CountBytesGuard`), and the ASN.1 form of a signature, by both of
its readers (`SignatureReadsBack`).  `ConversionsAlwaysReadBack` is the invariant
of the run that follows from them; it needs of the state only that `data` are
bytes (`DataInv`).  Each of these conversions is given by a formula per place, so
a proof compares two sequences place by place (`SameSeq`, `Joined`, `Sliced`), and
where the code looks for the first of something (a digit that is not 0, a wrong
character) the least place exists because the natural numbers are well-founded
(`LeastOf`).  Lengths are below 2^16, the most that the two length bytes of the
longest form can say.

Records, commands and replies are lists of fields of any number.  What is written
is a concatenation, and `FlattenSeq` gives it as a sum of lengths and the place
at which each part stands (`LengthOfJoined`, `PartStands`); what reads it is a
recursive function over the fields.  Its value is proved by showing that a
function with the wanted values satisfies the recursive definition and that no
other does; uniqueness is the well-foundedness of < again, applied to the set of
places where two such functions differ.  From that:
- `RecordReadsBack`: any fields a record has room for are read back from wherever
  it stands in the area; `RecordsAlwaysReadBack` for the keypairs and networks of
  the run.
- `EveryCommandCarriesFields`: any list of fields that fits the buffer is in the
  command in order and whole, with the length the command announces, and a list
  that does not fit is not sent.  The three forms of a length (up to 127, 255 and
  65535) are told apart here, and the size that is compared with the buffer is
  shown to be the size that is written.
- `EveryReplyWhole`: the reply with all values a call asks for gives them; with
  another status word or one byte more it is refused, and so is every cut the run
  makes, because a getter never takes more than what is left.
- `CommandsAndRepliesAlwaysWhole` for the calls of the run, all of which are
  shown to be lists of this kind.

A raw transaction is a list of strings in RLP, so the same argument serves:
- `RlpReadsBack`: any list of strings whose encoding is shorter than 2^32 bytes
  is what the decoder finds, string by string up to the end of the stream, and
  the size that is computed before is the size that is written.  The forms of a
  head (a byte for itself, a length of up to 55, the length of a length) are told
  apart in `Announces` and `RlpItemRead`.
- `BigendAlwaysKeepsValue`: the big-endian form of an integer has its value and
  no leading zero, as 32 bits and as two halves of 64.
- `TransactionsAlwaysDecode`: the fields that the wallet APIs make of texts and
  numbers, the chain's guard, v and the signature stand in the bytes that are
  hashed and sent, in order and without leading zeros.  v is a number of 16 or 32
  bits (`VBitsAssumption`; 32 in the code), and `2 * chainId + 36` fits in it up
  to `MaxChainId` (`ChainFacts`, `VFacts`).  A payload has at most 2^31 - 1 bytes
  (`DataAssumption`), so that a list of nine fields stays below 2^32
  (`ListIsShort`): the code counts lengths in 32 bits.

Only model-checked:

- all liveness (`PaymentsTurnFanOn`, `FanGoesOff`, `RobotsGetGoing`,
  `CallsReturn`, `ExitEndsThread`, `EveryCallEnds`);
- `KeysAndAddressesRead`: that a damaged key or address is refused rests on the
  digest and on the checksum, whose power to tell inputs apart is a fact about a
  hash and a polynomial, not about this code; and the limbs of big numbers are
  defined by powers of 2 with a symbolic exponent, of which the provers know
  nothing;

## 7. Where the code and its documents disagree

Three disagreements have a run that shows them (`findings` of `PROJECT.json`): the
fan that is not switched off, the unreadable reply that becomes a balance, and the
keypair lost by a power failure.  Others were met while modelling.

*Robots*

- The sign byte of a frame is ignored (`fibocom_uart_temperature.c:384`), though
  the comment at line 364 describes it: 40 degrees below zero are hot.
- The driver's buffer is emptied once before a query (`:315`), so that a poll
  response that comes later than that shifts the frames: the fourth byte is then
  not the degrees.  `thermal` uses every byte a shifted frame
  can show.
- The result of converting the balance is ignored (`ac_robot.c:315`).  After a
  reply that is empty ("0x"), not hexadecimal or shorter than 32 bytes the value
  returned is in part or whole what the stack held, against "If any error
  occurs, it returns zero" (line 265).  A baseline that is too low, or a reading
  too high, makes old money income (`ac_misread`); `SharesWithinIncome` bounds by
  how much.
- A payment is 10000 units (`fibocom_uart_temperature.c:392`), the A/C robot
  reacts to 100000, which the comment at `ac_robot.c:535` calls 0.01 USDC: the
  fan needs ten payments, not one.
- Payments that arrive during a share-out become part of the new baseline
  (`ac_robot.c:585`) and are not shared; so are those mined before the first
  reading, and after a restart those mined meanwhile.  A fan that was running
  when the program went down stays on until the next income.
- `delta*50` and `delta*30` overflow 32 bits (`ac_robot.c:571`); only the low 32
  bits of the balance are read (`ac_robot.c:319`).
- `housekeeping_robot.c:545` passes the robot's address where a private key is
  due, and line 570 calls `BoatIotSdkInit` where `BoatIotSdkDeInit` is meant.
- The results of `ActivateNetwork` and of every modem call are ignored: a robot
  without a session works on offline for ever, and nothing opens the session
  again.  The loop that waits for the registration has no limit.  `//return -1`
  (`housekeeping_robot.c:538`, `ac_robot.c:688`) would skip the release.

*Wallet and RPC*

- A reverted transfer is BOAT_SUCCESS (`api_ethereum.c:699`): any receipt counts.
- `web3intf.c:567` and `651` free `cjson_string_ptr` uninitialised when a REST
  call fails (`RestCrash` of `ACRobot`).
- `curlport.c:121`: a piece of the response for which there is no memory is
  dropped and reported as written, so the response continues with a hole.
- `boatethereum.c:589`: an object or number where a string is due is a success
  with the content of the result buffer, which is that of an earlier call, or
  NULL after a failed growth.  `NoStaleAnswer` excepts it.
- `web3_init` frees what it could not allocate: when an early allocation fails,
  the pointers behind it are uninitialised (`web3intf.c:33` ff.).
- `BoatEthWalletInit` leaks the wallet when the keypair or the network is not
  found (`api_ethereum.c:54`-63).

*Stores*

- A keypair without a private key, which a power loss between
  `boatkeypair.c:1038` and 1045 leaves behind, can never be deleted: deleting
  the private key fails and line 1267 puts the keypair back.  A create whose
  private key could not be written leaves such a keypair too, because its
  clean-up is that delete.
- Two faults (a private key left behind, then a failed clean-up) leave a keypair
  listed with another's private key, against the comment "Prikey should bind
  with keypair" (`boat_keystore_soft.c:348`).
- `boat_keystore_soft.c:698` returns BOAT_SUCCESS after the move failed and the
  count was restored.
- `boatstorage.h:20`: the area of 717 bytes is too small by 7 for five keypairs
  with names of 64 characters.
- `network_ethereum.c:917`: when wiping the last record fails, the count is put
  back at the offset of that record instead of 0; the branch for the other
  records (line 980) does it right.  The other two files repeat it.
- A failed read or allocation while records are moved returns with the count
  lowered, and a count that cannot be read is taken for 0, so that an index is
  given out twice.  `blind` keeps both out of the properties.
- The one-time network (index 0) is replaced and deleted by any protocol, and
  the number that `GetNetworkList` states counts the networks of all of them, of
  which only its own are in the list (`network_ethereum.c:236`, 293): who walks
  the stated number of entries, as the freeing of a list does (351), reads entries
  that nobody filled.
- `boatstorage.c` does not check `fclose`, where a buffered write error shows.
- An empty keypair name breaks its record (`boatkeypair.c:758`, against the
  comment at 662).

*Secure element*

- When the counters of the recovery are used up, `RecoverySteps` goes idle and
  the call returns success with a truncated or empty reply, and an `RSync` may
  "succeed" without having resynchronised.
- The kind of an S-response is not compared with that of the request: after a
  first block was lost behind an ATR, `Transceive` returns success with the ATR
  as the reply (`phNxpEseProto7816_3.c:855`, 1280).  A lost chip reset is
  reported as a success.  These are the exchanges that `misled` marks.
- Without a bound on the faults of the bus a call can go on for ever.
- `boat_send_apdu` reads `res[reslen-1]` with `reslen` 0 (`se_process.c:67`);
  the status word of the select is not looked at; a reply longer than its buffer
  is noticed after it was copied; `RSync` and opening are not under the mutex of
  `smCom`.
- All keypairs share one key object of the element, and
  `if (i > ECCurveListLen)` (`boat_keystore_se.c`) is never true.

*Encodings and raw transactions*

- `UtilityNative2PKCS`, which nothing calls, writes the fields of an "EC PRIVATE
  KEY" between the lines of a "PRIVATE KEY" (`boatutility.c:1446`-1456), which its
  own reader refuses, and its identifier of secp256r1 is not that of the curve
  (line 1382).
- A document without a public key imports one of zeros, and the curve it names
  is not compared with that of the request.
- `ECDSASign` misaligns the numbers of a DER signature that are shorter than 32
  bytes (`se05x_APDU_impl.c:840`-868), and copies them although the status is
  not OK; writing ASN.1 looks at the sign of r only and relies on a low s.
- Values of more than 32 bytes keep their leading 32; `api_ethereum.c:560` has
  `&&` where `||` is meant.  The index byte of a private key record is not
  covered by its digest.
- A nonce of 0 given explicitly is encoded as 0x00 (`api_ethereum.c:340`),
  against 0x80 of `boatethereum.h:61`.  `v = chain_id*2+35` overflows for chain
  ids above (2^32-36)/2, which the property leaves out.  The result of appending the gas limit is not checked
  (`boatethereum.c:133`).
- Quorum: `RlpEncode` after every field leaks streams; a private send that is
  repeated after a failure sends the hash as payload; the recipients are fixed
  at `boatquorum.c:523` and `privatefor` is not terminated; an unexpected answer
  to `fillTransaction` is a success with a stale buffer; failed allocations are
  only logged.
- PlatON: length and prefix of a recipient are not checked, upper case is
  refused, and the first "1" is taken for the separator.

## 8. What is not modelled

- Generating keys, hashing, signing, encrypting: values whose correctness no
  model of states says anything about.  Keys are told apart, nothing else.
- The RPC calls of PlatON's and Quorum's wallets, which repeat those of the
  Ethereum wallet; creating and deleting the wallet object; plain getters.
- `osal`: each function forwards to one call of the C library, and the modelled
  parts do not use its queues, semaphores and timers.
- The I2C driver and the mutex of `smCom`.
- JSON helpers, `itoa`, the string length check.  What cJSON makes of a text is
  external.
- The buffer that the caller of `call_erc20_balanceOf` brings along for parsing
  (`ac_robot.c:300`) grows like `result` and is not modelled again.
- The generated contract functions that nobody calls; `eth2c.py` and its
  siblings run at build time.
- The chain beyond one account's nonces, balances and receipts: no
  reorganisation, no other sender's effect except deposits.
- The HTTP/2 client (not built with `RPC_USE_LIBCURL`) and vendored code: cJSON,
  curl, nghttp2, protobuf, crypto.

## 9. Plan

Done, most important behaviour first: the demo's promises (`PaymentPolicy`,
`ThermalThread`, `ACRobot`, `RobotBoot`, `RobotsDemo`), the wallet and its
service, the RPC buffers, the stores, the secure element's link, the encodings,
and the theorems of section 6.

What could follow:

1. That private keys, key documents and addresses are read back (without the
   refusals, which are about the digest and the checksum): a key file is a list of
   records, a document a nest of tags and lengths.
2. Two robots of a kind on one account, where the nonce of one wallet moves
   under the other.
