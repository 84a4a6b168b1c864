# A TLA+ model of NeuralCrypto vs. ECDH

The program simulates, inside ns-3, two nodes that negotiate a secret key over UDP,
either by neural cryptography (two tree parity machines that learn from each other)
or by ECDH, and afterwards exchange an AES-encrypted `MSG`. This directory models the
program's own code (`src/nc-vs-ecdh`, the two scripts that read its files), as much of ns-3 as
the program's packets pass through, and the test runner of ns-3.

## Inventory

| Component | State | Operations | Correct when |
|---|---|---|---|
| `NC.cc` tree parity machine | weights, last input, signs, output, round counter, secret | `CalculateOutput`, `UpdateWeights` with one of three rules, `EnforceBounds`, `GenerateKey` | weights stay in -L..L, common updates never move two machines apart, equal machines stay equal |
| `Client.cc`, `Server.cc`, protocol `nc` | `m_nc`, scheduled events | `UpdateKey`, `UpdateNC` (BEGIN, UPDATE, FINAL), `SendEncryptedMessage`, `DecryptMSG` | both sides count the same updates, keys are taken from the same inputs, one FINAL, the negotiation never stops unnoticed |
| `Client.cc`, `Server.cc`, protocol `ecdh` | `m_ecdh`, scheduled events | `UpdateKey`, `UpdateECDH`, `SendEncryptedMessage`, `DecryptMSG` | both sides hold the same secret, and still hold it when the `MSG` is sent |
| `ECDH.cc` | key pair, secret | `GenerateKeyPair`, `GenerateSecret` | secrets agree exactly for matching pairs |
| `EncryptDecrypt.cc` | none | `EncryptMessage`, `DecryptMessage` | each way decryption can end is handled |
| `SenderApplication.cc` and UDP of ns-3 | ephemeral port counter, end points | `SendPacket` | what is traced as sent is sent |
| `ReceiverApplication.cc` | socket | `Receive` | hands on each packet once and in order |
| `Logger.cc` | rows of the key file and of the packet trace | `LogKey`, `TraceTransmitPacket`, `TraceReceivePacket` | a row for each key and each packet |
| `extractKeyExchangeSuccess.py` | counters | pairing of rows | the success rate is that of the negotiations |
| `packetDataToBoxplot.py` | times, packet counts | filter, pairing of rows | a box is made of negotiations and their packets |
| `Initialize.cc`, `main.cc`, `Utils.cc` | options | construction | `maxRounds` limits the negotiations |
| ns-3 link | transmit queue, transmitter, channel | `Send`, `TransmitComplete`, `Receive` | FIFO, fixed delay, losses only at a full queue |
| ns-3 simulator | event queue | `Schedule`, `Run`, `Stop` | events run in time order, simultaneous ones as scheduled, all of them |
| ns-3 `test.py` | two job queues, threads, an interrupt flag | dispatch, `worker_thread.run`, summary | no test lost or counted twice, the summary is true, it returns |

The client starts everything: `UpdateKey` runs every `refreshTime` seconds, replaces the
client's object and sends BEGIN. The server's handlers run when packets arrive and answer
with packets. No packet names the negotiation it belongs to, nothing is retransmitted, and
no event or packet is cancelled by a refresh. That is where the hard behaviour is: packets
and timers of one negotiation that meet the objects of the next, lost packets, and two state
machines that must apply the same updates although their packets cross an asynchronous link.
The two scripts read the files after the run and pair rows by position, so every overlap and
loss shows up there a second time. `test.py` of ns-3 is the one piece of real thread
concurrency in the repository's own programs.

`PROJECT.json` lists the components with what is left out, and every hazard at its line.

## Modules

- **TPM**: `NC.cc` as operators on a record. A synapse is `<<i, j>>` for the flat index
  `i + j * m_n`. The SHA-256 of the weights is represented by the weights, the empty
  `SecByteBlock` by `NoKey`. Random weights and inputs are chosen by `\E`.
- **Aes**: a ciphertext is the key it was made with; CBC authenticates nothing, so a wrong key
  may be accepted with a text that is garbage. Encrypting with the empty key throws, and the
  handler still sends what its stream holds (`MSG,,` or nothing: C++14 leaves the order of
  evaluation open). The logger reads `strs[1]` of a one-element vector when it traces a
  packet without data, on both sides: undefined behaviour, modelled as a choice between going
  on and ending the run (`running`).
- **NcNegotiation** (EXTENDS TPM, instantiates Aes): the `nc` protocol. `client` and `server`
  are `m_nc`, `NULL` before the first negotiation; `toServer` and `toClient` the packets in
  flight; `timers` the `SendEncryptedMessage` events scheduled. One action per branch of the two
  `UpdateNC`, one for `UpdateKey` with `InitNC`, one for each of the other handlers; `Lose`
  for a full queue or exhausted ports; `lost` is a history variable. `Overlap` says whether
  a refresh may come before the previous negotiation has ended.
- **MutualLearning** (EXTENDS TPM): the abstract specification, with no packets: both machines
  process an input, or a side takes its key. **NcImplementsMutual** maps NcNegotiation to it:
  a side's abstract machine is its machine with the update its partner has already made.
- **EcdhNegotiation** (EXTENDS Aes, Logger): the `ecdh` protocol in simulated time. Every packet
  and timer carries the time left (`wait`); `Tick` is the simulator moving on. Key pairs are
  names drawn from those not in use; a secret is the set of the two pairs. Delay, refresh
  period and whether the network loses packets (`lossy`) are chosen in `Init`. The unit of
  time is half a second (`MsgDelay = 2`). Events due at the same time run in any order, which
  allows more than the simulator's order does.
- **Logger**: both files as their scripts will read them, folded row by row: the row still
  without a partner, and what comes of the last pair. Each handler of EcdhNegotiation that
  calls `LogKey` or sends or receives a packet writes its rows; `newer` stands for the uid.
- **SenderPorts**: `SendPacket` over the sockets and the port search of ns-3.
- **EventQueue**: `DefaultSimulatorImpl`'s queue with its order of simultaneous events. The map
  of `MapScheduler`, keyed by time and uid, is a sequence: an event is inserted after all that
  are due no later.
- **PacketPath** (EXTENDS SenderPorts, EventQueue): a packet's way from `SendPacket` to
  `ReceiverApplication::Receive`, through ports, transmit queue, transmitter, channel and the
  extra event of `Ipv4EndPoint::ForwardUp`. **LossyFifo** is the abstract link that the
  negotiation modules assume, with the packets on their way as a set of numbers and the least
  delivered first; PacketPath implements it (`ImplementsLossyFifo`).
- **NcOverPorts** (EXTENDS NcNegotiation, Logger): the composition. Each node's packets arrive
  until its ports are used up, and no more; the key file of `nc` runs.
- **TestRunner**: `run_tests` and `worker_thread.run` of `src/ns-3.19/test.py`, a step for each
  queue operation; test processes may pass, fail, crash or never end, `Popen` may raise, SIGINT
  may come at any time (the handler really runs between two steps of the main thread only,
  so this allows a little more).
- **TPMProofs**, **MutualLearningProofs**, **NcNegotiationProofs**, **NcRefinementProofs**,
  **NcOverPortsProofs**, **EcdhNegotiationProofs**, **PacketPathProofs**,
  **TestRunnerProofs**: lemmas and theorems.

Definitions under the heading "Seeded fault" are variants of the definition that follows them;
no action uses them. They exist to see that a property notices when the code is wrong.

## Runs

| Run | Question | Bounds |
|---|---|---|
| `nc_settled` | refreshes after the end of the previous negotiation, with loss; refinement of MutualLearning | K=2, N=1, L=1, threshold 2 |
| `nc_live` | the same without loss, liveness | same |
| `nc_overlap` | refreshes at any time, with loss | K=N=L=1, threshold 2, at most 2 packets and timers when a refresh comes |
| `mutual_learning` | learning dynamics; the program's rule, and a step of each of the other two | K=2, N=2, L=1, threshold 2 |
| `ecdh` | delays 0.5, 1 and 2 s, refresh periods 1.5 to 5.5 s, reliable and lossy networks; safety, liveness, both files and both scripts | 8 key pair names |
| `packet_path` | ports, transmit queue, channel and event queue; refinement of LossyFifo | 2 hosts, 3 ports, 4 packets each, queue of 1, transmission 0 or 1, delay 0 or 2, stop at 3 or never |
| `nc_ports` | `nc` runs that exhaust a node's ports at any packet of the protocol | K=N=L=1, threshold 2, 1 to 6 ports or plenty for each node |
| `test_runner` | the threads of `test.py` | 3 tests, 2 workers |

Why this is enough: two hidden neurons are needed for machines that agree in the output and
disagree in a sign (the repulsive steps); L=1 already lets every clamp and a field of 0 (N=2)
happen; a threshold of 2 gives both sides a turn to send FINAL (thresholds 1, 3 and 4 were
tried as well). Reached in `nc_settled`: keys that differ, a side without a key after a loss,
and a FINAL and a MSG in the same queue. The ECDH periods lie on both sides of the thresholds
the properties name (2 delays; 2, 3 and 4 delays + 1 s); with a delay above the refresh period
several negotiations are in flight at once. In `nc_overlap` two packets are the least for two
negotiations to be in flight together. In `packet_path` three ports for four packets make the
search go round and fail, and a queue of one is full while one packet is in transmission. In
`nc_ports` six ports are more than one negotiation with its MSG takes on either side, so they
end in the first and in the second. With two workers and three tests a worker gets a second job
while the other runs its first, and an interrupt finds all kinds of jobs.

Deadlock is checked in `nc_settled`, `nc_live`, `nc_ports` and `mutual_learning`; elsewhere the
model may stop, at its bound (`MaxPackets`, `MaxLoad` with a lost answer), when `running` is
false, when the simulation is stopped, or because `run_tests` has returned.

What the passing runs show, besides types:

- *One update per input on each side.* `RoundsInLockstep` and the refinement say that the
  protocol of OwnOutput and LastOwnOutput makes both sides count and make the same updates.
  So synchronised machines stay so (`SyncIsKept`) and keys agree exactly if the machines
  did (`KeysAgreeIffInSync`): `GenerateKey` on FINAL comes after the last update.
- *End of a negotiation.* At most one FINAL (`FinalOnce`), at the threshold (`KeyAtThreshold`;
  BEGIN is answered without testing it, so a threshold of 1 can be passed by one), never a stop
  without a loss (`NeverStalls`), and a MSG that reaches the client (`SyncIsConfirmed`).
  `MsgUnderCurrentKey` and `KeyTooShortMeansLoss` of `nc` runs are about settled negotiations and
  do not see a refresh in the second before the MSG; `MsgUnderCurrentKey` of `ecdh` and the run
  `ecdh_short_key` do.
- *Overlap.* Whatever is in flight, no handler dereferences NULL, and no handler answers one
  packet or timer with two (`OnlyRefreshAddsPackets`, a count for each step).
- *Learning.* `AttractiveSteps` for the three rules of `NC.cc`; keys taken after the same inputs.
- *ECDH.* Secrets agree if an answer is back before the next refresh, and never if it is not;
  the MSG needs one second more (`MsgUnderCurrentKey`), the reply two more delays (`ReplyIsReadable`).
- *The files.* The success script is right if nothing is lost and answers are in time; it never
  counts a false success otherwise, and with loss no two rows of one node as a success. The
  plotting script times negotiations if the second before the MSG fits into the period too, and
  counts their packets only if the server's reply does (`PlotCountsTwoPackets`): uids are
  shared by both nodes. A reliable run that stops at the second or a later multiple of
  `refreshTime` leaves both files without a row that lacks its partner (`FilesEndInPairs`):
  `Simulator::Stop` (`main.cc:79`) then runs before the `UpdateKey` due at the same time. One that stops
  at the first multiple does not: `Client::Setup` scheduled that `UpdateKey` (`Client.cc:72`) before
  `main` scheduled Stop, so it runs first, and its BEGIN row makes the plotting script end in an IndexError.
- *The link.* Packets arrive in order and none is lost while fewer than a whole queue and one more are
  on their way: what NcNegotiation and EcdhNegotiation assume. What the device has taken is
  delivered unless the simulation stops. Ports are distinct and the search misses none.
- *Ports that run out.* This kind of loss can leave one side with a key and the other without,
  and hides it: no MSG meets a server without a key (`MsgMeetsKey`) and no rows of two
  negotiations are paired (`KeyRowsArePairs`), as they are with other losses.
- *The test runner.* Each test is in one place (`EachTestInOnePlace`), the summary is true,
  interrupts included, and `run_tests` returns unless a test never ends or `Popen` raises in a
  worker: then the main thread waits for ever for a job that died with its thread.

Runs that end in a violation, each a place where the code does something else than a
comment or document says (`findings` in `PROJECT.json` quotes the line):

| Run | Statement refuted |
|---|---|
| `nc_overlap_final` | `Client.cc:325`: no FINAL for a client that has sent one |
| `ecdh_short_key` | `Client.cc:412`: no key means that the final packet was lost |
| `ecdh_max_rounds` | `main.cc:27`: `maxRounds` limits the negotiations |
| `sender_ports_trace` | `SenderApplication.cc:5`: AppTx is traced when a packet is sent |

More such differences can be read off the models or the code and have no run: after a refresh in
mid-negotiation a FINAL of the old negotiation makes a new machine take its key below the threshold
(`Dataframe Format.txt:16`), the first `MSG` goes from the client to the server and not the
other way (`Dataframe Format.txt:18`), when answers come after the next refresh, or packets
are lost, the script's pairs are not exchanges (`extractKeyExchangeSuccess.py:24`), and the
entry for a valgrind error that the comment at `test.py:1690` announces after a PASS is never
written, because the test of `returncode == 2` (`test.py:1723`) stands in the branch for return codes
other than 0, 1 and 2.

## Fairness

`Simulator::Run` executes every event it holds, in time order, until the stop time. For
NcNegotiation (`Delivery`) that means each side's handlers run when a packet is there, and
timers fire: weak fairness of the receiving actions of each side and of `SendEncryptedMessage`.
There is none for `UpdateKey` or `Lose`. NcOverPorts asks the same, and that a packet without
a port is dropped in its turn (`NoPort`). In EcdhNegotiation time is explicit, and weak fairness of
`Next` says that the simulation goes on; PacketPath asks it of the events and of time, not of the
applications that send. Liveness of the negotiations assumes no loss (`Lossy = FALSE`, `~lossy`)
or ports that do not run out, since nothing is retransmitted. In TestRunner the threads are scheduled fairly (the main
thread and each worker); nothing is assumed of the test processes, so that they end is a
premise of `ReturnsUnlessWorkerDies`.

## Proofs

All for every value of the constants: sizes and rule of the machines and thresholds, delays and periods,
ports, packets and queue limits, tests and workers. Every invariant and action property the
passing runs check is a theorem. Those about the end of an `nc` negotiation assume
`Overlap = FALSE`: each ends before the next refresh. Without that they are false, as old packets meet new machines.

- `TPMProofs`: each operator of TPM returns what its type says, from `TpmAssumption`; the
  clamp keeps a value in -L..L and does not increase the distance of two values
  (`ClampNonExpansive`).
- `Attracted` (`Spec => []AttractiveSteps` of MutualLearning): each rule moves a weight by -1, 0
  or 1 before the clamp, in a direction that input and output alone decide (`MovedByDirection`);
  so machines that agree in output move a common neuron's weights alike, and the clamp
  keeps the distance from growing (`ClampedMoves`). All it needs of the state is that the weights
  are within their bounds: `MutualTypeCorrect`, inductive with `Below`, that a pair without a
  key has not reached the threshold by an exchange.
- `TypeCorrect` (`Spec => []TypeOK`): TypeOK is inductive, but only together with
  `NoNullDereference`: `SendEncryptedMessage` reads `client.secret` without a test, and
  what it reads is a key or `NoKey` because a timer implies that there is a client. The inductive step has one case per action.
- `NullSafety` (`Spec => []NoNullDereference`): with TypeOK. The server can lack a machine only
  while nothing but BEGIN packets has ever been sent to it; every packet and timer of the
  other kinds has a BEGIN that the server has read as its cause.
- `Lockstep` (`RoundsInLockstep`): the invariant `LockstepInv` strengthens RoundsInLockstep by:
  at most one NC packet travels, and a BEGIN or UPDATE to the server or any NC packet to the
  client is alone, with no MSG behind it and no timer running, so only a FINAL of the client
  can have a MSG behind it (`OnePacket`); and its `tau` is the output its sender now has for
  the input in it (`PacketOutput`). Then, when the receiver applies `lastTau` and `tau`, it
  makes an update exactly when the sender has made it or will make it, as both compare the
  same pair of outputs.
- `MessagesUnderCurrentKey`, `OneFinal`, `NoStall`, `NoKeyMeansLoss`: `KeyInv` adds to LockstepInv
  that neither side has a key while BEGIN or UPDATE travels and the sender of FINAL has one
  (`KeysComeWithFinal`), and that the one packet is first in its queue until it is lost or both
  sides have their key (`Carried`). `NeverStalls` alone is not inductive: a MSG in front of a
  packet would have to be excluded.
- `KeysAtThreshold`, `KeysTellSync`: while a packet travels its sender is below the threshold
  (`BelowUntilFinal`), by one step of the lockstep the receiver of FINAL is at the same count,
  although it does not test it. `KeysTellSynchrony` says the same of MutualLearning: the weights
  do not change between the two times a key is taken.
- `PacketsDoNotMultiply` (`OnlyRefreshAddsPackets`), with overlapping negotiations as well: each
  handler removes the first packet or timer of a queue and adds at most one (`AnswerCounts`,
  about the number of elements of a queue that satisfy a condition).
- `NcRefinementProofs` (`Implements`, `SyncKept`): every step of NcNegotiation is a step of
  MutualLearning or leaves the abstract pair alone. The one fact needed besides KeyInv is that
  the sender of UPDATE still has the output for the input it has sent (`SenderComputed`); then
  a packet read is an `Exchange` on both abstract machines at once (`BothProcess`), FINAL is
  `TakeKey`, BEGIN is `Begin`, a refresh or a loss is `Abandon`. That sync is kept follows from
  the refinement: neither `Exchange` nor `TakeKey` separates equal weights. `PairAssumption` says
  that `NULL`, the abstract `None`, is not a pair.
- `NcOverPortsProofs`: every step with ports is a step of NcNegotiation (`PortsAreLosses`), so its
  invariants carry over; with `RowsWait` (a row waits for its partner only while the FINAL of its negotiation
  travels, or is lost and the ports of the host that wrote it are used up) and `KeyOrNoPort`
  they give `RowsArePairs` and `MsgsMeetKeys`.
- `PacketPathProofs`, ports (`DistinctPorts`, `SilentAfterLastPort`): for every range of ports,
  ns-3's 16384 included. The loop looks at every port of the range (`ProbesCoverPorts`), so it
  fails only when all are used, and distinct ports cannot be more than the range has (`UsedPorts`).
- `PacketPathProofs`, path (`PathTypeCorrect`, `NothingIsLeftBehind`, `ImplementsFifo`): first the
  event queue, that `Schedule` keeps it sorted and adds one event behind all that are due no later
  (`ScheduleKeeps`, `ScheduleAdds`). `PathInv` then has the types and that a queued packet
  waits for a busy transmitter, and that for a scheduled `TransmitComplete`. `OrderInv` is why
  nothing overtakes: arrivals and `ForwardUp` events are in the order of the packets and every
  `ForwardUp` precedes every later arrival (`Ordered`); a `ForwardUp` is due at once
  (`Prompt`); nothing arrives later than the packet in transmission will (`OneEnd`), so that the
  next, scheduled with the same delay, comes behind it; what is queued has higher
  numbers than what travels (`Behind`). Three kinds of steps are steps of LossyFifo: a `Transmit`
  accepts or drops, `HandOn` delivers the least number; the others leave the abstract link alone.
  When a packet is dropped, the one in transmission (`Underway`) and a full queue are on their way.
- `EcdhNegotiationProofs`: all twelve invariants of the `ecdh` run, as
  `Spec /\ []UnusedPair => []P`. `UnusedPair` says that `GenerateKeyPair` finds a pair that is not
  in use: the model draws fresh names, the code draws random 256-bit keys. A finite set of names
  may run out when there is no bound on delay over period, and then the model has no step; with
  infinitely many there always is one (`InfinitelyManyPairs`: queues and objects hold finitely many),
  and the twelve hold of `Spec` alone (`PairsNeverRunOut`).
  The argument has five layers. `TypeInv`: queues are in the order of arrival, and whatever travels
  has passed through the objects it needs. `NamesInv`: no public key is in flight twice, so a
  FINAL answers one BEGIN only, and rows with equal keys are of two nodes. `OnTime`: a packet of the
  client's present negotiation is exactly where the time since the last `UpdateKey` says. Then, if
  two delays do not fit into the period, a FINAL always meets a newer pair (`SlowInv`); if
  they do, all ECDH packets are of the present negotiation (`FastInv`); and if the second before
  the MSG fits (`MsgInv`), and the way of the MSG and of its reply (`ReplyInv`), those packets
  too are where the age says, with the key of now. The rows of both files that have no
  partner yet are part of these invariants: that is how the scripts' results are
  proved for runs of any length. `FilesAreWhole` also needs that the first BEGIN, unless it is
  lost, is on its way until the server has a key pair (`FirstBegin`).
- `TestRunnerProofs` (`OnePlaceEach`, `TrueSummary`): `PlaceInv`, that the queues and the workers
  hold different tests, all dispatched, and that a job says what it can at its place; `CountInv`,
  that the counters are the numbers of the tests no queue or worker holds any more, by what became of
  them; `EndInv`, that `run_tests` does not return before all have been received and each thread
  has met its break job.

Only model-checked: the liveness properties (`SyncIsConfirmed`, `ConfirmedOrExhausted`,
`AgreeAgainAndAgain`, `DrainsUnlessStopped`, `ReturnsUnlessWorkerDies`), which are out of the
prover's reach, and the four violations. `NothingIsLeftBehind` is the safety part of
`DrainsUnlessStopped`.

## Not modelled

CryptoPP (keys and ciphertexts are abstract), Eigen, the parsing and printing of packets, the
packet trace of `nc` runs, the format of the rows (times with six significant digits), drawing, IPv6 addressing,
fragmentation (no packet exceeds a frame with the program's sizes), `StopApplication` (it never
runs: `Simulator::Stop` is scheduled first for the same time), options and the XML report of
`test.py`. How likely synchronisation is within the threshold is a matter of probability, which TLA+ does not express.

The rest of ns-3 is a third-party simulator kept in the repository: models of networks the
program never builds (lte, wifi, dsr, ...), the Python bindings generated for them, the
visualizer and the build system. They are nearly all of the repository's half million lines and none of
them runs when the program runs, so the share of the repository the models cover is small
although they cover nearly all of the program's own code.

## Plan

1. (done) TPM, Aes, NcNegotiation, MutualLearning and the refinement, EcdhNegotiation, SenderPorts.
2. (done) The link and the event queue (PacketPath, EventQueue, LossyFifo); both files and
   scripts (Logger); negotiations over ports that run out (NcOverPorts); the test runner.
3. (done) The proofs listed above: of every safety property, and both refinements.
4. Left: the packet trace of `nc` runs; the choice of tests in `test.py`.
