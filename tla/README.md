# A TLA+ model of the ReUp distributed key-value database

This directory holds a specification of the database in `src/`: TLA+ modules
translated from its code, TLC configurations that check them on small instances,
and theorems about them checked by the TLA+ proof system. `PROJECT.json` lists
the runs, the theorems, the hazards, and for every definition the source lines
it stands for.

## 1. The system

A node runs one `Participant` (`layer1/participant.cpp`). It keeps a log and a
map (`layer2`), and sends and receives text messages over TCP (`layer3`). A
client (`main.cpp` without arguments) sends a command to port 8001 and listens
on port 8010 for the answer. The node on port 8001 starts as LEADER, the others
as FOLLOWER.

### Inventory

**Logger and KVDB** (`layer2/logger.cpp`, `layer2/KVDB.cpp`).
*State*: the vector of entries, the position counter `posi` kept beside it, the
map, and `delqueue`. *Operations*: `writeLog`, `commitLog`, `rollbackLog`, and
the readers `getNewLogIndex`, `getState`, `getLog`. *Called by* `performComm` of
the Participant only. *Hard*: `posi` and the vector move separately; the old
values a rollback needs are taken by value and therefore always empty; a DEL
erases key by key and can stop in the middle; no read of the vector is checked.
*Correct when*: `posi` stays inside the vector, the map is what the committed
entries make it, and an entry that is covered by another does not change.

**Two-phase replication** (`performComm`: `[CLIENT]`, `[PRE]`, `[COM]`, `[ROLL]`
and their replies). *State*: `DataState`, `Client`, four acknowledgement
counters. The LEADER writes the entry and sends PRE; when `memberNum/2+1`
followers have acknowledged it sends COM; when as many followers have committed,
it commits itself and answers the client; when as many have refused, it rolls
everybody back. *Hard*: messages carry neither position nor round, the counters
are not tied to an entry, and a second client's command interleaves with the
first. *Correct when*: what a client was told is what the replicas hold, nothing
is committed before it is prepared, a command is answered.

**Election** (`Timer`, `timeOut`, `voteAll`, `[VOTE]`, `[VOTERE]`). *State*:
`round`, `pstate`, `voteNum`, `LEA`, the semaphore `psem[4]`. *Hard*: a node does
not note whom it voted for, votes may arrive late, the round lives in memory only.
`Timer` writes `pstate` and `round` while `performComm` is between a test of them
and what it does then. *Correct when*: who becomes LEADER has a majority for the
round of the votes it has counted, a vote binds its sender, no message takes a node
behind the round it was compared with.

**Heartbeats and recovery** (`heartAll`, the sender thread, `[HEART]`,
`[HEARTRE]`). A follower whose log differs from the LEADER's turns INVALID and
answers with its position; the LEADER sends the entry at that position.
*Hard*: answers are stale when they arrive, PRE and recovery race, `getLog` is
called with a position the other node chose. *Correct when*: recovery never
undoes or duplicates what is committed, and no read leaves the log.

**Queues and threads** of the Participant: `cmdQueue`, `comQueue`,
`msgSendQueue`, filled and emptied by different threads under semaphores, the
queues themselves without a lock. **Receive pipeline** (`RUSocket`, `TCPServer`):
one thread per connection, three mutexes, two semaphores, up to five buffers
between `recv` and `performComm`. *Correct when*: every message is delivered
once, no thread waits forever, the client count is right.
**TCPClient**: one connection per message; on an error the message is dropped.

**Parser** (`parser.cc`): the text of messages, built by concatenation and read by
searching for tags. *Hard*: a text is read out of an array that still holds the end of
an earlier one; separators occur in words. *Correct when*: what a node reads is what
was typed and sent, and all replicas read the same. **Client** (`main.cpp` without
arguments): for each line it sets up its server again, starts a thread that accepts
answers and one that prints them, and sends the command. *Correct when*: it goes on
after each line. **Configuration**: reads the addresses once. **Coordinator**,
**ossSocket**, the **earlier logger** (`logger.cc`), `preTimer`, `comTimer` and
`str2Log` are present in the repository and take no part in the running program.

The code at this commit does not compile: `participant.h:19` declares `succNum`
and `failNum` where `participant.cpp` uses `succNumP`, `failNumP`, `succNumC`,
`failNumC`. The model follows `participant.cpp`.

## 2. The modules

| module | what it is | code |
|---|---|---|
| `LogOps` | the operations of Logger and KVDB on one replica's state | `layer2/logger.cpp`, `layer2/KVDB.cpp`, `include/logger.h` |
| `Logger` | one Logger under any sequence of calls, with history variables | same |
| `Participant` | the cluster: election, two phases, recovery, clients, faults | `layer1/participant.cpp`, `layer3` by its effect, `main.cpp` |
| `KVStore` | what the database promises: one map, one command at a time | (abstract) |
| `Replication` | the properties of the cluster, the refinement, the fairness | (properties) |
| `Pipeline` | the receiving side of one node, thread by thread | `layer3/TCPServer.cpp`, `layer3/RUSocket.cpp`, `PCommandParser` of `layer1/participant.cpp` |
| `Channel` | what the receiving side promises: each text handed over once | (abstract) |
| `Codec` | the texts: built, received, parsed, forwarded, prepared, recovered | `parser.cc`, the texts of `layer1/participant.cpp`, `Task` of `layer3/TCPServer.cpp` |
| `Terminal` | the client process and its threads | `main.cpp`, `setup` and `accepted` of `layer3/TCPServer.cpp` |
| `MCReplication`, `MCLogger`, `MCPipeline`, `MCCodec` | workloads, inputs and symmetry for TLC | |
| `LogOps_proofs`, `Logger_proofs` | lemmas about the log's operations; theorems about one Logger | |
| `Participant_proofs`, `Election_proofs` | types, positions, the network and its queues, the answers; rounds, votes and majorities | |
| `Failover_proofs` | the two phases through timeouts, lost messages and crashes | |
| `Faults_proofs` | the maps through lost and overtaken messages, a crash and a restart | |
| `Answers_proofs` | the same with SETs only, in any order; the refinement of `KVStore` | |
| `Pipeline_proofs` | the receiving side and the refinement of `Channel` | |

`Participant` uses `LogOps`; `Replication` extends `Participant` and maps it to
`KVStore`; `Pipeline` is mapped to `Channel`, which is how `Participant` sees the
receiving side (a text that has arrived is handled once, in any order between
connections); `Codec` says what is left of a message on its way through one such
channel. The parts are composed by these abstractions, not by one large module.

### How `Participant` corresponds to the code

* A node's variables carry the names of the code: `round`, `pstate`, `voteNum`,
  `lea`, `dataState`, `client`. `store[s]` is its Logger, `acks[s]` the four
  counters, `tokens[s]` the value of `psem[4]`.
* `net[a][b]` holds what a message passes through between `a` and `b`: the
  sender's queue and thread, one TCP connection, the receiver's pipeline. Each
  connection has a receiving thread, so two messages may overtake each other.
  `Ordered = FALSE` allows that, `Ordered = TRUE` leaves it out. No theorem assumes
  `Ordered = TRUE`. The theorems about rollbacks assume of the order only that no
  command overtakes one (`RollbackFirst`), those about SETs nothing. The runs
  `concurrent` and `faults` use `FALSE`; what fails under it is listed under "What
  the code does not achieve".
* Each branch of `performComm` is one action `Handle...`, with every call the
  branch makes: a refused command is rolled back in the step that refuses it, a
  commit is repeated up to nine times in the step that commits.
* `HandleHeart` and `HandleRecover` are the two uses of `[HEART]`: an entry to
  recover travels in the field `res` of a heartbeat.
* `Timer` is two actions, for its two writes: `TimeOut` makes the node CANDIDATE,
  `NewRound` raises the round and posts `psem[4]`. `timer[s]` says how far the thread
  has come: `"waiting"`, `"due"` when it has found the node not to be LEADER, which by
  now it may be, and `"standing"` between its two writes. Once begun it goes on
  whatever `performComm` has written meanwhile. The pace of the timer is not modelled,
  so nothing may depend on it.
* `performComm` tests `round` and `pstate` (159, 185, 207) and writes them a few lines
  later (162 to 173, 191 to 198, 208 to 212) without the mutex. When `Timer` writes
  in between, it puts the message that has been tested, with the round it was
  compared with, into `held[s]` (`Interrupts`). The node takes no other message until
  it has dealt with this one, and does so by the test as it was: `Grants`,
  `VoteCounts` and `Accepts` look at `Known(s)`, the round of that time. So a
  timeout is undone by the store at 169 or 210, and a vote of one round makes a
  LEADER of the next. Where the test and the writes have no write of `Timer` between
  them, they are one step.
* A command's `index` is the round it was written in, as in the code.
* A read outside a vector is undefined behaviour. A node that does it becomes
  `"wild"` and takes no further step, and properties of the cluster are not
  claimed of it. An exception nothing catches makes the process `"terminated"`.
* `Crash` keeps nothing; `Restart` is the constructor and `Working`. `Lose` is a
  connection that fails. A message to a process that is not running is lost
  without counting against the bound.
* `DropHeart` is the sender thread's discarding of heartbeats once the node is no
  longer LEADER. It may also discard one that the thread has already sent, which
  is one more lost message.
* The client waits for its answer before it sends again. `main.cpp` does not, but
  serves one terminal; several clients stand for a client that does not wait.

### How `Pipeline` corresponds to the code

* Threads: `RUaccept` (variable `apc`), one `Task` per connection (`task`),
  `handle_while` (`hpc`), `getCommand` (`gpc`), `PCommandParser` (`ppc`),
  `performComm` and one `CloseConnection` per connection (`closer`). A connection
  stands for its descriptor and for the one text it brings.
* What one thread does between two things another can see is one step. A push and
  a pop are single steps: each queue has one thread that pushes at a time and one
  that pops, and they work at different ends of the deque. When it is empty both
  touch the same node, a race the model leaves out.
* `num_client++` and `num_client--` are a read and a write; the mutexes of the two
  sides are different ones. `mut[2]` and `mut[1]` are the sets `Posting` and
  `Uncounting`. The other mutexes are each taken by one thread only.
* `handle_while` writes the text out between push and post, so the descriptor
  must not be freed before the post (`DescriptorsInUse`).
* A getCommand that finds `message` empty would return with `RUSmt` locked: in
  the model it stays at `"pop"` for ever, so that `ChannelSpec` fails as well.

### How `Codec` and `Terminal` correspond to the code

* A text is a sequence of tokens: the tags that `find` searches for, the
  separators `/`, `,`, `$`, blank and line end, and the pieces of words between
  them. A number is one token. `find` and `substr` keep their meaning on tokens,
  negative lengths and `npos` included.
* `stack` is the array a `Task` receives into: nobody clears it, so a text is
  followed by any rest of what was in it, possibly from within a token (`"..."`).
  `Room` is its size in tokens; a text that does not fit is cut (`cut`), and
  nothing is claimed of it.
* `Type` is the client's `split` and `getRESPArry`; `Receive` is `Task`,
  `RESP2Reup` and `commandParser`; `Forward`, `Prepare` and `Recover` build the
  texts that `performComm` and `prepareAll` build from what was read. Answers to
  the client are not read by any parser and are left out.
* In `Terminal` each socket and thread carries the number of the line it stems
  from. That a port on which a socket listens cannot be bound again, and that
  `accept` fails on a socket that does not listen, are facts about the operating
  system: `setup` sets the option number `opts.size()`, here 2, which does not
  lift them.

## 3. The runs

The cluster runs use three nodes. Deadlock is not checked: when the bounds are
used up, or all clients have their answers, or all texts are handed over, a system
that only reacts really may stop.

| run | bounds | shows |
|---|---|---|
| `two_phase` | 1 client, 3 commands, 2 heartbeats per pair, messages in sending order, no timeout, no fault | `TypeOK`; `AckedEverywhere`, `PreparedFirst`, `NoHole`, `NeverTerminated`; the cluster implements `KVStore` (`KVSpec`) with the map of the node on port 8001; `EventuallyAnswered` |
| `election` | 2 timeouts, 1 heartbeat per pair, no commands | `VotesBind`, `NoStaleRound`, `ElectedByMajority` |
| `failover` | 1 timeout, 2 SETs, 1 heartbeat per pair | `WrittenFirst` while another node takes over, commands are forwarded and both LEADERs beat and recover |
| `faults` | 2 SETs, 1 heartbeat per pair, 1 lost message, 1 crash, restarts, messages in any order, no timeout | `AckedOnMajority` |
| `concurrent` | 2 clients, 3 commands, a log of capacity 2, messages in any order, no heartbeat, no timeout | `Readable` where entries cover each other, are refused and rolled back |
| `logger` | 10 calls, capacity 3, 2 keys, 7 commands | `TypeOK`, `PosiDrift`, `MapIsReplay`, `BuriedIsFinal` of one Logger |
| `pipeline` | 3 connections, batches of 2 | `TypeOK`, `NeverEmptyHanded`, `NoLostWakeup`, `CountNeverNegative`, `InOrder`, `DescriptorsInUse`; the node implements `Channel` with its liveness (`ChannelSpec`) |
| `codec` | 8 lines, 2 other messages, 4 texts, 22 tokens | `CommandSurvives`, `ReplicasAgree`, `FieldsSurvive` |
| `del_keys` | 4 calls | violated: the keys of a committed DEL are erased |
| `split_round` | 2 timeouts | violated: one LEADER per round |
| `get_missing` | 2 commands, 1 heartbeat | violated: no read outside the log |
| `client` | 2 lines | violated: the client goes on after each line |

### Bounds

* Three nodes is the smallest cluster in which a majority differs from everybody,
  and `Quorum` is 2. It is also the number of *followers* the code waits for, so
  with three or four nodes it waits for all of them. This is what makes
  `AckedEverywhere` true without a fault, and a command unanswered with one.
* `MaxCmd`: the second command meets the replies of the first, the third (in
  `two_phase`) the recovery of the second and leaves room for a GET that fails
  between two SETs. `failover` was also explored with three SETs (2.7 million
  states), and holds; the run keeps to two for its time.
* `MaxBeat` bounds heartbeats and their answers under way between two nodes. One
  answer that is stale suffices to race a PRE or a ROLL; two let an answer
  arrive after the entry it asks for. It is 0 in `concurrent`, where no LEADER
  sends a heartbeat: with one the run does not end in five minutes. `AlwaysReadable`
  holds of any number. It is 0 in `split_round` too, where a violation needs none.
* `MaxTimeout` counts the timeouts of all nodes. In `election` two let two nodes
  stand for one round, let one stand twice, and let a late vote of round 1 meet a
  candidate of round 2; three (without heartbeats, 1.4 million states) and two with
  messages in any order (3.3 million) were explored as well, without a violation. In
  `failover` the first one makes a second LEADER; with a second timeout the run does
  not end in five minutes, and `CommandsAreWritten` holds of any number. It is 0
  in `two_phase`, `faults` and `concurrent`: nobody votes there, and what they and the
  theorems of `Faults_proofs` and `Answers_proofs` show is bounded by the first
  timeout. In the code the followers of a LEADER that has crashed time out in the
  end; `faults` covers the time until they do, and that is all.
* `faults` issues SETs only, because with messages in any order a rollback is false
  to `AckedOnMajority` (below).
* `MaxLog` is 2 in `concurrent`, so that writes are refused, and otherwise
  larger than the commands issued.
* In `logger`, ten calls allow for three entries written, committed and rolled
  back and one more write on the log that is left.
* In `pipeline`, three connections and batches of two (the code's ten) let a
  batch fill up, a message be taken before its token is posted and a token find
  its message already taken. The theorems hold for every batch.
* In `codec`, four texts are a long one that fills the array, a command, and two
  more stations; `Room` holds every message of the run but not a message
  followed by all of another, so rests are cut at the end of the array as well.
  The line of five words does not fit and is cut, as in the code. Of the words that
  the texts use themselves, `/`, `$`, `val:`, `oldval:` and `}` are typed.
* `Followers` are interchangeable: no definition names one of them, and no
  safety property either. Symmetry is not used where a liveness property is
  checked (`two_phase`, `pipeline`).

### Fairness

`Replication!FairSpec` assumes weak fairness of the sender thread's heartbeat
(`HeartAll` loops forever), of `voteAll`, and of taking a message from `a` at `s`:
the receiving threads and `performComm` are endless loops over blocking
semaphores, and a message accepted by TCP arrives. Nothing is assumed of timers,
clients, crashes and restarts. `EventuallyAnswered` is checked without timeouts,
losses, crashes and overtaking, because with any of them it is false in this code.

`Pipeline!FairSpec` assumes that every thread of the node that can go on goes on:
weak fairness of each thread. Of the peers nothing is assumed; they need not
connect nor send. That a mutex is not won by others for ever follows, since each
connection takes `mut[2]` and `mut[1]` once.

### What the code does not achieve

The four violated runs are the disagreements between the repository's words and
its code that came up while modelling, see `findings` in `PROJECT.json`. Some
more, found while bounds and properties were tried, are not kept as runs:

* With one of three nodes down no command is answered, though a majority runs:
  the quorum counts followers only (`participant.cpp:341`).
* With two clients at once, the second command's entry covers the first. When
  the covered command is refused, a committed SET is rolled back, `oldVal` is
  empty, and `out_of_range` ends the process. `NeverTerminated` is checked for
  one client.
* A lost ROLL leaves a follower with a longer log than the LEADER; it ignores
  every later heartbeat (`participant.cpp:207`) and is never brought in line.
* With four nodes a duplicate vote would be counted twice, and the node with 3
  of 4 votes may hold two of them from the same voter: `voteNum` counts
  messages. With three nodes one vote is a majority already.
* `PreparedFirst` fails once a timeout starts a recovery that races a PRE: a
  follower may write an entry twice, at two positions. `WrittenFirst` remains.
* After a restart, two logs may agree in length and in the round on top and
  differ in content.
* `AckedEverywhere`, `PreparedFirst`, `NoHole` and `NeverTerminated` are checked with
  messages between two nodes in sending order, and fail with `Ordered = FALSE`, as
  `AckedOnMajority` does once a command may be refused. A heartbeat that overtakes
  the PRE sent before it makes the follower ask for the entry, and the follower then
  writes it twice, once recovered and once prepared. COM commits the upper copy, and
  the lower one stays prepared: `PreparedFirst` and `NoHole` fail, the maps do not
  differ. A ROLL that is overtaken by the next command's PRE and COM, the client
  having its error already, meets a committed SET and ends the process.
  `EventuallyAnswered` fails too.
* A round may fall, and a vote request or heartbeat under way may be of a round its
  sender is no longer in: `Timer` raises the round between the test at 159 (or 207) and
  the store at 169 (or 210), which takes it back, while `voteAll` may have asked for votes
  already. TLC shows each with two timeouts, in 9 and 10 states. `NoStaleRound` and
  `VotesBind` say what is left: the store is never behind the round of the test, and
  a vote that was *given* is never undone.
* A LEADER may be alone in its round: `Timer` raises it between 185 and 198, and the
  votes were given for the round before (8 states). So a LEADER of a round need not
  have a majority in it; `ElectedByMajority` is about the round of the votes counted.
* After two elections `AckedEverywhere` fails, and with a crash `AckedOnMajority`: heartbeats
  that overtake a PRE make a follower's log hold entries twice; once it is LEADER it
  sends, at a position another follower asks for, an old committed SET, which the other
  commits over a newer one that was acknowledged. This is an execution of 64 steps,
  with three nodes, three SETs and two timeouts, written out and replayed on the model;
  it is beyond what TLC explores. In sending order one timeout and one crash suffice
  where a command is refused: the ROLL of the old LEADER and the PRE of the new one
  travel on different connections, and the ROLL meets a committed SET (36 states).
* `AckedOnMajority` fails with two crashes, with a DEL, and with five nodes.
* Rolling back a committed DEL stores the empty string under its keys. A DEL of
  several keys, one of them missing, is refused after some were erased.
* When the log is full at a quorum of followers the LEADER rolls back and builds
  an error for the client that is never sent (`participant.cpp:355`).
* A word with `/` loses what follows it, one with `$` shifts the lengths of the
  words behind it; `CommandSurvives` is stated of lines without them. The LEADER
  decides what was read, so that `ReplicasAgree` is stated of such lines too.
* A word with `oldval:`, `state:` or `}` is prepared and committed as it was typed, but a
  replica that recovers the entry reads it amiss (`parser.cc:124`): `oldval:` cuts the
  value, `}` makes a committed entry look prepared, `state:0}` a prepared one
  committed. The replicas then differ, and TLC shows it for each of the three when
  `Unframed` is left out of `Distinct`. Both properties exclude these words where the
  message is one of recovery, and only there. A word with the type of a message,
  as `[PRE]`, changes the type of the text (`parser.cc:24`), and `CommandSurvives` excludes it.
* A `[HEARTRE]` that carries nothing in `res` ends where the array's old content
  begins, and a searched tag may be found there. At the client an answer is
  printed with the old bytes behind it, and of the answers taken at once only the
  first is printed.
* A command that fits the array as RESP may be cut as a PRE, which is longer.
* `num_client` drifts: two threads may lose each other's change, and a peer that
  closes without sending is never counted off. Only its lower bound is a theorem.

## 4. The proofs

| theorem | states | for |
|---|---|---|
| `Participant_proofs!TypeCorrect` | `Spec => []TypeOK` | every cluster |
| `Participant_proofs!AlwaysReadable` | `Spec => []Readable` | every cluster |
| `Election_proofs!RoundsGrow` | `Spec => NoStaleRound` | every cluster |
| `Election_proofs!VotesStayBinding` | `[]VotesBind` as long as no process restarts | every cluster |
| `Election_proofs!LeadersAreSeconded` | whoever becomes LEADER has another node in the round of the votes it counted, or a later one, as long as no process restarts | every cluster |
| `Election_proofs!MajorityElects` | `ElectedByMajority` as long as no process restarts | up to three nodes |
| `Failover_proofs!CommandsAreWritten` | `[]WrittenFirst` as long as no process restarts and no rollback is ordered | every cluster with `OneByOne` |
| `Faults_proofs!AckedSurvives` | `AckedOnMajority` until the first timeout and the second crash, if no command overtakes a rollback | every cluster in `FaultSetting` |
| `Faults_proofs!ReplicasHoldTheAnswers` | `AckedEverywhere` until the first timeout and the first crash, if no command overtakes a rollback | same |
| `Faults_proofs!NobodyTerminates` | `NeverTerminated` until then and until a read outside a log, if no command overtakes a rollback | same |
| `Answers_proofs!SetsSurvive` | both of the maps, in whatever order | same, SETs only |
| `Answers_proofs!ImplementsTheMap` | `KVSpec` without timeout, crash and undefined read, if no command overtakes a rollback | `FaultSetting` |
| `Answers_proofs!SetsImplementTheMap` | `KVSpec` without timeout, crash and undefined read, in whatever order | same, SETs only |
| `Logger_proofs!LoggerTyped` | `Spec => []TypeOK` | every Logger |
| `Logger_proofs!DriftIsRolledBackGets` | `Spec => []PosiDrift` | every Logger |
| `Logger_proofs!BuriedForGood` | `Spec => BuriedIsFinal` | every Logger |
| `Logger_proofs!MapFollowsLog` | `Spec => []MapIsReplay` | every Logger |
| `Pipeline_proofs!PipelineTyped` | `Spec => []TypeOK` | every number of connections, every batch |
| `Pipeline_proofs!CountStaysNatural` | `Spec => []CountNeverNegative` | same |
| `Pipeline_proofs!TokensAreWorthIt` | `Spec => []NeverEmptyHanded` | same |
| `Pipeline_proofs!NoneLeftBehind` | `Spec => []NoLostWakeup` | same |
| `Pipeline_proofs!OrderKept` | `Spec => []InOrder` | same |
| `Pipeline_proofs!NoneFreedInUse` | `Spec => []DescriptorsInUse` | same |
| `Pipeline_proofs!PipelineIsChannel` | `Spec => ThroughChannel!Spec` | same |

They hold for every value of the constants that satisfies the assumptions
`LogConstants`, `LoggerConstants`, `ClusterConstants` and `PipelineConstants`:
any finite number of nodes, any clients, keys, values and workload, any bounds,
messages in order or not; any finite set of connections and any batch of at
least one. `MajorityElects`, `CommandsAreWritten` and the theorems of `Faults_proofs`
and `Answers_proofs` assume more; none of them assumes that messages arrive in the order
they were sent in.

`PreparedFirst` and `NoHole` are only model-checked, in sending order: without it they
are false, and `WrittenFirst` is what holds.

*The argument.* `LogOps_proofs` shows of each operation of the log what it
returns for a well-formed store, and when the position stays in range:
`WriteLog` and `CommitLog` keep it there, `RollbackLog` does unless the
position falls below zero. For the cluster the inductive invariant is
`Inv == TypeOK /\ Readable`. Types alone are not inductive: the type of the
entry an operation reads, and of the message built from it, is known only when
the position is in range; and the range is kept only by the steps that make a
node wild when it is left. `Inv` is preserved by each action, one lemma per
handler. `RoundsGrow` adds `HeldOK`: a node that holds a tested message has not fallen behind
the round of the test, for only that message can lower its round, and it stores a
round that has passed the test.

`VotesStayBinding` needs more: `Bound` says for every vote under way that its sender
would not compare a message with an earlier round any more, `Known`, which is at most
the sender's round. A vote is sent with the round just stored, so that a timeout which
is undone afterwards was not yet there when the vote was given. Of vote requests and
heartbeats the same is false: they carry the round of the moment, which may be undone.
`Restart` lowers a round to 0, since it is not stored anywhere. So the theorem
assumes that no process restarts, and with restarts the property is false.

`MajorityElects` needs two more parts. `OthersLead`: a node's `lea` is never the
node itself; `Silent`: no node sends to itself. So the vote that makes a LEADER came from
another node, which by `Bound` has reached the round it was given for (`ElectedByAnother`,
the step form of `LeadersAreSeconded`). That round is `Known` of the new LEADER; its own
round may be later, if `Timer` has raised it since the test, and then nobody else need be
in it. In a cluster of up to three two nodes are a majority. In a larger one they are
not, and there `voteNum` counts votes, not voters.

*The two phases while nodes fail.* `CommandsAreWritten` is about everything
at once: timeouts and elections without end, `Timer` between test and write, several
LEADERs at a time, recovery racing PRE, any number of heartbeats, lost and overtaken
messages, crashes, DELs. What is left then
is weaker, since logs differ in length and hold entries twice: an entry that is
committed, wherever, is in the log of every running node. The invariant is
`CommandInv == Inv /\ Single(net) /\ Course`. `Single` says that no connection carries
two messages of one type about a command. `Course` says where the one command under
way stands. `Free`: nobody has taken it, and every entry of every log is in all logs.
`Preparing(L, C, x)`: node L, LEADER or not by now, has sent the PRE of entry x, C is
the set of followers it has counted, and of every other follower either the PRE or
the PRERE is under way or one was lost; who has answered has x, only x may be
missing somewhere, and x is not committed anywhere. `Committing(L, C)`: the same of
COM and COMRE, and nothing is missing anywhere. What keeps this is that the LEADER
waits for *all* followers: L counts to the end only if all have x. A node that thinks it
is LEADER besides L has nothing to count and recovers only entries that are in a
log already; `Seen` therefore looks at the copies under way as well, and `Final` at
those that carry a committed state, with which a recovered entry is written.
Recovery may write an entry a second time; `Fits` bounds how often, so that no
write is refused for want of room. TLC checked `CommandInv` on an instance like that of
`failover`, on a smaller one with a crash and a lost message, and by simulation
with four nodes, before it was proved.

The hypotheses: with two clients a LEADER counts the answers to one command for the
other; with five nodes `Quorum` is fewer than all followers; a process that restarts
has an empty log; a ROLL removes whatever is on top when it arrives, and the next
command's PRE may overtake it, out of order or because another LEADER sends that PRE
on its own connection, so that the follower loses an entry it has acknowledged. For
each of these TLC finds a cluster that violates `WrittenFirst`. For the room in the
log, the last part of `OneByOne`, it finds none; the proof needs it because a follower
whose write was refused answers without having the entry. `OneByOne` and the absence
of restarts hold in run `failover` by its constants, and no state of it has a ROLL in
`net`.

*The maps while nodes fail.* `Faults_proofs` is about what run `faults` allows, with any
number of commands, heartbeats and lost messages, and with GETs: messages to running
nodes are lost or overtake each other, and one node, the LEADER too, may crash and come
back with an empty log, in the middle of a command. The logs of the nodes then differ in
content and length: a lost ROLL leaves an entry on a follower that the LEADER has
removed, a heartbeat that overtakes a PRE makes a follower write the entry twice, and a
LEADER that comes back writes from position 1 on while its followers keep their logs. A
lost PRE, COM or answer leaves the command unanswered for ever. The invariant is
`FaultInv`: `Inv`, `Unhurried` (nobody raises a round before a timeout), and either it is
`Over` (a timeout, or a second crash), or `Undefined`, `Dead` or `Alive`.

`Alive` speaks of a set T of *steady* nodes, which have been running from the start:
all, or all but one. It says which of three things is happening. `Resting(T)`: every
map in T is `Acknowledged`, and the command of the waiting client, if there is one, is
still on its way or lost. `Collecting(T, Y, N)`: the LEADER has written the command
and counted the answers to PRE of Y, which agreed, and N, which refused; no map has
changed, and a node in T that has answered holds the command on top. `Closing(T, Y, N)`:
the same with COM, where who has answered has the map after the command, and only a GET is
refused. `Dead`: the boot node has crashed with a command under way and has come back
without its client, who waits for ever.

The steady logs need not agree, so the invariant compares lengths only. `Ahead` says that
a steady log is at least as long as the LEADER's without the command under way, and one
entry longer once its node has answered the PRE, or while a ROLL is on its way that
will shorten it; and that the entries under way to it for recovery belong below its
end, a prepared one at most just behind it. So a recovered entry that is committed is
never written by a steady node. A prepared one may be, and the follower then has the
command twice, but not after it has answered: what COM commits is what PRE has
written. `Roomy` is the price: the log needs room for two entries of each command. `Lined`
says that there is one ROLL under way to a follower at most, sent before the next PRE;
`RollbackFirst` assumes that it is also handled before, and removes the entry it is meant
for. Of heartbeats, recovery and answers no order is needed, nor of PRE and COM, since
the LEADER orders COM when it has the answer to PRE. A node that has crashed is
in no T: nothing is claimed of it but that its answers are counted like others, which is
why the LEADER's own map is left out of `Closing` when the boot node has crashed.

`Answers_proofs` draws two consequences. Nothing but a GET is refused by a quorum
(`OnlyGetsRefused`), so with SETs only no ROLL is ever ordered (`SetInv`) and
`RollbackFirst` holds of itself: nothing is then assumed of the order. And when nobody has
crashed, T is all nodes, so that the LEADER's last COMRE is `Set`, `Get` or `Refuse` of
`KVStore`, a request is `Submit`, and everything else stutters (`MapStep`).

The hypotheses (`FaultSetting`, `RollbackFirst`): for two crashes, a command that overtakes
a rollback, a DEL, and five nodes TLC finds a cluster that violates `AckedOnMajority`; with
two nodes one crash leaves no majority. After a timeout it is false as well (section 3):
in sending order with a crash where a rollback is ordered, with SETs only after two
elections. So the theorems speak of the time until the first timeout. After a crash
of the LEADER this is the time its followers take to notice; nothing is claimed of the
maps after they have, and only `WrittenFirst` goes on. For a second client and a full log
TLC finds no violation within the bounds it can explore; the proof needs to exclude them
because with a second client a LEADER counts the answers to one command for the other, and
a follower whose log is full answers without having the entry. Under `RollbackFirst` the
three properties were explored with TLC on instances with messages in any order, two
commands, a heartbeat, a lost message and a crash, before they were proved.

For one Logger, `Inv == TypeOK /\ PosiDrift`. That `posi` never exceeds the
length of the vector, which every read relies on, follows from `PosiDrift`
because `drift` is a natural number. `BuriedForGood` follows from what each
operation does with the entries below the top. `MapFollowsLog` uses the invariant
`MapInv`: while the premise holds the map is the log's replay and no entry has
erased a key (`Clean`), so that rolling back a committed DEL puts nothing back. The
replay is a fold; `ReplayAppend` and the lemmas `SameEntries` and `MarkLast` say what
it makes of a log that has grown or whose top has been marked.

For the pipeline each property has its own strengthening. `Counted` adds that a
closing thread has seen a positive count and that only one is between its read
and its write: the acceptor, which may write in between, never writes less than
one. `Tokens` says how many entries each queue holds for the value of its
semaphore, with one more between a push and its post and one less between a wait
and its pop; that nobody is left empty-handed follows. For `Message` the equation
is only an inequality, `Wakeups`, because a batch also takes messages whose token
is still to be taken: a handler that has just taken a token and no message yet
owes that token one. `InOrder` is inductive with `Tokens`. `Owned` says that no
connection arrives twice and that only those are closed that precede, in the order
of arrival, what still lies in `message`, `descT` and `Message`, and that the
descriptor being written out is the last of `message`. With the count of `Tokens`
the last one cannot be popped before its post, which is all that keeps it alive
(`NoneFreedInUse`). `PipelineIsChannel` maps every step: a Task that reads a text
is `Arrive`, `performComm` taking a command is `HandOver`, of a text that has
arrived (by `InOrder`) and was not handed over (by `Owned`); all others stutter.

*Only model-checked.* `EventuallyAnswered` and the liveness in `ChannelSpec`
are out of the prover's reach. `PreparedFirst` and `NoHole` are checked by `two_phase`,
in sending order, and not proved. What the maps hold after a timeout is open: `AckedEverywhere`
and `AckedOnMajority` are false then, and which weaker statement remains is not known.
The three properties of `Codec` are about parsing, a recursion over the text,
and would need an induction over data; they are checked for the words of the run.

## 5. What is not modelled

* The pace of the timer and of the heartbeats: whether a node that keeps being
  reset by messages ever stands for election.
* Some single accesses to `round`, `pstate` and `voteNum`. `Timer` may write between a
  test of `performComm` and the writes that follow it, but not among these: not between the
  store at 169 and the reply at 183, nor between `voteNum++` and `pstate=LEADER`
  except by `held`; `round++` and `voteNum=1` of `Timer`, under the mutex, are one step. The tests
  `pstate==LEADER` at 140 and 317, the `round` that
  `createLog` is given at 147, and the round and log that `voteAll` and `heartAll` read for
  each follower anew, belong to the step that reads them.
* The pushes of three threads to `msgSendQueue` (a send is put straight into `net`). A
  message that is lost there is covered by `Lose`.
* Sockets and descriptors beyond their closing; errors of the operating system
  other than a failed connection and the failed `bind` and `accept` of the client.
* Lines that make no command (empty, one word, two blanks in a row), and the
  exceptions that malformed texts raise in the parsers.
* `preTimer`, `comTimer`, the Coordinator, `str2Log` and the parsers from
  `parser.cc:158` on, which nothing calls; `ossSocket` and the earlier logger,
  which take no part; the configuration, which is the constant `Server`.
* The answer to a client counts as received when it is queued. The reply after a
  failed commit in a recovery lacks the fields the LEADER parses and is modelled as
  having no effect.

## 6. Plan

Done, in this order: `LogOps` and `Logger`; `Participant` (two phases, recovery,
election, faults); `KVStore` and the refinement; `Replication`; the type and
range invariants and the vote invariants proved; `Pipeline` and `Channel` with the
refinement proved; `Codec`; `Terminal`; majorities and the replay of the log proved;
`WrittenFirst` proved through timeouts, losses and crashes; `Timer` between the tests and
writes of `performComm`, and the theorems about rounds, votes and elections proved
with it; the maps, and the refinement of `KVStore`, proved for messages in any order,
losses, a crash and a restart.

To come, in order of worth:

1. `Sender`: `msgSendQueue`, the sender thread, heartbeats thrown away, the
   one-second pause; the same abstract channel.
2. `ElectionTimer`: the timer that every message resets, against the heartbeats:
   does a cluster without a LEADER get one, can a follower with a longer log
   block it?
3. The remaining single accesses of `Timer`, `voteAll` and `performComm` (section 5).
4. Four nodes (the cluster of the repository's README): election with votes
   counted twice; the two phases.
5. What the maps hold after a timeout: a weaker form of `AckedOnMajority`, and a proof.
