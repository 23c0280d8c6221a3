# Formal models of the RAS chat/shell servers

The repository holds two servers with one purpose: a user connects, gets a
shell prompt, runs pipelines of the few programs in `ras/bin`, and can see,
name and talk to the other users and hand them output through public pipes.

* `src/v1` — one process, one `select()` loop, a static table of clients;
* `src/v2` — a master that forks one process per client; table, message queues
  and public pipes live in System V shared memory, guarded by System V
  semaphores and announced by signals (`SIGUSR1`: a message for a client,
  `SIGUSR2`: a request to the master).

The modules here describe what these programs do, as read from the source,
together with the properties they are meant to have; TLC checks small
instances, and TLAPS proves some of the properties for every size.

## 1. Inventory

| Component | State | Operations | Correct when |
|---|---|---|---|
| Connection lock, `v2/lock.hpp` | semaphore, undo entries, per process: signal mask, `allow_msg` | `conn_lock`, `conn_unlock`, `block_sig_msg`, `unblock_sig_msg`, the `SIGUSR1` handler, death of a process, removal by the master | critical sections of programs and handlers exclude, dead holders give the lock back, a handler never interrupts a body |
| Chat, `v2/conn_mgmt.hpp`, commands of `v2/shell.hpp` | slots (pid, nick), `max_id`, one queue per slot | register, disconnect, `name`, `tell`, `yell`, `who`, broadcast, drain in the handler | every session has a slot of its own, names differ, messages reach their addressee and are printed |
| Semaphore sets, `v2/semaphore.hpp` | three members, undo entries, the id behind a key | `sem_create`, `sem_open`, `sem_close`, `sem_rm`, `sem_wait`, `sem_signal` | initialised once, never removed in use, creation and closing serial |
| Public pipes, `v2/pub_pipe_mgmt.hpp` | `valid`, `fake_read_fd`, FIFO files, two request cells | `open_write`, `open_read`, `clear`, the master's `SIGUSR2` handler, `clear_all` at its end | an output is kept whole until it is read once, nobody waits for ever, the master closes only readers of its own |
| Numbered pipes, `v2/shell.hpp`, `v2/pipe.hpp` | `pipe_pool`, descriptor table, local `UnixPipe` copies | cut a line, make pipes, fork, wait, record, restore | line n gets exactly what was sent to it, no descriptor leaks, nobody waits for himself |
| Master, `v2/server.cpp` | listening socket | accept, fork, `clean_up` | sessions are independent of each other's ends |
| Select server, `v1/server.cpp`, `v1/conn_mgmt.hpp`, `v1/shell.hpp` | `all_set`, `r_set`, slots (fd, nick, change count, environment), stream buffers | select, accept, register, scan, `process_client`, disconnect, `SIGINT` | every line is served, one client cannot stop the others, a slot keeps nothing of its last user |
| Numbered pipes of v1, `v1/shell.hpp`, `v1/conn_mgmt.hpp`, `v1/pipe.hpp` | a `pipe_pool` in every client entry, one descriptor table | as v2, for the lines of all clients in turn; `create_pipe_pool`, `reset_pipe_pool` | every client is served as if it had a shell of its own |
| Public pipes of v1, `v1/pub_pipe_mgmt.hpp` | as v2, without a lock | as v2, in the one server and the child it waits for | as v2; between two stages the server holds exactly the readers of the pipes in use |
| Filters, `commands/src` | scanner state, the text of a tag | remove tags, report illegal ones, number lines | what is outside of tags is copied and nothing else, illegal tags are told with their text, every line has its number |
| Test client, `delayclient.c` | `write_enable` per user, the line held back | `login`, send a line after a prompt, `logout`, `exit` | it never waits for a server that waits for it |

How they interact: a v2 session calls the chat operations; each is a body
between `conn_lock` and `conn_unlock` on shared memory, and ends in `kill()`
to the processes that got a message; their handlers take the same lock. The
shell's child processes ask the master to open and close FIFO readers through
two shared cells and a signal. In v1 all of this is a function call, and the
only concurrency is between the server, its children and the network.

What is hard: signals between any two instructions; `semop()` failing with
`EINTR` and being taken for a success; processes dying inside the lock;
requests in single cells that overwrite each other; integers that stand for
descriptors and outlive them; buffered streams under `select()`. The list
with lines is under "hazards" in `PROJECT.json`.

## 2. Modules

| Module | Models | Composes |
|---|---|---|
| `ConnLock` | lock.hpp, `sem_wait`/`sem_signal`, the handler's frame, fork, death | |
| `Chat` | v2/conn_mgmt.hpp, chat commands | EXTENDS `ConnLock` |
| `SysvSem` | semaphore.hpp | |
| `PublicPipes` | abstract: the promise of ">i" and "<i" | |
| `PubPipe` | v2/pub_pipe_mgmt.hpp and its callers, the master's end | INSTANCE `PublicPipes` |
| `ServerPipes` | v1/pub_pipe_mgmt.hpp and its callers | INSTANCE `PublicPipes` |
| `NumberedPipes` | abstract: the promise of "\|n" and "!n" | |
| `PipePool` | run_shell's loop, pipe.hpp, descriptors | INSTANCE `NumberedPipes` |
| `ServerPools` | the pools of all clients of v1 in one process | EXTENDS `PipePool`; INSTANCE `NumberedPipes` for every client |
| `SelectServer` | v1 server, any clients, network | |
| `DelayClient` | the test client | EXTENDS `SelectServer` |
| `Filters` | removetag, removetag0, delayedremovetag, number | |
| `ConnLockProofs`, `ChatProofs`, `SysvSemProofs`, `PubPipeProofs`, `ServerPipesProofs`, `SelectServerProofs`, `FiltersProofs`, `PoolProofs` | proofs; `PoolProofs` of `PipePool` and `ServerPools` | EXTEND their modules and TLAPS |
| `MC*` | constants for TLC | EXTEND their modules |

**ConnLock.** `pc[p]` is where the main program of a process is
(`run`, `wait`, `sleep`, `locked`, `cs`, `done`, `after`), `hpc[p]` where its
handler is. `conn_lock` is `LockCall`, then `SemTake` (or `SemSleep` and
`SemInterrupted`: `EINTR`), then `MaskSignal`; `Body` is the critical section
and the signals it sends; `conn_unlock` is `SemSignal`, `UnmaskSignal`.
`HandlerStart` may happen wherever the signal is not blocked. `failed` records
that a `semop()` failed and was ignored.

**Chat.** An operation is split into what it reads (`Lookup`, setting `found`)
and what it does (`Act`, with `ConnLock`'s `Body`), so that a lock that fails
to exclude would show in the data. The session's life is `Connect`,
`CallRegister`, `EnterShell`, `CallCommand`..., `LeaveShell`; `Crash` is death
by a signal. Names are what is typed; `Stored[n]` is what `strncpy` keeps.
Queues hold message kind and sender; their text is left out.

**SysvSem.** One action per system call of `sem_create`, `sem_open`,
`sem_close`, with the kernel's undo on death. Calls that fail because the set
is gone are ignored as the code ignores them. `Openers` may call `sem_open`,
`Children` may get the id by `fork()`; `strays` remembers the sets somebody
got in one of these two ways, because the counter does not account for them.

**PublicPipes.** One box for each pipe, absent, empty or with one output in
it; outputs have names of their own, so that one that is lost, mixed with
another or read twice shows. Nothing is promised once the server has ended.

**PubPipe.** A FIFO file is a number; `fifo[i]` is the file under a pipe's
name, `readers` what the master has open, `buffer[f]` the numbers of the
outputs in file f; a buffer is gone with the last descriptor. The handler
takes no lock: it has one action for each access to shared memory and for each
of its calls (`HandlerStart`, `HandlerRead`, `HandlerOpen`, `HandlerRecord`,
`HandlerOpened`, `HandlerClose`, `HandlerForget`, `HandlerClosed`), because
requests and `SIGINT` arrive between them. What a session does under
`pipe_lock` to make or remove a pipe is one action, and so is `clear_all`. No
constructor sets `fake_read_fd`: until the handler has stored one it is
`Unset`, and closing it closes any reader or none (`ClosedBy`). A stage of a line goes from `Start` through the lock, `Create`,
`OpenWrite`, `OpenRead`, `Run` and `Clear`; only the first stage of a line
opens its "<i" (`AtInput`). The master may be interrupted (`Interrupt`), and
the handler it was in is never resumed: it takes `pipe_lock` or, as its wait
fails when the handler runs, goes on without it (`MayClear`, `ClearAll`). Files that a killed server has left are there at the start
(`LeftBehind`).

**ServerPipes.** The same operations in version 1, where one process runs one
stage at a time: the child asks for a reader with a signal and sleeps in
`open()`, the server handles it while it waits in `error_pipe.getline`, and
signals itself to close one. `Numbers` also has one that is no pipe.

**PipePool.** The descriptor table maps numbers to pipe ends and `pipe()`
takes the lowest free numbers, so a stale number may mean another pipe later.
One round of the loop is `Cut`, `MakePipes`, then `Succeed` or `Fail`, or
nothing more when the command never ends (`NeverEnds`, which `NoHang` excludes);
what the child does up to `exec` is computed by the operators `Stdin`,
`Stdout`, `Stderr`, `ExecFds`. `NumberedPipes` is what users rely on: a queue
of chunks for each coming line. `PipePool` maps its pool to these queues and
its line to the abstract line (`Delivers`).

**ServerPools.** `PipePool`'s loop, run for whichever client has sent a line:
`client` is the slot whose pool is in use, `parked` has the pools of the
others. A client that leaves has its pool reset, which forgets the descriptors
(`forgotten`) and leaves them open. `ServedAlone` states `NumberedPipes` for
every client by itself, from the moment it joins to the moment it leaves.

**SelectServer.** The loop is `Select`, `Register`/`NoAccept`, then `Pick`
for each ready slot, `Fill` (a `read()` into the stream's buffer), and
`Serve`, `StartCat` or `Disconnect`. Clients connect, send packets of whole
and half lines (`Packets`), and close in between. With a full table
`check_name_exist` compares an entry behind it, too; what it finds there is
left open (`Renames`). Writing to a closed connection may be
answered by a reset; writing again raises `SIGPIPE` (`Killed`).

**DelayClient.** The test client in the place of the free clients: one process
with one script, whose commands wait for `write_enable[u]` (`HoldBack`, `Say`),
and which reads a connection to its end after sending "exit" (`Logout`,
`ExitNext`, `Left`). Its steps are added to the server's; `Recv` is one
connection's part of `recv_msg`. A script is any sequence of lines that names
users who are logged in.

**Filters.** One action reads one character. The output is a sequence of
positions in the input (0 for a newline that is added), so that the
properties can say which characters were written and in which order.
`char c` makes the byte 0xFF look like EOF; `TagSize` is the size of `TagMsg`,
which removetag0 does not guard.

## 3. Runs

All bounds are small on purpose: the races need two or three processes, one
unread message more than a queue holds, one slot more or less than sessions.

| Run | Bounds | Question and result |
|---|---|---|
| ChatOverlap | 2 sessions, 2 slots, queues of 1, 2 names, all commands, crashes, master's end | The lock excludes until a `semop()` fails, survives deaths, protects bodies; names, wake-ups, clears; every chat step is a lock step. Holds. |
| ChatPaced | 2 sessions, all commands, one may crash, no overlap | Every call returns, every message is printed. Holds. |
| LockSignal | 2 processes of the lock alone | Is the signal blocked while the lock is held? **No**: finding. |
| SemLife | 3 processes, 2 sets, one that may also open or be forked, deaths | Creation serial, the semaphore excludes, the counter adds up, a set that was only created is never removed in use, whoever sleeps in `sem_create` gets through. Holds. |
| PipePaced | 2 sessions, 2 pipes, 4 FIFO files, files left behind, one user at a time, plain stages, a master that goes on | `PubPipe` implements `PublicPipes`, readers match, writers return. Holds. |
| PipeOverlap | 2 sessions, 2 pipes and 2 files, any stage, any overlap, the master may end | Types, lock discipline, and the handler closes nothing but readers it has opened itself and still has open. Holds. |
| ServerPipes | 2 pipes, a number that is no pipe, 5 FIFO files, files left behind, `SIGINT` | v1: `ServerPipes` implements `PublicPipes`, its readers match between stages, it never hangs. Holds. |
| PoolDelivers | descriptors 3..12, numbers 1..2, 2 outputs, lines of 1-2 commands, an unknown command at the end of a line and without a numbered pipe of its own | `PipePool` implements `NumberedPipes`, no stale numbers, no leak, no hang. Holds. |
| ServerPools | 2 clients that come and go, descriptors 3..10, numbers 1..2, 2 outputs, lines of one command or two piped, an unknown command without a number | v1: every client has its own `NumberedPipes`, no descriptor in two pools, nothing open that no pool knows but what was forgotten. Holds. |
| SelectTable | 3 clients, 2 slots, 1 name change, 1 variable, 2 packets each of one line or half a line, the second after a prompt, `cat`, closing at any time | Watched descriptors, and names, counters and environment of a reused slot. Holds. |
| SelectScript | the test client with 2 users, each logged in once, 2 commands each (`name`, `yell`, one that only answers), `logout` and `exit` at any point of the script | Every line served, no sleep in `getline`, the script never stands still. Holds. |
| FilterTexts | every text of up to 6 characters of 6 kinds, `TagSize` 3 | Text outside of tags is copied, illegal tags are told of, lines numbered. Holds. |

The bounds are enough for what the properties tell apart: two slots are used
again by later sessions, and in SelectTable a third client finds none; a queue
of one message is full with one; two sets give a set that is removed and made
again; four FIFO files give each pipe a second life; twelve descriptors are
more than any line of PoolDelivers has open, so that running out is a leak
(the eight of ServerPools are too few for two full pools, and the model stops
there; `SlotsShareNothing` and `EveryoneServed` are for any number);
numbered pipes to the next line and the one after it overlap in the pool; six
characters hold two tags, or one longer than `TagSize` with text around it. In
ServerPipes and PipePaced an output is a number of its own, so every FIFO file
can meet every output; how many stages there are is bounded by `MaxFifo`
where a stage makes a file, and by nothing where it does not.

Deadlock is not checked in any run: sessions may all have ended, clients need
not type, and bounds stop the rest. What would be a deadlock of the system is
stated as `CallsReturn`, `CreateReturns`, `WriterReturns`, `ServerReturns`,
`NoHang`, `LinesServed`, `ScriptGoesOn`.

A property that says "until a `semop()` failed" (`~failed => ...`) is not
vacuous: `failed` is false in every behaviour in which no signal interrupts a
sleeping `semop()` and the master does not remove the set; these runs contain
all other signals, deaths and interleavings. `UntilFailure` stops TLC from
extending failed states that these properties say nothing about.

### Fairness

Liveness runs assume that a process that can take a step takes it (weak
fairness of the session, handler, master and server steps), and that the
kernel serves those waiting for a semaphore (strong fairness of the taking
step; Linux queues them in order). Clients are never obliged to connect,
type or leave. Crashes are possible but never required, with one exception: a
session that got no slot goes on with an undefined pointer and is taken to die
of it (`Doomed`).

### Environment assumptions of single runs

* *Paced* runs: the repository's own test client (`delayclient.c`) sends one
  line, waits for the prompt (`write_enable`) and pauses between commands;
  `Overlap = FALSE` and `Paced = TRUE` say that no more than this happens.
  The corresponding unpaced runs show what is lost without it. For version 1
  the client is not assumed but modelled (SelectScript), with two conditions
  on scripts: nobody logs in twice (`Relogs`), and the pause before the final
  "exit" is long enough for the server (`PauseSuffices`).
* What these conditions leave out is what some of the hazards are about:
  requests that overlap (PipeLost, PipeHang), a master that ends (PipeMasked,
  PipeOrphan), failing commands with a number (PoolHang, PoolLeak,
  ServerStray), packets of several lines (SelectBurst), second logins
  (ScriptRelog). There the code does go wrong, and the configurations under
  "Disagreements" show it; `PROJECT.json` names them in the notes of the
  hazards.
* `PlainStages` (PipePaced, ServerPipes): stages that do not read the pipe
  they write, and name a "<i" only where it is opened; `SimpleStages` and
  `AllStages` drop this. `MixedLines` (PoolDelivers): numbered pipes and
  unknown commands at the end of a line only, and an unknown command has no
  numbered pipe; PoolHang and PoolLeak drop the last condition.

### Disagreements

One run must end in a violation and is listed as a finding, with the lines it
contradicts: LockSignal. The lock is taken before the signal is blocked; a
message that arrives in between makes a session wait for itself, and everybody
for it.

The others are found with a configuration each, which is kept here so that
anyone can repeat it (`tlc -config X.cfg M`); each checks one property. Where
the table says "with", the change to a configuration is so small that it has
no file of its own.

| Configuration, module | Property | What happens |
|---|---|---|
| LockExclusion, MCConnLock | MutualExclusion | A `semop()` interrupted by a message (`EINTR`) counts as success. |
| ChatSameName, MCChat | UniqueNames | Names are compared whole and stored cut: two users get one name. |
| ChatFullTable, MCChat | InBounds | With the table full both scans read one entry past its end. |
| ChatForeignMail, MCChat | PrintedByAddressee | The queue of a slot survives its session; the next one prints it. |
| ChatYell, MCChat | YellNotToSelf | "yell, not yell to self" (v2/shell.hpp:102) does. |
| SemForked, MCSysvSem | NeverRemovedInUse | The process counter misses forked children. |
| SemForked with `Openers = {p2}`, `Children = {}`, MCSysvSem | NeverRemovedInUse | `sem_open` without the lock races with the last close. |
| PipeLost, MCPubPipe | KeepsOutputs | Requests in one cell overwrite each other: an output is lost. |
| PipeHang, MCPubPipe | WriterReturns | The same, and the writer waits for ever with `pipe_lock`. |
| PipePaced with `Stages <- SimpleStages`, MCPubPipe | KeepsOutputs | "<i" in a later stage removes pipe i unread. |
| ServerPipes with `Stages <- AllStages`, MCServerPipes | KeepsOutputs | The same in v1. |
| PipeMasked, MCPubPipe | MasterReturns | `SIGINT` on top of the `SIGUSR2` handler leaves that signal blocked; `clear_all` waits for `pipe_lock`, whose holder waits for the master to open a reader. |
| PipeOrphan, MCPubPipe | WriterReturns | A session that outlives the master makes a pipe; nobody opens its reader. |
| PipeOverlap with ClearsOwn in the place of ClosesOwn, MCPubPipe | ClearsOwn | `clear_all` closes `fake_read_fd` of every valid entry. It may never have been set: the request to open was erased by the handler, or `SIGINT` came between the handler's `open()` and the store. And it may be closed already: `SIGINT` came between the handler's `close()` and the store of -1, and the pipe is in use again. |
| PoolHang with PoolOpen, MCPipePool | PoolOpen | A failing command with "\|n" closes a pipe the pool shares. |
| ServerStray, MCServerPools | NoPipeShared | The same in v1: the numbers a client's pool still names become another client's pipe. |
| ServerPools with NothingForgotten, MCServerPools | NothingForgotten | `reset_pipe_pool` forgets the pipes of a client that left and leaves them open. |
| FilterReport, Filters | EachTagTold | removetag0 tells of an illegal tag when the next text comes; of one at the end of the input it never does. |
| PoolHang, MCPipePool | NoHang | The stale numbers are reused; a command reads what it writes itself. |
| PoolLeak, MCPipePool | NoFdLeak | The error path closes `stdout_pipe` twice and `stderr_pipe` never. |
| SelectBurst, MCSelectServer | LinesServed | A second line in one packet waits in a buffer nobody looks at. |
| ScriptRelog, MCDelayClient | ScriptGoesOn | logout leaves `write_enable` set: the user's next login runs a line ahead of the prompt, and in the end both sides wait. |
| SelectScript with `PauseSuffices = FALSE`, MCDelayClient | ScriptGoesOn | "exit" is sent with or without a prompt; if the pause was too short it stays in the server's buffer, and both sides wait. |
| SelectTable with NeverWaits, MCSelectServer | NeverWaits | Half a line: the server sleeps in `getline` until the client sends the rest. |
| SelectGone, MCSelectServer | ServerSurvives | A client that closes early ends the v1 server by `SIGPIPE`. |

## 4. Proofs

For any set of processes, clients, table size, queue size, names, pipes,
lines, descriptors and input lengths. The assumptions are the named ones of
the modules (`ChatAssumption`, `SemAssumption`, `PipeAssumption`,
`ServerPipeAssumption`, `PoolAssumption`, `SelectAssumption`,
`FilterAssumption`), which give the constants their types and which TLC
evaluates in every run of their modules; `ConnLock` has none. A few results
need more than types; the condition then stands in the theorem, has a name,
and the runs of section 3 say what happens without it:

| Condition | In | Means | Without it |
|---|---|---|---|
| `WholeNames` | ChatProofs | no name is longer than what is stored of it | ChatSameName |
| `FewProcesses` | SysvSemProofs | fewer processes than `BIGCOUNT` | the counter itself ends |
| `~Overlap` | PubPipeProofs | sessions take turns at the pipes | PipeLost |
| `PlainLines` | PubPipeProofs, ServerPipesProofs | a "<i" in the first stage only, and never of the pipe the stage makes | `SimpleStages`, `AllStages` |
| `WholeLines` | SelectServerProofs | clients send whole lines | a half line holds the server |
| `SoundLines` | PoolProofs | see there | PoolHang, PoolLeak, ServerStray |
| `ParsedLines` | PoolProofs | no command has both "\| " and a number | the shell cuts at one of them only |

*ConnLockProofs.* Two inductive invariants. `TypeAndMask` (types,
`BodyUninterrupted`, and where a handler can be on top of the main program)
holds always. `LockInv` holds until a `semop()` fails: the undo entry of a
process counts the critical sections it is inside of, the semaphore is 0 or
1 and is 0 exactly when somebody is inside, and at most one is. Exclusion
alone is not inductive: it is the undo entries that make death step back to
a free lock and not to a lock given back twice. Theorems: `LockTypes`,
`BodyIsUninterrupted`, `LockExcludes`, `LockSurvivesDeaths`.

*ChatProofs.* Every chat step is a lock step or leaves the lock's variables
alone (`ChatUsesLock`), so that what is proved of the lock holds of the chat
(`ChatExcludes`). On top of exclusion, `SlotInv` ties the slot a process is
about to take (found while it is alone in the body) to the table; it gives
`SlotsAreExclusive`, `ScansAreComplete` and, as an action property,
`SlotsAreKept`. `MailInv` adds the queues: `NoLostWakeup` is inductive with it
because whoever adds a message is alone in a body and sends the signal in the
same body, and because a handler that has printed (`SeenShape`) keeps
everybody else out until it has cleared; hence `ChatTypes`, `WakeupsAreKept`,
`NothingClearedUnprinted`. `NameInv` adds that a name found to be free stays
free until it is taken (`NameFree`) and that slots out of use have none; hence
`NamesAreUnique`.

*SysvSemProofs.* `SerialInv` adds to `CreationSerial` what it needs to be
inductive: the undo entry of a process for member [2] is -1 exactly while it
is inside (so that death gives the lock back, once, and nobody else's), and
every id a process holds is one given out already (so that a set made after a
removal has no user yet). Theorem: `CreationIsSerial`. `UseInv` does the
counting on top of it: who owes the counter one, where in `sem_create` or
`sem_close` the count is ahead or behind (`Users`), and who may be between
`sem_wait` and `sem_signal` (`Turns`). The sums are finite cardinalities that
change by one with one undo entry (`OwingMoves`). Theorems:
`UsersAreCounted`, `OnlyUnusedRemoved`, `SemaphoreExcludes`.

*PubPipeProofs.* For any set of sessions and finite set of pipes, lines that
overlap in any way, and a master that may end. `TypeInv` adds to the types that a
session at a redirection has one (`PipeTypes`). `ClosesOwn` is not inductive:
the handler closes the reader recorded in one entry, and another entry could
have recorded the same one; and a pipe it is asked to close could be one it
was never asked to open. `FakeInv` says why neither happens, however requests
are overwritten or erased: a FIFO file is made for one name, what an entry
records, or the handler is about to record, is of the file of that name and of
no other; a session that has `pipe_lock` keeps the others from asking; and a
pipe that somebody has got to write to, so that it can be read and cleared,
was opened by the handler before, so that its entry is set (`Served`).
Theorem: `HandlerClosesOwn`. For sessions that take
turns, `MatchInv` says at which place of the session which request is in which
cell and how far the handler has served it (`ReadersSettle`), and `DataInv`
adds descriptors and contents of the FIFO files; under it every step is a step
of `PublicPipes` or changes nothing there (`OutputsAreKept`).

*ServerPipesProofs.* `SettleInv` says what `Settled` leaves out: which request
is under way at which place of the server, and that the server holds a reader
of every pipe in use but the one just asked for, and still one of the pipe it
is about to close (`PipesSettle`). `DataInv` adds the child's descriptors and
the buffers: at most one output in a FIFO, only in the FIFO of a pipe in use
that is neither new nor just read, none in two places and none that was read.
Under it every step is a step of `PublicPipes` or changes nothing there
(`OutputsAreKept`: `PlainLines => (ServerPipeSpec => KeepsOutputs)`).

*SelectServerProofs.* `TableInv` says that descriptor, slot and session of a
client belong to one another (`OneEach`), that a connection waits once and is
untouched until it is accepted (`Queued`, `Untouched`), and that environments
have no key twice. Without `Untouched`, `SlotIsOwn` is not inductive: a
newcomer could bring a history along. Theorems: `ServerTyped`,
`ConnectionsWatched`, `SlotsAreOwn`. `LineInv` adds what the scan relies on:
what `select()` told of a slot is still there when the scan gets to it,
whatever the slots before it did; hence `NoClientHoldsServer`.

*PoolProofs.* What `PoolOpen`, `NoFdLeak` and `NoHang` leave out is who owns
which descriptor. `PoolInv(X)` says that the open descriptors are those of a
set of pipes, each with ends of its own (`Tidy`): the entries of the pool, the
loop's local variables that are in use at this place (`Locals`), and a set X
of others. The entries are apart from each other and from X (`Apart`), the
error pipe and the pipe between two commands are the loop's alone
(`LoopsOwn`), what the fork is given is in the pool under its number or
nowhere (`Numbered`), and the front of the pool is never written to again
(`Fronts`). Theorems: `EntriesOpen`, `NothingLeaks`, `CommandsEnd` with X
empty. In the select server X is the pools of the other slots and what
`reset_pipe_pool` has forgotten, so that the loop's steps are proved once for
both programs; `ServerInv` says that such a set of forgotten pipes exists
(`SlotsShareNothing`). `SoundLines` are lines in which every command but the
last is followed by "| ", there is no "|0", output and messages do not go to
the same later line, and only the last command can be unknown and then sends
nothing to a later line. Where an unknown command does, or comes before a
"| ", the error path closes one pipe twice and another never; the runs of
section 3 show it. Output and messages for one later line would make two pipes
(v2/shell.hpp:228 and 233) if nothing waits for that line yet, of which
`record_pipe_info` keeps one; sound lines leave that out.

The refinements need the contents of the pipes. `StoreInv(X)` adds to
`PoolInv(X)` that a pipe nobody has a descriptor of is empty (`Stored`: a new
pipe takes its place, and must not bring an old output along), that the pipes
made for a command are empty (`FreshPipes`), that the entries of later lines
can still be written to (`Writable`), and that the pool is never longer than
the largest number allows (`Room`): an entry beyond it would be an output that
`NumberedPipes` does not know of. From it, `Succeed` is the `Command` of
`NumberedPipes` (`Carried`: what waited for the line is its input, each output
is appended where it is due, and nothing else moves), `Fail` is its `Unknown`,
`ReadLine` its `Type`, and cutting, making pipes and ending a line do not move
it (`Idle`). The case that takes most of the proof is the front of the pool: it
is taken off when the first command is cut, and `Fail` puts one back that names
nothing. Theorem `EverythingDelivered`. For the select server, every such step
leaves the pipes of X as they are (`Untouched`), and a client whose line does
not run has its whole pool due (`AtRest`), so that it notices nothing
(`Bystander`); `SlotStore` says that the pools put away are fit for the loop
(`Poised`). Theorem `EveryoneServed`. `ParsedLines`, which both assume besides
`SoundLines`, says that a command before a "| " names no number. Both say
nothing of what comes after the table of descriptors or a pipe is full
(`RoomFor`, `MaxChunks`): there the model stops.

*FiltersProofs.* The scanner's one flag `inTag` means that the last "<" read
has no ">" after it yet (`CopyInv`); what is outside of all tags is then what
was written, in order and once, whatever the length of the input
(`TextIsKept`). `NumberInv` ties the beginning of the line that is read to
what is written and numbered so far (`EveryLineNumbered`); `TagInv` ties
`TagMsg`, until it is full, to the tags since the last text, and the error flag to an
illegal character among them (`IllegalTagsTold`).

Not proved, and out of the prover's reach: liveness under fairness and
anything with ENABLED (`CallsReturn`, `CreateReturns`, `WriterReturns`,
`ServerReturns`, `LinesServed`, `ScriptGoesOn`, that every message is
printed); what a recursive definition computes for every input.
Every safety invariant, action property and refinement that the passing runs
check is proved; `DelayClient` has no safety property of its own.

## 5. Not modelled

* Text: formatting of messages, parsing of lines by regular expressions,
  welcome banners. A command is the branch it takes.
* A full pipe (a command that prints more than a pipe holds), file
  redirections, `PATH` lookup.
* A "<i" in the first command of a line that a numbered pipe is due for
  (v2/shell.hpp:274 and 348, v1/shell.hpp alike): the command reads the public
  pipe, and the shell closes `pipe_pool[0]`, so that what was sent to the line
  is thrown away unread. `PipePool` has lines without "<i" only.
* A handler that interrupts the `semop()` of `sem_create` (`EINTR`, which the
  code takes for a success): `lock_init` is called once, by the master, before
  there are children whose end could interrupt it; `SIGINT` ends it.
* Failures of `fork`, `accept`, `shmget`; reuse of pids.
* `pipe_lock` interrupted in the shell's `clear_pipe` (v2/lock.hpp:72): the
  wait is taken for got, as `ConnLock` models it for `conn_lock`; `PubPipe`
  takes `pipe_lock` to exclude everybody but the ending master. `PipeTypeOK`
  and `ClosesOwn` rest on it: a shell that clears a pipe without the lock,
  while its writer waits for the reader, would have the handler close a number
  that was never set.
* What sessions do with public pipes in the instant the ending master removes
  their files, and children of v1 that inherit its `SIGINT` handler.
* v1/shell.hpp 369-735, which are commented out; `printenv` and `setenv` of
  v2, which change a session's own environment only; the scripts around the
  tests, and `dev/fifo`.
* The `strlen` of an uninitialised `TagMsg` in removetag0 (line 50), and a
  filter that is given a file name: both shells give it standard input.

Where the code's behaviour is undefined, the models choose: the read past the
table only sets `overrun` (v2) or may find any name (v1, `Renames`), a session
or server without a slot ends, a `fake_read_fd` nobody has set (`Unset`) is the
number of any reader or of none,
`pipe_pool[0]` of an empty deque holds no pipe, removetag0 stops being
described once `TagMsg` is full (`state = "overrun"`).

## 6. Plan

Done, in this order: `ConnLock` and `Chat` with proofs; `SysvSem`;
`NumberedPipes` and `PipePool`; `SelectServer` with `DelayClient`;
`PublicPipes`, `PubPipe` with the master's end, `ServerPipes`; `ServerPools`;
`Filters`; the proofs of section 4.

Left:

1. `PipePool`: capacity of pipes, and a "<i" in the first command.
2. `PubPipe`: an interrupted `pipe_lock` in `clear_pipe`, as in `ConnLock`.
