# goRunner in TLA+

goRunner replays sessions of HTTP or TCP requests against a server, one session per
input line, from a number of concurrent clients, and turns what happened into log rows,
a summary and an exit status. This directory models its concurrent core, its time
accounting and what its requests say, checks them with TLC and proves the main results with TLAPS. Line numbers
below are `runner.go` (R), `goRunner.go` (G), `config.go` (C), `macro.go` (M), `crypto.go` (K).

## 1. Inventory

| component | state | operations | modelled in |
|---|---|---|---|
| clients (R149, R509, R729) | the line a client holds, `stepCounter`, its `Result` counters, the shared `foundAllSessionVars` | `client`, `DoReq`, `doLog` | `Clients` |
| results and exit (R593, R606, R630) | the `results` map, sums in `GetResults`, exit status | `Exit`, `GetResults`, `exitStatus`, `os.Exit` from a request | `Results` |
| process (G88-194, R133-146) | where main is, the channel, `wgClients` | `StartClients`, `close`, `Wait`, the signal goroutine | `Process` |
| feeder: file or standard input (G152-187) | scanner, first line's field count | the scan loop | `GoRunner` |
| feeder: HTTP, flag `-p` (G145-151, G195-202) | a handler goroutine per request | `ListenAndServe`, `HandleInputArgs` | `Listener` |
| session timing (R149-160, R509-575) | `delay`, `commandTime`, `stopTime`, `postSessionDelay` | delay, deadline, `MsecRepeat` | `Session` |
| session variables (R640-693, R800-861) | `sessionVars` of a session | `findSessionVars`, `findFuncVars` (R703), `MustCapture` | `Session` (who set them), `Requests` (texts), `Clients` (results) |
| start-up: command queue, look-ups (R54-131, R186-198, C84-113) | `commandQueue`, `postSessionDelay`, `rampUpDelay` | `NewRunner`, `FieldString`, `FieldInteger`, `EstimateSessionTime` | `Commands`, `SessionTime` |
| HTTP request (R248-417) | `cookieMap` of a session, the Cookie header | `httpReq`, `httpRoundTrip` | `HttpReq` (cookies), `Requests` (body, URL, headers) |
| TCP request (R419-507, K) | byte buffers of one request | `tcpReq`, encryption of a range | `TcpReq`, `Requests` |
| macros (M, R99-121) | `CommandMacros`, the tables of digests and of times, filled once | `InitMacros`, `initTimeMacros`, `RunnerMacros`, substring `[a:b]` | `Texts`, `Macros`, `Requests` |
| JavaScript (R200-246, R703) | an otto VM made for each call | `doFunc`, `findFuncVars` | `Requests` (any result), `Results` (its failure) |
| log rows, usage, `jmx2ini/` | none | formatting, conversion | no: text only |

How they interact: main starts the clients, and from then on everything meets in four
shared places: the unbuffered `trafficChannel` (main or the handlers send, clients
receive, main closes), `wgClients` (clients count down, main waits), the counters and
`foundAllSessionVars` (clients write, `GetResults` and `exitStatus` read without
waiting), and `os.Exit`, which main, the signal goroutine and any client may call.

What is hard: these meetings in every order; a signal, the `-t` deadline or a fatal
request in the midst of them; the shared flag written without a lock; a session as a
recursion of `DoReq` whose end is decided by four causes (deadline, missing variable,
no response, last command); the arithmetic of delays and repeats; and macros, which are replaced
one after the other in a text that may hold the next one by then. The list in
`PROJECT.json` under `hazards` gives each with its line and the properties for it.

What makes each part correct:

- clients: one session per line, a line to one client, counters that always add up, one
  late request at most, every line served;
- exit: an orderly end is complete and its status exact; a signal always ends the run;
- feeders: no line lost or sent twice, an empty line ends the input, an HTTP reply means
  that the rows were taken;
- session: `commandTime` is elapsed time, repeats use up `MsecRepeat` and no more, the
  deadline is kept, variables are the session's own and must-captures are fresh;
- start-up: a runner that is ready can run every command of its queue, a `DoCall` chain that
  ends has no command twice, the ramp-up fits into a session;
- cookies: a request carries the current cookies of its own session, all and only those that
  match it;
- macros: a request means what the ini file says, whatever the order of replacement, and only a
  cut that is too long or digests that go round can stop the process;
- TCP: what is sent is the body with its range encrypted in one place, a whole reply is
  handed on whole.

## 2. Modules

```
Workload        abstract promise: sessions begin, finish, the run ends
Steps           abstract promise: a client goes through its commands until the deadline
Clients         client goroutines           <- Results <- Process <- GoRunner
Results         Exit() and os.Exit                          ^------- Listener
Process         main, WaitGroup, channel, signal; feeder left open; refines Workload, and
                each of its clients refines Steps
GoRunner        Process + scanner loop      Listener   Process + HTTP handlers
SessionTime     estimate of a session's time   <- Session   one client on a clock; refines Steps
                                               <- Commands  NewRunner
HttpReq         the cookies of a session's requests
Texts           texts with macros in them      <- Macros    Commands + the tables of macros
                                               <- TcpReq    bytes sent and read
Requests        Macros + TcpReq: NewRunner, then the sessions of a client, request by request
MCSession, MCCommands, MCHttpReq, MCRequests <- MCCommands      constants for TLC

ProcessProofs <- GoRunnerProofs, ListenerProofs
OperatorProofs <- SessionProofs
               <- CommandsProofs <- RequestsProofs
HttpReqProofs
```

**Clients.** `cpc[c]` is where a client's goroutine is; there is one action per access to
shared state, so that another goroutine can run between any two: `StartClient`
(R139-145), `RampedUp`, `Take` (receive from the channel), `CutShort`/`GoAhead` (the
deadline check of `DoReq`), `StartRequest` (the sleep is over), `Returned` (the request
is), and then `doLog` as `CountRequest`, `LoadFlag`, `StoreFlag`, `Verdict`, `WriteRow`,
in the order of the code, which differs for TCP and HTTP. The read and the write of
`foundAllSessionVars` are two actions because `x = x && y` is not atomic. An answer is
reduced to its kind (`tcp`, `good`, `bad`, `none`) and the two results of
`findSessionVars`. The clock is reduced to whether the deadline has passed: `CutShort` is
possible before it, since the check adds the delay, and certain after it. A repeat is a
choice that `RepeatSteps` allows. `NSteps` is the queue up to an entry `none`; a command without
a definition cannot occur, as `NewRunner` ends the program for it.

**Results.** `GetResults` visits the map in any order and reads `requests` before
`success` of each entry, in main's goroutine and in the signal's, which keep sums of
their own. `FatalRequest` stands for every way a request ends the process: `os.Exit(1)`
in `tcpReq` and `doFunc`, and panics, those of the session log's macros at the end of a session among them. `NewEntry` is the write to the map in
`StartClients` while a signal's `GetResults` may range over it: the entry is seen, missed, or
the runtime stops the process.

**Process.** `StartClients`, `Close`, `Wait`, `Interrupt` and the ways main gives up.
`Send` is the rendezvous on the unbuffered channel: the sender and a receiving client step
together. `ProcessSpec` allows any feeder that sends a line at most once and before the
close; what is proved of it holds for both feeders.

**GoRunner** and **Listener** add the feeders. In `GoRunner`, `ReadLine` is one turn of the
scan loop: the field count is compared before the line is found empty, as in the code. In
`Listener` each handler scans a row, waits in the send, and replies when `Scan` returns
false, whatever the cause; when main closes the channel under it, its send panics,
which net/http recovers. net/http itself is not in the repository: it is modelled as far as
main and the handlers see it.

**Workload** is the abstract specification: `Begin`, `Finish`, `EndOrderly`, `EndAbruptly`
over a set of running and a set of finished sessions. `Process` maps it: running sessions
are the lines that clients hold, finished ones are `over`, and an end is orderly when it
is main's own `Exit()` after `Wait()`.

**Steps** is what `Clients` and `Session`, two views of the same goroutine, have in common: a client is
doing nothing, deciding whether to go ahead, or asking; it has a place in the queue; and the
deadline is never, armed or past. `Clients` leaves delays and repeats to chance, `Session` computes
them; both may only do what `Steps` allows. In `Process`, `Queue(c)` maps client `c`: all of a
request's steps, from its sleep to its row, are "asking". In `Session`, `Promise` maps the clock to the
deadline (past once `now > stopTime`), and a command may be repeated if its `MsecRepeat` is not 0,
which is how `RepeatSteps` is read in `Clients`.

**Session** is one client with the clock in milliseconds. `Take` begins a session,
`Request` is `DoReq` up to the request's start (its sleep may be too long by a slip),
`Return` the rest of it up to the next call of `DoReq`. A value is the number of the request that
set it, which is all that ownership and freshness need. `Session` needs no other client: no other
goroutine touches what it models.

**Commands** is `NewRunner` before there are clients: `UseSequence`, or `StartChain`, `Follow`
and `EndChain` for `DoCall`; `SetPostSessionDelay`; `CheckCommand`, one turn of the loop that
prepares macros; `InitRampUp`. A setting is a value and `Unset` when it is missing or empty, so
`FieldString` is the choice between a command and `default`, and `FieldInteger` is 0 for what
Atoi refuses. A command without a section ends the program in two ways, as in the code: with
a message when it is met in the check (R100), with a nil pointer when `DoCall` leads to it (R87).
A setting is any integer: nothing refuses a negative one, and an estimate below 0 makes the
clients of an automatic ramp-up start at once (`Quotient` rounds towards 0, as Go does). `Session` keeps to natural numbers.

**HttpReq** follows a session's `cookieMap`. `Build` is the request up to the loop over the map,
`AddCookie` one turn of that loop in any order, `Store` one Set-Cookie of the answer. Hosts and
paths are values; `EndsIn` and `StartsWith` say what `HasSuffix` and `HasPrefix` answer for them.
A prior cookie is read back from the header without path and domain, as `req.Cookie` returns it.
A Cookie header written in `ReqHeaders` is left out.

**Texts** says what a text is: a sequence of characters and macros. A macro is one member of the
sequence, with its kind (`env`, `args`, `var` or a digest), its name and its cut; a value that
holds the characters of a macro holds the macro, since the code cannot tell them apart. Digits have a
worth, so that a number may have a sign and be too large (`IsNumber`, `Fits`), and A-F are as hexadecimal as a-f. `Expand` is the
loop of `RunnerMacros` (M333-343): every macro of the table is evaluated, in the text or not, and then
replaced, one after the other. `Dead` is the value of what panics or never returns. Digests, times and
encrypted bytes are opaque: a digest says what it was made of and has `DigestLen` characters.

**Macros** adds to `Commands` what `NewRunner` stores. `Register` is `CheckCommand` and, in the same
step as in the code (R99-121), the entries of `CommandMacros` and of the three tables of inputs;
`RegisterTimes` is the session log's macros and `initTimeMacros` (M151), which scans every table but
`PksMacros`, before the ramp-up. Whether a macro is a time is decided by its name without its first two
characters (M103, M123), so that `{$TIME}` is one like `{%TIME}` (`IsTime`); `TimeName` are the names that begin
with TIME or UNIXTIME, `BadTime` those of them that `parseTimeModifier` refuses. `Lookup` asks the times before the
environment, as the code does (M238-256, M289). `Values` is `runnerMacro` with its recursion through the digests:
three of them nest at most three deep, or go round.

**TcpReq** has the operators of a TCP request: the checks of `tcpReq`, `buildKey` (32 numbers with spaces around
them, signed or not, within the range of `Atoi`), the replacement of
the first occurrence of the range's plain bytes by the encrypted ones (`Seal`, R476), and the buffer
that one `Read` fills with what has arrived (`Buffer`, `ResponseLen`, `Reply`, R488-506).

**Requests** composes them: `Prepare` until the runner is ready, then the sessions of one client.
`TakeLine` and `CutShort` begin and end a session; `HttpRequest` is `findFuncVars`, the macros and
`NewRequest`; `TcpRequest` is `tcpReq` up to the Write; `Response`, `NoResponse` and `TcpReply` are what
comes back (`FirstPart` is the split of a header at its colons, which only the value of `ReqContentType` is
spared); `Capture` is one turn of the loop of `findSessionVars`, whose pattern has macros of its own;
`Proceed` is the rest of `DoReq`, with the session log's macros at the end of a session. `at` is also how a
client ended the process: "exit" by `os.Exit(1)`, "dead" by a macro, "overrun" by a reply longer
than the buffer. Clients share nothing here but the tables, which are no longer written.

History variables (`handed`, `over`, `missed`, `late`, `rows`, and in `Session` `sent`,
`opened`, `last`, `began`, `begun`, `overslept`, `slip`, `slips`, and in `HttpReq` `log`,
`opened`) are read by properties, by each other and by bounds only, except that `sent` and the
length of `log` give the values of variables and cookies their names.
Operators called `Bug...` are faults that a change could bring into the definition after
them. No specification uses them: each is there to show that a property can fail.

## 3. Runs

| run | instance | shows |
|---|---|---|
| `two_clients` | 2 clients, 2 lines, one HTTP command, deadline, signal | safety of the whole process and its refinement of `Workload` |
| `one_client` | 1 client, 2 lines, a deadline, an HTTP command that repeats and must capture, then a TCP one, fair | counters, lateness, status 0 with one client, refinement of `Steps`; lines are still taken, and given up, when the deadline has passed |
| `live` | 2 clients, 2 lines, fair | lines are served, the end of input and a signal end the run |
| `posts` | 1 client, 2 HTTP requests, 3 rows, fair | no row lost, replies are honest, a handler's send ends, refinement of `Workload` |
| `session` | 3 commands, 2 sessions, repeats, slips, a deadline | the time accounting, the estimate of a session's time, the variables, refinement of `Steps` |
| `queue` | every `DoCall` graph over `_start`, `a`, `b`, `none`; five Sequences with settings; six families of ini files with macros and TCP; 3 clients, fair | the queue can be run, chains are simple and end, the ramp-up fits; requests say what they mean, what kills the process, the encrypted range, whole replies |
| `cookies` | 2 hosts, 2 names, 3 Set-Cookies | the Cookie header is exact |
| `lost_flag`, `empty_line`, `path_input`, `one_per_name`, `env_time` | the smallest that shows the case | disagreements, section 6 |

Bounds: `MaxLines`, `MaxRequests` (repeats stop there), `NPosts`, and in `Session`
`MaxLines`, `MaxLatency`, `MaxSlip`, `MaxWait`; `MaxQueue` in `Commands`, `MaxCookies` in `HttpReq`. Two clients and two lines are
the least with a race for a line and for the flag, an idle client beside a busy one, and
a client that leaves while another works; with more lines than clients (`one_client`,
`posts`) one client runs one session after the other. Two requests with three rows have
two handlers waiting at once and one that sends twice. In `session` the deadline of 24 lies beyond the
shortest two sessions and before the end of the longest: a session ends by the deadline
before each of its three commands, by a missing variable and by the last command; `MsecRepeat`
8 and 9 with delays 1 and 2 give up to four and three requests. Clients are not symmetric (they start in order), so no
symmetry is used. `MaxQueue` lies beyond the longest chain of its names, so that
only a chain that goes round reaches it. Three Set-Cookies are the
least with one that overwrites another beside a third, or one of a session before. `CallTime`
3 in `session` is its `MaxLatency`, as the estimate supposes (100 ms in the code). In `queue` the ini files of `MCRequests`
are: `Orders` (macros in every field, tables in different orders, values that hold macros), `Digests`
(digests of digests, some that go round), `Cuts` (cuts, headers without a colon), `Logs` (the session log,
times that cannot be read), `Times` (times in the name of the environment, alone and beside others) and `Tcp` (bodies, ranges, keys that fit or not). Lengths are scaled down so
that their edges are met: `DigestLen` 2, `BlockSize` and `KeySize` 2, `BufSize` 5, `Radix` 4, `HexLimit` 1, `MaxInt` 10,
in place of 32, 16, 32, 1024, 256, 32 and 2^63 - 1. Two lines (one with a second column that holds the text of a macro), three
captured texts (empty, two digits, a macro) and six TCP answers (too short, longer or shorter than
their length says, longer than the buffer) let a value hold a macro that comes before or after
its own, and a reply arrive in any part. Deadlock is checked everywhere: the only state without a step of the
program, the exited process or the last session's end, has an explicit stuttering step.

Durations of requests are at least 1 ms in `Session`. `StackBounded` counts on that: if requests took no time
and a command had no delay, repeats would not use up `MsecRepeat`.

### Fairness

In `Requests`, `FairRequestsSpec` asks only that `NewRunner`, which is sequential, takes its next step
(`Prepare`); of the sessions after it, nothing.
`EveryLineServed` is checked with two clients in `live`, and in `one_client` with a deadline, which may pass between any two
steps and would multiply the states of `live`.
`FairSpec` in `GoRunner` and `Listener` asks for weak fairness of each goroutine's own steps:
the Go scheduler runs what can run, sleeps end, and a receiver waiting on a channel with a
waiting sender is served (the runtime queues both in order). It also assumes that a request
comes to an end. For response headers `ResponseHeaderTimeout` (R67) makes sure of it;
for a dial, a body that never ends, or a silent TCP peer (R493) the code has no timeout, and
the liveness results assume a server that answers or closes. Nothing is asked of the
environment: no line, end of input, request, failing listener or signal has to come. Fairness
of the handlers does include that a body ends.

## 4. Proofs

Everything is proved for every value of the constants that the named assumptions
(`ClientsAssumption`, `DelimsAssumption`, `NPostsAssumption`, `SessionAssumption`, `CallTimeAssumption`,
`CommandsAssumption`, `HttpReqAssumption`, `TextsAssumption`, `MacrosAssumption`, `TcpReqAssumption`,
`RequestsAssumption`) allow: at least one client, one command and one line, any command mix, ini file, host,
cookie, text or answer, any bounds. Of texts they ask what any file, environment and server satisfies: a
text is a sequence (`IsList`) without `Dead` in it (`IsText`), and the cut of a macro in an ini file is
missing or two numbers (`IsTemplate`), which the regular expression of `runnerMacro` (M321) makes sure of.

**The process, whatever feeds it** (`ProcessProofs`). The inductive
invariant of `ProcessSpec` is `Inv /\ ExitInv`. `Inv` has the types, "a client holds a line
exactly while it works", `CountsAddUp`, "the flag is false only if something was missed",
the disjointness of lines, and `WgCountsClients`. None of the exit properties is inductive by
itself: at the moment of the exit one must know that nobody can change the counters any more, which is
`ExitInv`: once main is in its own `Exit()` all clients are gone (from `wg = 0` and
`WgCountsClients`, by cardinality), lines handed over are over, and the partial sums compare with the
counters of the entries visited (`SumInv`), where each client's `success` is at most
its `requests` (from `CountsAddUp`), so that equal sums mean equal counters of every client. From it
follow `ProcessExit`, `ProcessStatus` and, with the lines' disjointness and a counting
argument for the capacity, `ProcessPromise`: each step is a step of `Workload` or a stutter.

`ProcessSteps` is the same for `Steps`, for each client with all the others around it. It needs `PlaceInv`,
that a client outside a session is at the first command: `SessionOver` puts it there (the code has a new
`stepCounter` for every line). `StepsThrough` is written as initial states and steps, because TLC takes no
`\A c : Queue(c)!Spec` as a property; with a fixed set of clients it says the same.

**The feeders** (`GoRunnerProofs`, `ListenerProofs`). Each is shown to implement `ProcessSpec`
(`GoRunnerIsProcess`, `ListenerIsProcess`) from a small invariant that says which lines have been handed over, and so
inherits every result above. `RowsKept` and `AcknowledgedRowsServed` are proved on top: the rows of a
replied request were all handed over, and at an orderly exit what was handed over is over.

**With one client**, `SoloStatusCorrect` proves that status 0 means that nothing was missed. With two it is
false (section 6), and that is why the theorem assumes `NClients = 1`.

**A session** (`SessionProofs`). `Inv` joins `CommandTimeIsElapsed`, `DeadlineKept`, `OwnValues`
and `MustCaptured` with two facts they lean on: `RepeatInv` (a repeat that is due has room
in `MsecRepeat`) and `SentInv` (what `last` and `opened` say of the requests sent). `RepeatsCorrect` is an action property
from it: a command is repeated if, and only if, the clock leaves room in `MsecRepeat`.
`StepsKept` is the refinement of `Steps`: that time only goes on makes the deadline pass once
(`TimePasses`), and `RepeatInv`'s budget, a sum below `MsecRepeat`, means that a command that is
repeated has one (`OnlyRepeatsRepeat`).

`StackCorrect` and `EstimateCorrect` are about sums over the commands, which `Sums` gives as a recursive
function. `OperatorProofs` has what they need of it. That a function with its equation exists
(`SumsExist`) is shown without induction: of the lengths that have none, the least one (`Least`)
would have the sums one shorter and one addition more; `SumsType` and `SumsGrow` go the same way. `StackInv` then
says that the requests of the commands before fit into the partial sum, and that those of the command
itself began a delay and a millisecond apart, as `commandTime` tells (`RequestsFit`, by division);
`EstimateInv` that the time elapsed is at most the partial estimate and `commandTime`.

**Start-up** (`CommandsProofs`). `CheckedInv` says that the checked part of the queue can be run,
`ChainInv` that the queue so far is a `Walk` along `DoCall`, and that a walk that has come to a
command twice goes round from there (`Round`: what follows the second visit repeats what
followed the first). A walk that ends can therefore have no repetition (`FiniteWalkIsSimple`), which
is `ChainCorrect`; neither fact is inductive without the other. `RampUpCorrect` needs only that the estimate is an
integer (`EstimateIsInt`, from `SumsInt`), and what division does (`QuotientFits`). None of the theorems asks for
settings that are not negative.

**Requests** (`RequestsProofs`). `ImplementsCommands`: every step of `Requests` is one of `Commands` or leaves it
alone, so that the theorems above hold of a runner with its macros and its sessions.
`RequestsTypeCorrect` needs of them that a ready queue is not empty. `RangeCorrect` rests on `TcpSent`: what was
sent belongs to the command, line and variables that are still there when it is looked at, and the
first place of the range's bytes, which `Seal` chooses, exists because the range is one (`Least`). `ReplyCorrect` rests on
`ReplyRead`: a reply was read from a buffer that an answer, or a part of it, had filled.

`NeverDiesCorrect` and `SentCorrect` are about the loops of replacements, for texts and tables of any
length. Their inductive invariants are: `MInv`, that a table has macros that the texts of its command
mention and nothing else (`TablesInv`), that it has all of them once the command is checked (`CompleteInv`), and
that the times of a runner that is ready are known but for those of PKSInput, and nothing else is taken for a time (`TimesInv`); `VarsInv`, that
session variables hold texts; `DeadInv`, that a client is dead only where evaluating a macro is fatal; and
`SentInv`, that what is under way is what `RunnerMacros` made of the fields. None of the two theorems'
properties is inductive by itself: both speak of tables that were filled long before.
The rest is about the values at one moment, level by level (`Levels`). *Never dies*: a digest has a value as
soon as the digests in its input have one, so the digests without a value after a level are those
that wait for one without a value before (`Caught`). This set shrinks with every level or some of
it wait for each other only; there are three digests, hence after three levels it is empty or they go round
(`ThreeRounds`). *Sent as meant*: if no value holds a macro that comes after its own, replacing one after the other is
replacing all at once (`ExpandAtOnce`, from `AtOnceTwice`: two replacements in a row are one); a
digest holds no macro, so that this passes from each level to the next (`AgreeMore`), and the third
level is what the macros mean. What they mean is independent of the tables: the environment for `{$..}`, the time for
`{%TIME..}`. The code agrees only where no name of the environment begins like a time's (`Clear`; section 6 has the
disagreement) and every time is registered (`Timed`), so both are preconditions.

Replacing, joining and cutting are recursive functions on sequences. `OperatorProofs` shows what they need of them,
again by least counterexamples: `NumbersInduct` and `SequencesInduct` say of a *set* of numbers or sequences, not
of a predicate, that it is all of them, and each fact about every text is stated as such a set. That the
function with the defining equation exists is one of these facts (`JoinsExist`, `LeftExists`).

**Cookies** (`HttpReqProofs`). `MapInv` ties `cookieMap` to the latest Set-Cookie of each key in
the session's log, `LoopInv` the header to the keys visited. `NeverLeftOut` shows that the
comparison with a prior cookie (R337) is always true, because a key's domain is never empty
(R394-398): that no cookie is missing depends on a line twenty lines below the loop, in an
earlier request. `HeaderCorrect` follows.

Only model-checked: liveness (`EveryLineServed`, `ExitsAfterInput`, `SignalEnds`, `RowSettles`,
`StartupEnds`), which is out of the prover's reach; every safety property of the passing runs is proved.

## 5. Not modelled, and why

- ini parsing, usage text, rows and summaries, hashes and date formats: text without state.
- AES, RSA, MD5, base64, the clock, otto, net/http, TLS: libraries or primitives, opaque in `Texts`
  and `TcpReq`. `decrypt` is used by a test only.
- in `Macros` and `Requests`: a macro whose text is formed where two values meet; digests of different lengths (all
  have `DigestLen`); macros among the arguments of a FuncVar; a TCP body with a digest or a time in it (only
  character digits decode); the numbers of a key, which the code takes modulo 256; the
  canonical spelling of header names; the contents of a `ReqUpload` file.
- `int32` counters are unbounded: a run of 2^31 requests is out of reach, and
  `exitStatus` compares two counters that wrap alike.
- `jmx2ini`: a one-shot converter from an XML tree to text, without state and without a meeting
  with the rest; `js/`: vendored scripts.

## 6. Where the code and its text disagree

- `lost_flag` (R767, R808): two clients update `foundAllSessionVars` by an unlocked read and
  write, one update is lost, and the status is 0 with a session variable missing.
- `empty_line` (G176-183): with lines of two or more fields the empty line that is to "quit"
  fails the field count first, and main exits with clients at work.
- `path_input` (G68, G196): the usage offers `http://localhost/john,pass1`, but the handler reads the body only.
- `one_per_name` (R336-338): a cookie is to be "replaced" by a more specific one of its name; both
  are sent, in the map's order.
- `env_time` (M123, M290): `{$TIME}` is to be "an env var macro", but everything that begins like a time is one,
  and is looked up first.

## 7. What could follow

- `Session` and `Clients` implement the same `Steps`, which knows nothing of answers: a module with the
  clock and the shared counters would also relate the variables of the one to the counters of the other.
- `Commands` into `Session`: the queue that `NewRunner` made is the one whose delays a session uses.
  `SessionAssumption` asks for a queue that is not empty, which `CommandsProofs` proves of every runner that is ready,
  and for delays and repeats that are not negative, which the code does not make sure of; the two are not composed.
