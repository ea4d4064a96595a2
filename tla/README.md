# iot_monitor in TLA+

A specification and verification project for the firmware in `src/`: the
`iot_monitor` program of Avnet's M18Qx LTE starter kit. One Linux process with
two threads (main, and the timer thread of `mytimer.c`) reads commands from a
terminal, blinks LEDs, samples sensors, sends readings to AT&T M2X over HTTP and
talks JSON over a Unix socket to the MAL manager that owns the modem. Nothing in
the program takes a lock.

## 1. Inventory

| Component | State | Operations | Talks to |
|---|---|---|---|
| Timer engine, `mytimer.c` | `g_head` list of nodes (one timerfd each), `IoTtimers_running`, the thread's poll set | start, stop (reference counted), create, create_ms, delete; thread: walk, poll, read, look up, call back | everyone below; the kernel's timerfds |
| WWAN LED monitor, `wwan.c` | `wwan_state`, `last_wwan_state`, `wwan_timr`, `wwan_val` | 125 ms sampler, blink timer, LED write | MAL client, engine |
| MAL client, `mal.cpp`, `maljson.cpp`, `jsmn.c` | `mal_busy`; reply tables owned by the callers | one socket transaction per call, parse of the reply | both threads call it |
| User LEDs, `binio.c` | `gpios[]` (timer id, rate, value), `ft_mode` | blink command, toggle callback, factory colour cycle | engine, factory and emissions tests |
| Timed M2X uploads, `m2x.c` | one timer id and three counters | `tx2m2x` starts, changes, cancels; callback uploads and cancels | engine, HTTP client, sensors |
| Factory and emissions test, `facttest.cpp`, `emissions.cpp` | `ft_mode`, key flags, `gps_start`, the search thread | borrow the red LED's timer, queries, position search, test of the wires | LEDs, MAL client |
| Command interpreter, `commands.cpp` | debug flags, tables | dispatch, completion, the commands | all |
| Line editor, `microrl.cpp` | line, cursor, history ring, escape state | insert_char and everything under it; `doNewLine` calls it from the timer thread | interpreter |
| M2X demo, `demo.c`; Quick Start, `qsapp.cpp` | key state, intervals, colour | a loop on main, a key interrupt, timers | LEDs, HTTP, MAL, sensors |
| HTTP client, `http.c` | `rsize`, the callers' buffers, a heap block per upload | curl transfers with write callbacks, repetition of GETs | uploads, demo, Quick Start |
| Sensor drivers | the HTS221's object with its calibration and last values; a mean in `lis2dw12.c` | register access, conversion | demo, uploads, commands; the LED callback |
| Main, `main.cpp` | options | picks one program, starts the engine's first users | all |

What is hard here, and what makes each component correct:

* **Engine.** Main and the callbacks insert and delete nodes at any time; the
  thread holds descriptor numbers across a poll round while the kernel reuses
  them; the last stop must join a thread that may sit in `read()`. Correct: one
  descriptor per node, a callback only for its own expiration, every due timer
  served, stop returns and leaves nothing; the pointers stay a list.
* **WWAN monitor and MAL.** Three transactions per sample can fail one by one;
  main uses the same manager and the same LED. Correct: the flag is given back,
  the blink timer matches the state, a stable network is shown.
* **LEDs.** Start, change and stop are chosen by a recorded id that the callback
  searches at the same time, and the factory test shares callback and timer.
  Correct: one timer and one reference per blinking pin, a blinking pin blinks,
  dark after the emissions test.
* **Uploads.** Three jobs share a timer; the callback cancels through the function
  main starts with; an upload takes seconds. Correct: the handle is the timer,
  a job sends what it promised and leaves nothing.
* **Line editor.** Zero bytes separate the words and end the line; saved lines wrap
  around in a ring; the timer thread types into the line as well. Correct: cursor
  and length in the buffer, the history is the latest lines that fit, Enter runs
  what is shown.
* **Demo and Quick Start.** Main spins on a variable of the key's interrupt handler
  and then reads what the handler stores after it; both write the LED. Correct: a
  press per round, a long press leaves, the LED tells the state.
* **Completion.** Tab compares the word with every command and inserts what they
  share, into a line whose word may go on behind the cursor. Correct: it only
  inserts, at the cursor, and stays in the line.
* **MAL replies.** Text from a socket, not terminated by the copy, is tokenized
  into a fixed table and copied into one of fixed entries. Correct: brackets
  match, a field that fits is read whatever follows the reply, a getter answers
  the field it is named for or the error.
* **HTTP.** curl delivers a reply in pieces of its choice and may break off at any of
  them; a GET is repeated on the same buffer. Correct: the caller reads the last
  transfer's reply, an upload that succeeds has the whole one, handles come back,
  every list of calls ends once the network holds.
* **Position search and factory test.** A thread polls the MAL while main waits,
  every transaction may fail, and the time of the start is stamped by another
  thread. Correct: main and the search never at the MAL at once, a search gets
  its whole time and ends, the receiver is off afterwards, a verdict on a wire is
  true. The WWAN sampler of the monitor does come in between.
* **Sensors.** Both threads poll the HTS221 through one object, whose calibration
  every poll writes again. Correct: a value computed alone is exact whatever
  was in the object before, and waiting for a sample ends.

`PROJECT.json` lists every component and, under `hazards`, each place where this
goes wrong without a test noticing.

## 2. Modules

| Module | Models |
|---|---|
| `IoTTimers` | `mytimer.c`, with the kernel's descriptor table; one call of create or delete is a step, the thread's loop is one step per system call or list walk |
| `TimerService` | what `mytimer.h` promises: a callback is paid for by an expiration of its own timer, one at a time |
| `TimerList`, `NodeList` | the pointer accesses of create and delete, one per step, and the abstract list they implement |
| `WwanMonitor` | `wwan.c` with the transactions of `mal.cpp` it makes, main's transactions and LED writes, and the network |
| `GpioLeds` | `binio.c`'s blinking with its callers in `commands.cpp`, `facttest.cpp`, `emissions.cpp` |
| `M2XSensors` | `m2x.c`'s jobs with `command_tx2m2x` |
| `LineEditor`, `HistoryRing` | `microrl.cpp`: every key, completion with `complet` of `commands.cpp`, escape sequences, the split into words; its ring of saved lines; `doNewLine` of `main.cpp` |
| `LineHistory` | what the history promises: the latest lines that fit, and a place in them |
| `KeyPrograms` | the loops of `demo.c` and `qsapp.cpp` with their key handlers and the LED |
| `HttpClient` | `http.c`: a request with its buffer, its write callback, its repetition or failure, and curl as its environment |
| `CloudPrograms` | the programs over it: setup and rounds of `qsapp.cpp`, `demo.c`, the uploads of `m2x.c` |
| `Jsmn`, `Nesting` | `jsmn.c`, a character per step; what it promises about brackets |
| `MalReply` | over `Jsmn`: `parse_maljson` with its table as memory, the copy of a reply, the getters of `mal.cpp` |
| `GpsSearch` | `check_gps` and `command_gps` over the GPS functions of `mal.cpp` |
| `FactoryTest` | over `GpsSearch`: `facttest.cpp`, `emissions.cpp`, Quick Start's search, the test of the wires |
| `Hts221` | the humidity sensor's object under the two threads that poll it |
| `IoTTimersProofs` | invariants and theorems of `IoTTimers` and `TimerList`, and the refinements of `TimerService` and `NodeList` |
| `LedsProofs`, `SensorsProofs` | the same of `GpioLeds` and `WwanMonitor`; of `M2XSensors` and `Hts221` |
| `LineEditorProofs`, `MalReplyProofs` | the same of `LineEditor` with the refinement of `LineHistory`; of `MalReply` and the tokenizer in it with the refinement of `Nesting` |
| `KeyProgramsProofs`, `FactoryTestProofs`, `CloudProgramsProofs` | the same of the modules they are named for |
| `MC*` | the instances TLC checks |

State carries the source's names wherever TLA+ allows. Definitions called
"Mutant" are plausible bugs of the definition that follows them; each property
is known to fail under one of them.

How the modules compose. `MalReply` extends `Jsmn`, `FactoryTest` extends
`GpsSearch`, `CloudPrograms` extends `HttpClient` and `LineEditor` extends
`HistoryRing`: the lower module has the operations, the upper one the callers and
`Next`. Four are shown to implement an abstract one, by TLC and by proof:
`IoTTimers` the `TimerService`, `TimerList` the `NodeList`, `LineEditor` the
`LineHistory`, `MalReply` the `Nesting`. Where one module of proofs is about two
specifications, the names of one carry a prefix (`ListInit`, `WwanNext`, `HtsSpec`).

How the models share the engine: `IoTTimers` has the engine in full. The modules
of its users keep what the engine shows them, a set of live nodes and the count,
and rely on what `IoTTimers` establishes: callbacks do not overlap, and an armed
timer keeps being served. Node addresses are reused after `free`, so a stale id
can denote a new timer in all of them.

### IoTTimers

`list` is the chain from `g_head`, `fdOf` the nodes' descriptors, `tfd` what a
number denotes in the kernel (closed, disarmed, armed, expired). The thread's
`tpc` goes top, poll, scan, lookup, invoke, callback; `blocked` is a `read()` of
a timer that has not expired: the descriptors are blocking, and between poll and
read a callback may have closed the number and a new timer got it. `orphan`
remembers the timer a blocked read waits on after its number was closed.
Cancellation is disabled except at the top, so a stop waits for the thread to get
there. Periodic timers only: no caller passes `TIMER_SINGLE_SHOT`. Not in the
model: `change_IoTtimer` (uncalled), `MAX_TIMER_COUNT` (the poll set has 1000
entries and the list is copied into it unchecked; only hundreds of demo runs, each
leaving a timer, come near it), and failures inside create: it returns 0 and
changes nothing here; what its callers do with the 0 is in `WwanMonitor`, `GpioLeds` and
`M2XSensors`.

Three constants choose how the program uses the engine. `Monitor`: `wwan.c` holds
a reference forever (`kill_monitor_wwan` is never called) and callbacks call the
engine. `MainDeletes`: main deletes timers while the thread runs, as blink and upload
commands do; no property about callbacks is claimed then. `ThreadMayFail`:
`pthread_create` fails. A call into a deleted node is a choice between using the
stale contents and a crash. The callers' starts and stops are balanced here;
`M2XSensors` shows one that is not when main and a callback cancel at once.

### TimerList

The heap keeps the `next` field of a freed node as garbage. The list is read off the
pointers as the one sequence that follows them (`IsChain`), if there is one that
ends; `Addresses` is finite, as an address space is. Nothing locks the list, so
nothing keeps two calls apart in the model. `handles` are the ids in the callers'
variables, which both threads may use, so that both may delete one timer; a node
freed twice is ignored or ends the process (`Crash`), as a null `g_head` does in a
deletion.

`broken` is history: a deletion and another call were under way at once. From then on
anything may be linked, and nothing is claimed. Until then the pointers implement
`NodeList`, where a create puts its node in front of the list it saw when it began, and
a deletion takes out one node. Two creates that overlap therefore lose the timers
inserted meanwhile, or bring back lost ones, which is the normal outcome (known
behaviours); `NoDanglingNode` says that no freed node is ever among them.

### WwanMonitor

The network is what the MAL would answer. A failed transaction leaves the reply
buffer uninitialized: an old answer, an error or an unparsable one, and the null
pointer `get_ipAddr` returns then is dereferenced (`dead`). An error answer differs
from "0.0.0.0" and lights the LED as if there were an address (`wwan.c:94`). `wwan_rate` is never
read and left out. `lost` is a history variable: the last blink timer could not
be created, which the code does not notice.

### GpioLeds

`pc` splits `do_gpio_blink` where the engine is called: delete, create, record.
The callback reads its node when it starts; a node main has deleted meanwhile is
stale or crashes. The search that finds no pin ends on the last one, as in the
code. `create_IoTtimer` may fail (`MaxFailures` times): `do_gpio_blink` records the 0
unchecked and keeps the reference it has taken, which `stray` counts. `program` is the monitor, with blink commands and factory tests, or the
emissions test, which runs without the monitor's reference.

### M2XSensors

Each engine call and each access to the shared handle is a step of `sensor_*`,
for main and for the callback. An upload is a step that begins and one that ends,
because it takes seconds and commands arrive in between. A count below zero, left
by a cancel during the upload, is kept as -1. As in `GpioLeds` a create may fail:
the handle is 0, the reference and the count stay, and `stray` counts it. `when` says how the user behaves:
waits for the uploads, types only while no callback runs, or at any time. A
double `free`, or an engine stopped under the monitor, ends the behaviour.

### LineEditor, HistoryRing

Nothing locks the line, so an insertion and an erasure are two steps each, the check
and the writes (`main`, `typed`), for main's keys and for the two calls of `doNewLine`
(`redraw`), and they interleave. A command runs between Enter and the next
prompt, with its words in the line, and a redraw may fall into it. When one thread's
check has been overtaken by the other's write at the very end or start of the line,
the write leaves it: `outside`, and the model stops. Tab, ^U, the history keys and a
single `memmove` stay one step. `kept` remembers what the redraw has to give back.

`cmdline` keeps its bytes, those behind the end of the line too, because `split` hands
out pointers into it and a word goes on to the next zero byte. A space is a zero byte.
`HistoryRing` has the ring byte by byte; `LineHistory` is implemented by reading the
saved lines out of it.

Divergences the model shows and the properties leave open, each in its statement.
Down (`microrl.cpp:157`) copies a shorter line over a longer one without clearing
it, and ^K only changes the length, so the last word Enter runs has a tail that
is not shown (`behind` in `ExecutesShown`). `doNewLine` on a full line, or inside an
escape sequence, deletes a character of the user's. The code refuses a line of exactly
`_COMMAND_TOKEN_NMB` words, where `microrl_config.h:43` says "exceed": `ExecutesShown`
admits either there. `microrl_config.h:36` counts the line's last byte as its
end-of-line zero, which an insertion that was overtaken writes over.

The words are those that begin where a byte that is not zero follows a zero byte or
nothing (`Starts`), in their order; each is the string at that place. Tab is one
step: `complet` compares the last word before the cursor, capitalized,
with every command and keeps those it begins, or stands in the middle of; what they
share is inserted. There are two users, because each one's lines would multiply
with the other's. "enters" never presses Tab; "completes" never presses Enter, so
his history stays empty. A completed line is typed text like any other to `split`,
and the words a line can have are the same. The table of the instance has the
cases of the real one: words that begin one command or several, a command longer
than what it shares, a match in the middle, a symbol that shares nothing.


### KeyPrograms

`press` is `button_press` or `bpress`. The handler's step `Edge` changes it first;
the colours (Quick Start) and the duration follow in steps of their own. `handler`
says whether main runs meanwhile: hwlib does not document it, so both are checked.
Time is in half seconds, `Seconds` is the difference of two `timespec`s with its
borrow, and the programs compare whole seconds with 3: a press of 4 seconds leaves and
one of 3.5 does not, although the help (`demo.c:230`, `qsapp.cpp:273`: "for >3 seconds")
lets it leave. `ExitMeansLong` says 4. `spans` are the last two times the handler has
measured: with a handler thread main may see the release first and decide on the
earlier one. A pin write of `do_color` is a step, so that colours of the
two threads mix. `keypress_time` outlives a run. A key held while a program starts
makes the handler take releases for presses (`taken`); main then decides on the time the
key was up. `-s` (`headless` is 2) gives the demo no end.

### HttpClient, CloudPrograms

A text is a sequence of the characters a caller searches for. The environment is
curl: it delivers the reply in any pieces (`Piece`), ends the transfer or breaks
it off (`TransferEnds`, `TransferFails`), and the write callbacks do what the code
does with a piece, zero bytes and all. What is never written of a buffer is `Junk`. The buffer of a GET has
`BufLen` bytes, 1024 in the code (`qsapp.cpp:165`, `demo.c:220`), and the copy has no bound
(`http.c:330`): a write past it is `outside`, where the model stops.
`CloudPrograms` gives main its lists of calls; results are ignored as in the code,
except in Quick Start's setup, which searches the replies. The updates of a location and of
a colour return early when the transfer fails, with their handle.

### Jsmn, MalReply

`Jsmn` handles a character per step, with strings and primitives in one. Its tokens
carry start, end and size; the open ones, innermost last, are the stack of
`Nesting`. `MalReply` gives it the replies the manager makes (and M2X's, without
the object around them), with garbage behind them, since the copy is not
terminated, and all short texts. `ReplyAssumption` says that a reply is JSON: a quoted
text is escaped, an unquoted value is one word, and no field has a zero byte. The
table is one array of bytes: a value that is longer than its entry spills over the
next key, and the next field is written over it. `s` is the size passed for the table, which one caller gives wrongly (known
behaviours). `sent` is the result of the transaction, which three of the getters look
at (`Checks`); the others parse whatever the buffer holds.

### GpsSearch, FactoryTest

A function of `mal.cpp` is a transaction: begun, then answered or failed. `gps` is
the search's place, `since` the seconds since `gps_start`, wrapped by the bound
`GPS_TO + 1` (anything later is alike). `stamped`, `age` and `last` are history.
`mal` are the threads inside a transaction, `mal_busy` the flag, set and cleared as in
`send_mal_command`. `FactoryTest` has main's queries, the key, the thread that searches,
the WWAN sampler in the monitor and Quick Start (`sampler`, the place in its three
queries: it looks at the flag before the first only), and after the search
the pairs of pins, which are joined or stuck. Programs follow each other as
processes do; the receiver stays as the modem was left. A NULL reply of a getter
ends the process, as the `std::string` it is assigned to does, and a reply the sampler
cannot parse does so, too.

### Hts221

An access of a register is a step. Of a word of calibration the model keeps whether
its two parts are there, missing or zero for an access that failed, and of a
computed value only what spoils it. `Registers` is the order of the `switch`: a
word's lower part erases the upper one until that is read again. The two words of
ten bits get their bits in one step: with the optimization of the default build the
assignment and the `|=` that follows are one store. `command_hts221` makes an object
of its own and is not in the model. `clean` is history: the thread has read
without a failure and without the other thread since its call began.

## 3. Runs

| Run | Instance | Shows |
|---|---|---|
| `TimersCallbacks` | 3 addresses, 2 descriptors, 2 users | refinement of `TimerService`, due timers served |
| `TimersFactory` | 2 addresses, 3 descriptors, no monitor, failing thread | no leak, thread while referenced, stop returns and is quiet |
| `TimerListCalls` | 3 addresses, 2 threads | list implemented, no freed node linked, until a delete overlaps |
| `WwanShown` | 2 commands, 3 network changes, 2 faults | timer matches the state shown, a stable network gets shown |
| `GpioCommands` | 3 pins, 3 commands, 1 failed create, both programs | balance, blinking, dark |
| `M2XJobs` | 2 devices, 3 commands, 1 failed create, three kinds of user | handle is the timer, a lone job is sent whole |
| `LineEditor` | line of 5, ring of 5 bytes, 3 words, 5 commands | history implemented, words run as shown, redraw gives the line back, completion only inserts |
| `KeyPrograms` | both programs, handlers and users, presses of 3.5 and 4 s, 2 runs of the demo | a press per round, presses of 4 s leave, colours |
| `HttpRequests` | replies of up to 4 characters, a buffer of 4, 1 lost update | replies read, or the buffer left, uploads whole, handles, Quick Start's decision, calls end |
| `MalReplies` | 3 fields, some of 5, entries of 2 bytes, 2 characters behind, all other texts of 4 | nesting implemented, fields and getters |
| `FactoryGps` | a timeout of 4 seconds | main and the search never at the MAL at once, receiver off, verdicts, whole searches that end (but the emissions test's); no deadlock |
| `Hts221` | a round per thread, 1 failed access | lone readings are exact, waiting ends |

Why the bounds are enough. A reused descriptor needs two timers in one poll round
and a third address; a lost insertion needs two threads and two
nodes; unlinking
has the cases head, middle and end, which three nodes give. A pin's life is
start, change, stop: three commands, and three pins are all there are. The
network visits every pair of states in three changes. Two devices are the
smallest number that share a timer, three commands start both jobs and cancel
one. A ring of 5 holds two lines, wraps at every offset and refuses a line of 4;
three words are refused and two are not. Two runs
of the demo show what `keypress_time` carries over; the key is not bounded.
A reply of three characters comes in one, two or three pieces, fits the longest
text a caller searches for and leaves room for the zero byte behind it, one of four
does not; failed transfers of a GET are not bounded. Entries of
two bytes are spilt over by values of three; a reply has three fields as the
manager's shortest have, `errno`, `errmsg` and one more, and five where a getter reads the
last of them. Spans of 7 and 8 half seconds lie on either side of the 4 seconds. One
failed create leaves one reference behind, and every later command meets it. `GPS_TO` of 4 lets several
polls pass before the time is over. One failed access spoils any register of any
call, and a round of a thread polls twice, so that the second call can repair the
first.
`CHECK_DEADLOCK FALSE` stands where commands, rounds or inputs are bounded or the
process may die.

Fairness. The operating system schedules both threads and time passes
(`Expire`, weakly fair); a callback returns. For `StableIsShown` the sampler and
the blink timer are strongly fair: the timers are periodic and the MAL is not
busy at every tick forever, as main's transactions end. `LoneJobEnds` assumes that
sensors and the MAL answer: `m2x.c` spins on a sensor without limit and the MAL
read has no timeout, so without this the code promises nothing.
`LongPressesEnd` lets main, which spins, see each press (strongly fair), the
handler return and the user go on using the key.
`CallsEnd` has the server answer and main go on, and its premise is that from some
time on no transfer fails: a GET is repeated without end, so nothing less will do.
`SearchEnds` needs the search thread and time to go on, and holds however the
transactions fail; nothing is claimed of the emissions option, whose message
(`facttest.cpp:118`) promises a search without a timeout, which the code ends anyway. `ReadingsEnd` has both threads scheduled and a powered chip go on
making samples; it is stated for a chip that was found at the start, since without
one the loops of `m2x.c` spin for ever, and for a bounded number of rounds.
`DueIsServed` and `StopReturns` except one state, the thread waiting in `read()`
for a disarmed timer (interval 0) that got a reused number: the model reaches it,
and it is a hang of the code.

## 4. Proofs

All of it holds for every value of the constants; the assumptions are the named
`ASSUME`s of the modules. Each proof has one lemma or step per action and a last
step by PTL.

`IoTTimersProofs`, of `IoTTimers`: `TypeOK`, `OneFdPerNode`, `StoppedIsQuiet` and
`RunningHasThread`, for every set of addresses and descriptors, every bound and the
three mode constants. The invariant is the conjunction of types,
`OneFdPerNode`, `Slots` (what the thread remembers of a poll round is well formed
and, when only callbacks delete, the node about to be called is linked) and
`StopShape` (how far the stop is, against the thread and the count). None of the
parts is inductive alone: `StoppedIsQuiet` needs the flush to have emptied the
list, which needs that no one else creates meanwhile; closing a descriptor keeps
`OneFdPerNode` only because no other node has it.
The engine implements `TimerService` when the monitor holds its
reference and main deletes nothing (`Monitor /\ ~MainDeletes`), the case
`TimersCallbacks` checks. A timer's credit is what is due in the kernel plus the
callback in flight. Beyond the invariant above the proof needs that no read waits on
a closed number, that the number just read is still open, and that a callback in
progress is a node's. With deletions from main the refinement is false: that is the
hazard of `mytimer.c:204`.

Of `TimerList`: `NoDanglingNode` and `ImplementsList`, for any finite set of addresses and
any callers. The invariant (`ListInv`) holds until a deletion has met another call:
the ids held are allocated, a deletion is alone (`Calm`), the pointers from `g_head` and
from every node about to be published form lists of held nodes (`HangsOn`), such a node
is nobody else's (`Inserts`), and the cursor of a walk stands before its node (`At`). That
a chain is unique is the lemma `OneChain`; that the pointers after an
insertion or an unlinking are the longer or the shorter one, `Prepended`,
`Beheaded` and `Bypassed`.

`KeyProgramsProofs`: `TypeOK`, `OnePressPerRound`, `ColourShown` and `ExitMeansLong` for every
choice of programs, handlers, users and runs. For the first two
the invariant adds that a press that shows in the variable was handled since main
last saw a release, from the moment the variable was cleared on, and that main is
past the first spin loop only on such a press. For the LED it adds what holds in
the middle of `do_color`: at most one thread writes unless `raced`, the pins it has
behind it show its colour, and unless the handler has yet to take back its white,
that colour is `current_color`. For `ExitMeansLong`, an
action property, it adds that the time main reads is the last the handler has measured
or, while it has yet to store that, the one before (`Stored`), which is that of the
press main has watched (`HeldSoFar`), and that the borrow gives whole seconds
(`SecondsAre`).

`LedsProofs`, of `GpioLeds`: `TypeOK`, `TimersBalanced`, `DarkAfterEmissions`. In the middle of a
call the balance is off; the invariant says by what: live timers are those of the
pins not being changed, each with one of its own, plus the one created and not yet
recorded (`Owns`); references count the same, and the failed creates (`Counted`); and which callbacks can
still write an LED while the emissions test ends (`Emits`).

Of `WwanMonitor`: `WwanTypeOK` and `TimerMatchesState`. The state variables and the timer
change together in `Show`, so the invariant (`WwanAgree`) is the property at all times,
without its guard.

`SensorsProofs`, of `M2XSensors`: `TypeOK` and `HandleIsTheTimer`, for any devices, counts and users.
The invariant says where each thread can be (`Places`), that they take turns unless
the user is "any" (`Turns`), how far timer, handle and count are apart at each point
of `sensor_*` (`Halfway`, `Balance`), and, for a job that runs alone and until a create fails, that the counts are
what is owed, to one device at most, and the handle exists exactly while something
is owed (`Lone`).
Of `Hts221`: `AloneIsExact`. The invariant says that a thread inside a call has a plan
that ends in a reading (`Planned`), and, as long as it is `clean`, that the words it
has read in this call are whole, and after it all of them (`CleanIsOk`);
the order of `Registers`, in which a lower part erases the upper one before that is
read, is what makes a step of the thread keep this.

`FactoryTestProofs`: `MalExclusive`, `GpsReleased`, `XioVerdict`, `SearchIsFull`, for every
timeout. The invariant places main and the search against each other (`Where`,
`Places`), relates the flag to who is inside (`Flagged`) and the sampler to the programs
it runs in (`Sampling`), relates the receiver to how the search is left (`Released`), the time
since the stamp to the search's age (`Timed`), and the levels read to the wire
(`Levels`).

`CloudProgramsProofs`: `ReplyIsRead`, `UploadReplyWhole`, `OnlyFailedUpdatesLeak` and
`DecidesOnReply`, for replies and buffers of any length in any pieces, up to a write past
the buffer. The invariant describes
the buffer during a transfer (`Delivered`: what came, then what was there), the
caller's text by its first zero byte (a least number, by well-founded induction's
`WFMin`), the heap block (`UploadShape`), the handles (`HandleHeld`) and what Quick
Start knows of the account (`Knows`).

`LineEditorProofs`: `TypeOK`, `ImplementsHistory`, `NewLineRestores`, `ExecutesShown` and
`CompletionKeeps`, for every length of line and ring, any letters and any table of
commands that fits `LineAssumption` and `TableAssumption`. The invariant (`EditorInv`)
has the types of the line and describes the ring by marks: there are a number of
lines `n` and offsets `f[0..n]` from `begin`, each `f[k + 1]` behind the header and the
line that stands at `f[k]`, the last of them the end, and the place in the history is
one of them (`RingAt`). Saving drops marks at the front until the line fits and adds
one (`Saving`); the list of the texts at the marks is the abstract history, and what
`LineHistory` counts as taken is the offset of a mark (`TakenIs`). `NewLineRestores`
needs that the line without the space the redraw has typed (`Unspaced`) is `kept` as long
as no one edits (`KeptIs`); what the other thread has checked meanwhile is in the types
(`Others`). `ExecutesShown` relates the words of `Split`, which come from places in the
buffer, to those of `Words`, read letter by letter: an induction over how much is read
(`ReadTo`), with the number of words begun so far. `CompletionKeeps` follows what each
insertion does around the cursor (`Around`).

`MalReplyProofs`: `ImplementsNesting`, for any texts, any length of the table of tokens and
any reply; `ReplyRead` and `ValueAnswered`, for every accepted reply with any number of fields, keys and values of any
length, anything behind the reply and any sizes that `TableAssumption` admits, from
`ReplyAssumption` (the manager's replies are JSON). The stack of `Nesting` is the types of the tokens that are open, in their
order; a new token leaves the stack of the ones before it alone (`SameStacks`),
and the last one that is open has only ended ones behind it (`FlatStack`). The invariant
(`JsmnInv`) has the types and that positions count from 1, so that an end that is set
is never mistaken for one that is not.

The invariant of a reply (`ReplyInv`) gives each field a place `pt[n]` in the text
(`Placed`), and says that the tokens so far are those of its parts with their
places (`RightToken`), where in the reply the tokenizer is and which objects are open
(`Stage`), and what of the table is filled when token `i` is due (`Progress`): the
entries before it hold their fields with a zero byte behind, those after it
are empty, unless they are spoilt (`Filled`, `Unfilled`, `SafeOnes`). That a rendered reply has
such places follows part by part (`JoinIs`, `LaidOut`, `ReplyPlaced`); each step of the
tokenizer in it ends at the next place (`LexStep`; for a text between quotes, since
no backslash takes the quote that ends it, `StringEnds`), anything behind the
reply leaves its tokens alone (`AtTail`), and each pass of the loop of `parse_maljson`
fills what is due (`FillStep`).

Induction over data is possible here in one form, and the proofs of the last two
modules use it: a set of numbers that is not empty has a least one (`LeastNumber`, from
the library's `WFMin`), hence what holds at 0 and passes from a number to the next holds up
to any bound (`UpTo`), and a function defined by recursion over `0 .. N` exists
(`Recursion`). The walks of the models are written as such functions.

Only model-checked: liveness under fairness (`DueIsServed`, `StopReturns`, `StableIsShown`,
`Blinks`, `LoneJobEnds`, `LongPressesEnd`, `CallsEnd`, `SearchEnds`, `ReadingsEnd`), out of the
prover's reach.

## 5. Known behaviours

What the models contain and the properties except, each in its statement, and what
was read in the code that is not modelled.

* Nothing orders the calls of `create_IoTtimer` and `delete_IoTtimer` from main and a
  callback: two creates at once lose a timer, and a delete beside another call
  follows or leaves a stale link (`mytimer.c:112`). The runs of `TimerList` contain
  both; the properties say what is left.
* Nothing protects the node of a callback about to be called from main's delete
  (`mytimer.c:204`).
* A `create_IoTtimer` that fails leaves its caller a timer id of 0, a reference to the
  engine and, in `m2x.c`, a count that no callback works off (`binio.c:133`, `m2x.c:209`).
* A key held for more than 3 and less than 4 seconds does not leave the demo or Quick
  Start (`demo.c:159`).
* A line of exactly `_COMMAND_TOKEN_NMB` words is refused (`microrl_config.h:43`).
* A reply to a GET that is as long as its buffer, or longer, or starts behind what an
  earlier transfer left, is written past the buffer (`http.c:330`).
* The sampler looks at `mal_busy` once for three queries, and main and the search do not
  look at all, so that transactions overlap in the monitor and in Quick Start.
* A value of the HTS221 computed by one thread while the other reads the calibration
  again uses words without their upper part (`HTS221.cpp:114`), and `do_hts2m2x`
  uploads it.
* `mal_busy` is cleared by the first of two transactions to end (`mal.cpp:116`).
* A factory test during which the callback has moved `ft_mode` on does not restore
  it (`facttest.cpp:409`), and the LED stays in the colour cycle.
* The three M2X jobs share a timer, which the first one to end cancels
  (`m2x.c:74`); the other's uploads stop.
* `getModelID` prints the result of a failed send with `%s` (`mal.cpp:189`).
* `getOperatingMode(om, 4)` gives the size in entries where bytes are meant
  (`commands.cpp:601`). An array's `ARRAY(n)` is written over the entry before it
  (`maljson.cpp:70`). A value of 50 bytes or more spills into the next entry.
* A POST's reply in more than one piece makes curl break off, so the upload fails.
  Quick Start's reply buffer is neither initialized nor cleared, and `last_lat`,
  `last_lng`, `last_alt` (`qsapp.cpp:152`) are never stored.
* The factory test stamps `gps_start` after it has created the search, the emissions
  test not at all; its test of a pair of pins goes on with the `r1` and `r2` of the one before
  when a read fails; with the emissions option `check_gps` prints that the timeout
  is disabled and sets `done`. `-r` with `-9` leaves the receiver on.
* Completion: a word that stands in the middle of a command gets that command's
  tail (`PEEK`, in I2CPEEK, becomes `PEEKEEK`); a Tab inside a word splits it; `DE`, which
  DEBUG and DODEMO share less of, loses a character. With as many words as
  the array holds and a space before the cursor, `tkn_arr[-1]` is written.
* `check_crc` of the HTU21D and the TSYS02D aligns its divisor at bit 31 while it tests from
  bit 23; the byte it returns is always zero, so no checksum ever fails
  (`HTU21D.cpp:156`). A negative thermocouple temperature comes out positive, because
  the masked word is unsigned (`MAX31855.cpp:87`).
* The demo makes an ADC timer in every run and deletes none (`demo.c:270`).
* The HTU21D's `setOpMode` writes the complement of its argument; `KMA36.hpp:145` adds the
  sum to the bytes and then compares it; `MS5637.cpp` computes the temperature
  unsigned; a repeated `HTS221` command prints the humidity as the temperature
  (`commands.cpp:760`); `lis2dw12.c:350` resets the divisor of the mean while
  another thread may be about to divide.

## 6. Not modelled

Formatting, logging and wording; option parsing; URLs, headers and bodies sent;
the conversions of sensor readings, the floating-point ones (MS5637, TSYS01, all
scaling) because no property about integers can judge them, the shifts and masks
because a step of the machine is all they are; the register sequences of the
LIS2DW12 and KMA36, whose chips' behaviour the repository does not say; the ADC,
I2C and SPI tests of the factory test and the commands that read a value and print
it; the demo's relay and ADC timer; `change_IoTtimer` (uncalled) and the limit of
the poll set, whose 1000 timers no caller creates; a kill of the process at an
arbitrary point, after which nothing is kept but what the modem keeps. The build
files and scripts hold no program state.

## 7. Plan

The modules of the first plan are written and their invariants proved where the
prover reaches. What is left, in this order: the LIS2DW12 under the LED callback and
main, once its chip's behaviour is fixed from the data sheet; the relay and the ADC
timer of the demo.
