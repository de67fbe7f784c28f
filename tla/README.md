# Specifications of the embedded driver

TLA+ specifications of the hardware driver for the ESP32 and the Raspberry Pi,
with the configurations that TLC checks them under and theorems about them that
TLAPS proves. The driver offers one set of classes to portable programs and
implements each of them twice, in `src/driver_esp32` over FreeRTOS and the
ESP-IDF, and in `src/driver_pi` over the C++ library, Linux and the pigpio
daemon; `src/driver.hpp` selects one by `BUILD_TARGET`. The repository has no
tests, and next to no documentation apart from its comments. What a class
promises is therefore taken from its name, its comments and its twin on the
other target.

## Inventory

| Component | State it keeps | Operations | Who else changes it | What makes it correct |
|---|---|---|---|---|
| `TaskQue` (Pi, `task.hpp`) | a `std::queue`, a mutex, a condition variable | `push`, `push_from_intr`, `pop`, timed `pop`, `empty` | all threads | it is a FIFO channel; nobody sleeps beside an element |
| `TaskQue` (ESP32) | a FreeRTOS queue of fixed length | the same | tasks and interrupts | no element is lost unless the queue is full |
| `TaskEventVar` (ESP32) | an event group | `set`, `clear`, `wait_for`, `wait_for_one`, `is_set` | tasks, wifi event handlers | a bit that is set releases those that wait for it |
| `TaskEventVar` (Pi) | bits, and a mutex and a condition variable per bit | the same | all threads | the same |
| `DelayUntil`, `start_task`, `Time` | the next time to wake up; the clock | `wait_for`, `get_ms`, ... | - | steady period, also when the clock wraps |
| `TcpConnector` (ESP32) | flags, error counter, the socket, the address, an event group | `init`, `connect_to_server`, `disconnect_from_server`, `write_bytes`, `read_bytes`, waits | two wifi event handlers, several tasks, no lock | no announcement is lost, one socket at a time, sending gives up in the end |
| `TcpConnector` (Pi) | flags, error counter, the socket | the same | several threads | the same |
| `NeoPixel` (ESP32) | the buffer, position and half, a semaphore, the RMT memory | `init`, `set_color`, `set_brightness` | an interrupt handler, the transmitter | the transmitter finds each byte in time |
| `NeoPixel` (Pi) | colours, PWM words in memory that DMA reads | `init`, `set_color`, `show` | the DMA engine | words encode the colours |
| `PrefManager` (Pi) | a JSON document, `config.json` | `init`, `read_*`, `write_*`, `commit` | a crash of the program | what is written is read; what is committed survives |
| `PrefManager` (ESP32) | an NVS handle | the same | other tasks, a restart of the chip | the same |
| I2C master (ESP32) | command links on the heap | `isc_scan`, `isc_probe`, reads and writes of bytes and registers, `isc_master_init` | several tasks | no call uses up the heap |
| I2C master (Pi) | a table of daemon handles by address | the same, 16-bit registers, `isc_master_connect_device` | several threads, other clients of the daemon | a call reaches the device it names |
| `Spi`, `Semaphore` (ESP32) | device handles, a FreeRTOS mutex | `spi_init`, `spi_add_device`, `spi_send` | several tasks | a call gets its own answer; nobody waits for the bus for ever |
| `Uart` | the vendor driver, or a file and its name | `uart_init`, `uart_read`, `uart_write`, `uart_change_baudrate`, `uart_flush_rx` | the sender; the system clock | a read gives the next bytes and ends in time |
| `Sftp` (Pi) | a session of a client library | `upload_folder`, `upload_file`, `download_file` | failing transfers, a crash | no file is deleted that was not uploaded; `true` means uploaded |
| `add_wifi_network.py` (Pi) | `wpa_supplicant.conf` | one edit at each start of a station | a power failure | the network gets in, the others stay as they are |
| I2C slave, `misc`, `log`, `utils` | none, or that of vendor drivers | straight calls | - | - |

What is hard in this code is concurrency without locks (`TcpConnector`,
`TaskEventVar` on the Pi, the NeoPixel interrupt), waiting (condition variables,
event groups, a semaphore without a timeout, clocks that wrap or are set), error
paths that return early (I2C, sockets, file transfers), and files that are
rewritten in place. `PROJECT.json` lists these
hazards with the line where each bites and the properties that cover it.

## The modules

| Module | Models | Run |
|---|---|---|
| `Fifo` | a channel: what `TaskQue` promises | (property of `que_blocking` and `tasks`) |
| `TaskQuePi`, `TaskQuePi_proofs` | `TaskQue` of the Pi | `que_blocking`, `que_timed`, `tasks` |
| `TaskEventVarPi` | `TaskEventVar` of the Pi | `tasks`, `event_pi_wait` |
| `DelayUntil` | `DelayUntil` of both targets | `tasks` |
| `TaskEventVarEsp` | the event group class of the ESP32, extended by the next | |
| `TcpConnectorEsp`, `TcpConnectorEsp_proofs` | `TcpConnector` of the ESP32 with its wifi handlers | `tcp_esp` |
| `TcpConnectorPi` | `TcpConnector` of the Pi | `net_pi` |
| `AddWifi` | `scripts/add_wifi_network.py`, which the station mode of the Pi starts | `net_pi` |
| `Sftp` | `Sftp` of the Pi | `net_pi`, `sftp_folder` |
| `NeoPixelEsp` | `NeoPixel` of the ESP32 with interrupt and transmitter | `neo` |
| `NeoPixelPi` | `NeoPixel` of the Pi with the DMA transfer | `neo` |
| `Prefs` | a store of preferences: what `PrefManager` promises | (property of `pref`) |
| `PrefManagerEsp`, `PrefManagerPi` | `PrefManager` of both targets | `pref`, `pref_esp_real` |
| `IscEsp`, `IscPi`, `IscPi_proofs` | the I2C masters of both targets | `bus`, `isc_pi_write` |
| `SpiEsp` | `Spi` and `Semaphore` of the ESP32 | `bus` |
| `Uart` | `Uart` of both targets, and the millisecond clocks | `bus` |
| `MC*` | instances with small constants, and compositions | |
| `Tasks_proofs`, `NetPi_proofs`, `NeoPixel_proofs`, `PrefManager_proofs`, `Bus_proofs` | theorems about the parts of the `MC` module of the same name | |

Several instances hold more than one part. `MCPrefManager`, `MCIsc` and `MCNeoPixel`
have both implementations of a class and choose one in the initial state, as
`BUILD_TARGET` does in the build. `MCTasks`, `MCNetPi` and `MCBus` have the classes that
a program uses side by side without a connection between them; `part` says in the initial
state which of them the behaviour is about, since interleaving what does not
interact would only multiply states. `MCTcpConnectorEsp` has the two `usage`s of the
class. The `MC` modules with parts of more than one constant declare these constants,
with their assumptions, and the `.cfg` gives them values, so that the theorems are
about any. What does interact is composed: `TcpConnectorEsp` with `TaskEventVarEsp`, and in
`MCNetPi` the start of `TcpConnectorPi` with `AddWifi`, where `init` waits for the
script and a power failure hits both.

Each specification starts with its constants, the state under the names of the
code, and `Init`; then come deviations, small changes of the code that a
property must notice (they are named in `PROJECT.json` under "mutants", and `Next`
does not use them); then one action per operation, or per step of it where
another thread, a handler or a crash can come in between; then the properties.
`PROJECT.json` maps every definition to its lines.

### TaskQuePi

A consumer is idle, waiting on the condition variable or woken, in one of the two
forms of `pop`. A step is what happens under the mutex. `Push` puts the
element in and unlocks; `NotifyOne` is a step of its own, because `push`
notifies after its unlock, and in between anybody may take the element.
`pop(item)` looks at the queue again when it is woken; the timed `pop` does not,
and takes from whatever is there. The C++ library is external: a wait may end
without a notification (`SpuriousWakeup`), and a timeout may come at any time.
`front()` and `pop()` of an empty `std::queue` are undefined behaviour, to which the
model gives no meaning: every thread goes to the label "undefined" and nothing
happens any more. A property therefore speaks of the program until then, and
`PopsReturnElements` of whether it comes to that.

* `que_blocking`: with `pop(item)` only, the queue implements `Fifo`, no `pop` finds it
  empty (`PopsReturnElements`), no element is there while every consumer sleeps and
  no notification is under way (`NoStrandedItem`), and consumers are served
  (`WaitersServed`).
* `tasks`: with both forms of `pop` the queue implements `Fifo` until a timed `pop`
  takes from an empty queue: nothing is lost by one that gives up.
* `que_timed`: a timed `pop` takes from an empty queue. This is a bug.

Beside a timed `pop`, `NoStrandedItem` does not hold: a timed `pop` that is notified but
gets the mutex after its deadline returns `false`, and the notification is used up
while a consumer in `pop(item)` sleeps beside the element until the next `push`.

### TaskEventVarEsp and TcpConnectorEsp

Bits of the event group are a set; FreeRTOS is external: setting bits wakes
every waiter whose condition holds, and a waiter of `wait_for_one` clears its bits
in that moment. The connector has the wifi event handlers, which one event
loop runs one after the other, and any number of tasks in `connect_to_server`,
`write_bytes` and `disconnect_from_server`, each a chain of steps named by `pc`.
No lock protects the flags, the counter or the socket, and none is modelled: a handler
that changes several of them does so in as many steps. lwIP
and the access point are external: the link goes up and down, `connect` and `send`
may fail, the peer may go away.

In `tcp_esp`, with the usage "tasks", a bit that a handler has set and not withdrawn
is in the event group, or held by a task that is about to set it again
(`BitsNotLost`); no connection outlives `SEND_FAIL_MAX_FOR_DISCONNECT` sends that
failed in a row on it (`GivesUpInTime`). The counter of the code is not restarted by
a disconnect of the application or of a failed `connect`, so that the next connection
may be given up after fewer failures of its own; the property counts those of each
connection (`fails`, which starts again with each socket) and says that it is not
more. And calls return (`CallsReturn`). With the usage
"single", in which one task looks at `is_connected()` before it connects, there is
one socket and it is the one that is remembered (`SingleHasOneSocket`), on all
error paths. With two tasks that does not hold: the class has no lock.

### TaskEventVarPi

The bits are loaded and stored in separate steps, under a mutex per bit in `set` and
under none in `clear`. `SetReleasesWaiters` (run `tasks`): who waits on a bit that is
set is released, although `set` notifies one bit after the other.
`event_pi_wait` shows that a wait does not look at the bit first: who comes after
the `set` waits beside the set bit.

### DelayUntil

`now` is the true time in the unit that the target counts: on the ESP32 ticks of
`TICK_MS`, which it sees modulo `WRAP`, on the Pi milliseconds of a clock that does not
wrap. `NeverOversleeps` holds for both, however late
the caller is and wherever the counter wraps. `Steady` says that a call in time wakes
exactly one period after the last wake-up was due, also on the Pi, for which
the repository's `README.md:19` speaks of "a simple rel. wait": the code
(`driver_pi/task.cpp`) computes an absolute time. `Steady` leaves out the one call in
which the counter of the ESP32 wraps: there the comparison of the code goes
wrong, the ESP32 restarts its period, and the wake-up comes late by
what the caller has used already. After an overrun the Pi returns at once and the
ESP32 sleeps a full period.

### TcpConnectorPi, AddWifi and Sftp

`TcpConnectorPi` has a thread that initialises and connects and a thread that sends
and, if `app_disconnects`, disconnects too; every access to a shared member that the
other thread may see in between is a step. Neither `connect_to_server` nor
`disconnect_from_server` looks whether there is a connection. The initial state chooses
how the class is used: freely, or by threads that ask `is_connected()` first
(`asks_first`). The model has both, and the types hold in both; what `is_connected()`
says (`OpenIsConnected`), `NotHasty` and `DeadPeerNoticed` need threads that ask. In free use
a disconnect during a `connect` leaves the flag true over no socket, a connect over an
open connection leaves the old flag over the new socket and loses the old one, and the
next connection inherits the failures of the last.

The kernel is external: a
peer that goes away is `lost` first, while sends still succeed, and `dead` once that
is noticed. `disconnect_from_server` shuts a socket down and never closes it,
and a `connect` that fails leaves its socket as well, so descriptors only get
fewer; the model has this, and it is why no property promises a reconnect. The error
counter outlives the connection it counted for when the application
disconnects, so `NotHasty` speaks of programs that leave disconnecting to
`write_bytes`.

`AddWifi` works on the lines that the script tells apart. The loop runs over the
indices of the list as it was and pops lines on its way; the line that moves up is
tested only for what comes later in the body, and a `disabled=1` at the end of the list
ends the script with an `IndexError`, before anything is written. `OthersKeepPsk` and
`Converges` say what holds all the same, over power failures, for files that name
a network before its password (in others the password is not updated). Not
promised, and not true: that other networks stay disabled, and that a power failure
during the write leaves them in the file.

`Sftp` names each content by the local path it was first at. `DeletesUploaded`: whatever
transfers break off and wherever the process ends, a file is deleted only while its
content is whole on the server. `TrueMeansUploaded` is about the result over several
files. But `upload_folder` gives all files the same remote path, so that each upload
writes over the one before, whose file has been deleted: `sftp_folder` shows that its
content is then nowhere. This is a bug.

### NeoPixelEsp

The RMT memory has two halves of `SLOTS` bytes. The task fills both, starts the
transmitter and sleeps; the transmitter raises an event after each half, and the
handler refills that half; a pulse of length zero ends the transmission. The
interrupt handler is two steps, since the event is cleared only after the copy.
That the handler is done before the transmitter has sent another half, 40 us, is an
assumption (guards of `SendSlot` and `EndOfTransmission`): without it the code cannot
work. When `malloc` finds no memory, `set_color` writes through a null pointer, and the
exception starts the chip anew (`SetColorWithoutMemory`). `neo` checks one to eight LEDs, so that the bytes fill less than one half,
end in the middle of a half, and end with one; more LEDs only repeat this, and
the theorems are about any number.

### NeoPixelPi

Each bit of a colour becomes three bits in words of 32, written into `PWMWaveform`,
copied to what the DMA engine reads, and put on the wire word by word while
`set_color` sleeps. `StripShowsBuffer` reads the wire as a strip does and compares it
with the buffer: the position of each bit, words that hold bits of two pixels,
leftovers of an earlier transfer and the cut-off of the length do not
show. The strips fit into `NUM_DATA_WORDS`, as the code's own constant demands.
`numLEDs`, which the loops and the length use, is assigned nowhere; the model takes
it from `Garbage`, 0 included, which an object in static storage has, and stops
where the code would leave the vector. The brightness is applied to the
stored colours in each `show` again; the property is about the buffer after that.

### Prefs, PrefManagerPi and PrefManagerEsp

`Prefs` has the preferences as the program sees them and as the storage holds them.
`Answers` says which answers a read may give: the exceptions of each target are
there for a reader to see, instead of being left out.

* Pi: the document in memory carries the JSON type of each value, since the read
  functions test it: `read_i16` tests `IsUint` and so never finds a negative
  number. `commit` is two steps, as `fopen` truncates the file; a crash in between
  leaves a file that is not JSON, the next `init` leaves a null document, and every access
  then is an assertion of rapidjson. A double that is no number has the same
  effect. `write_str` to a key that is there stores a pointer to the caller's
  buffer; the run assumes that callers leave such a buffer alone (`KeepsBuffers`),
  and `PiIsPrefs` fails if they do not (`PiImplementsPrefs` has it as its hypothesis). A crash is one of the program, not of
  the machine: the file system keeps what was written.
* ESP32: a string is stored with its terminator where there is room. `read_ary` asks
  for the length and then for the bytes, and another task may write in between.
  Either call of the NVS may fail, and the caller may expect less than is stored:
  then `read_ary` answers the default, and `read_str`, which ignores the failure,
  what the caller's buffer had. These answers are a call of their own in `Prefs`
  (`Miss`); a read that the storage answers gives what was written last.
  `read_double` and `read_float` pass a length that is not initialised:
  they may miss what is stored, which `pref_esp_real` shows. The NVS keeps, at
  a restart, of each key what was committed or what was set last.

Keys are used with one pair of functions each, and texts with one `max_len`.

### IscEsp and IscPi

`IscEsp` counts the memory that links and their commands take. All early returns
are there; `NothingLostWhileAnswered` says that two tasks, each with its
link, lose nothing as long as no read fails, whatever happens to writes,
probes and scans. A read that is not answered loses its link; that is how the
heap ends.

`IscPi` has the table of handles, the daemon's handles, and the files that
`isc_scan` opens. The test of
`isc_master_connect_device` is the wrong way round in every function: the call that
opens a device fails, and one that could not open it goes on. `OwnHandles`,
`HandlesBounded` and `DevicesReached` say what still holds: no byte comes from another device,
the number of lost handles is bounded by tasks and initialisations, and each
device is reached in the end, as far as the daemon has handles. The open and the store
of the handle are two steps, between which another task or `isc_master_init` may come.
The handle 0, which the code takes for an error and leaves open, is lost once and not
counted. `isc_pi_write` shows that `isc_master_write` does not
write to the slave: it passes the handle to `write(2)`. `isc_probe` mixes up the two kinds
of numbers the other way round, which the same property would show.

### SpiEsp and Uart

In `SpiEsp` tasks take the bus with a timeout, transfer, give the bus back and then copy
what they have received from a buffer of their call's own. A transfer may hang for ever, and
then everybody else must time out (`TakeReturns`). `spi_add_device` may return a handle that was never
set; the run does not send with one. `OwnAnswer` says that nobody gets the
answer to another's transfer.

`Uart` has both targets over one line, on which bytes are numbered, and the clock
that `get_time_system_ms` truncates to 32 bits, here to `WRAP` values; the Pi's is the
system clock, which somebody may set during a read. `ReadInTime` bounds how long
`uart_read` takes, over the wrap and by the time the clock was set back, and
`ReadsTheLine` says that a result is the number of next bytes in order, and that errors take
none. The ESP32 compares a 16-bit count with a length of 32 bits: a call for more bytes than
the count can hold goes on past its length, writes over the first bytes and forgets
them. The model has this (`LEN_VALUES`), and `ReadsTheLine` is about lengths below it.

## Bounds and fairness

The bounds are constants of the `.cfg` files and appear in the guards.

| Run | Instance | Why it is enough |
|---|---|---|
| `que_blocking` | two producers, three threads in `pop(item)`; `MaxPush` 4 elements | threads depend on each other through the queue and the notifications only: one thread that is being notified, one that comes in between and one that sleeps on give every order of test, notification and take |
| `tasks`, queue | two producers, one of which also pops, one thread in `pop(item)`, three in the timed `pop`; 4 elements | an element is pushed, taken and given up by different threads, with others before and behind it |
| `tasks`, events | two setters, two waiters, two bits, 2 calls | a mask of two bits, with a waiter of each, is set while the other setter clears |
| `tasks`, period | `WRAP` 8, two milliseconds a tick, periods of 4, 7 and 10 ms, `MaxTime` 22 ticks or milliseconds | the counter wraps twice, with calls in time and late by up to several periods, and a period that is not a number of ticks |
| `tcp_esp` | usage "tasks": one task that connects and disconnects, one that sends; usage "single": one task; `MaxEvents` 4 wifi events, `MaxFds` 2 sockets, a limit of 2 failures | each handler overlaps with each call, an announcement can come, go and come again, and each error path is followed by another connect |
| `net_pi`, connection | both uses, with and without asking first; a limit of 2 failures, 3 descriptors | a failure left over from one connection, a full number on the next, and descriptors that run out |
| `net_pi`, startup | files of up to two networks, ours, another or twice the same, with either password and `disabled=1` anywhere in the block; one power failure | the popped line is first, in the middle and last of a block and of the file, with another block before or behind |
| `net_pi` and `sftp_folder`, upload | two files, two remote paths | each file fails before, after and together with the other |
| `neo`, ESP32 | strips of one to eight LEDs, halves of four bytes as in the code | the bytes fill less than a half, end within one, and need several refills; more LEDs repeat this, and the theorems are about any number |
| `neo`, Pi | nine words, one or four LEDs, `numLEDs` 0, 1, 4 or 5, two levels of a colour, two calls | four LEDs fill the words exactly; words hold parts of two pixels; the second call meets a used waveform |
| `pref` | a key of each type, texts of up to two characters, reads that expect one or two, one buffer of a caller | texts that fit, just fit without a terminator, and do not fit; keys do not influence each other |
| `bus`, I2C | two tasks; a heap with one unit more than two links of the greatest length; one device, another client, six handles, two initialisations and one scan | the heap can run out by one lost link; two tasks and two initialisations give each race for a handle, and the handles may run out |
| `bus`, SPI | two tasks, three transfers | a transfer of one task lies between the transfer and the copy of the other, on either side |
| `bus`, UART | a clock of 12 values that starts at 0 or 9, a delay of 2 ms, a count of 3 values on the ESP32, reads of 0, 2 and 3 bytes with timeouts of 0 and 4 ms, settings of -2 and 3 ms, 7 ms, three bytes | the clock wraps in the middle of a read, bytes come before, during and after it, singly and at once; 3 bytes are one too many for the count |

Where the number of calls, events, bytes or the time is bounded, a model stops when it is used up,
and a thread that waits for one more is no error: these configurations (`que_*`,
`tasks`, `event_pi_wait`, `tcp_esp`, `net_pi`, `sftp_folder`, `neo`, `bus`) say
`CHECK_DEADLOCK FALSE`, and what must not wait is a liveness property instead. The
others check for deadlocks.

Fairness is assumed where the scheduler or the hardware gives it: threads that can
run do so (weak fairness on the steps of a call; FreeRTOS and Linux schedule every
ready thread of these programs), timeouts expire, the interrupt is served and the
transmitter does not stop. Nothing is assumed of other clients, the network or crashes, and
nothing of callers, except where a property speaks of repeated use:

* `DevicesReached` speaks of a device that is used again and again (strong fairness,
  because each task serves several devices);
* `DeadPeerNoticed` speaks of a sender that goes on sending, and of a kernel that
  notices in the end that a peer is gone (`TcpConnectorPi`, `Fairness`); a program that does not send
  never notices, since nothing else in the class looks;
* `Converges` speaks of a Pi that is started again and again (`MCSpec` of `MCNetPi`);
  the number of power failures within the script is bounded.

In `SpiEsp` tasks go on, but a transfer need not end. The safety properties,
`Fifo` and `Prefs` need no fairness.

## Theorems

All theorems hold for every value of the constants that satisfies the named
assumptions, and TLAPS checks them to the last leaf. Every safety property, every
action property and every refinement that a passing run checks is a theorem.

The assumptions say what a caller or the code gives:

* `RoleAssumption`, `TasksAssumption`: tasks are finitely many where something is
  counted; one task sends in `TcpConnectorEsp`, and `InstanceAssumption` names the
  task of its usage "single".
* `BoundAssumption`, `LimitsAssumption`, `ConnectorAssumption`, `DevicesAssumption`,
  `HeapAssumption`: limits are natural numbers, and what stands for "nobody" is
  not a task or a device.
* `CountsAssumption`, `SlotsAssumption`: the bytes of a strip on the ESP32 never fill
  exactly one half (in the code, 3 n is never 4).
* `StripAssumption`: the bits of a strip on the Pi fit into the waveform, colours are
  bytes, and the brightness is at most 100 percent.
* `KindAssumption`, `PiAssumption`, `NoneAssumption`: each key has one of the types of
  the class, texts have no zero in them, and "nothing" is not a value.
* `PeriodAssumption`: a period is at least one tick and less than a turn of the counter.
* `BusAssumption`: a timeout, the delay and a setting of the clock are together less
  than a turn of the clock, and the clock is set back by no more than a turn.
* `ScriptAssumption`: files are lines of the kinds that the script tells apart, in
  which each block names one network and has an end (`WellFormed`).
* `UploadAssumption`: "missing" and "part of a file" are not paths.

What is proved, and by which invariant:

* `TaskQuePi_proofs`: `TypeCorrect`; `ImplementsFifo`, the refinement of `Fifo` for both
  forms of `pop`, by the invariant that what was taken and what is queued are together
  the pushes in order; `PopsAreDefined`, for callers of `pop(item)` only;
  `NothingStranded`, where the invariant must count: each element that
  is there while somebody waits has a notification on its way or a woken
  thread, which is more than the property says and is needed when one of them is
  used up.
* `Tasks_proofs`: `NoWrapIsSlept` and `PeriodIsKept`. The code compares two readings
  of a counter that wraps. Two facts are enough to know the time from them: a task
  never calls before the time that its `last_wake_tick` stands for (`NotBefore`), and
  for less than a turn the counter runs on by as much as the time, or by that less one
  turn (`RunsOn`, from division with remainder).
* `TcpConnectorEsp_proofs`: `TypeCorrect`; `GivesUp`, by the invariant that the counter
  of the code is never less than the failures in a row on the socket that is remembered,
  and that at the limit the one sender is on its way to close that socket (`CounterInv`);
  `NothingAnnouncedIsLost`, by the invariant that a woken
  task holds exactly the bits it has taken and sets them before it does anything
  else; `OneTaskOneSocket`, by the invariant (`Alone`) that only the one task is in a
  call and that the open sockets are the remembered one, or none between the close
  and `server_sock = -1`.
* `NetPi_proofs`, connection: `TypeCorrect`; `FlagIsTrue` and `GivesUpNotHastily`, both for
  threads that ask first (`asks_first`, which the properties name). The threads give the flag up to each other: the connecting thread works only while it is
  false, the sending thread, but for the end of a call, only while it is true. So
  nobody touches a new socket before the flag is set, and the counter of the
  code is at most the number of failures on this connection, if nobody but
  `write_bytes` disconnects. `ConnectionInProgram` carries this over to the program
  that starts the script.
* `NetPi_proofs`, script: `NoForeignPassword`. `Sound` says of a list of lines that it
  is well-formed and that the passwords in it which do not belong to our network were
  in the first file. It is kept by the removal of any line that is removed, by the
  change of a password within our block, and by the block that is added; `current_block`
  implies that our network's name stands above in the same block (`OpenedBy`), although
  the lines have moved.
* `NetPi_proofs`, upload: `DeletesOnlyUploaded` and `TrueIsTold`. From the end of a transfer
  to the deletion of the file nothing else is written to the remote path (`Uploaded`);
  and as long as no upload has failed, what was found is uploaded or still to
  come (`ToCome`).
* `NeoPixel_proofs`, ESP32: `TypeCorrect`, `SendsTheBuffer` and `HandlerIsInsideCall`,
  and with `EspInProgram` the same for the program of the runs. The invariant says
  for each step of the task, the handler and the transmitter how far the copies
  are ahead: the half that is being sent and the rest of the other are filled with the bytes
  from `sent` on. It needs `SlotsAssumption`: otherwise the second
  half is not written and still holds an earlier picture.
* `NeoPixel_proofs`, Pi: `StripShows`. The invariant relates three pictures of the
  strip: the buffer, the words that the DMA channel reads (`Sampled`) and the bits on the
  wire (`SentSoFar`). That the words cover the strip is arithmetic on the code's
  formula (`EnoughWords`); that the bits make the colours again is `StripDecodes`.
  The theorem has no bound on the number of calls or the length of the strip.
* `PrefManager_proofs`: type correctness of both targets, and both refinements of `Prefs`.
  ESP32 (`ImplementsPrefs`): a stored blob is what `write_str` makes of some text, so
  cutting what a read returns at the first zero gives that text back, also without
  room for the terminator. Pi (`PiImplementsPrefs`, for callers that leave their buffers
  alone): an entry of the document has the JSON type that its key's numbers get when
  they are written, so a reader's type test fails only where `Answers` allows it; and
  without a document nothing was loaded yet, or the file is torn.
* `IscPi_proofs`: `HandlesAreOwn`, for any number of tasks, devices and handles. Before
  `isc_master_init` all addresses share the handle 0, so the invariant adds that no task is
  in a call then; and a handle that the daemon gives was free, so that no address
  remembers it yet. That the daemon's lowest free handle exists follows from
  the well-foundedness of the natural numbers. `TypeCorrect` includes that no
  function transfers more bytes than it was asked for. `FewHandlesAreLost` counts: the
  handles a device has, and the tasks that are on their way to open one more,
  are together within the number of tasks times the initialisations.
* `Bus_proofs`, SPI: `AnswersAreOwn` for any number of tasks, by the invariant that the
  task in a transfer owns the mutex (`Holder`) and that each call carries its own answer
  from the transfer to its copy (`Carried`).
* `Bus_proofs`, I2C of the ESP32: `OnlyUnansweredLose`. Each task's link is at most the
  longest one (`Links`), and a task that appends holds less, so by counting there is
  free memory for it (`SomeFree`).
* `Bus_proofs`, UART: `ReadsAreInTime` and `BytesAreTheLine`. The clock has run on from
  `start` as the true time has, but for the one setting and whole turns (`Clock`), so a
  difference of readings below the timeout shows that time is left (`LeftInTime`);
  and the bytes of the buffer are the next ones of the line (`Filled`).

Only model-checked are the liveness properties (`WaitersServed`, `CallsReturn`,
`SetReleasesWaiters`, `SetColorReturns`, `DevicesReached`, `DeadPeerNoticed`,
`Converges`, `TakeReturns`): they need fairness and `ENABLED`, which are out of the
prover's reach. The runs of the findings below are counterexamples and have nothing to prove.

## Findings

Each is a run that TLC ends with a counterexample; `PROJECT.json` quotes the text that
the code contradicts.

* `que_timed`: the timed `pop` of the Pi takes from an empty queue.
* `event_pi_wait`: `wait_for` of the Pi does not see a bit that is already set.
* `pref_esp_real`: `read_double` and `read_float` of the ESP32 pass an uninitialised length.
* `isc_pi_write`: `isc_master_write` of the Pi writes to a file descriptor that is none.
* `sftp_folder`: `upload_folder` writes every file over the one before, which it has deleted.

## Not modelled, and what comes next

`PROJECT.json` gives the reason for each part.

* `TaskQue` of the ESP32 is one call of a FreeRTOS queue per operation; the queue is
  external, and a model of it would show nothing about the code, except that `push`
  discards an element when the queue is full, which it does by its shape.
* The I2C slave, GPIO, ADC, logging, the set-up of DMA registers, `start_task` and
  `end_task` are straight calls of a vendor library or of the system, without state of their own.
* `uart_write` of the Pi ignores how much `write` took, and `uart_change_baudrate` closes and opens
  the file while another thread may use it: no text says what a caller may expect
  there, and the model has one task at the UART.
* `spi_init` stops the program on an error; `Spi` and `Semaphore` of the Pi keep no state.

What the proofs leave open is liveness. The hazards without a property are
those for which no text of the repository says what a program may expect; `PROJECT.json`
gives the reason for each.
