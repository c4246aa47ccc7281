# nmrtcp: a verification development

nmrtcp is a Windows program that serves NMR hardware (a pulser, an AD
converter, an RF module) over TCP. The boards hang on USB through FX2
microcontrollers; the program turns text commands, from TCP clients and from
Lua scripts, into register operations. This directory holds TLA+ modules of its
core, the TLC runs that check them and the proofs that TLAPS checks.

## 1. The system

All paths are under `src/src/`. `lua53/` and `cyapi/` are vendored.

| Part | Files | State it keeps | Operations |
|---|---|---|---|
| USB register I/O | `cusb.c`, `if099.c` | `USB_BUSY`, `OUTBURST_BUSY`, `INBURST_BUSY`, `WRON`, `WRCT`, `OUTBUF`, `BURST_H`, `uio_db` | `uio_inb/inw/outb/outw`, `uio_outBurstStart/Flush`, `uio_inburst` |
| USB discovery, firmware | `cusb.c`, `cusb_cyusb3.c` | `uio_db`, named mutexes | `cusb_open`, `cusb_search`, `uio_init`, `fx2lp_init` |
| TCP server | `tcp3.c` | listen queue, one thread and buffer per connection | accept, receive, cut, execute, disconnect |
| Pulser commands | `compu_pulser.cpp`, `pulgen.cpp`, `pulbrd.cpp` | `pul1` (parameters, mode, cells), its copy `old` | set, edit, `setmode`, `update`, `start`, `stop`, queries |
| Pulse memory | `dosmem.cpp`, `pulmem.h` | 3000 cells <time, data> | `clr`, `edg`, `ins`, `lvl`, `com` |
| AD board | `compu_ad.cpp`, `moddv14.cpp` | `dv14` (size, divider, prescaler) | start, status, wave read-out |
| RF module | `compu_rf.cpp` | `RF_IOADD` | a request and its answer over one register |
| Parsing | `compu_common.cpp`, `strtok_r.cpp`, `etools.cpp`, `tools.c` | strtok's pointer | words, numbers, units |
| Scripting | `main_lua.c`, `run_lua.c` | the Lua state | `callPG`, `callAD`, `callRF`, register calls |
| Start-up | `main.c` | none of its own | opens the boards, starts three servers and Lua |

Threads: the main thread runs Lua; three threads accept on ports 5025 (pulser),
5026 (AD) and 5027 (RF); every connection gets a detached thread of its own.
They share `pul1`, `dv14` and all the state of `cusb.c`. There is no mutex: the
busy flags of `cusb.c` are polled and then set, in two steps.

How a command travels: `send_recv_thread` (TCP) or `callPG` (Lua) hands a
message to `execPULSER`, which runs its commands and then its requests; these
call `PULGEN` and `PULBRD`, whose register writes go to `outdevb`/`outdevw` and
so to `uio_outb`/`uio_outw`, and from there to USB or into the open burst.

What is hard here:

* threads interleave inside every register operation: `usbin` does not exclude,
  and a read is three transfers with the bus free between them;
* an open burst catches the writes of *all* threads;
* a transfer can fail half way; the handle is then closed but stays in use;
* TCP cuts the stream anywhere, and the client may be gone;
* the pulser compares parameters by `memcmp` to skip an update, which does not
  see the memory cells, and parameters can change while an update runs.

What makes each part correct:

* register I/O: operations behave like atomic registers for callers that keep
  to a discipline that can be named; flags are never left behind; every call
  returns; a failed write never leaves a board listening to the wrong bytes;
* discovery: every board is found, under the number of its switch, and by one
  program only;
* TCP: the executed commands are exactly the complete commands of the stream,
  once and in order; connections come to an end and are freed;
* parsing: commands and parameters are the parts of the message that its
  author meant, although `strtok` is shared;
* pulser: what runs is what was asked for; the board's memory is written only
  while it is stopped; a skipped update was not needed;
* pulse memory: the cells stand for the waveform that the edits describe, inside
  the array; the pattern of `make()` has its jump, gates, phases and triggers;
* AD board: an undisturbed read is whole, the board starts with what was asked
  for, buffers hold the waves, the sample clock is the best one;
* RF module: a client gets the answer to its own request, and every request ends.

## 2. Modules

| Module | Models |
|---|---|
| `DeviceIo` | the operations of `inoutdev.h`, shared constants |
| `RegisterFile` | what these operations promise (abstract) |
| `UsbIo`, `MCUsbIo`, `UsbIoProofs` | register operations and output bursts of `cusb.c` as the threads run them |
| `UsbOpen`, `MCUsbOpen`, `UsbOpenProofs` | how programs find their boards: `cusb_open`, `cusb_downloadFW`, `cusb_search`, `uio_init` |
| `TcpServer`, `MCTcpServer`, `TcpServerProofs` | one port of `tcp3.c` |
| `Tokens`, `MCTokens` | cutting of messages: `MY_strtok_r`, the command loops, `cutThreeData` and its like |
| `PulserServer`, `MCPulserServer`, `PulserServerProofs` | pulser commands down to the board's memory and run bit, contents abstract |
| `PulseWave` | what the pulse memory stands for: bits and commands by time (abstract) |
| `PulseMem`, `MCPulseMem`, `PulseMemProofs` | the cells of `dosmem.cpp`, which implement `PulseWave` |
| `PulseMake`, `MCPulseMake`, `PulseMakeProofs` | the pattern of `make()` as edits of `PulseWave` |
| `SampleFreq` | divider and prescaler of `moddv14.cpp` |
| `AdBoard`, `MCAdBoard`, `AdBoardProofs` | AD commands, the board, the input burst; uses `SampleFreq` |
| `RfModule`, `MCRfModule`, `RfModuleProofs` | request and answer over one register |

How they fit together: `TcpServer` delivers the messages that `Tokens` cuts;
`PulserServer`, `AdBoard` and `RfModule` are what the commands do; their register
operations are those of `RegisterFile`, which `UsbIo` implements for disciplined
callers; the memory that `PulserServer` treats as a value is `PulseMem`, and what
`make()` writes into it is `PulseMake`, both over `PulseWave`. `UsbOpen` yields the
handles that `UsbIo` starts with. `RegisterFile`/`UsbIo` and
`PulseWave`/`PulseMem` are refinements that TLC checks (`ImplementsRegisterFile`,
`ImplementsPulseWave`) and that are theorems as well (`RegistersImplemented`,
`CellsAreWave`).

`PROJECT.json` maps every definition to the lines it stands for. Definitions
called `<Action>_<What>` and commented "Mutant" are wrong variants of the
definition that follows them; they are used by no specification and show that
each property can tell the code from a plausible mistake in it.

### UsbIo and RegisterFile

A thread in `UsbIo` has a place `pc[t]` (the statement of `cusb.c` it is at) and,
in a transfer, a second place `gate[t]` inside `usbin .. usbout`. One action is
one access to a shared variable, or one USB transfer, so that the loop test of
`usbin` (`SeeIdleBus`) and the assignment after it (`TakeBus`) are two steps,
like the test and the assignment of `uio_outBurstStart`. The stores into
`OUTBUF` are one step that loads `WRCT` (`StoreCells`) and the increments another
that goes on from the loaded value (`CountCells`): the race on `WRCT` is there,
at that granularity. `BURST_H` is tested and set in two steps.

`OUTBUF` counts cells of two bytes. `OutBufCells` is 32770 in the code (65540
bytes) and `CountMod` 32768 (a `uint16_t` counts bytes). A write past the buffer
ends the model (`halted = "overrun"`), as `exit(1)` does (`halted = "exit"`).

The board is external: `SWRITE` sets an address latch, `SREAD` puts the addressed
register into `RFIFO`, `BWRITE` announces cells that `TFIFO` then brings
(`owed` counts what was announced and did not come). `StatusAddrs` are registers
that the board changes by itself. A transfer fails on a closed or null handle,
and at most `MaxFail` times for any other reason. The uninitialised byte that a
failed `RFIFO` read returns is any byte.

`RegisterFile` is what callers want: a read samples the registers one after the
other, a write outside a burst takes effect in one step, a burst is kept and
then stored in one step. The refinement mapping (at the end of `UsbIo`) lets a
read sample its byte when the board has answered `SREAD`, and the flush take
effect at the transfer from `OUTBUF`. The program does *not* implement it for all
callers: `usb_exit` shows one way it fails. `Disciplined` names when it does:
every board belongs to one thread, and a thread that opens bursts is the only
writer, to one board.

### TcpServer

One port: clients connect, send characters one by one, close or reset; the
server accepts (`pthread_create` may fail), receives any positive number of the
bytes that have arrived, strips, cuts and executes. A character is a plain one or
one of the four delimiters (`;`, CR, LF, NUL). The commands of a byte string are
defined a second time, without a loop, as the runs of plain characters up to the
places where such a run meets a delimiter (`Ends`, `RunTo`, `AreCommands`), and
what was executed is compared with that. What a command does belongs to the
other modules.

### PulserServer

The shared state is `pul1` (its parameters as one value, the mode, the mark
`modified`, the repeat count), the cells of `databuf`, the copy `old`, and the
board's memory, run bit, loop counter, address and mode. Contents of cells are told
apart by how they came about: which parameters `make()` used, and which edits
were made since; `clear()` and `clearpulm()` give two different contents. One
action is one command of a message (`Interpret`), one call in `pulseUpdate`, one
register of `PULGEN::start` or `PULBRD::start`. `make()` reads the parameters at its
beginning and writes cells until its end, so that another client's command between the two
can give the memory of either value or a mixture (`"torn"`).
`Snapshot = old` is the `memcmp`, which sees the fields but not the cells; since
`old` is constructed with other values than `initPulserBoard` sets, it begins as
`NoCopy`, equal to nothing. `PULBRD::waiting` is never set, so that the waiting
loop of `PULBRD::stop` is dead and a stop is `stopNow`.

Every register write of `stopNow` and `start` is a step (`Out`), and a load is
what `writeData` does: wait for the burst flag (`AwaitBurst`), set it
(`OpenBurst`, a step of its own, as in `cusb.c`), store the cells, and send the
whole buffer (`FlushBurst`). While a burst is open the writes of every client go
into its buffer, between the registers of a cell or into the race for its
counter. What a disturbed burst leaves on the board is open (`AnyBoard`); so it
is when another thread has flushed meanwhile and the rest goes straight to the
board (`SpillBurst`). `disturbed` and `spoilt` say whose burst that was and
whether it was the last, `took` what the cells were when the load began: edits
of another client during a load can give the old cells, the new ones or a
mixture. `drivers` remembers who has sent more than `stop` and `isrun`, so that
properties can speak of a client who alone drives the pulser. That a write of the
AD or RF server into the burst ends the process is in `UsbIo` (`usb_exit`), not
here.

### UsbOpen

Each program searches `Searches` times (16): one slot of the driver after the
other, `OpenMutex` (`TestMutex`), `CreateFile`, `CreateMutex`, then the firmware. A
board without firmware gets it, leaves the bus and comes back with it
(`Reappear`) or not in time; `cusb_search` then tries once more. A second result
"loaded, retry" is taken for a found board: its handle is closed, `cusb_setwave`
fails and the program ends (`"failed"`). A program may end anywhere (`Exit`); the
system frees its handles and mutexes. `raced` and `calm` are histories that the
properties need to say which programs they speak of. The transfer of the
firmware and of the waveform is one step each.

### Tokens

A buffer is a sequence of characters with a NUL, a pointer an index. The hidden
pointer of `strtok` is one variable for all threads, which is the worst of the C
runtimes. One step is one call of `MY_strtok_r`. What a message means is defined
apart, as longest parts without the delimiter (`Parts`, `Meant`). A word with parameters is
`"w"`, other text `"x"`: conversions of numbers and units are left out.

### PulseWave, PulseMem and PulseMake

`PulseWave` is a function from ticks to bits and one from ticks to commands.
`PulseMem` has the cells, `leng` (a history: the length the last `clr` used) and
the array's surroundings, since nothing in the code tests the size. `Edge`, `Ins`,
`LvlOf`, `ComOf` and `ClrOf` are the functions of `dosmem.cpp`; `Clamp` is what `clr`
makes of a length, the conversion to `uint16_t` included. Edits come at any time.
A command at the very end of what was cleared takes the place of the terminator,
and what the code then finds behind it is whatever memory holds: `PulseWave`
calls that `Lost`, up to the next `clr`. A command past the end is stored behind
the terminator, where the sequencer does not come, and shifts the next
terminator by one. `late` remembers which of the two has happened. That
`writeData` writes a terminator of its own into the last cell of the array before
it loads is not modelled.

`PulseMake` has the calls of `MakeOneT1T2`, each an operator that takes a memory
and gives the one after it, applied in the order of the code to the cleared
waveform for any setting of the parameters. `Clear` computes the cells for a length
as the code does, in whole seconds of a cell (`Cells`), wrapped to `uint16_t` and
clamped to `u_max`. Whether the array has room for the pattern (`HasRoom`) is
counted by what `PulseMem` shows of a call: at most two more cells (`InsideArray`).
`First_AD`, `AUX1_FLEN` and `AUX1_BLEN` keep the values they are given at start-up,
which nothing changes. `Setting` says what clients set; that counts and lengths
are not negative is assumed there (`SettingsAssumption`), the code does not reject
others.

### SampleFreq and AdBoard

`SampleFreq` has `SetSampleFreq` and `GetSampleFreq` in integers with the widths of
the registers; a division by zero is `Crash`. In `AdBoard` a command is the
sequence of its device calls (`Script`), and a thread can lose the processor
between any two. `setsamplefreq` is such a sequence, too: it stores the divider,
stores the prescaler, loads both for the answer and answers (`Frequency`), so that
two clients can mix their clocks. `met` remembers, for each command under way,
which commands of others have gone on meanwhile. Device calls are atomic here:
`UsbIo` says for whom that is so. The board is external: `Trigger` counts, writes
samples and moves the address counters, END is set by the last trigger; whether
BUSY is set is left open, since nothing in the code tells. A sample carries
channel, address and acquisition, so that a read can be compared with what it
should be. The input burst keeps `uio_inburst`'s flag in separate steps and its
loop over blocks with the remainder.

### RfModule

A request is sent character by character, then `Sleep(1)`, then the answer is read
until a byte 0 or 255. The module may be slow (`slow` remembers that an answer was
not ready in time), may get two requests mixed in one line, and may fail for good
(`noise`: the register never gives 0).

## 3. Runs

| Run | Question | Result | Bounds |
|---|---|---|---|
| `usb_burst` | are the operations of disciplined threads atomic registers, and does the handle test stay silent? | yes | 2 threads, 3 boards (one absent), 2 addresses, 2 values, 3 calls each, a status register |
| `usb_shared` | what survives without any discipline, with a failing transfer? | flags, half-told boards, own answers and termination do | 2 threads, one failure, buffer of 2 cells so that it overruns |
| `usb_exit` | can the handle test fire? | yes (finding) | one burst, one write elsewhere |
| `open` | are boards found, by one program, whatever ended before? | yes | 2 programs, 2 boards in slots 0 and 2 of 4, switches the other way round, 3 searches, 1 end of a program, any boards with firmware |
| `tcp` | are the executed commands those of the stream, and closed clients served and freed? | yes | 2 connections, 4 and 0 bytes of plain and four delimiters, `recv` of 1 to 4 bytes, one failed thread creation |
| `tokens_cut` | are commands and parameters cut as meant? | yes | all messages of up to 5 characters beside two others |
| `pulser_driver` | what does one driving client get, while another stops at any time, and what is left when two drive? | the three promises, if the last burst was not disturbed; ranges | 2 parameter values, one edit, 2 counts, single and compound messages; for two drivers an edit, `setmode`, `start` against `update`, `isrun` |
| `pulser_setter` | and with a client that only sets parameters? | a needed update can be skipped (finding) | one parameter each |
| `mem_wave` | do the cells do to the waveform what the calls say? | yes | array of 6 cells, lengths 5 (fills it) and 9 (wraps to 1, `Width` 8), cells of 3 ticks, 2 edits at -1, 1, 2, 3, 4, another clear |
| `make_pattern` | is the pattern of `make()` right for all settings? | yes | some 4600 settings: 0, 1, 3 comb pulses, gaps below and above the delays, triggers before and after pulses, predelays below and above the margin of the length, patterns that the array of 80 cells cannot hold and that wrap around at 128 |
| `ad_board` | reads, starts, counter, clock, termination | hold | 2 clients with 2 and 1 commands, both start and set the clock, blocks of 2 samples, waves of 3 and 4, words of 2 values, four frequencies at 25 MHz |
| `rf` | own answers and termination | hold | 2 clients with 2 and 1 requests, of 2 and 3 characters, answers of 1 and 3, limit 3, module slow or failing |

Why the bounds are enough. The races on the flags of `cusb.c` are of two
threads; a third can only repeat what the second does, and the theorems about
flags, answers and the handle test hold for any number. Two addresses tell the
two bytes of a word apart, two values a stale byte from a fresh one. In
`usb_shared` a buffer of two cells lets two racing writers overrun. In `open` the
slots have a gap, the last one is free, and the number of searches exceeds the
number of boards by one, so that the search that finds nothing happens. In `tcp`
four bytes have a complete command, a tail and every kind of delimiter, and one
`recv` can bring two commands; connections share nothing but the accept loop,
for which the second one, which sends nothing, is enough. In `tokens_cut` five
characters hold two commands, a parameter list, doubled, leading and trailing
delimiters. In `pulser_driver` a second parameter value and a second count tell
old from new, and the stop of the other client falls into every step of the
first, between the opening and the flush of its burst, too. In `mem_wave` two
edits make the second one fall before, at, inside, between and behind what the
first one split; a length of one cell puts the times at and past the end of
what was cleared, one of five fills the array.
In `ad_board` a wave of 3 ends in a part of a block and one of 4 does not; the
four frequencies have quotients just below, at and above 256, where the
prescaler changes, and one far from it; the arithmetic for all frequencies is a
theorem. In `rf` an answer of `Limit` characters is the longest that fits.

Conditions that properties have, each in its formula and its comment:

* `OneOwner` leaves out programs that searched at the same time; `FindsAll` speaks
  of a program that is alone and whose boards come back in time, with boards that
  the searches can reach (`AllReachable`: none in the last slot, no two with one
  switch, as many searches as other slots).
* `SkipIsSafe` and `StartsWanted` speak of a client who alone has driven so far
  (`Drives`) and except a memory whose last burst was disturbed (`spoilt`), the
  latter also a write between mode and go; `LoadsWhenStopped` excepts a disturbed
  burst. `UnchangedIsLoaded` is the first without its conditions, and fails.
* `InsideArray`: every command is before the end of the cleared time, and n + 2k is
  below the size. `OneCommandATime` and the last part of `TypeOK`: no command is at
  the very end (`late # "at"`).
* The properties of the pattern: the array has room and the predelay is below the
  10 s that `make()` adds (`Covered`). `PulsesHavePhase`: pulses are apart (`Apart`),
  and `tj >= cpi` for those of a comb. `OneADTrigger` and `OneTriggerOut`: the trigger
  lies in the repetition (`Fits`), the AD trigger behind its beginning; position 4 of
  TRG.OUT is compared with the AD trigger only for two pulses.
* `AloneIsWhole` and `CountNotTorn` speak of commands during which no other thread
  reached the board; `BufferHolds` and `StartsAsAsked` of commands into which no
  other client's `startad` (for the second, nor `setsamplefreq`) came, `ClosestIsSet` of
  those that answer and into which no other `setsamplefreq` came. The run reaches the
  excepted cases: nothing in the code prevents them.
* `OwnAnswer` speaks of a module that answers in time and of answers that fit
  (`ShortAnswers`).

In each excepted case the code can fail, and the model shows it when the condition
is dropped. The MC modules of `open` and `rf` assume what the theorems assume of the
constants, so that TLC evaluates it.

### Findings (runs of `PROJECT.json`)

* A thread that writes its own board while another one's burst is open ends the
  process with "BURST_H error" (`usb_exit`): loading the pulser memory while the
  AD or RF server writes is enough.
* `pulseUpdate` copies parameters that `make()` has not seen, so that a later
  update is skipped as "not change" (`pulser_setter`).

### Disagreements and oddities met while modelling, without a run

* `cusb.c:23`: the message that was commented out calls a conflict of transfers
  fatal; `usbin` does not exclude one. `usb_burst` shows that disciplined callers do
  not notice.
* `tcp3.c:208`: when `pthread_create` fails, the socket stays open and the arguments
  are lost. `ClosedIsServed` excepts that connection.
* `compu_pulser.cpp:451`: start-up leaves `extmode = 1`, the manual says that the
  standard mode is the default; a client that never sends `setmode` gets no pulses
  from its parameters.
* `pulbrd.cpp:146`: `stopNow` writes its registers at any time. When another client's
  `writeData` has its burst open, they go into the buffer (`cusb.c:646`), and the memory
  is not what was loaded; `pulseUpdate` copies `pul1` all the same
  (`compu_pulser.cpp:337`), and the next update takes the damaged memory for
  unchanged. `UnchangedIsLoaded` fails for `OneDriver`, too.
* `dosmem.cpp:127`: `clr` takes a length of `u_max - 1` or more for `u_max` and then
  writes the terminator to `databuf[u_max]` (`:132`), one cell behind the array
  (`pulmem.h:57`: "number of databuf[]"; `compu_pulser.cpp:433` allocates just that
  many). For `u_max - 1` and `u_max` there is not even the message "memory over flow"
  (`pulgen.cpp:56`).
* `dosmem.cpp:143`: `com` does not look whether its time is in the memory. Past the end
  it shifts everything up to the next terminator, the one that `clearpulm` has put
  into the last cell, to `databuf[u_max]`, however few cells are in use.
* `pulgen.cpp:59`: more cells than 65535 wrap, so that a very long blank gives a short
  memory; one for which the array has room for the cells but not for the edits goes
  past its end.
* `moddv14.cpp:76`: a quotient of 256 is stored as divider 0, and `GetSampleFreq`
  divides by it. The model ends there (`halted`).
* `moddv14.cpp:235`: the two overloads of `ReadWave` test BUSY the opposite way round;
  what the board's BUSY means nothing under `src/` tells.
* `pulgen.cpp:266` against `:27`: the phase of the comb ends one `cpi` early (`t` has lost
  one already at `:264`), so that with `tj < cpi` the last pulse, or the end of it, is
  sent without the comb's phase.
* `pulgen.cpp:279`: "TRG.OUT is AD.TRG", and `pulgen.h:83` "4=same as A/D"; for one pulse
  position 4 is `t2` after the beginning of the pulse, the AD trigger at its end plus
  `ADOFF` (`:278`).
* `pulgen.cpp:320`: the length counts every part of the pattern but the predelay
  with which it begins (`:252`). The 10 s that `:321` adds stand in for it, so that a
  `tx2predelay` of more than 10 s can put the jump, the stop and the triggers behind
  the end of the memory. The proof of `LoopAlwaysThere` found the premise.
* `pulgen.cpp:298`: positions of TRG.OUT past 4 give no pulse.
* `cusb.c:257` against `:748`: the last of the eight slots counts as "none found".
* `cusb.c:595` against `:274`: the second result 2 ("please retry") of
  `cusb_downloadFW` is taken for a board, with a closed handle.
* `compu_rf.cpp:95`: an answer that comes later than 1 ms is read by the next
  request; `compu_rf.cpp:58`: the 251st character has no NUL behind it.
* `compu_pulser.cpp:368`: stop before start in one message always ends with the
  stop, since commands only set marks.

### Fairness

`UsbIo!Fairness`: a thread inside an operation goes on (weak fairness of its
step), because Windows schedules every runnable thread and the polling loops
sleep only 10 or 20 ms; and a client that has opened a burst flushes it, as
`writeData` does and Lua scripts must. A caller in a polling loop can, in
principle, sleep through every moment in which the flag is clear if other
callers never pause; `CallsReturn` therefore speaks of clients that make a
bounded number of calls (`MaxCalls`), and says that nothing is left behind that
would keep a caller asleep for ever. The same holds of `CommandsReturn` in
`AdBoard`, where only the threads' own steps are fair: nothing makes a trigger
come. `TcpServer!FairSpec`: the accept loop and the connection threads go on;
clients need not. `RfModule`: threads go on and the module puts out what it has;
it may be slow, and failing is not fair. `UsbOpen`: programs go on, and a board
that left the bus comes back some time; no fairness says when.

Deadlock is checked in every run whose module has an action for the states in
which it may rest (`Finished`, `Quiet`), and in those that never rest. `open`, `rf`,
`ad_board` and `make_pattern` stop when all bounded commands, requests, searches
and the one update are done, and do not check it; there the liveness properties
say that nothing is left half way.

## 4. Theorems

All hold for every value of the constants that meets the ASSUMEs of the modules
(menus contain well-formed operations, messages are sequences of commands).

`UsbIoProofs`

* `TypeCorrect`: `Spec => []TypeOK`. The step that needs an argument is the count:
  a thread adds to the value it has loaded (`n[t]`), not to `WRCT`, so that the
  range of `WRCT` rests on what was true when the cells were stored. The invariant
  adds, for a thread between the two, that its loaded value plus its cells is
  within the buffer, and that the place of a thread fits the kind of its
  operation (`Placed`).
* `FlagsAlwaysOwned`: each flag is set by a step that makes its thread an owner,
  and a thread ceases to be one only in the step that clears the flag; with two
  owners the first clears it for both, which keeps the implication.
* `AnswersAlwaysOwn`: as long as no transfer fails, for a board that one thread
  addresses, the latch is what that thread has set, and `RFIFO` holds a byte
  exactly while it is between `SREAD` and its fetch. The invariant adds that no
  handle is closed, which is where "no failure" comes in.
* `HalfToldAlwaysClosed`: a board that waits for cells gets them next, or its handle
  is closed or about to be. "Owed is not zero" is not inductive: two threads may
  both have announced cells to one board, and one of them may fail. The invariant
  (`DebtInv`) counts: unless a failure has ended, or is about to end, the use of
  the board, it waits for exactly the cells that threads at the transfer of data
  are about to send (`Coming`, a set of pairs of thread and number of the cell, so
  that no sum over threads is needed).
* `BurstHandleNeverDiffers`: under `Disciplined` the handle test never ends the
  process. The invariant (`BurstInv`) says that whoever is inside a burst, or in
  the code of a buffered write, is the one thread that starts bursts (`Starts`);
  that an open burst, and a handle in `BURST_H`, belong to it; and that a thread
  at the store has the burst's handle. `usb_exit` shows that the assumption is
  needed.
* `RegistersImplemented`: `Disciplined` implies `Spec /\ []Faultless =>
  ImplementsRegisterFile`, the refinement. `Faultless` says that no transfer has
  failed (after one, a read returns what the stack holds and a board may miss
  cells: there is no register file to speak of) and that the open burst has fewer
  cells than its `uint16_t` count can tell apart: 32768 in the code, where
  `writeData` stores at most 3 + 9 * 2999 (`MAX_PULMEM` is 3000), while a Lua script
  could store more. Besides the invariants above it needs `BufferOK`: whoever has
  a burst open finds `WRON` on and everybody else who starts bursts finds it off; a
  thread between the store and the count has loaded the present count, and its
  cells are behind it; the board in `BURST_H` is that of every buffered write, and
  the flush sends `WRCT` cells to it. Each lemma `Is<Action>` says what a step of
  `RegisterFile` is in terms of the mapped variables, `Folded` that a step of one
  thread leaves the mapped variables of the others alone, and `StoresBurst` that
  storing the cells of `OUTBUF` on one board is storing the burst.

`PulserServerProofs`

* `TypeCorrect`.
* `SkippedIsLoaded`, `StartedIsWanted`, `LoadedWhenStopped`: theorems of `Spec`, for any
  messages; the conditions are in the properties. The inductive invariant
  (`DrivenInv`) holds `DriverInv(d)` for every `d` who alone has driven so far; since
  `drivers` only grows, what holds of `d` now held before (`DroveBefore`). `DriverInv(d)`
  says where the others can be (`OthersOnlyStop`), what `d`'s place in `pulseUpdate`,
  `writeData` and `PULGEN::start` says about the cells (`CellsPlace`), the registers
  (`RegisterPlace`) and the burst (`BurstPlace`), and what the copy is worth
  (`CopyTells`): it is always of an unmarked standard-mode state, and as long as no
  edit has been marked since and no update is under way, cells and board hold the
  pulses of *its* parameters, the board up to a disturbed burst (`Holds`). The last
  part is what the skip rests on, and it is more than the skip needs: it also covers
  an excursion to the extended mode and back, whose update loads the same cells
  again. A stop of another client is a write like any other (`OtherWrites`): outside
  a burst it halts the board or leaves it as it is, inside one it makes the burst a
  disturbed one. That alone driving is needed shows `pulser_setter`.
* `AlwaysAsMeant`: `CutSpec => []TokensAsMeant`, about `Tokens`: any number of threads,
  messages of any length, any `MaxArgs`. `Parts` is defined without recursion: the
  n-th part begins at the place before which n - 1 parts begin (`PartAt` says that
  there is exactly one). The invariant (`Cutting`) is one statement for each thread,
  and used twice: `Cut(b, s, o, d, p, k)` says that the buffer `b` still holds, from the
  pointer `p` on, the text `s` that was put there behind `o` other characters, that
  a delimiter is in front of `p`, and that `k` parts of `s` begin before it; `k` is
  the number of commands for the buffer of the message, and the number of
  parameters for the copy `stm` (`Halfway`). `StrtokIs` and `TokenIs` say that a call
  skips delimiters, takes one part and puts the pointer behind it. `hidden` is in no
  part of the invariant: that is the proof that the callers do not need it.

`UsbOpenProofs`

* `TypeCorrect`; the invariant (`Placed`) also says what a program has at each place
  of the search: a mutex for every board of its table, and no board twice.
* `NoBoardTwice`: `Spec => []OneOwner`. A program *claims* the slots whose mutex it
  has and the one that it has found free and is about to take; `ClaimsApart`: two
  programs that search together, or claim one slot, raced. Without a race a slot
  that is found free stays so until its mutex exists.
* `AllBoardsFound`: under `AllReachable`, an undisturbed program ends with every
  board in its table. A search takes the lowest free slot, so that `n` searches
  have found what is in the first `n` slots (`CalmInv`); the work is in the board
  that gets its firmware on the way: its slot has been passed as free, the
  mutex is gone again, and the second try must come back to it and to no
  other.

`TcpServerProofs`

* `TypeCorrect`: the invariant adds that a command in hand is not empty and has its
  only delimiter at its end (`CommandAt`), which is what `search_delimit` is for.
* `StreamAlwaysKept`, `NothingEverLeftBehind`: the executed commands, with the one in
  hand, are those of a part of the stream that ends with a delimiter, and the
  buffer is the rest of what was received, with every delimiter as `;`
  (`Stream`). This holds at every place of a connection (`ConnOK`); a connection
  whose socket still waits to be accepted has received nothing (`QueueOK`).
  `Run`, `Completed`, `OneMore` and `Rest` are about `AreCommands` alone: a delimiter
  that ends a run adds exactly that run to the commands. `AreCommands` is a relation
  and not a recursive function, and the least and the last element that the
  proofs need are picked by well-foundedness, since induction over data is not
  available.

`AdBoardProofs`

* `ClosestAlwaysSet`: `Spec => ClosestIsSet`, for every clock and every frequency.
  `AtMost` turns quotients into products; with a larger prescaler every possible
  division is a multiple of the chosen step (`LargerPrescaler`); a smaller one was
  left because its quotient did not fit, so that the chosen divider is at least
  128 and all its divisions are smaller (`SmallerPrescaler`). The divider 0 is
  excluded by the step, which ends the process. Divider and prescaler are stored in
  two steps and loaded in a third: the invariant (`SettingInv`) says, for each of
  them, what is stored as long as no other `setsamplefreq` has come in (`met`).

Then what the commands of `AdBoard` do between their device calls. The
invariant `AdInv` says of every job that what is left of it is an end of its
script (`Suffix`), what a read has stored at that place (`Lengths`), and, as long
as nobody else reached the board, what it may rely on there (`Undisturbed`):
sampling is off, the address counters have moved as far as samples are stored,
the port is its own, the stored samples are those of one acquisition.

* `TypeCorrect`, with the jobs of all clients typed.
* `AloneAlwaysWhole`, `CountNeverTorn`: from `AdInv`, for any sizes, blocks and clients.
* `BufferAlwaysHolds`: the invariant (`BufferInv`) relates what a read has still to do to
  the `wavesize` it found when `compuAD` allocated its buffer: as long as no `startad`
  has come in, `wavesize` is still that.
* `StartsAlwaysAsAsked`: the invariant (`StartInv`) says, for each call of the start's
  script, which of the registers hold what was asked for, and that, as long as
  neither `startad` nor `setsamplefreq` has come in, nobody else's call moves them; a
  running board has been stopped first.

`RfModuleProofs`

* `TypeCorrect`: a thread in the loop of `recvmodu` has counted at most `Limit`
  characters and stored as many as it counted.
* `AnswerAlwaysOwn`: under `ShortAnswers`. That nothing of an earlier answer is left
  when a request begins is a matter of counting: requests that were mixed in the
  line get an answer shorter than the rooms of their clients. The invariant
  (`RfInv`) has no sum; it says that every character which the module has put out or
  has still to put out can be given a room of its own with a client that sleeps
  or receives (`Fits`, an injection). No client, no room, no character.

`PulseMemProofs`

* `TypeCorrect`, `CommandsApart`, `InsideAlways`: the inductive invariant (`MemInv`) has,
  unless a command has taken its place, a terminator at some cell
  `e <= leng + 2 * edits`; up to it the array is `Formed`: levels last, commands do not,
  and a command is followed by a level; and its time is still `leng` cells. Without
  the second command in a row being excluded an edit could need more than two
  cells. A command past the end leaves what is before the terminator as it is.
* `CellsAreWave`: `Spec => PW!WaveSpec`, the refinement. `Reads(m, e, w)` says that the
  waveform `w` is what the cells of `m` show, tick by tick, and determines `w`
  (`ReadsOnly`). Then each function of `dosmem.cpp` has a lemma that relates what is
  read before and after it: splitting a cell changes nothing (`SplitReads`),
  painting the cells between two boundaries changes the bits there
  (`PaintedReads`), a command overwrites the one at its tick or is put in
  (`OverwriteReads`, `InsertReads`). `Elapsed` is a recursive function; that it has the
  value its recursion says (`ElapsedIs`) is proved by picking the least number
  for which it would not.

`PulseMakeProofs`

Every theorem rests on `MadeFrom` (the memory is what `make()` builds from settings
of a client) and on `Pattern`, which says what that is. `LevelIs` and `CommandIs` are
about `lvl` and `com`; from them each call of `pulgen.cpp` gets a lemma that says which
bits it may change (`Edited`) and what it does to the one at hand. An invariant,
`Drawn`, then goes from part to part of `MakeOneT1T2` (`BeforeIs`, `CombIs`, `FirstIs`,
`SecondIs`, `OneIs`): it says which positions of TRG.OUT have had their turn and
whether the AD trigger has been set. `CombPulses` is a recursive function over the
number of comb pulses; that it has a value (`PulsedIs`), and that all its memories
keep the invariant (`CombPulsesAre`), is proved from the least number for which it
would not.

Where the array has room, `Clear` neither wraps nor clamps, and its cells last at
least the length (`ClearIs`); this is where `Covered` comes in.

* `Typed`: a command at the very end would lose the memory; that none is there is
  its last part.
* `LoopAlwaysThere`: the length is compared with the places of all parts
  (`PlacesIs`, `ClearIs`), `cpn * (cpw + cpi)` included.
* `GateAlwaysSurroundsRF`: `Gate` relates two ticks, so that every edit must keep it as
  a whole. `tx` is set only behind its own gate (`TXGateIs`, which needs
  `SENKOU_LEN <= st`, the code's condition: every pulse starts at or behind the
  predelay), no edit closes a gate, and the blank only takes RF away.
* `PulsesAlwaysHavePhase`: what a later `MakeQPSK` leaves of an earlier phase ends
  where it begins (`Keyed`, `PhaseStays`); `Apart` is what puts that behind the pulse.
* `AlwaysOneADTrigger`, `AlwaysOneTriggerOut`: the bit is a single interval that
  begins at one place inside the repetition, and so rises once (`RisesOnce`).

Assumed beyond the ASSUMEs of the modules, each in the statement of its theorem:
`Disciplined`, `AllReachable`, `ShortAnswers`, `[]Faultless`. They are what an operator
or the hardware sees to, nothing in the code does.

Every safety property of a passing run is a theorem. Only model-checked is all
liveness, since liveness under fairness and ENABLED are beyond the prover. What
folds and recursive functions compute would be an induction over data, for which
the library's rules cannot be instantiated here; where a proof needs it, it picks
the least number for which the claim would fail (`Least`, from the
well-foundedness of `<`), or the definition avoids recursion.

## 5. Not modelled

* Most of the lines of the tree are the vendored Lua 5.3 interpreter, which is not
  this program's logic; a script is one more client (`Msgs`) and one more thread
  (`Menu`). `cyapi` and the FX2 firmware images are vendored or data.
* `inb`, `outb`, `inw`, `outw`, `peek`, `poke`, `dispmem` and the queries: raw register
  access is `UsbIo`'s business, queries change nothing; `poke` stores any cell
  wherever it is told, so that no property of the memory would hold after it.
  `run_lua` in a command makes its connection run one more script.
* `uio_close`, the transfers of firmware (`cusb_downloadFW`'s loop, `fx2lp_init`) and
  of the waveform descriptors: sequential, before the servers exist.
* `main.c`: a sequential start-up whose results are the initial states.
* Formatting and parsing of numbers and units, logging, the GPIB and console code
  that is not built.
* Buffers that a long command overflows (`stm[200]`): behaviour past that point
  is not defined.

## 6. Plan

Done: all modules of section 2, and the theorems of section 4. What could follow:

1. Composition of the pulser's `stopNow` and `writeData` with the AD server's writes over
   `UsbIo`'s menus, and the bound of its burst, 6 + 18 * (MAX_PULMEM - 1) bytes, as a
   property instead of the assumption `Faultless`.
