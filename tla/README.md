# Verification of the Ameba port of MicroPython

TLA+ models of the MicroPython port for Realtek Ameba (RTL8721Dx "AmebaDplus",
RTL8721F "AmebaGreen2"): `src/ports/ameba-rtos-m/src/`. The modules model the
parts in which several actors meet: Python threads, FreeRTOS tasks, interrupt
handlers, the garbage collector and the soft reset. TLC checks them on small
instances; TLAPS proves every safety invariant they check, for every value of
the constants.

Paths below are relative to `src/ports/ameba-rtos-m/src/`. The micropython core
and the vendor SDK are git submodules whose code is not in the repository; what
the port uses of them is modelled from that use and marked external.

## 1. The system

### Actors and what schedules them

| actor | runs | excluded by |
|---|---|---|
| main Python task, `_thread` threads | FreeRTOS priority 1 | the GIL; released around blocking calls and between bytecodes |
| OTA task | priority 2, above Python | nothing: shares fields with Python |
| link monitor task of the Ethernet driver | driver | nothing |
| interrupts (UART, CAN, RTC, timers, USB, I2S, I2C, GPIO) | between any two instructions of a task | a critical section, where the code takes one |
| garbage collector | in whichever thread allocates | the GIL |
| soft reset (`mp_main.c:108-182`) | main task | nothing: other threads exist until `mp_thread_deinit` |

The hard behaviours follow: fields shared with interrupts without a critical
section, calls that release the GIL in the middle, heap objects whose address
an interrupt or a task holds, waits that give up, and a soft reset that frees
the heap under hardware that is still running.

### Components

| component | state | operations | interacts with | what makes it correct |
|---|---|---|---|---|
| `ameba.OTA` (`modota.c`) | the object, a stream buffer, a semaphore, `ota_active`, `result`, `eof` | construct, write, finish, `__del__`, task, read callback | its task, the collector, the soft reset | one update at a time, the task never outlives its object, no byte lost, every call returns |
| `machine.USBSerial` (`machine_usbserial.c`) | mutex, semaphore, transfer in flight, `usbserial_core_ready` | bring-up, tear-down, transmit, completion | the REPL mirror, the interrupt | a success is one's own transfer, the mutex comes back, bring-up is all or nothing |
| `machine.UART` (`machine_uart.c`) | two ring buffers, `tx_busy`, the irq object, configuration | write, flush, txdone, read, init, deinit, irq, interrupts | the interrupt, the collector, the soft reset | bytes in order, `txdone()` honest, no freed memory in the interrupt |
| `machine.CAN` (`machine_can.c`) | table of transmit buffers, filters, the staging register `CAN_RAM_CS`, error state, trigger | send, recv, filters, flags, restart, init, interrupt | the controller, the irq callback | the table agrees with the controller, a full queue drains, an accepted frame is received, an error state is told once |
| `_thread` (`mpthreadport.c`) | list of threads, `run_state`, mutex | create, start, finish, mark, deinit | the GIL, the collector, the soft reset | what a thread refers to is not freed, the list is sound |
| sockets (`modsocket.c`) | descriptor, state and timeout of each object; the list of callbacks and its divisor | socket, connect, accept, recv, send, close, settimeout, register; the polling handler | lwIP, other threads, user callbacks, the collector | a descriptor has one owner, calls end, the list is the registry |
| `machine.RTC` (`machine_rtc.c`) | target, repeat, interval, scheduler node, irq object | alarm, cancel, irq, interrupt, re-arming, datetime | the vendor interrupt routine, the scheduler, the soft reset | the target is what is armed, repeating alarms go on |
| `network.LAN` (`network_lan.c`) | interface state, `network_lan_has_ip` | active, ifconfig, link callback, DHCP | the link monitor task | an address is asked for; connected means an address |
| `network.WLAN` (`network_wlan.c`) | `ap_active_requested`, the stored SSID, the station's address | active, config, connect, disconnect, ifconfig | the Wi-Fi driver, a second thread | a wanted and named access point runs, in whichever order the calls come |
| `machine.I2S` (`machine_i2s.c`) | two DMA halves, ring buffer, `dma_half`, heap and DMA memory | construct, init, deinit, write, readinto, irq, block interrupt | GDMA, a second thread, the soft reset | what is written is played in order; memory outlives the channel |
| `machine.I2CTarget` (`machine_i2c_target.c`) | transaction state, `stop_pending`, masked interrupt | interrupt, readinto, write, deinit | the bus, the framework's event state | each transfer with this target is reported once and in order |
| `machine.Timer` (`machine_timer.c`) | root array of objects, hardware ids, fields | construct, init, deinit, `__del__`, interrupt | the collector, the soft reset | one object per hardware timer, no interrupt on a freed object |
| `machine.PWM` (`machine_pwm.c`) | channels, the prescaler and period they share | construct, freq, duty, deinit | the SDK's prescaler, the soft reset | a new frequency leaves every duty cycle what it was |
| `machine.Pin` (`machine_pin.c`) | mode, pull, `od_output_high`, root array of handlers | init, value, toggle, irq, trigger, interrupt | SoftI2C and other drivers, the collector, the soft reset | pad and interrupt are as the object says, no freed handler is called |
| soft reset, REPL loop (`mp_main.c`) | order of tear-down | deinit_all of each driver, sweep, thread deinit | all of the above | nothing that outlives the heap refers to it |
| I2C controller, SPI, ADC, WDT, bitstream, SDCard, Flash, console, sleep, time, urandom, help, TLS strings, build | none, or one blocking call of the SDK | | | not modelled (section 5) |

`PROJECT.json` lists every part with its status and every hazard with its line
and the properties that cover it.

## 2. Modules

| module | models | granularity |
|---|---|---|
| `Ota` | `modota.c` | a Python segment between two releases of the GIL is a step; a stretch of task code that does not block is a step (the task has the higher priority) |
| `UsbSerial` | transmit path, bring-up and tear-down of `machine_usbserial.c` | every RTOS or driver call is a step, each creation of the bring-up and the error path that follows it when it fails included |
| `UartTx` | write, `uart_fill_tx_fifo`, TxIrq, flush, txdone | every access to `write_buffer`, the FIFO, ETBEI and `tx_busy` by `write()` is a step; the interrupt is one |
| `UartRx` | RxIrq branch, read, init, deinit, irq, soft reset | the validation, allocation and switching parts of init are separate steps |
| `CanTx` | transmit half of `machine_can.c` | choice of the buffer, `CAN_WriteMsg` and the store of the id are three steps |
| `CanRx` | receive half: filters, recv, error states, restart, init | a call is a step, the interrupt between any two |
| `MpThread` | `mpthreadport.c`, `gc_collect`, soft reset | what runs under `thread_mutex` is a step, except creation (the task exists before its node is linked) |
| `Socket` | descriptors and calls of `modsocket.c` | what a call does under the GIL is a step; every lwIP call without it is another; `connect()`, which is without the GIL from its first line on, is a step per call of lwIP |
| `SocketEvents` | callback list and handler of `modsocket.c:93-150` | select, each visit of the walk, and each call a callback makes are steps |
| `RtcAlarm` | `machine_rtc.c` without calendar arithmetic | each assignment of `alarm()` is a step; times are seconds relative to the clock |
| `Lan` | `network_lan.c` | each read or write of a shared flag and each driver call is a step |
| `Wlan` | `network_wlan.c` | a call is a step up to the driver call that releases the GIL, and one after it |
| `I2s` | `machine_i2s.c` | a call, a copy of one chunk and the interrupt are steps; the wait of `deinit()` is one of its own |
| `I2cTarget` | `machine_i2c_target.c` | each branch of the handler is a step: the bus goes on between them |
| `Timer` | `machine_timer.c` | each assignment of `init()` that the interrupt can see is a step |
| `Pwm` | `machine_pwm.c` on AmebaDplus | a call is a step; registers in ticks of the 40 MHz clock |
| `Pin` | `machine_pin.c`, one pin | a write to a register of the pad is a step, and `irq()` has one for each of its parts |
| `ByteChannel` | no code: what a UART promises to a program that waits for `txdone()` | |
| `Ota_proof`, `UartTx_proof`, `UartRx_proof`, `MpThread_proof` | theorems about the module of that name | |
| `Can_proof` | theorems about `CanTx` and `CanRx` | |
| `Socket_proof` | theorems about `Socket` and `SocketEvents` | |
| `Timer_proof` | theorems about `Timer`, `Pin` and `Pwm` | |
| `Devices_proof` | theorems about `UsbSerial`, `RtcAlarm`, `Lan`, `Wlan`, `I2s` and `I2cTarget` | |

`ByteChannel` is the abstract specification of transmission: a counter of
accepted bytes, the bytes the other end has got, and what `txdone()` says. A
`write()` begins, its bytes are accepted one by one, each is delivered once and
in order, and the channel settles when nothing is left. `UartTx` implements it
with `accepted <- last`, `sent <- wire` and `done` the idle writer with
`tx_busy` clear: the ring buffer, the FIFO, the byte between `ringbuf_get` and
`serial_putc` and the one-shot interrupt are all hidden. The property
`ImplementsChannel` is the instantiated abstract specification; TLC checks it,
and it is also a theorem.

The MC modules give TLC its sets and symmetries. `MCCan`, `MCSocket`,
`MCTimer` and `MCDevices` instantiate several components that share no state:
the variable `part`, chosen in the initial state, says which of them a
behaviour is about, and the others rest in one initial state. This checks the
union of the components' behaviours and not their product, which would add no
behaviour of either. Where components do meet, the model of one contains what
it sees of the other: `CanRx` the staging register that `send()` leaves dirty,
`Pin` the drivers that use its pad, `Socket` the collector that runs at ENFILE,
and nine modules the soft reset as its effect on them.

Operators introduced by a comment "Mutant:" are deliberately wrong variants of
the operator below them: put in its place they must make a property fail, which
shows that the property depends on that line of the code.

The state variables carry the names of the C fields in their declarations;
`PROJECT.json` "map" gives the lines behind every definition. Two kinds of
variables are not in the code:

* "history" variables record an event (a null callback was called, a pending
  buffer was overwritten) that a property refers to;
* "fixed" variables are chosen in the initial state and never change. They say
  what the environment may do: in one run TLC explores every choice, and a
  property that needs a well-behaved environment says so in its premise.

| module | fixed variable | meaning |
|---|---|---|
| `Ota` | `troubles` | creations may fail; `ota_start` may outlast the finaliser's 10 s; other threads go on during a soft reset |
| `UsbSerial` | `stalls` | the host may stop reading |
| `UartTx` | `waits`, `most`, `level` | the program writes only after `txdone()`; the longest write; ETBEI enabled on an empty FIFO interrupts |
| `UartRx` | `masked`, `forgets` | the receive interrupt may be late; the program drops the object `irq()` returned |
| `CanTx` | `quick`, `subs`, `remains` | a frame may complete before it is recorded; use of `IRQ_TX`; done bits survive `restart()` and, in the controller, `init()` |
| `Socket` | `env` | the calls made, the timeout set, what a second thread does to a socket in use (`recv()`, `settimeout()`, `close()`), an error that occurs |
| `SocketEvents` | `polite` | callbacks give up only their own socket |
| `RtcAlarm` | `inside` | the alarm may fire in the middle of `alarm()` |
| `Lan` | `overlap` | `active()` and the link callback may overlap |
| `Wlan` | `alone` | one thread at a time uses the interface |
| `I2s` | `env` | interrupts late, a channel that does not drain, a careless program, or nothing |
| `I2cTarget` | `busUse` | other targets on the bus, a master that does not wait, reads outside the handler |
| `Pwm` | `fast`, `sdk` | frequencies above 1 MHz are asked for; whether `pwmout_init` and `pwmout_free` leave the channel and the registers of the timer as the driver expects |
| `Pin` | `users` | which driver uses the pad; whether programs call `irq(None)` before they end |

The type invariant of a module is the first conjunct of one of its invariants,
or, in `Ota` and `Timer`, a theorem of its own.

## 3. Runs

### What holds

| run | instance | states | shows |
|---|---|---|---|
| `ota` | 2 sessions, 2 threads, image 2, buffer 1, reads of 1; at most one kind of trouble | 756 000 | `RunningIsActive`: the session of the running task is the active one; `BytesInOrder`: bytes arrive once and in order, `finish()` fails only with a reason; `NoUseAfterFree` (without troubles); `CallReturns` (always) |
| `uarttx` | buffer 3, FIFO 2, 9 bytes, writes up to 3 or up to 7, both readings of ETBEI | 939 000 | `InOrder`: order and an honest `txdone()` (writes that fit and wait); `ImplementsChannel` (the same); `WriteReturns`: `write()` returns and, for writes that fit and wait, `flush()` succeeds (ETBEI of lines 590-593) |
| `uartrx` | 2 buffers, 2 irq objects, buffer 2, 4 bytes or breaks, reads of 2 | 1 650 000 | `NoUseAfterFree` in the interrupt (irq object kept); `NothingLost`: no phantom byte and none lost but to an overflow (interrupt in time) |
| `can` | 3 message buffers, 2 ids; 2 filters, 2 kinds of frames, FIFO of 2 | 548 000 | `SlotAgrees`: table and controller agree, no pending frame is overwritten, ids stay ordered; `QueueDrains`; `FilterReceives`: an accepted frame is received whatever was sent before; `StateReported`: a passive period is counted once and told |
| `sock` | 2 objects, 2 threads, 2 descriptors, 9 environments; 3 sockets with callbacks, divisor 2, counter modulo 4 | 846 000 | `FdOwned`: a descriptor is that of one object and none is lost; `ModeKept`: `connect()` puts the mode back (unless another thread sets the timeout meanwhile); `RecvReturns` after the peer has closed; `ListIsRegistry`; `ReadableIsCalled` |
| `timer` | 3 timer objects, 2 hardware timers; 3 pins, 2 PWM channels, 4 frequencies; a pin with 2 handlers | 711 000 | `SlotsAgree`, `RunningIsRooted`, `WholeUpdate`; `DutyKept`; `PadAgrees`, `LiveHandler` |
| `devices` | main and 2 threads, 2 heap objects; 3 USB callers; alarms at -1 to 2 s; LAN; WLAN with 2 threads; I2S with halves of 2, chunks of 2 and a ring of 4 bytes; I2C target with a FIFO of 2 bytes and transfers of up to 2 | 302 000 | `NothingLiveFreed`, `ListSound`, `ResetStopsThreads`, `FinishedLeaves` (threads); `BufferStable`, `AllOrNothing`, `CallReturns` (USB); `ArmedForTarget`, `RepeatGoesOn` (RTC); `LeaseReflected` (LAN); `InterfacesServed` (WLAN); `StreamInOrder`, `ChannelHasMemory`, `TransferEnds` (I2S); `EveryTransferOnce` (I2C target) |

Deadlock checking is off only for `Ota` and `UartTx`, whose bounded supply of
sessions and bytes really runs out.

### Where the code and its documentation differ

Each of these runs ends in a counterexample; the findings in `PROJECT.json`
quote the line that says otherwise.

| run | property | what happens |
|---|---|---|
| `usb_stale` | `CompletionIsOwn` | a transfer that timed out completes between the drain of the next caller and its transfer, and that caller takes the completion for its own |
| `uartrx_irq` | `IrqNeedsNoReference` | the object made by `irq()` is not a root: a collection frees it and the interrupt calls it |
| `sock_eof` | `EveryRecvReturns` | two threads wait in `recv()` on one socket; lwIP tells the end of the stream once, and the second thread, past the test of the state, waits for ever |
| `i2s_ibuf` | `EveryIbufServes` | with `ibuf` 256, which the constructor and the documentation accept, the ring holds 255 bytes and a chunk of the non-blocking copy has 256: the copy never starts |
| `i2c_wake` | `NoStaleMatch` | a STOP that finds a byte in the FIFO leaves `LP_WAKE_1` set, and the STOP of another target's transfer is taken for an address match |

Two comments that no property is about disagree with the code as well.
`src/ports/doc/quickref.rst:119-120` says that `hard=True` raises `ValueError`
for a Timer; `machine_timer.c:110` accepts and stores it. `modsocket.c:396-397`
says that `retries` is 0 if and only if `O_NONBLOCK` is set; a timeout of less
than 100 ms gives `retries` 0 with `O_NONBLOCK` clear (`modsocket.c:573`),
so that `connect()` then blocks in lwIP without the timeout. `Socket` follows
the code: the action `LwipConnect` has the step in which lwIP keeps the thread.

### What the premises exclude

These behaviours of the code are reachable in the models; the properties above
hold without them. Dropping the premise makes TLC show the trace.

| premise | what happens without it |
|---|---|
| `Ota`: no stall | after 10 s `__del__` frees the stream buffer and semaphore that the task still uses |
| `Ota`: no failed creation | the error paths delete the stream buffer and leave the field set; the finaliser of the half-made object signals it |
| `Ota`: no intruders | `gc_sweep_all` finalises a session on which another thread is blocked |
| `UsbSerial`: host in time | a transmit that times out returns while DMA reads its buffer |
| `UartTx`: program waits for `txdone()` | `write()` and the interrupt both pop: a byte nobody wrote (0xFF) or a swapped pair |
| `UartTx`: writes fit the buffer | the interrupt finds `write_buffer` empty in the middle of `write()` and clears `tx_busy`; from 2 * txbuf + FIFO bytes on the writer can wait for ever |
| `UartTx`: ETBEI on an empty FIFO interrupts (`level`; only `WriteReturns` needs it) | the FIFO runs empty between the last `serial_putc` and line 182, no interrupt comes, and a writer that waits for room waits for ever; the comments at `machine_uart.c:590-593` and `machine_uart.c:497-501` disagree on what the hardware does, and the model has both |
| `UartRx`: interrupt in time | a byte that follows the break is dropped in place of the spurious one |
| `CanTx`: `Records` | the interrupt clears the entry before `send()` stores the id: the entry is never freed |
| `CanTx`: `NoRemains` | done bits survive `restart()`, and `deinit()` and `init()`, which do not clear them, and are reported for the next frame in the buffer |
| `CanTx`: constant subscription | unsubscribing with a full queue of finished frames leaves it full |
| `Socket`: no bad argument | the constructor raises with `fd` at 0, and the finaliser closes descriptor 0 |
| `Socket`: memory in `accept()` | the accepted descriptor is lost when its object cannot be allocated |
| `Socket`: no `close()` under a call | a waiting call keeps a descriptor that `close()` and the next `socket()` give to another object |
| `Socket`: no `settimeout()` by another thread during `connect()` | `connect()` tests `retries` and puts the mode back without the GIL (lines 393-477): after a `settimeout(0)` in between the descriptor ends up blocking |
| `SocketEvents`: polite | a callback that unregisters its own and the next socket has the null callback of the latter called; callbacks that re-register keep one poll going |
| `RtcAlarm`: not inside `alarm()` | the earlier alarm fires between two assignments: armed, but the target says it is not |
| `Lan`: no overlap | a lease is stored after `active(False)` has cleared the flag |
| `Wlan`: alone | `active(False)` returns while another thread is in `wifi_start_ap`: the access point runs unwanted |
| `I2s`: interrupts in time | `dma_half` gets out of step with the hardware, for good |
| `I2s`: a ring with room for a chunk (`TransferEnds`, non-blocking) | `ibuf` below 320: the run `i2s_ibuf` |
| `I2s`: channel drains, careful program | memory is freed under a channel that still runs; a caller uses an object another is tearing down |
| `I2cTarget`: the bus of the handler's comments | two transfers whose bits meet in one status are told apart by the order of the branches only if the master waits |
| `Pwm`: at most 1 MHz | the period divides to 0 microseconds, and duty cycles are not restored |
| `Pwm`: the duty is asked for when the channel has a period | `PWM(p)`, `duty_u16(32768)`, then `freq(1000)` drives a duty of 0: lines 305 and 320 set an empty pulse, and nothing keeps what was asked for |
| `Pwm`: `sdk` is tidy | `pwmout_init` and `pwmout_free` gate the timer (line 13): if that clears its registers when the last channel goes or the first one comes, the timer no longer runs at the period asked for, and the prescaler of the SDK no longer is that of the timer |
| `Pin`: between calls, or after the first low | within a call an open-drain pad drives for one write the high that another mode left in its latch: `gpio_dir` comes before `gpio_write` (lines 325, 400-402, 445-446) |
| `Pin`: tidy programs | the interrupt stays enabled over a soft reset and schedules a handler that was swept |
| `Pin`: no SoftI2C, no push-pull driver | `toggle()` goes by a flag the driver does not keep; an open-drain pad is driven high |
| `MpThread`: outside the soft reset | `mp_thread_deinit` walks nodes that `gc_sweep_all` has freed (`ListSound` claims live nodes only before) |
| `Timer`: without `hard` | `init()` writes the flag before it stops the timer, so one interrupt may run the old callback in the new mode |

### Bounds

Two sessions suffice for every conflict between an old and a new OTA update,
and three threads for every conflict over a list entry, since each property
relates at most two of them and the third is the bystander (collector, main
task). Two descriptors are enough for one to be reused while the other is
watched, and for ENFILE. The sizes of buffers are the smallest for which a
buffer can be full, empty and in between, and a transfer can exceed it.
`MaxBytes`, `MaxSent`, `MaxLate`, `MaxAhead`, `MaxOps`, `MaxRead`, `MaxStream`,
`MaxLen` and `MaxUntold` are named bounds of the environment; `Polls` is the
number of retries of a long timeout. The counter of socket events has 4 values
in place of 256 and the divisor 2 in place of 8: what matters is that the
divisor is smaller than the range and that the counter starts at 0, so that it
wraps before the first poll. The PWM clock, its 16-bit period and its 8-bit
prescaler have their real size; the frequencies lie on both sides of each limit
(1 Hz and 3 Hz need a prescaler, 1 kHz none, 2 MHz has no whole period). The run
`i2s_ibuf` has halves of 1, chunks of 4 and a ring of 3 bytes for 64, 256 and 255.

### Fairness

Weak fairness is assumed of what the hardware or the scheduler guarantees: a
FIFO with bytes shifts them, a pending interrupt is taken, a CAN frame completes
or fails, a DMA channel that runs ends its blocks, a task that can run runs (no
Python thread spins without releasing the GIL: the interpreter yields between
bytecodes), the event hook is called (`MICROPY_EVENT_POLL_HOOK` in every wait),
an lwIP call returns once it has an answer. A USB host is fair only where
`stalls` is false, and no program is obliged to make a call. In `MpThread`,
taking a mutex is strongly fair: `mp_thread_mutex_unlock` yields after giving
the mutex (`mpthreadport.c:202-213`), and FreeRTOS wakes the longest waiter of
equal priority.

## 4. Proofs

Every safety property of a passing run is a theorem of its module's own
specification (`Spec`, `UsbSpec`, `PinSpec`, ...), for every value of the
constants that satisfies the named assumption of that module (`OtaAssumption`,
`SocketAssumption`, ...). Those assumptions say that bounds are natural
numbers, that sizes are positive, that a null value is not one of the objects,
for `SocketEvents` that the sockets are finite in number, and for `I2s` that the
ring holds at least one half of the DMA buffer (`RingSize >= Half`), which every
`ibuf` the constructor accepts gives: at least 255 bytes against halves of
max(64, `ibuf` / 8) or less. The premises
about the environment are those of section 3. A theorem covers more than its
run: any number of actors, any size of buffer, and every combination of the
fixed choices, where the run takes them one at a time.

No invariant is inductive as it stands; the table says what each lacks.

| theorem | inductive invariant | what the property lacks without it |
|---|---|---|
| `Ota_proof!TypeOKAlways` | `TInv` | that a blocked call and a callback have a session, and that a buffer holds at most its size |
| `Ota_proof!RunningIsActiveAlways`, `OneInProgressAlways` | `IInv`, with `RunningOK` | nobody changes `ota_active` under a running task because `make_new` refuses while `result` is pending and `finish` and `__del__` pass only with the token the task gives as its last act |
| `Ota_proof!NoUseAfterFreeAlways` | `OInv`, with `Held` | who may still refer to a session: calls are on live objects, a deletion is alone with its object, a sweep finds no call, and a task has all of its memory until the deletion has its token |
| `Ota_proof!BytesInOrderAlways` | `BytesInv` | what the task has, what is in the buffer and what the writer still has are, position by position, the bytes of one image (`Carried`); what `eof`, an error and an outcome mean |
| `UartTx_proof!InOrderAlways`, `ImplementsChannelAlways` | `TxInv` | at each point of `write()` what the interrupt may do (`Turns`): who may pop decides whether the wire, the FIFO, the byte in hand and the ring follow each other (`Way`) |
| `UartRx_proof!NoUseAfterFreeAlways`, `NothingLostAlways` | `RxInv` | which buffer the interrupt points at at each stage of `init()` (`HeapOK`, `Quiet`); a break is last in the FIFO, and taken, buffered and waiting bytes are consecutive (`Stream`) |
| `Can_proof!SlotAgreesAlways` | `CanTxInv` | what `send()` has chosen and not yet written (`Chosen`), and that a done bit belongs to its entry |
| `Can_proof!FilterReceivesAlways`, `StateReportedAlways` | `CanRxInv` | that the message buffer of a filter is a receiving one, and that a state not yet told has an interrupt on its way (`Known`, `OnItsWay`) |
| `MpThread_proof!ListSoundAlways`, `NothingLiveFreedAlways`, `ResetStopsThreadsAlways` | `ThreadInv` | who holds `thread_mutex` and the GIL (`Locks`), membership by place in the code (`Members`), and that what the collector has marked covers every listed thread (`Marks`) |
| `Socket_proof!FdOwnedAlways`, `ModeKeptAlways` | `SkInv` | the descriptor a waiting call captured is that of its object (`Captured`), one call takes an accepted descriptor (`OneAccept`), a closed descriptor is blocking (`ClosedBlocks`) |
| `Socket_proof!ListIsRegistryAlways` | `EventsInv` | the list as a numbered chain of the registered sockets (`Listed`), and that the node after the one whose callback runs stays registered (`Standing`) |
| `Timer_proof!TypeOKAlways`, `SlotsAgreeAlways`, `RunningIsRootedAlways`, `IsrOnLiveObject` | `IInv` | the object of a call is alive and has its timer (`CallOK`), since what the program holds has not been freed (`HeldOK`) |
| `Timer_proof!WholeUpdateAlways` | `Quiet` | from its stop to its start `init()` works on a timer that does not run |
| `Timer_proof!PadAgreesAlways`, `LiveHandlerAlways` | `PinInv` | the pad in the middle of a call; what is armed, rooted and queued about a handler (`IrqOK`, `HandlersOK`) |
| `Timer_proof!DutyKeptAlways` | `PwmInv` | active channels have the period asked for last and the compare value their duty takes (`SamePeriod`, `Driven`), no two share a pin, and both copies of the prescaler agree (`Synchronous`) |
| `Devices_proof!BufferStableAlways`, `AllOrNothingAlways` | `UsbInv` | what exists at each stage of the bring-up and the tear-down (`Together`); the mutex is taken by the one call past the lock (`OneSender`), and a transfer in flight is that call's (`OwnTransfer`) |
| `Devices_proof!ArmedForTargetAlways`, `RepeatAdvancesAlways` | `RtcInv` | what each point of `alarm()` has assigned; a repeating alarm has a positive interval (`IntervalOK`) |
| `Devices_proof!LeaseReflectedAlways` | `LanInv` | what each task has read and not yet acted on |
| `Devices_proof!InterfacesServedAlways` | `WlanInv` | which driver call a thread is in (`OneWaits`, `ApServed`, `StaServed`) |
| `Devices_proof!StreamInOrderAlways`, `ChannelHasMemoryAlways` | `I2sInv` | halves and ring together are one run of the stream (`TxOrder`, `RxOrder`), `dma_half` alternates with the hardware, and who may still use the memory (`CarefulUse`) |
| `Devices_proof!EveryTransferOnceAlways` | `TgtInv` | which of the four situations the handler is in: nothing left to report, a write, a read, or a read that has overtaken the STOP of the write before it (`Left`), and which bits of the status it has read are still to come (`ToCome`) |

`ImplementsChannelAlways` is the refinement of `ByteChannel`: the initial states
map to an idle channel, and each step of `UartTx` to one step of it or to none.
The byte put into `write_buffer` is `Accept`, the shift out of the FIFO is
`Deliver` (here `Way` says that the next byte on the wire is the next number),
the interrupt that finds `write_buffer` empty is `Settle` (here it matters that
the FIFO is empty too), and a re-init is `Renew`.
`WholeUpdate`, `ResetStopsThreads` and `RepeatAdvances` are properties of steps,
proved from the invariants of the same module.

Contents of buffers are stated position by position with explicit lengths
(`Way`, `Carried`, `InOrder`, `Run`), and lemmas on these carry an append, a pop
or a copy of a chunk. `ListIsRegistry` is about a recursive function, `Steps`:
its value on a chain is exhibited and shown to be the only one by the least
position at which another could differ (`StepsAlong`), which takes the place of
an induction.

Only model-checked: the liveness properties (`CallReturns` of OTA and of USB,
`WriteReturns`, `QueueDrains`, `FinishedLeaves`, `RecvReturns`,
`ReadableIsCalled`, `RepeatGoesOn`, `TransferEnds`), since fairness and
`ENABLED` are outside the prover; of `RepeatGoesOn` the part that is about
single steps is proved (`RepeatAdvancesAlways`).

## 5. Not modelled

* The internals of FreeRTOS, lwIP, the vendor drivers and the micropython core;
  in particular a stream buffer with two writers (`modota.c:167`), what
  `mp_init` does to the scheduler queue beyond emptying it, and what `extmod`
  does with an object whose constructor raised.
* `machine.I2C`, `machine.SPI`, `machine.SDCard`, `ameba.Flash`, `machine.ADC`,
  `machine.WDT`, `os.urandom`: one blocking SDK call under the GIL per
  operation, with no state of the port's own between two of them.
* `machine.bitstream`: its property is about nanoseconds.
* The console: its ring has one producer and one consumer and is the core's.
* Sleep, reset causes, `time`: constants and conversions of the SDK.
* Reception on USB, `sendbreak()` and `IRQ_RXIDLE` of the UART, `poll()` and
  datagrams on sockets, `scan()` of WLAN, PWM on AmebaGreen2.
* Callbacks nested in a call of the same driver: in a blocking one (UART, socket
  events), and a hard callback of a timer that calls `init()` of another while
  one is in progress.
* Data: image contents, calendar arithmetic, timer periods, bit timing of CAN,
  sample formats of I2S, formatting.
* The configuration fields of a UART whose `init()` raised half way.
* Timing below the order of events: bit-banged output, microsecond delays.

## 6. Plan

The models of the plan are written, and every safety property of their runs is
proved. What remains:

1. The steps of the liveness arguments that are not temporal, in the way of
   `RepeatAdvances`: for each waiting state the step that leaves it, and a
   quantity that decreases (the bytes a `write()` has left, the retries of a
   long timeout, the frames ahead of one in the queue of CAN).
2. The states from which the violations of section 3 start: a theorem for each
   that the documented behaviour holds without the one interleaving that breaks
   it (a second reader in `Socket`, a late completion in `UsbSerial`).
