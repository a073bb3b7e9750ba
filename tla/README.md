# A verification project for the smart-lock firmware

The firmware runs on an STM32F103 under RT-Thread. It drives a motorised lock,
watches sensors, reads RFID keys, takes pictures, and reports to a server and
to telephones through a GSM modem. This directory models the parts where
threads, interrupt handlers and the modem meet, checks them with TLC on small
instances and proves the most important statements with TLAPS for every value
of the constants.

`PROJECT.json` lists components, runs, findings, hazards, theorems, and for
each definition the source lines it stands for.

## 1. Inventory

### Threads, interrupts and what they share

Priorities (a smaller number runs first): console 20, init 80, gsm 100,
alarm 101, local 102, camera and voice 103, aip 104, sms 105, gprs 106,
mms 107, camera infrared 108, battery 120. The kernel is preemptive and the
processor single, so a thread is interleaved with those of higher priority at
any instruction and with those of lower priority only where it blocks.

Shared: the queues `alarm_mq`, `sms_mq`, `mms_mq`, `aip_mq`, `gprs_mq`,
`local_mq`, `mq_gsm` (20 messages each) and `photo_start_mq` (8); the mutexes
`mutex_gsm_mail_sequence` and `pic_file_mutex`; the events
`machine_work_status`, `alarm_inform_event` and `call_event`; TIM8 with the
pulse counters of both motors; the picture file; the modem's status pin.

```
 sensors --ISR--> alarm_mq --> alarm thread --> local_mq --> local thread --> motor, timers
                                   |--> sms_mq  --> sms thread  --+
                                   +--> gprs_mq --> gprs thread --+--> mq_gsm --> gsm thread --> modem
 camera thread --> mms_mq --> mms thread --> gprs_mq              |        |
 server's frames --> gsm thread or gprs thread, aip_mq --> aip ---+        +--> result semaphore
```

### Components

| Component | State it keeps | Operations | Correct when |
|---|---|---|---|
| Modem thread and mail interface (`gsm.c`) | `mq_gsm`, `gsm_mode`, status pin, mail in work | receive a mail, switch mode, execute, release the semaphore; reset loop | every mail is answered exactly once, while its sender still waits; no two sequences of commands are mixed |
| Users of the modem (`sms.c`, `mms.c`, `aip.c`, `gprs.c`, `local.c`) | session mutex, result semaphore, counters | sessions of one or more mails | mutexes are taken in one order; nobody waits for ever |
| Lock motor (`gpio_pwm.c`, `stm32f10x_it.c`) | pulse counters, channels, shared timer | `lock_output`, three device commands, two handlers | no burst is stranded or grows; a reported success is true; the motor stops |
| Sensors and alarm thread (`gpio_exti.c`, `alarm.c`) | debouncing times, `alarm_mq` | post, receive, check, pass on | order; no loss without a reason; quiet while asleep |
| Local thread (`local.c`) | gate, battery-switch and key timers, LED | key check, lock and unlock, timers | an open gate is watched until it closes |
| Battery (`battery.c`, `gpio_adc.c`) | one latch per level | measure, mail, unlock at 5 % | each level reported once per discharge |
| GPRS link (`gprs.c`) | `gprs_mq`, failure counter, order numbers, parameters | build and parse frames, server commands | a response is taken for its own request only |
| Picture upload (`gprs.c`) | file position, page counters, resend list | send pages, resend, final acknowledgement | the server has every byte when success is reported |
| Remote update (`aip.c`, `file_update.c`) | file, range | download by ranges, copy to flash | what is flashed is what was published |
| Modem power (`gsm.c`, `gpio_pin.c`) | power and reset pins | `gsm_setup`, `gsm_reset` | concurrent sequences leave the modem in a defined state |
| Camera, infrared (`photo.c`, `camera_uart.c`), voice (`voiceapp.c`) | buffer, semaphores, call event | take a picture, play | buffers freed once; alarm and call not confused |
| SMS and MMS coding, DES, byte utilities | none | pure conversions | - |
| Drivers (serial, flash, RTC, GPIO) | registers | I/O | - |

Vendored code (RT-Thread, FatFs, the STM32 library) is not modelled except for
the primitives the application calls: mutexes that are handed to the first
waiter, bounded queues, semaphores, event flags. Files that `SConscript` does
not compile (`mms_dev.c`, `sdcard.c`, `spicamera.c` and others) are left aside.

### What is hard here

- A mail to the modem thread carries pointers into its sender's stack and to a
  semaphore that the sender deletes. Nothing but the sender's unlimited wait
  keeps them valid.
- The picture upload ignores what `rt_mq_send` returns and then waits for ever.
  Nothing but the occupancy of the queue protects it.
- The console mails the modem without the session mutex; the modem may go down
  at any moment; the gprs thread switches it off behind the gsm thread's back.
- `lock_output` is called by up to three threads without a lock, does not wait
  for its pulses, and shares a timer between two motors whose handlers stop it.
- The server may put the machine to sleep while the alarm thread holds a mail;
  queues overflow silently; the alarm thread runs before `local_mq` exists.
- Timeout functions run in the tick interrupt, between any two steps of the
  thread that sets the timer up; edges are debounced by a clock that the server
  may set back.
- The gsm thread and the modem may disagree on whether the modem is in command
  or in data mode. What is read is all that has arrived, whatever it answers.
- A picture is sent again by stepping 8-bit counters back, and its verdict may
  be old, missing or something else. An update is loaded in ranges whose end is
  found by an error of the server, and what was loaded replaces the program.

`PROJECT.json` has the full list under "hazards", each at its line.

## 2. Modules and their correspondence to the code

| Module | Models | Kind |
|---|---|---|
| `MailService` | what the mail interface promises | abstract specification |
| `GsmMail` | `gsm.c`, the sessions in `sms.c`, `local.c`, `mms.c`, `aip.c`, `gprs.c`, `photo.c` | component, refines `MailService` |
| `GsmMailProofs` | | proofs |
| `Motor` | `lock_output`, `gpio_pwm_control`, TIM8 handlers | component |
| `MotorProofs` | | proofs |
| `AlarmPipeline` | sensor handlers, `alarm.c`, the sleep and wake-up frames | component |
| `AlarmPipelineProofs` | | proofs |
| `LocalWatch` | timers, mail loop and key reader of `local.c`, `battery.c`, the handlers' debouncing, new parameters and clock | component |
| `LocalWatchProofs` | | proofs |
| `GprsLink` | frames, orders and answers in `gprs.c`, mode switch and reads of the gsm thread in `gsm.c` | composition of both threads with modem and server |
| `GprsLinkProofs` | | proofs |
| `PictureUpload` | `send_picture_data` in `gprs.c` | component |
| `PictureUploadProofs` | | proofs |
| `AipUpdate` | `aip.c`, `file_update.c`, `firm_update.c` | component |
| `AipUpdateProofs` | | proofs |

`GsmMail` justifies what `LocalWatch`, `GprsLink`, `PictureUpload` and `AipUpdate`
take for granted: a mail to the gsm
thread is answered once, and sessions do not mix. They therefore replace the
exchange by its outcome.

The constants of each module are given directly by the `.cfg` files.
Definitions named `Mut...` are plausible wrong versions of the definition that
follows them; no specification uses them. They show that a property depends on
the code: with the wrong version in its place TLC finds it violated.

### GsmMail

A thread's `pc` says where it is in its session: `idle`, waiting for or inside
`mutex_gsm_mail_sequence` (`wait_gsm`, `session`), waiting for or inside
`pic_file_mutex` (`wait_pic`, `pic`), waiting for its answer (`wait_sem`), or
about to switch the modem off (`disable`). `sem[c]` is the client's result
semaphore, -1 while it does not exist, and `result[c]` the variable the mail
points to. `gpc` is the place of the gsm thread in its loop. One action stands
for each stretch of code between two points at which another thread can
observe a difference; `SendCmd` has the three outcomes of `send_cmd_mail` (no
queue yet, queue full, mail queued), `SendPage` has the queue-full case in
which the page is not queued and the wait begins all the same.

Abstracted: the text of commands and answers (an answer is success or failure,
arbitrarily), time (a wait of 100 ticks is `mq_gsm = <<>>`), priorities (all
interleavings are allowed, more than the scheduler produces), priority
inheritance, failures of `rt_sem_create`. `gsm_reset` and `gsm_setup` are one
step each with all outcomes.

A long session (MMS, download, picture) sends at most `MaxMails` mails, unless it
has come to a loop that need not end (`Loop`, recorded in `endless`): then its
mails are no longer counted, and an MMS never gives the picture file up. The size
of an MMS's picture is taken before the mutex is (`mms.c:38`), and the loop at
`mms.c:94-126` has no exit when a read returns nothing; a download may ask for an
empty range again and again (`AipUpdate`).

### Motor

`lock_output` is split at every access to the shared counters and registers:
set the counter, test it, enable the channel, start the timer, read the pin.
Both channels are bits of the register `CCER`. `TIM_CCxCmd` clears the motor's bit
and then sets it, and each time loads the register (`LoadCCER`, into `loaded`) and
stores it (`ClearChannel`, `EnableChannel`): what a handler or a thread of higher
priority wrote in between is overwritten. The handlers make the same two accesses
to it, but no thread runs in between. `erased` holds the motors that such a stale
store switched off.
A thread of higher priority runs to the end of a call before a lower one goes
on (`MayRun`), since the call never blocks; the handlers come at any moment.
`TIM_OCInit` leaves both channels enabled until the first overflow, so that is
the initial state. The mechanism is a position between 0 and `Top` with a
status pin that changes at `Switch`, and may jam. `quota`, `given`, `alone` and
`outcome` only record history for the properties.

Abstracted: time. A pulse takes about 2.7 ms, and the polls have no wait at
all: the loop of an unlocking call prints to the console, which slows it, the
loop of a locking call does not. The model therefore allows any number of
pulses, including none, between two polls. A shortened pulse, of a channel
enabled between the compare match and the overflow, is not counted as a pulse,
nor is one that is cut by the moment in which its bit is cleared.

### AlarmPipeline

An alarm mail is a number, `origin[n]` its sensor. `rx_ind` is the handler of a
sensor together with `send_alarm_mail`; `AlarmRecv`, `AlarmCheck` and `Forward`
are the alarm thread's loop, one step per queue it sends to; `recv_gprs_frame`
and `machine_status_deal` are the two visible steps of a sleep or wake-up
frame, handled by the gsm thread (which preempts the alarm thread) or by the
gprs thread (which runs while that one is blocked). `ForwardToNull` is the
failed assertion of `rt_mq_send`, which spins for ever. `lost`, `ignored`,
`late` and `taken` record history.

The clock only moves forward, and starts at 0 or later than the debouncing
interval: a clock that kept the time, or one that was reset. The infrared
sensor, whose handler signals the camera, is left to the camera's module.
What the receiving threads do with a mail is not part of this module.

### LocalWatch

`episode[w]` follows the gate, the supply or the key: `quiet` when closed,
`owed` when its edge was mailed and not yet reported, `dropped` by the
debouncing, `settled` when a report was sent or the mail lost. The pin is
`episode[w] # "quiet"`. `Begin` and `End` are the two edges with their handlers;
only the supply's sensor interrupts on both. `hand` and `at` are the local
thread's mail and place; `lock_gate_process` is split where the gsm thread or a
timeout can come between: LED, comparison of the alarm time, counts, start of
the timer. `TimeoutLooks` and `TimeoutReports` are the two branches of the
timeout functions. `BatteryLooks` and `BatterySamples` are the battery thread
before and after its ten samples. `due` (the counts set last), `waited` (the
timeouts since then) and `raced` record history.

Abstracted: time (a pause longer than the interval happens or does not, an
active timer fires at some time); the way from handler to `local_mq`, on which
a mail may be lost (AlarmPipeline); what a key is compared with. A behaviour
uses the sensors of one of `Scopes`, because the gate and the supply share
nothing but the thread. With `ClockUnset` the clock may stand at its beginning
when the machine starts, and the server may set it back
(`process_gprs_set_time`): until it has caught up, every edge comes too early.

### GprsLink

`modem` is what the modem does with bytes (`off`, `cmd`, `data`), `gsm_mode`
what the gsm thread believes; `down` and `rx` are what is on its way from the
server and what has reached the processor. A request is a heartbeat or an
alarm with its order; the server answers it with the same order. `SwitchMode`,
`AuthRead`, `WriteFrame`, `NoResponse`, `ReadResponse`, `IdleRead` and `Reset`
are the gsm thread's loop, `Heart`, `SendFrame`, `Judge`, `JudgeNothing` and
`Failure` the gprs thread's. A modem in command mode echoes the request, which
the code finds in the response; the echo of a frame that contains a carriage
return (`CrOrder`) is not recognised. Several items in `rx` are read as one
frame, of which only the first is looked at. `stale` is a `CLOSED` that stays in
the never-cleared buffer behind a shorter frame.

Faults are bounded by `Faults`: lost and late frames, a closed connection, a
lost modem, a failed escape or connect, a failed reset. An answer is assumed
not to be on its way for a whole turn of the order counter less one (255
requests in the firmware). Those that would be are taken away, and the others
keep their order (`NotOfOrder`).

Commands that set something are modelled; those that list, take pictures or set
keys are not. Not each is carried out as it stands: a list with too many entries
is passed over (`TooMany`), an address of more than 99 bytes is cut off and digits
of a time that are none become zero (`Altered`, recorded in `altered`); all three are
acknowledged as done. The acknowledgement of a new key waits for a response
that never comes (`gprs.c:1140`) and then counts as a failure; it is left out.

A picture's upload (`UploadPage` to `EndUpload`) is reduced to what it does to the
commands of the server: all that it reads goes into one frame, which
`recv_gprs_frame` parses after the page, at `RSEND_LOST_PAGE` and at the end of a list
of lost pages. Each time it swaps the bytes of the length in
place (`gprs.c:1711`), so that the same command is carried out the first time, refused
the second and carried out again the third; at the end of an iteration the frame's
data is zeroed and its length and command are not (`Wipe`). The frame is not
initialised, so that the next upload may find the command once more. `spoiled` records
the commands that are parsed again or after their data was wiped. Pages,
counters and verdicts are in `PictureUpload`.

### PictureUpload

`pc` names the labels of `send_picture_data`: `page` is the top of its loop,
`check` is `CHECK_SERVER_SEND`, `verdict` is `RSEND_LOST_PAGE`, `resend`
and `look` the inner loop over lost pages, `last` is `LASTPAGELOOP`, `next` the
end of an iteration. `frame` is the receive frame that all answers
share, whose result is zeroed after each page and whose command is not. It is not
initialised, so it begins as anything, also as the verdict on an earlier picture.
Verdict and list of lost pages lie in a union with the data of every command
(`gprs.h:282`): a command that is read instead of a verdict replaces them by other
bytes (`OddFrames`, `Garbage`), from which pages outside the picture may be sent, and
what lies behind the end of a list may be read too (`Listed`). A page from the last
one on waits for an answer itself. `told` says whether the frame holds a verdict
of the server on this picture. `taken` is what the modem accepted, `received` what
the server has. `excused` records success without a verdict: read from another
frame, or after giving up (three failures, the last round). `misled` records a failure
or a list of lost pages read from another frame.

Abstracted: the bytes of a page. The server answers only the last page, names
lost pages in increasing order (`Listings`), and may answer with an old verdict.
A picture has at most 255 pages (`PagesAssumption`), which is what the 8-bit counters
can hold; larger ones are not modelled.

`HasRoom` relates the number of pages to the width of the counters, and is a
condition of `SuccessBacked` and `FaultsTolerated`. The code does not ensure it.
`photo_get_size` refuses pictures of more than 70000 bytes (137 pages, for which
`HasRoom` holds), but only or-s its error to the others (`photo.c:340`), and
`photo.c:495` compares with `==`: after a timeout (`photo.c:379`) a picture of any
size is kept, and `photo.c:621` announces it.

### AipUpdate

`pc` follows the aip thread: `setup`, `get` (the modem's HTTP action), `read`
(chunks), `stage` and `surplus` (`file_write_flash_addr`), `program`
(`firm_update`), `reset`. A byte of an image is the pair of its command and its
position, so that a mixture or a shift is seen. `start`, `end` and
`aip_complete` are the variables of `get_aip`, `range` what the modem was told
last. The file is opened without truncating it, and what `unlink` returns is not
looked at (`aip.c:42-43`): if it fails, or if the card has kept a part of the old
file, the image is written over its beginning (`OpenFile`, `WriteFile` at `pos`) and
the rest of it stays behind the image (`kept`). `CloseFile` may fail and keep less
than was written, which the code prints only. `gap`, `refused` and `damaged` record
the failures the code does not notice: a chunk or the end of the file that is not read
or written, a 400 for a range inside the image, a failed copy.

The server is assumed to answer 400 to a range that reaches past the end, which
is what `get_aip` is written for. An image fits the flash. A power failure while
programming is not modelled: the firmware has nothing to survive it with.

## 3. Runs

| Run | Instance | Shows |
|---|---|---|
| `gsm_mail` | SMS, ring, MMS, GPRS client, console, camera; queue of 2; 2 mails per long session; 1 failure tolerated | safety, the inductive invariant, refinement of `MailService!Spec` |
| `gsm_mail_live` | download, MMS, GPRS client, camera; queue of 1; no failure tolerated | every request is answered, every mutex granted unless its owner loops for ever, refinement of `MailService!FairSpec` |
| `motor` | local and gprs thread, 1 poll, bursts of 1 and then 2, travel 2, jams | no stranded burst, bounded bursts, true successes, the motor stops |
| `motor_error` | one caller, no jams | violated: see findings |
| `alarm_pipeline` | a sensor with one destination and one with three, from power-on; `alarm_mq` of 2, other queues of 1, 3 mails, clock up to 4 | order, no unexplained loss, quiet asleep |
| `alarm_pipeline_live` | queues of 1, 2 mails, the server may send frames for ever | every alarm is settled |
| `alarm_start_up` | as `alarm_pipeline` | violated: see findings |
| `local_watch` | gate and key, or supply and key, calls, battery; queue of 1; alarm times on both sides of the limit | what lasts is watched, reported on time and in the end; the LED agrees; a low battery's mail unlocks |
| `local_gate_dropped` | the gate | violated: see findings |
| `gprs_link` | heartbeats, an alarm or an upload, one of two commands, 2 faults, 3 orders, queue of 1 | answers are not confused, the server is told the truth, the link recovers |
| `picture_upload` | 3 pages, a check after the third, counters of 16 values, 5 faults, 1 odd answer, any frame to begin with | counters agree, pages are the picture's, success is backed, two faults are made good, the upload ends |
| `aip_update` | 2 commands, images of 4, 5, 7 or 9 bytes, an old file of 8 or none, ranges of 4, chunks of 2, blocks of 3, 2 faults, 2 odd answers | ranges join, the program is the image, the session ends |

### Why the bounds are enough

- **GsmMail.** Two slots are the least that `QueueAssumption` allows for one
  console: the queue gets full, with a mail of the console behind one of a
  session, and that nobody sends then is what the run shows. One thread of each
  kind suffices because each kind is one thread in the firmware; a download
  (`Aip`) is an MMS without the picture file and takes part in the liveness run, where
  it may keep the session for ever, and the console in the safety run. The
  proofs cover all of them together. Two mails per session are
  the least at which something can come between two commands, and two pages the
  least at which an answer left over in the shared semaphore would be seen. A
  tolerance of one failure lets the counter rise, be reset by a success, and
  pass its limit; in the liveness run a tolerance of none makes the modem go
  down as often as possible.
- **Motor.** A last burst of two pulses has a first, a last and a moment in between,
  the burst before it is of one; a second call restarts a burst while it is being
  sent, and its stores of `CCER` fall between all accesses of the first; a travel
  of two with the switch at one lets a burst end on either side of the switch and
  at the stop. The proofs cover all numbers.
- **AlarmPipeline.** With three mails, `alarm_mq` of two and queues of one, every
  queue overflows, and a later mail overtakes an earlier one if anything allows
  it. An interval of one and a clock up to four have an edge too early, one just
  in time, and one that comes too early because an edge that was dropped
  restarted the interval.
- **LocalWatch.** Alarm times of one and three around a limit of two exercise the
  default; the server may exchange them at any moment, so that a time is compared
  and another used. A queue of one is full whenever two mails meet.
- **GprsLink.** Three orders let an order return while an answer to its earlier
  use is late, as far as the assumption on late answers permits; two faults have one
  (a closed connection, a lost modem, a lost frame) meet another (a failed escape, a
  late answer); a limit of one failure lets the counter rise, be reset and pass its
  limit. The three orders include the one whose echo is not recognised. A queue of
  one is full when a command is parsed twice. The command is one that is carried out as
  asked, or one that is not; those with too many entries, which change nothing, are
  left to the proofs. With at most one command, a server that sends
  commands without end, whose acknowledgements reset the failure counter, is not
  part of the run.
- **PictureUpload.** Three pages and a check after every third one have no check
  before the last page, so that a picture may reach its verdict with a frame
  that no answer has filled, as one of less than ten pages does; once the counters were
  stepped back, checks come before it as well. Counters of 16 values wrap when stepped
  back below zero, and behind the wrap checks come out of step with those before it,
  as with 256 values and every tenth page; `HasRoom` holds. Bytes that are no
  list are the first page, the last one, and one behind the picture, alone or
  behind the end of a list. Five faults exceed every limit of the instance
  (`ErrorMax` 3, `LastMax` 3, `GiveUpMax` 3) and suffice to step the counters back
  again after a refused page. A list of more than one wrong page is left to the proofs.
- **AipUpdate.** The sizes are exactly a range, just as much as the modem's memory,
  the end of the second range, which is also behind a block, and a multiple of the
  block; the old file is larger than three of them and smaller than one, or not there. Two
  commands let the second come while the first is being loaded, and find the file
  of the first. Two odd answers are enough to have an image that fits be loaded by
  ranges and then refused.

### Fairness

Weak fairness of a thread's steps says that a thread which can run is
eventually run; the firmware justifies it because every thread blocks in each
round of its loop, so lower priorities get the processor. No fairness obliges a
client to start a session, the server to send, or a sensor to fire. Beyond
that:

- **GsmMail** assumes that the modem does not fail to start for ever
  (`SF(GsmResetSuccess)`) and does not drop its status pin before every single
  look at the queue (`SF(GsmPoll /\ gsm_status = 1)`). Without these no firmware
  could answer. `WF(PhotoEnd)` assumes that the camera thread finishes its file.
  Nothing is assumed of a session that has come to a loop without end
  (`endless`): its requests are answered, but those who wait for its mutexes wait on.
- **Motor** assumes that a call which may run goes on and that the timer counts
  while it is enabled.
- **AlarmPipeline** assumes strong fairness of the alarm thread, the receiving
  threads and the gprs thread's frame handler: the gsm thread preempts them
  whenever a frame arrives, but blocks between two frames, so they become able to
  run again and again and are run.

- **LocalWatch** assumes that the local thread runs on (the modem answers it,
  `RequestAnswered`) and that an active timer fires. Nothing obliges a gate to
  close or a pause to happen.
- **GprsLink** assumes that both threads run on and that what the server sends
  arrives, or is lost as a fault. The heartbeat is a step of the gprs thread, which
  makes one after a minute without a mail, so requests never cease. An upload
  comes to its end (`SF(EndUpload)`), which is `Terminates` of `PictureUpload`.
- **PictureUpload** and **AipUpdate** assume that their thread runs on and every
  mail is answered.

Deadlock is checked in all runs. The system never stops: a console, a call, a
tick or a frame is always possible. `PictureUpload` ends when the function returns
(`Returned`) and `AipUpdate` when all commands are dealt with or the processor is
reset (`Rest`); both states are explicit steps that change nothing.

### Findings

- **A motor error of a motor that works** (`motor_error`). A locking call polls the
  pin as fast as it can and waits for no pulse (`gpio_pwm.c:496-508`; a pulse takes
  2.7 ms). When the polls are used up before the first pulse comes, it takes the
  branch commented as `//motor error` (`gpio_pwm.c:512`), mails `MOTOR_FAULT`, for which
  the user is told to call the dealer (`sms.c:62`), and returns -1 with its burst
  still to come.
- **An open gate that is never reported** (`local_gate_dropped`). Edges within ten
  seconds of the last one are dropped, and also restart the interval
  (`gpio_exti.c:440`). A timer from an earlier opening looks while the gate is
  closed for a moment and stops; the gate is opened again at once, the edge is
  dropped, and the gate stays open without a timer or an alarm. The design
  document says that the alarm time is the time after which a gate that is not
  closed raises an alarm. The run has a clock that goes forward only
  (`ClockUnset = FALSE`). `Watched` and `Reported` show, in the other run, what else
  leaves a condition without a report: a lost mail, and an edge that is dropped because
  the clock is unset or was set back.
- **A null queue at start-up** (`alarm_start_up`). The alarm thread may send to
  `local_mq` before the local thread has created it (`alarm.c:135`); the
  assertion `RT_ASSERT(mq != RT_NULL)` in `rt_mq_send` fails, and spins at a
  priority that keeps the local thread from ever creating the queue. The other
  sender, `send_local_mail`, tests the pointer.

The properties also name what they excuse, and each excuse is a behaviour of the
code worth knowing:

- A call of `lock_output` that comes while the burst of an earlier one is still being
  sent may find the pin as asked, and report success and stop nothing; the rest of
  the burst then turns the lock the other way (`gpio_pwm.c:467`). `SettledFromRest`
  shows what remains true: a success of a call that began at rest and was not
  overlapped stands.
- A thread that enables one motor's channel while a handler, or a thread of higher
  priority, writes `CCER` stores an old value over it: the other motor is switched off in the
  middle of its burst, whose pulses are then counted off without being given
  (`erased`), or on again after its end for a pulse (a burst of its own in `BurstBound`).
  After start-up both channels are on, and the first call clears its own bit before it
  sets it; should the timer run then, the other motor would be driven for a moment.
- A session that loops for ever keeps the modem from all other threads: an MMS whose
  picture was replaced by a shorter one between `mms.c:38` and `mms.c:86` (with
  the picture file too), and a download as below (`endless` in `MutexGranted`).
- From `gsm_mode` GPRS with a modem in command mode the link recovers only
  because the modem echoes the request; from the opposite disagreement, and from a
  series of answers that are each one request late, only because the failure
  counter switches the modem off. `CLOSED` in a response is not looked for: the
  search at `gsm.c:1360` is made in the request.
- A list of telephones or cards with too many entries is ignored and acknowledged
  as done (`TooMany` in `ToldTheTruth`). So is an address that is cut off at 99 bytes
  (`gprs.c:1696`), and a time with digits that are none (`Altered`).
- A command that an upload reads into its frame is parsed more than once: it is
  carried out and acknowledged as done, then refused for its swapped length
  and acknowledged as failed, and may be carried out a third time after its data
  was zeroed, which clears what it was to set (`spoiled` in `ToldTheTruth`).
- Of several frames read at once only the first is looked at, and a command in it
  is acknowledged as failed.
- A picture counts as sent when the last page could not be sent three times, when
  the rounds are used up, or when a command came in the verdict's place, or lay in the
  frame from before (`excused`).
- What lies in the frame from before is read as the verdict on a picture of less than ten
  pages if its last page goes unanswered once: the upload may fail by it at the first
  fault, or send pages that are not the picture's. So may a command read instead of a
  verdict (`misled`).
- A picture of some 230 pages (117 KB) could be stepped back until the 8-bit
  `page_sum` wraps to 0: the loop would end at once, with success and with pages
  never sent. The limit of 70000 bytes on the camera's pictures is meant to keep that
  from happening and does not after a timeout (`HasRoom`).
- An image whose size is a multiple of 65535 plus one, if it is loaded by ranges,
  makes the aip thread ask for a range behind the end for ever, with the session
  mutex held (`RangeEndsImage`). It is loaded by ranges if it is larger than the
  modem's memory, or after one answer 602 without need: then an image of exactly the
  first range, 65536 bytes, is enough.
- After a failed `unlink` the file keeps the end of a longer old image, which is
  copied and programmed behind the new one (`kept`).
- A 400 for a range inside the image, followed by a lack of memory, passes for
  its end (`refused`). A failed read or write of a chunk is not noticed (`gap`),
  and the copy to flash reports success after a failed block (`damaged`, against
  the comment at `file_update.c:12`).

## 4. Proofs

All leaves are checked by TLAPS (Z3, Zenon and, for the temporal steps, LS4).

### GsmMailProofs

Assumptions: the kinds of thread are disjoint where the code distinguishes them
and the number of consoles is finite (`KindsAssumption`); the queue has a slot
for each console and one more (`QueueAssumption`; the firmware has 20 for one
console); the bounds are numbers (`BoundsAssumption`).

None of the properties is inductive alone. `NoDanglingMail` needs that only the
owner of the session mutex and the consoles have mails, which needs that a
thread inside a session owns the mutex, which needs that a suspended thread is
listed once and never while it owns the mutex. `NoLostRequest` needs that the
queue is not full when a page is sent, hence the bound on its occupancy, hence
again the ownership of the session; and it needs that the semaphore shared by the
pages of a picture is back at zero when the next page is sent. `IInv` is the
conjunction of these facts:

- mutexes: `KindOfWaiter`, `SessionOwned`, `PicOwned`, `GsmOwner`, `PicOwner`,
  `WaitersListed`;
- mails: `OneServed`, `QueueExists`, `MailsAwaited`, `WaitersMailed`,
  `WaitsOnSem`;
- the gprs thread: `UploadSem`, `ErrorsCounted`.

Nothing in it depends on `endless`: a loop without end sends mails as any
session does.

`InductiveInvariant` is proved by one lemma per action and group of conjuncts.
The occupancy bound follows by counting: outstanding mails have different
senders, of which at most one uses the mutex. From `IInv` follow `TypeCorrect`,
`MailsNeverDangle`, `RequestsNeverLost`, `SequencesNeverInterleave`,
`LocksOrdered`, `QueueNeverFull`, and `MailServiceImplemented`: each step of
`GsmMail` is a step of `MailService` or changes nothing there. The refinement
maps the session to the owner of the mutex and a client's request to its wait:
pending while the semaphore is at zero, answered once it is released.

### MotorProofs

Assumptions: callers are among the three threads, bursts have at least one
pulse, the status pin changes somewhere within the travel.

`MotorInv` adds to the types: `Armed` (a motor with pulses left is about to be
switched on by some thread, or is switched on, or was switched off by a stale
store), `ChannelsPaired` (a stopped timer has both channels on or both off unless a
thread between its stores of `CCER` and the start of the timer is about to start it),
`AloneUndisturbed` and `SuccessSettled` (the other motor has no pulses left
during and after an undisturbed call, and cannot be switched on alone, except
between the call's own two stores), and
`PulsesCounted`, which bounds the pulses given plus those still to come, where a
channel left on by a late test counts for one. The last one is what makes
`BurstBound` inductive: from the test to the second store (`Enabling`), the pulse that
will come too many has not been given yet, and a stale store that switches a motor
on without pulses begins a burst of one. Theorems: `MotorInvariant`, `MotorTypeCorrect`,
`BurstsNeverStranded`, `BurstsBounded`, `SuccessStays`.

### AlarmPipelineProofs

Assumptions: sensors are among those of the code, bounds are numbers.
`AlarmTypeCorrect` is inductive as it stands. `QuietInv` says that asleep, the
mails passed on are all the same mail, and that it is the one in hand while the
alarm thread is passing on; from it, and from the types, `AsleepIsQuiet`.

`InOrder` and `NoneDisappears` are inductive together with two facts (`WayInv`):
what is recorded as lost or ignored is about mails that were posted (`Recorded`),
and the alarm thread passes a mail on only to queues its flags name (`Flagged`).
`AlarmWayInvariant` rests on lemmas about sequences: what sending to a full or not
full queue and taking from its head do to the elements, to their order, and to the
order between two queues. From it `AlarmsInOrder` and `AlarmsNeverDisappear`.

### LocalWatchProofs

Assumptions: queue and alarm times are numbers (`TimesAssumption`), sensors and
levels are those of the code (`ScopeAssumption`).

`Watched` is not inductive: a mail taken from the queue has to be known to reach
the step that starts its timer. `WatchInv` adds `Places` (which mail is in hand at
which step), `KeyTimed` (a key being read still has its timer, or a new mail) and,
for the two statements that leave the middle of `lock_gate_process` out,
`LitWhileSetUp` and `CountsAgree`, which speak about that middle. A timer that
still runs from an earlier opening when the next mail is looked at is the delicate
case: its counts stay right until they are set anew. Theorems: `WatchInvariant`,
`WatchTypes`, `NothingUnwatched`, `LedIsRight`, `ReportsOnTime`.

### GprsLinkProofs

Assumption: at least two orders, other bounds are numbers (`LinkAssumption`).

That an answer is not taken for another request's needs to know where answers may
be and which orders they may have: one with the last order is of the last request
(`AnswersOld`, for what is on its way, in the receive buffer and in the response),
and none has the next order, except one that will be read before that is used
(`AnswersFit`). `Turns` says which thread has the request meanwhile. That the
server is told the truth needs that a command arrives once and in one place
(`Apart`), that nothing is known of it before it is looked at (`Unknown`), that an
upload's frame holds a command that is nowhere else, unknown as long as its length
is right and never carried out if it was wrong from the beginning (`HeldOnce`), and that
the acknowledgements still queued are true (`MailedTheTruth`). `LinkInv` is their
conjunction. Theorems: `LinkInvariant`, `LinkTypes`, `AnswersBelong`,
`ServerToldTheTruth`.

### AipUpdateProofs

Assumptions: sizes are positive, images fit the area, a range has at least two
bytes and fits the modem's memory (`SizesAssumption`), bounds are numbers.

`RangesJoin` needs where the next request begins (`Asking`: at the place where the
file is written next, unless a chunk was skipped) and where the answer being read
ends (`Reading`: where the next range will begin, or with the image). `WholeImage`
needs in addition that the blocks copied so far are the file's, and that a file
which is staged was written up to the length of the image (`CopyAgrees`); an old file's
rest behind it is copied with it. `FileJoins` states `RangesJoin` byte by byte,
which is what the steps keep. `UpdateInv` is their conjunction. Theorems:
`UpdateInvariant`, `UpdateTypes`, `RangesAlwaysJoin`, `RestartsWithWholeImage`.

### PictureUploadProofs

Assumptions: the counters can hold the pages (`PagesAssumption`) and the limits are
numbers (`LimitsAssumption`); failed checks do not step back further than the
distance of two checks (`ChecksAssumption`, both are 10); the other limits leave at
least as many attempts as the limit of refused pages (`TriesAssumption`: 3 against
10, 3 and 10). Nothing is assumed of the frame at the beginning, nor of the bytes that
are read where no list is. That the counter of the pages to come has room
(`HasRoom`: 137 + 6 + 30 < 256) is a condition in the two statements that need it.

`UploadInv` has three groups of facts.

- Counters: `WithinList` keeps the position within a list of the server. `Limits` bounds them where they are counted; `Unwrapped` says that
  without a refused page or a missing verdict nothing has wrapped, since a check
  begins after a tenth page and steps back at most to the one before. `RoomLeft`
  bounds `page_sum` by what a refused page may add: checks lie `CheckEvery` pages
  apart also behind the wrap (lemma `ChecksApart`), so that each refused page makes
  for one further check at most. Hence `page_sum` never wraps, although `cur_page`
  may.
- Pages: `AllSent` (the pages before the current one were taken), `LastOnly` (a
  verdict is read after the last page only), `OkIsTrue` (behind the last page an ok in
  the frame is a verdict, not a zeroed field), `AllNamed` (a verdict of the server names
  every page that is missing, and no page that is not the picture's).
- Faults: `FaultsCounted`, `NoneYet` and `RoundsCost` say that each counted attempt
  was caused by a fault of its own. In particular a round of lost pages needs a
  fault before it, and leaves a page missing only by another one. `FewAreNoHarm`
  then excludes every way to fail.

Theorems: `UploadInvariant`, `UploadTypes`, `CountersAlwaysAgree`,
`PagesInPicture`, `SuccessIsBacked`, `FewFaultsTolerated`. The proof found what the
run had not: without `HasRoom` `SuccessBacked` is false, because `page_sum` wraps to 0.

### Only model-checked

Every invariant and every action property of a passing run is also a theorem. What
remains with TLC is liveness under fairness (`RequestAnswered`, `MutexGranted`,
`ComesToRest`, `AllSettled`, `Reported`, `Recovers`, `Terminates`, `SessionEnds`)
and with it the refinement of the fair `MailService!FairSpec`: the prover has no
rules for ENABLED. The three violated properties are counterexamples of TLC.

## 5. Plan

Built, in this order: the mail interface, on which all communication depends;
the motor, which is what the device is for; the alarm pipeline, which joins the
sensors with both; the local thread and its timers; the link to the server; the
picture upload; the remote update; then the proofs of each. Left:

1. **Abstract specifications** of the picture upload and the alarm pipeline, and
   proofs that the modules implement them, as for the mail service.
2. **Modem power** - the pin sequences of `gsm_reset` and `gsm_setup` running
   against each other.
3. **Camera, infrared, voice** - buffer, semaphores and events; start-up order.
4. **MMS** - the order of its commands, the static mail.

## 6. Not modelled

Register-level drivers, the vendored kernel beyond the primitives above, the
PDU and UCS2 conversions, DES, console tests, and code outside the build. The
camera's protocol, the infrared and voice threads and the order of the AT
commands of an MMS are not modelled either; they are marked in `PROJECT.json`,
and their hazards listed there with a note.
